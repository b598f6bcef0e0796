SPECIFICATION Spec
CONSTANTS
  c1 = c1
  c2 = c2
  k1 = k1
  k2 = k2
  Callers = {c1, c2}
  Closers = {k1, k2}
  NameOf <- SameCommand
  IdleTimeout = FALSE
  Replies <- Accepts
  Noise <- NoNoise
  MaxNoise = 0
  MaxInFlight = 1
  None = None
INVARIANTS
  TypeOK
  EveryCallIsOwed
  AnswersOwnCall
  CauseIsGenuine
  InterruptedCallsTellCause
  CloseSettles
  AnswerFindsItsCommand
PROPERTIES
  ImplementsService
CHECK_DEADLOCK FALSE
