SPECIFICATION Spec
CONSTANTS
  c1 = c1
  c2 = c2
  k1 = k1
  k2 = k2
  Callers = {c1}
  Closers = {k1}
  NameOf <- TwoCommands
  IdleTimeout = TRUE
  Replies <- AllReplies
  Noise <- Disturbance
  MaxNoise = 2
  MaxInFlight = 1
  None = None
INVARIANTS
  SendsHaveRoom
  AnswersNameTheirCommand
  AwaitedResponseIsPrivate
CHECK_DEADLOCK FALSE
