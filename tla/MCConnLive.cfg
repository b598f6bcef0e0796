SPECIFICATION FairSpec
CONSTANTS
  c1 = c1
  c2 = c2
  k1 = k1
  k2 = k2
  Callers = {c1}
  Closers = {k1}
  NameOf <- TwoCommands
  IdleTimeout = FALSE
  Replies <- Accepts
  Noise <- SomeDisturbance
  MaxNoise = 1
  MaxInFlight = 1
  None = None
PROPERTIES
  CallsReturn
  CloseReturns
  EndStopsEverything
  ReaderGetsBack
CHECK_DEADLOCK FALSE
