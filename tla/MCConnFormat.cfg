SPECIFICATION Spec
CONSTANTS
  c1 = c1
  c2 = c2
  k1 = k1
  k2 = k2
  Callers = {c1}
  Closers = {k1}
  NameOf <- TwoCommands
  IdleTimeout = FALSE
  Replies <- UntypedFormat
  Noise <- NoNoise
  MaxNoise = 0
  MaxInFlight = 1
  None = None
INVARIANTS
  NoAwaitedResponseIsPublished
CHECK_DEADLOCK FALSE
