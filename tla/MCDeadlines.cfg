SPECIFICATION Spec
CONSTANTS
  Settings <- SmallSettings
  DefaultCommandTimeout = 4
  DefaultReportBuffer = 1
  Pieces = 2
  MaxTime = 9
INVARIANTS
  IdleWaitIsBounded
  EndsAreDue
  CommandsAreBounded
CHECK_DEADLOCK FALSE
