SPECIFICATION FairSpec
CONSTANTS
  Capacity = 1
  MaxFrames = 4
INVARIANTS
  FramesAreAccountedFor
PROPERTIES
  ResponsesGetThrough
  VelocityFlows
CHECK_DEADLOCK FALSE
