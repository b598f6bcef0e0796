SPECIFICATION Spec
CONSTANTS
  Frames <- SomeFrames
INVARIANTS
  TypedReportsAreSound
  ResponsesInAnyFormat
  OnlyUnknownTypesHaveNoError
CHECK_DEADLOCK FALSE
