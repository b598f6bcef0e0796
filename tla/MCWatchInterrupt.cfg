SPECIFICATION Spec
CONSTANTS
  Verbs = {"watch"}
  Flags = {"good"}
  Durations = {"zero"}
INVARIANTS
  InterruptingExitsZero
CHECK_DEADLOCK FALSE
