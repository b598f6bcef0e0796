SPECIFICATION FairSpec
CONSTANTS
  Verbs <- AllVerbs
  Flags = {"good", "bad", "help"}
  Durations = {"zero", "positive", "negative"}
INVARIANTS
  StatusIsTrue
PROPERTIES
  EndStopsTool
  RequestStopsTool
  CommandsEnd
CHECK_DEADLOCK FALSE
