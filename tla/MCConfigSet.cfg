SPECIFICATION Spec
CONSTANTS
  NotFinite = NotFinite
  None = None
  Updates <- UpdatesAtBounds
  Initial <- Factory
  Changes <- OneOther
  MaxChanges = 2
INVARIANTS
  OthersChangesSurvive
  UpdatesAreWhole
  SuccessWasObserved
  ErrorsTellHowFar
CHECK_DEADLOCK FALSE
