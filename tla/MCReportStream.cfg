SPECIFICATION FairSpec
CONSTANTS
  Capacity = 3
  MaxReports = 8
INVARIANTS
  TypeOK
  NothingUnaccounted
  RingHoldsNewest
  AtMostOneLate
PROPERTIES
  ImplementsDropOldest
  PublishReturns
  StreamCloses
CHECK_DEADLOCK FALSE
