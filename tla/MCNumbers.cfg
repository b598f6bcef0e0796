SPECIFICATION Conversion
CONSTANTS
  Width = 9
  Precision = 6
  Unit = 8
  Scale = 5
  MaxExponent = 10
  NotFinite = NotFinite
INVARIANTS
  ConversionsAreFaithful
CHECK_DEADLOCK FALSE
