SPECIFICATION Spec
CONSTANTS
  Records <- MCRecords
  MaxRecords = 4
  Limit = 9
INVARIANTS
  ReadUpToTear
  OneLinePerTear
CHECK_DEADLOCK FALSE
