SPECIFICATION Spec
CONSTANTS
  Sectors = {1, 2}
  Values = {"old", "new"}
  Initial = "old"
  Timeout = 2
  MaxCalls = 4
CHECK_DEADLOCK FALSE
INVARIANTS
  SectorsHold
PROPERTIES
  CallsEnd
