SPECIFICATION SysSpec
CONSTANTS
  BufferSize = 3
  MaxKeys = 4
  BufferCap = 3
  Lengths = {0, 1, 2, 4}
  MaxCalls = 2
CHECK_DEADLOCK FALSE
INVARIANTS
  LineIsTyped
PROPERTIES
  QueueSpec
  KeysRead
