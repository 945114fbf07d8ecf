SPECIFICATION Spec
CONSTANTS
  TotalFrames = 12
  WordBits = 4
  PageSize = 2
  LowMem = 2
  KernelEnd = 3
  HeapStart = 12
  HeapSize = 4
  MaxBlock = 3
  MemoryMaps <- RegularMaps
INVARIANTS
  SummaryExact
  FreeCountExact
  FramesConserved
  PoolIsUsableRam
