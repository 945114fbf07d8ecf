SPECIFICATION Spec
CONSTANTS
  HeapStart = 64
  HeapSize = 112
  HeaderSize = 8
  Granule = 4
  MinSplit = 24
  PointerSize = 4
  UIntMod = 256
  Requests = {0, 13, 24, 40}
  Alignments = {6, 16}
CHECK_DEADLOCK FALSE
INVARIANTS
  BlocksTile
  Coalesced
  UsedIsLive
  AllocationsInside
