SPECIFICATION MCSpec
CONSTANTS
  NumSlots = 6
  FragLen = 2
  ShortLen = 3
  Names <- FullNames
  MaxPath = 0
INVARIANTS
  NoDuplicates
