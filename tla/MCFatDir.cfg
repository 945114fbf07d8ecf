SPECIFICATION MCSpec
CONSTANTS
  NumSlots = 8
  FragLen = 2
  ShortLen = 3
  Names <- MCNames
  MaxPath = 9
INVARIANTS
  FindsWhatIsThere
  ShortNamesUnique
  ResolvesPath
