SPECIFICATION Spec
CONSTANTS
  NumClusters = 3
  ClusterBytes = 2
  Names = {"f", "g"}
  RootEntries = 1
  DirEntries = 2
  Payloads <- MCPayloads
  MaxSize = 4
INVARIANTS
  ChainsDisjoint
  VolumeInOrder
  NoLostClusters
  AppendKeepsOld
PROPERTIES
  StoreSpec
  CallsReturn
