SPECIFICATION Spec
CONSTANTS
  NumFrames = 10
  Entries = 3
  KernelPdes = 1
  VirtualPages <- MCVirtualPages
  CodePage <- MCCodePage
  StackPage <- MCStackPage
  DemandPages <- MCDemandPages
  TasksFault = FALSE
CHECK_DEADLOCK FALSE
INVARIANTS
  TranslatesAsMapped
  FramesHaveOneRole
  FramesAccounted
  TlbCoherent
