SPECIFICATION FairSpec
CONSTANTS
  Tasks = {a, b}
  Kernel = k
  EcxHoldsCr3 = TRUE
  MaxPid = 5
INVARIANTS
  ListsAgree
  RunningOwnsContext
  NoTaskLeak
PROPERTIES
  SchedSpec
  ReadyRuns
  DeadReaped
