SPECIFICATION FairSpec
CONSTANTS
  NumThreads = 3
  MaxTasks = 4
  MaxRuns = 2
  MaxSpurious = 1
INVARIANTS
  TypeOK
  NoLostWakeup
PROPERTIES
  ConfigWrittenAlone
  ImplementsPool
  CallsReturn
