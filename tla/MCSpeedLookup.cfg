SPECIFICATION FairSpec
CONSTANTS
  Slow = Slow
  Fast = Fast
  Bad = Bad
  Job = {j1, j2, j3}
  NoJob = NoJob
  Threads = 2
  Format = "segment"
  UintMax = 511
  NoMap = NoMap
  Source <- MCSource
  Broken <- MCBroken
  Built <- MCBuilt
  Ids <- MCIds
INVARIANTS
  TypeOK
  SelfAlive
PROPERTIES
  ImplementsStore
  EveryCallAnswered
