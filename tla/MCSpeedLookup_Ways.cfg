SPECIFICATION Spec
CONSTANTS
  Slow = Slow
  Fast = Fast
  Bad = Bad
  Job = {j1}
  NoJob = NoJob
  Threads = 2
  Format = "way"
  UintMax = 511
  NoMap = NoMap
  Source <- MCSource
  Broken <- MCBroken
  Built <- MCBuilt
  Ids <- MCIds
INVARIANT NonNegativeIdsAccepted
