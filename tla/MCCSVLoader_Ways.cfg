SPECIFICATION FairSpec
CONSTANTS
  Slow = Slow
  Fast = Fast
  Bad = Bad
  UintMax = 511
  Inputs <- MCInputs
INVARIANT EveryWayRead
