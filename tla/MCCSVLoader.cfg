SPECIFICATION FairSpec
CONSTANTS
  Slow = Slow
  Fast = Fast
  Bad = Bad
  UintMax = 511
  Inputs <- MCInputs
INVARIANTS
  TypeOK
  LastRowWins
  EverySegmentRead
  BuildsMaps
PROPERTIES
  WorkShrinks
  Terminates
