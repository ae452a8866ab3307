SPECIFICATION FairSpec
CONSTANTS
  n1 = n1
  n2 = n2
  n3 = n3
  n4 = n4
  East = East
  West = West
  Node = {n1, n2, n3, n4}
  Inputs <- MCInputs
  Mph <- MCMph
  Clipped <- MCClipped
  NoLocation = NoLocation
  Points <- MCPoints
  IntMax = 500
  IdLimit = 255
  MaxDistance = 5
INVARIANTS
  TypeOK
  NodeIdsDense
  NodeListAligned
  TagSlices
  StringsInterned
  AnswersMatchFiles
  TreeMatchesNodes
  CoordinatesMatchFiles
  BuildsSamples
PROPERTIES
  OnlyAdds
  Terminates
