SPECIFICATION Spec
CONSTANTS
  n1 = n1
  n2 = n2
  n3 = n3
  n4 = n4
  East = East
  West = West
  Missing = Missing
  Job = {j1, j2, j3, j4}
  NoJob = NoJob
  Unread = Unread
  Threads = 2
  Coordinates = FALSE
  Extract <- MCExtract
  Broken <- MCBroken
  Built <- MCBuilt
  NodeRoutes <- MCNodeRoutes
  PointRoutes <- MCPointRoutes
  Habits = {"load", "query", "keepWayIds"}
  IdLimit = 255
  MaxDistance = 5
SYMMETRY MCSymmetry
INVARIANTS
  NeverNull
  EachOnce
PROPERTIES
  StaysLoaded
