SPECIFICATION Spec
CONSTANTS
  n1 = n1
  n2 = n2
  n3 = n3
  n4 = n4
  East = East
  West = West
  Missing = Missing
  Job = {j1, j2, j3, j4, j5}
  NoJob = NoJob
  Unread = Unread
  Threads = 2
  Coordinates = TRUE
  Extract <- MCExtract
  Broken <- MCBroken
  Built <- MCBuilt
  NodeRoutes <- MCNodeRoutes
  PointRoutes <- MCPointRoutes
  Habits = {"keepWayIds"}
  IdLimit = 255
  MaxDistance = 5
SYMMETRY MCSymmetry
INVARIANTS
  TypeOK
  OnlyStaleIdsFault
  AnswersCurrent
  OwnershipAtRest
PROPERTIES
  ImplementsStore
