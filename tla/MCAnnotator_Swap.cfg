SPECIFICATION Spec
CONSTANTS
  n1 = n1
  n2 = n2
  n3 = n3
  n4 = n4
  East = East
  West = West
  Missing = Missing
  Job = {j1, j2}
  NoJob = NoJob
  Unread = Unread
  Threads = 2
  Coordinates = TRUE
  Extract <- MCExtract
  Broken <- MCBroken
  Built <- MCBuilt
  NodeRoutes <- MCNodeRoutes
  PointRoutes <- MCPointRoutes
  Habits = {"load"}
  IdLimit = 255
  MaxDistance = 5
INVARIANT SwapIsTransactional
