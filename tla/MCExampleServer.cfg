SPECIFICATION FairSpec
CONSTANTS
  Threads = 2
  Request = {r1, r2}
  NoJob = NoJob
  NoWay = NoWay
  Job <- MCJob
  ExternalId <- MCExternalId
  Routes <- MCRoutes
INVARIANTS
  TypeOK
  ResponseWhole
  NeverForgotten
PROPERTIES
  AnsweredOnce
  EveryRequestAnswered
