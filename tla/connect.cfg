SPECIFICATION ControllerSpec
CONSTANTS
  Null = Null
  c1 = c1
  c2 = c2
  s1 = s1
  o1 = o1
  r1 = r1
  i1 = i1
  i2 = i2
  h1 = h1
  k1 = k1
  e1 = e1
  a = a
  b = b
  Tasks <- MCTasks
  Connects <- OneConnect
  Selects <- None
  Offs <- OneOff
  Resumes <- OneResume
  Inits <- OneInit
  Stages <- OneStage
  Checkers <- OneChecker
  Expiries <- OneExpiry
  Servers <- OneServer
  ServerLists <- OneRanking
  MaxPolls = 1
  Duration = 1
  LastStart = 0
  MaxKills = 0
  MaxWrites = 2
  MaxInits = 2
INVARIANTS
  ControllerTypeOK
  ConnectedIsTimed
  NoOrphanTunnel
CHECK_DEADLOCK FALSE
