SPECIFICATION ControllerFairSpec
CONSTANTS
  Null = Null
  c1 = c1
  c2 = c2
  s1 = s1
  o1 = o1
  r1 = r1
  i1 = i1
  i2 = i2
  h1 = h1
  k1 = k1
  e1 = e1
  a = a
  b = b
  Tasks <- MCTasks
  Connects <- OneConnect
  Selects <- None
  Offs <- None
  Resumes <- OneResume
  Inits <- OneInit
  Stages <- None
  Checkers <- OneChecker
  Expiries <- OneExpiry
  Servers <- TwoServers
  ServerLists <- Rankings
  MaxPolls = 2
  Duration = 1
  LastStart = 0
  MaxKills = 0
  MaxWrites = 2
  MaxInits = 2
PROPERTIES
  ConnectingResolves
  AttemptsEnd
  LimitEnforced
CHECK_DEADLOCK FALSE
