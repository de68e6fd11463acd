SPECIFICATION FairSpec
CONSTANTS
  Null = Null
  t1 = t1
  t2 = t2
  Tasks <- MCTasks
  Duration = 2
  LastStart = 1
  MaxKills = 1
  MaxWrites = 2
  MaxInits = 2
INVARIANTS
  TypeOK
  TimedSession
PROPERTIES
  SessionEnds
  ImplementsLease

