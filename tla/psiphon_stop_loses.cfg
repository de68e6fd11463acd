SPECIFICATION ServingSpec
CONSTANTS
  Parts <- PsiphonOnly
  Callers = {c1, c2}
  MaxSessions = 2
  MaxPackets = 3
  Outputs = {"tcp", "write"}
  InWrite = "write"
  MaxOutputs = 3
  Clients = {h1, h2}
  MaxMessages = 2
  Starts = {s1, s2, s3}
  Stops = {p1}
  MaxRuns = 3
INVARIANT StopStopsAll
CHECK_DEADLOCK FALSE
