SPECIFICATION DialingFairSpec
CONSTANTS
  Parts <- MCParts
  Transports = {"udp", "tls", "https"}
  MaxIps = 1
  MaxForged = 1
  Configs <- MCConfigs
  System = "system"
  Secure = {"doh"}
  Malformed = {"noName"}
  Direct = "direct"
  MaxCalls = 2
  Queries = {q1, q2}
  Keys = {k1, k2}
  Capacity = 2
  Lifetime = 2
  MaxTime = 4
  MaxAsked = 3
  Kinds <- MCKinds
  MaxDatagrams = 1
INVARIANTS
  DialingTypeOK
  AllTried
  CacheNamesWinner
PROPERTIES
  SearchExhausts
  ServedNewest
  DeadlineEndsAll
  DialsSettle
CHECK_DEADLOCK FALSE
