SPECIFICATION ListsFairSpec
CONSTANTS
  Null = Null
  NoServers = NoServers
  c1 = c1
  c2 = c2
  l = l
  r1 = r1
  r2 = r2
  Services = {"unified", "vpngate", "outline"}
  Calls <- TwoCalls
  Launch = l
  Retries <- TwoRetries
  Hour = 1
  Horizon = 3
  MaxKills = 1
INVARIANTS
  FeedTypeOK
  FreshIsRecent
  KeptListAnswers
  HomeTypeOK
  ScreenIsStored
PROPERTIES
  RefreshRecovers
