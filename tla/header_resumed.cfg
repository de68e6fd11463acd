SPECIFICATION WrappersSpec
CONSTANTS
  Streams <- MCStreams
  SplitPlans <- MCSplitPlans
  SplitLens <- MCSplitLens
  DisorderAt = {0, 1}
  MaxCall = 5
  HeaderLen = 2
  MaxRecord = 3
  MTU = 3
  CutHeaders = TRUE
  Address <- MCAddress
  Data <- MCData
  BufSize = 2
  Overhead = 1
INVARIANT FirstPieceEnds
CHECK_DEADLOCK FALSE
