SPECIFICATION WrappersFairSpec
CONSTANTS
  Streams <- MCStreams
  SplitPlans <- MCSplitPlans
  SplitLens <- MCSplitLens
  DisorderAt = {0, 1}
  MaxCall = 5
  HeaderLen = 2
  MaxRecord = 3
  MTU = 3
  CutHeaders = FALSE
  Address <- MCAddress
  Data <- MCData
  BufSize = 2
  Overhead = 1
INVARIANTS
  WritersTypeOK
  ReshapedOnce
  Conserved
  BufferAlone
  CleanEnd
PROPERTIES
  ImplementsPipe
  EverythingArrives
CHECK_DEADLOCK FALSE
