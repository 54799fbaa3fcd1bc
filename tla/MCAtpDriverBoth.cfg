CONSTANTS
  Streams  <- MCStreams
  Ids      <- MCIds
  None     = None
  Callers  <- MCCallers
  Cpus     <- TwoCpus
  CpuOf    <- OneEach
  IdSpace  = 3
  MaxPlays = 2
  MaxCalls = 4
  Uses     <- BothWays
SPECIFICATION Spec
INVARIANT OperationsAccepted
CHECK_DEADLOCK FALSE
