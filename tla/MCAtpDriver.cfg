CONSTANTS
  Streams  <- MCStreams
  Ids      <- MCIds
  None     = None
  Callers  <- MCCallers
  Cpus     <- TwoCpus
  CpuOf    <- OneEach
  IdSpace  = 3
  MaxPlays = 3
  MaxCalls = 4
  Uses     <- OneWay
SPECIFICATION FairSpec
INVARIANTS TypeOK NoFault RequestsUntorn OwnAnswers
PROPERTIES ImplementsPlayService PlayReturns
CHECK_DEADLOCK FALSE
