SPECIFICATION FairSpec
CONSTANTS
  Size = 5
  Chunk = 2
  Parallel = 2
  Logs <- MCLogs
  Env = {"error", "ambiguous", "omit", "blind", "partial"}
INVARIANTS
  TypeOK
  StagedWhole
  StagingLeavesNothing
  GoneIsReal
  GoneIsNoticed
  OutputIsUsed
  ExitsReported
PROPERTIES
  WaitsEnd
  ImplementsRunner
CHECK_DEADLOCK FALSE
