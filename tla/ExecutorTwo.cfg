SPECIFICATION ExecSpec
CONSTANTS
  Addr <- Two
  ForceNewRefs = {}
  Nodes <- AllOpNodes
  Inputs <- TwoInputs
  Parallelism = 2
  ProviderOf <- OneProvider
  Ceiling <- CeilingTwo
  Faults <- AnyFault
  PutMayFail = TRUE
  MayCancel = TRUE
  MayCrash = TRUE
INVARIANTS
  StateNamesWhatExists
  ReportIsTrue
  GuardedAreKept
PROPERTIES
  NoLaunchOnceStopped
CHECK_DEADLOCK FALSE
