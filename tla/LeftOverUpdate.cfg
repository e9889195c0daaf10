SPECIFICATION ExecSpec
CONSTANTS
  Addr <- Two
  ForceNewRefs = {}
  Nodes <- AllOpNodes
  Inputs <- LeftOverAndUpdate
  Parallelism = 2
  ProviderOf <- OneProvider
  Ceiling <- CeilingTwo
  Faults <- NoFaults
  PutMayFail = FALSE
  MayCancel = FALSE
  MayCrash = FALSE
INVARIANTS
  AppliedMatchesConfig
CHECK_DEADLOCK FALSE
