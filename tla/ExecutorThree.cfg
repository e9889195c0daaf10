SPECIFICATION ExecFairSpec
CONSTANTS
  Addr <- Three
  ForceNewRefs = {2}
  Nodes <- AllOpNodes
  Inputs <- ThreeInputs
  Parallelism = 2
  ProviderOf <- TwoProviders
  Ceiling <- CeilingOneTwo
  Faults <- OnlyErrors
  PutMayFail = TRUE
  MayCancel = TRUE
  MayCrash = FALSE
INVARIANTS
  WithinLimits
  EveryOperationAccounted
  StrandsNobody
PROPERTIES
  RunEnds
CHECK_DEADLOCK FALSE
