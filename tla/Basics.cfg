SPECIFICATION BasicSpec
CONSTANTS
  Nodes = {n1, n2, n3, n4}
  Vertices = {1, 2, 3, 4}
  SelfEdges = {2}
  Recorded = 4
  ProviderOf <- Shared
  Unregistered = "unregistered"
  Parallelism = 2
  PerProvider = 1
  Attempts = 2
  p1 = p1
  p2 = p2
  p3 = p3
  u1 = u1
  Free = Free
  Procs <- ThreeProcs
  Unlockers <- OnePerson
  Puts = 2
  MaxSerial = 3
  MaxSaved = 1
  Mortal <- TwoProcs
  UnlockLive = FALSE
INVARIANTS
  GraphAnswersAreRight
  ObservedInFull
PROPERTIES
  ImplementsSchedule
  RefreshEnds
  ImplementsLedger
  SavedPlanOnItsPremise
  LockIsGivenBack
CHECK_DEADLOCK FALSE
