SPECIFICATION SupplySpec
CONSTANTS
  c1 = c1
  c2 = c2
  pinned = pinned
  tagged = tagged
  s1 = s1
  s2 = s2
  official = official
  acme = acme
  op = op
  ab = ab
  ap = ap
  Compiles <- BothCommands
  Config <- TagFirst
  Tags = {tagged}
  Commits <- TwoCommits
  Absent = Absent
  Files <- TwoFiles
  MaxRuns = 2
  MaxMoves = 1
  MaxKills = 1
  Shells = {s1, s2}
  Repos = {op, ab, ap}
  OwnerOf <- Owner
  RoleOf <- Role
  Official = official
  ProjectSource = acme
  Declared <- BothRoles
  Usable <- CanRun
  Dirs <- Ordered
  Invocations <- ThreeCalls
  Failing <- OfficialMayFail
  Releases <- OfficialTwice
  MaxTasks = 2
  MaxStrays = 1
  None = None
INVARIANTS
  HashPinsReadWhole
  LockVouches
  RunsOnlyApproved
PROPERTIES
  RecordedPinsHold
  CompileEnds
CHECK_DEADLOCK FALSE
