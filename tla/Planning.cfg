SPECIFICATION PlanningSpec
CONSTANTS
  Addr <- Three
  ForceNewRefs = {2}
  Starts <- AnyStart
  Blocks <- AnyBlock
  Sightings <- AnySighting
INVARIANTS
  PlanWellFormed
  ReplacementsPropagate
  UnflaggedExecutable
