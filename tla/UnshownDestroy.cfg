SPECIFICATION ProjectSpec
CONSTANTS
  s1 = s1
  s2 = s2
  c1 = c1
  c2 = c2
  m1 = m1
  Sessions <- Two
  Envs <- Both
  Objects <- Four
  Tag <- Tags
  InScope = {1, 2}
  CloudOwned = {2}
  Protected = {"prod"}
  Supervised = {"prod"}
  Requests <- AllRequests
  Histories <- SomeHistories
  Free = Free
  MaxMishaps = 2
  Unheld = Unheld
  Kept <- FirstTwo
  Clients <- BothClients
  Stale <- OldCheckout
  Migrators <- OneMigrator
  MaxObjects = 2
  Works <- OldForTheSecond
  Faults <- AnyFault
INVARIANT
  DestroysWhatWasShown
CHECK_DEADLOCK FALSE
