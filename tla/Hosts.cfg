SPECIFICATION HostsSpec
CONSTANTS
  w1 = w1
  w2 = w2
  Workers <- Two
  Assignments <- SomeAssignments
  Binaries = {"good", "missing", "tampered", "mute", "bad_schemas", "old_version"}
  MaxAttempts = 2
  MaxFaults = 1
  PipeCap = 1
  TerminalSignal = FALSE
  nobody = nobody
  h1 = h1
  h2 = h2
  Hosts <- Commands
  Nobody <- nobody
  MaxPuts <- Puts
  MaxSerial = 2
  MaxMishaps = 1
INVARIANTS
  CarriedOutOnce
  AcceptedMeansDone
  RemoteStateIsSound
PROPERTIES
  CommandsEnd
CHECK_DEADLOCK FALSE
