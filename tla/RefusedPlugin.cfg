SPECIFICATION PluginSpec
CONSTANTS
  w1 = w1
  w2 = w2
  Workers <- Two
  Assignments <- SomeAssignments
  Binaries = {"old_protocol"}
  MaxAttempts = 2
  MaxFaults = 0
  PipeCap = 1
  TerminalSignal = FALSE
PROPERTIES
  LoadingEnds
CHECK_DEADLOCK FALSE
