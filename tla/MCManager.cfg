SPECIFICATION FairSpec
\* After an uninstallation nothing needs to happen any more.
CHECK_DEADLOCK FALSE
CONSTANTS
  Sessions = {s1, s2}
  Targets = {1, 2}
  MaxOps = 3
  MaxInodes = 2
  MaxFaults = 1
  Faults = {"kill", "timeout", "resume"}
INVARIANTS
  Serialized
  OnlyConfirmedRuns
PROPERTIES
  EveryTargetIsRun
