SPECIFICATION FairSpec
\* An attempt cut short before its marker, or a kept uninstallation, is refused for good.
CHECK_DEADLOCK FALSE
CONSTANTS
  Releases = 2
  MaxRemovals = 2
  MaxPasswords = 6
  MaxFaults = 3
  Faults = {"crash", "mysql", "cleanup", "disk", "command"}
INVARIANTS
  CredentialWorks
  TimerFindsInstallation
  UpdateAllOrNothing
PROPERTIES
  ProgramsNeverLost
  AccountNeverReset
  InterruptedInstallCompletes
