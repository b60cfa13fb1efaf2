SPECIFICATION FairAdminSpec
CONSTANTS
  MaxOps = 3
  MaxCerts = 2
  MaxTime = 2
  MaxFaults = 2
  Faults = {"crash", "rpc", "lost", "restore", "lag"}
  Modes = {"interactive", "timer"}
  Policies = {p1}
  Life = 9
  RenewBefore = 8
  Jitters <- MCJitters
  DelayAfter <- MCRetryDelay
PROPERTIES
  SnapshotsSettle
  RenewalsSettle
  FirstIssueSettles
