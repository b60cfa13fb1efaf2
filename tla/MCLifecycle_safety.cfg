SPECIFICATION Spec
CONSTANTS
  MaxOps = 3
  MaxCerts = 2
  MaxTime = 3
  MaxFaults = 2
  Faults = {"crash", "disk", "rpc", "lost", "lag", "acme", "badcert", "admin"}
  Modes = {"interactive", "timer", "manual"}
  Policies = {p1}
  Life = 3
  RenewBefore = 2
  Jitters <- MCJitters
  DelayAfter <- MCRetryDelay
INVARIANTS
  LiveCertificateAccounted
  RestoredMeansOld
  SnapshotAnchored
  NoOrphanCertificate
  RecoverySettles
  CASNeverConflicts
  FirstIssueNeverRefused
  ActivatedWasServed
PROPERTIES
  FirstOrderNeedsOperator
  ImplementsContract
