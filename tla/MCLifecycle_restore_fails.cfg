SPECIFICATION Spec
CONSTANTS
  MaxOps = 3
  MaxCerts = 2
  MaxTime = 3
  MaxFaults = 2
  Faults = {"restore", "lag"}
  Modes = {"interactive", "timer", "manual"}
  Policies = {p1}
  Life = 3
  RenewBefore = 2
  Jitters <- MCJitters
  DelayAfter <- MCRetryDelay
INVARIANTS
  RestoredMeansOld
