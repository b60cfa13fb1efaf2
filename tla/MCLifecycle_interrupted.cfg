SPECIFICATION Spec
CONSTANTS
  MaxOps = 3
  MaxCerts = 2
  MaxTime = 4
  MaxFaults = 2
  Faults = {"crash"}
  Modes = {"interactive", "timer", "manual"}
  Policies = {p1}
  Life = 3
  RenewBefore = 2
  Jitters <- MCJitters
  DelayAfter <- MCRetryDelay
PROPERTIES
  RenewalBacksOff
