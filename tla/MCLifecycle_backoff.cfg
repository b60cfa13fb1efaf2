SPECIFICATION Spec
CONSTANTS
  MaxOps = 4
  MaxCerts = 2
  MaxTime = 4
  MaxFaults = 2
  Faults = {"rpc", "lost", "restore", "lag", "acme", "admin"}
  Modes = {"interactive", "timer"}
  Policies = {p1, p2}
  Life = 4
  RenewBefore = 3
  Jitters <- MCJitters
  DelayAfter <- MCRetryDelay
PROPERTIES
  RenewalBacksOff
  OrdersBackOff
  StableCertificate
