SPECIFICATION Spec
CONSTANTS
  Hour = 4
  PolicySet <- MCPolicies
  ExpiresAt = 640
  TimerDelays = {0, 1}
INVARIANTS
  DelayDoubles
  TriedBeforeExpiry
CHECK_DEADLOCK FALSE
