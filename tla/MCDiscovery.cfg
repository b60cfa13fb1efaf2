SPECIFICATION Spec
\* The dialogue ends.
CHECK_DEADLOCK FALSE
CONSTANTS
  PageSize = 2
  Limit = 3
  MaxSites = 3
  MaxChanges = 1
  MaxFaults = 2
  Faults = {"revoke", "disable", "transport", "reject"}
INVARIANTS
  AmbiguityNeverOrdered
  AuthenticationRecovers
  AppliedOnce
PROPERTIES
  DiscoveryExact
