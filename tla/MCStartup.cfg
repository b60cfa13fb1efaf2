SPECIFICATION FairSpec
CONSTANTS
  Cores = {c1, c2}
  Readers = {r1, r2}
  MaxKeys = 4
  MaxFaults = 3
  Faults = {"kill", "sqlite", "disk", "acme"}
INVARIANTS
  MigrationConsistent
  AccountConsistent
PROPERTIES
  KeysGoneInTheEnd
