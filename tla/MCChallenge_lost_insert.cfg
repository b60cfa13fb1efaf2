SPECIFICATION Spec
CONSTANTS
  Tokens = {t1, t2}
  MaxOps = 3
  MaxId = 2
  MaxForeign = 1
  MaxFaults = 3
  Faults = {"lost_insert"}
INVARIANTS
  RowsAreJournaled
