SPECIFICATION FairSpec
CONSTANTS
  Tokens = {t1, t2}
  MaxOps = 3
  MaxId = 2
  MaxForeign = 1
  MaxFaults = 3
  Faults = {"crash", "mysql", "disk", "lost_delete", "vanish"}
INVARIANTS
  RowsAreJournaled
  NeverAmbiguous
  ServedWhileValidating
PROPERTIES
  DeletesOnlyOwnRows
  RowsAreRemoved
