SPECIFICATION FairOpenSpec
CONSTANTS
  Procs <- MCProcs
  Knows <- MCKnows
  p1 = p1
  p2 = p2
  old = old
  MaxCrashes = 2
INVARIANT SchemaWhole
PROPERTIES
  MigratedExactly
  RefusedOnlyAfterWaiting
  OpensEnd
CHECK_DEADLOCK FALSE
