SPECIFICATION FairCursorSpec
CONSTANTS
  Procs = {p1, p2}
  Reasons = {token_expired}
  MaxBatch = 1
  MaxMails = 2
  MaxValidity = 2
  MaxFaults = 1
INVARIANT PassedMailIsHandled
PROPERTIES
  CursorOnlyAdvances
  DrainsEnd
CHECK_DEADLOCK FALSE
