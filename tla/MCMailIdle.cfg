SPECIFICATION MailSpec
CONSTANTS
  JunkExists = TRUE
  JunkChanges = FALSE
  JunkMayBreak = FALSE
  IdleOffers = {TRUE}
  JunkFailLimit = 2
  MaxBatch = 2
  MaxMails = 1
  MaxUid = 1
  MaxValidity = 1
  MaxFaults = 0
INVARIANT IdleMissesNothing
CHECK_DEADLOCK FALSE
