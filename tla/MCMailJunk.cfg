SPECIFICATION FairMailSpec
CONSTANTS
  JunkExists = FALSE
  JunkChanges = TRUE
  JunkMayBreak = TRUE
  IdleOffers = {TRUE}
  JunkFailLimit = 2
  MaxBatch = 1
  MaxMails = 1
  MaxUid = 2
  MaxValidity = 2
  MaxFaults = 3
PROPERTIES
  InboxRecorded
  EveryMailRecorded
CHECK_DEADLOCK FALSE
