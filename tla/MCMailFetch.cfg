SPECIFICATION MailSpec
CONSTANTS
  JunkExists = TRUE
  JunkChanges = FALSE
  JunkMayBreak = FALSE
  IdleOffers = {TRUE, FALSE}
  JunkFailLimit = 2
  MaxBatch = 2
  MaxMails = 2
  MaxUid = 3
  MaxValidity = 2
  MaxFaults = 3
INVARIANT NothingSkipped
INVARIANT NeverRefused
INVARIANT HeardMailIsNotMissed
CHECK_DEADLOCK FALSE
