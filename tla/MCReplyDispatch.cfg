CONSTANTS
  t1 = t1
  Tasks = {t1}
  Mails <- TwoMailsAndCopy
  Callers = {}
  MaxReplies = 2
  MaxVersion = 30
  MaxCrashes = 1
  MaxUnsent = 1
  MaxApprovals = 1
SPECIFICATION FairDispatchSpec
INVARIANTS
  AtMostOnce
  FinalStateIsTrue
  TruthIsAccepted
PROPERTIES
  NeverInterrupts
  EveryReplyEnds
CHECK_DEADLOCK FALSE
