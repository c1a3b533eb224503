CONSTANTS
  Tasks = {t1}
  MessageIds = {d1}
  TTLs = {3}
  Delays = {1}
  Margin = 1
  MaxNotes = 2
  MaxAttempts = 10
  MaxTime = 4
  MaxFaults = 2
SPECIFICATION FairDeliverySpec
INVARIANTS
  ClosedTasksSendNothing
  DeliveredAtMostOnce
  OutcomeIsTrue
PROPERTIES
  ClaimsInTime
  EveryNotificationEnds
CHECK_DEADLOCK FALSE
