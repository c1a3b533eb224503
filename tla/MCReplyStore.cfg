CONSTANTS
  t1 = t1
  Tasks = {t1}
  Mails <- MailsOfOneTask
  Callers = {c1}
  MaxReplies = 3
  MaxVersion = 8
SPECIFICATION Spec
INVARIANTS
  InOrder
  QueuedOnlyWhileAccepting
  UncertainTaskHasReply
  IInv
PROPERTIES
  PutBackOnlyUntouched
  ImplementsLine
