CONSTANTS
  MaxCommands = 2
  MaxExists = 2
SPECIFICATION FairSessionSpec
PROPERTIES
  KeepsSessionContract
  CommandsDoNotOverlap
  RefusalIsSeen
  CallsEndCleanly
CHECK_DEADLOCK FALSE
