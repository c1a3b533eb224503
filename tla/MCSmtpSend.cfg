CONSTANTS
  Recipients = 2
  Chunks = 2
SPECIFICATION FairSpec
PROPERTIES
  EarlyEndIsNotSent
  DeadlineBelongsToStep
  Returns
  KeepsContract
CHECK_DEADLOCK FALSE
