CONSTANTS
  Inits = {i1, i2}
  MaxKeys = 6
  MaxFaults = 2
SPECIFICATION FairInitSpec
INVARIANTS
  RegisteredKeyIsHeld
PROPERTIES
  InitSucceeds
CHECK_DEADLOCK FALSE
