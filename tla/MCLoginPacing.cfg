SPECIFICATION PacingSpec
CONSTANTS
  Initial = 2
  MaxWait = 4
  Jitter = 50
  AuthPause = 5
  MaxLogins = 2
  LoginWindow = 8
  MaxTime = 14
INVARIANT LoginsSpaced
INVARIANT LoginsLimited
CHECK_DEADLOCK FALSE
