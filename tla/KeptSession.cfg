SPECIFICATION KeptSpec
CONSTANTS
  None = None
  Logins = {alice, bob}
  Expire = 1
  TicksPerSecond = 3
  PollTicks = 1
  MaxDelay = 1
  MaxTime = 8
  MaxLogins = 2
SYMMETRY Interchangeable
CHECK_DEADLOCK FALSE
INVARIANTS
  KeptTypeOK
  ExpiryExact
  KeptNeverLost
PROPERTY
  BookKept
