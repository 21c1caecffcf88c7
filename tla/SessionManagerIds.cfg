SPECIFICATION Spec
CONSTANTS
  None = None
  Logins = {alice, bob}
  Expire = 1
  TicksPerSecond = 2
  MaxTime = 6
  MaxLogins = 3
SYMMETRY Interchangeable
CHECK_DEADLOCK FALSE
INVARIANTS
  SessionOfOneLogin
