SPECIFICATION Spec
CONSTANTS
  None = None
  Apps = {a1, a2, a3}
  MaxConnects = 4
  Callbacks = {"prints", "reenters"}
SYMMETRY Interchangeable
CHECK_DEADLOCK FALSE
INVARIANTS
  TypeOK
  OneKeeper
  ConnectedMeansKept
  OnlyReconnectTakesChannel
  ReportedOnce
  StubLoggedIn
