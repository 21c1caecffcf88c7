SPECIFICATION Spec
CONSTANTS
  None = None
  Apps = {a1}
  MaxConnects = 1
  Callbacks = {"prints"}
CHECK_DEADLOCK FALSE
INVARIANTS
  NeverAborts
