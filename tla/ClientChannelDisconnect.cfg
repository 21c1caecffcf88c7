SPECIFICATION FairSpec
CONSTANTS
  None = None
  Apps = {a1}
  MaxConnects = 1
  Callbacks = {"prints"}
CHECK_DEADLOCK FALSE
PROPERTIES
  DestructionEnds
