SPECIFICATION Spec
CONSTANTS
  None = None
  Failed = Failed
  NotUtf8 <- Invalid
  FieldIds = {1}
  DatasetIds = {1}
  MaxRows = 2
  MaxColumns = 2
  Data <- Stored
  Templates <- Statements
  Again <- Second
  MaxBound = 4
  BindNames <- BoundNames
  BindValues <- BoundValues
  Tables <- Results
  Texts <- Chars
  Orders <- KeyOrders
  MaxMessage = 60
  Samples <- Alone
INVARIANTS
  TypeOK
  ShapeKept
  ReplyTellsOutcome
  ClientSeesOutcome
  ParseOntoIsMerge
  ParserFindsVariables
  NothingLost
  SqlIsMeaning
PROPERTY
  StoreSpec
CHECK_DEADLOCK FALSE
