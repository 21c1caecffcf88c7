SPECIFICATION Spec
CONSTANTS
  None = None
  Sql = Sql
  Login = Login
  Workers = {w1, w2}
  MethodOrder <- OneMethod
  AuthMethods <- Auth
  Calls = {c1, c2}
  Processors = {1, 2, 3, 4}
  Allocate <- LowestFree
  AssertsCompiled = TRUE
SYMMETRY Interchangeable
INVARIANTS
  TypeOK
  OneOwner
  StatusMatchesEvent
  ReplyTellsHandling
  OnlyValidatedHandled
  StopFinishesHandled
  AcceptorPerWorkerAndMethod
PROPERTIES
  QuietAfterJoin
  ServiceKept
