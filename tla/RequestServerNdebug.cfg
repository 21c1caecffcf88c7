SPECIFICATION Spec
CONSTANTS
  None = None
  Sql = Sql
  Login = Login
  Workers = {w1, w2}
  MethodOrder <- OneMethod
  AuthMethods <- Auth
  Calls = {c1}
  Processors = {1, 2, 3}
  Allocate <- LowestFree
  AssertsCompiled = FALSE
SYMMETRY Interchangeable
INVARIANTS
  OkMeansHandled
