SPECIFICATION StreamSpec
CONSTANTS
  None = None
  Feed = Feed
  Login = Login
  Workers = {w1, w2}
  MethodOrder <- MethodSeq
  AuthMethods <- Auth
  StreamMethods <- Streams
  MaxWrites = 1
  Calls = {c1}
  Processors = {1, 2, 3, 4, 5, 6}
  Allocate <- LowestFree
  AssertsCompiled = TRUE
INVARIANTS
  StatusTellsMessages
  AcceptorPerResumption
PROPERTIES
  EveryCallEnds
  StopReturns
