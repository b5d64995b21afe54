SPECIFICATION Spec
CONSTANTS
  k1 = k1
  k2 = k2
  c1 = c1
  c2 = c2
  e1 = e1
  e2 = e2
  e3 = e3
  h1 = h1
  h2 = h2
  h3 = h3
  Types = {e1, e2, e3}
  StreamOf <- MCStreamOf
  Handlers = {h1, h2, h3}
  HandlersOf <- MCHandlersOf
  IsAsync = {h2, h3}
  Senders <- MCSenders
  Commands <- MCCommands
  Nobody = Nobody
  MaxPublished = 2
  MaxCalls = 2
  MayTimeOut = TRUE
SYMMETRY Symmetry
INVARIANTS
  TypeOK
  NilMeansHandled
  FailedAreNamed
  HandledInOrder
  WatchedIsEmpty
  ReturnsWhatHappened
  SoleSenderMissesNothing
CHECK_DEADLOCK FALSE
