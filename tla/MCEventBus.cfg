SPECIFICATION Spec
CONSTANTS
  a1 = a1
  t1 = t1
  t2 = t2
  h1 = h1
  h2 = h2
  h3 = h3
  Types = {t1, t2}
  HandlersOf <- TwoTypes
  MaxProxies = 1
  Aggregates = {a1}
  Messages <- MessageOfEach
  Callers = {l1, l2}
  BufferSize = 1
SYMMETRY Symmetry
INVARIANTS
  TypeOK
  TablesCorrect
  SetUpFirst
CHECK_DEADLOCK FALSE
