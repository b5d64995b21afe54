SPECIFICATION FairSpec
CONSTANTS
  a1 = a1
  t1 = t1
  t2 = t2
  h1 = h1
  h2 = h2
  h3 = h3
  Types = {t1}
  HandlersOf <- NoHandlers
  MaxProxies = 0
  Aggregates = {a1}
  Messages <- ThreeMessages
  Callers = {l1, l2}
  BufferSize = 2
INVARIANTS
  OnePlace
  InOrderWithOneLoop
PROPERTY PublishedIsHandled
CHECK_DEADLOCK FALSE
