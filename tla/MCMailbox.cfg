CONSTANTS
  d1 = d1
  d2 = d2
  Dispatchers <- MCDispatchers
  MailsPer = 2
  Capacity = 2
  MaxBoxes = 3
SPECIFICATION FairSpec
INVARIANTS
  Serial
  InOrder
  NeverSendsToNil
  ExactlyOnePlace
  RemovesItself
PROPERTIES
  ImplementsActor
  DispatchReturns
  AnsweredUnlessReleased
CHECK_DEADLOCK FALSE
