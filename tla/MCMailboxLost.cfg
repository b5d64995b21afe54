CONSTANTS
  d1 = d1
  d2 = d2
  Dispatchers <- MCDispatchers
  MailsPer = 2
  Capacity = 2
  MaxBoxes = 2
SPECIFICATION FairSpec
PROPERTY AcceptedIsAnswered
CHECK_DEADLOCK FALSE
