CONSTANTS
  Nodes = {n1}
  Commands = {c1}
  MaxSends = 2
  MaxCrashes = 0
  EventSaver = TRUE
  PublishedSaver = FALSE
SPECIFICATION Spec
INVARIANT PublishedIsStored
CHECK_DEADLOCK FALSE
