CONSTANTS
  Nodes = {n1, n2}
  Commands = {c1, c2, c3}
  MaxSends = 1
  MaxCrashes = 1
  EventSaver = TRUE
  PublishedSaver = TRUE
SPECIFICATION Spec
SYMMETRY Symmetry
INVARIANTS
  PublishedVersionsAreDelivered
  AckedIsPublished
  CachesArePrefixes
PROPERTY ImplementsFeed
CHECK_DEADLOCK FALSE
