CONSTANTS
  Nodes = {n1, n2}
  Commands = {c1, c2}
  MaxSends = 2
  MaxCrashes = 1
  EventSaver = FALSE
  PublishedSaver = FALSE
SPECIFICATION FairSpec
INVARIANT AckedIsPublished
PROPERTIES
  ImplementsFeed
  StoredIsPublished
CHECK_DEADLOCK FALSE
