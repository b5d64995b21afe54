SPECIFICATION Spec
CONSTANTS
  a1 = a1
  a2 = a2
  s1 = s1
  Aggregates <- MCAggregates
  Shards = {s1}
  ShardOf <- OneShard
  Nowhere = Nowhere
  Missing = Missing
  BatchSize = 2
  MaxStarts = 1
  MaxVersion = 2
  SharesLoopVariable = TRUE
INVARIANT RecordedWasGiven
CHECK_DEADLOCK FALSE
