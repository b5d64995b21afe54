SPECIFICATION Spec
CONSTANTS
  a1 = a1
  a2 = a2
  s1 = s1
  Aggregates <- MCAggregates
  Shards = {s1}
  ShardOf <- OneShard
  Nowhere = Nowhere
  Missing = Missing
  BatchSize = 2
  MaxStarts = 2
  MaxVersion = 2
  SharesLoopVariable = FALSE
SYMMETRY Symmetry
INVARIANTS TypeOK RecordedWasGiven
PROPERTY RecordedNeverFalls
CHECK_DEADLOCK FALSE
