SPECIFICATION FairSpec
CONSTANTS
  a1 = a1
  a2 = a2
  s1 = s1
  Aggregates = {a1, a2}
  Shards = {s1}
  ShardOf <- OneShard
  BatchSize = 2
  MaxStarts = 2
  MinDiff = 2
  MaxVersion <- MCMaxVersion
INVARIANTS TypeOK LagBounded
PROPERTIES SnapshotsApart TakenIsSaved
CHECK_DEADLOCK FALSE
