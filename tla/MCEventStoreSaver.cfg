SPECIFICATION FairSpec
CONSTANTS
  c1 = c1
  c2 = c2
  c3 = c3
  a1 = a1
  a2 = a2
  s1 = s1
  s2 = s2
  r1 = r1
  r2 = r2
  Requests = {r1, r2}
  Commands <- MCCommands
  Aggregates <- MCAggregates
  AggregateOf <- MCAggregateOf
  Shards = {s1}
  ShardOf <- OneShard
  BatchSize = 2
  MaxStarts = 2
INVARIANTS TypeOK HeldOnce
PROPERTIES ImplementsAppender AnsweredWhileRunning StopEndsUnlessLeftBehind
CHECK_DEADLOCK FALSE
