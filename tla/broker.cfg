SPECIFICATION FairSpec
CONSTANTS
  Batch = 3
  MaxPairs = 3
  MaxHedge = 2
  EntryAttempts = 2
  CompletionAttempts = 2
  RollbackAttempts = 2
  HedgeAttempts = 2
  MaxStarts = 3
INVARIANTS
  OneOrderAtATime
  MatchedBetweenBatches
  UnmatchedWithinBatch
  NoReversal
  PairBookMatchesAccount
PROPERTIES
  ExitsOnlyReduce
  PendingResolves
CHECK_DEADLOCK FALSE
