SPECIFICATION FairSpec
CONSTANTS
  MaxBatch = 2
  MaxMetrics = 4
INVARIANTS
  IInv
  PostsInOrder
  RepeatLeadBounded
  NothingLeftBehind
PROPERTIES
  QueuesExclusive
  KeepsPromise
  StopTerminates
  EveryRecordPosted
  KeepsPromiseFairly
