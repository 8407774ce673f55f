SPECIFICATION FairSpec
CONSTANTS
  Process = {"p1"}
  Name = {"p1"}
  NameOf <- OwnNames
  Interval = 1
  MaxBatch = 2
  Faults <- Kinds
  MaxTroubles = 3
  MaxTime = 2
  MaxMetrics = 3
INVARIANTS
  IInv
  StoredWasPosted
  HandledIsStored
  LostTwice
  CostOfOneTrouble
  NotMistaken
PROPERTY KeepPromises
PROPERTY EveryRecordArrives
