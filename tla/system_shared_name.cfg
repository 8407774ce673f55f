SPECIFICATION Spec
CONSTANTS
  Process = {"p1", "p2"}
  Name = {"p1"}
  NameOf <- SharedName
  Interval = 1
  MaxBatch = 1
  Faults = {}
  MaxTroubles = 0
  MaxTime = 1
  MaxMetrics = 1
INVARIANT NotMistaken
