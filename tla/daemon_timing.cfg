SPECIFICATION FairSpec
CONSTANTS
  Setting <- Settings
  Limit = 35
INVARIANTS
  IInv
  BacklogBounded
  StopInv
  StopsInTime
PROPERTY BacklogGrows
