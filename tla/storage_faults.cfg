SPECIFICATION Spec
CONSTANTS
  n1 = n1
  n2 = n2
  x = x
  y = y
  Worker = {w1, w2}
  Name = {n1}
  Time = {1, 2, 3, 4, 5}
  Reading = {x, y}
  Request <- LongBatches
  Nobody = Nobody
  MaxRequests = 3
  MaxFaults = 2
  MaxRestarts = 1
INVARIANTS
  UniqueTime
  LossAccount
  LossBounded
