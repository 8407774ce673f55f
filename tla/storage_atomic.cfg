SPECIFICATION FairSpec
CONSTANTS
  n1 = n1
  n2 = n2
  x = x
  y = y
  Worker = {w1, w2}
  Name = {n1, n2}
  Time = {1, 2, 3}
  Reading = {x, y}
  Request <- TwoNames
  Nobody = Nobody
  MaxRequests = 3
  MaxFaults = 0
  MaxRestarts = 1
INVARIANTS
  IInv
  StoreView
  InnerMutexFree
PROPERTIES
  ActsAsStore
  EveryRequestAnswered
