SPECIFICATION Spec
CONSTANTS
  n1 = n1
  n2 = n2
  x = x
  y = y
  Worker = {w1, w2}
  Name = {n1}
  Time = {1, 2, 3}
  Reading = {x, y}
  Request <- OneName
  Nobody = Nobody
  MaxRequests = 2
  MaxFaults = 1
  MaxRestarts = 0
INVARIANT AckedIsStored
