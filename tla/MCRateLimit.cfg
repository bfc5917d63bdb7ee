SPECIFICATION Spec
CONSTANTS
  Clients = {c1, c2, c3}
  Capacity = 2
  Cost = 3
  Second = 1
  Rates = {1, 2, 4}
  MaxBuckets = 2
  MaxTime = 5
  MaxRequests = 8
SYMMETRY Symmetry
INVARIANTS TypeOK WindowBound
PROPERTIES RetryAfterHonest
CHECK_DEADLOCK FALSE
