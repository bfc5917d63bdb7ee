SPECIFICATION FairSpec
CONSTANTS
  Publishers = {p1, p2}
  Observers = {o1}
  QueueSize = 1
  ReplayLimit = 2
  MaxEvents = 5
INVARIANTS
  TypeOK
  NothingMissed
  FirstHeardInOrder
PROPERTY EmissionEnds
CHECK_DEADLOCK FALSE
