SPECIFICATION FairSpec
CONSTANTS
  Clients = {c1, c2}
  MaxTasks = 2
  MaxCrashes = 1
PROPERTIES
  QueuedStarts
  RunningEnds
CHECK_DEADLOCK FALSE
