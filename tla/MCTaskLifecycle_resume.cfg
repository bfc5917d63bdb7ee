SPECIFICATION Spec
CONSTANTS
  Clients = {c1, c2}
  MaxTasks = 1
  MaxCrashes = 0
INVARIANT ResumeContinues
CHECK_DEADLOCK FALSE
