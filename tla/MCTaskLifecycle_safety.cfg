SPECIFICATION Spec
CONSTANTS
  Clients = {c1, c2, c3}
  MaxTasks = 2
  MaxCrashes = 1
SYMMETRY ClientSymmetry
INVARIANTS
  TypeOK
  BusyRowsHaveJobs
  LoneJobReports
CHECK_DEADLOCK FALSE
