SPECIFICATION Spec
CONSTANTS
  Jobs = {j1, j2}
  Tasks = {t1, t2}
  Assignments <- OneOrTwoTasks
  MaxPasses = 2
  MaxTroubles = 1
  MaxFetches = 3
  Chunks = 2
  Blanks <- SomeOrNone
SYMMETRY Alike
INVARIANTS
  TypeOK
  OneWholeCopy
  PlannerSeesItsCommit
  IndexedIsCommitted
  RecordedIsOpen
  RecordedIsPushed
  UntroubledDelivery
PROPERTY
  CommitsAreKept
