SPECIFICATION Spec
CONSTANTS
  Ring = 2
  Batch = 1
  PrevMax = 1
  MaxSeq = 3
  MaxBoot = 2
  MaxSession = 2
INVARIANTS
  TypeOK
  StoredOncePerSession
  ReleasedIsStored
PROPERTY
  RecordsArrive
\* Records, boots and connections are bounded: the system stops when they are used up.
CHECK_DEADLOCK FALSE
