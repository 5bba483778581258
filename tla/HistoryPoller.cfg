SPECIFICATION Spec
CONSTANTS
  Ring = 2
  MaxSeq = 4
  MaxBoot = 2
  MaxSession = 2
INVARIANTS
  TypeOK
PROPERTIES
  RefinesLog
  SamplesAreTaken
\* Samples, boots and connections are bounded: the system stops when they are used up.
CHECK_DEADLOCK FALSE
