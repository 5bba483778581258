SPECIFICATION HttpSpec
CONSTANTS
  Client = {c1, c2, c3}
  Queue = 2
INVARIANT
  HttpTypeOK
PROPERTY
  NothingHangs
\* Each client connects once: the system stops when all have been dealt with.
CHECK_DEADLOCK FALSE
