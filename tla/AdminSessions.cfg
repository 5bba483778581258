SPECIFICATION Spec
CONSTANTS
  Token = {t1, t2, t3}
  Ttl = 2
  MaxTime = 4
SYMMETRY Symmetry
INVARIANTS
  TypeOK
  RefusedStaysRefused
\* The clock and the tokens are bounded: the system stops when they are used up.
CHECK_DEADLOCK FALSE
