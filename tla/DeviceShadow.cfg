SPECIFICATION Spec
CONSTANTS
  Measured = {m1}
  ConfigPoint = {k1}
  MaxValue = 2
  MaxSession = 2
  MaxRead = 1
  MaxFrames = 1
INVARIANT
  ShadowIsSound
PROPERTY
  ShadowCatchesUp
\* Values, connections and calls are bounded: the system stops when they are used up.
CHECK_DEADLOCK FALSE
