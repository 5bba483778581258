SPECIFICATION Spec
CONSTANTS
  r1 = r1
  r2 = r2
  Callers <- MCCallers
  MaxMsgs = 3
INVARIANTS
  TypeOK
  ReplyIsOwn
  NeverRefused
  PendingIsInFlight
PROPERTIES
  DoneStaysDone
  CallsEnd
\* The requests are bounded by MaxMsgs: the system stops when they have ended.
CHECK_DEADLOCK FALSE
