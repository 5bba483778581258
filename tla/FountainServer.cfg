SPECIFICATION Spec
CONSTANTS
  d1 = d1
  d2 = d2
  c1 = c1
  c2 = c2
  c3 = c3
  NoConn = NoConn
  Devices <- MCDevices
  Conns <- MCConns
  DeviceOf <- MCDeviceOf
INVARIANTS
  TypeOK
  RegisteredIsServed
  CurrentIsOnline
  ReplacedIsClosing
PROPERTIES
  RefinesRegistry
  HandshakeEnds
  DeadIsDropped
\* The connections are finitely many: the system stops when all have ended.
CHECK_DEADLOCK FALSE
