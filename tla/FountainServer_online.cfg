SPECIFICATION Safety
CONSTANTS
  d1 = d1
  d2 = d2
  c1 = c1
  c2 = c2
  c3 = c3
  NoConn = NoConn
  Devices <- MCDevices
  Conns <- MCTwoConns
  DeviceOf <- MCTwoDeviceOf
INVARIANT OnlineHasSession
\* The connections are finitely many: the system stops when all have ended.
CHECK_DEADLOCK FALSE
