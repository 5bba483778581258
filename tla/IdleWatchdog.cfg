SPECIFICATION Safety
CONSTANTS
  System_Power_Mode = System_Power_Mode
  Net_Link_State = Net_Link_State
  ModePoints <- MCModePoints
  Fast = 4
  Slow = 30
  Fresh = 3
  Check = 1
  Report = 2
  Grid = 12
  Jitter = 1
  MaxMissed = 1
INVARIANTS
  TypeOK
  HealthyNeverKicked
  SilenceIsBounded
