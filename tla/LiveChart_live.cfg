SPECIFICATION ChartSpec
CONSTANTS
  d1 = d1
  d2 = d2
  f1 = f1
  f2 = f2
  Devices <- MCDevice
  HistMax = 2
  MaxI = 3
  MaxBoot = 2
  MaxRun = 1
  Fetches <- MCFetches
INVARIANT
  ChartIsSound
PROPERTY
  SamplesArrive
\* The samples are bounded, and a page may have no fetch left to start.
CHECK_DEADLOCK FALSE
