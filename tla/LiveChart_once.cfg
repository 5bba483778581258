SPECIFICATION ChartSafety
CONSTANTS
  d1 = d1
  d2 = d2
  f1 = f1
  f2 = f2
  Devices <- MCDevices
  HistMax = 2
  MaxI = 2
  MaxBoot = 2
  MaxRun = 2
  Fetches <- MCFetch
INVARIANT
  BackfillDrawnOnce
\* The samples are bounded, and a page may have no fetch left to start.
CHECK_DEADLOCK FALSE
