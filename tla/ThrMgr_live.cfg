SPECIFICATION FairSpec
CONSTANTS
  Workers = {w1, w2, w3}
  Dispatchers = {d1, d2}
  Jobs = {j1, j2, j3}
  thr_max = 2
  IdleExpires = FALSE
  SpawnFails = TRUE
  OverlapDestroy = TRUE
  Nobody = Nobody
  NoJob = NoJob
  Micros = {0, 1, 499999, 999000, 999999}
  Waits = {1, 999, 1000, 1001, 30000, 30001, 45000}
PROPERTIES
  DestroyReturns
  AcceptedRuns
CHECK_DEADLOCK FALSE
