SPECIFICATION Spec
CONSTANTS
  Workers = {w1, w2, w3}
  Dispatchers = {d1}
  Jobs = {j1, j2}
  thr_max = 2
  IdleExpires = TRUE
  SpawnFails = TRUE
  OverlapDestroy = FALSE
  Nobody = Nobody
  NoJob = NoJob
  Micros = {0, 1, 499999, 999000, 999999}
  Waits = {1, 999, 1000, 1001, 30000, 30001, 45000}
INVARIANTS
  SignalPerTask
CHECK_DEADLOCK FALSE
