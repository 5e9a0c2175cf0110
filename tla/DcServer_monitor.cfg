SPECIFICATION Spec
CONSTANTS
  Nodes = {n1, n2}
  NoNode = NoNode
  Tasks = {t1}
  HB_TIMEOUT = 4
  SWEEP_WAIT = 3
  MaxLag = 1
  MaxTime = 14
INVARIANTS
  SilentNodeGone
PROPERTIES
  SweepSparesHeard
  ImplementsMembership
