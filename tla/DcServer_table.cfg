SPECIFICATION PickSpec
CONSTANTS
  Nodes = {n1, n2, n3}
  NoNode = NoNode
  Tasks = {t1, t2}
  HB_TIMEOUT = 0
  SWEEP_WAIT = 1
  MaxLag = 1
  MaxTime = 2
SYMMETRY Symmetry
INVARIANTS
  TypeOK
  NoDuplicateNode
  EvenDispatch
