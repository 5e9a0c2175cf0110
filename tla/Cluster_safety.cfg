SPECIFICATION Spec
CONSTANTS
  Nodes = {n1, n2}
  NoNode = NoNode
  Tasks = {t1}
  HB_TIMEOUT = 1
  SWEEP_WAIT = 1
  MaxLag = 0
  HB_WAIT = 1
  Window = 2
  MaxFaults = 1
SYMMETRY Symmetry
VIEW Matters
INVARIANTS
  AnswersFit
  TypeOK
  ReplyMatchesWork
