SPECIFICATION FairSpec
CONSTANTS
  Nodes = {n1}
  NoNode = NoNode
  Tasks = {t1}
  HB_TIMEOUT = 4
  SWEEP_WAIT = 3
  MaxLag = 1
  HB_WAIT = 2
  Window = 6
  MaxFaults = 2
INVARIANT
  AddressSurvives
PROPERTIES
  LeavesForCause
  MembershipConverges
