SPECIFICATION FairSpec
CONSTANTS
  Tasks = {t1, t2, t3}
  Limit = 2
  MaxFailures = 2
  MaxHangs = 1
INVARIANTS
  TypeOK
  FaultNeedsEventFailure
  TasksRunOnce
  TornDown
  PoolContractKept
PROPERTIES
  RequestsAnswered
  StopReturns
