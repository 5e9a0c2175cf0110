SPECIFICATION Spec
CONSTANTS
  Producers = {p1}
  Consumers = {c1}
  Sessions = {s1, s2, s3, s4}
  Threads = {t1, t2, t3}
  SpawnFails = FALSE
  AllocFails = FALSE
  NULL = NULL
  Texts = {"", "host", "mq", "amq", "queue"}
  MaxParts = 3
INVARIANT
  FailureNoticed
