\* A shutdown with more records queued than two batches take.
CONSTANTS
  q1 = q1
  q2 = q2
  q3 = q3
  p1 = p1
  p2 = p2
  RequestIds = {q1, q2, q3}
  Partitions = {p1, p2}
  Deployments <- Backlog
SPECIFICATION Spec
CHECK_DEADLOCK FALSE
INVARIANTS
  FlushesOnShutdown
