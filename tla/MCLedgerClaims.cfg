\* S3 and DynamoDB with one call that fails and a queue that never fills up.
CONSTANTS
  q1 = q1
  q2 = q2
  q3 = q3
  p1 = p1
  p2 = p2
  RequestIds = {q1, q2, q3}
  Partitions = {p1, p2}
  Deployments <- Roomy
SPECIFICATION Spec
CHECK_DEADLOCK FALSE
INVARIANTS
  RequeuedIsWritten
