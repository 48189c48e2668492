\* A local file, and S3 with DynamoDB, both shut down while calls fail.  The
\* process ends, so the system may stop.
CONSTANTS
  q1 = q1
  q2 = q2
  q3 = q3
  p1 = p1
  p2 = p2
  RequestIds = {q1, q2, q3}
  Partitions = {p1, p2}
  Deployments <- FileAndAws
SPECIFICATION FairSpec
CHECK_DEADLOCK FALSE
INVARIANTS
  TypeOK
  Kept
  DuplicateMeansAccepted
  AtMostOnce
  CompleteMeansWritten
PROPERTIES
  KeepsPromise
  EventuallyWritten
  EventuallyComplete
