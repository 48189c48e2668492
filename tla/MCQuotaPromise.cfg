\* Windows, tokens and concurrency limits that all bite: half-second ticks, a
\* window and a TTL of two seconds, ids that are reused only
\* after the call that held them was finished, calls that never finish.
CONSTANTS
  Users = {u1, u2}
  RequestIds = {q1, q2, q3}
  TokenEstimates = {0, 2}
  RequestLimit = 2
  TokenLimit = 3
  ConcurrencyLimit = 1
  NoLimit = NoLimit
  TicksPerSecond = 2
  WindowSeconds = 2
  TtlSeconds = 2
  IdsAreFresh = TRUE
  ClockCanStepBack = FALSE
  AnonymousFinish = FALSE
  MaxTime = 5
  MaxAdmissions = 3
SYMMETRY Symmetry
SPECIFICATION Spec
CHECK_DEADLOCK FALSE
INVARIANTS
  TypeOK
  SlotsMatchCalls
  ConcurrencyBounded
  RetryAfterFreesTheWindow
PROPERTIES
  KeepsPromise
