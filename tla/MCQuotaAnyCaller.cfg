\* Callers and a clock that keep to nothing: ids reused in flight, finishes without
\* an id, time that steps back.  The TTL is longer than the window, so stale
\* entries outlive expired records.
CONSTANTS
  Users = {u1, u2}
  RequestIds = {q1, q2}
  TokenEstimates = {1}
  RequestLimit = 2
  TokenLimit = 2
  ConcurrencyLimit = 1
  NoLimit = NoLimit
  TicksPerSecond = 1
  WindowSeconds = 1
  TtlSeconds = 2
  IdsAreFresh = FALSE
  ClockCanStepBack = TRUE
  AnonymousFinish = TRUE
  MaxTime = 3
  MaxAdmissions = 3
SYMMETRY Symmetry
SPECIFICATION Spec
CHECK_DEADLOCK FALSE
INVARIANTS
  CountsWithinLimits
