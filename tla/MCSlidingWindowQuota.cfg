\* Two users, a window longer than the TTL, and limits of which each can be the
\* one that refuses a call.
CONSTANTS
  Users = {u1, u2}
  RequestIds = {q1}
  TokenEstimates = {0, 2}
  RequestLimit = 2
  TokenLimit = 3
  ConcurrencyLimit = 1
  NoLimit = NoLimit
  Window = 3
  Ttl = 2
  MaxTime = 6
  MaxAdmissions = 4
SYMMETRY Symmetry
SPECIFICATION Spec
CHECK_DEADLOCK FALSE
INVARIANTS
  TypeOK
  SlidingWindow
  ConcurrencyBounded
