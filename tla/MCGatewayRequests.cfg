\* Every setting, three requests of a tenant that may have two upstream, an id
\* that is used again once its request is over, a ledger queue of one.
CONSTANTS
  Requests = {r1, r2, r3}
  RequestIds = {q1, q2, q3}
  Users = {u1}
  Settings <- AllSettings
  ConcurrencyLimit = 2
  NoLimit = NoLimit
  TtlSeconds = 1
  IdsAreFresh = TRUE
  LedgerCapacity = 1
  MaxTime = 1
SYMMETRY Symmetry
SPECIFICATION Spec
CHECK_DEADLOCK FALSE
INVARIANTS
  TypeOK
  SlotsAreActiveRequests
  UpstreamBounded
  BilledIffServed
  AuditedAsAnswered
