\* One stream or plain request: is its slot returned?
CONSTANTS
  Requests = {r1}
  RequestIds = {q1}
  Users = {u1}
  Settings <- QuotaSettings
  ConcurrencyLimit = 2
  NoLimit = NoLimit
  TtlSeconds = 1
  IdsAreFresh = TRUE
  LedgerCapacity = 1
  MaxTime = 1
SYMMETRY Symmetry
SPECIFICATION Spec
CHECK_DEADLOCK FALSE
INVARIANTS
  SlotsReturned
