\* Two gateways whose clocks agree and scripts that take up to a tick: the token
\* limit.
CONSTANTS
  g1 = g1
  g2 = g2
  Tenant = tenant
  NoLimit = NoLimit
  Gateways = {g1, g2}
  Skew <- InStep
  Users = {u1}
  TokenEstimates = {2}
  RequestLimit = NoLimit
  TokenLimit = 3
  ConcurrencyLimit = NoLimit
  Window = 3
  Ttl = 1
  KeySlack = 1
  MaxRetries = 0
  Lossy = FALSE
  MaxDelay = 1
  MaxTime = 5
  MaxCalls = 3
SPECIFICATION Spec
CHECK_DEADLOCK FALSE
INVARIANTS
  TokensBounded
