\* Two gateways whose clocks differ by a tick, scripts that take up to a tick,
\* connections that break before or after a script ran, one retry, crashes, a TTL
\* longer than the window, and calls with and without tokens.
CONSTANTS
  g1 = g1
  g2 = g2
  Tenant = tenant
  NoLimit = NoLimit
  Gateways = {g1, g2}
  Skew <- OneAhead
  Users = {u1}
  TokenEstimates = {0, 2}
  RequestLimit = 2
  TokenLimit = 3
  ConcurrencyLimit = 1
  Window = 2
  Ttl = 4
  KeySlack = 0
  MaxRetries = 1
  Lossy = TRUE
  MaxDelay = 1
  MaxTime = 4
  MaxCalls = 3
SPECIFICATION Spec
CHECK_DEADLOCK FALSE
INVARIANTS
  TypeOK
  RequestsBounded
  TokensOfOneGateway
  SlotsKept
  ConcurrencyBounded
PROPERTIES
  RefusalsAreDue
