\* A TTL shorter than the life of a key set, so that the gateway's own cache is the
\* one that binds; one key and key ids nobody publishes.
CONSTANTS
  a = a
  b = b
  c = c
  m1 = m1
  m2 = m2
  m3 = m3
  x1 = x1
  x2 = x2
  x3 = x3
  k1 = k1
  k2 = k2
  k3 = k3
  u1 = u1
  u2 = u2
  idp = idp
  p1 = p1
  hostA = hostA
  hostB = hostB
  six = six
  hostC = hostC
  ported = ported
  nowhere = nowhere
  Null = Null
  NoPort = NoPort
  Blank = Blank
  NotAString = NotAString
  Urls = {idp}
  Keys = {k1}
  Ttl = 2
  Lifespan = 3
  MaxTime = 4
  MaxSetBack = 1
  TenantIds = {a, b, c}
  HostNames = {hostA, hostB, hostC, six, ported, nowhere}
  Ipv6Names = {six}
  Ports = {p1}
  Users = {u1, u2}
  Models = {m1, m2, m3}
  Adapters = {x1, x2, x3}
  KeyIds = {k1, k2, k3}
  Scopes = {"invoke"}
  Groups = {"users"}
  Situations <- MCSituations
  Requests <- MCRequests
SPECIFICATION Spec
CHECK_DEADLOCK FALSE
INVARIANTS
  TypeOK
  StaleKeysLapse
  ForwardedIsEntitled
  
  PolicyIsToldToItsOwn
  HeadersAreTheGateways
