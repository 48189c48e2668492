\* The settings the repository ships and variants of them; four disruptions, so that a
\* start can meet what a failed or killed one left, under another file or other settings.
CONSTANTS
  a = a
  b = b
  hostA = hostA
  hostB = hostB
  six = six
  p1 = p1
  Null = Null
  NoPort = NoPort
  Unloadable = Unloadable
  Undecodable = Undecodable
  TenantIds = {a, b}
  HostNames = {hostA, hostB, six}
  Ipv6Names = {six}
  Ports = {p1}
  Configurations <- MCConfigurations
  Files <- MCFiles
  MaxDisruptions = 4
SPECIFICATION Spec
INVARIANTS
  TypeOK
  ReadyIsComplete
  BlockedStartsNothing
  ProductionIsHardened
  ResolvesToClaimant
PROPERTIES
  EventuallyServes
