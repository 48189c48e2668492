--------------------------- MODULE TenantRegistry ---------------------------
(***************************************************************************)
(* The tenant registry (tenant_registry.py): a YAML document of tenants,   *)
(* validated as a whole and indexed by domain, and the lookup of the       *)
(* tenant a Host header names.  Pure operators over documents; the modules *)
(* that start a gateway and that handle a request extend this one.         *)
(***************************************************************************)
EXTENDS Integers, Sequences, FiniteSets, SequencesExt

CONSTANTS
  TenantIds,
  HostNames,     \* the names of hosts, without regard to letter case
  Ipv6Names,     \* those of them that are IPv6 literals, full of colons
  NoPort, Ports, \* what follows the name, if anything
  Null           \* None

ASSUME RegistryAssumption ==
  /\ Ipv6Names \subseteq HostNames
  /\ NoPort \notin Ports
  /\ Null \notin [name: HostNames, upper: BOOLEAN, port: Ports \union {NoPort}]

\* A Host header or a configured domain: is it written with upper-case letters,
\* and with which port?
Host == [name: HostNames, upper: BOOLEAN, port: Ports \union {NoPort}]

\* A document is a sequence of entries with at least the fields id, domains (a
\* sequence of hosts) and valid: do the validators of TenantConfig accept it?

----------------------------------------------------------------------------
\* Mutant of Lower: the letter case is kept.
LowerNot(host) == host
Lower(host) == [host EXCEPT !.upper = FALSE]

\* The host has exactly one colon: a port is cut off, but not from an IPv6 literal.
StripPort(host) ==
  IF host.port # NoPort /\ host.name \notin Ipv6Names
  THEN [host EXCEPT !.port = NoPort] ELSE host

\* TenantConfig.lower_domains: a configured domain keeps its port.
Domains(entry) == [i \in DOMAIN entry.domains |-> Lower(entry.domains[i])]

\* One domain, or one tenant id, twice in the document, also within one tenant.
Twice(document) ==
  \/ \E i, j \in DOMAIN document : i # j /\ document[i].id = document[j].id
  \/ \E i, j \in DOMAIN document :
       \E k \in DOMAIN Domains(document[i]), l \in DOMAIN Domains(document[j]) :
         <<i, k>> # <<j, l>> /\ Domains(document[i])[k] = Domains(document[j])[l]

Valid(entry) == entry.valid /\ entry.domains # <<>>

\* Mutant of Loadable: an entry that claims a taken domain is let in.
LoadableAnyway(document) == \A i \in DOMAIN document : Valid(document[i])

\* load: the document is refused as a whole.
Loadable(document) ==
  /\ \A i \in DOMAIN document : Valid(document[i])
  /\ ~ Twice(document)

\* tenants_by_domain.  A domain that comes twice would belong to the last.
Owner(document, domain) ==
  CHOOSE i \in DOMAIN document :
    /\ domain \in ToSet(Domains(document[i]))
    /\ \A j \in DOMAIN document : domain \in ToSet(Domains(document[j])) => j <= i

Load(document) ==
  [domain \in UNION {ToSet(Domains(document[i])) : i \in DOMAIN document}
     |-> document[Owner(document, domain)]]

ResolveByHost(registry, host) ==
  IF host = Null THEN Null
  ELSE LET domain == StripPort(Lower(host))
       IN IF domain \in DOMAIN registry THEN registry[domain] ELSE Null

\* Does an entry of a document name a host, letter case and port aside?
NamesHost(entry, host) ==
  host # Null /\ \E domain \in ToSet(entry.domains) :
    /\ domain.name = host.name
    /\ domain.port = IF host.name \in Ipv6Names THEN host.port ELSE NoPort
============================================================================
