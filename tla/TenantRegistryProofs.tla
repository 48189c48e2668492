------------------------ MODULE TenantRegistryProofs ------------------------
(***************************************************************************)
(* What load and resolve_by_host guarantee together, for documents of any  *)
(* length: the domains of a document that loads have one owner each, and   *)
(* a host is resolved to the one entry that names it, or to none.          *)
(***************************************************************************)
EXTENDS TenantRegistry, TLAPS

\* An entry, with whatever else it holds.
IsEntry(entry) == entry.domains \in Seq(Host)

\* Lower-casing and cutting off the port make a host equal to a configured domain
\* exactly when the entry names the host.
LEMMA NamedByDomain ==
  ASSUME NEW entry, IsEntry(entry), NEW host \in Host
  PROVE  NamesHost(entry, host) <=> StripPort(Lower(host)) \in ToSet(Domains(entry))
<1> DEFINE domain == StripPort(Lower(host))
<1>1. host # Null
  BY RegistryAssumption DEF Host
<1>2. ASSUME NEW k \in DOMAIN entry.domains
      PROVE  domain = Lower(entry.domains[k]) <=>
               /\ entry.domains[k].name = host.name
               /\ entry.domains[k].port = IF host.name \in Ipv6Names THEN host.port ELSE NoPort
  <2>1. entry.domains[k] \in Host
    BY <1>2 DEF IsEntry
  <2> QED BY <2>1 DEF Host, Lower, StripPort
<1>3. NamesHost(entry, host) <=>
        \E k \in DOMAIN entry.domains :
          /\ entry.domains[k].name = host.name
          /\ entry.domains[k].port = IF host.name \in Ipv6Names THEN host.port ELSE NoPort
  BY <1>1 DEF NamesHost, ToSet
<1>4. domain \in ToSet(Domains(entry)) <=>
        \E k \in DOMAIN entry.domains : domain = Lower(entry.domains[k])
  BY DEF ToSet, Domains
<1> HIDE DEF domain
<1> QED BY <1>2, <1>3, <1>4 DEF domain

\* A domain of a document without duplicates belongs to one entry.
LEMMA OneOwner ==
  ASSUME NEW doc, Loadable(doc), NEW domain,
         NEW i \in DOMAIN doc, domain \in ToSet(Domains(doc[i])),
         NEW j \in DOMAIN doc, domain \in ToSet(Domains(doc[j]))
  PROVE  i = j
<1>1. PICK k \in DOMAIN Domains(doc[i]) : domain = Domains(doc[i])[k]
  BY DEF ToSet
<1>2. PICK l \in DOMAIN Domains(doc[j]) : domain = Domains(doc[j])[l]
  BY DEF ToSet
<1>3. ~ \E g, h \in DOMAIN doc :
          \E m \in DOMAIN Domains(doc[g]), n \in DOMAIN Domains(doc[h]) :
            <<g, m>> # <<h, n>> /\ Domains(doc[g])[m] = Domains(doc[h])[n]
  BY DEF Loadable, Twice
<1>4. <<i, k>> = <<j, l>>
  BY <1>1, <1>2, <1>3
<1> QED BY <1>4

\* The index of a loaded document gives a domain to the entry that has it.
LEMMA LoadedOwner ==
  ASSUME NEW S, NEW doc \in Seq(S), Loadable(doc), NEW domain,
         NEW i \in DOMAIN doc, domain \in ToSet(Domains(doc[i]))
  PROVE  domain \in DOMAIN Load(doc) /\ Load(doc)[domain] = doc[i]
<1>1. \A j \in DOMAIN doc : domain \in ToSet(Domains(doc[j])) => j = i
  BY OneOwner
<1>2. i <= i
  OBVIOUS
<1>3. Owner(doc, domain) = i
  BY <1>1, <1>2 DEF Owner
<1> QED BY <1>3 DEF Load

\* A host is resolved to the one entry that names it, and to none if none does
\* (TenantRegistry.load and resolve_by_host).
THEOREM ResolvedByName ==
  ASSUME NEW S, NEW doc \in Seq(S), Loadable(doc), NEW host \in Host,
         \A i \in DOMAIN doc : IsEntry(doc[i])
  PROVE  LET claimants == {i \in DOMAIN doc : NamesHost(doc[i], host)}
         IN IF claimants = {} THEN ResolveByHost(Load(doc), host) = Null
            ELSE \E i \in claimants : /\ claimants = {i}
                                      /\ ResolveByHost(Load(doc), host) = doc[i]
<1> DEFINE domain == StripPort(Lower(host))
           claimants == {i \in DOMAIN doc : NamesHost(doc[i], host)}
<1>1. claimants = {i \in DOMAIN doc : domain \in ToSet(Domains(doc[i]))}
  BY NamedByDomain
<1>2. ResolveByHost(Load(doc), host)
        = IF domain \in DOMAIN Load(doc) THEN Load(doc)[domain] ELSE Null
  BY RegistryAssumption DEF ResolveByHost, Host
<1> HIDE DEF domain, claimants
<1>3. CASE claimants = {}
  <2>1. domain \notin DOMAIN Load(doc)
    BY <1>1, <1>3 DEF Load
  <2> QED BY <1>2, <1>3, <2>1 DEF claimants
<1>4. CASE claimants # {}
  <2>1. PICK i \in claimants : TRUE
    BY <1>4
  <2>2. \A j \in claimants : j = i
    BY <1>1, <2>1, OneOwner
  <2>3. domain \in DOMAIN Load(doc) /\ Load(doc)[domain] = doc[i]
    BY <1>1, <2>1, LoadedOwner
  <2>4. claimants = {i}
    BY <2>1, <2>2
  <2> QED BY <1>2, <1>4, <2>1, <2>3, <2>4 DEF claimants
<1> QED BY <1>3, <1>4
============================================================================
