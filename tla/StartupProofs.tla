--------------------------- MODULE StartupProofs ---------------------------
(***************************************************************************)
(* Proofs about Startup: what a gateway that reports ready is, for all     *)
(* settings, files and failures.  The invariant says, stage by stage, what *)
(* the steps so far have built out of the settings.                        *)
(***************************************************************************)
EXTENDS Startup, TenantRegistryProofs

Early == {"down", "failed", "configured"}
Judged == {"judged", "tokenized", "limited", "prepared", "serving"}

\* Nothing is there before the posture was judged, and afterwards exactly what the
\* settings call for, unless they are blocked.
Built ==
  /\ stage \in Early => /\ block = {} /\ encoder = Null /\ enforcer = Null
                        /\ ~ worker /\ registry = Null
  /\ stage \in Judged => block = Block(settings)
  /\ stage \in {"judged", "tokenized", "limited"} => block = {}
  /\ block # {} => encoder = Null /\ enforcer = Null /\ ~ worker
  /\ block = {} /\ stage \in {"tokenized", "limited", "prepared", "serving"} =>
       /\ ~ BytesRefused(settings)
       /\ encoder = IF settings.tokenizer = "utf8_bytes" THEN "bytes" ELSE "exact"
  /\ block = {} /\ stage \in {"limited", "prepared", "serving"} =>
       enforcer = IF settings.quota = "disabled" THEN Null ELSE settings.quota
  /\ block = {} /\ stage \in {"prepared", "serving"} => worker = RequiresLedger(settings)

\* What is served is what the file held when it was loaded.
FromFile ==
  /\ stage \in Judged \ {"serving"} => registry = Null
  /\ stage = "serving" =>
       /\ loaded \in Files \ {Undecodable}
       /\ registry = IF loaded # Unloadable /\ Loadable(loaded) THEN Load(loaded) ELSE Null

StartInv == /\ settings \in Configurations /\ file \in Files
            /\ stage \in Early \union Judged
            /\ worker \in BOOLEAN
            /\ Built /\ FromFile

LEMMA StartInvInit == Init => StartInv
BY DEF Init, StartInv, Built, FromFile, Early, Judged

\* A process that ends, or is about to start, has nothing.
LEMMA FreshInv ==
  ASSUME StartInv, NEW where \in Early, Fresh(where),
         settings' \in Configurations, file' \in Files
  PROVE  StartInv'
BY DEF StartInv, Built, FromFile, Early, Judged, Fresh

LEMMA StartInvNext == StartInv /\ [Next]_vars => StartInv'
<1> SUFFICES ASSUME StartInv, [Next]_vars PROVE StartInv'
  OBVIOUS
<1> USE DEF StartInv
<1>1. CASE Configure
  BY <1>1, FreshInv DEF Configure, Fail, world, Early
<1>2. CASE Judge
  <2>1. CASE CanMake("audit")
    BY <1>2, <2>1 DEF Judge, Built, FromFile, Early, Judged
  <2>2. CASE ~ CanMake("audit")
    BY <1>2, <2>2, FreshInv DEF Judge, Fail, Early
  <2> QED BY <2>1, <2>2
<1>3. CASE InitializeTokenizer
  <2>1. CASE BytesRefused(settings) \/ (settings.tokenizer # "utf8_bytes" /\ "assets" \in broken)
    BY <1>3, <2>1, FreshInv DEF InitializeTokenizer, Fail, world, Early
  <2>2. CASE ~ (BytesRefused(settings) \/ (settings.tokenizer # "utf8_bytes" /\ "assets" \in broken))
    BY <1>3, <2>2 DEF InitializeTokenizer, world, Built, FromFile, Early, Judged, BytesRefused
  <2> QED BY <2>1, <2>2
<1>4. CASE CreateQuotaEnforcer
  <2>1. CASE settings.quota = "redis" /\ "redis" \in broken
    BY <1>4, <2>1, FreshInv DEF CreateQuotaEnforcer, Fail, world, Early
  <2>2. CASE ~ (settings.quota = "redis" /\ "redis" \in broken)
    BY <1>4, <2>2 DEF CreateQuotaEnforcer, world, Built, FromFile, Early, Judged, BytesRefused
  <2> QED BY <2>1, <2>2
<1>5. CASE CreateLedger
  <2>1. CASE CanMake("billing")
    BY <1>5, <2>1 DEF CreateLedger, Built, FromFile, Early, Judged, BytesRefused, RequiresLedger
  <2>2. CASE ~ CanMake("billing")
    BY <1>5, <2>2, FreshInv DEF CreateLedger, Fail, Early
  <2> QED BY <2>1, <2>2
<1>6. CASE LoadRegistry
  <2>1. CASE file = Undecodable
    BY <1>6, <2>1, FreshInv DEF LoadRegistry, Fail, world, Early
  <2>2. CASE file # Undecodable
    <3>1. Built'
      BY <1>6, <2>2 DEF LoadRegistry, world, Built, Early, Judged, BytesRefused
    <3>2. FromFile'
      BY <1>6, <2>2 DEF LoadRegistry, world, FromFile, Early, Judged
    <3> QED BY <1>6, <2>2, <3>1, <3>2 DEF LoadRegistry, world, Judged
  <2> QED BY <2>1, <2>2
<1>7. CASE Shutdown
  BY <1>7, FreshInv DEF Shutdown, world, Early
<1>8. CASE Kill
  BY <1>8, FreshInv DEF Kill, Early
<1>9. ASSUME NEW content \in Files, Edit(content) PROVE StartInv'
  BY <1>9 DEF Edit, process, Built, FromFile, BytesRefused
<1>10. ASSUME NEW s \in Configurations, Reconfigure(s) PROVE StartInv'
  BY <1>10 DEF Reconfigure, process, Built, FromFile, Early, Judged
<1>11. ASSUME NEW d \in Dependencies, Break(d) \/ Repair(d) PROVE StartInv'
  BY <1>11 DEF Break, Repair, process, Built, FromFile
<1>12. CASE UNCHANGED vars
  BY <1>12 DEF vars, world, process, Built, FromFile
<1> QED
  BY <1>1, <1>2, <1>3, <1>4, <1>5, <1>6, <1>7, <1>8, <1>9, <1>10, <1>11, <1>12 DEF Next, Start

\* A ready gateway has every dependency that its settings call for, and a tokenizer
\* they allow: no step of the lifespan goes on without (lifespan, main.py:62-76).
THEOREM ReadyComplete == Spec => []ReadyIsComplete
<1>1. StartInv => ReadyIsComplete
  BY DEF StartInv, Built, Judged, Ready, ReadyIsComplete, RequiresLedger, BytesRefused, Kind
<1> QED BY StartInvInit, StartInvNext, <1>1, PTL DEF Spec

\* A blocked gateway has started nothing (lifespan, main.py:56-61).
THEOREM BlockedIsEmpty == Spec => []BlockedStartsNothing
<1>1. StartInv => BlockedStartsNothing
  BY DEF StartInv, Built, Early, Judged, BlockedStartsNothing
<1> QED BY StartInvInit, StartInvNext, <1>1, PTL DEF Spec

\* In production and in enforce mode only a hardened gateway lets requests past
\* (evaluate_security_posture, enforce_security_posture).
THEOREM ProductionHardened == Spec => []ProductionIsHardened
<1>1. ASSUME StartInv, Ready, settings.environment.kind = "production",
             settings.posture = "enforce"
      PROVE  /\ settings.auth = "oidc" /\ settings.audit # "disabled"
             /\ settings.billing # "disabled"
             /\ enforcer = "redis"
             /\ settings.upstream = "private"
                \/ (settings.upstream = "public" /\ ~ settings.privateRequired)
  <2>1. settings \in AppSettings
    BY <1>1, StartupAssumption DEF StartInv
  <2>2. Findings(settings) \subseteq Medium
    BY <1>1 DEF StartInv, Built, Judged, Ready, Block
  <2>3. /\ "mock_auth_enabled" \notin Findings(settings)
        /\ "mock_upstream_enabled" \notin Findings(settings)
        /\ "quota_disabled" \notin Findings(settings)
        /\ "quota_in_memory_not_distributed" \notin Findings(settings)
        /\ "billing_disabled" \notin Findings(settings)
        /\ "audit_disabled" \notin Findings(settings)
        /\ "upstream_not_private" \notin Findings(settings)
    BY <2>2 DEF Medium
  <2>4. /\ settings.auth # "mock" /\ settings.upstream # "mock"
        /\ settings.quota # "disabled" /\ settings.quota # "in_memory"
        /\ settings.billing # "disabled" /\ settings.audit # "disabled"
        /\ ~ (settings.privateRequired /\ settings.upstream = "public")
    BY <1>1, <2>3 DEF Findings, Kind
  <2>5. /\ settings.auth \in {"mock", "oidc"}
        /\ settings.upstream \in {"mock", "private", "public"}
        /\ settings.quota \in {"disabled", "in_memory", "redis"}
    BY <2>1 DEF AppSettings
  <2>6. enforcer = IF settings.quota = "disabled" THEN Null ELSE settings.quota
    BY <1>1 DEF StartInv, Built, Ready
  <2> QED BY <2>4, <2>5, <2>6
<1>2. StartInv => ProductionIsHardened
  BY <1>1 DEF ProductionIsHardened
<1> QED BY StartInvInit, StartInvNext, <1>2, PTL DEF Spec

\* A ready gateway resolves every host by the file it loaded, however many tenants
\* that has and whatever the file holds now (TenantRegistry.load, resolve_by_host).
THEOREM ResolvesByFile == Spec => []ResolvesToClaimant
<1>1. ASSUME StartInv, Ready, NEW host \in Host
      PROVE  LET claimants == {i \in DOMAIN loaded : NamesHost(loaded[i], host)}
             IN IF claimants = {} THEN Resolved(host) = Null
                ELSE \E i \in claimants : claimants = {i} /\ Resolved(host) = loaded[i]
  <2> DEFINE E == [id: TenantIds, domains: Seq(Host), valid: BOOLEAN]
  <2>1. /\ loaded \in Files /\ loaded # Undecodable /\ loaded # Unloadable
        /\ Loadable(loaded) /\ registry = Load(loaded)
    BY <1>1 DEF StartInv, FromFile, Ready
  <2>2. loaded \in Seq(E)
    BY <2>1, StartupAssumption DEF Content
  <2>3. \A entry \in E : IsEntry(entry)
    BY DEF IsEntry
  <2> HIDE DEF E
  <2>4. \A i \in DOMAIN loaded : IsEntry(loaded[i])
    BY <2>2, <2>3
  <2> QED BY <2>1, <2>2, <2>4, ResolvedByName DEF Resolved
<1>2. StartInv => ResolvesToClaimant
  BY <1>1 DEF ResolvesToClaimant
<1> QED BY StartInvInit, StartInvNext, <1>2, PTL DEF Spec

----------------------------------------------------------------------------
\* What the steps do to the rest of the state, step by step: around the process, and
\* of what it builds no more than that a start which has not come so far has nothing.
Typed ==
  /\ broken \subseteq Dependencies /\ directories \subseteq {"audit", "billing"}
  /\ disruptions \in 0 .. MaxDisruptions
  /\ encoder \in {Null, "bytes", "exact"} /\ enforcer \in {Null, "in_memory", "redis"}
  /\ loaded # Null => loaded \in Files

LEMMA TypedInit == Init => Typed
BY StartupAssumption DEF Init, Typed

\* A process that ends, or is about to start, is typed as the world around it is.
LEMMA FreshTyped ==
  ASSUME NEW where, Fresh(where),
         broken' \subseteq Dependencies, directories' \subseteq {"audit", "billing"},
         disruptions' \in 0 .. MaxDisruptions
  PROVE  Typed'
BY DEF Typed, Fresh

LEMMA TypedNext == StartInv /\ Typed /\ [Next]_vars => Typed'
<1> SUFFICES ASSUME StartInv, Typed, [Next]_vars PROVE Typed'
  OBVIOUS
<1>1. CASE Configure
  BY <1>1, FreshTyped DEF Configure, Fail, world, Typed
<1>2. CASE Judge
  <2>1. CASE CanMake("audit")
    BY <1>2, <2>1 DEF Judge, Typed
  <2>2. CASE ~ CanMake("audit")
    BY <1>2, <2>2, FreshTyped DEF Judge, Fail, Typed
  <2> QED BY <2>1, <2>2
<1>3. CASE InitializeTokenizer
  <2>1. CASE BytesRefused(settings) \/ (settings.tokenizer # "utf8_bytes" /\ "assets" \in broken)
    BY <1>3, <2>1, FreshTyped DEF InitializeTokenizer, Fail, world, Typed
  <2>2. CASE ~ (BytesRefused(settings) \/ (settings.tokenizer # "utf8_bytes" /\ "assets" \in broken))
    BY <1>3, <2>2 DEF InitializeTokenizer, world, Typed
  <2> QED BY <2>1, <2>2
<1>4. CASE CreateQuotaEnforcer
  <2>1. CASE settings.quota = "redis" /\ "redis" \in broken
    BY <1>4, <2>1, FreshTyped DEF CreateQuotaEnforcer, Fail, world, Typed
  <2>2. CASE ~ (settings.quota = "redis" /\ "redis" \in broken)
    <3>1. settings.quota \in {"disabled", "in_memory", "redis"}
      BY StartupAssumption DEF StartInv, AppSettings
    <3> QED BY <1>4, <2>2, <3>1 DEF CreateQuotaEnforcer, world, Typed
  <2> QED BY <2>1, <2>2
<1>5. CASE CreateLedger
  <2>1. CASE CanMake("billing")
    BY <1>5, <2>1 DEF CreateLedger, Typed
  <2>2. CASE ~ CanMake("billing")
    BY <1>5, <2>2, FreshTyped DEF CreateLedger, Fail, Typed
  <2> QED BY <2>1, <2>2
<1>6. CASE LoadRegistry
  <2>1. CASE file = Undecodable
    BY <1>6, <2>1, FreshTyped DEF LoadRegistry, Fail, world, Typed
  <2>2. CASE file # Undecodable
    BY <1>6, <2>2 DEF LoadRegistry, world, Typed, StartInv
  <2> QED BY <2>1, <2>2
<1>7. CASE Shutdown
  BY <1>7, FreshTyped DEF Shutdown, world, Typed
<1>8. ASSUME Disrupted PROVE disruptions' \in 0 .. MaxDisruptions
  BY <1>8, StartupAssumption DEF Disrupted, Typed
<1>9. CASE Kill
  BY <1>8, <1>9, FreshTyped DEF Kill, Typed
<1>10. ASSUME NEW content \in Files, Edit(content) PROVE Typed'
  BY <1>8, <1>10 DEF Edit, process, Typed
<1>11. ASSUME NEW s \in Configurations, Reconfigure(s) PROVE Typed'
  BY <1>8, <1>11 DEF Reconfigure, process, Typed
<1>12. ASSUME NEW d \in Dependencies, Break(d) PROVE Typed'
  BY <1>8, <1>12 DEF Break, process, Typed
<1>13. ASSUME NEW d \in Dependencies, Repair(d) PROVE Typed'
  BY <1>13 DEF Repair, process, Typed
<1>14. CASE UNCHANGED vars
  BY <1>14 DEF vars, world, process, Typed
<1> QED
  BY <1>1, <1>2, <1>3, <1>4, <1>5, <1>6, <1>7, <1>9, <1>10, <1>11, <1>12, <1>13, <1>14
  DEF Next, Start

\* The domains of a document of hosts are hosts, in lower case.
LEMMA LoadedHosts ==
  ASSUME NEW doc \in Seq([id: TenantIds, domains: Seq(Host), valid: BOOLEAN])
  PROVE  DOMAIN Load(doc) \subseteq Host
<1> DEFINE E == [id: TenantIds, domains: Seq(Host), valid: BOOLEAN]
<1>1. \A entry \in E : ToSet(Domains(entry)) \subseteq Host
  <2> SUFFICES ASSUME NEW entry \in E, NEW k \in DOMAIN entry.domains
               PROVE  Lower(entry.domains[k]) \in Host
    BY DEF ToSet, Domains
  <2>1. entry.domains[k] \in Host
    OBVIOUS
  <2> QED BY <2>1 DEF Host, Lower
<1>2. doc \in Seq(E)
  OBVIOUS
<1> HIDE DEF E
<1>3. \A i \in DOMAIN doc : doc[i] \in E
  BY <1>2
<1> QED BY <1>1, <1>3 DEF Load

\* The state is well typed; above all a process that blocks itself does so for high
\* findings of the settings it runs with, which cannot change under it, and the
\* registry is keyed by hosts (enforce_security_posture, TenantRegistry.load).
THEOREM StartTypeCorrect == Spec => []TypeOK
<1>1. ASSUME StartInv, Typed PROVE TypeOK
  <2>1. block \subseteq Findings(settings) \ Medium
    BY <1>1 DEF StartInv, Built, Early, Judged, Block
  <2>2. registry # Null => DOMAIN registry \subseteq Host
    <3> SUFFICES ASSUME registry # Null PROVE DOMAIN registry \subseteq Host
      OBVIOUS
    <3>1. /\ loaded \in Files \ {Undecodable, Unloadable}
          /\ registry = Load(loaded)
      BY <1>1 DEF StartInv, Built, FromFile, Early, Judged
    <3>2. loaded \in Seq([id: TenantIds, domains: Seq(Host), valid: BOOLEAN])
      BY <3>1, StartupAssumption DEF Content
    <3> QED BY <3>1, <3>2, LoadedHosts
  <2>3. stage \in {"down", "failed", "configured", "judged", "tokenized", "limited",
                   "prepared", "serving"}
    BY <1>1 DEF StartInv, Early, Judged
  <2> QED BY <1>1, <2>1, <2>2, <2>3 DEF TypeOK, StartInv, Typed
<1>2. StartInv /\ Typed => TypeOK
  BY <1>1
<1> QED BY StartInvInit, StartInvNext, TypedInit, TypedNext, <1>2, PTL DEF Spec
============================================================================
