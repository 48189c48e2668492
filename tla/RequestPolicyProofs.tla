------------------------- MODULE RequestPolicyProofs -------------------------
(***************************************************************************)
(* Proofs about JwksCache and RequestPolicy.  First the cache alone: what  *)
(* a lookup accepts without asking, for every number of URLs and keys and  *)
(* all durations; the invariant ties the moment a key set was fetched to   *)
(* the withdrawals since and to the deadline of its client.  Then the      *)
(* requests: every step of the composition is a step of the cache or       *)
(* leaves it alone; a list of checks all of which hold says of the request *)
(* what the properties ask for, and the first check that fails says what   *)
(* is wrong with it.                                                       *)
(***************************************************************************)
EXTENDS RequestPolicy, TenantRegistryProofs, WellFoundedInduction, TLAPS

\* A key set was fetched in the past, lost no key before it was fetched, and its
\* client runs out in time.
Tracked(url, client) ==
  /\ setBack = 0 => client.expires <= now + Ttl
  /\ client.fetched # Never =>
       /\ client.fetched <= now
       /\ \A key \in client.keys :
            key \notin published[url] => client.fetched <= withdrawn[url][key]
       /\ setBack = 0 => client.expires <= client.fetched + Ttl

JwksInv == JwksTypeOK /\ \A url \in Urls : Tracked(url, clients[url])

\* What get returns is a client, tracked like the one in the cache.
LEMMA GetTracked ==
  ASSUME JwksInv, NEW url \in Urls
  PROVE  Get(url) \in Client /\ Tracked(url, Get(url))
BY JwksAssumption DEF JwksInv, JwksTypeOK, Get, Client, Tracked, Live, Wall, Never, Time

\* So is every client a lookup can leave in the cache.
LEMMA SigningTracked ==
  ASSUME JwksInv, NEW url \in Urls, NEW key, NEW client \in Signing(url, key)
  PROVE  client \in Client /\ Tracked(url, client)
<1>1. Get(url) \in Client /\ Tracked(url, Get(url))
  BY GetTracked
<1>2. CASE client = Get(url)
  BY <1>1, <1>2
<1>3. CASE client = [Get(url) EXCEPT !.keys = published[url], !.fetched = now]
  <2> DEFINE c == Get(url)
  <2>1. c \in Client /\ c.expires \in Int /\ (setBack = 0 => c.expires <= now + Ttl)
    BY <1>1 DEF Client, Tracked
  <2>2. /\ client.expires = c.expires /\ client.keys = published[url] /\ client.fetched = now
        /\ client \in Client
    BY <1>3, <2>1 DEF Client, JwksInv, JwksTypeOK
  <2> HIDE DEF c
  <2> QED
    BY <2>1, <2>2, JwksAssumption DEF JwksInv, JwksTypeOK, Client, Tracked, Never, Time
<1>4. CASE client = [Get(url) EXCEPT !.keys = {}, !.fetched = Never]
  BY <1>1, <1>4, JwksAssumption DEF JwksInv, JwksTypeOK, Client, Tracked, Never, Time
<1> QED BY <1>2, <1>3, <1>4 DEF Signing, Fetched

LEMMA InvInit == JwksInit => JwksInv
BY JwksAssumption DEF JwksInit, JwksInv, JwksTypeOK, Tracked, NoClient, Client, Never, Time

\* A step that leaves one URL a client the cache can hold keeps the invariant.
LEMMA InvClient ==
  ASSUME JwksInv, NEW url \in Urls, NEW client \in Client, Tracked(url, client),
         clients' = [clients EXCEPT ![url] = client],
         UNCHANGED <<now, setBack, provider>>
  PROVE  JwksInv'
BY DEF JwksInv, JwksTypeOK, Tracked, provider, Client

\* The provider and the clocks keep it too.
LEMMA InvSurroundings == JwksInv /\ Surroundings => JwksInv'
<1> SUFFICES ASSUME JwksInv, Surroundings PROVE JwksInv'
  OBVIOUS
<1> USE JwksAssumption
<1>1. CASE Tick
  BY <1>1 DEF Tick, JwksInv, JwksTypeOK, Tracked, provider, Client, Time, Never
<1>2. CASE SetBack
  BY <1>2 DEF SetBack, JwksInv, JwksTypeOK, Tracked, provider, Client, Time, Never
<1>3. ASSUME NEW url \in Urls, NEW key \in Keys, Publish(url, key) PROVE JwksInv'
  BY <1>3 DEF Publish, JwksInv, JwksTypeOK, Tracked, Client, Time, Never
<1>4. ASSUME NEW url \in Urls, NEW key \in Keys, Withdraw(url, key) PROVE JwksInv'
  <2>1. JwksTypeOK'
    BY <1>4 DEF Withdraw, JwksInv, JwksTypeOK, Client, Time
  <2>2. ASSUME NEW u \in Urls PROVE Tracked(u, clients[u])'
    BY <1>4, <2>2 DEF Withdraw, JwksInv, JwksTypeOK, Tracked, Client, Time, Never
  <2> QED BY <2>1, <2>2 DEF JwksInv
<1>5. ASSUME NEW url \in Urls, NEW state \in {"up", "down", "garbled"}, ChangeServing(url, state)
      PROVE JwksInv'
  BY <1>5 DEF ChangeServing, JwksInv, JwksTypeOK, Tracked, Client, Time, Never
<1> QED BY <1>1, <1>2, <1>3, <1>4, <1>5 DEF Surroundings

LEMMA InvStutter == JwksInv /\ UNCHANGED jwksVars => JwksInv'
BY DEF JwksInv, JwksTypeOK, Tracked, jwksVars, provider

LEMMA InvNext == JwksInv /\ [JwksNext]_jwksVars => JwksInv'
<1> SUFFICES ASSUME JwksInv, [JwksNext]_jwksVars PROVE JwksInv'
  OBVIOUS
<1>1. CASE Surroundings
  BY <1>1, InvSurroundings
<1>2. ASSUME NEW url \in Urls, NEW key \in Keys, Lookup(url, key) PROVE JwksInv'
  <2>1. PICK client \in Signing(url, key) : clients' = [clients EXCEPT ![url] = client]
    BY <1>2 DEF Lookup
  <2>2. client \in Client /\ Tracked(url, client)
    BY SigningTracked
  <2> QED BY <1>2, <2>1, <2>2, InvClient DEF Lookup
<1>3. CASE UNCHANGED jwksVars
  BY <1>3, InvStutter
<1> QED BY <1>1, <1>2, <1>3 DEF JwksNext

\* The invariant bounds how stale a key is that the cache holds.
LEMMA InvStale == JwksInv => StaleKeysLapse
<1> SUFFICES ASSUME JwksInv, NEW url \in Urls, NEW key \in Usable(url)
             PROVE /\ Age(url, key) <= Lifespan
                   /\ setBack = 0 => Age(url, key) < Ttl
  BY DEF StaleKeysLapse
<1>1. Live(clients[url]) /\ Young(clients[url]) /\ key \in clients[url].keys
  BY DEF Usable
<1>2. key \in Keys /\ clients[url] \in Client
  BY <1>1 DEF JwksInv, JwksTypeOK, Client
<1> QED BY <1>1, <1>2, JwksAssumption
       DEF JwksInv, JwksTypeOK, Tracked, Age, Live, Young, Wall, Client, Time, Never

\* Clocks, key sets and cached clients stay well formed (JwksClientCache.get, and
\* what it assumes of its surroundings).
THEOREM CacheTypeCorrect == JwksSpec => []JwksTypeOK
<1>1. JwksInv => JwksTypeOK
  BY DEF JwksInv
<1> QED BY InvInit, InvNext, <1>1, PTL DEF JwksSpec

\* A withdrawn key is accepted no longer than the life of a key set and, while the
\* wall clock is not set back, for less than jwks_cache_ttl_seconds.
THEOREM StaleKeys == JwksSpec => []StaleKeysLapse
BY InvInit, InvNext, InvStale, PTL DEF JwksSpec

----------------------------------------------------------------------------
\* All checks of two lists hold when those of each do.
LEMMA AllHoldConcat ==
  ASSUME NEW S, NEW s \in Seq(S), NEW T, NEW t \in Seq(T)
  PROVE  AllHold(s \o t) <=> AllHold(s) /\ AllHold(t)
<1>1. ASSUME AllHold(s \o t) PROVE AllHold(s) /\ AllHold(t)
  <2>1. ASSUME NEW i \in DOMAIN s PROVE s[i].holds
    <3>1. i \in DOMAIN (s \o t) /\ (s \o t)[i] = s[i]
      OBVIOUS
    <3> QED BY <1>1, <3>1 DEF AllHold
  <2>2. ASSUME NEW i \in DOMAIN t PROVE t[i].holds
    <3>1. Len(s) + i \in DOMAIN (s \o t) /\ (s \o t)[Len(s) + i] = t[i]
      OBVIOUS
    <3> QED BY <1>1, <3>1 DEF AllHold
  <2> QED BY <2>1, <2>2 DEF AllHold
<1>2. ASSUME AllHold(s), AllHold(t) PROVE AllHold(s \o t)
  <2> SUFFICES ASSUME NEW i \in DOMAIN (s \o t) PROVE (s \o t)[i].holds
    BY DEF AllHold
  <2>1. CASE i \in DOMAIN s
    BY <1>2, <2>1 DEF AllHold
  <2>2. CASE i \notin DOMAIN s
    <3>1. i - Len(s) \in DOMAIN t /\ (s \o t)[i] = t[i - Len(s)]
      BY <2>2
    <3> QED BY <1>2, <3>1 DEF AllHold
  <2> QED BY <2>1, <2>2
<1> QED BY <1>1, <1>2

\* Lists of checks are sequences, of whatever their members are.
LEMMA Tuples ==
  /\ \E S : <<>> \in Seq(S)
  /\ \A t : \E S : <<t>> \in Seq(S)
  /\ \A t, u : \E S : <<t, u>> \in Seq(S)
  /\ \A t, u, v : \E S : <<t, u, v>> \in Seq(S)
  /\ \A t, u, v, w : \E S : <<t, u, v, w>> \in Seq(S)
  /\ \A t, u, v, w, x, y : \E S : <<t, u, v, w, x, y>> \in Seq(S)
<1>1. \E S : <<>> \in Seq(S)
  <2>1. <<>> \in Seq({})
    OBVIOUS
  <2> QED BY <2>1
<1>2. \A t : \E S : <<t>> \in Seq(S)
  <2>1. \A t : <<t>> \in Seq({t})
    OBVIOUS
  <2> QED BY <2>1
<1>3. \A t, u : \E S : <<t, u>> \in Seq(S)
  <2>1. \A t, u : <<t, u>> \in Seq({t, u})
    OBVIOUS
  <2> QED BY <2>1
<1>4. \A t, u, v : \E S : <<t, u, v>> \in Seq(S)
  <2>1. \A t, u, v : <<t, u, v>> \in Seq({t, u, v})
    OBVIOUS
  <2> QED BY <2>1
<1>5. \A t, u, v, w : \E S : <<t, u, v, w>> \in Seq(S)
  <2>1. \A t, u, v, w : <<t, u, v, w>> \in Seq({t, u, v, w})
    OBVIOUS
  <2> QED BY <2>1
<1>6. \A t, u, v, w, x, y : \E S : <<t, u, v, w, x, y>> \in Seq(S)
  <2>1. \A t, u, v, w, x, y : <<t, u, v, w, x, y>> \in Seq({t, u, v, w, x, y})
    OBVIOUS
  <2> QED BY <2>1
<1> QED BY <1>1, <1>2, <1>3, <1>4, <1>5, <1>6

LEMMA BodyList == ASSUME NEW r PROVE \E S : BodyChecks(r) \in Seq(S)
BY Tuples DEF BodyChecks

LEMMA BearerList == ASSUME NEW r PROVE \E S : BearerChecks(r) \in Seq(S)
BY Tuples DEF BearerChecks

LEMMA ClaimList == ASSUME NEW token PROVE \E S : ClaimChecks(token) \in Seq(S)
<1> DEFINE member(i) == ClaimChecks(token)[i]
<1>1. ClaimChecks(token)
        = <<member(1), member(2), member(3), member(4), member(5), member(6)>>
  BY Zenon DEF ClaimChecks
<1> HIDE DEF member
<1>2. \E S : <<member(1), member(2), member(3), member(4), member(5), member(6)>> \in Seq(S)
  BY Tuples
<1> QED BY <1>1, <1>2

LEMMA PolicyList ==
  ASSUME NEW r, NEW tenant, NEW principal
  PROVE  \E S : PolicyChecks(r, tenant, principal) \in Seq(S)
BY Tuples DEF PolicyChecks

LEMMA GovernanceList ==
  ASSUME NEW adapter, NEW model, NEW tenant
  PROVE  \E S : GovernanceChecks(adapter, model, tenant) \in Seq(S)
<1> DEFINE list == GovernanceChecks(adapter, model, tenant)
<1>1. CASE adapter = Null \/ ~ settings.catalog
  BY <1>1, Tuples DEF GovernanceChecks
<1>2. CASE ~ (adapter = Null \/ ~ settings.catalog) /\ adapter \notin DOMAIN tenant.artifacts
  <2> DEFINE refusal == Checked(FALSE, "adapter_not_governed")
  <2>1. list = <<refusal>>
    BY <1>2 DEF GovernanceChecks
  <2> HIDE DEF refusal
  <2> QED BY <2>1, Tuples
<1>3. CASE ~ (adapter = Null \/ ~ settings.catalog) /\ adapter \in DOMAIN tenant.artifacts
  <2> DEFINE a == tenant.artifacts[adapter]
  <2>1. list = <<Checked(a.status = "active", a.status),
                 Checked(model \in a.compatible, "adapter_model_incompatible"),
                 Checked(a.checksum, "adapter_checksum_missing"),
                 Checked(a.signed, "adapter_signature_missing")>>
    BY <1>3 DEF GovernanceChecks
  <2>2. PICK t, u, v, w : list = <<t, u, v, w>>
    BY <2>1
  <2>3. \E S : <<t, u, v, w>> \in Seq(S)
    BY Tuples
  <2> QED BY <2>2, <2>3
<1> QED BY <1>1, <1>2, <1>3

\* Concatenations of sequences of anything are again sequences of something.
LEMMA ConcatList ==
  ASSUME NEW s, \E S : s \in Seq(S), NEW t, \E T : t \in Seq(T)
  PROVE  /\ \E U : s \o t \in Seq(U)
         /\ AllHold(s \o t) <=> AllHold(s) /\ AllHold(t)
<1>1. PICK S : s \in Seq(S)
  OBVIOUS
<1>2. PICK T : t \in Seq(T)
  OBVIOUS
<1>3. s \in Seq(S \union T) /\ t \in Seq(S \union T)
  BY <1>1, <1>2
<1>4. s \o t \in Seq(S \union T)
  BY <1>3
<1> QED BY <1>1, <1>2, <1>4, AllHoldConcat

LEMMA BearerHolds ==
  ASSUME NEW r, AllHold(BearerChecks(r))
  PROVE  r.token # Null /\ (r.token # Null => r.token.bearer)
<1>1. BearerChecks(r)[1].holds /\ BearerChecks(r)[2].holds
  BY DEF AllHold, BearerChecks
<1> QED BY <1>1 DEF BearerChecks, Checked

\* A token whose claims pass names a tenant and has what the settings require.
LEMMA ClaimsHold ==
  ASSUME NEW token, AllHold(ClaimChecks(token))
  PROVE  /\ settings.tokenUse => token.use
         /\ settings.scopes \subseteq token.scopes
         /\ settings.groups \subseteq token.groups
         /\ UserClaim(token) \notin {Null, NotAString}
<1>1. \A i \in 1 .. 6 : ClaimChecks(token)[i].holds
  BY DEF AllHold, ClaimChecks
<1>2. /\ ClaimChecks(token)[1].holds /\ ClaimChecks(token)[2].holds
      /\ ClaimChecks(token)[3].holds /\ ClaimChecks(token)[6].holds
  BY <1>1
<1> QED BY <1>2 DEF ClaimChecks, Checked

LEMMA PolicyHolds ==
  ASSUME NEW r, NEW tenant, NEW principal, AllHold(PolicyChecks(r, tenant, principal))
  PROVE  /\ principal.tenant = tenant.id
         /\ Model(r) \in DOMAIN tenant.models
         /\ Adapter(r) = Null \/ Adapter(r) \in tenant.models[Model(r)]
<1> DEFINE adapted == \/ Adapter(r) = Null
                      \/ Model(r) \in DOMAIN tenant.models /\ Adapter(r) \in tenant.models[Model(r)]
<1> HIDE DEF adapted
<1>1. PolicyChecks(r, tenant, principal)
        = <<Checked(principal.tenant = tenant.id, "tenant_claim_mismatch"),
            Checked(Model(r) \in DOMAIN tenant.models, "unknown_model"),
            Checked(adapted, "unknown_adapter")>>
  BY DEF PolicyChecks, adapted
<1>2. \A i \in 1 .. 3 : PolicyChecks(r, tenant, principal)[i].holds
  BY <1>1 DEF AllHold
<1>3. /\ Checked(principal.tenant = tenant.id, "tenant_claim_mismatch").holds
      /\ Checked(Model(r) \in DOMAIN tenant.models, "unknown_model").holds
      /\ Checked(adapted, "unknown_adapter").holds
  BY <1>1, <1>2
<1> QED BY <1>3 DEF adapted, Checked

LEMMA GovernanceHolds ==
  ASSUME NEW adapter, NEW model, NEW tenant, AllHold(GovernanceChecks(adapter, model, tenant)),
         adapter # Null, settings.catalog
  PROVE  /\ adapter \in DOMAIN tenant.artifacts
         /\ LET a == tenant.artifacts[adapter]
            IN a.status = "active" /\ model \in a.compatible /\ a.checksum /\ a.signed
<1> DEFINE list == GovernanceChecks(adapter, model, tenant)
<1>1. adapter \in DOMAIN tenant.artifacts
  <2>1. SUFFICES ASSUME adapter \notin DOMAIN tenant.artifacts PROVE FALSE
    OBVIOUS
  <2>2. list = <<Checked(FALSE, "adapter_not_governed")>>
    BY <2>1 DEF GovernanceChecks
  <2>3. AllHold(list)
    OBVIOUS
  <2> HIDE DEF list
  <2>4. 1 \in DOMAIN list
    BY <2>2
  <2>5. list[1].holds
    BY <2>3, <2>4 DEF AllHold
  <2> QED BY <2>2, <2>5 DEF Checked
<1> DEFINE a == tenant.artifacts[adapter]
<1>2. list = <<Checked(a.status = "active", a.status),
               Checked(model \in a.compatible, "adapter_model_incompatible"),
               Checked(a.checksum, "adapter_checksum_missing"),
               Checked(a.signed, "adapter_signature_missing")>>
  BY <1>1 DEF GovernanceChecks
<1>3. AllHold(list)
  OBVIOUS
<1> HIDE DEF list, a
<1>4. \A i \in 1 .. 4 : list[i].holds
  BY <1>2, <1>3 DEF AllHold
<1>5. /\ Checked(a.status = "active", a.status).holds
      /\ Checked(model \in a.compatible, "adapter_model_incompatible").holds
      /\ Checked(a.checksum, "adapter_checksum_missing").holds
      /\ Checked(a.signed, "adapter_signature_missing").holds
  BY <1>2, <1>4
<1> QED BY <1>1, <1>5 DEF Checked, a

----------------------------------------------------------------------------
\* What the state consists of besides the cache: the situation is one of those given.
Situated == situation \in DOMAIN Situations

LEMMA Typed ==
  ASSUME Situated
  PROVE  settings \in Settings /\ document \in Seq(Entry)
BY PolicyAssumption DEF Situated, settings, document

\* A tenant that is resolved is an entry of the file which names the host.
LEMMA ResolvedNamesHost ==
  ASSUME Situated, registry # Null, NEW host \in Host, ResolveByHost(registry, host) # Null
  PROVE  \E i \in DOMAIN document : /\ ResolveByHost(registry, host) = document[i]
                                   /\ NamesHost(document[i], host)
<1>1. registry = Load(document) /\ Loadable(document)
  BY DEF Situated, registry, Registries, document
<1>2. \A i \in DOMAIN document : IsEntry(document[i])
  <2>1. \A i \in DOMAIN document : document[i] \in Entry
    BY Typed
  <2> QED BY <2>1 DEF IsEntry, Entry
<1>3. PICK i \in {j \in DOMAIN document : NamesHost(document[j], host)} :
        ResolveByHost(Load(document), host) = document[i]
  BY <1>1, <1>2, Typed, ResolvedByName
<1> QED BY <1>1, <1>3

----------------------------------------------------------------------------
\* What the authentication checks say when all of them hold.
LEMMA MockLists ==
  ASSUME NEW r
  PROVE  /\ \E S : MockChecks(r) \in Seq(S)
         /\ AllHold(MockChecks(r)) =>
              IF UsesMockHeader(r) THEN r.mockAuth.tenant # Null /\ r.mockAuth.user # Null
              ELSE AllHold(BearerChecks(r)) /\ r.token.kind = "mock"
<1> DEFINE header == r.mockAuth.tenant # Null /\ r.mockAuth.user # Null
           token == r.token # Null => /\ r.token.kind = "mock"
                                      /\ r.token.tenant # Null /\ r.token.user # Null
           first == <<Checked(header, "invalid_mock_header")>>
           last == <<Checked(token, "invalid_mock_token")>>
<1>1. MockChecks(r) = IF UsesMockHeader(r) THEN first ELSE BearerChecks(r) \o last
  BY DEF MockChecks
<1> HIDE DEF header, token
<1>2. /\ \E S : first \in Seq(S)
      /\ AllHold(first) => header
  BY Tuples DEF AllHold, Checked
<1>3. /\ \E S : last \in Seq(S)
      /\ AllHold(last) => token
  BY Tuples DEF AllHold, Checked
<1> HIDE DEF first, last
<1>4. /\ \E S : BearerChecks(r) \o last \in Seq(S)
      /\ AllHold(BearerChecks(r) \o last) <=> AllHold(BearerChecks(r)) /\ AllHold(last)
  BY <1>3, BearerList, ConcatList
<1>5. CASE UsesMockHeader(r)
  BY <1>1, <1>2, <1>5 DEF header
<1>6. CASE ~ UsesMockHeader(r)
  <2>1. AllHold(BearerChecks(r)) /\ token => r.token.kind = "mock"
    BY BearerHolds DEF token
  <2> QED BY <1>1, <1>3, <1>4, <1>6, <2>1
<1> QED BY <1>5, <1>6

LEMMA OidcLists ==
  ASSUME NEW r, NEW tenant, NEW seen
  PROVE  /\ \E S : OidcChecks(r, tenant, seen) \in Seq(S)
         /\ AllHold(OidcChecks(r, tenant, seen)) =>
              /\ AllHold(BearerChecks(r))
              /\ tenant.jwks # Null /\ seen = "found"
              /\ r.token.sound /\ r.token.audience = tenant.audience
              /\ AllHold(ClaimChecks(r.token))
<1> DEFINE right == r.token # Null => r.token.sound /\ r.token.audience = tenant.audience
           middle == <<Checked(tenant.jwks # Null, "jwks_not_configured"),
                       Checked(seen = "found", "invalid_token"),
                       Checked(right, "invalid_token")>>
           claims == IF r.token = Null THEN <<>> ELSE ClaimChecks(r.token)
<1>1. OidcChecks(r, tenant, seen) = (BearerChecks(r) \o middle) \o claims
  BY DEF OidcChecks
<1>2. \E S : claims \in Seq(S)
  BY Tuples, ClaimList
<1> HIDE DEF right
<1>3. \E S : middle \in Seq(S)
  BY Tuples
<1>4. ASSUME AllHold(middle) PROVE tenant.jwks # Null /\ seen = "found" /\ right
  <2>1. \A i \in 1 .. 3 : middle[i].holds
    BY <1>4 DEF AllHold
  <2>2. middle[1].holds /\ middle[2].holds /\ middle[3].holds
    BY <2>1
  <2> QED BY <2>2 DEF Checked
<1> HIDE DEF middle, claims
<1>5. /\ \E S : BearerChecks(r) \o middle \in Seq(S)
      /\ AllHold(BearerChecks(r) \o middle) <=> AllHold(BearerChecks(r)) /\ AllHold(middle)
  BY <1>3, BearerList, ConcatList
<1>6. /\ \E S : (BearerChecks(r) \o middle) \o claims \in Seq(S)
      /\ AllHold((BearerChecks(r) \o middle) \o claims)
           <=> AllHold(BearerChecks(r) \o middle) /\ AllHold(claims)
  BY <1>2, <1>5, ConcatList
<1>7. ASSUME AllHold(OidcChecks(r, tenant, seen))
      PROVE  /\ AllHold(BearerChecks(r))
             /\ tenant.jwks # Null /\ seen = "found"
             /\ r.token.sound /\ r.token.audience = tenant.audience
             /\ AllHold(ClaimChecks(r.token))
  <2>1. AllHold(BearerChecks(r)) /\ AllHold(middle) /\ AllHold(claims)
    BY <1>1, <1>5, <1>6, <1>7
  <2>2. r.token # Null
    BY <2>1, BearerHolds
  <2> QED BY <1>4, <2>1, <2>2 DEF right, claims
<1> QED BY <1>1, <1>6, <1>7

LEMMA AuthList ==
  ASSUME NEW r, NEW tenant, NEW seen
  PROVE  \E S : AuthChecks(r, tenant, seen) \in Seq(S)
BY MockLists, OidcLists DEF AuthChecks

\* A caller whose authentication succeeded is identified as the property demands.
LEMMA AuthIdentifies ==
  ASSUME Situated, NEW r, NEW tenant, NEW seen, AllHold(AuthChecks(r, tenant, seen)),
         settings.auth = "oidc" => r.token.kind = "jwt", Principal(r).tenant = tenant.id
  PROVE  Identified(r, tenant, Principal(r).user)
<1>1. settings.auth \in {"mock", "oidc"}
  BY Typed DEF Settings
<1>2. CASE settings.auth = "oidc"
  <2>1. /\ AllHold(BearerChecks(r)) /\ AllHold(ClaimChecks(r.token))
        /\ r.token.sound /\ r.token.audience = tenant.audience
    BY <1>2, OidcLists DEF AuthChecks
  <2>2. Principal(r) = [tenant |-> r.token.tenant, user |-> UserClaim(r.token)]
    BY <1>2 DEF Principal
  <2> QED
    BY <1>2, <2>1, <2>2, BearerHolds, ClaimsHold DEF Identified, UserClaim
<1>3. CASE settings.auth = "mock"
  <2>1. AllHold(MockChecks(r))
    BY <1>3 DEF AuthChecks
  <2>2. CASE UsesMockHeader(r)
    <3>1. Principal(r) = r.mockAuth
      BY <1>3, <2>2 DEF Principal
    <3> QED BY <1>3, <2>2, <3>1 DEF Identified, UsesMockHeader
  <2>3. CASE ~ UsesMockHeader(r)
    <3>1. Principal(r) = [tenant |-> r.token.tenant, user |-> r.token.user]
      BY <1>3, <2>3 DEF Principal
    <3>2. r.token.kind = "mock" /\ r.token # Null /\ r.token.bearer
      BY <2>1, <2>3, MockLists, BearerHolds
    <3> QED BY <1>3, <2>3, <3>1, <3>2 DEF Identified
  <2> QED BY <2>2, <2>3
<1> QED BY <1>1, <1>2, <1>3

----------------------------------------------------------------------------
\* All checks of a request hold only when those of each part do.
LEMMA VerdictHolds ==
  ASSUME NEW r, NEW seen, AllHold(VerdictChecks(r, seen))
  PROVE  /\ AllHold(BodyChecks(r))
         /\ registry # Null /\ PolicyTenant(r) # Null /\ AuthTenant(r) # Null
         /\ AllHold(AuthChecks(r, AuthTenant(r), seen))
         /\ AllHold(PolicyChecks(r, PolicyTenant(r), Principal(r)))
         /\ AllHold(GovernanceChecks(Adapter(r), Model(r), PolicyTenant(r)))
<1> DEFINE tenant == PolicyTenant(r)
           body == BodyChecks(r)
           found == <<Checked(registry # Null, "registry_unavailable"),
                      Checked(tenant # Null, "unknown_tenant")>>
           auth == IF tenant = Null THEN <<>>
                   ELSE IF AuthTenant(r) = Null THEN <<Checked(FALSE, "missing_token")>>
                   ELSE AuthChecks(r, AuthTenant(r), seen)
           rules == PolicyChecks(r, tenant, Principal(r))
           governance == GovernanceChecks(Adapter(r), Model(r), tenant)
           policy == rules \o governance
           late == IF ~ AllHold(found \o auth) THEN <<>> ELSE policy
           rest == IF ~ AllHold(body) THEN <<>> ELSE (found \o auth) \o late
<1>1. VerdictChecks(r, seen) = body \o rest
  BY DEF VerdictChecks
<1>2. \E S : body \in Seq(S)
  BY BodyList
<1>3. /\ \E S : found \in Seq(S)
      /\ AllHold(found) => registry # Null /\ tenant # Null
  <2>1. \E S : found \in Seq(S)
    BY Tuples
  <2>2. ASSUME AllHold(found) PROVE registry # Null /\ tenant # Null
    <3>1. \A i \in 1 .. 2 : found[i].holds
      BY <2>2 DEF AllHold
    <3>2. found[1].holds /\ found[2].holds
      BY <3>1
    <3> QED BY <3>2 DEF Checked
  <2> QED BY <2>1, <2>2
<1>4. /\ \E S : auth \in Seq(S)
      /\ AllHold(auth) /\ tenant # Null =>
           AuthTenant(r) # Null /\ AllHold(AuthChecks(r, AuthTenant(r), seen))
  <2> DEFINE refusal == <<Checked(FALSE, "missing_token")>>
  <2>1. (\E S : refusal \in Seq(S)) /\ ~ AllHold(refusal)
    BY Tuples DEF AllHold, Checked
  <2>2. \E S : <<>> \in Seq(S)
    BY Tuples
  <2> HIDE DEF refusal
  <2>3. auth = IF tenant = Null THEN <<>>
               ELSE IF AuthTenant(r) = Null THEN refusal
               ELSE AuthChecks(r, AuthTenant(r), seen)
    BY DEF refusal
  <2> HIDE DEF auth, tenant
  <2> QED BY <2>1, <2>2, <2>3, AuthList
<1>5. /\ \E S : policy \in Seq(S)
      /\ AllHold(policy) => AllHold(rules) /\ AllHold(governance)
  BY PolicyList, GovernanceList, ConcatList
<1> HIDE DEF body, found, auth, policy
<1>6. /\ \E S : found \o auth \in Seq(S)
      /\ AllHold(found \o auth) <=> AllHold(found) /\ AllHold(auth)
  BY <1>3, <1>4, ConcatList
<1>7. \E S : late \in Seq(S)
  BY <1>5, Tuples
<1> HIDE DEF late
<1>8. /\ \E S : (found \o auth) \o late \in Seq(S)
      /\ AllHold((found \o auth) \o late) <=> AllHold(found \o auth) /\ AllHold(late)
  BY <1>6, <1>7, ConcatList
<1>9. \E S : rest \in Seq(S)
  BY <1>8, Tuples
<1> HIDE DEF rest
<1>10. AllHold(body) /\ AllHold(rest)
  BY <1>1, <1>2, <1>9, ConcatList
<1>11. AllHold(found) /\ AllHold(auth) /\ AllHold(late)
  BY <1>6, <1>8, <1>10 DEF rest
<1>12. AllHold(policy)
  BY <1>6, <1>11 DEF late
<1> QED BY <1>3, <1>4, <1>5, <1>10, <1>11, <1>12 DEF body

\* The tenant of the policy is the tenant of the authentication.
LEMMA SameTenant ==
  ASSUME NEW r \in Requests
  PROVE  PolicyTenant(r) = AuthTenant(r)
<1>1. r.host = Null \/ r.host \in Host
  BY PolicyAssumption DEF Request
<1>2. CASE r.host = Null
  BY <1>2 DEF PolicyTenant, AuthTenant
<1>3. CASE r.host \in Host /\ r.host # Null
  <2>1. Lower(Lower(r.host)) = Lower(r.host) /\ Lower(r.host) \in Host
    BY <1>3 DEF Lower, Host
  <2>2. Lower(r.host) # Null
    BY <2>1, RegistryAssumption DEF Host
  <2> QED BY <1>3, <2>1, <2>2 DEF PolicyTenant, AuthTenant, ResolveByHost
<1> QED BY <1>1, <1>2, <1>3

\* What a request is forwarded for it is entitled to.
LEMMA VerdictEntitles ==
  ASSUME Situated, NEW r \in Requests, NEW seen, AllHold(VerdictChecks(r, seen)),
         settings.auth = "oidc" => r.token.kind = "jwt"
  PROVE  \E entry \in ToSet(document) :
           /\ entry.id = PolicyTenant(r).id
           /\ NamesHost(entry, r.host)
           /\ Identified(r, entry, Principal(r).user)
           /\ MayUse(entry, Model(r), Adapter(r))
<1> DEFINE tenant == PolicyTenant(r)
<1>1. /\ registry # Null /\ tenant # Null /\ tenant = AuthTenant(r)
      /\ AllHold(AuthChecks(r, tenant, seen))
      /\ AllHold(PolicyChecks(r, tenant, Principal(r)))
      /\ AllHold(GovernanceChecks(Adapter(r), Model(r), tenant))
  BY VerdictHolds, SameTenant
<1>2. r.host \in Host /\ tenant = ResolveByHost(registry, r.host)
  <2>1. r.host = Null \/ r.host \in Host
    BY PolicyAssumption DEF Request
  <2>2. tenant = ResolveByHost(registry, r.host)
    BY <1>1 DEF AuthTenant
  <2> QED BY <1>1, <2>1, <2>2 DEF ResolveByHost
<1>3. PICK i \in DOMAIN document : tenant = document[i] /\ NamesHost(document[i], r.host)
  BY <1>1, <1>2, ResolvedNamesHost
<1> HIDE DEF tenant
<1>4. /\ Principal(r).tenant = tenant.id
      /\ Model(r) \in DOMAIN tenant.models
      /\ Adapter(r) = Null \/ Adapter(r) \in tenant.models[Model(r)]
  BY <1>1, PolicyHolds
<1>5. Identified(r, tenant, Principal(r).user)
  BY <1>1, <1>4, AuthIdentifies
<1>6. MayUse(tenant, Model(r), Adapter(r))
  BY <1>1, <1>4, GovernanceHolds DEF MayUse
<1>7. tenant \in ToSet(document)
  BY <1>3 DEF ToSet
<1> QED BY <1>3, <1>5, <1>6, <1>7 DEF tenant

----------------------------------------------------------------------------
\* The URL of a lookup is one of the tenants'.
LEMMA AskedUrl ==
  ASSUME Situated, NEW r \in Requests, AsksProvider(r)
  PROVE  AuthTenant(r).jwks \in Urls
<1>1. registry # Null /\ AuthTenant(r) = ResolveByHost(registry, r.host)
  BY DEF AsksProvider, AuthTenant
<1>2. r.host \in Host
  <2>1. r.host = Null \/ r.host \in Host
    BY PolicyAssumption DEF Request
  <2> QED BY <1>1, <2>1 DEF AsksProvider, ResolveByHost
<1>3. ResolveByHost(registry, r.host) # Null
  BY <1>1 DEF AsksProvider
<1>4. PICK i \in DOMAIN document : AuthTenant(r) = document[i]
  BY <1>1, <1>2, <1>3, ResolvedNamesHost
<1>5. document[i] \in Entry
  BY Typed
<1> QED BY <1>4, <1>5 DEF Entry, AsksProvider

\* A lookup that finds a key has left a live client in the cache, and the key is no
\* staler than the two caches allow.
LEMMA FoundIsFresh ==
  ASSUME JwksInv, NEW url \in Urls, NEW key, NEW client \in Signing(url, key),
         Seen(url, key, client) = "found"
  PROVE  /\ Age(url, key) <= Lifespan
         /\ setBack = 0 => Age(url, key) < Ttl
<1>1. client \in Client /\ Tracked(url, client)
  BY SigningTracked
<1>2. serving[url] \in {"up", "down", "garbled"}
  BY DEF JwksInv, JwksTypeOK
<1>3. Young(client) /\ key \in client.keys
  BY <1>2 DEF Seen
<1>4. client.expires > Wall
  <2> DEFINE c == Get(url)
  <2>1. c \in Client /\ c.expires > Wall
    <3>1. c \in Client
      BY GetTracked
    <3>2. c.expires > Wall
      BY JwksAssumption DEF Get, Live, Wall, JwksInv, JwksTypeOK, Time
    <3> QED BY <3>1, <3>2
  <2> HIDE DEF c
  <2>2. client.expires = c.expires
    BY <2>1 DEF Signing, Fetched, Client, c
  <2> QED BY <2>1, <2>2
<1>5. key \in Keys
  BY <1>1, <1>3 DEF Client
<1> QED BY <1>1, <1>3, <1>4, <1>5, JwksAssumption
       DEF JwksInv, JwksTypeOK, Tracked, Age, Young, Wall, Client, Time, Never

\* A request that is forwarded by an answer is entitled, when the key it was
\* accepted on is fresh.
LEMMA AnswerEntitled ==
  ASSUME Situated, NEW r \in Requests, NEW seen, answer' = Verdict(r, seen),
         UNCHANGED <<setBack, situation>>,
         seen = "found" /\ AsksProvider(r) =>
           /\ r.token.kind = "jwt"
           /\ KeyAge(r) <= Lifespan
           /\ setBack = 0 => KeyAge(r) < Ttl,
         seen = "found" => AsksProvider(r)
  PROVE  ForwardedIsEntitled'
<1> SUFFICES ASSUME answer'.verdict = "forwarded" PROVE
      /\ \E entry \in ToSet(document) :
           /\ entry.id = answer'.tenant
           /\ NamesHost(entry, answer'.request.host)
           /\ Identified(answer'.request, entry, answer'.user)
           /\ MayUse(entry, answer'.body.model, answer'.body.adapter)
      /\ answer'.age <= Lifespan
      /\ setBack = 0 => answer'.age < Ttl
  BY DEF ForwardedIsEntitled, Identified, MayUse, UsesMockHeader, settings, document
<1>1. AllHold(VerdictChecks(r, seen)) /\ answer' = Forwarded(r)
  BY DEF Verdict, Escaped, Refused
<1>2. settings.auth = "oidc" => seen = "found"
  BY <1>1, VerdictHolds, OidcLists DEF AuthChecks
<1>3. /\ answer'.tenant = PolicyTenant(r).id /\ answer'.user = Principal(r).user
      /\ answer'.request = r /\ answer'.age = KeyAge(r)
      /\ answer'.body.model = Model(r) /\ answer'.body.adapter = Adapter(r)
  BY <1>1 DEF Forwarded, OutboundBody
<1>4. settings.auth = "oidc" => r.token.kind = "jwt"
  BY <1>2
<1>5. KeyAge(r) <= Lifespan /\ (setBack = 0 => KeyAge(r) < Ttl)
  <2>1. CASE AsksProvider(r)
    BY <1>2, <2>1 DEF AsksProvider
  <2>2. CASE ~ AsksProvider(r)
    BY <2>2, JwksAssumption DEF KeyAge
  <2> QED BY <2>1, <2>2
<1>6. \E entry \in ToSet(document) :
        /\ entry.id = PolicyTenant(r).id
        /\ NamesHost(entry, r.host)
        /\ Identified(r, entry, Principal(r).user)
        /\ MayUse(entry, Model(r), Adapter(r))
  BY <1>1, <1>4, VerdictEntitles
<1> QED BY <1>3, <1>5, <1>6

----------------------------------------------------------------------------
\* Every check of a list that fails gives one of these reasons.
FailsFor(list, reasons) == \A i \in DOMAIN list : ~ list[i].holds => list[i].reason \in reasons

\* The first check of a list that fails.
IsFirstFailure(list, i) == /\ i \in DOMAIN list /\ ~ list[i].holds
                           /\ \A j \in DOMAIN list : j < i => list[j].holds

LEMMA FirstFailureExists ==
  ASSUME NEW S, NEW list \in Seq(S), ~ AllHold(list)
  PROVE  \E i \in DOMAIN list : /\ IsFirstFailure(list, i)
                                /\ FirstFailure(list) = list[i].reason
<1> DEFINE failing == {i \in DOMAIN list : ~ list[i].holds}
<1>1. failing \subseteq Nat /\ failing # {} /\ DOMAIN list \subseteq Nat
  BY DEF AllHold
<1>2. PICK i \in failing : \A j \in failing : ~ (j < i)
  <2>1. IsWellFoundedOn(OpToRel(<, Nat), Nat)
    BY NatLessThanWellFounded
  <2> HIDE DEF failing
  <2>2. PICK i \in failing : \A j \in failing : ~ (<<j, i>> \in OpToRel(<, Nat))
    BY <1>1, <2>1, WFMin
  <2>3. \A j \in failing : ~ (j < i)
    BY <1>1, <2>2 DEF OpToRel
  <2> QED BY <2>3
<1>3. \A j \in DOMAIN list : j < i => list[j].holds
  BY <1>2
<1>4. IsFirstFailure(list, i)
  BY <1>2, <1>3 DEF IsFirstFailure
<1>5. \A k \in DOMAIN list : IsFirstFailure(list, k) => k = i
  BY <1>4 DEF IsFirstFailure
<1>6. FirstFailure(list) = list[i].reason
  <2> DEFINE first == CHOOSE k \in DOMAIN list : /\ ~ list[k].holds
                                                 /\ \A j \in DOMAIN list : j < k => list[j].holds
  <2>1. first = i
    BY <1>4, <1>5 DEF IsFirstFailure
  <2>2. FirstFailure(list) = list[first].reason
    BY DEF FirstFailure
  <2> QED BY <2>1, <2>2
<1> QED BY <1>4, <1>6 DEF IsFirstFailure

LEMMA OneFirstFailure ==
  ASSUME NEW S, NEW list \in Seq(S), NEW i, IsFirstFailure(list, i)
  PROVE  ~ AllHold(list) /\ FirstFailure(list) = list[i].reason
<1>1. ~ AllHold(list)
  BY DEF IsFirstFailure, AllHold
<1>2. PICK k \in DOMAIN list : IsFirstFailure(list, k) /\ FirstFailure(list) = list[k].reason
  BY <1>1, FirstFailureExists
<1>3. k = i
  BY <1>2 DEF IsFirstFailure
<1> QED BY <1>1, <1>2, <1>3

\* Of two lists the second is looked at only when all of the first hold.
LEMMA FirstFailureConcat ==
  ASSUME NEW S, NEW s \in Seq(S), NEW T, NEW t \in Seq(T), ~ AllHold(s \o t)
  PROVE  FirstFailure(s \o t) = IF AllHold(s) THEN FirstFailure(t) ELSE FirstFailure(s)
<1>1. s \in Seq(S \union T) /\ t \in Seq(S \union T)
  OBVIOUS
<1>2. s \o t \in Seq(S \union T)
  BY <1>1
<1>3. /\ \A j \in DOMAIN s : j \in DOMAIN (s \o t) /\ (s \o t)[j] = s[j]
      /\ \A j \in DOMAIN t : Len(s) + j \in DOMAIN (s \o t) /\ (s \o t)[Len(s) + j] = t[j]
      /\ \A k \in DOMAIN (s \o t) : k \notin DOMAIN s => k - Len(s) \in DOMAIN t /\ k > Len(s)
      /\ DOMAIN s = 1 .. Len(s) /\ DOMAIN t = 1 .. Len(t) /\ Len(s) \in Nat
  OBVIOUS
<1>4. CASE ~ AllHold(s)
  <2>1. PICK i \in DOMAIN s : IsFirstFailure(s, i) /\ FirstFailure(s) = s[i].reason
    BY <1>4, FirstFailureExists
  <2>2. IsFirstFailure(s \o t, i)
    BY <1>3, <2>1 DEF IsFirstFailure
  <2>3. FirstFailure(s \o t) = (s \o t)[i].reason
    BY <1>2, <2>2, OneFirstFailure
  <2> QED BY <1>3, <1>4, <2>1, <2>3
<1>5. CASE AllHold(s)
  <2>1. ~ AllHold(t)
    BY <1>5, AllHoldConcat
  <2>2. PICK i \in DOMAIN t : IsFirstFailure(t, i) /\ FirstFailure(t) = t[i].reason
    BY <2>1, FirstFailureExists
  <2>3. IsFirstFailure(s \o t, Len(s) + i)
    <3>1. ASSUME NEW j \in DOMAIN (s \o t), j < Len(s) + i PROVE (s \o t)[j].holds
      <4>1. CASE j \in DOMAIN s
        BY <1>3, <1>5, <4>1 DEF AllHold
      <4>2. CASE j \notin DOMAIN s
        <5>1. j - Len(s) \in DOMAIN t /\ j - Len(s) < i /\ Len(s) + (j - Len(s)) = j
          BY <1>3, <3>1, <4>2
        <5>2. t[j - Len(s)].holds
          BY <2>2, <5>1 DEF IsFirstFailure
        <5> QED BY <1>3, <5>1, <5>2
      <4> QED BY <4>1, <4>2
    <3> QED BY <1>3, <2>2, <3>1 DEF IsFirstFailure
  <2>4. FirstFailure(s \o t) = (s \o t)[Len(s) + i].reason
    BY <1>2, <2>3, OneFirstFailure
  <2> QED BY <1>3, <1>5, <2>2, <2>4
<1> QED BY <1>4, <1>5

LEMMA FailsForConcat ==
  ASSUME NEW S, NEW s \in Seq(S), NEW T, NEW t \in Seq(T), NEW reasons,
         FailsFor(s, reasons), FailsFor(t, reasons)
  PROVE  FailsFor(s \o t, reasons)
<1> SUFFICES ASSUME NEW i \in DOMAIN (s \o t), ~ (s \o t)[i].holds
             PROVE  (s \o t)[i].reason \in reasons
  BY DEF FailsFor
<1>1. CASE i \in DOMAIN s
  BY <1>1 DEF FailsFor
<1>2. CASE i \notin DOMAIN s
  <2>1. i - Len(s) \in DOMAIN t /\ (s \o t)[i] = t[i - Len(s)]
    BY <1>2
  <2> QED BY <2>1 DEF FailsFor
<1> QED BY <1>1, <1>2

LEMMA FailureReason ==
  ASSUME NEW S, NEW list \in Seq(S), NEW reasons, FailsFor(list, reasons), ~ AllHold(list)
  PROVE  FirstFailure(list) \in reasons
BY FirstFailureExists DEF FailsFor, IsFirstFailure

----------------------------------------------------------------------------
\* Lists that are written out hold, or fail, check by check.
LEMMA ListsHold ==
  /\ AllHold(<<>>)
  /\ \A t : AllHold(<<t>>) <=> t.holds
  /\ \A t, u : AllHold(<<t, u>>) <=> t.holds /\ u.holds
  /\ \A t, u, v : AllHold(<<t, u, v>>) <=> t.holds /\ u.holds /\ v.holds
  /\ \A t, u, v, w : AllHold(<<t, u, v, w>>) <=> t.holds /\ u.holds /\ v.holds /\ w.holds
  /\ \A t, u, v, w, x, y : AllHold(<<t, u, v, w, x, y>>) <=>
       t.holds /\ u.holds /\ v.holds /\ w.holds /\ x.holds /\ y.holds
<1>1. AllHold(<<>>)
  BY DEF AllHold
<1>2. \A t : AllHold(<<t>>) <=> t.holds
  BY DEF AllHold
<1>3. \A t, u : AllHold(<<t, u>>) <=> t.holds /\ u.holds
  BY DEF AllHold
<1>4. \A t, u, v : AllHold(<<t, u, v>>) <=> t.holds /\ u.holds /\ v.holds
  BY DEF AllHold
<1>5. \A t, u, v, w : AllHold(<<t, u, v, w>>) <=> t.holds /\ u.holds /\ v.holds /\ w.holds
  BY DEF AllHold
<1>6. \A t, u, v, w, x, y : AllHold(<<t, u, v, w, x, y>>) <=>
        t.holds /\ u.holds /\ v.holds /\ w.holds /\ x.holds /\ y.holds
  BY DEF AllHold
<1> QED BY <1>1, <1>2, <1>3, <1>4, <1>5, <1>6

LEMMA ListsFail ==
  ASSUME NEW reasons
  PROVE  /\ FailsFor(<<>>, reasons)
         /\ \A t : t.reason \in reasons => FailsFor(<<t>>, reasons)
         /\ \A t, u : {t.reason, u.reason} \subseteq reasons => FailsFor(<<t, u>>, reasons)
         /\ \A t, u, v : {t.reason, u.reason, v.reason} \subseteq reasons
              => FailsFor(<<t, u, v>>, reasons)
         /\ \A t, u, v, w :
              {u.reason, v.reason, w.reason} \subseteq reasons /\ (t.holds \/ t.reason \in reasons)
              => FailsFor(<<t, u, v, w>>, reasons)
         /\ \A t, u, v, w, x, y :
              {t.reason, u.reason, v.reason, w.reason, x.reason, y.reason} \subseteq reasons
              => FailsFor(<<t, u, v, w, x, y>>, reasons)
BY DEF FailsFor

LEMMA BodyFails ==
  ASSUME NEW r
  PROVE  FailsFor(BodyChecks(r), {"invalid_json", "invalid_request_schema"})
BY ListsFail DEF BodyChecks, Checked

LEMMA BearerFails == ASSUME NEW r PROVE FailsFor(BearerChecks(r), AuthReasons)
BY ListsFail DEF BearerChecks, Checked, AuthReasons

LEMMA ClaimsFail == ASSUME NEW token PROVE FailsFor(ClaimChecks(token), AuthReasons)
<1> DEFINE use == Checked(settings.tokenUse => token.use, "invalid_token_use")
           scopes == Checked(settings.scopes \subseteq token.scopes, "required_scope_missing")
           groups == Checked(settings.groups \subseteq token.groups, "required_group_missing")
           text == Checked(token.tenant # NotAString, "tenant_claim_invalid")
           tenant == Checked(token.tenant # Null, "tenant_claim_missing")
           user == Checked(UserClaim(token) \notin {Null, NotAString}, "user_claim_missing")
<1>1. ClaimChecks(token) = <<use, scopes, groups, text, tenant, user>>
  BY Zenon DEF ClaimChecks
<1>2. /\ use.reason \in AuthReasons /\ scopes.reason \in AuthReasons
      /\ groups.reason \in AuthReasons /\ text.reason \in AuthReasons
      /\ tenant.reason \in AuthReasons /\ user.reason \in AuthReasons
  BY DEF Checked, AuthReasons
<1> HIDE DEF use, scopes, groups, text, tenant, user
<1>3. FailsFor(<<use, scopes, groups, text, tenant, user>>, AuthReasons)
  BY <1>2, ListsFail
<1> QED BY <1>1, <1>3

LEMMA AuthFails ==
  ASSUME NEW r, NEW tenant, NEW seen
  PROVE  FailsFor(AuthChecks(r, tenant, seen), AuthReasons)
<1>1. FailsFor(MockChecks(r), AuthReasons)
  <2> DEFINE header == Checked(r.mockAuth.tenant # Null /\ r.mockAuth.user # Null,
                               "invalid_mock_header")
             token == Checked(r.token # Null => /\ r.token.kind = "mock"
                                                /\ r.token.tenant # Null /\ r.token.user # Null,
                              "invalid_mock_token")
  <2>1. MockChecks(r) = IF UsesMockHeader(r) THEN <<header>> ELSE BearerChecks(r) \o <<token>>
    BY DEF MockChecks
  <2>2. header.reason \in AuthReasons /\ token.reason \in AuthReasons
    BY DEF Checked, AuthReasons
  <2> HIDE DEF header, token
  <2>3. /\ FailsFor(<<header>>, AuthReasons) /\ FailsFor(<<token>>, AuthReasons)
        /\ \E S : <<token>> \in Seq(S)
    BY <2>2, ListsFail, Tuples
  <2>4. FailsFor(BearerChecks(r) \o <<token>>, AuthReasons)
    BY <2>3, BearerFails, BearerList, FailsForConcat
  <2> QED BY <2>1, <2>3, <2>4
<1>2. FailsFor(OidcChecks(r, tenant, seen), AuthReasons)
  <2> DEFINE configured == Checked(tenant.jwks # Null, "jwks_not_configured")
             known == Checked(seen = "found", "invalid_token")
             right == Checked(r.token # Null => r.token.sound /\ r.token.audience = tenant.audience,
                              "invalid_token")
             middle == <<configured, known, right>>
             claims == IF r.token = Null THEN <<>> ELSE ClaimChecks(r.token)
  <2>1. OidcChecks(r, tenant, seen) = (BearerChecks(r) \o middle) \o claims
    BY DEF OidcChecks
  <2>2. {configured.reason, known.reason, right.reason} \subseteq AuthReasons
    BY DEF Checked, AuthReasons
  <2>3. (\E S : claims \in Seq(S)) /\ FailsFor(claims, AuthReasons)
    BY Tuples, ClaimList, ClaimsFail, ListsFail
  <2> HIDE DEF configured, known, right, claims
  <2>4. (\E S : middle \in Seq(S)) /\ FailsFor(middle, AuthReasons)
    BY <2>2, Tuples, ListsFail
  <2> HIDE DEF middle
  <2>5. /\ FailsFor(BearerChecks(r) \o middle, AuthReasons)
        /\ \E S : BearerChecks(r) \o middle \in Seq(S)
    BY <2>4, BearerFails, BearerList, FailsForConcat, ConcatList
  <2> QED BY <2>1, <2>3, <2>5, FailsForConcat
<1> QED BY <1>1, <1>2 DEF AuthChecks

LEMMA GovernanceFails ==
  ASSUME NEW adapter, NEW model, NEW tenant \in Entry
  PROVE  FailsFor(GovernanceChecks(adapter, model, tenant), PolicyReasons)
<1> DEFINE list == GovernanceChecks(adapter, model, tenant)
<1>1. CASE adapter = Null \/ ~ settings.catalog
  BY <1>1, ListsFail DEF GovernanceChecks
<1>2. CASE ~ (adapter = Null \/ ~ settings.catalog) /\ adapter \notin DOMAIN tenant.artifacts
  <2> DEFINE refusal == Checked(FALSE, "adapter_not_governed")
  <2>1. list = <<refusal>> /\ refusal.reason \in PolicyReasons
    BY <1>2 DEF GovernanceChecks, Checked, PolicyReasons
  <2> HIDE DEF refusal
  <2> QED BY <2>1, ListsFail
<1>3. CASE ~ (adapter = Null \/ ~ settings.catalog) /\ adapter \in DOMAIN tenant.artifacts
  <2> DEFINE a == tenant.artifacts[adapter]
             active == Checked(a.status = "active", a.status)
             fits == Checked(model \in a.compatible, "adapter_model_incompatible")
             summed == Checked(a.checksum, "adapter_checksum_missing")
             signed == Checked(a.signed, "adapter_signature_missing")
  <2>1. list = <<active, fits, summed, signed>>
    BY <1>3 DEF GovernanceChecks
  <2>2. {fits.reason, summed.reason, signed.reason} \subseteq PolicyReasons
    BY DEF Checked, PolicyReasons
  <2>3. active.holds \/ active.reason \in PolicyReasons
    <3>1. a.status \in {"active", "adapter_deprecated", "adapter_quarantined"}
      BY <1>3 DEF Entry, Artifact
    <3> HIDE DEF a
    <3> QED BY <3>1 DEF Checked, PolicyReasons
  <2> HIDE DEF active, fits, summed, signed
  <2> QED BY <2>1, <2>2, <2>3, ListsFail
<1> QED BY <1>1, <1>2, <1>3

\* Of the policy only a mismatch of the tenant comes before what the tenant allows.
LEMMA PolicyFails ==
  ASSUME NEW r, NEW tenant, NEW principal, ~ AllHold(PolicyChecks(r, tenant, principal))
  PROVE  FirstFailure(PolicyChecks(r, tenant, principal))
           \in IF principal.tenant = tenant.id THEN PolicyReasons ELSE {"tenant_claim_mismatch"}
<1> DEFINE list == PolicyChecks(r, tenant, principal)
           match == Checked(principal.tenant = tenant.id, "tenant_claim_mismatch")
           model == Checked(Model(r) \in DOMAIN tenant.models, "unknown_model")
           adapter == Checked(\/ Adapter(r) = Null
                              \/ Model(r) \in DOMAIN tenant.models
                                 /\ Adapter(r) \in tenant.models[Model(r)], "unknown_adapter")
<1>1. list = <<match, model, adapter>>
  BY DEF PolicyChecks
<1>2. /\ match.holds <=> principal.tenant = tenant.id
      /\ match.reason = "tenant_claim_mismatch"
      /\ {model.reason, adapter.reason} \subseteq PolicyReasons
  BY DEF Checked, PolicyReasons
<1> HIDE DEF match, model, adapter
<1>3. \E S : list \in Seq(S)
  BY PolicyList
<1>4. PICK i \in DOMAIN list : IsFirstFailure(list, i) /\ FirstFailure(list) = list[i].reason
  BY <1>3, FirstFailureExists
<1>5. list[1] = match /\ list[2] = model /\ list[3] = adapter /\ i \in {1, 2, 3} /\ 1 \in DOMAIN list
  BY <1>1, <1>4
<1>6. CASE i = 1
  BY <1>2, <1>4, <1>5, <1>6 DEF IsFirstFailure
<1>7. CASE i \in {2, 3}
  <2>1. match.holds
    BY <1>4, <1>5, <1>7 DEF IsFirstFailure
  <2> QED BY <1>2, <1>4, <1>5, <1>7, <2>1
<1> QED BY <1>5, <1>6, <1>7

----------------------------------------------------------------------------
\* The parts of the list of all checks of a request.
FoundChecks(r) == <<Checked(registry # Null, "registry_unavailable"),
                    Checked(PolicyTenant(r) # Null, "unknown_tenant")>>
CallerChecks(r, seen) == IF PolicyTenant(r) = Null THEN <<>>
                         ELSE IF AuthTenant(r) = Null THEN <<Checked(FALSE, "missing_token")>>
                         ELSE AuthChecks(r, AuthTenant(r), seen)
RuleChecks(r) == PolicyChecks(r, PolicyTenant(r), Principal(r))
                 \o GovernanceChecks(Adapter(r), Model(r), PolicyTenant(r))
EarlyChecks(r, seen) == FoundChecks(r) \o CallerChecks(r, seen)

LEMMA VerdictLists ==
  ASSUME NEW r, NEW seen
  PROVE  /\ \E S : BodyChecks(r) \in Seq(S)
         /\ \E S : FoundChecks(r) \in Seq(S)
         /\ \E S : CallerChecks(r, seen) \in Seq(S)
         /\ \E S : RuleChecks(r) \in Seq(S)
         /\ \E S : EarlyChecks(r, seen) \in Seq(S)
<1>1. \E S : BodyChecks(r) \in Seq(S)
  BY BodyList
<1>2. \E S : FoundChecks(r) \in Seq(S)
  BY Tuples DEF FoundChecks
<1>3. \E S : CallerChecks(r, seen) \in Seq(S)
  <2> DEFINE refusal == Checked(FALSE, "missing_token")
  <2>1. CallerChecks(r, seen) \in {<<>>, <<refusal>>, AuthChecks(r, AuthTenant(r), seen)}
    BY DEF CallerChecks
  <2> HIDE DEF refusal
  <2>2. \E S : <<refusal>> \in Seq(S)
    BY Tuples
  <2>3. \E S : <<>> \in Seq(S)
    BY Tuples
  <2>4. \E S : AuthChecks(r, AuthTenant(r), seen) \in Seq(S)
    BY AuthList
  <2> QED BY <2>1, <2>2, <2>3, <2>4
<1>4. \E S : RuleChecks(r) \in Seq(S)
  BY PolicyList, GovernanceList, ConcatList DEF RuleChecks
<1>5. \E S : EarlyChecks(r, seen) \in Seq(S)
  BY <1>2, <1>3, ConcatList DEF EarlyChecks
<1> QED BY <1>1, <1>2, <1>3, <1>4, <1>5

\* A part is looked at when the parts before it hold, and the first part that does
\* not hold gives the reason.
LEMMA VerdictParts ==
  ASSUME NEW r, NEW seen
  PROVE  LET all == VerdictChecks(r, seen)
             part == IF ~ AllHold(BodyChecks(r)) THEN BodyChecks(r)
                     ELSE IF ~ AllHold(EarlyChecks(r, seen)) THEN EarlyChecks(r, seen)
                     ELSE RuleChecks(r)
         IN /\ AllHold(all) <=> AllHold(part)
            /\ ~ AllHold(all) => FirstFailure(all) = FirstFailure(part)
<1> DEFINE all == VerdictChecks(r, seen)
           body == BodyChecks(r)
           early == EarlyChecks(r, seen)
           rules == RuleChecks(r)
           late == IF ~ AllHold(early) THEN <<>> ELSE rules
           rest == IF ~ AllHold(body) THEN <<>> ELSE early \o late
<1>1. all = body \o rest
  BY DEF VerdictChecks, EarlyChecks, FoundChecks, CallerChecks, RuleChecks
<1>2. /\ \E S : body \in Seq(S)
      /\ \E S : early \in Seq(S)
      /\ \E S : rules \in Seq(S)
      /\ \E S : <<>> \in Seq(S)
  BY VerdictLists, Tuples
<1>3. AllHold(<<>>)
  BY ListsHold
<1> HIDE DEF all, body, early, rules
<1>4. \E S : late \in Seq(S)
  BY <1>2
<1>5. CASE ~ AllHold(body)
  <2>1. \E S : rest \in Seq(S)
    BY <1>2, <1>5
  <2> HIDE DEF rest
  <2>2. ~ AllHold(all) /\ FirstFailure(all) = FirstFailure(body)
    BY <1>1, <1>2, <1>5, <2>1, AllHoldConcat, FirstFailureConcat
  <2> QED BY <1>5, <2>2 DEF all, body
<1>6. CASE AllHold(body)
  <2>1. rest = early \o late
    BY <1>6
  <2>2. \E S : rest \in Seq(S)
    BY <1>2, <1>4, <2>1, ConcatList
  <2> HIDE DEF rest
  <2>3. /\ AllHold(all) <=> AllHold(rest)
        /\ ~ AllHold(all) => FirstFailure(all) = FirstFailure(rest)
    BY <1>1, <1>2, <1>6, <2>2, AllHoldConcat, FirstFailureConcat
  <2>4. AllHold(early) => late = rules
    OBVIOUS
  <2> HIDE DEF late
  <2>5. /\ AllHold(rest) <=> AllHold(early) /\ AllHold(late)
        /\ ~ AllHold(rest) => FirstFailure(rest) = IF AllHold(early) THEN FirstFailure(late)
                                                   ELSE FirstFailure(early)
    BY <1>2, <1>4, <2>1, AllHoldConcat, FirstFailureConcat
  <2> QED BY <1>6, <2>3, <2>4, <2>5 DEF all, body, early, rules
<1> QED BY <1>5, <1>6

\* A tenant that is found is an entry of the file that names the host.
LEMMA TenantFound ==
  ASSUME Situated, NEW r \in Requests, PolicyTenant(r) # Null
  PROVE  /\ PolicyTenant(r) = AuthTenant(r) /\ registry # Null /\ r.host \in Host
         /\ PolicyTenant(r) \in Entry /\ PolicyTenant(r) \in ToSet(document)
         /\ NamesHost(PolicyTenant(r), r.host)
<1>1. PolicyTenant(r) = AuthTenant(r) /\ registry # Null
  BY SameTenant DEF PolicyTenant
<1>2. AuthTenant(r) = ResolveByHost(registry, r.host)
  BY <1>1 DEF AuthTenant
<1>3. r.host \in Host
  <2>1. r.host = Null \/ r.host \in Host
    BY PolicyAssumption DEF Request
  <2> QED BY <1>1, <1>2, <2>1 DEF ResolveByHost
<1>4. PICK i \in DOMAIN document : AuthTenant(r) = document[i] /\ NamesHost(document[i], r.host)
  BY <1>1, <1>2, <1>3, ResolvedNamesHost
<1>5. document[i] \in Entry /\ document[i] \in ToSet(document)
  BY Typed DEF ToSet
<1> QED BY <1>1, <1>3, <1>4, <1>5

\* The reason of a refusal is one of those listed, and one about what the tenant
\* allows comes only after its caller was authenticated.
LEMMA VerdictReason ==
  ASSUME Situated, NEW r \in Requests, NEW seen, ~ AllHold(VerdictChecks(r, seen))
  PROVE  LET reason == FirstFailure(VerdictChecks(r, seen))
         IN /\ reason \in Reasons
            /\ reason \in PolicyReasons =>
                 /\ PolicyTenant(r) # Null
                 /\ AllHold(AuthChecks(r, PolicyTenant(r), seen))
                 /\ Principal(r).tenant = PolicyTenant(r).id
<1> DEFINE reason == FirstFailure(VerdictChecks(r, seen))
           body == BodyChecks(r)
           early == EarlyChecks(r, seen)
           rules == RuleChecks(r)
           rule == PolicyChecks(r, PolicyTenant(r), Principal(r))
           governance == GovernanceChecks(Adapter(r), Model(r), PolicyTenant(r))
<1>1. reason = IF ~ AllHold(body) THEN FirstFailure(body)
               ELSE IF ~ AllHold(early) THEN FirstFailure(early) ELSE FirstFailure(rules)
  BY VerdictParts
<1>2. AllHold(body) /\ AllHold(early) => ~ AllHold(rules)
  BY VerdictParts
<1>3. ~ AllHold(body) => FirstFailure(body) \in {"invalid_json", "invalid_request_schema"}
  BY BodyFails, BodyList, FailureReason
<1>4. ~ AllHold(early) =>
        FirstFailure(early) \in {"registry_unavailable", "unknown_tenant"} \union AuthReasons
  <2> DEFINE reasons == {"registry_unavailable", "unknown_tenant"} \union AuthReasons
  <2>1. FailsFor(FoundChecks(r), reasons)
    BY ListsFail DEF FoundChecks, Checked
  <2>2. FailsFor(CallerChecks(r, seen), reasons)
    <3> DEFINE refusal == Checked(FALSE, "missing_token")
    <3>1. refusal.reason \in reasons
      BY DEF Checked, AuthReasons
    <3>2. FailsFor(AuthChecks(r, AuthTenant(r), seen), reasons)
      BY AuthFails DEF FailsFor
    <3>3. CallerChecks(r, seen) \in {<<>>, <<refusal>>, AuthChecks(r, AuthTenant(r), seen)}
      BY DEF CallerChecks
    <3> HIDE DEF refusal, reasons
    <3>4. FailsFor(<<>>, reasons) /\ FailsFor(<<refusal>>, reasons)
      BY <3>1, ListsFail
    <3> QED BY <3>2, <3>3, <3>4
  <2> HIDE DEF reasons
  <2>3. FailsFor(early, reasons)
    BY <2>1, <2>2, VerdictLists, FailsForConcat DEF EarlyChecks
  <2>4. ~ AllHold(early) => FirstFailure(early) \in reasons
    BY <2>3, VerdictLists, FailureReason
  <2> QED BY <2>4 DEF reasons
<1>5. ASSUME AllHold(early)
      PROVE  /\ PolicyTenant(r) # Null
             /\ AllHold(AuthChecks(r, PolicyTenant(r), seen))
  <2>1. AllHold(FoundChecks(r)) /\ AllHold(CallerChecks(r, seen))
    BY <1>5, VerdictLists, ConcatList DEF EarlyChecks
  <2>2. PolicyTenant(r) # Null
    <3> DEFINE found == Checked(registry # Null, "registry_unavailable")
               known == Checked(PolicyTenant(r) # Null, "unknown_tenant")
    <3>1. FoundChecks(r) = <<found, known>> /\ (known.holds => PolicyTenant(r) # Null)
      BY DEF FoundChecks, Checked
    <3> HIDE DEF found, known
    <3> QED BY <2>1, <3>1, ListsHold
  <2>3. AuthTenant(r) = PolicyTenant(r)
    BY SameTenant
  <2> QED BY <2>1, <2>2, <2>3 DEF CallerChecks
<1>6. ASSUME AllHold(early), ~ AllHold(rules)
      PROVE  /\ FirstFailure(rules) \in PolicyReasons \union {"tenant_claim_mismatch"}
             /\ FirstFailure(rules) \in PolicyReasons =>
                  Principal(r).tenant = PolicyTenant(r).id
  <2>1. PolicyTenant(r) \in Entry
    BY <1>5, <1>6, TenantFound
  <2>2. (\E S : rule \in Seq(S)) /\ (\E S : governance \in Seq(S)) /\ rules = rule \o governance
    BY PolicyList, GovernanceList DEF RuleChecks
  <2>3. FailsFor(governance, PolicyReasons)
    BY <2>1, GovernanceFails
  <2>4. "tenant_claim_mismatch" \notin PolicyReasons
    BY DEF PolicyReasons
  <2>5. AllHold(rule) => Principal(r).tenant = PolicyTenant(r).id
    BY PolicyHolds
  <2>6. ~ AllHold(rule) => FirstFailure(rule) \in
          IF Principal(r).tenant = PolicyTenant(r).id THEN PolicyReasons ELSE {"tenant_claim_mismatch"}
    BY PolicyFails
  <2> HIDE DEF rule, governance, rules
  <2>7. FirstFailure(rules) = IF AllHold(rule) THEN FirstFailure(governance) ELSE FirstFailure(rule)
    BY <1>6, <2>2, FirstFailureConcat
  <2>8. AllHold(rule) => ~ AllHold(governance)
    BY <1>6, <2>2, AllHoldConcat
  <2>9. AllHold(rule) => FirstFailure(governance) \in PolicyReasons
    BY <2>2, <2>3, <2>8, FailureReason
  <2> QED BY <2>4, <2>5, <2>6, <2>7, <2>9
<1> HIDE DEF reason, body, early, rules
<1>7. reason \in Reasons
  BY <1>1, <1>2, <1>3, <1>4, <1>6 DEF Reasons
<1>8. ASSUME reason \in PolicyReasons PROVE AllHold(early) /\ AllHold(body)
  BY <1>1, <1>3, <1>4, <1>8 DEF PolicyReasons, AuthReasons
<1> QED BY <1>1, <1>2, <1>5, <1>6, <1>7, <1>8 DEF reason

----------------------------------------------------------------------------
\* The principal of an authenticated caller has one of the users.
LEMMA PrincipalUser ==
  ASSUME Situated, NEW r \in Requests, NEW tenant, NEW seen, AllHold(AuthChecks(r, tenant, seen))
  PROVE  Principal(r).user \in Users
<1>1. settings.auth \in {"mock", "oidc"}
  BY Typed DEF Settings
<1>2. r.token # Null => r.token \in Token
  BY PolicyAssumption DEF Request
<1>3. CASE settings.auth = "oidc"
  <2>1. AllHold(BearerChecks(r)) /\ AllHold(ClaimChecks(r.token))
    BY <1>3, OidcLists DEF AuthChecks
  <2>2. r.token \in Token /\ UserClaim(r.token) \notin {Null, NotAString}
    BY <1>2, <2>1, BearerHolds, ClaimsHold
  <2>3. UserClaim(r.token) \in Users
    BY <2>2 DEF UserClaim, Token
  <2>4. Principal(r) = [tenant |-> r.token.tenant, user |-> UserClaim(r.token)]
    BY <1>3 DEF Principal
  <2> QED BY <2>3, <2>4
<1>4. CASE settings.auth = "mock" /\ UsesMockHeader(r)
  <2>1. AllHold(MockChecks(r)) /\ Principal(r) = r.mockAuth
    BY <1>4 DEF AuthChecks, Principal
  <2>2. r.mockAuth.user # Null
    BY <1>4, <2>1, MockLists
  <2>3. r.mockAuth \in [tenant: TenantIds \union {Null}, user: Users \union {Null}]
    BY <1>4, PolicyAssumption DEF UsesMockHeader, Request
  <2> QED BY <2>1, <2>2, <2>3
<1>5. CASE settings.auth = "mock" /\ ~ UsesMockHeader(r)
  <2> DEFINE text == r.token # Null => /\ r.token.kind = "mock"
                                       /\ r.token.tenant # Null /\ r.token.user # Null
             last == Checked(text, "invalid_mock_token")
  <2>1. AllHold(MockChecks(r)) /\ Principal(r) = [tenant |-> r.token.tenant, user |-> r.token.user]
    BY <1>5 DEF AuthChecks, Principal
  <2>2. MockChecks(r) = BearerChecks(r) \o <<last>>
    BY <1>5 DEF MockChecks
  <2>3. last.holds => text
    BY DEF Checked
  <2> HIDE DEF last
  <2>4. \E S : <<last>> \in Seq(S)
    BY Tuples
  <2>5. AllHold(BearerChecks(r)) /\ AllHold(<<last>>)
    BY <2>1, <2>2, <2>4, BearerList, ConcatList
  <2>6. r.token # Null /\ text
    BY <2>3, <2>5, BearerHolds, ListsHold
  <2>7. r.token \in Token /\ r.token.kind = "mock" /\ r.token.user \notin {Null, NotAString}
    BY <1>2, <2>6, PolicyAssumption
  <2> QED BY <2>1, <2>7 DEF Token
<1> QED BY <1>1, <1>3, <1>4, <1>5

LEMMA BearerPasses ==
  ASSUME NEW r, r.token # Null, r.token.bearer
  PROVE  AllHold(BearerChecks(r))
<1> DEFINE sent == Checked(r.token # Null, "missing_token")
           bearer == Checked(r.token # Null => r.token.bearer, "invalid_token")
<1>1. BearerChecks(r) = <<sent, bearer>> /\ sent.holds /\ bearer.holds
  BY DEF BearerChecks, Checked
<1> HIDE DEF sent, bearer
<1> QED BY <1>1, ListsHold

\* A caller who is identified for a tenant passes its authentication.
LEMMA IdentifiedPasses ==
  ASSUME Situated, NEW r \in Requests, NEW tenant \in Entry, NEW user \in Users, NEW seen,
         Identified(r, tenant, user),
         settings.auth = "oidc" => tenant.jwks # Null /\ seen = "found"
  PROVE  /\ AllHold(AuthChecks(r, tenant, seen))
         /\ Principal(r).tenant = tenant.id
         /\ settings.auth = "oidc" => AllHold(BearerChecks(r)) /\ r.token.kind = "jwt"
<1>1. settings.auth \in {"mock", "oidc"}
  BY Typed DEF Settings
<1>2. tenant.id \notin {Null, NotAString} /\ user \notin {Null, NotAString}
  BY PolicyAssumption DEF Entry
<1>3. r.token # Null /\ r.token.bearer => AllHold(BearerChecks(r))
  BY BearerPasses
<1>4. CASE settings.auth = "oidc"
  <2> DEFINE configured == Checked(tenant.jwks # Null, "jwks_not_configured")
             known == Checked(seen = "found", "invalid_token")
             right == Checked(r.token # Null => r.token.sound /\ r.token.audience = tenant.audience,
                              "invalid_token")
             middle == <<configured, known, right>>
  <2>1. /\ r.token # Null /\ r.token.bearer /\ r.token.kind = "jwt" /\ r.token.sound
        /\ r.token.audience = tenant.audience /\ r.token.tenant = tenant.id
        /\ settings.tokenUse => r.token.use
        /\ settings.scopes \subseteq r.token.scopes /\ settings.groups \subseteq r.token.groups
        /\ user = UserClaim(r.token)
    BY <1>4 DEF Identified, UserClaim
  <2>2. OidcChecks(r, tenant, seen) = (BearerChecks(r) \o middle) \o ClaimChecks(r.token)
    BY <2>1 DEF OidcChecks
  <2>3. configured.holds /\ known.holds /\ right.holds
    BY <1>4, <2>1 DEF Checked
  <2>4. AllHold(ClaimChecks(r.token))
    <3> DEFINE use == Checked(settings.tokenUse => r.token.use, "invalid_token_use")
               scopes == Checked(settings.scopes \subseteq r.token.scopes, "required_scope_missing")
               groups == Checked(settings.groups \subseteq r.token.groups, "required_group_missing")
               text == Checked(r.token.tenant # NotAString, "tenant_claim_invalid")
               named == Checked(r.token.tenant # Null, "tenant_claim_missing")
               someone == Checked(UserClaim(r.token) \notin {Null, NotAString}, "user_claim_missing")
    <3>1. ClaimChecks(r.token) = <<use, scopes, groups, text, named, someone>>
      BY DEF ClaimChecks
    <3>2. /\ use.holds /\ scopes.holds /\ groups.holds
          /\ text.holds /\ named.holds /\ someone.holds
      BY <1>2, <2>1 DEF Checked
    <3> HIDE DEF use, scopes, groups, text, named, someone
    <3> QED BY <3>1, <3>2, ListsHold
  <2> HIDE DEF configured, known, right
  <2>5. (\E S : middle \in Seq(S)) /\ AllHold(middle)
    BY <2>3, Tuples, ListsHold
  <2> HIDE DEF middle
  <2>6. /\ \E S : BearerChecks(r) \o middle \in Seq(S)
        /\ AllHold(BearerChecks(r) \o middle)
    BY <1>3, <2>1, <2>5, BearerList, ConcatList
  <2>7. AllHold(OidcChecks(r, tenant, seen))
    BY <2>2, <2>4, <2>6, ClaimList, ConcatList
  <2> QED BY <1>3, <1>4, <2>1, <2>7 DEF AuthChecks, Principal
<1>5. CASE settings.auth = "mock" /\ UsesMockHeader(r)
  <2> DEFINE header == Checked(r.mockAuth.tenant # Null /\ r.mockAuth.user # Null,
                               "invalid_mock_header")
  <2>1. r.mockAuth.tenant = tenant.id /\ r.mockAuth.user = user
    BY <1>5 DEF Identified
  <2>2. MockChecks(r) = <<header>> /\ header.holds
    BY <1>2, <1>5, <2>1 DEF MockChecks, Checked
  <2> HIDE DEF header
  <2>3. AllHold(MockChecks(r))
    BY <2>2, ListsHold
  <2> QED BY <1>5, <2>1, <2>3 DEF AuthChecks, Principal
<1>6. CASE settings.auth = "mock" /\ ~ UsesMockHeader(r)
  <2> DEFINE last == Checked(r.token # Null => /\ r.token.kind = "mock"
                                               /\ r.token.tenant # Null /\ r.token.user # Null,
                             "invalid_mock_token")
  <2>1. /\ r.token # Null /\ r.token.bearer /\ r.token.kind = "mock"
        /\ r.token.tenant = tenant.id /\ r.token.user = user
    BY <1>6 DEF Identified, UsesMockHeader
  <2>2. MockChecks(r) = BearerChecks(r) \o <<last>> /\ last.holds
    BY <1>2, <1>6, <2>1 DEF MockChecks, Checked
  <2> HIDE DEF last
  <2>3. (\E S : <<last>> \in Seq(S)) /\ AllHold(<<last>>)
    BY <2>2, Tuples, ListsHold
  <2>4. AllHold(MockChecks(r))
    BY <1>3, <2>1, <2>2, <2>3, BearerList, ConcatList
  <2> QED BY <1>6, <2>1, <2>4 DEF AuthChecks, Principal
<1> QED BY <1>1, <1>4, <1>5, <1>6

LEMMA MayUsePasses ==
  ASSUME NEW r, NEW tenant, NEW principal, principal.tenant = tenant.id,
         MayUse(tenant, Model(r), Adapter(r))
  PROVE  /\ AllHold(PolicyChecks(r, tenant, principal))
         /\ AllHold(GovernanceChecks(Adapter(r), Model(r), tenant))
<1>1. AllHold(PolicyChecks(r, tenant, principal))
  <2> DEFINE match == Checked(principal.tenant = tenant.id, "tenant_claim_mismatch")
             model == Checked(Model(r) \in DOMAIN tenant.models, "unknown_model")
             adapter == Checked(\/ Adapter(r) = Null
                                \/ Model(r) \in DOMAIN tenant.models
                                   /\ Adapter(r) \in tenant.models[Model(r)], "unknown_adapter")
  <2>1. PolicyChecks(r, tenant, principal) = <<match, model, adapter>>
    BY DEF PolicyChecks
  <2>2. match.holds /\ model.holds /\ adapter.holds
    BY DEF Checked, MayUse
  <2> HIDE DEF match, model, adapter
  <2> QED BY <2>1, <2>2, ListsHold
<1>2. CASE Adapter(r) = Null \/ ~ settings.catalog
  BY <1>1, <1>2, ListsHold DEF GovernanceChecks
<1>3. CASE ~ (Adapter(r) = Null \/ ~ settings.catalog)
  <2> DEFINE a == tenant.artifacts[Adapter(r)]
             active == Checked(a.status = "active", a.status)
             fits == Checked(Model(r) \in a.compatible, "adapter_model_incompatible")
             summed == Checked(a.checksum, "adapter_checksum_missing")
             signed == Checked(a.signed, "adapter_signature_missing")
  <2>1. /\ Adapter(r) \in DOMAIN tenant.artifacts
        /\ a.status = "active" /\ Model(r) \in a.compatible /\ a.checksum /\ a.signed
    BY <1>3 DEF MayUse
  <2>2. GovernanceChecks(Adapter(r), Model(r), tenant) = <<active, fits, summed, signed>>
    BY <1>3, <2>1 DEF GovernanceChecks
  <2>3. active.holds /\ fits.holds /\ summed.holds /\ signed.holds
    BY <2>1 DEF Checked
  <2> HIDE DEF active, fits, summed, signed
  <2> QED BY <1>1, <2>2, <2>3, ListsHold
<1> QED BY <1>2, <1>3

\* What the file entitles to passes all checks.
LEMMA EntitledPasses ==
  ASSUME Situated, NEW r \in Requests, NEW seen, Loadable(document), AllHold(BodyChecks(r)),
         NEW entry \in ToSet(document), NamesHost(entry, r.host),
         NEW user \in Users, Identified(r, entry, user), MayUse(entry, Model(r), Adapter(r)),
         settings.auth = "oidc" => entry.jwks # Null,
         settings.auth = "oidc" /\ AsksProvider(r) /\ AuthTenant(r) = entry => seen = "found"
  PROVE  /\ AllHold(VerdictChecks(r, seen))
         /\ AuthTenant(r) = entry
         /\ settings.auth = "oidc" => AsksProvider(r)
<1>1. PICK j \in DOMAIN document : entry = document[j]
  BY DEF ToSet
<1>2. /\ entry \in Entry /\ entry # Null /\ document \in Seq(Entry)
      /\ \A i \in DOMAIN document : IsEntry(document[i])
  <2>1. document \in Seq(Entry) /\ \A i \in DOMAIN document : document[i] \in Entry
    BY Typed
  <2> QED BY <1>1, <2>1, PolicyAssumption DEF IsEntry, Entry
<1>3. r.host \in Host
  <2>1. r.host = Null \/ r.host \in Host
    BY PolicyAssumption DEF Request
  <2> QED BY <2>1 DEF NamesHost
<1>4. registry = Load(document) /\ registry # Null
  BY PolicyAssumption DEF Situated, registry, Registries, document
<1>5. ResolveByHost(registry, r.host) = entry
  <2> DEFINE claimants == {i \in DOMAIN document : NamesHost(document[i], r.host)}
  <2>1. j \in claimants
    BY <1>1
  <2>2. \E i \in claimants : /\ claimants = {i}
                             /\ ResolveByHost(Load(document), r.host) = document[i]
    BY <1>2, <1>3, <2>1, ResolvedByName
  <2> HIDE DEF claimants
  <2> QED BY <1>1, <1>4, <2>1, <2>2
<1>6. AuthTenant(r) = entry /\ PolicyTenant(r) = entry
  BY <1>4, <1>5, SameTenant DEF AuthTenant
<1>7. /\ settings.auth = "oidc" => AsksProvider(r) /\ seen = "found"
      /\ AllHold(AuthChecks(r, entry, seen))
      /\ Principal(r).tenant = entry.id
  <2>1. settings.auth = "oidc" => AllHold(BearerChecks(r))
    BY BearerPasses DEF Identified
  <2>2. settings.auth = "oidc" => AsksProvider(r) /\ seen = "found"
    BY <1>2, <1>6, <2>1 DEF AsksProvider
  <2> QED BY <1>2, <2>2, IdentifiedPasses
<1>8. AllHold(EarlyChecks(r, seen))
  <2>1. AllHold(FoundChecks(r))
    <3> DEFINE found == Checked(registry # Null, "registry_unavailable")
               known == Checked(PolicyTenant(r) # Null, "unknown_tenant")
    <3>1. FoundChecks(r) = <<found, known>> /\ found.holds /\ known.holds
      BY <1>2, <1>4, <1>6 DEF FoundChecks, Checked
    <3> HIDE DEF found, known
    <3> QED BY <3>1, ListsHold
  <2>2. AllHold(CallerChecks(r, seen))
    BY <1>2, <1>6, <1>7 DEF CallerChecks
  <2> QED BY <2>1, <2>2, VerdictLists, ConcatList DEF EarlyChecks
<1>9. AllHold(RuleChecks(r))
  <2>1. /\ AllHold(PolicyChecks(r, entry, Principal(r)))
        /\ AllHold(GovernanceChecks(Adapter(r), Model(r), entry))
    BY <1>7, MayUsePasses
  <2> QED BY <1>6, <2>1, PolicyList, GovernanceList, ConcatList DEF RuleChecks
<1> QED BY <1>6, <1>7, <1>8, <1>9, VerdictParts

----------------------------------------------------------------------------
\* What is set last wins.
LEMMA LastWins ==
  ASSUME NEW f, NEW g
  PROVE  /\ DOMAIN Updated(f, g) = DOMAIN f \union DOMAIN g
         /\ \A x \in DOMAIN g : Updated(f, g)[x] = g[x]
         /\ \A x \in DOMAIN f \ DOMAIN g : Updated(f, g)[x] = f[x]
BY DEF Updated

\* The headers that go upstream, taken apart.
LEMMA OutboundParts ==
  ASSUME NEW r, NEW tenant, NEW user
  PROVE  LET own == {"user", "external-filter", "config-profile", "x-internal-tenant-id",
                     "x-internal-user-id", "x-internal-kv-cache-isolation-required",
                     "x-internal-runtime-isolation-mode", "x-request-id"}
             sent == r.headers \ (ClientSuppliedRoutingHeaders \union HopByHopOrSensitive)
             headers == OutboundHeaders(r, tenant, user)
         IN /\ DOMAIN headers = own \union sent
            /\ \A name \in own \ {"x-request-id"} : headers[name] \in
                 {<<kind, tenant.id>> : kind \in {"filter", "profile", "tenant", "isolation", "mode"}}
                 \union {<<"user", tenant.id, user>>, <<"user", user>>}
<1> DEFINE values == {<<kind, tenant.id>> : kind \in {"filter", "profile", "tenant", "isolation", "mode"}}
                     \union {<<"user", tenant.id, user>>, <<"user", user>>}
           trusted == Trusted(tenant, user)
           isolation == Isolation(tenant)
           id == RequestId(r)
           sent == Sanitized(r.headers)
<1>1. /\ DOMAIN trusted = {"user", "external-filter", "config-profile", "x-internal-tenant-id",
                           "x-internal-user-id"}
      /\ \A name \in DOMAIN trusted : trusted[name] \in values
  BY DEF Trusted
<1>2. /\ DOMAIN isolation = {"x-internal-kv-cache-isolation-required",
                             "x-internal-runtime-isolation-mode"}
      /\ \A name \in DOMAIN isolation : isolation[name] \in values
  BY DEF Isolation
<1>3. DOMAIN id = {"x-request-id"}
  BY DEF RequestId
<1>4. DOMAIN sent = r.headers \ (ClientSuppliedRoutingHeaders \union HopByHopOrSensitive)
  BY DEF Sanitized
<1> DEFINE known == Updated(sent, trusted)
           named == Updated(known, id)
           headers == Updated(named, isolation)
<1>5. OutboundHeaders(r, tenant, user) = headers
  BY DEF OutboundHeaders
<1> HIDE DEF values, trusted, isolation, id, sent
<1>6. /\ DOMAIN known = DOMAIN sent \union DOMAIN trusted
      /\ \A name \in DOMAIN trusted : known[name] = trusted[name]
  BY LastWins
<1> HIDE DEF known
<1>7. /\ DOMAIN named = DOMAIN known \union DOMAIN id
      /\ \A name \in DOMAIN known \ DOMAIN id : named[name] = known[name]
  BY LastWins
<1> HIDE DEF named
<1>8. /\ DOMAIN headers = DOMAIN named \union DOMAIN isolation
      /\ \A name \in DOMAIN isolation : headers[name] = isolation[name]
      /\ \A name \in DOMAIN named \ DOMAIN isolation : headers[name] = named[name]
  BY LastWins
<1> HIDE DEF headers
<1>9. \A name \in DOMAIN trusted : headers[name] = trusted[name]
  BY <1>1, <1>2, <1>3, <1>6, <1>7, <1>8
<1> QED BY <1>1, <1>2, <1>3, <1>4, <1>5, <1>6, <1>7, <1>8, <1>9 DEF values

\* What is to be shown of an answer, whichever it is.
TypedAnswer(a) ==
  /\ a.verdict \in {"none", "refused", "forwarded", "escaped"}
  /\ a # Idle => a.request \in Requests
  /\ a.verdict = "refused" => a.reason \in Reasons
  /\ a.verdict = "forwarded" => a.tenant \in TenantIds /\ a.user \in Users

GatewayHeaders(a) ==
  a.verdict = "forwarded" =>
    /\ \A name \in RoutingHeaders \intersect DOMAIN a.headers :
         a.headers[name] \in
           {<<kind, a.tenant>> : kind \in {"filter", "profile", "tenant", "isolation", "mode"}}
           \union {<<"user", a.tenant, a.user>>, <<"user", a.user>>}
    /\ {"user", "external-filter", "config-profile", "x-internal-tenant-id",
        "x-internal-user-id", "x-internal-runtime-isolation-mode"} \subseteq DOMAIN a.headers
    /\ HopByHopOrSensitive \intersect DOMAIN a.headers = {}

LEMMA OutboundHeadersRight ==
  ASSUME NEW r, NEW tenant, NEW user, NEW a, a.verdict = "forwarded",
         a.headers = OutboundHeaders(r, tenant, user),
         a.tenant = tenant.id, a.user = user
  PROVE  GatewayHeaders(a)
<1> DEFINE own == {"user", "external-filter", "config-profile", "x-internal-tenant-id",
                   "x-internal-user-id", "x-internal-kv-cache-isolation-required",
                   "x-internal-runtime-isolation-mode", "x-request-id"}
           sent == r.headers \ (ClientSuppliedRoutingHeaders \union HopByHopOrSensitive)
<1>1. /\ DOMAIN a.headers = own \union sent
      /\ \A name \in own \ {"x-request-id"} : a.headers[name] \in
           {<<kind, a.tenant>> : kind \in {"filter", "profile", "tenant", "isolation", "mode"}}
           \union {<<"user", a.tenant, a.user>>, <<"user", a.user>>}
  <2> DEFINE headers == OutboundHeaders(r, tenant, user)
  <2>1. /\ DOMAIN headers = own \union sent
        /\ \A name \in own \ {"x-request-id"} : headers[name] \in
             {<<kind, tenant.id>> : kind \in {"filter", "profile", "tenant", "isolation", "mode"}}
             \union {<<"user", tenant.id, user>>, <<"user", user>>}
    BY OutboundParts
  <2> HIDE DEF headers, own, sent
  <2> QED BY <2>1 DEF headers
<1>2. RoutingHeaders \intersect (own \union sent) \subseteq own \ {"x-request-id"}
  BY DEF RoutingHeaders, ClientSuppliedRoutingHeaders
<1>3. HopByHopOrSensitive \intersect (own \union sent) = {}
  BY DEF HopByHopOrSensitive
<1> HIDE DEF sent
<1> QED BY <1>1, <1>2, <1>3 DEF GatewayHeaders

----------------------------------------------------------------------------
\* What is known of the lookup a request makes: what it found is fresh, and it
\* finds a key that the provider serves.
Looked(r, seen) ==
  /\ seen = "found" =>
       /\ AsksProvider(r) /\ r.token.kind = "jwt"
       /\ KeyAge(r) <= Lifespan
       /\ setBack = 0 => KeyAge(r) < Ttl
  /\ seen = "undecodable" => AsksProvider(r)
  /\ /\ AsksProvider(r) /\ r.token.kind = "jwt"
     /\ r.token.key \in published[AuthTenant(r).jwks]
     /\ serving[AuthTenant(r).jwks] = "up"
     => seen = "found"

LEMMA AnswerIsTyped ==
  ASSUME Situated, NEW r \in Requests, NEW seen, NEW a, a = Verdict(r, seen)
  PROVE  TypedAnswer(a)
<1>1. CASE a = Escaped(r)
  BY <1>1 DEF TypedAnswer, Escaped
<1>2. CASE AllHold(VerdictChecks(r, seen)) /\ a = Forwarded(r)
  <2>1. PolicyTenant(r) # Null /\ AllHold(AuthChecks(r, AuthTenant(r), seen))
    BY <1>2, VerdictHolds
  <2>2. PolicyTenant(r).id \in TenantIds
    BY <2>1, TenantFound DEF Entry
  <2>3. Principal(r).user \in Users
    BY <2>1, PrincipalUser
  <2>4. /\ a.verdict = "forwarded" /\ a.request = r
        /\ a.tenant = PolicyTenant(r).id /\ a.user = Principal(r).user
    BY <1>2 DEF Forwarded
  <2> QED BY <2>2, <2>3, <2>4 DEF TypedAnswer
<1>3. CASE /\ ~ AllHold(VerdictChecks(r, seen))
           /\ a = Refused(r, FirstFailure(VerdictChecks(r, seen)))
  <2>1. FirstFailure(VerdictChecks(r, seen)) \in Reasons
    BY <1>3, VerdictReason
  <2>2. /\ a.verdict = "refused" /\ a.request = r
        /\ a.reason = FirstFailure(VerdictChecks(r, seen))
    BY <1>3 DEF Refused
  <2> QED BY <2>1, <2>2 DEF TypedAnswer
<1> QED BY <1>1, <1>2, <1>3 DEF Verdict

LEMMA AnswerIsDue ==
  ASSUME Situated, NEW r \in Requests, NEW seen, NEW a, a = Verdict(r, seen), Looked(r, seen)
  PROVE  a.verdict \in {"refused", "escaped"} => AtFault(a.request)
<1> SUFFICES ASSUME a.verdict \in {"refused", "escaped"}, Loadable(document),
                    AllHold(BodyChecks(r)),
                    NEW entry \in ToSet(document), NamesHost(entry, r.host),
                    NEW user \in Users, Identified(r, entry, user),
                    MayUse(entry, Model(r), Adapter(r)),
                    settings.auth = "oidc" => /\ entry.jwks # Null
                                              /\ r.token.key \in published[entry.jwks]
                                              /\ serving[entry.jwks] = "up"
             PROVE  FALSE
  <2>1. a.request = r
    BY DEF Verdict, Escaped, Forwarded, Refused
  <2> QED BY <2>1 DEF AtFault, OwnCaller
<1>1. settings.auth = "oidc" => r.token.kind = "jwt"
  BY DEF Identified
<1>2. settings.auth = "oidc" /\ AsksProvider(r) /\ AuthTenant(r) = entry => seen = "found"
  BY <1>1 DEF Looked
<1>3. /\ AllHold(VerdictChecks(r, seen)) /\ AuthTenant(r) = entry
      /\ settings.auth = "oidc" => AsksProvider(r)
  BY <1>2, EntitledPasses
<1>4. seen # "undecodable"
  BY <1>2, <1>3 DEF Looked, AsksProvider
<1>5. a = Forwarded(r)
  BY <1>3, <1>4 DEF Verdict
<1> QED BY <1>5 DEF Forwarded

LEMMA AnswerTellsItsOwn ==
  ASSUME Situated, NEW r \in Requests, NEW seen, NEW a, a = Verdict(r, seen), Looked(r, seen)
  PROVE  a.verdict = "refused" /\ a.reason \in PolicyReasons =>
           \E entry \in ToSet(document) : OwnCaller(a.request, entry)
<1> SUFFICES ASSUME a.verdict = "refused", a.reason \in PolicyReasons
             PROVE  \E entry \in ToSet(document) : OwnCaller(a.request, entry)
  OBVIOUS
<1>1. /\ ~ AllHold(VerdictChecks(r, seen)) /\ a.request = r
      /\ a.reason = FirstFailure(VerdictChecks(r, seen))
  BY DEF Verdict, Escaped, Forwarded, Refused
<1>2. /\ PolicyTenant(r) # Null /\ AllHold(AuthChecks(r, PolicyTenant(r), seen))
      /\ Principal(r).tenant = PolicyTenant(r).id
  BY <1>1, VerdictReason
<1>3. settings.auth = "oidc" => r.token.kind = "jwt"
  BY <1>2, OidcLists DEF AuthChecks, Looked
<1>4. Identified(r, PolicyTenant(r), Principal(r).user)
  BY <1>2, <1>3, AuthIdentifies
<1>5. Principal(r).user \in Users
  BY <1>2, PrincipalUser
<1> QED BY <1>1, <1>2, <1>4, <1>5, TenantFound DEF OwnCaller

LEMMA AnswerHeaders ==
  ASSUME NEW r, NEW seen, NEW a, a = Verdict(r, seen)
  PROVE  GatewayHeaders(a)
<1>1. CASE a.verdict # "forwarded"
  BY <1>1 DEF GatewayHeaders
<1>2. CASE a.verdict = "forwarded"
  <2>1. a = Forwarded(r)
    BY <1>2 DEF Verdict, Escaped, Refused
  <2>2. /\ a.headers = OutboundHeaders(r, PolicyTenant(r), Principal(r).user)
        /\ a.tenant = PolicyTenant(r).id /\ a.user = Principal(r).user
    BY <2>1 DEF Forwarded
  <2> QED BY <1>2, <2>2, OutboundHeadersRight
<1> QED BY <1>1, <1>2

\* A lookup of a served key finds it, whatever the cache held.
LEMMA ServedIsFound ==
  ASSUME JwksInv, NEW url \in Urls, NEW key \in published[url], serving[url] = "up",
         NEW client \in Signing(url, key)
  PROVE  Seen(url, key, client) = "found"
<1>1. CASE Young(client) /\ key \in client.keys
  BY <1>1 DEF Seen
<1>2. CASE client \in Fetched(url, Get(url))
  <2> DEFINE c == Get(url)
  <2>1. c \in Client
    BY GetTracked
  <2> HIDE DEF c
  <2>2. client = [c EXCEPT !.keys = published[url], !.fetched = now]
    BY <1>2 DEF Fetched, c
  <2>3. client.keys = published[url] /\ client.fetched = now
    BY <2>1, <2>2 DEF Client
  <2>4. Young(client)
    BY <2>3, JwksAssumption DEF Young, JwksInv, JwksTypeOK, Time, Never
  <2> QED BY <2>3, <2>4 DEF Seen
<1> QED BY <1>1, <1>2 DEF Signing

AnswerInv == /\ TypedAnswer(answer)
             /\ ForwardedIsEntitled /\ RefusedIsDue /\ PolicyIsToldToItsOwn /\ HeadersAreTheGateways

PolicyInv == JwksInv /\ Situated /\ AnswerInv

\* An answer is right when it is given.
LEMMA AnswerRight ==
  ASSUME Situated, NEW r \in Requests, NEW seen, answer' = Verdict(r, seen), Looked(r, seen),
         UNCHANGED <<now, setBack, provider, situation>>
  PROVE  AnswerInv'
<1> DEFINE a == Verdict(r, seen)
<1>1. /\ TypedAnswer(a)
      /\ a.verdict \in {"refused", "escaped"} => AtFault(a.request)
      /\ a.verdict = "refused" /\ a.reason \in PolicyReasons =>
           \E entry \in ToSet(document) : OwnCaller(a.request, entry)
      /\ GatewayHeaders(a)
  BY AnswerIsTyped, AnswerIsDue, AnswerTellsItsOwn, AnswerHeaders
<1>2. ForwardedIsEntitled'
  BY AnswerEntitled DEF Looked
<1> HIDE DEF a
<1>3. answer' = a
  BY DEF a
<1>4. TypedAnswer(answer)' /\ HeadersAreTheGateways'
  BY <1>1, <1>3 DEF TypedAnswer, GatewayHeaders, HeadersAreTheGateways
<1>5. RefusedIsDue'
  BY <1>1, <1>3 DEF RefusedIsDue, AtFault, OwnCaller, Identified, MayUse, UsesMockHeader,
                    settings, document, provider
<1>6. PolicyIsToldToItsOwn'
  BY <1>1, <1>3 DEF PolicyIsToldToItsOwn, OwnCaller, Identified, UsesMockHeader, settings, document
<1> QED BY <1>2, <1>4, <1>5, <1>6 DEF AnswerInv

LEMMA IdleRight == answer = Idle => AnswerInv
BY DEF AnswerInv, Idle, TypedAnswer, ForwardedIsEntitled, RefusedIsDue, PolicyIsToldToItsOwn,
       HeadersAreTheGateways

LEMMA PolicyInvInit == Init => PolicyInv
BY InvInit, IdleRight DEF Init, PolicyInv, Situated

LEMMA PolicyInvNext == PolicyInv /\ [Next]_vars => PolicyInv'
<1> SUFFICES ASSUME PolicyInv, [Next]_vars PROVE PolicyInv'
  OBVIOUS
<1> USE DEF PolicyInv
<1>1. ASSUME NEW r \in Requests, Handle(r), Judge(r) PROVE PolicyInv'
  <2>1. JwksInv'
    BY <1>1, InvStutter DEF Judge
  <2>2. /\ answer' = Verdict(r, "not asked")
        /\ UNCHANGED <<now, setBack, provider, situation>>
        /\ Looked(r, "not asked")
    BY <1>1 DEF Judge, Handle, jwksVars, Looked
  <2>3. AnswerInv'
    BY <2>2, AnswerRight
  <2> QED BY <2>1, <2>2, <2>3 DEF Situated
<1>2. ASSUME NEW r \in Requests, Handle(r), JudgeByKey(r) PROVE PolicyInv'
  <2> DEFINE url == AuthTenant(r).jwks
  <2>1. url \in Urls /\ AsksProvider(r)
    BY <1>2, AskedUrl DEF JudgeByKey
  <2>2. UNCHANGED <<now, setBack, provider>> /\ UNCHANGED situation
    BY <1>2 DEF JudgeByKey, Handle
  <2>3. CASE r.token.kind = "jwt"
    <3>1. PICK client \in Signing(url, r.token.key) :
            /\ clients' = [clients EXCEPT ![url] = client]
            /\ answer' = Verdict(r, Seen(url, r.token.key, client))
      BY <1>2, <2>3 DEF JudgeByKey
    <3>2. JwksInv'
      BY <2>1, <2>2, <3>1, SigningTracked, InvClient
    <3>3. ASSUME Seen(url, r.token.key, client) = "found"
          PROVE  KeyAge(r) <= Lifespan /\ (setBack = 0 => KeyAge(r) < Ttl)
      <4>1. Age(url, r.token.key) <= Lifespan /\ (setBack = 0 => Age(url, r.token.key) < Ttl)
        BY <2>1, <3>1, <3>3, FoundIsFresh
      <4> QED BY <4>1, JwksAssumption DEF KeyAge
    <3>4. r.token.key \in published[url] /\ serving[url] = "up"
            => Seen(url, r.token.key, client) = "found"
      BY <2>1, <3>1, ServedIsFound
    <3>5. Looked(r, Seen(url, r.token.key, client))
      BY <2>1, <2>3, <3>3, <3>4 DEF Looked
    <3>6. AnswerInv'
      BY <2>2, <3>1, <3>5, AnswerRight
    <3> QED BY <2>2, <3>2, <3>6 DEF Situated
  <2>4. CASE r.token.kind # "jwt"
    <3>1. clients' = [clients EXCEPT ![url] = Get(url)] /\ answer' = Verdict(r, "malformed")
      BY <1>2, <2>4 DEF JudgeByKey
    <3>2. JwksInv'
      BY <2>1, <2>2, <3>1, GetTracked, InvClient
    <3>3. AnswerInv'
      BY <2>2, <2>4, <3>1, AnswerRight DEF Looked
    <3> QED BY <2>2, <3>2, <3>3 DEF Situated
  <2> QED BY <2>3, <2>4
<1>3. CASE Done
  <2>1. JwksInv'
    BY <1>3, InvStutter DEF Done
  <2>2. answer' = Idle
    BY <1>3 DEF Done
  <2>3. AnswerInv'
    BY <2>2 DEF AnswerInv, Idle, TypedAnswer, ForwardedIsEntitled, RefusedIsDue,
                PolicyIsToldToItsOwn, HeadersAreTheGateways
  <2> QED BY <1>3, <2>1, <2>3 DEF Done, Situated
<1>4. CASE answer = Idle /\ Surroundings /\ UNCHANGED <<situation, answer>>
  <2>1. JwksInv'
    BY <1>4, InvSurroundings
  <2>2. AnswerInv'
    BY <1>4 DEF AnswerInv, Idle, TypedAnswer, ForwardedIsEntitled, RefusedIsDue,
                PolicyIsToldToItsOwn, HeadersAreTheGateways
  <2> QED BY <1>4, <2>1, <2>2 DEF Situated
<1>5. CASE UNCHANGED vars
  <2>1. JwksInv'
    BY <1>5, InvStutter DEF vars
  <2>2. UNCHANGED <<answer, situation, setBack, published, serving>>
    BY <1>5 DEF vars, jwksVars, provider
  <2>3. ForwardedIsEntitled'
    BY <2>2 DEF AnswerInv, ForwardedIsEntitled, Identified, MayUse, UsesMockHeader, settings, document
  <2>4. RefusedIsDue'
    BY <2>2 DEF AnswerInv, RefusedIsDue, AtFault, OwnCaller, Identified, MayUse, UsesMockHeader,
                settings, document
  <2>5. PolicyIsToldToItsOwn'
    BY <2>2 DEF AnswerInv, PolicyIsToldToItsOwn, OwnCaller, Identified, UsesMockHeader,
                settings, document
  <2>6. TypedAnswer(answer)' /\ HeadersAreTheGateways'
    BY <2>2 DEF AnswerInv, TypedAnswer, HeadersAreTheGateways
  <2> QED BY <2>1, <2>2, <2>3, <2>4, <2>5, <2>6 DEF Situated, AnswerInv
<1> QED BY <1>1, <1>2, <1>3, <1>4, <1>5 DEF Next, Handle

\* The state of cache and handler, the reasons of refusals and the names a request
\* is forwarded under are well formed (_handle_llm_request up to the verdict).
THEOREM PolicyTypeCorrect == Spec => []TypeOK
<1>1. PolicyInv => TypeOK
  BY DEF PolicyInv, AnswerInv, TypedAnswer, TypeOK, JwksInv, Situated
<1> QED BY PolicyInvInit, PolicyInvNext, <1>1, PTL DEF Spec

\* Requests use the cache as any lookups do: a withdrawn key is usable no longer
\* than one of the two caches keeps it (JwksClientCache.get under _handle_llm_request).
THEOREM StaleKeysUnderRequests == Spec => []StaleKeysLapse
<1>1. PolicyInv => StaleKeysLapse
  BY InvStale DEF PolicyInv
<1> QED BY PolicyInvInit, PolicyInvNext, <1>1, PTL DEF Spec

\* No request is forwarded but for a tenant that its Host and its credentials both
\* name, with a model and an adapter that tenant may use, on a key that was
\* published lately enough (_handle_llm_request up to the verdict).
THEOREM ForwardedOnlyEntitled == Spec => []ForwardedIsEntitled
<1>1. PolicyInv => ForwardedIsEntitled
  BY DEF PolicyInv, AnswerInv
<1> QED BY PolicyInvInit, PolicyInvNext, <1>1, PTL DEF Spec

\* What a tenant of the file is entitled to is not refused: under any registry that
\* loads, with a key the provider serves, whatever the cache was left in.
THEOREM RefusedOnlyWhenDue == Spec => []RefusedIsDue
<1>1. PolicyInv => RefusedIsDue
  BY DEF PolicyInv, AnswerInv
<1> QED BY PolicyInvInit, PolicyInvNext, <1>1, PTL DEF Spec

\* No answer about models or adapters goes to a caller the tenant's credentials do
\* not identify (the order of the checks in _handle_llm_request and evaluate_policy).
THEOREM PolicyToldToItsOwn == Spec => []PolicyIsToldToItsOwn
<1>1. PolicyInv => PolicyIsToldToItsOwn
  BY DEF PolicyInv, AnswerInv
<1> QED BY PolicyInvInit, PolicyInvNext, <1>1, PTL DEF Spec

\* The routing headers that go upstream are the gateway's, whatever names the client
\* sent (sanitize_inbound_headers, _build_outbound_headers).
THEOREM HeadersOfTheGateway == Spec => []HeadersAreTheGateways
<1>1. PolicyInv => HeadersAreTheGateways
  BY DEF PolicyInv, AnswerInv
<1> QED BY PolicyInvInit, PolicyInvNext, <1>1, PTL DEF Spec
============================================================================
