------------------------------ MODULE JwksCache ------------------------------
(***************************************************************************)
(* JwksClientCache (jwks_cache.py) around the key-set cache of PyJWKClient,*)
(* which the gateway constructs with its defaults, and the identity        *)
(* provider that publishes, withdraws and serves the keys of a URL.        *)
(*                                                                         *)
(* A lookup runs on the event loop with no await, so it is one step.  The  *)
(* client cache reads the wall clock, time.time(), which can be set back;  *)
(* PyJWKClient reads a monotonic clock.                                    *)
(***************************************************************************)
EXTENDS Integers

CONSTANTS
  Urls,          \* the JWKS URLs of the tenants
  Keys,          \* key ids
  Ttl,           \* jwks_cache_ttl_seconds
  Lifespan,      \* PyJWKClient(lifespan=...), 300 seconds unless given
  MaxTime,       \* bound on the clock
  MaxSetBack     \* bound on how far the wall clock is set back

ASSUME JwksAssumption ==
  /\ {Ttl, Lifespan} \subseteq Nat \ {0}
  /\ {MaxTime, MaxSetBack} \subseteq Nat

VARIABLES
  now,         \* the monotonic clock
  setBack,     \* by how much the wall clock was set back so far
  published,   \* per URL, the keys the provider signs with
  withdrawn,   \* history: when each key was last withdrawn
  serving,     \* per URL, how the provider answers
  clients      \* _clients: per URL, the cached client and its deadline

provider == <<published, withdrawn, serving>>
jwksVars == <<now, setBack, provider, clients>>

Time == 0 .. MaxTime
Wall == now - setBack

\* The cached client of a URL: until when it is used, the key set inside it and
\* when that was fetched.  Never: no key set is cached.
Never == 0 - 1
Client == [expires: Int, keys: SUBSET Keys, fetched: Time \union {Never}]
NoClient == [expires |-> 0 - MaxSetBack - 1, keys |-> {}, fetched |-> Never]

JwksInit == /\ now = 0 /\ setBack = 0
            /\ published \in [Urls -> SUBSET Keys]
            /\ withdrawn = [url \in Urls |-> [key \in Keys |-> 0]]
            /\ serving = [url \in Urls |-> "up"]
            /\ clients = [url \in Urls |-> NoClient]

----------------------------------------------------------------------------
\* cached.expires_at > now
Live(client) == client.expires > Wall

\* Mutant of Get: a client that is used is kept for another TTL.
GetRenewed(url) ==
  LET fresh == [expires |-> Wall + Ttl, keys |-> {}, fetched |-> Never]
  IN IF Live(clients[url]) THEN [clients[url] EXCEPT !.expires = Wall + Ttl] ELSE fresh

\* get: the cached client, or a new one that has fetched nothing.
Get(url) ==
  LET fresh == [expires |-> Wall + Ttl, keys |-> {}, fetched |-> Never]
  IN IF Live(clients[url]) THEN clients[url] ELSE fresh

\* PyJWKClient: the key set is read from its cache while it is young enough.
Young(client) == client.fetched # Never /\ now <= client.fetched + Lifespan

\* The client after a request to the provider: it answered, or it did not, and
\* then the cached key set is kept or cleared.
Fetched(url, client) ==
  IF serving[url] = "up"
  THEN {[client EXCEPT !.keys = published[url], !.fetched = now]}
  ELSE {client, [client EXCEPT !.keys = {}, !.fetched = Never]}

\* Mutant of Signing: a key set that is young enough is not asked for again.
SigningOnce(url, key) ==
  LET client == Get(url) IN IF Young(client) THEN {client} ELSE Fetched(url, client)

\* get_signing_key: a key id the cached set does not have is asked for once.
Signing(url, key) ==
  LET client == Get(url)
  IN IF Young(client) /\ key \in client.keys THEN {client} ELSE Fetched(url, client)

\* What the caller sees of a lookup that leaves the URL with this client: the
\* key, no such key, no connection, or an answer that is no JSON.
Seen(url, key, client) ==
  IF Young(client) /\ key \in client.keys THEN "found"
  ELSE CASE serving[url] = "up" -> "unknown"
         [] serving[url] = "down" -> "unreachable"
         [] serving[url] = "garbled" -> "undecodable"

\* One lookup, which any request with a bearer token makes.
Lookup(url, key) ==
  /\ \E client \in Signing(url, key) : clients' = [clients EXCEPT ![url] = client]
  /\ UNCHANGED <<now, setBack, provider>>

----------------------------------------------------------------------------
\* The identity provider and the clocks.
Publish(url, key) ==
  /\ key \notin published[url]
  /\ published' = [published EXCEPT ![url] = @ \union {key}]
  /\ UNCHANGED <<now, setBack, withdrawn, serving, clients>>

Withdraw(url, key) ==
  /\ key \in published[url]
  /\ published' = [published EXCEPT ![url] = @ \ {key}]
  /\ withdrawn' = [withdrawn EXCEPT ![url][key] = now]
  /\ UNCHANGED <<now, setBack, serving, clients>>

ChangeServing(url, state) ==
  /\ serving' = [serving EXCEPT ![url] = state]
  /\ UNCHANGED <<now, setBack, published, withdrawn, clients>>

Tick == /\ now < MaxTime
        /\ now' = now + 1
        /\ UNCHANGED <<setBack, provider, clients>>

SetBack == /\ setBack < MaxSetBack
           /\ setBack' = setBack + 1
           /\ UNCHANGED <<now, provider, clients>>

Surroundings ==
  \/ Tick
  \/ SetBack
  \/ \E url \in Urls :
       \/ \E key \in Keys : Publish(url, key) \/ Withdraw(url, key)
       \/ \E state \in {"up", "down", "garbled"} : ChangeServing(url, state)

JwksNext == Surroundings \/ \E url \in Urls, key \in Keys : Lookup(url, key)

JwksSpec == JwksInit /\ [][JwksNext]_jwksVars

----------------------------------------------------------------------------
JwksTypeOK ==
  /\ now \in Time
  /\ setBack \in 0 .. MaxSetBack
  /\ published \in [Urls -> SUBSET Keys]
  /\ withdrawn \in [Urls -> [Keys -> Time]]
  /\ serving \in [Urls -> {"up", "down", "garbled"}]
  /\ clients \in [Urls -> Client]

\* The keys a lookup would accept without asking the provider.
Usable(url) ==
  IF Live(clients[url]) /\ Young(clients[url]) THEN clients[url].keys ELSE {}

\* How long ago a key ceased to be published.
Age(url, key) == IF key \in published[url] THEN 0 ELSE now - withdrawn[url][key]

\* A key that was withdrawn is accepted for no longer than the key set lives in
\* PyJWKClient and, unless the wall clock is set back, for less than the TTL of
\* the client cache: the two caches do not add up, and use does not renew them
\* (JwksClientCache.get).
StaleKeysLapse ==
  \A url \in Urls : \A key \in Usable(url) :
    /\ Age(url, key) <= Lifespan
    /\ setBack = 0 => Age(url, key) < Ttl
============================================================================
