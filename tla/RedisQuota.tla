---------------------------- MODULE RedisQuota -----------------------------
(***************************************************************************)
(* RedisQuotaEnforcer (quota_enforcer.py:136-371) of several gateway       *)
(* processes that share one Redis, for one tenant.                         *)
(*                                                                         *)
(* A Lua script runs atomically inside Redis.  Everything around it does   *)
(* not: a gateway reads its own clock before it sends the script, the      *)
(* connection can break before or after the script ran, the client library *)
(* then sends it again, and a gateway can die with calls in flight.        *)
(* The client blocks the gateway's event loop, so a gateway has at most    *)
(* one script outstanding.  Every call has a request id of its own, the    *)
(* number the model gives it.                                              *)
(***************************************************************************)
EXTENDS Integers, FiniteSets

CONSTANTS
  Gateways,         \* the gateway processes
  Skew,             \* per gateway, how far its clock is ahead of the slowest
  Users,            \* the user ids of the tenant
  Tenant,           \* the owner of the tenant-level keys
  TokenEstimates,   \* the candidate_input_tokens a call can carry
  RequestLimit,     \* limits.requests_per_minute
  TokenLimit,       \* limits.input_tokens_per_minute
  ConcurrencyLimit, \* limits.concurrent_requests
  NoLimit,          \* a limit that is None, -1 for the script
  Window,           \* window_ms, in ticks
  Ttl,              \* concurrency_ttl_ms, in ticks
  KeySlack,         \* what key_ttl_seconds adds to the longer of the two
  MaxRetries,       \* how often the client library sends a script again
  Lossy,            \* can connections break?
  MaxDelay,         \* bound on the time from reading the clock to the script
  MaxTime,          \* bound on the clock
  MaxCalls          \* bound on the number of calls

Owners == Users \union {Tenant}
Limits == (Nat \ {0}) \union {NoLimit}   \* tenant_registry.py:15-19, ge=1

ASSUME RedisAssumption ==
  /\ Skew \in [Gateways -> Nat]
  /\ Tenant \notin Users
  /\ TokenEstimates \subseteq Nat
  /\ NoLimit \notin Nat
  /\ {RequestLimit, TokenLimit, ConcurrencyLimit} \subseteq Limits
  /\ {Window, Ttl} \subseteq Nat \ {0}
  /\ {KeySlack, MaxRetries, MaxDelay, MaxTime, MaxCalls} \subseteq Nat
  /\ Lossy \in BOOLEAN

VARIABLES
  now,          \* the clock of Redis
  requests,     \* the ...:requests zset of every owner: entries id, score
  inputs,       \* the ...:input_tokens zset: entries id, score, tokens
  slots,        \* the concurrency zset: entries id, score
  recordsUntil, \* when the requests and input_tokens keys expire
  slotsUntil,   \* when the concurrency key expires
  call,         \* per gateway, the script call its client waits for
  running,      \* the calls whose handler was told to go ahead
  issued,       \* how many calls there were
  admitted,     \* history: the calls the script admitted, when and from where
  open          \* history: those of them no finish script ran for

vars == <<now, requests, inputs, slots, recordsUntil, slotsUntil, call, running,
          issued, admitted, open>>

Idle == [op |-> "idle"]
Busy(g) == call[g] # Idle
Waits(g, op) == Busy(g) /\ call[g].op = op /\ call[g].reply = "none"

Clock(g) == now + Skew[g]

OwnersOf(c) == {c.user, Tenant}
\* Mutant of Slot: the score says when the slot ends, not when it was taken.
SlotUntil(c) == [id |-> c.id, score |-> c.stamp + Ttl]
Slot(c) == [id |-> c.id, score |-> c.stamp]
Input(c) == [id |-> c.id, score |-> c.stamp, tokens |-> c.tokens]

\* Mutant of KeyTtl: the keys of both kinds live for one window.
KeyTtlWindow == Window
KeyTtl == (IF Window > Ttl THEN Window ELSE Ttl) + KeySlack

----------------------------------------------------------------------------
\* ZREMRANGEBYSCORE up to the cutoff: what is left of requests and inputs, and
\* of the slots.
Recent(zset, stamp) == {e \in zset : e.score > stamp - Window}
\* Mutants of Fresh: slots never become stale; slots are stale after a window.
FreshAlways(zset, stamp) == zset
FreshByWindow(zset, stamp) == {e \in zset : e.score > stamp - Window}
Fresh(zset, stamp) == {e \in zset : e.score > stamp - Ttl}

\* Mutant of TokenUnits: the range ends before now_ms, as if no two calls came in one
\* millisecond.
TokenUnitsBefore(zset, stamp) ==
  UNION {{e.id} \X (1 .. e.tokens) : e \in {x \in zset : x.score > stamp - Window /\ x.score < stamp}}

\* zset_sum_tokens, in token units.  The range ends at now_ms: an entry that a
\* gateway with a later clock reading wrote is not part of the sum.
TokenUnits(zset, stamp) ==
  UNION {{e.id} \X (1 .. e.tokens) : e \in {x \in zset : x.score > stamp - Window /\ x.score <= stamp}}

\* Mutant of Count: like the token sum, only up to the stamp of this call.
CountToStamp(zset, stamp) == Cardinality({e \in zset : e.score <= stamp})
Count(zset, stamp) == Cardinality(zset)   \* ZCARD

Exceeds(amount, limit) == limit # NoLimit /\ amount > limit

\* The script's early returns, in its order.
Denials(c) ==
  LET taken(o) == Cardinality(Fresh(slots[o], c.stamp))
      count(o) == Count(Recent(requests[o], c.stamp), c.stamp)
      tokens(o) == Cardinality(TokenUnits(Recent(inputs[o], c.stamp), c.stamp))
  IN << [reason |-> "concurrency_quota_exceeded",
         holds |-> Exceeds(taken(c.user) + 1, ConcurrencyLimit)],
        [reason |-> "tenant_concurrency_quota_exceeded",
         holds |-> Exceeds(taken(Tenant) + 1, ConcurrencyLimit)],
        [reason |-> "request_quota_exceeded",
         holds |-> Exceeds(count(c.user) + 1, RequestLimit)],
        [reason |-> "tenant_request_quota_exceeded",
         holds |-> Exceeds(count(Tenant) + 1, RequestLimit)],
        [reason |-> "input_token_quota_exceeded",
         holds |-> Exceeds(tokens(c.user) + c.tokens, TokenLimit)],
        [reason |-> "tenant_input_token_quota_exceeded",
         holds |-> Exceeds(tokens(Tenant) + c.tokens, TokenLimit)] >>

Denied(c) == \E i \in 1 .. 6 : Denials(c)[i].holds
FirstDenial(c) ==
  LET d == Denials(c)
  IN d[CHOOSE i \in 1 .. 6 : d[i].holds /\ \A j \in 1 .. i - 1 : ~ d[j].holds].reason

\* ZREMRANGEBYSCORE and, for an admitted call, ZADD: a member that is there
\* already only gets its score again.
SweptRecords(zsets, c, new) ==
  [o \in Owners |-> IF o \in OwnersOf(c) THEN Recent(zsets[o], c.stamp) \union new ELSE zsets[o]]
SweptSlots(zsets, c, new) ==
  [o \in Owners |-> IF o \in OwnersOf(c) THEN Fresh(zsets[o], c.stamp) \union new ELSE zsets[o]]

Extend(until, c) == [o \in Owners |-> IF o \in OwnersOf(c) THEN now + KeyTtl ELSE until[o]]

\* redis_url and the scripts are loaded, and the keys do not exist.
Init ==
  /\ now = 0
  /\ requests = [o \in Owners |-> {}]
  /\ inputs = [o \in Owners |-> {}]
  /\ slots = [o \in Owners |-> {}]
  /\ recordsUntil = [o \in Owners |-> 0]
  /\ slotsUntil = [o \in Owners |-> 0]
  /\ call = [g \in Gateways |-> Idle]
  /\ running = {}
  /\ issued = 0
  /\ admitted = {}
  /\ open = {}

store == <<requests, inputs, slots, recordsUntil, slotsUntil>>
history == <<admitted, open>>

\* check_and_record up to evalsha: the stamp is taken before the script is sent.
Check(g, u, tokens) ==
  /\ ~ Busy(g)
  /\ issued < MaxCalls
  /\ issued' = issued + 1
  /\ call' = [call EXCEPT ![g] =
       [op |-> "check", id |-> issued + 1, gateway |-> g, user |-> u, tokens |-> tokens,
        stamp |-> Clock(g), retries |-> 0, reply |-> "none"]]
  /\ UNCHANGED <<now, store, running, history>>

Reply(g, reason) == call' = [call EXCEPT ![g].reply = reason]

\* The check script ends in an early return: the sweep is done, nothing is added
\* and no key gets a new deadline.
CheckRefuses(g) ==
  /\ Waits(g, "check")
  /\ Denied(call[g])
  /\ Reply(g, FirstDenial(call[g]))
  /\ requests' = SweptRecords(requests, call[g], {})
  /\ inputs' = SweptRecords(inputs, call[g], {})
  /\ slots' = SweptSlots(slots, call[g], {})
  /\ UNCHANGED <<now, recordsUntil, slotsUntil, running, issued, history>>

\* The call as the history keeps it; a script that runs a second time for a call
\* finds it there.
Admission(c) ==
  [id |-> c.id, gateway |-> c.gateway, user |-> c.user, tokens |-> c.tokens, stamp |-> c.stamp]

CheckAdmits(g) ==
  /\ Waits(g, "check")
  /\ ~ Denied(call[g])
  /\ Reply(g, "quota_allowed")
  /\ requests' = SweptRecords(requests, call[g], {Slot(call[g])})
  /\ inputs' = SweptRecords(inputs, call[g], {Input(call[g])})
  /\ slots' = SweptSlots(slots, call[g], {Slot(call[g])})
  /\ recordsUntil' = Extend(recordsUntil, call[g])
  /\ slotsUntil' = Extend(slotsUntil, call[g])
  /\ admitted' = admitted \union {Admission(call[g])}
  /\ open' = open \union {Admission(call[g])}
  /\ UNCHANGED <<now, running, issued>>

\* The answer arrives: allowed sends the call upstream, anything else is a 429.
Answered(g) ==
  /\ Busy(g) /\ call[g].reply # "none"
  /\ running' = IF call[g].reply = "quota_allowed"
                THEN running \union {Admission(call[g])}
                ELSE running
  /\ call' = [call EXCEPT ![g] = Idle]
  /\ UNCHANGED <<now, store, issued, history>>

\* finish_request, called by the handler that was told to go ahead.  The branch
\* for an empty request id is not reached: main.py always has one.
Finish(g, a) ==
  /\ ~ Busy(g)
  /\ a \in running /\ a.gateway = g
  /\ running' = running \ {a}
  /\ call' = [call EXCEPT ![g] =
       [op |-> "finish", id |-> a.id, gateway |-> g, user |-> a.user, tokens |-> a.tokens,
        stamp |-> a.stamp, retries |-> 0, reply |-> "none"]]
  /\ UNCHANGED <<now, store, issued, history>>

Removed(zset, id) == {e \in zset : e.id # id}   \* ZREM

\* The finish script.  EXPIRE sets a new deadline when the key still exists; a
\* zset without a member has no key.
FinishRuns(g) ==
  /\ Waits(g, "finish")
  /\ Reply(g, "finished")
  /\ slots' = [o \in Owners |->
       IF o \in OwnersOf(call[g]) THEN Removed(slots[o], call[g].id) ELSE slots[o]]
  /\ slotsUntil' = Extend(slotsUntil, call[g])
  /\ open' = open \ {Admission(call[g])}
  /\ UNCHANGED <<now, requests, inputs, recordsUntil, running, issued, admitted>>

\* The connection breaks before or after the script ran and the client library
\* sends the script again, with the same arguments.
Resend(g) ==
  /\ Lossy /\ Busy(g)
  /\ call[g].retries < MaxRetries
  /\ call' = [call EXCEPT ![g].retries = @ + 1, ![g].reply = "none"]
  /\ UNCHANGED <<now, store, running, issued, history>>

\* The last retry failed: check_and_record answers 503 quota_backend_unavailable,
\* finish_request logs the exception and returns.
GiveUp(g) ==
  /\ Lossy /\ Busy(g)
  /\ call[g].retries = MaxRetries
  /\ call' = [call EXCEPT ![g] = Idle]
  /\ UNCHANGED <<now, store, running, issued, history>>

\* A gateway process dies with its calls, and another one takes its place.
Crash(g) ==
  /\ call' = [call EXCEPT ![g] = Idle]
  /\ running' = {a \in running : a.gateway # g}
  /\ UNCHANGED <<now, store, issued, history>>

\* Time passes.  Keys whose deadline comes are gone, and a check script that was
\* sent runs at most MaxDelay after its stamp.
Tick ==
  /\ now < MaxTime
  /\ \A g \in Gateways : Waits(g, "check") => Clock(g) - call[g].stamp < MaxDelay
  /\ now' = now + 1
  /\ requests' = [o \in Owners |-> IF recordsUntil[o] <= now' THEN {} ELSE requests[o]]
  /\ inputs' = [o \in Owners |-> IF recordsUntil[o] <= now' THEN {} ELSE inputs[o]]
  /\ slots' = [o \in Owners |-> IF slotsUntil[o] <= now' THEN {} ELSE slots[o]]
  /\ UNCHANGED <<recordsUntil, slotsUntil, call, running, issued, history>>

Next == \/ Tick
        \/ \E g \in Gateways :
             \/ \E u \in Users, tokens \in TokenEstimates : Check(g, u, tokens)
             \/ CheckRefuses(g) \/ CheckAdmits(g) \/ FinishRuns(g)
             \/ Answered(g) \/ Resend(g) \/ GiveUp(g) \/ Crash(g)
             \/ \E a \in running : Finish(g, a)

Spec == Init /\ [][Next]_vars

----------------------------------------------------------------------------
Ids == 1 .. MaxCalls
Stamps == UNION {{t + Skew[g] : t \in 0 .. MaxTime} : g \in Gateways}
Reasons == {"concurrency_quota_exceeded", "tenant_concurrency_quota_exceeded",
            "request_quota_exceeded", "tenant_request_quota_exceeded",
            "input_token_quota_exceeded", "tenant_input_token_quota_exceeded"}
Entry == [id : Ids, score : Stamps]
Admissions == [id : Ids, gateway : Gateways, user : Users, tokens : TokenEstimates, stamp : Stamps]

TypeOK ==
  /\ now \in 0 .. MaxTime
  /\ requests \in [Owners -> SUBSET Entry]
  /\ inputs \in [Owners -> SUBSET [id : Ids, score : Stamps, tokens : TokenEstimates]]
  /\ slots \in [Owners -> SUBSET Entry]
  /\ recordsUntil \in [Owners -> 0 .. MaxTime + KeyTtl]
  /\ slotsUntil \in [Owners -> 0 .. MaxTime + KeyTtl]
  /\ call \in [Gateways -> {Idle} \union
       [op : {"check", "finish"}, id : Ids, gateway : Gateways, user : Users,
        tokens : TokenEstimates, stamp : Stamps, retries : 0 .. MaxRetries,
        reply : Reasons \union {"none", "quota_allowed", "finished"}]]
  /\ running \in SUBSET Admissions
  /\ issued \in 0 .. MaxCalls
  /\ admitted \in SUBSET Admissions
  /\ open \in SUBSET admitted

Of(o, calls) == {c \in calls : o \in OwnersOf(c)}
Tokens(calls) == UNION {{c.id} \X (1 .. c.tokens) : c \in calls}

\* The calls that are younger than the window, or the TTL, by every clock that is
\* in use.
Counting == {a \in admitted : \A g \in Gateways : a.stamp > Clock(g) - Window}
Holding == {a \in open : \A g \in Gateways : a.stamp > Clock(g) - Ttl}

\* Whichever gateways the calls went to, however their clocks differ and however
\* long scripts were under way, the calls that every clock places in the last
\* window are within the request limit, for each user and for the tenant.
RequestsBounded ==
  \A o \in Owners : ~ Exceeds(Cardinality(Of(o, Counting)), RequestLimit)

\* The tokens of the calls that went to one gateway are within the token limit, for each
\* user and for the tenant: its own stamps are in the order of its scripts, so the sum
\* that ends at the stamp leaves none of them out, whatever other gateways do.
TokensOfOneGateway ==
  \A g \in Gateways, o \in Owners :
    ~ Exceeds(Cardinality(Tokens({a \in Of(o, Counting) : a.gateway = g})), TokenLimit)

\* docs/20-pr10-core-hardening.md:20, "User-level and tenant-level input-token limits.":
\* so are those of all gateways together.
TokensBounded ==
  \A o \in Owners : ~ Exceeds(Cardinality(Tokens(Of(o, Counting))), TokenLimit)

\* A call that was admitted and not finished keeps its slot until the TTL, though
\* gateways sweep by clocks of their own and keys expire.
SlotsKept ==
  \A a \in Holding : \A o \in OwnersOf(a) : Slot(a) \in slots[o]

\* So the calls that run are within the concurrency limit.
ConcurrencyBounded ==
  \A o \in Owners : ~ Exceeds(Cardinality(Of(o, Holding)), ConcurrencyLimit)

\* No call is refused for the slots of calls that were finished or are past the
\* TTL, or for calls that left the window: what a crashed gateway or a lost
\* answer leaves behind fades.
Due(c, reason) ==
  LET o == IF reason \in {"concurrency_quota_exceeded", "request_quota_exceeded",
                          "input_token_quota_exceeded"} THEN c.user ELSE Tenant
      held == {a \in Of(o, open) : a.stamp > c.stamp - Ttl}
      counted == {a \in Of(o, admitted) : a.stamp > c.stamp - Window}
  IN \/ reason \in {"concurrency_quota_exceeded", "tenant_concurrency_quota_exceeded"}
        /\ Cardinality(held) >= ConcurrencyLimit
     \/ reason \in {"request_quota_exceeded", "tenant_request_quota_exceeded"}
        /\ Cardinality(counted) >= RequestLimit
     \/ reason \in {"input_token_quota_exceeded", "tenant_input_token_quota_exceeded"}
        /\ Cardinality(Tokens(counted)) + c.tokens > TokenLimit

RefusalsAreDue ==
  [][\A g \in Gateways :
       Waits(g, "check") /\ call[g]' # Idle /\ call[g].reply' \in Reasons
         => Due(call[g], call[g].reply')]_vars
=============================================================================
