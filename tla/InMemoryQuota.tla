--------------------------- MODULE InMemoryQuota ---------------------------
(***************************************************************************)
(* InMemoryQuotaEnforcer (quota_enforcer.py:46-133), for one tenant: every *)
(* operation reads and writes the entries of one tenant id only, so the    *)
(* enforcer is the product of independent copies of this module.           *)
(*                                                                         *)
(* Both operations run to the end on the gateway's single event loop, with *)
(* no await inside, so each is one action.  What is concurrent is the time *)
(* between them: calls overlap, take longer than the concurrency TTL, are  *)
(* never finished, and reuse request ids.                                  *)
(***************************************************************************)
EXTENDS Integers, FiniteSets

CONSTANTS
  Users,            \* the user ids of the tenant
  RequestIds,       \* the x-request-id values callers send
  TokenEstimates,   \* the candidate_input_tokens a call can carry
  RequestLimit,     \* limits.requests_per_minute
  TokenLimit,       \* limits.input_tokens_per_minute
  ConcurrencyLimit, \* limits.concurrent_requests
  NoLimit,          \* a limit that is None
  TicksPerSecond,   \* the resolution of the clock
  WindowSeconds,    \* window_seconds
  TtlSeconds,       \* concurrency_ttl_seconds
  IdsAreFresh,      \* do callers avoid the id of a call that is not finished?
  ClockCanStepBack, \* time.time() is a wall clock: can it be set back?
  AnonymousFinish,  \* are there call sites that finish without a request id?
  MaxTime,          \* bound on the clock
  MaxAdmissions     \* bound on the number of admitted calls

Limits == (Nat \ {0}) \union {NoLimit}   \* tenant_registry.py:15-19, ge=1

ASSUME QuotaAssumption ==
  /\ TokenEstimates \subseteq Nat
  /\ NoLimit \notin Nat
  /\ {RequestLimit, TokenLimit, ConcurrencyLimit} \subseteq Limits
  /\ {TicksPerSecond, WindowSeconds, TtlSeconds} \subseteq Nat \ {0}
  /\ {IdsAreFresh, ClockCanStepBack, AnonymousFinish} \subseteq BOOLEAN
  /\ MaxTime \in Nat /\ MaxAdmissions \in Nat

VARIABLES
  now,            \* time.time(), in ticks
  userRecords,    \* _user_records: per user, the deque of usage records
  tenantRecords,  \* _tenant_records
  activeUser,     \* _active_user: per user, the entries request id -> timestamp
  activeTenant,   \* _active_tenant
  admissions,     \* history: every call that was admitted
  unfinished,     \* history: the admitted calls finish_request was not called for
  decision        \* the QuotaDecision returned last

vars == <<now, userRecords, tenantRecords, activeUser, activeTenant,
          admissions, unfinished, decision>>

Time == 0 .. MaxTime
Window == WindowSeconds * TicksPerSecond
Ttl == TtlSeconds * TicksPerSecond

\* A usage record with the call it was made for; n numbers the records in the
\* order they were appended, so a deque is the set of its records.
Record == [n: 1 .. MaxAdmissions, user: Users, id: RequestIds,
           time: Time, tokens: TokenEstimates]

\* An entry of an _active dictionary; a dictionary has one entry for an id.
Slot == [id: RequestIds, at: Time]

Reasons == {"quota_allowed", "concurrency_quota_exceeded",
            "tenant_concurrency_quota_exceeded", "request_quota_exceeded",
            "tenant_request_quota_exceeded", "input_token_quota_exceeded",
            "tenant_input_token_quota_exceeded"}

Decision == [user: Users, tokens: TokenEstimates, reason: Reasons,
             retry: Nat, at: Time, admitted: Nat]

None == [reason |-> "none"]   \* no decision yet

----------------------------------------------------------------------------
\* Mutant of Unexpired: a window that is one tick long (< instead of <= in the popleft loop).
UnexpiredLong(records) ==
  {r \in records : \E q \in records : q.n <= r.n /\ q.time >= now - Window}

\* popleft() while the head is expired: what is left starts at the first
\* record that is not.
Unexpired(records) ==
  {r \in records : \E q \in records : q.n <= r.n /\ q.time > now - Window}

\* Mutant of NotStale: the TTL in seconds is taken for ticks.
NotStaleBySeconds(active) == {s \in active : s.at > now - TtlSeconds}

\* The entries _drop_stale_concurrency leaves in a dictionary.
NotStale(active) == {s \in active : s.at > now - Ttl}

\* active[id] = now, and active.pop(id, None)
Release(active, id) == {s \in active : s.id # id}
\* Mutant of Hold: stores when the slot expires instead of when it was taken.
HoldUntil(active, id) == Release(active, id) \union {[id |-> id, at |-> now + Ttl]}
Hold(active, id) == Release(active, id) \union {[id |-> id, at |-> now]}

\* sum(record.input_tokens for record in records), counted as token units.
TokenUnits(records) == UNION {{r.n} \X (1 .. r.tokens) : r \in records}
InputTokens(records) == Cardinality(TokenUnits(records))

Exceeds(amount, limit) == limit # NoLimit /\ amount > limit

\* Mutant of RetryAfter: the age of the oldest record, not what is left of it.
RetryAfterAge(records) ==
  IF records = {} THEN WindowSeconds
  ELSE LET head == CHOOSE r \in records : \A q \in records : r.n <= q.n
           seconds == (now - head.time) \div TicksPerSecond
       IN IF seconds < 1 THEN 1 ELSE seconds
RetryAfter(records) ==
  IF records = {} THEN WindowSeconds
  ELSE LET head == CHOOSE r \in records : \A q \in records : r.n <= q.n
           seconds == (Window - (now - head.time)) \div TicksPerSecond
       IN IF seconds < 1 THEN 1 ELSE seconds

----------------------------------------------------------------------------
\* The early returns of check_and_record, in the order of the code.
Denials(u, tokens) ==
  LET ur == Unexpired(userRecords[u])
      tr == Unexpired(tenantRecords)
  IN << [reason |-> "concurrency_quota_exceeded", retry |-> 1,
         holds |-> Exceeds(Cardinality(NotStale(activeUser[u])) + 1, ConcurrencyLimit)],
        [reason |-> "tenant_concurrency_quota_exceeded", retry |-> 1,
         holds |-> Exceeds(Cardinality(NotStale(activeTenant)) + 1, ConcurrencyLimit)],
        [reason |-> "request_quota_exceeded", retry |-> RetryAfter(ur),
         holds |-> Exceeds(Cardinality(ur) + 1, RequestLimit)],
        [reason |-> "tenant_request_quota_exceeded", retry |-> RetryAfter(tr),
         holds |-> Exceeds(Cardinality(tr) + 1, RequestLimit)],
        [reason |-> "input_token_quota_exceeded", retry |-> RetryAfter(ur),
         holds |-> Exceeds(InputTokens(ur) + tokens, TokenLimit)],
        [reason |-> "tenant_input_token_quota_exceeded", retry |-> RetryAfter(tr),
         holds |-> Exceeds(InputTokens(tr) + tokens, TokenLimit)] >>

\* Mutant of Denied: the tenant's own checks are missing.
DeniedForUser(u, tokens) == \E i \in {1, 3, 5} : Denials(u, tokens)[i].holds
Denied(u, tokens) == \E i \in 1 .. 6 : Denials(u, tokens)[i].holds

FirstDenial(u, tokens) ==
  LET d == Denials(u, tokens)
  IN d[CHOOSE i \in 1 .. 6 : d[i].holds /\ \A j \in 1 .. i - 1 : ~ d[j].holds]

Decide(u, tokens, reason, retry) ==
  decision' = [user |-> u, tokens |-> tokens, reason |-> reason, retry |-> retry,
               at |-> now, admitted |-> Cardinality(admissions)]

\* check_and_record that ends in one of the early returns: the expired records
\* and the stale entries are gone all the same.
Refuse(u, tokens) ==
  /\ Denied(u, tokens)
  /\ Decide(u, tokens, FirstDenial(u, tokens).reason, FirstDenial(u, tokens).retry)
  /\ userRecords' = [userRecords EXCEPT ![u] = Unexpired(@)]
  /\ tenantRecords' = Unexpired(tenantRecords)
  /\ activeUser' = [activeUser EXCEPT ![u] = NotStale(@)]
  /\ activeTenant' = NotStale(activeTenant)
  /\ UNCHANGED <<now, admissions, unfinished>>

\* check_and_record that admits the call.
Admit(u, id, tokens) ==
  LET record == [n |-> Cardinality(admissions) + 1, user |-> u, id |-> id,
                 time |-> now, tokens |-> tokens]
  IN /\ ~ Denied(u, tokens)
     /\ IdsAreFresh => \A a \in unfinished : a.id # id
     /\ Cardinality(admissions) < MaxAdmissions
     /\ Decide(u, tokens, "quota_allowed", 0)
     /\ userRecords' = [userRecords EXCEPT ![u] = Unexpired(@) \union {record}]
     /\ tenantRecords' = Unexpired(tenantRecords) \union {record}
     /\ activeUser' = [activeUser EXCEPT ![u] = Hold(NotStale(@), id)]
     /\ activeTenant' = Hold(NotStale(activeTenant), id)
     /\ admissions' = admissions \union {record}
     /\ unfinished' = unfinished \union {record}
     /\ UNCHANGED now

\* Mutant of Finish: only the user's entry is removed.
FinishUserOnly(a) ==
  /\ a \in unfinished
  /\ activeUser' = [activeUser EXCEPT ![a.user] = Release(@, a.id)]
  /\ unfinished' = unfinished \ {a}
  /\ UNCHANGED <<now, userRecords, tenantRecords, activeTenant, admissions, decision>>

\* finish_request with the request id the call was admitted under.
Finish(a) ==
  /\ a \in unfinished
  /\ activeUser' = [activeUser EXCEPT ![a.user] = Release(@, a.id)]
  /\ activeTenant' = Release(activeTenant, a.id)
  /\ unfinished' = unfinished \ {a}
  /\ UNCHANGED <<now, userRecords, tenantRecords, admissions, decision>>

\* finish_request without a request id removes one arbitrary entry of each
\* dictionary (_pop_one), and they need not be entries of the same call.
PopOne(active, rest) ==
  IF active = {} THEN rest = {} ELSE \E s \in active : rest = active \ {s}

FinishAny(a) ==
  /\ AnonymousFinish
  /\ a \in unfinished
  /\ \E rest \in SUBSET activeUser[a.user] :
       /\ PopOne(activeUser[a.user], rest)
       /\ activeUser' = [activeUser EXCEPT ![a.user] = rest]
  /\ PopOne(activeTenant, activeTenant')
  /\ unfinished' = unfinished \ {a}
  /\ UNCHANGED <<now, userRecords, tenantRecords, admissions, decision>>

Tick == /\ now < MaxTime
        /\ now' = now + 1
        /\ UNCHANGED <<userRecords, tenantRecords, activeUser, activeTenant,
                       admissions, unfinished, decision>>

StepBack == /\ ClockCanStepBack
            /\ now > 0
            /\ now' = now - 1
            /\ UNCHANGED <<userRecords, tenantRecords, activeUser, activeTenant,
                           admissions, unfinished, decision>>

Init == /\ now = 0
        /\ userRecords = [u \in Users |-> {}]
        /\ tenantRecords = {}
        /\ activeUser = [u \in Users |-> {}]
        /\ activeTenant = {}
        /\ admissions = {}
        /\ unfinished = {}
        /\ decision = None

Next == \/ Tick
        \/ StepBack
        \/ \E u \in Users, tokens \in TokenEstimates :
             \/ Refuse(u, tokens)
             \/ \E id \in RequestIds : Admit(u, id, tokens)
        \/ \E a \in unfinished : Finish(a) \/ FinishAny(a)

Spec == Init /\ [][Next]_vars

----------------------------------------------------------------------------
TypeOK ==
  /\ now \in Time
  /\ userRecords \in [Users -> SUBSET Record]
  /\ tenantRecords \in SUBSET Record
  /\ activeUser \in [Users -> SUBSET Slot]
  /\ activeTenant \in SUBSET Slot
  /\ admissions \in SUBSET Record
  /\ unfinished \in SUBSET admissions
  /\ decision \in Decision \union {None}

Within(records) == /\ ~ Exceeds(Cardinality(records), RequestLimit)
                   /\ ~ Exceeds(InputTokens(records), TokenLimit)

\* However ids are reused, entries released and the clock set, no deque and no
\* dictionary outgrows its limit.
CountsWithinLimits ==
  /\ Within(tenantRecords) /\ ~ Exceeds(Cardinality(activeTenant), ConcurrencyLimit)
  /\ \A u \in Users : /\ Within(userRecords[u])
                      /\ ~ Exceeds(Cardinality(activeUser[u]), ConcurrencyLimit)

SlotsOf(calls) == {[id |-> a.id, at |-> a.time] : a \in calls}
UnfinishedBy(u) == {a \in unfinished : a.user = u}

\* Concurrency is tracked by request id: an entry belongs to a call that did not
\* finish, and a call that did not finish keeps its entries until the TTL.
SlotsMatchCalls ==
  /\ activeTenant \subseteq SlotsOf(unfinished)
  /\ NotStale(SlotsOf(unfinished)) \subseteq activeTenant
  /\ \A u \in Users : /\ activeUser[u] \subseteq SlotsOf(UnfinishedBy(u))
                      /\ NotStale(SlotsOf(UnfinishedBy(u))) \subseteq activeUser[u]

\* The enforcer's decisions are those of SlidingWindowQuota, which never forgets
\* a call: dropping expired records and stale entries, per user and per tenant,
\* and only when a call of that user arrives, loses nothing that still counts.
Promise == INSTANCE SlidingWindowQuota WITH
  verdict <- IF decision = None THEN <<>>
             ELSE [user |-> decision.user, tokens |-> decision.tokens,
                   admitted |-> decision.reason = "quota_allowed"]

KeepsPromise == Promise!Spec

\* No window holds more calls or tokens than the limits allow, and no more young
\* calls run than the limit allows (defined in SlidingWindowQuota).
SlidingWindow == Promise!SlidingWindow
ConcurrencyBounded == Promise!ConcurrencyBounded

\* A caller refused for the number of requests who waits Retry-After, plus the
\* part of a second that int() may have cut off, finds that of the calls that
\* were in the window fewer than the limit still are.
RetryAfterFreesTheWindow ==
  LET counted(reason) == {a \in admissions : /\ a.n <= decision.admitted
                                             /\ reason = "request_quota_exceeded" => a.user = decision.user}
      later == decision.at + decision.retry * TicksPerSecond + (TicksPerSecond - 1)
  IN decision.reason \in {"request_quota_exceeded", "tenant_request_quota_exceeded"} =>
       /\ decision.retry <= WindowSeconds
       /\ Cardinality({a \in counted(decision.reason) : a.time > later - Window}) < RequestLimit
============================================================================
