------------------------- MODULE SlidingWindowQuota -------------------------
(***************************************************************************)
(* What a quota enforcer promises one tenant (the QuotaEnforcer protocol,  *)
(* quota_enforcer.py:33-45, and the checks both backends make), stated     *)
(* over the whole history of admitted calls: nothing is ever forgotten,    *)
(* and a call is admitted exactly when the calls of the window and the     *)
(* calls still running leave room for it under every limit.                *)
(***************************************************************************)
EXTENDS Integers, FiniteSets

CONSTANTS
  Users, RequestIds, TokenEstimates,
  RequestLimit, TokenLimit, ConcurrencyLimit, NoLimit,
  Window,          \* the length of the sliding window, in ticks
  Ttl,             \* how long a call that is never finished holds its slot
  MaxTime, MaxAdmissions

Limits == (Nat \ {0}) \union {NoLimit}   \* tenant_registry.py:15-19, ge=1

ASSUME PromiseAssumption ==
  /\ TokenEstimates \subseteq Nat
  /\ NoLimit \notin Nat
  /\ {RequestLimit, TokenLimit, ConcurrencyLimit} \subseteq Limits
  /\ {Window, Ttl} \subseteq Nat \ {0}
  /\ MaxTime \in Nat /\ MaxAdmissions \in Nat

VARIABLES
  now,
  admissions,   \* every admitted call
  unfinished,   \* the admitted calls that did not finish
  verdict       \* the last answer: whom it was for, what it was

vars == <<now, admissions, unfinished, verdict>>

Time == 0 .. MaxTime

\* An admitted call; n numbers the calls in the order of their admission.
Record == [n: 1 .. MaxAdmissions, user: Users, id: RequestIds,
           time: Time, tokens: TokenEstimates]

Verdict == [user: Users, tokens: TokenEstimates, admitted: BOOLEAN] \union {<<>>}

----------------------------------------------------------------------------
OfUser(calls, u) == {a \in calls : a.user = u}
Since(calls, t) == {a \in calls : a.time > t}

\* The input tokens of a set of calls, counted as token units.
TokenUnits(calls) == UNION {{a.n} \X (1 .. a.tokens) : a \in calls}
InputTokens(calls) == Cardinality(TokenUnits(calls))

Exceeds(amount, limit) == limit # NoLimit /\ amount > limit

\* Mutants of RoomIn and SlotAmong: the new call itself is not counted.
RoomBefore(recent, tokens) == /\ ~ Exceeds(Cardinality(recent), RequestLimit)
                              /\ ~ Exceeds(InputTokens(recent) + tokens, TokenLimit)
SlotBefore(running) == ~ Exceeds(Cardinality(running), ConcurrencyLimit)

RoomIn(recent, tokens) == /\ ~ Exceeds(Cardinality(recent) + 1, RequestLimit)
                          /\ ~ Exceeds(InputTokens(recent) + tokens, TokenLimit)

SlotAmong(running) == ~ Exceeds(Cardinality(running) + 1, ConcurrencyLimit)

HasRoom(u, tokens) ==
  /\ RoomIn(Since(admissions, now - Window), tokens)
  /\ RoomIn(Since(OfUser(admissions, u), now - Window), tokens)
  /\ SlotAmong(Since(unfinished, now - Ttl))
  /\ SlotAmong(Since(OfUser(unfinished, u), now - Ttl))

Init == now = 0 /\ admissions = {} /\ unfinished = {} /\ verdict = <<>>

Answer(u, tokens, admitted) ==
  verdict' = [user |-> u, tokens |-> tokens, admitted |-> admitted]

Admit(u, id, tokens) ==
  LET call == [n |-> Cardinality(admissions) + 1, user |-> u, id |-> id,
               time |-> now, tokens |-> tokens]
  IN /\ HasRoom(u, tokens)
     /\ Cardinality(admissions) < MaxAdmissions
     /\ admissions' = admissions \union {call}
     /\ unfinished' = unfinished \union {call}
     /\ Answer(u, tokens, TRUE)
     /\ UNCHANGED now

Refuse(u, tokens) == /\ ~ HasRoom(u, tokens)
                     /\ Answer(u, tokens, FALSE)
                     /\ UNCHANGED <<now, admissions, unfinished>>

\* Mutant of Finish: the call is struck from the history instead.
FinishForgets(a) == /\ admissions' = admissions \ {a}
                    /\ UNCHANGED <<now, unfinished, verdict>>
Finish(a) == /\ unfinished' = unfinished \ {a}
             /\ UNCHANGED <<now, admissions, verdict>>

Tick == /\ now < MaxTime
        /\ now' = now + 1
        /\ UNCHANGED <<admissions, unfinished, verdict>>

Next == \/ Tick
        \/ \E a \in unfinished : Finish(a)
        \/ \E u \in Users, tokens \in TokenEstimates :
             \/ Refuse(u, tokens)
             \/ \E id \in RequestIds : Admit(u, id, tokens)

Spec == Init /\ [][Next]_vars

----------------------------------------------------------------------------
TypeOK == /\ now \in Time
          /\ admissions \in SUBSET Record
          /\ unfinished \in SUBSET admissions
          /\ verdict \in Verdict

\* The calls admitted in the window that ends at t.
InWindow(calls, t) == {a \in calls : t - Window < a.time /\ a.time <= t}

Within(calls) == /\ ~ Exceeds(Cardinality(calls), RequestLimit)
                 /\ ~ Exceeds(InputTokens(calls), TokenLimit)

\* In no window, wherever it starts, are more requests or more input tokens
\* admitted than the limits allow, for a user or for the tenant (the checks of
\* check_and_record hold of every window, not of the one they are made in).
SlidingWindow ==
  \A t \in Time : /\ Within(InWindow(admissions, t))
                  /\ \A u \in Users : Within(InWindow(OfUser(admissions, u), t))

\* At no time do more calls younger than the TTL run than the limit allows, for
\* a user or for the tenant (the two concurrency checks of check_and_record).
ConcurrencyBounded ==
  LET Bounded(calls) == ~ Exceeds(Cardinality(Since(calls, now - Ttl)), ConcurrencyLimit)
  IN Bounded(unfinished) /\ \A u \in Users : Bounded(OfUser(unfinished, u))
============================================================================
