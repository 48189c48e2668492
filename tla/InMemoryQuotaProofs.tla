------------------------- MODULE InMemoryQuotaProofs -------------------------
(***************************************************************************)
(* InMemoryQuota is well formed, keeps within its limits and tells refused *)
(* callers how long to wait, for all values of the constants; and it       *)
(* implements SlidingWindowQuota when request ids are not reused in flight *)
(* and the clock is not set back.                                          *)
(***************************************************************************)
EXTENDS InMemoryQuota, FiniteSetTheorems, WellFoundedInduction, TLAPS

LEMMA Constants ==
  /\ Window \in Nat \ {0} /\ Ttl \in Nat \ {0} /\ Window \in Int /\ Ttl \in Int
  /\ TokenEstimates \subseteq Nat
  /\ MaxTime \in Nat /\ MaxAdmissions \in Nat
<1>1. /\ WindowSeconds \in Nat \ {0} /\ TtlSeconds \in Nat \ {0}
      /\ TicksPerSecond \in Nat \ {0}
      /\ TokenEstimates \subseteq Nat /\ MaxTime \in Nat /\ MaxAdmissions \in Nat
  BY QuotaAssumption
<1>2. \A m, n \in Nat \ {0} : m * n \in Nat \ {0}
  OBVIOUS
<1> QED
  BY <1>1, <1>2 DEF Window, Ttl

----------------------------------------------------------------------------
\* What the chain of early returns comes down to: a call is denied when one of
\* the six counts exceeds its limit, with a reason that is not "quota_allowed".
LEMMA DeniedMeans ==
  ASSUME NEW u, NEW tokens
  PROVE  Denied(u, tokens) <=>
           \/ Exceeds(Cardinality(NotStale(activeUser[u])) + 1, ConcurrencyLimit)
           \/ Exceeds(Cardinality(NotStale(activeTenant)) + 1, ConcurrencyLimit)
           \/ Exceeds(Cardinality(Unexpired(userRecords[u])) + 1, RequestLimit)
           \/ Exceeds(Cardinality(Unexpired(tenantRecords)) + 1, RequestLimit)
           \/ Exceeds(InputTokens(Unexpired(userRecords[u])) + tokens, TokenLimit)
           \/ Exceeds(InputTokens(Unexpired(tenantRecords)) + tokens, TokenLimit)
<1> DEFINE d == Denials(u, tokens)
<1>1. /\ d[1].holds = Exceeds(Cardinality(NotStale(activeUser[u])) + 1, ConcurrencyLimit)
      /\ d[2].holds = Exceeds(Cardinality(NotStale(activeTenant)) + 1, ConcurrencyLimit)
      /\ d[3].holds = Exceeds(Cardinality(Unexpired(userRecords[u])) + 1, RequestLimit)
      /\ d[4].holds = Exceeds(Cardinality(Unexpired(tenantRecords)) + 1, RequestLimit)
      /\ d[5].holds = Exceeds(InputTokens(Unexpired(userRecords[u])) + tokens, TokenLimit)
      /\ d[6].holds = Exceeds(InputTokens(Unexpired(tenantRecords)) + tokens, TokenLimit)
  BY DEF Denials
<1> HIDE DEF d
<1>2. 1 .. 6 = {1, 2, 3, 4, 5, 6}
  OBVIOUS
<1>3. Denied(u, tokens) <=> \E i \in {1, 2, 3, 4, 5, 6} : d[i].holds
  BY <1>2 DEF Denied, d
<1>4. Denied(u, tokens) <=> \/ d[1].holds \/ d[2].holds \/ d[3].holds
                            \/ d[4].holds \/ d[5].holds \/ d[6].holds
  BY <1>3
<1> QED
  BY <1>1, <1>4

\* The first denial is one of the six, and one that holds.
LEMMA FirstDenialMeans ==
  ASSUME NEW u, NEW tokens, Denied(u, tokens)
  PROVE  \E i \in 1 .. 6 : /\ FirstDenial(u, tokens) = Denials(u, tokens)[i]
                           /\ Denials(u, tokens)[i].holds
<1> DEFINE d == Denials(u, tokens)
           first(i) == d[i].holds /\ \A j \in 1 .. i - 1 : ~ d[j].holds
<1>1. \E i \in 1 .. 6 : first(i)
  <2>1. PICK k \in 1 .. 6 : d[k].holds
    BY DEF Denied
  <2>2. /\ 1 .. 1 - 1 = {} /\ 1 .. 2 - 1 = {1} /\ 1 .. 3 - 1 = {1, 2}
        /\ 1 .. 4 - 1 = {1, 2, 3} /\ 1 .. 5 - 1 = {1, 2, 3, 4}
        /\ 1 .. 6 - 1 = {1, 2, 3, 4, 5} /\ 1 .. 6 = {1, 2, 3, 4, 5, 6}
    OBVIOUS
  <2> HIDE DEF d
  <2> QED
    BY <2>1, <2>2
<1>2. FirstDenial(u, tokens) = d[CHOOSE i \in 1 .. 6 : first(i)]
  BY DEF FirstDenial
<1> HIDE DEF d
<1>3. first(CHOOSE i \in 1 .. 6 : first(i)) /\ (CHOOSE i \in 1 .. 6 : first(i)) \in 1 .. 6
  <2> HIDE DEF first
  <2> QED
    BY <1>1
<1> QED
  BY <1>2, <1>3 DEF d

\* The head of a deque exists: record numbers are well ordered.
LEMMA HeadExists ==
  ASSUME NEW records \in SUBSET Record, records # {}
  PROVE  \E r \in records : \A q \in records : r.n <= q.n
<1> DEFINE numbers == {r.n : r \in records}
<1>1. numbers \subseteq Nat /\ numbers # {}
  BY Constants DEF Record
<1>2. IsWellFoundedOn(OpToRel(<, Nat), Nat)
  BY NatLessThanWellFounded
<1>3. PICK x \in numbers : \A y \in numbers : ~ (<<y, x>> \in OpToRel(<, Nat))
  BY <1>1, <1>2, WFMin
<1>4. \A y \in numbers : ~ (y < x)
  BY <1>1, <1>3 DEF OpToRel
<1> QED
  <2>1. PICK r \in records : r.n = x
    BY <1>3
  <2>2. \A q \in records : ~ (q.n < r.n)
    BY <1>4, <2>1
  <2> QED
    BY <2>2, Constants DEF Record

\* Seconds to wait are a natural number, whatever the clock did.
LEMMA RetryType ==
  ASSUME NEW records \in SUBSET Record, now \in Time
  PROVE  RetryAfter(records) \in Nat
<1>0. WindowSeconds \in Nat /\ TicksPerSecond \in Nat \ {0}
  BY QuotaAssumption
<1>1. CASE records = {}
  BY <1>0, <1>1 DEF RetryAfter
<1>2. CASE records # {}
  <2> DEFINE head == CHOOSE r \in records : \A q \in records : r.n <= q.n
             seconds == (Window - (now - head.time)) \div TicksPerSecond
  <2>1. RetryAfter(records) = IF seconds < 1 THEN 1 ELSE seconds
    BY <1>2 DEF RetryAfter
  <2>2. head \in records
    BY <1>2, HeadExists
  <2>3. head.time \in Int /\ now \in Int
    BY <2>2 DEF Record, Time
  <2> HIDE DEF head
  <2>4. seconds \in Int
    BY <1>0, <2>3, Constants
  <2> HIDE DEF seconds
  <2> QED
    BY <2>1, <2>4
<1> QED
  BY <1>1, <1>2

----------------------------------------------------------------------------
\* The invariant of the deques and dictionaries, for any callers and any clock:
\* the state is well formed and the history is finite.
TypeInv == TypeOK /\ IsFiniteSet(admissions)

LEMMA InitTypeInv == Init => TypeInv
<1> SUFFICES ASSUME Init PROVE TypeInv
  OBVIOUS
<1>1. IsFiniteSet(admissions)
  BY FS_EmptySet DEF Init
<1> QED
  BY <1>1, Constants DEF Init, TypeInv, TypeOK, Time

\* Dropping only removes, and a slot taken now is a slot.
LEMMA DropTypes ==
  ASSUME TypeOK
  PROVE  /\ \A records : Unexpired(records) \subseteq records
         /\ \A active : NotStale(active) \subseteq active
         /\ \A active, id : Release(active, id) \subseteq active
         /\ \A active \in SUBSET Slot, id \in RequestIds :
              Hold(NotStale(active), id) \in SUBSET Slot
<1>1. \A id \in RequestIds : [id |-> id, at |-> now] \in Slot
  BY DEF TypeOK, Slot
<1> QED
  BY <1>1 DEF Unexpired, NotStale, Release, Hold

LEMMA DecideType ==
  ASSUME TypeInv, NEW u \in Users, NEW tokens \in TokenEstimates,
         NEW reason \in Reasons, NEW retry \in Nat, Decide(u, tokens, reason, retry)
  PROVE  decision' \in Decision
<1>1. Cardinality(admissions) \in Nat
  BY FS_CardinalityType DEF TypeInv
<1> QED
  BY <1>1 DEF TypeInv, TypeOK, Decide, Decision

LEMMA DenialTypes ==
  ASSUME TypeOK, NEW u \in Users, NEW tokens, NEW i \in 1 .. 6
  PROVE  /\ Denials(u, tokens)[i].reason \in Reasons
         /\ Denials(u, tokens)[i].reason # "quota_allowed"
         /\ Denials(u, tokens)[i].retry \in Nat
<1> DEFINE ur == Unexpired(userRecords[u])
           tr == Unexpired(tenantRecords)
           d == Denials(u, tokens)
<1>1. ur \in SUBSET Record /\ tr \in SUBSET Record /\ now \in Time
  BY DEF Unexpired, TypeOK
<1>2. RetryAfter(ur) \in Nat /\ RetryAfter(tr) \in Nat
  BY <1>1, RetryType
<1>3. /\ d[1].reason = "concurrency_quota_exceeded" /\ d[1].retry = 1
      /\ d[2].reason = "tenant_concurrency_quota_exceeded" /\ d[2].retry = 1
      /\ d[3].reason = "request_quota_exceeded" /\ d[3].retry = RetryAfter(ur)
      /\ d[4].reason = "tenant_request_quota_exceeded" /\ d[4].retry = RetryAfter(tr)
      /\ d[5].reason = "input_token_quota_exceeded" /\ d[5].retry = RetryAfter(ur)
      /\ d[6].reason = "tenant_input_token_quota_exceeded" /\ d[6].retry = RetryAfter(tr)
  BY DEF Denials
<1> HIDE DEF d, ur, tr
<1>4. \/ i = 1 \/ i = 2 \/ i = 3 \/ i = 4 \/ i = 5 \/ i = 6
  OBVIOUS
<1>5. d[i].retry \in Nat
  BY <1>2, <1>3, <1>4
<1>6. d[i].reason \in Reasons /\ d[i].reason # "quota_allowed"
  BY <1>3, <1>4 DEF Reasons
<1> QED
  BY <1>5, <1>6 DEF d

LEMMA StepTypeInv == TypeInv /\ [Next]_vars => TypeInv'
<1> SUFFICES ASSUME TypeInv, [Next]_vars PROVE TypeInv'
  OBVIOUS
<1> USE DEF TypeInv, TypeOK
<1>1. ASSUME NEW u \in Users, NEW tokens \in TokenEstimates, Refuse(u, tokens)
      PROVE  TypeInv'
  <2>1. PICK i \in 1 .. 6 : FirstDenial(u, tokens) = Denials(u, tokens)[i]
    BY <1>1, FirstDenialMeans DEF Refuse
  <2>2. FirstDenial(u, tokens).reason \in Reasons /\ FirstDenial(u, tokens).retry \in Nat
    BY <2>1, DenialTypes
  <2>3. Decide(u, tokens, FirstDenial(u, tokens).reason, FirstDenial(u, tokens).retry)
    BY <1>1 DEF Refuse
  <2>4. decision' \in Decision
    BY <2>2, <2>3, DecideType
  <2> QED
    BY <1>1, <2>4, DropTypes DEF Refuse
<1>2. ASSUME NEW u \in Users, NEW id \in RequestIds, NEW tokens \in TokenEstimates,
             Admit(u, id, tokens)
      PROVE  TypeInv'
  <2> DEFINE record == [n |-> Cardinality(admissions) + 1, user |-> u, id |-> id,
                        time |-> now, tokens |-> tokens]
  <2>1. Cardinality(admissions) \in Nat /\ Cardinality(admissions) < MaxAdmissions
    BY <1>2, FS_CardinalityType DEF Admit
  <2>2. record \in Record
    BY <2>1, Constants DEF Record
  <2>3. decision' \in Decision
    BY <1>2, DecideType DEF Admit, Reasons
  <2>4. IsFiniteSet(admissions \union {record})
    BY FS_AddElement
  <2>5. /\ userRecords' = [userRecords EXCEPT ![u] = Unexpired(@) \union {record}]
        /\ tenantRecords' = Unexpired(tenantRecords) \union {record}
        /\ activeUser' = [activeUser EXCEPT ![u] = Hold(NotStale(@), id)]
        /\ activeTenant' = Hold(NotStale(activeTenant), id)
        /\ admissions' = admissions \union {record}
        /\ unfinished' = unfinished \union {record}
        /\ now' = now
    BY <1>2 DEF Admit
  <2> HIDE DEF record
  <2> QED
    BY <2>2, <2>3, <2>4, <2>5, DropTypes
<1>3. ASSUME NEW a \in unfinished, Finish(a) PROVE TypeInv'
  BY <1>3, DropTypes DEF Finish
<1>4. ASSUME NEW a \in unfinished, FinishAny(a) PROVE TypeInv'
  <2>1. activeTenant' \subseteq activeTenant
    BY <1>4 DEF FinishAny, PopOne
  <2>2. PICK rest \in SUBSET activeUser[a.user] :
           activeUser' = [activeUser EXCEPT ![a.user] = rest]
    BY <1>4 DEF FinishAny
  <2>3. a.user \in Users
    BY DEF Record
  <2> QED
    BY <1>4, <2>1, <2>2, <2>3 DEF FinishAny
<1>5. CASE Tick
  BY <1>5, Constants DEF Tick, Time
<1>6. CASE StepBack
  BY <1>6, Constants DEF StepBack, Time
<1>7. CASE UNCHANGED vars
  BY <1>7 DEF vars
<1> QED
  BY <1>1, <1>2, <1>3, <1>4, <1>5, <1>6, <1>7 DEF Next

\* Whatever callers and clock do, check_and_record and finish_request keep the
\* deques, the dictionaries and the decisions well formed.
THEOREM TypeCorrect == Spec => []TypeOK
<1>1. TypeInv => TypeOK
  BY DEF TypeInv
<1> QED
  BY <1>1, InitTypeInv, StepTypeInv, PTL DEF Spec

----------------------------------------------------------------------------
\* The clock only advances, so records are appended in the order of their times.
Chronological ==
  /\ \A a \in admissions : a.time <= now /\ a.n <= Cardinality(admissions)
  /\ \A a, b \in admissions : a.n <= b.n => a.time <= b.time

\* A deque keeps every call of its history that still counts, and nothing else.
Covers(records, calls) == /\ records \subseteq calls
                          /\ Promise!Since(calls, now - Window) \subseteq records

DequesCover == /\ Covers(tenantRecords, admissions)
               /\ \A u \in Users : Covers(userRecords[u], Promise!OfUser(admissions, u))

IdsUnique == \A a, b \in unfinished : a.id = b.id => a = b

\* The part that is about the deques needs no more than a clock that only advances.
DequeInv == TypeInv /\ Chronological /\ DequesCover

\* The inductive invariant: KeepsPromise compares decisions made on what the
\* deques and dictionaries hold with decisions made on the history, so it needs
\* to know that they hold what counts of it.
IInv == TypeInv /\ Chronological /\ DequesCover /\ IdsUnique /\ SlotsMatchCalls

\* popleft() stops at the first record that still counts, and in chronological
\* order no record behind it is expired.
LEMMA UnexpiredIsRecent ==
  ASSUME TypeInv, Chronological, NEW calls \in SUBSET admissions, NEW records,
         Covers(records, calls)
  PROVE  Unexpired(records) = Promise!Since(calls, now - Window)
<1>1. /\ \A a \in calls : a.time \in Int
      /\ now \in Int /\ Window \in Int
  BY Constants DEF TypeInv, TypeOK, Record, Time
<1>2. Promise!Since(calls, now - Window) \subseteq Unexpired(records)
  <2> SUFFICES ASSUME NEW r \in calls, r.time > now - Window PROVE r \in Unexpired(records)
    BY DEF Promise!Since
  <2>1. r \in records /\ r.n <= r.n
    BY Constants DEF Covers, Promise!Since, TypeInv, TypeOK, Record
  <2> QED
    BY <2>1 DEF Unexpired
<1>3. Unexpired(records) \subseteq Promise!Since(calls, now - Window)
  <2> SUFFICES ASSUME NEW r \in records, NEW q \in records, q.n <= r.n, q.time > now - Window
               PROVE  r \in calls /\ r.time > now - Window
    BY DEF Unexpired, Promise!Since
  <2>1. r \in calls /\ q \in calls
    BY DEF Covers
  <2>2. q.time <= r.time
    BY <2>1 DEF Chronological
  <2> QED
    BY <1>1, <2>1, <2>2
<1> QED
  BY <1>2, <1>3

\* Counting the fresh entries of a dictionary counts the young running calls.
LEMMA SlotsCountCalls ==
  ASSUME TypeInv, IdsUnique, NEW calls \in SUBSET unfinished, NEW active,
         active \subseteq SlotsOf(calls), NotStale(SlotsOf(calls)) \subseteq active
  PROVE  Cardinality(NotStale(active)) = Cardinality(Promise!Since(calls, now - Ttl))
<1> DEFINE young == Promise!Since(calls, now - Ttl)
           slot == [a \in young |-> [id |-> a.id, at |-> a.time]]
<1>1. NotStale(active) = SlotsOf(young)
  BY DEF NotStale, SlotsOf, Promise!Since
<1>2. slot \in Bijection(young, SlotsOf(young))
  <2>1. slot \in Injection(young, SlotsOf(young))
    <3>1. young \subseteq unfinished
      BY DEF Promise!Since
    <3>2. ASSUME NEW a \in young, NEW b \in young, slot[a] = slot[b] PROVE a = b
      <4>1. slot[a].id = a.id /\ slot[b].id = b.id
        OBVIOUS
      <4> QED
        BY <3>1, <3>2, <4>1 DEF IdsUnique
    <3>3. slot \in [young -> SlotsOf(young)]
      BY DEF SlotsOf
    <3> HIDE DEF slot, young
    <3> QED
      BY <3>2, <3>3 DEF Injection, IsInjective
  <2>2. slot \in Surjection(young, SlotsOf(young))
    BY DEF Surjection, SlotsOf
  <2> QED
    BY <2>1, <2>2 DEF Bijection
<1>3. IsFiniteSet(young)
  <2>1. young \in SUBSET admissions
    BY DEF Promise!Since, TypeInv, TypeOK
  <2> QED
    BY <2>1, FS_Subset DEF TypeInv
<1>4. ExistsBijection(young, SlotsOf(young))
  BY <1>2 DEF ExistsBijection
<1> HIDE DEF young
<1>5. Cardinality(SlotsOf(young)) = Cardinality(young)
  BY <1>3, <1>4, FS_Bijection
<1> QED
  BY <1>1, <1>5 DEF young

\* Both modules count with the operator of FiniteSets.
LEMMA SameCardinality == \A S : Promise!Cardinality(S) = Cardinality(S)
BY DEF Promise!Cardinality, Cardinality

\* The decision: the six checks on deques and dictionaries deny a call exactly
\* when the history leaves no room for it.
LEMMA DeniedIffNoRoom ==
  ASSUME IInv, NEW u \in Users, NEW tokens \in TokenEstimates
  PROVE  Denied(u, tokens) <=> ~ Promise!HasRoom(u, tokens)
<1>1. Unexpired(tenantRecords) = Promise!Since(admissions, now - Window)
  BY UnexpiredIsRecent DEF IInv, DequesCover
<1>2. Unexpired(userRecords[u]) = Promise!Since(Promise!OfUser(admissions, u), now - Window)
  <2>1. Promise!OfUser(admissions, u) \in SUBSET admissions
    BY DEF Promise!OfUser
  <2> QED
    BY <2>1, UnexpiredIsRecent DEF IInv, DequesCover
<1>3. Cardinality(NotStale(activeTenant)) = Cardinality(Promise!Since(unfinished, now - Ttl))
  BY SlotsCountCalls DEF IInv, SlotsMatchCalls
<1>4. Cardinality(NotStale(activeUser[u]))
        = Cardinality(Promise!Since(Promise!OfUser(unfinished, u), now - Ttl))
  <2>1. UnfinishedBy(u) \in SUBSET unfinished /\ UnfinishedBy(u) = Promise!OfUser(unfinished, u)
    BY DEF UnfinishedBy, Promise!OfUser
  <2>2. /\ activeUser[u] \subseteq SlotsOf(UnfinishedBy(u))
        /\ NotStale(SlotsOf(UnfinishedBy(u))) \subseteq activeUser[u]
    BY DEF IInv, SlotsMatchCalls
  <2> QED
    BY <2>1, <2>2, SlotsCountCalls DEF IInv
<1>5. \A calls : Promise!InputTokens(calls) = InputTokens(calls)
  <2> TAKE calls
  <2>1. Promise!TokenUnits(calls) = TokenUnits(calls)
    BY DEF Promise!TokenUnits, TokenUnits
  <2> QED
    BY <2>1, SameCardinality DEF Promise!InputTokens, InputTokens
<1>6. Promise!HasRoom(u, tokens) <=>
        /\ ~ Exceeds(Cardinality(Unexpired(tenantRecords)) + 1, RequestLimit)
        /\ ~ Exceeds(InputTokens(Unexpired(tenantRecords)) + tokens, TokenLimit)
        /\ ~ Exceeds(Cardinality(Unexpired(userRecords[u])) + 1, RequestLimit)
        /\ ~ Exceeds(InputTokens(Unexpired(userRecords[u])) + tokens, TokenLimit)
        /\ ~ Exceeds(Cardinality(NotStale(activeTenant)) + 1, ConcurrencyLimit)
        /\ ~ Exceeds(Cardinality(NotStale(activeUser[u])) + 1, ConcurrencyLimit)
  BY <1>1, <1>2, <1>3, <1>4, <1>5, SameCardinality
     DEF Promise!HasRoom, Promise!RoomIn, Promise!SlotAmong, Promise!Exceeds, Exceeds
<1> QED
  BY <1>6, DeniedMeans

----------------------------------------------------------------------------
LEMMA InitIInv == Init => IInv
<1> SUFFICES ASSUME Init PROVE IInv
  OBVIOUS
<1>1. TypeInv
  BY InitTypeInv
<1>2. Chronological /\ DequesCover /\ IdsUnique
  BY DEF Init, Chronological, DequesCover, Covers, Promise!Since, Promise!OfUser, IdsUnique
<1>3. SlotsMatchCalls
  BY DEF Init, SlotsMatchCalls, SlotsOf, UnfinishedBy, NotStale
<1> QED
  BY <1>1, <1>2, <1>3 DEF IInv

\* What a sweep leaves covers what it was asked to cover.
LEMMA SweepCovers ==
  ASSUME DequeInv, NEW u \in Users
  PROVE  /\ Unexpired(tenantRecords) = Promise!Since(admissions, now - Window)
         /\ Unexpired(userRecords[u]) = Promise!Since(Promise!OfUser(admissions, u), now - Window)
<1>1. Promise!OfUser(admissions, u) \in SUBSET admissions
  BY DEF Promise!OfUser
<1> QED
  BY <1>1, UnexpiredIsRecent DEF DequeInv, DequesCover

LEMMA RefuseDeques ==
  ASSUME DequeInv, NEW u \in Users, NEW tokens \in TokenEstimates, Refuse(u, tokens)
  PROVE  DequeInv'
<1>1. TypeInv'
  BY StepTypeInv DEF DequeInv, Next
<1>2. Chronological'
  BY DEF Refuse, DequeInv, Chronological
<1>3. /\ userRecords' = [userRecords EXCEPT ![u] = Unexpired(@)]
      /\ tenantRecords' = Unexpired(tenantRecords)
      /\ now' = now /\ admissions' = admissions
      /\ userRecords \in [Users -> SUBSET Record]
  BY DEF Refuse, DequeInv, TypeInv, TypeOK
<1>4. DequesCover'
  <2>1. Covers(tenantRecords', admissions)
    BY <1>3, SweepCovers DEF Covers, Promise!Since
  <2>2. ASSUME NEW v \in Users PROVE Covers(userRecords'[v], Promise!OfUser(admissions, v))
    <3>1. CASE v = u
      BY <1>3, <3>1, SweepCovers DEF Covers, Promise!Since
    <3>2. CASE v # u
      BY <1>3, <3>2 DEF DequeInv, DequesCover
    <3> QED
      BY <3>1, <3>2
  <2> QED
    BY <1>3, <2>1, <2>2 DEF DequesCover, Covers, Promise!Since, Promise!OfUser
<1> QED
  BY <1>1, <1>2, <1>4 DEF DequeInv

LEMMA AdmitDeques ==
  ASSUME DequeInv, NEW u \in Users, NEW id \in RequestIds,
         NEW tokens \in TokenEstimates, Admit(u, id, tokens)
  PROVE  DequeInv'
<1> DEFINE record == [n |-> Cardinality(admissions) + 1, user |-> u, id |-> id,
                      time |-> now, tokens |-> tokens]
<1>1. /\ userRecords' = [userRecords EXCEPT ![u] = Unexpired(@) \union {record}]
      /\ tenantRecords' = Unexpired(tenantRecords) \union {record}
      /\ admissions' = admissions \union {record}
      /\ now' = now
  BY DEF Admit
<1>2. /\ userRecords \in [Users -> SUBSET Record] /\ admissions \subseteq Record
      /\ now \in Int /\ Window \in Int /\ Window > 0
  BY Constants DEF DequeInv, TypeInv, TypeOK, Time
<1>3. /\ record.n = Cardinality(admissions) + 1 /\ record.user = u /\ record.time = now
  OBVIOUS
<1>4. TypeInv'
  BY StepTypeInv DEF DequeInv, Next
<1>5. Cardinality(admissions) \in Nat
  BY FS_CardinalityType DEF DequeInv, TypeInv
<1> HIDE DEF record
<1>6. Chronological'
  <2>1. record \notin admissions
    BY <1>3, <1>5 DEF DequeInv, Chronological
  <2>2. Cardinality(admissions') = Cardinality(admissions) + 1
    BY <1>1, <2>1, FS_AddElement DEF DequeInv, TypeInv
  <2>3. \A a \in admissions : a.n \in Int /\ a.time \in Int
    BY <1>2, Constants DEF Record, Time
  <2>4. \A a \in admissions' : a.time <= now' /\ a.n <= Cardinality(admissions')
    BY <1>1, <1>2, <1>3, <1>5, <2>2, <2>3 DEF DequeInv, Chronological
  <2>5. \A a, b \in admissions' : a.n <= b.n => a.time <= b.time
    BY <1>1, <1>2, <1>3, <1>5, <2>3 DEF DequeInv, Chronological
  <2> QED
    BY <2>4, <2>5 DEF Chronological
<1>7. \A calls : Promise!Since(calls \union {record}, now - Window)
                   = Promise!Since(calls, now - Window) \union {record}
  BY <1>2, <1>3 DEF Promise!Since
<1>8. DequesCover'
  <2>1. Covers(tenantRecords', admissions')
    BY <1>1, <1>7, SweepCovers DEF Covers, Promise!Since
  <2>2. ASSUME NEW v \in Users PROVE Covers(userRecords'[v], Promise!OfUser(admissions', v))
    <3>1. CASE v = u
      <4>1. Promise!OfUser(admissions', u) = Promise!OfUser(admissions, u) \union {record}
        BY <1>1, <1>3 DEF Promise!OfUser
      <4>2. userRecords'[u] = Promise!Since(Promise!OfUser(admissions, u), now - Window) \union {record}
        BY <1>1, <1>2, SweepCovers
      <4> QED
        BY <1>7, <3>1, <4>1, <4>2 DEF Covers, Promise!Since
    <3>2. CASE v # u
      <4>1. Promise!OfUser(admissions', v) = Promise!OfUser(admissions, v)
        BY <1>1, <1>3, <3>2 DEF Promise!OfUser
      <4>2. userRecords'[v] = userRecords[v]
        BY <1>1, <1>2, <3>2
      <4> QED
        BY <4>1, <4>2 DEF DequeInv, DequesCover
    <3> QED
      BY <3>1, <3>2
  <2> QED
    BY <1>1, <2>1, <2>2 DEF DequesCover, Covers, Promise!Since, Promise!OfUser
<1> QED
  BY <1>4, <1>6, <1>8 DEF DequeInv

\* Finishes leave the deques alone, and when time passes fewer calls count.
LEMMA OtherDeques ==
  ASSUME DequeInv, TypeInv', now' \in {now, now + 1},
         UNCHANGED <<userRecords, tenantRecords, admissions>>
  PROVE  DequeInv'
<1>1. /\ now \in Int /\ Window \in Int /\ \A a \in admissions : a.time \in Int
  BY Constants DEF DequeInv, TypeInv, TypeOK, Record, Time
<1>2. Chronological'
  BY <1>1 DEF DequeInv, Chronological
<1>3. \A calls \in SUBSET admissions :
         Promise!Since(calls, now' - Window) \subseteq Promise!Since(calls, now - Window)
  BY <1>1 DEF Promise!Since
<1>4. \A u \in Users : Promise!OfUser(admissions, u) \in SUBSET admissions
  BY DEF Promise!OfUser
<1>5. /\ Promise!Since(admissions, now' - Window) \subseteq tenantRecords
      /\ \A u \in Users : Promise!Since(Promise!OfUser(admissions, u), now' - Window)
                            \subseteq userRecords[u]
  BY <1>3, <1>4 DEF DequeInv, DequesCover, Covers
<1>6. DequesCover'
  BY <1>5 DEF DequeInv, DequesCover, Covers, Promise!Since, Promise!OfUser
<1> QED
  BY <1>2, <1>6 DEF DequeInv

LEMMA StepDequeInv ==
  ASSUME ~ ClockCanStepBack
  PROVE  DequeInv /\ [Next]_vars => DequeInv'
<1> SUFFICES ASSUME DequeInv, [Next]_vars PROVE DequeInv'
  OBVIOUS
<1>1. TypeInv'
  BY StepTypeInv DEF DequeInv
<1>2. ASSUME NEW u \in Users, NEW tokens \in TokenEstimates, Refuse(u, tokens) PROVE DequeInv'
  BY <1>2, RefuseDeques
<1>3. ASSUME NEW u \in Users, NEW tokens \in TokenEstimates, NEW id \in RequestIds, Admit(u, id, tokens)
      PROVE  DequeInv'
  BY <1>3, AdmitDeques
<1>4. ASSUME NEW a \in unfinished, Finish(a) \/ FinishAny(a) PROVE DequeInv'
  BY <1>1, <1>4, OtherDeques DEF Finish, FinishAny
<1>5. CASE Tick \/ UNCHANGED vars
  BY <1>1, <1>5, OtherDeques DEF Tick, vars
<1> QED
  BY <1>2, <1>3, <1>4, <1>5 DEF Next, StepBack

LEMMA RefuseIInv ==
  ASSUME IInv, NEW u \in Users, NEW tokens \in TokenEstimates, Refuse(u, tokens)
  PROVE  IInv'
<1>1. DequeInv'
  BY RefuseDeques DEF IInv, DequeInv
<1>2. IdsUnique'
  BY DEF Refuse, IInv, IdsUnique
<1>3. /\ activeUser' = [activeUser EXCEPT ![u] = NotStale(@)]
      /\ activeTenant' = NotStale(activeTenant)
      /\ now' = now /\ unfinished' = unfinished
      /\ activeUser \in [Users -> SUBSET Slot]
  BY DEF Refuse, IInv, TypeInv, TypeOK
<1>4. SlotsMatchCalls'
  BY <1>3 DEF IInv, SlotsMatchCalls, SlotsOf, UnfinishedBy, NotStale
<1> QED
  BY <1>1, <1>2, <1>4 DEF IInv, DequeInv

LEMMA AdmitIInv ==
  ASSUME IInv, IdsAreFresh, NEW u \in Users, NEW id \in RequestIds,
         NEW tokens \in TokenEstimates, Admit(u, id, tokens)
  PROVE  IInv'
<1> DEFINE record == [n |-> Cardinality(admissions) + 1, user |-> u, id |-> id,
                      time |-> now, tokens |-> tokens]
<1>1. /\ activeUser' = [activeUser EXCEPT ![u] = Hold(NotStale(@), id)]
      /\ activeTenant' = Hold(NotStale(activeTenant), id)
      /\ unfinished' = unfinished \union {record}
      /\ now' = now
      /\ \A a \in unfinished : a.id # id
  BY DEF Admit
<1>2. /\ activeUser \in [Users -> SUBSET Slot]
      /\ now \in Int /\ Ttl \in Int /\ Ttl > 0
  BY Constants DEF IInv, TypeInv, TypeOK, Time
<1>3. record.user = u /\ record.id = id /\ record.time = now
  OBVIOUS
<1>4. DequeInv'
  BY AdmitDeques DEF IInv, DequeInv
<1> HIDE DEF record
<1>5. IdsUnique'
  BY <1>1, <1>3 DEF IInv, IdsUnique
<1>6. \A calls \in SUBSET unfinished : \A active :
          active \subseteq SlotsOf(calls) /\ NotStale(SlotsOf(calls)) \subseteq active =>
            /\ Hold(NotStale(active), id) \subseteq SlotsOf(calls \union {record})
            /\ NotStale(SlotsOf(calls \union {record})) \subseteq Hold(NotStale(active), id)
  BY <1>1, <1>3 DEF Hold, Release, NotStale, SlotsOf
<1>7. SlotsMatchCalls'
  <2>1. /\ activeTenant' \subseteq SlotsOf(unfinished')
        /\ {s \in SlotsOf(unfinished') : s.at > now - Ttl} \subseteq activeTenant'
    BY <1>1, <1>6 DEF IInv, SlotsMatchCalls, NotStale
  <2>2. ASSUME NEW v \in Users
        PROVE  /\ activeUser'[v] \subseteq SlotsOf(UnfinishedBy(v)')
               /\ {s \in SlotsOf(UnfinishedBy(v)') : s.at > now - Ttl} \subseteq activeUser'[v]
    <3>1. CASE v = u
      <4>1. UnfinishedBy(v)' = UnfinishedBy(v) \union {record} /\ UnfinishedBy(v) \in SUBSET unfinished
        BY <1>1, <1>3, <3>1 DEF UnfinishedBy
      <4>2. activeUser'[v] = Hold(NotStale(activeUser[v]), id)
        BY <1>1, <1>2, <3>1
      <4>3. /\ activeUser[v] \subseteq SlotsOf(UnfinishedBy(v))
            /\ NotStale(SlotsOf(UnfinishedBy(v))) \subseteq activeUser[v]
        BY DEF IInv, SlotsMatchCalls
      <4>4. /\ activeUser'[v] \subseteq SlotsOf(UnfinishedBy(v) \union {record})
            /\ NotStale(SlotsOf(UnfinishedBy(v) \union {record})) \subseteq activeUser'[v]
        BY <1>6, <4>1, <4>2, <4>3
      <4> QED
        BY <4>1, <4>4 DEF NotStale
    <3>2. CASE v # u
      <4>1. UnfinishedBy(v)' = UnfinishedBy(v)
        BY <1>1, <1>3, <3>2 DEF UnfinishedBy
      <4>2. activeUser'[v] = activeUser[v]
        BY <1>1, <1>2, <3>2
      <4> QED
        BY <4>1, <4>2 DEF IInv, SlotsMatchCalls, NotStale
    <3> QED
      BY <3>1, <3>2
  <2> QED
    BY <1>1, <2>1, <2>2 DEF SlotsMatchCalls, NotStale, SlotsOf, UnfinishedBy
<1> QED
  BY <1>4, <1>5, <1>7 DEF IInv, DequeInv

LEMMA FinishIInv ==
  ASSUME IInv, NEW a \in unfinished, Finish(a)
  PROVE  IInv'
<1>1. /\ activeUser' = [activeUser EXCEPT ![a.user] = Release(@, a.id)]
      /\ activeTenant' = Release(activeTenant, a.id)
      /\ unfinished' = unfinished \ {a} /\ now' = now
      /\ activeUser \in [Users -> SUBSET Slot] /\ a.user \in Users
  BY DEF Finish, IInv, TypeInv, TypeOK, Record
<1>2. DequeInv'
  <2>1. TypeInv'
    BY StepTypeInv DEF IInv, Next
  <2> QED
    BY <2>1, OtherDeques DEF IInv, DequeInv, Finish
<1>3. IdsUnique'
  BY <1>1 DEF IInv, IdsUnique
<1>4. \A calls \in SUBSET unfinished : \A active :
         active \subseteq SlotsOf(calls) /\ NotStale(SlotsOf(calls)) \subseteq active =>
           /\ Release(active, a.id) \subseteq SlotsOf(calls \ {a})
           /\ NotStale(SlotsOf(calls \ {a})) \subseteq Release(active, a.id)
  BY DEF IInv, IdsUnique, Release, NotStale, SlotsOf
<1>5. /\ activeTenant' \subseteq SlotsOf(unfinished')
      /\ NotStale(SlotsOf(unfinished')) \subseteq activeTenant'
  BY <1>1, <1>4 DEF IInv, SlotsMatchCalls
<1>6. ASSUME NEW v \in Users
      PROVE  /\ activeUser'[v] \subseteq SlotsOf(UnfinishedBy(v)')
             /\ NotStale(SlotsOf(UnfinishedBy(v)')) \subseteq activeUser'[v]
  <2>1. /\ activeUser[v] \subseteq SlotsOf(UnfinishedBy(v))
        /\ NotStale(SlotsOf(UnfinishedBy(v))) \subseteq activeUser[v]
    BY DEF IInv, SlotsMatchCalls
  <2>2. UnfinishedBy(v) \in SUBSET unfinished
    BY DEF UnfinishedBy
  <2>3. UnfinishedBy(v)' = UnfinishedBy(v) \ {a}
    BY <1>1 DEF UnfinishedBy
  <2>4. CASE v = a.user
    <3>1. activeUser'[v] = Release(activeUser[v], a.id)
      BY <1>1, <2>4
    <3> QED
      BY <1>4, <2>1, <2>2, <2>3, <3>1
  <2>5. CASE v # a.user
    <3>1. UnfinishedBy(v) \ {a} = UnfinishedBy(v) /\ activeUser'[v] = activeUser[v]
      BY <1>1, <2>5 DEF UnfinishedBy
    <3> QED
      BY <2>1, <2>3, <3>1
  <2> QED
    BY <2>4, <2>5
<1>7. SlotsMatchCalls'
  BY <1>1, <1>5, <1>6 DEF SlotsMatchCalls, NotStale, SlotsOf, UnfinishedBy
<1> QED
  BY <1>2, <1>3, <1>7 DEF IInv, DequeInv

LEMMA TickIInv ==
  ASSUME IInv, Tick
  PROVE  IInv'
<1>1. /\ now' = now + 1
      /\ activeUser' = activeUser /\ activeTenant' = activeTenant /\ unfinished' = unfinished
  BY DEF Tick
<1>2. /\ now \in Int /\ Ttl \in Int
      /\ \A a \in admissions : a.time \in Int
      /\ \A s \in activeTenant : s.at \in Int
      /\ unfinished \subseteq admissions
  BY Constants DEF IInv, TypeInv, TypeOK, Record, Slot, Time
<1>3. DequeInv'
  <2>1. TypeInv'
    BY StepTypeInv DEF IInv, Next
  <2> QED
    BY <2>1, OtherDeques DEF IInv, DequeInv, Tick
<1>4. IdsUnique'
  BY <1>1 DEF IInv, IdsUnique
<1>5. \A calls \in SUBSET unfinished :
         {s \in SlotsOf(calls) : s.at > now' - Ttl} \subseteq NotStale(SlotsOf(calls))
  BY <1>1, <1>2 DEF SlotsOf, NotStale
<1>6. SlotsMatchCalls'
  <2>1. \A u \in Users : UnfinishedBy(u) \in SUBSET unfinished
    BY DEF UnfinishedBy
  <2>2. /\ {s \in SlotsOf(unfinished) : s.at > now' - Ttl} \subseteq activeTenant
        /\ \A u \in Users : {s \in SlotsOf(UnfinishedBy(u)) : s.at > now' - Ttl}
                              \subseteq activeUser[u]
    BY <1>5, <2>1 DEF IInv, SlotsMatchCalls
  <2> QED
    BY <1>1, <2>2 DEF IInv, SlotsMatchCalls, NotStale, SlotsOf, UnfinishedBy
<1> QED
  BY <1>3, <1>4, <1>6 DEF IInv, DequeInv

LEMMA StutterIInv ==
  ASSUME IInv, UNCHANGED vars
  PROVE  IInv'
<1>1. TypeInv'
  BY StepTypeInv DEF IInv
<1> QED
  BY <1>1 DEF vars, IInv, Chronological, DequesCover, Covers, Promise!Since, Promise!OfUser,
              IdsUnique, SlotsMatchCalls, NotStale, SlotsOf, UnfinishedBy

LEMMA StepIInv ==
  ASSUME IdsAreFresh, ~ ClockCanStepBack, ~ AnonymousFinish
  PROVE  IInv /\ [Next]_vars => IInv'
BY RefuseIInv, AdmitIInv, FinishIInv, TickIInv, StutterIInv DEF Next, StepBack, FinishAny

----------------------------------------------------------------------------
\* Every step is a step of the promise, or leaves what it is about unchanged.
LEMMA StepKeepsPromise ==
  ASSUME IdsAreFresh, ~ ClockCanStepBack, ~ AnonymousFinish
  PROVE  IInv /\ [Next]_vars => [Promise!Next]_(Promise!vars)
<1> SUFFICES ASSUME IInv, [Next]_vars PROVE [Promise!Next]_(Promise!vars)
  OBVIOUS
<1> DEFINE verdict == IF decision = None THEN <<>>
                      ELSE [user |-> decision.user, tokens |-> decision.tokens,
                            admitted |-> decision.reason = "quota_allowed"]
<1>1. ASSUME NEW u \in Users, NEW tokens \in TokenEstimates, NEW reason \in Reasons,
             NEW retry, Decide(u, tokens, reason, retry)
      PROVE  verdict' = [user |-> u, tokens |-> tokens, admitted |-> reason = "quota_allowed"]
  <2>1. /\ decision'.user = u /\ decision'.tokens = tokens /\ decision'.reason = reason
    BY <1>1 DEF Decide
  <2>2. decision' # None
    <3>1. None.reason = "none" /\ reason # "none"
      BY DEF None, Reasons
    <3> QED
      BY <2>1, <3>1
  <2> QED
    BY <2>1, <2>2 DEF None
<1>2. ASSUME NEW u \in Users, NEW tokens \in TokenEstimates, Refuse(u, tokens)
      PROVE  Promise!Next
  <2>1. PICK i \in 1 .. 6 : FirstDenial(u, tokens) = Denials(u, tokens)[i]
    BY <1>2, FirstDenialMeans DEF Refuse
  <2> DEFINE reason == FirstDenial(u, tokens).reason
  <2>2. reason \in Reasons /\ reason # "quota_allowed"
    BY <2>1, DenialTypes DEF IInv, TypeInv
  <2>3. Decide(u, tokens, reason, FirstDenial(u, tokens).retry)
    BY <1>2 DEF Refuse
  <2>4. ~ Promise!HasRoom(u, tokens)
    BY <1>2, DeniedIffNoRoom DEF Refuse
  <2>5. verdict' = [user |-> u, tokens |-> tokens, admitted |-> reason = "quota_allowed"]
    BY <1>1, <2>2, <2>3
  <2> HIDE DEF reason
  <2>6. verdict' = [user |-> u, tokens |-> tokens, admitted |-> FALSE]
    BY <2>2, <2>5
  <2>7. Promise!Refuse(u, tokens)
    BY <1>2, <2>4, <2>6 DEF Promise!Refuse, Promise!Answer, Refuse
  <2> QED
    BY <2>7 DEF Promise!Next
<1>3. ASSUME NEW u \in Users, NEW id \in RequestIds, NEW tokens \in TokenEstimates,
             Admit(u, id, tokens)
      PROVE  Promise!Next
  <2>1. Promise!HasRoom(u, tokens)
    BY <1>3, DeniedIffNoRoom DEF Admit
  <2>2. Decide(u, tokens, "quota_allowed", 0) /\ "quota_allowed" \in Reasons
    BY <1>3 DEF Admit, Reasons
  <2>3. verdict' = [user |-> u, tokens |-> tokens, admitted |-> "quota_allowed" = "quota_allowed"]
    BY <1>1, <2>2
  <2>4. verdict' = [user |-> u, tokens |-> tokens, admitted |-> TRUE]
    BY <2>3
  <2>5. Promise!Admit(u, id, tokens)
    BY <1>3, <2>1, <2>4, SameCardinality DEF Promise!Admit, Promise!Answer, Admit
  <2> QED
    BY <2>5 DEF Promise!Next
<1>4. ASSUME NEW a \in unfinished, Finish(a) PROVE Promise!Next
  BY <1>4 DEF Finish, Promise!Finish, Promise!Next
<1>5. CASE Tick
  BY <1>5 DEF Tick, Promise!Tick, Promise!Next
<1>6. CASE UNCHANGED vars
  BY <1>6 DEF vars, Promise!vars
<1> QED
  BY <1>2, <1>3, <1>4, <1>5, <1>6 DEF Next, StepBack, FinishAny

\* The enforcer that forgets expired records and stale entries makes the
\* decisions of SlidingWindowQuota, which forgets nothing: when ids are not
\* reused by calls in flight, the clock is not set back, and every
\* finish_request names its request id.
THEOREM Implementation ==
  ASSUME IdsAreFresh, ~ ClockCanStepBack, ~ AnonymousFinish
  PROVE  Spec => KeepsPromise
<1>1. Init => Promise!Init
  BY DEF Init, Promise!Init, None
<1>2. Init => IInv
  BY InitIInv
<1>3. IInv /\ [Next]_vars => IInv'
  BY StepIInv
<1>4. IInv /\ [Next]_vars => [Promise!Next]_(Promise!vars)
  BY StepKeepsPromise
<1> QED
  BY <1>1, <1>2, <1>3, <1>4, PTL DEF Spec, KeepsPromise, Promise!Spec

\* Concurrency is tracked by request id (docs/20-pr10-core-hardening.md): an
\* entry of a dictionary belongs to a call finish_request was not called for, and
\* such a call keeps its entries until the TTL.
THEOREM SlotsAreTracked ==
  ASSUME IdsAreFresh, ~ ClockCanStepBack, ~ AnonymousFinish
  PROVE  Spec => []SlotsMatchCalls
<1>1. IInv => SlotsMatchCalls
  BY DEF IInv
<1>2. IInv /\ [Next]_vars => IInv'
  BY StepIInv
<1> QED
  BY <1>1, <1>2, InitIInv, PTL DEF Spec

----------------------------------------------------------------------------
\* The promise with its proved bounds.
Proved == INSTANCE SlidingWindowQuotaProofs WITH
  verdict <- IF decision = None THEN <<>>
             ELSE [user |-> decision.user, tokens |-> decision.tokens,
                   admitted |-> decision.reason = "quota_allowed"]

\* The promise and the module that proves its bounds define the same operators.
LEMMA SameCounts ==
  /\ \A S : Promise!Cardinality(S) = Proved!Cardinality(S)
  /\ \A calls : Promise!InputTokens(calls) = Proved!InputTokens(calls)
  /\ \A amount, limit : Promise!Exceeds(amount, limit) <=> Proved!Exceeds(amount, limit)
<1>1. \A S : Promise!Cardinality(S) = Proved!Cardinality(S)
  BY DEF Promise!Cardinality, Proved!Cardinality
<1>2. \A calls : Promise!TokenUnits(calls) = Proved!TokenUnits(calls)
  BY DEF Promise!TokenUnits, Proved!TokenUnits
<1>3. \A calls : Promise!InputTokens(calls) = Proved!InputTokens(calls)
  BY <1>1, <1>2 DEF Promise!InputTokens, Proved!InputTokens
<1> QED
  BY <1>1, <1>3 DEF Promise!Exceeds, Proved!Exceeds

LEMMA SameBounds ==
  /\ SlidingWindow <=> Proved!SlidingWindow
  /\ ConcurrencyBounded <=> Proved!ConcurrencyBounded
<1>1. \A calls : Promise!Within(calls) <=> Proved!Within(calls)
  BY SameCounts DEF Promise!Within, Proved!Within
<1>2. \A calls, t : Promise!InWindow(calls, t) = Proved!InWindow(calls, t)
  BY DEF Promise!InWindow, Proved!InWindow
<1>3. \A calls, u : Promise!OfUser(calls, u) = Proved!OfUser(calls, u)
  BY DEF Promise!OfUser, Proved!OfUser
<1>4. \A calls, t : Promise!Since(calls, t) = Proved!Since(calls, t)
  BY DEF Promise!Since, Proved!Since
<1>5. Promise!Time = Proved!Time
  BY DEF Promise!Time, Proved!Time
<1>6. SlidingWindow <=> Proved!SlidingWindow
  BY <1>1, <1>2, <1>3, <1>5 DEF SlidingWindow, Promise!SlidingWindow, Proved!SlidingWindow
<1>7. ConcurrencyBounded <=> Proved!ConcurrencyBounded
  BY SameCounts, <1>3, <1>4 DEF ConcurrencyBounded, Promise!ConcurrencyBounded, Proved!ConcurrencyBounded
<1> QED
  BY <1>6, <1>7

LEMMA SameSteps ==
  /\ Promise!Init => Proved!Init
  /\ [Promise!Next]_(Promise!vars) => [Proved!Next]_(Proved!vars)
<1>1. \A u, tokens : Promise!HasRoom(u, tokens) <=> Proved!HasRoom(u, tokens)
  <2>1. \A calls, t : Promise!Since(calls, t) = Proved!Since(calls, t)
    BY DEF Promise!Since, Proved!Since
  <2>2. \A calls, u : Promise!OfUser(calls, u) = Proved!OfUser(calls, u)
    BY DEF Promise!OfUser, Proved!OfUser
  <2>3. \A calls, tokens : Promise!RoomIn(calls, tokens) <=> Proved!RoomIn(calls, tokens)
    BY SameCounts DEF Promise!RoomIn, Proved!RoomIn
  <2>4. \A calls : Promise!SlotAmong(calls) <=> Proved!SlotAmong(calls)
    BY SameCounts DEF Promise!SlotAmong, Proved!SlotAmong
  <2> QED
    BY <2>1, <2>2, <2>3, <2>4 DEF Promise!HasRoom, Proved!HasRoom
<1>2. \A u, id, tokens : Promise!Admit(u, id, tokens) => Proved!Admit(u, id, tokens)
  BY <1>1, SameCounts DEF Promise!Admit, Proved!Admit, Promise!Answer, Proved!Answer
<1>3. \A u, tokens : Promise!Refuse(u, tokens) => Proved!Refuse(u, tokens)
  BY <1>1 DEF Promise!Refuse, Proved!Refuse, Promise!Answer, Proved!Answer
<1>4. \A a : Promise!Finish(a) => Proved!Finish(a)
  BY DEF Promise!Finish, Proved!Finish
<1>5. Promise!Tick => Proved!Tick
  BY DEF Promise!Tick, Proved!Tick
<1>6. Promise!vars = Proved!vars /\ Promise!vars' = Proved!vars'
  BY DEF Promise!vars, Proved!vars
<1>7. Promise!Next => Proved!Next
  BY <1>2, <1>3, <1>4, <1>5 DEF Promise!Next, Proved!Next
<1> QED
  BY <1>6, <1>7 DEF Promise!Init, Proved!Init

LEMMA ProvedInvariance ==
  /\ Proved!Init => Proved!Inv
  /\ Proved!Inv /\ [Proved!Next]_(Proved!vars) => Proved!Inv'
<1>1. /\ TokenEstimates \subseteq Nat
      /\ NoLimit \notin Nat
      /\ {RequestLimit, TokenLimit, ConcurrencyLimit} \subseteq Proved!Limits
      /\ {Window, Ttl} \subseteq Nat \ {0}
      /\ MaxTime \in Nat /\ MaxAdmissions \in Nat
  BY QuotaAssumption, Constants DEF Limits, Proved!Limits
<1>2. Proved!Init => Proved!Inv
  BY <1>1, Proved!InitInv
<1>3. Proved!Inv /\ [Proved!Next]_(Proved!vars) => Proved!Inv'
  BY <1>1, Proved!StepInv
<1> QED
  BY <1>2, <1>3

\* With distinct ids and a clock that only goes forward, the deques, which forget,
\* let no window hold more calls or tokens than the limits allow (the request and
\* token checks of check_and_record).
THEOREM WindowsBounded ==
  ASSUME IdsAreFresh, ~ ClockCanStepBack, ~ AnonymousFinish
  PROVE  Spec => []SlidingWindow
<1>1. Spec => KeepsPromise
  BY Implementation
<1>2. Proved!Spec => []Proved!SlidingWindow
  <2>1. Proved!Inv => Proved!SlidingWindow
    BY DEF Proved!Inv
  <2> QED
    BY <2>1, ProvedInvariance, PTL DEF Proved!Spec
<1>3. SlidingWindow <=> Proved!SlidingWindow
  BY SameBounds
<1>4. KeepsPromise => Proved!Spec
  BY SameSteps, PTL DEF KeepsPromise, Promise!Spec, Proved!Spec
<1> QED
  BY <1>1, <1>2, <1>3, <1>4, PTL

\* And the dictionaries let no more calls younger than the TTL run than the
\* concurrency limit allows (check_and_record and finish_request).
THEOREM ConcurrencyIsBounded ==
  ASSUME IdsAreFresh, ~ ClockCanStepBack, ~ AnonymousFinish
  PROVE  Spec => []ConcurrencyBounded
<1>1. Spec => KeepsPromise
  BY Implementation
<1>2. Proved!Spec => []Proved!ConcurrencyBounded
  <2>1. Proved!Inv => Proved!ConcurrencyBounded
    BY DEF Proved!Inv
  <2> QED
    BY <2>1, ProvedInvariance, PTL DEF Proved!Spec
<1>3. ConcurrencyBounded <=> Proved!ConcurrencyBounded
  BY SameBounds
<1>4. KeepsPromise => Proved!Spec
  BY SameSteps, PTL DEF KeepsPromise, Promise!Spec, Proved!Spec
<1> QED
  BY <1>1, <1>2, <1>3, <1>4, PTL

----------------------------------------------------------------------------
\* What is stored for a user, or for the tenant, is finite and within the limits.
Bounded(records, active) ==
  /\ IsFiniteSet(records) /\ Within(records)
  /\ IsFiniteSet(active) /\ ~ Exceeds(Cardinality(active), ConcurrencyLimit)

\* The invariant of CountsWithinLimits: each check is made on what is stored, so
\* it needs no history and no assumption on callers and clock.
CountInv == /\ TypeInv
            /\ Bounded(tenantRecords, activeTenant)
            /\ \A u \in Users : Bounded(userRecords[u], activeUser[u])

LEMMA LimitArithmetic ==
  ASSUME NEW limit \in Limits
  PROVE  /\ ~ Exceeds(0, limit)
         /\ \A more \in Int, less \in Int :
              ~ Exceeds(more, limit) /\ less <= more => ~ Exceeds(less, limit)
<1>1. CASE limit = NoLimit
  BY <1>1 DEF Exceeds
<1>2. CASE limit \in Nat \ {0}
  BY <1>2 DEF Exceeds
<1> QED
  BY <1>1, <1>2 DEF Limits

LEMMA LimitTypes ==
  RequestLimit \in Limits /\ TokenLimit \in Limits /\ ConcurrencyLimit \in Limits
BY QuotaAssumption

\* Fewer records carry no more tokens, and one more at most its own.
LEMMA StoredTokens ==
  ASSUME NEW records, IsFiniteSet(records), records \subseteq Record
  PROVE  /\ \A fewer \in SUBSET records :
              /\ InputTokens(fewer) \in Nat /\ InputTokens(records) \in Nat
              /\ InputTokens(fewer) <= InputTokens(records)
         /\ \A r \in Record :
              /\ InputTokens(records \union {r}) \in Nat
              /\ InputTokens(records \union {r}) <= InputTokens(records) + r.tokens
<1>1. /\ TokenEstimates \subseteq Nat
      /\ NoLimit \notin Nat
      /\ {RequestLimit, TokenLimit, ConcurrencyLimit} \subseteq Proved!Limits
      /\ {Window, Ttl} \subseteq Nat \ {0}
      /\ MaxTime \in Nat /\ MaxAdmissions \in Nat
  BY QuotaAssumption, Constants DEF Limits, Proved!Limits
<1>2. Proved!Record = Record
  BY DEF Record, Proved!Record, Time, Proved!Time
<1>3. \A calls : Proved!InputTokens(calls) = InputTokens(calls)
  <2>1. \A calls : Proved!TokenUnits(calls) = TokenUnits(calls)
    BY DEF Proved!TokenUnits, TokenUnits
  <2>2. \A S : Proved!Cardinality(S) = Cardinality(S)
    BY SameCounts, SameCardinality
  <2> QED
    BY <2>1, <2>2 DEF Proved!InputTokens, InputTokens
<1>4. Proved!IsFiniteSet(records)
  BY DEF Proved!IsFiniteSet, IsFiniteSet
<1>5. \A fewer \in SUBSET records :
        /\ InputTokens(fewer) \in Nat /\ InputTokens(records) \in Nat
        /\ InputTokens(fewer) <= InputTokens(records)
  BY <1>1, <1>2, <1>3, <1>4, Proved!TokensMonotone
<1>6. \A r \in Record :
        /\ InputTokens(records \union {r}) \in Nat
        /\ InputTokens(records \union {r}) <= InputTokens(records) + r.tokens
  BY <1>1, <1>2, <1>3, <1>4, Proved!TokensOfOneMore
<1> QED
  BY <1>5, <1>6

\* Dropping records and entries keeps what is left within the limits.
LEMMA FewerStored ==
  ASSUME NEW records \in SUBSET Record, NEW active, Bounded(records, active),
         NEW fewer \in SUBSET records, NEW less \in SUBSET active
  PROVE  Bounded(fewer, less)
<1>1. /\ IsFiniteSet(fewer) /\ Cardinality(fewer) <= Cardinality(records)
      /\ IsFiniteSet(less) /\ Cardinality(less) <= Cardinality(active)
  BY FS_Subset DEF Bounded
<1>2. /\ Cardinality(fewer) \in Nat /\ Cardinality(records) \in Nat
      /\ Cardinality(less) \in Nat /\ Cardinality(active) \in Nat
  BY <1>1, FS_CardinalityType DEF Bounded
<1>3. /\ InputTokens(fewer) \in Nat /\ InputTokens(records) \in Nat
      /\ InputTokens(fewer) <= InputTokens(records)
  BY StoredTokens DEF Bounded
<1> QED
  BY <1>1, <1>2, <1>3, LimitArithmetic, LimitTypes DEF Bounded, Within

\* A call the checks let through keeps what it is added to within the limits.
LEMMA OneMoreStored ==
  ASSUME NEW records \in SUBSET Record, IsFiniteSet(records),
         NEW active, IsFiniteSet(active), NEW r \in Record, NEW id,
         ~ Exceeds(Cardinality(records) + 1, RequestLimit),
         ~ Exceeds(InputTokens(records) + r.tokens, TokenLimit),
         ~ Exceeds(Cardinality(active) + 1, ConcurrencyLimit)
  PROVE  Bounded(records \union {r}, Hold(active, id))
<1>1. /\ IsFiniteSet(records \union {r})
      /\ Cardinality(records \union {r}) \in {Cardinality(records), Cardinality(records) + 1}
  BY FS_AddElement
<1> DEFINE rest == Release(active, id)
           held == rest \union {[id |-> id, at |-> now]}
<1>2. /\ IsFiniteSet(rest) /\ Cardinality(rest) <= Cardinality(active)
  <2>1. rest \subseteq active
    BY DEF Release
  <2> QED
    BY <2>1, FS_Subset
<1> HIDE DEF rest
<1>3. /\ IsFiniteSet(held) /\ Cardinality(held) \in {Cardinality(rest), Cardinality(rest) + 1}
  BY <1>2, FS_AddElement
<1>4. held = Hold(active, id)
  BY DEF Hold, rest
<1> HIDE DEF held
<1>5. /\ Cardinality(records) \in Nat /\ Cardinality(records \union {r}) \in Nat
      /\ Cardinality(active) \in Nat /\ Cardinality(rest) \in Nat /\ Cardinality(held) \in Nat
  BY <1>1, <1>2, <1>3, FS_CardinalityType
<1>6. /\ InputTokens(records) \in Nat /\ r.tokens \in Nat
      /\ InputTokens(records \union {r}) \in Nat
      /\ InputTokens(records \union {r}) <= InputTokens(records) + r.tokens
  BY StoredTokens, Constants DEF Record
<1>7. ~ Exceeds(Cardinality(records \union {r}), RequestLimit)
  BY <1>1, <1>5, LimitArithmetic, LimitTypes
<1>8. ~ Exceeds(InputTokens(records \union {r}), TokenLimit)
  BY <1>6, LimitArithmetic, LimitTypes
<1>9. ~ Exceeds(Cardinality(held), ConcurrencyLimit)
  BY <1>2, <1>3, <1>5, LimitArithmetic, LimitTypes
<1> QED
  BY <1>1, <1>3, <1>4, <1>7, <1>8, <1>9 DEF Bounded, Within

LEMMA InitCountInv == Init => CountInv
<1> SUFFICES ASSUME Init PROVE CountInv
  OBVIOUS
<1>1. IsFiniteSet({}) /\ Cardinality({}) = 0
  BY FS_EmptySet
<1>2. InputTokens({}) = 0
  BY <1>1 DEF InputTokens, TokenUnits
<1>3. Bounded({}, {})
  BY <1>1, <1>2, LimitArithmetic, LimitTypes DEF Bounded, Within
<1> QED
  BY <1>3, InitTypeInv DEF Init, CountInv

LEMMA StepCountInv == CountInv /\ [Next]_vars => CountInv'
<1> SUFFICES ASSUME CountInv, [Next]_vars PROVE CountInv'
  OBVIOUS
<1>1. TypeInv /\ TypeInv' /\ TypeOK
  BY StepTypeInv DEF CountInv, TypeInv
<1>2. /\ tenantRecords \in SUBSET Record
      /\ userRecords \in [Users -> SUBSET Record] /\ activeUser \in [Users -> SUBSET Slot]
  BY <1>1 DEF TypeOK
\* A step that only drops keeps the invariant.
<1>3. ASSUME /\ tenantRecords' \subseteq tenantRecords
             /\ activeTenant' \subseteq activeTenant
             /\ \A v \in Users : /\ userRecords'[v] \subseteq userRecords[v]
                                 /\ activeUser'[v] \subseteq activeUser[v]
      PROVE  CountInv'
  <2>1. Bounded(tenantRecords', activeTenant')
    BY <1>2, <1>3, FewerStored DEF CountInv
  <2>2. \A v \in Users : Bounded(userRecords'[v], activeUser'[v])
    BY <1>2, <1>3, FewerStored DEF CountInv
  <2> QED
    BY <1>1, <2>1, <2>2 DEF CountInv, Bounded, Within, Exceeds, InputTokens, TokenUnits
<1>4. ASSUME NEW u \in Users, NEW tokens \in TokenEstimates, Refuse(u, tokens)
      PROVE  CountInv'
  BY <1>1, <1>2, <1>3, <1>4, DropTypes DEF Refuse
<1>5. ASSUME NEW u \in Users, NEW id \in RequestIds, NEW tokens \in TokenEstimates,
             Admit(u, id, tokens)
      PROVE  CountInv'
  <2> DEFINE record == [n |-> Cardinality(admissions) + 1, user |-> u, id |-> id,
                        time |-> now, tokens |-> tokens]
  <2>1. record \in Record /\ record.tokens = tokens
    <3>1. Cardinality(admissions) \in Nat /\ Cardinality(admissions) < MaxAdmissions
      BY <1>1, <1>5, FS_CardinalityType DEF Admit, TypeInv
    <3> QED
      BY <1>1, <3>1, Constants DEF Record, TypeOK
  <2>2. /\ userRecords' = [userRecords EXCEPT ![u] = Unexpired(@) \union {record}]
        /\ tenantRecords' = Unexpired(tenantRecords) \union {record}
        /\ activeUser' = [activeUser EXCEPT ![u] = Hold(NotStale(@), id)]
        /\ activeTenant' = Hold(NotStale(activeTenant), id)
    BY <1>5 DEF Admit
  <2> HIDE DEF record
  <2>3. ~ Denied(u, tokens)
    BY <1>5 DEF Admit
  <2>4. Bounded(tenantRecords', activeTenant')
    <3>1. Bounded(Unexpired(tenantRecords), NotStale(activeTenant))
      BY <1>1, <1>2, DropTypes, FewerStored DEF CountInv
    <3>2. Unexpired(tenantRecords) \in SUBSET Record
      BY <1>1, <1>2, DropTypes
    <3> QED
      BY <2>1, <2>2, <2>3, <3>1, <3>2, DeniedMeans, OneMoreStored DEF Bounded
  <2>5. Bounded(userRecords'[u], activeUser'[u])
    <3>1. Bounded(Unexpired(userRecords[u]), NotStale(activeUser[u]))
      BY <1>1, <1>2, DropTypes, FewerStored DEF CountInv
    <3>2. Unexpired(userRecords[u]) \in SUBSET Record
      BY <1>1, <1>2, DropTypes
    <3>3. /\ userRecords'[u] = Unexpired(userRecords[u]) \union {record}
          /\ activeUser'[u] = Hold(NotStale(activeUser[u]), id)
      BY <1>2, <2>2
    <3> QED
      BY <2>1, <2>3, <3>1, <3>2, <3>3, DeniedMeans, OneMoreStored DEF Bounded
  <2>6. \A v \in Users : v # u => /\ userRecords'[v] = userRecords[v]
                                 /\ activeUser'[v] = activeUser[v]
    BY <1>2, <2>2
  <2>7. \A v \in Users : Bounded(userRecords'[v], activeUser'[v])
    BY <2>5, <2>6 DEF CountInv
  <2> QED
    BY <1>1, <2>4, <2>7 DEF CountInv, Bounded, Within, Exceeds, InputTokens, TokenUnits
<1>6. ASSUME NEW a \in unfinished, Finish(a) PROVE CountInv'
  BY <1>1, <1>2, <1>3, <1>6, DropTypes DEF Finish
<1>7. ASSUME NEW a \in unfinished, FinishAny(a) PROVE CountInv'
  <2>1. activeTenant' \subseteq activeTenant
    BY <1>7 DEF FinishAny, PopOne
  <2>2. PICK rest \in SUBSET activeUser[a.user] :
           activeUser' = [activeUser EXCEPT ![a.user] = rest]
    BY <1>7 DEF FinishAny
  <2>3. userRecords' = userRecords /\ tenantRecords' = tenantRecords
    BY <1>7 DEF FinishAny
  <2> QED
    BY <1>2, <1>3, <2>1, <2>2, <2>3
<1>8. CASE Tick \/ StepBack \/ UNCHANGED vars
  BY <1>3, <1>8 DEF Tick, StepBack, vars
<1> QED
  BY <1>4, <1>5, <1>6, <1>7, <1>8 DEF Next

\* However ids are reused, entries released and the clock set, no deque and no
\* dictionary outgrows its limit (check_and_record, finish_request).
THEOREM CountsBounded == Spec => []CountsWithinLimits
<1>1. CountInv => CountsWithinLimits
  BY DEF CountInv, Bounded, CountsWithinLimits
<1> QED
  BY <1>1, InitCountInv, StepCountInv, PTL DEF Spec

----------------------------------------------------------------------------
LEMMA DivMod ==
  ASSUME NEW x \in Nat, NEW d \in Nat \ {0}
  PROVE  /\ x \div d \in Nat /\ d * (x \div d) \in Nat
         /\ d * (x \div d) <= x /\ x < d * (x \div d) + d
OBVIOUS

LEMMA WholeSeconds ==
  ASSUME NEW x \in Nat, NEW d \in Nat \ {0}, NEW w \in Nat, x <= w * d
  PROVE  x \div d <= w
<1> DEFINE s == x \div d
<1>1. s \in Nat /\ d * s <= x
  BY DivMod
<1> HIDE DEF s
<1>2. ASSUME s >= w + 1 PROVE FALSE
  <2>1. d * s >= d * (w + 1)
    BY <1>1, <1>2
  <2>2. d * (w + 1) = w * d + d
    OBVIOUS
  <2> QED
    BY <1>1, <2>1, <2>2
<1>3. s <= w
  BY <1>1, <1>2
<1> QED
  BY <1>3 DEF s

\* The last tick of a wait of so many seconds, at which the cut off part of a second is
\* over too.
AfterWait(retry) == now + retry * TicksPerSecond + (TicksPerSecond - 1)

\* A deque that is at the request limit: when the wait it answers is over, its head has
\* left the window, and so have all but fewer calls than the limit.
LEMMA WaitFreesTheDeque ==
  ASSUME DequeInv, NEW calls \in SUBSET admissions, NEW records \in SUBSET Record,
         Covers(records, calls), IsFiniteSet(records),
         ~ Exceeds(Cardinality(records), RequestLimit),
         Exceeds(Cardinality(Unexpired(records)) + 1, RequestLimit)
  PROVE  /\ RetryAfter(Unexpired(records)) <= WindowSeconds
         /\ Cardinality({a \in calls : a.time > AfterWait(RetryAfter(Unexpired(records))) - Window})
              < RequestLimit
<1> DEFINE left == Unexpired(records)
           head == CHOOSE r \in left : \A q \in left : r.n <= q.n
           x == Window - (now - head.time)
           s == x \div TicksPerSecond
           retry == RetryAfter(left)
           young == {a \in calls : a.time > AfterWait(retry) - Window}
<1>1. /\ left = Promise!Since(calls, now - Window) /\ left \subseteq records
  BY UnexpiredIsRecent DEF DequeInv, Unexpired
<1>2. /\ IsFiniteSet(left) /\ Cardinality(left) <= Cardinality(records)
      /\ Cardinality(left) \in Nat /\ Cardinality(records) \in Nat
  BY <1>1, FS_Subset, FS_CardinalityType
<1>3. RequestLimit \in Nat \ {0}
  BY QuotaAssumption DEF Exceeds, Limits
<1>4. Cardinality(left) >= RequestLimit /\ Cardinality(records) <= RequestLimit
  BY <1>2, <1>3, QuotaAssumption DEF Exceeds
<1>5. left # {}
  BY <1>3, <1>4, FS_EmptySet
<1> HIDE DEF left
<1>6. head \in left
  <2>1. left \in SUBSET Record
    BY <1>1
  <2> QED
    BY <1>5, <2>1, HeadExists
<1>7. retry = IF s < 1 THEN 1 ELSE s
  BY <1>5 DEF RetryAfter
<1>8. /\ head.time \in Int /\ now \in Int /\ Window \in Int
      /\ head.time <= now /\ head.time > now - Window
      /\ TicksPerSecond \in Nat \ {0} /\ WindowSeconds \in Nat \ {0}
      /\ Window = WindowSeconds * TicksPerSecond
      /\ \A a \in calls : a.time \in Int
  <2>1. head \in calls /\ head.time > now - Window
    BY <1>1, <1>6 DEF Promise!Since
  <2>2. head \in admissions /\ head.time <= now
    BY <2>1 DEF DequeInv, Chronological
  <2>3. admissions \subseteq Record /\ now \in Int
    BY DEF DequeInv, TypeInv, TypeOK, Time
  <2> HIDE DEF head
  <2> QED
    BY <2>1, <2>2, <2>3, QuotaAssumption, Constants DEF Record, Time, Window
<1> HIDE DEF head, retry
<1>9. x \in Nat /\ x <= WindowSeconds * TicksPerSecond /\ x = Window - (now - head.time)
  BY <1>8
<1> HIDE DEF x
<1>10. s \in Nat /\ TicksPerSecond * s \in Nat /\ x < TicksPerSecond * s + TicksPerSecond
       /\ s <= WindowSeconds
  BY <1>8, <1>9, DivMod, WholeSeconds
<1> HIDE DEF s
<1>11. retry \in Nat /\ retry <= WindowSeconds /\ retry >= s
  BY <1>7, <1>8, <1>10
<1>12. retry * TicksPerSecond \in Nat /\ retry * TicksPerSecond >= TicksPerSecond * s
  BY <1>8, <1>10, <1>11
<1>13. /\ AfterWait(retry) \in Int /\ AfterWait(retry) >= now
       /\ AfterWait(retry) >= head.time + Window
  BY <1>8, <1>9, <1>10, <1>12 DEF AfterWait
<1>14. young \subseteq left \ {head}
  <2> SUFFICES ASSUME NEW a \in calls, a.time > AfterWait(retry) - Window
               PROVE  a \in left /\ a # head
    OBVIOUS
  <2>1. a.time \in Int /\ a.time > now - Window /\ a.time > head.time
    BY <1>8, <1>13
  <2>2. head.time \in Int
    BY <1>8
  <2> QED
    BY <1>1, <2>1, <2>2 DEF Promise!Since
<1> HIDE DEF young
<1>15. /\ IsFiniteSet(left \ {head}) /\ Cardinality(left \ {head}) = Cardinality(left) - 1
  BY <1>2, <1>6, FS_RemoveElement
<1>16. Cardinality(young) <= Cardinality(left \ {head}) /\ IsFiniteSet(young)
  BY <1>14, <1>15, FS_Subset
<1>17. Cardinality(young) < RequestLimit
  <2>1. Cardinality(young) \in Nat
    BY <1>16, FS_CardinalityType
  <2> QED
    BY <1>2, <1>3, <1>4, <1>15, <1>16, <2>1
<1> QED
  BY <1>11, <1>17 DEF left, retry, young

LEMMA RefusedIsFreed ==
  ASSUME DequeInv, CountInv, NEW u \in Users, NEW tokens \in TokenEstimates, Refuse(u, tokens)
  PROVE  RetryAfterFreesTheWindow'
<1>1. PICK i \in 1 .. 6 : /\ FirstDenial(u, tokens) = Denials(u, tokens)[i]
                          /\ Denials(u, tokens)[i].holds
  BY FirstDenialMeans DEF Refuse
<1> DEFINE ur == Unexpired(userRecords[u])
           tr == Unexpired(tenantRecords)
           reason == decision'.reason
           retry == decision'.retry
           counted == {a \in admissions : /\ a.n <= Cardinality(admissions)
                                          /\ reason = "request_quota_exceeded" => a.user = u}
<1>2. /\ reason = FirstDenial(u, tokens).reason /\ retry = FirstDenial(u, tokens).retry
      /\ decision'.user = u /\ decision'.at = now /\ decision'.admitted = Cardinality(admissions)
      /\ admissions' = admissions
  BY DEF Refuse, Decide
<1>3. /\ \A a \in admissions : a.n <= Cardinality(admissions)
      /\ Covers(tenantRecords, admissions)
      /\ Covers(userRecords[u], Promise!OfUser(admissions, u))
      /\ Promise!OfUser(admissions, u) \in SUBSET admissions
  BY DEF DequeInv, Chronological, DequesCover, Promise!OfUser
<1>4. /\ tenantRecords \in SUBSET Record /\ userRecords[u] \in SUBSET Record
      /\ IsFiniteSet(tenantRecords) /\ IsFiniteSet(userRecords[u])
      /\ ~ Exceeds(Cardinality(tenantRecords), RequestLimit)
      /\ ~ Exceeds(Cardinality(userRecords[u]), RequestLimit)
  BY DEF DequeInv, TypeInv, TypeOK, CountInv, Bounded, Within
<1>5. 1 .. 6 = {1, 2, 3, 4, 5, 6}
  OBVIOUS
<1>6. ASSUME reason = "request_quota_exceeded"
      PROVE  /\ retry <= WindowSeconds
             /\ Cardinality({a \in counted : a.time > AfterWait(retry) - Window}) < RequestLimit
  <2>1. retry = RetryAfter(ur) /\ Exceeds(Cardinality(ur) + 1, RequestLimit)
    BY <1>1, <1>2, <1>5, <1>6 DEF Denials
  <2>2. counted = Promise!OfUser(admissions, u)
    BY <1>3, <1>6 DEF Promise!OfUser
  <2> HIDE DEF counted, retry
  <2> QED
    BY <1>3, <1>4, <2>1, <2>2, WaitFreesTheDeque
<1>7. ASSUME reason = "tenant_request_quota_exceeded"
      PROVE  /\ retry <= WindowSeconds
             /\ Cardinality({a \in counted : a.time > AfterWait(retry) - Window}) < RequestLimit
  <2>1. retry = RetryAfter(tr) /\ Exceeds(Cardinality(tr) + 1, RequestLimit)
    BY <1>1, <1>2, <1>5, <1>7 DEF Denials
  <2>2. counted = admissions
    BY <1>3, <1>7
  <2> HIDE DEF counted, retry
  <2> QED
    BY <1>3, <1>4, <2>1, <2>2, WaitFreesTheDeque
<1> QED
  BY <1>2, <1>6, <1>7 DEF RetryAfterFreesTheWindow, AfterWait

\* A caller who was refused for the number of requests and waits Retry-After, plus the
\* part of a second that int() cut off, finds fewer calls in the window than the limit
\* (_retry_after_seconds), at most a window later: if the clock is not set back, for any
\* callers and ids.
THEOREM RetryAfterIsEnough ==
  ASSUME ~ ClockCanStepBack
  PROVE  Spec => []RetryAfterFreesTheWindow
<1> DEFINE RInv == DequeInv /\ CountInv /\ RetryAfterFreesTheWindow
<1>1. Init => RInv
  <2>1. Init => DequeInv
    BY InitIInv DEF IInv, DequeInv
  <2>2. Init => RetryAfterFreesTheWindow
    BY DEF Init, None, RetryAfterFreesTheWindow
  <2> QED
    BY <2>1, <2>2, InitCountInv
<1>2. RInv /\ [Next]_vars => RInv'
  <2> SUFFICES ASSUME RInv, [Next]_vars PROVE RetryAfterFreesTheWindow'
    BY StepDequeInv, StepCountInv
  <2>1. ASSUME NEW u \in Users, NEW tokens \in TokenEstimates, Refuse(u, tokens)
        PROVE  RetryAfterFreesTheWindow'
    BY <2>1, RefusedIsFreed
  <2>2. ASSUME NEW u \in Users, NEW tokens \in TokenEstimates, NEW id \in RequestIds, Admit(u, id, tokens)
        PROVE  RetryAfterFreesTheWindow'
    <3>1. decision'.reason = "quota_allowed"
      BY <2>2 DEF Admit, Decide
    <3> QED
      BY <3>1 DEF RetryAfterFreesTheWindow
  <2>3. ASSUME UNCHANGED <<admissions, decision>> PROVE RetryAfterFreesTheWindow'
    BY <2>3 DEF RetryAfterFreesTheWindow
  <2>4. ASSUME NEW a \in unfinished, Finish(a) \/ FinishAny(a) PROVE RetryAfterFreesTheWindow'
    BY <2>3, <2>4 DEF Finish, FinishAny
  <2>5. CASE Tick \/ StepBack \/ UNCHANGED vars
    BY <2>3, <2>5 DEF Tick, StepBack, vars
  <2> QED
    BY <2>1, <2>2, <2>4, <2>5 DEF Next
<1> QED
  BY <1>1, <1>2, PTL DEF Spec
============================================================================
