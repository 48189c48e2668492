----------------------- MODULE SlidingWindowQuotaProofs -----------------------
(***************************************************************************)
(* The promise of SlidingWindowQuota keeps every window and the calls that *)
(* run within the limits, for all values of the constants.                 *)
(***************************************************************************)
EXTENDS SlidingWindowQuota, FiniteSetTheorems, TLAPS

\* The strengthening: the history is finite and lies in the past.
History == /\ IsFiniteSet(admissions)
           /\ \A a \in admissions : a.time <= now

Inv == TypeOK /\ History /\ SlidingWindow /\ ConcurrencyBounded

\* Less than what is allowed is allowed, and nothing is always allowed.
LEMMA ExceedsMonotone ==
  ASSUME NEW limit \in Limits
  PROVE  /\ ~ Exceeds(0, limit)
         /\ \A more \in Int, less \in Int :
              ~ Exceeds(more, limit) /\ less <= more => ~ Exceeds(less, limit)
<1>1. CASE limit = NoLimit
  BY <1>1 DEF Exceeds
<1>2. CASE limit \in Nat \ {0}
  BY <1>2 DEF Exceeds
<1> QED
  BY <1>1, <1>2 DEF Limits

LEMMA LimitTypes ==
  RequestLimit \in Limits /\ TokenLimit \in Limits /\ ConcurrencyLimit \in Limits
BY PromiseAssumption

----------------------------------------------------------------------------
\* A set of calls has finitely many token units.
LEMMA TokenUnitsFinite ==
  ASSUME NEW calls, IsFiniteSet(calls), calls \subseteq Record
  PROVE  IsFiniteSet(TokenUnits(calls))
<1> DEFINE units == [a \in calls |-> {a.n} \X (1 .. a.tokens)]
           U == {{a.n} \X (1 .. a.tokens) : a \in calls}
<1>1. \A a \in calls : IsFiniteSet({a.n} \X (1 .. a.tokens))
  <2> TAKE a \in calls
  <2>1. a.tokens \in Nat
    BY PromiseAssumption DEF Record
  <2>2. IsFiniteSet(1 .. a.tokens)
    BY <2>1, FS_Interval
  <2>3. IsFiniteSet({a.n})
    BY FS_Singleton
  <2> QED
    BY <2>2, <2>3, FS_Product
<1>2. units \in Surjection(calls, U)
  BY DEF Surjection
<1>3. IsFiniteSet(U)
  BY <1>2, FS_Surjection
<1> QED
  BY <1>1, <1>3, FS_UNION DEF TokenUnits

\* Fewer calls carry no more tokens.
LEMMA TokensMonotone ==
  ASSUME NEW big, IsFiniteSet(big), big \subseteq Record, NEW small \in SUBSET big
  PROVE  /\ InputTokens(small) \in Nat /\ InputTokens(big) \in Nat
         /\ InputTokens(small) <= InputTokens(big)
<1>1. TokenUnits(small) \in SUBSET TokenUnits(big)
  BY DEF TokenUnits
<1>2. IsFiniteSet(TokenUnits(big))
  BY TokenUnitsFinite
<1>3. IsFiniteSet(TokenUnits(small))
  BY <1>1, <1>2, FS_Subset
<1> QED
  BY <1>1, <1>2, <1>3, FS_Subset, FS_CardinalityType DEF InputTokens

\* One call adds at most the tokens it carries.
LEMMA TokensOfOneMore ==
  ASSUME NEW calls, IsFiniteSet(calls), calls \subseteq Record, NEW c \in Record
  PROVE  /\ InputTokens(calls \union {c}) \in Nat
         /\ InputTokens(calls \union {c}) <= InputTokens(calls) + c.tokens
<1> DEFINE own == {c.n} \X (1 .. c.tokens)
<1>1. c.tokens \in Nat
  BY PromiseAssumption DEF Record
<1>2. IsFiniteSet(own) /\ Cardinality(own) = c.tokens
  <2>1. IsFiniteSet(1 .. c.tokens) /\ Cardinality(1 .. c.tokens) = c.tokens
    BY <1>1, FS_Interval
  <2>2. IsFiniteSet({c.n}) /\ Cardinality({c.n}) = 1
    BY FS_Singleton
  <2>3. IsFiniteSet(own) /\ Cardinality(own) = Cardinality({c.n}) * Cardinality(1 .. c.tokens)
    BY <2>1, <2>2, FS_Product
  <2> QED
    BY <1>1, <2>1, <2>2, <2>3
<1>3. TokenUnits(calls \union {c}) = TokenUnits(calls) \union own
  BY DEF TokenUnits
<1>4. IsFiniteSet(TokenUnits(calls))
  BY TokenUnitsFinite
<1>5. /\ IsFiniteSet(TokenUnits(calls) \union own)
      /\ Cardinality(TokenUnits(calls) \union own)
           = Cardinality(TokenUnits(calls)) + c.tokens - Cardinality(TokenUnits(calls) \intersect own)
  BY <1>2, <1>4, FS_Union
<1>6. Cardinality(TokenUnits(calls) \intersect own) \in Nat
  BY <1>2, FS_Subset, FS_CardinalityType
<1>7. /\ Cardinality(TokenUnits(calls)) \in Nat
      /\ Cardinality(TokenUnits(calls) \union own) \in Nat
  BY <1>4, <1>5, FS_CardinalityType
<1> HIDE DEF own
<1>8. /\ InputTokens(calls \union {c}) = Cardinality(TokenUnits(calls) \union own)
      /\ InputTokens(calls) = Cardinality(TokenUnits(calls))
  BY <1>3 DEF InputTokens
<1> DEFINE all == Cardinality(TokenUnits(calls) \union own)
           old == Cardinality(TokenUnits(calls))
           both == Cardinality(TokenUnits(calls) \intersect own)
<1>9. all = old + c.tokens - both /\ all \in Nat /\ old \in Nat /\ both \in Nat
  BY <1>5, <1>6, <1>7
<1> HIDE DEF all, old, both
<1>10. all <= old + c.tokens
  BY <1>1, <1>9
<1> QED
  BY <1>8, <1>9, <1>10 DEF all, old

\* A part of a set of calls that is within the limits is within the limits.
LEMMA WithinMonotone ==
  ASSUME NEW big, IsFiniteSet(big), big \subseteq Record, Within(big), NEW small \in SUBSET big
  PROVE  Within(small)
<1>1. IsFiniteSet(small) /\ Cardinality(small) <= Cardinality(big)
  BY FS_Subset
<1>2. Cardinality(small) \in Nat /\ Cardinality(big) \in Nat
  BY <1>1, FS_CardinalityType
<1> QED
  BY <1>1, <1>2, TokensMonotone, ExceedsMonotone, LimitTypes DEF Within

\* A call for which there is room keeps the calls it joins within the limits.
LEMMA RoomIsEnough ==
  ASSUME NEW recent, IsFiniteSet(recent), recent \subseteq Record, NEW c \in Record,
         RoomIn(recent, c.tokens)
  PROVE  Within(recent \union {c})
<1>1. /\ IsFiniteSet(recent \union {c})
      /\ Cardinality(recent \union {c}) \in {Cardinality(recent), Cardinality(recent) + 1}
  BY FS_AddElement
<1>3. Cardinality(recent) \in Nat /\ Cardinality(recent \union {c}) \in Nat
  BY <1>1, FS_CardinalityType
<1>2. InputTokens(recent) \in Nat /\ c.tokens \in Nat
  BY TokensMonotone, PromiseAssumption DEF Record
<1> QED
  BY <1>1, <1>2, <1>3, TokensOfOneMore, ExceedsMonotone, LimitTypes DEF Within, RoomIn

----------------------------------------------------------------------------
LEMMA InitInv == Init => Inv
<1> SUFFICES ASSUME Init PROVE Inv
  OBVIOUS
<1> USE DEF Init
<1>1. IsFiniteSet({}) /\ Cardinality({}) = 0
  BY FS_EmptySet
<1>2. TypeOK /\ History
  BY <1>1, PromiseAssumption DEF TypeOK, History, Verdict, Time
<1>3. Within({})
  <2>1. TokenUnits({}) = {}
    BY DEF TokenUnits
  <2> QED
    BY <1>1, <2>1, ExceedsMonotone, LimitTypes DEF Within, InputTokens
<1>4. SlidingWindow
  <2>1. \A t \in Time : InWindow(admissions, t) = {}
    BY DEF InWindow
  <2>2. \A u \in Users, t \in Time : InWindow(OfUser(admissions, u), t) = {}
    BY DEF InWindow, OfUser
  <2> QED
    BY <1>3, <2>1, <2>2 DEF SlidingWindow
<1>5. ConcurrencyBounded
  <2>1. Since(unfinished, now - Ttl) = {}
    BY DEF Since
  <2>2. \A u \in Users : Since(OfUser(unfinished, u), now - Ttl) = {}
    BY DEF Since, OfUser
  <2> QED
    BY <1>1, <2>1, <2>2, ExceedsMonotone, LimitTypes DEF ConcurrencyBounded
<1> QED
  BY <1>2, <1>4, <1>5 DEF Inv

----------------------------------------------------------------------------
\* When calls only leave the set of young running calls, the bound stays.
LEMMA FewerCalls ==
  ASSUME Inv, unfinished' \subseteq unfinished, now' \in Time, now <= now'
  PROVE  ConcurrencyBounded'
<1> USE DEF Inv, TypeOK, Time
<1>1. IsFiniteSet(unfinished)
  BY FS_Subset DEF History
<1>2. \A calls, fewer : IsFiniteSet(calls) /\ fewer \subseteq calls /\ calls \subseteq Record =>
          /\ Since(fewer, now' - Ttl) \in SUBSET Since(calls, now - Ttl)
          /\ Since(calls, now - Ttl) \in SUBSET calls
  BY PromiseAssumption DEF Since, Record
<1>3. \A calls, fewer : IsFiniteSet(calls) /\ fewer \subseteq calls /\ calls \subseteq Record =>
          /\ Cardinality(Since(fewer, now' - Ttl)) <= Cardinality(Since(calls, now - Ttl))
          /\ Cardinality(Since(fewer, now' - Ttl)) \in Nat
          /\ Cardinality(Since(calls, now - Ttl)) \in Nat
  BY <1>2, FS_Subset, FS_CardinalityType
<1>4. /\ OfUser(unfinished, now) \subseteq unfinished
      /\ \A u \in Users : /\ OfUser(unfinished, u) \subseteq unfinished
                          /\ OfUser(unfinished', u) \subseteq OfUser(unfinished, u)
                          /\ IsFiniteSet(OfUser(unfinished, u))
  BY <1>1, FS_Subset DEF OfUser
<1> QED
  BY <1>1, <1>3, <1>4, ExceedsMonotone, LimitTypes DEF ConcurrencyBounded

\* Admitting a call keeps both bounds: the checks count every call of the window
\* that ends now, and windows that end earlier do not gain one.
LEMMA AdmitInv ==
  ASSUME Inv, NEW u \in Users, NEW id \in RequestIds, NEW tokens \in TokenEstimates,
         Admit(u, id, tokens)
  PROVE  Inv'
<1> DEFINE call == [n |-> Cardinality(admissions) + 1, user |-> u, id |-> id,
                    time |-> now, tokens |-> tokens]
<1> USE DEF Inv
<1>1. /\ HasRoom(u, tokens) /\ Cardinality(admissions) < MaxAdmissions
      /\ admissions' = admissions \union {call}
      /\ unfinished' = unfinished \union {call}
      /\ verdict' = [user |-> u, tokens |-> tokens, admitted |-> TRUE]
      /\ now' = now
  BY DEF Admit, Answer
<1>2. IsFiniteSet(admissions) /\ Cardinality(admissions) \in Nat
  BY FS_CardinalityType DEF History
<1>3. call \in Record
  BY <1>1, <1>2, PromiseAssumption DEF Record, TypeOK, Time
<1>4. call.time = now /\ call.user = u /\ call.tokens = tokens
  OBVIOUS
<1> HIDE DEF call
<1>5. TypeOK'
  BY <1>1, <1>3 DEF TypeOK, Verdict
<1>6. History'
  <2>1. IsFiniteSet(admissions')
    BY <1>1, <1>2, FS_AddElement
  <2>2. \A a \in admissions' : a.time <= now'
    BY <1>1, <1>4 DEF History, TypeOK, Time
  <2> QED
    BY <2>1, <2>2 DEF History
<1>7. \A calls \in SUBSET admissions, t \in Time :
         /\ RoomIn(Since(calls, now - Window), tokens)
         /\ Within(InWindow(calls, t))
         => Within(InWindow(calls \union {call}, t))
  <2> TAKE calls \in SUBSET admissions, t \in Time
  <2> HAVE /\ RoomIn(Since(calls, now - Window), tokens)
           /\ Within(InWindow(calls, t))
  <2>1. CASE t < now
    <3>1. InWindow(calls \union {call}, t) = InWindow(calls, t)
      BY <2>1, <1>4 DEF InWindow, TypeOK, Time
    <3> QED
      BY <3>1
  <2>2. CASE t >= now
    <3> DEFINE recent == Since(calls, now - Window)
    <3>1. /\ recent \in SUBSET admissions
          /\ recent \subseteq Record
          /\ recent \union {call} \subseteq Record
      BY <1>3 DEF Since, TypeOK
    <3>2. IsFiniteSet(recent)
      BY <3>1, <1>2, FS_Subset
    <3>3. IsFiniteSet(recent \union {call})
      BY <3>2, FS_AddElement
    <3>4. Within(recent \union {call})
      BY <1>3, <1>4, <3>1, <3>2, RoomIsEnough
    <3>5. InWindow(calls \union {call}, t) \in SUBSET (recent \union {call})
      <4> SUFFICES ASSUME NEW a \in calls, t - Window < a.time
                   PROVE  a.time > now - Window
        BY DEF InWindow, Since
      <4>1. a.time \in Nat /\ t \in Nat /\ now \in Nat /\ Window \in Nat
        BY PromiseAssumption DEF TypeOK, Record, Time
      <4> QED
        BY <2>2, <4>1
    <3> HIDE DEF recent
    <3> QED
      BY <3>1, <3>3, <3>4, <3>5, WithinMonotone
  <2> QED
    BY <2>1, <2>2 DEF TypeOK, Time
<1>8. SlidingWindow'
  <2> SUFFICES ASSUME NEW t \in Time
               PROVE  /\ Within(InWindow(admissions', t))
                      /\ \A v \in Users : Within(InWindow(OfUser(admissions', v), t))
    BY DEF SlidingWindow, Time
  <2>1. Within(InWindow(admissions', t))
    BY <1>1, <1>7 DEF SlidingWindow, HasRoom
  <2>2. ASSUME NEW v \in Users PROVE Within(InWindow(OfUser(admissions', v), t))
    <3>1. CASE v = u
      <4>1. OfUser(admissions', v) = OfUser(admissions, v) \union {call}
        BY <1>1, <1>4, <3>1 DEF OfUser
      <4>2. OfUser(admissions, v) \in SUBSET admissions
        BY DEF OfUser
      <4>3. RoomIn(Since(OfUser(admissions, v), now - Window), tokens)
        BY <1>1, <3>1 DEF HasRoom
      <4> QED
        BY <1>7, <4>1, <4>2, <4>3 DEF SlidingWindow
    <3>2. CASE v # u
      <4>1. OfUser(admissions', v) = OfUser(admissions, v)
        BY <1>1, <1>4, <3>2 DEF OfUser
      <4> QED
        BY <4>1 DEF SlidingWindow
    <3> QED
      BY <3>1, <3>2
  <2> QED
    BY <2>1, <2>2
<1>9. ConcurrencyBounded'
  <2>1. \A calls \in SUBSET unfinished :
            SlotAmong(Since(calls, now - Ttl)) =>
              ~ Exceeds(Cardinality(Since(calls \union {call}, now - Ttl)), ConcurrencyLimit)
    <3> TAKE calls \in SUBSET unfinished
    <3> DEFINE young == Since(calls, now - Ttl)
    <3>1. young \in SUBSET admissions
      BY DEF Since, TypeOK
    <3>2. IsFiniteSet(young) /\ Cardinality(young) \in Nat
      BY <3>1, <1>2, FS_Subset, FS_CardinalityType
    <3>3. Since(calls \union {call}, now - Ttl) = young \union {call}
      BY <1>4, PromiseAssumption DEF Since, TypeOK, Time
    <3>4. Cardinality(young \union {call}) \in {Cardinality(young), Cardinality(young) + 1}
      BY <3>2, FS_AddElement
    <3> HIDE DEF young
    <3>5. ~ Exceeds(Cardinality(young) + 1, ConcurrencyLimit) =>
             ~ Exceeds(Cardinality(young \union {call}), ConcurrencyLimit)
      BY <3>2, <3>4, ExceedsMonotone, LimitTypes
    <3> QED
      BY <3>3, <3>5 DEF young, SlotAmong
  <2>2. ~ Exceeds(Cardinality(Since(unfinished', now' - Ttl)), ConcurrencyLimit)
    BY <1>1, <2>1 DEF HasRoom
  <2>3. ASSUME NEW v \in Users
        PROVE  ~ Exceeds(Cardinality(Since(OfUser(unfinished', v), now' - Ttl)), ConcurrencyLimit)
    <3>1. CASE v = u
      <4>1. OfUser(unfinished', v) = OfUser(unfinished, v) \union {call}
        BY <1>1, <1>4, <3>1 DEF OfUser
      <4>2. OfUser(unfinished, v) \in SUBSET unfinished
        BY DEF OfUser
      <4> QED
        BY <1>1, <2>1, <3>1, <4>1, <4>2 DEF HasRoom
    <3>2. CASE v # u
      <4>1. OfUser(unfinished', v) = OfUser(unfinished, v)
        BY <1>1, <1>4, <3>2 DEF OfUser
      <4> QED
        BY <1>1, <4>1 DEF ConcurrencyBounded
    <3> QED
      BY <3>1, <3>2
  <2> QED
    BY <2>2, <2>3 DEF ConcurrencyBounded
<1> QED
  BY <1>5, <1>6, <1>8, <1>9

LEMMA StepInv == Inv /\ [Next]_vars => Inv'
<1> SUFFICES ASSUME Inv, [Next]_vars PROVE Inv'
  OBVIOUS
<1>1. ASSUME now' \in Time, now <= now', unfinished' \subseteq unfinished,
             admissions' = admissions, verdict' \in Verdict
      PROVE  Inv'
  <2>1. TypeOK'
    BY <1>1 DEF Inv, TypeOK
  <2>2. History'
    BY <1>1, PromiseAssumption DEF Inv, TypeOK, History, Time, Record
  <2>3. SlidingWindow'
    BY <1>1 DEF Inv, SlidingWindow, Time
  <2>4. ConcurrencyBounded'
    BY <1>1, FewerCalls
  <2> QED
    BY <2>1, <2>2, <2>3, <2>4 DEF Inv
<1>2. CASE Tick
  BY <1>1, <1>2, PromiseAssumption DEF Tick, Inv, TypeOK, Time
<1>3. ASSUME NEW a \in unfinished, Finish(a) PROVE Inv'
  BY <1>1, <1>3 DEF Finish, Inv, TypeOK, Time
<1>4. ASSUME NEW u \in Users, NEW tokens \in TokenEstimates, Refuse(u, tokens) PROVE Inv'
  BY <1>1, <1>4 DEF Refuse, Answer, Verdict, Inv, TypeOK, Time
<1>5. ASSUME NEW u \in Users, NEW id \in RequestIds, NEW tokens \in TokenEstimates,
             Admit(u, id, tokens)
      PROVE  Inv'
  BY <1>5, AdmitInv
<1>6. CASE UNCHANGED vars
  BY <1>1, <1>6 DEF vars, Inv, TypeOK, Time
<1> QED
  BY <1>2, <1>3, <1>4, <1>5, <1>6 DEF Next

LEMMA Invariance == Spec => []Inv
BY InitInv, StepInv, PTL DEF Spec

\* The state is always one of TypeOK: check_and_record and finish_request keep
\* the records and the answers they return well formed.
THEOREM PromiseTypeCorrect == Spec => []TypeOK
BY Invariance, PTL DEF Inv

\* No window of the configured length, wherever it starts, holds more calls or
\* input tokens than the limits, for a user or the tenant.
THEOREM PromiseSlidingWindow == Spec => []SlidingWindow
BY Invariance, PTL DEF Inv

\* No more calls younger than the TTL run than the concurrency limit, for a user
\* or the tenant.
THEOREM PromiseConcurrencyBounded == Spec => []ConcurrencyBounded
BY Invariance, PTL DEF Inv
============================================================================
