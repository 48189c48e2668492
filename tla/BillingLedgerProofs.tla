------------------------- MODULE BillingLedgerProofs -------------------------
(***************************************************************************)
(* Proofs about BillingLedger, for all deployments, request ids and        *)
(* partitions: no accepted record is lost but to a full queue or a stale   *)
(* claim, no record is stored twice under the table, and the table and the *)
(* set of seen ids say the truth.                                          *)
(***************************************************************************)
EXTENDS BillingLedger, FiniteSetTheorems, SequenceTheorems, WellFoundedInduction, TLAPS

----------------------------------------------------------------------------
\* The least of some positive numbers is one of them.
LEMMA MinIn ==
  ASSUME NEW n \in Nat, NEW S \in SUBSET (1 .. n), S # {}
  PROVE  Min(S) \in S
<1>1. S \subseteq Nat
  OBVIOUS
<1>2. IsWellFoundedOn(OpToRel(<, Nat), Nat)
  BY NatLessThanWellFounded
<1>3. PICK x \in S : \A y \in S : ~ (<<y, x>> \in OpToRel(<, Nat))
  BY <1>1, <1>2, WFMin
<1>4. \A y \in S : ~ (y < x)
  BY <1>1, <1>3 DEF OpToRel
<1>5. \A y \in S : x <= y
  BY <1>1, <1>4
<1> QED
  BY <1>5 DEF Min

\* Taking an element out of a sequence.
LEMMA RemoveAtType ==
  ASSUME NEW S, NEW s \in Seq(S), NEW k \in 1 .. Len(s)
  PROVE  /\ RemoveAt(s, k) \in Seq(S) /\ Len(RemoveAt(s, k)) = Len(s) - 1
         /\ \A i \in 1 .. Len(s) - 1 : RemoveAt(s, k)[i] = IF i < k THEN s[i] ELSE s[i + 1]
<1>1. /\ SubSeq(s, 1, k - 1) \in Seq(S) /\ Len(SubSeq(s, 1, k - 1)) = k - 1
      /\ \A i \in 1 .. k - 1 : SubSeq(s, 1, k - 1)[i] = s[i]
  OBVIOUS
<1>2. /\ SubSeq(s, k + 1, Len(s)) \in Seq(S) /\ Len(SubSeq(s, k + 1, Len(s))) = Len(s) - k
      /\ \A i \in 1 .. Len(s) - k : SubSeq(s, k + 1, Len(s))[i] = s[i + k]
  OBVIOUS
<1> DEFINE a == SubSeq(s, 1, k - 1)
           b == SubSeq(s, k + 1, Len(s))
<1> HIDE DEF a, b
<1>3. /\ a \in Seq(S) /\ Len(a) = k - 1 /\ \A i \in 1 .. k - 1 : a[i] = s[i]
      /\ b \in Seq(S) /\ Len(b) = Len(s) - k /\ \A i \in 1 .. Len(s) - k : b[i] = s[i + k]
  BY <1>1, <1>2 DEF a, b
<1>4. /\ a \o b \in Seq(S) /\ Len(a \o b) = Len(a) + Len(b)
      /\ \A i \in 1 .. Len(a) + Len(b) : (a \o b)[i] = IF i <= Len(a) THEN a[i] ELSE b[i - Len(a)]
  BY <1>3, ConcatProperties
<1>5. Len(s) \in Nat /\ Len(a) + Len(b) = Len(s) - 1
  BY <1>3
<1>6. \A i \in 1 .. Len(s) - 1 : (a \o b)[i] = IF i < k THEN s[i] ELSE s[i + 1]
  <2> SUFFICES ASSUME NEW i \in 1 .. Len(s) - 1
               PROVE  (a \o b)[i] = IF i < k THEN s[i] ELSE s[i + 1]
    OBVIOUS
  <2>1. (a \o b)[i] = IF i <= k - 1 THEN a[i] ELSE b[i - (k - 1)]
    BY <1>3, <1>4, <1>5
  <2>2. CASE i < k
    <3>1. i \in 1 .. k - 1 /\ i <= k - 1
      BY <2>2
    <3> QED
      BY <1>3, <2>1, <2>2, <3>1
  <2>3. CASE ~ (i < k)
    <3>1. i - (k - 1) \in 1 .. Len(s) - k /\ (i - (k - 1)) + k = i + 1 /\ ~ (i <= k - 1)
      BY <1>5, <2>3
    <3>2. b[i - (k - 1)] = s[i + 1]
      BY <1>3, <3>1
    <3> QED
      BY <2>1, <2>3, <3>1, <3>2
  <2> QED
    BY <2>2, <2>3
<1>7. RemoveAt(s, k) = a \o b
  BY DEF RemoveAt, a, b
<1> QED
  BY <1>4, <1>5, <1>6, <1>7

\* The first occurrence is removed.
LEMMA RemoveFirstPlace ==
  ASSUME NEW S, NEW s \in Seq(S), NEW x, \E i \in 1 .. Len(s) : s[i] = x
  PROVE  \E k \in 1 .. Len(s) : s[k] = x /\ RemoveFirst(s, x) = RemoveAt(s, k)
<1> DEFINE I == {i \in 1 .. Len(s) : s[i] = x}
<1>1. I # {} /\ I \in SUBSET (1 .. Len(s)) /\ Len(s) \in Nat
  OBVIOUS
<1>2. RemoveFirst(s, x) = RemoveAt(s, Min(I))
  BY <1>1 DEF SelectInSeq, RemoveFirst
<1>3. Min(I) \in I
  BY <1>1, MinIn
<1> QED
  BY <1>2, <1>3

\* What is left when an element is removed.
LEMMA RemoveFirstType ==
  ASSUME NEW S, NEW s \in Seq(S), NEW x
  PROVE  /\ RemoveFirst(s, x) \in Seq(S)
         /\ Len(RemoveFirst(s, x)) <= Len(s)
         /\ x \in ToSet(s) => Len(RemoveFirst(s, x)) = Len(s) - 1
         /\ ToSet(RemoveFirst(s, x)) \subseteq ToSet(s)
<1>1. CASE \E i \in 1 .. Len(s) : s[i] = x
  <2>2. PICK k \in 1 .. Len(s) : RemoveFirst(s, x) = RemoveAt(s, k)
    BY <1>1, RemoveFirstPlace
  <2>3. /\ RemoveAt(s, k) \in Seq(S) /\ Len(RemoveAt(s, k)) = Len(s) - 1
        /\ \A i \in 1 .. Len(s) - 1 : RemoveAt(s, k)[i] = IF i < k THEN s[i] ELSE s[i + 1]
    BY RemoveAtType
  <2> QED
    BY <2>2, <2>3 DEF ToSet
<1>2. CASE ~ \E i \in 1 .. Len(s) : s[i] = x
  <2>1. x \notin ToSet(s)
    BY <1>2 DEF ToSet
  <2> QED
    BY <1>2, <2>1 DEF RemoveFirst
<1> QED
  BY <1>1, <1>2

\* An element that is only at the end is gone once it is removed.
LEMMA RemoveLast ==
  ASSUME NEW S, NEW s \in Seq(S), NEW x \in S, x \notin ToSet(s)
  PROVE  ToSet(RemoveFirst(Append(s, x), x)) \subseteq ToSet(s)
<1> DEFINE t == Append(s, x)
<1>1. /\ t \in Seq(S) /\ Len(t) = Len(s) + 1 /\ t[Len(s) + 1] = x
      /\ \A i \in 1 .. Len(s) : t[i] = s[i] /\ t[i] # x
  BY DEF ToSet
<1> HIDE DEF t
<1>2. \E i \in 1 .. Len(t) : t[i] = x
  BY <1>1
<1>3. PICK k \in 1 .. Len(t) : t[k] = x /\ RemoveFirst(t, x) = RemoveAt(t, k)
  BY <1>1, <1>2, RemoveFirstPlace
<1>4. k = Len(s) + 1
  BY <1>1, <1>3
<1>5. /\ RemoveAt(t, k) \in Seq(S) /\ Len(RemoveAt(t, k)) = Len(s)
      /\ \A i \in 1 .. Len(s) : RemoveAt(t, k)[i] = s[i]
  <2>1. /\ RemoveAt(t, k) \in Seq(S) /\ Len(RemoveAt(t, k)) = Len(t) - 1
        /\ \A i \in 1 .. Len(t) - 1 : RemoveAt(t, k)[i] = IF i < k THEN t[i] ELSE t[i + 1]
    BY <1>1, <1>3, RemoveAtType
  <2> QED
    BY <1>1, <1>4, <2>1
<1> QED
  BY <1>3, <1>5 DEF ToSet, t

----------------------------------------------------------------------------
\* Stored, or claimed by an attempt to store it.
Stored(id) == id \in Written \union ClaimedUnwritten

\* What a flusher's label says of its batch and its plan: it holds entries only
\* while it has something to do with them, it plans only in an S3 flush, and what
\* it has planned no longer is stored.
FlushInv(f) ==
  /\ pc[f] \in {"loop", "waiting", "done", "open", "joining", "closed"} => batch[f] = <<>>
  /\ IF pc[f] \in {"claim", "put", "mark"}
     THEN ledger.aws
     ELSE todo[f] = {} /\ group[f] = {} /\ claimed[f] = {}
  /\ pc[f] = "write" => ~ ledger.aws
  /\ pc[f] \in {"put", "mark"} => group[f] = {}
  /\ pc[f] \in {"claim", "put", "mark"} =>
       \A i \in DOMAIN batch[f] \ (todo[f] \union group[f] \union claimed[f]) : Stored(batch[f][i].id)
  /\ pc[f] = "mark" => \A i \in claimed[f] : batch[f][i].id \in Written

\* The places a flusher has claimed and not stored yet.
Pending(f) == IF pc[f] \in {"claim", "put"} THEN claimed[f] ELSE {}

\* A claim is held by one place of one flusher, and says that nothing is stored.
OnceInv ==
  ClaimsInTable =>
    /\ \A id \in RequestIds : /\ written[id] <= 1
                              /\ table[id] = "absent" => written[id] = 0
    /\ \A f \in Flushers : \A i \in Pending(f) :
         table[batch[f][i].id] = "writing" /\ written[batch[f][i].id] = 0
    /\ \A f, g \in Flushers : \A i \in Pending(f), j \in Pending(g) :
         batch[f][i].id = batch[g][j].id => f = g /\ i = j

Inv == /\ TypeOK
       /\ \A f \in Flushers : FlushInv(f)
       /\ Kept
       /\ OnceInv
       /\ CompleteMeansWritten
       /\ DuplicateMeansAccepted

----------------------------------------------------------------------------
\* The request ids of a sequence of entries.
LEMMA IdsOf ==
  ASSUME NEW s \in Seq(Entry)
  PROVE  /\ Ids(<<>>) = {}
         /\ \A e \in Entry : Ids(Append(s, e)) = Ids(s) \union {e.id}
         /\ s # <<>> => Ids(s) = {Head(s).id} \union Ids(Tail(s))
         /\ \A i \in DOMAIN s : s[i].id \in RequestIds /\ s[i].id \in Ids(s)
         /\ \A id \in Ids(s) : id \in RequestIds /\ \E i \in DOMAIN s : s[i].id = id
<1>1. \A i \in DOMAIN s : s[i].id \in RequestIds
  <2>1. \A i \in DOMAIN s : s[i] \in Entry
    OBVIOUS
  <2> QED
    BY <2>1 DEF Entry
<1>2. \A e \in Entry : Ids(Append(s, e)) = Ids(s) \union {e.id}
  <2> TAKE e \in Entry
  <2>1. /\ DOMAIN Append(s, e) = DOMAIN s \union {Len(s) + 1}
        /\ \A i \in DOMAIN s : Append(s, e)[i] = s[i]
        /\ Append(s, e)[Len(s) + 1] = e
    OBVIOUS
  <2> QED
    BY <2>1 DEF Ids
<1>3. s # <<>> => Ids(s) = {Head(s).id} \union Ids(Tail(s))
  <2> SUFFICES ASSUME s # <<>> PROVE Ids(s) = {Head(s).id} \union Ids(Tail(s))
    OBVIOUS
  <2>1. /\ Head(s) = s[1] /\ 1 \in DOMAIN s /\ DOMAIN Tail(s) = 1 .. Len(s) - 1
        /\ \A i \in 1 .. Len(s) - 1 : Tail(s)[i] = s[i + 1] /\ i + 1 \in DOMAIN s
        /\ \A i \in DOMAIN s : i = 1 \/ (i - 1 \in 1 .. Len(s) - 1 /\ (i - 1) + 1 = i)
    OBVIOUS
  <2>2. \A id \in Ids(s) : id = s[1].id \/ \E i \in DOMAIN Tail(s) : Tail(s)[i].id = id
    BY <2>1 DEF Ids
  <2> QED
    BY <2>1, <2>2 DEF Ids
<1>4. Ids(<<>>) = {}
  <2>1. DOMAIN <<>> = {}
    OBVIOUS
  <2> QED
    BY <2>1 DEF Ids
<1>5. /\ \A i \in DOMAIN s : s[i].id \in Ids(s)
      /\ \A id \in Ids(s) : \E i \in DOMAIN s : s[i].id = id
  BY DEF Ids
<1> QED
  BY <1>1, <1>2, <1>3, <1>4, <1>5

\* What a write of some places of a batch adds: as many lines as places, none or
\* one when no two of them have one id.
LEMMA WriteAdds ==
  ASSUME TypeOK, NEW f \in Flushers, NEW places \in SUBSET DOMAIN batch[f], Write(f, places)
  PROVE  /\ written' \in [RequestIds -> Nat]
         /\ \A id \in RequestIds : written'[id] >= written[id]
         /\ \A i \in places : written'[batch[f][i].id] > 0
         /\ \A id \in RequestIds :
              (\A i \in places : batch[f][i].id # id) => written'[id] = written[id]
         /\ (\A i, j \in places : batch[f][i].id = batch[f][j].id => i = j) =>
              \A id \in RequestIds : written'[id] <= written[id] + 1
<1> DEFINE at(id) == {i \in places : batch[f][i].id = id}
<1>1. /\ IsFiniteSet(places) /\ batch[f] \in Seq(Entry)
      /\ \A i \in places : batch[f][i].id \in RequestIds
  <2>1. batch[f] \in Seq(Entry)
    BY DEF TypeOK
  <2>2. IsFiniteSet(1 .. Len(batch[f])) /\ DOMAIN batch[f] = 1 .. Len(batch[f])
    BY <2>1, FS_Interval
  <2> QED
    BY <2>1, <2>2, FS_Subset, IdsOf
<1>2. \A id : IsFiniteSet(at(id)) /\ Cardinality(at(id)) \in Nat
  BY <1>1, FS_Subset, FS_CardinalityType
<1>3. \A id \in RequestIds : written'[id] = written[id] + Cardinality(at(id)) /\ written[id] \in Nat
  BY DEF Write, TypeOK
<1>4. \A id : at(id) = {} => Cardinality(at(id)) = 0
  BY FS_EmptySet
<1>5. \A id : at(id) # {} => Cardinality(at(id)) > 0
  BY <1>2, FS_EmptySet
<1>6. ASSUME \A i, j \in places : batch[f][i].id = batch[f][j].id => i = j
      PROVE  \A id : Cardinality(at(id)) <= 1
  <2> TAKE id
  <2>1. at(id) # {} => \E i : at(id) = {i}
    BY <1>6
  <2> HIDE DEF at
  <2>2. CASE at(id) = {}
    BY <1>4, <2>2
  <2>3. CASE at(id) # {}
    <3>1. PICK i : at(id) = {i}
      BY <2>1, <2>3
    <3>2. Cardinality({i}) = 1
      BY FS_Singleton
    <3> QED
      BY <3>1, <3>2
  <2> QED
    BY <2>2, <2>3
<1>7. written' \in [RequestIds -> Nat]
  <2> HIDE DEF at
  <2>1. \A id \in RequestIds : written[id] + Cardinality(at(id)) \in Nat
    BY <1>2, <1>3
  <2>2. written' = [id \in RequestIds |-> written[id] + Cardinality(at(id))]
    BY DEF Write, at
  <2> QED
    BY <2>1, <2>2
<1>8. \A i \in places : at(batch[f][i].id) # {}
  OBVIOUS
<1>9. \A id : (\A i \in places : batch[f][i].id # id) => at(id) = {}
  OBVIOUS
<1> HIDE DEF at
<1> QED
  BY <1>1, <1>2, <1>3, <1>4, <1>5, <1>6, <1>7, <1>8, <1>9

\* A step of one flusher that forgets nothing that is stored, and whose own part of
\* the invariant holds afterwards.
LEMMA FlusherMoves ==
  ASSUME Inv, NEW f \in Flushers, TypeOK', FlushInv(f)',
         \A g \in Flushers \ {f} : /\ pc'[g] = pc[g] /\ batch'[g] = batch[g]
                                   /\ todo'[g] = todo[g] /\ group'[g] = group[g]
                                   /\ claimed'[g] = claimed[g],
         UNCHANGED <<ledger, accepted, seen>>,
         \A id \in RequestIds : (Stored(id) => Stored(id)') /\ written'[id] >= written[id],
         Kept', OnceInv', CompleteMeansWritten'
  PROVE  Inv'
<1>1. ASSUME NEW g \in Flushers \ {f} PROVE FlushInv(g)'
  <2>1. batch[g] \in Seq(Entry) /\ \A i \in DOMAIN batch[g] : batch[g][i].id \in RequestIds
    BY IdsOf DEF Inv, TypeOK
  <2>2. claimed[g] \subseteq DOMAIN batch[g]
    BY DEF Inv, TypeOK
  <2>3. FlushInv(g)
    BY DEF Inv
  <2>4. \A id \in Written : id \in Written'
    BY DEF Written, Inv, TypeOK
  <2> QED
    BY <1>1, <2>1, <2>2, <2>3, <2>4 DEF FlushInv
<1>2. DuplicateMeansAccepted'
  BY DEF Inv, DuplicateMeansAccepted
<1> QED
  BY <1>1, <1>2 DEF Inv

\* A step of one flusher that leaves what is stored alone, drops nothing it does not
\* record and claims nothing.
LEMMA FlusherMovesLocally ==
  ASSUME Inv, NEW f \in Flushers, TypeOK', FlushInv(f)',
         \A g \in Flushers \ {f} : /\ pc'[g] = pc[g] /\ batch'[g] = batch[g]
                                   /\ todo'[g] = todo[g] /\ group'[g] = group[g]
                                   /\ claimed'[g] = claimed[g],
         UNCHANGED <<ledger, accepted, seen, table, written>>,
         dropped \subseteq dropped',
         Ids(queue) \union Ids(batch[f]) \subseteq
           Ids(queue') \union Ids(batch'[f]) \union dropped' \union {id \in RequestIds : Stored(id)},
         \A i \in Pending(f)' : i \in Pending(f) /\ batch'[f][i] = batch[f][i]
  PROVE  Inv'
<1>1. Written' = Written /\ ClaimedUnwritten' = ClaimedUnwritten
  BY DEF Written, ClaimedUnwritten
<1>2. \A id : Stored(id)' <=> Stored(id)
  BY <1>1 DEF Stored
<1>3. \A id \in RequestIds : written'[id] >= written[id]
  BY DEF Inv, TypeOK
<1>4. Kept'
  <2>1. Held \subseteq Held' \union dropped' \union Written \union ClaimedUnwritten
    BY DEF Held, Stored
  <2> QED
    BY <1>1, <2>1 DEF Inv, Kept
<1>5. \A g \in Flushers : \A i \in Pending(g)' : i \in Pending(g) /\ batch'[g][i] = batch[g][i]
  BY DEF Pending
<1>6. OnceInv'
  BY <1>5 DEF Inv, OnceInv, ClaimsInTable
<1>7. CompleteMeansWritten'
  BY <1>1 DEF Inv, CompleteMeansWritten
<1> QED
  BY <1>2, <1>3, <1>4, <1>6, <1>7, FlusherMoves

----------------------------------------------------------------------------
\* The steps of a flusher between the calls of the file, the bucket and the table.
LEMMA WaitingKeepsInv ==
  ASSUME Inv, WorkerLoop \/ WorkerTimeout \/ Close \/ \E timedOut \in BOOLEAN : EndJoin(timedOut)
  PROVE  Inv'
<1>1. PICK f \in Flushers :
        /\ pc[f] \in {"loop", "waiting", "open", "joining"} /\ Local
        /\ \E label \in {"loop", "waiting", "done", "joining", "filling"} : pc' = [pc EXCEPT ![f] = label]
        /\ UNCHANGED <<queue, seen, batch, plan>> /\ stop' \in BOOLEAN
  BY DEF Inv, TypeOK, WorkerLoop, WorkerTimeout, Close, EndJoin, Goto, Flushers, plan
<1>2. TypeOK'
  BY <1>1 DEF Inv, TypeOK, Local, sink, history, counters, plan, Labels
<1>3. FlushInv(f)'
  BY <1>1 DEF Inv, TypeOK, FlushInv, plan
<1>4. \A g \in Flushers \ {f} : pc'[g] = pc[g]
  BY <1>1 DEF Inv, TypeOK
<1>5. Pending(f)' = {}
  BY <1>1 DEF Inv, TypeOK, Pending
<1>6. Ids(queue) \union Ids(batch[f]) \subseteq Ids(queue') \union Ids(batch'[f])
  BY <1>1
<1> QED
  BY <1>1, <1>2, <1>3, <1>4, <1>5, <1>6, FlusherMovesLocally DEF Local, sink, history, plan

LEMMA TakingKeepsInv ==
  ASSUME Inv, WorkerGet \/ \E f \in Flushers : Fill(f)
  PROVE  Inv'
<1>1. PICK f \in Flushers :
        /\ pc[f] = "filling" \/ pc[f] = "waiting"
        /\ Len(batch[f]) < ledger.batchMax \/ pc[f] = "waiting"
        /\ pc' = [pc EXCEPT ![f] = "filling"]
        /\ Take(f) /\ Local
  BY DEF Inv, TypeOK, WorkerGet, Fill, Goto, Flushers
<1>2. queue \in Seq(Entry) /\ batch[f] \in Seq(Entry) /\ queue # <<>>
  BY <1>1 DEF Inv, TypeOK, Take
<1>3. /\ Head(queue) \in Entry /\ Tail(queue) \in Seq(Entry) /\ Len(Tail(queue)) < Len(queue)
      /\ Append(batch[f], Head(queue)) \in Seq(Entry)
      /\ Len(Append(batch[f], Head(queue))) = Len(batch[f]) + 1
  BY <1>2
<1>4. /\ queue' = Tail(queue) /\ batch' = [batch EXCEPT ![f] = Append(@, Head(queue))]
      /\ batch'[f] = Append(batch[f], Head(queue))
      /\ UNCHANGED <<seen, stop, plan, ledger, sink, history, counters>>
  BY <1>1 DEF Inv, TypeOK, Take, Local
<1>5. FlushInv(f) /\ ledger \in Deployment
  BY LedgerAssumption DEF Inv, TypeOK
<1>6. todo[f] = {} /\ group[f] = {} /\ claimed[f] = {}
  BY <1>1, <1>5 DEF FlushInv
<1>7. Len(batch'[f]) <= ledger.batchMax
  <2>1. ledger.batchMax \in Nat \ {0} /\ Len(<<>>) = 0
    BY <1>5 DEF Deployment
  <2> QED
    BY <1>1, <1>3, <1>4, <1>5, <2>1 DEF FlushInv
<1>8. TypeOK'
  <2>1. queue' \in Seq(Entry) /\ Len(queue') <= ledger'.queueMax
    <3>1. ledger.queueMax \in Nat
      BY <1>5 DEF Deployment
    <3> QED
      BY <1>2, <1>3, <1>4, <3>1 DEF Inv, TypeOK
  <2>2. /\ batch' \in [Flushers -> Seq(Entry)]
        /\ \A g \in Flushers : /\ Len(batch'[g]) <= ledger'.batchMax
                               /\ {todo'[g], group'[g], claimed'[g]} \subseteq SUBSET DOMAIN batch'[g]
    BY <1>3, <1>4, <1>6, <1>7 DEF Inv, TypeOK, plan
  <2> QED
    BY <1>1, <1>4, <2>1, <2>2 DEF Inv, TypeOK, sink, history, counters, plan, Labels
<1>9. FlushInv(f)'
  BY <1>1, <1>4, <1>6 DEF Inv, TypeOK, FlushInv, plan
<1>10. \A g \in Flushers \ {f} : pc'[g] = pc[g] /\ batch'[g] = batch[g]
  BY <1>1, <1>4 DEF Inv, TypeOK
<1>11. Pending(f)' = {}
  BY <1>1 DEF Inv, TypeOK, Pending
<1>12. Ids(queue) \union Ids(batch[f]) \subseteq Ids(queue') \union Ids(batch'[f])
  BY <1>2, <1>3, <1>4, IdsOf
<1> QED
  BY <1>4, <1>8, <1>9, <1>10, <1>11, <1>12, FlusherMovesLocally DEF sink, history, plan

LEMMA StartFlushKeepsInv ==
  ASSUME Inv, NEW f \in Flushers, StartFlush(f)
  PROVE  Inv'
<1>1. /\ UNCHANGED <<ledger, queue, seen, stop, batch, group, claimed, sink, history, counters>>
      /\ pc[f] = "filling" /\ FlushInv(f)
      /\ todo' = [todo EXCEPT ![f] = IF ledger.aws THEN DOMAIN batch[f] ELSE {}]
  BY DEF StartFlush, Local, Inv
<1>2. PICK label : /\ pc' = [pc EXCEPT ![f] = label]
                   /\ IF batch[f] = <<>> THEN label \in {"loop", "closed"}
                      ELSE label = IF ledger.aws THEN "claim" ELSE "write"
  BY DEF StartFlush, After, Goto
<1>3. batch[f] \in Seq(Entry) /\ DOMAIN batch[f] = 1 .. Len(batch[f]) /\ Len(batch[f]) \in Nat
  BY DEF Inv, TypeOK
<1>4. TypeOK'
  <2>1. pc' \in [Flushers -> Labels]
    BY <1>2 DEF Inv, TypeOK, Labels
  <2>2. /\ todo' \in [Flushers -> SUBSET Nat]
        /\ \A g \in Flushers : {todo'[g], group'[g], claimed'[g]} \subseteq SUBSET DOMAIN batch'[g]
    BY <1>1, <1>3 DEF Inv, TypeOK
  <2> QED
    BY <1>1, <2>1, <2>2 DEF Inv, TypeOK, sink, history, counters
<1>5. FlushInv(f)'
  <2>1. pc'[f] = label /\ todo'[f] = IF ledger.aws THEN DOMAIN batch[f] ELSE {}
    BY <1>1, <1>2 DEF Inv, TypeOK
  <2>2. group'[f] = {} /\ claimed'[f] = {} /\ batch'[f] = batch[f] /\ ledger' = ledger
    BY <1>1 DEF FlushInv
  <2>3. batch[f] = <<>> => DOMAIN batch[f] = {}
    OBVIOUS
  <2> QED
    BY <1>2, <2>1, <2>2, <2>3 DEF FlushInv
<1>6. \A g \in Flushers \ {f} : pc'[g] = pc[g] /\ todo'[g] = todo[g]
  BY <1>1, <1>2 DEF Inv, TypeOK
<1>7. Pending(f)' = {}
  BY <1>1 DEF Pending, FlushInv
<1> QED
  BY <1>1, <1>4, <1>5, <1>6, <1>7, FlusherMovesLocally DEF sink, history

\* The steps of an S3 flush that only turn to the next thing to do.
LEMMA TurningKeepsInv ==
  ASSUME Inv, NEW f \in Flushers, NextGroup(f) \/ EndClaims(f) \/ EndMarks(f)
  PROVE  Inv'
<1>1. /\ UNCHANGED <<ledger, queue, seen, stop, batch, claimed, sink, history, counters>>
      /\ pc[f] \in {"claim", "mark"} /\ FlushInv(f)
  BY DEF NextGroup, EndClaims, EndMarks, Local, Inv, plan
<1>2. PICK s \in SUBSET todo[f], t \in SUBSET todo[f], label \in {"claim", "put"} :
        /\ pc' = [pc EXCEPT ![f] = label]
        /\ todo' = [todo EXCEPT ![f] = s] /\ group' = [group EXCEPT ![f] = t]
        /\ s \union t = todo[f] /\ group[f] = {}
        /\ label = "put" => t = {}
        /\ pc[f] = "mark" => claimed[f] = {}
  <2>1. CASE NextGroup(f)
    <3> DEFINE t == {i \in todo[f] : batch[f][i].part = batch[f][Min(todo[f])].part}
    <3>1. /\ group' = [group EXCEPT ![f] = t] /\ group'[f] = t /\ todo' = [todo EXCEPT ![f] = @ \ group'[f]]
          /\ group[f] = {} /\ pc[f] = "claim" /\ pc' = [pc EXCEPT ![f] = "claim"]
      BY <2>1 DEF NextGroup, Inv, TypeOK
    <3>2. t \in SUBSET todo[f]
      OBVIOUS
    <3> HIDE DEF t
    <3>3. todo' = [todo EXCEPT ![f] = todo[f] \ t]
      BY <3>1 DEF Inv, TypeOK
    <3>4. (todo[f] \ t) \union t = todo[f] /\ todo[f] \ t \in SUBSET todo[f]
      BY <3>2
    <3> QED
      BY <3>1, <3>2, <3>3, <3>4
  <2>2. CASE EndClaims(f) \/ EndMarks(f)
    <3>1. /\ UNCHANGED <<todo, group>> /\ group[f] = {}
          /\ pc[f] = "mark" => claimed[f] = {}
          /\ \E label \in {"claim", "put"} : pc' = [pc EXCEPT ![f] = label]
      BY <2>2 DEF EndClaims, EndMarks, Goto, plan, Inv, FlushInv
    <3>2. todo' = [todo EXCEPT ![f] = todo[f]] /\ group' = [group EXCEPT ![f] = {}]
      BY <3>1 DEF Inv, TypeOK
    <3>3. {} \in SUBSET todo[f] /\ todo[f] \in SUBSET todo[f] /\ todo[f] \union {} = todo[f]
      OBVIOUS
    <3> QED
      BY <3>1, <3>2, <3>3
  <2> QED
    BY <2>1, <2>2
<1>3. TypeOK'
  BY <1>1, <1>2 DEF Inv, TypeOK, sink, history, counters, Labels
<1>4. /\ pc'[f] = label /\ todo'[f] = s /\ group'[f] = t /\ claimed'[f] = claimed[f]
      /\ batch'[f] = batch[f] /\ \A id : Stored(id)' <=> Stored(id)
  BY <1>1, <1>2 DEF Inv, TypeOK, Stored, Written, ClaimedUnwritten, sink
<1>5. FlushInv(f)'
  BY <1>1, <1>2, <1>4 DEF FlushInv
<1>6. \A g \in Flushers \ {f} : pc'[g] = pc[g] /\ todo'[g] = todo[g] /\ group'[g] = group[g]
  BY <1>2 DEF Inv, TypeOK
<1>7. \A i \in Pending(f)' : i \in Pending(f)
  BY <1>1, <1>2, <1>4 DEF Pending
<1> QED
  BY <1>1, <1>3, <1>4, <1>5, <1>6, <1>7, FlusherMovesLocally DEF sink, history

LEMMA EndGroupsKeepsInv ==
  ASSUME Inv, NEW f \in Flushers, EndGroups(f) \/ EndRequeue(f)
  PROVE  Inv'
<1>1. /\ UNCHANGED <<ledger, queue, seen, stop, plan, sink, history, counters>>
      /\ pc[f] \in {"claim", "requeue"} /\ FlushInv(f)
      /\ todo[f] = {} /\ group[f] = {} /\ claimed[f] = {}
      /\ batch' = [batch EXCEPT ![f] = <<>>]
      /\ \E label \in {"loop", "closed"} : pc' = [pc EXCEPT ![f] = label]
  BY DEF EndGroups, EndRequeue, Forget, After, Goto, Local, Inv, TypeOK, FlushInv, plan
<1>2. <<>> \in Seq(Entry) /\ Len(<<>>) = 0 /\ DOMAIN <<>> = {}
  OBVIOUS
<1>3. batch[f] \in Seq(Entry) /\ ledger.batchMax \in Nat /\ Ids(<<>>) = {}
  BY <1>2, IdsOf, LedgerAssumption DEF Inv, TypeOK, Deployment
<1>4. TypeOK'
  BY <1>1, <1>2, <1>3 DEF Inv, TypeOK, sink, history, counters, plan, Labels
<1>5. batch'[f] = <<>> /\ pc'[f] \in {"loop", "closed"}
  BY <1>1 DEF Inv, TypeOK
<1>6. FlushInv(f)'
  BY <1>1, <1>5 DEF FlushInv, plan
<1>7. \A g \in Flushers \ {f} : pc'[g] = pc[g] /\ batch'[g] = batch[g]
  BY <1>1 DEF Inv, TypeOK
<1>8. Pending(f)' = {}
  BY <1>5 DEF Pending
<1>9. Ids(batch[f]) \subseteq {id \in RequestIds : Stored(id)}
  <2>1. CASE pc[f] = "claim"
    <3>1. \A i \in DOMAIN batch[f] : Stored(batch[f][i].id)
      BY <1>1, <2>1 DEF FlushInv
    <3> QED
      BY <1>3, <3>1, IdsOf
  <2>2. CASE pc[f] = "requeue"
    <3>1. batch[f] = <<>>
      BY <2>2 DEF EndGroups, EndRequeue
    <3> QED
      BY <1>3, <3>1
  <2> QED
    BY <1>1, <2>1, <2>2
<1> QED
  BY <1>1, <1>3, <1>4, <1>5, <1>6, <1>7, <1>8, <1>9, FlusherMovesLocally DEF sink, history, plan

LEMMA RequeueKeepsInv ==
  ASSUME Inv, NEW f \in Flushers, Requeue(f)
  PROVE  Inv'
<1>1. /\ UNCHANGED <<ledger, seen, stop, pc, plan, sink, history, counters>>
      /\ pc[f] = "requeue" /\ FlushInv(f)
      /\ queue' = Append(queue, Head(batch[f])) /\ batch' = [batch EXCEPT ![f] = Tail(@)]
      /\ Len(queue) < ledger.queueMax
  BY DEF Requeue, Local, Inv, plan
<1>2. batch[f] \in Seq(Entry) /\ batch[f] # <<>> /\ queue \in Seq(Entry)
  BY DEF Requeue, Inv, TypeOK
<1>3. /\ Head(batch[f]) \in Entry /\ Tail(batch[f]) \in Seq(Entry)
      /\ Len(Tail(batch[f])) <= Len(batch[f])
      /\ queue' \in Seq(Entry) /\ Len(queue') = Len(queue) + 1
  BY <1>1, <1>2
<1>4. ledger.batchMax \in Nat /\ ledger.queueMax \in Nat
  BY LedgerAssumption DEF Inv, TypeOK, Deployment
<1>5. batch'[f] = Tail(batch[f]) /\ todo[f] = {} /\ group[f] = {} /\ claimed[f] = {}
  BY <1>1 DEF Inv, TypeOK, FlushInv
<1>6. TypeOK'
  <2>1. /\ batch' \in [Flushers -> Seq(Entry)]
        /\ \A g \in Flushers : /\ Len(batch'[g]) <= ledger'.batchMax
                               /\ {todo'[g], group'[g], claimed'[g]} \subseteq SUBSET DOMAIN batch'[g]
    BY <1>1, <1>2, <1>3, <1>4, <1>5 DEF Inv, TypeOK, plan
  <2>2. Len(queue') <= ledger'.queueMax
    BY <1>1, <1>2, <1>3, <1>4
  <2> QED
    BY <1>1, <1>3, <2>1, <2>2 DEF Inv, TypeOK, sink, history, counters, plan
<1>7. FlushInv(f)'
  BY <1>1, <1>5 DEF FlushInv, plan
<1>8. \A g \in Flushers \ {f} : batch'[g] = batch[g]
  BY <1>1 DEF Inv, TypeOK
<1>9. Pending(f)' = {}
  BY <1>1 DEF Pending
<1>10. Ids(queue) \union Ids(batch[f]) \subseteq Ids(queue') \union Ids(batch'[f])
  BY <1>1, <1>2, <1>3, <1>5, IdsOf
<1> QED
  BY <1>1, <1>6, <1>7, <1>8, <1>9, <1>10, FlusherMovesLocally DEF sink, history, plan

LEMMA RequeueFullKeepsInv ==
  ASSUME Inv, NEW f \in Flushers, RequeueFull(f)
  PROVE  Inv'
<1>1. /\ UNCHANGED <<ledger, queue, seen, stop, plan, sink, accepted, counters>>
      /\ pc[f] = "requeue" /\ FlushInv(f)
      /\ dropped' = dropped \union Ids(batch[f])
      /\ batch' = [batch EXCEPT ![f] = <<>>]
      /\ \E label \in {"loop", "closed"} : pc' = [pc EXCEPT ![f] = label]
  BY DEF RequeueFull, Forget, After, Goto, Inv
<1>2. <<>> \in Seq(Entry) /\ Len(<<>>) = 0
  OBVIOUS
<1>3. ledger.batchMax \in Nat /\ dropped' \subseteq RequestIds
  BY <1>1, IdsOf, LedgerAssumption DEF Inv, TypeOK, Deployment
<1>4. /\ batch'[f] = <<>> /\ pc'[f] \in {"loop", "closed"}
      /\ todo[f] = {} /\ group[f] = {} /\ claimed[f] = {}
  BY <1>1 DEF Inv, TypeOK, FlushInv
<1>5. TypeOK'
  BY <1>1, <1>2, <1>3, <1>4 DEF Inv, TypeOK, sink, counters, plan, Labels
<1>6. FlushInv(f)'
  BY <1>1, <1>4 DEF FlushInv, plan
<1>7. \A g \in Flushers \ {f} : pc'[g] = pc[g] /\ batch'[g] = batch[g]
  BY <1>1 DEF Inv, TypeOK
<1>8. Pending(f)' = {}
  BY <1>4 DEF Pending
<1>9. Ids(queue) \union Ids(batch[f]) \subseteq Ids(queue') \union dropped'
  BY <1>1
<1> QED
  BY <1>1, <1>4, <1>5, <1>6, <1>7, <1>8, <1>9, FlusherMovesLocally DEF sink, plan

----------------------------------------------------------------------------
\* Writing, claiming and completing keeps what is stored stored.
LEMMA StoredStays ==
  ASSUME TypeOK,
         written' \in [RequestIds -> Nat], \A id \in RequestIds : written'[id] >= written[id],
         \A id \in RequestIds : table'[id] = table[id] \/ table[id] = "absent" \/ written'[id] > 0
  PROVE  \A id \in RequestIds : Stored(id) => Stored(id)'
BY DEF TypeOK, Stored, Written, ClaimedUnwritten

\* A call that raises: the flusher keeps its batch and gives up its claims.
LEMMA FailKeepsInv ==
  ASSUME Inv, NEW f \in Flushers, pc[f] \in {"write", "claim", "put", "mark"}, Fail(f),
         UNCHANGED <<ledger, queue, seen, stop, history, appends, restarts>>,
         table' \in [RequestIds -> {"absent", "writing", "complete"}],
         written' \in [RequestIds -> Nat],
         \A id \in RequestIds :
           /\ written'[id] >= written[id]
           /\ table'[id] = table[id] \/ table[id] = "absent" \/ written'[id] > 0
           /\ table'[id] = "complete" => table[id] = "complete" \/ written[id] > 0,
         ClaimsInTable =>
           /\ \A id \in RequestIds : /\ written'[id] <= 1
                                     /\ table'[id] = "absent" => written'[id] = 0
           /\ \A g \in Flushers \ {f} : \A i \in Pending(g) :
                table'[batch[g][i].id] = "writing" /\ written'[batch[g][i].id] = 0
  PROVE  Inv'
<1>1. /\ pc' = [pc EXCEPT ![f] = "requeue"] /\ batch' = batch /\ failures' = failures + 1
      /\ todo' = [todo EXCEPT ![f] = {}] /\ group' = [group EXCEPT ![f] = {}]
      /\ claimed' = [claimed EXCEPT ![f] = {}]
  BY DEF Fail, DropPlan, Goto
<1>2. TypeOK'
  BY <1>1 DEF Inv, TypeOK, history, Labels
<1>3. /\ pc'[f] = "requeue" /\ todo'[f] = {} /\ group'[f] = {} /\ claimed'[f] = {}
      /\ \A g \in Flushers \ {f} : /\ pc'[g] = pc[g] /\ batch'[g] = batch[g] /\ todo'[g] = todo[g]
                                   /\ group'[g] = group[g] /\ claimed'[g] = claimed[g]
  BY <1>1 DEF Inv, TypeOK
<1>4. FlushInv(f)'
  BY <1>3 DEF FlushInv
<1>5. \A id \in RequestIds : Stored(id) => Stored(id)'
  BY StoredStays DEF Inv
<1>6. Kept'
  <2>1. Held' = Held /\ dropped' = dropped /\ accepted' = accepted /\ accepted \subseteq RequestIds
    BY <1>1 DEF Held, history, Inv, TypeOK
  <2>2. \A id \in accepted : id \in Held \union dropped \/ Stored(id)
    BY DEF Inv, Kept, Stored
  <2> QED
    BY <1>5, <2>1, <2>2 DEF Kept, Stored
<1>7. OnceInv'
  <2>1. Pending(f)' = {} /\ \A g \in Flushers \ {f} : Pending(g)' = Pending(g)
    BY <1>3 DEF Pending
  <2>2. ClaimsInTable' <=> ClaimsInTable
    BY DEF ClaimsInTable
  <2> QED
    BY <1>1, <2>1, <2>2 DEF Inv, OnceInv
<1>8. CompleteMeansWritten'
  BY DEF Inv, TypeOK, CompleteMeansWritten, Written
<1> QED
  BY <1>2, <1>3, <1>4, <1>5, <1>6, <1>7, <1>8, FlusherMoves DEF history

LEMMA WriteFileKeepsInv ==
  ASSUME Inv, NEW f \in Flushers, WriteFile(f)
  PROVE  Inv'
<1>1. /\ UNCHANGED <<ledger, queue, seen, stop, table, history, appends, restarts>>
      /\ pc[f] = "write" /\ FlushInv(f) /\ TypeOK /\ ~ ClaimsInTable
  BY DEF WriteFile, Inv, FlushInv, ClaimsInTable
<1>2. batch[f] \in Seq(Entry) /\ DOMAIN batch[f] = 1 .. Len(batch[f]) /\ Len(batch[f]) \in Nat
  BY <1>1 DEF TypeOK
<1>3. PICK places \in SUBSET DOMAIN batch[f] :
        /\ Write(f, places)
        /\ \/ places = DOMAIN batch[f] /\ Forget(f) /\ UNCHANGED <<plan, failures>>
           \/ Fail(f)
  <2>1. CASE \E n \in 0 .. IF ledger.torn THEN Len(batch[f]) ELSE 0 : Fail(f) /\ Write(f, 1 .. n)
    <3>1. PICK n \in Nat : n <= Len(batch[f]) /\ Fail(f) /\ Write(f, 1 .. n)
      BY <1>2, <2>1
    <3>2. 1 .. n \in SUBSET DOMAIN batch[f]
      BY <1>2, <3>1
    <3> QED
      BY <3>1, <3>2
  <2> QED
    BY <2>1 DEF WriteFile
<1>4. /\ written' \in [RequestIds -> Nat]
      /\ \A id \in RequestIds : written'[id] >= written[id]
      /\ \A i \in places : written'[batch[f][i].id] > 0
  BY <1>1, <1>3, WriteAdds
<1>5. table' = table /\ table \in [RequestIds -> {"absent", "writing", "complete"}]
  BY <1>1 DEF TypeOK
<1>6. CASE Fail(f)
  BY <1>1, <1>4, <1>5, <1>6, FailKeepsInv
<1>7. CASE places = DOMAIN batch[f] /\ Forget(f) /\ UNCHANGED <<plan, failures>>
  <2>1. PICK label \in {"loop", "closed"} : pc' = [pc EXCEPT ![f] = label]
    BY <1>7 DEF Forget, After, Goto
  <2>2. /\ batch' = [batch EXCEPT ![f] = <<>>] /\ <<>> \in Seq(Entry) /\ Len(<<>>) = 0
        /\ todo' = todo /\ group' = group /\ claimed' = claimed /\ failures' = failures
    BY <1>7 DEF Forget, plan
  <2>3. /\ todo[f] = {} /\ group[f] = {} /\ claimed[f] = {}
        /\ ledger.batchMax \in Nat
    BY <1>1, LedgerAssumption DEF FlushInv, TypeOK, Deployment
  <2>4. TypeOK'
    BY <1>1, <1>4, <2>1, <2>2, <2>3 DEF TypeOK, history, Labels
  <2>5. /\ pc'[f] = label /\ batch'[f] = <<>>
        /\ \A g \in Flushers \ {f} : pc'[g] = pc[g] /\ batch'[g] = batch[g]
    BY <1>1, <2>1, <2>2 DEF TypeOK
  <2>6. FlushInv(f)'
    BY <2>2, <2>3, <2>5 DEF FlushInv
  <2>7. \A id \in RequestIds : Stored(id) => Stored(id)'
    BY <1>1, <1>4, <1>5, StoredStays
  <2>8. Kept'
    <3>1. \A id \in Ids(batch[f]) : id \in Written'
      BY <1>2, <1>4, <1>7, IdsOf DEF Written
    <3>2. \A id \in accepted : id \in Held \union dropped \/ Stored(id)
      BY DEF Inv, Kept, Stored
    <3>3. Held \subseteq Held' \union Written'
      BY <1>1, <2>5, <3>1 DEF Held
    <3> QED
      BY <1>1, <2>7, <3>2, <3>3 DEF Kept, Stored, history, TypeOK
  <2>9. OnceInv'
    BY <1>1 DEF OnceInv, ClaimsInTable
  <2>10. CompleteMeansWritten'
    BY <1>1, <1>4, <1>5 DEF Inv, TypeOK, CompleteMeansWritten, Written
  <2> QED
    BY <1>1, <1>4, <2>2, <2>4, <2>5, <2>6, <2>7, <2>8, <2>9, <2>10, FlusherMoves DEF history
<1> QED
  BY <1>3, <1>6, <1>7

LEMMA ClaimKeepsInv ==
  ASSUME Inv, NEW f \in Flushers, Claim(f)
  PROVE  Inv'
<1>1. /\ batch[f] \in Seq(Entry) /\ group[f] \in SUBSET (1 .. Len(batch[f])) /\ Len(batch[f]) \in Nat
      /\ claimed[f] \in SUBSET DOMAIN batch[f] /\ DOMAIN batch[f] = 1 .. Len(batch[f])
      /\ pc[f] = "claim" /\ group[f] # {} /\ FlushInv(f) /\ TypeOK
      /\ UNCHANGED <<ledger, queue, seen, stop, written, history, appends, restarts>>
  BY DEF Claim, Inv, TypeOK
<1>2. Min(group[f]) \in group[f] /\ batch[f][Min(group[f])].id \in RequestIds
  BY <1>1, MinIn, IdsOf
<1>3. PICK i \in group[f], id \in RequestIds : i = Min(group[f]) /\ id = batch[f][i].id
  BY <1>2
<1> DEFINE free == Unclaimed(id)
           taken == [table EXCEPT ![id] = "writing"]
<1>4. \/ /\ group' = [group EXCEPT ![f] = @ \ {i}]
         /\ IF free \/ ~ ledger.table
            THEN claimed' = [claimed EXCEPT ![f] = @ \union {i}]
            ELSE UNCHANGED claimed
         /\ table' = IF free /\ ledger.table THEN taken ELSE table
         /\ UNCHANGED <<pc, batch, todo, failures>>
      \/ /\ ledger.table
         /\ Fail(f)
         /\ table' \in {table, IF free THEN taken ELSE table}
  BY <1>3 DEF Claim
<1>5. /\ free <=> table[id] = "absent"
      /\ table' = table \/ (free /\ table' = taken)
  BY <1>4 DEF Unclaimed
<1> HIDE DEF free
<1>6. /\ table' \in [RequestIds -> {"absent", "writing", "complete"}]
      /\ \A x \in RequestIds : table'[x] = table[x] \/ (table[x] = "absent" /\ table'[x] = "writing" /\ x = id)
  BY <1>1, <1>5 DEF TypeOK
<1>7. written' = written /\ written \in [RequestIds -> Nat] /\ \A x \in RequestIds : written'[x] >= written[x]
  BY <1>1 DEF TypeOK
<1>8. \A g \in Flushers : \A j \in Pending(g) : batch[g][j].id \in RequestIds
  BY <1>1, IdsOf DEF TypeOK, Pending
<1>9. ClaimsInTable =>
        /\ \A x \in RequestIds : /\ written'[x] <= 1
                                 /\ table'[x] = "absent" => written'[x] = 0
        /\ \A g \in Flushers : \A j \in Pending(g) :
             table'[batch[g][j].id] = "writing" /\ written'[batch[g][j].id] = 0
  BY <1>6, <1>7, <1>8 DEF Inv, OnceInv
<1>10. CASE Fail(f)
  BY <1>1, <1>6, <1>7, <1>9, <1>10, FailKeepsInv
<1>11. CASE /\ group' = [group EXCEPT ![f] = @ \ {i}]
            /\ IF free \/ ~ ledger.table
               THEN claimed' = [claimed EXCEPT ![f] = @ \union {i}]
               ELSE UNCHANGED claimed
            /\ table' = IF free /\ ledger.table THEN taken ELSE table
            /\ UNCHANGED <<pc, batch, todo, failures>>
  <2>1. PICK t \in SUBSET {i} :
          /\ claimed' = [claimed EXCEPT ![f] = claimed[f] \union t]
          /\ IF t = {} THEN ~ free /\ ledger.table ELSE free \/ ~ ledger.table
    <3>1. CASE free \/ ~ ledger.table
      BY <1>1, <1>11, <3>1 DEF TypeOK
    <3>2. CASE ~ (free \/ ~ ledger.table)
      <4>1. claimed' = [claimed EXCEPT ![f] = claimed[f] \union {}]
        BY <1>1, <1>11, <3>2 DEF TypeOK
      <4> QED
        BY <3>2, <4>1
    <3> QED
      BY <3>1, <3>2
  <2>2. /\ group'[f] = group[f] \ {i} /\ claimed'[f] = claimed[f] \union t
        /\ pc' = pc /\ batch' = batch /\ todo' = todo /\ failures' = failures
        /\ \A g \in Flushers \ {f} : group'[g] = group[g] /\ claimed'[g] = claimed[g]
    BY <1>1, <1>11, <2>1 DEF TypeOK
  <2>3. TypeOK'
    BY <1>1, <1>6, <1>11, <2>1, <2>2 DEF TypeOK, history
  <2>4. \A x \in RequestIds : Stored(x) => Stored(x)'
    BY <1>1, <1>6, <1>7, StoredStays
  <2>5. FlushInv(f)'
    <3>1. CASE t = {}
      <4>1. Stored(id)
        <5>1. table[id] \in {"writing", "complete"}
          BY <1>1, <1>5, <2>1, <3>1 DEF TypeOK
        <5> QED
          BY <5>1 DEF Inv, CompleteMeansWritten, Stored, ClaimedUnwritten
      <4>2. Stored(batch[f][i].id)'
        BY <1>3, <2>2, <2>4, <4>1
      <4> QED
        BY <1>1, <2>2, <2>4, <3>1, <4>2, IdsOf DEF FlushInv
    <3>2. CASE t = {i}
      BY <1>1, <2>2, <2>4, <3>2, IdsOf DEF FlushInv
    <3> QED
      BY <3>1, <3>2
  <2>6. Kept'
    <3>1. Held' = Held /\ dropped' = dropped /\ accepted' = accepted /\ accepted \subseteq RequestIds
      BY <1>1, <2>2 DEF Held, history, TypeOK
    <3>2. \A x \in accepted : x \in Held \union dropped \/ Stored(x)
      BY DEF Inv, Kept, Stored
    <3> QED
      BY <2>4, <3>1, <3>2 DEF Kept, Stored
  <2>7. OnceInv'
    <3> SUFFICES ASSUME ClaimsInTable PROVE OnceInv'
      BY <1>1 DEF OnceInv, ClaimsInTable
    <3>1. Pending(f)' = Pending(f) \union t /\ \A g \in Flushers \ {f} : Pending(g)' = Pending(g)
      BY <1>1, <2>2 DEF Pending
    <3>2. /\ \A g \in Flushers : \A j \in Pending(g) :
               table[batch[g][j].id] = "writing" /\ written[batch[g][j].id] = 0
          /\ \A g, h \in Flushers : \A j \in Pending(g), k \in Pending(h) :
               batch[g][j].id = batch[h][k].id => g = h /\ j = k
      BY DEF Inv, OnceInv
    <3>3. t # {} => /\ table[id] = "absent" /\ table' = taken /\ table'[id] = "writing"
                    /\ written'[id] = 0
      <4> SUFFICES ASSUME t # {} PROVE /\ table[id] = "absent" /\ table' = taken
                                       /\ table'[id] = "writing" /\ written'[id] = 0
        OBVIOUS
      <4>1. free /\ ledger.table /\ table[id] = "absent" /\ table' = taken
        BY <1>5, <1>11, <2>1 DEF ClaimsInTable
      <4> QED
        BY <1>1, <1>7, <4>1 DEF Inv, OnceInv, TypeOK
    <3>4. \A g \in Flushers : \A j \in Pending(g)' :
            table'[batch'[g][j].id] = "writing" /\ written'[batch'[g][j].id] = 0
      BY <1>3, <1>9, <2>2, <3>1, <3>3
    <3>5. \A g, h \in Flushers : \A j \in Pending(g)', k \in Pending(h)' :
            batch'[g][j].id = batch'[h][k].id => g = h /\ j = k
      <4>1. \A g \in Flushers : \A j \in Pending(g) : t # {} => batch[g][j].id # batch[f][i].id
        BY <1>3, <3>2, <3>3
      <4>2. \A g \in Flushers : \A j \in Pending(g)' : j \in Pending(g) \/ (g = f /\ j = i /\ t # {})
        BY <3>1
      <4>3. batch' = batch
        BY <2>2
      <4> QED
        BY <3>2, <4>1, <4>2, <4>3
    <3> QED
      BY <1>9, <3>4, <3>5 DEF OnceInv
  <2>8. CompleteMeansWritten'
    BY <1>6, <1>7 DEF Inv, CompleteMeansWritten, Written
  <2> QED
    BY <1>1, <1>7, <2>2, <2>3, <2>4, <2>5, <2>6, <2>7, <2>8, FlusherMoves DEF history
<1> QED
  BY <1>4, <1>10, <1>11

LEMMA PutObjectKeepsInv ==
  ASSUME Inv, NEW f \in Flushers, PutObject(f)
  PROVE  Inv'
<1>1. /\ UNCHANGED <<ledger, queue, seen, stop, table, history, appends, restarts>>
      /\ pc[f] = "put" /\ FlushInv(f) /\ TypeOK /\ group[f] = {}
      /\ batch[f] \in Seq(Entry) /\ claimed[f] \in SUBSET DOMAIN batch[f]
      /\ table \in [RequestIds -> {"absent", "writing", "complete"}]
  BY DEF PutObject, Inv, FlushInv, TypeOK
<1>2. PICK places \in SUBSET claimed[f] :
        /\ Write(f, places)
        /\ \/ places = claimed[f] /\ Goto(f, "mark") /\ UNCHANGED <<batch, plan, failures>>
           \/ Fail(f)
  <2>1. CASE Fail(f) /\ UNCHANGED written
    <3>1. Write(f, {})
      <4>1. \A id \in RequestIds : written[id] + Cardinality({i \in {} : batch[f][i].id = id}) = written[id]
        <5>1. \A id : {i \in {} : batch[f][i].id = id} = {}
          OBVIOUS
        <5>2. \A id \in RequestIds : written[id] \in Nat
          BY <1>1 DEF TypeOK
        <5> QED
          BY <5>1, <5>2, FS_EmptySet
      <4> QED
        BY <1>1, <2>1, <4>1 DEF Write, TypeOK
    <3> QED
      BY <2>1, <3>1
  <2> QED
    BY <2>1 DEF PutObject
<1>3. \A i \in claimed[f] : batch[f][i].id \in RequestIds
  BY <1>1, IdsOf
<1>4. /\ written' \in [RequestIds -> Nat]
      /\ \A id \in RequestIds : written'[id] >= written[id]
      /\ \A i \in places : written'[batch[f][i].id] > 0
      /\ \A id \in RequestIds :
           (\A i \in places : batch[f][i].id # id) => written'[id] = written[id]
      /\ (\A i, j \in places : batch[f][i].id = batch[f][j].id => i = j) =>
           \A id \in RequestIds : written'[id] <= written[id] + 1
  BY <1>1, <1>2, WriteAdds
<1>5. ASSUME ClaimsInTable
      PROVE  /\ \A id \in RequestIds : /\ written'[id] <= 1
                                       /\ table'[id] = "absent" => written'[id] = 0
             /\ \A g \in Flushers \ {f} : \A i \in Pending(g) :
                  table'[batch[g][i].id] = "writing" /\ written'[batch[g][i].id] = 0
  <2>1. Pending(f) = claimed[f]
    BY <1>1 DEF Pending
  <2>2. /\ \A id \in RequestIds : /\ written[id] <= 1
                                  /\ table[id] = "absent" => written[id] = 0
        /\ \A g \in Flushers : \A i \in Pending(g) :
             table[batch[g][i].id] = "writing" /\ written[batch[g][i].id] = 0
        /\ \A g, h \in Flushers : \A i \in Pending(g), j \in Pending(h) :
             batch[g][i].id = batch[h][j].id => g = h /\ i = j
    BY <1>5 DEF Inv, OnceInv
  <2>3. \A i, j \in places : batch[f][i].id = batch[f][j].id => i = j
    BY <2>1, <2>2
  <2>4. \A i \in places : table[batch[f][i].id] = "writing" /\ written[batch[f][i].id] = 0
    BY <2>1, <2>2
  <2>5. \A g \in Flushers : \A i \in Pending(g) : batch[g][i].id \in RequestIds
    BY <1>1, IdsOf DEF TypeOK, Pending
  <2>6. \A id \in RequestIds : written'[id] <= 1 /\ (table[id] = "absent" => written'[id] = 0)
    <3> SUFFICES ASSUME NEW id \in RequestIds
                 PROVE  written'[id] <= 1 /\ (table[id] = "absent" => written'[id] = 0)
      OBVIOUS
    <3>1. CASE \A i \in places : batch[f][i].id # id
      BY <1>4, <2>2, <3>1
    <3>2. CASE \E i \in places : batch[f][i].id = id
      <4>1. written[id] = 0 /\ table[id] = "writing"
        BY <2>4, <3>2
      <4> QED
        BY <1>4, <2>3, <4>1
    <3> QED
      BY <3>1, <3>2
  <2>7. \A g \in Flushers \ {f} : \A i \in Pending(g) : written'[batch[g][i].id] = 0
    BY <1>4, <2>1, <2>2, <2>5
  <2> QED
    BY <1>1, <2>2, <2>6, <2>7
<1>6. CASE Fail(f)
  <2>1. \A id \in RequestIds : /\ written'[id] >= written[id]
                               /\ table'[id] = table[id]
                               /\ table'[id] = "complete" => table[id] = "complete"
    BY <1>1, <1>4
  <2> QED
    BY <1>1, <1>4, <1>5, <1>6, <2>1, FailKeepsInv
<1>7. CASE places = claimed[f] /\ Goto(f, "mark") /\ UNCHANGED <<batch, plan, failures>>
  <2>1. /\ pc' = [pc EXCEPT ![f] = "mark"]
        /\ UNCHANGED <<batch, todo, group, claimed, failures>>
    BY <1>7 DEF Goto, plan
  <2>2. TypeOK'
    BY <1>1, <1>4, <2>1 DEF TypeOK, history, Labels
  <2>3. pc'[f] = "mark" /\ \A g \in Flushers \ {f} : pc'[g] = pc[g]
    BY <1>1, <2>1 DEF TypeOK
  <2>4. \A id \in RequestIds : Stored(id) => Stored(id)'
    BY <1>1, <1>4, StoredStays
  <2>5. \A i \in claimed[f] : batch[f][i].id \in Written'
    BY <1>3, <1>4, <1>7 DEF Written
  <2>6. FlushInv(f)'
    BY <1>1, <2>1, <2>3, <2>4, <2>5, IdsOf DEF FlushInv
  <2>7. Kept'
    <3>1. Held' = Held /\ dropped' = dropped /\ accepted' = accepted /\ accepted \subseteq RequestIds
      BY <1>1, <2>1 DEF Held, history, TypeOK
    <3>2. \A x \in accepted : x \in Held \union dropped \/ Stored(x)
      BY DEF Inv, Kept, Stored
    <3> QED
      BY <2>4, <3>1, <3>2 DEF Kept, Stored
  <2>8. OnceInv'
    <3>1. Pending(f)' = {} /\ \A g \in Flushers \ {f} : Pending(g)' = Pending(g)
      BY <2>1, <2>3 DEF Pending
    <3>2. ClaimsInTable' <=> ClaimsInTable
      BY <1>1 DEF ClaimsInTable
    <3> QED
      BY <1>5, <2>1, <3>1, <3>2 DEF Inv, OnceInv
  <2>9. CompleteMeansWritten'
    BY <1>1, <1>4 DEF Inv, TypeOK, CompleteMeansWritten, Written
  <2> QED
    BY <1>1, <1>4, <2>1, <2>2, <2>3, <2>4, <2>6, <2>7, <2>8, <2>9, FlusherMoves DEF history
<1> QED
  BY <1>2, <1>6, <1>7

LEMMA MarkKeepsInv ==
  ASSUME Inv, NEW f \in Flushers, Mark(f)
  PROVE  Inv'
<1>1. /\ batch[f] \in Seq(Entry) /\ claimed[f] \in SUBSET (1 .. Len(batch[f])) /\ Len(batch[f]) \in Nat
      /\ DOMAIN batch[f] = 1 .. Len(batch[f])
      /\ pc[f] = "mark" /\ claimed[f] # {} /\ FlushInv(f) /\ TypeOK
      /\ UNCHANGED <<ledger, queue, seen, stop, written, history, appends, restarts>>
  BY DEF Mark, Inv, TypeOK
<1>2. Min(claimed[f]) \in claimed[f] /\ batch[f][Min(claimed[f])].id \in RequestIds
  BY <1>1, MinIn, IdsOf
<1>3. PICK i \in claimed[f], id \in RequestIds : i = Min(claimed[f]) /\ id = batch[f][i].id
  BY <1>2
<1> DEFINE complete == IF ledger.table THEN [table EXCEPT ![id] = "complete"] ELSE table
<1>4. \/ /\ claimed' = [claimed EXCEPT ![f] = @ \ {i}]
         /\ table' = complete
         /\ UNCHANGED <<pc, batch, todo, group, failures>>
      \/ /\ ledger.table
         /\ Fail(f)
         /\ table' \in {table, complete}
  BY <1>3 DEF Mark
<1>5. id \in Written /\ written[id] > 0
  BY <1>1, <1>3 DEF FlushInv, Written
<1>6. /\ table' \in [RequestIds -> {"absent", "writing", "complete"}]
      /\ \A x \in RequestIds : table'[x] = table[x] \/ (table'[x] = "complete" /\ x = id)
  BY <1>1, <1>4 DEF TypeOK
<1>7. written' = written /\ written \in [RequestIds -> Nat] /\ \A x \in RequestIds : written'[x] >= written[x]
  BY <1>1 DEF TypeOK
<1>8. \A g \in Flushers : \A j \in Pending(g) : batch[g][j].id \in RequestIds
  BY <1>1, IdsOf DEF TypeOK, Pending
<1>9. ClaimsInTable =>
        /\ \A x \in RequestIds : /\ written'[x] <= 1
                                 /\ table'[x] = "absent" => written'[x] = 0
        /\ \A g \in Flushers : \A j \in Pending(g) :
             table'[batch[g][j].id] = "writing" /\ written'[batch[g][j].id] = 0
  BY <1>5, <1>6, <1>7, <1>8 DEF Inv, OnceInv
<1>10. CASE Fail(f)
  BY <1>1, <1>5, <1>6, <1>7, <1>9, <1>10, FailKeepsInv
<1>11. CASE /\ claimed' = [claimed EXCEPT ![f] = @ \ {i}]
            /\ table' = complete
            /\ UNCHANGED <<pc, batch, todo, group, failures>>
  <2>1. claimed'[f] = claimed[f] \ {i} /\ \A g \in Flushers \ {f} : claimed'[g] = claimed[g]
    BY <1>1, <1>11 DEF TypeOK
  <2>2. TypeOK'
    BY <1>1, <1>6, <1>11, <2>1 DEF TypeOK, history
  <2>3. \A x \in RequestIds : Stored(x) => Stored(x)'
    BY <1>1, <1>5, <1>6, <1>7, StoredStays
  <2>4. Stored(id)' /\ Written' = Written
    BY <1>5, <1>7 DEF Stored, Written
  <2>5. FlushInv(f)'
    BY <1>1, <1>3, <1>11, <2>1, <2>3, <2>4, IdsOf DEF FlushInv
  <2>6. Kept'
    <3>1. Held' = Held /\ dropped' = dropped /\ accepted' = accepted /\ accepted \subseteq RequestIds
      BY <1>1, <1>11 DEF Held, history, TypeOK
    <3>2. \A x \in accepted : x \in Held \union dropped \/ Stored(x)
      BY DEF Inv, Kept, Stored
    <3> QED
      BY <2>3, <3>1, <3>2 DEF Kept, Stored
  <2>7. OnceInv'
    <3>1. \A g \in Flushers : Pending(g)' = Pending(g)
      BY <1>1, <1>11, <2>1 DEF Pending
    <3>2. ClaimsInTable' <=> ClaimsInTable
      BY <1>1 DEF ClaimsInTable
    <3> QED
      BY <1>9, <1>11, <3>1, <3>2 DEF Inv, OnceInv
  <2>8. CompleteMeansWritten'
    BY <1>5, <1>6, <2>4 DEF Inv, CompleteMeansWritten
  <2> QED
    BY <1>1, <1>7, <1>11, <2>1, <2>2, <2>3, <2>5, <2>6, <2>7, <2>8, FlusherMoves DEF history
<1> QED
  BY <1>4, <1>10, <1>11

----------------------------------------------------------------------------
\* append leaves the flushers and the sink alone, and sees no id it did not accept.
LEMMA BillKeepsInv ==
  ASSUME Inv, NEW id \in ledger.ids, NEW part \in ledger.parts, Bill(id, part)
  PROVE  Inv'
<1>1. /\ TypeOK /\ ledger \in Deployment
      /\ UNCHANGED <<ledger, stop, pc, batch, plan, sink, dropped, failures, restarts>>
      /\ appends' = appends + 1
      /\ AppendDuplicate(id) \/ AppendQueued(id, part) \/ AppendRejected(id)
  BY LedgerAssumption DEF Inv, TypeOK, Bill
<1>2. /\ id \in RequestIds /\ part \in Partitions /\ [id |-> id, part |-> part] \in Entry
      /\ ledger.lruMax \in Nat \ {0} /\ ledger.queueMax \in Nat
      /\ seen \in Seq(RequestIds) /\ queue \in Seq(Entry) /\ Len(seen) <= ledger.lruMax
      /\ Len(queue) <= ledger.queueMax
  BY <1>1 DEF Deployment, Entry, TypeOK
<1>3. ASSUME NEW s \in Seq(RequestIds), Len(s) = Len(seen) + 1
      PROVE  /\ Evict(s) \in Seq(RequestIds) /\ Len(Evict(s)) <= ledger.lruMax
             /\ ToSet(Evict(s)) \subseteq ToSet(s)
  <2>1. CASE Len(s) > ledger.lruMax
    <3>1. /\ Tail(s) \in Seq(RequestIds) /\ Len(Tail(s)) = Len(seen)
          /\ \A i \in 1 .. Len(seen) : Tail(s)[i] = s[i + 1] /\ i + 1 \in 1 .. Len(s)
      BY <1>3
    <3>2. ToSet(Tail(s)) \subseteq ToSet(s)
      BY <1>3, <3>1 DEF ToSet
    <3> QED
      BY <1>2, <2>1, <3>1, <3>2 DEF Evict
  <2>2. CASE ~ (Len(s) > ledger.lruMax)
    BY <1>2, <1>3, <2>2 DEF Evict
  <2> QED
    BY <2>1, <2>2
<1>4. /\ Append(seen, id) \in Seq(RequestIds) /\ Len(Append(seen, id)) = Len(seen) + 1
      /\ ToSet(Append(seen, id)) = ToSet(seen) \union {id}
  <2>1. /\ Append(seen, id) \in Seq(RequestIds) /\ Len(Append(seen, id)) = Len(seen) + 1
        /\ \A i \in 1 .. Len(seen) : Append(seen, id)[i] = seen[i]
        /\ Append(seen, id)[Len(seen) + 1] = id
    BY <1>2
  <2>2. DOMAIN Append(seen, id) = (1 .. Len(seen)) \union {Len(seen) + 1}
    BY <1>2, <2>1
  <2> QED
    BY <1>2, <2>1, <2>2 DEF ToSet
<1>5. /\ seen' \in Seq(RequestIds) /\ Len(seen') <= ledger.lruMax
      /\ queue' \in Seq(Entry) /\ Len(queue') <= ledger.queueMax
      /\ ToSet(seen') \subseteq accepted' /\ accepted' \subseteq RequestIds
      /\ accepted' \subseteq accepted \union Ids(queue')
      /\ accepted \subseteq accepted'
      /\ Ids(queue) \subseteq Ids(queue')
  <2>1. ToSet(seen) \subseteq accepted /\ accepted \subseteq RequestIds
    BY DEF Inv, TypeOK, DuplicateMeansAccepted
  <2>2. CASE AppendDuplicate(id)
    <3> DEFINE r == RemoveFirst(seen, id)
    <3>1. r \in Seq(RequestIds) /\ Len(r) = Len(seen) - 1 /\ ToSet(r) \subseteq ToSet(seen)
      BY <1>2, <2>2, RemoveFirstType DEF AppendDuplicate
    <3>2. seen' = Append(r, id) /\ queue' = queue /\ accepted' = accepted /\ id \in ToSet(seen)
      BY <2>2 DEF AppendDuplicate, MoveToEnd
    <3> HIDE DEF r
    <3>3. /\ Append(r, id) \in Seq(RequestIds) /\ Len(Append(r, id)) = Len(seen)
          /\ \A i \in 1 .. Len(Append(r, id)) :
               (i \in 1 .. Len(r) /\ Append(r, id)[i] = r[i]) \/ Append(r, id)[i] = id
      BY <1>2, <3>1
    <3>4. ToSet(Append(r, id)) \subseteq ToSet(r) \union {id}
      BY <3>3, <3>1 DEF ToSet
    <3> QED
      BY <1>2, <2>1, <3>1, <3>2, <3>3, <3>4
  <2>3. CASE AppendQueued(id, part)
    <3>1. /\ seen' = Evict(Append(seen, id)) /\ queue' = Append(queue, [id |-> id, part |-> part])
          /\ accepted' = accepted \union {id} /\ Len(queue) < ledger.queueMax
      BY <2>3 DEF AppendQueued
    <3>2. queue' \in Seq(Entry) /\ Len(queue') = Len(queue) + 1 /\ Ids(queue') = Ids(queue) \union {id}
      BY <1>2, <3>1, IdsOf
    <3>3. /\ seen' \in Seq(RequestIds) /\ Len(seen') <= ledger.lruMax
          /\ ToSet(seen') \subseteq ToSet(seen) \union {id}
      BY <1>3, <1>4, <3>1
    <3>4. Len(queue') <= ledger.queueMax
      BY <1>2, <3>1, <3>2
    <3> QED
      BY <1>2, <2>1, <3>1, <3>2, <3>3, <3>4
  <2>4. CASE AppendRejected(id)
    <3> DEFINE s == Append(seen, id)
    <3>1. /\ seen' = RemoveFirst(Evict(s), id) /\ queue' = queue /\ accepted' = accepted
          /\ id \notin ToSet(seen)
      BY <2>4 DEF AppendRejected
    <3>2. /\ Evict(s) \in Seq(RequestIds) /\ Len(Evict(s)) <= ledger.lruMax
      BY <1>3, <1>4
    <3>3. seen' \in Seq(RequestIds) /\ Len(seen') <= Len(Evict(s))
      BY <3>1, <3>2, RemoveFirstType
    <3>4. ToSet(seen') \subseteq ToSet(seen)
      <4>1. CASE Evict(s) = s
        BY <1>2, <3>1, <4>1, RemoveLast
      <4>2. CASE Evict(s) # s
        <5>1. Len(s) > ledger.lruMax /\ Evict(s) = Tail(s)
          BY <4>2 DEF Evict
        <5>2. seen # <<>> /\ Tail(s) = Append(Tail(seen), id)
          <6>1. Len(seen) > 0
            BY <1>2, <1>4, <5>1
          <6>2. seen # <<>>
            BY <6>1
          <6> QED
            BY <1>2, <6>2, HeadTailAppend
        <5>3. /\ Tail(seen) \in Seq(RequestIds)
              /\ \A i \in 1 .. Len(Tail(seen)) : Tail(seen)[i] = seen[i + 1] /\ i + 1 \in 1 .. Len(seen)
          BY <1>2, <5>2
        <5>4. ToSet(Tail(seen)) \subseteq ToSet(seen)
          BY <1>2, <5>3 DEF ToSet
        <5> QED
          BY <1>2, <3>1, <5>1, <5>2, <5>3, <5>4, RemoveLast
      <4> QED
        BY <4>1, <4>2
    <3> QED
      BY <1>2, <2>1, <3>1, <3>2, <3>3, <3>4
  <2> QED
    BY <1>1, <2>2, <2>3, <2>4
<1>6. TypeOK'
  BY <1>1, <1>5 DEF TypeOK, plan, sink
<1>7. \A f \in Flushers : FlushInv(f)'
  BY <1>1 DEF Inv, FlushInv, Stored, Written, ClaimedUnwritten, plan, sink
<1>8. Kept'
  <2>1. Held \subseteq Held' /\ Ids(queue') \subseteq Held'
    BY <1>1, <1>5 DEF Held
  <2>2. Written' = Written /\ ClaimedUnwritten' = ClaimedUnwritten
    BY <1>1 DEF Written, ClaimedUnwritten, sink
  <2> QED
    BY <1>1, <1>5, <2>1, <2>2 DEF Inv, Kept
<1>9. OnceInv' /\ CompleteMeansWritten'
  BY <1>1 DEF Inv, OnceInv, ClaimsInTable, Pending, CompleteMeansWritten, Written, plan, sink
<1>10. DuplicateMeansAccepted'
  BY <1>5 DEF DuplicateMeansAccepted
<1> QED
  BY <1>6, <1>7, <1>8, <1>9, <1>10 DEF Inv

\* A new process holds nothing, and what is stored and claimed stays.
LEMMA RestartKeepsInv == Inv /\ Restart => Inv'
<1> SUFFICES ASSUME Inv, Restart PROVE Inv'
  OBVIOUS
<1>1. /\ UNCHANGED <<ledger, table, written, appends, failures>> /\ restarts' = restarts + 1
      /\ queue' = <<>> /\ seen' = <<>> /\ stop' = FALSE
      /\ pc' = [f \in Flushers |-> IF f = worker THEN "loop" ELSE "open"]
      /\ batch' = [f \in Flushers |-> <<>>]
      /\ todo' = [f \in Flushers |-> {}] /\ group' = [f \in Flushers |-> {}]
      /\ claimed' = [f \in Flushers |-> {}]
      /\ accepted' = {} /\ dropped' = {}
  BY DEF Restart, sink
<1>2. /\ \A S : <<>> \in Seq(S)
      /\ Len(<<>>) = 0 /\ DOMAIN <<>> = {} /\ ToSet(<<>>) = {}
  BY DEF ToSet
<1>3. ledger \in Deployment
  BY LedgerAssumption DEF Inv, TypeOK
<1>4. TypeOK'
  <2>1. /\ queue' \in Seq(Entry) /\ Len(queue') = 0
        /\ seen' \in Seq(RequestIds) /\ Len(seen') = 0
        /\ batch' \in [Flushers -> Seq(Entry)]
        /\ {todo', group', claimed'} \subseteq [Flushers -> SUBSET Nat]
    BY <1>1, <1>2
  <2>2. \A f \in Flushers : /\ Len(batch'[f]) = 0 /\ todo'[f] = {} /\ group'[f] = {}
                            /\ claimed'[f] = {}
    BY <1>1, <1>2
  <2>3. pc' \in [Flushers -> Labels] /\ restarts' \in Nat
    BY <1>1 DEF Inv, TypeOK, Labels
  <2>4. {ledger.queueMax, ledger.lruMax, ledger.batchMax} \subseteq Nat
    BY <1>3 DEF Deployment
  <2>5. /\ Len(queue') <= ledger'.queueMax /\ Len(seen') <= ledger'.lruMax
        /\ \A f \in Flushers : /\ Len(batch'[f]) <= ledger'.batchMax
                              /\ {todo'[f], group'[f], claimed'[f]} \subseteq SUBSET DOMAIN batch'[f]
    BY <1>1, <2>1, <2>2, <2>4
  <2>6. {accepted', dropped'} \subseteq SUBSET RequestIds /\ stop' \in BOOLEAN
    BY <1>1
  <2> QED
    BY <1>1, <2>1, <2>3, <2>5, <2>6 DEF Inv, TypeOK
<1>5. \A f \in Flushers : FlushInv(f)'
  BY <1>1 DEF FlushInv, Flushers, worker, closer
<1>6. Kept' /\ DuplicateMeansAccepted'
  BY <1>1, <1>2 DEF Kept, DuplicateMeansAccepted
<1>7. OnceInv'
  BY <1>1 DEF Inv, OnceInv, ClaimsInTable, Pending
<1>8. CompleteMeansWritten'
  BY <1>1 DEF Inv, CompleteMeansWritten, Written
<1> QED
  BY <1>4, <1>5, <1>6, <1>7, <1>8 DEF Inv

LEMMA InitInv == Init => Inv
<1> SUFFICES ASSUME Init PROVE Inv
  OBVIOUS
<1>1. /\ \A S : <<>> \in Seq(S)
      /\ Len(<<>>) = 0 /\ DOMAIN <<>> = {} /\ ToSet(<<>>) = {}
  BY DEF ToSet
<1>2. ledger \in Deployment
  BY LedgerAssumption DEF Init
<1>3. TypeOK
  <2>1. /\ queue \in Seq(Entry) /\ Len(queue) = 0
        /\ seen \in Seq(RequestIds) /\ Len(seen) = 0
        /\ batch \in [Flushers -> Seq(Entry)]
        /\ {todo, group, claimed} \subseteq [Flushers -> SUBSET Nat]
    BY <1>1 DEF Init
  <2>2. \A f \in Flushers : /\ Len(batch[f]) = 0 /\ todo[f] = {} /\ group[f] = {}
                            /\ claimed[f] = {}
    BY <1>1 DEF Init
  <2>3. pc \in [Flushers -> Labels]
    BY DEF Init, Labels
  <2>4. {ledger.queueMax, ledger.lruMax, ledger.batchMax} \subseteq Nat
    BY <1>2 DEF Deployment
  <2>5. /\ Len(queue) <= ledger.queueMax /\ Len(seen) <= ledger.lruMax
        /\ \A f \in Flushers : /\ Len(batch[f]) <= ledger.batchMax
                              /\ {todo[f], group[f], claimed[f]} \subseteq SUBSET DOMAIN batch[f]
    BY <2>1, <2>2, <2>4
  <2>6. {accepted, dropped} \subseteq SUBSET RequestIds /\ stop \in BOOLEAN
    BY DEF Init
  <2>7. table \in [RequestIds -> {"absent", "writing", "complete"}] /\ written \in [RequestIds -> Nat]
    BY DEF Init
  <2>8. ledger \in Deployments /\ {appends, failures, restarts} \subseteq Nat
    BY DEF Init
  <2> QED
    BY <2>1, <2>3, <2>5, <2>6, <2>7, <2>8 DEF TypeOK
<1>4. \A f \in Flushers : FlushInv(f)
  BY DEF Init, FlushInv, Flushers, worker, closer
<1>5. Kept /\ DuplicateMeansAccepted
  BY <1>1 DEF Init, Kept, DuplicateMeansAccepted
<1>6. OnceInv /\ CompleteMeansWritten
  BY DEF Init, OnceInv, Pending, CompleteMeansWritten
<1> QED
  BY <1>3, <1>4, <1>5, <1>6 DEF Inv

LEMMA StepInv == Inv /\ [Next]_vars => Inv'
<1> SUFFICES ASSUME Inv, [Next]_vars PROVE Inv'
  OBVIOUS
<1>1. ASSUME NEW f \in Flushers, Flush(f) PROVE Inv'
  BY <1>1, TakingKeepsInv, StartFlushKeepsInv, WriteFileKeepsInv, TurningKeepsInv, ClaimKeepsInv,
     PutObjectKeepsInv, MarkKeepsInv, EndGroupsKeepsInv, RequeueKeepsInv, RequeueFullKeepsInv
  DEF Flush
<1>2. CASE Worker
  BY <1>1, <1>2, WaitingKeepsInv, TakingKeepsInv DEF Worker, Flushers
<1>3. CASE Close \/ Closer
  BY <1>1, <1>3, WaitingKeepsInv DEF Closer, Flushers
<1>4. CASE \E id \in ledger.ids, part \in ledger.parts : Bill(id, part)
  BY <1>4, BillKeepsInv
<1>5. CASE Restart
  BY <1>5, RestartKeepsInv
<1>6. CASE UNCHANGED vars
  <2>1. UNCHANGED <<ledger, queue, seen, stop, pc, batch, todo, group, claimed, table, written,
                    accepted, dropped, appends, failures, restarts>>
    BY <1>6 DEF vars, memory, sink, history, counters
  <2>2. TypeOK' /\ DuplicateMeansAccepted' /\ CompleteMeansWritten'
    BY <2>1 DEF Inv, TypeOK, DuplicateMeansAccepted, CompleteMeansWritten, Written
  <2>3. Kept' /\ \A f \in Flushers : FlushInv(f)'
    BY <2>1 DEF Inv, Kept, Held, FlushInv, Stored, Written, ClaimedUnwritten
  <2>4. OnceInv'
    BY <2>1 DEF Inv, OnceInv, Pending, ClaimsInTable
  <2> QED
    BY <2>2, <2>3, <2>4 DEF Inv
<1> QED
  BY <1>2, <1>3, <1>4, <1>5, <1>6 DEF Next

LEMMA Invariance == Spec => []Inv
BY InitInv, StepInv, PTL DEF Spec

----------------------------------------------------------------------------
\* Queue, LRU, batches and table stay well formed and within their bounds,
\* whatever calls fail and however append, worker, close and restarts interleave.
THEOREM LedgerTypeCorrect == Spec => []TypeOK
<1>1. Inv => TypeOK
  BY DEF Inv
<1> QED
  BY <1>1, Invariance, PTL

\* An accepted record is queued, in the hands of a flusher or stored, unless a
\* requeue found the queue full or a claim was left behind (_flush_batch).
THEOREM RecordsKept == Spec => []Kept
<1>1. Inv => Kept
  BY DEF Inv
<1> QED
  BY <1>1, Invariance, PTL

\* No request is stored twice under the table, though batches are retried, the
\* worker and close() flush at once and processes die (_claim_aws_request_id).
THEOREM StoredAtMostOnce == Spec => []AtMostOnce
<1>1. Inv => AtMostOnce
  BY DEF Inv, OnceInv, AtMostOnce
<1> QED
  BY <1>1, Invariance, PTL

\* An item the table calls complete is in the bucket (_mark_aws_request_complete).
THEOREM CompleteIsWritten == Spec => []CompleteMeansWritten
<1>1. Inv => CompleteMeansWritten
  BY DEF Inv
<1> QED
  BY <1>1, Invariance, PTL

\* append suppresses no call under an id that it never accepted (_BoundedLRUSet).
THEOREM DuplicatesWereAccepted == Spec => []DuplicateMeansAccepted
<1>1. Inv => DuplicateMeansAccepted
  BY DEF Inv
<1> QED
  BY <1>1, Invariance, PTL

----------------------------------------------------------------------------
\* While no call failed and no process was replaced, no batch goes back to the queue,
\* and a claim without its record is in the hands of the flusher that made it.
CalmInv ==
  failures + restarts = 0 =>
    /\ \A f \in Flushers : pc[f] # "requeue"
    /\ \A id \in RequestIds :
         table[id] = "writing" /\ written[id] = 0 =>
           \E f \in Flushers : \E i \in Pending(f) : batch[f][i].id = id

\* Only flusher f moves.
OnlyMoves(f) == \A g \in Flushers \ {f} : /\ pc'[g] = pc[g] /\ batch'[g] = batch[g]
                                          /\ claimed'[g] = claimed[g]

\* What a step has to show: it is a step of the promise or changes nothing of it.
Promised == CalmInv' /\ [Promise!Next]_(Promise!vars)

\* The calls that failed and the restarts of a step: as many, or more.
LEMMA Disturbance ==
  ASSUME TypeOK
  PROVE  /\ UNCHANGED <<failures, restarts>> => Promise!MayFail
         /\ failures' = failures + 1 /\ restarts' = restarts =>
              Promise!MayFail /\ (failures + restarts > 0)' /\ CalmInv'
<1>1. failures \in Nat /\ restarts \in Nat
  BY DEF TypeOK
<1>2. ASSUME UNCHANGED <<failures, restarts>> PROVE Promise!MayFail
  BY <1>2 DEF Promise!MayFail
<1>3. ASSUME failures' = failures + 1 /\ restarts' = restarts
      PROVE  Promise!MayFail /\ (failures + restarts > 0)' /\ CalmInv'
  <2>1. failures' + restarts' > 0
    BY <1>1, <1>3
  <2>2. CalmInv'
    BY <1>1, <1>3 DEF CalmInv
  <2>3. Promise!MayFail
    BY <2>1 DEF Promise!MayFail
  <2> QED
    BY <2>1, <2>2, <2>3
<1> QED
  BY <1>2, <1>3

\* A step of one flusher without failures keeps its claims or stores their records.
LEMMA CalmMoves ==
  ASSUME Inv, CalmInv, NEW f \in Flushers, OnlyMoves(f), UNCHANGED <<failures, restarts>>,
         pc[f] # "requeue" => pc'[f] # "requeue",
         written' \in [RequestIds -> Nat], \A id \in RequestIds : written'[id] >= written[id],
         \A id \in RequestIds :
           table'[id] = "writing" => \/ table[id] = "writing"
                                     \/ \E i \in Pending(f)' : batch'[f][i].id = id,
         \A i \in Pending(f) : \/ i \in Pending(f)' /\ batch'[f][i] = batch[f][i]
                               \/ written'[batch[f][i].id] > 0
  PROVE  CalmInv'
<1> SUFFICES ASSUME failures + restarts = 0
             PROVE  /\ \A g \in Flushers : pc'[g] # "requeue"
                    /\ \A id \in RequestIds :
                         table'[id] = "writing" /\ written'[id] = 0 =>
                           \E g \in Flushers : \E i \in Pending(g)' : batch'[g][i].id = id
  BY DEF CalmInv
<1>1. \A g \in Flushers : pc'[g] # "requeue"
  BY DEF CalmInv, OnlyMoves
<1>2. \A g \in Flushers \ {f} : Pending(g)' = Pending(g) /\ batch'[g] = batch[g]
  BY DEF OnlyMoves, Pending
<1>3. ASSUME NEW id \in RequestIds, table'[id] = "writing", written'[id] = 0
      PROVE  \E g \in Flushers : \E i \in Pending(g)' : batch'[g][i].id = id
  <2>1. CASE \E i \in Pending(f)' : batch'[f][i].id = id
    BY <2>1
  <2>2. CASE table[id] = "writing"
    <3>1. written[id] = 0
      BY <1>3 DEF Inv, TypeOK
    <3>2. PICK g \in Flushers : \E i \in Pending(g) : batch[g][i].id = id
      BY <2>2, <3>1 DEF CalmInv
    <3>3. PICK i \in Pending(g) : batch[g][i].id = id
      BY <3>2
    <3>4. CASE g = f
      <4>1. i \in Pending(f)' /\ batch'[f][i] = batch[f][i]
        BY <1>3, <3>3, <3>4
      <4> QED
        BY <3>3, <3>4, <4>1
    <3>5. CASE g # f
      BY <1>2, <3>3, <3>5
    <3> QED
      BY <3>4, <3>5
  <2> QED
    BY <1>3, <2>1, <2>2
<1> QED
  BY <1>1, <1>3

\* Nothing the promise speaks of changes, or only that something failed.
LEMMA Stutter ==
  ASSUME UNCHANGED <<ledger, accepted, dropped, table, written, failures, restarts>>, Held' = Held
  PROVE  [Promise!Next]_(Promise!vars)
BY DEF Promise!vars, ClaimsInTable

LEMMA FailStep ==
  ASSUME UNCHANGED <<ledger, accepted, dropped, written>>, Held' = Held,
         \A id \in RequestIds : table'[id] = "absent" <=> table[id] = "absent",
         (failures + restarts > 0)'
  PROVE  Promise!Next
<1>1. Promise!Fail
  BY DEF Promise!Fail, ClaimsInTable
<1> QED
  BY <1>1 DEF Promise!Next

\* A step of one flusher that leaves sink and history alone and takes its records only
\* from the queue or its batch to the queue or its batch.
LEMMA MovesLocally ==
  ASSUME Inv, CalmInv, NEW f \in Flushers, OnlyMoves(f),
         UNCHANGED <<ledger, table, written, accepted, dropped, failures, restarts>>,
         pc[f] # "requeue" => pc'[f] # "requeue",
         Ids(queue') \union Ids(batch'[f]) = Ids(queue) \union Ids(batch[f]),
         \A i \in Pending(f) : i \in Pending(f)' /\ batch'[f][i] = batch[f][i]
  PROVE  Promised
<1>1. CalmInv'
  <2>1. written' \in [RequestIds -> Nat] /\ \A id \in RequestIds : written'[id] >= written[id]
    BY DEF Inv, TypeOK
  <2> QED
    BY <2>1, CalmMoves
<1>2. Held' = Held
  <2>1. \A g \in Flushers \ {f} : Ids(batch'[g]) = Ids(batch[g])
    BY DEF OnlyMoves
  <2> QED
    BY <2>1 DEF Held
<1> QED
  BY <1>1, <1>2, Stutter DEF Promised

----------------------------------------------------------------------------
\* The steps between the calls of the file, the bucket and the table.
LEMMA WaitingPromised ==
  ASSUME Inv, CalmInv, WorkerLoop \/ WorkerTimeout \/ Close \/ \E timedOut \in BOOLEAN : EndJoin(timedOut)
  PROVE  Promised
<1>1. PICK f \in Flushers :
        /\ pc[f] \in {"loop", "waiting", "open", "joining"} /\ Local
        /\ \E label \in {"loop", "waiting", "done", "joining", "filling"} : pc' = [pc EXCEPT ![f] = label]
        /\ UNCHANGED <<queue, batch, plan>>
  BY DEF Inv, TypeOK, WorkerLoop, WorkerTimeout, Close, EndJoin, Goto, Flushers, plan
<1>2. OnlyMoves(f) /\ pc'[f] # "requeue"
  BY <1>1 DEF OnlyMoves, Inv, TypeOK, plan
<1>3. Pending(f) = {}
  BY <1>1 DEF Pending
<1> QED
  BY <1>1, <1>2, <1>3, MovesLocally DEF Local, sink, history, counters

LEMMA TakingPromised ==
  ASSUME Inv, CalmInv, WorkerGet \/ \E f \in Flushers : Fill(f)
  PROVE  Promised
<1>1. PICK f \in Flushers :
        /\ pc[f] = "filling" \/ pc[f] = "waiting"
        /\ pc' = [pc EXCEPT ![f] = "filling"]
        /\ Take(f) /\ Local
  BY DEF Inv, TypeOK, WorkerGet, Fill, Goto, Flushers
<1>2. queue \in Seq(Entry) /\ batch[f] \in Seq(Entry) /\ queue # <<>> /\ Head(queue) \in Entry
  BY <1>1 DEF Inv, TypeOK, Take
<1>3. /\ queue' = Tail(queue) /\ batch' = [batch EXCEPT ![f] = Append(@, Head(queue))]
      /\ batch'[f] = Append(batch[f], Head(queue))
      /\ UNCHANGED <<claimed, ledger, table, written, accepted, dropped, failures, restarts>>
  BY <1>1 DEF Inv, TypeOK, Take, Local, plan, sink, history, counters
<1>4. OnlyMoves(f) /\ pc'[f] # "requeue" /\ Pending(f) = {}
  BY <1>1, <1>3 DEF OnlyMoves, Inv, TypeOK, Pending
<1>5. Ids(queue') \union Ids(batch'[f]) = Ids(queue) \union Ids(batch[f])
  BY <1>2, <1>3, IdsOf
<1> QED
  BY <1>3, <1>4, <1>5, MovesLocally

LEMMA TurningPromised ==
  ASSUME Inv, CalmInv, NEW f \in Flushers,
         StartFlush(f) \/ NextGroup(f) \/ EndClaims(f) \/ EndMarks(f)
  PROVE  Promised
<1>1. /\ UNCHANGED <<queue, batch, claimed, ledger, table, written, accepted, dropped, failures, restarts>>
      /\ \E label \in {"loop", "closed", "claim", "write", "put"} : pc' = [pc EXCEPT ![f] = label]
      /\ Pending(f) # {} => pc[f] = "claim" /\ pc' = [pc EXCEPT ![f] = "put"]
  <2>1. CASE StartFlush(f)
    BY <2>1 DEF StartFlush, After, Goto, Local, Pending, sink, history, counters
  <2>2. CASE NextGroup(f)
    BY <2>2 DEF NextGroup, Local, Pending, sink, history, counters, Inv, TypeOK
  <2>3. CASE EndClaims(f) \/ EndMarks(f)
    BY <2>3 DEF EndClaims, EndMarks, Goto, Local, Pending, plan, sink, history, counters
  <2> QED
    BY <2>1, <2>2, <2>3
<1>2. OnlyMoves(f) /\ pc'[f] # "requeue"
  BY <1>1 DEF OnlyMoves, Inv, TypeOK
<1>3. \A i \in Pending(f) : i \in Pending(f)'
  BY <1>1 DEF Pending, Inv, TypeOK
<1> QED
  BY <1>1, <1>2, <1>3, MovesLocally

LEMMA RequeuePromised ==
  ASSUME Inv, CalmInv, NEW f \in Flushers, Requeue(f) \/ EndRequeue(f)
  PROVE  Promised
<1>1. /\ UNCHANGED <<claimed, ledger, table, written, accepted, dropped, failures, restarts>>
      /\ pc[f] = "requeue" /\ Pending(f) = {}
      /\ \E label \in Labels : pc' = [pc EXCEPT ![f] = label]
      /\ \A g \in Flushers \ {f} : batch'[g] = batch[g]
  <2>1. CASE Requeue(f)
    BY <2>1 DEF Requeue, Local, Pending, plan, sink, history, counters, Inv, TypeOK
  <2>2. CASE EndRequeue(f)
    BY <2>2 DEF EndRequeue, After, Goto, Local, Pending, plan, sink, history, counters, Labels
  <2> QED
    BY <2>1, <2>2
<1>2. OnlyMoves(f)
  BY <1>1 DEF OnlyMoves, Inv, TypeOK
<1>3. Ids(queue') \union Ids(batch'[f]) = Ids(queue) \union Ids(batch[f])
  <2>1. CASE Requeue(f)
    <3>1. /\ queue' = Append(queue, Head(batch[f])) /\ batch'[f] = Tail(batch[f])
          /\ batch[f] \in Seq(Entry) /\ batch[f] # <<>> /\ queue \in Seq(Entry)
      BY <2>1 DEF Requeue, Inv, TypeOK
    <3> QED
      BY <3>1, IdsOf
  <2>2. CASE EndRequeue(f)
    BY <2>2 DEF EndRequeue
  <2> QED
    BY <2>1, <2>2
<1> QED
  BY <1>1, <1>2, <1>3, MovesLocally

\* A batch that found no room: the promise gives it up.
LEMMA RequeueFullPromised ==
  ASSUME Inv, CalmInv, NEW f \in Flushers, RequeueFull(f)
  PROVE  Promised
<1>1. /\ UNCHANGED <<ledger, queue, claimed, table, written, accepted, failures, restarts>>
      /\ pc[f] = "requeue" /\ dropped' = dropped \union Ids(batch[f])
      /\ batch' = [batch EXCEPT ![f] = <<>>]
      /\ batch'[f] = <<>> /\ \A g \in Flushers \ {f} : batch'[g] = batch[g]
  BY DEF RequeueFull, Forget, sink, counters, plan, Inv, TypeOK
<1>2. failures + restarts > 0 /\ CalmInv'
  BY <1>1 DEF CalmInv, Inv, TypeOK
<1>3. Ids(batch'[f]) = {}
  <2>1. <<>> \in Seq(Entry)
    OBVIOUS
  <2> QED
    BY <1>1, <2>1, IdsOf
<1>4. Held' \subseteq Held /\ Held \ Held' \subseteq dropped' /\ dropped' \subseteq dropped \union Held
  BY <1>1, <1>3 DEF Held
<1>5. Promise!GiveUp
  BY <1>1, <1>2, <1>4 DEF Promise!GiveUp, Promise!Leave, ClaimsInTable
<1> QED
  BY <1>2, <1>5 DEF Promised, Promise!Next

\* The end of a flush: what is not stored is left to a flusher that is about to store
\* it, or its claim was left behind.
LEMMA EndGroupsPromised ==
  ASSUME Inv, CalmInv, NEW f \in Flushers, EndGroups(f)
  PROVE  Promised
<1>1. /\ UNCHANGED <<ledger, queue, claimed, table, written, accepted, dropped, failures, restarts>>
      /\ pc[f] = "claim" /\ todo[f] = {} /\ group[f] = {} /\ claimed[f] = {} /\ FlushInv(f)
      /\ batch' = [batch EXCEPT ![f] = <<>>]
      /\ batch'[f] = <<>> /\ \A g \in Flushers \ {f} : batch'[g] = batch[g]
      /\ \E label \in {"loop", "closed"} : pc' = [pc EXCEPT ![f] = label]
  BY DEF EndGroups, Forget, After, Goto, Local, sink, history, counters, plan, Inv, TypeOK
<1>2. OnlyMoves(f) /\ pc'[f] # "requeue" /\ Pending(f) = {}
  BY <1>1 DEF OnlyMoves, Pending, Inv, TypeOK
<1>3. CalmInv'
  <2>1. written' \in [RequestIds -> Nat] /\ \A id \in RequestIds : written'[id] >= written[id]
    BY <1>1 DEF Inv, TypeOK
  <2> QED
    BY <1>1, <1>2, <2>1, CalmMoves
<1>4. batch[f] \in Seq(Entry) /\ batch'[f] \in Seq(Entry) /\ Ids(batch'[f]) = {}
  BY <1>1, IdsOf DEF Inv, TypeOK
<1>5. Held' \subseteq Held /\ Held \ Held' \subseteq Ids(batch[f])
  BY <1>1, <1>4 DEF Held
<1>6. ASSUME NEW id \in Held \ Held', id \notin Written
      PROVE  failures + restarts > 0 /\ id \in {x \in RequestIds : table[x] # "absent"}
  <2>1. id \in RequestIds /\ Stored(id)
    BY <1>1, <1>4, <1>5, IdsOf DEF FlushInv
  <2>2. table[id] = "writing" /\ written[id] = 0
    BY <1>6, <2>1 DEF Stored, ClaimedUnwritten, Written, Inv, TypeOK
  <2>3. CASE failures + restarts = 0
    <3>1. PICK g \in Flushers : \E i \in Pending(g) : batch[g][i].id = id
      BY <2>1, <2>2, <2>3 DEF CalmInv
    <3>2. g # f /\ batch'[g] = batch[g] /\ batch[g] \in Seq(Entry) /\ Pending(g) \subseteq DOMAIN batch[g]
      BY <1>1, <1>2, <3>1 DEF Pending, Inv, TypeOK
    <3>3. id \in Ids(batch'[g])
      BY <3>1, <3>2, IdsOf
    <3> QED
      BY <1>6, <3>3 DEF Held
  <2> QED
    BY <2>1, <2>2, <2>3 DEF Inv, TypeOK
<1>7. Promise!Stored = Written
  BY DEF Promise!Stored, Written
<1>8. Promise!Leave(Promise!Stored \union Promise!Abandoned)
  BY <1>5, <1>6, <1>7 DEF Promise!Leave, Promise!Abandoned
<1>9. Promise!Release
  BY <1>1, <1>8 DEF Promise!Release, ClaimsInTable
<1> QED
  BY <1>3, <1>9 DEF Promised, Promise!Next

----------------------------------------------------------------------------
\* What Write adds is a store of the promise: of pending records only, and under the
\* table of claimed ones, once.
LEMMA StoreStep ==
  ASSUME Inv, NEW f \in Flushers, NEW places \in SUBSET DOMAIN batch[f], Write(f, places),
         ClaimsInTable => places \subseteq Pending(f),
         UNCHANGED <<ledger, accepted, dropped, table>>,
         Held' \subseteq Held, Held \ Held' \subseteq Written', Promise!MayFail
  PROVE  Promise!Next
<1>1. /\ written' \in [RequestIds -> Nat] /\ written \in [RequestIds -> Nat]
      /\ \A id \in RequestIds :
           /\ written'[id] >= written[id]
           /\ written'[id] # written[id] => \E i \in places : batch[f][i].id = id
      /\ (\A i, j \in places : batch[f][i].id = batch[f][j].id => i = j) =>
           \A id \in RequestIds : written'[id] <= written[id] + 1
  BY WriteAdds DEF Inv, TypeOK
<1>2. ASSUME NEW id \in RequestIds, written'[id] # written[id]
      PROVE  /\ id \in Held
             /\ ClaimsInTable => table[id] # "absent" /\ written[id] = 0 /\ written'[id] = 1
  <2>1. PICK i \in places : batch[f][i].id = id
    BY <1>1, <1>2
  <2>2. id \in Held
    BY <2>1, IdsOf DEF Held, Inv, TypeOK
  <2>3. ASSUME ClaimsInTable PROVE table[id] # "absent" /\ written[id] = 0 /\ written'[id] = 1
    <3>1. /\ \A j \in places : table[batch[f][j].id] = "writing" /\ written[batch[f][j].id] = 0
          /\ \A j, k \in places : batch[f][j].id = batch[f][k].id => j = k
      BY <2>3 DEF Inv, OnceInv
    <3>2. table[id] = "writing" /\ written[id] = 0
      BY <2>1, <3>1
    <3>3. written'[id] <= 1 /\ written'[id] \in Nat
      BY <1>1, <3>1, <3>2
    <3> QED
      BY <1>2, <3>2, <3>3
  <2> QED
    BY <2>2, <2>3
<1>3. Promise!Stored' = Written'
  BY DEF Promise!Stored, Written
<1>4. Promise!Leave(Promise!Stored')
  BY <1>3 DEF Promise!Leave
<1>5. Promise!Store
  BY <1>1, <1>2, <1>4 DEF Promise!Store, ClaimsInTable
<1> QED
  BY <1>5 DEF Promise!Next

LEMMA WriteFilePromised ==
  ASSUME Inv, CalmInv, NEW f \in Flushers, WriteFile(f)
  PROVE  Promised
<1>1. /\ UNCHANGED <<ledger, queue, table, accepted, dropped, restarts>>
      /\ pc[f] = "write" /\ ~ ClaimsInTable /\ TypeOK
      /\ batch[f] \in Seq(Entry) /\ DOMAIN batch[f] = 1 .. Len(batch[f]) /\ Len(batch[f]) \in Nat
  BY DEF WriteFile, Inv, FlushInv, ClaimsInTable, history, TypeOK
<1>2. CASE \E n \in 0 .. IF ledger.torn THEN Len(batch[f]) ELSE 0 : Fail(f) /\ Write(f, 1 .. n)
  <2>1. PICK n \in Nat : n <= Len(batch[f]) /\ Fail(f) /\ Write(f, 1 .. n)
    BY <1>1, <1>2
  <2>2. 1 .. n \in SUBSET DOMAIN batch[f] /\ batch' = batch /\ failures' = failures + 1
    BY <1>1, <2>1 DEF Fail
  <2>3. Promise!MayFail /\ CalmInv' /\ Held' = Held
    BY <1>1, <2>2, Disturbance DEF Held
  <2> QED
    BY <1>1, <2>1, <2>2, <2>3, StoreStep DEF Promised
<1>3. CASE Write(f, DOMAIN batch[f]) /\ Forget(f) /\ UNCHANGED <<plan, failures>>
  <2>1. /\ batch' = [batch EXCEPT ![f] = <<>>] /\ UNCHANGED <<claimed, failures, restarts>>
        /\ \E label \in {"loop", "closed"} : pc' = [pc EXCEPT ![f] = label]
    BY <1>1, <1>3 DEF Forget, After, Goto, plan
  <2>2. OnlyMoves(f) /\ pc'[f] # "requeue" /\ Pending(f) = {}
    BY <1>1, <2>1 DEF OnlyMoves, Pending, TypeOK
  <2>3. /\ written' \in [RequestIds -> Nat]
        /\ \A id \in RequestIds : written'[id] >= written[id]
        /\ \A i \in DOMAIN batch[f] : written'[batch[f][i].id] > 0
    BY <1>1, <1>3, WriteAdds
  <2>4. CalmInv'
    BY <1>1, <2>1, <2>2, <2>3, CalmMoves
  <2>5. batch'[f] \in Seq(Entry) /\ Ids(batch'[f]) = {}
    <3>1. batch'[f] = <<>> /\ <<>> \in Seq(Entry)
      BY <1>1, <2>1 DEF TypeOK
    <3> QED
      BY <3>1, IdsOf
  <2>6. Ids(batch[f]) \subseteq Written'
    BY <1>1, <2>3, IdsOf DEF Written
  <2>7. Held' \subseteq Held /\ Held \ Held' \subseteq Written'
    BY <1>1, <2>2, <2>5, <2>6 DEF Held, OnlyMoves
  <2>8. Promise!MayFail
    BY <1>1, <2>1, Disturbance
  <2> QED
    BY <1>1, <1>3, <2>4, <2>7, <2>8, StoreStep DEF Promised
<1> QED
  BY <1>2, <1>3 DEF WriteFile

LEMMA PutObjectPromised ==
  ASSUME Inv, CalmInv, NEW f \in Flushers, PutObject(f)
  PROVE  Promised
<1>1. /\ UNCHANGED <<ledger, queue, table, accepted, dropped, restarts>>
      /\ pc[f] = "put" /\ TypeOK /\ Pending(f) = claimed[f]
      /\ claimed[f] \in SUBSET DOMAIN batch[f]
  BY DEF PutObject, Inv, history, TypeOK, Pending
<1>2. batch' = batch /\ Held' = Held
  BY <1>1 DEF PutObject, Fail, Held
<1>3. CASE Fail(f) /\ Write(f, claimed[f])
  <2>1. Promise!MayFail /\ CalmInv'
    BY <1>1, <1>3, Disturbance DEF Fail
  <2> QED
    BY <1>1, <1>2, <1>3, <2>1, StoreStep DEF Promised
<1>4. CASE Fail(f) /\ UNCHANGED written
  <2>1. (failures + restarts > 0)' /\ CalmInv'
    BY <1>1, <1>4, Disturbance DEF Fail
  <2> QED
    BY <1>1, <1>2, <1>4, <2>1, FailStep DEF Promised
<1>5. CASE Write(f, claimed[f]) /\ Goto(f, "mark") /\ UNCHANGED <<batch, plan, failures>>
  <2>1. pc' = [pc EXCEPT ![f] = "mark"] /\ UNCHANGED <<claimed, failures, restarts>>
    BY <1>1, <1>5 DEF Goto, plan
  <2>2. OnlyMoves(f) /\ pc'[f] # "requeue"
    BY <1>1, <1>2, <2>1 DEF OnlyMoves, TypeOK
  <2>3. /\ written' \in [RequestIds -> Nat]
        /\ \A id \in RequestIds : written'[id] >= written[id]
        /\ \A i \in claimed[f] : written'[batch[f][i].id] > 0
    BY <1>1, <1>5, WriteAdds
  <2>4. CalmInv'
    BY <1>1, <2>1, <2>2, <2>3, CalmMoves
  <2>5. Promise!MayFail
    BY <1>1, <2>1, Disturbance
  <2> QED
    BY <1>1, <1>2, <1>5, <2>4, <2>5, StoreStep DEF Promised
<1> QED
  BY <1>3, <1>4, <1>5 DEF PutObject

LEMMA ClaimPromised ==
  ASSUME Inv, CalmInv, NEW f \in Flushers, Claim(f)
  PROVE  Promised
<1>1. /\ batch[f] \in Seq(Entry) /\ group[f] \in SUBSET (1 .. Len(batch[f])) /\ Len(batch[f]) \in Nat
      /\ DOMAIN batch[f] = 1 .. Len(batch[f])
      /\ pc[f] = "claim" /\ group[f] # {} /\ FlushInv(f) /\ TypeOK /\ batch' = batch
      /\ UNCHANGED <<ledger, queue, written, accepted, dropped, restarts>>
  BY DEF Claim, Fail, Inv, TypeOK, history
<1>2. PICK i \in group[f], id \in RequestIds : i = Min(group[f]) /\ id = batch[f][i].id
  <2>1. Min(group[f]) \in group[f] /\ batch[f][Min(group[f])].id \in RequestIds
    BY <1>1, MinIn, IdsOf
  <2> QED
    BY <2>1
<1>3. Held' = Held /\ id \in Held /\ ledger.aws
  BY <1>1, <1>2, IdsOf DEF Held, FlushInv
<1>4. \/ table' = table
      \/ ledger.table /\ table[id] = "absent" /\ table' = [table EXCEPT ![id] = "writing"]
  BY <1>2 DEF Claim, Unclaimed
<1>5. ASSUME table' # table, Promise!MayFail PROVE Promise!Next
  <2>1. ledger.table /\ table[id] = "absent" /\ table' = [table EXCEPT ![id] = "writing"]
    BY <1>4, <1>5
  <2>2. {x \in RequestIds : table'[x] # "absent"} = {x \in RequestIds : table[x] # "absent"} \union {id}
    BY <1>1, <2>1 DEF TypeOK
  <2>3. Promise!Claim(id)
    BY <1>1, <1>3, <1>5, <2>1, <2>2 DEF Promise!Claim, ClaimsInTable
  <2> QED
    BY <2>3 DEF Promise!Next
<1>6. CASE Fail(f)
  <2>1. Promise!MayFail /\ (failures + restarts > 0)' /\ CalmInv'
    BY <1>1, <1>6, Disturbance DEF Fail
  <2>2. table' = table => Promise!Next
    BY <1>1, <1>3, <2>1, FailStep
  <2> QED
    BY <1>5, <2>1, <2>2 DEF Promised
<1>7. CASE /\ group' = [group EXCEPT ![f] = @ \ {i}]
           /\ IF table[id] = "absent" \/ ~ ledger.table
              THEN claimed' = [claimed EXCEPT ![f] = @ \union {i}]
              ELSE UNCHANGED claimed
           /\ table' = IF table[id] = "absent" /\ ledger.table
                       THEN [table EXCEPT ![id] = "writing"] ELSE table
           /\ UNCHANGED <<pc, batch, todo, failures>>
  <2>1. OnlyMoves(f) /\ pc'[f] # "requeue" /\ claimed[f] \subseteq claimed'[f]
    BY <1>1, <1>7 DEF OnlyMoves, TypeOK
  <2>2. Pending(f) = claimed[f] /\ Pending(f)' = claimed'[f]
    BY <1>1, <1>7 DEF Pending
  <2>3. ASSUME NEW x \in RequestIds, table'[x] = "writing", table[x] # "writing"
        PROVE  x = id /\ i \in claimed'[f]
    BY <1>1, <1>7, <2>3 DEF TypeOK
  <2>4. written' \in [RequestIds -> Nat] /\ \A x \in RequestIds : written'[x] >= written[x]
    BY <1>1 DEF TypeOK
  <2>5. CalmInv'
    BY <1>1, <1>2, <1>7, <2>1, <2>2, <2>3, <2>4, CalmMoves
  <2>6. Promise!MayFail
    BY <1>1, <1>7, Disturbance
  <2>7. table' = table => [Promise!Next]_(Promise!vars)
    BY <1>1, <1>3, <1>7, Stutter
  <2> QED
    BY <1>5, <2>5, <2>6, <2>7 DEF Promised
<1> QED
  BY <1>2, <1>6, <1>7 DEF Claim, Unclaimed

LEMMA MarkPromised ==
  ASSUME Inv, CalmInv, NEW f \in Flushers, Mark(f)
  PROVE  Promised
<1>1. /\ batch[f] \in Seq(Entry) /\ claimed[f] \in SUBSET (1 .. Len(batch[f])) /\ Len(batch[f]) \in Nat
      /\ DOMAIN batch[f] = 1 .. Len(batch[f])
      /\ pc[f] = "mark" /\ claimed[f] # {} /\ FlushInv(f) /\ TypeOK /\ batch' = batch
      /\ UNCHANGED <<ledger, queue, written, accepted, dropped, restarts>>
  BY DEF Mark, Fail, Inv, TypeOK, history
<1>2. PICK i \in claimed[f], id \in RequestIds : i = Min(claimed[f]) /\ id = batch[f][i].id
  <2>1. Min(claimed[f]) \in claimed[f] /\ batch[f][Min(claimed[f])].id \in RequestIds
    BY <1>1, MinIn, IdsOf
  <2> QED
    BY <2>1
<1>3. Held' = Held /\ written[id] > 0 /\ ledger.aws
  BY <1>1, <1>2 DEF Held, FlushInv, Written
<1>4. table' = table \/ (ledger.table /\ table' = [table EXCEPT ![id] = "complete"])
  BY <1>2 DEF Mark
<1>5. \A x \in RequestIds : /\ table'[x] = "absent" <=> table[x] = "absent"
                            /\ table'[x] = "writing" => table[x] = "writing"
  <2>1. ledger.table => table[id] # "absent"
    BY <1>3 DEF Inv, OnceInv, ClaimsInTable
  <2> QED
    BY <1>1, <1>4, <2>1 DEF TypeOK
<1>6. CASE Fail(f)
  <2>1. (failures + restarts > 0)' /\ CalmInv'
    BY <1>1, <1>6, Disturbance DEF Fail
  <2> QED
    BY <1>1, <1>3, <1>5, <2>1, FailStep DEF Promised
<1>7. CASE claimed' = [claimed EXCEPT ![f] = @ \ {i}] /\ UNCHANGED <<pc, batch, todo, group, failures>>
  <2>1. OnlyMoves(f) /\ pc'[f] # "requeue" /\ Pending(f) = {}
    BY <1>1, <1>7 DEF OnlyMoves, Pending, TypeOK
  <2>2. written' \in [RequestIds -> Nat] /\ \A x \in RequestIds : written'[x] >= written[x]
    BY <1>1 DEF TypeOK
  <2>3. CalmInv'
    BY <1>1, <1>5, <1>7, <2>1, <2>2, CalmMoves
  <2>4. UNCHANGED Promise!vars
    BY <1>1, <1>3, <1>5, <1>7 DEF Promise!vars, ClaimsInTable
  <2> QED
    BY <2>3, <2>4 DEF Promised
<1> QED
  BY <1>2, <1>6, <1>7 DEF Mark

----------------------------------------------------------------------------
\* append accepts a record into the queue, or changes nothing of the promise.
LEMMA BillPromised ==
  ASSUME Inv, CalmInv, NEW id \in ledger.ids, NEW part \in ledger.parts, Bill(id, part)
  PROVE  Promised
<1>1. /\ UNCHANGED <<ledger, pc, batch, claimed, table, written, dropped, failures, restarts>>
      /\ ledger \in Deployment /\ queue \in Seq(Entry)
  BY LedgerAssumption DEF Bill, plan, sink, Inv, TypeOK
<1>2. id \in RequestIds /\ [id |-> id, part |-> part] \in Entry
  BY <1>1 DEF Deployment, Entry
<1>3. CalmInv'
  BY <1>1 DEF CalmInv, Pending
<1>4. CASE AppendDuplicate(id) \/ AppendRejected(id)
  <2>1. UNCHANGED <<queue, accepted>>
    BY <1>4 DEF AppendDuplicate, AppendRejected
  <2>2. Held' = Held
    BY <1>1, <2>1 DEF Held
  <2> QED
    BY <1>1, <1>3, <2>1, <2>2, Stutter DEF Promised
<1>5. CASE AppendQueued(id, part)
  <2>1. /\ accepted' = accepted \union {id}
        /\ Ids(queue') = Ids(queue) \union {id}
    BY <1>1, <1>2, <1>5, IdsOf DEF AppendQueued
  <2>2. Held' = Held \union {id}
    BY <1>1, <2>1 DEF Held
  <2>3. Promise!Accept(id)
    BY <1>1, <2>1, <2>2 DEF Promise!Accept, ClaimsInTable
  <2> QED
    BY <1>2, <1>3, <2>3 DEF Promised, Promise!Next
<1> QED
  BY <1>4, <1>5 DEF Bill

\* A process that is replaced forgets its records; the claims and what is stored stay.
LEMMA RestartPromised ==
  ASSUME Inv, CalmInv, Restart
  PROVE  Promised
<1>1. /\ UNCHANGED <<ledger, table, written, failures>> /\ restarts' = restarts + 1
      /\ queue' = <<>> /\ batch' = [f \in Flushers |-> <<>>]
      /\ accepted' = {} /\ dropped' = {}
  BY DEF Restart, sink
<1>2. (failures + restarts > 0)' /\ CalmInv'
  <2>1. failures' + restarts' > 0 /\ failures' + restarts' # 0
    BY <1>1 DEF Inv, TypeOK
  <2> QED
    BY <2>1 DEF CalmInv
<1>3. Held' = {}
  <2>1. <<>> \in Seq(Entry)
    OBVIOUS
  <2>2. Ids(<<>>) = {}
    BY <2>1, IdsOf
  <2> QED
    BY <1>1, <2>2 DEF Held
<1>4. Promise!Restart
  BY <1>1, <1>2, <1>3 DEF Promise!Restart, ClaimsInTable
<1> QED
  BY <1>2, <1>4 DEF Promised, Promise!Next

LEMMA InitPromised == Init => CalmInv /\ Promise!Init
<1> SUFFICES ASSUME Init PROVE CalmInv /\ Promise!Init
  OBVIOUS
<1>1. CalmInv
  BY DEF Init, CalmInv
<1>2. Held = {}
  <2>1. <<>> \in Seq(Entry)
    OBVIOUS
  <2>2. Ids(<<>>) = {}
    BY <2>1, IdsOf
  <2> QED
    BY <2>2 DEF Init, Held
<1>3. {id \in RequestIds : table[id] # "absent"} = {}
  BY DEF Init
<1>4. ledger \in Deployment
  BY LedgerAssumption DEF Init
<1>5. ClaimsInTable \in BOOLEAN
  BY <1>4 DEF ClaimsInTable, Deployment
<1>6. (failures + restarts > 0) = FALSE
  BY DEF Init
<1>7. accepted = {} /\ dropped = {} /\ written = [id \in RequestIds |-> 0]
  BY DEF Init
<1> QED
  BY <1>1, <1>2, <1>3, <1>5, <1>6, <1>7 DEF Promise!Init

LEMMA StepPromised == Inv /\ CalmInv /\ [Next]_vars => Promised
<1> SUFFICES ASSUME Inv, CalmInv, [Next]_vars PROVE Promised
  OBVIOUS
<1>1. ASSUME NEW f \in Flushers, Flush(f) PROVE Promised
  BY <1>1, TakingPromised, TurningPromised, WriteFilePromised, ClaimPromised, PutObjectPromised,
     MarkPromised, EndGroupsPromised, RequeuePromised, RequeueFullPromised
  DEF Flush
<1>2. CASE Worker
  BY <1>1, <1>2, WaitingPromised, TakingPromised DEF Worker, Flushers
<1>3. CASE Close \/ Closer
  BY <1>1, <1>3, WaitingPromised DEF Closer, Flushers
<1>4. CASE \E id \in ledger.ids, part \in ledger.parts : Bill(id, part)
  BY <1>4, BillPromised
<1>5. CASE Restart
  BY <1>5, RestartPromised
<1>6. CASE UNCHANGED vars
  <2>1. UNCHANGED <<ledger, queue, pc, batch, claimed, table, written, accepted, dropped, failures, restarts>>
    BY <1>6 DEF vars, memory, sink, history, counters
  <2>2. CalmInv'
    BY <2>1 DEF CalmInv, Pending
  <2>3. Held' = Held
    BY <2>1 DEF Held
  <2> QED
    BY <2>1, <2>2, <2>3, Stutter DEF Promised
<1> QED
  BY <1>2, <1>3, <1>4, <1>5, <1>6 DEF Next

LEMMA CalmInvariance == Spec => []CalmInv
<1>1. Init => Inv /\ CalmInv
  BY InitInv, InitPromised
<1>2. Inv /\ CalmInv /\ [Next]_vars => (Inv /\ CalmInv)'
  BY StepInv, StepPromised DEF Promised
<1> QED
  BY <1>1, <1>2, PTL DEF Spec

----------------------------------------------------------------------------
\* Queue, batches, threads, partitions, S3 and DynamoDB, with every failing call and
\* every restart, implement the promise: under the table a record is stored once and
\* after its claim, and what is accepted is pending until it is stored, given up for
\* want of room, or claimed by an attempt that failed.
THEOREM LedgerKeepsPromise == Spec => KeepsPromise
<1>1. Init => Inv /\ CalmInv /\ Promise!Init
  BY InitInv, InitPromised
<1>2. Inv /\ CalmInv /\ [Next]_vars => (Inv /\ CalmInv)' /\ [Promise!Next]_(Promise!vars)
  BY StepInv, StepPromised DEF Promised
<1> QED
  BY <1>1, <1>2, PTL DEF Spec, KeepsPromise, Promise!Spec

\* The promise keeps its accounts.
LEMMA PromiseStep == Promise!Accounted /\ [Promise!Next]_(Promise!vars) => Promise!Accounted'
<1> SUFFICES ASSUME Promise!Accounted, [Promise!Next]_(Promise!vars) PROVE Promise!Accounted'
  OBVIOUS
<1> USE DEF Promise!Accounted, Promise!Stored, Promise!Abandoned
<1>1. ASSUME NEW id \in RequestIds, Promise!Accept(id) \/ Promise!Claim(id)
      PROVE  Promise!Accounted'
  <2>1. CASE Promise!Accept(id)
    BY <2>1 DEF Promise!Accept
  <2>2. CASE Promise!Claim(id)
    <3>1. /\ ClaimsInTable /\ ClaimsInTable'
          /\ UNCHANGED <<accepted, dropped, Held, written>>
          /\ {x \in RequestIds : table[x] # "absent"}'
               = {x \in RequestIds : table[x] # "absent"} \union {id}
          /\ failures + restarts > 0 => failures' + restarts' > 0
      BY <2>2, Zenon DEF Promise!Claim, Promise!MayFail
    <3> QED
      BY <3>1
  <2> QED
    BY <1>1, <2>1, <2>2
<1>2. CASE Promise!Store
  <2>1. /\ UNCHANGED <<ClaimsInTable, accepted, dropped, {id \in RequestIds : table[id] # "absent"}>>
        /\ failures + restarts > 0 => failures' + restarts' > 0
        /\ Held \ Held' \subseteq {id \in RequestIds : written'[id] > 0}
        /\ written' \in [RequestIds -> Nat] /\ \A id \in RequestIds : written'[id] >= written[id]
    BY <1>2, Zenon DEF Promise!Store, Promise!MayFail, Promise!Leave
  <2> QED
    BY <2>1
<1>3. CASE Promise!Release
  BY <1>3 DEF Promise!Release, Promise!Leave
<1>4. CASE Promise!GiveUp
  BY <1>4 DEF Promise!GiveUp, Promise!Leave
<1>5. CASE Promise!Fail
  BY <1>5 DEF Promise!Fail
<1>6. CASE Promise!Restart
  BY <1>6 DEF Promise!Restart
<1>7. CASE UNCHANGED Promise!vars
  BY <1>7 DEF Promise!vars
<1> QED
  BY <1>1, <1>2, <1>3, <1>4, <1>5, <1>6, <1>7 DEF Promise!Next

\* What is accepted is pending, stored, given up or left behind with its claim; nothing
\* is given up before a call failed, and there are no claims without the table.
THEOREM LedgerAccounts == Spec => []Promise!Accounted
<1>1. Promise!Init => Promise!Accounted
  <2> SUFFICES ASSUME Promise!Init PROVE Promise!Accounted
    OBVIOUS
  <2>1. /\ accepted = {} /\ dropped = {} /\ {id \in RequestIds : table[id] # "absent"} = {}
        /\ written = [id \in RequestIds |-> 0]
    BY DEF Promise!Init
  <2> QED
    BY <2>1 DEF Promise!Accounted
<1> QED
  BY <1>1, PromiseStep, LedgerKeepsPromise, PTL DEF KeepsPromise, Promise!Spec

\* A ledger none of whose calls failed, in a process that was never replaced, has every
\* record it accepted in memory or stored, whatever partitions and threads it used.
UndisturbedLosesNothing == failures + restarts = 0 => accepted \subseteq Held \union Written

THEOREM UndisturbedKeepsRecords == Spec => []UndisturbedLosesNothing
<1>1. Promise!Accounted /\ TypeOK => UndisturbedLosesNothing
  <2> SUFFICES ASSUME Promise!Accounted, TypeOK, failures + restarts = 0
               PROVE  accepted \subseteq Held \union Written
    BY DEF UndisturbedLosesNothing
  <2>1. ~ (failures + restarts > 0)
    BY DEF TypeOK
  <2> QED
    BY <2>1 DEF Promise!Accounted, Promise!Stored, Promise!Abandoned, Written
<1> QED
  BY <1>1, LedgerAccounts, LedgerTypeCorrect, PTL

\* The comment of _flush_batch holds where there is no table: an accepted record is
\* lost only to a full queue (billing_ledger.py:236-238).
THEOREM WithoutTableRequeuedIsWritten == Spec => [](ClaimsInTable \/ RequeuedIsWritten)
<1>1. Promise!Accounted => ClaimsInTable \/ RequeuedIsWritten
  <2> SUFFICES ASSUME Promise!Accounted, ~ ClaimsInTable PROVE RequeuedIsWritten
    OBVIOUS
  <2>1. Promise!Abandoned = {}
    BY DEF Promise!Accounted, Promise!Abandoned
  <2> QED
    BY <2>1 DEF Promise!Accounted, Promise!Stored, RequeuedIsWritten, Written
<1> QED
  BY <1>1, LedgerAccounts, PTL

----------------------------------------------------------------------------
\* close() takes one batch: where a batch can hold a full queue, and while nothing
\* failed, it leaves nothing in the queue.  Nothing is appended once it was called, and
\* no batch goes back.
DrainInv ==
  failures + restarts = 0 /\ ledger.queueMax <= ledger.batchMax =>
    /\ pc[closer] = "filling" => Len(queue) + Len(batch[closer]) <= ledger.queueMax
    /\ pc[closer] \in {"write", "claim", "put", "mark", "closed"} => queue = <<>>

\* Taking the head shortens a sequence, and none is shorter than the empty one.
LEMMA Shorter ==
  ASSUME NEW s \in Seq(Entry)
  PROVE  /\ Len(s) \in Nat
         /\ s # <<>> => Len(Tail(s)) = Len(s) - 1 /\ Head(s) \in Entry
         /\ Len(s) = 0 => s = <<>>
OBVIOUS

\* A step that leaves the closer alone does not lengthen the queue of a gateway that
\* shuts down.
LEMMA OthersDrain ==
  ASSUME Inv, DrainInv, UNCHANGED ledger, pc'[closer] = pc[closer], batch'[closer] = batch[closer],
         failures + restarts = 0,
         queue' = queue \/ (queue # <<>> /\ queue' = Tail(queue))
  PROVE  DrainInv'
<1> SUFFICES ASSUME ledger.queueMax <= ledger.batchMax
             PROVE  /\ pc[closer] = "filling" => Len(queue') + Len(batch[closer]) <= ledger.queueMax
                    /\ pc[closer] \in {"write", "claim", "put", "mark", "closed"} => queue' = <<>>
  BY DEF DrainInv
<1>1. queue \in Seq(Entry) /\ batch[closer] \in Seq(Entry) /\ ledger.queueMax \in Nat
  BY LedgerAssumption DEF Inv, TypeOK, Deployment, Flushers
<1>2. Len(queue') <= Len(queue) /\ Len(queue') \in Nat /\ Len(queue) \in Nat /\ Len(batch[closer]) \in Nat
  BY <1>1, Shorter
<1>3. queue = <<>> => queue' = <<>>
  OBVIOUS
<1> QED
  BY <1>1, <1>2, <1>3 DEF DrainInv

\* The steps of the worker, while nothing fails.
LEMMA WorkerDrains ==
  ASSUME Inv, CalmInv, DrainInv, Worker, (failures + restarts = 0)'
  PROVE  DrainInv'
<1>1. TypeOK /\ worker # closer /\ worker \in Flushers /\ closer \in Flushers
  BY DEF Inv, Flushers, worker, closer
<1>2. failures + restarts = 0 /\ ~ Fail(worker) /\ UNCHANGED <<failures, restarts, ledger>>
  <2>1. UNCHANGED <<restarts, ledger>> /\ (failures' = failures \/ Fail(worker))
    BY DEF Worker, Flush, WorkerLoop, WorkerGet, WorkerTimeout, Fill, StartFlush, WriteFile, NextGroup,
           Claim, EndClaims, PutObject, Mark, EndMarks, EndGroups, Requeue, RequeueFull, EndRequeue,
           Local, counters
  <2>2. failures \in Nat /\ restarts \in Nat /\ (Fail(worker) => failures' = failures + 1)
    BY <1>1 DEF TypeOK, Fail
  <2> QED
    BY <2>1, <2>2
<1>3. pc[worker] # "requeue"
  BY <1>1, <1>2 DEF CalmInv
<1>4. pc'[closer] = pc[closer] /\ batch'[closer] = batch[closer]
  <2>1. CASE WorkerLoop \/ WorkerGet \/ WorkerTimeout \/ Fill(worker) \/ StartFlush(worker)
    BY <1>1, <2>1 DEF WorkerLoop, WorkerGet, WorkerTimeout, Fill, StartFlush, Take, After, Goto, TypeOK
  <2>2. CASE \/ WriteFile(worker) \/ NextGroup(worker) \/ Claim(worker) \/ EndClaims(worker)
             \/ PutObject(worker) \/ Mark(worker) \/ EndMarks(worker) \/ EndGroups(worker)
    BY <1>1, <1>2, <2>2 DEF WriteFile, NextGroup, Claim, EndClaims, PutObject, Mark, EndMarks, EndGroups,
                            Forget, After, Goto, TypeOK
  <2>3. CASE Requeue(worker) \/ RequeueFull(worker) \/ EndRequeue(worker)
    BY <1>3, <2>3 DEF Requeue, RequeueFull, EndRequeue
  <2> QED
    BY <2>1, <2>2, <2>3 DEF Worker, Flush
<1>5. queue' = queue \/ (queue # <<>> /\ queue' = Tail(queue))
  BY <1>3 DEF Worker, Flush, WorkerLoop, WorkerGet, WorkerTimeout, Fill, StartFlush, Take, WriteFile,
              NextGroup, Claim, EndClaims, PutObject, Mark, EndMarks, EndGroups, Requeue, RequeueFull,
              EndRequeue
<1> QED
  BY <1>2, <1>4, <1>5, OthersDrain

\* The closer takes what is in the queue, or as much as a batch holds.
LEMMA CloserDrains ==
  ASSUME Inv, CalmInv, DrainInv, Close \/ Closer, (failures + restarts = 0)'
  PROVE  DrainInv'
<1>1. /\ TypeOK /\ closer \in Flushers /\ worker # closer
      /\ queue \in Seq(Entry) /\ batch[closer] \in Seq(Entry)
      /\ ledger.queueMax \in Nat /\ ledger.batchMax \in Nat /\ Len(queue) <= ledger.queueMax
      /\ Len(queue) \in Nat /\ Len(batch[closer]) \in Nat /\ FlushInv(closer)
  BY LedgerAssumption, Shorter DEF Inv, TypeOK, Deployment, Flushers, worker, closer
<1>2. failures + restarts = 0 /\ ~ Fail(closer) /\ UNCHANGED ledger
  <2>1. UNCHANGED <<restarts, ledger>> /\ (failures' = failures \/ Fail(closer))
    BY DEF Close, Closer, EndJoin, Flush, Fill, StartFlush, WriteFile, NextGroup,
           Claim, EndClaims, PutObject, Mark, EndMarks, EndGroups, Requeue, RequeueFull, EndRequeue,
           Local, counters
  <2>2. failures \in Nat /\ restarts \in Nat /\ (Fail(closer) => failures' = failures + 1)
    BY <1>1 DEF TypeOK, Fail
  <2> QED
    BY <2>1, <2>2
<1> SUFFICES ASSUME ledger.queueMax <= ledger.batchMax
             PROVE  /\ pc'[closer] = "filling" => Len(queue') + Len(batch'[closer]) <= ledger.queueMax
                    /\ pc'[closer] \in {"write", "claim", "put", "mark", "closed"} => queue' = <<>>
  BY <1>2 DEF DrainInv
<1>3. /\ pc[closer] = "filling" => Len(queue) + Len(batch[closer]) <= ledger.queueMax
      /\ pc[closer] \in {"write", "claim", "put", "mark", "closed"} => queue = <<>>
      /\ pc[closer] # "requeue"
  BY <1>1, <1>2 DEF DrainInv, CalmInv
<1>4. CASE Close
  <2>1. pc'[closer] = "joining"
    BY <1>1, <1>4 DEF Close, Goto, TypeOK
  <2> QED
    BY <2>1
<1>5. CASE EndJoin(FALSE) \/ EndJoin(TRUE)
  <2>1. pc'[closer] = "filling" /\ UNCHANGED <<queue, batch>> /\ batch[closer] = <<>>
    BY <1>1, <1>5 DEF EndJoin, Goto, TypeOK, FlushInv
  <2>2. Len(batch[closer]) = 0
    BY <2>1
  <2> QED
    BY <1>1, <2>1, <2>2
<1>6. CASE Fill(closer)
  <2>1. /\ pc'[closer] = "filling" /\ pc[closer] = "filling" /\ queue # <<>> /\ queue' = Tail(queue)
        /\ batch'[closer] = Append(batch[closer], Head(queue))
    BY <1>1, <1>6 DEF Fill, Take, TypeOK
  <2>2. Len(queue') = Len(queue) - 1 /\ Head(queue) \in Entry
    BY <1>1, <2>1, Shorter
  <2>3. Len(batch'[closer]) = Len(batch[closer]) + 1
    BY <1>1, <2>1, <2>2
  <2> QED
    BY <1>1, <1>3, <2>1, <2>2, <2>3
<1>7. CASE StartFlush(closer)
  <2>1. /\ pc[closer] = "filling" /\ queue' = queue
        /\ Len(batch[closer]) = ledger.batchMax \/ queue = <<>>
        /\ pc'[closer] \in {"closed", "claim", "write"}
    BY <1>1, <1>7 DEF StartFlush, After, Goto, TypeOK
  <2>2. queue = <<>>
    <3>1. Len(batch[closer]) = ledger.batchMax => Len(queue) = 0
      BY <1>1, <1>3, <2>1
    <3> QED
      BY <1>1, <2>1, <3>1, Shorter
  <2> QED
    BY <2>1, <2>2
<1>8. CASE \/ WriteFile(closer) \/ NextGroup(closer) \/ Claim(closer) \/ EndClaims(closer)
           \/ PutObject(closer) \/ Mark(closer) \/ EndMarks(closer) \/ EndGroups(closer)
  <2>1. pc[closer] \in {"write", "claim", "put", "mark"} /\ queue' = queue
    BY <1>8 DEF WriteFile, NextGroup, Claim, EndClaims, PutObject, Mark, EndMarks, EndGroups
  <2>2. pc'[closer] # "filling"
    BY <1>1, <1>2, <1>8 DEF WriteFile, NextGroup, Claim, EndClaims, PutObject, Mark, EndMarks, EndGroups,
                            Forget, After, Goto, TypeOK
  <2> QED
    BY <1>3, <2>1, <2>2
<1>9. CASE Requeue(closer) \/ RequeueFull(closer) \/ EndRequeue(closer)
  BY <1>3, <1>9 DEF Requeue, RequeueFull, EndRequeue
<1> QED
  BY <1>4, <1>5, <1>6, <1>7, <1>8, <1>9 DEF Closer, Flush

LEMMA StepDrains == Inv /\ CalmInv /\ DrainInv /\ [Next]_vars => DrainInv'
<1> SUFFICES ASSUME Inv, CalmInv, DrainInv, [Next]_vars, (failures + restarts = 0)' PROVE DrainInv'
  BY DEF DrainInv
<1>1. CASE Worker
  BY <1>1, WorkerDrains
<1>2. CASE Close \/ Closer
  BY <1>2, CloserDrains
<1>3. CASE \E id \in ledger.ids, part \in ledger.parts : Bill(id, part)
  <2>1. pc'[closer] = pc[closer] /\ pc[closer] = "open"
    BY <1>3 DEF Bill
  <2> QED
    BY <2>1 DEF DrainInv
<1>4. CASE Restart
  <2>1. restarts' = restarts + 1 /\ failures' = failures /\ restarts \in Nat /\ failures \in Nat
    BY <1>4 DEF Restart, Inv, TypeOK
  <2> QED
    BY <2>1
<1>5. CASE UNCHANGED vars
  <2>1. UNCHANGED <<ledger, queue, pc, batch, failures, restarts>>
    BY <1>5 DEF vars, memory, counters
  <2> QED
    BY <2>1 DEF DrainInv
<1> QED
  BY <1>1, <1>2, <1>3, <1>4, <1>5 DEF Next

\* "Flushes on shutdown." (docs/20-pr10-core-hardening.md:82) holds where one batch holds
\* a full queue and no process was replaced: a close() that waited for the worker leaves
\* no accepted record unwritten unless a call failed.
THEOREM FlushesWhereABatchHoldsTheQueue ==
  Spec => [](ledger.queueMax <= ledger.batchMax /\ restarts = 0 => FlushesOnShutdown)
<1>1. Init => DrainInv
  BY DEF Init, DrainInv, Flushers, closer, worker
<1>2. DrainInv /\ Inv /\ UndisturbedLosesNothing
        => (ledger.queueMax <= ledger.batchMax /\ restarts = 0 => FlushesOnShutdown)
  <2> SUFFICES ASSUME DrainInv, Inv, UndisturbedLosesNothing,
                      ledger.queueMax <= ledger.batchMax, restarts = 0, failures = 0,
                      pc[closer] = "closed", pc[worker] = "done"
               PROVE  accepted \subseteq Written
    BY DEF FlushesOnShutdown
  <2>1. queue = <<>> /\ accepted \subseteq Held \union Written
    BY DEF DrainInv, UndisturbedLosesNothing
  <2>2. \A f \in Flushers : batch[f] = <<>>
    BY DEF Inv, FlushInv, Flushers
  <2>3. Ids(<<>>) = {}
    <3>1. <<>> \in Seq(Entry)
      OBVIOUS
    <3> QED
      BY <3>1, IdsOf
  <2> QED
    BY <2>1, <2>2, <2>3 DEF Held
<1> QED
  BY <1>1, <1>2, StepDrains, Invariance, CalmInvariance, UndisturbedKeepsRecords, PTL DEF Spec
============================================================================
