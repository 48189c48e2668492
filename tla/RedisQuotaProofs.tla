-------------------------- MODULE RedisQuotaProofs --------------------------
(***************************************************************************)
(* What the scripts in Redis promise about gateways with clocks of their   *)
(* own, for any number of gateways, users and calls, any clocks, any       *)
(* limits, and connections and processes that fail at any time.            *)
(***************************************************************************)
EXTENDS RedisQuota, FiniteSetTheorems, TLAPS

LEMMA Constants ==
  /\ Window \in Nat \ {0} /\ Ttl \in Nat \ {0} /\ KeyTtl \in Nat
  /\ KeyTtl >= Window /\ KeyTtl >= Ttl
  /\ MaxTime \in Nat /\ MaxCalls \in Nat /\ MaxRetries \in Nat
  /\ TokenEstimates \subseteq Nat
  /\ \A g \in Gateways : Skew[g] \in Nat
  /\ RequestLimit \in Limits /\ TokenLimit \in Limits /\ ConcurrencyLimit \in Limits
BY RedisAssumption DEF KeyTtl

LEMMA StampsAreTimes ==
  /\ \A s \in Stamps : s \in Nat
  /\ \A t \in 0 .. MaxTime, g \in Gateways : t + Skew[g] \in Stamps
<1>1. \A s \in Stamps : s \in Nat
  <2> SUFFICES ASSUME NEW s \in Stamps PROVE s \in Nat
    OBVIOUS
  <2>1. PICK g \in Gateways : s \in {t + Skew[g] : t \in 0 .. MaxTime}
    BY DEF Stamps
  <2>2. PICK t \in 0 .. MaxTime : s = t + Skew[g]
    BY <2>1
  <2> QED
    BY <2>2, Constants
<1> QED
  BY <1>1 DEF Stamps

----------------------------------------------------------------------------
\* What a client waits for.
Replies == Reasons \union {"none", "quota_allowed", "finished"}
Calls == [op : {"check", "finish"}, id : Ids, gateway : Gateways, user : Users,
          tokens : TokenEstimates, stamp : Stamps, retries : 0 .. MaxRetries, reply : Replies]

LEMMA IdleIsNoCall == Idle \notin Calls
BY DEF Idle, Calls

LEMMA BusyCalls ==
  ASSUME TypeOK, NEW g \in Gateways, Busy(g)
  PROVE  /\ call[g] \in Calls
         /\ OwnersOf(call[g]) \subseteq Owners
         /\ Admission(call[g]) \in Admissions
         /\ Slot(call[g]) \in Entry
         /\ Input(call[g]) \in [id : Ids, score : Stamps, tokens : TokenEstimates]
<1>1. call[g] \in Calls
  BY DEF TypeOK, Busy, Calls, Replies
<1> QED
  BY <1>1 DEF Calls, OwnersOf, Owners, Admission, Admissions, Slot, Input, Entry

\* The reason of a refusal is that of a check which holds.
LEMMA FirstDenialHolds ==
  ASSUME NEW c, Denied(c)
  PROVE  \E i \in {1, 2, 3, 4, 5, 6} :
           Denials(c)[i].holds /\ FirstDenial(c) = Denials(c)[i].reason
<1> DEFINE d == Denials(c)
           first(i) == d[i].holds /\ \A j \in 1 .. i - 1 : ~ d[j].holds
<1>0. 1 .. 6 = {1, 2, 3, 4, 5, 6}
  OBVIOUS
<1>1. \E i \in 1 .. 6 : first(i)
  <2>1. PICK k \in 1 .. 6 : d[k].holds
    BY DEF Denied
  <2>2. /\ 1 .. 1 - 1 = {} /\ 1 .. 2 - 1 = {1} /\ 1 .. 3 - 1 = {1, 2}
        /\ 1 .. 4 - 1 = {1, 2, 3} /\ 1 .. 5 - 1 = {1, 2, 3, 4}
        /\ 1 .. 6 - 1 = {1, 2, 3, 4, 5}
    OBVIOUS
  <2> HIDE DEF d
  <2> QED
    BY <1>0, <2>1, <2>2
<1>2. FirstDenial(c) = d[CHOOSE i \in 1 .. 6 : first(i)].reason
  BY DEF FirstDenial
<1> HIDE DEF d
<1>3. first(CHOOSE i \in 1 .. 6 : first(i)) /\ (CHOOSE i \in 1 .. 6 : first(i)) \in 1 .. 6
  <2> HIDE DEF first
  <2> QED
    BY <1>1
<1> QED
  BY <1>0, <1>2, <1>3 DEF d

\* The six checks of the script.
LEMMA ChecksOfTheScript ==
  ASSUME NEW c
  PROVE  LET taken(o) == Cardinality(Fresh(slots[o], c.stamp))
             count(o) == Cardinality(Recent(requests[o], c.stamp))
             tokens(o) == Cardinality(TokenUnits(Recent(inputs[o], c.stamp), c.stamp))
             d == Denials(c)
         IN /\ d[1].reason = "concurrency_quota_exceeded"
            /\ d[1].holds <=> Exceeds(taken(c.user) + 1, ConcurrencyLimit)
            /\ d[2].reason = "tenant_concurrency_quota_exceeded"
            /\ d[2].holds <=> Exceeds(taken(Tenant) + 1, ConcurrencyLimit)
            /\ d[3].reason = "request_quota_exceeded"
            /\ d[3].holds <=> Exceeds(count(c.user) + 1, RequestLimit)
            /\ d[4].reason = "tenant_request_quota_exceeded"
            /\ d[4].holds <=> Exceeds(count(Tenant) + 1, RequestLimit)
            /\ d[5].reason = "input_token_quota_exceeded"
            /\ d[5].holds <=> Exceeds(tokens(c.user) + c.tokens, TokenLimit)
            /\ d[6].reason = "tenant_input_token_quota_exceeded"
            /\ d[6].holds <=> Exceeds(tokens(Tenant) + c.tokens, TokenLimit)
BY DEF Denials, Count

LEMMA FirstDenialType ==
  ASSUME NEW c, Denied(c)
  PROVE  FirstDenial(c) \in Reasons
<1>1. PICK i \in {1, 2, 3, 4, 5, 6} : FirstDenial(c) = Denials(c)[i].reason
  BY FirstDenialHolds
<1>2. \A j \in {1, 2, 3, 4, 5, 6} : Denials(c)[j].reason \in Reasons
  BY ChecksOfTheScript DEF Reasons
<1> QED
  BY <1>1, <1>2

LEMMA InitTypeOK == Init => TypeOK
<1> SUFFICES ASSUME Init PROVE TypeOK
  OBVIOUS
<1>1. 0 \in 0 .. MaxTime /\ 0 \in 0 .. MaxTime + KeyTtl /\ 0 \in 0 .. MaxCalls
  BY Constants
<1> QED
  BY <1>1 DEF Init, TypeOK, Owners

\* A reply is all that a script changes of a call.
LEMMA ReplyType ==
  ASSUME TypeOK, NEW g \in Gateways, Busy(g), NEW reason \in Replies, Reply(g, reason)
  PROVE  /\ call' \in [Gateways -> {Idle} \union Calls]
         /\ call'[g] = [call[g] EXCEPT !.reply = reason] /\ call'[g] \in Calls
         /\ \A h \in Gateways : h # g => call'[h] = call[h]
<1>1. call[g] \in Calls
  BY BusyCalls
<1>2. [call[g] EXCEPT !.reply = reason] \in Calls
  BY <1>1 DEF Calls
<1>3. call \in [Gateways -> {Idle} \union Calls]
  BY DEF TypeOK, Calls, Replies
<1>4. call' = [call EXCEPT ![g] = [call[g] EXCEPT !.reply = reason]]
  BY DEF Reply
<1> QED
  BY <1>2, <1>3, <1>4

LEMMA SweptTypes ==
  ASSUME NEW S, NEW zsets \in [Owners -> SUBSET S], NEW c, NEW new \in SUBSET S
  PROVE  /\ SweptRecords(zsets, c, new) \in [Owners -> SUBSET S]
         /\ SweptSlots(zsets, c, new) \in [Owners -> SUBSET S]
BY DEF SweptRecords, SweptSlots, Recent, Fresh

LEMMA ExtendType ==
  ASSUME now \in 0 .. MaxTime, NEW until \in [Owners -> 0 .. MaxTime + KeyTtl], NEW c
  PROVE  Extend(until, c) \in [Owners -> 0 .. MaxTime + KeyTtl]
<1>1. now + KeyTtl \in 0 .. MaxTime + KeyTtl
  BY Constants
<1> QED
  BY <1>1 DEF Extend

LEMMA StepTypeOK == TypeOK /\ [Next]_vars => TypeOK'
<1> SUFFICES ASSUME TypeOK, [Next]_vars PROVE TypeOK'
  OBVIOUS
<1>0. /\ call \in [Gateways -> {Idle} \union Calls]
      /\ now \in 0 .. MaxTime /\ issued \in 0 .. MaxCalls
      /\ \A g \in Gateways : Clock(g) \in Stamps
  BY StampsAreTimes DEF TypeOK, Calls, Replies, Clock
\* A step that only sends something, or hears of an answer.
<1>1. ASSUME UNCHANGED <<now, store, history>>,
             call' \in [Gateways -> {Idle} \union Calls], issued' \in 0 .. MaxCalls,
             running' \in SUBSET Admissions
      PROVE  TypeOK'
  BY <1>1 DEF TypeOK, store, history, Calls, Replies
<1>2. ASSUME NEW g \in Gateways, NEW u \in Users, NEW tokens \in TokenEstimates, Check(g, u, tokens)
      PROVE  TypeOK'
  <2> DEFINE sent == [op |-> "check", id |-> issued + 1, gateway |-> g, user |-> u, tokens |-> tokens,
                      stamp |-> Clock(g), retries |-> 0, reply |-> "none"]
  <2>1. issued + 1 \in 0 .. MaxCalls /\ issued + 1 \in Ids
    BY <1>0, <1>2, Constants DEF Check, Ids
  <2>2. sent \in Calls
    BY <1>0, <2>1, Constants DEF Calls, Replies
  <2>3. call' = [call EXCEPT ![g] = sent] /\ issued' = issued + 1
        /\ UNCHANGED <<now, store, running, history>>
    BY <1>2 DEF Check
  <2> HIDE DEF sent
  <2>4. call' \in [Gateways -> {Idle} \union Calls]
    BY <1>0, <2>2, <2>3
  <2> QED
    BY <1>1, <2>1, <2>3, <2>4 DEF TypeOK
<1>3. ASSUME NEW g \in Gateways, CheckRefuses(g) PROVE TypeOK'
  <2>1. FirstDenial(call[g]) \in Replies
    BY <1>3, FirstDenialType DEF CheckRefuses, Replies
  <2>2. call' \in [Gateways -> {Idle} \union Calls]
    BY <1>3, <2>1, ReplyType DEF CheckRefuses, Waits
  <2>3. /\ requests' \in [Owners -> SUBSET Entry]
        /\ inputs' \in [Owners -> SUBSET [id : Ids, score : Stamps, tokens : TokenEstimates]]
        /\ slots' \in [Owners -> SUBSET Entry]
    BY <1>3, SweptTypes DEF CheckRefuses, TypeOK
  <2> QED
    BY <1>3, <2>2, <2>3 DEF CheckRefuses, TypeOK, history, Calls, Replies
<1>4. ASSUME NEW g \in Gateways, CheckAdmits(g) PROVE TypeOK'
  <2>1. call' \in [Gateways -> {Idle} \union Calls]
    BY <1>4, ReplyType DEF CheckAdmits, Waits, Replies
  <2>2. /\ Slot(call[g]) \in Entry /\ Admission(call[g]) \in Admissions
        /\ Input(call[g]) \in [id : Ids, score : Stamps, tokens : TokenEstimates]
    BY <1>4, BusyCalls DEF CheckAdmits, Waits
  <2>3. /\ requests' \in [Owners -> SUBSET Entry]
        /\ inputs' \in [Owners -> SUBSET [id : Ids, score : Stamps, tokens : TokenEstimates]]
        /\ slots' \in [Owners -> SUBSET Entry]
    <3>1. /\ {Slot(call[g])} \in SUBSET Entry
          /\ {Input(call[g])} \in SUBSET [id : Ids, score : Stamps, tokens : TokenEstimates]
      BY <2>2
    <3>2. /\ requests' = SweptRecords(requests, call[g], {Slot(call[g])})
          /\ inputs' = SweptRecords(inputs, call[g], {Input(call[g])})
          /\ slots' = SweptSlots(slots, call[g], {Slot(call[g])})
      BY <1>4 DEF CheckAdmits
    <3> QED
      BY <3>1, <3>2, SweptTypes DEF TypeOK
  <2>4. /\ recordsUntil' \in [Owners -> 0 .. MaxTime + KeyTtl]
        /\ slotsUntil' \in [Owners -> 0 .. MaxTime + KeyTtl]
    BY <1>4, ExtendType DEF CheckAdmits, TypeOK
  <2>5. admitted' \in SUBSET Admissions /\ open' \in SUBSET admitted'
    BY <1>4, <2>2 DEF CheckAdmits, TypeOK
  <2> QED
    BY <1>4, <2>1, <2>3, <2>4, <2>5 DEF CheckAdmits, TypeOK, Calls, Replies
<1>5. ASSUME NEW g \in Gateways, FinishRuns(g) PROVE TypeOK'
  <2>1. call' \in [Gateways -> {Idle} \union Calls]
    BY <1>5, ReplyType DEF FinishRuns, Waits, Replies
  <2>2. slots' \in [Owners -> SUBSET Entry]
    BY <1>5 DEF FinishRuns, TypeOK, Removed
  <2>3. slotsUntil' \in [Owners -> 0 .. MaxTime + KeyTtl]
    BY <1>5, ExtendType DEF FinishRuns, TypeOK
  <2>4. open' \in SUBSET admitted'
    BY <1>5 DEF FinishRuns, TypeOK
  <2> QED
    BY <1>5, <2>1, <2>2, <2>3, <2>4 DEF FinishRuns, TypeOK, Calls, Replies
<1>6. ASSUME NEW g \in Gateways, Answered(g) PROVE TypeOK'
  <2>1. running' \in SUBSET Admissions
    BY <1>6, BusyCalls DEF Answered, TypeOK
  <2> QED
    BY <1>0, <1>1, <1>6, <2>1 DEF Answered
<1>7. ASSUME NEW g \in Gateways, NEW a \in running, Finish(g, a) PROVE TypeOK'
  <2> DEFINE sent == [op |-> "finish", id |-> a.id, gateway |-> g, user |-> a.user,
                      tokens |-> a.tokens, stamp |-> a.stamp,
                      retries |-> 0, reply |-> "none"]
  <2>1. sent \in Calls
    BY Constants DEF TypeOK, Admissions, Calls, Replies
  <2>2. call' = [call EXCEPT ![g] = sent] /\ running' \subseteq running
        /\ UNCHANGED <<now, store, issued, history>>
    BY <1>7 DEF Finish
  <2> HIDE DEF sent
  <2>3. call' \in [Gateways -> {Idle} \union Calls]
    BY <1>0, <2>1, <2>2
  <2> QED
    BY <1>1, <2>2, <2>3 DEF TypeOK
<1>8. ASSUME NEW g \in Gateways, Resend(g) PROVE TypeOK'
  <2>1. call[g] \in Calls
    BY <1>8, BusyCalls DEF Resend
  <2>2. [call[g] EXCEPT !.retries = @ + 1, !.reply = "none"] \in Calls
    <3>1. call[g].retries \in 0 .. MaxRetries /\ call[g].retries < MaxRetries
      BY <1>0, <1>8, <2>1, Constants DEF Resend, Calls
    <3>2. call[g].retries + 1 \in 0 .. MaxRetries
      BY <3>1, Constants
    <3>3. "none" \in Replies
      BY DEF Replies
    <3> QED
      BY <2>1, <3>2, <3>3 DEF Calls
  <2>3. call' = [call EXCEPT ![g] = [call[g] EXCEPT !.retries = @ + 1, !.reply = "none"]]
    BY <1>8 DEF Resend
  <2>4. call' \in [Gateways -> {Idle} \union Calls]
    BY <1>0, <2>2, <2>3
  <2> QED
    BY <1>1, <1>8, <2>4 DEF Resend, TypeOK
<1>9. ASSUME NEW g \in Gateways, GiveUp(g) \/ Crash(g) PROVE TypeOK'
  <2>1. call' = [call EXCEPT ![g] = Idle] /\ running' \subseteq running
        /\ UNCHANGED <<now, store, issued, history>>
    BY <1>9 DEF GiveUp, Crash
  <2> QED
    BY <1>0, <1>1, <2>1 DEF TypeOK
<1>10. CASE Tick
  <2>1. now' \in 0 .. MaxTime
    BY <1>0, <1>10, Constants DEF Tick
  <2>2. /\ requests' \in [Owners -> SUBSET Entry]
        /\ inputs' \in [Owners -> SUBSET [id : Ids, score : Stamps, tokens : TokenEstimates]]
        /\ slots' \in [Owners -> SUBSET Entry]
    BY <1>10 DEF Tick, TypeOK
  <2> QED
    BY <1>10, <2>1, <2>2 DEF Tick, TypeOK, history
<1>11. CASE UNCHANGED vars
  BY <1>11 DEF vars, TypeOK
<1> QED
  BY <1>2, <1>3, <1>4, <1>5, <1>6, <1>7, <1>8, <1>9, <1>10, <1>11 DEF Next

\* Whatever fails, the keys in Redis, the calls of the gateways and the history are
\* well formed: every member that was ever written belongs to a call, and every
\* deadline is at most a key's life ahead (CHECK_SCRIPT, FINISH_SCRIPT).
THEOREM RedisTypeCorrect == Spec => []TypeOK
BY InitTypeOK, StepTypeOK, PTL DEF Spec

----------------------------------------------------------------------------
\* Every call has an id of its own: a script that runs a second time for a call finds
\* in the history no other call than this one, and a finish script removes the slot of
\* the call that was admitted under its id.
Checks(g) == Busy(g) /\ call[g].op = "check"

KnownCall(g, c) ==
  /\ c.id <= issued
  /\ c.op = "check" => /\ c.stamp <= Clock(g)
                       /\ \A a \in admitted : a.id = c.id => a = Admission(c)
  /\ c.op = "finish" \/ c.reply = "quota_allowed" => Admission(c) \in admitted

KnownHistory ==
  /\ running \subseteq admitted
  /\ \A a \in admitted : a.id <= issued
  /\ \A a, b \in admitted : a.id = b.id => a = b

CallsKnown ==
  /\ \A g \in Gateways : Busy(g) => KnownCall(g, call[g])
  /\ \A g, h \in Gateways : Checks(g) /\ Checks(h) /\ call[g].id = call[h].id => g = h
  /\ KnownHistory

LEMMA InitCallsKnown == Init => CallsKnown
BY DEF Init, CallsKnown, KnownHistory, Busy, Checks

\* One gateway's call becomes known, and no other is checked under its id.
LEMMA OneCallKnown ==
  ASSUME TypeOK, CallsKnown, NEW g \in Gateways, now' = now, issued' \in {issued, issued + 1},
         \A h \in Gateways : h # g => call'[h] = call[h],
         Busy(g)' => KnownCall(g, call[g])',
         Checks(g)' => (Checks(g) /\ call'[g].id = call[g].id) \/ call'[g].id = issued + 1,
         admitted \subseteq admitted',
         \A a \in admitted' \ admitted : Checks(g) /\ a.id = call[g].id,
         KnownHistory'
  PROVE  CallsKnown'
<1>0. issued \in Int
  BY DEF TypeOK
<1>1. ASSUME NEW h \in Gateways, h # g, Busy(h) PROVE KnownCall(h, call[h])'
  <2>1. KnownCall(h, call[h]) /\ call'[h] = call[h] /\ call[h].id \in Int
    BY <1>1, BusyCalls DEF CallsKnown, Calls, Ids
  <2>2. Admission(call[h])' = Admission(call[h]) /\ Clock(h)' = Clock(h)
    BY <2>1 DEF Admission, Clock
  <2>3. ASSUME call[h].op = "check", NEW a \in admitted', a.id = call[h].id PROVE a = Admission(call[h])
    <3>1. Checks(h)
      BY <1>1, <2>3 DEF Checks
    <3>2. a \in admitted
      BY <1>1, <2>3, <3>1 DEF CallsKnown
    <3> QED
      BY <2>1, <2>3, <3>2 DEF KnownCall
  <2> QED
    BY <1>0, <2>1, <2>2, <2>3 DEF KnownCall
<1>2. \A h \in Gateways : h # g => (Busy(h)' <=> Busy(h)) /\ (Checks(h)' <=> Checks(h))
  BY DEF Busy, Checks
<1>3. \A h \in Gateways : h # g /\ Checks(g)' /\ Checks(h)' => call'[g].id # call'[h].id
  <2> SUFFICES ASSUME NEW h \in Gateways, h # g, Checks(g)', Checks(h)'
               PROVE  call'[g].id # call'[h].id
    OBVIOUS
  <2>1. Checks(h) /\ call'[h].id = call[h].id /\ call[h].id \in Int /\ call[h].id <= issued
    BY <1>2, BusyCalls DEF Checks, CallsKnown, KnownCall, Calls, Ids
  <2> QED
    BY <1>0, <2>1 DEF CallsKnown
<1>4. \A h, k \in Gateways : Checks(h)' /\ Checks(k)' /\ call'[h].id = call'[k].id => h = k
  <2> SUFFICES ASSUME NEW h \in Gateways, NEW k \in Gateways, Checks(h)', Checks(k)',
                      call'[h].id = call'[k].id
               PROVE  h = k
    OBVIOUS
  <2>1. CASE h # g /\ k # g
    BY <1>2, <2>1 DEF CallsKnown
  <2>2. CASE h = g \/ k = g
    BY <1>3, <2>2
  <2> QED
    BY <2>1, <2>2
<1>5. \A h \in Gateways : Busy(h)' => KnownCall(h, call[h])'
  BY <1>1, <1>2
<1> QED
  BY <1>4, <1>5 DEF CallsKnown

LEMMA StepCallsKnown == TypeOK /\ CallsKnown /\ [Next]_vars => CallsKnown'
<1> SUFFICES ASSUME TypeOK, CallsKnown, [Next]_vars PROVE CallsKnown'
  OBVIOUS
<1>0. issued \in Int /\ now \in Int /\ \A g \in Gateways : Skew[g] \in Int /\ Clock(g) \in Int
  BY Constants DEF TypeOK, Clock
<1>1. \A a \in admitted : a.id \in Int
  BY DEF TypeOK, Admissions, Ids
<1>f. call = [h \in Gateways |-> call[h]]
  BY DEF TypeOK
<1>2. ASSUME NEW g \in Gateways, NEW u \in Users, NEW tokens \in TokenEstimates, Check(g, u, tokens)
      PROVE  CallsKnown'
  <2> DEFINE sent == [op |-> "check", id |-> issued + 1, gateway |-> g, user |-> u, tokens |-> tokens,
                      stamp |-> Clock(g), retries |-> 0, reply |-> "none"]
  <2>1. call' = [call EXCEPT ![g] = sent] /\ issued' = issued + 1
        /\ now' = now /\ running' = running /\ admitted' = admitted
    BY <1>2 DEF Check, history
  <2>2. sent.op = "check" /\ sent.id = issued + 1 /\ sent.stamp = Clock(g) /\ sent.reply = "none"
    OBVIOUS
  <2> HIDE DEF sent
  <2>3. call'[g] = sent /\ \A h \in Gateways : h # g => call'[h] = call[h]
    BY <1>f, <2>1
  <2>4. \A a \in admitted' : a.id <= issued /\ a.id # sent.id
    BY <1>0, <1>1, <2>1, <2>2 DEF CallsKnown, KnownHistory
  <2>5. Clock(g)' = Clock(g)
    BY <2>1 DEF Clock
  <2>6. KnownCall(g, call[g])'
    BY <1>0, <2>1, <2>2, <2>3, <2>4, <2>5 DEF KnownCall
  <2>7. KnownHistory'
    BY <1>0, <1>1, <2>1, <2>4 DEF CallsKnown, KnownHistory
  <2> QED
    BY <2>1, <2>2, <2>3, <2>6, <2>7, OneCallKnown
\* A reply, or a resend, changes nothing that identifies the call.
<1>3. ASSUME NEW g \in Gateways, Busy(g), NEW c, call' = [call EXCEPT ![g] = c],
             c.op = call[g].op, c.id = call[g].id, Admission(c) = Admission(call[g]),
             c.stamp = call[g].stamp,
             c.reply = "quota_allowed" => Admission(c) \in admitted',
             admitted' = admitted \/ (Checks(g) /\ admitted' = admitted \union {Admission(c)}),
             UNCHANGED <<now, issued, running>>
      PROVE  CallsKnown'
  <2>1. call'[g] = c /\ \A h \in Gateways : h # g => call'[h] = call[h]
    BY <1>f, <1>3
  <2>2. KnownCall(g, call[g]) /\ Admission(c).id = c.id /\ Clock(g)' = Clock(g)
    BY <1>3 DEF CallsKnown, Admission, Clock
  <2>3. KnownCall(g, call[g])'
    <3>1. Admission(call[g])' = Admission(c)
      BY <2>1 DEF Admission
    <3> QED
      BY <1>3, <2>1, <2>2, <3>1 DEF KnownCall
  <2>4. KnownHistory'
    BY <1>3, <2>2 DEF CallsKnown, KnownHistory, KnownCall, Checks
  <2>5. Checks(g)' => Checks(g)
    BY <1>3, <2>1 DEF Checks
  <2> QED
    BY <1>3, <2>1, <2>2, <2>3, <2>4, <2>5, OneCallKnown
<1>4. ASSUME NEW g \in Gateways, Busy(g), NEW reason, Reply(g, reason),
             reason = "quota_allowed" => Admission(call[g]) \in admitted',
             admitted' = admitted \/ (Checks(g) /\ admitted' = admitted \union {Admission(call[g])}),
             UNCHANGED <<now, issued, running>>
      PROVE  CallsKnown'
  <2> DEFINE c == [call[g] EXCEPT !.reply = reason]
  <2>1. /\ call' = [call EXCEPT ![g] = c]
        /\ c.op = call[g].op /\ c.id = call[g].id /\ Admission(c) = Admission(call[g])
        /\ c.stamp = call[g].stamp /\ c.reply = reason
    BY <1>4, BusyCalls DEF Reply, Calls, Admission
  <2> HIDE DEF c
  <2> QED
    BY <1>3, <1>4, <2>1
<1>5. ASSUME NEW g \in Gateways, CheckRefuses(g) PROVE CallsKnown'
  <2>1. FirstDenial(call[g]) # "quota_allowed"
    BY <1>5, FirstDenialType DEF CheckRefuses, Reasons
  <2> QED
    BY <1>4, <1>5, <2>1 DEF CheckRefuses, Waits, history
<1>6. ASSUME NEW g \in Gateways, CheckAdmits(g) PROVE CallsKnown'
  BY <1>4, <1>6 DEF CheckAdmits, Waits, Checks
<1>7. ASSUME NEW g \in Gateways, FinishRuns(g) PROVE CallsKnown'
  BY <1>4, <1>7 DEF FinishRuns, Waits
<1>8. ASSUME NEW g \in Gateways, Resend(g) PROVE CallsKnown'
  <2> DEFINE c == [call[g] EXCEPT !.retries = @ + 1, !.reply = "none"]
  <2>1. /\ call' = [call EXCEPT ![g] = c]
        /\ c.op = call[g].op /\ c.id = call[g].id /\ Admission(c) = Admission(call[g])
        /\ c.stamp = call[g].stamp /\ c.reply = "none"
    BY <1>8, BusyCalls DEF Resend, Calls, Admission
  <2> HIDE DEF c
  <2> QED
    BY <1>3, <1>8, <2>1 DEF Resend, history
\* A gateway whose client waits for nothing any more.
<1>9. ASSUME NEW g \in Gateways, call' = [call EXCEPT ![g] = Idle],
             running' \subseteq running \union admitted,
             UNCHANGED <<now, issued, admitted>>
      PROVE  CallsKnown'
  <2>1. call'[g] = Idle /\ \A h \in Gateways : h # g => call'[h] = call[h]
    BY <1>f, <1>9
  <2>2. ~ Busy(g)' /\ ~ Checks(g)'
    BY <2>1 DEF Busy, Checks
  <2>3. KnownHistory'
    BY <1>9 DEF CallsKnown, KnownHistory
  <2>4. now' = now /\ issued' = issued /\ admitted' = admitted
        /\ issued' \in {issued, issued + 1} /\ admitted \subseteq admitted'
        /\ admitted' \ admitted = {}
    BY <1>9
  <2> QED
    BY <2>1, <2>2, <2>3, <2>4, OneCallKnown
<1>10. ASSUME NEW g \in Gateways, Answered(g) PROVE CallsKnown'
  <2>1. call[g].reply = "quota_allowed" => Admission(call[g]) \in admitted
    BY <1>10 DEF Answered, CallsKnown, KnownCall
  <2>2. call' = [call EXCEPT ![g] = Idle] /\ UNCHANGED <<now, issued, admitted>>
    BY <1>10 DEF Answered, history
  <2>3. ASSUME NEW a \in running' PROVE a \in running \union admitted
    <3>1. CASE call[g].reply = "quota_allowed"
      BY <1>10, <2>1, <2>3, <3>1 DEF Answered
    <3>2. CASE call[g].reply # "quota_allowed"
      BY <1>10, <2>3, <3>2 DEF Answered
    <3> QED
      BY <3>1, <3>2
  <2> QED
    BY <1>9, <2>2, <2>3
<1>11. ASSUME NEW g \in Gateways, GiveUp(g) \/ Crash(g) PROVE CallsKnown'
  <2>1. /\ call' = [call EXCEPT ![g] = Idle] /\ running' \subseteq running \union admitted
        /\ UNCHANGED <<now, issued, admitted>>
    BY <1>11 DEF GiveUp, Crash, history
  <2> QED
    BY <1>9, <2>1
<1>12. ASSUME NEW g \in Gateways, NEW a \in running, Finish(g, a) PROVE CallsKnown'
  <2> DEFINE sent == [op |-> "finish", id |-> a.id, gateway |-> g, user |-> a.user,
                      tokens |-> a.tokens, stamp |-> a.stamp,
                      retries |-> 0, reply |-> "none"]
  <2>1. a \in admitted /\ a \in Admissions /\ a.gateway = g
    BY <1>12 DEF CallsKnown, KnownHistory, TypeOK, Finish
  <2>2. sent.op = "finish" /\ sent.id = a.id /\ Admission(sent) = a
    BY <2>1 DEF Admission, Admissions
  <2>3. call' = [call EXCEPT ![g] = sent] /\ running' \subseteq running
        /\ issued' = issued /\ now' = now /\ admitted' = admitted
    BY <1>12 DEF Finish, history
  <2> HIDE DEF sent
  <2>4. call'[g] = sent /\ \A h \in Gateways : h # g => call'[h] = call[h]
    BY <1>f, <2>3
  <2>5. KnownCall(g, call[g])' /\ ~ Checks(g)'
    <3>1. Admission(call[g])' = Admission(sent)
      BY <2>4 DEF Admission
    <3> QED
      BY <2>1, <2>2, <2>3, <2>4, <3>1 DEF KnownCall, CallsKnown, KnownHistory, Checks
  <2>6. KnownHistory'
    BY <2>3 DEF CallsKnown, KnownHistory
  <2> QED
    BY <2>3, <2>4, <2>5, <2>6, OneCallKnown
<1>13. CASE Tick
  <2>1. UNCHANGED <<call, running, issued, admitted>> /\ now' = now + 1
    BY <1>13 DEF Tick, history
  <2>2. \A g \in Gateways : Clock(g) <= Clock(g)'
    BY <1>0, <2>1 DEF Clock
  <2>3. \A g \in Gateways : Checks(g) => call[g].stamp \in Int
    BY BusyCalls, StampsAreTimes DEF Checks, Calls
  <2>4. \A g \in Gateways : Busy(g) => KnownCall(g, call[g])'
    <3> SUFFICES ASSUME NEW g \in Gateways, Busy(g) PROVE KnownCall(g, call[g])'
      OBVIOUS
    <3>1. KnownCall(g, call[g]) /\ Clock(g)' \in Int
      BY <1>0, <2>1 DEF CallsKnown, Clock
    <3>2. call[g].op = "check" => call[g].stamp <= Clock(g)'
      BY <1>0, <2>2, <2>3, <3>1 DEF KnownCall, Checks
    <3> QED
      BY <2>1, <3>1, <3>2 DEF KnownCall, Admission
  <2> QED
    BY <2>1, <2>4 DEF CallsKnown, KnownHistory, Busy, Checks
<1>14. CASE UNCHANGED vars
  BY <1>14 DEF vars, history, CallsKnown, KnownCall, KnownHistory, Busy, Checks, Clock, Admission
<1> QED
  BY <1>2, <1>5, <1>6, <1>7, <1>8, <1>10, <1>11, <1>12, <1>13, <1>14 DEF Next

----------------------------------------------------------------------------
\* Next as the keys see it.
Quiet == UNCHANGED <<now, store, history>>

LEMMA KeySteps ==
  ASSUME [Next]_vars
  PROVE  \/ Quiet \/ Tick
         \/ \E g \in Gateways : CheckRefuses(g) \/ CheckAdmits(g) \/ FinishRuns(g)
BY DEF Next, vars, Quiet, Check, Answered, Finish, Resend, GiveUp, Crash, store, history

\* Whatever is a member of a key was admitted, and has a slot only until a finish
\* script ran for it.
Stored ==
  \A o \in Owners :
    /\ \A e \in requests[o] : \E a \in Of(o, admitted) : e = Slot(a)
    /\ \A e \in inputs[o] : \E a \in Of(o, admitted) : e = Input(a)
    /\ \A e \in slots[o] : \E a \in Of(o, open) : e = Slot(a)

Finite ==
  /\ IsFiniteSet(admitted)
  /\ \A o \in Owners : /\ IsFiniteSet(requests[o]) /\ IsFiniteSet(inputs[o])
                       /\ IsFiniteSet(slots[o])

LEMMA SameCall ==
  \A c : /\ Admission(c).id = c.id /\ Admission(c).stamp = c.stamp
         /\ Admission(c).user = c.user /\ Admission(c).tokens = c.tokens
         /\ OwnersOf(Admission(c)) = OwnersOf(c)
         /\ Slot(Admission(c)) = Slot(c) /\ Input(Admission(c)) = Input(c)
BY DEF Admission, OwnersOf, Slot, Input

LEMMA InitStored == Init => Stored /\ Finite
BY FS_EmptySet DEF Init, Stored, Finite

LEMMA SweepsOnlyDrop ==
  \A zset, stamp : Recent(zset, stamp) \subseteq zset /\ Fresh(zset, stamp) \subseteq zset
BY DEF Recent, Fresh

\* What the check script leaves of the keys of its owners, and adds when it admits.
LEMMA RefusedKeys ==
  ASSUME NEW g \in Gateways, CheckRefuses(g), NEW o \in Owners
  PROVE  /\ requests'[o] = IF o \in OwnersOf(call[g]) THEN Recent(requests[o], call[g].stamp)
                           ELSE requests[o]
         /\ inputs'[o] = IF o \in OwnersOf(call[g]) THEN Recent(inputs[o], call[g].stamp)
                         ELSE inputs[o]
         /\ slots'[o] = IF o \in OwnersOf(call[g]) THEN Fresh(slots[o], call[g].stamp)
                        ELSE slots[o]
         /\ requests'[o] \subseteq requests[o] /\ inputs'[o] \subseteq inputs[o]
         /\ slots'[o] \subseteq slots[o]
<1>1. \A S : S \union {} = S
  OBVIOUS
<1>2. /\ requests' = [p \in Owners |-> IF p \in OwnersOf(call[g])
                        THEN Recent(requests[p], call[g].stamp) \union {} ELSE requests[p]]
      /\ inputs' = [p \in Owners |-> IF p \in OwnersOf(call[g])
                      THEN Recent(inputs[p], call[g].stamp) \union {} ELSE inputs[p]]
      /\ slots' = [p \in Owners |-> IF p \in OwnersOf(call[g])
                     THEN Fresh(slots[p], call[g].stamp) \union {} ELSE slots[p]]
  BY DEF CheckRefuses, SweptRecords, SweptSlots
<1> QED
  BY <1>1, <1>2, SweepsOnlyDrop

LEMMA AdmittedKeys ==
  ASSUME NEW g \in Gateways, CheckAdmits(g), NEW o \in Owners
  PROVE  /\ requests'[o] = IF o \in OwnersOf(call[g])
                           THEN Recent(requests[o], call[g].stamp) \union {Slot(call[g])}
                           ELSE requests[o]
         /\ inputs'[o] = IF o \in OwnersOf(call[g])
                         THEN Recent(inputs[o], call[g].stamp) \union {Input(call[g])}
                         ELSE inputs[o]
         /\ slots'[o] = IF o \in OwnersOf(call[g])
                        THEN Fresh(slots[o], call[g].stamp) \union {Slot(call[g])}
                        ELSE slots[o]
BY DEF CheckAdmits, SweptRecords, SweptSlots

LEMMA StepFinite == Finite /\ [Next]_vars => Finite'
<1> SUFFICES ASSUME Finite, [Next]_vars PROVE Finite'
  OBVIOUS
<1>1. ASSUME admitted' = admitted,
             \A o \in Owners : /\ requests'[o] \subseteq requests[o]
                               /\ inputs'[o] \subseteq inputs[o]
                               /\ slots'[o] \subseteq slots[o]
      PROVE  Finite'
  BY <1>1, FS_Subset DEF Finite
<1>2. CASE Quiet
  BY <1>1, <1>2 DEF Quiet, store, history
<1>3. CASE Tick
  BY <1>1, <1>3 DEF Tick, history
<1>4. ASSUME NEW g \in Gateways, CheckRefuses(g) PROVE Finite'
  <2>1. \A o \in Owners : /\ requests'[o] \subseteq requests[o]
                          /\ inputs'[o] \subseteq inputs[o]
                          /\ slots'[o] \subseteq slots[o]
    BY <1>4, RefusedKeys
  <2> QED
    BY <1>1, <1>4, <2>1 DEF CheckRefuses, history
<1>5. ASSUME NEW g \in Gateways, FinishRuns(g) PROVE Finite'
  BY <1>1, <1>5 DEF FinishRuns, Removed
<1>6. ASSUME NEW g \in Gateways, CheckAdmits(g) PROVE Finite'
  <2>1. IsFiniteSet(admitted')
    BY <1>6, FS_AddElement DEF CheckAdmits, Finite
  <2>2. ASSUME NEW o \in Owners
        PROVE  IsFiniteSet(requests'[o]) /\ IsFiniteSet(inputs'[o]) /\ IsFiniteSet(slots'[o])
    <3> DEFINE c == call[g]
    <3>1. /\ IsFiniteSet(Recent(requests[o], c.stamp)) /\ IsFiniteSet(Recent(inputs[o], c.stamp))
          /\ IsFiniteSet(Fresh(slots[o], c.stamp))
      BY FS_Subset, SweepsOnlyDrop DEF Finite
    <3>2. /\ IsFiniteSet(Recent(requests[o], c.stamp) \union {Slot(c)})
          /\ IsFiniteSet(Recent(inputs[o], c.stamp) \union {Input(c)})
          /\ IsFiniteSet(Fresh(slots[o], c.stamp) \union {Slot(c)})
      BY <3>1, FS_AddElement
    <3> QED
      BY <1>6, <3>2, AdmittedKeys DEF Finite
  <2> QED
    BY <2>1, <2>2 DEF Finite
<1> QED
  BY <1>2, <1>3, <1>4, <1>5, <1>6, KeySteps

LEMMA StepStored == TypeOK /\ CallsKnown /\ Stored /\ [Next]_vars => Stored'
<1> SUFFICES ASSUME TypeOK, CallsKnown, Stored, [Next]_vars PROVE Stored'
  OBVIOUS
<1>0. \A a : Slot(a)' = Slot(a) /\ Input(a)' = Input(a) /\ OwnersOf(a)' = OwnersOf(a)
  BY DEF Slot, Input, OwnersOf
\* A step that only drops from the keys.
<1>1. ASSUME UNCHANGED history,
             \A o \in Owners : /\ requests'[o] \subseteq requests[o]
                               /\ inputs'[o] \subseteq inputs[o]
                               /\ slots'[o] \subseteq slots[o]
      PROVE  Stored'
  BY <1>1 DEF Stored, history, Of, Slot, Input, OwnersOf
<1>2. CASE Quiet
  BY <1>1, <1>2 DEF Quiet, store
<1>3. CASE Tick
  BY <1>1, <1>3 DEF Tick
<1>4. ASSUME NEW g \in Gateways, CheckRefuses(g) PROVE Stored'
  <2>1. \A o \in Owners : /\ requests'[o] \subseteq requests[o]
                          /\ inputs'[o] \subseteq inputs[o]
                          /\ slots'[o] \subseteq slots[o]
    BY <1>4, RefusedKeys
  <2> QED
    BY <1>1, <1>4, <2>1 DEF CheckRefuses
<1>5. ASSUME NEW g \in Gateways, CheckAdmits(g) PROVE Stored'
  <2> DEFINE c == call[g]
             a == Admission(call[g])
  <2>1. /\ admitted' = admitted \union {a} /\ open' = open \union {a}
        /\ Slot(a) = Slot(c) /\ Input(a) = Input(c) /\ OwnersOf(a) = OwnersOf(c)
    BY <1>5, SameCall DEF CheckAdmits
  <2>2. \A o \in Owners :
          /\ requests'[o] \subseteq requests[o] \union {e \in {Slot(c)} : o \in OwnersOf(c)}
          /\ inputs'[o] \subseteq inputs[o] \union {e \in {Input(c)} : o \in OwnersOf(c)}
          /\ slots'[o] \subseteq slots[o] \union {e \in {Slot(c)} : o \in OwnersOf(c)}
    BY <1>5, SweepsOnlyDrop, AdmittedKeys
  <2>3. \A o \in Owners : /\ Of(o, admitted) \subseteq Of(o, admitted') /\ Of(o, open) \subseteq Of(o, open')
                          /\ o \in OwnersOf(c) => a \in Of(o, admitted') /\ a \in Of(o, open')
    BY <2>1 DEF Of
  <2> HIDE DEF c, a
  <2>4. ASSUME NEW o \in Owners
        PROVE  /\ \A e \in requests'[o] : \E b \in Of(o, admitted') : e = Slot(b)
               /\ \A e \in inputs'[o] : \E b \in Of(o, admitted') : e = Input(b)
               /\ \A e \in slots'[o] : \E b \in Of(o, open') : e = Slot(b)
    <3>1. \A e \in requests'[o] : e \in requests[o] \/ (o \in OwnersOf(c) /\ e = Slot(a))
      BY <2>1, <2>2
    <3>2. \A e \in inputs'[o] : e \in inputs[o] \/ (o \in OwnersOf(c) /\ e = Input(a))
      BY <2>1, <2>2
    <3>3. \A e \in slots'[o] : e \in slots[o] \/ (o \in OwnersOf(c) /\ e = Slot(a))
      BY <2>1, <2>2
    <3> QED
      BY <2>3, <3>1, <3>2, <3>3 DEF Stored
  <2> QED
    BY <1>0, <2>4 DEF Stored, Of
<1>6. ASSUME NEW g \in Gateways, FinishRuns(g) PROVE Stored'
  <2> DEFINE c == call[g]
  <2>1. /\ requests' = requests /\ inputs' = inputs /\ admitted' = admitted
        /\ open' = open \ {Admission(c)}
        /\ \A o \in Owners : slots'[o] = IF o \in OwnersOf(c) THEN {e \in slots[o] : e.id # c.id}
                                         ELSE slots[o]
    BY <1>6 DEF FinishRuns, Removed
  <2>2. ASSUME NEW o \in Owners, NEW e \in slots'[o] PROVE \E a \in Of(o, open') : e = Slot(a)
    <3>1. e \in slots[o] /\ (o \in OwnersOf(c) => e.id # c.id)
      BY <2>1, <2>2
    <3>2. PICK a \in Of(o, open) : e = Slot(a)
      BY <3>1 DEF Stored
    <3>3. e.id = a.id
      BY <3>2 DEF Slot
    <3>4. a # Admission(c)
      BY <3>1, <3>2, <3>3, SameCall DEF Of
    <3> QED
      BY <2>1, <3>2, <3>4 DEF Of
  <2> HIDE DEF c
  <2> QED
    BY <1>0, <2>1, <2>2 DEF Stored, Of
<1> QED
  BY <1>2, <1>3, <1>4, <1>5, <1>6, KeySteps

----------------------------------------------------------------------------
\* The keys outlive what counts.  A key's deadline is never further away than the life
\* of a key, so setting a new one defers it; and a call that was admitted by the clock
\* of some gateway has keys that last as long by that clock.
Lasting ==
  /\ \A o \in Owners : recordsUntil[o] <= now + KeyTtl /\ slotsUntil[o] <= now + KeyTtl
  /\ \A a \in admitted : \A o \in OwnersOf(a) : \E g \in Gateways :
       /\ recordsUntil[o] + Skew[g] >= a.stamp + KeyTtl
       /\ slotsUntil[o] + Skew[g] >= a.stamp + KeyTtl

LEMMA AdmittedTypes ==
  ASSUME TypeOK
  PROVE  /\ \A a \in admitted : /\ a.stamp \in Nat /\ a.id \in Nat /\ a.tokens \in Nat
                                /\ OwnersOf(a) \subseteq Owners
         /\ \A a \in open : a \in admitted
         /\ \A o \in Owners : recordsUntil[o] \in Nat /\ slotsUntil[o] \in Nat
         /\ now \in Nat /\ \A g \in Gateways : Clock(g) = now + Skew[g]
<1>1. ASSUME NEW a \in Admissions
      PROVE  /\ a.stamp \in Nat /\ a.id \in Nat /\ a.tokens \in Nat
             /\ OwnersOf(a) \subseteq Owners
  <2>1. a.stamp \in Stamps /\ a.id \in Ids /\ a.tokens \in TokenEstimates /\ a.user \in Users
    BY DEF Admissions
  <2>2. a.stamp \in Nat
    BY <2>1, StampsAreTimes
  <2>3. a.id \in Nat
    BY <2>1, Constants DEF Ids
  <2>4. a.tokens \in Nat
    BY <2>1, Constants
  <2> QED
    BY <2>1, <2>2, <2>3, <2>4 DEF OwnersOf, Owners
<1>2. now \in Nat /\ \A o \in Owners : recordsUntil[o] \in Nat /\ slotsUntil[o] \in Nat
  BY Constants DEF TypeOK
<1> QED
  BY <1>1, <1>2 DEF TypeOK, Clock

LEMMA InitLasting == Init => Lasting
BY Constants DEF Init, Lasting

LEMMA StepLasting == TypeOK /\ CallsKnown /\ Lasting /\ [Next]_vars => Lasting'
<1> SUFFICES ASSUME TypeOK, CallsKnown, Lasting, [Next]_vars PROVE Lasting'
  OBVIOUS
<1>0. \A a : OwnersOf(a)' = OwnersOf(a)
  BY DEF OwnersOf
\* Deadlines that are set anew are deferred.
<1>1. ASSUME now' = now, NEW c,
             recordsUntil' \in {recordsUntil, Extend(recordsUntil, c)},
             slotsUntil' \in {slotsUntil, Extend(slotsUntil, c)},
             NEW o \in Owners
      PROVE  /\ recordsUntil'[o] \in Nat /\ recordsUntil'[o] >= recordsUntil[o]
             /\ recordsUntil'[o] <= now' + KeyTtl
             /\ slotsUntil'[o] \in Nat /\ slotsUntil'[o] >= slotsUntil[o]
             /\ slotsUntil'[o] <= now' + KeyTtl
  <2>1. /\ now \in Nat /\ KeyTtl \in Nat /\ recordsUntil[o] \in Nat /\ slotsUntil[o] \in Nat
        /\ recordsUntil[o] <= now + KeyTtl /\ slotsUntil[o] <= now + KeyTtl
    BY AdmittedTypes, Constants DEF Lasting
  <2>2. /\ recordsUntil'[o] \in {recordsUntil[o], now + KeyTtl}
        /\ slotsUntil'[o] \in {slotsUntil[o], now + KeyTtl}
    BY <1>1 DEF Extend
  <2> QED
    BY <1>1, <2>1, <2>2
<1>2. ASSUME now' = now, NEW c,
             recordsUntil' \in {recordsUntil, Extend(recordsUntil, c)},
             slotsUntil' \in {slotsUntil, Extend(slotsUntil, c)},
             \A a \in admitted' \ admitted : \A o \in OwnersOf(a) : \E g \in Gateways :
               /\ recordsUntil'[o] + Skew[g] >= a.stamp + KeyTtl
               /\ slotsUntil'[o] + Skew[g] >= a.stamp + KeyTtl
      PROVE  Lasting'
  <2>1. ASSUME NEW a \in admitted, NEW o \in OwnersOf(a)
        PROVE  \E g \in Gateways : /\ recordsUntil'[o] + Skew[g] >= a.stamp + KeyTtl
                                   /\ slotsUntil'[o] + Skew[g] >= a.stamp + KeyTtl
    <3>1. PICK g \in Gateways : /\ recordsUntil[o] + Skew[g] >= a.stamp + KeyTtl
                                /\ slotsUntil[o] + Skew[g] >= a.stamp + KeyTtl
      BY <2>1 DEF Lasting
    <3>2. o \in Owners /\ a.stamp \in Nat /\ Skew[g] \in Nat /\ KeyTtl \in Nat
          /\ recordsUntil[o] \in Nat /\ slotsUntil[o] \in Nat
      BY <2>1, AdmittedTypes, Constants
    <3>3. /\ recordsUntil'[o] \in Nat /\ recordsUntil'[o] >= recordsUntil[o]
          /\ slotsUntil'[o] \in Nat /\ slotsUntil'[o] >= slotsUntil[o]
      BY <1>1, <1>2, <3>2
    <3> QED
      BY <3>1, <3>2, <3>3
  <2>2. \A o \in Owners : recordsUntil'[o] <= now' + KeyTtl /\ slotsUntil'[o] <= now' + KeyTtl
    BY <1>1, <1>2
  <2>3. \A a \in admitted' : \A o \in OwnersOf(a) : \E g \in Gateways :
          /\ recordsUntil'[o] + Skew[g] >= a.stamp + KeyTtl
          /\ slotsUntil'[o] + Skew[g] >= a.stamp + KeyTtl
    BY <1>2, <2>1
  <2> QED
    BY <1>0, <2>2, <2>3 DEF Lasting
<1>3. CASE Quiet
  BY <1>2, <1>3 DEF Quiet, store, history
<1>4. ASSUME NEW g \in Gateways, CheckRefuses(g) PROVE Lasting'
  BY <1>2, <1>4 DEF CheckRefuses, history
<1>5. ASSUME NEW g \in Gateways, FinishRuns(g) PROVE Lasting'
  BY <1>2, <1>5 DEF FinishRuns
<1>6. ASSUME NEW g \in Gateways, CheckAdmits(g) PROVE Lasting'
  <2> DEFINE c == call[g]
  <2>1. /\ now' = now /\ admitted' = admitted \union {Admission(c)}
        /\ recordsUntil' = Extend(recordsUntil, c) /\ slotsUntil' = Extend(slotsUntil, c)
    BY <1>6 DEF CheckAdmits
  <2>2. c.stamp <= now + Skew[g] /\ c.stamp \in Nat /\ OwnersOf(c) \subseteq Owners
    BY <1>6, BusyCalls, StampsAreTimes DEF CheckAdmits, Waits, CallsKnown, KnownCall, Calls, Clock
  <2>3. \A o \in OwnersOf(c) : recordsUntil'[o] = now + KeyTtl /\ slotsUntil'[o] = now + KeyTtl
    BY <2>1, <2>2 DEF Extend
  <2>4. now + KeyTtl + Skew[g] >= c.stamp + KeyTtl
    BY <2>2, AdmittedTypes, Constants
  <2>5. Admission(c).stamp = c.stamp /\ OwnersOf(Admission(c)) = OwnersOf(c)
    BY SameCall
  <2> HIDE DEF c
  <2> QED
    BY <1>2, <2>1, <2>3, <2>4, <2>5
<1>7. CASE Tick
  <2>1. UNCHANGED <<recordsUntil, slotsUntil, admitted>> /\ now' = now + 1
    BY <1>7 DEF Tick, history
  <2>2. \A o \in Owners : recordsUntil[o] <= now' + KeyTtl /\ slotsUntil[o] <= now' + KeyTtl
    BY <2>1, AdmittedTypes, Constants DEF Lasting
  <2> QED
    BY <1>0, <2>1, <2>2 DEF Lasting
<1> QED
  BY <1>3, <1>4, <1>5, <1>6, <1>7, KeySteps

----------------------------------------------------------------------------
\* The calls that count are still in the keys: gateways sweep by clocks of their own, a
\* script may run late, and keys expire, but none of it takes away what every clock
\* places in the window or the TTL.
CountedKept ==
  \A a \in Counting : \A o \in OwnersOf(a) : Slot(a) \in requests[o] /\ Input(a) \in inputs[o]

LEMMA InitKept == Init => CountedKept /\ SlotsKept
BY DEF Init, CountedKept, SlotsKept, Counting, Holding

\* Clocks advance: only a call that is admitted now comes to count.
LEMMA OnlyNewCallsCount ==
  ASSUME TypeOK, now' \in {now, now + 1}
  PROVE  /\ \A a \in Counting' : a \in admitted => a \in Counting
         /\ \A a \in Holding' : a \in open => a \in Holding
<1>1. ASSUME NEW a \in admitted, NEW g \in Gateways, NEW life \in Nat, a.stamp > Clock(g)' - life
      PROVE  a.stamp > Clock(g) - life
  <2>1. /\ a.stamp \in Nat /\ now \in Nat /\ Skew[g] \in Nat /\ Clock(g) = now + Skew[g]
        /\ Clock(g)' = now' + Skew[g]
    BY AdmittedTypes, Constants DEF Clock
  <2> QED
    BY <1>1, <2>1
<1>2. Window \in Nat /\ Ttl \in Nat /\ \A a \in open : a \in admitted
  BY Constants, AdmittedTypes
<1>3. ASSUME NEW a \in Counting', a \in admitted PROVE a \in Counting
  <2>1. \A g \in Gateways : a.stamp > Clock(g)' - Window
    BY <1>3 DEF Counting
  <2> QED
    BY <1>1, <1>2, <1>3, <2>1 DEF Counting
<1>4. ASSUME NEW a \in Holding', a \in open PROVE a \in Holding
  <2>1. \A g \in Gateways : a.stamp > Clock(g)' - Ttl
    BY <1>4 DEF Holding
  <2> QED
    BY <1>1, <1>2, <1>4, <2>1 DEF Holding
<1> QED
  BY <1>3, <1>4

\* What counts by every clock is not swept by the stamp of any call.
LEMMA SweepsKeep ==
  ASSUME TypeOK, CallsKnown, NEW g \in Gateways, Checks(g)
  PROVE  /\ \A a \in Counting : a.stamp > call[g].stamp - Window
         /\ \A a \in Holding : a.stamp > call[g].stamp - Ttl
<1>1. /\ call[g].stamp \in Nat /\ call[g].stamp <= Clock(g)
      /\ now \in Nat /\ Skew[g] \in Nat /\ Clock(g) = now + Skew[g]
      /\ Window \in Nat /\ Ttl \in Nat
  BY BusyCalls, StampsAreTimes, AdmittedTypes, Constants DEF Checks, CallsKnown, KnownCall, Calls
<1>2. \A a \in Counting : a.stamp \in Nat /\ a.stamp > Clock(g) - Window
  BY AdmittedTypes DEF Counting
<1>3. \A a \in Holding : a.stamp \in Nat /\ a.stamp > Clock(g) - Ttl
  BY AdmittedTypes DEF Holding
<1> QED
  BY <1>1, <1>2, <1>3

LEMMA StepKept ==
  TypeOK /\ CallsKnown /\ Lasting /\ CountedKept /\ SlotsKept /\ [Next]_vars
    => CountedKept' /\ SlotsKept'
<1> SUFFICES ASSUME TypeOK, CallsKnown, Lasting, CountedKept, SlotsKept, [Next]_vars
             PROVE  CountedKept' /\ SlotsKept'
  OBVIOUS
<1>0. \A a : Slot(a)' = Slot(a) /\ Input(a)' = Input(a) /\ OwnersOf(a)' = OwnersOf(a)
  BY DEF Slot, Input, OwnersOf
<1>1. /\ \A a \in Counting' : a \in admitted'
      /\ \A a \in Holding' : a \in open'
      /\ \A a \in admitted : OwnersOf(a) \subseteq Owners
      /\ \A a \in open : a \in admitted
  BY AdmittedTypes DEF Counting, Holding
<1>2. CASE Quiet
  <2>1. UNCHANGED <<now, admitted, open, requests, inputs, slots>>
    BY <1>2 DEF Quiet, store, history
  <2> QED
    BY <1>0, <1>1, <2>1, OnlyNewCallsCount DEF CountedKept, SlotsKept
<1>3. CASE Tick
  <2>1. now' = now + 1 /\ UNCHANGED <<admitted, open>>
    BY <1>3 DEF Tick, history
  <2>2. ASSUME NEW a \in admitted, NEW o \in OwnersOf(a), NEW life \in Nat, life <= KeyTtl,
               \A g \in Gateways : a.stamp > now' + Skew[g] - life
        PROVE  o \in Owners /\ recordsUntil[o] > now' /\ slotsUntil[o] > now'
    <3>1. PICK g \in Gateways : /\ recordsUntil[o] + Skew[g] >= a.stamp + KeyTtl
                                /\ slotsUntil[o] + Skew[g] >= a.stamp + KeyTtl
      BY <2>2 DEF Lasting
    <3>2. /\ a.stamp \in Nat /\ now \in Nat /\ Skew[g] \in Nat /\ KeyTtl \in Nat /\ o \in Owners
          /\ recordsUntil[o] \in Nat /\ slotsUntil[o] \in Nat
      BY <2>2, AdmittedTypes, Constants
    <3>3. a.stamp > now' + Skew[g] - life
      BY <2>2
    <3> QED
      BY <2>1, <2>2, <3>1, <3>2, <3>3
  <2>3. /\ \A a \in Counting' : \A g \in Gateways : a.stamp > now' + Skew[g] - Window
        /\ \A a \in Holding' : \A g \in Gateways : a.stamp > now' + Skew[g] - Ttl
    <3>1. ASSUME NEW g \in Gateways
          PROVE  /\ \A a \in Counting' : a.stamp > now' + Skew[g] - Window
                 /\ \A a \in Holding' : a.stamp > now' + Skew[g] - Ttl
      <4>1. /\ Clock(g)' = now' + Skew[g] /\ now' \in Nat /\ Skew[g] \in Nat
            /\ Window \in Nat /\ Ttl \in Nat
            /\ \A a \in Counting' : a.stamp \in Nat
            /\ \A a \in Holding' : a.stamp \in Nat
        BY <1>1, <2>1, AdmittedTypes, Constants DEF Clock
      <4>2. /\ \A a \in Counting' : a.stamp > Clock(g)' - Window
            /\ \A a \in Holding' : a.stamp > Clock(g)' - Ttl
        BY DEF Counting, Holding
      <4> QED
        BY <4>1, <4>2
    <3> QED
      BY <3>1
  <2>4. ASSUME NEW a \in Counting', NEW o \in OwnersOf(a)
        PROVE  Slot(a) \in requests'[o] /\ Input(a) \in inputs'[o]
    <3>1. a \in admitted /\ o \in Owners /\ recordsUntil[o] > now'
      BY <1>1, <2>1, <2>2, <2>3, Constants
    <3>2. recordsUntil[o] \in Nat /\ now' \in Nat
      BY <2>1, <3>1, AdmittedTypes
    <3>3. requests'[o] = requests[o] /\ inputs'[o] = inputs[o]
      BY <1>3, <3>1, <3>2 DEF Tick
    <3> QED
      BY <2>1, <3>1, <3>3, OnlyNewCallsCount DEF CountedKept
  <2>5. ASSUME NEW a \in Holding', NEW o \in OwnersOf(a) PROVE Slot(a) \in slots'[o]
    <3>1. a \in open /\ o \in Owners /\ slotsUntil[o] > now'
      BY <1>1, <2>1, <2>2, <2>3, Constants
    <3>2. slotsUntil[o] \in Nat /\ now' \in Nat
      BY <2>1, <3>1, AdmittedTypes
    <3>3. slots'[o] = slots[o]
      BY <1>3, <3>1, <3>2 DEF Tick
    <3> QED
      BY <2>1, <3>1, <3>3, OnlyNewCallsCount DEF SlotsKept
  <2> QED
    BY <1>0, <2>4, <2>5 DEF CountedKept, SlotsKept
\* A check script, for a call c: what counted stays, and what it adds is in its keys.
<1>4. ASSUME NEW g \in Gateways, Checks(g), now' = now,
             \A o \in OwnersOf(call[g]) : /\ Recent(requests[o], call[g].stamp) \subseteq requests'[o]
                                          /\ Recent(inputs[o], call[g].stamp) \subseteq inputs'[o]
                                          /\ Fresh(slots[o], call[g].stamp) \subseteq slots'[o],
             \A o \in Owners \ OwnersOf(call[g]) : /\ requests'[o] = requests[o]
                                                   /\ inputs'[o] = inputs[o]
                                                   /\ slots'[o] = slots[o],
             \A a \in admitted' : \/ a \in admitted
                                  \/ \A o \in OwnersOf(a) : Slot(a) \in requests'[o] /\ Input(a) \in inputs'[o],
             \A a \in open' : a \in open \/ \A o \in OwnersOf(a) : Slot(a) \in slots'[o]
      PROVE  CountedKept' /\ SlotsKept'
  <2>1. ASSUME NEW a \in Counting, NEW o \in OwnersOf(a)
        PROVE  Slot(a) \in requests'[o] /\ Input(a) \in inputs'[o]
    <3>1. /\ Slot(a) \in requests[o] /\ Slot(a).score = a.stamp /\ o \in Owners
          /\ Input(a) \in inputs[o] /\ Input(a).score = a.stamp
          /\ a.stamp > call[g].stamp - Window
      BY <1>1, <1>4, <2>1, SweepsKeep DEF CountedKept, Slot, Input, Counting
    <3> QED
      BY <1>4, <3>1 DEF Recent
  <2>2. ASSUME NEW a \in Holding, NEW o \in OwnersOf(a) PROVE Slot(a) \in slots'[o]
    <3>1. /\ Slot(a) \in slots[o] /\ Slot(a).score = a.stamp /\ o \in Owners
          /\ a.stamp > call[g].stamp - Ttl
      BY <1>1, <1>4, <2>2, SweepsKeep DEF SlotsKept, Slot, Holding
    <3> QED
      BY <1>4, <3>1 DEF Fresh
  <2>3. /\ \A a \in Counting' : a \in admitted => a \in Counting
        /\ \A a \in Holding' : a \in open => a \in Holding
    BY <1>4, OnlyNewCallsCount
  <2> QED
    BY <1>0, <1>1, <1>4, <2>1, <2>2, <2>3 DEF CountedKept, SlotsKept
<1>5. ASSUME NEW g \in Gateways, CheckRefuses(g) PROVE CountedKept' /\ SlotsKept'
  <2>1. Checks(g) /\ now' = now /\ admitted' = admitted /\ open' = open
        /\ OwnersOf(call[g]) \subseteq Owners
    BY <1>5, BusyCalls DEF CheckRefuses, Waits, Checks, history
  <2>2. \A o \in Owners :
          /\ o \in OwnersOf(call[g]) => /\ Recent(requests[o], call[g].stamp) \subseteq requests'[o]
                                        /\ Recent(inputs[o], call[g].stamp) \subseteq inputs'[o]
                                        /\ Fresh(slots[o], call[g].stamp) \subseteq slots'[o]
          /\ o \notin OwnersOf(call[g]) => /\ requests'[o] = requests[o] /\ inputs'[o] = inputs[o]
                                           /\ slots'[o] = slots[o]
    BY <1>5, RefusedKeys
  <2> QED
    BY <1>4, <2>1, <2>2
<1>6. ASSUME NEW g \in Gateways, CheckAdmits(g) PROVE CountedKept' /\ SlotsKept'
  <2> DEFINE new == Admission(call[g])
  <2>1. /\ Checks(g) /\ now' = now /\ OwnersOf(call[g]) \subseteq Owners
        /\ admitted' = admitted \union {new} /\ open' = open \union {new}
        /\ Slot(new) = Slot(call[g]) /\ Input(new) = Input(call[g])
        /\ OwnersOf(new) = OwnersOf(call[g])
    BY <1>6, BusyCalls, SameCall DEF CheckAdmits, Waits, Checks
  <2> HIDE DEF new
  <2>2. \A o \in Owners :
          /\ o \in OwnersOf(call[g]) => /\ Recent(requests[o], call[g].stamp) \subseteq requests'[o]
                                        /\ Recent(inputs[o], call[g].stamp) \subseteq inputs'[o]
                                        /\ Fresh(slots[o], call[g].stamp) \subseteq slots'[o]
                                        /\ Slot(call[g]) \in requests'[o] /\ Slot(call[g]) \in slots'[o]
                                        /\ Input(call[g]) \in inputs'[o]
          /\ o \notin OwnersOf(call[g]) => /\ requests'[o] = requests[o] /\ inputs'[o] = inputs[o]
                                           /\ slots'[o] = slots[o]
    BY <1>6, AdmittedKeys
  <2> QED
    BY <1>4, <2>1, <2>2
<1>7. ASSUME NEW g \in Gateways, FinishRuns(g) PROVE CountedKept' /\ SlotsKept'
  <2> DEFINE c == call[g]
  <2>1. /\ now' = now /\ requests' = requests /\ inputs' = inputs /\ admitted' = admitted
        /\ open' = open \ {Admission(c)}
        /\ \A o \in Owners : \A e \in slots[o] : e.id # c.id => e \in slots'[o]
    BY <1>7 DEF FinishRuns, Removed
  <2>2. Admission(c) \in admitted /\ Admission(c).id = c.id
    BY <1>7, SameCall DEF FinishRuns, Waits, CallsKnown, KnownCall
  <2> HIDE DEF c
  <2>3. CountedKept'
    BY <1>0, <1>1, <2>1, OnlyNewCallsCount DEF CountedKept
  <2>4. ASSUME NEW a \in Holding', NEW o \in OwnersOf(a) PROVE Slot(a) \in slots'[o]
    <3>1. a \in Holding /\ a \in admitted /\ a # Admission(c)
      BY <1>1, <2>1, OnlyNewCallsCount
    <3>2. a.id # c.id /\ Slot(a).id = a.id
      BY <2>2, <3>1 DEF CallsKnown, KnownHistory, Slot
    <3> QED
      BY <1>1, <2>1, <3>1, <3>2 DEF SlotsKept
  <2> QED
    BY <1>0, <2>3, <2>4 DEF SlotsKept
<1> QED
  BY <1>2, <1>3, <1>5, <1>6, <1>7, KeySteps

----------------------------------------------------------------------------
\* Every call that counts is one member of the keys of its owners.
LEMMA SlotsCount ==
  ASSUME CallsKnown, NEW S, S \subseteq admitted, NEW T, IsFiniteSet(T), \A a \in S : Slot(a) \in T
  PROVE  IsFiniteSet(S) /\ Cardinality(S) <= Cardinality(T)
<1> DEFINE f == [a \in S |-> Slot(a)]
<1>1. ASSUME NEW a \in S, NEW b \in S, Slot(a) = Slot(b) PROVE a = b
  <2>1. a.id = b.id
    BY <1>1 DEF Slot
  <2> QED
    BY <2>1 DEF CallsKnown, KnownHistory
<1>2. f \in Injection(S, T)
  <2>1. f \in [S -> T]
    OBVIOUS
  <2>2. \A a, b \in S : f[a] = f[b] => a = b
    BY <1>1
  <2> HIDE DEF f
  <2> QED
    BY <2>1, <2>2 DEF Injection, IsInjective
<1> QED
  BY <1>2, FS_Injection

LEMMA ScriptCounts ==
  ASSUME TypeOK, CallsKnown, Finite, CountedKept, SlotsKept, NEW g \in Gateways, Checks(g),
         NEW o \in OwnersOf(call[g])
  PROVE  /\ Cardinality(Of(o, Counting)) <= Cardinality(Recent(requests[o], call[g].stamp))
         /\ IsFiniteSet(Recent(requests[o], call[g].stamp))
         /\ Cardinality(Of(o, Holding)) <= Cardinality(Fresh(slots[o], call[g].stamp))
         /\ IsFiniteSet(Fresh(slots[o], call[g].stamp))
<1>1. o \in Owners
  BY BusyCalls DEF Checks
<1>2. /\ IsFiniteSet(Recent(requests[o], call[g].stamp))
      /\ IsFiniteSet(Fresh(slots[o], call[g].stamp))
  BY <1>1, FS_Subset, SweepsOnlyDrop DEF Finite
<1>3. \A a : Slot(a).score = a.stamp
  BY DEF Slot
<1>4. \A a \in Of(o, Counting) : a \in admitted /\ Slot(a) \in Recent(requests[o], call[g].stamp)
  BY <1>3, SweepsKeep DEF Of, CountedKept, Counting, Recent
<1>5. \A a \in Of(o, Holding) : a \in admitted /\ Slot(a) \in Fresh(slots[o], call[g].stamp)
  BY <1>3, SweepsKeep, AdmittedTypes DEF Of, SlotsKept, Holding, Fresh
<1> QED
  BY <1>2, <1>4, <1>5, SlotsCount

LEMMA InitBounded == Init => RequestsBounded /\ ConcurrencyBounded
<1> SUFFICES ASSUME Init PROVE RequestsBounded /\ ConcurrencyBounded
  OBVIOUS
<1>1. \A o \in Owners : Of(o, Counting) = {} /\ Of(o, Holding) = {}
  BY DEF Init, Of, Counting, Holding
<1> QED
  BY <1>1, FS_EmptySet, Constants DEF RequestsBounded, ConcurrencyBounded, Exceeds, Limits

\* A set that grew by at most one call, below a limit, is within it.
LEMMA OneMore ==
  ASSUME NEW limit \in Limits, NEW S, NEW T, NEW U, NEW a, IsFiniteSet(S), IsFiniteSet(U),
         T \subseteq S \union {a}, Cardinality(S) <= Cardinality(U),
         ~ Exceeds(Cardinality(U) + 1, limit)
  PROVE  ~ Exceeds(Cardinality(T), limit)
<1>0. Cardinality(S) \in Nat
  BY FS_CardinalityType
<1>1. IsFiniteSet(S \union {a}) /\ Cardinality(S \union {a}) <= Cardinality(S) + 1
  <2>1. /\ IsFiniteSet(S \union {a})
        /\ Cardinality(S \union {a}) \in {Cardinality(S), Cardinality(S) + 1}
    BY FS_AddElement
  <2> QED
    BY <1>0, <2>1
<1>2. Cardinality(T) <= Cardinality(S \union {a}) /\ IsFiniteSet(T)
  BY <1>1, FS_Subset
<1>3. /\ Cardinality(S) \in Nat /\ Cardinality(T) \in Nat /\ Cardinality(U) \in Nat
      /\ Cardinality(S \union {a}) \in Nat
  BY <1>1, <1>2, FS_CardinalityType
<1>4. ASSUME limit # NoLimit PROVE limit \in Nat
  BY <1>4 DEF Limits
<1> QED
  BY <1>1, <1>2, <1>3, <1>4 DEF Exceeds

LEMMA NoMore ==
  ASSUME NEW limit \in Limits, NEW S, NEW T, IsFiniteSet(S), T \subseteq S,
         ~ Exceeds(Cardinality(S), limit)
  PROVE  ~ Exceeds(Cardinality(T), limit)
<1>1. Cardinality(T) <= Cardinality(S) /\ IsFiniteSet(T)
  BY FS_Subset
<1>2. Cardinality(S) \in Nat /\ Cardinality(T) \in Nat
  BY <1>1, FS_CardinalityType
<1>3. ASSUME limit # NoLimit PROVE limit \in Nat
  BY <1>3 DEF Limits
<1> QED
  BY <1>1, <1>2, <1>3 DEF Exceeds

\* A call is admitted by four counts that are within their limits with it.
LEMMA AdmittedWithin ==
  ASSUME NEW g \in Gateways, CheckAdmits(g), NEW o \in OwnersOf(call[g])
  PROVE  /\ ~ Exceeds(Cardinality(Recent(requests[o], call[g].stamp)) + 1, RequestLimit)
         /\ ~ Exceeds(Cardinality(Fresh(slots[o], call[g].stamp)) + 1, ConcurrencyLimit)
<1>1. \A i \in {1, 2, 3, 4} : ~ Denials(call[g])[i].holds
  BY DEF CheckAdmits, Denied
<1>2. o = call[g].user \/ o = Tenant
  BY DEF OwnersOf
<1> QED
  BY <1>1, <1>2, ChecksOfTheScript

LEMMA StepBounded ==
  /\ TypeOK /\ CallsKnown /\ Finite /\ CountedKept /\ SlotsKept
  /\ RequestsBounded /\ ConcurrencyBounded /\ [Next]_vars
  => RequestsBounded' /\ ConcurrencyBounded'
<1> SUFFICES ASSUME TypeOK, CallsKnown, Finite, CountedKept, SlotsKept,
                    RequestsBounded, ConcurrencyBounded, [Next]_vars
             PROVE  RequestsBounded' /\ ConcurrencyBounded'
  OBVIOUS
<1>1. \A o : /\ IsFiniteSet(Of(o, Counting)) /\ IsFiniteSet(Of(o, Holding))
  <2>1. \A o : Of(o, Counting) \subseteq admitted /\ Of(o, Holding) \subseteq admitted
    BY AdmittedTypes DEF Of, Counting, Holding
  <2> QED
    BY <2>1, FS_Subset DEF Finite
<1>2. \A o, S : Of(o, S)' = {a \in S' : o \in OwnersOf(a)}
  BY DEF Of, OwnersOf
<1>3. ASSUME now' \in {now, now + 1}, admitted' = admitted, open' \subseteq open
      PROVE  RequestsBounded' /\ ConcurrencyBounded'
  <2>1. Counting' \subseteq Counting /\ Holding' \subseteq Holding
    BY <1>3, OnlyNewCallsCount DEF Counting, Holding
  <2>2. ASSUME NEW o \in Owners
        PROVE  /\ ~ Exceeds(Cardinality(Of(o, Counting')), RequestLimit)
               /\ ~ Exceeds(Cardinality(Of(o, Holding')), ConcurrencyLimit)
    <3>1. Of(o, Counting') \subseteq Of(o, Counting) /\ Of(o, Holding') \subseteq Of(o, Holding)
      BY <2>1 DEF Of
    <3>2. /\ ~ Exceeds(Cardinality(Of(o, Counting)), RequestLimit)
          /\ ~ Exceeds(Cardinality(Of(o, Holding)), ConcurrencyLimit)
      BY DEF RequestsBounded, ConcurrencyBounded
    <3> QED
      BY <1>1, <3>1, <3>2, NoMore, Constants
  <2> QED
    BY <2>2 DEF RequestsBounded, ConcurrencyBounded, Of, OwnersOf, Exceeds
<1>4. ASSUME NEW g \in Gateways, CheckAdmits(g)
      PROVE  RequestsBounded' /\ ConcurrencyBounded'
  <2> DEFINE new == Admission(call[g])
  <2>1. /\ Checks(g) /\ now' = now /\ OwnersOf(new) = OwnersOf(call[g])
        /\ admitted' = admitted \union {new} /\ open' = open \union {new}
    BY <1>4, SameCall DEF CheckAdmits, Waits, Checks
  <2> HIDE DEF new
  <2>2. Counting' \subseteq Counting \union {new} /\ Holding' \subseteq Holding \union {new}
    BY <2>1, OnlyNewCallsCount DEF Counting, Holding
  <2>3. ASSUME NEW o \in Owners
        PROVE  /\ ~ Exceeds(Cardinality(Of(o, Counting')), RequestLimit)
               /\ ~ Exceeds(Cardinality(Of(o, Holding')), ConcurrencyLimit)
    <3>1. CASE o \in OwnersOf(call[g])
      <4>1. /\ Of(o, Counting') \subseteq Of(o, Counting) \union {new}
            /\ Of(o, Holding') \subseteq Of(o, Holding) \union {new}
        BY <2>2 DEF Of
      <4>2. /\ ~ Exceeds(Cardinality(Recent(requests[o], call[g].stamp)) + 1, RequestLimit)
            /\ ~ Exceeds(Cardinality(Fresh(slots[o], call[g].stamp)) + 1, ConcurrencyLimit)
        BY <1>4, <3>1, AdmittedWithin
      <4> DEFINE recent == Recent(requests[o], call[g].stamp)
                 fresh == Fresh(slots[o], call[g].stamp)
                 counting == Of(o, Counting)
                 holding == Of(o, Holding)
      <4>3. /\ Cardinality(counting) <= Cardinality(recent) /\ IsFiniteSet(recent)
            /\ Cardinality(holding) <= Cardinality(fresh) /\ IsFiniteSet(fresh)
            /\ IsFiniteSet(counting) /\ IsFiniteSet(holding)
        BY <1>1, <2>1, <3>1, ScriptCounts
      <4>4. RequestLimit \in Limits /\ ConcurrencyLimit \in Limits
        BY Constants
      <4> HIDE DEF recent, fresh, counting, holding
      <4>5. ASSUME NEW T, T \subseteq counting \union {new} PROVE ~ Exceeds(Cardinality(T), RequestLimit)
        BY <4>2, <4>3, <4>4, <4>5, OneMore DEF recent
      <4>6. ASSUME NEW T, T \subseteq holding \union {new} PROVE ~ Exceeds(Cardinality(T), ConcurrencyLimit)
        BY <4>2, <4>3, <4>4, <4>6, OneMore DEF fresh
      <4> QED
        BY <4>1, <4>5, <4>6 DEF counting, holding
    <3>2. CASE o \notin OwnersOf(call[g])
      <4>1. Of(o, Counting') \subseteq Of(o, Counting) /\ Of(o, Holding') \subseteq Of(o, Holding)
        BY <2>1, <2>2, <3>2 DEF Of
      <4>2. /\ ~ Exceeds(Cardinality(Of(o, Counting)), RequestLimit)
            /\ ~ Exceeds(Cardinality(Of(o, Holding)), ConcurrencyLimit)
        BY DEF RequestsBounded, ConcurrencyBounded
      <4> QED
        BY <1>1, <4>1, <4>2, NoMore, Constants
    <3> QED
      BY <3>1, <3>2
  <2> QED
    BY <2>3 DEF RequestsBounded, ConcurrencyBounded, Of, OwnersOf, Exceeds
<1>5. CASE Quiet
  BY <1>3, <1>5 DEF Quiet, history
<1>6. CASE Tick
  BY <1>3, <1>6 DEF Tick, history
<1>7. ASSUME NEW g \in Gateways, CheckRefuses(g) PROVE RequestsBounded' /\ ConcurrencyBounded'
  BY <1>3, <1>7 DEF CheckRefuses, history
<1>8. ASSUME NEW g \in Gateways, FinishRuns(g) PROVE RequestsBounded' /\ ConcurrencyBounded'
  BY <1>3, <1>8 DEF FinishRuns
<1> QED
  BY <1>4, <1>5, <1>6, <1>7, <1>8, KeySteps

\* The scripts' invariant: the calls are known, the keys are finite, outlast what counts
\* and hold it, and hold nothing else.
ScriptsInv ==
  /\ TypeOK /\ CallsKnown /\ Finite /\ Stored /\ Lasting
  /\ CountedKept /\ SlotsKept /\ RequestsBounded /\ ConcurrencyBounded

LEMMA ScriptsInvHolds == Spec => []ScriptsInv
<1>1. Init => ScriptsInv
  BY InitTypeOK, InitCallsKnown, InitStored, InitLasting, InitKept, InitBounded DEF ScriptsInv
<1>2. ScriptsInv /\ [Next]_vars => ScriptsInv'
  BY StepTypeOK, StepCallsKnown, StepFinite, StepStored, StepLasting, StepKept, StepBounded
  DEF ScriptsInv
<1> QED
  BY <1>1, <1>2, PTL DEF Spec

\* A call that was admitted and is not finished keeps its slot in the concurrency keys of
\* its user and of the tenant for as long as every clock in use places it within the TTL,
\* whichever gateways sweep, however late scripts run and whatever keys expire.
THEOREM SlotsOutlastTheSweeps == Spec => []SlotsKept
<1>1. ScriptsInv => SlotsKept
  BY DEF ScriptsInv
<1> QED
  BY <1>1, ScriptsInvHolds, PTL

\* The calls that every clock places in the last window are within the request limit, for
\* each user and for the tenant: CHECK_SCRIPT counts the members of zsets that gateways
\* with other clocks sweep and whose keys expire, and is run again after a lost answer.
THEOREM RequestsWithinLimit == Spec => []RequestsBounded
<1>1. ScriptsInv => RequestsBounded
  BY DEF ScriptsInv
<1> QED
  BY <1>1, ScriptsInvHolds, PTL

\* The calls that are admitted, not finished and within the TTL by every clock are within
\* the concurrency limit, for each user and for the tenant.
THEOREM ConcurrencyWithinLimit == Spec => []ConcurrencyBounded
<1>1. ScriptsInv => ConcurrencyBounded
  BY DEF ScriptsInv
<1> QED
  BY <1>1, ScriptsInvHolds, PTL

----------------------------------------------------------------------------
\* Every member of a key is a call of the history: what a refusal counts was there.
LEMMA MembersCount ==
  ASSUME NEW S, IsFiniteSet(S), NEW T, \A e \in T : \E a \in S : e = Slot(a)
  PROVE  Cardinality(T) <= Cardinality(S) /\ Cardinality(T) \in Nat /\ Cardinality(S) \in Nat
<1> DEFINE f == [e \in T |-> CHOOSE a \in S : e = Slot(a)]
<1>1. \A e \in T : f[e] \in S /\ e = Slot(f[e])
  OBVIOUS
<1>2. f \in [T -> S]
  <2>1. \A e \in T : (CHOOSE a \in S : e = Slot(a)) \in S
    OBVIOUS
  <2> QED
    BY <2>1
<1> HIDE DEF f
<1>3. f \in Injection(T, S)
  BY <1>1, <1>2 DEF Injection, IsInjective
<1> QED
  BY <1>3, FS_Injection, FS_CardinalityType

LEMMA TokensFinite ==
  ASSUME NEW S, IsFiniteSet(S), \A a \in S : a.tokens \in Nat
  PROVE  IsFiniteSet(Tokens(S))
<1> DEFINE units == {{c.id} \X (1 .. c.tokens) : c \in S}
           f == [c \in S |-> {c.id} \X (1 .. c.tokens)]
<1>1. ASSUME NEW a \in S PROVE IsFiniteSet({a.id} \X (1 .. a.tokens))
  <2>1. IsFiniteSet({a.id})
    BY FS_Singleton
  <2>2. IsFiniteSet(1 .. a.tokens)
    BY FS_Interval
  <2> QED
    BY <2>1, <2>2, FS_Product
<1>2. f \in Surjection(S, units)
  BY DEF Surjection
<1>3. IsFiniteSet(units)
  BY <1>2, FS_Surjection
<1>4. \A T \in units : IsFiniteSet(T)
  BY <1>1
<1> HIDE DEF units
<1>5. IsFiniteSet(UNION units)
  BY <1>3, <1>4, FS_UNION
<1> QED
  BY <1>5 DEF units, Tokens

\* A script that refuses a call found the reason in the calls that are open, or recent.
LEMMA DenialsAreDue ==
  ASSUME TypeOK, CallsKnown, Finite, Stored, NEW g \in Gateways, Checks(g), Denied(call[g])
  PROVE  Due(call[g], FirstDenial(call[g]))
<1> DEFINE c == call[g]
           held(o) == {a \in Of(o, open) : a.stamp > c.stamp - Ttl}
           counted(o) == {a \in Of(o, admitted) : a.stamp > c.stamp - Window}
<1>1. /\ {c.user, Tenant} \subseteq Owners
      /\ c.tokens \in Nat
  BY BusyCalls, Constants DEF Checks, Calls, OwnersOf
<1>2. PICK i \in {1, 2, 3, 4, 5, 6} :
        Denials(c)[i].holds /\ FirstDenial(c) = Denials(c)[i].reason
  BY FirstDenialHolds
<1>3. \A o : /\ IsFiniteSet(held(o)) /\ IsFiniteSet(counted(o))
             /\ \A a \in counted(o) : a.tokens \in Nat
  <2>1. \A o : held(o) \subseteq admitted /\ counted(o) \subseteq admitted
    BY AdmittedTypes DEF Of
  <2> HIDE DEF held, counted
  <2> QED
    BY <2>1, AdmittedTypes, FS_Subset DEF Finite
<1>4. ASSUME NEW o \in Owners, Exceeds(Cardinality(Fresh(slots[o], c.stamp)) + 1, ConcurrencyLimit)
      PROVE  Cardinality(held(o)) >= ConcurrencyLimit
  <2>1. \A e \in Fresh(slots[o], c.stamp) : \E a \in held(o) : e = Slot(a)
    BY DEF Fresh, Stored, Slot
  <2>2. ConcurrencyLimit \in Nat
    BY <1>4, Constants DEF Exceeds, Limits
  <2> DEFINE fresh == Fresh(slots[o], c.stamp)
             holding == held(o)
  <2>3. IsFiniteSet(holding) /\ \A e \in fresh : \E a \in holding : e = Slot(a)
    BY <1>3, <2>1
  <2>4. Cardinality(fresh) + 1 > ConcurrencyLimit
    BY <1>4 DEF Exceeds
  <2> HIDE DEF fresh, holding
  <2>5. Cardinality(holding) >= ConcurrencyLimit
    BY <2>2, <2>3, <2>4, MembersCount
  <2> QED
    BY <2>5 DEF holding
<1>5. ASSUME NEW o \in Owners, Exceeds(Cardinality(Recent(requests[o], c.stamp)) + 1, RequestLimit)
      PROVE  Cardinality(counted(o)) >= RequestLimit
  <2>1. \A e \in Recent(requests[o], c.stamp) : \E a \in counted(o) : e = Slot(a)
    BY DEF Recent, Stored, Slot
  <2>2. RequestLimit \in Nat
    BY <1>5, Constants DEF Exceeds, Limits
  <2> DEFINE recent == Recent(requests[o], c.stamp)
             counting == counted(o)
  <2>3. IsFiniteSet(counting) /\ \A e \in recent : \E a \in counting : e = Slot(a)
    BY <1>3, <2>1
  <2>4. Cardinality(recent) + 1 > RequestLimit
    BY <1>5 DEF Exceeds
  <2> HIDE DEF recent, counting
  <2>5. Cardinality(counting) >= RequestLimit
    BY <2>2, <2>3, <2>4, MembersCount
  <2> QED
    BY <2>5 DEF counting
<1>6. ASSUME NEW o \in Owners,
             Exceeds(Cardinality(TokenUnits(Recent(inputs[o], c.stamp), c.stamp)) + c.tokens, TokenLimit)
      PROVE  Cardinality(Tokens(counted(o))) + c.tokens > TokenLimit
  <2> DEFINE sum == TokenUnits(Recent(inputs[o], c.stamp), c.stamp)
             all == Tokens(counted(o))
  <2>1. ASSUME NEW unit \in sum PROVE unit \in all
    <3>1. PICK e \in Recent(inputs[o], c.stamp) : unit \in {e.id} \X (1 .. e.tokens)
      BY <2>1 DEF TokenUnits
    <3>2. e \in inputs[o] /\ e.score > c.stamp - Window
      BY DEF Recent
    <3>3. PICK a \in Of(o, admitted) : e = Input(a)
      BY <3>2 DEF Stored
    <3>4. e.id = a.id /\ e.tokens = a.tokens /\ e.score = a.stamp
      BY <3>3 DEF Input
    <3>5. a \in counted(o)
      BY <3>2, <3>3, <3>4
    <3> HIDE DEF counted
    <3> QED
      BY <3>1, <3>4, <3>5 DEF Tokens
  <2>2. IsFiniteSet(all)
    <3> HIDE DEF counted
    <3> QED
      BY <1>3, TokensFinite
  <2>3. TokenLimit \in Nat /\ Cardinality(sum) + c.tokens > TokenLimit
    BY <1>6, Constants DEF Exceeds, Limits
  <2> HIDE DEF sum, all
  <2>4. Cardinality(sum) <= Cardinality(all) /\ IsFiniteSet(sum)
    BY <2>1, <2>2, FS_Subset
  <2>5. Cardinality(sum) \in Nat /\ Cardinality(all) \in Nat
    BY <2>2, <2>4, FS_CardinalityType
  <2>6. Cardinality(all) + c.tokens > TokenLimit
    BY <1>1, <2>3, <2>4, <2>5
  <2> QED
    BY <2>6 DEF all
<1>7. CASE i \in {1, 2}
  <2>1. \/ /\ FirstDenial(c) = "concurrency_quota_exceeded"
           /\ Cardinality(held(c.user)) >= ConcurrencyLimit
        \/ /\ FirstDenial(c) = "tenant_concurrency_quota_exceeded"
           /\ Cardinality(held(Tenant)) >= ConcurrencyLimit
    <3> HIDE DEF c, held
    <3> QED
      BY <1>1, <1>2, <1>4, <1>7, ChecksOfTheScript
  <2> QED
    BY <2>1 DEF Due
<1>8. CASE i \in {3, 4}
  <2>1. \/ /\ FirstDenial(c) = "request_quota_exceeded"
           /\ Cardinality(counted(c.user)) >= RequestLimit
        \/ /\ FirstDenial(c) = "tenant_request_quota_exceeded"
           /\ Cardinality(counted(Tenant)) >= RequestLimit
    <3> HIDE DEF c, counted
    <3> QED
      BY <1>1, <1>2, <1>5, <1>8, ChecksOfTheScript
  <2> QED
    BY <2>1 DEF Due
<1>9. CASE i \in {5, 6}
  <2>1. \/ /\ FirstDenial(c) = "input_token_quota_exceeded"
           /\ Cardinality(Tokens(counted(c.user))) + c.tokens > TokenLimit
        \/ /\ FirstDenial(c) = "tenant_input_token_quota_exceeded"
           /\ Cardinality(Tokens(counted(Tenant))) + c.tokens > TokenLimit
    <3> HIDE DEF c, counted
    <3> QED
      BY <1>1, <1>2, <1>6, <1>9, ChecksOfTheScript
  <2> QED
    BY <2>1 DEF Due
<1> QED
  BY <1>7, <1>8, <1>9

\* The only step that gives a check a reason is the script that refuses it.
LEMMA ReasonsOfTheScript ==
  ASSUME TypeOK, [Next]_vars, NEW g \in Gateways, Waits(g, "check"), call'[g] # Idle,
         call'[g].reply \in Reasons
  PROVE  CheckRefuses(g) /\ call'[g].reply = FirstDenial(call[g])
<1>f. call = [h \in Gateways |-> call[h]]
  BY DEF TypeOK
<1>0. "none" \notin Reasons /\ "quota_allowed" \notin Reasons /\ "finished" \notin Reasons
  BY DEF Reasons
<1>1. call'[g] # call[g]
  BY <1>0 DEF Waits
<1>2. ASSUME NEW h \in Gateways, NEW c, call' = [call EXCEPT ![h] = c] PROVE h = g /\ call'[g] = c
  BY <1>f, <1>1, <1>2
<1>3. ASSUME NEW h \in Gateways, NEW reason, Reply(h, reason)
      PROVE  h = g /\ call'[g].reply = reason
  <2>1. call' = [call EXCEPT ![h] = [call[h] EXCEPT !.reply = reason]]
    BY <1>3 DEF Reply
  <2>2. h = g /\ call'[g] = [call[g] EXCEPT !.reply = reason]
    BY <1>2, <2>1
  <2>3. call[g] \in Calls
    BY BusyCalls DEF Waits
  <2> QED
    BY <2>2, <2>3 DEF Calls
<1>4. ASSUME NEW h \in Gateways, NEW u \in Users, NEW tokens \in TokenEstimates, Check(h, u, tokens)
      PROVE  FALSE
  BY <1>2, <1>4 DEF Check, Waits
<1>5. ASSUME NEW h \in Gateways, NEW a \in running, Finish(h, a) PROVE FALSE
  BY <1>2, <1>5 DEF Finish, Waits
<1>6. ASSUME NEW h \in Gateways, Answered(h) \/ GiveUp(h) \/ Crash(h) PROVE FALSE
  BY <1>2, <1>6 DEF Answered, GiveUp, Crash
<1>7. ASSUME NEW h \in Gateways, Resend(h) PROVE FALSE
  <2>1. call' = [call EXCEPT ![h] = [call[h] EXCEPT !.retries = @ + 1, !.reply = "none"]]
    BY <1>7 DEF Resend
  <2>2. call'[g] = [call[g] EXCEPT !.retries = @ + 1, !.reply = "none"] /\ call[g] \in Calls
    BY <1>2, <2>1, BusyCalls DEF Waits
  <2> QED
    BY <1>0, <2>2 DEF Calls
<1>8. ASSUME NEW h \in Gateways, CheckAdmits(h) \/ FinishRuns(h) PROVE FALSE
  BY <1>0, <1>3, <1>8 DEF CheckAdmits, FinishRuns
<1>9. ASSUME NEW h \in Gateways, CheckRefuses(h)
      PROVE  CheckRefuses(g) /\ call'[g].reply = FirstDenial(call[g])
  BY <1>3, <1>9 DEF CheckRefuses
<1>10. CASE Tick \/ UNCHANGED vars
  BY <1>1, <1>10 DEF Tick, vars
<1> QED
  BY <1>4, <1>5, <1>6, <1>7, <1>8, <1>9, <1>10 DEF Next

\* A script refuses a call only for calls that are open and within the TTL by its own
\* stamp, or were admitted within the window: what a crashed gateway, a lost answer or a
\* finished call leaves in the keys refuses nobody once it is past.
THEOREM RefusedWhenDue == Spec => RefusalsAreDue
<1>1. ASSUME ScriptsInv, [Next]_vars
      PROVE  \A g \in Gateways :
               Waits(g, "check") /\ call[g]' # Idle /\ call[g].reply' \in Reasons
                 => Due(call[g], call[g].reply')
  <2> SUFFICES ASSUME NEW g \in Gateways, Waits(g, "check"), call'[g] # Idle,
                      call'[g].reply \in Reasons
               PROVE  Due(call[g], call'[g].reply)
    OBVIOUS
  <2>1. CheckRefuses(g) /\ call'[g].reply = FirstDenial(call[g])
    BY <1>1, ReasonsOfTheScript DEF ScriptsInv
  <2>2. Due(call[g], FirstDenial(call[g]))
    BY <1>1, <2>1, DenialsAreDue DEF ScriptsInv, CheckRefuses, Waits, Checks
  <2> QED
    BY <2>1, <2>2
<1> QED
  BY <1>1, ScriptsInvHolds, PTL DEF Spec, RefusalsAreDue

----------------------------------------------------------------------------
\* A gateway takes the stamps of its calls from its own clock, one call at a time, and that
\* clock does not run backwards: what it stamps next is no earlier than what it had
\* admitted.
StampsInOrder ==
  /\ \A g \in Gateways : Busy(g) => call[g].gateway = g
  /\ \A a \in admitted : a.gateway \in Gateways /\ a.stamp <= Clock(a.gateway)
  /\ \A g \in Gateways : Checks(g) => \A a \in admitted : a.gateway = g => a.stamp <= call[g].stamp

LEMMA InitInOrder == Init => StampsInOrder /\ TokensOfOneGateway
<1> SUFFICES ASSUME Init PROVE StampsInOrder /\ TokensOfOneGateway
  OBVIOUS
<1>1. StampsInOrder
  BY DEF Init, StampsInOrder, Busy, Checks
<1>2. ASSUME NEW g \in Gateways, NEW o \in Owners
      PROVE  ~ Exceeds(Cardinality(Tokens({a \in Of(o, Counting) : a.gateway = g})), TokenLimit)
  <2>1. {a \in Of(o, Counting) : a.gateway = g} = {}
    BY DEF Init, Of, Counting
  <2>2. Tokens({}) = {}
    BY DEF Tokens
  <2>3. Cardinality(Tokens({a \in Of(o, Counting) : a.gateway = g})) = 0
    BY <2>1, <2>2, FS_EmptySet
  <2>4. TokenLimit \in Nat \/ TokenLimit = NoLimit
    BY Constants DEF Limits
  <2> QED
    BY <2>3, <2>4 DEF Exceeds
<1> QED
  BY <1>1, <1>2 DEF TokensOfOneGateway

\* One gateway's call changes: it gets the time of its clock, or keeps its stamp.
LEMMA OneGatewayInOrder ==
  ASSUME TypeOK, CallsKnown, StampsInOrder, NEW g \in Gateways, now' = now,
         \A h \in Gateways : h # g => call'[h] = call[h],
         Busy(g)' => call'[g].gateway = g,
         Checks(g)' => \/ call'[g].stamp = Clock(g)
                       \/ Checks(g) /\ call'[g].stamp = call[g].stamp,
         \A a \in admitted' : a \in admitted \/ (Checks(g) /\ a = Admission(call[g]))
  PROVE  StampsInOrder'
<1>1. \A h \in Gateways : Clock(h)' = Clock(h) /\ Clock(h) \in Int
  BY AdmittedTypes, Constants DEF Clock
<1>2. \A a \in admitted : a.stamp \in Int
  BY AdmittedTypes
<1>3. ASSUME Checks(g)
      PROVE  /\ call[g].stamp \in Int /\ call[g].stamp <= Clock(g)
             /\ Admission(call[g]).gateway = g /\ Admission(call[g]).stamp = call[g].stamp
  <2>1. /\ Busy(g) /\ call[g].op = "check" /\ call[g] \in Calls /\ KnownCall(g, call[g])
        /\ call[g].gateway = g
    BY <1>3, BusyCalls DEF Checks, CallsKnown, StampsInOrder
  <2>2. call[g].stamp \in Int
    BY <2>1, StampsAreTimes DEF Calls
  <2> QED
    BY <2>1, <2>2 DEF KnownCall, Admission
<1>4. ASSUME NEW a \in admitted'
      PROVE  /\ a.gateway \in Gateways /\ a.stamp \in Int /\ a.stamp <= Clock(a.gateway)
             /\ a \in admitted \/ (a.gateway = g /\ Checks(g) /\ a.stamp = call[g].stamp)
  BY <1>2, <1>3 DEF StampsInOrder
<1>5. \A h \in Gateways : Busy(h)' => call'[h].gateway = h
  BY DEF StampsInOrder, Busy
<1>6. ASSUME NEW h \in Gateways, Checks(h)', NEW a \in admitted', a.gateway = h
      PROVE  a.stamp <= call'[h].stamp
  <2>1. CASE h # g
    BY <1>4, <1>6, <2>1 DEF StampsInOrder, Checks, Busy
  <2>2. CASE h = g
    <3>1. Checks(g) => a.stamp <= call[g].stamp
      BY <1>3, <1>4, <1>6, <2>2 DEF StampsInOrder
    <3>2. a.stamp <= Clock(g)
      BY <1>4, <1>6, <2>2
    <3> QED
      BY <1>6, <2>2, <3>1, <3>2
  <2> QED
    BY <2>1, <2>2
<1> QED
  BY <1>1, <1>4, <1>5, <1>6 DEF StampsInOrder

LEMMA StepInOrder == TypeOK /\ CallsKnown /\ StampsInOrder /\ [Next]_vars => StampsInOrder'
<1> SUFFICES ASSUME TypeOK, CallsKnown, StampsInOrder, [Next]_vars PROVE StampsInOrder'
  OBVIOUS
<1>f. call = [h \in Gateways |-> call[h]]
  BY DEF TypeOK
\* The call of a gateway is another one, or none.
<1>1. ASSUME NEW g \in Gateways, NEW c, call' = [call EXCEPT ![g] = c],
             c # Idle => c.gateway = g,
             c # Idle /\ c.op = "check" => \/ c.stamp = Clock(g)
                                           \/ Checks(g) /\ c.stamp = call[g].stamp,
             \/ admitted' = admitted
             \/ Checks(g) /\ admitted' = admitted \union {Admission(call[g])},
             now' = now
      PROVE  StampsInOrder'
  <2>1. call'[g] = c /\ \A h \in Gateways : h # g => call'[h] = call[h]
    BY <1>f, <1>1
  <2>2. \A a \in admitted' : a \in admitted \/ (Checks(g) /\ a = Admission(call[g]))
    BY <1>1
  <2>3. /\ Busy(g)' => call'[g].gateway = g
        /\ Checks(g)' => \/ call'[g].stamp = Clock(g)
                         \/ Checks(g) /\ call'[g].stamp = call[g].stamp
    BY <1>1, <2>1 DEF Busy, Checks
  <2> QED
    BY <1>1, <2>1, <2>2, <2>3, OneGatewayInOrder
<1>2. ASSUME NEW g \in Gateways, Busy(g), NEW reason, Reply(g, reason), now' = now,
             \/ admitted' = admitted
             \/ Checks(g) /\ admitted' = admitted \union {Admission(call[g])}
      PROVE  StampsInOrder'
  <2> DEFINE c == [call[g] EXCEPT !.reply = reason]
  <2>1. /\ call' = [call EXCEPT ![g] = c] /\ c.op = call[g].op /\ c.stamp = call[g].stamp
        /\ c.gateway = g
    BY <1>2, BusyCalls DEF Reply, Calls, StampsInOrder
  <2>2. c # Idle /\ c.op = "check" => Checks(g)
    BY <1>2, <2>1 DEF Checks
  <2> HIDE DEF c
  <2> QED
    BY <1>1, <1>2, <2>1, <2>2
<1>3. ASSUME NEW g \in Gateways, NEW u \in Users, NEW tokens \in TokenEstimates, Check(g, u, tokens)
      PROVE  StampsInOrder'
  <2> DEFINE c == [op |-> "check", id |-> issued + 1, gateway |-> g, user |-> u, tokens |-> tokens,
                   stamp |-> Clock(g), retries |-> 0, reply |-> "none"]
  <2>1. /\ call' = [call EXCEPT ![g] = c] /\ now' = now /\ admitted' = admitted
        /\ c.gateway = g /\ c.stamp = Clock(g)
    BY <1>3 DEF Check, history
  <2> HIDE DEF c
  <2> QED
    BY <1>1, <2>1
<1>4. ASSUME NEW g \in Gateways, CheckRefuses(g) PROVE StampsInOrder'
  BY <1>2, <1>4 DEF CheckRefuses, Waits, history
<1>5. ASSUME NEW g \in Gateways, CheckAdmits(g) PROVE StampsInOrder'
  BY <1>2, <1>5 DEF CheckAdmits, Waits, Checks
<1>6. ASSUME NEW g \in Gateways, FinishRuns(g) PROVE StampsInOrder'
  BY <1>2, <1>6 DEF FinishRuns, Waits
<1>7. ASSUME NEW g \in Gateways, Resend(g) PROVE StampsInOrder'
  <2> DEFINE c == [call[g] EXCEPT !.retries = @ + 1, !.reply = "none"]
  <2>1. /\ call' = [call EXCEPT ![g] = c] /\ now' = now /\ admitted' = admitted
        /\ c.op = call[g].op /\ c.stamp = call[g].stamp /\ c.gateway = g
    BY <1>7, BusyCalls DEF Resend, Calls, StampsInOrder, history
  <2>2. c # Idle /\ c.op = "check" => Checks(g)
    BY <1>7, <2>1 DEF Checks, Resend
  <2> HIDE DEF c
  <2> QED
    BY <1>1, <2>1, <2>2
<1>8. ASSUME NEW g \in Gateways, Answered(g) \/ GiveUp(g) \/ Crash(g) PROVE StampsInOrder'
  <2>1. call' = [call EXCEPT ![g] = Idle] /\ now' = now /\ admitted' = admitted
    BY <1>8 DEF Answered, GiveUp, Crash, history
  <2> QED
    BY <1>1, <2>1
<1>9. ASSUME NEW g \in Gateways, NEW a \in running, Finish(g, a) PROVE StampsInOrder'
  <2> DEFINE c == [op |-> "finish", id |-> a.id, gateway |-> g, user |-> a.user,
                   tokens |-> a.tokens, stamp |-> a.stamp, retries |-> 0, reply |-> "none"]
  <2>1. /\ call' = [call EXCEPT ![g] = c] /\ now' = now /\ admitted' = admitted
        /\ c.gateway = g /\ c.op = "finish"
    BY <1>9 DEF Finish, history
  <2> HIDE DEF c
  <2> QED
    BY <1>1, <2>1
<1>10. CASE Tick
  <2>1. now' = now + 1 /\ call' = call /\ admitted' = admitted
    BY <1>10 DEF Tick, history
  <2>2. \A h \in Gateways : Clock(h) \in Int /\ Clock(h) <= Clock(h)'
    BY <2>1, AdmittedTypes, Constants DEF Clock
  <2>3. \A h \in Gateways : Clock(h)' \in Int
    BY <2>1, AdmittedTypes, Constants DEF Clock
  <2>4. \A a \in admitted : a.stamp \in Int /\ a.gateway \in Gateways /\ a.stamp <= Clock(a.gateway)
    BY AdmittedTypes DEF StampsInOrder
  <2>5. \A a \in admitted : a.stamp <= Clock(a.gateway)'
    BY <2>2, <2>3, <2>4
  <2> QED
    BY <2>1, <2>5 DEF StampsInOrder, Busy, Checks
<1>11. CASE UNCHANGED vars
  BY <1>11 DEF vars, history, StampsInOrder, Busy, Checks, Clock
<1> QED
  BY <1>3, <1>4, <1>5, <1>6, <1>7, <1>8, <1>9, <1>10, <1>11 DEF Next

----------------------------------------------------------------------------
\* The sum of the script, as the tokens of the members it adds up.
LEMMA SumsTokens ==
  \A zset, stamp : TokenUnits(zset, stamp) = Tokens({e \in zset : e.score > stamp - Window /\ e.score <= stamp})
BY DEF TokenUnits, Tokens

\* A set of calls that grew by at most one has at most that call's tokens more.
LEMMA TokensOfOneMore ==
  ASSUME NEW S, NEW T, NEW U, NEW a, a.tokens \in Nat, T \subseteq S \union {a},
         IsFiniteSet(U), Tokens(S) \subseteq U
  PROVE  Cardinality(Tokens(T)) \in Nat /\ Cardinality(Tokens(T)) <= Cardinality(U) + a.tokens
<1> DEFINE own == {a.id} \X (1 .. a.tokens)
<1>1. IsFiniteSet(own) /\ Cardinality(own) = a.tokens
  <2>1. IsFiniteSet(1 .. a.tokens) /\ Cardinality(1 .. a.tokens) = a.tokens
    BY FS_Interval
  <2>2. IsFiniteSet({a.id}) /\ Cardinality({a.id}) = 1
    BY FS_Singleton
  <2>3. IsFiniteSet(own) /\ Cardinality(own) = Cardinality({a.id}) * Cardinality(1 .. a.tokens)
    BY <2>1, <2>2, FS_Product
  <2> QED
    BY <2>1, <2>2, <2>3
<1>2. Tokens(T) \subseteq U \union own
  <2> SUFFICES ASSUME NEW c \in T, NEW unit \in {c.id} \X (1 .. c.tokens)
               PROVE  unit \in U \union own
    BY DEF Tokens
  <2>1. CASE c \in S
    BY <2>1 DEF Tokens
  <2>2. CASE c = a
    BY <2>2
  <2> QED
    BY <2>1, <2>2
<1> HIDE DEF own
<1> DEFINE all == Cardinality(U \union own)
           both == Cardinality(U \intersect own)
           sum == Cardinality(U)
           tokens == Cardinality(Tokens(T))
<1>3. IsFiniteSet(U \union own) /\ all = sum + a.tokens - both
  BY <1>1, FS_Union
<1>4. both \in Nat /\ sum \in Nat /\ all \in Nat
  BY <1>1, <1>3, FS_Subset, FS_CardinalityType
<1>5. tokens \in Nat /\ tokens <= all
  BY <1>2, <1>3, FS_Subset, FS_CardinalityType
<1> HIDE DEF all, both, sum, tokens
<1>6. tokens \in Nat /\ tokens <= sum + a.tokens
  BY <1>3, <1>4, <1>5
<1> QED
  BY <1>6 DEF sum, tokens

\* A script adds up all tokens of the calls of its own gateway: they have entries in the
\* input zsets, and none has a stamp later than its own.
LEMMA OwnTokensSummed ==
  ASSUME TypeOK, CallsKnown, CountedKept, StampsInOrder, NEW g \in Gateways, Checks(g),
         NEW o \in OwnersOf(call[g])
  PROVE  Tokens({a \in Of(o, Counting) : a.gateway = g})
           \subseteq TokenUnits(Recent(inputs[o], call[g].stamp), call[g].stamp)
<1> DEFINE s == call[g].stamp
<1>1. ASSUME NEW a \in Of(o, Counting), a.gateway = g
      PROVE  \E e \in Recent(inputs[o], s) : /\ e.score > s - Window /\ e.score <= s
                                             /\ e.id = a.id /\ e.tokens = a.tokens
  <2>1. a \in Counting /\ a \in admitted /\ o \in OwnersOf(a)
    BY DEF Of, Counting
  <2>2. Input(a) \in inputs[o] /\ a.stamp > s - Window /\ a.stamp <= s
    BY <1>1, <2>1, SweepsKeep DEF CountedKept, StampsInOrder
  <2>3. Input(a).score = a.stamp /\ Input(a).id = a.id /\ Input(a).tokens = a.tokens
    BY DEF Input
  <2> QED
    BY <2>2, <2>3 DEF Recent
<1> HIDE DEF s
<1>2. Tokens({a \in Of(o, Counting) : a.gateway = g}) \subseteq TokenUnits(Recent(inputs[o], s), s)
  <2> SUFFICES ASSUME NEW a \in Of(o, Counting), a.gateway = g, NEW unit \in {a.id} \X (1 .. a.tokens)
               PROVE  unit \in TokenUnits(Recent(inputs[o], s), s)
    BY DEF Tokens
  <2>1. PICK e \in Recent(inputs[o], s) : /\ e.score > s - Window /\ e.score <= s
                                          /\ e.id = a.id /\ e.tokens = a.tokens
    BY <1>1
  <2> QED
    BY <2>1 DEF TokenUnits
<1> QED
  BY <1>2 DEF s

LEMMA SumIsFinite ==
  ASSUME TypeOK, Finite, NEW o \in Owners, NEW stamp
  PROVE  IsFiniteSet(TokenUnits(Recent(inputs[o], stamp), stamp))
<1> DEFINE summed == {e \in Recent(inputs[o], stamp) : e.score > stamp - Window /\ e.score <= stamp}
<1>1. IsFiniteSet(summed)
  BY FS_Subset, SweepsOnlyDrop DEF Finite
<1>2. \A e \in summed : e.tokens \in Nat
  <2>1. inputs[o] \subseteq [id : Ids, score : Stamps, tokens : TokenEstimates]
    BY DEF TypeOK
  <2>2. \A e \in inputs[o] : e.tokens \in Nat
    BY <2>1, Constants
  <2> QED
    BY <2>2 DEF Recent
<1> HIDE DEF summed
<1>3. IsFiniteSet(Tokens(summed))
  BY <1>1, <1>2, TokensFinite
<1> QED
  BY <1>3, SumsTokens DEF summed

LEMMA AdmittedWithinTokens ==
  ASSUME NEW g \in Gateways, CheckAdmits(g), NEW o \in OwnersOf(call[g])
  PROVE  ~ Exceeds(Cardinality(TokenUnits(Recent(inputs[o], call[g].stamp), call[g].stamp)) + call[g].tokens,
                   TokenLimit)
<1>1. \A i \in {5, 6} : ~ Denials(call[g])[i].holds
  BY DEF CheckAdmits, Denied
<1>2. o = call[g].user \/ o = Tenant
  BY DEF OwnersOf
<1> QED
  BY <1>1, <1>2, ChecksOfTheScript

LEMMA StepTokens ==
  /\ TypeOK /\ CallsKnown /\ Finite /\ CountedKept /\ StampsInOrder /\ TokensOfOneGateway
  /\ [Next]_vars
  => TokensOfOneGateway'
<1> SUFFICES ASSUME TypeOK, CallsKnown, Finite, CountedKept, StampsInOrder, TokensOfOneGateway,
                    [Next]_vars
             PROVE  TokensOfOneGateway'
  OBVIOUS
<1> DEFINE own(h, o) == {a \in Of(o, Counting) : a.gateway = h}
           ownNext(h, o) == {a \in Of(o, Counting') : a.gateway = h}
<1>1. ASSUME \A h \in Gateways, o \in Owners : ~ Exceeds(Cardinality(Tokens(ownNext(h, o))), TokenLimit)
      PROVE  TokensOfOneGateway'
  BY <1>1 DEF TokensOfOneGateway, Of, OwnersOf, Tokens, Exceeds
\* Calls only leave the window.
<1>2. ASSUME NEW h \in Gateways, NEW o \in Owners, ownNext(h, o) \subseteq own(h, o)
      PROVE  ~ Exceeds(Cardinality(Tokens(ownNext(h, o))), TokenLimit)
  <2>1. ~ Exceeds(Cardinality(Tokens(own(h, o))), TokenLimit)
    BY DEF TokensOfOneGateway
  <2>2. own(h, o) \subseteq admitted
    BY DEF Of, Counting
  <2> HIDE DEF own, ownNext
  <2>3. IsFiniteSet(own(h, o)) /\ \A a \in own(h, o) : a.tokens \in Nat
    BY <2>2, AdmittedTypes, FS_Subset DEF Finite
  <2>4. IsFiniteSet(Tokens(own(h, o)))
    BY <2>3, TokensFinite
  <2>5. Tokens(ownNext(h, o)) \subseteq Tokens(own(h, o))
    BY <1>2 DEF Tokens
  <2> QED
    BY <2>1, <2>4, <2>5, NoMore, Constants
<1>3. ASSUME now' \in {now, now + 1}, admitted' = admitted PROVE TokensOfOneGateway'
  <2>1. Counting' \subseteq Counting
    BY <1>3, OnlyNewCallsCount DEF Counting
  <2>2. \A h \in Gateways, o \in Owners : ownNext(h, o) \subseteq own(h, o)
    BY <2>1 DEF Of
  <2> QED
    BY <1>1, <1>2, <2>2
<1>4. ASSUME NEW g \in Gateways, CheckAdmits(g) PROVE TokensOfOneGateway'
  <2> DEFINE new == Admission(call[g])
  <2>1. /\ Checks(g) /\ now' = now /\ OwnersOf(new) = OwnersOf(call[g])
        /\ admitted' = admitted \union {new} /\ new.tokens = call[g].tokens
    BY <1>4, SameCall DEF CheckAdmits, Waits, Checks
  <2>2. call[g].tokens \in Nat /\ new.gateway = g
    <3>1. call[g].tokens \in Nat
      BY <2>1, BusyCalls, Constants DEF Checks, Calls
    <3> QED
      BY <2>1, <3>1 DEF Admission, StampsInOrder, Checks
  <2> HIDE DEF new
  <2>3. Counting' \subseteq Counting \union {new}
    BY <2>1, OnlyNewCallsCount DEF Counting
  <2>4. ASSUME NEW h \in Gateways, NEW o \in Owners
        PROVE  ~ Exceeds(Cardinality(Tokens(ownNext(h, o))), TokenLimit)
    <3>1. CASE h = g /\ o \in OwnersOf(call[g])
      <4> DEFINE U == TokenUnits(Recent(inputs[o], call[g].stamp), call[g].stamp)
                 sum == Cardinality(U)
                 tokens == Cardinality(Tokens(ownNext(h, o)))
      <4>1. ~ Exceeds(sum + new.tokens, TokenLimit)
        BY <1>4, <2>1, <3>1, AdmittedWithinTokens
      <4>2. Tokens(own(h, o)) \subseteq U
        BY <2>1, <3>1, OwnTokensSummed
      <4>3. IsFiniteSet(U)
        BY SumIsFinite
      <4>4. ownNext(h, o) \subseteq own(h, o) \union {new}
        BY <2>3 DEF Of
      <4>5. sum \in Nat
        BY <4>3, FS_CardinalityType
      <4> HIDE DEF U, own, ownNext
      <4>6. tokens \in Nat /\ tokens <= sum + new.tokens
        BY <2>1, <2>2, <4>2, <4>3, <4>4, TokensOfOneMore
      <4> HIDE DEF sum, tokens
      <4>7. ~ Exceeds(tokens, TokenLimit)
        BY <2>1, <2>2, <4>1, <4>5, <4>6, Constants DEF Exceeds, Limits
      <4> QED
        BY <4>7 DEF tokens
    <3>2. CASE h # g \/ o \notin OwnersOf(call[g])
      <4>1. ownNext(h, o) \subseteq own(h, o)
        BY <2>1, <2>2, <2>3, <3>2 DEF Of
      <4> QED
        BY <1>2, <4>1
    <3> QED
      BY <3>1, <3>2
  <2> QED
    BY <1>1, <2>4
<1>5. CASE Quiet
  BY <1>3, <1>5 DEF Quiet, history
<1>6. CASE Tick
  BY <1>3, <1>6 DEF Tick, history
<1>7. ASSUME NEW g \in Gateways, CheckRefuses(g) PROVE TokensOfOneGateway'
  BY <1>3, <1>7 DEF CheckRefuses, history
<1>8. ASSUME NEW g \in Gateways, FinishRuns(g) PROVE TokensOfOneGateway'
  BY <1>3, <1>8 DEF FinishRuns
<1> QED
  BY <1>4, <1>5, <1>6, <1>7, <1>8, KeySteps

TokensInv == ScriptsInv /\ StampsInOrder /\ TokensOfOneGateway

LEMMA TokensInvHolds == Spec => []TokensInv
<1>1. Init /\ ScriptsInv => TokensInv
  BY InitInOrder DEF TokensInv
<1>2. TokensInv /\ ScriptsInv' /\ [Next]_vars => TokensInv'
  BY StepInOrder, StepTokens DEF TokensInv, ScriptsInv
<1> QED
  BY <1>1, <1>2, ScriptsInvHolds, PTL DEF Spec

\* The tokens of the calls that went to one gateway, and that every clock places in the last
\* window, are within the token limit, for each user and for the tenant: zset_sum_tokens
\* leaves out what has a later score than now_ms, but nothing of the gateway that asks.
THEOREM TokensOfOneGatewayWithinLimit == Spec => []TokensOfOneGateway
<1>1. TokensInv => TokensOfOneGateway
  BY DEF TokensInv
<1> QED
  BY <1>1, TokensInvHolds, PTL

\* So a deployment with one gateway keeps what docs/20-pr10-core-hardening.md:20 says,
\* whatever its clock, and whatever breaks or is sent again.
THEOREM OneReplicaKeepsTokenLimit ==
  ASSUME NEW g, Gateways = {g}
  PROVE  Spec => []TokensBounded
<1>1. ASSUME TokensInv PROVE TokensBounded
  <2>1. \A a \in admitted : a.gateway = g
    BY <1>1 DEF TokensInv, StampsInOrder
  <2>2. \A o \in Owners : {a \in Of(o, Counting) : a.gateway = g} = Of(o, Counting)
    BY <2>1 DEF Of, Counting
  <2>3. \A o \in Owners :
          ~ Exceeds(Cardinality(Tokens({a \in Of(o, Counting) : a.gateway = g})), TokenLimit)
    BY <1>1 DEF TokensInv, TokensOfOneGateway
  <2> QED
    BY <2>2, <2>3 DEF TokensBounded
<1> QED
  BY <1>1, TokensInvHolds, PTL

\* A finite set can be numbered with as many numbers as there are, or more.
LEMMA Numbered ==
  ASSUME NEW S, IsFiniteSet(S), NEW limit \in Nat, Cardinality(S) <= limit
  PROVE  Injection(S, 1 .. limit) # {}
<1>1. Cardinality(S) \in Nat /\ ExistsBijection(1 .. Cardinality(S), S)
  BY FS_CardinalityType
<1> DEFINE n == Cardinality(S)
<1>2. PICK b \in Bijection(1 .. n, S) : TRUE
  BY <1>1 DEF ExistsBijection
<1>3. n \in Nat /\ n <= limit
  BY <1>1
<1> HIDE DEF n
<1> DEFINE number == [s \in S |-> CHOOSE i \in 1 .. n : b[i] = s]
<1>4. \A s \in S : number[s] \in 1 .. n /\ b[number[s]] = s
  <2>1. \A s \in S : \E i \in 1 .. n : b[i] = s
    BY <1>2 DEF Bijection, Surjection
  <2> QED
    BY <2>1
<1>5. number \in [S -> 1 .. limit]
  <2>1. \A s \in S : (CHOOSE i \in 1 .. n : b[i] = s) \in 1 .. limit
    BY <1>3, <1>4
  <2> QED
    BY <2>1
<1> HIDE DEF number
<1>6. number \in Injection(S, 1 .. limit)
  BY <1>4, <1>5 DEF Injection, IsInjective
<1> QED
  BY <1>6

\* What two or more gateways can admit together is at most the limit once for each.
TokensOfAllGateways ==
  \A o \in Owners :
    TokenLimit # NoLimit =>
      Cardinality(Tokens(Of(o, Counting))) <= Cardinality(Gateways) * TokenLimit

\* The tokens of all gateways together are at most the limit times their number, for each
\* user and for the tenant: the limit of docs/20-pr10-core-hardening.md:20 is exceeded at
\* most by as many times as there are replicas.
THEOREM TokensGrowWithReplicas ==
  ASSUME IsFiniteSet(Gateways)
  PROVE  Spec => []TokensOfAllGateways
<1>1. ASSUME TokensInv, TokenLimit # NoLimit, NEW o \in Owners
      PROVE  Cardinality(Tokens(Of(o, Counting))) <= Cardinality(Gateways) * TokenLimit
  <2> DEFINE calls == Of(o, Counting)
             own(g) == {a \in calls : a.gateway = g}
             seats == Gateways \X (1 .. TokenLimit)
  <2>0. TokenLimit \in Nat
    BY <1>1, Constants DEF Limits
  <2>1. \A a \in calls : a.gateway \in Gateways /\ a \in own(a.gateway)
    BY <1>1 DEF TokensInv, StampsInOrder, Of, Counting
  <2>2. ASSUME NEW g \in Gateways PROVE Injection(Tokens(own(g)), 1 .. TokenLimit) # {}
    <3>1. ~ Exceeds(Cardinality(Tokens(own(g))), TokenLimit)
      BY <1>1 DEF TokensInv, TokensOfOneGateway
    <3>2. own(g) \subseteq admitted /\ TypeOK /\ Finite
      BY <1>1 DEF TokensInv, ScriptsInv, Of, Counting
    <3> HIDE DEF own
    <3>3. IsFiniteSet(own(g)) /\ \A a \in own(g) : a.tokens \in Nat
      BY <3>2, AdmittedTypes, FS_Subset DEF Finite
    <3>4. IsFiniteSet(Tokens(own(g)))
      BY <3>3, TokensFinite
    <3>5. Cardinality(Tokens(own(g))) <= TokenLimit
      BY <1>1, <2>0, <3>1, <3>4, FS_CardinalityType DEF Exceeds
    <3> QED
      BY <2>0, <3>4, <3>5, Numbered
  <2> DEFINE seat(g) == CHOOSE f \in Injection(Tokens(own(g)), 1 .. TokenLimit) : TRUE
             of(unit) == CHOOSE a \in calls : unit \in {a.id} \X (1 .. a.tokens)
             place == [unit \in Tokens(calls) |-> <<of(unit).gateway, seat(of(unit).gateway)[unit]>>]
  <2>3. ASSUME NEW unit \in Tokens(calls)
        PROVE  /\ of(unit).gateway \in Gateways
               /\ unit \in Tokens(own(of(unit).gateway))
    <3>1. \E a \in calls : unit \in {a.id} \X (1 .. a.tokens)
      BY DEF Tokens
    <3>2. of(unit) \in calls /\ unit \in {of(unit).id} \X (1 .. of(unit).tokens)
      BY <3>1
    <3> HIDE DEF of, own, calls
    <3> QED
      BY <2>1, <3>2 DEF Tokens
  <2>4. \A g \in Gateways : seat(g) \in Injection(Tokens(own(g)), 1 .. TokenLimit)
    <3> HIDE DEF own
    <3> QED
      BY <2>2
  <2> HIDE DEF seat, of, own
  <2>5. \A unit \in Tokens(calls) : seat(of(unit).gateway)[unit] \in 1 .. TokenLimit
    BY <2>3, <2>4 DEF Injection
  <2>6. place \in [Tokens(calls) -> seats]
    BY <2>3, <2>5
  <2>7. ASSUME NEW t \in Tokens(calls), NEW u \in Tokens(calls), place[t] = place[u] PROVE t = u
    <3>1. of(t).gateway = of(u).gateway /\ seat(of(t).gateway)[t] = seat(of(t).gateway)[u]
      BY <2>7
    <3>2. t \in Tokens(own(of(t).gateway)) /\ u \in Tokens(own(of(t).gateway))
      BY <2>3, <3>1
    <3> QED
      BY <2>3, <2>4, <3>1, <3>2 DEF Injection, IsInjective
  <2> HIDE DEF place
  <2>8. place \in Injection(Tokens(calls), seats)
    <3> HIDE DEF calls, seats
    <3> QED
      BY <2>6, <2>7 DEF Injection, IsInjective
  <2>9. /\ IsFiniteSet(1 .. TokenLimit) /\ Cardinality(1 .. TokenLimit) = TokenLimit
    BY <2>0, FS_Interval
  <2>10. IsFiniteSet(seats) /\ Cardinality(seats) = Cardinality(Gateways) * TokenLimit
    BY <2>9, FS_Product
  <2> HIDE DEF calls, seats
  <2>11. Cardinality(Tokens(calls)) <= Cardinality(Gateways) * TokenLimit
    BY <2>8, <2>10, FS_Injection
  <2> QED
    BY <2>11 DEF calls
<1>2. TokensInv => TokensOfAllGateways
  BY <1>1 DEF TokensOfAllGateways
<1> QED
  BY <1>2, TokensInvHolds, PTL

=============================================================================
