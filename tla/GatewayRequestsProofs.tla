------------------------ MODULE GatewayRequestsProofs ------------------------
(***************************************************************************)
(* Answers, audit events and ledger entries of GatewayRequests agree, for  *)
(* any number of requests, any settings and any limits.                    *)
(***************************************************************************)
EXTENDS GatewayRequests, FiniteSetTheorems, TLAPS

\* What can have happened to a request: what it asked, where its handler is, what
\* it was answered and what was audited.
Story(a, s, x, e) ==
  /\ s \in Stages /\ x \in Answers /\ e \in Seq(Answers)
  /\ s # "absent" => a \in Asks
  /\ s \in {"absent", "reading", "upstream", "opening", "opened", "failed", "dropped"} =>
       x = "none" /\ e = <<>>
  /\ s \in {"opening", "opened", "streaming"} => a.stream /\ ~ StreamingBillingIsBlocked(a)
  /\ s = "streaming" => x \in Statuses /\ e = <<>>
  /\ s = "over" => e = <<x>>
  /\ s = "unaudited" => e = <<>> /\ (x # "none" => a.stream)

\* The invariant: besides the properties, every request has a story, and a stream
\* is opened only if it may go unbilled.
Inv ==
  /\ settings \in AllSettings
  /\ stage = [r \in Requests |-> stage[r]] /\ ask = [r \in Requests |-> ask[r]]
  /\ answer = [r \in Requests |-> answer[r]] /\ events = [r \in Requests |-> events[r]]
  /\ \A r \in Requests : Story(ask[r], stage[r], answer[r], events[r])
  /\ BilledIffServed

\* A step of one request that tells its story further, bills what it serves, and
\* bills nothing else.
LEMMA OneMoves ==
  ASSUME Inv, NEW r \in Requests, NEW a, NEW s, NEW x, NEW e,
         settings' = settings,
         ask' = [ask EXCEPT ![r] = a], stage' = [stage EXCEPT ![r] = s],
         answer' = [answer EXCEPT ![r] = x], events' = [events EXCEPT ![r] = e],
         Story(a, s, x, e),
         queue \union written \subseteq queue' \union written',
         stage[r] # "unaudited",
         answer[r] \in Statuses => x = answer[r] /\ a = ask[r],
         settings.billing = "required" /\ x \in Statuses =>
           a.id \in queue' \union written' \/ (a.stream /\ settings.allowStreaming),
         \A id \in (queue' \union written') \ (queue \union written) :
           id = a.id /\ (x \in Statuses \/ s = "unaudited")
  PROVE  Inv'
<1>1. /\ settings' \in AllSettings
      /\ stage' = [q \in Requests |-> stage'[q]] /\ ask' = [q \in Requests |-> ask'[q]]
      /\ answer' = [q \in Requests |-> answer'[q]] /\ events' = [q \in Requests |-> events'[q]]
  BY DEF Inv
<1>2. /\ ask'[r] = a /\ stage'[r] = s /\ answer'[r] = x /\ events'[r] = e
      /\ \A q \in Requests : q # r => /\ ask'[q] = ask[q] /\ stage'[q] = stage[q]
                                      /\ answer'[q] = answer[q] /\ events'[q] = events[q]
  BY DEF Inv
<1>3. \A q \in Requests : Story(ask'[q], stage'[q], answer'[q], events'[q])
  BY <1>2 DEF Inv
<1>4. \A q \in Requests : Story(ask[q], stage[q], answer[q], events[q])'
  BY <1>3 DEF Story, StreamingBillingIsBlocked
<1>5. settings'.billing = "required" =>
        \A q \in Served' : ask'[q].id \in queue' \union written' \/ (ask'[q].stream /\ settings'.allowStreaming)
  BY <1>2 DEF Inv, BilledIffServed, Served, Billed
<1>6. \A id \in queue' \union written' :
        \E q \in Requests : ask'[q].id = id /\ (q \in Served' \/ stage'[q] = "unaudited")
  <2> TAKE id \in queue' \union written'
  <2>1. CASE id \notin queue \union written
    BY <1>2, <2>1 DEF Served
  <2>2. CASE id \in queue \union written
    <3>1. PICK q \in Requests : ask[q].id = id /\ (q \in Served \/ stage[q] = "unaudited")
      BY <2>2 DEF Inv, BilledIffServed
    <3> QED
      BY <1>2, <3>1 DEF Served
  <2> QED
    BY <2>1, <2>2
<1>7. BilledIffServed'
  BY <1>5, <1>6 DEF BilledIffServed, Served, Billed
<1> QED
  BY <1>1, <1>4, <1>7 DEF Inv

\* A request that is answered, or whose answer cannot be audited, bills at most
\* what it serves.
LEMMA RespondsKeepsInv ==
  ASSUME Inv, NEW r \in Requests, NEW reason \in Answers, reason # "none", NEW a \in Asks,
         Responds(r, reason), settings' = settings, ask' = [ask EXCEPT ![r] = a],
         stage[r] \in {"absent", "reading", "upstream"},
         queue \union written \subseteq queue' \union written',
         settings.billing = "required" /\ reason \in Statuses =>
           a.id \in queue' \union written' \/ (a.stream /\ settings.allowStreaming),
         \A id \in (queue' \union written') \ (queue \union written) :
           id = a.id /\ reason \in Statuses
  PROVE  Inv'
<1>1. Story(ask[r], stage[r], answer[r], events[r])
  BY DEF Inv
<1>2. answer[r] = "none" /\ events[r] = <<>>
  BY <1>1 DEF Story
<1>3. Append(<<>>, reason) = <<reason>> /\ <<reason>> \in Seq(Answers) /\ <<>> \in Seq(Answers)
  OBVIOUS
<1>4. "none" \in Answers /\ "none" \notin Statuses
  BY DEF Answers, Statuses
<1>5. CASE Moves(r, "over") /\ events' = [events EXCEPT ![r] = Append(@, reason)]
  <2>1. /\ stage' = [stage EXCEPT ![r] = "over"] /\ stage'[r] = "over"
        /\ events' = [events EXCEPT ![r] = <<reason>>]
    BY <1>2, <1>3, <1>5 DEF Moves, Inv
  <2>2. answer' = [answer EXCEPT ![r] = reason]
    BY <2>1 DEF Responds
  <2>3. Story(a, "over", reason, <<reason>>)
    BY <1>3 DEF Story, Stages
  <2> QED
    BY <1>2, <1>4, <2>1, <2>2, <2>3, OneMoves
<1>6. CASE Moves(r, "unaudited") /\ UNCHANGED events
  <2>1. /\ stage' = [stage EXCEPT ![r] = "unaudited"] /\ stage'[r] = "unaudited"
        /\ events' = [events EXCEPT ![r] = <<>>]
    BY <1>2, <1>6 DEF Moves, Inv
  <2>2. answer' = [answer EXCEPT ![r] = "none"]
    BY <1>2, <2>1 DEF Responds, Inv
  <2>3. Story(a, "unaudited", "none", <<>>)
    BY <1>3, <1>4 DEF Story, Stages
  <2> QED
    BY <1>2, <1>4, <2>1, <2>2, <2>3, OneMoves
<1> QED
  BY <1>5, <1>6 DEF Responds, Emits

\* A request whose handler goes on, or ends without an answer.
LEMMA MovesKeepsInv ==
  ASSUME Inv, NEW r \in Requests, NEW s, NEW a, Moves(r, s), ask' = [ask EXCEPT ![r] = a],
         UNCHANGED <<settings, answer, events, queue, written>>,
         stage[r] \in {"absent", "reading", "upstream", "opening", "opened"},
         s \in {"reading", "upstream", "opening", "opened", "failed", "dropped"}, a \in Asks,
         s \in {"opening", "opened"} => a.stream /\ ~ StreamingBillingIsBlocked(a)
  PROVE  Inv'
<1>1. Story(ask[r], stage[r], answer[r], events[r])
  BY DEF Inv
<1>2. answer[r] = "none" /\ events[r] = <<>> /\ "none" \notin Statuses
  BY <1>1 DEF Story, Statuses
<1>3. /\ stage' = [stage EXCEPT ![r] = s] /\ answer' = [answer EXCEPT ![r] = answer[r]]
      /\ events' = [events EXCEPT ![r] = events[r]]
  BY DEF Moves, Inv
<1>4. Story(a, s, answer[r], events[r])
  BY <1>1, <1>2 DEF Story, Stages
<1> QED
  BY <1>2, <1>3, <1>4, OneMoves

\* The reason of a refusal of the quota is none the handler answers with itself.
LEMMA ThrottleReason ==
  ASSUME NEW u, NEW tokens, Quota!Refuse(u, tokens)
  PROVE  decision'.reason \in Quota!Reasons
<1> DEFINE d == Quota!Denials(u, tokens)
           first(i) == d[i].holds /\ \A j \in 1 .. i - 1 : ~ d[j].holds
<1>0. 1 .. 6 = {1, 2, 3, 4, 5, 6}
  OBVIOUS
<1>1. \E i \in 1 .. 6 : first(i)
  <2>1. PICK k \in 1 .. 6 : d[k].holds
    BY DEF Quota!Refuse, Quota!Denied
  <2>2. /\ 1 .. 1 - 1 = {} /\ 1 .. 2 - 1 = {1} /\ 1 .. 3 - 1 = {1, 2}
        /\ 1 .. 4 - 1 = {1, 2, 3} /\ 1 .. 5 - 1 = {1, 2, 3, 4}
        /\ 1 .. 6 - 1 = {1, 2, 3, 4, 5}
    OBVIOUS
  <2> HIDE DEF d
  <2> QED
    BY <1>0, <2>1, <2>2
<1>2. Quota!FirstDenial(u, tokens) = d[CHOOSE i \in 1 .. 6 : first(i)]
  BY DEF Quota!FirstDenial
<1>3. decision'.reason = Quota!FirstDenial(u, tokens).reason
  BY DEF Quota!Refuse, Quota!Decide
<1>4. {d[1].reason, d[2].reason, d[3].reason, d[4].reason, d[5].reason, d[6].reason}
        \subseteq Quota!Reasons
  BY DEF Quota!Denials, Quota!Reasons
<1> HIDE DEF d, first
<1>5. PICK i \in {1, 2, 3, 4, 5, 6} : Quota!FirstDenial(u, tokens) = d[i]
  BY <1>0, <1>1, <1>2
<1> QED
  BY <1>3, <1>4, <1>5

LEMMA InitInv == Init => Inv
<1> SUFFICES ASSUME Init PROVE Inv
  OBVIOUS
<1>1. settings \in AllSettings
  BY GatewayAssumption DEF Init
<1>2. "none" \in Answers /\ "none" \notin Statuses /\ <<>> \in Seq(Answers)
  BY DEF Answers, Statuses
<1>3. \A r \in Requests : Story(ask[r], stage[r], answer[r], events[r])
  BY <1>2 DEF Init, Story, Stages
<1>4. BilledIffServed
  BY <1>2 DEF Init, BilledIffServed, Served
<1> QED
  BY <1>1, <1>3, <1>4 DEF Init, Inv

LEMMA StepInv == Inv /\ [Next]_vars => Inv'
<1> SUFFICES ASSUME Inv, [Next]_vars PROVE Inv'
  OBVIOUS
<1>0. \A r \in Requests : /\ Story(ask[r], stage[r], answer[r], events[r])
                          /\ ask = [ask EXCEPT ![r] = ask[r]]
                          /\ stage[r] # "absent" => ask[r] \in Asks
  BY DEF Inv, Story
<1>a. /\ Statuses \subseteq Answers /\ "none" \notin Statuses
      /\ \A x \in Answers \ Statuses : x \notin Statuses
  BY DEF Answers, Statuses
<1>1. ASSUME NEW r \in Requests, NEW a \in Asks, Arrive(r, a) PROVE Inv'
  <2>1. "security_posture_blocked" \in Answers \ Statuses
    BY DEF Answers, Statuses
  <2>2. CASE settings.blocked
    BY <1>1, <2>1, <2>2, RespondsKeepsInv DEF Arrive, ledger
  <2>3. CASE ~ settings.blocked
    BY <1>1, <2>3, MovesKeepsInv DEF Arrive, ledger
  <2> QED
    BY <2>2, <2>3
<1>2. ASSUME NEW r \in Requests, Deny(r) PROVE Inv'
  <2>1. PICK reason \in Refusals \union {"streaming_billing_not_supported"} : Responds(r, reason)
    BY <1>2 DEF Deny
  <2>2. reason \in Answers \ Statuses /\ reason # "none"
    BY <2>1 DEF Answers, Statuses, Refusals
  <2> QED
    BY <1>0, <1>2, <2>1, <2>2, RespondsKeepsInv DEF Deny, ledger
<1>3. ASSUME NEW r \in Requests, Throttle(r) PROVE Inv'
  <2>1. decision'.reason \in Quota!Reasons
    BY <1>3, ThrottleReason DEF Throttle
  <2>2. decision'.reason \in Answers \ Statuses /\ decision'.reason # "none"
    BY <2>1 DEF Answers, Statuses, Quota!Reasons
  <2> QED
    BY <1>0, <1>3, <2>2, RespondsKeepsInv DEF Throttle, PassesChecks, ledger
<1>4. ASSUME NEW r \in Requests, Forward(r) PROVE Inv'
  <2>1. PICK s : /\ Moves(r, s) /\ s \in {"failed", "opening", "upstream"}
                 /\ s = "opening" => ask[r].stream
    BY <1>4 DEF Forward
  <2> QED
    BY <1>0, <1>4, <2>1, MovesKeepsInv DEF Forward, PassesChecks, ledger
<1>5. ASSUME NEW r \in Requests, NEW status \in Statuses, AnswerUnmetered(r, status) PROVE Inv'
  BY <1>0, <1>a, <1>5, RespondsKeepsInv DEF AnswerUnmetered, ledger
<1>6. ASSUME NEW r \in Requests, NEW status \in Statuses, AnswerBilled(r, status) PROVE Inv'
  <2>1. /\ queue \union written \subseteq queue' \union written'
        /\ ask[r].id \in queue' \union written'
        /\ \A id \in (queue' \union written') \ (queue \union written) : id = ask[r].id
    BY <1>6 DEF AnswerBilled, Billed, ledger
  <2> QED
    BY <1>0, <1>a, <1>6, <2>1, RespondsKeepsInv DEF AnswerBilled
<1>7. ASSUME NEW r \in Requests, UsageMissing(r) PROVE Inv'
  <2>1. "billing_usage_missing" \in Answers \ Statuses
    BY DEF Answers, Statuses
  <2>2. /\ settings' = settings /\ ask' = ask /\ queue' = queue /\ written' = written
        /\ stage[r] = "upstream" /\ Responds(r, "billing_usage_missing")
    BY <1>7 DEF UsageMissing, ledger
  <2>3. ask[r] \in Asks /\ ask' = [ask EXCEPT ![r] = ask[r]]
    BY <1>0, <2>2
  <2> QED
    BY <2>1, <2>2, <2>3, RespondsKeepsInv
<1>8. ASSUME NEW r \in Requests, BillingFails(r) PROVE Inv'
  <2>1. "billing_queue_full" \in Answers \ Statuses
    BY DEF Answers, Statuses
  <2> QED
    BY <1>0, <1>8, <2>1, RespondsKeepsInv DEF BillingFails, ledger
<1>9. ASSUME NEW r \in Requests,
             \/ Escapes(r) \/ ForwardFails(r) \/ StreamOpens(r)
             \/ StreamOpenFails(r) \/ ClientLeaves(r)
      PROVE  Inv'
  <2>1. CASE ForwardFails(r)
    BY <1>0, <2>1, MovesKeepsInv DEF ForwardFails, ledger
  <2>2. CASE StreamOpens(r)
    BY <1>0, <2>2, MovesKeepsInv DEF StreamOpens, ledger, Story
  <2>3. CASE StreamOpenFails(r)
    BY <1>0, <2>3, MovesKeepsInv DEF StreamOpenFails, ledger
  <2>4. CASE ClientLeaves(r)
    BY <1>0, <2>4, MovesKeepsInv DEF ClientLeaves, ledger
  <2>5. CASE Escapes(r)
    BY <1>0, <2>5, MovesKeepsInv DEF Escapes, ledger
  <2> QED
    BY <1>9, <2>1, <2>2, <2>3, <2>4, <2>5
<1>10. ASSUME NEW r \in Requests, NEW status \in Statuses, StreamStarts(r, status) PROVE Inv'
  <2>1. Story(ask[r], "opened", answer[r], events[r])
    BY <1>0, <1>10 DEF StreamStarts
  <2>2. answer[r] = "none" /\ events[r] = <<>> /\ events' = [events EXCEPT ![r] = <<>>]
    BY <1>10, <2>1 DEF StreamStarts, Story, Inv
  <2>3. Story(ask[r], "streaming", status, <<>>)
    BY <1>a, <2>1, <2>2 DEF Story, Stages
  <2>4. settings.billing = "required" => ask[r].stream /\ settings.allowStreaming
    BY <2>1 DEF Story, StreamingBillingIsBlocked, Inv, AllSettings
  <2> QED
    BY <1>0, <1>a, <1>10, <2>2, <2>3, <2>4, OneMoves DEF StreamStarts, Moves, ledger
<1>11. ASSUME NEW r \in Requests, StreamEnds(r) PROVE Inv'
  <2>1. Story(ask[r], "streaming", answer[r], events[r])
    BY <1>0, <1>11 DEF StreamEnds
  <2>2. /\ events[r] = <<>> /\ Append(<<>>, answer[r]) = <<answer[r]>>
        /\ answer' = [answer EXCEPT ![r] = answer[r]]
        /\ answer[r] \in Answers /\ <<answer[r]>> \in Seq(Answers)
    BY <1>11, <2>1 DEF StreamEnds, Story, Inv
  <2>3. settings.billing = "required" => ask[r].stream /\ settings.allowStreaming
    BY <2>1 DEF Story, StreamingBillingIsBlocked, Inv, AllSettings
  <2>4. PICK s \in {"over", "unaudited"}, e \in {<<answer[r]>>, <<>>} :
           /\ stage' = [stage EXCEPT ![r] = s] /\ events' = [events EXCEPT ![r] = e]
           /\ s = "over" => e = <<answer[r]>>
           /\ s = "unaudited" => e = <<>>
    BY <1>11, <2>2 DEF StreamEnds, Emits, Moves, Inv
  <2>5. Story(ask[r], s, answer[r], e)
    BY <2>1, <2>2, <2>4 DEF Story, Stages
  <2> QED
    BY <1>0, <1>11, <2>2, <2>3, <2>4, <2>5, OneMoves DEF StreamEnds, ledger
<1>12. CASE LedgerWrites \/ Tick \/ UNCHANGED vars
  <2>1. /\ UNCHANGED <<settings, stage, ask, answer, events>>
        /\ queue' \union written' = queue \union written
    BY <1>12 DEF LedgerWrites, Tick, vars, ledger
  <2>2. \A r \in Requests : Story(ask[r], stage[r], answer[r], events[r])'
    BY <1>0, <2>1 DEF Story, StreamingBillingIsBlocked
  <2>3. Served' = Served /\ \A id : Billed(id)' <=> Billed(id)
    BY <2>1 DEF Served, Billed
  <2>4. BilledIffServed'
    BY <2>1, <2>3 DEF Inv, BilledIffServed
  <2> QED
    BY <2>1, <2>2, <2>4 DEF Inv
<1> QED
  BY <1>1, <1>2, <1>3, <1>4, <1>5, <1>6, <1>7, <1>8, <1>9, <1>10, <1>11, <1>12 DEF Next

\* Every request is audited at most once, when it is over, and with the answer it
\* was given; and nothing but the chunks of a stream is given out unaudited
\* (_emit_and_respond, _emit_observability and the finally of the iterator).
THEOREM Audited == Spec => []AuditedAsAnswered
<1>1. Inv => AuditedAsAnswered
  <2> SUFFICES ASSUME Inv, NEW r \in Requests
               PROVE  /\ events[r] = IF stage[r] = "over" THEN <<answer[r]>> ELSE <<>>
                      /\ answer[r] # "none" /\ events[r] = <<>> => ask[r].stream
    BY DEF AuditedAsAnswered
  <2>1. Story(ask[r], stage[r], answer[r], events[r]) /\ <<answer[r]>> # <<>>
    BY DEF Inv
  <2>2. CASE stage[r] = "over"
    BY <2>1, <2>2 DEF Story
  <2>3. CASE stage[r] \in {"streaming", "unaudited"}
    BY <2>1, <2>3 DEF Story
  <2>4. CASE stage[r] \in Stages \ {"over", "streaming", "unaudited"}
    BY <2>1, <2>4 DEF Story, Stages
  <2> QED
    BY <2>1, <2>2, <2>3, <2>4 DEF Story
<1> QED
  BY <1>1, InitInv, StepInv, PTL DEF Spec

\* In a mode that requires billing nothing from upstream is given out unbilled,
\* save streams by explicit permission, and nothing is billed that was not, save
\* what could not be audited afterwards (_handle_llm_request).
THEOREM BilledAndServed == Spec => []BilledIffServed
<1>1. Inv => BilledIffServed
  BY DEF Inv
<1> QED
  BY <1>1, InitInv, StepInv, PTL DEF Spec

----------------------------------------------------------------------------
\* The enforcer inside the gateway, with what is proved of it on its own.
Proved == INSTANCE InMemoryQuotaProofs WITH
  TokenEstimates <- {0}, RequestLimit <- NoLimit, TokenLimit <- NoLimit,
  TicksPerSecond <- 1, WindowSeconds <- TtlSeconds,
  IdsAreFresh <- FALSE, ClockCanStepBack <- FALSE, AnonymousFinish <- FALSE,
  MaxAdmissions <- Cardinality(Requests)

\* The constants the gateway gives the enforcer are constants it can have.
LEMMA QuotaConstants ==
  /\ {0} \subseteq Nat
  /\ NoLimit \notin Nat
  /\ {NoLimit, ConcurrencyLimit} \subseteq Proved!Limits
  /\ {1, TtlSeconds} \subseteq Nat \ {0}
  /\ MaxTime \in Nat /\ Cardinality(Requests) \in Nat
BY GatewayAssumption, FS_CardinalityType DEF Proved!Limits

\* The enforcer the gateway composes and the module that proves it define the same
\* operators.
LEMMA SameQuotaTypes ==
  /\ Quota!TypeOK <=> Proved!TypeOK
  /\ Quota!Record = Proved!Record /\ Quota!Slot = Proved!Slot
<1>1. Quota!Time = Proved!Time /\ Quota!Reasons = Proved!Reasons /\ Quota!None = Proved!None
  BY DEF Quota!Time, Proved!Time, Quota!Reasons, Proved!Reasons, Quota!None, Proved!None
<1>2. Quota!Record = Proved!Record /\ Quota!Slot = Proved!Slot
  BY <1>1 DEF Quota!Record, Proved!Record, Quota!Slot, Proved!Slot
<1>3. Quota!Decision = Proved!Decision
  BY <1>1 DEF Quota!Decision, Proved!Decision
<1> QED
  BY <1>1, <1>2, <1>3 DEF Quota!TypeOK, Proved!TypeOK

LEMMA SameQuotaCounts ==
  /\ \A S : Quota!Cardinality(S) = Cardinality(S)
  /\ \A S : Proved!Cardinality(S) = Cardinality(S)
  /\ \A S : Proved!IsFiniteSet(S) <=> IsFiniteSet(S)
BY DEF Quota!Cardinality, Proved!Cardinality, Cardinality, Proved!IsFiniteSet, IsFiniteSet

LEMMA SameQuotaChecks ==
  /\ \A u, tokens : Quota!Denials(u, tokens) = Proved!Denials(u, tokens)
  /\ \A u, tokens : Quota!Denied(u, tokens) <=> Proved!Denied(u, tokens)
  /\ \A u, tokens : Quota!FirstDenial(u, tokens) = Proved!FirstDenial(u, tokens)
<1>1. Quota!Window = Proved!Window /\ Quota!Ttl = Proved!Ttl
  BY DEF Quota!Window, Proved!Window, Quota!Ttl, Proved!Ttl
<1>2. \A records : Quota!Unexpired(records) = Proved!Unexpired(records)
  BY <1>1 DEF Quota!Unexpired, Proved!Unexpired
<1>3. \A active : Quota!NotStale(active) = Proved!NotStale(active)
  BY <1>1 DEF Quota!NotStale, Proved!NotStale
<1>4. \A records : Quota!RetryAfter(records) = Proved!RetryAfter(records)
  BY <1>1 DEF Quota!RetryAfter, Proved!RetryAfter
<1>5. \A records : Quota!InputTokens(records) = Proved!InputTokens(records)
  <2>1. \A records : Quota!TokenUnits(records) = Proved!TokenUnits(records)
    BY DEF Quota!TokenUnits, Proved!TokenUnits
  <2> QED
    BY <2>1, SameQuotaCounts DEF Quota!InputTokens, Proved!InputTokens
<1>6. \A amount, limit : Quota!Exceeds(amount, limit) = Proved!Exceeds(amount, limit)
  BY DEF Quota!Exceeds, Proved!Exceeds
<1>7. \A u, tokens : Quota!Denials(u, tokens) = Proved!Denials(u, tokens)
  BY <1>2, <1>3, <1>4, <1>5, <1>6, SameQuotaCounts DEF Quota!Denials, Proved!Denials
<1> QED
  BY <1>7 DEF Quota!Denied, Proved!Denied, Quota!FirstDenial, Proved!FirstDenial

LEMMA SameQuotaSteps ==
  /\ Quota!Init => Proved!Init
  /\ \A u : Quota!Refuse(u, 0) => Proved!Refuse(u, 0)
  /\ \A u, id : Quota!Admit(u, id, 0) => Proved!Admit(u, id, 0)
  /\ \A a : Quota!Finish(a) => Proved!Finish(a)
  /\ Quota!Tick => Proved!Tick
<1>1. Quota!Init => Proved!Init
  BY DEF Quota!Init, Proved!Init, Quota!None, Proved!None
<1>2. /\ \A records : Quota!Unexpired(records) = Proved!Unexpired(records)
      /\ \A active : Quota!NotStale(active) = Proved!NotStale(active)
  BY DEF Quota!Unexpired, Proved!Unexpired, Quota!NotStale, Proved!NotStale,
         Quota!Window, Proved!Window, Quota!Ttl, Proved!Ttl
<1>3. /\ \A active, id : Quota!Release(active, id) = Proved!Release(active, id)
      /\ \A active, id : Quota!Hold(active, id) = Proved!Hold(active, id)
  BY DEF Quota!Release, Proved!Release, Quota!Hold, Proved!Hold
<1>4. \A u, reason, retry : Quota!Decide(u, 0, reason, retry) <=> Proved!Decide(u, 0, reason, retry)
  BY SameQuotaCounts DEF Quota!Decide, Proved!Decide
<1>5. \A u : Quota!Refuse(u, 0) => Proved!Refuse(u, 0)
  BY <1>2, <1>4, SameQuotaChecks DEF Quota!Refuse, Proved!Refuse
<1>6. \A u, id : Quota!Admit(u, id, 0) => Proved!Admit(u, id, 0)
  BY <1>2, <1>3, <1>4, SameQuotaCounts, SameQuotaChecks DEF Quota!Admit, Proved!Admit
<1>7. \A a : Quota!Finish(a) => Proved!Finish(a)
  BY <1>3 DEF Quota!Finish, Proved!Finish
<1>8. Quota!Tick => Proved!Tick
  BY DEF Quota!Tick, Proved!Tick
<1> QED
  BY <1>1, <1>5, <1>6, <1>7, <1>8

----------------------------------------------------------------------------
\* Next as the enforcer sees it: a request arrives, is refused, is forwarded, is done
\* with upstream, or goes on or is given up as a stream; or the step is none of a request.
Arrives(r) ==
  /\ stage[r] = "absent"
  /\ \E s \in {"reading", "over", "unaudited"} : Moves(r, s)
  /\ \E a \in Asks :
       /\ ask' = [ask EXCEPT ![r] = a]
       /\ IdsAreFresh => \A q \in Requests \ Over : ask[q] # None => ask[q].id # a.id
  /\ UNCHANGED <<admission, now, quota>>

Refused(r) ==
  /\ stage[r] = "reading"
  /\ \E s \in {"over", "unaudited", "failed"} : Moves(r, s)
  /\ UNCHANGED <<now, quota>> \/ Quota!Refuse(ask[r].user, 0)
  /\ UNCHANGED <<ask, admission>>

Ends(r) ==
  /\ stage[r] \in {"upstream", "streaming"}
  /\ \E s \in {"over", "unaudited", "failed"} : Moves(r, s)
  /\ Finishes(r)
  /\ UNCHANGED <<ask, admission>>

Streams(r) ==
  /\ stage[r] \in {"opening", "opened"}
  /\ \E s \in {"opened", "streaming", "failed", "dropped"} : Moves(r, s)
  /\ UNCHANGED <<ask, admission, now, quota>>

Elsewhere ==
  /\ UNCHANGED <<stage, ask, admission>>
  /\ UNCHANGED <<now, quota>> \/ Quota!Tick

LEMMA QuotaSteps ==
  ASSUME [Next]_vars
  PROVE  \/ Elsewhere
         \/ \E r \in Requests : Arrives(r) \/ Refused(r) \/ Forward(r) \/ Ends(r) \/ Streams(r)
<1>0. \A r, reason : Responds(r, reason) \/ Emits(r, reason) =>
        \E s \in {"over", "unaudited", "failed"} : Moves(r, s)
  BY DEF Responds, Emits
<1>1. ASSUME NEW r \in Requests, NEW a \in Asks, Arrive(r, a) PROVE Arrives(r)
  <2>1. \E s \in {"reading", "over", "unaudited"} : Moves(r, s)
    BY <1>1 DEF Arrive, Responds, Emits
  <2> QED
    BY <1>1, <2>1 DEF Arrive, Arrives
<1>2. ASSUME NEW r \in Requests, Deny(r) \/ Escapes(r) \/ Throttle(r) PROVE Refused(r)
  <2>1. CASE Deny(r)
    BY <1>0, <2>1 DEF Deny, Refused
  <2>2. CASE Escapes(r)
    BY <2>2 DEF Escapes, Refused
  <2>3. CASE Throttle(r)
    BY <1>0, <2>3 DEF Throttle, PassesChecks, Refused
  <2> QED
    BY <1>2, <2>1, <2>2, <2>3
<1>3. ASSUME NEW r \in Requests, NEW status, AnswerUnmetered(r, status) \/ AnswerBilled(r, status)
      PROVE  Ends(r)
  <2>1. CASE AnswerUnmetered(r, status)
    BY <1>0, <2>1 DEF AnswerUnmetered, Ends
  <2>2. CASE AnswerBilled(r, status)
    BY <1>0, <2>2 DEF AnswerBilled, Ends
  <2> QED
    BY <1>3, <2>1, <2>2
<1>4. ASSUME NEW r \in Requests,
             UsageMissing(r) \/ BillingFails(r) \/ ForwardFails(r) \/ StreamEnds(r)
      PROVE  Ends(r)
  <2>1. CASE UsageMissing(r)
    BY <1>0, <2>1 DEF UsageMissing, Ends
  <2>2. CASE BillingFails(r)
    BY <1>0, <2>2 DEF BillingFails, Ends
  <2>3. CASE ForwardFails(r)
    BY <2>3 DEF ForwardFails, Ends
  <2>4. CASE StreamEnds(r)
    BY <1>0, <2>4 DEF StreamEnds, Ends
  <2> QED
    BY <1>4, <2>1, <2>2, <2>3, <2>4
<1>5. ASSUME NEW r \in Requests, NEW status, StreamStarts(r, status) PROVE Streams(r)
  BY <1>5 DEF StreamStarts, Streams
<1>6. ASSUME NEW r \in Requests, StreamOpens(r) \/ StreamOpenFails(r) \/ ClientLeaves(r)
      PROVE  Streams(r)
  BY <1>6 DEF StreamOpens, StreamOpenFails, ClientLeaves, Streams
<1>7. CASE Tick \/ LedgerWrites \/ UNCHANGED vars
  BY <1>7 DEF Tick, LedgerWrites, vars, Elsewhere
<1> QED
  BY <1>1, <1>2, <1>3, <1>4, <1>5, <1>6, <1>7 DEF Next

\* So the enforcer sees no step that is none of its own.
LEMMA QuotaImplemented ==
  ASSUME Inv, [Next]_vars
  PROVE  [Proved!Next]_(Proved!vars)
<1>1. \A r \in Requests : stage[r] # "absent" => ask[r].user \in Users /\ ask[r].id \in RequestIds
  BY DEF Inv, Story, Asks
<1>2. UNCHANGED <<now, quota>> => UNCHANGED Proved!vars
  BY DEF quota, Proved!vars
<1>3. Quota!Tick => Proved!Next
  BY SameQuotaSteps DEF Proved!Next
<1>4. \A u \in Users : Quota!Refuse(u, 0) => Proved!Next
  BY SameQuotaSteps DEF Proved!Next
<1>5. \A u \in Users, id \in RequestIds : Quota!Admit(u, id, 0) => Proved!Next
  BY SameQuotaSteps DEF Proved!Next
<1>6. \A a : Quota!Finish(a) => Proved!Next
  BY SameQuotaSteps DEF Proved!Next, Quota!Finish
<1>7. ASSUME NEW r \in Requests, Forward(r)
      PROVE  UNCHANGED <<now, quota>> \/ Quota!Admit(ask[r].user, ask[r].id, 0)
  BY <1>7 DEF Forward
<1>8. ASSUME NEW r \in Requests, Forward(r) PROVE stage[r] = "reading"
  BY <1>8 DEF Forward, PassesChecks
<1>9. ASSUME NEW r \in Requests, Ends(r)
      PROVE  UNCHANGED <<now, quota>> \/ Quota!Finish(admission[r])
  BY <1>9 DEF Ends, Finishes
<1> QED
  BY <1>1, <1>2, <1>3, <1>4, <1>5, <1>6, <1>7, <1>8, <1>9, QuotaSteps
  DEF Elsewhere, Arrives, Refused, Streams

----------------------------------------------------------------------------
\* What the handler knows of the calls it had recorded: a request that reached the
\* quota owns the record of its own call.
RecordsKnown ==
  /\ ask \in [Requests -> Asks \union {None}]
  /\ admission = [r \in Requests |-> admission[r]]
  /\ \A c \in admissions : c.n <= Cardinality(admissions)
  /\ \A r \in Requests \cap Recorded :
       /\ admission[r] \in admissions
       /\ admission[r].id = ask[r].id /\ admission[r].user = ask[r].user
       /\ stage[r] \notin {"absent", "reading"}

AdmissionInv == Proved!TypeInv /\ RecordsKnown

LEMMA NoneIsNoRecord == None \notin Asks /\ None \notin Quota!Record
BY DEF None, Asks, Quota!Record

\* The record the handler takes for its call is the one check_and_record made.
LEMMA AdmitRecords ==
  ASSUME Proved!TypeInv, \A c \in admissions : c.n <= Cardinality(admissions),
         NEW u, NEW id, Quota!Admit(u, id, 0)
  PROVE  LET record == CHOOSE c \in admissions' : c \notin admissions
         IN /\ record.id = id /\ record.user = u /\ record.time = now
            /\ admissions' = admissions \union {record}
            /\ \A c \in admissions' : c.n <= Cardinality(admissions')
<1> DEFINE made == [n |-> Cardinality(admissions) + 1, user |-> u, id |-> id,
                    time |-> now, tokens |-> 0]
<1>1. IsFiniteSet(admissions) /\ Cardinality(admissions) \in Nat
  BY FS_CardinalityType, SameQuotaCounts DEF Proved!TypeInv
<1>2. made \notin admissions
  <2>1. ~ (made.n <= Cardinality(admissions))
    BY <1>1
  <2> QED
    BY <2>1
<1>3. admissions' = admissions \union {made}
  BY SameQuotaCounts DEF Quota!Admit
<1>4. Cardinality(admissions') = Cardinality(admissions) + 1
  BY <1>1, <1>2, <1>3, FS_AddElement
<1>5. \A c \in admissions' : c.n <= Cardinality(admissions')
  <2>1. admissions \subseteq Quota!Record
    BY SameQuotaTypes DEF Proved!TypeInv, Quota!TypeOK
  <2>2. \A c \in admissions : c.n \in Int
    BY <2>1, SameQuotaCounts DEF Quota!Record
  <2>3. made.n = Cardinality(admissions) + 1
    OBVIOUS
  <2> HIDE DEF made
  <2> QED
    BY <1>1, <1>3, <1>4, <2>2, <2>3
<1>6. made.id = id /\ made.user = u /\ made.time = now
  OBVIOUS
<1> HIDE DEF made
<1>7. (CHOOSE c \in admissions' : c \notin admissions) = made
  BY <1>2, <1>3
<1> QED
  BY <1>3, <1>5, <1>6, <1>7

LEMMA InitAdmissionInv == Init => AdmissionInv
<1> SUFFICES ASSUME Init PROVE AdmissionInv
  OBVIOUS
<1>1. Proved!TypeInv
  BY SameQuotaSteps, QuotaConstants, Proved!InitTypeInv DEF Init
<1>2. admissions = {}
  BY DEF Init, Quota!Init
<1>3. RecordsKnown
  BY <1>2 DEF Init, RecordsKnown, Recorded
<1> QED
  BY <1>1, <1>3 DEF AdmissionInv

LEMMA StepAdmissionInv == Inv /\ AdmissionInv /\ [Next]_vars => AdmissionInv'
<1> SUFFICES ASSUME Inv, AdmissionInv, [Next]_vars PROVE AdmissionInv'
  OBVIOUS
<1>1. Proved!TypeInv /\ Proved!TypeInv'
  BY QuotaImplemented, QuotaConstants, Proved!StepTypeInv DEF AdmissionInv
<1>2. RecordsKnown /\ (\A r \in Requests : stage[r] # "absent" => ask[r] \in Asks)
      /\ stage = [r \in Requests |-> stage[r]]
  BY DEF AdmissionInv, Inv, Story
<1>3. ASSUME UNCHANGED <<ask, admission, admissions>>,
             \A q \in Requests : stage'[q] \in {"absent", "reading"} => stage'[q] = stage[q]
      PROVE  RecordsKnown'
  BY <1>2, <1>3 DEF RecordsKnown, Recorded
<1>4. ASSUME Elsewhere PROVE RecordsKnown'
  BY <1>3, <1>4 DEF Elsewhere, quota, Quota!Tick
<1>5. ASSUME NEW r \in Requests, Arrives(r) PROVE RecordsKnown'
  <2>1. PICK a \in Asks : ask' = [ask EXCEPT ![r] = a]
    BY <1>5 DEF Arrives
  <2>2. admission[r] = None
    BY <1>2, <1>5 DEF RecordsKnown, Recorded, Arrives
  <2>3. \A q \in Requests : q # r => ask'[q] = ask[q] /\ stage'[q] = stage[q]
    BY <1>2, <1>5, <2>1 DEF RecordsKnown, Arrives, Moves
  <2>4. admission' = admission /\ admissions' = admissions
    BY <1>5 DEF Arrives, quota
  <2>5. ask' \in [Requests -> Asks \union {None}]
    BY <1>2, <2>1 DEF RecordsKnown
  <2> QED
    BY <1>2, <2>2, <2>3, <2>4, <2>5 DEF RecordsKnown, Recorded
<1>6. ASSUME NEW r \in Requests, Refused(r) \/ Ends(r) \/ Streams(r) PROVE RecordsKnown'
  <2>1. ask' = ask /\ admission' = admission
    BY <1>6 DEF Refused, Ends, Streams
  <2>2. admissions' = admissions
    BY <1>6 DEF Refused, Ends, Streams, Finishes, quota, Quota!Refuse, Quota!Finish
  <2>3. \A q \in Requests : stage'[q] \in {"absent", "reading"} => stage'[q] = stage[q]
    BY <1>2, <1>6 DEF Refused, Ends, Streams, Moves
  <2> QED
    BY <1>3, <2>1, <2>2, <2>3
<1>7. ASSUME NEW r \in Requests, Forward(r) PROVE RecordsKnown'
  <2>1. PICK s \in {"failed", "opening", "upstream"} : Moves(r, s)
    BY <1>7 DEF Forward
  <2>2. \A q \in Requests : /\ q # r => stage'[q] = stage[q]
                            /\ stage'[q] \in {"absent", "reading"} => stage'[q] = stage[q]
    BY <1>2, <2>1 DEF Moves
  <2>3. stage'[r] \notin {"absent", "reading"}
    BY <1>2, <2>1 DEF Moves
  <2>4. CASE UNCHANGED <<admission, now, quota>>
    BY <1>3, <1>7, <2>2, <2>4 DEF Forward, quota
  <2>5. CASE ~ UNCHANGED <<admission, now, quota>>
    <3> DEFINE record == CHOOSE c \in admissions' : c \notin admissions
    <3>1. /\ Quota!Admit(ask[r].user, ask[r].id, 0)
          /\ admission' = [admission EXCEPT ![r] = record]
          /\ ask' = ask
      BY <1>7, <2>5 DEF Forward
    <3>2. /\ record.id = ask[r].id /\ record.user = ask[r].user
          /\ admissions' = admissions \union {record}
          /\ \A c \in admissions' : c.n <= Cardinality(admissions')
      BY <1>1, <1>2, <3>1, AdmitRecords DEF RecordsKnown
    <3> HIDE DEF record
    <3>3. /\ admission' = [q \in Requests |-> admission'[q]] /\ admission'[r] = record
          /\ \A q \in Requests : q # r => admission'[q] = admission[q]
      BY <1>2, <3>1 DEF RecordsKnown
    <3> QED
      BY <1>2, <2>2, <2>3, <3>1, <3>2, <3>3 DEF RecordsKnown, Recorded
  <2> QED
    BY <2>4, <2>5
<1>8. RecordsKnown'
  BY <1>4, <1>5, <1>6, <1>7, QuotaSteps
<1> QED
  BY <1>1, <1>8 DEF AdmissionInv

----------------------------------------------------------------------------
\* The queue of the ledger and what is written hold ids, and the queue is bounded.
LedgerTyped ==
  /\ settings \in Settings
  /\ queue \subseteq RequestIds /\ written \subseteq RequestIds
  /\ IsFiniteSet(queue) /\ Cardinality(queue) <= LedgerCapacity

LEMMA InitLedgerTyped == Init => LedgerTyped
BY GatewayAssumption, FS_EmptySet DEF Init, LedgerTyped

LEMMA StepLedgerTyped == Inv /\ LedgerTyped /\ [Next]_vars => LedgerTyped'
<1> SUFFICES ASSUME Inv, LedgerTyped, [Next]_vars PROVE LedgerTyped'
  OBVIOUS
<1>1. CASE UNCHANGED <<settings, ledger>>
  BY <1>1 DEF LedgerTyped, ledger
<1>2. CASE LedgerWrites
  BY <1>2, GatewayAssumption, FS_EmptySet DEF LedgerTyped, LedgerWrites
<1>3. ASSUME NEW r \in Requests, NEW status, AnswerBilled(r, status) PROVE LedgerTyped'
  <2>1. CASE UNCHANGED ledger
    BY <1>1, <1>3, <2>1 DEF AnswerBilled
  <2>2. CASE ~ LedgerFull /\ queue' = queue \union {ask[r].id} /\ UNCHANGED written
    <3>1. ask[r].id \in RequestIds
      BY <1>3 DEF AnswerBilled, Inv, Story, Asks
    <3>2. /\ IsFiniteSet(queue') /\ Cardinality(queue) \in Nat
          /\ Cardinality(queue') \in {Cardinality(queue), Cardinality(queue) + 1}
      BY <2>2, FS_AddElement, FS_CardinalityType DEF LedgerTyped
    <3>3. Cardinality(queue') <= LedgerCapacity
      BY <2>2, <3>2, GatewayAssumption DEF LedgerFull, LedgerTyped
    <3> QED
      BY <1>3, <2>2, <3>1, <3>2, <3>3 DEF LedgerTyped, AnswerBilled
  <2> QED
    BY <1>3, <2>1, <2>2 DEF AnswerBilled
<1>4. ASSUME ~ UNCHANGED <<settings, ledger>>
      PROVE  LedgerWrites \/ \E r \in Requests, status \in Statuses : AnswerBilled(r, status)
  BY <1>4 DEF Next, vars, Tick, Arrive, Deny, Escapes, Throttle, Forward, AnswerUnmetered,
              StreamStarts, UsageMissing, BillingFails, ForwardFails, StreamOpens,
              StreamOpenFails, ClientLeaves, StreamEnds
<1> QED
  BY <1>1, <1>2, <1>3, <1>4

\* The state is well formed, the enforcer's part of it included: a request owns the
\* record of its own call, and the queue of the ledger stays within its capacity
\* (_handle_llm_request, BillingLedger.append).
THEOREM GatewayTypeCorrect == Spec => []TypeOK
<1>1. ASSUME Inv, AdmissionInv, LedgerTyped PROVE TypeOK
  <2>1. /\ stage \in [Requests -> Stages] /\ answer \in [Requests -> Answers]
        /\ events \in [Requests -> Seq(Answers)]
    <3>1. /\ stage = [r \in Requests |-> stage[r]] /\ answer = [r \in Requests |-> answer[r]]
          /\ events = [r \in Requests |-> events[r]]
          /\ \A r \in Requests : /\ stage[r] \in Stages /\ answer[r] \in Answers
                                 /\ events[r] \in Seq(Answers)
      BY <1>1 DEF Inv, Story
    <3> QED
      BY <3>1
  <2>2. ask \in [Requests -> Asks \union {None}]
    BY <1>1 DEF AdmissionInv, RecordsKnown
  <2>3. admission \in [Requests -> admissions \union {None}]
    BY <1>1 DEF AdmissionInv, RecordsKnown, Recorded
  <2>4. Quota!TypeOK
    BY <1>1, SameQuotaTypes DEF AdmissionInv, Proved!TypeInv
  <2> QED
    BY <1>1, <2>1, <2>2, <2>3, <2>4 DEF TypeOK, LedgerTyped
<1>2. Inv /\ AdmissionInv /\ LedgerTyped => TypeOK
  BY <1>1
<1> QED
  BY <1>2, InitInv, StepInv, InitAdmissionInv, StepAdmissionInv,
     InitLedgerTyped, StepLedgerTyped, PTL DEF Spec

----------------------------------------------------------------------------
\* The dictionaries of the enforcer and the requests upstream.  No two requests in the
\* handler share an id, so releasing the slot of one leaves those of the others; every
\* entry is owned, every young request upstream has its entries, and _active_tenant,
\* where an id has one entry, is within the limit.
Live == Active \union {r \in Requests : stage[r] = "reading"}
FreshIds == \A q, r \in Live : ask[q].id = ask[r].id => q = r

SlotEntry(r) == [id |-> admission[r].id, at |-> admission[r].time]
Owns(r) == r \in Active \union Unfinishing /\ admission[r] # None
SlotsOwned == \A e \in activeTenant : \E r \in Requests : Owns(r) /\ e = SlotEntry(r)

SlotsHeld ==
  \A r \in Requests : r \in Active /\ admission[r] # None /\ Young(r) =>
    SlotEntry(r) \in activeTenant /\ SlotEntry(r) \in activeUser[ask[r].user]

DictionaryBounded == IsFiniteSet(activeTenant) /\ Cardinality(activeTenant) <= ConcurrencyLimit

SlotInv == FreshIds /\ SlotsOwned /\ SlotsHeld /\ DictionaryBounded

\* What dropping stale entries leaves is what is young.
LEMMA DropsOnlyStale ==
  /\ \A active : Quota!NotStale(active) = {e \in active : e.at > now - TtlSeconds}
  /\ \A active, id : Quota!Release(active, id) = {e \in active : e.id # id}
  /\ \A active, id : Quota!Hold(active, id) =
       {e \in active : e.id # id} \union {[id |-> id, at |-> now]}
BY GatewayAssumption DEF Quota!NotStale, Quota!Ttl, Quota!Release, Quota!Hold

\* check_and_record admits only what the dictionary of the tenant has room for.
LEMMA AdmittedHadRoom ==
  ASSUME NEW u, ~ Quota!Denied(u, 0)
  PROVE  ~ Cardinality(Quota!NotStale(activeTenant)) + 1 > ConcurrencyLimit
<1>1. ~ Quota!Denials(u, 0)[2].holds
  BY DEF Quota!Denied
<1>2. ~ Quota!Exceeds(Quota!Cardinality(Quota!NotStale(activeTenant)) + 1, ConcurrencyLimit)
  BY <1>1 DEF Quota!Denials
<1> QED
  BY <1>2, SameQuotaCounts, GatewayAssumption DEF Quota!Exceeds

LEMMA StepDictionaryBounded ==
  ASSUME DictionaryBounded, [Next]_vars
  PROVE  DictionaryBounded'
<1>1. ASSUME activeTenant' \subseteq activeTenant PROVE DictionaryBounded'
  BY <1>1, FS_Subset, FS_CardinalityType, GatewayAssumption DEF DictionaryBounded
<1>2. UNCHANGED <<now, quota>> => activeTenant' \subseteq activeTenant
  BY DEF quota
<1>3. \A u : Quota!Refuse(u, 0) => activeTenant' \subseteq activeTenant
  BY DropsOnlyStale DEF Quota!Refuse
<1>4. \A a : Quota!Finish(a) => activeTenant' \subseteq activeTenant
  BY DropsOnlyStale DEF Quota!Finish
<1>5. ASSUME NEW u, NEW id, Quota!Admit(u, id, 0) PROVE DictionaryBounded'
  <2> DEFINE fresh == Quota!NotStale(activeTenant)
             rest == {e \in fresh : e.id # id}
  <2>1. activeTenant' = rest \union {[id |-> id, at |-> now]} /\ ~ Cardinality(fresh) + 1 > ConcurrencyLimit
    BY <1>5, DropsOnlyStale, AdmittedHadRoom DEF Quota!Admit
  <2>2. fresh \subseteq activeTenant /\ rest \subseteq fresh
    BY DropsOnlyStale
  <2> HIDE DEF fresh, rest
  <2>3. IsFiniteSet(fresh) /\ IsFiniteSet(rest) /\ Cardinality(rest) <= Cardinality(fresh)
    BY <2>2, FS_Subset DEF DictionaryBounded
  <2>4. /\ IsFiniteSet(activeTenant')
        /\ Cardinality(activeTenant') \in {Cardinality(rest), Cardinality(rest) + 1}
    BY <2>1, <2>3, FS_AddElement
  <2>5. Cardinality(fresh) \in Nat /\ Cardinality(rest) \in Nat
    BY <2>3, FS_CardinalityType
  <2> QED
    BY <2>1, <2>3, <2>4, <2>5, GatewayAssumption DEF DictionaryBounded
<1>6. Quota!Tick => activeTenant' \subseteq activeTenant
  BY DEF Quota!Tick
<1>7. ASSUME NEW r \in Requests, Forward(r) PROVE DictionaryBounded'
  BY <1>1, <1>2, <1>5, <1>7 DEF Forward
<1>8. ASSUME NEW r \in Requests, Arrives(r) \/ Refused(r) \/ Ends(r) \/ Streams(r)
      PROVE  activeTenant' \subseteq activeTenant
  BY <1>2, <1>3, <1>4, <1>8 DEF Arrives, Refused, Ends, Streams, Finishes
<1> QED
  BY <1>1, <1>2, <1>6, <1>7, <1>8, QuotaSteps DEF Elsewhere

\* A step of one request keeps the invariant of all when the others keep what they
\* own and hold, and the request owns and holds what it should.
LEMMA OneMovesSlots ==
  ASSUME SlotInv, NEW r \in Requests, now' = now,
         \A q \in Requests : q # r => /\ stage'[q] = stage[q] /\ ask'[q] = ask[q]
                                      /\ admission'[q] = admission[q],
         FreshIds', DictionaryBounded',
         \A e \in activeTenant' : e \in activeTenant \/ (Owns(r)' /\ e = SlotEntry(r)'),
         Owns(r) /\ SlotEntry(r) \in activeTenant' =>
           Owns(r)' /\ SlotEntry(r)' = SlotEntry(r),
         \A q \in Active : q # r /\ admission[q] # None /\ Young(q) =>
           /\ SlotEntry(q) \in activeTenant => SlotEntry(q) \in activeTenant'
           /\ SlotEntry(q) \in activeUser[ask[q].user] => SlotEntry(q) \in activeUser'[ask[q].user],
         r \in Active' /\ admission'[r] # None /\ Young(r)' =>
           SlotEntry(r)' \in activeTenant' /\ SlotEntry(r)' \in activeUser'[ask'[r].user]
  PROVE  SlotInv'
<1>1. \A q \in Requests : q # r =>
        /\ (q \in Active' <=> q \in Active) /\ (Young(q)' <=> Young(q))
        /\ (Owns(q)' <=> Owns(q)) /\ SlotEntry(q)' = SlotEntry(q)
  BY DEF Active, Unfinishing, Owns, SlotEntry, Young
<1>2. ASSUME NEW e \in activeTenant'
      PROVE  \E q \in Requests : Owns(q)' /\ e = SlotEntry(q)'
  <2>1. CASE e \notin activeTenant
    BY <1>2, <2>1
  <2>2. CASE e \in activeTenant
    <3>1. PICK q \in Requests : Owns(q) /\ e = SlotEntry(q)
      BY <2>2 DEF SlotInv, SlotsOwned
    <3> QED
      BY <1>1, <1>2, <3>1
  <2> QED
    BY <2>1, <2>2
<1>3. ASSUME NEW q \in Requests, q \in Active', admission'[q] # None, Young(q)'
      PROVE  SlotEntry(q)' \in activeTenant' /\ SlotEntry(q)' \in activeUser'[ask'[q].user]
  BY <1>1, <1>3 DEF SlotInv, SlotsHeld
<1> QED
  BY <1>2, <1>3 DEF SlotInv, SlotsOwned, SlotsHeld

\* Ids stay fresh: only an arrival brings one in, and the client chose it so.
LEMMA StepFreshIds ==
  ASSUME IdsAreFresh, Inv, FreshIds, [Next]_vars
  PROVE  FreshIds'
<1>0. /\ stage = [q \in Requests |-> stage[q]] /\ ask = [q \in Requests |-> ask[q]]
      /\ \A q \in Live : ask[q] \in Asks /\ q \in Requests \ Over
  BY DEF Inv, Story, Live, Active, Over
<1>1. ASSUME NEW r \in Requests, Arrives(r) PROVE FreshIds'
  <2>1. PICK a \in Asks : /\ ask' = [ask EXCEPT ![r] = a]
                          /\ \A q \in Requests \ Over : ask[q] # None => ask[q].id # a.id
    BY <1>1 DEF Arrives
  <2>2. /\ stage[r] = "absent"
        /\ \A q \in Requests : q # r => stage'[q] = stage[q] /\ ask'[q] = ask[q]
        /\ ask'[r] = a
    BY <1>0, <1>1, <2>1 DEF Arrives, Moves
  <2>3. \A q \in Live' : q # r => q \in Live /\ ask'[q] = ask[q] /\ ask[q].id # ask'[r].id
    BY <1>0, <2>1, <2>2, NoneIsNoRecord DEF Live, Active
  <2>4. \A q \in Live' : q \in Requests
    BY DEF Live, Active
  <2> QED
    BY <2>3, <2>4 DEF FreshIds
<1>2. ASSUME ask' = ask, Live' \subseteq Live PROVE FreshIds'
  BY <1>2 DEF FreshIds
<1>3. ASSUME NEW r \in Requests, Refused(r) \/ Forward(r) \/ Ends(r) \/ Streams(r)
      PROVE  ask' = ask /\ Live' \subseteq Live
  <2>1. ask' = ask /\ r \in Live
    BY <1>3 DEF Refused, Forward, PassesChecks, Ends, Streams, Live, Active
  <2>2. \E s : Moves(r, s)
    BY <1>3 DEF Refused, Forward, Ends, Streams
  <2>3. \A q \in Requests : q # r => stage'[q] = stage[q]
    BY <1>0, <2>2 DEF Moves
  <2> QED
    BY <2>1, <2>3 DEF Live, Active
<1>4. Elsewhere => ask' = ask /\ Live' \subseteq Live
  BY DEF Elsewhere, Live, Active
<1> QED
  BY <1>1, <1>2, <1>3, <1>4, QuotaSteps

LEMMA ArrivesKeepsSlots ==
  ASSUME Inv, AdmissionInv, SlotInv, FreshIds', DictionaryBounded',
         NEW r \in Requests, Arrives(r) \/ Refused(r)
  PROVE  SlotInv'
<1>1. /\ stage[r] \in {"absent", "reading"} /\ admission' = admission
      /\ \E s : Moves(r, s) /\ s \in {"reading", "over", "unaudited", "failed"}
      /\ \E a : ask' = [ask EXCEPT ![r] = a]
  <2>1. ask' = ask => ask' = [ask EXCEPT ![r] = ask[r]]
    BY DEF Inv
  <2> QED
    BY <2>1 DEF Arrives, Refused
<1>2. admission[r] = None
  BY <1>1 DEF AdmissionInv, RecordsKnown, Recorded
<1>3. \A q \in Requests : q # r => /\ stage'[q] = stage[q] /\ ask'[q] = ask[q]
                                   /\ admission'[q] = admission[q]
  BY <1>1 DEF Inv, Moves
<1>4. /\ activeTenant' \subseteq activeTenant /\ now' = now
      /\ \A e \in activeTenant : e.at > now - TtlSeconds => e \in activeTenant'
      /\ \A v \in Users : \A e : e \in activeUser[v] /\ e.at > now - TtlSeconds => e \in activeUser'[v]
  <2>1. CASE UNCHANGED <<now, quota>>
    BY <2>1 DEF quota
  <2>2. CASE Quota!Refuse(ask[r].user, 0)
    <3>1. activeUser \in [Users -> SUBSET Quota!Slot]
      BY SameQuotaTypes DEF AdmissionInv, Proved!TypeInv, Quota!TypeOK
    <3> QED
      BY <2>2, <3>1, DropsOnlyStale DEF Quota!Refuse
  <2> QED
    BY <2>1, <2>2 DEF Arrives, Refused
<1>5. \A q \in Active : q # r /\ admission[q] # None /\ Young(q) =>
        ask[q].user \in Users /\ SlotEntry(q).at > now - TtlSeconds
  BY DEF Inv, Story, Asks, Active, SlotEntry, Young
<1> QED
  BY <1>1, <1>2, <1>3, <1>4, <1>5, OneMovesSlots DEF Owns

LEMMA StreamsKeepsSlots ==
  ASSUME Inv, AdmissionInv, SlotInv, FreshIds', DictionaryBounded',
         NEW r \in Requests, Streams(r)
  PROVE  SlotInv'
<1>1. PICK s \in {"opened", "streaming", "failed", "dropped"} : Moves(r, s)
  BY DEF Streams
<1>2. /\ UNCHANGED <<ask, admission, now, activeTenant, activeUser>>
      /\ r \in Active /\ ask[r].stream
  BY DEF Streams, quota, Inv, Story, Active
<1>3. /\ stage'[r] = s
      /\ \A q \in Requests : q # r => /\ stage'[q] = stage[q] /\ ask'[q] = ask[q]
                                      /\ admission'[q] = admission[q]
  BY <1>1, <1>2 DEF Inv, Moves
<1>4. Owns(r) => Owns(r)' /\ SlotEntry(r)' = SlotEntry(r)
  BY <1>2, <1>3 DEF Owns, Active, Unfinishing, SlotEntry
<1>5. r \in Active' /\ admission'[r] # None /\ Young(r)' =>
        SlotEntry(r)' \in activeTenant' /\ SlotEntry(r)' \in activeUser'[ask'[r].user]
  BY <1>2 DEF SlotInv, SlotsHeld, SlotEntry, Young
<1> QED
  BY <1>2, <1>3, <1>4, <1>5, OneMovesSlots

\* Forwarding takes the slot under the request's own id, which no other request in
\* the handler has.
LEMMA ForwardKeepsSlots ==
  ASSUME Inv, AdmissionInv, SlotInv, FreshIds', DictionaryBounded',
         NEW r \in Requests, Forward(r)
  PROVE  SlotInv'
<1>1. PICK s : /\ Moves(r, s) /\ s \in {"failed", "opening", "upstream"}
               /\ s = "failed" => ask[r].verdict = "template_broken"
  BY DEF Forward
<1>2. stage[r] = "reading" /\ admission[r] = None /\ ask' = ask
  BY DEF Forward, PassesChecks, AdmissionInv, RecordsKnown, Recorded
<1>3. /\ stage'[r] = s
      /\ \A q \in Requests : q # r => stage'[q] = stage[q]
  BY <1>1 DEF Inv, Moves
<1>4. CASE UNCHANGED <<admission, now, quota>>
  BY <1>2, <1>3, <1>4, OneMovesSlots DEF quota, Owns
<1>5. CASE ~ UNCHANGED <<admission, now, quota>>
  <2> DEFINE record == CHOOSE c \in admissions' : c \notin admissions
             entry == [id |-> ask[r].id, at |-> now]
  <2>1. /\ Quota!Admit(ask[r].user, ask[r].id, 0)
        /\ admission' = [admission EXCEPT ![r] = record]
    BY <1>5 DEF Forward
  <2>2. record.id = ask[r].id /\ record.time = now
    BY <2>1, AdmitRecords DEF AdmissionInv, RecordsKnown
  <2> HIDE DEF record
  <2>3. /\ admission'[r] = record
        /\ \A q \in Requests : q # r => admission'[q] = admission[q]
    BY <2>1 DEF AdmissionInv, RecordsKnown
  <2>4. /\ now' = now
        /\ activeTenant' = {e \in Quota!NotStale(activeTenant) : e.id # ask[r].id} \union {entry}
        /\ activeUser' = [activeUser EXCEPT ![ask[r].user] =
             {e \in Quota!NotStale(@) : e.id # ask[r].id} \union {entry}]
    BY <2>1, DropsOnlyStale DEF Quota!Admit
  <2>5. /\ activeUser \in [Users -> SUBSET Quota!Slot]
        /\ \A q \in Requests : stage[q] # "absent" => ask[q].user \in Users
    BY SameQuotaTypes DEF AdmissionInv, Proved!TypeInv, Quota!TypeOK, Inv, Story, Asks
  <2>6. /\ \A e \in activeTenant : e.id # ask[r].id /\ e.at > now - TtlSeconds => e \in activeTenant'
        /\ \A v \in Users : \A e : e \in activeUser[v] /\ e.id # ask[r].id /\ e.at > now - TtlSeconds =>
             e \in activeUser'[v]
        /\ entry \in activeTenant' /\ entry \in activeUser'[ask[r].user]
        /\ \A e \in activeTenant' : e \in activeTenant \/ e = entry
    BY <1>2, <2>4, <2>5, DropsOnlyStale
  <2>7. SlotEntry(r)' = entry
    BY <2>2, <2>3 DEF SlotEntry
  <2>8. Owns(r)'
    <3>1. admission'[r] # None
      <4>1. record \in Quota!Record
        <5>1. AdmissionInv'
          BY StepAdmissionInv DEF Next
        <5>2. admissions' \subseteq Quota!Record /\ record \in admissions'
          BY <2>1, <5>1, AdmitRecords, SameQuotaTypes
          DEF AdmissionInv, RecordsKnown, Proved!TypeInv, Proved!TypeOK, record
        <5> QED
          BY <5>2
      <4> QED
        BY <2>3, <4>1, NoneIsNoRecord
    <3> QED
      BY <1>1, <1>2, <1>3, <3>1 DEF Owns, Active, Unfinishing
  <2>9. ASSUME NEW q \in Active, q # r, admission[q] # None, Young(q)
        PROVE  /\ SlotEntry(q).id # ask[r].id /\ SlotEntry(q).at > now - TtlSeconds
               /\ ask[q].user \in Users
    <3>1. q \in Live /\ r \in Live /\ q \in Requests
      BY <1>2 DEF Live, Active
    <3>2. ask[q].id # ask[r].id
      BY <2>9, <3>1 DEF SlotInv, FreshIds
    <3>3. SlotEntry(q).id = ask[q].id
      BY <2>9, <3>1 DEF SlotEntry, AdmissionInv, RecordsKnown, Recorded
    <3> QED
      BY <2>5, <2>9, <3>1, <3>2, <3>3 DEF SlotEntry, Young, Active
  <2> HIDE DEF entry
  <2> QED
    BY <1>2, <1>3, <2>3, <2>4, <2>6, <2>7, <2>8, <2>9, OneMovesSlots DEF Owns
<1> QED
  BY <1>4, <1>5

\* The end of a request releases the entries of its id, and of no other's.
LEMMA EndsKeepsSlots ==
  ASSUME Inv, AdmissionInv, SlotInv, FreshIds', DictionaryBounded',
         NEW r \in Requests, Ends(r)
  PROVE  SlotInv'
<1>1. PICK s \in {"over", "unaudited", "failed"} : Moves(r, s)
  BY DEF Ends
<1>2. ask' = ask /\ admission' = admission /\ r \in Active
  BY DEF Ends, Active
<1>3. /\ stage'[r] = s /\ r \notin Active'
      /\ \A q \in Requests : q # r => stage'[q] = stage[q]
  BY <1>1 DEF Inv, Moves, Active
<1>4. CASE admission[r] = None
  BY <1>2, <1>3, <1>4, OneMovesSlots DEF Ends, Finishes, quota, Owns
<1>5. CASE admission[r] # None
  <2>1. Quota!Finish(admission[r])
    BY <1>5 DEF Ends, Finishes
  <2>2. /\ now' = now
        /\ activeTenant' = {e \in activeTenant : e.id # admission[r].id}
        /\ activeUser' = [activeUser EXCEPT ![admission[r].user] = {e \in @ : e.id # admission[r].id}]
    BY <2>1, DropsOnlyStale DEF Quota!Finish
  <2>3. /\ activeUser \in [Users -> SUBSET Quota!Slot]
        /\ \A q \in Requests : stage[q] # "absent" => ask[q].user \in Users
    BY SameQuotaTypes DEF AdmissionInv, Proved!TypeInv, Quota!TypeOK, Inv, Story, Asks
  <2>4. /\ \A e \in activeTenant : e.id # admission[r].id => e \in activeTenant'
        /\ \A v \in Users : \A e : e \in activeUser[v] /\ e.id # admission[r].id => e \in activeUser'[v]
        /\ activeTenant' \subseteq activeTenant
        /\ SlotEntry(r) \notin activeTenant'
    BY <2>2, <2>3 DEF SlotEntry
  <2>5. ASSUME NEW q \in Active, q # r, admission[q] # None
        PROVE  SlotEntry(q).id # admission[r].id /\ ask[q].user \in Users
    <3>1. q \in Live /\ r \in Live /\ q \in Requests
      BY <1>2 DEF Live, Active
    <3>2. admission[q].id = ask[q].id /\ admission[r].id = ask[r].id
      BY <1>5, <2>5, <3>1 DEF AdmissionInv, RecordsKnown, Recorded
    <3> QED
      BY <2>3, <2>5, <3>1, <3>2 DEF SlotEntry, SlotInv, FreshIds, Active
  <2> QED
    BY <1>2, <1>3, <2>2, <2>4, <2>5, OneMovesSlots
<1> QED
  BY <1>4, <1>5

LEMMA InitSlotInv == Init => SlotInv
<1> SUFFICES ASSUME Init PROVE SlotInv
  OBVIOUS
<1>1. activeTenant = {} /\ Live = {} /\ Active = {}
  BY DEF Init, Quota!Init, Live, Active
<1>2. DictionaryBounded
  BY <1>1, GatewayAssumption, FS_EmptySet DEF DictionaryBounded
<1> QED
  BY <1>1, <1>2 DEF SlotInv, FreshIds, SlotsOwned, SlotsHeld

LEMMA StepSlotInv ==
  ASSUME IdsAreFresh
  PROVE  Inv /\ AdmissionInv /\ SlotInv /\ [Next]_vars => SlotInv'
<1> SUFFICES ASSUME Inv, AdmissionInv, SlotInv, [Next]_vars PROVE SlotInv'
  OBVIOUS
<1>1. FreshIds' /\ DictionaryBounded'
  BY StepFreshIds, StepDictionaryBounded DEF SlotInv
<1>2. ASSUME Elsewhere PROVE SlotInv'
  <2>1. /\ UNCHANGED <<stage, ask, admission, activeTenant, activeUser>>
        /\ \A r \in Requests : admission[r] # None /\ Young(r)' => Young(r)
    <3>1. CASE UNCHANGED <<now, quota>>
      BY <1>2, <3>1 DEF Elsewhere, quota, Young
    <3>2. CASE Quota!Tick
      <4>1. \A r \in Requests : admission[r] # None => admission[r].time \in Int
        BY SameQuotaTypes, GatewayAssumption
        DEF AdmissionInv, RecordsKnown, Recorded, Proved!TypeInv, Quota!TypeOK, Quota!Record, Quota!Time
      <4>2. now \in Int /\ now' = now + 1 /\ TtlSeconds \in Int
        BY <3>2, SameQuotaTypes, GatewayAssumption
        DEF Quota!Tick, AdmissionInv, Proved!TypeInv, Quota!TypeOK, Quota!Time
      <4> QED
        BY <1>2, <3>2, <4>1, <4>2 DEF Elsewhere, Quota!Tick, Young
    <3> QED
      BY <1>2, <3>1, <3>2 DEF Elsewhere
  <2> QED
    BY <1>1, <2>1 DEF SlotInv, SlotsOwned, SlotsHeld, Owns, SlotEntry, Active, Unfinishing
<1> QED
  BY <1>1, <1>2, ArrivesKeepsSlots, ForwardKeepsSlots, EndsKeepsSlots, StreamsKeepsSlots, QuotaSteps

\* The enforcer counts the requests the gateway has upstream: each holds its entry in
\* both dictionaries until the TTL, through every stage of a stream, and an entry of no
\* such request is one of a request that left without finishing.  For any number of
\* requests, users and ids, if clients do not reuse an id that is being handled
\* (_handle_llm_request with check_and_record and finish_request).
THEOREM SlotsOfActiveRequests ==
  ASSUME IdsAreFresh
  PROVE  Spec => []SlotsAreActiveRequests
<1>1. SlotInv => SlotsAreActiveRequests
  <2> SUFFICES ASSUME SlotInv PROVE SlotsAreActiveRequests
    OBVIOUS
  <2>1. activeTenant \subseteq Entries(Active \union Unfinishing)
    BY DEF SlotInv, SlotsOwned, Owns, SlotEntry, Entries, Recorded
  <2>2. ASSUME NEW r \in Active \cap Recorded, Young(r)
        PROVE  Entries({r}) \subseteq activeTenant \cap activeUser[ask[r].user]
    <3>1. Entries({r}) = {SlotEntry(r)}
      BY <2>2 DEF Entries, SlotEntry
    <3> QED
      BY <2>2, <3>1 DEF SlotInv, SlotsHeld, Active, Recorded
  <2> QED
    BY <2>1, <2>2 DEF SlotsAreActiveRequests
<1> QED
  BY <1>1, InitInv, StepInv, InitAdmissionInv, StepAdmissionInv, InitSlotInv, StepSlotInv,
     PTL DEF Spec

\* So the upstream never has more than concurrent_requests of a tenant to work on, of
\* those younger than the TTL: they have as many entries in _active_tenant.
THEOREM UpstreamIsBounded ==
  ASSUME IdsAreFresh
  PROVE  Spec => []UpstreamBounded
<1>1. ASSUME AdmissionInv, SlotInv PROVE UpstreamBounded
  <2> DEFINE young == {r \in Active \cap Recorded : Young(r)}
             slot == [r \in young |-> SlotEntry(r)]
  <2>1. \A r \in young : SlotEntry(r) \in activeTenant
    BY <1>1 DEF SlotInv, SlotsHeld, Active, Recorded
  <2>2. ASSUME NEW q \in young, NEW r \in young, SlotEntry(q) = SlotEntry(r) PROVE q = r
    <3>1. SlotEntry(q).id = admission[q].id /\ SlotEntry(r).id = admission[r].id
      BY DEF SlotEntry
    <3>2. admission[q].id = ask[q].id /\ admission[r].id = ask[r].id
      BY <1>1 DEF AdmissionInv, RecordsKnown, Recorded
    <3> QED
      BY <1>1, <2>2, <3>1, <3>2 DEF SlotInv, FreshIds, Live
  <2> HIDE DEF young
  <2>3. slot \in Injection(young, activeTenant)
    BY <2>1, <2>2 DEF Injection, IsInjective
  <2>4. Cardinality(young) <= Cardinality(activeTenant)
        /\ IsFiniteSet(young) /\ Cardinality(activeTenant) <= ConcurrencyLimit
        /\ IsFiniteSet(activeTenant)
    BY <1>1, <2>3, FS_Injection DEF SlotInv, DictionaryBounded
  <2>5. Cardinality(young) <= ConcurrencyLimit
    BY <2>4, FS_CardinalityType, GatewayAssumption
  <2> QED
    BY <2>5 DEF UpstreamBounded, young
<1>2. AdmissionInv /\ SlotInv => UpstreamBounded
  BY <1>1
<1> QED
  BY <1>2, InitInv, StepInv, InitAdmissionInv, StepAdmissionInv, InitSlotInv, StepSlotInv,
     PTL DEF Spec
============================================================================
