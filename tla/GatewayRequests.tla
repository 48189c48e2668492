-------------------------- MODULE GatewayRequests --------------------------
(***************************************************************************)
(* The life of LLM requests in one gateway process (main.py:143-515),      *)
(* composed with the in-memory quota enforcer and with what the handler    *)
(* uses of the billing ledger.                                             *)
(*                                                                         *)
(* The handler is a coroutine on a single event loop: it runs without      *)
(* interruption from one await to the next, and other requests run while   *)
(* it waits for the body, for the upstream, or for the client of a stream. *)
(* An action is the code between two awaits.                               *)
(***************************************************************************)
EXTENDS Integers, FiniteSets, Sequences

CONSTANTS
  Requests,         \* the requests that arrive
  RequestIds,       \* the values of x-request-id
  Users,            \* the users of the one tenant
  Settings,         \* the settings gateways are started with
  ConcurrencyLimit, \* limits.concurrent_requests
  NoLimit,          \* a limit that is None
  TtlSeconds,       \* concurrency_ttl_seconds
  IdsAreFresh,      \* do clients avoid the id of a request that is being handled?
  LedgerCapacity,   \* queue_max_records of the billing ledger
  MaxTime           \* bound on the clock

\* What of AppSettings the handler looks at, with the posture the lifespan found.
AllSettings == [blocked : BOOLEAN, quota : {"disabled", "in_memory"},
                billing : {"observability", "required"}, allowStreaming : BOOLEAN]

ASSUME GatewayAssumption ==
  /\ IsFiniteSet(Requests)
  /\ Settings \subseteq AllSettings
  /\ ConcurrencyLimit \in Nat \ {0}
  /\ NoLimit \notin Nat
  /\ {TtlSeconds, LedgerCapacity} \subseteq Nat \ {0}
  /\ IdsAreFresh \in BOOLEAN
  /\ MaxTime \in Nat

\* What the checks before the quota find in a request: the first thing that is
\* wrong with it, that looking at it raises, or that its tenant has a header
\* template that cannot be filled.
Refusals == {"invalid_json", "invalid_request_schema", "policy_denied", "adapter_denied"}
Verdicts == Refusals \union {"allowed", "raises", "template_broken"}
Asks == [id : RequestIds, user : Users, verdict : Verdicts, stream : BOOLEAN]

VARIABLES
  settings,   \* app.state.settings and app.state.security_posture_block
  stage,      \* per request, the await its handler is at
  ask,        \* per request, what the client sent
  admission,  \* per request, the call its quota_enforcer.check_and_record recorded
  answer,     \* per request, the reason or the upstream status it is answered with
  events,     \* per request, the audit events it emitted
  queue,      \* the request ids in the queue of the billing ledger
  written,    \* the request ids the ledger wrote
  \* the state of InMemoryQuota
  now, userRecords, tenantRecords, activeUser, activeTenant, admissions, unfinished, decision

quota == <<userRecords, tenantRecords, activeUser, activeTenant, admissions, unfinished, decision>>
ledger == <<queue, written>>
vars == <<settings, stage, ask, admission, answer, events, ledger, now, quota>>

Quota == INSTANCE InMemoryQuota WITH
  TokenEstimates <- {0}, RequestLimit <- NoLimit, TokenLimit <- NoLimit,
  TicksPerSecond <- 1, WindowSeconds <- TtlSeconds,
  IdsAreFresh <- FALSE, ClockCanStepBack <- FALSE, AnonymousFinish <- FALSE,
  MaxAdmissions <- Cardinality(Requests)

None == [none |-> TRUE]   \* no request body read yet, no call recorded, no answer

----------------------------------------------------------------------------
Moves(r, s) == stage' = [stage EXCEPT ![r] = s]

\* _emit_observability, the last the handler does: one event, with the reason or
\* status of the answer; or the audit sink, a file, cannot be written and raises.
Emits(r, reason) ==
  \/ Moves(r, "over") /\ events' = [events EXCEPT ![r] = Append(@, reason)]
  \/ Moves(r, "unaudited") /\ UNCHANGED events

\* Mutant of Responds: the answer goes out before the event is emitted.
RespondsFirst(r, reason) ==
  /\ Emits(r, reason)
  /\ answer' = [answer EXCEPT ![r] = reason]

\* _emit_and_respond, and the JSONResponse of an answer from upstream.  An exception
\* of the sink leaves the handler, and the client gets a 500 instead.
Responds(r, reason) ==
  /\ Emits(r, reason)
  /\ answer' = IF stage'[r] = "over" THEN [answer EXCEPT ![r] = reason] ELSE answer

Over == {r \in Requests : stage[r] \in {"over", "failed", "dropped", "unaudited"}}

\* A request comes in.  A gateway whose security posture is blocked answers it
\* before it reads the body.
Arrive(r, a) ==
  /\ stage[r] = "absent"
  /\ IdsAreFresh => \A q \in Requests \ Over : ask[q] # None => ask[q].id # a.id
  /\ ask' = [ask EXCEPT ![r] = a]
  /\ IF settings.blocked
     THEN Responds(r, "security_posture_blocked")
     ELSE Moves(r, "reading") /\ UNCHANGED <<answer, events>>
  /\ UNCHANGED <<settings, admission, ledger, now, quota>>

StreamingBillingIsBlocked(a) ==
  a.stream /\ ~ settings.allowStreaming /\ settings.billing = "required"

\* The body is read and a check before the quota refuses the request.
Deny(r) ==
  /\ stage[r] = "reading"
  /\ \/ ask[r].verdict \in Refusals /\ Responds(r, ask[r].verdict)
     \/ /\ ask[r].verdict \notin Refusals \union {"raises"}
        /\ StreamingBillingIsBlocked(ask[r])
        /\ Responds(r, "streaming_billing_not_supported")
  /\ UNCHANGED <<settings, ask, admission, ledger, now, quota>>

\* The key set of the identity provider is no JSON, or the tokenizer will not take
\* the text: neither exception is caught, and the client gets a 500, unaudited.
Escapes(r) ==
  /\ stage[r] = "reading"
  /\ ask[r].verdict = "raises"
  /\ Moves(r, "failed")
  /\ UNCHANGED <<settings, ask, admission, answer, events, ledger, now, quota>>

PassesChecks(r) == /\ stage[r] = "reading"
                   /\ ask[r].verdict \notin Refusals \union {"raises"}
                   /\ ~ StreamingBillingIsBlocked(ask[r])

\* The quota refuses it with a 429.
Throttle(r) ==
  /\ PassesChecks(r)
  /\ settings.quota = "in_memory"
  /\ Quota!Refuse(ask[r].user, 0)
  /\ Responds(r, decision'.reason)
  /\ UNCHANGED <<settings, ask, admission, ledger>>

\* check_and_record allows it, or there is no enforcer; then _build_outbound_headers
\* fills the tenant's templates, outside any try, and the handler awaits upstream.
Forward(r) ==
  /\ PassesChecks(r)
  /\ \/ /\ settings.quota = "disabled"
        /\ UNCHANGED <<admission, now, quota>>
     \/ /\ settings.quota = "in_memory"
        /\ Quota!Admit(ask[r].user, ask[r].id, 0)
        /\ admission' = [admission EXCEPT ![r] =
             CHOOSE c \in admissions' : c \notin admissions]
  /\ Moves(r, CASE ask[r].verdict = "template_broken" -> "failed"
                [] ask[r].verdict = "allowed" /\ ask[r].stream -> "opening"
                [] OTHER -> "upstream")
  /\ UNCHANGED <<settings, ask, answer, events, ledger>>

\* finish_request with the request's own id.
\* Mutant of Finishes: only in a mode that bills is the slot given back.
FinishesIfBilled(r) ==
  IF admission[r] = None \/ settings.billing # "required" THEN UNCHANGED <<now, quota>>
  ELSE Quota!Finish(admission[r])
Finishes(r) ==
  IF admission[r] = None THEN UNCHANGED <<now, quota>> ELSE Quota!Finish(admission[r])

----------------------------------------------------------------------------
\* The upstream answered with a status; in a required billing mode with usage
\* tokens or without.  finish_request comes first, in the finally of the await.
Statuses == {"upstream_ok", "upstream_error"}

Billed(id) == id \in queue \union written   \* _seen_request_ids
LedgerFullLate == Cardinality(queue) > LedgerCapacity   \* mutant
LedgerFull == Cardinality(queue) >= LedgerCapacity

\* Mutant of AnswerUnmetered: a body without usage is answered in every mode.
AnswerAnything(r, status) ==
  /\ stage[r] = "upstream"
  /\ Finishes(r)
  /\ Responds(r, status)
  /\ UNCHANGED <<settings, ask, admission, ledger>>
AnswerUnmetered(r, status) ==
  /\ stage[r] = "upstream"
  /\ settings.billing # "required"
  /\ Finishes(r)
  /\ Responds(r, status)
  /\ UNCHANGED <<settings, ask, admission, ledger>>

UsageMissing(r) ==
  /\ stage[r] = "upstream"
  /\ settings.billing = "required"
  /\ Finishes(r)
  /\ Responds(r, "billing_usage_missing")
  /\ UNCHANGED <<settings, ask, admission, ledger>>

\* ledger.append takes the entry, or has seen the id before.
AnswerBilled(r, status) ==
  /\ stage[r] = "upstream"
  /\ settings.billing = "required"
  /\ Finishes(r)
  /\ \/ Billed(ask[r].id) /\ UNCHANGED ledger
     \/ ~ Billed(ask[r].id) /\ ~ LedgerFull /\ queue' = queue \union {ask[r].id} /\ UNCHANGED written
  /\ Responds(r, status)
  /\ UNCHANGED <<settings, ask, admission>>

\* ledger.append raises BillingLedgerError.
BillingFails(r) ==
  /\ stage[r] = "upstream"
  /\ settings.billing = "required"
  /\ ~ Billed(ask[r].id) /\ LedgerFull
  /\ Finishes(r)
  /\ Responds(r, "billing_queue_full")
  /\ UNCHANGED <<settings, ask, admission, ledger>>

\* httpx raises: the finally gives the slot back and the exception goes on to the
\* server, which answers 500.
ForwardFails(r) ==
  /\ stage[r] = "upstream"
  /\ Finishes(r)
  /\ Moves(r, "failed")
  /\ UNCHANGED <<settings, ask, admission, answer, events, ledger>>

----------------------------------------------------------------------------
\* open_upstream_stream returns, and the StreamingResponse with the iterator that
\* would finish the request is handed to the server; or it raises.
\* Mutant of StreamOpens: finishes the request when the stream is open.
StreamOpensFinished(r) ==
  /\ stage[r] = "opening"
  /\ Finishes(r)
  /\ Moves(r, "opened")
  /\ UNCHANGED <<settings, ask, admission, answer, events, ledger>>
StreamOpens(r) ==
  /\ stage[r] = "opening"
  /\ Moves(r, "opened")
  /\ UNCHANGED <<settings, ask, admission, answer, events, ledger, now, quota>>

StreamOpenFails(r) ==
  /\ stage[r] = "opening"
  /\ Moves(r, "failed")
  /\ UNCHANGED <<settings, ask, admission, answer, events, ledger, now, quota>>

\* The server sends the head of the response and asks the iterator for the first
\* chunk; or the client is gone before that, and the iterator never starts.
StreamStarts(r, status) ==
  /\ stage[r] = "opened"
  /\ Moves(r, "streaming")
  /\ answer' = [answer EXCEPT ![r] = status]
  /\ UNCHANGED <<settings, ask, admission, events, ledger, now, quota>>

ClientLeaves(r) ==
  /\ stage[r] = "opened"
  /\ Moves(r, "dropped")
  /\ UNCHANGED <<settings, ask, admission, answer, events, ledger, now, quota>>

\* The iterator ends: the chunks are used up, the upstream breaks off, or the
\* client leaves and the iterator is cancelled or closed.  All of it is the finally.
StreamEnds(r) ==
  /\ stage[r] = "streaming"
  /\ Finishes(r)
  /\ Emits(r, answer[r])
  /\ UNCHANGED <<settings, ask, admission, answer, ledger>>

\* The ledger's worker writes what is queued.
LedgerWrites ==
  /\ queue # {}
  /\ written' = written \union queue /\ queue' = {}
  /\ UNCHANGED <<settings, stage, ask, admission, answer, events, now, quota>>

Tick == Quota!Tick /\ UNCHANGED <<settings, stage, ask, admission, answer, events, ledger>>

Init ==
  /\ settings \in Settings
  /\ stage = [r \in Requests |-> "absent"]
  /\ ask = [r \in Requests |-> None]
  /\ admission = [r \in Requests |-> None]
  /\ answer = [r \in Requests |-> "none"]
  /\ events = [r \in Requests |-> <<>>]
  /\ queue = {} /\ written = {}
  /\ Quota!Init

Next ==
  \/ Tick \/ LedgerWrites
  \/ \E r \in Requests :
       \/ \E a \in Asks : Arrive(r, a)
       \/ Deny(r) \/ Escapes(r) \/ Throttle(r) \/ Forward(r)
       \/ \E status \in Statuses : \/ AnswerUnmetered(r, status)
                                   \/ AnswerBilled(r, status)
                                   \/ StreamStarts(r, status)
       \/ UsageMissing(r) \/ BillingFails(r) \/ ForwardFails(r)
       \/ StreamOpens(r) \/ StreamOpenFails(r) \/ ClientLeaves(r) \/ StreamEnds(r)

Spec == Init /\ [][Next]_vars

----------------------------------------------------------------------------
Stages == {"absent", "reading", "upstream", "opening", "opened", "streaming",
           "over", "failed", "dropped", "unaudited"}
Answers == Refusals \union Statuses \union Quota!Reasons \union
           {"none", "security_posture_blocked", "streaming_billing_not_supported",
            "billing_usage_missing", "billing_queue_full"}

TypeOK ==
  /\ settings \in Settings
  /\ stage \in [Requests -> Stages]
  /\ ask \in [Requests -> Asks \union {None}]
  /\ admission \in [Requests -> admissions \union {None}]
  /\ answer \in [Requests -> Answers]
  /\ events \in [Requests -> Seq(Answers)]
  /\ queue \subseteq RequestIds /\ written \subseteq RequestIds
  /\ Cardinality(queue) <= LedgerCapacity
  /\ Quota!TypeOK

\* The requests whose handler waits for the upstream or passes its stream on.
Active == {r \in Requests : stage[r] \in {"upstream", "opening", "opened", "streaming"}}

\* A stream that was never started and a header template that cannot be filled
\* leave the handler by a way that does not finish the request.
Unfinishing == {r \in Requests : \/ stage[r] = "dropped"
                                 \/ stage[r] = "failed" /\ ask[r].stream
                                 \/ stage[r] = "failed" /\ ask[r].verdict = "template_broken"}

Recorded == {r \in Requests : admission[r] # None}
Entries(requests) == {[id |-> admission[r].id, at |-> admission[r].time] : r \in requests \cap Recorded}
Young(r) == admission[r].time > now - TtlSeconds

\* The concurrency the enforcer counts is that of the requests the gateway has
\* upstream: each of them is in both dictionaries until the TTL, through every
\* stage of a stream, and an entry that belongs to no such request is one of a
\* request that left by a way that does not finish it.
SlotsAreActiveRequests ==
  /\ activeTenant \subseteq Entries(Active \union Unfinishing)
  /\ \A r \in Active \cap Recorded : Young(r) =>
       Entries({r}) \subseteq activeTenant \cap activeUser[ask[r].user]

\* So the upstream has no more than concurrent_requests of a tenant to work on,
\* of those younger than the TTL.
UpstreamBounded ==
  Cardinality({r \in Active \cap Recorded : Young(r)}) <= ConcurrencyLimit

\* finish_request is called for every request that reached the upstream by the
\* time its handler is done with it, whether it was answered, the upstream failed,
\* or the client of a stream left.
SlotsReturned ==
  \A r \in Recorded \ Active :
    ask[r].verdict # "template_broken" => admission[r] \notin unfinished

\* In a mode that requires billing nothing from upstream is given out unbilled,
\* save streams by explicit permission; and nothing is billed that was not, save
\* what was lost after it was billed because it could not be audited.  Two requests
\* with one id are one entry.
Served == {r \in Requests : answer[r] \in Statuses}
BilledIffServed ==
  /\ settings.billing = "required" =>
       \A r \in Served : Billed(ask[r].id) \/ (ask[r].stream /\ settings.allowStreaming)
  /\ \A id \in queue \union written :
       \E r \in Requests : ask[r].id = id /\ (r \in Served \/ stage[r] = "unaudited")

\* A request is audited at most once, when it is over, and with the answer it was
\* given; and nothing but the chunks of a stream is given out unaudited.
AuditedAsAnswered ==
  \A r \in Requests :
    /\ events[r] = IF stage[r] = "over" THEN <<answer[r]>> ELSE <<>>
    /\ answer[r] # "none" /\ events[r] = <<>> => ask[r].stream
=============================================================================
