# Specifications of the tenant policy gateway

TLA+ modules, TLC configurations and TLAPS proofs for the gateway in
`src/src/tenant_policy_gateway/`. File names below are relative to that directory; `docs/`
is `src/docs/`.

## 1. The system

The gateway is a FastAPI process in front of an LLM serving stack. A request to
`/v1/chat/completions` or `/v1/completions` is resolved to a tenant by its host,
authenticated, checked against the tenant's policy, checked against the tenant's quota, and
forwarded with headers the gateway sets. The answer, plain or streamed, is billed, audited
and returned. The deployment runs two replicas.

| Component | State it keeps | Operations | Talks to |
|---|---|---|---|
| Request handling (`main.py`) | per request, the await its coroutine is at; nothing else outlives a request | `_handle_llm_request`, `_streaming_response`, `lifespan`, `/readyz`, `/metrics` | everything below |
| Quota, in memory (`quota_enforcer.py:46-133`) | per user and per tenant, a deque of usage records and a dictionary of running calls | `check_and_record`, `finish_request` | called by the handler |
| Quota, Redis (`quota_enforcer.py:136-371`) | six sorted sets per user and tenant in a Redis all replicas share | the same, as Lua scripts; `heartbeat_request`, never called | Redis |
| Billing ledger (`billing_ledger.py`) | bounded queue, LRU of request ids, worker thread; JSONL file, or S3 objects and a DynamoDB table | `append`, `flush`, worker loop, `close` | file, S3, DynamoDB |
| Policy engine, tenant registry, adapter governance | a registry loaded at start-up | `evaluate_policy`, `resolve_by_host`, `evaluate_adapter_governance` | pure |
| Authentication, JWKS cache | a PyJWKClient per URL, with a deadline; inside it a key set with a life span of its own | `validate_request_auth`, `get` | identity provider |
| Header sanitizer | none | `sanitize_inbound_headers`, `inject_trusted_headers` | pure |
| Proxy (`proxy.py`) | an HTTP client per call | `forward_to_upstream`, `open_upstream_stream` | upstream |
| Metering | the tokenizer | `initialize_tokenizer`, `estimate_input_tokens` | start-up, the handler |
| Metrics and audit | counters; a JSONL file | `record`, `record_stream`, `emit` | called by the handler |
| Configuration, security posture | settings; the codes of the findings that block | `load_settings_from_env`, `evaluate_security_posture`, `enforce_security_posture` | start-up |
| Life of the process (`main.py:45-125`) | whether it is blocked, its enforcer, ledger and registry | `lifespan`, `/readyz` | all of the above |
| Artifact verifier | none | hashes a file | called by nothing |

**Where it is hard.** The handler is atomic between awaits, and both enforcers are called
without an await, so the in-memory quota has no races inside an operation. What is hard is
what happens *between* operations: calls overlap, outlive the TTL, are never finished; a
record is swept only when another call of that user comes; a stream's slot is returned by
an iterator that may never start. With Redis there are several processes, each with its own
clock, read before the script is sent; the connection breaks before or after the script
runs, the client library sends it again, a process dies. The ledger has two threads and
three remote stores, each of which fails before or after it did its work. Two caches with
two clocks stand between a token and the provider's keys. A process is put together by a
sequence of steps that can fail one by one. A handler that has billed can still fail to audit.

**What makes each component correct.** Quota: no window of the configured length, wherever
it starts, holds more than the limit; running calls are within the concurrency limit; a
refusal is due; a slot is returned. Ledger: accepted records are written, once, in the end.
Handling: what is served is billed
and audited; upstream load is within the limit. Policy: nothing reaches the upstream for a
tenant other than that of the host and the credentials, what a tenant is entitled to is not
refused, and nobody else is told what that is. Cache: a withdrawn key outlives neither
cache. Start-up: a gateway that reports ready has everything its settings call for, is
hardened if it is to be, and serves the registry it loaded.

## 2. Modules

| Module | What it models |
|---|---|
| `SlidingWindowQuota` | the promise of a quota: decides on the whole history of calls |
| `InMemoryQuota` | `InMemoryQuotaEnforcer`, for one tenant (tenants share nothing) |
| `RedisQuota` | `RedisQuotaEnforcer` in several gateways, for one tenant |
| `BillingPromise` | the promise of the ledger per request id: accepted, pending, claimed, stored, lost |
| `BillingLedger` | `BillingLedger`, both sinks, both threads, restarts |
| `GatewayRequests` | `main.py` from arrival to answer, **composed with** `InMemoryQuota` (`Quota == INSTANCE InMemoryQuota`) and with the ledger's queue |
| `TenantRegistry` | a registry file, what of it loads, and the tenant of a host; operators only |
| `JwksCache` | `jwks_cache.py` over the key-set cache of PyJWKClient, with an identity provider and two clocks |
| `RequestPolicy` | the verdict on a request (`main.py:161-242`) and the headers sent upstream; **extends** `JwksCache` and `TenantRegistry` |
| `Startup` | settings, posture, the lifespan step by step, `/readyz`, kills and restarts; **extends** `TenantRegistry` |
| `SlidingWindowQuotaProofs`, `InMemoryQuotaProofs`, `RedisQuotaProofs`, `BillingLedgerProofs`, `TenantRegistryProofs`, `RequestPolicyProofs` (with the cache), `StartupProofs`, `GatewayRequestsProofs` | theorems |
| `MC...` | instances for TLC |

`InMemoryQuota` implements `SlidingWindowQuota` under the mapping `verdict <- decision`
(`KeepsPromise`); users, ids, time and the history of admissions are the same variables.
`BillingLedger` implements `BillingPromise` (its `KeepsPromise`): pending is what the queue and
the batches hold, claims are the items of the table, `stored` counts the lines written, and
`disturbed` says that a call failed or the process was replaced.

### Correspondence

*InMemoryQuota.* A deque is the set of its records, ordered by `n`, the order of `append`.
`Unexpired` is the `popleft` loop, which stops at the first record that still counts;
`NotStale` is `_drop_stale_concurrency`; `Denials` lists the six early returns in order;
`Refuse` and `Admit` are the two ways `check_and_record` ends, each with the sweep it always
does; `Finish` and `FinishAny` are `finish_request` with and without an id. The mapping to
whole seconds in `RetryAfter` is kept, because `int()` cuts. `admissions` and `unfinished`
are history variables.

*RedisQuota.* A call is `Check` (the stamp is taken, the script sent), `CheckAdmits` or
`CheckRefuses` (the script, atomic), `Answered`; a finish is `Finish`, `FinishRuns`,
`Answered`. `Resend` is the default retry of redis-py 7.1, `GiveUp` the exception handler,
`Crash` a pod that dies. Each call carries the gateway that sent it. `Tick` is the clock of Redis and expires keys. Scores are ticks;
`key_ttl_seconds` is `KeyTtl`.

*BillingLedger.* `Bill` is `append`; `WorkerGet`, `Fill`, `StartFlush` are the worker's
loop; `WriteFile` is the local sink. A batch for S3 is gone through by partition: `todo`,
`group` and `claimed` are the places in the batch that are to come, that are to be claimed
and that were claimed; `NextGroup` takes the partition of the first place to come. `Claim`,
`PutObject`, `Mark` are the calls to DynamoDB and S3, each of which can fail before or after
it is carried out (claims are there only with a table, `ClaimsInTable`); `Fail`, `Requeue`,
`RequeueFull` are the exception handler; `Close` and `EndJoin` are `close()`, whose flush
can run beside the worker's; `Restart` is a new process.

*GatewayRequests.* One action per stretch of the handler between awaits: `Arrive`, then
`Deny`, `Throttle` or `Forward` (from the body to the call upstream), then one of the
answers, or for streams `StreamOpens`, `StreamStarts`, `StreamEnds`, with the failures
`Escapes`, `ForwardFails`, `StreamOpenFails` and `ClientLeaves`. What the policy checks find
is an input (`verdict`), which `RequestPolicy` models. `Emits` is `_emit_observability`: the
event is written, or the audit sink raises (`unaudited`), and then `Responds` gives no answer.

*JwksCache.* `Get` is `JwksClientCache.get`; `Signing` is `get_signing_key` of the library,
which asks the provider when the key is not in a young key set; `Lookup` is one call of
both, atomic on the event loop. `Wall` is `time.time()`, which `SetBack` changes; the key set
is aged by the monotonic `now`. `withdrawn` is a history variable.

*RequestPolicy.* The checks of each function are a list in the order of the code
(`BodyChecks`, `BearerChecks`, `MockChecks`, `OidcChecks`, `ClaimChecks`, `PolicyChecks`,
`GovernanceChecks`), and `VerdictChecks` puts them together; the first that fails is the
reason. `Judge` and `JudgeByKey` are the handler without and with a lookup. A header value is
named after what determines it, so that a property can tell whose it is. The properties read
entitlement off the registry *file* and the credentials (`Identified`, `MayUse`, `NamesHost`),
not off the checks.

*Startup.* `Configure` is `create_app`; `Judge`, `InitializeTokenizer`, `CreateQuotaEnforcer`,
`CreateLedger`, `LoadRegistry` are the statements of the lifespan, each of which succeeds or
ends the process; a blocked process goes from `Judge` to `LoadRegistry`. `Ready` is `/readyz`,
`Resolved` the lookup of a request. `Kill`, `Edit`, `Reconfigure`, `Break` and `Repair` are
the surroundings.

Operators named as mutants (`...Short`, `...Late`, and so on) stand next to the definition
they vary. They are variants with one plausible mistake, used to see that a property would
notice it, and are not part of any specification.

## 3. Runs

| Run | Question | Result |
|---|---|---|
| `quota_promise` | does deciding on the whole history keep *every* window and the running calls within the limits? | holds |
| `quota_refines` | does the enforcer, which forgets, decide as the promise does (and so keep every window); do slots match calls; is Retry-After long enough? | holds |
| `quota_any_caller` | with ids reused in flight, finishes without id and a clock set back, does anything outgrow its limit? | holds |
| `redis_quota` | do requests, slots and the tokens of one gateway stay within limits across skewed clocks, delays, retries, crashes; is every refusal due? | holds |
| `redis_tokens_shared` | does the token limit hold with two gateways (docs/20:20)? | **violated** |
| `ledger` | with each sink: are accepted records kept, billed once, complete only if stored, and written and marked in the end; is each step one the promise allows? | holds |
| `ledger_shutdown` | does close() flush (docs/20:82)? | **violated** |
| `ledger_claims` | is a record written that was requeued (billing_ledger.py:236, docs/20:81)? | **violated** |
| `gateway_requests` | do slots, upstream load, billing and audit agree with what requests do? | holds |
| `gateway_slots` | is the slot of every request returned (docs/19:34, docs/20:23)? | **violated** |
| `policy` | is what is forwarded entitled, what is refused not; who learns what; whose headers; how long does a withdrawn key live? | holds |
| `startup` | is a ready gateway complete, hardened and true to its file; does a blocked one hold nothing; does one serve in the end? | holds |

### What the violated runs show

* `redis_tokens_shared`: the token sum ends at the caller's `now_ms`, so entries another
  gateway stamped later, whose script ran first, are not counted. Clocks need not differ. The
  request count uses ZCARD and has no such gap, which `redis_quota` confirms. `redis_quota` also
  shows where the gap is not: in what went to one gateway (`TokensOfOneGateway`).
* `gateway_slots`: `open_upstream_stream` is awaited outside the try that finishes the
  request. `SlotsAreActiveRequests` shows this, and a header template that cannot be filled,
  to be the only ways a slot stays behind, and that the TTL ends it.
* `ledger_shutdown`: `close()` flushes one batch; more can be queued.
* `ledger_claims`: a batch whose claims succeeded and whose put failed is requeued and then
  refused by its own claims. Nothing is billed twice, and the record is never billed.

### What the other runs show besides

* `gateway_requests`: a request whose event cannot be written after it was billed is answered
  with a 500 although it is billed. `BilledIffServed` has this exception and no other.
* `policy`: the two caches of keys do not add up. A key set lives for the shorter of the two,
  unless the wall clock is set back; then for the life span of the key set. A provider that
  answers with no JSON makes a 500 that is not audited (`escaped`). A configured domain with a
  port is never found (the tenant `ported` of the instance).
* `startup`: readiness is decided at start-up only. A gateway whose registry file did not load
  stays unready until something restarts it, and the liveness probe of the manifests asks
  `/healthz`, which is always well. Two configurations of the instance are manifests of the
  repository that never become ready: `FullStack`
  (`k8s/overlays/aws-danger/tenant-gateway-full-stack.yaml.tpl`) names no tokenizer, and
  `initialize_tokenizer` raises for the default; `Base` (`k8s/tenant-policy-gateway/
  deployment.yaml`) is blocked by `quota_in_memory_not_distributed`. The comment at
  `metering.py:91` places the rejection of utf8_bytes in the validation of the settings; it is
  in `initialize_tokenizer`, and two settings switch it off (`ReadyIsComplete`).

### Bounds

* *In-memory quota*: two users, so that tenant and user counts differ; three admissions
  against limits of one or two; a clock that runs past a window and a TTL; half-second ticks
  where `int()` matters. The proofs cover all values.
* *Redis*: two gateways a tick apart, three calls with and without tokens, one retry. One user:
  with tokens a second one is beyond TLC's time, and it is the proofs that tell users and tenant
  apart. The window and TTL
  exceed skew and delay, or the properties would say nothing; TTL is longer than the window,
  so that the key's deadline matters. `MaxDelay` bounds the time from reading the clock to
  running the script; the client library has no such bound, none of the properties of
  `redis_quota` speaks of it, and the proofs hold for any value. In `redis_tokens_shared` the
  clocks agree, so that they cannot be blamed.
* *Ledger*: the local file and S3 with and without the table; a queue of one or two batches,
  few ids, two partitions, an LRU that can be smaller than the set of ids; two failures, enough
  for a failure during the retry of another; one restart.
* *Gateway*: all settings; three requests with two places, so that a third is throttled while
  one leaves late; a ledger queue of one. Ids are fresh while a request is in flight: two
  requests in flight under one id share one slot, by the design of the dictionary, and
  `quota_any_caller` covers what still holds then.

* *Policy*: one identity provider and one key, TTL two, life span three, a clock of four: the
  TTL is the cache that binds, and a key can be withdrawn and published again within it. Three
  tenants (one with a domain with a port and without a provider), four configurations (one whose
  file does not load), and requests that differ from one that is allowed in one or two respects,
  each reason among them. `RequestPolicyProofs` covers all values.
* *Startup*: thirteen configurations, seven files, four disruptions: enough for a start that
  fails, leaves something behind, and is repeated under another file or other settings.

Runs say `CHECK_DEADLOCK FALSE` where the bounds end every behaviour; `startup` does not.

### Fairness

`BillingLedger`: `FairSpec` is weak fairness of each thread as a whole (`Worker`, `Closer`): the
operating system schedules threads, and each step of theirs is enabled until taken (the queue's
`get` has a timeout). Nothing is assumed of the event loop, of callers, or of remote calls
succeeding; failures are bounded by `maxFailures`, and `EventuallyComplete` asks only for
behaviours without them, because `ledger_claims` shows what a failure does.

`Startup`: weak fairness of `Start`, a step of the lifespan or a new process: the lifespan has
no await that could wait for ever, and Kubernetes restarts a container that exited. Nothing is
assumed of operators or of repairs; `EventuallyServes` is about behaviours in which everything
is in place from some time on.

## 4. Proofs

Every invariant, action property and refinement of the passing runs is a theorem. All are checked for every value of the constants
that meets the named assumptions of the modules (`QuotaAssumption`, `RedisAssumption`,
`LedgerAssumption`, `GatewayAssumption`, `RegistryAssumption`, `JwksAssumption`,
`PolicyAssumption`, `StartupAssumption`). Most say what type a constant has. The others:

* `GatewayAssumption`: the requests that ever arrive are finitely many, because the enforcer's
  bound on admissions is their number. How many is left open.
* `PolicyAssumption`: the settings and registries the gateway is started with are of their types
  and the file loads (one that does not is `Startup`'s matter); the values that stand for no claim
  and for a claim of another type are no tenant and no user; and a mock token carries strings,
  because it is split from a string (`jwt_validation.py`).

### Quota

* `SlidingWindowQuotaProofs`: `PromiseTypeCorrect`, `PromiseSlidingWindow`,
  `PromiseConcurrencyBounded`. A check looks at one window, the one that ends now; the
  theorem is about all windows. A window that contains the new call ends no earlier than it,
  so it holds no more of the old calls than the window the check looked at
  (`WithinMonotone`, `RoomIsEnough`); a window without it gained nothing. Counts of finite
  sets and of token units (`TokensOfOneMore`) are the arithmetic underneath.
* `InMemoryQuotaProofs`: `TypeCorrect` and `CountsBounded`, with no assumption about callers or
  clock. The former needs `HeadExists` and `RetryType`: the head of a deque that CHOOSE names
  exists because record numbers are well ordered. The latter (`CountInv`) is so plain because a
  check is made on what is stored, and all else only drops.
* `InMemoryQuotaProofs`: `Implementation`, `Spec => KeepsPromise`, and `SlotsAreTracked`,
  assuming that ids are fresh in flight, that the clock is not set back and that finishes
  carry an id. `KeepsPromise` is not inductive; what is, `IInv`, says that the deques hold
  every admission that still counts (`DequesCover`), that records are numbered in the order
  of their times (`Chronological`, without which the `popleft` loop would stop early or a
  sweep drop too much), that ids of unfinished calls are unique (`IdsUnique`), and that
  entries and unfinished calls correspond (`SlotsMatchCalls`). From these the counts the
  enforcer takes are the counts of the history (`UnexpiredIsRecent`, `SlotsCountCalls`), so
  `Denied` agrees with the promise (`DeniedIffNoRoom`) and each step is a step of the promise
  or a stutter. `WindowsBounded` and `ConcurrencyIsBounded` carry the bounds of the promise
  over: its theorems are used by an INSTANCE of their module under the refinement mapping
  (`Proved`), with lemmas that say the two copies of each definition agree.
* `InMemoryQuotaProofs`: `RetryAfterIsEnough`, assuming only that the clock is not set back. The
  part of `IInv` that is about the deques (`DequeInv`) does not need the rest. A deque at the
  limit holds at most as many records as the limit (`CountInv`); after the wait its head has left
  the window (`WaitFreesTheDeque`), and nothing joined it.
* `RedisQuotaProofs`: `RedisTypeCorrect`, `SlotsOutlastTheSweeps`, `RequestsWithinLimit`,
  `ConcurrencyWithinLimit` and the action property `RefusedWhenDue`, whatever the clocks, delays,
  retries and crashes. The invariant (`ScriptsInv`) has a part for each of the three ways a
  member can be lost, and one for what a member is. `CallsKnown`: a script that runs again finds
  under its id no other call than its own, and a check's stamp is not ahead of its gateway's
  clock, so no sweep reaches what every clock still counts (`SweepsKeep`). `Lasting`: the keys
  of a call last a key's life by the clock it was stamped with, so Redis does not expire what
  counts. A finish removes only its own call's slot, again by `CallsKnown`. So the calls that
  count are in the keys (`CountedKept`, `SlotsKept`), as many members as calls (`SlotsCount`),
  and the count a script admits on bounds them. Conversely `Stored` says that every member is
  a call of the history, so a count that refuses is a count of calls. `TokensBounded` is false
  (`redis_tokens_shared`), and this is where the argument fails for it: the token sum does not
  take all members.
* `RedisQuotaProofs`, how far it fails: `TokensOfOneGatewayWithinLimit`. One gateway runs a script
  before it stamps the next, so its stamps are in the order of its scripts (`StampsInOrder`), the
  range that ends at the stamp of a call has all earlier entries of its own gateway, and the sum
  the script admits on bounds them (`TokensInv`). Two consequences for the documented limit: with
  one replica it holds (`OneReplicaKeepsTokenLimit`), and N replicas admit at most N times as
  much (`TokensGrowWithReplicas`), because each unit finds a place of its own among the
  N x limit places of the gateways.

### Ledger

`BillingLedgerProofs`: `LedgerTypeCorrect`, `RecordsKept`, `StoredAtMostOnce`,
`CompleteIsWritten`, `DuplicatesWereAccepted`, with any number of failures and restarts, in
both modes, with both threads flushing. `FlushInv` says what a flusher that is somewhere in its
batch has done with each place of it: what is neither to come nor in the current group is
stored or found claimed. With it a batch that is forgotten is not lost (`Kept`). `OnceInv` is
the strengthening of `AtMostOnce`: a claim that is not carried out is held by one place of one
flusher, and nothing is written under it, so `PutObject` is the first to write.

`LedgerKeepsPromise`, `Spec => KeepsPromise`: the ledger, with its queue, batches, partitions, two
threads and remote calls, refines `BillingPromise`. Most steps stutter; `AppendQueued` accepts,
`Claim` claims, `WriteFile` and `PutObject` store (`StoreStep`, which needs `OnceInv` to say that
what is stored is claimed and stored first), `EndGroups` releases a batch, `RequeueFull` gives it
up, a call that raises is a failure with or without its effect. The step that needs an invariant
of its own is `EndGroups`: it forgets records whose claim was refused, and the promise allows that
before any failure only if they are pending elsewhere. `CalmInv` says so: while nothing failed, a
claim without its record is in the hands of the flusher that made it, which is then the other one.
Carried over from the promise: `LedgerAccounts` (accepted records are pending, stored, given up or
left behind under a claim), `UndisturbedKeepsRecords` (the last two do not happen before a failure
or a restart) and `WithoutTableRequeuedIsWritten` (what `ledger_claims` refutes is true of every
ledger without the table).

`FlushesWhereABatchHoldsTheQueue`: what `ledger_shutdown` refutes holds where `queue_max_records`
is at most `batch_max_records` (the defaults are 10000 and 1000). `DrainInv`: from the moment
close() was called nothing is appended, and without failures nothing is put back, so queue and
batch of the closer together never hold more than the queue could; a full batch leaves it empty.

### Handling, policy, cache, start-up

* `GatewayRequestsProofs`: `Audited` and `BilledAndServed`. The invariant tells for each stage
  what a request can have been answered and audited (`Story`), and that a stream is opened only
  where it may go unbilled. `OneMoves` is the step of one request, whatever it is. That a 429
  carries a reason of the quota and none of the handler's own is `ThrottleReason`.
* `GatewayRequestsProofs`: `GatewayTypeCorrect`. Each step of the handler is a step of the
  enforcer or leaves it alone (`QuotaImplemented`), so the enforcer's own theorems hold inside
  the gateway (INSTANCE of `InMemoryQuotaProofs`); `RecordsKnown` ties a record to its request.
  `SlotsOfActiveRequests` and `UpstreamIsBounded` assume that ids are fresh in flight
  (`IdsAreFresh`); without it they are false. Their invariant, `SlotInv`: live requests differ in
  their ids, every entry is that of a request that owns one, and every young request upstream
  has its entry.
* `TenantRegistryProofs`: `ResolvedByName`. A registry that loads has no domain twice, so the
  owner a lookup finds is the only entry that names the host (`OneOwner`).
* `RequestPolicyProofs`, the cache: `CacheTypeCorrect`, `StaleKeys`. `StaleKeysLapse` speaks of
  the moment a key is used; what is inductive (`Tracked`) says that a key in a cached set was
  still published when the set was fetched, and that a client's deadline is at most a TTL after
  the fetch, corrected by how far the wall clock was set back. `StaleKeysUnderRequests`, because
  every step of a request is a lookup or leaves the cache alone.
* `RequestPolicyProofs`, the verdict: `PolicyTypeCorrect`, `ForwardedOnlyEntitled`,
  `RefusedOnlyWhenDue`, `PolicyToldToItsOwn`, `HeadersOfTheGateway`, from one invariant
  (`PolicyInv`) that says what the last answer is an answer to. Each check that holds gives one
  conjunct of the entitlement, and `ResolvedByName` turns the tenant that was looked up into the
  entry of the file; the converse goes through the first check that fails, which takes every
  check before it as passed.
* `StartupProofs`: four theorems from one invariant, `StartInv`, which says for each stage what
  the steps before it have left (`Judged`, `Early`, `Built`), among others that the registry is
  that of `loaded`; and `StartTypeCorrect`.

### Only model-checked

`EventuallyWritten`, `EventuallyComplete`, `EventuallyServes`: liveness under fairness is beyond
the prover. The four properties that are violated are refuted by TLC; `TokensBounded`,
`RequeuedIsWritten` and `FlushesOnShutdown` are proved under the conditions named above.

## 5. Not modelled

* The heartbeat script: no code calls it. The branch of the finish script for an empty id:
  `main.py` always has one. Retry-After of the Redis scripts. A Redis that restarts, which
  docs/20:30 leaves open. Request ids that repeat with Redis.
* A script that is still under way when its client gave up runs before the client notices, or
  never; it does not run later.
* HTTP, TLS, JSON; the schemas of the values inside a body (one flag) and the text of a
  registry entry; signatures and times of tokens (one flag); text formats of logs and metrics.
  The JSON of Prometheus metrics and the counters have no part in a decision.
* The text of a request that is counted (`metering.py:172-258`) and the count: the quota modules
  take the estimate as an input, and `GatewayRequests` that it can raise.
* `adapter_artifact_verifier.py`, which nothing calls.
* How long a blocking call holds the event loop: a JWKS fetch, Redis.
* Which URLs look private (`security_posture.py:79-107`, a list of markers found anywhere in the
  URL): the setting says it.
* Unknown fields of a registry entry: `TenantLimits` and `ModelPolicy`, unlike their neighbours,
  drop them, so a limit whose name is misspelt is no limit.
* The ledger without the table stores a partition of a batch twice when a later one fails; nothing
  in the repository promises otherwise.
* Scripts and infrastructure; of the manifests, the settings they name.

## 6. Plan

Done: the quota (promise, enforcer, proofs), Redis, the ledger, the handler, registry,
authentication and policy, the key cache, start-up, and the proofs of what the runs check of
safety. What would come next:

1. That `UpstreamBounded` is the share of one process of what Redis bounds for all:
   `GatewayRequests` composed with `RedisQuota`.
2. `close()` while requests are in flight: `BillingLedger` composed with `GatewayRequests`.
3. A Redis that restarts and forgets its scripts.
