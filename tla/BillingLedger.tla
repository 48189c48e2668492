---------------------------- MODULE BillingLedger ----------------------------
(***************************************************************************)
(* BillingLedger (billing_ledger.py:72-331): a bounded queue between the   *)
(* event loop, which appends, and the worker thread, which takes batches   *)
(* and writes them to a local JSONL file or to S3, claiming each request   *)
(* id in a DynamoDB table first.  A batch that cannot be written goes back *)
(* to the queue.  close() stops the worker and flushes once itself.        *)
(*                                                                         *)
(* append runs on the event loop without an await, so it is one action.    *)
(* The worker and close() run beside it: every call on the queue and every *)
(* remote call is an action of its own.                                    *)
(***************************************************************************)
EXTENDS Integers, Sequences, FiniteSets, SequencesExt

CONSTANTS
  RequestIds,    \* the request ids of the calls that are billed
  Partitions,    \* the (tenant, hour) prefixes of S3 objects
  Deployments    \* the ledgers and surroundings to choose from, see Deployment

\* What the constructor is given, and what can happen around the ledger.
Deployment ==
  [aws: BOOLEAN,          \* aws_native_reference mode, or else ledger_required
   table: BOOLEAN,        \* is aws_dynamodb_table configured?  It is used in the former mode.
   queueMax: Nat \ {0},   \* queue_max_records
   batchMax: Nat \ {0},   \* batch_max_records
   lruMax: Nat \ {0},     \* lru_max_request_ids
   torn: BOOLEAN,         \* can a failing append to the file leave part of the batch?
   closes: BOOLEAN,       \* may the gateway shut down?
   ids: SUBSET RequestIds, parts: SUBSET Partitions,   \* of the calls it bills
   maxAppends: Nat,       \* bound on the calls of append
   maxFailures: Nat,      \* bound on the calls to file, S3 or table that fail
   maxRestarts: Nat]      \* bound on the times the process is replaced

ASSUME LedgerAssumption == \A d \in Deployments : d \in Deployment

\* The two threads that can run _flush_batch.
worker == "worker"
closer == "close"
Flushers == {worker, closer}

VARIABLES
  ledger,    \* the deployment: what the ledger was constructed with
  queue,     \* _queue
  seen,      \* _seen_request_ids, least recently used first
  stop,      \* _stop_event
  pc,        \* where each flusher is
  batch,     \* the entries each flusher holds
  todo,      \* _flush_s3_batch: where in its batch the groups to come are,
  group,     \* the entries of the current group it has not claimed yet,
  claimed,   \* and those of it that it claimed
  table,     \* the DynamoDB items: request id -> status
  written,   \* how many lines of a request id the file or bucket holds
  accepted,  \* history: ids append put on the queue of this process
  dropped,   \* history: ids a requeue found no room for
  appends, failures, restarts   \* what the bounds count

memory == <<queue, seen, stop, pc, batch, todo, group, claimed>>
plan == <<todo, group, claimed>>
sink == <<table, written>>
history == <<accepted, dropped>>
counters == <<appends, failures, restarts>>
vars == <<ledger, memory, sink, history, counters>>

Entry == [id: RequestIds, part: Partitions]
Ids(entries) == {entries[i].id : i \in DOMAIN entries}

Init == /\ ledger \in Deployments
        /\ queue = <<>> /\ seen = <<>> /\ stop = FALSE
        /\ pc = [f \in Flushers |-> IF f = worker THEN "loop" ELSE "open"]
        /\ batch = [f \in Flushers |-> <<>>]
        /\ todo = [f \in Flushers |-> {}] /\ group = [f \in Flushers |-> {}]
        /\ claimed = [f \in Flushers |-> {}]
        /\ table = [id \in RequestIds |-> "absent"]
        /\ written = [id \in RequestIds |-> 0]
        /\ accepted = {} /\ dropped = {}
        /\ appends = 0 /\ failures = 0 /\ restarts = 0

----------------------------------------------------------------------------
\* _BoundedLRUSet.add_if_absent
MoveToEnd(s, id) == Append(RemoveFirst(s, id), id)
\* Mutant of Evict: the set grows without bound.
EvictNever(s) == s
Evict(s) == IF Len(s) > ledger.lruMax THEN Tail(s) ELSE s

\* append, for an id it has seen, one it queues, and one that finds the queue
\* full: the id is taken back, what it evicted is not.
AppendDuplicate(id) ==
  /\ id \in ToSet(seen)
  /\ seen' = MoveToEnd(seen, id)
  /\ UNCHANGED <<queue, accepted>>

AppendQueued(id, part) ==
  /\ id \notin ToSet(seen)
  /\ Len(queue) < ledger.queueMax
  /\ seen' = Evict(Append(seen, id))
  /\ queue' = Append(queue, [id |-> id, part |-> part])
  /\ accepted' = accepted \union {id}

\* Mutant of AppendRejected: the id of the rejected entry stays seen.
AppendRejectedSeen(id) ==
  /\ id \notin ToSet(seen)
  /\ Len(queue) >= ledger.queueMax
  /\ seen' = Evict(Append(seen, id))
  /\ UNCHANGED <<queue, accepted>>

AppendRejected(id) ==
  /\ id \notin ToSet(seen)
  /\ Len(queue) >= ledger.queueMax
  /\ seen' = RemoveFirst(Evict(Append(seen, id)), id)
  /\ UNCHANGED <<queue, accepted>>

Bill(id, part) ==
  /\ pc[closer] = "open"     \* the lifespan closes after the last request
  /\ appends < ledger.maxAppends
  /\ appends' = appends + 1
  /\ AppendDuplicate(id) \/ AppendQueued(id, part) \/ AppendRejected(id)
  /\ UNCHANGED <<ledger, stop, pc, batch, plan, sink, dropped, failures, restarts>>

----------------------------------------------------------------------------
\* A flusher moves on; it leaves the sink, the history and the bounds alone.
Goto(f, label) == pc' = [pc EXCEPT ![f] = label]
After(f) == Goto(f, IF f = worker THEN "loop" ELSE "closed")
Local == UNCHANGED <<ledger, sink, history, counters>>

\* while not self._stop_event.is_set()
WorkerLoop ==
  /\ pc[worker] = "loop"
  /\ Goto(worker, IF stop THEN "done" ELSE "waiting")
  /\ UNCHANGED <<queue, seen, stop, batch, plan>> /\ Local

\* get_nowait(), or get(timeout) that finds an item
Take(f) == /\ queue # <<>>
           /\ batch' = [batch EXCEPT ![f] = Append(@, Head(queue))]
           /\ queue' = Tail(queue)
           /\ UNCHANGED <<seen, stop, plan>>

WorkerGet == /\ pc[worker] = "waiting"
             /\ Take(worker) /\ Goto(worker, "filling") /\ Local

WorkerTimeout == /\ pc[worker] = "waiting"
                 /\ queue = <<>>
                 /\ Goto(worker, "loop")
                 /\ UNCHANGED <<queue, seen, stop, batch, plan>> /\ Local

Fill(f) == /\ pc[f] = "filling"
           /\ Len(batch[f]) < ledger.batchMax
           /\ Take(f) /\ UNCHANGED pc /\ Local

\* The batch is full or the queue empty: _flush_batch begins, if there is a batch.
StartFlush(f) ==
  /\ pc[f] = "filling"
  /\ Len(batch[f]) = ledger.batchMax \/ queue = <<>>
  /\ IF batch[f] = <<>> THEN After(f) ELSE Goto(f, IF ledger.aws THEN "claim" ELSE "write")
  /\ todo' = [todo EXCEPT ![f] = IF ledger.aws THEN DOMAIN batch[f] ELSE {}]
  /\ UNCHANGED <<queue, seen, stop, batch, group, claimed>> /\ Local

\* The end of _flush_batch when every call succeeded.
Forget(f) == /\ batch' = [batch EXCEPT ![f] = <<>>]
             /\ After(f)

\* The entries of the batch at these places are written.
Write(f, places) ==
  written' = [id \in RequestIds |-> written[id] + Cardinality({i \in places : batch[f][i].id = id})]

DropPlan(f) == /\ todo' = [todo EXCEPT ![f] = {}]
               /\ group' = [group EXCEPT ![f] = {}]
               /\ claimed' = [claimed EXCEPT ![f] = {}]

\* Mutant of Fail: the failed batch is logged and forgotten.
FailForgets(f) == /\ failures < ledger.maxFailures
                  /\ failures' = failures + 1
                  /\ Forget(f)
                  /\ DropPlan(f)

\* A call that raises sends the flusher to the except clause.
Fail(f) == /\ failures < ledger.maxFailures
           /\ failures' = failures + 1
           /\ Goto(f, "requeue")
           /\ DropPlan(f)
           /\ UNCHANGED batch

----------------------------------------------------------------------------
\* _flush_local_jsonl, under the write lock.
WriteFile(f) ==
  /\ pc[f] = "write"
  /\ \/ /\ Write(f, DOMAIN batch[f])
        /\ Forget(f)
        /\ UNCHANGED <<plan, failures>>
     \/ /\ Fail(f)
        /\ \E n \in 0 .. IF ledger.torn THEN Len(batch[f]) ELSE 0 : Write(f, 1 .. n)
  /\ UNCHANGED <<ledger, queue, seen, stop, table, history, appends, restarts>>

\* Mutant of NextGroup: only the first partition is written.
NextGroupOnly(f) ==
  /\ pc[f] = "claim" /\ group[f] = {} /\ claimed[f] = {} /\ todo[f] # {}
  /\ group' = [group EXCEPT ![f] =
                 {i \in todo[f] : batch[f][i].part = batch[f][Min(todo[f])].part}]
  /\ todo' = [todo EXCEPT ![f] = {}]
  /\ UNCHANGED <<queue, seen, stop, pc, batch, claimed>> /\ Local

\* by_partition holds the entries in the order of the batch, and the partitions in
\* the order they first appear in it.
NextGroup(f) ==
  /\ pc[f] = "claim" /\ group[f] = {} /\ claimed[f] = {} /\ todo[f] # {}
  /\ group' = [group EXCEPT ![f] =
                 {i \in todo[f] : batch[f][i].part = batch[f][Min(todo[f])].part}]
  /\ todo' = [todo EXCEPT ![f] = @ \ group'[f]]
  /\ UNCHANGED <<queue, seen, stop, pc, batch, claimed>> /\ Local

\* attribute_not_exists(request_id)
\* Mutant of Unclaimed: an item that is not complete can be claimed again.
UnclaimedOrWriting(id) == table[id] # "complete"
Unclaimed(id) == table[id] = "absent"

\* _claim_aws_request_id for the next entry of the group: the conditional put
\* succeeds, is refused, or raises with or without having been carried out.
Claim(f) ==
  LET i == Min(group[f])
      id == batch[f][i].id
      free == Unclaimed(id)
      taken == [table EXCEPT ![id] = "writing"]
  IN /\ pc[f] = "claim" /\ group[f] # {}
     /\ \/ /\ group' = [group EXCEPT ![f] = @ \ {i}]
           /\ IF free \/ ~ ledger.table
              THEN claimed' = [claimed EXCEPT ![f] = @ \union {i}]
              ELSE UNCHANGED claimed
           /\ table' = IF free /\ ledger.table THEN taken ELSE table
           /\ UNCHANGED <<pc, batch, todo, failures>>
        \/ /\ ledger.table
           /\ Fail(f)
           /\ table' \in {table, IF free THEN taken ELSE table}
     /\ UNCHANGED <<ledger, queue, seen, stop, written, history, appends, restarts>>

\* Mutant of EndClaims: the items are marked complete before the object is put.
EndClaimsUnwritten(f) ==
  /\ pc[f] = "claim" /\ group[f] = {} /\ claimed[f] # {}
  /\ Goto(f, "mark")
  /\ UNCHANGED <<queue, seen, stop, batch, plan>> /\ Local

\* The group is claimed; with nothing claimed it is skipped.
EndClaims(f) ==
  /\ pc[f] = "claim" /\ group[f] = {} /\ claimed[f] # {}
  /\ Goto(f, "put")
  /\ UNCHANGED <<queue, seen, stop, batch, plan>> /\ Local

\* put_object, which can raise after the object was stored.
PutObject(f) ==
  /\ pc[f] = "put"
  /\ \/ /\ Write(f, claimed[f])
        /\ Goto(f, "mark")
        /\ UNCHANGED <<batch, plan, failures>>
     \/ /\ Fail(f)
        /\ Write(f, claimed[f]) \/ UNCHANGED written
  /\ UNCHANGED <<ledger, queue, seen, stop, table, history, appends, restarts>>

\* _mark_aws_request_complete for the next claimed entry
Mark(f) ==
  LET i == Min(claimed[f])
      complete == IF ledger.table THEN [table EXCEPT ![batch[f][i].id] = "complete"] ELSE table
  IN /\ pc[f] = "mark" /\ claimed[f] # {}
     /\ \/ /\ claimed' = [claimed EXCEPT ![f] = @ \ {i}]
           /\ table' = complete
           /\ UNCHANGED <<pc, batch, todo, group, failures>>
        \/ /\ ledger.table
           /\ Fail(f)
           /\ table' \in {table, complete}
     /\ UNCHANGED <<ledger, queue, seen, stop, written, history, appends, restarts>>

EndMarks(f) ==
  /\ pc[f] = "mark" /\ claimed[f] = {}
  /\ Goto(f, "claim")
  /\ UNCHANGED <<queue, seen, stop, batch, plan>> /\ Local

EndGroups(f) ==
  /\ pc[f] = "claim" /\ todo[f] = {} /\ group[f] = {} /\ claimed[f] = {}
  /\ Forget(f)
  /\ UNCHANGED <<queue, seen, stop, plan>> /\ Local

----------------------------------------------------------------------------
\* The except clause puts the batch back, entry by entry; a full queue ends the
\* loop, and the entries behind the one it met are not put back either.
Requeue(f) ==
  /\ pc[f] = "requeue" /\ batch[f] # <<>>
  /\ Len(queue) < ledger.queueMax
  /\ queue' = Append(queue, Head(batch[f]))
  /\ batch' = [batch EXCEPT ![f] = Tail(@)]
  /\ UNCHANGED <<seen, stop, pc, plan>> /\ Local

RequeueFull(f) ==
  /\ pc[f] = "requeue" /\ batch[f] # <<>>
  /\ Len(queue) >= ledger.queueMax
  /\ dropped' = dropped \union Ids(batch[f])
  /\ Forget(f)
  /\ UNCHANGED <<ledger, queue, seen, stop, plan, sink, accepted, counters>>

EndRequeue(f) ==
  /\ pc[f] = "requeue" /\ batch[f] = <<>>
  /\ After(f)
  /\ UNCHANGED <<queue, seen, stop, batch, plan>> /\ Local

Flush(f) == \/ Fill(f) \/ StartFlush(f) \/ WriteFile(f)
            \/ NextGroup(f) \/ Claim(f) \/ EndClaims(f) \/ PutObject(f) \/ Mark(f) \/ EndMarks(f) \/ EndGroups(f)
            \/ Requeue(f) \/ RequeueFull(f) \/ EndRequeue(f)

Worker == WorkerLoop \/ WorkerGet \/ WorkerTimeout \/ Flush(worker)

\* close(): set the stop event, join the worker for ten seconds, flush().
Close == /\ ledger.closes
         /\ pc[closer] = "open"
         /\ stop' = TRUE
         /\ Goto(closer, "joining")
         /\ UNCHANGED <<queue, seen, batch, plan>> /\ Local

EndJoin(timedOut) ==
  /\ pc[closer] = "joining"
  /\ timedOut \/ pc[worker] = "done"
  /\ Goto(closer, "filling")
  /\ UNCHANGED <<queue, seen, stop, batch, plan>> /\ Local

Closer == EndJoin(FALSE) \/ EndJoin(TRUE) \/ Flush(closer)

\* The process dies, or is replaced after close(): what it held is gone, the
\* file, the bucket and the table are not.
Restart ==
  /\ restarts < ledger.maxRestarts
  /\ restarts' = restarts + 1
  /\ queue' = <<>> /\ seen' = <<>> /\ stop' = FALSE
  /\ pc' = [f \in Flushers |-> IF f = worker THEN "loop" ELSE "open"]
  /\ batch' = [f \in Flushers |-> <<>>]
  /\ todo' = [f \in Flushers |-> {}] /\ group' = [f \in Flushers |-> {}]
  /\ claimed' = [f \in Flushers |-> {}]
  /\ accepted' = {} /\ dropped' = {}
  /\ UNCHANGED <<ledger, sink, appends, failures>>

Next == \/ \E id \in ledger.ids, part \in ledger.parts : Bill(id, part)
        \/ Worker
        \/ Close
        \/ Closer
        \/ Restart

Spec == Init /\ [][Next]_vars

\* The worker thread and close() are scheduled, and the event loop is not
\* obliged to anything.  A failing call is a step of the thread like any other.
FairSpec == Spec /\ WF_vars(Worker) /\ WF_vars(Closer)

----------------------------------------------------------------------------
Labels == {"loop", "waiting", "filling", "write", "claim", "put", "mark", "requeue",
           "done", "open", "joining", "closed"}

TypeOK ==
  /\ ledger \in Deployments
  /\ queue \in Seq(Entry) /\ Len(queue) <= ledger.queueMax
  /\ seen \in Seq(RequestIds) /\ Len(seen) <= ledger.lruMax
  /\ stop \in BOOLEAN
  /\ pc \in [Flushers -> Labels]
  /\ batch \in [Flushers -> Seq(Entry)] /\ {todo, group, claimed} \subseteq [Flushers -> SUBSET Nat]
  /\ \A f \in Flushers : /\ Len(batch[f]) <= ledger.batchMax
                          /\ {todo[f], group[f], claimed[f]} \subseteq SUBSET DOMAIN batch[f]
  /\ table \in [RequestIds -> {"absent", "writing", "complete"}]
  /\ written \in [RequestIds -> Nat]
  /\ {accepted, dropped} \subseteq SUBSET RequestIds
  /\ {appends, failures, restarts} \subseteq Nat

Held == Ids(queue) \union UNION {Ids(batch[f]) : f \in Flushers}
Written == {id \in RequestIds : written[id] > 0}

\* The claim of a record outlives an attempt to store it that failed.
ClaimedUnwritten == {id \in RequestIds : table[id] = "writing"} \ Written

ClaimsInTable == ledger.aws /\ ledger.table

\* A record append accepted is queued, in the hands of a flusher or written,
\* unless a requeue found the queue full or an earlier attempt left its claim in
\* the table (_flush_batch puts back what could not be written).
Kept == accepted \subseteq Held \union Written \union dropped \union ClaimedUnwritten

\* What the worker, close(), their batches and the calls of S3 and DynamoDB do together
\* is what the promise allows each of its steps, the claims of the table included.
Promise == INSTANCE BillingPromise
  WITH once <- ClaimsInTable,
       disturbed <- failures + restarts > 0,
       pending <- Held,
       claims <- {id \in RequestIds : table[id] # "absent"},
       stored <- written,
       lost <- dropped
KeepsPromise == Promise!Spec

\* With the table no request is billed twice, whatever fails and restarts and
\* whatever the LRU forgets.
AtMostOnce == ClaimsInTable => \A id \in RequestIds : written[id] <= 1

\* An id append suppresses as a duplicate was accepted before, so a call that was
\* told billing_queue_full can be sent again under its id and is billed.
DuplicateMeansAccepted == ToSet(seen) \subseteq accepted

\* The table says complete only of a record that is in the bucket.
CompleteMeansWritten == \A id \in RequestIds : table[id] = "complete" => id \in Written

\* Without the table what is accepted is written in the end, though calls fail now
\* and then, unless a requeue found the queue full, the gateway is shut down or
\* dies: again and again there is nothing left to write.
EventuallyWritten ==
  []<>(\/ accepted \subseteq Written \union dropped
       \/ ClaimsInTable \/ stop \/ restarts > 0)

\* With the table it is also marked complete, whatever partitions its batch is
\* spread over, if no call fails and the process goes on.
EventuallyComplete ==
  []<>(\/ \A id \in accepted : table[id] = "complete"
       \/ ~ ClaimsInTable \/ stop \/ failures + restarts > 0)

\* billing_ledger.py:236-238, "Requeue best-effort without unbounded blocking": a
\* batch that could not be written is put back and written later, and an accepted
\* record is lost only to a full queue.
RequeuedIsWritten == accepted \subseteq Held \union Written \union dropped

\* docs/20-pr10-core-hardening.md:82, "Flushes on shutdown.": after a close() that
\* waited for the worker, and with no call that failed, every record is written.
FlushesOnShutdown ==
  pc[closer] = "closed" /\ pc[worker] = "done" /\ failures = 0 => accepted \subseteq Written
============================================================================
