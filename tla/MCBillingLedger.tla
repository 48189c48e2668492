-------------------------- MODULE MCBillingLedger --------------------------
(***************************************************************************)
(* Small instances of BillingLedger.  Request ids and partitions are       *)
(* interchangeable in the runs that check safety only.                     *)
(***************************************************************************)
EXTENDS BillingLedger, TLC

CONSTANTS q1, q2, q3, p1, p2

Symmetry == Permutations(RequestIds) \union Permutations(Partitions)

\* A file whose appends fail before, in the middle of or after a batch; a table that
\* is configured but not used; a queue as long as a batch; an LRU that holds every id.
Local3 == [aws |-> FALSE, table |-> TRUE, queueMax |-> 2, batchMax |-> 2, lruMax |-> 3,
           torn |-> TRUE, closes |-> TRUE, ids |-> {q1, q2, q3}, parts |-> {p1},
           maxAppends |-> 4, maxFailures |-> 2, maxRestarts |-> 0]

\* S3 and DynamoDB: calls that fail before or after they are carried out, a
\* process that is replaced, an LRU that forgets, two partitions.
Aws2 == [aws |-> TRUE, table |-> TRUE, queueMax |-> 2, batchMax |-> 2, lruMax |-> 1,
         torn |-> FALSE, closes |-> TRUE, ids |-> {q1, q2}, parts |-> {p1, p2},
         maxAppends |-> 3, maxFailures |-> 2, maxRestarts |-> 1]

\* S3 alone, where nothing keeps a record from being stored twice.
Bucket2 == [Aws2 EXCEPT !.table = FALSE, !.lruMax = 2, !.maxAppends = 2, !.maxRestarts = 0]

FileAndAws == {Local3, Aws2, Bucket2}

\* One call that fails and a queue that never fills up.
Roomy == {[Aws2 EXCEPT !.queueMax = 3, !.lruMax = 2, !.closes = FALSE, !.parts = {p1},
                       !.maxAppends = 2, !.maxFailures = 1, !.maxRestarts = 0]}

\* More records queued than one batch takes, and no call that fails.
Backlog == {[Local3 EXCEPT !.queueMax = 3, !.batchMax = 1, !.torn = FALSE, !.maxFailures = 0]}
============================================================================
