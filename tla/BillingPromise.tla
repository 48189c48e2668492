--------------------------- MODULE BillingPromise ---------------------------
(***************************************************************************)
(* What the billing ledger promises of each request id, whatever queue,    *)
(* batches, threads and partitions it uses: a record that append accepted  *)
(* is pending until it is stored.  Under a table of claims a record is     *)
(* stored once and only after it was claimed, and then a claim that is     *)
(* left behind can keep it from being stored.                              *)
(***************************************************************************)
EXTENDS Naturals

CONSTANT RequestIds

VARIABLES
  once,       \* are request ids claimed in a table?
  disturbed,  \* did a call fail, or was the process replaced?
  accepted,   \* the ids append put on the queue of this process
  pending,    \* those in its memory
  claims,     \* the ids that were claimed
  stored,     \* how many records of an id there are
  lost        \* the ids that were given up for want of room

vars == <<once, disturbed, accepted, pending, claims, stored, lost>>

Stored == {id \in RequestIds : stored[id] > 0}
\* What keeps a claim for ever: nobody else may store it.
Abandoned == IF disturbed THEN claims ELSE {}

Init == /\ once \in BOOLEAN /\ disturbed = FALSE
        /\ accepted = {} /\ pending = {} /\ claims = {} /\ lost = {}
        /\ stored = [id \in RequestIds |-> 0]

Accept(id) == /\ accepted' = accepted \union {id}
              /\ pending' = pending \union {id}
              /\ UNCHANGED <<once, disturbed, claims, stored, lost>>

\* A call does what it should, and may be reported as failed all the same.
MayFail == disturbed' \in {disturbed, TRUE}

Leave(settled) == pending' \subseteq pending /\ pending \ pending' \subseteq settled

Claim(id) == /\ once /\ id \in pending \ claims
             /\ claims' = claims \union {id}
             /\ MayFail
             /\ UNCHANGED <<once, accepted, pending, stored, lost>>

Store == /\ stored' \in [RequestIds -> Nat]
         /\ \A id \in RequestIds :
              /\ stored'[id] >= stored[id]
              /\ stored'[id] # stored[id] =>
                   /\ id \in pending
                   /\ once => id \in claims /\ stored[id] = 0 /\ stored'[id] = 1
         /\ Leave(Stored')
         /\ MayFail
         /\ UNCHANGED <<once, accepted, claims, lost>>

\* A batch is done with: its records are stored, by this batch or by others.
Release == /\ Leave(Stored \union Abandoned)
           /\ UNCHANGED <<once, disturbed, accepted, claims, stored, lost>>

\* A batch that failed does not find room in the queue again.
GiveUp == /\ disturbed
          /\ lost \subseteq lost' /\ lost' \subseteq lost \union pending
          /\ Leave(lost')
          /\ UNCHANGED <<once, disturbed, accepted, claims, stored>>

Fail == /\ disturbed' = TRUE
        /\ UNCHANGED <<once, accepted, pending, claims, stored, lost>>

\* The process is replaced: what it had accepted and not stored is gone.
Restart == /\ disturbed' = TRUE
           /\ accepted' = {} /\ pending' = {} /\ lost' = {}
           /\ UNCHANGED <<once, claims, stored>>

Next == \/ \E id \in RequestIds : Accept(id) \/ Claim(id)
        \/ Store \/ Release \/ GiveUp \/ Fail \/ Restart

Spec == Init /\ [][Next]_vars

----------------------------------------------------------------------------
\* A ledger without failures loses nothing; one without a table loses records only to a
\* full queue; one with a table also to claims that a failure left behind.
Accounted ==
  /\ stored \in [RequestIds -> Nat]
  /\ accepted \subseteq pending \union Stored \union lost \union Abandoned
  /\ ~ disturbed => lost = {}
  /\ ~ once => claims = {}
============================================================================
