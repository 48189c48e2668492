-------------------------- MODULE MCInMemoryQuota --------------------------
(***************************************************************************)
(* Small instances of InMemoryQuota.  The enforcer's limits and durations  *)
(* are given in the configurations; users and ids are interchangeable.     *)
(***************************************************************************)
EXTENDS InMemoryQuota, TLC

Symmetry == Permutations(Users) \union Permutations(RequestIds)
============================================================================
