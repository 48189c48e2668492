------------------------ MODULE MCSlidingWindowQuota ------------------------
(***************************************************************************)
(* A small instance of SlidingWindowQuota.                                 *)
(***************************************************************************)
EXTENDS SlidingWindowQuota, TLC

Symmetry == Permutations(Users) \union Permutations(RequestIds)
============================================================================
