------------------------- MODULE MCGatewayRequests -------------------------
(***************************************************************************)
(* Small instances of GatewayRequests.                                     *)
(***************************************************************************)
EXTENDS GatewayRequests, TLC

\* Gateways whose posture is clear, with a quota, streaming allowed.
QuotaSettings == {s \in AllSettings : ~ s.blocked /\ s.quota = "in_memory" /\ s.allowStreaming}

Symmetry == Permutations(Requests) \union Permutations(RequestIds) \union Permutations(Users)
=============================================================================
