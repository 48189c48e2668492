---------------------------- MODULE MCRedisQuota ----------------------------
(***************************************************************************)
(* Small instances of RedisQuota, with the clocks of the gateways as       *)
(* functions, which a configuration cannot write.                          *)
(***************************************************************************)
EXTENDS RedisQuota

CONSTANTS g1, g2

InStep == [g \in Gateways |-> 0]          \* all clocks agree
OneAhead == [g \in Gateways |-> IF g = g2 THEN 1 ELSE 0]
=============================================================================
