----------------------------- MODULE MCRedisQueue -----------------------------
(***************************************************************************)
(* Instances of RedisQueue for TLC: two agents, up to three items.         *)
(***************************************************************************)
EXTENDS RedisQueue

CONSTANTS i1, i2, i3, w1, w2
=============================================================================
