------------------------- MODULE MCRedisConnection -------------------------
(* Instances of RedisConnection for TLC.                                   *)
EXTENDS RedisConnection

AllMethods == Method
=============================================================================
