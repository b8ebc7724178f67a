------------------------- MODULE MCRedisKillSwitch -------------------------
(* The model values the configurations of RedisKillSwitch are built from.  *)
EXTENDS RedisKillSwitch

CONSTANTS w1, w2
=============================================================================
