------------------------- MODULE MCRedisDriverPool --------------------------
(* A small instance of RedisDriverPool for TLC.                            *)
EXTENDS RedisDriverPool, TLC

Symmetry == Permutations(Drivers)
=============================================================================
