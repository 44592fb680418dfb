------------------------- MODULE MCRedisTransaction -------------------------
(* Small instances of RedisTransaction for TLC. *)
EXTENDS RedisTransaction, TLC

SessionsAndKeys == Permutations(Sessions) \cup Permutations(Keys)
=============================================================================
