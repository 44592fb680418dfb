--------------------------- MODULE MCRedisBlocking ---------------------------
(* Small instances of RedisBlocking for TLC. *)
EXTENDS RedisBlocking, TLC

CONSTANTS c1, c2, c3, c4, k1, k2, k3, b1, b2, b3

\* three connections, one of which waits for the keys of the other two
CrowdConn == b1 :> c1 @@ b2 :> c2 @@ b3 :> c3
CrowdKeys == b1 :> <<k1, k2>> @@ b2 :> <<k1>> @@ b3 :> <<k2>>

\* two connections that wait for the same keys, a third one that has no rival
RivalKeys == b1 :> <<k1, k2>> @@ b2 :> <<k2, k1>> @@ b3 :> <<k3>>

\* one command with two keys
OneConn   == b1 :> c1
OneKeys   == b1 :> <<k1, k2>>

\* two commands of one connection on different keys
PairConn  == b1 :> c1 @@ b2 :> c1
PairKeys  == b1 :> <<k1>> @@ b2 :> <<k2>>
=============================================================================
