---------------------------- MODULE RedisKeyspace ----------------------------
(***************************************************************************)
(* The keyspace events of a command (RedisKeyspace::pub_keyspace_events):  *)
(* which subjects it publishes, in which order.  A subject is a pair of    *)
(* its kind, the ten characters before the @, and a name; the text of a    *)
(* subject and the database number in it are left out.                     *)
(***************************************************************************)
EXTENDS Naturals, Sequences, SequencesExt

\* the kinds of subjects that turn an event class on
Kinds == {"keyspace", "keyevent", "listblkd", "zsetblkd", "strmblkd", "monitor"}

\* the event of a command that updates its keys in a regular way
EventName ==
    [c \in {"set", "getset", "mset", "msetnx", "psetex", "setex", "setnx",
            "bitop"} |-> "set"]
 @@ [c \in {"incr", "decr", "incrby", "decrby"} |-> "incrby"]
 @@ [c \in {"lpush", "lpushx"} |-> "lpush"]
 @@ [c \in {"rpush", "rpushx"} |-> "rpush"]
 @@ [c \in {"lpop", "blpop"} |-> "lpop"]
 @@ [c \in {"rpop", "brpop"} |-> "rpop"]
 @@ [c \in {"hset", "hmset", "hsetnx"} |-> "hset"]
 @@ [c \in {"sadd", "smove"} |-> "sadd"]
 @@ [c \in {"zadd", "geoadd"} |-> "zadd"]
 @@ [c \in {"zpopmin", "bzpopmin"} |-> "zpopmin"]
 @@ [c \in {"zpopmax", "bzpopmax"} |-> "zpopmax"]
 @@ [c \in {"bitfield"} |-> "setbit"]
 @@ [c \in {"del", "expire", "setrange", "incrbyfloat", "append", "linsert",
            "lset", "ltrim", "hincrby", "hincrbyfloat", "hdel", "srem",
            "spop", "sinterstore", "sunionstore", "sdiffstore", "zincrby",
            "zrem", "zremrangebylex", "zremrangebyrank", "zremrangebyscore",
            "zinterstore", "zunionstore", "xadd", "xdel", "xtrim",
            "xsetid"} |-> c]

\* the events of the first and the second key of an irregular command
PairEvents ==
    [c \in {"rename"} |-> <<"rename_from", "rename_to">>]
 @@ [c \in {"rpoplpush", "brpoplpush"} |-> <<"rpop", "lpush">>]
 @@ [c \in {"xgroup-create", "xgroup-setid", "xgroup-destroy",
            "xgroup-delconsumer"} |-> <<c>>]

\* fwd_keyspace and fwd_keyevent of an event at key k, when the flags fl ask
\* for them
Forward(k, evt, fl) ==
    (IF "keyspace" \in fl THEN <<[subj |-> <<"keyspace", k>>, msg |-> evt]>> ELSE <<>>)
 \o (IF "keyevent" \in fl THEN <<[subj |-> <<"keyevent", evt>>, msg |-> k]>> ELSE <<>>)

\* a blocked command waits for the subject of its key
ForwardBlocked(k, evt, fl) ==
    FlattenSeq([i \in 1..3 |->
        LET blk == <<"listblkd", "zsetblkd", "strmblkd">>[i]
        IN  IF blk \in fl THEN <<[subj |-> <<blk, k>>, msg |-> evt]>> ELSE <<>>])

\* keys: a sequence of [key, fl]; the flags del, trim and expired are never
\* masked, the classes of events are masked by on, the classes that have a
\* subscriber
Masked(keys, on) ==
    [i \in DOMAIN keys |->
        [keys[i] EXCEPT !.fl = @ \cap (on \cup {"del", "trim", "expired"})]]

EachKey(keys, Op(_)) == FlattenSeq([i \in DOMAIN keys |-> Op(keys[i])])

ExpiredEvents(keys) ==
    EachKey(keys, LAMBDA x : IF "expired" \in x.fl THEN Forward(x.key, "expired", x.fl)
                             ELSE <<>>)

\* Mutant of RegularEvents: what the update caused comes first
RegularEventsLast(cmd, keys) ==
    EachKey(keys, LAMBDA x : IF "del" \in x.fl THEN Forward(x.key, "del", x.fl) ELSE <<>>)
    \o EachKey(keys, LAMBDA x : Forward(x.key, EventName[cmd], x.fl))

\* the event of a regular command, then what its update caused
RegularEvents(cmd, keys) ==
    LET evt == EventName[cmd]
        Caused(x) ==
            CASE "del" \in x.fl ->
                     IF cmd = "del" THEN <<>> ELSE Forward(x.key, "del", x.fl)
              [] "del" \notin x.fl /\ "trim" \in x.fl -> Forward(x.key, "xtrim", x.fl)
              [] OTHER -> <<>>
    IN  EachKey(keys, LAMBDA x : Forward(x.key, evt, x.fl) \o ForwardBlocked(x.key, evt, x.fl))
        \o EachKey(keys, Caused)

\* a del event follows that of the first key only, and no blocked command
\* is told
IrregularEvents(cmd, keys) ==
    LET evts == PairEvents[cmd]
        x    == keys[1]
    IN  Forward(x.key, evts[1], x.fl)
        \o (IF "del" \in x.fl THEN Forward(x.key, "del", x.fl) ELSE <<>>)
        \o (IF Len(evts) = 2 THEN Forward(keys[2].key, evts[2], keys[2].fl) ELSE <<>>)

\* a command that updates nothing has neither
PubKeyspaceEvents(cmd, keys0, on) ==
    LET keys == Masked(keys0, on)
    IN  ExpiredEvents(keys)
        \o (CASE cmd \in DOMAIN EventName  -> RegularEvents(cmd, keys)
              [] cmd \in DOMAIN PairEvents -> IrregularEvents(cmd, keys)
              [] OTHER -> <<>>)
        \o (IF "monitor" \in on THEN <<[subj |-> <<"monitor", "peer">>, msg |-> cmd]>> ELSE <<>>)
=============================================================================
