--------------------------- MODULE MCRedisCommands ---------------------------
(* Small instances of RedisCommands for TLC. *)
EXTENDS RedisCommands

CONSTANTS s1, s2, k1, k2, k3

LOCAL INSTANCE TLC

\* a call: its category, its command, its keys and its arguments
Call(catg, cmd, keys, args) == [catg |-> catg, cmd |-> cmd, keys |-> keys] @@ args
None == <<>>

\* a menu run by two sessions or by one
Menu(ss, entries, len, ticks, calls) ==
    [sessions |-> ss, db |-> [k \in Keys |-> IF k \in DOMAIN entries THEN entries[k] ELSE NoEntry],
     len |-> len, ticks |-> ticks, buffered |-> {FALSE}, calls |-> calls]

Push1(k, end, x) == Call("list", "push", <<k>>, [end |-> end, vals |-> <<x>>, exists |-> FALSE])
L3 == Entry(List(<<"a", "b", "a">>), 0)

Lists == Menu({s1}, k1 :> L3 @@ k2 :> Entry(Str(<<49>>), 0), 2, FALSE,
    << Push1(k1, "left", "c"), Push1(k3, "right", "a"), Push1(k2, "left", "a"),
       Call("list", "push", <<k3>>, [end |-> "left", vals |-> <<"a", "b">>, exists |-> TRUE]),
       Call("list", "lindex", <<k1>>, [at |-> -1]),
       Call("list", "llen", <<k1>>, None),
       Call("list", "lrange", <<k1>>, [from |-> -2, to |-> 5]),
       Call("list", "linsert", <<k1>>, [after |-> TRUE, piv |-> "b", val |-> "x"]),
       Call("list", "linsert", <<k3>>, [after |-> FALSE, piv |-> "b", val |-> "x"]),
       Call("list", "lset", <<k1>>, [at |-> -1, val |-> "y"]),
       Call("list", "lset", <<k3>>, [at |-> 0, val |-> "y"]),
       Call("list", "pop", <<k1>>, [end |-> "left"]),
       Call("list", "pop", <<k1>>, [end |-> "right"]),
       Call("list", "bpop", <<k3, k1>>, [end |-> "left"]),
       Call("list", "lrem", <<k1>>, [n |-> 0, val |-> "a"]),
       Call("list", "lrem", <<k1>>, [n |-> -1, val |-> "a"]),
       Call("list", "lrem", <<k1>>, [n |-> 1, val |-> "b"]),
       Call("list", "ltrim", <<k1>>, [from |-> 0, to |-> -2]),
       Call("list", "ltrim", <<k1>>, [from |-> 2, to |-> 1]),
       Call("list", "rpoplpush", <<k1, k3>>, [none |-> "abort_nil"]),
       Call("list", "rpoplpush", <<k1, k1>>, [none |-> "abort_nil"]),
       Call("list", "rpoplpush", <<k3, k1>>, [none |-> "blocked"]) >>)

H3 == Entry(Hash(<< <<"f", <<49>>>>, <<"g", <<120>>>>, <<"h", <<45, 49>>>> >>), 0)
HashRead(cmd, f)  == Call("hash", cmd, <<k1>>, [f |-> f])
HashWrite(cmd, k, args) == Call("hash", cmd, <<k>>, args)

Hashes == Menu({s1}, k1 :> H3 @@ k2 :> Entry(Str(<<49>>), 0), 2, FALSE,
    << HashRead("hget", "f"), HashRead("hget", "z"), HashRead("hexists", "g"),
       HashRead("hlen", "f"), HashRead("hstrlen", "h"),
       Call("hash", "hkeys", <<k1>>, None), Call("hash", "hvals", <<k1>>, None),
       Call("hash", "hgetall", <<k2>>, None),
       Call("hash", "hmget", <<k1>>, [fs |-> <<"g", "z">>]),
       Call("hash", "hscan", <<k1>>, [pos |-> 0, max |-> 1, pat |-> {"g", "h"}]),
       HashWrite("hset", k1, [pairs |-> << <<"f", <<50>>>>, <<"z", <<>>>>, <<"z", <<51>>>> >>]),
       HashWrite("hset", k2, [pairs |-> << <<"f", <<50>>>> >>]),
       HashWrite("hmset", k3, [pairs |-> << <<"f", <<50>>>>, <<"f", <<51>>>> >>]),
       HashWrite("hsetnx", k1, [f |-> "f", val |-> <<52>>]),
       HashWrite("hsetnx", k3, [f |-> "f", val |-> <<52>>]),
       HashWrite("happend", k1, [f |-> "g", vals |-> << <<48>>, <<49>> >>]),
       HashWrite("hincrby", k1, [f |-> "h", n |-> -9]),
       HashWrite("hincrby", k1, [f |-> "g", n |-> 2]),
       HashWrite("hdel", k1, [fs |-> <<"f", "h", "z">>]),
       HashWrite("hdel", k1, [fs |-> <<"g">>]) >>)

S3 == Entry(SetVal(<<"a", "b", "c">>), 0)
T2 == Entry(SetVal(<<"c", "d">>), 0)
SetOn(cmd, k, args) == Call("set", cmd, <<k>>, args)

Sets == Menu({s1}, k1 :> S3 @@ k2 :> T2, 2, FALSE,
    << SetOn("spop", k1, [n |-> 1]), SetOn("spop", k1, [n |-> 2]), SetOn("spop", k2, [n |-> 5]),
       SetOn("srandmember", k1, [n |-> 2]), SetOn("scard", k1, None),
       SetOn("sismember", k1, [m |-> "a"]), SetOn("smembers", k2, None),
       SetOn("sscan", k1, [pos |-> 1, max |-> 1, pat |-> {"a", "c"}]),
       SetOn("sadd", k1, [ms |-> <<"a", "x">>]), SetOn("sadd", k3, [ms |-> <<"a", "a">>]),
       SetOn("srem", k1, [ms |-> <<"a", "z">>]), SetOn("srem", k2, [ms |-> <<"c", "d">>]),
       Call("set", "sop", <<k1, k2>>, [op |-> "inter"]),
       Call("set", "sop", <<k1>>, [op |-> "diff"]) >>)

\* what two sessions do to the same sets between the keys of a command
SetPairs == Menu({s1, s2}, k1 :> S3 @@ k2 :> T2, 3, FALSE,
    << Call("set", "smove", <<k1, k2>>, [m |-> "a"]),
       Call("set", "smove", <<k2, k1>>, [m |-> "a"]),
       Call("set", "smove", <<k1, k1>>, [m |-> "a"]) >>)

SetStores == Menu({s1, s2}, k1 :> S3 @@ k2 :> T2, 2, FALSE,
    << Call("set", "sstore", <<k3, k1, k2>>, [op |-> "union"]),
       Call("set", "sstore", <<k1, k1, k2, k1>>, [op |-> "diff"]),
       Call("set", "sstore", <<k2, k1, k2>>, [op |-> "inter"]),
       Call("set", "sstore", <<k1, k3>>, [op |-> "inter"]),
       Call("set", "smove", <<k1, k2>>, [m |-> "a"]) >>)

Z3 == Entry(Val("zset", << <<1, 10>>, <<2, 20>>, <<3, 20>> >>), 0)
Z2 == Entry(Val("zset", << <<2, 5>>, <<4, 6>> >>), 0)
G2 == Entry(Val("geo", << <<2, 7>>, <<5, 9>> >>), 0)
At(n, incl) == [end |-> "at", at |-> n, incl |-> incl]
Low  == [end |-> "low", at |-> 0, incl |-> TRUE]
High == [end |-> "high", at |-> 0, incl |-> TRUE]
ZOn(cmd, k, args) == Call("zset", cmd, <<k>>, args)

ZSets == Menu({s1}, k1 :> Z3 @@ k2 :> G2, 2, FALSE,
    << ZOn("zcard", k1, None), ZOn("zscore", k1, [m |-> 2]), ZOn("zrank", k2, [m |-> 5]),
       ZOn("zrevrank", k1, [m |-> 9]),
       ZOn("zcount", k1, [how |-> "score", lo |-> At(10, FALSE), hi |-> At(20, TRUE)]),
       ZOn("zcount", k2, [how |-> "lex", lo |-> Low, hi |-> High]),
       ZOn("zadd", k1, [flags |-> {"ch"}, pairs |-> << <<1, 30>>, <<4, 15>>, <<2, 20>> >>]),
       ZOn("zadd", k1, [flags |-> {"nx"}, pairs |-> << <<1, 30>>, <<4, 15>> >>]),
       ZOn("zadd", k3, [flags |-> {"xx"}, pairs |-> << <<1, 30>> >>]),
       ZOn("zadd", k1, [flags |-> {"incr"}, pairs |-> << <<1, 15>>, <<4, 15>> >>]),
       ZOn("zadd", k2, [flags |-> {}, pairs |-> << <<1, 30>> >>]),
       ZOn("zrem", k1, [ms |-> <<1, 9>>]), ZOn("zrem", k2, [ms |-> <<2, 5>>]),
       ZOn("zrange", k1, [rev |-> TRUE, from |-> 0, to |-> -2]),
       ZOn("zrangeby", k1, [how |-> "score", rev |-> FALSE, first |-> Low, last |-> At(20, FALSE), off |-> 0, cnt |-> 1]),
       ZOn("zrangeby", k1, [how |-> "score", rev |-> TRUE, first |-> High, last |-> At(20, TRUE), off |-> 1, cnt |-> 0]),
       ZOn("zscan", k1, [pos |-> 2, max |-> 1, pat |-> {1, 3}]),
       ZOn("zpop", k1, [high |-> FALSE, cnt |-> 2]), ZOn("zpop", k1, [high |-> TRUE, cnt |-> 2]),
       ZOn("zpop", k2, [high |-> TRUE, cnt |-> 5]), ZOn("zpop", k3, [high |-> TRUE, cnt |-> 5]),
       Call("zset", "bzpop", <<k3, k1>>, [high |-> TRUE]),
       ZOn("zrembyrank", k1, [from |-> -2, to |-> -1]),
       ZOn("zremby", k1, [how |-> "score", lo |-> At(10, FALSE), hi |-> At(20, TRUE)]),
       ZOn("zrangeby", k1, [how |-> "lex", rev |-> FALSE, first |-> Low, last |-> High, off |-> -1, cnt |-> -1]),
       ZOn("zremby", k1, [how |-> "lex", lo |-> Low, hi |-> High]),
       ZOn("zremby", k1, [how |-> "lex", lo |-> Low, hi |-> At(2, TRUE)]),
       ZOn("zremby", k1, [how |-> "score", lo |-> At(20, TRUE), hi |-> At(5, TRUE)]) >>)

\* commands of sorted sets on keys of other types, and what comes after
ZMisreads == Menu({s1}, k1 :> L3 @@ k2 :> Entry(Str(<<49>>), 0), 3, FALSE,
    << ZOn("zadd", k1, [flags |-> {}, pairs |-> << <<1, 30>>, <<2, 30>> >>]),
       ZOn("zadd", k2, [flags |-> {"incr"}, pairs |-> << <<1, 30>> >>]),
       ZOn("zrem", k1, [ms |-> <<1>>]), ZOn("zrem", k2, [ms |-> <<1>>]),
       ZOn("zcard", k1, None), Push1(k1, "left", "c"),
       Call("string", "set", <<k1>>, [val |-> <<65>>, cond |-> "nx"]),
       Call("string", "get", <<k2>>, None),
       Call("set", "sadd", <<k2>>, [ms |-> <<"a">>]),
       Call("key", "type", <<k1>>, None), Call("key", "del", <<k1>>, None),
       Call("key", "rename", <<k1, k2>>, [st |-> "send_ok"]) >>)

Store(keys, op, agg, w) == Call("zset", "zstore", keys, [op |-> op, agg |-> agg, weights |-> w])

ZStores == Menu({s1, s2}, k1 :> Z3 @@ k2 :> Z2, 2, FALSE,
    << Store(<<k3, k1, k2>>, "union", "sum", <<1, 2>>), Store(<<k3, k1, k2>>, "inter", "min", <<>>),
       Store(<<k1, k3, k2, k3>>, "union", "max", <<>>), Store(<<k2, k1>>, "union", "none", <<2>>),
       ZOn("zrem", k1, [ms |-> <<2>>]) >>)

ZMixes == Menu({s1}, k1 :> Z3 @@ k2 :> G2, 2, FALSE,
    << Store(<<k3, k2, k2>>, "union", "sum", <<1, 2>>), Store(<<k3, k1, k2>>, "inter", "min", <<>>) >>)

StrOn(cmd, k, args) == Call("string", cmd, <<k>>, args)
B9 == Entry(Str(<<1, 255, 0, 8, 3, 129, 0, 0, 64>>), 0)

\* a string of two digits and one of nine bytes
Strings == Menu({s1}, k1 :> Entry(Str(<<49, 50>>), 3) @@ k2 :> L3, 2, TRUE,
    << StrOn("get", k1, None), StrOn("get", k2, None), StrOn("getset", k1, [val |-> <<55>>]),
       StrOn("strlen", k1, None), StrOn("append", k1, [val |-> <<48>>]),
       StrOn("setrange", k1, [off |-> 3, val |-> <<65, 66>>]),
       StrOn("setrange", k3, [off |-> 1, val |-> <<65>>]),
       StrOn("getrange", k1, [from |-> -1, to |-> 4]),
       StrOn("incrby", k1, [n |-> 120, max |-> 127]), StrOn("incrby", k3, [n |-> -1, max |-> 127]),
       StrOn("set", k2, [val |-> <<65>>, cond |-> "nx"]), StrOn("set", k1, [val |-> <<65>>, cond |-> "nx"]),
       StrOn("set", k2, [val |-> <<65>>, cond |-> "xx"]), StrOn("set", k3, [val |-> <<65>>, cond |-> "xx"]),
       StrOn("setex", k1, [val |-> <<66>>, cond |-> "any", ttl |-> 1]) >>)

F(op, signed, width, off, val, over) ==
    [op |-> op, signed |-> signed, width |-> width, off |-> off, val |-> val, over |-> over]

Bits == Menu({s1}, k1 :> B9 @@ k2 :> Entry(Str(<<240, 1>>), 0), 2, FALSE,
    << StrOn("getbit", k1, [at |-> 9]), StrOn("setbit", k3, [at |-> 9, bit |-> 1]),
       StrOn("setbit", k2, [at |-> 4, bit |-> 0]),
       StrOn("bitcount", k1, [from |-> 0, to |-> -1]), StrOn("bitcount", k1, [from |-> 1, to |-> 4]),
       StrOn("bitpos", k1, [bit |-> 1, from |-> 2, to |-> -1]),
       StrOn("bitpos", k2, [bit |-> 0, from |-> 0, to |-> -1]),
       StrOn("bitfield", k2, [fs |-> <<F("get", TRUE, 4, 4, 0, "wrap"), F("incrby", TRUE, 5, 3, 9, "wrap"),
                                       F("incrby", FALSE, 3, 14, 3, "sat"), F("incrby", TRUE, 4, 20, -9, "fail"),
                                       F("set", FALSE, 4, 9, 21, "wrap")>>]),
       StrOn("bitfield", k3, [fs |-> <<F("get", FALSE, 4, 4, 0, "wrap")>>]),
       Call("string", "bitop", <<k3, k1, k2>>, [op |-> "and"]),
       Call("string", "bitop", <<k3, k1, k2>>, [op |-> "xor"]),
       Call("string", "bitop", <<k3, k2>>, [op |-> "not"]),
       Call("string", "bitop", <<k2, k2, k1>>, [op |-> "or"]) >>)

One == Entry(Str(<<49>>), 0)

MSets == Menu({s1, s2}, k3 :> Entry(Str(<<49>>), 2), 2, TRUE,
    << Call("string", "mset", <<k1, k2>>, [vals |-> << <<50>>, <<50>> >>]),
       Call("string", "msetnx", <<k1, k2, k3>>, [vals |-> << <<51>>, <<51>>, <<51>> >>]),
       Call("string", "msetnx", <<k3>>, [vals |-> << <<52>> >>]),
       Call("string", "mget", <<k1, k2, k3>>, None),
       Call("key", "del", <<k2, k1>>, None) >>)

KeyOn(cmd, k, args) == Call("key", cmd, <<k>>, args)

Expiry == Menu({s1}, k1 :> Entry(Str(<<49>>), 2) @@ k2 :> L3, 2, TRUE,
    << KeyOn("del", k1, None), Call("key", "exists", <<k1, k2, k3>>, None), KeyOn("type", k2, None),
       Call("key", "touch", <<k1, k3>>, None), KeyOn("expire", k1, [n |-> 1]),
       KeyOn("expire", k2, [n |-> 1]), KeyOn("expire", k2, [n |-> 0]),
       KeyOn("expireat", k2, [n |-> 2]), KeyOn("expireat", k1, [n |-> 0]),
       KeyOn("persist", k1, None), KeyOn("ttl", k1, None), KeyOn("ttl", k3, None),
       StrOn("incrby", k1, [n |-> 5, max |-> 127]) >>)

Renames == Menu({s1, s2}, k1 :> L3 @@ k2 :> Entry(Str(<<49>>), 2), 2, TRUE,
    << Call("key", "rename", <<k1, k2>>, [st |-> "send_ok"]),
       Call("key", "rename", <<k2, k3>>, [st |-> "send_int"]),
       Call("key", "rename", <<k3, k1>>, [st |-> "send_ok"]),
       KeyOn("del", k1, None), StrOn("incrby", k2, [n |-> 1, max |-> 127]) >>)

XOn(cmd, k, args) == Call("stream", cmd, <<k>>, args)
GroupAt(g, last) == [name |-> g, last |-> last]
X2 == Entry(Stream(<<2, 3>>, <<GroupAt("g", 0)>>, <<>>, 3), 0)

\* ids of the clock alone
Streams == Menu({s1}, k1 :> X2 @@ k2 :> Entry(Str(<<49>>), 0), 2, TRUE,
    << XOn("xadd", k1, [id |-> 0, max |-> 0]), XOn("xadd", k3, [id |-> 0, max |-> 1]),
       XOn("xadd", k2, [id |-> 0, max |-> 0]),
       XOn("xdel", k1, [ids |-> <<3, 9>>]), XOn("xtrim", k1, [max |-> 1]), XOn("xtrim", k3, [max |-> 0]),
       XOn("xlen", k1, None),
       XOn("xrange", k1, [rev |-> FALSE, from |-> 0, to |-> Top, cnt |-> 1]),
       XOn("xrange", k1, [rev |-> TRUE, from |-> 3, to |-> 3, cnt |-> 0]),
       Call("stream", "xread", <<k1, k3>>, [ids |-> <<2, 0>>, cnt |-> 1, block |-> FALSE]),
       Call("stream", "xread", <<k3, k1>>, [ids |-> <<0, Top>>, cnt |-> 0, block |-> TRUE]),
       Call("stream", "xread", <<k3>>, [ids |-> <<0>>, cnt |-> 0, block |-> TRUE]) >>)

X4 == Entry(Stream(<<2, 3, 4>>, <<GroupAt("g", 2), GroupAt("h", 0)>>,
                   <<Pend(2, "g", "a", 0, 1)>>, 4), 0)
Group(sub, k, args) == Call("stream", "xgroup", <<k>>, [sub |-> sub, g |-> "g"] @@ args)
Read(keys, con, ids, cnt) ==
    Call("stream", "xreadgroup", keys, [g |-> "g", con |-> con, ids |-> ids, cnt |-> cnt, block |-> FALSE])
NoOpt == [idle |-> 0, time |-> 0, retrycount |-> 0]
Claim(con, idle, ids, force, justid, opt) ==
    XOn("xclaim", k1, [g |-> "g", con |-> con, idle |-> idle, ids |-> ids, force |-> force, justid |-> justid,
                       opt |-> opt])

StreamGroups == Menu({s1}, k1 :> X4, 2, FALSE,
    << XOn("xadd", k1, [id |-> 6, max |-> 2]), XOn("xadd", k1, [id |-> 1, max |-> 0]),
       XOn("xadd", k3, [id |-> -1, max |-> 0]), XOn("xadd", k1, [id |-> 0, max |-> 0]),
       XOn("xdel", k1, [ids |-> <<2, 4>>]),
       Call("key", "touch", <<k1>>, None), Call("key", "rename", <<k1, k2>>, [st |-> "send_ok"]),
       Call("key", "del", <<k1>>, None),
       Read(<<k1>>, "a", <<Top>>, 1), Read(<<k1>>, "b", <<Top>>, 0), Read(<<k1>>, "a", <<0>>, 0),
       Read(<<k1, k2>>, "b", <<Top, Top>>, 0),
       XOn("xack", k1, [g |-> "g", ids |-> <<2, 3>>]),
       Claim("b", 1, <<2, 3>>, FALSE, FALSE, NoOpt), Claim("b", 5, <<2>>, FALSE, TRUE, NoOpt),
       Claim("b", 0, <<2, 3>>, TRUE, TRUE, NoOpt),
       Claim("b", 0, <<2, 3>>, FALSE, TRUE, [NoOpt EXCEPT !.idle = 1, !.retrycount = 3]),
       Group("create", k1, [id |-> 0, mkstream |-> FALSE]), Group("create", k2, [id |-> 0, mkstream |-> TRUE]),
       Group("create", k2, [id |-> Top, mkstream |-> TRUE]), Group("create", k3, [id |-> 0, mkstream |-> FALSE]),
       Group("setid", k1, [id |-> 0]), Group("setid", k1, [id |-> Top]),
       Group("destroy", k1, <<>>), Group("delconsumer", k1, [con |-> "a"]),
       XOn("xsetid", k1, [g |-> "g", id |-> Top]), XOn("xpending", k1, [g |-> "g"]),
       XOn("xpendinglist", k1, [g |-> "g", from |-> 0, to |-> Top, cnt |-> 2, con |-> "nil"]),
       XOn("xpendinglist", k1, [g |-> "g", from |-> 3, to |-> 3, cnt |-> 2, con |-> "a"]),
       XOn("xinfo", k1, [sub |-> "consumers", g |-> "g"]), XOn("xinfo", k1, [sub |-> "groups"]),
       XOn("xinfo", k1, [sub |-> "stream"]) >>)

GeoOn(cmd, k, args) == Call("geo", cmd, <<k>>, args)
Radius(keys, from, at, r, order, cnt, store) ==
    Call("geo", "georadius", keys,
         [from |-> from, at |-> at, radius |-> r, order |-> order, cnt |-> cnt, store |-> store])
\* the cell 18 is beside the cells 6 and 7, in the next hexagon of 16 cells
G3 == Entry(Val("geo", << <<1, 6>>, <<2, 7>>, <<5, 18>> >>), 0)

Geos == Menu({s1, s2}, k1 :> G3 @@ k2 :> Z2, 2, FALSE,
    << GeoOn("geoadd", k1, [places |-> << <<1, 6>>, <<2, 18>>, <<4, 33>> >>]),
       GeoOn("geoadd", k3, [places |-> << <<1, 6>> >>]), GeoOn("geoadd", k2, [places |-> << <<1, 6>> >>]),
       GeoOn("geopos", k1, [ms |-> <<5, 9>>]), GeoOn("geodist", k1, [a |-> 1, b |-> 5]),
       GeoOn("geodist", k1, [a |-> 1, b |-> 9]),
       Radius(<<k1>>, "cell", 6, 4, "none", 1, "none"), Radius(<<k1>>, "member", 5, 4, "desc", 0, "none"),
       Radius(<<k3>>, "member", 5, 4, "asc", 0, "none"),
       Radius(<<k1, k3>>, "cell", 6, 5, "none", 1, "hash"), Radius(<<k1, k2>>, "cell", 6, 2, "none", 0, "dist"),
       Radius(<<k1, k1>>, "cell", 8, 0, "none", 0, "hash"), Radius(<<k1, k3>>, "member", 9, 2, "asc", 0, "dist"),
       ZOn("zrem", k1, [ms |-> <<2>>]) >>)

HllOn(cmd, keys, args) == Call("hyperloglog", cmd, keys, args)

HyperLogLogs == Menu({s1, s2}, k1 :> Entry(Hll({1, 2}), 0) @@ k2 :> Entry(Hll({2, 3}), 0), 2, FALSE,
    << HllOn("pfadd", <<k1>>, [ms |-> <<2, 5>>]), HllOn("pfadd", <<k3>>, [ms |-> <<1, 1>>]),
       HllOn("pfadd", <<k2>>, [ms |-> <<2>>]),
       HllOn("pfcount", <<k1>>, None), HllOn("pfcount", <<k3, k1, k2>>, None), HllOn("pfcount", <<k1, k3>>, None),
       HllOn("pfmerge", <<k3, k1, k2>>, None), HllOn("pfmerge", <<k1, k2>>, None), HllOn("pfmerge", <<k3>>, None),
       StrOn("set", k3, [val |-> <<65>>, cond |-> "any"]) >>)

AllMenus == <<Lists, Hashes, Sets, SetPairs, SetStores, ZSets, ZMisreads, ZStores, ZMixes,
              Strings, Bits, MSets, Expiry, Renames, Streams, StreamGroups, Geos,
              HyperLogLogs>>
=============================================================================
