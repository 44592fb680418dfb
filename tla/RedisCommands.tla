---------------------------- MODULE RedisCommands ----------------------------
(***************************************************************************)
(* The data commands of RedisExec on the keys they name.  A command runs   *)
(* one key at a time: exec_run_to_completion cycles through its keys,      *)
(* exec_key_continue calls the handler of the command for one of them,     *)
(* with the entry of that key locked or, for a command that only reads,    *)
(* with a copy that is validated afterwards.  Between two keys no lock is  *)
(* held and other connections run their commands.                          *)
(*                                                                         *)
(* A menu is what is run together: the first value of each key, the        *)
(* sessions, the calls they choose from and how many are made.             *)
(***************************************************************************)
EXTENDS RedisList, RedisHash, RedisSet, RedisGeo, RedisHyperLogLog, RedisString, RedisKey

CONSTANTS Keys,      \* the keys
          Sessions,  \* the connections
          Menus,     \* a sequence of menus
          MaxNow     \* the time at which the clock stops

\* A call is a command of the table of redis_cmd.cpp with its keys and
\* arguments; what is asked of it here is what the loop over the keys and the
\* commands on several keys rely on.
Commands ==
    [list   |-> {"lindex", "llen", "lrange", "push", "linsert", "lset", "pop", "bpop", "lrem",
                 "ltrim", "rpoplpush"},
     hash   |-> {"hget", "hexists", "hlen", "hstrlen", "hkeys", "hvals", "hgetall", "hmget",
                 "hscan", "hset", "hmset", "hsetnx", "happend", "hincrby", "hdel"},
     set    |-> {"spop", "srandmember", "scard", "sismember", "smembers", "sscan", "sadd",
                 "srem", "smove", "sop", "sstore"},
     zset   |-> {"zcard", "zscore", "zrank", "zrevrank", "zcount", "zadd", "zrem", "zrange",
                 "zrangeby", "zscan", "zpop", "bzpop", "zrembyrank", "zremby", "zstore"},
     string |-> {"get", "getset", "mget", "strlen", "append", "setrange", "getrange", "incrby",
                 "getbit", "setbit", "bitcount", "bitpos", "bitfield", "bitop", "set", "setex",
                 "mset", "msetnx"},
     key    |-> {"del", "exists", "type", "touch", "expire", "expireat", "persist", "ttl", "rename"},
     stream |-> {"xadd", "xtrim", "xdel", "xlen", "xrange", "xread", "xreadgroup", "xsetid",
                 "xgroup", "xack", "xclaim", "xpending", "xpendinglist", "xinfo"},
     geo    |-> {"geoadd", "geopos", "geodist", "georadius"},
     hyperloglog |-> {"pfadd", "pfcount", "pfmerge"}]

\* the number of keys, where the command is not for one or for any
IsArity(c) ==
    /\ c.keys \in Seq(Keys) \ {<<>>}
    /\ c.cmd \in {"rpoplpush", "smove", "rename"} => Len(c.keys) = 2
    /\ c.cmd \in {"sstore", "zstore", "bitop"} => Len(c.keys) > 1
    /\ c.cmd = "georadius" => Len(c.keys) <= 2

\* the arguments that end up in a value
IsArgs(c) ==
    /\ c.cmd = "push" => IsSeq(c.vals)
    /\ c.cmd \in {"sadd", "pfadd"} => IsSeq(c.ms)
    /\ c.cmd \in {"hset", "hmset"} => IsSeq(c.pairs)
    /\ c.cmd \in {"append", "getset", "set", "setex", "setrange"} => IsSeq(c.val)
    /\ c.cmd \in {"mset", "msetnx"} =>
          Len(c.vals) = Len(c.keys) /\ \A i \in DOMAIN c.keys : IsSeq(c.vals[i])
    /\ c.cmd \in {"ltrim", "zrembyrank"} => c.from \in Int /\ c.to \in Int
    /\ c.cmd = "spop"   => c.n \in Int
    /\ c.cmd = "zpop"   => c.cnt \in Int
    /\ c.cmd = "zadd"   => c.pairs \in Seq(Int \X Int) \ {<<>>}
    /\ c.cmd = "geoadd" => c.places \in Seq(Int \X Int)
    /\ c.cmd = "zremby" => {c.lo.end, c.hi.end} \subseteq {"low", "high", "at"}
    /\ c.cmd \in {"sop", "sstore"} => c.op \in {"union", "inter", "diff"}
    /\ c.cmd = "zstore" => /\ c.op \in {"union", "inter"}
                           /\ c.agg \in {"sum", "min", "max", "none"}
                           /\ c.weights \in Seq(Int)
                           /\ Len(c.weights) \in {0, Len(c.keys) - 1}
    /\ c.cmd = "georadius" => /\ c.at \in Int /\ c.radius \in Int
                              /\ c.from \in {"cell", "member"}
                              /\ c.store \in {"none", "hash", "dist"}
    /\ c.cmd = "setrange" => c.off \in Nat
    /\ c.cmd = "setbit"   => c.at \in Nat
    /\ c.cmd = "incrby"   => c.n \in Int /\ c.max \in Nat
    /\ c.cmd = "hincrby"  => c.n \in Int
    /\ c.cmd = "bitfield" =>
          /\ IsSeq(c.fs)
          /\ \A i \in DOMAIN c.fs : /\ c.fs[i].op \in {"get", "set", "incrby"}
                                    /\ c.fs[i].off \in Nat /\ c.fs[i].width \in Nat
    /\ c.cmd \in {"set", "setex"} => c.cond \in {"any", "nx", "xx"}
    /\ c.cmd = "setex" => c.ttl \in Nat
    /\ c.cmd \in {"expire", "expireat"} => c.n \in Nat
    /\ c.cmd = "rename" => c.st \in {"send_ok", "send_int"}
    /\ c.cmd = "xadd"  => c.id \in Int /\ c.max \in Int
    /\ c.cmd = "xtrim" => c.max \in Int
    /\ c.cmd = "xreadgroup" => c.cnt \in Int
    /\ c.cmd \in {"xack", "xclaim"} => IsSeq(c.ids)
    /\ c.cmd = "xgroup" => c.sub \in {"create", "setid", "destroy", "delconsumer"}
    /\ c.cmd = "xinfo"  => c.sub \in {"consumers", "groups", "stream"}

IsCall(c) ==
    /\ c.catg \in DOMAIN Commands /\ c.cmd \in Commands[c.catg]
    /\ IsArity(c)
    /\ IsArgs(c)

\* A value is of one of the types, with the data that goes with it, or what
\* ZADD and ZREM make of one that is no sorted set
WellFormed(v) ==
    \/ v \in {Absent, Untyped}
    \/ v.type = "scrambled" /\ v = Scrambled(v)
    \/ v.type \in {"list", "string", "hyperloglog"} /\ v = Val(v.type, v.data) /\ IsSeq(v.data)
    \/ v.type = "hash" /\ v = Val("hash", v.data) /\ IsHash(v.data)
    \/ v.type = "set" /\ v = Val("set", v.data) /\ IsSet(v.data)
    \/ v.type \in {"zset", "geo"} /\ v = Val(v.type, v.data) /\ IsZSet(v.data)
    \/ v.type = "stream" /\ IsStream(v)

\* an entry without a value has no expiry time
IsEntry(e) ==
    /\ e = Entry(e.v, e.exp)
    /\ WellFormed(e.v)
    /\ e.exp \in Nat
    /\ e.v = Absent => e.exp = 0

IsMenu(m) ==
    /\ m.sessions \subseteq Sessions
    /\ m.len \in Nat
    /\ DOMAIN m.db = Keys
    /\ DOMAIN m.calls = 1..Len(m.calls) /\ Len(m.calls) \in Nat
    /\ \A c \in DOMAIN m.calls : IsCall(m.calls[c])
    /\ \A k \in Keys : IsEntry(m.db[k])

ASSUME KeysAssumption  == IsFiniteSet(Keys)
ASSUME NowAssumption   == MaxNow \in Nat \ {0}
ASSUME MenusAssumption == \A i \in DOMAIN Menus : IsMenu(Menus[i])

VARIABLES db,        \* the entry of each key
          now,       \* the clock
          menu,      \* the menu of this behaviour
          sess,      \* the command each session runs
          left       \* the number of calls that are still made

cvars == <<db, now, menu, sess, left>>

M == Menus[menu]

Idle == [c |-> 0, i |-> 1, st |-> <<>>, dep |-> <<>>, part |-> <<>>, ival |-> <<>>,
         tested |-> FALSE, buffered |-> FALSE, fl |-> {},
         reply |-> [st |-> "none", n |-> 0, data |-> <<>>]]

Pending == {"continue", "depends"}

-----------------------------------------------------------------------------
(* The handlers.  c is the call, i the number of its key, x what a handler *)
(* sees: the entry e of the key and its value v, the clock, the number of  *)
(* keys that are done, how often this key has waited (dep) and what the    *)
(* keys before it saved (part).                                            *)

Again(v) == Status(v, "again")
Wait(v)  == Status(v, "depends")
LastKey(c, x) == x.done + 1 = Len(c.keys)

ListCmd(c, i, x) ==
    CASE c.cmd = "lindex"  -> LIndex(x.v, c.at)
      [] c.cmd = "llen"    -> LLen(x.v)
      [] c.cmd = "lrange"  -> LRange(x.v, c.from, c.to)
      [] c.cmd = "push"    -> Push(x.v, c.end, c.vals, c.exists)
      [] c.cmd = "linsert" -> LInsert(x.v, c.after, c.piv, c.val)
      [] c.cmd = "lset"    -> LSet(x.v, c.at, c.val)
      [] c.cmd = "pop"     -> Pop(x.v, c.end, "send_nil")
      [] c.cmd = "bpop"    -> BPop(x.v, c.keys[i], c.end)
      [] c.cmd = "lrem"    -> LRem(x.v, c.n, c.val)
      [] c.cmd = "ltrim"   -> LTrim(x.v, c.from, c.to)
      [] c.cmd = "rpoplpush" /\ i = 1 -> Pop(x.v, "right", c.none)
      [] c.cmd = "rpoplpush" /\ i = 2 ->
             IF ~LastKey(c, x) THEN Wait(x.v)
             ELSE IF x.st[1] = "blocked" THEN Status(x.v, "blocked")
             ELSE RPopLPushDest(x.v, x.buffered, x.part[1][1])

HashCmd(c, i, x) ==
    CASE c.cmd \in {"hget", "hexists", "hlen", "hstrlen"} -> HRead(x.v, c.cmd, c.f)
      [] c.cmd \in {"hkeys", "hvals", "hgetall"} -> HAll(x.v, c.cmd)
      [] c.cmd = "hmget"   -> HMGet(x.v, c.fs)
      [] c.cmd = "hscan"   -> HScan(x.v, c.pos, c.max, c.pat)
      [] c.cmd = "hset"    -> HSet(x.v, c.pairs)
      [] c.cmd = "hmset"   -> HMSet(x.v, c.pairs)
      [] c.cmd = "hsetnx"  -> HSetNx(x.v, c.f, c.val)
      [] c.cmd = "happend" -> HAppend(x.v, c.f, c.vals)
      [] c.cmd = "hincrby" -> HIncrBy(x.v, c.f, c.n)
      [] c.cmd = "hdel"    -> HDel(x.v, c.fs)

SetCmd(c, i, x) ==
    CASE c.cmd = "spop"        -> SPop(x.v, c.n)
      [] c.cmd = "srandmember" -> SRandMember(x.v, c.n)
      [] c.cmd = "scard"     -> {SCard(x.v)}
      [] c.cmd = "sismember" -> {SIsMember(x.v, c.m)}
      [] c.cmd = "smembers"  -> {SMembers(x.v)}
      [] c.cmd = "sscan"     -> {SScan(x.v, c.pos, c.max, c.pat)}
      [] c.cmd = "sadd"      -> {SAdd(x.v, c.ms)}
      [] c.cmd = "srem"      -> {SRem(x.v, c.ms)}
      [] c.cmd = "smove" /\ i = 1 -> {SMoveSource(x.v, c.m)}
      [] c.cmd = "smove" /\ i = 2 -> {IF x.done = 0 THEN Wait(x.v) ELSE SMoveDest(x.v, c.m)}
      [] c.cmd = "sop" ->
             {LET r == SaveSet(x.v)
              IN  IF r.st = "ok" /\ LastKey(c, x)
                  THEN Data(x.v, MergeAll(c.op, Append(SubSeq(x.part, 1, i - 1), r.rep))) ELSE r}
      [] c.cmd = "sstore" /\ i > 1 -> {SaveSet(x.v)}
      [] c.cmd = "sstore" /\ i = 1 ->
             {IF LastKey(c, x) THEN SStore(c.op, Tail(x.part)) ELSE Wait(x.v)}

ZCmd(c, i, x) ==
    CASE c.cmd = "zcard"  -> ZCard(x.v)
      [] c.cmd \in {"zscore", "zrank", "zrevrank"} -> ZMember(x.v, c.cmd, c.m)
      [] c.cmd = "zcount"    -> ZCount(x.v, c.how, c.lo, c.hi)
      [] c.cmd = "zrange"    -> ZRange(x.v, c.rev, c.from, c.to)
      [] c.cmd = "zrangeby"  -> ZRangeBy(x.v, c.how, c.rev, c.first, c.last, c.off, c.cnt)
      [] c.cmd = "zscan"     -> ZScan(x.v, c.pos, c.max, c.pat)
      [] c.cmd = "zpop"      -> ZPop(x.v, c.high, c.cnt)
      [] c.cmd = "bzpop"     -> BZPop(x.v, c.keys[i], c.high)
      [] c.cmd = "zrembyrank" -> ZRemByRank(x.v, c.from, c.to)
      [] c.cmd = "zremby"    -> ZRemBy(x.v, c.how, c.lo, c.hi)
      [] c.cmd = "zstore" /\ i > 1 -> SaveZSet(x.v)
      [] c.cmd = "zstore" /\ i = 1 ->
             IF LastKey(c, x) THEN ZStore(x.v, c.op, c.agg, c.weights, Tail(x.part)) ELSE Wait(x.v)

ZSetCmd(c, i, x) ==
    CASE c.cmd = "zadd" -> ZAdd(x.v, c.flags, c.pairs)
      [] c.cmd = "zrem" -> ZRem(x.v, c.ms)
      [] OTHER          -> {ZCmd(c, i, x)}

\* Mutant of MSetNx: one pass that sets the keys it finds missing
MSetNxOnePass(c, i, x) ==
    IF x.v # Absent THEN Status(x.v, "abort_zero")
    ELSE SetValue(x.v, c.vals[i], "any", 0, "send_one")

\* MSETNX looks at every key in a first pass and sets them in a second; a
\* single key is looked at and set in one, with the lock taken in between
MSetNx(c, i, x) ==
    IF x.dep = 0 /\ ~x.tested
    THEN IF x.v # Absent THEN Status(x.v, "abort_zero")
         ELSE IF LastKey(c, x) THEN Again(x.v) ELSE Wait(x.v)
    ELSE SetValue(x.v, c.vals[i], "any", 0, "send_one")

StrCmd(c, i, x) ==
    CASE c.cmd = "get"      -> Get(x.v)
      [] c.cmd = "getset"   -> GetSet(x.v, c.val)
      [] c.cmd = "mget"     -> MGet(x.v)
      [] c.cmd = "strlen"   -> StrLen(x.v)
      [] c.cmd = "append"   -> Append_(x.v, c.val)
      [] c.cmd = "setrange" -> SetRange(x.v, c.off, c.val)
      [] c.cmd = "getrange" -> GetRange(x.v, c.from, c.to)
      [] c.cmd = "incrby"   -> Add(x.v, c.n, c.max)
      [] c.cmd = "getbit"   -> GetBit(x.v, c.at)
      [] c.cmd = "setbit"   -> SetBit(x.v, c.at, c.bit)
      [] c.cmd = "bitcount" -> BitCount(x.v, c.from, c.to)
      [] c.cmd = "bitpos"   -> BitPos(x.v, c.bit, c.from, c.to)
      [] c.cmd = "bitop" /\ i > 1 -> SaveStr(x.v)
      [] c.cmd = "bitop" /\ i = 1 ->
             IF x.dep = 0 THEN Wait(x.v) ELSE BitOpDest(x.v, c.op, Tail(x.part))
      [] c.cmd = "set"      -> Set(x.v, c.val, c.cond)
      [] c.cmd = "setex"    -> SetEx(x.v, c.val, c.cond, x.now, c.ttl)
      [] c.cmd = "mset"     -> Set(x.v, c.vals[i], "any")
      [] c.cmd = "msetnx"   -> MSetNx(c, i, x)

StringCmd(c, i, x) == IF c.cmd = "bitfield" THEN BitField(x.v, c.fs) ELSE {StrCmd(c, i, x)}

\* RENAME reads and saves the source, writes the destination, deletes the
\* source; RENAMENX tests the destination first, without its lock
KeyCmd(c, i, x, stamp) ==
    CASE c.cmd = "del"      -> Del(x.e)
      [] c.cmd = "exists"   -> Exists(x.e)
      [] c.cmd = "type"     -> Type(x.e)
      [] c.cmd = "touch"    -> Touch(x.e, stamp)
      [] c.cmd = "expire"   -> Expire(x.e, x.now, c.n, stamp)
      [] c.cmd = "expireat" -> ExpireAt(x.e, c.n, stamp)
      [] c.cmd = "persist"  -> Persist(x.e, stamp)
      [] c.cmd = "ttl"      -> Ttl(x.e, x.now)
      [] c.cmd = "rename" /\ i = 1 ->
             IF x.dep = 0 THEN [Wait(x.v) EXCEPT !.rep = x.v] ELSE RenameSource(x.e, c.st)
      [] c.cmd = "rename" /\ i = 2 ->
             IF c.st = "send_int" /\ ~x.tested
             THEN Status(x.v, IF x.v # Absent THEN "abort_zero" ELSE "again")
             ELSE RenameDest(x.e, x.part[1], c.st, stamp)

\* XREAD and XREADGROUP have an id for each key, the others one key
StreamCmd(c, i, x) ==
    CASE c.cmd = "xadd"     -> XAdd(x.v, x.now, c.id, c.max)
      [] c.cmd = "xtrim"    -> XTrim(x.v, c.max)
      [] c.cmd = "xdel"     -> XDel(x.v, c.ids)
      [] c.cmd = "xlen"     -> XLen(x.v)
      [] c.cmd = "xrange"   -> XRange(x.v, c.rev, c.from, c.to, c.cnt)
      [] c.cmd = "xread"    ->
             FinishXRead(XRead(x.v, c.ids[i], c.cnt), Len(c.keys), LastKey(c, x), x.part, c.block)
      [] c.cmd = "xreadgroup" ->
             FinishXRead(XReadGroup(x.v, c.g, c.con, c.ids[i], c.cnt, x.now),
                         Len(c.keys), LastKey(c, x), x.part, c.block)
      [] c.cmd = "xsetid"   -> XSetId(x.v, c.g, c.id)
      [] c.cmd = "xgroup"   ->
            (CASE c.sub = "create"      -> XGroupCreate(x.v, c.g, c.id, c.mkstream)
               [] c.sub = "setid"       -> XGroupSetId(x.v, c.g, c.id)
               [] c.sub = "destroy"     -> XGroupDestroy(x.v, c.g)
               [] c.sub = "delconsumer" -> XGroupDelConsumer(x.v, c.g, c.con))
      [] c.cmd = "xack"     -> XAck(x.v, c.g, c.ids)
      [] c.cmd = "xclaim"   -> XClaim(x.v, c.g, c.con, c.idle, c.ids, c.force, c.justid, c.opt, x.now)
      [] c.cmd = "xpending" -> XPending(x.v, c.g)
      [] c.cmd = "xpendinglist" -> XPendingList(x.v, c.g, c.from, c.to, c.cnt, c.con, x.now)
      [] c.cmd = "xinfo"    ->
             CASE c.sub = "consumers" -> XInfoConsumers(x.v, c.g, x.now)
               [] c.sub = "groups"    -> XInfoGroups(x.v)
               [] c.sub = "stream"    -> XInfoStream(x.v)

\* the store key of GEORADIUS waits for the key that is searched
GeoCmd(c, i, x) ==
    CASE c.cmd = "geoadd"  -> GeoAdd(x.v, c.places)
      [] c.cmd = "geopos"  -> GeoRead(x.v, c.ms)
      [] c.cmd = "geodist" -> GeoDist(x.v, c.a, c.b)
      [] c.cmd = "georadius" /\ i = 1 ->
             GRadius(x.v, c.from, c.at, c.radius, c.order, c.cnt, c.store)
      [] c.cmd = "georadius" /\ i = 2 ->
             IF LastKey(c, x) THEN GRadiusStore(x.v, c.store, x.part[1]) ELSE Wait(x.v)

HllCmd(c, i, x) ==
    CASE c.cmd = "pfadd"   -> PfAdd(x.v, c.ms)
      [] c.cmd = "pfcount" -> PfCount(x.v, LastKey(c, x), x.part)
      [] c.cmd = "pfmerge" /\ i > 1 -> PfSource(x.v)
      [] c.cmd = "pfmerge" /\ i = 1 ->
             IF LastKey(c, x) THEN PfDest(x.v, Tail(x.part)) ELSE Wait(x.v)

\* the times within the millisecond at which a stream can be stamped
Stamps(x) ==
    IF x.v.type = "stream" \/ x.part[1] # <<>> THEN {x.now * SubMs + f : f \in 0..(SubMs - 1)}
    ELSE {0}

\* The commands of the type that a scrambled value had read what is left of
\* it: their outcomes are not in the model, which does not go on there.
Unread(c, v) == v.type = "scrambled" /\ v.of = c.catg

Handle(c, i, x) ==
    IF Unread(c, x.v) THEN {} ELSE
    CASE c.catg = "list"   -> {ListCmd(c, i, x)}
      [] c.catg = "hash"   -> {HashCmd(c, i, x)}
      [] c.catg = "set"    -> SetCmd(c, i, x)
      [] c.catg = "zset"   -> ZSetCmd(c, i, x)
      [] c.catg = "string" -> StringCmd(c, i, x)
      [] c.catg = "key"    -> {KeyCmd(c, i, x, stamp) : stamp \in Stamps(x)}
      [] c.catg = "stream" -> {StreamCmd(c, i, x)}
      [] c.catg = "geo"    -> {GeoCmd(c, i, x)}
      [] c.catg = "hyperloglog" -> {HllCmd(c, i, x)}

-----------------------------------------------------------------------------
(* Actions *)

\* exec_key_setup of every key
Start(s, c) ==
    LET n == Len(M.calls[c].keys)
    IN  /\ sess[s].c = 0
        /\ left > 0
        /\ left' = left - 1
        /\ \E b \in M.buffered :
               sess' = [sess EXCEPT ![s] =
                   [Idle EXCEPT !.c = c, !.buffered = b,
                        !.st   = [i \in 1..n |-> "continue"],
                        !.dep  = [i \in 1..n |-> 0],
                        !.part = [i \in 1..n |-> <<>>],
                        !.ival = [i \in 1..n |-> 0]]]
        /\ UNCHANGED <<db, now, menu>>

\* the next key of the cycle that still has to run
NextIndex(x) ==
    LET n == Len(x.st)
        after == {d \in 0..(n - 1) : x.st[((x.i + d - 1) % n) + 1] \in Pending}
    IN  ((x.i + Min(after) - 1) % n) + 1

KeysDone(x) == Cardinality({i \in DOMAIN x.st : x.st[i] \notin Pending})

Context(x, k, i) ==
    LET e == Fetched(db[k], now)
    IN  [e |-> e, v |-> e.v, now |-> now, done |-> KeysDone(x), dep |-> x.dep[i],
         tested |-> x.tested, part |-> x.part, st |-> x.st, buffered |-> x.buffered]

\* the reply of a command whose last key, or the one that ends it, is run
Reply(c, x, st, rep) ==
    [st |-> st,
     n  |-> IF st = "send_int" THEN FoldLeft(LAMBDA a, b : a + b, 0, x.ival) ELSE 0,
     data |-> IF st \notin {"ok", "send_data"} THEN <<>>
              ELSE CASE c.cmd \in {"mget", "xread", "xreadgroup"} -> x.part
                     [] c.cmd = "rpoplpush" -> x.part[1]
                     [] OTHER               -> rep]

Finished(x, r) == [Idle EXCEPT !.reply = r, !.fl = x.fl]

\* exec_key_continue after the handler of key i returned r
Continue(c, x, i, r) ==
    LET y == [x EXCEPT !.st[i] = r.st, !.ival[i] = r.ival, !.fl = @ \cup r.fl, !.tested = FALSE,
                       !.part[i] = IF r.st \in {"ok", "depends", "send_data"} /\ x.dep[i] = 0
                                   THEN r.rep ELSE @]
    IN  CASE r.st = "again"   -> [x EXCEPT !.i = i, !.tested = TRUE]
          [] r.st = "depends" -> [y EXCEPT !.dep[i] = @ + 1, !.i = (i % Len(x.st)) + 1]
          [] r.st \notin {"again", "depends"} /\ ~NextKey(r.st) /\ KeysDone(y) < Len(x.st) ->
                 Finished(y, Reply(c, y, r.st, r.rep))
          [] r.st \notin {"again", "depends"} /\ KeysDone(y) = Len(x.st) ->
                 Finished(y, Reply(c, y, r.st, r.rep))
          [] OTHER -> [y EXCEPT !.i = (i % Len(x.st)) + 1]

\* one key of the command of session s
Step(s) ==
    LET x == sess[s]
        c == M.calls[x.c]
        i == NextIndex(x)
        k == c.keys[i]
    IN  /\ x.c # 0
        /\ \E r \in Handle(c, i, Context(x, k, i)) :
               /\ db' = [db EXCEPT ![k] = Stored(Fetched(@, now), r)]
               /\ sess' = [sess EXCEPT ![s] = Continue(c, x, i, r)]
        /\ UNCHANGED <<now, menu, left>>

Tick ==
    /\ now < MaxNow
    /\ M.ticks
    /\ now' = now + 1
    /\ UNCHANGED <<db, menu, sess, left>>

Init ==
    /\ menu \in DOMAIN Menus
    /\ db   = M.db
    /\ now  = 1
    /\ left = M.len
    /\ sess = [s \in Sessions |-> Idle]

Next ==
    \/ \E s \in M.sessions, c \in DOMAIN M.calls : Start(s, c)
    \/ \E s \in M.sessions : Step(s)
    \/ Tick

Spec == Init /\ [][Next]_cvars

-----------------------------------------------------------------------------
(* Properties *)

OfTypes(T) == {k \in Keys : db[k].v.type \in T}

\* Every value is well formed, whatever the handlers left of it: no member
\* or field twice, a sorted set in the order of its scores and then of its
\* members; an entry without a value has no expiry time, and a running
\* command has a status for each of its keys.
TypeOK ==
    /\ \A k \in Keys : IsEntry(db[k])
    /\ now \in 1..MaxNow
    /\ left \in 0..M.len
    /\ \A s \in Sessions :
          LET x == sess[s]
          IN  /\ x.c \in 0..Len(M.calls)
              /\ x.c # 0 => /\ DOMAIN x.st = DOMAIN M.calls[x.c].keys
                            /\ \E i \in DOMAIN x.st : x.st[i] \in Pending
                            /\ \A i \in DOMAIN x.st : NextKey(x.st[i])

\* HSCAN, SSCAN and ZSCAN, called again with the cursor they answered until
\* it is 0, return every element that matches the pattern exactly once and
\* in order, whatever the COUNT (do_hmultiscan, do_smultiscan,
\* do_zmultiscan), as long as the key does not change.
ScanOnce(v, pos, max, pat) ==
    CASE v.type = "hash" -> HScan(v, pos, max, pat).rep
      [] v.type = "set"  -> SScan(v, pos, max, pat).rep
      [] v.type \in ZTypes -> ZScan(v, pos, max, pat).rep

Walk(v, max, pat) ==
    FoldLeft(LAMBDA acc, n :
                 IF acc.end THEN acc
                 ELSE LET r == ScanOnce(v, acc.pos, max, pat)
                      IN  [pos |-> r.cursor, end |-> r.cursor = 0, items |-> acc.items \o r.slots],
             [pos |-> 0, end |-> FALSE, items |-> <<>>],
             [n \in 1..(Len(v.data) + 1) |-> n])

ScanCovers ==
    \A k \in OfTypes({"hash", "set", "zset", "geo"}), max \in 1..3 :
        LET v == db[k].v
            name(e) == IF v.type = "set" THEN e ELSE e[1]
            all == {name(v.data[i]) : i \in DOMAIN v.data}
            odd == {name(v.data[i]) : i \in {j \in DOMAIN v.data : j % 2 = 1}}
        IN  \A pat \in {all, odd} :
                LET w == Walk(v, max, pat)
                IN  w.end /\ w.items = Select(v.data, LAMBDA e : name(e) \in pat)

\* The commands that take a range of indices agree on what it is: LTRIM
\* leaves what LRANGE answers, ZREMRANGEBYRANK removes what ZRANGE answers,
\* ZREMRANGEBYSCORE what ZRANGEBYSCORE answers and ZCOUNT counts, and a
\* reverse range is the range read backwards.
Bound(n, incl) == [end |-> "at", at |-> n, incl |-> incl]
Elems(v) == IF v.type \in {"none", "nodata"} THEN <<>> ELSE v.data

ListRange(v, from, to) == Elems(LTrim(v, from, to).v) = LRange(v, from, to).rep
ListRanges(v)          == \A from, to \in -4..4 : ListRange(v, from, to)

ZSetRanges(v) ==
    /\ \A from, to \in -4..4 :
          LET gone == ZRange(v, FALSE, from, to).rep
          IN  Elems(ZRemByRank(v, from, to).v) = Select(v.data, LAMBDA p : p \notin ToSet(gone))
    /\ \A lo, hi \in {10, 15, 20, 25}, a, b \in BOOLEAN :
          LET L == Bound(lo, a)
              R == Bound(hi, b)
              in == ZRangeBy(v, "score", FALSE, L, R, 0, 0).rep
          IN  /\ in = Select(v.data, LAMBDA p :
                          (lo < p[2] \/ (a /\ lo = p[2])) /\ (p[2] < hi \/ (b /\ hi = p[2])))
              /\ ZRangeBy(v, "score", TRUE, R, L, 0, 0).rep = Reverse(in)
              /\ lo < hi => /\ ZCount(v, "score", L, R).ival = Len(in)
                            /\ Elems(ZRemBy(v, "score", L, R).v)
                                   = Select(v.data, LAMBDA p : p \notin ToSet(in))

RangesAgree ==
    /\ \A k \in OfTypes({"list"}) : ListRanges(db[k].v)
    /\ \A k \in OfTypes({"zset"}) : ZSetRanges(db[k].v)

\* What SPOP, ZPOPMIN, ZPOPMAX, LPOP and RPOP answer is what they remove,
\* and nothing else; a key that has nothing left is deleted.
SetPops(v, n) ==
    \A r \in SPop(v, n) :
        /\ Len(r.rep) = Min({n, Len(v.data)})
        /\ Elems(r.v) = Select(v.data, LAMBDA m : m \notin ToSet(r.rep))
        /\ r.v = Absent <=> n >= Len(v.data)

ZSetPops(v, n) ==
    /\ ZPop(v, FALSE, n).rep \o Elems(ZPop(v, FALSE, n).v) = v.data
    /\ n <= Len(v.data) => Elems(ZPop(v, TRUE, n).v) \o Reverse(ZPop(v, TRUE, n).rep) = v.data

ListPops(v) ==
    LET l == Pop(v, "left", "send_nil")
        r == Pop(v, "right", "send_nil")
    IN  /\ l.rep \o Elems(l.v) = v.data
        /\ Elems(r.v) \o r.rep = v.data
        /\ l.v = Absent <=> Len(v.data) = 1

PopsWhatItAnswers ==
    \A k \in OfTypes({"set", "zset", "list"}), n \in 1..3 :
        LET v == db[k].v
        IN  v.data # <<>> => CASE v.type = "set"  -> SetPops(v, n)
                               [] v.type = "zset" -> ZSetPops(v, n)
                               [] v.type = "list" -> ListPops(v)

\* While only SMOVE commands run, on keys that do not expire, a member that
\* one key had at first is in one key, or on its way in one session:
\* exec_smove takes it from the source before the destination gets it, with
\* no lock held in between.
Holds(v, m) == v.type = "set" /\ m \in ToSet(v.data)

Moving(s, m) ==
    LET x == sess[s]
    IN  x.c # 0 /\ M.calls[x.c].cmd = "smove" /\ M.calls[x.c].m = m /\ x.st[1] = "ok"

MemberConserved ==
    (\A c \in DOMAIN M.calls : M.calls[c].cmd = "smove") /\ (\A k \in Keys : M.db[k].exp = 0) =>
        \A m \in {M.calls[c].m : c \in DOMAIN M.calls} :
            Cardinality({k \in Keys : Holds(M.db[k].v, m)}) = 1 =>
                Cardinality({k \in Keys : Holds(db[k].v, m)})
                    + Cardinality({s \in Sessions : Moving(s, m)}) = 1

\* A command ends in this step with a status, or with a count.
Ends(s, cmd, st) ==
    /\ sess[s].c # 0
    /\ sess'[s].c = 0
    /\ M.calls[sess[s].c].cmd = cmd
    /\ sess'[s].reply.st = st

Counts(s, cmd) == Ends(s, cmd, "send_int")

\* SUNIONSTORE, SINTERSTORE, SDIFFSTORE, ZUNIONSTORE and ZINTERSTORE leave
\* in the destination exactly the members that the operation has on what
\* was saved of all the sources, with the aggregate of the weighted scores,
\* and answer their number (do_ssetop, do_zsetop_store); PFMERGE leaves the
\* union of its sources, and GEORADIUS with a store key adds all the places
\* it found, with the score that was asked for (do_gradius_store).
In(op, S) == CASE op = "union" -> UNION {S[i] : i \in DOMAIN S}
               [] op = "inter" -> {m \in S[1] : \A i \in DOMAIN S : m \in S[i]}
               [] op = "diff"  -> {m \in S[1] : \A i \in DOMAIN S \ {1} : m \notin S[i]}

Stores(s) ==
    LET c    == M.calls[sess[s].c]
        dest == db'[c.keys[1]].v
        part == Tail(sess[s].part)
    IN  /\ Counts(s, "sstore") =>
              /\ ToSet(dest.data) = In(c.op, [i \in DOMAIN part |-> ToSet(part[i])])
              /\ sess'[s].reply.n = Cardinality(ToSet(dest.data))
              /\ sess'[s].reply.n = Len(dest.data)
        /\ Counts(s, "zstore") =>
              /\ Members(dest.data) = In(c.op, [i \in DOMAIN part |-> Members(part[i].z)])
              /\ sess'[s].reply.n = Len(dest.data)
              /\ FirstType(part) = "zset" => \A p \in ToSet(dest.data) :
                    LET w(i) == IF c.weights = <<>> THEN 1 ELSE c.weights[i]
                        from == {i \in DOMAIN part : p[1] \in Members(part[i].z)}
                        all  == {w(i) * Score(part[i].z, p[1]) : i \in from}
                    IN  CASE c.agg = "sum"  -> p[2] = MapThenSumSet(LAMBDA i : w(i) * Score(part[i].z, p[1]), from)
                          [] c.agg = "min"  -> p[2] = Min(all)
                          [] c.agg = "max"  -> p[2] = Max(all)
                          [] c.agg = "none" -> p[2] \in all
        /\ Counts(s, "georadius") =>
              LET found == sess[s].part[1]
              IN  /\ sess'[s].reply.n = Len(found)
                  /\ \A i \in DOMAIN found :
                        <<found[i][1], IF c.store = "hash" THEN found[i][2] ELSE found[i][3]>>
                            \in ToSet(db'[c.keys[2]].v.data)
        /\ Ends(s, "pfmerge", "send_ok") => ToSet(dest.data) = Merged(part)

StoreExact == [][\A s \in Sessions : Stores(s)]_cvars

\* BITFIELD changes no bit outside the field, and what it leaves in the
\* field is the sum: modulo the width of the field, at the bound it passes,
\* or as it was, in the range of the field, and the answer (Int72 and exec_bitfield).
FieldSums(b) ==
        \A signed \in BOOLEAN, width \in {3, 5}, off \in {0, 2}, val \in {-13, -1, 0, 9},
           over \in {"wrap", "sat", "fail"} :
            LET f   == [op |-> "incrby", signed |-> signed, width |-> width, off |-> off,
                        val |-> val, over |-> over]
                r   == FieldOp(b, f)
                old == FieldBits(b, f)
                new == FieldBits(r.b, f)
                sum == old + val
            IN  /\ \A i \in (0..(8 * Len(b) - 1)) \ (off..(off + width - 1)) : Bit(r.b, i) = Bit(b, i)
                /\ new \in Lowest(f)..Highest(f)
                /\ over # "fail" \/ sum \in Lowest(f)..Highest(f) => r.rep = new
                /\ over = "wrap" => (new - sum) % 2^width = 0
                /\ over = "sat"  => new = Max({Lowest(f), Min({Highest(f), sum})})
                /\ over = "fail" => new = IF sum \in Lowest(f)..Highest(f) THEN sum ELSE old

BitFieldExact ==
    \A k \in OfTypes({"string"}) : Len(db[k].v.data) \in 1..2 => FieldSums(db[k].v.data)

\* SETRANGE changes the bytes it is given and no others, a gap reads as
\* zeros, and GETRANGE answers what SETRANGE and APPEND wrote.
RoundTrip(v, off, x) ==
    LET b == Bytes(v)
        r == SetRange(v, off, x)
        n == off + Len(x)
    IN  /\ GetRange(r.v, off, n - 1).rep = x
        /\ r.ival = Max({Len(b), n}) /\ StrLen(r.v).ival = r.ival
        /\ \A i \in (1..r.ival) \ ((off + 1)..n) :
              r.v.data[i] = IF i <= Len(b) THEN b[i] ELSE 0
        /\ GetRange(Append_(v, x).v, 0 - Len(x), -1).rep = x

\* RoundTrip for every string, short offsets and values of one and two bytes
RangeRoundTrip ==
    \A k \in OfTypes({"string", "none"}), off \in 0..3, x \in {<<7>>, <<7, 8>>} :
        RoundTrip(db[k].v, off, x)

\* GEORADIUS answers places within the radius.  One of them is missing just
\* when its hexagon, of the size that is chosen for the radius, is another
\* one than that of the origin and has no corner within the radius, or is
\* not beside it: a circle can reach into a hexagon between two corners.
\* With a COUNT, ASC gives the nearest of what is found and DESC the
\* farthest, and without an order it is the first of what is answered
\* without COUNT.
Missed(at, radius, c) ==
    LET n == Level(radius)
    IN  /\ Hexagon(c, n) # Hexagon(at, n)
        /\ \/ ~Ring(Hexagon(at, n), Hexagon(c, n), n)
           \/ \A p \in Corners(Hexagon(c, n), n) : Between(p, Centre(at)) > radius

RadiusAnswers ==
    \A k \in OfTypes({"geo"}), at \in {6, 7, 18}, radius \in {0, 2, 4, 5}, n \in 1..3 :
        LET v == db[k].v
            R(order, count) == GRadius(v, "cell", at, radius, order, count, "none").rep
            all  == R("none", 0)
            near == {p \in ToSet(v.data) : Dist(p[2], at) <= radius}
        IN  /\ Members(all) = {p[1] : p \in {q \in near : ~Missed(at, radius, q[2])}}
            /\ R("none", n) = SubSeq(all, 1, Min({n, Len(all)}))
            /\ \A order \in {"asc", "desc"} :
                  LET r == R(order, n)
                      farther(p, q) == IF order = "asc" THEN p[3] <= q[3] ELSE p[3] >= q[3]
                  IN  /\ Len(r) = Min({n, Len(all)})
                      /\ \A p \in ToSet(r), q \in ToSet(all) \ ToSet(r) : farther(p, q)
                      /\ \A i, j \in DOMAIN r : i < j => farther(r[i], r[j])

\* A step after which a blocked BLPOP or BZPOPMIN would find an element,
\* and before which it would not, tells of it (EKF_LISTBLKD_NOT,
\* EKF_ZSETBLKD_NOT).  RENAME and the INCR of ZADD do not.
Finds(v) ==
    BPop(v, "k", "left").st = "send_data" \/ BZPop(v, "k", FALSE).st = "send_data"

Quiet(c) == c.cmd = "rename" \/ (c.cmd = "zadd" /\ "incr" \in c.flags)

WaitersTold ==
    [][\A s \in Sessions, k \in Keys :
          sess[s].c # 0 /\ sess'[s] # sess[s] /\ ~Quiet(M.calls[sess[s].c])
            /\ ~Finds(Fetched(db[k], now).v) /\ Finds(Fetched(db'[k], now).v) =>
              sess'[s].fl \cap {"listblkd", "zsetblkd"} # {}]_cvars

\* Reading a stream with XREAD, each time from the last id that was
\* answered, gives every entry once and in order, XREVRANGE reads XRANGE
\* backwards and XTRIM keeps what XREVRANGE answers first: as long as the
\* ids are in order, and they are while all are generated, whatever is
\* deleted and however many there are in a millisecond (get_next_id).
Ascending(ids) == \A i, j \in DOMAIN ids : i < j => ids[i] < ids[j]

Generated(c) == c.catg = "stream" /\ (c.cmd = "xadd" => c.id = 0)

ReadOn(v, max) ==
    FoldLeft(LAMBDA acc, n : acc \o XRead(v, IF acc = <<>> THEN 0 ELSE Last(acc), max).rep,
             <<>>, [n \in 1..Len(v.data) |-> n])

StreamReads ==
    \A k \in OfTypes({"stream"}) :
        LET v == db[k].v
        IN  /\ (\A c \in DOMAIN M.calls : Generated(M.calls[c])) => Ascending(v.data)
            /\ Ascending(v.data) =>
                  /\ \A max \in 0..2 : ReadOn(v, max) = v.data
                  /\ \A lo, hi \in 1..7 :
                        LET r == XRange(v, FALSE, lo, hi, 0).rep
                        IN  /\ r = Select(v.data, LAMBDA id : id \in lo..hi)
                            /\ XRange(v, TRUE, hi, lo, 0).rep = Reverse(r)
                  /\ \A n \in 1..2 : XTrim(v, n).v.data = Reverse(XRange(v, TRUE, Top, 0, n).rep)

\* What XREADGROUP gives to a consumer is what the group moves over, and it
\* is pending for that consumer; a pending record goes only with the XACK of
\* its id, with its group, its consumer or the key.
Acknowledges(c, p) ==
    \/ c.catg # "stream"
    \/ c.cmd = "xack" /\ c.g = p.grp /\ p.id \in ToSet(c.ids)
    \/ c.cmd = "xgroup" /\ c.sub = "destroy" /\ c.g = p.grp
    \/ c.cmd = "xgroup" /\ c.sub = "delconsumer" /\ c.g = p.grp /\ c.con = p.con

Served(c, v, w) ==
    LET over == {id \in ToSet(v.data) : LastOf(v, c.g) < id /\ id <= LastOf(w, c.g)}
        new  == SubSeq(w.pend, Len(v.pend) + 1, Len(w.pend))
    IN  /\ over = {new[i].id : i \in DOMAIN new}
        /\ Len(new) = Cardinality(over)
        /\ \A i \in DOMAIN new : new[i].grp = c.g /\ new[i].con = c.con
        /\ c.cnt > 0 => Len(new) <= c.cnt

PendingUntilAcked ==
    [][\A s \in Sessions, k \in Keys :
          LET c == M.calls[sess[s].c]
              v == Fetched(db[k], now).v
              w == db'[k].v
          IN  sess[s].c # 0 /\ sess'[s] # sess[s] /\ v.type = "stream" =>
                  /\ \A p \in ToSet(v.pend) :
                        \/ Acknowledges(c, p)
                        \/ w.type = "stream" /\ \E q \in ToSet(w.pend) : q.grp = p.grp /\ q.id = p.id
                  /\ c.cmd = "xreadgroup" /\ w # v /\ Ascending(v.data) => Served(c, v, w)]_cvars

\* A MSETNX that answers 0 has set none of its keys, and one that answers 1
\* all of them (exec_msetnx, two passes over the keys).
MsetnxAllOrNone ==
    [][\A s \in Sessions :
          sess[s].c # 0 /\ M.calls[sess[s].c].cmd = "msetnx" /\ sess'[s].c = 0 =>
              LET x   == sess[s]
                  set == {i \in DOMAIN x.st : x.st[i] = "send_one"}
              IN  IF sess'[s].reply.st = "send_one" THEN Cardinality(set) + 1 = Len(x.st)
                  ELSE set = {}]_cvars
=============================================================================
