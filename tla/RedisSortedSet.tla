---------------------------- MODULE RedisSortedSet ---------------------------
(***************************************************************************)
(* The sorted set commands of one key.  A sorted set is the sequence of    *)
(* its members with their scores, in the order of scores and then of       *)
(* members; a geo key is the same with the cell of the member as score.    *)
(***************************************************************************)
EXTENDS RedisValue

LOCAL H == INSTANCE RedisHash

ZTypes   == {"zset", "geo"}
ZFlags(T) == {"event", T}
Members(z) == {z[i][1] : i \in DOMAIN z}
Score(z, m) == (CHOOSE p \in ToSet(z) : p[1] = m)[2]

Ahead(p, q) == p[2] < q[2] \/ (p[2] = q[2] /\ p[1] < q[1])

\* in order, and no member twice
IsZSet(z) ==
    /\ z \in Seq(Int \X Int)
    /\ \A i, j \in DOMAIN z : i < j => Ahead(z[i], z[j])
    /\ \A i, j \in DOMAIN z : z[i][1] = z[j][1] => i = j

Sorted(S) == InOrder(S, Ahead)
Put(z, m, s)   == Sorted({p \in ToSet(z) : p[1] # m} \cup {<<m, s>>})
Without(z, S)  == Select(z, LAMBDA p : p[1] \notin S)

ZRead_(v, missing, Op(_)) ==
    IF v.type \in {"none", "nodata"} THEN missing
    ELSE IF v.type \in ZTypes THEN Op(v.data) ELSE Status(v, "bad_type")

\* a set that lost members goes with its last one
ZLeft(v, z, st, rep, n) ==
    LET r == IF n = 0 THEN Done(v, st, rep, {})
             ELSE IF z = <<>> THEN Done(Absent, st, rep, ZFlags(v.type) \cup {"del"})
             ELSE Done(Val(v.type, z), st, rep, ZFlags(v.type))
    IN  [r EXCEPT !.ival = n]

-----------------------------------------------------------------------------
(* Positions.  A bound is the low end, the high end or a value, inclusive  *)
(* or not, by score or by member; a range is given by the number of        *)
(* elements in front of it and the number up to its end.                   *)

By(how, p) == IF how = "score" THEN p[2] ELSE p[1]

\* zbsearch: the elements before the first one that is not below the bound,
\* or with gt the first one above it
Below(z, how, b, gt) ==
    CASE b.end = "low"  -> 0
      [] b.end = "high" -> Len(z)
      [] b.end = "at"   -> Cardinality({i \in DOMAIN z : \/ By(how, z[i]) < b.at
                                                         \/ gt /\ By(how, z[i]) = b.at})

Span(z, how, lo, hi) == <<Below(z, how, lo, ~lo.incl), Below(z, how, hi, hi.incl)>>

\* Mutant of RevSpan: the bounds of a reverse range are not exchanged
RevSpanStraight(z, how, hi, lo) == Span(z, how, lo, hi)

\* the range of a reverse command counts from the last element
RevSpan(z, how, hi, lo) ==
    <<Len(z) - Below(z, how, hi, hi.incl), Len(z) - Below(z, how, lo, ~lo.incl)>>

-----------------------------------------------------------------------------
(* do_zread *)

ZCard(v) == ZRead_(v, Status(v, "send_zero"), LAMBDA z : SendInt(v, Len(z), {}))

\* ZSCORE, ZRANK, ZREVRANK
ZMember(v, op, m) ==
    ZRead_(v, Status(v, "send_zero"), LAMBDA z :
        LET i == CHOOSE j \in DOMAIN z : z[j][1] = m
        IN  IF m \notin Members(z) THEN Status(v, "send_nil")
            ELSE CASE op = "zscore"   -> Data(v, <<Score(z, m)>>)
                   [] op = "zrank"    -> SendInt(v, i - 1, {})
                   [] op = "zrevrank" -> SendInt(v, Len(z) - i, {}))

\* the difference of the positions, below zero when the bounds are crossed
ZCount(v, how, lo, hi) ==
    ZRead_(v, Status(v, "send_zero"), LAMBDA z :
        LET r == Span(z, how, lo, hi)
        IN  IF v.type = "geo" /\ how = "lex" THEN Status(v, "bad_type")
            ELSE SendInt(v, r[2] - r[1], {}))

-----------------------------------------------------------------------------
(* do_zwrite *)

\* zadd of the library: nx keeps a member, xx adds none, ch counts changes
\* as well, incr adds to the score
ZAdd1(acc, p, fl) ==
    LET m   == p[1]
        old == m \in Members(acc.z)
        s   == IF old /\ "incr" \in fl THEN Score(acc.z, m) + p[2] ELSE p[2]
    IN  IF (old /\ "nx" \in fl) \/ (~old /\ "xx" \in fl) THEN acc
        ELSE [z |-> Put(acc.z, m, s), s |-> s,
              n |-> IF ~old \/ ("ch" \in fl /\ s # Score(acc.z, m)) THEN acc.n + 1 ELSE acc.n]

\* The set is created before the first member is tried, so that XX leaves an
\* empty one.  INCR answers the last score and sets no event flags.
ZAddTo(v, fl, pairs) ==
    LET z == IF v.type = "zset" THEN v.data ELSE <<>>
        r == FoldLeft(LAMBDA acc, p : ZAdd1(acc, p, fl), [z |-> z, s |-> pairs[1][2], n |-> 0], pairs)
    IN  IF v.type = "geo" THEN Status(v, "bad_type")
        ELSE IF "incr" \in fl THEN Done(Val("zset", r.z), "ok", <<r.s>>, {})
        ELSE SendInt(Val("zset", r.z), r.n,
                     IF r.n > 0 THEN ZFlags("zset") \cup {"zsetblkd"} ELSE {})

ZRemFrom(v, ms) ==
    ZRead_(v, Status(v, "send_zero"), LAMBDA z :
        LET left == Without(z, ToSet(ms))
        IN  ZLeft(v, left, "send_int", <<>>, Len(z) - Len(left)))

\* The handler tests for no type but geo: the bytes of a list, a string or
\* any other key are opened as a sorted set.  How many of the members they
\* seem to hold is not told, and when one is added or removed the bytes are
\* those of neither type; a set that seems to have lost its last one goes.
Misread(v) == v.type \notin {"none", "nodata"} \cup ZTypes

ZAdd(v, fl, pairs) ==
    IF ~Misread(v) THEN {ZAddTo(v, fl, pairs)}
    ELSE IF "incr" \in fl THEN {Done(w, "ok", Nil, {}) : w \in {v, Scrambled(v)}}
    ELSE {SendInt(v, 0, {})}
         \cup {SendInt(Scrambled(v), n, ZFlags("zset") \cup {"zsetblkd"}) : n \in 1..Len(pairs)}

ZRem(v, ms) ==
    IF ~Misread(v) THEN {ZRemFrom(v, ms)}
    ELSE {SendInt(v, 0, {})}
         \cup {SendInt(Scrambled(v), n, ZFlags("zset")) : n \in 1..Len(ms)}
         \cup {SendInt(Absent, n, ZFlags("zset") \cup {"del"}) : n \in 1..Len(ms)}

-----------------------------------------------------------------------------
(* do_zmultiscan *)

\* the items from position i to j, all or at most cnt of them
Items(z, i, j, rev, cnt) ==
    LET n == IF cnt <= 0 THEN j - i ELSE Min({cnt, j - i})
    IN  [k \in 1..Max({0, n}) |-> IF rev THEN z[Len(z) + 1 - (i + k)] ELSE z[i + k]]

ZRange(v, rev, from, to) ==
    ZRead_(v, Data(v, <<>>), LAMBDA z :
        LET r == Clip(Len(z), from, to) IN Data(v, Items(z, r[1], r[2], rev, 0)))

\* LIMIT off cnt, 0 and 0 without one; the position is unsigned, so that an
\* offset to before the first element is one beyond the last.  A reverse
\* command has the high bound first.
ZRangeBy(v, how, rev, first, last, off, cnt) ==
    ZRead_(v, Data(v, <<>>), LAMBDA z :
        LET r == IF rev THEN RevSpan(z, how, first, last) ELSE Span(z, how, first, last)
        IN  IF v.type = "geo" /\ how = "lex" THEN Status(v, "bad_type")
            ELSE Data(v, IF r[1] + off < 0 THEN <<>> ELSE Items(z, r[1] + off, r[2], rev, cnt)))

\* the cursor is answered as it came when it is beyond the end
ZScan(v, pos, max, pat) ==
    LET z == IF v.type \in ZTypes THEN v.data ELSE <<>>
        r == H!ScanFrom(pos, Len(z), max, {i - 1 : i \in {j \in DOMAIN z : z[j][1] \in pat}})
    IN  ZRead_(v, Data(v, r), LAMBDA x :
            Data(v, [r EXCEPT !.slots = [i \in DOMAIN r.slots |-> z[r.slots[i] + 1]]]))

-----------------------------------------------------------------------------
(* do_zremrange *)

\* elements i + 1 up to j go
Cut(z, i, j) == SubSeq(z, 1, i) \o SubSeq(z, j + 1, Len(z))

\* ZPOPMIN takes what there is; ZPOPMAX of more than there is takes nothing
PopSpan(n, max, cnt) ==
    IF max THEN <<IF cnt > 0 /\ cnt <= n THEN n - cnt ELSE n, n>>
    ELSE <<0, IF cnt > n THEN n ELSE IF cnt < 0 THEN 0 ELSE cnt>>

ZPop(v, max, cnt) ==
    ZRead_(v, Status(v, "send_zeroarr"), LAMBDA z :
        LET r   == PopSpan(Len(z), max, cnt)
            out == SubSeq(z, r[1] + 1, r[2])
        IN  IF z = <<>> THEN Status(v, "send_zeroarr")
            ELSE ZLeft(v, Cut(z, r[1], r[2]), "ok", IF max THEN Reverse(out) ELSE out, r[2] - r[1]))

\* BZPOPMIN and BZPOPMAX: the first key with a member is the only one answered
BZPop(v, k, max) ==
    LET r == ZPop(v, max, 1)
    IN  IF r.st = "ok" THEN [r EXCEPT !.st = "send_data", !.rep = <<k>> \o @]
        ELSE IF r.st = "send_zeroarr" THEN [r EXCEPT !.st = "blocked"] ELSE r

ZRemByRank(v, from, to) ==
    ZRead_(v, Status(v, "send_zero"), LAMBDA z :
        LET r == Clip(Len(z), from, to)
        IN  IF r[1] >= r[2] THEN Status(v, "send_zero")
            ELSE ZLeft(v, Cut(z, r[1], r[2]), "send_int", <<>>, r[2] - r[1]))

\* the signs of the low and the high end by member are not tested for here:
\* they are looked up as members, and come before every other
Literal(how, b) == IF how = "lex" /\ b.end = "high" THEN [b EXCEPT !.end = "low"] ELSE b

\* crossed bounds answer a count below zero
ZRemBy(v, how, lo, hi) ==
    ZRead_(v, Status(v, "send_zero"), LAMBDA z :
        LET r == Span(z, how, Literal(how, lo), Literal(how, hi))
        IN  IF v.type = "geo" THEN Status(v, "bad_type")
            ELSE IF z = <<>> THEN Status(v, "send_zero")
            ELSE IF r[1] < r[2] THEN ZLeft(v, Cut(z, r[1], r[2]), "send_int", <<>>, r[2] - r[1])
            ELSE SendInt(v, r[2] - r[1], {}))

-----------------------------------------------------------------------------
(* do_zsetop: the sources are saved one key at a time with their types and *)
(* merged, each into those before it, when the last one is there.          *)

SaveZSet(v) ==
    IF v.type \notin ZTypes \cup {"none", "nodata"} THEN Status(v, "bad_type")
    ELSE Data(v, [type |-> IF v.type = "none" THEN "nodata" ELSE v.type,
                  z    |-> IF v.type \in ZTypes THEN v.data ELSE <<>>])

Aggregate(agg, a, b) ==
    CASE agg = "sum"  -> a + b
      [] agg = "min"  -> Min({a, b})
      [] agg = "max"  -> Max({a, b})
      [] agg = "none" -> a

\* zscale, zunion and zinter of the library; cells are not scaled
Scale(z, w) == Sorted({<<p[1], w * p[2]>> : p \in ToSet(z)})

ZMerge(op, agg, a, b) ==
    LET both == Members(a) \cap Members(b)
        one  == IF op = "union" THEN {p \in ToSet(a) \cup ToSet(b) : p[1] \notin both} ELSE {}
    IN  Sorted(one \cup {<<m, Aggregate(agg, Score(a, m), Score(b, m))>> : m \in both})

\* the type of the first source that has one
FirstType(parts) ==
    LET t == Select(parts, LAMBDA p : p.type # "nodata")
    IN  IF t = <<>> THEN "zset" ELSE t[1].type

\* a weight of 0 does not scale the first source
ZMergeAll(op, agg, weights, parts) ==
    LET geo == FirstType(parts) = "geo"
        z   == [i \in DOMAIN parts |->
                  IF geo \/ weights = <<>> \/ (i = 1 /\ weights[1] = 0) THEN parts[i].z
                  ELSE Scale(parts[i].z, weights[i])]
    IN  FoldLeft(LAMBDA acc, s : ZMerge(op, IF geo THEN "none" ELSE agg, acc, s), z[1], Tail(z))

\* the sources are of one type, those without a member aside
ZMixed(parts) == \E i \in DOMAIN parts : parts[i].type \notin {"nodata", FirstType(parts)}

\* The destination is replaced whatever its type, also by an empty set.  It
\* gets the type of the last source, and that of a sorted set when the last
\* source has none, geo data included.
ZStore(v, op, agg, weights, parts) ==
    LET m    == ZMergeAll(op, agg, weights, parts)
        type == IF Len(parts) = 1 THEN FirstType(parts) ELSE parts[Len(parts)].type
        T    == IF type = "nodata" THEN "zset" ELSE type
    IN  IF ZMixed(parts) THEN Status(v, "bad_type")
        ELSE SendInt(Val(T, m), Len(m), {"event", FirstType(parts), "zsetblkd"})
=============================================================================
