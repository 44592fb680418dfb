----------------------------- MODULE RedisStream -----------------------------
(***************************************************************************)
(* The stream commands of one key.  A stream is the sequence of the ids of *)
(* its entries, the fields are left out, with its consumer groups, each    *)
(* with the id it was last served, and the list of what was delivered and  *)
(* not acknowledged.  An id is a millisecond and a serial number, SubMs of *)
(* which make a millisecond, as one number; the update stamp of the entry  *)
(* is the last id that was generated.                                      *)
(***************************************************************************)
EXTENDS RedisValue

SubMs == 2
StreamFlags == {"event", "stream"}

Stream(ids, grp, pend, upd) ==
    [type |-> "stream", data |-> ids, grp |-> grp, pend |-> pend, upd |-> upd]
NewStream == Stream(<<>>, <<>>, <<>>, 0)

\* every part of a stream is there, and each list is a sequence
IsStream(v) ==
    /\ v = Stream(v.data, v.grp, v.pend, v.upd)
    /\ v.data \in Seq(Int) /\ v.upd \in Int
    /\ IsSeq(v.grp) /\ IsSeq(v.pend)

Pend(id, grp, con, ns, cnt) == [id |-> id, grp |-> grp, con |-> con, ns |-> ns, cnt |-> cnt]

\* a write command of another category stamps the entry with its own time
Stamped(v, stamp) == IF v.type = "stream" THEN [v EXCEPT !.upd = stamp] ELSE v

IsNew(v) == v.type \in {"none", "nodata"}

StreamRead(v, missing, Op(_)) ==
    IF IsNew(v) THEN Status(v, missing)
    ELSE IF v.type = "stream" THEN Op(v.data) ELSE Status(v, "bad_type")

\* bsearch_str of the library raimd: the position of the first entry that is
\* not before the id, with gt of the first one after it
Position(ids, id, gt) == Cardinality({i \in DOMAIN ids : ids[i] < id \/ (gt /\ ids[i] = id)})
Top == 1000

Groups(v)    == {v.grp[i].name : i \in DOMAIN v.grp}
LastOf(v, g) == (CHOOSE r \in ToSet(v.grp) : r.name = g).last
UpdateGroup(v, g, id) ==
    IF g \in Groups(v)
    THEN [v EXCEPT !.grp = [i \in DOMAIN @ |-> IF @[i].name = g THEN [name |-> g, last |-> id] ELSE @[i]]]
    ELSE [v EXCEPT !.grp = Append(@, [name |-> g, last |-> id])]

-----------------------------------------------------------------------------
(* Entries *)

\* Mutant of NextId: the clock alone
NextIdClock(v, now) == now * SubMs

\* get_next_id: the clock, or the last id generated and one when the clock is
\* not beyond it.  Ids that were given are not looked at.
NextId(v, now) ==
    IF v.upd # 0 /\ v.upd \div SubMs >= now THEN v.upd + 1 ELSE now * SubMs

Trimmed(ids, maxlen) ==
    IF maxlen > 0 /\ Len(ids) > maxlen THEN SubSeq(ids, Len(ids) - maxlen + 1, Len(ids)) ELSE ids

\* id 0 asks for a generated one, an id below zero is malformed.  The stream
\* is created before the id is looked at.
XAdd(v, now, id, maxlen) ==
    LET s   == IF IsNew(v) THEN NewStream ELSE v
        new == IF id = 0 THEN NextId(s, now) ELSE id
    IN  IF v.type \notin {"none", "nodata", "stream"} THEN Status(v, "bad_type")
        ELSE IF id < 0 \/ (id # 0 /\ s.data # <<>> /\ id <= Last(s.data))
        THEN Status(IF IsNew(v) THEN Untyped ELSE v, "stream_id")
        ELSE Done([s EXCEPT !.data = Trimmed(Append(@, new), maxlen),
                            !.upd  = IF id = 0 THEN new ELSE @],
                  "ok", <<new>>, StreamFlags \cup {"strmblkd"})

XTrim(v, maxlen) ==
    IF maxlen = 0 THEN SendInt(v, 0, {})
    ELSE StreamRead(v, "send_zero", LAMBDA ids :
             LET left == Trimmed(ids, maxlen)
             IN  SendInt([v EXCEPT !.data = left], Len(ids) - Len(left),
                         IF left # ids THEN StreamFlags ELSE {}))

\* the pending records of a deleted entry stay, and so does an empty stream
XDel(v, gone) ==
    StreamRead(v, "send_zero", LAMBDA ids :
        LET left == Select(ids, LAMBDA id : id \notin ToSet(gone))
        IN  SendInt([v EXCEPT !.data = left], Len(ids) - Len(left),
                    IF left # ids THEN StreamFlags ELSE {}))

XLen(v) == StreamRead(v, "send_zero", LAMBDA ids : SendInt(v, Len(ids), {}))

AtMost(seq, cnt) == IF cnt > 0 /\ Len(seq) > cnt THEN SubSeq(seq, 1, cnt) ELSE seq

\* XRANGE and XREVRANGE, which has the higher id first
XRange(v, rev, start, end, cnt) ==
    StreamRead(v, "send_zeroarr", LAMBDA ids :
        LET lo == Position(ids, IF rev THEN end ELSE start, FALSE)
            hi == Position(ids, IF rev THEN start ELSE end, TRUE)
            r  == SubSeq(ids, lo + 1, hi)
        IN  Data(v, AtMost(IF rev THEN Reverse(r) ELSE r, cnt)))

-----------------------------------------------------------------------------
(* Reading several keys: finish_xread answers the only key at once, else it *)
(* saves what each key has and answers with the last one.                   *)

FinishXRead(r, keys, last, parts, block) ==
    LET none == IF block THEN "blocked" ELSE "send_null"
        any  == \E i \in DOMAIN parts : parts[i] # <<>>
    IN  IF r.st # "ok" THEN r
        ELSE IF r.rep = <<>> /\ (keys = 1 \/ (last /\ ~any)) THEN [r EXCEPT !.st = none]
        ELSE r

\* the entries after id
XRead(v, id, cnt) ==
    IF IsNew(v) THEN Data(v, <<>>)
    ELSE StreamRead(v, "ok", LAMBDA ids :
             Data(v, AtMost(SubSeq(ids, Position(ids, id, TRUE) + 1, Len(ids)), cnt)))

\* Mutant of Serve: the group moves to the end of the stream, whatever the
\* count
ServeAll(v, g, con, now, out) ==
    LET w == [v EXCEPT !.pend = @ \o [i \in DOMAIN out |-> Pend(out[i], g, con, now, 1)]]
    IN  IF out = <<>> THEN v ELSE UpdateGroup(w, g, Last(v.data))

\* what the group is served becomes pending for the consumer, and the group
\* moves to the last of it
Serve(v, g, con, now, out) ==
    LET w == [v EXCEPT !.pend = @ \o [i \in DOMAIN out |-> Pend(out[i], g, con, now, 1)]]
    IN  IF out = <<>> THEN v ELSE UpdateGroup(w, g, Last(out))

\* XREADGROUP of the next entries, id Top, or of those of the consumer that
\* are pending, which is answered also when there are none (framed).  NOACK
\* is not looked at.
XReadGroup(v, g, con, id, cnt, now) ==
    LET new  == AtMost(Select(v.data, LAMBDA e : e > LastOf(v, g)), cnt)
        mine == {p.id : p \in {q \in ToSet(v.pend) : q.grp = g /\ q.con = con}}
        old  == AtMost(Select(v.data, LAMBDA e : e > id /\ e \in mine), cnt)
    IN  IF IsNew(v) \/ (v.type = "stream" /\ g \notin Groups(v)) THEN Status(v, "no_group")
        ELSE IF v.type # "stream" THEN Status(v, "bad_type")
        ELSE IF id = Top THEN Data(Serve(v, g, con, now, new), new)
        ELSE Data(v, <<"framed">> \o old)

-----------------------------------------------------------------------------
(* Groups.  The id Top stands for the last entry. *)

GroupId(v, id) == IF id = Top THEN Last(v.data) ELSE id

XSetId(v, g, id) ==
    IF IsNew(v) THEN Status(v, "no_group")
    ELSE IF v.type # "stream" THEN Status(v, "bad_type")
    ELSE IF (id = Top /\ v.data = <<>>) \/ g \notin Groups(v) THEN Status(v, "no_group")
    ELSE Done(UpdateGroup(v, g, GroupId(v, id)), "send_ok", <<>>, StreamFlags)

XGroupCreate(v, g, id, mkstream) ==
    LET s == IF IsNew(v) THEN NewStream ELSE v
    IN  IF IsNew(v) /\ ~mkstream THEN Status(v, "key_doesnt_exist")
        ELSE IF s.type # "stream" THEN Status(v, "bad_type")
        ELSE IF id = Top /\ s.data = <<>> THEN Status(IF IsNew(v) THEN Untyped ELSE v, "bad_args")
        ELSE IF g \in Groups(s) THEN Status(v, "group_exists")
        ELSE Done(UpdateGroup(s, g, GroupId(s, id)), "send_ok", <<>>, StreamFlags)

XGroupSetId(v, g, id) ==
    IF ~IsNew(v) /\ v.type = "stream" /\ id = Top /\ v.data = <<>> THEN Status(v, "bad_args")
    ELSE XSetId(v, g, id)

XGroupDestroy(v, g) ==
    IF IsNew(v) THEN Status(v, "send_ok")
    ELSE IF v.type # "stream" THEN Status(v, "bad_type")
    ELSE IF g \notin Groups(v) THEN SendInt(v, 0, {})
    ELSE SendInt([v EXCEPT !.grp  = Select(@, LAMBDA r : r.name # g),
                           !.pend = Select(@, LAMBDA p : p.grp # g)], 1, StreamFlags)

XGroupDelConsumer(v, g, con) ==
    IF IsNew(v) THEN Status(v, "send_ok")
    ELSE IF v.type # "stream" THEN Status(v, "bad_type")
    ELSE LET left == Select(v.pend, LAMBDA p : p.grp # g \/ p.con # con)
             n    == Len(v.pend) - Len(left)
         IN  SendInt([v EXCEPT !.pend = left], n, IF n > 0 THEN StreamFlags ELSE {})

\* the first record of an id
Find(v, g, id) ==
    LET at == {i \in DOMAIN v.pend : v.pend[i].grp = g /\ v.pend[i].id = id}
    IN  IF at = {} THEN 0 ELSE Min(at)

XAck(v, g, ids) ==
    LET Ack(acc, id) == LET i == Find(acc.v, g, id)
                        IN  IF i = 0 THEN acc
                            ELSE [v |-> [acc.v EXCEPT !.pend = RemoveAt(@, i)], n |-> acc.n + 1]
        r == FoldLeft(Ack, [v |-> v, n |-> 0], ids)
    IN  IF IsNew(v) THEN SendInt(v, 0, {})
        ELSE IF v.type # "stream" THEN Status(v, "bad_type")
        ELSE SendInt(r.v, r.n, {})

\* IDLE, TIME and RETRYCOUNT of XCLAIM, 0 when they are not given: when the
\* record was delivered, and how often
ClaimTime(opt, now) ==
    IF opt.idle # 0 THEN now - opt.idle ELSE IF opt.time # 0 THEN opt.time ELSE now
ClaimCount(opt, justid, cnt) ==
    IF opt.retrycount # 0 THEN opt.retrycount ELSE IF justid THEN cnt ELSE cnt + 1

\* XCLAIM moves a record that was idle long enough to the consumer, and
\* counts a delivery unless only ids are asked for; FORCE makes a record for
\* an entry that has none, of a group that is not there as well.  Only what
\* is still in the stream is answered.
XClaim(v, g, con, idle, ids, force, justid, opt, now) ==
    LET Old(s, i) == i # 0 /\ now - s.pend[i].ns >= idle
        Claim(acc, id) ==
            LET s == acc.v
                i == Find(s, g, id)
                w == IF Old(s, i)
                     THEN [s EXCEPT !.pend[i] = Pend(id, g, con, ClaimTime(opt, now), ClaimCount(opt, justid, @.cnt))]
                     ELSE IF i = 0 /\ force /\ id \in ToSet(s.data)
                     THEN [s EXCEPT !.pend = Append(@, Pend(id, g, con, now, 1))] ELSE s
            IN  [v |-> w, out |-> IF (Old(s, i) \/ force) /\ id \in ToSet(s.data)
                                  THEN Append(acc.out, id) ELSE acc.out]
        r == FoldLeft(Claim, [v |-> v, out |-> <<>>], ids)
    IN  IF IsNew(v) THEN Status(v, "no_group")
        ELSE IF v.type # "stream" THEN Status(v, "bad_type")
        ELSE IF r.out = <<>> THEN Status(r.v, "send_zeroarr") ELSE Data(r.v, r.out)

-----------------------------------------------------------------------------
(* What is pending *)

PendingOf(v, g) == Select(v.pend, LAMBDA p : p.grp = g)

\* the consumers of records, in the order of their first one
Consumers(recs) ==
    FoldLeft(LAMBDA acc, p : IF p.con \in ToSet(acc) THEN acc ELSE Append(acc, p.con), <<>>, recs)
CountOf(recs, con) == Len(Select(recs, LAMBDA p : p.con = con))

\* XPENDING key group: how many, and how many of each consumer
XPending(v, g) ==
    StreamRead(v, "no_group", LAMBDA ids :
        LET recs == PendingOf(v, g)
            cons == Consumers(recs)
        IN  IF recs = <<>> /\ g \notin Groups(v) THEN Status(v, "no_group")
            ELSE Data(v, [n |-> Len(recs), ids |-> {recs[i].id : i \in DOMAIN recs},
                          cons |-> [i \in DOMAIN cons |-> <<cons[i], CountOf(recs, cons[i])>>]]))

\* XPENDING key group start end count [consumer], all of them when con is nil
XPendingList(v, g, start, end, cnt, con, now) ==
    LET recs == AtMost(Select(PendingOf(v, g), LAMBDA p :
                           p.id \in start..end /\ (con = "nil" \/ p.con = con)), cnt)
    IN  IF cnt <= 0 THEN Status(v, "send_zeroarr")
        ELSE StreamRead(v, "no_group", LAMBDA ids :
                 IF recs # <<>> THEN Data(v, [i \in DOMAIN recs |->
                          <<recs[i].id, recs[i].con, Max({now - recs[i].ns, 0}), recs[i].cnt>>])
                 ELSE Status(v, IF g \in Groups(v) THEN "send_zeroarr" ELSE "no_group"))

XInfoConsumers(v, g, now) ==
    StreamRead(v, "send_zeroarr", LAMBDA ids :
        LET recs == PendingOf(v, g)
            cons == Consumers(recs)
            idle(c) == now - Max({recs[i].ns : i \in {j \in DOMAIN recs : recs[j].con = c}})
        IN  Data(v, [i \in DOMAIN cons |-> <<cons[i], CountOf(recs, cons[i]), Max({idle(cons[i]), 0})>>]))

XInfoGroups(v) ==
    StreamRead(v, "send_zeroarr", LAMBDA ids :
        Data(v, [i \in DOMAIN v.grp |->
                    LET recs == PendingOf(v, v.grp[i].name)
                    IN  <<v.grp[i].name, Len(Consumers(recs)), Len(recs), v.grp[i].last>>]))

XInfoStream(v) ==
    StreamRead(v, "send_zeroarr", LAMBDA ids :
        Data(v, <<Len(ids), Len(v.grp), v.upd>>
                 \o (IF ids = <<>> THEN <<>> ELSE <<Head(ids), Last(ids)>>)))
=============================================================================
