------------------------------ MODULE RedisHash ------------------------------
(***************************************************************************)
(* The hash commands of one key.  A hash is the sequence of its fields and *)
(* values in the order of their index, which HSCAN counts in; the index of *)
(* hash values in front of it is slot 0.                                   *)
(***************************************************************************)
EXTENDS RedisValue, RedisText

Changed == {"event", "hash"}
Hash(h) == Val("hash", h)

Slot(h, f)  == {i \in DOMAIN h : h[i][1] = f}
HasField(h, f) == Slot(h, f) # {}
Field(h, f) == h[CHOOSE i \in Slot(h, f) : TRUE][2]

\* no field twice
IsHash(h) == IsSeq(h) /\ \A i, j \in DOMAIN h : h[i][1] = h[j][1] => i = j

\* hset and hupdate of the library raimd
SetField(h, f, x) ==
    IF HasField(h, f) THEN [i \in DOMAIN h |-> IF h[i][1] = f THEN <<f, x>> ELSE h[i]]
    ELSE Append(h, <<f, x>>)

-----------------------------------------------------------------------------
(* Reads *)

HRead(v, op, f) ==
    OfType(v, "hash", Status(v, IF op = "hget" THEN "send_nil" ELSE "send_zero"), LAMBDA h :
        CASE op = "hlen"    -> SendInt(v, Len(h), {})
          [] op = "hexists" -> Status(v, IF HasField(h, f) THEN "send_one" ELSE "send_zero")
          [] op = "hget"    -> IF HasField(h, f) THEN Data(v, <<Field(h, f)>>)
                               ELSE Status(v, "send_nil")
          [] op = "hstrlen" -> IF HasField(h, f) THEN SendInt(v, Len(Field(h, f)), {})
                               ELSE Status(v, "send_zero"))

\* the array of a missing key is empty, for HMGET too
HMGet(v, fs) ==
    OfType(v, "hash", Data(v, <<>>), LAMBDA h :
        Data(v, [i \in DOMAIN fs |-> IF HasField(h, fs[i]) THEN Field(h, fs[i]) ELSE Nil]))

HAll(v, op) ==
    OfType(v, "hash", Data(v, <<>>), LAMBDA h :
        Data(v, CASE op = "hkeys"   -> [i \in DOMAIN h |-> h[i][1]]
                  [] op = "hvals"   -> [i \in DOMAIN h |-> h[i][2]]
                  [] op = "hgetall" -> h))

\* Mutant of ScanFrom: the slot that fills the answer is answered as the next
ScanFromAgain(i, end, max, match) ==
    LET in == {j \in i..(end - 1) : j \in match}
        full == {j \in in : max # 0 /\ Cardinality({k \in in : k <= j}) = max}
        next == IF full # {} THEN CHOOSE j \in full : TRUE ELSE IF i < end THEN end - 1 ELSE i - 1
    IN  [cursor |-> IF next + 1 = end THEN 0 ELSE next,
         slots  |-> InOrder({j \in in : j <= next}, LAMBDA x, y : x < y)]

\* The scan of the slots from i up to end: it stops behind the slot that
\* fills the answer, max items or all of them when max is 0, and answers the
\* next slot, or 0 when that is the end.
ScanFrom(i, end, max, match) ==
    LET in   == {j \in i..(end - 1) : j \in match}
        full == {j \in in : max # 0 /\ Cardinality({k \in in : k <= j}) = max}
        next == IF full # {} THEN CHOOSE j \in full : TRUE ELSE IF i < end THEN end - 1 ELSE i - 1
    IN  [cursor |-> IF next + 1 = end THEN 0 ELSE next + 1,
         slots  |-> InOrder({j \in in : j <= next}, LAMBDA x, y : x < y)]

\* a pattern matches a set of fields
HScan(v, pos, max, pat) ==
    LET from == IF pos > 0 THEN pos ELSE 1
        h    == IF v.type = "hash" THEN v.data ELSE <<>>
        end  == IF v.type = "hash" THEN Len(h) + 1 ELSE 0
        r    == ScanFrom(from, end, max, {i \in DOMAIN h : h[i][1] \in pat})
    IN  OfType(v, "hash", Data(v, r), LAMBDA x :
            Data(v, [r EXCEPT !.slots = [i \in DOMAIN r.slots |-> h[r.slots[i]]]]))

-----------------------------------------------------------------------------
(* Writes.  do_hwrite creates the hash before it looks at the field. *)

Fields(v) == IF v.type = "hash" THEN v.data ELSE <<>>

HWritable(v, Op(_)) ==
    IF v.type \in {"none", "nodata", "hash"} THEN Op(Fields(v)) ELSE Status(v, "bad_type")

\* HSET answers the number of new fields, HMSET the same update with OK
HSet(v, pairs) ==
    HWritable(v, LAMBDA h :
        LET m == FoldLeft(LAMBDA acc, p : SetField(acc, p[1], p[2]), h, pairs)
        IN  SendInt(Hash(m), Len(m) - Len(h), Changed))

HMSet(v, pairs) ==
    LET r == HSet(v, pairs) IN IF r.st = "send_int" THEN [r EXCEPT !.st = "send_ok", !.ival = 0] ELSE r

HSetNx(v, f, x) ==
    HWritable(v, LAMBDA h :
        IF HasField(h, f) THEN Status(Hash(h), "send_zero")
        ELSE Done(Hash(SetField(h, f, x)), "send_one", <<>>, Changed))

\* every value is appended, in pairs; the answer tells whether the field is new
HAppend(v, f, xs) ==
    HWritable(v, LAMBDA h :
        LET old == IF HasField(h, f) THEN Field(h, f) ELSE <<>>
        IN  Done(Hash(SetField(h, f, FoldLeft(\o, old, xs))),
                 IF HasField(h, f) THEN "send_zero" ELSE "send_one", <<>>, Changed))

\* a value that is not an integer counts as 0
HIncrBy(v, f, n) ==
    HWritable(v, LAMBDA h :
        LET old == IF HasField(h, f) /\ IsInt(Field(h, f)) THEN IntOf(Field(h, f)) ELSE 0
        IN  Done(Hash(SetField(h, f, IntText(old + n))), "ok", <<old + n>>, Changed))

\* the key goes with its last field
HDel(v, fs) ==
    OfType(v, "hash", Status(v, "send_zero"), LAMBDA h :
        LET left == Select(h, LAMBDA p : p[1] \notin ToSet(fs))
            n    == Len(h) - Len(left)
        IN  IF n = 0 THEN SendInt(v, 0, {})
            ELSE IF left = <<>> THEN SendInt(Absent, n, Changed \cup {"del"})
            ELSE SendInt(Hash(left), n, Changed))
=============================================================================
