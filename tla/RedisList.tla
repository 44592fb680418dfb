------------------------------ MODULE RedisList ------------------------------
(***************************************************************************)
(* The list commands of one key.  A list is the sequence of its elements,  *)
(* its layout (ListData of the library raimd) is left out.                 *)
(***************************************************************************)
EXTENDS RedisValue

Pushed == {"event", "list", "listblkd"}
Popped == {"event", "list"}

List(l) == Val("list", l)

\* what is left of a list that lost elements: a pop or a trim deletes an
\* empty one, LREM does not
Left(l, st, rep, del) ==
    IF l = <<>> /\ del THEN Done(Absent, st, rep, Popped \cup {"del"})
    ELSE Done(List(l), st, rep, Popped)

-----------------------------------------------------------------------------
(* Reads *)

\* a negative index counts from the end
LIndex(v, i) ==
    OfType(v, "list", Status(v, "send_nil"), LAMBDA l :
        LET j == IF i < 0 THEN Len(l) + i + 1 ELSE i + 1
        IN  IF j \in DOMAIN l THEN Data(v, <<l[j]>>) ELSE Status(v, "send_nil"))

LLen(v) == OfType(v, "list", Status(v, "send_zero"), LAMBDA l : SendInt(v, Len(l), {}))

LRange(v, from, to) ==
    OfType(v, "list", Data(v, <<>>), LAMBDA l :
        LET r == Clip(Len(l), from, to) IN Data(v, Slice(l, r[1], r[2])))

-----------------------------------------------------------------------------
(* do_push.  A missing key gets an empty list before the operation is      *)
(* tried, so that LINSERT leaves one and LSET leaves an entry without a    *)
(* type.                                                                   *)

Elements(v) == IF v.type = "list" THEN v.data ELSE <<>>

Writable(v, Op(_)) ==
    IF v.type \in {"none", "nodata", "list"} THEN Op(Elements(v)) ELSE Status(v, "bad_type")

Push(v, end, vals, exists) ==
    IF v.type \in {"none", "nodata"} /\ exists THEN Status(v, "send_zero")
    ELSE Writable(v, LAMBDA l :
             LET m == IF end = "left" THEN Reverse(vals) \o l ELSE l \o vals
             IN  SendInt(List(m), Len(m), Pushed))

\* one element before or after the first piv
LInsert(v, after, piv, val) ==
    Writable(v, LAMBDA l :
        LET at == {i \in DOMAIN l : l[i] = piv}
            i  == IF after THEN Min(at) + 1 ELSE Min(at)
        IN  IF at = {} THEN SendInt(List(l), -1, {})
            ELSE SendInt(List(InsertAt(l, i, val)), Len(l) + 1, Pushed))

LSet(v, i, val) ==
    Writable(v, LAMBDA l :
        LET j == IF i < 0 THEN Len(l) + i + 1 ELSE i + 1
        IN  IF j \in DOMAIN l THEN Done(List([l EXCEPT ![j] = val]), "send_ok", <<>>, Pushed)
            ELSE Status(IF v.type = "list" THEN v ELSE Untyped, "bad_range"))

-----------------------------------------------------------------------------
(* do_pop *)

\* LPOP, RPOP and the first key of RPOPLPUSH, which ends the command when
\* there is nothing to move
Pop(v, end, none) ==
    OfType(v, "list", Status(v, none), LAMBDA l :
        IF l = <<>> THEN Status(v, none)
        ELSE IF end = "left" THEN Left(Tail(l), "ok", <<Head(l)>>, TRUE)
        ELSE Left(Front(l), "ok", <<Last(l)>>, TRUE))

\* BLPOP and BRPOP: the first key with an element is the only one answered
BPop(v, k, end) ==
    LET r == Pop(v, end, "blocked")
    IN  IF r.st = "ok" THEN [r EXCEPT !.st = "send_data", !.rep = <<k>> \o @] ELSE r

\* LREM of the first n, the last -n or all occurrences
LRem(v, n, val) ==
    OfType(v, "list", Status(v, "send_zero"), LAMBDA l :
        LET at   == {i \in DOMAIN l : l[i] = val}
            gone == {i \in at : \/ n = 0
                                \/ n > 0 /\ Cardinality({j \in at : j <= i}) <= n
                                \/ n < 0 /\ Cardinality({j \in at : j >= i}) <= 0 - n}
            keep == Select([i \in DOMAIN l |-> i], LAMBDA i : i \notin gone)
        IN  SendInt(List([j \in DOMAIN keep |-> l[keep[j]]]), Cardinality(gone),
                    IF gone = {} THEN {} ELSE Popped))

\* LTRIM tells of an event even when nothing is removed
LTrim(v, from, to) ==
    OfType(v, "list", Status(v, "send_ok"), LAMBDA l :
        LET n    == Len(l)
            r    == Clip(n, from, to)
            left == r[1]
            right == n - r[2]
        IN  IF left = 0 /\ right = 0 THEN Done(v, "send_ok", <<>>, Popped)
            ELSE IF left + right >= n
            THEN Done(Absent, "send_ok", <<>>, Popped \cup {"del"})
            ELSE Done(List(SubSeq(l, left + 1, n - right)), "send_ok", <<>>, Popped))

-----------------------------------------------------------------------------
\* The second key of RPOPLPUSH takes the element from the text the first key
\* put into the output: after the first line of all that is buffered, so
\* that a reply which is still buffered makes the rest of the buffer, framing
\* included, the element.
Moved(buffered, elem) == IF buffered THEN "framed" ELSE elem


\* Mutant of RPopLPushDest: who waits for the destination is not told
RPopLPushDestQuiet(v, buffered, elem) ==
    LET r == Push(v, "left", <<Moved(buffered, elem)>>, FALSE)
    IN  IF r.st = "send_int" THEN [r EXCEPT !.st = "ok", !.ival = 0, !.fl = {"event", "list"}] ELSE r

RPopLPushDest(v, buffered, elem) ==
    LET r == Push(v, "left", <<Moved(buffered, elem)>>, FALSE)
    IN  IF r.st = "send_int" THEN [r EXCEPT !.st = "ok", !.ival = 0] ELSE r
=============================================================================
