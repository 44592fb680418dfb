------------------------------- MODULE RedisSet ------------------------------
(***************************************************************************)
(* The set commands of one key.  A set is the sequence of its members in   *)
(* the order of their index, which SSCAN counts in.                        *)
(***************************************************************************)
EXTENDS RedisValue

LOCAL H == INSTANCE RedisHash

SetFlags == {"event", "set"}
SetVal(m) == Val("set", m)

\* no member twice
IsSet(m) == IsSeq(m) /\ \A i, j \in DOMAIN m : m[i] = m[j] => i = j

Minus_(m, S) == Select(m, LAMBDA x : x \notin S)
PlusOne(acc, x) == IF x \in ToSet(acc) THEN acc ELSE Append(acc, x)
Plus(m, xs)  == FoldLeft(PlusOne, m, xs)

\* a set that lost members goes with its last one
SetLeft(m, st, rep, n) ==
    [Done(IF m = <<>> THEN Absent ELSE SetVal(m), st, rep,
          IF m = <<>> THEN SetFlags \cup {"del"} ELSE SetFlags) EXCEPT !.ival = n]

-----------------------------------------------------------------------------
(* do_sread *)

SCard(v) == OfType(v, "set", Status(v, "send_zero"), LAMBDA m : SendInt(v, Len(m), {}))

SIsMember(v, x) ==
    OfType(v, "set", Status(v, "send_zero"), LAMBDA m :
        Status(v, IF x \in ToSet(m) THEN "send_one" ELSE "send_zero"))

-----------------------------------------------------------------------------
(* do_swrite *)

SAdd(v, xs) ==
    LET m == IF v.type = "set" THEN v.data ELSE <<>>
        a == Plus(m, xs)
        n == Len(a) - Len(m)
    IN  IF v.type \notin {"none", "nodata", "set"} THEN Status(v, "bad_type")
        ELSE SendInt(SetVal(a), n, IF n > 0 THEN SetFlags ELSE {})

SRem(v, xs) ==
    OfType(v, "set", Status(v, "send_zero"), LAMBDA m :
        LET left == Minus_(m, ToSet(xs))
            n    == Len(m) - Len(left)
        IN  IF n > 0 THEN SetLeft(left, "send_int", <<>>, n) ELSE SendInt(v, 0, {}))

\* Mutant of SMoveSource: the source is not looked at
SMoveSourceBlind(v, x) ==
    OfType(v, "set", Status(v, "ok"), LAMBDA m : SetLeft(Minus_(m, {x}), "ok", <<>>, 0))

\* SMOVE ends with 0 when the source does not have the member; a
\* destination of another type is replaced
SMoveSource(v, x) ==
    OfType(v, "set", Status(v, "abort_zero"), LAMBDA m :
        IF x \in ToSet(m) THEN SetLeft(Minus_(m, {x}), "ok", <<>>, 0)
        ELSE Status(v, "abort_zero"))

SMoveDest(v, x) ==
    Done(SetVal(Plus(IF v.type = "set" THEN v.data ELSE <<>>, <<x>>)), "send_one", <<>>, SetFlags)

-----------------------------------------------------------------------------
(* do_smultiscan *)

\* the scan of the members from index i
SScan(v, pos, max, pat) ==
    LET m == IF v.type = "set" THEN v.data ELSE <<>>
        r == H!ScanFrom(pos, Len(m), max, {i - 1 : i \in {j \in DOMAIN m : m[j] \in pat}})
    IN  OfType(v, "set", Data(v, r), LAMBDA x :
            Data(v, [r EXCEPT !.slots = [i \in DOMAIN r.slots |-> m[r.slots[i] + 1]]]))

SMembers(v) == OfType(v, "set", Data(v, <<>>), LAMBDA m : Data(v, m))

\* SetBits: a set of bit numbers in words of 64 bits.  flip masks the last
\* word with (1 << (upto & 63)) - 1, computed in an int of 32 bits: beyond
\* that the shift has no defined result, the compiled one is a shift by the
\* count less 32.
WordMask(n) == IF n < 32 THEN {0..(n - 1)} ELSE {0..(n - 33), 0..(n - 1)}

Flip(bits, upto) ==
    LET w == upto \div 64
    IN  {{b \in 0..(upto - 1) : b \notin bits /\ (b \div 64 = w => b % 64 \in mask)} :
            mask \in WordMask(upto % 64)}

\* the random indices of SPOP and SRANDMEMBER, n of count: more than half are
\* drawn as those left out.  A count of 0 is never reached by the loop that
\* counts down, so it is not asked for here.
Draws(n, count) ==
    CASE n < 0 \/ n >= count  -> {0..(count - 1)}
      [] n = 1 /\ count > 1   -> {{i} : i \in 0..(count - 1)}
      [] n > 1 /\ n < count /\ n > count \div 2 ->
             UNION {Flip(b, count) : b \in kSubset(count - n, 0..(count - 1))}
      [] OTHER -> kSubset(n, 0..(count - 1))

Drawn(m, bits) ==
    LET b == InOrder(bits, <) IN [i \in DOMAIN b |-> m[1 + b[i]]]

SRandMember(v, n) ==
    IF v.type = "set" THEN {Data(v, Drawn(v.data, b)) : b \in Draws(n, Len(v.data))}
    ELSE {OfType(v, "set", Data(v, <<>>), LAMBDA m : Data(v, m))}

\* Mutant of SPop: members are popped first to last, so that later indices
\* have moved
SPopForward(v, n) ==
    IF v.type = "set" /\ v.data # <<>>
    THEN {LET m == v.data
              d == Drawn(m, b)
              at == InOrder(b, <)
              gone == {at[j] + j : j \in DOMAIN at} \cap DOMAIN m
          IN  SetLeft(Minus_(m, {m[i] : i \in gone}), "ok", d, 0) : b \in Draws(n, Len(v.data))}
    ELSE {OfType(v, "set", Data(v, <<>>), LAMBDA m : Data(v, m))}

\* the members that were sent are popped, the last one first
SPop(v, n) ==
    IF v.type = "set" /\ v.data # <<>>
    THEN {LET d == Drawn(v.data, b)
          IN  IF d = <<>> THEN Data(v, d)
              ELSE SetLeft(Minus_(v.data, ToSet(d)), "ok", d, 0) : b \in Draws(n, Len(v.data))}
    ELSE {OfType(v, "set", Data(v, <<>>), LAMBDA m : Data(v, m))}

-----------------------------------------------------------------------------
(* do_ssetop: the sources are saved one key at a time and merged, each into *)
(* those before it, when the last one is there.                             *)

SaveSet(v) ==
    OfType(v, "set", Data(v, <<>>), LAMBDA m : Data(v, m))

Merge(op, a, b) ==
    CASE op = "union" -> Plus(a, b)
      [] op = "inter" -> Select(a, LAMBDA x : x \in ToSet(b))
      [] op = "diff"  -> Minus_(a, ToSet(b))

\* Mutant of MergeAll: each source is merged into the first alone
MergeAllFirst(op, parts) == Merge(op, parts[1], parts[Len(parts)])

MergeAll(op, parts) == FoldLeft(LAMBDA acc, p : Merge(op, acc, p), parts[1], Tail(parts))

\* the destination is replaced whatever its type, also by an empty set
SStore(op, parts) ==
    LET m == MergeAll(op, parts) IN SendInt(SetVal(m), Len(m), SetFlags)
=============================================================================
