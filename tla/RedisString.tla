------------------------------ MODULE RedisString ----------------------------
(***************************************************************************)
(* The string commands of one key.  A string is a sequence of bytes; bit i *)
(* of it is bit i % 8, the least significant first, of byte i / 8.         *)
(***************************************************************************)
EXTENDS RedisValue, RedisText

StrFlags == {"event", "string"}
Str(b)   == Val("string", b)

Bytes(v) == IF v.type = "string" THEN v.data ELSE <<>>

StrWrite(v, Op(_)) ==
    IF v.type \in {"none", "nodata", "string"} THEN Op(Bytes(v)) ELSE Status(v, "bad_type")

\* resize with zeros behind the old end
Padded(b, n) == b \o [i \in 1..(n - Len(b)) |-> 0]

-----------------------------------------------------------------------------
(* Values and their expiry.  A key of another type counts as new: SETNX    *)
(* replaces it, and SET XX, which answers nil, leaves the old bytes under  *)
(* the type string.                                                        *)

\* what the bytes of another type look like as a string
Raw == <<0>>

SetValue(v, x, cond, exp, st) ==
    LET new == v.type # "string"
    IN  CASE cond = "xx" /\ new ->
                 Status(IF v.type \in {"none", "nodata"} THEN v ELSE Str(Raw), "send_nil")
          [] cond = "nx" /\ ~new -> Status(v, "send_nil")
          [] OTHER -> [Done(Str(x), st, <<>>, StrFlags) EXCEPT !.exp = exp]

\* SET, SETNX, MSET: no expiry is left
Set(v, x, cond) == SetValue(v, x, cond, 0, "send_ok")

\* SET EX, SETEX, PSETEX: a time of 0 leaves the stamp as it was
SetEx(v, x, cond, now, ttl) ==
    SetValue(v, x, cond, IF ttl = 0 THEN Keep ELSE now + ttl, "send_ok")

Get(v) == OfType(v, "string", Status(v, "send_nil"), LAMBDA b : Data(v, b))

GetSet(v, x) ==
    StrWrite(v, LAMBDA b :
        [Done(Str(x), IF v.type = "string" THEN "ok" ELSE "send_nil", b, StrFlags)
            EXCEPT !.exp = 0])

\* MGET saves the string of each key, none for a key of another type
MGet(v) == Data(v, IF v.type = "string" THEN <<v.data>> ELSE <<>>)

StrLen(v) == OfType(v, "string", SendInt(v, 0, {}), LAMBDA b : SendInt(v, Len(b), {}))

Append_(v, x) ==
    StrWrite(v, LAMBDA b : SendInt(Str(b \o x), Len(b) + Len(x), StrFlags))

\* Mutant of SetRange: the gap is not filled
SetRangeNoPad(v, off, x) ==
    StrWrite(v, LAMBDA b :
        LET r == [i \in 1..Max({Len(b), off + Len(x)}) |->
                     IF i \in (off + 1)..(off + Len(x)) THEN x[i - off]
                     ELSE IF i <= Len(b) THEN b[i] ELSE 1]
        IN  SendInt(Str(r), Len(r), StrFlags))

SetRange(v, off, x) ==
    StrWrite(v, LAMBDA b :
        LET p == Padded(b, off + Len(x))
            r == [i \in DOMAIN p |-> IF i \in (off + 1)..(off + Len(x)) THEN x[i - off] ELSE p[i]]
        IN  SendInt(Str(r), Len(r), StrFlags))

GetRange(v, start, end) ==
    OfType(v, "string", Status(v, "send_zero_string"), LAMBDA b :
        LET n == Len(b)
            s == IF start < 0 THEN n + start ELSE start
            e == IF end < 0 THEN n + end ELSE end
        IN  IF n = 0 \/ s > e \/ (s < 0 /\ e < 0) \/ (s >= n /\ e >= n)
            THEN Status(v, "send_zero_string")
            ELSE Data(v, SubSeq(b, Max({s, 0}) + 1, Min({e, n - 1}) + 1)))

\* INCR, DECR, INCRBY, DECRBY: a value that is not an integer counts as 0;
\* the sum wraps at the width of ival, 2 * IntMax + 2 values
Wrap(n, IntMax) ==
    ((n + IntMax + 1) % (2 * IntMax + 2)) - IntMax - 1

Add(v, n, IntMax) ==
    StrWrite(v, LAMBDA b :
        LET r == Wrap((IF IsInt(b) THEN IntOf(b) ELSE 0) + n, IntMax)
        IN  Done(Str(IntText(r)), "ok", <<r>>, StrFlags))

-----------------------------------------------------------------------------
(* Bits *)

BitOf(byte, j) == (byte \div 2^j) % 2
Bit(b, i) == IF i \div 8 < Len(b) THEN BitOf(b[i \div 8 + 1], i % 8) ELSE 0
ByteFrom(Is(_)) == MapThenSumSet(LAMBDA j : IF Is(j) THEN 2^j ELSE 0, 0..7)

GetBit(v, i) ==
    OfType(v, "string", Status(v, "send_zero"), LAMBDA b :
        Status(v, IF Bit(b, i) = 1 THEN "send_one" ELSE "send_zero"))

\* SETBIT sets no event flag
SetBit(v, i, x) ==
    StrWrite(v, LAMBDA b :
        LET p == Padded(b, i \div 8 + 1)
            k == i \div 8 + 1
        IN  SendInt(Str([p EXCEPT ![k] = ByteFrom(LAMBDA j : IF j = i % 8 THEN x = 1 ELSE BitOf(@, j) = 1)]),
                    Bit(b, i), {}))

\* The words in which a range of n bytes is read: of 8 bytes, then of 4, 2
\* and 1 for the rest.
Words(n) ==
    LET e == 8 * (n \div 8)
        r == n % 8
    IN  [i \in 1..(n \div 8) |-> <<8 * (i - 1), 8>>]
        \o (IF r >= 4 THEN <<<<e, 4>>>> ELSE <<>>)
        \o (IF r % 4 >= 2 THEN <<<<e + 4 * (r \div 4), 2>>>> ELSE <<>>)
        \o (IF r % 2 = 1 THEN <<<<n - 1, 1>>>> ELSE <<>>)

PopCount(b, bytes) ==
    Cardinality({i \in 0..(8 * Len(b) - 1) : i \div 8 \in bytes /\ Bit(b, i) = 1})

\* BITCOUNT counts words of 8 bytes while more than 8 bytes are left, and of
\* the rest what 4, 2 and 1 make up: a rest of 8 bytes is none of these.
Counted(len) ==
    LET w == IF len = 0 THEN 0 ELSE 8 * ((len - 1) \div 8)
    IN  IF len - w = 8 THEN 0..(w - 1) ELSE 0..(len - 1)

BitCount(v, start, end) ==
    OfType(v, "string", Status(v, "send_zero"), LAMBDA b :
        LET n == Len(b)
            s == Min({Max({IF start < 0 THEN n + start ELSE start, 0}), n - 1})
            e == Max({Min({IF end < 0 THEN n + end ELSE end, n - 1}), 0})
            len == IF e >= s THEN e + 1 - s ELSE 0
        IN  IF n = 0 THEN Status(v, "send_zero")
            ELSE SendInt(v, PopCount(b, {s + i : i \in Counted(len)}), {}))

\* BITPOS: the end is not part of the range.  For the bit 0 a word is
\* complemented in 64 bits, so that a shorter one always has a bit set above
\* its own.
BitPos(v, x, start, end) ==
    OfType(v, "string", Status(v, "send_zero"), LAMBDA b :
        LET n    == Len(b)
            stop == IF end > start /\ end < n THEN end ELSE n
            W    == IF start < stop THEN Words(stop - start) ELSE <<>>
            Hits(w) == {j \in 0..(8 * w[2] - 1) : Bit(b, 8 * (start + w[1]) + j) = x}
                       \cup (IF x = 0 /\ w[2] < 8 THEN {8 * w[2]} ELSE {})
            hit  == {i \in DOMAIN W : Hits(W[i]) # {}}
            pos  == 8 * (start + W[Min(hit)][1]) + Min(Hits(W[Min(hit)]))
        IN  SendInt(v, IF hit = {} \/ pos >= 8 * n THEN -1 ELSE pos, {}))

ByteOp(op, x, y) ==
    ByteFrom(LAMBDA j : LET a == BitOf(x, j)
                            c == BitOf(y, j)
                        IN  CASE op = "and" -> a = 1 /\ c = 1
                              [] op = "or"  -> a = 1 \/ c = 1
                              [] op = "xor" -> a # c
                              [] op = "not" -> a = 0)

\* BITOP of the sources, padded to the longest: beyond the end of a source
\* AND clears and XOR inverts what was there.
BitOp(op, parts) ==
    LET n == Max({Len(parts[i]) : i \in DOMAIN parts})
        first == IF op = "not" THEN [i \in 1..n |-> ByteOp("not", Padded(parts[1], n)[i], 0)]
                 ELSE Padded(parts[1], n)
        Apply(acc, p) ==
            [i \in 1..n |->
                IF i <= Len(p) THEN ByteOp(op, acc[i], p[i])
                ELSE CASE op = "and" -> 0
                       [] op = "or"  -> acc[i]
                       [] op = "xor" -> ByteOp("not", acc[i], 0)]
    IN  FoldLeft(Apply, first, Tail(parts))

BitOpDest(v, op, parts) ==
    StrWrite(v, LAMBDA b : LET r == BitOp(op, parts) IN SendInt(Str(r), Len(r), StrFlags))

SaveStr(v) == OfType(v, "string", Data(v, <<>>), LAMBDA b : Data(v, b))

-----------------------------------------------------------------------------
(* BITFIELD: a field is width bits from the bit off, signed or not. *)

FieldBits(b, f) ==
    LET u == MapThenSumSet(LAMBDA j : IF Bit(b, f.off + j) = 1 THEN 2^j ELSE 0, 0..(f.width - 1))
    IN  IF f.signed /\ u >= 2^(f.width - 1) THEN u - 2^f.width ELSE u

PutField(b, f, n) ==
    [k \in DOMAIN b |->
        ByteFrom(LAMBDA j :
            LET i == 8 * (k - 1) + j - f.off
            IN  IF i \in 0..(f.width - 1) THEN BitOf(n % 2^f.width, i) = 1
                ELSE BitOf(b[k], j) = 1)]

Lowest(f)  == IF f.signed THEN 0 - 2^(f.width - 1) ELSE 0
Highest(f) == IF f.signed THEN 2^(f.width - 1) - 1 ELSE 2^f.width - 1

\* Mutant of Overflowed: a signed field wraps without its sign
OverflowedUnsigned(f, n) ==
    IF f.over = "wrap" THEN [ok |-> TRUE, n |-> n % 2^f.width]
    ELSE IF n > Highest(f) THEN [ok |-> f.over # "fail", n |-> Highest(f)]
    ELSE IF n < Lowest(f) THEN [ok |-> f.over # "fail", n |-> Lowest(f)]
    ELSE [ok |-> TRUE, n |-> n]

\* the sum of INCRBY under the overflow of the field
Overflowed(f, n) ==
    LET u == n % 2^f.width
    IN  CASE f.over = "wrap" ->
                 [ok |-> TRUE, n |-> IF f.signed /\ u >= 2^(f.width - 1) THEN u - 2^f.width ELSE u]
          [] f.over # "wrap" /\ n > Highest(f) -> [ok |-> f.over # "fail", n |-> Highest(f)]
          [] f.over # "wrap" /\ n < Lowest(f)  -> [ok |-> f.over # "fail", n |-> Lowest(f)]
          [] OTHER -> [ok |-> TRUE, n |-> n]

FieldOp(b, f) ==
    LET old == FieldBits(b, f)
        inc == Overflowed(f, old + f.val)
    IN  CASE f.op = "get"    -> [b |-> b, rep |-> old]
          [] f.op = "set"    -> [b |-> PutField(b, f, f.val), rep |-> old]
          [] f.op = "incrby" -> IF inc.ok THEN [b |-> PutField(b, f, inc.n), rep |-> inc.n]
                                ELSE [b |-> b, rep |-> "nil"]

\* A string that grows is resized without asking for its bytes to be copied:
\* they are there when it stays in its place, and when it is moved they are
\* those that its new place had.
Uncopied == {0, 255}
Resized(b, size, old) ==
    Padded(IF old = Keep \/ size <= Len(b) THEN b ELSE [i \in DOMAIN b |-> old], size)

\* a BITFIELD that only reads does not create the key
BitField(v, fs) ==
    LET writes == {i \in DOMAIN fs : fs[i].op # "get"}
        size   == Max({(fs[i].off + fs[i].width + 7) \div 8 : i \in writes} \cup {0})
        Run(b) == FoldLeft(LAMBDA acc, f : LET r == FieldOp(acc.b, f)
                                           IN  [b |-> r.b, rep |-> Append(acc.rep, r.rep)],
                           [b |-> b, rep |-> <<>>], fs)
        Written(old) == StrWrite(v, LAMBDA b :
                            LET r == Run(Resized(b, size, old)) IN Done(Str(r.b), "ok", r.rep, StrFlags))
    IN  IF writes = {} THEN {OfType(v, "string", Data(v, Run(<<>>).rep),
                                    LAMBDA b : Data(v, Run(b).rep))}
        ELSE {Written(old) : old \in Uncopied \cup {Keep}}
=============================================================================
