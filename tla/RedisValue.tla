----------------------------- MODULE RedisValue ------------------------------
(***************************************************************************)
(* A key of the store as the data commands see it, and what the handler of *)
(* one key returns: the value it leaves, its status, the reply it writes   *)
(* and the flags of the key.  A key is absent, or it has a type; the type  *)
(* nodata is that of an entry created by a command that then failed.       *)
(* Commands that test for the type of a key meet a scrambled value only as *)
(* one of another type: what they would make of the bytes is not followed. *)
(***************************************************************************)
EXTENDS Integers, Sequences, FiniteSets, SequencesExt, FiniteSetsExt

Absent  == [type |-> "none"]
Untyped == [type |-> "nodata"]
Val(type, data) == [type |-> type, data |-> data]

\* a value whose bytes a command of another type wrote into: the entry keeps
\* its type, of which the bytes no longer are
Scrambled(v) == [type |-> "scrambled", of |-> IF v.type = "scrambled" THEN v.of ELSE v.type]

\* a missing element of an array reply
Nil == <<-1>>

\* the status of a key, in the order of ExecStatus: success first, what the
\* other keys of the command wait for, what ends it, errors
Statuses ==
    <<"ok", "send_ok", "send_nil", "send_null", "send_int", "send_zero",
      "send_zeroarr", "send_one", "send_neg_one", "send_zero_string",
      "success", "depends", "continue", "queued", "blocked",
      "abort_zero", "abort_nil", "send_data",
      "bad_args", "bad_type", "bad_range", "no_group", "group_exists",
      "stream_id", "key_exists", "key_doesnt_exist">>

Rank(st)         == CHOOSE i \in DOMAIN Statuses : Statuses[i] = st
Success(st)      == Rank(st) <= Rank("success")
NextKey(st)      == Rank(st) <= Rank("blocked")

\* rep is what the handler itself writes, ival the count that send_int adds
\* up, exp the expiry time it stamps
Keep == -1
Done(v, st, rep, fl) ==
    [v |-> v, st |-> st, rep |-> rep, ival |-> 0, exp |-> Keep, fl |-> fl]
Status(v, st)        == Done(v, st, <<>>, {})
SendInt(v, n, fl)    == [Done(v, "send_int", <<>>, fl) EXCEPT !.ival = n]
Data(v, rep)         == Done(v, "ok", rep, {})

\* get_key_read and get_key_write of the list contexts
OfType(v, T, missing, Op(_)) ==
    IF v.type \in {"none", "nodata"} THEN missing
    ELSE IF v.type = T THEN Op(v.data) ELSE Status(v, "bad_type")

\* LRANGE, LTRIM, GETRANGE and ZRANGE count negative indices from the end;
\* the result is a range of zero based indices, the last one excluded
Clip(n, from, to) ==
    LET f == IF from < 0 THEN n + from ELSE from
        t == IF to < 0 THEN n + to ELSE to
        In(i) == IF i < 0 THEN 0 ELSE IF i > n THEN n ELSE i
    IN  <<In(f), In(t + 1)>>

Slice(seq, from, to) == SubSeq(seq, from + 1, to)

\* the elements of a sequence that are in S, or that Keep_ holds of, in their
\* order: SelectSeq, as a function of the length that is looked at
Only(seq, S) ==
    LET kept[n \in 0..Len(seq)] ==
            IF n = 0 THEN <<>>
            ELSE IF seq[n] \in S THEN Append(kept[n - 1], seq[n]) ELSE kept[n - 1]
    IN  kept[Len(seq)]

Select(seq, Keep_(_)) == Only(seq, {x \in ToSet(seq) : Keep_(x)})

\* the elements of a finite set in an order that is total on them: the i-th
\* has i - 1 before it
InOrder(S, Before(_, _)) ==
    [i \in 1..Cardinality(S) |-> CHOOSE x \in S : Cardinality({y \in S : Before(y, x)}) = i - 1]

IsSeq(s) == s \in Seq(ToSet(s))
=============================================================================
