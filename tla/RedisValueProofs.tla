--------------------------- MODULE RedisValueProofs --------------------------
(***************************************************************************)
(* What is proved of the handlers of lists, hashes, sets, sorted sets,     *)
(* HyperLogLogs, keys, places and strings: each leaves a well formed       *)
(* value, and one that adds elements to a list or a sorted set tells those *)
(* who wait.                                                               *)
(***************************************************************************)
EXTENDS RedisCommandsProofs

-----------------------------------------------------------------------------
(* Sequences *)

\* What a sequence is.
LEMMA SeqFacts ==
    ASSUME NEW s, IsSeq(s)
    PROVE  Len(s) \in Nat /\ DOMAIN s = 1..Len(s) /\ s = [i \in 1..Len(s) |-> s[i]]
<1>1. s \in Seq(ToSet(s))
  BY DEF IsSeq
<1> QED BY <1>1, LenProperties

\* A function on 1 to n is a sequence.
LEMMA FunIsSeq ==
    ASSUME NEW n \in Nat, NEW f, f = [i \in 1..n |-> f[i]]
    PROVE  IsSeq(f) /\ Len(f) = n /\ DOMAIN f = 1..n
<1>1. DOMAIN f = 1..n
  BY Zenon
<1> PICK T : T = ToSet(f)
  OBVIOUS
<1>2. \A i \in 1..n : f[i] \in T
  BY <1>1 DEF ToSet
<1>3. f \in [1..n -> T]
  BY <1>2
<1>4. f \in Seq(T)
  BY <1>3, SeqDef
<1>5. Len(f) = n
  BY <1>1, <1>4
<1> QED BY <1>1, <1>4, <1>5 DEF IsSeq

\* A sequence of anything is one.
LEMMA SeqIsSeq ==
    ASSUME NEW T, NEW s \in Seq(T)
    PROVE  IsSeq(s) /\ ToSet(s) \subseteq T
<1>1. Len(s) \in Nat /\ s \in [1..Len(s) -> T]
  BY LenProperties
<1>2. s = [i \in 1..Len(s) |-> s[i]]
  BY <1>1
<1> QED BY <1>1, <1>2, FunIsSeq DEF ToSet

\* Concatenations, ranges, reverses and replacements of an element are
\* sequences.
LEMMA ConcatIsSeq ==
    ASSUME NEW s, NEW t, IsSeq(s), IsSeq(t)
    PROVE  /\ IsSeq(s \o t) /\ Len(s \o t) = Len(s) + Len(t)
           /\ \A i \in 1..(Len(s) + Len(t)) :
                 (s \o t)[i] = IF i <= Len(s) THEN s[i] ELSE t[i - Len(s)]
<1> PICK T : T = ToSet(s) \cup ToSet(t)
  OBVIOUS
<1>1. s \in Seq(T) /\ t \in Seq(T)
  BY SeqMonotonic DEF IsSeq
<1>2. /\ s \o t \in Seq(T) /\ Len(s \o t) = Len(s) + Len(t)
      /\ \A i \in 1..(Len(s) + Len(t)) :
            (s \o t)[i] = IF i <= Len(s) THEN s[i] ELSE t[i - Len(s)]
  BY ONLY <1>1, ConcatProperties
<1>3. IsSeq(s \o t)
  BY ONLY <1>2, SeqIsSeq
<1> QED BY ONLY <1>2, <1>3

\* A range of a sequence within its bounds is a sequence.
LEMMA SubSeqIsSeq ==
    ASSUME NEW s, NEW m \in Int, NEW n \in Int
    PROVE  /\ IsSeq(SubSeq(s, m, n))
           /\ Len(SubSeq(s, m, n)) = IF m <= n THEN n - m + 1 ELSE 0
           /\ \A i \in 1..(n - m + 1) : SubSeq(s, m, n)[i] = s[m + i - 1]
<1> PICK T : T = {s[i] : i \in m..n}
  OBVIOUS
<1>1. \A i \in m..n : s[i] \in T
  OBVIOUS
<1>2. /\ SubSeq(s, m, n) \in Seq(T)
      /\ Len(SubSeq(s, m, n)) = IF m <= n THEN n - m + 1 ELSE 0
      /\ \A i \in 1..(n - m + 1) : SubSeq(s, m, n)[i] = s[m + i - 1]
  BY ONLY <1>1, m \in Int, n \in Int, SubSeqProperties
<1>3. IsSeq(SubSeq(s, m, n))
  BY ONLY <1>2, SeqIsSeq
<1> QED BY ONLY <1>2, <1>3

\* A sequence read backwards is one.
LEMMA ReverseIsSeq ==
    ASSUME NEW s, IsSeq(s)
    PROVE  IsSeq(Reverse(s)) /\ Len(Reverse(s)) = Len(s)
<1>1. Len(s) \in Nat /\ Reverse(s) = [i \in 1..Len(s) |-> Reverse(s)[i]]
  BY SeqFacts, Zenon DEF Reverse
<1> QED BY <1>1, FunIsSeq

\* A sequence with one element replaced is one.
LEMMA ExceptIsSeq ==
    ASSUME NEW s, IsSeq(s), NEW j, NEW x
    PROVE  IsSeq([s EXCEPT ![j] = x]) /\ Len([s EXCEPT ![j] = x]) = Len(s)
<1> DEFINE t == [s EXCEPT ![j] = x]
<1>1. Len(s) \in Nat /\ DOMAIN s = 1..Len(s)
  BY SeqFacts
<1>2. t = [i \in 1..Len(s) |-> t[i]]
  BY <1>1
<1> HIDE DEF t
<1>3. IsSeq(t) /\ Len(t) = Len(s)
  BY <1>1, <1>2, FunIsSeq
<1> QED BY <1>3 DEF t

\* One element, and one more element.
LEMMA AppendIsSeq ==
    ASSUME NEW s, IsSeq(s), NEW x
    PROVE  /\ IsSeq(<<x>>) /\ Len(<<x>>) = 1
           /\ IsSeq(Append(s, x)) /\ Len(Append(s, x)) = Len(s) + 1
           /\ \A i \in 1..Len(s) : Append(s, x)[i] = s[i]
           /\ Append(s, x)[Len(s) + 1] = x
<1> PICK T : T = ToSet(s) \cup {x}
  OBVIOUS
<1>1. s \in Seq(T) /\ x \in T
  BY SeqMonotonic DEF IsSeq
<1>2. <<x>> \in Seq(T) /\ Len(<<x>>) = 1
  BY <1>1
<1>3. /\ Append(s, x) \in Seq(T) /\ Len(Append(s, x)) = Len(s) + 1
      /\ \A i \in 1..Len(s) : Append(s, x)[i] = s[i]
      /\ Append(s, x)[Len(s) + 1] = x
  BY ONLY <1>1, AppendProperties
<1>4. IsSeq(<<x>>) /\ IsSeq(Append(s, x))
  BY ONLY <1>2, <1>3, SeqIsSeq
<1> QED BY ONLY <1>2, <1>3, <1>4

\* The empty sequence is the one without elements.
LEMMA EmptyIsSeq ==
    /\ IsSeq(<<>>) /\ Len(<<>>) = 0
    /\ \A s : IsSeq(s) => (s = <<>> <=> Len(s) = 0)
<1>1. <<>> \in Seq({})
  OBVIOUS
<1> QED BY <1>1, SeqIsSeq, EmptySeq DEF IsSeq

\* What is left of a sequence is one.
LEMMA OnlyIsSeq ==
    ASSUME NEW s, IsSeq(s), NEW S
    PROVE  IsSeq(Only(s, S)) /\ Only(s, S) \in Seq(ToSet(s))
<1> PICK q : q = Only(s, S)
  OBVIOUS
<1>1. PICK idx : Picks(q, s, S, Len(s), idx)
  BY OnlyPicks
<1>2. q \in Seq(ToSet(s))
  BY <1>1 DEF Picks
<1> QED BY <1>2, SeqIsSeq

-----------------------------------------------------------------------------
(* What a handler leaves *)

Told(fl) == "listblkd" \in fl \/ "zsetblkd" \in fl

\* a BLPOP or BZPOPMIN that waits would find an element
Has(v) == v.type \in {"list", "zset", "geo"} /\ v.data # <<>>

\* The value is well formed, the stamp is a time, and who waits for an
\* element that was not there is told, by a handler that is not run again.
Outcome(v, r) ==
    /\ WellFormed(r.v)
    /\ r.exp \in Nat \cup {Keep}
    /\ Has(r.v) => Has(v) \/ (Told(r.fl) /\ r.st # "again")

\* The types of values and their data.
LEMMA Forms ==
    ASSUME NEW v, WellFormed(v)
    PROVE  /\ v.type \in {"none", "nodata", "list", "string", "hyperloglog", "hash", "set",
                          "zset", "geo", "stream", "scrambled"}
           /\ v.type = "none" <=> v = Absent
           /\ v.type = "nodata" <=> v = Untyped
           /\ v.type \in {"list", "string", "hyperloglog"} => IsSeq(v.data) /\ v = Val(v.type, v.data)
           /\ v.type = "hash" => IsHash(v.data) /\ v = Val("hash", v.data)
           /\ v.type = "set" => IsSet(v.data) /\ v = Val("set", v.data)
           /\ v.type \in {"zset", "geo"} => IsZSet(v.data) /\ v = Val(v.type, v.data)
           /\ v.type = "stream" <=> IsStream(v)
<1>1. Absent.type = "none" /\ Untyped.type = "nodata"
  BY DEF Absent, Untyped
<1>2. IsStream(v) => v.type = "stream"
  BY DEF IsStream, Stream
<1> QED BY <1>1, <1>2 DEF WellFormed

\* Values of each type, and none.
LEMMA Builds ==
    /\ WellFormed(Absent) /\ WellFormed(Untyped) /\ ~Has(Absent) /\ ~Has(Untyped)
    /\ \A d : IsSeq(d) => WellFormed(List(d)) /\ WellFormed(Str(d)) /\ ~Has(Str(d))
                          /\ WellFormed(Val("hyperloglog", d)) /\ ~Has(Val("hyperloglog", d))
    /\ \A d : IsHash(d) => WellFormed(Hash(d)) /\ ~Has(Hash(d))
    /\ \A d : IsSet(d) => WellFormed(SetVal(d)) /\ ~Has(SetVal(d))
    /\ \A d : IsZSet(d) => WellFormed(Val("zset", d)) /\ WellFormed(Val("geo", d))
    /\ \A v : IsStream(v) => WellFormed(v) /\ ~Has(v)
    /\ \A v : WellFormed(Scrambled(v)) /\ ~Has(Scrambled(v))
<1>1. WellFormed(Absent) /\ WellFormed(Untyped) /\ ~Has(Absent) /\ ~Has(Untyped)
  BY DEF WellFormed, Has, Absent, Untyped
<1>2. \A t, d : Val(t, d).type = t /\ Val(t, d).data = d
  BY DEF Val
<1>3. \A t, d : t \in {"list", "string", "hyperloglog"} /\ IsSeq(d) => WellFormed(Val(t, d))
  BY <1>2 DEF WellFormed
<1>4. \A t, d : t \notin {"list", "zset", "geo"} => ~Has(Val(t, d))
  BY <1>2 DEF Has
<1>5. \A d : IsHash(d) => WellFormed(Val("hash", d))
  BY <1>2 DEF WellFormed
<1>6. \A d : IsSet(d) => WellFormed(Val("set", d))
  BY <1>2 DEF WellFormed
<1>7. \A t, d : t \in {"zset", "geo"} /\ IsZSet(d) => WellFormed(Val(t, d))
  BY <1>2 DEF WellFormed
<1>8. \A v : IsStream(v) => WellFormed(v) /\ ~Has(v)
  BY DEF WellFormed, Has, IsStream, Stream
<1>9. \A v : WellFormed(Scrambled(v)) /\ ~Has(Scrambled(v))
  BY DEF WellFormed, Has, Scrambled
<1> QED BY <1>1, <1>3, <1>4, <1>5, <1>6, <1>7, <1>8, <1>9 DEF List, Str, Hash, SetVal

\* A handler that leaves a well formed value has a good outcome when there
\* was an element before, there is none after, or it tells of it.
LEMMA GoodDone ==
    ASSUME NEW v, NEW w, WellFormed(w), NEW st, NEW rep, NEW n, NEW fl,
           Has(w) => Has(v) \/ Told(fl)
    PROVE  /\ (st = "again" /\ Has(w) => Has(v)) => Outcome(v, Done(w, st, rep, fl))
           /\ Outcome(v, SendInt(w, n, fl))
<1>1. \A s, p : /\ Done(w, s, p, fl).v = w /\ Done(w, s, p, fl).exp = Keep
                /\ Done(w, s, p, fl).fl = fl /\ Done(w, s, p, fl).st = s
  BY DEF Done
<1>2. /\ SendInt(w, n, fl).v = w /\ SendInt(w, n, fl).exp = Keep
      /\ SendInt(w, n, fl).fl = fl /\ SendInt(w, n, fl).st # "again"
  BY DEF SendInt, Done
<1> QED BY <1>1, <1>2 DEF Outcome

\* A handler that leaves what was there.
LEMMA GoodSame ==
    ASSUME NEW v, WellFormed(v)
    PROVE  /\ \A st, rep, fl : Outcome(v, Done(v, st, rep, fl))
           /\ \A st : Outcome(v, Status(v, st))
           /\ \A rep : Outcome(v, Data(v, rep))
           /\ \A n, fl : Outcome(v, SendInt(v, n, fl))
<1>1. \A st, rep, n, fl : Outcome(v, Done(v, st, rep, fl)) /\ Outcome(v, SendInt(v, n, fl))
  BY GoodDone
<1> QED BY <1>1 DEF Status, Data

\* A handler that leaves nothing that is waited for.
LEMMA GoodQuiet ==
    ASSUME NEW v, NEW w, WellFormed(w), ~Has(w)
    PROVE  /\ \A st, rep, fl : Outcome(v, Done(w, st, rep, fl))
           /\ \A st : Outcome(v, Status(w, st))
           /\ \A n, fl : Outcome(v, SendInt(w, n, fl))
<1>1. \A st, rep, n, fl : Outcome(v, Done(w, st, rep, fl)) /\ Outcome(v, SendInt(w, n, fl))
  BY GoodDone
<1> QED BY <1>1 DEF Status

-----------------------------------------------------------------------------
(* Lists *)

\* What a list command sees of a list.
LEMMA ElementsSeq ==
    ASSUME NEW v, WellFormed(v), v.type \in {"none", "nodata", "list"}
    PROVE  IsSeq(Elements(v)) /\ (Elements(v) # <<>> <=> Has(v))
BY Forms, EmptyIsSeq DEF Elements, Has

\* do_push: LPUSH, RPUSH, LINSERT and LSET.
LEMMA PushGood ==
    ASSUME NEW v, WellFormed(v), NEW vals, IsSeq(vals), NEW end, NEW exists
    PROVE  Outcome(v, Push(v, end, vals, exists))
<1> DEFINE l == Elements(v)
           m == IF end = "left" THEN Reverse(vals) \o l ELSE l \o vals
<1>1. CASE v.type \in {"none", "nodata", "list"}
  <2>1. IsSeq(l)
    BY <1>1, ElementsSeq
  <2>2. IsSeq(m)
    BY <2>1, ReverseIsSeq, ConcatIsSeq
  <2> HIDE DEF m
  <2>3. WellFormed(List(m)) /\ Told(Pushed)
    BY <2>2, Builds DEF Told, Pushed
  <2>4. Outcome(v, SendInt(List(m), Len(m), Pushed))
    BY <2>3, GoodDone
  <2>5. Outcome(v, Status(v, "send_zero"))
    BY GoodSame
  <2> QED BY <1>1, <2>4, <2>5 DEF Push, Writable, m, l
<1>2. CASE v.type \notin {"none", "nodata", "list"}
  <2>1. Push(v, end, vals, exists) = Status(v, "bad_type")
    BY <1>2 DEF Push, Writable
  <2> QED BY <2>1, GoodSame
<1> QED BY <1>1, <1>2

\* LINSERT leaves a list and adds an element only to one that has some
\* (do_linsert).
LEMMA LInsertGood ==
    ASSUME NEW v, WellFormed(v), NEW after, NEW piv, NEW val
    PROVE  Outcome(v, LInsert(v, after, piv, val))
<1> DEFINE l  == Elements(v)
           at == {i \in DOMAIN l : l[i] = piv}
           i  == IF after THEN Min(at) + 1 ELSE Min(at)
<1>1. CASE v.type \in {"none", "nodata", "list"}
  <2>1. IsSeq(l) /\ (l # <<>> <=> Has(v)) /\ WellFormed(List(l)) /\ (Has(List(l)) => Has(v))
    BY <1>1, ElementsSeq, Builds DEF Has, List, Val
  <2>2. Outcome(v, SendInt(List(l), -1, {}))
    BY <2>1, GoodDone
  <2>3. ASSUME at # {} PROVE Outcome(v, SendInt(List(InsertAt(l, i, val)), Len(l) + 1, Pushed))
    <3>1. at \subseteq Nat
      BY <2>1, SeqFacts
    <3>2. Min(at) \in Nat
      <4> HIDE DEF at
      <4>1. \E x \in at : \A y \in at : x <= y
        BY <2>3, <3>1, PlusFold!NatLeast
      <4> QED BY <3>1, <4>1 DEF Min
    <3>3. i \in Nat
      BY <3>2
    <3> HIDE DEF i
    <3>4. Len(l) \in Nat
      BY <2>1, SeqFacts
    <3>5. IsSeq(SubSeq(l, 1, i - 1)) /\ IsSeq(SubSeq(l, i, Len(l))) /\ IsSeq(<<val>>)
      BY <3>3, <3>4, SubSeqIsSeq, AppendIsSeq, EmptyIsSeq
    <3>6. IsSeq(InsertAt(l, i, val))
      <4>1. IsSeq(SubSeq(l, 1, i - 1) \o <<val>>)
        BY <3>5, ConcatIsSeq
      <4> QED BY <3>5, <4>1, ConcatIsSeq DEF InsertAt
    <3> QED BY <3>6, GoodDone, Builds DEF Told, Pushed
  <2> HIDE DEF i, at
  <2>4. LInsert(v, after, piv, val) = IF at = {} THEN SendInt(List(l), -1, {})
            ELSE SendInt(List(InsertAt(l, i, val)), Len(l) + 1, Pushed)
    BY <1>1, Zenon DEF LInsert, Writable, i, at
  <2> QED BY <2>2, <2>3, <2>4
<1>2. CASE v.type \notin {"none", "nodata", "list"}
  <2>1. LInsert(v, after, piv, val) = Status(v, "bad_type")
    BY <1>2 DEF LInsert, Writable
  <2> QED BY <2>1, GoodSame
<1> QED BY <1>1, <1>2

\* LSET leaves a list of the same length (exec_lset).
LEMMA LSetGood ==
    ASSUME NEW v, WellFormed(v), NEW i, NEW val
    PROVE  Outcome(v, LSet(v, i, val))
<1> DEFINE l == Elements(v)
           j == IF i < 0 THEN Len(l) + i + 1 ELSE i + 1
<1>1. CASE v.type \in {"none", "nodata", "list"}
  <2>1. IsSeq(l)
    BY <1>1, ElementsSeq
  <2> HIDE DEF j
  <2>2. Outcome(v, Done(List([l EXCEPT ![j] = val]), "send_ok", <<>>, Pushed))
    BY <2>1, ExceptIsSeq, GoodDone, Builds DEF Told, Pushed
  <2>3. Outcome(v, Status(Untyped, "bad_range")) /\ Outcome(v, Status(v, "bad_range"))
    BY GoodQuiet, GoodSame, Builds
  <2>4. LSet(v, i, val) = IF j \in DOMAIN l THEN Done(List([l EXCEPT ![j] = val]), "send_ok", <<>>, Pushed)
            ELSE Status(IF v.type = "list" THEN v ELSE Untyped, "bad_range")
    BY <1>1, Zenon DEF LSet, Writable, j
  <2> QED BY <2>2, <2>3, <2>4
<1>2. CASE v.type \notin {"none", "nodata", "list"}
  <2>1. LSet(v, i, val) = Status(v, "bad_type")
    BY <1>2 DEF LSet, Writable
  <2> QED BY <2>1, GoodSame
<1> QED BY <1>1, <1>2

\* do_pop: what is left of a list of which something was taken.
LEMMA LeftGood ==
    ASSUME NEW v, WellFormed(v), v.type = "list", NEW l, IsSeq(l),
           l # <<>> => v.data # <<>>, NEW st, NEW rep, NEW del
    PROVE  Outcome(v, Left(l, st, rep, del))
<1>1. WellFormed(List(l)) /\ (Has(List(l)) => Has(v))
  BY Builds DEF Has, List, Val
<1>2. \A fl : Outcome(v, Done(List(l), st, rep, fl)) /\ Outcome(v, Done(Absent, st, rep, fl))
  BY <1>1, GoodDone, GoodQuiet, Builds
<1> QED BY <1>2 DEF Left

\* LPOP and RPOP leave the rest of the list, or no key (do_pop).
LEMMA PopGood ==
    ASSUME NEW v, WellFormed(v), NEW end, NEW none
    PROVE  Outcome(v, Pop(v, end, none))
<1> DEFINE l == v.data
<1>1. Outcome(v, Status(v, none)) /\ Outcome(v, Status(v, "bad_type"))
  BY GoodSame
<1>2. ASSUME v.type = "list", l # <<>>
      PROVE  /\ Outcome(v, Left(Tail(l), "ok", <<Head(l)>>, TRUE))
             /\ Outcome(v, Left(Front(l), "ok", <<Last(l)>>, TRUE))
  <2>1. IsSeq(l) /\ Len(l) \in Nat
    BY <1>2, Forms, SeqFacts
  <2>2. IsSeq(Tail(l)) /\ IsSeq(Front(l))
    <3>1. Tail(l) \in Seq(ToSet(l))
      BY <1>2, <2>1, HeadTailProperties DEF IsSeq
    <3>2. IsSeq(Front(l))
      BY <2>1, SubSeqIsSeq DEF Front
    <3> QED BY <3>1, <3>2, SeqIsSeq
  <2> QED BY <1>2, <2>2, LeftGood
<1> QED BY <1>1, <1>2 DEF Pop, OfType

\* BLPOP and BRPOP leave what LPOP and RPOP do.
LEMMA BPopGood ==
    ASSUME NEW v, WellFormed(v), NEW k, NEW end
    PROVE  Outcome(v, BPop(v, k, end))
<1> PICK r : r = Pop(v, end, "blocked")
  OBVIOUS
<1>1. Outcome(v, r) /\ BPop(v, k, end) = IF r.st = "ok" THEN [r EXCEPT !.st = "send_data", !.rep = <<k>> \o @] ELSE r
  BY PopGood DEF BPop
<1>2. \A st, rep : LET q == [r EXCEPT !.st = st, !.rep = rep]
                   IN  q.v = r.v /\ q.exp = r.exp /\ q.fl = r.fl
  <2>1. {"v", "exp", "fl", "st", "rep"} \subseteq DOMAIN r
    BY DEF Pop, OfType, Status, Done, Left
  <2> QED BY <2>1
<1> QED BY <1>1, <1>2 DEF Outcome

\* LREM leaves a list without some of its elements, or no key (exec_lrem).
LEMMA LRemGood ==
    ASSUME NEW v, WellFormed(v), NEW n, NEW val
    PROVE  Outcome(v, LRem(v, n, val))
<1> DEFINE l == v.data
           at == {i \in DOMAIN l : l[i] = val}
           gone == {i \in at : \/ n = 0
                               \/ n > 0 /\ Cardinality({j \in at : j <= i}) <= n
                               \/ n < 0 /\ Cardinality({j \in at : j >= i}) <= 0 - n}
           keep == Select([i \in DOMAIN l |-> i], LAMBDA i : i \notin gone)
           rest == [j \in DOMAIN keep |-> l[keep[j]]]
           fl == IF gone = {} THEN {} ELSE Popped
<1>1. Outcome(v, Status(v, "send_zero")) /\ Outcome(v, Status(v, "bad_type"))
  BY GoodSame
<1>2. ASSUME v.type = "list" PROVE Outcome(v, SendInt(List(rest), Cardinality(gone), fl))
  <2>1. IsSeq(l) /\ Len(l) \in Nat /\ DOMAIN l = 1..Len(l)
    BY <1>2, Forms, SeqFacts
  <2> DEFINE all == [i \in DOMAIN l |-> i]
  <2>2. IsSeq(all) /\ Len(all) = Len(l)
    <3>1. all = [i \in 1..Len(l) |-> all[i]]
      BY <2>1
    <3> QED BY <2>1, <3>1, FunIsSeq
  <2>3. keep \in Seq(ToSet(all)) /\ IsSeq(keep)
    <3>1. keep = Only(all, {x \in ToSet(all) : x \notin gone})
      BY Zenon DEF Select
    <3> HIDE DEF all, gone, keep
    <3> QED BY <2>2, <3>1, OnlyIsSeq
  <2> HIDE DEF keep
  <2>4. IsSeq(rest) /\ Len(rest) = Len(keep)
    <3>1. Len(keep) \in Nat /\ DOMAIN keep = 1..Len(keep)
      BY <2>3, SeqFacts
    <3>2. rest = [j \in 1..Len(keep) |-> rest[j]]
      BY <3>1
    <3> HIDE DEF rest
    <3> QED BY <3>1, <3>2, FunIsSeq
  <2>5. l = <<>> => rest = <<>>
    <3>1. l = <<>> => ToSet(all) = {}
      BY DEF ToSet
    <3>2. ToSet(all) = {} => keep = <<>>
      <4>1. keep \in Seq({}) => keep = <<>>
        OBVIOUS
      <4> QED BY <2>3, <4>1
    <3> QED BY <3>1, <3>2, <2>4, EmptyIsSeq
  <2>6. WellFormed(List(rest)) /\ (Has(List(rest)) => Has(v))
    <3> HIDE DEF rest
    <3> QED BY <1>2, <2>4, <2>5, Builds DEF Has, List, Val
  <2> HIDE DEF rest, fl, gone
  <2> QED BY <2>6, GoodDone
<1>3. LRem(v, n, val) = IF v.type \in {"none", "nodata"} THEN Status(v, "send_zero")
                        ELSE IF v.type = "list" THEN SendInt(List(rest), Cardinality(gone), fl)
                        ELSE Status(v, "bad_type")
  BY Zenon DEF LRem, OfType
<1> QED BY <1>1, <1>2, <1>3

\* LTRIM leaves a range of the list, or no key (exec_ltrim).
LEMMA LTrimGood ==
    ASSUME NEW v, WellFormed(v), NEW from \in Int, NEW to \in Int
    PROVE  Outcome(v, LTrim(v, from, to))
<1> DEFINE l == v.data
           n == Len(l)
           r == Clip(n, from, to)
           rest == r[1]
           right == n - r[2]
           w == List(SubSeq(l, rest + 1, n - right))
<1>1. \A st : Outcome(v, Status(v, st)) /\ Outcome(v, Done(v, st, <<>>, Popped))
  BY GoodSame
<1>2. \A fl : Outcome(v, Done(Absent, "send_ok", <<>>, fl))
  BY GoodQuiet, Builds
<1>3. ASSUME v.type = "list", rest # 0 \/ right # 0
      PROVE  Outcome(v, Done(w, "send_ok", <<>>, Popped))
  <2>1. IsSeq(l) /\ n \in Nat
    BY <1>3, Forms, SeqFacts
  <2>2. r[1] \in 0..n /\ r[2] \in 0..n
    BY <2>1 DEF Clip
  <2>3. Has(v)
    <3>1. n # 0
      BY <1>3, <2>1, <2>2
    <3> QED BY <1>3, <2>1, <3>1, EmptyIsSeq DEF Has
  <2> HIDE DEF r
  <2> PICK a \in Int, b \in Int : a = rest + 1 /\ b = n - right
    BY <2>1, <2>2
  <2>4. IsSeq(SubSeq(l, a, b))
    BY SubSeqIsSeq
  <2>5. WellFormed(w)
    BY <2>4, Builds
  <2> HIDE DEF w
  <2> QED BY <2>3, <2>5, GoodDone
<1>4. LTrim(v, from, to) =
         IF v.type \in {"none", "nodata"} THEN Status(v, "send_ok")
         ELSE IF v.type # "list" THEN Status(v, "bad_type")
         ELSE IF rest = 0 /\ right = 0 THEN Done(v, "send_ok", <<>>, Popped)
         ELSE IF rest + right >= n THEN Done(Absent, "send_ok", <<>>, Popped \cup {"del"})
         ELSE Done(w, "send_ok", <<>>, Popped)
  BY Zenon DEF LTrim, OfType
<1> HIDE DEF rest, right, w, n
<1> QED BY <1>1, <1>2, <1>3, <1>4

\* The second key of RPOPLPUSH.
LEMMA DestGood ==
    ASSUME NEW v, WellFormed(v), NEW buffered, NEW elem
    PROVE  Outcome(v, RPopLPushDest(v, buffered, elem))
<1> PICK r : r = Push(v, "left", <<Moved(buffered, elem)>>, FALSE)
  OBVIOUS
<1>1. Outcome(v, r)
  BY PushGood, AppendIsSeq, EmptyIsSeq
<1>2. RPopLPushDest(v, buffered, elem) =
         IF r.st = "send_int" THEN [r EXCEPT !.st = "ok", !.ival = 0] ELSE r
  BY DEF RPopLPushDest
<1>3. LET q == [r EXCEPT !.st = "ok", !.ival = 0]
      IN  q.v = r.v /\ q.exp = r.exp /\ q.fl = r.fl /\ q.st # "again"
  <2>1. {"v", "exp", "fl", "st"} \subseteq DOMAIN r
    BY DEF Push, Writable, Status, SendInt, Done
  <2> QED BY <2>1
<1> QED BY <1>1, <1>2, <1>3 DEF Outcome

\* Every list command.
LEMMA ListCmdGood ==
    ASSUME NEW c, c.catg = "list", IsCall(c), NEW i, i \in DOMAIN c.keys, NEW x, WellFormed(x.v)
    PROVE  Outcome(x.v, ListCmd(c, i, x))
<1>1. c.cmd \in {"lindex", "llen", "lrange", "push", "linsert", "lset", "pop", "bpop", "lrem",
                 "ltrim", "rpoplpush"}
  BY DEF IsCall, Commands
<1>2. IsArgs(c) /\ (c.cmd = "rpoplpush" => i \in {1, 2})
  BY CallFacts DEF IsCall, IsArity
<1>3. \A st, rep, n, fl : /\ Outcome(x.v, Status(x.v, st)) /\ Outcome(x.v, Data(x.v, rep))
                          /\ Outcome(x.v, SendInt(x.v, n, fl))
  BY GoodSame
<1>4. CASE c.cmd = "lindex"
  BY <1>3, <1>4 DEF ListCmd, LIndex, OfType
<1>5. CASE c.cmd = "llen"
  BY <1>3, <1>5 DEF ListCmd, LLen, OfType
<1>6. CASE c.cmd = "lrange"
  BY <1>3, <1>6 DEF ListCmd, LRange, OfType
<1>7. CASE c.cmd = "push"
  BY <1>2, <1>7, PushGood DEF ListCmd, IsArgs
<1>8. CASE c.cmd = "linsert"
  BY <1>8, LInsertGood DEF ListCmd
<1>9. CASE c.cmd = "lset"
  BY <1>9, LSetGood DEF ListCmd
<1>10. CASE c.cmd = "pop"
  BY <1>10, PopGood DEF ListCmd
<1>11. CASE c.cmd = "bpop"
  BY <1>11, BPopGood DEF ListCmd
<1>12. CASE c.cmd = "lrem"
  BY <1>12, LRemGood DEF ListCmd
<1>13. CASE c.cmd = "ltrim"
  BY <1>2, <1>13, LTrimGood DEF ListCmd, IsArgs
<1>14. CASE c.cmd = "rpoplpush"
  BY <1>2, <1>3, <1>14, PopGood, DestGood DEF ListCmd, Wait
<1> QED BY <1>1, <1>4, <1>5, <1>6, <1>7, <1>8, <1>9, <1>10, <1>11, <1>12, <1>13, <1>14

-----------------------------------------------------------------------------
(* Hashes *)

\* the update of one pair (hset and hmset)
SetPair(acc, p) == SetField(acc, p[1], p[2])

PairFold == INSTANCE FoldTheorems WITH Op <- SetPair

\* A field that is set is there once.
LEMMA SetFieldHash ==
    ASSUME NEW h, IsHash(h), NEW f, NEW x
    PROVE  IsHash(SetField(h, f, x))
<1> DEFINE g == [i \in DOMAIN h |-> IF h[i][1] = f THEN <<f, x>> ELSE h[i]]
           a == Append(h, <<f, x>>)
           n == Len(h)
<1>1. /\ IsSeq(h) /\ n \in Nat /\ DOMAIN h = 1..n
      /\ \A i, j \in 1..n : h[i][1] = h[j][1] => i = j
  BY SeqFacts DEF IsHash
<1>2. ASSUME HasField(h, f) PROVE IsHash(g)
  <2>1. \A i \in 1..n : g[i][1] = h[i][1]
    BY <1>1
  <2>2. g = [i \in 1..n |-> g[i]]
    BY <1>1
  <2> HIDE DEF g
  <2>3. IsSeq(g) /\ DOMAIN g = 1..n
    BY <1>1, <2>2, FunIsSeq
  <2> QED BY <1>1, <2>1, <2>3 DEF IsHash
<1>3. ASSUME ~HasField(h, f) PROVE IsHash(a)
  <2>1. \A i \in 1..n : h[i][1] # f
    BY <1>1, <1>3 DEF HasField, Slot
  <2>2. IsSeq(a) /\ Len(a) = n + 1 /\ a[n + 1] = <<f, x>> /\ \A i \in 1..n : a[i] = h[i]
    <3> PICK e : e = <<f, x>>
      OBVIOUS
    <3>1. /\ IsSeq(Append(h, e)) /\ Len(Append(h, e)) = Len(h) + 1 /\ Append(h, e)[Len(h) + 1] = e
          /\ \A i \in 1..Len(h) : Append(h, e)[i] = h[i]
      <4>1. IsSeq(h)
        BY <1>1
      <4> QED BY ONLY <4>1, AppendIsSeq
    <3> QED BY <3>1
  <2> HIDE DEF a
  <2>3. DOMAIN a = 1..(n + 1) /\ a[n + 1][1] = f
    BY <2>2, SeqFacts
  <2>4. \A i \in 1..(n + 1) : i \in 1..n \/ i = n + 1
    BY <1>1
  <2>5. ASSUME NEW i \in 1..(n + 1), NEW j \in 1..(n + 1), a[i][1] = a[j][1] PROVE i = j
    BY <1>1, <2>1, <2>2, <2>3, <2>4, <2>5
  <2> QED BY <2>2, <2>3, <2>5 DEF IsHash
<1> QED BY <1>2, <1>3 DEF SetField

\* So is every field of several pairs.
LEMMA PairsHash ==
    ASSUME NEW h, IsHash(h), NEW pairs, IsSeq(pairs)
    PROVE  IsHash(FoldLeft(LAMBDA acc, p : SetField(acc, p[1], p[2]), h, pairs))
<1> DEFINE n == Len(pairs)
<1>1. n \in Nat /\ DOMAIN pairs = 1..n
  BY SeqFacts
<1>2. FoldLeft(LAMBDA acc, p : SetField(acc, p[1], p[2]), h, pairs) = PairFold!Fold(h, pairs)
  BY Zenon DEF PairFold!Fold, PairFold!Iter, PairFold!IsIter, FoldLeft, MapThenFoldSet, Max,
               PairFold!Top, SetPair
<1>3. PICK g : /\ g[0] = h
               /\ \A i \in 1..n : g[i] = SetPair(g[i - 1], pairs[i])
               /\ g[n] = PairFold!Fold(h, pairs)
  BY <1>1, PairFold!FoldSteps
<1> HIDE DEF n
<1> DEFINE P == {i \in 0..n : IsHash(g[i])}
<1>4. 0 \in P
  BY <1>1, <1>3
<1>5. ASSUME NEW i \in 1..n, i - 1 \in P PROVE i \in P
  BY <1>1, <1>3, <1>5, SetFieldHash DEF SetPair
<1> HIDE DEF P
<1>6. n \in P
  BY <1>1, <1>4, <1>5, PlusFold!SetInduction
<1> QED BY <1>2, <1>3, <1>6 DEF P

\* What is left of a hash has no field twice.
LEMMA OnlyHash ==
    ASSUME NEW h, IsHash(h), NEW S
    PROVE  IsHash(Only(h, S))
<1> PICK q : q = Only(h, S)
  OBVIOUS
<1>1. IsSeq(h) /\ Len(h) \in Nat /\ DOMAIN h = 1..Len(h)
  BY SeqFacts DEF IsHash
<1>2. PICK idx : Picks(q, h, S, Len(h), idx)
  BY <1>1, OnlyPicks
<1>3. IsSeq(q) /\ Len(q) \in Nat /\ DOMAIN q = 1..Len(q) /\ Len(q) = Len(idx)
  BY <1>2, SeqIsSeq, SeqFacts DEF Picks
<1>4. \A j \in 1..Len(q) : idx[j] \in 1..Len(h) /\ q[j] = h[idx[j]]
  BY <1>2, <1>3, ElementOfSeq DEF Picks
<1>5. \A j, k \in 1..Len(q) : j < k => idx[j] < idx[k]
  BY <1>2, <1>3 DEF Picks
<1>6. ASSUME NEW j \in 1..Len(q), NEW k \in 1..Len(q), q[j][1] = q[k][1] PROVE j = k
  <2>1. idx[j] = idx[k]
    BY <1>1, <1>4, <1>6 DEF IsHash
  <2> QED BY <1>1, <1>4, <1>5, <2>1
<1> QED BY <1>3, <1>6 DEF IsHash

\* What a hash command that writes sees.
LEMMA FieldsHash ==
    ASSUME NEW v, WellFormed(v), v.type \in {"none", "nodata", "hash"}
    PROVE  IsHash(Fields(v))
<1>1. IsHash(<<>>)
  BY EmptyIsSeq DEF IsHash
<1> QED BY <1>1, Forms DEF Fields

\* Every hash command.
LEMMA HashCmdGood ==
    ASSUME NEW c, c.catg = "hash", IsCall(c), NEW i, NEW x, WellFormed(x.v)
    PROVE  Outcome(x.v, HashCmd(c, i, x))
<1> PICK v : v = x.v
  OBVIOUS
<1> DEFINE h == Fields(v)
           W == {"none", "nodata", "hash"}
<1>1. c.cmd \in {"hget", "hexists", "hlen", "hstrlen", "hkeys", "hvals", "hgetall", "hmget",
                 "hscan", "hset", "hmset", "hsetnx", "happend", "hincrby", "hdel"}
  BY DEF IsCall, Commands
<1>2. IsArgs(c)
  BY DEF IsCall
<1>3. \A st, rep, n, fl : /\ Outcome(v, Status(v, st)) /\ Outcome(v, Data(v, rep))
                          /\ Outcome(v, SendInt(v, n, fl))
  BY GoodSame
<1>4. \A w, st, rep, n, fl : IsHash(w) => /\ Outcome(v, Status(Hash(w), st))
                                          /\ Outcome(v, Done(Hash(w), st, rep, fl))
                                          /\ Outcome(v, SendInt(Hash(w), n, fl))
  BY GoodQuiet, Builds
<1>5. v.type \in W => IsHash(h)
  BY FieldsHash
<1>6. \A f, y : v.type \in W => IsHash(SetField(h, f, y))
  BY <1>5, SetFieldHash
<1>7. CASE c.cmd \in {"hget", "hexists", "hlen", "hstrlen"}
  BY <1>3, <1>7 DEF HashCmd, HRead, OfType
<1>8. CASE c.cmd \in {"hkeys", "hvals", "hgetall"}
  BY <1>3, <1>8 DEF HashCmd, HAll, OfType
<1>9. CASE c.cmd = "hmget"
  BY <1>3, <1>9 DEF HashCmd, HMGet, OfType
<1>10. CASE c.cmd = "hscan"
  BY <1>3, <1>10 DEF HashCmd, HScan, OfType
<1>11. ASSUME IsSeq(c.pairs) PROVE Outcome(v, HSet(v, c.pairs))
  <2> DEFINE m == FoldLeft(LAMBDA acc, p : SetField(acc, p[1], p[2]), h, c.pairs)
  <2>1. v.type \in W => IsHash(m)
    BY <1>5, <1>11, PairsHash
  <2>2. HSet(v, c.pairs) = IF v.type \in W THEN SendInt(Hash(m), Len(m) - Len(h), Changed)
                           ELSE Status(v, "bad_type")
    BY Zenon DEF HSet, HWritable
  <2> HIDE DEF m
  <2> QED BY <1>3, <1>4, <2>1, <2>2
<1>12. CASE c.cmd = "hset"
  BY <1>2, <1>11, <1>12 DEF HashCmd, IsArgs
<1>13. CASE c.cmd = "hmset"
  <2> PICK r : r = HSet(v, c.pairs)
    OBVIOUS
  <2>1. Outcome(v, r)
    BY <1>2, <1>11, <1>13 DEF IsArgs
  <2>2. HashCmd(c, i, x) = IF r.st = "send_int" THEN [r EXCEPT !.st = "send_ok", !.ival = 0] ELSE r
    BY <1>13 DEF HashCmd, HMSet
  <2>3. {"v", "exp", "fl"} \subseteq DOMAIN r
    BY DEF HSet, HWritable, Status, SendInt, Done
  <2>4. LET q == [r EXCEPT !.st = "send_ok", !.ival = 0]
        IN  q.v = r.v /\ q.exp = r.exp /\ q.fl = r.fl
    BY <2>3
  <2> QED BY <2>1, <2>2, <2>4 DEF Outcome
<1>14. CASE c.cmd = "hsetnx"
  <2>1. HashCmd(c, i, x) =
           IF v.type \notin W THEN Status(v, "bad_type")
           ELSE IF HasField(h, c.f) THEN Status(Hash(h), "send_zero")
           ELSE Done(Hash(SetField(h, c.f, c.val)), "send_one", <<>>, Changed)
    BY <1>14 DEF HashCmd, HSetNx, HWritable
  <2> DEFINE y == SetField(h, c.f, c.val)
  <2>2. v.type \in W => IsHash(h) /\ IsHash(y)
    BY <1>5, <1>6
  <2> HIDE DEF h, y
  <2>3. v.type \in W => /\ Outcome(v, Status(Hash(h), "send_zero"))
                        /\ Outcome(v, Done(Hash(y), "send_one", <<>>, Changed))
    BY <1>4, <2>2
  <2> QED BY <1>3, <2>1, <2>3 DEF y
<1>15. CASE c.cmd = "happend"
  <2> DEFINE y == FoldLeft(\o, IF HasField(h, c.f) THEN Field(h, c.f) ELSE <<>>, c.vals)
             st == IF HasField(h, c.f) THEN "send_zero" ELSE "send_one"
  <2>1. HashCmd(c, i, x) = IF v.type \in W THEN Done(Hash(SetField(h, c.f, y)), st, <<>>, Changed)
                           ELSE Status(v, "bad_type")
    BY <1>15 DEF HashCmd, HAppend, HWritable
  <2> HIDE DEF y, st
  <2> QED BY <1>3, <1>4, <1>6, <2>1
<1>16. CASE c.cmd = "hincrby"
  <2> DEFINE old == IF HasField(h, c.f) /\ IsInt(Field(h, c.f)) THEN IntOf(Field(h, c.f)) ELSE 0
             y == IntText(old + c.n)
  <2>1. HashCmd(c, i, x) =
           IF v.type \in W THEN Done(Hash(SetField(h, c.f, y)), "ok", <<old + c.n>>, Changed)
           ELSE Status(v, "bad_type")
    BY <1>16 DEF HashCmd, HIncrBy, HWritable
  <2> HIDE DEF y, old
  <2> QED BY <1>3, <1>4, <1>6, <2>1
<1>17. CASE c.cmd = "hdel"
  <2> DEFINE rest == Select(v.data, LAMBDA p : p[1] \notin ToSet(c.fs))
             n == Len(v.data) - Len(rest)
  <2>1. v.type = "hash" => IsHash(rest)
    BY Forms, OnlyHash DEF Select
  <2>2. HashCmd(c, i, x) =
           IF v.type \in {"none", "nodata"} THEN Status(v, "send_zero")
           ELSE IF v.type # "hash" THEN Status(v, "bad_type")
           ELSE IF n = 0 THEN SendInt(v, 0, {})
           ELSE IF rest = <<>> THEN SendInt(Absent, n, Changed \cup {"del"})
           ELSE SendInt(Hash(rest), n, Changed)
    BY <1>17 DEF HashCmd, HDel, OfType
  <2>3. \A k, fl : Outcome(v, SendInt(Absent, k, fl))
    BY GoodQuiet, Builds
  <2> HIDE DEF rest, n
  <2> QED BY <1>3, <1>4, <2>1, <2>2, <2>3
<1> QED BY <1>1, <1>7, <1>8, <1>9, <1>10, <1>12, <1>13, <1>14, <1>15, <1>16, <1>17

\* q are the elements of s at the places idx, in their order, and all those
\* of the set
Kept(q, s, S, idx) ==
    /\ \A j \in 1..Len(q) : idx[j] \in 1..Len(s) /\ q[j] = s[idx[j]] /\ q[j] \in S
    /\ \A j, k \in 1..Len(q) : j < k => idx[j] < idx[k]
    /\ \A p \in 1..Len(s) : s[p] \in S => \E j \in 1..Len(q) : idx[j] = p

\* What is left of a sequence are elements of it, in their order.
LEMMA OnlyPlaces ==
    ASSUME NEW s, IsSeq(s), NEW S, NEW q, q = Only(s, S)
    PROVE  /\ IsSeq(q) /\ Len(q) \in Nat /\ DOMAIN q = 1..Len(q)
           /\ \E idx : Kept(q, s, S, idx)
<1>1. Len(s) \in Nat /\ DOMAIN s = 1..Len(s)
  BY SeqFacts
<1>2. PICK idx : Picks(q, s, S, Len(s), idx)
  BY OnlyPicks
<1>3. IsSeq(q) /\ Len(q) \in Nat /\ DOMAIN q = 1..Len(q) /\ Len(q) = Len(idx)
  BY <1>2, SeqIsSeq, SeqFacts DEF Picks
<1>4. \A j \in 1..Len(q) : idx[j] \in 1..Len(s) /\ q[j] = s[idx[j]] /\ q[j] \in S
  BY <1>2, <1>3, ElementOfSeq DEF Picks
<1>5. /\ \A j, k \in 1..Len(q) : j < k => idx[j] < idx[k]
      /\ \A p \in 1..Len(s) : s[p] \in S => \E j \in 1..Len(q) : idx[j] = p
  BY <1>2, <1>3 DEF Picks
<1>6. Kept(q, s, S, idx)
  BY <1>4, <1>5 DEF Kept
<1> QED BY <1>3, <1>6

-----------------------------------------------------------------------------
(* Sets *)

\* What is left of a set has no member twice, and those that are kept.
LEMMA OnlySet ==
    ASSUME NEW m, IsSet(m), NEW S
    PROVE  IsSet(Only(m, S)) /\ ToSet(Only(m, S)) = ToSet(m) \cap S
<1> PICK q : q = Only(m, S)
  OBVIOUS
<1>1. IsSeq(m) /\ Len(m) \in Nat /\ DOMAIN m = 1..Len(m)
  BY SeqFacts DEF IsSet
<1>2. IsSeq(q) /\ Len(q) \in Nat /\ DOMAIN q = 1..Len(q)
  BY <1>1, OnlyPlaces
<1>3. PICK idx : Kept(q, m, S, idx)
  BY <1>1, OnlyPlaces
<1>4. ASSUME NEW j \in 1..Len(q), NEW k \in 1..Len(q), q[j] = q[k] PROVE j = k
  <2>1. idx[j] = idx[k] /\ idx[j] \in Int
    BY <1>1, <1>3, <1>4 DEF IsSet, Kept
  <2> QED BY <1>2, <1>3, <2>1 DEF Kept
<1>5. \A x : x \in ToSet(q) <=> x \in ToSet(m) /\ x \in S
  <2>1. \A x : x \in ToSet(q) <=> \E j \in 1..Len(q) : q[j] = x
    BY <1>2 DEF ToSet
  <2>2. \A x : x \in ToSet(m) <=> \E j \in 1..Len(m) : m[j] = x
    BY <1>1 DEF ToSet
  <2> QED BY <1>3, <2>1, <2>2 DEF Kept
<1> QED BY <1>2, <1>4, <1>5 DEF IsSet

\* One more member.
LEMMA PlusOneSet ==
    ASSUME NEW m, IsSet(m), NEW x
    PROVE  IsSet(PlusOne(m, x)) /\ ToSet(PlusOne(m, x)) = ToSet(m) \cup {x}
<1> PICK a : a = Append(m, x)
  OBVIOUS
<1>1. IsSeq(m) /\ Len(m) \in Nat /\ DOMAIN m = 1..Len(m)
  BY SeqFacts DEF IsSet
<1>2. /\ IsSeq(a) /\ Len(a) = Len(m) + 1 /\ a[Len(m) + 1] = x
      /\ \A i \in 1..Len(m) : a[i] = m[i]
  BY <1>1, AppendIsSeq
<1>3. DOMAIN a = 1..(Len(m) + 1)
  BY <1>2, SeqFacts
<1>4. \A i \in 1..(Len(m) + 1) : i \in 1..Len(m) \/ i = Len(m) + 1
  BY <1>1
<1>5. \A y : y \in ToSet(m) <=> \E j \in 1..Len(m) : m[j] = y
  BY <1>1 DEF ToSet
<1>6. ASSUME x \notin ToSet(m) PROVE IsSet(a)
  <2>1. ASSUME NEW i \in 1..(Len(m) + 1), NEW j \in 1..(Len(m) + 1), a[i] = a[j] PROVE i = j
    BY <1>1, <1>2, <1>4, <1>5, <1>6, <2>1 DEF IsSet
  <2> QED BY <1>2, <1>3, <2>1 DEF IsSet
<1>7. ToSet(a) = ToSet(m) \cup {x}
  <2>1. \A y : y \in ToSet(a) <=> \E j \in 1..(Len(m) + 1) : a[j] = y
    BY <1>3 DEF ToSet
  <2>2. \A j \in 1..Len(m) : j \in 1..(Len(m) + 1)
    BY <1>1
  <2>3. Len(m) + 1 \in 1..(Len(m) + 1)
    BY <1>1
  <2> QED BY <1>2, <1>4, <1>5, <2>1, <2>2, <2>3
<1> QED BY <1>6, <1>7 DEF PlusOne

\* Several members more.
LEMMA PlusIsSet ==
    ASSUME NEW m, IsSet(m), NEW xs, IsSeq(xs)
    PROVE  IsSet(Plus(m, xs)) /\ ToSet(Plus(m, xs)) = ToSet(m) \cup ToSet(xs)
<1> DEFINE n == Len(xs)
<1>1. n \in Nat /\ DOMAIN xs = 1..n
  BY SeqFacts
<1>2. Plus(m, xs) = PlusFold!Fold(m, xs)
  BY Zenon DEF PlusFold!Fold, PlusFold!Iter, PlusFold!IsIter, FoldLeft, MapThenFoldSet, Max,
               PlusFold!Top, Plus
<1>3. PICK g : /\ g[0] = m
               /\ \A i \in 1..n : g[i] = PlusOne(g[i - 1], xs[i])
               /\ g[n] = PlusFold!Fold(m, xs)
  BY <1>1, PlusFold!FoldSteps
<1> HIDE DEF n
<1> DEFINE In_(i) == {xs[j] : j \in 1..i}
           P == {i \in 0..n : IsSet(g[i]) /\ ToSet(g[i]) = ToSet(m) \cup In_(i)}
<1>4. 0 \in P
  BY <1>1, <1>3
<1>5. ASSUME NEW i \in 1..n, i - 1 \in P PROVE i \in P
  <2>1. In_(i) = In_(i - 1) \cup {xs[i]}
    <3>1. \A j : j \in 1..i <=> j \in 1..(i - 1) \/ j = i
      OBVIOUS
    <3> QED BY <3>1
  <2> HIDE DEF In_
  <2>2. IsSet(g[i]) /\ ToSet(g[i]) = ToSet(g[i - 1]) \cup {xs[i]}
    BY <1>3, <1>5, PlusOneSet
  <2> QED BY <1>5, <2>1, <2>2
<1> HIDE DEF P
<1>6. n \in P
  BY <1>1, <1>4, <1>5, PlusFold!SetInduction
<1>7. ToSet(xs) = {xs[j] : j \in 1..n}
  BY <1>1 DEF ToSet
<1> QED BY <1>2, <1>3, <1>6, <1>7 DEF P

\* The maximum of positions is one of them.
LEMMA TopOf ==
    ASSUME NEW n \in Nat, NEW s \in SUBSET (1..n), s # {}
    PROVE  Max(s) \in s
<1> DEFINE T == {n - x : x \in s}
<1>1. T \subseteq Nat
  OBVIOUS
<1>2. PICK m \in T : \A y \in T : m <= y
  <2>1. PICK x : x \in s
    OBVIOUS
  <2>2. n - x \in T
    BY <2>1
  <2> HIDE DEF T
  <2> QED BY <1>1, <2>2, PlusFold!NatLeast
<1>3. n - m \in s /\ \A y \in s : n - m >= y
  BY <1>2
<1> QED BY <1>3, Zenon DEF Max

\* a merge, with the operation beside the source
MergeStep(acc, q) == Merge(q[1], acc, q[2])

MergeFold == INSTANCE FoldTheorems WITH Op <- MergeStep

\* The sources are merged one after the other.
LEMMA MergeSteps ==
    ASSUME NEW op, NEW parts, NEW n \in Nat, DOMAIN Tail(parts) = 1..n
    PROVE  \E h : /\ h[0] = parts[1]
                  /\ \A i \in 1..n : h[i] = Merge(op, h[i - 1], Tail(parts)[i])
                  /\ h[n] = MergeAll(op, parts)
<1> DEFINE base == parts[1]
           seq == Tail(parts)
           sq == [i \in 1..n |-> <<op, seq[i]>>]
           A(g, s) == Merge(op, g[s \ {Max(s)}], seq[Max(s)])
           B(g, s) == MergeStep(g[s \ {Max(s)}], sq[Max(s)])
<1>1. \A s \in SUBSET (1..n) : s # {} => \A a : Merge(op, a, seq[Max(s)]) = MergeStep(a, sq[Max(s)])
  BY TopOf DEF MergeStep
<1>2. DOMAIN sq = 1..n /\ \A i \in 1..n : \A a : MergeStep(a, sq[i]) = Merge(op, a, seq[i])
  BY DEF MergeStep
<1> HIDE DEF sq
<1>3. \A g : [s \in SUBSET (1..n) |-> IF s = {} THEN base ELSE A(g, s)]
             = [s \in SUBSET (1..n) |-> IF s = {} THEN base ELSE B(g, s)]
  BY <1>1
<1>4. (CHOOSE g : g = [s \in SUBSET (1..n) |-> IF s = {} THEN base ELSE A(g, s)])
      = CHOOSE g : g = [s \in SUBSET (1..n) |-> IF s = {} THEN base ELSE B(g, s)]
  BY <1>3, Zenon
<1>5. MergeFold!Fold(base, sq)
      = (CHOOSE g : g = [s \in SUBSET (1..n) |-> IF s = {} THEN base ELSE B(g, s)])[1..n]
  BY <1>2, Zenon DEF MergeFold!Fold, MergeFold!Iter, MergeFold!IsIter, MergeFold!Top, Max
<1>6. MergeAll(op, parts)
      = (CHOOSE g : g = [s \in SUBSET (1..n) |-> IF s = {} THEN base ELSE A(g, s)])[1..n]
  BY Zenon DEF MergeAll, FoldLeft, MapThenFoldSet, Max
<1>7. PICK h : /\ h[0] = base
               /\ \A i \in 1..n : h[i] = MergeStep(h[i - 1], sq[i])
               /\ h[n] = MergeFold!Fold(base, sq)
  BY <1>2, MergeFold!FoldSteps
<1>8. MergeFold!Fold(base, sq) = MergeAll(op, parts)
  BY <1>4, <1>5, <1>6, Zenon
<1> QED BY <1>2, <1>7, <1>8

\* What all the sources make.
LEMMA MergeAllSet ==
    ASSUME NEW parts, IsSeq(parts), parts # <<>>, \A i \in DOMAIN parts : IsSet(parts[i]),
           NEW op \in {"union", "inter", "diff"}
    PROVE  /\ IsSet(MergeAll(op, parts))
           /\ ToSet(MergeAll(op, parts)) = In(op, [i \in DOMAIN parts |-> ToSet(parts[i])])
<1> DEFINE n == Len(parts) - 1
           seq == Tail(parts)
<1>1. n \in Nat /\ DOMAIN parts = 1..(n + 1) /\ DOMAIN seq = 1..n /\ \A i \in 1..n : seq[i] = parts[i + 1]
  <2>1. parts \in Seq(ToSet(parts))
    BY DEF IsSeq
  <2>2. Len(parts) \in Nat /\ DOMAIN parts = 1..Len(parts) /\ Len(parts) # 0
    BY SeqFacts, EmptyIsSeq
  <2>3. seq \in Seq(ToSet(parts)) /\ Len(seq) = Len(parts) - 1
        /\ \A i \in 1..(Len(parts) - 1) : seq[i] = parts[i + 1]
    BY <2>1
  <2> QED BY <2>2, <2>3, SeqIsSeq, SeqFacts
<1> HIDE DEF n, seq
<1>2. PICK h : /\ h[0] = parts[1]
               /\ \A i \in 1..n : h[i] = Merge(op, h[i - 1], seq[i])
               /\ h[n] = MergeAll(op, parts)
  BY <1>1, MergeSteps DEF seq
<1>3. \A i \in 0..n : i + 1 \in DOMAIN parts
  BY <1>1
<1> DEFINE S(i) == ToSet(parts[i])
           R(i) == In(op, [j \in 1..(i + 1) |-> S(j)])
           P == {i \in 0..n : IsSet(h[i]) /\ ToSet(h[i]) = R(i)}
<1>4. ASSUME NEW i \in Nat
      PROVE  R(i) = CASE op = "union" -> UNION {S(j) : j \in 1..(i + 1)}
                      [] op = "inter" -> {m \in S(1) : \A j \in 1..(i + 1) : m \in S(j)}
                      [] op = "diff"  -> {m \in S(1) : \A j \in (1..(i + 1)) \ {1} : m \notin S(j)}
  <2> PICK f : f = [j \in 1..(i + 1) |-> S(j)]
    OBVIOUS
  <2>1. DOMAIN f = 1..(i + 1) /\ \A j \in 1..(i + 1) : f[j] = S(j)
    OBVIOUS
  <2>2. 1 \in 1..(i + 1)
    OBVIOUS
  <2> HIDE DEF S
  <2>3. {f[j] : j \in DOMAIN f} = {S(j) : j \in 1..(i + 1)}
    BY <2>1
  <2>4. CASE op = "union"
    BY <2>3, <2>4 DEF In
  <2>5. CASE op = "inter"
    BY <2>1, <2>2, <2>5 DEF In
  <2>6. CASE op = "diff"
    BY <2>1, <2>2, <2>6 DEF In
  <2> QED BY <2>4, <2>5, <2>6
<1>5. 0 \in P
  <2>1. \A j : j \in 1..(0 + 1) <=> j = 1
    OBVIOUS
  <2>2. R(0) = S(1)
    <3> HIDE DEF R, S
    <3>1. {S(j) : j \in 1..(0 + 1)} = {S(1)}
      BY <2>1
    <3>2. 1 \in 1..(0 + 1) /\ (1..(0 + 1)) \ {1} = {}
      BY <2>1
    <3>3. CASE op = "union"
      BY <1>4, <3>1, <3>3
    <3>4. CASE op = "inter"
      BY <1>4, <2>1, <3>2, <3>4
    <3>5. CASE op = "diff"
      BY <1>4, <3>2, <3>5
    <3> QED BY <3>3, <3>4, <3>5
  <2>3. 0 \in 0..n /\ IsSet(parts[1])
    BY <1>1
  <2> HIDE DEF R
  <2> QED BY <1>2, <2>2, <2>3
<1>6. ASSUME NEW i \in 1..n, i - 1 \in P PROVE i \in P
  <2>1. \A j : j \in 1..(i + 1) <=> j \in 1..((i - 1) + 1) \/ j = i + 1
    OBVIOUS
  <2>2. i \in Nat /\ i - 1 \in Nat /\ i + 1 # 1 /\ 1 \in 1..((i - 1) + 1) /\ i \in 0..n
    OBVIOUS
  <2>3. IsSet(seq[i]) /\ seq[i] = parts[i + 1] /\ IsSeq(seq[i])
    BY <1>1, <1>3, <2>2 DEF IsSet
  <2>4. IsSet(h[i - 1]) /\ ToSet(h[i - 1]) = R(i - 1)
    BY <1>6
  <2>5. h[i] = Merge(op, h[i - 1], seq[i])
    BY <1>2
  <2>6. /\ IsSet(h[i])
        /\ ToSet(h[i]) = CASE op = "union" -> R(i - 1) \cup S(i + 1)
                           [] op = "inter" -> {m \in R(i - 1) : m \in S(i + 1)}
                           [] op = "diff"  -> {m \in R(i - 1) : m \notin S(i + 1)}
    <3> HIDE DEF R
    <3>1. CASE op = "union"
      BY <2>3, <2>4, <2>5, <3>1, PlusIsSet DEF Merge
    <3>2. CASE op = "inter"
      BY <2>3, <2>4, <2>5, <3>2, OnlySet DEF Merge, Select
    <3>3. CASE op = "diff"
      BY <2>3, <2>4, <2>5, <3>3, OnlySet DEF Merge, Minus_, Select
    <3> QED BY <3>1, <3>2, <3>3
  <2>7. ToSet(h[i]) = R(i)
    <3> HIDE DEF R, S
    <3>1. CASE op = "union"
      <4>1. {S(j) : j \in 1..(i + 1)} = {S(j) : j \in 1..((i - 1) + 1)} \cup {S(i + 1)}
        BY <2>1
      <4> QED BY <1>4, <2>2, <2>6, <3>1, <4>1
    <3>2. CASE op = "inter"
      BY <1>4, <2>1, <2>2, <2>6, <3>2
    <3>3. CASE op = "diff"
      BY <1>4, <2>1, <2>2, <2>6, <3>3
    <3> QED BY <3>1, <3>2, <3>3
  <2> QED BY <2>2, <2>6, <2>7
<1> HIDE DEF P
<1>7. n \in P
  <2> HIDE DEF R, S
  <2>1. n \in Nat
    BY <1>1
  <2> QED BY ONLY <2>1, <1>5, <1>6, PlusFold!SetInduction
<1>8. R(n) = In(op, [i \in DOMAIN parts |-> ToSet(parts[i])])
  BY <1>1, Zenon
<1>9. MergeAll(op, parts) = h[n]
  BY <1>2 DEF MergeAll, seq
<1> HIDE DEF R
<1> QED BY <1>7, <1>8, <1>9 DEF P

\* what is saved of a source of a sorted set operation
IsSaved(p) ==
    /\ p = [type |-> p.type, z |-> p.z]
    /\ p.type \in {"nodata", "zset", "geo"}
    /\ IsZSet(p.z)

Sources(part) == IsSeq(part) /\ part # <<>>

\* What a key gets from those before it: the sources of a command that
\* stores, the value that is renamed, the places that were found.
Gathered(c, i, x) ==
    LET part == Tail(x.part)
    IN  /\ i = 1 /\ c.cmd \in {"sstore", "zstore", "bitop"} => Sources(part)
        /\ i = 1 /\ c.cmd = "pfmerge" => IsSeq(part)
        /\ i = 1 /\ c.cmd = "sstore" => \A j \in DOMAIN part : IsSet(part[j])
        /\ i = 1 /\ c.cmd \in {"bitop", "pfmerge"} => \A j \in DOMAIN part : IsSeq(part[j])
        /\ i = 1 /\ c.cmd = "zstore" /\ LastKey(c, x) =>
              /\ \A j \in DOMAIN part : IsSaved(part[j])
              /\ c.weights # <<>> => Len(c.weights) = Len(part)
        /\ i = 2 /\ c.cmd = "rename" /\ (x.tested \/ c.st = "send_ok") => WellFormed(x.part[1])
        /\ i = 2 /\ c.cmd = "georadius" /\ LastKey(c, x) => x.part[1] \in Seq(Int \X Int \X Int)

\* A set that lost members.
LEMMA SetLeftGood ==
    ASSUME NEW v, WellFormed(v), NEW m, IsSet(m), NEW st, NEW rep, NEW n
    PROVE  Outcome(v, SetLeft(m, st, rep, n))
<1> DEFINE fl == IF m = <<>> THEN SetFlags \cup {"del"} ELSE SetFlags
           r == Done(IF m = <<>> THEN Absent ELSE SetVal(m), st, rep, fl)
<1>1. Outcome(v, r)
  <2> PICK f : f = fl
    OBVIOUS
  <2>1. Outcome(v, Done(Absent, st, rep, f)) /\ Outcome(v, Done(SetVal(m), st, rep, f))
    BY Builds, GoodQuiet
  <2> HIDE DEF fl
  <2> QED BY <2>1
<1>2. {"v", "exp", "fl"} \subseteq DOMAIN r
  BY DEF Done
<1>3. SetLeft(m, st, rep, n) = [r EXCEPT !.ival = n]
  BY DEF SetLeft
<1> HIDE DEF r
<1>4. LET q == [r EXCEPT !.ival = n] IN q.v = r.v /\ q.exp = r.exp /\ q.fl = r.fl
  BY <1>2
<1> QED BY <1>1, <1>3, <1>4 DEF Outcome

\* The data of a set, or of none.
LEMMA MembersSet ==
    ASSUME NEW v, WellFormed(v)
    PROVE  IsSet(IF v.type = "set" THEN v.data ELSE <<>>)
<1>1. IsSet(<<>>)
  BY EmptyIsSeq DEF IsSet
<1> QED BY <1>1, Forms

\* Every set command.
LEMMA SetCmdGood ==
    ASSUME NEW c, c.catg = "set", IsCall(c), NEW i \in DOMAIN c.keys, NEW x, WellFormed(x.v),
           Gathered(c, i, x), NEW r \in SetCmd(c, i, x)
    PROVE  Outcome(x.v, r)
<1> PICK v : v = x.v
  OBVIOUS
<1> DEFINE m == IF v.type = "set" THEN v.data ELSE <<>>
<1>1. c.cmd \in {"spop", "srandmember", "scard", "sismember", "smembers", "sscan", "sadd",
                 "srem", "smove", "sop", "sstore"}
  BY DEF IsCall, Commands
<1>2. IsArgs(c) /\ i \in Nat \ {0} /\ (c.cmd = "smove" => i \in {1, 2})
  <2>1. IsArgs(c) /\ c.keys \in Seq(Keys) /\ (c.cmd = "smove" => Len(c.keys) = 2)
    BY DEF IsCall, IsArity
  <2> QED BY <2>1
<1>3. \A st, rep, n, fl : /\ Outcome(v, Status(v, st)) /\ Outcome(v, Data(v, rep))
                          /\ Outcome(v, SendInt(v, n, fl))
  BY GoodSame
<1>4. \A w, st, rep, n, fl : IsSet(w) => /\ Outcome(v, Done(SetVal(w), st, rep, fl))
                                         /\ Outcome(v, SendInt(SetVal(w), n, fl))
                                         /\ Outcome(v, SetLeft(w, st, rep, n))
  BY GoodQuiet, Builds, SetLeftGood
<1>5. IsSet(m) /\ (v.type = "set" => v.data = m) /\ \A S : IsSet(Minus_(m, S))
  BY MembersSet, OnlySet DEF Minus_, Select
<1> HIDE DEF m
<1>6. CASE c.cmd = "spop"
  <2>1. r \in SPop(v, c.n)
    BY <1>6 DEF SetCmd
  <2>2. CASE v.type = "set" /\ v.data # <<>>
    <3>1. PICK b : r = LET d == Drawn(v.data, b)
                       IN  IF d = <<>> THEN Data(v, d)
                           ELSE SetLeft(Minus_(v.data, ToSet(d)), "ok", d, 0)
      BY <2>1, <2>2 DEF SPop
    <3> PICK d : d = Drawn(v.data, b)
      OBVIOUS
    <3>2. r = IF d = <<>> THEN Data(v, d) ELSE SetLeft(Minus_(m, ToSet(d)), "ok", d, 0)
      BY <1>5, <2>2, <3>1
    <3> QED BY <1>3, <1>4, <1>5, <3>2
  <2>3. CASE ~(v.type = "set" /\ v.data # <<>>)
    <3>1. r = OfType(v, "set", Data(v, <<>>), LAMBDA y : Data(v, y))
      BY <2>1, <2>3 DEF SPop
    <3> QED BY <1>3, <3>1 DEF OfType
  <2> QED BY <2>2, <2>3
<1>7. CASE c.cmd = "srandmember"
  <2>1. r \in SRandMember(v, c.n)
    BY <1>7 DEF SetCmd
  <2>2. (\E y : r = Data(v, y)) \/ r = OfType(v, "set", Data(v, <<>>), LAMBDA y : Data(v, y))
    BY <2>1 DEF SRandMember
  <2>3. (\E y : r = Data(v, y)) \/ r = Status(v, "bad_type")
    BY <2>2 DEF OfType
  <2> QED BY <1>3, <2>3
<1>8. CASE c.cmd \in {"scard", "sismember", "smembers"}
  <2>1. r = SCard(v) \/ r = SIsMember(v, c.m) \/ r = SMembers(v)
    BY <1>8 DEF SetCmd
  <2> QED BY <1>3, <2>1 DEF SCard, SIsMember, SMembers, OfType
<1>9. CASE c.cmd = "sscan"
  <2>1. r = SScan(v, c.pos, c.max, c.pat)
    BY <1>9 DEF SetCmd
  <2>2. (\E y : r = Data(v, y)) \/ r = Status(v, "bad_type")
    BY <2>1 DEF SScan, OfType
  <2> QED BY <1>3, <2>2
<1>10. CASE c.cmd = "sadd"
  <2> DEFINE a == Plus(m, c.ms)
  <2>1. IsSet(a)
    BY <1>2, <1>5, <1>10, PlusIsSet DEF IsArgs
  <2>2. r = SAdd(v, c.ms)
    BY <1>10 DEF SetCmd
  <2>3. \/ r = Status(v, "bad_type")
        \/ \E n, fl : r = SendInt(SetVal(a), n, fl)
    BY <2>2 DEF SAdd, m
  <2> HIDE DEF a
  <2> QED BY <1>3, <1>4, <2>1, <2>3
<1>11. CASE c.cmd = "srem"
  <2> DEFINE w == Minus_(m, ToSet(c.ms))
             n == Len(m) - Len(w)
  <2>1. r = SRem(v, c.ms)
    BY <1>11 DEF SetCmd
  <2>2. r = IF v.type \in {"none", "nodata"} THEN Status(v, "send_zero")
            ELSE IF v.type # "set" THEN Status(v, "bad_type")
            ELSE IF n > 0 THEN SetLeft(w, "send_int", <<>>, n) ELSE SendInt(v, 0, {})
    BY <1>5, <2>1 DEF SRem, OfType
  <2>3. IsSet(w)
    BY <1>5
  <2> HIDE DEF w, n
  <2> QED BY <1>3, <1>4, <2>2, <2>3
<1>12. CASE c.cmd = "smove" /\ i = 1
  <2> DEFINE w == Minus_(m, {c.m})
  <2>1. r = SMoveSource(v, c.m)
    BY <1>12 DEF SetCmd
  <2>2. r \in {Status(v, "abort_zero"), Status(v, "bad_type"), SetLeft(w, "ok", <<>>, 0)}
    BY <1>5, <2>1 DEF SMoveSource, OfType
  <2>3. IsSet(w)
    BY <1>5
  <2> HIDE DEF w
  <2> QED BY <1>3, <1>4, <2>2, <2>3
<1>13. CASE c.cmd = "smove" /\ i = 2
  <2> DEFINE w == Plus(m, <<c.m>>)
  <2>1. r = IF x.done = 0 THEN Wait(v) ELSE SMoveDest(v, c.m)
    BY <1>13 DEF SetCmd
  <2>2. r \in {Status(v, "depends"), Done(SetVal(w), "send_one", <<>>, SetFlags)}
    BY <2>1 DEF Wait, SMoveDest, m
  <2>3. IsSet(w)
    BY <1>5, AppendIsSeq, EmptyIsSeq, PlusIsSet
  <2> HIDE DEF w
  <2> QED BY <1>3, <1>4, <2>2, <2>3
<1>14. ASSUME NEW q, q = SaveSet(v) PROVE Outcome(v, q)
  BY <1>3, <1>14 DEF SaveSet, OfType
<1>15. CASE c.cmd = "sop"
  <2> PICK q : q = SaveSet(v)
    OBVIOUS
  <2>1. r = IF q.st = "ok" /\ LastKey(c, x)
            THEN Data(v, MergeAll(c.op, Append(SubSeq(x.part, 1, i - 1), q.rep))) ELSE q
    BY <1>15 DEF SetCmd
  <2> QED BY <1>3, <1>14, <2>1
<1>16. CASE c.cmd = "sstore" /\ i > 1
  <2>1. r = SaveSet(v)
    BY <1>16 DEF SetCmd
  <2> QED BY <1>14, <2>1
<1>17. CASE c.cmd = "sstore" /\ i = 1
  <2> DEFINE w == MergeAll(c.op, Tail(x.part))
  <2>1. r = IF LastKey(c, x) THEN SStore(c.op, Tail(x.part)) ELSE Wait(v)
    BY <1>17 DEF SetCmd
  <2>2. r \in {Status(v, "depends"), SendInt(SetVal(w), Len(w), SetFlags)}
    BY <2>1 DEF Wait, SStore
  <2>3. IsSet(w)
    <3>1. Sources(Tail(x.part)) /\ \A j \in DOMAIN Tail(x.part) : IsSet(Tail(x.part)[j])
      BY <1>17 DEF Gathered
    <3>2. c.op \in {"union", "inter", "diff"}
      BY <1>2, <1>17 DEF IsArgs
    <3> QED BY <3>1, <3>2, MergeAllSet DEF Sources
  <2> HIDE DEF w
  <2> QED BY <1>3, <1>4, <2>2, <2>3
<1> QED BY <1>1, <1>2, <1>6, <1>7, <1>8, <1>9, <1>10, <1>11, <1>12, <1>13, <1>15, <1>16, <1>17

-----------------------------------------------------------------------------
(* Sets in order *)

\* R is an order of S in which two elements are always apart
Orders(S, R) ==
    /\ \A x, y \in S : x = y \/ <<x, y>> \in R \/ <<y, x>> \in R
    /\ \A x \in S : <<x, x>> \notin R
    /\ \A x, y, z \in S : <<x, y>> \in R /\ <<y, z>> \in R => <<x, z>> \in R

\* the elements with so many before them
Ranked(S, R) ==
    [i \in 1..Cardinality(S) |-> CHOOSE x \in S : Cardinality({y \in S : <<y, x>> \in R}) = i - 1]

\* f lists S in the order of R
Lists(f, S, R) ==
    /\ IsSeq(f) /\ Len(f) = Cardinality(S) /\ Len(f) \in Nat /\ DOMAIN f = 1..Len(f)
    /\ ToSet(f) = S
    /\ \A i, j \in 1..Len(f) : i < j => <<f[i], f[j]>> \in R
    /\ \A i, j \in 1..Len(f) : f[i] = f[j] => i = j

\* The elements of a finite set, each at the place that the number of those
\* before it gives, are a list of it.
LEMMA RankedLists ==
    ASSUME NEW S, IsFiniteSet(S), NEW R, Orders(S, R)
    PROVE  Lists(Ranked(S, R), S, R)
<1> DEFINE B(x) == {y \in S : <<y, x>> \in R}
           n == Cardinality(S)
           rk == [x \in S |-> Cardinality(B(x))]
<1>1. n \in Nat
  BY FS_CardinalityType
<1>2. ASSUME NEW x \in S PROVE IsFiniteSet(B(x)) /\ rk[x] \in 0..(n - 1)
  <2>1. B(x) \in SUBSET S /\ B(x) # S
    BY DEF Orders
  <2>2. IsFiniteSet(B(x)) /\ Cardinality(B(x)) <= n /\ Cardinality(B(x)) # n
    BY <2>1, FS_Subset
  <2>3. Cardinality(B(x)) \in Nat
    BY <2>2, FS_CardinalityType
  <2> QED BY <1>1, <2>2, <2>3
<1>20. \A x \in S : rk[x] \in Int
  <2> HIDE DEF n, rk, B
  <2> QED BY <1>1, <1>2
<1>3. ASSUME NEW x \in S, NEW y \in S, <<x, y>> \in R PROVE rk[x] < rk[y]
  <2>1. B(x) \in SUBSET B(y) /\ x \in B(y) /\ x \notin B(x)
    BY <1>3 DEF Orders
  <2>2. /\ Cardinality(B(x)) <= Cardinality(B(y))
        /\ Cardinality(B(x)) # Cardinality(B(y))
    BY <1>2, <2>1, FS_Subset
  <2>3. rk[x] \in Int /\ rk[y] \in Int
    BY <1>20
  <2> QED BY <2>2, <2>3
<1>4. ASSUME NEW x \in S, NEW y \in S, rk[x] = rk[y] PROVE x = y
  <2>1. rk[x] \in Int
    BY <1>20
  <2>2. ~(rk[x] < rk[y]) /\ ~(rk[y] < rk[x])
    <3> HIDE DEF rk
    <3> QED BY <1>4, <2>1
  <2> HIDE DEF rk
  <2> QED BY <1>3, <2>2 DEF Orders
<1> HIDE DEF rk
<1>5. \A i \in 0..(n - 1) : \E x \in S : rk[x] = i
  <2>1. DOMAIN rk = S
    BY DEF rk
  <2>2. rk \in Injection(S, 0..(n - 1))
    <3>1. rk \in [S -> 0..(n - 1)]
      <4>1. rk = [x \in S |-> rk[x]]
        BY DEF rk
      <4> QED BY <1>2, <4>1
    <3> QED BY <1>4, <3>1 DEF Injection, IsInjective
  <2>3. IsFiniteSet(0..(n - 1)) /\ Cardinality(0..(n - 1)) = n
    <3>1. n - 1 \in Int /\ (0 > n - 1 => n = 0) /\ (n - 1) - 0 + 1 = n
      BY <1>1
    <3> QED BY <3>1, FS_Interval
  <2>4. rk \in Surjection(S, 0..(n - 1))
    BY <2>2, <2>3, FS_Injection
  <2> QED BY <2>4 DEF Surjection
<1> DEFINE f == Ranked(S, R)
<1>6. ASSUME NEW i \in 1..n PROVE f[i] \in S /\ rk[f[i]] = i - 1
  <2>1. f[i] = CHOOSE x \in S : Cardinality(B(x)) = i - 1
    BY DEF Ranked
  <2>2. i - 1 \in 0..(n - 1)
    BY <1>1
  <2>3. \E x \in S : Cardinality(B(x)) = i - 1
    BY <1>5, <2>2 DEF rk
  <2>4. f[i] \in S /\ Cardinality(B(f[i])) = i - 1
    <3> HIDE DEF f, B
    <3> QED BY <2>1, <2>3, Zenon
  <2> HIDE DEF f
  <2> QED BY <2>4 DEF rk
<1>7. f = [i \in 1..n |-> f[i]]
  <2> DEFINE C(i) == CHOOSE x \in S : Cardinality({y \in S : <<y, x>> \in R}) = i - 1
  <2>1. f = [i \in 1..n |-> C(i)]
    BY Zenon DEF Ranked
  <2> HIDE DEF C, f
  <2> QED BY <2>1
<1> HIDE DEF f
<1>8. IsSeq(f) /\ Len(f) = n /\ DOMAIN f = 1..n
  BY <1>1, <1>7, FunIsSeq
<1>9. ToSet(f) = S
  <2>1. ASSUME NEW x \in S PROVE \E i \in 1..n : f[i] = x
    <3> DEFINE i == rk[x] + 1
    <3>1. i \in 1..n /\ i - 1 = rk[x]
      <4>1. rk[x] \in 0..(n - 1)
        BY <1>2
      <4> HIDE DEF n
      <4> QED BY <1>1, <4>1
    <3> HIDE DEF i
    <3> QED BY <1>4, <1>6, <3>1
  <2> QED BY <1>6, <1>8, <2>1 DEF ToSet
<1>10. ASSUME NEW i \in 1..n, NEW j \in 1..n, i < j PROVE <<f[i], f[j]>> \in R
  <2>1. f[i] # f[j] /\ ~(rk[f[j]] < rk[f[i]])
    BY <1>6, <1>10
  <2> QED BY <1>3, <1>6, <2>1 DEF Orders
<1>11. \A i, j \in 1..n : f[i] = f[j] => i = j
  BY <1>6
<1> HIDE DEF n
<1>12. Lists(f, S, R)
  BY <1>1, <1>8, <1>9, <1>10, <1>11 DEF Lists, n
<1> QED BY <1>12 DEF f

\* The elements of a sequence are finitely many, and as many as it is long
\* when none is there twice.
LEMMA ToSetFinite ==
    ASSUME NEW s, IsSeq(s)
    PROVE  /\ IsFiniteSet(ToSet(s))
           /\ (\A i, j \in 1..Len(s) : s[i] = s[j] => i = j) => Cardinality(ToSet(s)) = Len(s)
<1> DEFINE n == Len(s)
<1>1. n \in Nat /\ DOMAIN s = 1..n /\ s = [i \in 1..n |-> s[i]]
  BY SeqFacts
<1> HIDE DEF n
<1>2. s \in Surjection(1..n, ToSet(s))
  <2>1. ToSet(s) = {s[i] : i \in 1..n}
    BY <1>1 DEF ToSet
  <2>2. s \in [1..n -> ToSet(s)]
    BY <1>1, <2>1
  <2>3. \A t \in ToSet(s) : \E i \in 1..n : s[i] = t
    BY <2>1
  <2> QED BY <2>2, <2>3 DEF Surjection
<1>3. IsFiniteSet(1..n) /\ Cardinality(1..n) = n
  <2>1. 1 \in Int /\ n \in Int /\ (1 > n => n = 0) /\ n - 1 + 1 = n
    BY <1>1
  <2> QED BY <2>1, FS_Interval
<1>4. IsFiniteSet(ToSet(s)) /\ (Cardinality(ToSet(s)) = n <=> s \in Injection(1..n, ToSet(s)))
  BY <1>2, <1>3, FS_Surjection
<1>5. (\A i, j \in 1..n : s[i] = s[j] => i = j) => s \in Injection(1..n, ToSet(s))
  BY <1>2 DEF Injection, IsInjective, Surjection
<1> QED BY <1>4, <1>5 DEF n

-----------------------------------------------------------------------------
(* Sorted sets *)

Pairs == Int \X Int

\* A finite set of scored members, none with two scores, is sorted.
LEMMA SortedZSet ==
    ASSUME NEW S, IsFiniteSet(S), S \subseteq Pairs,
           \A p, q \in S : p[1] = q[1] => p = q
    PROVE  IsZSet(Sorted(S)) /\ ToSet(Sorted(S)) = S /\ Len(Sorted(S)) = Cardinality(S)
<1> DEFINE R == {pq \in S \X S : Ahead(pq[1], pq[2])}
           A(x) == {y \in S : Ahead(y, x)}
           B(x) == {y \in S : <<y, x>> \in R}
           f == Sorted(S)
<1>1. \A x \in S : A(x) = B(x)
  OBVIOUS
<1>2. f = Ranked(S, R)
  <2> HIDE DEF A, B
  <2> DEFINE C(i) == CHOOSE x \in S : Cardinality(A(x)) = i - 1
             D(i) == CHOOSE x \in S : Cardinality(B(x)) = i - 1
  <2>1. \A i : C(i) = D(i)
    BY <1>1, Zenon
  <2>2. f = [i \in 1..Cardinality(S) |-> C(i)]
    BY Zenon DEF Sorted, InOrder, A
  <2>3. Ranked(S, R) = [i \in 1..Cardinality(S) |-> D(i)]
    BY Zenon DEF Ranked, B
  <2> HIDE DEF C, D, f
  <2> QED BY <2>1, <2>2, <2>3
<1>3. \A p, q : <<p, q>> \in R <=> p \in S /\ q \in S /\ Ahead(p, q)
  OBVIOUS
<1> HIDE DEF R, f
<1>4. Orders(S, R)
  <2>1. \A p \in S : p = <<p[1], p[2]>> /\ p[1] \in Int /\ p[2] \in Int
    BY DEF Pairs
  <2>2. \A p, q \in S : p = q \/ Ahead(p, q) \/ Ahead(q, p)
    BY <2>1 DEF Ahead
  <2>3. \A p, q, r \in S : ~Ahead(p, p) /\ (Ahead(p, q) /\ Ahead(q, r) => Ahead(p, r))
    BY <2>1 DEF Ahead
  <2> QED BY <1>3, <2>2, <2>3 DEF Orders
<1>5. Lists(f, S, R)
  BY <1>2, <1>4, RankedLists
<1>6. f \in Seq(Pairs)
  BY <1>5, SeqMonotonic DEF Lists, IsSeq
<1>7. \A i \in 1..Len(f) : f[i] \in S
  BY <1>5 DEF Lists, ToSet
<1>8. \A i, j \in 1..Len(f) : f[i][1] = f[j][1] => i = j
  BY <1>5, <1>7 DEF Lists
<1>9. IsZSet(f)
  BY <1>3, <1>5, <1>6, <1>8 DEF IsZSet, Lists, Pairs
<1> QED BY <1>5, <1>9 DEF Lists, f

\* What a sorted set is made of.
LEMMA ZSetFacts ==
    ASSUME NEW z, IsZSet(z)
    PROVE  /\ IsSeq(z) /\ z \in Seq(Pairs) /\ Len(z) \in Nat /\ DOMAIN z = 1..Len(z)
           /\ \A i \in 1..Len(z) : z[i] \in Pairs
           /\ ToSet(z) \subseteq Pairs /\ IsFiniteSet(ToSet(z)) /\ Cardinality(ToSet(z)) = Len(z)
           /\ \A p, q \in ToSet(z) : p[1] = q[1] => p = q
           /\ \A i, j \in 1..Len(z) : i < j => Ahead(z[i], z[j])
           /\ \A i, j \in 1..Len(z) : z[i][1] = z[j][1] => i = j
<1>1. z \in Seq(Pairs)
  BY DEF IsZSet, Pairs
<1>2. IsSeq(z) /\ Len(z) \in Nat /\ DOMAIN z = 1..Len(z) /\ ToSet(z) \subseteq Pairs
  BY <1>1, SeqIsSeq, SeqFacts
<1>3. \A i \in 1..Len(z) : z[i] \in Pairs
  BY <1>1
<1>4. /\ \A i, j \in 1..Len(z) : i < j => Ahead(z[i], z[j])
      /\ \A i, j \in 1..Len(z) : z[i][1] = z[j][1] => i = j
  BY <1>2 DEF IsZSet
<1>5. IsFiniteSet(ToSet(z)) /\ Cardinality(ToSet(z)) = Len(z)
  BY <1>2, <1>4, ToSetFinite
<1>6. \A p, q \in ToSet(z) : p[1] = q[1] => p = q
  BY <1>2, <1>4 DEF ToSet
<1> QED BY <1>1, <1>2, <1>3, <1>4, <1>5, <1>6

\* One member with its score, in place of the one it had.
LEMMA PutZSet ==
    ASSUME NEW z, IsZSet(z), NEW m \in Int, NEW s \in Int
    PROVE  /\ IsZSet(Put(z, m, s)) /\ Put(z, m, s) # <<>>
           /\ ToSet(Put(z, m, s)) = {p \in ToSet(z) : p[1] # m} \cup {<<m, s>>}
<1> DEFINE K == {p \in ToSet(z) : p[1] # m}
           S == K \cup {<<m, s>>}
<1>1. K \subseteq ToSet(z) /\ IsFiniteSet(ToSet(z)) /\ ToSet(z) \subseteq Pairs
  BY ZSetFacts
<1>2. IsFiniteSet(S)
  <2>1. IsFiniteSet(K)
    BY <1>1, FS_Subset
  <2> HIDE DEF K
  <2> QED BY <2>1, FS_AddElement
<1>3. S \subseteq Pairs
  BY <1>1 DEF Pairs
<1>4. \A p, q \in S : p[1] = q[1] => p = q
  BY ZSetFacts
<1>5. Put(z, m, s) = Sorted(S)
  BY DEF Put
<1> HIDE DEF S
<1>6. IsZSet(Sorted(S)) /\ ToSet(Sorted(S)) = S
  BY <1>2, <1>3, <1>4, SortedZSet
<1>7. Sorted(S) # <<>>
  <2>1. ToSet(<<>>) = {} /\ <<m, s>> \in S
    BY DEF ToSet, S
  <2> QED BY <1>6, <2>1
<1> QED BY <1>5, <1>6, <1>7 DEF S

\* Elements of a sorted set in their order are one.
LEMMA PlacesZSet ==
    ASSUME NEW z, IsZSet(z), NEW q, IsSeq(q), NEW idx,
           \A j \in 1..Len(q) : idx[j] \in 1..Len(z) /\ q[j] = z[idx[j]],
           \A j, k \in 1..Len(q) : j < k => idx[j] < idx[k]
    PROVE  IsZSet(q)
<1>1. Len(q) \in Nat /\ DOMAIN q = 1..Len(q) /\ q = [i \in 1..Len(q) |-> q[i]]
  BY SeqFacts
<1>2. Len(z) \in Nat
  BY ZSetFacts
<1>3. \A j \in 1..Len(q) : q[j] \in Pairs
  BY ZSetFacts
<1>4. q \in Seq(Pairs)
  BY <1>1, <1>3, SeqDef
<1>5. \A j, k \in 1..Len(q) : j < k => Ahead(q[j], q[k])
  BY ZSetFacts
<1>6. ASSUME NEW j \in 1..Len(q), NEW k \in 1..Len(q), q[j][1] = q[k][1] PROVE j = k
  <2>1. idx[j] = idx[k] /\ idx[j] \in Int
    BY <1>6, ZSetFacts
  <2> QED BY <1>1, <2>1
<1> QED BY <1>1, <1>4, <1>5, <1>6 DEF IsZSet, Pairs

\* What is left of a sorted set.
LEMMA OnlyZSet ==
    ASSUME NEW z, IsZSet(z), NEW S
    PROVE  IsZSet(Only(z, S))
<1> PICK q : q = Only(z, S)
  OBVIOUS
<1>1. IsSeq(z)
  BY ZSetFacts
<1>2. IsSeq(q)
  BY <1>1, OnlyPlaces
<1>3. PICK idx : Kept(q, z, S, idx)
  BY <1>1, OnlyPlaces
<1> QED BY <1>2, <1>3, PlacesZSet DEF Kept

\* The sorted set without elements i + 1 up to j.
LEMMA CutZSet ==
    ASSUME NEW z, IsZSet(z), NEW i \in Nat, NEW j \in Nat, i <= j, j <= Len(z)
    PROVE  IsZSet(Cut(z, i, j)) /\ Len(Cut(z, i, j)) = Len(z) - (j - i)
<1> DEFINE n == Len(z)
           a == SubSeq(z, 1, i)
           b == SubSeq(z, j + 1, n)
           q == a \o b
           idx == [k \in 1..(n - (j - i)) |-> IF k <= i THEN k ELSE k + (j - i)]
<1>1. n \in Nat
  BY ZSetFacts
<1> HIDE DEF n
<1>2. /\ IsSeq(a) /\ Len(a) = i /\ \A k \in 1..i : a[k] = z[k]
  <2>1. (1 <= i => i - 1 + 1 = i) /\ (~(1 <= i) => i = 0) /\ i - 1 + 1 = i /\ \A k \in 1..i : 1 + k - 1 = k
    OBVIOUS
  <2> QED BY <2>1, SubSeqIsSeq
<1>3. /\ IsSeq(b) /\ Len(b) = n - j /\ \A k \in 1..(n - j) : b[k] = z[j + k]
  <2>1. /\ (j + 1 <= n => n - (j + 1) + 1 = n - j) /\ (~(j + 1 <= n) => n - j = 0)
        /\ n - (j + 1) + 1 = n - j /\ \A k \in 1..(n - j) : j + 1 + k - 1 = j + k
        /\ j + 1 \in Int /\ n \in Int
    BY <1>1 DEF n
  <2> QED BY <2>1, SubSeqIsSeq
<1> HIDE DEF a, b
<1>4. /\ IsSeq(q) /\ Len(q) = i + (n - j)
      /\ \A k \in 1..(i + (n - j)) : q[k] = IF k <= i THEN a[k] ELSE b[k - i]
  <2>1. /\ IsSeq(q) /\ Len(q) = Len(a) + Len(b)
        /\ \A k \in 1..(Len(a) + Len(b)) : q[k] = IF k <= Len(a) THEN a[k] ELSE b[k - Len(a)]
    BY <1>2, <1>3, ConcatIsSeq
  <2> HIDE DEF q
  <2> QED BY <1>2, <1>3, <2>1
<1>5. i + (n - j) = n - (j - i) /\ j <= n
  BY <1>1 DEF n
<1> HIDE DEF q
<1>6. \A k \in 1..Len(q) : idx[k] \in 1..n /\ q[k] = z[idx[k]]
  <2> SUFFICES ASSUME NEW k \in 1..Len(q) PROVE idx[k] \in 1..n /\ q[k] = z[idx[k]]
    OBVIOUS
  <2>1. k \in 1..(n - (j - i)) /\ k \in 1..(i + (n - j))
    BY <1>4, <1>5
  <2>2. idx[k] = IF k <= i THEN k ELSE k + (j - i)
    BY <2>1
  <2> HIDE DEF idx
  <2>3. CASE k <= i
    BY <1>1, <1>2, <1>4, <1>5, <2>1, <2>2, <2>3
  <2>4. CASE ~(k <= i)
    <3>1. k - i \in 1..(n - j) /\ j + (k - i) = k + (j - i) /\ k + (j - i) \in 1..n
      BY <1>1, <1>5, <2>1, <2>4
    <3> QED BY <1>3, <1>4, <2>1, <2>2, <2>4, <3>1
  <2> QED BY <2>3, <2>4
<1>7. \A k, l \in 1..Len(q) : k < l => idx[k] < idx[l]
  BY <1>1, <1>4, <1>5
<1> HIDE DEF idx
<1>8. IsZSet(q)
  BY <1>4, <1>6, <1>7, PlacesZSet DEF n
<1> QED BY <1>4, <1>5, <1>8 DEF Cut, q, a, b, n

\* The images of finitely many elements are finitely many.
LEMMA ImageFinite ==
    ASSUME NEW S, IsFiniteSet(S), NEW f, S \subseteq DOMAIN f
    PROVE  IsFiniteSet({f[x] : x \in S})
<1> DEFINE T == {f[x] : x \in S}
           g == [x \in S |-> f[x]]
<1>1. g \in Surjection(S, T)
  BY DEF Surjection
<1> HIDE DEF g, T
<1>2. IsFiniteSet(T)
  BY <1>1, FS_Surjection
<1> QED BY <1>2 DEF T

\* The score of a member is with it.
LEMMA ScoreOf ==
    ASSUME NEW z, IsZSet(z), NEW m \in Members(z)
    PROVE  /\ Score(z, m) \in Int /\ m \in Int /\ <<m, Score(z, m)>> \in ToSet(z)
           /\ \A p \in ToSet(z) : p[1] = m => p[2] = Score(z, m)
<1>1. PICK i \in DOMAIN z : z[i][1] = m
  BY DEF Members
<1>2. z[i] \in ToSet(z)
  BY DEF ToSet
<1>3. PICK p : p = CHOOSE q \in ToSet(z) : q[1] = m
  OBVIOUS
<1>4. p \in ToSet(z) /\ p[1] = m /\ Score(z, m) = p[2]
  BY <1>1, <1>2, <1>3, Zenon DEF Score
<1>5. ToSet(z) \subseteq Pairs /\ \A q, r \in ToSet(z) : q[1] = r[1] => q = r
  BY ZSetFacts
<1>6. p = <<p[1], p[2]>> /\ p[1] \in Int /\ p[2] \in Int
  BY <1>4, <1>5 DEF Pairs
<1> QED BY <1>4, <1>5, <1>6

\* The members are those of the pairs.
LEMMA MembersOf ==
    ASSUME NEW z, IsZSet(z)
    PROVE  \A m : m \in Members(z) <=> \E p \in ToSet(z) : p[1] = m
BY DEF Members, ToSet

\* Scores times a weight.
LEMMA ScaleZSet ==
    ASSUME NEW z, IsZSet(z), NEW w \in Int
    PROVE  /\ IsZSet(Scale(z, w))
           /\ ToSet(Scale(z, w)) = {<<p[1], w * p[2]>> : p \in ToSet(z)}
<1> DEFINE f == [p \in ToSet(z) |-> <<p[1], w * p[2]>>]
           S == {<<p[1], w * p[2]>> : p \in ToSet(z)}
<1>1. /\ ToSet(z) \subseteq Pairs /\ IsFiniteSet(ToSet(z))
      /\ \A p, q \in ToSet(z) : p[1] = q[1] => p = q
  BY ZSetFacts
<1>2. DOMAIN f = ToSet(z) /\ S = {f[p] : p \in ToSet(z)}
  OBVIOUS
<1>3. IsFiniteSet(S)
  <2> HIDE DEF f, S
  <2> QED BY <1>1, <1>2, ImageFinite
<1>4. S \subseteq Pairs
  <2>1. \A x, y \in Int : x * y \in Int
    OBVIOUS
  <2>2. \A p \in ToSet(z) : p[1] \in Int /\ p[2] \in Int
    BY <1>1 DEF Pairs
  <2> QED BY <2>1, <2>2 DEF Pairs
<1>5. \A p, q \in S : p[1] = q[1] => p = q
  BY <1>1
<1>6. Scale(z, w) = Sorted(S)
  BY DEF Scale
<1> HIDE DEF S
<1>7. IsZSet(Sorted(S)) /\ ToSet(Sorted(S)) = S
  BY <1>3, <1>4, <1>5, SortedZSet
<1> QED BY <1>6, <1>7 DEF S

\* An aggregate of scores is a score.
LEMMA AggregateInt ==
    ASSUME NEW a \in Int, NEW b \in Int, NEW agg \in {"sum", "min", "max", "none"}
    PROVE  /\ Aggregate(agg, a, b) \in Int
           /\ Min({a, b}) = IF a <= b THEN a ELSE b
           /\ Max({a, b}) = IF a >= b THEN a ELSE b
<1>1. Min({a, b}) = IF a <= b THEN a ELSE b
  <2> DEFINE m == IF a <= b THEN a ELSE b
  <2>1. m \in {a, b} /\ \A y \in {a, b} : m <= y
    OBVIOUS
  <2>2. \A x \in {a, b} : (\A y \in {a, b} : x <= y) => x = m
    OBVIOUS
  <2> HIDE DEF m
  <2>3. Min({a, b}) \in {a, b} /\ \A y \in {a, b} : Min({a, b}) <= y
    BY <2>1, Zenon DEF Min
  <2> QED BY <2>2, <2>3 DEF m
<1>2. Max({a, b}) = IF a >= b THEN a ELSE b
  <2> DEFINE m == IF a >= b THEN a ELSE b
  <2>1. m \in {a, b} /\ \A y \in {a, b} : m >= y
    OBVIOUS
  <2>2. \A x \in {a, b} : (\A y \in {a, b} : x >= y) => x = m
    OBVIOUS
  <2> HIDE DEF m
  <2>3. Max({a, b}) \in {a, b} /\ \A y \in {a, b} : Max({a, b}) >= y
    BY <2>1, Zenon DEF Max
  <2> QED BY <2>2, <2>3 DEF m
<1> QED BY <1>1, <1>2 DEF Aggregate

\* The union or the intersection of two sorted sets.
LEMMA ZMergeZSet ==
    ASSUME NEW a, IsZSet(a), NEW b, IsZSet(b), NEW op, NEW agg \in {"sum", "min", "max", "none"}
    PROVE  IsZSet(ZMerge(op, agg, a, b))
<1> DEFINE both == Members(a) \cap Members(b)
           one  == IF op = "union" THEN {p \in ToSet(a) \cup ToSet(b) : p[1] \notin both} ELSE {}
           f    == [m \in both |-> <<m, Aggregate(agg, Score(a, m), Score(b, m))>>]
           F    == {<<m, Aggregate(agg, Score(a, m), Score(b, m))>> : m \in both}
           S    == one \cup F
<1>1. /\ ToSet(a) \subseteq Pairs /\ IsFiniteSet(ToSet(a))
      /\ \A p, q \in ToSet(a) : p[1] = q[1] => p = q
  BY ZSetFacts
<1>2. /\ ToSet(b) \subseteq Pairs /\ IsFiniteSet(ToSet(b))
      /\ \A p, q \in ToSet(b) : p[1] = q[1] => p = q
  BY ZSetFacts
<1>3. \A m : m \in both => /\ m \in Int
                           /\ Aggregate(agg, Score(a, m), Score(b, m)) \in Int
  BY ScoreOf, AggregateInt
<1>4. IsFiniteSet(F)
  <2> DEFINE g == [p \in ToSet(a) |-> p[1]]
             K == {g[p] : p \in ToSet(a)}
  <2>1. IsFiniteSet(K)
    <3>1. DOMAIN g = ToSet(a)
      OBVIOUS
    <3> HIDE DEF g
    <3> QED BY <1>1, <3>1, ImageFinite
  <2>2. both \subseteq K
    BY MembersOf
  <2>3. IsFiniteSet(both)
    <3> HIDE DEF K, both
    <3> QED BY <2>1, <2>2, FS_Subset
  <2>4. DOMAIN f = both /\ F = {f[m] : m \in both}
    <3> HIDE DEF both
    <3> QED OBVIOUS
  <2> HIDE DEF f, F, both
  <2> QED BY <2>3, <2>4, ImageFinite
<1>5. IsFiniteSet(one)
  <2>1. IsFiniteSet(ToSet(a) \cup ToSet(b))
    BY <1>1, <1>2, FS_Union
  <2>2. one \in SUBSET (ToSet(a) \cup ToSet(b))
    OBVIOUS
  <2> HIDE DEF one
  <2> QED BY <2>1, <2>2, FS_Subset
<1>6. IsFiniteSet(S)
  <2> HIDE DEF one, F
  <2> QED BY <1>4, <1>5, FS_Union
<1>7. F \subseteq Pairs
  <2> HIDE DEF both
  <2> QED BY <1>3 DEF Pairs
<1>8. S \subseteq Pairs
  <2>1. one \subseteq Pairs
    BY <1>1, <1>2
  <2> HIDE DEF F, one
  <2> QED BY <1>7, <2>1
<1>9. \A p, q \in S : p[1] = q[1] => p = q
  <2>1. \A p \in one, q \in F : p[1] # q[1]
    <3> HIDE DEF both
    <3> QED OBVIOUS
  <2>2. \A p, q \in F : p[1] = q[1] => p = q
    <3> HIDE DEF both
    <3> QED OBVIOUS
  <2>3. \A p, q \in one : p[1] = q[1] => p = q
    <3>1. \A p \in one : (p \in ToSet(a) \/ p \in ToSet(b)) /\ ~(p[1] \in Members(a) /\ p[1] \in Members(b))
      OBVIOUS
    <3>2. /\ \A p \in ToSet(a) : p[1] \in Members(a)
          /\ \A p \in ToSet(b) : p[1] \in Members(b)
      BY MembersOf
    <3> HIDE DEF one
    <3> QED BY <1>1, <1>2, <3>1, <3>2
  <2> HIDE DEF F, one
  <2> QED BY <2>1, <2>2, <2>3
<1>10. ZMerge(op, agg, a, b) = Sorted(S)
  BY DEF ZMerge
<1> HIDE DEF S
<1> QED BY <1>6, <1>8, <1>9, <1>10, SortedZSet

\* the pairs of ZADD, each with its flags
ZAddStep(acc, q) == ZAdd1(acc, q[2], q[1])
ZAddFold == INSTANCE FoldTheorems WITH Op <- ZAddStep

ZAdded(fl, base, pairs) == FoldLeft(LAMBDA acc, p : ZAdd1(acc, p, fl), base, pairs)

\* h is what is there after each pair
ZAddPath(h, fl, base, seq, n) ==
    /\ h[0] = base
    /\ \A i \in 1..n : h[i] = ZAdd1(h[i - 1], seq[i], fl)
    /\ h[n] = ZAdded(fl, base, seq)

\* The pairs of ZADD are added one after the other.
LEMMA ZAddSteps ==
    ASSUME NEW fl, NEW base, NEW seq, NEW n \in Nat, DOMAIN seq = 1..n
    PROVE  \E h : ZAddPath(h, fl, base, seq, n)
<1> DEFINE sq == [i \in 1..n |-> <<fl, seq[i]>>]
           A(g, s) == ZAdd1(g[s \ {Max(s)}], seq[Max(s)], fl)
           B(g, s) == ZAddStep(g[s \ {Max(s)}], sq[Max(s)])
<1>1. \A s \in SUBSET (1..n) : s # {} => \A a : ZAdd1(a, seq[Max(s)], fl) = ZAddStep(a, sq[Max(s)])
  BY TopOf DEF ZAddStep
<1>2. DOMAIN sq = 1..n /\ \A i \in 1..n : \A a : ZAddStep(a, sq[i]) = ZAdd1(a, seq[i], fl)
  BY DEF ZAddStep
<1> HIDE DEF sq
<1>3. \A g : [s \in SUBSET (1..n) |-> IF s = {} THEN base ELSE A(g, s)]
             = [s \in SUBSET (1..n) |-> IF s = {} THEN base ELSE B(g, s)]
  BY <1>1
<1>4. (CHOOSE g : g = [s \in SUBSET (1..n) |-> IF s = {} THEN base ELSE A(g, s)])
      = CHOOSE g : g = [s \in SUBSET (1..n) |-> IF s = {} THEN base ELSE B(g, s)]
  BY <1>3, Zenon
<1>5. ZAddFold!Fold(base, sq)
      = (CHOOSE g : g = [s \in SUBSET (1..n) |-> IF s = {} THEN base ELSE B(g, s)])[1..n]
  BY <1>2, Zenon DEF ZAddFold!Fold, ZAddFold!Iter, ZAddFold!IsIter, ZAddFold!Top, Max
<1>6. ZAdded(fl, base, seq)
      = (CHOOSE g : g = [s \in SUBSET (1..n) |-> IF s = {} THEN base ELSE A(g, s)])[1..n]
  BY Zenon DEF ZAdded, FoldLeft, MapThenFoldSet, Max
<1>7. PICK h : /\ h[0] = base
               /\ \A i \in 1..n : h[i] = ZAddStep(h[i - 1], sq[i])
               /\ h[n] = ZAddFold!Fold(base, sq)
  BY <1>2, ZAddFold!FoldSteps
<1>8. ZAddFold!Fold(base, sq) = ZAdded(fl, base, seq)
  BY <1>4, <1>5, <1>6, Zenon
<1>9. ZAddPath(h, fl, base, seq, n)
  BY <1>2, <1>7, <1>8 DEF ZAddPath
<1> QED BY <1>9

\* What ZADD has when it added some of its pairs: a set that was empty and
\* is not has a new member.
AddedSoFar(z, a) ==
    /\ IsZSet(a.z) /\ a.s \in Int /\ a.n \in Nat
    /\ z = <<>> /\ a.z # <<>> => a.n > 0

\* One pair more.
LEMMA ZAdd1Good ==
    ASSUME NEW z, NEW a, AddedSoFar(z, a), NEW p \in Pairs, NEW fl
    PROVE  AddedSoFar(z, ZAdd1(a, p, fl))
<1> DEFINE m   == p[1]
           old == m \in Members(a.z)
           s   == IF old /\ "incr" \in fl THEN Score(a.z, m) + p[2] ELSE p[2]
           n   == IF ~old \/ ("ch" \in fl /\ s # Score(a.z, m)) THEN a.n + 1 ELSE a.n
           b   == [z |-> Put(a.z, m, s), s |-> s, n |-> n]
<1>1. m \in Int /\ p[2] \in Int /\ IsZSet(a.z) /\ a.n \in Nat
  BY DEF AddedSoFar, Pairs
<1>2. s \in Int
  <2>1. old => Score(a.z, m) \in Int
    BY <1>1, ScoreOf
  <2> HIDE DEF old, m
  <2> QED BY <1>1, <2>1 DEF m
<1>3. IsZSet(Put(a.z, m, s))
  BY <1>1, <1>2, PutZSet
<1>4. n \in Nat
  BY <1>1
<1>5. z = <<>> => n > 0
  <2>1. ASSUME z = <<>>, old PROVE a.n > 0
    <3>1. a.z # <<>>
      BY <2>1 DEF Members
    <3> QED BY <2>1, <3>1 DEF AddedSoFar
  <2> HIDE DEF old, s
  <2> QED BY <1>1, <2>1
<1>6. ZAdd1(a, p, fl) = a \/ ZAdd1(a, p, fl) = b
  BY Zenon DEF ZAdd1
<1>7. b.z = Put(a.z, m, s) /\ b.s = s /\ b.n = n
  OBVIOUS
<1> HIDE DEF b, n, s
<1> QED BY <1>2, <1>3, <1>4, <1>5, <1>6, <1>7 DEF AddedSoFar

\* All of them.
LEMMA ZAddedGood ==
    ASSUME NEW z, IsZSet(z), NEW pairs \in Seq(Pairs), pairs # <<>>, NEW fl
    PROVE  AddedSoFar(z, ZAdded(fl, [z |-> z, s |-> pairs[1][2], n |-> 0], pairs))
<1> DEFINE n == Len(pairs)
           base == [z |-> z, s |-> pairs[1][2], n |-> 0]
<1>1. n \in Nat /\ DOMAIN pairs = 1..n /\ \A i \in 1..n : pairs[i] \in Pairs
  OBVIOUS
<1>2. AddedSoFar(z, base)
  <2>1. base.z = z /\ base.s = pairs[1][2] /\ base.n = 0 /\ pairs[1] \in Pairs
    OBVIOUS
  <2> HIDE DEF base
  <2> QED BY <2>1 DEF AddedSoFar, Pairs
<1> HIDE DEF n, base
<1>3. PICK h : ZAddPath(h, fl, base, pairs, n)
  BY <1>1, ZAddSteps
<1> DEFINE P == {i \in 0..n : AddedSoFar(z, h[i])}
<1>4. 0 \in P
  BY <1>1, <1>2, <1>3 DEF ZAddPath
<1>5. ASSUME NEW i \in 1..n, i - 1 \in P PROVE i \in P
  BY <1>1, <1>3, <1>5, ZAdd1Good DEF ZAddPath
<1> HIDE DEF P
<1>6. n \in P
  BY <1>1, <1>4, <1>5, PlusFold!SetInduction
<1> QED BY <1>3, <1>6 DEF P, base, ZAddPath

\* a handler whose value is well formed and whose stamp is a time
Sound(r) == WellFormed(r.v) /\ r.exp \in Nat \cup {Keep}

\* The data of a sorted set, or of none.
LEMMA RankedData ==
    ASSUME NEW v, WellFormed(v), NEW T \in {"zset", "geo"}
    PROVE  IsZSet(IF v.type = T THEN v.data ELSE <<>>)
<1>1. IsZSet(<<>>)
  <2>1. <<>> \in Seq(Int \X Int) /\ DOMAIN <<>> = {}
    OBVIOUS
  <2> QED BY <2>1 DEF IsZSet
<1> QED BY <1>1, Forms

\* ZADD, which tells of the first member unless it increments.
LEMMA ZAddToGood ==
    ASSUME NEW v, WellFormed(v), ~Misread(v), NEW fl, NEW pairs \in Seq(Pairs), pairs # <<>>
    PROVE  /\ Sound(ZAddTo(v, fl, pairs))
           /\ "incr" \notin fl => Outcome(v, ZAddTo(v, fl, pairs))
<1> DEFINE z == IF v.type = "zset" THEN v.data ELSE <<>>
           base == [z |-> z, s |-> pairs[1][2], n |-> 0]
<1>1. PICK r : r = ZAdded(fl, base, pairs)
  OBVIOUS
<1>2. AddedSoFar(z, r)
  BY <1>1, RankedData, ZAddedGood
<1> DEFINE w == Val("zset", r.z)
           f == IF r.n > 0 THEN ZFlags("zset") \cup {"zsetblkd"} ELSE {}
<1>3. ZAddTo(v, fl, pairs) = IF v.type = "geo" THEN Status(v, "bad_type")
                             ELSE IF "incr" \in fl THEN Done(w, "ok", <<r.s>>, {})
                             ELSE SendInt(w, r.n, f)
  BY <1>1, Zenon DEF ZAddTo, ZAdded
<1>4. WellFormed(w)
  BY <1>2, Builds DEF AddedSoFar
<1>5. v.type \in {"none", "nodata", "zset"} /\ Has(w) => Has(v) \/ Told(f)
  <2>1. w.data = r.z
    BY DEF Val
  <2>2. r.n > 0 => Told(f)
    BY DEF Told
  <2>3. v.type = "zset" /\ z # <<>> => Has(v)
    BY DEF Has
  <2> HIDE DEF f, w
  <2> QED BY <1>2, <2>1, <2>2, <2>3 DEF AddedSoFar, Has
<1> HIDE DEF w, f
<1>6. v.type \in {"none", "nodata", "zset"} => Outcome(v, SendInt(w, r.n, f))
  BY <1>4, <1>5, GoodDone
<1>7. Outcome(v, Status(v, "bad_type"))
  BY GoodSame
<1>8. Sound(Done(w, "ok", <<r.s>>, {}))
  BY <1>4 DEF Sound, Done
<1>9. v.type \in {"none", "nodata", "zset", "geo"}
  BY DEF Misread, ZTypes
<1> QED BY <1>3, <1>6, <1>7, <1>8, <1>9 DEF Sound, Outcome

\* ZADD and ZREM on a key of another type, whose value they scramble.
LEMMA MisreadGood ==
    ASSUME NEW v, WellFormed(v), Misread(v), NEW fl, NEW seq, NEW r \in ZAdd(v, fl, seq) \cup ZRem(v, seq)
    PROVE  Outcome(v, r)
<1> PICK w : w = Scrambled(v)
  OBVIOUS
<1>1. WellFormed(w) /\ ~Has(w) /\ WellFormed(Absent) /\ ~Has(Absent)
  BY Builds
<1>2. \/ \E n, f : r = SendInt(v, n, {}) \/ r = SendInt(w, n, f) \/ r = SendInt(Absent, n, f)
      \/ r = Done(v, "ok", Nil, {}) \/ r = Done(w, "ok", Nil, {})
  BY Zenon DEF ZAdd, ZRem
<1>3. \A n, f : Outcome(v, SendInt(v, n, {})) /\ Outcome(v, SendInt(w, n, f)) /\ Outcome(v, SendInt(Absent, n, f))
  BY <1>1, GoodDone
<1>4. Outcome(v, Done(v, "ok", Nil, {})) /\ Outcome(v, Done(w, "ok", Nil, {}))
  BY <1>1, GoodDone
<1> QED BY <1>2, <1>3, <1>4

\* the sources of ZUNIONSTORE and ZINTERSTORE, each with what is asked for
ZMergeStep(acc, q) == ZMerge(q[1], q[2], acc, q[3])
ZMergeFold == INSTANCE FoldTheorems WITH Op <- ZMergeStep

ZMerged(op, agg, base, seq) == FoldLeft(LAMBDA acc, s : ZMerge(op, agg, acc, s), base, seq)

\* h is what is there after each source
ZMergePath(h, op, agg, base, seq, n) ==
    /\ h[0] = base
    /\ \A i \in 1..n : h[i] = ZMerge(op, agg, h[i - 1], seq[i])
    /\ h[n] = ZMerged(op, agg, base, seq)

\* The sources are merged one after the other.
LEMMA ZMergeSteps ==
    ASSUME NEW op, NEW agg, NEW base, NEW seq, NEW n \in Nat, DOMAIN seq = 1..n
    PROVE  \E h : ZMergePath(h, op, agg, base, seq, n)
<1> DEFINE sq == [i \in 1..n |-> <<op, agg, seq[i]>>]
           A(g, s) == ZMerge(op, agg, g[s \ {Max(s)}], seq[Max(s)])
           B(g, s) == ZMergeStep(g[s \ {Max(s)}], sq[Max(s)])
<1>1. \A s \in SUBSET (1..n) :
         s # {} => \A a : ZMerge(op, agg, a, seq[Max(s)]) = ZMergeStep(a, sq[Max(s)])
  BY TopOf DEF ZMergeStep
<1>2. DOMAIN sq = 1..n /\ \A i \in 1..n : \A a : ZMergeStep(a, sq[i]) = ZMerge(op, agg, a, seq[i])
  BY DEF ZMergeStep
<1> HIDE DEF sq
<1>3. \A g : [s \in SUBSET (1..n) |-> IF s = {} THEN base ELSE A(g, s)]
             = [s \in SUBSET (1..n) |-> IF s = {} THEN base ELSE B(g, s)]
  BY <1>1
<1>4. (CHOOSE g : g = [s \in SUBSET (1..n) |-> IF s = {} THEN base ELSE A(g, s)])
      = CHOOSE g : g = [s \in SUBSET (1..n) |-> IF s = {} THEN base ELSE B(g, s)]
  BY <1>3, Zenon
<1>5. ZMergeFold!Fold(base, sq)
      = (CHOOSE g : g = [s \in SUBSET (1..n) |-> IF s = {} THEN base ELSE B(g, s)])[1..n]
  BY <1>2, Zenon DEF ZMergeFold!Fold, ZMergeFold!Iter, ZMergeFold!IsIter, ZMergeFold!Top, Max
<1>6. ZMerged(op, agg, base, seq)
      = (CHOOSE g : g = [s \in SUBSET (1..n) |-> IF s = {} THEN base ELSE A(g, s)])[1..n]
  BY Zenon DEF ZMerged, FoldLeft, MapThenFoldSet, Max
<1>7. PICK h : /\ h[0] = base
               /\ \A i \in 1..n : h[i] = ZMergeStep(h[i - 1], sq[i])
               /\ h[n] = ZMergeFold!Fold(base, sq)
  BY <1>2, ZMergeFold!FoldSteps
<1>8. ZMergeFold!Fold(base, sq) = ZMerged(op, agg, base, seq)
  BY <1>4, <1>5, <1>6, Zenon
<1>9. ZMergePath(h, op, agg, base, seq, n)
  BY <1>2, <1>7, <1>8 DEF ZMergePath
<1> QED BY <1>9

\* The tail of a sequence.
LEMMA TailIsSeq ==
    ASSUME NEW s, IsSeq(s), s # <<>>
    PROVE  /\ IsSeq(Tail(s)) /\ Len(s) \in Nat \ {0} /\ Len(Tail(s)) = Len(s) - 1
           /\ DOMAIN s = 1..Len(s) /\ DOMAIN Tail(s) = 1..(Len(s) - 1)
           /\ \A i \in 1..(Len(s) - 1) : Tail(s)[i] = s[i + 1]
<1>1. s \in Seq(ToSet(s))
  BY DEF IsSeq
<1>2. Len(s) \in Nat /\ DOMAIN s = 1..Len(s) /\ Len(s) # 0
  BY SeqFacts, EmptyIsSeq
<1>3. Tail(s) \in Seq(ToSet(s)) /\ Len(Tail(s)) = Len(s) - 1
      /\ \A i \in 1..(Len(s) - 1) : Tail(s)[i] = s[i + 1]
  BY <1>1
<1> QED BY <1>2, <1>3, SeqIsSeq, SeqFacts

\* All the sources make a sorted set.
LEMMA ZMergedZSet ==
    ASSUME NEW z, IsSeq(z), z # <<>>, \A i \in DOMAIN z : IsZSet(z[i]), NEW op,
           NEW agg \in {"sum", "min", "max", "none"}
    PROVE  IsZSet(ZMerged(op, agg, z[1], Tail(z)))
<1> DEFINE n == Len(z) - 1
<1>1. /\ n \in Nat /\ DOMAIN Tail(z) = 1..n /\ 1 \in DOMAIN z
      /\ \A i \in 1..n : i + 1 \in DOMAIN z /\ Tail(z)[i] = z[i + 1]
  BY TailIsSeq
<1>2. PICK seq : seq = Tail(z)
  OBVIOUS
<1> HIDE DEF n
<1>3. PICK h : ZMergePath(h, op, agg, z[1], seq, n)
  BY <1>1, <1>2, ZMergeSteps
<1> DEFINE P == {i \in 0..n : IsZSet(h[i])}
<1>4. 0 \in P
  BY <1>1, <1>3 DEF ZMergePath
<1>5. ASSUME NEW i \in 1..n, i - 1 \in P PROVE i \in P
  <2>1. IsZSet(seq[i]) /\ IsZSet(h[i - 1]) /\ h[i] = ZMerge(op, agg, h[i - 1], seq[i])
    BY <1>1, <1>2, <1>3, <1>5 DEF ZMergePath
  <2>2. i \in 0..n
    OBVIOUS
  <2> QED BY <2>1, <2>2, ZMergeZSet
<1> HIDE DEF P
<1>6. n \in P
  <2>1. n \in Nat
    BY <1>1
  <2> QED BY ONLY <2>1, <1>4, <1>5, PlusFold!SetInduction
<1> QED BY <1>2, <1>3, <1>6 DEF P, ZMergePath

\* The type of the sources.
LEMMA FirstTypeOf ==
    ASSUME NEW parts, IsSeq(parts), \A i \in DOMAIN parts : IsSaved(parts[i])
    PROVE  FirstType(parts) \in {"zset", "geo"}
<1> DEFINE S == {p \in ToSet(parts) : p.type # "nodata"}
<1>1. PICK t : t = Only(parts, S)
  OBVIOUS
<1>2. FirstType(parts) = IF t = <<>> THEN "zset" ELSE t[1].type
  BY <1>1 DEF FirstType, Select
<1> HIDE DEF S
<1>3. IsSeq(t) /\ Len(t) \in Nat
  BY <1>1, OnlyPlaces
<1>4. PICK idx : Kept(t, parts, S, idx)
  BY <1>1, OnlyPlaces
<1>5. t # <<>> => 1 \in 1..Len(t)
  BY <1>3, EmptyIsSeq
<1>6. t # <<>> => t[1] \in S
  BY <1>4, <1>5 DEF Kept
<1>7. \A p \in S : p.type \in {"zset", "geo"}
  BY DEF S, IsSaved, ToSet
<1> QED BY <1>2, <1>6, <1>7

\* ZUNIONSTORE and ZINTERSTORE.
LEMMA ZStoreGood ==
    ASSUME NEW v, WellFormed(v), NEW op, NEW agg \in {"sum", "min", "max", "none"},
           NEW weights \in Seq(Int), NEW parts, Sources(parts),
           \A i \in DOMAIN parts : IsSaved(parts[i]),
           weights # <<>> => Len(weights) = Len(parts)
    PROVE  Outcome(v, ZStore(v, op, agg, weights, parts))
<1> DEFINE geo == FirstType(parts) = "geo"
           a == IF geo THEN "none" ELSE agg
           z == [i \in DOMAIN parts |->
                   IF geo \/ weights = <<>> \/ (i = 1 /\ weights[1] = 0) THEN parts[i].z
                   ELSE Scale(parts[i].z, weights[i])]
           m == ZMerged(op, a, z[1], Tail(z))
           type == IF Len(parts) = 1 THEN FirstType(parts) ELSE parts[Len(parts)].type
           T  == IF type = "nodata" THEN "zset" ELSE type
           fl == {"event", FirstType(parts), "zsetblkd"}
<1>1. IsSeq(parts) /\ Len(parts) \in Nat \ {0} /\ DOMAIN parts = 1..Len(parts)
  BY SeqFacts, EmptyIsSeq DEF Sources
<1>2. FirstType(parts) \in {"zset", "geo"}
  BY <1>1, FirstTypeOf
<1>3. T \in {"zset", "geo"}
  BY <1>1, <1>2 DEF IsSaved
<1>4. IsZSet(m)
  <2>1. ASSUME NEW i \in DOMAIN parts PROVE IsZSet(z[i])
    <3>1. IsZSet(parts[i].z)
      BY DEF IsSaved
    <3>2. weights # <<>> => weights[i] \in Int
      BY <1>1
    <3>3. weights # <<>> => IsZSet(Scale(parts[i].z, weights[i]))
      BY <3>1, <3>2, ScaleZSet
    <3>4. z[i] = parts[i].z \/ (weights # <<>> /\ z[i] = Scale(parts[i].z, weights[i]))
      OBVIOUS
    <3> HIDE DEF z
    <3> QED BY <3>1, <3>3, <3>4
  <2>2. z = [i \in 1..Len(parts) |-> z[i]]
    BY <1>1
  <2>3. a \in {"sum", "min", "max", "none"}
    OBVIOUS
  <2> HIDE DEF z, a
  <2>4. IsSeq(z) /\ Len(z) = Len(parts) /\ DOMAIN z = DOMAIN parts
    BY <1>1, <2>2, FunIsSeq
  <2>5. z # <<>>
    BY <1>1, <2>4, EmptyIsSeq
  <2> QED BY <2>1, <2>3, <2>4, <2>5, ZMergedZSet
<1>5. ZStore(v, op, agg, weights, parts) =
         IF ZMixed(parts) THEN Status(v, "bad_type") ELSE SendInt(Val(T, m), Len(m), fl)
  BY Zenon DEF ZStore, ZMergeAll, ZMerged
<1>6. Told(fl)
  BY DEF Told
<1> HIDE DEF T, m, fl
<1>7. WellFormed(Val(T, m))
  BY <1>3, <1>4, Builds
<1>8. Outcome(v, SendInt(Val(T, m), Len(m), fl))
  BY <1>6, <1>7, GoodDone
<1> QED BY <1>5, <1>8, GoodSame

\* A sorted set that lost members.
LEMMA ZLeftGood ==
    ASSUME NEW v, WellFormed(v), v.type \in ZTypes, NEW z, IsZSet(z), z # <<>> => v.data # <<>>,
           NEW st, NEW rep, NEW n
    PROVE  Outcome(v, ZLeft(v, z, st, rep, n))
<1> DEFINE r == IF n = 0 THEN Done(v, st, rep, {})
                ELSE IF z = <<>> THEN Done(Absent, st, rep, ZFlags(v.type) \cup {"del"})
                ELSE Done(Val(v.type, z), st, rep, ZFlags(v.type))
<1>1. \A fl : Outcome(v, Done(v, st, rep, fl)) /\ Outcome(v, Done(Absent, st, rep, fl))
  BY GoodSame, GoodQuiet, Builds
<1>2. ASSUME z # <<>> PROVE \A fl : Outcome(v, Done(Val(v.type, z), st, rep, fl))
  <2>1. WellFormed(Val(v.type, z)) /\ Has(v)
    BY <1>2, Builds DEF ZTypes, Has
  <2> QED BY <2>1, GoodDone
<1>3. Outcome(v, r)
  BY <1>1, <1>2
<1>4. {"v", "exp", "fl"} \subseteq DOMAIN r
  BY DEF Done
<1>5. ZLeft(v, z, st, rep, n) = [r EXCEPT !.ival = n]
  BY DEF ZLeft
<1> HIDE DEF r
<1>6. LET q == [r EXCEPT !.ival = n] IN q.v = r.v /\ q.exp = r.exp /\ q.fl = r.fl
  BY <1>4
<1> QED BY <1>3, <1>5, <1>6 DEF Outcome

\* The elements in front of a bound are not more than there are.
LEMMA BelowIn ==
    ASSUME NEW z, IsZSet(z), NEW how, NEW b, b.end \in {"low", "high", "at"}, NEW gt
    PROVE  Below(z, how, b, gt) \in 0..Len(z)
<1> PICK S : S = {i \in DOMAIN z : \/ By(how, z[i]) < b.at
                                   \/ gt /\ By(how, z[i]) = b.at}
  OBVIOUS
<1>1. S \subseteq 1..Len(z) /\ Len(z) \in Nat
  BY ZSetFacts
<1>2. IsFiniteSet(1..Len(z)) /\ Cardinality(1..Len(z)) = Len(z)
  <2> PICK n : n = Len(z)
    OBVIOUS
  <2>1. n \in Int /\ 1 \in Int
    BY <1>1
  <2>2. IsFiniteSet(1..n) /\ Cardinality(1..n) = IF 1 > n THEN 0 ELSE n - 1 + 1
    BY ONLY <2>1, FS_Interval
  <2> QED BY <1>1, <2>2
<1>3. Cardinality(S) \in 0..Len(z)
  BY <1>1, <1>2, FS_Subset, FS_CardinalityType
<1>4. Below(z, how, b, gt) = IF b.end = "low" THEN 0 ELSE IF b.end = "high" THEN Len(z)
                             ELSE Cardinality(S)
  BY DEF Below
<1> QED BY <1>1, <1>3, <1>4

\* A range of a sorted set goes.
LEMMA ZCutGood ==
    ASSUME NEW v, WellFormed(v), v.type \in ZTypes, NEW i \in 0..Len(v.data),
           NEW j \in 0..Len(v.data), i <= j, NEW st, NEW rep, NEW n
    PROVE  Outcome(v, ZLeft(v, Cut(v.data, i, j), st, rep, n))
<1> PICK z : z = Cut(v.data, i, j)
  OBVIOUS
<1>1. IsZSet(v.data) /\ Len(v.data) \in Nat
  BY Forms, ZSetFacts DEF ZTypes
<1>2. IsZSet(z) /\ Len(z) = Len(v.data) - (j - i)
  <2>1. i \in Nat /\ j \in Nat /\ j <= Len(v.data)
    BY <1>1
  <2> QED BY <1>1, <2>1, CutZSet
<1>3. z # <<>> => v.data # <<>>
  <2>1. v.data = <<>> => Len(z) = 0
    BY <1>1, <1>2, EmptyIsSeq
  <2> QED BY <1>2, <2>1, ZSetFacts, EmptyIsSeq
<1> QED BY <1>2, <1>3, ZLeftGood

\* ZPOPMIN and ZPOPMAX.
LEMMA ZPopGood ==
    ASSUME NEW v, WellFormed(v), NEW max, NEW cnt \in Int
    PROVE  Outcome(v, ZPop(v, max, cnt))
<1> DEFINE z   == v.data
           r   == PopSpan(Len(z), max, cnt)
           out == SubSeq(z, r[1] + 1, r[2])
           rep == IF max THEN Reverse(out) ELSE out
           q   == ZLeft(v, Cut(z, r[1], r[2]), "ok", rep, r[2] - r[1])
<1>1. ZPop(v, max, cnt) = IF v.type \in {"none", "nodata"} THEN Status(v, "send_zeroarr")
                          ELSE IF v.type \in ZTypes
                          THEN IF z = <<>> THEN Status(v, "send_zeroarr") ELSE q
                          ELSE Status(v, "bad_type")
  BY Zenon DEF ZPop, ZRead_
<1>2. \A st : Outcome(v, Status(v, st))
  BY GoodSame
<1>3. ASSUME v.type \in ZTypes PROVE Outcome(v, q)
  <2>1. Len(z) \in Nat
    BY <1>3, Forms, ZSetFacts DEF ZTypes
  <2>2. r[1] \in 0..Len(z) /\ r[2] \in 0..Len(z) /\ r[1] <= r[2]
    BY <2>1 DEF PopSpan
  <2> HIDE DEF r, rep
  <2> QED BY <1>3, <2>2, ZCutGood
<1> HIDE DEF q
<1> QED BY <1>1, <1>2, <1>3

\* BZPOPMIN and BZPOPMAX leave what they do.
LEMMA BZPopGood ==
    ASSUME NEW v, WellFormed(v), NEW k, NEW max
    PROVE  Outcome(v, BZPop(v, k, max))
<1> PICK r : r = ZPop(v, max, 1)
  OBVIOUS
<1>1. Outcome(v, r)
  BY ZPopGood
<1>2. BZPop(v, k, max) = IF r.st = "ok" THEN [r EXCEPT !.st = "send_data", !.rep = <<k>> \o @]
                         ELSE IF r.st = "send_zeroarr" THEN [r EXCEPT !.st = "blocked"] ELSE r
  BY DEF BZPop
<1>3. \A st, rep : LET q == [r EXCEPT !.st = st, !.rep = rep]
                       p == [r EXCEPT !.st = st]
                   IN  /\ q.v = r.v /\ q.exp = r.exp /\ q.fl = r.fl
                       /\ p.v = r.v /\ p.exp = r.exp /\ p.fl = r.fl
  <2>1. {"v", "exp", "fl", "st", "rep"} \subseteq DOMAIN r
    BY DEF ZPop, ZRead_, Status, Done, ZLeft
  <2> QED BY <2>1
<1> QED BY <1>1, <1>2, <1>3 DEF Outcome

\* ZREM.
LEMMA ZRemFromGood ==
    ASSUME NEW v, WellFormed(v), NEW ms
    PROVE  Outcome(v, ZRemFrom(v, ms))
<1> DEFINE z == v.data
           w == Without(z, ToSet(ms))
           n == Len(z) - Len(w)
           q == ZLeft(v, w, "send_int", <<>>, n)
<1>1. ZRemFrom(v, ms) = IF v.type \in {"none", "nodata"} THEN Status(v, "send_zero")
                    ELSE IF v.type \in ZTypes THEN q ELSE Status(v, "bad_type")
  BY Zenon DEF ZRemFrom, ZRead_
<1>2. \A st : Outcome(v, Status(v, st))
  BY GoodSame
<1>3. ASSUME v.type \in ZTypes PROVE Outcome(v, q)
  <2> PICK S : w = Only(z, S)
    BY Zenon DEF Without, Select
  <2>1. IsZSet(z) /\ IsZSet(Only(z, S))
    BY <1>3, Forms, OnlyZSet DEF ZTypes
  <2>2. Only(<<>>, S) = <<>>
    <3>1. ToSet(<<>>) = {}
      BY DEF ToSet
    <3> QED BY <3>1, OnlyIsSeq, EmptyIsSeq
  <2> HIDE DEF w, n
  <2> QED BY <1>3, <2>1, <2>2, ZLeftGood
<1> HIDE DEF q
<1> QED BY <1>1, <1>2, <1>3

\* ZREMRANGEBYRANK.
LEMMA ZRemByRankGood ==
    ASSUME NEW v, WellFormed(v), NEW from \in Int, NEW to \in Int
    PROVE  Outcome(v, ZRemByRank(v, from, to))
<1> DEFINE z == v.data
           r == Clip(Len(z), from, to)
           q == ZLeft(v, Cut(z, r[1], r[2]), "send_int", <<>>, r[2] - r[1])
<1>1. ZRemByRank(v, from, to) =
         IF v.type \in {"none", "nodata"} THEN Status(v, "send_zero")
         ELSE IF v.type \in ZTypes
         THEN IF r[1] >= r[2] THEN Status(v, "send_zero") ELSE q
         ELSE Status(v, "bad_type")
  BY Zenon DEF ZRemByRank, ZRead_
<1>2. \A st : Outcome(v, Status(v, st))
  BY GoodSame
<1>3. ASSUME v.type \in ZTypes, ~(r[1] >= r[2]) PROVE Outcome(v, q)
  <2>1. Len(z) \in Nat
    BY <1>3, Forms, ZSetFacts DEF ZTypes
  <2>2. r[1] \in 0..Len(z) /\ r[2] \in 0..Len(z)
    BY <2>1 DEF Clip
  <2>3. r[1] <= r[2]
    BY <1>3, <2>1, <2>2
  <2> HIDE DEF r
  <2> QED BY <1>3, <2>2, <2>3, ZCutGood
<1> HIDE DEF q, r
<1> QED BY <1>1, <1>2, <1>3

\* ZREMRANGEBYSCORE and ZREMRANGEBYLEX.
LEMMA ZRemByGood ==
    ASSUME NEW v, WellFormed(v), NEW how, NEW lo, NEW hi, {lo.end, hi.end} \subseteq {"low", "high", "at"}
    PROVE  Outcome(v, ZRemBy(v, how, lo, hi))
<1> DEFINE z == v.data
           b == Literal(how, lo)
           d == Literal(how, hi)
           r == Span(z, how, b, d)
           q == ZLeft(v, Cut(z, r[1], r[2]), "send_int", <<>>, r[2] - r[1])
<1>1. ZRemBy(v, how, lo, hi) =
         IF v.type \in {"none", "nodata"} THEN Status(v, "send_zero")
         ELSE IF v.type \in ZTypes
         THEN IF v.type = "geo" THEN Status(v, "bad_type")
              ELSE IF z = <<>> THEN Status(v, "send_zero")
              ELSE IF r[1] < r[2] THEN q
              ELSE SendInt(v, r[2] - r[1], {})
         ELSE Status(v, "bad_type")
  BY Zenon DEF ZRemBy, ZRead_
<1>2. \A st, n, fl : Outcome(v, Status(v, st)) /\ Outcome(v, SendInt(v, n, fl))
  BY GoodSame
<1>3. ASSUME v.type \in ZTypes, r[1] < r[2] PROVE Outcome(v, q)
  <2>1. IsZSet(z)
    BY <1>3, Forms DEF ZTypes
  <2>0. {b.end, d.end} \subseteq {"low", "high", "at"}
    BY DEF Literal
  <2>2. r[1] \in 0..Len(z) /\ r[2] \in 0..Len(z)
    <3> HIDE DEF b, d
    <3> QED BY <2>0, <2>1, BelowIn DEF Span
  <2>3. r[1] <= r[2]
    BY <1>3, <2>1, <2>2, ZSetFacts
  <2> HIDE DEF r
  <2> QED BY <1>3, <2>2, <2>3, ZCutGood
<1> HIDE DEF q, r
<1> QED BY <1>1, <1>2, <1>3

\* The sorted set commands but ZADD and ZREM.
LEMMA ZCmdGood ==
    ASSUME NEW c, c.catg = "zset", IsCall(c), NEW i \in DOMAIN c.keys, NEW x, WellFormed(x.v),
           Gathered(c, i, x), c.cmd \notin {"zadd", "zrem"}
    PROVE  Outcome(x.v, ZCmd(c, i, x))
<1> PICK v : v = x.v
  OBVIOUS
<1> PICK r : r = ZCmd(c, i, x)
  OBVIOUS
<1>1. c.cmd \in {"zcard", "zscore", "zrank", "zrevrank", "zcount", "zrange",
                 "zrangeby", "zscan", "zpop", "bzpop", "zrembyrank", "zremby", "zstore"}
  BY DEF IsCall, Commands
<1>2. IsArgs(c) /\ i \in Nat \ {0}
  <2>1. IsArgs(c) /\ c.keys \in Seq(Keys)
    BY DEF IsCall, IsArity
  <2> QED BY <2>1
<1>3. \A st, rep, n, fl : /\ Outcome(v, Status(v, st)) /\ Outcome(v, Data(v, rep))
                          /\ Outcome(v, SendInt(v, n, fl))
  BY GoodSame
<1>6. CASE c.cmd \in {"zcard", "zcount"}
  <2>1. r = ZCard(v) \/ r = ZCount(v, c.how, c.lo, c.hi)
    BY <1>6 DEF ZCmd
  <2>2. (\E st : r = Status(v, st)) \/ \E n : r = SendInt(v, n, {})
    BY <2>1 DEF ZCard, ZCount, ZRead_
  <2> QED BY <1>3, <2>2
<1>7. CASE c.cmd \in {"zscore", "zrank", "zrevrank"}
  <2>1. r = ZMember(v, c.cmd, c.m)
    BY <1>7 DEF ZCmd
  <2>2. (\E st : r = Status(v, st)) \/ (\E y : r = Data(v, y)) \/ \E n : r = SendInt(v, n, {})
    BY <1>7, <2>1 DEF ZMember, ZRead_
  <2> QED BY <1>3, <2>2
<1>8. CASE c.cmd \in {"zrange", "zrangeby", "zscan"}
  <2>1. r \in {ZRange(v, c.rev, c.from, c.to),
               ZRangeBy(v, c.how, c.rev, c.first, c.last, c.off, c.cnt),
               ZScan(v, c.pos, c.max, c.pat)}
    BY <1>8 DEF ZCmd
  <2>2. (\E st : r = Status(v, st)) \/ \E y : r = Data(v, y)
    BY <2>1 DEF ZRange, ZRangeBy, ZScan, ZRead_
  <2> QED BY <1>3, <2>2
<1>10. CASE c.cmd = "zpop"
  BY <1>2, <1>10, ZPopGood DEF ZCmd, IsArgs
<1>11. CASE c.cmd = "bzpop"
  BY <1>11, BZPopGood DEF ZCmd
<1>12. CASE c.cmd = "zrembyrank"
  BY <1>2, <1>12, ZRemByRankGood DEF ZCmd, IsArgs
<1>13. CASE c.cmd = "zremby"
  BY <1>2, <1>13, ZRemByGood DEF ZCmd, IsArgs
<1>14. CASE c.cmd = "zstore" /\ i > 1
  <2>1. r = SaveZSet(v)
    BY <1>14 DEF ZCmd
  <2>2. (\E st : r = Status(v, st)) \/ \E y : r = Data(v, y)
    BY <2>1 DEF SaveZSet
  <2> QED BY <1>3, <2>2
<1>15. CASE c.cmd = "zstore" /\ i = 1
  <2> DEFINE part == Tail(x.part)
  <2>1. r = IF LastKey(c, x) THEN ZStore(v, c.op, c.agg, c.weights, part) ELSE Status(v, "depends")
    BY <1>15 DEF ZCmd, Wait
  <2>2. ASSUME LastKey(c, x) PROVE Outcome(v, ZStore(v, c.op, c.agg, c.weights, part))
    <3>1. /\ Sources(part) /\ \A j \in DOMAIN part : IsSaved(part[j])
          /\ c.weights # <<>> => Len(c.weights) = Len(part)
      BY <1>15, <2>2 DEF Gathered
    <3>2. c.agg \in {"sum", "min", "max", "none"} /\ c.weights \in Seq(Int)
      BY <1>2, <1>15 DEF IsArgs
    <3> HIDE DEF part
    <3> QED BY <3>1, <3>2, ZStoreGood
  <2> QED BY <1>3, <2>1, <2>2
<1> QED BY <1>1, <1>2, <1>6, <1>7, <1>8, <1>10, <1>11, <1>12, <1>13, <1>14, <1>15

\* Every sorted set command; ZADD with INCR tells no one.
LEMMA ZSetCmdGood ==
    ASSUME NEW c, c.catg = "zset", IsCall(c), NEW i \in DOMAIN c.keys, NEW x, WellFormed(x.v),
           Gathered(c, i, x), NEW r \in ZSetCmd(c, i, x)
    PROVE  /\ Sound(r)
           /\ ~Quiet(c) => Outcome(x.v, r)
<1>1. Outcome(x.v, r) => Sound(r)
  BY DEF Outcome, Sound
<1>2. CASE c.cmd = "zadd"
  <2>1. r \in ZAdd(x.v, c.flags, c.pairs)
    BY <1>2 DEF ZSetCmd
  <2>2. c.pairs \in Seq(Pairs) /\ c.pairs # <<>>
    <3>1. IsArgs(c)
      BY DEF IsCall
    <3> QED BY <1>2, <3>1 DEF IsArgs, Pairs
  <2>3. CASE Misread(x.v)
    BY <1>1, <2>1, <2>3, MisreadGood
  <2>4. CASE ~Misread(x.v)
    <3>1. r = ZAddTo(x.v, c.flags, c.pairs)
      BY <2>1, <2>4 DEF ZAdd
    <3> QED BY <1>2, <2>2, <2>4, <3>1, ZAddToGood DEF Quiet
  <2> QED BY <2>3, <2>4
<1>3. CASE c.cmd = "zrem"
  <2>1. r \in ZRem(x.v, c.ms)
    BY <1>3 DEF ZSetCmd
  <2>2. CASE Misread(x.v)
    BY <1>1, <2>1, <2>2, MisreadGood
  <2>3. CASE ~Misread(x.v)
    <3>1. r = ZRemFrom(x.v, c.ms)
      BY <2>1, <2>3 DEF ZRem
    <3> QED BY <1>1, <3>1, ZRemFromGood
  <2> QED BY <2>2, <2>3
<1>4. CASE c.cmd \notin {"zadd", "zrem"}
  <2>1. r = ZCmd(c, i, x)
    BY <1>4 DEF ZSetCmd
  <2> QED BY <1>1, <1>4, <2>1, ZCmdGood
<1> QED BY <1>2, <1>3, <1>4

-----------------------------------------------------------------------------
(* HyperLogLogs *)

\* The elements of finitely many sequences.
LEMMA MergedFinite ==
    ASSUME NEW parts, IsSeq(parts), \A i \in DOMAIN parts : IsSeq(parts[i])
    PROVE  IsFiniteSet(Merged(parts))
<1> DEFINE f == [i \in DOMAIN parts |-> ToSet(parts[i])]
           F == {f[i] : i \in DOMAIN parts}
<1>1. IsFiniteSet(DOMAIN parts)
  <2>1. Len(parts) \in Int /\ 1 \in Int /\ DOMAIN parts = 1..Len(parts)
    BY SeqFacts
  <2>2. IsFiniteSet(1..Len(parts))
    BY ONLY <2>1, FS_Interval
  <2> QED BY <2>1, <2>2
<1>2. IsFiniteSet(F)
  <2>1. DOMAIN parts \subseteq DOMAIN f
    OBVIOUS
  <2> HIDE DEF f
  <2> QED BY <1>1, <2>1, ImageFinite
<1>3. \A T \in F : IsFiniteSet(T)
  BY ToSetFinite
<1>4. Merged(parts) = UNION F
  BY DEF Merged
<1> HIDE DEF F
<1> QED BY <1>2, <1>3, <1>4, FS_UNION

\* What counts a finite set.
LEMMA HllGood ==
    ASSUME NEW S, IsFiniteSet(S)
    PROVE  WellFormed(Hll(S)) /\ ~Has(Hll(S))
<1> PICK d : d = InOrder(S, <)
  OBVIOUS
<1>1. Cardinality(S) \in Nat
  BY FS_CardinalityType
<1> DEFINE C(i) == CHOOSE x \in S : Cardinality({y \in S : y < x}) = i - 1
<1>2. d = [i \in 1..Cardinality(S) |-> d[i]]
  <2>1. d = [i \in 1..Cardinality(S) |-> C(i)]
    BY Zenon DEF InOrder
  <2> HIDE DEF C
  <2> QED BY <2>1
<1>3. IsSeq(d)
  BY <1>1, <1>2, FunIsSeq
<1>4. Hll(S) = Val("hyperloglog", d)
  BY Zenon DEF Hll
<1> QED BY <1>3, <1>4, Builds

\* Every HyperLogLog command.
LEMMA HllCmdGood ==
    ASSUME NEW c, c.catg = "hyperloglog", IsCall(c), NEW i \in DOMAIN c.keys, NEW x,
           WellFormed(x.v), Gathered(c, i, x)
    PROVE  Outcome(x.v, HllCmd(c, i, x))
<1> PICK v : v = x.v
  OBVIOUS
<1> PICK r : r = HllCmd(c, i, x)
  OBVIOUS
<1>1. c.cmd \in {"pfadd", "pfcount", "pfmerge"}
  BY DEF IsCall, Commands
<1>2. IsArgs(c) /\ i \in Nat \ {0}
  <2>1. IsArgs(c) /\ c.keys \in Seq(Keys)
    BY DEF IsCall, IsArity
  <2> QED BY <2>1
<1>3. \A st, rep, n, fl : /\ Outcome(v, Status(v, st)) /\ Outcome(v, Data(v, rep))
                          /\ Outcome(v, SendInt(v, n, fl))
  BY GoodSame
<1>4. \A S, st : IsFiniteSet(S) => Outcome(v, Status(Hll(S), st))
  BY HllGood, GoodQuiet
<1>5. CASE c.cmd = "pfadd"
  <2> DEFINE Added(S) == IF ToSet(c.ms) \subseteq S THEN Status(Hll(S), "send_zero")
                         ELSE Status(Hll(S \cup ToSet(c.ms)), "send_one")
  <2>1. r = IF v.type \in {"none", "nodata"} THEN Added({})
            ELSE IF v.type = "hyperloglog" THEN Added(ToSet(v.data)) ELSE Status(v, "bad_type")
    BY <1>5 DEF HllCmd, PfAdd, OfType
  <2>2. IsFiniteSet(ToSet(c.ms))
    BY <1>2, <1>5, ToSetFinite DEF IsArgs
  <2>3. ASSUME NEW S, IsFiniteSet(S) PROVE Outcome(v, Added(S))
    <3>1. IsFiniteSet(S \cup ToSet(c.ms))
      BY <2>2, <2>3, FS_Union
    <3> QED BY <1>4, <2>3, <3>1
  <2>4. v.type = "hyperloglog" => IsFiniteSet(ToSet(v.data))
    BY Forms, ToSetFinite
  <2>5. IsFiniteSet({})
    BY FS_EmptySet
  <2> HIDE DEF Added
  <2> QED BY <1>3, <2>1, <2>3, <2>4, <2>5
<1>6. CASE c.cmd = "pfcount"
  <2>1. r = PfCount(v, LastKey(c, x), x.part)
    BY <1>6 DEF HllCmd
  <2>2. (\E st : r = Status(v, st)) \/ (\E y : r = Data(v, y)) \/ \E n : r = SendInt(v, n, {})
    BY <2>1 DEF PfCount, OfType
  <2> QED BY <1>3, <2>2
<1>7. CASE c.cmd = "pfmerge" /\ i > 1
  <2>1. r = PfSource(v)
    BY <1>7 DEF HllCmd
  <2>2. (\E st : r = Status(v, st)) \/ \E y : r = Data(v, y)
    BY <2>1 DEF PfSource, OfType
  <2> QED BY <1>3, <2>2
<1>8. CASE c.cmd = "pfmerge" /\ i = 1
  <2> DEFINE part == Tail(x.part)
  <2>1. r = IF LastKey(c, x) THEN PfDest(v, part) ELSE Status(v, "depends")
    BY <1>8 DEF HllCmd, Wait
  <2>2. IsFiniteSet(Merged(part))
    BY <1>8, MergedFinite DEF Gathered
  <2> HIDE DEF part
  <2>3. r \in {Status(Hll(Merged(part)), "send_ok"), Status(v, "bad_type"), Status(v, "depends")}
    BY <2>1 DEF PfDest, OfType
  <2> QED BY <1>3, <1>4, <2>2, <2>3
<1> QED BY <1>1, <1>2, <1>5, <1>6, <1>7, <1>8

-----------------------------------------------------------------------------
(* Keys *)

\* A stamp changes nothing else of a value.
LEMMA StampedGood ==
    ASSUME NEW v, WellFormed(v), NEW stamp \in Int
    PROVE  /\ WellFormed(Stamped(v, stamp)) /\ (Has(Stamped(v, stamp)) => Has(v))
           /\ Stamped(v, stamp) = Absent <=> v = Absent
<1>1. CASE v.type = "stream"
  <2>1. IsStream(v)
    BY <1>1, Forms
  <2> PICK w : w = Stamped(v, stamp)
    OBVIOUS
  <2>2. w = Stream(v.data, v.grp, v.pend, stamp)
    BY <1>1, <2>1 DEF Stamped, IsStream, Stream
  <2>3. IsStream(w)
    BY <2>1, <2>2 DEF IsStream, Stream
  <2>4. WellFormed(w) /\ ~Has(w) /\ w.type = "stream"
    BY <2>2, <2>3, Builds DEF Stream
  <2> QED BY <1>1, <2>4, Forms
<1>2. CASE v.type # "stream"
  BY <1>2 DEF Stamped
<1> QED BY <1>1, <1>2

\* Every key command; RENAME tells no one.
LEMMA KeyCmdGood ==
    ASSUME NEW c, c.catg = "key", IsCall(c), NEW i \in DOMAIN c.keys, NEW x, IsEntry(x.e),
           x.v = x.e.v, x.now \in Nat, Gathered(c, i, x), NEW stamp \in Int
    PROVE  /\ Sound(KeyCmd(c, i, x, stamp))
           /\ ~Quiet(c) => Outcome(x.v, KeyCmd(c, i, x, stamp))
<1> PICK v : v = x.v
  OBVIOUS
<1> PICK r : r = KeyCmd(c, i, x, stamp)
  OBVIOUS
<1> DEFINE w == Stamped(v, stamp)
<1>1. c.cmd \in {"del", "exists", "type", "touch", "expire", "expireat", "persist", "ttl", "rename"}
  BY DEF IsCall, Commands
<1>2. IsArgs(c) /\ (c.cmd = "rename" => i \in {1, 2}) /\ WellFormed(v)
  <2>1. IsArgs(c) /\ c.keys \in Seq(Keys) /\ (c.cmd = "rename" => Len(c.keys) = 2)
    BY DEF IsCall, IsArity
  <2> QED BY <2>1 DEF IsEntry
<1>3. \A st, rep, n, fl : /\ Outcome(v, Status(v, st)) /\ Outcome(v, Data(v, rep))
                          /\ Outcome(v, SendInt(v, n, fl)) /\ Outcome(v, SendInt(Absent, n, fl))
                          /\ Outcome(v, Done(Absent, st, rep, fl))
  BY <1>2, GoodSame, GoodQuiet, Builds
<1>4. \A n, fl : Outcome(v, SendInt(w, n, fl))
  BY <1>2, StampedGood, GoodDone
<1>5. \A n, fl, t : t \in Nat \cup {Keep} => Outcome(v, [SendInt(w, n, fl) EXCEPT !.exp = t])
  <2> SUFFICES ASSUME NEW n, NEW fl, NEW t \in Nat \cup {Keep}
               PROVE  Outcome(v, [SendInt(w, n, fl) EXCEPT !.exp = t])
    OBVIOUS
  <2> PICK q : q = SendInt(w, n, fl)
    OBVIOUS
  <2>1. Outcome(v, q)
    BY <1>4
  <2>2. {"v", "exp", "fl"} \subseteq DOMAIN q
    BY DEF SendInt, Done
  <2>3. LET p == [q EXCEPT !.exp = t] IN p.v = q.v /\ p.exp = t /\ p.fl = q.fl
    BY <2>2
  <2> QED BY <2>1, <2>3 DEF Outcome
<1> HIDE DEF w
<1>6. Outcome(v, r) => Sound(r)
  BY DEF Outcome, Sound
<1>7. CASE c.cmd \in {"del", "exists", "type", "ttl"}
  <2>1. r \in {Del(x.e), Exists(x.e), Type(x.e), Ttl(x.e, x.now)}
    BY <1>7 DEF KeyCmd
  <2>2. (\E y : r = Data(v, y)) \/ \E n, fl : r = SendInt(v, n, fl) \/ r = SendInt(Absent, n, fl)
    BY <2>1 DEF Del, Exists, Type, Ttl
  <2> QED BY <1>3, <1>6, <2>2
<1>8. CASE c.cmd = "touch"
  <2>1. \E n : r = SendInt(w, n, {})
    BY <1>8 DEF KeyCmd, Touch, w
  <2> QED BY <1>4, <1>6, <2>1
<1>9. CASE c.cmd \in {"expire", "expireat"}
  <2>1. \E t \in Nat : r = ExpireAt(x.e, t, stamp)
    <3>1. c.n \in Nat
      BY <1>2, <1>9 DEF IsArgs
    <3>2. \A m \in Nat : (IF c.n < x.now THEN c.n + x.now ELSE c.n) \in Nat
      BY <3>1
    <3> QED BY <1>9, <3>1, <3>2 DEF KeyCmd, Expire
  <2>2. \/ r = SendInt(Absent, 0, {})
        \/ \E t \in Nat \cup {Keep} : r = [SendInt(w, 1, {"event"}) EXCEPT !.exp = t]
    BY <2>1 DEF ExpireAt, w
  <2> QED BY <1>3, <1>5, <1>6, <2>2
<1>10. CASE c.cmd = "persist"
  <2>1. r = SendInt(Absent, 0, {}) \/ r = [SendInt(w, 1, {}) EXCEPT !.exp = 0]
    BY <1>10 DEF KeyCmd, Persist, w
  <2> QED BY <1>3, <1>5, <1>6, <2>1
<1>11. CASE c.cmd = "rename" /\ i = 1
  <2> PICK q : q = Status(v, "depends")
    OBVIOUS
  <2>1. r = [q EXCEPT !.rep = v] \/ r = RenameSource(x.e, c.st)
    BY <1>11 DEF KeyCmd, Wait
  <2>2. LET p == [q EXCEPT !.rep = v] IN p.v = q.v /\ p.exp = q.exp /\ p.fl = q.fl
    <3>1. {"v", "exp", "fl"} \subseteq DOMAIN q
      BY DEF Status, Done
    <3> QED BY <3>1
  <2>3. Outcome(v, [q EXCEPT !.rep = v])
    <3>1. Outcome(v, q)
      BY <1>3
    <3> QED BY <2>2, <3>1 DEF Outcome
  <2>4. Outcome(v, RenameSource(x.e, c.st))
    BY <1>3 DEF RenameSource
  <2> QED BY <1>6, <2>1, <2>3, <2>4
<1>12. CASE c.cmd = "rename" /\ i = 2
  <2>1. r = IF c.st = "send_int" /\ ~x.tested
            THEN Status(v, IF v # Absent THEN "abort_zero" ELSE "again")
            ELSE RenameDest(x.e, x.part[1], c.st, stamp)
    BY <1>12 DEF KeyCmd
  <2>2. CASE c.st = "send_int" /\ ~x.tested
    BY <1>3, <1>6, <2>1, <2>2
  <2>3. CASE ~(c.st = "send_int" /\ ~x.tested)
    <3> DEFINE p == Stamped(x.part[1], stamp)
    <3>1. WellFormed(x.part[1])
      BY <1>2, <1>12, <2>3 DEF IsArgs, Gathered
    <3>2. WellFormed(p)
      BY <3>1, StampedGood
    <3>3. r \in {Status(v, "key_doesnt_exist"), Done(p, "send_ok", <<>>, {"event"}),
                 SendInt(p, 0, {"event"})}
      BY <2>1, <2>3 DEF RenameDest
    <3> HIDE DEF p
    <3>4. Sound(Done(p, "send_ok", <<>>, {"event"})) /\ Sound(SendInt(p, 0, {"event"}))
      BY <3>2 DEF Sound, SendInt, Done
    <3>5. Sound(Status(v, "key_doesnt_exist"))
      BY <1>2 DEF Sound, Status, Done
    <3> QED BY <1>12, <3>3, <3>4, <3>5 DEF Quiet
  <2> QED BY <2>2, <2>3
<1> QED BY <1>1, <1>2, <1>7, <1>8, <1>9, <1>10, <1>11, <1>12

-----------------------------------------------------------------------------
(* Places *)

\* GEOADD of one place
GeoPut(acc, p) ==
    [z |-> Put(acc.z, p[1], p[2]),
     n |-> acc.n + (IF p \in ToSet(acc.z) THEN 0 ELSE 1)]

GeoFold == INSTANCE FoldTheorems WITH Op <- GeoPut

GeoAdded(z, places) == FoldLeft(GeoPut, [z |-> z, n |-> 0], places)

\* What GEOADD has when it added some of its places: a key that was empty and
\* is not has a new one.
PlacedSoFar(z, a) ==
    /\ IsZSet(a.z) /\ a.n \in Nat
    /\ z = <<>> /\ a.z # <<>> => a.n > 0

\* All places that are added.
LEMMA GeoAddedGood ==
    ASSUME NEW z, IsZSet(z), NEW places \in Seq(Pairs)
    PROVE  PlacedSoFar(z, GeoAdded(z, places))
<1> DEFINE n == Len(places)
           base == [z |-> z, n |-> 0]
<1>1. n \in Nat /\ DOMAIN places = 1..n /\ \A i \in 1..n : places[i] \in Pairs
  OBVIOUS
<1>2. PlacedSoFar(z, base)
  BY DEF PlacedSoFar
<1> HIDE DEF n
<1>3. GeoAdded(z, places) = GeoFold!Fold(base, places)
  BY Zenon DEF GeoFold!Fold, GeoFold!Iter, GeoFold!IsIter, FoldLeft, MapThenFoldSet, Max,
               GeoFold!Top, GeoAdded, base
<1> HIDE DEF base
<1>4. PICK h : /\ h[0] = base
               /\ \A i \in 1..n : h[i] = GeoPut(h[i - 1], places[i])
               /\ h[n] = GeoFold!Fold(base, places)
  BY <1>1, GeoFold!FoldSteps
<1> DEFINE P == {i \in 0..n : PlacedSoFar(z, h[i])}
<1>5. 0 \in P
  BY <1>1, <1>2, <1>4
<1>6. ASSUME NEW i \in 1..n, i - 1 \in P PROVE i \in P
  <2> PICK a : a = h[i - 1]
    OBVIOUS
  <2> PICK p : p = places[i]
    OBVIOUS
  <2>1. PlacedSoFar(z, a) /\ h[i] = GeoPut(a, p) /\ p \in Pairs
    BY <1>1, <1>4, <1>6
  <2>2. IsZSet(Put(a.z, p[1], p[2]))
    BY <2>1, PutZSet DEF PlacedSoFar, Pairs
  <2> DEFINE m == a.n + (IF p \in ToSet(a.z) THEN 0 ELSE 1)
  <2>3. m \in Nat /\ (z = <<>> => m > 0)
    <3>1. a.z = <<>> => p \notin ToSet(a.z)
      BY DEF ToSet
    <3>2. a.n \in Nat /\ (z = <<>> /\ a.z # <<>> => a.n > 0)
      BY <2>1 DEF PlacedSoFar
    <3> QED BY <3>1, <3>2
  <2>4. GeoPut(a, p).z = Put(a.z, p[1], p[2]) /\ GeoPut(a, p).n = m
    BY DEF GeoPut
  <2> HIDE DEF m
  <2>5. PlacedSoFar(z, h[i])
    BY <2>1, <2>2, <2>3, <2>4 DEF PlacedSoFar
  <2> QED BY <2>5
<1> HIDE DEF P
<1>7. n \in P
  <2>1. n \in Nat
    BY <1>1
  <2>2. \A i \in 1..n : i - 1 \in P => i \in P
    BY <1>6
  <2>3. \A i \in 0..n : i \in P
    BY ONLY <2>1, <2>2, <1>5, PlusFold!SetInduction
  <2> QED BY <2>1, <2>3
<1> QED BY <1>3, <1>4, <1>7 DEF P

\* GEOADD, which tells of the first place.
LEMMA GeoAddGood ==
    ASSUME NEW v, WellFormed(v), NEW places \in Seq(Pairs)
    PROVE  Outcome(v, GeoAdd(v, places))
<1> DEFINE z == IF v.type = "geo" THEN v.data ELSE <<>>
<1> PICK a : a = GeoAdded(z, places)
  OBVIOUS
<1> DEFINE w == Val("geo", a.z)
           f == IF a.n > 0 THEN ZFlags("geo") \cup {"zsetblkd"} ELSE {}
<1>1. PlacedSoFar(z, a)
  BY RankedData, GeoAddedGood
<1>2. GeoAdd(v, places) = IF v.type \notin {"none", "nodata", "geo"} THEN Status(v, "bad_type")
                          ELSE SendInt(w, a.n, f)
  <2>1. \A y : FoldLeft(LAMBDA acc, p : [z |-> Put(acc.z, p[1], p[2]),
                                         n |-> acc.n + (IF p \in ToSet(acc.z) THEN 0 ELSE 1)],
                        [z |-> y, n |-> 0], places) = GeoAdded(y, places)
    BY Zenon DEF GeoAdded, GeoPut, FoldLeft, MapThenFoldSet
  <2>2. CASE v.type \in {"none", "nodata"}
    <3>1. a = GeoAdded(<<>>, places)
      BY <2>2
    <3> QED BY <2>1, <2>2, <3>1 DEF GeoAdd, OfType
  <2>3. CASE v.type = "geo"
    <3>1. a = GeoAdded(v.data, places)
      BY <2>3
    <3> QED BY <2>1, <2>3, <3>1 DEF GeoAdd, OfType
  <2> QED BY <2>2, <2>3 DEF GeoAdd, OfType
<1>3. WellFormed(w)
  BY <1>1, Builds DEF PlacedSoFar
<1>4. v.type \in {"none", "nodata", "geo"} /\ Has(w) => Has(v) \/ Told(f)
  <2>1. w.data = a.z
    BY DEF Val
  <2>2. a.n > 0 => Told(f)
    BY DEF Told
  <2>3. v.type = "geo" /\ z # <<>> => Has(v)
    BY DEF Has
  <2> HIDE DEF f, w
  <2> QED BY <1>1, <2>1, <2>2, <2>3 DEF PlacedSoFar, Has
<1> HIDE DEF w, f
<1>5. v.type \in {"none", "nodata", "geo"} => Outcome(v, SendInt(w, a.n, f))
  BY <1>3, <1>4, GoodDone
<1>6. Outcome(v, Status(v, "bad_type"))
  BY GoodSame
<1> QED BY <1>2, <1>5, <1>6

\* a place that was found, added to a sorted set with the score asked for
PlaceStep(acc, q) == Put(acc, q[1], q[2])
PlaceFold == INSTANCE FoldTheorems WITH Op <- PlaceStep

PlaceScore(store, p) == IF store = "hash" THEN p[2] ELSE p[3]

Placed(store, z, seq) ==
    FoldLeft(LAMBDA acc, p : Put(acc, p[1], IF store = "hash" THEN p[2] ELSE p[3]), z, seq)

\* h is what is there after each place
PlacePath(h, store, base, seq, n) ==
    /\ h[0] = base
    /\ \A i \in 1..n : h[i] = Put(h[i - 1], seq[i][1], PlaceScore(store, seq[i]))
    /\ h[n] = Placed(store, base, seq)

\* The places are added one after the other.
LEMMA PlaceSteps ==
    ASSUME NEW store, NEW base, NEW seq, NEW n \in Nat, DOMAIN seq = 1..n
    PROVE  \E h : PlacePath(h, store, base, seq, n)
<1> DEFINE sq == [i \in 1..n |-> <<seq[i][1], PlaceScore(store, seq[i])>>]
           A(g, s) == Put(g[s \ {Max(s)}], seq[Max(s)][1],
                          IF store = "hash" THEN seq[Max(s)][2] ELSE seq[Max(s)][3])
           B(g, s) == PlaceStep(g[s \ {Max(s)}], sq[Max(s)])
<1>1. \A s \in SUBSET (1..n) :
         s # {} => \A a : Put(a, seq[Max(s)][1], IF store = "hash" THEN seq[Max(s)][2] ELSE seq[Max(s)][3])
                          = PlaceStep(a, sq[Max(s)])
  BY TopOf DEF PlaceStep, PlaceScore
<1>2. DOMAIN sq = 1..n
      /\ \A i \in 1..n : \A a : PlaceStep(a, sq[i]) = Put(a, seq[i][1], PlaceScore(store, seq[i]))
  BY DEF PlaceStep
<1> HIDE DEF sq
<1>3. \A g : [s \in SUBSET (1..n) |-> IF s = {} THEN base ELSE A(g, s)]
             = [s \in SUBSET (1..n) |-> IF s = {} THEN base ELSE B(g, s)]
  BY <1>1
<1>4. (CHOOSE g : g = [s \in SUBSET (1..n) |-> IF s = {} THEN base ELSE A(g, s)])
      = CHOOSE g : g = [s \in SUBSET (1..n) |-> IF s = {} THEN base ELSE B(g, s)]
  BY <1>3, Zenon
<1>5. PlaceFold!Fold(base, sq)
      = (CHOOSE g : g = [s \in SUBSET (1..n) |-> IF s = {} THEN base ELSE B(g, s)])[1..n]
  BY <1>2, Zenon DEF PlaceFold!Fold, PlaceFold!Iter, PlaceFold!IsIter, PlaceFold!Top, Max
<1>6. Placed(store, base, seq)
      = (CHOOSE g : g = [s \in SUBSET (1..n) |-> IF s = {} THEN base ELSE A(g, s)])[1..n]
  BY Zenon DEF Placed, FoldLeft, MapThenFoldSet, Max
<1>7. PICK h : /\ h[0] = base
               /\ \A i \in 1..n : h[i] = PlaceStep(h[i - 1], sq[i])
               /\ h[n] = PlaceFold!Fold(base, sq)
  BY <1>2, PlaceFold!FoldSteps
<1>8. PlaceFold!Fold(base, sq) = Placed(store, base, seq)
  BY <1>4, <1>5, <1>6, Zenon
<1>9. PlacePath(h, store, base, seq, n)
  BY <1>2, <1>7, <1>8 DEF PlacePath
<1> QED BY <1>9

\* All of them.
LEMMA PlacedZSet ==
    ASSUME NEW z, IsZSet(z), NEW store, NEW places \in Seq(Int \X Int \X Int)
    PROVE  IsZSet(Placed(store, z, places))
<1> DEFINE n == Len(places)
<1>1. /\ n \in Nat /\ DOMAIN places = 1..n
      /\ \A i \in 1..n : places[i][1] \in Int /\ PlaceScore(store, places[i]) \in Int
  BY DEF PlaceScore
<1> HIDE DEF n
<1>2. PICK h : PlacePath(h, store, z, places, n)
  BY <1>1, PlaceSteps
<1> DEFINE P == {i \in 0..n : IsZSet(h[i])}
<1>3. 0 \in P
  BY <1>1, <1>2 DEF PlacePath
<1>4. ASSUME NEW i \in 1..n, i - 1 \in P PROVE i \in P
  BY <1>1, <1>2, <1>4, PutZSet DEF PlacePath
<1> HIDE DEF P
<1>5. n \in P
  <2>1. n \in Nat
    BY <1>1
  <2>2. \A i \in 1..n : i - 1 \in P => i \in P
    BY <1>4
  <2>3. \A i \in 0..n : i \in P
    BY ONLY <2>1, <2>2, <1>3, PlusFold!SetInduction
  <2> QED BY <2>1, <2>3
<1> QED BY <1>2, <1>5 DEF P, PlacePath

\* Every geo command.
LEMMA GeoCmdGood ==
    ASSUME NEW c, c.catg = "geo", IsCall(c), NEW i \in DOMAIN c.keys, NEW x,
           WellFormed(x.v), Gathered(c, i, x)
    PROVE  Outcome(x.v, GeoCmd(c, i, x))
<1> PICK v : v = x.v
  OBVIOUS
<1> PICK r : r = GeoCmd(c, i, x)
  OBVIOUS
<1>1. c.cmd \in {"geoadd", "geopos", "geodist", "georadius"}
  BY DEF IsCall, Commands
<1>2. IsArgs(c) /\ (c.cmd = "georadius" => i \in {1, 2})
  <2>1. IsArgs(c) /\ c.keys \in Seq(Keys) /\ (c.cmd = "georadius" => Len(c.keys) <= 2)
    BY DEF IsCall, IsArity
  <2> QED BY <2>1
<1>3. \A st, rep, n, fl : /\ Outcome(v, Status(v, st)) /\ Outcome(v, Data(v, rep))
                          /\ Outcome(v, SendInt(v, n, fl))
  BY GoodSame
<1>4. CASE c.cmd = "geoadd"
  BY <1>2, <1>4, GeoAddGood DEF GeoCmd, IsArgs, Pairs
<1>5. CASE c.cmd \in {"geopos", "geodist"}
  <2>1. r = GeoRead(v, c.ms) \/ r = GeoDist(v, c.a, c.b)
    BY <1>5 DEF GeoCmd
  <2>2. (\E st : r = Status(v, st)) \/ \E y : r = Data(v, y)
    BY <2>1 DEF GeoRead, GeoDist, OfType
  <2> QED BY <1>3, <2>2
<1>6. CASE c.cmd = "georadius" /\ i = 1
  <2>1. r = GRadius(v, c.from, c.at, c.radius, c.order, c.cnt, c.store)
    BY <1>6 DEF GeoCmd
  <2>2. (\E st : r = Status(v, st)) \/ \E y : r = Data(v, y)
    BY <2>1 DEF GRadius, OfType
  <2> QED BY <1>3, <2>2
<1>7. CASE c.cmd = "georadius" /\ i = 2
  <2> DEFINE T == IF c.store = "hash" THEN "geo" ELSE "zset"
             z == IF v.type = T THEN v.data ELSE <<>>
             part == x.part[1]
             fl == ZFlags("geo") \cup {"zsetblkd"}
  <2>1. r = IF LastKey(c, x) THEN GRadiusStore(v, c.store, part) ELSE Status(v, "depends")
    BY <1>7 DEF GeoCmd, Wait
  <2>2. GRadiusStore(v, c.store, part) =
           IF v.type \in {"none", "nodata"}
           THEN SendInt(Val(T, Placed(c.store, <<>>, part)), Len(part), fl)
           ELSE IF v.type = T THEN SendInt(Val(T, Placed(c.store, v.data, part)), Len(part), fl)
           ELSE Status(v, "bad_type")
    BY Zenon DEF GRadiusStore, OfType, Placed
  <2>3. T \in {"geo", "zset"}
    OBVIOUS
  <2>4. LastKey(c, x) => part \in Seq(Int \X Int \X Int)
    BY <1>7 DEF Gathered
  <2>5. IsZSet(z)
    BY <1>2, <2>3, RankedData
  <2>6. Told(fl)
    BY DEF Told
  <2> HIDE DEF T, part, fl
  <2>7. (v.type \in {"none", "nodata"} => z = <<>>) /\ (v.type = T => z = v.data)
    BY <2>3
  <2> HIDE DEF z
  <2>8. LastKey(c, x) => Outcome(v, SendInt(Val(T, Placed(c.store, z, part)), Len(part), fl))
    <3>1. LastKey(c, x) => WellFormed(Val(T, Placed(c.store, z, part)))
      BY <2>3, <2>4, <2>5, PlacedZSet, Builds
    <3> QED BY <2>6, <3>1, GoodDone
  <2> QED BY <1>3, <2>1, <2>2, <2>7, <2>8
<1> QED BY <1>1, <1>2, <1>4, <1>5, <1>6, <1>7

-----------------------------------------------------------------------------
(* Strings *)

\* A finite set of integers has a largest one, and a least one.
LEMMA FiniteTop ==
    ASSUME NEW S, IsFiniteSet(S), S \subseteq Int, S # {}
    PROVE  /\ Max(S) \in S /\ \A y \in S : y <= Max(S)
           /\ Min(S) \in S /\ \A y \in S : Min(S) <= y
<1>1. PICK n \in Nat : ExistsBijection(1..n, S)
  BY FS_NatBijection
<1>2. PICK f : /\ \A y \in S : \E i \in 1..n : f[i] = y
               /\ \A i \in 1..n : f[i] \in S
  BY <1>1, Zenon DEF ExistsBijection, Bijection, Injection, Surjection
<1>3. \A i \in 1..n : f[i] \in Int
  BY <1>2
<1>4. n > 0
  <2> PICK y : y \in S
    OBVIOUS
  <2> PICK i \in 1..n : f[i] = y
    BY <1>2
  <2> QED OBVIOUS
<1> DEFINE Spans(m, l, i) == \A j \in 1..i : f[j] <= m /\ l <= f[j]
           P == {i \in 0..n : i = 0 \/ \E m \in S : \E l \in S : Spans(m, l, i)}
<1>5. 0 \in P
  OBVIOUS
<1>6. \A i \in 1..n : i - 1 \in P => i \in P
  <2> SUFFICES ASSUME NEW i \in 1..n, i - 1 \in P PROVE i \in P
    OBVIOUS
  <2>1. f[i] \in S /\ f[i] \in Int
    BY <1>2, <1>3
  <2>2. CASE i = 1
    <3>1. Spans(f[i], f[i], i)
      BY <2>1, <2>2
    <3> HIDE DEF Spans
    <3> QED BY <2>1, <3>1
  <2>3. CASE i # 1
    <3> HIDE DEF Spans
    <3>1. PICK m \in S, l \in S : Spans(m, l, i - 1)
      BY <2>3
    <3> DEFINE m2 == IF m <= f[i] THEN f[i] ELSE m
               l2 == IF l <= f[i] THEN l ELSE f[i]
    <3>2. m \in Int /\ l \in Int /\ m2 \in S /\ l2 \in S
      BY <2>1
    <3>3. ASSUME NEW j \in 1..i PROVE f[j] <= m2 /\ l2 <= f[j]
      <4>1. CASE j = i
        BY <2>1, <3>2, <4>1
      <4>2. CASE j # i
        <5>1. j \in 1..(i - 1)
          BY <4>2
        <5>2. f[j] <= m /\ l <= f[j] /\ f[j] \in Int
          BY <1>3, <3>1, <5>1 DEF Spans
        <5> QED BY <2>1, <3>2, <5>2
      <4> QED BY <4>1, <4>2
    <3>4. Spans(m2, l2, i)
      BY <3>3 DEF Spans
    <3> HIDE DEF m2, l2
    <3> QED BY <3>2, <3>4
  <2> QED BY <2>2, <2>3
<1> HIDE DEF P
<1>7. n \in P
  <2>1. \A i \in 0..n : i \in P
    BY ONLY n \in Nat, <1>5, <1>6, PlusFold!SetInduction
  <2> QED BY <2>1
<1>8. PICK m \in S, l \in S : (\A y \in S : m >= y) /\ \A y \in S : l <= y
  <2>1. PICK m \in S, l \in S : Spans(m, l, n)
    <3> HIDE DEF Spans
    <3> QED BY <1>4, <1>7 DEF P
  <2>2. ASSUME NEW y \in S PROVE m >= y /\ l <= y
    <3> PICK i \in 1..n : f[i] = y
      BY <1>2
    <3> QED BY <2>1
  <2> QED BY <2>2
<1>9. /\ Max(S) \in S /\ \A y \in S : Max(S) >= y
      /\ Min(S) \in S /\ \A y \in S : Min(S) <= y
  BY <1>8, Zenon DEF Max, Min
<1> QED BY <1>9

\* A string that is as long as asked for, with zeros behind its old end.
LEMMA PaddedIsSeq ==
    ASSUME NEW b, IsSeq(b), NEW n \in Int
    PROVE  /\ IsSeq(Padded(b, n)) /\ Len(b) \in Nat
           /\ Len(Padded(b, n)) = IF Len(b) <= n THEN n ELSE Len(b)
           /\ \A i \in 1..Len(Padded(b, n)) : Padded(b, n)[i] = IF i <= Len(b) THEN b[i] ELSE 0
<1>1. Len(b) \in Nat
  BY SeqFacts
<1> PICK k \in Nat : k = IF Len(b) <= n THEN n - Len(b) ELSE 0
  BY <1>1
<1> PICK z : z = [i \in 1..k |-> 0]
  OBVIOUS
<1>2. z = [i \in 1..k |-> z[i]] /\ \A i \in 1..k : z[i] = 0
  OBVIOUS
<1>3. IsSeq(z) /\ Len(z) = k
  BY <1>2, FunIsSeq
<1>4. Padded(b, n) = b \o z
  <2>1. 1..(n - Len(b)) = 1..k
    BY <1>1
  <2> QED BY <2>1 DEF Padded
<1> PICK p : p = b \o z
  OBVIOUS
<1>5. /\ IsSeq(p) /\ Len(p) = Len(b) + k
      /\ \A i \in 1..(Len(b) + k) : p[i] = IF i <= Len(b) THEN b[i] ELSE z[i - Len(b)]
  BY <1>3, ConcatIsSeq
<1>6. \A i \in 1..(Len(b) + k) : ~(i <= Len(b)) => z[i - Len(b)] = 0
  BY <1>1, <1>2
<1> QED BY <1>1, <1>4, <1>5, <1>6

\* A handler that leaves a string.
LEMMA StrGood ==
    ASSUME NEW v, NEW b, IsSeq(b)
    PROVE  /\ \A st, rep, fl : Outcome(v, Done(Str(b), st, rep, fl))
           /\ \A n, fl : Outcome(v, SendInt(Str(b), n, fl))
           /\ \A st : Outcome(v, Status(Str(b), st))
           /\ \A st, rep, fl : \A t \in Nat \cup {Keep} :
                 Outcome(v, [Done(Str(b), st, rep, fl) EXCEPT !.exp = t])
<1>1. WellFormed(Str(b)) /\ ~Has(Str(b))
  BY Builds
<1>2. ASSUME NEW st, NEW rep, NEW fl, NEW t \in Nat \cup {Keep}
      PROVE  Outcome(v, [Done(Str(b), st, rep, fl) EXCEPT !.exp = t])
  <2> PICK q : q = Done(Str(b), st, rep, fl)
    OBVIOUS
  <2>1. Outcome(v, q)
    BY <1>1, GoodQuiet
  <2>2. {"v", "exp", "fl"} \subseteq DOMAIN q
    BY DEF Done
  <2>3. LET p == [q EXCEPT !.exp = t] IN p.v = q.v /\ p.exp = t /\ p.fl = q.fl
    BY <2>2
  <2> QED BY <2>1, <2>3 DEF Outcome
<1> QED BY <1>1, <1>2, GoodQuiet

\* The bytes of a string, or of none.
LEMMA BytesSeq ==
    ASSUME NEW v, WellFormed(v)
    PROVE  IsSeq(Bytes(v))
BY Forms, EmptyIsSeq DEF Bytes

\* SET, SETNX, SET XX, SETEX, MSET and MSETNX.
LEMMA SetValueGood ==
    ASSUME NEW v, WellFormed(v), NEW y, IsSeq(y), NEW cond \in {"any", "nx", "xx"},
           NEW exp \in Nat \cup {Keep}, NEW st
    PROVE  Outcome(v, SetValue(v, y, cond, exp, st))
<1> DEFINE r == SetValue(v, y, cond, exp, st)
<1>1. \/ r = Status(v, "send_nil") \/ r = Status(Str(Raw), "send_nil")
      \/ r = [Done(Str(y), st, <<>>, StrFlags) EXCEPT !.exp = exp]
  BY DEF SetValue
<1>2. IsSeq(Raw)
  BY AppendIsSeq, EmptyIsSeq DEF Raw
<1>3. /\ Outcome(v, Status(v, "send_nil")) /\ Outcome(v, Status(Str(Raw), "send_nil"))
      /\ Outcome(v, [Done(Str(y), st, <<>>, StrFlags) EXCEPT !.exp = exp])
  BY <1>2, StrGood, GoodSame
<1> QED BY <1>1, <1>3

\* the number that a run of digits is
DigitFold == INSTANCE FoldTheorems WITH Op <- AddDigit

\* The number that a string reads as is an integer, or the read failed.
LEMMA IntOfType ==
    ASSUME NEW s, IsSeq(s), IsInt(s)
    PROVE  IntOf(s) \in Int
<1> DEFINE d == IF s[1] = Minus THEN Tail(s) ELSE s
           n == Len(d)
<1>1. s # <<>>
  <2>1. IsSeq(<<>>) /\ DOMAIN <<>> = {}
    BY EmptyIsSeq, SeqFacts
  <2> QED BY DEF IsInt
<1>2. \A i \in DOMAIN d : IsDigit(d[i])
  BY <1>1 DEF IsInt
<1>3. IsSeq(d)
  BY <1>1, TailIsSeq
<1> HIDE DEF d
<1>4. n \in Nat /\ DOMAIN d = 1..n /\ \A i \in 1..n : d[i] - 48 \in Nat
  <2>1. n \in Nat /\ DOMAIN d = 1..n
    BY <1>3, SeqFacts
  <2> QED BY <1>2, <2>1 DEF IsDigit
<1> HIDE DEF n
<1>5. FoldLeft(AddDigit, 0, d) = DigitFold!Fold(0, d)
  BY Zenon DEF DigitFold!Fold, DigitFold!Iter, DigitFold!IsIter, FoldLeft, MapThenFoldSet, Max,
               DigitFold!Top
<1>6. PICK h : /\ h[0] = 0
               /\ \A i \in 1..n : h[i] = AddDigit(h[i - 1], d[i])
               /\ h[n] = DigitFold!Fold(0, d)
  BY <1>4, DigitFold!FoldSteps
<1> DEFINE P == {i \in 0..n : h[i] \in Nat}
<1>7. 0 \in P
  BY <1>4, <1>6
<1>8. \A i \in 1..n : i - 1 \in P => i \in P
  <2> SUFFICES ASSUME NEW i \in 1..n, i - 1 \in P PROVE i \in P
    OBVIOUS
  <2>1. h[i - 1] \in Nat /\ d[i] - 48 \in Nat /\ h[i] = 10 * h[i - 1] + (d[i] - 48)
    BY <1>4, <1>6 DEF AddDigit
  <2>2. 10 * h[i - 1] + (d[i] - 48) \in Nat
    BY <2>1
  <2> QED BY <2>1, <2>2
<1> HIDE DEF P
<1>9. n \in P
  <2>1. n \in Nat
    BY <1>4
  <2>2. \A i \in 0..n : i \in P
    BY ONLY <2>1, <1>7, <1>8, PlusFold!SetInduction
  <2> QED BY <2>1, <2>2
<1>10. FoldLeft(AddDigit, 0, d) \in Nat
  BY <1>5, <1>6, <1>9 DEF P
<1> PICK m \in Nat : m = FoldLeft(AddDigit, 0, d)
  BY <1>10
<1>11. IntOf(s) = IF s[1] = Minus THEN 0 - m ELSE m
  BY DEF IntOf, d
<1> QED BY <1>11

\* The text of a number is a sequence of bytes.
LEMMA IntTextSeq ==
    ASSUME NEW n \in Int
    PROVE  IsSeq(IntText(n))
<1>1. PlusFold!IsText(NatText)
  BY Zenon, PlusFold!TextExists DEF NatText, PlusFold!IsText, PlusFold!TextStep
<1>2. ASSUME NEW m \in Nat PROVE IsSeq(NatText[m])
  <2>1. NatText[m] \in Seq(Nat)
    BY <1>1, PlusFold!TextIsBytes
  <2> QED BY <2>1, SeqIsSeq
<1>3. CASE n < 0
  <2>1. 0 - n \in Nat
    BY <1>3
  <2>2. IsSeq(<<Minus>>)
    BY EmptyIsSeq, AppendIsSeq
  <2>3. IsSeq(<<Minus>> \o NatText[0 - n])
    BY <1>2, <2>1, <2>2, ConcatIsSeq
  <2> QED BY <1>3, <2>3 DEF IntText
<1>4. CASE ~(n < 0)
  <2>1. n \in Nat
    BY <1>4
  <2> QED BY <1>2, <1>4, <2>1 DEF IntText
<1> QED BY <1>3, <1>4

\* INCR, DECR, INCRBY and DECRBY.
LEMMA AddGood ==
    ASSUME NEW v, WellFormed(v), NEW n \in Int, NEW max \in Nat
    PROVE  Outcome(v, Add(v, n, max))
<1> PICK b : b = Bytes(v)
  OBVIOUS
<1> PICK m : m = IF IsInt(b) THEN IntOf(b) ELSE 0
  OBVIOUS
<1>1. m \in Int
  BY BytesSeq, IntOfType
<1> PICK r : r = Wrap(m + n, max)
  OBVIOUS
<1>2. r \in Int
  <2>1. \A a \in Int : \A d \in Nat \ {0} : a % d \in Int
    OBVIOUS
  <2>2. m + n + max + 1 \in Int /\ 2 * max + 2 \in Nat \ {0}
    BY <1>1
  <2> QED BY <2>1, <2>2 DEF Wrap
<1>3. Add(v, n, max) = IF v.type \in {"none", "nodata", "string"}
                       THEN Done(Str(IntText(r)), "ok", <<r>>, StrFlags) ELSE Status(v, "bad_type")
  BY DEF Add, StrWrite
<1>4. Outcome(v, Status(v, "bad_type")) /\ Outcome(v, Done(Str(IntText(r)), "ok", <<r>>, StrFlags))
  BY <1>2, IntTextSeq, StrGood, GoodSame
<1> QED BY <1>3, <1>4

\* SETRANGE and SETBIT.
LEMMA SetRangeGood ==
    ASSUME NEW v, WellFormed(v), NEW off \in Nat, NEW y, IsSeq(y)
    PROVE  Outcome(v, SetRange(v, off, y))
<1> DEFINE p == Padded(Bytes(v), off + Len(y))
           r == [i \in DOMAIN p |-> IF i \in (off + 1)..(off + Len(y)) THEN y[i - off] ELSE p[i]]
<1>1. SetRange(v, off, y) = IF v.type \in {"none", "nodata", "string"}
                            THEN SendInt(Str(r), Len(r), StrFlags) ELSE Status(v, "bad_type")
  BY Zenon DEF SetRange, StrWrite
<1>2. IsSeq(p)
  <2>1. off + Len(y) \in Int
    BY SeqFacts
  <2> QED BY <2>1, BytesSeq, PaddedIsSeq
<1>3. Len(p) \in Nat /\ DOMAIN p = 1..Len(p)
  BY <1>2, SeqFacts
<1> HIDE DEF p
<1>4. r = [i \in 1..Len(p) |-> r[i]]
  BY <1>3
<1> HIDE DEF r
<1>5. IsSeq(r)
  BY <1>3, <1>4, FunIsSeq
<1>6. Outcome(v, Status(v, "bad_type")) /\ Outcome(v, SendInt(Str(r), Len(r), StrFlags))
  BY <1>5, StrGood, GoodSame
<1> QED BY <1>1, <1>6

\* SETBIT leaves a string that reaches to the byte of the bit (do_bit).
LEMMA SetBitGood ==
    ASSUME NEW v, WellFormed(v), NEW at \in Nat, NEW bit
    PROVE  Outcome(v, SetBit(v, at, bit))
<1> DEFINE p == Padded(Bytes(v), at \div 8 + 1)
<1>1. IsSeq(p)
  <2>1. at \div 8 + 1 \in Int
    OBVIOUS
  <2> QED BY <2>1, BytesSeq, PaddedIsSeq
<1>2. SetBit(v, at, bit) = Status(v, "bad_type")
      \/ \E k, z, n : SetBit(v, at, bit) = SendInt(Str([p EXCEPT ![k] = z]), n, {})
  BY DEF SetBit, StrWrite
<1> HIDE DEF p
<1>3. \A k, z, n : Outcome(v, SendInt(Str([p EXCEPT ![k] = z]), n, {}))
  BY <1>1, ExceptIsSeq, StrGood
<1> QED BY <1>2, <1>3, GoodSame

\* one field of BITFIELD after the other
FieldStep(acc, f) == LET r == FieldOp(acc.b, f) IN [b |-> r.b, rep |-> Append(acc.rep, r.rep)]
FieldFold == INSTANCE FoldTheorems WITH Op <- FieldStep

FieldsRun(b, fs) == FoldLeft(FieldStep, [b |-> b, rep |-> <<>>], fs)

\* What BITFIELD leaves is a string.
LEMMA FieldsRunSeq ==
    ASSUME NEW b, IsSeq(b), NEW fs, IsSeq(fs),
           \A i \in DOMAIN fs : fs[i].op \in {"get", "set", "incrby"}
    PROVE  IsSeq(FieldsRun(b, fs).b)
<1> DEFINE n == Len(fs)
           base == [b |-> b, rep |-> <<>>]
<1>1. n \in Nat /\ DOMAIN fs = 1..n
  BY SeqFacts
<1>2. IsSeq(base.b)
  OBVIOUS
<1> HIDE DEF n
<1>3. FieldsRun(b, fs) = FieldFold!Fold(base, fs)
  BY Zenon DEF FieldFold!Fold, FieldFold!Iter, FieldFold!IsIter, FoldLeft, MapThenFoldSet, Max,
               FieldFold!Top, FieldsRun, base
<1> HIDE DEF base
<1>4. PICK h : /\ h[0] = base
               /\ \A i \in 1..n : h[i] = FieldStep(h[i - 1], fs[i])
               /\ h[n] = FieldFold!Fold(base, fs)
  BY <1>1, FieldFold!FoldSteps
<1> DEFINE P == {i \in 0..n : IsSeq(h[i].b)}
<1>5. 0 \in P
  BY <1>1, <1>2, <1>4
<1>6. \A i \in 1..n : i - 1 \in P => i \in P
  <2> SUFFICES ASSUME NEW i \in 1..n, i - 1 \in P PROVE i \in P
    OBVIOUS
  <2> PICK a : a = h[i - 1].b
    OBVIOUS
  <2> PICK f : f = fs[i]
    OBVIOUS
  <2>1. IsSeq(a) /\ f.op \in {"get", "set", "incrby"} /\ h[i].b = FieldOp(a, f).b
    <3>1. IsSeq(a) /\ f.op \in {"get", "set", "incrby"} /\ h[i] = FieldStep(h[i - 1], f)
      BY <1>1, <1>4
    <3>2. \E m : FieldStep(h[i - 1], f) = [b |-> FieldOp(a, f).b, rep |-> m]
      BY Zenon DEF FieldStep
    <3> QED BY <3>1, <3>2
  <2>2. \A m : IsSeq(PutField(a, f, m))
    <3> SUFFICES ASSUME NEW m PROVE IsSeq(PutField(a, f, m))
      OBVIOUS
    <3> PICK p : p = PutField(a, f, m)
      OBVIOUS
    <3> DEFINE B(k) == ByteFrom(LAMBDA j :
                          LET g == 8 * (k - 1) + j - f.off
                          IN  IF g \in 0..(f.width - 1) THEN BitOf(m % 2^f.width, g) = 1
                              ELSE BitOf(a[k], j) = 1)
    <3>1. p = [k \in DOMAIN a |-> B(k)]
      BY Zenon DEF PutField
    <3> HIDE DEF B
    <3>2. Len(a) \in Nat /\ DOMAIN a = 1..Len(a)
      BY <2>1, SeqFacts
    <3>3. p = [k \in 1..Len(a) |-> p[k]]
      BY <3>1, <3>2
    <3> QED BY <3>2, <3>3, FunIsSeq
  <2>3. FieldOp(a, f).b = a \/ \E m : FieldOp(a, f).b = PutField(a, f, m)
    <3>1. \E m : \/ FieldOp(a, f) = [b |-> a, rep |-> FieldBits(a, f)]
                 \/ FieldOp(a, f) = [b |-> a, rep |-> "nil"]
                 \/ FieldOp(a, f) = [b |-> PutField(a, f, m), rep |-> FieldBits(a, f)]
                 \/ FieldOp(a, f) = [b |-> PutField(a, f, m), rep |-> m]
      BY <2>1 DEF FieldOp
    <3> QED BY <3>1
  <2>4. IsSeq(h[i].b)
    BY <2>1, <2>2, <2>3
  <2> QED BY <2>4
<1> HIDE DEF P
<1>7. n \in P
  <2>1. n \in Nat
    BY <1>1
  <2>2. \A i \in 0..n : i \in P
    BY ONLY <2>1, <1>5, <1>6, PlusFold!SetInduction
  <2> QED BY <2>1, <2>2
<1> QED BY <1>3, <1>4, <1>7 DEF P

\* A string is a sequence however it is resized.
LEMMA ResizedIsSeq ==
    ASSUME NEW b, IsSeq(b), NEW n \in Int, NEW old
    PROVE  IsSeq(Resized(b, n, old))
<1> PICK a : a = [i \in DOMAIN b |-> old]
  OBVIOUS
<1>1. IsSeq(a)
  <2>1. Len(b) \in Nat /\ DOMAIN b = 1..Len(b)
    BY SeqFacts
  <2>2. a = [i \in 1..Len(b) |-> a[i]]
    BY <2>1
  <2> QED BY <2>1, <2>2, FunIsSeq
<1>2. Resized(b, n, old) = Padded(b, n) \/ Resized(b, n, old) = Padded(a, n)
  BY Zenon DEF Resized
<1> QED BY <1>1, <1>2, PaddedIsSeq

\* BITFIELD.
LEMMA BitFieldGood ==
    ASSUME NEW v, WellFormed(v), NEW fs, IsSeq(fs),
           \A i \in DOMAIN fs : /\ fs[i].op \in {"get", "set", "incrby"}
                                /\ fs[i].off \in Nat /\ fs[i].width \in Nat,
           NEW out \in BitField(v, fs)
    PROVE  Outcome(v, out)
<1> DEFINE writes == {i \in DOMAIN fs : fs[i].op # "get"}
           g    == [i \in DOMAIN fs |-> (fs[i].off + fs[i].width + 7) \div 8]
           S    == {g[i] : i \in writes} \cup {0}
           b(old) == Resized(Bytes(v), Max(S), old)
           r(old) == FieldsRun(b(old), fs)
<1>1. S = {(fs[i].off + fs[i].width + 7) \div 8 : i \in writes} \cup {0}
  OBVIOUS
<1>2. Max(S) \in Int
  <2>1. Len(fs) \in Nat /\ DOMAIN fs = 1..Len(fs)
    BY SeqFacts
  <2>2. IsFiniteSet(writes)
    <3>1. 1 \in Int /\ Len(fs) \in Int
      BY <2>1
    <3>2. IsFiniteSet(1..Len(fs))
      BY ONLY <3>1, FS_Interval
    <3> QED BY <2>1, <3>2, FS_Subset
  <2>3. \A i \in writes : g[i] \in Int
    OBVIOUS
  <2>4. IsFiniteSet({g[i] : i \in writes})
    <3>1. writes \subseteq DOMAIN g
      OBVIOUS
    <3> HIDE DEF g, writes
    <3> QED BY <2>2, <3>1, ImageFinite
  <2>5. IsFiniteSet(S)
    <3> PICK A : A = {g[i] : i \in writes}
      OBVIOUS
    <3>1. IsFiniteSet(A) /\ IsFiniteSet({0})
      BY <2>4, FS_Singleton
    <3> QED BY <3>1, FS_Union
  <2>6. S \subseteq Int /\ S # {}
    BY <2>3
  <2> HIDE DEF S
  <2> QED BY <2>5, <2>6, FiniteTop
<1> HIDE DEF g
<1>3. ASSUME NEW old PROVE IsSeq(r(old).b)
  <2>1. IsSeq(b(old))
    BY <1>2, BytesSeq, ResizedIsSeq
  <2> HIDE DEF b
  <2> QED BY <2>1, FieldsRunSeq
<1>4. \A y : FoldLeft(LAMBDA acc, f : LET q == FieldOp(acc.b, f)
                                      IN  [b |-> q.b, rep |-> Append(acc.rep, q.rep)],
                      [b |-> y, rep |-> <<>>], fs) = FieldsRun(y, fs)
  BY Zenon DEF FieldsRun, FieldStep, FoldLeft, MapThenFoldSet
<1> HIDE DEF S
<1>5. \/ \E st : out = Status(v, st)
      \/ \E y : out = Data(v, y)
      \/ \E old : out = Done(Str(r(old).b), "ok", r(old).rep, StrFlags)
  <2>1. CASE writes = {}
    <3>1. (\E st : out = Status(v, st)) \/ \E y : out = Data(v, y)
      BY <2>1 DEF BitField, OfType
    <3> QED BY <3>1
  <2>2. CASE writes # {}
    <3>1. \E old : out = IF v.type \in {"none", "nodata", "string"}
                         THEN Done(Str(r(old).b), "ok", r(old).rep, StrFlags)
                         ELSE Status(v, "bad_type")
      BY <1>1, <1>4, <2>2, Zenon DEF BitField, StrWrite
    <3> QED BY <3>1
  <2> QED BY <2>1, <2>2
<1> HIDE DEF r
<1>6. \A old : Outcome(v, Done(Str(r(old).b), "ok", r(old).rep, StrFlags))
  BY <1>3, StrGood
<1> QED BY <1>5, <1>6, GoodSame

\* a source of BITOP on what those before it made
BitApply(n, op, acc, p) ==
    [i \in 1..n |->
        IF i <= Len(p) THEN ByteOp(op, acc[i], p[i])
        ELSE CASE op = "and" -> 0
               [] op = "or"  -> acc[i]
               [] op = "xor" -> ByteOp("not", acc[i], 0)]

BitStep(acc, q) == BitApply(q[1], q[2], acc, q[3])
BitFold == INSTANCE FoldTheorems WITH Op <- BitStep

BitsMerged(n, op, base, seq) == FoldLeft(LAMBDA acc, p : BitApply(n, op, acc, p), base, seq)

\* h is what is there after each source
BitPath(h, n, op, base, seq, m) ==
    /\ h[0] = base
    /\ \A i \in 1..m : h[i] = BitApply(n, op, h[i - 1], seq[i])
    /\ h[m] = BitsMerged(n, op, base, seq)

\* The sources are taken one after the other.
LEMMA BitSteps ==
    ASSUME NEW n, NEW op, NEW base, NEW seq, NEW m \in Nat, DOMAIN seq = 1..m
    PROVE  \E h : BitPath(h, n, op, base, seq, m)
<1> DEFINE sq == [i \in 1..m |-> <<n, op, seq[i]>>]
           A(g, s) == BitApply(n, op, g[s \ {Max(s)}], seq[Max(s)])
           B(g, s) == BitStep(g[s \ {Max(s)}], sq[Max(s)])
<1>1. \A s \in SUBSET (1..m) :
         s # {} => \A a : BitApply(n, op, a, seq[Max(s)]) = BitStep(a, sq[Max(s)])
  BY TopOf DEF BitStep
<1>2. DOMAIN sq = 1..m /\ \A i \in 1..m : \A a : BitStep(a, sq[i]) = BitApply(n, op, a, seq[i])
  BY DEF BitStep
<1> HIDE DEF sq
<1>3. \A g : [s \in SUBSET (1..m) |-> IF s = {} THEN base ELSE A(g, s)]
             = [s \in SUBSET (1..m) |-> IF s = {} THEN base ELSE B(g, s)]
  BY <1>1
<1>4. (CHOOSE g : g = [s \in SUBSET (1..m) |-> IF s = {} THEN base ELSE A(g, s)])
      = CHOOSE g : g = [s \in SUBSET (1..m) |-> IF s = {} THEN base ELSE B(g, s)]
  BY <1>3, Zenon
<1>5. BitFold!Fold(base, sq)
      = (CHOOSE g : g = [s \in SUBSET (1..m) |-> IF s = {} THEN base ELSE B(g, s)])[1..m]
  BY <1>2, Zenon DEF BitFold!Fold, BitFold!Iter, BitFold!IsIter, BitFold!Top, Max
<1>6. BitsMerged(n, op, base, seq)
      = (CHOOSE g : g = [s \in SUBSET (1..m) |-> IF s = {} THEN base ELSE A(g, s)])[1..m]
  BY Zenon DEF BitsMerged, FoldLeft, MapThenFoldSet, Max
<1>7. PICK h : /\ h[0] = base
               /\ \A i \in 1..m : h[i] = BitStep(h[i - 1], sq[i])
               /\ h[m] = BitFold!Fold(base, sq)
  BY <1>2, BitFold!FoldSteps
<1>8. BitFold!Fold(base, sq) = BitsMerged(n, op, base, seq)
  BY <1>4, <1>5, <1>6, Zenon
<1>9. BitPath(h, n, op, base, seq, m)
  BY <1>2, <1>7, <1>8 DEF BitPath
<1> QED BY <1>9

\* What BITOP makes of its sources is a string.
LEMMA BitOpSeq ==
    ASSUME NEW op, NEW parts, Sources(parts), \A j \in DOMAIN parts : IsSeq(parts[j])
    PROVE  IsSeq(BitOp(op, parts))
<1> DEFINE g == [i \in DOMAIN parts |-> Len(parts[i])]
           S == {g[i] : i \in DOMAIN parts}
           n == Max({Len(parts[i]) : i \in DOMAIN parts})
           first == IF op = "not" THEN [i \in 1..n |-> ByteOp("not", Padded(parts[1], n)[i], 0)]
                    ELSE Padded(parts[1], n)
<1>1. /\ Len(parts) \in Nat \ {0} /\ DOMAIN parts = 1..Len(parts) /\ IsSeq(parts) /\ parts # <<>>
      /\ 1 \in DOMAIN parts
  BY SeqFacts, EmptyIsSeq DEF Sources
<1>2. S = {Len(parts[i]) : i \in DOMAIN parts}
  OBVIOUS
<1>3. n \in Nat
  <2>1. \A i \in DOMAIN parts : g[i] \in Nat
    BY SeqFacts
  <2>2. IsFiniteSet(DOMAIN parts)
    <3>1. 1 \in Int /\ Len(parts) \in Int
      BY <1>1
    <3>2. IsFiniteSet(1..Len(parts))
      BY ONLY <3>1, FS_Interval
    <3> QED BY <1>1, <3>2
  <2>3. IsFiniteSet(S)
    <3>1. DOMAIN parts \subseteq DOMAIN g
      OBVIOUS
    <3> HIDE DEF g
    <3> QED BY <2>2, <3>1, ImageFinite
  <2>4. S \subseteq Nat /\ S # {}
    BY <1>1, <2>1
  <2>5. S \subseteq Int
    BY <2>4
  <2> HIDE DEF S
  <2>6. n \in S
    <3>1. Max(S) \in S
      BY <2>3, <2>4, <2>5, FiniteTop
    <3>2. n = Max(S)
      BY <1>2
    <3> QED BY <3>1, <3>2
  <2> HIDE DEF n
  <2> QED BY <2>4, <2>6
<1>4. BitOp(op, parts) = BitsMerged(n, op, first, Tail(parts))
  BY Zenon DEF BitOp, BitsMerged, BitApply
<1> HIDE DEF S, g
<1>5. IsSeq(first)
  <2> DEFINE f == [i \in 1..n |-> ByteOp("not", Padded(parts[1], n)[i], 0)]
  <2>1. f = [i \in 1..n |-> f[i]]
    OBVIOUS
  <2> HIDE DEF f
  <2>2. IsSeq(f)
    BY <1>3, <2>1, FunIsSeq
  <2>3. IsSeq(Padded(parts[1], n))
    <3>1. IsSeq(parts[1]) /\ n \in Int
      BY <1>1, <1>3
    <3> HIDE DEF n
    <3> QED BY <3>1, PaddedIsSeq
  <2> QED BY <2>2, <2>3 DEF f
<1> HIDE DEF n, first
<1> PICK m : m = Len(parts) - 1
  OBVIOUS
<1>6. m \in Nat /\ DOMAIN Tail(parts) = 1..m
  BY <1>1, TailIsSeq
<1> PICK seq : seq = Tail(parts)
  OBVIOUS
<1>7. PICK h : BitPath(h, n, op, first, seq, m)
  BY <1>6, BitSteps
<1>8. IsSeq(h[m])
  <2>1. CASE m = 0
    BY <1>5, <1>7, <2>1 DEF BitPath
  <2>2. CASE m # 0
    <3>1. h[m] = BitApply(n, op, h[m - 1], seq[m])
      BY <1>6, <1>7, <2>2 DEF BitPath
    <3> PICK q : q = h[m]
      OBVIOUS
    <3> DEFINE C(i) == IF i <= Len(seq[m]) THEN ByteOp(op, h[m - 1][i], seq[m][i])
                       ELSE CASE op = "and" -> 0
                              [] op = "or"  -> h[m - 1][i]
                              [] op = "xor" -> ByteOp("not", h[m - 1][i], 0)
    <3>2. q = [i \in 1..n |-> C(i)]
      BY <3>1, Zenon DEF BitApply
    <3> HIDE DEF C
    <3>3. q = [i \in 1..n |-> q[i]]
      BY <3>2
    <3> QED BY <1>3, <3>3, FunIsSeq
  <2> QED BY <2>1, <2>2
<1> QED BY <1>4, <1>7, <1>8 DEF BitPath

\* The string commands but BITFIELD.
LEMMA StrCmdGood ==
    ASSUME NEW c, c.catg = "string", IsCall(c), NEW i \in DOMAIN c.keys, NEW x,
           WellFormed(x.v), x.now \in Nat, Gathered(c, i, x), c.cmd # "bitfield"
    PROVE  Outcome(x.v, StrCmd(c, i, x))
<1> PICK v : v = x.v
  OBVIOUS
<1> PICK r : r = StrCmd(c, i, x)
  OBVIOUS
<1>1. c.cmd \in {"get", "getset", "mget", "strlen", "append", "setrange", "getrange", "incrby",
                 "getbit", "setbit", "bitcount", "bitpos", "bitop", "set", "setex",
                 "mset", "msetnx"}
  BY DEF IsCall, Commands
<1>2. IsArgs(c) /\ i \in Nat \ {0}
  <2>1. IsArgs(c) /\ c.keys \in Seq(Keys)
    BY DEF IsCall, IsArity
  <2> QED BY <2>1
<1>3. \A st, rep, n, fl : /\ Outcome(v, Status(v, st)) /\ Outcome(v, Data(v, rep))
                          /\ Outcome(v, SendInt(v, n, fl))
  BY GoodSame
<1>4. \A y, st : IsSeq(y) => Outcome(v, SetValue(v, y, "any", 0, st))
  BY SetValueGood
<1>5. CASE c.cmd \in {"get", "mget", "strlen", "getrange"}
  <2>1. r \in {Get(v), MGet(v), StrLen(v), GetRange(v, c.from, c.to)}
    BY <1>5 DEF StrCmd
  <2>2. (\E st : r = Status(v, st)) \/ (\E y : r = Data(v, y)) \/ \E n : r = SendInt(v, n, {})
    BY <2>1 DEF Get, MGet, StrLen, GetRange, OfType
  <2> QED BY <1>3, <2>2
<1>6. CASE c.cmd \in {"getbit", "bitcount", "bitpos"}
  <2>1. r \in {GetBit(v, c.at), BitCount(v, c.from, c.to), BitPos(v, c.bit, c.from, c.to)}
    BY <1>6 DEF StrCmd
  <2>2. (\E st : r = Status(v, st)) \/ \E n : r = SendInt(v, n, {})
    BY <2>1, Zenon DEF GetBit, BitCount, BitPos, OfType
  <2> QED BY <1>3, <2>2
<1>7. CASE c.cmd = "getset"
  <2>1. r = GetSet(v, c.val)
    BY <1>7 DEF StrCmd
  <2>2. \/ r = Status(v, "bad_type")
        \/ \E st, b : r = [Done(Str(c.val), st, b, StrFlags) EXCEPT !.exp = 0]
    BY <2>1 DEF GetSet, StrWrite
  <2>3. IsSeq(c.val) /\ 0 \in Nat \cup {Keep}
    BY <1>2, <1>7 DEF IsArgs
  <2> QED BY <1>3, <2>2, <2>3, StrGood
<1>8. CASE c.cmd = "append"
  <2>1. r = Append_(v, c.val)
    BY <1>8 DEF StrCmd
  <2>2. \/ r = Status(v, "bad_type")
        \/ \E n : r = SendInt(Str(Bytes(v) \o c.val), n, StrFlags)
    BY <2>1 DEF Append_, StrWrite
  <2>3. IsSeq(Bytes(v) \o c.val)
    BY <1>2, <1>8, BytesSeq, ConcatIsSeq DEF IsArgs
  <2> QED BY <1>3, <2>2, <2>3, StrGood
<1>9. CASE c.cmd = "setrange"
  BY <1>2, <1>9, SetRangeGood DEF StrCmd, IsArgs
<1>10. CASE c.cmd = "incrby"
  BY <1>2, <1>10, AddGood DEF StrCmd, IsArgs
<1>11. CASE c.cmd = "setbit"
  BY <1>2, <1>11, SetBitGood DEF StrCmd, IsArgs
<1>13. CASE c.cmd = "bitop" /\ i > 1
  <2>1. r = SaveStr(v)
    BY <1>13 DEF StrCmd
  <2>2. (\E st : r = Status(v, st)) \/ \E y : r = Data(v, y)
    BY <2>1 DEF SaveStr, OfType
  <2> QED BY <1>3, <2>2
<1>14. CASE c.cmd = "bitop" /\ i = 1
  <2> PICK b : b = BitOp(c.op, Tail(x.part))
    OBVIOUS
  <2>1. r = IF x.dep = 0 THEN Status(v, "depends") ELSE BitOpDest(v, c.op, Tail(x.part))
    BY <1>14 DEF StrCmd, Wait
  <2>2. r \in {Status(v, "depends"), Status(v, "bad_type"), SendInt(Str(b), Len(b), StrFlags)}
    BY <2>1 DEF BitOpDest, StrWrite
  <2>3. IsSeq(b)
    BY <1>14, BitOpSeq DEF Gathered
  <2> QED BY <1>3, <2>2, <2>3, StrGood
<1>15. CASE c.cmd \in {"set", "mset"}
  <2>1. \E y, cond : IsSeq(y) /\ cond \in {"any", "nx", "xx"} /\ r = Set(v, y, cond)
    BY <1>2, <1>15 DEF StrCmd, IsArgs
  <2> QED BY <2>1, SetValueGood DEF Set
<1>16. CASE c.cmd = "setex"
  <2> PICK t : t = IF c.ttl = 0 THEN Keep ELSE x.now + c.ttl
    OBVIOUS
  <2>1. r = SetValue(v, c.val, c.cond, t, "send_ok")
    BY <1>16 DEF StrCmd, SetEx
  <2>2. t \in Nat \cup {Keep} /\ IsSeq(c.val) /\ c.cond \in {"any", "nx", "xx"}
    BY <1>2, <1>16 DEF IsArgs
  <2> QED BY <2>1, <2>2, SetValueGood
<1>17. CASE c.cmd = "msetnx"
  <2>1. r \in {Status(v, "abort_zero"), Status(v, "again"), Status(v, "depends"),
               SetValue(v, c.vals[i], "any", 0, "send_one")}
    BY <1>17 DEF StrCmd, MSetNx, Again, Wait
  <2>2. IsSeq(c.vals[i])
    BY <1>2, <1>17 DEF IsArgs
  <2> QED BY <1>3, <1>4, <2>1, <2>2
<1> QED BY <1>1, <1>2, <1>5, <1>6, <1>7, <1>8, <1>9, <1>10, <1>11, <1>13, <1>14, <1>15,
           <1>16, <1>17

\* Every string command.
LEMMA StringCmdGood ==
    ASSUME NEW c, c.catg = "string", IsCall(c), NEW i \in DOMAIN c.keys, NEW x,
           WellFormed(x.v), x.now \in Nat, Gathered(c, i, x), NEW r \in StringCmd(c, i, x)
    PROVE  Outcome(x.v, r)
<1>1. CASE c.cmd = "bitfield"
  <2>1. r \in BitField(x.v, c.fs)
    BY <1>1 DEF StringCmd
  <2> QED BY <1>1, <2>1, BitFieldGood DEF IsCall, IsArgs
<1>2. CASE c.cmd # "bitfield"
  <2>1. r = StrCmd(c, i, x)
    BY <1>2 DEF StringCmd
  <2> QED BY <1>2, <2>1, StrCmdGood
<1> QED BY <1>1, <1>2
===============================================================================
