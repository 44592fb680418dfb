--------------------------- MODULE RedisStoreProofs --------------------------
(***************************************************************************)
(* What is proved of the store, for any keys, values, calls and sessions:  *)
(* every handler leaves a well formed value and tells those who wait for   *)
(* an element of a list or a sorted set, whatever is run between the keys  *)
(* of a command; and with that the properties of values that a run checks. *)
(***************************************************************************)
EXTENDS RedisValueProofs

-----------------------------------------------------------------------------
(* Streams *)

\* Streams are made of their parts.
LEMMA StreamParts ==
    /\ \A d \in Seq(Int) : \A u \in Int : \A g, p :
          IsSeq(g) /\ IsSeq(p) => IsStream(Stream(d, g, p, u))
    /\ IsStream(NewStream)
    /\ \A v : IsStream(v) =>
          /\ v.data \in Seq(Int) /\ v.upd \in Int /\ IsSeq(v.grp) /\ IsSeq(v.pend) /\ v.type = "stream"
          /\ \A d : [v EXCEPT !.data = d] = Stream(d, v.grp, v.pend, v.upd)
          /\ \A d, u : [v EXCEPT !.data = d, !.upd = u] = Stream(d, v.grp, v.pend, u)
          /\ \A g : [v EXCEPT !.grp = g] = Stream(v.data, g, v.pend, v.upd)
          /\ \A p : [v EXCEPT !.pend = p] = Stream(v.data, v.grp, p, v.upd)
          /\ \A g, p : [v EXCEPT !.grp = g, !.pend = p] = Stream(v.data, g, p, v.upd)
<1>1. \A d, g, p, u : LET s == Stream(d, g, p, u)
                      IN  s.data = d /\ s.grp = g /\ s.pend = p /\ s.upd = u
  BY DEF Stream
<1>2. \A d \in Seq(Int) : \A u \in Int : \A g, p :
         IsSeq(g) /\ IsSeq(p) => IsStream(Stream(d, g, p, u))
  BY <1>1 DEF IsStream
<1>3. IsStream(NewStream)
  <2>1. <<>> \in Seq(Int) /\ 0 \in Int /\ IsSeq(<<>>)
    BY EmptyIsSeq
  <2> QED BY <1>2, <2>1 DEF NewStream
<1>4. ASSUME NEW v, IsStream(v)
      PROVE  /\ v.data \in Seq(Int) /\ v.upd \in Int /\ IsSeq(v.grp) /\ IsSeq(v.pend)
             /\ v.type = "stream"
             /\ \A d : [v EXCEPT !.data = d] = Stream(d, v.grp, v.pend, v.upd)
             /\ \A d, u : [v EXCEPT !.data = d, !.upd = u] = Stream(d, v.grp, v.pend, u)
             /\ \A g : [v EXCEPT !.grp = g] = Stream(v.data, g, v.pend, v.upd)
             /\ \A p : [v EXCEPT !.pend = p] = Stream(v.data, v.grp, p, v.upd)
             /\ \A g, p : [v EXCEPT !.grp = g, !.pend = p] = Stream(v.data, g, p, v.upd)
  <2>1. v = Stream(v.data, v.grp, v.pend, v.upd)
    BY <1>4 DEF IsStream
  <2>2. v.data \in Seq(Int) /\ v.upd \in Int /\ IsSeq(v.grp) /\ IsSeq(v.pend)
    BY <1>4 DEF IsStream
  <2>3. v.type = "stream" /\ v = [type |-> "stream", data |-> v.data, grp |-> v.grp,
                                  pend |-> v.pend, upd |-> v.upd]
    BY <2>1 DEF Stream
  <2>4. ASSUME NEW d, NEW g, NEW p, NEW u
        PROVE  /\ [v EXCEPT !.data = d] = Stream(d, v.grp, v.pend, v.upd)
               /\ [v EXCEPT !.data = d, !.upd = u] = Stream(d, v.grp, v.pend, u)
               /\ [v EXCEPT !.grp = g] = Stream(v.data, g, v.pend, v.upd)
               /\ [v EXCEPT !.pend = p] = Stream(v.data, v.grp, p, v.upd)
               /\ [v EXCEPT !.grp = g, !.pend = p] = Stream(v.data, g, p, v.upd)
    <3>1. [v EXCEPT !.data = d] = Stream(d, v.grp, v.pend, v.upd)
      BY <2>3 DEF Stream
    <3>2. [v EXCEPT !.data = d, !.upd = u] = Stream(d, v.grp, v.pend, u)
      <4>1. [v EXCEPT !.data = d, !.upd = u] = [[v EXCEPT !.data = d] EXCEPT !.upd = u]
        OBVIOUS
      <4>2. [Stream(d, v.grp, v.pend, v.upd) EXCEPT !.upd = u] = Stream(d, v.grp, v.pend, u)
        BY DEF Stream
      <4> QED BY <3>1, <4>1, <4>2
    <3>3. [v EXCEPT !.grp = g] = Stream(v.data, g, v.pend, v.upd)
      BY <2>3 DEF Stream
    <3>4. [v EXCEPT !.pend = p] = Stream(v.data, v.grp, p, v.upd)
      BY <2>3 DEF Stream
    <3>5. [v EXCEPT !.grp = g, !.pend = p] = Stream(v.data, g, p, v.upd)
      <4>1. [v EXCEPT !.grp = g, !.pend = p] = [[v EXCEPT !.grp = g] EXCEPT !.pend = p]
        OBVIOUS
      <4>2. [Stream(v.data, g, v.pend, v.upd) EXCEPT !.pend = p] = Stream(v.data, g, p, v.upd)
        BY DEF Stream
      <4> QED BY <3>3, <4>1, <4>2
    <3> QED BY <3>1, <3>2, <3>3, <3>4, <3>5
  <2> QED BY <2>2, <2>3, <2>4
<1> QED BY <1>2, <1>3, <1>4

\* A handler that leaves a stream.
LEMMA StreamGood ==
    ASSUME NEW v, NEW w, IsStream(w)
    PROVE  /\ \A st, rep, fl : Outcome(v, Done(w, st, rep, fl))
           /\ \A n, fl : Outcome(v, SendInt(w, n, fl))
           /\ \A st : Outcome(v, Status(w, st))
           /\ \A rep : Outcome(v, Data(w, rep))
<1>1. WellFormed(w) /\ ~Has(w)
  BY Builds
<1>2. \A st, rep, fl : Outcome(v, Done(w, st, rep, fl))
  BY <1>1, GoodQuiet
<1> QED BY <1>1, <1>2, GoodQuiet DEF Data

\* Sequences of elements of a set.
LEMMA SeqOver ==
    ASSUME NEW T, NEW s, IsSeq(s), \A i \in 1..Len(s) : s[i] \in T
    PROVE  s \in Seq(T)
<1>1. Len(s) \in Nat /\ s = [i \in 1..Len(s) |-> s[i]]
  BY SeqFacts
<1>2. s \in [1..Len(s) -> T]
  BY <1>1
<1> QED BY <1>1, <1>2, SeqDef

\* What trimming and a count leave of a sequence.
LEMMA TrimmedSeq ==
    ASSUME NEW T, NEW ids \in Seq(T), NEW n \in Int
    PROVE  Trimmed(ids, n) \in Seq(T) /\ AtMost(ids, n) \in Seq(T)
<1>1. IsSeq(ids) /\ Len(ids) \in Nat /\ \A i \in 1..Len(ids) : ids[i] \in T
  BY SeqIsSeq
<1>2. ASSUME n > 0, Len(ids) > n PROVE SubSeq(ids, Len(ids) - n + 1, Len(ids)) \in Seq(T)
  <2>0. Len(ids) - n + 1 \in Int /\ Len(ids) \in Int
    BY <1>1
  <2> PICK a \in Int, b \in Int : a = Len(ids) - n + 1 /\ b = Len(ids)
    BY <2>0
  <2> PICK s : s = SubSeq(ids, a, b)
    OBVIOUS
  <2>1. /\ IsSeq(s) /\ Len(s) = IF a <= b THEN b - a + 1 ELSE 0
        /\ \A i \in 1..(b - a + 1) : s[i] = ids[a + i - 1]
    BY SubSeqIsSeq
  <2>2. \A i \in 1..Len(s) : a + i - 1 \in 1..Len(ids) /\ s[i] = ids[a + i - 1]
    BY <1>1, <1>2, <2>1
  <2>3. \A i \in 1..Len(s) : s[i] \in T
    BY <1>1, <2>2
  <2> QED BY <2>1, <2>3, SeqOver
<1>3. ASSUME n > 0, Len(ids) > n PROVE SubSeq(ids, 1, n) \in Seq(T)
  <2> PICK s : s = SubSeq(ids, 1, n)
    OBVIOUS
  <2>1. /\ IsSeq(s) /\ Len(s) = IF 1 <= n THEN n - 1 + 1 ELSE 0
        /\ \A i \in 1..(n - 1 + 1) : s[i] = ids[1 + i - 1]
    BY SubSeqIsSeq
  <2>2. \A i \in 1..Len(s) : i \in 1..Len(ids) /\ s[i] = ids[i]
    BY <1>1, <1>3, <2>1
  <2>3. \A i \in 1..Len(s) : s[i] \in T
    BY <1>1, <2>2
  <2> QED BY <2>1, <2>3, SeqOver
<1> QED BY <1>2, <1>3 DEF Trimmed, AtMost

\* A group that is served or made.
LEMMA GroupStream ==
    ASSUME NEW v, IsStream(v), NEW g, NEW id
    PROVE  IsStream(UpdateGroup(v, g, id))
<1> PICK r : r = [name |-> g, last |-> id]
  OBVIOUS
<1> DEFINE e == [i \in DOMAIN v.grp |-> IF v.grp[i].name = g THEN r ELSE v.grp[i]]
           a == Append(v.grp, r)
<1>1. IsSeq(v.grp) /\ Len(v.grp) \in Nat /\ DOMAIN v.grp = 1..Len(v.grp)
  BY StreamParts, SeqFacts
<1>2. UpdateGroup(v, g, id) = [v EXCEPT !.grp = e] \/ UpdateGroup(v, g, id) = [v EXCEPT !.grp = a]
  BY Zenon DEF UpdateGroup
<1>3. IsSeq(e)
  <2>1. e = [i \in 1..Len(v.grp) |-> e[i]]
    BY <1>1
  <2> HIDE DEF e
  <2> QED BY <1>1, <2>1, FunIsSeq
<1>4. IsSeq(a)
  BY <1>1, AppendIsSeq
<1> HIDE DEF e, a
<1>5. v.data \in Seq(Int) /\ v.upd \in Int /\ IsSeq(v.pend)
  BY StreamParts
<1>6. IsStream(Stream(v.data, e, v.pend, v.upd)) /\ IsStream(Stream(v.data, a, v.pend, v.upd))
  BY <1>3, <1>4, <1>5, StreamParts
<1>7. /\ [v EXCEPT !.grp = e] = Stream(v.data, e, v.pend, v.upd)
      /\ [v EXCEPT !.grp = a] = Stream(v.data, a, v.pend, v.upd)
  BY StreamParts
<1> QED BY <1>2, <1>6, <1>7

\* The pending records of a stream can be any.
LEMMA PendStream ==
    ASSUME NEW v, IsStream(v), NEW p, IsSeq(p)
    PROVE  IsStream([v EXCEPT !.pend = p])
<1>1. v.data \in Seq(Int) /\ v.upd \in Int /\ IsSeq(v.grp)
  BY StreamParts
<1>2. IsStream(Stream(v.data, v.grp, p, v.upd))
  BY <1>1, StreamParts
<1> QED BY <1>2, StreamParts

\* XREADGROUP serves a group.
LEMMA ServeStream ==
    ASSUME NEW v, IsStream(v), NEW g, NEW con, NEW t, NEW out, IsSeq(out)
    PROVE  IsStream(Serve(v, g, con, t, out))
<1> DEFINE f == [i \in DOMAIN out |-> Pend(out[i], g, con, t, 1)]
           p == v.pend \o f
<1>1. IsSeq(f)
  <2>1. Len(out) \in Nat /\ DOMAIN out = 1..Len(out)
    BY SeqFacts
  <2>2. f = [i \in 1..Len(out) |-> f[i]]
    BY <2>1
  <2> HIDE DEF f
  <2> QED BY <2>1, <2>2, FunIsSeq
<1>2. IsSeq(v.pend)
  BY StreamParts
<1>3. Serve(v, g, con, t, out) = IF out = <<>> THEN v ELSE UpdateGroup([v EXCEPT !.pend = p], g, Last(out))
  BY Zenon DEF Serve
<1> HIDE DEF f
<1>4. IsSeq(p)
  BY <1>1, <1>2, ConcatIsSeq
<1> HIDE DEF p
<1>5. IsStream([v EXCEPT !.pend = p])
  BY <1>4, PendStream
<1> QED BY <1>3, <1>5, GroupStream

\* XACK of one id
AckOne(g, acc, id) ==
    LET i == Find(acc.v, g, id)
    IN  IF i = 0 THEN acc
        ELSE [v |-> [acc.v EXCEPT !.pend = RemoveAt(@, i)], n |-> acc.n + 1]

AckStep(acc, q) == AckOne(q[1], acc, q[2])
AckFold == INSTANCE FoldTheorems WITH Op <- AckStep

Acked(g, base, ids) == FoldLeft(LAMBDA acc, id : AckOne(g, acc, id), base, ids)

\* h is what is there after each id
AckPath(h, g, base, seq, n) ==
    /\ h[0] = base
    /\ \A i \in 1..n : h[i] = AckOne(g, h[i - 1], seq[i])
    /\ h[n] = Acked(g, base, seq)

\* The ids are acknowledged one after the other.
LEMMA AckSteps ==
    ASSUME NEW g, NEW base, NEW seq, NEW n \in Nat, DOMAIN seq = 1..n
    PROVE  \E h : AckPath(h, g, base, seq, n)
<1> DEFINE sq == [i \in 1..n |-> <<g, seq[i]>>]
           A(f, s) == AckOne(g, f[s \ {Max(s)}], seq[Max(s)])
           B(f, s) == AckStep(f[s \ {Max(s)}], sq[Max(s)])
<1>1. \A s \in SUBSET (1..n) :
         s # {} => \A a : AckOne(g, a, seq[Max(s)]) = AckStep(a, sq[Max(s)])
  BY TopOf DEF AckStep
<1>2. DOMAIN sq = 1..n /\ \A i \in 1..n : \A a : AckStep(a, sq[i]) = AckOne(g, a, seq[i])
  BY DEF AckStep
<1> HIDE DEF sq
<1>3. \A f : [s \in SUBSET (1..n) |-> IF s = {} THEN base ELSE A(f, s)]
             = [s \in SUBSET (1..n) |-> IF s = {} THEN base ELSE B(f, s)]
  BY <1>1
<1>4. (CHOOSE f : f = [s \in SUBSET (1..n) |-> IF s = {} THEN base ELSE A(f, s)])
      = CHOOSE f : f = [s \in SUBSET (1..n) |-> IF s = {} THEN base ELSE B(f, s)]
  BY <1>3, Zenon
<1>5. AckFold!Fold(base, sq)
      = (CHOOSE f : f = [s \in SUBSET (1..n) |-> IF s = {} THEN base ELSE B(f, s)])[1..n]
  BY <1>2, Zenon DEF AckFold!Fold, AckFold!Iter, AckFold!IsIter, AckFold!Top, Max
<1>6. Acked(g, base, seq)
      = (CHOOSE f : f = [s \in SUBSET (1..n) |-> IF s = {} THEN base ELSE A(f, s)])[1..n]
  BY Zenon DEF Acked, FoldLeft, MapThenFoldSet, Max
<1>7. PICK h : /\ h[0] = base
               /\ \A i \in 1..n : h[i] = AckStep(h[i - 1], sq[i])
               /\ h[n] = AckFold!Fold(base, sq)
  BY <1>2, AckFold!FoldSteps
<1>8. AckFold!Fold(base, sq) = Acked(g, base, seq)
  BY <1>4, <1>5, <1>6, Zenon
<1>9. AckPath(h, g, base, seq, n)
  BY <1>2, <1>7, <1>8 DEF AckPath
<1> QED BY <1>9

\* The record of an id is one of the list.
LEMMA FindIn ==
    ASSUME NEW v, IsStream(v), NEW g, NEW id
    PROVE  Find(v, g, id) \in 0..Len(v.pend)
<1> DEFINE at == {i \in DOMAIN v.pend : v.pend[i].grp = g /\ v.pend[i].id = id}
<1>1. Len(v.pend) \in Nat /\ DOMAIN v.pend = 1..Len(v.pend)
  BY StreamParts, SeqFacts
<1>2. at \subseteq 1..Len(v.pend)
  BY <1>1
<1>3. IsFiniteSet(at)
  <2>1. 1 \in Int /\ Len(v.pend) \in Int
    BY <1>1
  <2>2. IsFiniteSet(1..Len(v.pend))
    BY ONLY <2>1, FS_Interval
  <2> QED BY <1>2, <2>2, FS_Subset
<1> HIDE DEF at
<1>4. at # {} => Min(at) \in at
  <2>1. at \subseteq Int
    BY <1>2
  <2> QED BY <1>3, <2>1, FiniteTop
<1>5. Find(v, g, id) = IF at = {} THEN 0 ELSE Min(at)
  BY DEF Find, at
<1> PICK m : m = Min(at)
  OBVIOUS
<1>6. CASE at = {}
  BY <1>1, <1>5, <1>6
<1>7. CASE at # {}
  <2>1. m \in 1..Len(v.pend)
    BY <1>2, <1>4, <1>7
  <2> QED BY <1>1, <1>5, <1>7, <2>1
<1> QED BY <1>6, <1>7

\* XACK leaves a stream.
LEMMA AckedStream ==
    ASSUME NEW v, IsStream(v), NEW g, NEW ids, IsSeq(ids)
    PROVE  IsStream(Acked(g, [v |-> v, n |-> 0], ids).v)
<1> DEFINE n == Len(ids)
           base == [v |-> v, n |-> 0]
<1>1. n \in Nat /\ DOMAIN ids = 1..n
  BY SeqFacts
<1>2. IsStream(base.v)
  OBVIOUS
<1> HIDE DEF n, base
<1>3. PICK h : AckPath(h, g, base, ids, n)
  BY <1>1, AckSteps
<1> DEFINE P == {i \in 0..n : IsStream(h[i].v)}
<1>4. 0 \in P
  BY <1>1, <1>2, <1>3 DEF AckPath
<1>5. \A i \in 1..n : i - 1 \in P => i \in P
  <2> SUFFICES ASSUME NEW i \in 1..n, i - 1 \in P PROVE i \in P
    OBVIOUS
  <2> PICK a : a = h[i - 1]
    OBVIOUS
  <2> PICK k : k = Find(a.v, g, ids[i])
    OBVIOUS
  <2>1. IsStream(a.v) /\ h[i] = AckOne(g, a, ids[i])
    BY <1>3 DEF AckPath
  <2>2. k \in 0..Len(a.v.pend) /\ Len(a.v.pend) \in Nat
    BY <2>1, FindIn, StreamParts, SeqFacts
  <2> PICK p : p = RemoveAt(a.v.pend, k)
    OBVIOUS
  <2>3. IsSeq(p)
    <3>1. 1 \in Int /\ k - 1 \in Int /\ k + 1 \in Int /\ Len(a.v.pend) \in Int
      BY <2>2
    <3>2. IsSeq(SubSeq(a.v.pend, 1, k - 1)) /\ IsSeq(SubSeq(a.v.pend, k + 1, Len(a.v.pend)))
      BY <3>1, SubSeqIsSeq
    <3>3. p = SubSeq(a.v.pend, 1, k - 1) \o SubSeq(a.v.pend, k + 1, Len(a.v.pend))
      BY DEF RemoveAt
    <3> QED BY <3>2, <3>3, ConcatIsSeq
  <2>4. IsStream([a.v EXCEPT !.pend = p])
    BY <2>1, <2>3, PendStream
  <2>5. h[i] = a \/ h[i] = [v |-> [a.v EXCEPT !.pend = p], n |-> a.n + 1]
    BY <2>1, Zenon DEF AckOne
  <2>6. IsStream(h[i].v)
    BY <2>1, <2>4, <2>5
  <2> QED BY <2>6
<1> HIDE DEF P
<1>6. n \in P
  <2>1. n \in Nat
    BY <1>1
  <2>2. \A i \in 0..n : i \in P
    BY ONLY <2>1, <1>4, <1>5, PlusFold!SetInduction
  <2> QED BY <2>1, <2>2
<1> QED BY <1>3, <1>6 DEF P, base, AckPath

\* XCLAIM of one id
ClaimOne(g, con, idle, force, justid, opt, t, acc, id) ==
    LET Old(s, i) == i # 0 /\ t - s.pend[i].ns >= idle
        s == acc.v
        i == Find(s, g, id)
        w == IF Old(s, i)
             THEN [s EXCEPT !.pend[i] = Pend(id, g, con, ClaimTime(opt, t), ClaimCount(opt, justid, @.cnt))]
             ELSE IF i = 0 /\ force /\ id \in ToSet(s.data)
             THEN [s EXCEPT !.pend = Append(@, Pend(id, g, con, t, 1))] ELSE s
    IN  [v |-> w, out |-> IF (Old(s, i) \/ force) /\ id \in ToSet(s.data)
                          THEN Append(acc.out, id) ELSE acc.out]

ClaimStep(acc, q) == ClaimOne(q[1], q[2], q[3], q[4], q[5], q[6], q[7], acc, q[8])
ClaimFold == INSTANCE FoldTheorems WITH Op <- ClaimStep

Claimed(g, con, idle, force, justid, opt, t, base, ids) ==
    FoldLeft(LAMBDA acc, id : ClaimOne(g, con, idle, force, justid, opt, t, acc, id), base, ids)

\* h is what is there after each id
ClaimPath(h, g, con, idle, force, justid, opt, t, base, seq, n) ==
    /\ h[0] = base
    /\ \A i \in 1..n : h[i] = ClaimOne(g, con, idle, force, justid, opt, t, h[i - 1], seq[i])
    /\ h[n] = Claimed(g, con, idle, force, justid, opt, t, base, seq)

\* The ids are claimed one after the other.
LEMMA ClaimSteps ==
    ASSUME NEW g, NEW con, NEW idle, NEW force, NEW justid, NEW opt, NEW t,
           NEW base, NEW seq, NEW n \in Nat, DOMAIN seq = 1..n
    PROVE  \E h : ClaimPath(h, g, con, idle, force, justid, opt, t, base, seq, n)
<1> DEFINE sq == [i \in 1..n |-> <<g, con, idle, force, justid, opt, t, seq[i]>>]
           A(f, s) == ClaimOne(g, con, idle, force, justid, opt, t, f[s \ {Max(s)}], seq[Max(s)])
           B(f, s) == ClaimStep(f[s \ {Max(s)}], sq[Max(s)])
<1>1. \A s \in SUBSET (1..n) :
         s # {} => \A a : ClaimOne(g, con, idle, force, justid, opt, t, a, seq[Max(s)])
                          = ClaimStep(a, sq[Max(s)])
  BY TopOf DEF ClaimStep
<1>2. DOMAIN sq = 1..n
      /\ \A i \in 1..n : \A a : ClaimStep(a, sq[i])
                                = ClaimOne(g, con, idle, force, justid, opt, t, a, seq[i])
  BY DEF ClaimStep
<1> HIDE DEF sq
<1>3. \A f : [s \in SUBSET (1..n) |-> IF s = {} THEN base ELSE A(f, s)]
             = [s \in SUBSET (1..n) |-> IF s = {} THEN base ELSE B(f, s)]
  BY <1>1
<1>4. (CHOOSE f : f = [s \in SUBSET (1..n) |-> IF s = {} THEN base ELSE A(f, s)])
      = CHOOSE f : f = [s \in SUBSET (1..n) |-> IF s = {} THEN base ELSE B(f, s)]
  BY <1>3, Zenon
<1>5. ClaimFold!Fold(base, sq)
      = (CHOOSE f : f = [s \in SUBSET (1..n) |-> IF s = {} THEN base ELSE B(f, s)])[1..n]
  BY <1>2, Zenon DEF ClaimFold!Fold, ClaimFold!Iter, ClaimFold!IsIter, ClaimFold!Top, Max
<1>6. Claimed(g, con, idle, force, justid, opt, t, base, seq)
      = (CHOOSE f : f = [s \in SUBSET (1..n) |-> IF s = {} THEN base ELSE A(f, s)])[1..n]
  BY Zenon DEF Claimed, FoldLeft, MapThenFoldSet, Max
<1>7. PICK h : /\ h[0] = base
               /\ \A i \in 1..n : h[i] = ClaimStep(h[i - 1], sq[i])
               /\ h[n] = ClaimFold!Fold(base, sq)
  BY <1>2, ClaimFold!FoldSteps
<1>8. ClaimFold!Fold(base, sq) = Claimed(g, con, idle, force, justid, opt, t, base, seq)
  BY <1>4, <1>5, <1>6, Zenon
<1>9. ClaimPath(h, g, con, idle, force, justid, opt, t, base, seq, n)
  BY <1>2, <1>7, <1>8 DEF ClaimPath
<1> QED BY <1>9

\* XCLAIM leaves a stream.
LEMMA ClaimedStream ==
    ASSUME NEW v, IsStream(v), NEW g, NEW con, NEW idle, NEW force, NEW justid, NEW opt, NEW t,
           NEW ids, IsSeq(ids)
    PROVE  IsStream(Claimed(g, con, idle, force, justid, opt, t, [v |-> v, out |-> <<>>], ids).v)
<1> DEFINE n == Len(ids)
           base == [v |-> v, out |-> <<>>]
<1>1. n \in Nat /\ DOMAIN ids = 1..n
  BY SeqFacts
<1>2. IsStream(base.v)
  OBVIOUS
<1> HIDE DEF n, base
<1>3. PICK h : ClaimPath(h, g, con, idle, force, justid, opt, t, base, ids, n)
  BY <1>1, ClaimSteps
<1> DEFINE P == {i \in 0..n : IsStream(h[i].v)}
<1>4. 0 \in P
  BY <1>1, <1>2, <1>3 DEF ClaimPath
<1>5. \A i \in 1..n : i - 1 \in P => i \in P
  <2> SUFFICES ASSUME NEW i \in 1..n, i - 1 \in P PROVE i \in P
    OBVIOUS
  <2> PICK a : a = h[i - 1]
    OBVIOUS
  <2> PICK k : k = Find(a.v, g, ids[i])
    OBVIOUS
  <2>1. IsStream(a.v) /\ h[i] = ClaimOne(g, con, idle, force, justid, opt, t, a, ids[i])
    BY <1>3 DEF ClaimPath
  <2> DEFINE rec == Pend(ids[i], g, con, ClaimTime(opt, t), ClaimCount(opt, justid, a.v.pend[k].cnt))
             p == [a.v.pend EXCEPT ![k] = rec]
             q == Append(a.v.pend, Pend(ids[i], g, con, t, 1))
  <2>2. h[i].v \in {a.v, [a.v EXCEPT !.pend = p], [a.v EXCEPT !.pend = q]}
    <3> DEFINE p2 == [a.v EXCEPT !.pend[k] = rec]
    <3>1. p2 = [a.v EXCEPT !.pend = p]
      <4> HIDE DEF rec
      <4> QED OBVIOUS
    <3>2. \E o : \E w \in {a.v, p2, [a.v EXCEPT !.pend = q]} : h[i] = [v |-> w, out |-> o]
      BY <2>1, Zenon DEF ClaimOne
    <3> HIDE DEF p2, p, q
    <3> QED BY <3>1, <3>2
  <2>3. IsSeq(a.v.pend)
    BY <2>1, StreamParts
  <2>4. IsSeq(q)
    BY <2>3, AppendIsSeq
  <2>5. IsSeq(p)
    <3> HIDE DEF rec
    <3> QED BY <2>3, ExceptIsSeq
  <2> HIDE DEF p, q
  <2>6. IsStream([a.v EXCEPT !.pend = p]) /\ IsStream([a.v EXCEPT !.pend = q])
    BY <2>1, <2>4, <2>5, PendStream
  <2>7. IsStream(h[i].v)
    BY <2>1, <2>2, <2>6
  <2> QED BY <2>7
<1> HIDE DEF P
<1>6. n \in P
  <2>1. n \in Nat
    BY <1>1
  <2>2. \A i \in 0..n : i \in P
    BY ONLY <2>1, <1>4, <1>5, PlusFold!SetInduction
  <2> QED BY <2>1, <2>2
<1> QED BY <1>3, <1>6 DEF P, base, ClaimPath

\* What a stream command returns: it leaves the value, an entry without
\* one or a stream, and no new expiry time.
Streams(v, r) == r.exp = Keep /\ (r.v = v \/ r.v = Untyped \/ IsStream(r.v))

\* The handlers of one key of a stream leave a stream, or what was there.
LEMMA StreamsGood ==
    /\ \A v, r : WellFormed(v) /\ Streams(v, r) => Outcome(v, r)
    /\ \A v, w : w = v \/ w = Untyped \/ IsStream(w) =>
          /\ \A st, rep, fl : Streams(v, Done(w, st, rep, fl))
          /\ \A n, fl : Streams(v, SendInt(w, n, fl))
          /\ \A st : Streams(v, Status(w, st))
          /\ \A rep : Streams(v, Data(w, rep))
<1>1. ASSUME NEW v, NEW r, WellFormed(v), Streams(v, r) PROVE Outcome(v, r)
  <2>1. WellFormed(r.v) /\ (Has(r.v) => Has(v))
    BY <1>1, Builds DEF Streams
  <2> QED BY <1>1, <2>1 DEF Streams, Outcome
<1>2. \A w, st, rep, fl : Done(w, st, rep, fl).v = w /\ Done(w, st, rep, fl).exp = Keep
  BY DEF Done
<1>3. \A w, n, fl : SendInt(w, n, fl).v = w /\ SendInt(w, n, fl).exp = Keep
  BY DEF Done, SendInt
<1> QED BY <1>1, <1>2, <1>3 DEF Streams, Status, Data

\* The commands that add and take entries.
LEMMA XWriteGood ==
    ASSUME NEW v, WellFormed(v)
    PROVE  /\ \A t \in Nat : \A id, max \in Int : Streams(v, XAdd(v, t, id, max))
           /\ \A max \in Int : Streams(v, XTrim(v, max))
           /\ \A gone : Streams(v, XDel(v, gone))
<1>1. v.type = "stream" <=> IsStream(v)
  BY Forms
<1>2. ASSUME NEW t \in Nat, NEW id \in Int, NEW max \in Int
      PROVE  Streams(v, XAdd(v, t, id, max))
  <2> PICK s : s = IF IsNew(v) THEN NewStream ELSE v
    OBVIOUS
  <2> PICK new : new = IF id = 0 THEN NextId(s, t) ELSE id
    OBVIOUS
  <2> DEFINE d == Trimmed(Append(s.data, new), max)
             u == IF id = 0 THEN new ELSE s.upd
             w == [s EXCEPT !.data = d, !.upd = u]
  <2> PICK r : r = XAdd(v, t, id, max)
    OBVIOUS
  <2>1. \/ \E st : r = Status(v, st) \/ r = Status(Untyped, st)
        \/ /\ v.type \in {"none", "nodata", "stream"}
           /\ r = Done(w, "ok", <<new>>, StreamFlags \cup {"strmblkd"})
    BY Zenon DEF XAdd
  <2>2. ASSUME v.type \in {"none", "nodata", "stream"} PROVE IsStream(w)
    <3>1. IsStream(s)
      BY <1>1, <2>2, StreamParts DEF IsNew
    <3>2. s.data \in Seq(Int) /\ s.upd \in Int /\ IsSeq(s.grp) /\ IsSeq(s.pend)
      BY <3>1, StreamParts
    <3>3. NextId(s, t) \in Int
      <4>1. SubMs \in Int
        BY DEF SubMs
      <4> HIDE DEF SubMs
      <4> QED BY <3>2, <4>1 DEF NextId
    <3>4. new \in Int /\ u \in Int
      BY <3>2, <3>3
    <3>5. Append(s.data, new) \in Seq(Int)
      BY <3>2, <3>4
    <3>6. d \in Seq(Int)
      BY <3>5, TrimmedSeq
    <3>7. w = Stream(d, s.grp, s.pend, u)
      <4> HIDE DEF d, u
      <4>1. [s EXCEPT !.data = d, !.upd = u] = [[s EXCEPT !.data = d] EXCEPT !.upd = u]
        OBVIOUS
      <4>2. [s EXCEPT !.data = d] = Stream(d, s.grp, s.pend, s.upd)
        BY <3>1, StreamParts
      <4>3. [Stream(d, s.grp, s.pend, s.upd) EXCEPT !.upd = u] = Stream(d, s.grp, s.pend, u)
        BY DEF Stream
      <4> QED BY <4>1, <4>2, <4>3
    <3> HIDE DEF d, u, w
    <3> QED BY <3>2, <3>4, <3>6, <3>7, StreamParts
  <2> HIDE DEF w
  <2> QED BY <2>1, <2>2, StreamsGood
<1>3. ASSUME NEW max \in Int PROVE Streams(v, XTrim(v, max))
  <2> DEFINE d == Trimmed(v.data, max)
             w == [v EXCEPT !.data = d]
  <2>1. \/ \E st : XTrim(v, max) = Status(v, st)
        \/ \E n, fl : XTrim(v, max) = SendInt(v, n, fl)
        \/ v.type = "stream" /\ \E n, fl : XTrim(v, max) = SendInt(w, n, fl)
    BY Zenon DEF XTrim, StreamRead
  <2>2. ASSUME v.type = "stream" PROVE IsStream(w)
    <3>1. v.data \in Seq(Int) /\ v.upd \in Int /\ IsSeq(v.grp) /\ IsSeq(v.pend)
      BY <1>1, <2>2, StreamParts
    <3>2. d \in Seq(Int)
      BY <3>1, TrimmedSeq
    <3>3. w = Stream(d, v.grp, v.pend, v.upd)
      <4> HIDE DEF d
      <4> QED BY <1>1, <2>2, StreamParts
    <3> HIDE DEF d, w
    <3> QED BY <3>1, <3>2, <3>3, StreamParts
  <2> HIDE DEF w
  <2> QED BY <2>1, <2>2, StreamsGood
<1>4. ASSUME NEW gone PROVE Streams(v, XDel(v, gone))
  <2> DEFINE d == Select(v.data, LAMBDA id : id \notin ToSet(gone))
             w == [v EXCEPT !.data = d]
  <2>1. \/ \E st : XDel(v, gone) = Status(v, st)
        \/ v.type = "stream" /\ \E n, fl : XDel(v, gone) = SendInt(w, n, fl)
    BY Zenon DEF XDel, StreamRead
  <2>2. ASSUME v.type = "stream" PROVE IsStream(w)
    <3>1. v.data \in Seq(Int) /\ v.upd \in Int /\ IsSeq(v.grp) /\ IsSeq(v.pend)
      BY <1>1, <2>2, StreamParts
    <3>2. d \in Seq(Int)
      <4> PICK S : S = {id \in ToSet(v.data) : id \notin ToSet(gone)}
        OBVIOUS
      <4>1. d = Only(v.data, S)
        BY DEF Select
      <4>2. IsSeq(v.data) /\ ToSet(v.data) \subseteq Int
        BY <3>1, SeqIsSeq
      <4> HIDE DEF d
      <4>3. d \in Seq(ToSet(v.data))
        BY <4>1, <4>2, OnlyIsSeq
      <4> QED BY <4>2, <4>3, SeqMonotonic
    <3>3. w = Stream(d, v.grp, v.pend, v.upd)
      <4> HIDE DEF d
      <4> QED BY <1>1, <2>2, StreamParts
    <3> HIDE DEF d, w
    <3> QED BY <3>1, <3>2, <3>3, StreamParts
  <2> HIDE DEF w
  <2> QED BY <2>1, <2>2, StreamsGood
<1> QED BY <1>2, <1>3, <1>4

\* The commands that read leave what is there.
LEMMA XReadsGood ==
    ASSUME NEW v, WellFormed(v)
    PROVE  /\ Streams(v, XLen(v))
           /\ \A rev, start, end, cnt : Streams(v, XRange(v, rev, start, end, cnt))
           /\ \A id, cnt : Streams(v, XRead(v, id, cnt))
           /\ \A g : Streams(v, XPending(v, g))
           /\ \A g, start, end, cnt, con, t : Streams(v, XPendingList(v, g, start, end, cnt, con, t))
           /\ \A g, t : Streams(v, XInfoConsumers(v, g, t))
           /\ Streams(v, XInfoGroups(v)) /\ Streams(v, XInfoStream(v))
<1>1. ASSUME NEW r, \/ \E st : r = Status(v, st)
                    \/ \E y : r = Data(v, y)
                    \/ \E n : r = SendInt(v, n, {})
      PROVE  Streams(v, r)
  BY <1>1, StreamsGood
<1>2. Streams(v, XLen(v))
  <2>1. (\E st : XLen(v) = Status(v, st)) \/ \E n : XLen(v) = SendInt(v, n, {})
    BY Zenon DEF XLen, StreamRead
  <2> QED BY <1>1, <2>1
<1>3. ASSUME NEW rev, NEW start, NEW end, NEW cnt
      PROVE  Streams(v, XRange(v, rev, start, end, cnt))
  <2>1. \/ \E st : XRange(v, rev, start, end, cnt) = Status(v, st)
        \/ \E y : XRange(v, rev, start, end, cnt) = Data(v, y)
    BY Zenon DEF XRange, StreamRead
  <2> QED BY <1>1, <2>1
<1>4. ASSUME NEW id, NEW cnt PROVE Streams(v, XRead(v, id, cnt))
  <2>1. (\E st : XRead(v, id, cnt) = Status(v, st)) \/ \E y : XRead(v, id, cnt) = Data(v, y)
    BY Zenon DEF XRead, StreamRead
  <2> QED BY <1>1, <2>1
<1>5. ASSUME NEW g PROVE Streams(v, XPending(v, g))
  <2>1. (\E st : XPending(v, g) = Status(v, st)) \/ \E y : XPending(v, g) = Data(v, y)
    BY Zenon DEF XPending, StreamRead
  <2> QED BY <1>1, <2>1
<1>6. ASSUME NEW g, NEW start, NEW end, NEW cnt, NEW con, NEW t
      PROVE  Streams(v, XPendingList(v, g, start, end, cnt, con, t))
  <2>1. \/ \E st : XPendingList(v, g, start, end, cnt, con, t) = Status(v, st)
        \/ \E y : XPendingList(v, g, start, end, cnt, con, t) = Data(v, y)
    BY Zenon DEF XPendingList, StreamRead
  <2> QED BY <1>1, <2>1
<1>7. ASSUME NEW g, NEW t PROVE Streams(v, XInfoConsumers(v, g, t))
  <2>1. \/ \E st : XInfoConsumers(v, g, t) = Status(v, st)
        \/ \E y : XInfoConsumers(v, g, t) = Data(v, y)
    BY Zenon DEF XInfoConsumers, StreamRead
  <2> QED BY <1>1, <2>1
<1>8. Streams(v, XInfoGroups(v))
  <2>1. (\E st : XInfoGroups(v) = Status(v, st)) \/ \E y : XInfoGroups(v) = Data(v, y)
    BY Zenon DEF XInfoGroups, StreamRead
  <2> QED BY <1>1, <2>1
<1>9. Streams(v, XInfoStream(v))
  <2>1. (\E st : XInfoStream(v) = Status(v, st)) \/ \E y : XInfoStream(v) = Data(v, y)
    BY Zenon DEF XInfoStream, StreamRead
  <2> QED BY <1>1, <2>1
<1> QED BY <1>2, <1>3, <1>4, <1>5, <1>6, <1>7, <1>8, <1>9

\* The commands on groups.
LEMMA XGroupGood ==
    ASSUME NEW v, WellFormed(v), NEW g
    PROVE  /\ \A id : Streams(v, XSetId(v, g, id)) /\ Streams(v, XGroupSetId(v, g, id))
           /\ \A id, mkstream : Streams(v, XGroupCreate(v, g, id, mkstream))
           /\ Streams(v, XGroupDestroy(v, g))
           /\ \A con : Streams(v, XGroupDelConsumer(v, g, con))
<1>1. v.type = "stream" <=> IsStream(v)
  BY Forms
<1>2. ASSUME NEW id PROVE Streams(v, XSetId(v, g, id))
  <2> PICK w : w = UpdateGroup(v, g, GroupId(v, id))
    OBVIOUS
  <2>1. \/ \E st : XSetId(v, g, id) = Status(v, st)
        \/ v.type = "stream" /\ XSetId(v, g, id) = Done(w, "send_ok", <<>>, StreamFlags)
    BY Zenon DEF XSetId
  <2>2. v.type = "stream" => IsStream(w)
    BY <1>1, GroupStream
  <2> QED BY <2>1, <2>2, StreamsGood
<1>3. ASSUME NEW id PROVE Streams(v, XGroupSetId(v, g, id))
  <2>1. \/ \E st : XGroupSetId(v, g, id) = Status(v, st)
        \/ XGroupSetId(v, g, id) = XSetId(v, g, id)
    BY Zenon DEF XGroupSetId
  <2> QED BY <1>2, <2>1, StreamsGood
<1>4. ASSUME NEW id, NEW mkstream PROVE Streams(v, XGroupCreate(v, g, id, mkstream))
  <2> PICK s : s = IF IsNew(v) THEN NewStream ELSE v
    OBVIOUS
  <2> PICK w : w = UpdateGroup(s, g, GroupId(s, id))
    OBVIOUS
  <2>1. \/ \E st : XGroupCreate(v, g, id, mkstream) = Status(v, st)
        \/ \E st : XGroupCreate(v, g, id, mkstream) = Status(Untyped, st)
        \/ /\ s.type = "stream"
           /\ XGroupCreate(v, g, id, mkstream) = Done(w, "send_ok", <<>>, StreamFlags)
    BY Zenon DEF XGroupCreate
  <2>2. ASSUME s.type = "stream" PROVE IsStream(w)
    <3>1. IsStream(s)
      BY <1>1, <2>2, StreamParts DEF IsNew
    <3> QED BY <3>1, GroupStream
  <2> QED BY <2>1, <2>2, StreamsGood
<1>5. Streams(v, XGroupDestroy(v, g))
  <2> DEFINE gs == Select(v.grp, LAMBDA r : r.name # g)
             ps == Select(v.pend, LAMBDA p : p.grp # g)
             w  == [v EXCEPT !.grp = gs, !.pend = ps]
  <2>1. \/ \E st : XGroupDestroy(v, g) = Status(v, st)
        \/ \E n, fl : XGroupDestroy(v, g) = SendInt(v, n, fl)
        \/ v.type = "stream" /\ \E n, fl : XGroupDestroy(v, g) = SendInt(w, n, fl)
    BY Zenon DEF XGroupDestroy
  <2>2. ASSUME v.type = "stream" PROVE IsStream(w)
    <3>1. v.data \in Seq(Int) /\ v.upd \in Int /\ IsSeq(v.grp) /\ IsSeq(v.pend)
      BY <1>1, <2>2, StreamParts
    <3>2. IsSeq(gs) /\ IsSeq(ps)
      <4> PICK A, B : A = {r \in ToSet(v.grp) : r.name # g} /\ B = {p \in ToSet(v.pend) : p.grp # g}
        OBVIOUS
      <4>1. gs = Only(v.grp, A) /\ ps = Only(v.pend, B)
        BY DEF Select
      <4> HIDE DEF gs, ps
      <4>2. gs \in Seq(ToSet(v.grp)) /\ ps \in Seq(ToSet(v.pend))
        BY <3>1, <4>1, OnlyIsSeq
      <4> QED BY <4>2, SeqIsSeq
    <3>3. w = Stream(v.data, gs, ps, v.upd)
      <4> HIDE DEF gs, ps
      <4>1. w = [[v EXCEPT !.grp = gs] EXCEPT !.pend = ps]
        OBVIOUS
      <4>2. [v EXCEPT !.grp = gs] = Stream(v.data, gs, v.pend, v.upd)
        BY <1>1, <2>2, StreamParts
      <4>3. [Stream(v.data, gs, v.pend, v.upd) EXCEPT !.pend = ps] = Stream(v.data, gs, ps, v.upd)
        BY DEF Stream
      <4> QED BY <4>1, <4>2, <4>3
    <3> HIDE DEF gs, ps, w
    <3> QED BY <3>1, <3>2, <3>3, StreamParts
  <2> HIDE DEF w
  <2> QED BY <2>1, <2>2, StreamsGood
<1>6. ASSUME NEW con PROVE Streams(v, XGroupDelConsumer(v, g, con))
  <2> DEFINE ps == Select(v.pend, LAMBDA p : p.grp # g \/ p.con # con)
             w  == [v EXCEPT !.pend = ps]
  <2>1. \/ \E st : XGroupDelConsumer(v, g, con) = Status(v, st)
        \/ v.type = "stream" /\ \E n, fl : XGroupDelConsumer(v, g, con) = SendInt(w, n, fl)
    BY Zenon DEF XGroupDelConsumer
  <2>2. ASSUME v.type = "stream" PROVE IsStream(w)
    <3>1. IsSeq(v.pend)
      BY <1>1, <2>2, StreamParts
    <3>2. IsSeq(ps)
      <4> PICK B : B = {p \in ToSet(v.pend) : p.grp # g \/ p.con # con}
        OBVIOUS
      <4>1. ps = Only(v.pend, B)
        BY DEF Select
      <4> HIDE DEF ps
      <4>2. ps \in Seq(ToSet(v.pend))
        BY <3>1, <4>1, OnlyIsSeq
      <4> QED BY <4>2, SeqIsSeq
    <3> HIDE DEF ps
    <3> QED BY <1>1, <2>2, <3>2, PendStream
  <2> HIDE DEF w
  <2> QED BY <2>1, <2>2, StreamsGood
<1> QED BY <1>2, <1>3, <1>4, <1>5, <1>6

\* The commands that serve, acknowledge and claim.
LEMMA XServeGood ==
    ASSUME NEW v, WellFormed(v), NEW g
    PROVE  /\ \A con, id, t : \A cnt \in Int : Streams(v, XReadGroup(v, g, con, id, cnt, t))
           /\ \A ids : IsSeq(ids) => Streams(v, XAck(v, g, ids))
           /\ \A con, idle, ids, force, justid, opt, t : IsSeq(ids) =>
                 Streams(v, XClaim(v, g, con, idle, ids, force, justid, opt, t))
<1>1. v.type = "stream" <=> IsStream(v)
  BY Forms
<1>2. ASSUME NEW con, NEW id, NEW t, NEW cnt \in Int
      PROVE  Streams(v, XReadGroup(v, g, con, id, cnt, t))
  <2> DEFINE all == Select(v.data, LAMBDA e : e > LastOf(v, g))
             out == AtMost(all, cnt)
  <2> PICK w : w = Serve(v, g, con, t, out)
    OBVIOUS
  <2>1. \/ \E st : XReadGroup(v, g, con, id, cnt, t) = Status(v, st)
        \/ \E y : XReadGroup(v, g, con, id, cnt, t) = Data(v, y)
        \/ v.type = "stream" /\ XReadGroup(v, g, con, id, cnt, t) = Data(w, out)
    BY Zenon DEF XReadGroup
  <2>2. ASSUME v.type = "stream" PROVE IsStream(w)
    <3>1. IsSeq(v.data)
      BY <1>1, <2>2, StreamParts, SeqIsSeq
    <3>2. IsSeq(out)
      <4> PICK A : A = {e \in ToSet(v.data) : e > LastOf(v, g)}
        OBVIOUS
      <4>1. all = Only(v.data, A)
        BY DEF Select
      <4> HIDE DEF all
      <4>2. all \in Seq(ToSet(v.data))
        BY <3>1, <4>1, OnlyIsSeq
      <4>3. out \in Seq(ToSet(v.data))
        BY <4>2, TrimmedSeq
      <4> QED BY <4>3, SeqIsSeq
    <3> HIDE DEF out
    <3> QED BY <1>1, <2>2, <3>2, ServeStream
  <2> HIDE DEF out
  <2> QED BY <2>1, <2>2, StreamsGood
<1>3. ASSUME NEW ids, IsSeq(ids) PROVE Streams(v, XAck(v, g, ids))
  <2> PICK q : q = Acked(g, [v |-> v, n |-> 0], ids)
    OBVIOUS
  <2>1. \/ \E st : XAck(v, g, ids) = Status(v, st)
        \/ XAck(v, g, ids) = SendInt(v, 0, {})
        \/ v.type = "stream" /\ XAck(v, g, ids) = SendInt(q.v, q.n, {})
    BY Zenon DEF XAck, Acked, AckOne
  <2>2. v.type = "stream" => IsStream(q.v)
    BY <1>1, <1>3, AckedStream
  <2> QED BY <2>1, <2>2, StreamsGood
<1>4. ASSUME NEW con, NEW idle, NEW ids, NEW force, NEW justid, NEW opt, NEW t, IsSeq(ids)
      PROVE  Streams(v, XClaim(v, g, con, idle, ids, force, justid, opt, t))
  <2> PICK q : q = Claimed(g, con, idle, force, justid, opt, t, [v |-> v, out |-> <<>>], ids)
    OBVIOUS
  <2>1. \/ \E st : XClaim(v, g, con, idle, ids, force, justid, opt, t) = Status(v, st)
        \/ /\ v.type = "stream"
           /\ \/ \E st : XClaim(v, g, con, idle, ids, force, justid, opt, t) = Status(q.v, st)
              \/ XClaim(v, g, con, idle, ids, force, justid, opt, t) = Data(q.v, q.out)
    BY Zenon DEF XClaim, Claimed, ClaimOne
  <2>2. v.type = "stream" => IsStream(q.v)
    BY <1>1, <1>4, ClaimedStream
  <2> QED BY <2>1, <2>2, StreamsGood
<1> QED BY <1>2, <1>3, <1>4

\* XREAD and XREADGROUP finish with the answer of the key, or a status.
LEMMA FinishGood ==
    ASSUME NEW v, NEW r, Streams(v, r), {"v", "exp", "st"} \subseteq DOMAIN r,
           NEW keys, NEW last, NEW parts, NEW block
    PROVE  Streams(v, FinishXRead(r, keys, last, parts, block))
<1>1. \A st : [r EXCEPT !.st = st].v = r.v /\ [r EXCEPT !.st = st].exp = r.exp
  OBVIOUS
<1>2. \/ FinishXRead(r, keys, last, parts, block) = r
      \/ \E st : FinishXRead(r, keys, last, parts, block) = [r EXCEPT !.st = st]
  BY Zenon DEF FinishXRead
<1> QED BY <1>1, <1>2 DEF Streams

\* What a handler returns has a value, an expiry time and a status.
LEMMA XReadFields ==
    /\ \A v, id, cnt : {"v", "exp", "st"} \subseteq DOMAIN XRead(v, id, cnt)
    /\ \A v, g, con, id, cnt, t : {"v", "exp", "st"} \subseteq DOMAIN XReadGroup(v, g, con, id, cnt, t)
<1>1. \A w, st, rep : /\ {"v", "exp", "st"} \subseteq DOMAIN Status(w, st)
                      /\ {"v", "exp", "st"} \subseteq DOMAIN Data(w, rep)
  BY DEF Status, Data, Done
<1>2. ASSUME NEW v, NEW id, NEW cnt PROVE {"v", "exp", "st"} \subseteq DOMAIN XRead(v, id, cnt)
  <2>1. (\E st : XRead(v, id, cnt) = Status(v, st)) \/ \E y : XRead(v, id, cnt) = Data(v, y)
    BY Zenon DEF XRead, StreamRead
  <2> QED BY <1>1, <2>1
<1>3. ASSUME NEW v, NEW g, NEW con, NEW id, NEW cnt, NEW t
      PROVE  {"v", "exp", "st"} \subseteq DOMAIN XReadGroup(v, g, con, id, cnt, t)
  <2>1. \/ \E st : XReadGroup(v, g, con, id, cnt, t) = Status(v, st)
        \/ \E w, y : XReadGroup(v, g, con, id, cnt, t) = Data(w, y)
    BY Zenon DEF XReadGroup
  <2> QED BY <1>1, <2>1
<1> QED BY <1>2, <1>3

\* Every stream command.
LEMMA StreamCmdGood ==
    ASSUME NEW c, c.catg = "stream", IsCall(c), NEW i \in DOMAIN c.keys, NEW x,
           WellFormed(x.v), x.now \in Nat
    PROVE  Outcome(x.v, StreamCmd(c, i, x))
<1> PICK v : v = x.v
  OBVIOUS
<1> PICK r : r = StreamCmd(c, i, x)
  OBVIOUS
<1>1. c.cmd \in {"xadd", "xtrim", "xdel", "xlen", "xrange", "xread", "xreadgroup", "xsetid",
                 "xgroup", "xack", "xclaim", "xpending", "xpendinglist", "xinfo"}
  BY DEF IsCall, Commands
<1>2. IsArgs(c)
  BY DEF IsCall
<1>3. CASE c.cmd \in {"xadd", "xtrim", "xdel"}
  <2>1. r \in {XAdd(v, x.now, c.id, c.max), XTrim(v, c.max), XDel(v, c.ids)}
        /\ (c.cmd = "xadd" => r = XAdd(v, x.now, c.id, c.max))
        /\ (c.cmd = "xtrim" => r = XTrim(v, c.max))
        /\ (c.cmd = "xdel" => r = XDel(v, c.ids))
    BY <1>3 DEF StreamCmd
  <2>2. (c.cmd = "xadd" => c.id \in Int /\ c.max \in Int) /\ (c.cmd = "xtrim" => c.max \in Int)
    BY <1>2 DEF IsArgs
  <2>3. Streams(v, r)
    BY <1>3, <2>1, <2>2, XWriteGood
  <2> QED BY <2>3, StreamsGood
<1>4. CASE c.cmd \in {"xlen", "xrange", "xpending", "xpendinglist"}
  <2>1. r \in {XLen(v), XRange(v, c.rev, c.from, c.to, c.cnt), XPending(v, c.g),
               XPendingList(v, c.g, c.from, c.to, c.cnt, c.con, x.now)}
    BY <1>4 DEF StreamCmd
  <2>2. Streams(v, r)
    BY <2>1, XReadsGood
  <2> QED BY <2>2, StreamsGood
<1>5. CASE c.cmd = "xinfo"
  <2>1. c.sub \in {"consumers", "groups", "stream"}
    BY <1>2, <1>5 DEF IsArgs
  <2>2. r \in {XInfoConsumers(v, c.g, x.now), XInfoGroups(v), XInfoStream(v)}
    BY <1>5, <2>1 DEF StreamCmd
  <2>3. Streams(v, r)
    BY <2>2, XReadsGood
  <2> QED BY <2>3, StreamsGood
<1>6. CASE c.cmd = "xread"
  <2> PICK q : q = XRead(v, c.ids[i], c.cnt)
    OBVIOUS
  <2>1. r = FinishXRead(q, Len(c.keys), LastKey(c, x), x.part, c.block)
    BY <1>6, Zenon DEF StreamCmd
  <2>2. Streams(v, q) /\ {"v", "exp", "st"} \subseteq DOMAIN q
    BY XReadsGood, XReadFields
  <2>3. Streams(v, r)
    BY <2>1, <2>2, FinishGood
  <2> QED BY <2>3, StreamsGood
<1>7. CASE c.cmd = "xreadgroup"
  <2> PICK q : q = XReadGroup(v, c.g, c.con, c.ids[i], c.cnt, x.now)
    OBVIOUS
  <2>1. r = FinishXRead(q, Len(c.keys), LastKey(c, x), x.part, c.block)
    BY <1>7, Zenon DEF StreamCmd
  <2>2. Streams(v, q) /\ {"v", "exp", "st"} \subseteq DOMAIN q
    <3>1. c.cnt \in Int
      BY <1>2, <1>7 DEF IsArgs
    <3> QED BY <3>1, XServeGood, XReadFields
  <2>3. Streams(v, r)
    BY <2>1, <2>2, FinishGood
  <2> QED BY <2>3, StreamsGood
<1>8. CASE c.cmd = "xsetid"
  <2>1. r = XSetId(v, c.g, c.id)
    BY <1>8, Zenon DEF StreamCmd
  <2> QED BY <2>1, XGroupGood, StreamsGood
<1>9. CASE c.cmd = "xgroup"
  <2>1. c.sub \in {"create", "setid", "destroy", "delconsumer"}
    BY <1>2, <1>9 DEF IsArgs
  <2>2. r \in {XGroupCreate(v, c.g, c.id, c.mkstream), XGroupSetId(v, c.g, c.id),
               XGroupDestroy(v, c.g), XGroupDelConsumer(v, c.g, c.con)}
    BY <1>9, <2>1 DEF StreamCmd
  <2>3. Streams(v, r)
    BY <2>2, XGroupGood
  <2> QED BY <2>3, StreamsGood
<1>10. CASE c.cmd \in {"xack", "xclaim"}
  <2>1. r \in {XAck(v, c.g, c.ids),
               XClaim(v, c.g, c.con, c.idle, c.ids, c.force, c.justid, c.opt, x.now)}
    BY <1>10 DEF StreamCmd
  <2>2. IsSeq(c.ids)
    BY <1>2, <1>10 DEF IsArgs
  <2>3. Streams(v, r)
    BY <2>1, <2>2, XServeGood
  <2> QED BY <2>3, StreamsGood
<1> QED BY <1>1, <1>3, <1>4, <1>5, <1>6, <1>7, <1>8, <1>9, <1>10

-----------------------------------------------------------------------------
(* All commands *)

\* The times a stream is stamped with.
LEMMA StampsInt ==
    ASSUME NEW x, x.now \in Nat
    PROVE  Stamps(x) \subseteq Int
<1>1. SubMs \in Int
  BY DEF SubMs
<1> HIDE DEF SubMs
<1> QED BY <1>1 DEF Stamps

\* The commands of each category, and the one that tells no one.
LEMMA Categories ==
    ASSUME NEW c, IsCall(c)
    PROVE  /\ c.catg \in {"list", "hash", "set", "zset", "string", "key", "stream", "geo",
                          "hyperloglog"}
           /\ c.cmd = "sstore" => c.catg = "set"
           /\ c.cmd = "zstore" => c.catg = "zset"
           /\ c.cmd = "bitop" => c.catg = "string"
           /\ c.cmd = "pfmerge" => c.catg = "hyperloglog"
           /\ c.cmd = "rename" => c.catg = "key"
           /\ c.cmd = "georadius" => c.catg = "geo"
           /\ c.cmd = "zadd" => c.catg = "zset"
<1>1. c.catg \in {"list", "hash", "set", "zset", "string", "key", "stream", "geo", "hyperloglog"}
  BY DEF IsCall, Commands
<1>2. c.cmd \in Commands[c.catg]
  BY DEF IsCall
<1>3. /\ c.cmd = "sstore" => c.catg = "set"
      /\ c.cmd = "zstore" => c.catg = "zset"
      /\ c.cmd = "bitop" => c.catg = "string"
  BY <1>1, <1>2 DEF Commands
<1>4. /\ c.cmd = "pfmerge" => c.catg = "hyperloglog"
      /\ c.cmd = "rename" => c.catg = "key"
      /\ c.cmd = "georadius" => c.catg = "geo"
      /\ c.cmd = "zadd" => c.catg = "zset"
  BY <1>1, <1>2 DEF Commands
<1> QED BY <1>1, <1>3, <1>4

\* Whatever the command, what is stored is well formed and who waits is told.
LEMMA HandleGood ==
    ASSUME NEW c, IsCall(c), NEW i \in DOMAIN c.keys, NEW x, IsEntry(x.e), x.v = x.e.v,
           x.now \in Nat, Gathered(c, i, x), NEW r \in Handle(c, i, x)
    PROVE  Sound(r) /\ (~Quiet(c) => Outcome(x.v, r))
<1>0. ~Unread(c, x.v)
  BY Zenon DEF Handle
<1>1. WellFormed(x.v)
  BY DEF IsEntry
<1>2. Outcome(x.v, r) => Sound(r)
  BY DEF Outcome, Sound
<1>3. CASE c.catg = "list"
  <2>1. r = ListCmd(c, i, x)
    BY <1>0, <1>3, Zenon DEF Handle
  <2> QED BY <1>1, <1>2, <1>3, <2>1, ListCmdGood
<1>4. CASE c.catg = "hash"
  <2>1. r = HashCmd(c, i, x)
    BY <1>0, <1>4, Zenon DEF Handle
  <2> QED BY <1>1, <1>2, <1>4, <2>1, HashCmdGood
<1>5. CASE c.catg = "set"
  <2>1. r \in SetCmd(c, i, x)
    BY <1>0, <1>5, Zenon DEF Handle
  <2> QED BY <1>1, <1>2, <1>5, <2>1, SetCmdGood
<1>6. CASE c.catg = "zset"
  <2>1. r \in ZSetCmd(c, i, x)
    BY <1>0, <1>6, Zenon DEF Handle
  <2> QED BY <1>1, <1>6, <2>1, ZSetCmdGood
<1>7. CASE c.catg = "string"
  <2>1. r \in StringCmd(c, i, x)
    BY <1>0, <1>7, Zenon DEF Handle
  <2> QED BY <1>1, <1>2, <1>7, <2>1, StringCmdGood
<1>8. CASE c.catg = "key"
  <2>1. PICK stamp \in Stamps(x) : r = KeyCmd(c, i, x, stamp)
    BY <1>0, <1>8, Zenon DEF Handle
  <2>2. stamp \in Int
    BY StampsInt
  <2> QED BY <1>8, <2>1, <2>2, KeyCmdGood
<1>9. CASE c.catg = "stream"
  <2>1. r = StreamCmd(c, i, x)
    BY <1>0, <1>9, Zenon DEF Handle
  <2> QED BY <1>1, <1>2, <1>9, <2>1, StreamCmdGood
<1>10. CASE c.catg = "geo"
  <2>1. r = GeoCmd(c, i, x)
    BY <1>0, <1>10, Zenon DEF Handle
  <2> QED BY <1>1, <1>2, <1>10, <2>1, GeoCmdGood
<1>11. CASE c.catg = "hyperloglog"
  <2>1. r = HllCmd(c, i, x)
    BY <1>0, <1>11, Zenon DEF Handle
  <2> QED BY <1>1, <1>2, <1>11, <2>1, HllCmdGood
<1> QED BY <1>3, <1>4, <1>5, <1>6, <1>7, <1>8, <1>9, <1>10, <1>11, Categories

-----------------------------------------------------------------------------
(* The loop over the keys, whichever of them still has to run *)

\* a command of n keys, one of which still has to run
OnKeys(x, n) ==
    /\ n \in Nat \ {0}
    /\ DOMAIN x = SessFields
    /\ x.i \in 1..n
    /\ DOMAIN x.st = 1..n /\ Len(x.st) = n /\ DOMAIN x.ival = 1..n
    /\ x.dep \in [1..n -> Nat]
    /\ x.part = [j \in 1..n |-> x.part[j]]
    /\ \E j \in 1..n : x.st[j] \in Pending
    /\ \A j \in 1..n : NextKey(x.st[j])

\* A number below n and once more around is the number.
LEMMA Around ==
    ASSUME NEW n \in Nat \ {0}, NEW a \in 0..(n - 1)
    PROVE  a % n = a /\ (a + n) % n = a
<1>1. a % n = a
  OBVIOUS
<1>2. (a + n) % n = a
  <2> PICK b \in Nat : b = a + n
    OBVIOUS
  <2> PICK r : r = b % n
    OBVIOUS
  <2> PICK q : q = b \div n
    OBVIOUS
  <2>1. r \in 0..(n - 1) /\ q \in Int /\ b = n * q + r
    OBVIOUS
  <2>2. n * q = n + (a - r) /\ a - r < n /\ a - r > 0 - n
    BY <2>1
  <2>3. CASE q <= 0
    <3>1. n * q <= 0
      BY <2>1, <2>3
    <3> QED BY <2>1, <2>2, <3>1
  <2>4. CASE q >= 2
    <3>1. n * q >= n * 2
      BY <2>1, <2>4
    <3> QED BY <2>1, <2>2, <3>1
  <2>5. CASE q = 1
    BY <2>1, <2>2, <2>5
  <2> QED BY <2>1, <2>3, <2>4, <2>5
<1> QED BY <1>1, <1>2

\* A remainder is below what is divided by.
LEMMA ModIn ==
    ASSUME NEW n \in Nat \ {0}, NEW b \in Int
    PROVE  b % n \in 0..(n - 1)
OBVIOUS

\* exec_run_to_completion finds a key that still has to run, and stays at
\* the current one while that is such a key.
LEMMA NextIsPending ==
    ASSUME NEW x, NEW n, OnKeys(x, n)
    PROVE  /\ NextIndex(x) \in 1..n /\ x.st[NextIndex(x)] \in Pending
           /\ x.st[x.i] \in Pending => NextIndex(x) = x.i
<1> PICK i : i = x.i
  OBVIOUS
<1> DEFINE At(d) == ((i + d - 1) % n) + 1
           after == {d \in 0..(n - 1) : x.st[At(d)] \in Pending}
<1>1. n \in Nat \ {0} /\ i \in 1..n
  BY DEF OnKeys
<1>2. NextIndex(x) = At(Min(after))
  BY DEF NextIndex, OnKeys
<1>3. PICK j \in 1..n : x.st[j] \in Pending
  BY DEF OnKeys
<1>4. PICK d \in 0..(n - 1) : d = IF j >= i THEN j - i ELSE (j - i) + n
  BY <1>1
<1>5. At(d) = j
  <2>1. i + d - 1 = j - 1 \/ i + d - 1 = (j - 1) + n
    BY <1>1, <1>4
  <2>2. (j - 1) % n = j - 1 /\ ((j - 1) + n) % n = j - 1
    BY <1>1, Around
  <2> QED BY <1>1, <2>1, <2>2
<1>6. after # {} /\ after \subseteq Int /\ IsFiniteSet(after)
  <2>1. d \in after
    BY <1>3, <1>5
  <2>2. after \subseteq 0..(n - 1)
    OBVIOUS
  <2>3. IsFiniteSet(0..(n - 1))
    <3>1. 0 \in Int /\ n - 1 \in Int
      BY <1>1
    <3> QED BY ONLY <3>1, FS_Interval
  <2> HIDE DEF after
  <2>4. IsFiniteSet(after)
    BY <2>2, <2>3, FS_Subset
  <2>5. 0..(n - 1) \subseteq Int
    BY <1>1
  <2> QED BY <2>1, <2>2, <2>4, <2>5
<1> PICK m : m = Min(after)
  OBVIOUS
<1>7. m \in after /\ \A e \in after : m <= e
  <2> HIDE DEF after
  <2> QED BY <1>6, FiniteTop
<1>8. m \in 0..(n - 1) /\ x.st[At(m)] \in Pending
  BY <1>7
<1>9. At(m) \in 1..n
  <2>1. i + m - 1 \in Int
    BY <1>1, <1>8
  <2>2. (i + m - 1) % n \in 0..(n - 1)
    BY ONLY <1>1, <2>1, ModIn
  <2> QED BY <1>1, <2>2
<1>10. ASSUME x.st[i] \in Pending PROVE At(m) = i
  <2>1. At(0) = i /\ 0 \in 0..(n - 1)
    BY <1>1, BackToKey
  <2>2. 0 \in after
    BY <1>10, <2>1
  <2>3. m = 0
    BY <1>7, <1>8, <2>2
  <2> QED BY <2>1, <2>3
<1> HIDE DEF after
<1> QED BY <1>2, <1>8, <1>9, <1>10

\* exec_key_continue for any key of the command.
LEMMA ContinueAny ==
    ASSUME NEW c, NEW x, NEW n, OnKeys(x, n), NEW i \in 1..n, NEW r
    PROVE  GoesOn(c, x, n, r, i, After(x, i, r), Continue(c, x, i, r))
<1> DEFINE y == After(x, i, r)
           z == Continue(c, x, i, r)
<1>1. n \in Nat /\ Len(x.st) = n
  BY DEF OnKeys
<1>2. KeysDone(y) \in 0..n
  <2>1. DOMAIN y.st = 1..n
    BY DEF After, OnKeys, SessFields, Idle
  <2> HIDE DEF y
  <2> QED BY <1>1, <2>1, DoneUpTo
<1>3. z =
        CASE r.st = "again"   -> [x EXCEPT !.i = i, !.tested = TRUE]
          [] r.st = "depends" -> [y EXCEPT !.dep[i] = @ + 1, !.i = (i % Len(x.st)) + 1]
          [] r.st \notin {"again", "depends"} /\ ~NextKey(r.st) /\ KeysDone(y) < Len(x.st) ->
                 Finished(y, Reply(c, y, r.st, r.rep))
          [] r.st \notin {"again", "depends"} /\ KeysDone(y) = Len(x.st) ->
                 Finished(y, Reply(c, y, r.st, r.rep))
          [] OTHER -> [y EXCEPT !.i = (i % Len(x.st)) + 1]
  BY Zenon DEF Continue, After
<1>4. KeysDone(y) < n \/ KeysDone(y) = n
  BY <1>1, <1>2
<1> HIDE DEF y, z
<1>5. GoesOn(c, x, n, r, i, y, z)
  BY <1>1, <1>3, <1>4, Zenon DEF GoesOn
<1> QED BY <1>5 DEF y, z

\* A key that waits or still has to run lets the others run, one of the
\* wrong type ends the command.
LEMMA RanksOfKeys == NextKey("depends") /\ NextKey("continue") /\ ~NextKey("bad_type")
<1>1. \A i \in DOMAIN Statuses : Statuses[i] = "depends" => i = 12
  BY DEF Statuses
<1>2. \A i \in DOMAIN Statuses : Statuses[i] = "continue" => i = 13
  BY DEF Statuses
<1>3. \A i \in DOMAIN Statuses : Statuses[i] = "blocked" => i = 15
  BY DEF Statuses
<1>4. \A i \in DOMAIN Statuses : Statuses[i] = "bad_type" => i = 20
  BY DEF Statuses
<1>5. {12, 13, 15, 20} \subseteq DOMAIN Statuses
  BY DEF Statuses
<1>6. /\ Statuses[12] = "depends" /\ Statuses[13] = "continue"
      /\ Statuses[15] = "blocked" /\ Statuses[20] = "bad_type"
  BY DEF Statuses
<1> HIDE DEF Statuses
<1>7. /\ Rank("depends") = 12 /\ Rank("continue") = 13
      /\ Rank("blocked") = 15 /\ Rank("bad_type") = 20
  BY <1>1, <1>2, <1>3, <1>4, <1>5, <1>6, Zenon DEF Rank
<1> QED BY <1>7 DEF NextKey

\* the part and the status of a key after its handler
PartOf(x, i, r) ==
    IF r.st \in {"ok", "depends", "send_data"} /\ x.dep[i] = 0 THEN r.rep ELSE x.part[i]

\* z is x with the outcome of key i, or the key runs again
MovedOn(x, n, i, r, z) ==
    /\ z.c = x.c
    /\ OnKeys(z, n)
    /\ \/ r.st = "again" /\ z.i = i /\ z.st = x.st /\ z.part = x.part /\ z.dep = x.dep
       \/ /\ r.st # "again" /\ NextKey(r.st)
          /\ z.st = [x.st EXCEPT ![i] = r.st]
          /\ z.part = [x.part EXCEPT ![i] = PartOf(x, i, r)]
          /\ z.dep = IF r.st = "depends" THEN [x.dep EXCEPT ![i] = @ + 1] ELSE x.dep

\* A command that has not ended has keys that still have to run, and keeps
\* what the keys before saved.
LEMMA KeyMoves ==
    ASSUME NEW c, NEW x, NEW n, OnKeys(x, n), NEW i \in 1..n, NEW r,
           Continue(c, x, i, r).c # 0
    PROVE  MovedOn(x, n, i, r, Continue(c, x, i, r))
<1> PICK z : z = Continue(c, x, i, r)
  OBVIOUS
<1> PICK y : y = After(x, i, r)
  OBVIOUS
<1>1. GoesOn(c, x, n, r, i, y, z)
  BY ContinueAny
<1>2. /\ n \in Nat \ {0} /\ DOMAIN x = SessFields /\ x.i \in 1..n
      /\ DOMAIN x.st = 1..n /\ Len(x.st) = n /\ DOMAIN x.ival = 1..n /\ x.dep \in [1..n -> Nat]
      /\ x.part = [j \in 1..n |-> x.part[j]]
  BY DEF OnKeys
<1>3. (i % n) + 1 \in 1..n
  <2>1. i \in Int
    BY <1>2
  <2>2. i % n \in 0..(n - 1)
    BY ONLY <1>2, <2>1, ModIn
  <2> QED BY <1>2, <2>2
<1>4. /\ DOMAIN y = SessFields /\ y.c = x.c
      /\ y.st = [x.st EXCEPT ![i] = r.st] /\ DOMAIN y.ival = 1..n
      /\ y.dep = x.dep
      /\ y.part = [x.part EXCEPT ![i] = PartOf(x, i, r)]
  BY <1>2 DEF After, PartOf, SessFields, Idle
<1>5. /\ DOMAIN y.st = 1..n /\ Len(y.st) = n
      /\ \A j \in 1..n : y.st[j] = IF j = i THEN r.st ELSE x.st[j]
  BY <1>2, <1>4
<1>6. y.part = [j \in 1..n |-> y.part[j]]
  <2> PICK p : p = PartOf(x, i, r)
    OBVIOUS
  <2> QED BY <1>2, <1>4
<1>7. z = [x EXCEPT !.i = i, !.tested = TRUE] =>
         /\ DOMAIN z = SessFields /\ z.c = x.c /\ z.i = i /\ z.st = x.st /\ z.dep = x.dep
         /\ z.part = x.part /\ z.ival = x.ival
  BY <1>2 DEF SessFields, Idle
<1>8. z = [y EXCEPT !.dep[i] = @ + 1, !.i = (i % n) + 1] =>
         /\ DOMAIN z = SessFields /\ z.c = y.c /\ z.i = (i % n) + 1 /\ z.st = y.st
         /\ z.dep = [x.dep EXCEPT ![i] = @ + 1] /\ z.part = y.part /\ z.ival = y.ival
  BY <1>4 DEF SessFields, Idle
<1>9. z = [y EXCEPT !.i = (i % n) + 1] =>
         /\ DOMAIN z = SessFields /\ z.c = y.c /\ z.i = (i % n) + 1 /\ z.st = y.st
         /\ z.dep = x.dep /\ z.part = y.part /\ z.ival = y.ival
  BY <1>4 DEF SessFields, Idle
<1>10. \A w, q : Finished(w, q).c = 0
  BY DEF Finished, Idle
<1>11. CASE r.st = "again"
  <2>1. z = [x EXCEPT !.i = i, !.tested = TRUE]
    BY <1>1, <1>11 DEF GoesOn
  <2>2. OnKeys(z, n)
    BY <1>7, <2>1 DEF OnKeys
  <2> QED BY <1>7, <1>11, <2>1, <2>2 DEF MovedOn
<1>12. CASE r.st = "depends"
  <2>1. z = [y EXCEPT !.dep[i] = @ + 1, !.i = (i % n) + 1]
    BY <1>1, <1>12 DEF GoesOn
  <2>2. /\ DOMAIN z = SessFields /\ z.c = x.c /\ z.i = (i % n) + 1 /\ z.st = y.st
        /\ z.dep = [x.dep EXCEPT ![i] = @ + 1] /\ z.part = y.part /\ z.ival = y.ival
    BY <1>4, <1>8, <2>1
  <2>3. z.dep \in [1..n -> Nat]
    BY <1>2, <2>2
  <2>4. z.st[i] \in Pending /\ \A j \in 1..n : NextKey(z.st[j])
    <3>1. \A j \in 1..n : NextKey(x.st[j])
      BY DEF OnKeys
    <3>2. \A j \in 1..n : z.st[j] = IF j = i THEN "depends" ELSE x.st[j]
      BY <1>5, <1>12, <2>2
    <3>3. z.st[i] = "depends" /\ \A j \in 1..n : z.st[j] = "depends" \/ z.st[j] = x.st[j]
      BY <3>2
    <3> QED BY <3>1, <3>3, RanksOfKeys DEF Pending
  <2>5. OnKeys(z, n)
    <3>1. DOMAIN z.st = 1..n /\ Len(z.st) = n /\ DOMAIN z.ival = 1..n
      BY <1>4, <1>5, <2>2
    <3>2. z.part = [j \in 1..n |-> z.part[j]]
      BY <1>6, <2>2
    <3>3. DOMAIN z = SessFields /\ z.i \in 1..n /\ n \in Nat \ {0}
      BY <1>2, <1>3, <2>2
    <3> QED BY <2>3, <2>4, <3>1, <3>2, <3>3 DEF OnKeys
  <2>6. NextKey(r.st)
    BY <1>12, RanksOfKeys
  <2> QED BY <1>4, <1>12, <2>2, <2>5, <2>6 DEF MovedOn
<1>13. CASE r.st \notin {"again", "depends"}
  <2>1. z = [y EXCEPT !.i = (i % n) + 1] /\ NextKey(r.st) /\ KeysDone(y) # n
    BY <1>1, <1>10, <1>13 DEF GoesOn
  <2>2. /\ DOMAIN z = SessFields /\ z.c = x.c /\ z.i = (i % n) + 1 /\ z.st = y.st
        /\ z.dep = x.dep /\ z.part = y.part /\ z.ival = y.ival
    BY <1>4, <1>9, <2>1
  <2>3. \A j \in 1..n : NextKey(z.st[j])
    BY <1>5, <2>1, <2>2 DEF OnKeys
  <2>4. \E j \in 1..n : z.st[j] \in Pending
    <3> SUFFICES ASSUME \A j \in 1..n : y.st[j] \notin Pending PROVE KeysDone(y) = n
      BY <2>1, <2>2
    <3>1. {j \in DOMAIN y.st : y.st[j] \notin Pending} = 1..n
      BY <1>5
    <3>2. Cardinality(1..n) = n
      <4>1. 1 \in Int /\ n \in Int
        BY <1>2
      <4>2. Cardinality(1..n) = IF 1 <= n THEN n - 1 + 1 ELSE 0
        BY ONLY <4>1, FS_Interval
      <4> QED BY <1>2, <4>2
    <3> QED BY <3>1, <3>2 DEF KeysDone
  <2>5. OnKeys(z, n)
    <3>1. DOMAIN z.st = 1..n /\ Len(z.st) = n /\ DOMAIN z.ival = 1..n
      BY <1>4, <1>5, <2>2
    <3>2. z.part = [j \in 1..n |-> z.part[j]]
      BY <1>6, <2>2
    <3>3. DOMAIN z = SessFields /\ z.i \in 1..n /\ n \in Nat \ {0} /\ z.dep \in [1..n -> Nat]
      BY <1>2, <1>3, <2>2
    <3> QED BY <2>3, <2>4, <3>1, <3>2, <3>3 DEF OnKeys
  <2> QED BY <1>4, <1>13, <2>1, <2>2, <2>5 DEF MovedOn
<1> QED BY <1>11, <1>12, <1>13

-----------------------------------------------------------------------------
(* The places that GEORADIUS finds *)

Triples == Int \X Int \X Int

\* a sequence of places, no member twice
IsFound(q) ==
    /\ IsSeq(q) /\ q \in Seq(Triples)
    /\ Len(q) \in Nat /\ DOMAIN q = 1..Len(q)
    /\ \A i, j \in 1..Len(q) : q[i][1] = q[j][1] => i = j

\* a cell within the radius that is searched
Reached(at, radius, b) == Dist(b, at) <= radius /\ Searched(at, radius, b)

\* Distances are integers.
LEMMA DistInt ==
    ASSUME NEW a \in Int, NEW b \in Int
    PROVE  Dist(a, b) \in Int
<1>1. \A c \in Int : Column(c) \in Int
  BY DEF Column
<1>2. \A c \in Int : Column(c) \in Int /\ Row(c) \in Int
  <2>1. \A c \in Int : c \div 2 \in Int
    OBVIOUS
  <2> QED BY <1>1, <2>1 DEF Row
<1>3. \A i \in Int : \A j \in Int : Apart(i, j) \in Int
  BY DEF Apart
<1> PICK p : p = Centre(a)
  OBVIOUS
<1> PICK q : q = Centre(b)
  OBVIOUS
<1>4. p[1] \in Int /\ p[2] \in Int /\ q[1] \in Int /\ q[2] \in Int
  BY <1>2 DEF Centre
<1>5. Dist(a, b) = Apart(p[1], q[1]) + Apart(p[2], q[2])
  BY DEF Dist, Between
<1>6. Apart(p[1], q[1]) \in Int /\ Apart(p[2], q[2]) \in Int
  BY <1>3, <1>4
<1> QED BY <1>5, <1>6

\* The places of a sorted set that are found, with their distance.
LEMMA WithinFound ==
    ASSUME NEW z, IsZSet(z), NEW at \in Int, NEW radius \in Int
    PROVE  /\ IsFound(Within(z, at, radius))
           /\ \A t : t \in ToSet(Within(z, at, radius)) <=>
                 \E p \in ToSet(z) : t = <<p[1], p[2], Dist(p[2], at)>> /\ Reached(at, radius, p[2])
<1> DEFINE w == [i \in DOMAIN z |-> <<z[i][1], z[i][2], Dist(z[i][2], at)>>]
           S == {p \in ToSet(w) : p[3] <= radius /\ Searched(at, radius, p[2])}
<1> PICK q : q = Within(z, at, radius)
  OBVIOUS
<1>1. q = Only(w, S)
  BY DEF Within, Select
<1>2. /\ Len(z) \in Nat /\ DOMAIN z = 1..Len(z)
      /\ \A i \in 1..Len(z) : z[i] \in Pairs
      /\ \A i, j \in 1..Len(z) : z[i][1] = z[j][1] => i = j
  BY ZSetFacts
<1>3. \A b \in Int : Dist(b, at) \in Int
  BY DistInt
<1>4. ASSUME NEW i \in 1..Len(z)
      PROVE  w[i] \in Triples /\ w[i][1] = z[i][1] /\ w[i][2] = z[i][2] /\ w[i][3] = Dist(z[i][2], at)
             /\ w[i] = <<z[i][1], z[i][2], Dist(z[i][2], at)>>
  <2>1. z[i][1] \in Int /\ z[i][2] \in Int
    BY <1>2 DEF Pairs
  <2>2. w[i] = <<z[i][1], z[i][2], Dist(z[i][2], at)>>
    BY <1>2
  <2> PICK a, b, d : a = z[i][1] /\ b = z[i][2] /\ d = Dist(z[i][2], at)
    OBVIOUS
  <2>3. w[i] = <<a, b, d>> /\ a \in Int /\ b \in Int /\ d \in Int
    BY <1>3, <2>1, <2>2
  <2> HIDE DEF w
  <2> QED BY <2>2, <2>3 DEF Triples
<1>5. w = [i \in 1..Len(z) |-> w[i]]
  BY <1>2
<1>6. IsSeq(w) /\ Len(w) = Len(z) /\ DOMAIN w = 1..Len(z)
  <2> HIDE DEF w
  <2> QED BY <1>2, <1>5, FunIsSeq
<1> HIDE DEF w
<1>7. w \in Seq(Triples)
  BY <1>4, <1>6, SeqOver
<1>8. IsSeq(q) /\ Len(q) \in Nat /\ DOMAIN q = 1..Len(q)
  BY <1>1, <1>6, OnlyPlaces
<1>9. PICK idx : Kept(q, w, S, idx)
  BY <1>1, <1>6, OnlyPlaces
<1>10. \A j \in 1..Len(q) : idx[j] \in 1..Len(z) /\ q[j] = w[idx[j]] /\ q[j] \in S
  BY <1>6, <1>9 DEF Kept
<1>11. q \in Seq(Triples)
  <2>1. \A j \in 1..Len(q) : q[j] \in Triples
    BY <1>4, <1>10
  <2> QED BY <1>8, <2>1, SeqOver
<1>12. ASSUME NEW j \in 1..Len(q), NEW k \in 1..Len(q), q[j][1] = q[k][1] PROVE j = k
  <2>1. z[idx[j]][1] = z[idx[k]][1] /\ idx[j] \in 1..Len(z) /\ idx[k] \in 1..Len(z)
    BY <1>4, <1>10, <1>12
  <2>2. idx[j] = idx[k] /\ idx[j] \in Int
    BY <1>2, <2>1
  <2> QED BY <1>8, <1>9, <2>2 DEF Kept
<1>13. ASSUME NEW t
       PROVE  t \in ToSet(q) <=>
                 \E p \in ToSet(z) : t = <<p[1], p[2], Dist(p[2], at)>> /\ Reached(at, radius, p[2])
  <2>1. ASSUME t \in ToSet(q)
        PROVE  \E p \in ToSet(z) : t = <<p[1], p[2], Dist(p[2], at)>> /\ Reached(at, radius, p[2])
    <3>1. PICK j \in 1..Len(q) : t = q[j]
      BY <1>8, <2>1 DEF ToSet
    <3>2. idx[j] \in 1..Len(z) /\ t = w[idx[j]] /\ t[3] <= radius /\ Searched(at, radius, t[2])
      BY <1>10, <3>1
    <3>3. z[idx[j]] \in ToSet(z)
      BY <1>2, <3>2 DEF ToSet
    <3>4. t = <<z[idx[j]][1], z[idx[j]][2], Dist(z[idx[j]][2], at)>>
          /\ Reached(at, radius, z[idx[j]][2])
      BY <1>4, <3>2 DEF Reached
    <3> QED BY <3>3, <3>4
  <2>2. ASSUME NEW p \in ToSet(z), t = <<p[1], p[2], Dist(p[2], at)>>, Reached(at, radius, p[2])
        PROVE  t \in ToSet(q)
    <3>1. PICK i \in 1..Len(z) : p = z[i]
      BY <1>2 DEF ToSet
    <3>2. t = w[i] /\ t[3] <= radius /\ Searched(at, radius, t[2])
      BY <1>4, <2>2, <3>1 DEF Reached
    <3>3. t \in S
      BY <1>6, <3>2 DEF ToSet
    <3>4. PICK j \in 1..Len(q) : idx[j] = i
      BY <1>6, <1>9, <3>2, <3>3 DEF Kept
    <3> QED BY <1>8, <1>10, <3>2, <3>4 DEF ToSet
  <2> QED BY <2>1, <2>2
<1> QED BY <1>8, <1>11, <1>12, <1>13 DEF IsFound

\* The places around a cell, or around a member.
LEMMA NearFound ==
    ASSUME NEW z, IsZSet(z), NEW from, NEW at \in Int, NEW radius \in Int
    PROVE  IsFound(Near(z, from, at, radius))
<1>1. IsFound(<<>>)
  <2>1. IsSeq(<<>>) /\ Len(<<>>) = 0 /\ DOMAIN <<>> = 1..0 /\ <<>> \in Seq(Triples)
    BY EmptyIsSeq, SeqFacts
  <2> QED BY <2>1 DEF IsFound
<1>2. at \in Members(z) => Score(z, at) \in Int
  BY ScoreOf
<1>3. IsFound(Within(z, at, radius))
  BY WithinFound
<1>4. at \in Members(z) => IsFound(Within(z, Score(z, at), radius))
  BY <1>2, WithinFound
<1> QED BY <1>1, <1>3, <1>4 DEF Near

NearerOf(S)  == {pq \in S \X S : Nearer(pq[1], pq[2])}
FartherOf(S) == {pq \in S \X S : Farther(pq[1], pq[2])}
LowerOf(S)   == {pq \in S \X S : Lower(pq[1], pq[2])}

\* The lists that cmp_ascend_dist, cmp_descend_dist and cmp_ascend_hash sort.
LEMMA OrderedLists ==
    ASSUME NEW q, IsFound(q)
    PROVE  /\ Lists(Ordered(q, "desc"), ToSet(q), FartherOf(ToSet(q)))
           /\ Lists(Ordered(q, "hash"), ToSet(q), LowerOf(ToSet(q)))
           /\ \A order : order \notin {"desc", "hash"} =>
                 Lists(Ordered(q, order), ToSet(q), NearerOf(ToSet(q)))
<1> PICK S : S = ToSet(q)
  OBVIOUS
<1>1. IsFiniteSet(S)
  BY ToSetFinite DEF IsFound
<1>2. \A p \in S : p = <<p[1], p[2], p[3]>> /\ p[1] \in Int /\ p[2] \in Int /\ p[3] \in Int
  <2>1. S \subseteq Triples
    BY SeqIsSeq DEF IsFound
  <2> QED BY <2>1 DEF Triples
<1>3. \A a, b \in S : a[1] = b[1] => a = b
  BY DEF IsFound, ToSet
<1>4. /\ \A a, b : <<a, b>> \in NearerOf(S) <=> a \in S /\ b \in S /\ Nearer(a, b)
      /\ \A a, b : <<a, b>> \in FartherOf(S) <=> a \in S /\ b \in S /\ Farther(a, b)
      /\ \A a, b : <<a, b>> \in LowerOf(S) <=> a \in S /\ b \in S /\ Lower(a, b)
  BY DEF NearerOf, FartherOf, LowerOf
<1>5. /\ \A a, b \in S : a = b \/ Nearer(a, b) \/ Nearer(b, a)
      /\ \A a, b, d \in S : ~Nearer(a, a) /\ (Nearer(a, b) /\ Nearer(b, d) => Nearer(a, d))
  BY <1>2, <1>3 DEF Nearer, Behind
<1>6. /\ \A a, b \in S : a = b \/ Farther(a, b) \/ Farther(b, a)
      /\ \A a, b, d \in S : ~Farther(a, a) /\ (Farther(a, b) /\ Farther(b, d) => Farther(a, d))
  BY <1>2, <1>3 DEF Farther, Behind
<1>7. /\ \A a, b \in S : a = b \/ Lower(a, b) \/ Lower(b, a)
      /\ \A a, b, d \in S : ~Lower(a, a) /\ (Lower(a, b) /\ Lower(b, d) => Lower(a, d))
  BY <1>2, <1>3 DEF Lower
<1>8. Orders(S, NearerOf(S)) /\ Orders(S, FartherOf(S)) /\ Orders(S, LowerOf(S))
  BY <1>4, <1>5, <1>6, <1>7 DEF Orders
<1> DEFINE A1(x) == {y \in S : Nearer(y, x)}
           B1(x) == {y \in S : <<y, x>> \in NearerOf(S)}
           A2(x) == {y \in S : Farther(y, x)}
           B2(x) == {y \in S : <<y, x>> \in FartherOf(S)}
           A3(x) == {y \in S : Lower(y, x)}
           B3(x) == {y \in S : <<y, x>> \in LowerOf(S)}
<1>9. \A x \in S : A1(x) = B1(x) /\ A2(x) = B2(x) /\ A3(x) = B3(x)
  BY <1>4
<1> DEFINE C1(i) == CHOOSE x \in S : Cardinality(A1(x)) = i - 1
           D1(i) == CHOOSE x \in S : Cardinality(B1(x)) = i - 1
           C2(i) == CHOOSE x \in S : Cardinality(A2(x)) = i - 1
           D2(i) == CHOOSE x \in S : Cardinality(B2(x)) = i - 1
           C3(i) == CHOOSE x \in S : Cardinality(A3(x)) = i - 1
           D3(i) == CHOOSE x \in S : Cardinality(B3(x)) = i - 1
<1>10. /\ InOrder(S, Nearer) = [i \in 1..Cardinality(S) |-> C1(i)]
       /\ InOrder(S, Farther) = [i \in 1..Cardinality(S) |-> C2(i)]
       /\ InOrder(S, Lower) = [i \in 1..Cardinality(S) |-> C3(i)]
  BY Zenon DEF InOrder
<1>11. /\ Ranked(S, NearerOf(S)) = [i \in 1..Cardinality(S) |-> D1(i)]
       /\ Ranked(S, FartherOf(S)) = [i \in 1..Cardinality(S) |-> D2(i)]
       /\ Ranked(S, LowerOf(S)) = [i \in 1..Cardinality(S) |-> D3(i)]
  BY Zenon DEF Ranked
<1>12. (\A i : C1(i) = D1(i)) /\ (\A i : C2(i) = D2(i)) /\ (\A i : C3(i) = D3(i))
  <2> HIDE DEF A1, A2, A3, B1, B2, B3
  <2>1. \A i : C1(i) = D1(i)
    BY <1>9, Zenon
  <2>2. \A i : C2(i) = D2(i)
    BY <1>9, Zenon
  <2>3. \A i : C3(i) = D3(i)
    BY <1>9, Zenon
  <2> QED BY <2>1, <2>2, <2>3
<1> HIDE DEF C1, C2, C3, D1, D2, D3
<1>13. /\ InOrder(S, Nearer) = Ranked(S, NearerOf(S))
       /\ InOrder(S, Farther) = Ranked(S, FartherOf(S))
       /\ InOrder(S, Lower) = Ranked(S, LowerOf(S))
  BY <1>10, <1>11, <1>12
<1>14. /\ Lists(InOrder(S, Nearer), S, NearerOf(S))
       /\ Lists(InOrder(S, Farther), S, FartherOf(S))
       /\ Lists(InOrder(S, Lower), S, LowerOf(S))
  BY <1>1, <1>8, <1>13, RankedLists
<1>15. /\ Ordered(q, "desc") = InOrder(S, Farther)
       /\ Ordered(q, "hash") = InOrder(S, Lower)
       /\ \A order : order \notin {"desc", "hash"} => Ordered(q, order) = InOrder(S, Nearer)
  BY Zenon DEF Ordered
<1> QED BY <1>14, <1>15

\* The first of a sequence.
LEMMA FirstSeq ==
    ASSUME NEW T, NEW q \in Seq(T), NEW count
    PROVE  First(q, count) \in Seq(T)
<1>1. CASE count \in 1..Len(q)
  <2>1. count \in Int /\ count > 0
    BY <1>1
  <2>2. SubSeq(q, 1, count) \in Seq(T)
    <3>1. IsSeq(q) /\ Len(q) \in Nat /\ \A i \in 1..Len(q) : q[i] \in T
      BY SeqIsSeq
    <3> PICK s : s = SubSeq(q, 1, count)
      OBVIOUS
    <3>2. /\ IsSeq(s) /\ Len(s) = IF 1 <= count THEN count - 1 + 1 ELSE 0
          /\ \A i \in 1..(count - 1 + 1) : s[i] = q[1 + i - 1]
      BY <2>1, <3>1, SubSeqIsSeq
    <3>3. \A i \in 1..Len(s) : i \in 1..Len(q) /\ s[i] = q[i]
      BY <1>1, <2>1, <3>1, <3>2
    <3>4. \A i \in 1..Len(s) : s[i] \in T
      BY <3>1, <3>3
    <3> QED BY <3>2, <3>4, SeqOver
  <2> QED BY <1>1, <2>2 DEF First
<1>2. CASE count \notin 1..Len(q)
  BY <1>2 DEF First
<1> QED BY <1>1, <1>2

\* GEORADIUS answers a sequence of places.
LEMMA GRadiusPlaces ==
    ASSUME NEW v, WellFormed(v), NEW from, NEW at \in Int, NEW radius \in Int, NEW order,
           NEW count, NEW store \in {"none", "hash", "dist"}
    PROVE  GRadius(v, from, at, radius, order, count, store).rep \in Seq(Triples)
<1> DEFINE near == Near(v.data, from, at, radius)
           a == CASE store = "none" -> Places(near, order, count)
                  [] store = "hash" -> Ordered(near, "hash")
                  [] store = "dist" -> Ordered(near, "asc")
<1>1. /\ \A st : Status(v, st).rep = <<>>
      /\ \A y : Data(v, y).rep = y
  BY DEF Status, Data, Done
<1>2. /\ v.type # "geo" => \/ GRadius(v, from, at, radius, order, count, store) = Data(v, <<>>)
                           \/ GRadius(v, from, at, radius, order, count, store) = Status(v, "bad_type")
      /\ v.type = "geo" => GRadius(v, from, at, radius, order, count, store) = Data(v, a)
  <2>1. GRadius(v, from, at, radius, order, count, store)
        = IF v.type \in {"none", "nodata"} THEN Data(v, <<>>)
          ELSE IF v.type = "geo" THEN Data(v, a) ELSE Status(v, "bad_type")
    BY Zenon DEF GRadius, OfType
  <2> HIDE DEF a
  <2> QED BY <2>1
<1>3. ASSUME v.type = "geo" PROVE a \in Seq(Triples)
  <2>1. IsZSet(v.data)
    BY <1>3, Forms
  <2>2. IsFound(near)
    BY <2>1, NearFound
  <2>3. \A o : Ordered(near, o) \in Seq(Triples)
    <3>1. \A o : IsSeq(Ordered(near, o)) /\ ToSet(Ordered(near, o)) = ToSet(near)
      <4> HIDE DEF near
      <4>1. \A o : o \in {"desc", "hash"} \/ o \notin {"desc", "hash"}
        OBVIOUS
      <4> QED BY <2>2, <4>1, OrderedLists DEF Lists
    <3>2. ToSet(near) \subseteq Triples
      BY <2>2, SeqIsSeq DEF IsFound
    <3> HIDE DEF near
    <3> QED BY <3>1, <3>2, SeqMonotonic DEF IsSeq
  <2>4. near \in Seq(Triples)
    BY <2>2 DEF IsFound
  <2> HIDE DEF near
  <2>5. First(near, count) \in Seq(Triples) /\ First(Ordered(near, order), count) \in Seq(Triples)
    BY <2>3, <2>4, FirstSeq
  <2>6. Places(near, order, count) \in Seq(Triples)
    BY <2>5 DEF Places
  <2> QED BY <2>3, <2>6
<1>4. <<>> \in Seq(Triples)
  OBVIOUS
<1> HIDE DEF a
<1> QED BY <1>1, <1>2, <1>3, <1>4

-----------------------------------------------------------------------------
(* What the keys of a command save *)

\* What has been saved is what the command needs of it.
Keeps(c, x) ==
    /\ c.cmd = "sstore" => \A j \in 2..Len(c.keys) : IsSet(x.part[j])
    /\ c.cmd \in {"bitop", "pfmerge"} => \A j \in 2..Len(c.keys) : IsSeq(x.part[j])
    /\ c.cmd = "zstore" => \A j \in 2..Len(c.keys) :
          x.dep[j] = 0 /\ (x.st[j] \in Pending \/ IsSaved(x.part[j]))
    /\ c.cmd = "rename" => IF x.dep[1] = 0 THEN x.i = 1 /\ x.st[1] \in Pending
                           ELSE WellFormed(x.part[1])
    /\ c.cmd = "georadius" => x.part[1] \in Seq(Triples)

\* When one key is left all others have run.
LEMMA LastKeyAll ==
    ASSUME NEW x, NEW n, OnKeys(x, n), NEW i \in 1..n, x.st[i] \in Pending, KeysDone(x) + 1 = n
    PROVE  \A j \in 1..n : j # i => x.st[j] \notin Pending
<1> DEFINE D == {j \in DOMAIN x.st : x.st[j] \notin Pending}
<1>1. n \in Nat \ {0} /\ D \subseteq (1..n) \ {i} /\ KeysDone(x) = Cardinality(D)
      /\ \A j \in 1..n : j \in D <=> x.st[j] \notin Pending
  BY DEF OnKeys, KeysDone
<1> HIDE DEF D
<1>2. IsFiniteSet(1..n) /\ Cardinality(1..n) = n
  <2>1. 1 \in Int /\ n \in Int
    BY <1>1
  <2>2. IsFiniteSet(1..n) /\ Cardinality(1..n) = IF 1 <= n THEN n - 1 + 1 ELSE 0
    BY ONLY <2>1, FS_Interval
  <2> QED BY <1>1, <2>2
<1>3. IsFiniteSet((1..n) \ {i}) /\ Cardinality((1..n) \ {i}) = n - 1
  BY <1>2, FS_RemoveElement
<1>4. D = (1..n) \ {i}
  <2>1. Cardinality(D) \in Nat
    BY <1>1, <1>3, FS_Subset, FS_CardinalityType
  <2>2. Cardinality((1..n) \ {i}) = Cardinality(D)
    BY <1>1, <1>3, <2>1
  <2> QED BY <1>1, <1>3, <2>2, FS_Subset
<1> QED BY <1>1, <1>4

\* A key gets what the keys before it saved.
LEMMA GatheredOf ==
    ASSUME NEW c, IsCall(c), NEW x, OnKeys(x, Len(c.keys)), Keeps(c, x), NEW k
    PROVE  Gathered(c, NextIndex(x), Context(x, k, NextIndex(x)))
<1> PICK n : n = Len(c.keys)
  OBVIOUS
<1> PICK i : i = NextIndex(x)
  OBVIOUS
<1> PICK y : y = Context(x, k, i)
  OBVIOUS
<1> PICK part : part = Tail(x.part)
  OBVIOUS
<1>1. y.part = x.part /\ y.done = KeysDone(x)
  BY DEF Context
<1>2. /\ n \in Nat \ {0} /\ IsSeq(x.part) /\ Len(x.part) = n /\ x.part # <<>>
      /\ DOMAIN x.st = 1..n
  <2>1. n \in Nat \ {0} /\ x.part = [j \in 1..n |-> x.part[j]] /\ DOMAIN x.st = 1..n
    BY DEF OnKeys
  <2>2. IsSeq(x.part) /\ Len(x.part) = n
    BY <2>1, FunIsSeq
  <2> QED BY <2>1, <2>2, EmptyIsSeq
<1>3. /\ IsSeq(part) /\ Len(part) = n - 1 /\ DOMAIN part = 1..(n - 1)
      /\ \A j \in 1..(n - 1) : part[j] = x.part[j + 1] /\ j + 1 \in 2..n
  <2>1. /\ IsSeq(part) /\ Len(part) = n - 1 /\ DOMAIN part = 1..(n - 1)
        /\ \A j \in 1..(n - 1) : part[j] = x.part[j + 1]
    BY <1>2, TailIsSeq
  <2> QED BY <1>2, <2>1
<1>4. i \in 1..n /\ x.st[i] \in Pending /\ (x.st[x.i] \in Pending => i = x.i)
  BY NextIsPending
<1>5. IsArgs(c) /\ (c.cmd \in {"sstore", "zstore", "bitop"} => n > 1)
  BY DEF IsCall, IsArity
<1>6. c.cmd \in {"sstore", "zstore", "bitop"} => Sources(part)
  <2>1. n > 1 => Len(part) # 0
    <3>1. Len(part) = n - 1 /\ n \in Nat
      BY <1>2, <1>3
    <3> QED BY ONLY <3>1
  <2>2. n > 1 => part # <<>>
    BY <2>1, EmptyIsSeq
  <2> QED BY <1>3, <1>5, <2>2 DEF Sources
<1>7. c.cmd = "sstore" => \A j \in DOMAIN part : IsSet(part[j])
  BY <1>3 DEF Keeps
<1>8. c.cmd \in {"bitop", "pfmerge"} => \A j \in DOMAIN part : IsSeq(part[j])
  BY <1>3 DEF Keeps
<1>9. ASSUME i = 1, c.cmd = "zstore", LastKey(c, y)
      PROVE  /\ \A j \in DOMAIN part : IsSaved(part[j])
             /\ c.weights # <<>> => Len(c.weights) = Len(part)
  <2>1. KeysDone(x) + 1 = n
    BY <1>1, <1>9 DEF LastKey
  <2>2. \A j \in 2..n : x.st[j] \notin Pending
    BY <1>4, <1>9, <2>1, LastKeyAll
  <2>3. \A j \in 2..n : IsSaved(x.part[j])
    BY <1>9, <2>2 DEF Keeps
  <2>4. c.weights \in Seq(Int) /\ Len(c.weights) \in {0, n - 1}
    BY <1>5, <1>9 DEF IsArgs
  <2>5. c.weights # <<>> => Len(c.weights) # 0
    BY <2>4
  <2> QED BY <1>3, <2>3, <2>4, <2>5
<1>10. i = 2 /\ c.cmd = "rename" => WellFormed(x.part[1])
  BY <1>4 DEF Keeps
<1>11. c.cmd = "georadius" => x.part[1] \in Seq(Int \X Int \X Int)
  BY DEF Keeps, Triples
<1>12. Gathered(c, i, y)
  BY <1>1, <1>3, <1>6, <1>7, <1>8, <1>9, <1>10, <1>11 DEF Gathered
<1> QED BY <1>12

\* What the handlers of the commands that gather save.
Savings(c, i, y, r) ==
    /\ c.cmd = "sstore" /\ i > 1 => IsSet(r.rep)
    /\ c.cmd \in {"bitop", "pfmerge"} /\ i > 1 => IsSeq(r.rep)
    /\ c.cmd = "zstore" /\ i > 1 =>
          \/ r.st = "ok" /\ IsSaved(r.rep)
          \/ r.st = "bad_type"
    /\ c.cmd = "rename" /\ i = 1 /\ y.dep = 0 => r.st = "depends" /\ WellFormed(r.rep)
    /\ c.cmd = "georadius" /\ i = 1 => r.rep \in Seq(Triples)

\* Each key saves what the command needs of it.
LEMMA SavingsGood ==
    ASSUME NEW c, IsCall(c), NEW i \in DOMAIN c.keys, NEW y, WellFormed(y.v),
           NEW r \in Handle(c, i, y)
    PROVE  Savings(c, i, y, r)
<1> PICK v : v = y.v
  OBVIOUS
<1>0. ~Unread(c, v)
  BY Zenon DEF Handle
<1>1. i \in Nat \ {0} /\ IsArgs(c)
  <2>1. c.keys \in Seq(Keys) /\ IsArgs(c)
    BY DEF IsCall, IsArity
  <2> QED BY <2>1
<1>2. /\ \A st : Status(v, st).rep = <<>> /\ Status(v, st).st = st
      /\ \A d : Data(v, d).rep = d /\ Data(v, d).st = "ok"
  BY DEF Status, Data, Done
<1>3. ASSUME c.cmd = "sstore", i > 1 PROVE IsSet(r.rep)
  <2>1. r = SaveSet(v)
    BY <1>3, <1>0, Categories DEF Handle, SetCmd
  <2>2. \/ \E st : r = Status(v, st)
        \/ r = Data(v, <<>>)
        \/ v.type = "set" /\ r = Data(v, v.data)
    BY <2>1, Zenon DEF SaveSet, OfType
  <2>3. IsSet(<<>>)
    BY EmptyIsSeq DEF IsSet
  <2> QED BY <1>2, <2>2, <2>3, Forms
<1>4. ASSUME c.cmd = "bitop", i > 1 PROVE IsSeq(r.rep)
  <2>1. r = SaveStr(v)
    BY <1>4, <1>0, Categories DEF Handle, StringCmd, StrCmd
  <2>2. \/ \E st : r = Status(v, st)
        \/ r = Data(v, <<>>)
        \/ v.type = "string" /\ r = Data(v, v.data)
    BY <2>1, Zenon DEF SaveStr, OfType
  <2> QED BY <1>2, <2>2, Forms, EmptyIsSeq
<1>5. ASSUME c.cmd = "pfmerge", i > 1 PROVE IsSeq(r.rep)
  <2>1. r = PfSource(v)
    BY <1>5, <1>0, Categories DEF Handle, HllCmd
  <2>2. \/ \E st : r = Status(v, st)
        \/ r = Data(v, <<>>)
        \/ v.type = "hyperloglog" /\ r = Data(v, v.data)
    BY <2>1, Zenon DEF PfSource, OfType
  <2> QED BY <1>2, <2>2, Forms, EmptyIsSeq
<1>6. ASSUME c.cmd = "zstore", i > 1
      PROVE  (r.st = "ok" /\ IsSaved(r.rep)) \/ r.st = "bad_type"
  <2>1. r = SaveZSet(v)
    BY <1>6, <1>0, Categories DEF Handle, ZSetCmd, ZCmd
  <2> DEFINE t == IF v.type = "none" THEN "nodata" ELSE v.type
             z == IF v.type \in {"zset", "geo"} THEN v.data ELSE <<>>
  <2>2. \/ r = Status(v, "bad_type")
        \/ /\ v.type \in {"zset", "geo", "none", "nodata"}
           /\ r = Data(v, [type |-> t, z |-> z])
    BY <2>1 DEF SaveZSet, ZTypes
  <2>3. ASSUME v.type \in {"zset", "geo", "none", "nodata"}
        PROVE  IsSaved([type |-> t, z |-> z])
    <3>1. t \in {"nodata", "zset", "geo"}
      BY <2>3
    <3>2. IsZSet(z)
      <4>1. IsZSet(<<>>)
        BY DEF IsZSet
      <4> QED BY <4>1, Forms
    <3> HIDE DEF t, z
    <3> QED BY <3>1, <3>2 DEF IsSaved
  <2> HIDE DEF t, z
  <2> QED BY <1>2, <2>2, <2>3
<1>7. ASSUME c.cmd = "rename", i = 1, y.dep = 0 PROVE r.st = "depends" /\ WellFormed(r.rep)
  <2>1. c.catg = "key"
    BY <1>7, Categories
  <2>2. PICK stamp \in Stamps(y) : r = KeyCmd(c, i, y, stamp)
    BY <1>0, <2>1, Zenon DEF Handle
  <2>3. r = [Wait(v) EXCEPT !.rep = v]
    BY <1>7, <2>2 DEF KeyCmd
  <2>4. r.st = "depends" /\ r.rep = v
    BY <2>3 DEF Wait, Status, Done
  <2> QED BY <2>4
<1>8. ASSUME c.cmd = "georadius", i = 1 PROVE r.rep \in Seq(Triples)
  <2>1. r = GRadius(v, c.from, c.at, c.radius, c.order, c.cnt, c.store)
    BY <1>8, <1>0, Categories DEF Handle, GeoCmd
  <2>2. c.at \in Int /\ c.radius \in Int /\ c.store \in {"none", "hash", "dist"}
    BY <1>1, <1>8 DEF IsArgs
  <2> QED BY <2>1, <2>2, GRadiusPlaces
<1> QED BY <1>3, <1>4, <1>5, <1>6, <1>7, <1>8 DEF Savings

\* What was saved is kept until the command ends.
LEMMA KeepsKept ==
    ASSUME NEW c, NEW n, n = Len(c.keys), NEW x, OnKeys(x, n), Keeps(c, x),
           NEW i, i = NextIndex(x), NEW y, y.dep = x.dep[i], NEW r, Savings(c, i, y, r),
           Continue(c, x, i, r).c # 0
    PROVE  LET z == Continue(c, x, i, r) IN z.c = x.c /\ OnKeys(z, n) /\ Keeps(c, z)
<1> PICK z : z = Continue(c, x, i, r)
  OBVIOUS
<1>1. i \in 1..n /\ x.st[i] \in Pending /\ (x.st[x.i] \in Pending => i = x.i)
  BY NextIsPending
<1>2. MovedOn(x, n, i, r, z)
  BY <1>1, KeyMoves
<1>3. /\ n \in Nat \ {0} /\ x.part = [j \in 1..n |-> x.part[j]] /\ x.dep \in [1..n -> Nat]
      /\ DOMAIN x.st = 1..n
  BY DEF OnKeys
<1>4. /\ z.c = x.c /\ OnKeys(z, n)
      /\ \/ r.st = "again" /\ z.st = x.st /\ z.part = x.part /\ z.dep = x.dep
         \/ /\ r.st # "again" /\ NextKey(r.st)
            /\ z.st = [x.st EXCEPT ![i] = r.st]
            /\ z.part = [x.part EXCEPT ![i] = PartOf(x, i, r)]
            /\ z.dep = IF r.st = "depends" THEN [x.dep EXCEPT ![i] = @ + 1] ELSE x.dep
  BY <1>2 DEF MovedOn
<1>5. \A j \in 1..n : \/ z.part[j] = x.part[j]
                      \/ j = i /\ z.part[j] = r.rep /\ x.dep[i] = 0
  BY <1>3, <1>4 DEF PartOf
<1>6. \A j \in 1..n : \/ z.dep[j] = x.dep[j] /\ (r.st = "again" \/ r.st # "depends" \/ j # i)
                      \/ j = i /\ r.st = "depends" /\ z.dep[j] = x.dep[j] + 1
  BY <1>3, <1>4
<1>7. 1 \in 1..n /\ \A j \in 2..n : j \in 1..n /\ (j = i => i > 1)
  BY <1>3
<1>8. c.cmd = "sstore" => \A j \in 2..n : IsSet(z.part[j])
  BY <1>5, <1>7 DEF Keeps, Savings
<1>9. c.cmd \in {"bitop", "pfmerge"} => \A j \in 2..n : IsSeq(z.part[j])
  BY <1>5, <1>7 DEF Keeps, Savings
<1>10. ASSUME c.cmd = "zstore", NEW j \in 2..n
       PROVE  z.dep[j] = 0 /\ (z.st[j] \in Pending \/ IsSaved(z.part[j]))
  <2>1. j \in 1..n /\ x.dep[j] = 0 /\ (x.st[j] \in Pending \/ IsSaved(x.part[j]))
    BY <1>7, <1>10 DEF Keeps
  <2>2. CASE j # i
    <3>1. z.dep[j] = x.dep[j] /\ z.part[j] = x.part[j]
      BY <1>5, <1>6, <2>1, <2>2
    <3>2. z.st[j] = x.st[j]
      BY <1>3, <1>4, <2>1, <2>2
    <3> QED BY <2>1, <3>1, <3>2
  <2>3. CASE j = i
    <3>1. (r.st = "ok" /\ IsSaved(r.rep)) \/ r.st = "bad_type"
      BY <1>7, <1>10, <2>3 DEF Savings
    <3>2. r.st = "ok" /\ IsSaved(r.rep)
      BY <1>4, <3>1, RanksOfKeys
    <3>3. z.dep[j] = 0
      BY <1>6, <2>1, <2>3, <3>2
    <3>4. z.part[j] = r.rep
      <4>1. PartOf(x, i, r) = r.rep
        BY <2>1, <2>3, <3>2 DEF PartOf
      <4>2. z.part = [x.part EXCEPT ![i] = r.rep]
        BY <1>4, <3>2, <4>1
      <4> QED BY <1>3, <2>1, <2>3, <4>2
    <3> QED BY <3>2, <3>3, <3>4
  <2> QED BY <2>2, <2>3
<1>11. ASSUME c.cmd = "rename"
       PROVE  z.dep[1] # 0 /\ WellFormed(z.part[1])
  <2>1. CASE x.dep[1] = 0
    <3>1. i = 1
      BY <1>1, <1>11, <2>1 DEF Keeps
    <3>2. r.st = "depends" /\ WellFormed(r.rep)
      BY <1>11, <2>1, <3>1 DEF Savings
    <3>3. z.dep[1] = 1
      BY <1>6, <1>7, <2>1, <3>1, <3>2
    <3>4. z.part[1] = r.rep
      <4>1. PartOf(x, i, r) = r.rep
        BY <2>1, <3>1, <3>2 DEF PartOf
      <4>2. z.part = [x.part EXCEPT ![i] = r.rep]
        BY <1>4, <3>2, <4>1
      <4> QED BY <1>3, <1>7, <3>1, <4>2
    <3> QED BY <3>2, <3>3, <3>4
  <2>2. CASE x.dep[1] # 0
    <3>1. WellFormed(x.part[1]) /\ x.dep[1] \in Nat
      BY <1>3, <1>7, <1>11, <2>2 DEF Keeps
    <3>2. z.part[1] = x.part[1]
      BY <1>5, <1>7, <2>2
    <3>3. z.dep[1] # 0
      BY <1>6, <1>7, <2>2, <3>1
    <3> QED BY <3>1, <3>2, <3>3
  <2> QED BY <2>1, <2>2
<1>12. c.cmd = "georadius" => z.part[1] \in Seq(Triples)
  BY <1>5, <1>7 DEF Keeps, Savings
<1>13. Keeps(c, z)
  BY <1>8, <1>9, <1>10, <1>11, <1>12 DEF Keeps
<1> QED BY <1>4, <1>13

\* What is stored of a sound outcome is an entry.
LEMMA StoredEntry ==
    ASSUME NEW e, IsEntry(e), NEW t, NEW r, Sound(r)
    PROVE  IsEntry(Fetched(e, t)) /\ IsEntry(Stored(Fetched(e, t), r))
<1>1. \A v, exp : Entry(v, exp).v = v /\ Entry(v, exp).exp = exp
  BY DEF Entry
<1>2. \A v : \A exp \in Nat : WellFormed(v) /\ (v = Absent => exp = 0) => IsEntry(Entry(v, exp))
  BY <1>1 DEF IsEntry
<1>3. IsEntry(NoEntry)
  BY <1>2, Builds DEF NoEntry
<1>4. IsEntry(Fetched(e, t))
  BY <1>3 DEF Fetched
<1> PICK f : f = Fetched(e, t)
  OBVIOUS
<1>5. f.exp \in Nat
  BY <1>4 DEF IsEntry
<1>6. Keep \notin Nat
  BY DEF Keep
<1>7. IsEntry(Stored(f, r))
  BY <1>2, <1>3, <1>5, <1>6 DEF Stored, Sound
<1> QED BY <1>4, <1>7

-----------------------------------------------------------------------------
(* The invariant of the store *)

\* a call that runs has a key to run, and has saved what it needs
Running(c, x) == OnKeys(x, Len(c.keys)) /\ Keeps(c, x)

StoreInv ==
    /\ Basics
    /\ \A k \in Keys : IsEntry(db[k])
    /\ now \in 1..MaxNow /\ left \in 0..M.len
    /\ \A s \in Sessions : sess[s].c # 0 => Running(CallOf(s), sess[s])

\* At first the keys are those of the menu.
LEMMA StoreInit == Init => StoreInv
<1> SUFFICES ASSUME Init PROVE StoreInv
  OBVIOUS
<1>1. Basics
  BY BasicsInit
<1>2. IsMenu(M)
  BY <1>1, MenuOK DEF Basics
<1>3. \A k \in Keys : IsEntry(db[k])
  BY <1>2 DEF Init, IsMenu
<1>4. now \in 1..MaxNow /\ left \in 0..M.len
  BY <1>2, NowAssumption DEF Init, IsMenu
<1>5. \A s \in Sessions : sess[s].c = 0
  BY DEF Init, Idle
<1> QED BY <1>1, <1>3, <1>4, <1>5 DEF StoreInv

\* A call that starts has saved nothing.
LEMMA StartRuns ==
    ASSUME StoreInv, NEW s \in M.sessions, NEW c \in DOMAIN M.calls, Start(s, c)
    PROVE  Running(M.calls[c], sess'[s])
<1> PICK x : x = sess'[s]
  OBVIOUS
<1> PICK call : call = M.calls[c]
  OBVIOUS
<1> PICK n : n = Len(call.keys)
  OBVIOUS
<1>1. Basics
  BY DEF StoreInv
<1>2. /\ DOMAIN x = SessFields /\ x.i = 1
      /\ x.st = [i \in 1..n |-> "continue"] /\ x.dep = [i \in 1..n |-> 0]
      /\ x.part = [i \in 1..n |-> <<>>] /\ AtKey(x, n)
  BY <1>1, StartStep
<1>3. /\ n \in Nat \ {0} /\ Len(x.st) = n /\ DOMAIN x.ival = 1..n /\ 1 \in 1..n
      /\ \A j \in 1..n : x.st[j] = "continue" /\ x.dep[j] = 0 /\ x.part[j] = <<>>
  BY <1>2 DEF AtKey
<1>4. OnKeys(x, n)
  <2>1. x.dep \in [1..n -> Nat]
    BY <1>2
  <2>2. x.part = [j \in 1..n |-> x.part[j]]
    BY <1>2
  <2>3. DOMAIN x.st = 1..n
    BY <1>2
  <2>4. \E j \in 1..n : x.st[j] \in Pending
    BY <1>3 DEF Pending
  <2>5. \A j \in 1..n : NextKey(x.st[j])
    BY <1>3, RanksOfKeys
  <2>6. DOMAIN x = SessFields /\ x.i \in 1..n
    BY <1>2, <1>3
  <2> QED BY <1>3, <2>1, <2>2, <2>3, <2>4, <2>5, <2>6 DEF OnKeys
<1>5. IsSet(<<>>) /\ IsSeq(<<>>) /\ <<>> \in Seq(Triples)
  BY EmptyIsSeq DEF IsSet
<1>6. \A j \in 2..n : j \in 1..n
  BY <1>3
<1>7. x.st[1] \in Pending /\ \A j \in 1..n : x.st[j] \in Pending
  BY <1>3 DEF Pending
<1>8. Keeps(call, x)
  BY <1>2, <1>3, <1>5, <1>6, <1>7 DEF Keeps
<1> QED BY <1>4, <1>8 DEF Running

\* A step of a session runs a handler that is sound, and tells who waits.
Handled(s, c, x, i, k, r) ==
    /\ s \in Sessions /\ x.c # 0 /\ IsCall(c) /\ i \in DOMAIN c.keys /\ k \in Keys
    /\ IsEntry(Fetched(db[k], now))
    /\ r \in Handle(c, i, Context(x, k, i))
    /\ Gathered(c, i, Context(x, k, i)) /\ Savings(c, i, Context(x, k, i), r)
    /\ Sound(r) /\ (~Quiet(c) => Outcome(Fetched(db[k], now).v, r))
    /\ db' = [db EXCEPT ![k] = Stored(Fetched(db[k], now), r)]
    /\ sess'[s] = Continue(c, x, i, r)
    /\ DOMAIN sess' = Sessions /\ \A t \in Sessions \ {s} : sess'[t] = sess[t]
    /\ UNCHANGED <<now, menu, left>>

\* Every step is one.
LEMMA StepHandles ==
    ASSUME StoreInv, NEW s \in M.sessions, Step(s)
    PROVE  \E r : Handled(s, CallOf(s), sess[s], NextIndex(sess[s]),
                          CallOf(s).keys[NextIndex(sess[s])], r)
<1> PICK x : x = sess[s]
  OBVIOUS
<1> PICK c : c = CallOf(s)
  OBVIOUS
<1> PICK i : i = NextIndex(x)
  OBVIOUS
<1> PICK k : k = c.keys[i]
  OBVIOUS
<1> PICK y : y = Context(x, k, i)
  OBVIOUS
<1>1. Basics
  BY DEF StoreInv
<1>2. s \in Sessions /\ x.c # 0 /\ x.c \in DOMAIN M.calls
      /\ DOMAIN sess' = Sessions /\ (\A t \in Sessions \ {s} : sess'[t] = sess[t])
      /\ UNCHANGED <<now, menu, left>>
  BY <1>1, KeyStep
<1>3. PICK r \in Handle(c, i, y) : /\ db' = [db EXCEPT ![k] = Stored(Fetched(db[k], now), r)]
                                   /\ sess'[s] = Continue(c, x, i, r)
  BY <1>1, KeyStep, Zenon
<1>4. IsMenu(M)
  BY <1>1, MenuOK DEF Basics
<1>5. IsCall(c)
  BY <1>2, <1>4 DEF IsMenu, CallOf
<1>6. OnKeys(x, Len(c.keys)) /\ Keeps(c, x)
  BY <1>2 DEF StoreInv, Running
<1>7. i \in 1..Len(c.keys) /\ c.keys \in Seq(Keys)
  BY <1>5, <1>6, NextIsPending DEF IsCall, IsArity
<1>8. i \in DOMAIN c.keys /\ k \in Keys
  BY <1>7
<1> PICK e : e = Fetched(db[k], now)
  OBVIOUS
<1>9. IsEntry(e)
  <2>1. IsEntry(db[k])
    BY <1>8 DEF StoreInv
  <2>2. Sound(Status(Absent, "ok"))
    BY GoodSame, Builds DEF Sound, Outcome
  <2> QED BY <2>1, <2>2, StoredEntry
<1>10. y.e = e /\ y.v = e.v /\ y.now = now
  BY DEF Context
<1>11. now \in Nat
  BY NowAssumption DEF StoreInv
<1>12. Gathered(c, i, y)
  BY <1>5, <1>6, GatheredOf
<1>13. Sound(r) /\ (~Quiet(c) => Outcome(y.v, r))
  BY <1>3, <1>5, <1>8, <1>9, <1>10, <1>11, <1>12, HandleGood
<1>14. WellFormed(y.v)
  BY <1>9, <1>10 DEF IsEntry
<1>15. Savings(c, i, y, r)
  BY <1>3, <1>5, <1>8, <1>14, SavingsGood
<1>16. Handled(s, c, x, i, k, r)
  BY <1>2, <1>3, <1>5, <1>8, <1>9, <1>10, <1>12, <1>13, <1>15 DEF Handled
<1> QED BY <1>16

\* Every step keeps the invariant.
LEMMA StoreKept == StoreInv /\ [Next]_cvars => StoreInv'
<1> SUFFICES ASSUME StoreInv, [Next]_cvars PROVE StoreInv'
  OBVIOUS
<1>0. Basics'
  BY BasicsKept DEF StoreInv
<1>1. CASE UNCHANGED cvars
  BY <1>1, <1>0 DEF StoreInv, cvars, CallOf, M, Running, Keeps
<1>2. ASSUME NEW s \in M.sessions, NEW c \in DOMAIN M.calls, Start(s, c) PROVE StoreInv'
  <2>1. /\ s \in Sessions /\ sess'[s].c = c
        /\ DOMAIN sess' = Sessions /\ \A t \in Sessions \ {s} : sess'[t] = sess[t]
        /\ UNCHANGED <<db, now, menu>>
    BY <1>2, StartStep DEF StoreInv
  <2>2. Running(M.calls[c], sess'[s])
    BY <1>2, StartRuns
  <2>3. left' \in 0..M.len
    <3> PICK m : m = M.len
      OBVIOUS
    <3>1. left > 0 /\ left' = left - 1 /\ left \in 0..m
      BY <1>2 DEF Start, StoreInv
    <3>2. m \in Nat
      BY MenuOK DEF StoreInv, Basics, IsMenu
    <3>3. left' \in 0..m
      BY ONLY <3>1, <3>2
    <3> QED BY <3>3
  <2>4. M' = M
    BY <2>1 DEF M
  <2>5. ASSUME NEW t \in Sessions, sess'[t].c # 0
        PROVE  Running(M.calls[sess'[t].c], sess'[t])
    <3>1. CASE t = s
      BY <2>1, <2>2, <3>1
    <3>2. CASE t # s
      BY <2>1, <2>5, <3>2 DEF StoreInv, CallOf
    <3> QED BY <3>1, <3>2
  <2>6. \A t \in Sessions : sess'[t].c # 0 => Running(CallOf(t), sess[t])'
    BY <2>4, <2>5 DEF CallOf, Running, Keeps
  <2>7. (\A k \in Keys : IsEntry(db[k])') /\ now' \in 1..MaxNow /\ left' \in 0..(M.len)'
    BY <2>1, <2>3, <2>4 DEF StoreInv
  <2> QED BY <1>0, <2>6, <2>7 DEF StoreInv
<1>3. ASSUME NEW s \in M.sessions, Step(s) PROVE StoreInv'
  <2> PICK x : x = sess[s]
    OBVIOUS
  <2> PICK c : c = CallOf(s)
    OBVIOUS
  <2> PICK i : i = NextIndex(x)
    OBVIOUS
  <2> PICK k : k = c.keys[i]
    OBVIOUS
  <2>1. PICK r : Handled(s, c, x, i, k, r)
    BY <1>3, StepHandles
  <2>2. M' = M /\ now' = now /\ left' = left /\ s \in Sessions
    BY <2>1 DEF M, Handled
  <2>3. \A q \in Keys : IsEntry(db'[q])
    <3>1. \A q \in Keys : db'[q] = IF q = k THEN Stored(Fetched(db[k], now), r) ELSE db[q]
      BY <2>1 DEF Handled, StoreInv, Basics
    <3>2. IsEntry(Stored(Fetched(db[k], now), r))
      BY <2>1, StoredEntry DEF Handled, StoreInv
    <3> QED BY <3>1, <3>2 DEF StoreInv
  <2>4. ASSUME NEW t \in Sessions, sess'[t].c # 0
        PROVE  Running(M.calls[sess'[t].c], sess'[t])
    <3>1. CASE t = s
      <4>1. OnKeys(x, Len(c.keys)) /\ Keeps(c, x)
        BY <2>1 DEF Handled, StoreInv, Running
      <4>2. sess'[t] = Continue(c, x, i, r) /\ Savings(c, i, Context(x, k, i), r)
        BY <2>1, <3>1 DEF Handled
      <4> PICK y : y = Context(x, k, i)
        OBVIOUS
      <4>3. y.dep = x.dep[i] /\ Savings(c, i, y, r)
        BY <4>2 DEF Context
      <4> PICK n : n = Len(c.keys)
        OBVIOUS
      <4>4. OnKeys(x, n) /\ Keeps(c, x) /\ i = NextIndex(x)
        BY <4>1
      <4> PICK z : z = Continue(c, x, i, r)
        OBVIOUS
      <4>5. z.c # 0 /\ z = sess'[t]
        BY <2>4, <4>2
      <4>6. z.c = x.c /\ OnKeys(z, n) /\ Keeps(c, z)
        <5>1. n = Len(c.keys) /\ i = NextIndex(x) /\ z = Continue(c, x, i, r)
          OBVIOUS
        <5>2. Continue(c, x, i, r).c # 0
          BY <4>5
        <5>3. LET w == Continue(c, x, i, r) IN w.c = x.c /\ OnKeys(w, n) /\ Keeps(c, w)
          BY ONLY <5>1, <5>2, <4>3, <4>4, KeepsKept, SMTT(30)
        <5> QED BY <5>3
      <4> QED BY <4>5, <4>6 DEF Running, CallOf
    <3>2. CASE t # s
      <4>1. sess'[t] = sess[t]
        BY <2>1, <3>2 DEF Handled
      <4> QED BY <2>4, <4>1 DEF StoreInv, CallOf
    <3> QED BY <3>1, <3>2
  <2>5. \A t \in Sessions : sess'[t].c # 0 => Running(CallOf(t), sess[t])'
    BY <2>2, <2>4 DEF CallOf, Running, Keeps
  <2>6. now' \in 1..MaxNow /\ left' \in 0..(M.len)'
    BY <2>2 DEF StoreInv
  <2> QED BY <1>0, <2>3, <2>5, <2>6 DEF StoreInv
<1>4. ASSUME Tick PROVE StoreInv'
  <2>1. now' \in 1..MaxNow /\ UNCHANGED <<db, menu, sess, left>>
    BY <1>4, NowAssumption DEF Tick, StoreInv
  <2>2. M' = M
    BY <2>1 DEF M
  <2> QED BY <1>0, <2>1, <2>2 DEF StoreInv, CallOf, Running, Keeps
<1> QED BY <1>1, <1>2, <1>3, <1>4 DEF Next

\* Every value the commands leave is well formed, and every command that
\* runs has a key to run (TypeOK).
THEOREM TypeCorrect == Spec => []TypeOK
<1>1. StoreInv => TypeOK
  <2> SUFFICES ASSUME StoreInv PROVE TypeOK
    OBVIOUS
  <2>1. (\A k \in Keys : IsEntry(db[k])) /\ now \in 1..MaxNow /\ left \in 0..M.len
    BY DEF StoreInv
  <2>2. IsMenu(M)
    BY MenuOK DEF StoreInv, Basics
  <2>3. ASSUME NEW s \in Sessions
        PROVE  /\ sess[s].c \in 0..Len(M.calls)
               /\ sess[s].c # 0 =>
                     /\ DOMAIN sess[s].st = DOMAIN M.calls[sess[s].c].keys
                     /\ \E i \in DOMAIN sess[s].st : sess[s].st[i] \in Pending
                     /\ \A i \in DOMAIN sess[s].st : NextKey(sess[s].st[i])
    <3>1. sess[s].c \in {0} \cup DOMAIN M.calls
      BY DEF StoreInv, Basics
    <3>2. sess[s].c \in 0..Len(M.calls)
      BY <2>2, <3>1 DEF IsMenu
    <3>3. ASSUME sess[s].c # 0
          PROVE  /\ DOMAIN sess[s].st = DOMAIN M.calls[sess[s].c].keys
                 /\ \E i \in DOMAIN sess[s].st : sess[s].st[i] \in Pending
                 /\ \A i \in DOMAIN sess[s].st : NextKey(sess[s].st[i])
      <4>1. OnKeys(sess[s], Len(CallOf(s).keys))
        BY <3>3 DEF StoreInv, Running
      <4>2. CallOf(s).keys \in Seq(Keys)
        BY <2>2, <3>1, <3>3 DEF IsMenu, IsCall, IsArity, CallOf
      <4>3. DOMAIN CallOf(s).keys = 1..Len(CallOf(s).keys)
        BY <4>2
      <4> QED BY <4>1, <4>3 DEF OnKeys, CallOf
    <3> QED BY <3>2, <3>3
  <2> QED BY <2>1, <2>3 DEF TypeOK
<1>2. Spec => []StoreInv
  BY StoreInit, StoreKept, PTL DEF Spec
<1> QED BY <1>1, <1>2, PTL

-----------------------------------------------------------------------------
(* What the runs check of the values a key may have *)

\* The invariant holds in every state.
LEMMA StoreAlways == Spec => []StoreInv
BY StoreInit, StoreKept, PTL DEF Spec

\* The value of a key is well formed.
LEMMA ValueOfKey ==
    ASSUME StoreInv, NEW k \in Keys
    PROVE  WellFormed(db[k].v)
BY DEF StoreInv, IsEntry

\* What SETRANGE and APPEND write is what GETRANGE answers, whatever string
\* the commands have left in a key (RangeRoundTrip).
THEOREM RangeRoundTripCorrect == Spec => []RangeRoundTrip
<1>1. StoreInv => RangeRoundTrip
  <2> SUFFICES ASSUME StoreInv, NEW k \in OfTypes({"string", "none"}), NEW off \in 0..3,
                      NEW x \in {<< 7 >>, << 7, 8 >>}
               PROVE  RoundTrip(db[k].v, off, x)
    BY DEF RangeRoundTrip
  <2> PICK v : v = db[k].v
    OBVIOUS
  <2>1. k \in Keys /\ v.type \in {"string", "none"}
    BY DEF OfTypes
  <2>2. WellFormed(v)
    BY <2>1, ValueOfKey
  <2> PICK T : T = ToSet(v.data) \cup {0, 7, 8}
    OBVIOUS
  <2>3. v.type = "string" => v.data \in Seq(T)
    <3>1. v.type = "string" => IsSeq(v.data)
      BY <2>2, Forms
    <3>2. ToSet(v.data) \subseteq T
      OBVIOUS
    <3> QED BY <3>1, <3>2, SeqMonotonic DEF IsSeq
  <2>4. x \in Seq(T) /\ x # <<>>
    <3>1. 7 \in T /\ 8 \in T
      OBVIOUS
    <3>2. <<7>> \in Seq(T) /\ <<7, 8>> \in Seq(T) /\ Len(<<7>>) = 1 /\ Len(<<7, 8>>) = 2
      BY ONLY <3>1
    <3>3. x = <<7>> \/ x = <<7, 8>>
      OBVIOUS
    <3>4. x \in Seq(T)
      BY ONLY <3>2, <3>3, Zenon
    <3>5. <<7>> # <<>> /\ <<7, 8>> # <<>>
      BY ONLY <3>2
    <3>6. x # <<>>
      BY ONLY <3>3, <3>5, Zenon
    <3> QED BY <3>4, <3>6
  <2>5. 0 \in T /\ off \in Nat
    OBVIOUS
  <2> QED BY <2>1, <2>3, <2>4, <2>5, RoundTripCorrect
<1> QED BY <1>1, StoreAlways, PTL

\* The random indices of SPOP are as many as were asked for, or all.
LEMMA DrawsSize ==
    ASSUME NEW n \in 1..16, NEW count \in Nat \ {0}, NEW b \in Draws(n, count)
    PROVE  /\ b \subseteq 0..(count - 1) /\ IsFiniteSet(b)
           /\ Cardinality(b) = IF n < count THEN n ELSE count
<1> DEFINE all == 0..(count - 1)
<1>1. IsFiniteSet(all) /\ Cardinality(all) = count
  <2>1. 0 \in Int /\ count - 1 \in Int
    OBVIOUS
  <2>2. IsFiniteSet(all) /\ Cardinality(all) = IF 0 > count - 1 THEN 0 ELSE (count - 1) - 0 + 1
    BY ONLY <2>1, FS_Interval
  <2>3. ~(0 > count - 1) /\ (count - 1) - 0 + 1 = count
    OBVIOUS
  <2> QED BY ONLY <2>2, <2>3
<1>2. ASSUME NEW k \in Nat, NEW t \in kSubset(k, all)
      PROVE  t \subseteq all /\ IsFiniteSet(t) /\ Cardinality(t) = k
  <2>1. t \in SUBSET all /\ Cardinality(t) = k
    BY <1>2 DEF kSubset
  <2>2. IsFiniteSet(t)
    BY <1>1, <2>1, FS_Subset
  <2> QED BY <2>1, <2>2
<1>3. CASE n >= count
  <2>1. b = all
    BY <1>3 DEF Draws
  <2> QED BY <1>1, <1>3, <2>1
<1>4. CASE n < count /\ n = 1
  <2>1. PICK i \in all : b = {i}
    <3>1. b \in {{i} : i \in all}
      BY <1>4 DEF Draws
    <3> QED BY <3>1
  <2>2. IsFiniteSet({i}) /\ Cardinality({i}) = 1
    BY FS_Singleton
  <2> QED BY <1>4, <2>1, <2>2
<1>5. CASE n < count /\ n > 1 /\ n > count \div 2
  <2>1. PICK t \in kSubset(count - n, all) : b \in Flip(t, count)
    <3>1. b \in UNION {Flip(t, count) : t \in kSubset(count - n, all)}
      BY <1>5 DEF Draws
    <3> QED BY <3>1
  <2>2. count < 32 /\ count \div 64 = 0 /\ count % 64 = count
    BY <1>5
  <2>3. b = all \ t
    <3>1. \A p \in all : p \div 64 = 0 /\ p % 64 = p
      BY <2>2
    <3>2. WordMask(count) = {all}
      BY <2>2 DEF WordMask
    <3> DEFINE Kept_(w, mask) == {p \in all : p \notin t /\ (p \div 64 = w => p % 64 \in mask)}
    <3>3. Flip(t, count) = {Kept_(count \div 64, mask) : mask \in WordMask(count % 64)}
      BY Zenon DEF Flip
    <3>4. Flip(t, count) = {Kept_(0, all)}
      <4> HIDE DEF Kept_, all
      <4>1. count \div 64 = 0 /\ WordMask(count % 64) = {all}
        BY ONLY <2>2, <3>2
      <4>2. \A w, W : w = 0 /\ W = {all} => {Kept_(w, mask) : mask \in W} = {Kept_(0, all)}
        OBVIOUS
      <4> QED BY ONLY <3>3, <4>1, <4>2
    <3>5. {p \in all : p \notin t /\ (p \div 64 = 0 => p % 64 \in all)} = all \ t
      <4> HIDE DEF all
      <4> QED BY <3>1
    <3>6. Kept_(0, all) = all \ t
      BY <3>5
    <3> HIDE DEF all, Kept_
    <3> QED BY <2>1, <3>4, <3>6
  <2>4. count - n \in Nat
    BY <1>5
  <2>5. t \subseteq all /\ IsFiniteSet(t) /\ Cardinality(t) = count - n
    BY <1>2, <2>4
  <2>6. Cardinality(all \ t) = Cardinality(all) - Cardinality(all \cap t) /\ IsFiniteSet(all \ t)
    BY <1>1, FS_Difference
  <2>7. all \cap t = t
    BY <2>5
  <2> HIDE DEF all
  <2>8. Cardinality(b) = n
    BY <1>1, <2>3, <2>5, <2>6, <2>7
  <2> QED BY <1>5, <2>3, <2>6, <2>8 DEF all
<1>6. CASE n < count /\ n > 1 /\ ~(n > count \div 2)
  <2>1. b \in kSubset(n, all)
    BY <1>6 DEF Draws
  <2> QED BY <1>2, <1>6, <2>1
<1> QED BY <1>3, <1>4, <1>5, <1>6

\* SPOP removes what it answers.
LEMMA SetPopCorrect ==
    ASSUME NEW v, v.type = "set", IsSet(v.data), v.data # <<>>, NEW n \in 1..16
    PROVE  SetPops(v, n)
<1> PICK m : m = v.data
  OBVIOUS
<1> PICK count : count = Len(m)
  OBVIOUS
<1>1. /\ IsSeq(m) /\ count \in Nat \ {0} /\ DOMAIN m = 1..count
      /\ \A i, j \in 1..count : m[i] = m[j] => i = j
  <2>1. IsSeq(m) /\ count \in Nat /\ DOMAIN m = 1..count
    BY SeqFacts DEF IsSet
  <2>2. count # 0
    BY <2>1, EmptySeq DEF IsSeq
  <2> QED BY <2>1, <2>2 DEF IsSet
<1> SUFFICES ASSUME NEW r \in SPop(v, n)
             PROVE  /\ Len(r.rep) = Min({n, Len(v.data)})
                    /\ Elems(r.v) = Select(v.data, LAMBDA p : p \notin ToSet(r.rep))
                    /\ r.v = Absent <=> n >= Len(v.data)
  BY DEF SetPops
<1>2. PICK b \in Draws(n, count) :
          r = IF Drawn(m, b) = <<>> THEN Data(v, Drawn(m, b))
              ELSE SetLeft(Minus_(m, ToSet(Drawn(m, b))), "ok", Drawn(m, b), 0)
  <2>1. r \in {LET d == Drawn(v.data, s)
               IN  IF d = <<>> THEN Data(v, d)
                   ELSE SetLeft(Minus_(v.data, ToSet(d)), "ok", d, 0) : s \in Draws(n, Len(v.data))}
    BY Zenon DEF SPop
  <2> QED BY <2>1, Zenon
<1> PICK d : d = Drawn(m, b)
  OBVIOUS
<1> DEFINE size == IF n < count THEN n ELSE count
<1>3. b \subseteq 0..(count - 1) /\ IsFiniteSet(b) /\ Cardinality(b) = size
  BY <1>1, DrawsSize
<1>3a. size \in Nat \ {0} /\ n \in Nat \ {0} /\ \A p \in b : p \in Int
  BY <1>1, <1>3
<1>3b. size = count <=> n >= count
  BY <1>1
<1> HIDE DEF size
<1>4. /\ IsSeq(d) /\ Len(d) = size /\ d # <<>>
      /\ ToSet(d) = {m[1 + p] : p \in b}
  <2> DEFINE C(i) == CHOOSE x \in b : Cardinality({y \in b : y < x}) = i - 1
             R == {p \in b \X b : p[1] < p[2]}
  <2> PICK f : f = InOrder(b, <)
    OBVIOUS
  <2>1. f = [i \in 1..Cardinality(b) |-> C(i)]
    BY Zenon DEF InOrder
  <2>2. Orders(b, R)
    <3>2. \A p, q \in b : <<p, q>> \in R <=> p < q
      OBVIOUS
    <3> HIDE DEF R
    <3>3. \A p, q, z \in b : <<p, q>> \in R /\ <<q, z>> \in R => <<p, z>> \in R
      BY ONLY <1>3a, <3>2
    <3>4. \A p, q \in b : p = q \/ <<p, q>> \in R \/ <<q, p>> \in R
      <4>1. \A p, q \in b : p = q \/ p < q \/ q < p
        BY ONLY <1>3a
      <4> QED BY ONLY <3>2, <4>1, Zenon
    <3>5. \A p \in b : <<p, p>> \notin R
      BY ONLY <1>3a, <3>2
    <3> QED BY <3>3, <3>4, <3>5 DEF Orders
  <2>3. \A x \in b : {y \in b : y < x} = {y \in b : <<y, x>> \in R}
    OBVIOUS
  <2> HIDE DEF R
  <2>4. \A i : C(i) = CHOOSE x \in b : Cardinality({y \in b : <<y, x>> \in R}) = i - 1
    BY <2>3
  <2> HIDE DEF C
  <2>5. f = Ranked(b, R)
    BY <2>1, <2>4, Zenon DEF Ranked
  <2>6. Lists(f, b, R)
    BY <1>3, <2>2, <2>5, RankedLists
  <2>7. DOMAIN f = 1..size /\ ToSet(f) = b
    BY <1>3, <2>6 DEF Lists
  <2>8. d = [i \in DOMAIN f |-> m[1 + f[i]]]
    BY Zenon DEF Drawn
  <2>10. d = [i \in 1..size |-> d[i]]
    BY <2>7, <2>8
  <2>11. IsSeq(d) /\ Len(d) = size /\ DOMAIN d = 1..size
    BY <1>3a, <2>10, FunIsSeq
  <2>12. d # <<>>
    <3>1. Len(<<>>) = 0
      OBVIOUS
    <3> QED BY <1>3a, <2>11, <3>1
  <2>13. ToSet(d) = {m[1 + p] : p \in b}
    <3>1. \A i \in 1..size : d[i] = m[1 + f[i]] /\ f[i] \in b
      BY <2>7, <2>8 DEF ToSet
    <3>2. \A p \in b : \E i \in 1..size : f[i] = p
      BY <2>7 DEF ToSet
    <3>3. ToSet(d) = {d[i] : i \in 1..size}
      BY <2>11 DEF ToSet
    <3> PICK D : D = ToSet(d)
      OBVIOUS
    <3>4. D = {d[i] : i \in 1..size}
      BY <3>3
    <3>5. D = {m[1 + p] : p \in b}
      BY ONLY <3>1, <3>2, <3>4
    <3> QED BY <3>5
  <2> QED BY <2>11, <2>12, <2>13
<1> PICK w : w = Minus_(m, ToSet(d))
  OBVIOUS
<1>5. r = SetLeft(w, "ok", d, 0)
  BY <1>2, <1>4
<1>6. r.rep = d /\ r.v = IF w = <<>> THEN Absent ELSE SetVal(w)
  BY <1>5 DEF SetLeft, Done
<1>7. Min({n, Len(v.data)}) = size
  <2>1. \A p, q \in Int : Min({p, q}) = IF p < q THEN p ELSE q
    BY DEF Min
  <2>2. n \in Int /\ count \in Int
    BY <1>1
  <2>3. Min({n, count}) = IF n < count THEN n ELSE count
    BY ONLY <2>1, <2>2
  <2> QED BY <2>3 DEF size
<1>8. Elems(r.v) = w
  BY <1>6 DEF Elems, SetVal, Val, Absent
<1>9. Select(v.data, LAMBDA p : p \notin ToSet(d)) = w
  BY DEF Minus_
<1>10. r.v = Absent <=> w = <<>>
  BY <1>6 DEF SetVal, Val, Absent
<1>11. w = <<>> <=> n >= count
  <2>1. ToSet(w) = ToSet(m) \ ToSet(d) /\ IsSeq(w)
    <3>1. m \in Seq(ToSet(m))
      BY <1>1 DEF IsSeq
    <3>2. w \in Seq(ToSet(m)) /\ ToSet(w) = ToSet(m) \ ToSet(d)
      BY <3>1, MinusSet
    <3> QED BY <3>2, SeqIsSeq
  <2>2. w = <<>> <=> ToSet(w) = {}
    <3>1. Len(w) \in Nat /\ DOMAIN w = 1..Len(w)
      BY <2>1, SeqFacts
    <3>2. w = <<>> <=> Len(w) = 0
      BY <2>1, EmptySeq DEF IsSeq
    <3>3. ToSet(w) = {} <=> Len(w) = 0
      <4>1. ToSet(w) = {w[i] : i \in 1..Len(w)}
        BY <3>1 DEF ToSet
      <4>2. Len(w) # 0 => w[1] \in ToSet(w)
        BY <3>1, <4>1
      <4>3. Len(w) = 0 => ToSet(w) = {}
        BY <3>1, <4>1
      <4> QED BY <4>2, <4>3
    <3> QED BY <3>2, <3>3
  <2>3. ToSet(m) = {m[1 + p] : p \in 0..(count - 1)}
    <3>1. \A i \in 1..count : i - 1 \in 0..(count - 1) /\ 1 + (i - 1) = i
      BY <1>1
    <3>2. \A p \in 0..(count - 1) : 1 + p \in 1..count
      BY <1>1
    <3>3. ToSet(m) = {m[i] : i \in 1..count}
      BY <1>1 DEF ToSet
    <3> QED BY ONLY <3>1, <3>2, <3>3
  <2>4. ASSUME n >= count PROVE w = <<>>
    <3>1. b = 0..(count - 1)
      <4>1. IsFiniteSet(0..(count - 1)) /\ Cardinality(0..(count - 1)) = count
        <5>1. 0 \in Int /\ count - 1 \in Int
          BY <1>1
        <5>2. /\ IsFiniteSet(0..(count - 1))
              /\ Cardinality(0..(count - 1)) = IF 0 > count - 1 THEN 0 ELSE (count - 1) - 0 + 1
          BY ONLY <5>1, FS_Interval
        <5>3. ~(0 > count - 1) /\ (count - 1) - 0 + 1 = count
          BY <1>1
        <5> QED BY ONLY <5>2, <5>3
      <4>2. Cardinality(b) = count
        BY <1>3, <1>3b, <2>4
      <4> QED BY <1>3, <4>1, <4>2, FS_Subset
    <3> QED BY <1>4, <2>1, <2>2, <2>3, <3>1
  <2>5. ASSUME ~(n >= count) PROVE w # <<>>
    <3>1. PICK p \in 0..(count - 1) : p \notin b
      <4>1. Cardinality(b) = n
        BY <1>3, <2>5 DEF size
      <4>2. b = 0..(count - 1) => Cardinality(b) = count
        <5>1. 0 \in Int /\ count - 1 \in Int
          BY <1>1
        <5>2. Cardinality(0..(count - 1)) = IF 0 > count - 1 THEN 0 ELSE (count - 1) - 0 + 1
          BY ONLY <5>1, FS_Interval
        <5>3. ~(0 > count - 1) /\ (count - 1) - 0 + 1 = count
          BY <1>1
        <5> QED BY ONLY <5>2, <5>3
      <4>3. n # count
        BY <1>1, <2>5
      <4> QED BY <1>3, <4>1, <4>2, <4>3
    <3>2. \A q \in b : q \in 0..(count - 1) /\ q # p
      BY <1>3, <3>1
    <3>3. \A q \in b : m[1 + q] # m[1 + p]
      <4>1. \A q \in 0..(count - 1) : 1 + q \in 1..count
        BY <1>1
      <4>2. \A q \in 0..(count - 1) : 1 + q = 1 + p => q = p
        BY <1>1
      <4> QED BY <1>1, <3>2, <4>1, <4>2
    <3>4. m[1 + p] \in ToSet(w)
      BY <1>4, <2>1, <2>3, <3>3
    <3> QED BY <2>2, <3>4
  <2> QED BY <2>4, <2>5
<1>12. /\ Len(r.rep) = Min({n, Len(v.data)})
       /\ r.v = Absent <=> n >= Len(v.data)
  BY <1>4, <1>6, <1>7, <1>10, <1>11
<1>13. Elems(r.v) = Select(v.data, LAMBDA p : p \notin ToSet(r.rep))
  BY <1>6, <1>8, <1>9
<1> QED BY <1>12, <1>13

\* What SPOP, ZPOPMIN, ZPOPMAX, LPOP and RPOP answer is what they remove,
\* whatever set, sorted set or list the commands have left
\* (PopsWhatItAnswers).
THEOREM PopsCorrect == Spec => []PopsWhatItAnswers
<1>1. StoreInv => PopsWhatItAnswers
  <2> SUFFICES ASSUME StoreInv, NEW k \in OfTypes({"set", "zset", "list"}), NEW n \in 1..3,
                      db[k].v.data # <<>>
               PROVE  LET v == db[k].v
                      IN  CASE v.type = "set"  -> SetPops(v, n)
                            [] v.type = "zset" -> ZSetPops(v, n)
                            [] v.type = "list" -> ListPops(v)
    BY DEF PopsWhatItAnswers
  <2> PICK v : v = db[k].v
    OBVIOUS
  <2>1. k \in Keys /\ v.type \in {"set", "zset", "list"} /\ v.data # <<>>
    BY DEF OfTypes
  <2>2. WellFormed(v)
    BY <2>1, ValueOfKey
  <2>3. n \in 1..16 /\ n \in Nat
    OBVIOUS
  <2>4. ASSUME v.type = "set" PROVE SetPops(v, n)
    BY <2>1, <2>2, <2>3, <2>4, Forms, SetPopCorrect
  <2>5. ASSUME v.type = "zset" PROVE ZSetPops(v, n)
    <3>1. v.data \in Seq(Pairs)
      BY <2>2, <2>5, Forms, ZSetFacts
    <3> QED BY <2>1, <2>3, <2>5, <3>1, ZSetPopCorrect
  <2>6. ASSUME v.type = "list" PROVE ListPops(v)
    <3>1. v.data \in Seq(ToSet(v.data))
      BY <2>2, <2>6, Forms DEF IsSeq
    <3> QED BY <2>1, <2>6, <3>1, ListPopCorrect
  <2> QED BY <2>1, <2>4, <2>5, <2>6
<1> QED BY <1>1, StoreAlways, PTL

\* One list of the places is no longer than another of the same places, and
\* they agree as far as it goes.
LEMMA KeptAgree ==
    ASSUME NEW s, NEW S, NEW q, NEW p, NEW idx, NEW jdx, IsSeq(s), IsSeq(q), IsSeq(p),
           Kept(q, s, S, idx), Kept(p, s, S, jdx)
    PROVE  Len(q) <= Len(p) /\ \A i \in 1..Len(q) : idx[i] = jdx[i]
<1> PICK n : n = Len(q)
  OBVIOUS
<1> PICK m : m = Len(p)
  OBVIOUS
<1>1. n \in Nat /\ m \in Nat /\ Len(s) \in Nat
  BY SeqFacts
<1>2. /\ \A j \in 1..n : idx[j] \in 1..Len(s) /\ \E k \in 1..m : jdx[k] = idx[j]
      /\ \A j \in 1..m : jdx[j] \in 1..Len(s) /\ \E k \in 1..n : idx[k] = jdx[j]
      /\ \A j, k \in 1..n : j < k => idx[j] < idx[k]
      /\ \A j, k \in 1..m : j < k => jdx[j] < jdx[k]
  BY DEF Kept
<1>2a. (\A j \in 1..n : idx[j] \in Int) /\ (\A j \in 1..m : jdx[j] \in Int)
  <2> PICK z \in Nat : z = Len(s)
    BY <1>1
  <2>1. (\A j \in 1..n : idx[j] \in 1..z) /\ (\A j \in 1..m : jdx[j] \in 1..z)
    BY <1>2
  <2>2. \A i \in 1..z : i \in Int
    OBVIOUS
  <2> QED BY ONLY <2>1, <2>2
<1> DEFINE P == {j \in 0..n : j <= m /\ \A i \in 1..j : idx[i] = jdx[i]}
<1>3. 0 \in P
  BY <1>1
<1>4. ASSUME NEW j \in 1..n, j - 1 \in P PROVE j \in P
  <2>1. j - 1 <= m /\ \A i \in 1..(j - 1) : idx[i] = jdx[i]
    BY <1>4
  <2>2. PICK k \in 1..m : jdx[k] = idx[j]
    BY <1>2
  <2>3. k >= j
    <3>1. ASSUME k < j PROVE FALSE
      <4>1. k \in 1..(j - 1) /\ k \in 1..n
        BY <1>1, <3>1
      <4>2. idx[k] = idx[j] /\ idx[k] < idx[j]
        BY <1>2, <2>1, <2>2, <3>1, <4>1
      <4>3. idx[j] \in Int
        BY <1>2a
      <4> QED BY ONLY <4>2, <4>3
    <3> QED BY <1>1, <3>1
  <2>4. j \in 1..m
    BY <1>1, <2>3
  <2>5. PICK l \in 1..n : idx[l] = jdx[j]
    BY <1>2, <2>4
  <2>6. l >= j
    <3>1. ASSUME l < j PROVE FALSE
      <4>1. l \in 1..(j - 1) /\ l \in 1..m
        BY <1>1, <2>4, <3>1
      <4>2. jdx[l] = jdx[j] /\ jdx[l] < jdx[j]
        BY <1>2, <2>1, <2>4, <2>5, <3>1, <4>1
      <4>3. jdx[j] \in Int
        BY <1>2a, <2>4
      <4> QED BY ONLY <4>2, <4>3
    <3> QED BY <1>1, <3>1
  <2>7. idx[j] = jdx[j]
    <3>1. jdx[j] <= idx[j]
      <4>1. j = k \/ j < k
        BY <1>1, <2>3
      <4>2. jdx[j] \in Int /\ jdx[k] \in Int
        BY <1>2a, <2>4
      <4>3. j < k => jdx[j] < jdx[k]
        BY <1>2, <2>4
      <4> QED BY ONLY <2>2, <4>1, <4>2, <4>3
    <3>2. idx[j] <= jdx[j]
      <4>1. j = l \/ j < l
        BY <1>1, <2>6
      <4>2. idx[j] \in Int /\ idx[l] \in Int
        BY <1>2a
      <4>3. j < l => idx[j] < idx[l]
        BY <1>2
      <4> QED BY ONLY <2>5, <4>1, <4>2, <4>3
    <3>3. idx[j] \in Int /\ jdx[j] \in Int
      BY <1>2a, <2>4
    <3> QED BY <3>1, <3>2, <3>3
  <2>8. \A i \in 1..j : i = j \/ i \in 1..(j - 1)
    BY <1>1
  <2> QED BY <1>1, <2>1, <2>4, <2>7, <2>8
<1>5. \A i \in 1..n : i - 1 \in P => i \in P
  BY <1>4
<1> HIDE DEF P
<1>6. \A i \in 0..n : i \in P
  BY ONLY <1>1, <1>3, <1>5, PlusFold!SetInduction
<1>7. n \in P
  BY <1>1, <1>6
<1> QED BY <1>7 DEF P

\* What is at all the places of the elements of S, in their order, is what
\* Only leaves.
LEMMA OnlyIs ==
    ASSUME NEW s, IsSeq(s), NEW S, NEW q, IsSeq(q), NEW idx, Kept(q, s, S, idx)
    PROVE  Only(s, S) = q
<1> PICK p : p = Only(s, S)
  OBVIOUS
<1>1. IsSeq(p)
  BY OnlyPlaces
<1>2. PICK jdx : Kept(p, s, S, jdx)
  BY OnlyPlaces
<1>3. Len(q) <= Len(p) /\ \A i \in 1..Len(q) : idx[i] = jdx[i]
  BY <1>1, <1>2, KeptAgree
<1>4. Len(p) <= Len(q)
  BY <1>1, <1>2, KeptAgree
<1>5. Len(p) \in Nat /\ Len(q) \in Nat /\ p = [i \in 1..Len(p) |-> p[i]] /\ q = [i \in 1..Len(q) |-> q[i]]
  BY <1>1, SeqFacts
<1>6. Len(p) = Len(q)
  <2>1. \A m, n \in Nat : n <= m /\ m <= n => m = n
    OBVIOUS
  <2> QED BY <1>3, <1>4, <1>5, <2>1
<1>7. \A i \in 1..Len(q) : q[i] = p[i]
  BY <1>2, <1>3, <1>6 DEF Kept
<1> QED BY <1>5, <1>6, <1>7

\* Elements that are the range from a + 1 to b.
LEMMA OnlySpan ==
    ASSUME NEW s, IsSeq(s), NEW S, NEW a \in 0..Len(s), NEW b \in 0..Len(s),
           \A i \in 1..Len(s) : s[i] \in S <=> a < i /\ i <= b
    PROVE  Only(s, S) = SubSeq(s, a + 1, b)
<1> PICK n \in Nat : n = Len(s)
  BY SeqFacts
<1>1. a \in 0..n /\ b \in 0..n /\ a + 1 \in Int /\ b \in Int
  OBVIOUS
<1> PICK q : q = SubSeq(s, a + 1, b)
  OBVIOUS
<1> DEFINE len == IF a + 1 <= b THEN b - (a + 1) + 1 ELSE 0
           idx == [j \in 1..len |-> a + j]
<1>2. IsSeq(q) /\ Len(q) = len /\ \A i \in 1..(b - (a + 1) + 1) : q[i] = s[(a + 1) + i - 1]
  BY ONLY <1>1, SubSeqIsSeq, q = SubSeq(s, a + 1, b)
<1>3. \A j \in 1..len : /\ a + j \in 1..n /\ a < a + j /\ a + j <= b
                        /\ j \in 1..(b - (a + 1) + 1) /\ (a + 1) + j - 1 = a + j
  BY <1>1
<1>4. \A i \in 1..n : a < i /\ i <= b => i - a \in 1..len /\ a + (i - a) = i
  BY <1>1
<1>5. \A j, k \in 1..len : j < k => a + j < a + k
  BY <1>1
<1> HIDE DEF len
<1>6. \A j \in 1..len : idx[j] \in 1..n /\ q[j] = s[idx[j]] /\ q[j] \in S
  BY <1>2, <1>3
<1>7. \A p \in 1..n : s[p] \in S => \E j \in 1..len : idx[j] = p
  BY <1>4
<1>8. \A j, k \in 1..len : j < k => idx[j] < idx[k]
  BY <1>5
<1> HIDE DEF idx
<1>9. Kept(q, s, S, idx)
  BY <1>2, <1>6, <1>7, <1>8 DEF Kept
<1> QED BY <1>2, <1>9, OnlyIs

\* Elements that are not in the range from a + 1 to b.
LEMMA OnlyCut ==
    ASSUME NEW s, IsSeq(s), NEW S, NEW a \in 0..Len(s), NEW b \in 0..Len(s), a <= b,
           \A i \in 1..Len(s) : s[i] \in S <=> i <= a \/ b < i
    PROVE  Only(s, S) = SubSeq(s, 1, a) \o SubSeq(s, b + 1, Len(s))
<1> PICK n \in Nat : n = Len(s)
  BY SeqFacts
<1>1. a \in 0..n /\ b \in 0..n /\ a \in Int /\ b + 1 \in Int /\ 1 \in Int /\ n \in Int
  OBVIOUS
<1> PICK l : l = SubSeq(s, 1, a)
  OBVIOUS
<1> PICK r : r = SubSeq(s, b + 1, n)
  OBVIOUS
<1> PICK q : q = l \o r
  OBVIOUS
<1>2. IsSeq(l) /\ Len(l) = a /\ \A i \in 1..a : l[i] = s[i]
  <2>1. IsSeq(l) /\ Len(l) = (IF 1 <= a THEN a - 1 + 1 ELSE 0)
        /\ \A i \in 1..(a - 1 + 1) : l[i] = s[1 + i - 1]
    BY ONLY <1>1, SubSeqIsSeq, l = SubSeq(s, 1, a)
  <2>2. (IF 1 <= a THEN a - 1 + 1 ELSE 0) = a /\ a - 1 + 1 = a /\ \A i \in 1..a : 1 + i - 1 = i
    BY <1>1
  <2> QED BY <2>1, <2>2
<1>3. IsSeq(r) /\ Len(r) = n - b /\ \A i \in 1..(n - b) : r[i] = s[b + i]
  <2>1. IsSeq(r) /\ Len(r) = (IF b + 1 <= n THEN n - (b + 1) + 1 ELSE 0)
        /\ \A i \in 1..(n - (b + 1) + 1) : r[i] = s[(b + 1) + i - 1]
    BY ONLY <1>1, SubSeqIsSeq, r = SubSeq(s, b + 1, n)
  <2>2. (IF b + 1 <= n THEN n - (b + 1) + 1 ELSE 0) = n - b /\ n - (b + 1) + 1 = n - b
        /\ \A i \in 1..(n - b) : (b + 1) + i - 1 = b + i
    BY <1>1
  <2> QED BY <2>1, <2>2
<1> DEFINE len == a + (n - b)
           idx == [j \in 1..len |-> IF j <= a THEN j ELSE b + (j - a)]
<1>4. IsSeq(q) /\ Len(q) = len /\ \A i \in 1..len : q[i] = IF i <= a THEN l[i] ELSE r[i - a]
  <2>1. IsSeq(q) /\ Len(q) = Len(l) + Len(r)
        /\ \A i \in 1..(Len(l) + Len(r)) : q[i] = IF i <= Len(l) THEN l[i] ELSE r[i - Len(l)]
    BY ONLY <1>2, <1>3, ConcatIsSeq, q = l \o r
  <2>2. len = Len(l) + Len(r) /\ Len(l) = a
    BY <1>2, <1>3
  <2> HIDE DEF len
  <2> QED BY ONLY <2>1, <2>2
<1>5. \A j \in 1..len : /\ j <= a => j \in 1..a /\ j \in 1..n
                        /\ ~(j <= a) => /\ b + (j - a) \in 1..n /\ b < b + (j - a)
                                        /\ j - a \in 1..(n - b)
  BY <1>1
<1>6. \A i \in 1..n : /\ i <= a => i \in 1..len
                      /\ b < i => a + (i - b) \in 1..len /\ ~(a + (i - b) <= a)
                                  /\ b + ((a + (i - b)) - a) = i
  BY <1>1
<1>7. \A j, k \in 1..len : j < k => (IF j <= a THEN j ELSE b + (j - a)) < (IF k <= a THEN k ELSE b + (k - a))
  BY <1>1
<1> HIDE DEF len
<1>8. \A j \in 1..len : idx[j] = IF j <= a THEN j ELSE b + (j - a)
  OBVIOUS
<1> HIDE DEF idx
<1>9. \A j \in 1..len : idx[j] \in 1..n /\ q[j] = s[idx[j]] /\ q[j] \in S
  <2> SUFFICES ASSUME NEW j \in 1..len PROVE idx[j] \in 1..n /\ q[j] = s[idx[j]] /\ q[j] \in S
    OBVIOUS
  <2>0. \A i \in 1..n : i <= a \/ b < i => s[i] \in S
    OBVIOUS
  <2>1. CASE j <= a
    <3>1. idx[j] = j /\ j \in 1..n /\ j \in 1..a
      BY <1>5, <1>8, <2>1
    <3>2. q[j] = s[j]
      BY <1>2, <1>4, <2>1, <3>1
    <3> QED BY <2>0, <2>1, <3>1, <3>2
  <2>2. CASE ~(j <= a)
    <3>1. /\ idx[j] = b + (j - a) /\ b + (j - a) \in 1..n /\ b < b + (j - a)
          /\ j - a \in 1..(n - b)
      BY <1>5, <1>8, <2>2
    <3>2. q[j] = s[b + (j - a)]
      BY <1>3, <1>4, <2>2, <3>1
    <3> QED BY <2>0, <3>1, <3>2
  <2> QED BY <2>1, <2>2
<1>10. \A p \in 1..n : s[p] \in S => \E j \in 1..len : idx[j] = p
  BY <1>6, <1>8
<1>11. \A j, k \in 1..len : j < k => idx[j] < idx[k]
  BY <1>7, <1>8
<1>12. Kept(q, s, S, idx)
  <2>1. Len(q) = len
    BY <1>4
  <2> QED BY <1>9, <1>10, <1>11, <2>1 DEF Kept
<1> QED BY <1>4, <1>12, OnlyIs

\* A set of places with every place before one of its own is 1 to its size.
LEMMA PrefixSet ==
    ASSUME NEW n \in Nat, NEW D, D \subseteq 1..n,
           \A i \in D : \A j \in 1..n : j < i => j \in D
    PROVE  Cardinality(D) \in 0..n /\ D = 1..Cardinality(D)
<1>1. 1 \in Int /\ n \in Int
  OBVIOUS
<1>2. IsFiniteSet(1..n)
  BY ONLY <1>1, FS_Interval
<1>3. IsFiniteSet(D)
  BY <1>2, FS_Subset
<1>4. CASE D = {}
  <2>1. Cardinality(D) = 0
    BY <1>4, FS_EmptySet
  <2> QED BY <1>4, <2>1
<1>5. CASE D # {}
  <2> PICK m : m = Max(D)
    OBVIOUS
  <2>1. m \in D /\ \A y \in D : y <= m
    <3>1. D \subseteq Int
      OBVIOUS
    <3> QED BY <1>3, <1>5, <3>1, FiniteTop
  <2>2. m \in 1..n
    BY <2>1
  <2>3. D = 1..m
    <3>1. \A i \in 1..m : i \in 1..n /\ (i = m \/ i < m)
      BY <2>2
    <3>2. \A i \in 1..m : i \in D
      BY <2>1, <3>1
    <3>3. \A i \in D : i \in 1..m
      BY <2>1, <2>2
    <3> QED BY <3>2, <3>3
  <2>4. 1 \in Int /\ m \in Int
    BY <2>2
  <2>5. Cardinality(1..m) = IF 1 > m THEN 0 ELSE m - 1 + 1
    BY ONLY <2>4, FS_Interval
  <2>6. Cardinality(D) = m
    BY <2>2, <2>3, <2>5
  <2> QED BY <2>2, <2>3, <2>6
<1> QED BY <1>4, <1>5

\* The elements before a score are the first ones of a sorted set.
LEMMA BelowPlaces ==
    ASSUME NEW z, IsZSet(z), NEW x \in Int, NEW incl, NEW gt \in BOOLEAN
    PROVE  LET k == Below(z, "score", Bound(x, incl), gt)
           IN  /\ k \in 0..Len(z)
               /\ \A i \in 1..Len(z) : i <= k <=> z[i][2] < x \/ (gt /\ z[i][2] = x)
<1> PICK n : n = Len(z)
  OBVIOUS
<1> DEFINE D == {i \in DOMAIN z : z[i][2] < x \/ (gt /\ z[i][2] = x)}
<1>1. n \in Nat /\ DOMAIN z = 1..n /\ \A i, j \in 1..n : i < j => Ahead(z[i], z[j])
  BY ZSetFacts
<1>2. \A i \in 1..n : z[i][2] \in Int
  <2>1. \A i \in 1..n : z[i] \in Pairs
    BY ZSetFacts
  <2> QED BY <2>1 DEF Pairs
<1>3. Below(z, "score", Bound(x, incl), gt) = Cardinality(D)
  <2>1. Below(z, "score", Bound(x, incl), gt)
        = Cardinality({i \in DOMAIN z : \/ By("score", z[i]) < x \/ (gt /\ By("score", z[i]) = x)})
    BY DEF Below, Bound
  <2>2. \A p : By("score", p) = p[2]
    BY DEF By
  <2>3. {i \in DOMAIN z : \/ By("score", z[i]) < x \/ (gt /\ By("score", z[i]) = x)} = D
    BY <2>2
  <2> QED BY <2>1, <2>3, Zenon
<1>4. ASSUME NEW i \in D, NEW j \in 1..n, j < i PROVE j \in D
  <2>1. i \in 1..n
    BY <1>1
  <2>2. z[j][2] <= z[i][2]
    BY <1>1, <1>2, <1>4, <2>1 DEF Ahead
  <2>3. z[i][2] < x \/ (gt /\ z[i][2] = x)
    OBVIOUS
  <2>4. z[i][2] \in Int /\ z[j][2] \in Int
    BY <1>2, <2>1
  <2>5. z[j][2] < x \/ (gt /\ z[j][2] = x)
    BY ONLY <2>2, <2>3, <2>4, x \in Int
  <2> QED BY <1>1, <2>5
<1>5. D \subseteq 1..n
  BY <1>1
<1>6. \A i \in 1..n : i \in D <=> z[i][2] < x \/ (gt /\ z[i][2] = x)
  BY <1>1
<1> HIDE DEF D
<1> PICK k : k = Cardinality(D)
  OBVIOUS
<1>7. k \in 0..n /\ D = 1..k
  BY <1>1, <1>4, <1>5, PrefixSet
<1>8. \A i \in 1..n : i <= k <=> i \in D
  <2>1. \A i \in 1..n : i <= k <=> i \in 1..k
    BY <1>1, <1>7
  <2> QED BY ONLY <1>7, <2>1
<1> QED BY <1>3, <1>6, <1>7, <1>8

\* A range of positions that is read forwards or backwards.
LEMMA ItemsRange ==
    ASSUME NEW z, IsSeq(z), NEW a \in 0..Len(z), NEW b \in 0..Len(z)
    PROVE  /\ Items(z, a, b, FALSE, 0) = SubSeq(z, a + 1, b)
           /\ Items(z, Len(z) - b, Len(z) - a, TRUE, 0) = Reverse(SubSeq(z, a + 1, b))
           /\ Len(SubSeq(z, a + 1, b)) = IF a < b THEN b - a ELSE 0
<1> PICK n : n = Len(z)
  OBVIOUS
<1>1. n \in Nat /\ a \in 0..n /\ b \in 0..n
  BY SeqFacts
<1> PICK q : q = SubSeq(z, a + 1, b)
  OBVIOUS
<1> DEFINE d == IF a < b THEN b - a ELSE 0
<1>2. IsSeq(q) /\ Len(q) = d /\ \A i \in 1..d : q[i] = z[a + i]
  <2>1. a + 1 \in Int /\ b \in Int
    BY <1>1
  <2>2. IsSeq(q) /\ Len(q) = (IF a + 1 <= b THEN b - (a + 1) + 1 ELSE 0)
        /\ \A i \in 1..(b - (a + 1) + 1) : q[i] = z[(a + 1) + i - 1]
    BY ONLY <2>1, SubSeqIsSeq, q = SubSeq(z, a + 1, b)
  <2>3. (IF a + 1 <= b THEN b - (a + 1) + 1 ELSE 0) = d
        /\ \A i \in 1..d : i \in 1..(b - (a + 1) + 1) /\ (a + 1) + i - 1 = a + i
    BY <1>1
  <2> HIDE DEF d
  <2> QED BY <2>2, <2>3
<1>3. d \in Nat /\ q = [i \in 1..d |-> q[i]]
  <2>1. q = [i \in 1..Len(q) |-> q[i]] /\ Len(q) \in Nat
    BY <1>2, SeqFacts
  <2> HIDE DEF d
  <2> QED BY <1>2, <2>1
<1>4. Max({0, b - a}) = d
  <2>1. \A u, v \in Int : Max({u, v}) = IF u < v THEN v ELSE u
    BY DEF Max
  <2>2. 0 \in Int /\ b - a \in Int
    BY <1>1
  <2>3. Max({0, b - a}) = IF 0 < b - a THEN b - a ELSE 0
    BY ONLY <2>1, <2>2
  <2> QED BY <1>1, <2>3
<1>5. Items(z, a, b, FALSE, 0) = q
  <2>1. Items(z, a, b, FALSE, 0) = [i \in 1..Max({0, b - a}) |-> z[a + i]]
    BY DEF Items
  <2> HIDE DEF d
  <2>2. Items(z, a, b, FALSE, 0) = [i \in 1..d |-> z[a + i]]
    BY <1>4, <2>1
  <2> QED BY <1>2, <1>3, <2>2
<1>6. Items(z, n - b, n - a, TRUE, 0) = Reverse(q)
  <2>1. (n - a) - (n - b) = b - a
    BY <1>1
  <2>2. Items(z, n - b, n - a, TRUE, 0)
        = [i \in 1..Max({0, (n - a) - (n - b)}) |-> z[Len(z) + 1 - ((n - b) + i)]]
    BY DEF Items
  <2>3. Items(z, n - b, n - a, TRUE, 0) = [i \in 1..d |-> z[n + 1 - ((n - b) + i)]]
    <3> HIDE DEF d
    <3> QED BY <1>4, <2>1, <2>2
  <2>4. Reverse(q) = [i \in 1..d |-> q[(d - i) + 1]]
    <3> HIDE DEF d
    <3> QED BY <1>2 DEF Reverse
  <2>5. \A i \in 1..d : /\ n + 1 - ((n - b) + i) = a + ((d - i) + 1)
                        /\ (d - i) + 1 \in 1..d
    BY <1>1
  <2> HIDE DEF d
  <2>6. \A i \in 1..d : z[n + 1 - ((n - b) + i)] = q[(d - i) + 1]
    BY ONLY <1>2, <2>5
  <2> QED BY <2>3, <2>4, <2>6
<1> HIDE DEF d
<1> QED BY <1>2, <1>5, <1>6 DEF d

\* A sequence of which all elements are kept is left as it was.
LEMMA OnlyAll ==
    ASSUME NEW s, IsSeq(s), NEW S, \A i \in 1..Len(s) : s[i] \in S
    PROVE  Only(s, S) = s
<1> DEFINE idx == [i \in 1..Len(s) |-> i]
<1>1. Len(s) \in Nat
  BY SeqFacts
<1>2. \A i \in 1..Len(s) : idx[i] = i /\ i \in Int
  BY <1>1
<1> HIDE DEF idx
<1>3. Kept(s, s, S, idx)
  BY <1>2 DEF Kept
<1> QED BY <1>3, OnlyIs

\* What is left without the elements of a range is the sequence cut.
LEMMA RangeGone ==
    ASSUME NEW z, IsSeq(z), \A i, j \in 1..Len(z) : z[i] = z[j] => i = j,
           NEW a \in 0..Len(z), NEW b \in 0..Len(z)
    PROVE  Only(z, {p \in ToSet(z) : p \notin ToSet(SubSeq(z, a + 1, b))})
           = IF a < b THEN Cut(z, a, b) ELSE z
<1> PICK n : n = Len(z)
  OBVIOUS
<1> PICK g : g = SubSeq(z, a + 1, b)
  OBVIOUS
<1> DEFINE S == {p \in ToSet(z) : p \notin ToSet(g)}
           d == IF a < b THEN b - a ELSE 0
<1>1. n \in Nat /\ a \in 0..n /\ b \in 0..n /\ DOMAIN z = 1..n
  BY SeqFacts
<1>2. ToSet(g) = {z[a + i] : i \in 1..d}
  <2>1. a + 1 \in Int /\ b \in Int
    BY <1>1
  <2>2. IsSeq(g) /\ Len(g) = (IF a + 1 <= b THEN b - (a + 1) + 1 ELSE 0)
        /\ \A i \in 1..(b - (a + 1) + 1) : g[i] = z[(a + 1) + i - 1]
    BY ONLY <2>1, SubSeqIsSeq, g = SubSeq(z, a + 1, b)
  <2>3. (IF a + 1 <= b THEN b - (a + 1) + 1 ELSE 0) = d
        /\ \A i \in 1..d : i \in 1..(b - (a + 1) + 1) /\ (a + 1) + i - 1 = a + i
    BY <1>1
  <2> HIDE DEF d
  <2>4. DOMAIN g = 1..d
    BY <2>2, <2>3, SeqFacts
  <2>5. \A i \in 1..d : g[i] = z[a + i]
    BY <2>2, <2>3
  <2>6. ToSet(g) = {g[i] : i \in 1..d}
    BY <2>4 DEF ToSet
  <2> QED BY ONLY <2>5, <2>6
<1>3. \A i \in 1..n : z[i] \in S <=> i <= a \/ b < i
  <2>0. \A i \in 1..n : z[i] \in ToSet(z) /\ (~(a < i /\ i <= b) <=> i <= a \/ b < i)
    BY <1>1 DEF ToSet
  <2> SUFFICES ASSUME NEW i \in 1..n PROVE z[i] \in ToSet(g) <=> a < i /\ i <= b
    BY <2>0
  <2>1. ASSUME a < i /\ i <= b PROVE z[i] \in ToSet(g)
    <3>1. i - a \in 1..d /\ a + (i - a) = i
      BY <1>1, <2>1
    <3> QED BY <1>2, <3>1
  <2>2. ASSUME z[i] \in ToSet(g) PROVE a < i /\ i <= b
    <3>1. PICK j \in 1..d : z[i] = z[a + j]
      BY <1>2, <2>2
    <3>2. a + j \in 1..n /\ a < a + j /\ a + j <= b
      BY <1>1, <3>1
    <3>3. i = a + j
      BY <3>1, <3>2
    <3> QED BY <3>2, <3>3
  <2> QED BY <2>1, <2>2
<1>4. {p \in ToSet(z) : p \notin ToSet(SubSeq(z, a + 1, b))} = S
  OBVIOUS
<1> HIDE DEF S
<1>5. CASE a < b
  <2>1. Only(z, S) = SubSeq(z, 1, a) \o SubSeq(z, b + 1, Len(z))
    <3>1. a <= b
      BY <1>1, <1>5
    <3> QED BY <1>3, <3>1, OnlyCut
  <2> QED BY <1>4, <1>5, <2>1 DEF Cut
<1>6. CASE ~(a < b)
  <2>1. \A i \in 1..n : i <= a \/ b < i
    BY <1>1, <1>6
  <2>2. Only(z, S) = z
    BY <1>3, <2>1, OnlyAll
  <2> QED BY <1>4, <1>6, <2>2
<1> QED BY <1>5, <1>6

\* What is left of a sorted set without some of its elements.
LEMMA LeftElems ==
    ASSUME NEW v, v.type = "zset", NEW c, NEW st, NEW rep, NEW n \in Int, n # 0
    PROVE  Elems(ZLeft(v, c, st, rep, n).v) = c
BY DEF ZLeft, Done, Elems, Absent, Val

\* ZREMRANGEBYRANK removes what ZRANGE answers.
LEMMA RankRanges ==
    ASSUME NEW v, v.type = "zset", IsZSet(v.data), NEW from \in Int, NEW to \in Int
    PROVE  Elems(ZRemByRank(v, from, to).v)
           = Only(v.data, {p \in ToSet(v.data) : p \notin ToSet(ZRange(v, FALSE, from, to).rep)})
<1> PICK z : z = v.data
  OBVIOUS
<1> PICK n : n = Len(z)
  OBVIOUS
<1> DEFINE r == Clip(n, from, to)
<1>1. IsSeq(z) /\ n \in Nat /\ \A i, j \in 1..n : z[i] = z[j] => i = j
  BY ZSetFacts
<1>2. r[1] \in 0..n /\ r[2] \in 0..n
  BY <1>1 DEF Clip
<1>3. ZRange(v, FALSE, from, to) = Data(v, Items(z, r[1], r[2], FALSE, 0))
  BY DEF ZRange, ZRead_, ZTypes
<1>4. ZRemByRank(v, from, to) = IF r[1] >= r[2] THEN Status(v, "send_zero")
                                ELSE ZLeft(v, Cut(z, r[1], r[2]), "send_int", <<>>, r[2] - r[1])
  BY DEF ZRemByRank, ZRead_, ZTypes
<1> HIDE DEF r
<1> PICK a : a = r[1]
  OBVIOUS
<1> PICK b : b = r[2]
  OBVIOUS
<1>5. ZRange(v, FALSE, from, to).rep = SubSeq(z, a + 1, b)
  <2>1. \A rep : Data(v, rep).rep = rep
    BY DEF Data, Done
  <2>2. a \in 0..Len(z) /\ b \in 0..Len(z)
    BY <1>2
  <2>3. Items(z, a, b, FALSE, 0) = SubSeq(z, a + 1, b)
    BY ONLY <1>1, <2>2, ItemsRange
  <2> QED BY <1>3, <2>1, <2>3
<1>6. Elems(ZRemByRank(v, from, to).v) = IF a < b THEN Cut(z, a, b) ELSE z
  <2>1. CASE a < b
    <3>1. ZRemByRank(v, from, to) = ZLeft(v, Cut(z, a, b), "send_int", <<>>, b - a)
      BY <1>2, <1>4, <2>1
    <3>2. b - a \in Int /\ b - a # 0
      BY <1>2, <2>1
    <3> QED BY <2>1, <3>1, <3>2, LeftElems
  <2>2. CASE ~(a < b)
    <3>1. ZRemByRank(v, from, to) = Status(v, "send_zero")
      BY <1>1, <1>2, <1>4, <2>2
    <3>2. Status(v, "send_zero").v = v /\ Elems(v) = z
      BY DEF Status, Done, Elems
    <3> QED BY <2>2, <3>1, <3>2
  <2> QED BY <2>1, <2>2
<1>7. Only(z, {p \in ToSet(z) : p \notin ToSet(SubSeq(z, a + 1, b))}) = IF a < b THEN Cut(z, a, b) ELSE z
  <2>1. \A i, j \in 1..Len(z) : z[i] = z[j] => i = j
    BY <1>1
  <2>2. a \in 0..Len(z) /\ b \in 0..Len(z)
    BY <1>2
  <2> QED BY ONLY <1>1, <2>1, <2>2, RangeGone
<1>8. Elems(ZRemByRank(v, from, to).v)
      = Only(z, {p \in ToSet(z) : p \notin ToSet(ZRange(v, FALSE, from, to).rep)})
  BY ONLY <1>5, <1>6, <1>7
<1> QED BY <1>8

\* ZRANGEBYSCORE answers the elements with a score in the range, ZREVRANGE-
\* BYSCORE the same ones backwards; ZCOUNT counts them and ZREMRANGEBYSCORE
\* removes them.
ScoreRange(v, lo, hi, a, b) ==
    LET L == Bound(lo, a)
        R == Bound(hi, b)
        in == ZRangeBy(v, "score", FALSE, L, R, 0, 0).rep
    IN  /\ in = Only(v.data, {p \in ToSet(v.data) :
                    (lo < p[2] \/ (a /\ lo = p[2])) /\ (p[2] < hi \/ (b /\ hi = p[2]))})
        /\ ZRangeBy(v, "score", TRUE, R, L, 0, 0).rep = Reverse(in)
        /\ lo < hi => /\ ZCount(v, "score", L, R).ival = Len(in)
                      /\ Elems(ZRemBy(v, "score", L, R).v)
                             = Only(v.data, {p \in ToSet(v.data) : p \notin ToSet(in)})

\* That is so for every sorted set and every range.
LEMMA ScoreRanges ==
    ASSUME NEW v, v.type = "zset", IsZSet(v.data), NEW lo \in Int, NEW hi \in Int,
           NEW a \in BOOLEAN, NEW b \in BOOLEAN
    PROVE  ScoreRange(v, lo, hi, a, b)
<1> PICK z : z = v.data
  OBVIOUS
<1> PICK n : n = Len(z)
  OBVIOUS
<1> PICK L : L = Bound(lo, a)
  OBVIOUS
<1> PICK R : R = Bound(hi, b)
  OBVIOUS
<1>1. L.incl = a /\ R.incl = b
  BY DEF Bound
<1>2. IsSeq(z) /\ n \in Nat /\ DOMAIN z = 1..n
      /\ (\A i, j \in 1..n : z[i] = z[j] => i = j) /\ \A i \in 1..n : z[i][2] \in Int
  BY ZSetFacts DEF Pairs
<1> PICK k : k = Below(z, "score", L, ~a)
  OBVIOUS
<1> PICK l : l = Below(z, "score", R, b)
  OBVIOUS
<1>3. (~a) \in BOOLEAN
  OBVIOUS
<1>4. k \in 0..n /\ \A i \in 1..n : i <= k <=> z[i][2] < lo \/ (~a /\ z[i][2] = lo)
  BY ONLY <1>3, BelowPlaces, IsZSet(z), lo \in Int, n = Len(z), L = Bound(lo, a), k = Below(z, "score", L, ~a)
<1>5. l \in 0..n /\ \A i \in 1..n : i <= l <=> z[i][2] < hi \/ (b /\ z[i][2] = hi)
  BY BelowPlaces
<1>6. \A i \in 1..n : k < i <=> lo < z[i][2] \/ (a /\ lo = z[i][2])
  <2> SUFFICES ASSUME NEW i \in 1..n PROVE k < i <=> lo < z[i][2] \/ (a /\ lo = z[i][2])
    OBVIOUS
  <2>1. i <= k <=> z[i][2] < lo \/ (~a /\ z[i][2] = lo)
    BY <1>4
  <2>2. z[i][2] \in Int /\ i \in Int /\ k \in Int
    BY <1>4, <1>2
  <2>3. /\ k < i <=> ~(i <= k)
        /\ lo < z[i][2] <=> ~(z[i][2] < lo) /\ z[i][2] # lo
        /\ ~(z[i][2] < lo /\ z[i][2] = lo)
    BY <2>2
  <2>4. lo = z[i][2] <=> z[i][2] = lo
    OBVIOUS
  <2> QED BY ONLY <2>1, <2>3, <2>4, Zenon
<1>7. ASSUME lo < hi PROVE k <= l
  <2> SUFFICES ASSUME l < k PROVE FALSE
    BY <1>4, <1>5
  <2>1. k \in 1..n /\ ~(k <= l)
    BY <1>4, <1>5, <1>2
  <2>2. z[k][2] \in Int
    BY <1>2, <2>1
  <2>3. z[k][2] < lo \/ z[k][2] = lo
    <3>1. k <= k
      BY <1>4
    <3> QED BY <1>4, <2>1, <3>1
  <2>4. ~(z[k][2] < hi)
    BY <1>5, <2>1
  <2> QED BY ONLY <1>7, <2>2, <2>3, <2>4, lo \in Int, hi \in Int
<1> k \in 0..n /\ l \in 0..n
  BY <1>4, <1>5
<1> PICK q : q = SubSeq(z, k + 1, l)
  OBVIOUS
<1>8. Span(z, "score", L, R) = <<k, l>> /\ RevSpan(z, "score", R, L) = <<n - l, n - k>>
  <2>1. Below(z, "score", L, ~L.incl) = k /\ Below(z, "score", R, R.incl) = l
    BY <1>1, Zenon
  <2> QED BY <2>1, Zenon DEF Span, RevSpan
<1>9. Items(z, k, l, FALSE, 0) = q /\ Items(z, n - l, n - k, TRUE, 0) = Reverse(q)
      /\ Len(q) = IF k < l THEN l - k ELSE 0
  <2>1. k \in 0..Len(z) /\ l \in 0..Len(z)
    OBVIOUS
  <2>2. IsSeq(z)
    BY <1>2
  <2>3. /\ Items(z, k, l, FALSE, 0) = SubSeq(z, k + 1, l)
        /\ Items(z, Len(z) - l, Len(z) - k, TRUE, 0) = Reverse(SubSeq(z, k + 1, l))
        /\ Len(SubSeq(z, k + 1, l)) = IF k < l THEN l - k ELSE 0
    BY ONLY <2>1, <2>2, ItemsRange
  <2> QED BY ONLY <2>3, n = Len(z), q = SubSeq(z, k + 1, l)
<1>10. ZRangeBy(v, "score", FALSE, L, R, 0, 0).rep = q
  <2>1. ZRangeBy(v, "score", FALSE, L, R, 0, 0)
        = Data(v, IF <<k, l>>[1] + 0 < 0 THEN <<>> ELSE Items(z, <<k, l>>[1] + 0, <<k, l>>[2], FALSE, 0))
    BY <1>8 DEF ZRangeBy, ZRead_, ZTypes
  <2>2. <<k, l>>[1] + 0 = k /\ <<k, l>>[2] = l /\ ~(k < 0)
    BY <1>2
  <2>3. Data(v, q).rep = q
    BY DEF Data, Done
  <2> QED BY ONLY <1>9, <2>1, <2>2, <2>3
<1>11. ZRangeBy(v, "score", TRUE, R, L, 0, 0).rep = Reverse(q)
  <2>1. ZRangeBy(v, "score", TRUE, R, L, 0, 0)
        = Data(v, IF <<n - l, n - k>>[1] + 0 < 0 THEN <<>>
                  ELSE Items(z, <<n - l, n - k>>[1] + 0, <<n - l, n - k>>[2], TRUE, 0))
    BY <1>8 DEF ZRangeBy, ZRead_, ZTypes
  <2>2. <<n - l, n - k>>[1] + 0 = n - l /\ <<n - l, n - k>>[2] = n - k /\ ~(n - l < 0)
    BY <1>2
  <2>3. Data(v, Reverse(q)).rep = Reverse(q)
    BY DEF Data, Done
  <2> QED BY ONLY <1>9, <2>1, <2>2, <2>3
<1>12. q = Only(z, {p \in ToSet(z) : (lo < p[2] \/ (a /\ lo = p[2])) /\ (p[2] < hi \/ (b /\ hi = p[2]))})
  <2> PICK S : S = {p \in ToSet(z) : (lo < p[2] \/ (a /\ lo = p[2])) /\ (p[2] < hi \/ (b /\ hi = p[2]))}
    OBVIOUS
  <2>1. \A i \in 1..n : z[i] \in ToSet(z)
    BY <1>2 DEF ToSet
  <2>2. \A i \in 1..n : z[i] \in S <=> k < i /\ i <= l
    <3>1. \A i \in 1..n : z[i][2] = hi <=> hi = z[i][2]
      OBVIOUS
    <3> QED BY <1>5, <1>6, <2>1, <3>1
  <2>3. IsSeq(z) /\ k \in 0..Len(z) /\ l \in 0..Len(z)
    BY <1>2
  <2>4. Only(z, S) = SubSeq(z, k + 1, l)
    BY <2>2, <2>3, OnlySpan
  <2> QED BY ONLY <2>4, q = SubSeq(z, k + 1, l),
                  S = {p \in ToSet(z) : (lo < p[2] \/ (a /\ lo = p[2])) /\ (p[2] < hi \/ (b /\ hi = p[2]))}
<1>13. ASSUME lo < hi PROVE ZCount(v, "score", L, R).ival = Len(q)
  <2>1. ZCount(v, "score", L, R) = SendInt(v, <<k, l>>[2] - <<k, l>>[1], {})
    BY <1>8 DEF ZCount, ZRead_, ZTypes
  <2>2. \A i : SendInt(v, i, {}).ival = i
    BY DEF SendInt, Done
  <2>3. l - k = IF k < l THEN l - k ELSE 0
    BY <1>7, <1>13
  <2> QED BY <1>9, <2>1, <2>2, <2>3
<1>14. Only(z, {p \in ToSet(z) : p \notin ToSet(q)}) = IF k < l THEN Cut(z, k, l) ELSE z
  <2>1. k \in 0..Len(z) /\ l \in 0..Len(z) /\ \A i, j \in 1..Len(z) : z[i] = z[j] => i = j
    BY <1>2
  <2> QED BY ONLY <1>2, <2>1, RangeGone, q = SubSeq(z, k + 1, l)
<1>15. Elems(ZRemBy(v, "score", L, R).v) = IF k < l THEN Cut(z, k, l) ELSE z
  <2>1. ZRemBy(v, "score", L, R) = IF z = <<>> THEN Status(v, "send_zero")
                                   ELSE IF k < l THEN ZLeft(v, Cut(z, k, l), "send_int", <<>>, l - k)
                                   ELSE SendInt(v, l - k, {})
    <3>1. Literal("score", L) = L /\ Literal("score", R) = R
      BY DEF Literal
    <3> QED BY <1>8, <3>1 DEF ZRemBy, ZRead_, ZTypes
  <2>2. Status(v, "send_zero").v = v /\ SendInt(v, l - k, {}).v = v /\ Elems(v) = z
    BY DEF Status, SendInt, Done, Elems
  <2>3. CASE z = <<>>
    <3>1. n = 0
      BY <2>3
    <3>2. ~(k < l)
      BY <3>1
    <3> QED BY <2>1, <2>2, <2>3, <3>2
  <2>4. CASE z # <<>> /\ k < l
    <3>1. l - k \in Int /\ l - k # 0
      BY <2>4
    <3> QED BY <2>1, <2>4, <3>1, LeftElems
  <2>5. CASE z # <<>> /\ ~(k < l)
    BY <2>1, <2>2, <2>5
  <2> QED BY <2>3, <2>4, <2>5
<1>16. Elems(ZRemBy(v, "score", L, R).v) = Only(z, {p \in ToSet(z) : p \notin ToSet(q)})
  BY ONLY <1>14, <1>15
<1> QED BY <1>10, <1>11, <1>12, <1>13, <1>16, Zenon DEF ScoreRange

\* The ranges of a sorted set agree, by place and by score.
LEMMA ZSetRangesHold ==
    ASSUME NEW v, v.type = "zset", IsZSet(v.data)
    PROVE  ZSetRanges(v)
<1>1. ASSUME NEW from \in -4..4, NEW to \in -4..4
      PROVE  Elems(ZRemByRank(v, from, to).v)
             = Only(v.data, {p \in ToSet(v.data) : p \notin ToSet(ZRange(v, FALSE, from, to).rep)})
  <2>1. from \in Int /\ to \in Int
    OBVIOUS
  <2> QED BY <2>1, RankRanges
<1>2. ASSUME NEW lo \in {10, 15, 20, 25}, NEW hi \in {10, 15, 20, 25}, NEW a \in BOOLEAN, NEW b \in BOOLEAN
      PROVE  ScoreRange(v, lo, hi, a, b)
  <2>1. lo \in Int /\ hi \in Int
    OBVIOUS
  <2> QED BY <2>1, ScoreRanges
<1> QED BY <1>1, <1>2, Zenon DEF ZSetRanges, ScoreRange, Select

\* The commands that take a range agree on what it is, whatever list or
\* sorted set the commands have left (RangesAgree).
THEOREM RangesCorrect == Spec => []RangesAgree
<1>1. StoreInv => RangesAgree
  <2> SUFFICES ASSUME StoreInv PROVE RangesAgree
    OBVIOUS
  <2>1. ASSUME NEW k \in OfTypes({"list"}) PROVE ListRanges(db[k].v)
    <3> PICK v : v = db[k].v
      OBVIOUS
    <3>1. k \in Keys /\ v.type = "list"
      BY DEF OfTypes
    <3>2. v.data \in Seq(ToSet(v.data))
      BY <3>1, ValueOfKey, Forms DEF IsSeq
    <3>3. \A from, to \in -4..4 : from \in Int /\ to \in Int
      OBVIOUS
    <3> QED BY <3>1, <3>2, <3>3, ListRangeCorrect DEF ListRanges
  <2>2. ASSUME NEW k \in OfTypes({"zset"}) PROVE ZSetRanges(db[k].v)
    <3>1. k \in Keys /\ db[k].v.type = "zset"
      BY DEF OfTypes
    <3>2. IsZSet(db[k].v.data)
      BY <3>1, ValueOfKey, Forms
    <3> QED BY <3>1, <3>2, ZSetRangesHold
  <2> QED BY <2>1, <2>2 DEF RangesAgree
<1> QED BY <1>1, StoreAlways, PTL

\* The first ones of a sequence, as many as there are (COUNT of GEORADIUS).
LEMMA FirstFacts ==
    ASSUME NEW q, IsSeq(q), NEW n \in Nat \ {0}
    PROVE  /\ First(q, n) = SubSeq(q, 1, Min({n, Len(q)}))
           /\ IsSeq(First(q, n)) /\ Len(First(q, n)) = Min({n, Len(q)}) /\ Len(First(q, n)) <= Len(q)
           /\ \A i \in 1..Len(First(q, n)) : First(q, n)[i] = q[i]
<1> PICK l : l = Len(q)
  OBVIOUS
<1> PICK m : m = Min({n, l})
  OBVIOUS
<1>1. l \in Nat
  BY SeqFacts
<1>2. m = IF n < l THEN n ELSE l
  <2>1. \A x, y \in Int : Min({x, y}) = IF x < y THEN x ELSE y
    BY DEF Min
  <2>2. n \in Int /\ l \in Int
    BY <1>1
  <2> QED BY ONLY <2>1, <2>2, m = Min({n, l})
<1>3. 1 \in Int /\ m \in Int
  BY <1>1, <1>2
<1> PICK s : s = SubSeq(q, 1, m)
  OBVIOUS
<1>4. IsSeq(s) /\ Len(s) = (IF 1 <= m THEN m - 1 + 1 ELSE 0) /\ \A i \in 1..(m - 1 + 1) : s[i] = q[1 + i - 1]
  BY ONLY <1>3, SubSeqIsSeq, s = SubSeq(q, 1, m)
<1>5. Len(s) = m /\ m <= l /\ \A i \in 1..m : s[i] = q[i]
  <2>1. m \in Nat /\ m <= l /\ m - 1 + 1 = m
    BY <1>1, <1>2
  <2>2. \A i \in 1..m : 1 + i - 1 = i
    BY <2>1
  <2>3. (IF 1 <= m THEN m - 1 + 1 ELSE 0) = m
    BY ONLY <2>1
  <2>4. \A i \in 1..m : i \in 1..(m - 1 + 1)
    BY ONLY <2>1
  <2>5. Len(s) = m
    BY ONLY <1>4, <2>3
  <2>6. \A i \in 1..m : s[i] = q[i]
    BY ONLY <1>4, <2>2, <2>4
  <2> QED BY <2>1, <2>5, <2>6
<1>6. First(q, n) = s
  <2>1. CASE n \in 1..l
    <3>1. m = n
      BY <1>1, <1>2, <2>1
    <3> QED BY <2>1, <3>1 DEF First
  <2>2. CASE n \notin 1..l
    <3>1. m = l
      BY <1>1, <1>2, <2>2
    <3>2. q = [i \in 1..l |-> q[i]] /\ s = [i \in 1..l |-> s[i]]
      <4>1. q = [i \in 1..Len(q) |-> q[i]] /\ s = [i \in 1..Len(s) |-> s[i]]
        BY <1>4, SeqFacts
      <4>2. Len(s) = l
        BY <1>5, <3>1
      <4> QED BY ONLY <4>1, <4>2, l = Len(q)
    <3>3. \A i \in 1..l : s[i] = q[i]
      BY <1>5, <3>1
    <3>4. s = q
      BY ONLY <3>2, <3>3
    <3> QED BY <2>2, <3>4 DEF First
  <2> QED BY <2>1, <2>2
<1> QED BY <1>4, <1>5, <1>6

\* What a list sorted by a comparison has first is before what follows.
LEMMA FirstOfList ==
    ASSUME NEW S, NEW R, NEW f, Lists(f, S, R), NEW n \in Nat \ {0}
    PROVE  LET r == First(f, n)
           IN  /\ \A p \in ToSet(r), q \in S \ ToSet(r) : <<p, q>> \in R
               /\ \A i, j \in DOMAIN r : i < j => <<r[i], r[j]>> \in R
<1> PICK r : r = First(f, n)
  OBVIOUS
<1>1. /\ IsSeq(f) /\ Len(f) \in Nat /\ DOMAIN f = 1..Len(f) /\ ToSet(f) = S
      /\ \A i, j \in 1..Len(f) : i < j => <<f[i], f[j]>> \in R
  BY DEF Lists
<1>2. IsSeq(r) /\ Len(r) <= Len(f) /\ \A i \in 1..Len(r) : r[i] = f[i]
  BY <1>1, FirstFacts
<1>3. Len(r) \in Nat /\ DOMAIN r = 1..Len(r)
  BY <1>2, SeqFacts
<1>4. ASSUME NEW p \in ToSet(r), NEW q \in S \ ToSet(r) PROVE <<p, q>> \in R
  <2> PICK i \in 1..Len(r) : p = r[i]
    BY <1>3 DEF ToSet
  <2> PICK j \in 1..Len(f) : q = f[j]
    BY <1>1 DEF ToSet
  <2>1. j \notin 1..Len(r)
    <3> SUFFICES ASSUME j \in 1..Len(r) PROVE FALSE
      OBVIOUS
    <3>1. q = r[j]
      BY <1>2
    <3> QED BY <1>3, <3>1 DEF ToSet
  <2>2. i \in 1..Len(f) /\ i < j
    BY <1>1, <1>2, <1>3, <2>1
  <2> QED BY <1>1, <1>2, <2>2
<1>5. ASSUME NEW i \in DOMAIN r, NEW j \in DOMAIN r, i < j PROVE <<r[i], r[j]>> \in R
  <2>1. i \in 1..Len(f) /\ j \in 1..Len(f)
    BY <1>1, <1>2, <1>3
  <2> QED BY <1>1, <1>2, <1>3, <1>5, <2>1
<1> QED BY <1>4, <1>5

\* What is searched is what is not missed.
LEMMA SearchedNotMissed ==
    ASSUME NEW at \in Int, NEW radius \in Int, NEW c \in Int
    PROVE  Searched(at, radius, c) <=> ~Missed(at, radius, c)
<1> PICK n : n = Level(radius)
  OBVIOUS
<1> PICK C : C = Corners(Hexagon(c, n), n)
  OBVIOUS
<1>1. n \in 0..2
  <2> DEFINE L == {m \in 0..Coarsest : m = Coarsest \/ Edge(m) >= radius}
  <2>1. L \subseteq 0..2 /\ 2 \in L
    BY DEF Coarsest
  <2>2. n = CHOOSE x \in L : \A y \in L : x <= y
    BY Zenon DEF Level, Min
  <2> HIDE DEF L
  <2>3. \E x \in L : \A y \in L : x <= y
    <3>1. CASE 0 \in L
      BY <2>1, <3>1
    <3>2. CASE 0 \notin L /\ 1 \in L
      BY <2>1, <3>2
    <3>3. CASE 0 \notin L /\ 1 \notin L
      BY <2>1, <3>3
    <3> QED BY <3>1, <3>2, <3>3
  <2> QED BY <2>1, <2>2, <2>3
<1>2. \A p \in C : Between(p, Centre(at)) \in Int
  <2>1. 4^n \in {1, 4, 16}
    <3>1. CASE n = 0
      BY <3>1
    <3>2. CASE n = 1
      BY <3>2
    <3>3. CASE n = 2
      BY <3>3
    <3> QED BY <1>1, <3>1, <3>2, <3>3
  <2>2. 2^(n + 1) \in Int
    BY <1>1
  <2>3. \A i \in Int : Column(i) \in Int
    BY DEF Column
  <2>4. \A i \in Int : Row(i) \in Int
    BY <2>3 DEF Row
  <2> PICK h : h = Hexagon(c, n) * 4^n
    OBVIOUS
  <2>5. h \in Int
    <3>1. c \div 4^n \in Int
      BY <2>1
    <3> QED BY <2>1, <3>1 DEF Hexagon
  <2> PICK e : e = 2^(n + 1)
    OBVIOUS
  <2>6. C = {2 * Column(h), 2 * Column(h) + e} \X {2 * Row(h), 2 * Row(h) + e}
    BY Zenon DEF Corners, Edge
  <2>7. \A p \in C : p[1] \in Int /\ p[2] \in Int
    BY <2>2, <2>3, <2>4, <2>5, <2>6
  <2>8. Centre(at)[1] \in Int /\ Centre(at)[2] \in Int
    BY <2>3, <2>4 DEF Centre
  <2> QED BY <2>7, <2>8 DEF Between, Apart
<1>3. (\E p \in C : Between(p, Centre(at)) <= radius)
        <=> ~\A p \in C : Between(p, Centre(at)) > radius
  BY <1>2
<1> QED BY <1>3, Zenon DEF Searched, Missed

\* GEORADIUS with an order and a COUNT answers the nearest or the farthest
\* of the places in the radius, and sorted.
LEMMA RadiusOf ==
    ASSUME NEW v, v.type = "geo", IsZSet(v.data), NEW at \in Int, NEW radius \in Int, NEW n \in Nat \ {0}
    PROVE  LET R(order, count) == GRadius(v, "cell", at, radius, order, count, "none").rep
               all == R("none", 0)
               near == {p \in ToSet(v.data) : Dist(p[2], at) <= radius}
           IN  /\ Members(all) = {p[1] : p \in {q \in near : ~Missed(at, radius, q[2])}}
               /\ R("none", n) = SubSeq(all, 1, Min({n, Len(all)}))
               /\ \A order \in {"asc", "desc"} :
                     LET r == R(order, n)
                         farther(p, q) == IF order = "asc" THEN p[3] <= q[3] ELSE p[3] >= q[3]
                     IN  /\ Len(r) = Min({n, Len(all)})
                         /\ \A p \in ToSet(r), q \in ToSet(all) \ ToSet(r) : farther(p, q)
                         /\ \A i, j \in DOMAIN r : i < j => farther(r[i], r[j])
<1> PICK z : z = v.data
  OBVIOUS
<1> PICK w : w = Within(z, at, radius)
  OBVIOUS
<1>1. IsFound(w) /\ IsSeq(w) /\ DOMAIN w = 1..Len(w)
  BY WithinFound DEF IsFound
<1>2. \A order, count : GRadius(v, "cell", at, radius, order, count, "none").rep = Places(w, order, count)
  <2>1. \A order, count : GRadius(v, "cell", at, radius, order, count, "none") = Data(v, Places(w, order, count))
    BY DEF GRadius, OfType, Near
  <2>2. \A y : Data(v, y).rep = y
    BY DEF Data, Done
  <2> QED BY <2>1, <2>2
<1>3. Places(w, "none", 0) = w
  BY DEF Places, First
<1>4. Places(w, "none", n) = SubSeq(w, 1, Min({n, Len(w)}))
  BY <1>1, FirstFacts DEF Places
<1> DEFINE near == {p \in ToSet(v.data) : Dist(p[2], at) <= radius}
<1>5. Members(w) = {p[1] : p \in {q \in near : ~Missed(at, radius, q[2])}}
  <2>1. \A p \in ToSet(z) : p[2] \in Int
    BY ZSetFacts DEF Pairs
  <2>2. \A p \in ToSet(z) : Searched(at, radius, p[2]) <=> ~Missed(at, radius, p[2])
    BY <2>1, SearchedNotMissed
  <2>3. \A t : t \in ToSet(w) <=>
           \E p \in ToSet(z) : t = <<p[1], p[2], Dist(p[2], at)>> /\ Reached(at, radius, p[2])
    BY WithinFound
  <2>4. Members(w) = {t[1] : t \in ToSet(w)}
    BY DEF Members, ToSet
  <2> PICK D : D = {q \in near : ~Missed(at, radius, q[2])}
    OBVIOUS
  <2>5. \A p : p \in D <=> p \in ToSet(z) /\ Reached(at, radius, p[2])
    BY <2>2 DEF Reached
  <2> HIDE DEF near
  <2>6. ASSUME NEW m PROVE m \in Members(w) <=> m \in {p[1] : p \in D}
    <3>1. ASSUME m \in Members(w) PROVE m \in {p[1] : p \in D}
      <4> PICK t : t \in ToSet(w) /\ m = t[1]
        BY <2>4, <3>1
      <4> PICK p : p \in ToSet(z) /\ t = <<p[1], p[2], Dist(p[2], at)>> /\ Reached(at, radius, p[2])
        BY <2>3
      <4>1. t[1] = p[1]
        OBVIOUS
      <4> QED BY <2>5, <4>1
    <3>2. ASSUME m \in {p[1] : p \in D} PROVE m \in Members(w)
      <4> PICK p : p \in D /\ m = p[1]
        BY <3>2
      <4> PICK t : t = <<p[1], p[2], Dist(p[2], at)>>
        OBVIOUS
      <4>1. t \in ToSet(w) /\ t[1] = m
        BY <2>3, <2>5
      <4> QED BY <2>4, <4>1
    <3> QED BY <3>1, <3>2
  <2>7. Members(w) = {p[1] : p \in D}
    BY <2>6
  <2> QED BY ONLY <2>7, D = {q \in near : ~Missed(at, radius, q[2])}
<1>6. ASSUME NEW order \in {"asc", "desc"}
      PROVE  LET r == Places(w, order, n)
                 farther(p, q) == IF order = "asc" THEN p[3] <= q[3] ELSE p[3] >= q[3]
             IN  /\ Len(r) = Min({n, Len(w)})
                 /\ \A p \in ToSet(r), q \in ToSet(w) \ ToSet(r) : farther(p, q)
                 /\ \A i, j \in DOMAIN r : i < j => farther(r[i], r[j])
  <2> PICK S : S = ToSet(w)
    OBVIOUS
  <2> PICK T : T = IF order = "asc" THEN NearerOf(S) ELSE FartherOf(S)
    OBVIOUS
  <2> PICK f : f = Ordered(w, order)
    OBVIOUS
  <2>1. Lists(f, S, T)
    BY <1>1, OrderedLists
  <2>2. IsSeq(f) /\ Len(f) = Len(w)
    <3>1. Cardinality(S) = Len(w)
      BY <1>1, ToSetFinite DEF IsFound
    <3> QED BY <2>1, <3>1 DEF Lists
  <2> PICK r : r = First(f, n)
    OBVIOUS
  <2>3. Places(w, order, n) = r
    BY DEF Places
  <2>4. Len(r) = Min({n, Len(w)})
    BY <2>2, FirstFacts
  <2>5. S \subseteq Triples
    BY <1>1, SeqIsSeq DEF IsFound
  <2>6. \A p, q : <<p, q>> \in T => IF order = "asc" THEN p[3] <= q[3] ELSE p[3] >= q[3]
    <3> SUFFICES ASSUME NEW p, NEW q, <<p, q>> \in T
                 PROVE  IF order = "asc" THEN p[3] <= q[3] ELSE p[3] >= q[3]
      OBVIOUS
    <3>1. p \in S /\ q \in S /\ IF order = "asc" THEN Nearer(p, q) ELSE Farther(p, q)
      BY DEF NearerOf, FartherOf
    <3>2. p[3] \in Int /\ q[3] \in Int
      BY <2>5, <3>1 DEF Triples
    <3> QED BY <3>1, <3>2 DEF Nearer, Farther
  <2>7. /\ \A p \in ToSet(r), q \in S \ ToSet(r) : <<p, q>> \in T
        /\ \A i, j \in DOMAIN r : i < j => <<r[i], r[j]>> \in T
    BY <2>1, FirstOfList
  <2> QED BY <2>3, <2>4, <2>6, <2>7, Zenon
<1> DEFINE R(order, count) == GRadius(v, "cell", at, radius, order, count, "none").rep
<1>8. R("none", 0) = w /\ R("none", n) = Places(w, "none", n)
      /\ R("asc", n) = Places(w, "asc", n) /\ R("desc", n) = Places(w, "desc", n)
  BY <1>2, <1>3
<1>9. Members(R("none", 0)) = {p[1] : p \in {q \in near : ~Missed(at, radius, q[2])}}
  BY ONLY <1>5, <1>8
<1>10. R("none", n) = SubSeq(R("none", 0), 1, Min({n, Len(R("none", 0))}))
  BY ONLY <1>4, <1>8
<1>11. ASSUME NEW order \in {"asc", "desc"}
       PROVE  LET r == R(order, n)
                  all == R("none", 0)
                  farther(p, q) == IF order = "asc" THEN p[3] <= q[3] ELSE p[3] >= q[3]
              IN  /\ Len(r) = Min({n, Len(all)})
                  /\ \A p \in ToSet(r), q \in ToSet(all) \ ToSet(r) : farther(p, q)
                  /\ \A i, j \in DOMAIN r : i < j => farther(r[i], r[j])
  <2>1. R(order, n) = Places(w, order, n)
    BY <1>2
  <2> QED BY ONLY <1>6, <1>8, <2>1, order \in {"asc", "desc"}, Zenon
<1> QED BY ONLY <1>9, <1>10, <1>11, Zenon

\* GEORADIUS answers the places in the radius but those that its search of
\* hexagons misses, whatever places the commands have left (RadiusAnswers).
THEOREM RadiusCorrect == Spec => []RadiusAnswers
<1>1. StoreInv => RadiusAnswers
  <2> SUFFICES ASSUME StoreInv, NEW k \in OfTypes({"geo"}), NEW at \in {6, 7, 18},
                      NEW radius \in {0, 2, 4, 5}, NEW n \in 1..3
               PROVE  LET v == db[k].v
                          R(order, count) == GRadius(v, "cell", at, radius, order, count, "none").rep
                          all == R("none", 0)
                          near == {p \in ToSet(v.data) : Dist(p[2], at) <= radius}
                      IN  /\ Members(all) = {p[1] : p \in {q \in near : ~Missed(at, radius, q[2])}}
                          /\ R("none", n) = SubSeq(all, 1, Min({n, Len(all)}))
                          /\ \A order \in {"asc", "desc"} :
                                LET r == R(order, n)
                                    farther(p, q) == IF order = "asc" THEN p[3] <= q[3] ELSE p[3] >= q[3]
                                IN  /\ Len(r) = Min({n, Len(all)})
                                    /\ \A p \in ToSet(r), q \in ToSet(all) \ ToSet(r) : farther(p, q)
                                    /\ \A i, j \in DOMAIN r : i < j => farther(r[i], r[j])
    BY Zenon DEF RadiusAnswers
  <2>1. k \in Keys /\ db[k].v.type = "geo"
    BY DEF OfTypes
  <2>2. IsZSet(db[k].v.data)
    BY <2>1, ValueOfKey, Forms
  <2>3. at \in Int /\ radius \in Int /\ n \in Nat \ {0}
    OBVIOUS
  <2> QED BY <2>1, <2>2, <2>3, RadiusOf, Zenon
<1> QED BY <1>1, StoreAlways, PTL

-----------------------------------------------------------------------------
(* Who waits is told *)

\* BLPOP or BZPOPMIN finds an element in a value that has one.
LEMMA FindsHas ==
    ASSUME NEW v, WellFormed(v)
    PROVE  Finds(v) <=> Has(v)
<1> DEFINE p == Pop(v, "left", "blocked")
           z == ZPop(v, FALSE, 1)
           l == Left(Tail(v.data), "ok", <<Head(v.data)>>, TRUE)
           r == PopSpan(Len(v.data), FALSE, 1)
           y == ZLeft(v, Cut(v.data, r[1], r[2]), "ok", SubSeq(v.data, r[1] + 1, r[2]), r[2] - r[1])
<1>1. BPop(v, "k", "left") = IF p.st = "ok" THEN [p EXCEPT !.st = "send_data", !.rep = <<"k">> \o @] ELSE p
  BY Zenon DEF BPop
<1>2. BZPop(v, "k", FALSE) =
        IF z.st = "ok" THEN [z EXCEPT !.st = "send_data", !.rep = <<"k">> \o @]
        ELSE IF z.st = "send_zeroarr" THEN [z EXCEPT !.st = "blocked"] ELSE z
  BY Zenon DEF BZPop
<1>3. p = IF v.type \in {"none", "nodata"} THEN Status(v, "blocked")
          ELSE IF v.type = "list"
               THEN IF v.data = <<>> THEN Status(v, "blocked")
                    ELSE l
               ELSE Status(v, "bad_type")
  BY DEF Pop, OfType
<1>4. z = IF v.type \in {"none", "nodata"} THEN Status(v, "send_zeroarr")
          ELSE IF v.type \in ZTypes
               THEN IF v.data = <<>> THEN Status(v, "send_zeroarr") ELSE y
               ELSE Status(v, "bad_type")
  BY Zenon DEF ZPop, ZRead_
<1>5. \A st : Status(v, st).st = st /\ DOMAIN Status(v, st) = {"v", "st", "rep", "ival", "exp", "fl"}
  BY DEF Status, Done
<1>6. l.st = "ok" /\ DOMAIN l = {"v", "st", "rep", "ival", "exp", "fl"}
  BY DEF Left, Done
<1>7. y.st = "ok" /\ DOMAIN y = {"v", "st", "rep", "ival", "exp", "fl"}
  BY DEF ZLeft, Done
<1> HIDE DEF l, y, r
<1>8. v.type \in {"none", "nodata", "list", "string", "hyperloglog", "hash", "set", "zset", "geo", "stream", "scrambled"}
  BY Forms
<1>9. DOMAIN p = {"v", "st", "rep", "ival", "exp", "fl"} /\ DOMAIN z = {"v", "st", "rep", "ival", "exp", "fl"}
  BY <1>3, <1>4, <1>5, <1>6, <1>7
<1> HIDE DEF p, z
<1>10. BPop(v, "k", "left").st = "send_data" <=> p.st \in {"ok", "send_data"}
  BY <1>1, <1>9
<1>11. BZPop(v, "k", FALSE).st = "send_data" <=> z.st \in {"ok", "send_data"}
  BY <1>2, <1>9
<1>12. p.st = "ok" <=> v.type = "list" /\ v.data # <<>>
  BY <1>3, <1>5, <1>6, <1>8
<1>13. p.st # "send_data"
  BY <1>3, <1>5, <1>6
<1>14. z.st = "ok" <=> v.type \in {"zset", "geo"} /\ v.data # <<>>
  BY <1>4, <1>5, <1>7, <1>8 DEF ZTypes
<1>15. z.st # "send_data"
  BY <1>4, <1>5, <1>7
<1> QED BY <1>10, <1>11, <1>12, <1>13, <1>14, <1>15 DEF Finds, Has

\* A handler that does not run again leaves its flags with the command.
LEMMA ContinueTells ==
    ASSUME NEW c, NEW x, NEW n, OnKeys(x, n), NEW i \in 1..n, NEW r, r.st # "again"
    PROVE  Continue(c, x, i, r).fl = x.fl \cup r.fl
<1> PICK z : z = Continue(c, x, i, r)
  OBVIOUS
<1> PICK y : y = After(x, i, r)
  OBVIOUS
<1>1. GoesOn(c, x, n, r, i, y, z)
  BY ContinueAny
<1>2. y.fl = x.fl \cup r.fl /\ DOMAIN y = SessFields
  BY DEF After, OnKeys, SessFields, Idle
<1>3. \A w : Finished(y, w).fl = y.fl
  BY DEF Finished, Idle
<1>4. z = [y EXCEPT !.i = (i % n) + 1] => z.fl = y.fl
  BY <1>2 DEF SessFields, Idle
<1>5. z = [y EXCEPT !.dep[i] = @ + 1, !.i = (i % n) + 1] => z.fl = y.fl
  BY <1>2 DEF SessFields, Idle
<1>6. z.fl = y.fl
  BY <1>1, <1>3, <1>4, <1>5 DEF GoesOn
<1> QED BY <1>2, <1>6

\* A command that gives a key its first element tells who waits for it.
LEMMA StepTells ==
    ASSUME StoreInv, NEW s \in M.sessions, Step(s), NEW k \in Keys,
           ~Quiet(CallOf(s)), ~Finds(Fetched(db[k], now).v), Finds(Fetched(db'[k], now).v)
    PROVE  sess'[s].fl \cap {"listblkd", "zsetblkd"} # {}
<1> PICK x : x = sess[s]
  OBVIOUS
<1> PICK c : c = CallOf(s)
  OBVIOUS
<1> PICK i : i = NextIndex(x)
  OBVIOUS
<1> PICK q : q = c.keys[i]
  OBVIOUS
<1> PICK e : e = Fetched(db[q], now)
  OBVIOUS
<1>1. PICK r : Handled(s, c, x, i, q, r)
  BY StepHandles
<1> PICK f : f = Stored(e, r)
  OBVIOUS
<1>2. /\ q \in Keys /\ IsEntry(e) /\ Sound(r) /\ Outcome(e.v, r)
      /\ db' = [db EXCEPT ![q] = f] /\ sess'[s] = Continue(c, x, i, r)
      /\ x.c # 0 /\ i \in DOMAIN c.keys /\ s \in Sessions
  BY <1>1 DEF Handled
<1>3. k = q /\ db'[k] = f
  BY <1>2 DEF StoreInv, Basics
<1>4. Fetched(f, now).v \in {Absent, r.v}
  BY DEF Fetched, NoEntry, Entry, Stored
<1>5. WellFormed(e.v) /\ WellFormed(r.v) /\ WellFormed(Absent)
  BY <1>2, Builds DEF IsEntry, Sound
<1>6. ~Has(e.v) /\ Has(Fetched(f, now).v)
  BY <1>3, <1>4, <1>5, FindsHas
<1>7. ~Has(Absent)
  BY DEF Has, Absent
<1>8. Told(r.fl) /\ r.st # "again"
  BY <1>2, <1>4, <1>6, <1>7 DEF Outcome
<1>9. OnKeys(x, Len(c.keys))
  BY <1>2 DEF StoreInv, Running
<1>10. i \in 1..Len(c.keys)
  BY <1>9, NextIsPending
<1>11. sess'[s].fl = x.fl \cup r.fl
  <2> PICK n : n = Len(c.keys)
    OBVIOUS
  <2>1. OnKeys(x, n) /\ i \in 1..n /\ r.st # "again"
    BY <1>8, <1>9, <1>10
  <2>2. Continue(c, x, i, r).fl = x.fl \cup r.fl
    BY ONLY <2>1, ContinueTells, SMTT(30)
  <2> QED BY <1>2, <2>2, Zenon
<1> QED BY <1>8, <1>11 DEF Told

\* A command that gives a key its first element while a BLPOP or BZPOPMIN
\* may wait for one tells of it, so that no blocked client sleeps on
\* (WaitersTold: EKF_LISTBLKD_NOT, EKF_ZSETBLKD_NOT).
THEOREM WaitersCorrect == Spec => WaitersTold
<1> DEFINE A == \A s \in Sessions, k \in Keys :
                   sess[s].c # 0 /\ sess'[s] # sess[s] /\ ~Quiet(M.calls[sess[s].c])
                     /\ ~Finds(Fetched(db[k], now).v) /\ Finds(Fetched(db'[k], now).v) =>
                       sess'[s].fl \cap {"listblkd", "zsetblkd"} # {}
<1>1. StoreInv /\ [Next]_cvars => [A]_cvars
  <2> SUFFICES ASSUME StoreInv, Next, NEW s \in Sessions, NEW k \in Keys,
                      sess[s].c # 0, sess'[s] # sess[s], ~Quiet(M.calls[sess[s].c]),
                      ~Finds(Fetched(db[k], now).v), Finds(Fetched(db'[k], now).v)
               PROVE  sess'[s].fl \cap {"listblkd", "zsetblkd"} # {}
    OBVIOUS
  <2>1. CASE Tick
    BY <2>1 DEF Tick
  <2>2. ASSUME NEW t \in M.sessions, NEW c \in DOMAIN M.calls, Start(t, c) PROVE FALSE
    <3>1. /\ \A u \in Sessions \ {t} : sess'[u] = sess[u]
          /\ UNCHANGED <<db, now>>
      BY <2>2, StartStep DEF StoreInv
    <3>2. db' = db
      BY <3>1
    <3> QED BY <3>2
  <2>3. ASSUME NEW t \in M.sessions, Step(t)
        PROVE  sess'[s].fl \cap {"listblkd", "zsetblkd"} # {}
    <3>1. s = t
      BY <2>3, StepHandles DEF Handled
    <3> QED BY <2>3, <3>1, StepTells DEF CallOf
  <2> QED BY <2>1, <2>2, <2>3 DEF Next
<1> QED BY <1>1, StoreAlways, PTL DEF Spec, WaitersTold
=============================================================================
