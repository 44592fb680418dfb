---------------------------- MODULE MemcachedProofs ----------------------------
(***************************************************************************)
(* Proofs about the memcached clients, for any keys, connections and       *)
(* requests: what the handler of a request leaves and answers, and what    *)
(* its client may conclude from the answer; the frames of memcached over   *)
(* UDP, what is put together from the datagrams of a read and what a reply *)
(* is cut into; then the inductive invariant of the connections and the    *)
(* theorems that rest on it.                                               *)
(***************************************************************************)
EXTENDS Memcached, FunctionTheorems, FiniteSetTheorems, TLAPS

Data   == Seq(Nat)
Statuses == {"ok", "error", "server_error", "stored", "not_stored", "exists", "not_found", "deleted",
             "touched", "value", "number", "end", "bad_incr"}
Answer == [st : Statuses, key : Nat, data : Data, flags : Nat, cas : Nat]
Outcome == [e : Entries, out : Seq(Answer), part : Seq(Answer), ok : BOOLEAN]

-----------------------------------------------------------------------------
(* Numbers as text *)

Text == INSTANCE FoldTheorems WITH Op <- Plus

\* The text of a number is data (uint_to_str).
LEMMA NatTextType == \A n \in Nat : NatText[n] \in Data
<1>1. Text!IsText(NatText)
  BY Zenon, Text!TextExists DEF NatText, Text!IsText, Text!TextStep
<1> QED BY <1>1, Text!TextIsBytes DEF Data

\* The text that an INCR stores is data.
LEMMA IntTextType == \A n \in Nat : IntText(n) \in Data
BY NatTextType DEF IntText

Digits == INSTANCE FoldTheorems WITH Op <- AddDigit

\* Digits read as a number are a natural number (str_to_uint).
LEMMA IntOfType == ASSUME NEW s \in Data, IsUint(s) PROVE IntOf(s) \in Nat
<1> DEFINE S == [i \in 0..Len(s) |-> Nat]
<1>1. DOMAIN s = 1..Len(s) /\ Len(s) \in Nat /\ s # <<>>
  BY DEF IsUint, IsInt, Data
<1>2. \A i \in 1..Len(s) : s[i] \in Nat /\ s[i] >= 48
  <2>1. s[1] # Minus /\ \A i \in DOMAIN s : IsDigit(s[i])
    BY <1>1 DEF IsUint, IsInt
  <2> SUFFICES ASSUME NEW i \in 1..Len(s) PROVE s[i] \in Nat /\ s[i] >= 48
    OBVIOUS
  <2>2. s[i] \in 48..57
    BY <1>1, <2>1 DEF IsDigit
  <2> QED BY <2>2
<1>3. 0 \in S[0] /\ \A i \in 1..Len(s) : \A n \in S[i - 1] : AddDigit(n, s[i]) \in S[i]
  BY <1>1, <1>2 DEF AddDigit
<1> HIDE DEF S
<1>4. Digits!Fold(0, s) \in S[Len(s)]
  BY <1>1, <1>3, Digits!FoldStays
<1>5. FoldLeft(AddDigit, 0, s) = Digits!Fold(0, s)
  BY Zenon DEF Digits!Fold, Digits!Iter, Digits!IsIter, FoldLeft, MapThenFoldSet, Max, Digits!Top
<1>6. IntOf(s) = FoldLeft(AddDigit, 0, s)
  BY <1>1 DEF IntOf, IsUint
<1> QED BY <1>1, <1>4, <1>5, <1>6 DEF S

-----------------------------------------------------------------------------
(* One key of a request *)

\* a later value w of an entry e: the number grows with every change
Later(e, w) ==
    /\ w.cas >= e.cas
    /\ w.cas = e.cas /\ w.type # "none" => e.type # "none" /\ w.data = e.data

\* who was told a number of the entry w was told its data
Told(w, cas, data) ==
    /\ cas <= w.cas
    /\ cas = w.cas /\ w.type # "none" => data = w.data

Tells(r, i, w, a) ==
    a.cas # 0 /\ ~Untold(r) =>
        IF a.st \in {"value", "number"}
        THEN a.key \in {0, i} /\ (a.key = 0 => i = 1) /\ Told(w, a.cas, a.data)
        ELSE i = 1 /\ Told(w, a.cas, r.val)

WithKeys(r) == r \in Requests /\ IsRequest(r) /\ r.keys # <<>>

\* what is answered about the only key of a request
Single(r, out) ==
    ~Mute(r) =>
        /\ ~r.quiet => out # <<>>
        /\ r.quiet /\ r.cmd \in Stores => out = <<>>
        /\ r.proto = "text" /\ r.cmd \in Retrievals =>
             \/ Len(out) = 1 /\ out[1].st = "end"
             \/ Len(out) = 2 /\ out[1].st = "value" /\ out[2].st = "end"

HandlerOK(r, e, i, res) ==
    /\ res \in Outcome
    /\ Later(e, res.e)
    /\ \A j \in DOMAIN res.out : Tells(r, i, res.e, res.out[j])
    /\ \A j \in DOMAIN res.part : Tells(r, i, res.e, res.part[j])
    /\ Len(r.keys) = 1 => res.part = <<>> /\ res.ok /\ Single(r, res.out)
    /\ Len(r.keys) > 1 =>
         /\ res.out = <<>> /\ Len(res.part) <= 1
         /\ \A j \in DOMAIN res.part : res.part[j].st = "value" /\ res.part[j].key = i
    /\ ~res.ok => Mute(r)

USE DEF Data

\* What a key is found to be is an entry; what is not expired is found as it
\* is, and an expired one is a later state of it.
LEMMA FoundType ==
    ASSUME NEW e \in Entries, NEW t \in Nat
    PROVE  /\ Found(e, t) \in Entries /\ Later(e, Found(e, t))
           /\ Found(e, t).type # "none" => Found(e, t) = e
BY DEF Found, Entries, Missing, Item, Later

\* The usual outcome of a handler: the entry, the answers, nothing saved.
LEMMA ResultType ==
    ASSUME NEW e \in Entries, NEW out \in Seq(Answer)
    PROVE  /\ Result(e, out) \in Outcome
           /\ Result(e, out).e = e /\ Result(e, out).out = out
           /\ Result(e, out).part = <<>> /\ Result(e, out).ok
BY DEF Result, Outcome

\* An answer of a status alone carries no number and no key.
LEMMA AnswerType ==
    ASSUME NEW st \in Statuses
    PROVE  A(st) \in Answer /\ A(st).cas = 0 /\ A(st).st = st /\ A(st).key = 0
BY DEF A, Answer

\* A quiet request says nothing, another one says its answer.
LEMMA SayType ==
    ASSUME NEW r \in Requests, NEW a \in Answer
    PROVE  /\ Say(r, a) \in Seq(Answer)
           /\ \A j \in DOMAIN Say(r, a) : Say(r, a)[j] = a
           /\ ~r.quiet => Say(r, a) # <<>>
           /\ r.quiet => Say(r, a) = <<>>
BY DEF Say, Requests

\* The time at which an entry expires is a natural number.
LEMMA ExpiresAtType == \A ttl, t \in Nat : ExpiresAt(ttl, t) \in Nat
BY DEF ExpiresAt

\* A new expiry keeps the data, the type and the number of an entry.
LEMMA StampType ==
    ASSUME NEW e \in Entries, NEW ttl \in Nat, NEW t \in Nat
    PROVE  /\ Stamp(e, ttl, t) \in Entries /\ Later(e, Stamp(e, ttl, t))
           /\ Stamp(e, ttl, t).cas = e.cas /\ Stamp(e, ttl, t).data = e.data
           /\ Stamp(e, ttl, t).type = e.type
<1>1. ExpiresAt(ttl, t) \in Nat
  BY ExpiresAtType
<1> QED BY <1>1 DEF Stamp, Entries, Later

\* Only text retrievals have more than one key.
LEMMA OneKey ==
    ASSUME NEW r, WithKeys(r)
    PROVE  /\ r \in Requests /\ Len(r.keys) \in Nat /\ Len(r.keys) >= 1
           /\ DOMAIN r.keys = 1..Len(r.keys) /\ \A i \in DOMAIN r.keys : r.keys[i] \in Keys
           /\ Len(r.keys) > 1 => r.proto = "text" /\ r.cmd \in Retrievals
           /\ r.cmd \notin Retrievals => Len(r.keys) = 1
           /\ ~(Len(r.keys) > 1) => Len(r.keys) = 1
<1>1. r \in Requests /\ r.keys \in Seq(Keys) /\ r.keys # <<>>
  BY DEF WithKeys, Requests
<1>2. Len(r.keys) > 1 => r.proto = "text" /\ r.cmd \in Retrievals
  BY <1>1 DEF WithKeys, IsRequest
<1> DEFINE n == Len(r.keys)
<1>3. n \in Nat /\ n # 0
  BY <1>1
<1>4. r.cmd \notin Retrievals => ~(n > 1)
  BY <1>2
<1> HIDE DEF n
<1>5. (r.cmd \notin Retrievals => n = 1) /\ (~(n > 1) => n = 1)
  BY <1>3, <1>4
<1>6. n >= 1
  BY <1>3
<1> QED BY <1>1, <1>2, <1>5, <1>6 DEF n

\* A store gives the entry the next number, and unless it appends or prepends
\* to what is there, the request's value.
LEMMA StoredType ==
    ASSUME NEW r \in Requests, NEW e \in Entries, NEW t \in Nat
    PROVE  /\ Stored(r, e, t) \in Entries
           /\ Stored(r, e, t).cas = e.cas + 1 /\ Stored(r, e, t).cas # 0
           /\ ~Pends(r) => Stored(r, e, t).data = r.val
<1>1. ExpiresAt(r.ttl, t) \in Nat
  BY ExpiresAtType DEF Requests
<1>2. e.data \o r.val \in Data /\ r.val \o e.data \in Data /\ r.val \in Data
  BY DEF Entries, Requests
<1> QED BY <1>1, <1>2 DEF Stored, Item, Entries, Requests, Pends

\* An entry that was created for a request and then refused only has its
\* type.
LEMMA TypedType ==
    ASSUME NEW e \in Entries
    PROVE  Typed(e) \in Entries /\ Later(e, Typed(e))
BY DEF Typed, Entries, Later

\* SET, ADD, REPLACE, APPEND, PREPEND and CAS do what a handler may do
\* (exec_store, exec_bin_store).
LEMMA StoreOK ==
    ASSUME NEW r, WithKeys(r), r.cmd \in Stores, NEW e \in Entries, NEW t \in Nat
    PROVE  HandlerOK(r, e, 1, Store(r, e, t))
<1> DEFINE w == Stored(r, e, t)
           no == Refusal(r, e)
           told == [A("stored") EXCEPT !.cas = IF r.proto = "bin" THEN w.cas ELSE 0]
           old == IF IsNew(e) THEN Typed(e) ELSE e
<1>1. r \in Requests /\ Len(r.keys) = 1 /\ r.cmd \notin Retrievals
  BY OneKey DEF Stores, Retrievals
<1>2. CASE no # "none"
  <2>1. no \in Statuses
    <3>1. no \in {"not_found", "not_stored", "exists", "none"}
      BY Zenon DEF Refusal
    <3> QED BY <1>2, <3>1 DEF Statuses
  <2>2. old \in Entries /\ Later(e, old)
    BY TypedType DEF Later, Entries
  <2>3. A(no) \in Answer /\ A(no).cas = 0
    BY <2>1, AnswerType
  <2> DEFINE out == Say(r, A(no))
  <2>4. /\ out \in Seq(Answer) /\ \A j \in DOMAIN out : out[j] = A(no)
        /\ ~r.quiet => out # <<>>
        /\ r.quiet => out = <<>>
    BY <1>1, <2>3, SayType
  <2>5. Store(r, e, t) = Result(old, out)
    BY <1>2 DEF Store
  <2> HIDE DEF out, old
  <2> QED BY <1>1, <2>2, <2>3, <2>4, <2>5, ResultType DEF HandlerOK, Tells, Single
<1>3. CASE no = "none"
  <2>1. w \in Entries /\ w.cas = e.cas + 1 /\ (~Pends(r) => w.data = r.val)
    BY <1>1, StoredType
  <2> HIDE DEF w
  <2>2. told \in Answer /\ told.st = "stored" /\ told.cas \in {0, w.cas}
    <3>1. A("stored") \in Answer /\ A("stored").st = "stored"
      BY AnswerType DEF Statuses
    <3>2. w.cas \in Nat
      BY <2>1 DEF Entries
    <3> QED BY <3>1, <3>2 DEF Answer, told
  <2> HIDE DEF told
  <2> DEFINE out == Say(r, told)
  <2>3. /\ out \in Seq(Answer) /\ \A j \in DOMAIN out : out[j] = told
        /\ ~r.quiet => out # <<>>
        /\ r.quiet => out = <<>>
    BY <1>1, <2>2, SayType
  <2>4. Store(r, e, t) = Result(w, out)
    BY <1>3 DEF Store, w, told
  <2>5. Later(e, w) /\ Tells(r, 1, w, told)
    BY <2>1, <2>2 DEF Later, Tells, Told, Entries, Untold
  <2> HIDE DEF out
  <2> QED BY <1>1, <2>1, <2>3, <2>4, <2>5, ResultType DEF HandlerOK, Single
<1> QED BY <1>2, <1>3

\* A value that is answered is the entry's data, with its number or none.
LEMMA ValueType ==
    ASSUME NEW r \in Requests, NEW e \in Entries, NEW i \in Nat
    PROVE  /\ Value(r, e, i) \in Answer
           /\ Value(r, e, i).st = "value" /\ Value(r, e, i).key = i
           /\ Value(r, e, i).data = e.data /\ Value(r, e, i).cas \in {0, e.cas}
BY DEF Value, A, Answer, Entries, Statuses

\* A retrieval that found nothing answers what a handler may answer.
LEMMA MissOK ==
    ASSUME NEW r, WithKeys(r), r.cmd \in Retrievals, NEW e \in Entries, NEW i \in DOMAIN r.keys
    PROVE  HandlerOK(r, e, i, Miss(r, e))
<1>1. r \in Requests /\ Len(r.keys) \in Nat /\ Len(r.keys) >= 1
  BY OneKey
<1>2. Later(e, e) /\ r.cmd \notin Stores /\ (Len(r.keys) > 1 => r.proto = "text")
  BY OneKey DEF Later, Entries, Retrievals, Stores
<1>3. /\ A("not_found") \in Answer /\ A("not_found").cas = 0
      /\ A("end") \in Answer /\ A("end").cas = 0 /\ A("end").st = "end"
  BY AnswerType DEF Statuses
<1> DEFINE out == IF r.proto = "bin" THEN Say(r, A("not_found"))
                  ELSE IF Len(r.keys) = 1 THEN <<A("end")>> ELSE <<>>
<1>4. Miss(r, e) = Result(e, out)
  BY DEF Miss
<1>5. /\ Say(r, A("not_found")) \in Seq(Answer)
      /\ \A j \in DOMAIN Say(r, A("not_found")) : Say(r, A("not_found"))[j] = A("not_found")
      /\ ~r.quiet => Say(r, A("not_found")) # <<>>
  BY <1>1, <1>3, SayType
<1>6. /\ out \in Seq(Answer)
      /\ \A j \in DOMAIN out : out[j].cas = 0
      /\ Len(r.keys) > 1 => out = <<>>
      /\ Len(r.keys) = 1 /\ ~r.quiet => out # <<>>
      /\ Len(r.keys) = 1 /\ r.proto = "text" => Len(out) = 1 /\ out[1].st = "end"
  <2>1. CASE r.proto = "bin"
    BY <1>1, <1>2, <1>3, <1>5, <2>1
  <2>2. CASE r.proto # "bin"
    <3>1. out = IF Len(r.keys) = 1 THEN <<A("end")>> ELSE <<>>
      BY <2>2
    <3>2. CASE Len(r.keys) = 1
      <4>1. out = <<A("end")>>
        BY <3>1, <3>2
      <4> HIDE DEF out
      <4> QED BY <1>3, <3>2, <4>1
    <3>3. CASE Len(r.keys) # 1
      <4>1. out = <<>>
        BY <3>1, <3>3
      <4> HIDE DEF out
      <4> QED BY <1>1, <3>3, <4>1
    <3> QED BY <3>2, <3>3
  <2> QED BY <2>1, <2>2
<1> HIDE DEF out
<1>7. \A j \in DOMAIN out : Tells(r, i, e, out[j])
  BY <1>6 DEF Tells
<1>8. Len(r.keys) = 1 => Single(r, out)
  BY <1>2, <1>6 DEF Single
<1> QED BY <1>1, <1>2, <1>4, <1>6, <1>7, <1>8, ResultType DEF HandlerOK

\* A count above one is not one.
LEMMA MoreThanOne == \A n \in Nat : n > 1 => n # 1
OBVIOUS

\* A sequence of two elements is not empty.
LEMMA TwoElements == \A s : Len(s) = 2 => s # <<>>
<1> SUFFICES ASSUME NEW s, Len(s) = 2, s = <<>> PROVE FALSE
  OBVIOUS
<1>1. Len(<<>>) = 0
  OBVIOUS
<1> QED BY <1>1

\* The outcome of a retrieval that saves its value for the end of the
\* request.
LEMMA SavedType ==
    ASSUME NEW e \in Entries, NEW part \in Seq(Answer)
    PROVE  LET res == [Result(e, <<>>) EXCEPT !.part = part]
               bad == [res EXCEPT !.ok = FALSE]
           IN  /\ res \in Outcome /\ bad \in Outcome
               /\ res.e = e /\ res.out = <<>> /\ res.part = part /\ res.ok
               /\ bad.e = e /\ bad.out = <<>> /\ bad.part = part /\ ~bad.ok
<1>1. Result(e, <<>>) \in Outcome /\ Result(e, <<>>).e = e /\ Result(e, <<>>).out = <<>>
      /\ Result(e, <<>>).ok
  <2>1. <<>> \in Seq(Answer)
    OBVIOUS
  <2> QED BY <2>1, ResultType
<1> QED BY <1>1 DEF Outcome

\* A retrieval of several keys that found the value w of the i-th one saves
\* it for the end of the request (save_value).
LEMMA SavedOK ==
    ASSUME NEW r, WithKeys(r), r.cmd \in Retrievals, NEW e \in Entries, NEW w \in Entries,
           Later(e, w), NEW i \in DOMAIN r.keys, ~IsNew(w), Len(r.keys) > 1
    PROVE  /\ HandlerOK(r, e, i, Retr(r, w, i))
           /\ Mute(r) => HandlerOK(r, e, i, [Retr(r, w, i) EXCEPT !.ok = FALSE])
<1> DEFINE v == Value(r, w, i)
           res == [Result(w, <<>>) EXCEPT !.part = <<v>>]
           bad == [res EXCEPT !.ok = FALSE]
<1>1. r \in Requests /\ Len(r.keys) \in Nat /\ i \in 1..Len(r.keys) /\ Len(r.keys) # 1
  <2>1. r \in Requests /\ Len(r.keys) \in Nat /\ i \in 1..Len(r.keys)
    BY OneKey
  <2> QED BY Zenon, <2>1, MoreThanOne
<1>2. /\ v \in Answer /\ v.st = "value" /\ v.key = i /\ v.cas \in {0, w.cas} /\ v.data = w.data
  BY <1>1, ValueType
<1>3. Tells(r, i, w, v)
  BY <1>1, <1>2 DEF Tells, Told, Entries
<1>4. Retr(r, w, i) = res
  BY DEF Retr
<1> HIDE DEF v
<1>5. <<v>> \in Seq(Answer)
  BY <1>2
<1>6. /\ res \in Outcome /\ bad \in Outcome
      /\ res.e = w /\ res.out = <<>> /\ res.part = <<v>> /\ res.ok
      /\ bad.e = w /\ bad.out = <<>> /\ bad.part = <<v>> /\ ~bad.ok
  BY Zenon, <1>5, SavedType
<1> HIDE DEF res
<1>7. HandlerOK(r, e, i, res)
  BY <1>1, <1>2, <1>3, <1>6 DEF HandlerOK
<1> HIDE DEF bad
<1>8. Mute(r) => HandlerOK(r, e, i, bad)
  BY <1>1, <1>2, <1>3, <1>6 DEF HandlerOK
<1> QED BY <1>4, <1>7, <1>8 DEF bad

\* An answer followed by none.
LEMMA Concat1 == \A a : <<a>> \o <<>> = <<a>>
OBVIOUS

\* Two answers in a row.
LEMMA Concat2 ==
    ASSUME NEW S, NEW a \in S, NEW b \in S
    PROVE  /\ <<a>> \o <<b>> \in Seq(S) /\ Len(<<a>> \o <<b>>) = 2
           /\ (<<a>> \o <<b>>)[1] = a /\ (<<a>> \o <<b>>)[2] = b
OBVIOUS

\* A retrieval of one key that found the value w answers it at once.
LEMMA AnsweredOK ==
    ASSUME NEW r, WithKeys(r), r.cmd \in Retrievals, NEW e \in Entries, NEW w \in Entries,
           Later(e, w), NEW i \in DOMAIN r.keys, ~IsNew(w), ~(Len(r.keys) > 1)
    PROVE  HandlerOK(r, e, i, Retr(r, w, i))
<1> DEFINE v == Value(r, w, i)
           end == A("end")
           out == <<v>> \o IF r.proto = "text" THEN <<end>> ELSE <<>>
<1>1. r \in Requests /\ Len(r.keys) = 1 /\ i \in 1..Len(r.keys)
  BY OneKey
<1>2. /\ v \in Answer /\ v.st = "value" /\ v.key = i /\ v.cas \in {0, w.cas} /\ v.data = w.data
  BY <1>1, ValueType
<1>3. Tells(r, i, w, v)
  BY <1>1, <1>2 DEF Tells, Told, Entries
<1>4. end \in Answer /\ end.cas = 0 /\ end.st = "end"
  BY AnswerType DEF Statuses
<1>5. Retr(r, w, i) = Result(w, out)
  BY DEF Retr
<1> HIDE DEF v, end
<1>6. /\ out \in Seq(Answer) /\ out # <<>> /\ \A j \in DOMAIN out : out[j] \in {v, end}
      /\ r.proto = "text" => Len(out) = 2 /\ out[1].st = "value" /\ out[2].st = "end"
  <2>1. CASE r.proto = "text"
    <3>1. out = <<v>> \o <<end>>
      BY <2>1
    <3> HIDE DEF out
    <3>2. out \in Seq(Answer) /\ Len(out) = 2 /\ out[1] = v /\ out[2] = end
      BY <1>2, <1>4, <3>1, Concat2
    <3>3. \A j \in DOMAIN out : j \in {1, 2}
      BY <3>2
    <3>4. \A j \in DOMAIN out : out[j] \in {v, end}
      BY <3>2, <3>3
    <3>5. out # <<>>
      BY Zenon, <3>2, TwoElements
    <3> QED BY <1>2, <1>4, <3>2, <3>4, <3>5
  <2>2. CASE r.proto # "text"
    <3>1. out = <<v>>
      BY <2>2, Concat1
    <3> HIDE DEF out
    <3> QED BY <1>2, <2>2, <3>1
  <2> QED BY <2>1, <2>2
<1> HIDE DEF out
<1>7. \A j \in DOMAIN out : Tells(r, i, w, out[j])
  BY <1>3, <1>4, <1>6 DEF Tells
<1>8. r.cmd \notin Stores
  BY DEF Stores, Retrievals
<1>9. Single(r, out)
  BY <1>6, <1>8 DEF Single
<1> QED BY <1>1, <1>5, <1>6, <1>7, <1>9, ResultType DEF HandlerOK

\* GET and GETS do what a handler may do (exec_retr, exec_bin_retr).
LEMMA RetrOK ==
    ASSUME NEW r, WithKeys(r), r.cmd \in Retrievals, NEW e \in Entries, NEW i \in DOMAIN r.keys
    PROVE  HandlerOK(r, e, i, Retr(r, e, i))
<1>1. CASE IsNew(e)
  BY <1>1, MissOK DEF Retr
<1>2. CASE ~IsNew(e)
  <2>1. Later(e, e)
    BY DEF Later, Entries
  <2>2. CASE Len(r.keys) > 1
    BY <1>2, <2>1, <2>2, SavedOK
  <2>3. CASE ~(Len(r.keys) > 1)
    BY <1>2, <2>1, <2>3, AnsweredOK
  <2> QED BY <2>2, <2>3
<1> QED BY <1>1, <1>2

\* GAT and GATS do what a handler may do (exec_retr_touch).
LEMMA RetrTouchOK ==
    ASSUME NEW r, WithKeys(r), r.cmd \in {"gat", "gats"}, NEW e \in Entries, NEW i \in DOMAIN r.keys,
           NEW t \in Nat
    PROVE  HandlerOK(r, e, i, RetrTouch(r, e, i, t))
<1> DEFINE w == Stamp(e, r.ttl, t)
<1>1. r \in Requests /\ r.cmd \in Retrievals /\ r.ttl \in Nat
  BY DEF WithKeys, Requests, Retrievals
<1>2. CASE IsNew(e)
  BY <1>1, <1>2, MissOK DEF RetrTouch
<1>3. CASE ~IsNew(e)
  <2>1. w \in Entries /\ Later(e, w) /\ ~IsNew(w)
    BY <1>1, <1>3, StampType DEF IsNew
  <2> HIDE DEF w
  <2>2. CASE Len(r.keys) > 1
    <3>1. RetrTouch(r, e, i, t) = [Retr(r, w, i) EXCEPT !.ok = FALSE]
      BY <1>3, <2>2 DEF RetrTouch, w
    <3>2. Mute(r)
      BY <2>2 DEF Mute
    <3> QED BY <1>1, <2>1, <2>2, <3>1, <3>2, SavedOK
  <2>3. CASE ~(Len(r.keys) > 1)
    <3>1. RetrTouch(r, e, i, t) = Retr(r, w, i)
      BY <1>3, <2>3 DEF RetrTouch, w
    <3> QED BY <1>1, <2>1, <2>3, <3>1, AnsweredOK
  <2> QED BY <2>2, <2>3
<1> QED BY <1>2, <1>3


\* DELETE does what a handler may do (exec_del, exec_bin_del).
LEMMA DeleteOK ==
    ASSUME NEW r, WithKeys(r), r.cmd = "delete", NEW e \in Entries
    PROVE  HandlerOK(r, e, 1, Delete(r, e))
<1>1. r \in Requests /\ Len(r.keys) = 1 /\ r.cmd \notin Stores /\ r.cmd \notin Retrievals
  BY OneKey DEF Stores, Retrievals
<1> DEFINE w == IF e.type = "none" THEN e ELSE Missing(e.cas + 1)
           a == IF e.type = "none" THEN A("not_found") ELSE A("deleted")
<1>2. w \in Entries /\ Later(e, w)
  BY DEF Entries, Later, Missing, Item
<1>3. a \in Answer /\ a.cas = 0
  BY AnswerType DEF Statuses
<1>4. Delete(r, e) = Result(w, Say(r, a))
  BY DEF Delete
<1> HIDE DEF w, a
<1> DEFINE out == Say(r, a)
<1>5. /\ out \in Seq(Answer) /\ \A j \in DOMAIN out : out[j] = a
      /\ ~r.quiet => out # <<>>
  BY <1>1, <1>3, SayType
<1> HIDE DEF out
<1> QED BY <1>1, <1>2, <1>3, <1>4, <1>5, ResultType DEF HandlerOK, Tells, Single, out

\* TOUCH does what a handler may do (exec_touch, exec_bin_touch).
LEMMA TouchOK ==
    ASSUME NEW r, WithKeys(r), r.cmd = "touch", NEW e \in Entries, NEW t \in Nat
    PROVE  HandlerOK(r, e, 1, TouchKey(r, e, t))
<1>1. /\ r \in Requests /\ Len(r.keys) = 1 /\ r.cmd \notin Stores /\ r.cmd \notin Retrievals
      /\ r.ttl \in Nat
  BY OneKey DEF Stores, Retrievals, Requests
<1> DEFINE w == IF IsNew(e) THEN e ELSE Stamp(e, r.ttl, t)
           a == IF IsNew(e) THEN A("not_found") ELSE Touched(r, e)
<1>2. w \in Entries /\ Later(e, w)
  <2>1. Later(e, e)
    BY DEF Entries, Later
  <2>2. CASE IsNew(e)
    BY <2>1, <2>2
  <2>3. CASE ~IsNew(e)
    BY <1>1, <2>3, StampType
  <2> QED BY <2>2, <2>3
<1>3. a \in Answer /\ Untold(r)
  <2>1. A("not_found") \in Answer /\ A("touched") \in Answer
    BY AnswerType DEF Statuses
  <2>2. Touched(r, e) \in Answer
    BY <2>1 DEF Touched, Answer, Entries
  <2> QED BY <2>1, <2>2 DEF Untold
<1>4. TouchKey(r, e, t) = Result(w, Say(r, a))
  BY DEF TouchKey
<1> HIDE DEF w, a
<1> DEFINE out == Say(r, a)
<1>5. /\ out \in Seq(Answer) /\ \A j \in DOMAIN out : out[j] = a
      /\ ~r.quiet => out # <<>>
  BY <1>1, <1>3, SayType
<1> HIDE DEF out
<1> QED BY <1>1, <1>2, <1>3, <1>4, <1>5, ResultType DEF HandlerOK, Tells, Single, out

\* A key that is given a number has its text and the next number of the
\* entry.
LEMMA NumberType ==
    ASSUME NEW e \in Entries, NEW n \in Nat
    PROVE  /\ Number(e, n) \in Entries /\ Number(e, n).cas = e.cas + 1
           /\ Number(e, n).type = e.type /\ Number(e, n).data = IntText(n)
           /\ Later(e, Number(e, n))
<1>1. IntText(n) \in Data
  BY IntTextType
<1>2. e.cas + 1 \in Nat /\ e.cas + 1 # e.cas /\ e.cas + 1 >= e.cas
  BY DEF Entries
<1> DEFINE c == e.cas + 1
           d == IntText(n)
<1>3. Number(e, n) = [e EXCEPT !.data = d, !.cas = c]
  BY DEF Number
<1> HIDE DEF c, d
<1>4. c \in Nat /\ d \in Data
  BY <1>1, <1>2 DEF c, d
<1>5. /\ Number(e, n) \in Entries /\ Number(e, n).cas = c
      /\ Number(e, n).type = e.type /\ Number(e, n).data = d
  BY <1>3, <1>4 DEF Entries
<1> QED BY <1>2, <1>5 DEF c, d, Later

\* What is counted up is a natural number, and a count down stops at 0.
LEMMA CountedType ==
    ASSUME NEW r \in Requests, NEW n \in Nat PROVE Counted(r, n) \in Nat
<1>1. r.inc \in Nat /\ Word \in Nat \ {0}
  BY MemcachedAssumption DEF Requests
<1>2. (n + r.inc) % Word \in Nat
  BY <1>1
<1>3. n > r.inc => n - r.inc \in Nat
  BY <1>1
<1> QED BY <1>2, <1>3 DEF Counted

\* INCR and DECR of the text protocol do what a handler may do (exec_incr).
LEMMA IncrOK ==
    ASSUME NEW r, WithKeys(r), r.cmd \in {"incr", "decr"}, r.proto = "text", NEW e \in Entries
    PROVE  HandlerOK(r, e, 1, Incr(r, e))
<1>1. /\ r \in Requests /\ Len(r.keys) = 1
      /\ Mute(r)
  BY OneKey DEF Stores, Retrievals, Mute
<1>2. CASE IsNew(e)
  <2> DEFINE out == <<>>
  <2>1. Incr(r, e) = Result(e, out) /\ out \in Seq(Answer) /\ Later(e, e) /\ \A j \in DOMAIN out : FALSE
    BY <1>2 DEF Incr, Later, Entries
  <2> HIDE DEF out
  <2> QED BY <1>1, <2>1, ResultType DEF HandlerOK, Single
<1>3. CASE ~IsNew(e) /\ ~IsUint(e.data)
  <2>1. A("bad_incr") \in Answer /\ A("bad_incr").cas = 0
    BY AnswerType DEF Statuses
  <2> DEFINE out == <<A("bad_incr")>>
  <2>2. out \in Seq(Answer) /\ \A j \in DOMAIN out : out[j].cas = 0
    BY <2>1
  <2>3. Incr(r, e) = Result(e, out) /\ Later(e, e)
    BY <1>3 DEF Incr, Later, Entries
  <2> HIDE DEF out
  <2> QED BY <1>1, <2>2, <2>3, ResultType DEF HandlerOK, Single, Tells
<1>4. CASE ~IsNew(e) /\ IsUint(e.data)
  <2> DEFINE n == Counted(r, IntOf(e.data))
             w == Number(e, n)
             a == [A("number") EXCEPT !.data = IntText(n)]
             out == <<a>>
  <2>1. n \in Nat
    BY <1>1, <1>4, IntOfType, CountedType DEF Entries
  <2> HIDE DEF n
  <2>2. w \in Entries /\ Later(e, w)
    BY <2>1, NumberType
  <2>3. a \in Answer /\ a.cas = 0
    <3>1. A("number") \in Answer /\ A("number").cas = 0 /\ IntText(n) \in Data
      BY <2>1, AnswerType, IntTextType DEF Statuses
    <3> QED BY <3>1 DEF Answer
  <2>4. Incr(r, e) = Result(w, out)
    BY <1>4 DEF Incr, n
  <2> HIDE DEF w, a
  <2>5. out \in Seq(Answer) /\ \A j \in DOMAIN out : out[j].cas = 0
    BY <2>3
  <2> HIDE DEF out
  <2> QED BY <1>1, <2>2, <2>4, <2>5, ResultType DEF HandlerOK, Single, Tells
<1> QED BY <1>2, <1>3, <1>4

\* A number that the key was given may be told with the number of the entry.
LEMMA TellOK ==
    ASSUME NEW r, WithKeys(r), r.cmd \in {"incr", "decr"}, NEW e \in Entries, NEW w \in Entries,
           Later(e, w)
    PROVE  HandlerOK(r, e, 1, Result(w, <<[A("number") EXCEPT !.data = w.data, !.cas = w.cas]>>))
<1>1. /\ r \in Requests /\ Len(r.keys) = 1 /\ r.cmd \notin Stores /\ r.cmd \notin Retrievals
  BY OneKey DEF Stores, Retrievals
<1> DEFINE a == [A("number") EXCEPT !.data = w.data, !.cas = w.cas]
           out == <<a>>
<1>2. a \in Answer /\ a.st = "number" /\ a.key = 0 /\ a.data = w.data /\ a.cas = w.cas
  BY AnswerType DEF Statuses, Answer, Entries
<1> HIDE DEF a
<1>3. Tells(r, 1, w, a)
  BY <1>2 DEF Tells, Told, Entries
<1>4. out \in Seq(Answer) /\ out # <<>> /\ \A j \in DOMAIN out : out[j] = a
  BY <1>2
<1> HIDE DEF out
<1>5. HandlerOK(r, e, 1, Result(w, out))
  BY <1>1, <1>3, <1>4, ResultType DEF HandlerOK, Single
<1> QED BY <1>5 DEF out, a

\* INCR and DECR of the binary protocol do what a handler may do
\* (exec_bin_incr).
LEMMA BinIncrOK ==
    ASSUME NEW r, WithKeys(r), r.cmd \in {"incr", "decr"}, r.proto # "text", NEW e \in Entries
    PROVE  HandlerOK(r, e, 1, BinIncrKey(r, e))
<1>1. r \in Requests /\ r.ini \in Nat /\ Len(r.keys) = 1 /\ r.cmd \notin Stores
  BY OneKey DEF Stores, Retrievals, Requests
<1> DEFINE Tell(w) == Result(w, <<[A("number") EXCEPT !.data = w.data, !.cas = w.cas]>>)
<1>2. CASE IsNew(e)
  <2> DEFINE w == IF e.type = "none" THEN [Number(e, r.ini) EXCEPT !.type = "string"]
                  ELSE Number(e, r.ini)
  <2>1. w \in Entries /\ Later(e, w)
    <3> DEFINE v == Number(e, r.ini)
    <3>1. v \in Entries /\ Later(e, v) /\ v.cas = e.cas + 1 /\ e.cas \in Nat
      BY <1>1, NumberType DEF Entries
    <3>2. w = IF e.type = "none" THEN [v EXCEPT !.type = "string"] ELSE v
      OBVIOUS
    <3> HIDE DEF v, w
    <3>3. CASE e.type = "none"
      <4>1. w \in Entries /\ w.cas = v.cas
        BY <3>1, <3>2, <3>3 DEF Entries
      <4> QED BY <3>1, <4>1 DEF Later
    <3>4. CASE e.type # "none"
      BY <3>1, <3>2, <3>4
    <3> QED BY <3>3, <3>4
  <2>2. BinIncrKey(r, e) = Tell(w)
    BY <1>2 DEF BinIncrKey
  <2> HIDE DEF w
  <2> QED BY <2>1, <2>2, TellOK
<1>3. CASE ~IsNew(e) /\ ~IsUint(e.data)
  <2>1. A("bad_incr") \in Answer /\ A("bad_incr").cas = 0
    BY AnswerType DEF Statuses
  <2> DEFINE out == <<A("bad_incr")>>
  <2>2. out \in Seq(Answer) /\ out # <<>> /\ \A j \in DOMAIN out : out[j].cas = 0
    BY <2>1
  <2>3. BinIncrKey(r, e) = Result(e, out) /\ Later(e, e)
    BY <1>3 DEF BinIncrKey, Later, Entries
  <2> HIDE DEF out
  <2>4. Single(r, out)
    BY <1>1, <2>2 DEF Single
  <2> QED BY <1>1, <2>2, <2>3, <2>4, ResultType DEF HandlerOK, Tells
<1>4. CASE ~IsNew(e) /\ IsUint(e.data)
  <2> DEFINE n == Counted(r, IntOf(e.data))
             w == Number(e, n)
  <2>1. n \in Nat
    BY <1>1, <1>4, IntOfType, CountedType DEF Entries
  <2>2. BinIncrKey(r, e) = Tell(w)
    BY <1>4 DEF BinIncrKey
  <2> HIDE DEF n
  <2>3. w \in Entries /\ Later(e, w)
    BY <2>1, NumberType
  <2> HIDE DEF w
  <2> QED BY <2>2, <2>3, TellOK
<1> QED BY <1>2, <1>3, <1>4

\* Whatever the request, its handler leaves a later state of the entry, and
\* answers or saves what the entry then is (exec_key_continue).
LEMMA HandlerIsOK ==
    ASSUME NEW r, WithKeys(r), NEW e \in Entries, NEW i \in DOMAIN r.keys, NEW t \in Nat
    PROVE  HandlerOK(r, e, i, Handler(r, e, i, t))
<1>1. /\ r.cmd \in Commands /\ r.cmd \notin Keyless
  <2>1. r.cmd \in Commands /\ r.keys # <<>>
    BY DEF WithKeys, Requests
  <2>2. IsRequest(r)
    BY DEF WithKeys
  <2> QED BY <2>1, <2>2 DEF IsRequest
<1>2. r.cmd \notin Retrievals => i = 1
  BY OneKey
<1>3. CASE r.cmd \in Stores
  <2>1. r.cmd \notin Retrievals
    BY <1>3 DEF Stores, Retrievals
  <2>2. Handler(r, e, i, t) = Store(r, e, t)
    BY <1>3 DEF Handler, Stores
  <2> QED BY <1>2, <1>3, <2>1, <2>2, StoreOK
<1>4. CASE r.cmd \in {"get", "gets"}
  BY <1>4, RetrOK DEF Handler, Stores, Retrievals
<1>5. CASE r.cmd \in {"gat", "gats"}
  BY <1>5, RetrTouchOK DEF Handler, Stores
<1>6. CASE r.cmd = "delete"
  BY <1>2, <1>6, DeleteOK DEF Handler, Stores, Retrievals
<1>7. CASE r.cmd = "touch"
  BY <1>2, <1>7, TouchOK DEF Handler, Stores, Retrievals
<1>8. CASE r.cmd \in {"incr", "decr"} /\ r.proto = "text"
  BY <1>2, <1>8, IncrOK DEF Handler, Stores, Retrievals
<1>9. CASE r.cmd \in {"incr", "decr"} /\ r.proto # "text"
  BY <1>2, <1>9, BinIncrOK DEF Handler, Stores, Retrievals
<1> QED BY <1>1, <1>3, <1>4, <1>5, <1>6, <1>7, <1>8, <1>9 DEF Commands, Keyless, Retrievals

-----------------------------------------------------------------------------
(* The text and the binary form of a command *)

\* A store leaves the same entry whatever the protocol.
LEMMA SameStore ==
    ASSUME NEW q, NEW b, NEW e, NEW t, q.cmd = b.cmd, q.flags = b.flags, q.ttl = b.ttl,
           q.val = b.val, ~DoCas(q), ~DoCas(b), ~Pends(q)
    PROVE  Store(q, e, t).e = Store(b, e, t).e
<1>1. ~Pends(b) /\ (MustExist(q) <=> MustExist(b))
  BY DEF Pends, MustExist
<1>2. Refusal(q, e) # "none" <=> Refusal(b, e) # "none"
  <2>1. CASE IsNew(e) /\ MustExist(q)
    BY <1>1, <2>1 DEF Refusal
  <2>2. CASE ~(IsNew(e) /\ MustExist(q)) /\ ~IsNew(e) /\ q.cmd = "add"
    BY <1>1, <2>2 DEF Refusal
  <2>3. CASE ~(IsNew(e) /\ MustExist(q)) /\ ~(~IsNew(e) /\ q.cmd = "add")
    BY <1>1, <2>3 DEF Refusal
  <2> QED BY <2>1, <2>2, <2>3
<1>3. Stored(q, e, t) = Stored(b, e, t)
  BY <1>1 DEF Stored, Pends
<1>4. CASE Refusal(q, e) # "none"
  BY <1>2, <1>4 DEF Store, Result
<1>5. CASE Refusal(q, e) = "none"
  BY <1>2, <1>3, <1>5 DEF Store, Result
<1> QED BY <1>4, <1>5

\* A retrieval leaves the entry as it is.
LEMMA SameRetr ==
    ASSUME NEW q, NEW b, NEW e, NEW i, NEW j PROVE Retr(q, e, i).e = Retr(b, e, j).e
<1>1. ASSUME NEW r, NEW k PROVE Retr(r, e, k).e = e
  BY DEF Retr, Miss, Result
<1> QED BY <1>1

\* GAT and TOUCH leave the same entry whatever the protocol.
LEMMA SameTouch ==
    ASSUME NEW q, NEW b, NEW e, NEW t, q.ttl = b.ttl,
           Len(q.keys) = 1, Len(b.keys) = 1
    PROVE  /\ RetrTouch(q, e, 1, t).e = RetrTouch(b, e, 1, t).e
           /\ TouchKey(q, e, t).e = TouchKey(b, e, t).e
<1>1. ASSUME NEW r, NEW k, NEW w PROVE Retr(r, w, k).e = w /\ Miss(r, w).e = w
  BY DEF Retr, Miss, Result
<1>0. ~(Len(q.keys) > 1) /\ ~(Len(b.keys) > 1)
  OBVIOUS
<1>2. RetrTouch(q, e, 1, t).e = RetrTouch(b, e, 1, t).e
  BY <1>0, <1>1 DEF RetrTouch
<1>3. TouchKey(q, e, t).e = TouchKey(b, e, t).e
  BY DEF TouchKey, Result
<1> QED BY <1>2, <1>3

\* INCR and DECR of a key that is there leave the same entry whatever the
\* protocol.
LEMMA SameIncr ==
    ASSUME NEW q, NEW b, NEW e, q.cmd = b.cmd, q.inc = b.inc, ~IsNew(e)
    PROVE  Incr(q, e).e = BinIncrKey(b, e).e
<1>1. \A n : Counted(q, n) = Counted(b, n)
  BY DEF Counted
<1>2. CASE ~IsUint(e.data)
  BY <1>2 DEF Incr, BinIncrKey, Result
<1>3. CASE IsUint(e.data)
  BY <1>1, <1>3 DEF Incr, BinIncrKey, Result
<1> QED BY <1>2, <1>3

\* DELETE leaves the same entry whatever the protocol.
LEMMA SameDelete ==
    ASSUME NEW q, NEW b, NEW e PROVE Delete(q, e).e = Delete(b, e).e
BY DEF Delete, Result

\* A sequence of one element is one long.
LEMMA OneLong == \A x : Len(<<x>>) = 1
OBVIOUS

\* The handler that a command runs.
LEMMA Handled ==
    ASSUME NEW r, NEW e, NEW t
    PROVE  /\ r.cmd \in Stores => Handler(r, e, 1, t) = Store(r, e, t)
           /\ r.cmd = "get" => Handler(r, e, 1, t) = Retr(r, e, 1)
           /\ r.cmd = "gat" => Handler(r, e, 1, t) = RetrTouch(r, e, 1, t)
           /\ r.cmd = "delete" => Handler(r, e, 1, t) = Delete(r, e)
           /\ r.cmd = "touch" => Handler(r, e, 1, t) = TouchKey(r, e, t)
           /\ r.cmd \in {"incr", "decr"} /\ r.proto = "text" => Handler(r, e, 1, t) = Incr(r, e)
           /\ r.cmd \in {"incr", "decr"} /\ r.proto = "bin" => Handler(r, e, 1, t) = BinIncrKey(r, e)
BY DEF Handler, Stores

\* A text request and its binary twin leave the same entry.
LEMMA TwinsAgree ==
    ASSUME NEW q, WithKeys(q), q.proto = "text", NEW b \in Twin(q), NEW e, NEW t,
           q.cmd \in {"incr", "decr"} => ~IsNew(e)
    PROVE  Handler(q, e, 1, t).e = Handler(b, e, 1, t).e
<1>1. q.cmd \in Commands /\ q.cmd \notin Keyless /\ (q.cmd # "cas" => q.cas = 0)
  BY OneKey DEF WithKeys, IsRequest, Requests
<1>2. CASE q.cmd \in Stores
  <2>1. q.cmd \in {"set", "add", "replace"}
    BY <1>2 DEF Twin, Stores
  <2>2. b = BinStore(q.cmd, q.keys[1], q.flags, q.ttl, q.val, 0, FALSE)
    BY <2>1 DEF Twin
  <2>3. /\ q.cmd = b.cmd /\ q.flags = b.flags /\ q.ttl = b.ttl /\ q.val = b.val /\ b.cas = 0
    BY <2>2 DEF BinStore, Request
  <2>4. ~DoCas(q) /\ ~DoCas(b) /\ ~Pends(q)
    BY <1>1, <2>1, <2>3 DEF DoCas, Pends
  <2>5. Store(q, e, t).e = Store(b, e, t).e
    BY <2>3, <2>4, SameStore
  <2> QED BY <1>2, <2>3, <2>5, Handled
<1>3. CASE q.cmd \in {"get", "delete"}
  <2>1. b = BinRetr(q.cmd, q.keys[1], FALSE, TRUE)
    BY <1>3 DEF Twin, Stores
  <2>2. q.cmd = b.cmd
    BY <2>1 DEF BinRetr, Request
  <2>3. Retr(q, e, 1).e = Retr(b, e, 1).e /\ Delete(q, e).e = Delete(b, e).e
    BY SameRetr, SameDelete
  <2> QED BY <1>3, <2>2, <2>3, Handled
<1>4. CASE q.cmd \in {"gat", "touch"}
  <2>1. Len(q.keys) = 1 /\ b = BinTouch(q.cmd, q.keys[1], q.ttl, FALSE)
    BY <1>4 DEF Twin, Stores
  <2>2. q.cmd = b.cmd /\ q.ttl = b.ttl /\ b.keys = <<q.keys[1]>>
    BY <2>1 DEF BinTouch, Request
  <2>3. Len(q.keys) = 1 /\ Len(b.keys) = 1
    BY Zenon, <2>1, <2>2, OneLong
  <2>4. /\ RetrTouch(q, e, 1, t).e = RetrTouch(b, e, 1, t).e
        /\ TouchKey(q, e, t).e = TouchKey(b, e, t).e
    BY <2>2, <2>3, SameTouch
  <2> QED BY <1>4, <2>2, <2>4, Handled
<1>5. CASE q.cmd \in {"incr", "decr"}
  <2>1. b = BinIncr(q.cmd, q.keys[1], q.inc, 1, FALSE)
    BY <1>5 DEF Twin, Stores
  <2>2. q.cmd = b.cmd /\ b.inc = q.inc /\ b.proto = "bin"
    BY <2>1 DEF BinIncr, Request
  <2>3. Incr(q, e).e = BinIncrKey(b, e).e
    BY <1>5, <2>2, SameIncr
  <2> QED BY <1>5, <2>2, <2>3, Handled
<1>6. q.cmd = "gets" \/ q.cmd = "gats" => FALSE
  BY DEF Twin, Stores
<1> QED BY <1>1, <1>2, <1>3, <1>4, <1>5, <1>6 DEF Commands, Keyless, Retrievals


-----------------------------------------------------------------------------
(* The keys of a request *)

Progress == [next : Nat, part : Seq(Answer), out : Seq(Answer)]

\* an answer is true of the store st: its data is that of the number it tells
Truth(q, st, a) ==
    a.cas # 0 /\ ~Untold(q) =>
        IF a.st \in {"value", "number"}
        THEN /\ a.key \in {0} \cup DOMAIN q.keys
             /\ Told(st[q.keys[IF a.key = 0 THEN 1 ELSE a.key]], a.cas, a.data)
        ELSE Told(st[q.keys[1]], a.cas, q.val)

\* what a request has saved before its n-th key
Saved(q, st, part, n) ==
    /\ Len(q.keys) = 1 => part = <<>>
    /\ \A j \in DOMAIN part : part[j].st = "value" /\ part[j].key \in 1..(n - 1) /\ Truth(q, st, part[j])
    /\ \A i, j \in DOMAIN part : i < j => part[i].key < part[j].key

\* a request that runs has answered nothing
Runs(q, st, x) ==
    /\ x.next \in DOMAIN q.keys
    /\ x.out = <<>>
    /\ Saved(q, st, x.part, x.next)

\* what Answered says of a request that ended
Finished(q, o) ==
    ~Mute(q) =>
        /\ ~q.quiet => o # <<>>
        /\ q.quiet /\ q.cmd \in Stores => o = <<>>
        /\ q.proto = "text" /\ q.cmd \in {"get", "gets", "gat", "gats"} =>
              /\ Ends(o) = {Len(o)} /\ o[Len(o)].st = "end"
              /\ \A i, j \in 1..(Len(o) - 1) : i < j => o[i].key < o[j].key

AllLater(st, new) == \A k \in Keys : Later(st[k], new[k])

\* What a client was told of an entry stays true of its later states: the
\* data changes only with the number.
LEMMA ToldLater ==
    ASSUME NEW e \in Entries, NEW w \in Entries, Later(e, w), NEW c \in Nat, NEW d, Told(e, c, d)
    PROVE  Told(w, c, d)
BY DEF Told, Later, Entries

\* An answer that is true of the store is true of a later one.
LEMMA TruthLater ==
    ASSUME NEW q, WithKeys(q), NEW st \in [Keys -> Entries], NEW new \in [Keys -> Entries],
           AllLater(st, new), NEW a \in Answer, Truth(q, st, a)
    PROVE  Truth(q, new, a)
<1>1. \A i \in DOMAIN q.keys : q.keys[i] \in Keys
  BY OneKey
<1>2. 1 \in DOMAIN q.keys
  BY OneKey
<1>3. ASSUME NEW k \in Keys, NEW d, Told(st[k], a.cas, d) PROVE Told(new[k], a.cas, d)
  <2>1. st[k] \in Entries /\ new[k] \in Entries /\ Later(st[k], new[k]) /\ a.cas \in Nat
    BY DEF AllLater, Answer
  <2> QED BY <1>3, <2>1, ToldLater
<1>4. CASE a.st \in {"value", "number"}
  <2> DEFINE i == IF a.key = 0 THEN 1 ELSE a.key
  <2>1. a.key \in {0} \cup DOMAIN q.keys => i \in DOMAIN q.keys
    BY <1>2
  <2> QED BY <1>1, <1>3, <1>4, <2>1 DEF Truth
<1>5. CASE a.st \notin {"value", "number"}
  BY <1>1, <1>2, <1>3, <1>5 DEF Truth
<1> QED BY <1>4, <1>5

\* What a handler tells of its key is true of the store.
LEMMA TellsTruth ==
    ASSUME NEW q, WithKeys(q), NEW i \in DOMAIN q.keys, NEW st, NEW a \in Answer,
           Tells(q, i, st[q.keys[i]], a)
    PROVE  Truth(q, st, a)
<1>1. a.key # 0 \/ a.key = 0
  OBVIOUS
<1> QED BY DEF Tells, Truth

\* The values saved for a request are true of a later store.
LEMMA SavedLater ==
    ASSUME NEW q, WithKeys(q), NEW st \in [Keys -> Entries], NEW new \in [Keys -> Entries],
           AllLater(st, new), NEW part \in Seq(Answer), NEW n, Saved(q, st, part, n)
    PROVE  Saved(q, new, part, n)
<1>1. \A j \in DOMAIN part : part[j] \in Answer
  OBVIOUS
<1>2. \A j \in DOMAIN part : Truth(q, new, part[j])
  BY <1>1, TruthLater DEF Saved
<1> QED BY <1>2 DEF Saved

\* The progress of a request after a key.
LEMMA KeyStepType ==
    ASSUME NEW q, WithKeys(q), NEW x \in Progress, x.next \in DOMAIN q.keys, NEW e, NEW res,
           HandlerOK(q, e, x.next, res)
    PROVE  AfterKey(x, q, res) \in Progress
<1>1. /\ x.part \o res.part \in Seq(Answer) /\ x.out \o res.out \in Seq(Answer)
      /\ A("end") \in Answer /\ A("server_error") \in Answer
  BY AnswerType DEF Progress, HandlerOK, Outcome, Statuses
<1> DEFINE p == x.part \o res.part
           o == x.out \o res.out
           y == [x EXCEPT !.part = p, !.out = o]
           over == [y EXCEPT !.next = 0]
<1>2. y \in Progress /\ y.part = p /\ y.out = o /\ over \in Progress /\ over.out = o
  BY <1>1 DEF Progress
<1>3. /\ o \o <<A("server_error")>> \in Seq(Answer)
      /\ o \o p \o <<A("end")>> \in Seq(Answer)
      /\ x.next + 1 \in Nat /\ y.next = x.next
  <2>1. <<A("end")>> \in Seq(Answer) /\ <<A("server_error")>> \in Seq(Answer)
    BY <1>1
  <2> QED BY <1>1, <1>2, <2>1 DEF Progress
<1> HIDE DEF p, o
<1> DEFINE y1 == [y EXCEPT !.next = @ + 1]
           y2 == [over EXCEPT !.out = @ \o <<A("server_error")>>]
           y3 == [over EXCEPT !.out = @ \o p \o <<A("end")>>]
<1>4. y1 \in Progress /\ y2 \in Progress /\ y3 \in Progress
  BY <1>2, <1>3 DEF Progress
<1>5. AfterKey(x, q, res) \in {y1, y2, y3, over}
  BY <1>2, Zenon DEF AfterKey, p, o
<1> QED BY <1>2, <1>4, <1>5

\* Nothing before a sequence of answers.
LEMMA EmptyFirst == ASSUME NEW S, NEW s \in Seq(S) PROVE <<>> \o s = s
OBVIOUS

\* An answer of one piece ends a request.
LEMMA SingleFinished ==
    ASSUME NEW q, NEW o \in Seq(Answer), Single(q, o) PROVE Finished(q, o)
<1> SUFFICES ASSUME ~Mute(q), q.proto = "text", q.cmd \in Retrievals
             PROVE  /\ Ends(o) = {Len(o)} /\ o[Len(o)].st = "end"
                    /\ \A i, j \in 1..(Len(o) - 1) : i < j => o[i].key < o[j].key
  BY DEF Single, Finished, Retrievals
<1>1. CASE Len(o) = 1 /\ o[1].st = "end"
  <2>1. DOMAIN o = {1}
    BY <1>1
  <2> QED BY <1>1, <2>1 DEF Ends
<1>2. CASE Len(o) = 2 /\ o[1].st = "value" /\ o[2].st = "end"
  <2>1. DOMAIN o = {1, 2}
    BY <1>2
  <2>2. Ends(o) = {2}
    BY <1>2, <2>1 DEF Ends
  <2> QED BY <1>2, <2>2
<1> QED BY <1>1, <1>2 DEF Single

\* The values that were saved and then END are the whole answer of a
\* retrieval of several keys.
LEMMA SavedFinished ==
    ASSUME NEW q, WithKeys(q), NEW st, NEW n, NEW p \in Seq(Answer), Saved(q, st, p, n),
           Len(q.keys) > 1
    PROVE  LET o == p \o <<A("end")>>
           IN  Finished(q, o) /\ \A j \in DOMAIN o : Truth(q, st, o[j])
<1> DEFINE end == A("end")
           o == p \o <<end>>
<1>1. end \in Answer /\ end.st = "end" /\ end.cas = 0
  BY AnswerType DEF Statuses
<1> HIDE DEF end
<1>2. /\ o \in Seq(Answer) /\ Len(o) = Len(p) + 1 /\ o[Len(o)] = end
      /\ \A j \in 1..Len(p) : o[j] = p[j]
      /\ Len(p) \in Nat /\ DOMAIN o = 1..(Len(p) + 1) /\ DOMAIN p = 1..Len(p)
  BY <1>1
<1> HIDE DEF o
<1>3. Ends(o) = {Len(o)}
  BY <1>1, <1>2 DEF Ends, Saved
<1>4. \A i, j \in 1..(Len(o) - 1) : i < j => o[i].key < o[j].key
  BY <1>2 DEF Saved
<1>5. \A j \in DOMAIN o : Truth(q, st, o[j])
  BY <1>1, <1>2 DEF Saved, Truth
<1>6. q.cmd \notin Stores
  BY OneKey DEF Stores, Retrievals
<1>7. o # <<>>
  BY <1>2
<1>8. Finished(q, o)
  BY <1>1, <1>2, <1>3, <1>4, <1>6, <1>7 DEF Finished
<1> QED BY <1>5, <1>8 DEF o, end

\* The value of one key more is saved in the order of the keys.
LEMMA SavedMore ==
    ASSUME NEW q, WithKeys(q), NEW st, NEW i \in DOMAIN q.keys, NEW p \in Seq(Answer),
           Saved(q, st, p, i), NEW v \in Seq(Answer), Len(v) <= 1, Len(q.keys) > 1,
           \A j \in DOMAIN v : v[j].st = "value" /\ v[j].key = i /\ Truth(q, st, v[j])
    PROVE  Saved(q, st, p \o v, i + 1)
<1> DEFINE o == p \o v
<1>1. i \in Nat /\ i >= 1 /\ Len(q.keys) # 1
  <2>1. Len(q.keys) \in Nat /\ i \in 1..Len(q.keys)
    BY OneKey
  <2>2. Len(q.keys) # 1
    BY Zenon, <2>1, MoreThanOne
  <2> QED BY <2>1, <2>2
<1>2. CASE v = <<>>
  <2>1. o = p
    BY <1>2
  <2> QED BY <1>1, <2>1 DEF Saved
<1>3. CASE v # <<>>
  <2>1. Len(v) = 1 /\ DOMAIN v = {1} /\ Len(p) \in Nat /\ DOMAIN p = 1..Len(p)
    <3> DEFINE n == Len(v)
    <3>1. n \in Nat /\ n # 0 /\ n <= 1 /\ DOMAIN v = 1..n
      BY <1>3
    <3> HIDE DEF n
    <3>2. n = 1 /\ 1..n = {1}
      BY <3>1
    <3> QED BY <3>1, <3>2 DEF n
  <2>2. /\ o \in Seq(Answer) /\ DOMAIN o = 1..(Len(p) + 1) /\ o[Len(p) + 1] = v[1]
        /\ \A j \in 1..Len(p) : o[j] = p[j]
    <3>1. /\ o \in Seq(Answer) /\ Len(o) = Len(p) + Len(v)
          /\ \A j \in 1..Len(p) : o[j] = p[j]
          /\ \A j \in 1..Len(v) : o[Len(p) + j] = v[j]
      OBVIOUS
    <3> HIDE DEF o
    <3> QED BY <2>1, <3>1
  <2> HIDE DEF o
  <2>3. ASSUME NEW j \in DOMAIN o
        PROVE  o[j].st = "value" /\ o[j].key \in 1..i /\ Truth(q, st, o[j])
    <3>1. CASE j \in 1..Len(p)
      <4>1. p[j].st = "value" /\ p[j].key \in 1..(i - 1) /\ Truth(q, st, p[j])
        BY <2>1, <3>1 DEF Saved
      <4> QED BY <1>1, <2>2, <3>1, <4>1
    <3>2. CASE j = Len(p) + 1
      BY <1>1, <2>1, <2>2, <3>2
    <3> QED BY <2>1, <2>2, <3>1, <3>2
  <2>4. ASSUME NEW k \in DOMAIN o, NEW j \in DOMAIN o, k < j PROVE o[k].key < o[j].key
    <3>0. k \in 1..Len(p) /\ o[k] = p[k] /\ p[k].key \in 1..(i - 1)
      BY <2>1, <2>2, <2>4 DEF Saved
    <3>1. CASE j \in 1..Len(p)
      BY <2>1, <2>2, <2>4, <3>0, <3>1 DEF Saved
    <3>2. CASE j = Len(p) + 1
      BY <1>1, <2>1, <2>2, <3>0, <3>2
    <3> QED BY <2>1, <2>2, <3>1, <3>2
  <2>5. (i + 1) - 1 = i
    BY <1>1
  <2>6. Saved(q, st, o, i + 1)
    BY <1>1, <2>3, <2>4, <2>5 DEF Saved
  <2> QED BY <2>6 DEF o
<1> QED BY <1>2, <1>3

\* A request that has run one key more goes on, or has ended with its whole
\* answer; what it saved or answered is true of the store (exec_key_continue
\* and exec_run_to_completion).
LEMMA KeyStep ==
    ASSUME NEW q, WithKeys(q), NEW st \in [Keys -> Entries], NEW new \in [Keys -> Entries],
           AllLater(st, new), NEW x \in Progress, Runs(q, st, x), NEW e, NEW res,
           HandlerOK(q, e, x.next, res), new[q.keys[x.next]] = res.e
    PROVE  LET y == AfterKey(x, q, res)
           IN  /\ y.next # 0 => Runs(q, new, y)
               /\ y.next = 0 => Finished(q, y.out) /\ \A j \in DOMAIN y.out : Truth(q, new, y.out[j])
<1> DEFINE i == x.next
           n == Len(q.keys)
           p == x.part \o res.part
           o == x.out \o res.out
           err == <<A("server_error")>>
           end == <<A("end")>>
           z == [x EXCEPT !.part = p, !.out = o]
           over == [z EXCEPT !.next = 0]
           y == AfterKey(x, q, res)
<1>1. /\ n \in Nat /\ n >= 1 /\ i \in 1..n /\ DOMAIN q.keys = 1..n
      /\ ~(n > 1) => n = 1
  BY OneKey DEF Runs
<1>2. /\ x.part \in Seq(Answer) /\ res.part \in Seq(Answer) /\ res.out \in Seq(Answer)
      /\ x.out = <<>> /\ res.ok \in BOOLEAN
  BY DEF Progress, Runs, HandlerOK, Outcome
<1>3. o = res.out /\ p \in Seq(Answer)
  BY <1>2, EmptyFirst
<1>4. Saved(q, new, x.part, i)
  BY <1>2, SavedLater DEF Runs
<1>5. \A j \in DOMAIN res.part : Truth(q, new, res.part[j])
  <2>1. \A j \in DOMAIN res.part : res.part[j] \in Answer /\ Tells(q, i, res.e, res.part[j])
    BY <1>2 DEF HandlerOK
  <2> QED BY <1>1, <2>1, TellsTruth DEF Runs
<1>6. \A j \in DOMAIN res.out : Truth(q, new, res.out[j])
  <2>1. \A j \in DOMAIN res.out : res.out[j] \in Answer /\ Tells(q, i, res.e, res.out[j])
    BY <1>2 DEF HandlerOK
  <2> QED BY <1>1, <2>1, TellsTruth DEF Runs
<1>7. /\ z.part = p /\ z.out = o /\ z.next = i
      /\ over.part = p /\ over.out = o /\ over.next = 0 /\ z \in Progress /\ over \in Progress
  BY <1>2, <1>3 DEF Progress
<1>8. /\ i < n /\ res.ok => y = [z EXCEPT !.next = @ + 1]
      /\ i < n /\ ~res.ok => y = [over EXCEPT !.out = @ \o err]
      /\ ~(i < n) /\ n > 1 /\ res.ok => y = [over EXCEPT !.out = @ \o z.part \o end]
      /\ ~(i < n) /\ n > 1 /\ ~res.ok => y = over
      /\ ~(i < n) /\ ~(n > 1) /\ res.ok => y = over
  BY DEF AfterKey
<1> HIDE DEF z, over, o, p, y, err, end
<1>9. CASE i < n /\ res.ok
  <2>1. y.next = i + 1 /\ y.out = o /\ y.part = p
    BY <1>7, <1>8, <1>9 DEF Progress
  <2>2. n > 1
    BY <1>1, <1>9
  <2>3. o = <<>> /\ Len(res.part) <= 1
        /\ \A j \in DOMAIN res.part : res.part[j].st = "value" /\ res.part[j].key = i
    BY <1>3, <2>2 DEF HandlerOK, n
  <2>4. Saved(q, new, p, i + 1)
    BY <1>1, <1>2, <1>4, <1>5, <2>2, <2>3, SavedMore DEF p, n, i
  <2>5. i + 1 \in 1..n /\ i + 1 # 0
    BY <1>1, <1>9
  <2> QED BY <1>1, <2>1, <2>3, <2>4, <2>5 DEF Runs, y
<1>10. CASE i < n /\ ~res.ok
  <2>1. y.next = 0 /\ y.out = o \o err
    BY <1>7, <1>8, <1>10 DEF Progress
  <2>2. n > 1
    BY <1>1, <1>10
  <2>3. o = <<>> /\ Mute(q)
    BY <1>3, <1>10, <2>2 DEF HandlerOK, n
  <2>4. A("server_error").cas = 0 /\ A("server_error") \in Answer
    BY AnswerType DEF Statuses
  <2>5. y.out = <<A("server_error")>>
    BY <2>1, <2>3, <2>4, EmptyFirst DEF err
  <2>6. \A j \in DOMAIN y.out : Truth(q, new, y.out[j])
    BY <2>4, <2>5 DEF Truth
  <2> QED BY <2>1, <2>3, <2>6 DEF Finished, y
<1>11. CASE ~(i < n) /\ n > 1 /\ res.ok
  <2>1. y.next = 0 /\ y.out = o \o p \o end
    BY <1>7, <1>8, <1>11 DEF Progress
  <2>2. o = <<>> /\ Len(res.part) <= 1
        /\ \A j \in DOMAIN res.part : res.part[j].st = "value" /\ res.part[j].key = i
    BY <1>3, <1>11 DEF HandlerOK, n
  <2>3. Saved(q, new, p, i + 1)
    BY <1>1, <1>2, <1>4, <1>5, <1>11, <2>2, SavedMore DEF p, n, i
  <2>4. y.out = p \o end
    BY <1>3, <2>1, <2>2, EmptyFirst
  <2>5. Finished(q, y.out) /\ \A j \in DOMAIN y.out : Truth(q, new, y.out[j])
    BY <1>3, <1>11, <2>3, <2>4, SavedFinished DEF end, n
  <2> QED BY <2>1, <2>5 DEF y
<1>12. CASE ~(i < n) /\ n > 1 /\ ~res.ok
  <2>1. y.next = 0 /\ y.out = res.out
    BY <1>3, <1>7, <1>8, <1>12
  <2>2. Mute(q)
    BY <1>12 DEF HandlerOK
  <2> QED BY <1>6, <2>1, <2>2 DEF Finished, y
<1>13. CASE ~(i < n) /\ ~(n > 1)
  <2>1. n = 1
    BY <1>1, <1>13
  <2>2. res.ok /\ Single(q, res.out)
    BY <2>1 DEF HandlerOK, n
  <2>3. y.next = 0 /\ y.out = res.out
    BY <1>3, <1>7, <1>8, <1>13, <2>2
  <2>4. Finished(q, res.out)
    BY <1>2, <2>2, SingleFinished
  <2> QED BY <1>6, <2>3, <2>4 DEF y
<1> QED BY <1>2, <1>9, <1>10, <1>11, <1>12, <1>13 DEF y

-----------------------------------------------------------------------------
(* Missing keys *)

\* an entry of no type holds nothing
Blank(e) == e.type = "none" => e = Missing(e.cas)

\* A missing key is blank.
LEMMA MissingBlank == \A cas : Missing(cas).cas = cas /\ Blank(Missing(cas))
BY DEF Missing, Item, Blank

\* A blank key is found blank.
LEMMA FoundBlank == ASSUME NEW e, NEW t, Blank(e) PROVE Blank(Found(e, t))
BY MissingBlank DEF Found

\* The entry of a handler's outcome.
LEMMA ResultEntry == \A e, out : Result(e, out).e = e
BY DEF Result

\* A store leaves a blank key blank, or with a type.
LEMMA StoreBlank ==
    ASSUME NEW r, NEW e, NEW t, Blank(e) PROVE Blank(Store(r, e, t).e)
<1>1. Stored(r, e, t).type = "string"
  BY DEF Stored, Item
<1>2. Blank(Stored(r, e, t))
  BY <1>1 DEF Blank
<1>3. Blank(Typed(e))
  <2>1. CASE e.type = "none"
    BY <2>1 DEF Typed
  <2>2. CASE e.type # "none"
    <3>1. Typed(e) = [e EXCEPT !.type = "string"]
      BY <2>2 DEF Typed
    <3>2. Typed(e) = e \/ Typed(e).type = "string"
      BY <3>1
    <3> QED BY <3>2 DEF Blank
  <2> QED BY <2>1, <2>2
<1>4. Store(r, e, t).e \in {Typed(e), e, Stored(r, e, t)}
  <2>1. CASE Refusal(r, e) # "none"
    BY <2>1, ResultEntry DEF Store
  <2>2. CASE Refusal(r, e) = "none"
    BY <2>2, ResultEntry DEF Store
  <2> QED BY <2>1, <2>2
<1> QED BY <1>2, <1>3, <1>4

\* A retrieval leaves the entry as it found it.
LEMMA RetrEntry ==
    ASSUME NEW r, NEW e, NEW i PROVE Retr(r, e, i).e = e /\ Miss(r, e).e = e
BY DEF Retr, Miss, Result

\* What a handler leaves of a missing key is nothing, or has a type: no key
\* is half made.
LEMMA HandlerBlank ==
    ASSUME NEW r, WithKeys(r), NEW e \in Entries, NEW i, NEW t, Blank(e)
    PROVE  Blank(Handler(r, e, i, t).e)
<1>1. /\ r.cmd \in Commands /\ r.cmd \notin Keyless
  <2>1. r.cmd \in Commands /\ r.keys # <<>> /\ IsRequest(r)
    BY DEF WithKeys, Requests
  <2> QED BY <2>1 DEF IsRequest
<1>2. CASE r.cmd \in Stores
  <2>1. Handler(r, e, i, t) = Store(r, e, t)
    BY <1>2 DEF Handler, Stores
  <2> QED BY <2>1, StoreBlank
<1>3. CASE r.cmd \in {"get", "gets"}
  <2>1. Handler(r, e, i, t) = Retr(r, e, i)
    BY <1>3 DEF Handler, Stores
  <2> QED BY <2>1, RetrEntry
<1>4. CASE r.cmd \in {"gat", "gats"}
  <2>1. Handler(r, e, i, t) = RetrTouch(r, e, i, t)
    BY <1>4 DEF Handler, Stores
  <2>2. RetrTouch(r, e, i, t).e = e \/ (~IsNew(e) /\ RetrTouch(r, e, i, t).e = Stamp(e, r.ttl, t))
    <3>1. CASE IsNew(e)
      BY <3>1, RetrEntry DEF RetrTouch
    <3>2. CASE ~IsNew(e)
      BY <3>2, RetrEntry DEF RetrTouch
    <3> QED BY <3>1, <3>2
  <2>3. Stamp(e, r.ttl, t).type = e.type
    BY DEF Stamp, Entries
  <2> QED BY <2>1, <2>2, <2>3 DEF Blank, IsNew
<1>5. CASE r.cmd = "delete"
  <2>1. Handler(r, e, i, t) = Delete(r, e)
    BY <1>5 DEF Handler, Stores
  <2>2. Delete(r, e).e \in {e, Missing(e.cas + 1)}
    BY ResultEntry DEF Delete
  <2> QED BY <2>1, <2>2, MissingBlank
<1>6. CASE r.cmd = "touch"
  <2>1. Handler(r, e, i, t) = TouchKey(r, e, t)
    BY <1>6 DEF Handler, Stores
  <2>2. TouchKey(r, e, t).e = e \/ (~IsNew(e) /\ TouchKey(r, e, t).e = Stamp(e, r.ttl, t))
    BY ResultEntry DEF TouchKey
  <2>3. Stamp(e, r.ttl, t).type = e.type
    BY DEF Stamp, Entries
  <2> QED BY <2>1, <2>2, <2>3 DEF Blank, IsNew
<1>7. CASE r.cmd \in {"incr", "decr"}
  <2>1. ASSUME NEW n PROVE Number(e, n).type = e.type
    BY DEF Number, Entries
  <2>2. \E n : Incr(r, e).e \in {e, Number(e, n)} /\ (Incr(r, e).e = e \/ ~IsNew(e))
    <3>1. CASE IsNew(e) \/ ~IsUint(e.data)
      BY <3>1, ResultEntry DEF Incr
    <3>2. CASE ~(IsNew(e) \/ ~IsUint(e.data))
      <4> DEFINE n == Counted(r, IntOf(e.data))
      <4>1. Incr(r, e).e = Number(e, n)
        BY <3>2, ResultEntry DEF Incr
      <4> QED BY <3>2, <4>1
    <3> QED BY <3>1, <3>2
  <2>3. Blank(Incr(r, e).e)
    BY <2>1, <2>2 DEF Blank, IsNew
  <2>4. Blank(BinIncrKey(r, e).e)
    <3>1. CASE IsNew(e)
      <4> DEFINE w == IF e.type = "none" THEN [Number(e, r.ini) EXCEPT !.type = "string"]
                      ELSE Number(e, r.ini)
      <4>1. BinIncrKey(r, e).e = w
        BY <3>1, ResultEntry DEF BinIncrKey
      <4>2. w.type # "none"
        BY <2>1 DEF Number, Entries
      <4> QED BY <4>1, <4>2 DEF Blank
    <3>2. CASE ~IsNew(e) /\ ~IsUint(e.data)
      BY <3>2, ResultEntry DEF BinIncrKey
    <3>3. CASE ~IsNew(e) /\ IsUint(e.data)
      <4> DEFINE n == Counted(r, IntOf(e.data))
      <4>1. BinIncrKey(r, e).e = Number(e, n)
        BY <3>3, ResultEntry DEF BinIncrKey
      <4> HIDE DEF n
      <4> QED BY <2>1, <3>3, <4>1 DEF Blank, IsNew
    <3> QED BY <3>1, <3>2, <3>3
  <2>5. Handler(r, e, i, t) \in {Incr(r, e), BinIncrKey(r, e)}
    BY <1>7 DEF Handler, Stores
  <2> QED BY <2>3, <2>4, <2>5
<1> QED BY <1>1, <1>2, <1>3, <1>4, <1>5, <1>6, <1>7 DEF Commands, Keyless, Retrievals

-----------------------------------------------------------------------------
(* Requests *)

\* the requests of the menu
Ids == DOMAIN M.udp

\* a message of a read: a datagram of the menu, that may have been taken
Messages ==
    {f \in [id : Ids, seq : Nat, total : Nat, size : Nat, used : BOOLEAN] :
        f.total = Total(f.id) /\ f.seq < f.total}

\* the saved frames: each of its own number
Saves == {sv \in Seq(Messages \cup {Nothing}) :
             \A n \in DOMAIN sv : sv[n] = Nothing \/ sv[n].seq = n - 1}

\* a request with all its frames in their order
Whole(id) == [n \in 1..Total(id) |-> <<id, n - 1>>]
RunsOf    == {[at |-> i, id |-> id, body |-> Whole(id)] : i \in Nat, id \in Ids}

PieceFold == INSTANCE FoldTheorems WITH Op <- Piece

\* The least of some numbers is one of them.
LEMMA SomeLeast ==
    ASSUME NEW J \in SUBSET Nat, J # {} PROVE Min(J) \in J
<1>1. \E n \in J : \A m \in J : n <= m
  BY PieceFold!NatLeast
<1> QED BY <1>1, Zenon DEF Min

\* The greatest of some numbers up to n is one of them.
LEMMA SomeGreatest ==
    ASSUME NEW n \in Nat, NEW J \in SUBSET (1..n), J # {} PROVE Max(J) \in J
<1> DEFINE D == {n - j : j \in J}
<1>1. D \in SUBSET Nat /\ D # {}
  <2>1. \A j \in J : n - j \in Nat
    OBVIOUS
  <2> QED BY <2>1
<1>2. PICK d \in D : \A m \in D : d <= m
  BY <1>1, PieceFold!NatLeast
<1>3. PICK j \in J : d = n - j
  OBVIOUS
<1>4. \A k \in J : j >= k
  <2>1. \A k \in J : n - j <= n - k
    BY <1>2, <1>3
  <2> QED BY <2>1
<1>5. \E k \in J : \A m \in J : k >= m
  BY <1>4
<1> QED BY <1>5, Zenon DEF Max

\* The frame that merge_frames takes next has the id and the number that it
\* asked for.
LEMMA NextIs ==
    ASSUME NEW N \in Nat, NEW batch \in [1..N -> Messages], NEW sv \in Saves, NEW idx \in 1..N,
           NEW id, NEW n \in Nat
    PROVE  LET f == Next_(batch, sv, idx, id, n).f
           IN  f = Nothing \/ (f \in Messages /\ f.id = id /\ f.seq = n)
<1> DEFINE J == {j \in idx..Len(batch) : Live(batch, j, id) /\ batch[j].seq = n}
           f == Next_(batch, sv, idx, id, n).f
<1>1. Len(batch) = N
  OBVIOUS
<1>2. J \in SUBSET Nat /\ J \in SUBSET (1..N)
  BY <1>1
<1>3. CASE J # {}
  <2>1. Min(J) \in J
    BY <1>2, <1>3, SomeLeast
  <2>2. f = batch[Min(J)]
    BY <1>3, Zenon DEF Next_
  <2>3. batch[Min(J)].id = id /\ batch[Min(J)].seq = n /\ Min(J) \in 1..N
    BY <1>2, <2>1 DEF Live
  <2> QED BY <2>2, <2>3
<1>4. CASE J = {} /\ n < Len(sv) /\ sv[n + 1].id = id /\ sv[n + 1].seq = n
  <2>1. f = sv[n + 1]
    BY <1>4, Zenon DEF Next_
  <2>2. sv[n + 1] \in Messages \cup {Nothing}
    BY <1>4 DEF Saves
  <2> QED BY <1>4, <2>1, <2>2
<1>5. CASE J = {} /\ ~(n < Len(sv) /\ sv[n + 1].id = id /\ sv[n + 1].seq = n)
  BY <1>5, Zenon DEF Next_
<1> QED BY <1>3, <1>4, <1>5

\* Messages that are taken stay messages.
LEMMA TakeType ==
    ASSUME NEW N \in Nat, NEW batch \in [1..N -> Messages], NEW idx, NEW id, NEW n, NEW at
    PROVE  Take(batch, idx, id, n, at) \in [1..N -> Messages]
<1>1. \A f \in Messages : [f EXCEPT !.used = TRUE] \in Messages
  BY DEF Messages
<1> QED BY <1>1 DEF Take

\* What is saved of a request that is not complete is frames or nothing.
LEMMA SaveType ==
    ASSUME NEW N \in Nat, NEW batch \in [1..N -> Messages], NEW sv \in Saves, NEW idx \in 1..N,
           NEW id, NEW total \in Nat
    PROVE  Save(batch, sv, idx, id, total) \in Saves
<1> DEFINE own == {j \in idx..Len(batch) : Live(batch, j, id)}
           of(n) == {j \in own : batch[j].seq = n}
           s == Save(batch, sv, idx, id, total)
<1>1. s = [n \in 1..total |->
             IF of(n - 1) # {} THEN batch[Max(of(n - 1))]
             ELSE IF n <= Len(sv) THEN sv[n] ELSE Nothing]
  BY DEF Save
<1>2. ASSUME NEW n \in 1..total
      PROVE  s[n] \in Messages \cup {Nothing} /\ (s[n] = Nothing \/ s[n].seq = n - 1)
  <2>1. CASE of(n - 1) # {}
    <3>1. of(n - 1) \in SUBSET (1..N)
      OBVIOUS
    <3> HIDE DEF s
    <3>2. s[n] = batch[Max(of(n - 1))]
      BY <1>1, <2>1, Zenon
    <3>3. Max(of(n - 1)) \in of(n - 1)
      <4> HIDE DEF of
      <4> QED BY <2>1, <3>1, SomeGreatest
    <3> QED BY <3>1, <3>2, <3>3
  <2>2. CASE of(n - 1) = {} /\ n <= Len(sv)
    <3>1. s[n] = sv[n]
      BY <1>1, <2>2, Zenon
    <3>2. n \in DOMAIN sv
      BY <2>2 DEF Saves
    <3> HIDE DEF s
    <3> QED BY <3>1, <3>2 DEF Saves
  <2>3. CASE of(n - 1) = {} /\ ~(n <= Len(sv))
    BY <1>1, <2>3, Zenon
  <2> QED BY <2>1, <2>2, <2>3
<1> HIDE DEF s
<1>3. s \in Seq(Messages \cup {Nothing}) /\ DOMAIN s = 1..total
  <2>1. s \in [1..total -> Messages \cup {Nothing}]
    BY <1>1, <1>2
  <2> QED BY <2>1
<1>4. s \in Saves
  BY <1>2, <1>3 DEF Saves
<1> QED BY <1>4 DEF s

\* the fold of merge_frames after n frames: what it holds is the first n
Merged(N, id, total, n) ==
    {acc \in [batch : [1..N -> Messages], len : Nat, body : Seq(Ids \X Nat),
              st : {"run", "spin", "fail", "full"}] :
        /\ acc.st \in {"run", "full"} => acc.body = [k \in 1..n |-> <<id, k - 1>>]
        /\ acc.st = "full" => n = total}

\* A pair of an id and a number.
LEMMA PairType == \A S : \A a \in S, n \in Nat : <<a, n>> \in S \X Nat
OBVIOUS

\* The state of a merge.
LEMMA StateType ==
    ASSUME NEW B, NEW Y, NEW Z, NEW b \in B, NEW len \in Nat, NEW body \in Y, NEW st \in Z
    PROVE  [batch |-> b, len |-> len, body |-> body, st |-> st] \in [batch : B, len : Nat, body : Y, st : Z]
OBVIOUS

\* After i frames a merge that is under way holds the first i frames of the
\* request.
LEMMA PieceType ==
    ASSUME NEW N \in Nat, NEW sv \in Saves, NEW idx \in 1..N, NEW id \in Ids,
           NEW total \in Nat, NEW size, NEW i \in 1..total, NEW acc \in Merged(N, id, total, i - 1),
           NEW y, y = [sav |-> sv, idx |-> idx, id |-> id, total |-> total, size |-> size, n |-> i - 1]
    PROVE  Piece(acc, y) \in Merged(N, id, total, i)
<1> DEFINE f   == Next_(acc.batch, sv, idx, id, i - 1).f
           at  == Next_(acc.batch, sv, idx, id, i - 1).at
           len == acc.len + f.size
           b   == Take(acc.batch, idx, id, i - 1, at)
<1>1. /\ acc \in [batch : [1..N -> Messages], len : Nat, body : Seq(Ids \X Nat),
                  st : {"run", "spin", "fail", "full"}]
      /\ acc.st \in {"run", "full"} => acc.body = [k \in 1..(i - 1) |-> <<id, k - 1>>]
      /\ acc.st = "full" => i - 1 = total
  BY DEF Merged
<1>2. acc.st # "full" /\ i - 1 \in Nat
  BY <1>1
<1>3. f = Nothing \/ (f \in Messages /\ f.id = id /\ f.seq = i - 1)
  <2> HIDE DEF f
  <2>1. PICK bt \in [1..N -> Messages] : bt = acc.batch
    BY <1>1
  <2>2. PICK m \in Nat : m = i - 1
    BY <1>2
  <2>3. f = Next_(bt, sv, idx, id, m).f
    BY <2>1, <2>2, Zenon DEF f
  <2>4. LET g == Next_(bt, sv, idx, id, m).f
        IN  g = Nothing \/ (g \in Messages /\ g.id = id /\ g.seq = m)
    BY NextIs
  <2> QED BY <2>2, <2>3, <2>4
<1>4. b \in [1..N -> Messages]
  BY <1>1, TakeType
<1> HIDE DEF b
<1> HIDE DEF f, at
<1>5. len \in Nat
  <2>1. f.size \in Nat
    BY <1>3 DEF Messages, Nothing
  <2> QED BY <1>1, <2>1
<1> HIDE DEF len
<1>6. y.sav = sv /\ y.idx = idx /\ y.id = id /\ y.total = total /\ y.size = size /\ y.n = i - 1
  OBVIOUS
<1>7. CASE acc.st # "run"
  <2>1. Piece(acc, y) = acc
    BY <1>7 DEF Piece
  <2> QED BY <1>1, <1>2, <1>7, <2>1 DEF Merged
<1>8. CASE acc.st = "run" /\ f = Nothing
  <2>1. Piece(acc, y) = [acc EXCEPT !.batch = b, !.st = "spin"]
    BY Zenon, <1>6, <1>8 DEF Piece, b, f, at
  <2> QED BY <1>1, <1>4, <2>1 DEF Merged
<1>9. CASE acc.st = "run" /\ f # Nothing /\ len > size
  <2>1. Piece(acc, y) = [acc EXCEPT !.batch = b, !.st = "fail"]
    BY Zenon, <1>6, <1>9 DEF Piece, b, f, at, len
  <2> QED BY <1>1, <1>4, <2>1 DEF Merged
<1>10. CASE acc.st = "run" /\ f # Nothing /\ ~(len > size)
  <2> DEFINE body == Append(acc.body, <<f.id, f.seq>>)
             st == IF i - 1 + 1 < total THEN "run" ELSE IF len = size THEN "full" ELSE "fail"
  <2>1. Piece(acc, y) = [batch |-> b, len |-> len, body |-> body, st |-> st]
    BY Zenon, <1>6, <1>10 DEF Piece, b, f, at, len
  <2>2. body \in Seq(Ids \X Nat) /\ body = [k \in 1..i |-> <<id, k - 1>>]
    <3>1. <<f.id, f.seq>> = <<id, i - 1>>
      BY <1>3, <1>10
    <3>0. <<id, i - 1>> \in Ids \X Nat
      BY <1>2, PairType
    <3>2. acc.body \in Seq(Ids \X Nat) /\ acc.body = [k \in 1..(i - 1) |-> <<id, k - 1>>]
      BY <1>1, <1>10
    <3>3. Len(acc.body) = i - 1
      BY <1>2, <3>2
    <3>4. body = Append(acc.body, <<id, i - 1>>)
      BY <3>1
    <3> HIDE DEF body
    <3> DEFINE s == acc.body
               p == <<id, i - 1>>
    <3> HIDE DEF p
    <3>5. body \in Seq(Ids \X Nat) /\ Len(body) = i /\ DOMAIN body = 1..i /\ body[i] = p
          /\ \A k \in 1..(i - 1) : body[k] = s[k]
      <4> HIDE DEF s
      <4>1. s \in Seq(Ids \X Nat) /\ Len(s) = i - 1 /\ body = Append(s, p)
            /\ p \in Ids \X Nat
        BY <3>0, <3>2, <3>3, <3>4 DEF s, p
      <4> QED BY <4>1
    <3>7. \A k \in 1..i : body[k] = <<id, k - 1>>
      <4>1. \A k \in 1..(i - 1) : body[k] = <<id, k - 1>>
        BY <3>2, <3>5
      <4>2. \A k \in 1..i : k = i \/ k \in 1..(i - 1)
        OBVIOUS
      <4> QED BY <3>5, <4>1, <4>2 DEF p
    <3>8. body = [k \in 1..i |-> body[k]]
      BY <3>5
    <3> QED BY Zenon, <3>5, <3>7, <3>8
  <2>3. st \in {"run", "fail", "full"} /\ (st = "full" => i = total)
    OBVIOUS
  <2> HIDE DEF body, st
  <2>4. Piece(acc, y) \in [batch : [1..N -> Messages], len : Nat, body : Seq(Ids \X Nat),
                           st : {"run", "spin", "fail", "full"}]
    <3>1. st \in {"run", "spin", "fail", "full"}
      BY <2>3
    <3> QED BY <1>4, <1>5, <2>1, <2>2, <3>1, StateType
  <2>5. Piece(acc, y).body = body /\ Piece(acc, y).st = st
    BY <2>1
  <2> QED BY <2>2, <2>3, <2>4, <2>5 DEF Merged
<1> QED BY <1>7, <1>8, <1>9, <1>10

\* A merge leaves messages and saved frames, and when it says that the
\* request is complete its body is the whole of it, whatever order the
\* datagrams came in (merge_frames).
LEMMA MergeType ==
    ASSUME NEW N \in Nat, NEW batch \in [1..N -> Messages], NEW sv \in Saves, NEW idx \in 1..N
    PROVE  LET m == Merge(batch, sv, idx)
           IN  /\ m.batch \in [1..N -> Messages] /\ m.sav \in Saves
               /\ m.st = "full" => m.body = Whole(batch[idx].id)
<1> DEFINE id    == batch[idx].id
           total == batch[idx].total
           here  == {j \in idx..Len(batch) : Live(batch, j, id)}
           kept  == IF Cardinality(here) < total THEN {n \in DOMAIN sv : sv[n].id = id} ELSE {}
           size  == SumOfSizes(batch, here) + SumOfSizes(sv, kept)
           seq   == [n \in 1..total |-> [sav |-> sv, idx |-> idx, id |-> id, total |-> total,
                                         size |-> size, n |-> n - 1]]
           base  == [batch |-> batch, len |-> 0, body |-> <<>>, st |-> "run"]
           r     == FoldLeft(Piece, base, seq)
           enough == Cardinality(here) + Cardinality(kept) >= total
           b     == IF enough THEN r.batch ELSE batch
           own   == {j \in idx..Len(b) : Live(b, j, id)}
           m     == Merge(batch, sv, idx)
           S     == [n \in 0..total |-> Merged(N, id, total, n)]
<1>1. id \in Ids /\ total = Total(id) /\ total \in Nat
  BY DEF Messages
<1>2. r \in Merged(N, id, total, total)
  <2> HIDE DEF id, total, size
  <2>1. base \in S[0]
    BY <1>1 DEF Merged
  <2>2. ASSUME NEW n \in 1..total, NEW acc \in S[n - 1] PROVE Piece(acc, seq[n]) \in S[n]
    <3>1. S[n - 1] = Merged(N, id, total, n - 1) /\ S[n] = Merged(N, id, total, n)
      BY <1>1
    <3>2. seq[n] = [sav |-> sv, idx |-> idx, id |-> id, total |-> total, size |-> size, n |-> n - 1]
      OBVIOUS
    <3>3. acc \in Merged(N, id, total, n - 1)
      BY <2>2, <3>1
    <3> HIDE DEF S, seq
    <3>4. Piece(acc, seq[n]) \in Merged(N, id, total, n)
      BY <1>1, <3>2, <3>3, PieceType
    <3> QED BY <3>1, <3>4
  <2>3. DOMAIN seq = 1..total
    OBVIOUS
  <2> HIDE DEF S, seq, base
  <2>4. PieceFold!Fold(base, seq) \in S[total]
    BY <1>1, <2>1, <2>2, <2>3, PieceFold!FoldStays
  <2>5. r = PieceFold!Fold(base, seq)
    BY Zenon DEF PieceFold!Fold, PieceFold!Iter, PieceFold!IsIter, FoldLeft, MapThenFoldSet, Max,
                 PieceFold!Top
  <2> HIDE DEF r
  <2> QED BY <1>1, <2>4, <2>5 DEF S
<1> HIDE DEF size, seq, base
<1>3. /\ enough /\ r.st \in {"full", "spin"} =>
           m = [batch |-> b, len |-> r.len, st |-> r.st, sav |-> sv, body |-> r.body]
      /\ ~(enough /\ r.st \in {"full", "spin"}) =>
           m = [batch |-> [j \in DOMAIN b |-> IF j \in own THEN [b[j] EXCEPT !.used = TRUE] ELSE b[j]],
                len |-> r.len, st |-> "saved", sav |-> Save(b, sv, idx, id, total), body |-> <<>>]
  BY Zenon DEF Merge, r, base, seq, size
<1> HIDE DEF r, m, enough, id, total
<1>4. b \in [1..N -> Messages]
  BY <1>2 DEF Merged
<1> HIDE DEF b
<1>5. CASE enough /\ r.st \in {"full", "spin"}
  <2>1. m = [batch |-> b, len |-> r.len, st |-> r.st, sav |-> sv, body |-> r.body]
    BY <1>3, <1>5
  <2>2. r.st = "full" => r.body = [k \in 1..total |-> <<id, k - 1>>]
    BY <1>2 DEF Merged
  <2> QED BY <1>1, <1>4, <2>1, <2>2 DEF m, Whole, id
<1>6. CASE ~(enough /\ r.st \in {"full", "spin"})
  <2> DEFINE used == [j \in DOMAIN b |-> IF j \in own THEN [b[j] EXCEPT !.used = TRUE] ELSE b[j]]
             s == Save(b, sv, idx, id, total)
  <2>1. m.batch = used /\ m.sav = s /\ m.st = "saved"
    BY <1>3, <1>6
  <2>2. \A f \in Messages : [f EXCEPT !.used = TRUE] \in Messages
    BY DEF Messages
  <2>3. used \in [1..N -> Messages]
    BY <1>4, <2>2
  <2>4. s \in Saves
    BY <1>1, <1>4, SaveType
  <2> QED BY <2>1, <2>3, <2>4 DEF m
<1> QED BY <1>5, <1>6

\* the socket after some messages of a read
Sockets(N) == [batch : [1..N -> Messages], sav : Saves, spin : BOOLEAN, run : Seq(RunsOf)]

ProcessFold == INSTANCE FoldTheorems WITH Op <- ProcessMessage

\* The state of a read.
LEMMA SocketType ==
    ASSUME NEW N \in Nat, NEW b \in [1..N -> Messages], NEW sv \in Saves, NEW spin \in BOOLEAN,
           NEW run \in Seq(RunsOf)
    PROVE  [batch |-> b, sav |-> sv, spin |-> spin, run |-> run] \in Sockets(N)
BY DEF Sockets

\* A datagram that is a request of its own is the whole of it.
LEMMA WholeOfOne ==
    ASSUME NEW f \in Messages, f.total = 1 PROVE <<<<f.id, f.seq>>>> = Whole(f.id)
<1>1. Total(f.id) = 1 /\ f.seq = 0
  BY DEF Messages
<1> DEFINE id == f.id
           p == <<id, 0>>
<1>2. Whole(id) = [n \in 1..1 |-> <<id, n - 1>>]
  BY <1>1 DEF Whole
<1>3. \A n \in 1..1 : <<id, n - 1>> = p
  OBVIOUS
<1> HIDE DEF p
<1>4. <<p>> = [n \in 1..1 |-> p]
  OBVIOUS
<1>5. [n \in 1..1 |-> p] = [n \in 1..1 |-> <<id, n - 1>>]
  BY <1>3
<1> QED BY <1>1, <1>2, <1>4, <1>5 DEF p

\* One message of a read leaves saved frames and runs whole requests.
LEMMA ProcessOne ==
    ASSUME NEW N \in Nat, NEW acc \in Sockets(N), NEW i \in 1..N
    PROVE  ProcessMessage(acc, i) \in Sockets(N)
<1> DEFINE f == acc.batch[i]
           m == Merge(acc.batch, acc.sav, i)
           Run(body) == Append(acc.run, [at |-> i, id |-> f.id, body |-> body])
<1>1. /\ acc.batch \in [1..N -> Messages] /\ acc.sav \in Saves /\ acc.spin \in BOOLEAN
      /\ acc.run \in Seq(RunsOf) /\ f \in Messages
  BY DEF Sockets
<1>2. f.id \in Ids
  BY <1>1 DEF Messages
<1>3. ASSUME NEW body, body = Whole(f.id) PROVE Run(body) \in Seq(RunsOf)
  <2>1. [at |-> i, id |-> f.id, body |-> body] \in RunsOf
    BY <1>2, <1>3 DEF RunsOf, Ids
  <2> QED BY <1>1, <2>1
<1>4. CASE acc.spin \/ f.used
  <2>1. ProcessMessage(acc, i) = acc
    BY <1>4 DEF ProcessMessage
  <2> QED BY <2>1
<1>5. CASE ~(acc.spin \/ f.used) /\ f.total = 1
  <2> DEFINE run == Run(<<<<f.id, f.seq>>>>)
  <2>1. ProcessMessage(acc, i) = [acc EXCEPT !.run = run]
    BY <1>5 DEF ProcessMessage
  <2>2. run \in Seq(RunsOf)
    <3>1. <<<<f.id, f.seq>>>> = Whole(f.id)
      BY <1>1, <1>5, WholeOfOne
    <3> QED BY <1>3, <3>1
  <2> HIDE DEF run
  <2> QED BY <2>1, <2>2 DEF Sockets
<1>6. CASE ~(acc.spin \/ f.used) /\ f.total # 1
  <2> DEFINE run == IF m.st = "full" THEN Run(m.body) ELSE acc.run
             spin == m.st = "spin"
  <2>1. ProcessMessage(acc, i) = [batch |-> m.batch, sav |-> m.sav, spin |-> spin, run |-> run]
    BY <1>6, Zenon DEF ProcessMessage
  <2>2. m.batch \in [1..N -> Messages] /\ m.sav \in Saves /\ (m.st = "full" => m.body = Whole(f.id))
    BY <1>1, MergeType
  <2>3. run \in Seq(RunsOf)
    <3> HIDE DEF m, Run
    <3> QED BY <1>1, <1>3, <2>2
  <2>4. spin \in BOOLEAN
    OBVIOUS
  <2> HIDE DEF run, spin, m
  <2> QED BY <2>1, <2>2, <2>3, <2>4, SocketType
<1> QED BY <1>4, <1>5, <1>6

\* The messages of a read leave saved frames and run whole requests
\* (EvMemcachedUdp::process).
LEMMA ProcessType ==
    ASSUME NEW N \in Nat, NEW batch \in [1..N -> Messages], NEW sv \in Saves
    PROVE  Process(batch, sv) \in Sockets(N)
<1> DEFINE seq  == [i \in DOMAIN batch |-> i]
           base == [batch |-> batch, sav |-> sv, spin |-> FALSE, run |-> <<>>]
           S    == [i \in 0..N |-> Sockets(N)]
<1>1. base \in S[0]
  <2>1. <<>> \in Seq(RunsOf) /\ FALSE \in BOOLEAN /\ 0 \in 0..N
    OBVIOUS
  <2>2. base \in Sockets(N)
    BY <2>1, SocketType
  <2> HIDE DEF base
  <2> QED BY <2>1, <2>2
<1>2. ASSUME NEW i \in 1..N, NEW acc \in S[i - 1] PROVE ProcessMessage(acc, seq[i]) \in S[i]
  <2>1. seq[i] = i /\ S[i - 1] = Sockets(N) /\ S[i] = Sockets(N)
    OBVIOUS
  <2> HIDE DEF seq, S
  <2> QED BY <1>2, <2>1, ProcessOne
<1>3. DOMAIN seq = 1..N /\ S[N] = Sockets(N)
  OBVIOUS
<1> HIDE DEF seq, base, S
<1>4. ProcessFold!Fold(base, seq) \in S[N]
  BY <1>1, <1>2, <1>3, ProcessFold!FoldStays
<1>5. FoldLeft(ProcessMessage, base, seq) = ProcessFold!Fold(base, seq)
  BY Zenon DEF ProcessFold!Fold, ProcessFold!Iter, ProcessFold!IsIter, FoldLeft, MapThenFoldSet, Max,
               ProcessFold!Top
<1>6. Process(batch, sv) = FoldLeft(ProcessMessage, base, seq)
  BY DEF Process, base, seq
<1> QED BY <1>3, <1>4, <1>5, <1>6

-----------------------------------------------------------------------------
(* Replies *)

Pieces == Nat \X Nat \X Nat

\* what a frame begins with
Base(i) == IF i = 1 THEN 0 ELSE HdrSize

\* the pieces of a frame have n bytes with those it begins with
Sums(f, base, n) ==
    \E b \in [0..Len(f) -> Nat] :
        b[0] = base /\ b[Len(f)] = n /\ \A j \in 1..Len(f) : b[j] = b[j - 1] + f[j][3]

\* the pieces of the frames, one frame after the other
Flat(fr, all) ==
    \E h \in [0..Len(fr) -> Seq(Pieces)] :
        h[0] = <<>> /\ h[Len(fr)] = all /\ \A i \in 1..Len(fr) : h[i] = h[i - 1] \o fr[i]

ByteFold == INSTANCE FoldTheorems WITH Op <- AddPiece
JoinFold == INSTANCE FoldTheorems WITH Op <- Joined

\* A sequence with one element more.
LEMMA AppendFacts ==
    ASSUME NEW S, NEW s \in Seq(S), NEW p \in S
    PROVE  /\ Append(s, p) \in Seq(S) /\ Append(s, p) # <<>>
           /\ Len(Append(s, p)) = Len(s) + 1 /\ Append(s, p)[Len(s) + 1] = p
           /\ \A j \in 1..Len(s) : Append(s, p)[j] = s[j]
OBVIOUS

\* The length, the positions and the elements of a sequence.
LEMMA SeqFacts ==
    ASSUME NEW S, NEW s \in Seq(S)
    PROVE  Len(s) \in Nat /\ DOMAIN s = 1..Len(s) /\ \A j \in 1..Len(s) : s[j] \in S
OBVIOUS

\* A frame without pieces has the bytes it begins with.
LEMMA SumsNone == \A base \in Nat : Sums(<<>>, base, base)
<1> SUFFICES ASSUME NEW base \in Nat PROVE Sums(<<>>, base, base)
  OBVIOUS
<1> DEFINE b == [j \in 0..0 |-> base]
<1>1. b \in [0..0 -> Nat] /\ b[0] = base
  OBVIOUS
<1>2. Len(<<>>) = 0
  OBVIOUS
<1> HIDE DEF b
<1> QED BY <1>1, <1>2 DEF Sums

\* A piece more adds its bytes to a frame.
LEMMA SumsMore ==
    ASSUME NEW f \in Seq(Pieces), NEW base \in Nat, NEW n, Sums(f, base, n), NEW p \in Pieces
    PROVE  Sums(Append(f, p), base, n + p[3])
<1> DEFINE m == Len(f)
           g == Append(f, p)
<1>1. PICK b \in [0..m -> Nat] : b[0] = base /\ b[m] = n /\ \A j \in 1..m : b[j] = b[j - 1] + f[j][3]
  BY DEF Sums
<1>2. m \in Nat /\ Len(g) = m + 1 /\ g[m + 1] = p /\ \A j \in 1..m : g[j] = f[j]
  BY SeqFacts, AppendFacts
<1>3. p[3] \in Nat
  BY DEF Pieces
<1> HIDE DEF m, g
<1> DEFINE d == [j \in 0..(m + 1) |-> IF j = m + 1 THEN n + p[3] ELSE b[j]]
<1>4. n \in Nat
  BY <1>1, <1>2
<1>5. d \in [0..(m + 1) -> Nat]
  BY <1>1, <1>2, <1>3, <1>4
<1>6. d[0] = base /\ d[m + 1] = n + p[3] /\ \A j \in 0..m : d[j] = b[j]
  BY <1>1, <1>2
<1> HIDE DEF d
<1>7. ASSUME NEW j \in 1..(m + 1) PROVE d[j] = d[j - 1] + g[j][3]
  <2>1. CASE j = m + 1
    <3>1. d[j - 1] = n
      BY <1>1, <1>2, <1>6, <2>1
    <3> QED BY <1>2, <1>6, <2>1, <3>1
  <2>2. CASE j # m + 1
    <3>1. j \in 1..m /\ j - 1 \in 0..m /\ j \in 0..m
      BY <1>2, <2>2
    <3> QED BY <1>1, <1>2, <1>6, <3>1
  <2> QED BY <2>1, <2>2
<1>8. Sums(g, base, n + p[3])
  BY <1>2, <1>5, <1>6, <1>7 DEF Sums
<1> QED BY <1>8 DEF g

\* The bytes of a frame are the sum of what it begins with and its pieces.
LEMMA SumsIs ==
    ASSUME NEW f \in Seq(Pieces), NEW base, NEW n, Sums(f, base, n)
    PROVE  FoldLeft(AddPiece, base, f) = n
<1>1. PICK b \in [0..Len(f) -> Nat] :
         b[0] = base /\ b[Len(f)] = n /\ \A j \in 1..Len(f) : b[j] = b[j - 1] + f[j][3]
  BY DEF Sums
<1>2. \A j \in 1..Len(f) : b[j] = AddPiece(b[j - 1], f[j])
  BY <1>1 DEF AddPiece
<1>3. DOMAIN f = 1..Len(f) /\ Len(f) \in Nat
  BY SeqFacts
<1>4. ByteFold!Fold(base, f) = n
  BY <1>1, <1>2, <1>3, ByteFold!FoldIs
<1>5. FoldLeft(AddPiece, base, f) = ByteFold!Fold(base, f)
  BY Zenon DEF ByteFold!Fold, ByteFold!Iter, ByteFold!IsIter, FoldLeft, MapThenFoldSet, Max, ByteFold!Top
<1> QED BY <1>4, <1>5

\* Appending to the second of two sequences appends to both in a row.
LEMMA ConcatAppend ==
    ASSUME NEW S, NEW s \in Seq(S), NEW f \in Seq(S), NEW p \in S
    PROVE  s \o Append(f, p) = Append(s \o f, p)
<1>1. s \o Append(f, p) \in Seq(S) /\ Append(s \o f, p) \in Seq(S)
  OBVIOUS
<1>2. Len(s \o Append(f, p)) = Len(Append(s \o f, p))
  OBVIOUS
<1>3. ASSUME NEW i \in 1..Len(s \o Append(f, p)) PROVE (s \o Append(f, p))[i] = Append(s \o f, p)[i]
  OBVIOUS
<1> QED BY <1>1, <1>2, <1>3

\* A piece more in the last frame is a piece more of the reply.
LEMMA FlatMore ==
    ASSUME NEW fr \in Seq(Seq(Pieces)), fr # <<>>, NEW all, Flat(fr, all), NEW p \in Pieces
    PROVE  Flat([fr EXCEPT ![Len(fr)] = Append(@, p)], Append(all, p))
<1> DEFINE n == Len(fr)
           f == fr[n]
           new == [fr EXCEPT ![n] = Append(f, p)]
<1>1. n \in Nat /\ n # 0 /\ DOMAIN fr = 1..n /\ \A i \in 1..n : fr[i] \in Seq(Pieces)
  <2>1. n # 0
    OBVIOUS
  <2> QED BY <2>1, SeqFacts
<1>2. PICK h \in [0..n -> Seq(Pieces)] :
         h[0] = <<>> /\ h[n] = all /\ \A i \in 1..n : h[i] = h[i - 1] \o fr[i]
  BY DEF Flat
<1>3. Len(new) = n
  OBVIOUS
<1>4. new[n] = Append(f, p) /\ \A i \in 1..(n - 1) : new[i] = fr[i]
  <2> HIDE DEF n
  <2> QED BY <1>1
<1> HIDE DEF n, new
<1> DEFINE d == [i \in 0..n |-> IF i = n THEN Append(all, p) ELSE h[i]]
<1>5. n \in 1..n /\ n \in 0..n /\ n - 1 \in 0..n /\ n - 1 # n
  BY <1>1
<1>6. all \in Seq(Pieces) /\ f \in Seq(Pieces) /\ h[n - 1] \in Seq(Pieces)
  BY <1>1, <1>2, <1>5 DEF f
<1>7. Append(all, p) \in Seq(Pieces) /\ Append(all, p) = h[n - 1] \o Append(f, p)
  <2>1. all = h[n - 1] \o f
    BY <1>2, <1>5 DEF f
  <2>2. Append(all, p) \in Seq(Pieces)
    BY <1>6, AppendFacts
  <2>3. PICK s \in Seq(Pieces), g \in Seq(Pieces) : s = h[n - 1] /\ g = f
    <3> HIDE DEF f
    <3> QED BY <1>6
  <2>4. s \o Append(g, p) = Append(s \o g, p)
    BY ConcatAppend
  <2> HIDE DEF f
  <2> QED BY <2>1, <2>2, <2>3, <2>4
<1>8. d \in [0..n -> Seq(Pieces)] /\ d[n] = Append(all, p) /\ (\A i \in 0..n : i # n => d[i] = h[i])
  BY <1>2, <1>5, <1>7
<1> HIDE DEF d
<1>9. d[0] = <<>>
  BY <1>1, <1>2, <1>8
<1>10. ASSUME NEW i \in 1..n PROVE d[i] = d[i - 1] \o new[i]
  <2>1. CASE i = n
    BY <1>4, <1>5, <1>7, <1>8, <2>1
  <2>2. CASE i # n
    <3>1. i \in 1..(n - 1) /\ i \in 0..n /\ i - 1 \in 0..n /\ i - 1 # n
      BY <1>1, <2>2
    <3> QED BY <1>2, <1>4, <1>8, <2>2, <3>1
  <2> QED BY <2>1, <2>2
<1>11. Flat(new, Append(all, p))
  BY <1>3, <1>8, <1>9, <1>10 DEF Flat
<1> QED BY <1>11 DEF new, n, f

\* An empty frame more adds nothing to the reply.
LEMMA FlatNew ==
    ASSUME NEW fr \in Seq(Seq(Pieces)), NEW all, Flat(fr, all)
    PROVE  Flat(Append(fr, <<>>), all)
<1> DEFINE n == Len(fr)
           e == <<>>
           new == Append(fr, e)
<1>1. n \in Nat /\ e \in Seq(Pieces)
  BY SeqFacts
<1>2. PICK h \in [0..n -> Seq(Pieces)] :
         h[0] = <<>> /\ h[n] = all /\ \A i \in 1..n : h[i] = h[i - 1] \o fr[i]
  BY DEF Flat
<1>3. Len(new) = n + 1 /\ new[n + 1] = e /\ \A i \in 1..n : new[i] = fr[i]
  <2> HIDE DEF e
  <2> QED BY <1>1, AppendFacts
<1>4. all \in Seq(Pieces)
  BY <1>1, <1>2
<1>5. all \o e = all
  BY <1>4
<1> HIDE DEF n, new, e
<1> DEFINE d == [i \in 0..(n + 1) |-> IF i = n + 1 THEN all ELSE h[i]]
<1>6. /\ d \in [0..(n + 1) -> Seq(Pieces)] /\ d[n + 1] = all /\ \A i \in 0..n : d[i] = h[i]
      /\ 0 \in 0..n /\ n \in 0..n
  BY <1>1, <1>2, <1>4
<1> HIDE DEF d
<1>7. ASSUME NEW i \in 1..(n + 1) PROVE d[i] = d[i - 1] \o new[i]
  <2>1. CASE i = n + 1
    <3>1. d[i - 1] = all
      BY <1>1, <1>2, <1>6, <2>1
    <3> QED BY <1>3, <1>5, <1>6, <2>1, <3>1
  <2>2. CASE i # n + 1
    <3>1. i \in 1..n /\ i \in 0..n /\ i - 1 \in 0..n
      BY <1>1, <2>2
    <3> QED BY <1>2, <1>3, <1>6, <3>1
  <2> QED BY <2>1, <2>2
<1>8. Flat(new, all)
  BY <1>2, <1>3, <1>6, <1>7 DEF Flat
<1> QED BY <1>8 DEF new, e

\* Joining frames is reached step by step.
LEMMA JoinFoldIs ==
    ASSUME NEW e, NEW fs, NEW n \in Nat, DOMAIN fs = 1..n,
           NEW h, h[0] = e, \A i \in 1..n : h[i] = Joined(h[i - 1], fs[i])
    PROVE  JoinFold!Fold(e, fs) = h[n]
BY JoinFold!FoldIs

\* The pieces of the frames of a reply, joined.
LEMMA FlatIs ==
    ASSUME NEW fr \in Seq(Seq(Pieces)), NEW all, Flat(fr, all),
           NEW fs, DOMAIN fs = DOMAIN fr, \A i \in DOMAIN fr : fs[i].pieces = fr[i]
    PROVE  FoldLeft(Joined, <<>>, fs) = all
<1>1. PICK n : n = Len(fr)
  OBVIOUS
<1>2. n \in Nat /\ DOMAIN fs = 1..n /\ \A i \in 1..n : fs[i].pieces = fr[i]
  BY <1>1, SeqFacts
<1>3. PICK h : h[0] = <<>> /\ h[n] = all /\ \A i \in 1..n : h[i] = h[i - 1] \o fr[i]
  BY <1>1 DEF Flat
<1>4. JoinFold!Fold(<<>>, fs) = all
  <2>1. \A i \in 1..n : h[i] = Joined(h[i - 1], fs[i])
    BY <1>2, <1>3 DEF Joined
  <2> QED BY <1>2, <1>3, <2>1, JoinFoldIs
<1>5. FoldLeft(Joined, <<>>, fs) = JoinFold!Fold(<<>>, fs)
  BY Zenon DEF JoinFold!Fold, JoinFold!Iter, JoinFold!IsIter, FoldLeft, MapThenFoldSet, Max, JoinFold!Top
<1> QED BY <1>4, <1>5

\* the pieces end where the cut is: before the byte off of the k-th segment
EndsAt(segs, p, k, off) ==
    IF off > 0 THEN p[1] = k /\ p[2] + p[3] = off
    ELSE p[1] = k - 1 /\ p[2] + p[3] = segs[k - 1]

\* the pieces hold what is before byte off of the k-th segment, in order
Joint(segs, all, k, off) ==
    IF all = <<>> THEN k = 1 /\ off = 0
    ELSE /\ all[1][1] = 1 /\ all[1][2] = 0
         /\ \A i \in 1..(Len(all) - 1) : Follows(segs, all[i], all[i + 1])
         /\ EndsAt(segs, all[Len(all)], k, off)

\* A piece that begins where the cut is follows the last one.
LEMMA FollowsEnd ==
    ASSUME NEW segs, NEW p \in Pieces, NEW k \in Nat, NEW off \in Nat, NEW size,
           EndsAt(segs, p, k, off)
    PROVE  Follows(segs, p, <<k, off, size>>)
<1> DEFINE q == <<k, off, size>>
<1>1. q[1] = k /\ q[2] = off /\ q[3] = size
  OBVIOUS
<1>2. p[1] \in Nat
  BY DEF Pieces
<1>3. CASE off > 0
  BY <1>1, <1>3 DEF EndsAt, Follows
<1>4. CASE ~(off > 0)
  <2>1. off = 0 /\ p[1] = k - 1 /\ p[2] + p[3] = segs[k - 1]
    BY <1>4 DEF EndsAt
  <2>2. p[1] + 1 = k /\ k - 1 = p[1]
    BY <1>2, <2>1
  <2>3. q = <<p[1] + 1, 0, q[3]>>
    BY <1>1, <2>1, <2>2
  <2> QED BY <2>1, <2>2, <2>3 DEF Follows
<1> QED BY <1>3, <1>4

\* A piece cut where the cut is keeps the pieces joint.
LEMMA JointMore ==
    ASSUME NEW segs, NEW all \in Seq(Pieces), NEW k \in Nat, NEW off \in Nat, NEW size \in Nat \ {0},
           Joint(segs, all, k, off), NEW k2, NEW off2,
           \/ k2 = k /\ off2 = off + size
           \/ k2 = k + 1 /\ off2 = 0 /\ off + size = segs[k]
    PROVE  Joint(segs, Append(all, <<k, off, size>>), k2, off2)
<1> DEFINE p == <<k, off, size>>
           new == Append(all, p)
           n == Len(all)
<1>1. p \in Pieces /\ p[1] = k /\ p[2] = off /\ p[3] = size
  BY DEF Pieces
<1> HIDE DEF p
<1>2. n \in Nat /\ Len(new) = n + 1 /\ new[n + 1] = p /\ new # <<>> /\ \A i \in 1..n : new[i] = all[i]
  BY <1>1, SeqFacts, AppendFacts
<1>3. EndsAt(segs, p, k2, off2)
  BY <1>1 DEF EndsAt
<1>4. CASE all = <<>>
  <2>1. n = 0 /\ k = 1 /\ off = 0
    BY <1>4 DEF Joint
  <2> HIDE DEF n, new
  <2>2. new[1] = p /\ Len(new) = 1
    BY <1>2, <2>1
  <2>3. Joint(segs, new, k2, off2)
    BY <1>1, <1>2, <1>3, <2>1, <2>2 DEF Joint
  <2> QED BY <2>3 DEF new, p
<1>5. CASE all # <<>>
  <2>1. n # 0 /\ all[n] \in Pieces
    BY <1>5, SeqFacts
  <2>2. /\ all[1][1] = 1 /\ all[1][2] = 0
        /\ \A i \in 1..(n - 1) : Follows(segs, all[i], all[i + 1])
        /\ EndsAt(segs, all[n], k, off)
    BY <1>5 DEF Joint
  <2>3. Follows(segs, all[n], p)
    BY <2>1, <2>2, FollowsEnd DEF p
  <2> HIDE DEF n, new
  <2>4. ASSUME NEW i \in 1..((n + 1) - 1) PROVE Follows(segs, new[i], new[i + 1])
    <3>1. CASE i = n
      BY <1>2, <2>1, <2>3, <3>1
    <3>2. CASE i # n
      <4>1. i \in 1..(n - 1) /\ i \in 1..n /\ i + 1 \in 1..n
        BY <1>2, <3>2
      <4> QED BY <1>2, <2>2, <4>1
    <3> QED BY <3>1, <3>2
  <2>5. new[1] = all[1]
    BY <1>2, <2>1
  <2>6. Joint(segs, new, k2, off2)
    BY <1>2, <1>3, <2>2, <2>4, <2>5 DEF Joint
  <2> QED BY <2>6 DEF new, p
<1> QED BY <1>4, <1>5

\* the frames are full but for the last, which has n bytes
Filled(fr, n) ==
    /\ fr # <<>>
    /\ \A i \in 1..(Len(fr) - 1) : Sums(fr[i], Base(i), FrameSize)
    /\ Sums(fr[Len(fr)], Base(Len(fr)), n)

Cuts(segs) ==
    [k : 1..(Len(segs) + 1), off : Nat, len : Nat, later : BOOLEAN, frames : Seq(Seq(Pieces))]

\* what holds at each turn of the loop that cuts a reply
Good(segs, c) ==
    /\ IF c.k \in DOMAIN segs THEN c.off < segs[c.k] ELSE c.off = 0
    /\ c.len < Room(~c.later)
    /\ c.later \/ Len(c.frames) = 1
    /\ c.later /\ c.len > 0 => Len(c.frames) > 1
    /\ Filled(c.frames, IF c.later /\ c.len = 0 THEN FrameSize ELSE Base(Len(c.frames)) + c.len)
    /\ \E all \in Seq(Pieces) : Flat(c.frames, all) /\ Joint(segs, all, c.k, c.off)

\* When the last frame is full, a new one begins with its header.
LEMMA FilledNew ==
    ASSUME NEW fr \in Seq(Seq(Pieces)), Filled(fr, FrameSize)
    PROVE  Filled(Append(fr, <<>>), Base(Len(fr) + 1))
<1> DEFINE n == Len(fr)
           e == <<>>
           new == Append(fr, e)
<1>1. HdrSize \in Nat /\ e \in Seq(Pieces) /\ Sums(e, Base(n + 1), Base(n + 1))
  <2>1. HdrSize \in Nat
    BY MemcachedAssumption
  <2>2. Base(n + 1) \in Nat
    BY <2>1 DEF Base
  <2> QED BY <2>1, <2>2, SumsNone
<1> HIDE DEF e
<1>2. n \in Nat /\ Len(new) = n + 1 /\ new # <<>> /\ new[n + 1] = e /\ \A i \in 1..n : new[i] = fr[i]
  BY <1>1, SeqFacts, AppendFacts
<1>3. \A i \in 1..n : Sums(fr[i], Base(i), FrameSize)
  BY <1>2 DEF Filled
<1> HIDE DEF n, new
<1>4. Filled(new, Base(n + 1))
  BY <1>1, <1>2, <1>3 DEF Filled
<1> QED BY <1>4 DEF new, n, e

\* A piece more in the last frame adds its bytes to it.
LEMMA FilledMore ==
    ASSUME NEW fr \in Seq(Seq(Pieces)), NEW n, Filled(fr, n), NEW p \in Pieces
    PROVE  Filled([fr EXCEPT ![Len(fr)] = Append(@, p)], n + p[3])
<1> DEFINE m == Len(fr)
           new == [fr EXCEPT ![m] = Append(@, p)]
<1>1. HdrSize \in Nat
  BY MemcachedAssumption
<1>2. m \in Nat /\ m # 0 /\ DOMAIN fr = 1..m /\ fr[m] \in Seq(Pieces)
  <2>1. fr # <<>>
    BY DEF Filled
  <2>2. m # 0
    BY <2>1
  <2> QED BY <2>2, SeqFacts
<1>3. /\ \A i \in 1..(m - 1) : Sums(fr[i], Base(i), FrameSize)
      /\ Sums(fr[m], Base(m), n)
  BY DEF Filled
<1>4. Len(new) = m /\ new # <<>>
  BY <1>2
<1>5. new[m] = Append(fr[m], p) /\ \A i \in 1..(m - 1) : new[i] = fr[i]
  <2> HIDE DEF m
  <2> QED BY <1>2
<1>6. Sums(Append(fr[m], p), Base(m), n + p[3])
  <2>1. Base(m) \in Nat
    BY <1>1 DEF Base
  <2> HIDE DEF m
  <2> QED BY <1>2, <1>3, <2>1, SumsMore
<1> HIDE DEF m, new
<1>7. Filled(new, n + p[3])
  BY <1>3, <1>4, <1>5, <1>6 DEF Filled
<1> QED BY <1>7 DEF new, m

\* the frames a cut goes on with: a new one when the last one is full
Opened(c) == IF c.len = 0 /\ c.later THEN Append(c.frames, <<>>) ELSE c.frames

\* The frame that a cut goes on with has room for what it holds and one byte
\* more.
LEMMA OpenedGood ==
    ASSUME NEW segs \in Seq(Nat \ {0}), NEW c \in Cuts(segs), Good(segs, c)
    PROVE  /\ Opened(c) \in Seq(Seq(Pieces))
           /\ c.later => Len(Opened(c)) > 1
           /\ ~c.later => Len(Opened(c)) = 1
           /\ Base(Len(Opened(c))) + Room(~c.later) = FrameSize
           /\ Filled(Opened(c), Base(Len(Opened(c))) + c.len)
           /\ \E all \in Seq(Pieces) : Flat(Opened(c), all) /\ Joint(segs, all, c.k, c.off)
<1> DEFINE fs == Opened(c)
           n == Len(fs)
<1>1. c.frames \in Seq(Seq(Pieces)) /\ c.len \in Nat /\ c.later \in BOOLEAN
  BY DEF Cuts
<1>2. PICK all \in Seq(Pieces) : Flat(c.frames, all) /\ Joint(segs, all, c.k, c.off)
  BY DEF Good
<1>3. Len(c.frames) \in Nat /\ Len(c.frames) # 0
  <2>1. c.frames # <<>>
    BY DEF Good, Filled
  <2> QED BY <1>1, <2>1
<1>4. CASE c.len = 0 /\ c.later
  <2>1. fs = Append(c.frames, <<>>)
    BY <1>4 DEF Opened
  <2>2. n = Len(c.frames) + 1
    BY <1>1, <2>1
  <2>3. Filled(c.frames, FrameSize)
    BY <1>4 DEF Good
  <2>4. Filled(fs, Base(n))
    BY <1>1, <2>1, <2>2, <2>3, FilledNew
  <2>5. fs \in Seq(Seq(Pieces))
    BY <1>1, <2>1
  <2>6. Flat(fs, all)
    BY <1>1, <1>2, <2>1, FlatNew
  <2>7. Base(n) \in Nat /\ Base(n) + Room(~c.later) = FrameSize
    BY <1>3, <1>4, <2>2, MemcachedAssumption DEF Base, Room
  <2>8. Base(n) + c.len = Base(n)
    BY <1>4, <2>7
  <2> HIDE DEF fs
  <2>9. n > 1
    BY <1>3, <2>2
  <2> QED BY <1>2, <1>4, <2>4, <2>5, <2>6, <2>7, <2>8, <2>9 DEF fs
<1>5. CASE ~(c.len = 0 /\ c.later)
  <2>1. fs = c.frames
    BY <1>5 DEF Opened
  <2>2. Filled(fs, Base(n) + c.len)
    BY <1>5, <2>1 DEF Good
  <2>3. c.later => n > 1
    BY <1>1, <1>5, <2>1 DEF Good
  <2>4. ~c.later => n = 1
    BY <2>1 DEF Good
  <2>5. Base(n) + Room(~c.later) = FrameSize
    <3>1. CASE c.later
      <4>1. n \in Nat
        BY <1>3, <2>1
      <4> HIDE DEF n
      <4>2. n # 1
        BY <2>3, <3>1, <4>1
      <4> QED BY <3>1, <4>2, MemcachedAssumption DEF Base, Room
    <3>2. CASE ~c.later
      BY <2>4, <3>2, MemcachedAssumption DEF Base, Room
    <3> QED BY <3>1, <3>2
  <2> HIDE DEF fs
  <2> QED BY <1>1, <1>2, <2>1, <2>2, <2>3, <2>4, <2>5 DEF fs
<1> QED BY <1>4, <1>5

\* A turn of the loop of construct_frames keeps the frames full but for the
\* last, and the pieces joint.
LEMMA CutGood ==
    ASSUME NEW segs \in Seq(Nat \ {0}), NEW c \in Cuts(segs), Good(segs, c), c.k \in DOMAIN segs
    PROVE  Cut(segs, c) \in Cuts(segs) /\ Good(segs, Cut(segs, c))
<1> DEFINE k == c.k
           off == c.off
           len == c.len
           sk == segs[k]
           rest == sk - off
           room == Room(~c.later)
           fs == Opened(c)
           n == Len(fs)
           base == Base(n)
           fits == rest + len < room
           size == IF fits THEN rest ELSE room - len
           p == <<k, off, size>>
           ends == off + size = sk
           new == [fs EXCEPT ![n] = Append(@, p)]
           k2 == IF fits \/ ends THEN k + 1 ELSE k
           off2 == IF fits \/ ends THEN 0 ELSE off + size
           len2 == IF fits THEN len + rest ELSE 0
           later2 == c.later \/ ~fits
           d == [k |-> k2, off |-> off2, len |-> len2, later |-> later2, frames |-> new]
<1>1. Cut(segs, c) = d
  BY DEF Cut, Opened
<1>2. /\ k \in Nat /\ k <= Len(segs) /\ off \in Nat /\ len \in Nat /\ c.later \in BOOLEAN
      /\ sk \in Nat /\ off < sk /\ Len(segs) \in Nat /\ k # 0
      /\ room \in Nat /\ len < room
  <2>1. c.len < room /\ c.off < segs[c.k]
    BY DEF Good
  <2>2. room \in Nat
    BY MemcachedAssumption DEF Room
  <2> QED BY <2>1, <2>2, SeqFacts DEF Cuts
<1>3. /\ fs \in Seq(Seq(Pieces)) /\ (c.later => n > 1) /\ (~c.later => n = 1)
      /\ base + room = FrameSize /\ Filled(fs, base + len)
      /\ \E all \in Seq(Pieces) : Flat(fs, all) /\ Joint(segs, all, k, off)
  BY OpenedGood
<1>4. PICK all \in Seq(Pieces) : Flat(fs, all) /\ Joint(segs, all, k, off)
  BY <1>3
<1>5. fs # <<>> /\ n \in Nat /\ n # 0 /\ DOMAIN fs = 1..n /\ fs[n] \in Seq(Pieces) /\ base \in Nat
  <2>1. fs # <<>>
    BY <1>3 DEF Filled
  <2>2. base \in Nat
    BY MemcachedAssumption DEF Base, base
  <2> HIDE DEF fs
  <2> QED BY <1>3, <2>1, <2>2
<1> HIDE DEF fs, room, sk, k, off, len, base
<1>6. rest \in Nat /\ rest > 0 /\ size \in Nat \ {0} /\ off + size <= sk
  BY <1>2
<1> HIDE DEF size
<1>7. p \in Pieces /\ p[3] = size
  BY <1>2, <1>6 DEF Pieces
<1> HIDE DEF p
<1>8. /\ k2 \in 1..(Len(segs) + 1) /\ off2 \in Nat /\ len2 \in Nat /\ later2 \in BOOLEAN
      /\ \/ k2 = k /\ off2 = off + size /\ off2 < sk
         \/ k2 = k + 1 /\ off2 = 0 /\ off + size = sk
      /\ fits => len2 > 0 /\ len2 < room /\ later2 = c.later /\ len2 = len + size
      /\ ~fits => len2 = 0 /\ later2 = TRUE /\ len + size = room
  BY <1>2, <1>6 DEF size
<1>9. new \in Seq(Seq(Pieces)) /\ Len(new) = n
  <2>1. Append(fs[n], p) \in Seq(Pieces)
    BY <1>5, <1>7
  <2> HIDE DEF n
  <2> QED BY <1>3, <1>5, <2>1 DEF n
<1>10. Filled(new, base + len + size)
  BY <1>3, <1>7, FilledMore
<1>11. Flat(new, Append(all, p))
  BY <1>3, <1>4, <1>5, <1>7, FlatMore
<1>12. Append(all, p) \in Seq(Pieces)
  BY <1>4, <1>7
<1> HIDE DEF new, k2, off2, len2, later2, fits, n
<1>13. Joint(segs, Append(all, p), k2, off2)
  BY <1>2, <1>4, <1>6, <1>8, JointMore DEF p, sk
<1>14. d \in Cuts(segs)
  BY <1>8, <1>9 DEF Cuts
<1>15. d.k = k2 /\ d.off = off2 /\ d.len = len2 /\ d.later = later2 /\ d.frames = new
  OBVIOUS
<1> HIDE DEF d
<1>21. IF d.k \in DOMAIN segs THEN d.off < segs[d.k] ELSE d.off = 0
  <2>1. CASE k2 = k /\ off2 = off + size /\ off2 < sk
    BY <1>15, <2>1 DEF sk, k
  <2>2. CASE k2 = k + 1 /\ off2 = 0
    <3>1. ASSUME k2 \in DOMAIN segs PROVE segs[k2] > 0
      BY <3>1
    <3> QED BY <1>15, <2>2, <3>1
  <2> QED BY <1>8, <2>1, <2>2
<1>16. d.len < Room(~d.later)
  <2>1. CASE fits
    BY <1>8, <1>15, <2>1 DEF room
  <2>2. CASE ~fits
    BY <1>8, <1>15, <2>2, MemcachedAssumption DEF Room
  <2> QED BY <2>1, <2>2
<1>17. (d.later \/ Len(d.frames) = 1) /\ (d.later /\ d.len > 0 => Len(d.frames) > 1)
  <2>1. Len(d.frames) = n /\ (~c.later => n = 1) /\ (c.later => n > 1)
    BY <1>3, <1>9, <1>15
  <2>2. CASE fits
    BY <1>2, <1>8, <1>15, <2>1, <2>2
  <2>3. CASE ~fits
    BY <1>8, <1>15, <2>3
  <2> QED BY <2>2, <2>3
<1>18. Filled(d.frames, IF d.later /\ d.len = 0 THEN FrameSize ELSE Base(Len(d.frames)) + d.len)
  <2>1. CASE fits
    <3>1. base + len + size = base + len2 /\ len2 # 0
      BY <1>2, <1>5, <1>6, <1>8, <2>1
    <3> QED BY <1>9, <1>10, <1>15, <3>1 DEF base
  <2>2. CASE ~fits
    <3>1. base + len + size = FrameSize
      <4>1. len + size = room /\ base + room = FrameSize
        BY <1>3, <1>8, <2>2
      <4>2. base \in Nat /\ len \in Nat /\ size \in Nat
        BY <1>2, <1>5, <1>6
      <4> QED BY <4>1, <4>2
    <3> QED BY <1>8, <1>10, <1>15, <2>2, <3>1
  <2> QED BY <2>1, <2>2
<1>19. \E a \in Seq(Pieces) : Flat(d.frames, a) /\ Joint(segs, a, d.k, d.off)
  BY <1>11, <1>12, <1>13, <1>15
<1>20. Good(segs, d)
  BY <1>16, <1>17, <1>18, <1>19, <1>21 DEF Good
<1> QED BY <1>1, <1>14, <1>20

\* the turns that were taken: each ended a segment or filled a frame
Turned(pre, c, t) ==
    \E full \in Nat : /\ t <= (c.k - 1) + full
                      /\ full * (FrameSize - HdrSize) + c.len <= pre[c.k - 1] + c.off

\* A turn of the loop of construct_frames ends a segment or fills a frame.
LEMMA CutTurn ==
    ASSUME NEW segs \in Seq(Nat \ {0}), NEW c \in Cuts(segs), Good(segs, c), c.k \in DOMAIN segs,
           NEW pre \in [0..Len(segs) -> Nat], \A i \in 1..Len(segs) : pre[i] = pre[i - 1] + segs[i],
           NEW t \in Nat, Turned(pre, c, t)
    PROVE  Turned(pre, Cut(segs, c), t + 1)
<1> DEFINE k == c.k
           off == c.off
           len == c.len
           sk == segs[k]
           before == pre[k - 1]
           after == pre[k]
           rest == sk - off
           room == Room(~c.later)
           least == FrameSize - HdrSize
           fits == rest + len < room
           size == IF fits THEN rest ELSE room - len
           ends == off + size = sk
           k2 == IF fits \/ ends THEN k + 1 ELSE k
           off2 == IF fits \/ ends THEN 0 ELSE off + size
           len2 == IF fits THEN len + rest ELSE 0
           d == Cut(segs, c)
<1>1. d.k = k2 /\ d.off = off2 /\ d.len = len2
  BY DEF Cut
<1>2. /\ k \in Nat /\ k # 0 /\ off \in Nat /\ len \in Nat
      /\ sk \in Nat /\ off < sk /\ room \in Nat /\ len < room /\ least \in Nat /\ least <= room
      /\ before \in Nat /\ after = before + sk
  <2>1. c.len < room /\ c.off < segs[c.k]
    BY DEF Good
  <2>2. room \in Nat /\ least \in Nat /\ least <= room
    BY MemcachedAssumption DEF Room
  <2>3. k \in 1..Len(segs) /\ k - 1 \in 0..Len(segs)
    OBVIOUS
  <2>4. before \in Nat /\ after = before + sk
    <3> HIDE DEF k
    <3> QED BY <2>3
  <2> QED BY <2>1, <2>2, <2>4, SeqFacts DEF Cuts
<1>3. PICK full \in Nat : t <= (k - 1) + full /\ full * least + len <= before + off
  BY DEF Turned
<1> HIDE DEF k, off, len, sk, before, after, room, least, d
<1>4. /\ size \in Nat /\ k2 \in Nat /\ k2 >= k
      /\ \/ k2 = k /\ off2 = off + size
         \/ k2 = k + 1 /\ off2 = 0 /\ off + size = sk
      /\ fits => k2 = k + 1 /\ len2 = len + size
      /\ ~fits => len2 = 0 /\ len + size = room
  BY <1>2
<1> HIDE DEF k2, off2, len2, size, fits
<1>5. pre[k2 - 1] + off2 = before + off + size
  <2>1. CASE k2 = k + 1 /\ off2 = 0 /\ off + size = sk
    <3>1. k2 - 1 = k
      BY <1>2, <2>1
    <3>2. pre[k2 - 1] = after
      BY <3>1 DEF after
    <3> QED BY <1>2, <1>4, <2>1, <3>2
  <2>2. CASE k2 = k /\ off2 = off + size
    <3>1. pre[k2 - 1] = before
      BY <2>2 DEF before
    <3> QED BY <1>2, <1>4, <2>2, <3>1
  <2> QED BY <1>4, <2>1, <2>2
<1>6. full * least \in Nat /\ (full + 1) * least = full * least + least
  BY <1>2
<1> DEFINE part == full * least
           more == (full + 1) * least
<1>7. part \in Nat /\ more = part + least /\ part + len <= before + off
  BY <1>3, <1>6
<1> HIDE DEF part, more
<1>8. CASE fits
  <2>1. t + 1 <= (k2 - 1) + full
    BY <1>2, <1>3, <1>4, <1>8
  <2>2. part + len2 <= before + off + size
    BY <1>2, <1>4, <1>7, <1>8
  <2>3. full * (FrameSize - HdrSize) + d.len <= pre[d.k - 1] + d.off
    BY <1>1, <1>5, <2>2 DEF part, least
  <2>4. t + 1 <= (d.k - 1) + full
    BY <1>1, <2>1
  <2> QED BY <2>3, <2>4 DEF Turned, d
<1>9. CASE ~fits
  <2>1. t + 1 <= (k2 - 1) + (full + 1) /\ full + 1 \in Nat
    BY <1>2, <1>3, <1>4
  <2>2. more + len2 <= before + off + size
    BY <1>2, <1>4, <1>7, <1>9
  <2>3. (full + 1) * (FrameSize - HdrSize) + d.len <= pre[d.k - 1] + d.off
    BY <1>1, <1>5, <2>2 DEF more, least
  <2>4. t + 1 <= (d.k - 1) + (full + 1)
    BY <1>1, <2>1
  <2>5. PICK n \in Nat : n = full + 1
    BY <2>1
  <2> QED BY <2>3, <2>4, <2>5 DEF Turned, d
<1> QED BY <1>8, <1>9 DEF d

SumFold == INSTANCE FoldTheorems WITH Op <- Plus
CutFold == INSTANCE FoldTheorems WITH Op <- CutMore

\* The bytes of a reply before each of its segments.
LEMMA PrefixSums ==
    ASSUME NEW segs \in Seq(Nat \ {0})
    PROVE  \E pre \in [0..Len(segs) -> Nat] :
              /\ pre[0] = 0
              /\ \A i \in 1..Len(segs) : pre[i] = pre[i - 1] + segs[i]
              /\ \A i \in 0..Len(segs) : pre[i] <= FoldLeft(Plus, 0, segs)
<1>1. PICK n : n = Len(segs)
  OBVIOUS
<1>2. n \in Nat /\ DOMAIN segs = 1..n /\ \A i \in 1..n : segs[i] \in Nat
  BY <1>1, SeqFacts
<1>3. PICK h : h[0] = 0 /\ (\A i \in 1..n : h[i] = Plus(h[i - 1], segs[i])) /\ h[n] = SumFold!Fold(0, segs)
  <2> n \in Nat /\ DOMAIN segs = 1..n
    BY <1>2
  <2> QED BY SumFold!FoldSteps, ZenonT(30)
<1>4. FoldLeft(Plus, 0, segs) = SumFold!Fold(0, segs)
  BY Zenon DEF SumFold!Fold, SumFold!Iter, SumFold!IsIter, FoldLeft, MapThenFoldSet, Max, SumFold!Top
<1>5. \A i \in 1..n : h[i] = h[i - 1] + segs[i]
  BY <1>3 DEF Plus
<1> DEFINE P == {i \in 0..n : h[i] \in Nat}
<1>6. 0 \in P /\ \A i \in 1..n : i - 1 \in P => i \in P
  <2>1. 0 \in P
    BY <1>2, <1>3
  <2>2. ASSUME NEW i \in 1..n, i - 1 \in P PROVE i \in P
    BY <1>2, <1>5, <2>2
  <2> QED BY <2>1, <2>2
<1>7. \A i \in 0..n : h[i] \in Nat
  <2> HIDE DEF P
  <2>1. \A i \in 0..n : i \in P
    BY <1>2, <1>6, SumFold!SetInduction
  <2> QED BY <2>1 DEF P
<1> DEFINE Q == {i \in 0..n : h[n - i] <= h[n]}
<1>8. 0 \in Q /\ \A i \in 1..n : i - 1 \in Q => i \in Q
  <2>1. 0 \in Q
    BY <1>2, <1>7
  <2>2. ASSUME NEW i \in 1..n, i - 1 \in Q PROVE i \in Q
    <3>1. PICK j \in 1..n : j = n - (i - 1)
      BY <1>2
    <3>2. j - 1 = n - i /\ j - 1 \in 0..n /\ j \in 0..n /\ n \in 0..n
      BY <1>2, <3>1
    <3>3. h[j] <= h[n]
      BY <2>2, <3>1
    <3>4. h[j - 1] <= h[n]
      BY <1>2, <1>5, <1>7, <3>2, <3>3
    <3> QED BY <3>2, <3>4
  <2> QED BY <2>1, <2>2
<1>9. \A i \in 0..n : h[i] <= h[n]
  <2>1. \A i \in 0..n : i \in Q
    <3> HIDE DEF Q
    <3> QED BY <1>2, <1>8, SumFold!SetInduction
  <2>2. ASSUME NEW i \in 0..n PROVE h[i] <= h[n]
    <3>1. PICK j \in 0..n : j = n - i
      BY <1>2
    <3>2. n - j = i
      BY <1>2, <3>1
    <3> QED BY <2>1, <3>2
  <2> QED BY <2>2
<1> DEFINE pre == [i \in 0..n |-> h[i]]
<1>10. /\ pre \in [0..n -> Nat] /\ pre[0] = 0
       /\ \A i \in 1..n : pre[i] = pre[i - 1] + segs[i]
       /\ \A i \in 0..n : pre[i] <= FoldLeft(Plus, 0, segs)
  <2>1. \A i \in 0..n : pre[i] = h[i]
    OBVIOUS
  <2>2. pre \in [0..n -> Nat]
    BY <1>7
  <2> HIDE DEF pre, P, Q
  <2>3. 0 \in 0..n /\ \A i \in 1..n : i \in 0..n /\ i - 1 \in 0..n
    BY <1>2
  <2> QED BY <1>3, <1>4, <1>5, <1>9, <2>1, <2>2, <2>3
<1> HIDE DEF pre
<1> QED BY <1>1, <1>10

\* A multiple of r up to a sum is at most as many as the quotient.
LEMMA DivBound ==
    ASSUME NEW sum \in Nat, NEW r \in Nat \ {0}, NEW m \in Nat, m * r <= sum
    PROVE  m <= sum \div r /\ sum \div r \in Nat
<1> DEFINE q == sum \div r
<1>1. q \in Nat /\ sum < (q + 1) * r
  OBVIOUS
<1> HIDE DEF q
<1>2. ASSUME m >= q + 1 PROVE FALSE
  <2>1. PICK x \in Nat : m = (q + 1) + x
    <3>1. m - (q + 1) \in Nat
      BY <1>1, <1>2
    <3> QED BY <1>1, <3>1
  <2>2. m * r = (q + 1) * r + x * r /\ x * r \in Nat /\ (q + 1) * r \in Nat
    BY <1>1, <2>1
  <2> QED BY <1>1, <2>2
<1> QED BY <1>1, <1>2 DEF q

\* Before its first turn the loop has one empty frame and no piece.
LEMMA FirstGood ==
    ASSUME NEW segs \in Seq(Nat \ {0}), segs # <<>>
    PROVE  LET c == [k |-> 1, off |-> 0, len |-> 0, later |-> FALSE, frames |-> << <<>> >>]
           IN  c \in Cuts(segs) /\ Good(segs, c)
<1> DEFINE e == <<>>
           fr == <<e>>
           c == [k |-> 1, off |-> 0, len |-> 0, later |-> FALSE, frames |-> fr]
<1>1. Len(segs) \in Nat /\ DOMAIN segs = 1..Len(segs) /\ Len(segs) # 0 /\ segs[1] > 0
  <2>1. Len(segs) \in Nat /\ DOMAIN segs = 1..Len(segs) /\ Len(segs) # 0
    OBVIOUS
  <2> QED BY <2>1
<1>2. e \in Seq(Pieces) /\ e \in Seq(Seq(Pieces)) /\ Sums(e, 0, 0)
  BY SumsNone
<1>3. Flat(e, e)
  <2> DEFINE h == [i \in 0..0 |-> e]
  <2>1. h \in [0..0 -> Seq(Pieces)] /\ h[0] = e /\ Len(e) = 0
    BY <1>2
  <2> HIDE DEF h
  <2> QED BY <2>1 DEF Flat
<1>4. Flat(fr, e)
  <2>1. Append(e, e) = fr
    OBVIOUS
  <2>2. Flat(Append(e, e), e)
    BY <1>2, <1>3, FlatNew
  <2> QED BY <2>1, <2>2
<1>5. Joint(segs, e, 1, 0)
  BY DEF Joint
<1>6. fr \in Seq(Seq(Pieces)) /\ Len(fr) = 1 /\ fr[1] = e /\ fr # <<>>
  <2>1. fr \in Seq(Seq(Pieces))
    BY <1>2
  <2> QED BY <2>1
<1>7. Filled(fr, 0) /\ Base(1) = 0
  BY <1>2, <1>6 DEF Filled, Base
<1> HIDE DEF e, fr
<1>8. c \in Cuts(segs)
  BY <1>1, <1>6 DEF Cuts
<1>9. c.k = 1 /\ c.off = 0 /\ c.len = 0 /\ c.later = FALSE /\ c.frames = fr
  OBVIOUS
<1> HIDE DEF c
<1>10. Room(~c.later) > 0 /\ Base(Len(c.frames)) + c.len = 0
  <2>1. Room(~c.later) > 0
    BY <1>9, MemcachedAssumption DEF Room
  <2>2. Base(Len(c.frames)) = 0
    BY <1>6, <1>7, <1>9
  <2> QED BY <1>9, <2>1, <2>2
<1>11. \E all \in Seq(Pieces) : Flat(c.frames, all) /\ Joint(segs, all, c.k, c.off)
  BY <1>2, <1>4, <1>5, <1>9
<1>12. Good(segs, c)
  BY <1>1, <1>6, <1>7, <1>9, <1>10, <1>11 DEF Good
<1> QED BY <1>8, <1>12 DEF c, fr, e

\* The loop of construct_frames has cut all the segments of a reply in the
\* turns that Frames gives it: as many as there are segments and full frames.
LEMMA CutEnds ==
    ASSUME NEW segs \in Seq(Nat \ {0}), segs # <<>>
    PROVE  \E c \in Cuts(segs) :
              /\ Good(segs, c) /\ c.k = Len(segs) + 1
              /\ Frames(segs) = [i \in DOMAIN c.frames |->
                    [seq |-> i - 1, total |-> Len(c.frames), pieces |-> c.frames[i]]]
<1> DEFINE n     == Len(segs)
           sum   == FoldLeft(Plus, 0, segs)
           least == FrameSize - HdrSize
           turns == n + (sum \div least) + 1
           seq   == [i \in 1..turns |-> segs]
           base  == [k |-> 1, off |-> 0, len |-> 0, later |-> FALSE, frames |-> << <<>> >>]
           end   == FoldLeft(CutMore, base, seq)
<1>1. PICK pre \in [0..n -> Nat] :
         /\ pre[0] = 0
         /\ \A i \in 1..n : pre[i] = pre[i - 1] + segs[i]
         /\ \A i \in 0..n : pre[i] <= sum
  BY PrefixSums
<1>2. n \in Nat /\ DOMAIN segs = 1..n /\ \A i \in 1..n : segs[i] \in Nat
  BY SeqFacts
<1>3. least \in Nat \ {0}
  BY MemcachedAssumption
<1>4. sum \in Nat
  <2>1. sum = SumFold!Fold(0, segs)
    BY Zenon DEF SumFold!Fold, SumFold!Iter, SumFold!IsIter, FoldLeft, MapThenFoldSet, Max, SumFold!Top
  <2> DEFINE T == [i \in 0..n |-> Nat]
  <2>2. 0 \in T[0] /\ \A i \in 1..n : \A x \in T[i - 1] : Plus(x, segs[i]) \in T[i]
    <3>1. \A i \in 0..n : T[i] = Nat
      OBVIOUS
    <3>2. 0 \in 0..n /\ \A i \in 1..n : i \in 0..n /\ i - 1 \in 0..n
      BY <1>2
    <3> HIDE DEF T
    <3> QED BY <1>2, <3>1, <3>2 DEF Plus
  <2>3. T[n] = Nat
    BY <1>2
  <2> HIDE DEF T, n
  <2>4. SumFold!Fold(0, segs) \in T[n]
    BY <1>2, <2>2, SumFold!FoldStays
  <2> QED BY <2>1, <2>3, <2>4
<1>5. sum \div least \in Nat /\ turns \in Nat
  <2>1. 0 * least <= sum
    BY <1>3, <1>4
  <2>2. sum \div least \in Nat
    BY <1>3, <1>4, <2>1, DivBound
  <2> QED BY <1>2, <2>2
<1> DEFINE S == [t \in 0..turns |->
                   {c \in Cuts(segs) : Good(segs, c) /\ (c.k \in DOMAIN segs => Turned(pre, c, t))}]
<1>6. base \in S[0]
  <2>1. base \in Cuts(segs) /\ Good(segs, base)
    BY FirstGood
  <2>2. Turned(pre, base, 0)
    <3>1. 0 * (FrameSize - HdrSize) + 0 <= pre[1 - 1] + 0 /\ 0 <= (1 - 1) + 0
      BY <1>1, <1>3
    <3>2. base.k = 1 /\ base.off = 0 /\ base.len = 0
      OBVIOUS
    <3> HIDE DEF base
    <3> QED BY <3>1, <3>2 DEF Turned
  <2>3. 0 \in 0..turns
    BY <1>5
  <2> HIDE DEF base, turns
  <2> QED BY <2>1, <2>2, <2>3
<1>7. ASSUME NEW t \in 1..turns, NEW c \in S[t - 1] PROVE CutMore(c, seq[t]) \in S[t]
  <2>1. t \in 0..turns /\ t - 1 \in 0..turns /\ t - 1 \in Nat /\ (t - 1) + 1 = t
    BY <1>5
  <2>2. seq[t] = segs
    OBVIOUS
  <2> HIDE DEF seq, turns
  <2>3. c \in Cuts(segs) /\ Good(segs, c) /\ (c.k \in DOMAIN segs => Turned(pre, c, t - 1))
    BY <2>1
  <2> DEFINE d == CutMore(c, segs)
  <2>4. d \in Cuts(segs) /\ Good(segs, d) /\ (d.k \in DOMAIN segs => Turned(pre, d, t))
    <3>1. CASE c.k > n
      <4>1. d = c /\ c.k \notin DOMAIN segs
        BY <1>2, <3>1 DEF CutMore
      <4> QED BY <2>3, <4>1
    <3>2. CASE ~(c.k > n)
      <4>1. d = Cut(segs, c) /\ c.k \in DOMAIN segs
        BY <1>2, <2>3, <3>2 DEF CutMore, Cuts
      <4>2. Turned(pre, Cut(segs, c), t)
        <5>1. PICK u \in Nat : u = t - 1
          BY <2>1
        <5>2. Turned(pre, Cut(segs, c), u + 1)
          BY <1>1, <2>3, <4>1, <5>1, CutTurn
        <5> QED BY <2>1, <5>1, <5>2
      <4>3. Cut(segs, c) \in Cuts(segs) /\ Good(segs, Cut(segs, c))
        BY <2>3, <4>1, CutGood
      <4> QED BY <4>1, <4>2, <4>3
    <3> QED BY <3>1, <3>2
  <2> HIDE DEF d
  <2>5. d \in S[t]
    BY <2>1, <2>4
  <2> QED BY <2>2, <2>5 DEF d
<1>8. end = CutFold!Fold(base, seq)
  BY Zenon DEF CutFold!Fold, CutFold!Iter, CutFold!IsIter, FoldLeft, MapThenFoldSet, Max, CutFold!Top
<1>9. end \in S[turns]
  <2>1. DOMAIN seq = 1..turns
    OBVIOUS
  <2> HIDE DEF S, seq, base, turns, end
  <2> QED BY <1>5, <1>6, <1>7, <1>8, <2>1, CutFold!FoldStays
<1>10. end \in Cuts(segs) /\ Good(segs, end) /\ (end.k \in DOMAIN segs => Turned(pre, end, turns))
  <2>1. turns \in 0..turns
    BY <1>5
  <2> HIDE DEF turns, end
  <2> QED BY <1>9, <2>1
<1>11. end.k = n + 1
  <2> SUFFICES ASSUME end.k \in DOMAIN segs PROVE FALSE
    <3> HIDE DEF end
    <3> QED BY <1>2, <1>10 DEF Cuts
  <2> DEFINE k == end.k
             off == end.off
             len == end.len
             sk == segs[k]
             before == pre[k - 1]
  <2>1. k \in 1..n /\ off \in Nat /\ len \in Nat /\ sk \in Nat /\ off < sk /\ before \in Nat /\ before + sk <= sum
    <3>1. k \in 1..n /\ off < sk /\ off \in Nat /\ len \in Nat
      <4> HIDE DEF end
      <4> QED BY <1>2, <1>10 DEF Good, Cuts
    <3> HIDE DEF k, off, len, sum
    <3>2. k \in 0..n /\ k - 1 \in 0..n
      BY <1>2, <3>1
    <3>3. pre[k] = before + sk /\ pre[k] <= sum /\ before \in Nat
      BY <1>1, <3>1, <3>2
    <3> QED BY <1>2, <3>1, <3>3
  <2>2. PICK full \in Nat : turns <= (k - 1) + full /\ full * least + len <= before + off
    <3> HIDE DEF end, turns
    <3> QED BY <1>10 DEF Turned
  <2> HIDE DEF k, off, len, sk, before, sum, least
  <2>3. full * least \in Nat
    BY <1>3
  <2>4. full * least <= sum
    BY <1>4, <2>1, <2>2, <2>3
  <2>5. full <= sum \div least
    BY <1>3, <1>4, <2>4, DivBound
  <2> DEFINE q == sum \div least
  <2>6. turns = n + q + 1 /\ q \in Nat /\ full <= q
    BY <1>5, <2>5
  <2> HIDE DEF q, turns
  <2> QED BY <1>2, <2>1, <2>2, <2>6
<1>12. Frames(segs) = [i \in DOMAIN end.frames |->
          [seq |-> i - 1, total |-> Len(end.frames), pieces |-> end.frames[i]]]
  BY DEF Frames
<1> HIDE DEF end
<1> QED BY <1>10, <1>11, <1>12

\* The frames of a reply of any segments are numbered, carry their number of
\* frames, are no longer than a frame, full but for the last, and hold every
\* byte of the reply once and in order (construct_frames).
LEMMA FramesRight ==
    ASSUME NEW segs \in Seq(Nat \ {0}), segs # <<>>
    PROVE  LET fs  == Frames(segs)
               all == FoldLeft(Joined, <<>>, fs)
           IN  /\ \A i \in DOMAIN fs : fs[i].seq = i - 1 /\ fs[i].total = Len(fs)
               /\ \A i \in DOMAIN fs : FrameBytes(fs[i]) <= FrameSize
               /\ \A i \in 1..(Len(fs) - 1) : FrameBytes(fs[i]) = FrameSize
               /\ all[1][1] = 1 /\ all[1][2] = 0
               /\ \A i \in 1..(Len(all) - 1) : Follows(segs, all[i], all[i + 1])
               /\ Last(all)[1] = Len(segs) /\ Last(all)[2] + Last(all)[3] = segs[Len(segs)]
<1> DEFINE fs == Frames(segs)
           N  == Len(segs)
<1>1. PICK c \in Cuts(segs) :
         /\ Good(segs, c) /\ c.k = N + 1
         /\ fs = [i \in DOMAIN c.frames |->
                    [seq |-> i - 1, total |-> Len(c.frames), pieces |-> c.frames[i]]]
  BY CutEnds
<1> DEFINE fr == c.frames
           n  == Len(fr)
           last == IF c.later /\ c.len = 0 THEN FrameSize ELSE Base(n) + c.len
<1>2. fr \in Seq(Seq(Pieces)) /\ n \in Nat /\ n # 0 /\ DOMAIN fr = 1..n
      /\ \A i \in 1..n : fr[i] \in Seq(Pieces)
  <2>1. fr \in Seq(Seq(Pieces))
    BY DEF Cuts
  <2>2. fr # <<>>
    BY <1>1 DEF Good, Filled
  <2>3. n # 0
    BY <2>1, <2>2
  <2> QED BY <2>1, <2>3, SeqFacts
<1>3. N \in Nat /\ N # 0
  OBVIOUS
<1>4. PICK all \in Seq(Pieces) : Flat(fr, all) /\ Joint(segs, all, c.k, c.off)
  BY <1>1 DEF Good
<1>5. (\A i \in 1..(n - 1) : Sums(fr[i], Base(i), FrameSize)) /\ Sums(fr[n], Base(n), last)
  BY <1>1 DEF Good, Filled
<1>6. last <= FrameSize
  <2>1. CASE c.later /\ c.len = 0
    BY <2>1, MemcachedAssumption
  <2>2. CASE ~(c.later /\ c.len = 0)
    <3>1. last = Base(n) + c.len /\ c.len < Room(~c.later) /\ c.len \in Nat
      BY <1>1, <2>2 DEF Good, Cuts
    <3>2. CASE c.later
      <4>1. n # 1
        <5>1. n > 1
          BY <1>1, <2>2, <3>1, <3>2 DEF Good
        <5> HIDE DEF n
        <5> QED BY <1>2, <5>1
      <4>2. Base(n) = HdrSize /\ Room(~c.later) = FrameSize - HdrSize
        BY <3>2, <4>1 DEF Base, Room
      <4> HIDE DEF last, n
      <4> QED BY <3>1, <4>2, MemcachedAssumption
    <3>3. CASE ~c.later
      <4>1. n = 1
        BY <1>1, <3>3 DEF Good
      <4>2. Base(n) = 0 /\ Room(~c.later) = FrameSize
        BY <3>3, <4>1 DEF Base, Room
      <4> HIDE DEF last, n
      <4> QED BY <3>1, <4>2, MemcachedAssumption
    <3> QED BY <3>2, <3>3
  <2> QED BY <2>1, <2>2
<1>7. /\ DOMAIN fs = 1..n /\ Len(fs) = n
      /\ \A i \in 1..n : fs[i].seq = i - 1 /\ fs[i].total = n /\ fs[i].pieces = fr[i]
  <2> HIDE DEF fs
  <2>1. DOMAIN fs = 1..n /\ \A i \in 1..n : fs[i].seq = i - 1 /\ fs[i].total = n /\ fs[i].pieces = fr[i]
    BY <1>1, <1>2
  <2>2. fs = [i \in 1..n |-> fs[i]]
    BY <1>1, <1>2
  <2>3. Len(fs) = n
    <3> HIDE DEF n
    <3> QED BY <1>2, <2>1, <2>2
  <2> QED BY <2>1, <2>3
<1> HIDE DEF fs, n, last
<1>8. ASSUME NEW i \in 1..n, NEW b, Sums(fr[i], Base(i), b) PROVE FrameBytes(fs[i]) = b
  <2>1. FoldLeft(AddPiece, Base(i), fr[i]) = b
    BY <1>2, <1>8, SumsIs
  <2>2. Base(i) = IF fs[i].seq = 0 THEN 0 ELSE HdrSize
    <3>1. fs[i].seq = i - 1 /\ (i = 1 <=> i - 1 = 0)
      BY <1>2, <1>7
    <3> QED BY <3>1 DEF Base
  <2> QED BY <1>7, <2>1, <2>2 DEF FrameBytes
<1>9. \A i \in 1..(n - 1) : FrameBytes(fs[i]) = FrameSize
  <2>1. \A i \in 1..(n - 1) : i \in 1..n
    BY <1>2
  <2> QED BY <1>5, <1>8, <2>1
<1>10. \A i \in 1..n : FrameBytes(fs[i]) <= FrameSize
  <2> SUFFICES ASSUME NEW i \in 1..n PROVE FrameBytes(fs[i]) <= FrameSize
    OBVIOUS
  <2>1. CASE i = n
    <3>1. FrameBytes(fs[i]) = last
      BY <1>5, <1>8, <2>1
    <3> QED BY <1>6, <3>1
  <2>2. CASE i # n
    <3>1. i \in 1..(n - 1)
      BY <1>2, <2>2
    <3>2. FrameSize <= FrameSize
      BY MemcachedAssumption
    <3> QED BY <1>9, <3>1, <3>2
  <2> QED BY <2>1, <2>2
<1>11. FoldLeft(Joined, <<>>, fs) = all
  BY <1>2, <1>4, <1>7, FlatIs
<1>12. c.off = 0
  <2>1. c.k \notin DOMAIN segs
    BY <1>1, <1>3
  <2> QED BY <1>1, <2>1 DEF Good
<1>13. /\ all[1][1] = 1 /\ all[1][2] = 0
       /\ \A i \in 1..(Len(all) - 1) : Follows(segs, all[i], all[i + 1])
       /\ Last(all)[1] = N /\ Last(all)[2] + Last(all)[3] = segs[N]
  <2>1. all # <<>>
    BY <1>1, <1>3, <1>4 DEF Joint
  <2>2. EndsAt(segs, all[Len(all)], N + 1, 0)
    BY <1>1, <1>4, <1>12, <2>1 DEF Joint
  <2>3. Last(all) = all[Len(all)]
    BY DEF Last
  <2>4. (N + 1) - 1 = N /\ ~(0 > 0)
    BY <1>3
  <2> HIDE DEF N
  <2>5. Last(all)[1] = N /\ Last(all)[2] + Last(all)[3] = segs[N]
    BY <2>2, <2>3, <2>4 DEF EndsAt
  <2> QED BY <1>4, <2>1, <2>5 DEF Joint
<1> QED BY <1>7, <1>9, <1>10, <1>11, <1>13 DEF fs

-----------------------------------------------------------------------------
(* A request that runs to its end *)

Blanks(st) == \A k \in Keys : Blank(st[k])

\* what a store may become: every entry is a later value of itself
Laters(st) == {new \in [Keys -> Entries] : Blanks(new) /\ AllLater(st, new)}

\* A later state of a later state of an entry is a later state of it.
LEMMA LaterTwice ==
    ASSUME NEW e \in Entries, NEW v \in Entries, NEW w \in Entries, Later(e, v), Later(v, w)
    PROVE  Later(e, w)
BY DEF Later, Entries

\* A later store of a later store is a later one.
LEMMA LatersTwice ==
    ASSUME NEW st \in [Keys -> Entries], NEW new \in Laters(st), NEW last \in Laters(new)
    PROVE  last \in Laters(st)
<1>1. ASSUME NEW k \in Keys PROVE Later(st[k], last[k])
  <2>1. st[k] \in Entries /\ new[k] \in Entries /\ last[k] \in Entries
        /\ Later(st[k], new[k]) /\ Later(new[k], last[k])
    BY DEF Laters, AllLater
  <2> QED BY <2>1, LaterTwice
<1> QED BY <1>1 DEF Laters, AllLater

\* An entry that is left alone counts as a later state of itself.
LEMMA LaterSelf == \A e \in Entries : Later(e, e)
BY DEF Later, Entries

\* A store that is left alone counts as a later one.
LEMMA SelfLaters == \A st \in [Keys -> Entries] : Blanks(st) => st \in Laters(st)
BY LaterSelf DEF Laters, AllLater

\* A store in which one entry is later is a later store.
LEMMA OneLater ==
    ASSUME NEW st \in [Keys -> Entries], Blanks(st), NEW k \in Keys, NEW w \in Entries,
           Later(st[k], w), Blank(w)
    PROVE  [st EXCEPT ![k] = w] \in Laters(st)
BY LaterSelf DEF Laters, AllLater, Blanks

\* What a handler leaves of the entry of its key makes a later store.
LEMMA HandlerLater ==
    ASSUME NEW r, WithKeys(r), NEW st \in [Keys -> Entries], Blanks(st), NEW i \in DOMAIN r.keys,
           NEW t \in Nat
    PROVE  LET k   == r.keys[i]
               res == Handler(r, Found(st[k], t), i, t)
           IN  /\ k \in Keys
               /\ HandlerOK(r, Found(st[k], t), i, res)
               /\ [st EXCEPT ![k] = res.e] \in Laters(st)
<1> DEFINE k   == r.keys[i]
           e   == Found(st[k], t)
           res == Handler(r, e, i, t)
<1>1. k \in Keys
  BY OneKey
<1>2. e \in Entries /\ Later(st[k], e) /\ Blank(e) /\ st[k] \in Entries
  BY <1>1, FoundType, FoundBlank DEF Blanks
<1> HIDE DEF e
<1>3. HandlerOK(r, e, i, res) /\ Blank(res.e)
  BY <1>2, HandlerIsOK, HandlerBlank
<1>4. res.e \in Entries /\ Later(e, res.e)
  BY <1>3 DEF HandlerOK, Outcome
<1> HIDE DEF res, k
<1>5. Later(st[k], res.e)
  BY <1>2, <1>4, LaterTwice
<1>6. [st EXCEPT ![k] = res.e] \in Laters(st)
  BY <1>1, <1>3, <1>4, <1>5, OneLater
<1> QED BY <1>1, <1>3, <1>6 DEF res, k, e

\* The next key of a request is the one after, or none.
LEMMA KeyStepNext ==
    ASSUME NEW q, NEW x \in Progress, NEW res
    PROVE  AfterKey(x, q, res).next \in {0, x.next + 1}
BY DEF AfterKey, Progress

KeyFold == INSTANCE FoldTheorems WITH Op <- RunKey

\* A request that runs to its end at once leaves a later store (the requests
\* over UDP, and those of another process).
LEMMA RunAllLater ==
    ASSUME NEW r \in Requests, IsRequest(r), NEW st \in [Keys -> Entries], Blanks(st), NEW t \in Nat
    PROVE  RunAll(r, st, t).store \in Laters(st)
<1> DEFINE seq == [i \in DOMAIN r.keys |-> [r |-> r, i |-> i, now |-> t]]
           base == [store |-> st, x |-> Begin]
           n == Len(r.keys)
           S == [i \in 0..n |-> {acc \in [store : Laters(st), x : Progress] : acc.x.next \in {0, i + 1}}]
<1>1. n \in Nat /\ DOMAIN r.keys = 1..n
  BY DEF Requests
<1>2. base \in S[0]
  <2>1. st \in Laters(st)
    BY SelfLaters
  <2>2. Begin \in Progress /\ Begin.next = 1
    BY DEF Begin, Progress
  <2>3. 0 \in 0..n
    BY <1>1
  <2> QED BY <2>1, <2>2, <2>3
<1>3. ASSUME NEW i \in 1..n, NEW acc \in S[i - 1] PROVE RunKey(acc, seq[i]) \in S[i]
  <2>1. /\ acc \in [store : Laters(st), x : Progress] /\ acc.x.next \in {0, i}
        /\ i \in 0..n /\ i \in DOMAIN r.keys
    BY <1>1
  <2>2. CASE acc.x.next = 0
    <3>1. RunKey(acc, seq[i]) = acc
      BY <2>2 DEF RunKey
    <3> QED BY <2>1, <2>2, <3>1
  <2>3. CASE acc.x.next = i /\ i # 0
    <3>1. WithKeys(r)
      BY <1>1, <2>1 DEF WithKeys
    <3> DEFINE k   == r.keys[i]
               res == Handler(r, Found(acc.store[k], t), i, t)
               new == [acc.store EXCEPT ![k] = res.e]
               y   == AfterKey(acc.x, r, res)
    <3>2. seq[i].r = r /\ seq[i].i = i /\ seq[i].now = t
      BY <2>1
    <3>3. RunKey(acc, seq[i]) = [store |-> new, x |-> y]
      <4> HIDE DEF seq
      <4> QED BY Zenon, <2>3, <3>2 DEF RunKey
    <3>4. acc.store \in [Keys -> Entries] /\ Blanks(acc.store) /\ acc.store \in Laters(st)
      BY <2>1 DEF Laters
    <3>5. HandlerOK(r, Found(acc.store[k], t), i, res) /\ new \in Laters(acc.store)
      BY <2>1, <3>1, <3>4, HandlerLater
    <3>6. new \in Laters(st)
      BY <3>4, <3>5, LatersTwice
    <3>7. acc.x \in Progress /\ acc.x.next \in DOMAIN r.keys
      BY <2>1, <2>3
    <3>8. y \in Progress /\ y.next \in {0, i + 1}
      BY <2>3, <3>1, <3>5, <3>7, KeyStepType, KeyStepNext
    <3> HIDE DEF new, y
    <3> QED BY <2>1, <3>3, <3>6, <3>8
  <2> QED BY <2>1, <2>2, <2>3
<1>4. DOMAIN seq = 1..n
  BY <1>1
<1> HIDE DEF S, seq, base
<1>5. KeyFold!Fold(base, seq) \in S[n]
  BY <1>1, <1>2, <1>3, <1>4, KeyFold!FoldStays
<1>6. FoldLeft(RunKey, base, seq) = KeyFold!Fold(base, seq)
  BY Zenon DEF KeyFold!Fold, KeyFold!Iter, KeyFold!IsIter, FoldLeft, MapThenFoldSet, Max, KeyFold!Top
<1>7. RunAll(r, st, t) = FoldLeft(RunKey, base, seq)
  BY DEF RunAll, base, seq
<1>8. n \in 0..n
  BY <1>1
<1> QED BY <1>5, <1>6, <1>7, <1>8 DEF S

-----------------------------------------------------------------------------
(* The requests of a read over UDP *)

\* the answers to the requests over UDP
Replies == {[to |-> id, frames |-> Frames(M.udp[id].segs)] : id \in Ids}

BatchFold == INSTANCE FoldTheorems WITH Op <- RunMessage

\* What the assumption says of the menu of this behaviour.
LEMMA MenuFacts ==
    ASSUME menu \in DOMAIN Menus
    PROVE  /\ M.store \in [Keys -> Entries] /\ Blanks(M.store)
           /\ M.len \in Nat /\ M.redis \subseteq Keys
           /\ M.calls \in Seq(Requests)
           /\ \A i \in DOMAIN M.calls : M.calls[i] \in Requests /\ IsRequest(M.calls[i])
           /\ \A id \in Ids : /\ M.udp[id].req \in Requests /\ IsRequest(M.udp[id].req)
                              /\ M.udp[id].sizes \in Seq(Nat \ {0}) \ {<<>>}
                              /\ M.udp[id].segs \in Seq(Nat \ {0}) \ {<<>>}
           /\ M.frames \subseteq Messages
<1>1. IsMenu(M)
  BY MemcachedAssumption DEF M
<1>2. M.calls \in Seq(Requests) /\ \A i \in DOMAIN M.calls : M.calls[i] \in Requests /\ IsRequest(M.calls[i])
  BY <1>1 DEF IsMenu
<1>3. ASSUME NEW id \in Ids
      PROVE  /\ M.udp[id].req \in Requests /\ IsRequest(M.udp[id].req)
             /\ M.udp[id].sizes \in Seq(Nat \ {0}) \ {<<>>}
             /\ M.udp[id].segs \in Seq(Nat \ {0}) \ {<<>>}
  <2> DEFINE U == [req : Requests, sizes : Seq(Nat \ {0}) \ {<<>>}, segs : Seq(Nat \ {0}) \ {<<>>}]
  <2>1. M.udp \in Seq(U) /\ \A i \in DOMAIN M.udp : IsRequest(M.udp[i].req)
    BY <1>1 DEF IsMenu
  <2>2. M.udp[id] \in U
    <3> HIDE DEF U
    <3> QED BY <2>1 DEF Ids
  <2> QED BY <2>1, <2>2 DEF Ids
<1>4. ASSUME NEW id \in Ids, NEW f \in Datagrams(id, M.udp[id].sizes) PROVE f \in Messages
  <2> DEFINE sizes == M.udp[id].sizes
  <2>1. sizes \in Seq(Nat \ {0}) /\ Len(sizes) \in Nat
    BY <1>3
  <2>2. PICK n \in DOMAIN sizes :
           f = [id |-> id, seq |-> n - 1, total |-> Len(sizes), size |-> sizes[n], used |-> FALSE]
    BY DEF Datagrams
  <2>3. n \in 1..Len(sizes) /\ sizes[n] \in Nat /\ Len(sizes) = Total(id)
    BY <2>1 DEF Total
  <2> HIDE DEF sizes
  <2> QED BY <2>1, <2>2, <2>3 DEF Messages
<1>5. M.frames = UNION {Datagrams(id, M.udp[id].sizes) : id \in Ids}
  BY <1>1 DEF IsMenu, Ids
<1>6. /\ M.store \in [Keys -> Entries] /\ M.len \in Nat /\ M.redis \subseteq Keys
      /\ \A k \in Keys : M.store[k].type = "none" => M.store[k] = Missing(M.store[k].cas)
  BY <1>1 DEF IsMenu
<1>7. M.frames \subseteq Messages
  BY <1>4, <1>5
<1> QED BY <1>2, <1>3, <1>6, <1>7 DEF Blanks, Blank

\* A request over UDP leaves a later store, and its reply is cut into frames.
LEMMA RunMessageType ==
    ASSUME menu \in DOMAIN Menus, store \in [Keys -> Entries], now \in Nat,
           NEW acc \in [store : Laters(store), out : SUBSET Replies], NEW id \in Ids,
           NEW y, y.q = M.udp[id], y.id = id, y.now = now
    PROVE  RunMessage(acc, y) \in [store : Laters(store), out : SUBSET Replies]
<1> DEFINE new == RunAll(M.udp[id].req, acc.store, now).store
           out == acc.out \cup {[to |-> id, frames |-> Frames(M.udp[id].segs)]}
<1>1. acc.store \in Laters(store) /\ acc.out \in SUBSET Replies
  OBVIOUS
<1>2. acc.store \in [Keys -> Entries] /\ Blanks(acc.store)
  BY <1>1 DEF Laters
<1>3. M.udp[id].req \in Requests /\ IsRequest(M.udp[id].req)
  BY MenuFacts
<1>4. new \in Laters(store)
  <2>1. new \in Laters(acc.store)
    BY <1>2, <1>3, RunAllLater
  <2> HIDE DEF new
  <2> QED BY <1>1, <2>1, LatersTwice
<1>5. out \in SUBSET Replies
  BY <1>1 DEF Replies
<1>6. RunMessage(acc, y) = [store |-> new, out |-> out]
  BY Zenon DEF RunMessage
<1> HIDE DEF new, out
<1> QED BY <1>4, <1>5, <1>6

\* The requests of a read leave a later store, and their replies are cut into
\* frames.
LEMMA RunBatchType ==
    ASSUME menu \in DOMAIN Menus, store \in [Keys -> Entries], Blanks(store), now \in Nat,
           udp.out \in SUBSET Replies, NEW runs \in Seq(RunsOf)
    PROVE  RunBatch(runs) \in [store : Laters(store), out : SUBSET Replies]
<1> DEFINE seq  == [i \in DOMAIN runs |-> [q |-> M.udp[runs[i].id], id |-> runs[i].id, now |-> now]]
           base == [store |-> store, out |-> udp.out]
           T    == [store : Laters(store), out : SUBSET Replies]
           n    == Len(runs)
           S    == [i \in 0..n |-> T]
<1>1. n \in Nat /\ DOMAIN runs = 1..n /\ DOMAIN seq = 1..n
  OBVIOUS
<1>2. base \in S[0] /\ S[n] = T
  <2>1. store \in Laters(store)
    BY SelfLaters
  <2>2. 0 \in 0..n /\ n \in 0..n
    <3>1. n \in Nat
      BY <1>1
    <3> HIDE DEF n
    <3> QED BY <3>1
  <2> HIDE DEF n
  <2> QED BY <2>1, <2>2
<1>3. ASSUME NEW i \in 1..n, NEW acc \in S[i - 1] PROVE RunMessage(acc, seq[i]) \in S[i]
  <2>1. S[i - 1] = T /\ S[i] = T /\ i \in DOMAIN runs
    <3>1. n \in Nat /\ DOMAIN runs = 1..n
      BY <1>1
    <3> HIDE DEF n, T
    <3>2. i \in 0..n /\ i - 1 \in 0..n
      BY <3>1
    <3> QED BY <3>1, <3>2
  <2>2. runs[i].id \in Ids
    <3>1. runs[i] \in RunsOf
      BY <2>1
    <3> QED BY <3>1 DEF RunsOf, Ids
  <2>3. seq[i].q = M.udp[runs[i].id] /\ seq[i].id = runs[i].id /\ seq[i].now = now
    BY <2>1
  <2> HIDE DEF seq, S
  <2>4. RunMessage(acc, seq[i]) \in T
    BY <1>3, <2>1, <2>2, <2>3, RunMessageType
  <2> QED BY <2>1, <2>4
<1> HIDE DEF S, seq, base, T
<1>4. BatchFold!Fold(base, seq) \in S[n]
  BY <1>1, <1>2, <1>3, BatchFold!FoldStays
<1>5. FoldLeft(RunMessage, base, seq) = BatchFold!Fold(base, seq)
  BY Zenon DEF BatchFold!Fold, BatchFold!Iter, BatchFold!IsIter, FoldLeft, MapThenFoldSet, Max,
               BatchFold!Top
<1>6. RunBatch(runs) = FoldLeft(RunMessage, base, seq)
  BY DEF RunBatch, base, seq
<1> QED BY <1>2, <1>4, <1>5, <1>6 DEF T

-----------------------------------------------------------------------------
(* The inductive invariant *)

Connections ==
    [buf : Seq(DOMAIN M.calls), r : {0} \cup DOMAIN M.calls, cas : Nat, x : Progress,
     last : {0} \cup DOMAIN M.calls, open : BOOLEAN, seen : [Keys -> [cas : Nat, data : Data]]]

Types ==
    /\ menu \in DOMAIN Menus /\ now \in Nat /\ left \in Nat
    /\ store \in [Keys -> Entries] /\ Blanks(store)
    /\ conn \in [Conns -> Connections]

SocketOK ==
    /\ net \in [M.frames -> Nat] /\ sav \in Saves
    /\ udp \in [run : Seq(RunsOf), out : SUBSET Replies, spin : BOOLEAN]

\* a connection that runs a request has answered nothing yet, and saved
\* values that are the entries' own as long as these keep their numbers
Running(con, st) ==
    LET q == [M.calls[con.r] EXCEPT !.cas = con.cas]
    IN  /\ con.r # 0 <=> con.x.next # 0
        /\ con.r # 0 => con.last = 0 /\ WithKeys(q) /\ Runs(q, st, con.x)

\* what a client was told with the number of the entry is the entry
Known(con, st) ==
    \A k \in Keys : con.seen[k].cas # 0 => Told(st[k], con.seen[k].cas, con.seen[k].data)

\* the request that ended last has its whole answer
Ended(con) ==
    con.last # 0 /\ M.calls[con.last].cmd \notin Keyless => Finished(M.calls[con.last], con.x.out)

Closed(con) == ~con.open => con.buf = <<>>

ConnOK(con, st) == Running(con, st) /\ Known(con, st) /\ Ended(con) /\ Closed(con)

IInv == Types /\ SocketOK /\ \A c \in Conns : ConnOK(conn[c], store)

\* What holds of a connection holds of it with a later store: a step of
\* another connection, of the socket or of another process does not make what
\* a client was told untrue.
LEMMA ConnLater ==
    ASSUME NEW con \in Connections, NEW st \in [Keys -> Entries], NEW new \in Laters(st),
           ConnOK(con, st)
    PROVE  ConnOK(con, new)
<1> DEFINE q == [M.calls[con.r] EXCEPT !.cas = con.cas]
<1>1. new \in [Keys -> Entries] /\ AllLater(st, new)
  BY DEF Laters
<1>2. con.x \in Progress /\ con.x.part \in Seq(Answer) /\ con.seen \in [Keys -> [cas : Nat, data : Data]]
  BY DEF Connections, Progress
<1>3. Running(con, new)
  <2>1. /\ con.r # 0 <=> con.x.next # 0
        /\ con.r # 0 => con.last = 0 /\ WithKeys(q) /\ Runs(q, st, con.x)
    BY DEF ConnOK, Running
  <2> HIDE DEF q
  <2>2. con.r # 0 => Runs(q, new, con.x)
    BY <1>1, <1>2, <2>1, SavedLater DEF Runs
  <2> QED BY <2>1, <2>2 DEF Running, q
<1>4. Known(con, new)
  <2>1. ASSUME NEW k \in Keys, con.seen[k].cas # 0
        PROVE  Told(new[k], con.seen[k].cas, con.seen[k].data)
    <3>1. Told(st[k], con.seen[k].cas, con.seen[k].data)
      BY <2>1 DEF ConnOK, Known
    <3>2. con.seen[k].cas \in Nat /\ st[k] \in Entries /\ new[k] \in Entries /\ Later(st[k], new[k])
      BY <1>1, <1>2 DEF AllLater
    <3> QED BY <3>1, <3>2, ToldLater
  <2> QED BY <2>1 DEF Known
<1> QED BY <1>3, <1>4 DEF ConnOK

LearnFold == INSTANCE FoldTheorems WITH Op <- LearnOne

\* what a client may have seen of the store st
Views(st) == {seen \in [Keys -> [cas : Nat, data : Data]] :
                 \A k \in Keys : seen[k].cas # 0 => Told(st[k], seen[k].cas, seen[k].data)}

\* A client that learns one true answer knows what is true.
LEMMA LearnOneKnown ==
    ASSUME NEW st, NEW q, WithKeys(q), NEW seen \in Views(st), NEW a \in Answer, Truth(q, st, a),
           NEW y, y.q = q, y.a = a
    PROVE  LearnOne(seen, y) \in Views(st)
<1>1. /\ seen \in [Keys -> [cas : Nat, data : Data]]
      /\ \A k \in Keys : seen[k].cas # 0 => Told(st[k], seen[k].cas, seen[k].data)
  BY DEF Views
<1>2. ASSUME NEW k \in Keys, NEW d \in Data, Told(st[k], a.cas, d)
      PROVE  [seen EXCEPT ![k] = [cas |-> a.cas, data |-> d]] \in Views(st)
  <2> DEFINE v == [cas |-> a.cas, data |-> d]
  <2>1. v \in [cas : Nat, data : Data] /\ v.cas = a.cas /\ v.data = d
    BY DEF Answer
  <2> HIDE DEF v
  <2> QED BY <1>1, <1>2, <2>1 DEF Views
<1>3. 1 \in DOMAIN q.keys /\ \A i \in DOMAIN q.keys : q.keys[i] \in Keys
  BY OneKey
<1>4. q.val \in Data /\ a.data \in Data
  BY DEF WithKeys, Requests, Answer, Data
<1>5. CASE a.cas = 0 \/ Untold(q)
  <2>1. LearnOne(seen, y) = seen
    BY Zenon, <1>5 DEF LearnOne
  <2> QED BY <2>1
<1>6. CASE ~(a.cas = 0 \/ Untold(q)) /\ a.st \in {"value", "number"}
  <2> DEFINE i == IF a.key = 0 THEN 1 ELSE a.key
  <2>1. LearnOne(seen, y) = [seen EXCEPT ![q.keys[i]] = [cas |-> a.cas, data |-> a.data]]
    BY Zenon, <1>6 DEF LearnOne
  <2>2. a.key \in {0} \cup DOMAIN q.keys /\ Told(st[q.keys[i]], a.cas, a.data)
    BY <1>6 DEF Truth
  <2>3. i \in DOMAIN q.keys
    BY <1>3, <2>2
  <2> DEFINE k == q.keys[i]
             d == a.data
  <2>4. k \in Keys /\ d \in Data /\ Told(st[k], a.cas, d)
    BY <1>3, <1>4, <2>2, <2>3
  <2> HIDE DEF i, k, d
  <2>5. [seen EXCEPT ![k] = [cas |-> a.cas, data |-> d]] \in Views(st)
    BY <1>2, <2>4
  <2> QED BY <2>1, <2>5 DEF k, d
<1>7. CASE ~(a.cas = 0 \/ Untold(q)) /\ a.st \notin {"value", "number"}
  <2>1. LearnOne(seen, y) = [seen EXCEPT ![q.keys[1]] = [cas |-> a.cas, data |-> q.val]]
    BY Zenon, <1>7 DEF LearnOne
  <2>2. Told(st[q.keys[1]], a.cas, q.val)
    BY <1>7 DEF Truth
  <2> DEFINE k == q.keys[1]
             d == q.val
  <2>3. k \in Keys /\ d \in Data /\ Told(st[k], a.cas, d)
    BY <1>3, <1>4, <2>2
  <2> HIDE DEF k, d
  <2>4. [seen EXCEPT ![k] = [cas |-> a.cas, data |-> d]] \in Views(st)
    BY <1>2, <2>3
  <2> QED BY <2>1, <2>4 DEF k, d
<1> QED BY <1>5, <1>6, <1>7

\* A client that learns true answers knows what is true.
LEMMA LearnKnown ==
    ASSUME NEW st, NEW q, WithKeys(q), NEW seen \in Views(st), NEW out \in Seq(Answer),
           \A j \in DOMAIN out : Truth(q, st, out[j])
    PROVE  Learn(seen, q, out) \in Views(st)
<1> DEFINE seq == [i \in DOMAIN out |-> [q |-> q, a |-> out[i]]]
           n   == Len(out)
           V   == Views(st)
           S   == [i \in 0..n |-> V]
<1>1. n \in Nat /\ DOMAIN out = 1..n /\ DOMAIN seq = 1..n
  OBVIOUS
<1>2. seen \in S[0] /\ S[n] = V
  <2>1. n \in Nat
    BY <1>1
  <2> HIDE DEF n, V
  <2>2. 0 \in 0..n /\ n \in 0..n
    BY <2>1
  <2> QED BY <2>2 DEF V
<1>3. ASSUME NEW i \in 1..n, NEW sn \in S[i - 1] PROVE LearnOne(sn, seq[i]) \in S[i]
  <2>1. i \in DOMAIN out
    BY <1>1
  <2>2. S[i - 1] = V /\ S[i] = V
    <3>1. n \in Nat
      BY <1>1
    <3> HIDE DEF n, V
    <3>2. i \in 0..n /\ i - 1 \in 0..n
      BY <3>1
    <3> QED BY <3>2
  <2>3. seq[i].q = q /\ seq[i].a = out[i]
    BY <2>1
  <2>4. out[i] \in Answer /\ Truth(q, st, out[i])
    BY <2>1
  <2> HIDE DEF seq, S
  <2>5. LearnOne(sn, seq[i]) \in V
    BY <1>3, <2>2, <2>3, <2>4, LearnOneKnown
  <2> QED BY <2>2, <2>5
<1> HIDE DEF S, seq, V
<1>4. LearnFold!Fold(seen, seq) \in S[n]
  BY <1>1, <1>2, <1>3, LearnFold!FoldStays
<1>5. FoldLeft(LearnOne, seen, seq) = LearnFold!Fold(seen, seq)
  BY Zenon DEF LearnFold!Fold, LearnFold!Iter, LearnFold!IsIter, FoldLeft, MapThenFoldSet, Max,
               LearnFold!Top
<1>6. Learn(seen, q, out) = FoldLeft(LearnOne, seen, seq)
  BY DEF Learn, seq
<1> QED BY <1>2, <1>4, <1>5, <1>6 DEF V

-----------------------------------------------------------------------------
(* The menu stays *)

\* The menu is the same in every state of a behaviour.
LEMMA SameMenu ==
    ASSUME menu' = menu
    PROVE  /\ M' = M /\ Ids' = Ids /\ Messages' = Messages /\ Saves' = Saves
           /\ RunsOf' = RunsOf /\ Replies' = Replies /\ Connections' = Connections
<1>1. M' = M
  BY DEF M
<1>2. Ids' = Ids
  BY <1>1 DEF Ids
<1>3. Messages' = Messages
  BY <1>1, <1>2 DEF Messages, Total
<1>4. Saves' = Saves
  BY <1>3 DEF Saves
<1>5. RunsOf' = RunsOf
  BY <1>1, <1>2 DEF RunsOf, Whole, Total
<1>6. Replies' = Replies
  BY <1>1, <1>2 DEF Replies
<1>7. Connections' = Connections
  BY <1>1 DEF Connections
<1> QED BY <1>1, <1>2, <1>3, <1>4, <1>5, <1>6, <1>7

\* A connection with the same menu.
LEMMA SameConn ==
    ASSUME menu' = menu, NEW c, ConnOK(conn'[c], store') PROVE ConnOK(conn[c], store)'
<1>1. M' = M
  BY SameMenu
<1> QED BY <1>1 DEF ConnOK, Running, Known, Ended, Closed

\* A socket with the same menu.
LEMMA SameSockets ==
    ASSUME menu' = menu, SocketOK, net' \in [M.frames -> Nat], sav' \in Saves,
           udp' \in [run : Seq(RunsOf), out : SUBSET Replies, spin : BOOLEAN]
    PROVE  SocketOK'
BY SameMenu DEF SocketOK

\* A step of one connection, with a later store, keeps the invariant.
LEMMA ConnStep ==
    ASSUME IInv, UNCHANGED <<now, menu, udpvars>>, left' \in Nat, store' \in Laters(store),
           NEW c \in Conns, NEW con \in Connections, conn' = [conn EXCEPT ![c] = con],
           ConnOK(con, store')
    PROVE  IInv'
<1>1. /\ menu' = menu /\ now' = now /\ net' = net /\ sav' = sav /\ udp' = udp
  BY DEF udpvars
<1>2. Types'
  <2>1. conn' \in [Conns -> Connections]
    BY DEF IInv, Types
  <2>2. store' \in [Keys -> Entries] /\ Blanks(store')
    BY DEF Laters
  <2> QED BY <1>1, <2>1, <2>2, SameMenu DEF IInv, Types, Blanks
<1>3. SocketOK'
  BY <1>1, SameSockets DEF IInv, SocketOK
<1>4. ASSUME NEW d \in Conns PROVE ConnOK(conn[d], store)'
  <2>1. ConnOK(conn'[d], store')
    <3>1. CASE d = c
      BY <3>1 DEF IInv, Types
    <3>2. CASE d # c
      <4>1. conn'[d] = conn[d] /\ conn[d] \in Connections
        BY <3>2 DEF IInv, Types
      <4>2. ConnOK(conn[d], store) /\ store \in [Keys -> Entries]
        BY DEF IInv, Types
      <4> QED BY <4>1, <4>2, ConnLater
    <3> QED BY <3>1, <3>2
  <2> QED BY <1>1, <2>1, SameConn
<1> QED BY <1>2, <1>3, <1>4 DEF IInv

\* A step that leaves the connections, with a later store, keeps the
\* invariant.
LEMMA StoreStep ==
    ASSUME IInv, UNCHANGED <<menu, conn>>, now' \in Nat, left' \in Nat, store' \in Laters(store),
           SocketOK'
    PROVE  IInv'
<1>1. Types'
  <2>1. store' \in [Keys -> Entries] /\ Blanks(store')
    BY DEF Laters
  <2> QED BY <2>1, SameMenu DEF IInv, Types, Blanks
<1>2. ASSUME NEW d \in Conns PROVE ConnOK(conn[d], store)'
  <2>1. ConnOK(conn[d], store) /\ conn[d] \in Connections /\ store \in [Keys -> Entries]
    BY DEF IInv, Types
  <2>2. ConnOK(conn[d], store')
    BY <2>1, ConnLater
  <2> QED BY <2>2, SameConn
<1> QED BY <1>1, <1>2 DEF IInv

-----------------------------------------------------------------------------
(* The steps of a connection *)

\* A request that is sent keeps the invariant.
LEMMA SendInv ==
    ASSUME IInv, NEW c \in Conns, NEW r \in DOMAIN M.calls, Send(c, r) PROVE IInv'
<1> DEFINE con == [conn[c] EXCEPT !.buf = Append(@, r)]
<1>1. conn[c] \in Connections /\ ConnOK(conn[c], store) /\ left \in Nat
      /\ store \in [Keys -> Entries] /\ Blanks(store)
  BY DEF IInv, Types
<1>2. /\ left > 0 /\ left' = left - 1 /\ conn[c].open /\ conn' = [conn EXCEPT ![c] = con]
      /\ UNCHANGED <<store, now, menu, udpvars>>
  BY DEF Send
<1>3. /\ con \in Connections
      /\ con.r = conn[c].r /\ con.cas = conn[c].cas /\ con.x = conn[c].x /\ con.last = conn[c].last
      /\ con.open = conn[c].open /\ con.seen = conn[c].seen
  <2> DEFINE D   == DOMAIN M.calls
             buf == Append(conn[c].buf, r)
  <2>1. conn[c].buf \in Seq(D) /\ r \in D
    BY <1>1 DEF Connections
  <2>2. buf \in Seq(DOMAIN M.calls)
    <3>1. buf \in Seq(D)
      <4> HIDE DEF D
      <4> QED BY <2>1
    <3> QED BY <3>1
  <2> HIDE DEF buf, D
  <2>3. con = [conn[c] EXCEPT !.buf = buf]
    BY DEF buf
  <2> QED BY <1>1, <2>2, <2>3 DEF Connections
<1> HIDE DEF con
<1>4. ConnOK(con, store)
  BY <1>1, <1>2, <1>3 DEF ConnOK, Running, Known, Ended, Closed
<1>5. store' = store /\ store \in Laters(store)
  BY <1>1, <1>2, SelfLaters
<1>6. left' \in Nat
  BY <1>1, <1>2
<1> QED BY <1>2, <1>3, <1>4, <1>5, <1>6, ConnStep

\* A request that begins has answered and saved nothing; a cas that it
\* carries is the number its client saw last.
LEMMA BeginsOK ==
    ASSUME menu \in DOMAIN Menus, NEW r \in DOMAIN M.calls, M.calls[r].cmd \notin Keyless, NEW n \in Nat,
           NEW cas, cas = IF M.calls[r].cas = Seen THEN n ELSE M.calls[r].cas, NEW st
    PROVE  LET q == [M.calls[r] EXCEPT !.cas = cas]
           IN  cas \in Nat /\ WithKeys(q) /\ Runs(q, st, Begin)
<1> DEFINE q0 == M.calls[r]
           q  == [q0 EXCEPT !.cas = cas]
<1>1. q0 \in Requests /\ IsRequest(q0)
  BY MenuFacts
<1>2. cas \in Nat
  BY <1>1 DEF Requests
<1>3. q \in Requests /\ q.keys = q0.keys /\ q.cmd = q0.cmd /\ q.proto = q0.proto /\ q.cas = cas
  BY <1>1, <1>2 DEF Requests
<1>4. Seen # 0
  BY MemcachedAssumption
<1>5. q0.keys \in Seq(Keys) \ {<<>>} /\ (cas # 0 => q0.cas # 0)
  BY <1>1, <1>4 DEF IsRequest
<1> HIDE DEF q0, q
<1>6. WithKeys(q)
  BY <1>1, <1>3, <1>5 DEF WithKeys, IsRequest, q0
<1>7. 1 \in DOMAIN q.keys
  BY <1>6, OneKey
<1>8. Runs(q, st, Begin)
  <2>1. Begin.next = 1 /\ Begin.out = <<>> /\ Begin.part = <<>>
    BY DEF Begin
  <2>2. DOMAIN <<>> = {}
    OBVIOUS
  <2>3. Saved(q, st, <<>>, 1)
    BY <2>2 DEF Saved
  <2> QED BY <1>7, <2>1, <2>3 DEF Runs
<1> QED BY <1>2, <1>6, <1>8 DEF q, q0

\* A request that is parsed keeps the invariant (MemcachedMsg::unpack and
\* exec).
LEMMA ParseInv ==
    ASSUME IInv, NEW c \in Conns, Parse(c) PROVE IInv'
<1> DEFINE con0 == conn[c]
           r    == Head(con0.buf)
           q    == M.calls[r]
           more == Tail(con0.buf)
           over == [con0 EXCEPT !.buf = more, !.last = r]
           cas  == IF q.cas = Seen THEN con0.seen[q.keys[1]].cas ELSE q.cas
           con  == CASE q.cmd = "bad"  -> [over EXCEPT !.buf = IF q.proto = "text" THEN <<>> ELSE more,
                                                       !.x.out = <<A("error")>>]
                     [] q.cmd = "quit" -> [over EXCEPT !.open = FALSE, !.buf = <<>>,
                                                       !.x.out = IF q.proto = "bin" THEN <<A("ok")>> ELSE <<>>]
                     [] q.cmd = "version" -> [over EXCEPT !.x.out = <<A("ok")>>]
                     [] OTHER -> [con0 EXCEPT !.buf = more, !.r = r, !.cas = cas, !.x = Begin, !.last = 0]
<1>1. con0 \in Connections /\ ConnOK(con0, store) /\ left \in Nat /\ menu \in DOMAIN Menus
      /\ store \in [Keys -> Entries] /\ Blanks(store)
  BY DEF IInv, Types
<1>2. /\ con0.open /\ con0.r = 0 /\ con0.buf # <<>> /\ conn' = [conn EXCEPT ![c] = con]
      /\ UNCHANGED <<store, now, menu, left, udpvars>>
  BY DEF Parse
<1>3. /\ con0.buf \in Seq(DOMAIN M.calls) /\ r \in DOMAIN M.calls /\ more \in Seq(DOMAIN M.calls)
      /\ con0.x \in Progress /\ con0.x.next = 0 /\ con0.x.out \in Seq(Answer)
  <2> DEFINE D == DOMAIN M.calls
  <2>1. con0.buf \in Seq(D) /\ con0.buf # <<>>
    BY <1>1, <1>2 DEF Connections
  <2>2. Head(con0.buf) \in D /\ Tail(con0.buf) \in Seq(D)
    <3> DEFINE s == con0.buf
    <3>1. s \in Seq(D) /\ s # <<>>
      BY <2>1
    <3> HIDE DEF s, D
    <3>2. Head(s) \in D /\ Tail(s) \in Seq(D)
      BY <3>1
    <3> QED BY <3>2 DEF s
  <2>3. con0.x \in Progress /\ con0.x.next = 0 /\ con0.x.out \in Seq(Answer)
    BY <1>1, <1>2 DEF Connections, Progress, ConnOK, Running
  <2> QED BY <2>1, <2>2, <2>3
<1>4. /\ A("error") \in Answer /\ A("ok") \in Answer
  BY AnswerType DEF Statuses
<1> HIDE DEF con0, r, more
<1>5. over \in Connections /\ over.buf = more /\ over.last = r /\ over.r = 0 /\ over.x = con0.x
      /\ over.seen = con0.seen /\ over.open = con0.open /\ over.cas = con0.cas
  BY <1>1, <1>2, <1>3 DEF Connections
<1>6. con \in Connections /\ ConnOK(con, store)
  <2>0. ASSUME NEW out \in Seq(Answer), NEW buf \in Seq(DOMAIN M.calls), NEW open \in BOOLEAN,
               ~open => buf = <<>>, q.cmd \in Keyless,
               con = [over EXCEPT !.buf = buf, !.open = open, !.x.out = out]
        PROVE  con \in Connections /\ ConnOK(con, store)
    <3> DEFINE x == [con0.x EXCEPT !.out = out]
    <3>1. x \in Progress /\ x.next = 0 /\ x.out = out
      BY <1>3 DEF Progress
    <3> HIDE DEF x, con, over
    <3>2. con = [over EXCEPT !.buf = buf, !.open = open, !.x = x]
      BY <1>5, <2>0 DEF x
    <3>3. con \in Connections /\ con.r = 0 /\ con.last = r /\ con.x = x /\ con.seen = con0.seen
          /\ con.open = open /\ con.buf = buf
      BY <1>5, <3>1, <3>2 DEF Connections
    <3>4. ConnOK(con, store)
      BY <1>1, <2>0, <3>1, <3>3 DEF ConnOK, Running, Known, Ended, Closed
    <3> QED BY <3>3, <3>4
  <2>1. CASE q.cmd = "bad"
    <3> DEFINE out == <<A("error")>>
               buf == IF q.proto = "text" THEN <<>> ELSE more
    <3>1. con = [over EXCEPT !.buf = buf, !.open = TRUE, !.x.out = out]
      <4>1. over = [over EXCEPT !.open = TRUE]
        BY <1>2, <1>5 DEF Connections
      <4>2. con = [over EXCEPT !.buf = buf, !.x.out = out]
        BY <2>1
      <4> HIDE DEF over, con
      <4> QED BY <1>5, <4>1, <4>2 DEF Connections
    <3>2. out \in Seq(Answer) /\ q.cmd \in Keyless
      BY <1>4, <2>1 DEF Keyless
    <3>3. buf \in Seq(DOMAIN M.calls)
      <4>1. buf = <<>> \/ buf = more
        BY Zenon
      <4> HIDE DEF buf, q
      <4>2. <<>> \in Seq(DOMAIN M.calls)
        OBVIOUS
      <4> QED BY <1>3, <4>1, <4>2, Zenon
    <3> HIDE DEF out, con, over, buf
    <3> QED BY <2>0, <3>1, <3>2, <3>3
  <2>2. CASE q.cmd = "quit"
    <3> DEFINE out == IF q.proto = "bin" THEN <<A("ok")>> ELSE <<>>
               buf == <<>>
    <3>1. con = [over EXCEPT !.buf = buf, !.open = FALSE, !.x.out = out]
      BY <1>5, <2>2 DEF Connections
    <3>2. out \in Seq(Answer) /\ buf \in Seq(DOMAIN M.calls) /\ q.cmd \in Keyless
      BY <1>4, <2>2 DEF Keyless
    <3> HIDE DEF out, con, over
    <3> QED BY <2>0, <3>1, <3>2
  <2>3. CASE q.cmd = "version"
    <3> DEFINE out == <<A("ok")>>
    <3>1. con = [over EXCEPT !.buf = more, !.open = TRUE, !.x.out = out]
      <4>1. con = [over EXCEPT !.x.out = out]
        BY <2>3
      <4> HIDE DEF over, con
      <4> QED BY <1>2, <1>5, <4>1 DEF Connections
    <3>2. out \in Seq(Answer) /\ q.cmd \in Keyless
      BY <1>4, <2>3 DEF Keyless
    <3> HIDE DEF out, con, over
    <3> QED BY <1>3, <2>0, <3>1, <3>2
  <2>4. CASE q.cmd \notin Keyless
    <3> DEFINE q2 == [M.calls[r] EXCEPT !.cas = cas]
    <3>1. con = [con0 EXCEPT !.buf = more, !.r = r, !.cas = cas, !.x = Begin, !.last = 0]
      BY <2>4 DEF Keyless
    <3>2. q.keys[1] \in Keys
      <4>1. q \in Requests /\ IsRequest(q)
        BY <1>1, <1>3, MenuFacts
      <4>2. WithKeys(q)
        BY <2>4, <4>1 DEF WithKeys, IsRequest
      <4> QED BY <4>2, OneKey
    <3>3. con0.seen[q.keys[1]].cas \in Nat
      BY <1>1, <3>2 DEF Connections
    <3>4. cas \in Nat /\ WithKeys(q2) /\ Runs(q2, store, Begin)
      BY <1>1, <1>3, <2>4, <3>3, BeginsOK
    <3> HIDE DEF cas, con
    <3>5. Begin \in Progress /\ Begin.next = 1
      BY DEF Begin, Progress
    <3>6. con \in Connections /\ con.r = r /\ con.cas = cas /\ con.x = Begin /\ con.last = 0
          /\ con.seen = con0.seen /\ con.open = con0.open
      BY <1>1, <1>3, <3>1, <3>4, <3>5 DEF Connections
    <3>7. r # 0
      <4>1. M.calls \in Seq(Requests)
        BY <1>1, MenuFacts
      <4> QED BY <1>3, <4>1
    <3>8. ConnOK(con, store)
      BY <1>1, <1>2, <3>4, <3>5, <3>6, <3>7 DEF ConnOK, Running, Known, Ended, Closed
    <3> QED BY <3>6, <3>8
  <2> QED BY <2>1, <2>2, <2>3, <2>4 DEF Keyless
<1> HIDE DEF con
<1>7. store' = store /\ store \in Laters(store) /\ left' \in Nat
  BY <1>1, <1>2, SelfLaters
<1> QED BY <1>2, <1>6, <1>7, ConnStep DEF con0

\* The answer to a request does not depend on the number it carries.
LEMMA FinishedAnyCas ==
    ASSUME NEW r \in Requests, NEW cas, NEW o, Finished([r EXCEPT !.cas = cas], o)
    PROVE  Finished(r, o)
<1> DEFINE q == [r EXCEPT !.cas = cas]
<1>1. q.cmd = r.cmd /\ q.proto = r.proto /\ q.quiet = r.quiet /\ q.keys = r.keys
  BY DEF Requests
<1> HIDE DEF q
<1>2. Mute(q) <=> Mute(r)
  BY <1>1 DEF Mute
<1> QED BY <1>1, <1>2 DEF Finished, q

\* What a step of a request leaves of the store and of its connection.
LEMMA KeyFacts ==
    ASSUME IInv, NEW c \in Conns, Key(c)
    PROVE  LET q   == Req(c)
               x   == conn[c].x
               k   == q.keys[x.next]
               res == Handler(q, Found(store[k], now), x.next, now)
               y   == AfterKey(x, q, res)
               on  == [conn[c] EXCEPT !.x = y]
               off == [on EXCEPT !.last = conn[c].r, !.r = 0, !.cas = 0,
                                 !.seen = Learn(conn[c].seen, q, y.out)]
               con == IF y.next # 0 THEN on ELSE off
           IN  /\ WithKeys(q) /\ Runs(q, store, x) /\ x \in Progress /\ x.next \in DOMAIN q.keys /\ k \in Keys
               /\ HandlerOK(q, Found(store[k], now), x.next, res)
               /\ store' = [store EXCEPT ![k] = res.e] /\ store' \in Laters(store)
               /\ y \in Progress
               /\ conn' = [conn EXCEPT ![c] = con]
               /\ conn[c].r # 0
               /\ UNCHANGED <<now, menu, left, udpvars>>
<1> DEFINE q   == Req(c)
           x   == conn[c].x
           k   == q.keys[x.next]
           res == Handler(q, Found(store[k], now), x.next, now)
           y   == AfterKey(x, q, res)
           on  == [conn[c] EXCEPT !.x = y]
           off == [on EXCEPT !.last = conn[c].r, !.r = 0, !.cas = 0,
                             !.seen = Learn(conn[c].seen, q, y.out)]
           con == IF y.next # 0 THEN on ELSE off
<1>1. /\ conn[c].r # 0 /\ store' = [store EXCEPT ![k] = res.e]
      /\ conn' = [conn EXCEPT ![c] = con]
      /\ UNCHANGED <<now, menu, left, udpvars>>
  BY Zenon DEF Key
<1>2. /\ store \in [Keys -> Entries] /\ Blanks(store) /\ now \in Nat
      /\ conn[c] \in Connections /\ ConnOK(conn[c], store)
  BY DEF IInv, Types
<1>3. WithKeys(q) /\ Runs(q, store, x) /\ x \in Progress /\ x.next \in DOMAIN q.keys
  BY <1>1, <1>2 DEF ConnOK, Running, Req, Connections, Runs
<1> HIDE DEF q, con
<1>4. /\ k \in Keys /\ HandlerOK(q, Found(store[k], now), x.next, res)
      /\ [store EXCEPT ![k] = res.e] \in Laters(store)
  BY <1>2, <1>3, HandlerLater
<1>5. y \in Progress
  BY <1>3, <1>4, KeyStepType
<1> QED BY <1>1, <1>3, <1>4, <1>5 DEF q, con

\* A key of a request that is run keeps the invariant
\* (exec_run_to_completion).
LEMMA KeyInv ==
    ASSUME IInv, NEW c \in Conns, Key(c) PROVE IInv'
<1> DEFINE q   == Req(c)
           x   == conn[c].x
           k   == q.keys[x.next]
           res == Handler(q, Found(store[k], now), x.next, now)
           y   == AfterKey(x, q, res)
           learnt == Learn(conn[c].seen, q, y.out)
           on  == [conn[c] EXCEPT !.x = y]
           off == [on EXCEPT !.last = conn[c].r, !.r = 0, !.cas = 0, !.seen = learnt]
           con == IF y.next # 0 THEN on ELSE off
<1>1. /\ WithKeys(q) /\ Runs(q, store, x) /\ x \in Progress /\ x.next \in DOMAIN q.keys /\ k \in Keys
      /\ HandlerOK(q, Found(store[k], now), x.next, res)
      /\ store' = [store EXCEPT ![k] = res.e] /\ store' \in Laters(store)
      /\ y \in Progress
      /\ conn' = [conn EXCEPT ![c] = con]
      /\ conn[c].r # 0
      /\ UNCHANGED <<now, menu, left, udpvars>>
  BY KeyFacts
<1>2. /\ store \in [Keys -> Entries] /\ left \in Nat /\ menu \in DOMAIN Menus
      /\ conn[c] \in Connections /\ ConnOK(conn[c], store)
  BY DEF IInv, Types
<1>3. q = [M.calls[conn[c].r] EXCEPT !.cas = conn[c].cas]
  BY DEF Req
<1>4. store' \in [Keys -> Entries] /\ AllLater(store, store') /\ store'[k] = res.e
  BY <1>1, <1>2 DEF Laters
<1>5. ConnOK(conn[c], store')
  BY <1>1, <1>2, ConnLater
<1>6. /\ y.next # 0 => Runs(q, store', y)
      /\ y.next = 0 => Finished(q, y.out) /\ \A j \in DOMAIN y.out : Truth(q, store', y.out[j])
  <2> HIDE DEF res, q
  <2> QED BY <1>1, <1>2, <1>4, KeyStep
<1> HIDE DEF q, y, on, off, learnt
<1>7. CASE y.next # 0
  <2>1. on \in Connections /\ on.r = conn[c].r /\ on.cas = conn[c].cas /\ on.last = conn[c].last
        /\ on.x = y /\ on.open = conn[c].open /\ on.seen = conn[c].seen /\ on.buf = conn[c].buf
    BY <1>1, <1>2 DEF Connections, on
  <2>2. on.last = 0
    BY <1>1, <1>2, <2>1 DEF ConnOK, Running
  <2>3. ConnOK(on, store')
    BY <1>1, <1>3, <1>5, <1>6, <1>7, <2>1, <2>2 DEF ConnOK, Running, Known, Ended, Closed
  <2>4. conn' = [conn EXCEPT ![c] = on]
    BY <1>1, <1>7
  <2>5. left' \in Nat /\ UNCHANGED <<now, menu, udpvars>>
    BY <1>1, <1>2
  <2> QED BY <1>1, <2>1, <2>3, <2>4, <2>5, ConnStep
<1>8. CASE y.next = 0
  <2>1. learnt \in Views(store')
    <3>1. conn[c].seen \in Views(store')
      BY <1>2, <1>5 DEF Connections, ConnOK, Known, Views
    <3>2. y.out \in Seq(Answer)
      BY <1>1 DEF Progress
    <3> QED BY <1>1, <1>6, <1>8, <3>1, <3>2, LearnKnown DEF learnt
  <2>2. learnt \in [Keys -> [cas : Nat, data : Data]]
        /\ \A j \in Keys : learnt[j].cas # 0 => Told(store'[j], learnt[j].cas, learnt[j].data)
    BY <2>1 DEF Views
  <2>3. conn[c].r \in DOMAIN M.calls
    BY <1>1, <1>2 DEF Connections
  <2>4. off \in Connections /\ off.r = 0 /\ off.last = conn[c].r
        /\ off.x = y /\ off.open = conn[c].open /\ off.seen = learnt /\ off.buf = conn[c].buf
    <3>1. on \in Connections /\ on.x = y /\ on.open = conn[c].open /\ on.buf = conn[c].buf
      BY <1>1, <1>2 DEF Connections, on
    <3> QED BY <2>2, <2>3, <3>1 DEF Connections, off
  <2>5. Finished(M.calls[conn[c].r], y.out)
    <3>1. M.calls[conn[c].r] \in Requests
      BY <1>2, <2>3, MenuFacts
    <3>2. Finished([M.calls[conn[c].r] EXCEPT !.cas = conn[c].cas], y.out)
      BY <1>3, <1>6, <1>8
    <3> QED BY <3>1, <3>2, FinishedAnyCas
  <2>6. ConnOK(off, store')
    BY <1>5, <1>8, <2>2, <2>4, <2>5 DEF ConnOK, Running, Known, Ended, Closed
  <2>7. conn' = [conn EXCEPT ![c] = off]
    BY <1>1, <1>8
  <2>8. left' \in Nat /\ UNCHANGED <<now, menu, udpvars>>
    BY <1>1, <1>2
  <2> QED BY <1>1, <2>4, <2>6, <2>7, <2>8, ConnStep
<1> QED BY <1>7, <1>8

\* A change of a key by the Redis side of the server keeps the invariant.
LEMMA RedisInv ==
    ASSUME IInv, NEW k \in Keys, Redis(k) PROVE IInv'
<1>1. /\ store \in [Keys -> Entries] /\ Blanks(store) /\ left \in Nat /\ now \in Nat /\ left > 0
      /\ left' = left - 1 /\ UNCHANGED <<now, menu, conn, udpvars>>
  BY DEF IInv, Types, Redis
<1>2. PICK e \in {Item("list", <<1>>, 0, 0, store[k].cas + 1), Missing(store[k].cas + 1)} :
         store' = [store EXCEPT ![k] = e]
  BY DEF Redis
<1>3. store[k] \in Entries /\ store[k].cas \in Nat
  BY <1>1 DEF Entries
<1>4. e \in Entries /\ e.cas = store[k].cas + 1 /\ Blank(e)
  <2>1. CASE e = Missing(store[k].cas + 1)
    <3>1. e \in Entries
      BY <1>3, <2>1 DEF Entries, Missing, Item
    <3> QED BY <2>1, <3>1, MissingBlank
  <2>2. CASE e = Item("list", <<1>>, 0, 0, store[k].cas + 1)
    BY <1>3, <2>2 DEF Entries, Item, Blank
  <2> QED BY <1>2, <2>1, <2>2
<1>5. Later(store[k], e)
  BY <1>3, <1>4 DEF Later
<1>6. store' \in Laters(store)
  BY <1>1, <1>2, <1>4, <1>5, OneLater
<1>7. SocketOK'
  BY <1>1, SameSockets DEF IInv, SocketOK, udpvars
<1>8. left' \in Nat /\ now' \in Nat
  BY <1>1
<1> QED BY <1>1, <1>6, <1>7, <1>8, StoreStep

\* A tick of the clock keeps the invariant: what expires is a later state of
\* the entry.
LEMMA TickInv == ASSUME IInv, Tick PROVE IInv'
<1>1. /\ store \in [Keys -> Entries] /\ Blanks(store) /\ left \in Nat /\ now \in Nat
      /\ now' = now + 1 /\ UNCHANGED <<store, menu, tcpvars, udpvars>>
  BY DEF IInv, Types, Tick
<1>2. store' \in Laters(store) /\ left' = left /\ conn' = conn /\ now' \in Nat
  BY <1>1, SelfLaters DEF tcpvars
<1>3. SocketOK'
  BY <1>1, SameSockets DEF IInv, SocketOK, udpvars
<1> QED BY <1>1, <1>2, <1>3, StoreStep

-----------------------------------------------------------------------------
(* The steps of the socket *)

\* A step of the network leaves the store, the connections and the socket.
LEMMA NetStep ==
    ASSUME IInv, UNCHANGED <<store, now, menu, tcpvars, sav, udp>>, net' \in [M.frames -> Nat]
    PROVE  IInv'
<1>1. /\ store \in [Keys -> Entries] /\ Blanks(store) /\ left' \in Nat /\ now' \in Nat /\ SocketOK
      /\ menu' = menu /\ store' = store /\ conn' = conn /\ sav' = sav /\ udp' = udp
  BY DEF IInv, Types, tcpvars
<1>2. store' \in Laters(store)
  BY <1>1, SelfLaters
<1>3. sav' \in Saves /\ udp' \in [run : Seq(RunsOf), out : SUBSET Replies, spin : BOOLEAN]
  BY <1>1 DEF SocketOK
<1>4. SocketOK'
  BY <1>1, <1>3, SameSockets
<1> QED BY <1>1, <1>2, <1>4, StoreStep

\* A datagram that is sent, lost or duplicated keeps the invariant.
LEMMA NetInv ==
    ASSUME IInv, \/ \E id \in DOMAIN M.udp : ClientSends(id)
                 \/ \E f \in M.frames : Lose(f)
                 \/ \E f \in M.frames : Duplicate(f)
    PROVE  IInv'
<1>1. net \in [M.frames -> Nat]
  BY DEF IInv, SocketOK
<1>2. ASSUME NEW id \in DOMAIN M.udp, ClientSends(id) PROVE IInv'
  <2>1. net' \in [M.frames -> Nat]
    BY <1>1, <1>2 DEF ClientSends
  <2> QED BY <1>2, <2>1, NetStep DEF ClientSends
<1>3. ASSUME NEW f \in M.frames, Lose(f) PROVE IInv'
  <2>1. net[f] \in Nat /\ net[f] > 0 /\ net' = [net EXCEPT ![f] = @ - 1]
    BY <1>1, <1>3 DEF Lose
  <2>2. net[f] - 1 \in Nat
    BY <2>1
  <2>3. net' \in [M.frames -> Nat]
    BY <1>1, <2>1, <2>2
  <2> QED BY <1>3, <2>3, NetStep DEF Lose
<1>4. ASSUME NEW f \in M.frames, Duplicate(f) PROVE IInv'
  <2>1. net' \in [M.frames -> Nat]
    BY <1>1, <1>4 DEF Duplicate
  <2> QED BY <1>4, <2>1, NetStep DEF Duplicate
<1> QED BY <1>2, <1>3, <1>4

\* The copies that a read takes were on their way.
LEMMA TakenType ==
    ASSUME net \in [M.frames -> Nat], NEW n \in Nat, NEW b \in [1..n -> {f \in M.frames : net[f] > 0}],
           \A f \in ToSet(b) : Cardinality({i \in DOMAIN b : b[i] = f}) <= net[f]
    PROVE  [f \in M.frames |-> net[f] - Cardinality({i \in DOMAIN b : b[i] = f})] \in [M.frames -> Nat]
<1> SUFFICES ASSUME NEW f \in M.frames
             PROVE  net[f] - Cardinality({i \in DOMAIN b : b[i] = f}) \in Nat
  OBVIOUS
<1> DEFINE I == {i \in DOMAIN b : b[i] = f}
<1>1. I \subseteq 1..n /\ IsFiniteSet(1..n)
  BY FS_Interval
<1>2. Cardinality(I) \in Nat
  <2>1. IsFiniteSet(I)
    BY <1>1, FS_Subset
  <2> QED BY <2>1, FS_CardinalityType
<1>3. net[f] \in Nat
  OBVIOUS
<1>4. Cardinality(I) <= net[f]
  <2>1. CASE I = {}
    <3>1. Cardinality(I) = 0
      BY <2>1, FS_EmptySet
    <3> QED BY <1>3, <3>1
  <2>2. CASE I # {}
    <3>1. f \in ToSet(b)
      BY <2>2 DEF ToSet
    <3> QED BY <3>1
  <2> QED BY <2>1, <2>2
<1> HIDE DEF I
<1>5. net[f] - Cardinality(I) \in Nat
  BY <1>2, <1>3, <1>4
<1> QED BY <1>5 DEF I

\* A read of the UDP socket keeps the invariant (EvMemcachedUdp::process).
LEMMA ReceiveInv ==
    ASSUME IInv, NEW b \in Batches, Receive(b) PROVE IInv'
<1> DEFINE p == Process(b, sav)
           r == RunBatch(p.run)
<1>1. /\ store \in [Keys -> Entries] /\ Blanks(store) /\ left \in Nat /\ now \in Nat
      /\ menu \in DOMAIN Menus /\ net \in [M.frames -> Nat] /\ sav \in Saves
      /\ udp \in [run : Seq(RunsOf), out : SUBSET Replies, spin : BOOLEAN]
  BY DEF IInv, Types, SocketOK
<1>2. /\ net' = [f \in M.frames |-> net[f] - Cardinality({i \in DOMAIN b : b[i] = f})]
      /\ sav' = p.sav /\ store' = r.store
      /\ udp' = [run |-> udp.run \o p.run, out |-> r.out, spin |-> p.spin]
      /\ now' = now /\ menu' = menu /\ left' = left /\ conn' = conn
  BY Zenon DEF Receive, tcpvars
<1>3. PICK n \in 1..MaxBatch : b \in [1..n -> {f \in M.frames : net[f] > 0}]
  BY DEF Batches
<1>4. n \in Nat /\ \A f \in ToSet(b) : Cardinality({i \in DOMAIN b : b[i] = f}) <= net[f]
  BY DEF Batches
<1>5. net' \in [M.frames -> Nat]
  BY <1>1, <1>2, <1>3, <1>4, TakenType
<1>6. b \in [1..n -> Messages]
  <2>1. M.frames \subseteq Messages
    BY <1>1, MenuFacts
  <2> QED BY <1>3, <2>1
<1>7. p \in Sockets(n)
  BY <1>1, <1>4, <1>6, ProcessType
<1> HIDE DEF p
<1>8. p.sav \in Saves /\ p.spin \in BOOLEAN /\ p.run \in Seq(RunsOf)
  BY <1>7 DEF Sockets
<1>9. r \in [store : Laters(store), out : SUBSET Replies]
  BY <1>1, <1>8, RunBatchType
<1> HIDE DEF r
<1>10. udp' \in [run : Seq(RunsOf), out : SUBSET Replies, spin : BOOLEAN]
  <2> DEFINE run == udp.run \o p.run
  <2>1. run \in Seq(RunsOf)
    BY <1>1, <1>8
  <2> HIDE DEF run
  <2>2. udp' = [run |-> run, out |-> r.out, spin |-> p.spin]
    BY <1>2 DEF run
  <2> QED BY <1>8, <1>9, <2>1, <2>2
<1>11. SocketOK'
  <2>1. sav' \in Saves
    BY <1>2, <1>8
  <2> QED BY <1>2, <1>5, <1>10, <2>1, SameSockets DEF IInv
<1>12. store' \in Laters(store) /\ left' \in Nat /\ now' \in Nat
  BY <1>1, <1>2, <1>9
<1> QED BY <1>2, <1>11, <1>12, StoreStep

-----------------------------------------------------------------------------
(* The invariant *)

\* The initial states satisfy the invariant.
LEMMA InitInv == ASSUME Init PROVE IInv
<1>1. /\ menu \in DOMAIN Menus /\ store = M.store /\ now = FirstNow /\ left = M.len
      /\ conn = [c \in Conns |-> Idle] /\ net = [f \in M.frames |-> 0] /\ sav = <<>>
      /\ udp = [run |-> <<>>, out |-> {}, spin |-> FALSE]
  BY DEF Init
<1>2. /\ M.store \in [Keys -> Entries] /\ Blanks(M.store) /\ M.len \in Nat
  BY <1>1, MenuFacts
<1>3. FirstNow \in Nat
  BY MemcachedAssumption
<1>4. /\ Idle \in Connections /\ Idle.r = 0 /\ Idle.x.next = 0 /\ Idle.last = 0 /\ Idle.open = TRUE
      /\ \A k \in Keys : Idle.seen[k].cas = 0
  <2> DEFINE x == [Begin EXCEPT !.next = 0]
             s == [k \in Keys |-> NotSeen]
  <2>1. x \in Progress /\ x.next = 0
    <3>1. Begin \in Progress
      BY DEF Begin, Progress
    <3> QED BY <3>1 DEF Progress
  <2>2. s \in [Keys -> [cas : Nat, data : Data]] /\ \A k \in Keys : s[k].cas = 0
    BY DEF NotSeen, Data
  <2>3. Idle = [buf |-> <<>>, r |-> 0, cas |-> 0, x |-> x, last |-> 0, open |-> TRUE, seen |-> s]
    BY DEF Idle
  <2>4. <<>> \in Seq(DOMAIN M.calls)
    OBVIOUS
  <2> HIDE DEF x, s
  <2> QED BY <2>1, <2>2, <2>3, <2>4 DEF Connections
<1>5. Types
  BY <1>1, <1>2, <1>3, <1>4 DEF Types
<1>6. SocketOK
  <2>1. sav \in Saves
    <3>1. <<>> \in Seq(Messages \cup {Nothing}) /\ DOMAIN <<>> = {}
      OBVIOUS
    <3> QED BY <1>1, <3>1 DEF Saves
  <2>2. udp \in [run : Seq(RunsOf), out : SUBSET Replies, spin : BOOLEAN]
    <3>1. <<>> \in Seq(RunsOf)
      OBVIOUS
    <3> QED BY <1>1, <3>1
  <2> QED BY <1>1, <2>1, <2>2 DEF SocketOK
<1>7. ASSUME NEW c \in Conns PROVE ConnOK(conn[c], store)
  BY <1>1, <1>4 DEF ConnOK, Running, Known, Ended, Closed
<1> QED BY <1>5, <1>6, <1>7 DEF IInv

\* A step that changes nothing keeps the invariant.
LEMMA StutterInv == ASSUME IInv, UNCHANGED mvars PROVE IInv'
<1>1. UNCHANGED <<store, now, menu, tcpvars, sav, udp>> /\ net' = net
  BY DEF mvars, udpvars
<1>2. net' \in [M.frames -> Nat]
  BY <1>1 DEF IInv, SocketOK
<1> QED BY <1>1, <1>2, NetStep

\* Every step keeps the invariant.
LEMMA NextInv == ASSUME IInv, [Next]_mvars PROVE IInv'
<1>1. ASSUME NEW c \in Conns, NEW r \in DOMAIN M.calls, Send(c, r) PROVE IInv'
  BY <1>1, SendInv
<1>2. ASSUME NEW c \in Conns, Parse(c) PROVE IInv'
  BY <1>2, ParseInv
<1>3. ASSUME NEW c \in Conns, Key(c) PROVE IInv'
  BY <1>3, KeyInv
<1>4. ASSUME NEW k \in Keys, Redis(k) PROVE IInv'
  BY <1>4, RedisInv
<1>5. ASSUME NEW b \in Batches, Receive(b) PROVE IInv'
  BY <1>5, ReceiveInv
<1> QED BY <1>1, <1>2, <1>3, <1>4, <1>5, TickInv, NetInv, StutterInv DEF Next

\* The inductive invariant: what a client was told with the number an entry
\* still has is the entry's data; a request that runs has answered nothing
\* yet, and has saved, for its keys in their order, values that are true
\* while the entries keep their numbers; a request that ended has its whole
\* answer; the socket runs whole requests.
THEOREM Invariant == Spec => []IInv
<1>1. Init => IInv
  BY InitInv
<1>2. IInv /\ [Next]_mvars => IInv'
  BY NextInv
<1> QED BY <1>1, <1>2, PTL DEF Spec

\* A missing key holds nothing, a connection runs a request exactly while it
\* has a key to run, a closed one has nothing buffered, and a saved frame is
\* in the place of its number (exec_key_continue,
\* EvMemcachedService::process, merge_frames).
THEOREM TypeCorrect == Spec => []TypeOK
<1>1. ASSUME IInv PROVE TypeOK
  <2>1. ASSUME NEW k \in Keys PROVE store[k].type = "none" => store[k] = Missing(store[k].cas)
    BY <1>1 DEF IInv, Types, Blanks, Blank
  <2>2. ASSUME NEW c \in Conns
        PROVE  /\ conn[c].r # 0 <=> conn[c].x.next # 0
               /\ conn[c].r # 0 => conn[c].x.next \in DOMAIN M.calls[conn[c].r].keys
               /\ ~conn[c].open => conn[c].buf = <<>>
    <3>1. ConnOK(conn[c], store) /\ conn[c] \in Connections
      BY <1>1 DEF IInv, Types
    <3>2. ASSUME conn[c].r # 0 PROVE conn[c].x.next \in DOMAIN M.calls[conn[c].r].keys
      <4> DEFINE q0 == M.calls[conn[c].r]
                 q  == [q0 EXCEPT !.cas = conn[c].cas]
      <4>1. conn[c].x.next \in DOMAIN q.keys
        BY <3>1, <3>2 DEF ConnOK, Running, Runs
      <4>2. q0 \in Requests
        <5>1. conn[c].r \in DOMAIN M.calls
          BY <3>1, <3>2 DEF Connections
        <5> QED BY <1>1, <5>1, MenuFacts DEF IInv, Types
      <4>3. q.keys = q0.keys
        BY <4>2 DEF Requests
      <4> QED BY <4>1, <4>3
    <3> QED BY <3>1, <3>2 DEF ConnOK, Running, Closed
  <2>3. \A n \in DOMAIN sav : sav[n] = Nothing \/ sav[n].seq = n - 1
    BY <1>1 DEF IInv, SocketOK, Saves
  <2>4. ASSUME NEW f \in M.frames PROVE net[f] >= 0
    <3>1. net[f] \in Nat
      BY <1>1 DEF IInv, SocketOK
    <3> QED BY <3>1
  <2> QED BY <2>1, <2>2, <2>3, <2>4 DEF TypeOK
<1> QED BY <1>1, Invariant, PTL

\* A request that is not quiet ended with an answer, a text retrieval with
\* the values it found in the order of its keys and one END, a quiet store
\* that went well with none, whatever other connections did between its keys;
\* a text INCR and a GAT of several keys are the exceptions that Mute names
\* (exec_run_to_completion, multi_get_send).
THEOREM AnsweredCorrect == Spec => []Answered
<1>1. ASSUME IInv PROVE Answered
  <2>1. ASSUME NEW c \in Conns, conn[c].last # 0, M.calls[conn[c].last].cmd \notin Keyless
        PROVE  Finished(M.calls[conn[c].last], conn[c].x.out)
    BY <1>1, <2>1 DEF IInv, ConnOK, Ended
  <2> QED BY <2>1 DEF Answered, Finished, Keyless
<1> QED BY <1>1, Invariant, PTL

\* A text request and its binary twin leave the same entry of every key of
\* every reachable store; APPEND, PREPEND and INCR of what is no string,
\* which have no twin, are the exceptions (exec_store, exec_bin_store,
\* exec_retr_touch, exec_incr, exec_bin_incr and the others).
THEOREM TextBinaryAgreeCorrect == Spec => []TextBinaryAgree
<1>1. ASSUME IInv PROVE TextBinaryAgree
  <2>1. ASSUME NEW c \in DOMAIN M.calls, NEW e, M.calls[c].proto = "text", M.calls[c].cmd \notin Keyless,
               NEW b \in Twin(M.calls[c]),
               ~(M.calls[c].cmd \in {"incr", "decr"} /\ IsNew(e))
        PROVE  Handler(M.calls[c], e, 1, now).e = Handler(b, e, 1, now).e
    <3>1. M.calls[c] \in Requests /\ IsRequest(M.calls[c])
      BY <1>1, MenuFacts DEF IInv, Types
    <3>2. WithKeys(M.calls[c])
      BY <2>1, <3>1 DEF WithKeys, IsRequest
    <3> QED BY <2>1, <3>2, TwinsAgree
  <2> QED BY <2>1 DEF TextBinaryAgree, Keyless
<1> QED BY <1>1, Invariant, PTL

\* Every request that the UDP socket ran was the whole of what its client
\* sent: all of its frames, each once and in order, whatever the network
\* lost, duplicated or reordered and however the datagrams were split over
\* reads (merge_frames, EvMemcachedUdp::process).
THEOREM WholeRequestsCorrect == Spec => []WholeRequests
<1>1. ASSUME IInv PROVE WholeRequests
  <2>1. ASSUME NEW i \in DOMAIN udp.run
        PROVE  udp.run[i].body = [n \in 1..Total(udp.run[i].id) |-> <<udp.run[i].id, n - 1>>]
    <3>1. udp.run \in Seq(RunsOf)
      BY <1>1 DEF IInv, SocketOK
    <3>2. udp.run[i] \in RunsOf
      BY <3>1
    <3>3. udp.run[i].body = Whole(udp.run[i].id)
      BY <3>2 DEF RunsOf
    <3> QED BY <3>3 DEF Whole
  <2> QED BY <2>1 DEF WholeRequests
<1> QED BY <1>1, Invariant, PTL

\* A store with a number that was not refused found the number it carried.
LEMMA StoredFound ==
    ASSUME NEW r, WithKeys(r), r.cmd \in Stores, r.cas # 0, NEW e \in Entries, NEW t \in Nat,
           Store(r, e, t).out # <<>>, Store(r, e, t).out[1].st = "stored"
    PROVE  e.type # "none" /\ e.cas = r.cas
<1> DEFINE no == Refusal(r, e)
<1>1. r \in Requests
  BY OneKey
<1>2. no = "none"
  <2> SUFFICES ASSUME no # "none" PROVE FALSE
    OBVIOUS
  <2>1. no \in {"not_found", "not_stored", "exists", "none"}
    BY Zenon DEF Refusal
  <2>2. no \in Statuses
    BY <2>1 DEF Statuses
  <2>3. A(no) \in Answer /\ A(no).st = no
    BY <2>2, AnswerType
  <2>4. Store(r, e, t).out = Say(r, A(no))
    BY DEF Store, Result
  <2> HIDE DEF no
  <2>5. Store(r, e, t).out = <<A(no)>>
    BY <2>4 DEF Say
  <2>6. Store(r, e, t).out[1] = A(no)
    BY <2>5
  <2>7. no = "stored"
    BY <2>3, <2>6
  <2> QED BY <2>1, <2>7
<1>3. DoCas(r)
  BY DEF DoCas
<1>4. r.cas = IF e.type = "none" THEN 0 ELSE e.cas
  BY <1>2, <1>3, Zenon DEF Refusal
<1> QED BY <1>4

\* A request ends only by a step of its connection.
LEMMA CasStep == ASSUME IInv, Next, NEW c \in Conns, conn[c].r # 0, conn'[c].r = 0 PROVE Key(c)
<1>1. conn \in [Conns -> Connections]
  BY DEF IInv, Types
<1>2. ASSUME conn' = conn PROVE FALSE
  BY <1>2
<1>3. ASSUME NEW d \in Conns, NEW con, conn' = [conn EXCEPT ![d] = con], d # c PROVE FALSE
  BY <1>1, <1>3
<1>4. ASSUME NEW d \in Conns, NEW r \in DOMAIN M.calls, Send(d, r) PROVE FALSE
  <2>1. conn' = [conn EXCEPT ![d].buf = Append(@, r)]
    BY <1>4 DEF Send
  <2>2. conn'[c].r = conn[c].r
    BY <1>1, <2>1 DEF Connections
  <2> QED BY <2>2
<1>5. ASSUME NEW d \in Conns, Parse(d) PROVE FALSE
  <2>1. d # c
    BY <1>5 DEF Parse
  <2>2. \E con : conn' = [conn EXCEPT ![d] = con]
    BY <1>5, Zenon DEF Parse
  <2> QED BY <1>3, <2>1, <2>2
<1>6. ASSUME NEW d \in Conns, Key(d), d # c PROVE FALSE
  <2>1. \E con : conn' = [conn EXCEPT ![d] = con]
    BY <1>6, Zenon DEF Key
  <2> QED BY <1>3, <1>6, <2>1
<1>7. ASSUME NEW k \in Keys, Redis(k) PROVE FALSE
  BY <1>2, <1>7 DEF Redis
<1>8. ASSUME Tick PROVE FALSE
  BY <1>2, <1>8 DEF Tick, tcpvars
<1>9. ASSUME NEW id \in DOMAIN M.udp, ClientSends(id) PROVE FALSE
  BY <1>2, <1>9 DEF ClientSends, tcpvars
<1>10. ASSUME NEW f \in M.frames, Lose(f) \/ Duplicate(f) PROVE FALSE
  BY <1>2, <1>10 DEF Lose, Duplicate, tcpvars
<1>11. ASSUME NEW b \in Batches, Receive(b) PROVE FALSE
  BY <1>2, <1>11 DEF Receive, tcpvars
<1> QED BY <1>4, <1>5, <1>6, <1>7, <1>8, <1>9, <1>10, <1>11 DEF Next

\* A request of one key that ends has answered what its handler did.
LEMMA OneKeyEnds ==
    ASSUME NEW q, WithKeys(q), Len(q.keys) = 1, NEW st, NEW x \in Progress, Runs(q, st, x), NEW e,
           NEW res, HandlerOK(q, e, x.next, res)
    PROVE  x.next = 1 /\ AfterKey(x, q, res).out = res.out
<1> DEFINE n == Len(q.keys)
<1>1. x.next \in 1..n /\ n = 1 /\ x.out = <<>> /\ res.ok /\ res.out \in Seq(Answer)
  BY OneKey DEF Runs, HandlerOK, Outcome
<1>2. x.next = 1
  BY <1>1
<1> HIDE DEF n
<1>3. ~(x.next < n) /\ ~(n > 1)
  BY <1>1, <1>2
<1> DEFINE o == x.out \o res.out
           y == [x EXCEPT !.part = @ \o res.part, !.out = o]
           over == [y EXCEPT !.next = 0]
<1>4. o = res.out
  BY <1>1, EmptyFirst
<1>5. AfterKey(x, q, res) = over
  BY <1>1, <1>3, Zenon DEF AfterKey, n
<1> HIDE DEF o
<1>6. over.out = o
  BY DEF Progress
<1> QED BY <1>2, <1>4, <1>5, <1>6

\* A store that ends has answered what its handler did with the entry it
\* found.
LEMMA StoreEnds ==
    ASSUME IInv, NEW c \in Conns, Key(c), Req(c).cmd \in Stores
    PROVE  LET q == Req(c)
               k == q.keys[1]
           IN  WithKeys(q) /\ k \in Keys /\ conn'[c].x.out = Store(q, Found(store[k], now), now).out
<1> DEFINE q   == Req(c)
           x   == conn[c].x
           k   == q.keys[x.next]
           e   == Found(store[k], now)
           res == Handler(q, e, x.next, now)
           y   == AfterKey(x, q, res)
           on  == [conn[c] EXCEPT !.x = y]
           off == [on EXCEPT !.last = conn[c].r, !.r = 0, !.cas = 0, !.seen = Learn(conn[c].seen, q, y.out)]
           con == IF y.next # 0 THEN on ELSE off
<1>1. /\ WithKeys(q) /\ Runs(q, store, x) /\ x \in Progress /\ k \in Keys
      /\ HandlerOK(q, e, x.next, res)
      /\ conn' = [conn EXCEPT ![c] = con]
  BY KeyFacts
<1>2. conn[c] \in Connections /\ conn \in [Conns -> Connections]
  BY DEF IInv, Types
<1> HIDE DEF q
<1>3. Len(q.keys) = 1
  BY <1>1, OneKey DEF Stores, Retrievals, q
<1>4. conn'[c] = con
  <2> HIDE DEF con
  <2> QED BY <1>1, <1>2
<1> HIDE DEF e, res
<1>5. x.next = 1 /\ y.out = res.out
  BY <1>1, <1>3, OneKeyEnds
<1> HIDE DEF y
<1>6. con.x = y
  <2>1. on.x = y
    BY <1>2 DEF Connections
  <2>2. off.x = y
    BY <1>2 DEF Connections
  <2> HIDE DEF on, off
  <2> QED BY <2>1, <2>2
<1> HIDE DEF con, x
<1>7. conn'[c].x.out = res.out
  BY <1>4, <1>5, <1>6
<1>8. res = Store(q, e, now)
  <2>1. res = Handler(q, e, 1, now)
    BY <1>5 DEF res
  <2>2. q.cmd \in Stores
    BY DEF q
  <2> QED BY <2>1, <2>2, Handled
<1> QED BY <1>1, <1>5, <1>7, <1>8 DEF q, e

\* A store with a cas that is answered STORED replaced the very data its
\* client was told with that number, whatever others did to the key in
\* between (exec_store and exec_bin_store: the test of the number, and the
\* number that every change of the data adds to).
THEOREM CasExactCorrect == Spec => CasExact
<1> DEFINE ExactFor(c) ==
          LET q == Req(c)
              k == q.keys[1]
              e == Found(store[k], now)
              o == conn'[c].x.out
          IN  conn[c].r # 0 /\ conn'[c].r = 0 /\ q.cmd \in Stores /\ q.cas # 0
                /\ o # <<>> /\ o[1].st = "stored" /\ conn[c].seen[k].cas = q.cas =>
                  e.data = conn[c].seen[k].data
           Exact == \A c \in Conns : ExactFor(c)
<1>1. ASSUME IInv, Next, NEW c \in Conns PROVE ExactFor(c)
  <2> DEFINE q == Req(c)
             k == q.keys[1]
             e == Found(store[k], now)
             o == conn'[c].x.out
  <2> SUFFICES ASSUME conn[c].r # 0, conn'[c].r = 0, q.cmd \in Stores, q.cas # 0,
                      o # <<>>, o[1].st = "stored", conn[c].seen[k].cas = q.cas
               PROVE  e.data = conn[c].seen[k].data
    OBVIOUS
  <2>1. Key(c)
    BY <1>1, CasStep
  <2>2. WithKeys(q) /\ k \in Keys /\ o = Store(q, e, now).out
    BY <1>1, <2>1, StoreEnds
  <2>3. /\ store \in [Keys -> Entries] /\ now \in Nat /\ Known(conn[c], store)
    BY <1>1 DEF IInv, Types, ConnOK
  <2> HIDE DEF q, o
  <2>4. e \in Entries /\ (e.type # "none" => e = store[k])
    BY <2>2, <2>3, FoundType
  <2> HIDE DEF e, k
  <2>5. e.type # "none" /\ e.cas = q.cas
    BY <2>2, <2>3, <2>4, StoredFound
  <2>6. Told(store[k], conn[c].seen[k].cas, conn[c].seen[k].data)
    BY <2>2, <2>3 DEF Known
  <2> QED BY <2>4, <2>5, <2>6 DEF Told
<1>2. IInv /\ [Next]_mvars => [Exact]_mvars
  <2> HIDE DEF ExactFor
  <2> QED BY <1>1
<1>3. Spec => [][Exact]_mvars
  <2> HIDE DEF Exact
  <2> QED BY <1>2, Invariant, PTL DEF Spec
<1> QED BY <1>3 DEF CasExact

\* Every reply over UDP is cut into frames that are numbered and full but for
\* the last and hold every byte of the reply once and in order, for every
\* size of a frame and of its header (construct_frames).
THEOREM RepliesFramedCorrect == Spec => []RepliesFramed
<1> DEFINE Right(segs, fs) ==
          LET all == FoldLeft(Joined, <<>>, fs)
          IN  /\ \A i \in DOMAIN fs : fs[i].seq = i - 1 /\ fs[i].total = Len(fs)
              /\ \A i \in DOMAIN fs : FrameBytes(fs[i]) <= FrameSize
              /\ \A i \in 1..(Len(fs) - 1) : FrameBytes(fs[i]) = FrameSize
              /\ all[1][1] = 1 /\ all[1][2] = 0
              /\ \A i \in 1..(Len(all) - 1) : Follows(segs, all[i], all[i + 1])
              /\ Last(all)[1] = Len(segs) /\ Last(all)[2] + Last(all)[3] = segs[Len(segs)]
<1>1. ASSUME NEW segs \in Seq(Nat \ {0}), segs # <<>> PROVE Right(segs, Frames(segs))
  BY <1>1, FramesRight
<1>2. (\A a \in udp.out : Right(M.udp[a.to].segs, a.frames)) => RepliesFramed
  BY DEF RepliesFramed
<1> HIDE DEF Right
<1>3. ASSUME IInv PROVE RepliesFramed
  <2>1. menu \in DOMAIN Menus /\ udp.out \in SUBSET Replies
    BY <1>3 DEF IInv, Types, SocketOK
  <2>2. ASSUME NEW a \in udp.out PROVE Right(M.udp[a.to].segs, a.frames)
    <3>1. PICK id \in Ids : a = [to |-> id, frames |-> Frames(M.udp[id].segs)]
      BY <2>1 DEF Replies
    <3> DEFINE segs == M.udp[id].segs
    <3>2. segs \in Seq(Nat \ {0}) /\ segs # <<>>
      BY <2>1, MenuFacts
    <3>3. M.udp[a.to].segs = segs /\ a.frames = Frames(segs)
      BY <3>1
    <3> HIDE DEF segs
    <3>4. Right(segs, Frames(segs))
      BY <1>1, <3>2
    <3> QED BY <3>3, <3>4
  <2> QED BY <1>2, <2>2
<1> QED BY <1>3, Invariant, PTL
=============================================================================
