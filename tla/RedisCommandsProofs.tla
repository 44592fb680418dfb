------------------------- MODULE RedisCommandsProofs -------------------------
(***************************************************************************)
(* What is proved of the commands on several keys: MSETNX sets all of its  *)
(* keys or none, and SMOVE neither loses nor doubles a member.  Both rest  *)
(* on the loop over the keys of a command (exec_run_to_completion and      *)
(* exec_key_continue), whose order between the sessions is arbitrary.      *)
(* At the end, what ranges and pops of one key answer, for every value.    *)
(***************************************************************************)
EXTENDS RedisCommands, FiniteSetTheorems, SequenceTheorems, TLAPS

PlusFold == INSTANCE FoldTheorems WITH Op <- PlusOne

-----------------------------------------------------------------------------
(* The loop over the keys of a command *)

\* Which statuses let the other keys of a command run (the test against
\* EXEC_BLOCKED in exec_key_continue): 0 ends MSETNX and SMOVE, 1 and ok do
\* not.
LEMMA Ranks ==
    /\ ~NextKey("abort_zero") /\ NextKey("send_one") /\ NextKey("ok")
<1>1. \A i \in DOMAIN Statuses : Statuses[i] = "abort_zero" => i = 16
  BY DEF Statuses
<1>2. \A i \in DOMAIN Statuses : Statuses[i] = "send_one" => i = 8
  BY DEF Statuses
<1>3. \A i \in DOMAIN Statuses : Statuses[i] = "blocked" => i = 15
  BY DEF Statuses
<1>4. \A i \in DOMAIN Statuses : Statuses[i] = "ok" => i = 1
  BY DEF Statuses
<1>5. {1, 8, 15, 16} \subseteq DOMAIN Statuses
  BY DEF Statuses
<1>6. /\ Statuses[16] = "abort_zero" /\ Statuses[8] = "send_one"
      /\ Statuses[15] = "blocked" /\ Statuses[1] = "ok"
  BY DEF Statuses
<1> HIDE DEF Statuses
<1>7. Rank("abort_zero") = 16 /\ Rank("send_one") = 8 /\ Rank("blocked") = 15 /\ Rank("ok") = 1
  BY <1>1, <1>2, <1>3, <1>4, <1>5, <1>6, Zenon DEF Rank
<1> QED BY <1>7 DEF NextKey

\* the fields of a session
SessFields == DOMAIN Idle

\* a command of n keys is at one of them that still has to run
AtKey(x, n) ==
    /\ n \in Nat \ {0}
    /\ DOMAIN x = SessFields
    /\ x.i \in 1..n
    /\ DOMAIN x.st = 1..n /\ Len(x.st) = n
    /\ DOMAIN x.dep = 1..n /\ DOMAIN x.part = 1..n /\ DOMAIN x.ival = 1..n
    /\ x.st[x.i] \in Pending

\* The place of the cycle over n keys that is no step away is the key itself.
LEMMA BackToKey ==
    ASSUME NEW n \in Nat \ {0}, NEW i \in 1..n
    PROVE  ((i + 0 - 1) % n) + 1 = i
<1>1. (i - 1) \in 0..(n - 1)
  OBVIOUS
<1>2. (i - 1) % n = i - 1
  BY <1>1
<1> QED BY <1>2

\* The next place in a cycle of n.
LEMMA Turn ==
    ASSUME NEW n \in Nat \ {0}, NEW i \in 1..n
    PROVE  (i < n => (i % n) + 1 = i + 1) /\ (i = n => (i % n) + 1 = 1)
<1>1. ASSUME i < n PROVE i % n = i
  BY <1>1
<1>2. ASSUME i = n PROVE i % n = 0
  <2>1. n % n = 0
    OBVIOUS
  <2> QED BY <1>2, <2>1
<1> QED BY <1>1, <1>2

\* exec_run_to_completion stays at the current key while that key still has
\* to run.
LEMMA NextIsAtKey ==
    ASSUME NEW x, NEW n, AtKey(x, n)
    PROVE  NextIndex(x) = x.i
<1> DEFINE after == {d \in 0..(n - 1) : x.st[((x.i + d - 1) % n) + 1] \in Pending}
           i == x.i
<1>0. n \in Nat \ {0} /\ i \in 1..n /\ x.st[i] \in Pending
  BY DEF AtKey
<1>1. NextIndex(x) = ((i + Min(after) - 1) % n) + 1
  BY DEF NextIndex, AtKey
<1> HIDE DEF i
<1>2. 0 \in after
  <2>1. ((i + 0 - 1) % n) + 1 = i
    BY <1>0, BackToKey
  <2>2. 0 \in 0..(n - 1)
    BY <1>0
  <2>3. x.st[((i + 0 - 1) % n) + 1] \in Pending
    BY <1>0, <2>1
  <2>4. x.st[((x.i + 0 - 1) % n) + 1] \in Pending
    BY <2>3 DEF i
  <2> QED BY <2>2, <2>4
<1>3. after \subseteq Nat
  BY <1>0
<1>4. Min(after) = 0
  <2> HIDE DEF after
  <2>1. \A d \in after : 0 <= d
    BY <1>3
  <2>2. \A d \in after : (\A e \in after : d <= e) => d = 0
    BY <1>2, <1>3
  <2> QED BY <1>2, <2>1, <2>2, Zenon DEF Min
<1> HIDE DEF after
<1> QED BY <1>0, <1>1, <1>4, BackToKey DEF i

\* The command after the handler of key i returned r, before the loop moves on.
After(x, i, r) ==
    [x EXCEPT !.st[i] = r.st, !.ival[i] = r.ival, !.fl = @ \cup r.fl, !.tested = FALSE,
              !.part[i] = IF r.st \in {"ok", "depends", "send_data"} /\ x.dep[i] = 0
                          THEN r.rep ELSE @]

\* y is x with the status of its key.
Noted(x, n, r, y) ==
    /\ DOMAIN y = SessFields
    /\ y.c = x.c /\ y.i = x.i /\ y.dep = x.dep /\ y.tested = FALSE
    /\ y.st = [x.st EXCEPT ![x.i] = r.st]
    /\ DOMAIN y.st = 1..n /\ Len(y.st) = n
    /\ DOMAIN y.part = 1..n /\ DOMAIN y.ival = 1..n

\* The handler's status is noted for the key that ran and for no other.
LEMMA AfterKey ==
    ASSUME NEW x, NEW n, AtKey(x, n), NEW r
    PROVE  Noted(x, n, r, After(x, x.i, r))
BY DEF AtKey, After, Noted, SessFields, Idle

\* At most all of the keys are done.
LEMMA DoneUpTo ==
    ASSUME NEW x, NEW n \in Nat, DOMAIN x.st = 1..n
    PROVE  KeysDone(x) \in 0..n
<1>1. IsFiniteSet(1..n) /\ Cardinality(1..n) = n
  BY FS_Interval
<1>2. {i \in DOMAIN x.st : x.st[i] \notin Pending} \subseteq 1..n
  OBVIOUS
<1> QED BY <1>1, <1>2, FS_Subset, FS_CardinalityType DEF KeysDone

\* Where exec_key_continue goes from the status of key i.
GoesOn(c, x, n, r, i, y, z) ==
    /\ r.st = "again" => z = [x EXCEPT !.i = i, !.tested = TRUE]
    /\ r.st = "depends" => z = [y EXCEPT !.dep[i] = @ + 1, !.i = (i % n) + 1]
    /\ r.st \notin {"again", "depends"} /\ (~NextKey(r.st) \/ KeysDone(y) = n) =>
           z = Finished(y, Reply(c, y, r.st, r.rep))
    /\ r.st \notin {"again", "depends"} /\ NextKey(r.st) /\ KeysDone(y) # n =>
           z = [y EXCEPT !.i = (i % n) + 1]

\* exec_key_continue runs the key again, waits for the other keys, goes on
\* with the next one, or ends the command.
LEMMA ContinueCases ==
    ASSUME NEW c, NEW x, NEW n, AtKey(x, n), NEW r
    PROVE  GoesOn(c, x, n, r, x.i, After(x, x.i, r), Continue(c, x, x.i, r))
<1> DEFINE i == x.i
           y == After(x, i, r)
           z == Continue(c, x, i, r)
<1>1. n \in Nat /\ Len(x.st) = n
  BY DEF AtKey
<1>2. KeysDone(y) \in 0..n
  <2>1. DOMAIN y.st = 1..n
    BY AfterKey DEF Noted
  <2> QED BY <1>1, <2>1, DoneUpTo
<1>3. z =
        CASE r.st = "again"   -> [x EXCEPT !.i = i, !.tested = TRUE]
          [] r.st = "depends" -> [y EXCEPT !.dep[i] = @ + 1, !.i = (i % Len(x.st)) + 1]
          [] r.st \notin {"again", "depends"} /\ ~NextKey(r.st) /\ KeysDone(y) < Len(x.st) ->
                 Finished(y, Reply(c, y, r.st, r.rep))
          [] r.st \notin {"again", "depends"} /\ KeysDone(y) = Len(x.st) ->
                 Finished(y, Reply(c, y, r.st, r.rep))
          [] OTHER -> [y EXCEPT !.i = (i % Len(x.st)) + 1]
  BY Zenon DEF Continue, After
<1>4. KeysDone(y) < n \/ KeysDone(y) = n
  BY <1>1, <1>2
<1> HIDE DEF i, y, z
<1>5. GoesOn(c, x, n, r, i, y, z)
  BY <1>1, <1>3, <1>4, Zenon DEF GoesOn
<1> QED BY <1>5 DEF i, y, z

-----------------------------------------------------------------------------
(* MSETNX *)

\* Where the two passes of MSETNX over n keys can be.
FirstPass(x, n) ==
    /\ \A j \in 1..n : x.st[j] = IF j < x.i THEN "depends" ELSE "continue"
    /\ \A j \in 1..n : x.dep[j] = IF j < x.i THEN 1 ELSE 0
    /\ x.tested => n = 1

SecondPass(x, n) ==
    /\ \A j \in 1..n : x.st[j] = IF j < x.i THEN "send_one" ELSE "depends"
    /\ \A j \in 1..n : x.dep[j] = 1

Passes(x, n) ==
    /\ AtKey(x, n)
    /\ x.tested \in BOOLEAN
    /\ FirstPass(x, n) \/ SecondPass(x, n)

SetOnes(x) == {i \in DOMAIN x.st : x.st[i] = "send_one"}

\* exec_msetnx: in the pass that looks, a key that is there ends the command
\* and a missing one waits for the others, or is run again when it is the
\* last; in the pass that sets, the key is set.
LEMMA MSetNxOutcome ==
    ASSUME NEW c, NEW i, NEW x
    PROVE  LET r == MSetNx(c, i, x)
           IN  IF x.dep = 0 /\ ~x.tested
               THEN r.st = IF x.v # Absent THEN "abort_zero"
                           ELSE IF LastKey(c, x) THEN "again" ELSE "depends"
               ELSE r.st = "send_one"
<1>1. ASSUME NEW v, NEW st PROVE Status(v, st).st = st
  BY DEF Status, Done
<1>2. ASSUME NEW v, NEW b PROVE SetValue(v, b, "any", 0, "send_one").st = "send_one"
  BY DEF SetValue, Done
<1> QED BY <1>1, <1>2, Zenon DEF MSetNx, Again, Wait

\* The handler of MSETNX is exec_msetnx.
LEMMA HandleMsetnx ==
    ASSUME NEW c, c.catg = "string", c.cmd = "msetnx", NEW i, NEW x
    PROVE  Handle(c, i, x) \subseteq {MSetNx(c, i, x)}
<1>1. StringCmd(c, i, x) = {MSetNx(c, i, x)}
  BY DEF StringCmd, StrCmd
<1> QED BY <1>1 DEF Handle

\* There are i - 1 places before the i-th.
LEMMA CardBelow ==
    ASSUME NEW n \in Nat \ {0}, NEW i \in 1..n
    PROVE  Cardinality(1..(i - 1)) = i - 1
<1>1. i - 1 \in Nat /\ (i - 1 >= 1 \/ i - 1 = 0)
  OBVIOUS
<1>2. Cardinality(1..(i - 1)) = IF 1 > i - 1 THEN 0 ELSE (i - 1) - 1 + 1
  BY <1>1, FS_Interval
<1> QED BY <1>1, <1>2

\* While it looks at the keys none is done; while it sets them those before
\* the current one are.
LEMMA PassesDone ==
    ASSUME NEW x, NEW n, Passes(x, n)
    PROVE  /\ FirstPass(x, n) => KeysDone(x) = 0 /\ SetOnes(x) = {}
           /\ SecondPass(x, n) => /\ KeysDone(x) = x.i - 1
                                  /\ Cardinality(SetOnes(x)) = x.i - 1
<1>1. n \in Nat \ {0} /\ x.i \in 1..n /\ DOMAIN x.st = 1..n
  BY DEF Passes, AtKey
<1>2. ASSUME FirstPass(x, n) PROVE KeysDone(x) = 0 /\ SetOnes(x) = {}
  <2>1. {i \in DOMAIN x.st : x.st[i] \notin Pending} = {} /\ SetOnes(x) = {}
    BY <1>1, <1>2 DEF FirstPass, SetOnes, Pending
  <2> QED BY <2>1, FS_EmptySet DEF KeysDone
<1>3. ASSUME SecondPass(x, n)
      PROVE  KeysDone(x) = x.i - 1 /\ Cardinality(SetOnes(x)) = x.i - 1
  <2>1. /\ {i \in DOMAIN x.st : x.st[i] \notin Pending} = 1..(x.i - 1)
        /\ SetOnes(x) = 1..(x.i - 1)
    BY <1>1, <1>3 DEF SecondPass, SetOnes, Pending
  <2>2. Cardinality(1..(x.i - 1)) = x.i - 1
    BY <1>1, CardBelow
  <2> QED BY <2>1, <2>2 DEF KeysDone
<1> QED BY <1>2, <1>3

\* After MSETNX has set key i, i keys are done, the first i.
LEMMA PassesAfter ==
    ASSUME NEW x, NEW n, Passes(x, n), SecondPass(x, n) \/ n = 1,
           NEW r, r.st = "send_one"
    PROVE  LET y == After(x, x.i, r)
           IN  /\ KeysDone(y) = x.i
               /\ \A j \in 1..n : y.st[j] = IF j <= x.i THEN "send_one" ELSE "depends"
<1> DEFINE i == x.i
           y == After(x, i, r)
<1>1. n \in Nat \ {0} /\ i \in 1..n /\ AtKey(x, n) /\ DOMAIN x.st = 1..n
  BY DEF Passes, AtKey
<1>2. y.st = [x.st EXCEPT ![i] = "send_one"] /\ DOMAIN y.st = 1..n
  <2>1. AtKey(x, n)
    BY DEF Passes
  <2>2. y.st = [x.st EXCEPT ![x.i] = r.st]
    BY <2>1, AfterKey DEF Noted
  <2>3. DOMAIN y.st = 1..n
    BY <2>1, AfterKey DEF Noted
  <2> QED BY <2>2, <2>3
<1>3. \A j \in 1..n : j # i => x.st[j] = IF j < i THEN "send_one" ELSE "depends"
  BY <1>1 DEF SecondPass
<1> HIDE DEF y
<1> HIDE DEF i
<1>4. \A j \in 1..n : y.st[j] = IF j <= i THEN "send_one" ELSE "depends"
  BY <1>1, <1>2, <1>3
<1>5. {j \in DOMAIN y.st : y.st[j] \notin Pending} = 1..i
  BY <1>1, <1>2, <1>4 DEF Pending
<1>6. Cardinality(1..i) = i
  <2>1. i \in Nat /\ i >= 1
    BY <1>1
  <2> QED BY <2>1, FS_Interval
<1>7. KeysDone(y) = i
  BY <1>5, <1>6 DEF KeysDone
<1> QED BY <1>4, <1>7 DEF i, y

\* What exec_key_continue makes of a visit of a key by MSETNX.
Visits(c, x, n, z) ==
    \E X : /\ X.done = KeysDone(x) /\ X.dep = x.dep[x.i] /\ X.tested = x.tested
           /\ n = Len(c.keys) /\ z = Continue(c, x, x.i, MSetNx(c, x.i, X))

\* A step of MSETNX goes on with the pass, or ends it: with 0 when it has set
\* nothing, with 1 when it has set all the keys before the last one.
LEMMA MsetnxStep ==
    ASSUME NEW c, NEW x, NEW n, Passes(x, n), NEW z, Visits(c, x, n, z)
    PROVE  \/ /\ z.c = x.c /\ Passes(z, n)
           \/ /\ z.c = 0 /\ z.reply.st # "send_one" /\ SetOnes(x) = {}
           \/ /\ z.c = 0 /\ z.reply.st = "send_one"
              /\ Cardinality(SetOnes(x)) + 1 = n
<1>a. PICK X : /\ X.done = KeysDone(x) /\ X.dep = x.dep[x.i] /\ X.tested = x.tested
               /\ n = Len(c.keys) /\ z = Continue(c, x, x.i, MSetNx(c, x.i, X))
  BY DEF Visits
<1> DEFINE i == x.i
           r == MSetNx(c, x.i, X)
           y == After(x, x.i, r)
<1>0. AtKey(x, n)
  BY DEF Passes
<1>1. n \in Nat \ {0} /\ i \in 1..n /\ x.tested \in BOOLEAN
  BY DEF Passes, AtKey
<1>b. z = Continue(c, x, i, r) /\ i = x.i /\ y = After(x, x.i, r) /\ y = After(x, i, r)
  BY <1>a
<1>3. IF x.dep[i] = 0 /\ ~x.tested
      THEN r.st = IF X.v # Absent THEN "abort_zero"
                  ELSE IF KeysDone(x) + 1 = n THEN "again" ELSE "depends"
      ELSE r.st = "send_one"
  BY <1>a, MSetNxOutcome DEF LastKey
<1> HIDE DEF r, y, i
<1>2. GoesOn(c, x, n, r, i, y, z)
  BY <1>0, <1>b, ContinueCases
<1>4. Noted(x, n, r, y)
  BY <1>0, <1>b, AfterKey
<1>5. /\ FirstPass(x, n) => KeysDone(x) = 0 /\ SetOnes(x) = {}
      /\ SecondPass(x, n) => /\ KeysDone(x) = i - 1
                             /\ Cardinality(SetOnes(x)) = i - 1
  BY <1>b, PassesDone
<1>6. \A w, q : Finished(w, q).c = 0 /\ Finished(w, q).reply = q
  BY DEF Finished, Idle
<1>7. \A w, st, q : Reply(c, w, st, q).st = st
  BY DEF Reply
<1>8. (i < n => (i % n) + 1 = i + 1) /\ (i = n => (i % n) + 1 = 1)
  BY <1>1, Turn
<1>9. FirstPass(x, n) \/ SecondPass(x, n)
  BY DEF Passes
<1>10. CASE r.st = "abort_zero"
  <2>1. z.c = 0 /\ z.reply.st = "abort_zero"
    BY <1>10, <1>2, <1>6, <1>7, Ranks DEF GoesOn
  <2>2. FirstPass(x, n)
    BY <1>1, <1>3, <1>9, <1>10 DEF SecondPass
  <2> QED BY <2>1, <2>2, <1>5
<1>11. CASE r.st = "again"
  <2>1. z = [x EXCEPT !.i = i, !.tested = TRUE]
    BY <1>2, <1>11 DEF GoesOn
  <2>2. FirstPass(x, n)
    BY <1>1, <1>3, <1>9, <1>11 DEF SecondPass
  <2>3. n = 1
    BY <1>3, <1>5, <1>11, <2>2
  <2>4. z.c = x.c /\ Passes(z, n)
    BY <2>1, <2>2, <2>3, <1>0, <1>1 DEF Passes, FirstPass, AtKey, SessFields, Idle
  <2> QED BY <2>4
<1>12. CASE r.st = "depends"
  <2>1. z = [y EXCEPT !.dep[i] = @ + 1, !.i = (i % n) + 1]
    BY <1>2, <1>12 DEF GoesOn
  <2>2. FirstPass(x, n) /\ ~x.tested
    BY <1>1, <1>3, <1>9, <1>12 DEF SecondPass
  <2>3. DOMAIN x.dep = 1..n /\ DOMAIN x.st = 1..n
    BY <1>0 DEF AtKey
  <2>4. /\ z.c = x.c /\ DOMAIN z = SessFields /\ z.i = (i % n) + 1 /\ z.tested = FALSE
        /\ z.st = y.st /\ z.dep = [x.dep EXCEPT ![i] = x.dep[i] + 1]
        /\ z.part = y.part /\ z.ival = y.ival
    BY <1>4, <1>b, <2>1 DEF Noted, SessFields, Idle
  <2>5. \A j \in 1..n : /\ z.st[j] = IF j <= i THEN "depends" ELSE "continue"
                        /\ z.dep[j] = IF j <= i THEN 1 ELSE 0
    <3>1. /\ i \in 1..n /\ n \in Nat
          /\ \A j \in 1..n : x.st[j] = IF j < i THEN "depends" ELSE "continue"
          /\ \A j \in 1..n : x.dep[j] = IF j < i THEN 1 ELSE 0
          /\ z.dep = [x.dep EXCEPT ![i] = x.dep[i] + 1]
          /\ z.st = [x.st EXCEPT ![i] = "depends"]
      BY <1>1, <1>b, <1>4, <1>12, <2>2, <2>4 DEF FirstPass, Noted
    <3>2. \A j \in 1..n : /\ z.st[j] = IF j <= i THEN "depends" ELSE "continue"
                          /\ z.dep[j] = IF j <= i THEN 1 ELSE 0
      BY <3>1, <2>3
    <3> QED BY <3>2
  <2>6. AtKey(z, n)
    <3>1. z.i \in 1..n /\ z.st[z.i] \in Pending
      <4>1. CASE i < n
        BY <1>1, <1>8, <2>4, <2>5, <4>1 DEF Pending
      <4>2. CASE i = n
        BY <1>1, <1>8, <2>4, <2>5, <4>2 DEF Pending
      <4> QED BY <1>1, <4>1, <4>2
    <3>2. DOMAIN z.dep = 1..n
      BY <2>3, <2>4
    <3> QED BY <1>1, <1>4, <2>4, <3>1, <3>2 DEF AtKey, Noted
  <2>7. FirstPass(z, n) \/ SecondPass(z, n)
    <3>1. CASE i < n
      BY <1>1, <1>8, <2>4, <2>5, <3>1 DEF FirstPass
    <3>2. CASE i = n
      BY <1>1, <1>8, <2>4, <2>5, <3>2 DEF SecondPass
    <3> QED BY <1>1, <3>1, <3>2
  <2> QED BY <2>4, <2>6, <2>7 DEF Passes
<1>13. CASE r.st = "send_one"
  <2>1. SecondPass(x, n) \/ n = 1
    <3>1. ASSUME FirstPass(x, n) PROVE n = 1
      BY <1>1, <1>b, <1>3, <1>13, <3>1 DEF FirstPass
    <3> QED BY <1>9, <3>1
  <2>2. KeysDone(y) = i
    BY <2>1, <1>13, <1>b, PassesAfter
  <2>3. \A j \in 1..n : y.st[j] = IF j <= i THEN "send_one" ELSE "depends"
    BY <2>1, <1>13, <1>b, PassesAfter
  <2>4. CASE i = n
    <3>1. z = Finished(y, Reply(c, y, r.st, r.rep))
      BY <1>2, <1>13, <2>2, <2>4 DEF GoesOn
    <3>2. z.c = 0 /\ z.reply.st = "send_one"
      BY <1>6, <1>7, <1>13, <3>1
    <3>3. Cardinality(SetOnes(x)) + 1 = n
      <4>1. CASE SecondPass(x, n)
        BY <1>1, <1>5, <2>4, <4>1
      <4>2. CASE FirstPass(x, n) /\ n = 1
        BY <1>5, <4>2, FS_EmptySet
      <4> QED BY <1>9, <2>1, <4>1, <4>2
    <3> QED BY <3>2, <3>3
  <2>5. CASE i # n
    <3>0. i < n
      BY <1>1, <2>5
    <3>1. z = [y EXCEPT !.i = (i % n) + 1]
      BY <1>1, <1>2, <1>13, <2>2, <2>5, Ranks DEF GoesOn
    <3>2. SecondPass(x, n)
      BY <1>1, <2>1, <3>0
    <3>3. /\ z.c = x.c /\ DOMAIN z = SessFields /\ z.i = i + 1 /\ z.tested = FALSE
          /\ z.st = y.st /\ z.dep = x.dep
          /\ z.part = y.part /\ z.ival = y.ival
      BY <1>4, <1>b, <1>8, <3>0, <3>1 DEF Noted, SessFields, Idle
    <3>4. SecondPass(z, n)
      BY <1>1, <2>3, <3>2, <3>3 DEF SecondPass
    <3>5. AtKey(z, n)
      <4>1. z.i \in 1..n /\ z.st[z.i] \in Pending
        BY <1>1, <2>3, <3>0, <3>3 DEF Pending
      <4>2. DOMAIN z.dep = 1..n
        BY <1>0, <3>3 DEF AtKey
      <4> QED BY <1>1, <1>4, <3>3, <4>1, <4>2 DEF AtKey, Noted
    <3> QED BY <3>3, <3>4, <3>5 DEF Passes
  <2> QED BY <2>4, <2>5
<1>14. r.st \in {"abort_zero", "again", "depends", "send_one"}
  BY <1>3
<1> QED BY <1>10, <1>11, <1>12, <1>13, <1>14

-----------------------------------------------------------------------------
(* The invariants *)

\* A session runs a call of the menu, or none.
Basics ==
    /\ menu \in DOMAIN Menus
    /\ DOMAIN sess = Sessions /\ DOMAIN db = Keys
    /\ \A s \in Sessions : DOMAIN sess[s] = SessFields /\ sess[s].c \in {0} \cup DOMAIN M.calls

\* the call a session runs
CallOf(s)  == M.calls[sess[s].c]
Runs(s, cmd) == sess[s].c # 0 /\ CallOf(s).cmd = cmd

\* every MSETNX that runs is in one of its passes
MsetnxRuns == \A s \in Sessions : Runs(s, "msetnx") => Passes(sess[s], Len(CallOf(s).keys))

\* A session keeps its call over a step or is left without one.
LEMMA ContinueFields ==
    ASSUME NEW c, NEW x, DOMAIN x = SessFields, NEW i, NEW r
    PROVE  LET z == Continue(c, x, i, r) IN DOMAIN z = SessFields /\ z.c \in {0, x.c}
<1>1. \A w, q : DOMAIN Finished(w, q) = SessFields /\ Finished(w, q).c = 0
  BY DEF Finished, SessFields, Idle
<1> DEFINE y == After(x, i, r)
           Ok(z) == DOMAIN z = SessFields /\ z.c \in {0, x.c}
<1>2. DOMAIN y = SessFields /\ y.c = x.c
  BY DEF After, SessFields, Idle
<1>3. Continue(c, x, i, r) =
        CASE r.st = "again"   -> [x EXCEPT !.i = i, !.tested = TRUE]
          [] r.st = "depends" -> [y EXCEPT !.dep[i] = @ + 1, !.i = (i % Len(x.st)) + 1]
          [] r.st \notin {"again", "depends"} /\ ~NextKey(r.st) /\ KeysDone(y) < Len(x.st) ->
                 Finished(y, Reply(c, y, r.st, r.rep))
          [] r.st \notin {"again", "depends"} /\ KeysDone(y) = Len(x.st) ->
                 Finished(y, Reply(c, y, r.st, r.rep))
          [] OTHER -> [y EXCEPT !.i = (i % Len(x.st)) + 1]
  BY Zenon DEF Continue, After
<1> HIDE DEF y
<1>4. Ok([x EXCEPT !.i = i, !.tested = TRUE])
  BY DEF SessFields, Idle
<1>5. Ok([y EXCEPT !.dep[i] = @ + 1, !.i = (i % Len(x.st)) + 1])
  BY <1>2 DEF SessFields, Idle
<1>6. Ok([y EXCEPT !.i = (i % Len(x.st)) + 1])
  BY <1>2 DEF SessFields, Idle
<1>7. Ok(Finished(y, Reply(c, y, r.st, r.rep)))
  BY <1>1
<1> HIDE DEF Ok
<1>8. Ok(Continue(c, x, i, r))
  BY <1>3, <1>4, <1>5, <1>6, <1>7, Zenon
<1> QED BY <1>8 DEF Ok

\* The menu of a behaviour is one of those the assumption is about.
LEMMA MenuOK ==
    ASSUME menu \in DOMAIN Menus
    PROVE  IsMenu(M)
BY MenusAssumption DEF M

\* A call has keys, and the commands on several keys are of their category.
LEMMA CallFacts ==
    ASSUME NEW c, IsCall(c)
    PROVE  /\ c.keys \in Seq(Keys) \ {<<>>}
           /\ c.cmd = "smove"  => c.catg = "set" /\ Len(c.keys) = 2
           /\ c.cmd = "msetnx" => c.catg = "string"
<1>1. c.catg \in {"list", "hash", "set", "zset", "string", "key", "stream", "geo", "hyperloglog"}
  BY DEF IsCall, Commands
<1>2. c.cmd \in Commands[c.catg] /\ IsArity(c)
  BY DEF IsCall
<1>3. c.cmd = "smove"  => c.catg = "set"
  BY <1>1, <1>2 DEF Commands
<1>4. c.cmd = "msetnx" => c.catg = "string"
  BY <1>1, <1>2 DEF Commands
<1> QED BY <1>2, <1>3, <1>4 DEF IsArity

\* A call starts with all of its keys to be run, the first one first, and
\* touches no other session and no key.
LEMMA StartStep ==
    ASSUME Basics, NEW s \in M.sessions, NEW c \in DOMAIN M.calls, Start(s, c)
    PROVE  LET n == Len(M.calls[c].keys)
               x == sess'[s]
           IN  /\ s \in Sessions /\ sess[s].c = 0 /\ c # 0
               /\ x.c = c /\ DOMAIN x = SessFields /\ x.i = 1 /\ x.tested = FALSE
               /\ x.st = [i \in 1..n |-> "continue"] /\ x.dep = [i \in 1..n |-> 0]
               /\ x.part = [i \in 1..n |-> <<>>]
               /\ AtKey(x, n)
               /\ DOMAIN sess' = Sessions /\ \A t \in Sessions \ {s} : sess'[t] = sess[t]
               /\ UNCHANGED <<db, now, menu>>
<1>1. IsMenu(M)
  BY MenuOK DEF Basics
<1>2. s \in Sessions /\ c # 0 /\ M.calls[c].keys \in Seq(Keys) /\ M.calls[c].keys # <<>>
  BY <1>1, CallFacts DEF IsMenu
<1> DEFINE n == Len(M.calls[c].keys)
<1>3. n \in Nat \ {0}
  BY <1>2
<1>4. PICK b \in M.buffered :
        sess' = [sess EXCEPT ![s] =
                   [Idle EXCEPT !.c = c, !.buffered = b,
                        !.st   = [i \in 1..n |-> "continue"],
                        !.dep  = [i \in 1..n |-> 0],
                        !.part = [i \in 1..n |-> <<>>],
                        !.ival = [i \in 1..n |-> 0]]]
  BY DEF Start
<1> HIDE DEF n
<1> DEFINE x == sess'[s]
<1>5. x = [Idle EXCEPT !.c = c, !.buffered = b,
                        !.st   = [i \in 1..n |-> "continue"],
                        !.dep  = [i \in 1..n |-> 0],
                        !.part = [i \in 1..n |-> <<>>],
                        !.ival = [i \in 1..n |-> 0]]
  BY <1>2, <1>4 DEF Basics
<1>6. DOMAIN sess' = Sessions /\ \A t \in Sessions \ {s} : sess'[t] = sess[t]
  BY <1>4 DEF Basics
<1> HIDE DEF x
<1>7. /\ x.c = c /\ DOMAIN x = SessFields /\ x.i = 1 /\ x.tested = FALSE
      /\ x.st = [i \in 1..n |-> "continue"] /\ x.dep = [i \in 1..n |-> 0]
      /\ x.part = [i \in 1..n |-> <<>>] /\ x.ival = [i \in 1..n |-> 0]
  BY <1>5 DEF Idle, SessFields
<1>8. x.st \in [1..n -> {"continue"}] /\ Len(x.st) = n
  BY <1>3, <1>7
<1>9. AtKey(x, n)
  BY <1>3, <1>7, <1>8 DEF AtKey, Pending
<1>10. sess[s].c = 0 /\ UNCHANGED <<db, now, menu>>
  BY DEF Start
<1> QED BY <1>2, <1>6, <1>7, <1>9, <1>10 DEF x, n

\* A step of session s runs one key of its call with what it fetches.
LEMMA KeyStep ==
    ASSUME Basics, NEW s \in M.sessions, Step(s)
    PROVE  LET x == sess[s]
               c == CallOf(s)
               i == NextIndex(x)
               k == c.keys[i]
           IN  /\ s \in Sessions /\ x.c # 0 /\ x.c \in DOMAIN M.calls /\ DOMAIN x = SessFields
               /\ \E r \in Handle(c, i, Context(x, k, i)) :
                     /\ db' = [db EXCEPT ![k] = Stored(Fetched(db[k], now), r)]
                     /\ sess'[s] = Continue(c, x, i, r)
               /\ DOMAIN sess' = Sessions /\ \A t \in Sessions \ {s} : sess'[t] = sess[t]
               /\ UNCHANGED <<now, menu, left>>
<1>1. IsMenu(M)
  BY MenuOK DEF Basics
<1>2. s \in Sessions /\ sess[s].c # 0 /\ sess[s].c \in DOMAIN M.calls /\ DOMAIN sess[s] = SessFields
  BY <1>1 DEF IsMenu, Step, Basics
<1> DEFINE x == sess[s]
           c == CallOf(s)
           i == NextIndex(x)
           k == c.keys[i]
<1>3. PICK r \in Handle(c, i, Context(x, k, i)) :
         /\ db' = [db EXCEPT ![k] = Stored(Fetched(@, now), r)]
         /\ sess' = [sess EXCEPT ![s] = Continue(c, x, i, r)]
  BY DEF Step, CallOf
<1>4. UNCHANGED <<now, menu, left>>
  BY DEF Step
<1> HIDE DEF x, c, i, k
<1>5. /\ sess'[s] = Continue(c, x, i, r)
      /\ DOMAIN sess' = Sessions /\ \A t \in Sessions \ {s} : sess'[t] = sess[t]
  BY <1>2, <1>3 DEF Basics
<1>6. db' = [db EXCEPT ![k] = Stored(Fetched(db[k], now), r)]
  BY <1>3
<1>7. \E q \in Handle(c, i, Context(x, k, i)) :
         /\ db' = [db EXCEPT ![k] = Stored(Fetched(db[k], now), q)]
         /\ sess'[s] = Continue(c, x, i, q)
  BY <1>5, <1>6, Zenon
<1> QED BY <1>2, <1>4, <1>5, <1>7 DEF x, c, i, k

\* At first no session runs a call.
LEMMA BasicsInit == Init => Basics
<1> SUFFICES ASSUME Init PROVE Basics
  OBVIOUS
<1>1. IsMenu(M)
  BY MenuOK DEF Init
<1> QED BY <1>1 DEF Init, Basics, IsMenu, Idle, SessFields

\* Every session goes on running a call of the menu, or none.
LEMMA BasicsKept == Basics /\ [Next]_cvars => Basics'
<1> SUFFICES ASSUME Basics, [Next]_cvars PROVE Basics'
  OBVIOUS
<1>1. CASE UNCHANGED cvars
  BY <1>1 DEF Basics, cvars, M
<1>2. ASSUME NEW s \in M.sessions, NEW c \in DOMAIN M.calls, Start(s, c) PROVE Basics'
  <2>1. /\ sess'[s].c = c /\ DOMAIN sess'[s] = SessFields
        /\ DOMAIN sess' = Sessions /\ \A t \in Sessions \ {s} : sess'[t] = sess[t]
        /\ UNCHANGED <<db, now, menu>>
    BY <1>2, StartStep
  <2> QED BY <2>1 DEF Basics, M
<1>3. ASSUME NEW s \in M.sessions, Step(s) PROVE Basics'
  <2>1. /\ DOMAIN sess[s] = SessFields /\ sess[s].c \in DOMAIN M.calls
        /\ DOMAIN sess' = Sessions /\ \A t \in Sessions \ {s} : sess'[t] = sess[t]
        /\ UNCHANGED <<now, menu, left>>
    BY <1>3, KeyStep
  <2>2. \E k, e : db' = [db EXCEPT ![k] = e]
    BY <1>3, KeyStep, Zenon
  <2>3. \E r : sess'[s] = Continue(CallOf(s), sess[s], NextIndex(sess[s]), r)
    BY <1>3, KeyStep, Zenon
  <2>4. DOMAIN sess'[s] = SessFields /\ sess'[s].c \in {0, sess[s].c}
    BY <2>1, <2>3, ContinueFields
  <2> QED BY <2>1, <2>2, <2>4 DEF Basics, M
<1>4. ASSUME Tick PROVE Basics'
  BY <1>4 DEF Tick, Basics, M
<1> QED BY <1>1, <1>2, <1>3, <1>4 DEF Next

\* What the handlers of MSETNX do to its record of the keys.
LEMMA MsetnxVisit ==
    ASSUME Basics, MsetnxRuns, NEW s \in M.sessions, Step(s), Runs(s, "msetnx")
    PROVE  Visits(CallOf(s), sess[s], Len(CallOf(s).keys), sess'[s])
<1> DEFINE x == sess[s]
           c == CallOf(s)
           k == c.keys[NextIndex(x)]
<1>1. x.c \in DOMAIN M.calls /\ s \in Sessions
  BY KeyStep
<1>2. IsMenu(M)
  BY MenuOK DEF Basics
<1>3. c.catg = "string" /\ c.cmd = "msetnx"
  BY <1>1, <1>2, CallFacts DEF IsMenu, Runs, CallOf
<1>4. AtKey(x, Len(c.keys))
  BY <1>1 DEF MsetnxRuns, Passes
<1>5. NextIndex(x) = x.i
  BY <1>4, NextIsAtKey
<1>6. PICK r \in Handle(c, NextIndex(x), Context(x, k, NextIndex(x))) :
         sess'[s] = Continue(c, x, NextIndex(x), r)
  BY KeyStep, Zenon
<1> DEFINE X == Context(x, k, x.i)
<1>7. r = MSetNx(c, x.i, X)
  BY <1>3, <1>5, <1>6, HandleMsetnx
<1>8. X.done = KeysDone(x) /\ X.dep = x.dep[x.i] /\ X.tested = x.tested
  BY DEF Context
<1> HIDE DEF x, c, k, X
<1>9. /\ X.done = KeysDone(x) /\ X.dep = x.dep[x.i] /\ X.tested = x.tested
      /\ sess'[s] = Continue(c, x, x.i, MSetNx(c, x.i, X))
  BY <1>5, <1>6, <1>7, <1>8
<1> QED BY <1>9 DEF Visits, x, c

\* At first no MSETNX runs.
LEMMA MsetnxRunsInit == Init => MsetnxRuns
BY DEF Init, MsetnxRuns, Runs, Idle

\* A MSETNX stays in its two passes whatever the other sessions do.
LEMMA MsetnxRunsKept == Basics /\ MsetnxRuns /\ [Next]_cvars => MsetnxRuns'
<1> SUFFICES ASSUME Basics, MsetnxRuns, [Next]_cvars PROVE MsetnxRuns'
  OBVIOUS
<1> DEFINE Same(t) == sess'[t] = sess[t] /\ menu' = menu
<1>0. ASSUME NEW t \in Sessions, Same(t)
      PROVE  Runs(t, "msetnx")' => Passes(sess[t], Len(CallOf(t).keys))'
  BY <1>0 DEF MsetnxRuns, Runs, CallOf, M
<1>1. CASE UNCHANGED cvars
  BY <1>0, <1>1 DEF cvars, MsetnxRuns
<1>2. ASSUME NEW s \in M.sessions, NEW c \in DOMAIN M.calls, Start(s, c) PROVE MsetnxRuns'
  <2> DEFINE x == sess'[s]
             n == Len(M.calls[c].keys)
  <2>1. x.c = c /\ x.tested = FALSE /\ x.i = 1
    BY <1>2, StartStep
  <2>2. x.st = [i \in 1..n |-> "continue"] /\ x.dep = [i \in 1..n |-> 0]
    BY <1>2, StartStep
  <2>3. AtKey(x, n)
    BY <1>2, StartStep
  <2>4. \A t \in Sessions \ {s} : sess'[t] = sess[t]
    BY <1>2, StartStep
  <2>5. menu' = menu
    BY <1>2, StartStep
  <2>6. Passes(x, n)
    <3> HIDE DEF x, n
    <3>1. n \in Nat
      BY <2>3 DEF AtKey
    <3>2. FirstPass(x, n)
      BY <2>1, <2>2, <3>1 DEF FirstPass
    <3> QED BY <2>1, <2>3, <3>2 DEF Passes
  <2>7. Runs(s, "msetnx")' => Passes(sess[s], Len(CallOf(s).keys))'
    BY <2>1, <2>5, <2>6 DEF Runs, CallOf, M
  <2> QED BY <1>0, <2>4, <2>5, <2>7 DEF MsetnxRuns
<1>3. ASSUME NEW s \in M.sessions, Step(s) PROVE MsetnxRuns'
  <2>1. \A t \in Sessions \ {s} : sess'[t] = sess[t]
    BY <1>3, KeyStep
  <2>2. menu' = menu
    BY <1>3, KeyStep
  <2>3. ASSUME Runs(s, "msetnx")' PROVE Passes(sess[s], Len(CallOf(s).keys))'
    <3>1. s \in Sessions /\ sess[s].c # 0 /\ DOMAIN sess[s] = SessFields
      BY <1>3, KeyStep
    <3>2. sess'[s].c \in {0, sess[s].c}
      <4>1. \E r : sess'[s] = Continue(CallOf(s), sess[s], NextIndex(sess[s]), r)
        BY <1>3, KeyStep, Zenon
      <4> QED BY <3>1, <4>1, ContinueFields
    <3>3. Runs(s, "msetnx") /\ sess'[s].c = sess[s].c
      BY <2>2, <2>3, <3>1, <3>2 DEF Runs, CallOf, M
    <3>4. Visits(CallOf(s), sess[s], Len(CallOf(s).keys), sess'[s])
      BY <1>3, <3>3, MsetnxVisit
    <3>5. Passes(sess[s], Len(CallOf(s).keys))
      BY <3>1, <3>3 DEF MsetnxRuns
    <3>6. Passes(sess'[s], Len(CallOf(s).keys))
      BY <3>1, <3>3, <3>4, <3>5, MsetnxStep
    <3> QED BY <2>2, <3>3, <3>6 DEF CallOf, M
  <2> QED BY <1>0, <2>1, <2>2, <2>3 DEF MsetnxRuns
<1>4. ASSUME Tick PROVE MsetnxRuns'
  BY <1>0, <1>4 DEF Tick, MsetnxRuns
<1> QED BY <1>1, <1>2, <1>3, <1>4 DEF Next

\* A MSETNX ends with 1 when every key before the last was set, and in any
\* other way with none set.
LEMMA MsetnxEnds ==
    ASSUME Basics, MsetnxRuns, [Next]_cvars, NEW s \in Sessions,
           sess[s].c # 0, CallOf(s).cmd = "msetnx", sess'[s].c = 0
    PROVE  LET x == sess[s]
           IN  IF sess'[s].reply.st = "send_one" THEN Cardinality(SetOnes(x)) + 1 = Len(x.st)
               ELSE SetOnes(x) = {}
<1>1. s \in M.sessions /\ Step(s)
  <2>1. ASSUME NEW t \in M.sessions, t # s, Step(t) PROVE FALSE
    BY <2>1, KeyStep
  <2>2. ASSUME NEW t \in M.sessions, NEW c \in DOMAIN M.calls, Start(t, c) PROVE FALSE
    <3>1. sess'[t].c # 0 /\ \A u \in Sessions \ {t} : sess'[u] = sess[u]
      BY <2>2, StartStep
    <3> QED BY <3>1
  <2> QED BY <2>1, <2>2 DEF Next, Tick, cvars
<1>2. Visits(CallOf(s), sess[s], Len(CallOf(s).keys), sess'[s])
  BY <1>1, MsetnxVisit DEF Runs
<1>3. Passes(sess[s], Len(CallOf(s).keys))
  BY DEF MsetnxRuns, Runs
<1>4. Len(sess[s].st) = Len(CallOf(s).keys)
  BY <1>3 DEF Passes, AtKey
<1> QED BY <1>2, <1>3, <1>4, MsetnxStep

\* The same, of every session in every step.
LEMMA MsetnxNext == Basics /\ MsetnxRuns /\ [Next]_cvars =>
    [\A s \in Sessions :
          sess[s].c # 0 /\ M.calls[sess[s].c].cmd = "msetnx" /\ sess'[s].c = 0 =>
              LET x   == sess[s]
                  set == {i \in DOMAIN x.st : x.st[i] = "send_one"}
              IN  IF sess'[s].reply.st = "send_one" THEN Cardinality(set) + 1 = Len(x.st)
                  ELSE set = {}]_cvars
BY MsetnxEnds DEF SetOnes, CallOf

\* A MSETNX that answers 0 has set none of its keys and one that answers 1
\* all of them, for any number of keys, sessions and calls: exec_msetnx looks
\* at every key in a first pass, and no key is set before all are looked at.
THEOREM MsetnxCorrect == Spec => MsetnxAllOrNone
<1>1. Init => Basics /\ MsetnxRuns
  BY BasicsInit, MsetnxRunsInit
<1>2. Basics /\ MsetnxRuns /\ [Next]_cvars => (Basics /\ MsetnxRuns)'
  BY BasicsKept, MsetnxRunsKept
<1> QED BY <1>1, <1>2, MsetnxNext, PTL DEF Spec, MsetnxAllOrNone

-----------------------------------------------------------------------------
(* Sets as sequences of their members *)

\* g holds what Select has kept of the first i elements
IsSel(g, m, keep, n) ==
    g = [i \in 0..n |-> IF i = 0 THEN <<>>
                        ELSE IF keep[i] THEN Append(g[i - 1], m[i]) ELSE g[i - 1]]

\* The recursive function of Select exists.
LEMMA SelExists ==
    ASSUME NEW n \in Nat, NEW m, NEW keep
    PROVE  \E g : IsSel(g, m, keep, n)
<1> DEFINE P == {k \in 0..n : \E g : IsSel(g, m, keep, k)}
<1>1. 0 \in P
  <2>1. IsSel([i \in 0..0 |-> <<>>], m, keep, 0)
    BY DEF IsSel
  <2> QED BY <2>1
<1>2. ASSUME NEW k \in 1..n, k - 1 \in P PROVE k \in P
  <2>1. PICK g : IsSel(g, m, keep, k - 1)
    BY <1>2
  <2> DEFINE h == [i \in 0..k |-> IF i < k THEN g[i]
                                  ELSE IF keep[k] THEN Append(g[k - 1], m[k]) ELSE g[k - 1]]
  <2>2. ASSUME NEW i \in 0..k
        PROVE  h[i] = IF i = 0 THEN <<>>
                      ELSE IF keep[i] THEN Append(h[i - 1], m[i]) ELSE h[i - 1]
    <3>1. CASE i = 0
      <4>1. g[0] = <<>>
        BY <2>1 DEF IsSel
      <4> QED BY <3>1, <4>1
    <3>2. CASE i \in 1..(k - 1)
      <4>0. i \in 0..(k - 1) /\ i # 0
        BY <3>2
      <4>1. g[i] = IF keep[i] THEN Append(g[i - 1], m[i]) ELSE g[i - 1]
        BY <2>1, <4>0 DEF IsSel
      <4>2. h[i] = g[i] /\ h[i - 1] = g[i - 1]
        BY <3>2
      <4> HIDE DEF h
      <4> QED BY <3>2, <4>1, <4>2
    <3>3. CASE i = k
      <4>1. h[k] = (IF keep[k] THEN Append(g[k - 1], m[k]) ELSE g[k - 1]) /\ h[k - 1] = g[k - 1]
        OBVIOUS
      <4> HIDE DEF h
      <4> QED BY <3>3, <4>1
    <3> QED BY <3>1, <3>2, <3>3
  <2>3. IsSel(h, m, keep, k)
    BY <2>2 DEF IsSel
  <2> HIDE DEF h
  <2> QED BY <2>3
<1> HIDE DEF P
<1>3. n \in P
  BY <1>1, <1>2, PlusFold!SetInduction
<1> QED BY <1>3 DEF P

\* Only goes through the sequence element by element.
LEMMA OnlySteps ==
    ASSUME NEW m, NEW n \in Nat, Len(m) = n, NEW S
    PROVE  \E g : /\ g[0] = <<>> /\ g[n] = Only(m, S)
                  /\ \A i \in 1..n :
                        g[i] = IF m[i] \in S THEN Append(g[i - 1], m[i]) ELSE g[i - 1]
<1> DEFINE keep == [i \in 1..n |-> m[i] \in S]
           Def(g) == g = [i \in 0..n |-> IF i = 0 THEN <<>>
                          ELSE IF m[i] \in S THEN Append(g[i - 1], m[i]) ELSE g[i - 1]]
           f == CHOOSE g : Def(g)
<1>1. \E g : Def(g)
  <2>1. PICK g : IsSel(g, m, keep, n)
    BY SelExists
  <2>2. \A i \in 0..n : i # 0 => keep[i] = (m[i] \in S)
    OBVIOUS
  <2> HIDE DEF keep
  <2>3. Def(g)
    BY <2>1, <2>2 DEF IsSel
  <2> QED BY <2>3
<1>2. Def(f)
  <2> HIDE DEF Def
  <2> QED BY <1>1
<1>3. Only(m, S) = f[n]
  BY Zenon DEF Only
<1> HIDE DEF f
<1>4. \A i \in 0..n : f[i] = IF i = 0 THEN <<>>
                          ELSE IF m[i] \in S THEN Append(f[i - 1], m[i]) ELSE f[i - 1]
  BY <1>2, Zenon
<1> HIDE DEF Def
<1>5. f[0] = <<>>
  BY <1>4
<1>6. ASSUME NEW i \in 1..n
      PROVE  f[i] = IF m[i] \in S THEN Append(f[i - 1], m[i]) ELSE f[i - 1]
  <2>1. i \in 0..n /\ i # 0
    OBVIOUS
  <2> QED BY <1>4, <2>1
<1> QED BY <1>3, <1>5, <1>6

\* q has the elements of m at the positions idx, which are those up to i
\* that are in S, in their order.
Picks(q, m, S, i, idx) ==
    /\ idx \in Seq(1..i) /\ Len(q) = Len(idx) /\ q \in Seq(ToSet(m))
    /\ \A j \in 1..Len(idx) : q[j] = m[idx[j]] /\ m[idx[j]] \in S
    /\ \A j, k \in 1..Len(idx) : j < k => idx[j] < idx[k]
    /\ \A p \in 1..i : m[p] \in S => \E j \in 1..Len(idx) : idx[j] = p

\* One more element of the sequence.
LEMMA PicksMore ==
    ASSUME NEW m, NEW S, NEW i \in Nat, NEW idx, NEW q, Picks(q, m, S, i, idx),
           i + 1 \in DOMAIN m
    PROVE  IF m[i + 1] \in S THEN Picks(Append(q, m[i + 1]), m, S, i + 1, Append(idx, i + 1))
           ELSE Picks(q, m, S, i + 1, idx)
<1>1. idx \in Seq(1..(i + 1)) /\ idx \in Seq(1..i) /\ q \in Seq(ToSet(m)) /\ m[i + 1] \in ToSet(m)
  <2>1. 1..i \subseteq 1..(i + 1)
    OBVIOUS
  <2> QED BY <2>1 DEF Picks, ToSet
<1>2. PICK n \in Nat : n = Len(idx) /\ n = Len(q)
  BY <1>1 DEF Picks
<1>3. \A j \in 1..n : idx[j] \in 1..i
  BY <1>1, <1>2, ElementOfSeq
<1>4. \A p \in 1..(i + 1) : p \in 1..i \/ p = i + 1
  OBVIOUS
<1>5. CASE m[i + 1] \notin S
  BY <1>1, <1>4, <1>5 DEF Picks
<1>6. CASE m[i + 1] \in S
  <2> DEFINE a == Append(q, m[i + 1])
             b == Append(idx, i + 1)
  <2>1. /\ b \in Seq(1..(i + 1)) /\ a \in Seq(ToSet(m)) /\ Len(a) = n + 1 /\ Len(b) = n + 1
        /\ b[n + 1] = i + 1 /\ a[n + 1] = m[i + 1]
        /\ \A j \in 1..n : a[j] = q[j] /\ b[j] = idx[j]
    <3>0. i + 1 \in 1..(i + 1)
      OBVIOUS
    <3>1. /\ b \in Seq(1..(i + 1)) /\ Len(b) = Len(idx) + 1 /\ b[Len(idx) + 1] = i + 1
          /\ \A j \in 1..Len(idx) : b[j] = idx[j]
      BY <1>1, <3>0, AppendProperties
    <3>2. /\ a \in Seq(ToSet(m)) /\ Len(a) = Len(q) + 1 /\ a[Len(q) + 1] = m[i + 1]
          /\ \A j \in 1..Len(q) : a[j] = q[j]
      BY <1>1, AppendProperties
    <3> QED BY <1>2, <3>1, <3>2
  <2> HIDE DEF a, b
  <2>2. \A j \in 1..(n + 1) : j \in 1..n \/ j = n + 1
    OBVIOUS
  <2>3. \A j \in 1..(n + 1) : a[j] = m[b[j]] /\ m[b[j]] \in S
    BY <1>2, <1>6, <2>1, <2>2 DEF Picks
  <2>4. ASSUME NEW j \in 1..(n + 1), NEW k \in 1..(n + 1), j < k PROVE b[j] < b[k]
    <3>1. j \in 1..n
      BY <2>4
    <3>2. CASE k \in 1..n
      BY <1>2, <2>1, <2>4, <3>1, <3>2 DEF Picks
    <3>3. CASE k = n + 1
      BY <1>3, <2>1, <3>1, <3>3
    <3> QED BY <2>2, <3>2, <3>3
  <2>5. ASSUME NEW p \in 1..(i + 1), m[p] \in S PROVE \E j \in 1..(n + 1) : b[j] = p
    <3>1. CASE p = i + 1
      BY <2>1, <3>1
    <3>2. CASE p \in 1..i
      <4>1. PICK j \in 1..n : idx[j] = p
        BY <1>2, <2>5, <3>2 DEF Picks
      <4> QED BY <2>1, <4>1
    <3> QED BY <1>4, <3>1, <3>2
  <2>6. Picks(a, m, S, i + 1, b)
    BY <2>1, <2>3, <2>4, <2>5 DEF Picks
  <2> QED BY <1>6, <2>6 DEF a, b
<1> QED BY <1>5, <1>6

\* What Only leaves are the elements of S at their positions, in order.
LEMMA OnlyPicks ==
    ASSUME NEW m, IsSeq(m), NEW S
    PROVE  \E idx : Picks(Only(m, S), m, S, Len(m), idx)
<1>0. PICK n \in Nat : Len(m) = n /\ DOMAIN m = 1..n
  BY DEF IsSeq
<1>1. PICK g : /\ g[0] = <<>> /\ g[n] = Only(m, S)
               /\ \A i \in 1..n : g[i] = IF m[i] \in S THEN Append(g[i - 1], m[i]) ELSE g[i - 1]
  BY <1>0, OnlySteps
<1> DEFINE P == {i \in 0..n : \E idx : Picks(g[i], m, S, i, idx)}
<1>2. 0 \in P
  <2>1. Picks(<<>>, m, S, 0, <<>>)
    BY DEF Picks
  <2> QED BY <1>1, <2>1
<1>3. ASSUME NEW i \in 1..n, i - 1 \in P PROVE i \in P
  <2>1. PICK idx : Picks(g[i - 1], m, S, i - 1, idx)
    BY <1>3
  <2>2. i - 1 \in Nat /\ (i - 1) + 1 = i /\ i \in DOMAIN m
    BY <1>0
  <2>3. IF m[i] \in S THEN Picks(Append(g[i - 1], m[i]), m, S, i, Append(idx, i))
        ELSE Picks(g[i - 1], m, S, i, idx)
    BY <2>1, <2>2, PicksMore
  <2>4. \E jdx : Picks(g[i], m, S, i, jdx)
    BY <1>1, <2>3
  <2> QED BY <2>4
<1> HIDE DEF P
<1>4. n \in P
  BY <1>2, <1>3, PlusFold!SetInduction
<1> QED BY <1>0, <1>1, <1>4 DEF P

\* The members of a sequence with one more element.
LEMMA ToSetAppend ==
    ASSUME NEW T, NEW m \in Seq(T), NEW x
    PROVE  \A v : v \in ToSet(Append(m, x)) <=> v \in ToSet(m) \/ v = x
<1> PICK n : n = Len(m)
  OBVIOUS
<1>1. n \in Nat /\ DOMAIN m = 1..n
  OBVIOUS
<1>2. /\ DOMAIN Append(m, x) = 1..(n + 1) /\ Append(m, x)[n + 1] = x
      /\ \A j \in 1..n : Append(m, x)[j] = m[j]
  OBVIOUS
<1>3. \A j : j \in 1..(n + 1) <=> (j \in 1..n \/ j = n + 1)
  BY <1>1
<1> DEFINE a == Append(m, x)
<1> HIDE DEF a
<1>4. DOMAIN a = 1..(n + 1) /\ a[n + 1] = x /\ \A j \in 1..n : a[j] = m[j]
  BY <1>2 DEF a
<1>5. \A v : v \in ToSet(a) <=> v \in ToSet(m) \/ v = x
  BY <1>1, <1>3, <1>4 DEF ToSet
<1> QED BY <1>5 DEF a

\* What Minus_ leaves of a sequence is a sequence of the other elements.
LEMMA MinusSet ==
    ASSUME NEW T, NEW m \in Seq(T), NEW S
    PROVE  Minus_(m, S) \in Seq(T) /\ ToSet(Minus_(m, S)) = ToSet(m) \ S
<1> DEFINE R == {x \in ToSet(m) : x \notin S}
           q == Minus_(m, S)
<1>1. q = Only(m, R)
  BY DEF Minus_, Select
<1>2. IsSeq(m) /\ ToSet(m) \subseteq T
  BY DEF IsSeq, ToSet
<1>3. PICK idx : Picks(q, m, R, Len(m), idx)
  <2> HIDE DEF q, R
  <2> QED BY <1>1, <1>2, OnlyPicks
<1> HIDE DEF q
<1>4. PICK n \in Nat : n = Len(m) /\ DOMAIN m = 1..n
  OBVIOUS
<1>5. PICK k \in Nat : k = Len(q) /\ k = Len(idx) /\ DOMAIN q = 1..k
  BY <1>3 DEF Picks
<1>6. /\ \A j \in 1..k : q[j] = m[idx[j]] /\ m[idx[j]] \in R
      /\ \A p \in 1..n : m[p] \in R => \E j \in 1..k : idx[j] = p
  BY <1>3, <1>4, <1>5 DEF Picks
<1>7. q \in Seq(T)
  BY <1>2, <1>3 DEF Picks
<1>8. \A v \in ToSet(q) : v \in R
  BY <1>5, <1>6 DEF ToSet
<1>9. ASSUME NEW v \in R PROVE v \in ToSet(q)
  <2>1. PICK p \in 1..n : m[p] = v
    BY <1>4 DEF ToSet
  <2>2. PICK j \in 1..k : idx[j] = p
    BY <1>6, <2>1
  <2> QED BY <1>5, <1>6, <2>1, <2>2 DEF ToSet
<1> QED BY <1>7, <1>8, <1>9 DEF q

\* Adding one member to a set.
LEMMA PlusOneMember ==
    ASSUME NEW m, NEW x
    PROVE  Plus(m, <<x>>) = PlusOne(m, x)
<1> DEFINE seq == <<x>>
           h == [i \in 0..1 |-> IF i = 0 THEN m ELSE PlusOne(m, x)]
<1>0. PICK n \in Nat : n = 1
  OBVIOUS
<1>1. DOMAIN seq = 1..n /\ seq[n] = x
  BY <1>0
<1>2. h[0] = m /\ h[n] = PlusOne(m, x)
  BY <1>0
<1> HIDE DEF seq, h
<1>3. \A i \in 1..n : h[i] = PlusOne(h[i - 1], seq[i])
  <2> SUFFICES h[n] = PlusOne(h[0], seq[n])
    BY <1>0
  <2> QED BY <1>1, <1>2
<1>4. PlusFold!Fold(m, seq) = h[n]
  BY <1>1, <1>2, <1>3, PlusFold!FoldIs
<1>5. FoldLeft(PlusOne, m, seq) = PlusFold!Fold(m, seq)
  BY Zenon DEF PlusFold!Fold, PlusFold!Iter, PlusFold!IsIter, FoldLeft, MapThenFoldSet, Max, PlusFold!Top
<1> QED BY <1>2, <1>4, <1>5 DEF Plus, seq

\* A sequence is a sequence of its members.
LEMMA OfItsMembers ==
    ASSUME NEW T, NEW m \in Seq(T)
    PROVE  m \in Seq(ToSet(m))
BY DEF ToSet

\* Adding a member leaves a sequence of the members with that one.
LEMMA PlusSet ==
    ASSUME NEW T, NEW m \in Seq(T), NEW x
    PROVE  /\ Plus(m, <<x>>) \in Seq(ToSet(Plus(m, <<x>>)))
           /\ ToSet(Plus(m, <<x>>)) = ToSet(m) \cup {x}
<1>1. CASE x \in ToSet(m)
  <2>1. Plus(m, <<x>>) = m
    BY <1>1, PlusOneMember DEF PlusOne
  <2> QED BY <1>1, <2>1, OfItsMembers
<1>2. CASE x \notin ToSet(m)
  <2>1. Plus(m, <<x>>) = Append(m, x)
    BY <1>2, PlusOneMember DEF PlusOne
  <2>2. \A v : v \in ToSet(Append(m, x)) <=> v \in ToSet(m) \/ v = x
    BY ToSetAppend
  <2>3. m \in Seq(T \cup {x})
    OBVIOUS
  <2>4. Append(m, x) \in Seq(T \cup {x})
    BY <2>3
  <2> QED BY <2>1, <2>2, <2>4, OfItsMembers
<1> QED BY <1>1, <1>2

-----------------------------------------------------------------------------
(* SMOVE *)

\* the data of a set is a sequence of its members
Listed(v) == v.type = "set" => v.data \in Seq(ToSet(v.data))

\* What exec_smove does to its source.
LEMMA SourceEffect ==
    ASSUME NEW v, Listed(v), NEW x
    PROVE  LET r == SMoveSource(v, x)
           IN  /\ Listed(r.v) /\ r.exp = Keep
               /\ \/ /\ r.st = "ok" /\ Holds(v, x)
                     /\ \A m : Holds(r.v, m) <=> Holds(v, m) /\ m # x
                  \/ r.st \in {"abort_zero", "bad_type"} /\ r.v = v
<1> DEFINE r == SMoveSource(v, x)
           remains == Minus_(v.data, {x})
<1>1. \A w, st : Status(w, st).v = w /\ Status(w, st).st = st /\ Status(w, st).exp = Keep
  BY DEF Status, Done
<1>2. CASE v.type = "set" /\ x \in ToSet(v.data)
  <2>1. r = SetLeft(remains, "ok", <<>>, 0)
    BY <1>2 DEF SMoveSource, OfType
  <2>2. remains \in Seq(ToSet(v.data)) /\ ToSet(remains) = ToSet(v.data) \ {x}
    BY <1>2, MinusSet DEF Listed
  <2>3. r.st = "ok" /\ r.exp = Keep /\ r.v = IF remains = <<>> THEN Absent ELSE SetVal(remains)
    BY <2>1 DEF SetLeft, Done
  <2> HIDE DEF r, remains
  <2>4. CASE remains = <<>>
    <3>1. ToSet(<<>>) = {}
      BY DEF ToSet
    <3> QED BY <1>2, <2>2, <2>3, <2>4, <3>1 DEF Holds, Listed, Absent, r
  <2>5. CASE remains # <<>>
    <3>1. r.v.type = "set" /\ r.v.data = remains
      BY <2>3, <2>5 DEF SetVal, Val
    <3>2. remains \in Seq(ToSet(remains))
      BY <2>2, OfItsMembers
    <3> QED BY <1>2, <2>2, <2>3, <3>1, <3>2 DEF Holds, Listed, r
  <2> QED BY <2>4, <2>5
<1>3. CASE v.type = "set" /\ x \notin ToSet(v.data)
  <2>1. r = Status(v, "abort_zero")
    BY <1>3 DEF SMoveSource, OfType
  <2> QED BY <1>1, <2>1
<1>4. CASE v.type # "set"
  <2>1. r = Status(v, "abort_zero") \/ r = Status(v, "bad_type")
    BY <1>4 DEF SMoveSource, OfType
  <2> QED BY <1>1, <2>1
<1> QED BY <1>2, <1>3, <1>4

\* What it does to its destination.
LEMMA DestEffect ==
    ASSUME NEW v, Listed(v), NEW x
    PROVE  LET r == SMoveDest(v, x)
           IN  /\ Listed(r.v) /\ r.exp = Keep /\ r.st = "send_one"
               /\ \A m : Holds(r.v, m) <=> Holds(v, m) \/ m = x
<1> DEFINE r == SMoveDest(v, x)
           old == IF v.type = "set" THEN v.data ELSE <<>>
           new == Plus(old, <<x>>)
<1>1. /\ r.exp = Keep /\ r.st = "send_one"
      /\ r.v.type = "set" /\ r.v.data = new
  BY DEF SMoveDest, Done, SetVal, Val
<1>2. old \in Seq(ToSet(old))
  <2>1. <<>> \in Seq(ToSet(<<>>))
    OBVIOUS
  <2>2. CASE v.type = "set"
    <3>1. old = v.data
      BY <2>2
    <3> HIDE DEF old
    <3> QED BY <2>2, <3>1 DEF Listed
  <2>3. CASE v.type # "set"
    <3>1. old = <<>>
      BY <2>3
    <3> HIDE DEF old
    <3> QED BY <2>1, <3>1
  <2> QED BY <2>2, <2>3
<1>3. \A m : m \in ToSet(old) <=> Holds(v, m)
  <2>1. ToSet(<<>>) = {}
    BY DEF ToSet
  <2> QED BY <2>1 DEF Holds
<1> HIDE DEF old
<1>4. new \in Seq(ToSet(new)) /\ ToSet(new) = ToSet(old) \cup {x}
  BY <1>2, PlusSet
<1> HIDE DEF new, r
<1> QED BY <1>1, <1>3, <1>4 DEF Listed, Holds, r

\* The handler of SMOVE is the source's for the first key and the
\* destination's for the second.
LEMMA HandleSmove ==
    ASSUME NEW c, c.catg = "set", c.cmd = "smove", NEW X
    PROVE  /\ Handle(c, 1, X) \subseteq {SMoveSource(X.v, c.m)}
           /\ X.done # 0 => Handle(c, 2, X) \subseteq {SMoveDest(X.v, c.m)}
<1>1. SetCmd(c, 1, X) = {SMoveSource(X.v, c.m)}
  BY DEF SetCmd
<1>2. X.done # 0 => SetCmd(c, 2, X) = {SMoveDest(X.v, c.m)}
  BY DEF SetCmd
<1>3. \A i : Handle(c, i, X) \subseteq SetCmd(c, i, X)
  BY DEF Handle
<1> QED BY <1>1, <1>2, <1>3

\* A SMOVE that runs is at its source, or has taken the member from it.
AtSource(x) == AtKey(x, 2) /\ x.i = 1 /\ x.st[1] = "continue" /\ x.st[2] = "continue"
AtDest(x)   == AtKey(x, 2) /\ x.i = 2 /\ x.st[1] = "ok" /\ x.st[2] = "continue"

\* A SMOVE at its destination has one key done; it has two after it.
LEMMA PhasesDone ==
    ASSUME NEW x, AtSource(x) \/ AtDest(x)
    PROVE  /\ AtDest(x) => KeysDone(x) = 1
           /\ \A y : Noted(x, 2, [st |-> "ok"], y) /\ AtSource(x) => KeysDone(y) = 1
           /\ \A y : Noted(x, 2, [st |-> "send_one"], y) /\ AtDest(x) => KeysDone(y) = 2
<1>1. ASSUME NEW y, DOMAIN y.st = 1..2, y.st[1] = "ok", y.st[2] = "continue"
      PROVE  KeysDone(y) = 1
  <2>1. {i \in DOMAIN y.st : y.st[i] \notin Pending} = {1}
    BY <1>1 DEF Pending
  <2> QED BY <2>1, FS_Singleton DEF KeysDone
<1>2. ASSUME NEW y, DOMAIN y.st = 1..2, y.st[1] = "ok", y.st[2] = "send_one"
      PROVE  KeysDone(y) = 2
  <2>1. {i \in DOMAIN y.st : y.st[i] \notin Pending} = 1..2
    BY <1>2 DEF Pending
  <2>2. Cardinality(1..2) = 2
    <3>1. PICK n \in Nat : n = 2
      OBVIOUS
    <3>2. n \in Nat /\ n >= 1
      BY <3>1
    <3>3. Cardinality(1..n) = n
      BY <3>2, FS_Interval
    <3> QED BY <3>1, <3>3
  <2> QED BY <2>1, <2>2 DEF KeysDone
<1>3. AtDest(x) => KeysDone(x) = 1
  BY <1>1 DEF AtDest, AtKey
<1>4. ASSUME NEW y, Noted(x, 2, [st |-> "ok"], y), AtSource(x) PROVE KeysDone(y) = 1
  <2>1. DOMAIN y.st = 1..2 /\ y.st = [x.st EXCEPT ![1] = "ok"] /\ DOMAIN x.st = 1..2
    BY <1>4 DEF Noted, AtSource, AtKey
  <2>2. y.st[1] = "ok" /\ y.st[2] = "continue"
    BY <2>1, <1>4 DEF AtSource
  <2> QED BY <1>1, <2>1, <2>2
<1>5. ASSUME NEW y, Noted(x, 2, [st |-> "send_one"], y), AtDest(x) PROVE KeysDone(y) = 2
  <2>1. DOMAIN y.st = 1..2 /\ y.st = [x.st EXCEPT ![2] = "send_one"] /\ DOMAIN x.st = 1..2
    BY <1>5 DEF Noted, AtDest, AtKey
  <2>2. y.st[1] = "ok" /\ y.st[2] = "send_one"
    BY <2>1, <1>5 DEF AtDest
  <2> QED BY <1>2, <2>1, <2>2
<1> QED BY <1>3, <1>4, <1>5

\* Where a SMOVE goes from its source and from its destination.
LEMMA SmoveGoesOn ==
    ASSUME NEW c, NEW x, NEW r, NEW z, z = Continue(c, x, x.i, r)
    PROVE  /\ AtSource(x) /\ r.st = "ok" => AtDest(z) /\ z.c = x.c
           /\ AtSource(x) /\ r.st \in {"abort_zero", "bad_type"} => z.c = 0
           /\ AtDest(x) /\ r.st = "send_one" => z.c = 0
<1> DEFINE i == x.i
           y == After(x, x.i, r)
<1>1. \A w, q : Finished(w, q).c = 0
  BY DEF Finished, Idle
<1>2. ASSUME AtKey(x, 2)
      PROVE  GoesOn(c, x, 2, r, i, y, z) /\ Noted(x, 2, r, y)
  BY <1>2, ContinueCases, AfterKey
<1>3. Noted(x, 2, r, y) => Noted(x, 2, [st |-> r.st], y)
  BY DEF Noted
<1> HIDE DEF y
<1>4. ~NextKey("bad_type")
  <2>1. \A j \in DOMAIN Statuses : Statuses[j] = "bad_type" => j = 20
    BY DEF Statuses
  <2>2. 20 \in DOMAIN Statuses /\ Statuses[20] = "bad_type"
    BY DEF Statuses
  <2>3. \A j \in DOMAIN Statuses : Statuses[j] = "blocked" => j = 15
    BY DEF Statuses
  <2>4. 15 \in DOMAIN Statuses /\ Statuses[15] = "blocked"
    BY DEF Statuses
  <2> HIDE DEF Statuses
  <2>5. Rank("bad_type") = 20 /\ Rank("blocked") = 15
    BY <2>1, <2>2, <2>3, <2>4, Zenon DEF Rank
  <2> QED BY <2>5 DEF NextKey
<1>5. ASSUME AtSource(x), r.st = "ok" PROVE AtDest(z) /\ z.c = x.c
  <2>1. GoesOn(c, x, 2, r, i, y, z) /\ Noted(x, 2, r, y) /\ i = 1
    BY <1>2, <1>5 DEF AtSource
  <2>2. KeysDone(y) = 1
    BY <1>3, <1>5, <2>1, PhasesDone
  <2>3. z = [y EXCEPT !.i = 2]
    <3>1. (1 % 2) + 1 = 2
      OBVIOUS
    <3> HIDE DEF i
    <3> QED BY <1>5, <2>1, <2>2, <3>1, Ranks DEF GoesOn
  <2>4. DOMAIN x.dep = 1..2 /\ DOMAIN x.st = 1..2
    BY <1>5 DEF AtSource, AtKey
  <2>5. z.c = x.c /\ z.i = 2 /\ z.st = y.st /\ z.dep = x.dep /\ z.part = y.part /\ z.ival = y.ival
           /\ DOMAIN z = SessFields
    BY <2>1, <2>3 DEF Noted, SessFields, Idle
  <2>6. y.st[1] = "ok" /\ y.st[2] = "continue"
    BY <1>5, <2>1, <2>4 DEF AtSource, Noted
  <2> QED BY <2>1, <2>4, <2>5, <2>6 DEF AtDest, AtKey, Noted, Pending
<1>6. ASSUME AtSource(x), r.st \in {"abort_zero", "bad_type"} PROVE z.c = 0
  <2>1. GoesOn(c, x, 2, r, i, y, z)
    BY <1>2, <1>6 DEF AtSource
  <2> QED BY <1>1, <1>4, <1>6, <2>1, Ranks DEF GoesOn
<1>7. ASSUME AtDest(x), r.st = "send_one" PROVE z.c = 0
  <2>1. GoesOn(c, x, 2, r, i, y, z) /\ Noted(x, 2, r, y)
    BY <1>2, <1>7 DEF AtDest
  <2>2. KeysDone(y) = 2
    BY <1>3, <1>7, <2>1, PhasesDone
  <2> QED BY <1>1, <1>7, <2>1, <2>2, Ranks DEF GoesOn
<1> QED BY <1>5, <1>6, <1>7

\* Only SMOVE runs, on keys that do not expire.
OnlySmove == (\A c \in DOMAIN M.calls : M.calls[c].cmd = "smove") /\ (\A k \in Keys : M.db[k].exp = 0)

Held(m)   == {k \in Keys : Holds(db[k].v, m)}
Movers(m) == {s \in Sessions : Moving(s, m)}

\* A member is in one key and moved by none, or in none and moved by one.
InOnePlace(m) ==
    \/ (\E k : Held(m) = {k}) /\ Movers(m) = {}
    \/ Held(m) = {} /\ (\E s : Movers(m) = {s})

\* A set that is well formed is listed.
LEMMA ListedEntry ==
    ASSUME NEW e, IsEntry(e)
    PROVE  Listed(e.v)
<1>1. WellFormed(e.v)
  BY DEF IsEntry
<1> PICK v : v = e.v
  OBVIOUS
<1>2. v.type = "set" => v.data \in Seq(ToSet(v.data))
  BY <1>1 DEF WellFormed, Absent, Untyped, Scrambled, IsStream, Stream, IsSet, IsSeq
<1> QED BY <1>2 DEF Listed

Plain      == \A k \in Keys : db[k].exp = 0 /\ Listed(db[k].v)
SmoveRuns  == \A s \in Sessions : sess[s].c # 0 => AtSource(sess[s]) \/ AtDest(sess[s])
SingleKept == \A c \in DOMAIN M.calls :
                  LET m == M.calls[c].m
                  IN  Cardinality({k \in Keys : Holds(M.db[k].v, m)}) = 1 => InOnePlace(m)

SmoveInv == OnlySmove => Plain /\ SmoveRuns /\ SingleKept

\* A step of a SMOVE ends with nothing changed, takes the member from the
\* source, or gives it to the destination and ends.
Moves(m, s, k) ==
    \/ /\ ~AtDest(sess[s]) /\ sess'[s].c = 0
       /\ \A q : Holds(db'[k].v, q) <=> Holds(db[k].v, q)
    \/ /\ AtSource(sess[s]) /\ AtDest(sess'[s]) /\ sess'[s].c = sess[s].c
       /\ Holds(db[k].v, m)
       /\ \A q : Holds(db'[k].v, q) <=> Holds(db[k].v, q) /\ q # m
    \/ /\ AtDest(sess[s]) /\ sess'[s].c = 0
       /\ \A q : Holds(db'[k].v, q) <=> Holds(db[k].v, q) \/ q = m

\* A step of a SMOVE is one of the three moves, on one key.
LEMMA SmoveStep ==
    ASSUME Basics, OnlySmove, Plain, SmoveRuns, NEW s \in M.sessions, Step(s)
    PROVE  \E k \in Keys : /\ DOMAIN db' = Keys /\ \A j \in Keys \ {k} : db'[j] = db[j]
                           /\ db'[k].exp = 0 /\ Listed(db'[k].v)
                           /\ Moves(CallOf(s).m, s, k)
<1> DEFINE x == sess[s]
           c == CallOf(s)
           i == x.i
           k == c.keys[i]
           X == Context(x, k, i)
           v == db[k].v
<1>1. x.c # 0 /\ x.c \in DOMAIN M.calls /\ s \in Sessions
  BY KeyStep
<1>2. IsMenu(M)
  BY MenuOK DEF Basics
<1>3. c.catg = "set" /\ c.cmd = "smove" /\ c.keys \in Seq(Keys) /\ Len(c.keys) = 2
  BY <1>1, <1>2, CallFacts DEF IsMenu, CallOf, OnlySmove
<1>4. AtSource(x) \/ AtDest(x)
  BY <1>1 DEF SmoveRuns
<1>5. AtKey(x, 2) /\ i \in {1, 2}
  BY <1>4 DEF AtSource, AtDest
<1>6. NextIndex(x) = i
  BY <1>5, NextIsAtKey
<1>7. k \in Keys
  <2> HIDE DEF i, c
  <2> QED BY <1>3, <1>5
<1>8. db[k].exp = 0 /\ Listed(v)
  BY <1>7 DEF Plain
<1>9. Fetched(db[k], now) = db[k]
  BY <1>8 DEF Fetched
<1>10. X.v = v /\ X.done = KeysDone(x)
  BY <1>9 DEF Context
<1>11. PICK r \in Handle(c, i, X) :
          /\ db' = [db EXCEPT ![k] = Stored(Fetched(db[k], now), r)]
          /\ sess'[s] = Continue(c, x, i, r)
  <2> DEFINE j == NextIndex(x)
             l == c.keys[j]
  <2>1. \E r \in Handle(c, j, Context(x, l, j)) :
           /\ db' = [db EXCEPT ![l] = Stored(Fetched(db[l], now), r)]
           /\ sess'[s] = Continue(c, x, j, r)
    BY KeyStep, Zenon
  <2> QED BY <1>6, <2>1
<1> HIDE DEF X
<1>12. DOMAIN db = Keys
  BY DEF Basics
<1> HIDE DEF c, k
<1>13. DOMAIN db' = Keys /\ (\A j \in Keys \ {k} : db'[j] = db[j]) /\ db'[k] = Stored(db[k], r)
  BY <1>7, <1>9, <1>11, <1>12
<1>14. db'[k].v = r.v
  BY <1>13 DEF Stored, NoEntry, Entry
<1>15. r.exp = Keep => db'[k].exp = 0
  BY <1>8, <1>13 DEF Stored, NoEntry, Entry
<1> DEFINE z == sess'[s]
<1>16. /\ AtSource(x) /\ r.st = "ok" => AtDest(z) /\ z.c = x.c
       /\ AtSource(x) /\ r.st \in {"abort_zero", "bad_type"} => z.c = 0
       /\ AtDest(x) /\ r.st = "send_one" => z.c = 0
  BY <1>11, SmoveGoesOn
<1>17. CASE AtSource(x)
  <2>1. r = SMoveSource(v, c.m) /\ ~AtDest(x)
    <3>1. i = 1 /\ ~AtDest(x)
      BY <1>17 DEF AtSource, AtDest
    <3>2. Handle(c, 1, X) \subseteq {SMoveSource(X.v, c.m)}
      BY <1>3, HandleSmove
    <3> HIDE DEF v, i
    <3> QED BY <1>10, <1>11, <3>1, <3>2
  <2>2. /\ Listed(r.v) /\ r.exp = Keep
        /\ \/ /\ r.st = "ok" /\ Holds(v, c.m)
              /\ \A m : Holds(r.v, m) <=> Holds(v, m) /\ m # c.m
           \/ r.st \in {"abort_zero", "bad_type"} /\ r.v = v
    BY <1>8, <2>1, SourceEffect
  <2>3. Moves(c.m, s, k)
    BY <1>14, <1>16, <1>17, <2>1, <2>2 DEF Moves
  <2> QED BY <1>7, <1>13, <1>14, <1>15, <2>2, <2>3 DEF c
<1>18. CASE AtDest(x)
  <2>1. r = SMoveDest(v, c.m)
    <3>1. i = 2 /\ KeysDone(x) = 1
      BY <1>18, PhasesDone DEF AtDest
    <3>2. X.done # 0
      BY <1>10, <3>1
    <3>3. Handle(c, 2, X) \subseteq {SMoveDest(X.v, c.m)}
      BY <1>3, <3>2, HandleSmove
    <3> HIDE DEF v, i
    <3> QED BY <1>10, <1>11, <3>1, <3>3
  <2>2. /\ Listed(r.v) /\ r.exp = Keep /\ r.st = "send_one"
        /\ \A m : Holds(r.v, m) <=> Holds(v, m) \/ m = c.m
    BY <1>8, <2>1, DestEffect
  <2>3. Moves(c.m, s, k)
    BY <1>14, <1>16, <1>18, <2>2 DEF Moves
  <2> QED BY <1>7, <1>13, <1>14, <1>15, <2>2, <2>3 DEF c
<1> QED BY <1>4, <1>17, <1>18

\* At first nothing is on its way, so a member that one key has is in one
\* place.
LEMMA SmoveInit == Init => SmoveInv
<1> SUFFICES ASSUME Init, OnlySmove PROVE Plain /\ SmoveRuns /\ SingleKept
  BY DEF SmoveInv
<1>1. IsMenu(M) /\ db = M.db
  BY MenuOK DEF Init
<1>2. \A s \in Sessions : sess[s].c = 0
  BY DEF Init, Idle
<1>3. Plain
  BY <1>1, ListedEntry DEF Plain, OnlySmove, IsMenu
<1>4. SingleKept
  <2>1. ASSUME NEW m, Cardinality({k \in Keys : Holds(M.db[k].v, m)}) = 1 PROVE InOnePlace(m)
    <3>1. Held(m) = {k \in Keys : Holds(M.db[k].v, m)}
      BY <1>1 DEF Held
    <3>2. IsFiniteSet(Held(m))
      <4>1. Held(m) \subseteq Keys
        BY DEF Held
      <4> QED BY <4>1, KeysAssumption, FS_Subset
    <3>3. \E k : Held(m) = {k}
      BY <2>1, <3>1, <3>2, FS_Singleton
    <3>4. Movers(m) = {}
      BY <1>2 DEF Movers, Moving
    <3> QED BY <3>3, <3>4 DEF InOnePlace
  <2> QED BY <2>1 DEF SingleKept
<1> QED BY <1>2, <1>3, <1>4 DEF SmoveRuns

\* A step in which nothing moves keeps a member in its place.
LEMMA StaysInPlace ==
    ASSUME NEW m, InOnePlace(m), Held(m)' = Held(m), Movers(m)' = Movers(m)
    PROVE  InOnePlace(m)'
BY DEF InOnePlace

\* A step of a SMOVE keeps every member in one place: what exec_smove takes
\* from the source no other session finds, until the destination gets it.
LEMMA SmoveKeeps ==
    ASSUME Basics, OnlySmove, Plain, SmoveRuns, NEW s \in M.sessions, Step(s),
           NEW m, InOnePlace(m)
    PROVE  InOnePlace(m)'
<1> DEFINE x == sess[s]
           c == CallOf(s)
<1>1. /\ s \in Sessions /\ x.c # 0 /\ x.c \in DOMAIN M.calls
      /\ \A t \in Sessions \ {s} : sess'[t] = sess[t]
      /\ menu' = menu
  BY KeyStep
<1>2. PICK k \in Keys : /\ DOMAIN db' = Keys /\ \A j \in Keys \ {k} : db'[j] = db[j]
                        /\ Moves(c.m, s, k)
  BY SmoveStep
<1>3. c.cmd = "smove"
  BY <1>1 DEF OnlySmove, CallOf
<1>4. \A t \in Sessions \ {s} : Moving(t, m)' <=> Moving(t, m)
  BY <1>1 DEF Moving, M
<1>5. Moving(s, m) <=> c.m = m /\ x.st[1] = "ok"
  BY <1>1, <1>3 DEF Moving, CallOf
<1>6. sess'[s].c = 0 => ~Moving(s, m)'
  BY DEF Moving
<1>7. sess'[s].c = x.c => (Moving(s, m)' <=> c.m = m /\ sess'[s].st[1] = "ok")
  BY <1>1, <1>3 DEF Moving, CallOf, M
<1>8. \A j \in Keys \ {k} : Holds(db'[j].v, m) <=> Holds(db[j].v, m)
  BY <1>2
<1>9. AtSource(x) \/ AtDest(x)
  BY <1>1 DEF SmoveRuns
<1>10. (AtSource(x) => x.st[1] = "continue") /\ (AtDest(x) => x.st[1] = "ok")
  BY DEF AtSource, AtDest
<1>11. AtDest(sess'[s]) => sess'[s].st[1] = "ok"
  BY DEF AtDest
<1> DEFINE Hm == Held(m)
           Vm == Movers(m)
           Hn == Held(m)'
           Vn == Movers(m)'
<1>12. \A j : j \in Hm <=> j \in Keys /\ Holds(db[j].v, m)
  BY DEF Held
<1>13. \A j : j \in Hn <=> j \in Keys /\ Holds(db'[j].v, m)
  BY DEF Held
<1>14. \A t : t \in Vm <=> t \in Sessions /\ Moving(t, m)
  BY DEF Movers
<1>15. \A t : t \in Vn <=> t \in Sessions /\ Moving(t, m)'
  BY DEF Movers
<1>16. \/ (\E j : Hm = {j}) /\ Vm = {}
       \/ Hm = {} /\ (\E t : Vm = {t})
  BY DEF InOnePlace
<1> HIDE DEF c, x, Hm, Vm, Hn, Vn
<1>17. \A j \in Keys \ {k} : j \in Hn <=> j \in Hm
  BY <1>8, <1>12, <1>13
<1>18. \A t \in Sessions \ {s} : t \in Vn <=> t \in Vm
  BY <1>4, <1>14, <1>15
<1>19. CASE ~(s \in Vn) /\ ~(s \in Vm) /\ (k \in Hn <=> k \in Hm)
  <2>1. Hn = Hm /\ Vn = Vm
    BY <1>12, <1>13, <1>14, <1>15, <1>17, <1>18, <1>19
  <2> QED BY <2>1, StaysInPlace DEF Hn, Hm, Vn, Vm
<1>20. CASE k \in Hm /\ k \notin Hn /\ s \in Vn
  <2>1. Hm = {k} /\ Vm = {}
    BY <1>16, <1>20
  <2>2. Hn = {} /\ Vn = {s}
    BY <1>1, <1>13, <1>15, <1>17, <1>18, <1>20, <2>1
  <2> QED BY <2>2 DEF InOnePlace, Hn, Vn
<1>21. CASE s \in Vm /\ s \notin Vn /\ k \in Hn
  <2>1. Vm = {s} /\ Hm = {}
    BY <1>16, <1>21
  <2>2. Vn = {} /\ Hn = {k}
    BY <1>13, <1>15, <1>17, <1>18, <1>21, <2>1
  <2> QED BY <2>2 DEF InOnePlace, Hn, Vn
<1>22. CASE c.m = m
  <2>1. CASE ~AtDest(sess[s]) /\ sess'[s].c = 0 /\ (Holds(db'[k].v, m) <=> Holds(db[k].v, m))
    BY <1>5, <1>6, <1>9, <1>10, <1>12, <1>13, <1>14, <1>15, <1>19, <2>1 DEF x
  <2>2. CASE /\ AtSource(sess[s]) /\ AtDest(sess'[s]) /\ sess'[s].c = sess[s].c
             /\ Holds(db[k].v, m) /\ ~Holds(db'[k].v, m)
    BY <1>1, <1>7, <1>11, <1>12, <1>13, <1>15, <1>20, <1>22, <2>2 DEF x
  <2>3. CASE AtDest(sess[s]) /\ sess'[s].c = 0 /\ Holds(db'[k].v, m)
    BY <1>1, <1>5, <1>6, <1>10, <1>13, <1>14, <1>15, <1>21, <1>22, <2>3 DEF x
  <2> QED BY <1>2, <1>22, <2>1, <2>2, <2>3, Zenon DEF Moves
<1>23. CASE c.m # m
  <2>1. (Holds(db'[k].v, m) <=> Holds(db[k].v, m)) /\ (sess'[s].c = 0 \/ sess'[s].c = sess[s].c)
    BY <1>2, <1>23 DEF Moves
  <2> QED BY <1>5, <1>6, <1>7, <1>12, <1>13, <1>14, <1>15, <1>19, <1>23, <2>1 DEF x
<1> QED BY <1>22, <1>23

\* The invariant holds whatever the sessions run next.
LEMMA SmoveKept == Basics /\ SmoveInv /\ [Next]_cvars => SmoveInv'
<1> SUFFICES ASSUME Basics, SmoveInv, [Next]_cvars, OnlySmove' PROVE (Plain /\ SmoveRuns /\ SingleKept)'
  BY DEF SmoveInv
<1>1. menu' = menu
  <2>1. ASSUME NEW s \in M.sessions, NEW c \in DOMAIN M.calls, Start(s, c) PROVE menu' = menu
    BY <2>1, StartStep
  <2>2. ASSUME NEW s \in M.sessions, Step(s) PROVE menu' = menu
    BY <2>2, KeyStep
  <2> QED BY <2>1, <2>2 DEF Next, Tick, cvars
<1>2. OnlySmove
  BY <1>1 DEF OnlySmove, M
<1>3. Plain /\ SmoveRuns /\ SingleKept
  BY <1>2 DEF SmoveInv
<1>4. ASSUME \A m : InOnePlace(m) => InOnePlace(m)' PROVE SingleKept'
  BY <1>1, <1>3, <1>4 DEF SingleKept, M
<1>5. CASE UNCHANGED <<db, menu, sess>>
  <2>1. Plain' /\ SmoveRuns'
    BY <1>3, <1>5 DEF Plain, SmoveRuns
  <2>2. \A m : Held(m)' = Held(m) /\ Movers(m)' = Movers(m)
    BY <1>5 DEF Held, Movers, Moving, M
  <2> QED BY <1>4, <2>1, <2>2, StaysInPlace
<1>6. ASSUME NEW s \in M.sessions, NEW c \in DOMAIN M.calls, Start(s, c)
      PROVE  (Plain /\ SmoveRuns /\ SingleKept)'
  <2> DEFINE n == Len(M.calls[c].keys)
             x == sess'[s]
  <2>1. /\ s \in Sessions /\ sess[s].c = 0 /\ x.i = 1
        /\ x.st = [i \in 1..n |-> "continue"] /\ AtKey(x, n)
        /\ \A t \in Sessions \ {s} : sess'[t] = sess[t]
        /\ UNCHANGED db
    BY <1>6, StartStep
  <2>2. n = 2
    <3>1. IsMenu(M)
      BY MenuOK DEF Basics
    <3> QED BY <1>2, <3>1, CallFacts DEF IsMenu, OnlySmove
  <2>3. x.st[1] = "continue" /\ x.st[2] = "continue" /\ AtKey(x, 2)
    <3> HIDE DEF n, x
    <3> QED BY <2>1, <2>2
  <2>4. AtSource(x)
    BY <2>1, <2>3 DEF AtSource
  <2>5. Plain' /\ SmoveRuns'
    BY <1>3, <2>1, <2>4 DEF Plain, SmoveRuns
  <2>6. ASSUME NEW m PROVE Held(m)' = Held(m) /\ Movers(m)' = Movers(m)
    <3>1. Held(m)' = Held(m)
      BY <2>1 DEF Held
    <3>2. \A t \in Sessions \ {s} : Moving(t, m)' <=> Moving(t, m)
      BY <1>1, <2>1 DEF Moving, M
    <3>3. ~Moving(s, m) /\ ~Moving(s, m)'
      BY <2>1, <2>3 DEF Moving
    <3>4. Movers(m)' = Movers(m)
      BY <3>2, <3>3 DEF Movers
    <3> QED BY <3>1, <3>4
  <2> QED BY <1>4, <2>5, <2>6, StaysInPlace
<1>7. ASSUME NEW s \in M.sessions, Step(s) PROVE (Plain /\ SmoveRuns /\ SingleKept)'
  <2>1. \A t \in Sessions \ {s} : sess'[t] = sess[t]
    BY <1>7, KeyStep
  <2>2. PICK k \in Keys : /\ \A j \in Keys \ {k} : db'[j] = db[j]
                          /\ db'[k].exp = 0 /\ Listed(db'[k].v)
                          /\ Moves(CallOf(s).m, s, k)
    BY <1>2, <1>3, <1>7, SmoveStep
  <2>3. Plain'
    BY <1>3, <2>2 DEF Plain
  <2>4. sess'[s].c = 0 \/ AtDest(sess'[s])
    BY <2>2 DEF Moves
  <2>5. SmoveRuns'
    BY <1>3, <2>1, <2>4 DEF SmoveRuns
  <2> QED BY <1>2, <1>3, <1>4, <1>7, <2>3, <2>5, SmoveKeeps
<1> QED BY <1>5, <1>6, <1>7 DEF Next, Tick, cvars

\* While only SMOVE commands run, on keys that do not expire, a member that
\* one key had at first is in one key or on its way in one session, for any
\* number of keys, sessions and calls: exec_smove takes the member from the
\* source only where it finds it there, and a session at its destination
\* always goes on to give it.
THEOREM MemberConservedCorrect == Spec => []MemberConserved
<1>1. Init => Basics /\ SmoveInv
  BY BasicsInit, SmoveInit
<1>2. Basics /\ SmoveInv /\ [Next]_cvars => (Basics /\ SmoveInv)'
  BY BasicsKept, SmoveKept
<1>3. Basics /\ SmoveInv => MemberConserved
  <2> SUFFICES ASSUME SmoveInv, OnlySmove, NEW c \in DOMAIN M.calls,
                      Cardinality({k \in Keys : Holds(M.db[k].v, M.calls[c].m)}) = 1
               PROVE  Cardinality(Held(M.calls[c].m)) + Cardinality(Movers(M.calls[c].m)) = 1
    BY DEF MemberConserved, OnlySmove, Held, Movers
  <2> DEFINE m == M.calls[c].m
  <2>1. InOnePlace(m)
    BY DEF SmoveInv, SingleKept
  <2>2. Cardinality({}) = 0 /\ \A y : Cardinality({y}) = 1
    BY FS_EmptySet, FS_Singleton
  <2> HIDE DEF m
  <2>3. Cardinality(Held(m)) + Cardinality(Movers(m)) = 1
    <3>1. \/ Cardinality(Held(m)) = 1 /\ Cardinality(Movers(m)) = 0
          \/ Cardinality(Held(m)) = 0 /\ Cardinality(Movers(m)) = 1
      <4>1. CASE (\E k : Held(m) = {k}) /\ Movers(m) = {}
        BY <2>2, <4>1, Zenon
      <4>2. CASE Held(m) = {} /\ (\E s : Movers(m) = {s})
        BY <2>2, <4>2, Zenon
      <4> QED BY <2>1, <4>1, <4>2 DEF InOnePlace
    <3> QED BY <3>1
  <2> QED BY <2>3 DEF m
<1> QED BY <1>1, <1>2, <1>3, PTL DEF Spec

-----------------------------------------------------------------------------
(* The values, for every range, offset and count *)

\* A sequence is what is before a position and what is after it.
LEMMA Pieces ==
    ASSUME NEW T, NEW z \in Seq(T), NEW i \in 0..Len(z)
    PROVE  /\ SubSeq(z, 1, i) \o SubSeq(z, i + 1, Len(z)) = z
           /\ SubSeq(z, 1, i) \in Seq(T) /\ SubSeq(z, i + 1, Len(z)) \in Seq(T)
           /\ Len(SubSeq(z, 1, i)) = i /\ Len(SubSeq(z, i + 1, Len(z))) = Len(z) - i
<1>1. \A j \in 1..Len(z) : z[j] \in T
  BY ElementOfSeq
<1>2. Len(z) \in Nat
  OBVIOUS
<1>3. SubSeq(z, 1, i) \o SubSeq(z, i + 1, Len(z)) = SubSeq(z, 1, Len(z))
  <2>1. 1 \in 1..(Len(z) + 1) /\ i \in (1 - 1)..Len(z) /\ Len(z) \in i..Len(z)
    BY <1>2
  <2> QED BY <2>1, ConcatAdjacentSubSeq
<1>4. SubSeq(z, 1, i) \in Seq(T) /\ Len(SubSeq(z, 1, i)) = i
  BY <1>1, <1>2, SubSeqProperties
<1>5. SubSeq(z, i + 1, Len(z)) \in Seq(T) /\ Len(SubSeq(z, i + 1, Len(z))) = Len(z) - i
  <2>1. \A j \in (i + 1)..Len(z) : z[j] \in T
    BY <1>1, <1>2
  <2> QED BY <1>2, <2>1, SubSeqProperties
<1> QED BY <1>3, <1>4, <1>5, SubSeqFull

\* LTRIM leaves what LRANGE answers, for every list and all indices.
THEOREM ListRangeCorrect ==
    ASSUME NEW T, NEW v, v.type = "list", v.data \in Seq(T), NEW from \in Int, NEW to \in Int
    PROVE  ListRange(v, from, to)
<1> DEFINE n == Len(v.data)
           r == Clip(n, from, to)
           a == r[1]
           b == r[2]
           out == SubSeq(v.data, a + 1, b)
<1>1. LRange(v, from, to).rep = out
  BY DEF LRange, OfType, Data, Done, Slice
<1>2. n \in Nat /\ a \in 0..n /\ b \in 0..n
  BY DEF Clip
<1> HIDE DEF r
<1>3. LTrim(v, from, to).v = IF a = 0 /\ n - b = 0 THEN v
                             ELSE IF a + (n - b) >= n THEN Absent ELSE List(SubSeq(v.data, a + 1, n - (n - b)))
  BY DEF LTrim, OfType, Done, r
<1> HIDE DEF a, b
<1>4. Elems(v) = v.data /\ Elems(Absent) = <<>> /\ \A l : Elems(List(l)) = l
  BY DEF Elems, Absent, List, Val
<1>5. n - (n - b) = b
  BY <1>2
<1>6. CASE a = 0 /\ n - b = 0
  <2>1. out = v.data
    BY <1>2, <1>6
  <2> HIDE DEF out
  <2> QED BY <1>1, <1>3, <1>4, <1>6, <2>1 DEF ListRange
<1>7. CASE ~(a = 0 /\ n - b = 0) /\ a + (n - b) >= n
  <2>1. out = <<>>
    BY <1>2, <1>7
  <2> HIDE DEF out
  <2> QED BY <1>1, <1>3, <1>4, <1>7, <2>1 DEF ListRange
<1>8. CASE ~(a = 0 /\ n - b = 0) /\ ~(a + (n - b) >= n)
  <2> HIDE DEF n
  <2> QED BY <1>1, <1>3, <1>4, <1>5, <1>8 DEF ListRange
<1> QED BY <1>6, <1>7, <1>8
\* LPOP and RPOP answer what they remove, and an empty list is deleted.
THEOREM ListPopCorrect ==
    ASSUME NEW T, NEW v, v.type = "list", v.data \in Seq(T), v.data # <<>>
    PROVE  ListPops(v)
<1> DEFINE s == v.data
           n == Len(s)
<1>1. n \in Nat \ {0}
  OBVIOUS
<1>2. <<Head(s)>> \o Tail(s) = s /\ (Tail(s) = <<>> <=> n = 1)
  <2>1. Tail(s) = SubSeq(s, 2, n) /\ Head(s) = s[1]
    BY TailIsSubSeq
  <2>2. 1 \in 1..n /\ n \in 1..n
    BY <1>1
  <2>3. SubSeq(s, 1, n) = <<s[1]>> \o SubSeq(s, 2, n)
    <3>1. SubSeq(s, 1, n) = <<s[1]>> \o SubSeq(s, 1 + 1, n)
      BY <2>2, SubSeqRecursiveFirst
    <3>2. 1 + 1 = 2
      OBVIOUS
    <3> QED BY ONLY <3>1, <3>2
  <2>4. Len(Tail(s)) = n - 1 /\ Tail(s) \in Seq(T)
    BY HeadTailProperties
  <2>5. SubSeq(s, 1, n) = s
    BY SubSeqFull
  <2>6. <<Head(s)>> \o Tail(s) = s
    BY <2>1, <2>3, <2>5, Zenon
  <2>7. Tail(s) = <<>> <=> Len(Tail(s)) = 0
    BY <2>4, EmptySeq
  <2> HIDE DEF s
  <2> QED BY <1>1, <2>4, <2>6, <2>7
<1>3. Front(s) \o <<Last(s)>> = s /\ (Front(s) = <<>> <=> n = 1)
  <2>1. 1 \in 1..n /\ n \in 1..n /\ n - 1 \in 0..n
    BY <1>1
  <2>2. SubSeq(s, 1, n) = SubSeq(s, 1, n - 1) \o <<s[n]>>
    BY <2>1, SubSeqRecursiveSecond
  <2>3. Len(SubSeq(s, 1, n - 1)) = n - 1 /\ SubSeq(s, 1, n - 1) \in Seq(T)
    BY <2>1, Pieces
  <2>4. SubSeq(s, 1, n) = s
    BY SubSeqFull
  <2>5. Front(s) = SubSeq(s, 1, n - 1) /\ Last(s) = s[n]
    BY DEF Front, Last
  <2>6. Front(s) \o <<Last(s)>> = s
    BY <2>2, <2>4, <2>5, Zenon
  <2>7. Front(s) = <<>> <=> Len(Front(s)) = 0
    BY <2>3, <2>5, EmptySeq
  <2> HIDE DEF s, n
  <2>8. Len(Front(s)) = n - 1
    BY <2>3, <2>5
  <2>9. n - 1 = 0 <=> n = 1
    BY <1>1
  <2> QED BY <2>6, <2>7, <2>8, <2>9
<1>4. Elems(Absent) = <<>> /\ \A l : Elems(List(l)) = l /\ List(l) # Absent
  BY DEF Elems, Absent, List, Val
<1>5. /\ Pop(v, "left", "send_nil").rep = <<Head(s)>>
      /\ Pop(v, "left", "send_nil").v = IF Tail(s) = <<>> THEN Absent ELSE List(Tail(s))
  BY DEF Pop, OfType, Left, Done
<1>6. /\ Pop(v, "right", "send_nil").rep = <<Last(s)>>
      /\ Pop(v, "right", "send_nil").v = IF Front(s) = <<>> THEN Absent ELSE List(Front(s))
  BY DEF Pop, OfType, Left, Done
<1> QED BY <1>2, <1>3, <1>4, <1>5, <1>6 DEF ListPops

\* ZPOPMIN answers the lowest members and leaves the others in order, and so
\* does ZPOPMAX with the highest, when there are that many.
THEOREM ZSetPopCorrect ==
    ASSUME NEW T, NEW v, v.type = "zset", v.data \in Seq(T), v.data # <<>>, NEW n \in Nat
    PROVE  ZSetPops(v, n)
<1> DEFINE z == v.data
           len == Len(z)
           m == IF n > len THEN len ELSE n
<1>1. len \in Nat \ {0} /\ m \in 0..len
  OBVIOUS
<1>2. Elems(v) = z /\ Elems(Absent) = <<>> /\ \A l : Elems(Val("zset", l)) = l
  BY DEF Elems, Absent, Val
<1>3. /\ \A c, st, rep, k : ZLeft(v, c, st, rep, k).rep = rep
      /\ \A c, st, rep, k :
            ZLeft(v, c, st, rep, k).v = IF k = 0 THEN v ELSE IF c = <<>> THEN Absent ELSE Val("zset", c)
  BY DEF ZLeft, Done
<1>4. /\ PopSpan(len, FALSE, n)[1] = 0 /\ PopSpan(len, FALSE, n)[2] = m
      /\ n <= len => /\ PopSpan(len, TRUE, n)[1] = IF n > 0 THEN len - n ELSE len
                     /\ PopSpan(len, TRUE, n)[2] = len
  <2> HIDE DEF len
  <2> QED BY <1>1 DEF PopSpan
<1>5. /\ \A i \in 0..len : Cut(z, 0, i) = SubSeq(z, i + 1, len) /\ Cut(z, i, len) = SubSeq(z, 1, i)
      /\ SubSeq(z, 1, len) = z
  <2>1. SubSeq(z, 1, 0) = <<>> /\ SubSeq(z, len + 1, len) = <<>>
    BY <1>1, SubSeqEmpty
  <2>2. ASSUME NEW i \in 0..len
        PROVE  Cut(z, 0, i) = SubSeq(z, i + 1, len) /\ Cut(z, i, len) = SubSeq(z, 1, i)
    <3>1. SubSeq(z, i + 1, len) \in Seq(T) /\ SubSeq(z, 1, i) \in Seq(T)
      BY Pieces
    <3> QED BY <2>1, <3>1, ConcatEmptySeq DEF Cut
  <2> QED BY <2>2, SubSeqFull
<1>6. SubSeq(z, 1, m) \o SubSeq(z, m + 1, len) = z
  BY <1>1, Pieces
<1>7. /\ ZPop(v, FALSE, n).rep = SubSeq(z, 1, m)
      /\ Elems(ZPop(v, FALSE, n).v) = SubSeq(z, m + 1, len)
  <2> DEFINE a == PopSpan(len, FALSE, n)
             P == ZPop(v, FALSE, n)
  <2>1. P = ZLeft(v, Cut(z, a[1], a[2]), "ok", SubSeq(z, a[1] + 1, a[2]), a[2] - a[1])
    BY DEF ZPop, ZRead_, ZTypes
  <2>2. a[1] = 0 /\ a[2] = m
    BY <1>4
  <2>3. 0 + 1 = 1 /\ m - 0 = m /\ (m = 0 => m + 1 = 1)
    BY <1>1
  <2> DEFINE out == SubSeq(z, 1, m)
             rest == SubSeq(z, m + 1, len)
  <2> HIDE DEF a, P, z, m, len
  <2>4. P = ZLeft(v, rest, "ok", out, m)
    BY <1>1, <1>5, <2>1, <2>2, <2>3
  <2> HIDE DEF out, rest
  <2>5. P.rep = out
    BY <1>3, <2>4
  <2>6. P.v = IF m = 0 THEN v ELSE IF rest = <<>> THEN Absent ELSE Val("zset", rest)
    BY <1>3, <2>4
  <2>7. Elems(P.v) = rest
    BY <1>2, <1>5, <2>3, <2>6 DEF rest
  <2> QED BY <2>5, <2>7 DEF P, out, rest
<1>8. ASSUME n <= len
      PROVE  Elems(ZPop(v, TRUE, n).v) \o Reverse(ZPop(v, TRUE, n).rep) = z
  <2> DEFINE i == IF n > 0 THEN len - n ELSE len
             out == SubSeq(z, i + 1, len)
             a == PopSpan(len, TRUE, n)
             P == ZPop(v, TRUE, n)
  <2>1. i \in 0..len /\ (len - i = 0 <=> i = len)
    BY <1>1, <1>8
  <2>2. a[1] = i /\ a[2] = len
    BY <1>4, <1>8
  <2>3. P = ZLeft(v, Cut(z, a[1], a[2]), "ok", Reverse(SubSeq(z, a[1] + 1, a[2])), a[2] - a[1])
    BY DEF ZPop, ZRead_, ZTypes
  <2>4. out \in Seq(T) /\ SubSeq(z, 1, i) \o out = z
    BY <2>1, Pieces
  <2>5. Reverse(Reverse(out)) = out
    <3> HIDE DEF out
    <3>1. Len(out) \in Nat /\ out = [k \in 1..Len(out) |-> out[k]]
      BY <2>4
    <3>2. Reverse(out) = [k \in 1..Len(out) |-> out[(Len(out) - k) + 1]] /\ Len(Reverse(out)) = Len(out)
      BY <3>1 DEF Reverse
    <3>3. Reverse(Reverse(out)) = [k \in 1..Len(out) |-> Reverse(out)[(Len(out) - k) + 1]]
      BY <3>2 DEF Reverse
    <3>4. \A k \in 1..Len(out) : Reverse(out)[(Len(out) - k) + 1] = out[k]
      <4>1. \A k \in 1..Len(out) : (Len(out) - k) + 1 \in 1..Len(out) /\ (Len(out) - ((Len(out) - k) + 1)) + 1 = k
        BY <3>1
      <4> QED BY <3>2, <4>1
    <3> QED BY <3>1, <3>3, <3>4
  <2>6. Cut(z, i, len) = SubSeq(z, 1, i)
    BY <1>5, <2>1
  <2> DEFINE rest == SubSeq(z, 1, i)
             back == Reverse(out)
  <2> HIDE DEF a, P, z, i, out, len
  <2>7. P = ZLeft(v, rest, "ok", back, len - i)
    BY <2>2, <2>3, <2>6 DEF out
  <2> HIDE DEF rest, back
  <2>8. P.rep = back
    BY <1>3, <2>7
  <2>9. P.v = IF len - i = 0 THEN v ELSE IF rest = <<>> THEN Absent ELSE Val("zset", rest)
    BY <1>3, <2>7
  <2>10. Elems(P.v) = rest
    BY <1>2, <1>5, <2>1, <2>9 DEF rest
  <2> QED BY <2>4, <2>5, <2>8, <2>10 DEF P, rest, back
<1> HIDE DEF z, m
<1> QED BY <1>6, <1>7, <1>8 DEF ZSetPops, z

\* SETRANGE changes the bytes it is given and no others, fills a gap with
\* zeros, and GETRANGE answers what SETRANGE and APPEND wrote, for every
\* string, offset and value.
THEOREM RoundTripCorrect ==
    ASSUME NEW T, 0 \in T, NEW v, v.type \in {"string", "none"},
           v.type = "string" => v.data \in Seq(T),
           NEW off \in Nat, NEW x \in Seq(T), x # <<>>
    PROVE  RoundTrip(v, off, x)
<1> DEFINE b == Bytes(v)
           k == Len(x)
           n == off + k
           len == IF Len(b) >= n THEN Len(b) ELSE n
           p == Padded(b, n)
           w == [i \in DOMAIN p |-> IF i \in (off + 1)..n THEN x[i - off] ELSE p[i]]
<1>1. b \in Seq(T) /\ Len(b) \in Nat /\ k \in Nat \ {0} /\ len \in Nat \ {0} /\ n <= len
  BY DEF Bytes
<1>2. Max({Len(b), n}) = len
  <2> HIDE DEF b, k
  <2>1. \A y : y \in {Len(b), n} /\ (\A u \in {Len(b), n} : y >= u) <=> y = len
    BY <1>1
  <2> HIDE DEF n, len
  <2> QED BY <2>1 DEF Max
<1>3. /\ DOMAIN p = 1..len /\ Len(p) = len
      /\ \A i \in 1..len : p[i] = IF i <= Len(b) THEN b[i] ELSE 0
  <2> DEFINE d == n - Len(b)
             pad == [i \in 1..d |-> 0]
  <2>1. CASE d <= 0
    <3>1. pad = <<>> /\ len = Len(b)
      BY <1>1, <2>1
    <3>2. p = b
      BY <1>1, <3>1, ConcatEmptySeq DEF Padded
    <3> HIDE DEF p, b
    <3> QED BY <1>1, <3>1, <3>2
  <2>2. CASE d > 0
    <3>1. d \in Nat /\ Len(b) + d = len
      BY <1>1, <2>2
    <3>2. pad \in Seq(T) /\ Len(pad) = d
      <4> HIDE DEF d
      <4> QED BY <3>1
    <3>3. p = b \o pad
      BY DEF Padded
    <3>4. /\ p \in Seq(T) /\ Len(p) = Len(b) + Len(pad)
          /\ \A i \in 1 .. Len(b) + Len(pad) : p[i] = IF i <= Len(b) THEN b[i] ELSE pad[i - Len(b)]
      <4> HIDE DEF b, pad, p
      <4> QED BY <1>1, <3>2, <3>3, ConcatProperties
    <3>5. \A i \in 1..len : ~(i <= Len(b)) => pad[i - Len(b)] = 0
      <4> HIDE DEF b, d
      <4> QED BY <1>1, <3>1
    <3>6. DOMAIN p = 1..Len(p)
      BY <3>4
    <3> HIDE DEF p, b, pad, d, len
    <3> QED BY <3>1, <3>2, <3>4, <3>5, <3>6
  <2> QED BY <1>1, <2>1, <2>2
<1>4. /\ w \in Seq(T) /\ Len(w) = len
      /\ \A i \in 1..len : w[i] = IF i \in (off + 1)..n THEN x[i - off]
                                 ELSE IF i <= Len(b) THEN b[i] ELSE 0
  <2>0. \A i \in (off + 1)..n : x[i - off] \in T
    BY <1>1
  <2> HIDE DEF p, b
  <2>1. w = [i \in 1..len |-> IF i \in (off + 1)..n THEN x[i - off] ELSE p[i]]
    BY <1>3
  <2>2. \A i \in 1..len : w[i] \in T
    BY <1>1, <1>3, <2>0, <2>1
  <2> HIDE DEF w, len, n
  <2> QED BY <1>1, <1>3, <2>1, <2>2
<1>5. /\ SetRange(v, off, x).v = Str(w) /\ SetRange(v, off, x).ival = len
  <2>1. SetRange(v, off, x) = SendInt(Str(w), Len(w), StrFlags)
    BY DEF SetRange, StrWrite
  <2> HIDE DEF w, len
  <2> QED BY <1>4, <2>1 DEF SendInt, Done
<1>6. Append_(v, x).v = Str(b \o x)
  BY DEF Append_, StrWrite, SendInt, Done
<1>7. ASSUME NEW c \in Seq(T), NEW i \in Nat, NEW j \in Nat, i <= j, j < Len(c)
      PROVE  /\ GetRange(Str(c), i, j).rep = SubSeq(c, i + 1, j + 1)
             /\ GetRange(Str(c), 0 - (Len(c) - i), -1).rep = SubSeq(c, i + 1, Len(c))
  <2>1. \A a \in Int : Max({a, 0}) = IF a >= 0 THEN a ELSE 0
    BY DEF Max
  <2>2. \A a, d \in Int : Min({a, d}) = IF a <= d THEN a ELSE d
    BY DEF Min
  <2>3. Len(c) \in Nat /\ Len(c) # 0 /\ c # <<>>
    BY <1>7
  <2>4. Str(c).type = "string" /\ Str(c).data = c /\ \A rep : Data(Str(c), rep).rep = rep
    BY DEF Str, Val, Data, Done
  <2> DEFINE l == Len(c)
             From(a) == IF a < 0 THEN l + a ELSE a
             None(a, d) == l = 0 \/ a > d \/ (a < 0 /\ d < 0) \/ (a >= l /\ d >= l)
             Part(a, d) == SubSeq(c, Max({a, 0}) + 1, Min({d, l - 1}) + 1)
  <2>5. ASSUME NEW a, NEW d, ~None(From(a), From(d))
        PROVE  GetRange(Str(c), a, d).rep = Part(From(a), From(d))
    <3>1. GetRange(Str(c), a, d) = IF None(From(a), From(d)) THEN Status(Str(c), "send_zero_string")
                                   ELSE Data(Str(c), Part(From(a), From(d)))
      BY <2>4, Zenon DEF GetRange, OfType
    <3> HIDE DEF None, Part, From
    <3> QED BY <2>4, <2>5, <3>1, Zenon
  <2> HIDE DEF l
  <2>6. l \in Nat /\ l # 0 /\ j < l
    BY <1>7, <2>3 DEF l
  <2>7. Part(i, j) = SubSeq(c, i + 1, j + 1) /\ Part(i, l - 1) = SubSeq(c, i + 1, l)
    <3>1. /\ Max({i, 0}) = i /\ Min({j, l - 1}) = j /\ Min({l - 1, l - 1}) = l - 1 /\ l - 1 + 1 = l
      BY <1>7, <2>1, <2>2, <2>6
    <3> QED BY ONLY <3>1
  <2>8. From(i) = i /\ From(j) = j /\ From(0 - (l - i)) = i /\ From(-1) = l - 1
    BY <1>7, <2>6
  <2>9. ~None(i, j) /\ ~None(i, l - 1)
    BY <1>7, <2>6
  <2> HIDE DEF Part, From, None
  <2>10. GetRange(Str(c), i, j).rep = Part(i, j)
    BY <2>5, <2>8, <2>9
  <2>11. GetRange(Str(c), 0 - (l - i), -1).rep = Part(i, l - 1)
    BY <2>5, <2>8, <2>9
  <2> QED BY <2>7, <2>10, <2>11 DEF l
<1>8. ASSUME NEW c \in Seq(T), NEW i \in Nat, i + k <= Len(c),
             \A j \in (i + 1)..(i + k) : c[j] = x[j - i]
      PROVE  SubSeq(c, i + 1, i + k) = x
  <2>1. \A j \in (i + 1)..(i + k) : c[j] \in T
    BY <1>1, <1>8
  <2>2. /\ SubSeq(c, i + 1, i + k) \in Seq(T) /\ Len(SubSeq(c, i + 1, i + k)) = k
        /\ \A j \in 1..k : SubSeq(c, i + 1, i + k)[j] = c[i + j]
    <3>1. PICK lo \in Int, hi \in Int : lo = i + 1 /\ hi = i + k
      BY <1>1
    <3>2. \A j \in lo..hi : c[j] \in T
      BY <2>1, <3>1
    <3>3. /\ SubSeq(c, lo, hi) \in Seq(T)
          /\ Len(SubSeq(c, lo, hi)) = IF lo <= hi THEN hi - lo + 1 ELSE 0
          /\ \A j \in 1..(hi - lo + 1) : SubSeq(c, lo, hi)[j] = c[lo + j - 1]
      BY <3>2, SubSeqProperties
    <3>4. /\ hi - lo + 1 = k /\ lo <= hi
          /\ \A j \in 1..k : lo + j - 1 = i + j
      BY <1>1, <3>1
    <3>5. SubSeq(c, lo, hi) = SubSeq(c, i + 1, i + k)
      BY <3>1
    <3> HIDE DEF k
    <3> QED BY <3>3, <3>4, <3>5
  <2>3. \A j \in 1..k : c[i + j] = x[j]
    <3>1. \A j \in 1..k : i + j \in (i + 1)..(i + k) /\ (i + j) - i = j
      BY <1>1
    <3> HIDE DEF k
    <3> QED BY <1>8, <3>1
  <2> QED BY <2>2, <2>3, SeqEqual
<1>9. GetRange(Str(w), off, n - 1).rep = x
  <2>1. n - 1 \in Nat /\ off <= n - 1 /\ n - 1 < len /\ n - 1 + 1 = n
    BY <1>1
  <2>2. \A j \in (off + 1)..(off + k) : w[j] = x[j - off]
    <3>1. \A j \in (off + 1)..(off + k) : j \in 1..len
      BY <1>1
    <3> HIDE DEF w, len
    <3> QED BY <1>4, <3>1
  <2> HIDE DEF w, len
  <2>3. SubSeq(w, off + 1, off + k) = x
    BY <1>1, <1>4, <1>8, <2>2
  <2>4. GetRange(Str(w), off, n - 1).rep = SubSeq(w, off + 1, n - 1 + 1)
    BY <1>4, <1>7, <2>1
  <2> QED BY <2>1, <2>3, <2>4
<1>10. GetRange(Str(b \o x), 0 - k, -1).rep = x
  <2> DEFINE c == b \o x
             l == Len(b)
  <2> HIDE DEF b
  <2>1. /\ c \in Seq(T) /\ Len(c) = l + k
        /\ \A j \in 1..(l + k) : c[j] = IF j <= l THEN b[j] ELSE x[j - l]
    BY <1>1, ConcatProperties
  <2>2. l \in Nat /\ k \in Nat \ {0}
    BY <1>1
  <2> HIDE DEF c, k, l
  <2>3. \A j \in (l + 1)..(l + k) : c[j] = x[j - l]
    BY <2>1, <2>2
  <2>4. l + k <= Len(c) /\ l <= l /\ l < Len(c) /\ Len(c) - l = k
    BY <2>1, <2>2
  <2>5. SubSeq(c, l + 1, l + k) = x
    BY <1>8, <2>1, <2>2, <2>3, <2>4
  <2>6. GetRange(Str(c), 0 - (Len(c) - l), -1).rep = SubSeq(c, l + 1, Len(c))
    BY <1>7, <2>1, <2>2, <2>4
  <2> QED BY <2>1, <2>4, <2>5, <2>6 DEF c
<1>11. StrLen(Str(w)).ival = len
  <2>1. StrLen(Str(w)) = SendInt(Str(w), Len(w), {})
    BY DEF StrLen, OfType, Str, Val
  <2> HIDE DEF w, len
  <2> QED BY <1>4, <2>1 DEF SendInt, Done
<1>12. ASSUME NEW i \in (1..len) \ ((off + 1)..n)
       PROVE  Str(w).data[i] = IF i <= Len(b) THEN b[i] ELSE 0
  <2> HIDE DEF w, len, n
  <2> QED BY <1>4, <1>12 DEF Str, Val
<1> HIDE DEF w, len
<1> QED BY <1>2, <1>5, <1>6, <1>9, <1>10, <1>11, <1>12 DEF RoundTrip
=============================================================================
