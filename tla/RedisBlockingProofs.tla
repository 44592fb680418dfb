------------------------ MODULE RedisBlockingProofs ------------------------
(***************************************************************************)
(* Proofs about RedisBlocking for any connections, keys and commands.      *)
(* NoDangling holds whatever the commands have in common.  NoLostWakeup,   *)
(* OneReply and NoLeak hold under the condition Apart; without any one of  *)
(* its conjuncts TLC has a counterexample to one of them.                  *)
(***************************************************************************)
EXTENDS RedisBlocking, SequenceTheorems, TLAPS

Distinct(seq) == \A i, j \in DOMAIN seq : seq[i] = seq[j] => i = j

\* The command looks at one of its keys.
StepBounds == \A b \in Cmds : step[b] \in 1 .. Len(KeysOf[b])

\* A subscription is for a key of the continuation, on its own connection,
\* and a continuation with one has CM_CONT_TAB.
SubsOwned ==
    \A c \in Conns, k \in Keys : \A b \in Cmds : sub_tab[c][k] = b =>
        Conn[b] = c /\ k \in KeySet(b) /\ b \in tab /\ b \in alive

\* A continuation is in one list at most, and there once.
ListsOwned ==
    \A c \in Conns :
        /\ Distinct(cont_list[c])
        /\ \A b \in Elems(cont_list[c]) :
             Conn[b] = c /\ b \in alive /\ b \notin wait_list

\* A continuation is made by the first run of its command.
AliveBlocked == \A b \in alive : phase[b] \in {"blocked", "closed"}

FlagsAlive == wait_list \subseteq alive /\ hit \subseteq alive

Owned == TypeOK /\ StepBounds /\ SubsOwned /\ ListsOwned /\ AliveBlocked
                /\ FlagsAlive

-----------------------------------------------------------------------------
(* Sequences *)

\* Taking the head of a list leaves its other elements, in one place each.
LEMMA TailElems ==
    ASSUME NEW S, NEW q \in Seq(S), q # <<>>
    PROVE  /\ Tail(q) \in Seq(S)
           /\ Head(q) \in S
           /\ Head(q) \in Elems(q)
           /\ Elems(q) = Elems(Tail(q)) \cup {Head(q)}
           /\ Distinct(q) => Distinct(Tail(q)) /\ Head(q) \notin Elems(Tail(q))
<1>1. Len(q) \in Nat \ {0} /\ DOMAIN q = 1 .. Len(q)
  BY EmptySeq
<1>2. /\ Tail(q) \in Seq(S)
      /\ DOMAIN Tail(q) = 1 .. Len(q) - 1
      /\ \A i \in 1 .. Len(q) - 1 : Tail(q)[i] = q[i + 1]
  BY <1>1
<1>3. Head(q) = q[1] /\ 1 \in DOMAIN q /\ q[1] \in S
  BY <1>1
<1>4. Elems(Tail(q)) \subseteq Elems(q)
  BY <1>1, <1>2 DEF Elems
<1>5. Elems(q) \subseteq Elems(Tail(q)) \cup {Head(q)}
  <2>1. SUFFICES ASSUME NEW i \in 1 .. Len(q)
                 PROVE  q[i] \in Elems(Tail(q)) \cup {Head(q)}
    BY <1>1 DEF Elems
  <2>2. CASE i = 1
    BY <1>3, <2>2
  <2>3. CASE i # 1
    <3>1. i - 1 \in 1 .. Len(q) - 1 /\ (i - 1) + 1 = i
      BY <1>1, <2>3
    <3> QED BY <3>1, <1>2 DEF Elems
  <2> QED BY <2>2, <2>3
<1>6. ASSUME Distinct(q)
      PROVE  Distinct(Tail(q)) /\ Head(q) \notin Elems(Tail(q))
  <2>1. \A i \in 1 .. Len(q) - 1 : i + 1 \in DOMAIN q /\ i + 1 # 1
    BY <1>1
  <2> QED BY <1>2, <1>3, <1>6, <2>1 DEF Distinct, Elems
<1> QED BY <1>2, <1>3, <1>4, <1>5, <1>6 DEF Elems

\* Appending an element that is not in a list keeps its elements distinct.
LEMMA AppendElems ==
    ASSUME NEW S, NEW q \in Seq(S), NEW e \in S
    PROVE  /\ Append(q, e) \in Seq(S)
           /\ Elems(Append(q, e)) = Elems(q) \cup {e}
           /\ Distinct(q) /\ e \notin Elems(q) => Distinct(Append(q, e))
<1>1. /\ Append(q, e) \in Seq(S)
      /\ DOMAIN q = 1 .. Len(q) /\ Len(q) \in Nat
      /\ DOMAIN Append(q, e) = 1 .. Len(q) + 1
      /\ \A i \in 1 .. Len(q) : Append(q, e)[i] = q[i]
      /\ Append(q, e)[Len(q) + 1] = e
  OBVIOUS
<1>2. 1 .. Len(q) + 1 = (1 .. Len(q)) \cup {Len(q) + 1}
  BY <1>1
<1>3. Elems(Append(q, e)) = Elems(q) \cup {e}
  BY <1>1, <1>2 DEF Elems
<1>4. ASSUME Distinct(q), e \notin Elems(q)
      PROVE  Distinct(Append(q, e))
  <2>1. SUFFICES ASSUME NEW i \in 1 .. Len(q) + 1, NEW j \in 1 .. Len(q) + 1,
                        Append(q, e)[i] = Append(q, e)[j]
                 PROVE  i = j
    BY <1>1 DEF Distinct
  <2>2. CASE i \in 1 .. Len(q) /\ j \in 1 .. Len(q)
    BY <1>1, <1>4, <2>1, <2>2 DEF Distinct
  <2>3. CASE i = Len(q) + 1 /\ j \in 1 .. Len(q)
    BY <1>1, <1>4, <2>1, <2>3 DEF Elems
  <2>4. CASE j = Len(q) + 1 /\ i \in 1 .. Len(q)
    BY <1>1, <1>4, <2>1, <2>4 DEF Elems
  <2> QED BY <1>2, <2>2, <2>3, <2>4
<1> QED BY <1>1, <1>3, <1>4

\* The keys of a command, and the key of its step.
LEMMA KeysType ==
    ASSUME NEW b \in Cmds
    PROVE  /\ Conn[b] \in Conns
           /\ KeysOf[b] \in Seq(Keys)
           /\ Len(KeysOf[b]) \in Nat \ {0}
           /\ DOMAIN KeysOf[b] = 1 .. Len(KeysOf[b])
           /\ KeySet(b) \subseteq Keys
           /\ \A i \in DOMAIN KeysOf[b] : KeysOf[b][i] \in KeySet(b)
           /\ \E k \in Keys : k \in KeySet(b)
<1>1. KeysOf[b] \in Seq(Keys) /\ KeysOf[b] # <<>> /\ Conn[b] \in Conns
  BY ConstantsAssumption
<1>2. Len(KeysOf[b]) \in Nat \ {0} /\ DOMAIN KeysOf[b] = 1 .. Len(KeysOf[b])
  BY <1>1, EmptySeq
<1>3. \A i \in 1 .. Len(KeysOf[b]) : KeysOf[b][i] \in Keys
  BY <1>1
<1>4. 1 \in 1 .. Len(KeysOf[b])
  BY <1>2
<1> QED BY <1>1, <1>2, <1>3, <1>4 DEF KeySet, Elems

\* Schedule moves continuations of B only, from wait_list to a list of their
\* own connection that does not have them.
LEMMA ScheduleLists ==
    ASSUME Owned, NEW B \in SUBSET alive, Schedule(B)
    PROVE  /\ wait_list' = wait_list \ B
           /\ cont_list' \in [Conns -> Seq(Cmds)]
           /\ \A c \in Conns :
                /\ Distinct(cont_list'[c])
                /\ Elems(cont_list[c]) \subseteq Elems(cont_list'[c])
                /\ \A b \in Elems(cont_list'[c]) :
                     \/ b \in Elems(cont_list[c])
                     \/ b \in B /\ Conn[b] = c
                /\ \A b \in B :
                     (\A d \in B : Conn[b] = c /\ Conn[d] = c => b = d)
                       => (Conn[b] = c => b \in Elems(cont_list'[c]))
<1> DEFINE new(c) == {b \in B : Conn[b] = c} \ Elems(cont_list[c])
<1>1. cont_list \in [Conns -> Seq(Cmds)] /\ B \subseteq Cmds
  BY DEF Owned, TypeOK
<1>2. \A c \in Conns : cont_list'[c] = IF new(c) = {} THEN cont_list[c]
                        ELSE Append(cont_list[c], CHOOSE b \in new(c) : TRUE)
  BY DEF Schedule
<1>3. ASSUME NEW c \in Conns
      PROVE  /\ cont_list'[c] \in Seq(Cmds)
             /\ Distinct(cont_list'[c])
             /\ Elems(cont_list[c]) \subseteq Elems(cont_list'[c])
             /\ \A b \in Elems(cont_list'[c]) :
                  b \in Elems(cont_list[c]) \/ (b \in B /\ Conn[b] = c)
             /\ \A b \in B :
                  (\A d \in B : Conn[b] = c /\ Conn[d] = c => b = d)
                    => (Conn[b] = c => b \in Elems(cont_list'[c]))
  <2> DEFINE e == CHOOSE b \in new(c) : TRUE
  <2>1. cont_list[c] \in Seq(Cmds) /\ Distinct(cont_list[c])
    BY <1>1 DEF Owned, ListsOwned
  <2>2. CASE new(c) = {}
    BY <1>2, <2>1, <2>2
  <2>3. CASE new(c) # {}
    <3>1. e \in new(c)
      BY <2>3
    <3>2. e \in B /\ Conn[e] = c /\ e \notin Elems(cont_list[c]) /\ e \in Cmds
      BY <3>1, <1>1
    <3>3. cont_list'[c] = Append(cont_list[c], e)
      BY <1>2, <2>3
    <3> HIDE DEF e
    <3>4. /\ cont_list'[c] \in Seq(Cmds)
          /\ Elems(cont_list'[c]) = Elems(cont_list[c]) \cup {e}
          /\ Distinct(cont_list'[c])
      BY <3>2, <3>3, <2>1, AppendElems
    <3> QED BY <3>2, <3>4
  <2> QED BY <2>2, <2>3
<1>4. cont_list' \in [Conns -> Seq(Cmds)]
  <2>1. cont_list' = [c \in Conns |-> cont_list'[c]]
    BY DEF Schedule
  <2> QED BY <1>3, <2>1
<1> QED BY <1>3, <1>4 DEF Schedule

-----------------------------------------------------------------------------
(* Ownership of the continuations *)

\* Before the first command nothing is subscribed or scheduled.
LEMMA InitOwned == Init => Owned
<1>1. SUFFICES ASSUME Init PROVE Owned
  OBVIOUS
<1>2. TypeOK
  BY <1>1, ConstantsAssumption DEF Init, TypeOK
<1>3. StepBounds
  BY <1>1, KeysType DEF Init, StepBounds
<1>4. SubsOwned
  BY <1>1, ConstantsAssumption DEF Init, SubsOwned
<1>5. \A c \in Conns : Elems(cont_list[c]) = {} /\ Distinct(cont_list[c])
  <2>1. SUFFICES ASSUME NEW c \in Conns
                 PROVE  Elems(cont_list[c]) = {} /\ Distinct(cont_list[c])
    OBVIOUS
  <2>2. cont_list[c] = <<>> /\ DOMAIN <<>> = {}
    BY <1>1 DEF Init
  <2> QED BY <2>2 DEF Elems, Distinct
<1> QED BY <1>1, <1>2, <1>3, <1>4, <1>5
        DEF Init, Owned, ListsOwned, AliveBlocked, FlagsAlive

\* A step that leaves the continuations alone.
LEMMA KeepOwned ==
    ASSUME Owned, TypeOK', StepBounds', UNCHANGED <<alive, tab, queues>>,
           UNCHANGED sub_tab, hit' \subseteq hit,
           \A b \in alive : phase'[b] = phase[b]
    PROVE  Owned'
BY DEF Owned, SubsOwned, ListsOwned, AliveBlocked, FlagsAlive, queues, Elems,
       Distinct, KeySet

\* The first run of a command, until it is blocked.
LEMMA FirstOwned ==
    ASSUME Owned, NEW b \in Cmds,
           Send(b) \/ FirstData(b) \/ FirstError(b) \/ FirstNext(b)
    PROVE  Owned'
<1> USE DEF flags, queues, routes
<1>1. TypeOK /\ StepBounds /\ b \notin alive
  BY DEF Owned, AliveBlocked, Send, FirstData, FirstError, FirstNext, AtKey
<1>2. KeysOf[b][step[b]] \in Keys /\ step[b] \in Nat /\ Conn[b] \in Conns
  BY <1>1, KeysType DEF StepBounds
<1>3. CASE Send(b)
  <2>1. TypeOK'
    BY <1>1, <1>2, <1>3 DEF Send, TypeOK, store
  <2>2. StepBounds'
    BY <1>1, <1>3 DEF Send, StepBounds
  <2>3. \A d \in alive : phase'[d] = phase[d]
    BY <1>1, <1>3 DEF Send, TypeOK
  <2> QED BY <2>1, <2>2, <2>3, <1>3, KeepOwned DEF Send
<1>4. CASE FirstData(b)
  <2>1. TypeOK'
    <3>1. len'[StepKey(b)] \in Nat
      BY <1>1, <1>2, <1>4 DEF FirstData, StepKey, TypeOK
    <3>2. len' \in [Keys -> Nat]
      BY <1>1, <1>2, <1>4, <3>1 DEF FirstData, StepKey, TypeOK
    <3> QED BY <1>1, <1>4, <3>2 DEF FirstData, Answered, TypeOK
  <2>2. StepBounds'
    BY <1>1, <1>4 DEF FirstData, StepBounds
  <2>3. \A d \in alive : phase'[d] = phase[d]
    BY <1>1, <1>4 DEF FirstData, Answered, TypeOK
  <2> QED BY <2>1, <2>2, <2>3, <1>4, KeepOwned DEF FirstData
<1>5. CASE FirstError(b)
  <2>1. TypeOK'
    BY <1>1, <1>5 DEF FirstError, Answered, TypeOK, store
  <2>2. StepBounds'
    BY <1>1, <1>5 DEF FirstError, StepBounds
  <2>3. \A d \in alive : phase'[d] = phase[d]
    BY <1>1, <1>5 DEF FirstError, Answered, TypeOK
  <2> QED BY <2>1, <2>2, <2>3, <1>5, KeepOwned DEF FirstError
<1>6. CASE FirstNext(b)
  <2>1. TypeOK'
    BY <1>1, <1>2, <1>6 DEF FirstNext, TypeOK, store
  <2>2. StepBounds'
    <3>1. SUFFICES ASSUME NEW d \in Cmds
                   PROVE  step'[d] \in 1 .. Len(KeysOf[d])
      BY DEF StepBounds
    <3>2. step[d] \in 1 .. Len(KeysOf[d]) /\ Len(KeysOf[d]) \in Nat
      BY <1>1, KeysType DEF StepBounds
    <3>3. step'[d] = IF d = b THEN step[b] + 1 ELSE step[d]
      BY <1>1, <1>6 DEF FirstNext, TypeOK
    <3>4. step[b] < Len(KeysOf[b])
      BY <1>6 DEF FirstNext
    <3> QED BY <3>2, <3>3, <3>4
  <2> QED BY <2>1, <2>2, <1>6, KeepOwned DEF FirstNext
<1> QED BY <1>3, <1>4, <1>5, <1>6

\* A continuation is made with the subscriptions of its keys.
LEMMA SaveOwned ==
    ASSUME Owned, NEW b \in Cmds, SaveBlocked(b)
    PROVE  Owned'
<1> DEFINE c     == Conn[b]
           fresh == KeySet(b) \ SubKeys(c)
<1>1. TypeOK /\ StepBounds /\ b \notin alive /\ c \in Conns
  BY KeysType DEF Owned, AliveBlocked, SaveBlocked, AtKey
<1>2. /\ alive'   = alive \cup {b}
      /\ sub_tab' = [sub_tab EXCEPT ![c] = [k \in Keys |->
                        IF k \in fresh THEN b ELSE sub_tab[c][k]]]
      /\ tab'       = IF fresh # {} THEN tab \cup {b} ELSE tab
      /\ listblkd'  = OnSub(c, fresh)
      /\ wait_list' = IF b \in Timed THEN wait_list \cup {b} ELSE wait_list
      /\ timers'    = IF b \in Timed THEN timers \cup {b} ELSE timers
      /\ phase'     = [phase EXCEPT ![b] = "blocked"]
      /\ thread'    = None
      /\ UNCHANGED <<store, open, step, replies, hit, timeout, cont_list,
                     pushes>>
  BY DEF SaveBlocked
<1>3. \A d \in Conns, k \in Keys :
        sub_tab'[d][k] = IF d = c /\ k \in fresh THEN b ELSE sub_tab[d][k]
  BY <1>1, <1>2 DEF TypeOK
<1>4. fresh \subseteq KeySet(b)
  OBVIOUS
<1>5. sub_tab' \in [Conns -> [Keys -> Cmds \cup {None}]]
  BY <1>1, <1>2 DEF TypeOK
<1>6. listblkd' \in SUBSET Conns
  BY <1>1, <1>2 DEF TypeOK, OnSub
<1> HIDE DEF fresh
<1>7. TypeOK'
  BY <1>1, <1>2, <1>5, <1>6 DEF TypeOK, store
<1>8. StepBounds'
  BY <1>1, <1>2 DEF StepBounds
<1>9. SubsOwned'
  <2>1. SUFFICES ASSUME NEW d \in Conns, NEW k \in Keys, NEW a \in Cmds,
                        sub_tab'[d][k] = a
                 PROVE  Conn[a] = d /\ k \in KeySet(a) /\ a \in tab'
                          /\ a \in alive'
    BY DEF SubsOwned, KeySet, Elems
  <2>2. CASE d = c /\ k \in fresh
    BY <1>2, <1>3, <1>4, <2>1, <2>2
  <2>3. CASE ~(d = c /\ k \in fresh)
    BY <1>2, <1>3, <2>1, <2>3 DEF Owned, SubsOwned
  <2> QED BY <2>2, <2>3
<1>10. ListsOwned'
  BY <1>1, <1>2 DEF Owned, ListsOwned, Elems, Distinct
<1>11. AliveBlocked'
  BY <1>1, <1>2 DEF Owned, AliveBlocked, TypeOK
<1>12. FlagsAlive'
  BY <1>2 DEF Owned, FlagsAlive
<1> QED BY <1>7, <1>8, <1>9, <1>10, <1>11, <1>12 DEF Owned

\* An event finds continuations that are there, one for a connection.
LEMMA NotifiedAlive ==
    ASSUME Owned, NEW c, NEW k \in Keys
    PROVE  /\ ListEvent(c, k) \in SUBSET alive
           /\ \A a, b \in ListEvent(c, k) : Conn[a] = Conn[b] => a = b
BY DEF Owned, SubsOwned, ListEvent, Notified

\* Scheduling continuations that are there.
LEMMA ScheduleOwned ==
    ASSUME Owned, NEW B \in SUBSET alive, Schedule(B), TypeOK',
           UNCHANGED <<step, phase, alive, tab, sub_tab>>,
           hit' \subseteq hit \cup B
    PROVE  Owned'
<1>1. ListsOwned'
  BY ScheduleLists DEF Owned, ListsOwned
<1>2. SubsOwned' /\ AliveBlocked' /\ StepBounds'
  BY DEF Owned, SubsOwned, AliveBlocked, StepBounds, KeySet, Elems
<1>3. FlagsAlive'
  BY ScheduleLists DEF Owned, FlagsAlive
<1> QED BY <1>1, <1>2, <1>3 DEF Owned

\* A push only schedules.
LEMMA PushOwned ==
    ASSUME Owned, NEW c \in Conns, NEW k \in Keys, Push(c, k)
    PROVE  Owned'
<1> DEFINE woken == ListEvent(c, k)
<1>1. woken \in SUBSET alive
  BY NotifiedAlive
<1>2. Schedule(woken) /\ hit' = hit \cup woken
  BY DEF Push
<1> HIDE DEF woken
<1>3. TypeOK'
  <2>1. cont_list' \in [Conns -> Seq(Cmds)] /\ wait_list' = wait_list \ woken
    BY <1>1, <1>2, ScheduleLists
  <2>2. len' \in [Keys -> Nat] /\ pushes' \in Nat
    BY DEF Owned, TypeOK, Push
  <2>3. hit' \in SUBSET Cmds
    BY <1>1, <1>2 DEF Owned, TypeOK
  <2> QED BY <2>1, <2>2, <2>3 DEF Owned, TypeOK, Push, conns, routes
<1>4. UNCHANGED <<step, phase, alive, tab, sub_tab>>
  BY DEF Push, conns, routes
<1> QED BY <1>1, <1>2, <1>3, <1>4, ScheduleOwned

\* The other commands leave the continuations alone.
LEMMA OtherOwned ==
    ASSUME Owned,
           \/ \E c \in Conns, k \in Keys : Pop(c, k)
           \/ \E c \in Conns, k \in Keys, d \in MoveTo : Move(c, k, d)
           \/ \E k \in Keys : SetString(k) \/ DelString(k)
    PROVE  Owned'
<1> USE DEF conns, flags, queues, routes
<1>1. UNCHANGED <<conns, flags, queues, routes, pushes>>
  BY DEF Pop, Move, SetString, DelString
<1>2. len' \in [Keys -> Nat] /\ str' \in SUBSET Keys
  <2>1. ASSUME NEW c \in Conns, NEW k \in Keys, Pop(c, k)
        PROVE  len' \in [Keys -> Nat] /\ str' \in SUBSET Keys
    <3>1. len[k] - 1 \in Nat
      BY <2>1 DEF Pop, Owned, TypeOK
    <3> QED BY <2>1, <3>1 DEF Pop, Owned, TypeOK
  <2>2. ASSUME NEW c \in Conns, NEW k \in Keys, NEW d \in MoveTo, Move(c, k, d)
        PROVE  len' \in [Keys -> Nat] /\ str' \in SUBSET Keys
    <3> DEFINE popped == [len EXCEPT ![k] = @ - 1]
    <3>1. len[k] - 1 \in Nat /\ d \in Keys
      BY <2>2, ConstantsAssumption DEF Move, Owned, TypeOK
    <3>2. popped \in [Keys -> Nat]
      BY <3>1 DEF Owned, TypeOK
    <3>3. len' = IF d \in str THEN popped ELSE [popped EXCEPT ![d] = @ + 1]
      BY <2>2 DEF Move
    <3> HIDE DEF popped
    <3>4. popped[d] + 1 \in Nat
      BY <3>1, <3>2
    <3> QED BY <2>2, <3>2, <3>3, <3>4 DEF Move, Owned, TypeOK
  <2>3. ASSUME NEW k \in Keys, SetString(k) \/ DelString(k)
        PROVE  len' \in [Keys -> Nat] /\ str' \in SUBSET Keys
    BY <2>3 DEF SetString, DelString, Owned, TypeOK
  <2> QED BY <2>1, <2>2, <2>3
<1>3. TypeOK'
  BY <1>1, <1>2 DEF Owned, TypeOK
<1>4. StepBounds'
  BY <1>1 DEF Owned, StepBounds
<1> QED BY <1>1, <1>3, <1>4, KeepOwned

\* A timer only schedules.
LEMMA TimerOwned ==
    ASSUME Owned, NEW b \in Cmds, TimerExpire(b)
    PROVE  Owned'
<1>1. UNCHANGED <<store, conns, alive, tab, hit, routes, pushes>>
      /\ timers' = timers \ {b}
  BY DEF TimerExpire
<1>2. CASE b \in wait_list /\ b \notin timeout
  <2>1. Schedule({b}) /\ timeout' = timeout \cup {b} /\ {b} \in SUBSET alive
    BY <1>2 DEF TimerExpire, Owned, FlagsAlive
  <2>2. cont_list' \in [Conns -> Seq(Cmds)] /\ wait_list' = wait_list \ {b}
    BY <2>1, ScheduleLists
  <2>3. TypeOK'
    BY <1>1, <2>1, <2>2 DEF Owned, TypeOK, store, conns, routes
  <2> QED BY <1>1, <2>1, <2>3, ScheduleOwned DEF conns, routes
<1>3. CASE ~(b \in wait_list /\ b \notin timeout)
  <2>1. UNCHANGED <<timeout, wait_list, cont_list>>
    BY <1>3 DEF TimerExpire
  <2>2. TypeOK' /\ StepBounds'
    BY <1>1, <2>1 DEF Owned, TypeOK, StepBounds, store, conns, routes
  <2>3. SubsOwned' /\ ListsOwned' /\ AliveBlocked' /\ FlagsAlive'
    BY <1>1, <2>1 DEF Owned, SubsOwned, ListsOwned, AliveBlocked, FlagsAlive,
                      conns, routes, KeySet, Elems, Distinct
  <2> QED BY <2>2, <2>3 DEF Owned
<1> QED BY <1>2, <1>3

\* The continuation that is drained is in no other list.
LEMMA DrainLists ==
    ASSUME Owned, NEW c \in Conns, NEW b \in Cmds, Draining(c, b)
    PROVE  /\ Conn[b] = c /\ b \in alive /\ b \notin wait_list
           /\ b \in Elems(cont_list[c])
           /\ cont_list' \in [Conns -> Seq(Cmds)]
           /\ \A d \in Conns :
                /\ Distinct(cont_list'[d])
                /\ b \notin Elems(cont_list'[d])
                /\ Elems(cont_list[d]) \ {b} = Elems(cont_list'[d])
<1>1. cont_list \in [Conns -> Seq(Cmds)]
  BY DEF Owned, TypeOK
<1>2. /\ cont_list[c] \in Seq(Cmds) /\ cont_list[c] # <<>>
      /\ b = Head(cont_list[c])
      /\ cont_list' = [cont_list EXCEPT ![c] = Tail(cont_list[c])]
      /\ Distinct(cont_list[c])
  BY <1>1 DEF Draining, Owned, ListsOwned
<1>3. /\ Tail(cont_list[c]) \in Seq(Cmds)
      /\ b \in Elems(cont_list[c])
      /\ Elems(cont_list[c]) = Elems(Tail(cont_list[c])) \cup {b}
      /\ Distinct(Tail(cont_list[c])) /\ b \notin Elems(Tail(cont_list[c]))
  BY <1>2, TailElems
<1>4. Conn[b] = c /\ b \in alive /\ b \notin wait_list
  BY <1>3 DEF Owned, ListsOwned
<1>5. cont_list' \in [Conns -> Seq(Cmds)]
  BY <1>1, <1>2, <1>3
<1>6. ASSUME NEW d \in Conns
      PROVE  /\ Distinct(cont_list'[d])
             /\ b \notin Elems(cont_list'[d])
             /\ Elems(cont_list[d]) \ {b} = Elems(cont_list'[d])
  <2>1. CASE d = c
    BY <1>1, <1>2, <1>3, <2>1
  <2>2. CASE d # c
    <3>1. cont_list'[d] = cont_list[d] /\ Distinct(cont_list[d])
      BY <1>1, <1>2, <2>2 DEF Owned, ListsOwned
    <3>2. b \notin Elems(cont_list[d])
      BY <1>4, <2>2 DEF Owned, ListsOwned
    <3> QED BY <3>1, <3>2
  <2> QED BY <2>1, <2>2
<1> QED BY <1>3, <1>4, <1>5, <1>6

\* pop_continue_tab leaves the continuation without a subscription, and the
\* other connections with theirs.
LEMMA PoppedTab ==
    ASSUME Owned, NEW b \in Cmds, PopContinueTab(b)
    PROVE  /\ tab' = tab \ {b}
           /\ sub_tab' \in [Conns -> [Keys -> Cmds \cup {None}]]
           /\ listblkd' \in SUBSET Conns
           /\ listblkd \ {Conn[b]} \subseteq listblkd'
           /\ \A d \in Conns, k \in Keys :
                /\ sub_tab'[d][k] \in {sub_tab[d][k], None}
                /\ sub_tab'[d][k] # b
                /\ d # Conn[b] => sub_tab'[d][k] = sub_tab[d][k]
<1> DEFINE c    == Conn[b]
           gone == KeySet(b) \cap SubKeys(c)
<1>1. c \in Conns /\ TypeOK /\ None \notin Cmds
  BY KeysType, ConstantsAssumption DEF Owned
<1>2. CASE b \in tab
  <2>1. /\ tab'     = tab \ {b}
        /\ sub_tab' = [sub_tab EXCEPT ![c] = [k \in Keys |->
                         IF k \in gone THEN None ELSE sub_tab[c][k]]]
        /\ listblkd' = OnUnsub(c, gone)
    BY <1>2 DEF PopContinueTab
  <2>2. \A d \in Conns, k \in Keys :
          sub_tab'[d][k] = IF d = c /\ k \in gone THEN None ELSE sub_tab[d][k]
    BY <1>1, <2>1 DEF TypeOK
  <2>3. sub_tab' \in [Conns -> [Keys -> Cmds \cup {None}]]
    BY <1>1, <2>1 DEF TypeOK
  <2>4. \A d \in Conns, k \in Keys : sub_tab[d][k] = b => d = c /\ k \in gone
    BY <1>1 DEF Owned, SubsOwned, SubKeys
  <2>5. \A d \in Conns, k \in Keys : sub_tab'[d][k] # b
    BY <1>1, <2>2, <2>4
  <2> QED BY <1>1, <2>1, <2>2, <2>3, <2>5 DEF TypeOK, OnUnsub
<1>3. CASE b \notin tab
  <2>1. UNCHANGED <<tab, sub_tab, listblkd>>
    BY <1>3 DEF PopContinueTab
  <2>2. \A d \in Conns, k \in Keys : sub_tab[d][k] # b
    BY <1>3 DEF Owned, SubsOwned
  <2> QED BY <1>1, <1>3, <2>1, <2>2 DEF TypeOK
<1> QED BY <1>2, <1>3

\* The first key that is not empty is a key of the store.
LEMMA DecidesKey ==
    ASSUME TypeOK, NEW b \in Cmds, NEW i \in DOMAIN KeysOf[b], Decides(b, i)
    PROVE  KeysOf[b][i] \in Keys /\ KeysOf[b][i] \in KeySet(b)
BY KeysType

\* A continuation that completes is nowhere any more.
LEMMA CompleteOwned ==
    ASSUME Owned, NEW c \in Conns, NEW b \in Cmds, Draining(c, b), Complete(b),
           len' \in [Keys -> Nat], NEW r \in {"data", "error", "null"},
           SendReply(b, r),
           UNCHANGED <<str, open, step, wait_list, timers, pushes>>
    PROVE  Owned'
<1>1. /\ PopContinueTab(b)
      /\ alive' = alive \ {b} /\ hit' = hit \ {b} /\ timeout' = timeout \ {b}
      /\ phase' = [phase EXCEPT ![b] = "done"]
  BY DEF Complete
<1>2. TypeOK'
  <2>1. replies' \in [Cmds -> Seq({"data", "error", "null"})]
    BY DEF SendReply, Owned, TypeOK
  <2>2. thread' \in Conns \cup {None}
    BY DEF Draining
  <2>3. phase' \in [Cmds -> {"unsent", "exec", "blocked", "done", "closed"}]
    BY <1>1 DEF Owned, TypeOK
  <2>4. cont_list' \in [Conns -> Seq(Cmds)]
    BY DrainLists
  <2>5. /\ tab' = tab \ {b} /\ listblkd' \in SUBSET Conns
        /\ sub_tab' \in [Conns -> [Keys -> Cmds \cup {None}]]
    BY <1>1, PoppedTab
  <2> QED BY <1>1, <2>1, <2>2, <2>3, <2>4, <2>5 DEF Owned, TypeOK
<1>3. StepBounds'
  BY DEF Owned, StepBounds
<1>4. SubsOwned'
  <2>1. SUFFICES ASSUME NEW d \in Conns, NEW k \in Keys, NEW a \in Cmds,
                        sub_tab'[d][k] = a
                 PROVE  Conn[a] = d /\ k \in KeySet(a) /\ a \in tab'
                          /\ a \in alive'
    BY DEF SubsOwned, KeySet, Elems
  <2>2. a # b /\ sub_tab[d][k] = a
    BY <1>1, <2>1, PoppedTab, ConstantsAssumption
  <2> QED BY <1>1, <2>2, PoppedTab DEF Owned, SubsOwned
<1>5. ListsOwned'
  <2>1. SUFFICES ASSUME NEW d \in Conns
                 PROVE  /\ Distinct(cont_list'[d])
                        /\ \A a \in Elems(cont_list'[d]) :
                             Conn[a] = d /\ a \in alive' /\ a \notin wait_list'
    BY DEF ListsOwned, Elems, Distinct
  <2>2. /\ Distinct(cont_list'[d]) /\ b \notin Elems(cont_list'[d])
        /\ Elems(cont_list[d]) \ {b} = Elems(cont_list'[d])
    BY DrainLists
  <2>3. \A a \in Elems(cont_list[d]) :
          Conn[a] = d /\ a \in alive /\ a \notin wait_list
    BY DEF Owned, ListsOwned
  <2> QED BY <1>1, <2>2, <2>3
<1>6. AliveBlocked'
  BY <1>1 DEF Owned, AliveBlocked, TypeOK
<1>7. FlagsAlive'
  BY <1>1, DrainLists DEF Owned, FlagsAlive
<1> QED BY <1>2, <1>3, <1>4, <1>5, <1>6, <1>7 DEF Owned

\* A continuation that is still blocked goes back to its subscriptions.
LEMMA StayOwned ==
    ASSUME Owned, NEW c \in Conns, NEW b \in Cmds, Draining(c, b),
           StayBlocked(b),
           replies' \in [Cmds -> Seq({"data", "error", "null"})],
           UNCHANGED <<store, open, step, wait_list, timers, pushes>>
    PROVE  Owned'
<1>1. hit' = hit \ {b} /\ UNCHANGED <<phase, alive, tab, timeout, sub_tab, listblkd>>
  BY DEF StayBlocked, routes
<1>2. TypeOK'
  <2>1. thread' \in Conns \cup {None}
    BY DEF Draining
  <2> QED BY <1>1, <2>1, DrainLists DEF Owned, TypeOK, store
<1>3. SubsOwned' /\ StepBounds' /\ AliveBlocked'
  BY <1>1 DEF Owned, SubsOwned, StepBounds, AliveBlocked, KeySet, Elems
<1>4. ListsOwned'
  <2>1. SUFFICES ASSUME NEW d \in Conns
                 PROVE  /\ Distinct(cont_list'[d])
                        /\ \A a \in Elems(cont_list'[d]) :
                             Conn[a] = d /\ a \in alive' /\ a \notin wait_list'
    BY DEF ListsOwned, Elems, Distinct
  <2>2. /\ Distinct(cont_list'[d]) /\ b \notin Elems(cont_list'[d])
        /\ Elems(cont_list[d]) \ {b} = Elems(cont_list'[d])
    BY DrainLists
  <2>3. \A a \in Elems(cont_list[d]) :
          Conn[a] = d /\ a \in alive /\ a \notin wait_list
    BY DEF Owned, ListsOwned
  <2> QED BY <1>1, <2>2, <2>3
<1>5. FlagsAlive'
  BY <1>1 DEF Owned, FlagsAlive
<1> QED BY <1>2, <1>3, <1>4, <1>5 DEF Owned

\* Running a continuation again.
LEMMA DrainOwned ==
    ASSUME Owned, NEW c \in Conns, NEW b \in Cmds, Drain(c, b)
    PROVE  Owned'
<1>1. TypeOK
  BY DEF Owned
<1>2. CASE DrainData(c, b)
  <2>1. PICK i \in DOMAIN KeysOf[b] :
          /\ Decides(b, i)
          /\ len[KeysOf[b][i]] > 0
          /\ len' = [len EXCEPT ![KeysOf[b][i]] = @ - 1]
    BY <1>2 DEF DrainData
  <2>2. KeysOf[b][i] \in Keys
    BY <1>1, <2>1, DecidesKey
  <2>3. len[KeysOf[b][i]] - 1 \in Nat
    BY <1>1, <2>1, <2>2 DEF TypeOK
  <2>4. len' \in [Keys -> Nat]
    BY <1>1, <2>1, <2>2, <2>3 DEF TypeOK
  <2> QED BY <1>2, <2>4, CompleteOwned DEF DrainData
<1>3. CASE DrainNull(c, b)
  <2>1. len' \in [Keys -> Nat]
    BY <1>1, <1>3 DEF DrainNull, TypeOK, store
  <2> QED BY <1>3, <2>1, CompleteOwned DEF DrainNull, store
<1>4. CASE DrainError(c, b)
  <2>1. Draining(c, b) /\ SendReply(b, "error")
        /\ UNCHANGED <<store, open, step, wait_list, timers, pushes>>
        /\ (Complete(b) \/ StayBlocked(b))
    BY <1>4 DEF DrainError
  <2>2. replies' \in [Cmds -> Seq({"data", "error", "null"})]
    BY <1>1, <2>1 DEF SendReply, TypeOK
  <2>3. len' \in [Keys -> Nat] /\ str' = str
    BY <1>1, <2>1 DEF TypeOK, store
  <2> QED BY <2>1, <2>2, <2>3, CompleteOwned, StayOwned
<1>5. CASE DrainBlocked(c, b)
  <2>1. replies' \in [Cmds -> Seq({"data", "error", "null"})]
    BY <1>1, <1>5 DEF DrainBlocked, TypeOK
  <2> QED BY <1>5, <2>1, StayOwned DEF DrainBlocked
<1> QED BY <1>2, <1>3, <1>4, <1>5 DEF Drain

\* Closing a connection frees what its subscriptions lead to, which is in no
\* list or table of another one.
LEMMA CloseOwned ==
    ASSUME Owned, NEW c \in Conns, Close(c)
    PROVE  Owned'
<1> DEFINE mine == {b \in Cmds : Conn[b] = c}
           subs == Released(c)
<1>1. /\ TypeOK /\ None \notin Cmds
      /\ \A d \in Conns, k \in Keys : sub_tab[d][k] \in Cmds \cup {None}
  BY ConstantsAssumption DEF Owned, TypeOK
<1>2. subs \subseteq mine
  BY DEF Released, Owned, SubsOwned
<1>3. /\ open'      = open \ {c}
      /\ phase'     = [b \in Cmds |-> IF b \in mine /\ phase[b] # "done"
                                      THEN "closed" ELSE phase[b]]
      /\ sub_tab'   = [sub_tab EXCEPT ![c] = [k \in Keys |-> None]]
      /\ listblkd'  = OnUnsub(c, SubKeys(c))
      /\ wait_list' = wait_list \ subs
      /\ cont_list' = [cont_list EXCEPT ![c] = <<>>]
      /\ timers'    = timers \ mine
      /\ alive'     = alive \ subs
      /\ tab'       = tab \ subs
      /\ hit'       = hit \ subs
      /\ timeout'   = timeout \ subs
      /\ UNCHANGED <<store, step, replies, thread, pushes>>
  BY DEF Close
<1>4. \A d \in Conns : /\ d = c => \A k \in Keys : sub_tab'[d][k] = None
                       /\ d # c => sub_tab'[d] = sub_tab[d]
  BY <1>1, <1>3 DEF TypeOK
<1>5. \A d \in Conns : /\ d = c => cont_list'[d] = <<>>
                       /\ d # c => cont_list'[d] = cont_list[d]
  BY <1>1, <1>3 DEF TypeOK
<1>6. Elems(<<>>) = {} /\ Distinct(<<>>)
  BY DEF Elems, Distinct
<1> HIDE DEF subs
<1>7. TypeOK'
  <2>1. phase' \in [Cmds -> {"unsent", "exec", "blocked", "done", "closed"}]
    BY <1>1, <1>3 DEF TypeOK
  <2>2. cont_list' \in [Conns -> Seq(Cmds)]
    BY <1>1, <1>3 DEF TypeOK
  <2>3. sub_tab' \in [Conns -> [Keys -> Cmds \cup {None}]]
    BY <1>1, <1>3 DEF TypeOK
  <2>4. listblkd' \in SUBSET Conns
    BY <1>1, <1>3 DEF TypeOK, OnUnsub
  <2> QED BY <1>1, <1>3, <2>1, <2>2, <2>3, <2>4 DEF TypeOK, store
<1>8. StepBounds'
  BY <1>3 DEF Owned, StepBounds
<1>9. SubsOwned'
  <2>1. SUFFICES ASSUME NEW d \in Conns, NEW k \in Keys, NEW a \in Cmds,
                        sub_tab'[d][k] = a
                 PROVE  Conn[a] = d /\ k \in KeySet(a) /\ a \in tab'
                          /\ a \in alive'
    BY DEF SubsOwned, KeySet, Elems
  <2>2. d # c /\ sub_tab[d][k] = a
    BY <1>1, <1>4, <2>1
  <2>3. Conn[a] = d /\ k \in KeySet(a) /\ a \in tab /\ a \in alive
    BY <2>2 DEF Owned, SubsOwned
  <2>4. a \notin subs
    BY <1>2, <2>2, <2>3
  <2> QED BY <1>3, <2>3, <2>4
<1>10. ListsOwned'
  <2>1. SUFFICES ASSUME NEW d \in Conns
                 PROVE  /\ Distinct(cont_list'[d])
                        /\ \A a \in Elems(cont_list'[d]) :
                             Conn[a] = d /\ a \in alive' /\ a \notin wait_list'
    BY DEF ListsOwned, Elems, Distinct
  <2>2. CASE d = c
    BY <1>5, <1>6, <2>2
  <2>3. CASE d # c
    <3>1. /\ Distinct(cont_list[d])
          /\ \A a \in Elems(cont_list[d]) :
               Conn[a] = d /\ a \in alive /\ a \notin wait_list
      BY DEF Owned, ListsOwned
    <3>2. \A a \in Elems(cont_list[d]) : a \notin subs
      BY <1>2, <2>3, <3>1
    <3> QED BY <1>3, <1>5, <2>3, <3>1, <3>2
  <2> QED BY <2>2, <2>3
<1>11. AliveBlocked'
  BY <1>3 DEF Owned, AliveBlocked, TypeOK
<1>12. FlagsAlive'
  BY <1>3 DEF Owned, FlagsAlive
<1> QED BY <1>7, <1>8, <1>9, <1>10, <1>11, <1>12 DEF Owned

\* Every step keeps the ownership of the continuations.
LEMMA NextOwned == Owned /\ [Next]_vars => Owned'
<1>1. SUFFICES ASSUME Owned, [Next]_vars PROVE Owned'
  OBVIOUS
<1>2. ASSUME NEW b \in Cmds, Send(b) \/ RunKey(b) \/ TimerExpire(b)
      PROVE  Owned'
  BY <1>1, <1>2, FirstOwned, SaveOwned, TimerOwned DEF RunKey
<1>3. ASSUME NEW c \in Conns, NEW b \in Cmds, Drain(c, b)
      PROVE  Owned'
  BY <1>1, <1>3, DrainOwned
<1>4. ASSUME NEW c \in Pushers, NEW k \in Keys, Push(c, k)
      PROVE  Owned'
  BY <1>1, <1>4, PushOwned, ConstantsAssumption
<1>5. ASSUME \/ \E c \in Poppers, k \in Keys : Pop(c, k)
             \/ \E c \in Movers, k \in Keys, d \in MoveTo : Move(c, k, d)
             \/ \E k \in StringKeys : SetString(k) \/ DelString(k)
      PROVE  Owned'
  <2>1. Poppers \subseteq Conns /\ Movers \subseteq Conns
        /\ StringKeys \subseteq Keys
    BY ConstantsAssumption
  <2> QED BY <1>1, <1>5, <2>1, OtherOwned
<1>6. ASSUME NEW c \in Conns, Close(c)
      PROVE  Owned'
  BY <1>1, <1>6, CloseOwned
<1>7. CASE UNCHANGED vars
  <2>1. TypeOK'
    BY <1>1, <1>7 DEF Owned, TypeOK, vars, store, conns, flags, queues, routes
  <2> QED BY <1>1, <1>7, <2>1, KeepOwned
          DEF Owned, StepBounds, vars, conns, flags, queues, routes
<1> QED BY <1>1, <1>2, <1>3, <1>4, <1>5, <1>6, <1>7 DEF Next

\* The ownership of the continuations is an invariant.
LEMMA OwnedInvariant == Spec => []Owned
BY InitOwned, NextOwned, PTL DEF Spec

\* Every variable of the blocking commands has its type, for any connections,
\* keys and commands.
THEOREM TypeCorrect == Spec => []TypeOK
<1>1. Owned => TypeOK
  BY DEF Owned
<1> QED BY <1>1, OwnedInvariant, PTL

\* wait_list, cont_list and RedisSubMap never hold a continuation that was
\* deleted, whatever keys the commands of a connection have in common.
THEOREM NoDanglingCorrect == Spec => []NoDangling
<1>1. Owned => NoDangling
  <2>1. SUFFICES ASSUME Owned PROVE NoDangling
    OBVIOUS
  <2>2. \A c \in Conns, k \in Keys : sub_tab[c][k] \in Cmds \cup {None}
    BY <2>1 DEF Owned, TypeOK
  <2>3. \A c \in Conns, k \in Keys : sub_tab[c][k] # None => sub_tab[c][k] \in alive
    BY <2>1, <2>2 DEF Owned, SubsOwned
  <2>4. \A c \in Conns : Elems(cont_list[c]) \subseteq alive
    BY <2>1 DEF Owned, ListsOwned
  <2> QED BY <2>1, <2>3, <2>4 DEF Owned, FlagsAlive, NoDangling
<1> QED BY <1>1, OwnedInvariant, PTL

-----------------------------------------------------------------------------
(* Wakeups.  The condition under which none is lost: a connection has one  *)
(* blocking command and pushes nothing itself, RPOPLPUSH puts nothing on a *)
(* list that is waited for, the keys of a command are run together, and    *)
(* only the last key of a command can become a string.                     *)

Apart ==
    /\ \A a, b \in Cmds : Conn[a] = Conn[b] => a = b
    /\ \A b \in Cmds : Conn[b] \notin Pushers
    /\ \A b \in Cmds : KeySet(b) \cap MoveTo = {}
    /\ ~Prefetch
    /\ \A b \in Cmds : \A i \in DOMAIN KeysOf[b] :
         KeysOf[b][i] \in StringKeys => i = Len(KeysOf[b])

\* The thread of the loop is with the connection whose command runs first, and
\* the keys that the command has passed are empty until it has subscribed.
RunsAlone(b) ==
    phase[b] = "exec" =>
        /\ thread = Conn[b] /\ Conn[b] \in open
        /\ \A i \in 1 .. step[b] - 1 : len[KeysOf[b][i]] = 0

\* A blocked command has all of its subscriptions, and its connection is in
\* the route that enables the events.
Subscribed(b) ==
    phase[b] = "blocked" =>
        /\ b \in alive /\ b \in tab
        /\ Conn[b] \in open /\ Conn[b] \in listblkd
        /\ \A k \in KeySet(b) : sub_tab[Conn[b]][k] = b

\* CM_PUB_HIT, which keeps events from scheduling a continuation again, is set
\* on a scheduled one only.
HitScheduled(b) ==
    phase[b] = "blocked" /\ b \in hit => b \in Elems(cont_list[Conn[b]])

\* A command has no reply before it ends.
Unanswered(b) ==
    /\ phase[b] \in {"unsent", "exec", "blocked"} => replies[b] = <<>>
    /\ Len(replies[b]) <= 1
    /\ phase[b] = "unsent" => step[b] = 1
    /\ b \in alive => phase[b] = "blocked"

\* A blocked command with an element waiting is scheduled.
Woken(b) ==
    phase[b] = "blocked" /\ (\E k \in KeySet(b) : len[k] > 0)
        => b \in Elems(cont_list[Conn[b]])

CmdOK(b) == RunsAlone(b) /\ Subscribed(b) /\ HitScheduled(b) /\ Unanswered(b)
                /\ Woken(b)

Wakeups == str \subseteq StringKeys /\ \A b \in Cmds : CmdOK(b)

\* Before the first command.
LEMMA InitWakeups == Init => Wakeups
BY DEF Init, Wakeups, CmdOK, RunsAlone, Subscribed, HitScheduled, Unanswered,
       Woken

\* What a command is about is kept when its own state is, its connection stays
\* subscribed, and its lists get no element.
LEMMA CmdKept ==
    ASSUME Owned, NEW b \in Cmds, CmdOK(b),
           phase'[b] = phase[b], step'[b] = step[b], replies'[b] = replies[b],
           phase[b] # "exec",
           b \in alive' <=> b \in alive, b \in tab => b \in tab',
           Conn[b] \in open => Conn[b] \in open',
           Conn[b] \in listblkd => Conn[b] \in listblkd',
           sub_tab'[Conn[b]] = sub_tab[Conn[b]],
           Elems(cont_list[Conn[b]]) \subseteq Elems(cont_list'[Conn[b]]),
           b \in hit' => b \in hit \/ b \in Elems(cont_list'[Conn[b]]),
           \A k \in KeySet(b) : len'[k] > 0 =>
               len[k] > 0 \/ b \in Elems(cont_list'[Conn[b]])
    PROVE  CmdOK(b)'
<1>1. RunsAlone(b)'
  BY DEF RunsAlone
<1>2. Subscribed(b)'
  BY DEF CmdOK, Subscribed, KeySet, Elems
<1>3. HitScheduled(b)'
  BY DEF CmdOK, HitScheduled, Elems
<1>4. Unanswered(b)'
  BY DEF CmdOK, Unanswered
<1>5. Woken(b)'
  BY DEF CmdOK, Woken, KeySet, Elems
<1> QED BY <1>1, <1>2, <1>3, <1>4, <1>5 DEF CmdOK

\* While the thread is free no command is in its first run.
LEMMA ThreadFree ==
    ASSUME Wakeups, thread = None
    PROVE  \A b \in Cmds : phase[b] # "exec"
BY KeysType, ConstantsAssumption DEF Wakeups, CmdOK, RunsAlone

\* Nor while a continuation is drained.
LEMMA DrainFree ==
    ASSUME Wakeups, NEW c \in Conns, NEW b \in Cmds, Draining(c, b)
    PROVE  \A d \in Cmds : phase[d] # "exec"
BY KeysType, ConstantsAssumption
   DEF Wakeups, CmdOK, RunsAlone, Draining, InExec

\* A command that runs first is the only one that does.
LEMMA OthersKept ==
    ASSUME Apart, Owned, Wakeups, NEW b \in Cmds,
           thread = None \/ thread = Conn[b],
           NEW d \in Cmds, d # b,
           phase'[d] = phase[d], step'[d] = step[d], replies'[d] = replies[d],
           d \in alive' <=> d \in alive, d \in tab => d \in tab',
           open' = open, listblkd \subseteq listblkd',
           sub_tab'[Conn[d]] = sub_tab[Conn[d]],
           cont_list' = cont_list, hit' = hit,
           \A k \in KeySet(d) : len'[k] > 0 => len[k] > 0
    PROVE  CmdOK(d)'
<1>1. phase[d] # "exec"
  BY ThreadFree DEF Apart, Wakeups, CmdOK, RunsAlone
<1> QED BY <1>1, CmdKept DEF Wakeups

\* The first run, until it is answered or goes to the next key.
LEMMA FirstWakeups ==
    ASSUME Apart, Owned, Wakeups, NEW b \in Cmds,
           Send(b) \/ FirstData(b) \/ FirstError(b) \/ FirstNext(b)
    PROVE  Wakeups'
<1> USE DEF flags, queues, routes
<1>1. /\ TypeOK /\ CmdOK(b) /\ b \notin alive /\ ~Prefetch
      /\ step[b] \in 1 .. Len(KeysOf[b])
      /\ thread = None \/ thread = Conn[b]
      /\ Conn[b] \in Conns /\ None \notin Conns
  BY KeysType, ConstantsAssumption
     DEF Owned, StepBounds, AliveBlocked, Wakeups, Apart, AtKey, Serves, Send,
         FirstData, FirstError, FirstNext
<1>2. /\ UNCHANGED <<open, alive, tab, hit, cont_list, sub_tab, listblkd, str>>
      /\ \A d \in Cmds : d # b => phase'[d] = phase[d] /\ step'[d] = step[d]
                                    /\ replies'[d] = replies[d]
  BY <1>1 DEF Send, FirstData, FirstError, FirstNext, Answered, TypeOK, store
<1>3. \A k \in Keys : len'[k] > 0 => len[k] > 0
  <2>1. CASE FirstData(b)
    <3>1. StepKey(b) \in Keys
      BY <1>1, KeysType DEF StepKey
    <3>2. \A k \in Keys : len'[k] = len[k] \/ (k = StepKey(b) /\ len[k] > 0)
      BY <1>1, <2>1, <3>1 DEF FirstData, TypeOK
    <3> QED BY <3>2
  <2>2. CASE ~FirstData(b)
    BY <2>2 DEF Send, FirstError, FirstNext, store
  <2> QED BY <2>1, <2>2
<1>4. \A d \in Cmds : d # b => CmdOK(d)'
  <2>1. SUFFICES ASSUME NEW d \in Cmds, d # b PROVE CmdOK(d)'
    OBVIOUS
  <2>2. \A k \in KeySet(d) : len'[k] > 0 => len[k] > 0
    BY <1>3, KeysType
  <2> QED BY <1>1, <1>2, <2>1, <2>2, OthersKept
<1>5. CmdOK(b)'
  <2>1. CASE Send(b)
    <3>1. /\ phase'[b] = "exec" /\ phase[b] = "unsent" /\ step'[b] = 1
          /\ thread' = Conn[b] /\ Conn[b] \in open' /\ replies'[b] = <<>>
      BY <1>1, <1>2, <2>1
         DEF Send, Serves, TypeOK, CmdOK, Unanswered
    <3> QED BY <1>1, <1>2, <3>1
            DEF CmdOK, RunsAlone, Subscribed, HitScheduled, Unanswered, Woken
  <2>2. CASE FirstData(b) \/ FirstError(b)
    <3>1. /\ phase'[b] = "done" /\ phase[b] = "exec"
          /\ \E r \in {"data", "error"} : replies'[b] = Append(<<>>, r)
      BY <1>1, <2>2 DEF FirstData, FirstError, Answered, AtKey, TypeOK, CmdOK,
                        Unanswered
    <3>2. Len(replies'[b]) <= 1
      BY <3>1
    <3> QED BY <1>1, <1>2, <3>1, <3>2
            DEF CmdOK, RunsAlone, Subscribed, HitScheduled, Unanswered, Woken
  <2>3. CASE FirstNext(b)
    <3>1. /\ phase'[b] = "exec" /\ phase[b] = "exec" /\ step'[b] = step[b] + 1
          /\ thread' = thread /\ len' = len /\ replies' = replies
          /\ len[KeysOf[b][step[b]]] = 0
      BY <1>1, <2>3 DEF FirstNext, AtKey, TypeOK, Empty, StepKey, store
    <3>2. \A i \in 1 .. step'[b] - 1 : len'[KeysOf[b][i]] = 0
      <4>1. SUFFICES ASSUME NEW i \in 1 .. step'[b] - 1
                     PROVE  len[KeysOf[b][i]] = 0
        BY <3>1
      <4>2. i \in 1 .. step[b] - 1 \/ i = step[b]
        BY <1>1, <3>1, <4>1
      <4> QED BY <1>1, <3>1, <4>2 DEF CmdOK, RunsAlone
    <3> QED BY <1>1, <1>2, <3>1, <3>2
            DEF CmdOK, RunsAlone, Subscribed, HitScheduled, Unanswered, Woken
  <2> QED BY <2>1, <2>2, <2>3
<1> QED BY <1>2, <1>4, <1>5 DEF Wakeups

\* A command that blocks finds no subscription of its connection, makes one for
\* every key, and has seen all of its keys empty.
LEMMA SaveWakeups ==
    ASSUME Apart, Owned, Wakeups, NEW b \in Cmds, SaveBlocked(b)
    PROVE  Wakeups'
<1> DEFINE c     == Conn[b]
           fresh == KeySet(b) \ SubKeys(c)
<1>1. /\ TypeOK /\ CmdOK(b) /\ b \notin alive /\ b \notin hit
      /\ step[b] \in 1 .. Len(KeysOf[b])
      /\ thread = c /\ phase[b] = "exec"
      /\ c \in Conns /\ None \notin Conns /\ None \notin Cmds
  BY KeysType, ConstantsAssumption
     DEF Owned, StepBounds, AliveBlocked, FlagsAlive, Wakeups, Apart, AtKey,
         SaveBlocked
<1>2. /\ alive'   = alive \cup {b}
      /\ sub_tab' = [sub_tab EXCEPT ![c] = [k \in Keys |->
                        IF k \in fresh THEN b ELSE sub_tab[c][k]]]
      /\ tab'       = IF fresh # {} THEN tab \cup {b} ELSE tab
      /\ listblkd'  = OnSub(c, fresh)
      /\ phase'     = [phase EXCEPT ![b] = "blocked"]
      /\ UNCHANGED <<store, open, step, replies, hit, cont_list>>
      /\ Empty(StepKey(b)) /\ step[b] = Len(KeysOf[b])
  BY DEF SaveBlocked
<1>3. SubKeys(c) = {}
  <2>1. \A k \in Keys : sub_tab[c][k] \in Cmds \cup {None}
    BY <1>1 DEF TypeOK
  <2>2. \A k \in Keys, d \in Cmds : sub_tab[c][k] = d => d = b /\ d \in alive
    BY <1>1 DEF Owned, SubsOwned, Apart
  <2> QED BY <1>1, <2>1, <2>2 DEF SubKeys
<1>4. fresh = KeySet(b) /\ fresh # {}
  BY <1>3, KeysType
<1>5. \A d \in Conns, k \in Keys :
        sub_tab'[d][k] = IF d = c /\ k \in fresh THEN b ELSE sub_tab[d][k]
  BY <1>1, <1>2 DEF TypeOK
<1>6. \A i \in 1 .. Len(KeysOf[b]) : len[KeysOf[b][i]] = 0
  <2>1. SUFFICES ASSUME NEW i \in 1 .. Len(KeysOf[b])
                 PROVE  len[KeysOf[b][i]] = 0
    OBVIOUS
  <2>2. i \in 1 .. step[b] - 1 \/ i = step[b]
    BY <1>1, <1>2
  <2>3. len[KeysOf[b][step[b]]] = 0
    BY <1>2 DEF Empty, StepKey
  <2> QED BY <1>1, <2>2, <2>3 DEF CmdOK, RunsAlone
<1>7. \A k \in KeySet(b) : len[k] = 0
  BY <1>6, KeysType DEF KeySet, Elems
<1> HIDE DEF fresh
<1>8. CmdOK(b)'
  <2>1. /\ phase'[b] = "blocked" /\ b \in alive' /\ b \in tab' /\ b \notin hit'
        /\ c \in open' /\ c \in listblkd' /\ replies'[b] = <<>>
    BY <1>1, <1>2, <1>4 DEF TypeOK, OnSub, CmdOK, RunsAlone, Unanswered
  <2>2. \A k \in KeySet(b) : sub_tab'[c][k] = b
    BY <1>1, <1>4, <1>5, KeysType
  <2>3. \A k \in KeySet(b) : len'[k] = 0
    BY <1>2, <1>7 DEF store
  <2>4. Subscribed(b)'
    BY <2>1, <2>2 DEF Subscribed, KeySet, Elems
  <2>5. Woken(b)'
    BY <2>3 DEF Woken, KeySet, Elems
  <2> QED BY <2>1, <2>4, <2>5 DEF CmdOK, RunsAlone, HitScheduled, Unanswered
<1>9. \A d \in Cmds : d # b => CmdOK(d)'
  <2>1. SUFFICES ASSUME NEW d \in Cmds, d # b PROVE CmdOK(d)'
    OBVIOUS
  <2>2. Conn[d] # c /\ Conn[d] \in Conns
    BY <2>1, KeysType DEF Apart
  <2>3. sub_tab'[Conn[d]] = sub_tab[Conn[d]]
    BY <1>1, <1>2, <2>2 DEF TypeOK
  <2>4. phase'[d] = phase[d]
    BY <1>1, <1>2, <2>1 DEF TypeOK
  <2>5. listblkd \subseteq listblkd'
    BY <1>2 DEF OnSub
  <2> QED BY <1>1, <1>2, <2>1, <2>3, <2>4, <2>5, OthersKept DEF store
<1> QED BY <1>2, <1>8, <1>9 DEF Wakeups, store

\* A push schedules every command that waits for its list and is not scheduled.
LEMMA PushWakeups ==
    ASSUME Apart, Owned, Wakeups, NEW c \in Pushers, NEW k \in Keys, Push(c, k)
    PROVE  Wakeups'
<1> DEFINE woken == ListEvent(c, k)
<1>1. /\ Schedule(woken) /\ hit' = hit \cup woken
      /\ len' = [len EXCEPT ![k] = @ + 1]
      /\ UNCHANGED <<str, open, phase, step, replies, thread, alive, tab,
                     sub_tab, listblkd>>
      /\ thread = None /\ c \in Conns
  BY ConstantsAssumption DEF Push, conns, routes, Serves
<1>2. /\ woken \in SUBSET alive
      /\ \A a, b \in woken : Conn[a] = Conn[b] => a = b
  BY NotifiedAlive
<1>3. \A b \in woken : b \in Elems(cont_list'[Conn[b]])
  <2>1. SUFFICES ASSUME NEW b \in woken
                 PROVE  b \in Elems(cont_list'[Conn[b]])
    OBVIOUS
  <2>2. b \in Cmds /\ Conn[b] \in Conns
    BY <1>2, <2>1, KeysType DEF Owned, TypeOK
  <2>3. \A d \in woken : Conn[b] = Conn[b] /\ Conn[d] = Conn[b] => b = d
    BY <1>2, <2>1
  <2> HIDE DEF woken
  <2> QED BY <1>1, <1>2, <2>1, <2>2, <2>3, ScheduleLists
<1>4. SUFFICES ASSUME NEW b \in Cmds PROVE CmdOK(b)'
  BY <1>1 DEF Wakeups
<1>5. CmdOK(b) /\ phase[b] # "exec" /\ Conn[b] \in Conns
  BY <1>1, ThreadFree, KeysType DEF Wakeups
<1>6. Elems(cont_list[Conn[b]]) \subseteq Elems(cont_list'[Conn[b]])
  <2> HIDE DEF woken
  <2> QED BY <1>1, <1>2, <1>5, ScheduleLists
<1>7. b \in hit' => b \in hit \/ b \in Elems(cont_list'[Conn[b]])
  BY <1>1, <1>3
<1>8. CASE phase[b] = "blocked" /\ k \in KeySet(b)
  <2>1. sub_tab[Conn[b]][k] = b /\ Conn[b] # c /\ listblkd # {}
    BY <1>5, <1>8 DEF CmdOK, Subscribed, Apart
  <2>2. b \in hit \/ b \in woken
    BY <1>5, <2>1 DEF ListEvent, Notified
  <2>3. b \in Elems(cont_list'[Conn[b]])
    BY <1>3, <1>5, <1>6, <1>8, <2>2 DEF CmdOK, HitScheduled
  <2> HIDE DEF woken
  <2> QED BY <1>1, <1>5, <1>6, <1>7, <2>3, CmdKept
<1>9. CASE phase[b] = "blocked" /\ k \notin KeySet(b)
  <2>1. \A j \in KeySet(b) : len'[j] = len[j]
    BY <1>1, <1>9, KeysType DEF Owned, TypeOK
  <2> HIDE DEF woken
  <2> QED BY <1>1, <1>5, <1>6, <1>7, <2>1, CmdKept
<1>10. CASE phase[b] # "blocked"
  BY <1>1, <1>5, <1>10
     DEF CmdOK, RunsAlone, Subscribed, HitScheduled, Unanswered, Woken
<1> QED BY <1>8, <1>9, <1>10

\* The other commands add no element to a list that is waited for.
LEMMA OtherWakeups ==
    ASSUME Apart, Owned, Wakeups,
           \/ \E c \in Conns, k \in Keys : Pop(c, k)
           \/ \E c \in Conns, k \in Keys, d \in MoveTo : Move(c, k, d)
           \/ \E k \in StringKeys : SetString(k) \/ DelString(k)
    PROVE  Wakeups'
<1>1. /\ UNCHANGED <<conns, flags, queues, routes>> /\ thread = None
      /\ str' \subseteq StringKeys
  BY DEF Pop, Move, SetString, DelString, Serves, Wakeups
<1>2. \A b \in Cmds : \A j \in KeySet(b) : len'[j] > 0 => len[j] > 0
  <2>1. SUFFICES ASSUME NEW b \in Cmds, NEW j \in KeySet(b), len'[j] > 0
                 PROVE  len[j] > 0
    OBVIOUS
  <2>2. j \in Keys /\ len \in [Keys -> Nat]
    BY KeysType DEF Owned, TypeOK
  <2>3. ASSUME NEW c \in Conns, NEW k \in Keys, Pop(c, k)
        PROVE  len[j] > 0
    BY <2>1, <2>2, <2>3 DEF Pop
  <2>4. ASSUME NEW c \in Conns, NEW k \in Keys, NEW d \in MoveTo, Move(c, k, d)
        PROVE  len[j] > 0
    <3>1. j # d /\ d \in Keys
      BY ConstantsAssumption DEF Apart
    <3>2. len'[j] = [len EXCEPT ![k] = @ - 1][j]
      BY <2>2, <2>4, <3>1 DEF Move
    <3> QED BY <2>1, <2>2, <2>4, <3>2 DEF Move
  <2>5. ASSUME NEW k \in StringKeys, SetString(k) \/ DelString(k)
        PROVE  len[j] > 0
    BY <2>1, <2>5 DEF SetString, DelString
  <2> QED BY <2>3, <2>4, <2>5
<1>3. SUFFICES ASSUME NEW b \in Cmds PROVE CmdOK(b)'
  BY <1>1 DEF Wakeups
<1>4. CmdOK(b) /\ phase[b] # "exec"
  BY <1>1, ThreadFree DEF Wakeups
<1> QED BY <1>1, <1>2, <1>4, CmdKept DEF conns, flags, queues, routes

\* The timer only schedules.
LEMMA TimerWakeups ==
    ASSUME Apart, Owned, Wakeups, NEW b \in Cmds, TimerExpire(b)
    PROVE  Wakeups'
<1>1. /\ UNCHANGED <<store, conns, alive, tab, hit, routes>> /\ thread = None
  BY DEF TimerExpire
<1>2. \A c \in Conns : Elems(cont_list[c]) \subseteq Elems(cont_list'[c])
  <2>1. CASE b \in wait_list /\ b \notin timeout
    <3>1. Schedule({b}) /\ {b} \in SUBSET alive
      BY <2>1 DEF TimerExpire, Owned, FlagsAlive
    <3> QED BY <3>1, ScheduleLists
  <2>2. CASE ~(b \in wait_list /\ b \notin timeout)
    BY <2>2 DEF TimerExpire
  <2> QED BY <2>1, <2>2
<1>3. SUFFICES ASSUME NEW d \in Cmds PROVE CmdOK(d)'
  BY <1>1 DEF Wakeups, store
<1>4. CmdOK(d) /\ phase[d] # "exec" /\ Conn[d] \in Conns
  BY <1>1, ThreadFree, KeysType DEF Wakeups
<1> QED BY <1>1, <1>2, <1>4, CmdKept DEF store, conns, routes

\* A command that completes has one reply; the others keep what is theirs.
LEMMA CompleteWakeups ==
    ASSUME Apart, Owned, Wakeups, NEW c \in Conns, NEW b \in Cmds,
           Draining(c, b), Complete(b), NEW r, SendReply(b, r),
           \A k \in Keys : len'[k] > 0 => len[k] > 0,
           UNCHANGED <<str, open, step>>
    PROVE  Wakeups'
<1>1. /\ Conn[b] = c /\ b \in alive
      /\ \A d \in Conns : Elems(cont_list[d]) \ {b} = Elems(cont_list'[d])
  BY DrainLists
<1>2. /\ alive' = alive \ {b} /\ hit' = hit \ {b}
      /\ phase' = [phase EXCEPT ![b] = "done"]
      /\ replies' = [replies EXCEPT ![b] = Append(@, r)]
  BY DEF Complete, SendReply
<1>3. /\ tab' = tab \ {b}
      /\ listblkd \ {c} \subseteq listblkd'
      /\ \A d \in Conns : d # c => \A k \in Keys : sub_tab'[d][k] = sub_tab[d][k]
      /\ sub_tab' \in [Conns -> [Keys -> Cmds \cup {None}]]
  BY <1>1, PoppedTab DEF Complete
<1>4. SUFFICES ASSUME NEW d \in Cmds PROVE CmdOK(d)'
  BY DEF Wakeups
<1>5. TypeOK /\ CmdOK(d) /\ phase[d] # "exec" /\ Conn[d] \in Conns
  BY DrainFree, KeysType DEF Wakeups, Owned
<1>6. CASE d = b
  <2>1. phase'[b] = "done" /\ replies'[b] = Append(<<>>, r) /\ b \notin alive'
    BY <1>1, <1>2, <1>5, <1>6 DEF TypeOK, CmdOK, Unanswered
  <2>2. Len(replies'[b]) <= 1
    BY <2>1
  <2> QED BY <1>6, <2>1, <2>2
          DEF CmdOK, RunsAlone, Subscribed, HitScheduled, Unanswered, Woken
<1>7. CASE d # b
  <2>1. Conn[d] # c
    BY <1>1, <1>7 DEF Apart
  <2>2. sub_tab'[Conn[d]] = sub_tab[Conn[d]]
    BY <1>3, <1>5, <2>1 DEF TypeOK
  <2>3. phase'[d] = phase[d] /\ replies'[d] = replies[d]
    BY <1>2, <1>5, <1>7 DEF TypeOK
  <2>4. Elems(cont_list[Conn[d]]) \subseteq Elems(cont_list'[Conn[d]])
    <3>1. b \notin Elems(cont_list[Conn[d]])
      BY <1>1, <1>5, <2>1 DEF Owned, ListsOwned
    <3> QED BY <1>1, <1>5, <3>1
  <2>5. \A k \in KeySet(d) : len'[k] > 0 => len[k] > 0
    BY KeysType
  <2> QED BY <1>2, <1>3, <1>5, <1>7, <2>1, <2>2, <2>3, <2>4, <2>5, CmdKept
<1> QED BY <1>6, <1>7

\* A command that is still blocked has found all of its lists empty.
LEMMA StayWakeups ==
    ASSUME Apart, Owned, Wakeups, NEW c \in Conns, NEW b \in Cmds,
           DrainBlocked(c, b)
    PROVE  Wakeups'
<1>1. /\ Draining(c, b) /\ NotEmpty(b) = {} /\ hit' = hit \ {b}
      /\ UNCHANGED <<len, str, open, phase, step, replies, alive, tab, sub_tab,
                     listblkd>>
  BY DEF DrainBlocked, StayBlocked, store, routes
<1>2. /\ Conn[b] = c
      /\ \A d \in Conns : Elems(cont_list[d]) \ {b} = Elems(cont_list'[d])
  BY <1>1, DrainLists
<1>3. SUFFICES ASSUME NEW d \in Cmds PROVE CmdOK(d)'
  BY <1>1 DEF Wakeups
<1>4. CmdOK(d) /\ phase[d] # "exec" /\ Conn[d] \in Conns
  BY <1>1, DrainFree, KeysType DEF Wakeups
<1>5. CASE d = b
  <2>1. \A k \in KeySet(b) : len[k] = 0
    BY <1>1 DEF NotEmpty, Empty, KeySet, Elems
  <2>2. b \notin hit'
    BY <1>1
  <2>3. Subscribed(b)'
    BY <1>1, <1>4, <1>5 DEF CmdOK, Subscribed, KeySet, Elems
  <2>4. Woken(b)'
    BY <1>1, <2>1 DEF Woken, KeySet, Elems
  <2>5. RunsAlone(b)' /\ Unanswered(b)'
    BY <1>1, <1>4, <1>5 DEF CmdOK, RunsAlone, Unanswered
  <2> QED BY <1>5, <2>2, <2>3, <2>4, <2>5 DEF CmdOK, HitScheduled
<1>6. CASE d # b
  <2>1. Conn[d] # c
    BY <1>2, <1>6 DEF Apart
  <2>2. b \notin Elems(cont_list[Conn[d]])
    BY <1>2, <1>4, <2>1 DEF Owned, ListsOwned
  <2>3. Elems(cont_list[Conn[d]]) \subseteq Elems(cont_list'[Conn[d]])
    BY <1>2, <1>4, <2>2
  <2> QED BY <1>1, <1>4, <2>3, CmdKept
<1> QED BY <1>5, <1>6

\* Running a continuation again.
LEMMA DrainWakeups ==
    ASSUME Apart, Owned, Wakeups, NEW c \in Conns, NEW b \in Cmds, Drain(c, b)
    PROVE  Wakeups'
<1>1. CASE DrainData(c, b)
  <2>1. PICK i \in DOMAIN KeysOf[b] :
          /\ Decides(b, i)
          /\ len[KeysOf[b][i]] > 0
          /\ len' = [len EXCEPT ![KeysOf[b][i]] = @ - 1]
    BY <1>1 DEF DrainData
  <2>2. KeysOf[b][i] \in Keys /\ len \in [Keys -> Nat]
    BY <2>1, DecidesKey DEF Owned, TypeOK
  <2>3. \A k \in Keys : len'[k] > 0 => len[k] > 0
    BY <2>1, <2>2
  <2> QED BY <1>1, <2>3, CompleteWakeups DEF DrainData
<1>2. CASE DrainNull(c, b)
  BY <1>2, CompleteWakeups DEF DrainNull, store
<1>3. CASE DrainError(c, b)
  <2>1. PICK i \in DOMAIN KeysOf[b] :
          /\ KeysOf[b][i] \in str
          /\ IF i = Len(KeysOf[b]) THEN Complete(b) ELSE StayBlocked(b)
    BY <1>3 DEF DrainError
  <2>2. i = Len(KeysOf[b])
    BY <2>1 DEF Apart, Wakeups
  <2> QED BY <1>3, <2>1, <2>2, CompleteWakeups DEF DrainError, store
<1>4. CASE DrainBlocked(c, b)
  BY <1>4, StayWakeups
<1> QED BY <1>1, <1>2, <1>3, <1>4 DEF Drain

\* A connection that closes takes only its own command with it.
LEMMA CloseWakeups ==
    ASSUME Apart, Owned, Wakeups, NEW c \in Conns, Close(c)
    PROVE  Wakeups'
<1> DEFINE mine == {b \in Cmds : Conn[b] = c}
           subs == Released(c)
<1>1. /\ thread = None /\ TypeOK
      /\ subs \subseteq mine
  BY DEF Close, Serves, Released, Owned, SubsOwned
<1>2. /\ open'      = open \ {c}
      /\ phase'     = [b \in Cmds |-> IF b \in mine /\ phase[b] # "done"
                                      THEN "closed" ELSE phase[b]]
      /\ sub_tab'   = [sub_tab EXCEPT ![c] = [k \in Keys |-> None]]
      /\ listblkd \ {c} \subseteq listblkd'
      /\ cont_list' = [cont_list EXCEPT ![c] = <<>>]
      /\ alive'     = alive \ subs
      /\ tab'       = tab \ subs
      /\ hit'       = hit \ subs
      /\ UNCHANGED <<store, step, replies, thread, pushes>>
  BY DEF Close, OnUnsub
<1>3. SUFFICES ASSUME NEW d \in Cmds PROVE CmdOK(d)'
  BY <1>2 DEF Wakeups, store
<1>4. CmdOK(d) /\ phase[d] # "exec" /\ Conn[d] \in Conns
  BY <1>1, ThreadFree, KeysType DEF Wakeups
<1>5. CASE Conn[d] = c
  <2>1. phase'[d] \in {"done", "closed"}
    BY <1>2, <1>5
  <2>2. d \notin alive'
    <3>1. d \in alive => d \in subs
      <4>1. SUFFICES ASSUME d \in alive PROVE d \in subs
        OBVIOUS
      <4>2. phase[d] = "blocked"
        BY <1>4, <4>1 DEF CmdOK, Unanswered
      <4>3. PICK k \in Keys : k \in KeySet(d)
        BY KeysType
      <4>4. sub_tab[c][k] = d
        BY <1>4, <1>5, <4>2, <4>3 DEF CmdOK, Subscribed
      <4> QED BY <4>3, <4>4 DEF Released
    <3> QED BY <1>2, <3>1
  <2>3. Len(replies'[d]) <= 1
    BY <1>2, <1>4 DEF CmdOK, Unanswered
  <2> QED BY <2>1, <2>2, <2>3
          DEF CmdOK, RunsAlone, Subscribed, HitScheduled, Unanswered, Woken
<1>6. CASE Conn[d] # c
  <2>1. d \notin mine /\ d \notin subs
    BY <1>1, <1>6
  <2> HIDE DEF subs
  <2>2. phase'[d] = phase[d]
    BY <1>2, <2>1
  <2>3. /\ sub_tab'[Conn[d]] = sub_tab[Conn[d]]
        /\ cont_list'[Conn[d]] = cont_list[Conn[d]]
    BY <1>1, <1>2, <1>4, <1>6 DEF TypeOK
  <2>4. len' = len /\ step' = step /\ replies' = replies
    BY <1>2 DEF store
  <2> QED BY <1>2, <1>4, <1>6, <2>1, <2>2, <2>3, <2>4, CmdKept
<1> QED BY <1>5, <1>6

\* Every step keeps the wakeups.
LEMMA NextWakeups ==
    ASSUME Apart, Owned, Wakeups, [Next]_vars
    PROVE  Wakeups'
<1>1. ASSUME NEW b \in Cmds, Send(b) \/ RunKey(b) \/ TimerExpire(b)
      PROVE  Wakeups'
  BY <1>1, FirstWakeups, SaveWakeups, TimerWakeups DEF RunKey
<1>2. ASSUME NEW c \in Conns, NEW b \in Cmds, Drain(c, b)
      PROVE  Wakeups'
  BY <1>2, DrainWakeups
<1>3. ASSUME NEW c \in Pushers, NEW k \in Keys, Push(c, k)
      PROVE  Wakeups'
  BY <1>3, PushWakeups
<1>4. ASSUME \/ \E c \in Poppers, k \in Keys : Pop(c, k)
             \/ \E c \in Movers, k \in Keys, d \in MoveTo : Move(c, k, d)
             \/ \E k \in StringKeys : SetString(k) \/ DelString(k)
      PROVE  Wakeups'
  <2>1. Poppers \subseteq Conns /\ Movers \subseteq Conns
    BY ConstantsAssumption
  <2> QED BY <1>4, <2>1, OtherWakeups
<1>5. ASSUME NEW c \in Conns, Close(c)
      PROVE  Wakeups'
  BY <1>5, CloseWakeups
<1>6. CASE UNCHANGED vars
  BY <1>6 DEF Wakeups, CmdOK, RunsAlone, Subscribed, HitScheduled, Unanswered,
     Woken, KeySet, Elems, vars, store, conns, flags, queues, routes
<1> QED BY <1>1, <1>2, <1>3, <1>4, <1>5, <1>6 DEF Next

\* The wakeups are an invariant of commands that are apart.
LEMMA WakeupsInvariant ==
    ASSUME Apart
    PROVE  Spec => []Wakeups
<1>1. Owned /\ Wakeups /\ [Next]_vars => Wakeups'
  BY Apart, NextWakeups
<1> QED BY <1>1, InitWakeups, OwnedInvariant, PTL DEF Spec

\* No push is missed: a command that is blocked while one of its lists has an
\* element is in cont_list, for any number of connections and keys and any
\* order of pushes, pops, timers, drains and closes.
THEOREM NoLostWakeupCorrect ==
    ASSUME Apart
    PROVE  Spec => []NoLostWakeup
<1>1. Wakeups => NoLostWakeup
  BY DEF Wakeups, CmdOK, Woken, NoLostWakeup
<1> QED BY <1>1, WakeupsInvariant, PTL

\* A command is answered once, though an event, the timer and a type error
\* race to answer it.
THEOREM OneReplyCorrect ==
    ASSUME Apart
    PROVE  Spec => []OneReply
<1>1. Wakeups /\ Owned => OneReply
  BY DEF Wakeups, CmdOK, Unanswered, OneReply, Owned, TypeOK
<1> QED BY <1>1, WakeupsInvariant, OwnedInvariant, PTL

\* A connection that closes leaves no continuation behind.
THEOREM NoLeakCorrect ==
    ASSUME Apart
    PROVE  Spec => []NoLeak
<1>1. Wakeups /\ Owned => NoLeak
  BY DEF Wakeups, CmdOK, Unanswered, Subscribed, NoLeak, Owned, TypeOK
<1> QED BY <1>1, WakeupsInvariant, OwnedInvariant, PTL
=============================================================================
