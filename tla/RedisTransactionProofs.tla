----------------------- MODULE RedisTransactionProofs -----------------------
(***************************************************************************)
(* Proofs about RedisTransaction for any number of sessions and keys, any  *)
(* queue and watch list lengths and any serial bound: its invariants and   *)
(* action properties, and that it implements AtomicExec.                   *)
(***************************************************************************)
EXTENDS RedisTransaction, SequenceTheorems, TLAPS

\* Where a session is in its EXEC and what it has passed of its list.
Phase(s) ==
    /\ pos[s] <= EntryCount(s)
    /\ pc[s] = "idle" => pos[s] = 0
    /\ pc[s] \in {"check", "run"} => pos[s] = EntryCount(s)
    /\ pc[s] = "run" /\ watch[s] # <<>> => start[s]
    /\ queue[s] # <<>> => start[s]
    /\ pc[s] = "idle" => ectx[s] = <<>>
    /\ pc[s] \in {"lock", "check", "run"} => Len(ectx[s]) = pos[s]

Phases == \A s \in Sessions : Phase(s)

\* A serial never falls behind a watch of it, and a watch whose key was
\* updated is behind.
SerialsAhead(s) ==
    /\ \A i \in 1 .. WatchCount(s) :
         watch[s][i].serial <= serial[watch[s][i].key]
    /\ \A i \in dirty[s] :
         /\ i \in 1 .. WatchCount(s)
         /\ watch[s][i].serial # 0 =>
              watch[s][i].serial < serial[watch[s][i].key]

SerialsMoveOn == \A s \in Sessions : SerialsAhead(s)

IInv == TypeOK /\ LocksAccounted /\ Phases /\ SerialsMoveOn /\ WatchSound

-----------------------------------------------------------------------------
(* Types *)

\* One value of a function is replaced.
LEMMA FunctionUpdate ==
    ASSUME NEW D, NEW R, NEW f \in [D -> R], NEW x, NEW y \in R
    PROVE  [f EXCEPT ![x] = y] \in [D -> R]
OBVIOUS

\* An element is appended to the list of one session.
LEMMA AppendType ==
    ASSUME NEW S, NEW f \in [Sessions -> Seq(S)], NEW s \in Sessions, NEW x \in S
    PROVE  [f EXCEPT ![s] = Append(@, x)] \in [Sessions -> Seq(S)]
<1>1. f[s] \in Seq(S)
  OBVIOUS
<1>2. Append(f[s], x) \in Seq(S)
  BY <1>1, AppendProperties
<1> QED BY <1>2

\* One element of the list of one session is replaced.
LEMMA ExceptType ==
    ASSUME NEW S, NEW f \in [Sessions -> Seq(S)], NEW s \in Sessions, NEW x \in S,
           NEW i \in 1 .. Len(f[s])
    PROVE  [f EXCEPT ![s][i] = x] \in [Sessions -> Seq(S)]
<1>1. f[s] \in Seq(S)
  OBVIOUS
<1>2. [f[s] EXCEPT ![i] = x] \in Seq(S)
  BY <1>1, ExceptSeq
<1> QED BY <1>2

\* What a command on a key writes, answers and returns.
LEMMA CommandTypes ==
    ASSUME NEW c \in KeyCmds, NEW st \in {"OK", "IS_NEW", "NOT_FOUND"},
           NEW u \in Nat
    PROVE  /\ NewValue(c, st, u) \in Nat
           /\ Reply(c, st, u) \in Replies
           /\ TypeChecked(c, st, u) \in {"OK", "IS_NEW", "NOT_FOUND"}
<1>1. NewValue(c, st, u) \in Nat
  BY DEF KeyCmds, NewValue
<1>2. Reply(c, st, u) \in Replies
  BY <1>1 DEF KeyCmds, Reply, Replies, Number, Special
<1>3. TypeChecked(c, st, u) \in {"OK", "IS_NEW", "NOT_FOUND"}
  BY DEF KeyCmds, TypeChecked
<1> QED BY <1>1, <1>2, <1>3

\* Fetching a key keeps a key context one.
LEMMA FetchTypes ==
    ASSUME NEW ctx \in Ctx, NEW c \in KeyCmds,
           NEW gone \in BOOLEAN, NEW created \in BOOLEAN, NEW deleted \in BOOLEAN
    PROVE  /\ FetchPrimary(ctx, c, gone) \in Ctx
           /\ FetchDup(ctx, c, created, deleted) \in Ctx
<1>1. FetchPrimary(ctx, c, gone) \in Ctx
  BY DEF FetchPrimary, Ctx
<1>2. FetchDup(ctx, c, created, deleted) \in Ctx
  BY DEF FetchDup, Ctx
<1> QED BY <1>1, <1>2

\* The keys of a queued message.
LEMMA MsgTypes ==
    ASSUME NEW m \in Msg
    PROVE  /\ m.key \in Keys \cup {NoKey}
           /\ m.key # NoKey => m.cmd \in KeyCmds /\ m.key \in Keys
BY ConstantsAssumption DEF Msg, KeyCmds, NoKeyCmds

\* The lengths and elements of the lists of a session.
LEMMA LenTypes ==
    ASSUME TypeOK, NEW s \in Sessions
    PROVE  /\ WatchCount(s) \in Nat
           /\ MsgCount(s) \in Nat
           /\ Len(ectx[s]) \in Nat
           /\ pos[s] \in Nat
           /\ cur[s] \in Nat
<1>1. /\ watch[s] \in Seq(Watch) /\ queue[s] \in Seq(Msg)
      /\ ectx[s] \in Seq(Ctx) /\ pos[s] \in Nat /\ cur[s] \in Nat
  BY DEF TypeOK
<1> QED BY <1>1, LenProperties DEF WatchCount, MsgCount

\* An element of the list of EXEC is of a session, a key and a context.
LEMMA ElementTypes ==
    ASSUME TypeOK, NEW s \in Sessions
    PROVE  /\ \A i \in 1 .. WatchCount(s) : watch[s][i] \in Watch
           /\ \A i \in 1 .. MsgCount(s) : queue[s][i] \in Msg
           /\ \A i \in 1 .. Len(ectx[s]) : ectx[s][i] \in Ctx
<1>1. /\ watch[s] \in Seq(Watch) /\ queue[s] \in Seq(Msg)
      /\ ectx[s] \in Seq(Ctx)
  BY DEF TypeOK
<1>2. \A i \in 1 .. WatchCount(s) : watch[s][i] \in Watch
  BY <1>1, ElementOfSeq DEF WatchCount, MsgCount
<1>3. \A i \in 1 .. MsgCount(s) : queue[s][i] \in Msg
  BY <1>1, ElementOfSeq DEF WatchCount, MsgCount
<1>4. \A i \in 1 .. Len(ectx[s]) : ectx[s][i] \in Ctx
  BY <1>1, ElementOfSeq DEF WatchCount, MsgCount
<1> QED BY <1>2, <1>3, <1>4

\* An entry of the list has a key of the store, or none.
LEMMA EntryKeyType ==
    ASSUME TypeOK, NEW s \in Sessions, NEW i \in 1 .. EntryCount(s)
    PROVE  EntryKey(s, i) \in Keys \cup {NoKey}
<1>1. WatchCount(s) \in Nat /\ MsgCount(s) \in Nat
  BY LenTypes
<1>2. i \in 1 .. (WatchCount(s) + MsgCount(s))
  BY <1>1 DEF EntryCount
<1>3. CASE i <= WatchCount(s)
  <2>1. i \in 1 .. WatchCount(s)
    BY <1>1, <1>2, <1>3
  <2>2. watch[s][i] \in Watch
    BY <2>1, ElementTypes
  <2> QED BY <1>3, <2>2 DEF EntryKey, Watch
<1>4. CASE ~(i <= WatchCount(s))
  <2>1. i - WatchCount(s) \in 1 .. MsgCount(s)
    BY <1>1, <1>2, <1>4
  <2>2. queue[s][i - WatchCount(s)] \in Msg
    BY <2>1, ElementTypes
  <2> QED BY <1>4, <2>2, MsgTypes DEF EntryKey
<1> QED BY <1>3, <1>4

\* An update of a key keeps the types of the store.
LEMMA UpdateTypes ==
    ASSUME TypeOK, NEW s \in Sessions, NEW k \in Keys, NEW v \in Nat,
           NEW e \in BOOLEAN, Update(s, k, v, e)
    PROVE  /\ val' \in [Keys -> Nat]
           /\ serial' \in [Keys -> Nat]
           /\ expired' \in [Keys -> BOOLEAN]
           /\ dirty' \in [Sessions -> SUBSET Nat]
<1>1. dirty' \in [Sessions -> SUBSET Nat]
  <2>1. \A t \in Sessions : {i \in 1 .. WatchCount(t) : watch[t][i].key = k}
                              \in SUBSET Nat
    OBVIOUS
  <2>2. \A t \in Sessions : dirty[t] \in SUBSET Nat
    BY DEF TypeOK
  <2> QED BY <2>1, <2>2 DEF Update
<1>2. /\ val    \in [Keys -> Nat]
      /\ serial \in [Keys -> Nat]
      /\ expired \in [Keys -> BOOLEAN]
  BY DEF TypeOK
<1>3. val' = [val EXCEPT ![k] = v] /\ expired' = [expired EXCEPT ![k] = e]
      /\ serial' = [serial EXCEPT ![k] = serial[k] + 1]
  BY DEF Update
<1>4. serial[k] + 1 \in Nat
  BY <1>2
<1>5. serial' \in [Keys -> Nat]
  BY <1>2, <1>3, <1>4
<1>6. val' \in [Keys -> Nat]
  BY <1>2, <1>3
<1>7. expired' \in [Keys -> BOOLEAN]
  BY <1>2, <1>3
<1> QED BY <1>1, <1>5, <1>6, <1>7

-----------------------------------------------------------------------------
(* The initial states *)

\* Before the first command nothing is locked, watched or queued.
LEMMA InitIInv == Init => IInv
<1> SUFFICES ASSUME Init PROVE IInv
  OBVIOUS
<1>1. TypeOK
  BY DEF Init, TypeOK
<1>2. LocksAccounted
  BY ConstantsAssumption DEF Init, LocksAccounted
<1>3. Phases
  <2> SUFFICES ASSUME NEW s \in Sessions PROVE Phase(s)
    BY DEF Phases
  <2>1. WatchCount(s) = 0 /\ MsgCount(s) = 0 /\ Len(ectx[s]) = 0
    BY EmptySeq DEF Init, WatchCount, MsgCount
  <2> QED BY <2>1 DEF Init, Phase, EntryCount
<1>4. SerialsMoveOn /\ WatchSound
  <2>1. \A s \in Sessions : WatchCount(s) = 0
    BY EmptySeq DEF Init, WatchCount
  <2> QED BY <2>1 DEF Init, SerialsMoveOn, SerialsAhead, WatchSound
<1> QED BY <1>1, <1>2, <1>3, <1>4 DEF IInv

-----------------------------------------------------------------------------
(* TypeOK is preserved, with the help of Phases *)

\* The record of the entry that RunKey runs.
LEMMA RunEntry ==
    ASSUME IInv, NEW s \in Sessions, pc[s] = "run", cur[s] < MsgCount(s)
    PROVE  LET e == WatchCount(s) + cur[s] + 1
           IN  /\ queue[s][cur[s] + 1] \in Msg
               /\ e \in 1 .. pos[s]
               /\ EntryKey(s, e) = queue[s][cur[s] + 1].key
               /\ ectx[s][e] \in Ctx
<1> DEFINE e == WatchCount(s) + cur[s] + 1
<1>1. /\ WatchCount(s) \in Nat /\ MsgCount(s) \in Nat /\ cur[s] \in Nat
  BY LenTypes DEF IInv
<1>2. cur[s] + 1 \in 1 .. MsgCount(s)
  BY <1>1
<1>3. start[s]
  <2>1. queue[s] # <<>>
    BY <1>2, EmptySeq DEF MsgCount
  <2> QED BY <2>1 DEF IInv, Phases, Phase
<1>4. pos[s] = WatchCount(s) + MsgCount(s) /\ Len(ectx[s]) = pos[s]
  BY <1>3 DEF IInv, Phases, Phase, EntryCount
<1>5. e \in 1 .. pos[s]
  BY <1>1, <1>2, <1>4
<1>6. ~(e <= WatchCount(s)) /\ e - WatchCount(s) = cur[s] + 1
  BY <1>1, <1>2
<1>7. EntryKey(s, e) = queue[s][cur[s] + 1].key
  BY <1>6 DEF EntryKey
<1>8. ectx[s][e] \in Ctx
  <2>1. e \in 1 .. Len(ectx[s])
    BY <1>4, <1>5
  <2> QED BY <2>1, ElementTypes DEF IInv
<1>9. queue[s][cur[s] + 1] \in Msg
  BY <1>2, ElementTypes DEF IInv
<1> QED BY <1>5, <1>7, <1>8, <1>9

\* Running one key changes the context of its entry only.
LEMMA RunKeyContext ==
    ASSUME NEW s, RunKey(s)
    PROVE  \E e, x : ectx' = [ectx EXCEPT ![s][e] = x]
<1> DEFINE m    == queue[s][cur[s] + 1]
           e    == WatchCount(s) + cur[s] + 1
           gone == Primary(s, e) /\ ectx[s][e].kstatus = "OK" /\ expired[m.key]
           ctx  == IF Primary(s, e)
                   THEN FetchPrimary(ectx[s][e], m.cmd, gone)
                   ELSE FetchDup(ectx[s][e], m.cmd, DupCreated(s, e),
                                 DupDeleted(s, e))
           u    == IF gone THEN 0 ELSE val[m.key]
           st   == TypeChecked(m.cmd, ctx.kstatus, u)
           done == [ctx EXCEPT
                      !.isnew   = @ \/ (m.cmd = "INCR" /\ st = "IS_NEW"),
                      !.del     = @ \/ (m.cmd = "DEL" /\ st = "OK"),
                      !.kstatus = IF m.cmd = "INCR" THEN "OK" ELSE @]
<1>1. ectx' = [ectx EXCEPT ![s][e] = done]
  BY DEF RunKey
<1> HIDE DEF e, done
<1> QED BY <1>1

\* Running one key of the transaction keeps the types.
LEMMA RunKeyType ==
    ASSUME IInv, NEW s \in Sessions, RunKey(s)
    PROVE  TypeOK'
<1> DEFINE m    == queue[s][cur[s] + 1]
           e    == WatchCount(s) + cur[s] + 1
           k    == m.key
           gone == Primary(s, e) /\ ectx[s][e].kstatus = "OK" /\ expired[k]
           ctx  == IF Primary(s, e)
                   THEN FetchPrimary(ectx[s][e], m.cmd, gone)
                   ELSE FetchDup(ectx[s][e], m.cmd, DupCreated(s, e),
                                 DupDeleted(s, e))
           u    == IF gone THEN 0 ELSE val[k]
           st   == TypeChecked(m.cmd, ctx.kstatus, u)
           done == [ctx EXCEPT
                      !.isnew   = @ \/ (m.cmd = "INCR" /\ st = "IS_NEW"),
                      !.del     = @ \/ (m.cmd = "DEL" /\ st = "OK"),
                      !.kstatus = IF m.cmd = "INCR" THEN "OK" ELSE @]
<1>1. pc[s] = "run" /\ cur[s] < MsgCount(s) /\ k # NoKey
  BY DEF RunKey
<1>2. m \in Msg /\ e \in 1 .. pos[s] /\ ectx[s][e] \in Ctx
        /\ Len(ectx[s]) = pos[s]
  BY <1>1, RunEntry DEF IInv, Phases, Phase
<1>3. m.cmd \in KeyCmds /\ k \in Keys
  BY <1>1, <1>2, MsgTypes
<1>4. gone \in BOOLEAN /\ DupCreated(s, e) \in BOOLEAN
        /\ DupDeleted(s, e) \in BOOLEAN
  BY DEF DupCreated, DupDeleted
<1>5. ctx \in Ctx
  <2>1. FetchPrimary(ectx[s][e], m.cmd, gone) \in Ctx
    BY <1>2, <1>3, <1>4, FetchTypes
  <2>2. FetchDup(ectx[s][e], m.cmd, DupCreated(s, e), DupDeleted(s, e)) \in Ctx
    BY <1>2, <1>3, <1>4, FetchTypes
  <2> QED BY <2>1, <2>2
<1> HIDE DEF ctx
<1>6. u \in Nat
  BY <1>3 DEF IInv, TypeOK
<1> HIDE DEF gone, u
<1>7. ctx.kstatus \in {"OK", "IS_NEW", "NOT_FOUND"}
  BY <1>5 DEF Ctx
<1>8. /\ NewValue(m.cmd, st, u) \in Nat
      /\ Reply(m.cmd, st, u) \in Replies
  <2>1. st \in {"OK", "IS_NEW", "NOT_FOUND"}
    BY <1>3, <1>6, <1>7, CommandTypes
  <2> HIDE DEF st
  <2> QED BY <1>3, <1>6, <2>1, CommandTypes
<1>9. done \in Ctx
  BY <1>5 DEF Ctx
<1>10. /\ ectx' = [ectx EXCEPT ![s][e] = done]
       /\ result' = [result EXCEPT ![s] = Append(@, Reply(m.cmd, st, u))]
       /\ cur' = [cur EXCEPT ![s] = @ + 1]
       /\ UNCHANGED <<lock, session, pc, pos, outcome, badqueue, before>>
  BY DEF RunKey, ctx, gone, u
<1>11. \/ \E b \in BOOLEAN : Update(s, k, NewValue(m.cmd, st, u), b)
       \/ NoUpdate
  <2>1. (expired[k] /\ ~gone /\ u # 0 /\ m.cmd # "DEL") \in BOOLEAN
    OBVIOUS
  <2> QED BY <2>1 DEF RunKey, ctx, gone, u
<1> HIDE DEF st, done
<1>12. /\ val' \in [Keys -> Nat]
       /\ serial' \in [Keys -> Nat]
       /\ expired' \in [Keys -> BOOLEAN]
       /\ dirty' \in [Sessions -> SUBSET Nat]
  <2>1. TypeOK
    BY DEF IInv
  <2>2. CASE NoUpdate
    BY <2>1, <2>2 DEF NoUpdate, TypeOK
  <2>3. CASE \E b \in BOOLEAN : Update(s, k, NewValue(m.cmd, st, u), b)
    <3>1. PICK b \in BOOLEAN : Update(s, k, NewValue(m.cmd, st, u), b)
      BY <2>3
    <3> HIDE DEF m, k
    <3> QED BY <1>3, <1>8, <2>1, <3>1, UpdateTypes
  <2> QED BY <1>11, <2>2, <2>3
<1>13. ectx' \in [Sessions -> Seq(Ctx)]
  <2>1. e \in 1 .. Len(ectx[s]) /\ ectx \in [Sessions -> Seq(Ctx)]
    BY <1>2 DEF IInv, TypeOK
  <2> HIDE DEF e
  <2> QED BY <1>9, <1>10, <2>1, ExceptType
<1>14. result' \in [Sessions -> Seq(Replies)]
  <2>1. result \in [Sessions -> Seq(Replies)]
    BY DEF IInv, TypeOK
  <2> QED BY <1>8, <1>10, <2>1, AppendType
<1>15. cur' \in [Sessions -> Nat]
  BY <1>10 DEF IInv, TypeOK
<1> QED BY <1>10, <1>12, <1>13, <1>14, <1>15 DEF IInv, TypeOK, session

\* Every step keeps the types.
LEMMA TypeStep ==
    ASSUME IInv, [Next]_vars
    PROVE  TypeOK'
<1> USE DEF IInv
<1>1. ASSUME NEW s \in Sessions, NEW c \in PlainCmds, NEW k \in Keys,
             Plain(s, c, k)
      PROVE  TypeOK'
  <2> DEFINE st == IF val[k] # 0 /\ ~expired[k] THEN "OK" ELSE Absent(c)
             u  == IF st = "OK" THEN val[k] ELSE 0
  <2>1. c \in KeyCmds /\ st \in {"OK", "IS_NEW", "NOT_FOUND"} /\ u \in Nat
    BY ConstantsAssumption DEF Absent, TypeOK
  <2>2. NewValue(c, st, u) \in Nat
    <3> HIDE DEF st, u
    <3> QED BY <2>1, CommandTypes
  <2>3. Update(s, k, NewValue(c, st, u), FALSE) \/ NoUpdate
    BY <1>1 DEF Plain
  <2>4. UNCHANGED <<lock, session, engine, badqueue, before>>
    BY <1>1 DEF Plain
  <2> HIDE DEF st, u
  <2>5. /\ val' \in [Keys -> Nat] /\ serial' \in [Keys -> Nat]
        /\ expired' \in [Keys -> BOOLEAN]
        /\ dirty' \in [Sessions -> SUBSET Nat]
    <3>1. CASE Update(s, k, NewValue(c, st, u), FALSE)
      BY <2>2, <3>1, UpdateTypes
    <3>2. CASE NoUpdate
      BY <3>2 DEF NoUpdate, TypeOK
    <3> QED BY <2>3, <3>1, <3>2
  <2> QED BY <2>4, <2>5 DEF TypeOK, session, engine
<1>2. ASSUME NEW s \in Sessions, NEW k \in Keys, WatchKey(s, k)
      PROVE  TypeOK'
  <2> DEFINE w == [key    |-> k,
                   serial |-> IF val[k] # 0 /\ ~expired[k]
                              THEN serial[k] ELSE 0]
  <2>1. w \in Watch
    BY DEF Watch, TypeOK
  <2>2. watch' = [watch EXCEPT ![s] = Append(@, w)]
    BY <1>2 DEF WatchKey
  <2>3. watch' \in [Sessions -> Seq(Watch)]
    <3>1. watch \in [Sessions -> Seq(Watch)]
      BY DEF TypeOK
    <3> HIDE DEF w
    <3> QED BY <2>1, <2>2, <3>1, AppendType
  <2>4. Update(s, k, 0, FALSE) \/ NoUpdate
    BY <1>2 DEF WatchKey
  <2>5. /\ val' \in [Keys -> Nat] /\ serial' \in [Keys -> Nat]
        /\ expired' \in [Keys -> BOOLEAN]
        /\ dirty' \in [Sessions -> SUBSET Nat]
    <3>1. CASE Update(s, k, 0, FALSE)
      BY <3>1, UpdateTypes
    <3>2. CASE NoUpdate
      BY <3>2 DEF NoUpdate, TypeOK
    <3> QED BY <2>4, <3>1, <3>2
  <2>6. multi' = [multi EXCEPT ![s] = TRUE]
        /\ UNCHANGED <<lock, start, abort, queue, engine, badqueue, before>>
    BY <1>2 DEF WatchKey
  <2> QED BY <2>3, <2>5, <2>6 DEF TypeOK, engine
<1>3. ASSUME NEW s \in Sessions, Multi(s)
      PROVE  TypeOK'
  BY <1>3 DEF Multi, TypeOK, store, engine
<1>4. ASSUME NEW s \in Sessions, NEW m \in Msg,
             queue' = [queue EXCEPT ![s] = Append(@, m)],
             UNCHANGED <<store, multi, start, abort, watch, engine, dirty,
                         before>>,
             badqueue' \in [Sessions -> BOOLEAN]
      PROVE  TypeOK'
  <2>1. queue \in [Sessions -> Seq(Msg)]
    BY DEF TypeOK
  <2>2. queue' \in [Sessions -> Seq(Msg)]
    BY <1>4, <2>1, AppendType
  <2> QED BY <1>4, <2>2 DEF TypeOK, store, engine
<1>5. ASSUME NEW s \in Sessions, NEW m \in Messages, Queue(s, m)
      PROVE  TypeOK'
  <2>1. badqueue' \in [Sessions -> BOOLEAN]
    BY <1>5 DEF Queue, TypeOK
  <2>2. m \in Msg
    BY DEF Messages
  <2> QED BY <1>4, <1>5, <2>1, <2>2 DEF Queue
<1>6. ASSUME NEW s \in Sessions, QueueBad(s)
      PROVE  TypeOK'
  BY <1>6 DEF QueueBad, TypeOK, store, engine
<1>7. ASSUME NEW s \in Sessions, QueueFailed(s)
      PROVE  TypeOK'
  <2>1. badqueue' \in [Sessions -> BOOLEAN]
    BY <1>7 DEF QueueFailed, TypeOK
  <2>2. [cmd |-> "BADARG", key |-> NoKey] \in Msg
    BY DEF Msg, NoKeyCmds
  <2> QED BY <1>4, <1>7, <2>1, <2>2 DEF QueueFailed
<1>8. ASSUME NEW s \in Sessions, DropMulti(s)
      PROVE  /\ multi' \in [Sessions -> BOOLEAN]
             /\ start' \in [Sessions -> BOOLEAN]
             /\ abort' \in [Sessions -> BOOLEAN]
             /\ watch' \in [Sessions -> Seq(Watch)]
             /\ queue' \in [Sessions -> Seq(Msg)]
             /\ dirty' \in [Sessions -> SUBSET Nat]
             /\ badqueue' \in [Sessions -> BOOLEAN]
  <2>1. watch' \in [Sessions -> Seq(Watch)]
    BY <1>8 DEF DropMulti, TypeOK
  <2>2. queue' \in [Sessions -> Seq(Msg)]
    BY <1>8 DEF DropMulti, TypeOK
  <2>3. dirty' \in [Sessions -> SUBSET Nat]
    BY <1>8 DEF DropMulti, TypeOK
  <2> QED BY <1>8, <2>1, <2>2, <2>3 DEF DropMulti, TypeOK
<1>9. ASSUME NEW s \in Sessions, Discard(s)
      PROVE  TypeOK'
  BY <1>8, <1>9 DEF Discard, TypeOK, store, engine
<1>10. ASSUME NEW s \in Sessions, Exec(s)
       PROVE  TypeOK'
  BY <1>10 DEF Exec, TypeOK, store, session
<1>11. ASSUME NEW s \in Sessions, NEW st \in {"OK", "IS_NEW", "NOT_FOUND"},
              ectx' = [ectx EXCEPT ![s] = Append(@, NewCtx(st))]
       PROVE  ectx' \in [Sessions -> Seq(Ctx)]
  <2>1. NewCtx(st) \in Ctx
    BY DEF NewCtx, Ctx
  <2>2. ectx \in [Sessions -> Seq(Ctx)]
    BY DEF TypeOK
  <2> QED BY <1>11, <2>1, <2>2, AppendType
<1>12. ASSUME NEW s \in Sessions, Acquire(s)
       PROVE  TypeOK'
  <2> DEFINE k == EntryKey(s, pos[s] + 1)
  <2>1. ectx' = [ectx EXCEPT ![s] =
                   Append(@, NewCtx(IF val[k] # 0 THEN "OK" ELSE "IS_NEW"))]
    BY <1>12 DEF Acquire
  <2>2. (IF val[k] # 0 THEN "OK" ELSE "IS_NEW") \in {"OK", "IS_NEW", "NOT_FOUND"}
    OBVIOUS
  <2>3. ectx' \in [Sessions -> Seq(Ctx)]
    BY <1>11, <2>1, <2>2
  <2>4. k \in Keys
    <3>1. pos[s] + 1 \in 1 .. EntryCount(s)
      BY <1>12, LenTypes DEF Acquire
    <3> QED BY <1>12, <3>1, EntryKeyType DEF Acquire, Primary
  <2>5. /\ lock' = [lock EXCEPT ![k] = s]
        /\ before' = [before EXCEPT ![k] = val[k]]
        /\ pos' = [pos EXCEPT ![s] = pos[s] + 1]
        /\ UNCHANGED <<val, serial, expired, session, pc, cur, result, outcome,
                       dirty, badqueue>>
    BY <1>12 DEF Acquire
  <2> HIDE DEF k
  <2>6. lock' \in [Keys -> Sessions \cup {NoSession}]
    BY <2>5, FunctionUpdate DEF TypeOK
  <2>7. before' \in [Keys -> Nat] /\ pos' \in [Sessions -> Nat]
    <3>1. val[k] \in Nat /\ pos[s] + 1 \in Nat
      BY <2>4 DEF TypeOK
    <3> QED BY <2>5, <3>1, FunctionUpdate DEF TypeOK
  <2> QED BY <2>3, <2>5, <2>6, <2>7 DEF TypeOK, session
<1>13. ASSUME NEW s \in Sessions, PassDup(s)
       PROVE  TypeOK'
  <2> DEFINE i  == pos[s] + 1
             j  == CHOOSE l \in 1 .. pos[s] : EntryKey(s, l) = EntryKey(s, i)
             st == IF EntryKey(s, i) = NoKey THEN "OK" ELSE ectx[s][j].kstatus
  <2>1. ectx' = [ectx EXCEPT ![s] = Append(@, NewCtx(st))]
        /\ pc[s] = "lock" /\ ~Primary(s, i)
    BY <1>13 DEF PassDup
  <2>2. st \in {"OK", "IS_NEW", "NOT_FOUND"}
    <3>1. CASE EntryKey(s, i) = NoKey
      BY <3>1
    <3>2. CASE EntryKey(s, i) # NoKey
      <4>1. pos[s] \in Nat /\ Len(ectx[s]) = pos[s]
        BY <2>1, LenTypes DEF Phases, Phase
      <4>2. \E l \in 1 .. pos[s] : EntryKey(s, l) = EntryKey(s, i)
        BY <2>1, <3>2, <4>1 DEF Primary
      <4>3. j \in 1 .. Len(ectx[s])
        BY <4>1, <4>2
      <4> HIDE DEF j
      <4>4. ectx[s][j] \in Ctx
        BY <4>3, ElementTypes
      <4> QED BY <3>2, <4>4 DEF Ctx
    <3> QED BY <3>1, <3>2
  <2> HIDE DEF st
  <2>3. ectx' \in [Sessions -> Seq(Ctx)]
    BY <1>11, <2>1, <2>2
  <2>4. /\ pos' = [pos EXCEPT ![s] = pos[s] + 1]
        /\ UNCHANGED <<store, session, pc, cur, result, outcome, history>>
    BY <1>13 DEF PassDup
  <2> QED BY <2>3, <2>4 DEF TypeOK, session, store, history
<1>14. ASSUME NEW s \in Sessions, Busy(s) \/ AllLocked(s)
       PROVE  TypeOK'
  BY <1>14 DEF Busy, AllLocked, TypeOK, store, session, history
<1>15. ASSUME NEW s \in Sessions, ReleaseEntry(s)
       PROVE  TypeOK'
  <2> DEFINE k == EntryKey(s, pos[s])
  <2>1. lock' \in [Keys -> Sessions \cup {NoSession}] /\ before' \in [Keys -> Nat]
    <3>1. CASE UNCHANGED <<lock, before>>
      BY <3>1 DEF TypeOK
    <3>2. CASE /\ lock' = [lock EXCEPT ![k] = NoSession]
               /\ before' = [before EXCEPT ![k] = 0]
      <4> HIDE DEF k
      <4> QED BY <3>2, FunctionUpdate DEF TypeOK
    <3> QED BY <1>15, <3>1, <3>2 DEF ReleaseEntry
  <2>2. pos' \in [Sessions -> Nat]
    <3>1. /\ pos' = [pos EXCEPT ![s] = pos[s] - 1] /\ pos[s] > 0
          /\ pos \in [Sessions -> Nat]
      BY <1>15 DEF ReleaseEntry, TypeOK
    <3>2. pos[s] - 1 \in Nat
      BY <3>1
    <3> QED BY <3>1, <3>2
  <2> QED BY <1>15, <2>1, <2>2 DEF ReleaseEntry, TypeOK, session
<1>16. ASSUME NEW s \in Sessions, Retry(s)
       PROVE  TypeOK'
  BY <1>16 DEF Retry, TypeOK, store, session, history
<1>17. ASSUME NEW s \in Sessions, CheckWatches(s) \/ Commit(s)
       PROVE  TypeOK'
  BY <1>17 DEF CheckWatches, Commit, TypeOK, store, session, history
<1>18. ASSUME NEW s \in Sessions, RunKey(s)
       PROVE  TypeOK'
  BY <1>18, RunKeyType
<1>19. ASSUME NEW s \in Sessions, RunNoKey(s)
       PROVE  TypeOK'
  <2> DEFINE r == Special(IF queue[s][cur[s] + 1].cmd = "PING"
                          THEN "pong" ELSE "err")
  <2>1. r \in Replies
    BY DEF Replies, Special
  <2>2. /\ result' = [result EXCEPT ![s] = Append(@, r)]
        /\ cur' = [cur EXCEPT ![s] = @ + 1]
        /\ UNCHANGED <<store, session, pc, pos, ectx, outcome, history>>
    BY <1>19 DEF RunNoKey
  <2> HIDE DEF r
  <2>3. result' \in [Sessions -> Seq(Replies)]
    <3>1. result \in [Sessions -> Seq(Replies)]
      BY DEF TypeOK
    <3>2. [result EXCEPT ![s] = Append(@, r)] \in [Sessions -> Seq(Replies)]
      BY <2>1, <3>1, AppendType
    <3> QED BY <2>2, <3>2
  <2>4. cur' \in [Sessions -> Nat]
    <3>1. cur' = [cur EXCEPT ![s] = cur[s] + 1] /\ cur \in [Sessions -> Nat]
      BY <2>2 DEF TypeOK
    <3>2. cur[s] + 1 \in Nat
      BY <3>1
    <3> QED BY <3>1, <3>2
  <2>5. UNCHANGED <<store, session, pc, pos, ectx, outcome, history>>
    BY <2>2
  <2> QED BY <2>3, <2>4, <2>5 DEF TypeOK, store, session, history
<1>20. ASSUME NEW s \in Sessions, Finish(s)
       PROVE  TypeOK'
  <2>1. /\ ectx' \in [Sessions -> Seq(Ctx)]
        /\ result' \in [Sessions -> Seq(Replies)]
    BY <1>20 DEF Finish, TypeOK
  <2> QED BY <1>8, <1>20, <2>1 DEF Finish, TypeOK, store
<1>21. ASSUME NEW k \in Keys, StampPasses(k)
       PROVE  TypeOK'
  BY <1>21 DEF StampPasses, TypeOK, session, engine, history
<1>22. CASE UNCHANGED vars
  BY <1>22 DEF TypeOK, vars, store, session, engine, history
<1> QED
  BY <1>1, <1>2, <1>3, <1>5, <1>6, <1>7, <1>9, <1>10, <1>12, <1>13, <1>14,
     <1>15, <1>16, <1>17, <1>18, <1>19, <1>20, <1>21, <1>22
     DEF Next, ClientStep, ExecStep

-----------------------------------------------------------------------------
(* LocksAccounted is preserved *)

\* The list of a session depends on its watches and messages only.
LEMMA EntriesKept ==
    ASSUME NEW t, watch'[t] = watch[t], queue'[t] = queue[t]
    PROVE  \A i : EntryKey(t, i)' = EntryKey(t, i)
BY DEF EntryKey, WatchCount

\* Steps that touch neither locks nor positions.  A list may change as long as
\* its session has passed none of it.
LEMMA LocksKept ==
    ASSUME IInv, UNCHANGED <<lock, pos>>,
           \A t \in Sessions : pos[t] # 0 => /\ watch'[t] = watch[t]
                                             /\ queue'[t] = queue[t]
    PROVE  LocksAccounted'
<1> SUFFICES ASSUME NEW t \in Sessions, NEW k \in Keys
             PROVE  (lock[k] = t <=> \E i \in 1 .. pos[t] : EntryKey(t, i) = k)'
  BY DEF LocksAccounted
<1>1. lock[k] = t <=> \E i \in 1 .. pos[t] : EntryKey(t, i) = k
  BY DEF IInv, LocksAccounted
<1>2. CASE pos[t] = 0
  BY <1>1, <1>2
<1>3. CASE pos[t] # 0
  <2>1. \A i : EntryKey(t, i)' = EntryKey(t, i)
    BY <1>3, EntriesKept
  <2> QED BY <1>1, <2>1
<1> QED BY <1>2, <1>3

\* Locking the key of the next entry accounts for it.
LEMMA AcquireLocks ==
    ASSUME IInv, NEW s \in Sessions, Acquire(s)
    PROVE  LocksAccounted'
<1> DEFINE k == EntryKey(s, pos[s] + 1)
<1>1. pos[s] \in Nat /\ pos[s] + 1 \in 1 .. EntryCount(s)
  BY LenTypes DEF IInv, Acquire
<1>2. k \in Keys /\ k # NoKey /\ lock[k] = NoSession
  BY <1>1, EntryKeyType DEF IInv, Acquire, Primary
<1>3. /\ lock' = [lock EXCEPT ![k] = s]
      /\ pos' = [pos EXCEPT ![s] = pos[s] + 1]
      /\ UNCHANGED session
  BY DEF Acquire
<1> SUFFICES ASSUME NEW t \in Sessions, NEW l \in Keys
             PROVE  (lock[l] = t <=> \E i \in 1 .. pos[t] : EntryKey(t, i) = l)'
  BY DEF LocksAccounted
<1>4. \A i : EntryKey(t, i)' = EntryKey(t, i)
  BY <1>3, EntriesKept DEF session
<1>5. lock[l] = t <=> \E i \in 1 .. pos[t] : EntryKey(t, i) = l
  BY DEF IInv, LocksAccounted
<1>6. lock \in [Keys -> Sessions \cup {NoSession}] /\ pos \in [Sessions -> Nat]
  BY DEF IInv, TypeOK
<1>7. CASE t = s
  <2>1. pos'[t] = pos[s] + 1
    BY <1>3, <1>6, <1>7
  <2>2. \A i \in 1 .. (pos[s] + 1) : i \in 1 .. pos[s] \/ i = pos[s] + 1
    BY <1>1
  <2>3. (\E i \in 1 .. (pos[s] + 1) : EntryKey(s, i) = l)
          <=> (l = k \/ \E i \in 1 .. pos[s] : EntryKey(s, i) = l)
    BY <1>1, <2>2
  <2>4. lock'[l] = s <=> (l = k \/ lock[l] = s)
    BY <1>2, <1>3, <1>6
  <2> QED BY <1>4, <1>5, <1>7, <2>1, <2>3, <2>4
<1>8. CASE t # s
  <2>1. pos'[t] = pos[t]
    BY <1>3, <1>6, <1>8
  <2>2. lock'[l] = t <=> lock[l] = t
    BY <1>2, <1>3, <1>6, <1>8, ConstantsAssumption
  <2> QED BY <1>4, <1>5, <2>1, <2>2
<1> QED BY <1>7, <1>8

\* An entry whose key is locked already takes no lock.
LEMMA PassDupLocks ==
    ASSUME IInv, NEW s \in Sessions, PassDup(s)
    PROVE  LocksAccounted'
<1>1. pos[s] \in Nat /\ ~Primary(s, pos[s] + 1)
  BY LenTypes DEF IInv, PassDup
<1>2. pos' = [pos EXCEPT ![s] = pos[s] + 1] /\ UNCHANGED <<store, session>>
  BY DEF PassDup
<1> SUFFICES ASSUME NEW t \in Sessions, NEW l \in Keys
             PROVE  (lock[l] = t <=> \E i \in 1 .. pos[t] : EntryKey(t, i) = l)'
  BY DEF LocksAccounted
<1>3. (\A i : EntryKey(t, i)' = EntryKey(t, i)) /\ lock' = lock
  BY <1>2, EntriesKept DEF session, store
<1>4. lock[l] = t <=> \E i \in 1 .. pos[t] : EntryKey(t, i) = l
  BY DEF IInv, LocksAccounted
<1>5. pos \in [Sessions -> Nat]
  BY DEF IInv, TypeOK
<1>6. CASE t = s
  <2>1. pos'[t] = pos[s] + 1
    BY <1>2, <1>5, <1>6
  <2>2. \A i \in 1 .. (pos[s] + 1) : i \in 1 .. pos[s] \/ i = pos[s] + 1
    BY <1>1
  <2>3. EntryKey(s, pos[s] + 1) = l =>
          \E i \in 1 .. pos[s] : EntryKey(s, i) = l
    <3>1. l # NoKey
      BY ConstantsAssumption
    <3>2. (pos[s] + 1) - 1 = pos[s]
      BY <1>1
    <3> QED BY <1>1, <3>1, <3>2 DEF Primary
  <2>4. \A i \in 1 .. pos[s] : i \in 1 .. (pos[s] + 1)
    BY <1>1
  <2>5. (\E i \in 1 .. (pos[s] + 1) : EntryKey(s, i) = l)
          <=> \E i \in 1 .. pos[s] : EntryKey(s, i) = l
    BY <2>2, <2>3, <2>4
  <2> QED BY <1>3, <1>4, <1>6, <2>1, <2>5
<1>7. CASE t # s
  <2>1. pos'[t] = pos[t]
    BY <1>2, <1>5, <1>7
  <2> QED BY <1>3, <1>4, <2>1
<1> QED BY <1>6, <1>7

\* The release of the last entry gives back what it took.
LEMMA ReleaseLocks ==
    ASSUME IInv, NEW s \in Sessions, ReleaseEntry(s)
    PROVE  LocksAccounted'
<1> DEFINE k == EntryKey(s, pos[s])
<1>1. pos[s] \in Nat /\ pos[s] > 0 /\ EntryCount(s) >= pos[s]
  BY LenTypes DEF IInv, Phases, Phase, ReleaseEntry
<1>2. pos' = [pos EXCEPT ![s] = pos[s] - 1] /\ UNCHANGED session
  BY DEF ReleaseEntry
<1> SUFFICES ASSUME NEW t \in Sessions, NEW l \in Keys
             PROVE  (lock[l] = t <=> \E i \in 1 .. pos[t] : EntryKey(t, i) = l)'
  BY DEF LocksAccounted
<1>3. \A i : EntryKey(t, i)' = EntryKey(t, i)
  BY <1>2, EntriesKept DEF session
<1>4. lock[l] = t <=> \E i \in 1 .. pos[t] : EntryKey(t, i) = l
  BY DEF IInv, LocksAccounted
<1>5. lock \in [Keys -> Sessions \cup {NoSession}] /\ pos \in [Sessions -> Nat]
  BY DEF IInv, TypeOK
<1>6. \A i \in 1 .. pos[s] : i \in 1 .. (pos[s] - 1) \/ i = pos[s]
  BY <1>1
<1>7. \A i \in 1 .. (pos[s] - 1) : i \in 1 .. pos[s]
  BY <1>1
<1>8. pos[s] \in 1 .. pos[s]
  BY <1>1
<1>9. t = s => pos'[t] = pos[s] - 1
  BY <1>2, <1>5
<1>10. t # s => pos'[t] = pos[t]
  BY <1>2, <1>5
<1>11. CASE Primary(s, pos[s])
  <2>1. lock' = [lock EXCEPT ![k] = NoSession]
    BY <1>11 DEF ReleaseEntry
  <2>2. \A i \in 1 .. (pos[s] - 1) : EntryKey(s, i) # k
    BY <1>11 DEF Primary
  <2>3. lock'[l] = IF l = k THEN NoSession ELSE lock[l]
    BY <2>1, <1>5
  <2>4. NoSession # t /\ NoSession # s
    BY ConstantsAssumption
  <2>5. l = k => lock[l] = s
    BY <1>8 DEF IInv, LocksAccounted
  <2>6. CASE t = s
    BY <1>3, <1>4, <1>6, <1>7, <1>9, <2>2, <2>3, <2>4, <2>6
  <2>7. CASE t # s
    BY <1>3, <1>4, <1>10, <2>3, <2>4, <2>5, <2>7
  <2> QED BY <2>6, <2>7
<1>12. CASE ~Primary(s, pos[s])
  <2>1. lock' = lock
    BY <1>12 DEF ReleaseEntry
  <2>2. l = k => \E i \in 1 .. (pos[s] - 1) : EntryKey(s, i) = l
    <3>1. l # NoKey
      BY ConstantsAssumption
    <3> QED BY <1>12, <3>1 DEF Primary
  <2>3. CASE t = s
    BY <1>3, <1>4, <1>6, <1>7, <1>9, <2>1, <2>2, <2>3
  <2>4. CASE t # s
    BY <1>3, <1>4, <1>10, <2>1, <2>4
  <2> QED BY <2>3, <2>4
<1> QED BY <1>11, <1>12

\* Every step keeps the locks accounted for.
LEMMA LockStep ==
    ASSUME IInv, [Next]_vars
    PROVE  LocksAccounted'
<1>1. CASE UNCHANGED <<lock, pos, watch, queue>>
  BY <1>1, LocksKept
<1>2. ASSUME NEW s \in Sessions, pos[s] = 0, UNCHANGED <<lock, pos>>,
             \A t \in Sessions : t # s => /\ watch'[t] = watch[t]
                                          /\ queue'[t] = queue[t]
      PROVE  LocksAccounted'
  BY <1>2, LocksKept
<1>3. ASSUME NEW s \in Sessions, ClientStep(s)
      PROVE  LocksAccounted'
  <2>1. pos[s] = 0
    BY <1>3 DEF ClientStep, IInv, Phases, Phase, Plain, WatchKey, Multi, Queue,
                QueueBad, QueueFailed, Discard, Exec, Request
  <2>2. watch \in [Sessions -> Seq(Watch)] /\ queue \in [Sessions -> Seq(Msg)]
    BY DEF IInv, TypeOK
  <2>3. UNCHANGED <<lock, pos>>
    BY <1>3 DEF ClientStep, Plain, WatchKey, Multi, Queue, QueueBad,
                QueueFailed, Discard, Exec, store, engine
  <2>4. \A t \in Sessions : t # s => /\ watch'[t] = watch[t]
                                     /\ queue'[t] = queue[t]
    <3>1. CASE \E k \in Keys : WatchKey(s, k)
      BY <2>2, <3>1 DEF WatchKey
    <3>2. CASE (\E m \in Messages : Queue(s, m)) \/ QueueFailed(s)
      BY <2>2, <3>2 DEF Queue, QueueFailed
    <3>3. CASE Discard(s)
      BY <2>2, <3>3 DEF Discard, DropMulti
    <3>4. CASE UNCHANGED session
      BY <3>4 DEF session
    <3>5. CASE Multi(s) \/ QueueBad(s)
      BY <3>5 DEF Multi, QueueBad
    <3> QED BY <1>3, <3>1, <3>2, <3>3, <3>4, <3>5 DEF ClientStep, Plain, Exec
  <2> QED BY <1>2, <2>1, <2>3, <2>4
<1>4. ASSUME NEW s \in Sessions, Finish(s)
      PROVE  LocksAccounted'
  <2>1. watch \in [Sessions -> Seq(Watch)] /\ queue \in [Sessions -> Seq(Msg)]
    BY DEF IInv, TypeOK
  <2>2. \A t \in Sessions : t # s => /\ watch'[t] = watch[t]
                                     /\ queue'[t] = queue[t]
    BY <1>4, <2>1 DEF Finish, DropMulti
  <2> QED BY <1>2, <1>4, <2>2 DEF Finish, store
<1>5. ASSUME NEW s \in Sessions, ExecStep(s)
      PROVE  LocksAccounted'
  <2>1. CASE Busy(s) \/ AllLocked(s) \/ Retry(s) \/ CheckWatches(s)
             \/ RunKey(s) \/ RunNoKey(s) \/ Commit(s)
    BY <1>1, <2>1 DEF Busy, AllLocked, Retry, CheckWatches, RunKey, RunNoKey,
                      Commit, store, session
  <2> QED BY <1>4, <1>5, <2>1, AcquireLocks, PassDupLocks, ReleaseLocks
          DEF ExecStep
<1>6. ASSUME NEW k \in Keys, StampPasses(k)
      PROVE  LocksAccounted'
  BY <1>1, <1>6 DEF StampPasses, session, engine
<1>7. CASE UNCHANGED vars
  BY <1>1, <1>7 DEF vars, store, session, engine
<1> QED BY <1>3, <1>5, <1>6, <1>7 DEF Next

-----------------------------------------------------------------------------
(* Phases is preserved *)

\* The phase of a session depends on its own state only.
LEMMA PhaseKept ==
    ASSUME NEW t, Phase(t), watch'[t] = watch[t], queue'[t] = queue[t],
           start'[t] = start[t], pc'[t] = pc[t], pos'[t] = pos[t],
           ectx'[t] = ectx[t]
    PROVE  Phase(t)'
BY DEF Phase, EntryCount, WatchCount, MsgCount

\* The length of the list of EXEC is a number.
LEMMA EntryCountType ==
    ASSUME TypeOK', NEW t \in Sessions
    PROVE  /\ EntryCount(t)' \in Nat
           /\ start'[t] => EntryCount(t)' = WatchCount(t)' + MsgCount(t)'
<1>1. watch'[t] \in Seq(Watch) /\ queue'[t] \in Seq(Msg)
  BY DEF TypeOK
<1>2. WatchCount(t)' \in Nat /\ MsgCount(t)' \in Nat
  BY <1>1, LenProperties DEF WatchCount, MsgCount
<1>3. EntryCount(t)' = IF start'[t] THEN WatchCount(t)' + MsgCount(t)' ELSE 0
  BY DEF EntryCount
<1> QED BY <1>2, <1>3

\* A step of s leaves what the phase of another session depends on alone.
LEMMA OthersKept ==
    ASSUME TypeOK, NEW s \in Sessions, ClientStep(s) \/ ExecStep(s),
           NEW t \in Sessions, t # s
    PROVE  /\ watch'[t] = watch[t] /\ queue'[t] = queue[t]
           /\ start'[t] = start[t] /\ pc'[t] = pc[t] /\ pos'[t] = pos[t]
           /\ ectx'[t] = ectx[t] /\ cur'[t] = cur[t]
<1> USE DEF TypeOK
<1>1. CASE \E k \in Keys : \E c \in PlainCmds : Plain(s, c, k)
  BY <1>1 DEF Plain, session, engine
<1>2. CASE \E k \in Keys : WatchKey(s, k)
  BY <1>2 DEF WatchKey, engine
<1>3. CASE Multi(s)
  BY <1>3 DEF Multi, engine
<1>4. CASE (\E m \in Messages : Queue(s, m)) \/ QueueBad(s) \/ QueueFailed(s)
  BY <1>4 DEF Queue, QueueBad, QueueFailed, engine
<1>5. CASE Discard(s)
  BY <1>5 DEF Discard, DropMulti, engine
<1>6. CASE Exec(s)
  BY <1>6 DEF Exec, session
<1>7. CASE Acquire(s)
  BY <1>7 DEF Acquire, session
<1>8. CASE PassDup(s)
  BY <1>8 DEF PassDup, session
<1>9. CASE Busy(s) \/ AllLocked(s) \/ Retry(s)
  BY <1>9 DEF Busy, AllLocked, Retry, session
<1>10. CASE ReleaseEntry(s)
  BY <1>10 DEF ReleaseEntry, session
<1>11. CASE CheckWatches(s) \/ Commit(s)
  BY <1>11 DEF CheckWatches, Commit, session
<1>12. CASE RunKey(s)
  BY <1>12 DEF RunKey, session
<1>13. CASE RunNoKey(s)
  BY <1>13 DEF RunNoKey, session
<1>14. CASE Finish(s)
  BY <1>14 DEF Finish, DropMulti
<1> QED BY <1>1, <1>2, <1>3, <1>4, <1>5, <1>6, <1>7, <1>8, <1>9, <1>10, <1>11,
           <1>12, <1>13, <1>14 DEF ClientStep, ExecStep
\* The list of a session has the same length when its parts are the same.
LEMMA EntryCountKept ==
    ASSUME NEW t, watch'[t] = watch[t], queue'[t] = queue[t],
           start'[t] = start[t]
    PROVE  EntryCount(t)' = EntryCount(t)
BY DEF EntryCount, WatchCount, MsgCount

\* A session that has passed nothing of its list.
LEMMA PhaseAtStart ==
    ASSUME TypeOK', NEW s \in Sessions,
           pos'[s] = 0, ectx'[s] = <<>>, pc'[s] \in {"idle", "lock"},
           queue'[s] # <<>> => start'[s]
    PROVE  Phase(s)'
<1>1. EntryCount(s)' \in Nat
  BY EntryCountType
<1>2. Len(ectx'[s]) = 0
  BY EmptySeq
<1>3. pos'[s] <= EntryCount(s)'
  BY <1>1
<1> QED BY <1>2, <1>3 DEF Phase

\* A command outside of EXEC keeps the phases.
LEMMA PhaseClient ==
    ASSUME IInv, TypeOK', NEW s \in Sessions, ClientStep(s)
    PROVE  Phase(s)'
<1> USE DEF IInv, Request
<1>1. Phase(s) /\ TypeOK
  BY DEF Phases
<1>2. pc[s] = "idle"
  BY DEF ClientStep, Plain, WatchKey, Multi, Queue, QueueBad, QueueFailed,
         Discard, Exec
<1>3. pos[s] = 0 /\ ectx[s] = <<>> /\ (queue[s] # <<>> => start[s])
  BY <1>1, <1>2 DEF Phase
<1>4. pos'[s] = 0 /\ ectx'[s] = <<>>
  BY <1>3 DEF ClientStep, Plain, WatchKey, Multi, Queue, QueueBad, QueueFailed,
              Discard, Exec, engine
<1>5. pc'[s] \in {"idle", "lock"}
  <2>1. CASE Exec(s)
    BY <1>1, <2>1 DEF Exec, TypeOK
  <2>2. CASE ~Exec(s)
    BY <1>2, <2>2 DEF ClientStep, Plain, WatchKey, Multi, Queue, QueueBad,
                      QueueFailed, Discard, engine
  <2> QED BY <2>1, <2>2
<1>6. queue'[s] # <<>> => start'[s]
  <2>1. CASE \E k \in Keys : WatchKey(s, k)
    BY <1>3, <2>1 DEF WatchKey
  <2>2. CASE Multi(s)
    BY <1>1, <2>2 DEF Multi, TypeOK
  <2>3. CASE (\E m \in Messages : Queue(s, m)) \/ QueueFailed(s) \/ QueueBad(s)
    BY <2>3 DEF Queue, QueueFailed, QueueBad
  <2>4. CASE Discard(s)
    BY <1>1, <2>4 DEF Discard, DropMulti, TypeOK
  <2>5. CASE UNCHANGED session
    BY <1>3, <2>5 DEF session
  <2> QED BY <2>1, <2>2, <2>3, <2>4, <2>5 DEF ClientStep, Plain, Exec
<1> QED BY <1>4, <1>5, <1>6, PhaseAtStart

\* A step of EXEC keeps the phases.
LEMMA PhaseExec ==
    ASSUME IInv, TypeOK', NEW s \in Sessions, ExecStep(s)
    PROVE  Phase(s)'
<1>1. Phase(s) /\ TypeOK
  BY DEF IInv, Phases
<1>2. /\ pos[s] \in Nat /\ EntryCount(s)' \in Nat
      /\ pos \in [Sessions -> Nat]
      /\ ectx[s] \in Seq(Ctx) /\ ectx \in [Sessions -> Seq(Ctx)]
      /\ pc \in [Sessions -> {"idle", "lock", "backoff", "check", "run",
                              "unlock"}]
  BY <1>1, EntryCountType DEF TypeOK
<1>3. ASSUME UNCHANGED session
      PROVE  /\ EntryCount(s)' = EntryCount(s)
             /\ queue'[s] # <<>> => start'[s]
             /\ watch' = watch /\ start' = start
  BY <1>1, <1>3, EntryCountKept DEF session, Phase
<1>4. ASSUME UNCHANGED <<session, pc>>, pc[s] = "lock",
             pos[s] + 1 <= EntryCount(s),
             pos' = [pos EXCEPT ![s] = pos[s] + 1],
             NEW st \in {"OK", "IS_NEW", "NOT_FOUND"},
             ectx' = [ectx EXCEPT ![s] = Append(@, NewCtx(st))]
      PROVE  Phase(s)'
  <2>1. pos'[s] = pos[s] + 1 /\ ectx'[s] = Append(ectx[s], NewCtx(st))
    BY <1>2, <1>4
  <2>2. NewCtx(st) \in Ctx
    BY <1>4 DEF NewCtx, Ctx
  <2>3. Len(ectx'[s]) = Len(ectx[s]) + 1
    BY <1>2, <2>1, <2>2, AppendProperties
  <2>4. Len(ectx[s]) = pos[s]
    BY <1>1, <1>4 DEF Phase
  <2>5. Len(ectx'[s]) = pos'[s] /\ pos'[s] <= EntryCount(s)'
    BY <1>3, <1>4, <2>1, <2>3, <2>4
  <2> QED BY <1>3, <1>4, <2>5 DEF Phase
<1>5. CASE Acquire(s)
  <2> DEFINE st == IF val[EntryKey(s, pos[s] + 1)] # 0 THEN "OK" ELSE "IS_NEW"
  <2>1. st \in {"OK", "IS_NEW", "NOT_FOUND"}
    OBVIOUS
  <2>2. /\ UNCHANGED <<session, pc>> /\ pc[s] = "lock"
        /\ pos[s] + 1 <= EntryCount(s)
        /\ pos' = [pos EXCEPT ![s] = pos[s] + 1]
        /\ ectx' = [ectx EXCEPT ![s] = Append(@, NewCtx(st))]
    BY <1>5 DEF Acquire
  <2> HIDE DEF st
  <2> QED BY <1>4, <2>1, <2>2
<1>6. CASE PassDup(s)
  <2>1. /\ UNCHANGED <<session, pc>> /\ pc[s] = "lock"
        /\ pos[s] + 1 <= EntryCount(s)
        /\ pos' = [pos EXCEPT ![s] = pos[s] + 1]
        /\ \E st : ectx' = [ectx EXCEPT ![s] = Append(@, NewCtx(st))]
    BY <1>6 DEF PassDup
  <2>2. PICK st : ectx' = [ectx EXCEPT ![s] = Append(@, NewCtx(st))]
    BY <2>1
  <2>3. ectx'[s] = Append(ectx[s], NewCtx(st)) /\ pos'[s] = pos[s] + 1
    BY <1>2, <2>1, <2>2
  <2>4. Len(ectx'[s]) = Len(ectx[s]) + 1
    BY <1>2, <2>3
  <2>5. Len(ectx[s]) = pos[s]
    BY <1>1, <2>1 DEF Phase
  <2>6. Len(ectx'[s]) = pos'[s] /\ pos'[s] <= EntryCount(s)'
    BY <1>3, <2>1, <2>3, <2>4, <2>5
  <2> QED BY <1>3, <2>1, <2>6 DEF Phase
<1>7. CASE Busy(s)
  <2>1. pc'[s] = "backoff" /\ UNCHANGED <<session, pos, ectx>>
    BY <1>2, <1>7 DEF Busy
  <2> QED BY <1>1, <1>3, <2>1 DEF Phase
<1>8. CASE AllLocked(s)
  <2>1. pc[s] = "lock" /\ pos[s] = EntryCount(s)
        /\ pc'[s] = "check" /\ UNCHANGED <<session, pos, ectx>>
    BY <1>2, <1>8 DEF AllLocked
  <2> QED BY <1>1, <1>3, <2>1 DEF Phase
<1>9. CASE ReleaseEntry(s)
  <2>1. pc[s] \in {"backoff", "unlock"} /\ pos[s] > 0
        /\ pos' = [pos EXCEPT ![s] = @ - 1] /\ UNCHANGED <<session, pc, ectx>>
    BY <1>9 DEF ReleaseEntry
  <2>2. pos'[s] = pos[s] - 1
    BY <1>2, <2>1
  <2>3. pos[s] <= EntryCount(s)
    BY <1>1 DEF Phase
  <2>4. pos'[s] <= EntryCount(s)'
    BY <1>2, <1>3, <2>1, <2>2, <2>3
  <2> QED BY <1>3, <2>1, <2>4 DEF Phase
<1>10. CASE Retry(s)
  <2>1. pos'[s] = 0 /\ ectx'[s] = <<>> /\ pc'[s] = "lock" /\ UNCHANGED session
    BY <1>2, <1>10 DEF Retry
  <2> QED BY <1>3, <2>1, PhaseAtStart
<1>11. CASE CheckWatches(s)
  <2>1. pc[s] = "check" /\ UNCHANGED <<session, pos, ectx>>
        /\ \/ pc'[s] = "run" /\ WatchesHold(s)
           \/ pc'[s] = "unlock"
    BY <1>2, <1>11 DEF CheckWatches
  <2>2. pc'[s] = "run" /\ watch'[s] # <<>> => start'[s]
    BY <1>3, <2>1 DEF WatchesHold
  <2> QED BY <1>1, <1>3, <2>1, <2>2 DEF Phase
<1>12. CASE RunKey(s)
  <2>1. pc[s] = "run" /\ UNCHANGED <<session, pc, pos>>
    BY <1>12 DEF RunKey
  <2>2. Len(ectx'[s]) = Len(ectx[s])
    <3>1. PICK e, x : ectx' = [ectx EXCEPT ![s][e] = x]
      BY <1>12, RunKeyContext
    <3>2. ectx'[s] = [ectx[s] EXCEPT ![e] = x]
      BY <1>2, <3>1
    <3> QED BY <1>2, <3>2
  <2> QED BY <1>1, <1>3, <2>1, <2>2 DEF Phase
<1>13. CASE RunNoKey(s)
  <2>1. UNCHANGED <<session, pc, pos, ectx>>
    BY <1>13 DEF RunNoKey
  <2> QED BY <1>1, <2>1, PhaseKept DEF session
<1>14. CASE Commit(s)
  <2>1. pc'[s] = "unlock" /\ UNCHANGED <<session, pos, ectx>>
    BY <1>2, <1>14 DEF Commit
  <2> QED BY <1>1, <1>3, <2>1 DEF Phase
<1>15. CASE Finish(s)
  <2>1. pos'[s] = 0 /\ ectx'[s] = <<>> /\ pc'[s] = "idle" /\ queue'[s] = <<>>
    BY <1>1, <1>15 DEF Finish, DropMulti, TypeOK
  <2> QED BY <2>1, PhaseAtStart
<1> QED BY <1>5, <1>6, <1>7, <1>8, <1>9, <1>10, <1>11, <1>12, <1>13, <1>14,
           <1>15 DEF ExecStep

\* Every step keeps the phases.
LEMMA PhaseStep ==
    ASSUME IInv, [Next]_vars
    PROVE  Phases'
<1> SUFFICES ASSUME NEW t \in Sessions PROVE Phase(t)'
  BY DEF Phases
<1>1. TypeOK /\ TypeOK' /\ Phase(t)
  BY TypeStep DEF IInv, Phases
<1>2. ASSUME NEW s \in Sessions, ClientStep(s) \/ ExecStep(s)
      PROVE  Phase(t)'
  <2>1. CASE t = s
    BY <1>1, <1>2, <2>1, PhaseClient, PhaseExec
  <2>2. CASE t # s
    BY <1>1, <1>2, <2>2, OthersKept, PhaseKept
  <2> QED BY <2>1, <2>2
<1>3. CASE UNCHANGED <<session, engine>>
  BY <1>1, <1>3, PhaseKept DEF session, engine
<1> QED BY <1>2, <1>3 DEF Next, StampPasses, vars

-----------------------------------------------------------------------------
(* What a step does to the store *)

\* EXEC holds the locks of all its keys while it checks and runs.
LEMMA KeysLocked ==
    ASSUME IInv, NEW s \in Sessions, pc[s] \in {"check", "run"},
           NEW i \in 1 .. EntryCount(s), EntryKey(s, i) # NoKey
    PROVE  EntryKey(s, i) \in Keys /\ lock[EntryKey(s, i)] = s
<1>1. pos[s] = EntryCount(s)
  BY DEF IInv, Phases, Phase
<1>2. EntryKey(s, i) \in Keys
  BY EntryKeyType DEF IInv
<1> QED BY <1>1, <1>2 DEF IInv, LocksAccounted

\* A step leaves the serials alone, or it updates one key: a free one, or one
\* that the transaction of the session has locked.
LEMMA StoreStep ==
    ASSUME IInv, NEW s \in Sessions, ClientStep(s) \/ ExecStep(s)
    PROVE  \/ UNCHANGED <<val, serial, dirty>>
           \/ UNCHANGED <<val, serial>> /\ DropMulti(s)
           \/ \E k \in Keys : \E v, e :
                Update(s, k, v, e) /\ lock[k] = NoSession /\ pc[s] = "idle"
           \/ \E k \in Keys : \E v, e :
                /\ Update(s, k, v, e) /\ lock[k] = s /\ pc[s] = "run"
                /\ cur'[s] = cur[s] + 1
<1>1. CASE \E k \in Keys : \E c \in PlainCmds : Plain(s, c, k)
  BY <1>1 DEF Plain, Request, NoUpdate
<1>2. CASE \E k \in Keys : WatchKey(s, k)
  BY <1>2 DEF WatchKey, Request, NoUpdate
<1>3. CASE Discard(s) \/ Finish(s)
  BY <1>3 DEF Discard, Finish, store
<1>4. CASE RunKey(s)
  <2> DEFINE m == queue[s][cur[s] + 1]
             e == WatchCount(s) + cur[s] + 1
  <2>1. pc[s] = "run" /\ cur[s] < MsgCount(s) /\ m.key # NoKey
    BY <1>4 DEF RunKey
  <2>2. m \in Msg /\ e \in 1 .. pos[s] /\ EntryKey(s, e) = m.key
    BY <2>1, RunEntry
  <2>3. m.key \in Keys
    BY <2>1, <2>2, MsgTypes
  <2>4. lock[m.key] = s
    BY <2>2, <2>3 DEF IInv, LocksAccounted
  <2>5. cur'[s] = cur[s] + 1
    BY <1>4 DEF RunKey, IInv, TypeOK
  <2>6. NoUpdate \/ \E v, x : Update(s, m.key, v, x)
    BY <1>4 DEF RunKey
  <2> HIDE DEF m, e
  <2> QED BY <2>1, <2>3, <2>4, <2>5, <2>6 DEF NoUpdate
<1>5. CASE UNCHANGED <<store, dirty>>
  BY <1>5 DEF store
<1>6. CASE Acquire(s)
  BY <1>6 DEF Acquire
<1>7. CASE ReleaseEntry(s)
  BY <1>7 DEF ReleaseEntry
<1>8. CASE Multi(s) \/ (\E m \in Messages : Queue(s, m)) \/ QueueBad(s)
           \/ QueueFailed(s) \/ Exec(s) \/ PassDup(s) \/ Busy(s)
           \/ AllLocked(s) \/ Retry(s) \/ CheckWatches(s) \/ RunNoKey(s)
           \/ Commit(s)
  BY <1>5, <1>8 DEF Multi, Queue, QueueBad, QueueFailed, Exec, PassDup, Busy,
                    AllLocked, Retry, CheckWatches, RunNoKey, Commit, history
<1> QED BY <1>1, <1>2, <1>3, <1>4, <1>6, <1>7, <1>8 DEF ClientStep, ExecStep

\* An update moves the serial of its key on, and marks the watches of the key.
LEMMA UpdateAhead ==
    ASSUME TypeOK, NEW s \in Sessions, NEW k \in Keys, NEW v, NEW e,
           Update(s, k, v, e), NEW t \in Sessions, SerialsAhead(t)
    PROVE  /\ \A i \in 1 .. WatchCount(t) :
                watch[t][i].serial <= serial'[watch[t][i].key]
           /\ \A i \in dirty'[t] :
                /\ i \in 1 .. WatchCount(t)
                /\ watch[t][i].serial # 0 =>
                     watch[t][i].serial < serial'[watch[t][i].key]
<1>1. serial \in [Keys -> Nat] /\ serial' = [serial EXCEPT ![k] = @ + 1]
  BY DEF TypeOK, Update
<1>2. \A l \in Keys : serial'[l] = IF l = k THEN serial[l] + 1 ELSE serial[l]
  BY <1>1
<1>3. \A i \in 1 .. WatchCount(t) : watch[t][i].key \in Keys
                                   /\ watch[t][i].serial \in Nat
  BY ElementTypes DEF Watch
<1>4. \A i \in 1 .. WatchCount(t) :
        watch[t][i].serial <= serial[watch[t][i].key]
  BY DEF SerialsAhead
<1>5. \A i \in 1 .. WatchCount(t) :
        /\ serial[watch[t][i].key] \in Nat
        /\ serial'[watch[t][i].key] = IF watch[t][i].key = k
                                      THEN serial[watch[t][i].key] + 1
                                      ELSE serial[watch[t][i].key]
  BY <1>1, <1>2, <1>3
<1>6. \A i \in 1 .. WatchCount(t) :
        watch[t][i].serial <= serial'[watch[t][i].key]
  BY <1>3, <1>4, <1>5
<1>7. ASSUME NEW i \in dirty'[t]
      PROVE  /\ i \in 1 .. WatchCount(t)
             /\ watch[t][i].serial # 0 =>
                  watch[t][i].serial < serial'[watch[t][i].key]
  <2>1. i \in dirty[t] \/ (i \in 1 .. WatchCount(t) /\ watch[t][i].key = k)
    BY <1>7 DEF Update
  <2>2. CASE i \in dirty[t]
    <3>1. /\ i \in 1 .. WatchCount(t)
          /\ watch[t][i].serial # 0 =>
               watch[t][i].serial < serial[watch[t][i].key]
      BY <2>2 DEF SerialsAhead
    <3> QED BY <1>3, <1>5, <3>1
  <2>3. CASE i \in 1 .. WatchCount(t) /\ watch[t][i].key = k
    BY <1>3, <1>4, <1>5, <2>3
  <2> QED BY <2>1, <2>2, <2>3
<1> QED BY <1>6, <1>7

-----------------------------------------------------------------------------
(* SerialsMoveOn is preserved *)

\* A watch list that is kept, or empty.
LEMMA AheadKept ==
    ASSUME IInv, NEW s \in Sessions, ClientStep(s) \/ ExecStep(s),
           NEW t \in Sessions, watch'[t] = watch[t]
    PROVE  SerialsAhead(t)'
<1>1. SerialsAhead(t) /\ TypeOK
  BY DEF IInv, SerialsMoveOn
<1>2. WatchCount(t)' = WatchCount(t)
  BY DEF WatchCount
<1>3. CASE UNCHANGED <<val, serial, dirty>>
  BY <1>1, <1>2, <1>3 DEF SerialsAhead
<1>4. CASE UNCHANGED <<val, serial>> /\ DropMulti(s)
  <2>1. dirty'[t] = {} \/ dirty'[t] = dirty[t]
    BY <1>1, <1>4 DEF DropMulti, TypeOK
  <2> QED BY <1>1, <1>2, <1>4, <2>1 DEF SerialsAhead
<1>5. CASE \E k \in Keys : \E v, e : Update(s, k, v, e)
  BY <1>1, <1>2, <1>5, UpdateAhead DEF SerialsAhead
<1> QED BY <1>3, <1>4, <1>5, StoreStep

\* A new watch has the serial that its key has.
LEMMA AheadWatch ==
    ASSUME IInv, NEW s \in Sessions, NEW k \in Keys, WatchKey(s, k)
    PROVE  SerialsAhead(s)'
<1> DEFINE w == [key    |-> k,
                 serial |-> IF val[k] # 0 /\ ~expired[k] THEN serial[k] ELSE 0]
           n == WatchCount(s)
<1>1. SerialsAhead(s) /\ TypeOK
  BY DEF IInv, SerialsMoveOn
<1>2. watch' = [watch EXCEPT ![s] = Append(@, w)]
  BY DEF WatchKey
<1>3. watch[s] \in Seq(Watch) /\ w \in Watch /\ n \in Nat
  BY <1>1, LenTypes DEF TypeOK, Watch
<1>4. watch'[s] = Append(watch[s], w)
  BY <1>1, <1>2 DEF TypeOK
<1>5. /\ WatchCount(s)' = n + 1
      /\ \A i \in 1 .. n : watch'[s][i] = watch[s][i]
      /\ watch'[s][n + 1] = w
  <2> HIDE DEF w
  <2> QED BY <1>3, <1>4, AppendProperties DEF WatchCount
<1>6. w.key = k /\ w.serial <= serial'[k]
  <2>1. serial[k] \in Nat /\ serial \in [Keys -> Nat]
    BY <1>1 DEF TypeOK
  <2>2. serial'[k] = serial[k] \/ serial'[k] = serial[k] + 1
    BY <2>1 DEF WatchKey, Update, NoUpdate
  <2> QED BY <2>1, <2>2
<1>7. /\ \A i \in 1 .. n : watch[s][i].serial <= serial'[watch[s][i].key]
      /\ \A i \in dirty'[s] : /\ i \in 1 .. n
                              /\ watch[s][i].serial # 0 =>
                                   watch[s][i].serial < serial'[watch[s][i].key]
  <2>1. CASE Update(s, k, 0, FALSE)
    BY <1>1, <2>1, UpdateAhead
  <2>2. CASE NoUpdate
    BY <1>1, <2>2 DEF NoUpdate, SerialsAhead
  <2> QED BY <2>1, <2>2 DEF WatchKey
<1> HIDE DEF w, n
<1>8. \A i \in 1 .. (n + 1) : i \in 1 .. n \/ i = n + 1
  BY <1>3
<1>9. \A i \in 1 .. n : i \in 1 .. (n + 1)
  BY <1>3
<1>10. \A i \in 1 .. (n + 1) : watch'[s][i].serial <= serial'[watch'[s][i].key]
  BY <1>5, <1>6, <1>7, <1>8
<1>11. \A i \in dirty'[s] : /\ i \in 1 .. (n + 1)
                            /\ watch'[s][i].serial # 0 =>
                                 watch'[s][i].serial < serial'[watch'[s][i].key]
  BY <1>5, <1>7, <1>9
<1> QED BY <1>5, <1>10, <1>11 DEF SerialsAhead

\* Every step keeps the serials ahead of the watches.
LEMMA SerialStep ==
    ASSUME IInv, [Next]_vars
    PROVE  SerialsMoveOn'
<1> SUFFICES ASSUME NEW t \in Sessions PROVE SerialsAhead(t)'
  BY DEF SerialsMoveOn
<1>1. TypeOK /\ SerialsAhead(t)
  BY DEF IInv, SerialsMoveOn
<1>2. ASSUME NEW s \in Sessions, ClientStep(s) \/ ExecStep(s)
      PROVE  SerialsAhead(t)'
  <2>1. CASE t # s
    BY <1>1, <1>2, <2>1, OthersKept, AheadKept
  <2>2. CASE t = s /\ \E k \in Keys : WatchKey(s, k)
    BY <2>2, AheadWatch
  <2>3. CASE t = s /\ (Discard(s) \/ Finish(s))
    <3>1. dirty'[s] = {} /\ watch'[s] = <<>>
      BY <1>1, <2>3 DEF Discard, Finish, DropMulti, TypeOK
    <3>2. WatchCount(s)' = 0
      BY <3>1, EmptySeq DEF WatchCount
    <3> QED BY <2>3, <3>1, <3>2 DEF SerialsAhead
  <2>4. CASE UNCHANGED watch
    BY <1>2, <2>4, AheadKept
  <2> QED BY <1>2, <2>1, <2>2, <2>3, <2>4
          DEF ClientStep, ExecStep, Plain, Multi, Queue, QueueBad, QueueFailed,
              Exec, Acquire, PassDup, Busy, AllLocked, ReleaseEntry, Retry,
              CheckWatches, RunKey, RunNoKey, Commit, session
<1>3. CASE UNCHANGED <<watch, serial, dirty>>
  BY <1>1, <1>3 DEF SerialsAhead, WatchCount
<1> QED BY <1>2, <1>3 DEF Next, StampPasses, vars, store, session, history

-----------------------------------------------------------------------------
(* WatchSound is preserved *)

\* While a transaction runs no other session updates a key that it watches.
LEMMA DirtyKept ==
    ASSUME IInv, NEW s \in Sessions, NEW k \in Keys, NEW v, NEW e,
           Update(s, k, v, e), lock[k] \in {NoSession, s},
           NEW t \in Sessions, pc[t] = "run"
    PROVE  dirty'[t] = dirty[t]
<1>1. CASE t = s
  BY <1>1 DEF Update
<1>2. CASE t # s
  <2>1. ASSUME NEW i \in 1 .. WatchCount(t)
        PROVE  watch[t][i].key # k
    <3>1. WatchCount(t) \in Nat /\ MsgCount(t) \in Nat
      BY LenTypes DEF IInv
    <3>2. watch[t] # <<>>
      BY <2>1, EmptySeq DEF WatchCount
    <3>3. start[t]
      BY <3>2 DEF IInv, Phases, Phase
    <3>4. EntryCount(t) = WatchCount(t) + MsgCount(t)
      BY <3>3 DEF EntryCount
    <3>5. i \in 1 .. EntryCount(t) /\ i <= WatchCount(t)
      BY <2>1, <3>1, <3>4
    <3>6. EntryKey(t, i) = watch[t][i].key
      BY <3>5 DEF EntryKey
    <3>7. watch[t][i].key \in Keys /\ watch[t][i].key # NoKey
      BY ElementTypes, ConstantsAssumption DEF IInv, Watch
    <3>8. lock[watch[t][i].key] = t
      BY <3>5, <3>6, <3>7, KeysLocked
    <3> QED BY <1>2, <3>8, ConstantsAssumption
  <2>2. dirty'[t] = dirty[t] \cup {i \in 1 .. WatchCount(t) :
                                     watch[t][i].key = k}
    BY <1>2 DEF Update
  <2> QED BY <2>1, <2>2
<1> QED BY <1>1, <1>2

\* The check of the watches passes over none that is behind.
LEMMA CheckSound ==
    ASSUME IInv, NEW s \in Sessions, WatchesHold(s), NEW i \in dirty[s]
    PROVE  watch[s][i].serial = 0
<1>1. /\ i \in 1 .. WatchCount(s)
      /\ watch[s][i].serial # 0 =>
           watch[s][i].serial < serial[watch[s][i].key]
  BY DEF IInv, SerialsMoveOn, SerialsAhead
<1>2. watch[s][i].serial = serial[watch[s][i].key] \/ watch[s][i].serial = 0
  BY <1>1 DEF WatchesHold
<1>3. watch[s][i].serial \in Nat
  BY <1>1, ElementTypes DEF IInv, Watch
<1> QED BY <1>1, <1>2, <1>3

\* Every step keeps the watches sound.
LEMMA WatchStep ==
    ASSUME IInv, [Next]_vars
    PROVE  WatchSound'
<1> SUFFICES ASSUME NEW t \in Sessions, pc'[t] = "run", NEW i \in dirty'[t]
             PROVE  watch'[t][i].serial = 0
  BY DEF WatchSound
<1>1. TypeOK
  BY DEF IInv
<1>2. CASE UNCHANGED <<pc, watch, dirty>>
  BY <1>2 DEF IInv, WatchSound
<1>3. ASSUME NEW s \in Sessions, ClientStep(s) \/ ExecStep(s)
      PROVE  watch'[t][i].serial = 0
  <2>1. CASE t = s /\ pc[t] # "run"
    <3>1. CheckWatches(s) /\ WatchesHold(s) /\ UNCHANGED <<watch, dirty>>
      <4>1. CASE CheckWatches(s)
        BY <1>1, <2>1, <4>1 DEF CheckWatches, TypeOK, session, history
      <4>2. CASE ~CheckWatches(s)
        BY <1>1, <1>3, <2>1, <4>2
           DEF ClientStep, ExecStep, Plain, WatchKey, Multi, Queue, QueueBad,
               QueueFailed, Discard, Exec, Acquire, PassDup, Busy, AllLocked,
               ReleaseEntry, Retry, RunKey, RunNoKey, Commit, Finish, engine,
               TypeOK
      <4> QED BY <4>1, <4>2
    <3> QED BY <2>1, <3>1, CheckSound
  <2>2. CASE pc[t] = "run"
    <3>1. watch'[t] = watch[t]
      <4>1. CASE t # s
        BY <1>1, <1>3, <4>1, OthersKept
      <4>2. CASE t = s
        BY <1>1, <1>3, <2>2, <4>2
           DEF ClientStep, ExecStep, Plain, WatchKey, Multi, Queue, QueueBad,
               QueueFailed, Discard, Exec, Request, Acquire, PassDup, Busy,
               AllLocked, ReleaseEntry, Retry, CheckWatches, RunKey, RunNoKey,
               Commit, Finish, session
      <4> QED BY <4>1, <4>2
    <3>2. dirty'[t] \subseteq dirty[t]
      <4>1. CASE UNCHANGED <<val, serial>> /\ DropMulti(s)
        BY <1>1, <4>1 DEF DropMulti, TypeOK
      <4>2. CASE \E k \in Keys : \E v, e : /\ Update(s, k, v, e)
                                          /\ lock[k] \in {NoSession, s}
        BY <2>2, <4>2, DirtyKept
      <4> QED BY <1>3, <4>1, <4>2, StoreStep
    <3> QED BY <2>2, <3>1, <3>2 DEF IInv, WatchSound
  <2>3. CASE t # s /\ pc[t] # "run"
    BY <1>1, <1>3, <2>3, OthersKept
  <2> QED BY <2>1, <2>2, <2>3
<1> QED BY <1>2, <1>3 DEF Next, StampPasses, vars, session, engine, history

-----------------------------------------------------------------------------
(* The theorems *)

\* The invariant is inductive.
LEMMA IInvInductive == Spec => []IInv
<1>1. IInv /\ [Next]_vars => IInv'
  BY TypeStep, LockStep, PhaseStep, SerialStep, WatchStep DEF IInv
<1> QED BY InitIInv, <1>1, PTL DEF Spec

\* The variables of the transaction engine keep their types, for any number of
\* sessions and keys and any bounds.
THEOREM TypeCorrect == Spec => []TypeOK
<1>1. IInv => TypeOK
  BY DEF IInv
<1> QED BY IInvInductive, <1>1, PTL

\* multi_try_lock and multi_release_lock account for every lock: a session
\* holds exactly the locks of the entries its EXEC has passed.
THEOREM LocksCorrect == Spec => []LocksAccounted
<1>1. IInv => LocksAccounted
  BY DEF IInv
<1> QED BY IInvInductive, <1>1, PTL

\* No command of a transaction runs after another session has changed a key
\* that existed when it was watched.
THEOREM WatchCorrect == Spec => []WatchSound
<1>1. IInv => WatchSound
  BY DEF IInv
<1> QED BY IInvInductive, <1>1, PTL

\* From the check of the watches until the last command, nobody but the
\* transaction itself changes a key of the transaction.
THEOREM IsolationCorrect == Spec => Isolation
<1> DEFINE Kept ==
      \A s \in Sessions :
        pc[s] \in {"check", "run"} /\ cur'[s] = cur[s] =>
          \A i \in 1 .. EntryCount(s) :
            EntryKey(s, i) # NoKey =>
              /\ val'[EntryKey(s, i)] = val[EntryKey(s, i)]
              /\ serial'[EntryKey(s, i)] = serial[EntryKey(s, i)]
<1>1. IInv /\ [Next]_vars => [Kept]_vars
  <2> SUFFICES ASSUME IInv, Next,
                      NEW s \in Sessions, pc[s] \in {"check", "run"},
                      cur'[s] = cur[s], NEW i \in 1 .. EntryCount(s),
                      EntryKey(s, i) # NoKey
               PROVE  /\ val'[EntryKey(s, i)] = val[EntryKey(s, i)]
                      /\ serial'[EntryKey(s, i)] = serial[EntryKey(s, i)]
    OBVIOUS
  <2> DEFINE l == EntryKey(s, i)
  <2>1. l \in Keys /\ lock[l] = s /\ s # NoSession
    BY KeysLocked, ConstantsAssumption
  <2>2. val \in [Keys -> Nat] /\ serial \in [Keys -> Nat] /\ cur[s] \in Nat
    BY DEF IInv, TypeOK
  <2>3. CASE UNCHANGED <<val, serial>>
    BY <2>3
  <2>4. ASSUME NEW t \in Sessions, ClientStep(t) \/ ExecStep(t)
        PROVE  val'[l] = val[l] /\ serial'[l] = serial[l]
    <3>1. ASSUME NEW k \in Keys, k # l, NEW v, NEW e, Update(t, k, v, e)
          PROVE  val'[l] = val[l] /\ serial'[l] = serial[l]
      BY <2>1, <2>2, <3>1 DEF Update
    <3>2. CASE \E k \in Keys : \E v, e : Update(t, k, v, e) /\ lock[k] = NoSession
      BY <2>1, <3>1, <3>2
    <3>3. CASE \E k \in Keys : \E v, e : /\ Update(t, k, v, e) /\ lock[k] = t
                                        /\ cur'[t] = cur[t] + 1
      <4>1. t # s
        BY <2>2, <3>3
      <4> QED BY <2>1, <3>1, <3>3, <4>1
    <3> HIDE DEF l
    <3> QED BY <2>3, <2>4, <3>2, <3>3, StoreStep
  <2> QED BY <2>3, <2>4 DEF Next, StampPasses
<1> QED BY IInvInductive, <1>1, PTL DEF Spec, Isolation

-----------------------------------------------------------------------------
(* EXEC as one step *)

\* The induction over a set of numbers is cited; what is folded plays no part.
LastOf(a, b) == b
Induct == INSTANCE FoldTheorems WITH Op <- LastOf

\* message n of a transaction writes the key k
Writes(s, n, k) == queue[s][n].cmd \in {"INCR", "DEL"} /\ queue[s][n].key = k

\* No command of a transaction has a key that two commands before it write:
\* what multi_key_fetch takes from the last writer is then what it needs.
OnceWritten ==
    \A s \in Sessions : \A n \in 1 .. MsgCount(s) :
        \A i, j \in 1 .. (n - 1) :
            Writes(s, i, queue[s][n].key) /\ Writes(s, j, queue[s][n].key) => i = j

\* the status of a key when it was locked
LockStatus(k) == IF before[k] # 0 THEN "OK" ELSE "IS_NEW"

\* entry i is of a message that has been executed
Executed(s, i) == i > WatchCount(s) /\ i <= WatchCount(s) + cur[s]

Stage(s) ==
    /\ outcome[s] = "commit" => pc[s] = "unlock"
    /\ pc[s] # "unlock" => outcome[s] = "none"
    /\ pc[s] \notin {"run", "unlock"} => cur[s] = 0 /\ result[s] = <<>>
    /\ pc[s] = "run" => cur[s] <= MsgCount(s)

\* what multi_try_lock left in the entries that have not run
Untouched(s) ==
    \A i \in 1 .. pos[s] :
        EntryKey(s, i) # NoKey /\ ~Executed(s, i) =>
            ectx[s][i] = NewCtx(LockStatus(EntryKey(s, i)))

\* what the first command that writes a key leaves in its entry
RanContext(s, n, x) ==
    LET c == queue[s][n].cmd
        k == queue[s][n].key
    IN  /\ x.ro <=> c = "GET"
        /\ ~x.exp
        /\ c # "GET" /\ (\A j \in 1 .. (n - 1) : ~Writes(s, j, k)) =>
              /\ x.kstatus = IF c = "INCR" THEN "OK" ELSE LockStatus(k)
              /\ x.isnew <=> LockStatus(k) = "IS_NEW"
              /\ x.del <=> (c = "DEL" /\ LockStatus(k) = "OK")

Ran(s) ==
    \A n \in 1 .. cur[s] :
        queue[s][n].key # NoKey => RanContext(s, n, ectx[s][WatchCount(s) + n])

\* a locked key is as it was locked until a command has written it
Held(s) == \A k \in Keys : lock[k] = s => before[k] = val[k]

Written(s) ==
    \A k \in Keys : lock[k] = s =>
        /\ (\A n \in 1 .. cur[s] : ~Writes(s, n, k)) => val[k] = before[k]
        /\ \A n \in 1 .. cur[s] :
              Writes(s, n, k) /\ (\A j \in 1 .. cur[s] : Writes(s, j, k) => j = n) =>
                  val[k] = IF queue[s][n].cmd = "INCR" THEN before[k] + 1 ELSE 0

\* The commands one after another on data d: f[i] is what the first i of them
\* leave and answer.
IsSteps(f, d, q, n) ==
    f = [i \in 0 .. n |->
          IF i = 0 THEN [data |-> d, answer |-> <<>>]
          ELSE [data   |-> Atomic!Apply(f[i-1].data, q[i]),
                answer |-> Append(f[i-1].answer, Atomic!Answer(f[i-1].data, q[i]))]]

Steps(d, q) == CHOOSE f : IsSteps(f, d, q, Len(q))

\* The commands that have run did to the locked keys and answered what they do
\* one after another, on any data that has those keys as they were locked.
Replayed(s) ==
    \A d \in [Keys -> Nat] :
        (\A k \in Keys : lock[k] = s => d[k] = before[k]) =>
            /\ Steps(d, queue[s])[cur[s]].answer = result[s]
            /\ Steps(d, queue[s])[cur[s]].data
                   = [k \in Keys |-> IF lock[k] = s THEN val[k] ELSE d[k]]

Undisturbed(s) ==
    /\ Stage(s)
    /\ pc[s] \in {"lock", "check", "run"} => Untouched(s)
    /\ pc[s] \in {"lock", "backoff", "check"} => Held(s)
    /\ pc[s] = "run" => Ran(s) /\ Written(s) /\ Replayed(s)

Fresh == \A k \in Keys : ~expired[k]

RInv == Fresh /\ \A s \in Sessions : Undisturbed(s)

\* The function of the steps exists.
LEMMA StepsExist ==
    ASSUME NEW d, NEW q, NEW n \in Nat
    PROVE  \E f : IsSteps(f, d, q, n)
<1> DEFINE P == {k \in 0..n : \E f : IsSteps(f, d, q, k)}
           Next_(r, i) == [data   |-> Atomic!Apply(r.data, q[i]),
                           answer |-> Append(r.answer, Atomic!Answer(r.data, q[i]))]
           base == [data |-> d, answer |-> <<>>]
           Is(f, k) == f = [i \in 0..k |-> IF i = 0 THEN base ELSE Next_(f[i - 1], i)]
<1>0. \A f, k : IsSteps(f, d, q, k) <=> Is(f, k)
  BY DEF IsSteps
<1> HIDE DEF Next_, base
<1>1. 0 \in P
  <2>1. Is([i \in 0..0 |-> base], 0) /\ 0 \in 0..n
    OBVIOUS
  <2> HIDE DEF Is
  <2> QED BY <1>0, <2>1
<1>2. ASSUME NEW k \in 1..n, k - 1 \in P PROVE k \in P
  <2>1. PICK g : Is(g, k - 1)
    BY <1>0, <1>2
  <2> DEFINE h == [i \in 0..k |-> IF i < k THEN g[i] ELSE Next_(g[k - 1], k)]
  <2>2. ASSUME NEW i \in 0..k
        PROVE  h[i] = IF i = 0 THEN base ELSE Next_(h[i - 1], i)
    <3>1. CASE i = 0
      <4>1. g[0] = base
        BY <2>1
      <4> QED BY <3>1, <4>1
    <3>2. CASE i \in 1..(k - 1)
      <4>0. i \in 0..(k - 1) /\ i # 0
        BY <3>2
      <4>1. g[i] = Next_(g[i - 1], i)
        BY <2>1, <4>0
      <4>2. h[i] = g[i] /\ h[i - 1] = g[i - 1]
        BY <3>2
      <4> HIDE DEF h
      <4> QED BY <3>2, <4>1, <4>2
    <3>3. CASE i = k
      <4>1. h[k] = Next_(g[k - 1], k) /\ h[k - 1] = g[k - 1]
        OBVIOUS
      <4> HIDE DEF h
      <4> QED BY <3>3, <4>1
    <3> QED BY <3>1, <3>2, <3>3
  <2>3. Is(h, k)
    BY <2>2
  <2> HIDE DEF h, Is
  <2> QED BY <1>0, <2>3
<1> HIDE DEF P
<1>3. n \in P
  BY <1>1, <1>2, Induct!SetInduction
<1> QED BY <1>3 DEF P

\* one command after the data and the answers r
StepOn(r, m) == [data   |-> Atomic!Apply(r.data, m),
                 answer |-> Append(r.answer, Atomic!Answer(r.data, m))]

\* What AtomicExec lets a transaction do is the last of its steps.
LEMMA AfterSteps ==
    ASSUME NEW d, NEW T, NEW q \in Seq(T)
    PROVE  /\ Atomic!After(d, q) = Steps(d, q)[Len(q)]
           /\ Steps(d, q)[0] = [data |-> d, answer |-> <<>>]
           /\ \A i \in 1 .. Len(q) : Steps(d, q)[i] = StepOn(Steps(d, q)[i - 1], q[i])
<1>1. PICK n \in Nat : n = Len(q)
  OBVIOUS
<1>2. \E f : IsSteps(f, d, q, Len(q))
  BY <1>1, StepsExist
<1>3. IsSteps(Steps(d, q), d, q, Len(q))
  BY <1>2, Zenon DEF Steps
<1>4. Atomic!After(d, q) = Steps(d, q)[Len(q)]
  BY Zenon DEF Atomic!After, Steps, IsSteps
<1> DEFINE f == Steps(d, q)
           Step(r, i) == [data   |-> Atomic!Apply(r.data, q[i]),
                          answer |-> Append(r.answer, Atomic!Answer(r.data, q[i]))]
<1>5. f = [i \in 0 .. n |-> IF i = 0 THEN [data |-> d, answer |-> <<>>] ELSE Step(f[i - 1], i)]
  BY <1>1, <1>3, Zenon DEF IsSteps
<1> HIDE DEF f, Step
<1>6. f[0] = [data |-> d, answer |-> <<>>] /\ \A i \in 1..n : f[i] = Step(f[i - 1], i)
  BY <1>5
<1> QED BY <1>1, <1>4, <1>6 DEF f, Step, StepOn

-----------------------------------------------------------------------------
(* One command on a key *)

\* A command on a key whose status tells whether it is there does what the
\* abstract one does.
LEMMA CommandEffect ==
    ASSUME NEW c \in KeyCmds, NEW st \in {"OK", "IS_NEW", "NOT_FOUND"}, NEW u \in Nat,
           st = "OK" <=> u # 0
    PROVE  /\ NewValue(c, st, u) = IF c = "INCR" THEN u + 1 ELSE IF c = "DEL" THEN 0 ELSE u
           /\ ~Touches(c, st) => NewValue(c, st, u) = u
           /\ \A d, m : m.cmd = c /\ d[m.key] = u => Reply(c, st, u) = Atomic!Answer(d, m)
           /\ \A d, m : m.cmd = c /\ m.key \in Keys /\ d \in [Keys -> Nat] /\ d[m.key] = u =>
                 Atomic!Apply(d, m) = [d EXCEPT ![m.key] = NewValue(c, st, u)]
<1>1. NewValue(c, st, u) = IF c = "INCR" THEN u + 1 ELSE IF c = "DEL" THEN 0 ELSE u
  BY DEF KeyCmds, NewValue
<1>2. ~Touches(c, st) => NewValue(c, st, u) = u
  BY <1>1 DEF KeyCmds, Touches
<1>3. ASSUME NEW d, NEW m, m.cmd = c, d[m.key] = u
      PROVE  Reply(c, st, u) = Atomic!Answer(d, m)
  BY <1>1, <1>3 DEF KeyCmds, Reply, Atomic!Answer, Number, Special, Atomic!Number, Atomic!Special
<1>4. ASSUME NEW d \in [Keys -> Nat], NEW m, m.cmd = c, d[m.key] = u, m.key \in Keys
      PROVE  Atomic!Apply(d, m) = [d EXCEPT ![m.key] = NewValue(c, st, u)]
  BY <1>1, <1>4 DEF KeyCmds, Atomic!Apply
<1> QED BY <1>1, <1>2, <1>3, <1>4

\* What RunKey leaves in the entry of a command c with the fetched context ctx
\* and the status st.
DoneCtx(ctx, c, st) ==
    [ctx EXCEPT !.isnew   = @ \/ (c = "INCR" /\ st = "IS_NEW"),
                !.del     = @ \/ (c = "DEL" /\ st = "OK"),
                !.kstatus = IF c = "INCR" THEN "OK" ELSE @]

\* a command c finds the status st of a key that held b when it was locked,
\* with no write before it, and leaves x in its entry
FoundFirst(c, b, L, ctx, st, x) ==
    /\ c \in KeyCmds /\ b \in Nat /\ L = IF b # 0 THEN "OK" ELSE "IS_NEW"
    /\ ctx = FetchPrimary(NewCtx(L), c, FALSE) \/ ctx = FetchDup(NewCtx(L), c, FALSE, FALSE)
    /\ st = TypeChecked(c, ctx.kstatus, b)
    /\ x = DoneCtx(ctx, c, st)

\* the same after one write w, that left u
FoundAgain(c, b, L, w, u, made, gone, ctx, st, x) ==
    /\ c \in KeyCmds /\ b \in Nat /\ L = IF b # 0 THEN "OK" ELSE "IS_NEW"
    /\ w \in {"INCR", "DEL"} /\ u = IF w = "INCR" THEN b + 1 ELSE 0
    /\ made \in BOOLEAN /\ (made <=> w = "INCR" /\ L = "IS_NEW")
    /\ gone \in BOOLEAN /\ (gone <=> w = "DEL" /\ L = "OK")
    /\ ctx = FetchDup(NewCtx(L), c, made, gone)
    /\ st = TypeChecked(c, ctx.kstatus, u)
    /\ x = DoneCtx(ctx, c, st)

\* The status tells whether the key is there.
Found(c, u, st, x) ==
    /\ st \in {"OK", "IS_NEW", "NOT_FOUND"} /\ (st = "OK" <=> u # 0)
    /\ x.ro <=> c = "GET"
    /\ ~x.exp

WroteFirst(c, L, x) ==
    c # "GET" => /\ x.kstatus = IF c = "INCR" THEN "OK" ELSE L
                 /\ x.isnew <=> L = "IS_NEW"
                 /\ x.del <=> (c = "DEL" /\ L = "OK")

\* The first command that writes a key finds it as it was locked, and so do
\* those before it.
LEMMA RunFirst ==
    ASSUME NEW c, NEW b, NEW L, NEW ctx, NEW st, NEW x, FoundFirst(c, b, L, ctx, st, x)
    PROVE  Found(c, b, st, x) /\ WroteFirst(c, L, x)
<1> USE DEF FoundFirst, Found, WroteFirst
<1>1. /\ ctx.kstatus = IF c = "GET" /\ L = "IS_NEW" THEN "NOT_FOUND" ELSE L
      /\ ctx.ro <=> c = "GET"
      /\ ~ctx.exp /\ ~ctx.del
      /\ ctx.isnew <=> c # "GET" /\ L = "IS_NEW"
      /\ DOMAIN ctx = {"kstatus", "ro", "isnew", "del", "exp"}
  <2>1. CASE ctx = FetchPrimary(NewCtx(L), c, FALSE)
    BY <2>1 DEF FetchPrimary, NewCtx, ReadCmds, KeyCmds
  <2>2. CASE ctx = FetchDup(NewCtx(L), c, FALSE, FALSE)
    BY <2>2 DEF FetchDup, NewCtx, ReadCmds, KeyCmds
  <2> QED BY <2>1, <2>2
<1>2. st \in {"OK", "IS_NEW", "NOT_FOUND"} /\ (st = "OK" <=> b # 0) /\ (c # "GET" => st = L)
  BY <1>1 DEF TypeChecked, KeyCmds
<1>3. /\ x.ro = ctx.ro /\ x.exp = ctx.exp
      /\ x.kstatus = IF c = "INCR" THEN "OK" ELSE ctx.kstatus
      /\ x.isnew = (ctx.isnew \/ (c = "INCR" /\ st = "IS_NEW"))
      /\ x.del = (ctx.del \/ (c = "DEL" /\ st = "OK"))
  BY <1>1 DEF DoneCtx
<1> QED BY <1>1, <1>2, <1>3 DEF KeyCmds

\* A command after one that has written its key finds what that one left.
LEMMA RunAgain ==
    ASSUME NEW c, NEW b, NEW L, NEW w, NEW u, NEW made, NEW gone, NEW ctx, NEW st, NEW x,
           FoundAgain(c, b, L, w, u, made, gone, ctx, st, x)
    PROVE  Found(c, u, st, x)
<1> USE DEF FoundAgain, Found
<1>1. /\ ctx.kstatus = IF w = "INCR" THEN "OK" ELSE IF c = "GET" THEN "NOT_FOUND" ELSE "IS_NEW"
      /\ ctx.ro <=> c = "GET"
      /\ ~ctx.exp
      /\ DOMAIN ctx = {"kstatus", "ro", "isnew", "del", "exp"}
  BY DEF FetchDup, NewCtx, ReadCmds, KeyCmds
<1>2. st \in {"OK", "IS_NEW", "NOT_FOUND"} /\ (st = "OK" <=> u # 0)
  BY <1>1 DEF TypeChecked, KeyCmds
<1>3. x.ro = ctx.ro /\ x.exp = ctx.exp
  BY <1>1 DEF DoneCtx
<1> QED BY <1>1, <1>2, <1>3

-----------------------------------------------------------------------------
(* What a step of one session leaves alone of another *)

\* The steps that write to the store beside the values, or to an outcome.
LEMMA OthersResults ==
    ASSUME IInv, NEW s \in Sessions, ClientStep(s) \/ ExecStep(s),
           NEW t \in Sessions, t # s
    PROVE  result'[t] = result[t] /\ outcome'[t] = outcome[t]
<1> USE DEF IInv, TypeOK
<1>1. CASE ClientStep(s)
  BY <1>1 DEF ClientStep, Plain, WatchKey, Multi, Queue, QueueBad, QueueFailed, Discard, Exec, engine
<1>2. CASE CheckWatches(s)
  BY <1>2 DEF CheckWatches
<1>3. CASE RunKey(s)
  BY <1>3 DEF RunKey
<1>4. CASE RunNoKey(s)
  BY <1>4 DEF RunNoKey
<1>5. CASE Commit(s)
  BY <1>5 DEF Commit
<1>6. CASE Finish(s)
  BY <1>6 DEF Finish
<1>7. CASE UNCHANGED <<result, outcome>>
  BY <1>7
<1> QED BY <1>1, <1>2, <1>3, <1>4, <1>5, <1>6, <1>7
        DEF ExecStep, Acquire, PassDup, Busy, AllLocked, ReleaseEntry, Retry

\* A step of s gives and takes no lock of t, and leaves the values of the keys
\* t has locked.
LEMMA OthersStore ==
    ASSUME IInv, NEW s \in Sessions, ClientStep(s) \/ ExecStep(s),
           NEW t \in Sessions, t # s, NEW k \in Keys
    PROVE  /\ lock'[k] = t <=> lock[k] = t
           /\ lock[k] = t => val'[k] = val[k] /\ before'[k] = before[k]
<1>0. /\ TypeOK /\ val \in [Keys -> Nat] /\ before \in [Keys -> Nat]
      /\ lock \in [Keys -> Sessions \cup {NoSession}] /\ t # NoSession
  BY ConstantsAssumption DEF IInv, TypeOK
<1>1. lock[k] = t => val'[k] = val[k]
  <2>1. ASSUME NEW l \in Keys, NEW v, NEW e, Update(s, l, v, e), lock[l] # t
        PROVE  lock[k] = t => val'[k] = val[k]
    BY <1>0, <2>1 DEF Update
  <2> QED BY <1>0, <2>1, StoreStep
<1>2. /\ lock'[k] = t <=> lock[k] = t
      /\ lock[k] = t => before'[k] = before[k]
  <2>1. CASE UNCHANGED <<lock, before>>
    BY <2>1
  <2>2. CASE Acquire(s)
    <3> DEFINE l == EntryKey(s, pos[s] + 1)
    <3>1. lock[l] = NoSession /\ lock' = [lock EXCEPT ![l] = s] /\ before' = [before EXCEPT ![l] = val[l]]
      BY <2>2 DEF Acquire
    <3> HIDE DEF l
    <3> QED BY <1>0, <3>1
  <2>3. CASE ReleaseEntry(s)
    <3> DEFINE l == EntryKey(s, pos[s])
    <3>1. CASE Primary(s, pos[s])
      <4>1. pos[s] \in Nat /\ pos[s] > 0 /\ EntryCount(s) >= pos[s] /\ EntryCount(s) \in Nat
        BY <1>0, <2>3, LenTypes DEF IInv, Phases, Phase, ReleaseEntry, EntryCount
      <4>2. pos[s] \in 1 .. EntryCount(s) /\ pos[s] \in 1 .. pos[s]
        BY <4>1
      <4>3. l \in Keys
        BY <1>0, <3>1, <4>2, EntryKeyType DEF Primary
      <4>4. lock[l] = s
        BY <4>2, <4>3 DEF IInv, LocksAccounted
      <4>5. lock' = [lock EXCEPT ![l] = NoSession] /\ before' = [before EXCEPT ![l] = 0]
        BY <2>3, <3>1 DEF ReleaseEntry
      <4> HIDE DEF l
      <4> QED BY <1>0, <4>4, <4>5
    <3>2. CASE ~Primary(s, pos[s])
      BY <2>1, <2>3, <3>2 DEF ReleaseEntry
    <3> QED BY <3>1, <3>2
  <2> QED BY <2>1, <2>2, <2>3
          DEF ClientStep, Plain, WatchKey, Multi, Queue, QueueBad, QueueFailed, Discard, Exec, store,
              history, ExecStep, PassDup, Busy, AllLocked, Retry, CheckWatches, RunKey, RunNoKey,
              Commit, Finish
<1> QED BY <1>1, <1>2

\* a session's own state and the keys it has locked
SameSession(t) ==
    /\ watch'[t] = watch[t] /\ queue'[t] = queue[t] /\ pc'[t] = pc[t] /\ pos'[t] = pos[t]
    /\ ectx'[t] = ectx[t] /\ cur'[t] = cur[t] /\ result'[t] = result[t] /\ outcome'[t] = outcome[t]
    /\ \A k \in Keys : /\ lock'[k] = t <=> lock[k] = t
                       /\ lock[k] = t => val'[k] = val[k] /\ before'[k] = before[k]

\* What is known of a session depends on these only.
LEMMA UndisturbedKept ==
    ASSUME IInv, NEW t \in Sessions, Undisturbed(t), SameSession(t)
    PROVE  Undisturbed(t)'
<1>0. /\ WatchCount(t)' = WatchCount(t) /\ MsgCount(t)' = MsgCount(t)
      /\ \A i : EntryKey(t, i)' = EntryKey(t, i)
      /\ \A n, k : Writes(t, n, k)' <=> Writes(t, n, k)
      /\ \A i : Executed(t, i)' <=> Executed(t, i)
  BY DEF SameSession, WatchCount, MsgCount, EntryKey, Writes, Executed
<1>1. Stage(t)'
  BY <1>0 DEF Undisturbed, Stage, SameSession
<1>2. ASSUME NEW i \in 1 .. pos[t], EntryKey(t, i) # NoKey
      PROVE  /\ EntryKey(t, i) \in Keys /\ lock[EntryKey(t, i)] = t
             /\ LockStatus(EntryKey(t, i))' = LockStatus(EntryKey(t, i))
             /\ before'[EntryKey(t, i)] = before[EntryKey(t, i)]
  <2>1. pos[t] \in Nat /\ EntryCount(t) \in Nat /\ pos[t] <= EntryCount(t)
    BY LenTypes DEF IInv, EntryCount, Phases, Phase
  <2>2. EntryKey(t, i) \in Keys
    BY <1>2, <2>1, EntryKeyType DEF IInv
  <2>3. lock[EntryKey(t, i)] = t
    BY <1>2, <2>2 DEF IInv, LocksAccounted
  <2>4. before'[EntryKey(t, i)] = before[EntryKey(t, i)]
    BY <2>2, <2>3 DEF SameSession
  <2> QED BY <1>0, <2>2, <2>3, <2>4 DEF LockStatus
<1>3. Untouched(t) => Untouched(t)'
  <2> SUFFICES ASSUME Untouched(t), NEW i \in 1 .. pos[t], EntryKey(t, i) # NoKey, ~Executed(t, i)
               PROVE  ectx[t][i] = NewCtx(LockStatus(EntryKey(t, i))')
    BY <1>0 DEF Untouched, SameSession
  <2> QED BY <1>2 DEF Untouched
<1>4. Held(t) => Held(t)'
  BY DEF Held, SameSession
<1>5. pc[t] = "run" /\ Ran(t) => Ran(t)'
  <2> SUFFICES ASSUME pc[t] = "run", Ran(t), NEW n \in 1 .. cur[t], queue[t][n].key # NoKey
               PROVE  RanContext(t, n, ectx[t][WatchCount(t) + n])'
    BY <1>0 DEF Ran, SameSession
  <2>1. RanContext(t, n, ectx[t][WatchCount(t) + n])
    BY DEF Ran
  <2>2. LockStatus(queue[t][n].key)' = LockStatus(queue[t][n].key)
    <3>1. /\ WatchCount(t) \in Nat /\ MsgCount(t) \in Nat /\ cur[t] \in Nat /\ cur[t] <= MsgCount(t)
      BY LenTypes DEF IInv, Undisturbed, Stage
    <3>2. queue[t] # <<>>
      BY <3>1, EmptySeq DEF MsgCount
    <3>3. pos[t] = WatchCount(t) + MsgCount(t)
      BY <3>2 DEF IInv, Phases, Phase, EntryCount
    <3>4. WatchCount(t) + n \in 1 .. pos[t] /\ EntryKey(t, WatchCount(t) + n) = queue[t][n].key
      BY <3>1, <3>3 DEF EntryKey
    <3>5. before'[queue[t][n].key] = before[queue[t][n].key]
      BY <1>2, <3>4
    <3> QED BY <3>5 DEF LockStatus, SameSession
  <2>3. /\ queue'[t] = queue[t] /\ ectx'[t] = ectx[t]
    BY DEF SameSession
  <2> QED BY <1>0, <2>1, <2>2, <2>3 DEF RanContext
<1>6. Written(t) => Written(t)'
  BY <1>0 DEF Written, SameSession
<1>7. Replayed(t) => Replayed(t)'
  <2> SUFFICES ASSUME Replayed(t), NEW d \in [Keys -> Nat], \A k \in Keys : lock'[k] = t => d[k] = before'[k]
               PROVE  /\ Steps(d, queue'[t])[cur'[t]].answer = result'[t]
                      /\ Steps(d, queue'[t])[cur'[t]].data
                             = [k \in Keys |-> IF lock'[k] = t THEN val'[k] ELSE d[k]]
    BY Zenon DEF Replayed, Steps, IsSteps
  <2>1. \A k \in Keys : lock[k] = t => d[k] = before[k]
    BY DEF SameSession
  <2>2. /\ Steps(d, queue[t])[cur[t]].answer = result[t]
        /\ Steps(d, queue[t])[cur[t]].data = [k \in Keys |-> IF lock[k] = t THEN val[k] ELSE d[k]]
    BY <2>1 DEF Replayed
  <2>3. [k \in Keys |-> IF lock[k] = t THEN val[k] ELSE d[k]]
          = [k \in Keys |-> IF lock'[k] = t THEN val'[k] ELSE d[k]]
    BY DEF SameSession
  <2> QED BY <2>2, <2>3 DEF SameSession
<1>8. pc'[t] = pc[t]
  BY DEF SameSession
<1> QED BY <1>1, <1>3, <1>4, <1>5, <1>6, <1>7, <1>8 DEF Undisturbed

\* A step of another session leaves it so.
LEMMA OthersUndisturbed ==
    ASSUME IInv, NEW s \in Sessions, ClientStep(s) \/ ExecStep(s),
           NEW t \in Sessions, t # s, Undisturbed(t)
    PROVE  Undisturbed(t)'
<1>1. SameSession(t)
  BY OthersKept, OthersResults, OthersStore DEF IInv, SameSession
<1> QED BY <1>1, UndisturbedKept

-----------------------------------------------------------------------------
(* Starting, locking and releasing *)

\* A session that has passed nothing.
LEMMA UndisturbedAtStart ==
    ASSUME IInv, IInv', NEW s \in Sessions, pos'[s] = 0, pc'[s] \in {"idle", "lock"},
           cur'[s] = 0, result'[s] = <<>>, outcome'[s] = "none"
    PROVE  Undisturbed(s)'
<1>1. Stage(s)'
  BY DEF Stage
<1>2. Untouched(s)'
  BY DEF Untouched
<1>3. \A k \in Keys : lock'[k] # s
  <2>1. LocksAccounted'
    BY DEF IInv
  <2> QED BY <2>1 DEF LocksAccounted
<1>4. Held(s)'
  BY <1>3 DEF Held
<1> QED BY <1>1, <1>2, <1>4 DEF Undisturbed

\* A request outside of EXEC.
LEMMA ClientUndisturbed ==
    ASSUME IInv, IInv', NEW s \in Sessions, ClientStep(s), Undisturbed(s)
    PROVE  Undisturbed(s)'
<1>1. pc[s] = "idle"
  BY DEF ClientStep, Plain, WatchKey, Multi, Queue, QueueBad, QueueFailed, Discard, Exec, Request
<1>2. pos[s] = 0 /\ cur[s] = 0 /\ result[s] = <<>> /\ outcome[s] = "none"
  BY <1>1 DEF IInv, Phases, Phase, Undisturbed, Stage
<1>3. UNCHANGED <<pos, cur, result, outcome>> /\ pc'[s] \in {"idle", "lock"}
  BY <1>1 DEF ClientStep, Plain, WatchKey, Multi, Queue, QueueBad, QueueFailed, Discard, Exec, engine,
             IInv, TypeOK
<1> QED BY <1>2, <1>3, UndisturbedAtStart

\* EXEC starts again, or is over.
LEMMA RestartUndisturbed ==
    ASSUME IInv, IInv', NEW s \in Sessions, Retry(s) \/ Finish(s), Undisturbed(s)
    PROVE  Undisturbed(s)'
<1>1. CASE Retry(s)
  <2>1. pos[s] = 0 /\ cur[s] = 0 /\ result[s] = <<>> /\ outcome[s] = "none"
    BY <1>1 DEF Retry, Undisturbed, Stage
  <2>2. UNCHANGED <<pos, cur, result, outcome>> /\ pc'[s] = "lock"
    BY <1>1 DEF Retry, IInv, TypeOK
  <2> QED BY <2>1, <2>2, UndisturbedAtStart
<1>2. CASE Finish(s)
  <2>1. pos'[s] = 0 /\ cur'[s] = 0 /\ result'[s] = <<>> /\ outcome'[s] = "none" /\ pc'[s] = "idle"
    BY <1>2 DEF Finish, IInv, TypeOK
  <2> QED BY <2>1, UndisturbedAtStart
<1> QED BY <1>1, <1>2

\* Locking a key notes what it holds; its entry tells whether it is there.
LEMMA AcquireUndisturbed ==
    ASSUME IInv, IInv', NEW s \in Sessions, Acquire(s), Undisturbed(s)
    PROVE  Undisturbed(s)'
<1> DEFINE k == EntryKey(s, pos[s] + 1)
           x == NewCtx(IF val[k] # 0 THEN "OK" ELSE "IS_NEW")
<1>0. pos[s] \in Nat
  BY LenTypes DEF IInv
<1>1. /\ pc[s] = "lock" /\ pos[s] \in Nat /\ pos[s] + 1 \in 1 .. EntryCount(s)
      /\ lock[k] = NoSession /\ lock' = [lock EXCEPT ![k] = s]
      /\ before' = [before EXCEPT ![k] = val[k]]
      /\ ectx' = [ectx EXCEPT ![s] = Append(@, x)] /\ pos' = [pos EXCEPT ![s] = pos[s] + 1]
      /\ UNCHANGED <<val, session, pc, cur, result, outcome>>
  BY LenTypes DEF IInv, Acquire
<1>2. k \in Keys
  BY <1>1, EntryKeyType DEF IInv, Acquire, Primary
<1>3. /\ val \in [Keys -> Nat] /\ before \in [Keys -> Nat] /\ s # NoSession
      /\ lock \in [Keys -> Sessions \cup {NoSession}]
      /\ ectx \in [Sessions -> Seq(Ctx)] /\ pos \in [Sessions -> Nat]
  BY ConstantsAssumption DEF IInv, TypeOK
<1>4. Stage(s) /\ Untouched(s) /\ Held(s)
  BY <1>1 DEF Undisturbed
<1>5. Stage(s)'
  BY <1>1, <1>4 DEF Stage, MsgCount, session
<1>6. Held(s)'
  BY <1>1, <1>2, <1>3, <1>4 DEF Held
<1>7. /\ \A i : EntryKey(s, i)' = EntryKey(s, i) /\ (Executed(s, i)' <=> Executed(s, i))
      /\ before'[k] = val[k]
      /\ \A l \in Keys : l # k => before'[l] = before[l]
  BY <1>1, <1>2, <1>3 DEF EntryKey, Executed, WatchCount, session
<1>8. /\ Len(ectx[s]) = pos[s] /\ ectx'[s][pos[s] + 1] = x /\ pos'[s] = pos[s] + 1
      /\ \A i \in 1 .. pos[s] : ectx'[s][i] = ectx[s][i]
  <2>1. Len(ectx[s]) = pos[s] /\ ectx[s] \in Seq(Ctx)
    BY <1>1, <1>3 DEF IInv, Phases, Phase
  <2>2. ectx'[s] = Append(ectx[s], x)
    BY <1>1, <1>3
  <2> HIDE DEF x
  <2> QED BY <1>1, <1>3, <2>1, <2>2, AppendProperties
<1>9. Untouched(s)'
  <2> SUFFICES ASSUME NEW i \in 1 .. (pos[s] + 1), EntryKey(s, i) # NoKey, ~Executed(s, i)
               PROVE  ectx'[s][i] = NewCtx(LockStatus(EntryKey(s, i))')
    BY <1>7, <1>8 DEF Untouched
  <2>1. LockStatus(EntryKey(s, i))' = IF before'[EntryKey(s, i)] # 0 THEN "OK" ELSE "IS_NEW"
    BY <1>7 DEF LockStatus
  <2>2. CASE i = pos[s] + 1
    BY <1>7, <1>8, <2>1, <2>2
  <2>3. CASE i \in 1 .. pos[s]
    <3>1. EntryKey(s, i) # k
      <4>1. Primary(s, pos[s] + 1)
        BY DEF Acquire
      <4>2. i \in 1 .. ((pos[s] + 1) - 1)
        BY <1>0, <2>3
      <4> QED BY <4>1, <4>2 DEF Primary
    <3>0. EntryKey(s, i) \in Keys
      <4>1. EntryCount(s) \in Nat /\ pos[s] + 1 <= EntryCount(s)
        BY <1>1, LenTypes DEF EntryCount, IInv
      <4>2. i \in 1 .. EntryCount(s)
        BY <1>0, <2>3, <4>1
      <4> QED BY <4>2, EntryKeyType DEF IInv
    <3>2. ectx[s][i] = NewCtx(LockStatus(EntryKey(s, i)))
      BY <1>4, <2>3 DEF Untouched
    <3> QED BY <1>7, <1>8, <2>1, <2>3, <3>0, <3>1, <3>2 DEF LockStatus
  <2>4. i = pos[s] + 1 \/ i \in 1 .. pos[s]
    BY <1>0
  <2> QED BY <2>2, <2>3, <2>4
<1> QED BY <1>1, <1>5, <1>6, <1>9 DEF Undisturbed

\* An entry of a key that is locked already has the status of the primary.
LEMMA PassDupUndisturbed ==
    ASSUME IInv, IInv', NEW s \in Sessions, PassDup(s), Undisturbed(s)
    PROVE  Undisturbed(s)'
<1> DEFINE e == pos[s] + 1
           k == EntryKey(s, e)
           Same(j) == EntryKey(s, j) = k
           p == CHOOSE j \in 1 .. pos[s] : EntryKey(s, j) = EntryKey(s, pos[s] + 1)
           x == NewCtx(IF k = NoKey THEN "OK" ELSE ectx[s][p].kstatus)
<1>0. pos[s] \in Nat
  BY LenTypes DEF IInv
<1>1. /\ pc[s] = "lock" /\ pos[s] \in Nat /\ e \in 1 .. EntryCount(s)
      /\ ectx' = [ectx EXCEPT ![s] = Append(@, x)] /\ pos' = [pos EXCEPT ![s] = pos[s] + 1]
      /\ UNCHANGED <<store, session, pc, cur, result, outcome, history>>
  BY LenTypes DEF IInv, PassDup
<1>3. ectx \in [Sessions -> Seq(Ctx)] /\ pos \in [Sessions -> Nat]
  BY DEF IInv, TypeOK
<1>4. Stage(s) /\ Untouched(s) /\ Held(s)
  BY <1>1 DEF Undisturbed
<1>5. Stage(s)'
  BY <1>1, <1>4 DEF Stage, MsgCount, session
<1>6. Held(s)'
  BY <1>1, <1>4 DEF Held, store, history
<1>7. /\ \A i : EntryKey(s, i)' = EntryKey(s, i) /\ (Executed(s, i)' <=> Executed(s, i))
      /\ before' = before
  BY <1>1 DEF EntryKey, Executed, WatchCount, session, history
<1>8. /\ Len(ectx[s]) = pos[s] /\ ectx'[s][e] = x /\ pos'[s] = e
      /\ \A i \in 1 .. pos[s] : ectx'[s][i] = ectx[s][i]
  <2>1. Len(ectx[s]) = pos[s] /\ ectx[s] \in Seq(Ctx)
    BY <1>1, <1>3 DEF IInv, Phases, Phase
  <2>2. ectx'[s] = Append(ectx[s], x)
    BY <1>1, <1>3
  <2> HIDE DEF x
  <2> QED BY <1>1, <1>3, <2>1, <2>2, AppendProperties
<1>9. k # NoKey => x = NewCtx(LockStatus(k))
  <2> SUFFICES ASSUME k # NoKey PROVE ectx[s][p].kstatus = LockStatus(k)
    OBVIOUS
  <2>1. \E j \in 1 .. pos[s] : EntryKey(s, j) = k
    BY <1>1 DEF PassDup, Primary
  <2>2. p \in 1 .. pos[s] /\ EntryKey(s, p) = k
    BY <2>1
  <2>3. ~Executed(s, p)
    <3>1. cur[s] = 0 /\ WatchCount(s) \in Nat
      BY <1>1, <1>4, LenTypes DEF Stage, IInv
    <3> HIDE DEF p
    <3> QED BY <1>1, <2>2, <3>1 DEF Executed
  <2>4. ectx[s][p] = NewCtx(LockStatus(k))
    BY <1>4, <2>2, <2>3 DEF Untouched
  <2> HIDE DEF p, k
  <2> QED BY <2>4 DEF NewCtx
<1>10. Untouched(s)'
  <2> SUFFICES ASSUME NEW i \in 1 .. (pos[s] + 1), EntryKey(s, i) # NoKey, ~Executed(s, i)
               PROVE  ectx'[s][i] = NewCtx(LockStatus(EntryKey(s, i)))
    BY <1>7, <1>8 DEF Untouched, LockStatus
  <2>2. CASE i = pos[s] + 1
    BY <1>8, <1>9, <2>2
  <2>3. CASE i \in 1 .. pos[s]
    BY <1>4, <1>8, <2>3 DEF Untouched
  <2>4. i = pos[s] + 1 \/ i \in 1 .. pos[s]
    BY <1>0
  <2> QED BY <2>2, <2>3, <2>4
<1> QED BY <1>1, <1>5, <1>6, <1>10 DEF Undisturbed

\* A back-off keeps what is locked, and so does the end of a wait for locks.
LEMMA WaitUndisturbed ==
    ASSUME IInv, IInv', NEW s \in Sessions, Busy(s) \/ AllLocked(s), Undisturbed(s)
    PROVE  Undisturbed(s)'
<1>1. /\ pc[s] = "lock" /\ pc'[s] \in {"backoff", "check"}
      /\ UNCHANGED <<store, session, pos, cur, ectx, result, outcome, history>>
  BY DEF Busy, AllLocked, IInv, TypeOK
<1>2. Stage(s) /\ Untouched(s) /\ Held(s)
  BY <1>1 DEF Undisturbed
<1>3. Stage(s)'
  BY <1>1, <1>2 DEF Stage, MsgCount, session
<1>4. Held(s)'
  BY <1>1, <1>2 DEF Held, store, history
<1>5. Untouched(s)'
  BY <1>1, <1>2 DEF Untouched, EntryKey, WatchCount, Executed, LockStatus, store, session, history
<1> QED BY <1>1, <1>3, <1>4, <1>5 DEF Undisturbed

\* Releasing keeps the keys that are left as they were.
LEMMA ReleaseUndisturbed ==
    ASSUME IInv, IInv', NEW s \in Sessions, ReleaseEntry(s), Undisturbed(s)
    PROVE  Undisturbed(s)'
<1> DEFINE k == EntryKey(s, pos[s])
<1>1. /\ pc[s] \in {"backoff", "unlock"}
      /\ \/ lock' = [lock EXCEPT ![k] = NoSession] /\ before' = [before EXCEPT ![k] = 0]
         \/ UNCHANGED <<lock, before>>
      /\ UNCHANGED <<val, session, pc, cur, result, outcome>>
  BY DEF ReleaseEntry
<1>2. /\ before \in [Keys -> Nat] /\ s # NoSession /\ lock \in [Keys -> Sessions \cup {NoSession}]
  BY ConstantsAssumption DEF IInv, TypeOK
<1>3. Stage(s)'
  BY <1>1 DEF Undisturbed, Stage, MsgCount, session
<1>4. Held(s) => Held(s)'
  <2> HIDE DEF k
  <2> QED BY <1>1, <1>2 DEF Held
<1> QED BY <1>1, <1>3, <1>4 DEF Undisturbed

\* When the watches hold the commands start on the data as it was locked.
LEMMA CheckUndisturbed ==
    ASSUME IInv, IInv', NEW s \in Sessions, CheckWatches(s), Undisturbed(s)
    PROVE  Undisturbed(s)'
<1>1. /\ pc[s] = "check" /\ UNCHANGED <<store, session, pos, cur, ectx, result, history>>
      /\ \/ pc'[s] = "run" /\ outcome' = outcome
         \/ pc'[s] = "unlock" /\ outcome'[s] = "null"
  BY DEF CheckWatches, IInv, TypeOK
<1>2. Stage(s) /\ Untouched(s) /\ Held(s) /\ cur[s] = 0 /\ result[s] = <<>> /\ outcome[s] = "none"
  BY <1>1 DEF Undisturbed, Stage
<1>3. MsgCount(s)' = MsgCount(s) /\ MsgCount(s) \in Nat /\ cur'[s] = 0 /\ result'[s] = <<>>
  BY <1>1, <1>2, LenTypes DEF MsgCount, session, IInv
<1>4. Stage(s)'
  BY <1>1, <1>2, <1>3 DEF Stage
<1>5. Untouched(s)'
  BY <1>1, <1>2 DEF Untouched, EntryKey, WatchCount, Executed, LockStatus, store, session, history
<1>6. Ran(s)'
  BY <1>3 DEF Ran
<1>7. Written(s)'
  BY <1>1, <1>2, <1>3 DEF Written, Held, store, history
<1>8. Replayed(s)'
  <2> SUFFICES ASSUME NEW d \in [Keys -> Nat], \A k \in Keys : lock'[k] = s => d[k] = before'[k]
               PROVE  /\ Steps(d, queue'[s])[cur'[s]].answer = result'[s]
                      /\ Steps(d, queue'[s])[cur'[s]].data
                             = [k \in Keys |-> IF lock'[k] = s THEN val'[k] ELSE d[k]]
    BY Zenon DEF Replayed, Steps, IsSteps
  <2>0. UNCHANGED <<queue, lock, val, before>>
    BY <1>1 DEF store, session, history
  <2>1. queue[s] \in Seq(Msg)
    BY DEF IInv, TypeOK
  <2>2. Steps(d, queue[s])[0] = [data |-> d, answer |-> <<>>]
    BY <2>1, AfterSteps
  <2>3. d = [k \in Keys |-> IF lock[k] = s THEN val[k] ELSE d[k]]
    BY <1>2, <2>0 DEF Held
  <2> QED BY <1>3, <2>0, <2>2, <2>3
<1> QED BY <1>1, <1>4, <1>5, <1>6, <1>7, <1>8 DEF Undisturbed

\* The last command is done.
LEMMA CommitUndisturbed ==
    ASSUME IInv, IInv', NEW s \in Sessions, Commit(s), Undisturbed(s)
    PROVE  Undisturbed(s)'
<1>1. pc[s] = "run" /\ pc'[s] = "unlock"
  BY DEF Commit, IInv, TypeOK
<1> QED BY <1>1 DEF Undisturbed, Stage

-----------------------------------------------------------------------------
(* Running the commands *)

\* The command that runs next is one of the queue, and its entry is locked.
LEMMA NextMessage ==
    ASSUME IInv, NEW s \in Sessions, pc[s] = "run", cur[s] < MsgCount(s)
    PROVE  /\ WatchCount(s) \in Nat /\ MsgCount(s) \in Nat /\ cur[s] \in Nat
           /\ pos[s] = WatchCount(s) + MsgCount(s)
           /\ Len(ectx[s]) = pos[s] /\ ectx[s] \in Seq(Ctx)
           /\ queue[s] \in Seq(Msg) /\ queue[s][cur[s] + 1] \in Msg
           /\ cur[s] + 1 \in 1 .. MsgCount(s)
           /\ \A n \in 1 .. MsgCount(s) : /\ WatchCount(s) + n \in 1 .. pos[s]
                                         /\ EntryKey(s, WatchCount(s) + n) = queue[s][n].key
           /\ \A n \in 1 .. MsgCount(s) : queue[s][n].key \in Keys => lock[queue[s][n].key] = s
<1>1. WatchCount(s) \in Nat /\ MsgCount(s) \in Nat /\ cur[s] \in Nat
  BY LenTypes DEF IInv
<1>2. queue[s] # <<>>
  BY <1>1, EmptySeq DEF MsgCount
<1>3. pos[s] = WatchCount(s) + MsgCount(s)
  BY <1>2 DEF IInv, Phases, Phase, EntryCount
<1>4. cur[s] + 1 \in 1 .. MsgCount(s)
  BY <1>1
<1>5. ASSUME NEW n \in 1 .. MsgCount(s)
      PROVE  WatchCount(s) + n \in 1 .. pos[s] /\ EntryKey(s, WatchCount(s) + n) = queue[s][n].key
  BY <1>1, <1>3 DEF EntryKey
<1>6. ASSUME NEW n \in 1 .. MsgCount(s), queue[s][n].key \in Keys PROVE lock[queue[s][n].key] = s
  BY <1>5, <1>6 DEF IInv, LocksAccounted
<1>7. /\ Len(ectx[s]) = pos[s] /\ ectx[s] \in Seq(Ctx)
      /\ queue[s] \in Seq(Msg)
  BY DEF IInv, TypeOK, Phases, Phase
<1>8. queue[s][cur[s] + 1] \in Msg
  BY <1>4, ElementTypes DEF IInv
<1> QED BY <1>1, <1>3, <1>4, <1>5, <1>6, <1>7, <1>8

\* One command more is replayed when it does to the data what it would do on
\* its own.
LEMMA ReplayOn ==
    ASSUME IInv, NEW s \in Sessions, pc[s] = "run", cur[s] < MsgCount(s), Replayed(s),
           cur'[s] = cur[s] + 1, UNCHANGED <<lock, before, queue>>,
           \A d \in [Keys -> Nat] : (\A k \in Keys : lock[k] = s => d[k] = val[k]) =>
               /\ result'[s] = Append(result[s], Atomic!Answer(d, queue[s][cur[s] + 1]))
               /\ Atomic!Apply(d, queue[s][cur[s] + 1])
                     = [k \in Keys |-> IF lock[k] = s THEN val'[k] ELSE d[k]]
    PROVE  Replayed(s)'
<1> SUFFICES ASSUME NEW d \in [Keys -> Nat], \A k \in Keys : lock'[k] = s => d[k] = before'[k]
             PROVE  /\ Steps(d, queue'[s])[cur'[s]].answer = result'[s]
                    /\ Steps(d, queue'[s])[cur'[s]].data
                           = [k \in Keys |-> IF lock'[k] = s THEN val'[k] ELSE d[k]]
  BY Zenon DEF Replayed, Steps, IsSteps
<1> DEFINE q == queue[s]
           f == Steps(d, q)
           m == queue[s][cur[s] + 1]
           D == [k \in Keys |-> IF lock[k] = s THEN val[k] ELSE d[k]]
<1>1. f[cur[s]].answer = result[s] /\ f[cur[s]].data = D
  BY DEF Replayed
<1>2. D \in [Keys -> Nat] /\ \A k \in Keys : lock[k] = s => D[k] = val[k]
  BY DEF IInv, TypeOK
<1>3. /\ result'[s] = Append(result[s], Atomic!Answer(D, m))
      /\ Atomic!Apply(D, m) = [k \in Keys |-> IF lock[k] = s THEN val'[k] ELSE D[k]]
  <2> HIDE DEF D
  <2> QED BY <1>2
<1>4. f[cur[s] + 1] = [data |-> Atomic!Apply(D, m), answer |-> Append(result[s], Atomic!Answer(D, m))]
  <2>1. /\ queue[s] \in Seq(Msg) /\ cur[s] \in Nat /\ cur[s] + 1 \in 1 .. Len(queue[s])
    BY NextMessage DEF MsgCount
  <2>2. \A i \in 1 .. Len(q) : f[i] = StepOn(f[i - 1], q[i])
    <3>1. queue[s] \in Seq(Msg)
      BY <2>1
    <3>2. \A i \in 1 .. Len(queue[s]) : Steps(d, queue[s])[i] = StepOn(Steps(d, queue[s])[i - 1], queue[s][i])
      BY ONLY <3>1, AfterSteps
    <3> QED BY <3>2
  <2>3. cur[s] + 1 - 1 = cur[s]
    BY <2>1
  <2> HIDE DEF f, D
  <2>4. f[cur[s] + 1] = StepOn(f[cur[s] + 1 - 1], m)
    BY <2>1, <2>2
  <2>5. f[cur[s] + 1] = StepOn(f[cur[s]], m)
    BY <2>3, <2>4
  <2> QED BY <1>1, <2>5 DEF StepOn
<1>5. [k \in Keys |-> IF lock[k] = s THEN val'[k] ELSE D[k]]
        = [k \in Keys |-> IF lock'[k] = s THEN val'[k] ELSE d[k]]
  OBVIOUS
<1> HIDE DEF f, D
<1>6. f[cur[s] + 1].answer = result'[s] /\ f[cur[s] + 1].data = Atomic!Apply(D, m)
  BY <1>3, <1>4
<1> QED BY <1>3, <1>5, <1>6 DEF f

\* A message without a key touches nothing.
LEMMA RunNoKeyUndisturbed ==
    ASSUME IInv, IInv', NEW s \in Sessions, RunNoKey(s), Undisturbed(s)
    PROVE  Undisturbed(s)'
<1> DEFINE m == queue[s][cur[s] + 1]
           n == cur[s] + 1
<1>1. /\ pc[s] = "run" /\ cur[s] < MsgCount(s) /\ m.key = NoKey
      /\ result' = [result EXCEPT ![s] = Append(@, Special(IF m.cmd = "PING" THEN "pong" ELSE "err"))]
      /\ cur' = [cur EXCEPT ![s] = @ + 1]
      /\ UNCHANGED <<store, session, pc, pos, ectx, outcome, history>>
  BY DEF RunNoKey
<1>2. /\ cur[s] \in Nat /\ MsgCount(s) \in Nat /\ WatchCount(s) \in Nat /\ m \in Msg /\ n \in 1 .. MsgCount(s)
  BY <1>1, NextMessage
<1>3. /\ cur'[s] = cur[s] + 1
      /\ result'[s] = Append(result[s], Special(IF m.cmd = "PING" THEN "pong" ELSE "err"))
  BY <1>1 DEF IInv, TypeOK
<1>4. Stage(s) /\ Untouched(s) /\ Ran(s) /\ Written(s) /\ Replayed(s)
  BY <1>1 DEF Undisturbed
<1>5. /\ WatchCount(s)' = WatchCount(s) /\ MsgCount(s)' = MsgCount(s)
      /\ \A i : EntryKey(s, i)' = EntryKey(s, i)
      /\ \A i, k : Writes(s, i, k)' <=> Writes(s, i, k)
      /\ \A k : LockStatus(k)' = LockStatus(k)
      /\ UNCHANGED <<val, lock, before, queue, ectx, pos, pc, outcome>>
  BY <1>1 DEF WatchCount, MsgCount, EntryKey, Writes, LockStatus, store, session, history
<1>6. m.cmd \in NoKeyCmds /\ m.key \notin Keys
  BY <1>1, <1>2, ConstantsAssumption DEF Msg
<1>7. Stage(s)'
  BY <1>1, <1>2, <1>3, <1>4, <1>5 DEF Stage
<1>8. Untouched(s)'
  <2>1. \A i \in Nat : Executed(s, i) => Executed(s, i)'
    BY <1>2, <1>3, <1>5 DEF Executed
  <2>2. \A i \in 1 .. pos[s] : i \in Nat
    OBVIOUS
  <2> QED BY <1>4, <1>5, <2>1, <2>2 DEF Untouched
<1>9. \A i \in 1 .. (cur[s] + 1) : i \in 1 .. cur[s] \/ i = n
  BY <1>2
<1>10. Ran(s)'
  <2> SUFFICES ASSUME NEW i \in 1 .. (cur[s] + 1), queue[s][i].key # NoKey
               PROVE  RanContext(s, i, ectx[s][WatchCount(s) + i])'
    BY <1>3, <1>5 DEF Ran
  <2>1. i \in 1 .. cur[s]
    BY <1>1, <1>9
  <2>2. RanContext(s, i, ectx[s][WatchCount(s) + i])
    BY <1>4, <2>1 DEF Ran
  <2> QED BY <1>5, <2>2 DEF RanContext
<1>11. Written(s)'
  <2>1. \A k \in Keys : ~Writes(s, n, k)
    BY <1>6 DEF Writes
  <2>2. \A i \in 1 .. cur[s] : i \in 1 .. (cur[s] + 1)
    BY <1>2
  <2> SUFFICES ASSUME NEW k \in Keys, lock[k] = s
               PROVE  /\ (\A i \in 1 .. (cur[s] + 1) : ~Writes(s, i, k)) => val[k] = before[k]
                      /\ \A i \in 1 .. (cur[s] + 1) :
                            Writes(s, i, k) /\ (\A j \in 1 .. (cur[s] + 1) : Writes(s, j, k) => j = i) =>
                                val[k] = IF queue[s][i].cmd = "INCR" THEN before[k] + 1 ELSE 0
    BY <1>3, <1>5 DEF Written
  <2> HIDE DEF n
  <2> QED BY <1>4, <1>9, <2>1, <2>2 DEF Written
<1>12. Replayed(s)'
  <2>1. ASSUME NEW d \in [Keys -> Nat], \A k \in Keys : lock[k] = s => d[k] = val[k]
        PROVE  /\ result'[s] = Append(result[s], Atomic!Answer(d, m))
               /\ Atomic!Apply(d, m) = [k \in Keys |-> IF lock[k] = s THEN val'[k] ELSE d[k]]
    <3>1. Atomic!Answer(d, m) = Special(IF m.cmd = "PING" THEN "pong" ELSE "err")
      BY <1>6 DEF NoKeyCmds, Atomic!Answer, Atomic!Special, Special
    <3>2. Atomic!Apply(d, m) = d
      BY <1>6 DEF NoKeyCmds, Atomic!Apply
    <3>3. d = [k \in Keys |-> IF lock[k] = s THEN val'[k] ELSE d[k]]
      BY <1>5, <2>1
    <3> QED BY <1>3, <3>1, <3>2, <3>3
  <2> HIDE DEF n
  <2> QED BY <1>1, <1>3, <1>4, <1>5, <2>1, ReplayOn
<1>13. pc'[s] = "run"
  BY <1>1, <1>5
<1> QED BY <1>7, <1>8, <1>10, <1>11, <1>12, <1>13 DEF Undisturbed

\* The entries before the one that runs that have written its key are those of
\* the commands that write it.
LEMMA WroteEntries ==
    ASSUME IInv, NEW s \in Sessions, pc[s] = "run", cur[s] < MsgCount(s), Untouched(s), Ran(s),
           NEW k \in Keys, NEW i \in 1 .. (WatchCount(s) + cur[s])
    PROVE  EntryKey(s, i) = k /\ (~ectx[s][i].ro \/ ectx[s][i].exp)
             <=> \E j \in 1 .. cur[s] : i = WatchCount(s) + j /\ Writes(s, j, k)
<1>1. /\ cur[s] \in Nat /\ MsgCount(s) \in Nat /\ WatchCount(s) \in Nat
      /\ pos[s] = WatchCount(s) + MsgCount(s)
  BY NextMessage
<1>2. CASE i <= WatchCount(s)
  <2>1. ~Executed(s, i) /\ i \in 1 .. pos[s]
    BY <1>1, <1>2 DEF Executed
  <2>2. EntryKey(s, i) = k => ectx[s][i] = NewCtx(LockStatus(k))
    BY <2>1, ConstantsAssumption DEF Untouched
  <2>3. EntryKey(s, i) = k => ectx[s][i].ro /\ ~ectx[s][i].exp
    BY <2>2 DEF NewCtx
  <2>4. \A j \in 1 .. cur[s] : i # WatchCount(s) + j
    BY <1>1, <1>2
  <2> QED BY <2>3, <2>4
<1>3. CASE i > WatchCount(s)
  <2>1. PICK j \in 1 .. cur[s] : i = WatchCount(s) + j /\ j \in 1 .. MsgCount(s)
    <3>1. i - WatchCount(s) \in 1 .. cur[s] /\ i = WatchCount(s) + (i - WatchCount(s))
          /\ i - WatchCount(s) \in 1 .. MsgCount(s)
      BY <1>1, <1>3
    <3> QED BY <3>1
  <2>2. EntryKey(s, i) = queue[s][j].key
    BY <2>1, NextMessage
  <2>3. \A l \in 1 .. cur[s] : i = WatchCount(s) + l => l = j
    BY <1>1, <2>1
  <2>4. queue[s][j] \in Msg
    BY <2>1, ElementTypes DEF IInv
  <2>5. ASSUME queue[s][j].key = k
        PROVE  queue[s][j].cmd \in KeyCmds /\ RanContext(s, j, ectx[s][i])
    <3>1. k # NoKey
      BY ConstantsAssumption
    <3>2. queue[s][j].cmd \in KeyCmds
      BY <2>4, <2>5, <3>1, MsgTypes
    <3>3. RanContext(s, j, ectx[s][WatchCount(s) + j])
      BY <2>5, <3>1 DEF Ran
    <3> QED BY <2>1, <3>2, <3>3
  <2>6. ASSUME queue[s][j].key = k
        PROVE  (ectx[s][i].ro <=> ~Writes(s, j, k)) /\ ~ectx[s][i].exp
    <3>1. (ectx[s][i].ro <=> queue[s][j].cmd = "GET") /\ ~ectx[s][i].exp
      BY <2>5, <2>6 DEF RanContext
    <3>2. Writes(s, j, k) <=> queue[s][j].cmd # "GET"
      BY <2>5, <2>6 DEF Writes, KeyCmds
    <3> QED BY <3>1, <3>2, Zenon
  <2>7. Writes(s, j, k) => queue[s][j].key = k
    BY DEF Writes
  <2>8. EntryKey(s, i) = k /\ (~ectx[s][i].ro \/ ectx[s][i].exp) <=> Writes(s, j, k)
    <3>1. CASE queue[s][j].key = k
      <4>1. (ectx[s][i].ro <=> ~Writes(s, j, k)) /\ ~ectx[s][i].exp
        BY <2>6, <3>1
      <4>2. EntryKey(s, i) = k
        BY <2>2, <3>1
      <4> QED BY <4>1, <4>2, Zenon
    <3>2. CASE queue[s][j].key # k
      BY <2>2, <2>7, <3>2
    <3> QED BY <3>1, <3>2
  <2>9. (\E l \in 1 .. cur[s] : i = WatchCount(s) + l /\ Writes(s, l, k)) <=> Writes(s, j, k)
    BY <2>1, <2>3
  <2> QED BY <2>8, <2>9
<1> QED BY <1>1, <1>2, <1>3

\* The next command has found the status st and left x in its entry, did to the
\* store and answered what goes with st.
RunsAs(s, st, x) ==
    LET n == cur[s] + 1
        m == queue[s][n]
    IN  /\ st \in {"OK", "IS_NEW", "NOT_FOUND"}
        /\ st = "OK" <=> val[m.key] # 0
        /\ RanContext(s, n, x)
        /\ ectx' = [ectx EXCEPT ![s][WatchCount(s) + n] = x]
        /\ result' = [result EXCEPT ![s] = Append(@, Reply(m.cmd, st, val[m.key]))]
        /\ IF Touches(m.cmd, st) THEN Update(s, m.key, NewValue(m.cmd, st, val[m.key]), FALSE)
           ELSE NoUpdate

\* multi_key_fetch finds a key as the commands before it left it: the status
\* tells whether it is there, so that the command does what it does alone.
LEMMA RunFound ==
    ASSUME IInv, NEW s \in Sessions, RunKey(s), Undisturbed(s), Fresh, OnceWritten
    PROVE  \E st, x : RunsAs(s, st, x)
<1> DEFINE n    == cur[s] + 1
           m    == queue[s][n]
           c    == m.cmd
           k    == m.key
           e    == WatchCount(s) + cur[s] + 1
           L    == LockStatus(k)
           gone == Primary(s, e) /\ ectx[s][e].kstatus = "OK" /\ expired[k]
           ctx  == IF Primary(s, e)
                   THEN FetchPrimary(ectx[s][e], c, gone)
                   ELSE FetchDup(ectx[s][e], c, DupCreated(s, e), DupDeleted(s, e))
           u    == IF gone THEN 0 ELSE val[k]
           st   == TypeChecked(c, ctx.kstatus, u)
           x    == DoneCtx(ctx, c, st)
           First == \A j \in 1 .. cur[s] : ~Writes(s, j, k)
<1>1. /\ pc[s] = "run" /\ cur[s] < MsgCount(s) /\ k # NoKey
      /\ IF gone \/ Touches(c, st)
         THEN Update(s, k, NewValue(c, st, u), expired[k] /\ ~gone /\ u # 0 /\ c # "DEL")
         ELSE NoUpdate
      /\ ectx' = [ectx EXCEPT ![s][e] = x]
      /\ result' = [result EXCEPT ![s] = Append(@, Reply(c, st, u))]
  BY DEF RunKey, DoneCtx
<1>2. /\ cur[s] \in Nat /\ MsgCount(s) \in Nat /\ WatchCount(s) \in Nat /\ m \in Msg /\ n \in 1 .. MsgCount(s)
      /\ e = WatchCount(s) + n /\ e \in 1 .. pos[s] /\ EntryKey(s, e) = k
  BY <1>1, NextMessage
<1>3. c \in KeyCmds /\ k \in Keys /\ lock[k] = s
  BY <1>1, <1>2, MsgTypes, NextMessage
<1>4. ~gone /\ ~expired[k] /\ u = val[k]
  BY <1>3 DEF Fresh
<1>5. Untouched(s) /\ Ran(s) /\ Written(s)
  BY <1>1 DEF Undisturbed
<1>6. ectx[s][e] = NewCtx(L)
  <2>1. ~Executed(s, e)
    BY <1>2 DEF Executed
  <2> QED BY <1>1, <1>2, <1>5, <2>1 DEF Untouched
<1>7. before[k] \in Nat /\ val[k] \in Nat /\ L = IF before[k] # 0 THEN "OK" ELSE "IS_NEW"
  BY <1>3 DEF LockStatus, IInv, TypeOK
<1>8. \A i \in 1 .. (n - 1) : i \in 1 .. cur[s]
  BY <1>2
<1> SUFFICES st \in {"OK", "IS_NEW", "NOT_FOUND"} /\ (st = "OK" <=> val[k] # 0) /\ RanContext(s, n, x)
  <2>1. ASSUME st \in {"OK", "IS_NEW", "NOT_FOUND"}, st = "OK" <=> val[k] # 0, RanContext(s, n, x)
        PROVE  RunsAs(s, st, x)
    <3> HIDE DEF st, x, gone, u
    <3> QED BY <1>1, <1>2, <1>4, <2>1 DEF RunsAs
  <2> HIDE DEF st, x
  <2> QED BY <2>1
<1>9. CASE First
  <2>1. val[k] = before[k]
    BY <1>3, <1>5, <1>9 DEF Written
  <2>2. \A i \in 1 .. (e - 1) : ~LastWrite(s, e, i)
    <3> SUFFICES ASSUME NEW i \in 1 .. (e - 1), LastWrite(s, e, i) PROVE FALSE
      OBVIOUS
    <3>1. EntryKey(s, i) = k /\ (~ectx[s][i].ro \/ ectx[s][i].exp)
      BY <1>2 DEF LastWrite
    <3>2. i \in 1 .. (WatchCount(s) + cur[s])
      BY <1>2
    <3>3. \E j \in 1 .. cur[s] : i = WatchCount(s) + j /\ Writes(s, j, k)
      <4> HIDE DEF k
      <4> QED BY <1>1, <1>3, <1>5, <3>1, <3>2, WroteEntries
    <3> QED BY <1>9, <3>3
  <2>3. DupCreated(s, e) = FALSE /\ DupDeleted(s, e) = FALSE
    BY <2>2 DEF DupCreated, DupDeleted
  <2>4. ctx = FetchPrimary(NewCtx(L), c, FALSE) \/ ctx = FetchDup(NewCtx(L), c, FALSE, FALSE)
    BY <1>4, <1>6, <2>3
  <2>5. st = TypeChecked(c, ctx.kstatus, before[k])
    BY <1>4, <2>1
  <2> HIDE DEF L, ctx, st, u, gone, First, c, k, e
  <2>6. Found(c, before[k], st, x) /\ WroteFirst(c, L, x)
    <3>1. x = DoneCtx(ctx, c, st)
      BY DEF x
    <3> HIDE DEF x
    <3>2. FoundFirst(c, before[k], L, ctx, st, x)
      BY <1>3, <1>7, <2>4, <2>5, <3>1 DEF FoundFirst
    <3> QED BY <3>2, RunFirst
  <2> HIDE DEF x
  <2>7. RanContext(s, n, x)
    BY <2>6 DEF RanContext, c, L, k, Found, WroteFirst
  <2> QED BY <2>1, <2>6, <2>7 DEF Found
<1>10. CASE ~First
  <2>1. PICK j \in 1 .. cur[s] : Writes(s, j, k)
    BY <1>10
  <2>2. \A i \in 1 .. cur[s] : Writes(s, i, k) => i = j
    <3>1. \A i \in 1 .. cur[s] : i \in 1 .. (n - 1)
      BY <1>2
    <3> QED BY <1>2, <2>1, <3>1 DEF OnceWritten
  <2> DEFINE w  == queue[s][j].cmd
             jx == WatchCount(s) + j
             y  == ectx[s][jx]
  <2>3. val[k] = IF w = "INCR" THEN before[k] + 1 ELSE 0
    BY <1>3, <1>5, <2>1, <2>2 DEF Written
  <2>4. /\ w \in {"INCR", "DEL"} /\ queue[s][j].key = k /\ j \in 1 .. MsgCount(s)
        /\ jx \in 1 .. (e - 1) /\ EntryKey(s, jx) = k
    <3>1. j \in 1 .. MsgCount(s) /\ jx \in 1 .. (e - 1)
      BY <1>1, <1>2
    <3>2. EntryKey(s, jx) = queue[s][j].key
      BY <1>1, <3>1, NextMessage
    <3> QED BY <2>1, <3>1, <3>2 DEF Writes
  <2>5. RanContext(s, j, y)
    BY <1>1, <1>5, <2>4 DEF Ran
  <2>6. /\ y.kstatus = IF w = "INCR" THEN "OK" ELSE L
        /\ y.isnew <=> L = "IS_NEW"
        /\ y.del <=> (w = "DEL" /\ L = "OK")
    <3>1. \A i \in 1 .. (j - 1) : ~Writes(s, i, k)
      <4>1. \A i \in 1 .. (j - 1) : i \in 1 .. cur[s] /\ i # j
        BY <1>2
      <4> QED BY <2>2, <4>1
    <3> QED BY <2>4, <2>5, <3>1 DEF RanContext
  <2>7. \A i \in 1 .. (e - 1) : LastWrite(s, e, i) <=> i = jx
    <3>1. \A i \in 1 .. (e - 1) : EntryKey(s, i) = k /\ (~ectx[s][i].ro \/ ectx[s][i].exp) <=> i = jx
      <4> TAKE i \in 1 .. (e - 1)
      <4>1. i \in 1 .. (WatchCount(s) + cur[s])
        BY <1>2
      <4>2. EntryKey(s, i) = k /\ (~ectx[s][i].ro \/ ectx[s][i].exp)
              <=> \E l \in 1 .. cur[s] : i = WatchCount(s) + l /\ Writes(s, l, k)
        BY <1>1, <1>3, <1>5, <4>1, WroteEntries
      <4> QED BY <2>1, <2>2, <4>2
    <3>2. ASSUME NEW i \in 1 .. (e - 1), LastWrite(s, e, i) PROVE i = jx
      BY <1>2, <3>1, <3>2 DEF LastWrite
    <3>3. LastWrite(s, e, jx)
      <4>1. \A i \in (jx + 1) .. (e - 1) : i \in 1 .. (e - 1) /\ i # jx
        BY <1>2
      <4>2. EntryKey(s, jx) = EntryKey(s, e) /\ (~ectx[s][jx].ro \/ ectx[s][jx].exp)
        BY <1>2, <2>4, <3>1
      <4>3. \A i \in (jx + 1) .. (e - 1) :
              ~(EntryKey(s, i) = EntryKey(s, e) /\ (~ectx[s][i].ro \/ ectx[s][i].exp))
        BY <1>2, <3>1, <4>1
      <4> HIDE DEF jx, e
      <4> QED BY <4>2, <4>3 DEF LastWrite
    <3> QED BY <3>2, <3>3
  <2>8. DupCreated(s, e) <=> w = "INCR" /\ L = "IS_NEW"
    <3>1. DupCreated(s, e) <=> y.kstatus = "OK" /\ y.isnew
      <4> HIDE DEF jx, e
      <4> QED BY <2>4, <2>7 DEF DupCreated
    <3> HIDE DEF w, y, L
    <3> QED BY <1>7, <2>4, <2>6, <3>1
  <2>9. DupDeleted(s, e) <=> w = "DEL" /\ L = "OK"
    <3>1. DupDeleted(s, e) <=> y.kstatus = "OK" /\ y.del
      <4> HIDE DEF jx, e
      <4> QED BY <2>4, <2>7 DEF DupDeleted
    <3> HIDE DEF w, y, L
    <3> QED BY <1>7, <2>4, <2>6, <3>1
  <2>10. ~Primary(s, e)
    BY <1>2, <2>4 DEF Primary
  <2>11. ctx = FetchDup(NewCtx(L), c, DupCreated(s, e), DupDeleted(s, e))
    BY <1>6, <2>10
  <2>12. st = TypeChecked(c, ctx.kstatus, val[k])
    BY <1>4
  <2>13. DupCreated(s, e) \in BOOLEAN /\ DupDeleted(s, e) \in BOOLEAN
    BY DEF DupCreated, DupDeleted
  <2> HIDE DEF L, ctx, st, u, gone, First, c, k, e, w
  <2>14. Found(c, val[k], st, x)
    <3>1. x = DoneCtx(ctx, c, st)
      BY DEF x
    <3> HIDE DEF x
    <3>2. FoundAgain(c, before[k], L, w, val[k], DupCreated(s, e), DupDeleted(s, e), ctx, st, x)
      BY <1>3, <1>7, <2>3, <2>4, <2>8, <2>9, <2>11, <2>12, <2>13, <3>1 DEF FoundAgain
    <3> QED BY <3>2, RunAgain
  <2> HIDE DEF x
  <2>15. RanContext(s, n, x)
    <3>1. j \in 1 .. (n - 1)
      BY <1>2
    <3> QED BY <2>1, <2>14, <3>1 DEF RanContext, c, k, Found
  <2> QED BY <2>14, <2>15 DEF Found
<1> QED BY <1>9, <1>10

\* A command with a key does to the store and answers what it does on its own.
LEMMA RunKeyEffect ==
    ASSUME IInv, NEW s \in Sessions, RunKey(s), Undisturbed(s), Fresh, OnceWritten
    PROVE  LET n == cur[s] + 1
               m == queue[s][n]
               v == IF m.cmd = "INCR" THEN val[m.key] + 1 ELSE IF m.cmd = "DEL" THEN 0 ELSE val[m.key]
           IN  /\ m.cmd \in KeyCmds /\ m.key \in Keys /\ lock[m.key] = s
               /\ Fresh'
               /\ val' = [val EXCEPT ![m.key] = v]
               /\ \E x : RanContext(s, n, x) /\ ectx' = [ectx EXCEPT ![s][WatchCount(s) + n] = x]
               /\ \A d \in [Keys -> Nat] : d[m.key] = val[m.key] =>
                     /\ result'[s] = Append(result[s], Atomic!Answer(d, m))
                     /\ Atomic!Apply(d, m) = [d EXCEPT ![m.key] = v]
<1> DEFINE n == cur[s] + 1
           m == queue[s][n]
           c == m.cmd
           k == m.key
           v == IF c = "INCR" THEN val[k] + 1 ELSE IF c = "DEL" THEN 0 ELSE val[k]
<1>1. /\ pc[s] = "run" /\ cur[s] < MsgCount(s) /\ k # NoKey
  BY DEF RunKey
<1>2. c \in KeyCmds /\ k \in Keys /\ lock[k] = s
  BY <1>1, MsgTypes, NextMessage
<1>3. /\ val \in [Keys -> Nat] /\ expired \in [Keys -> BOOLEAN] /\ result \in [Sessions -> Seq(Replies)]
  BY DEF IInv, TypeOK
<1>4. PICK st, x :
        /\ st \in {"OK", "IS_NEW", "NOT_FOUND"}
        /\ st = "OK" <=> val[k] # 0
        /\ RanContext(s, n, x)
        /\ ectx' = [ectx EXCEPT ![s][WatchCount(s) + n] = x]
        /\ result' = [result EXCEPT ![s] = Append(@, Reply(c, st, val[k]))]
        /\ IF Touches(c, st) THEN Update(s, k, NewValue(c, st, val[k]), FALSE) ELSE NoUpdate
  BY RunFound, Zenon DEF RunsAs
<1> HIDE DEF n, m, c, k
<1>5. val[k] \in Nat
  BY <1>2, <1>3
<1>6. /\ NewValue(c, st, val[k]) = v
      /\ ~Touches(c, st) => v = val[k]
  BY <1>2, <1>4, <1>5, CommandEffect
<1>7. val' = [val EXCEPT ![k] = v]
  <2>1. CASE Touches(c, st)
    BY <1>4, <1>6, <2>1 DEF Update
  <2>2. CASE ~Touches(c, st)
    <3>1. val' = val /\ v = val[k]
      BY <1>4, <1>6, <2>2 DEF NoUpdate
    <3> HIDE DEF v
    <3> QED BY <1>2, <1>3, <3>1
  <2> QED BY <2>1, <2>2
<1>8. Fresh'
  BY <1>2, <1>3, <1>4 DEF Update, NoUpdate, Fresh
<1>9. ASSUME NEW d \in [Keys -> Nat], d[k] = val[k]
      PROVE  /\ result'[s] = Append(result[s], Atomic!Answer(d, m))
             /\ Atomic!Apply(d, m) = [d EXCEPT ![k] = v]
  <2>1. m.cmd = c /\ m.key = k
    BY DEF c, k
  <2>2. Reply(c, st, val[k]) = Atomic!Answer(d, m)
    BY <1>2, <1>4, <1>5, <1>9, <2>1, CommandEffect
  <2>3. Atomic!Apply(d, m) = [d EXCEPT ![k] = NewValue(c, st, val[k])]
    BY <1>2, <1>4, <1>5, <1>9, <2>1, CommandEffect
  <2>4. result'[s] = Append(result[s], Reply(c, st, val[k]))
    BY <1>3, <1>4
  <2> QED BY <1>6, <2>2, <2>3, <2>4
<1> HIDE DEF v
<1> QED BY <1>2, <1>4, <1>7, <1>8, <1>9 DEF n, m, c, k, v

\* A command with a key runs.
LEMMA RunKeyUndisturbed ==
    ASSUME IInv, IInv', NEW s \in Sessions, RunKey(s), Undisturbed(s), Fresh, OnceWritten
    PROVE  Undisturbed(s)'
<1> DEFINE n == cur[s] + 1
           m == queue[s][n]
           c == m.cmd
           k == m.key
           v == IF c = "INCR" THEN val[k] + 1 ELSE IF c = "DEL" THEN 0 ELSE val[k]
           e == WatchCount(s) + n
<1>1. /\ pc[s] = "run" /\ cur[s] < MsgCount(s)
      /\ cur' = [cur EXCEPT ![s] = @ + 1]
      /\ UNCHANGED <<lock, session, pc, pos, outcome, badqueue, before>>
  BY DEF RunKey
<1>2. /\ cur[s] \in Nat /\ MsgCount(s) \in Nat /\ WatchCount(s) \in Nat /\ n \in 1 .. MsgCount(s)
      /\ e \in 1 .. pos[s] /\ Len(ectx[s]) = pos[s] /\ pos[s] = WatchCount(s) + MsgCount(s)
  BY <1>1, NextMessage
<1>3. /\ c \in KeyCmds /\ k \in Keys /\ lock[k] = s
      /\ val' = [val EXCEPT ![k] = v]
      /\ \A d \in [Keys -> Nat] : d[k] = val[k] =>
            /\ result'[s] = Append(result[s], Atomic!Answer(d, m))
            /\ Atomic!Apply(d, m) = [d EXCEPT ![k] = v]
  BY RunKeyEffect
<1>4. PICK x : RanContext(s, n, x) /\ ectx' = [ectx EXCEPT ![s][e] = x]
  BY RunKeyEffect
<1>5. Stage(s) /\ Untouched(s) /\ Ran(s) /\ Written(s) /\ Replayed(s)
  BY <1>1 DEF Undisturbed
<1>6. cur'[s] = cur[s] + 1
  BY <1>1 DEF IInv, TypeOK
<1>7. /\ WatchCount(s)' = WatchCount(s) /\ MsgCount(s)' = MsgCount(s)
      /\ \A i : EntryKey(s, i)' = EntryKey(s, i)
      /\ \A i, l : Writes(s, i, l)' <=> Writes(s, i, l)
      /\ \A l : LockStatus(l)' = LockStatus(l)
      /\ UNCHANGED <<lock, before, queue, pos, pc, outcome>>
  BY <1>1 DEF WatchCount, MsgCount, EntryKey, Writes, LockStatus, session
<1>8. ectx'[s][e] = x /\ \A i \in 1 .. pos[s] : i # e => ectx'[s][i] = ectx[s][i]
  <2>1. ectx \in [Sessions -> Seq(Ctx)]
    BY DEF IInv, TypeOK
  <2>2. ectx'[s] = [ectx[s] EXCEPT ![e] = x] /\ ectx[s] \in Seq(Ctx)
    BY <1>4, <2>1
  <2> HIDE DEF e
  <2>3. DOMAIN ectx[s] = 1 .. pos[s]
    BY <1>2, <2>2
  <2> QED BY <1>2, <2>2, <2>3
<1>9. Stage(s)'
  BY <1>1, <1>2, <1>5, <1>6, <1>7 DEF Stage
<1>10. Untouched(s)'
  <2>1. \A i \in Nat : Executed(s, i) => Executed(s, i)'
    BY <1>2, <1>6, <1>7 DEF Executed
  <2>2. \A i : i = e => Executed(s, i)'
    BY <1>2, <1>6, <1>7 DEF Executed
  <2>3. \A i \in 1 .. pos[s] : i \in Nat
    OBVIOUS
  <2> HIDE DEF e
  <2> QED BY <1>5, <1>7, <1>8, <2>1, <2>2, <2>3 DEF Untouched
<1>11. \A i \in 1 .. (cur[s] + 1) : i \in 1 .. cur[s] \/ i = n
  BY <1>2
<1>12. Ran(s)'
  <2> SUFFICES ASSUME NEW i \in 1 .. (cur[s] + 1), queue[s][i].key # NoKey
               PROVE  RanContext(s, i, ectx'[s][WatchCount(s) + i])
    BY <1>6, <1>7 DEF Ran, RanContext
  <2>1. CASE i = n
    BY <1>4, <1>8, <2>1
  <2>2. CASE i \in 1 .. cur[s]
    <3>1. RanContext(s, i, ectx[s][WatchCount(s) + i])
      BY <1>5, <2>2 DEF Ran
    <3>2. WatchCount(s) + i \in 1 .. pos[s] /\ WatchCount(s) + i # e
      BY <1>2, <2>2
    <3> HIDE DEF e
    <3> QED BY <1>8, <3>1, <3>2
  <2> QED BY <1>11, <2>1, <2>2
<1>13. val'[k] = v /\ \A l \in Keys : l # k => val'[l] = val[l]
  <2>1. val \in [Keys -> Nat]
    BY DEF IInv, TypeOK
  <2> HIDE DEF v, k
  <2> QED BY <1>3, <2>1
<1>14. Written(s)'
  <2> SUFFICES ASSUME NEW l \in Keys, lock[l] = s
               PROVE  /\ (\A i \in 1 .. (cur[s] + 1) : ~Writes(s, i, l)) => val'[l] = before[l]
                      /\ \A i \in 1 .. (cur[s] + 1) :
                            Writes(s, i, l) /\ (\A j \in 1 .. (cur[s] + 1) : Writes(s, j, l) => j = i) =>
                                val'[l] = IF queue[s][i].cmd = "INCR" THEN before[l] + 1 ELSE 0
    BY <1>6, <1>7 DEF Written
  <2>1. \A i \in 1 .. cur[s] : i \in 1 .. (cur[s] + 1) /\ i # n
    BY <1>2
  <2>2. n \in 1 .. (cur[s] + 1)
    BY <1>2
  <2>3. /\ (\A i \in 1 .. cur[s] : ~Writes(s, i, l)) => val[l] = before[l]
        /\ \A i \in 1 .. cur[s] :
              Writes(s, i, l) /\ (\A j \in 1 .. cur[s] : Writes(s, j, l) => j = i) =>
                  val[l] = IF queue[s][i].cmd = "INCR" THEN before[l] + 1 ELSE 0
    BY <1>5 DEF Written
  <2>4. Writes(s, n, l) <=> l = k /\ c # "GET"
    BY <1>3 DEF Writes, KeyCmds
  <2>5. v = IF c = "GET" THEN val[k] ELSE IF c = "INCR" THEN val[k] + 1 ELSE 0
    BY <1>3 DEF KeyCmds
  <2> HIDE DEF n, v, k
  <2>6. CASE l # k \/ c = "GET"
    <3>1. val'[l] = val[l] /\ ~Writes(s, n, l)
      BY <1>13, <2>4, <2>5, <2>6
    <3> QED BY <1>11, <2>1, <2>3, <3>1
  <2>7. CASE l = k /\ c # "GET"
    <3>1. Writes(s, n, l)
      BY <2>4, <2>7
    <3>2. ASSUME \A j \in 1 .. (cur[s] + 1) : Writes(s, j, l) => j = n
          PROVE  val'[l] = IF queue[s][n].cmd = "INCR" THEN before[l] + 1 ELSE 0
      <4>1. val[l] = before[l]
        BY <2>1, <2>3, <3>2
      <4> QED BY <1>13, <2>5, <2>7, <4>1
    <3>3. \A i \in 1 .. (cur[s] + 1) :
            Writes(s, i, l) /\ (\A j \in 1 .. (cur[s] + 1) : Writes(s, j, l) => j = i) => i = n
      BY <2>2, <3>1
    <3> QED BY <2>2, <3>1, <3>2, <3>3
  <2> QED BY <2>6, <2>7
<1>15. Replayed(s)'
  <2>1. ASSUME NEW d \in [Keys -> Nat], \A l \in Keys : lock[l] = s => d[l] = val[l]
        PROVE  /\ result'[s] = Append(result[s], Atomic!Answer(d, m))
               /\ Atomic!Apply(d, m) = [l \in Keys |-> IF lock[l] = s THEN val'[l] ELSE d[l]]
    <3>1. d[k] = val[k]
      BY <1>3, <2>1
    <3>2. /\ result'[s] = Append(result[s], Atomic!Answer(d, m))
          /\ Atomic!Apply(d, m) = [d EXCEPT ![k] = v]
      BY <1>3, <3>1
    <3> HIDE DEF v, k
    <3>3. [d EXCEPT ![k] = v] = [l \in Keys |-> IF lock[l] = s THEN val'[l] ELSE d[l]]
      BY <1>3, <1>13, <2>1
    <3> QED BY <3>2, <3>3
  <2> HIDE DEF n, v
  <2> QED BY <1>1, <1>5, <1>6, <1>7, <2>1, ReplayOn DEF m, n
<1> QED BY <1>1, <1>7, <1>9, <1>10, <1>12, <1>14, <1>15 DEF Undisturbed

\* Every step keeps what is known of the transactions that are under way.
LEMMA RInvStep ==
    ASSUME IInv, IInv', TtlKeys = {}, OnceWritten, RInv, [Next]_vars
    PROVE  RInv'
<1>0. Fresh /\ \A t \in Sessions : Undisturbed(t)
  BY DEF RInv
<1>1. ASSUME NEW s \in Sessions, ClientStep(s) PROVE Fresh'
  <2>1. expired \in [Keys -> BOOLEAN]
    BY DEF IInv, TypeOK
  <2> QED BY <1>0, <1>1, <2>1 DEF Fresh, ClientStep, Plain, WatchKey, Multi, Queue, QueueBad,
            QueueFailed, Discard, Exec, Update, NoUpdate, store
<1>2. ASSUME NEW s \in Sessions, ExecStep(s) PROVE Fresh'
  <2>1. CASE RunKey(s)
    BY <1>0, <2>1, RunKeyEffect
  <2>2. CASE UNCHANGED expired
    BY <1>0, <2>2 DEF Fresh
  <2> QED BY <1>2, <2>1, <2>2 DEF ExecStep, Acquire, PassDup, Busy, AllLocked, ReleaseEntry, Retry,
            CheckWatches, RunNoKey, Commit, Finish, store
<1>3. ASSUME NEW s \in Sessions, ClientStep(s) \/ ExecStep(s), NEW t \in Sessions
      PROVE  Undisturbed(t)'
  <2>1. CASE t # s
    BY <1>0, <1>3, <2>1, OthersUndisturbed
  <2>2. CASE t = s
    BY <1>0, <1>3, <2>2, ClientUndisturbed, RestartUndisturbed, AcquireUndisturbed, PassDupUndisturbed,
       WaitUndisturbed, ReleaseUndisturbed, CheckUndisturbed, CommitUndisturbed, RunNoKeyUndisturbed,
       RunKeyUndisturbed DEF ExecStep
  <2> QED BY <2>1, <2>2
<1>4. CASE UNCHANGED vars
  <2>1. \A t \in Sessions : SameSession(t)
    BY <1>4 DEF SameSession, vars, store, session, engine, history
  <2>2. Fresh'
    BY <1>0, <1>4 DEF Fresh, vars, store
  <2> QED BY <1>0, <2>1, <2>2, UndisturbedKept DEF RInv
<1>5. ~\E k \in Keys : StampPasses(k)
  BY DEF StampPasses
<1> QED BY <1>1, <1>2, <1>3, <1>4, <1>5 DEF Next, RInv

-----------------------------------------------------------------------------
(* The steps of AtomicExec *)

\* the answers that a client has
Answers == [s \in Sessions |-> IF outcome[s] = "commit" THEN result[s] ELSE <<>>]

\* Nothing shows while a session does not run its commands.
LEMMA VisibleOutside ==
    ASSUME IInv, IInv', NEW s \in Sessions, ClientStep(s) \/ ExecStep(s),
           val' = val, pc[s] # "run", pc'[s] # "run"
    PROVE  Visible' = Visible
<1> SUFFICES ASSUME NEW k \in Keys
             PROVE  (IF lock'[k] # NoSession /\ pc'[lock'[k]] = "run" THEN before'[k] ELSE val[k])
                      = (IF lock[k] # NoSession /\ pc[lock[k]] = "run" THEN before[k] ELSE val[k])
  BY DEF Visible
<1>1. lock[k] \in Sessions \cup {NoSession} /\ lock'[k] \in Sessions \cup {NoSession}
  BY DEF IInv, TypeOK
<1>2. ASSUME NEW t \in Sessions, t # s
      PROVE  /\ lock'[k] = t <=> lock[k] = t
             /\ lock[k] = t => before'[k] = before[k]
             /\ pc'[t] = pc[t]
  BY <1>2, OthersStore, OthersKept DEF IInv
<1>3. CASE lock[k] \in {s, NoSession}
  <2>1. lock'[k] \in {s, NoSession}
    BY <1>1, <1>2, <1>3
  <2> QED BY <1>3, <2>1
<1>4. CASE lock[k] \notin {s, NoSession}
  <2>1. lock'[k] = lock[k] /\ before'[k] = before[k] /\ pc'[lock[k]] = pc[lock[k]]
    BY <1>1, <1>2, <1>4
  <2> QED BY <2>1
<1> QED BY <1>3, <1>4

\* What a transaction does to its keys does not show while it runs.
LEMMA VisibleInside ==
    ASSUME IInv, IInv', NEW s \in Sessions, UNCHANGED <<lock, before>>,
           \A t \in Sessions : t # s => pc'[t] = pc[t],
           \A k \in Keys : lock[k] # s => val'[k] = val[k],
           pc'[s] = "run", pc[s] = "run" \/ Held(s)
    PROVE  Visible' = Visible
<1> SUFFICES ASSUME NEW k \in Keys
             PROVE  (IF lock[k] # NoSession /\ pc'[lock[k]] = "run" THEN before[k] ELSE val'[k])
                      = (IF lock[k] # NoSession /\ pc[lock[k]] = "run" THEN before[k] ELSE val[k])
  BY DEF Visible
<1>1. lock[k] \in Sessions \cup {NoSession} /\ s # NoSession
  BY ConstantsAssumption DEF IInv, TypeOK
<1>2. CASE lock[k] = s
  BY <1>1, <1>2 DEF Held
<1>3. CASE lock[k] # s
  BY <1>1, <1>3
<1> QED BY <1>2, <1>3

\* The answers change when a transaction commits or is over.
LEMMA AnswersKept ==
    ASSUME IInv, NEW s \in Sessions, ClientStep(s) \/ ExecStep(s),
           outcome[s] # "commit", outcome'[s] # "commit"
    PROVE  Answers' = Answers
<1> SUFFICES ASSUME NEW t \in Sessions
             PROVE  (IF outcome'[t] = "commit" THEN result'[t] ELSE <<>>)
                      = (IF outcome[t] = "commit" THEN result[t] ELSE <<>>)
  BY DEF Answers
<1> QED BY OthersResults

\* A plain command is one of the abstract system.
LEMMA PlainSingle ==
    ASSUME IInv, IInv', Fresh, NEW s \in Sessions, NEW c \in PlainCmds, NEW k \in Keys, Plain(s, c, k)
    PROVE  LET m == [cmd |-> c, key |-> k]
           IN  Visible' = Atomic!Apply(Visible, m) /\ UNCHANGED <<queue, Answers>>
<1> DEFINE m  == [cmd |-> c, key |-> k]
           st == IF val[k] # 0 /\ ~expired[k] THEN "OK" ELSE Absent(c)
           u  == IF st = "OK" THEN val[k] ELSE 0
<1>1. /\ lock[k] = NoSession /\ ~expired[k]
      /\ IF expired[k] \/ Touches(c, st)
         THEN Update(s, k, NewValue(c, st, u), FALSE)
         ELSE NoUpdate
      /\ UNCHANGED <<lock, session, engine, badqueue, before>>
  BY DEF Plain, Fresh
<1>2. c \in KeyCmds /\ val \in [Keys -> Nat] /\ before \in [Keys -> Nat] /\ val[k] \in Nat
  BY ConstantsAssumption DEF IInv, TypeOK
<1>3. st \in {"OK", "IS_NEW", "NOT_FOUND"} /\ (st = "OK" <=> val[k] # 0) /\ u = val[k]
  BY <1>1, <1>2 DEF Absent, Fresh
<1>4. Visible \in [Keys -> Nat] /\ Visible[k] = val[k]
  BY <1>1, <1>2 DEF Visible
<1> HIDE DEF st, u
<1>5. /\ Atomic!Apply(Visible, m) = [Visible EXCEPT ![k] = NewValue(c, st, val[k])]
      /\ ~Touches(c, st) => NewValue(c, st, val[k]) = val[k]
  <2>1. m.cmd = c /\ m.key = k
    OBVIOUS
  <2> HIDE DEF m
  <2> QED BY <1>2, <1>3, <1>4, <2>1, CommandEffect
<1>6. val' = [val EXCEPT ![k] = NewValue(c, st, val[k])]
  <2>1. CASE Touches(c, st)
    BY <1>1, <1>3, <2>1 DEF Update
  <2>2. CASE ~Touches(c, st)
    BY <1>1, <1>2, <1>5, <2>2 DEF NoUpdate
  <2> QED BY <2>1, <2>2
<1>7. Visible' = [Visible EXCEPT ![k] = NewValue(c, st, val[k])]
  <2> DEFINE v == NewValue(c, st, val[k])
  <2> HIDE DEF v
  <2>1. val' = [val EXCEPT ![k] = v]
    BY <1>6 DEF v
  <2>2. UNCHANGED <<lock, pc, before>>
    BY <1>1 DEF engine
  <2>3. Visible' = [Visible EXCEPT ![k] = v]
    BY <1>1, <1>2, <2>1, <2>2 DEF Visible
  <2> QED BY <2>3 DEF v
<1>8. UNCHANGED <<queue, Answers>>
  BY <1>1 DEF Answers, session, engine
<1> QED BY <1>5, <1>7, <1>8

\* The whole transaction shows at once.
LEMMA CommitIsCommitAll ==
    ASSUME IInv, IInv', NEW s \in Sessions, Commit(s), Undisturbed(s)
    PROVE  /\ Answers[s] = <<>>
           /\ Visible' = Atomic!After(Visible, queue[s]).data
           /\ Answers' = [Answers EXCEPT ![s] = Atomic!After(Visible, queue[s]).answer]
           /\ UNCHANGED queue
<1>1. /\ pc[s] = "run" /\ cur[s] = MsgCount(s)
      /\ pc' = [pc EXCEPT ![s] = "unlock"] /\ outcome' = [outcome EXCEPT ![s] = "commit"]
      /\ UNCHANGED <<store, session, pos, cur, ectx, result, history>>
  BY DEF Commit
<1>2. Replayed(s) /\ outcome[s] = "none"
  BY <1>1 DEF Undisturbed, Stage
<1>3. /\ val \in [Keys -> Nat] /\ before \in [Keys -> Nat] /\ s # NoSession
      /\ lock \in [Keys -> Sessions \cup {NoSession}] /\ queue[s] \in Seq(Msg)
      /\ pc \in [Sessions -> {"idle", "lock", "backoff", "check", "run", "unlock"}]
      /\ outcome \in [Sessions -> {"none", "commit", "null"}]
  BY ConstantsAssumption DEF IInv, TypeOK
<1>4. Visible \in [Keys -> Nat] /\ \A k \in Keys : lock[k] = s => Visible[k] = before[k]
  BY <1>1, <1>3 DEF Visible
<1>5. /\ Steps(Visible, queue[s])[cur[s]].answer = result[s]
      /\ Steps(Visible, queue[s])[cur[s]].data
             = [k \in Keys |-> IF lock[k] = s THEN val[k] ELSE Visible[k]]
  BY <1>2, <1>4 DEF Replayed
<1>6. Atomic!After(Visible, queue[s]) = Steps(Visible, queue[s])[cur[s]]
  <2>1. queue[s] \in Seq(Msg)
    BY <1>3
  <2>2. Atomic!After(Visible, queue[s]) = Steps(Visible, queue[s])[Len(queue[s])]
    BY ONLY <2>1, AfterSteps
  <2> QED BY <1>1, <2>2 DEF MsgCount
<1>7. UNCHANGED <<val, lock, before, queue, result>>
  BY <1>1 DEF store, session, history
<1>8. Visible' = [k \in Keys |-> IF lock[k] = s THEN val[k] ELSE Visible[k]]
  BY <1>1, <1>3, <1>7 DEF Visible
<1>9. Answers' = [Answers EXCEPT ![s] = result[s]]
  BY <1>1, <1>3, <1>7 DEF Answers
<1>10. Answers[s] = <<>>
  BY <1>2 DEF Answers
<1> QED BY <1>5, <1>6, <1>7, <1>8, <1>9, <1>10

\* the steps of the abstract system, on what shows
ShowsSingle(m)     == Visible' = Atomic!Apply(Visible, m) /\ UNCHANGED <<queue, Answers>>
ShowsEnqueue(s, m) == queue' = [queue EXCEPT ![s] = Append(@, m)] /\ UNCHANGED <<Visible, Answers>>
ShowsCommit(s)     == /\ Answers[s] = <<>>
                      /\ Visible' = Atomic!After(Visible, queue[s]).data
                      /\ Answers' = [Answers EXCEPT ![s] = Atomic!After(Visible, queue[s]).answer]
                      /\ UNCHANGED queue
ShowsDrop(s)       == /\ queue' = [queue EXCEPT ![s] = <<>>]
                      /\ Answers' = [Answers EXCEPT ![s] = <<>>]
                      /\ UNCHANGED Visible

\* What shows of a step that does one of these is a step of the abstract system.
LEMMA Shows ==
    ASSUME \/ \E m \in Msg : ShowsSingle(m)
           \/ \E s \in Sessions : \/ \E m \in Msg : ShowsEnqueue(s, m)
                                  \/ ShowsCommit(s)
                                  \/ ShowsDrop(s)
    PROVE  Atomic!Next
<1>1. ASSUME NEW m \in Msg, ShowsSingle(m) PROVE Atomic!Single(m)
  BY <1>1, Zenon DEF ShowsSingle, Atomic!Single, Answers
<1>2. ASSUME NEW s \in Sessions, NEW m \in Msg, ShowsEnqueue(s, m) PROVE Atomic!Enqueue(s, m)
  BY <1>2, Zenon DEF ShowsEnqueue, Atomic!Enqueue, Answers
<1>3. ASSUME NEW s \in Sessions, ShowsCommit(s) PROVE Atomic!CommitAll(s)
  BY <1>3, Zenon DEF ShowsCommit, Atomic!CommitAll, Answers
<1>4. ASSUME NEW s \in Sessions, ShowsDrop(s) PROVE Atomic!Drop(s)
  BY <1>4, Zenon DEF ShowsDrop, Atomic!Drop, Answers
<1> QED BY <1>1, <1>2, <1>3, <1>4, Zenon DEF Atomic!Next, Msg

\* Every step is one of the abstract system, or none.
LEMMA AtomicStep ==
    ASSUME IInv, IInv', RInv, [Next]_vars
    PROVE  [Atomic!Next]_<<Visible, queue, Answers>>
<1>0. Fresh /\ \A t \in Sessions : Undisturbed(t)
  BY DEF RInv
<1>1. CASE UNCHANGED vars
  BY <1>1 DEF vars, store, session, engine, history, Visible, Answers
<1>2. CASE \E k \in Keys : StampPasses(k)
  BY <1>2 DEF StampPasses, store, session, engine, history, Visible, Answers
<1>3. ASSUME NEW s \in Sessions, ClientStep(s)
      PROVE  [Atomic!Next]_<<Visible, queue, Answers>>
  <2>1. ASSUME NEW c \in PlainCmds, NEW k \in Keys, Plain(s, c, k)
        PROVE  \E m \in [cmd : KeyCmds, key : Keys] :
                   Visible' = Atomic!Apply(Visible, m) /\ UNCHANGED <<queue, Answers>>
    <3>1. [cmd |-> c, key |-> k] \in [cmd : KeyCmds, key : Keys]
      BY ConstantsAssumption
    <3>2. /\ Visible' = Atomic!Apply(Visible, [cmd |-> c, key |-> k])
          /\ UNCHANGED <<queue, Answers>>
      BY <1>0, <2>1, PlainSingle
    <3> QED BY <3>1, <3>2
  <2>2. pc[s] = "idle" /\ outcome[s] = "none"
    BY <1>0, <1>3 DEF ClientStep, Plain, WatchKey, Multi, Queue, QueueBad, QueueFailed, Discard, Exec, Request,
                      Undisturbed, Stage
  <2>3. pc'[s] \in {"idle", "lock"} /\ outcome' = outcome
    BY <1>3, <2>2 DEF ClientStep, Plain, WatchKey, Multi, Queue, QueueBad, QueueFailed, Discard, Exec, engine,
                      IInv, TypeOK
  <2>4. Answers' = Answers
    BY <1>3, <2>2, <2>3, AnswersKept
  <2>5. ASSUME val' = val PROVE Visible' = Visible
    BY <1>3, <2>2, <2>3, <2>5, VisibleOutside
  <2>6. ASSUME NEW k \in Keys, WatchKey(s, k) PROVE UNCHANGED <<Visible, queue, Answers>>
    <3>1. val' = val /\ queue' = queue
      BY <1>0, <2>6 DEF WatchKey, Fresh, NoUpdate
    <3> QED BY <2>4, <2>5, <3>1
  <2>7. CASE Multi(s) \/ QueueBad(s) \/ Exec(s)
    <3>1. val' = val /\ queue' = queue
      BY <2>7 DEF Multi, QueueBad, Exec, store, session
    <3> QED BY <2>4, <2>5, <3>1
  <2>8. ASSUME NEW m \in Msg, queue' = [queue EXCEPT ![s] = Append(@, m)], val' = val
        PROVE  Atomic!Next
    BY <2>4, <2>5, <2>8, Shows DEF ShowsEnqueue
  <2>9. CASE \E m \in Messages : Queue(s, m)
    BY <2>8, <2>9 DEF Queue, Messages, store
  <2>10. CASE QueueFailed(s)
    <3>1. [cmd |-> "BADARG", key |-> NoKey] \in Msg
      BY DEF Msg, NoKeyCmds
    <3> QED BY <2>8, <2>10, <3>1 DEF QueueFailed, store
  <2>11. CASE Discard(s)
    <3>1. queue' = [queue EXCEPT ![s] = <<>>] /\ val' = val
      BY <2>11 DEF Discard, DropMulti, store
    <3>2. Answers' = [Answers EXCEPT ![s] = <<>>]
      BY <2>2, <2>4 DEF Answers
    <3> QED BY <2>5, <3>1, <3>2, Shows DEF ShowsDrop
  <2>12. CASE \E k \in Keys : \E c \in PlainCmds : Plain(s, c, k)
    <3>1. \E m \in [cmd : KeyCmds, key : Keys] :
              Visible' = Atomic!Apply(Visible, m) /\ UNCHANGED <<queue, Answers>>
      BY <2>1, <2>12
    <3> QED BY <3>1, Shows DEF ShowsSingle, Msg
  <2> QED BY <1>3, <2>6, <2>7, <2>9, <2>10, <2>11, <2>12 DEF ClientStep
<1>4. ASSUME NEW s \in Sessions, ExecStep(s)
      PROVE  [Atomic!Next]_<<Visible, queue, Answers>>
  <2>0. Undisturbed(s) /\ pc \in [Sessions -> {"idle", "lock", "backoff", "check", "run", "unlock"}]
    BY <1>0 DEF IInv, TypeOK
  <2>1. CASE Acquire(s) \/ PassDup(s) \/ Busy(s) \/ AllLocked(s) \/ ReleaseEntry(s) \/ Retry(s)
    <3>1. /\ pc[s] # "run" /\ pc'[s] # "run" /\ val' = val /\ queue' = queue
          /\ UNCHANGED <<outcome, result>>
      BY <2>0, <2>1 DEF Acquire, PassDup, Busy, AllLocked, ReleaseEntry, Retry, store, session
    <3>2. Visible' = Visible
      BY <1>4, <3>1, VisibleOutside
    <3> QED BY <3>1, <3>2 DEF Answers
  <2>2. CASE CheckWatches(s)
    <3>1. /\ pc[s] = "check" /\ UNCHANGED <<store, session, history>>
          /\ \/ pc' = [pc EXCEPT ![s] = "run"] /\ outcome' = outcome
             \/ pc' = [pc EXCEPT ![s] = "unlock"] /\ outcome'[s] = "null"
      BY <2>2 DEF CheckWatches, IInv, TypeOK
    <3>2. Held(s) /\ outcome[s] = "none"
      BY <2>0, <3>1 DEF Undisturbed, Stage
    <3>3. Answers' = Answers
      BY <1>4, <3>1, <3>2, AnswersKept
    <3>4. CASE pc' = [pc EXCEPT ![s] = "run"]
      <4>1. /\ UNCHANGED <<lock, before, val, queue>> /\ pc'[s] = "run"
            /\ \A t \in Sessions : t # s => pc'[t] = pc[t]
        BY <2>0, <3>1, <3>4 DEF store, session, history
      <4> QED BY <3>2, <3>3, <4>1, VisibleInside
    <3>5. CASE pc' = [pc EXCEPT ![s] = "unlock"]
      <4>1. UNCHANGED <<val, queue>> /\ pc'[s] # "run" /\ pc[s] # "run"
        BY <2>0, <3>1, <3>5 DEF store, session
      <4> QED BY <1>4, <3>3, <4>1, VisibleOutside
    <3> QED BY <3>1, <3>4, <3>5
  <2>3. CASE RunKey(s) \/ RunNoKey(s)
    <3>1. /\ pc[s] = "run" /\ pc'[s] = "run" /\ \A t \in Sessions : t # s => pc'[t] = pc[t]
          /\ UNCHANGED <<lock, before, queue, outcome>>
      BY <2>3 DEF RunKey, RunNoKey, store, session, history
    <3>2. outcome[s] = "none"
      BY <2>0, <3>1 DEF Undisturbed, Stage
    <3>3. Answers' = Answers
      BY <1>4, <3>1, <3>2, AnswersKept
    <3>4. \A k \in Keys : lock[k] # s => val'[k] = val[k]
      <4>1. CASE RunNoKey(s)
        BY <4>1 DEF RunNoKey, store
      <4>2. CASE RunKey(s)
        <5>1. val \in [Keys -> Nat] /\ s # NoSession
          BY ConstantsAssumption DEF IInv, TypeOK
        <5>2. \/ val' = val
              \/ \E k \in Keys : \E v, e : Update(s, k, v, e) /\ lock[k] = s
          BY <1>4, <3>1, StoreStep
        <5> QED BY <5>1, <5>2 DEF Update
      <4> QED BY <2>3, <4>1, <4>2
    <3> QED BY <3>1, <3>3, <3>4, VisibleInside
  <2>4. CASE Commit(s)
    BY <2>0, <2>4, CommitIsCommitAll, Shows DEF ShowsCommit
  <2>5. CASE Finish(s)
    <3>1. /\ pc[s] # "run" /\ pc'[s] # "run" /\ val' = val /\ queue' = [queue EXCEPT ![s] = <<>>]
          /\ outcome' = [outcome EXCEPT ![s] = "none"] /\ result' = [result EXCEPT ![s] = <<>>]
      BY <2>0, <2>5 DEF Finish, DropMulti, store
    <3>2. Visible' = Visible
      BY <1>4, <3>1, VisibleOutside
    <3>3. Answers' = [Answers EXCEPT ![s] = <<>>]
      BY <3>1 DEF Answers, IInv, TypeOK
    <3> QED BY <3>1, <3>2, <3>3, Shows DEF ShowsDrop
  <2> QED BY <1>4, <2>1, <2>2, <2>3, <2>4, <2>5 DEF ExecStep
<1> QED BY <1>1, <1>2, <1>3, <1>4 DEF Next

\* At first nothing is under way, and no data shows.
LEMMA AtomicInit == Init => RInv /\ Atomic!Init
<1> SUFFICES ASSUME Init PROVE RInv /\ Atomic!Init
  OBVIOUS
<1>1. Atomic!Init
  BY DEF Init, Atomic!Init, Visible
<1>2. ASSUME NEW s \in Sessions PROVE Undisturbed(s)
  BY ConstantsAssumption DEF Init, Undisturbed, Stage, Held
<1> QED BY <1>1, <1>2 DEF Init, RInv, Fresh

\* EXEC is atomic: for any sessions, keys and queues, its commands take effect
\* in one step, on the data of one moment, with the answers of running them one
\* after another.  It is assumed that keys do not expire and that no command
\* follows two writes of its key in a transaction; multi_key_fetch looks at
\* the last write only, and with two of them the code does break the property.
THEOREM AtomicCorrect ==
    ASSUME TtlKeys = {}
    PROVE  Spec /\ []OnceWritten => AtomicTransactions
<1>1. Init => RInv /\ Atomic!Init
  BY AtomicInit
<1>2. IInv /\ IInv' /\ OnceWritten /\ RInv /\ [Next]_vars => RInv'
  BY RInvStep
<1>3. IInv /\ IInv' /\ RInv /\ [Next]_vars => [Atomic!Next]_<<Visible, queue, Answers>>
  BY AtomicStep
<1>4. Spec => []IInv
  BY IInvInductive
<1>5. AtomicTransactions <=> Atomic!Init /\ [][Atomic!Next]_<<Visible, queue, Answers>>
  BY DEF AtomicTransactions, Atomic!Spec, Atomic!avars, Answers
<1> QED BY <1>1, <1>2, <1>3, <1>4, <1>5, PTL DEF Spec
=============================================================================
