-------------------------- MODULE RedisTransaction --------------------------
(***************************************************************************)
(* Transactions of Rai DS: WATCH, UNWATCH, MULTI, queueing, DISCARD, EXEC, *)
(* run by several sessions on the shared key/value store.  Every session   *)
(* is a RedisExec whose commands run to completion on its thread; the      *)
(* threads and processes of the server only meet in the locks and values   *)
(* of the keys.  A step of this module is what one thread does between two *)
(* of its accesses to a key lock.                                          *)
(*                                                                         *)
(* EXEC locks every watched and queued key in the order of the message     *)
(* list (multi_try_lock), backs off when one is busy, checks the watches,  *)
(* runs the commands with every lock held, and releases (discard_multi).   *)
(* A key that occurs twice in the list is locked by its first occurrence,  *)
(* its primary; the others are duplicates that derive their key status     *)
(* from the writes before them (multi_key_fetch, get_dup_key).             *)
(***************************************************************************)
EXTENDS Naturals, Sequences

CONSTANTS
    Sessions,      \* connections, each a RedisExec
    Keys,          \* keys of the store
    NoSession,     \* the owner of a free key lock
    NoKey,         \* the key of a message without keys
    TtlKeys,       \* keys that carry an expire stamp while they exist
    PlainCmds,     \* commands sent outside of a transaction
    QueueCmds,     \* commands queued inside of a transaction
    MaxWatch,      \* bound on the watch list of a session
    MaxQueue,      \* bound on the messages a session queues
    MaxSerial      \* no command starts on a store with a serial beyond this

KeyCmds   == {"GET", "INCR", "DEL"}
ReadCmds  == {"GET"}                 \* commands with CMD_READ_FLAG
NoKeyCmds == {"PING", "BADARG"}      \* BADARG: see QueueFailed

ASSUME ConstantsAssumption ==
    /\ NoSession \notin Sessions
    /\ NoKey \notin Keys
    /\ TtlKeys \subseteq Keys
    /\ PlainCmds \subseteq KeyCmds
    /\ QueueCmds \subseteq KeyCmds \cup NoKeyCmds
    /\ MaxWatch \in Nat
    /\ MaxQueue \in Nat
    /\ MaxSerial \in Nat

VARIABLES
    \* the shared store
    val,      \* the integer a key holds, 0 when the key has no entry
    serial,   \* changes with every update of the key
    expired,  \* the expire stamp of the entry has passed
    lock,     \* the session that has acquired the key
    \* RedisMultiExec of a session
    multi,    \* this->multi != NULL
    start,    \* multi_start: MULTI was received
    abort,    \* multi_abort: a queued command was in error
    watch,    \* watch_list, and the keys of watch_msg once MULTI is received
    queue,    \* msg_list after watch_msg
    \* progress of exec_exec
    pc,       \* idle, lock, backoff, check, run, unlock
    pos,      \* entries of the list passed by multi_try_lock (mm_lock, mm->n)
    cur,      \* messages executed (mm_iter)
    ectx,     \* the EvKeyCtx of every entry passed
    result,   \* replies of the messages executed
    outcome,  \* status of exec_exec: none, commit, null
    \* bookkeeping of the model
    dirty,    \* watch list positions whose key was updated since (history)
    badqueue, \* a command of the open MULTI was answered by an error (history)
    before    \* the value of a locked key when it was locked (history)

store   == <<val, serial, expired, lock>>
session == <<multi, start, abort, watch, queue>>
engine  == <<pc, pos, cur, ectx, result, outcome>>
history == <<dirty, badqueue, before>>
vars    == <<store, session, engine, history>>

-----------------------------------------------------------------------------
(* Types *)

Watch == [key : Keys, serial : Nat]
Msg   == [cmd : KeyCmds, key : Keys] \cup [cmd : NoKeyCmds, key : {NoKey}]

\* kstatus and the flags EKF_IS_READ_ONLY, EKF_IS_NEW, EKF_KEYSPACE_DEL and
\* EKF_IS_EXPIRED of an EvKeyCtx
Ctx   == [kstatus : {"OK", "IS_NEW", "NOT_FOUND"},
          ro : BOOLEAN, isnew : BOOLEAN, del : BOOLEAN, exp : BOOLEAN]

NewCtx(status) == [kstatus |-> status, ro |-> TRUE, isnew |-> FALSE,
                   del |-> FALSE, exp |-> FALSE]

\* replies: an integer or the bulk string of one, nil, PONG, an error
Replies == [type : {"int", "nil", "pong", "err"}, n : Nat]

Number(n)   == [type |-> "int", n |-> n]
Special(t) == [type |-> t, n |-> 0]

-----------------------------------------------------------------------------
(* The key list of a transaction: the watched keys, then the queued ones *)

WatchCount(s) == Len(watch[s])
MsgCount(s)   == Len(queue[s])

EntryCount(s) == IF start[s] THEN WatchCount(s) + MsgCount(s) ELSE 0

EntryKey(s, i) == IF i <= WatchCount(s) THEN watch[s][i].key
                                        ELSE queue[s][i - WatchCount(s)].key

\* kptr[i] == &karr[i]: no earlier entry has this key
Primary(s, i) == /\ EntryKey(s, i) # NoKey
                 /\ \A j \in 1 .. (i - 1) : EntryKey(s, j) # EntryKey(s, i)

\* get_dup_key( ctx, true ): j is the last entry before e that wrote the key of
\* e (or found it expired).  Without one the key is e itself, which has not run
\* yet and has none of the flags that are asked for.
LastWrite(s, e, j) ==
    LET wrote(i) == /\ EntryKey(s, i) = EntryKey(s, e)
                    /\ ~ectx[s][i].ro \/ ectx[s][i].exp
    IN  /\ wrote(j)
        /\ \A i \in (j + 1) .. (e - 1) : ~wrote(i)

-----------------------------------------------------------------------------
Init ==
    /\ val      = [k \in Keys |-> 0]
    /\ serial   = [k \in Keys |-> 0]
    /\ expired  = [k \in Keys |-> FALSE]
    /\ lock     = [k \in Keys |-> NoSession]
    /\ multi    = [s \in Sessions |-> FALSE]
    /\ start    = [s \in Sessions |-> FALSE]
    /\ abort    = [s \in Sessions |-> FALSE]
    /\ watch    = [s \in Sessions |-> <<>>]
    /\ queue    = [s \in Sessions |-> <<>>]
    /\ pc       = [s \in Sessions |-> "idle"]
    /\ pos      = [s \in Sessions |-> 0]
    /\ cur      = [s \in Sessions |-> 0]
    /\ ectx     = [s \in Sessions |-> <<>>]
    /\ result   = [s \in Sessions |-> <<>>]
    /\ outcome  = [s \in Sessions |-> "none"]
    /\ dirty    = [s \in Sessions |-> {}]
    /\ badqueue = [s \in Sessions |-> FALSE]
    /\ before   = [k \in Keys |-> 0]

-----------------------------------------------------------------------------
(* The store, as the code uses it *)

\* The entry of k is written, deleted or expired, by session s or by its
\* transaction.  The serial moves on, and every watch of k but those of the
\* transaction that writes has seen k change.
Update(s, k, v, e) ==
    /\ val'     = [val EXCEPT ![k] = v]
    /\ serial'  = [serial EXCEPT ![k] = @ + 1]
    /\ expired' = [expired EXCEPT ![k] = e]
    /\ dirty'   = [t \in Sessions |->
                     IF t = s /\ pc[t] = "run" THEN dirty[t]
                     ELSE dirty[t] \cup {i \in 1 .. WatchCount(t) :
                                           watch[t][i].key = k}]

NoUpdate == UNCHANGED <<val, serial, expired, dirty>>

\* The expire stamp of an entry passes; nothing happens to the entry until a
\* command fetches it.
StampPasses(k) ==
    /\ k \in TtlKeys
    /\ val[k] # 0
    /\ ~expired[k]
    /\ expired' = [expired EXCEPT ![k] = TRUE]
    /\ UNCHANGED <<val, serial, lock, session, engine, history>>

\* exec_get, do_add and exec_del on a key of status st that holds u: whether
\* the entry is touched, the value left behind, and the reply
Touches(c, st)     == c = "INCR" \/ (c = "DEL" /\ st = "OK")

NewValue(c, st, u) == CASE c = "GET"  -> u
                        [] c = "INCR" -> IF st = "OK" THEN u + 1 ELSE 1
                        [] c = "DEL"  -> IF st = "OK" THEN 0 ELSE u

Reply(c, st, u)    == CASE c = "GET"  -> IF st = "OK" THEN Number(u) ELSE Special("nil")
                        [] c = "INCR" -> Number(NewValue(c, st, u))
                        [] c = "DEL"  -> Number(IF st = "OK" THEN 1 ELSE 0)

\* get_key_read and get_key_write: an entry without a type is as good as none.
\* exec_del fetches without them.
TypeChecked(c, st, u) == CASE c = "DEL" \/ st # "OK" \/ u # 0 -> st
                           [] c = "GET"  /\ st = "OK" /\ u = 0 -> "NOT_FOUND"
                           [] c = "INCR" /\ st = "OK" /\ u = 0 -> "IS_NEW"

Absent(c) == IF c \in ReadCmds THEN "NOT_FOUND" ELSE "IS_NEW"

-----------------------------------------------------------------------------
(* Requests outside of EXEC.  A request is one step: its thread runs it    *)
(* whole and touches at most one key.                                      *)

\* the thread of s takes the next request
Request(s) == pc[s] = "idle"

SerialsBelowBound == \A k \in Keys : serial[k] < MaxSerial

\* mutant: a command does not wait for a key that is locked
PlainOnLocked(s, c, k) ==
    LET st == IF val[k] # 0 /\ ~expired[k] THEN "OK" ELSE Absent(c)
        u  == IF st = "OK" THEN val[k] ELSE 0
    IN  /\ Request(s)
        /\ ~start[s]
        /\ SerialsBelowBound
        /\ IF expired[k] \/ Touches(c, st)
           THEN Update(s, k, NewValue(c, st, u), FALSE)
           ELSE NoUpdate
        /\ UNCHANGED <<lock, session, engine, badqueue, before>>

\* exec_key_fetch and exec_key_continue of a command that is not queued.  An
\* expired entry is removed by the fetch.
Plain(s, c, k) ==
    LET st == IF val[k] # 0 /\ ~expired[k] THEN "OK" ELSE Absent(c)
        u  == IF st = "OK" THEN val[k] ELSE 0
    IN  /\ Request(s)
        /\ ~start[s]
        /\ SerialsBelowBound
        /\ lock[k] = NoSession
        /\ IF expired[k] \/ Touches(c, st)
           THEN Update(s, k, NewValue(c, st, u), FALSE)
           ELSE NoUpdate
        /\ UNCHANGED <<lock, session, engine, badqueue, before>>

\* exec_watch: the serial of the key, 0 when it is not found
WatchKey(s, k) ==
    LET found == val[k] # 0 /\ ~expired[k]
    IN  /\ Request(s)
        /\ ~start[s]
        /\ WatchCount(s) < MaxWatch
        /\ SerialsBelowBound
        /\ lock[k] = NoSession
        /\ IF expired[k] THEN Update(s, k, 0, FALSE) ELSE NoUpdate
        /\ multi' = [multi EXCEPT ![s] = TRUE]
        /\ watch' = [watch EXCEPT ![s] =
                       Append(@, [key    |-> k,
                                  serial |-> IF found THEN serial[k] ELSE 0])]
        /\ UNCHANGED <<lock, start, abort, queue, engine, badqueue, before>>

\* exec_multi
Multi(s) ==
    /\ Request(s)
    /\ ~start[s]
    /\ multi' = [multi EXCEPT ![s] = TRUE]
    /\ start' = [start EXCEPT ![s] = TRUE]
    /\ UNCHANGED <<store, abort, watch, queue, engine, dirty, badqueue, before>>

\* multi_queued: the command is QUEUED.  Its keys become entries of the list.
Queue(s, m) ==
    /\ Request(s)
    /\ start[s]
    /\ MsgCount(s) < MaxQueue
    /\ m.cmd # "BADARG"
    /\ queue' = [queue EXCEPT ![s] = Append(@, m)]
    /\ UNCHANGED <<store, multi, start, abort, watch, engine, dirty, badqueue,
                   before>>

\* mutant: the command in error is queued as well
QueueBadAnyway(s) ==
    /\ Request(s)
    /\ start[s]
    /\ abort'    = [abort EXCEPT ![s] = TRUE]
    /\ badqueue' = [badqueue EXCEPT ![s] = TRUE]
    /\ queue'    = [queue EXCEPT ![s] = Append(@, [cmd |-> "UNKNOWN",
                                                   key |-> NoKey])]
    /\ UNCHANGED <<store, multi, start, watch, engine, dirty, before>>

\* exec: the command is unknown or has the wrong number of arguments
QueueBad(s) ==
    /\ Request(s)
    /\ start[s]
    /\ abort'    = [abort EXCEPT ![s] = TRUE]
    /\ badqueue' = [badqueue EXCEPT ![s] = TRUE]
    /\ UNCHANGED <<store, multi, start, watch, queue, engine, dirty, before>>

\* multi_queued returns ERR_BAD_ARGS for a key that is not a string: the error
\* is sent, the message stays in msg_list without that key
QueueFailed(s) ==
    /\ Request(s)
    /\ start[s]
    /\ MsgCount(s) < MaxQueue
    /\ "BADARG" \in QueueCmds
    /\ queue'    = [queue EXCEPT ![s] = Append(@, [cmd |-> "BADARG",
                                                   key |-> NoKey])]
    /\ badqueue' = [badqueue EXCEPT ![s] = TRUE]
    /\ UNCHANGED <<store, multi, start, abort, watch, engine, dirty, before>>

\* delete this->multi, and the state bits that go with it
DropMulti(s) ==
    /\ multi'    = [multi EXCEPT ![s] = FALSE]
    /\ start'    = [start EXCEPT ![s] = FALSE]
    /\ abort'    = [abort EXCEPT ![s] = FALSE]
    /\ watch'    = [watch EXCEPT ![s] = <<>>]
    /\ queue'    = [queue EXCEPT ![s] = <<>>]
    /\ dirty'    = [dirty EXCEPT ![s] = {}]
    /\ badqueue' = [badqueue EXCEPT ![s] = FALSE]

\* exec_discard; exec_unwatch before MULTI; exec_exec of a transaction with
\* multi_abort; release() of a closing connection: no key is locked yet
Discard(s) ==
    /\ Request(s)
    /\ multi[s]
    /\ DropMulti(s)
    /\ UNCHANGED <<store, engine, before>>

-----------------------------------------------------------------------------
(* EXEC *)

\* exec_exec starts: CMD_STATE_EXEC_MULTI
Exec(s) ==
    /\ Request(s)
    /\ multi[s]
    /\ ~abort[s]
    /\ SerialsBelowBound
    /\ pc' = [pc EXCEPT ![s] = "lock"]
    /\ UNCHANGED <<store, session, pos, cur, ectx, result, outcome, dirty,
                   badqueue, before>>

\* multi_try_lock, a primary entry: acquire() with KEYCTX_MULTI_KEY_ACQUIRE
Acquire(s) ==
    LET i == pos[s] + 1
        k == EntryKey(s, i)
    IN  /\ pc[s] = "lock"
        /\ i <= EntryCount(s)
        /\ Primary(s, i)
        /\ lock[k] = NoSession
        /\ lock'   = [lock EXCEPT ![k] = s]
        /\ before' = [before EXCEPT ![k] = val[k]]
        /\ ectx'   = [ectx EXCEPT ![s] =
                        Append(@, NewCtx(IF val[k] # 0 THEN "OK" ELSE "IS_NEW"))]
        /\ pos'    = [pos EXCEPT ![s] = i]
        /\ UNCHANGED <<val, serial, expired, session, pc, cur, result, outcome,
                       dirty, badqueue>>

\* multi_try_lock, any other entry: get_dup_key( ctx, false ) is an entry of the
\* same key, whose status is the one of the primary.  A message without keys
\* has no entry to lock.
PassDup(s) ==
    LET i == pos[s] + 1
        status == IF EntryKey(s, i) = NoKey THEN "OK"
                  ELSE ectx[s][CHOOSE j \in 1 .. pos[s] :
                                 EntryKey(s, j) = EntryKey(s, i)].kstatus
    IN  /\ pc[s] = "lock"
        /\ i <= EntryCount(s)
        /\ ~Primary(s, i)
        /\ ectx' = [ectx EXCEPT ![s] = Append(@, NewCtx(status))]
        /\ pos'  = [pos EXCEPT ![s] = i]
        /\ UNCHANGED <<store, session, pc, cur, result, outcome, history>>

\* mutant: a busy key is tried again with the earlier ones kept
BusyKeepsLocks(s) ==
    LET i == pos[s] + 1
    IN  /\ pc[s] = "lock"
        /\ i <= EntryCount(s)
        /\ Primary(s, i)
        /\ lock[EntryKey(s, i)] # NoSession
        /\ UNCHANGED vars

\* multi_try_lock returns false: KEY_BUSY
Busy(s) ==
    LET i == pos[s] + 1
    IN  /\ pc[s] = "lock"
        /\ i <= EntryCount(s)
        /\ Primary(s, i)
        /\ lock[EntryKey(s, i)] # NoSession
        /\ pc' = [pc EXCEPT ![s] = "backoff"]
        /\ UNCHANGED <<store, session, pos, cur, ectx, result, outcome, history>>

\* multi_try_lock returns true
AllLocked(s) ==
    /\ pc[s] = "lock"
    /\ pos[s] = EntryCount(s)
    /\ pc' = [pc EXCEPT ![s] = "check"]
    /\ UNCHANGED <<store, session, pos, cur, ectx, result, outcome, history>>

\* mutant: a duplicate entry releases the key of its primary
ReleaseAnyEntry(s) ==
    LET k == EntryKey(s, pos[s])
    IN  /\ pc[s] \in {"backoff", "unlock"}
        /\ pos[s] > 0
        /\ IF k # NoKey
           THEN /\ lock'   = [lock EXCEPT ![k] = NoSession]
                /\ before' = [before EXCEPT ![k] = 0]
           ELSE UNCHANGED <<lock, before>>
        /\ pos' = [pos EXCEPT ![s] = @ - 1]
        /\ UNCHANGED <<val, serial, expired, session, pc, cur, ectx, result,
                       outcome, dirty, badqueue>>

\* multi_release_lock, one entry
ReleaseEntry(s) ==
    LET k == EntryKey(s, pos[s])
    IN  /\ pc[s] \in {"backoff", "unlock"}
        /\ pos[s] > 0
        /\ IF Primary(s, pos[s])
           THEN /\ lock'   = [lock EXCEPT ![k] = NoSession]
                /\ before' = [before EXCEPT ![k] = 0]
           ELSE UNCHANGED <<lock, before>>
        /\ pos' = [pos EXCEPT ![s] = @ - 1]
        /\ UNCHANGED <<val, serial, expired, session, pc, cur, ectx, result,
                       outcome, dirty, badqueue>>

\* release and try again
Retry(s) ==
    /\ pc[s] = "backoff"
    /\ pos[s] = 0
    /\ pc'   = [pc EXCEPT ![s] = "lock"]
    /\ ectx' = [ectx EXCEPT ![s] = <<>>]
    /\ UNCHANGED <<store, session, pos, cur, result, outcome, history>>

\* mutant: only the existence of the watched keys is compared
WatchesExist(s) ==
    /\ watch[s] # <<>> => start[s]
    /\ \A i \in 1 .. WatchCount(s) :
         (ectx[s][i].kstatus = "OK") <=> (watch[s][i].serial # 0)

\* the watch list passes: an entry that exists has the serial of the watch, one
\* that does not had none when it was watched
WatchesHold(s) ==
    /\ watch[s] # <<>> => start[s]
    /\ \A i \in 1 .. WatchCount(s) :
         IF ectx[s][i].kstatus = "OK"
         THEN watch[s][i].serial = serial[watch[s][i].key]
         ELSE watch[s][i].serial = 0

CheckWatches(s) ==
    /\ pc[s] = "check"
    /\ IF WatchesHold(s)
       THEN /\ pc' = [pc EXCEPT ![s] = "run"]
            /\ UNCHANGED outcome
       ELSE /\ pc' = [pc EXCEPT ![s] = "unlock"]
            /\ outcome' = [outcome EXCEPT ![s] = "null"]
    /\ UNCHANGED <<store, session, pos, cur, ectx, result, history>>

\* multi_key_fetch of a primary entry; gone: it is expired
FetchPrimary(ctx, c, gone) ==
    LET st == IF gone THEN "IS_NEW" ELSE ctx.kstatus
    IN  IF c \in ReadCmds
        THEN [ctx EXCEPT !.ro = TRUE,
                         !.exp = @ \/ gone,
                         !.kstatus = IF st = "IS_NEW" THEN "NOT_FOUND" ELSE st]
        ELSE [ctx EXCEPT !.ro = FALSE,
                         !.exp = @ \/ gone,
                         !.isnew = @ \/ st = "IS_NEW",
                         !.kstatus = st]

\* multi_key_fetch of a duplicate.  created, deleted: the last entry that wrote
\* the key has status KEY_OK and the flag EKF_IS_NEW, EKF_KEYSPACE_DEL.
FetchDup(ctx, c, created, deleted) ==
    LET made == IF ctx.kstatus = "IS_NEW" /\ created THEN "OK" ELSE ctx.kstatus
        st   == IF made = "OK" /\ deleted THEN "IS_NEW" ELSE made
    IN  IF c \in ReadCmds
        THEN [ctx EXCEPT !.ro = TRUE,
                         !.kstatus = IF st = "IS_NEW" THEN "NOT_FOUND" ELSE st]
        ELSE [ctx EXCEPT !.ro = FALSE,
                         !.isnew = @ \/ st \in {"IS_NEW", "NOT_FOUND"},
                         !.kstatus = IF st = "NOT_FOUND" THEN "IS_NEW" ELSE st]

\* mutant: the entry an earlier message has created is not seen
DupNotCreated(s, e) == FALSE

\* get_dup_key: the last writer has created the key
DupCreated(s, e) ==
    \E j \in 1 .. (e - 1) : /\ LastWrite(s, e, j)
                            /\ ectx[s][j].kstatus = "OK"
                            /\ ectx[s][j].isnew

\* get_dup_key: the last writer has deleted the key
DupDeleted(s, e) ==
    \E j \in 1 .. (e - 1) : /\ LastWrite(s, e, j)
                            /\ ectx[s][j].kstatus = "OK"
                            /\ ectx[s][j].del

\* one message with a key: exec_key_continue under CMD_STATE_EXEC_MULTI, the
\* key stays acquired
RunKey(s) ==
    LET m    == queue[s][cur[s] + 1]
        e    == WatchCount(s) + cur[s] + 1
        k    == m.key
        gone == Primary(s, e) /\ ectx[s][e].kstatus = "OK" /\ expired[k]
        ctx  == IF Primary(s, e)
                THEN FetchPrimary(ectx[s][e], m.cmd, gone)
                ELSE FetchDup(ectx[s][e], m.cmd, DupCreated(s, e),
                              DupDeleted(s, e))
        u    == IF gone THEN 0 ELSE val[k]
        st   == TypeChecked(m.cmd, ctx.kstatus, u)
    IN  /\ pc[s] = "run"
        /\ cur[s] < MsgCount(s)
        /\ k # NoKey
        /\ IF gone \/ Touches(m.cmd, st)
           THEN Update(s, k, NewValue(m.cmd, st, u), expired[k] /\ ~gone /\ u # 0
                                                     /\ m.cmd # "DEL")
           ELSE NoUpdate
        /\ ectx' = [ectx EXCEPT ![s][e] =
                      [ctx EXCEPT
                         !.isnew   = @ \/ (m.cmd = "INCR" /\ st = "IS_NEW"),
                         !.del     = @ \/ (m.cmd = "DEL" /\ st = "OK"),
                         !.kstatus = IF m.cmd = "INCR" THEN "OK" ELSE @]]
        /\ result' = [result EXCEPT ![s] = Append(@, Reply(m.cmd, st, u))]
        /\ cur'    = [cur EXCEPT ![s] = @ + 1]
        /\ UNCHANGED <<lock, session, pc, pos, outcome, badqueue, before>>

\* one message without keys: exec_nokeys; a command with keys that lost them
\* in multi_queued is not found there
RunNoKey(s) ==
    LET m == queue[s][cur[s] + 1]
    IN  /\ pc[s] = "run"
        /\ cur[s] < MsgCount(s)
        /\ m.key = NoKey
        /\ result' = [result EXCEPT ![s] =
                        Append(@, Special(IF m.cmd = "PING" THEN "pong" ELSE "err"))]
        /\ cur'    = [cur EXCEPT ![s] = @ + 1]
        /\ UNCHANGED <<store, session, pc, pos, ectx, outcome, history>>

\* every message is executed: discard_multi
Commit(s) ==
    /\ pc[s] = "run"
    /\ cur[s] = MsgCount(s)
    /\ pc'      = [pc EXCEPT ![s] = "unlock"]
    /\ outcome' = [outcome EXCEPT ![s] = "commit"]
    /\ UNCHANGED <<store, session, pos, cur, ectx, result, history>>

\* discard_multi after the last release
Finish(s) ==
    /\ pc[s] = "unlock"
    /\ pos[s] = 0
    /\ pc'      = [pc EXCEPT ![s] = "idle"]
    /\ cur'     = [cur EXCEPT ![s] = 0]
    /\ ectx'    = [ectx EXCEPT ![s] = <<>>]
    /\ result'  = [result EXCEPT ![s] = <<>>]
    /\ outcome' = [outcome EXCEPT ![s] = "none"]
    /\ DropMulti(s)
    /\ UNCHANGED <<store, pos, before>>

-----------------------------------------------------------------------------
Messages == {m \in Msg : m.cmd \in QueueCmds}

ClientStep(s) ==
    \/ \E k \in Keys : \E c \in PlainCmds : Plain(s, c, k)
    \/ \E k \in Keys : WatchKey(s, k)
    \/ Multi(s)
    \/ \E m \in Messages : Queue(s, m)
    \/ QueueBad(s)
    \/ QueueFailed(s)
    \/ Discard(s)
    \/ Exec(s)

ExecStep(s) ==
    \/ Acquire(s)
    \/ PassDup(s)
    \/ Busy(s)
    \/ AllLocked(s)
    \/ ReleaseEntry(s)
    \/ Retry(s)
    \/ CheckWatches(s)
    \/ RunKey(s)
    \/ RunNoKey(s)
    \/ Commit(s)
    \/ Finish(s)

Next == \/ \E s \in Sessions : ClientStep(s) \/ ExecStep(s)
        \/ \E k \in Keys : StampPasses(k)

Spec == Init /\ [][Next]_vars

\* exec_exec is a loop of its thread: it goes on whenever it can
FairSpec == Spec /\ \A s \in Sessions : WF_vars(ExecStep(s))

-----------------------------------------------------------------------------
(* Properties *)

\* Every variable has its type.
TypeOK ==
    /\ val      \in [Keys -> Nat]
    /\ serial   \in [Keys -> Nat]
    /\ expired  \in [Keys -> BOOLEAN]
    /\ lock     \in [Keys -> Sessions \cup {NoSession}]
    /\ multi    \in [Sessions -> BOOLEAN]
    /\ start    \in [Sessions -> BOOLEAN]
    /\ abort    \in [Sessions -> BOOLEAN]
    /\ watch    \in [Sessions -> Seq(Watch)]
    /\ queue    \in [Sessions -> Seq(Msg)]
    /\ pc       \in [Sessions -> {"idle", "lock", "backoff", "check", "run",
                                  "unlock"}]
    /\ pos      \in [Sessions -> Nat]
    /\ cur      \in [Sessions -> Nat]
    /\ ectx     \in [Sessions -> Seq(Ctx)]
    /\ result   \in [Sessions -> Seq(Replies)]
    /\ outcome  \in [Sessions -> {"none", "commit", "null"}]
    /\ dirty    \in [Sessions -> SUBSET Nat]
    /\ badqueue \in [Sessions -> BOOLEAN]
    /\ before   \in [Keys -> Nat]

\* A session holds exactly the locks of the entries its EXEC has passed, so
\* what multi_release_lock walks back over is what multi_try_lock acquired:
\* no lock is leaked by a back-off, a failed watch or a finished transaction,
\* and a key that occurs twice is neither locked twice nor released early.
LocksAccounted ==
    \A s \in Sessions : \A k \in Keys :
        lock[k] = s <=> \E i \in 1 .. pos[s] : EntryKey(s, i) = k

\* When the commands of a transaction run, no key that existed when it was
\* watched has been written, deleted or expired since by any other command:
\* exec_exec compares the serials with the locks held.
WatchSound ==
    \A s \in Sessions :
        pc[s] = "run" => \A i \in dirty[s] : watch[s][i].serial = 0

\* What the manual says of watch: a transaction whose watched key was modified
\* aborts, whether the key existed when it was watched or not.
WatchAnyKey == \A s \in Sessions : pc[s] = "run" => dirty[s] = {}

\* A transaction in which a command was refused with an error is aborted by
\* EXEC and runs none of its commands.
QueueErrorAborts == \A s \in Sessions : pc[s] = "run" => ~badqueue[s]

\* From the check of its watches until its last command, the keys of a
\* transaction change in no step but its own commands (cur moves).
Isolation ==
    [][\A s \in Sessions :
         pc[s] \in {"check", "run"} /\ cur'[s] = cur[s] =>
           \A i \in 1 .. EntryCount(s) :
             EntryKey(s, i) # NoKey =>
               /\ val'[EntryKey(s, i)] = val[EntryKey(s, i)]
               /\ serial'[EntryKey(s, i)] = serial[EntryKey(s, i)]]_vars

\* A key is not locked forever: the session that holds it backs off or runs
\* its transaction to the end.
LocksReleased ==
    \A s \in Sessions : \A k \in Keys : lock[k] = s ~> lock[k] # s

\* The data other sessions can see: what a running transaction has written
\* shows when its last command is done.
Visible == [k \in Keys |-> IF lock[k] # NoSession /\ pc[lock[k]] = "run"
                           THEN before[k] ELSE val[k]]

Atomic == INSTANCE AtomicExec WITH
            Commands <- [cmd : KeyCmds, key : Keys]
                          \cup [cmd : NoKeyCmds, key : {NoKey}],
            data     <- Visible,
            answer   <- [s \in Sessions |-> IF outcome[s] = "commit"
                                            THEN result[s] ELSE <<>>]

\* EXEC runs the queued commands as an atomic unit, with the results of running
\* them one after another on the data of one moment.
AtomicTransactions == Atomic!Spec
=============================================================================
