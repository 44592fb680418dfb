---------------------------- MODULE RedisBlocking ----------------------------
(***************************************************************************)
(* Blocking list commands (BLPOP, BRPOP) of the connections of one event   *)
(* loop.  A command that finds all of its lists empty is saved as a        *)
(* continuation (RedisContinueMsg): it subscribes to the __listblkd event  *)
(* of its keys and starts a timer.  A push publishes the event to the      *)
(* other connections, which schedule the continuation; the next process()  *)
(* of the connection runs the command again.  Publication is turned on by  *)
(* the set of connections that subscribe (RedisKeyspaceNotify::listblkd).  *)
(*                                                                         *)
(* The connection is not suspended: it goes on with the requests that      *)
(* follow the blocked one.  Elements of lists are not told apart.          *)
(***************************************************************************)
EXTENDS Naturals, Sequences

CONSTANTS
    Conns,       \* connections of the event loop, each a RedisExec
    Keys,        \* keys of lists
    Cmds,        \* the blocking commands that are sent, each one once
    None,        \* no command, no connection
    Conn,        \* the connection of a command
    KeysOf,      \* the keys of a command, in the order of its arguments
    Timed,       \* commands with a timeout that is not zero
    Pushers,     \* connections that send LPUSH, RPUSH
    Poppers,     \* connections that send LPOP, RPOP
    Movers,      \* connections that send RPOPLPUSH
    MoveTo,      \* the destinations of RPOPLPUSH
    StringKeys,  \* keys that SET makes strings and DEL removes
    Prefetch,    \* the keys of a command pass through the prefetch queue
    MaxLen,      \* no push onto a list of this length
    MaxPush      \* bound on the number of pushes

ASSUME ConstantsAssumption ==
    /\ None \notin Cmds
    /\ None \notin Conns
    /\ Conn \in [Cmds -> Conns]
    /\ KeysOf \in [Cmds -> Seq(Keys) \ {<<>>}]
    /\ Timed \subseteq Cmds
    /\ Pushers \subseteq Conns
    /\ Poppers \subseteq Conns
    /\ Movers \subseteq Conns
    /\ MoveTo \subseteq Keys
    /\ StringKeys \subseteq Keys
    /\ Prefetch \in BOOLEAN
    /\ MaxLen \in Nat
    /\ MaxPush \in Nat

VARIABLES
    \* the store
    len,        \* elements of the list at a key, 0 when the key has no entry
    str,        \* keys that hold a string
    \* the connections
    open,       \* connections that are not closed
    phase,      \* of a command: unsent, exec, blocked, done, closed
    step,       \* the key a command in exec looks at next
    replies,    \* the replies sent for a command
    thread,     \* the connection the thread of the loop is busy with, or None
    \* the continuations
    alive,      \* continuations that are allocated
    tab,        \* state has CM_CONT_TAB
    hit,        \* state has CM_PUB_HIT
    timeout,    \* state has CM_TIMEOUT
    wait_list,  \* continuations in wait_list (CM_WAIT_LIST)
    cont_list,  \* continuations to run again (CM_CONT_LIST)
    timers,     \* timers of the event loop that have not fired
    sub_tab,    \* of a connection: the continuation subscribed to a key
    listblkd,   \* connections in the route that enables EKF_LISTBLKD_NOT
    pushes      \* number of pushes (bound)

store   == <<len, str>>
conns   == <<open, phase, step, replies, thread>>
flags   == <<alive, tab, hit, timeout>>
queues  == <<wait_list, cont_list, timers>>
routes  == <<sub_tab, listblkd>>
vars    == <<store, conns, flags, queues, routes, pushes>>

Elems(seq) == {seq[i] : i \in DOMAIN seq}

KeySet(b) == Elems(KeysOf[b])

Init ==
    /\ len       = [k \in Keys |-> 0]
    /\ str       = {}
    /\ open      = Conns
    /\ phase     = [b \in Cmds |-> "unsent"]
    /\ step      = [b \in Cmds |-> 1]
    /\ replies   = [b \in Cmds |-> <<>>]
    /\ thread    = None
    /\ alive     = {}
    /\ tab       = {}
    /\ hit       = {}
    /\ timeout   = {}
    /\ wait_list = {}
    /\ cont_list = [c \in Conns |-> <<>>]
    /\ timers    = {}
    /\ sub_tab   = [c \in Conns |-> [k \in Keys |-> None]]
    /\ listblkd  = {}
    /\ pushes    = 0

-----------------------------------------------------------------------------
(* RedisKeyspaceNotify: the connections in the listblkd route turn on the  *)
(* publication of list events.  on_sub adds the connection, on_unsub takes *)
(* it out, for any one of the keys S.                                      *)

OnSub(c, S)   == IF S # {} THEN listblkd \cup {c} ELSE listblkd
OnUnsub(c, S) == IF S # {} THEN listblkd \ {c} ELSE listblkd

\* the keys of a connection that have a subscription
SubKeys(c) == {k \in Keys : sub_tab[c][k] # None}

-----------------------------------------------------------------------------
(* The first run of a command *)

\* a connection works on one request at a time
InExec(c) == \E b \in Cmds : Conn[b] = c /\ phase[b] = "exec"

Serves(c) == thread = None /\ c \in open /\ ~InExec(c)

\* exec() of the command.  exec_run_to_completion keeps the thread; the
\* prefetch queue mixes the keys of several connections.
Send(b) ==
    /\ phase[b] = "unsent"
    /\ Serves(Conn[b])
    /\ phase'  = [phase EXCEPT ![b] = "exec"]
    /\ thread' = IF Prefetch THEN None ELSE Conn[b]
    /\ UNCHANGED <<store, open, step, replies, flags, queues, routes, pushes>>

\* exec_key_continue of the next key of the command
AtKey(b) == /\ phase[b] = "exec"
            /\ thread = IF Prefetch THEN None ELSE Conn[b]

StepKey(b) == KeysOf[b][step[b]]

Empty(k) == len[k] = 0 /\ k \notin str

\* the command ends with reply r
Answered(b, r) ==
    /\ phase'   = [phase EXCEPT ![b] = "done"]
    /\ replies' = [replies EXCEPT ![b] = Append(@, r)]
    /\ thread'  = None

\* do_pop has an element: EXEC_SEND_DATA, the keys that follow are not run
FirstData(b) ==
    /\ AtKey(b)
    /\ len[StepKey(b)] > 0
    /\ len' = [len EXCEPT ![StepKey(b)] = @ - 1]
    /\ Answered(b, "data")
    /\ UNCHANGED <<str, open, step, flags, queues, routes, pushes>>

\* do_pop returns ERR_BAD_TYPE
FirstError(b) ==
    /\ AtKey(b)
    /\ StepKey(b) \in str
    /\ Answered(b, "error")
    /\ UNCHANGED <<store, open, step, flags, queues, routes, pushes>>

\* EXEC_BLOCKED, and another key follows
FirstNext(b) ==
    /\ AtKey(b)
    /\ Empty(StepKey(b))
    /\ step[b] < Len(KeysOf[b])
    /\ step' = [step EXCEPT ![b] = @ + 1]
    /\ UNCHANGED <<store, open, phase, replies, thread, flags, queues, routes,
                   pushes>>

\* EXEC_BLOCKED at the last key: save_blocked_cmd.  A key that the connection
\* waits for already keeps its continuation (REDIS_SUB_EXISTS).
SaveBlocked(b) ==
    LET c     == Conn[b]
        fresh == KeySet(b) \ SubKeys(c)
    IN  /\ AtKey(b)
        /\ Empty(StepKey(b))
        /\ step[b] = Len(KeysOf[b])
        /\ alive'   = alive \cup {b}
        /\ sub_tab' = [sub_tab EXCEPT ![c] = [k \in Keys |->
                          IF k \in fresh THEN b ELSE sub_tab[c][k]]]
        /\ tab'       = IF fresh # {} THEN tab \cup {b} ELSE tab
        /\ listblkd'  = OnSub(c, fresh)
        /\ wait_list' = IF b \in Timed THEN wait_list \cup {b} ELSE wait_list
        /\ timers'    = IF b \in Timed THEN timers \cup {b} ELSE timers
        /\ phase'     = [phase EXCEPT ![b] = "blocked"]
        /\ thread'    = None
        /\ UNCHANGED <<store, open, step, replies, hit, timeout, cont_list,
                       pushes>>

-----------------------------------------------------------------------------
(* Other commands on the keys *)

\* push_continue_list of the continuations in B
Schedule(B) ==
    /\ wait_list' = wait_list \ B
    /\ cont_list' = [c \in Conns |->
         LET new == {b \in B : Conn[b] = c} \ Elems(cont_list[c])
         IN  IF new = {} THEN cont_list[c]
             ELSE Append(cont_list[c], CHOOSE b \in new : TRUE)]

\* mutant: only the continuations with a timer are looked up
NotifiedWaitList(c, k) ==
    {b \in wait_list : \E d \in Conns \ {c} : sub_tab[d][k] = b} \ hit

\* do_pub of the event of key k sent by c: one continuation at most of every
\* other connection, unless it is hit already
Notified(c, k) ==
    {b \in Cmds : \E d \in Conns \ {c} : sub_tab[d][k] = b} \ hit

\* pub_keyspace_events of a push, when EKF_LISTBLKD_NOT is enabled
ListEvent(c, k) == IF listblkd # {} THEN Notified(c, k) ELSE {}

\* do_push
Push(c, k) ==
    LET woken == ListEvent(c, k)
    IN  /\ Serves(c)
        /\ k \notin str
        /\ len[k] < MaxLen
        /\ pushes < MaxPush
        /\ len'    = [len EXCEPT ![k] = @ + 1]
        /\ pushes' = pushes + 1
        /\ hit'    = hit \cup woken
        /\ Schedule(woken)
        /\ UNCHANGED <<str, conns, alive, tab, timeout, timers, routes>>

\* do_pop of LPOP and RPOP
Pop(c, k) ==
    /\ Serves(c)
    /\ len[k] > 0
    /\ len' = [len EXCEPT ![k] = @ - 1]
    /\ UNCHANGED <<str, conns, flags, queues, routes, pushes>>

\* RPOPLPUSH: do_pop of src, then do_push on dest with EKF_LISTBLKD_NOT, which
\* the irregular events of pub_keyspace_events do not forward.  The element is
\* gone when dest has another type.
Move(c, src, dest) ==
    LET popped == [len EXCEPT ![src] = @ - 1]
    IN  /\ Serves(c)
        /\ len[src] > 0
        /\ len[dest] < MaxLen
        /\ len' = IF dest \in str THEN popped
                                  ELSE [popped EXCEPT ![dest] = @ + 1]
        /\ UNCHANGED <<str, conns, flags, queues, routes, pushes>>

\* SET of a key that has no entry, and DEL of it
SetString(k) ==
    /\ thread = None
    /\ Empty(k)
    /\ str' = str \cup {k}
    /\ UNCHANGED <<len, conns, flags, queues, routes, pushes>>

DelString(k) ==
    /\ k \in str
    /\ thread = None
    /\ str' = str \ {k}
    /\ UNCHANGED <<len, conns, flags, queues, routes, pushes>>

-----------------------------------------------------------------------------
(* drain_continuations: the loop of process() over cont_list.  Each of the *)
(* actions below runs the command at its head again, on all of its keys.   *)

NotEmpty(b) == {i \in DOMAIN KeysOf[b] : ~Empty(KeysOf[b][i])}

\* the key that decides: the first one that is not empty
Decides(b, i) == /\ i \in NotEmpty(b)
                 /\ \A j \in NotEmpty(b) : i <= j

Draining(c, b) ==
    /\ thread \in {None, c}
    /\ c \in open
    /\ ~InExec(c)
    /\ cont_list[c] # <<>>
    /\ b = Head(cont_list[c])
    /\ cont_list' = [cont_list EXCEPT ![c] = Tail(@)]
    /\ thread' = IF Tail(cont_list[c]) = <<>> THEN None ELSE c

\* mutant: the subscriptions are left behind
KeepContinueTab(b) == UNCHANGED <<tab, sub_tab, listblkd>>

\* pop_continue_tab: the subscriptions of the keys are removed, whichever
\* continuation of the connection they are for
PopContinueTab(b) ==
    LET c    == Conn[b]
        gone == KeySet(b) \cap SubKeys(c)
    IN  IF b \in tab
        THEN /\ tab'      = tab \ {b}
             /\ sub_tab'  = [sub_tab EXCEPT ![c] = [k \in Keys |->
                               IF k \in gone THEN None ELSE sub_tab[c][k]]]
             /\ listblkd' = OnUnsub(c, gone)
        ELSE UNCHANGED <<tab, sub_tab, listblkd>>

\* RBLK_CMD_COMPLETE: pop_continue_tab, delete cm
Complete(b) ==
    /\ PopContinueTab(b)
    /\ alive'   = alive \ {b}
    /\ hit'     = hit \ {b}
    /\ timeout' = timeout \ {b}
    /\ phase'   = [phase EXCEPT ![b] = "done"]

\* the continuation waits for the next event
StayBlocked(b) == /\ hit' = hit \ {b}
                  /\ UNCHANGED <<phase, alive, tab, timeout, routes>>

SendReply(b, r) == replies' = [replies EXCEPT ![b] = Append(@, r)]

\* mutant: the element is taken from the first key of the command
DrainFirstKey(c, b) ==
    /\ Draining(c, b)
    /\ NotEmpty(b) # {}
    /\ len' = [len EXCEPT ![KeysOf[b][1]] = @ - 1]
    /\ SendReply(b, "data")
    /\ Complete(b)
    /\ UNCHANGED <<str, open, step, wait_list, timers, pushes>>

\* EXEC_SEND_DATA
DrainData(c, b) ==
    /\ Draining(c, b)
    /\ \E i \in DOMAIN KeysOf[b] :
         /\ Decides(b, i)
         /\ len[KeysOf[b][i]] > 0
         /\ len' = [len EXCEPT ![KeysOf[b][i]] = @ - 1]
    /\ SendReply(b, "data")
    /\ Complete(b)
    /\ UNCHANGED <<str, open, step, wait_list, timers, pushes>>

\* ERR_BAD_TYPE is sent; only the last key of the command completes it
DrainError(c, b) ==
    /\ Draining(c, b)
    /\ \E i \in DOMAIN KeysOf[b] :
         /\ Decides(b, i)
         /\ KeysOf[b][i] \in str
         /\ IF i = Len(KeysOf[b]) THEN Complete(b) ELSE StayBlocked(b)
    /\ SendReply(b, "error")
    /\ UNCHANGED <<store, open, step, wait_list, timers, pushes>>

\* mutant: the timeout is answered but RBLK_CMD_COMPLETE is not set
DrainNullStays(c, b) ==
    /\ Draining(c, b)
    /\ NotEmpty(b) = {}
    /\ b \in timeout
    /\ SendReply(b, "null")
    /\ StayBlocked(b)
    /\ UNCHANGED <<store, open, step, wait_list, timers, pushes>>

\* RBLK_CMD_TIMEOUT: EXEC_SEND_NULL
DrainNull(c, b) ==
    /\ Draining(c, b)
    /\ NotEmpty(b) = {}
    /\ b \in timeout
    /\ SendReply(b, "null")
    /\ Complete(b)
    /\ UNCHANGED <<store, open, step, wait_list, timers, pushes>>

\* mutant: CM_PUB_HIT is left set
DrainKeepsHit(c, b) ==
    /\ Draining(c, b)
    /\ NotEmpty(b) = {}
    /\ b \notin timeout
    /\ UNCHANGED <<store, open, phase, step, replies, flags, wait_list, timers,
                   routes, pushes>>

\* EXEC_BLOCKED again
DrainBlocked(c, b) ==
    /\ Draining(c, b)
    /\ NotEmpty(b) = {}
    /\ b \notin timeout
    /\ StayBlocked(b)
    /\ UNCHANGED <<store, open, step, replies, wait_list, timers, pushes>>

Drain(c, b) == \/ DrainData(c, b)
               \/ DrainError(c, b)
               \/ DrainNull(c, b)
               \/ DrainBlocked(c, b)

-----------------------------------------------------------------------------
\* mutant: the continuation is marked but not scheduled
TimerMarksOnly(b) ==
    /\ thread = None
    /\ b \in timers
    /\ timers'  = timers \ {b}
    /\ timeout' = IF b \in wait_list THEN timeout \cup {b} ELSE timeout
    /\ UNCHANGED <<store, conns, alive, tab, hit, wait_list, cont_list, routes,
                   pushes>>

\* timer_expire, continue_expire: the timer finds its continuation only in
\* wait_list, and is not started again
TimerExpire(b) ==
    /\ thread = None
    /\ b \in timers
    /\ timers' = timers \ {b}
    /\ IF b \in wait_list /\ b \notin timeout
       THEN /\ timeout' = timeout \cup {b}
            /\ Schedule({b})
       ELSE UNCHANGED <<timeout, wait_list, cont_list>>
    /\ UNCHANGED <<store, conns, alive, tab, hit, routes, pushes>>

\* RedisSubMap::release frees the continuations that have a subscription
Released(c) == {b \in Cmds : \E k \in Keys : sub_tab[c][k] = b}

\* mutant: only the continuations with a timer are freed
CloseFreesTimed(c) ==
    LET mine == {b \in Cmds : Conn[b] = c}
    IN  /\ Serves(c)
        /\ open'      = open \ {c}
        /\ phase'     = [b \in Cmds |-> IF b \in mine /\ phase[b] # "done"
                                        THEN "closed" ELSE phase[b]]
        /\ sub_tab'   = [sub_tab EXCEPT ![c] = [k \in Keys |-> None]]
        /\ listblkd'  = listblkd \ {c}
        /\ wait_list' = wait_list \ mine
        /\ cont_list' = [cont_list EXCEPT ![c] = <<>>]
        /\ timers'    = timers \ mine
        /\ alive'     = alive \ (mine \cap wait_list)
        /\ tab'       = tab \ mine
        /\ hit'       = hit \ mine
        /\ timeout'   = timeout \ mine
        /\ UNCHANGED <<store, step, replies, thread, pushes>>

\* release: rem_all_sub, RedisSubMap::release.  The timers of the connection
\* fire for nobody, and what is left in its cont_list is not run.
Close(c) ==
    LET mine == {b \in Cmds : Conn[b] = c}
        subs == Released(c)
    IN  /\ Serves(c)
        /\ open'      = open \ {c}
        /\ phase'     = [b \in Cmds |-> IF b \in mine /\ phase[b] # "done"
                                        THEN "closed" ELSE phase[b]]
        /\ sub_tab'   = [sub_tab EXCEPT ![c] = [k \in Keys |-> None]]
        /\ listblkd'  = OnUnsub(c, SubKeys(c))
        /\ wait_list' = wait_list \ subs
        /\ cont_list' = [cont_list EXCEPT ![c] = <<>>]
        /\ timers'    = timers \ mine
        /\ alive'     = alive \ subs
        /\ tab'       = tab \ subs
        /\ hit'       = hit \ subs
        /\ timeout'   = timeout \ subs
        /\ UNCHANGED <<store, step, replies, thread, pushes>>

-----------------------------------------------------------------------------
RunKey(b) == FirstData(b) \/ FirstError(b) \/ FirstNext(b) \/ SaveBlocked(b)

Next ==
    \/ \E b \in Cmds : Send(b) \/ RunKey(b) \/ TimerExpire(b)
    \/ \E c \in Conns, b \in Cmds : Drain(c, b)
    \/ \E c \in Pushers, k \in Keys : Push(c, k)
    \/ \E c \in Poppers, k \in Keys : Pop(c, k)
    \/ \E c \in Movers, k \in Keys, d \in MoveTo : Move(c, k, d)
    \/ \E k \in StringKeys : SetString(k) \/ DelString(k)
    \/ \E c \in Conns : Close(c)

Spec == Init /\ [][Next]_vars

\* the event loop runs what is in its queues, and its timers fire
FairSpec ==
    /\ Spec
    /\ \A b \in Cmds : WF_vars(RunKey(b)) /\ WF_vars(TimerExpire(b))
    /\ \A c \in Conns : WF_vars(\E b \in Cmds : Drain(c, b))

-----------------------------------------------------------------------------
(* Properties *)

\* Every variable has its type.
TypeOK ==
    /\ len       \in [Keys -> Nat]
    /\ str       \in SUBSET Keys
    /\ open      \in SUBSET Conns
    /\ phase     \in [Cmds -> {"unsent", "exec", "blocked", "done", "closed"}]
    /\ step      \in [Cmds -> Nat]
    /\ replies   \in [Cmds -> Seq({"data", "error", "null"})]
    /\ thread    \in Conns \cup {None}
    /\ alive     \in SUBSET Cmds
    /\ tab       \in SUBSET Cmds
    /\ hit       \in SUBSET Cmds
    /\ timeout   \in SUBSET Cmds
    /\ wait_list \in SUBSET Cmds
    /\ cont_list \in [Conns -> Seq(Cmds)]
    /\ timers    \in SUBSET Cmds
    /\ sub_tab   \in [Conns -> [Keys -> Cmds \cup {None}]]
    /\ listblkd  \in SUBSET Conns
    /\ pushes    \in Nat

\* No list and no table holds a continuation that was deleted: whatever event,
\* timer, drain or close comes next, in any order, finds memory that is there.
\* This is so although a connection may block on the same key twice and
\* pop_continue_tab removes subscriptions that another continuation made.
NoDangling ==
    /\ wait_list \subseteq alive
    /\ \A c \in Conns : Elems(cont_list[c]) \subseteq alive
    /\ \A c \in Conns, k \in Keys : sub_tab[c][k] # None => sub_tab[c][k] \in alive

\* No wakeup is lost: a command that is blocked while one of its lists has an
\* element is scheduled to run again.
NoLostWakeup ==
    \A b \in Cmds :
        /\ phase[b] = "blocked"
        /\ \E k \in KeySet(b) : len[k] > 0
        => b \in Elems(cont_list[Conn[b]])

\* A command is answered once: it is blocked as long as it has no reply, and
\* nothing is sent for it after one.
OneReply ==
    \A b \in Cmds : /\ Len(replies[b]) <= 1
                    /\ replies[b] # <<>> => phase[b] \in {"done", "closed"}

\* The continuations of a connection are freed when it is closed.
NoLeak == \A b \in alive : Conn[b] \in open

\* A blocked command with a timeout is answered, by an element or by null,
\* unless its connection is closed.
TimeoutAnswers ==
    \A b \in Timed : phase[b] = "blocked" ~> phase[b] # "blocked"

\* A blocked command and an element it waits for do not stay together for
\* ever: the command gets it or someone else does.
Served ==
    \A b \in Cmds : \A k \in Keys :
        (phase[b] = "blocked" /\ k \in KeySet(b) /\ len[k] > 0)
          ~> (phase[b] # "blocked" \/ len[k] = 0)
==============================================================================
