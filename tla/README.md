# Rai DS in TLA+

Rai DS (`raids`) is a Redis and Memcached compatible server on top of the Rai
KV shared memory store. Several threads and processes serve clients on the same
store; they meet only in the locks and values of the keys and in the messages
of the publish/subscribe routes. This directory holds TLA+ models of the parts
of the server that carry its own control logic, the TLC runs that check them on
small instances, and TLAPS proofs of the results that hold for every instance.

Rai KV itself (`raikv`: hash table, event loop, routing between processes) and
the data encodings (`raimd`) are separate projects that are not in the
repository. They are modelled by what the code in `src/` relies on; `PROJECT.json`
marks those definitions external.

## 1. Inventory

| part | sources | state | operations | what is hard | what makes it correct |
|---|---|---|---|---|---|
| transactions | `redis_transaction.cpp` | `RedisMultiExec`: message list, watch list, `multi_start`, `multi_abort`; key locks held during EXEC | WATCH, UNWATCH, MULTI, queueing, EXEC, DISCARD | several sessions lock overlapping keys; duplicates of a key; watches that are stale | locks match the list, isolation, watch soundness, EXEC is atomic |
| command execution | `redis_exec.cpp`, `redis_key.cpp` | `keys[]`, `key_done`, `blk_state`, `cmd_state` | `exec`, `exec_key_fetch`, `exec_key_continue`, `exec_run_to_completion` | reads without lock that validate afterwards; keys that depend on others; the prefetch queue | a command has the effect of one moment |
| blocking commands | `redis_pubsub.cpp`, `redis_list.cpp`, `ev_service.cpp` | `RedisContinueMsg` in `wait_list`, `cont_list`, `sub_tab`; timers | block, event, timer, drain, close | event, timer, drain and close in any order; several blocked commands of one connection | no lost wakeup, one reply, timeouts are kept, no dangling pointer |
| key space events | `redis_keyspace.cpp` | routes and `key_flags` that switch publication on | subscribe, unsubscribe, publish after a command | sets of connections instead of counts; prefixes of several subjects | an event is published while someone subscribes to it |
| publish/subscribe | `redis_pubsub.cpp` | `sub_tab`, `pat_tab`, routes with hash collisions | SUBSCRIBE, PSUBSCRIBE and inverses, PUBLISH | hash collisions, patterns with a common prefix | table and route agree |
| lists, strings, hashes, sets, sorted sets | `redis_list.cpp`, `redis_string.cpp`, `redis_hash.cpp`, `redis_set.cpp`, `redis_sortedset.cpp` | values of keys | the command families | commands on several keys with locks released in between; index arithmetic | results equal a reference on the data of one moment |
| streams | `redis_stream.cpp` | entries, groups, consumers, pending lists | XADD, XREADGROUP, XACK, XCLAIM, XTRIM | pending lists against deleted entries, blocking reads | an entry is delivered once to a group until claimed |
| geo, hyperloglog | `redis_geo.cpp`, `redis_hyperloglog.cpp` | values of keys | GEO*, PF* | an order together with a COUNT, a destination of another type, merges over several keys | the places in the radius, and the nearest of them; a merge is the union of its sources |
| RDB | `redis_rdb.cpp` | none | DUMP, RESTORE | length encodings, checksums | decode inverts encode |
| RESP protocol | `redis_msg.cpp` | none | unpack, pack | partial input at any byte | prefix of a message is partial, pack inverts unpack |
| Redis service | `ev_service.cpp`, `redis_server.cpp` | input and output buffers, CLIENT and MONITOR state | `process`, `on_msg`, `timer_expire`, `release` | continuations between pipelined requests | replies in order |
| Memcached | `memcached_exec.cpp`, `ev_memcached.cpp` | CAS values, requests of a connection, saved UDP frames | get, gat, set, cas, append, incr, touch, delete in text and binary, quiet forms | two copies of each command; UDP frames lost, twice and out of order | no update with a CAS number is lost, both forms agree, only whole requests run |
| HTTP, WebSocket | `ev_http.cpp`, `ev_http_client.cpp` | frame and upgrade state | GET, upgrade, frames | fragmented frames | one message per frame sequence |
| digest authentication | `http_auth.cpp` | nonce table with age and count | challenge, response | reuse and expiry of nonces | a nonce count is accepted once |
| TLS transport | `ev_tcp_ssl.cpp` | BIO buffers, handshake state | read, write, handshake | want-read and want-write at any call | bytes in order, no stall |
| clients and shell | `ev_client.cpp`, `shm_client.cpp`, `redis_api.cpp`, `term.cpp` | connection | callbacks | - | thin I/O |
| file shim | `shmdp.cpp` | descriptor table | system calls | the operating system | not modelled |
| command tables | `redis_cmd.cpp`, `redis_cmd.h` | - | - | generated | not modelled |
| main, scripts | `server.cpp`, `smain.cpp`, `redis_script.cpp` | options | - | - | not modelled |

The parts interact in three ways. A service (`EvRedisService::process`) unpacks
a message and calls `RedisExec::exec`, which runs the keys one after another
(`exec_run_to_completion`) or hands them to the prefetch queue of the event
loop. A command that wrote a key calls `RedisKeyspace::pub_keyspace_events`,
whose messages come back to other services as `on_msg` in the same thread, or
through Rai KV in another process. Transactions and plain commands share the
key locks of the store. `PROJECT.json` lists the hazards found on the way, each
at its line.

## 2. Modules

| module | extends | models | state machine |
|---|---|---|---|
| `RedisTransaction`, `AtomicExec` | - | WATCH to EXEC, and EXEC as one step | section 3 |
| `RedisBlocking` | - | blocked commands and their continuations | section 4 |
| `RedisKeyspace`, `RedisPubSub` | the second extends the first | events of a command; subscriptions, routes and delivery | section 5 |
| `RedisValue`, `RedisText` | - | a key as the handlers see it, statuses; integers as text | section 6 |
| `RedisList`, `RedisHash`, `RedisSet`, `RedisSortedSet`, `RedisString`, `RedisStream` | `RedisValue` | the handlers of the command families on one key | section 6 |
| `RedisGeo`, `RedisHyperLogLog` | `RedisSortedSet`, `RedisValue` | the handlers of GEO* and PF* | section 6 |
| `RedisKey` | `RedisStream` | expiry, DEL, TOUCH, EXPIRE, RENAME and the like | section 6 |
| `RedisCommands` | all of the handlers | the loop over the keys of a command, between several clients | section 6 |
| `MemcachedExec`, `MemcachedUdp`, `Memcached` | the third extends both | the commands, the frames, and connections that use them | section 7 |
| `FoldTheorems` | - | what a left fold preserves, and induction over `0 .. n` | cited by sections 3 and 5 to 7 |

The `MC` module of each state machine has its instances. The theorems are in
`RedisTransactionProofs`, `RedisBlockingProofs`, `RedisPubSubProofs`,
`RedisCommandsProofs`, `RedisValueProofs` (which extends it, with the handlers of
one key), `RedisStoreProofs` (which extends that, with the store) and
`MemcachedProofs`. None of the modules declares a recursive operator.

## 3. Transactions: `RedisTransaction`

**State.** The store has a value, a serial, an expire mark and a lock per key.
Per session: `multi`, `start`, `abort` (`CMD_STATE_MULTI_QUEUED` and
`multi_abort`), `watch` (the watch list with serials), `queue` (the message
list), and the progress of `exec_exec`: `pc`, `pos` (entries locked), `cur`
(messages run), `ectx` (the key context of every entry), `result`. The keys of
a transaction are one list: watched keys first, then the keys of the messages.
Only the first entry of a key is locked (`Primary`); the others are duplicates.

**Actions.** Requests are one step each: `Plain` (any command outside of a
transaction: GET, INCR, DEL stand for read, write and delete), `WatchKey`,
`Multi`, `Queue`, `QueueBad` (unknown command or arity), `QueueFailed`
(`multi_queued` fails after the message is in the list), `Discard` (DISCARD,
UNWATCH, EXEC of an aborted transaction, close). EXEC is many steps, one per
access to a lock: `Acquire`, `PassDup`, `Busy`, `ReleaseEntry`, `Retry`,
`AllLocked`, `CheckWatches`, `RunKey`, `RunNoKey`, `Commit`, `Finish`.
`StampPasses` lets an expire stamp pass at any moment.

**Assumed of Rai KV.** The serial of a key changes with every update and is
never used again; acquiring an absent key gives `KEY_IS_NEW`; acquiring a key
another context holds gives `KEY_BUSY` under `KEYCTX_MULTI_KEY_ACQUIRE` and
waits otherwise; a read of a locked key waits or is repeated.

**Left out.** WATCH and UNWATCH queued inside of MULTI, blocking commands
inside of MULTI, allocation failures, requests that only answer an error. A
command with several keys counts as its keys one after another.

**Runs.**

| run | bounds | shows |
|---|---|---|
| `transaction_safety` | 2 sessions, 2 keys that expire, 1 watch, 1 message, serials to 2 | `TypeOK`, `LocksAccounted`, `WatchSound`, `Isolation` |
| `transaction_atomic` | 2 sessions, 2 keys in both orders, 2 messages | `AtomicTransactions`: refinement of `AtomicExec`; `LocksReleased` under weak fairness of each EXEC loop |
| `transaction_atomic3` | 1 session, 1 key, 3 messages | violated: three INCR of an absent key answer 1, 2, 1 |
| `transaction_watch_any` | 2 sessions, 1 key | `WatchAnyKey` violated: a key absent at WATCH, created and deleted before EXEC, does not abort |
| `transaction_queue_error` | 1 key | `QueueErrorAborts` violated: an error of `multi_queued` does not abort |

Two sessions are enough for every conflict of the protocol, since locks and
watches relate two sessions and one key; two keys are needed for opposite lock
orders and for duplicates beside other entries. `MaxSerial` stops new commands,
never an EXEC that has started. Symmetry over sessions and keys is used where no
liveness is checked. Weak fairness of `ExecStep` is what a running thread gives:
`exec_exec` is a loop that never waits for anything but itself. No fairness is
assumed of clients. That one of two competing EXECs ever gets all its locks is
not claimed: the loop has no back-off delay.

**Proved** (`RedisTransactionProofs`, for any sessions, keys and bounds):
`TypeCorrect`, `LocksCorrect`, `WatchCorrect`, `IsolationCorrect`. The inductive
invariant is `TypeOK /\ LocksAccounted /\ Phases /\ SerialsMoveOn /\ WatchSound`.
`Phases` ties `pc` to `pos`, `cur` and the length of `ectx`: without it the
entries that `ReleaseEntry` walks back over are not known to be the ones that
were acquired. `SerialsMoveOn` says that a watch that is marked dirty has a
serial below the current one: it is what the comparison in `CheckWatches`
needs, and it survives any number of updates. `Isolation` follows from
`LocksAccounted`, as every other session's step leaves a locked key alone.

`AtomicCorrect` proves the refinement: `Spec /\ []OnceWritten =>
AtomicTransactions`, with keys that do not expire (`TtlKeys = {}`). `OnceWritten`
says that no command of a transaction follows two commands that write its key.
Transactions of at most two messages are always so, as in `transaction_atomic`;
beyond that `multi_key_fetch`, which looks at the last writer alone, gives a wrong
status, and the property fails in `transaction_atomic3`. The mapping shows the
value of a key at its lock while its owner runs (`Visible`) and the answers of a
session once it has committed. So `Plain` is `Single`, `Queue` and `QueueFailed`
are `Enqueue`, `Commit` is `CommitAll`, `Discard` and `Finish` are `Drop`, and
all other steps stutter. What `Commit` needs is carried by `RInv`, which holds
next to the invariant above:

- `Stage`: a session has an outcome only while it unlocks, and answers only from
  its first command on;
- `Held`, `Untouched`: until the first command runs, the locked keys have the
  values, and their entries the status, of the moment they were locked;
- `Ran`, `Written`: the first command that writes a key leaves in its entry
  whether it made or deleted the key, and a key that one command has written has
  the value that command makes of the locked one;
- `Replayed`: what the commands so far did to the locked keys and answered is what
  they do one after another (`Steps`) on any data that agrees with the keys as
  they were locked. Data of other keys is free, so that no step of another
  session can disturb it.

`RunFound` is the heart of it: with `OnceWritten`, the status that
`multi_key_fetch` derives from the flags of the earlier entries tells whether the
key is there now. Liveness is checked by TLC only.

## 4. Blocking commands: `RedisBlocking`

**State.** One event loop with its connections. `len` and `str` are the lists
and the keys of another type. A blocking command is an element of `Cmds`, sent
once on the connection `Conn[b]` with the keys `KeysOf[b]`; when it is blocked
it is also the name of its `RedisContinueMsg`. The flags of the continuation
are sets (`tab`, `hit`, `timeout`), `alive` is what is allocated. `sub_tab` is
the subscription table restricted to `__listblkd` subjects, `listblkd` the route
that enables `EKF_LISTBLKD_NOT`. `thread` keeps the loops that run without
giving up the thread (`exec_run_to_completion`, `drain_continuations`) whole.

**Actions.** `Send` and one step per key of the first run (`FirstData`,
`FirstError`, `FirstNext`, `SaveBlocked`), which only with `Prefetch` interleave
with other connections; `Push` with the publication and scheduling it causes in
the same call; `Pop`; `Move` (RPOPLPUSH); `SetString`, `DelString`; one step per
iteration of `drain_continuations` (`DrainData`, `DrainError`, `DrainNull`,
`DrainBlocked`), each running the command on all its keys; `TimerExpire`;
`Close`. A blocked connection goes on serving requests, as the code does.

**Assumed of Rai KV.** `add_sub` and `del_sub` call `on_sub` and `on_unsub`;
a publication reaches the subscribed connections of the loop in the same call;
timers fire once and not for closed connections; the prefetch queue keeps the
order of the keys of one command, and `process` is not called for a connection
whose command is in the queue.

**Left out.** Which element is popped; BRPOPLPUSH, BZPOPMIN, XREAD BLOCK (they
use the same continuations); a continuation that runs while its connection is
in MULTI (it is queued instead); explicit subscriptions to `__listblkd`
subjects; other processes.

**Runs.**

| run | bounds | shows |
|---|---|---|
| `blocking_wake` | 3 waiting connections, 1 other, 3 keys, 3 pushes | `TypeOK`, `NoDangling`, `NoLostWakeup`, `OneReply`, `NoLeak` |
| `blocking_live` | 2 rivals for 2 keys, 1 waiting alone with a timeout | `Served`, `TimeoutAnswers` under fairness |
| `blocking_timeout_lost` | 1 waiting, 1 rival | violated: the timer is lost after a wakeup that finds nothing |
| `blocking_pair` | 2 commands of one connection | violated: publication is switched off for the other command |

The passing runs say under which use of the server the properties hold: one
blocked command per connection, pushes by other connections, no RPOPLPUSH onto a
list someone waits for, no prefetch of commands with several keys, no other type
at a key but the last, and for `TimeoutAnswers` no rival for the element. The
violated runs lift two of these. The constants of the model reach the others as
well: with `Prefetch = TRUE` and a command with two keys a push between the
check of the first key and the subscription is lost (`NoLostWakeup`); with the
key of a waiting command in `MoveTo`, RPOPLPUSH wakes nobody (`NoLostWakeup`);
with the first key of a command in `StringKeys` it answers an error at every
event and is never complete (`OneReply`); with a waiting connection in `Pushers`
its own push does not wake it (`NoLostWakeup`). The hazards of `PROJECT.json`
name the lines.

Three pushes let a list be refilled after a wakeup that
found nothing; `MaxPush` bounds the number of wakeups, so every state graph is
finite. Deadlock is not checked: the system stops when all requests are
answered and all connections closed. Fairness: the event loop dispatches what
is in its queues (`RunKey`, `Drain`) and fires its timers; clients have none.

**Proved** (`RedisBlockingProofs`, for any connections, keys and commands).
`TypeCorrect` and `NoDanglingCorrect` hold without a condition, also for
commands of one connection on the same keys and with prefetch. `NoDangling` is
not inductive; the invariant `Owned` adds whom a continuation belongs to: a
subscription is for a key of its continuation and on its connection
(`SubsOwned`), a continuation is once in one list at most and in lists of its
own connection (`ListsOwned`), and a command that has not blocked has none
(`AliveBlocked`). That is why the drain of one continuation may delete it, and
the close of a connection all of its own, without a look at other lists.

`NoLostWakeupCorrect`, `OneReplyCorrect` and `NoLeakCorrect` assume `Apart`: the
conditions above, stated about the constants. TLC has a counterexample when any
one conjunct of `Apart` is dropped, so none is there for the proof only. The
instance of `blocking_wake` satisfies `Apart`. The invariant `Wakeups` has one
part per reason that a push could be missed: the keys passed by the first run
are still empty when it subscribes, because the thread is not given up
(`RunsAlone`); a blocked command has all its subscriptions and its connection is
in the route (`Subscribed`); `CM_PUB_HIT` is set on scheduled continuations only
(`HitScheduled`). `Served` and `TimeoutAnswers` are liveness and are checked by
TLC only.

## 5. Events and publish/subscribe: `RedisKeyspace`, `RedisPubSub`

**State.** `reg` holds the tables of every connection and the routes of the
loop: `tab` (`sub_tab`, each entry a subscription or a blocked command), `pre`
and `pats` (the prefixes and compiled patterns of `pat_tab`), `rt` and `prt` (the
connections a hash is forwarded to), `kspc` (the connections that turn an event
class on), `ibx` and `next` (numbers of inbox subscriptions), `cnt` (`sub_count`).
`inboxes` are the reply subjects that were announced, `out` what the last command
made each connection send, `last` what it published.

**Actions.** `Subscribe`, `Unsubscribe`, `Psubscribe`, `Punsubscribe` (with and
without arguments; one call may name several), `SetSession`, `Block` and
`Unblock` (a blocked command enters and leaves the same table), `Publish`,
`Command` (a command runs and `pub_keyspace_events` publishes its events, class
by class in the order of the code), `ReplyInbox`, `Channels` (the PUBSUB
answers), `Close`. Each is a whole call, as they run in one thread. A reply to an
inbox goes through the pattern table (`AtInbox`): the pattern of a session that
was made with the callback leads to `on_inbox_reply`, one that the client made
itself, its own inbox pattern included, is sent as a message of the pattern.

**Abstracted.** Hashes, prefixes, which subjects a pattern matches and whether a
pattern compiles are constants; subjects are a kind and a name. Two subjects
and two prefixes share a hash in the instance, so that every collision flag
matters. A prefix is taken to have another hash than the subject it is matched
against: `do_pub` tells the exact lookup from those of patterns by comparing
these two hashes. Routes between processes are raikv's.

**Run** `pubsub` (2 connections, 3 subjects, 5 patterns, two of them of inboxes, 8 commands):
`RouteOfTable` (a connection is in a route exactly while it has a subject or a
prefix of that hash), `TestIsRoute` (what a connection tells raikv when it is
asked is what the route has), `NoIdleEvents`, `EventsTellPresence` (the last
event of a key tells whether it is there), `Delivered` (a message comes once for
each subscription and pattern it matches), `InboxExact`, `KindKept`. The view
leaves out `out` and `last`, which only the action properties read. Two things
the instance avoids, both listed as hazards: a second pattern with the prefix of
one already subscribed is never matched (`redis_pubsub.cpp:868`), and two blocked
keys of one connection (section 4).

**Proved** (`RedisPubSubProofs`, for any connections, subjects, patterns, hashes
and lists of arguments): `TypeCorrect`, `TestIsRouteCorrect`,
`NoIdleEventsCorrect`, `RouteOfTableCorrect`, `DeliveredCorrect`,
`InboxExactCorrect`, `KindKeptCorrect`. `PubSubAssumption` says that subjects and
patterns are finitely many, that a key that is blocked on is a subject, and what
arguments are made of. The inductive invariant (`IInv`) says of the tables that
routes, counts and event flags follow them (`Tables`), that a number of an inbox
is in one entry of its connection (`InboxesKept`) and that a prefix is there for
a pattern (`PatExact`). A command changes one entry of a table and then does one
of four things to a route; each is a lemma, and `FoldTheorems` carries them over
the arguments of a command.

`RouteOfTableCorrect` assumes `BadApart`: a pattern that does not compile shares
no hash of a prefix with another prefix. Without it the code breaks the property,
and TLC has the steps: `PSUBSCRIBE` of such a pattern leaves its prefix in
`pat_tab` with no pattern and no route; a later prefix of the same hash then sees
a collision when it is removed and leaves its route behind. The four other
invariants need no such condition. `EventsTellPresence` is checked by TLC only:
it is about the order of the events of a single command and the handlers of
section 6 decide it.

## 6. Commands: `RedisCommands` and the modules of handlers

**One key.** A handler is an operator from the value of the key (and of the
arguments) to a record: the value it leaves, its status (`ExecStatus`), its
answer, its count and the flags of the key (`EKF_*`). `RedisValue` has the
record and the outcomes all share: a read of a missing key, a write of a key of
another type, an entry that was created and left without data (`nodata`).
Values are sequences: of elements, of pairs, of bytes, of stream ids. The
encodings (`raimd`) are abstracted to these; what they do to indices, such as
the order of set members in a scan, is kept. A handler whose outcome depends on
bytes the model does not have is a set of outcomes:

- `do_zwrite` does not test the type of the key, GEO aside: ZADD, ZINCRBY and ZREM
  on a key of another type open its bytes as a sorted set (`Misread`). They may
  find members or not, change the bytes or not, and leave a value that is neither
  (`Scrambled`, which keeps the type the entry still names). A command of that
  type that then reads it is where the model stops following it (`Unread`); all
  others go on with it, as they only look at the type or replace the value.
- BITFIELD resizes a string that grows without asking for its bytes to be copied:
  it keeps them when it stays in its place, and has the bytes of the new place
  when it moves (`Resized`).

**Several keys.** `RedisCommands` runs a command as `exec_run_to_completion`
does: `Start` sets up its keys, each `Step` runs the handler of one key with its
lock held, and between two steps other sessions run theirs and the clock moves
(`Tick`). A handler may answer `depends` and is called again when the cycle comes
back to it; what a key saved for a later one is in `part`. `Continue` is
`exec_key_continue` after the handler: next key, retry, end, or error. `buffered`
is whether the output was in a buffer that moves (RPOPLPUSH keeps a pointer).

**Geo.** The earth is a plane of nested squares in the place of the hexagons of h3:
a cell is a square, four make one of the level above, a place is at the centre of
its cell, and distance is along the sides. The search is that of `do_gradius`: the
level whose edge is as long as the radius (`Level`), the hexagon of the origin and
of those around it the ones with a corner in the radius (`Searched`).

**Menus.** What is run together is a menu: the first value of each key, the
sessions, the calls, how many, and whether the clock moves. `MCRedisCommands`
has 17, one or more per family, among them pairs of sessions that move the same
members, merge into each other's sources and set the same keys with MSETNX.
Every command of the families is in some menu, on a key of its type, of another
and missing. The invariants quantify over all arguments in their range on every
value reached, so that the menus only have to reach the values.

**Run** `commands`:

| property | says |
|---|---|
| `ScanCovers` | HSCAN, SSCAN, ZSCAN called again with their cursor return every match once and end |
| `RangesAgree` | LTRIM leaves what LRANGE answers; ZREMRANGE, ZCOUNT, ZRANGE and their reverses agree |
| `PopsWhatItAnswers` | pops answer what they remove; an empty key is deleted |
| `MemberConserved` | a member moved by competing SMOVEs is in one place |
| `StoreExact` | the STORE commands, PFMERGE and GEORADIUS STORE store the operation of what they read |
| `BitFieldExact`, `RangeRoundTrip` | bits outside a field, bytes outside a range stay; overflow as asked |
| `RadiusAnswers` | GEORADIUS answers places in the radius, and which it misses; an order and a COUNT give the nearest or farthest of those found |
| `StreamReads`, `PendingUntilAcked` | streams read in order; what a group delivered is pending until it is acknowledged |
| `WaitersTold` | a write after which a blocked pop would succeed sets the flag that wakes it |
| `MsetnxAllOrNone` | the answer of MSETNX and the keys it set agree |

Three keys are what a command with two sources and a destination needs; two or
three calls are enough for a second client between the steps of the first.
Elements, scores and ids are small integers; bit fields are 3 and 5 bits wide
over two bytes, which meets every carry, sign and byte boundary. TLC's integers
are those of the model; the width where INCR overflows is `Wrap`.

**What the code does and the properties leave out.** The properties are stated
where the code keeps them. Met while modelling and kept in the handlers:
ZPOPMAX with a count above the size pops nothing; ZCOUNT with crossed bounds is
negative; ZUNIONSTORE whose first source is a geo key takes its type; a
weight of 0 does not scale the first source; `RENAME k k` deletes the key;
RENAME and ZADD INCR wake nobody; a scan whose cursor is beyond the end of a
shrunk key never answers 0; a BITPOS of a 0 bit looks at bits past its last
byte; BITCOUNT skips a last part of a string; SETNX replaces a value of another type;
LSET and LREM of a missing key leave an entry without data; a circle reaches into
a hexagon between two of its corners, which is not searched then: in the instance
GEORADIUS from cell 6 finds the place in cell 18 with radius 4 and misses it with
radius 5; ZREMRANGEBYLEX takes the signs - and + for members; a negative count of
LIMIT is none, a negative offset leads before the first element; RPOPLPUSH loses the
element when its destination has another type; XREADGROUP of two keys whose
second fails has delivered the first; PFCOUNT answers 0 when its last key is
missing; GEORADIUS STORE adds to its destination; ids of a stream go back after
an explicit id or a command that writes the update stamp. A random draw
with count 0 does not end and is left out.

**Proved** (`RedisCommandsProofs`, for any sessions, keys, calls and values):
`MsetnxCorrect` and `MemberConservedCorrect`. `KeysAssumption` says that keys are
finitely many, `MenusAssumption` that the calls have the keys the command table
gives them. Both rest on the loop over keys: `Basics` (a session runs a call of
its menu, with a record per key) and `ContinueCases` (what `exec_key_continue`
can do next). An MSETNX is in one of two `Passes`: while it looks, no key is set;
while it sets, those before the current one are, so that it ends with all of them
or none. An SMOVE is at its source, with the member in no other hand, or at its
destination, carrying it (`AtSource`, `AtDest`); `InOnePlace` counts the keys
that hold a member and the sessions that carry it. `MemberConserved` is about
keys that do not expire, since a set that expires takes its members with it.

Four theorems are about one handler and every value it can be given, where the
runs try small ones: `ListRangeCorrect`, `ListPopCorrect`, `ZSetPopCorrect` and
`RoundTripCorrect`. They state the formulas that `RangesAgree`,
`PopsWhatItAnswers` and `RangeRoundTrip` apply to the values of the store
(`ListRange`, `ListPops`, `ZSetPops`, `RoundTrip`), for any sequence of elements
or bytes and any index, count or offset.

**Proved of the store** (`RedisValueProofs`, `RedisStoreProofs`): `TypeCorrect`,
`RangeRoundTripCorrect`, `PopsCorrect`, `RangesCorrect`, `WaitersCorrect`,
`RadiusCorrect`, for any menus of calls
that `MenusAssumption` allows: a command of the table with its number of keys
(`IsArity`), arguments of the kinds its parser produces (`IsArgs`), and first
values that are well formed (`IsEntry`). The inductive invariant is `StoreInv`:
every value is `WellFormed` (`IsHash`, `IsSet`, `IsZSet`, `IsStream`, a
sequence, or `Scrambled`), every entry an `IsEntry`, what a running command has saved for its
later keys is of the kind those keys expect (`Keeps`), and the session runs a
call of its menu (`Basics`). `HandleGood` is the step that matters: each handler,
run on a well-formed value with arguments of its kind, leaves one and saves a
part of its kind. The proof has one lemma per handler (`RedisValueProofs` for
lists, hashes, sets, sorted sets, geo, keys and strings, `RedisStoreProofs` for
streams); folds over members, fields, entries and frames go through `FoldTheorems`.
What a selection does is said by the places that are kept (`Kept`, `OnlyPlaces`):
from it follow that no member comes twice, that the order stays (`OnlyIs`,
`OnlySpan`, `OnlyCut`), and with it what the pops and the ranges promise.
`WaitersCorrect` carries a clause of `HandleGood` through the loop over keys: a
handler that gives a value its first element tells of it (`Outcome`), and
`Continue` keeps what was told. `RadiusCorrect` follows from the order of the places
a radius query sorts (`OrderedLists`) and from what `Searched` says of a cell.

Checked by TLC only: `ScanCovers`, `BitFieldExact`, `StreamReads`, `StoreExact`,
`PendingUntilAcked`. Of these `BitFieldExact` and
`StoreExact` compare a fold over the bits or the sources with a sum or a set of
all of them, and `PendingUntilAcked` is about two states; they need induction
over the data of each value or a history of the pending lists.

## 7. Memcached: `MemcachedExec`, `MemcachedUdp`, `Memcached`

**State.** `store` has an entry per key: type, data, flags, expiry and the cas
number, which counts updates. A connection has the requests it received and has
not run (`buf`), the one that runs (`r`, `x`), the last that ended, and what its
client was told with a cas number (`seen`, a history). For UDP: `net` (copies of
each datagram on their way), `sav` (the one incomplete request that is kept),
`udp` (what ran, what was answered, and whether the merge loop spins).

**Actions.** `Send`, `Parse` (one turn of `process_loop`: a text request that does
not parse discards what is behind it, a binary one is answered and the next goes
on, QUIT closes), `Key` (one key of a request: the
text or binary handler and `exec_key_continue`), `Redis` (a Redis client writes
a list over the key or deletes it), `Tick`; `ClientSends`, `Lose`, `Duplicate`, `Receive` (a read
of up to three datagrams in any order: `Process` merges them, runs each whole
request to its end and cuts the replies into frames).

**Assumed.** A cas number of a key is not used again after a delete (the serial
of raikv), and the number told in an answer is that of the entry. Clients of the
UDP socket use different request ids; the code compares ids without the sender's
address. A TCP request arrives whole. A read is one step: one that another client
disturbs is repeated, and what an earlier turn of it saved of a key that is gone
by then, which stays in the answer of a GET of several keys, is left out. Only the
text CAS and the binary SET, ADD and REPLACE carry a cas number, as in the parsers:
the number in a binary APPEND or PREPEND is not read. A time to live is relative when it is
below the clock (`ExpiresAt`), so the clock starts at `FirstNow` above them.

**Run** `memcached` (2 connections, 3 keys, up to 4 requests, 6 menus; 3 UDP
requests of up to 3 frames, 1 fault): `CasExact` (a store with the number a
client was told replaces the value it was told), `TextBinaryAgree` (the two
copies of a command leave the same entry), `Answered`, `Reassembly` (what runs is
all the frames of one request in order; a request that arrived whole and without
duplicates ran once), `RepliesFramed`. Reads up to three datagrams bring a request in one,
two or three reads; replies are a byte below, at and above one frame.

**What the code does and the properties leave out.** A GAT of several keys ends
in the error case after its first hit; the text INCR of a missing key builds its
answer and does not send it; noreply is ignored by INCR; a refused REPLACE on a
key of another type leaves it typed as a string; the binary INCR of such a key
replaces its data and keeps the type; a duplicate that brings the number of
frames to the total while one is missing makes `merge_frames` look for it for
ever (`udp.spin`); a late duplicate of a saved request runs it again; a frame that is taken from the
saved ones has its length written behind the last message of the read, outside of
the array when that is full, which the model has no memory for.

**Proved** (`MemcachedProofs`, in three parts: the commands, the frames, the
machine; for any keys, connections, requests, faults and sizes): `TypeCorrect`, `CasExactCorrect`,
`AnsweredCorrect`, `TextBinaryAgreeCorrect`, `RepliesFramedCorrect`, and of
`Reassembly` its first half, `WholeRequestsCorrect`: what runs is all the frames
of one request, each once and in order. `MemcachedAssumption` gives the constants
their ranges; a header is smaller than its frame (8 of 1400 bytes in the code).
The inductive invariant is `Types /\ SocketOK` and, per connection, `ConnOK`: what
its client was told with the number an entry still has is the entry's data
(`Known`), the request it runs has answered nothing yet and saved values that are
true while the entries keep their numbers (`Running`), the last one has its whole
answer (`Ended`). `CasExact` needs `Known` and that the number moves on with every
change, whoever makes it (`Laters`); `Answered` is an invariant per key that is
run (`KeyStep`), so it holds for requests of any length. `SocketOK` ties the saved
frames to their places (`Saves`, `Whole`). A reply is cut by a loop: `Good` says
what is true after each turn, and `CutEnds` that as many turns as there are
segments and full frames are enough. That a request that arrived whole ran
exactly once, the second half of `Reassembly`, is about every order in which
datagrams can be read and is checked by TLC only.

## 8. What is proved and what is only checked

Proved for every instance: the theorems of sections 3 to 7, which
`PROJECT.json` lists. Each section says what its theorems assume. Only
model-checked: the liveness properties (the prover has no liveness under
fairness), the five properties that section 6 names, `EventsTellPresence` and the
second half of `Reassembly`.

Loops over arguments, frames and keys are folds or recursive functions. The
theorems about them go through `FoldTheorems`, which proves induction over
`0 .. n` and for a left fold once, from the order of the natural numbers, with
the operator that is folded as a constant; a proof gives it with `INSTANCE`.

No fairness is assumed in sections 5 to 7: their properties are safety, and the
systems may stop at any moment, so deadlock is not checked there.

## 9. Not modelled

`PROJECT.json` has the reason for each component. The value encodings and the
lock protocol are in raimd and raikv, outside of the repository; RDB conversion
walks those encodings. RESP, HTTP, WebSocket and TLS are parsers and transports
in front of the modelled services. KEYS, SCAN, RANDOMKEY and OBJECT walk the hash
table of raikv. Floating point (INCRBYFLOAT, the distances of geo) has no
counterpart in TLA+. The system call shim and the generated tables are not
state machines of this code.
