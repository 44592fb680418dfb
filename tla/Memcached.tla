------------------------------- MODULE Memcached ------------------------------
(***************************************************************************)
(* Memcached clients of the store: connections over TCP that pipeline      *)
(* requests and run them key by key, while others run theirs and Redis     *)
(* clients write the same keys; and one UDP socket, whose datagrams are    *)
(* lost, duplicated and reordered, that runs a request at a time.          *)
(*                                                                         *)
(* A menu says what is run together: the first entries, the requests of    *)
(* the connections and how many are sent, and the requests over UDP, each  *)
(* with the sizes of its frames and of the segments of its reply.          *)
(***************************************************************************)
EXTENDS MemcachedExec, MemcachedUdp

CONSTANTS Keys, Conns, Menus,
          FirstNow,   \* the time at which the clock starts: a time to live is less
          MaxNow,     \* the time at which the clock stops
          MaxBatch,   \* the messages of one read
          MaxFaults,  \* the datagrams that are lost or duplicated
          Seen        \* the cas of a request that sends the number it saw last

\* what the parsers make of a request has keys, several only in a retrieval;
\* only the text CAS and the binary SET, ADD and REPLACE carry a cas number
IsRequest(r) ==
    \/ r.cmd \in Keyless /\ r.keys = <<>>
    \/ /\ r.cmd \notin Keyless
       /\ r.keys \in Seq(Keys) \ {<<>>}
       /\ Len(r.keys) > 1 => r.proto = "text" /\ r.cmd \in Retrievals
       /\ r.cas # 0 => \/ r.proto = "text" /\ r.cmd = "cas"
                       \/ r.proto = "bin"  /\ r.cmd \in {"set", "add", "replace"}

Requests == [proto : {"text", "bin"}, cmd : Commands, keys : Seq(Keys), quiet : BOOLEAN,
             wantskey : BOOLEAN, flags : Nat, ttl : Nat, cas : Nat, inc : Nat, ini : Nat,
             val : Seq(Nat)]
Entries  == [type : {"none", "string", "list"}, data : Seq(Nat), flags : Nat, exp : Nat, cas : Nat]

\* the datagrams of a menu are the frames of its requests
Datagrams(id, sizes) ==
    {[id |-> id, seq |-> n - 1, total |-> Len(sizes), size |-> sizes[n], used |-> FALSE] : n \in DOMAIN sizes}

IsMenu(m) ==
    /\ m.store \in [Keys -> Entries]
    /\ \A k \in Keys : m.store[k].type = "none" => m.store[k] = Missing(m.store[k].cas)
    /\ m.len \in Nat /\ m.redis \subseteq Keys /\ m.ticks \in BOOLEAN
    /\ m.calls \in Seq(Requests) /\ \A i \in DOMAIN m.calls : IsRequest(m.calls[i])
    /\ m.udp \in Seq([req : Requests, sizes : Seq(Nat \ {0}) \ {<<>>}, segs : Seq(Nat \ {0}) \ {<<>>}])
    /\ \A i \in DOMAIN m.udp : IsRequest(m.udp[i].req)
    /\ m.frames = UNION {Datagrams(id, m.udp[id].sizes) : id \in DOMAIN m.udp}

ASSUME MemcachedAssumption ==
    /\ FirstNow \in Nat /\ MaxNow \in Nat /\ MaxBatch \in Nat /\ MaxFaults \in Nat
    /\ Seen \in Nat \ {0} /\ Word \in Nat \ {0}
    /\ HdrSize \in Nat /\ FrameSize \in Nat /\ HdrSize < FrameSize
    /\ \A m \in DOMAIN Menus : IsMenu(Menus[m])

VARIABLES store,    \* the entry of each key
          now,      \* the clock
          menu,     \* the menu of this behaviour
          left,     \* the requests that are still sent
          conn,     \* the connections
          net,      \* how many copies of each datagram are on their way
          sent,     \* the requests that were sent over UDP
          faults,   \* the datagrams lost, and those duplicated
          sav,      \* the saved frames of the socket
          udp       \* what the socket ran and answered, and whether it spins

tcpvars == <<left, conn>>
udpvars == <<net, sent, faults, sav, udp>>
mvars   == <<store, now, menu, tcpvars, udpvars>>

M == Menus[menu]

\* buf holds the requests that were received and not yet run, r is the one
\* that runs and x how far it is, last the one that ended, seen what was
\* answered with a cas number
NotSeen == [cas |-> 0, data |-> <<>>]
Idle == [buf |-> <<>>, r |-> 0, cas |-> 0, x |-> [Begin EXCEPT !.next = 0],
         last |-> 0, open |-> TRUE, seen |-> [k \in Keys |-> NotSeen]]

Req(c) == [M.calls[conn[c].r] EXCEPT !.cas = conn[c].cas]

Init ==
    /\ menu  \in DOMAIN Menus
    /\ store = M.store
    /\ now   = FirstNow
    /\ left  = M.len
    /\ conn  = [c \in Conns |-> Idle]
    /\ net   = [f \in M.frames |-> 0]
    /\ sent  = {}
    /\ faults = [lost |-> {}, dup |-> {}]
    /\ sav   = <<>>
    /\ udp   = [run |-> <<>>, out |-> {}, spin |-> FALSE]

-----------------------------------------------------------------------------
(* TCP *)

\* a request reaches the buffer of the connection, behind the others
Send(c, r) ==
    /\ left > 0
    /\ conn[c].open
    /\ Len(conn[c].buf) < 2
    /\ left' = left - 1
    /\ conn' = [conn EXCEPT ![c].buf = Append(@, r)]
    /\ UNCHANGED <<store, now, menu, udpvars>>

\* Mutant of Parse: QUIT leaves what was received after it
ParseQuitGoesOn(c) ==
    LET r == Head(conn[c].buf)
        q == M.calls[r]
        more == Tail(conn[c].buf)
        cas  == IF q.cas = Seen THEN conn[c].seen[q.keys[1]].cas ELSE q.cas
    IN  /\ conn[c].open
        /\ conn[c].r = 0
        /\ conn[c].buf # <<>>
        /\ conn' = [conn EXCEPT ![c].buf = more, ![c].last = IF q.keys = <<>> THEN r ELSE 0,
                                ![c].open = q.cmd # "quit", ![c].r = IF q.keys = <<>> THEN 0 ELSE r,
                                ![c].cas = IF q.keys = <<>> THEN 0 ELSE cas,
                                ![c].x = IF q.keys = <<>> THEN [Begin EXCEPT !.next = 0] ELSE Begin]
        /\ UNCHANGED <<store, now, menu, left, udpvars>>

\* process_loop: a text that does not parse takes all that was received
\* after it with it, a binary request is answered like one without a key
Parse(c) ==
    LET r == Head(conn[c].buf)
        q == M.calls[r]
        more == Tail(conn[c].buf)
        over == [conn[c] EXCEPT !.buf = more, !.last = r]
        cas  == IF q.cas = Seen THEN conn[c].seen[q.keys[1]].cas ELSE q.cas
    IN  /\ conn[c].open
        /\ conn[c].r = 0
        /\ conn[c].buf # <<>>
        /\ conn' = [conn EXCEPT ![c] =
               CASE q.cmd = "bad"  -> [over EXCEPT !.buf = IF q.proto = "text" THEN <<>> ELSE more,
                                                   !.x.out = <<A("error")>>]
                 [] q.cmd = "quit" -> [over EXCEPT !.open = FALSE, !.buf = <<>>,
                                                   !.x.out = IF q.proto = "bin" THEN <<A("ok")>> ELSE <<>>]
                 [] q.cmd = "version" -> [over EXCEPT !.x.out = <<A("ok")>>]
                 [] OTHER -> [conn[c] EXCEPT !.buf = more, !.r = r, !.cas = cas, !.x = Begin, !.last = 0]]
        /\ UNCHANGED <<store, now, menu, left, udpvars>>

\* what the client learns from an answer
LearnOne(seen, y) ==
    LET q == y.q
        a == y.a
    IN  IF a.cas = 0 \/ Untold(q) THEN seen
        ELSE IF a.st \in {"value", "number"}
             THEN [seen EXCEPT ![q.keys[IF a.key = 0 THEN 1 ELSE a.key]] = [cas |-> a.cas, data |-> a.data]]
             ELSE [seen EXCEPT ![q.keys[1]] = [cas |-> a.cas, data |-> q.val]]

Learn(seen, q, out) ==
    FoldLeft(LearnOne, seen, [i \in DOMAIN out |-> [q |-> q, a |-> out[i]]])

\* one key of the request that runs
Key(c) ==
    LET q   == Req(c)
        x   == conn[c].x
        k   == q.keys[x.next]
        res == Handler(q, Found(store[k], now), x.next, now)
        y   == AfterKey(x, q, res)
        on  == [conn[c] EXCEPT !.x = y]
        off == [on EXCEPT !.last = conn[c].r, !.r = 0, !.cas = 0, !.seen = Learn(conn[c].seen, q, y.out)]
    IN  /\ conn[c].r # 0
        /\ store' = [store EXCEPT ![k] = res.e]
        /\ conn' = [conn EXCEPT ![c] = IF y.next # 0 THEN on ELSE off]
        /\ UNCHANGED <<now, menu, left, udpvars>>

\* a Redis client writes a list over the key or deletes it
Redis(k) ==
    /\ left > 0
    /\ k \in M.redis
    /\ left' = left - 1
    /\ \E e \in {Item("list", <<1>>, 0, 0, store[k].cas + 1), Missing(store[k].cas + 1)} :
           store' = [store EXCEPT ![k] = e]
    /\ UNCHANGED <<now, menu, conn, udpvars>>

Tick ==
    /\ now < MaxNow
    /\ M.ticks
    /\ now' = now + 1
    /\ UNCHANGED <<store, menu, tcpvars, udpvars>>

-----------------------------------------------------------------------------
(* UDP *)

FramesOf(id) == {f \in M.frames : f.id = id}

ClientSends(id) ==
    /\ id \notin sent
    /\ sent' = sent \cup {id}
    /\ net' = [f \in M.frames |-> IF f.id = id THEN net[f] + 1 ELSE net[f]]
    /\ UNCHANGED <<store, now, menu, tcpvars, faults, sav, udp>>

Lose(f) ==
    /\ net[f] > 0
    /\ Cardinality(faults.lost) + Cardinality(faults.dup) < MaxFaults
    /\ net' = [net EXCEPT ![f] = @ - 1]
    /\ faults' = [faults EXCEPT !.lost = @ \cup {f}]
    /\ UNCHANGED <<store, now, menu, tcpvars, sent, sav, udp>>

Duplicate(f) ==
    /\ net[f] > 0
    /\ Cardinality(faults.lost) + Cardinality(faults.dup) < MaxFaults
    /\ net' = [net EXCEPT ![f] = @ + 1]
    /\ faults' = [faults EXCEPT !.dup = @ \cup {f}]
    /\ UNCHANGED <<store, now, menu, tcpvars, sent, sav, udp>>

\* the batches that a read can return: some datagrams in any order
Batches ==
    {b \in UNION {[1..n -> {f \in M.frames : net[f] > 0}] : n \in 1..MaxBatch} :
        \A f \in ToSet(b) : Cardinality({i \in DOMAIN b : b[i] = f}) <= net[f]}

\* the requests that were put together run one after the other, each to its
\* end, and are answered to where the message came from
RunMessage(acc, y) ==
    [store |-> RunAll(y.q.req, acc.store, y.now).store,
     out   |-> acc.out \cup {[to |-> y.id, frames |-> Frames(y.q.segs)]}]

RunBatch(runs) ==
    FoldLeft(RunMessage, [store |-> store, out |-> udp.out],
             [i \in DOMAIN runs |-> [q |-> M.udp[runs[i].id], id |-> runs[i].id, now |-> now]])

Receive(b) ==
    LET p == Process(b, sav)
        r == RunBatch(p.run)
    IN  /\ ~udp.spin
        /\ net' = [f \in M.frames |-> net[f] - Cardinality({i \in DOMAIN b : b[i] = f})]
        /\ sav' = p.sav
        /\ store' = r.store
        /\ udp' = [run |-> udp.run \o p.run, out |-> r.out, spin |-> p.spin]
        /\ UNCHANGED <<now, menu, tcpvars, sent, faults>>

Next ==
    \/ \E c \in Conns, r \in DOMAIN M.calls : Send(c, r)
    \/ \E c \in Conns : Parse(c)
    \/ \E c \in Conns : Key(c)
    \/ \E k \in Keys : Redis(k)
    \/ Tick
    \/ \E id \in DOMAIN M.udp : ClientSends(id)
    \/ \E f \in M.frames : Lose(f)
    \/ \E f \in M.frames : Duplicate(f)
    \/ \E b \in Batches : Receive(b)

Spec == Init /\ [][Next]_mvars

-----------------------------------------------------------------------------
(* Properties *)

\* An entry that is missing holds nothing, a request that runs has a key to
\* run, a closed connection has nothing buffered, and the socket saves the
\* frames of no more than one request's length.
TypeOK ==
    /\ \A k \in Keys : store[k].type = "none" => store[k] = Missing(store[k].cas)
    /\ \A c \in Conns :
          /\ conn[c].r # 0 <=> conn[c].x.next # 0
          /\ conn[c].r # 0 => conn[c].x.next \in DOMAIN M.calls[conn[c].r].keys
          /\ ~conn[c].open => conn[c].buf = <<>>
    /\ \A n \in DOMAIN sav : sav[n] = Nothing \/ sav[n].seq = n - 1
    /\ \A f \in M.frames : net[f] >= 0

\* A request with a cas number that stores replaces the value the client was
\* told with that number: whatever other connections, Redis clients and the
\* clock did in between, no update is lost (exec_store, exec_bin_store).
CasExact ==
    [][\A c \in Conns :
          LET q == Req(c)
              k == q.keys[1]
              e == Found(store[k], now)
              o == conn'[c].x.out
          IN  conn[c].r # 0 /\ conn'[c].r = 0 /\ q.cmd \in Stores /\ q.cas # 0
                /\ o # <<>> /\ o[1].st = "stored" /\ conn[c].seen[k].cas = q.cas =>
                  e.data = conn[c].seen[k].data]_mvars

\* The text and the binary form of a command leave the same entry: they are
\* two copies of one function.  They differ in what APPEND and PREPEND do to
\* the time and the flags, and in INCR and DECR of what is no string.
Twin(q) ==
    CASE q.cmd \in {"set", "add", "replace"} -> {BinStore(q.cmd, q.keys[1], q.flags, q.ttl, q.val, 0, FALSE)}
      [] q.cmd \in {"get", "delete"} -> {BinRetr(q.cmd, q.keys[1], FALSE, TRUE)}
      [] q.cmd \in {"gat", "touch"} /\ Len(q.keys) = 1 -> {BinTouch(q.cmd, q.keys[1], q.ttl, FALSE)}
      [] q.cmd \in {"incr", "decr"} -> {BinIncr(q.cmd, q.keys[1], q.inc, 1, FALSE)}
      [] OTHER -> {}

TextBinaryAgree ==
    \A c \in DOMAIN M.calls, e \in {Found(store[k], now) : k \in Keys} :
        LET q == M.calls[c]
        IN  q.proto = "text" /\ q.cmd \notin {"bad", "quit", "version"} =>
              \A b \in Twin(q) :
                 \/ q.cmd \in {"incr", "decr"} /\ IsNew(e)
                 \/ Handler(q, e, 1, now).e = Handler(b, e, 1, now).e

\* A request that is not quiet is answered, a text retrieval with one END
\* at the end and the values in the order of its keys, and nothing answers a
\* quiet store that went well; but a text INCR of what is no string and a
\* GAT of several keys can go without an answer, and quiet retrievals do.
Mute(q) ==
    \/ q.cmd \in {"incr", "decr"} /\ q.proto = "text"
    \/ q.cmd \in {"gat", "gats"} /\ Len(q.keys) > 1

Ends(out) == {i \in DOMAIN out : out[i].st # "value"}

Answered ==
    \A c \in Conns :
        LET q == M.calls[conn[c].last]
            o == conn[c].x.out
        IN  conn[c].last # 0 /\ q.cmd \notin {"bad", "quit", "version"} /\ ~Mute(q) =>
              /\ ~q.quiet => o # <<>>
              /\ q.quiet /\ q.cmd \in Stores => o = <<>>
              /\ q.proto = "text" /\ q.cmd \in {"get", "gets", "gat", "gats"} =>
                    /\ Ends(o) = {Len(o)} /\ o[Len(o)].st = "end"
                    /\ \A i, j \in 1..(Len(o) - 1) : i < j => o[i].key < o[j].key

\* A request that runs over UDP is all the frames of one request in their
\* order, whatever was lost, duplicated, reordered or mixed with others
\* (merge_frames).
Total(id) == Len(M.udp[id].sizes)

WholeRequests ==
    \A i \in DOMAIN udp.run :
        LET m == udp.run[i]
        IN  m.body = [n \in 1..Total(m.id) |-> <<m.id, n - 1>>]

\* The requests that run over UDP are whole; and a request whose frames all
\* arrived, once each, has run when no other one of several frames was sent
\* (the socket keeps one at a time).
Alone(id) == \A o \in sent \ {id} : Total(o) = 1

Reassembly ==
    /\ WholeRequests
    /\ \A id \in sent :
          Alone(id) /\ faults.dup = {} /\ FramesOf(id) \cap faults.lost = {}
            /\ (\A f \in FramesOf(id) : net[f] = 0) =>
              Cardinality({i \in DOMAIN udp.run : udp.run[i].id = id}) = 1

\* A reply is cut into frames that are numbered, carry their number of
\* frames, are no longer than a frame and full but for the last, and hold
\* every byte of the reply once and in order (construct_frames).
AddPiece(n, p) == n + p[3]
FrameBytes(f)  == FoldLeft(AddPiece, IF f.seq = 0 THEN 0 ELSE HdrSize, f.pieces)

Joined(s, f) == s \o f.pieces

Follows(segs, p, q) ==
    \/ q[1] = p[1] /\ q[2] = p[2] + p[3]
    \/ q = <<p[1] + 1, 0, q[3]>> /\ p[2] + p[3] = segs[p[1]]

RepliesFramed ==
    \A a \in udp.out :
        LET segs == M.udp[a.to].segs
            fs   == a.frames
            all  == FoldLeft(Joined, <<>>, fs)
        IN  /\ \A i \in DOMAIN fs : fs[i].seq = i - 1 /\ fs[i].total = Len(fs)
            /\ \A i \in DOMAIN fs : FrameBytes(fs[i]) <= FrameSize
            /\ \A i \in 1..(Len(fs) - 1) : FrameBytes(fs[i]) = FrameSize
            /\ all[1][1] = 1 /\ all[1][2] = 0
            /\ \A i \in 1..(Len(all) - 1) : Follows(segs, all[i], all[i + 1])
            /\ Last(all)[1] = Len(segs) /\ Last(all)[2] + Last(all)[3] = segs[Len(segs)]
=============================================================================
