----------------------------- MODULE RedisPubSub -----------------------------
(***************************************************************************)
(* Publish/subscribe of the connections of one event loop.  A connection   *)
(* keeps the subjects it subscribes in sub_tab and its patterns, under     *)
(* their prefixes, in pat_tab; the loop keeps, for the hash of a subject   *)
(* or of a prefix, the connections it forwards to (sub_route, of the       *)
(* library raikv).  Several subjects share a hash: a connection tells the  *)
(* route with each removal whether it has another one of the hash, the     *)
(* collision flag, and looks the subject up again when a message comes.    *)
(* Blocked commands subscribe in the same table (continuations), and a     *)
(* session receives replies on inbox subjects which name a subscription    *)
(* by its hash and number.                                                 *)
(***************************************************************************)
EXTENDS RedisKeyspace, FiniteSets

CONSTANTS
    Conns,      \* connections
    Subjects,   \* the subjects that are subscribed, pairs <<kind, name>>
    Hash,       \* the hash of a subject
    Patterns,   \* patterns
    Prefix,     \* the part of a pattern before the first wildcard
    PrefixHash, \* the hash of a prefix
    PatKinds,   \* the kinds whose first characters are those of the prefix
    Matches,    \* the subjects a pattern matches
    InboxMatches, \* the connections whose sessions' inboxes a pattern matches
    Bad,        \* patterns whose regular expression does not compile
    InboxPat,   \* of a connection: the pattern of the inboxes of its session
    Blocking,   \* subjects a blocked command waits for
    Calls,      \* commands, with the flags of their keys
    ArgLists,   \* of a connection: arguments of (P)SUBSCRIBE, (P)UNSUBSCRIBE
    Sessions,   \* connections that get a session
    MaxInbox    \* bound on next_inbox_id

ASSUME PubSubAssumption ==
    /\ IsFiniteSet(Subjects)
    /\ IsFiniteSet(Patterns)
    /\ Blocking \subseteq Subjects
    \* no prefix has the hash of a subject (do_pub takes the one for the other)
    /\ \A s \in Subjects, p \in Patterns : Hash[s] # PrefixHash[Prefix[p]]
    /\ \A c \in Conns : /\ InboxPat[c] \in Patterns
                        /\ ArgLists[c] \subseteq Seq(Subjects \cup Patterns)
    \* sessions have different names
    /\ \A c \in Conns : InboxMatches[InboxPat[c]] = {c}
    /\ MaxInbox \in Nat

PatPrefixes == {Prefix[p] : p \in Patterns}
Hashes      == {Hash[s] : s \in Subjects}
PreHashes   == {PrefixHash[x] : x \in PatPrefixes}

VARIABLES
    open,    \* connections that are not closed
    reg,     \* the tables of the connections and the routes of the loop
    inboxes, \* inboxes announced: <<connection, subject, hash, ibx_id>>
    out,     \* of a connection: what the last command made it send or run
    last     \* the last command that published

vars == <<open, reg, inboxes, out, last>>

NoSubs == [s \in Subjects |-> "none"]

Init ==
    /\ open = Conns
    /\ reg = [tab  |-> [c \in Conns |-> NoSubs],
              ibx  |-> [c \in Conns |-> [s \in Subjects |-> 0]],
              next |-> [c \in Conns |-> 0],
              cnt  |-> [c \in Conns |-> 0],       \* sub_count
              pre  |-> [c \in Conns |-> {}],      \* prefixes in pat_tab
              pats |-> [c \in Conns |-> {}],      \* their RedisWildMatch
              sess |-> {},                        \* session_len > 0
              cb   |-> {},                        \* on_redis_inbox_msg is set
              rt   |-> [h \in Hashes |-> {}],
              prt  |-> [h \in PreHashes |-> {}],
              kspc |-> [k \in Kinds |-> {}]]      \* RedisKeyspaceNotify
    /\ inboxes = {}
    /\ out = [c \in Conns |-> <<>>]
    /\ last = [op |-> "none"]

-----------------------------------------------------------------------------
(* RedisKeyspaceNotify: connections that turn an event class on.  Every    *)
(* subscribe adds, any unsubscribe removes, whatever else is subscribed.   *)

SubKinds(s) == {s[1]} \cap Kinds

UpdateRoute(g, kinds, c, add) ==
    [g EXCEPT !.kspc = [k \in Kinds |->
        IF k \notin kinds THEN @[k]
        ELSE IF add THEN @[k] \cup {c} ELSE @[k] \ {c}]]

KeyFlags(g) == {k \in Kinds : g.kspc[k] # {}}

-----------------------------------------------------------------------------
(* The routes.  A removal with a collision leaves the route as it is.      *)

AddSub(g, c, s) ==
    UpdateRoute([g EXCEPT !.rt[Hash[s]] = @ \cup {c}], SubKinds(s), c, TRUE)

\* Mutant of DelSub: the collision is ignored
DelSubAlways(g, c, s, coll) ==
    UpdateRoute([g EXCEPT !.rt[Hash[s]] = @ \ {c}], SubKinds(s), c, FALSE)

DelSub(g, c, s, coll) ==
    UpdateRoute([g EXCEPT !.rt[Hash[s]] = IF coll THEN @ ELSE @ \ {c}],
                SubKinds(s), c, FALSE)

AddPat(g, c, p) ==
    UpdateRoute([g EXCEPT !.prt[PrefixHash[Prefix[p]]] = @ \cup {c}], PatKinds[p], c, TRUE)

\* Mutant of DelPat: the events of the pattern stay on
DelPatQuiet(g, c, p, coll) ==
    [g EXCEPT !.prt[PrefixHash[Prefix[p]]] = IF coll THEN @ ELSE @ \ {c}]

DelPat(g, c, p, coll) ==
    UpdateRoute([g EXCEPT !.prt[PrefixHash[Prefix[p]]] = IF coll THEN @ ELSE @ \ {c}],
                PatKinds[p], c, FALSE)

-----------------------------------------------------------------------------
(* RedisSubMap and RedisPatternMap *)

\* entries of a hash (hcnt of find2)
SubHcnt(g, c, s) ==
    Cardinality({t \in Subjects : g.tab[c][t] # "none" /\ Hash[t] = Hash[s]})
PatHcnt(g, c, x) == Cardinality({y \in g.pre[c] : PrefixHash[y] = PrefixHash[x]})

InPrefix(g, c, x) == {p \in g.pats[c] : Prefix[p] = x}

\* Mutant of SubRem: rem does not look at the kind of the entry
SubRemAny(g, c, s, kind) == g.tab[c][s] # "none"

\* RedisSubMap::rem of an entry of the right kind
SubRem(g, c, s, kind) == g.tab[c][s] = kind
SubCollision(g, c, s) == SubHcnt(g, c, s) > 1

Put(g, c, s, kind) == [g EXCEPT !.tab[c][s] = kind]

\* Mutant of TestSubscribed: the subject itself is taken to be in the count
TestSubscribedOne(g, c, s) ==
    [subscribed |-> g.tab[c][s] # "none", collision |-> SubHcnt(g, c, s) > 1]

\* the answers to is_subscribed and is_psubscribed
TestSubscribed(g, c, s) ==
    [subscribed |-> g.tab[c][s] # "none",
     collision  |-> SubHcnt(g, c, s) > IF g.tab[c][s] # "none" THEN 1 ELSE 0]

TestPsubscribed(g, c, p) ==
    LET x == Prefix[p]
    IN  IF x \notin g.pre[c]
        THEN [subscribed |-> FALSE, collision |-> PatHcnt(g, c, x) > 0]
        ELSE [subscribed |-> p \in g.pats[c],
              collision  |-> \/ p \notin g.pats[c]
                             \/ Cardinality(InPrefix(g, c, x)) > 1
                             \/ PatHcnt(g, c, x) > 1]

-----------------------------------------------------------------------------
(* One argument of SUBSCRIBE, UNSUBSCRIBE, PSUBSCRIBE, PUNSUBSCRIBE.  ok   *)
(* says that the count of the reply changes.                               *)

\* do_subscribe_cb
DoSubscribe(g, c, s) ==
    IF g.tab[c][s] = "none"
    THEN LET id == g.next[c] + 1
         IN  [g  |-> AddSub([Put(g, c, s, "route") EXCEPT !.ibx[c][s] = id,
                                                          !.next[c]   = id,
                                                          !.cnt[c]    = @ + 1], c, s),
              ok |-> TRUE]
    ELSE [g |-> UpdateRoute(g, SubKinds(s), c, TRUE), ok |-> FALSE]

\* Mutant of DoUnsubscribe: sub_count is not taken back
DoUnsubscribeKeepsCount(g, c, s) ==
    IF SubRem(g, c, s, "route")
    THEN [g |-> DelSub(Put(g, c, s, "none"), c, s, SubCollision(g, c, s)), ok |-> TRUE]
    ELSE [g |-> g, ok |-> FALSE]

\* do_unsubscribe
DoUnsubscribe(g, c, s) ==
    IF SubRem(g, c, s, "route")
    THEN [g  |-> DelSub([Put(g, c, s, "none") EXCEPT !.cnt[c] = @ - 1, !.ibx[c][s] = 0],
                        c, s, SubCollision(g, c, s)),
          ok |-> TRUE]
    ELSE [g |-> g, ok |-> FALSE]

\* do_psubscribe_cb: a pattern is created only when its prefix is new; a
\* prefix whose pattern does not compile stays behind
DoPsubscribe(g, c, p, inbox) ==
    LET x  == Prefix[p]
        g1 == [g EXCEPT !.pre[c] = @ \cup {x}]
    IN  CASE x \notin g.pre[c] /\ p \notin Bad ->
                 [g  |-> AddPat([g1 EXCEPT !.pats[c] = @ \cup {p},
                                           !.cb = IF inbox THEN @ \cup {c} ELSE @], c, p),
                  ok |-> TRUE]
          [] p \in g.pats[c] -> [g |-> UpdateRoute(g, PatKinds[p], c, TRUE), ok |-> FALSE]
          [] OTHER -> [g |-> g1, ok |-> FALSE]

\* do_punsubscribe
DoPunsubscribe(g, c, p) ==
    IF p \in g.pats[c]
    THEN LET x    == Prefix[p]
             rest == InPrefix(g, c, x) \ {p}
         IN  [g  |-> DelPat([g EXCEPT !.pats[c] = @ \ {p},
                                      !.pre[c]  = IF rest = {} THEN @ \ {x} ELSE @,
                                      !.cb      = IF p = InboxPat[c] THEN @ \ {c} ELSE @],
                            c, p, rest # {} \/ PatHcnt(g, c, x) > 1),
              ok |-> TRUE]
    ELSE [g |-> g, ok |-> FALSE]

\* do_sub, one argument: the change of the tables, the count, and the reply
SubOne(acc, x) ==
    LET r  == CASE x.flag = "subscribe"    -> DoSubscribe(acc.g, x.conn, x.arg)
                [] x.flag = "unsubscribe"  -> DoUnsubscribe(acc.g, x.conn, x.arg)
                [] x.flag = "psubscribe"   -> DoPsubscribe(acc.g, x.conn, x.arg, FALSE)
                [] x.flag = "punsubscribe" -> DoPunsubscribe(acc.g, x.conn, x.arg)
        by == IF x.flag \in {"subscribe", "psubscribe"} THEN 1 ELSE 0 - 1
        n  == IF r.ok THEN acc.cnt + by ELSE acc.cnt
    IN  [g |-> r.g, cnt |-> n, reply |-> Append(acc.reply, <<x.arg, n>>)]

\* do_sub: the arguments one after the other; cnt starts from the sub_count
\* and the number of prefixes
DoSub(c, flag, args) ==
    FoldLeft(SubOne,
             [g |-> reg, cnt |-> reg.cnt[c] + Cardinality(reg.pre[c]), reply |-> <<>>],
             [i \in DOMAIN args |-> [conn |-> c, flag |-> flag, arg |-> args[i]]])

Sends(c, msgs) == out' = [d \in Conns |-> IF d = c THEN msgs ELSE <<>>]

Replied(c, acc, op) ==
    /\ reg' = acc.g
    /\ Sends(c, acc.reply)
    /\ last' = [op |-> op, conn |-> c]
    /\ UNCHANGED open

\* an inbox is announced with each subscription of a session
Announced(c, args) ==
    {<<c, args[i], Hash[args[i]], reg'.ibx[c][args[i]]>> :
        i \in {j \in DOMAIN args : c \in reg.sess}}

Subscribe(c, args) ==
    /\ c \in open
    /\ reg.next[c] + Len(args) <= MaxInbox
    /\ Replied(c, DoSub(c, "subscribe", args), "subscribe")
    /\ inboxes' = inboxes \cup Announced(c, args)

\* without arguments, the entries that are not continuations one at a time
Unsubscribe(c, args) ==
    /\ c \in open
    /\ LET all == SetToSeq({s \in Subjects : reg.tab[c][s] = "route"})
           S   == IF args = <<>> THEN all ELSE args
       IN  Replied(c, DoSub(c, "unsubscribe", S), "unsubscribe")
    /\ UNCHANGED inboxes

Psubscribe(c, args) ==
    /\ c \in open
    /\ Replied(c, DoSub(c, "psubscribe", args), "psubscribe")
    /\ UNCHANGED inboxes

\* the pattern with the callback on_redis_inbox_msg
SessionPat(g, c) == IF c \in g.cb THEN {InboxPat[c]} ELSE {}

\* without arguments, the patterns that are not those of the session
Punsubscribe(c, args) ==
    /\ c \in open
    /\ LET P == IF args = <<>> THEN SetToSeq(reg.pats[c] \ SessionPat(reg, c)) ELSE args
       IN  Replied(c, DoSub(c, "punsubscribe", P), "punsubscribe")
    /\ UNCHANGED inboxes

\* set_session subscribes the inbox pattern of the connection
SetSession(c) ==
    /\ c \in open \cap Sessions
    /\ reg' = DoPsubscribe([reg EXCEPT !.sess = @ \cup {c}], c, InboxPat[c], TRUE).g
    /\ Sends(c, <<>>)
    /\ last' = [op |-> "session"]
    /\ UNCHANGED <<open, inboxes>>

-----------------------------------------------------------------------------
(* Continuations *)

\* save_blocked_cmd
Block(c, s) ==
    /\ c \in open
    /\ reg' = IF reg.tab[c][s] = "none" THEN AddSub(Put(reg, c, s, "cont"), c, s) ELSE reg
    /\ Sends(c, <<>>)
    /\ last' = [op |-> "block"]
    /\ UNCHANGED <<open, inboxes>>

\* pop_continue_tab
Unblock(c, s) ==
    /\ c \in open
    /\ reg' = IF SubRem(reg, c, s, "cont")
              THEN DelSub(Put(reg, c, s, "none"), c, s, SubCollision(reg, c, s))
              ELSE reg
    /\ Sends(c, <<>>)
    /\ last' = [op |-> "unblock"]
    /\ UNCHANGED <<open, inboxes>>

-----------------------------------------------------------------------------
(* Publishing *)

\* pub_message
Message(s)     == <<"message", s>>
PMessage(p, s) == <<"pmessage", p, s>>

\* Mutant of Exact: the entry is found by its hash
ExactByHash(g, c, s) ==
    IF \E t \in Subjects : g.tab[c][t] = "route" /\ Hash[t] = Hash[s]
    THEN <<Message(s)>> ELSE <<>>

\* do_pub at a connection: the exact entry of the subject, then the patterns
\* of each prefix that the loop found
Exact(g, c, s) ==
    CASE g.tab[c][s] = "route" -> <<Message(s)>>
      [] g.tab[c][s] = "cont"  -> <<<<"hit", s>>>>
      [] OTHER -> <<>>

ByPattern(g, c, s) ==
    LET hit == {p \in g.pats[c] : s \in Matches[p] /\ c \in g.prt[PrefixHash[Prefix[p]]]}
    IN  SetToSeq({PMessage(p, s) : p \in hit})

DoPub(g, c, src, s) ==
    IF c = src \/ s \notin Subjects THEN <<>>
    ELSE (IF c \in g.rt[Hash[s]] THEN Exact(g, c, s) ELSE <<>>) \o ByPattern(g, c, s)

\* forward_with_cnt of a sequence of subjects
Forwarded(g, src, seq) ==
    [c \in Conns |-> FlattenSeq([i \in DOMAIN seq |-> DoPub(g, c, src, seq[i])])]

Publish(c, s) ==
    /\ c \in open
    /\ out' = Forwarded(reg, c, <<s>>)
    /\ last' = [op |-> "publish", src |-> c, subj |-> s]
    /\ UNCHANGED <<open, reg, inboxes>>

\* a command publishes the keyspace events that have a subscriber
Command(c, call) ==
    /\ c \in open
    /\ LET evts == PubKeyspaceEvents(call.cmd, call.keys, KeyFlags(reg))
       IN  /\ out' = Forwarded(reg, c, [i \in DOMAIN evts |-> evts[i].subj])
           /\ last' = [op |-> "command", src |-> c, call |-> call, evts |-> evts]
    /\ UNCHANGED <<open, reg, inboxes>>

\* Mutant of InboxEntry: the number is not compared
InboxEntryHash(g, c, ibx) ==
    {s \in Subjects : ibx[4] > 0 /\ g.tab[c][s] # "none" /\ Hash[s] = ibx[3]}

\* on_inbox_reply: the entry of the hash in the inbox with its number; the
\* inbox of an entry without a number, a continuation, is too short
InboxEntry(g, c, ibx) ==
    {s \in Subjects : /\ ibx[4] > 0
                      /\ g.tab[c][s] # "none"
                      /\ Hash[s] = ibx[3]
                      /\ g.ibx[c][s] = ibx[4]}

\* do_pub of an inbox at a connection: the pattern of its own session, when
\* it was made with the callback, and the patterns of the client.  No one
\* subscribes an inbox by its name.
InboxHits(g, c, ibx) ==
    {p \in g.pats[c] : ibx[1] \in InboxMatches[p] /\ c \in g.prt[PrefixHash[Prefix[p]]]}

AtInbox(g, c, ibx) ==
    LET hit  == InboxHits(g, c, ibx)
        msgs == {Exact(g, c, s) : s \in InboxEntry(g, c, ibx)}
    IN  (IF hit \cap SessionPat(g, c) # {} THEN FlattenSeq(SetToSeq(msgs)) ELSE <<>>)
        \o SetToSeq({PMessage(p, ibx) : p \in hit \ SessionPat(g, c)})

ReplyInbox(c, ibx) ==
    /\ c \in open
    /\ out' = [d \in Conns |-> IF d = c THEN <<>> ELSE AtInbox(reg, d, ibx)]
    /\ last' = [op |-> "inbox", src |-> c, ibx |-> ibx]
    /\ UNCHANGED <<open, reg, inboxes>>

\* PUBSUB CHANNELS: of each hash, the subject that the first connection of
\* its route finds by the hash; PUBSUB NUMSUB counts by the hash
HashToSub(g, c, h) == {s \in Subjects : g.tab[c][s] # "none" /\ Hash[s] = h}

Channels(c) ==
    /\ c \in open
    /\ \E first \in [{h \in Hashes : reg.rt[h] # {}} -> Conns] :
           /\ \A h \in DOMAIN first : first[h] \in reg.rt[h]
           /\ \E list \in [DOMAIN first -> Subjects] :
                  /\ \A h \in DOMAIN first :
                         list[h] \in HashToSub(reg, first[h], h)
                  /\ last' = [op |-> "channels", src |-> c, list |-> list,
                              numsub |-> [s \in Subjects |-> Cardinality(reg.rt[Hash[s]])]]
    /\ Sends(c, <<>>)
    /\ UNCHANGED <<open, reg, inboxes>>

-----------------------------------------------------------------------------
(* rem_all_sub: every entry is marked as it is removed; an entry that is   *)
(* not marked yet is a collision.                                          *)

RemSub(g, e) ==
    LET c == e[1]
        s == e[2]
    IN  DelSub(Put(g, c, s, "none"), c, s, SubCollision(g, c, s))

RemPat(g, e) ==
    LET c    == e[1]
        p    == e[2]
        rest == {q \in g.pats[c] \ {p} : PrefixHash[Prefix[q]] = PrefixHash[Prefix[p]]}
    IN  DelPat([g EXCEPT !.pats[c] = @ \ {p}], c, p, rest # {})

RemAll(c) ==
    LET subs == {c} \X {s \in Subjects : reg.tab[c][s] # "none"}
    IN  FoldLeft(RemPat, FoldLeft(RemSub, reg, SetToSeq(subs)), SetToSeq({c} \X reg.pats[c]))

Close(c) ==
    /\ c \in open
    /\ open' = open \ {c}
    /\ reg' = [RemAll(c) EXCEPT !.pre[c] = {}, !.ibx[c] = [s \in Subjects |-> 0],
                                !.cnt[c] = 0, !.cb = @ \ {c}]
    /\ Sends(c, <<>>)
    /\ last' = [op |-> "close"]
    /\ UNCHANGED inboxes

SubArgs(c) == {a \in ArgLists[c] : a # <<>> /\ ToSet(a) \subseteq Subjects}
PatArgs(c) == {a \in ArgLists[c] : a # <<>> /\ ToSet(a) \subseteq Patterns}

Next ==
    \E c \in Conns :
        \/ \E a \in SubArgs(c) : Subscribe(c, a)
        \/ \E a \in SubArgs(c) \cup {<<>>} : Unsubscribe(c, a)
        \/ \E a \in PatArgs(c) : Psubscribe(c, a)
        \/ \E a \in PatArgs(c) \cup {<<>>} : Punsubscribe(c, a)
        \/ SetSession(c)
        \/ \E s \in Blocking : Block(c, s) \/ Unblock(c, s)
        \/ \E s \in Subjects : Publish(c, s)
        \/ \E call \in Calls : Command(c, call)
        \/ \E ibx \in inboxes : ReplyInbox(c, ibx)
        \/ Channels(c)
        \/ Close(c)

Spec == Init /\ [][Next]_vars
-----------------------------------------------------------------------------
(* Properties *)

TypeOK ==
    /\ open \subseteq Conns
    /\ reg.tab  \in [Conns -> [Subjects -> {"none", "route", "cont"}]]
    /\ reg.ibx  \in [Conns -> [Subjects -> 0..MaxInbox]]
    /\ reg.next \in [Conns -> 0..MaxInbox]
    /\ \A c \in Conns : reg.cnt[c] = Cardinality({s \in Subjects : reg.tab[c][s] = "route"})
    /\ reg.pre  \in [Conns -> SUBSET PatPrefixes]
    /\ reg.pats \in [Conns -> SUBSET Patterns]
    /\ reg.cb   \subseteq reg.sess /\ reg.sess \subseteq Conns
    /\ reg.rt   \in [Hashes -> SUBSET Conns]
    /\ reg.prt  \in [PreHashes -> SUBSET Conns]
    /\ reg.kspc \in [Kinds -> SUBSET Conns]

\* The loop forwards a hash to exactly the connections that have a subject
\* or a pattern of it: the collision flags of rem, find and rem_collision
\* keep a route that is shared and give up one that is not, up to the close.
RouteOfTable ==
    \A c \in Conns :
        /\ \A h \in Hashes :
               c \in reg.rt[h] <=> \E s \in Subjects : reg.tab[c][s] # "none" /\ Hash[s] = h
        /\ \A h \in PreHashes :
               c \in reg.prt[h] <=> \E p \in reg.pats[c] : PrefixHash[Prefix[p]] = h

\* What test_subscribed answers about a subject tells whether its hash is
\* still routed to the connection; a pattern that is routed is never denied.
TestIsRoute ==
    \A c \in open :
        /\ \A s \in Subjects :
               LET t == TestSubscribed(reg, c, s)
               IN  (t.subscribed \/ t.collision) <=> c \in reg.rt[Hash[s]]
        /\ \A p \in Patterns :
               LET t == TestPsubscribed(reg, c, p)
               IN  c \in reg.prt[PrefixHash[Prefix[p]]] => t.subscribed \/ t.collision

Copies(seq, m) == Cardinality({i \in DOMAIN seq : seq[i] = m})

\* A message reaches every other connection once for its subscription to the
\* subject and once for each pattern that matches, whatever shares a hash.
Delivered ==
    [][last'.op = "publish" =>
        \A d \in Conns \ {last'.src} :
            LET s == last'.subj
                p == {q \in reg.pats[d] : s \in Matches[q]}
            IN  /\ Copies(out'[d], <<"message", s>>) = IF reg.tab[d][s] = "route" THEN 1 ELSE 0
                /\ \A q \in p : Copies(out'[d], <<"pmessage", q, s>>) = 1
                /\ Len(out'[d]) = Cardinality(p) + IF reg.tab[d][s] = "none" THEN 0 ELSE 1]_vars

\* A reply sent to an inbox reaches the subscription the inbox was announced
\* for, once and while it lasts, and no other one, though it is found by hash
\* and number; a client that has a pattern of the inbox for itself gets a
\* message of the pattern.
InboxExact ==
    [][last'.op = "inbox" =>
        \A d \in Conns \ {last'.src} :
            LET ibx  == last'.ibx
                s    == ibx[2]
                p    == {q \in reg.pats[d] : ibx[1] \in InboxMatches[q]}
                live == /\ d = ibx[1] /\ SessionPat(reg, d) \cap reg.pats[d] # {}
                        /\ ibx[4] > 0 /\ reg.tab[d][s] = "route" /\ reg.ibx[d][s] = ibx[4]
                mine == p \ SessionPat(reg, d)
            IN  /\ Copies(out'[d], <<"message", s>>) = IF live THEN 1 ELSE 0
                /\ \A q \in mine : Copies(out'[d], <<"pmessage", q, ibx>>) = 1
                /\ Len(out'[d]) = Cardinality(mine) + IF live THEN 1 ELSE 0]_vars

\* Commands of the client do not remove the subscription of a blocked
\* command, and the end of a blocked command does not remove one of the
\* client, though both are in one table.
KindKept ==
    [][\A c \in Conns, s \in Subjects :
        /\ reg.tab[c][s] = "cont"  /\ last'.op = "unsubscribe" => reg'.tab[c][s] = "cont"
        /\ reg.tab[c][s] = "route" /\ last'.op = "unblock"     => reg'.tab[c][s] = "route"]_vars

\* An event class is published only while a connection has a subject or a
\* pattern of the class.
NoIdleEvents ==
    \A k \in Kinds : \A c \in reg.kspc[k] :
        \/ \E s \in Subjects : reg.tab[c][s] # "none" /\ k \in SubKinds(s)
        \/ \E p \in reg.pats[c] : k \in PatKinds[p]

\* The last event of a key tells a subscriber whether the key is there.
EventsTellPresence ==
    [][last'.op = "command" =>
        LET call == last'.call
        IN  \A i \in DOMAIN call.keys :
                LET k    == call.keys[i].key
                    mine == SelectSeq(last'.evts, LAMBDA e : e.subj = <<"keyspace", k>>)
                IN  mine # <<>> =>
                        (mine[Len(mine)].msg \in {"del", "expired", "rename_from"}
                            <=> k \notin call.after)]_vars
=============================================================================
