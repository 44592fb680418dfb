-------------------------- MODULE RedisPubSubProofs --------------------------
(***************************************************************************)
(* Proofs about RedisPubSub for any connections, subjects and patterns,    *)
(* any hash functions and any arguments of the commands.                   *)
(***************************************************************************)
EXTENDS RedisPubSub, FunctionTheorems, FiniteSetTheorems, TLAPS

SubFold    == INSTANCE FoldTheorems WITH Op <- SubOne
RemSubFold == INSTANCE FoldTheorems WITH Op <- RemSub
RemPatFold == INSTANCE FoldTheorems WITH Op <- RemPat

-----------------------------------------------------------------------------
(* The inductive invariant, as predicates of the tables g *)

Reg == [tab  : [Conns -> [Subjects -> {"none", "route", "cont"}]],
        ibx  : [Conns -> [Subjects -> Nat]],
        next : [Conns -> Nat],
        cnt  : [Conns -> Nat],
        pre  : [Conns -> SUBSET PatPrefixes],
        pats : [Conns -> SUBSET Patterns],
        sess : SUBSET Conns,
        cb   : SUBSET Conns,
        rt   : [Hashes -> SUBSET Conns],
        prt  : [PreHashes -> SUBSET Conns],
        kspc : [Kinds -> SUBSET Conns]]

\* sub_count counts the entries that are no continuations
Counted(g) ==
    \A c \in Conns : g.cnt[c] = Cardinality({s \in Subjects : g.tab[c][s] = "route"})

\* a hash is routed to the connections that have a subject of it
SubRouted(g) ==
    \A c \in Conns, h \in Hashes :
        c \in g.rt[h] <=> \E s \in Subjects : g.tab[c][s] # "none" /\ Hash[s] = h

\* a pattern is routed and its prefix is in pat_tab
PatRouted(g) ==
    \A c \in Conns : \A p \in g.pats[c] :
        /\ c \in g.prt[PrefixHash[Prefix[p]]]
        /\ Prefix[p] \in g.pre[c]

\* a prefix is routed to a connection that has an entry of its hash
PreRouted(g, O) ==
    \A c \in O, h \in PreHashes :
        c \in g.prt[h] => \E x \in g.pre[c] : PrefixHash[x] = h

\* an event class is on for connections that have a subject or pattern of it
Eventful(g) ==
    \A k \in Kinds : \A c \in g.kspc[k] :
        \/ \E s \in Subjects : g.tab[c][s] # "none" /\ k \in SubKinds(s)
        \/ \E p \in g.pats[c] : k \in PatKinds[p]

\* the subscriptions of a connection have different numbers, up to next_inbox_id
Numbered(g) ==
    \A c \in Conns : \A s \in Subjects :
        /\ g.tab[c][s] # "route" => g.ibx[c][s] = 0
        /\ g.ibx[c][s] <= g.next[c]
        /\ \A t \in Subjects : g.ibx[c][s] = g.ibx[c][t] /\ s # t => g.ibx[c][s] = 0

Tables(g, O) ==
    /\ g \in Reg
    /\ g.cb \subseteq g.sess
    /\ Counted(g)
    /\ SubRouted(g)
    /\ PatRouted(g)
    /\ PreRouted(g, O)
    /\ Eventful(g)
    /\ Numbered(g)

\* an inbox names a subscription by a number that no other one has or gets
InboxesKept(g, I) ==
    \A ibx \in I :
        /\ ibx \in Conns \X Subjects \X Hashes \X Nat
        /\ ibx[3] = Hash[ibx[2]]
        /\ ibx[4] <= g.next[ibx[1]]
        /\ \A s \in Subjects :
              ibx[4] # 0 /\ g.ibx[ibx[1]][s] = ibx[4] => s = ibx[2]

\* Patterns that do not compile share no hash of a prefix with others
BadApart ==
    \A p \in Bad, q \in Patterns :
        Prefix[p] # Prefix[q] => PrefixHash[Prefix[p]] # PrefixHash[Prefix[q]]

\* the routes of prefixes are those of patterns
PrtExact(g) ==
    \A c \in Conns, h \in PreHashes :
        c \in g.prt[h] => \E p \in g.pats[c] : PrefixHash[Prefix[p]] = h

\* a prefix is in pat_tab for a pattern, or for one that did not compile
PreUsed(g) ==
    \A c \in Conns :
        /\ g.pats[c] \cap Bad = {}
        /\ \A x \in g.pre[c] : \E p \in g.pats[c] \cup Bad : Prefix[p] = x

PatExact(g) == BadApart => PrtExact(g) /\ PreUsed(g)

Kept(g, O, I) == Tables(g, O) /\ InboxesKept(g, I) /\ PatExact(g)

IInv ==
    /\ open \subseteq Conns
    /\ Kept(reg, open, inboxes)
    /\ \A c \in Conns : reg.next[c] <= MaxInbox

-----------------------------------------------------------------------------
(* What an operation leaves alone, and what the routes of raikv do.  Every *)
(* operation on the tables is a change of one entry followed by one of     *)
(* these four.                                                             *)

SamePats(g, h) == h.pre = g.pre /\ h.pats = g.pats /\ h.prt = g.prt
SameSess(g, h) == h.sess = g.sess /\ h.cb = g.cb
SameIds(g, h)  == h.ibx = g.ibx /\ h.next = g.next /\ h.cnt = g.cnt

KindsOn(g, c, kinds) ==
    [k \in Kinds |-> IF k \in kinds THEN g.kspc[k] \cup {c} ELSE g.kspc[k]]
KindsOff(g, c, kinds) ==
    [k \in Kinds |-> IF k \in kinds THEN g.kspc[k] \ {c} ELSE g.kspc[k]]

\* update_route with an addition writes the RedisKeyspaceNotify sets and
\* nothing else.
LEMMA KindsTurnedOn ==
    ASSUME NEW g \in Reg, NEW c \in Conns, NEW kinds
    PROVE  LET h == UpdateRoute(g, kinds, c, TRUE)
           IN  /\ h \in Reg
               /\ h.tab = g.tab /\ h.rt = g.rt
               /\ SamePats(g, h) /\ SameSess(g, h) /\ SameIds(g, h)
               /\ h.kspc = KindsOn(g, c, kinds)
<1>1. g.kspc \in [Kinds -> SUBSET Conns]
  BY DEF Reg
<1>2. UpdateRoute(g, kinds, c, TRUE) = [g EXCEPT !.kspc = KindsOn(g, c, kinds)]
  BY DEF UpdateRoute, Reg, KindsOn
<1>3. KindsOn(g, c, kinds) \in [Kinds -> SUBSET Conns]
  BY <1>1 DEF KindsOn
<1> QED BY <1>2, <1>3 DEF Reg, SamePats, SameSess, SameIds

\* update_route with a removal writes the RedisKeyspaceNotify sets and
\* nothing else.
LEMMA KindsTurnedOff ==
    ASSUME NEW g \in Reg, NEW c \in Conns, NEW kinds
    PROVE  LET h == UpdateRoute(g, kinds, c, FALSE)
           IN  /\ h \in Reg
               /\ h.tab = g.tab /\ h.rt = g.rt
               /\ SamePats(g, h) /\ SameSess(g, h) /\ SameIds(g, h)
               /\ h.kspc = KindsOff(g, c, kinds)
<1>1. g.kspc \in [Kinds -> SUBSET Conns]
  BY DEF Reg
<1>2. UpdateRoute(g, kinds, c, FALSE) = [g EXCEPT !.kspc = KindsOff(g, c, kinds)]
  BY DEF UpdateRoute, Reg, KindsOff
<1>3. KindsOff(g, c, kinds) \in [Kinds -> SUBSET Conns]
  BY <1>1 DEF KindsOff
<1> QED BY <1>2, <1>3 DEF Reg, SamePats, SameSess, SameIds

\* add_sub of a subject routes its hash to the connection and turns its event
\* class on.
LEMMA AddSubEffect ==
    ASSUME NEW g \in Reg, NEW c \in Conns, NEW s \in Subjects
    PROVE  LET h == AddSub(g, c, s)
           IN  /\ h \in Reg
               /\ h.tab = g.tab
               /\ h.rt = [g.rt EXCEPT ![Hash[s]] = @ \cup {c}]
               /\ SamePats(g, h) /\ SameSess(g, h) /\ SameIds(g, h)
               /\ h.kspc = KindsOn(g, c, SubKinds(s))
<1> DEFINE f == [g EXCEPT !.rt[Hash[s]] = @ \cup {c}]
<1>1. f \in Reg
  BY DEF Reg, Hashes
<1>2. f.rt = [g.rt EXCEPT ![Hash[s]] = @ \cup {c}]
  BY DEF Reg, Hashes
<1>3. f.tab = g.tab /\ SamePats(g, f) /\ SameSess(g, f) /\ SameIds(g, f) /\ f.kspc = g.kspc
  BY DEF SamePats, SameSess, SameIds, Reg
<1>4. AddSub(g, c, s) = UpdateRoute(f, SubKinds(s), c, TRUE)
  BY DEF AddSub
<1> HIDE DEF f
<1> HIDE DEF f
<1> DEFINE h == UpdateRoute(f, SubKinds(s), c, TRUE)
<1>5. /\ h \in Reg
      /\ h.tab = f.tab /\ h.rt = f.rt
      /\ SamePats(f, h) /\ SameSess(f, h) /\ SameIds(f, h)
      /\ h.kspc = KindsOn(f, c, SubKinds(s))
  BY <1>1, KindsTurnedOn
<1> QED BY <1>1, <1>2, <1>3, <1>4, <1>5 DEF SamePats, SameSess, SameIds, KindsOn

\* del_sub of a subject gives the route up unless the collision flag is set,
\* and turns its event class off.
LEMMA DelSubEffect ==
    ASSUME NEW g \in Reg, NEW c \in Conns, NEW s \in Subjects, NEW coll \in BOOLEAN
    PROVE  LET h == DelSub(g, c, s, coll)
           IN  /\ h \in Reg
               /\ h.tab = g.tab
               /\ h.rt = [g.rt EXCEPT ![Hash[s]] = IF coll THEN @ ELSE @ \ {c}]
               /\ SamePats(g, h) /\ SameSess(g, h) /\ SameIds(g, h)
               /\ h.kspc = KindsOff(g, c, SubKinds(s))
<1> DEFINE f == [g EXCEPT !.rt[Hash[s]] = IF coll THEN @ ELSE @ \ {c}]
<1>1. f \in Reg
  BY DEF Reg, Hashes
<1>2. f.rt = [g.rt EXCEPT ![Hash[s]] = IF coll THEN @ ELSE @ \ {c}]
  BY DEF Reg, Hashes
<1>3. f.tab = g.tab /\ SamePats(g, f) /\ SameSess(g, f) /\ SameIds(g, f) /\ f.kspc = g.kspc
  BY DEF SamePats, SameSess, SameIds, Reg
<1>4. DelSub(g, c, s, coll) = UpdateRoute(f, SubKinds(s), c, FALSE)
  BY DEF DelSub
<1> HIDE DEF f
<1> DEFINE h == UpdateRoute(f, SubKinds(s), c, FALSE)
<1>5. /\ h \in Reg
      /\ h.tab = f.tab /\ h.rt = f.rt
      /\ SamePats(f, h) /\ SameSess(f, h) /\ SameIds(f, h)
      /\ h.kspc = KindsOff(f, c, SubKinds(s))
  BY <1>1, KindsTurnedOff
<1> QED BY <1>1, <1>2, <1>3, <1>4, <1>5 DEF SamePats, SameSess, SameIds, KindsOff

\* add_pat routes the hash of the prefix to the connection and turns the
\* event classes of the pattern on.
LEMMA AddPatEffect ==
    ASSUME NEW g \in Reg, NEW c \in Conns, NEW p \in Patterns
    PROVE  LET h == AddPat(g, c, p)
           IN  /\ h \in Reg
               /\ h.tab = g.tab /\ h.rt = g.rt
               /\ h.prt = [g.prt EXCEPT ![PrefixHash[Prefix[p]]] = @ \cup {c}]
               /\ h.pre = g.pre /\ h.pats = g.pats /\ SameSess(g, h) /\ SameIds(g, h)
               /\ h.kspc = KindsOn(g, c, PatKinds[p])
<1> DEFINE f == [g EXCEPT !.prt[PrefixHash[Prefix[p]]] = @ \cup {c}]
<1>1. f \in Reg
  BY DEF Reg, PreHashes, PatPrefixes
<1>2. f.prt = [g.prt EXCEPT ![PrefixHash[Prefix[p]]] = @ \cup {c}]
  BY DEF Reg, PreHashes, PatPrefixes
<1>3. /\ f.tab = g.tab /\ f.rt = g.rt /\ f.pre = g.pre /\ f.pats = g.pats
      /\ SameSess(g, f) /\ SameIds(g, f) /\ f.kspc = g.kspc
  BY DEF SameSess, SameIds, Reg
<1>4. AddPat(g, c, p) = UpdateRoute(f, PatKinds[p], c, TRUE)
  BY DEF AddPat
<1> HIDE DEF f
<1> DEFINE h == UpdateRoute(f, PatKinds[p], c, TRUE)
<1>5. /\ h \in Reg
      /\ h.tab = f.tab /\ h.rt = f.rt
      /\ SamePats(f, h) /\ SameSess(f, h) /\ SameIds(f, h)
      /\ h.kspc = KindsOn(f, c, PatKinds[p])
  BY <1>1, KindsTurnedOn
<1> QED BY <1>1, <1>2, <1>3, <1>4, <1>5 DEF SamePats, SameSess, SameIds, KindsOn

\* the route of the prefix of p is given up unless there is a collision
PreDrop(g, h, c, p, coll) ==
    \A d \in Conns, x \in PreHashes :
        d \in h.prt[x] <=> d \in g.prt[x] /\ (d = c /\ x = PrefixHash[Prefix[p]] => coll)

\* del_pat gives the route of the prefix up unless the collision flag is set,
\* and turns the event classes of the pattern off.
LEMMA DelPatEffect ==
    ASSUME NEW g \in Reg, NEW c \in Conns, NEW p \in Patterns, NEW coll \in BOOLEAN,
           NEW r, r = DelPat(g, c, p, coll)
    PROVE  /\ r \in Reg
           /\ r.tab = g.tab /\ r.rt = g.rt
           /\ PreDrop(g, r, c, p, coll)
           /\ r.pre = g.pre /\ r.pats = g.pats /\ SameSess(g, r) /\ SameIds(g, r)
           /\ r.kspc = KindsOff(g, c, PatKinds[p])
<1> DEFINE f == [g EXCEPT !.prt[PrefixHash[Prefix[p]]] = IF coll THEN @ ELSE @ \ {c}]
<1>1. f \in Reg
  BY DEF Reg, PreHashes, PatPrefixes
<1>2. f.prt = [g.prt EXCEPT ![PrefixHash[Prefix[p]]] = IF coll THEN @ ELSE @ \ {c}]
  BY DEF Reg, PreHashes, PatPrefixes
<1>3. /\ f.tab = g.tab /\ f.rt = g.rt /\ f.pre = g.pre /\ f.pats = g.pats
      /\ SameSess(g, f) /\ SameIds(g, f) /\ f.kspc = g.kspc
  BY DEF SameSess, SameIds, Reg
<1>4. DelPat(g, c, p, coll) = UpdateRoute(f, PatKinds[p], c, FALSE)
  BY DEF DelPat
<1> HIDE DEF f
<1> DEFINE h == UpdateRoute(f, PatKinds[p], c, FALSE)
<1>5. /\ h \in Reg
      /\ h.tab = f.tab /\ h.rt = f.rt
      /\ SamePats(f, h) /\ SameSess(f, h) /\ SameIds(f, h)
      /\ h.kspc = KindsOff(f, c, PatKinds[p])
  BY <1>1, KindsTurnedOff
<1>6. PreDrop(g, f, c, p, coll)
  BY <1>2 DEF Reg, PreDrop
<1> QED BY <1>1, <1>2, <1>3, <1>4, <1>5, <1>6 DEF SamePats, SameSess, SameIds, KindsOff, PreDrop

\* An entry written to sub_tab changes no route and no pattern.
LEMMA PutEffect ==
    ASSUME NEW g \in Reg, NEW c \in Conns, NEW s \in Subjects,
           NEW kind \in {"none", "route", "cont"}
    PROVE  LET h == Put(g, c, s, kind)
           IN  /\ h \in Reg
               /\ h.tab = [g.tab EXCEPT ![c][s] = kind]
               /\ h.rt = g.rt /\ h.kspc = g.kspc
               /\ SamePats(g, h) /\ SameSess(g, h) /\ SameIds(g, h)
BY DEF Put, Reg, SamePats, SameSess, SameIds

-----------------------------------------------------------------------------
(* A subject enters or leaves the table of a connection *)

SubIn(g, h, c, s, kind) ==
    /\ h.tab = [g.tab EXCEPT ![c][s] = kind]
    /\ h.rt = [g.rt EXCEPT ![Hash[s]] = @ \cup {c}]
    /\ h.kspc = KindsOn(g, c, SubKinds(s))
    /\ SamePats(g, h) /\ SameSess(g, h)

SubOut(g, h, c, s) ==
    /\ h.tab = [g.tab EXCEPT ![c][s] = "none"]
    /\ h.rt = [g.rt EXCEPT ![Hash[s]] = IF SubCollision(g, c, s) THEN @ ELSE @ \ {c}]
    /\ h.kspc = KindsOff(g, c, SubKinds(s))
    /\ SamePats(g, h) /\ SameSess(g, h)

Routes(g) == SubRouted(g) /\ PatRouted(g) /\ Eventful(g)

\* The collision flag of an entry that is in sub_tab says that the connection
\* has another subject of the same hash.
LEMMA CollisionIsOther ==
    ASSUME NEW g \in Reg, NEW c \in Conns, NEW s \in Subjects, g.tab[c][s] # "none"
    PROVE  SubCollision(g, c, s) <=>
               \E t \in Subjects : t # s /\ g.tab[c][t] # "none" /\ Hash[t] = Hash[s]
<1> DEFINE S == {t \in Subjects : g.tab[c][t] # "none" /\ Hash[t] = Hash[s]}
<1>1. S \in SUBSET Subjects /\ IsFiniteSet(Subjects)
  BY PubSubAssumption
<1>2. IsFiniteSet(S) /\ s \in S
  <2> s \in S
    OBVIOUS
  <2> HIDE DEF S
  <2> QED BY <1>1, FS_Subset
<1>3. IsFiniteSet(S \ {s}) /\ Cardinality(S \ {s}) = Cardinality(S) - 1
  <2> HIDE DEF S
  <2> QED BY <1>2, FS_RemoveElement
<1>4. Cardinality(S \ {s}) = 0 <=> S \ {s} = {}
  <2> HIDE DEF S
  <2> QED BY <1>3, FS_EmptySet
<1>5. Cardinality(S) \in Nat /\ Cardinality(S \ {s}) \in Nat
  <2> HIDE DEF S
  <2> QED BY <1>2, <1>3, FS_CardinalityType
<1>6. SubCollision(g, c, s) <=> Cardinality(S) > 1
  BY DEF SubCollision, SubHcnt
<1>7. SubCollision(g, c, s) <=> S \ {s} # {}
  <2> HIDE DEF S
  <2> QED BY <1>3, <1>4, <1>5, <1>6
<1> QED BY <1>7

\* A subject that enters sub_tab together with its route and its event class
\* keeps routes and events those of the tables.
LEMMA SubInKept ==
    ASSUME NEW g \in Reg, NEW h \in Reg, NEW c \in Conns, NEW s \in Subjects,
           NEW kind \in {"route", "cont"},
           SubIn(g, h, c, s, kind), Routes(g)
    PROVE  Routes(h)
<1>1. SubRouted(h)
  <2> SUFFICES ASSUME NEW d \in Conns, NEW x \in Hashes
               PROVE  d \in h.rt[x] <=> \E t \in Subjects : h.tab[d][t] # "none" /\ Hash[t] = x
    BY DEF SubRouted
  <2>1. d \in g.rt[x] <=> \E t \in Subjects : g.tab[d][t] # "none" /\ Hash[t] = x
    BY DEF Routes, SubRouted
  <2>2. CASE d = c /\ x = Hash[s]
    BY <2>2 DEF SubIn, Reg
  <2>3. CASE d # c
    BY <2>1, <2>3 DEF SubIn, Reg
  <2>4. CASE x # Hash[s]
    BY <2>1, <2>4 DEF SubIn, Reg
  <2> QED BY <2>2, <2>3, <2>4
<1>2. PatRouted(h)
  BY DEF Routes, PatRouted, SubIn, SamePats
<1>3. Eventful(h)
  <2> SUFFICES ASSUME NEW k \in Kinds, NEW d \in h.kspc[k]
               PROVE  \/ \E t \in Subjects : h.tab[d][t] # "none" /\ k \in SubKinds(t)
                      \/ \E p \in h.pats[d] : k \in PatKinds[p]
    BY DEF Eventful
  <2>1. d \in Conns /\ (d \in g.kspc[k] \/ (d = c /\ k \in SubKinds(s)))
    BY DEF SubIn, KindsOn, Reg
  <2>2. CASE d = c /\ k \in SubKinds(s)
    BY <2>2 DEF SubIn, Reg
  <2>3. CASE \E t \in Subjects : g.tab[d][t] # "none" /\ k \in SubKinds(t)
    BY <2>1, <2>3 DEF SubIn, Reg
  <2>4. CASE \E p \in g.pats[d] : k \in PatKinds[p]
    BY <2>1, <2>4 DEF SubIn, SamePats
  <2> QED BY <2>1, <2>2, <2>3, <2>4 DEF Routes, Eventful
<1> QED BY <1>1, <1>2, <1>3 DEF Routes

\* A subject that leaves sub_tab, its route given up unless the flag is set,
\* keeps routes and events those of the tables.
LEMMA SubOutKept ==
    ASSUME NEW g \in Reg, NEW h \in Reg, NEW c \in Conns, NEW s \in Subjects,
           g.tab[c][s] # "none", SubOut(g, h, c, s), Routes(g)
    PROVE  Routes(h)
<1>1. SubRouted(h)
  <2> SUFFICES ASSUME NEW d \in Conns, NEW x \in Hashes
               PROVE  d \in h.rt[x] <=> \E t \in Subjects : h.tab[d][t] # "none" /\ Hash[t] = x
    BY DEF SubRouted
  <2>1. d \in g.rt[x] <=> \E t \in Subjects : g.tab[d][t] # "none" /\ Hash[t] = x
    BY DEF Routes, SubRouted
  <2>2. CASE d = c /\ x = Hash[s]
    <3>1. c \in g.rt[x]
      BY <2>1, <2>2
    <3>2. d \in h.rt[x] <=> SubCollision(g, c, s)
      BY <2>2, <3>1 DEF SubOut, Reg
    <3>3. \A t \in Subjects : h.tab[c][t] # "none" <=> t # s /\ g.tab[c][t] # "none"
      BY DEF SubOut, Reg
    <3> QED BY <2>2, <3>2, <3>3, CollisionIsOther
  <2>3. CASE d # c
    BY <2>1, <2>3 DEF SubOut, Reg
  <2>4. CASE x # Hash[s]
    <3>1. h.rt[x] = g.rt[x]
      BY <2>4 DEF SubOut, Reg
    <3>2. \A t \in Subjects : t # s => h.tab[d][t] = g.tab[d][t]
      BY DEF SubOut, Reg
    <3> QED BY <2>1, <2>4, <3>1, <3>2
  <2> QED BY <2>2, <2>3, <2>4
<1>2. PatRouted(h)
  BY DEF Routes, PatRouted, SubOut, SamePats
<1>3. Eventful(h)
  <2> SUFFICES ASSUME NEW k \in Kinds, NEW d \in h.kspc[k]
               PROVE  \/ \E t \in Subjects : h.tab[d][t] # "none" /\ k \in SubKinds(t)
                      \/ \E p \in h.pats[d] : k \in PatKinds[p]
    BY DEF Eventful
  <2>1. d \in Conns /\ d \in g.kspc[k] /\ ~(d = c /\ k \in SubKinds(s))
    BY DEF SubOut, KindsOff, Reg
  <2>2. CASE \E t \in Subjects : g.tab[d][t] # "none" /\ k \in SubKinds(t)
    <3>1. PICK t \in Subjects : g.tab[d][t] # "none" /\ k \in SubKinds(t)
      BY <2>2
    <3>2. h.tab[d][t] = g.tab[d][t]
      BY <2>1, <3>1 DEF SubOut, Reg
    <3> QED BY <3>1, <3>2
  <2>3. CASE \E p \in g.pats[d] : k \in PatKinds[p]
    BY <2>1, <2>3 DEF SubOut, Reg, SamePats
  <2> QED BY <2>1, <2>2, <2>3 DEF Routes, Eventful
<1> QED BY <1>1, <1>2, <1>3 DEF Routes

\* Turning event classes on that the tables of the connection already hold
\* keeps routes and events those of the tables (SUBSCRIBE of a subject,
\* PSUBSCRIBE of a pattern that is there).
LEMMA RefreshKept ==
    ASSUME NEW g \in Reg, NEW h \in Reg, NEW c \in Conns, NEW kinds,
           h.tab = g.tab, h.rt = g.rt, SamePats(g, h), h.kspc = KindsOn(g, c, kinds),
           \A k \in kinds \cap Kinds :
               \/ \E t \in Subjects : g.tab[c][t] # "none" /\ k \in SubKinds(t)
               \/ \E p \in g.pats[c] : k \in PatKinds[p],
           Routes(g)
    PROVE  Routes(h)
<1>1. SubRouted(h) /\ PatRouted(h)
  BY DEF Routes, SubRouted, PatRouted, SamePats
<1>2. \A k \in Kinds : \A d \in h.kspc[k] : d \in g.kspc[k] \/ (d = c /\ k \in kinds)
  BY DEF KindsOn, Reg
<1>3. Eventful(h)
  BY <1>2 DEF Routes, Eventful, SamePats
<1> QED BY <1>1, <1>3 DEF Routes

-----------------------------------------------------------------------------
(* A pattern enters or leaves the table of a connection *)

\* A finite set has more than one element when it has one besides a given
\* one.
LEMMA MoreThanOne ==
    ASSUME NEW S, IsFiniteSet(S), NEW s \in S
    PROVE  Cardinality(S) > 1 <=> \E t \in S : t # s
<1>1. IsFiniteSet(S \ {s}) /\ Cardinality(S \ {s}) = Cardinality(S) - 1
  BY FS_RemoveElement
<1>2. Cardinality(S \ {s}) = 0 <=> S \ {s} = {}
  BY <1>1, FS_EmptySet
<1>3. Cardinality(S) \in Nat /\ Cardinality(S \ {s}) \in Nat
  BY <1>1, FS_CardinalityType
<1>4. Cardinality(S) > 1 <=> S \ {s} # {}
  BY <1>1, <1>2, <1>3
<1> QED BY <1>4

\* A finite set has more than no element when it is not empty.
LEMMA MoreThanNone ==
    ASSUME NEW S, IsFiniteSet(S)
    PROVE  Cardinality(S) > 0 <=> S # {}
<1>1. Cardinality(S) \in Nat /\ (Cardinality(S) = 0 <=> S = {})
  BY FS_CardinalityType, FS_EmptySet
<1> QED BY <1>1

\* There are finitely many prefixes of patterns.
LEMMA PrefixesFinite == IsFiniteSet(PatPrefixes)
<1> DEFINE f == [p \in Patterns |-> Prefix[p]]
<1>1. f \in Surjection(Patterns, PatPrefixes)
  BY DEF Surjection, PatPrefixes
<1>2. IsFiniteSet(Patterns)
  BY PubSubAssumption
<1> QED BY <1>1, <1>2, FS_Surjection

\* pat_tab holds finitely many prefixes.
LEMMA PreFinite ==
    ASSUME NEW g \in Reg, NEW c \in Conns
    PROVE  IsFiniteSet(g.pre[c])
<1>1. g.pre[c] \in SUBSET PatPrefixes
  BY DEF Reg
<1> QED BY <1>1, PrefixesFinite, FS_Subset

\* hcnt of a prefix counts the prefixes of its hash in pat_tab: one is there,
\* or one besides the prefix itself.
LEMMA PatHcntMeans ==
    ASSUME NEW g \in Reg, NEW c \in Conns, NEW x
    PROVE  /\ PatHcnt(g, c, x) > 0 <=>
                  \E y \in g.pre[c] : PrefixHash[y] = PrefixHash[x]
           /\ x \in g.pre[c] =>
                  (PatHcnt(g, c, x) > 1 <=>
                      \E y \in g.pre[c] : y # x /\ PrefixHash[y] = PrefixHash[x])
<1> DEFINE S == {y \in g.pre[c] : PrefixHash[y] = PrefixHash[x]}
<1>1. S \in SUBSET g.pre[c]
  OBVIOUS
<1>2. IsFiniteSet(S)
  <2> HIDE DEF S
  <2> QED BY <1>1, PreFinite, FS_Subset
<1>3. PatHcnt(g, c, x) = Cardinality(S)
  BY DEF PatHcnt
<1>4. Cardinality(S) > 0 <=> S # {}
  <2> HIDE DEF S
  <2> QED BY <1>2, MoreThanNone
<1>5. ASSUME x \in g.pre[c] PROVE Cardinality(S) > 1 <=> \E y \in S : y # x
  <2>1. x \in S
    BY <1>5
  <2> HIDE DEF S
  <2> QED BY <2>1, <1>2, MoreThanOne
<1> QED BY <1>3, <1>4, <1>5

SameSubs(g, h) == h.tab = g.tab /\ h.rt = g.rt

PatIn(g, h, c, p) ==
    /\ h.pre  = [g.pre EXCEPT ![c] = @ \cup {Prefix[p]}]
    /\ h.pats = [g.pats EXCEPT ![c] = @ \cup {p}]
    /\ h.prt  = [g.prt EXCEPT ![PrefixHash[Prefix[p]]] = @ \cup {c}]
    /\ h.kspc = KindsOn(g, c, PatKinds[p])
    /\ SameSubs(g, h)

PatOut(g, h, c, p, coll) ==
    /\ h.pats = [g.pats EXCEPT ![c] = @ \ {p}]
    /\ PreDrop(g, h, c, p, coll)
    /\ h.kspc = KindsOff(g, c, PatKinds[p])
    /\ SameSubs(g, h)

\* A pattern that enters pat_tab under a new prefix, with its route and its
\* event classes, keeps routes and events those of the tables.
LEMMA PatInKept ==
    ASSUME NEW g \in Reg, NEW h \in Reg, NEW c \in Conns, NEW p \in Patterns,
           NEW O \in SUBSET Conns,
           PatIn(g, h, c, p), Routes(g), PreRouted(g, O)
    PROVE  Routes(h) /\ PreRouted(h, O)
<1>0. PrefixHash[Prefix[p]] \in PreHashes
  BY DEF PreHashes, PatPrefixes
<1>1. SubRouted(h)
  BY DEF Routes, SubRouted, PatIn, SameSubs
<1>2. PatRouted(h)
  <2> SUFFICES ASSUME NEW d \in Conns, NEW q \in h.pats[d]
               PROVE  d \in h.prt[PrefixHash[Prefix[q]]] /\ Prefix[q] \in h.pre[d]
    BY DEF PatRouted
  <2>1. q \in Patterns /\ PrefixHash[Prefix[q]] \in PreHashes
    BY DEF Reg, PreHashes, PatPrefixes
  <2>2. CASE q \in g.pats[d]
    <3>1. d \in g.prt[PrefixHash[Prefix[q]]] /\ Prefix[q] \in g.pre[d]
      BY <2>2 DEF Routes, PatRouted
    <3> QED BY <2>1, <3>1 DEF PatIn, Reg
  <2>3. CASE d = c /\ q = p
    BY <1>0, <2>3 DEF PatIn, Reg
  <2> QED BY <2>2, <2>3 DEF PatIn, Reg
<1>3. Eventful(h)
  <2> SUFFICES ASSUME NEW k \in Kinds, NEW d \in h.kspc[k]
               PROVE  \/ \E t \in Subjects : h.tab[d][t] # "none" /\ k \in SubKinds(t)
                      \/ \E q \in h.pats[d] : k \in PatKinds[q]
    BY DEF Eventful
  <2>1. d \in Conns /\ (d \in g.kspc[k] \/ (d = c /\ k \in PatKinds[p]))
    BY DEF PatIn, KindsOn, Reg
  <2>2. \A q \in g.pats[d] : q \in h.pats[d]
    BY <2>1 DEF PatIn, Reg
  <2>3. CASE d = c /\ k \in PatKinds[p]
    BY <2>3 DEF PatIn, Reg
  <2>4. CASE d \in g.kspc[k]
    BY <2>2, <2>4 DEF Routes, Eventful, PatIn, SameSubs
  <2> QED BY <2>1, <2>3, <2>4
<1>4. PreRouted(h, O)
  <2> SUFFICES ASSUME NEW d \in O, NEW x \in PreHashes, d \in h.prt[x]
               PROVE  \E y \in h.pre[d] : PrefixHash[y] = x
    BY DEF PreRouted
  <2>1. CASE d \in g.prt[x]
    <3>1. PICK y \in g.pre[d] : PrefixHash[y] = x
      BY <2>1 DEF PreRouted
    <3> QED BY <3>1 DEF PatIn, Reg
  <2>2. CASE d = c /\ x = PrefixHash[Prefix[p]]
    <3>1. Prefix[p] \in h.pre[d]
      BY <2>2 DEF PatIn, Reg
    <3> QED BY <2>2, <3>1
  <2> QED BY <1>0, <2>1, <2>2 DEF PatIn, Reg
<1> QED BY <1>1, <1>2, <1>3, <1>4 DEF Routes

\* A pattern that leaves, its route given up only when no other pattern has
\* the hash, keeps routes and events those of the tables.
LEMMA PatOutKept ==
    ASSUME NEW g \in Reg, NEW h \in Reg, NEW c \in Conns, NEW p \in Patterns,
           NEW coll \in BOOLEAN,
           PatOut(g, h, c, p, coll), Routes(g),
           \A d \in Conns : \A q \in h.pats[d] : Prefix[q] \in h.pre[d],
           \A q \in g.pats[c] :
               q # p /\ PrefixHash[Prefix[q]] = PrefixHash[Prefix[p]] => coll
    PROVE  Routes(h)
<1>1. SubRouted(h)
  BY DEF Routes, SubRouted, PatOut, SameSubs
<1>2. PatRouted(h)
  <2> SUFFICES ASSUME NEW d \in Conns, NEW q \in h.pats[d]
               PROVE  d \in h.prt[PrefixHash[Prefix[q]]]
    BY DEF PatRouted
  <2>1. q \in Patterns /\ PrefixHash[Prefix[q]] \in PreHashes
    BY DEF Reg, PreHashes, PatPrefixes
  <2>2. q \in g.pats[d] /\ (d = c => q # p)
    BY DEF PatOut, Reg
  <2>3. d \in g.prt[PrefixHash[Prefix[q]]]
    BY <2>2 DEF Routes, PatRouted
  <2>4. CASE d = c /\ PrefixHash[Prefix[q]] = PrefixHash[Prefix[p]]
    BY <2>1, <2>2, <2>3, <2>4 DEF PatOut, PreDrop
  <2>5. CASE ~(d = c /\ PrefixHash[Prefix[q]] = PrefixHash[Prefix[p]])
    BY <2>1, <2>3, <2>5 DEF PatOut, PreDrop
  <2> QED BY <2>4, <2>5
<1>3. Eventful(h)
  <2> SUFFICES ASSUME NEW k \in Kinds, NEW d \in h.kspc[k]
               PROVE  \/ \E t \in Subjects : h.tab[d][t] # "none" /\ k \in SubKinds(t)
                      \/ \E q \in h.pats[d] : k \in PatKinds[q]
    BY DEF Eventful
  <2>1. d \in Conns /\ d \in g.kspc[k] /\ ~(d = c /\ k \in PatKinds[p])
    BY DEF PatOut, KindsOff, Reg
  <2>2. CASE \E t \in Subjects : g.tab[d][t] # "none" /\ k \in SubKinds(t)
    BY <2>2 DEF PatOut, SameSubs
  <2>3. CASE \E q \in g.pats[d] : k \in PatKinds[q]
    <3>1. PICK q \in g.pats[d] : k \in PatKinds[q]
      BY <2>3
    <3>2. q \in h.pats[d]
      BY <2>1, <3>1 DEF PatOut, Reg
    <3> QED BY <3>1, <3>2
  <2> QED BY <2>1, <2>2, <2>3 DEF Routes, Eventful
<1> QED BY <1>1, <1>2, <1>3 DEF Routes

-----------------------------------------------------------------------------
(* The counts and the numbers of the subscriptions *)

Listed(tab, d) == {x \in Subjects : tab[d][x] = "route"}

\* One entry of sub_tab that changes its kind changes the number of
\* subscriptions of that connection by what the kind says, and of no other
\* connection.
LEMMA CountOfRoutes ==
    ASSUME NEW g \in Reg, NEW c \in Conns, NEW s \in Subjects,
           NEW kind \in {"none", "route", "cont"}, NEW f,
           f = [g.tab EXCEPT ![c][s] = kind]
    PROVE  /\ \A d \in Conns : Cardinality(Listed(g.tab, d)) \in Nat
           /\ Cardinality(Listed(f, c)) =
                  CASE kind = "route" /\ g.tab[c][s] # "route" -> Cardinality(Listed(g.tab, c)) + 1
                    [] kind # "route" /\ g.tab[c][s] = "route" -> Cardinality(Listed(g.tab, c)) - 1
                    [] OTHER -> Cardinality(Listed(g.tab, c))
           /\ \A d \in Conns \ {c} : Listed(f, d) = Listed(g.tab, d)
<1> DEFINE S == Listed(g.tab, c)
           T == Listed(f, c)
<1>1. ASSUME NEW d \in Conns
      PROVE  IsFiniteSet(Listed(g.tab, d)) /\ Cardinality(Listed(g.tab, d)) \in Nat
  <2>1. Listed(g.tab, d) \in SUBSET Subjects /\ IsFiniteSet(Subjects)
    BY PubSubAssumption DEF Listed
  <2> QED BY <2>1, FS_Subset, FS_CardinalityType
<1>2. \A d \in Conns \ {c} : Listed(f, d) = Listed(g.tab, d)
  BY DEF Reg, Listed
<1>3. /\ f[c][s] = kind
      /\ \A x \in Subjects \ {s} : f[c][x] = g.tab[c][x]
  BY DEF Reg
<1>4. /\ s \in S <=> g.tab[c][s] = "route"
      /\ T = IF kind = "route" THEN S \cup {s} ELSE S \ {s}
  BY <1>3 DEF Listed
<1>5. IsFiniteSet(S) /\ Cardinality(S) \in Nat
  BY <1>1
<1> HIDE DEF S, T
<1>6. /\ Cardinality(S \cup {s}) = IF s \in S THEN Cardinality(S) ELSE Cardinality(S) + 1
      /\ Cardinality(S \ {s}) = IF s \in S THEN Cardinality(S) - 1 ELSE Cardinality(S)
  BY <1>5, FS_AddElement, FS_RemoveElement
<1>7. Cardinality(T) = CASE kind = "route" /\ g.tab[c][s] # "route" -> Cardinality(S) + 1
                         [] kind # "route" /\ g.tab[c][s] = "route" -> Cardinality(S) - 1
                         [] OTHER -> Cardinality(S)
  BY <1>4, <1>6
<1> QED BY <1>1, <1>2, <1>7 DEF S, T

KindStays(g, h, kind) ==
    \A d \in Conns, t \in Subjects : g.tab[d][t] = kind => h.tab[d][t] = kind

\* What is said of patterns and prefixes holds on when subjects change.
LEMMA PatsKept ==
    ASSUME NEW g, NEW h, SamePats(g, h)
    PROVE  PatExact(g) => PatExact(h)
BY DEF PatExact, PrtExact, PreUsed, SamePats

\* A step that changes the event classes only, and keeps them those of the
\* tables, keeps the invariant of the tables.
LEMMA SameKept ==
    ASSUME NEW g \in Reg, NEW h \in Reg, NEW O, NEW I, Kept(g, O, I),
           SameSubs(g, h), SamePats(g, h), SameSess(g, h), SameIds(g, h), Routes(h)
    PROVE  Kept(h, O, I)
BY PatsKept DEF Kept, Tables, Counted, Numbered, PreRouted, InboxesKept, Routes,
                SameSubs, SamePats, SameSess, SameIds

\* do_subscribe_cb keeps the invariant and takes at most one number of
\* next_inbox_id.
LEMMA DoSubscribeKept ==
    ASSUME NEW g, NEW O \in SUBSET Conns, NEW I, Kept(g, O, I),
           NEW c \in Conns, NEW s \in Subjects
    PROVE  LET r == DoSubscribe(g, c, s)
           IN  /\ Kept(r.g, O, I)
               /\ r.ok \in BOOLEAN
               /\ r.g.next[c] <= g.next[c] + 1
               /\ \A d \in Conns \ {c} : r.g.next[d] = g.next[d]
<1>0. g \in Reg /\ Routes(g)
  BY DEF Kept, Tables, Routes
<1>1. CASE g.tab[c][s] # "none"
  <2> DEFINE h == UpdateRoute(g, SubKinds(s), c, TRUE)
  <2>1. DoSubscribe(g, c, s) = [g |-> h, ok |-> FALSE]
    BY <1>1 DEF DoSubscribe
  <2>2. /\ h \in Reg /\ h.tab = g.tab /\ h.rt = g.rt
        /\ SamePats(g, h) /\ SameSess(g, h) /\ SameIds(g, h)
        /\ h.kspc = KindsOn(g, c, SubKinds(s))
    BY <1>0, KindsTurnedOn
  <2> HIDE DEF h
  <2>3. Routes(h)
    BY <1>0, <1>1, <2>2, RefreshKept
  <2>4. Kept(h, O, I)
    BY <1>0, <2>2, <2>3, SameKept DEF SameSubs
  <2>5. h.next = g.next /\ g.next \in [Conns -> Nat]
    BY <1>0, <2>2 DEF SameIds, Reg
  <2> QED BY <2>1, <2>4, <2>5
<1>2. CASE g.tab[c][s] = "none"
  <2> DEFINE id == g.next[c] + 1
             f0 == Put(g, c, s, "route")
             f  == [f0 EXCEPT !.ibx[c][s] = id, !.next[c] = id, !.cnt[c] = @ + 1]
             h  == AddSub(f, c, s)
  <2>1. DoSubscribe(g, c, s) = [g |-> h, ok |-> TRUE]
    BY <1>2 DEF DoSubscribe
  <2>2. /\ f0 \in Reg
        /\ f0.tab = [g.tab EXCEPT ![c][s] = "route"]
        /\ f0.rt = g.rt /\ f0.kspc = g.kspc
        /\ SamePats(g, f0) /\ SameSess(g, f0) /\ SameIds(g, f0)
    BY <1>0, PutEffect
  <2>3. f \in Reg
    <3> HIDE DEF f0
    <3>1. id \in Nat /\ f0.cnt[c] + 1 \in Nat
      BY <1>0, <2>2 DEF Reg
    <3> HIDE DEF id
    <3> QED BY <2>2, <3>1 DEF Reg
  <2>4. /\ f.tab = f0.tab /\ f.rt = g.rt /\ f.kspc = g.kspc
        /\ SamePats(g, f) /\ SameSess(g, f)
        /\ f.ibx = [g.ibx EXCEPT ![c][s] = id]
        /\ f.next = [g.next EXCEPT ![c] = id]
        /\ f.cnt = [g.cnt EXCEPT ![c] = @ + 1]
    <3> HIDE DEF f0, id
    <3> QED BY <2>2 DEF Reg, SamePats, SameSess, SameIds
  <2> HIDE DEF f
  <2>5. /\ h \in Reg /\ h.tab = f.tab
        /\ h.rt = [f.rt EXCEPT ![Hash[s]] = @ \cup {c}]
        /\ SamePats(f, h) /\ SameSess(f, h) /\ SameIds(f, h)
        /\ h.kspc = KindsOn(f, c, SubKinds(s))
    BY <2>3, AddSubEffect
  <2> HIDE DEF h
  <2>6. SubIn(g, h, c, s, "route")
    BY <2>2, <2>4, <2>5 DEF SubIn, SamePats, SameSess, KindsOn
  <2>7. Routes(h)
    BY <1>0, <2>5, <2>6, SubInKept
  <2>8. PreRouted(h, O) /\ h.cb \subseteq h.sess
    BY <2>6 DEF Kept, Tables, PreRouted, SubIn, SamePats, SameSess
  <2>9. /\ h.tab = [g.tab EXCEPT ![c][s] = "route"]
        /\ h.ibx = [g.ibx EXCEPT ![c][s] = id]
        /\ h.next = [g.next EXCEPT ![c] = id]
        /\ h.cnt = [g.cnt EXCEPT ![c] = @ + 1]
    BY <2>2, <2>4, <2>5 DEF SameIds
  <2>10. Counted(h)
    <3>1. /\ Cardinality(Listed(h.tab, c)) = Cardinality(Listed(g.tab, c)) + 1
          /\ \A d \in Conns \ {c} : Listed(h.tab, d) = Listed(g.tab, d)
      BY <1>0, <1>2, <2>9, CountOfRoutes
    <3>2. \A d \in Conns : /\ g.cnt[d] = Cardinality(Listed(g.tab, d))
                          /\ h.cnt[d] = IF d = c THEN g.cnt[d] + 1 ELSE g.cnt[d]
      BY <1>0, <2>9 DEF Kept, Tables, Counted, Listed, Reg
    <3>3. \A d \in Conns : h.cnt[d] = Cardinality(Listed(h.tab, d))
      BY <3>1, <3>2
    <3> QED BY <3>3 DEF Counted, Listed
  <2>11. Numbered(h)
    <3>1. \A d \in Conns, t \in Subjects :
            /\ g.ibx[d][t] <= g.next[d] /\ g.ibx[d][t] \in Nat /\ g.next[d] \in Nat
            /\ h.ibx[d][t] = IF d = c /\ t = s THEN id ELSE g.ibx[d][t]
            /\ h.next[d] = IF d = c THEN id ELSE g.next[d]
            /\ h.tab[d][t] = IF d = c /\ t = s THEN "route" ELSE g.tab[d][t]
      BY <1>0, <2>9 DEF Kept, Tables, Numbered, Reg
    <3> QED BY <3>1 DEF Kept, Tables, Numbered
  <2>12. InboxesKept(h, I)
    <3>1. \A ibx \in I : /\ ibx \in Conns \X Subjects \X Hashes \X Nat
                         /\ ibx[4] <= g.next[ibx[1]]
      BY DEF Kept, InboxesKept
    <3>2. \A ibx \in I, t \in Subjects :
            /\ h.ibx[ibx[1]][t] = IF ibx[1] = c /\ t = s THEN id ELSE g.ibx[ibx[1]][t]
            /\ h.next[ibx[1]] = IF ibx[1] = c THEN id ELSE g.next[ibx[1]]
            /\ g.next[ibx[1]] \in Nat
      BY <1>0, <2>9, <3>1 DEF Reg
    <3> QED BY <3>1, <3>2 DEF Kept, InboxesKept
  <2>13. Kept(h, O, I)
    <3>1. PatExact(h)
      BY <2>6, PatsKept DEF Kept, SubIn
    <3> QED BY <2>5, <2>7, <2>8, <2>10, <2>11, <2>12, <3>1 DEF Kept, Tables, Routes
  <2>14. h.next[c] <= g.next[c] + 1 /\ \A d \in Conns \ {c} : h.next[d] = g.next[d]
    BY <1>0, <2>9 DEF Reg
  <2> QED BY <2>1, <2>13, <2>14
<1> QED BY <1>1, <1>2

\* do_unsubscribe keeps the invariant and leaves the continuations in the
\* table.
LEMMA DoUnsubscribeKept ==
    ASSUME NEW g, NEW O \in SUBSET Conns, NEW I, Kept(g, O, I),
           NEW c \in Conns, NEW s \in Subjects
    PROVE  LET r == DoUnsubscribe(g, c, s)
           IN  /\ Kept(r.g, O, I)
               /\ r.ok \in BOOLEAN
               /\ r.g.next = g.next
               /\ KindStays(g, r.g, "cont")
<1>0. g \in Reg /\ Routes(g)
  BY DEF Kept, Tables, Routes
<1>1. CASE g.tab[c][s] # "route"
  <2>1. DoUnsubscribe(g, c, s) = [g |-> g, ok |-> FALSE]
    BY <1>1 DEF DoUnsubscribe, SubRem
  <2> QED BY <2>1 DEF KindStays
<1>2. CASE g.tab[c][s] = "route"
  <2> DEFINE f0   == Put(g, c, s, "none")
             f    == [f0 EXCEPT !.cnt[c] = @ - 1, !.ibx[c][s] = 0]
             coll == SubCollision(g, c, s)
             h    == DelSub(f, c, s, coll)
  <2>1. DoUnsubscribe(g, c, s) = [g |-> h, ok |-> TRUE] /\ coll \in BOOLEAN
    BY <1>2 DEF DoUnsubscribe, SubRem, SubCollision
  <2>2. /\ f0 \in Reg
        /\ f0.tab = [g.tab EXCEPT ![c][s] = "none"]
        /\ f0.rt = g.rt /\ f0.kspc = g.kspc
        /\ SamePats(g, f0) /\ SameSess(g, f0) /\ SameIds(g, f0)
    BY <1>0, PutEffect
  <2>3. /\ Cardinality(Listed(f0.tab, c)) = Cardinality(Listed(g.tab, c)) - 1
        /\ \A d \in Conns \ {c} : Listed(f0.tab, d) = Listed(g.tab, d)
        /\ Cardinality(Listed(f0.tab, c)) \in Nat
    <3>1. /\ Cardinality(Listed(f0.tab, c)) = Cardinality(Listed(g.tab, c)) - 1
          /\ \A d \in Conns \ {c} : Listed(f0.tab, d) = Listed(g.tab, d)
      BY <1>0, <1>2, <2>2, CountOfRoutes
    <3>2. f0.tab = [f0.tab EXCEPT ![c][s] = "none"]
      BY <2>2 DEF Reg
    <3>3. Cardinality(Listed(f0.tab, c)) \in Nat
      BY <2>2, <3>2, CountOfRoutes
    <3> QED BY <3>1, <3>3
  <2>4. \A d \in Conns : g.cnt[d] = Cardinality(Listed(g.tab, d))
    BY DEF Kept, Tables, Counted, Listed
  <2>5. f \in Reg
    <3>1. f0.cnt[c] - 1 \in Nat
      BY <2>2, <2>3, <2>4 DEF SameIds
    <3> HIDE DEF f0
    <3> QED BY <2>2, <3>1 DEF Reg
  <2>6. /\ f.tab = f0.tab /\ f.rt = g.rt /\ f.kspc = g.kspc
        /\ SamePats(g, f) /\ SameSess(g, f)
        /\ f.ibx = [g.ibx EXCEPT ![c][s] = 0]
        /\ f.next = g.next
        /\ f.cnt = [g.cnt EXCEPT ![c] = @ - 1]
    <3> HIDE DEF f0
    <3> QED BY <2>2 DEF Reg, SamePats, SameSess, SameIds
  <2> HIDE DEF f, coll
  <2>7. /\ h \in Reg /\ h.tab = f.tab
        /\ h.rt = [f.rt EXCEPT ![Hash[s]] = IF coll THEN @ ELSE @ \ {c}]
        /\ SamePats(f, h) /\ SameSess(f, h) /\ SameIds(f, h)
        /\ h.kspc = KindsOff(f, c, SubKinds(s))
    BY <2>1, <2>5, DelSubEffect
  <2> HIDE DEF h
  <2>8. SubOut(g, h, c, s)
    BY <2>2, <2>6, <2>7 DEF SubOut, SamePats, SameSess, KindsOff, coll
  <2>9. Routes(h)
    BY <1>0, <1>2, <2>7, <2>8, SubOutKept
  <2>10. PreRouted(h, O) /\ h.cb \subseteq h.sess
    BY <2>8 DEF Kept, Tables, PreRouted, SubOut, SamePats, SameSess
  <2>11. /\ h.tab = [g.tab EXCEPT ![c][s] = "none"]
         /\ h.ibx = [g.ibx EXCEPT ![c][s] = 0]
         /\ h.next = g.next
         /\ h.cnt = [g.cnt EXCEPT ![c] = @ - 1]
    BY <2>2, <2>6, <2>7 DEF SameIds
  <2>12. Counted(h)
    <3>1. \A d \in Conns : h.cnt[d] = IF d = c THEN g.cnt[d] - 1 ELSE g.cnt[d]
      BY <1>0, <2>11 DEF Reg
    <3>2. \A d \in Conns : h.cnt[d] = Cardinality(Listed(h.tab, d))
      BY <2>2, <2>3, <2>4, <2>11, <3>1
    <3> QED BY <3>2 DEF Counted, Listed
  <2>13. \A d \in Conns, t \in Subjects :
            /\ h.ibx[d][t] = IF d = c /\ t = s THEN 0 ELSE g.ibx[d][t]
            /\ h.tab[d][t] = IF d = c /\ t = s THEN "none" ELSE g.tab[d][t]
            /\ g.next[d] \in Nat
    BY <1>0, <2>11 DEF Reg
  <2>14. Numbered(h)
    BY <2>11, <2>13 DEF Kept, Tables, Numbered
  <2>15. InboxesKept(h, I)
    BY <2>11, <2>13 DEF Kept, InboxesKept
  <2>16. Kept(h, O, I)
    <3>1. PatExact(h)
      BY <2>8, PatsKept DEF Kept, SubOut
    <3> QED BY <2>7, <2>9, <2>10, <2>12, <2>14, <2>15, <3>1 DEF Kept, Tables, Routes
  <2>17. KindStays(g, h, "cont")
    BY <1>2, <2>13 DEF KindStays
  <2>18. h.next = g.next
    BY <2>11
  <2> QED BY <2>1, <2>16, <2>17, <2>18
<1> QED BY <1>1, <1>2

\* save_blocked_cmd of a subject that is not subscribed keeps the invariant.
LEMMA BlockKept ==
    ASSUME NEW g, NEW O \in SUBSET Conns, NEW I, Kept(g, O, I),
           NEW c \in Conns, NEW s \in Subjects, g.tab[c][s] = "none"
    PROVE  LET h == AddSub(Put(g, c, s, "cont"), c, s)
           IN  Kept(h, O, I) /\ h.next = g.next
<1>0. g \in Reg /\ Routes(g)
  BY DEF Kept, Tables, Routes
<1> DEFINE f == Put(g, c, s, "cont")
           h == AddSub(f, c, s)
<1>1. /\ f \in Reg
      /\ f.tab = [g.tab EXCEPT ![c][s] = "cont"]
      /\ f.rt = g.rt /\ f.kspc = g.kspc
      /\ SamePats(g, f) /\ SameSess(g, f) /\ SameIds(g, f)
  BY <1>0, PutEffect
<1> HIDE DEF f
<1>2. /\ h \in Reg /\ h.tab = f.tab
      /\ h.rt = [f.rt EXCEPT ![Hash[s]] = @ \cup {c}]
      /\ SamePats(f, h) /\ SameSess(f, h) /\ SameIds(f, h)
      /\ h.kspc = KindsOn(f, c, SubKinds(s))
  BY <1>1, AddSubEffect
<1> HIDE DEF h
<1>3. SubIn(g, h, c, s, "cont")
  BY <1>1, <1>2 DEF SubIn, SamePats, SameSess, KindsOn
<1>4. Routes(h)
  BY <1>0, <1>2, <1>3, SubInKept
<1>5. PreRouted(h, O) /\ h.cb \subseteq h.sess
  BY <1>3 DEF Kept, Tables, PreRouted, SubIn, SamePats, SameSess
<1>6. SameIds(g, h) /\ h.tab = [g.tab EXCEPT ![c][s] = "cont"]
  BY <1>1, <1>2 DEF SameIds
<1>7. Counted(h)
  <2>1. \A d \in Conns : Cardinality(Listed(h.tab, d)) = Cardinality(Listed(g.tab, d))
    BY <1>0, <1>6, CountOfRoutes
  <2> QED BY <1>6, <2>1 DEF Kept, Tables, Counted, Listed, SameIds
<1>8. Numbered(h) /\ InboxesKept(h, I)
  <2>1. \A d \in Conns, t \in Subjects :
            h.tab[d][t] = IF d = c /\ t = s THEN "cont" ELSE g.tab[d][t]
    BY <1>0, <1>6 DEF Reg
  <2> QED BY <1>6, <2>1 DEF Kept, Tables, Numbered, InboxesKept, SameIds
<1>9. Kept(h, O, I)
  <2>1. PatExact(h)
    BY <1>3, PatsKept DEF Kept, SubIn
  <2> QED BY <1>2, <1>4, <1>5, <1>7, <1>8, <2>1 DEF Kept, Tables, Routes
<1> QED BY <1>6, <1>9 DEF SameIds, h, f

\* Removing an entry, whatever its kind, with the collision flag that rem
\* reports, keeps routes and events those of the tables.
LEMMA RemSubEffect ==
    ASSUME NEW g \in Reg, NEW c \in Conns, NEW s \in Subjects,
           g.tab[c][s] # "none", Routes(g)
    PROVE  LET h == DelSub(Put(g, c, s, "none"), c, s, SubCollision(g, c, s))
           IN  /\ h \in Reg
               /\ Routes(h)
               /\ h.tab = [g.tab EXCEPT ![c][s] = "none"]
               /\ SamePats(g, h) /\ SameSess(g, h) /\ SameIds(g, h)
<1> DEFINE f    == Put(g, c, s, "none")
           coll == SubCollision(g, c, s)
           h    == DelSub(f, c, s, coll)
<1>1. /\ f \in Reg
      /\ f.tab = [g.tab EXCEPT ![c][s] = "none"]
      /\ f.rt = g.rt /\ f.kspc = g.kspc
      /\ SamePats(g, f) /\ SameSess(g, f) /\ SameIds(g, f)
  BY PutEffect
<1>2. coll \in BOOLEAN
  BY DEF SubCollision
<1> HIDE DEF f, coll
<1>3. /\ h \in Reg /\ h.tab = f.tab
      /\ h.rt = [f.rt EXCEPT ![Hash[s]] = IF coll THEN @ ELSE @ \ {c}]
      /\ SamePats(f, h) /\ SameSess(f, h) /\ SameIds(f, h)
      /\ h.kspc = KindsOff(f, c, SubKinds(s))
  BY <1>1, <1>2, DelSubEffect
<1> HIDE DEF h
<1>4. SubOut(g, h, c, s)
  BY <1>1, <1>3 DEF SubOut, SamePats, SameSess, KindsOff, coll
<1>5. Routes(h)
  BY <1>3, <1>4, SubOutKept
<1> QED BY <1>1, <1>3, <1>5 DEF SamePats, SameSess, SameIds, h, f, coll

\* pop_continue_tab keeps the invariant and leaves the subscriptions of the
\* client in the table.
LEMMA UnblockKept ==
    ASSUME NEW g, NEW O \in SUBSET Conns, NEW I, Kept(g, O, I),
           NEW c \in Conns, NEW s \in Subjects, g.tab[c][s] = "cont"
    PROVE  LET h == DelSub(Put(g, c, s, "none"), c, s, SubCollision(g, c, s))
           IN  /\ Kept(h, O, I) /\ h.next = g.next
               /\ KindStays(g, h, "route")
<1> DEFINE h == DelSub(Put(g, c, s, "none"), c, s, SubCollision(g, c, s))
<1>0. g \in Reg /\ Routes(g)
  BY DEF Kept, Tables, Routes
<1>1. /\ h \in Reg
      /\ Routes(h)
      /\ h.tab = [g.tab EXCEPT ![c][s] = "none"]
      /\ SamePats(g, h) /\ SameSess(g, h) /\ SameIds(g, h)
  BY <1>0, RemSubEffect
<1> HIDE DEF h
<1>2. PreRouted(h, O) /\ h.cb \subseteq h.sess
  BY <1>1 DEF Kept, Tables, PreRouted, SamePats, SameSess
<1>3. Counted(h)
  <2>1. \A d \in Conns : Cardinality(Listed(h.tab, d)) = Cardinality(Listed(g.tab, d))
    BY <1>0, <1>1, CountOfRoutes
  <2> QED BY <1>1, <2>1 DEF Kept, Tables, Counted, Listed, SameIds
<1>4. \A d \in Conns, t \in Subjects :
          h.tab[d][t] = IF d = c /\ t = s THEN "none" ELSE g.tab[d][t]
  BY <1>0, <1>1 DEF Reg
<1>5. Numbered(h) /\ InboxesKept(h, I)
  BY <1>1, <1>4 DEF Kept, Tables, Numbered, InboxesKept, SameIds
<1>6. Kept(h, O, I)
  <2>1. PatExact(h)
    BY <1>1, PatsKept DEF Kept
  <2> QED BY <1>1, <1>2, <1>3, <1>5, <2>1 DEF Kept, Tables, Routes
<1>7. h.next = g.next
  BY <1>1 DEF SameIds
<1> QED BY <1>4, <1>6, <1>7 DEF h, KindStays

\* What is said of counts, numbers and inboxes holds on when patterns change.
LEMMA SubsKept ==
    ASSUME NEW g, NEW h, SameSubs(g, h), SameIds(g, h), NEW I
    PROVE  /\ Counted(g) => Counted(h)
           /\ Numbered(g) => Numbered(h)
           /\ InboxesKept(g, I) => InboxesKept(h, I)
BY DEF Counted, Numbered, InboxesKept, SameSubs, SameIds

\* do_psubscribe_cb keeps the invariant, whether it adds the pattern,
\* refreshes one or leaves an empty prefix behind.
LEMMA DoPsubscribeKept ==
    ASSUME NEW g, NEW O \in SUBSET Conns, NEW I, Kept(g, O, I),
           NEW c \in Conns, NEW p \in Patterns, NEW inbox \in BOOLEAN,
           inbox => c \in g.sess
    PROVE  LET r == DoPsubscribe(g, c, p, inbox)
           IN  Kept(r.g, O, I) /\ r.ok \in BOOLEAN /\ r.g.next = g.next /\ r.g.tab = g.tab
<1> DEFINE x  == Prefix[p]
           g1 == [g EXCEPT !.pre[c] = @ \cup {x}]
<1>0. g \in Reg /\ Routes(g) /\ PreRouted(g, O) /\ g.cb \subseteq g.sess
  BY DEF Kept, Tables, Routes
<1>1. x \in PatPrefixes /\ (p \in g.pats[c] => x \in g.pre[c])
  BY <1>0 DEF PatPrefixes, Routes, PatRouted
<1>2. /\ g1 \in Reg
      /\ g1.pre = [g.pre EXCEPT ![c] = @ \cup {x}]
      /\ SameSubs(g, g1) /\ SameSess(g, g1) /\ SameIds(g, g1)
      /\ g1.pats = g.pats /\ g1.prt = g.prt /\ g1.kspc = g.kspc
  BY <1>0, <1>1 DEF Reg, SameSubs, SameSess, SameIds
<1>3. CASE x \notin g.pre[c] /\ p \notin Bad
  <2> DEFINE f == [g1 EXCEPT !.pats[c] = @ \cup {p},
                             !.cb = IF inbox THEN @ \cup {c} ELSE @]
             h == AddPat(f, c, p)
  <2>1. DoPsubscribe(g, c, p, inbox) = [g |-> h, ok |-> TRUE]
    BY <1>1, <1>3 DEF DoPsubscribe
  <2>2. f \in Reg
    <3> DEFINE cbs == IF inbox THEN g.cb \cup {c} ELSE g.cb
    <3>1. cbs \in SUBSET Conns /\ g1.cb = g.cb
      BY <1>0, <1>2 DEF Reg, SameSess
    <3>2. f = [g1 EXCEPT !.pats[c] = @ \cup {p}, !.cb = cbs]
      <4> HIDE DEF g1
      <4> QED BY <1>2, <3>1 DEF Reg
    <3> HIDE DEF g1, cbs
    <3> QED BY <1>2, <3>1, <3>2 DEF Reg
  <2>3. /\ f.pre = g1.pre /\ f.pats = [g.pats EXCEPT ![c] = @ \cup {p}]
        /\ f.prt = g.prt /\ f.kspc = g.kspc /\ f.sess = g.sess
        /\ f.cb = (IF inbox THEN g.cb \cup {c} ELSE g.cb)
        /\ SameSubs(g, f) /\ SameIds(g, f)
    <3> HIDE DEF g1
    <3> QED BY <1>2 DEF Reg, SameSubs, SameSess, SameIds
  <2> HIDE DEF f, g1
  <2>4. /\ h \in Reg
        /\ h.tab = f.tab /\ h.rt = f.rt
        /\ h.prt = [f.prt EXCEPT ![PrefixHash[Prefix[p]]] = @ \cup {c}]
        /\ h.pre = f.pre /\ h.pats = f.pats /\ SameSess(f, h) /\ SameIds(f, h)
        /\ h.kspc = KindsOn(f, c, PatKinds[p])
    BY <2>2, AddPatEffect
  <2> HIDE DEF h
  <2>5. PatIn(g, h, c, p)
    BY <1>2, <2>3, <2>4 DEF PatIn, SameSubs, KindsOn
  <2>6. Routes(h) /\ PreRouted(h, O)
    BY <1>0, <2>4, <2>5, PatInKept
  <2>7. SameSubs(g, h) /\ SameIds(g, h)
    BY <2>3, <2>4 DEF SameSubs, SameIds
  <2>8. h.cb \subseteq h.sess
    BY <1>0, <2>3, <2>4 DEF SameSess
  <2>9. Kept(h, O, I)
    <3>1. PatExact(h)
      <4> SUFFICES ASSUME BadApart PROVE PrtExact(h) /\ PreUsed(h)
        BY DEF PatExact
      <4>1. PrtExact(g) /\ PreUsed(g)
        BY DEF Kept, PatExact
      <4>2. \A d \in Conns : \A q :
                /\ q \in h.pats[d] <=> q \in g.pats[d] \/ (d = c /\ q = p)
                /\ q \in h.pre[d]  <=> q \in g.pre[d]  \/ (d = c /\ q = x)
        BY <1>0, <2>5 DEF PatIn, Reg
      <4>3. \A d \in Conns, y \in PreHashes :
                d \in h.prt[y] => d \in g.prt[y] \/ (d = c /\ y = PrefixHash[x])
        BY <1>0, <2>5 DEF PatIn, Reg
      <4>4. PrtExact(h)
        BY <4>1, <4>2, <4>3 DEF PrtExact
      <4>5. PreUsed(h)
        BY <1>3, <4>1, <4>2 DEF PreUsed
      <4> QED BY <4>4, <4>5
    <3> QED BY <2>4, <2>6, <2>7, <2>8, <3>1, SubsKept DEF Kept, Tables, Routes
  <2> QED BY <2>1, <2>7, <2>9 DEF SameSubs, SameIds
<1>4. CASE p \in g.pats[c]
  <2> DEFINE h == UpdateRoute(g, PatKinds[p], c, TRUE)
  <2>1. DoPsubscribe(g, c, p, inbox) = [g |-> h, ok |-> FALSE]
    BY <1>1, <1>4 DEF DoPsubscribe
  <2>2. /\ h \in Reg /\ h.tab = g.tab /\ h.rt = g.rt
        /\ SamePats(g, h) /\ SameSess(g, h) /\ SameIds(g, h)
        /\ h.kspc = KindsOn(g, c, PatKinds[p])
    BY <1>0, KindsTurnedOn
  <2> HIDE DEF h
  <2>3. Routes(h)
    BY <1>0, <1>4, <2>2, RefreshKept
  <2>4. Kept(h, O, I)
    BY <1>0, <2>2, <2>3, SameKept DEF SameSubs
  <2> QED BY <2>1, <2>2, <2>4 DEF SameIds
<1>5. CASE ~(x \notin g.pre[c] /\ p \notin Bad) /\ p \notin g.pats[c]
  <2>1. DoPsubscribe(g, c, p, inbox) = [g |-> g1, ok |-> FALSE]
    BY <1>5 DEF DoPsubscribe
  <2> HIDE DEF g1
  <2>2. \A d \in Conns : g.pre[d] \subseteq g1.pre[d]
    BY <1>0, <1>2 DEF Reg
  <2>3. Routes(g1)
    BY <1>0, <1>2, <2>2 DEF Routes, SubRouted, PatRouted, Eventful, SameSubs
  <2>4. PreRouted(g1, O)
    BY <1>0, <1>2, <2>2 DEF PreRouted
  <2>5. Kept(g1, O, I)
    <3>1. PatExact(g1)
      <4> SUFFICES ASSUME BadApart PROVE PrtExact(g1) /\ PreUsed(g1)
        BY DEF PatExact
      <4>1. PrtExact(g) /\ PreUsed(g)
        BY DEF Kept, PatExact
      <4>2. \A d \in Conns : \A q : q \in g1.pre[d] <=> q \in g.pre[d] \/ (d = c /\ q = x)
        BY <1>0, <1>2 DEF Reg
      <4>3. x \in g.pre[c] \/ p \in Bad
        BY <1>5
      <4>4. PreUsed(g1)
        BY <1>2, <4>1, <4>2, <4>3 DEF PreUsed
      <4> QED BY <1>2, <4>1, <4>4 DEF PrtExact
    <3> QED BY <1>0, <1>2, <2>3, <2>4, <3>1, SubsKept DEF Kept, Tables, Routes, SameSess
  <2> QED BY <1>2, <2>1, <2>5 DEF SameSubs, SameIds
<1> QED BY <1>3, <1>4, <1>5

\* do_punsubscribe keeps the invariant: the flag is set while another pattern
\* of the prefix or another prefix of the hash is there.
LEMMA DoPunsubscribeKept ==
    ASSUME NEW g, NEW O \in SUBSET Conns, NEW I, Kept(g, O, I),
           NEW c \in Conns, NEW p \in Patterns
    PROVE  LET r == DoPunsubscribe(g, c, p)
           IN  Kept(r.g, O, I) /\ r.ok \in BOOLEAN /\ r.g.next = g.next /\ r.g.tab = g.tab
<1>0. g \in Reg /\ Routes(g) /\ PreRouted(g, O) /\ g.cb \subseteq g.sess
  BY DEF Kept, Tables, Routes
<1>1. CASE p \notin g.pats[c]
  <2>1. DoPunsubscribe(g, c, p) = [g |-> g, ok |-> FALSE]
    BY <1>1 DEF DoPunsubscribe
  <2> QED BY <2>1
<1>2. CASE p \in g.pats[c]
  <2> DEFINE x    == Prefix[p]
             rest == InPrefix(g, c, x) \ {p}
             coll == rest # {} \/ PatHcnt(g, c, x) > 1
             f == [g EXCEPT !.pats[c] = @ \ {p},
                            !.pre[c]  = IF rest = {} THEN @ \ {x} ELSE @,
                            !.cb      = IF p = InboxPat[c] THEN @ \ {c} ELSE @]
             h == DelPat(f, c, p, coll)
  <2>1. DoPunsubscribe(g, c, p) = [g |-> h, ok |-> TRUE]
    BY <1>2 DEF DoPunsubscribe
  <2>17. coll \in BOOLEAN
    OBVIOUS
  <2>2. x \in g.pre[c]
    BY <1>0, <1>2 DEF Routes, PatRouted
  <2>3. \A q \in g.pats[c] : q # p /\ Prefix[q] = x => rest # {}
    BY DEF InPrefix
  <2>4. coll <=> \/ rest # {}
                 \/ \E y \in g.pre[c] : y # x /\ PrefixHash[y] = PrefixHash[x]
    BY <1>0, <2>2, PatHcntMeans
  <2>5. (\E q \in g.pats[c] : q # p /\ Prefix[q] = x) <=> rest # {}
    BY DEF InPrefix
  <2> HIDE DEF rest, coll
  <2>6. f \in Reg
    BY <1>0 DEF Reg
  <2>7. /\ f.pats = [g.pats EXCEPT ![c] = @ \ {p}]
        /\ f.pre = [g.pre EXCEPT ![c] = IF rest = {} THEN @ \ {x} ELSE @]
        /\ f.cb = (IF p = InboxPat[c] THEN g.cb \ {c} ELSE g.cb)
        /\ f.prt = g.prt /\ f.kspc = g.kspc /\ f.sess = g.sess
        /\ SameSubs(g, f) /\ SameIds(g, f)
    BY <1>0 DEF Reg, SameSubs, SameIds
  <2> HIDE DEF f
  <2>8. /\ h \in Reg
        /\ h.tab = f.tab /\ h.rt = f.rt
        /\ PreDrop(f, h, c, p, coll)
        /\ h.pre = f.pre /\ h.pats = f.pats /\ SameSess(f, h) /\ SameIds(f, h)
        /\ h.kspc = KindsOff(f, c, PatKinds[p])
    <3>1. h = DelPat(f, c, p, coll)
      OBVIOUS
    <3> HIDE DEF h
    <3> QED BY <2>6, <2>17, <3>1, DelPatEffect
  <2> HIDE DEF h
  <2>9. PatOut(g, h, c, p, coll)
    BY <2>7, <2>8 DEF PatOut, SameSubs, KindsOff, PreDrop
  <2>10. \A d \in Conns : \A q \in h.pats[d] : Prefix[q] \in h.pre[d]
    <3> SUFFICES ASSUME NEW d \in Conns, NEW q \in h.pats[d] PROVE Prefix[q] \in h.pre[d]
      OBVIOUS
    <3>1. q \in g.pats[d] /\ (d = c => q # p)
      BY <1>0, <2>7, <2>8 DEF Reg
    <3>2. Prefix[q] \in g.pre[d]
      BY <1>0, <3>1 DEF Routes, PatRouted
    <3>3. CASE d = c
      BY <1>0, <2>5, <2>7, <2>8, <3>1, <3>2, <3>3 DEF Reg
    <3>4. CASE d # c
      BY <1>0, <2>7, <2>8, <3>2, <3>4 DEF Reg
    <3> QED BY <3>3, <3>4
  <2>11. \A q \in g.pats[c] :
             q # p /\ PrefixHash[Prefix[q]] = PrefixHash[Prefix[p]] => coll
    BY <1>0, <2>4, <2>5 DEF Routes, PatRouted
  <2>12. Routes(h)
    BY <1>0, <2>8, <2>9, <2>10, <2>11, <2>17, PatOutKept
  <2>13. PreRouted(h, O)
    <3> SUFFICES ASSUME NEW d \in O, NEW y \in PreHashes, d \in h.prt[y]
                 PROVE  \E z \in h.pre[d] : PrefixHash[z] = y
      BY DEF PreRouted
    <3>0. PrefixHash[x] \in PreHashes
      BY DEF PreHashes, PatPrefixes
    <3>1. d \in g.prt[y] /\ (d = c /\ y = PrefixHash[x] => coll)
      BY <2>7, <2>8, <3>0 DEF PreDrop
    <3>2. PICK z \in g.pre[d] : PrefixHash[z] = y
      BY <1>0, <3>1 DEF PreRouted
    <3>3. \A w \in g.pre[d] : d # c \/ w # x \/ rest # {} => w \in h.pre[d]
      BY <1>0, <2>7, <2>8 DEF Reg
    <3>4. CASE d # c \/ z # x \/ rest # {}
      BY <3>2, <3>3, <3>4
    <3>5. CASE d = c /\ z = x /\ rest = {}
      BY <2>4, <3>1, <3>2, <3>3, <3>5
    <3> QED BY <3>4, <3>5
  <2>14. SameSubs(g, h) /\ SameIds(g, h)
    BY <2>7, <2>8 DEF SameSubs, SameIds
  <2>15. h.cb \subseteq h.sess
    BY <1>0, <2>7, <2>8 DEF SameSess
  <2>16. Kept(h, O, I)
    <3>1. PatExact(h)
      <4> SUFFICES ASSUME BadApart PROVE PrtExact(h) /\ PreUsed(h)
        BY DEF PatExact
      <4>1. PrtExact(g) /\ PreUsed(g)
        BY DEF Kept, PatExact
      <4>2. \A d \in Conns : \A q :
              /\ q \in h.pats[d] <=> q \in g.pats[d] /\ ~(d = c /\ q = p)
              /\ q \in h.pre[d]  <=> q \in g.pre[d] /\ ~(d = c /\ rest = {} /\ q = x)
        BY <1>0, <2>7, <2>8 DEF Reg
      <4>3. PreUsed(h)
        BY <1>2, <2>5, <4>1, <4>2 DEF PreUsed
      <4>4. ASSUME NEW d \in Conns, NEW y \in PreHashes, d \in h.prt[y]
            PROVE  \E q \in h.pats[d] : PrefixHash[Prefix[q]] = y
        <5>1. d \in g.prt[y] /\ (d = c /\ y = PrefixHash[x] => coll)
          BY <2>7, <2>8, <4>4 DEF PreDrop
        <5>2. PICK q \in g.pats[d] : PrefixHash[Prefix[q]] = y
          BY <4>1, <5>1 DEF PrtExact
        <5>3. CASE d # c \/ q # p
          BY <4>2, <5>2, <5>3
        <5>4. CASE d = c /\ q = p /\ rest # {}
          BY <2>5, <4>2, <5>2, <5>4
        <5>5. CASE d = c /\ q = p /\ rest = {}
          <6>1. PICK z \in g.pre[c] : z # x /\ PrefixHash[z] = PrefixHash[x]
            BY <2>4, <5>1, <5>2, <5>5
          <6>2. PICK w \in g.pats[c] \cup Bad : Prefix[w] = z
            BY <4>1 DEF PreUsed
          <6>3. w \notin Bad
            BY <6>1, <6>2 DEF BadApart
          <6> QED BY <4>2, <5>2, <5>5, <6>1, <6>2, <6>3
        <5> QED BY <5>3, <5>4, <5>5
      <4> QED BY <4>3, <4>4 DEF PrtExact
    <3> QED BY <2>8, <2>12, <2>13, <2>14, <2>15, <3>1, SubsKept DEF Kept, Tables, Routes
  <2> QED BY <2>1, <2>14, <2>16 DEF SameSubs, SameIds
<1> QED BY <1>1, <1>2

-----------------------------------------------------------------------------
(* The arguments of a command one after the other *)

SubFlags == {"subscribe", "unsubscribe", "psubscribe", "punsubscribe"}
Args(flag) == IF flag \in {"subscribe", "unsubscribe"} THEN Subjects ELSE Patterns
Acc == [g : Reg, cnt : Int, reply : Seq((Subjects \cup Patterns) \X Int)]

\* what an argument leaves alone
Step(g, h, c, flag, n) ==
    /\ \A d \in Conns \ {c} : h.next[d] = g.next[d]
    /\ h.next[c] <= g.next[c] + (IF flag = "subscribe" THEN n ELSE 0)
    /\ flag = "unsubscribe" => KindStays(g, h, "cont")

\* One argument of a SUBSCRIBE, UNSUBSCRIBE, PSUBSCRIBE or PUNSUBSCRIBE keeps
\* the invariant.
LEMMA SubOneKept ==
    ASSUME NEW acc \in Acc, NEW O \in SUBSET Conns, NEW I, Kept(acc.g, O, I),
           NEW c \in Conns, NEW flag \in SubFlags, NEW a \in Args(flag)
    PROVE  LET r == SubOne(acc, [conn |-> c, flag |-> flag, arg |-> a])
           IN  /\ r \in Acc
               /\ Kept(r.g, O, I)
               /\ Step(acc.g, r.g, c, flag, 1)
<1> DEFINE g == acc.g
           x == [conn |-> c, flag |-> flag, arg |-> a]
           one == CASE flag = "subscribe"    -> DoSubscribe(g, c, a)
                    [] flag = "unsubscribe"  -> DoUnsubscribe(g, c, a)
                    [] flag = "psubscribe"   -> DoPsubscribe(g, c, a, FALSE)
                    [] flag = "punsubscribe" -> DoPunsubscribe(g, c, a)
           by == IF flag \in {"subscribe", "psubscribe"} THEN 1 ELSE 0 - 1
           n  == IF one.ok THEN acc.cnt + by ELSE acc.cnt
<1>1. SubOne(acc, x) = [g |-> one.g, cnt |-> n, reply |-> Append(acc.reply, <<a, n>>)]
  BY Zenon DEF SubOne
<1>2. g.next \in [Conns -> Nat] /\ Kept(g, O, I)
  BY DEF Acc, Reg
<1> HIDE DEF g
<1>3. Kept(one.g, O, I) /\ Step(g, one.g, c, flag, 1)
  <2>1. CASE flag = "subscribe"
    <3> DEFINE r == DoSubscribe(g, c, a)
    <3>0. a \in Subjects
      BY <2>1 DEF Args
    <3>1. /\ Kept(r.g, O, I) /\ r.g.next[c] <= g.next[c] + 1
          /\ \A d \in Conns \ {c} : r.g.next[d] = g.next[d]
      BY <1>2, <3>0, DoSubscribeKept
    <3>2. one = r
      BY <2>1
    <3> HIDE DEF one, r
    <3> QED BY <2>1, <3>1, <3>2 DEF Step
  <2>2. CASE flag = "unsubscribe"
    <3> DEFINE r == DoUnsubscribe(g, c, a)
    <3>0. a \in Subjects
      BY <2>2 DEF Args
    <3>1. /\ Kept(r.g, O, I) /\ r.g.next = g.next
          /\ KindStays(g, r.g, "cont")
      BY <1>2, <3>0, DoUnsubscribeKept
    <3>2. one = r
      BY <2>2
    <3> HIDE DEF one, r
    <3> QED BY <1>2, <2>2, <3>1, <3>2 DEF Step
  <2>3. CASE flag = "psubscribe"
    <3> DEFINE r == DoPsubscribe(g, c, a, FALSE)
    <3>0. a \in Patterns
      BY <2>3 DEF Args
    <3>1. Kept(r.g, O, I) /\ r.g.next = g.next
      BY <1>2, <3>0, DoPsubscribeKept
    <3>2. one = r
      BY <2>3
    <3> HIDE DEF one, r
    <3> QED BY <1>2, <2>3, <3>1, <3>2 DEF Step
  <2>4. CASE flag = "punsubscribe"
    <3> DEFINE r == DoPunsubscribe(g, c, a)
    <3>0. a \in Patterns
      BY <2>4 DEF Args
    <3>1. Kept(r.g, O, I) /\ r.g.next = g.next
      BY <1>2, <3>0, DoPunsubscribeKept
    <3>2. one = r
      BY <2>4
    <3> HIDE DEF one, r
    <3> QED BY <1>2, <2>4, <3>1, <3>2 DEF Step
  <2> QED BY <2>1, <2>2, <2>3, <2>4 DEF SubFlags
<1>4. one.g \in Reg
  BY <1>3 DEF Kept, Tables
<1>5. n \in Int /\ a \in Subjects \cup Patterns
  <2>1. acc.cnt \in Int /\ a \in Subjects \cup Patterns
    BY DEF Acc, Args
  <2> HIDE DEF one
  <2> QED BY <2>1
<1> HIDE DEF one, n, x
<1>6. SubOne(acc, x) \in Acc
  BY <1>1, <1>4, <1>5 DEF Acc
<1>7. SubOne(acc, x).g = one.g
  BY <1>1
<1> QED BY <1>3, <1>6, <1>7 DEF x, g

\* do_sub is the fold of FoldTheorems over the arguments.
LEMMA DoSubIsFold ==
    ASSUME NEW c, NEW flag, NEW args
    PROVE  DoSub(c, flag, args) =
               SubFold!Fold([g |-> reg, cnt |-> reg.cnt[c] + Cardinality(reg.pre[c]),
                             reply |-> <<>>],
                            [i \in DOMAIN args |-> [conn |-> c, flag |-> flag, arg |-> args[i]]])
BY Zenon DEF DoSub, SubFold!Fold, SubFold!Iter, SubFold!IsIter, FoldLeft, MapThenFoldSet,
             Max, SubFold!Top

\* All the arguments of a SUBSCRIBE, UNSUBSCRIBE, PSUBSCRIBE or PUNSUBSCRIBE,
\* however many, keep the invariant; the numbers grow by one an argument.
LEMMA DoSubKept ==
    ASSUME NEW O \in SUBSET Conns, NEW I, Kept(reg, O, I),
           NEW c \in Conns, NEW flag \in SubFlags, NEW args \in Seq(Args(flag))
    PROVE  LET r == DoSub(c, flag, args)
           IN  /\ Kept(r.g, O, I)
               /\ Step(reg, r.g, c, flag, Len(args))
<1> DEFINE base == [g |-> reg, cnt |-> reg.cnt[c] + Cardinality(reg.pre[c]), reply |-> <<>>]
           seq  == [i \in DOMAIN args |-> [conn |-> c, flag |-> flag, arg |-> args[i]]]
           n    == Len(args)
           Good(i) == {acc \in Acc : Kept(acc.g, O, I) /\ Step(reg, acc.g, c, flag, i)}
           S    == [i \in 0..n |-> Good(i)]
<1>1. n \in Nat /\ DOMAIN seq = 1..n /\ \A i \in 1..n : args[i] \in Args(flag)
  OBVIOUS
<1>2. reg \in Reg
  BY DEF Kept, Tables
<1>3. base \in S[0]
  <2>1. Cardinality(reg.pre[c]) \in Nat
    BY <1>2, PreFinite, FS_CardinalityType
  <2>2. reg.cnt[c] \in Nat /\ reg.next \in [Conns -> Nat]
    BY <1>2 DEF Reg
  <2>3. base \in Acc
    BY <1>2, <2>1, <2>2 DEF Acc
  <2>4. Step(reg, base.g, c, flag, 0)
    BY <2>2 DEF Step, KindStays
  <2> QED BY <1>1, <2>3, <2>4
<1>4. ASSUME NEW i \in 1..n, NEW acc \in S[i - 1]
      PROVE  SubOne(acc, seq[i]) \in S[i]
  <2>1. acc \in Acc /\ Kept(acc.g, O, I) /\ Step(reg, acc.g, c, flag, i - 1)
    BY <1>1
  <2>2. seq[i] = [conn |-> c, flag |-> flag, arg |-> args[i]] /\ args[i] \in Args(flag)
    BY <1>1
  <2> DEFINE r == SubOne(acc, seq[i])
  <2>3. r \in Acc /\ Kept(r.g, O, I) /\ Step(acc.g, r.g, c, flag, 1)
    BY <2>1, <2>2, SubOneKept
  <2> HIDE DEF r
  <2>4. \A d \in Conns : acc.g.next[d] \in Nat /\ r.g.next[d] \in Nat /\ reg.next[d] \in Nat
    BY <1>2, <2>1, <2>3 DEF Acc, Reg
  <2>5. Step(reg, r.g, c, flag, i)
    BY <2>1, <2>3, <2>4 DEF Step, KindStays
  <2> QED BY <1>1, <2>3, <2>5 DEF r
<1> HIDE DEF S, base, seq
<1>5. SubFold!Fold(base, seq) \in S[n]
  BY <1>1, <1>3, <1>4, SubFold!FoldStays
<1>6. DoSub(c, flag, args) = SubFold!Fold(base, seq)
  BY DoSubIsFold DEF base, seq
<1> QED BY <1>1, <1>5, <1>6 DEF S

-----------------------------------------------------------------------------
(* rem_all_sub *)

\* SetToSeq lists a finite set: every element at one place.
LEMMA SetToSeqIsListing ==
    ASSUME NEW S, IsFiniteSet(S)
    PROVE  /\ Cardinality(S) \in Nat
           /\ SetToSeq(S) \in [1..Cardinality(S) -> S]
           /\ DOMAIN SetToSeq(S) = 1..Cardinality(S)
           /\ \A i, j \in 1..Cardinality(S) : SetToSeq(S)[i] = SetToSeq(S)[j] => i = j
           /\ \A x \in S : \E i \in 1..Cardinality(S) : SetToSeq(S)[i] = x
<1> DEFINE n == Cardinality(S)
           Q == SetToSeq(S)
<1>1. n \in Nat /\ ExistsBijection(1..n, S)
  BY FS_CardinalityType
<1>2. PICK f \in Bijection(1..n, S) : TRUE
  BY <1>1 DEF ExistsBijection
<1>3. f \in [1..n -> S] /\ IsInjective(f)
  BY <1>2 DEF Bijection, Injection, IsInjective
<1>4. Q \in [1..n -> S] /\ IsInjective(Q)
  BY <1>3, Zenon DEF SetToSeq
<1> HIDE DEF Q
<1>5. Q \in Injection(1..n, S)
  BY <1>4 DEF Injection, IsInjective
<1>6. IsFiniteSet(1..n) /\ Cardinality(1..n) = n
  BY <1>1, FS_Interval
<1>7. Q \in Surjection(1..n, S)
  BY <1>1, <1>5, <1>6, FS_Injection
<1>8. \A x \in S : \E i \in 1..n : Q[i] = x
  BY <1>7 DEF Surjection
<1>9. DOMAIN Q = 1..n /\ \A i, j \in 1..n : Q[i] = Q[j] => i = j
  BY <1>4 DEF IsInjective
<1> QED BY <1>1, <1>4, <1>8, <1>9 DEF Q

\* rem_all_sub of one pattern gives its route up when no other pattern of the
\* hash is left, and changes nothing of other connections.
LEMMA RemPatEffect ==
    ASSUME NEW g \in Reg, NEW c \in Conns, NEW p \in Patterns, Routes(g)
    PROVE  LET h == RemPat(g, <<c, p>>)
           IN  /\ h \in Reg
               /\ Routes(h)
               /\ SameSubs(g, h) /\ SameSess(g, h) /\ SameIds(g, h) /\ h.pre = g.pre
               /\ h.pats = [g.pats EXCEPT ![c] = @ \ {p}]
               /\ \A d \in Conns \ {c}, x \in PreHashes : d \in h.prt[x] <=> d \in g.prt[x]
               /\ PrtExact(g) => PrtExact(h)
<1> DEFINE rest == {q \in g.pats[c] \ {p} : PrefixHash[Prefix[q]] = PrefixHash[Prefix[p]]}
           coll == rest # {}
           f    == [g EXCEPT !.pats[c] = @ \ {p}]
           h    == DelPat(f, c, p, coll)
<1>1. RemPat(g, <<c, p>>) = h
  BY DEF RemPat
<1>2. coll <=> \E q \in g.pats[c] : q # p /\ PrefixHash[Prefix[q]] = PrefixHash[Prefix[p]]
  OBVIOUS
<1>3. coll \in BOOLEAN
  OBVIOUS
<1> HIDE DEF coll, rest
<1>4. f \in Reg
  BY DEF Reg
<1>5. /\ f.pats = [g.pats EXCEPT ![c] = @ \ {p}]
      /\ f.pre = g.pre /\ f.prt = g.prt /\ f.kspc = g.kspc
      /\ SameSubs(g, f) /\ SameSess(g, f) /\ SameIds(g, f)
  BY DEF Reg, SameSubs, SameSess, SameIds
<1> HIDE DEF f
<1>6. /\ h \in Reg
      /\ h.tab = f.tab /\ h.rt = f.rt
      /\ PreDrop(f, h, c, p, coll)
      /\ h.pre = f.pre /\ h.pats = f.pats /\ SameSess(f, h) /\ SameIds(f, h)
      /\ h.kspc = KindsOff(f, c, PatKinds[p])
  <2> DEFINE k == DelPat(f, c, p, coll)
  <2>1. h = k
    OBVIOUS
  <2> HIDE DEF h
  <2> QED BY <1>3, <1>4, <2>1, DelPatEffect
<1> HIDE DEF h
<1>7. PatOut(g, h, c, p, coll)
  BY <1>5, <1>6 DEF PatOut, SameSubs, KindsOff, PreDrop
<1>8. \A d \in Conns : \A q \in h.pats[d] : Prefix[q] \in h.pre[d]
  BY <1>5, <1>6 DEF Reg, Routes, PatRouted
<1>9. Routes(h)
  BY <1>2, <1>3, <1>6, <1>7, <1>8, PatOutKept
<1>10. SameSubs(g, h) /\ SameSess(g, h) /\ SameIds(g, h) /\ h.pre = g.pre
  BY <1>5, <1>6 DEF SameSubs, SameSess, SameIds
<1>11. \A d \in Conns \ {c}, x \in PreHashes : d \in h.prt[x] <=> d \in g.prt[x]
  BY <1>5, <1>6 DEF PreDrop
<1>12. ASSUME PrtExact(g) PROVE PrtExact(h)
  <2> SUFFICES ASSUME NEW d \in Conns, NEW x \in PreHashes, d \in h.prt[x]
               PROVE  \E q \in h.pats[d] : PrefixHash[Prefix[q]] = x
    BY DEF PrtExact
  <2>1. d \in g.prt[x] /\ (d = c /\ x = PrefixHash[Prefix[p]] => coll)
    BY <1>5, <1>6 DEF PreDrop
  <2>2. \A q : q \in h.pats[d] <=> q \in g.pats[d] /\ ~(d = c /\ q = p)
    BY <1>5, <1>6 DEF Reg
  <2>3. PICK q \in g.pats[d] : PrefixHash[Prefix[q]] = x
    BY <1>12, <2>1 DEF PrtExact
  <2>4. CASE d # c \/ q # p
    BY <2>2, <2>3, <2>4
  <2>5. CASE d = c /\ q = p
    BY <1>2, <2>1, <2>2, <2>3, <2>5
  <2> QED BY <2>4, <2>5
<1> QED BY <1>1, <1>5, <1>6, <1>9, <1>10, <1>11, <1>12

\* the tables without the subjects of a connection
NoSubjects(g, h, c) ==
    /\ h \in Reg /\ Routes(h)
    /\ SamePats(g, h) /\ SameSess(g, h) /\ SameIds(g, h)
    /\ \A d \in Conns \ {c} : h.tab[d] = g.tab[d]
    /\ \A s \in Subjects : h.tab[c][s] = "none"

\* rem_all_sub over sub_tab removes every entry with its route and nothing of
\* other connections.
LEMMA RemSubsKept ==
    ASSUME NEW g \in Reg, NEW c \in Conns, Routes(g)
    PROVE  LET subs == {c} \X {s \in Subjects : g.tab[c][s] # "none"}
           IN  NoSubjects(g, FoldLeft(RemSub, g, SetToSeq(subs)), c)
<1> DEFINE T    == {s \in Subjects : g.tab[c][s] # "none"}
           subs == {c} \X T
           Q    == SetToSeq(subs)
           n    == Cardinality(subs)
<1>1. IsFiniteSet(subs)
  <2>1. T \in SUBSET Subjects /\ IsFiniteSet(Subjects)
    BY PubSubAssumption
  <2> HIDE DEF T
  <2>2. IsFiniteSet(T) /\ IsFiniteSet({c})
    BY <2>1, FS_Subset, FS_Singleton
  <2> QED BY <2>2, FS_Product
<1>2. /\ n \in Nat /\ DOMAIN Q = 1..n /\ \A i \in 1..n : Q[i] \in subs
      /\ \A i, j \in 1..n : Q[i] = Q[j] => i = j
      /\ \A x \in subs : \E i \in 1..n : Q[i] = x
  <2> HIDE DEF subs
  <2> QED BY <1>1, SetToSeqIsListing
<1> HIDE DEF Q, n
<1>3. ASSUME NEW i \in 1..n
      PROVE  Q[i][1] = c /\ Q[i][2] \in Subjects /\ g.tab[c][Q[i][2]] # "none"
             /\ Q[i] = <<c, Q[i][2]>>
  BY <1>2
<1>4. \A s \in Subjects : g.tab[c][s] # "none" => \E i \in 1..n : Q[i][2] = s
  <2> SUFFICES ASSUME NEW s \in Subjects, g.tab[c][s] # "none"
               PROVE  \E i \in 1..n : Q[i][2] = s
    OBVIOUS
  <2>1. <<c, s>> \in subs
    OBVIOUS
  <2>2. PICK i \in 1..n : Q[i] = <<c, s>>
    BY <1>2, <2>1
  <2> QED BY <2>2
<1> HIDE DEF subs
<1> DEFINE Good(i) == {h \in Reg :
                         /\ Routes(h)
                         /\ SamePats(g, h) /\ SameSess(g, h) /\ SameIds(g, h)
                         /\ \A d \in Conns \ {c} : h.tab[d] = g.tab[d]
                         /\ \A s \in Subjects :
                               h.tab[c][s] = IF \E j \in 1..i : Q[j][2] = s THEN "none"
                                             ELSE g.tab[c][s]}
           S == [i \in 0..n |-> Good(i)]
<1>5. g \in S[0]
  <2>1. SamePats(g, g) /\ SameSess(g, g) /\ SameIds(g, g)
    BY DEF SamePats, SameSess, SameIds
  <2> QED BY <1>2, <2>1
<1>6. ASSUME NEW i \in 1..n, NEW h \in S[i - 1] PROVE RemSub(h, Q[i]) \in S[i]
  <2> DEFINE s == Q[i][2]
             k == DelSub(Put(h, c, s, "none"), c, s, SubCollision(h, c, s))
  <2>1. h \in Good(i - 1)
    BY <1>2
  <2>2. ASSUME NEW j \in 1..(i - 1), Q[j][2] = s PROVE FALSE
    <3>1. j \in 1..n /\ j # i
      BY <1>2
    <3>2. Q[j] = <<c, s>> /\ Q[i] = <<c, s>>
      BY <1>3, <2>2, <3>1
    <3>3. Q[j] = Q[i]
      BY <3>2
    <3> QED BY <1>2, <3>1, <3>3
  <2>3. h.tab[c][s] # "none" /\ s \in Subjects
    BY <1>3, <2>1, <2>2
  <2>4. RemSub(h, Q[i]) = k
    BY <1>3 DEF RemSub
  <2>5. /\ k \in Reg
        /\ Routes(k)
        /\ k.tab = [h.tab EXCEPT ![c][s] = "none"]
        /\ SamePats(h, k) /\ SameSess(h, k) /\ SameIds(h, k)
    BY <2>1, <2>3, RemSubEffect
  <2> HIDE DEF k
  <2>6. SamePats(g, k) /\ SameSess(g, k) /\ SameIds(g, k)
    BY <2>1, <2>5 DEF SamePats, SameSess, SameIds
  <2>7. \A d \in Conns \ {c} : k.tab[d] = g.tab[d]
    BY <2>1, <2>3, <2>5 DEF Reg
  <2>8. ASSUME NEW t \in Subjects
        PROVE  k.tab[c][t] = IF \E j \in 1..i : Q[j][2] = t THEN "none" ELSE g.tab[c][t]
    <3>1. k.tab[c][t] = IF t = s THEN "none" ELSE h.tab[c][t]
      BY <2>1, <2>3, <2>5 DEF Reg
    <3>2. h.tab[c][t] = IF \E j \in 1..(i - 1) : Q[j][2] = t THEN "none" ELSE g.tab[c][t]
      BY <2>1
    <3>3. (\E j \in 1..i : Q[j][2] = t) <=> t = s \/ \E j \in 1..(i - 1) : Q[j][2] = t
      BY <1>2
    <3> QED BY <3>1, <3>2, <3>3
  <2>9. k \in Good(i)
    BY <2>5, <2>6, <2>7, <2>8
  <2> QED BY <1>2, <2>4, <2>9
<1>7. RemSubFold!Fold(g, Q) \in S[n]
  <2> HIDE DEF S
  <2> QED BY <1>2, <1>5, <1>6, RemSubFold!FoldStays
<1>8. FoldLeft(RemSub, g, Q) = RemSubFold!Fold(g, Q)
  BY Zenon DEF RemSubFold!Fold, RemSubFold!Iter, RemSubFold!IsIter, FoldLeft, MapThenFoldSet,
               Max, RemSubFold!Top
<1>9. FoldLeft(RemSub, g, Q) \in Good(n)
  BY <1>2, <1>7, <1>8
<1> HIDE DEF Good
<1> DEFINE h == FoldLeft(RemSub, g, Q)
<1> HIDE DEF h
<1>10. h \in Good(n)
  BY <1>9 DEF h
<1>11. NoSubjects(g, h, c)
  BY <1>4, <1>10 DEF NoSubjects, Good
<1> QED BY <1>11 DEF h, Q, subs, T

\* the tables without the patterns of a connection; the prefixes stay behind
NoPatterns(g, h, c) ==
    /\ h \in Reg /\ Routes(h)
    /\ SameSubs(g, h) /\ SameSess(g, h) /\ SameIds(g, h) /\ h.pre = g.pre
    /\ h.pats[c] = {}
    /\ \A d \in Conns \ {c} : h.pats[d] = g.pats[d]
    /\ \A d \in Conns \ {c}, x \in PreHashes : d \in h.prt[x] <=> d \in g.prt[x]
    /\ PrtExact(g) => PrtExact(h)

\* rem_all_sub over pat_tab removes every pattern with its route and nothing
\* of other connections.
LEMMA RemPatsKept ==
    ASSUME NEW g \in Reg, NEW c \in Conns, NEW P, P = g.pats[c], Routes(g)
    PROVE  NoPatterns(g, FoldLeft(RemPat, g, SetToSeq({c} \X P)), c)
<1> DEFINE subs == {c} \X P
           Q    == SetToSeq(subs)
           n    == Cardinality(subs)
<1>1. IsFiniteSet(subs)
  <2>1. P \in SUBSET Patterns /\ IsFiniteSet(Patterns)
    BY PubSubAssumption DEF Reg
  <2>2. IsFiniteSet(P) /\ IsFiniteSet({c})
    BY <2>1, FS_Subset, FS_Singleton
  <2> QED BY <2>2, FS_Product
<1>2. /\ n \in Nat /\ DOMAIN Q = 1..n /\ \A i \in 1..n : Q[i] \in subs
      /\ \A x \in subs : \E i \in 1..n : Q[i] = x
  <2> HIDE DEF subs
  <2> QED BY <1>1, SetToSeqIsListing
<1> HIDE DEF Q, n
<1>3. ASSUME NEW i \in 1..n
      PROVE  Q[i][2] \in Patterns /\ Q[i] = <<c, Q[i][2]>>
  <2>1. Q[i][2] \in P /\ Q[i] = <<c, Q[i][2]>>
    BY <1>2
  <2> QED BY <2>1 DEF Reg
<1>4. \A p \in P : \E i \in 1..n : Q[i][2] = p
  <2> SUFFICES ASSUME NEW p \in P PROVE \E i \in 1..n : Q[i][2] = p
    OBVIOUS
  <2>1. <<c, p>> \in subs
    OBVIOUS
  <2>2. PICK i \in 1..n : Q[i] = <<c, p>>
    BY <1>2, <2>1
  <2> QED BY <2>2
<1> HIDE DEF subs
<1> DEFINE Good(i) == {h \in Reg :
                         /\ Routes(h)
                         /\ SameSubs(g, h) /\ SameSess(g, h) /\ SameIds(g, h) /\ h.pre = g.pre
                         /\ h.pats[c] \subseteq {p \in P : \A j \in 1..i : Q[j][2] # p}
                         /\ \A d \in Conns \ {c} : h.pats[d] = g.pats[d]
                         /\ \A d \in Conns \ {c}, x \in PreHashes :
                               d \in h.prt[x] <=> d \in g.prt[x]
                         /\ PrtExact(g) => PrtExact(h)}
           S == [i \in 0..n |-> Good(i)]
<1>5. g \in S[0]
  <2>1. SameSubs(g, g) /\ SameSess(g, g) /\ SameIds(g, g)
    BY DEF SameSubs, SameSess, SameIds
  <2>2. g.pats[c] \subseteq {p \in P : \A j \in 1..0 : Q[j][2] # p}
    OBVIOUS
  <2> QED BY <1>2, <2>1, <2>2
<1>6. ASSUME NEW i \in 1..n, NEW h \in S[i - 1] PROVE RemPat(h, Q[i]) \in S[i]
  <2> DEFINE p == Q[i][2]
             k == RemPat(h, <<c, p>>)
  <2>1. h \in Good(i - 1)
    BY <1>2
  <2>2. p \in Patterns /\ RemPat(h, Q[i]) = k
    BY <1>3
  <2> HIDE DEF p
  <2>3. /\ k \in Reg
        /\ Routes(k)
        /\ SameSubs(h, k) /\ SameSess(h, k) /\ SameIds(h, k) /\ k.pre = h.pre
        /\ k.pats = [h.pats EXCEPT ![c] = @ \ {p}]
        /\ \A d \in Conns \ {c}, x \in PreHashes : d \in k.prt[x] <=> d \in h.prt[x]
        /\ PrtExact(h) => PrtExact(k)
    BY <2>1, <2>2, RemPatEffect
  <2> HIDE DEF k
  <2>4. SameSubs(g, k) /\ SameSess(g, k) /\ SameIds(g, k) /\ k.pre = g.pre
    BY <2>1, <2>3 DEF SameSubs, SameSess, SameIds
  <2>5. k.pats[c] \subseteq {q \in P : \A j \in 1..i : Q[j][2] # q}
    <3>1. k.pats[c] = h.pats[c] \ {p}
      BY <2>1, <2>3 DEF Reg
    <3>2. \A q : q # p /\ (\A j \in 1..(i - 1) : Q[j][2] # q) => \A j \in 1..i : Q[j][2] # q
      BY <1>2 DEF p
    <3> QED BY <2>1, <3>1, <3>2
  <2>6. \A d \in Conns \ {c}, x \in PreHashes : d \in k.prt[x] <=> d \in g.prt[x]
    BY <2>1, <2>3
  <2>7. \A d \in Conns \ {c} : k.pats[d] = g.pats[d]
    BY <2>1, <2>3 DEF Reg
  <2>8. k \in Good(i)
    BY <2>1, <2>3, <2>4, <2>5, <2>6, <2>7
  <2> QED BY <1>2, <2>2, <2>8
<1>7. RemPatFold!Fold(g, Q) \in S[n]
  <2> HIDE DEF S
  <2> QED BY <1>2, <1>5, <1>6, RemPatFold!FoldStays
<1>8. FoldLeft(RemPat, g, Q) = RemPatFold!Fold(g, Q)
  BY Zenon DEF RemPatFold!Fold, RemPatFold!Iter, RemPatFold!IsIter, FoldLeft, MapThenFoldSet,
               Max, RemPatFold!Top
<1>9. FoldLeft(RemPat, g, Q) \in Good(n)
  BY <1>2, <1>7, <1>8
<1> HIDE DEF Good
<1> DEFINE h == FoldLeft(RemPat, g, Q)
<1> HIDE DEF h
<1>10. h \in Good(n)
  BY <1>9 DEF h
<1>11. h.pats[c] = {}
  BY <1>4, <1>10 DEF Good
<1>12. NoPatterns(g, h, c)
  BY <1>10, <1>11 DEF NoPatterns, Good
<1> QED BY <1>12 DEF h, Q, subs

\* A connection that closes leaves tables that satisfy the invariant for the
\* connections still open, nothing of its own in them.
LEMMA CloseKept ==
    ASSUME NEW O \in SUBSET Conns, NEW I, Kept(reg, O, I), NEW c \in Conns
    PROVE  LET h == [RemAll(c) EXCEPT !.pre[c] = {}, !.ibx[c] = [s \in Subjects |-> 0],
                                      !.cnt[c] = 0, !.cb = @ \ {c}]
           IN  Kept(h, O \ {c}, I) /\ h.next = reg.next
<1> DEFINE g1 == FoldLeft(RemSub, reg, SetToSeq({c} \X {s \in Subjects : reg.tab[c][s] # "none"}))
           g2 == FoldLeft(RemPat, g1, SetToSeq({c} \X reg.pats[c]))
           zero == [s \in Subjects |-> 0]
           h  == [g2 EXCEPT !.pre[c] = {}, !.ibx[c] = zero, !.cnt[c] = 0, !.cb = @ \ {c}]
<1>0. RemAll(c) = g2
  BY DEF RemAll
<1>1. reg \in Reg /\ Routes(reg) /\ PreRouted(reg, O) /\ reg.cb \subseteq reg.sess
  BY DEF Kept, Tables, Routes
<1>2. NoSubjects(reg, g1, c)
  BY <1>1, RemSubsKept
<1> HIDE DEF g1
<1>3. g1 \in Reg /\ Routes(g1) /\ reg.pats[c] = g1.pats[c]
  BY <1>2 DEF NoSubjects, SamePats
<1>4. NoPatterns(g1, g2, c)
  BY <1>3, RemPatsKept
<1> HIDE DEF g2
<1>5. /\ g2 \in Reg /\ Routes(g2)
      /\ SameSess(reg, g2) /\ SameIds(reg, g2) /\ g2.pre = reg.pre
      /\ g2.pats[c] = {}
      /\ \A d \in Conns \ {c} : g2.tab[d] = reg.tab[d]
      /\ \A s \in Subjects : g2.tab[c][s] = "none"
      /\ \A d \in Conns \ {c}, x \in PreHashes : d \in g2.prt[x] <=> d \in reg.prt[x]
      /\ \A d \in Conns \ {c} : g2.pats[d] = reg.pats[d]
  BY <1>2, <1>4 DEF NoSubjects, NoPatterns, SameSubs, SamePats, SameSess, SameIds
<1>6. h \in Reg
  <2>1. zero \in [Subjects -> Nat]
    OBVIOUS
  <2> HIDE DEF zero
  <2> QED BY <1>5, <2>1 DEF Reg
<1>7. /\ h.tab = g2.tab /\ h.rt = g2.rt /\ h.pats = g2.pats /\ h.prt = g2.prt
      /\ h.kspc = g2.kspc /\ h.sess = reg.sess /\ h.next = reg.next
      /\ h.pre = [reg.pre EXCEPT ![c] = {}]
      /\ h.ibx = [reg.ibx EXCEPT ![c] = zero]
      /\ h.cnt = [reg.cnt EXCEPT ![c] = 0]
      /\ h.cb = reg.cb \ {c}
  <2> HIDE DEF zero
  <2> QED BY <1>1, <1>5 DEF Reg, SameSess, SameIds
<1> HIDE DEF h
<1>8. Routes(h)
  <2>1. \A d \in Conns : \A p \in h.pats[d] : Prefix[p] \in h.pre[d]
    BY <1>1, <1>5, <1>7 DEF Routes, PatRouted, Reg
  <2> QED BY <1>5, <1>7, <2>1 DEF Routes, SubRouted, PatRouted, Eventful
<1>9. PreRouted(h, O \ {c})
  <2>1. \A d \in Conns \ {c} : h.pre[d] = reg.pre[d]
    BY <1>1, <1>7 DEF Reg
  <2> QED BY <1>1, <1>5, <1>7, <2>1 DEF PreRouted
<1>10. Counted(h)
  <2>1. \A d \in Conns \ {c} : /\ h.cnt[d] = reg.cnt[d]
                               /\ reg.cnt[d] = Cardinality(Listed(reg.tab, d))
                               /\ Listed(h.tab, d) = Listed(reg.tab, d)
    BY <1>1, <1>5, <1>7 DEF Kept, Tables, Counted, Listed, Reg
  <2>2. h.cnt[c] = 0 /\ Listed(h.tab, c) = {}
    BY <1>1, <1>5, <1>7 DEF Listed, Reg
  <2>3. Cardinality(Listed(h.tab, c)) = 0
    BY <2>2, FS_EmptySet
  <2>4. \A d \in Conns : h.cnt[d] = Cardinality(Listed(h.tab, d))
    BY <2>1, <2>2, <2>3
  <2> QED BY <2>4 DEF Counted, Listed
<1>11. Numbered(h) /\ InboxesKept(h, I)
  <2>1. \A d \in Conns, s \in Subjects :
            /\ h.ibx[d][s] = IF d = c THEN 0 ELSE reg.ibx[d][s]
            /\ h.tab[d][s] = IF d = c THEN "none" ELSE reg.tab[d][s]
            /\ reg.next[d] \in Nat
    BY <1>1, <1>5, <1>7 DEF Reg
  <2> QED BY <1>7, <2>1 DEF Kept, Tables, Numbered, InboxesKept
<1>12. PatExact(h)
  <2> SUFFICES ASSUME BadApart PROVE PrtExact(h) /\ PreUsed(h)
    BY DEF PatExact
  <2>1. PrtExact(reg) /\ PreUsed(reg)
    BY DEF Kept, PatExact
  <2>2. PrtExact(g1)
    BY <1>2, <2>1 DEF NoSubjects, SamePats, PrtExact
  <2>3. PrtExact(h)
    BY <1>4, <1>7, <2>2 DEF NoPatterns, PrtExact
  <2>4. \A d \in Conns : h.pre[d] = IF d = c THEN {} ELSE reg.pre[d]
    BY <1>1, <1>7 DEF Reg
  <2>5. PreUsed(h)
    BY <1>5, <1>7, <2>1, <2>4 DEF PreUsed
  <2> QED BY <2>3, <2>5
<1>13. Kept(h, O \ {c}, I)
  BY <1>1, <1>6, <1>7, <1>8, <1>9, <1>10, <1>11, <1>12 DEF Kept, Tables, Routes
<1> QED BY <1>0, <1>7, <1>13 DEF h

-----------------------------------------------------------------------------
(* The invariant is inductive *)

\* The arguments of a command are subjects or patterns, that of a session is
\* a pattern.
LEMMA ArgsTyped ==
    ASSUME NEW c \in Conns
    PROVE  /\ \A a \in SubArgs(c) : a \in Seq(Subjects)
           /\ \A a \in PatArgs(c) : a \in Seq(Patterns)
           /\ InboxPat[c] \in Patterns
<1>1. ArgLists[c] \subseteq Seq(Subjects \cup Patterns) /\ InboxPat[c] \in Patterns
  BY PubSubAssumption
<1>2. ASSUME NEW a \in Seq(Subjects \cup Patterns), NEW T, ToSet(a) \subseteq T
      PROVE  a \in Seq(T)
  <2>1. \A i \in 1..Len(a) : a[i] \in ToSet(a)
    BY DEF ToSet
  <2> QED BY <1>2, <2>1
<1> QED BY <1>1, <1>2 DEF SubArgs, PatArgs

\* A listing of a subset of a finite set is a sequence over the set.
LEMMA ListingTyped ==
    ASSUME NEW T, NEW S \in SUBSET T, IsFiniteSet(T)
    PROVE  SetToSeq(S) \in Seq(T)
<1>1. IsFiniteSet(S)
  BY FS_Subset
<1>2. Cardinality(S) \in Nat /\ SetToSeq(S) \in [1..Cardinality(S) -> S]
  BY <1>1, SetToSeqIsListing
<1>3. SetToSeq(S) \in [1..Cardinality(S) -> T]
  BY <1>2
<1> QED BY <1>2, <1>3

\* The empty tables satisfy the invariant.
LEMMA InitInv == Init => IInv
<1> SUFFICES ASSUME Init PROVE IInv
  OBVIOUS
<1>1. reg \in Reg
  BY DEF Init, Reg, NoSubs
<1>2. \A c \in Conns, s \in Subjects : reg.tab[c][s] = "none" /\ reg.ibx[c][s] = 0
  BY DEF Init, NoSubs
<1>3. Counted(reg)
  <2>1. \A c \in Conns : {s \in Subjects : reg.tab[c][s] = "route"} = {} /\ reg.cnt[c] = 0
    BY <1>2 DEF Init
  <2> QED BY <2>1, FS_EmptySet DEF Counted
<1>4. SubRouted(reg)
  BY <1>2 DEF SubRouted, Init
<1>5. PatRouted(reg) /\ PreRouted(reg, open) /\ Eventful(reg)
  BY DEF PatRouted, PreRouted, Eventful, Init
<1>6. Numbered(reg) /\ \A c \in Conns : reg.next[c] <= MaxInbox
  BY <1>2, PubSubAssumption DEF Numbered, Init
<1>7. InboxesKept(reg, inboxes) /\ open \subseteq Conns /\ reg.cb \subseteq reg.sess
  BY DEF InboxesKept, Init
<1>8. PatExact(reg)
  BY DEF PatExact, PrtExact, PreUsed, Init
<1> QED BY <1>1, <1>3, <1>4, <1>5, <1>6, <1>7, <1>8 DEF IInv, Kept, Tables

\* SUBSCRIBE keeps the invariant; an inbox it announces names one
\* subscription.
LEMMA SubscribeInv ==
    ASSUME IInv, NEW c \in Conns, NEW a \in SubArgs(c), Subscribe(c, a)
    PROVE  IInv'
<1>1. a \in Seq(Subjects) /\ open \in SUBSET Conns /\ Kept(reg, open, inboxes) /\ reg \in Reg
  BY ArgsTyped DEF IInv, Kept, Tables
<1> DEFINE r == DoSub(c, "subscribe", a)
<1>2. Kept(r.g, open, inboxes) /\ Step(reg, r.g, c, "subscribe", Len(a))
  <2>1. "subscribe" \in SubFlags /\ a \in Seq(Args("subscribe"))
    BY <1>1 DEF SubFlags, Args
  <2> QED BY <1>1, <2>1, DoSubKept
<1> HIDE DEF r
<1>3. reg' = r.g /\ open' = open /\ inboxes' = inboxes \cup Announced(c, a)
  BY DEF Subscribe, Replied, r
<1>4. Tables(reg', open') /\ InboxesKept(reg', inboxes) /\ PatExact(reg') /\ reg' \in Reg
  BY <1>2, <1>3 DEF Kept, Tables
<1>5. \A d \in Conns : reg'.next[d] <= MaxInbox
  <2>1. reg.next[c] + Len(a) <= MaxInbox
    BY DEF Subscribe
  <2>2. \A d \in Conns : reg.next[d] <= MaxInbox /\ reg.next[d] \in Nat
    BY <1>1 DEF IInv, Reg
  <2>3. /\ \A d \in Conns \ {c} : reg'.next[d] = reg.next[d]
        /\ reg'.next[c] <= reg.next[c] + Len(a)
        /\ reg'.next[c] \in Nat
    BY <1>2, <1>3, <1>4 DEF Step, Reg
  <2>4. Len(a) \in Nat /\ MaxInbox \in Nat
    BY <1>1, PubSubAssumption
  <2> QED BY <2>1, <2>2, <2>3, <2>4
<1>6. InboxesKept(reg', Announced(c, a))
  <2> SUFFICES ASSUME NEW ibx \in Announced(c, a)
               PROVE  /\ ibx \in Conns \X Subjects \X Hashes \X Nat
                      /\ ibx[3] = Hash[ibx[2]]
                      /\ ibx[4] <= reg'.next[ibx[1]]
                      /\ \A s \in Subjects :
                            ibx[4] # 0 /\ reg'.ibx[ibx[1]][s] = ibx[4] => s = ibx[2]
    BY DEF InboxesKept
  <2>1. PICK i \in DOMAIN a : ibx = <<c, a[i], Hash[a[i]], reg'.ibx[c][a[i]]>>
    BY DEF Announced
  <2>2. a[i] \in Subjects
    BY <1>1
  <2>3. reg'.ibx[c][a[i]] \in Nat /\ Hash[a[i]] \in Hashes
    BY <1>4, <2>2 DEF Reg, Hashes
  <2> QED BY <1>4, <2>1, <2>2, <2>3 DEF Tables, Numbered
<1>7. InboxesKept(reg', inboxes')
  BY <1>3, <1>4, <1>6 DEF InboxesKept
<1> QED BY <1>1, <1>3, <1>4, <1>5, <1>7 DEF IInv, Kept

\* A step that gives no number to a subscription and keeps the invariant of
\* the tables keeps the whole invariant.
LEMMA KeptInv ==
    ASSUME IInv, open' \in SUBSET open, inboxes' = inboxes,
           Kept(reg', open', inboxes), \A c \in Conns : reg'.next[c] <= reg.next[c]
    PROVE  IInv'
<1>1. /\ open \subseteq Conns /\ reg \in Reg /\ reg' \in Reg
      /\ \A c \in Conns : reg.next[c] <= MaxInbox
  BY DEF IInv, Kept, Tables
<1>2. \A c \in Conns : reg'.next[c] <= MaxInbox
  BY <1>1, PubSubAssumption DEF Reg
<1> QED BY <1>1, <1>2 DEF IInv, Kept

\* UNSUBSCRIBE, PSUBSCRIBE and PUNSUBSCRIBE of any arguments keep the
\* invariant; UNSUBSCRIBE leaves the continuations in the table.
LEMMA ReplyInv ==
    ASSUME IInv, NEW c \in Conns, NEW flag \in SubFlags \ {"subscribe"},
           NEW a \in Seq(Args(flag)), Replied(c, DoSub(c, flag, a), flag),
           UNCHANGED inboxes
    PROVE  IInv' /\ (flag = "unsubscribe" => KindStays(reg, reg', "cont"))
<1>1. open \in SUBSET Conns /\ Kept(reg, open, inboxes) /\ reg \in Reg
  BY DEF IInv, Kept, Tables
<1> DEFINE r == DoSub(c, flag, a)
<1>2. Kept(r.g, open, inboxes) /\ Step(reg, r.g, c, flag, Len(a))
  BY <1>1, DoSubKept
<1> HIDE DEF r
<1>3. reg' = r.g /\ open' = open /\ inboxes' = inboxes
  BY DEF Replied, r
<1>4. \A d \in Conns : reg'.next[d] <= reg.next[d]
  <2>1. \A d \in Conns : reg.next[d] \in Nat
    BY <1>1 DEF Reg
  <2> QED BY <1>2, <1>3, <2>1 DEF Step
<1>5. IInv'
  BY <1>1, <1>2, <1>3, <1>4, KeptInv
<1> QED BY <1>2, <1>3, <1>5 DEF Step

\* UNSUBSCRIBE, with arguments or for everything, keeps the invariant and
\* leaves the continuations in the table.
LEMMA UnsubscribeInv ==
    ASSUME IInv, NEW c \in Conns, NEW a \in SubArgs(c) \cup {<<>>}, Unsubscribe(c, a)
    PROVE  IInv' /\ KindStays(reg, reg', "cont")
<1> DEFINE all == SetToSeq({s \in Subjects : reg.tab[c][s] = "route"})
           b   == IF a = <<>> THEN all ELSE a
<1>1. all \in Seq(Subjects)
  <2>1. {s \in Subjects : reg.tab[c][s] = "route"} \in SUBSET Subjects
    OBVIOUS
  <2> QED BY <2>1, ListingTyped, PubSubAssumption
<1>2. b \in Seq(Subjects)
  <2> HIDE DEF all
  <2> QED BY <1>1, ArgsTyped
<1>3. Replied(c, DoSub(c, "unsubscribe", b), "unsubscribe") /\ UNCHANGED inboxes
  BY DEF Unsubscribe
<1> HIDE DEF b
<1>4. "unsubscribe" \in SubFlags \ {"subscribe"} /\ b \in Seq(Args("unsubscribe"))
  BY <1>2 DEF SubFlags, Args
<1> QED BY <1>3, <1>4, ReplyInv

\* PSUBSCRIBE keeps the invariant.
LEMMA PsubscribeInv ==
    ASSUME IInv, NEW c \in Conns, NEW a \in PatArgs(c), Psubscribe(c, a)
    PROVE  IInv'
<1>1. Replied(c, DoSub(c, "psubscribe", a), "psubscribe") /\ UNCHANGED inboxes
  BY DEF Psubscribe
<1>2. "psubscribe" \in SubFlags \ {"subscribe"} /\ a \in Seq(Args("psubscribe"))
  BY ArgsTyped DEF SubFlags, Args
<1> QED BY <1>1, <1>2, ReplyInv

\* PUNSUBSCRIBE, with arguments or for everything, keeps the invariant.
LEMMA PunsubscribeInv ==
    ASSUME IInv, NEW c \in Conns, NEW a \in PatArgs(c) \cup {<<>>}, Punsubscribe(c, a)
    PROVE  IInv'
<1> DEFINE kept == SessionPat(reg, c)
           all  == SetToSeq(reg.pats[c] \ kept)
           b    == IF a = <<>> THEN all ELSE a
<1>1. all \in Seq(Patterns)
  <2>1. reg.pats[c] \ kept \in SUBSET Patterns
    BY DEF IInv, Kept, Tables, Reg
  <2> HIDE DEF kept
  <2> QED BY <2>1, ListingTyped, PubSubAssumption
<1>2. b \in Seq(Patterns)
  <2> HIDE DEF all
  <2> QED BY <1>1, ArgsTyped
<1>3. Replied(c, DoSub(c, "punsubscribe", b), "punsubscribe") /\ UNCHANGED inboxes
  BY DEF Punsubscribe
<1> HIDE DEF b
<1>4. "punsubscribe" \in SubFlags \ {"subscribe"} /\ b \in Seq(Args("punsubscribe"))
  BY <1>2 DEF SubFlags, Args
<1> QED BY <1>3, <1>4, ReplyInv

\* set_session keeps the invariant.
LEMMA SetSessionInv ==
    ASSUME IInv, NEW c \in Conns, SetSession(c)
    PROVE  IInv'
<1> DEFINE g == [reg EXCEPT !.sess = @ \cup {c}]
<1>1. open \in SUBSET Conns /\ Kept(reg, open, inboxes) /\ reg \in Reg
  BY DEF IInv, Kept, Tables
<1>2. g \in Reg
  BY <1>1 DEF Reg
<1>3. /\ g.sess = reg.sess \cup {c} /\ g.cb = reg.cb /\ g.kspc = reg.kspc
      /\ SameSubs(reg, g) /\ SamePats(reg, g) /\ SameIds(reg, g)
  BY <1>1 DEF Reg, SameSubs, SamePats, SameIds
<1> HIDE DEF g
<1>4. Kept(g, open, inboxes)
  BY <1>1, <1>2, <1>3 DEF Kept, Tables, Counted, Numbered, PreRouted, InboxesKept, SubRouted,
     PatRouted, Eventful, SameSubs, SamePats, SameIds, PatExact, PrtExact, PreUsed
<1> DEFINE r == DoPsubscribe(g, c, InboxPat[c], TRUE)
<1>5. Kept(r.g, open, inboxes) /\ r.g.next = g.next
  <2>1. InboxPat[c] \in Patterns /\ c \in g.sess
    BY <1>3, ArgsTyped
  <2> QED BY <1>1, <1>4, <2>1, DoPsubscribeKept
<1> HIDE DEF r
<1>6. reg' = r.g /\ open' = open /\ inboxes' = inboxes
  BY DEF SetSession, r, g
<1>7. \A d \in Conns : reg'.next[d] <= reg.next[d]
  BY <1>1, <1>3, <1>5, <1>6 DEF SameIds, Reg
<1> QED BY <1>1, <1>5, <1>6, <1>7, KeptInv

\* A command that blocks keeps the invariant.
LEMMA BlockInv ==
    ASSUME IInv, NEW c \in Conns, NEW s \in Blocking, Block(c, s)
    PROVE  IInv'
<1>1. open \in SUBSET Conns /\ Kept(reg, open, inboxes) /\ reg \in Reg /\ s \in Subjects
  BY PubSubAssumption DEF IInv, Kept, Tables
<1>2. open' = open /\ inboxes' = inboxes
  BY DEF Block
<1>3. Kept(reg', open, inboxes) /\ reg'.next = reg.next
  <2>1. CASE reg.tab[c][s] = "none"
    BY <1>1, <2>1, BlockKept DEF Block
  <2>2. CASE reg.tab[c][s] # "none"
    BY <1>1, <2>2 DEF Block
  <2> QED BY <2>1, <2>2
<1>4. \A d \in Conns : reg'.next[d] <= reg.next[d]
  BY <1>1, <1>3 DEF Reg
<1> QED BY <1>1, <1>2, <1>3, <1>4, KeptInv

\* The end of a blocked command keeps the invariant and leaves the
\* subscriptions of the client in the table.
LEMMA UnblockInv ==
    ASSUME IInv, NEW c \in Conns, NEW s \in Blocking, Unblock(c, s)
    PROVE  IInv' /\ KindStays(reg, reg', "route")
<1>1. open \in SUBSET Conns /\ Kept(reg, open, inboxes) /\ reg \in Reg /\ s \in Subjects
  BY PubSubAssumption DEF IInv, Kept, Tables
<1>2. open' = open /\ inboxes' = inboxes
  BY DEF Unblock
<1>3. Kept(reg', open, inboxes) /\ reg'.next = reg.next /\ KindStays(reg, reg', "route")
  <2>1. CASE reg.tab[c][s] = "cont"
    BY <1>1, <2>1, UnblockKept DEF Unblock, SubRem
  <2>2. CASE reg.tab[c][s] # "cont"
    BY <1>1, <2>2 DEF Unblock, SubRem, KindStays
  <2> QED BY <2>1, <2>2
<1>4. \A d \in Conns : reg'.next[d] <= reg.next[d]
  BY <1>1, <1>3 DEF Reg
<1> QED BY <1>1, <1>2, <1>3, <1>4, KeptInv

\* A close keeps the invariant.
LEMMA CloseInv ==
    ASSUME IInv, NEW c \in Conns, Close(c)
    PROVE  IInv'
<1>1. open \in SUBSET Conns /\ Kept(reg, open, inboxes) /\ reg \in Reg
  BY DEF IInv, Kept, Tables
<1>2. open' = open \ {c} /\ inboxes' = inboxes
  BY DEF Close
<1>3. Kept(reg', open \ {c}, inboxes) /\ reg'.next = reg.next
  BY <1>1, CloseKept DEF Close
<1>4. \A d \in Conns : reg'.next[d] <= reg.next[d]
  BY <1>1, <1>3 DEF Reg
<1> QED BY <1>1, <1>2, <1>3, <1>4, KeptInv

\* A step that writes no table keeps the invariant.
LEMMA SameTablesInv ==
    ASSUME IInv, UNCHANGED <<open, reg, inboxes>>
    PROVE  IInv'
BY DEF IInv

\* Every step keeps the invariant.
LEMMA StepInv == IInv /\ [Next]_vars => IInv'
<1> SUFFICES ASSUME IInv, [Next]_vars PROVE IInv'
  OBVIOUS
<1>1. ASSUME NEW c \in Conns, NEW a \in SubArgs(c), Subscribe(c, a) PROVE IInv'
  BY <1>1, SubscribeInv
<1>2. ASSUME NEW c \in Conns, NEW a \in SubArgs(c) \cup {<<>>}, Unsubscribe(c, a) PROVE IInv'
  BY <1>2, UnsubscribeInv
<1>3. ASSUME NEW c \in Conns, NEW a \in PatArgs(c), Psubscribe(c, a) PROVE IInv'
  BY <1>3, PsubscribeInv
<1>4. ASSUME NEW c \in Conns, NEW a \in PatArgs(c) \cup {<<>>}, Punsubscribe(c, a) PROVE IInv'
  BY <1>4, PunsubscribeInv
<1>5. ASSUME NEW c \in Conns, SetSession(c) PROVE IInv'
  BY <1>5, SetSessionInv
<1>6. ASSUME NEW c \in Conns, NEW s \in Blocking, Block(c, s) PROVE IInv'
  BY <1>6, BlockInv
<1>7. ASSUME NEW c \in Conns, NEW s \in Blocking, Unblock(c, s) PROVE IInv'
  BY <1>7, UnblockInv
<1>8. ASSUME NEW c \in Conns, NEW s \in Subjects, Publish(c, s) PROVE IInv'
  BY <1>8, SameTablesInv DEF Publish
<1>9. ASSUME NEW c \in Conns, NEW call \in Calls, Command(c, call) PROVE IInv'
  BY <1>9, SameTablesInv DEF Command
<1>10. ASSUME NEW c \in Conns, NEW ibx \in inboxes, ReplyInbox(c, ibx) PROVE IInv'
  BY <1>10, SameTablesInv DEF ReplyInbox
<1>11. ASSUME NEW c \in Conns, Channels(c) PROVE IInv'
  BY <1>11, SameTablesInv DEF Channels
<1>12. ASSUME NEW c \in Conns, Close(c) PROVE IInv'
  BY <1>12, CloseInv
<1>13. CASE UNCHANGED vars
  BY <1>13, SameTablesInv DEF vars
<1> QED BY <1>1, <1>2, <1>3, <1>4, <1>5, <1>6, <1>7, <1>8, <1>9, <1>10, <1>11, <1>12, <1>13
        DEF Next

\* The tables of the connections, the routes of the loop, the event classes
\* and the inboxes announced agree in every reachable state.
THEOREM Invariant == Spec => []IInv
BY InitInv, StepInv, PTL DEF Spec

-----------------------------------------------------------------------------
(* The properties *)

\* The tables have their types, and sub_count is the number of subscriptions
\* of the client, continuations left out.
THEOREM TypeCorrect == Spec => []TypeOK
<1>1. IInv => TypeOK
  <2> SUFFICES ASSUME IInv PROVE TypeOK
    OBVIOUS
  <2>1. reg \in Reg /\ Counted(reg) /\ Numbered(reg) /\ reg.cb \subseteq reg.sess /\ open \subseteq Conns
    BY DEF IInv, Kept, Tables
  <2>2. \A c \in Conns : reg.next[c] \in 0..MaxInbox
    BY <2>1, PubSubAssumption DEF IInv, Reg
  <2>3. \A c \in Conns, s \in Subjects : reg.ibx[c][s] \in 0..MaxInbox
    BY <2>1, <2>2, PubSubAssumption DEF Numbered, Reg
  <2>4. reg.next \in [Conns -> 0..MaxInbox]
    BY <2>1, <2>2 DEF Reg
  <2>5. reg.ibx \in [Conns -> [Subjects -> 0..MaxInbox]]
    BY <2>1, <2>3 DEF Reg
  <2> QED BY <2>1, <2>4, <2>5 DEF TypeOK, Reg, Counted
<1> QED BY <1>1, Invariant, PTL

\* hcnt of a subject counts the subjects of its hash in sub_tab.
LEMMA SubHcntMeans ==
    ASSUME NEW g \in Reg, NEW c \in Conns, NEW s \in Subjects
    PROVE  SubHcnt(g, c, s) > 0 <=>
               \E t \in Subjects : g.tab[c][t] # "none" /\ Hash[t] = Hash[s]
<1> DEFINE S == {t \in Subjects : g.tab[c][t] # "none" /\ Hash[t] = Hash[s]}
<1>1. S \in SUBSET Subjects /\ IsFiniteSet(Subjects)
  BY PubSubAssumption
<1>2. Cardinality(S) > 0 <=> S # {}
  <2> HIDE DEF S
  <2> QED BY <1>1, FS_Subset, MoreThanNone
<1> QED BY <1>2 DEF SubHcnt

\* is_subscribed and is_psubscribed answer the loop with what its routes say,
\* whatever subjects and prefixes share a hash.
THEOREM TestIsRouteCorrect == Spec => []TestIsRoute
<1>1. IInv => TestIsRoute
  <2> SUFFICES ASSUME IInv, NEW c \in open
               PROVE  /\ \A s \in Subjects :
                            LET t == TestSubscribed(reg, c, s)
                            IN  (t.subscribed \/ t.collision) <=> c \in reg.rt[Hash[s]]
                      /\ \A p \in Patterns :
                            LET t == TestPsubscribed(reg, c, p)
                            IN  c \in reg.prt[PrefixHash[Prefix[p]]] => t.subscribed \/ t.collision
    BY DEF TestIsRoute
  <2>1. c \in Conns /\ reg \in Reg /\ SubRouted(reg) /\ PreRouted(reg, open)
    BY DEF IInv, Kept, Tables
  <2>2. ASSUME NEW s \in Subjects
        PROVE  LET t == TestSubscribed(reg, c, s)
               IN  (t.subscribed \/ t.collision) <=> c \in reg.rt[Hash[s]]
    <3>1. Hash[s] \in Hashes
      BY DEF Hashes
    <3>2. c \in reg.rt[Hash[s]] <=> \E t \in Subjects : reg.tab[c][t] # "none" /\ Hash[t] = Hash[s]
      BY <2>1, <3>1 DEF SubRouted
    <3>3. CASE reg.tab[c][s] # "none"
      BY <3>2, <3>3 DEF TestSubscribed
    <3>4. CASE reg.tab[c][s] = "none"
      <4>1. SubHcnt(reg, c, s) > 0 <=> c \in reg.rt[Hash[s]]
        BY <2>1, <3>2, SubHcntMeans
      <4> QED BY <3>4, <4>1 DEF TestSubscribed
    <3> QED BY <3>3, <3>4
  <2>3. ASSUME NEW p \in Patterns, c \in reg.prt[PrefixHash[Prefix[p]]]
        PROVE  LET t == TestPsubscribed(reg, c, p) IN t.subscribed \/ t.collision
    <3>1. PrefixHash[Prefix[p]] \in PreHashes
      BY DEF PreHashes, PatPrefixes
    <3>2. \E x \in reg.pre[c] : PrefixHash[x] = PrefixHash[Prefix[p]]
      BY <2>1, <2>3, <3>1 DEF PreRouted
    <3>3. CASE Prefix[p] \notin reg.pre[c]
      <4>1. PatHcnt(reg, c, Prefix[p]) > 0
        BY <2>1, <3>2, PatHcntMeans
      <4> QED BY <3>3, <4>1 DEF TestPsubscribed
    <3>4. CASE Prefix[p] \in reg.pre[c] /\ p \in reg.pats[c]
      BY <3>4 DEF TestPsubscribed
    <3>5. CASE Prefix[p] \in reg.pre[c] /\ p \notin reg.pats[c]
      BY <3>5 DEF TestPsubscribed
    <3> QED BY <3>3, <3>4, <3>5
  <2> QED BY <2>2, <2>3
<1> QED BY <1>1, Invariant, PTL

\* A class of keyspace events is on only for connections with a subject or a
\* pattern of the class.
THEOREM NoIdleEventsCorrect == Spec => []NoIdleEvents
<1>1. IInv => NoIdleEvents
  BY DEF IInv, Kept, Tables, Eventful, NoIdleEvents
<1> QED BY <1>1, Invariant, PTL

\* A hash is routed to exactly the connections that have a subject or a
\* pattern of it, provided that no pattern that fails to compile shares the
\* hash of its prefix with another prefix. Without the proviso the prefix
\* that do_psubscribe_cb leaves behind counts as a collision and keeps the
\* route of the other prefix; that no route is lost holds without it
\* (Invariant).
THEOREM RouteOfTableCorrect ==
    ASSUME BadApart
    PROVE  Spec => []RouteOfTable
<1>1. IInv => RouteOfTable
  <2> SUFFICES ASSUME IInv PROVE RouteOfTable
    OBVIOUS
  <2>1. SubRouted(reg) /\ PatRouted(reg) /\ PrtExact(reg)
    BY DEF IInv, Kept, Tables, PatExact
  <2> QED BY <2>1 DEF RouteOfTable, SubRouted, PatRouted, PrtExact
<1> QED BY <1>1, Invariant, PTL

\* The name a step leaves in last tells which command ran.
LEMMA OpNames ==
    ASSUME Next
    PROVE  \/ last'.op \notin {"unsubscribe", "unblock", "publish", "inbox"}
           \/ /\ last'.op = "unsubscribe"
              /\ \E c \in Conns, a \in UNION {SubArgs(d) \cup {<<>>} : d \in Conns} :
                    a \in SubArgs(c) \cup {<<>>} /\ Unsubscribe(c, a)
           \/ /\ last'.op = "unblock"
              /\ \E c \in Conns, s \in Blocking : Unblock(c, s)
           \/ /\ last'.op = "publish"
              /\ \E c \in Conns, s \in Subjects : Publish(c, s)
           \/ /\ last'.op = "inbox"
              /\ \E c \in Conns, ibx \in inboxes : ReplyInbox(c, ibx)
<1> DEFINE Other == last'.op \notin {"unsubscribe", "unblock", "publish", "inbox"}
<1>1. ASSUME NEW c \in Conns, NEW a \in SubArgs(c), Subscribe(c, a) PROVE Other
  BY <1>1 DEF Subscribe, Replied
<1>2. ASSUME NEW c \in Conns, NEW a \in SubArgs(c) \cup {<<>>}, Unsubscribe(c, a)
      PROVE  last'.op = "unsubscribe"
  BY <1>2 DEF Unsubscribe, Replied
<1>3. ASSUME NEW c \in Conns, NEW a \in PatArgs(c), Psubscribe(c, a) PROVE Other
  BY <1>3 DEF Psubscribe, Replied
<1>4. ASSUME NEW c \in Conns, NEW a \in PatArgs(c) \cup {<<>>}, Punsubscribe(c, a) PROVE Other
  BY <1>4 DEF Punsubscribe, Replied
<1>5. ASSUME NEW c \in Conns, SetSession(c) PROVE Other
  BY <1>5 DEF SetSession
<1>6. ASSUME NEW c \in Conns, NEW s \in Blocking, Block(c, s) PROVE Other
  BY <1>6 DEF Block
<1>7. ASSUME NEW c \in Conns, NEW s \in Blocking, Unblock(c, s) PROVE last'.op = "unblock"
  BY <1>7 DEF Unblock
<1>8. ASSUME NEW c \in Conns, NEW s \in Subjects, Publish(c, s) PROVE last'.op = "publish"
  BY <1>8 DEF Publish
<1>9. ASSUME NEW c \in Conns, NEW call \in Calls, Command(c, call) PROVE Other
  BY <1>9 DEF Command
<1>10. ASSUME NEW c \in Conns, NEW ibx \in inboxes, ReplyInbox(c, ibx) PROVE last'.op = "inbox"
  BY <1>10 DEF ReplyInbox
<1>11. ASSUME NEW c \in Conns, Channels(c) PROVE Other
  BY <1>11 DEF Channels
<1>12. ASSUME NEW c \in Conns, Close(c) PROVE Other
  BY <1>12 DEF Close
<1> QED BY <1>1, <1>2, <1>3, <1>4, <1>5, <1>6, <1>7, <1>8, <1>9, <1>10, <1>11, <1>12 DEF Next

\* UNSUBSCRIBE never removes the continuation of a blocked command, and the
\* end of a blocked command never removes a subscription of the client.
THEOREM KindKeptCorrect == Spec => KindKept
<1> DEFINE K == \A c \in Conns, s \in Subjects :
                   /\ reg.tab[c][s] = "cont"  /\ last'.op = "unsubscribe" => reg'.tab[c][s] = "cont"
                   /\ reg.tab[c][s] = "route" /\ last'.op = "unblock"     => reg'.tab[c][s] = "route"
<1>1. ASSUME IInv, [Next]_vars PROVE [K]_vars
  <2> SUFFICES ASSUME Next PROVE K
    BY <1>1
  <2>1. ASSUME NEW c \in Conns, NEW a \in SubArgs(c) \cup {<<>>}, Unsubscribe(c, a) PROVE K
    <3>1. KindStays(reg, reg', "cont") /\ last'.op = "unsubscribe"
      BY <1>1, <2>1, UnsubscribeInv DEF Unsubscribe, Replied
    <3> QED BY <3>1 DEF KindStays
  <2>2. ASSUME NEW c \in Conns, NEW s \in Blocking, Unblock(c, s) PROVE K
    <3>1. KindStays(reg, reg', "route") /\ last'.op = "unblock"
      BY <1>1, <2>2, UnblockInv DEF Unblock
    <3> QED BY <3>1 DEF KindStays
  <2> QED BY <2>1, <2>2, OpNames
<1> QED BY <1>1, Invariant, PTL DEF Spec, KindKept

-----------------------------------------------------------------------------
(* What is sent *)

\* Nothing forwarded is nothing sent.
LEMMA FlattenNone == FlattenSeq(<<>>) = <<>>
BY DEF FlattenSeq

\* One subject forwarded is what do_pub sends for it.
LEMMA FlattenOne ==
    ASSUME NEW seq, DOMAIN seq = 1..1, Len(seq) = 1
    PROVE  FlattenSeq(seq) = seq[1]
<1> DEFINE Is(f) == f = [i \in 1..Len(seq) |-> IF i = 1 THEN seq[i] ELSE f[i - 1] \o seq[i]]
           g == [i \in 1..1 |-> seq[1]]
           f == CHOOSE f : Is(f)
<1>1. Is(g)
  OBVIOUS
<1>2. Is(f)
  <2> HIDE DEF Is, g
  <2> QED BY <1>1, Zenon
<1>3. FlattenSeq(seq) = f[Len(seq)]
  <2>1. Len(seq) # 0
    OBVIOUS
  <2> QED BY <2>1, Zenon DEF FlattenSeq
<1> HIDE DEF f
<1>4. f[1] = seq[1]
  BY <1>2
<1> QED BY <1>3, <1>4

\* The listing of the empty set is empty.
LEMMA ListingOfNone == SetToSeq({}) = <<>>
<1>1. IsFiniteSet({}) /\ Cardinality({}) = 0
  BY FS_EmptySet
<1>2. SetToSeq({}) \in [1..0 -> {}]
  BY <1>1, SetToSeqIsListing
<1> QED BY <1>2

\* The listing of one element is that element.
LEMMA ListingOfOne ==
    ASSUME NEW x
    PROVE  SetToSeq({x}) = <<x>>
<1>1. IsFiniteSet({x}) /\ Cardinality({x}) = 1
  BY FS_Singleton
<1>2. SetToSeq({x}) \in [1..1 -> {x}]
  BY <1>1, SetToSeqIsListing
<1> QED BY <1>2

\* What do_pub sends to a connection is the exact entry of the subject and
\* each pattern that matches: the routes lose none of them.
LEMMA DoPubMeans ==
    ASSUME IInv, NEW d \in Conns, NEW c, c # d, NEW s \in Subjects
    PROVE  LET P == {q \in reg.pats[d] : s \in Matches[q]}
           IN  DoPub(reg, d, c, s) =
                   Exact(reg, d, s) \o SetToSeq({PMessage(q, s) : q \in P})
<1> DEFINE P == {q \in reg.pats[d] : s \in Matches[q]}
           Q == {q \in reg.pats[d] : s \in Matches[q] /\ d \in reg.prt[PrefixHash[Prefix[q]]]}
<1>1. SubRouted(reg) /\ PatRouted(reg) /\ Hash[s] \in Hashes
  BY DEF IInv, Kept, Tables, Hashes
<1>2. Q = P
  BY <1>1 DEF PatRouted
<1>3. d \notin reg.rt[Hash[s]] => Exact(reg, d, s) = <<>>
  BY <1>1 DEF SubRouted, Exact
<1>4. ByPattern(reg, d, s) = SetToSeq({PMessage(q, s) : q \in Q})
  BY DEF ByPattern
<1>5. DoPub(reg, d, c, s) = Exact(reg, d, s) \o ByPattern(reg, d, s)
  BY <1>3 DEF DoPub
<1> HIDE DEF P, Q
<1>6. DoPub(reg, d, c, s) = Exact(reg, d, s) \o SetToSeq({PMessage(q, s) : q \in P})
  BY <1>2, <1>4, <1>5
<1> QED BY <1>6 DEF P

\* In a sequence of at most one element followed by a listing, each element
\* of the listing is there once.
LEMMA ListedOnce ==
    ASSUME NEW M, IsFiniteSet(M), NEW E, E = <<>> \/ \E e : E = <<e>> /\ e \notin M
    PROVE  LET q == E \o SetToSeq(M)
           IN  /\ Len(q) = Len(E) + Cardinality(M)
               /\ \A m \in M : Copies(q, m) = 1
               /\ \A m : m \notin M => Copies(q, m) = IF E = <<m>> THEN 1 ELSE 0
<1> DEFINE L == SetToSeq(M)
           n == Cardinality(M)
           k == Len(E)
           q == E \o L
<1>1. /\ n \in Nat /\ L \in [1..n -> M] /\ DOMAIN L = 1..n
      /\ \A i, j \in 1..n : L[i] = L[j] => i = j
      /\ \A x \in M : \E i \in 1..n : L[i] = x
  BY SetToSeqIsListing
<1> HIDE DEF L, n
<1>2. L \in Seq(M) /\ Len(L) = n
  BY <1>1
<1>3. k \in {0, 1} /\ (k = 0 <=> E = <<>>) /\ (k = 1 => E = <<E[1]>> /\ E[1] \notin M)
  OBVIOUS
<1>4. E \in Seq({E[1]})
  <2> DEFINE e1 == E[1]
  <2>1. <<>> \in Seq({e1}) /\ <<e1>> \in Seq({e1})
    OBVIOUS
  <2>2. E = <<>> \/ E = <<e1>>
    BY <1>3
  <2> HIDE DEF e1
  <2>3. E \in Seq({e1})
    BY <2>1, <2>2
  <2> QED BY <2>3 DEF e1
<1>5. /\ DOMAIN q = 1..(k + n) /\ Len(q) = k + n
      /\ \A i \in 1..n : q[k + i] = L[i]
      /\ k = 1 => q[1] = E[1]
  BY <1>1, <1>2, <1>3, <1>4
<1> HIDE DEF q
<1>6. \A i \in DOMAIN q : (i > k /\ q[i] = L[i - k] /\ i - k \in 1..n) \/ (k = 1 /\ i = 1)
  <2> SUFFICES ASSUME NEW i \in DOMAIN q
               PROVE  (i > k /\ q[i] = L[i - k] /\ i - k \in 1..n) \/ (k = 1 /\ i = 1)
    OBVIOUS
  <2>1. i \in 1..(k + n) /\ k \in {0, 1} /\ n \in Nat
    BY <1>1, <1>3, <1>5
  <2> HIDE DEF k
  <2>2. CASE i > k
    <3>1. i - k \in 1..n /\ k + (i - k) = i
      BY <2>1, <2>2
    <3>2. q[k + (i - k)] = L[i - k]
      BY <1>5, <3>1
    <3> QED BY <2>2, <3>1, <3>2
  <2>3. CASE ~(i > k)
    BY <2>1, <2>3
  <2> QED BY <2>2, <2>3
<1>7. ASSUME NEW m \in M PROVE Copies(q, m) = 1
  <2>1. PICK j \in 1..n : L[j] = m
    BY <1>1
  <2>2. {i \in DOMAIN q : q[i] = m} = {k + j}
    <3>1. k + j \in DOMAIN q /\ q[k + j] = m
      BY <1>1, <1>3, <1>5, <2>1
    <3>2. ASSUME NEW i \in DOMAIN q, q[i] = m PROVE i = k + j
      <4>1. ~(k = 1 /\ i = 1)
        BY <1>3, <1>5, <3>2
      <4>2. i > k /\ L[i - k] = m /\ i - k \in 1..n
        BY <1>6, <3>2, <4>1
      <4>3. i - k = j
        BY <1>1, <2>1, <4>2
      <4> QED BY <1>3, <1>5, <4>3
    <3> QED BY <3>1, <3>2
  <2> QED BY <2>2, FS_Singleton DEF Copies
<1>8. ASSUME NEW m, m \notin M PROVE Copies(q, m) = IF E = <<m>> THEN 1 ELSE 0
  <2>1. \A i \in DOMAIN q : q[i] = m => k = 1 /\ i = 1
    BY <1>1, <1>6, <1>8
  <2>2. CASE E = <<m>>
    <3>1. {i \in DOMAIN q : q[i] = m} = {1}
      BY <1>1, <1>3, <1>5, <2>1, <2>2
    <3> QED BY <2>2, <3>1, FS_Singleton DEF Copies
  <2>3. CASE E # <<m>>
    <3>1. {i \in DOMAIN q : q[i] = m} = {}
      BY <1>3, <1>5, <2>1, <2>3
    <3> QED BY <2>3, <3>1, FS_EmptySet DEF Copies
  <2> QED BY <2>2, <2>3
<1> QED BY <1>5, <1>7, <1>8 DEF q, L, n

\* There are as many pattern messages as patterns that match.
LEMMA PMessagesCounted ==
    ASSUME NEW P, IsFiniteSet(P), NEW s
    PROVE  LET M == {PMessage(q, s) : q \in P}
           IN  IsFiniteSet(M) /\ Cardinality(M) = Cardinality(P)
<1> DEFINE M == {PMessage(q, s) : q \in P}
           f == [q \in P |-> PMessage(q, s)]
<1>1. f \in Surjection(P, M)
  BY DEF Surjection
<1>2. f \in Injection(P, M)
  <2>1. \A p, q \in P : PMessage(p, s) = PMessage(q, s) => p = q
    BY DEF PMessage
  <2> QED BY <2>1 DEF Injection, IsInjective
<1> HIDE DEF M, f
<1>3. IsFiniteSet(M) /\ Cardinality(M) = Cardinality(P)
  BY <1>1, <1>2, FS_Surjection
<1> QED BY <1>3 DEF M

\* PUBLISH sends every other connection one message for its subscription to
\* the subject and one for each pattern that matches, and nothing else.
THEOREM DeliveredCorrect == Spec => Delivered
<1> DEFINE K == last'.op = "publish" =>
                   \A d \in Conns \ {last'.src} :
                       LET s == last'.subj
                           p == {q \in reg.pats[d] : s \in Matches[q]}
                       IN  /\ Copies(out'[d], <<"message", s>>) =
                                  IF reg.tab[d][s] = "route" THEN 1 ELSE 0
                           /\ \A q \in p : Copies(out'[d], <<"pmessage", q, s>>) = 1
                           /\ Len(out'[d]) =
                                  Cardinality(p) + IF reg.tab[d][s] = "none" THEN 0 ELSE 1
<1>1. ASSUME IInv, [Next]_vars PROVE [K]_vars
  <2> SUFFICES ASSUME Next, last'.op = "publish" PROVE K
    BY <1>1
  <2>1. PICK c \in Conns, s \in Subjects : Publish(c, s)
    BY OpNames
  <2>2. last'.src = c /\ last'.subj = s /\ out' = Forwarded(reg, c, <<s>>)
    BY <2>1 DEF Publish
  <2> SUFFICES ASSUME NEW d \in Conns \ {c}
               PROVE  LET p == {q \in reg.pats[d] : s \in Matches[q]}
                      IN  /\ Copies(out'[d], <<"message", s>>) =
                                 IF reg.tab[d][s] = "route" THEN 1 ELSE 0
                          /\ \A q \in p : Copies(out'[d], <<"pmessage", q, s>>) = 1
                          /\ Len(out'[d]) =
                                 Cardinality(p) + IF reg.tab[d][s] = "none" THEN 0 ELSE 1
    BY <2>2
  <2> DEFINE P == {q \in reg.pats[d] : s \in Matches[q]}
             M == {PMessage(q, s) : q \in P}
             E == Exact(reg, d, s)
  <2>3. out'[d] = DoPub(reg, d, c, s)
    <3> DEFINE q == [i \in DOMAIN <<s>> |-> DoPub(reg, d, c, <<s>>[i])]
    <3>1. DOMAIN q = 1..1 /\ Len(q) = 1 /\ q[1] = DoPub(reg, d, c, s)
      OBVIOUS
    <3>2. out'[d] = FlattenSeq(q)
      BY <2>2 DEF Forwarded
    <3> HIDE DEF q
    <3> QED BY <3>1, <3>2, FlattenOne
  <2>4. out'[d] = E \o SetToSeq(M)
    BY <1>1, <2>3, DoPubMeans
  <2>5. IsFiniteSet(P)
    <3>1. P \in SUBSET Patterns /\ IsFiniteSet(Patterns)
      BY <1>1, PubSubAssumption DEF IInv, Kept, Tables, Reg
    <3> HIDE DEF P
    <3> QED BY <3>1, FS_Subset
  <2>6. reg.tab[d][s] \in {"none", "route", "cont"}
    BY <1>1 DEF IInv, Kept, Tables, Reg
  <2>7. /\ reg.tab[d][s] = "none" => E = <<>>
        /\ reg.tab[d][s] = "route" => E = <<Message(s)>>
        /\ reg.tab[d][s] = "cont" => E = <<<<"hit", s>>>>
    BY DEF Exact
  <2>8. Message(s) \notin M /\ <<"hit", s>> \notin M
    BY DEF Message, PMessage
  <2>9. \A q \in P : <<"pmessage", q, s>> \in M
    BY DEF PMessage
  <2>10. IsFiniteSet(M) /\ Cardinality(M) = Cardinality(P) /\ Cardinality(P) \in Nat
    <3> HIDE DEF P
    <3> QED BY <2>5, PMessagesCounted, FS_CardinalityType
  <2> HIDE DEF M, E, P
  <2>11. E = <<>> \/ \E e : E = <<e>> /\ e \notin M
    BY <2>6, <2>7, <2>8
  <2>12. /\ Len(out'[d]) = Len(E) + Cardinality(M)
         /\ \A m \in M : Copies(out'[d], m) = 1
         /\ \A m : m \notin M => Copies(out'[d], m) = IF E = <<m>> THEN 1 ELSE 0
    BY <2>4, <2>10, <2>11, ListedOnce
  <2>13. Copies(out'[d], <<"message", s>>) = IF reg.tab[d][s] = "route" THEN 1 ELSE 0
    <3>1. E = <<Message(s)>> <=> reg.tab[d][s] = "route"
      BY <2>6, <2>7 DEF Message
    <3> QED BY <2>8, <2>12, <3>1 DEF Message
  <2>14. \A q \in P : Copies(out'[d], <<"pmessage", q, s>>) = 1
    BY <2>9, <2>12
  <2>15. Len(E) = IF reg.tab[d][s] = "none" THEN 0 ELSE 1
    BY <2>6, <2>7
  <2>16. Len(out'[d]) = Cardinality(P) + IF reg.tab[d][s] = "none" THEN 0 ELSE 1
    BY <2>10, <2>12, <2>15
  <2> QED BY <2>13, <2>14, <2>16 DEF P
<1> QED BY <1>1, Invariant, PTL DEF Spec, Delivered

\* What a reply to an inbox finds at a connection: nothing, or the one
\* subscription that the inbox was announced for.
LEMMA InboxFinds ==
    ASSUME IInv, NEW ibx \in inboxes, NEW d \in Conns
    PROVE  LET s    == ibx[2]
               live == d = ibx[1] /\ ibx[4] > 0 /\ reg.tab[d][s] = "route"
                                 /\ reg.ibx[d][s] = ibx[4]
           IN  d = ibx[1] =>
                 FlattenSeq(SetToSeq({Exact(reg, d, t) : t \in InboxEntry(reg, d, ibx)})) =
                     IF live THEN <<Message(s)>> ELSE <<>>
<1> DEFINE s == ibx[2]
           m == <<Message(s)>>
           live == d = ibx[1] /\ ibx[4] > 0 /\ reg.tab[d][s] = "route" /\ reg.ibx[d][s] = ibx[4]
           E == {Exact(reg, d, t) : t \in InboxEntry(reg, d, ibx)}
<1> SUFFICES ASSUME d = ibx[1]
             PROVE  FlattenSeq(SetToSeq(E)) = IF live THEN m ELSE <<>>
  OBVIOUS
<1>1. /\ s \in Subjects /\ ibx[4] \in Nat
      /\ \A t \in Subjects : ibx[4] # 0 /\ reg.ibx[d][t] = ibx[4] => t = s
      /\ ibx[3] = Hash[s]
  BY DEF IInv, Kept, InboxesKept
<1>2. ASSUME NEW t \in InboxEntry(reg, d, ibx) PROVE t = s /\ live /\ Exact(reg, d, t) = m
  <2>1. t \in Subjects /\ ibx[4] > 0 /\ reg.tab[d][t] # "none" /\ reg.ibx[d][t] = ibx[4]
    BY DEF InboxEntry
  <2>2. t = s
    BY <1>1, <2>1
  <2>3. reg.tab[d][t] = "route"
    BY <1>1, <2>1 DEF IInv, Kept, Tables, Numbered
  <2> QED BY <2>1, <2>2, <2>3 DEF Exact
<1>3. CASE live
  <2>1. s \in InboxEntry(reg, d, ibx)
    BY <1>1, <1>3 DEF InboxEntry
  <2>2. E = {m}
    BY <1>2, <2>1
  <2> HIDE DEF E
  <2>3. SetToSeq(E) = <<m>>
    BY <2>2, ListingOfOne
  <2>4. FlattenSeq(<<m>>) = m
    <3> DEFINE q == <<m>>
    <3>1. DOMAIN q = 1..1 /\ Len(q) = 1 /\ q[1] = m
      OBVIOUS
    <3> HIDE DEF q
    <3>2. FlattenSeq(q) = m
      BY <3>1, FlattenOne
    <3> QED BY <3>2 DEF q
  <2> QED BY <1>3, <2>3, <2>4
<1>4. CASE ~live
  <2>1. E = {}
    BY <1>2, <1>4
  <2> HIDE DEF E, live
  <2> QED BY <1>4, <2>1, ListingOfNone, FlattenNone
<1> QED BY <1>3, <1>4

\* A reply to an inbox is delivered once to the subscription the inbox was
\* announced for, while it lasts, and to no other one, though the connection
\* finds it by a hash and a number; each pattern that the client itself has
\* on the inbox gets it once.
THEOREM InboxExactCorrect == Spec => InboxExact
<1> DEFINE K == last'.op = "inbox" =>
                   \A d \in Conns \ {last'.src} :
                       LET ibx  == last'.ibx
                           s    == ibx[2]
                           p    == {q \in reg.pats[d] : ibx[1] \in InboxMatches[q]}
                           live == /\ d = ibx[1] /\ SessionPat(reg, d) \cap reg.pats[d] # {}
                                   /\ ibx[4] > 0 /\ reg.tab[d][s] = "route" /\ reg.ibx[d][s] = ibx[4]
                           mine == p \ SessionPat(reg, d)
                       IN  /\ Copies(out'[d], <<"message", s>>) = IF live THEN 1 ELSE 0
                           /\ \A q \in mine : Copies(out'[d], <<"pmessage", q, ibx>>) = 1
                           /\ Len(out'[d]) = Cardinality(mine) + IF live THEN 1 ELSE 0
<1>1. ASSUME IInv, [Next]_vars PROVE [K]_vars
  <2> SUFFICES ASSUME Next, last'.op = "inbox" PROVE K
    BY <1>1
  <2>1. PICK c \in Conns, ibx \in inboxes : ReplyInbox(c, ibx)
    BY OpNames
  <2>2. last'.src = c /\ last'.ibx = ibx
    BY <2>1 DEF ReplyInbox
  <2>3. \A d \in Conns \ {c} : out'[d] = AtInbox(reg, d, ibx)
    BY <2>1 DEF ReplyInbox
  <2> SUFFICES ASSUME NEW d \in Conns \ {c}
               PROVE  LET s    == ibx[2]
                          p    == {q \in reg.pats[d] : ibx[1] \in InboxMatches[q]}
                          live == /\ d = ibx[1] /\ SessionPat(reg, d) \cap reg.pats[d] # {}
                                  /\ ibx[4] > 0 /\ reg.tab[d][s] = "route" /\ reg.ibx[d][s] = ibx[4]
                          mine == p \ SessionPat(reg, d)
                      IN  /\ Copies(out'[d], <<"message", s>>) = IF live THEN 1 ELSE 0
                          /\ \A q \in mine : Copies(out'[d], <<"pmessage", q, ibx>>) = 1
                          /\ Len(out'[d]) = Cardinality(mine) + IF live THEN 1 ELSE 0
    BY <2>2
  <2> DEFINE s    == ibx[2]
             own  == SessionPat(reg, d)
             hit  == {q \in reg.pats[d] : ibx[1] \in InboxMatches[q]}
             Live == /\ d = ibx[1] /\ own \cap reg.pats[d] # {}
                     /\ ibx[4] > 0 /\ reg.tab[d][s] = "route" /\ reg.ibx[d][s] = ibx[4]
             P    == hit \ own
             M    == {PMessage(q, ibx) : q \in P}
             E    == IF Live THEN <<Message(s)>> ELSE <<>>
             F    == FlattenSeq(SetToSeq({Exact(reg, d, t) : t \in InboxEntry(reg, d, ibx)}))
  <2>4. InboxHits(reg, d, ibx) = hit
    BY <1>1 DEF InboxHits, IInv, Kept, Tables, PatRouted
  <2>5. d \in reg.cb => d = ibx[1] \/ hit \cap own = {}
    BY <1>1, PubSubAssumption DEF IInv, Kept, Tables, SessionPat
  <2>6. (IF hit \cap own # {} THEN F ELSE <<>>) = E
    <3>1. CASE hit \cap own = {}
      <4>1. ASSUME Live PROVE FALSE
        <5> PICK q : q \in own \cap reg.pats[d]
          BY <4>1
        <5>1. q = InboxPat[d] /\ d = ibx[1]
          BY <4>1 DEF SessionPat
        <5>2. ibx[1] \in InboxMatches[q]
          BY <5>1, PubSubAssumption
        <5> QED BY <3>1, <5>2
      <4> QED BY <3>1, <4>1
    <3>2. CASE hit \cap own # {}
      <4>1. d = ibx[1] /\ own \cap reg.pats[d] # {}
        BY <2>5, <3>2 DEF SessionPat
      <4>2. s \in Subjects /\ ibx[4] \in Nat /\ ibx[3] = Hash[s]
        BY <1>1 DEF IInv, Kept, InboxesKept
      <4> DEFINE G == {Exact(reg, d, t) : t \in InboxEntry(reg, d, ibx)}
                 m == <<Message(s)>>
      <4>3. ASSUME NEW t \in InboxEntry(reg, d, ibx)
            PROVE  t = s /\ Exact(reg, d, t) = m /\ Live
        <5>1. /\ t \in Subjects /\ ibx[4] > 0 /\ reg.tab[d][t] # "none"
              /\ reg.ibx[d][t] = ibx[4]
          BY DEF InboxEntry
        <5>2. t = s
          BY <1>1, <4>1, <4>2, <5>1 DEF IInv, Kept, InboxesKept
        <5>3. reg.tab[d][t] = "route"
          BY <1>1, <4>1, <4>2, <5>1 DEF IInv, Kept, Tables, Numbered
        <5> QED BY <4>1, <5>1, <5>2, <5>3 DEF Exact
      <4>4. ASSUME Live PROVE s \in InboxEntry(reg, d, ibx)
        BY <4>2, <4>4 DEF InboxEntry
      <4>5. G = IF Live THEN {m} ELSE {}
        <5>1. CASE Live
          <6> HIDE DEF Live
          <6>1. \A t \in InboxEntry(reg, d, ibx) : Exact(reg, d, t) = m
            BY <4>3
          <6>2. s \in InboxEntry(reg, d, ibx)
            BY <4>4, <5>1
          <6> QED BY <5>1, <6>1, <6>2
        <5>2. CASE ~Live
          <6>1. InboxEntry(reg, d, ibx) = {}
            BY <4>3, <5>2
          <6> QED BY <5>2, <6>1
        <5> QED BY <5>1, <5>2
      <4>6. F = FlattenSeq(SetToSeq(G))
        OBVIOUS
      <4> HIDE DEF Live, G, F
      <4>7. CASE Live
        <5>1. F = FlattenSeq(<<m>>)
          BY <4>5, <4>6, <4>7, ListingOfOne
        <5>2. FlattenSeq(<<m>>) = m
          <6> PICK q : q = <<m>>
            OBVIOUS
          <6>1. DOMAIN q = 1..1 /\ Len(q) = 1 /\ q[1] = m
            OBVIOUS
          <6>2. FlattenSeq(q) = m
            BY <6>1, FlattenOne
          <6> QED BY <6>2
        <5> QED BY <3>2, <4>7, <5>1, <5>2
      <4>8. CASE ~Live
        BY <3>2, <4>5, <4>6, <4>8, ListingOfNone, FlattenNone
      <4> QED BY <4>7, <4>8
    <3> QED BY <3>1, <3>2
  <2>7. out'[d] = E \o SetToSeq(M)
    BY <2>3, <2>4, <2>6, Zenon DEF AtInbox
  <2>8. IsFiniteSet(P)
    <3>1. P \in SUBSET Patterns /\ IsFiniteSet(Patterns)
      BY <1>1, PubSubAssumption DEF IInv, Kept, Tables, Reg
    <3> HIDE DEF P
    <3> QED BY <3>1, FS_Subset
  <2>9. Message(s) \notin M
    BY DEF Message, PMessage
  <2>10. \A q \in P : <<"pmessage", q, ibx>> \in M
    BY DEF PMessage
  <2>11. IsFiniteSet(M) /\ Cardinality(M) = Cardinality(P) /\ Cardinality(P) \in Nat
    <3> HIDE DEF P
    <3> QED BY <2>8, PMessagesCounted, FS_CardinalityType
  <2> HIDE DEF M, P
  <2>12. E = <<>> \/ \E e : E = <<e>> /\ e \notin M
    BY <2>9
  <2>13. /\ Len(out'[d]) = Len(E) + Cardinality(M)
         /\ \A m \in M : Copies(out'[d], m) = 1
         /\ \A m : m \notin M => Copies(out'[d], m) = IF E = <<m>> THEN 1 ELSE 0
    <3> HIDE DEF E
    <3> QED BY <2>7, <2>11, <2>12, ListedOnce
  <2>14. Copies(out'[d], <<"message", s>>) = IF Live THEN 1 ELSE 0
    <3> HIDE DEF Live
    <3>1. E = <<Message(s)>> <=> Live
      OBVIOUS
    <3> QED BY <2>9, <2>13, <3>1 DEF Message
  <2>15. \A q \in P : Copies(out'[d], <<"pmessage", q, ibx>>) = 1
    BY <2>10, <2>13
  <2>16. Len(out'[d]) = Cardinality(P) + IF Live THEN 1 ELSE 0
    <3> HIDE DEF Live
    <3>1. Len(E) = IF Live THEN 1 ELSE 0
      OBVIOUS
    <3> QED BY <2>11, <2>13, <3>1
  <2> QED BY <2>14, <2>15, <2>16 DEF P
<1> QED BY <1>1, Invariant, PTL DEF Spec, InboxExact
=============================================================================
