---------------------------- MODULE MCRedisPubSub ----------------------------
(* Small instances of RedisPubSub for TLC. *)
EXTENDS RedisPubSub

CONSTANTS c1, c2, h1, h2, prex, prey, prez, prei, ph1, ph2, phi, px, py, pz, pa, pb, prej

\* two subjects of one hash, one of which a blocked command may wait for
chan == <<"chan", "c">>
lblk == <<"listblkd", "l">>
kspc == <<"keyspace", "l">>

Blk         == {lblk}
MCSubjects  == {chan, lblk, kspc}
MCHash      == (chan :> h1) @@ (lblk :> h1) @@ (kspc :> h2)

\* px is a pattern of chan, py is _*, pz does not compile, pa and pb are the
\* inbox patterns of c1 and c2; the prefixes of px and py share a hash
MCPatterns   == {px, py, pz, pa, pb}
MCPrefix     == (px :> prex) @@ (py :> prey) @@ (pz :> prez) @@ (pa :> prei) @@ (pb :> prej)
MCPrefixHash == (prex :> ph1) @@ (prey :> ph1) @@ (prez :> ph2) @@ (prei :> phi)
                @@ (prej :> phi)
MCPatKinds   == (px :> {}) @@ (py :> Kinds) @@ (pz :> {}) @@ (pa :> {}) @@ (pb :> {})
MCMatches    == (px :> {chan}) @@ (py :> {lblk, kspc}) @@ (pz :> {}) @@ (pa :> {}) @@ (pb :> {})
MCInboxMatches == (px :> {}) @@ (py :> {c1}) @@ (pz :> {}) @@ (pa :> {c1})
                  @@ (pb :> {c2})
MCInboxPat   == (c1 :> pa) @@ (c2 :> pb)
MCArgs       == (c1 :> {<<chan>>, <<chan, lblk>>, <<px>>, <<py>>, <<pz, px>>, <<pa>>})
             @@ (c2 :> {<<chan, kspc>>})

\* commands on the list l, with the flags their code gives the keys
key(k, fl) == [key |-> k, fl |-> {"keyspace", "keyevent"} \cup fl]
MCCalls ==
    {[cmd |-> "lpush", keys |-> <<key("l", {"listblkd"})>>, after |-> {"l"}],
     [cmd |-> "lpop", keys |-> <<key("l", {"del"})>>, after |-> {}],
     [cmd |-> "rpush", keys |-> <<key("l", {"expired", "listblkd"})>>, after |-> {"l"}],
     [cmd |-> "llen", keys |-> <<key("l", {"expired"})>>, after |-> {}],
     [cmd |-> "del", keys |-> <<key("l", {"del"}), key("m", {"del"})>>, after |-> {}],
     [cmd |-> "xadd", keys |-> <<key("l", {"trim", "strmblkd"})>>, after |-> {"l"}],
     [cmd |-> "rename", keys |-> <<key("l", {"del"}), key("m", {})>>, after |-> {"m"}],
     [cmd |-> "rpoplpush", keys |-> <<key("m", {"del"}), key("l", {"listblkd"})>>, after |-> {"l"}]}

\* what a step published is looked at by the action properties alone
NoOutput == <<open, reg, inboxes>>
=============================================================================
