------------------------------ MODULE MCMemcached ----------------------------
(* Small instances of Memcached for TLC: requests over TCP and over UDP. *)
EXTENDS Memcached, TLC

CONSTANTS k1, k2, k3, c1, c2

\* the text of 5 and of 12, a text that is no number, what others write
five  == <<53>>
dozen == <<49, 50>>
word  == <<97>>
other == <<98>>

Str(data) == Item("string", data, 0, 0, 1)
Lst       == Item("list", <<1>>, 0, 0, 1)
None      == Missing(0)

Tcp(entries, len, ticks, redis, calls) ==
    [store |-> entries, len |-> len, ticks |-> ticks, calls |-> calls, redis |-> redis,
     frames |-> {}, udp |-> <<>>]

\* readers that write what they read back, if nobody wrote it meanwhile
Cas == Tcp([k \in Keys |-> IF k = k1 THEN Str(five) ELSE None], 4, FALSE, {k1},
    << TextRetr("gets", <<k1>>), TextCas(k1, 1, 0, word, Seen, FALSE),
       BinRetr("get", k1, FALSE, FALSE), BinStore("set", k1, 2, 0, other, Seen, FALSE),
       BinPend("append", k1, word, FALSE), BinTouch("touch", k1, 6, FALSE), BinIncr("incr", k1, 1, 3, FALSE),
       TextDel(k1, FALSE) >>)

\* each command in both forms on a string, and some on a list and on a
\* missing key
EachCmd == Tcp(k1 :> Str(five) @@ k2 :> Lst @@ k3 :> None, 2, TRUE, {},
    << TextStore("set", k1, 1, 1, word, FALSE), TextStore("add", k1, 0, 0, dozen, TRUE),
       TextStore("replace", k1, 0, 6, word, FALSE), TextStore("append", k1, 1, 1, word, FALSE),
       TextStore("prepend", k1, 0, 0, five, TRUE), TextIncr("incr", k1, 5, FALSE),
       TextIncr("decr", k1, 6, FALSE), TextTouch(k1, 1, FALSE), TextDel(k1, FALSE),
       TextRetr("get", <<k1>>), TextGat("gats", 7, <<k1>>),
       BinStore("set", k1, 1, 1, dozen, 0, TRUE), BinPend("append", k1, five, FALSE),
       BinRetr("get", k1, TRUE, FALSE), BinRetr("delete", k1, FALSE, FALSE),
       BinTouch("touch", k1, 1, FALSE), BinTouch("gat", k1, 1, TRUE), BinIncr("incr", k1, 9, 2, FALSE),
       TextStore("replace", k2, 0, 0, word, FALSE), BinStore("add", k2, 0, 0, word, 0, FALSE),
       BinIncr("decr", k2, 1, 0, FALSE), BinIncr("incr", k3, 1, 0, FALSE),
       TextTouch(k3, 7, TRUE), TextIncr("incr", k3, 1, FALSE) >>)

\* requests of several keys, whose keys others take away between two of them
Several == Tcp([k \in Keys |-> Str(five)], 3, FALSE, {k2},
    << TextRetr("get", <<k1, k2, k3>>), TextRetr("gets", <<k3, k2>>), TextGat("gat", 1, <<k1, k2>>),
       TextGat("gats", 1, <<k2, k3, k1>>), TextDel(k3, TRUE), TextDel(k1, FALSE),
       BinStore("set", k2, 3, 0, word, 0, TRUE) >>)

\* requests that do not parse, that have no key and that close
Pipeline == Tcp([k \in Keys |-> IF k = k1 THEN Str(five) ELSE None], 4, FALSE, {},
    << NoKey("text", "bad"), NoKey("bin", "bad"), NoKey("text", "quit"), NoKey("bin", "quit"), NoKey("text", "version"),
       TextIncr("incr", k1, 1, FALSE), TextRetr("get", <<k1, k2>>) >>)

Over(req, sizes, segs) == [req |-> req, sizes |-> sizes, segs |-> segs]

Udp(reqs) ==
    [store |-> [k \in Keys |-> None], len |-> 0, ticks |-> FALSE, calls |-> <<>>, redis |-> {},
     frames |-> UNION {Datagrams(id, reqs[id].sizes) : id \in DOMAIN reqs}, udp |-> reqs]

\* the replies fill one frame but for a byte, one frame, and several
TwoLong == Udp(<< Over(TextStore("set", k1, 0, 0, five, FALSE), <<1, 3, 2>>, <<4>>),
                  Over(TextStore("set", k2, 0, 0, word, FALSE), <<2, 1>>, <<5>>),
                  Over(TextRetr("get", <<k1, k2>>), <<2>>, <<3, 9, 2>>) >>)
Short   == Udp(<< Over(TextRetr("get", <<k1>>), <<1>>, <<4, 1, 3>>),
                  Over(TextStore("append", k1, 0, 0, word, FALSE), <<2, 1, 2>>, <<8>>),
                  Over(TextIncr("incr", k1, 1, FALSE), <<1>>, <<12, 1>>) >>)

AllMenus == <<Cas, EachCmd, Several, Pipeline, TwoLong, Short>>

Symm == Permutations(Conns)
==============================================================================
