----------------------------- MODULE MemcachedExec ----------------------------
(***************************************************************************)
(* The memcached commands on one key, in their text and in their binary    *)
(* form, and what MemcachedExec does with the keys of a request.  The      *)
(* store is that of the Redis commands: a key that is not a string is one  *)
(* that a Redis client wrote.  The cas number of an entry counts its       *)
(* updates; a deleted key does not start again.                            *)
(***************************************************************************)
EXTENDS RedisText, FiniteSets, FiniteSetsExt

CONSTANT Word   \* one more than the largest unsigned integer

Item(type, data, flags, exp, cas) ==
    [type |-> type, data |-> data, flags |-> flags, exp |-> exp, cas |-> cas]
Missing(cas) == Item("none", <<>>, 0, 0, cas)

\* an expired entry is found as a new one
Found(e, now) == IF e.exp # 0 /\ e.exp <= now THEN Missing(e.cas) ELSE e

-----------------------------------------------------------------------------
(* What the parsers make of a request.                                     *)

Request(proto, cmd, keys) ==
    [proto |-> proto, cmd |-> cmd, keys |-> keys, quiet |-> FALSE, wantskey |-> FALSE,
     flags |-> 0, ttl |-> 0, cas |-> 0, inc |-> 0, ini |-> 0, val |-> <<>>]

\* a text request is quiet when it ends in noreply; CAS says what it saw
TextStore(cmd, k, flags, ttl, val, noreply) ==
    [Request("text", cmd, <<k>>) EXCEPT !.flags = flags, !.ttl = ttl, !.val = val, !.quiet = noreply]
TextCas(k, flags, ttl, val, cas, noreply) ==
    [TextStore("cas", k, flags, ttl, val, noreply) EXCEPT !.cas = cas]
TextRetr(cmd, keys)    == Request("text", cmd, keys)
TextGat(cmd, ttl, keys) == [Request("text", cmd, keys) EXCEPT !.ttl = ttl]
TextDel(k, noreply)    == [Request("text", "delete", <<k>>) EXCEPT !.quiet = noreply]
TextIncr(cmd, k, inc, noreply) ==
    [Request("text", cmd, <<k>>) EXCEPT !.inc = inc, !.quiet = noreply]
TextTouch(k, ttl, noreply) ==
    [Request("text", "touch", <<k>>) EXCEPT !.ttl = ttl, !.quiet = noreply]

\* a binary request has one key and is quiet by its opcode; only the parser
\* of SET, ADD and REPLACE reads the cas
BinStore(cmd, k, flags, ttl, val, cas, quiet) ==
    [Request("bin", cmd, <<k>>) EXCEPT !.flags = flags, !.ttl = ttl, !.val = val,
                                       !.cas = cas, !.quiet = quiet]
BinPend(cmd, k, val, quiet) ==
    [Request("bin", cmd, <<k>>) EXCEPT !.val = val, !.quiet = quiet]
BinRetr(cmd, k, quiet, wantskey) ==
    [Request("bin", cmd, <<k>>) EXCEPT !.quiet = quiet, !.wantskey = wantskey]
BinTouch(cmd, k, ttl, quiet) ==
    [Request("bin", cmd, <<k>>) EXCEPT !.ttl = ttl, !.quiet = quiet]
BinIncr(cmd, k, inc, ini, quiet) ==
    [Request("bin", cmd, <<k>>) EXCEPT !.inc = inc, !.ini = ini, !.quiet = quiet]

\* VERSION, NO_OP, FLUSH_ALL and the others that have no key do nothing;
\* QUIT ends the connection; a request that does not parse is bad, one of
\* the binary protocol when its lengths or its opcode are wrong
NoKey(proto, cmd) == Request(proto, cmd, <<>>)

-----------------------------------------------------------------------------
(* The commands.  A result is the entry it leaves, what it answers, what   *)
(* it saves for the end of a request of several keys, and whether it went  *)
(* well.                                                                   *)

A(st) == [st |-> st, key |-> 0, data |-> <<>>, flags |-> 0, cas |-> 0]
Result(e, out) == [e |-> e, out |-> out, part |-> <<>>, ok |-> TRUE]
Say(r, answer) == IF r.quiet THEN <<>> ELSE <<answer>>

\* update_stamps and clear_stamps
ExpiresAt(ttl, now) == IF ttl = 0 THEN 0 ELSE IF ttl < now THEN ttl + now ELSE ttl
Stamp(e, ttl, now)  == [e EXCEPT !.exp = ExpiresAt(ttl, now)]

MustExist(r) == r.cmd \in {"cas", "append", "prepend", "replace"}
DoCas(r)     == r.cmd = "cas" \/ r.cas # 0
Pends(r)     == r.cmd \in {"append", "prepend"}
IsNew(e)     == e.type # "string"

\* the answer tells the number of the entry and not its value
Untold(r) == Pends(r) \/ r.cmd = "touch"

\* Mutant of Refusal: the cas number is not looked at
RefusalNoCas(r, e) ==
    IF IsNew(e) /\ MustExist(r) THEN IF DoCas(r) THEN "not_found" ELSE "not_stored"
    ELSE IF ~IsNew(e) /\ r.cmd = "add" THEN IF r.proto = "text" THEN "not_stored" ELSE "exists"
    ELSE "none"

\* an entry of another type counts as a new one
Refusal(r, e) ==
    IF IsNew(e) /\ MustExist(r) THEN IF DoCas(r) THEN "not_found" ELSE "not_stored"
    ELSE IF ~IsNew(e) /\ r.cmd = "add" THEN IF r.proto = "text" THEN "not_stored" ELSE "exists"
    ELSE IF DoCas(r) /\ r.cas # (IF e.type = "none" THEN 0 ELSE e.cas) THEN "exists"
    ELSE "none"

\* exec_key_continue types the entry of a new key whose command went well,
\* and a refused command went well
Typed(e) == IF e.type = "none" THEN e ELSE [e EXCEPT !.type = "string"]

\* Mutant of Stored: the binary SET leaves the expiry of the entry
StoredStamped(r, e, now) ==
    LET data == CASE r.cmd = "append"  -> e.data \o r.val
                  [] r.cmd = "prepend" -> r.val \o e.data
                  [] OTHER             -> r.val
        exp  == IF r.proto = "bin" THEN e.exp ELSE ExpiresAt(r.ttl, now)
    IN  Item("string", data, IF Pends(r) /\ r.proto = "bin" THEN e.flags ELSE r.flags, exp, e.cas + 1)

\* the binary APPEND and PREPEND have no flags and no time and leave both
Stored(r, e, now) ==
    LET keeps == Pends(r) /\ r.proto = "bin"
        data  == CASE r.cmd = "append"  -> e.data \o r.val
                   [] r.cmd = "prepend" -> r.val \o e.data
                   [] OTHER             -> r.val
    IN  Item("string", data, IF keeps THEN e.flags ELSE r.flags,
             IF keeps THEN e.exp ELSE ExpiresAt(r.ttl, now), e.cas + 1)

\* exec_store, exec_bin_store: only the binary answer tells the new cas
Store(r, e, now) ==
    LET no == Refusal(r, e)
        w  == Stored(r, e, now)
    IN  IF no # "none" THEN Result(IF IsNew(e) THEN Typed(e) ELSE e, Say(r, A(no)))
        ELSE Result(w, Say(r, [A("stored") EXCEPT !.cas = IF r.proto = "bin" THEN w.cas ELSE 0]))

Value(r, e, i) ==
    [A("value") EXCEPT !.key = i, !.data = e.data, !.flags = e.flags,
                       !.cas = IF r.proto = "bin" \/ r.cmd \in {"gets", "gats"} THEN e.cas ELSE 0]

Miss(r, e) ==
    IF r.proto = "bin" THEN Result(e, Say(r, A("not_found")))
    ELSE Result(e, IF Len(r.keys) = 1 THEN <<A("end")>> ELSE <<>>)

\* Mutant of Retr: a key that is alone and missing is not answered
RetrNoEnd(r, e, i) ==
    IF IsNew(e) THEN Result(e, <<>>)
    ELSE IF Len(r.keys) > 1 THEN [Result(e, <<>>) EXCEPT !.part = <<Value(r, e, i)>>]
    ELSE Result(e, <<Value(r, e, i)>> \o IF r.proto = "text" THEN <<A("end")>> ELSE <<>>)

\* GET and GETS answer one key at once and save the values of several.  A
\* read is one step: one that is not valid at its end is done again (what it
\* saved stays when the key is gone by then, which is left out)
Retr(r, e, i) ==
    IF IsNew(e) THEN Miss(r, e)
    ELSE IF Len(r.keys) > 1 THEN [Result(e, <<>>) EXCEPT !.part = <<Value(r, e, i)>>]
    ELSE Result(e, <<Value(r, e, i)>> \o IF r.proto = "text" THEN <<A("end")>> ELSE <<>>)

\* GAT and GATS also stamp the key; with several keys the value is saved and
\* then the case of the errors is entered
RetrTouch(r, e, i, now) ==
    LET w == Stamp(e, r.ttl, now)
        one == Retr(r, w, i)
    IN  IF IsNew(e) THEN Miss(r, e)
        ELSE IF Len(r.keys) > 1 THEN [one EXCEPT !.ok = FALSE] ELSE one

Delete(r, e) ==
    IF e.type = "none" THEN Result(e, Say(r, A("not_found")))
    ELSE Result(Missing(e.cas + 1), Say(r, A("deleted")))

\* the binary TOUCH answers a value without data
Touched(r, e) ==
    IF r.proto = "bin" THEN [A("touched") EXCEPT !.flags = e.flags, !.cas = e.cas]
    ELSE A("touched")

TouchKey(r, e, now) ==
    IF IsNew(e) THEN Result(e, Say(r, A("not_found")))
    ELSE Result(Stamp(e, r.ttl, now), Say(r, Touched(r, e)))

Counted(r, n) ==
    IF r.cmd = "incr" THEN (n + r.inc) % Word ELSE IF n > r.inc THEN n - r.inc ELSE 0

Number(e, n) == [e EXCEPT !.data = IntText(n), !.cas = @ + 1]
IsUint(data) == IsInt(data) /\ data[1] # Minus

\* INCR and DECR: noreply is not looked at; the text of a missing key is
\* built and not sent
Incr(r, e) ==
    IF IsNew(e) THEN Result(e, <<>>)
    ELSE IF ~IsUint(e.data) THEN Result(e, <<A("bad_incr")>>)
    ELSE LET n == Counted(r, IntOf(e.data))
         IN  Result(Number(e, n), <<[A("number") EXCEPT !.data = IntText(n)]>>)

\* the binary form gives a missing key, and one of another type, its initial
\* value, and leaves the other type as it is
BinIncrKey(r, e) ==
    LET new(n) == IF e.type = "none" THEN [Number(e, n) EXCEPT !.type = "string"] ELSE Number(e, n)
        Tell(w) == Result(w, <<[A("number") EXCEPT !.data = w.data, !.cas = w.cas]>>)
    IN  IF IsNew(e) THEN Tell(new(r.ini))
        ELSE IF ~IsUint(e.data) THEN Result(e, <<A("bad_incr")>>)
        ELSE Tell(Number(e, Counted(r, IntOf(e.data))))

Stores == {"set", "add", "replace", "append", "prepend", "cas"}
Retrievals == {"get", "gets", "gat", "gats"}
Keyless == {"bad", "quit", "version"}
Commands == Stores \cup Retrievals \cup Keyless \cup {"delete", "touch", "incr", "decr"}

Handler(r, e, i, now) ==
    CASE r.cmd \in Stores           -> Store(r, e, now)
      [] r.cmd \in {"get", "gets"}  -> Retr(r, e, i)
      [] r.cmd \in {"gat", "gats"}  -> RetrTouch(r, e, i, now)
      [] r.cmd = "delete"           -> Delete(r, e)
      [] r.cmd = "touch"            -> TouchKey(r, e, now)
      [] r.cmd \in {"incr", "decr"} -> IF r.proto = "text" THEN Incr(r, e) ELSE BinIncrKey(r, e)

-----------------------------------------------------------------------------
(* The keys of a request.  next is the key that runs next, 0 when the      *)
(* request has ended.                                                      *)

Begin == [next |-> 1, part |-> <<>>, out |-> <<>>]

\* exec_key_continue after the handler: a failure ends the request, with an
\* error unless it is that of the last of several keys
AfterKey(x, r, res) ==
    LET y    == [x EXCEPT !.part = @ \o res.part, !.out = @ \o res.out]
        n    == Len(r.keys)
        over == [y EXCEPT !.next = 0]
    IN  IF x.next < n THEN IF res.ok THEN [y EXCEPT !.next = @ + 1]
                           ELSE [over EXCEPT !.out = @ \o <<A("server_error")>>]
        ELSE IF n > 1 THEN IF res.ok THEN [over EXCEPT !.out = @ \o y.part \o <<A("end")>>] ELSE over
        ELSE IF res.ok THEN over ELSE [over EXCEPT !.out = @ \o <<A("server_error")>>]

\* exec_run_to_completion on a store, one key after the other
RunKey(acc, y) ==
    LET k   == y.r.keys[y.i]
        res == Handler(y.r, Found(acc.store[k], y.now), y.i, y.now)
    IN  IF acc.x.next = 0 THEN acc
        ELSE [store |-> [acc.store EXCEPT ![k] = res.e], x |-> AfterKey(acc.x, y.r, res)]

RunAll(r, store, now) ==
    FoldLeft(RunKey, [store |-> store, x |-> Begin],
             [i \in DOMAIN r.keys |-> [r |-> r, i |-> i, now |-> now]])
=============================================================================
