------------------------------- MODULE RedisKey ------------------------------
(***************************************************************************)
(* The key commands of one key and the expiry of keys.  The entry of a key *)
(* is its value with the time at which it expires, 0 when it does not.     *)
(***************************************************************************)
EXTENDS RedisStream

Entry(v, exp) == [v |-> v, exp |-> exp]
NoEntry == Entry(Absent, 0)

\* exec_key_fetch: an expired entry is found as a new one
Fetched(e, now) == IF e.exp # 0 /\ e.exp <= now THEN NoEntry ELSE e

\* Mutant of Stored: a deleted entry keeps its stamp
StoredStamp(e, r) ==
    Entry(r.v, IF r.exp # Keep THEN r.exp ELSE e.exp)

\* release(): an entry that got no value is dropped; tombstone() clears the
\* stamps with the entry
Stored(e, r) ==
    IF r.v = Absent THEN NoEntry
    ELSE Entry(r.v, IF r.exp # Keep THEN r.exp ELSE e.exp)

Exists(e) == SendInt(e.v, IF e.v = Absent THEN 0 ELSE 1, {})
Type(e)   == Data(e.v, <<IF e.v.type = "scrambled" THEN e.v.of ELSE e.v.type>>)

Del(e) ==
    IF e.v = Absent THEN SendInt(Absent, 0, {})
    ELSE SendInt(Absent, 1, {"event", "del"})

\* TOUCH, a write command, leaves the expiry alone
Touch(e, stamp) == SendInt(Stamped(e.v, stamp), IF e.v = Absent THEN 0 ELSE 1, {})

\* EXPIRE, PEXPIRE: a time before now is taken from now on; EXPIREAT and
\* PEXPIREAT take it as it is.  The stamp 0 is none and changes nothing.
ExpireAt(e, exp, stamp) ==
    IF e.v = Absent THEN SendInt(Absent, 0, {})
    ELSE [SendInt(Stamped(e.v, stamp), 1, {"event"}) EXCEPT !.exp = IF exp = 0 THEN Keep ELSE exp]

Expire(e, now, n, stamp) == ExpireAt(e, IF n < now THEN n + now ELSE n, stamp)

Persist(e, stamp) ==
    IF e.v = Absent THEN SendInt(Absent, 0, {})
    ELSE [SendInt(Stamped(e.v, stamp), 1, {}) EXCEPT !.exp = 0]

Ttl(e, now) ==
    SendInt(e.v, IF e.v = Absent THEN -2 ELSE IF e.exp = 0 THEN -1 ELSE e.exp - now, {})

\* RENAME writes the saved value of the source, then deletes the source
\* whatever it holds by then; the destination keeps its own expiry.
RenameDest(e, part, st, stamp) ==
    IF part = Absent THEN Status(e.v, "key_doesnt_exist")
    ELSE IF st = "send_ok" THEN Done(Stamped(part, stamp), "send_ok", <<>>, {"event"})
    ELSE SendInt(Stamped(part, stamp), 0, {"event"})

RenameSource(e, st) ==
    IF st = "send_ok" THEN Done(Absent, "send_ok", <<>>, {"event", "del"})
    ELSE SendInt(Absent, 1, {"event", "del"})
=============================================================================
