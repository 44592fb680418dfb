--------------------------- MODULE RedisHyperLogLog --------------------------
(***************************************************************************)
(* The HyperLogLog commands of one key.  The registers stand for the set   *)
(* of elements they were given, and the estimate for its size: an element  *)
(* that was added changes no register, and a merge is a union.             *)
(***************************************************************************)
EXTENDS RedisValue

Hll(S) == Val("hyperloglog", InOrder(S, <))

PfAdd(v, ms) ==
    LET Add(S) == IF ToSet(ms) \subseteq S THEN Status(Hll(S), "send_zero")
                  ELSE Status(Hll(S \cup ToSet(ms)), "send_one")
    IN  OfType(v, "hyperloglog", Add({}), LAMBDA d : Add(ToSet(d)))

Merged(part) == UNION {ToSet(part[i]) : i \in DOMAIN part}

\* PFCOUNT saves all keys but the last, which is merged with them; a missing
\* key counts as nothing, and when it is the last one the answer is 0
PfCount(v, last, part) ==
    OfType(v, "hyperloglog", Status(v, "send_zero"),
           LAMBDA d : IF last THEN SendInt(v, Cardinality(ToSet(d) \cup Merged(part)), {}) ELSE Data(v, d))

\* a source of PFMERGE
PfSource(v) == OfType(v, "hyperloglog", Data(v, <<>>), LAMBDA d : Data(v, d))

\* Mutant of PfDest: the destination keeps what it counted
PfDestKeeps(v, part) ==
    OfType(v, "hyperloglog", Status(Hll(Merged(part)), "send_ok"),
           LAMBDA d : Status(Hll(ToSet(d) \cup Merged(part)), "send_ok"))

\* the destination gets the union of the sources and loses what it had
PfDest(v, part) ==
    OfType(v, "hyperloglog", Status(Hll(Merged(part)), "send_ok"),
           LAMBDA d : Status(Hll(Merged(part)), "send_ok"))
=============================================================================
