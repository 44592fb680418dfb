------------------------------ MODULE RedisText ------------------------------
(***************************************************************************)
(* Strings as sequences of bytes, and the conversions between integers and *)
(* their decimal text.                                                     *)
(***************************************************************************)
EXTENDS Integers, Sequences, SequencesExt

IsDigit(b) == b \in 48..57
Minus      == 45

\* string_to_int of the library raikv: an optional sign and digits, nothing
\* else
IsInt(s) ==
    LET d == IF s # <<>> /\ s[1] = Minus THEN Tail(s) ELSE s
    IN  d # <<>> /\ \A i \in DOMAIN d : IsDigit(d[i])

AddDigit(n, b) == 10 * n + (b - 48)

IntOf(s) ==
    LET neg == s[1] = Minus
        d   == IF neg THEN Tail(s) ELSE s
        n   == FoldLeft(AddDigit, 0, d)
    IN  IF neg THEN 0 - n ELSE n

\* int64_to_string
NatText[n \in Nat] ==
    IF n < 10 THEN <<48 + n>> ELSE Append(NatText[n \div 10], 48 + (n % 10))

IntText(n) == IF n < 0 THEN <<Minus>> \o NatText[0 - n] ELSE NatText[n]
=============================================================================
