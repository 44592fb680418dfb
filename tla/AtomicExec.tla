----------------------------- MODULE AtomicExec -----------------------------
(***************************************************************************)
(* What EXEC promises: the queued commands take effect as an atomic unit,  *)
(* one after another, on the data of that moment, and the answer has one   *)
(* result for every command.  Between the commands of one transaction no   *)
(* other session reads or writes the keys.                                 *)
(***************************************************************************)
EXTENDS Naturals, Sequences

CONSTANTS Sessions, Keys, NoKey, Commands

VARIABLES
    data,    \* [Keys -> Nat], 0: the key does not exist
    queue,   \* the commands a session has queued
    answer   \* the results of a committed transaction until it is discarded

avars == <<data, queue, answer>>

\* A command on its own: the data it leaves and its reply
Apply(d, m) ==
    CASE m.cmd = "GET"    -> d
      [] m.cmd = "INCR"   -> [d EXCEPT ![m.key] = @ + 1]
      [] m.cmd = "DEL"    -> [d EXCEPT ![m.key] = 0]
      [] m.cmd = "PING"   -> d
      [] m.cmd = "BADARG" -> d

Number(n) == [type |-> "int", n |-> n]
Special(t) == [type |-> t, n |-> 0]

Answer(d, m) ==
    CASE m.cmd = "GET"    -> IF d[m.key] = 0 THEN Special("nil")
                                             ELSE Number(d[m.key])
      [] m.cmd = "INCR"   -> Number(d[m.key] + 1)
      [] m.cmd = "DEL"    -> Number(IF d[m.key] = 0 THEN 0 ELSE 1)
      [] m.cmd = "PING"   -> Special("pong")
      [] m.cmd = "BADARG" -> Special("err")

\* The data and the answers after the first i commands of q
After(d, q) ==
    LET f[i \in 0 .. Len(q)] ==
          IF i = 0 THEN [data |-> d, answer |-> <<>>]
          ELSE [data   |-> Apply(f[i-1].data, q[i]),
                answer |-> Append(f[i-1].answer, Answer(f[i-1].data, q[i]))]
    IN  f[Len(q)]

Init == /\ data   = [k \in Keys |-> 0]
        /\ queue  = [s \in Sessions |-> <<>>]
        /\ answer = [s \in Sessions |-> <<>>]

\* A command outside of a transaction
Single(m) == /\ data' = Apply(data, m)
             /\ UNCHANGED <<queue, answer>>

Enqueue(s, m) == /\ queue' = [queue EXCEPT ![s] = Append(@, m)]
                 /\ UNCHANGED <<data, answer>>

\* The whole transaction
CommitAll(s) ==
    /\ answer[s] = <<>>
    /\ data'   = After(data, queue[s]).data
    /\ answer' = [answer EXCEPT ![s] = After(data, queue[s]).answer]
    /\ UNCHANGED queue

\* DISCARD, a failed watch, an error, or the end of a committed transaction
Drop(s) == /\ queue'  = [queue EXCEPT ![s] = <<>>]
           /\ answer' = [answer EXCEPT ![s] = <<>>]
           /\ UNCHANGED data

Next == \/ \E m \in Commands : Single(m)
        \/ \E s \in Sessions : \/ \E m \in Commands : Enqueue(s, m)
                               \/ CommitAll(s)
                               \/ Drop(s)

Spec == Init /\ [][Next]_avars
=============================================================================
