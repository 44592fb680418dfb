------------------------------ MODULE MemcachedUdp ----------------------------
(***************************************************************************)
(* The frames of memcached over UDP.  A request of several frames is put   *)
(* together from the datagrams of one read and from those that were saved  *)
(* before; a reply is cut into frames.  A datagram carries the id of its   *)
(* request, its number in it, how many there are, and size units of the    *)
(* request; used says that a message was taken (its length is 0).          *)
(***************************************************************************)
EXTENDS Integers, Sequences, FiniteSets, FiniteSetsExt, SequencesExt

CONSTANTS HdrSize,    \* the size of the header of a frame
          FrameSize   \* the size of a full frame

Nothing == [id |-> 0, seq |-> 0, total |-> 0, size |-> 0, used |-> TRUE]

Live(batch, j, id) == ~batch[j].used /\ batch[j].id = id

-----------------------------------------------------------------------------
(* merge_frames.  sav is the array of saved frames, by their number.       *)

SumOfSizes(frames, I) == MapThenSumSet(LAMBDA i : frames[i].size, I)

\* the frame of a number: the first one of the messages from idx on, or the
\* saved one
Next_(batch, sav, idx, id, n) ==
    LET J == {j \in idx..Len(batch) : Live(batch, j, id) /\ batch[j].seq = n}
    IN  [at |-> IF J = {} THEN Len(batch) + 1 ELSE Min(J),
         f  |-> IF J # {} THEN batch[Min(J)]
                ELSE IF n < Len(sav) /\ sav[n + 1].id = id /\ sav[n + 1].seq = n THEN sav[n + 1]
                ELSE Nothing]

\* messages with a smaller number that come first are dropped on the way
Take(batch, idx, id, n, at) ==
    [j \in DOMAIN batch |->
        IF j \in idx..at /\ Live(batch, j, id) /\ batch[j].seq <= n
        THEN [batch[j] EXCEPT !.used = TRUE] ELSE batch[j]]

\* One frame more, the y.n-th of a merge y.  A number that is nowhere is
\* looked for again and again; one that does not fit, or the last one when
\* there is room left, ends it.
Piece(acc, y) ==
    LET c == Next_(acc.batch, y.sav, y.idx, y.id, y.n)
        len == acc.len + c.f.size
        b == Take(acc.batch, y.idx, y.id, y.n, c.at)
    IN  IF acc.st # "run" THEN acc
        ELSE IF c.f = Nothing THEN [acc EXCEPT !.batch = b, !.st = "spin"]
        ELSE IF len > y.size THEN [acc EXCEPT !.batch = b, !.st = "fail"]
        ELSE [batch |-> b, len |-> len, body |-> Append(acc.body, <<c.f.id, c.f.seq>>),
              st |-> IF y.n + 1 < y.total THEN "run" ELSE IF len = y.size THEN "full" ELSE "fail"]

\* what is kept of a request that is not complete: one request at a time
Save(batch, sav, idx, id, total) ==
    LET own == {j \in idx..Len(batch) : Live(batch, j, id)}
        of(n) == {j \in own : batch[j].seq = n}
    IN  [n \in 1..total |->
            IF of(n - 1) # {} THEN batch[Max(of(n - 1))]
            ELSE IF n <= Len(sav) THEN sav[n] ELSE Nothing]

\* Mutant of Merge: the frames are taken in the order they come
MergeAsRead(batch, sav, idx) ==
    LET id == batch[idx].id
        total == batch[idx].total
        own == {j \in idx..Len(batch) : Live(batch, j, id)}
        used == [j \in DOMAIN batch |-> IF j \in own THEN [batch[j] EXCEPT !.used = TRUE] ELSE batch[j]]
    IN  IF Cardinality(own) >= total
        THEN [batch |-> used, len |-> 0, st |-> "full", sav |-> sav,
              body |-> [i \in 1..total |-> LET f == batch[SetToSortSeq(own, <)[i]] IN <<f.id, f.seq>>]]
        ELSE [batch |-> used, len |-> 0, st |-> "saved", sav |-> Save(batch, sav, idx, id, total), body |-> <<>>]

\* merge_frames.  A frame that it takes from the saved ones also makes it
\* write a length behind the last message of the read (mhdr[ nmsgs ]), where
\* the array may or may not have room: the model has no memory there.
Merge(batch, sav, idx) ==
    LET id    == batch[idx].id
        total == batch[idx].total
        here  == {j \in idx..Len(batch) : Live(batch, j, id)}
        kept  == IF Cardinality(here) < total THEN {n \in DOMAIN sav : sav[n].id = id} ELSE {}
        size  == SumOfSizes(batch, here) + SumOfSizes(sav, kept)
        r     == FoldLeft(Piece, [batch |-> batch, len |-> 0, body |-> <<>>, st |-> "run"],
                          [n \in 1..total |-> [sav |-> sav, idx |-> idx, id |-> id, total |-> total,
                                               size |-> size, n |-> n - 1]])
        b     == IF Cardinality(here) + Cardinality(kept) >= total THEN r.batch ELSE batch
        own   == {j \in idx..Len(b) : Live(b, j, id)}
    IN  IF Cardinality(here) + Cardinality(kept) >= total /\ r.st \in {"full", "spin"}
        THEN [batch |-> b, len |-> r.len, st |-> r.st, sav |-> sav, body |-> r.body]
        ELSE [batch |-> [j \in DOMAIN b |-> IF j \in own THEN [b[j] EXCEPT !.used = TRUE] ELSE b[j]],
              len |-> r.len, st |-> "saved", sav |-> Save(b, sav, idx, id, total), body |-> <<>>]

\* EvMemcachedUdp::process: the messages of one read in their order; a
\* request that was put together is processed in the place of its message
ProcessMessage(acc, i) ==
    LET f == acc.batch[i]
        m == Merge(acc.batch, acc.sav, i)
        Run(body) == Append(acc.run, [at |-> i, id |-> f.id, body |-> body])
    IN  IF acc.spin \/ f.used THEN acc
        ELSE IF f.total = 1 THEN [acc EXCEPT !.run = Run(<<<<f.id, f.seq>>>>)]
        ELSE [batch |-> m.batch, sav |-> m.sav, spin |-> m.st = "spin",
              run |-> IF m.st = "full" THEN Run(m.body) ELSE acc.run]

Process(batch, sav) ==
    FoldLeft(ProcessMessage, [batch |-> batch, sav |-> sav, spin |-> FALSE, run |-> <<>>],
             [i \in DOMAIN batch |-> i])

-----------------------------------------------------------------------------
(* construct_frames.  A reply is a list of segments, the first one begins  *)
(* with the header; a frame is a list of pieces <<segment, offset, size>>. *)
(* Every frame but the first begins with a header of its own.              *)

Room(first) == IF first THEN FrameSize ELSE FrameSize - HdrSize

\* Mutant of Cut: a later frame is cut as if it had no header
CutNoHeader(segs, c) ==
    LET rest  == segs[c.k] - c.off
        fresh == c.len = 0 /\ c.later
        fs    == IF fresh THEN Append(c.frames, <<>>) ELSE c.frames
        fits  == rest + c.len < FrameSize
        size  == IF fits THEN rest ELSE FrameSize - c.len
        piece == <<c.k, c.off, size>>
        ends  == c.off + size = segs[c.k]
    IN  [k |-> IF fits \/ ends THEN c.k + 1 ELSE c.k,
         off |-> IF fits \/ ends THEN 0 ELSE c.off + size,
         len |-> IF fits THEN c.len + rest ELSE 0,
         later |-> c.later \/ ~fits,
         frames |-> [fs EXCEPT ![Len(fs)] = Append(@, piece)]]

\* one turn of the loop: a segment that fits is packed, one that fills the
\* frame or is larger is split and the next frame begins
Cut(segs, c) ==
    LET rest  == segs[c.k] - c.off
        fresh == c.len = 0 /\ c.later
        fs    == IF fresh THEN Append(c.frames, <<>>) ELSE c.frames
        fits  == rest + c.len < Room(~c.later)
        size  == IF fits THEN rest ELSE Room(~c.later) - c.len
        piece == <<c.k, c.off, size>>
        ends  == c.off + size = segs[c.k]
    IN  [k |-> IF fits \/ ends THEN c.k + 1 ELSE c.k,
         off |-> IF fits \/ ends THEN 0 ELSE c.off + size,
         len |-> IF fits THEN c.len + rest ELSE 0,
         later |-> c.later \/ ~fits,
         frames |-> [fs EXCEPT ![Len(fs)] = Append(@, piece)]]

\* a turn of the loop, while there are segments
CutMore(c, segs) == IF c.k > Len(segs) THEN c ELSE Cut(segs, c)

\* the frames of a reply, numbered, each with their number
Plus(m, n) == m + n

Frames(segs) ==
    LET turns == Len(segs) + (FoldLeft(Plus, 0, segs) \div (FrameSize - HdrSize)) + 1
        end == FoldLeft(CutMore, [k |-> 1, off |-> 0, len |-> 0, later |-> FALSE, frames |-> << <<>> >>],
                        [n \in 1..turns |-> segs])
    IN  [i \in DOMAIN end.frames |->
            [seq |-> i - 1, total |-> Len(end.frames), pieces |-> end.frames[i]]]
=============================================================================
