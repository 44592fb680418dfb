------------------------------- MODULE RedisGeo ------------------------------
(***************************************************************************)
(* The geo commands of one key.  A geo key is a sorted set whose scores    *)
(* are the cells of the places.  The earth is a plane: a cell is a square  *)
(* of side 2, four make a larger one, and the number of a cell has the     *)
(* number of the one around it in front, as the index of h3 has with its   *)
(* hexagons.  A place is at the centre of its cell and distances are       *)
(* those along the sides.                                                  *)
(***************************************************************************)
EXTENDS RedisSortedSet

\* column and row of a cell, of 16 by 16
Column(c) == (c % 2) + 2 * ((c \div 4) % 2) + 4 * ((c \div 16) % 2) + 8 * ((c \div 64) % 2)
Row(c)    == Column(c \div 2)

Centre(c) == <<2 * Column(c) + 1, 2 * Row(c) + 1>>

Apart(i, j) == IF i < j THEN j - i ELSE i - j
Between(p, q) == Apart(p[1], q[1]) + Apart(p[2], q[2])

\* haversine_dist of the centres
Dist(a, b) == Between(Centre(a), Centre(b))

\* GEOADD
GeoAdd(v, places) ==
    LET Add(acc, p) ==
            [z |-> Put(acc.z, p[1], p[2]),
             n |-> acc.n + (IF p \in ToSet(acc.z) THEN 0 ELSE 1)]
        r(z) == FoldLeft(Add, [z |-> z, n |-> 0], places)
        Result(z) == SendInt(Val("geo", r(z).z), r(z).n,
                             IF r(z).n > 0 THEN ZFlags("geo") \cup {"zsetblkd"} ELSE {})
    IN  OfType(v, "geo", Result(<<>>), Result)

\* GEOHASH and GEOPOS of some members
GeoRead(v, ms) ==
    OfType(v, "geo", Status(v, "send_zero"),
           LAMBDA z : Data(v, [i \in DOMAIN ms |->
                                  IF ms[i] \in Members(z) THEN Score(z, ms[i]) ELSE Nil]))

GeoDist(v, a, b) ==
    OfType(v, "geo", Status(v, "send_zero"),
           LAMBDA z : IF {a, b} \subseteq Members(z) THEN Data(v, <<Dist(Score(z, a), Score(z, b))>>)
                      ELSE Status(v, "send_nil"))

\* the hexagons of level n, of 4^n cells
Coarsest == 2
Edge(n)  == 2^(n + 1)
Hexagon(c, n) == c \div 4^n
Corners(h, n) ==
    LET x == 2 * Column(h * 4^n)
        y == 2 * Row(h * 4^n)
    IN  {x, x + Edge(n)} \X {y, y + Edge(n)}

\* the finest level whose edge is as long as the radius, if there is one
Level(radius) == Min({n \in 0..Coarsest : n = Coarsest \/ Edge(n) >= radius})

\* hexRange: the hexagons around one have a corner in common with it
Ring(h, g, n) == Corners(h, n) \cap Corners(g, n) # {}

\* what is searched: the hexagon of the origin, and of those around it the
\* ones that have a corner within the radius
Searched(origin, radius, c) ==
    LET n == Level(radius)
        h == Hexagon(origin, n)
        g == Hexagon(c, n)
    IN  \/ g = h
        \/ Ring(h, g, n) /\ \E p \in Corners(g, n) : Between(p, Centre(origin)) <= radius

\* the places within the radius that are found, in the order of cells, each
\* with its distance
Within(z, origin, radius) ==
    Select([i \in DOMAIN z |-> <<z[i][1], z[i][2], Dist(z[i][2], origin)>>],
              LAMBDA p : p[3] <= radius /\ Searched(origin, radius, p[2]))

\* cmp_ascend_dist, cmp_descend_dist and cmp_ascend_hash; the list that is
\* sorted was built from the last place to the first
Behind(p, q)  == p[2] > q[2] \/ (p[2] = q[2] /\ p[1] > q[1])
Nearer(p, q)  == p[3] < q[3] \/ (p[3] = q[3] /\ Behind(p, q))
Farther(p, q) == p[3] > q[3] \/ (p[3] = q[3] /\ Behind(p, q))
Lower(p, q)   == p[2] < q[2] \/ (p[2] = q[2] /\ p[1] > q[1])

Ordered(near, order) ==
    CASE order = "desc" -> InOrder(ToSet(near), Farther)
      [] order = "hash" -> InOrder(ToSet(near), Lower)
      [] OTHER          -> InOrder(ToSet(near), Nearer)

First(seq, count) == IF count \in 1..Len(seq) THEN SubSeq(seq, 1, count) ELSE seq

\* Mutant of Places: the list is cut before it is sorted
PlacesCutFirst(near, order, count) ==
    IF order = "none" THEN First(near, count)
    ELSE Ordered(First(near, count), order)

\* COUNT ends the search when no order is asked for, and cuts the sorted list
Places(near, order, count) ==
    IF order = "none" THEN First(near, count) ELSE First(Ordered(near, order), count)

\* the origin is a cell, or the cell of a member when there is one
Near(z, from, at, radius) ==
    IF from = "cell" THEN Within(z, at, radius)
    ELSE IF at \in Members(z) THEN Within(z, Score(z, at), radius) ELSE <<>>

\* do_gradius: the answer, or with a store key what is saved for it, the
\* whole list
GRadius(v, from, at, radius, order, count, store) ==
    LET near(z) == Near(z, from, at, radius)
        Answer(z) == Data(v, CASE store = "none" -> Places(near(z), order, count)
                               [] store = "hash" -> Ordered(near(z), "hash")
                               [] store = "dist" -> Ordered(near(z), "asc"))
    IN  OfType(v, "geo", Data(v, <<>>), Answer)

\* do_gradius_store adds the places to what the destination holds
GRadiusStore(v, store, part) ==
    LET T == IF store = "hash" THEN "geo" ELSE "zset"
        Put1(z, p) == Put(z, p[1], IF store = "hash" THEN p[2] ELSE p[3])
        Result(z) == SendInt(Val(T, FoldLeft(Put1, z, part)), Len(part), ZFlags("geo") \cup {"zsetblkd"})
    IN  OfType(v, T, Result(<<>>), Result)
=============================================================================
