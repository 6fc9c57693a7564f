---------------------------- MODULE MCRouteFlood ----------------------------
(* Small maps for RouteFlood: a square with a diagonal, *)
(*    1 - 2                                             *)
(*    | / |                                             *)
(*    4 - 3                                             *)
EXTENDS RouteFlood

\* A street from the place p to q
StreetOf(i, p, q, len, dirs, limited) ==
    [item |-> i, start |-> <<p>>, end |-> <<q>>, len |-> len, dirs |-> dirs,
     free |-> FALSE, closed |-> FALSE, limited |-> limited]
Both == {1, -1}

\* The directions of b and c, whether through traffic is kept out of b and e, and whether
\* the other streets are too short to have a length
Square(db, dc, limited, short, restriction) ==
    LET long(n) == IF short THEN 0 ELSE n
    IN  [streets |-> {StreetOf("a", 1, 2, long(4), Both, FALSE), StreetOf("b", 2, 3, 4, db, limited),
                      StreetOf("c", 3, 4, long(2), dc, FALSE), StreetOf("d", 4, 1, long(8), Both, FALSE),
                      StreetOf("e", 2, 4, long(10), Both, limited)},
         restriction |-> restriction]

\* A junction of three streets and a way around, for a bicycle: one-way streets mean
\* nothing on those of the set free, and those of the set closed are for others.
Bicycle(free, closed, restriction) ==
    LET all == {StreetOf("a", 1, 2, 4, Both, FALSE), StreetOf("b", 2, 3, 4, {1}, FALSE),
                StreetOf("c", 3, 4, 2, {1}, FALSE), StreetOf("e", 2, 4, 10, Both, FALSE)}
    IN  [streets |-> {[s EXCEPT !.free = s.item \in free, !.closed = s.item \in closed,
                                !.dirs = IF s.item \in free THEN Both ELSE @] : s \in all},
         restriction |-> restriction]

Turn(kind, p, q, r) == [kind |-> kind, prev |-> p, via |-> q, next |-> r]
NoTurns == {Turn("no", 1, 2, 3), Turn("no", 4, 3, 2)}
OnlyTurn == {Turn("only", 4, 2, 3), Turn("no", 2, 3, 4)}

MCMaps ==
    {Square(Both, Both, TRUE, FALSE, NoTurns), Square({1}, {-1}, TRUE, FALSE, OnlyTurn),
     Square({1}, Both, FALSE, FALSE, {}), Square(Both, Both, FALSE, TRUE, {}),
     Square(Both, {-1}, TRUE, FALSE, OnlyTurn),
     Bicycle({"a", "b"}, {"e"}, {Turn("no", 1, 2, 3)}),
     Bicycle({"b", "c"}, {}, {Turn("no", 1, 2, 3), Turn("no", 4, 2, 1)})}
=============================================================================
