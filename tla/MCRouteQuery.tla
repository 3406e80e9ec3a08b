---------------------------- MODULE MCRouteQuery ----------------------------
(***************************************************************************)
(* RouteQuery on small packs.  Coordinates are points of a line.           *)
(***************************************************************************)
EXTENDS RouteQuery, TLC

\* 1 to 6 are nodes of tiles, tile 3 has no payload and coordinate 8 is in tile 4.
MCCoords == 1..8
MCTileOf == [c \in MCCoords |-> <<CASE c <= 3 -> 0 [] c <= 5 -> 1 [] c = 6 -> 2 [] c = 7 -> 3 [] c = 8 -> 4, 0>>]
MCHash == [c \in MCCoords |-> c % 3]
MCAway == [p \in MCCoords \X MCCoords |-> IF p[1] < p[2] THEN p[2] - p[1] ELSE p[1] - p[2]]

\* Stop 1 and, farther off, stop 2 are near the origin, 3 and 4 near the destination.
MCStops == 1..4
MCAccess == 1 :> 1 @@ 2 :> 8
MCEgress == 3 :> 4 @@ 4 :> 1
MCWalk == <<2, 3>> :> 2 @@ <<3, 2>> :> 2 @@ <<1, 3>> :> 6

\* Trip 1 runs every day of the week but not on day 9, trip 2 on Mondays, Tuesdays
\* and the extra day 10 but not on day 8, the others every day.
Daily == [start |-> 1, end |-> 20, days |-> 0..6, exceptions |-> <<>>]
MCServices ==
    << [Daily EXCEPT !.exceptions = <<[date |-> 9, type |-> 2]>>],
       [start |-> 1, end |-> 20, days |-> {0, 1},
        exceptions |-> <<[date |-> 8, type |-> 2], [date |-> 10, type |-> 1]>>],
       Daily, Daily >>

\* Every hop takes 2, every halt 1.
Trip(line, start) ==
    [i \in DOMAIN line |-> [stop |-> line[i], arrival |-> start + 3 * (i - 1),
                            departure |-> start + 3 * (i - 1) + 1]]

Trips(lines, starts) == {Trip(line, start) : line \in lines, start \in starts}

\* Slow and fast ways to stops 2 and 3, so that later rounds improve what earlier
\* ones have built on.
Timetables ==
    {<<a, b, c, d>> :
        a \in Trips({<<1, 2>>, <<1, 3>>, <<3, 1, 2>>, <<2, 4>>}, {1, 7}),
        b \in Trips({<<1, 3>>, <<3, 2>>, <<2, 1, 3>>}, {1, 4}),
        c \in Trips({<<3, 2>>, <<2, 4>>, <<1, 3, 4>>}, {4, 7}),
        d \in Trips({<<2, 4>>, <<3, 2, 4>>}, {7, 10})}

\* Three tiles in a row and one out of reach.  Coordinate 3 is in two of them.
\* The lengths of the edges vary; 9 stands for no edge.
Edges(ends, lengths, first) ==
    LET there == SelectSeq([k \in DOMAIN ends |-> [ends |-> ends[k], meters |-> lengths[first + k - 1]]],
                           LAMBDA e : e.meters # 9)
    IN  [from |-> [k \in DOMAIN there |-> there[k].ends[1]],
         list |-> [k \in DOMAIN there |-> [to |-> there[k].ends[2], meters |-> there[k].meters]]]

Tile(x, nodes, edges) ==
    [id |-> TileId(x, 0), nodes |-> nodes, edges |-> edges.list,
     offsets |-> [i \in 1..(Len(nodes) + 1) |-> Cardinality({k \in DOMAIN edges.from : edges.from[k] < i})]]

Pack(lengths) ==
    << Tile(0, <<1, 2, 3>>, Edges(<< <<1, 2>>, <<1, 3>>, <<2, 3>> >>, lengths, 1)),
       Tile(1, <<4, 3, 5>>, Edges(<< <<1, 3>>, <<2, 1>>, <<2, 3>> >>, lengths, 4)),
       Tile(2, <<5, 6>>, Edges(<< <<1, 1>>, <<1, 2>> >>, <<0, 1>>, 1)),
       Tile(4, <<1, 6>>, Edges(<< <<1, 2>> >>, <<1>>, 1)) >>

\* The first node leads to all others, some of these on to the last.
Star(lengths) ==
    << Tile(0, <<1, 2, 4, 5, 3>>,
            Edges(<< <<1, 2>>, <<1, 3>>, <<1, 4>>, <<1, 5>>, <<2, 5>>, <<3, 5>>, <<4, 5>> >>,
                  lengths, 1)) >>

Broken == [Pack(<<1, 1, 1, 1, 1, 1>>) EXCEPT ![2].offsets = <<0, 2, 1, 3>>]

At(c) == [at |-> c]
Address(words, place) == [words |-> words, place |-> place]

Record(street, house, city, located, at) ==
    [street |-> street, house |-> house, city |-> city, suburb |-> "north", postcode |-> "",
     located |-> located, at |-> at]

\* The same address twice, without and with a coordinate, and in another town.
Addresses ==
    << Record(<<"long", "street">>, <<"1">>, "here", FALSE, 0),
       Record(<<"long", "street">>, <<"1">>, "there", TRUE, 6),
       Record(<<"long", "street">>, <<"1">>, "here", TRUE, 1),
       Record(<<"way">>, <<"5">>, "here", FALSE, 0),
       Record(<<>>, <<"1">>, "here", TRUE, 2) >>

Query(pack, timetable0, from0, to0, only, when, date) ==
    [pack |-> pack, timetable |-> timetable0, addresses |-> Addresses, from |-> from0, to |-> to0,
     transitOnly |-> only, when |-> when, date |-> date]

SomeTrips == <<Trip(<<1, 3, 4>>, 4)>>

\* One timetable that may not be read.
MCUnreadQueries ==
    {Query(<<>>, SomeTrips, At(1), At(5), TRUE, when, 1) : when \in {"depart", "arrive"}}

MCQueries ==
    {Query(Pack(lengths), <<>>, At(1), At(5), FALSE, "none", 1) :
        lengths \in [1..6 -> {0, 3, 9}]}
    \cup {Query(Star(<<5>> \o near \o on), <<>>, At(1), At(3), FALSE, "none", 1) :
            near \in [1..3 -> {1, 2, 4}], on \in [1..3 -> {1, 9}]}
    \cup {Query(Pack(<<3, 9, 1, 1, 3, 9>>), SomeTrips, from0, to0, FALSE, when, 1) :
            from0 \in {At(1), Address(<<"long", "street", "1", "left">>, "here"), Address(<<"way", "5">>, "")},
            to0 \in {At(5), Address(<<"long", "street", "1">>, "there"), Address(<<"street", "1">>, "here"),
                     At(7), At(8)},
            when \in {"depart", "arrive", "none"}}
    \cup {Query(Broken, <<>>, At(1), At(5), FALSE, "none", 1),
          Query(<<Tile(0, <<1>>, Edges(<< <<1, 1>> >>, <<1>>, 1))>>, <<>>, At(1), At(1), FALSE, "none", 1),
          Query(<<Tile(0, <<>>, Edges(<<>>, <<>>, 1))>>, <<>>, At(1), At(1), FALSE, "none", 1)}
    \cup {Query(<<>>, day, At(1), At(5), TRUE, when, date) :
            day \in Timetables, when \in {"depart", "arrive"}, date \in {1}}
    \cup {Query(<<>>, day, At(1), At(5), TRUE, when, date) :
            day \in {day \in Timetables : day[3][1] = day[4][1] \/ day[1] = Trip(<<3, 1, 2>>, 1)},
            when \in {"depart", "arrive"}, date \in {8, 9, 10}}
=============================================================================
