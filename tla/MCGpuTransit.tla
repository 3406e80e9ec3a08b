---------------------------- MODULE MCGpuTransit ----------------------------
(***************************************************************************)
(* GpuTransit on a line of stops with trips that overtake each other.      *)
(***************************************************************************)
EXTENDS GpuTransit

\* Stops 1 and 2 are near the origin, 4 and 5 near the destination; there are
\* walks from 2 to 3, 3 to 4 and 4 to 2.
MCStops == 1..5
MCAccess == 1 :> 1 @@ 2 :> 6
MCEgress == 4 :> 2 @@ 5 :> 1
MCWalk == <<2, 3>> :> 2 @@ <<3, 4>> :> 2 @@ <<4, 2>> :> 1

Daily == [start |-> 1, end |-> 20, days |-> 0..6, exceptions |-> <<>>]
MCServices == [i \in 1..3 |-> IF i = 3 THEN [Daily EXCEPT !.exceptions = <<[date |-> 2, type |-> 2]>>]
                              ELSE Daily]

\* Every hop takes 2, every halt 1.
Trip(line, start) ==
    [i \in DOMAIN line |-> [stop |-> line[i], arrival |-> start + 3 * (i - 1),
                            departure |-> start + 3 * (i - 1) + 1]]

Query(timetable, date, to, plan, verify) ==
    [timetable |-> timetable, date |-> date, to |-> to, plan |-> plan, verify |-> verify]

\* Any three of these lines at two times; a plan is asked of two trips only.
Lines == {<<1, 2, 3>>, <<2, 4, 5>>, <<3, 1, 4>>, <<1, 4>>}
Trips == {Trip(line, start) : line \in Lines, start \in {2, 7}}

MCQueries ==
    {Query(<<a, b, c>>, date, 0, FALSE, FALSE) : a, b, c \in Trips, date \in {1, 2}}
    \cup {Query(<<a, b>>, 1, to, TRUE, FALSE) : a, b \in Trips, to \in {0, 4}}

\* A trip to stop 2, from there on foot to 3 and 4; another trip from 2 to 4,
\* which comes as early as the walks or later, and one from 4 to 5.
TiedQueries ==
    {Query(<<Trip(<<1, 2>>, 2), Trip(<<2, 4>>, start), Trip(<<4, 5>>, 12)>>, 1, 0, FALSE, TRUE) :
        start \in {6, 7}}

\* Two trips from 1 to 4, one of them faster.
RaceQueries ==
    {Query(<<Trip(<<1, 4>>, start), Trip(<<1, 2, 4>>, 2)>>, 1, to, TRUE, FALSE) :
        start \in {2, 5}, to \in {0, 4}}
=============================================================================
