----------------------------- MODULE RouteQuery -----------------------------
(***************************************************************************)
(* One run of rte-route (main of src/src/tools/rte_route.c) after its      *)
(* arguments and the header of the pack are read: the timetable, the two   *)
(* ends, the walking graph around them, the walking search with its        *)
(* directions and the public transport suggestion; each of them may end    *)
(* the query with a reason.                                                *)
(***************************************************************************)
EXTENDS RouteGraph, TransitPlan

CONSTANTS
    Queries,        \* what may be asked of which pack
    TileOf,         \* lat_lon_to_tile
    GroupMeters     \* 450: how long a step of the directions grows

StopEvent == [stop : Stops, arrival : Nat, departure : Nat]

AddressRecord ==
    [street : Seq(STRING), house : Seq(STRING), city : STRING, suburb : STRING, postcode : STRING,
     located : BOOLEAN, at : Coords \cup {0}]

QueryShape(q) ==
    /\ PackShape(q.pack)
    /\ q.timetable \in Seq(Seq(StopEvent))
    /\ q.addresses \in Seq(AddressRecord)
    /\ \A i \in DOMAIN q.addresses : q.addresses[i].located => q.addresses[i].at \in Coords
    /\ \A end \in {q.from, q.to} : "at" \in DOMAIN end => end.at \in Coords

ASSUME RouteQueryAssumption ==
    /\ TileOf \in [Coords -> Int \X Int] /\ GroupMeters \in Nat
    /\ \A q \in Queries : QueryShape(q)

VARIABLES
    query,      \* addresses, from, to, transitOnly, when, date
    phase,
    from, to,   \* the resolved ends
    store,      \* how far read_transit_section has come, see ReadTimetable
    status,     \* route_status and its reason
    total,      \* total_distance
    shown       \* the points and steps that are printed

queryVars == <<query, phase, from, to, store, status, total, shown>>
vars == <<searchVars, loadVars, transitVars, queryVars>>

Nowhere == [found |-> FALSE, located |-> FALSE, at |-> 0]
NotShown == [points |-> <<>>, steps |-> <<>>]

Init ==
    /\ \E q \in Queries : query = q /\ directory = q.pack
    /\ timetable = <<>> /\ trips = {}
    /\ from = Nowhere /\ to = Nowhere
    /\ out = <<>> /\ source = 0 /\ target = 0
    /\ SearchIdle
    /\ LoadIdle
    /\ TransitIdle
    /\ phase = "open" /\ status = "pending" /\ store = "sound"
    /\ total = 0 /\ shown = NotShown

Ended(reason) == phase' = "done" /\ status' = reason

(***************************************************************************)
(* read_transit_section empties the store, sets its counts, allocates its  *)
(* arrays, fills them, the stop events last, and then reads the strings:   *)
(*   "unset"     it has failed before the counts were set                  *)
(*   "unfilled"  the events are counted, but an array is missing or the    *)
(*               events were not read                                      *)
(*   "filled"    only the strings were not read                            *)
(*   "sound"     there was nothing to read, or everything was read         *)
(* Of a failure main says "transit suggestions unavailable", and goes on   *)
(* with the store as it is; what counts there is the number of the events. *)
(***************************************************************************)
UnreadStores ==
    {s \in {"unset", "unfilled", "filled"} :
        SearchFaults /\ (s = "unfilled" => query.timetable # <<>>)}

ReadTimetable ==
    /\ phase = "open"
    /\ \/ query.when = "none" /\ UNCHANGED <<timetable, store>>
       \/ /\ query.when # "none"
          /\ store' \in {"sound"} \cup UnreadStores
          /\ timetable' = IF store' \in {"sound", "filled"} THEN query.timetable ELSE <<>>
    /\ trips' = ActiveTrips(timetable', query.date)
    /\ phase' = "resolve"
    /\ UNCHANGED <<searchVars, loadVars, pc, round, trip, event, board, base, label, changed, plan,
                   query, from, to, status, total, shown>>

-----------------------------------------------------------------------------
(***************************************************************************)
(* resolve_query: an end is a coordinate, or an address that is looked up  *)
(* among the records, word for word after normalisation.                   *)
(***************************************************************************)
\* Street and house number stand at the start of what was typed before the
\* comma; what follows them there is ignored.
Matches(end, record) ==
    /\ end.place # "" => end.place \in {record.city, record.suburb, record.postcode}
    /\ record.street # <<>> /\ record.house # <<>>
    /\ IsPrefix(record.street \o record.house, end.words)

\* The first match, or the first that has a coordinate.
Resolved(end) ==
    LET best[i \in 0..Len(query.addresses)] ==
            IF i = 0 THEN Nowhere
            ELSE LET record == query.addresses[i]
                 IN  IF /\ Matches(end, record)
                        /\ ~best[i - 1].found \/ (record.located /\ ~best[i - 1].located)
                     THEN [found |-> TRUE, located |-> record.located, at |-> record.at]
                     ELSE best[i - 1]
    IN  IF "at" \in DOMAIN end THEN [found |-> TRUE, located |-> TRUE, at |-> end.at]
        ELSE best[Len(query.addresses)]

Resolve ==
    /\ phase = "resolve"
    /\ \/ /\ from' = Resolved(query.from)
          /\ to' = Resolved(query.to)
          /\ phase' = "check" /\ UNCHANGED status
       \/ /\ SearchFaults
          /\ Ended("address lookup failed")
          /\ UNCHANGED <<from, to>>
    /\ UNCHANGED <<searchVars, loadVars, transitVars, query, store, total, shown>>

Ends == {from, to}

EndTile(end) == FindTile(TileId(TileOf[end.at][1], TileOf[end.at][2]))

\* What main finds out before it opens a tile.
Refusal ==
    CASE \E end \in Ends : ~end.found -> "address_not_found"
      [] \E end \in Ends : ~end.located -> "no_coordinate"
      [] query.transitOnly -> "transit_only"
      [] \E end \in Ends : EndTile(end) = 0 -> "endpoint tile not found"
      [] \E end \in Ends : Empty(directory[EndTile(end)]) -> "payloads are empty"
      [] OTHER -> "none"

Check ==
    /\ phase = "check"
    /\ IF Refusal = "none"
       THEN /\ StartLoad(TileOf[from.at], TileOf[to.at])
            /\ phase' = "load" /\ UNCHANGED status
       ELSE /\ UNCHANGED loadVars
            /\ IF Refusal = "transit_only"
               THEN phase' = "transit" /\ status' = Refusal
               ELSE Ended(Refusal)
    /\ UNCHANGED <<searchVars, transitVars, query, from, to, store, total, shown>>

-----------------------------------------------------------------------------
Load ==
    /\ phase = "load"
    /\ LoadStep
    /\ UNCHANGED <<step, heapVars, popped, node, left, labelVars, settled, path,
                   transitVars, queryVars>>

LoadGivesUp ==
    /\ phase = "load"
    /\ LoadFails
    /\ Ended("failed to load")
    /\ UNCHANGED <<searchVars, loadVars, transitVars, query, from, to, store, total, shown>>

NoGraph == coords = <<>> \/ \A n \in Nodes : out[n] = <<>>

\* Both ends at their nearest nodes.
Snap ==
    /\ phase = "load" /\ Loaded /\ source = 0
    /\ IF NoGraph
       THEN Ended("loaded walking graph is empty") /\ UNCHANGED <<source, target>>
       ELSE /\ source' = Nearest(from.at)
            /\ target' = Nearest(to.at)
            /\ phase' = "search" /\ UNCHANGED status
    /\ UNCHANGED <<out, step, heapVars, popped, node, left, labelVars, settled, path,
                   loadVars, transitVars, query, from, to, store, total, shown>>

Search ==
    /\ phase = "search"
    /\ SearchNext
    /\ UNCHANGED <<loadVars, transitVars, queryVars>>

FromSnap == Away[<<from.at, coords[source]>>]
ToSnap == Away[<<to.at, coords[target]>>]

-----------------------------------------------------------------------------
(***************************************************************************)
(* The directions of write_human_route and                                 *)
(* json_write_route_geometry_and_steps: the points of the path with the    *)
(* metres up to them, and steps that each put edges together until they    *)
(* are long enough.  previous_edge_meters is the difference of two         *)
(* distances.                                                              *)
(***************************************************************************)
EdgeMeters(i) == dist[path[i]] - dist[path[i - 1]]

Points ==
    LET graph == [i \in 1..Len(path) |->
                    [at |-> coords[path[i]], meters |-> FromSnap + dist[path[i]]]]
    IN  <<[at |-> from.at, meters |-> 0]>> \o graph
            \o <<[at |-> to.at, meters |-> dist[target] + FromSnap + ToSnap]>>

\* group: where the step under way has started and its metres so far.
GroupedUngrown(group, i) ==
    IF EdgeMeters(i) >= GroupMeters \/ i = Len(path)
    THEN [start |-> i, meters |-> 0,
          steps |-> Append(group.steps, [start |-> group.start, end |-> i, meters |-> EdgeMeters(i)])]
    ELSE group

Grouped(group, i) ==
    LET meters == group.meters + EdgeMeters(i)
    IN  IF meters >= GroupMeters \/ i = Len(path)
        THEN [start |-> i, meters |-> 0,
              steps |-> Append(group.steps, [start |-> group.start, end |-> i, meters |-> meters])]
        ELSE [group EXCEPT !.meters = meters]

WalkSteps ==
    LET grouped[i \in 1..Len(path)] ==
            IF i = 1 THEN [start |-> 1, meters |-> 0, steps |-> <<>>] ELSE Grouped(grouped[i - 1], i)
    IN  grouped[Len(path)].steps

\* Node 0 stands for the address at either end.
Steps ==
    (IF FromSnap # 0 THEN <<[start |-> 0, end |-> 1, meters |-> FromSnap]>> ELSE <<>>)
        \o WalkSteps
        \o (IF ToSnap # 0 THEN <<[start |-> Len(path), end |-> 0, meters |-> ToSnap]>> ELSE <<>>)

\* A path that finds no memory is not printed, but the query goes on.
Answer ==
    /\ phase = "search"
    /\ \/ step = "failed" /\ Ended("dijkstra_failed") /\ UNCHANGED <<total, shown>>
       \/ step = "none" /\ Ended("no path found") /\ UNCHANGED <<total, shown>>
       \/ /\ step = "done"
          /\ status' = "found"
          /\ total' = dist[target] + FromSnap + ToSnap
          /\ \/ shown' = [points |-> Points, steps |-> Steps]
             \/ SearchFaults /\ shown' = NotShown
          /\ phase' = IF query.when = "none" THEN "done" ELSE "transit"
    /\ UNCHANGED <<searchVars, loadVars, transitVars, query, from, to, store>>

-----------------------------------------------------------------------------
Suggest ==
    /\ phase = "transit" /\ store # "unfilled"
    /\ \/ \E memory \in {TRUE} \cup {~SearchFaults} : StartTransit(query.when, memory)
       \/ TransitStep
    /\ UNCHANGED <<searchVars, loadVars, queryVars>>

Suggested ==
    /\ phase = "transit" /\ pc = "planned"
    /\ phase' = "done"
    /\ UNCHANGED <<searchVars, loadVars, transitVars, query, from, to, store, status, total, shown>>

\* With events that are counted but not there, evaluate_transit_plan goes
\* through a null pointer, or through memory that nobody has filled: it may take
\* that for a plan ("garbled"), or for none.
SuggestUnfilled ==
    /\ phase = "transit" /\ store = "unfilled"
    /\ \/ phase' = "crashed"
       \/ phase' = "garbled"
       \/ phase' = "done"
    /\ UNCHANGED <<searchVars, loadVars, transitVars, query, from, to, store, status, total, shown>>

Done == phase \in {"done", "garbled", "crashed"} /\ UNCHANGED vars

Next ==
    \/ ReadTimetable \/ Resolve \/ Check \/ Load \/ LoadGivesUp \/ Snap \/ Search \/ Answer
    \/ Suggest \/ Suggested \/ SuggestUnfilled \/ Done

Spec == Init /\ [][Next]_vars

-----------------------------------------------------------------------------
(***************************************************************************)
(* The walking route against the payloads of the neighbourhood: which      *)
(* walks between coordinates they describe, and how far it is.             *)
(***************************************************************************)
InReach == {t \in DOMAIN directory :
              \E xy \in Range(Neighborhood(TileOf[from.at], TileOf[to.at])) :
                  directory[t].id = TileId(xy[1], xy[2])}

TileWalks(tiled) ==
    UNION {{<<tiled.nodes[i], tiled.nodes[tiled.edges[e].to], Max({1, tiled.edges[e].meters})>> :
               e \in {e \in (tiled.offsets[i] + 1)..tiled.offsets[i + 1] :
                          tiled.edges[e].to \in DOMAIN tiled.nodes}} : i \in DOMAIN tiled.nodes}

Walks == UNION {TileWalks(directory[t]) : t \in {t \in InReach : ~Empty(directory[t])}}

\* The metres of the shortest way from a coordinate to another, if there is any:
\* near[k] has that to every coordinate at most k walks away.
ShortestWays(start, end) ==
    LET walks == Walks
        nearest(ways) == {w \in ways : \A v \in ways : v[1] = w[1] => w[2] <= v[2]}
        near[k \in 0..Len(coords)] ==
            IF k = 0 THEN {<<start, 0>>}
            ELSE LET ways == near[k - 1]
                     onwards == {p \in ways \X walks : p[2][1] = p[1][1]}
                 IN  nearest(ways \cup {<<p[2][2], p[1][2] + p[2][3]>> : p \in onwards})
    IN  {w[2] : w \in {w \in near[Len(coords)] : w[1] = end}}

\* A route is reported with the length of the shortest walk there is in the
\* tiles around both ends, and none only where there is none.
RouteIsShortest ==
    phase = "done" =>
        /\ status = "found" =>
              ShortestWays(coords[source], coords[target]) = {total - FromSnap - ToSnap}
        /\ status = "no path found" =>
              ShortestWays(coords[source], coords[target]) = {}

\* The path starts at the node nearest to the first located record that the
\* address asked for matches, follows walks of the pack and is as long as the
\* distance reported; so is the other end.
AskedFor(end) ==
    IF "at" \in DOMAIN end THEN end.at
    ELSE LET located == {i \in DOMAIN query.addresses :
                            query.addresses[i].located /\ Matches(end, query.addresses[i])}
         IN  query.addresses[Min(located)].at

PathIsWalk ==
    phase = "done" /\ status = "found" =>
        /\ path[1] = Nearest(AskedFor(query.from)) /\ path[Len(path)] = Nearest(AskedFor(query.to))
        /\ \A i \in 1..(Len(path) - 1) :
              <<coords[path[i]], coords[path[i + 1]], dist[path[i + 1]] - dist[path[i]]>> \in Walks

\* The directions lead all the way: from the address to the address every step
\* starts where the one before has ended and has the metres between the points
\* it joins, none of the walk but the last is short, and no point is farther
\* from the start than the next.
DirectionsLeadThere ==
    phase = "done" /\ shown # NotShown =>
        LET steps == shown.steps
            points == shown.points
            walk == {i \in DOMAIN steps : steps[i].start # 0 /\ steps[i].end # 0}
            startsAt(i) == points[steps[i].start + 1]
            endsAt(i) == points[IF steps[i].end = 0 THEN Len(points) ELSE steps[i].end + 1]
        IN  /\ IF steps = <<>> THEN total = 0
               ELSE /\ steps[1].start \in {0, 1} /\ startsAt(1).meters = 0
                    /\ steps[Len(steps)].end \in {0, Len(path)} /\ endsAt(Len(steps)).meters = total
            /\ \A i \in 1..(Len(steps) - 1) : steps[i].end = steps[i + 1].start
            /\ \A i \in DOMAIN steps : steps[i].meters = endsAt(i).meters - startsAt(i).meters
            /\ \A i, j \in walk : i < j => steps[i].meters >= GroupMeters
            /\ points[1].at = from.at /\ points[Len(points)] = [at |-> to.at, meters |-> total]
            /\ \A i \in 1..(Len(points) - 1) : points[i].meters <= points[i + 1].meters

-----------------------------------------------------------------------------
(***************************************************************************)
(* The public transport suggestion.                                        *)
(***************************************************************************)
Rideable(leg) ==
    /\ leg.trip \in trips
    /\ \E a, b \in DOMAIN timetable[leg.trip] :
          /\ a < b
          /\ leg.board = timetable[leg.trip][a].stop
          /\ leg.departure = timetable[leg.trip][a].departure
          /\ leg.alight = timetable[leg.trip][b].stop
          /\ leg.arrival = timetable[leg.trip][b].arrival

Walkable(leg) ==
    /\ leg.alight \in WalkTargets(leg.board)
    /\ leg.arrival = leg.departure + Walk[<<leg.board, leg.alight>>]

\* A plan from a timetable that was read can be travelled: every leg is a ride of a trip of that day
\* or a walk, starts where the one before ends and not before it does, although
\* the labels it is read from were overwritten by later rounds; it can be
\* reached from the origin in time and ends at the time that is shown.
PlanRidable ==
    phase = "done" /\ store = "sound" /\ plan.found =>
        LET legs == plan.legs
            first == legs[1]
            last == legs[Len(legs)]
            start == IF query.when = "arrive" THEN Deadline - plan.total ELSE Depart
            end == last.arrival + Egress[last.alight]
        IN  /\ \A i \in DOMAIN legs : Rideable(legs[i]) \/ Walkable(legs[i])
            /\ \A i \in 2..Len(legs) :
                  legs[i].board = legs[i - 1].alight /\ legs[i].departure >= legs[i - 1].arrival
            /\ first.board \in DOMAIN Access /\ last.alight \in DOMAIN Egress
            /\ start >= 0 /\ start + Access[first.board] <= first.departure
            /\ IF query.when = "arrive" THEN end <= Deadline ELSE end = start + plan.total

\* After "transit suggestions unavailable" the query goes on without a plan: none
\* is suggested, and nothing is read of a timetable that is not there.
UnreadMeansNone ==
    store # "sound" =>
        /\ phase \notin {"crashed", "garbled"}
        /\ phase = "done" => ~plan.found

\* A trip that leaves no stop after it arrives at a later one.
RunsForward(i) ==
    \A a, b \in DOMAIN timetable[i] :
        a < b => timetable[i][a].departure <= timetable[i][b].arrival

\* The label of a stop is in time for the departure of a trip.
Catches(i, a) ==
    /\ label[timetable[i][a].stop].arrival # Inf
    /\ label[timetable[i][a].stop].arrival <= timetable[i][a].departure

\* When the search ends, its labels are settled: no ride that there was a round
\* left for leads to a stop before its label, no walk does from a stop where a
\* vehicle was left, and no way from the origin; and of the stops near the
\* destination that were reached, none has a better score than the plan's.
NoBetterJourney ==
    phase = "done" /\ pc = "planned" /\ query.when = "depart" /\ (round > 0 \/ TripsDone) =>
        LET ends == {s \in DOMAIN Egress : label[s].kind \in {"vehicle", "walk"}}
        IN  /\ \A i \in {i \in trips : RunsForward(i)} : \A a, b \in DOMAIN timetable[i] :
                  a < b /\ Catches(i, a) /\ label[timetable[i][a].stop].rides < MaxRounds
                      => label[timetable[i][b].stop].arrival <= timetable[i][b].arrival
            /\ \A s \in Stops : \A t \in WalkTargets(s) :
                  label[s].kind = "vehicle" => label[t].arrival <= label[s].arrival + Walk[<<s, t>>]
            /\ \A s \in DOMAIN Access : label[s].arrival <= Depart + Access[s]
            /\ plan.found => \A s \in ends :
                  Score(plan.legs[Len(plan.legs)].arrival, plan.legs[Len(plan.legs)].alight)
                      <= Score(label[s].arrival, s)
            /\ ends # {} /\ ~plan.found => Len(LegsTo(BestGoal)) > MaxPlanLegs
=============================================================================
