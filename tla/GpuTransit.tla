----------------------------- MODULE GpuTransit -----------------------------
(***************************************************************************)
(* A query of rte-gpu-route (run_route_query of rte_gpu_route.cu): rounds  *)
(* of two kernels over the labels of all stops.  The trip kernel has a     *)
(* thread per trip, the transfer kernel one per stop; the threads lower    *)
(* the labels with atomicMin and, with --plan, store the predecessors of a *)
(* stop field by field.                                                    *)
(*                                                                         *)
(* A label is packed as in the code: 256 times the arrival plus the rides. *)
(* Of the ten predecessor fields one stands for all that say the same; the *)
(* threads' accesses are interleaved, none of them is reordered.           *)
(***************************************************************************)
EXTENDS TransitPack, SequencesExt

CONSTANTS
    Queries,        \* timetable, date, to (a stop, or 0 for the coordinate), plan, verify
    Depart,
    BoardSlack,     \* RTEGPU_BOARD_SLACK_SEC
    Iterations      \* how often the search is run

ASSUME GpuTransitAssumption ==
    /\ Depart \in Nat /\ BoardSlack \in Nat /\ Iterations \in Nat \ {0}
    /\ MaxRounds < 256
    /\ \A q \in Queries : q.timetable \in Seq(Seq([stop : Stops, arrival : Nat, departure : Nat]))

VARIABLES
    query,
    trips,          \* the trips of the day: service_active
    iteration, round,
    kernel,         \* "trips", "transfers" or "none"
    base,           \* base_state
    state,
    pred,
    thread,         \* a thread per trip or per stop
    result

gpuVars == <<query, trips, iteration, round, kernel, base, state, pred, thread, result>>

Timetable == query.timetable

Packed(arrival, rides) == arrival * 256 + rides
Arrival(packed) == packed \div 256
RidesOf(packed) == packed % 256

NoBoard == [stop |-> 0, departure |-> 0, rides |-> 0]
NoTask == [stop |-> 0]
NoPred == [kind |-> "none", previous |-> 0, trip |-> 0, departure |-> 0, arrival |-> 0]
PredFields == <<"kind", "previous", "trip", "departure", "arrival">>

\* What is left for a thread: the next event of its trip and where it has
\* boarded, or the transfers of its stop; and the predecessors it is to store.
Rider == [event |-> 1, board |-> NoBoard, task |-> NoTask]
Walker(s) == [left |-> WalkTargets(s), task |-> NoTask]

NoResult == [stop |-> 0, arrival |-> Inf, legs |-> <<>>, exit |-> 0]

\* initialize_origin and initialize_origin_predecessors.
OriginState ==
    [s \in Stops |-> IF s \in DOMAIN Access THEN Packed(Depart + Access[s], 0) ELSE Packed(Inf, 0)]

OriginPred ==
    [s \in Stops |-> IF s \in DOMAIN Access
                     THEN [NoPred EXCEPT !.kind = "origin", !.departure = Depart,
                                         !.arrival = Depart + Access[s]]
                     ELSE NoPred]

GpuInit ==
    /\ query \in Queries
    /\ trips = ActiveTrips(query.timetable, query.date)
    /\ iteration = 1 /\ round = 0
    /\ kernel = "trips"
    /\ base = OriginState /\ state = OriginState
    /\ pred = OriginPred
    /\ thread = [i \in trips |-> Rider]
    /\ result = NoResult

-----------------------------------------------------------------------------
(***************************************************************************)
(* A candidate for the label of a stop.  The thread that has lowered it    *)
(* looks once whether it still stands and then stores field after field.   *)
(***************************************************************************)
Lowered(old, candidate) == Min({old, candidate})

TaskFor(stop, candidate, from) ==
    IF query.plan /\ candidate < state[stop]
    THEN [stop |-> stop, candidate |-> candidate, from |-> from, field |-> 0]
    ELSE NoTask

Confirm(i) ==
    /\ thread[i].task # NoTask /\ thread[i].task.field = 0
    /\ LET task == thread[i].task
       IN  thread' = [thread EXCEPT ![i].task =
                        IF state[task.stop] = task.candidate THEN [task EXCEPT !.field = 1] ELSE NoTask]
    /\ UNCHANGED <<query, trips, iteration, round, kernel, base, state, pred, result>>

StoreField(i) ==
    /\ thread[i].task # NoTask /\ thread[i].task.field # 0
    /\ LET task == thread[i].task
           name == PredFields[task.field]
       IN  /\ pred' = [pred EXCEPT ![task.stop][name] = task.from[name]]
           /\ thread' = [thread EXCEPT ![i].task =
                IF task.field = Len(PredFields) THEN NoTask ELSE [task EXCEPT !.field = @ + 1]]
    /\ UNCHANGED <<query, trips, iteration, round, kernel, base, state, result>>

-----------------------------------------------------------------------------
(***************************************************************************)
(* rtegpu_trip_scan_kernel: a thread alights where it can, then boards at  *)
(* an earlier departure from a stop that the last round has reached.       *)
(***************************************************************************)
CanBoardAtOnce(known, departure) == Arrival(known) # Inf /\ Arrival(known) <= departure

CanBoard(known, departure) ==
    /\ Arrival(known) # Inf
    /\ Arrival(known) + BoardSlack <= departure

BoardedLive(board, event) ==
    IF /\ CanBoard(state[event.stop], event.departure)
       /\ RidesOf(state[event.stop]) = round
       /\ board = NoBoard \/ event.departure < board.departure
    THEN [stop |-> event.stop, departure |-> event.departure, rides |-> round + 1]
    ELSE board

Boarded(board, event) ==
    IF /\ CanBoard(base[event.stop], event.departure)
       /\ RidesOf(base[event.stop]) = round
       /\ board = NoBoard \/ event.departure < board.departure
    THEN [stop |-> event.stop, departure |-> event.departure, rides |-> round + 1]
    ELSE board

Alights(board, event) == board # NoBoard /\ event.arrival >= board.departure

RideOn(i) ==
    /\ kernel = "trips"
    /\ thread[i].task = NoTask /\ thread[i].event <= Len(Timetable[i])
    /\ LET event == Timetable[i][thread[i].event]
           board == thread[i].board
           candidate == Packed(event.arrival, board.rides)
           from == [kind |-> "vehicle", previous |-> board.stop, trip |-> i,
                    departure |-> board.departure, arrival |-> event.arrival]
       IN  /\ state' = IF Alights(board, event)
                       THEN [state EXCEPT ![event.stop] = Lowered(@, candidate)] ELSE state
           /\ thread' = [thread EXCEPT ![i] =
                [event |-> thread[i].event + 1, board |-> Boarded(board, event),
                 task |-> IF Alights(board, event) THEN TaskFor(event.stop, candidate, from) ELSE NoTask]]
    /\ UNCHANGED <<query, trips, iteration, round, kernel, base, pred, result>>

\* The labels are copied and the transfer kernel is launched.
TripsDone ==
    /\ kernel = "trips"
    /\ \A i \in trips : thread[i].event > Len(Timetable[i]) /\ thread[i].task = NoTask
    /\ kernel' = "transfers"
    /\ base' = state
    /\ thread' = [s \in Stops |-> Walker(s)]
    /\ UNCHANGED <<query, trips, iteration, round, state, pred, result>>

\* rtegpu_transfer_kernel: from every stop that is reached, changed or not.
WalkOn(s, t) ==
    /\ kernel = "transfers"
    /\ thread[s].task = NoTask /\ t \in thread[s].left
    /\ LET walks == Arrival(base[s]) # Inf /\ RidesOf(base[s]) < MaxRounds
           arrival == Arrival(base[s]) + Walk[<<s, t>>]
           candidate == Packed(arrival, RidesOf(base[s]))
           from == [kind |-> "walk", previous |-> s, trip |-> 0,
                    departure |-> Arrival(base[s]), arrival |-> arrival]
       IN  /\ state' = IF walks THEN [state EXCEPT ![t] = Lowered(@, candidate)] ELSE state
           /\ thread' = [thread EXCEPT ![s] =
                [left |-> thread[s].left \ {t},
                 task |-> IF walks THEN TaskFor(t, candidate, from) ELSE NoTask]]
    /\ UNCHANGED <<query, trips, iteration, round, kernel, base, pred, result>>

\* The next round, the next iteration with its labels reset, or the answer.
RoundDone ==
    /\ kernel = "transfers"
    /\ \A s \in Stops : thread[s].left = {} /\ thread[s].task = NoTask
    /\ IF round + 1 < MaxRounds
       THEN /\ round' = round + 1 /\ kernel' = "trips"
            /\ base' = state /\ thread' = [i \in trips |-> Rider]
            /\ UNCHANGED <<iteration, state, pred>>
       ELSE IF iteration < Iterations
       THEN /\ iteration' = iteration + 1 /\ round' = 0 /\ kernel' = "trips"
            /\ state' = OriginState /\ base' = OriginState
            /\ pred' = OriginPred
            /\ thread' = [i \in trips |-> Rider]
       ELSE /\ kernel' = "none" /\ thread' = <<>>
            /\ UNCHANGED <<iteration, round, base, state, pred>>
    /\ UNCHANGED <<query, trips, result>>

-----------------------------------------------------------------------------
(***************************************************************************)
(* cpu_scan, the mirror of --verify: the same rounds trip by trip.  A      *)
(* label is replaced by a candidate that arrives earlier, whatever its     *)
(* rides.                                                                  *)
(***************************************************************************)
Sooner(labels, stop, candidate) ==
    IF Arrival(candidate) < Arrival(labels[stop]) THEN [labels EXCEPT ![stop] = candidate] ELSE labels

CpuBoarded(board, event, from, r) ==
    IF /\ CanBoard(from[event.stop], event.departure)
       /\ RidesOf(from[event.stop]) = r
       /\ board = NoBoard \/ event.departure < board.departure
    THEN [stop |-> event.stop, departure |-> event.departure, rides |-> r + 1]
    ELSE board

CpuTrip(labels, i, from, r) ==
    LET ride(at, event) ==
            [board |-> CpuBoarded(at.board, event, from, r),
             labels |-> IF Alights(at.board, event)
                        THEN Sooner(at.labels, event.stop, Packed(event.arrival, at.board.rides))
                        ELSE at.labels]
    IN  FoldLeft(ride, [board |-> NoBoard, labels |-> labels], Timetable[i]).labels

Ascending(S) == SetToSortSeq(S, <)

CpuTransfers(from) ==
    LET edges == FoldLeft(LAMBDA list, s : list \o [k \in 1..Cardinality(WalkTargets(s)) |->
                                                       <<s, Ascending(WalkTargets(s))[k]>>],
                          <<>>, Ascending(Stops))
        walk(labels, e) ==
            IF Arrival(from[e[1]]) # Inf /\ RidesOf(from[e[1]]) < MaxRounds
            THEN Sooner(labels, e[2], Packed(Arrival(from[e[1]]) + Walk[e], RidesOf(from[e[1]])))
            ELSE labels
    IN  FoldLeft(walk, from, edges)

CpuScan ==
    LET after[r \in 0..MaxRounds] ==
            IF r = 0 THEN OriginState
            ELSE LET from == after[r - 1]
                     ridden == FoldLeft(LAMBDA labels, i : CpuTrip(labels, i, from, r - 1),
                                        from, Ascending(trips))
                 IN  CpuTransfers(ridden)
    IN  after[MaxRounds]

-----------------------------------------------------------------------------
(***************************************************************************)
(* select_destination and build_plan_legs with compact_plan_legs.          *)
(***************************************************************************)
Reached(labels) == {s \in DOMAIN Egress : Arrival(labels[s]) # Inf}

\* Of the least score the least arrival, then the first.
BetterStop(labels, s, t) ==
    LET rank(u) == <<Score(Arrival(labels[u]), u), Arrival(labels[u]) + Egress[u], u>>
        first == Min({k \in 1..3 : rank(s)[k] # rank(t)[k]})
    IN  rank(s)[first] < rank(t)[first]

Destination(labels) ==
    IF query.to # 0 THEN [stop |-> query.to, arrival |-> Arrival(labels[query.to])]
    ELSE IF Reached(labels) = {} THEN [stop |-> 0, arrival |-> Inf]
    ELSE LET best == CHOOSE s \in Reached(labels) :
                        \A t \in Reached(labels) \ {s} : BetterStop(labels, s, t)
         IN  [stop |-> best, arrival |-> Arrival(labels[best]) + Egress[best]]

Leg(s) == [kind |-> pred[s].kind, trip |-> pred[s].trip, alight |-> s,
           board |-> IF pred[s].kind = "origin" THEN s ELSE pred[s].previous,
           departure |-> pred[s].departure, arrival |-> pred[s].arrival]

\* As many predecessors as there are stops, until the walk from the origin.
Chain(s) ==
    LET back[n \in 0..Cardinality(Stops)] ==
            IF n = 0 THEN [at |-> s, legs |-> <<>>]
            ELSE LET c == back[n - 1]
                 IN  IF c.at = 0 \/ pred[c.at].kind = "none" THEN c
                     ELSE [at |-> pred[c.at].previous, legs |-> <<Leg(c.at)>> \o c.legs]
    IN  back[Cardinality(Stops)].legs

\* Legs that go on by the same trip or on foot are put together.
Joins(leg, next) ==
    /\ leg.alight = next.board
    /\ \/ leg.kind = "vehicle" /\ next.kind = "vehicle" /\ leg.trip = next.trip
       \/ leg.kind \in {"walk", "origin"} /\ next.kind = "walk"

Compacted(legs) ==
    LET join(list, next) ==
            IF list # <<>> /\ Joins(list[Len(list)], next)
            THEN [list EXCEPT ![Len(list)] = [@ EXCEPT !.alight = next.alight, !.arrival = next.arrival]]
            ELSE Append(list, next)
    IN  FoldLeft(join, <<>>, legs)

PlanLegs(s) ==
    IF Chain(s) # <<>> /\ Chain(s)[1].kind = "origin" THEN Compacted(Chain(s)) ELSE <<>>

Report ==
    /\ kernel = "none" /\ result = NoResult
    /\ LET best == Destination(state)
           mirrored == /\ \A s \in Stops : Arrival(state[s]) = Arrival(CpuScan[s])
                       /\ best = Destination(CpuScan)
       IN  result' = [stop |-> best.stop, arrival |-> best.arrival,
                      legs |-> IF query.plan /\ best.stop # 0 /\ best.arrival # Inf
                               THEN PlanLegs(best.stop) ELSE <<>>,
                      exit |-> IF query.verify /\ ~mirrored THEN 2 ELSE 0]
    /\ kernel' = "reported"
    /\ UNCHANGED <<query, trips, iteration, round, base, state, pred, thread>>

Done == kernel = "reported" /\ UNCHANGED gpuVars

GpuNext ==
    \/ \E i \in DOMAIN thread : Confirm(i) \/ StoreField(i)
    \/ \E i \in trips : RideOn(i)
    \/ \E s, t \in Stops : WalkOn(s, t)
    \/ TripsDone \/ RoundDone \/ Report \/ Done

GpuSpec == GpuInit /\ [][GpuNext]_gpuVars

-----------------------------------------------------------------------------
(***************************************************************************)
(* What the labels must be.                                                *)
(***************************************************************************)
\* One kernel in one step: the least of the label and of all candidates.  A trip
\* can be boarded at any stop that the round before has reached with a ride
\* less, and leads from there to every later stop.
Boardable(i, a, from, r) ==
    /\ CanBoard(from[Timetable[i][a].stop], Timetable[i][a].departure)
    /\ RidesOf(from[Timetable[i][a].stop]) = r

RideTo(i, b, from, r) ==
    \E a \in 1..(b - 1) :
        Boardable(i, a, from, r) /\ Timetable[i][a].departure <= Timetable[i][b].arrival

RidesFrom(i, from, r) ==
    {<<Timetable[i][b].stop, Packed(Timetable[i][b].arrival, r + 1)>> :
        b \in {b \in DOMAIN Timetable[i] : RideTo(i, b, from, r)}}

WalksFrom(s, from) ==
    IF Arrival(from[s]) = Inf \/ RidesOf(from[s]) >= MaxRounds THEN {}
    ELSE {<<t, Packed(Arrival(from[s]) + Walk[<<s, t>>], RidesOf(from[s]))>> : t \in WalkTargets(s)}

Least(from, found) ==
    [s \in Stops |-> Min({from[s]} \cup {c[2] : c \in {c \in found : c[1] = s}})]

Ridden(from, r) == Least(from, UNION {RidesFrom(i, from, r) : i \in trips})
Walked(from) == Least(from, UNION {WalksFrom(s, from) : s \in Stops})

\* The labels after r rounds.
After[r \in 0..MaxRounds] ==
    IF r = 0 THEN OriginState ELSE Walked(Ridden(After[r - 1], r - 1))

\* However the threads of the kernels are interleaved, and in every iteration,
\* the labels are the least that the rounds can give: the answer does not
\* depend on the schedule.  Nor is a ride missed because a trip is boarded
\* only once, at its earliest departure.
ScheduleFree == kernel = "reported" => state = After[MaxRounds]

\* The labels that can be had with n rides and walks: from the origin, on by a
\* ride that leaves BoardSlack to board, or on by a walk.
Known(s, arrival, rides) == [stop |-> s, arrival |-> arrival, rides |-> rides]

WalksOn(l) == {Known(t, l.arrival + Walk[<<l.stop, t>>], l.rides) : t \in WalkTargets(l.stop)}

RidesOn(l) ==
    UNION {{Known(Timetable[i][p[2]].stop, Timetable[i][p[2]].arrival, l.rides + 1) :
               p \in {p \in (DOMAIN Timetable[i]) \X (DOMAIN Timetable[i]) :
                         /\ p[1] < p[2]
                         /\ Timetable[i][p[1]].stop = l.stop
                         /\ l.arrival + BoardSlack <= Timetable[i][p[1]].departure
                         /\ Timetable[i][p[1]].departure <= Timetable[i][p[2]].arrival}} : i \in trips}

Journeyed[n \in 0..(2 * MaxRounds)] ==
    IF n = 0
    THEN {Known(s, Depart + Access[s], 0) : s \in DOMAIN Access}
    ELSE LET known == Journeyed[n - 1]
         IN  known \cup UNION {WalksOn(l) \cup RidesOn(l) : l \in {l \in known : l.rides < MaxRounds}}

\* Every label of the answer is real: a journey from the origin, with as many
\* rides and a walk after each of them at most, arrives at the stop when the
\* label says.
LabelsAreReal ==
    kernel = "reported" =>
        LET real == Journeyed[2 * MaxRounds]
        IN  \A s \in Stops : Arrival(state[s]) # Inf =>
               Known(s, Arrival(state[s]), RidesOf(state[s])) \in real

\* The tool is documented to run with CPU verification, --verify to run the CPU
\* mirror of the search.  So a verified query agrees with the mirror.
MirrorAgrees == kernel = "reported" => result.exit = 0

\* The predecessor data that are stored are those of winning relaxations.  So
\* the last leg of a plan arrives when the label of its stop says.
PlanIsTheWinners ==
    kernel = "reported" /\ result.legs # <<>> =>
        result.legs[Len(result.legs)].arrival = Arrival(state[result.stop])
=============================================================================
