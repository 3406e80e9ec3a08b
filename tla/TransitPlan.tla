---------------------------- MODULE TransitPlan ----------------------------
(***************************************************************************)
(* evaluate_transit_plan of src/src/tools/rte_route.c.  A departure query  *)
(* scans all stop events of the pack in rounds, one vehicle ride a round,  *)
(* and walks from the stops a round has changed; the plan is read back     *)
(* from the labels, which later rounds have gone on to overwrite.  An      *)
(* arrival query scans the events once for a single ride.                  *)
(***************************************************************************)
EXTENDS TransitPack, Integers

CONSTANTS
    Depart,         \* departure time of a departure query
    Deadline,       \* arrival time of an arrival query
    MaxPlanLegs     \* RTE_TRANSIT_MAX_PLAN_LEGS

ASSUME TransitPlanAssumption ==
    /\ Depart \in Nat /\ Deadline \in Nat /\ MaxPlanLegs \in Nat
    /\ \A s \in DOMAIN Access : Depart + Access[s] < Inf

VARIABLES
    timetable,  \* timetable[i]: the stop events of trip i, in sequence
    trips,      \* the trips that run on the day of the query
    pc,
    round,
    trip, event,    \* the event the scan is at
    board,          \* where and when the scan has boarded the trip, or NoBoard
    base,           \* the labels at the start of the round
    label,          \* arrival, rides_used and states of every stop
    changed,        \* changed_stops
    plan

transitVars == <<timetable, trips, pc, round, trip, event, board, base, label, changed, plan>>

NoBoard == [stop |-> 0, departure |-> 0, at |-> 0, rides |-> 0]
NoPlan == [found |-> FALSE, legs |-> <<>>, total |-> 0]

Unreached == [arrival |-> Inf, rides |-> 0, kind |-> "none", from |-> 0, trip |-> 0,
              departure |-> 0]

\* The walks from the origin.
OriginLabel(s) ==
    IF s \in DOMAIN Access
    THEN [Unreached EXCEPT !.arrival = Depart + Access[s], !.kind = "origin",
                           !.departure = Depart]
    ELSE Unreached

\* Before evaluate_transit_plan, and how it starts: with no memory for its
\* arrays it returns the empty plan.
TransitIdle ==
    /\ pc = "idle"
    /\ round = 0
    /\ trip = 1
    /\ event = 1
    /\ board = NoBoard
    /\ label = [s \in Stops |-> OriginLabel(s)]
    /\ base = label
    /\ changed = <<>>
    /\ plan = NoPlan

StartTransit(when, memory) ==
    /\ pc = "idle"
    /\ pc' = IF timetable = <<>> THEN "planned"
             ELSE IF when = "arrive" THEN "arrive"
             ELSE IF memory THEN "scan" ELSE "planned"
    /\ UNCHANGED <<timetable, trips, round, trip, event, board, base, label, changed, plan>>

-----------------------------------------------------------------------------
(***************************************************************************)
(* A round of a departure query.                                           *)
(***************************************************************************)
Event == timetable[trip][event]

TripsDone == trip > Len(timetable)
TripDone == event > Len(timetable[trip])

\* Leaves the vehicle where that is earlier than what is known so far ...
Alights ==
    /\ board # NoBoard
    /\ event > board.at
    /\ Event.arrival >= board.departure
    /\ Event.arrival < label[Event.stop].arrival

\* ... and boards at the first stop the last round has reached in time.
BoardsTooLate(known) ==
    /\ known[Event.stop].arrival # Inf
    /\ known[Event.stop].rides = round
    /\ board = NoBoard \/ event < board.at

Boards(known) ==
    /\ known[Event.stop].arrival # Inf
    /\ known[Event.stop].arrival <= Event.departure
    /\ known[Event.stop].rides = round
    /\ board = NoBoard \/ event < board.at

ScanWith(known) ==
    /\ pc = "scan" /\ ~TripsDone /\ ~TripDone
    /\ trip \in trips
    /\ label' = IF Alights
                THEN [label EXCEPT ![Event.stop] =
                        [arrival |-> Event.arrival, rides |-> board.rides, kind |-> "vehicle",
                         from |-> board.stop, trip |-> trip, departure |-> board.departure]]
                ELSE label
    /\ changed' = IF Alights /\ Event.stop \notin {changed[i] : i \in DOMAIN changed}
                  THEN Append(changed, Event.stop)
                  ELSE changed
    /\ board' = IF Boards(known)
                THEN [stop |-> Event.stop, departure |-> Event.departure, at |-> event,
                      rides |-> round + 1]
                ELSE board
    /\ event' = event + 1
    /\ UNCHANGED <<timetable, trips, pc, round, trip, base, plan>>

ScanEvent == ScanWith(base)

\* The next trip of the scan, or none of this one's events: it does not run.
NextTrip ==
    /\ pc = "scan" /\ ~TripsDone
    /\ TripDone \/ trip \notin trips
    /\ trip' = trip + 1
    /\ event' = 1
    /\ board' = NoBoard
    /\ UNCHANGED <<timetable, trips, pc, round, base, label, changed, plan>>

EndOfScan ==
    /\ pc = "scan" /\ TripsDone
    /\ pc' = IF changed = <<>> THEN "build" ELSE "walk"
    /\ UNCHANGED <<timetable, trips, round, trip, event, board, base, label, changed, plan>>

\* The walks from one changed stop, as transit_apply_transfer_walks takes them
\* in turn: what an earlier one has improved is where a later one starts.
TransferWalk ==
    /\ pc = "walk" /\ changed # <<>>
    /\ LET s == Head(changed)
           better == {t \in WalkTargets(s) : label[s].arrival + Walk[<<s, t>>] < label[t].arrival}
       IN  label' = [t \in Stops |->
                IF t \in better
                THEN [arrival |-> label[s].arrival + Walk[<<s, t>>], rides |-> label[s].rides,
                      kind |-> "walk", from |-> s, trip |-> 0, departure |-> label[s].arrival]
                ELSE label[t]]
    /\ changed' = Tail(changed)
    /\ UNCHANGED <<timetable, trips, pc, round, trip, event, board, base, plan>>

NextRoundOnOldLabels ==
    /\ pc = "walk" /\ changed = <<>>
    /\ round' = round + 1
    /\ pc' = IF round + 1 < MaxRounds THEN "scan" ELSE "build"
    /\ trip' = 1
    /\ event' = 1
    /\ board' = NoBoard
    /\ UNCHANGED <<timetable, trips, base, label, changed, plan>>

NextRound ==
    /\ pc = "walk" /\ changed = <<>>
    /\ round' = round + 1
    /\ pc' = IF round + 1 < MaxRounds THEN "scan" ELSE "build"
    /\ trip' = 1
    /\ event' = 1
    /\ board' = NoBoard
    /\ base' = label
    /\ UNCHANGED <<timetable, trips, label, changed, plan>>

-----------------------------------------------------------------------------
(***************************************************************************)
(* transit_build_plan_from_arrivals.                                       *)
(***************************************************************************)
Goals == {s \in DOMAIN Egress : label[s].rides > 0 /\ label[s].arrival # Inf}

\* The first stop of the least score, then of the least arrival.
BetterGoal(s, t) ==
    \/ Score(label[s].arrival, s) < Score(label[t].arrival, t)
    \/ /\ Score(label[s].arrival, s) = Score(label[t].arrival, t)
       /\ \/ label[s].arrival + Egress[s] < label[t].arrival + Egress[t]
          \/ label[s].arrival + Egress[s] = label[t].arrival + Egress[t] /\ s < t

BestGoal == CHOOSE s \in Goals : \A t \in Goals \ {s} : BetterGoal(s, t)

LegTo(s) ==
    [kind |-> label[s].kind, trip |-> label[s].trip, board |-> label[s].from, alight |-> s,
     departure |-> label[s].departure, arrival |-> label[s].arrival]

\* The legs of the last n labels of the chain that ends at s.
LegsTo(s) ==
    LET chain[n \in 0..Cardinality(Stops)] ==
            IF n = 0
            THEN [at |-> s, legs |-> <<>>]
            ELSE LET c == chain[n - 1]
                 IN  IF label[c.at].kind \in {"vehicle", "walk"}
                     THEN [at |-> label[c.at].from, legs |-> <<LegTo(c.at)>> \o c.legs]
                     ELSE c
    IN  chain[Cardinality(Stops)].legs

BuildPlan ==
    /\ pc = "build"
    /\ plan' = IF Goals = {} \/ Len(LegsTo(BestGoal)) \notin 1..MaxPlanLegs
               THEN NoPlan
               ELSE [found |-> TRUE, legs |-> LegsTo(BestGoal),
                     total |-> label[BestGoal].arrival + Egress[BestGoal] - Depart]
    /\ pc' = "planned"
    /\ UNCHANGED <<timetable, trips, round, trip, event, board, base, label, changed>>

-----------------------------------------------------------------------------
(***************************************************************************)
(* An arrival query: of every trip the last stop that can be reached from  *)
(* the origin is boarded, and the latest start from the origin is kept.    *)
(***************************************************************************)
StartFor(b) == b.departure - Access[b.stop]

ArriveAlights ==
    /\ board # NoBoard
    /\ event > board.at
    /\ Event.stop \in DOMAIN Egress
    /\ Event.arrival >= board.departure
    /\ Event.arrival + Egress[Event.stop] <= Deadline
    /\ plan.found => StartFor(board) > Deadline - plan.total

ArriveTakes(b) ==
    [found |-> TRUE, total |-> Deadline - StartFor(b),
     legs |-> <<[kind |-> "vehicle", trip |-> trip, board |-> b.stop, alight |-> Event.stop,
                 departure |-> b.departure, arrival |-> Event.arrival]>>]

ArriveEvent ==
    /\ pc = "arrive" /\ ~TripsDone /\ ~TripDone
    /\ trip \in trips
    /\ IF Event.stop \in DOMAIN Access /\ Event.departure >= Access[Event.stop]
       THEN /\ board' = [stop |-> Event.stop, departure |-> Event.departure, at |-> event,
                         rides |-> 1]
            /\ plan' = plan
       ELSE /\ board' = board
            /\ plan' = IF ArriveAlights THEN ArriveTakes(board) ELSE plan
    /\ event' = event + 1
    /\ UNCHANGED <<timetable, trips, pc, round, trip, base, label, changed>>

ArriveNextTrip ==
    /\ pc = "arrive" /\ ~TripsDone
    /\ TripDone \/ trip \notin trips
    /\ trip' = trip + 1
    /\ event' = 1
    /\ board' = NoBoard
    /\ UNCHANGED <<timetable, trips, pc, round, base, label, changed, plan>>

ArriveDone ==
    /\ pc = "arrive" /\ TripsDone
    /\ pc' = "planned"
    /\ UNCHANGED <<timetable, trips, round, trip, event, board, base, label, changed, plan>>

TransitStep ==
    \/ ScanEvent \/ NextTrip \/ EndOfScan \/ TransferWalk \/ NextRound \/ BuildPlan
    \/ ArriveEvent \/ ArriveNextTrip \/ ArriveDone
=============================================================================
