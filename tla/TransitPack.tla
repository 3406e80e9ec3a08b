---------------------------- MODULE TransitPack ----------------------------
(***************************************************************************)
(* The transit section of a route pack as rte-route (rte_route.c) and the  *)
(* GPU tools (rte_to_rtegpu.cpp, rte_gpu_route.cu) read it: stops, walks   *)
(* between them, trips with their stop events and the calendar of their    *)
(* services.                                                               *)
(*                                                                         *)
(* Geometry is left out: a walk is the seconds walking_seconds_for_meters  *)
(* makes of a distance within the limit, and no walk where it is beyond.   *)
(***************************************************************************)
EXTENDS Integers, FiniteSets, Sequences, FiniteSetsExt

CONSTANTS
    Stops,      \* stop indices
    Inf,        \* RTE_TRANSIT_INF_TIME: later than every time of a query
    Access,     \* seconds to the stops within the access walk of the origin
    Egress,     \* seconds from the stops within the egress walk of the destination
    Walk,       \* Walk[<<s, t>>]: seconds between stops within a transfer walk
    Services,   \* Services[i]: calendar of the service of trip i
    MaxRounds   \* RTE_TRANSIT_MAX_ROUNDS

ASSUME TransitPackAssumption ==
    /\ IsFiniteSet(Stops) /\ Stops \subseteq Nat
    /\ Inf \in Nat
    /\ DOMAIN Access \subseteq Stops /\ \A s \in DOMAIN Access : Access[s] \in Nat
    /\ DOMAIN Egress \subseteq Stops /\ \A s \in DOMAIN Egress : Egress[s] \in Nat
    /\ DOMAIN Walk \subseteq Stops \X Stops
    /\ \A p \in DOMAIN Walk : p[1] # p[2] /\ Walk[p] \in Nat
    /\ MaxRounds \in Nat \ {0}

\* transit_apply_transfer_walks and build_transfer_csr: the stops of the
\* surrounding cells of the grid that are near enough.
WalkTargets(s) == {t \in Stops : <<s, t>> \in DOMAIN Walk}

(***************************************************************************)
(* A service runs from start to end on its days of the week; the first of  *)
(* its exceptions for a date overrules that (type 1 adds, 2 removes).      *)
(***************************************************************************)
Weekday(date) == (date - 1) % 7

ServiceActive(service, date) ==
    LET for == {i \in DOMAIN service.exceptions : service.exceptions[i].date = date}
    IN  IF for # {}
        THEN service.exceptions[Min(for)].type = 1
        ELSE /\ service.start # 0 /\ service.end # 0
             /\ date \in service.start..service.end
             /\ Weekday(date) \in service.days

ActiveTrips(timetable, date) ==
    {i \in DOMAIN timetable : ServiceActive(Services[i], date)}

\* transit_finish_score: the last walk counts twice.
Score(arrival, s) == arrival + 2 * Egress[s]
=============================================================================
