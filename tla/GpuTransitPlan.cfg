\* Queries with a plan in which two trips race for the label of one stop.
SPECIFICATION GpuSpec
CONSTANTS
    Queries <- RaceQueries
    Stops <- MCStops
    Inf = 100
    Access <- MCAccess
    Egress <- MCEgress
    Walk <- MCWalk
    Services <- MCServices
    MaxRounds = 2
    Depart = 0
    BoardSlack = 2
    Iterations = 1
INVARIANTS PlanIsTheWinners
