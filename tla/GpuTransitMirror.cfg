\* Verified queries in which a ride and two walks arrive at one stop together.
SPECIFICATION GpuSpec
CONSTANTS
    Queries <- TiedQueries
    Stops <- MCStops
    Inf = 100
    Access <- MCAccess
    Egress <- MCEgress
    Walk <- MCWalk
    Services <- MCServices
    MaxRounds = 3
    Depart = 0
    BoardSlack = 2
    Iterations = 1
INVARIANTS MirrorAgrees
