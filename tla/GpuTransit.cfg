\* Three trips on five stops without a plan, two with one, on two days; every
\* query is computed twice on the same device.
SPECIFICATION GpuSpec
CONSTANTS
    Queries <- MCQueries
    Stops <- MCStops
    Inf = 100
    Access <- MCAccess
    Egress <- MCEgress
    Walk <- MCWalk
    Services <- MCServices
    MaxRounds = 3
    Depart = 0
    BoardSlack = 2
    Iterations = 2
INVARIANTS ScheduleFree LabelsAreReal
