\* Timetables that were announced as unavailable and are planned with all the same.
SPECIFICATION Spec
CONSTANTS
    HeapChunk = 2
    SearchFaults = TRUE
    Coords <- MCCoords
    Hash <- MCHash
    Away <- MCAway
    TileBias = 4
    TileBase = 16
    SlotChunk = 2
    Stops <- MCStops
    Inf = 100
    Access <- MCAccess
    Egress <- MCEgress
    Walk <- MCWalk
    Services <- MCServices
    MaxRounds = 3
    Depart = 0
    Deadline = 15
    MaxPlanLegs = 4
    Queries <- MCUnreadQueries
    TileOf <- MCTileOf
    GroupMeters = 3
INVARIANT UnreadMeansNone
