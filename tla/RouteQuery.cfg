\* Packs of up to four tiles with six edges of chosen lengths, all ends, and
\* timetables on four stops; memory may run out.
SPECIFICATION Spec
CONSTANTS
    HeapChunk = 2
    SearchFaults = TRUE
    Coords <- MCCoords
    Hash <- MCHash
    Away <- MCAway
    TileBias = 4
    TileBase = 16
    SlotChunk = 2
    Stops <- MCStops
    Inf = 100
    Access <- MCAccess
    Egress <- MCEgress
    Walk <- MCWalk
    Services <- MCServices
    MaxRounds = 3
    Depart = 0
    Deadline = 15
    MaxPlanLegs = 4
    Queries <- MCQueries
    TileOf <- MCTileOf
    GroupMeters = 3
INVARIANTS RouteIsShortest PathIsWalk NothingNearer DirectionsLeadThere PlanRidable NoBetterJourney
