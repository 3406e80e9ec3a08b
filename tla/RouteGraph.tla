----------------------------- MODULE RouteGraph -----------------------------
(***************************************************************************)
(* How src/src/tools/rte_route.c loads the walking graph of a query from   *)
(* the tiles of a route pack: the tiles around both ends are found in the  *)
(* directory, their nodes are merged by coordinate in a hash table, and    *)
(* their edges are linked into the list of their first node.               *)
(*                                                                         *)
(* A coordinate is an element of Coords; Hash and Away stand for the hash  *)
(* of a coordinate pair and for direct_distance_m.  A payload has passed   *)
(* the checks of its directory of sections.  Local nodes count from 1 and  *)
(* offsets, as in the file, from 0.                                        *)
(***************************************************************************)
EXTENDS RouteSearch, SequencesExt

CONSTANTS Coords, Hash, Away,
          TileBias, TileBase,   \* 0x10000000 and 2^29 of route_tile_id
          SlotChunk             \* first capacity of the hash table

ASSUME RouteGraphAssumption ==
    /\ Hash \in [Coords -> Nat]
    /\ Away \in [Coords \X Coords -> Nat]
    /\ TileBias \in Nat /\ TileBase \in Nat \ {0}
    /\ SlotChunk \in Nat \ {0}

VARIABLES
    directory,      \* the tile records with their payloads, by ascending tile id
    coords,         \* graph->nodes: the coordinate of every node
    slots,          \* graph->slots: a node or 0, from 0 to the capacity less one
    todo,           \* the tiles of the neighbourhood not loaded yet, as <<x, y>>
    tile,           \* the directory index of the tile being loaded, or 0
    toGlobal,       \* local_to_global
    linked,         \* how many of its nodes have got their edges
    tilesLoaded

loadVars == <<directory, coords, slots, todo, tile, toGlobal, linked, tilesLoaded>>

TileRecord ==
    [id : Nat, nodes : Seq(Coords), offsets : Seq(Nat), edges : Seq([to : Nat \ {0}, meters : Nat])]

\* A pack as pbf-to-rte writes it: find_tile_by_id relies on the order of the ids.
PackShape(pack) ==
    /\ pack \in Seq(TileRecord)
    /\ \A t \in DOMAIN pack : Len(pack[t].offsets) = Len(pack[t].nodes) + 1
    /\ \A t, u \in DOMAIN pack : t < u => pack[t].id < pack[u].id

TileId(x, y) == LET code(i) == IF i + TileBias < 0 THEN 0 ELSE i + TileBias
                IN  code(x) * TileBase + code(y)

\* find_tile_by_id: the index of the tile, or 0.
FindTile(id) ==
    LET find[between \in (0..Len(directory)) \X (0..Len(directory))] ==
            LET low == between[1]
                high == between[2]
                mid == low + ((high - low) \div 2)
            IN  IF low >= high THEN 0
                ELSE IF directory[mid + 1].id = id THEN mid + 1
                ELSE IF directory[mid + 1].id < id THEN find[<<mid + 1, high>>]
                ELSE find[<<low, mid>>]
    IN  find[<<0, Len(directory)>>]

\* The tiles of the box around both ends and one more on every side, row by row.
Neighborhood(from, to) ==
    LET low(i) == Min({from[i], to[i]}) - 1
        wide(i) == Max({from[i], to[i]}) + 2 - low(i)
    IN  [k \in 1..(wide(1) * wide(2)) |->
            <<low(1) + ((k - 1) % wide(1)), low(2) + ((k - 1) \div wide(1))>>]

LoadIdle ==
    /\ coords = <<>> /\ slots = <<>> /\ todo = <<>>
    /\ tile = 0 /\ toGlobal = <<>> /\ linked = 0 /\ tilesLoaded = 0

StartLoad(from, to) ==
    /\ todo' = Neighborhood(from, to)
    /\ UNCHANGED <<directory, coords, slots, tile, toGlobal, linked, tilesLoaded>>

Payload == directory[tile]

\* Nothing to load: no such tile, or no graph in it.
Empty(record) == record.nodes = <<>> \/ record.edges = <<>>

OpenTile ==
    /\ tile = 0 /\ todo # <<>>
    /\ LET found == FindTile(TileId(Head(todo)[1], Head(todo)[2]))
           loads == found # 0 /\ ~Empty(directory[found])
       IN  /\ tile' = IF loads THEN found ELSE 0
           /\ tilesLoaded' = IF found # 0 THEN tilesLoaded + 1 ELSE tilesLoaded
    /\ todo' = Tail(todo)
    /\ toGlobal' = <<>>
    /\ linked' = 0
    /\ UNCHANGED <<graphVars, directory, coords, slots>>

-----------------------------------------------------------------------------
(***************************************************************************)
(* graph_node_for_coord: linear probing in a table that doubles before it  *)
(* would be half full.                                                     *)
(***************************************************************************)
SlotForUnprobed(table, c) == Hash[c] % Cardinality(DOMAIN table)

SlotFor(table, c) ==
    LET size == Cardinality(DOMAIN table)
        probe(k) == (Hash[c] + k) % size
        ends == {k \in 0..(size - 1) :
                    table[probe(k)] = 0 \/ coords[table[probe(k)]] = c}
    IN  probe(Min(ends))

Rehashed(size) ==
    LET table[n \in 0..Len(coords)] ==
            IF n = 0 THEN [s \in 0..(size - 1) |-> 0]
            ELSE LET probe(k) == (Hash[coords[n]] + k) % size
                     open == {k \in 0..(size - 1) : table[n - 1][probe(k)] = 0}
                 IN  [table[n - 1] EXCEPT ![probe(Min(open))] = n]
    IN  table[Len(coords)]

RoomyTable ==
    LET size == Cardinality(DOMAIN slots)
    IN  IF size = 0 THEN Rehashed(SlotChunk)
        ELSE IF (Len(coords) + 1) * 2 >= size THEN Rehashed(2 * size)
        ELSE slots

LoadNode ==
    /\ tile # 0 /\ Len(toGlobal) < Len(Payload.nodes)
    /\ LET c == Payload.nodes[Len(toGlobal) + 1]
           slot == SlotFor(RoomyTable, c)
           known == RoomyTable[slot]
       IN  IF known # 0
           THEN /\ slots' = RoomyTable
                /\ toGlobal' = Append(toGlobal, known)
                /\ UNCHANGED <<coords, out>>
           ELSE /\ slots' = [RoomyTable EXCEPT ![slot] = Len(coords) + 1]
                /\ coords' = Append(coords, c)
                /\ out' = Append(out, <<>>)
                /\ toGlobal' = Append(toGlobal, Len(coords) + 1)
    /\ UNCHANGED <<source, target, directory, todo, tile, linked, tilesLoaded>>

-----------------------------------------------------------------------------
(***************************************************************************)
(* The edges of the next node of the tile.  One to no node of the tile and *)
(* a loop are left out, an edge of no length gets one metre, and a newer   *)
(* edge stands before an older one.                                        *)
(***************************************************************************)
Linked(list, edge) ==
    IF edge.to > Len(toGlobal) \/ toGlobal[edge.to] = toGlobal[linked + 1] THEN list
    ELSE <<[to |-> toGlobal[edge.to], meters |-> IF edge.meters = 0 THEN 1 ELSE edge.meters]>> \o list

Begin == Payload.offsets[linked + 1]
End == Payload.offsets[linked + 2]

LinkEdges ==
    /\ tile # 0 /\ Len(toGlobal) = Len(Payload.nodes) /\ linked < Len(toGlobal)
    /\ Begin <= End /\ End <= Len(Payload.edges)
    /\ LET n == toGlobal[linked + 1]
           list[e \in Begin..End] ==
               IF e = Begin THEN out[n] ELSE Linked(list[e - 1], Payload.edges[e])
       IN  out' = [out EXCEPT ![n] = list[End]]
    /\ linked' = linked + 1
    /\ UNCHANGED <<source, target, directory, coords, slots, todo, tile, toGlobal, tilesLoaded>>

CloseTile ==
    /\ tile # 0 /\ Len(toGlobal) = Len(Payload.nodes) /\ linked = Len(toGlobal)
    /\ tile' = 0
    /\ UNCHANGED <<graphVars, directory, coords, slots, todo, toGlobal, linked, tilesLoaded>>

\* Offsets that run backwards or past the edges, or no memory for a buffer.
LoadFails ==
    /\ tile # 0
    /\ \/ SearchFaults
       \/ /\ Len(toGlobal) = Len(Payload.nodes) /\ linked < Len(toGlobal)
          /\ (Begin > End \/ End > Len(Payload.edges))

Loaded == tile = 0 /\ todo = <<>>

LoadStep == OpenTile \/ LoadNode \/ LinkEdges \/ CloseTile

\* nearest_graph_node: the first of the nearest.
Nearest(c) ==
    CHOOSE n \in DOMAIN coords : \A k \in DOMAIN coords :
        \/ Away[<<c, coords[n]>>] < Away[<<c, coords[k]>>]
        \/ Away[<<c, coords[n]>>] = Away[<<c, coords[k]>>] /\ n <= k
=============================================================================
