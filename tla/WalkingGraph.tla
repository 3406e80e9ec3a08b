---------------------------- MODULE WalkingGraph ----------------------------
(***************************************************************************)
(* How src/src/tools/pbf_to_rte.c builds the walking graph of every tile.  *)
(* The PBF is streamed four times: the nodes that walkable ways refer to   *)
(* are collected, their coordinates resolved to tiles, the segments of     *)
(* every tile counted, and the segments stored, grouped by tile.  Then     *)
(* threads share the tiles out and build one graph per tile in arrays that *)
(* were sized from the counts.                                             *)
(*                                                                         *)
(* A map says which ways there are and in which tile each node lies.       *)
(* Left out: coordinates and lengths, progress output, the saturation of   *)
(* counters at 2^32 - 1.  The hash tables are modelled by what a lookup    *)
(* finds and by when they grow.                                            *)
(***************************************************************************)
EXTENDS Integers, SequencesExt

CONSTANTS Maps,         \* the inputs: ways, and the tile of each node
          TileCount,    \* tiles->count; a tile is its index in the store
          ThreadCount,  \* thread_count
          Faults        \* what may fail: "read", "memory", "thread"

Tiles == 0..(TileCount - 1)
NoTile == -1       \* of a node the PBF does not have
NoIndex == -1      \* graph_index 0xffffffff

\* Never more threads than tiles, and at least one.
Workers == 1..(IF ThreadCount = 0 THEN 1 ELSE IF ThreadCount > TileCount THEN TileCount ELSE ThreadCount)

ASSUME WalkingAssumption ==
    /\ TileCount \in Nat \ {0} /\ ThreadCount \in Nat
    /\ Faults \subseteq {"read", "memory", "thread"}
    /\ \A map \in Maps :
          /\ map.ways \in Seq([walkable : BOOLEAN, refs : Seq(DOMAIN map.home)])
          /\ \A n \in DOMAIN map.home : map.home[n] \in Tiles \cup {NoTile}

VARIABLES
    map,        \* the input
    coords,     \* the nodes of coords.items, in order
    coordTile,  \* coord->tile, by node
    graphIndex, \* coord->graph_index, by node
    count, offset, cursor,          \* graph_segment_*, by tile
    capacity, segmentCount, items,  \* the RoutePackTileSegmentStore
    graph,      \* tile->graph, by tile
    nextTile, failed,               \* the shared part of the build context
    place, tile, segment, leftIndex, \* each thread of the build
    phase, at,  \* where the main thread is, at which segment or tile
    started, joined, result,
    payload,    \* what is written of each tile
    trouble     \* history: something in Faults has happened

inputVars == <<map, coords, coordTile>>
storeVars == <<count, offset, cursor, capacity, segmentCount, items>>
graphVars == <<graph, graphIndex>>
sharedVars == <<nextTile, failed>>
workerVars == <<place, tile, segment, leftIndex>>
threadVars == <<started, joined>>
mainVars == <<phase, at, started, joined, result, payload, trouble>>
buildVars == <<graphVars, sharedVars, workerVars>>
vars == <<inputVars, storeVars, buildVars, mainVars>>

WorkerPlaces == {"idle", "test", "claim", "begin", "left", "right", "ended", "gaveup"}
MainPlaces == {"collect", "resolve", "count", "layout", "fill", "pools", "start", "join",
               "write", "done"}

-----------------------------------------------------------------------------
(***************************************************************************)
(* The segments of a map, in the order the callbacks meet them.            *)
(***************************************************************************)
Pairs(refs) == [i \in 1..(Len(refs) - 1) |-> <<refs[i], refs[i + 1]>>]

Walkable(w) == w.walkable

\* The elements of s at some of its indices, in their order.
Picked(s, indices) ==
    [k \in 1..Cardinality(indices) |->
        s[CHOOSE i \in indices : Cardinality({j \in indices : j <= i}) = k]]

WalkableRefs == LET ways == Picked(map.ways, {i \in DOMAIN map.ways : Walkable(map.ways[i])})
                IN  [i \in DOMAIN ways |-> ways[i].refs]

Segments == FlattenSeq([i \in DOMAIN WalkableRefs |-> Pairs(WalkableRefs[i])])

\* Nodes in the order a walk_coord store meets them first.
FirstMet(nodes) ==
    Picked(nodes, {i \in DOMAIN nodes : \A j \in 1..(i - 1) : nodes[j] # nodes[i]})

TilesOfLeft(pair) == {coordTile[pair[1]]} \ {NoTile}

\* The tiles that get a segment: of its left node, then of its right node,
\* none of a segment with an unresolved end.
TilesOf(pair) ==
    LET l == coordTile[pair[1]]
        r == coordTile[pair[2]]
    IN  IF l = NoTile \/ r = NoTile THEN {} ELSE {l, r}

Powers == {2^k : k \in 0..30} \cap Nat

\* next_power_of_two_u32: beyond the last power it returns its argument.
NextPowerOfTwo(n) ==
    IF \E p \in Powers : n <= p /\ p < 2 * n
    THEN CHOOSE p \in Powers : n <= p /\ p < 2 * n
    ELSE n

SlotCapacityUnpadded(nodes) == NextPowerOfTwo(nodes)
SlotCapacity(nodes) == NextPowerOfTwo(nodes * 2 + 2)

NoGraph == [nodes |-> <<>>, edges |-> <<>>, nodeCapacity |-> 0, slotCapacity |-> 0,
            edgeCapacity |-> 0, pooled |-> FALSE]

NoPayload == [offsets |-> <<>>, targets |-> <<>>]

Init ==
    /\ map \in Maps
    /\ coords = <<>>
    /\ coordTile = [n \in DOMAIN map.home |-> NoTile]
    /\ graphIndex = [n \in DOMAIN map.home |-> NoIndex]
    /\ count = [t \in Tiles |-> 0] /\ offset = count /\ cursor = count
    /\ capacity = 0 /\ segmentCount = 0 /\ items = <<>>
    /\ graph = [t \in Tiles |-> NoGraph]
    /\ nextTile = 0 /\ failed = FALSE
    /\ place = [w \in Workers |-> "idle"]
    /\ tile = [w \in Workers |-> 0]
    /\ segment = [w \in Workers |-> 0]
    /\ leftIndex = [w \in Workers |-> 0]
    /\ phase = "collect" /\ at = 1
    /\ started = 0 /\ joined = 0 /\ result = 0
    /\ payload = [t \in Tiles |-> NoPayload]
    /\ trouble = FALSE

-----------------------------------------------------------------------------
(***************************************************************************)
(* The four passes over the PBF.                                           *)
(***************************************************************************)
MainAt(p) == phase = p
MainGoes(p) == phase' = p /\ UNCHANGED <<started, joined, result, payload, trouble>>

\* The call ends with -1 when the stream or an allocation fails.
Fails(kinds) ==
    /\ kinds \cap Faults # {}
    /\ trouble' = TRUE /\ result' = -1 /\ phase' = "done"
    /\ UNCHANGED <<at, started, joined, payload, inputVars, storeVars, buildVars>>

CollectRefs ==
    /\ MainAt("collect")
    /\ \/ /\ coords' = FirstMet(FlattenSeq(WalkableRefs))
          /\ MainGoes("resolve")
          /\ UNCHANGED <<at, map, coordTile, storeVars, buildVars>>
       \/ Fails({"read", "memory"})

\* Nodes the PBF does not have keep no tile.
ResolveCoords ==
    /\ MainAt("resolve")
    /\ \/ /\ coordTile' = [n \in DOMAIN map.home |-> IF n \in Range(coords) THEN map.home[n] ELSE NoTile]
          /\ MainGoes("count")
          /\ UNCHANGED <<at, map, coords, storeVars, buildVars>>
       \/ Fails({"read"})

CountSegment ==
    /\ MainAt("count") /\ at <= Len(Segments)
    /\ \/ /\ count' = [t \in Tiles |-> IF t \in TilesOf(Segments[at]) THEN count[t] + 1 ELSE count[t]]
          /\ at' = at + 1
          /\ MainGoes("count")
          /\ UNCHANGED <<inputVars, offset, cursor, capacity, segmentCount, items, buildVars>>
       \/ Fails({"read"})

\* The store is sized for all of them.
CountDone ==
    /\ MainAt("count") /\ at > Len(Segments)
    /\ \/ /\ capacity' = SumFunction(count)
          /\ at' = 0
          /\ MainGoes("layout")
          /\ UNCHANGED <<inputVars, count, offset, cursor, segmentCount, items, buildVars>>
       \/ Fails({"memory"})

\* The range of a tile begins where that of the tile before it ends.
LayoutTile ==
    /\ MainAt("layout") /\ at < TileCount
    /\ LET begin == IF at = 0 THEN 0 ELSE offset[at - 1] + count[at - 1]
       IN  /\ offset' = [offset EXCEPT ![at] = begin]
           /\ cursor' = [cursor EXCEPT ![at] = begin]
    /\ at' = at + 1
    /\ MainGoes("layout")
    /\ UNCHANGED <<inputVars, count, capacity, segmentCount, items, buildVars>>

LayoutDone ==
    /\ MainAt("layout") /\ at = TileCount
    /\ at' = 1
    /\ MainGoes("fill")
    /\ UNCHANGED <<inputVars, storeVars, buildVars>>

\* The segment goes to the cursor of each of its tiles; a full store fails the pass.
Store(pair) ==
    LET stored == {<<cursor[t], [tile |-> t, pair |-> pair]>> : t \in TilesOf(pair)}
    IN  /\ cursor' = [t \in Tiles |-> IF t \in TilesOf(pair) THEN cursor[t] + 1 ELSE cursor[t]]
        /\ segmentCount' = Max({segmentCount} \cup {cursor'[t] : t \in TilesOf(pair)})
        /\ items' = [p \in DOMAIN items \cup {s[1] : s \in stored} |->
                       IF \E s \in stored : s[1] = p
                       THEN (CHOOSE s \in stored : s[1] = p)[2]
                       ELSE items[p]]

FillSegment ==
    /\ MainAt("fill") /\ at <= Len(Segments)
    /\ \/ /\ IF \E t \in TilesOf(Segments[at]) : cursor[t] >= capacity
             THEN /\ phase' = "done" /\ result' = -1
                  /\ UNCHANGED <<at, cursor, segmentCount, items>>
             ELSE /\ Store(Segments[at])
                  /\ at' = at + 1
                  /\ UNCHANGED <<phase, result>>
          /\ UNCHANGED <<started, joined, payload, trouble, inputVars, count, offset, capacity,
                         buildVars>>
       \/ Fails({"read"})

FillDone ==
    /\ MainAt("fill") /\ at > Len(Segments)
    /\ at' = 0
    /\ MainGoes(IF segmentCount = 0 THEN "write" ELSE "pools")
    /\ UNCHANGED <<inputVars, storeVars, buildVars>>

-----------------------------------------------------------------------------
(***************************************************************************)
(* The build: pools, threads, join.                                        *)
(***************************************************************************)
Pooled(t) == [nodes |-> <<>>, edges |-> <<>>, nodeCapacity |-> 2 * count[t],
              slotCapacity |-> SlotCapacity(2 * count[t]), edgeCapacity |-> 2 * count[t],
              pooled |-> TRUE]

\* Every tile with segments gets its parts of the pools; the list of threads
\* is allocated after them.
MakePools ==
    /\ MainAt("pools")
    /\ \/ /\ graph' = [t \in Tiles |-> IF count[t] = 0 THEN graph[t] ELSE Pooled(t)]
          /\ MainGoes("start")
          /\ UNCHANGED <<at, inputVars, storeVars, graphIndex, sharedVars, workerVars>>
       \/ Fails({"memory"})

Alone == Cardinality(Workers) = 1

\* A single worker is a call, not a thread: it cannot fail to start.
StartWorker ==
    /\ MainAt("start") /\ started < Cardinality(Workers)
    /\ started' = started + 1
    /\ place' = [place EXCEPT ![started + 1] = "test"]
    /\ UNCHANGED <<phase, at, joined, result, payload, trouble, inputVars, storeVars, graphVars,
                   sharedVars, tile, segment, leftIndex>>

StartFailsCounted ==
    /\ MainAt("start") /\ started < Cardinality(Workers)
    /\ "thread" \in Faults /\ ~ Alone
    /\ failed' = TRUE /\ trouble' = TRUE /\ result' = -1 /\ phase' = "join"
    /\ started' = started + 1
    /\ UNCHANGED <<at, joined, payload, inputVars, storeVars, graphVars, nextTile, workerVars>>

StartFails ==
    /\ MainAt("start") /\ started < Cardinality(Workers)
    /\ "thread" \in Faults /\ ~ Alone
    /\ failed' = TRUE /\ trouble' = TRUE /\ result' = -1 /\ phase' = "join"
    /\ UNCHANGED <<at, started, joined, payload, inputVars, storeVars, graphVars, nextTile,
                   workerVars>>

AllStarted ==
    /\ MainAt("start") /\ started = Cardinality(Workers)
    /\ MainGoes("join")
    /\ UNCHANGED <<at, inputVars, storeVars, buildVars>>

Join ==
    /\ MainAt("join") /\ joined < started
    /\ place[joined + 1] \in {"ended", "gaveup"}
    /\ joined' = joined + 1
    /\ result' = IF place[joined + 1] = "gaveup" THEN -1 ELSE result
    /\ UNCHANGED <<phase, at, started, payload, trouble, inputVars, storeVars, buildVars>>

AllJoined ==
    /\ MainAt("join") /\ joined = started
    /\ result' = IF failed THEN -1 ELSE result
    /\ phase' = IF result' = 0 THEN "write" ELSE "done"
    /\ UNCHANGED <<at, started, joined, payload, trouble, inputVars, storeVars, buildVars>>

-----------------------------------------------------------------------------
(***************************************************************************)
(* A worker: "test" looking at failed, "claim" taking the next tile,       *)
(* "begin" clearing its graph, "left" and "right" adding the two ends of a *)
(* segment.                                                                *)
(***************************************************************************)
At(w, p) == place[w] = p
Goes(w, p) == place' = [place EXCEPT ![w] = p]

WorkerTest(w) ==
    /\ At(w, "test")
    /\ Goes(w, IF failed THEN "gaveup" ELSE "claim")
    /\ UNCHANGED <<graphVars, sharedVars, tile, segment, leftIndex>>

WorkerClaimsNextOfOwn(w) ==
    /\ At(w, "claim")
    /\ tile' = [tile EXCEPT ![w] = nextTile]
    /\ nextTile' = tile[w] + 1
    /\ Goes(w, IF nextTile >= TileCount THEN "ended" ELSE "begin")
    /\ UNCHANGED <<graphVars, failed, segment, leftIndex>>

\* fetch_add on next_tile.
WorkerClaim(w) ==
    /\ At(w, "claim")
    /\ tile' = [tile EXCEPT ![w] = nextTile]
    /\ nextTile' = nextTile + 1
    /\ Goes(w, IF nextTile >= TileCount THEN "ended" ELSE "begin")
    /\ UNCHANGED <<graphVars, failed, segment, leftIndex>>

GroupEnd(t) == offset[t] + count[t]

\* A tile without segments is passed over; a range outside the store fails.
WorkerBegin(w) ==
    /\ At(w, "begin")
    /\ LET t == tile[w]
       IN  IF count[t] = 0
           THEN Goes(w, "test") /\ UNCHANGED <<graphVars, failed, segment>>
           ELSE IF GroupEnd(t) > segmentCount
           THEN /\ failed' = TRUE
                /\ Goes(w, "gaveup")
                /\ UNCHANGED <<graphVars, segment>>
           ELSE /\ graph' = [graph EXCEPT ![t] = [@ EXCEPT !.nodes = <<>>, !.edges = <<>>]]
                /\ segment' = [segment EXCEPT ![w] = offset[t]]
                /\ Goes(w, "left")
                /\ UNCHANGED <<graphIndex, failed>>
    /\ UNCHANGED <<nextTile, tile, leftIndex>>

(***************************************************************************)
(* tile_graph_node_for_coord: the table grows when it is half full and the *)
(* node array when it is full.  Growing gives a piece of a pool to rt_free *)
(* or rt_realloc; the graph is then no longer pooled.                      *)
(***************************************************************************)
Index(g, n) == (CHOOSE i \in DOMAIN g.nodes : g.nodes[i] = n) - 1

NodeFor(g, n) ==
    LET needed == Len(g.nodes) + 1
        known == n \in Range(g.nodes)
        rehash == needed * 2 >= g.slotCapacity
        extend == ~ known /\ needed > g.nodeCapacity
    IN  [g EXCEPT !.nodes = IF known THEN @ ELSE Append(@, n),
                  !.slotCapacity = IF rehash THEN 2 * @ ELSE @,
                  !.nodeCapacity = IF extend THEN 2 * @ ELSE @,
                  !.pooled = @ /\ ~ rehash /\ ~ extend]

\* tile_graph_add_directed: no edge from a node to itself.
AddDirected(g, a, b) ==
    IF a = b THEN g
    ELSE LET extend == Len(g.edges) + 1 > g.edgeCapacity
         IN  [g EXCEPT !.edges = Append(@, <<a, b>>),
                       !.edgeCapacity = IF extend THEN 2 * @ ELSE @,
                       !.pooled = @ /\ ~ extend]

\* The index is kept with the coordinate, for the tile it lies in only.
CachedAnywhere(t, n) == graphIndex[n] # NoIndex
Cached(t, n) == coordTile[n] = t /\ graphIndex[n] # NoIndex

\* tile_graph_node_for_coord_cached: the graph after it, and the index.
GraphWith(t, n) == IF Cached(t, n) THEN graph[t] ELSE NodeFor(graph[t], n)
IndexOf(t, n) == IF Cached(t, n) THEN graphIndex[n] ELSE Index(GraphWith(t, n), n)
Remember(t, n) ==
    graphIndex' = IF coordTile[n] = t THEN [graphIndex EXCEPT ![n] = IndexOf(t, n)] ELSE graphIndex

WorkerLeft(w) ==
    /\ At(w, "left")
    /\ LET t == tile[w]
           n == items[segment[w]].pair[1]
       IN  /\ leftIndex' = [leftIndex EXCEPT ![w] = IndexOf(t, n)]
           /\ graph' = [graph EXCEPT ![t] = GraphWith(t, n)]
           /\ Remember(t, n)
    /\ Goes(w, "right")
    /\ UNCHANGED <<sharedVars, tile, segment>>

WorkerRight(w) ==
    /\ At(w, "right")
    /\ LET t == tile[w]
           n == items[segment[w]].pair[2]
           l == leftIndex[w]
           r == IndexOf(t, n)
       IN  /\ graph' = [graph EXCEPT ![t] = AddDirected(AddDirected(GraphWith(t, n), l, r), r, l)]
           /\ Remember(t, n)
           /\ segment' = [segment EXCEPT ![w] = @ + 1]
           /\ Goes(w, IF segment[w] + 1 = GroupEnd(t) THEN "test" ELSE "left")
    /\ UNCHANGED <<sharedVars, tile, leftIndex>>

Worker(w) ==
    /\ WorkerTest(w) \/ WorkerClaim(w) \/ WorkerBegin(w) \/ WorkerLeft(w) \/ WorkerRight(w)
    /\ UNCHANGED <<inputVars, storeVars, mainVars>>

-----------------------------------------------------------------------------
(***************************************************************************)
(* The graph of a tile as it is written: the edges in the order of their   *)
(* first node, and where the edges of each node begin.                     *)
(***************************************************************************)
EdgesFrom(g, i) == Picked(g.edges, {k \in DOMAIN g.edges : g.edges[k][1] = i})

OffsetsOfEnds(g) == [i \in 0..Len(g.nodes) |-> Cardinality({k \in DOMAIN g.edges : g.edges[k][1] <= i})]

Offsets(g) == [i \in 0..Len(g.nodes) |-> Cardinality({k \in DOMAIN g.edges : g.edges[k][1] < i})]

\* Every edge goes where the cursor of its first node stands, in an array with
\* room for all of them.
OrderedEdges(g) ==
    LET put(placed, e) == [cursor |-> [placed.cursor EXCEPT ![e[1]] = @ + 1],
                              edges |-> [placed.edges EXCEPT ![placed.cursor[e[1]]] = e[2]]]
        empty == [p \in 0..(Len(g.edges) - 1) |-> NoIndex]
    IN  FoldLeft(put, [cursor |-> Offsets(g), edges |-> empty], g.edges).edges

WriteTile ==
    /\ MainAt("write") /\ at < TileCount
    /\ \/ /\ payload' = [payload EXCEPT ![at] = [offsets |-> Offsets(graph[at]),
                                                   targets |-> OrderedEdges(graph[at])]]
          /\ at' = at + 1
          /\ UNCHANGED <<phase, started, joined, result, trouble, inputVars, storeVars, buildVars>>
       \/ Fails({"memory"})

WriteDone ==
    /\ MainAt("write") /\ at = TileCount
    /\ MainGoes("done")
    /\ UNCHANGED <<at, inputVars, storeVars, buildVars>>

Main ==
    \/ CollectRefs \/ ResolveCoords \/ CountSegment \/ CountDone
    \/ LayoutTile \/ LayoutDone \/ FillSegment \/ FillDone
    \/ MakePools \/ StartWorker \/ StartFails \/ AllStarted \/ Join \/ AllJoined
    \/ WriteTile \/ WriteDone

AllEnded == phase = "done" /\ \A w \in Workers : place[w] \in {"idle", "ended", "gaveup"}

Returned == AllEnded /\ UNCHANGED vars

Next == Main \/ (\E w \in Workers : Worker(w)) \/ Returned

Spec == Init /\ [][Next]_vars

\* The main thread and every started thread keep running.
FairSpec == Spec /\ WF_vars(Main) /\ \A w \in Workers : WF_vars(Worker(w))

-----------------------------------------------------------------------------
Building == {"begin", "left", "right"}

(***************************************************************************)
(* The walking graph of a tile, from the map alone: its segments are those *)
(* of walkable ways with both ends in the PBF and at least one in the      *)
(* tile; its nodes are numbered as the segments meet them; every segment   *)
(* is an edge in each direction, unless it joins a node to itself.         *)
(***************************************************************************)
TouchesTile(t, pair) ==
    /\ map.home[pair[1]] # NoTile /\ map.home[pair[2]] # NoTile
    /\ t \in {map.home[pair[1]], map.home[pair[2]]}

TileSegments(t) == Picked(Segments, {i \in DOMAIN Segments : TouchesTile(t, Segments[i])})

WalkingNodes(t) == FirstMet(FlattenSeq(TileSegments(t)))

WalkingEdges(t) ==
    LET number(n) == (CHOOSE i \in DOMAIN WalkingNodes(t) : WalkingNodes(t)[i] = n) - 1
        both(pair) == LET l == number(pair[1])
                          r == number(pair[2])
                      IN  IF l = r THEN <<>> ELSE <<<<l, r>>, <<r, l>>>>
    IN  FlattenSeq([i \in DOMAIN TileSegments(t) |-> both(TileSegments(t)[i])])

(***************************************************************************)
(* A build that succeeds gives every tile the graph of its part of the     *)
(* map, whoever built it and in whatever order: no tile is left out, none  *)
(* is built from another tile's segments, and a node number that another   *)
(* tile's thread keeps with a coordinate is never taken for one's own. And *)
(* a build fails only when something outside it did: the store is never    *)
(* full too early, and no thread gives up on a range.                      *)
(***************************************************************************)
BuildsWalkingGraph ==
    /\ phase = "write" =>
          \A t \in Tiles : graph[t].nodes = WalkingNodes(t) /\ graph[t].edges = WalkingEdges(t)
    /\ result = -1 => trouble

(***************************************************************************)
(* The arrays of a graph are pieces of pools shared by all threads, which  *)
(* rt_free and rt_realloc do not know: the sizes made from the counts are  *)
(* such that no graph ever has to grow, also while its table is fullest.   *)
(***************************************************************************)
PoolsKept ==
    phase \in {"start", "join"} => \A t \in Tiles : count[t] > 0 => graph[t].pooled

\* No two threads work on one tile, whose graph no lock protects.
OneBuilder ==
    \A v, w \in Workers :
        /\ place[v] \in Building /\ place[w] \in Building
        /\ tile[v] = tile[w]
        => v = w

(***************************************************************************)
(* The counting pass and the storing pass agree: when the threads start,   *)
(* the range of every tile holds its segments, all of them, in order.      *)
(***************************************************************************)
RangesFilled ==
    phase \in {"pools", "start", "join", "write"} =>
        \A t \in Tiles :
            /\ cursor[t] = GroupEnd(t)
            /\ count[t] = Len(TileSegments(t))
            /\ \A k \in 1..count[t] :
                  items[offset[t] + k - 1] = [tile |-> t, pair |-> TileSegments(t)[k]]

(***************************************************************************)
(* What is written of a tile can be read back: between the offsets of a    *)
(* node and of the next one are the targets of its edges, in their order.  *)
(***************************************************************************)
PayloadReadsBack ==
    phase = "done" /\ result = 0 =>
        \A t \in Tiles : \A i \in DOMAIN graph[t].nodes :
            LET edges == EdgesFrom(graph[t], i - 1)
                begin == payload[t].offsets[i - 1]
            IN  /\ payload[t].offsets[i] - begin = Len(edges)
                /\ \A k \in DOMAIN edges : payload[t].targets[begin + k - 1] = edges[k][2]

\* The call returns with every thread ended, whatever fails.
Terminates == <>AllEnded
=============================================================================
