------------------------- MODULE WalkingGraphProofs -------------------------
(***************************************************************************)
(* Proofs about the walking graph, for every map, every number of tiles    *)
(* and threads, and whatever fails: no two threads build one tile; no      *)
(* graph outgrows its piece of the pools; the ranges the threads read are  *)
(* filled with the segments of their tiles; every graph is that of its     *)
(* part of the map; and what is written of it can be read back.            *)
(*                                                                         *)
(* The first two need no more than counting: a lookup adds at most one     *)
(* node and every segment looks up two, so a graph never has more nodes or *)
(* edges than twice the segments it has seen.  The other three need what   *)
(* the passes have done so far, InputInv and StoreInv, which threads run,  *)
(* CallInv, what each thread has built so far, GraphInv, and what is       *)
(* written so far, PayloadInv.  The lemmas in between are about the        *)
(* operators of the model: Picked and FirstMet, which go by the rank of an *)
(* index in a set, FlattenSeq, SumFunction and OrderedEdges, which choose  *)
(* a recursive function, and so have to be shown to have one.              *)
(***************************************************************************)
EXTENDS WalkingGraph, SequenceTheorems, FiniteSetTheorems, TLAPS

\* Of whatever elements.
IsSequence(s) == \E S : s \in Seq(S)

\* The fields of a graph, as far as PoolsKept needs them.
IsGraph(g) ==
    /\ g = [nodes |-> g.nodes, edges |-> g.edges, nodeCapacity |-> g.nodeCapacity,
            slotCapacity |-> g.slotCapacity, edgeCapacity |-> g.edgeCapacity, pooled |-> g.pooled]
    /\ IsSequence(g.nodes) /\ IsSequence(g.edges)
    /\ g.nodeCapacity \in Nat /\ g.slotCapacity \in Nat /\ g.edgeCapacity \in Nat

\* The sizes build_tile_graphs_from_segments gives the graph of a tile.
Sized(t) ==
    /\ graph[t].nodeCapacity = 2 * count[t]
    /\ graph[t].edgeCapacity = 2 * count[t]
    /\ graph[t].slotCapacity >= 4 * count[t] + 2
    /\ graph[t].pooled

\* How much of its tile a thread can have filled at most.
Progress(w) ==
    place[w] \in {"left", "right"} =>
        LET t == tile[w]
            seen == segment[w] - offset[t]
        IN  /\ 0 <= seen /\ seen < count[t]
            /\ Len(graph[t].nodes) <= 2 * seen + (IF place[w] = "right" THEN 1 ELSE 0)
            /\ Len(graph[t].edges) <= 2 * seen

\* What the other parts rest on.
Types ==
    /\ count \in [Tiles -> Nat] /\ offset \in [Tiles -> Nat] /\ at \in Nat
    /\ graph = [t \in Tiles |-> graph[t]]
    /\ \A t \in Tiles : IsGraph(graph[t])
    /\ nextTile \in Nat
    /\ place \in [Workers -> WorkerPlaces]
    /\ tile \in [Workers -> Nat]
    /\ segment \in [Workers -> Nat]

\* The phases with threads.
PoolPhases == {"start", "join"}

\* A thread that builds took its tile from the shared counter.
Claims ==
    /\ \A w \in Workers : place[w] \in Building => tile[w] \in Tiles /\ tile[w] < nextTile
    /\ OneBuilder

\* While there are threads, every tile with segments has its piece of the pools.
Pools ==
    /\ \A w \in Workers : place[w] # "idle" => phase \in PoolPhases \cup {"write", "done"}
    /\ phase \in PoolPhases \/ (\E w \in Workers : place[w] # "idle")
       => \A t \in Tiles : count[t] > 0 => Sized(t)

\* The inductive invariant of OneBuilder and PoolsKept.
BuildInv == Types /\ Claims /\ Pools /\ \A w \in Workers : Progress(w)

-----------------------------------------------------------------------------
(***************************************************************************)
(* Sequences and graphs.                                                   *)
(***************************************************************************)
\* A sequence has a length.
LEMMA LengthIsNat == ASSUME NEW s, IsSequence(s) PROVE Len(s) \in Nat
BY DEF IsSequence

\* So is nothing.
LEMMA EmptyIsSequence == IsSequence(<<>>) /\ Len(<<>>) = 0
BY DEF IsSequence

\* And what is appended to.
LEMMA AppendIsSequence ==
  ASSUME NEW s, IsSequence(s), NEW e
  PROVE  IsSequence(Append(s, e)) /\ Len(Append(s, e)) = Len(s) + 1
<1>1. PICK S : s \in Seq(S)
  BY DEF IsSequence
<1>2. s \in Seq(S \cup {e})
  BY <1>1
<1> QED
  BY <1>2 DEF IsSequence

\* Clearing a graph keeps its arrays.
LEMMA ClearedGraph ==
  ASSUME NEW g, IsGraph(g), NEW a, NEW b
  PROVE  [g EXCEPT !.nodes = a, !.edges = b]
         = [nodes |-> a, edges |-> b, nodeCapacity |-> g.nodeCapacity,
            slotCapacity |-> g.slotCapacity, edgeCapacity |-> g.edgeCapacity,
            pooled |-> g.pooled]
<1> DEFINE h == [g EXCEPT !.nodes = a, !.edges = b]
<1>1. DOMAIN g = {"nodes", "edges", "nodeCapacity", "slotCapacity", "edgeCapacity", "pooled"}
  BY DEF IsGraph
<1>2. h = [f \in DOMAIN g |-> IF f = "edges" THEN b ELSE IF f = "nodes" THEN a ELSE g[f]]
  OBVIOUS
<1>3. h = [nodes |-> a, edges |-> b, nodeCapacity |-> g.nodeCapacity,
           slotCapacity |-> g.slotCapacity, edgeCapacity |-> g.edgeCapacity,
           pooled |-> g.pooled]
  BY <1>1, <1>2
<1> QED
  BY <1>3

\* A table is at least as large as the number it is made from.
LEMMA PowerIsEnough ==
  ASSUME NEW n \in Nat
  PROVE  NextPowerOfTwo(n) \in Nat /\ NextPowerOfTwo(n) >= n
<1>1. Powers \subseteq Nat
  BY DEF Powers
<1>2. CASE \E p \in Powers : n <= p /\ p < 2 * n
  <2>1. NextPowerOfTwo(n) = CHOOSE p \in Powers : n <= p /\ p < 2 * n
    BY <1>2 DEF NextPowerOfTwo
  <2>2. NextPowerOfTwo(n) \in Powers /\ n <= NextPowerOfTwo(n)
    BY <1>2, <2>1
  <2> QED
    BY <1>1, <2>2
<1>3. CASE ~ \E p \in Powers : n <= p /\ p < 2 * n
  BY <1>3 DEF NextPowerOfTwo
<1> QED
  BY <1>2, <1>3

\* A lookup adds at most one node and grows nothing if there is room for it.
LEMMA NodeForFits ==
  ASSUME NEW g, IsGraph(g), NEW n,
         (Len(g.nodes) + 1) * 2 < g.slotCapacity, Len(g.nodes) + 1 <= g.nodeCapacity
  PROVE  LET h == NodeFor(g, n)
         IN  /\ IsGraph(h)
             /\ h.edges = g.edges /\ Len(h.nodes) <= Len(g.nodes) + 1
             /\ h.nodeCapacity = g.nodeCapacity /\ h.slotCapacity = g.slotCapacity
             /\ h.edgeCapacity = g.edgeCapacity /\ (g.pooled => h.pooled)
<1> DEFINE h == NodeFor(g, n)
           known == n \in Range(g.nodes)
<1>1. Len(g.nodes) \in Nat /\ g.slotCapacity \in Nat /\ g.nodeCapacity \in Nat
  BY LengthIsNat DEF IsGraph
<1>2. ~ ((Len(g.nodes) + 1) * 2 >= g.slotCapacity) /\ ~ (Len(g.nodes) + 1 > g.nodeCapacity)
  BY <1>1
<1>3. h = [g EXCEPT !.nodes = IF known THEN @ ELSE Append(@, n), !.slotCapacity = @,
                    !.nodeCapacity = @, !.pooled = @ /\ TRUE /\ TRUE]
  BY <1>2, Zenon DEF NodeFor
<1>4. h = [nodes |-> IF known THEN g.nodes ELSE Append(g.nodes, n), edges |-> g.edges,
           nodeCapacity |-> g.nodeCapacity, slotCapacity |-> g.slotCapacity,
           edgeCapacity |-> g.edgeCapacity, pooled |-> g.pooled /\ TRUE /\ TRUE]
  BY <1>3 DEF IsGraph
<1>5. IsSequence(h.nodes) /\ Len(h.nodes) <= Len(g.nodes) + 1
  BY <1>1, <1>4, AppendIsSequence DEF IsGraph
<1>6. /\ h.edges = g.edges /\ h.nodeCapacity = g.nodeCapacity
      /\ h.slotCapacity = g.slotCapacity /\ h.edgeCapacity = g.edgeCapacity
      /\ h.pooled = (g.pooled /\ TRUE /\ TRUE)
  BY <1>4
<1>7. h = [nodes |-> h.nodes, edges |-> h.edges, nodeCapacity |-> h.nodeCapacity,
           slotCapacity |-> h.slotCapacity, edgeCapacity |-> h.edgeCapacity, pooled |-> h.pooled]
  BY <1>4
<1>8. IsGraph(h)
  BY <1>5, <1>6, <1>7 DEF IsGraph
<1> HIDE DEF h
<1>9. /\ IsGraph(h)
      /\ h.edges = g.edges /\ Len(h.nodes) <= Len(g.nodes) + 1
      /\ h.nodeCapacity = g.nodeCapacity /\ h.slotCapacity = g.slotCapacity
      /\ h.edgeCapacity = g.edgeCapacity /\ (g.pooled => h.pooled)
  BY <1>5, <1>6, <1>8
<1> QED
  BY <1>9 DEF h

\* An edge grows nothing if there is room for it.
LEMMA AddDirectedFits ==
  ASSUME NEW g, IsGraph(g), NEW a, NEW b, Len(g.edges) + 1 <= g.edgeCapacity
  PROVE  LET h == AddDirected(g, a, b)
         IN  /\ IsGraph(h)
             /\ h.nodes = g.nodes /\ Len(h.edges) <= Len(g.edges) + 1
             /\ h.nodeCapacity = g.nodeCapacity /\ h.slotCapacity = g.slotCapacity
             /\ h.edgeCapacity = g.edgeCapacity /\ (g.pooled => h.pooled)
<1> DEFINE h == AddDirected(g, a, b)
<1>1. Len(g.edges) \in Nat /\ g.edgeCapacity \in Nat
  BY LengthIsNat DEF IsGraph
<1>2. CASE a = b
  BY <1>1, <1>2 DEF AddDirected
<1>3. CASE a # b
  <2>1. ~ (Len(g.edges) + 1 > g.edgeCapacity)
    BY <1>1
  <2>2. h = [g EXCEPT !.edges = Append(@, <<a, b>>), !.edgeCapacity = @, !.pooled = @ /\ TRUE]
    BY <1>3, <2>1, Zenon DEF AddDirected
  <2>3. h = [nodes |-> g.nodes, edges |-> Append(g.edges, <<a, b>>),
             nodeCapacity |-> g.nodeCapacity, slotCapacity |-> g.slotCapacity,
             edgeCapacity |-> g.edgeCapacity, pooled |-> g.pooled /\ TRUE]
    BY <2>2 DEF IsGraph
  <2>4. IsSequence(h.edges) /\ Len(h.edges) <= Len(g.edges) + 1
    BY <1>1, <2>3, AppendIsSequence DEF IsGraph
  <2>5. /\ h.nodes = g.nodes /\ h.nodeCapacity = g.nodeCapacity
        /\ h.slotCapacity = g.slotCapacity /\ h.edgeCapacity = g.edgeCapacity
        /\ h.pooled = (g.pooled /\ TRUE)
    BY <2>3
  <2>6. h = [nodes |-> h.nodes, edges |-> h.edges, nodeCapacity |-> h.nodeCapacity,
             slotCapacity |-> h.slotCapacity, edgeCapacity |-> h.edgeCapacity, pooled |-> h.pooled]
    BY <2>3
  <2>7. IsGraph(h)
    BY <2>4, <2>5, <2>6 DEF IsGraph
  <2> HIDE DEF h
  <2>8. /\ IsGraph(h)
        /\ h.nodes = g.nodes /\ Len(h.edges) <= Len(g.edges) + 1
        /\ h.nodeCapacity = g.nodeCapacity /\ h.slotCapacity = g.slotCapacity
        /\ h.edgeCapacity = g.edgeCapacity /\ (g.pooled => h.pooled)
    BY <2>4, <2>5, <2>7
  <2> QED
    BY <2>8 DEF h
<1> QED
  BY <1>2, <1>3

\* What h must keep of g.
Keeps(h, g) ==
    /\ IsGraph(h)
    /\ h.nodeCapacity = g.nodeCapacity /\ h.slotCapacity = g.slotCapacity
    /\ h.edgeCapacity = g.edgeCapacity /\ (g.pooled => h.pooled)

\* It has at most a nodes and b edges more.
Within(h, g, a, b) ==
    /\ Keeps(h, g)
    /\ Len(h.nodes) <= Len(g.nodes) + a /\ Len(h.edges) <= Len(g.edges) + b

\* One end of a segment: the lookup may be answered by the kept index.
LEMMA EndFits ==
  ASSUME NEW t, IsGraph(graph[t]), NEW n,
         (Len(graph[t].nodes) + 1) * 2 < graph[t].slotCapacity,
         Len(graph[t].nodes) + 1 <= graph[t].nodeCapacity
  PROVE  Within(GraphWith(t, n), graph[t], 1, 0)
<1>1. Len(graph[t].nodes) \in Nat /\ Len(graph[t].edges) \in Nat
  BY LengthIsNat DEF IsGraph
<1>2. CASE Cached(t, n)
  <2>1. GraphWith(t, n) = graph[t]
    BY <1>2 DEF GraphWith
  <2> QED
    BY <1>1, <2>1 DEF Within, Keeps
<1>3. CASE ~ Cached(t, n)
  <2>1. GraphWith(t, n) = NodeFor(graph[t], n)
    BY <1>3 DEF GraphWith
  <2> DEFINE h == NodeFor(graph[t], n)
  <2>2. /\ IsGraph(h)
        /\ h.edges = graph[t].edges /\ Len(h.nodes) <= Len(graph[t].nodes) + 1
        /\ h.nodeCapacity = graph[t].nodeCapacity /\ h.slotCapacity = graph[t].slotCapacity
        /\ h.edgeCapacity = graph[t].edgeCapacity /\ (graph[t].pooled => h.pooled)
    BY NodeForFits
  <2> HIDE DEF h
  <2>3. Within(h, graph[t], 1, 0)
    BY <1>1, <2>2 DEF Within, Keeps
  <2> QED
    BY <2>1, <2>3 DEF h
<1> QED
  BY <1>2, <1>3

\* The two edges of a segment.
LEMMA EdgesFit ==
  ASSUME NEW g, IsGraph(g), NEW a, NEW b, Len(g.edges) + 2 <= g.edgeCapacity
  PROVE  Within(AddDirected(AddDirected(g, a, b), b, a), g, 0, 2)
<1> DEFINE h == AddDirected(g, a, b)
           k == AddDirected(h, b, a)
<1>1. Len(g.edges) \in Nat /\ Len(g.nodes) \in Nat /\ g.edgeCapacity \in Nat
  BY LengthIsNat DEF IsGraph
<1>2. /\ IsGraph(h)
      /\ h.nodes = g.nodes /\ Len(h.edges) <= Len(g.edges) + 1
      /\ h.nodeCapacity = g.nodeCapacity /\ h.slotCapacity = g.slotCapacity
      /\ h.edgeCapacity = g.edgeCapacity /\ (g.pooled => h.pooled)
  BY <1>1, AddDirectedFits
<1> HIDE DEF h
<1>3. Len(h.edges) \in Nat /\ Len(h.edges) + 1 <= h.edgeCapacity
  BY <1>1, <1>2, LengthIsNat DEF IsGraph
<1>4. /\ IsGraph(k)
      /\ k.nodes = h.nodes /\ Len(k.edges) <= Len(h.edges) + 1
      /\ k.nodeCapacity = h.nodeCapacity /\ k.slotCapacity = h.slotCapacity
      /\ k.edgeCapacity = h.edgeCapacity /\ (h.pooled => k.pooled)
  BY <1>2, <1>3, AddDirectedFits
<1> HIDE DEF k
<1>5. Len(k.edges) \in Nat
  BY <1>4, LengthIsNat DEF IsGraph
<1>6. Within(k, g, 0, 2)
  BY <1>1, <1>2, <1>3, <1>4, <1>5 DEF Within, Keeps
<1> QED
  BY <1>6 DEF h, k

-----------------------------------------------------------------------------
(***************************************************************************)
(* The inductive invariant.                                                *)
(***************************************************************************)
LEMMA InvInitially == Init => BuildInv
<1> SUFFICES ASSUME Init PROVE BuildInv
  OBVIOUS
<1>1. IsGraph(NoGraph)
  BY EmptyIsSequence DEF NoGraph, IsGraph
<1>2. Types
  BY <1>1 DEF Init, Types, WorkerPlaces
<1>3. Claims /\ Pools /\ \A w \in Workers : Progress(w)
  BY DEF Init, Claims, OneBuilder, Building, Pools, PoolPhases, Progress
<1> QED
  BY <1>2, <1>3 DEF BuildInv

\* What the main thread does before there are threads.
LEMMA PassesKeepInv ==
  ASSUME BuildInv,
         CollectRefs \/ ResolveCoords \/ CountSegment \/ CountDone \/ LayoutTile
         \/ LayoutDone \/ FillSegment
  PROVE  BuildInv'
<1> USE DEF BuildInv, MainAt, MainGoes, buildVars, graphVars, sharedVars, workerVars, storeVars
<1>1. phase \in {"collect", "resolve", "count", "layout", "fill"}
  BY DEF CollectRefs, ResolveCoords, CountSegment, CountDone, LayoutTile, LayoutDone, FillSegment
<1>2. \A w \in Workers : place[w] = "idle"
  BY <1>1 DEF Pools, PoolPhases
<1>3. /\ UNCHANGED <<graph, nextTile, place, tile, segment>>
      /\ phase' \notin PoolPhases
  BY DEF CollectRefs, ResolveCoords, CountSegment, CountDone, LayoutTile, LayoutDone, FillSegment,
         Fails, PoolPhases
<1>4. count' \in [Tiles -> Nat] /\ offset' \in [Tiles -> Nat] /\ at' \in Nat
  <2> count \in [Tiles -> Nat] /\ offset \in [Tiles -> Nat] /\ at \in Nat
    BY DEF Types
  <2>1. CASE LayoutTile
    <3>1. at \in Tiles /\ (at # 0 => at - 1 \in Tiles)
      BY <2>1, WalkingAssumption DEF LayoutTile, Tiles
    <3> QED
      BY <2>1, <3>1 DEF LayoutTile
  <2>2. CASE CountSegment
    BY <2>2 DEF CountSegment, Fails
  <2>3. CASE CollectRefs \/ ResolveCoords \/ CountDone \/ LayoutDone \/ FillSegment
    BY <2>3 DEF CollectRefs, ResolveCoords, CountDone, LayoutDone, FillSegment, Store, Fails
  <2> QED
    BY <2>1, <2>2, <2>3
<1>5. Types'
  BY <1>3, <1>4 DEF Types
<1>6. Claims' /\ Pools' /\ \A w \in Workers : Progress(w)'
  BY <1>2, <1>3 DEF Claims, OneBuilder, Building, Pools, Progress
<1> QED
  BY <1>5, <1>6

\* The sizes of the pools are those the invariant asks for.
LEMMA PoolsKeepInv ==
  ASSUME BuildInv, MakePools
  PROVE  BuildInv'
<1> USE DEF BuildInv, MainAt, MainGoes, sharedVars, workerVars, storeVars
<1>1. phase = "pools" /\ UNCHANGED <<count, offset, at, nextTile, place, tile, segment>>
  BY DEF MakePools, Fails, buildVars
<1>2. \A w \in Workers : place[w] = "idle"
  BY <1>1 DEF Pools, PoolPhases
<1>3. \A w \in Workers : Progress(w)'
  BY <1>1, <1>2 DEF Progress
<1>4. Claims'
  BY <1>1, <1>2 DEF Claims, OneBuilder, Building
<1>5. CASE phase' = "done" /\ UNCHANGED graph
  BY <1>1, <1>2, <1>3, <1>4, <1>5 DEF Types, Pools, PoolPhases
<1>6. CASE /\ graph' = [t \in Tiles |-> IF count[t] = 0 THEN graph[t] ELSE Pooled(t)]
           /\ phase' = "start"
  <2>1. ASSUME NEW t \in Tiles, count[t] > 0
        PROVE  IsGraph(graph'[t]) /\ Sized(t)'
    <3>1. count[t] \in Nat /\ 2 * count[t] \in Nat
      BY DEF Types
    <3>2. SlotCapacity(2 * count[t]) \in Nat /\ SlotCapacity(2 * count[t]) >= 4 * count[t] + 2
      <4>1. (2 * count[t]) * 2 + 2 \in Nat /\ (2 * count[t]) * 2 + 2 = 4 * count[t] + 2
        BY <3>1
      <4> QED
        BY <4>1, PowerIsEnough DEF SlotCapacity
    <3>3. Pooled(t) = [nodes |-> <<>>, edges |-> <<>>, nodeCapacity |-> 2 * count[t],
                       slotCapacity |-> SlotCapacity(2 * count[t]),
                       edgeCapacity |-> 2 * count[t], pooled |-> TRUE]
      BY Zenon DEF Pooled
    <3>4. graph'[t] = Pooled(t)
      BY <1>6, <2>1, <3>1
    <3>5. /\ graph'[t].nodes = <<>> /\ graph'[t].edges = <<>> /\ graph'[t].pooled = TRUE
          /\ graph'[t].nodeCapacity = 2 * count[t] /\ graph'[t].edgeCapacity = 2 * count[t]
          /\ graph'[t].slotCapacity = SlotCapacity(2 * count[t])
      BY <3>3, <3>4
    <3>6. IsGraph(graph'[t])
      BY <3>1, <3>2, <3>3, <3>4, <3>5, EmptyIsSequence DEF IsGraph
    <3>7. Sized(t)'
      BY <1>1, <3>2, <3>5 DEF Sized
    <3> QED
      BY <3>6, <3>7
  <2>2. ASSUME NEW t \in Tiles PROVE IsGraph(graph'[t])
    BY <1>6, <2>1, <2>2 DEF Types
  <2>3. Types'
    BY <1>1, <1>6, <2>2 DEF Types
  <2>4. Pools'
    BY <1>1, <1>2, <1>6, <2>1 DEF Pools, PoolPhases
  <2> QED
    BY <1>3, <1>4, <2>3, <2>4
<1> QED
  BY <1>5, <1>6 DEF MakePools, Fails, buildVars, graphVars

\* Starting and joining threads touches no graph.
LEMMA ThreadsKeepInv ==
  ASSUME BuildInv,
         FillDone \/ StartWorker \/ StartFails \/ AllStarted \/ Join \/ AllJoined \/ WriteTile
         \/ WriteDone
  PROVE  BuildInv'
<1> USE DEF BuildInv, MainAt, MainGoes, buildVars, graphVars, sharedVars, workerVars, storeVars
<1>1. /\ UNCHANGED <<count, offset, graph, nextTile, tile, segment>>
      /\ at' \in Nat
  <2> at \in Nat
    BY DEF Types
  <2> QED
    BY DEF FillDone, StartWorker, StartFails, AllStarted, Join, AllJoined, WriteTile, WriteDone, Fails
<1>2. \/ UNCHANGED place
      \/ phase = "start" /\ phase' = "start" /\ place' = [place EXCEPT ![started + 1] = "test"]
  BY DEF FillDone, StartWorker, StartFails, AllStarted, Join, AllJoined, WriteTile, WriteDone, Fails
<1>3. /\ phase' \in PoolPhases => phase \in PoolPhases
      /\ phase \in PoolPhases \cup {"write", "done"} => phase' \in PoolPhases \cup {"write", "done"}
  BY DEF FillDone, StartWorker, StartFails, AllStarted, Join, AllJoined, WriteTile, WriteDone, Fails,
         PoolPhases
<1>4. place \in [Workers -> WorkerPlaces]
  BY DEF Types
<1>5. /\ place' \in [Workers -> WorkerPlaces]
      /\ \A w \in Workers : place'[w] = place[w] \/ place'[w] = "test"
      /\ phase \notin PoolPhases => UNCHANGED place
  BY <1>2, <1>4 DEF WorkerPlaces, PoolPhases
<1>6. Types'
  BY <1>1, <1>5 DEF Types
<1>7. Claims'
  BY <1>1, <1>5 DEF Claims, OneBuilder, Building
<1>8. Pools'
  BY <1>1, <1>3, <1>5 DEF Pools, Sized
<1>9. ASSUME NEW w \in Workers PROVE Progress(w)'
  BY <1>1, <1>5 DEF Progress
<1> QED
  BY <1>6, <1>7, <1>8, <1>9

\* A graph is touched by the one thread that builds its tile, within the
\* sizes the tile was given.
LEMMA WorkerKeepsInv ==
  ASSUME BuildInv, NEW w \in Workers, Worker(w)
  PROVE  BuildInv'
<1> USE DEF BuildInv, At, Goes, graphVars, sharedVars
<1> UNCHANGED <<count, offset, at, phase>>
  BY DEF Worker, storeVars, mainVars
<1>1. /\ place \in [Workers -> WorkerPlaces] /\ tile \in [Workers -> Nat]
      /\ segment \in [Workers -> Nat] /\ nextTile \in Nat
      /\ count \in [Tiles -> Nat] /\ offset \in [Tiles -> Nat] /\ at \in Nat
      /\ graph = [t \in Tiles |-> graph[t]]
      /\ \A t \in Tiles : IsGraph(graph[t])
  BY DEF Types
<1>2. ASSUME place[w] # "idle"
      PROVE  \A t \in Tiles : count[t] > 0 => Sized(t)
  BY <1>2 DEF Pools
<1>3. CASE WorkerTest(w)
  <2>1. /\ place'[w] \notin Building
        /\ place' \in [Workers -> WorkerPlaces]
        /\ \A v \in Workers : v # w => place'[v] = place[v]
        /\ place[w] # "idle"
    BY <1>1, <1>3 DEF WorkerTest, Building, WorkerPlaces
  <2>2. UNCHANGED <<graph, nextTile, tile, segment>>
    BY <1>3 DEF WorkerTest
  <2>3. Types'
    BY <1>1, <2>1, <2>2 DEF Types
  <2>4. Claims'
    BY <2>1, <2>2 DEF Claims, OneBuilder, Building
  <2>5. Pools'
    BY <2>1, <2>2 DEF Pools, Sized
  <2>6. ASSUME NEW v \in Workers PROVE Progress(v)'
    BY <2>1, <2>2 DEF Progress, Building
  <2> QED
    BY <2>3, <2>4, <2>5, <2>6
<1>4. CASE WorkerClaim(w)
  <2>1. /\ place'[w] \notin {"left", "right"}
        /\ place'[w] \in Building => nextTile < TileCount
        /\ place' \in [Workers -> WorkerPlaces] /\ tile' \in [Workers -> Nat]
        /\ \A v \in Workers : v # w => place'[v] = place[v] /\ tile'[v] = tile[v]
        /\ place[w] # "idle" /\ tile'[w] = nextTile /\ nextTile' = nextTile + 1
        /\ UNCHANGED <<graph, segment>>
    BY <1>1, <1>4, WalkingAssumption DEF WorkerClaim, Building, WorkerPlaces
  <2>2. Types'
    BY <1>1, <2>1 DEF Types
  <2>3. ASSUME NEW v \in Workers, place'[v] \in Building
        PROVE  tile'[v] \in Tiles /\ tile'[v] < nextTile'
    <3>1. CASE v = w
      <4>1. TileCount \in Nat /\ nextTile \in Nat /\ nextTile < TileCount
        BY <1>1, <2>1, <2>3, <3>1, WalkingAssumption
      <4> QED
        BY <2>1, <3>1, <4>1 DEF Tiles
    <3>2. CASE v # w
      <4>1. place[v] \in Building /\ tile'[v] = tile[v]
        BY <2>1, <2>3, <3>2
      <4>2. tile[v] \in Nat /\ tile[v] \in Tiles /\ tile[v] < nextTile
        BY <1>1, <4>1 DEF Claims
      <4> QED
        BY <1>1, <2>1, <4>1, <4>2
    <3> QED
      BY <3>1, <3>2
  <2>4. ASSUME NEW v \in Workers, v # w, place'[v] \in Building PROVE tile'[v] # tile'[w]
    <3>1. place[v] \in Building /\ tile'[v] = tile[v]
      BY <2>1, <2>4
    <3>2. tile[v] \in Nat /\ tile[v] < nextTile
      BY <1>1, <3>1 DEF Claims
    <3> QED
      BY <1>1, <2>1, <3>1, <3>2
  <2>5. Claims'
    BY <2>1, <2>3, <2>4 DEF Claims, OneBuilder
  <2>6. Pools'
    BY <2>1 DEF Pools, Sized
  <2>7. ASSUME NEW v \in Workers PROVE Progress(v)'
    BY <2>1 DEF Progress
  <2> QED
    BY <2>2, <2>5, <2>6, <2>7
<1>5. CASE WorkerBegin(w)
  <2> DEFINE t == tile[w]
  <2>1. t \in Tiles /\ t < nextTile /\ place[w] = "begin"
    BY <1>5 DEF WorkerBegin, Claims, Building
  <2>2. /\ place'[w] \in {"test", "gaveup", "left"}
        /\ place' \in [Workers -> WorkerPlaces]
        /\ \A v \in Workers : v # w => place'[v] = place[v] /\ segment'[v] = segment[v]
        /\ segment' \in [Workers -> Nat]
        /\ UNCHANGED <<nextTile, tile>>
    BY <1>1, <1>5, <2>1 DEF WorkerBegin, WorkerPlaces
  <2>3. \/ UNCHANGED graph /\ place'[w] # "left"
        \/ /\ graph' = [graph EXCEPT ![t] = [@ EXCEPT !.nodes = <<>>, !.edges = <<>>]]
           /\ count[t] # 0 /\ place'[w] = "left" /\ segment'[w] = offset[t]
    BY <1>1, <1>5, <2>1 DEF WorkerBegin
  <2>4. CASE UNCHANGED graph /\ place'[w] # "left"
    <3>1. Types' /\ Claims'
      BY <1>1, <2>1, <2>2, <2>4 DEF Types, Claims, OneBuilder, Building
    <3>2. Pools'
      BY <2>1, <2>2, <2>4 DEF Pools, Sized
    <3>3. ASSUME NEW v \in Workers PROVE Progress(v)'
      BY <2>2, <2>4 DEF Progress
    <3> QED
      BY <3>1, <3>2, <3>3
  <2>5. CASE /\ graph' = [graph EXCEPT ![t] = [@ EXCEPT !.nodes = <<>>, !.edges = <<>>]]
             /\ count[t] # 0 /\ place'[w] = "left" /\ segment'[w] = offset[t]
    <3> DEFINE g == graph[t]
    <3>1. IsGraph(g)
      BY <1>1, <2>1
    <3>2. [g EXCEPT !.nodes = <<>>, !.edges = <<>>]
          = [nodes |-> <<>>, edges |-> <<>>, nodeCapacity |-> g.nodeCapacity,
             slotCapacity |-> g.slotCapacity, edgeCapacity |-> g.edgeCapacity,
             pooled |-> g.pooled]
      BY <3>1, ClearedGraph
    <3>3. /\ graph'[t] = [nodes |-> <<>>, edges |-> <<>>, nodeCapacity |-> g.nodeCapacity,
                           slotCapacity |-> g.slotCapacity, edgeCapacity |-> g.edgeCapacity,
                           pooled |-> g.pooled]
          /\ \A u \in Tiles : u # t => graph'[u] = graph[u]
          /\ graph' = [u \in Tiles |-> graph'[u]]
      BY <1>1, <2>1, <2>5, <3>2
    <3>4. IsGraph(graph'[t])
      BY <3>1, <3>3, EmptyIsSequence DEF IsGraph
    <3>5. /\ Len(graph'[t].nodes) = 0 /\ Len(graph'[t].edges) = 0
          /\ graph'[t].nodeCapacity = g.nodeCapacity /\ graph'[t].slotCapacity = g.slotCapacity
          /\ graph'[t].edgeCapacity = g.edgeCapacity /\ graph'[t].pooled = g.pooled
      BY <3>3, EmptyIsSequence
    <3>6. Types'
      BY <1>1, <2>2, <3>3, <3>4 DEF Types
    <3>7. Claims'
      BY <2>1, <2>2, <2>5 DEF Claims, OneBuilder, Building
    <3>8. Pools'
      BY <2>1, <2>2, <3>3, <3>5 DEF Pools, Sized
    <3>9. ASSUME NEW v \in Workers PROVE Progress(v)'
      <4>1. CASE v = w
        <5>1. count[t] \in Nat /\ count[t] # 0 /\ offset[t] \in Nat
          BY <1>1, <2>1, <2>5
        <5> QED
          BY <2>2, <2>5, <3>5, <4>1, <5>1 DEF Progress
      <4>2. CASE v # w
        <5>1. place[v] \in {"left", "right"} => tile[v] \in Tiles /\ tile[v] # t
          BY <2>1, <4>2 DEF Claims, OneBuilder, Building
        <5> QED
          BY <2>2, <3>3, <4>2, <5>1 DEF Progress
      <4> QED
        BY <4>1, <4>2
    <3> QED
      BY <3>6, <3>7, <3>8, <3>9
  <2> QED
    BY <2>3, <2>4, <2>5
<1>6. ASSUME place[w] \in {"left", "right"}
      PROVE  /\ tile[w] \in Tiles /\ IsGraph(graph[tile[w]]) /\ Sized(tile[w])
             /\ count[tile[w]] \in Nat /\ offset[tile[w]] \in Nat /\ segment[w] \in Nat
             /\ Len(graph[tile[w]].nodes) \in Nat /\ Len(graph[tile[w]].edges) \in Nat
             /\ offset[tile[w]] <= segment[w]
             /\ segment[w] - offset[tile[w]] < count[tile[w]]
             /\ place[w] = "left" => Len(graph[tile[w]].nodes) <= 2 * (segment[w] - offset[tile[w]])
             /\ Len(graph[tile[w]].nodes) <= 2 * (segment[w] - offset[tile[w]]) + 1
             /\ Len(graph[tile[w]].edges) <= 2 * (segment[w] - offset[tile[w]])
             /\ \A v \in Workers : v # w /\ place[v] \in {"left", "right"} => tile[v] \in Tiles /\ tile[v] # tile[w]
  <2> DEFINE t == tile[w]
  <2>1. t \in Tiles
    BY <1>6 DEF Claims, Building
  <2>2. IsGraph(graph[t]) /\ count[t] \in Nat /\ offset[t] \in Nat /\ segment[w] \in Nat
    BY <1>1, <2>1
  <2>3. 0 <= segment[w] - offset[t] /\ segment[w] - offset[t] < count[t]
    BY <1>6 DEF Progress
  <2>4. count[t] > 0
    BY <2>2, <2>3
  <2>5. Sized(t)
    BY <1>2, <1>6, <2>1, <2>4
  <2>6. Len(graph[t].nodes) \in Nat /\ Len(graph[t].edges) \in Nat
    BY <2>2, LengthIsNat DEF IsGraph
  <2>7. \A v \in Workers : v # w /\ place[v] \in {"left", "right"} => tile[v] \in Tiles /\ tile[v] # t
    BY <1>6 DEF Claims, OneBuilder, Building
  <2>8. /\ place[w] = "left" => Len(graph[t].nodes) <= 2 * (segment[w] - offset[t])
        /\ Len(graph[t].nodes) <= 2 * (segment[w] - offset[t]) + 1
        /\ Len(graph[t].edges) <= 2 * (segment[w] - offset[t])
    <3>1. /\ Len(graph[t].nodes) <= 2 * (segment[w] - offset[t]) + (IF place[w] = "right" THEN 1 ELSE 0)
          /\ Len(graph[t].edges) <= 2 * (segment[w] - offset[t])
      BY <1>6 DEF Progress
    <3> QED
      BY <1>6, <2>2, <2>6, <3>1
  <2> QED
    BY <2>1, <2>2, <2>3, <2>5, <2>6, <2>7, <2>8
<1>7. ASSUME place[w] \in {"left", "right"},
             Keeps(graph'[tile[w]], graph[tile[w]]),
             graph' = [graph EXCEPT ![tile[w]] = graph'[tile[w]]],
             place' \in [Workers -> WorkerPlaces], segment' \in [Workers -> Nat],
             UNCHANGED <<nextTile, tile>>, place'[w] \in {"right", "left", "test"},
             \A v \in Workers : v # w => place'[v] = place[v] /\ segment'[v] = segment[v],
             Progress(w)'
      PROVE  BuildInv'
  <2> DEFINE t == tile[w]
  <2>1. /\ t \in Tiles /\ Sized(t)
        /\ \A v \in Workers : v # w /\ place[v] \in {"left", "right"} => tile[v] \in Tiles /\ tile[v] # t
    BY <1>6, <1>7
  <2>2. /\ \A u \in Tiles : u # t => graph'[u] = graph[u]
        /\ graph' = [u \in Tiles |-> graph'[u]]
    BY <1>1, <1>7, <2>1
  <2>3. Types'
    BY <1>1, <1>7, <2>2 DEF Types, Keeps
  <2>4. Claims'
    BY <1>7 DEF Claims, OneBuilder, Building
  <2>5. Sized(t)'
    BY <1>7, <2>1, <2>2 DEF Sized, Keeps
  <2>6. Pools'
    BY <1>7, <2>2, <2>5 DEF Pools, Sized
  <2>7. ASSUME NEW v \in Workers, v # w PROVE Progress(v)'
    BY <1>7, <2>1, <2>2, <2>7 DEF Progress
  <2> QED
    BY <1>7, <2>3, <2>4, <2>6, <2>7
<1> DEFINE t == tile[w]
           g == graph[t]
           c == count[t]
           seen == segment[w] - offset[t]
<1>8. ASSUME place[w] \in {"left", "right"}
      PROVE  /\ t \in Tiles /\ IsGraph(g)
             /\ c \in Nat /\ seen \in Nat /\ seen < c
             /\ Len(g.nodes) \in Nat /\ Len(g.nodes) <= 2 * seen + 1
             /\ place[w] = "left" => Len(g.nodes) <= 2 * seen
             /\ Len(g.edges) \in Nat /\ Len(g.edges) <= 2 * seen
             /\ g.slotCapacity \in Nat /\ g.slotCapacity >= 4 * c + 2
             /\ g.nodeCapacity = 2 * c /\ g.edgeCapacity = 2 * c
  <2>1. /\ t \in Tiles /\ IsGraph(g) /\ Sized(t)
        /\ c \in Nat /\ Len(g.nodes) \in Nat /\ Len(g.edges) \in Nat
        /\ Len(g.nodes) <= 2 * seen + 1 /\ Len(g.edges) <= 2 * seen
        /\ place[w] = "left" => Len(g.nodes) <= 2 * seen
    BY <1>6, <1>8
  <2>2. seen \in Nat /\ seen < c
    BY <1>6, <1>8
  <2>3. /\ g.slotCapacity \in Nat /\ g.slotCapacity >= 4 * c + 2
        /\ g.nodeCapacity = 2 * c /\ g.edgeCapacity = 2 * c
    BY <2>1 DEF Sized, IsGraph
  <2> QED
    BY <2>1, <2>2, <2>3
<1>9. CASE WorkerLeft(w)
  <2> DEFINE n == items[segment[w]].pair[1]
             h == GraphWith(t, n)
  <2>1. /\ place[w] = "left" /\ graph' = [graph EXCEPT ![t] = h]
        /\ place' = [place EXCEPT ![w] = "right"] /\ UNCHANGED <<nextTile, tile, segment>>
    BY <1>9 DEF WorkerLeft
  <2>2. t \in Tiles /\ segment[w] \in Nat
    BY <1>1, <1>8, <2>1
  <2>3. graph'[t] = h /\ t' = t /\ seen' = seen /\ c' = c /\ place'[w] = "right"
    BY <1>1, <2>1, <2>2
  <2>4. place' \in [Workers -> WorkerPlaces] /\ \A v \in Workers : v # w => place'[v] = place[v]
    BY <1>1, <2>1 DEF WorkerPlaces
  <2>5. /\ segment' \in [Workers -> Nat] /\ \A v \in Workers : segment'[v] = segment[v]
        /\ UNCHANGED <<nextTile, tile>>
    BY <1>1, <2>1
  <2> HIDE DEF c, seen, n
  <2>6. (Len(g.nodes) + 1) * 2 < g.slotCapacity /\ Len(g.nodes) + 1 <= g.nodeCapacity
    <3> HIDE DEF g
    <3> QED
      BY <1>8, <2>1
  <2>7. Within(h, g, 1, 0)
    BY <1>8, <2>1, <2>6, EndFits
  <2> HIDE DEF h, g
  <2>8. IsGraph(h) /\ Len(h.nodes) \in Nat /\ Len(h.edges) \in Nat
    BY <2>7, LengthIsNat DEF Within, Keeps, IsGraph
  <2>9. seen < c /\ 0 <= seen /\ Len(h.nodes) <= 2 * seen + 1 /\ Len(h.edges) <= 2 * seen
    <3>1. /\ seen \in Nat /\ seen < c
          /\ Len(g.nodes) \in Nat /\ Len(g.nodes) <= 2 * seen
          /\ Len(g.edges) \in Nat /\ Len(g.edges) <= 2 * seen
      BY <1>8, <2>1
    <3>2. Len(h.nodes) <= Len(g.nodes) + 1 /\ Len(h.edges) <= Len(g.edges) + 0
      BY <2>7 DEF Within, Keeps
    <3> QED
      BY <2>8, <3>1, <3>2
  <2>10. Progress(w)'
    BY <2>3, <2>9 DEF Progress, c, seen
  <2>11. Keeps(graph'[t], graph[t]) /\ graph' = [graph EXCEPT ![t] = graph'[t]]
    BY <2>1, <2>3, <2>7 DEF g, Within
  <2> QED
    BY <1>7, <2>1, <2>3, <2>4, <2>5, <2>10, <2>11
<1>10. CASE WorkerRight(w)
  <2> DEFINE n == items[segment[w]].pair[2]
             l == leftIndex[w]
             r == IndexOf(t, n)
             e == GraphWith(t, n)
             h == AddDirected(AddDirected(e, l, r), r, l)
  <2>1. /\ place[w] = "right" /\ graph' = [graph EXCEPT ![t] = h]
        /\ segment' = [segment EXCEPT ![w] = segment[w] + 1]
        /\ place' = [place EXCEPT ![w] = IF segment[w] + 1 = GroupEnd(t) THEN "test" ELSE "left"]
        /\ UNCHANGED <<nextTile, tile>>
    BY <1>10 DEF WorkerRight
  <2> HIDE DEF h, e, r, l, n
  <2>2. t \in Tiles /\ segment[w] \in Nat /\ offset[t] \in Nat /\ c \in Nat
    BY <1>1, <1>8, <2>1
  <2>3. graph'[t] = h /\ t' = t /\ c' = c /\ seen' = seen + 1
    BY <1>1, <2>1, <2>2
  <2>4. /\ segment' \in [Workers -> Nat]
        /\ place' \in [Workers -> WorkerPlaces]
        /\ place'[w] \in {"test", "left"}
        /\ \A v \in Workers : v # w => place'[v] = place[v] /\ segment'[v] = segment[v]
    BY <1>1, <2>1, <2>2 DEF WorkerPlaces
  <2>5. place'[w] = "left" => seen + 1 # c
    BY <1>1, <2>1, <2>2 DEF GroupEnd
  <2> HIDE DEF c, seen
  <2>6. (Len(g.nodes) + 1) * 2 < g.slotCapacity /\ Len(g.nodes) + 1 <= g.nodeCapacity
    <3> HIDE DEF g
    <3> QED
      BY <1>8, <2>1
  <2>7. Within(e, g, 1, 0)
    BY <1>8, <2>1, <2>6, EndFits DEF e
  <2> HIDE DEF g
  <2>8. IsGraph(e) /\ Len(e.nodes) \in Nat /\ Len(e.edges) \in Nat
    BY <2>7, LengthIsNat DEF Within, Keeps, IsGraph
  <2>9. Len(e.edges) + 2 <= e.edgeCapacity
    BY <1>8, <2>1, <2>7, <2>8, SMTT(40) DEF Within, Keeps
  <2>10. Within(h, e, 0, 2)
    BY <2>8, <2>9, EdgesFit DEF h
  <2>11. IsGraph(h) /\ Len(h.nodes) \in Nat /\ Len(h.edges) \in Nat
    BY <2>10, LengthIsNat DEF Within, Keeps, IsGraph
  <2>12. /\ c \in Nat /\ seen \in Nat /\ seen < c
         /\ Len(g.nodes) \in Nat /\ Len(g.nodes) <= 2 * seen + 1
         /\ Len(g.edges) \in Nat /\ Len(g.edges) <= 2 * seen
    BY <1>8, <2>1
  <2>13. Within(h, g, 1, 2)
    <3>1. Len(e.nodes) <= Len(g.nodes) + 1 /\ Len(e.edges) <= Len(g.edges) + 0
      BY <2>7 DEF Within, Keeps
    <3>2. Len(h.nodes) <= Len(e.nodes) + 0 /\ Len(h.edges) <= Len(e.edges) + 2
      BY <2>10 DEF Within, Keeps
    <3>3. Len(h.nodes) <= Len(g.nodes) + 1
      BY <2>8, <2>11, <2>12, <3>1, <3>2
    <3>4. Len(h.edges) <= Len(g.edges) + 2
      BY <2>8, <2>11, <2>12, <3>1, <3>2
    <3> QED
      BY <2>7, <2>10, <3>3, <3>4 DEF Within, Keeps
  <2>14. /\ 0 <= seen + 1
         /\ place'[w] = "left" => seen + 1 < c
         /\ Len(h.nodes) <= 2 * (seen + 1)
         /\ Len(h.edges) <= 2 * (seen + 1)
    <3>1. Len(h.nodes) <= Len(g.nodes) + 1 /\ Len(h.edges) <= Len(g.edges) + 2
      BY <2>13 DEF Within, Keeps
    <3> QED
      BY <2>5, <2>11, <2>12, <3>1
  <2>15. Progress(w)'
    <3>1. place'[w] # "right"
      BY <2>4
    <3>2. /\ 0 <= seen'
          /\ place'[w] = "left" => seen' < c'
          /\ Len(graph'[t'].nodes) <= 2 * seen' + 0
          /\ Len(graph'[t'].edges) <= 2 * seen'
      BY <2>3, <2>11, <2>12, <2>14
    <3> QED
      BY <3>1, <3>2 DEF Progress, c, seen
  <2>16. Keeps(graph'[t], graph[t]) /\ graph' = [graph EXCEPT ![t] = graph'[t]]
    BY <2>1, <2>3, <2>13 DEF g, Within
  <2> QED
    BY <1>7, <2>1, <2>4, <2>15, <2>16
<1> QED
  BY <1>3, <1>4, <1>5, <1>9, <1>10 DEF Worker

\* The inductive invariant holds in every state.
THEOREM WalkingInductive == Spec => []BuildInv
<1>1. Init => BuildInv
  BY InvInitially
<1>2. BuildInv /\ [Next]_vars => BuildInv'
  <2> SUFFICES ASSUME BuildInv, [Next]_vars PROVE BuildInv'
    OBVIOUS
  <2>1. CASE Main
    BY <2>1, PassesKeepInv, PoolsKeepInv, ThreadsKeepInv DEF Main
  <2>2. ASSUME NEW w \in Workers, Worker(w) PROVE BuildInv'
    BY <2>2, WorkerKeepsInv
  <2>3. CASE UNCHANGED vars
    <3>1. UNCHANGED <<count, offset, at, graph, nextTile, place, tile, segment, phase>>
      BY <2>3 DEF vars, storeVars, buildVars, graphVars, sharedVars, workerVars, mainVars
    <3>2. Types' /\ Claims' /\ Pools'
      BY <3>1 DEF BuildInv, Types, Claims, OneBuilder, Pools, Sized
    <3>3. ASSUME NEW w \in Workers PROVE Progress(w)'
      BY <3>1 DEF BuildInv, Progress
    <3> QED
      BY <3>2, <3>3 DEF BuildInv
  <2> QED
    BY <2>1, <2>2, <2>3 DEF Next, Returned
<1> QED
  BY <1>1, <1>2, PTL DEF Spec

\* No graph outgrows the piece of the pools it was given, so rt_free and
\* rt_realloc are never called with an address inside a pool.
THEOREM WalkingPoolsKept == Spec => []PoolsKept
<1>1. BuildInv => PoolsKept
  BY DEF BuildInv, Pools, PoolPhases, PoolsKept, Sized
<1> QED
  BY <1>1, WalkingInductive, PTL

\* No two threads ever build the same tile.
THEOREM WalkingOneBuilder == Spec => []OneBuilder
<1>1. BuildInv => OneBuilder
  BY DEF BuildInv, Claims
<1> QED
  BY <1>1, WalkingInductive, PTL

-----------------------------------------------------------------------------
(***************************************************************************)
(* The operators of the model: ranks and what Picked picks by them, nodes  *)
(* met for the first time, lists that are flattened.                       *)
(***************************************************************************)

\* A set of natural numbers that is not empty has a least one.
LEMMA Least ==
    ASSUME NEW S \in SUBSET Nat, S # {}
    PROVE  \E m \in S : \A k \in S : m <= k
<1> DEFINE R == StrictSubsetOrdering(Nat)
           F == FiniteSubsetsOf(Nat)
           T == {0..k : k \in S}
<1>1. IsWellFoundedOn(R, F)
    BY FS_StrictSubsetOrderingWellFounded
<1>2. T \subseteq F /\ T # {}
    <2>1. \A k \in S : 0..k \subseteq Nat /\ IsFiniteSet(0..k)
        BY FS_Interval
    <2> QED
        BY <2>1 DEF FiniteSubsetsOf
<1>3. \E x \in T : \A y \in T : ~ (<<y, x>> \in R)
    <2> HIDE DEF R, F, T
    <2> QED
        BY <1>1, <1>2, WFMin
<1>4. PICK m \in S : \A k \in S : ~ (<<0..k, 0..m>> \in R)
    BY <1>3
<1>5. ASSUME NEW k \in S, k < m
      PROVE  FALSE
    <2>1. 0..k \subseteq 0..m /\ 0..k # 0..m /\ 0..m \subseteq Nat /\ 0..k \subseteq Nat
        <3>1. m \in 0..m /\ m \notin 0..k
            BY <1>5
        <3> QED
            BY <1>5, <3>1
    <2>2. <<0..k, 0..m>> \in R
        BY <2>1 DEF StrictSubsetOrdering
    <2> QED
        BY <1>4, <2>2
<1> QED
    BY <1>5

(***************************************************************************)
(* How many members of a set of numbers are at most n: the place of a      *)
(* member in the set, by which Picked goes.                                *)
(***************************************************************************)
Rank(S, n) == Cardinality({j \in S : j <= n})

\* The rank grows by one at each member of the set.
LEMMA RankStep ==
  ASSUME NEW S \in SUBSET Nat, NEW n \in Nat
  PROVE  /\ Rank(S, n) \in Nat
         /\ Rank(S, n + 1) = IF n + 1 \in S THEN Rank(S, n) + 1 ELSE Rank(S, n)
<1> DEFINE U(m) == {j \in S : j <= m}
<1>1. IsFiniteSet(U(n)) /\ Cardinality(U(n)) \in Nat
  <2>1. IsFiniteSet(U(n))
    <3>1. U(n) \in SUBSET Nat /\ \A s \in U(n) : s <= n
      OBVIOUS
    <3> HIDE DEF U
    <3> QED
      BY <3>1, FS_BoundedSetOfNaturals
  <2> HIDE DEF U
  <2> QED
    BY <2>1, FS_CardinalityType
<1>2. CASE n + 1 \in S
  <2>1. U(n + 1) = U(n) \cup {n + 1} /\ n + 1 \notin U(n)
    <3>1. \A j \in Nat : j <= n + 1 <=> j <= n \/ j = n + 1
      OBVIOUS
    <3>2. \A j \in S : j <= n + 1 <=> j <= n \/ j = n + 1
      BY <3>1
    <3>3. ~ (n + 1 <= n) /\ n + 1 <= n + 1
      OBVIOUS
    <3>4. \A j : j \in U(n + 1) <=> j \in U(n) \cup {n + 1}
      BY <1>2, <3>2, <3>3, Zenon
    <3> QED
      BY <3>3, <3>4, Zenon
  <2> HIDE DEF U
  <2>2. Cardinality(U(n + 1)) = Cardinality(U(n)) + 1
    BY <1>1, <2>1, FS_AddElement
  <2> QED
    BY <1>1, <1>2, <2>2, Zenon DEF Rank, U
<1>3. CASE n + 1 \notin S
  <2>1. U(n + 1) = U(n)
    <3>1. \A j \in Nat : j <= n + 1 <=> j <= n \/ j = n + 1
      OBVIOUS
    <3> QED
      BY <1>3, <3>1
  <2> QED
    BY <1>1, <1>3, <2>1 DEF Rank
<1> QED
  BY <1>2, <1>3

\* Ranks begin at 0 and end at the size of the set.
LEMMA RankBounds ==
  ASSUME NEW L \in Nat, NEW S \in SUBSET (1..L)
  PROVE  /\ S \in SUBSET Nat /\ IsFiniteSet(S) /\ Cardinality(S) \in Nat
         /\ Rank(S, 0) = 0
         /\ \A n \in Nat : n >= L => Rank(S, n) = Cardinality(S)
<1>1. \A j \in S : j \in Nat /\ 1 <= j /\ j <= L
  OBVIOUS
<1>2. S \in SUBSET Nat /\ IsFiniteSet(S) /\ Cardinality(S) \in Nat
  <2>1. IsFiniteSet(1..L)
    BY FS_Interval
  <2> QED
    <3>1. S \in SUBSET (1..L) /\ S \in SUBSET Nat
      BY <1>1
    <3>2. IsFiniteSet(S)
      BY <2>1, <3>1, FS_Subset
    <3>3. Cardinality(S) \in Nat
      BY <3>2, FS_CardinalityType
    <3> QED
      BY <3>1, <3>2, <3>3
<1>3. {j \in S : j <= 0} = {}
  <2>1. \A j \in S : ~ (j <= 0)
    BY <1>1
  <2> QED
    BY <2>1, Zenon
<1>4. \A n \in Nat : n >= L => {j \in S : j <= n} = S
  <2>1. ASSUME NEW n \in Nat, n >= L, NEW j \in S PROVE j <= n
    BY <1>1, <2>1
  <2> QED
    BY <2>1
<1> QED
  BY <1>1, <1>2, <1>3, <1>4, FS_EmptySet DEF Rank

\* A later member has a higher rank.
LEMMA RankGrows ==
  ASSUME NEW S \in SUBSET Nat, NEW m \in Nat, NEW n \in Nat, m <= n
  PROVE  /\ Rank(S, m) <= Rank(S, n)
         /\ n \in S /\ m < n => Rank(S, m) < Rank(S, n)
<1> DEFINE U(k) == {j \in S : j <= k}
<1>1. \A k \in Nat : IsFiniteSet(U(k)) /\ Cardinality(U(k)) \in Nat
  <2>1. ASSUME NEW k \in Nat PROVE IsFiniteSet(U(k)) /\ Cardinality(U(k)) \in Nat
    <3>1. U(k) \in SUBSET Nat /\ \A s \in U(k) : s <= k
      OBVIOUS
    <3> HIDE DEF U
    <3> QED
      BY <3>1, FS_BoundedSetOfNaturals, FS_CardinalityType
  <2> QED
    BY <2>1
<1>2. U(m) \in SUBSET U(n) /\ (n \in S /\ m < n => n \in U(n) /\ n \notin U(m))
  <2>1. \A j \in Nat : j <= m => j <= n
    OBVIOUS
  <2>2. \A j \in S : j <= m => j <= n
    BY <2>1
  <2>3. m < n => n <= n /\ ~ (n <= m)
    OBVIOUS
  <2> QED
    BY <2>2, <2>3, Zenon
<1> HIDE DEF U
<1>3. Cardinality(U(m)) <= Cardinality(U(n)) /\ (Cardinality(U(n)) = Cardinality(U(m)) => U(n) = U(m))
  BY <1>1, <1>2, FS_Subset
<1>4. n \in S /\ m < n => Cardinality(U(m)) < Cardinality(U(n))
  BY <1>1, <1>2, <1>3
<1> QED
  BY <1>3, <1>4 DEF U, Rank

\* Every member has a rank of its own, and every rank is one's.
LEMMA RankOnto ==
  ASSUME NEW L \in Nat, NEW S \in SUBSET (1..L)
  PROVE  /\ \A i \in S : Rank(S, i) \in 1..Cardinality(S)
         /\ \A i, j \in S : Rank(S, i) = Rank(S, j) => i = j
         /\ \A k \in 1..Cardinality(S) : \E i \in S : Rank(S, i) = k
<1>1. /\ S \in SUBSET Nat /\ IsFiniteSet(S) /\ Cardinality(S) \in Nat
      /\ Rank(S, 0) = 0 /\ Rank(S, L) = Cardinality(S)
  BY RankBounds
<1>2. \A n \in Nat : Rank(S, n) \in Nat
  BY <1>1, RankStep
<1>3. ASSUME NEW i \in S PROVE Rank(S, i) \in 1..Cardinality(S)
  <2>1. i \in Nat /\ 0 < i /\ i <= L
    OBVIOUS
  <2>2. Rank(S, 0) < Rank(S, i) /\ Rank(S, i) <= Rank(S, L)
    BY <1>1, <2>1, RankGrows
  <2> QED
    BY <1>1, <1>2, <2>1, <2>2
<1>4. ASSUME NEW i \in S, NEW j \in S, i < j PROVE Rank(S, i) # Rank(S, j)
  <2>1. Rank(S, i) < Rank(S, j)
    BY <1>1, <1>4, RankGrows
  <2> QED
    BY <1>2, <2>1
<1>5. ASSUME NEW k \in 1..Cardinality(S) PROVE \E i \in S : Rank(S, i) = k
  <2> DEFINE D == {n \in Nat : k <= Rank(S, n)}
  <2>1. D \in SUBSET Nat /\ L \in D
    BY <1>1
  <2>2. PICK m \in D : \A n \in D : m <= n
    <3> HIDE DEF D
    <3> QED
      BY <2>1, Least
  <2>3. m # 0
    BY <1>1
  <2>4. PICK n \in Nat : m = n + 1
    <3>1. m - 1 \in Nat /\ m = (m - 1) + 1
      BY <2>3
    <3> QED
      BY <3>1
  <2>5. ~ (k <= Rank(S, n))
    BY <2>2, <2>4
  <2>6. Rank(S, m) = IF m \in S THEN Rank(S, n) + 1 ELSE Rank(S, n)
    BY <1>1, <2>4, RankStep
  <2> QED
    BY <1>2, <2>4, <2>5, <2>6
<1> QED
  BY <1>3, <1>4, <1>5

(***************************************************************************)
(* What is picked stands at the rank of its index.                         *)
(***************************************************************************)
LEMMA PickedAt ==
  ASSUME NEW s, NEW L \in Nat, NEW S \in SUBSET (1..L)
  PROVE  /\ Picked(s, S) = [k \in 1..Cardinality(S) |-> Picked(s, S)[k]]
         /\ Cardinality(S) \in Nat
         /\ \A i \in S : Rank(S, i) \in 1..Cardinality(S) /\ Picked(s, S)[Rank(S, i)] = s[i]
         /\ \A k \in 1..Cardinality(S) : \E i \in S : Rank(S, i) = k
<1>1. Picked(s, S) = [k \in 1..Cardinality(S) |-> s[CHOOSE i \in S : Rank(S, i) = k]]
  BY DEF Picked, Rank
<1>2. ASSUME NEW i \in S PROVE (CHOOSE j \in S : Rank(S, j) = Rank(S, i)) = i
  <2>1. \E j \in S : Rank(S, j) = Rank(S, i)
    OBVIOUS
  <2>2. /\ (CHOOSE j \in S : Rank(S, j) = Rank(S, i)) \in S
        /\ Rank(S, CHOOSE j \in S : Rank(S, j) = Rank(S, i)) = Rank(S, i)
    BY <2>1
  <2> QED
    BY <2>2, RankOnto
<1>3. ASSUME NEW i \in S PROVE Rank(S, i) \in 1..Cardinality(S) /\ Picked(s, S)[Rank(S, i)] = s[i]
  <2>1. Rank(S, i) \in 1..Cardinality(S)
    BY RankOnto
  <2>2. Picked(s, S)[Rank(S, i)] = s[CHOOSE j \in S : Rank(S, j) = Rank(S, i)]
    BY <1>1, <2>1, Zenon
  <2> QED
    BY <1>2, <2>1, <2>2, Zenon
<1>4. Picked(s, S) = [k \in 1..Cardinality(S) |-> Picked(s, S)[k]]
  BY <1>1
<1> QED
  BY <1>3, <1>4, RankOnto, RankBounds

\* A sequence with these elements at these places is the one picked.
LEMMA PickedIs ==
  ASSUME NEW s, NEW L \in Nat, NEW S \in SUBSET (1..L),
         NEW E, NEW r \in Seq(E), Len(r) = Cardinality(S),
         \A i \in S : r[Rank(S, i)] = s[i]
  PROVE  r = Picked(s, S)
<1>1. ASSUME NEW k \in 1..Cardinality(S) PROVE r[k] = Picked(s, S)[k]
  <2>1. PICK i \in S : Rank(S, i) = k
    BY PickedAt
  <2> QED
    BY <2>1, PickedAt
<1>2. r = [k \in 1..Cardinality(S) |-> r[k]]
  OBVIOUS
<1>3. Picked(s, S) = [k \in 1..Cardinality(S) |-> Picked(s, S)[k]]
  BY PickedAt
<1> QED
  BY <1>1, <1>2, <1>3

\* Elements of a sequence are picked into a sequence.
LEMMA PickedType ==
  ASSUME NEW E, NEW s \in Seq(E), NEW S \in SUBSET (1..Len(s))
  PROVE  /\ Picked(s, S) \in Seq(E) /\ Len(Picked(s, S)) = Cardinality(S)
         /\ Cardinality(S) \in Nat
<1>1. Len(s) \in Nat /\ \A i \in 1..Len(s) : s[i] \in E
  OBVIOUS
<1>2. ASSUME NEW k \in 1..Cardinality(S) PROVE Picked(s, S)[k] \in E
  <2>1. PICK i \in S : Rank(S, i) = k
    BY <1>1, PickedAt
  <2> QED
    BY <1>1, <2>1, PickedAt
<1>3. Cardinality(S) \in Nat /\ Picked(s, S) = [k \in 1..Cardinality(S) |-> Picked(s, S)[k]]
  BY <1>1, PickedAt
<1>4. Picked(s, S) \in [1..Cardinality(S) -> E]
  BY <1>2, <1>3
<1> QED
  BY <1>3, <1>4

(***************************************************************************)
(* A longer sequence has more to pick from.                                *)
(***************************************************************************)
LEMMA PickedAppend ==
  ASSUME NEW E, NEW s \in Seq(E), NEW e \in E,
         NEW S \in SUBSET (1..Len(s)), NEW T \in SUBSET (1..(Len(s) + 1)),
         S = T \ {Len(s) + 1}
  PROVE  Picked(Append(s, e), T)
         = IF Len(s) + 1 \in T THEN Append(Picked(s, S), e) ELSE Picked(s, S)
<1> DEFINE n == Len(s)
           r == Append(s, e)
           p == Picked(s, S)
           new == IF n + 1 \in T THEN Append(p, e) ELSE p
<1>1. n \in Nat /\ n + 1 \in Nat /\ r[n + 1] = e /\ \A i \in 1..n : r[i] = s[i]
  BY AppendProperties
<1>2. /\ p = Picked(s, S)
      /\ p \in Seq(E) /\ Len(p) = Cardinality(S) /\ Cardinality(S) \in Nat
  BY PickedType
<1> HIDE DEF p
<1>2a. \A i \in S : Rank(S, i) \in 1..Cardinality(S) /\ p[Rank(S, i)] = s[i]
  <2>1. n \in Nat /\ S \in SUBSET (1..n)
    BY <1>1
  <2> HIDE DEF n
  <2>2. \A i \in S : Rank(S, i) \in 1..Cardinality(S) /\ Picked(s, S)[Rank(S, i)] = s[i]
    BY <2>1, PickedAt, Zenon
  <2> QED
    BY <1>2, <2>2
<1>3. T \in SUBSET Nat /\ S \in SUBSET Nat /\ IsFiniteSet(S) /\ n + 1 \notin S
  <2>1. T \in SUBSET Nat
    BY <1>1, RankBounds
  <2>2. S \in SUBSET Nat /\ IsFiniteSet(S)
    BY <1>1, RankBounds
  <2> QED
    BY <2>1, <2>2
<1>4. Cardinality(T) = IF n + 1 \in T THEN Cardinality(S) + 1 ELSE Cardinality(S)
  <2>1. CASE n + 1 \in T
    <3>1. T = S \cup {n + 1}
      BY <2>1
    <3> QED
      BY <1>3, <2>1, <3>1, FS_AddElement
  <2>2. CASE n + 1 \notin T
    <3>1. T = S
      BY <2>2
    <3> QED
      BY <2>2, <3>1
  <2> QED
    BY <2>1, <2>2
<1>5. ASSUME NEW i \in S PROVE Rank(T, i) = Rank(S, i)
  <2>1. i \in Nat /\ i <= n
    BY <1>1
  <2>2. {j \in T : j <= i} = {j \in S : j <= i}
    <3>1. ~ (n + 1 <= i)
      BY <1>1, <2>1
    <3> QED
      BY <3>1, Zenon
  <2> QED
    BY <2>2 DEF Rank
<1>6. n + 1 \in T => Rank(T, n + 1) = Cardinality(T)
  BY <1>1, RankBounds
<1>7. new \in Seq(E) /\ Len(new) = Cardinality(T)
  BY <1>2, <1>4, AppendProperties
<1>8. ASSUME NEW i \in T PROVE new[Rank(T, i)] = r[i]
  <2>1. CASE i = n + 1
    <3>1. new = Append(p, e) /\ Rank(T, i) = Len(p) + 1 /\ r[i] = e
      BY <1>1, <1>2, <1>4, <1>6, <2>1
    <3> QED
      BY <1>2, <3>1, AppendProperties
  <2>2. CASE i # n + 1
    <3>1. i \in S /\ i \in 1..n
      <4>1. i \in 1..(n + 1)
        OBVIOUS
      <4> QED
        BY <1>1, <2>2, <4>1
    <3>2. Rank(S, i) \in 1..Len(p) /\ p[Rank(S, i)] = s[i] /\ r[i] = s[i]
      BY <1>1, <1>2, <1>2a, <3>1
    <3>3. new[Rank(S, i)] = p[Rank(S, i)]
      BY <1>2, <3>2, AppendProperties
    <3> QED
      BY <1>5, <3>1, <3>2, <3>3
  <2> QED
    BY <2>1, <2>2
<1>9. T \in SUBSET (1..(n + 1))
  OBVIOUS
<1> HIDE DEF new, r, n
<1>10. new = Picked(r, T)
  <2>1. n + 1 \in Nat
    BY <1>1
  <2> QED
    BY <1>7, <1>8, <1>9, <2>1, PickedIs, Zenon
<1> QED
  BY <1>10 DEF new, r, p, n

\* The indices at which a sequence has an element for the first time.
Firsts(s) == {i \in DOMAIN s : \A j \in 1..(i - 1) : s[j] # s[i]}

\* No node is met in an empty list.
LEMMA FirstMetNil == FirstMet(<<>>) = <<>>
<1>1. Firsts(<<>>) = {}
  BY DEF Firsts
<1>2. FirstMet(<<>>) = Picked(<<>>, {})
  BY <1>1 DEF FirstMet, Firsts
<1>3. Cardinality({}) = 0
  BY FS_EmptySet
<1> QED
  BY <1>2, <1>3 DEF Picked

\* One more node is met first, or was met before.
LEMMA FirstMetAppend ==
  ASSUME NEW E, NEW s \in Seq(E), NEW e \in E
  PROVE  FirstMet(Append(s, e))
         = IF \E i \in 1..Len(s) : s[i] = e THEN FirstMet(s) ELSE Append(FirstMet(s), e)
<1> DEFINE n == Len(s)
           r == Append(s, e)
<1>1. /\ n \in Nat /\ r[n + 1] = e /\ \A i \in 1..n : r[i] = s[i]
      /\ DOMAIN r = 1..(n + 1) /\ DOMAIN s = 1..n
  BY AppendProperties
<1>2. Firsts(s) \in SUBSET (1..n) /\ Firsts(r) \in SUBSET (1..(n + 1))
  BY <1>1 DEF Firsts
<1>3. n + 1 \in Firsts(r) <=> ~ \E i \in 1..n : s[i] = e
  <2>1. n + 1 \in 1..(n + 1) /\ 1..((n + 1) - 1) = 1..n
    BY <1>1
  <2> QED
    BY <1>1, <2>1 DEF Firsts
<1>4. Firsts(s) = Firsts(r) \ {n + 1}
  <2>1. ASSUME NEW i \in 1..n PROVE i \in Firsts(s) <=> i \in Firsts(r)
    <3>1. i \in 1..(n + 1) /\ \A j \in 1..(i - 1) : j \in 1..n
      BY <1>1
    <3> QED
      BY <1>1, <3>1 DEF Firsts
  <2>2. \A i \in 1..(n + 1) : i = n + 1 \/ i \in 1..n
    BY <1>1
  <2>3. n + 1 \notin 1..n
    BY <1>1
  <2> QED
    BY <1>2, <2>1, <2>2, <2>3
<1>5. Picked(r, Firsts(r)) = IF n + 1 \in Firsts(r) THEN Append(Picked(s, Firsts(s)), e) ELSE Picked(s, Firsts(s))
  BY <1>2, <1>4, PickedAppend
<1> QED
  BY <1>3, <1>5 DEF FirstMet, Firsts

\* Each element is met once.
LEMMA FirstMetIs ==
  ASSUME NEW E, NEW s \in Seq(E)
  PROVE  /\ FirstMet(s) \in Seq(E)
         /\ \A i \in 1..Len(s) : \E k \in 1..Len(FirstMet(s)) : FirstMet(s)[k] = s[i]
         /\ \A k \in 1..Len(FirstMet(s)) : \E i \in 1..Len(s) : FirstMet(s)[k] = s[i]
         /\ \A k, l \in 1..Len(FirstMet(s)) : FirstMet(s)[k] = FirstMet(s)[l] => k = l
<1> DEFINE n == Len(s)
           S == Firsts(s)
           f == FirstMet(s)
<1>1. n \in Nat /\ DOMAIN s = 1..n
  OBVIOUS
<1>2. S \in SUBSET (1..n) /\ f = Picked(s, S)
  BY <1>1 DEF Firsts, FirstMet
<1>3. f \in Seq(E) /\ Len(f) = Cardinality(S) /\ Len(f) \in Nat
  BY <1>2, PickedType
<1>4. /\ \A i \in S : Rank(S, i) \in 1..Len(f) /\ f[Rank(S, i)] = s[i]
      /\ \A k \in 1..Len(f) : \E i \in S : Rank(S, i) = k
  <2> HIDE DEF S, f
  <2> QED
    BY <1>1, <1>2, <1>3, PickedAt
<1>5. ASSUME NEW i \in 1..n PROVE \E j \in S : s[j] = s[i]
  <2> DEFINE D == {j \in 1..n : s[j] = s[i]}
  <2>1. D \in SUBSET Nat /\ D # {}
    OBVIOUS
  <2>2. PICK j \in D : \A k \in D : j <= k
    <3> HIDE DEF D
    <3> QED
      BY <2>1, Least
  <2>3. ASSUME NEW k \in 1..(j - 1) PROVE s[k] # s[j]
    <3>1. j \in 1..n /\ s[j] = s[i]
      BY <2>2
    <3>2. k \in 1..n /\ ~ (j <= k)
      BY <1>1, <2>3, <3>1
    <3>3. k \notin D
      BY <2>2, <3>2
    <3> QED
      BY <3>1, <3>2, <3>3
  <2> QED
    BY <1>1, <2>2, <2>3 DEF Firsts
<1>6. ASSUME NEW i \in S, NEW j \in S, s[i] = s[j] PROVE i = j
  <2>1. i \in 1..n /\ j \in 1..n /\ i \in Nat /\ j \in Nat
    BY <1>2
  <2>2. ~ (i < j)
    <3>1. i < j => i \in 1..(j - 1)
      BY <2>1
    <3> QED
      BY <1>6, <3>1 DEF Firsts
  <2>3. ~ (j < i)
    <3>1. j < i => j \in 1..(i - 1)
      BY <2>1
    <3> QED
      BY <1>6, <3>1 DEF Firsts
  <2> QED
    BY <2>1, <2>2, <2>3
<1> HIDE DEF S, f
<1>7. ASSUME NEW k \in 1..Len(f), NEW l \in 1..Len(f), f[k] = f[l] PROVE k = l
  <2>1. PICK i \in S : Rank(S, i) = k
    BY <1>4
  <2>2. PICK j \in S : Rank(S, j) = l
    BY <1>4
  <2>3. s[i] = s[j]
    BY <1>4, <1>7, <2>1, <2>2
  <2> QED
    BY <1>6, <2>1, <2>2, <2>3
<1>8. ASSUME NEW i \in 1..n PROVE \E k \in 1..Len(f) : f[k] = s[i]
  BY <1>4, <1>5
<1>9. ASSUME NEW k \in 1..Len(f) PROVE \E i \in 1..n : f[k] = s[i]
  BY <1>2, <1>4
<1> QED
  BY <1>3, <1>7, <1>8, <1>9 DEF f

(***************************************************************************)
(* FlattenSeq: f[k] is the first k sequences of q, joined.                 *)
(***************************************************************************)
Joins(f, q, n) == f = [i \in 1..n |-> IF i = 1 THEN q[i] ELSE f[i - 1] \o q[i]]

\* What the joined lists are at each length.
LEMMA JoinsStep ==
  ASSUME NEW f, NEW q, NEW n \in Nat, Joins(f, q, n)
  PROVE  \A k \in 1..n : f[k] = IF k = 1 THEN q[k] ELSE f[k - 1] \o q[k]
BY Zenon DEF Joins

\* Every list of lists can be joined.
LEMMA JoinsExists ==
  ASSUME NEW q, NEW n \in Nat
  PROVE  \E f : Joins(f, q, n)
<1> DEFINE D == {k \in Nat : ~ \E f : Joins(f, q, k)}
<1>1. ASSUME D # {} PROVE FALSE
  <2>1. PICK m \in D : \A k \in D : m <= k
    <3>1. D \in SUBSET Nat
      OBVIOUS
    <3> HIDE DEF D
    <3> QED
      BY <1>1, <3>1, Least
  <2>2. m # 0
    <3>1. ASSUME m = 0 PROVE Joins([i \in 1..0 |-> 0], q, m)
      BY <3>1 DEF Joins
    <3> QED
      BY <3>1
  <2>3. PICK l \in Nat : m = l + 1
    <3>1. m - 1 \in Nat /\ m = (m - 1) + 1
      BY <2>2
    <3> QED
      BY <3>1
  <2>4. PICK g : Joins(g, q, l)
    <3>1. ~ (m <= l)
      BY <2>3
    <3> QED
      BY <2>1, <2>3, <3>1
  <2>4a. \A i \in 1..l : g[i] = IF i = 1 THEN q[i] ELSE g[i - 1] \o q[i]
    <3>1. l \in Nat
      BY <2>3
    <3> QED
      BY <2>4, <3>1, JoinsStep
  <2> DEFINE next == IF m = 1 THEN q[m] ELSE g[m - 1] \o q[m]
             f == [i \in 1..m |-> IF i = m THEN next ELSE g[i]]
  <2>5. ASSUME NEW i \in 1..m PROVE f[i] = IF i = 1 THEN q[i] ELSE f[i - 1] \o q[i]
    <3>1. CASE i = m
      <4>1. m # 1 => f[m - 1] = g[m - 1]
        BY <2>3
      <4> QED
        BY <3>1, <4>1
    <3>2. CASE i # m
      <4>1. i \in 1..l
        BY <2>3, <3>2
      <4>2. g[i] = IF i = 1 THEN q[i] ELSE g[i - 1] \o q[i]
        BY <2>4a, <4>1
      <4>3. f[i] = g[i] /\ (i # 1 => f[i - 1] = g[i - 1])
        BY <2>3, <3>2, <4>1
      <4> HIDE DEF f
      <4> QED
        BY <4>2, <4>3
    <3> QED
      BY <3>1, <3>2
  <2>6. Joins(f, q, m)
    <3>1. f = [i \in 1..m |-> f[i]]
      OBVIOUS
    <3> HIDE DEF f
    <3>2. [i \in 1..m |-> f[i]] = [i \in 1..m |-> IF i = 1 THEN q[i] ELSE f[i - 1] \o q[i]]
      BY <2>5
    <3> QED
      BY <3>1, <3>2, Zenon DEF Joins
  <2> QED
    BY <2>6
<1> QED
  BY <1>1

\* Lists that begin alike are joined alike, as far as they are alike.
LEMMA JoinsOnce ==
  ASSUME NEW f, NEW q, NEW n \in Nat, Joins(f, q, n),
         NEW g, NEW r, NEW m \in Nat, Joins(g, r, m),
         NEW k \in 1..n, k <= m, \A i \in 1..k : q[i] = r[i]
  PROVE  f[k] = g[k]
<1> DEFINE D == {i \in 1..k : f[i] # g[i]}
<1>0. /\ \A i \in 1..n : f[i] = IF i = 1 THEN q[i] ELSE f[i - 1] \o q[i]
      /\ \A i \in 1..m : g[i] = IF i = 1 THEN r[i] ELSE g[i - 1] \o r[i]
  <2>1. \A i \in 1..n : f[i] = IF i = 1 THEN q[i] ELSE f[i - 1] \o q[i]
    BY JoinsStep, ZenonT(40)
  <2>2. \A i \in 1..m : g[i] = IF i = 1 THEN r[i] ELSE g[i - 1] \o r[i]
    BY JoinsStep, ZenonT(40)
  <2> QED
    BY <2>1, <2>2
<1>1. ASSUME D # {} PROVE FALSE
  <2>1. PICK i \in D : \A j \in D : i <= j
    <3>1. D \in SUBSET Nat
      OBVIOUS
    <3> HIDE DEF D
    <3> QED
      BY <1>1, <3>1, Least
  <2>2. i \in 1..k /\ i \in 1..n /\ i \in 1..m /\ f[i] # g[i] /\ q[i] = r[i] /\ q[1] = r[1]
    OBVIOUS
  <2>3. i # 1
    BY <1>0, <2>2
  <2>4. i - 1 \in 1..k /\ ~ (i <= i - 1)
    BY <2>2, <2>3
  <2>5. f[i - 1] = g[i - 1]
    BY <2>1, <2>4
  <2>6. f[i] = f[i - 1] \o q[i]
    BY <1>0, <2>2, <2>3
  <2>7. g[i] = g[i - 1] \o r[i]
    BY <1>0, <2>2, <2>3
  <2> QED
    BY <2>2, <2>5, <2>6, <2>7
<1> QED
  BY <1>1

\* What is joined has the elements of its parts.
LEMMA JoinsType ==
  ASSUME NEW E, NEW q \in Seq(Seq(E)), NEW f, Joins(f, q, Len(q)), NEW k \in 1..Len(q)
  PROVE  f[k] \in Seq(E)
<1> DEFINE n == Len(q)
           D == {i \in 1..n : f[i] \notin Seq(E)}
<1>0. n \in Nat /\ \A i \in 1..n : q[i] \in Seq(E)
  OBVIOUS
<1>0a. \A i \in 1..n : f[i] = IF i = 1 THEN q[i] ELSE f[i - 1] \o q[i]
  BY <1>0, JoinsStep, ZenonT(40)
<1>1. ASSUME D # {} PROVE FALSE
  <2>1. PICK i \in D : \A j \in D : i <= j
    <3>1. D \in SUBSET Nat
      OBVIOUS
    <3> HIDE DEF D
    <3> QED
      BY <1>1, <3>1, Least
  <2>2. i \in 1..n /\ f[i] \notin Seq(E)
    OBVIOUS
  <2>3. i # 1
    <3>1. i = 1 => f[i] = q[1]
      BY <1>0a, <2>2
    <3> QED
      BY <1>0, <2>2, <3>1
  <2>4. i - 1 \in 1..n /\ ~ (i <= i - 1)
    BY <2>2, <2>3
  <2>5. f[i - 1] \in Seq(E)
    BY <2>1, <2>4
  <2>6. f[i] = f[i - 1] \o q[i]
    BY <1>0a, <2>2, <2>3
  <2> QED
    BY <1>0, <2>2, <2>5, <2>6, ConcatProperties
<1> QED
  BY <1>1

\* Nothing, flattened, is nothing.
LEMMA FlattenNil == FlattenSeq(<<>>) = <<>>
BY DEF FlattenSeq

\* FlattenSeq joins the lists of a list, one after the other.
LEMMA FlattenIs ==
  ASSUME NEW q, Len(q) \in Nat, Len(q) # 0
  PROVE  \E f : Joins(f, q, Len(q)) /\ FlattenSeq(q) = f[Len(q)]
<1> DEFINE f == CHOOSE g : Joins(g, q, Len(q))
<1>1. FlattenSeq(q) = f[Len(q)]
  BY DEF FlattenSeq, Joins
<1>2. \E g : Joins(g, q, Len(q))
  BY JoinsExists
<1>3. Joins(f, q, Len(q))
  BY <1>2
<1> QED
  BY <1>1, <1>3

\* One sequence more is joined at the end.
LEMMA FlattenAppend ==
  ASSUME NEW E, NEW q \in Seq(Seq(E)), NEW x \in Seq(E)
  PROVE  /\ FlattenSeq(q) \in Seq(E)
         /\ FlattenSeq(Append(q, x)) = FlattenSeq(q) \o x
<1> DEFINE n == Len(q)
           r == Append(q, x)
<1>1. /\ n \in Nat /\ r \in Seq(Seq(E)) /\ Len(r) = n + 1 /\ r[n + 1] = x
      /\ \A i \in 1..n : r[i] = q[i]
  BY AppendProperties
<1> HIDE DEF r
<1>2. PICK g : Joins(g, r, n + 1) /\ FlattenSeq(r) = g[n + 1]
  <2>1. Len(r) \in Nat /\ Len(r) # 0
    BY <1>1
  <2> QED
    BY <1>1, <2>1, FlattenIs
<1>2a. \A i \in 1..(n + 1) : g[i] = IF i = 1 THEN r[i] ELSE g[i - 1] \o r[i]
  <2>1. n + 1 \in Nat
    BY <1>1
  <2> QED
    BY <1>2, <2>1, JoinsStep, ZenonT(40)
<1>3. CASE n = 0
  <2>1. q = <<>> /\ FlattenSeq(q) = <<>>
    BY <1>3, FlattenNil
  <2>2. g[1] = r[1]
    BY <1>1, <1>2a, <1>3
  <2>3. FlattenSeq(r) = x /\ <<>> \o x = x
    <3>1. g[n + 1] = r[n + 1]
      BY <1>3, <2>2
    <3>2. <<>> \o x = x
      BY ConcatEmptySeq
    <3>3. r[n + 1] = x /\ FlattenSeq(r) = g[n + 1]
      BY <1>1, <1>2
    <3> QED
      BY <3>1, <3>2, <3>3, Zenon
  <2>4. FlattenSeq(q) \in Seq(E)
    <3>1. <<>> \in Seq(E)
      OBVIOUS
    <3> QED
      BY <2>1, <3>1, Zenon
  <2>5. FlattenSeq(r) = FlattenSeq(q) \o x
    BY <2>1, <2>3, Zenon
  <2> QED
    BY <2>4, <2>5 DEF r
<1>4. CASE n # 0
  <2>1. PICK f : Joins(f, q, n) /\ FlattenSeq(q) = f[n]
    BY <1>1, <1>4, FlattenIs
  <2>2. n \in 1..n /\ n + 1 \in 1..(n + 1) /\ n + 1 # 1 /\ (n + 1) - 1 = n /\ n <= n + 1 /\ n + 1 \in Nat
    BY <1>1, <1>4
  <2>3. f[n] = g[n]
    <3>1. \A i \in 1..n : q[i] = r[i]
      BY <1>1
    <3>2. n \in Nat /\ n + 1 \in Nat /\ n \in 1..n /\ n <= n + 1
      BY <1>1, <2>2
    <3>3. Joins(f, q, n) /\ Joins(g, r, n + 1)
      BY <1>2, <2>1
    <3> HIDE DEF n
    <3> QED
      BY <3>1, <3>2, <3>3, JoinsOnce
  <2>4. g[n + 1] = g[n] \o x
    BY <1>1, <1>2a, <2>2
  <2>5. f[n] \in Seq(E)
    BY <2>1, <2>2, JoinsType
  <2> QED
    BY <1>1, <1>2, <2>1, <2>3, <2>4, <2>5 DEF r
<1> QED
  BY <1>3, <1>4

\* What is joined is what the sequences have.
LEMMA FlattenHas ==
  ASSUME NEW E, NEW q \in Seq(Seq(E)), NEW e
  PROVE  (\E k \in 1..Len(FlattenSeq(q)) : FlattenSeq(q)[k] = e)
         <=> \E i \in 1..Len(q) : \E j \in 1..Len(q[i]) : q[i][j] = e
<1> DEFINE n == Len(q)
           Has(s) == \E k \in 1..Len(s) : s[k] = e
           Upto(m) == \E i \in 1..m : Has(q[i])
<1>0. n \in Nat /\ \A i \in 1..n : q[i] \in Seq(E)
  OBVIOUS
<1>1. CASE n = 0
  <2>1. FlattenSeq(q) = <<>>
    BY <1>1, FlattenNil
  <2> QED
    BY <1>1, <2>1
<1>2. CASE n # 0
  <2>1. PICK f : Joins(f, q, n) /\ FlattenSeq(q) = f[n]
    BY <1>0, <1>2, FlattenIs
  <2>1a. \A i \in 1..n : f[i] = IF i = 1 THEN q[i] ELSE f[i - 1] \o q[i]
    BY <1>0, <2>1, JoinsStep, ZenonT(40)
  <2> DEFINE D == {m \in 1..n : ~ (Has(f[m]) <=> Upto(m))}
  <2>2. ASSUME D # {} PROVE FALSE
    <3>1. PICK m \in D : \A j \in D : m <= j
      <4>1. D \in SUBSET Nat
        OBVIOUS
      <4> HIDE DEF D
      <4> QED
        BY <2>2, <4>1, Least
    <3>2. m \in 1..n /\ ~ (Has(f[m]) <=> Upto(m))
      OBVIOUS
    <3>3. CASE m = 1
      <4>1. f[m] = q[1]
        BY <2>1a, <3>2, <3>3
      <4>2. \A i \in 1..m : i = 1
        BY <3>3
      <4> QED
        BY <3>2, <3>3, <4>1, <4>2
    <3>4. CASE m # 1
      <4>1. m - 1 \in 1..n /\ ~ (m <= m - 1)
        BY <3>2, <3>4
      <4>2. Has(f[m - 1]) <=> Upto(m - 1)
        BY <3>1, <4>1
      <4>3. f[m] = f[m - 1] \o q[m]
        BY <2>1a, <3>2, <3>4
      <4>4. f[m - 1] \in Seq(E) /\ q[m] \in Seq(E)
        BY <1>0, <2>1, <3>2, <4>1, JoinsType
      <4>5. Has(f[m - 1] \o q[m]) <=> Has(f[m - 1]) \/ Has(q[m])
        <5>1. ASSUME NEW a \in Seq(E), NEW b \in Seq(E)
              PROVE  Has(a \o b) <=> Has(a) \/ Has(b)
          <6>1. Len(a) \in Nat /\ Len(b) \in Nat /\ Len(a \o b) = Len(a) + Len(b)
            BY ConcatProperties
          <6>2. \A i \in 1..Len(a) : (a \o b)[i] = a[i]
            BY <6>1, ConcatProperties
          <6>3. \A i \in 1..Len(b) : Len(a) + i \in 1..Len(a \o b) /\ (a \o b)[Len(a) + i] = b[i]
            BY <6>1, ConcatProperties
          <6>4. \A i \in 1..Len(a \o b) : i \in 1..Len(a) \/ \E j \in 1..Len(b) : i = Len(a) + j
            <7>1. ASSUME NEW i \in 1..Len(a \o b), i \notin 1..Len(a)
                  PROVE  i - Len(a) \in 1..Len(b) /\ i = Len(a) + (i - Len(a))
              BY <6>1, <7>1
            <7> QED
              BY <7>1, Zenon
          <6>5. \A i \in 1..Len(a) : i \in 1..Len(a \o b)
            BY <6>1
          <6> QED
            <7>1. Has(a) => Has(a \o b)
              BY <6>2, <6>5
            <7>2. Has(b) => Has(a \o b)
              BY <6>3
            <7>3. Has(a \o b) => Has(a) \/ Has(b)
              BY <6>2, <6>3, <6>4
            <7> QED
              BY <7>1, <7>2, <7>3
        <5> HIDE DEF Has
        <5> QED
          BY <4>4, <5>1
      <4>6. \A i \in 1..m : i = m \/ i \in 1..(m - 1)
        BY <3>2
      <4>7. m \in 1..m /\ \A i \in 1..(m - 1) : i \in 1..m
        BY <3>2
      <4>8. Upto(m) <=> Upto(m - 1) \/ Has(q[m])
        <5> HIDE DEF Has
        <5> QED
          BY <4>6, <4>7
      <4> HIDE DEF Has, Upto
      <4> QED
        BY <3>2, <4>2, <4>3, <4>5, <4>8
    <3> QED
      BY <3>3, <3>4
  <2>3. n \in 1..n
    BY <1>0, <1>2
  <2>4. Has(f[n]) <=> Upto(n)
    BY <2>2, <2>3
  <2> QED
    BY <2>1, <2>4
<1> QED
  BY <1>1, <1>2

\* The nodes of a map.
Nodes == DOMAIN map.home

\* The nodes of all walkable ways, one after another.
Refs == FlattenSeq(WalkableRefs)

\* A function on 1..n is a sequence of n elements.
LEMMA FunctionIsSequence ==
  ASSUME NEW E, NEW n \in Nat, NEW f \in [1..n -> E]
  PROVE  f \in Seq(E) /\ Len(f) = n
OBVIOUS

\* The pairs of a way are neighbours of its list of nodes.
LEMMA PairsAre ==
  ASSUME NEW E, NEW refs \in Seq(E)
  PROVE  /\ Pairs(refs) \in Seq(E \X E)
         /\ \A j \in 1..Len(Pairs(refs)) :
               j \in 1..Len(refs) /\ j + 1 \in 1..Len(refs) /\ Pairs(refs)[j] = <<refs[j], refs[j + 1]>>
<1> DEFINE n == Len(refs)
           m == IF n = 0 THEN 0 ELSE n - 1
<1>1. n \in Nat /\ \A i \in 1..n : refs[i] \in E
  OBVIOUS
<1>2. m \in Nat /\ 1..(n - 1) = 1..m
  BY <1>1
<1>3. Pairs(refs) = [i \in 1..m |-> <<refs[i], refs[i + 1]>>]
  BY <1>2 DEF Pairs
<1>4. \A i \in 1..m : i \in 1..n /\ i + 1 \in 1..n
  BY <1>1
<1> HIDE DEF m
<1>5. Pairs(refs) \in [1..m -> E \X E]
  BY <1>1, <1>3, <1>4
<1>6. Pairs(refs) \in Seq(E \X E) /\ Len(Pairs(refs)) = m
  BY <1>2, <1>5
<1> QED
  BY <1>3, <1>4, <1>6

\* The segments join nodes that the first pass collects.
LEMMA SegmentsAre ==
  ASSUME map \in Maps
  PROVE  /\ Refs \in Seq(Nodes)
         /\ Segments \in Seq(Nodes \X Nodes)
         /\ \A k \in 1..Len(Segments) : \A e \in {1, 2} :
               \E i \in 1..Len(Refs) : Refs[i] = Segments[k][e]
<1> DEFINE ways == Picked(map.ways, {i \in DOMAIN map.ways : Walkable(map.ways[i])})
           W == [walkable : BOOLEAN, refs : Seq(Nodes)]
           q == WalkableRefs
           p == [i \in DOMAIN q |-> Pairs(q[i])]
<1>1. map.ways \in Seq(W)
  BY WalkingAssumption DEF Nodes
<1>2. ways \in Seq(W)
  <2> DEFINE S == {i \in DOMAIN map.ways : Walkable(map.ways[i])}
  <2>1. S \in SUBSET (1..Len(map.ways))
    BY <1>1
  <2> HIDE DEF S, W
  <2>2. Picked(map.ways, S) \in Seq(W)
    BY <1>1, <2>1, PickedType, Zenon
  <2> QED
    BY <2>2 DEF S
<1>3. q = [i \in DOMAIN ways |-> ways[i].refs]
  BY DEF WalkableRefs
<1> HIDE DEF ways
<1>4. q \in Seq(Seq(Nodes)) /\ Len(q) \in Nat /\ DOMAIN q = 1..Len(q)
  <2>1. \A i \in 1..Len(ways) : ways[i] \in W
    <3> HIDE DEF W
    <3> QED
      BY <1>2
  <2>2. \A i \in 1..Len(ways) : ways[i].refs \in Seq(Nodes)
    BY <2>1
  <2>3. q \in [1..Len(ways) -> Seq(Nodes)] /\ Len(ways) \in Nat
    BY <1>2, <1>3, <2>2
  <2> HIDE DEF q
  <2> QED
    BY <2>3
<1> HIDE DEF q
<1>5. \A i \in 1..Len(q) : q[i] \in Seq(Nodes)
  BY <1>4
<1>6. \A i \in 1..Len(q) : Pairs(q[i]) \in Seq(Nodes \X Nodes)
  BY <1>5, PairsAre
<1>7. p \in Seq(Seq(Nodes \X Nodes)) /\ Len(p) = Len(q) /\ \A i \in 1..Len(q) : p[i] = Pairs(q[i])
  <2>1. p \in [1..Len(q) -> Seq(Nodes \X Nodes)]
    BY <1>4, <1>6
  <2>2. \A i \in 1..Len(q) : p[i] = Pairs(q[i])
    BY <1>4
  <2>3. Len(q) \in Nat
    BY <1>4
  <2> HIDE DEF p
  <2>4. p \in Seq(Seq(Nodes \X Nodes)) /\ Len(p) = Len(q)
    BY <2>1, <2>3, FunctionIsSequence, Zenon
  <2> QED
    BY <2>2, <2>4
<1>8. Segments = FlattenSeq(p) /\ Refs = FlattenSeq(q)
  BY DEF Segments, q, Refs
<1> HIDE DEF p
<1>9. Refs \in Seq(Nodes)
  BY <1>4, <1>8, FlattenAppend
<1>10. Segments \in Seq(Nodes \X Nodes)
  BY <1>7, <1>8, FlattenAppend
<1>10a. \A e : (\E k \in 1..Len(FlattenSeq(p)) : FlattenSeq(p)[k] = e)
               <=> \E i \in 1..Len(p) : \E j \in 1..Len(p[i]) : p[i][j] = e
  <2>1. p \in Seq(Seq(Nodes \X Nodes))
    BY <1>7
  <2> QED
    BY <2>1, FlattenHas, Zenon
<1>10b. \A e : (\E k \in 1..Len(FlattenSeq(q)) : FlattenSeq(q)[k] = e)
               <=> \E i \in 1..Len(q) : \E j \in 1..Len(q[i]) : q[i][j] = e
  <2>1. q \in Seq(Seq(Nodes))
    BY <1>4
  <2> QED
    BY <2>1, FlattenHas, Zenon
<1>11. ASSUME NEW k \in 1..Len(Segments)
       PROVE  \A e \in {1, 2} : \E i \in 1..Len(Refs) : Refs[i] = Segments[k][e]
  <2>1. PICK i \in 1..Len(p) : \E j \in 1..Len(p[i]) : p[i][j] = Segments[k]
    BY <1>8, <1>10a
  <2>2. PICK j \in 1..Len(p[i]) : p[i][j] = Segments[k]
    BY <2>1
  <2>3. i \in 1..Len(q) /\ p[i] = Pairs(q[i]) /\ q[i] \in Seq(Nodes)
    BY <1>5, <1>7, <2>1
  <2>4. /\ j \in 1..Len(q[i]) /\ j + 1 \in 1..Len(q[i])
        /\ Segments[k] = <<q[i][j], q[i][j + 1]>>
    <3>1. \A l \in 1..Len(Pairs(q[i])) :
             /\ l \in 1..Len(q[i]) /\ l + 1 \in 1..Len(q[i])
             /\ Pairs(q[i])[l] = <<q[i][l], q[i][l + 1]>>
      BY <2>3, PairsAre
    <3> QED
      BY <2>2, <2>3, <3>1
  <2>5. ASSUME NEW l \in 1..Len(q[i]) PROVE \E r \in 1..Len(Refs) : Refs[r] = q[i][l]
    BY <1>8, <1>10b, <2>3
  <2>6. Segments[k][1] = q[i][j] /\ Segments[k][2] = q[i][j + 1]
    BY <2>4
  <2> QED
    BY <2>4, <2>5, <2>6
<1> QED
  BY <1>9, <1>10, <1>11

(***************************************************************************)
(* The segments of a tile, by their place among all segments.              *)
(***************************************************************************)
Touch(t) == {i \in DOMAIN Segments : TouchesTile(t, Segments[i])}

\* How many segments there are.
Total == Len(Segments)

\* The counts, the begins of the ranges and the ranges themselves, after the
\* first n segments or tiles.
Counted(n) == \A t \in Tiles : count[t] = Rank(Touch(t), n)

\* The ranges of the first n tiles follow one another.
Laid(n) == \A t \in Tiles : t < n => offset[t] = IF t = 0 THEN 0 ELSE GroupEnd(t - 1)

\* The first n segments are stored, each at its rank in the range of its tiles.
Stored(n) ==
    \A t \in Tiles :
        /\ cursor[t] = offset[t] + Rank(Touch(t), n)
        /\ Rank(Touch(t), n) > 0 => cursor[t] <= segmentCount
        /\ \A i \in Touch(t) :
              i <= n => LET p == offset[t] + Rank(Touch(t), i) - 1
                        IN  /\ p \in DOMAIN items
                            /\ items[p] = [tile |-> t, pair |-> Segments[i]]

\* The phases that find the ranges filled.
Filled == {"pools", "start", "join", "write"}

\* Once the nodes are resolved, a segment counts for the tiles it touches.
InputInv ==
    /\ map \in Maps
    /\ coordTile \in [Nodes -> Tiles \cup {NoTile}]
    /\ phase = "resolve" => \A i \in 1..Len(Refs) : Refs[i] \in Range(coords)
    /\ phase \in {"count", "layout", "fill"} \cup Filled =>
          \A i \in 1..Len(Refs) : coordTile[Refs[i]] = map.home[Refs[i]]

\* Pass by pass: the segments before the one it is at are counted, the ranges of the
\* tiles before the one it is at are laid out, the segments before the one it is at
\* are stored, all in order.
StoreInv ==
    /\ cursor \in [Tiles -> Nat] /\ segmentCount \in Nat
    /\ phase \in {"collect", "resolve"} => at = 1 /\ \A t \in Tiles : count[t] = 0
    /\ phase = "count" => at \in 1..(Total + 1) /\ Counted(at - 1)
    /\ phase \in {"layout", "fill"} \cup Filled => Counted(Total) /\ capacity = SumFunction(count)
    /\ phase = "layout" => at \in 0..TileCount /\ Laid(at) /\ \A t \in Tiles : t < at => cursor[t] = offset[t]
    /\ phase \in {"fill"} \cup Filled => Laid(TileCount)
    /\ phase = "fill" => at \in 1..(Total + 1) /\ Stored(at - 1)
    /\ phase \in Filled => Stored(Total)

-----------------------------------------------------------------------------
\* Tiles are numbered from 0 to TileCount - 1.
LEMMA TileFacts ==
  /\ TileCount \in Nat /\ TileCount # 0 /\ 0 \in Tiles /\ TileCount - 1 \in Tiles
  /\ \A t \in Tiles : t \in Nat /\ t < TileCount /\ t <= TileCount - 1
  /\ \A t \in Tiles : t # 0 => t - 1 \in Tiles
BY WalkingAssumption DEF Tiles

\* The places of the segments of a tile, and their ranks.
LEMMA TouchFacts ==
  ASSUME map \in Maps, NEW t
  PROVE  /\ Total \in Nat /\ Touch(t) \in SUBSET (1..Total) /\ Touch(t) \in SUBSET Nat
         /\ \A n \in Nat : Rank(Touch(t), n) \in Nat
         /\ \A n \in Nat : Rank(Touch(t), n + 1)
                           = IF n + 1 \in Touch(t) THEN Rank(Touch(t), n) + 1 ELSE Rank(Touch(t), n)
         /\ Rank(Touch(t), 0) = 0
         /\ Rank(Touch(t), Total) = Cardinality(Touch(t))
<1>1. Total \in Nat /\ Touch(t) \in SUBSET (1..Total)
  <2>1. Segments \in Seq(Nodes \X Nodes)
    BY SegmentsAre
  <2>2. Total \in Nat /\ DOMAIN Segments = 1..Total
    BY <2>1 DEF Total
  <2> QED
    BY <2>2 DEF Touch
<1> HIDE DEF Touch
<1>2. Touch(t) \in SUBSET Nat /\ Rank(Touch(t), 0) = 0 /\ Rank(Touch(t), Total) = Cardinality(Touch(t))
  <2>1. /\ Touch(t) \in SUBSET Nat /\ Rank(Touch(t), 0) = 0
        /\ \A n \in Nat : n >= Total => Rank(Touch(t), n) = Cardinality(Touch(t))
    BY <1>1, RankBounds, Zenon
  <2>2. Total >= Total
    BY <1>1
  <2> QED
    BY <1>1, <2>1, <2>2, Zenon
<1>3. \A n \in Nat : /\ Rank(Touch(t), n) \in Nat
                     /\ Rank(Touch(t), n + 1)
                        = IF n + 1 \in Touch(t) THEN Rank(Touch(t), n) + 1 ELSE Rank(Touch(t), n)
  BY <1>2, RankStep
<1> QED
  BY <1>1, <1>2, <1>3

\* Nothing of this changes while the map stays.
LEMMA MapKept ==
  ASSUME map' = map
  PROVE  /\ WalkableRefs' = WalkableRefs /\ Segments' = Segments /\ Refs' = Refs
         /\ Nodes' = Nodes /\ Total' = Total
         /\ \A t : Touch(t)' = Touch(t)
<1>1. WalkableRefs' = WalkableRefs /\ Nodes' = Nodes
  BY DEF WalkableRefs, Nodes
<1>2. Segments' = Segments /\ Refs' = Refs
  BY <1>1 DEF Segments, Refs
<1>3. Total' = Total
  BY <1>2 DEF Total
<1>4. ASSUME NEW t PROVE Touch(t)' = Touch(t)
  BY <1>2 DEF Touch, TouchesTile
<1> QED
  BY <1>1, <1>2, <1>3, <1>4

\* With the nodes resolved, TilesOf gives a segment to the tiles that TouchesTile
\* says it touches.
LEMMA TilesTouched ==
  ASSUME map \in Maps, coordTile \in [Nodes -> Tiles \cup {NoTile}],
         \A i \in 1..Len(Refs) : coordTile[Refs[i]] = map.home[Refs[i]],
         NEW k \in 1..Total
  PROVE  /\ TilesOf(Segments[k]) \in SUBSET Tiles
         /\ \A t \in Tiles : t \in TilesOf(Segments[k]) <=> k \in Touch(t)
<1> DEFINE a == Segments[k][1]
           b == Segments[k][2]
<1>1. /\ Segments \in Seq(Nodes \X Nodes) /\ DOMAIN Segments = 1..Total
      /\ \E i \in 1..Len(Refs) : Refs[i] = a
      /\ \E i \in 1..Len(Refs) : Refs[i] = b
  <2>1. /\ Segments \in Seq(Nodes \X Nodes)
        /\ \A e \in {1, 2} : \E i \in 1..Len(Refs) : Refs[i] = Segments[k][e]
    BY SegmentsAre DEF Total
  <2>2. DOMAIN Segments = 1..Total
    BY <2>1 DEF Total
  <2> QED
    BY <2>1, <2>2
<1>2. coordTile[a] = map.home[a] /\ coordTile[b] = map.home[b]
  BY <1>1
<1>3. coordTile[a] \in Tiles \cup {NoTile} /\ coordTile[b] \in Tiles \cup {NoTile}
  <2>1. Segments[k] \in Nodes \X Nodes
    <3>1. k \in 1..Len(Segments)
      BY DEF Total
    <3> QED
      BY <1>1, <3>1
  <2>2. a \in Nodes /\ b \in Nodes
    BY <2>1
  <2> QED
    BY <2>2
<1>4. TilesOf(Segments[k]) \in SUBSET Tiles
  BY <1>3 DEF TilesOf
<1>5. ASSUME NEW t \in Tiles PROVE t \in TilesOf(Segments[k]) <=> k \in Touch(t)
  <2>1. k \in Touch(t) <=> TouchesTile(t, Segments[k])
    BY <1>1 DEF Touch
  <2>2. TouchesTile(t, Segments[k])
        <=> coordTile[a] # NoTile /\ coordTile[b] # NoTile /\ t \in {coordTile[a], coordTile[b]}
    BY <1>2 DEF TouchesTile
  <2> QED
    BY <2>1, <2>2 DEF TilesOf
<1> QED
  BY <1>4, <1>5

-----------------------------------------------------------------------------
(***************************************************************************)
(* The ranges follow one another from 0, and the store has room for all.   *)
(***************************************************************************)
LEMMA RangesFollow ==
  ASSUME count \in [Tiles -> Nat], offset \in [Tiles -> Nat], Laid(TileCount),
         NEW t \in Tiles, NEW u \in Tiles, t < u
  PROVE  GroupEnd(t) <= offset[u]
<1> DEFINE D == {v \in Tiles : t < v /\ ~ (GroupEnd(t) <= offset[v])}
<1>1. ASSUME D # {} PROVE FALSE
  <2>1. PICK v \in D : \A w \in D : v <= w
    <3>1. D \in SUBSET Nat
      BY TileFacts
    <3> HIDE DEF D
    <3> QED
      BY <1>1, <3>1, Least
  <2>2. v \in Tiles /\ t < v /\ ~ (GroupEnd(t) <= offset[v]) /\ v \in Nat /\ t \in Nat /\ v < TileCount
    BY TileFacts
  <2>3. v - 1 \in Tiles /\ offset[v] = offset[v - 1] + count[v - 1]
    BY <2>2, TileFacts DEF Laid, GroupEnd
  <2>4. offset[v - 1] \in Nat /\ count[v - 1] \in Nat /\ offset[t] \in Nat /\ count[t] \in Nat
    BY <2>3
  <2>5. CASE t = v - 1
    BY <2>2, <2>3, <2>4, <2>5 DEF GroupEnd
  <2>6. CASE t # v - 1
    <3>1. t < v - 1 /\ ~ (v <= v - 1)
      BY <2>2, <2>6
    <3>2. GroupEnd(t) <= offset[v - 1]
      BY <2>1, <2>3, <3>1
    <3> QED
      BY <2>2, <2>3, <2>4, <3>2 DEF GroupEnd
  <2> QED
    BY <2>5, <2>6
<1> QED
  BY <1>1

\* Added up, the counts are the end of the last range.
LEMMA RangesFit ==
  ASSUME count \in [Tiles -> Nat], offset \in [Tiles -> Nat], Laid(TileCount),
         NEW t \in Tiles
  PROVE  GroupEnd(t) \in Nat /\ SumFunction(count) \in Nat /\ GroupEnd(t) <= SumFunction(count)
<1> DEFINE End == GroupEnd(TileCount - 1)
           Covered(s) == {x \in 0..(End - 1) : \E u \in s : offset[u] <= x /\ x < GroupEnd(u)}
           g == [s \in SUBSET Tiles |-> Cardinality(Covered(s))]
           Pick(s) == CHOOSE x \in s : TRUE
           Adds(f) == f = [s \in SUBSET Tiles |->
                              IF s = {} THEN 0 ELSE count[Pick(s)] + f[s \ {Pick(s)}]]
<1>1. /\ \A u \in Tiles : offset[u] \in Nat /\ count[u] \in Nat /\ u \in Nat
                          /\ GroupEnd(u) \in Nat /\ GroupEnd(u) = offset[u] + count[u]
      /\ TileCount - 1 \in Tiles /\ 0 \in Tiles
  BY TileFacts DEF GroupEnd
<1>2. \A u \in Tiles : GroupEnd(u) <= End
  <2>1. ASSUME NEW u \in Tiles PROVE GroupEnd(u) <= End
    <3>1. CASE u = TileCount - 1
      BY <1>1, <3>1
    <3>2. CASE u # TileCount - 1
      <4>1. u < TileCount - 1
        BY <3>2, TileFacts
      <4>2. GroupEnd(u) <= offset[TileCount - 1]
        BY <1>1, <4>1, RangesFollow
      <4> QED
        BY <1>1, <4>2
    <3> QED
      BY <3>1, <3>2
  <2> QED
    BY <2>1
<1>3. \A s \in SUBSET Tiles : IsFiniteSet(Covered(s)) /\ Cardinality(Covered(s)) \in Nat
  <2>1. ASSUME NEW s \in SUBSET Tiles PROVE IsFiniteSet(Covered(s)) /\ Cardinality(Covered(s)) \in Nat
    <3>1. IsFiniteSet(0..(End - 1))
      <4>1. End \in Nat
        BY <1>1
      <4> HIDE DEF End
      <4>2. 0 \in Int /\ End - 1 \in Int
        BY <4>1
      <4> QED
        BY <4>2, FS_Interval
    <3>2. Covered(s) \in SUBSET (0..(End - 1))
      OBVIOUS
    <3> HIDE DEF Covered
    <3> QED
      BY <3>1, <3>2, FS_Subset, FS_CardinalityType
  <2> QED
    BY <2>1
<1>4. ASSUME NEW s \in SUBSET Tiles, NEW u \in s
      PROVE  Cardinality(Covered(s)) = count[u] + Cardinality(Covered(s \ {u}))
  <2> DEFINE own == offset[u]..(GroupEnd(u) - 1)
             rest == Covered(s \ {u})
  <2>1. u \in Tiles /\ offset[u] \in Nat /\ count[u] \in Nat /\ GroupEnd(u) = offset[u] + count[u]
        /\ GroupEnd(u) <= End /\ End \in Nat
    BY <1>1, <1>2
  <2>2. IsFiniteSet(own) /\ Cardinality(own) = count[u]
    <3>1. offset[u] \in Int /\ GroupEnd(u) - 1 \in Int
      BY <2>1
    <3>2. IsFiniteSet(own) /\ Cardinality(own) = IF offset[u] > GroupEnd(u) - 1 THEN 0
                                                 ELSE (GroupEnd(u) - 1) - offset[u] + 1
      BY <3>1, FS_Interval
    <3> QED
      BY <2>1, <3>2
  <2>3. own = {x \in 0..(End - 1) : offset[u] <= x /\ x < GroupEnd(u)}
    BY <2>1
  <2>4. Covered(s) = own \cup rest
    BY <2>3
  <2>5. own \cap rest = {}
    <3>1. ASSUME NEW x \in own, NEW v \in s \ {u}, offset[v] <= x, x < GroupEnd(v) PROVE FALSE
      <4>1. v \in Tiles /\ v # u /\ v \in Nat /\ u \in Nat
        BY <1>1
      <4>2. GroupEnd(v) <= offset[u] \/ GroupEnd(u) <= offset[v]
        <5>1. CASE v < u
          BY <4>1, <5>1, RangesFollow
        <5>2. CASE u < v
          BY <2>1, <4>1, <5>2, RangesFollow
        <5> QED
          BY <4>1, <5>1, <5>2
      <4> QED
        BY <1>1, <2>1, <3>1, <4>1, <4>2
    <3> QED
      BY <3>1
  <2>6. IsFiniteSet(rest) /\ Cardinality(rest) \in Nat
    <3>1. s \ {u} \in SUBSET Tiles
      OBVIOUS
    <3> HIDE DEF Covered
    <3> QED
      BY <1>3, <3>1
  <2> HIDE DEF own, rest, Covered
  <2>7. Cardinality(own \cup rest) = Cardinality(own) + Cardinality(rest) - Cardinality(own \cap rest)
    BY <2>2, <2>6, FS_Union
  <2>8. Cardinality(own \cap rest) = 0
    BY <2>5, FS_EmptySet
  <2>9. Cardinality(own \cup rest) = count[u] + Cardinality(rest)
    BY <2>1, <2>2, <2>6, <2>7, <2>8
  <2> QED
    BY <2>4, <2>9 DEF rest
<1>5. Covered({}) = {} /\ Cardinality({}) = 0
  BY FS_EmptySet
<1> HIDE DEF Covered
<1>6. ASSUME NEW s \in SUBSET Tiles
      PROVE  g[s] = IF s = {} THEN 0 ELSE count[Pick(s)] + g[s \ {Pick(s)}]
  <2>1. g[s] = Cardinality(Covered(s)) /\ g[s \ {Pick(s)}] = Cardinality(Covered(s \ {Pick(s)}))
    OBVIOUS
  <2>2. s # {} => Pick(s) \in s
    OBVIOUS
  <2> HIDE DEF g, Pick
  <2> QED
    BY <1>4, <1>5, <2>1, <2>2
<1>7. Adds(g)
  <2>1. g = [s \in SUBSET Tiles |-> g[s]]
    OBVIOUS
  <2> HIDE DEF g
  <2>2. [s \in SUBSET Tiles |-> g[s]]
        = [s \in SUBSET Tiles |-> IF s = {} THEN 0 ELSE count[Pick(s)] + g[s \ {Pick(s)}]]
    BY <1>6
  <2> QED
    BY <2>1, <2>2, Zenon
<1>8. SumFunction(count) = (CHOOSE f : Adds(f))[Tiles]
  <2>1. DOMAIN count = Tiles
    OBVIOUS
  <2> QED
    BY <2>1 DEF SumFunction, SumFunctionOnSet, FoldFunctionOnSet, MapThenFoldSet
<1> DEFINE f == CHOOSE f : Adds(f)
<1>9. Adds(f)
  <2> HIDE DEF Adds, g
  <2> QED
    BY <1>7
<1>10. \A s \in SUBSET Tiles : f[s] = IF s = {} THEN 0 ELSE count[Pick(s)] + f[s \ {Pick(s)}]
  <2> HIDE DEF f
  <2> QED
    BY <1>9, Zenon
<1> HIDE DEF f, g
<1>11. f[Tiles] = g[Tiles]
  <2> DEFINE D == {n \in Nat : \E s \in SUBSET Tiles : IsFiniteSet(s) /\ Cardinality(s) = n /\ f[s] # g[s]}
  <2>1. ASSUME D # {} PROVE FALSE
    <3>1. PICK n \in D : \A m \in D : n <= m
      <4>1. D \in SUBSET Nat
        OBVIOUS
      <4> HIDE DEF D
      <4> QED
        BY <2>1, <4>1, Least
    <3>2. PICK s \in SUBSET Tiles : IsFiniteSet(s) /\ Cardinality(s) = n /\ f[s] # g[s]
      OBVIOUS
    <3>3. s # {}
      BY <1>6, <1>10, <3>2
    <3>4. PICK x \in s : x = Pick(s)
      BY <3>3
    <3> HIDE DEF Pick
    <3>5. s \ {x} \in SUBSET Tiles /\ IsFiniteSet(s \ {x}) /\ Cardinality(s \ {x}) = n - 1
      BY <3>2, <3>4, FS_RemoveElement
    <3>6. n - 1 \in Nat /\ ~ (n <= n - 1)
      BY <3>1, <3>5, FS_CardinalityType
    <3>7. n - 1 \notin D
      BY <3>1, <3>6
    <3>8. f[s \ {x}] = g[s \ {x}]
      BY <3>5, <3>6, <3>7
    <3> QED
      BY <1>6, <1>10, <3>2, <3>3, <3>4, <3>8
  <2>2. IsFiniteSet(Tiles) /\ Cardinality(Tiles) \in Nat
    BY TileFacts, FS_Interval, FS_CardinalityType DEF Tiles
  <2> QED
    BY <2>1, <2>2
<1>12. Covered(Tiles) = 0..(End - 1)
  <2>1. ASSUME NEW x \in 0..(End - 1) PROVE \E u \in Tiles : offset[u] <= x /\ x < GroupEnd(u)
    <3> DEFINE D == {u \in Tiles : x < GroupEnd(u)}
    <3>1. D \in SUBSET Nat /\ TileCount - 1 \in D
      BY <1>1
    <3>2. PICK u \in D : \A v \in D : u <= v
      <4> HIDE DEF D
      <4> QED
        BY <3>1, Least
    <3>3. u \in Tiles /\ x < GroupEnd(u) /\ u \in Nat /\ u < TileCount
      BY TileFacts
    <3>4. CASE u = 0
      <4>1. offset[u] = 0
        BY <3>3, <3>4 DEF Laid
      <4> QED
        BY <3>3, <4>1
    <3>5. CASE u # 0
      <4>1. u - 1 \in Tiles /\ ~ (u <= u - 1)
        BY <3>3, <3>5, TileFacts
      <4>2. ~ (x < GroupEnd(u - 1))
        BY <3>2, <4>1
      <4>3. offset[u] = GroupEnd(u - 1)
        BY <3>3, <3>5 DEF Laid
      <4> QED
        BY <1>1, <3>3, <4>1, <4>2, <4>3
    <3> QED
      BY <3>4, <3>5
  <2> QED
    BY <2>1 DEF Covered
<1>13. Cardinality(0..(End - 1)) = End
  <2>1. End \in Nat
    BY <1>1
  <2> HIDE DEF End
  <2>2. Cardinality(0..(End - 1)) = IF 0 > End - 1 THEN 0 ELSE (End - 1) - 0 + 1
    BY <2>1, FS_Interval
  <2> QED
    BY <2>1, <2>2
<1>14. SumFunction(count) = End
  BY <1>8, <1>11, <1>12, <1>13 DEF f, g
<1> QED
  BY <1>1, <1>2, <1>14

\* The phases in which the tiles of the nodes are known.
Resolved == {"count", "layout", "fill"} \cup Filled

\* All that follows the first two passes leaves the input alone.
LEMMA InputKept ==
  ASSUME \/ CountSegment \/ CountDone \/ LayoutTile \/ LayoutDone \/ FillSegment \/ FillDone
         \/ MakePools \/ StartWorker \/ StartFails \/ AllStarted \/ Join \/ AllJoined
         \/ WriteTile \/ WriteDone \/ (\E w \in Workers : Worker(w)) \/ UNCHANGED vars
  PROVE  /\ UNCHANGED <<map, coords, coordTile>>
         /\ phase' \in Resolved => phase \in Resolved
         /\ phase' = "resolve" => phase = "resolve"
BY DEF CountSegment, CountDone, LayoutTile, LayoutDone, FillSegment, FillDone, MakePools, StartWorker,
       StartFails, AllStarted, Join, AllJoined, WriteTile, WriteDone, Worker, Fails, MainAt, MainGoes,
       vars, inputVars, mainVars, Resolved, Filled

\* The input is read from a map.
LEMMA InputInit == Init => InputInv
<1> SUFFICES ASSUME Init PROVE InputInv
  OBVIOUS
<1>1. map \in Maps /\ phase = "collect" /\ coordTile = [n \in Nodes |-> NoTile]
  BY DEF Init, Nodes
<1> QED
  BY <1>1 DEF InputInv, Filled

\* Once they are resolved, the tiles of the nodes are those of the map.
LEMMA InputStep == InputInv /\ [Next]_vars => InputInv'
<1> SUFFICES ASSUME InputInv, [Next]_vars PROVE InputInv'
  OBVIOUS
<1>1. map \in Maps /\ coordTile \in [Nodes -> Tiles \cup {NoTile}]
  BY DEF InputInv
<1>2. CASE CollectRefs
  <2>1. /\ UNCHANGED <<map, coordTile>>
        /\ \/ phase' = "resolve" /\ coords' = FirstMet(Refs)
           \/ phase' = "done"
    BY <1>2 DEF CollectRefs, Fails, MainAt, MainGoes, inputVars, Refs
  <2>2. Nodes' = Nodes /\ Refs' = Refs
    BY <2>1, MapKept
  <2>3. CASE phase' = "resolve" /\ coords' = FirstMet(Refs)
    <3>1. Refs \in Seq(Nodes)
      BY <1>1, SegmentsAre
    <3>2. /\ FirstMet(Refs) \in Seq(Nodes)
          /\ \A i \in 1..Len(Refs) : \E k \in 1..Len(FirstMet(Refs)) : FirstMet(Refs)[k] = Refs[i]
      BY <3>1, FirstMetIs, ZenonT(40)
    <3>3. \A i \in 1..Len(Refs) : Refs[i] \in Range(FirstMet(Refs))
      <4>1. DOMAIN FirstMet(Refs) = 1..Len(FirstMet(Refs))
        BY <3>2
      <4> QED
        BY <3>2, <4>1 DEF Range
    <3> QED
      BY <1>1, <2>1, <2>2, <2>3, <3>3 DEF InputInv, Filled
  <2>4. CASE phase' = "done"
    BY <1>1, <2>1, <2>2, <2>4 DEF InputInv, Filled
  <2> QED
    BY <2>1, <2>3, <2>4
<1>3. CASE ResolveCoords
  <2>1. /\ UNCHANGED map /\ phase = "resolve"
        /\ \/ /\ phase' = "count"
              /\ coordTile' = [n \in Nodes |-> IF n \in Range(coords) THEN map.home[n] ELSE NoTile]
           \/ phase' = "done" /\ UNCHANGED coordTile
    BY <1>3 DEF ResolveCoords, Fails, MainAt, MainGoes, inputVars, Nodes
  <2>2. Nodes' = Nodes /\ Refs' = Refs
    BY <2>1, MapKept
  <2>3. CASE /\ phase' = "count"
             /\ coordTile' = [n \in Nodes |-> IF n \in Range(coords) THEN map.home[n] ELSE NoTile]
    <3>1. \A n \in Nodes : map.home[n] \in Tiles \cup {NoTile}
      BY <1>1, WalkingAssumption DEF Nodes
    <3>2. coordTile' \in [Nodes -> Tiles \cup {NoTile}]
      BY <2>3, <3>1
    <3>3. \A i \in 1..Len(Refs) : Refs[i] \in Nodes /\ Refs[i] \in Range(coords)
      <4>1. Refs \in Seq(Nodes)
        BY <1>1, SegmentsAre
      <4>2. \A i \in 1..Len(Refs) : Refs[i] \in Nodes
        BY <4>1
      <4>3. \A i \in 1..Len(Refs) : Refs[i] \in Range(coords)
        BY <2>1 DEF InputInv
      <4> QED
        BY <4>2, <4>3
    <3>4. \A i \in 1..Len(Refs) : coordTile'[Refs[i]] = map.home[Refs[i]]
      BY <2>3, <3>3
    <3> QED
      BY <1>1, <2>1, <2>2, <2>3, <3>2, <3>4 DEF InputInv
  <2>4. CASE phase' = "done" /\ UNCHANGED coordTile
    BY <1>1, <2>1, <2>2, <2>4 DEF InputInv, Filled
  <2> QED
    BY <2>1, <2>3, <2>4
<1>4. CASE ~ CollectRefs /\ ~ ResolveCoords
  <2>1. /\ UNCHANGED <<map, coords, coordTile>>
        /\ phase' \in Resolved => phase \in Resolved
        /\ phase' = "resolve" => phase = "resolve"
    BY <1>4, InputKept DEF Next, Main, Returned
  <2>2. Nodes' = Nodes /\ Refs' = Refs
    BY <2>1, MapKept
  <2> QED
    BY <2>1, <2>2 DEF InputInv, Resolved
<1> QED
  BY <1>2, <1>3, <1>4

-----------------------------------------------------------------------------
(***************************************************************************)
(* The store.                                                              *)
(***************************************************************************)
LEMMA StoreInit == Init => StoreInv
BY TileFacts DEF Init, StoreInv, Filled

\* A step that leaves the input and the store alone, and goes no further than
\* from one phase of the build to the next.
LEMMA StoreSame ==
  ASSUME StoreInv, UNCHANGED <<map, storeVars>>,
         \/ phase' = phase /\ UNCHANGED at
         \/ phase' \in Filled /\ phase \in Filled
         \/ phase' = "resolve" /\ phase = "collect" /\ UNCHANGED at
         \/ phase' = "done"
  PROVE  StoreInv'
<1>1. UNCHANGED <<count, offset, cursor, capacity, segmentCount, items>>
  BY DEF storeVars
<1>2. /\ Segments' = Segments /\ Total' = Total
      /\ \A t : Touch(t)' = Touch(t)
  BY MapKept
<1>4. /\ phase' = phase /\ UNCHANGED at => StoreInv'
      /\ phase' \in Filled /\ phase \in Filled => StoreInv'
  BY <1>1, <1>2 DEF StoreInv, Counted, Laid, GroupEnd, Stored, Filled
<1>5. /\ phase' = "resolve" /\ phase = "collect" /\ UNCHANGED at => StoreInv'
      /\ phase' = "done" => StoreInv'
  BY <1>1 DEF StoreInv, Filled
<1> QED
  BY <1>4, <1>5

\* The place of a segment in the store is that of no other.
LEMMA PlacesApart ==
  ASSUME map \in Maps, count \in [Tiles -> Nat], offset \in [Tiles -> Nat],
         Counted(Total), Laid(TileCount),
         NEW t \in Tiles, NEW i \in Touch(t), NEW u \in Tiles, NEW j \in Touch(u)
  PROVE  /\ Rank(Touch(t), i) \in 1..count[t]
         /\ offset[t] + Rank(Touch(t), i) = offset[u] + Rank(Touch(u), j) => t = u /\ i = j
<1>1. ASSUME NEW s \in Tiles, NEW k \in Touch(s) PROVE Rank(Touch(s), k) \in 1..count[s]
  <2>1. Total \in Nat /\ Touch(s) \in SUBSET (1..Total) /\ Rank(Touch(s), Total) = Cardinality(Touch(s))
    BY TouchFacts
  <2>2. count[s] = Cardinality(Touch(s))
    BY <2>1 DEF Counted
  <2>3. \A l \in Touch(s) : Rank(Touch(s), l) \in 1..Cardinality(Touch(s))
    BY <2>1, RankOnto, Zenon
  <2> QED
    BY <2>2, <2>3
<1>2. CASE t = u
  <2>1. Total \in Nat /\ Touch(t) \in SUBSET (1..Total) /\ Rank(Touch(t), i) \in Nat /\ Rank(Touch(t), j) \in Nat
    BY <1>1, <1>2, TouchFacts
  <2>2. \A k, l \in Touch(t) : Rank(Touch(t), k) = Rank(Touch(t), l) => k = l
    BY <2>1, RankOnto, Zenon
  <2>3. offset[t] \in Nat
    OBVIOUS
  <2>4. offset[t] + Rank(Touch(t), i) = offset[t] + Rank(Touch(t), j)
        => Rank(Touch(t), i) = Rank(Touch(t), j)
    BY <2>1, <2>3
  <2> QED
    BY <1>1, <1>2, <2>2, <2>4
<1>3. CASE t # u
  <2>1. /\ Rank(Touch(t), i) \in 1..count[t] /\ Rank(Touch(u), j) \in 1..count[u]
        /\ offset[t] \in Nat /\ offset[u] \in Nat /\ count[t] \in Nat /\ count[u] \in Nat
        /\ t \in Nat /\ u \in Nat
    BY <1>1, TileFacts
  <2>2. GroupEnd(t) <= offset[u] \/ GroupEnd(u) <= offset[t]
    <3>1. t < u \/ u < t
      BY <1>3, <2>1
    <3> QED
      BY <3>1, RangesFollow
  <2> QED
    BY <2>1, <2>2 DEF GroupEnd
<1> QED
  BY <1>1, <1>2, <1>3

\* One more segment is counted.
LEMMA StoreCounts ==
  ASSUME InputInv, StoreInv, count \in [Tiles -> Nat], CountSegment
  PROVE  StoreInv'
<1>1. /\ phase = "count" /\ at <= Total
      /\ UNCHANGED <<map, offset, cursor, capacity, segmentCount, items>>
      /\ \/ /\ count' = [t \in Tiles |-> IF t \in TilesOf(Segments[at]) THEN count[t] + 1 ELSE count[t]]
            /\ at' = at + 1 /\ phase' = "count"
         \/ phase' = "done"
  BY DEF CountSegment, Fails, MainAt, MainGoes, inputVars, storeVars, Total
<1>2. at \in 1..(Total + 1) /\ Counted(at - 1) /\ map \in Maps
  BY <1>1 DEF StoreInv, InputInv
<1>3. Total' = Total /\ \A t : Touch(t)' = Touch(t)
  BY <1>1, MapKept
<1>4. CASE phase' = "done"
  BY <1>1, <1>4 DEF StoreInv, Filled
<1>5. CASE /\ count' = [t \in Tiles |-> IF t \in TilesOf(Segments[at]) THEN count[t] + 1 ELSE count[t]]
           /\ at' = at + 1 /\ phase' = "count"
  <2>1. Total \in Nat /\ at \in 1..Total /\ at \in Nat /\ at - 1 \in Nat /\ (at - 1) + 1 = at
    BY <1>1, <1>2, TouchFacts
  <2>2. \A t \in Tiles : t \in TilesOf(Segments[at]) <=> at \in Touch(t)
    BY <1>1, <1>2, <2>1, TilesTouched DEF InputInv
  <2>3. ASSUME NEW t \in Tiles PROVE count'[t] = Rank(Touch(t), at)
    <3>1. Rank(Touch(t), (at - 1) + 1)
          = IF (at - 1) + 1 \in Touch(t) THEN Rank(Touch(t), at - 1) + 1 ELSE Rank(Touch(t), at - 1)
      BY <1>2, <2>1, TouchFacts
    <3>2. count[t] = Rank(Touch(t), at - 1)
      BY <1>2 DEF Counted
    <3> QED
      BY <1>5, <2>1, <2>2, <3>1, <3>2
  <2>4. at' \in 1..(Total + 1) /\ at' - 1 = at
    BY <1>5, <2>1
  <2>5. Counted(at - 1)'
    BY <1>3, <2>3, <2>4 DEF Counted
  <2> QED
    BY <1>1, <1>3, <1>5, <2>4, <2>5 DEF StoreInv, Filled
<1> QED
  BY <1>1, <1>4, <1>5

\* The store is made as large as the counts add up to.
LEMMA StoreSized ==
  ASSUME InputInv, StoreInv, CountDone
  PROVE  StoreInv'
<1>1. /\ phase = "count" /\ at > Total
      /\ UNCHANGED <<map, count, offset, cursor, segmentCount, items>>
      /\ \/ capacity' = SumFunction(count) /\ at' = 0 /\ phase' = "layout"
         \/ phase' = "done"
  BY DEF CountDone, Fails, MainAt, MainGoes, inputVars, storeVars, Total
<1>2. at \in 1..(Total + 1) /\ Counted(at - 1) /\ map \in Maps
  BY <1>1 DEF StoreInv, InputInv
<1>3. Total' = Total /\ \A t : Touch(t)' = Touch(t)
  BY <1>1, MapKept
<1>4. CASE phase' = "done"
  BY <1>1, <1>4 DEF StoreInv, Filled
<1>5. CASE capacity' = SumFunction(count) /\ at' = 0 /\ phase' = "layout"
  <2>1. Total \in Nat /\ at - 1 = Total
    BY <1>1, <1>2, TouchFacts
  <2>2. Counted(Total)'
    BY <1>1, <1>2, <1>3, <2>1 DEF Counted
  <2>3. at' \in 0..TileCount /\ Laid(at)' /\ \A t \in Tiles : ~ (t < at')
    BY <1>5, TileFacts DEF Laid
  <2> QED
    BY <1>1, <1>5, <2>2, <2>3 DEF StoreInv, Filled
<1> QED
  BY <1>1, <1>4, <1>5

\* One more range is laid out, behind the one before it.
LEMMA StoreLaid ==
  ASSUME InputInv, StoreInv, count \in [Tiles -> Nat], offset \in [Tiles -> Nat], LayoutTile
  PROVE  StoreInv'
<1> DEFINE begin == IF at = 0 THEN 0 ELSE offset[at - 1] + count[at - 1]
<1>1. /\ phase = "layout" /\ at < TileCount
      /\ UNCHANGED <<map, count, capacity, segmentCount, items>>
      /\ offset' = [offset EXCEPT ![at] = begin] /\ cursor' = [cursor EXCEPT ![at] = begin]
      /\ at' = at + 1 /\ phase' = "layout"
  BY DEF LayoutTile, MainAt, MainGoes, inputVars
<1>2. /\ Counted(Total) /\ capacity = SumFunction(count)
      /\ at \in 0..TileCount /\ Laid(at) /\ \A t \in Tiles : t < at => cursor[t] = offset[t]
      /\ cursor \in [Tiles -> Nat] /\ segmentCount \in Nat
  BY <1>1 DEF StoreInv
<1>3. Total' = Total /\ \A t : Touch(t)' = Touch(t)
  BY <1>1, MapKept
<1>4. at \in Tiles /\ at \in Nat /\ (at # 0 => at - 1 \in Tiles)
  BY <1>1, <1>2, TileFacts DEF Tiles
<1>5. begin \in Nat
  BY <1>4
<1>6. /\ cursor' \in [Tiles -> Nat] /\ cursor'[at] = begin /\ offset'[at] = begin
      /\ \A t \in Tiles : t # at => cursor'[t] = cursor[t] /\ offset'[t] = offset[t]
  BY <1>1, <1>2, <1>4, <1>5
<1>7. begin = IF at = 0 THEN 0 ELSE GroupEnd(at - 1)
  BY DEF GroupEnd
<1> HIDE DEF begin
<1>8. ASSUME NEW t \in Tiles, t < at + 1
      PROVE  offset'[t] = (IF t = 0 THEN 0 ELSE GroupEnd(t - 1)') /\ cursor'[t] = offset'[t]
  <2>1. t \in Nat /\ (t # 0 => t - 1 \in Tiles)
    BY TileFacts
  <2>2. t # 0 => GroupEnd(t - 1)' = GroupEnd(t - 1)
    <3>1. t # 0 => t - 1 # at
      BY <1>4, <1>8, <2>1
    <3> QED
      BY <1>1, <1>6, <2>1, <3>1 DEF GroupEnd
  <2>3. CASE t = at
    BY <1>6, <1>7, <2>2, <2>3
  <2>4. CASE t # at
    <3>1. t < at
      BY <1>4, <1>8, <2>1, <2>4
    <3> QED
      BY <1>2, <1>6, <2>2, <2>4, <3>1 DEF Laid
  <2> QED
    BY <2>3, <2>4
<1>9. at' \in 0..TileCount
  BY <1>1, <1>4, TileFacts
<1>10. Laid(at)'
  BY <1>1, <1>8 DEF Laid
<1>11. Counted(Total)'
  BY <1>1, <1>2, <1>3 DEF Counted
<1> QED
  BY <1>1, <1>2, <1>6, <1>8, <1>9, <1>10, <1>11 DEF StoreInv, Filled

\* With all ranges laid out, the storing pass begins at the begin of each.
LEMMA StoreOpened ==
  ASSUME InputInv, StoreInv, offset \in [Tiles -> Nat], LayoutDone
  PROVE  StoreInv'
<1>1. /\ phase = "layout" /\ at = TileCount /\ at' = 1 /\ phase' = "fill"
      /\ UNCHANGED <<map, count, offset, cursor, capacity, segmentCount, items>>
  BY DEF LayoutDone, MainAt, MainGoes, inputVars, storeVars
<1>2. /\ Counted(Total) /\ capacity = SumFunction(count) /\ map \in Maps
      /\ Laid(TileCount) /\ \A t \in Tiles : t < TileCount => cursor[t] = offset[t]
      /\ cursor \in [Tiles -> Nat] /\ segmentCount \in Nat
  BY <1>1 DEF StoreInv, InputInv
<1>3. Total' = Total /\ \A t : Touch(t)' = Touch(t)
  BY <1>1, MapKept
<1>4. Counted(Total)' /\ Laid(TileCount)'
  BY <1>1, <1>2, <1>3 DEF Counted, Laid, GroupEnd
<1>5. at' \in 1..(Total' + 1) /\ at' - 1 = 0
  BY <1>1, <1>2, <1>3, TouchFacts
<1>6. ASSUME NEW t \in Tiles
      PROVE  /\ cursor'[t] = offset'[t] + Rank(Touch(t), 0)
             /\ Rank(Touch(t), 0) = 0
             /\ \A i \in Touch(t) : ~ (i <= 0)
  <2>1. Rank(Touch(t), 0) = 0 /\ Touch(t) \in SUBSET (1..Total) /\ Total \in Nat
    BY <1>2, TouchFacts
  <2>2. cursor[t] = offset[t] /\ offset[t] \in Nat
    BY <1>2, TileFacts
  <2>3. \A i \in Touch(t) : ~ (i <= 0)
    BY <2>1
  <2> QED
    BY <1>1, <2>1, <2>2, <2>3
<1>7. Stored(at - 1)'
  BY <1>3, <1>5, <1>6 DEF Stored
<1> QED
  BY <1>1, <1>2, <1>4, <1>5, <1>7 DEF StoreInv, Filled

\* The larger of a few numbers.
LEMMA MaxOfFew ==
  ASSUME NEW a \in Nat, NEW b \in Nat, NEW c \in Nat, NEW S, a \in S, S \subseteq {a, b, c}
  PROVE  Max(S) \in S /\ \A x \in S : x <= Max(S)
<1>1. \E x \in S : \A y \in S : x >= y
  <2>1. CASE b \in S /\ c \in S
    BY <2>1
  <2>2. CASE b \in S /\ c \notin S
    BY <2>2
  <2>3. CASE b \notin S /\ c \in S
    BY <2>3
  <2>4. CASE b \notin S /\ c \notin S
    BY <2>4
  <2> QED
    BY <2>1, <2>2, <2>3, <2>4
<1>2. Max(S) \in S /\ \A y \in S : Max(S) >= y
  BY <1>1 DEF Max
<1>3. \A x \in S : x \in Nat
  OBVIOUS
<1> QED
  BY <1>2, <1>3

\* There is always room in the store.
LEMMA RoomInStore ==
  ASSUME InputInv, StoreInv, count \in [Tiles -> Nat], offset \in [Tiles -> Nat],
         phase = "fill", at <= Total, NEW t \in Tiles, at \in Touch(t)
  PROVE  /\ cursor[t] = offset[t] + Rank(Touch(t), at) - 1
         /\ cursor[t] \in Nat /\ cursor[t] < GroupEnd(t) /\ cursor[t] < capacity /\ capacity \in Nat
<1>1. /\ map \in Maps /\ Counted(Total) /\ capacity = SumFunction(count) /\ Laid(TileCount)
      /\ at \in 1..(Total + 1) /\ Stored(at - 1) /\ cursor \in [Tiles -> Nat]
  BY DEF StoreInv, InputInv, Filled
<1>2. Total \in Nat /\ at \in 1..Total /\ at - 1 \in Nat /\ (at - 1) + 1 = at
  BY <1>1, TouchFacts
<1>3. Rank(Touch(t), at) = Rank(Touch(t), at - 1) + 1 /\ Rank(Touch(t), at - 1) \in Nat
  <2>1. Rank(Touch(t), (at - 1) + 1)
        = IF (at - 1) + 1 \in Touch(t) THEN Rank(Touch(t), at - 1) + 1 ELSE Rank(Touch(t), at - 1)
    BY <1>1, <1>2, TouchFacts
  <2>2. Rank(Touch(t), at - 1) \in Nat
    BY <1>1, <1>2, TouchFacts
  <2> QED
    BY <1>2, <2>1, <2>2
<1>4. cursor[t] = offset[t] + Rank(Touch(t), at - 1)
  BY <1>1 DEF Stored
<1>5. Rank(Touch(t), at) \in 1..count[t]
  BY <1>1, PlacesApart
<1>6. GroupEnd(t) <= capacity /\ GroupEnd(t) \in Nat /\ capacity \in Nat
  BY <1>1, RangesFit
<1>7. offset[t] \in Nat /\ count[t] \in Nat /\ cursor[t] \in Nat
  BY <1>1
<1>8. capacity >= GroupEnd(t) /\ GroupEnd(t) = offset[t] + count[t]
  BY <1>6 DEF GroupEnd
<1>9. cursor[t] = offset[t] + Rank(Touch(t), at) - 1 /\ cursor[t] < GroupEnd(t)
  BY <1>3, <1>4, <1>5, <1>7, <1>8
<1> QED
  BY <1>1, <1>6, <1>7, <1>9

\* Storing the next segment of the input.
LEMMA StoreAdds ==
  ASSUME InputInv, StoreInv, count \in [Tiles -> Nat], offset \in [Tiles -> Nat],
         phase = "fill", at <= Total, Store(Segments[at]),
         UNCHANGED <<map, count, offset>>
  PROVE  /\ cursor' \in [Tiles -> Nat] /\ segmentCount' \in Nat
         /\ \A t \in Tiles : cursor'[t] = offset[t] + Rank(Touch(t), at)
         /\ \A t \in Tiles : Rank(Touch(t), at) > 0 => cursor'[t] <= segmentCount'
         /\ \A t \in Tiles : \A i \in Touch(t) :
               i <= at => LET p == offset[t] + Rank(Touch(t), i) - 1
                          IN  /\ p \in DOMAIN items'
                              /\ items'[p] = [tile |-> t, pair |-> Segments[i]]
<1> DEFINE pair == Segments[at]
           new == TilesOf(pair)
           stored == {<<cursor[t], [tile |-> t, pair |-> pair]>> : t \in new}
           tops == {segmentCount} \cup {cursor'[t] : t \in new}
           Place(t, i) == offset[t] + Rank(Touch(t), i) - 1
<1>1. /\ map \in Maps /\ Counted(Total) /\ Laid(TileCount)
      /\ at \in 1..(Total + 1) /\ Stored(at - 1) /\ cursor \in [Tiles -> Nat] /\ segmentCount \in Nat
  BY DEF StoreInv, InputInv, Filled
<1>2. Total \in Nat /\ at \in 1..Total /\ at - 1 \in Nat /\ (at - 1) + 1 = at
  BY <1>1, TouchFacts
<1>3. new \in SUBSET Tiles /\ \A t \in Tiles : t \in new <=> at \in Touch(t)
  BY <1>1, <1>2, TilesTouched DEF InputInv
<1>4. \A t \in new : cursor[t] = Place(t, at)
  BY <1>2, <1>3, RoomInStore
<1>5. /\ cursor' = [t \in Tiles |-> IF t \in new THEN cursor[t] + 1 ELSE cursor[t]]
      /\ segmentCount' = Max(tops)
      /\ items' = [p \in DOMAIN items \cup {s[1] : s \in stored} |->
                     IF \E s \in stored : s[1] = p
                     THEN (CHOOSE s \in stored : s[1] = p)[2]
                     ELSE items[p]]
  BY DEF Store
<1>6. cursor' \in [Tiles -> Nat] /\ \A t \in Tiles : cursor'[t] = IF t \in new THEN cursor[t] + 1 ELSE cursor[t]
  BY <1>1, <1>5
<1>7. ASSUME NEW t \in Tiles
      PROVE  /\ Rank(Touch(t), at - 1) \in Nat /\ Rank(Touch(t), at) \in Nat
             /\ Rank(Touch(t), at) = IF t \in new THEN Rank(Touch(t), at - 1) + 1 ELSE Rank(Touch(t), at - 1)
             /\ cursor'[t] = offset[t] + Rank(Touch(t), at)
  <2>1. Rank(Touch(t), (at - 1) + 1)
        = IF (at - 1) + 1 \in Touch(t) THEN Rank(Touch(t), at - 1) + 1 ELSE Rank(Touch(t), at - 1)
    BY <1>1, <1>2, TouchFacts
  <2>2. Rank(Touch(t), at - 1) \in Nat
    BY <1>1, <1>2, TouchFacts
  <2>3. cursor[t] = offset[t] + Rank(Touch(t), at - 1)
    BY <1>1 DEF Stored
  <2>4. offset[t] \in Nat
    OBVIOUS
  <2> HIDE DEF new
  <2> QED
    BY <1>2, <1>3, <1>6, <2>1, <2>2, <2>3, <2>4
<1> HIDE DEF new
<1>8. segmentCount' \in Nat /\ segmentCount <= segmentCount' /\ \A t \in new : cursor'[t] <= segmentCount'
  <2>1. PICK a \in Nat, b \in Nat : {cursor'[t] : t \in new} \subseteq {a, b}
    <3>1. new \in SUBSET {coordTile[pair[1]], coordTile[pair[2]]}
      BY DEF new, TilesOf
    <3> DEFINE A(x) == IF x \in Tiles THEN cursor'[x] ELSE 0
    <3>2. A(coordTile[pair[1]]) \in Nat /\ A(coordTile[pair[2]]) \in Nat
      BY <1>6
    <3>3. {cursor'[t] : t \in new} \subseteq {A(coordTile[pair[1]]), A(coordTile[pair[2]])}
      BY <1>3, <3>1
    <3> QED
      BY <3>2, <3>3
  <2>2. tops \subseteq {segmentCount, a, b} /\ segmentCount \in tops
    BY <2>1
  <2>3. \A t \in new : cursor'[t] \in tops
    OBVIOUS
  <2> HIDE DEF tops
  <2>4. Max(tops) \in tops /\ \A x \in tops : x <= Max(tops)
    BY <1>1, <2>1, <2>2, MaxOfFew
  <2> QED
    BY <1>1, <1>5, <2>1, <2>2, <2>3, <2>4
<1>9. ASSUME NEW t \in Tiles, Rank(Touch(t), at) > 0 PROVE cursor'[t] <= segmentCount'
  <2>1. CASE t \in new
    BY <1>8, <2>1
  <2>2. CASE t \notin new
    <3>1. Rank(Touch(t), at - 1) > 0 /\ cursor'[t] = cursor[t] /\ cursor[t] \in Nat
      BY <1>1, <1>6, <1>7, <1>9, <2>2
    <3>2. cursor[t] <= segmentCount
      BY <1>1, <3>1 DEF Stored
    <3> QED
      BY <1>1, <1>8, <3>1, <3>2
  <2> QED
    BY <2>1, <2>2
<1>10. ASSUME NEW t \in Tiles, NEW i \in Touch(t), i <= at
       PROVE  /\ Place(t, i) \in DOMAIN items'
              /\ items'[Place(t, i)] = [tile |-> t, pair |-> Segments[i]]
  <2> DEFINE p == Place(t, i)
  <2>0. i \in Nat
    BY <1>1, TouchFacts
  <2>1. \A u \in new : cursor[u] = p => u = t /\ i = at
    <3>1. ASSUME NEW u \in new, cursor[u] = p PROVE u = t /\ i = at
      <4>1. u \in Tiles /\ at \in Touch(u) /\ cursor[u] = Place(u, at)
        BY <1>3, <1>4
      <4>2. Rank(Touch(t), i) \in 1..count[t] /\ Rank(Touch(u), at) \in 1..count[u]
        BY <1>1, <4>1, PlacesApart
      <4>3. offset[t] \in Nat /\ offset[u] \in Nat /\ count[t] \in Nat /\ count[u] \in Nat
        BY <4>1
      <4>4. offset[t] + Rank(Touch(t), i) = offset[u] + Rank(Touch(u), at)
        BY <3>1, <4>1, <4>2, <4>3
      <4>5. offset[t] + Rank(Touch(t), i) = offset[u] + Rank(Touch(u), at) => t = u /\ i = at
        BY <1>1, <4>1, PlacesApart
      <4> QED
        BY <4>4, <4>5
    <3> QED
      BY <3>1
  <2> HIDE DEF Place
  <2>2. CASE i = at
    <3>1. t \in new /\ cursor[t] = p
      BY <1>3, <1>4, <2>2
    <3>2. <<p, [tile |-> t, pair |-> pair]>> \in stored
      BY <3>1
    <3>3. \A s \in stored : s[1] = p => s[2] = [tile |-> t, pair |-> pair]
      BY <2>1
    <3>4. p \in {s[1] : s \in stored} /\ \E s \in stored : s[1] = p
      <4> DEFINE e == <<p, [tile |-> t, pair |-> pair]>>
      <4>1. e \in stored /\ e[1] = p
        BY <3>2
      <4> HIDE DEF e, stored, p
      <4> QED
        BY <4>1
    <3> HIDE DEF stored, p
    <3>5. (CHOOSE s \in stored : s[1] = p)[2] = [tile |-> t, pair |-> pair]
      BY <3>3, <3>4
    <3>6. items'[p] = [tile |-> t, pair |-> pair]
      BY <1>5, <3>4, <3>5
    <3> QED
      BY <1>5, <2>2, <3>4, <3>6 DEF p
  <2>3. CASE i # at
    <3>1. i <= at - 1
      BY <1>2, <1>10, <2>0, <2>3
    <3>2. p \in DOMAIN items /\ items[p] = [tile |-> t, pair |-> Segments[i]]
      BY <1>1, <3>1 DEF Stored, Place
    <3>3. ~ \E s \in stored : s[1] = p
      BY <2>1, <2>3
    <3> HIDE DEF stored, p
    <3> QED
      BY <1>5, <3>2, <3>3 DEF p
  <2> QED
    BY <2>2, <2>3
<1> QED
  BY <1>6, <1>7, <1>8, <1>9, <1>10

\* The store is never full too early, so the pass only fails with the stream.
LEMMA NeverFull ==
  ASSUME InputInv, StoreInv, count \in [Tiles -> Nat], offset \in [Tiles -> Nat], FillSegment
  PROVE  \/ Store(Segments[at]) /\ at' = at + 1 /\ UNCHANGED <<phase, result, trouble>>
         \/ phase' = "done" /\ trouble'
<1>1. phase = "fill" /\ at <= Total
  BY DEF FillSegment, MainAt, Total
<1>2. ~ \E t \in TilesOf(Segments[at]) : cursor[t] >= capacity
  <2>1. at \in 1..(Total + 1) /\ map \in Maps
    BY <1>1 DEF StoreInv, InputInv
  <2>2. at \in 1..Total
    BY <1>1, <2>1, TouchFacts
  <2>3. ASSUME NEW t \in TilesOf(Segments[at]) PROVE ~ (cursor[t] >= capacity)
    <3>1. t \in Tiles /\ at \in Touch(t)
      BY <1>1, <2>1, <2>2, TilesTouched DEF InputInv, Filled
    <3>2. cursor[t] \in Nat /\ cursor[t] < capacity /\ capacity \in Nat
      BY <1>1, <3>1, RoomInStore
    <3> QED
      BY <3>2
  <2> QED
    BY <2>3
<1> QED
  BY <1>2 DEF FillSegment, Fails

\* One more segment is stored in the range of each of its tiles.
LEMMA StoreFilled ==
  ASSUME InputInv, StoreInv, count \in [Tiles -> Nat], offset \in [Tiles -> Nat], FillSegment
  PROVE  StoreInv'
<1>1. /\ phase = "fill" /\ at <= Total /\ UNCHANGED <<map, count, offset, capacity>>
      /\ \/ UNCHANGED <<cursor, segmentCount, items>>
         \/ Store(Segments[at])
  BY DEF FillSegment, Fails, MainAt, inputVars, storeVars, Total
<1>2. /\ Counted(Total) /\ capacity = SumFunction(count) /\ Laid(TileCount)
      /\ at \in 1..(Total + 1) /\ map \in Maps /\ cursor \in [Tiles -> Nat] /\ segmentCount \in Nat
  BY <1>1 DEF StoreInv, InputInv
<1>3. Total' = Total /\ Segments' = Segments /\ \A t : Touch(t)' = Touch(t)
  BY <1>1, MapKept
<1>4. CASE Store(Segments[at]) /\ at' = at + 1 /\ UNCHANGED phase
  <2>1. /\ cursor' \in [Tiles -> Nat] /\ segmentCount' \in Nat
        /\ \A t \in Tiles : cursor'[t] = offset[t] + Rank(Touch(t), at)
        /\ \A t \in Tiles : Rank(Touch(t), at) > 0 => cursor'[t] <= segmentCount'
        /\ \A t \in Tiles : \A i \in Touch(t) :
              i <= at => LET p == offset[t] + Rank(Touch(t), i) - 1
                         IN  /\ p \in DOMAIN items'
                             /\ items'[p] = [tile |-> t, pair |-> Segments[i]]
    BY <1>1, <1>4, StoreAdds
  <2>2. at' \in 1..(Total + 1) /\ at' - 1 = at
    <3>1. Total \in Nat
      BY <1>2, TouchFacts
    <3> QED
      BY <1>1, <1>2, <1>4, <3>1
  <2>3. Stored(at - 1)'
    BY <1>1, <1>3, <2>1, <2>2 DEF Stored
  <2>4. Counted(Total)' /\ Laid(TileCount)'
    BY <1>1, <1>2, <1>3 DEF Counted, Laid, GroupEnd
  <2> QED
    BY <1>1, <1>2, <1>3, <1>4, <2>1, <2>2, <2>3, <2>4 DEF StoreInv, Filled
<1>5. CASE phase' = "done"
  <2>1. cursor' \in [Tiles -> Nat] /\ segmentCount' \in Nat
    BY <1>1, <1>2, StoreAdds
  <2> QED
    BY <1>5, <2>1 DEF StoreInv, Filled
<1> QED
  BY <1>4, <1>5, NeverFull

\* With all segments stored, every range is full.
LEMMA StoreClosed ==
  ASSUME InputInv, StoreInv, FillDone
  PROVE  StoreInv'
<1>1. /\ phase = "fill" /\ at > Total /\ phase' \in {"write", "pools"}
      /\ UNCHANGED <<map, count, offset, cursor, capacity, segmentCount, items>>
  BY DEF FillDone, MainAt, MainGoes, inputVars, storeVars, Total
<1>2. at \in 1..(Total + 1) /\ map \in Maps /\ Stored(at - 1)
  BY <1>1 DEF StoreInv, InputInv
<1>3. Total \in Nat /\ at - 1 = Total
  BY <1>1, <1>2, TouchFacts
<1>4. Total' = Total /\ Segments' = Segments /\ \A t : Touch(t)' = Touch(t)
  BY <1>1, MapKept
<1>5. Stored(Total)
  BY <1>2, <1>3
<1>6. StoreInv => Counted(Total) /\ capacity = SumFunction(count) /\ Laid(TileCount)
                  /\ cursor \in [Tiles -> Nat] /\ segmentCount \in Nat
  BY <1>1 DEF StoreInv
<1>7. (Counted(Total) /\ Laid(TileCount) /\ Stored(Total))'
  BY <1>1, <1>4, <1>5, <1>6 DEF Counted, Laid, GroupEnd, Stored
<1> QED
  BY <1>1, <1>6, <1>7 DEF StoreInv, Filled

\* Every step keeps what is said of the store.
LEMMA StoreStep ==
  ASSUME InputInv, StoreInv, BuildInv, [Next]_vars
  PROVE  StoreInv'
<1>1. count \in [Tiles -> Nat] /\ offset \in [Tiles -> Nat]
  BY DEF BuildInv, Types
<1>2. CASE CountSegment \/ CountDone \/ LayoutTile \/ LayoutDone \/ FillSegment \/ FillDone
  BY <1>1, <1>2, StoreCounts, StoreSized, StoreLaid, StoreOpened, StoreFilled, StoreClosed
<1>3. CASE ResolveCoords
  <2>1. /\ phase = "resolve" /\ UNCHANGED <<at, map, count, offset, cursor, capacity, segmentCount, items>>
        /\ phase' \in {"count", "done"}
    BY <1>3 DEF ResolveCoords, Fails, MainAt, MainGoes, inputVars, storeVars
  <2>2. at = 1 /\ (\A t \in Tiles : count[t] = 0) /\ map \in Maps
    BY <2>1 DEF StoreInv, InputInv
  <2>3. Total' = Total /\ \A t : Touch(t)' = Touch(t)
    BY <2>1, MapKept
  <2>4. Total \in Nat /\ \A t : Rank(Touch(t), 0) = 0
    BY <2>2, TouchFacts
  <2>5. at' \in 1..(Total' + 1) /\ at' - 1 = 0
    BY <2>1, <2>2, <2>3, <2>4
  <2>6. Counted(at - 1)'
    BY <2>1, <2>2, <2>3, <2>4, <2>5 DEF Counted
  <2> QED
    BY <2>1, <2>5, <2>6 DEF StoreInv, Filled
<1>4. CASE ~ ResolveCoords /\ ~ (CountSegment \/ CountDone \/ LayoutTile \/ LayoutDone \/ FillSegment \/ FillDone)
  <2>1. /\ UNCHANGED <<map, storeVars>>
        /\ \/ phase' = phase /\ UNCHANGED at
           \/ phase' \in Filled /\ phase \in Filled
           \/ phase' = "resolve" /\ phase = "collect" /\ UNCHANGED at
           \/ phase' = "done"
    BY <1>4 DEF Next, Main, Returned, CollectRefs, MakePools, StartWorker, StartFails, AllStarted, Join,
                AllJoined, WriteTile, WriteDone, Worker, Fails, MainAt, MainGoes, vars, inputVars,
                mainVars, Filled
  <2> QED
    BY <2>1, StoreSame
<1> QED
  BY <1>2, <1>3, <1>4

\* The segments of a tile, by their places among all segments.
LEMMA TileSegmentsAre ==
  ASSUME map \in Maps, NEW t
  PROVE  /\ TileSegments(t) = Picked(Segments, Touch(t))
         /\ TileSegments(t) \in Seq(Nodes \X Nodes)
         /\ Len(TileSegments(t)) = Cardinality(Touch(t)) /\ Cardinality(Touch(t)) \in Nat
         /\ \A i \in Touch(t) : Rank(Touch(t), i) \in 1..Cardinality(Touch(t))
                                /\ TileSegments(t)[Rank(Touch(t), i)] = Segments[i]
         /\ \A k \in 1..Cardinality(Touch(t)) : \E i \in Touch(t) : Rank(Touch(t), i) = k
<1>1. TileSegments(t) = Picked(Segments, Touch(t))
  BY DEF TileSegments, Touch
<1>2. Total \in Nat /\ Touch(t) \in SUBSET (1..Total) /\ Segments \in Seq(Nodes \X Nodes)
  BY TouchFacts, SegmentsAre
<1>3. Touch(t) \in SUBSET (1..Len(Segments))
  BY <1>2 DEF Total
<1>4. /\ Picked(Segments, Touch(t)) \in Seq(Nodes \X Nodes)
      /\ Len(Picked(Segments, Touch(t))) = Cardinality(Touch(t))
      /\ Cardinality(Touch(t)) \in Nat
  BY <1>2, <1>3, PickedType, Zenon
<1>5. /\ \A i \in Touch(t) : Rank(Touch(t), i) \in 1..Cardinality(Touch(t))
                             /\ Picked(Segments, Touch(t))[Rank(Touch(t), i)] = Segments[i]
      /\ \A k \in 1..Cardinality(Touch(t)) : \E i \in Touch(t) : Rank(Touch(t), i) = k
  BY <1>2, PickedAt, Zenon
<1> QED
  BY <1>1, <1>4, <1>5, Zenon

\* What the threads and the writing find in the store.
LEMMA StoreFacts ==
  ASSUME InputInv, StoreInv, BuildInv, phase \in Filled, NEW t \in Tiles
  PROVE  /\ cursor[t] = GroupEnd(t)
         /\ count[t] = Len(TileSegments(t))
         /\ count[t] > 0 => GroupEnd(t) <= segmentCount
         /\ \A k \in 1..count[t] :
              items[offset[t] + k - 1] = [tile |-> t, pair |-> TileSegments(t)[k]]
<1>1. /\ map \in Maps /\ Counted(Total) /\ Stored(Total) /\ count \in [Tiles -> Nat] /\ offset \in [Tiles -> Nat]
  BY DEF StoreInv, InputInv, BuildInv, Types
<1>2. Total \in Nat /\ Rank(Touch(t), Total) = Cardinality(Touch(t)) /\ Touch(t) \in SUBSET (1..Total)
  BY <1>1, TouchFacts
<1>3. count[t] = Cardinality(Touch(t))
  BY <1>1, <1>2 DEF Counted
<1>4. cursor[t] = GroupEnd(t) /\ (count[t] > 0 => GroupEnd(t) <= segmentCount)
  BY <1>1, <1>2, <1>3 DEF Stored, GroupEnd
<1>5. /\ Len(TileSegments(t)) = Cardinality(Touch(t))
      /\ \A i \in Touch(t) : TileSegments(t)[Rank(Touch(t), i)] = Segments[i]
      /\ \A k \in 1..Cardinality(Touch(t)) : \E i \in Touch(t) : Rank(Touch(t), i) = k
  BY <1>1, TileSegmentsAre
<1>6. ASSUME NEW k \in 1..count[t]
      PROVE  items[offset[t] + k - 1] = [tile |-> t, pair |-> TileSegments(t)[k]]
  <2>1. PICK i \in Touch(t) : Rank(Touch(t), i) = k
    BY <1>3, <1>5
  <2>2. i <= Total
    BY <1>2
  <2>3. items[offset[t] + Rank(Touch(t), i) - 1] = [tile |-> t, pair |-> Segments[i]]
    BY <1>1, <2>2 DEF Stored
  <2> QED
    BY <1>5, <2>1, <2>3
<1> QED
  BY <1>3, <1>4, <1>5, <1>6

\* The range of every tile holds its segments, all of them and in order, when the
\* threads start: what build_tile_graphs_from_segments reads is what the counting and
\* the storing pass of the PBF agreed on, for every map and every number of tiles.
THEOREM WalkingRangesFilled == Spec => []RangesFilled
<1>1. Init => InputInv /\ StoreInv
  BY InputInit, StoreInit
<1>2. InputInv /\ StoreInv /\ BuildInv /\ [Next]_vars => InputInv' /\ StoreInv'
  BY InputStep, StoreStep
<1>3. InputInv /\ StoreInv /\ BuildInv => RangesFilled
  BY StoreFacts DEF RangesFilled, Filled
<1> QED
  BY <1>1, <1>2, <1>3, WalkingInductive, PTL DEF Spec

(***************************************************************************)
(* The graph of a tile after the first k of its segments.                  *)
(***************************************************************************)
Ends(t, k) == FlattenSeq(SubSeq(TileSegments(t), 1, k))

\* The number of a node in the whole tile.
Number(t, n) == (CHOOSE i \in DOMAIN WalkingNodes(t) : WalkingNodes(t)[i] = n) - 1

\* The edges of a segment between two numbered nodes.
BothWays(l, r) == IF l = r THEN <<>> ELSE <<<<l, r>>, <<r, l>>>>

\* The edges of a segment.
Both(t, pair) == BothWays(Number(t, pair[1]), Number(t, pair[2]))

\* The edges of the first k segments.
Links(t, k) == FlattenSeq(SubSeq([i \in DOMAIN TileSegments(t) |-> Both(t, TileSegments(t)[i])], 1, k))

\* A tile is blank before its thread begins, and complete behind it.
Blank(t) == graph[t].nodes = <<>> /\ graph[t].edges = <<>>

\* The graph is that of the whole tile.
Complete(t) == graph[t].nodes = WalkingNodes(t) /\ graph[t].edges = WalkingEdges(t)

\* Not taken, or taken and not begun; then being built.
Untouched(t) == t >= nextTile \/ \E w \in Workers : place[w] = "begin" /\ tile[w] = t

\* A thread is at one of its segments.
Busy(t) == \E w \in Workers : place[w] \in {"left", "right"} /\ tile[w] = t

\* How far a thread is with its tile.
HalfBuilt(w) ==
    place[w] \in {"left", "right"} =>
        LET t == tile[w]
            k == segment[w] - offset[t]
            left == TileSegments(t)[k + 1][1]
        IN  /\ graph[t].nodes = IF place[w] = "left" THEN FirstMet(Ends(t, k))
                                ELSE FirstMet(Append(Ends(t, k), left))
            /\ graph[t].edges = Links(t, k)
            /\ place[w] = "right" => leftIndex[w] = Number(t, left)

\* The index kept with a node is that of the graph of its tile.
Kept(n) ==
    graphIndex[n] # NoIndex =>
        LET t == coordTile[n]
        IN  /\ t \in Tiles /\ graphIndex[n] \in Nat
            /\ graphIndex[n] + 1 \in 1..Len(graph[t].nodes)
            /\ graph[t].nodes[graphIndex[n] + 1] = n

\* Before any thread.
Passes == {"collect", "resolve", "count", "layout", "fill", "pools"}

\* Every tile is blank, being built or complete, and a thread has built what the
\* segments up to its own make of the tile.
GraphInv ==
    /\ graphIndex = [n \in Nodes |-> graphIndex[n]]
    /\ phase \in Passes => nextTile = 0 /\ (\A t \in Tiles : Blank(t)) /\ \A n \in Nodes : graphIndex[n] = NoIndex
    /\ phase \in PoolPhases =>
          /\ \A t \in Tiles : Untouched(t) => Blank(t)
          /\ \A t \in Tiles : Untouched(t) \/ Busy(t) \/ Complete(t)
          /\ \A n \in Nodes : Kept(n)
          /\ \A w \in Workers : HalfBuilt(w)
    /\ phase = "write" => \A t \in Tiles : Complete(t)

\* Threads run only between start and join, a thread that ends found no tile left,
\* and one that gives up found that something failed.
CallInv ==
    /\ started \in 0..Cardinality(Workers) /\ joined \in 0..started
    /\ \A w \in Workers : place[w] # "idle" <=> w <= started
    /\ \A w \in Workers : w <= joined => place[w] \in {"ended", "gaveup"}
    /\ \A w \in Workers : place[w] = "ended" => nextTile >= TileCount
    /\ \A w \in Workers : place[w] = "gaveup" => failed
    /\ phase \in PoolPhases \/ \A w \in Workers : place[w] \in {"idle", "ended", "gaveup"}
    /\ phase \in Passes => started = 0
    /\ phase \in Passes \cup {"start"} => ~ failed
    /\ phase = "join" => failed \/ started = Cardinality(Workers)
    /\ failed \in BOOLEAN /\ (failed => trouble)
    /\ result \in {0, -1} /\ (result = -1 => trouble)

-----------------------------------------------------------------------------
(***************************************************************************)
(* One more segment.                                                       *)
(***************************************************************************)
LEMMA SubSeqSteps ==
  ASSUME NEW E, NEW s \in Seq(E)
  PROVE  /\ SubSeq(s, 1, 0) = <<>> /\ SubSeq(s, 1, Len(s)) = s
         /\ \A k \in 0..Len(s) : SubSeq(s, 1, k) \in Seq(E)
         /\ \A k \in Nat : k < Len(s) => SubSeq(s, 1, k + 1) = Append(SubSeq(s, 1, k), s[k + 1])
<1>1. Len(s) \in Nat /\ \A i \in 1..Len(s) : s[i] \in E
  OBVIOUS
<1>2. SubSeq(s, 1, 0) = <<>> /\ SubSeq(s, 1, Len(s)) = s /\ \A k \in 0..Len(s) : SubSeq(s, 1, k) \in Seq(E)
  BY <1>1
<1>3. ASSUME NEW k \in Nat, k < Len(s)
      PROVE  SubSeq(s, 1, k + 1) = Append(SubSeq(s, 1, k), s[k + 1])
  BY <1>1, <1>3
<1> QED
  BY <1>2, <1>3

\* A pair of ends joined to a list is two appends.
LEMMA JoinPair ==
  ASSUME NEW E, NEW s \in Seq(E), NEW a \in E, NEW b \in E
  PROVE  s \o <<a, b>> = Append(Append(s, a), b)
OBVIOUS

\* The ends of one more segment are met after those of the segments before it.
LEMMA EndsStep ==
  ASSUME map \in Maps, NEW t
  PROVE  LET T == TileSegments(t)
         IN  /\ Len(T) \in Nat /\ Ends(t, 0) = <<>>
             /\ WalkingNodes(t) = FirstMet(Ends(t, Len(T)))
             /\ \A k \in 0..Len(T) : Ends(t, k) \in Seq(Nodes)
             /\ \A k \in Nat : k < Len(T) =>
                   /\ T[k + 1] \in Nodes \X Nodes
                   /\ Ends(t, k + 1) = Append(Append(Ends(t, k), T[k + 1][1]), T[k + 1][2])
<1> DEFINE T == TileSegments(t)
<1>1. T \in Seq(Nodes \X Nodes)
  BY TileSegmentsAre
<1>2. /\ Len(T) \in Nat /\ SubSeq(T, 1, 0) = <<>> /\ SubSeq(T, 1, Len(T)) = T
      /\ \A k \in 0..Len(T) : SubSeq(T, 1, k) \in Seq(Nodes \X Nodes)
      /\ \A k \in Nat : k < Len(T) => SubSeq(T, 1, k + 1) = Append(SubSeq(T, 1, k), T[k + 1])
      /\ \A k \in Nat : k < Len(T) => T[k + 1] \in Nodes \X Nodes
  <2> HIDE DEF T
  <2>1. Len(T) \in Nat /\ \A k \in Nat : k < Len(T) => T[k + 1] \in Nodes \X Nodes
    BY <1>1
  <2> QED
    BY <1>1, <2>1, SubSeqSteps
<1>3. ASSUME NEW p \in Nodes \X Nodes
      PROVE  p \in Seq(Nodes) /\ p = <<p[1], p[2]>> /\ p[1] \in Nodes /\ p[2] \in Nodes
  <2>1. PICK a \in Nodes, b \in Nodes : p = <<a, b>>
    OBVIOUS
  <2>2. <<a, b>> \in Seq(Nodes)
    OBVIOUS
  <2> QED
    BY <2>1, <2>2
<1>4. \A k \in 0..Len(T) : SubSeq(T, 1, k) \in Seq(Seq(Nodes))
  <2>1. Nodes \X Nodes \subseteq Seq(Nodes)
    BY <1>3
  <2>2. \A q \in Seq(Nodes \X Nodes) : q \in Seq(Seq(Nodes))
    BY <2>1
  <2> QED
    BY <1>2, <2>2
<1>5. ASSUME NEW k \in 0..Len(T) PROVE Ends(t, k) \in Seq(Nodes)
  <2>1. SubSeq(T, 1, k) \in Seq(Seq(Nodes)) /\ <<>> \in Seq(Nodes)
    BY <1>4
  <2>2. FlattenSeq(SubSeq(T, 1, k)) \in Seq(Nodes)
    BY <2>1, FlattenAppend
  <2> QED
    BY <2>2 DEF Ends
<1>6. ASSUME NEW k \in Nat, k < Len(T)
      PROVE  Ends(t, k + 1) = Append(Append(Ends(t, k), T[k + 1][1]), T[k + 1][2])
  <2> DEFINE p == T[k + 1]
             q == SubSeq(T, 1, k)
  <2>1. k \in 0..Len(T) /\ p \in Nodes \X Nodes /\ SubSeq(T, 1, k + 1) = Append(q, p)
    BY <1>2, <1>6
  <2>2. q \in Seq(Seq(Nodes)) /\ p \in Seq(Nodes) /\ p = <<p[1], p[2]>> /\ p[1] \in Nodes /\ p[2] \in Nodes
    BY <1>3, <1>4, <2>1
  <2>3. Ends(t, k) = FlattenSeq(q) /\ Ends(t, k + 1) = FlattenSeq(Append(q, p)) /\ Ends(t, k) \in Seq(Nodes)
    BY <1>5, <2>1 DEF Ends
  <2> HIDE DEF p, q
  <2>4. FlattenSeq(Append(q, p)) = FlattenSeq(q) \o p
    BY <2>2, FlattenAppend, Zenon
  <2>5. Ends(t, k) \o <<p[1], p[2]>> = Append(Append(Ends(t, k), p[1]), p[2])
    BY <2>2, <2>3, JoinPair
  <2> QED
    BY <2>2, <2>3, <2>4, <2>5 DEF p
<1>7. Ends(t, 0) = <<>> /\ WalkingNodes(t) = FirstMet(Ends(t, Len(T)))
  BY <1>2, FlattenNil DEF Ends, WalkingNodes
<1> HIDE DEF T
<1>8. /\ Len(T) \in Nat /\ Ends(t, 0) = <<>>
      /\ WalkingNodes(t) = FirstMet(Ends(t, Len(T)))
      /\ \A k \in 0..Len(T) : Ends(t, k) \in Seq(Nodes)
      /\ \A k \in Nat : k < Len(T) =>
            /\ T[k + 1] \in Nodes \X Nodes
            /\ Ends(t, k + 1) = Append(Append(Ends(t, k), T[k + 1][1]), T[k + 1][2])
  BY <1>2, <1>5, <1>6, <1>7
<1> QED
  BY <1>8 DEF T

\* The edges of one more segment follow those of the segments before it.
LEMMA LinksStep ==
  ASSUME map \in Maps, NEW t
  PROVE  LET T == TileSegments(t)
         IN  /\ Links(t, 0) = <<>>
             /\ WalkingEdges(t) = Links(t, Len(T))
             /\ \A k \in 0..Len(T) : \E D : Links(t, k) \in Seq(D)
             /\ \A k \in Nat : k < Len(T) => Links(t, k + 1) = Links(t, k) \o Both(t, T[k + 1])
<1> DEFINE T == TileSegments(t)
           B == [i \in DOMAIN T |-> Both(t, T[i])]
           P == {Number(t, n) : n \in Nodes}
           D == P \X P
<1>1. T \in Seq(Nodes \X Nodes) /\ Len(T) \in Nat /\ DOMAIN T = 1..Len(T)
  <2>1. T \in Seq(Nodes \X Nodes)
    BY TileSegmentsAre
  <2> HIDE DEF T
  <2> QED
    BY <2>1
<1> HIDE DEF T
<1>2. ASSUME NEW i \in 1..Len(T) PROVE Both(t, T[i]) \in Seq(D)
  <2>1. T[i] \in Nodes \X Nodes
    BY <1>1
  <2>2. T[i][1] \in Nodes /\ T[i][2] \in Nodes
    BY <2>1
  <2>3. Number(t, T[i][1]) \in P /\ Number(t, T[i][2]) \in P
    BY <2>2
  <2> HIDE DEF P
  <2>4. <<Number(t, T[i][1]), Number(t, T[i][2])>> \in D /\ <<Number(t, T[i][2]), Number(t, T[i][1])>> \in D
    BY <2>3
  <2> HIDE DEF D
  <2> QED
    BY <2>4 DEF Both, BothWays
<1> HIDE DEF D
<1>3. B \in Seq(Seq(D)) /\ Len(B) = Len(T) /\ \A i \in 1..Len(T) : B[i] = Both(t, T[i])
  <2>1. B \in [1..Len(T) -> Seq(D)] /\ \A i \in 1..Len(T) : B[i] = Both(t, T[i])
    BY <1>1, <1>2
  <2> HIDE DEF B
  <2>2. B \in Seq(Seq(D)) /\ Len(B) = Len(T)
    BY <1>1, <2>1, FunctionIsSequence
  <2> QED
    BY <2>1, <2>2
<1>4. \A k : Links(t, k) = FlattenSeq(SubSeq(B, 1, k))
  BY DEF Links, T
<1>5. WalkingEdges(t) = FlattenSeq(B)
  BY Zenon DEF WalkingEdges, T, Both, BothWays, Number
<1> HIDE DEF B
<1>6. /\ SubSeq(B, 1, 0) = <<>> /\ SubSeq(B, 1, Len(B)) = B
      /\ \A k \in 0..Len(B) : SubSeq(B, 1, k) \in Seq(Seq(D))
      /\ \A k \in Nat : k < Len(B) => SubSeq(B, 1, k + 1) = Append(SubSeq(B, 1, k), B[k + 1])
  BY <1>3, SubSeqSteps
<1>7. ASSUME NEW k \in 0..Len(T) PROVE Links(t, k) \in Seq(D)
  <2>1. SubSeq(B, 1, k) \in Seq(Seq(D)) /\ <<>> \in Seq(D)
    BY <1>3, <1>6
  <2>2. FlattenSeq(SubSeq(B, 1, k)) \in Seq(D)
    BY <2>1, FlattenAppend
  <2> QED
    BY <1>4, <2>2
<1>8. ASSUME NEW k \in Nat, k < Len(T) PROVE Links(t, k + 1) = Links(t, k) \o Both(t, T[k + 1])
  <2>1. k \in 0..Len(B) /\ k + 1 \in 1..Len(T) /\ k < Len(B)
    BY <1>1, <1>3, <1>8
  <2>2. SubSeq(B, 1, k) \in Seq(Seq(D)) /\ B[k + 1] \in Seq(D) /\ B[k + 1] = Both(t, T[k + 1])
        /\ SubSeq(B, 1, k + 1) = Append(SubSeq(B, 1, k), B[k + 1])
    BY <1>2, <1>3, <1>6, <2>1
  <2>3. FlattenSeq(Append(SubSeq(B, 1, k), B[k + 1])) = FlattenSeq(SubSeq(B, 1, k)) \o B[k + 1]
    BY <2>2, FlattenAppend, Zenon
  <2> QED
    BY <1>4, <2>2, <2>3
<1>9. Links(t, 0) = <<>> /\ WalkingEdges(t) = Links(t, Len(T))
  BY <1>3, <1>4, <1>5, <1>6, FlattenNil
<1> QED
  BY <1>7, <1>8, <1>9 DEF T

-----------------------------------------------------------------------------
(***************************************************************************)
(* The numbers of the nodes.                                               *)
(***************************************************************************)
Begins(s, f) == Len(s) <= Len(f) /\ \A i \in 1..Len(s) : f[i] = s[i]

\* What one more node does to the numbered ones.
LEMMA FirstMetGrows ==
  ASSUME NEW E, NEW s \in Seq(E), NEW e \in E
  PROVE  /\ FirstMet(Append(s, e))
            = IF e \in Range(FirstMet(s)) THEN FirstMet(s) ELSE Append(FirstMet(s), e)
         /\ Append(s, e) \in Seq(E)
         /\ Begins(FirstMet(s), FirstMet(Append(s, e)))
         /\ \E i \in 1..Len(FirstMet(Append(s, e))) : FirstMet(Append(s, e))[i] = e
<1> DEFINE f == FirstMet(s)
           h == FirstMet(Append(s, e))
<1>1. /\ f \in Seq(E)
      /\ \A i \in 1..Len(s) : \E k \in 1..Len(f) : f[k] = s[i]
      /\ \A k \in 1..Len(f) : \E i \in 1..Len(s) : f[k] = s[i]
  BY FirstMetIs, ZenonT(40)
<1>2. h = IF \E i \in 1..Len(s) : s[i] = e THEN f ELSE Append(f, e)
  BY FirstMetAppend
<1>3. Append(s, e) \in Seq(E)
  OBVIOUS
<1> HIDE DEF f, h
<1>4. Len(f) \in Nat /\ DOMAIN f = 1..Len(f)
  BY <1>1
<1>5. e \in Range(f) <=> \E i \in 1..Len(s) : s[i] = e
  <2>1. e \in Range(f) <=> \E k \in 1..Len(f) : f[k] = e
    BY <1>4, Zenon DEF Range
  <2> QED
    BY <1>1, <2>1, Zenon
<1>6. h = IF e \in Range(f) THEN f ELSE Append(f, e)
  BY <1>2, <1>5
<1>7. CASE e \in Range(f)
  <2>1. h = f /\ \E k \in 1..Len(f) : f[k] = e
    BY <1>1, <1>5, <1>6, <1>7
  <2>2. Begins(f, h)
    BY <1>4, <2>1 DEF Begins
  <2> QED
    BY <1>3, <1>6, <2>1, <2>2, Zenon DEF f, h
<1>8. CASE e \notin Range(f)
  <2>1. h = Append(f, e)
    BY <1>6, <1>8
  <2>2. Len(h) = Len(f) + 1 /\ h[Len(f) + 1] = e /\ \A i \in 1..Len(f) : h[i] = f[i]
    BY <1>1, <2>1
  <2>3. Begins(f, h) /\ Len(f) + 1 \in 1..Len(h)
    BY <1>4, <2>2 DEF Begins
  <2> QED
    BY <1>3, <1>6, <2>2, <2>3 DEF f, h
<1> QED
  BY <1>7, <1>8

\* The begin of a begin is a begin.
LEMMA BeginsChain ==
  ASSUME NEW E, NEW a \in Seq(E), NEW b \in Seq(E), NEW c \in Seq(E), Begins(a, b), Begins(b, c)
  PROVE  Begins(a, c)
<1>1. Len(a) \in Nat /\ Len(b) \in Nat /\ Len(c) \in Nat
  OBVIOUS
<1> QED
  BY <1>1 DEF Begins

\* The nodes met so far are the first of those of the whole tile.
LEMMA EndsBegin ==
  ASSUME map \in Maps, NEW t
  PROVE  LET T == TileSegments(t)
         IN  /\ \A k \in 0..Len(T) : Begins(FirstMet(Ends(t, k)), WalkingNodes(t))
             /\ \A k \in Nat : k < Len(T) =>
                   Begins(FirstMet(Append(Ends(t, k), T[k + 1][1])), WalkingNodes(t))
<1> DEFINE T == TileSegments(t)
           W == WalkingNodes(t)
           Half(k) == Append(Ends(t, k), T[k + 1][1])
<1>1. /\ Len(T) \in Nat
      /\ W = FirstMet(Ends(t, Len(T)))
      /\ \A k \in 0..Len(T) : Ends(t, k) \in Seq(Nodes)
      /\ \A k \in Nat : k < Len(T) =>
            /\ T[k + 1] \in Nodes \X Nodes
            /\ Ends(t, k + 1) = Append(Half(k), T[k + 1][2])
  BY EndsStep
<1> HIDE DEF W, Half
<1>2. ASSUME NEW s \in Seq(Nodes) PROVE FirstMet(s) \in Seq(Nodes)
  BY FirstMetIs, ZenonT(40)
<1>3. W \in Seq(Nodes) /\ Begins(W, W)
  <2>1. W \in Seq(Nodes)
    BY <1>1, <1>2
  <2>2. Len(W) \in Nat
    BY <2>1
  <2> QED
    BY <2>1, <2>2 DEF Begins
<1>4. ASSUME NEW k \in Nat, k < Len(T), Begins(FirstMet(Ends(t, k + 1)), W)
      PROVE  Begins(FirstMet(Half(k)), W) /\ Begins(FirstMet(Ends(t, k)), W)
  <2>1. T[k + 1][1] \in Nodes /\ T[k + 1][2] \in Nodes
    <3>1. T[k + 1] \in Nodes \X Nodes
      BY <1>1, <1>4
    <3> HIDE DEF T
    <3> QED
      BY <3>1
  <2>2. Ends(t, k) \in Seq(Nodes) /\ Ends(t, k + 1) \in Seq(Nodes)
    <3>1. k \in 0..Len(T) /\ k + 1 \in 0..Len(T)
      BY <1>1, <1>4
    <3> QED
      BY <1>1, <3>1
  <2> HIDE DEF T
  <2>3. Half(k) \in Seq(Nodes) /\ Begins(FirstMet(Ends(t, k)), FirstMet(Half(k)))
    BY <2>1, <2>2, FirstMetGrows DEF Half
  <2>4. Begins(FirstMet(Half(k)), FirstMet(Ends(t, k + 1)))
    <3>1. Ends(t, k + 1) = Append(Half(k), T[k + 1][2])
      BY <1>1, <1>4 DEF T
    <3>2. Begins(FirstMet(Half(k)), FirstMet(Append(Half(k), T[k + 1][2])))
      BY <2>1, <2>3, FirstMetGrows
    <3> QED
      BY <3>1, <3>2
  <2>5. FirstMet(Half(k)) \in Seq(Nodes) /\ FirstMet(Ends(t, k)) \in Seq(Nodes)
        /\ FirstMet(Ends(t, k + 1)) \in Seq(Nodes)
    BY <1>2, <2>2, <2>3
  <2>6. Begins(FirstMet(Half(k)), W)
    BY <1>3, <1>4, <2>4, <2>5, BeginsChain
  <2> QED
    BY <1>3, <2>3, <2>5, <2>6, BeginsChain
<1> HIDE DEF T
<1>5. \A k \in 0..Len(T) : Begins(FirstMet(Ends(t, k)), W)
  <2> DEFINE D == {j \in Nat : j <= Len(T) /\ ~ Begins(FirstMet(Ends(t, Len(T) - j)), W)}
  <2>1. ASSUME D # {} PROVE FALSE
    <3>1. PICK j \in D : \A i \in D : j <= i
      <4>1. D \in SUBSET Nat
        OBVIOUS
      <4> HIDE DEF D
      <4> QED
        BY <2>1, <4>1, Least
    <3>2. j \in Nat /\ j <= Len(T) /\ ~ Begins(FirstMet(Ends(t, Len(T) - j)), W)
      OBVIOUS
    <3>3. j # 0
      <4>1. j = 0 => Len(T) - j = Len(T)
        BY <1>1
      <4> QED
        BY <1>1, <1>3, <3>2, <4>1
    <3>4. j - 1 \in Nat /\ ~ (j <= j - 1) /\ j - 1 <= Len(T) /\ Len(T) - (j - 1) = (Len(T) - j) + 1
          /\ Len(T) - j \in Nat /\ Len(T) - j < Len(T)
      BY <1>1, <3>2, <3>3
    <3>5. Begins(FirstMet(Ends(t, Len(T) - (j - 1))), W)
      BY <3>1, <3>4
    <3>6. Begins(FirstMet(Ends(t, (Len(T) - j) + 1)), W)
      BY <3>4, <3>5
    <3> QED
      BY <1>4, <3>2, <3>4, <3>6
  <2>2. ASSUME NEW k \in 0..Len(T) PROVE Begins(FirstMet(Ends(t, k)), W)
    <3>1. Len(T) - k \in Nat /\ Len(T) - k <= Len(T) /\ Len(T) - (Len(T) - k) = k
      BY <1>1
    <3>2. Len(T) - k \notin D
      BY <2>1
    <3>3. Begins(FirstMet(Ends(t, Len(T) - (Len(T) - k))), W)
      BY <3>1, <3>2
    <3> QED
      BY <3>1, <3>3
  <2> QED
    BY <2>2
<1>6. ASSUME NEW k \in Nat, k < Len(T) PROVE Begins(FirstMet(Half(k)), W)
  <2>1. k + 1 \in 0..Len(T)
    BY <1>1, <1>6
  <2> QED
    BY <1>4, <1>5, <1>6, <2>1
<1> QED
  BY <1>5, <1>6 DEF T, W, Half

\* A node's number is where it stands in what there is of the graph.
LEMMA NumberIs ==
  ASSUME map \in Maps, NEW t, NEW s, Begins(s, WalkingNodes(t)), NEW i \in 1..Len(s), Len(s) \in Nat
  PROVE  Number(t, s[i]) = i - 1
<1> DEFINE W == WalkingNodes(t)
<1>1. Len(TileSegments(t)) \in Nat /\ Ends(t, Len(TileSegments(t))) \in Seq(Nodes)
      /\ W = FirstMet(Ends(t, Len(TileSegments(t))))
  <2>1. /\ Len(TileSegments(t)) \in Nat
        /\ W = FirstMet(Ends(t, Len(TileSegments(t))))
        /\ \A k \in 0..Len(TileSegments(t)) : Ends(t, k) \in Seq(Nodes)
    BY EndsStep
  <2> HIDE DEF W
  <2> QED
    BY <2>1
<1> HIDE DEF W
<1>2. W \in Seq(Nodes) /\ \A k, l \in 1..Len(W) : W[k] = W[l] => k = l
  <2>1. /\ FirstMet(Ends(t, Len(TileSegments(t)))) \in Seq(Nodes)
        /\ \A k, l \in 1..Len(FirstMet(Ends(t, Len(TileSegments(t))))) :
              FirstMet(Ends(t, Len(TileSegments(t))))[k] = FirstMet(Ends(t, Len(TileSegments(t))))[l] => k = l
    BY <1>1, FirstMetIs, Zenon
  <2> QED
    BY <1>1, <2>1
<1>3. Len(W) \in Nat /\ DOMAIN W = 1..Len(W)
  BY <1>2
<1>4. i \in 1..Len(W) /\ W[i] = s[i]
  BY <1>3 DEF Begins, W
<1>5. (CHOOSE j \in DOMAIN W : W[j] = s[i]) = i
  BY <1>2, <1>3, <1>4
<1> QED
  BY <1>5 DEF Number, W

-----------------------------------------------------------------------------
(***************************************************************************)
(* What a lookup and an edge make of a graph.                              *)
(***************************************************************************)
IsRecord(g) ==
    g = [nodes |-> g.nodes, edges |-> g.edges, nodeCapacity |-> g.nodeCapacity,
         slotCapacity |-> g.slotCapacity, edgeCapacity |-> g.edgeCapacity, pooled |-> g.pooled]

\* A lookup appends a node that is not there yet and leaves the edges alone.
LEMMA NodeForIs ==
  ASSUME NEW g, IsRecord(g), NEW n
  PROVE  /\ IsRecord(NodeFor(g, n)) /\ NodeFor(g, n).edges = g.edges
         /\ NodeFor(g, n).nodes = IF n \in Range(g.nodes) THEN g.nodes ELSE Append(g.nodes, n)
<1> DEFINE h == NodeFor(g, n)
           a == IF n \in Range(g.nodes) THEN g.nodes ELSE Append(g.nodes, n)
<1> DEFINE needed == Len(g.nodes) + 1
           known == n \in Range(g.nodes)
           rehash == needed * 2 >= g.slotCapacity
           extend == ~ known /\ needed > g.nodeCapacity
           b == IF rehash THEN 2 * g.slotCapacity ELSE g.slotCapacity
           c == IF extend THEN 2 * g.nodeCapacity ELSE g.nodeCapacity
           d == g.pooled /\ ~ rehash /\ ~ extend
<1>1. h = [g EXCEPT !.nodes = a, !.slotCapacity = b, !.nodeCapacity = c, !.pooled = d]
  BY Zenon DEF NodeFor
<1> HIDE DEF h, a, b, c, d
<1>2. h = [nodes |-> a, edges |-> g.edges, nodeCapacity |-> c, slotCapacity |-> b,
           edgeCapacity |-> g.edgeCapacity, pooled |-> d]
  BY <1>1 DEF IsRecord
<1>3. IsRecord(h) /\ h.nodes = a /\ h.edges = g.edges
  BY <1>2 DEF IsRecord
<1> QED
  BY <1>3 DEF h, a

\* An edge is appended, but for one from a node to itself.
LEMMA AddDirectedIs ==
  ASSUME NEW g, IsRecord(g), NEW l, NEW r
  PROVE  /\ IsRecord(AddDirected(g, l, r)) /\ AddDirected(g, l, r).nodes = g.nodes
         /\ AddDirected(g, l, r).edges = IF l = r THEN g.edges ELSE Append(g.edges, <<l, r>>)
<1> DEFINE h == AddDirected(g, l, r)
           a == Append(g.edges, <<l, r>>)
<1>1. CASE l = r
  BY <1>1 DEF AddDirected
<1>2. CASE l # r
  <2> DEFINE extend == Len(g.edges) + 1 > g.edgeCapacity
             b == IF extend THEN 2 * g.edgeCapacity ELSE g.edgeCapacity
             c == g.pooled /\ ~ extend
  <2>1. h = [g EXCEPT !.edges = a, !.edgeCapacity = b, !.pooled = c]
    BY <1>2, Zenon DEF AddDirected
  <2> HIDE DEF h, a, b, c
  <2>2. h = [nodes |-> g.nodes, edges |-> a, nodeCapacity |-> g.nodeCapacity,
             slotCapacity |-> g.slotCapacity, edgeCapacity |-> b, pooled |-> c]
    BY <2>1 DEF IsRecord
  <2>3. IsRecord(h) /\ h.nodes = g.nodes /\ h.edges = a
    BY <2>2 DEF IsRecord
  <2> QED
    BY <1>2, <2>3 DEF h, a
<1> QED
  BY <1>1, <1>2

\* A segment is appended in both directions.
LEMMA TwoEdges ==
  ASSUME NEW g, IsRecord(g), NEW l, NEW r, NEW D, g.edges \in Seq(D)
  PROVE  /\ AddDirected(AddDirected(g, l, r), r, l).nodes = g.nodes
         /\ AddDirected(AddDirected(g, l, r), r, l).edges
            = g.edges \o BothWays(l, r)
<1> DEFINE h == AddDirected(g, l, r)
           k == AddDirected(h, r, l)
<1>1. IsRecord(h) /\ h.nodes = g.nodes /\ h.edges = IF l = r THEN g.edges ELSE Append(g.edges, <<l, r>>)
  BY AddDirectedIs
<1> HIDE DEF h
<1>2. k.nodes = h.nodes /\ k.edges = IF r = l THEN h.edges ELSE Append(h.edges, <<r, l>>)
  BY <1>1, AddDirectedIs
<1> HIDE DEF k
<1>3. CASE l = r
  <2>1. g.edges \o <<>> = g.edges
    OBVIOUS
  <2> QED
    BY <1>1, <1>2, <1>3, <2>1 DEF h, k, BothWays
<1>4. CASE l # r
  <2>1. g.edges \in Seq(D \cup {<<l, r>>, <<r, l>>})
    OBVIOUS
  <2>2. g.edges \o <<<<l, r>>, <<r, l>>>> = Append(Append(g.edges, <<l, r>>), <<r, l>>)
    BY <2>1, JoinPair
  <2> QED
    BY <1>1, <1>2, <1>4, <2>2 DEF h, k, BothWays
<1> QED
  BY <1>3, <1>4

\* A lookup numbers the node, and keeps the numbers of the others.
LEMMA LookedUp ==
  ASSUME NEW t \in Tiles, IsRecord(graph[t]), NEW n \in Nodes, Kept(n),
         NEW s \in Seq(Nodes), graph[t].nodes = FirstMet(s)
  PROVE  /\ IsRecord(GraphWith(t, n)) /\ GraphWith(t, n).edges = graph[t].edges
         /\ GraphWith(t, n).nodes = FirstMet(Append(s, n))
         /\ IndexOf(t, n) \in Nat
         /\ IndexOf(t, n) + 1 \in 1..Len(FirstMet(Append(s, n)))
         /\ FirstMet(Append(s, n))[IndexOf(t, n) + 1] = n
<1> DEFINE f == FirstMet(s)
           h == FirstMet(Append(s, n))
<1>1. /\ h = IF n \in Range(f) THEN f ELSE Append(f, n)
      /\ Append(s, n) \in Seq(Nodes)
      /\ Begins(f, h) /\ \E i \in 1..Len(h) : h[i] = n
  BY FirstMetGrows
<1>2. f \in Seq(Nodes) /\ h \in Seq(Nodes)
  BY <1>1, FirstMetIs, Zenon
<1> HIDE DEF f, h
<1>3. Len(h) \in Nat /\ DOMAIN h = 1..Len(h) /\ Len(f) \in Nat /\ DOMAIN f = 1..Len(f)
  BY <1>2
<1>4. CASE Cached(t, n)
  <2>1. /\ GraphWith(t, n) = graph[t] /\ IndexOf(t, n) = graphIndex[n]
        /\ coordTile[n] = t /\ graphIndex[n] # NoIndex
    BY <1>4 DEF GraphWith, IndexOf, Cached
  <2>2. graphIndex[n] \in Nat /\ graphIndex[n] + 1 \in 1..Len(f) /\ f[graphIndex[n] + 1] = n
    BY <2>1 DEF Kept, f
  <2>3. n \in Range(f)
    BY <1>3, <2>2 DEF Range
  <2>4. h = f
    BY <1>1, <2>3
  <2> QED
    BY <2>1, <2>2, <2>4 DEF f, h
<1>5. CASE ~ Cached(t, n)
  <2>1. /\ GraphWith(t, n) = NodeFor(graph[t], n)
        /\ IndexOf(t, n) = Index(NodeFor(graph[t], n), n)
    BY <1>5 DEF GraphWith, IndexOf
  <2>2. /\ IsRecord(NodeFor(graph[t], n)) /\ NodeFor(graph[t], n).edges = graph[t].edges
        /\ NodeFor(graph[t], n).nodes = h
    BY <1>1, NodeForIs DEF f
  <2>3. IndexOf(t, n) = (CHOOSE i \in 1..Len(h) : h[i] = n) - 1
    BY <1>3, <2>1, <2>2 DEF Index
  <2>4. PICK i \in 1..Len(h) : i = (CHOOSE j \in 1..Len(h) : h[j] = n) /\ h[i] = n
    BY <1>1
  <2>5. IndexOf(t, n) = i - 1 /\ i - 1 \in Nat /\ (i - 1) + 1 = i
    BY <2>3, <2>4
  <2> QED
    BY <2>1, <2>2, <2>4, <2>5 DEF h
<1> QED
  BY <1>4, <1>5

-----------------------------------------------------------------------------
(***************************************************************************)
(* The threads, and what the call returns.                                 *)
(***************************************************************************)

\* There is at least one thread, and they are numbered from 1.
LEMMA WorkersAre ==
  Cardinality(Workers) \in Nat /\ Cardinality(Workers) # 0 /\ Workers = 1..Cardinality(Workers)
<1> DEFINE m == IF ThreadCount = 0 THEN 1 ELSE IF ThreadCount > TileCount THEN TileCount ELSE ThreadCount
<1>1. m \in Nat /\ m # 0 /\ Workers = 1..m
  BY WalkingAssumption DEF Workers
<1> HIDE DEF m
<1>2. Cardinality(1..m) = IF 1 > m THEN 0 ELSE m - 1 + 1
  BY <1>1, FS_Interval
<1>3. Cardinality(1..m) = m
  BY <1>1, <1>2
<1> QED
  BY <1>1, <1>3

\* Before the call begins no thread runs.
LEMMA CallInit == Init => CallInv
<1> SUFFICES ASSUME Init PROVE CallInv
  OBVIOUS
<1>1. \A w \in Workers : w \in Nat /\ w # 0 /\ ~ (w <= 0)
  BY WorkersAre
<1>2. /\ started = 0 /\ joined = 0 /\ result = 0 /\ phase = "collect" /\ failed = FALSE
      /\ \A w \in Workers : place[w] = "idle"
  BY DEF Init
<1>3. started \in 0..Cardinality(Workers) /\ joined \in 0..started
  BY <1>2, WorkersAre
<1>4. \A w \in Workers : place[w] # "idle" <=> w <= started
  BY <1>1, <1>2
<1>5. \A w \in Workers : w <= joined => place[w] \in {"ended", "gaveup"}
  BY <1>1, <1>2
<1>6. ~ failed /\ failed \in BOOLEAN
  BY <1>2
<1>7. /\ \A w \in Workers : place[w] \in {"idle", "ended", "gaveup"}
      /\ \A w \in Workers : place[w] # "ended" /\ place[w] # "gaveup"
      /\ result \in {0, -1} /\ result # -1 /\ phase # "join"
  BY <1>2
<1> QED
  BY <1>2, <1>3, <1>4, <1>5, <1>6, <1>7 DEF CallInv

\* No thread finds the range of a tile outside the store.
LEMMA BeginFits ==
  ASSUME InputInv, StoreInv, BuildInv, phase \in PoolPhases, NEW w \in Workers, place[w] = "begin"
  PROVE  count[tile[w]] = 0 \/ ~ (GroupEnd(tile[w]) > segmentCount)
<1> DEFINE t == tile[w]
<1>1. t \in Tiles
  BY DEF BuildInv, Claims, Building
<1>2. count[t] \in Nat /\ offset[t] \in Nat /\ segmentCount \in Nat
  BY <1>1 DEF BuildInv, Types, StoreInv
<1>3. count[t] > 0 => GroupEnd(t) <= segmentCount
  BY <1>1, StoreFacts DEF PoolPhases, Filled
<1> QED
  BY <1>2, <1>3 DEF GroupEnd

\* The passes over the PBF start no thread, and fail only when something in Faults did.
LEMMA CallInPasses ==
  ASSUME InputInv, StoreInv, BuildInv, CallInv,
         \/ CollectRefs \/ ResolveCoords \/ CountSegment \/ CountDone
         \/ LayoutTile \/ LayoutDone \/ FillSegment \/ FillDone \/ MakePools
  PROVE  CallInv' /\ phase \in Passes /\ phase' \in Passes \cup {"start", "write", "done"}
<1>1. phase \in Passes /\ phase' \in Passes \cup {"start", "write", "done"}
  BY DEF CollectRefs, ResolveCoords, CountSegment, CountDone, LayoutTile, LayoutDone, FillSegment,
         FillDone, MakePools, Fails, MainAt, MainGoes, Passes
<1>2. UNCHANGED <<started, joined, place, nextTile, failed>>
  BY DEF CollectRefs, ResolveCoords, CountSegment, CountDone, LayoutTile, LayoutDone, FillSegment,
         FillDone, MakePools, Fails, MainGoes, buildVars, sharedVars, workerVars
<1>3. UNCHANGED <<result, trouble>> \/ (result' \in {0, -1} /\ trouble')
  <2>1. CASE FillSegment
    <3>1. count \in [Tiles -> Nat] /\ offset \in [Tiles -> Nat]
      BY DEF BuildInv, Types
    <3>2. \/ UNCHANGED <<result, trouble>>
          \/ trouble'
      BY <2>1, <3>1, NeverFull
    <3>3. result' \in {result, -1}
      BY <2>1 DEF FillSegment, Fails
    <3> QED
      BY <3>2, <3>3 DEF CallInv
  <2>2. CASE ~ FillSegment
    BY <2>2 DEF CollectRefs, ResolveCoords, CountSegment, CountDone, LayoutTile, LayoutDone,
           FillDone, MakePools, Fails, MainGoes
  <2> QED
    BY <2>1, <2>2
<1>4. started = 0 /\ ~ failed /\ \A w \in Workers : place[w] = "idle"
  <2>1. \A w \in Workers : w \in Nat /\ ~ (w <= 0)
    BY WorkersAre
  <2> QED
    BY <1>1, <2>1 DEF CallInv
<1>5. phase' # "join"
  BY <1>1 DEF Passes
<1> QED
  BY <1>1, <1>2, <1>3, <1>4, <1>5 DEF CallInv, PoolPhases

\* Every step keeps what is said of the threads and of the result.
LEMMA CallStep ==
  ASSUME InputInv, StoreInv, BuildInv, CallInv, [Next]_vars
  PROVE  CallInv'
<1>1. Cardinality(Workers) \in Nat /\ Cardinality(Workers) # 0 /\ Workers = 1..Cardinality(Workers)
  BY WorkersAre
<1>2. /\ started \in 0..Cardinality(Workers) /\ joined \in 0..started
      /\ place \in [Workers -> WorkerPlaces] /\ nextTile \in Nat /\ TileCount \in Nat
  BY WalkingAssumption DEF CallInv, BuildInv, Types
<1>3. CASE StartWorker
  <2>1. /\ phase = "start" /\ started < Cardinality(Workers) /\ started' = started + 1
        /\ place' = [place EXCEPT ![started + 1] = "test"]
        /\ UNCHANGED <<phase, joined, result, trouble, failed, nextTile>>
    BY <1>3 DEF StartWorker, MainAt, sharedVars
  <2>2. started + 1 \in Workers /\ started' \in 0..Cardinality(Workers) /\ joined' \in 0..started'
    BY <1>1, <1>2, <2>1
  <2>3. place'[started + 1] = "test" /\ \A w \in Workers : w # started + 1 => place'[w] = place[w]
    BY <1>2, <2>1, <2>2
  <2>4. \A w \in Workers : w <= started' <=> w <= started \/ w = started + 1
    BY <1>1, <1>2, <2>1
  <2>5. ~ (started + 1 <= joined)
    BY <1>2
  <2> QED
    BY <2>1, <2>2, <2>3, <2>4, <2>5 DEF CallInv, PoolPhases, Passes
<1>4. CASE StartFails \/ AllStarted
  <2>1. /\ phase = "start" /\ phase' = "join" /\ UNCHANGED <<started, joined, place, nextTile>>
        /\ \/ failed' /\ failed' \in BOOLEAN /\ trouble' /\ result' = -1
           \/ started = Cardinality(Workers) /\ UNCHANGED <<failed, result, trouble>>
    BY <1>4 DEF StartFails, AllStarted, MainAt, MainGoes, workerVars, buildVars, sharedVars
  <2> QED
    BY <2>1 DEF CallInv, PoolPhases, Passes
<1>5. CASE Join
  <2>1. /\ phase = "join" /\ joined < started /\ place[joined + 1] \in {"ended", "gaveup"}
        /\ joined' = joined + 1 /\ result' = IF place[joined + 1] = "gaveup" THEN -1 ELSE result
        /\ UNCHANGED <<phase, started, place, nextTile, failed, trouble>>
    BY <1>5 DEF Join, MainAt, workerVars, buildVars, sharedVars
  <2>2. joined + 1 \in Workers /\ joined' \in 0..started'
    BY <1>1, <1>2, <2>1
  <2>3. \A w \in Workers : w <= joined' => w <= joined \/ w = joined + 1
    BY <1>1, <1>2, <2>1
  <2>4. place[joined + 1] = "gaveup" => trouble
    BY <2>2 DEF CallInv
  <2> QED
    BY <2>1, <2>2, <2>3, <2>4 DEF CallInv, PoolPhases, Passes
<1>6. CASE AllJoined
  <2>1. /\ phase = "join" /\ joined = started /\ phase' \in {"write", "done"}
        /\ result' = IF failed THEN -1 ELSE result
        /\ UNCHANGED <<started, joined, place, nextTile, failed, trouble>>
    BY <1>6 DEF AllJoined, MainAt, workerVars, buildVars, sharedVars
  <2>2. ASSUME NEW w \in Workers PROVE place[w] \in {"idle", "ended", "gaveup"}
    <3>1. CASE w <= started
      BY <2>1, <3>1 DEF CallInv
    <3>2. CASE ~ (w <= started)
      BY <3>2 DEF CallInv
    <3> QED
      BY <3>1, <3>2
  <2> QED
    BY <2>1, <2>2 DEF CallInv, PoolPhases, Passes
<1>7. CASE WriteTile \/ WriteDone
  <2>1. /\ phase = "write" /\ phase' \in {"write", "done"}
        /\ UNCHANGED <<result, trouble>> \/ (result' = -1 /\ trouble')
        /\ UNCHANGED <<started, joined, place, nextTile, failed>>
    BY <1>7 DEF WriteTile, WriteDone, Fails, MainAt, MainGoes, workerVars, buildVars, sharedVars
  <2> QED
    BY <2>1 DEF CallInv, PoolPhases, Passes
<1>8. ASSUME NEW w \in Workers, Worker(w) PROVE CallInv'
  <2>1. UNCHANGED <<phase, started, joined, result, trouble>>
    BY <1>8 DEF Worker, mainVars
  <2>2. place[w] \notin {"idle", "ended", "gaveup"}
    BY <1>8 DEF Worker, WorkerTest, WorkerClaim, WorkerBegin, WorkerLeft, WorkerRight, At
  <2>3. phase \in PoolPhases
    BY <2>2 DEF CallInv
  <2>4. /\ \A v \in Workers : v # w => place'[v] = place[v]
        /\ place'[w] # "idle" /\ UNCHANGED failed
        /\ place'[w] = "gaveup" => failed
        /\ nextTile' \in Nat /\ nextTile' >= nextTile
        /\ place'[w] = "ended" => nextTile' >= TileCount
    <3>1. CASE WorkerTest(w)
      BY <1>2, <3>1 DEF WorkerTest, Goes, sharedVars
    <3>2. CASE WorkerClaim(w)
      BY <1>2, <3>2 DEF WorkerClaim, Goes, sharedVars
    <3>3. CASE WorkerBegin(w)
      <4>1. count[tile[w]] = 0 \/ ~ (GroupEnd(tile[w]) > segmentCount)
        BY <2>3, <3>3, BeginFits DEF WorkerBegin, At
      <4> QED
        BY <1>2, <3>3, <4>1 DEF WorkerBegin, Goes
    <3>4. CASE WorkerLeft(w) \/ WorkerRight(w)
      BY <1>2, <3>4 DEF WorkerLeft, WorkerRight, Goes, sharedVars
    <3> QED
      BY <1>8, <3>1, <3>2, <3>3, <3>4 DEF Worker
  <2>5. ~ (w <= joined)
    BY <2>2 DEF CallInv
  <2>6. \A v \in Workers : place'[v] = "ended" => nextTile' >= TileCount
    <3>1. nextTile >= TileCount => nextTile' >= TileCount
      BY <1>2, <2>4
    <3> QED
      BY <2>4, <3>1 DEF CallInv
  <2> QED
    BY <2>1, <2>2, <2>3, <2>4, <2>5, <2>6 DEF CallInv
<1>9. CASE UNCHANGED vars
  BY <1>9 DEF vars, buildVars, sharedVars, workerVars, mainVars, CallInv
<1> QED
  BY <1>3, <1>4, <1>5, <1>6, <1>7, <1>8, <1>9, CallInPasses DEF Next, Main, Returned

-----------------------------------------------------------------------------
(***************************************************************************)
(* The graphs.                                                             *)
(***************************************************************************)

\* At first there is no graph.
LEMMA GraphInit == Init => GraphInv
<1> SUFFICES ASSUME Init PROVE GraphInv
  OBVIOUS
<1>1. /\ phase = "collect" /\ nextTile = 0
      /\ graphIndex = [n \in Nodes |-> NoIndex]
      /\ \A t \in Tiles : graph[t] = NoGraph
  BY DEF Init, Nodes
<1>2. \A t \in Tiles : Blank(t)
  BY <1>1 DEF Blank, NoGraph
<1>3. graphIndex = [n \in Nodes |-> graphIndex[n]] /\ \A n \in Nodes : graphIndex[n] = NoIndex
  BY <1>1
<1> QED
  BY <1>1, <1>2, <1>3 DEF GraphInv, PoolPhases

\* The edges in each direction, from the segments and the numbered nodes.
TwiceOf(segments, nodes) ==
    LET number(n) == (CHOOSE i \in DOMAIN nodes : nodes[i] = n) - 1
        both(pair) == LET l == number(pair[1])
                          r == number(pair[2])
                      IN  IF l = r THEN <<>> ELSE <<<<l, r>>, <<r, l>>>>
    IN  [i \in DOMAIN segments |-> both(segments[i])]

\* What is said of the map alone.
LEMMA WantedKept ==
  ASSUME map' = map
  PROVE  \A t : /\ TileSegments(t)' = TileSegments(t)
                /\ WalkingNodes(t)' = WalkingNodes(t)
                /\ WalkingEdges(t)' = WalkingEdges(t)
                /\ \A k : Ends(t, k)' = Ends(t, k) /\ Links(t, k)' = Links(t, k)
                /\ \A n : Number(t, n)' = Number(t, n)
<1>1. Segments' = Segments
  BY MapKept
<1>2. ASSUME NEW t PROVE TileSegments(t)' = TileSegments(t)
  BY <1>1 DEF TileSegments, TouchesTile
<1>3. ASSUME NEW t PROVE WalkingNodes(t)' = WalkingNodes(t)
  BY <1>2 DEF WalkingNodes
<1>4. ASSUME NEW t PROVE WalkingEdges(t)' = WalkingEdges(t)
  <2>1. WalkingEdges(t) = FlattenSeq(TwiceOf(TileSegments(t), WalkingNodes(t)))
    BY Zenon DEF WalkingEdges, TwiceOf
  <2>2. WalkingEdges(t)' = FlattenSeq(TwiceOf(TileSegments(t)', WalkingNodes(t)'))
    BY Zenon DEF WalkingEdges, TwiceOf
  <2> QED
    BY <1>2, <1>3, <2>1, <2>2
<1>5. ASSUME NEW t, NEW k PROVE Ends(t, k)' = Ends(t, k)
  BY <1>2 DEF Ends
<1>6. ASSUME NEW t, NEW n PROVE Number(t, n)' = Number(t, n)
  BY <1>3 DEF Number
<1>7. ASSUME NEW t, NEW k PROVE Links(t, k)' = Links(t, k)
  <2>1. Links(t, k) = FlattenSeq(SubSeq(TwiceOf(TileSegments(t), WalkingNodes(t)), 1, k))
    BY Zenon DEF Links, Both, BothWays, Number, TwiceOf
  <2>2. Links(t, k)' = FlattenSeq(SubSeq(TwiceOf(TileSegments(t)', WalkingNodes(t)'), 1, k))
    BY Zenon DEF Links, Both, BothWays, Number, TwiceOf
  <2> QED
    BY <1>2, <1>3, <2>1, <2>2
<1> QED
  BY <1>2, <1>3, <1>4, <1>5, <1>6, <1>7

\* A tile without segments is built before it is begun.
LEMMA NothingToBuild ==
  ASSUME map \in Maps, NEW t, Len(TileSegments(t)) = 0
  PROVE  WalkingNodes(t) = <<>> /\ WalkingEdges(t) = <<>>
<1>1. WalkingNodes(t) = FirstMet(Ends(t, 0)) /\ Ends(t, 0) = <<>>
  BY EndsStep
<1>2. WalkingEdges(t) = Links(t, 0) /\ Links(t, 0) = <<>>
  BY LinksStep
<1> QED
  BY <1>1, <1>2, FirstMetNil

\* The passes over the PBF build no graph.
LEMMA GraphInPasses ==
  ASSUME InputInv, StoreInv, BuildInv, CallInv, GraphInv,
         \/ CollectRefs \/ ResolveCoords \/ CountSegment \/ CountDone
         \/ LayoutTile \/ LayoutDone \/ FillSegment \/ FillDone
  PROVE  GraphInv'
<1>1. /\ phase \in Passes /\ phase' \in Passes \cup {"write", "done"}
      /\ UNCHANGED <<map, graph, graphIndex, nextTile>>
  BY DEF CollectRefs, ResolveCoords, CountSegment, CountDone, LayoutTile, LayoutDone, FillSegment,
         FillDone, Fails, MainAt, MainGoes, Passes, inputVars, buildVars, graphVars, sharedVars
<1>2. /\ nextTile = 0 /\ (\A t \in Tiles : Blank(t)) /\ \A n \in Nodes : graphIndex[n] = NoIndex
      /\ graphIndex = [n \in Nodes |-> graphIndex[n]]
  BY <1>1 DEF GraphInv
<1>3. /\ nextTile' = 0 /\ (\A t \in Tiles : Blank(t)') /\ \A n \in Nodes' : graphIndex'[n] = NoIndex
      /\ graphIndex' = [n \in Nodes' |-> graphIndex'[n]]
  BY <1>1, <1>2 DEF Blank, Nodes
<1>4. ASSUME phase' = "write", NEW t \in Tiles PROVE Complete(t)'
  <2>1. phase = "fill" /\ at > Total /\ segmentCount = 0
    BY <1>4 DEF CollectRefs, ResolveCoords, CountSegment, CountDone, LayoutTile, LayoutDone, FillSegment,
         FillDone, Fails, MainAt, MainGoes, Total
  <2>2. at \in 1..(Total + 1) /\ map \in Maps /\ Stored(at - 1)
    BY <2>1 DEF StoreInv, InputInv
  <2>3. Total \in Nat /\ at - 1 = Total
    BY <2>1, <2>2, TouchFacts
  <2>4. /\ cursor[t] = offset[t] + Rank(Touch(t), Total) /\ Rank(Touch(t), Total) \in Nat
        /\ Rank(Touch(t), Total) > 0 => cursor[t] <= segmentCount
        /\ offset[t] \in Nat
        /\ Len(TileSegments(t)) = Rank(Touch(t), Total)
    <3>1. Stored(Total)
      BY <2>2, <2>3
    <3>2. Rank(Touch(t), Total) \in Nat /\ Rank(Touch(t), Total) = Cardinality(Touch(t))
      BY <2>2, <2>3, TouchFacts
    <3>3. Len(TileSegments(t)) = Cardinality(Touch(t))
      BY <2>2, TileSegmentsAre
    <3>4. offset[t] \in Nat
      BY DEF BuildInv, Types
    <3> QED
      BY <3>1, <3>2, <3>3, <3>4 DEF Stored
  <2>5. Len(TileSegments(t)) = 0
    BY <2>1, <2>4
  <2>6. WalkingNodes(t) = <<>> /\ WalkingEdges(t) = <<>>
    BY <2>2, <2>5, NothingToBuild
  <2>7. WalkingNodes(t)' = WalkingNodes(t) /\ WalkingEdges(t)' = WalkingEdges(t)
    BY <1>1, WantedKept
  <2> QED
    BY <1>3, <2>6, <2>7 DEF Complete, Blank
<1>5. phase' \notin PoolPhases
  BY <1>1 DEF Passes, PoolPhases
<1> QED
  BY <1>3, <1>4, <1>5 DEF GraphInv

\* The pools are given out with every graph empty.
LEMMA GraphPooled ==
  ASSUME InputInv, BuildInv, CallInv, GraphInv, MakePools
  PROVE  GraphInv'
<1>1. /\ phase = "pools" /\ UNCHANGED <<map, graphIndex, nextTile, place>>
      /\ \/ phase' = "start" /\ graph' = [t \in Tiles |-> IF count[t] = 0 THEN graph[t] ELSE Pooled(t)]
         \/ phase' = "done"
  BY DEF MakePools, Fails, MainAt, MainGoes, inputVars, buildVars, graphVars, sharedVars, workerVars
<1>2. /\ nextTile = 0 /\ (\A t \in Tiles : Blank(t)) /\ \A n \in Nodes : graphIndex[n] = NoIndex
      /\ graphIndex = [n \in Nodes |-> graphIndex[n]]
  BY <1>1 DEF GraphInv, Passes
<1>3. Nodes' = Nodes
  BY <1>1 DEF Nodes
<1>4. CASE phase' = "start" /\ graph' = [t \in Tiles |-> IF count[t] = 0 THEN graph[t] ELSE Pooled(t)]
  <2>1. ASSUME NEW t \in Tiles PROVE Blank(t)' /\ Untouched(t)'
    <3>1. graph'[t] = IF count[t] = 0 THEN graph[t] ELSE Pooled(t)
      BY <1>4
    <3>2. Blank(t)'
      BY <1>2, <3>1 DEF Blank, Pooled
    <3>3. t >= nextTile'
      BY <1>1, <1>2, TileFacts
    <3> QED
      BY <3>2, <3>3 DEF Untouched
  <2>2. \A n \in Nodes' : Kept(n)'
    BY <1>1, <1>2, <1>3 DEF Kept
  <2>3. \A w \in Workers : HalfBuilt(w)'
    <3>1. \A w \in Workers : place[w] = "idle"
      <4>1. \A w \in Workers : w \in Nat /\ ~ (w <= 0)
        BY WorkersAre
      <4> QED
        BY <1>1, <4>1 DEF CallInv, Passes
    <3> QED
      BY <1>1, <3>1 DEF HalfBuilt
  <2> QED
    BY <1>1, <1>2, <1>3, <1>4, <2>1, <2>2, <2>3 DEF GraphInv, Passes
<1>5. CASE phase' = "done"
  BY <1>1, <1>2, <1>3, <1>5 DEF GraphInv, Passes, PoolPhases
<1> QED
  BY <1>1, <1>4, <1>5

\* A step that builds nothing, and begins and ends no tile.
LEMMA GraphSame ==
  ASSUME GraphInv, UNCHANGED <<map, coordTile, offset, graph, graphIndex, nextTile, tile, segment, leftIndex>>,
         \A w \in Workers : place[w] \in Building \/ place'[w] \in Building => place'[w] = place[w],
         \/ phase' = phase
         \/ phase' \in PoolPhases /\ phase \in PoolPhases
         \/ phase' = "done"
  PROVE  GraphInv'
<1>1. /\ Nodes' = Nodes
      /\ \A t : /\ TileSegments(t)' = TileSegments(t)
                /\ WalkingNodes(t)' = WalkingNodes(t)
                /\ WalkingEdges(t)' = WalkingEdges(t)
                /\ \A k : Ends(t, k)' = Ends(t, k) /\ Links(t, k)' = Links(t, k)
                /\ \A n : Number(t, n)' = Number(t, n)
  BY WantedKept DEF Nodes
<1>2. ASSUME NEW t \in Tiles
      PROVE  /\ Blank(t)' <=> Blank(t)
             /\ Complete(t)' <=> Complete(t)
             /\ Untouched(t)' <=> Untouched(t)
             /\ Busy(t)' <=> Busy(t)
  BY <1>1 DEF Blank, Complete, Untouched, Busy, Building
<1>3. ASSUME NEW n \in Nodes PROVE Kept(n)' <=> Kept(n)
  BY DEF Kept
<1>4. ASSUME NEW w \in Workers, HalfBuilt(w) PROVE HalfBuilt(w)'
  <2>1. CASE place'[w] \in {"left", "right"}
    <3>1. place'[w] = place[w]
      BY <2>1 DEF Building
    <3> QED
      BY <1>1, <1>4, <3>1 DEF HalfBuilt
  <2>2. CASE place'[w] \notin {"left", "right"}
    BY <2>2 DEF HalfBuilt
  <2> QED
    BY <2>1, <2>2
<1>5. graphIndex' = [n \in Nodes' |-> graphIndex'[n]]
  BY <1>1 DEF GraphInv
<1>6. phase' \in Passes => phase' = phase
  BY DEF Passes, PoolPhases
<1>7. phase' \in PoolPhases => phase \in PoolPhases
  BY DEF PoolPhases
<1>8. phase' = "write" => phase = "write"
  BY DEF PoolPhases
<1>9. phase' \in Passes => /\ nextTile' = 0 /\ (\A t \in Tiles : Blank(t)')
                           /\ \A n \in Nodes' : graphIndex'[n] = NoIndex
  BY <1>1, <1>2, <1>6 DEF GraphInv
<1>10. phase' \in PoolPhases =>
          /\ \A t \in Tiles : Untouched(t)' => Blank(t)'
          /\ \A t \in Tiles : Untouched(t)' \/ Busy(t)' \/ Complete(t)'
          /\ \A n \in Nodes' : Kept(n)'
          /\ \A w \in Workers : HalfBuilt(w)'
  BY <1>1, <1>2, <1>3, <1>4, <1>7 DEF GraphInv
<1>11. phase' = "write" => \A t \in Tiles : Complete(t)'
  BY <1>2, <1>8 DEF GraphInv
<1> QED
  BY <1>5, <1>9, <1>10, <1>11 DEF GraphInv

\* When all have ended, all tiles are built.
LEMMA GraphJoined ==
  ASSUME BuildInv, CallInv, GraphInv, AllJoined
  PROVE  GraphInv'
<1>1. /\ phase = "join" /\ joined = started /\ phase' = (IF result' = 0 THEN "write" ELSE "done")
      /\ result' = IF failed THEN -1 ELSE result
      /\ UNCHANGED <<map, coordTile, offset, graph, graphIndex, nextTile, tile, segment, leftIndex, place>>
  BY DEF AllJoined, MainAt, inputVars, storeVars, buildVars, graphVars, sharedVars, workerVars
<1>2. CASE phase' = "done"
  BY <1>1, <1>2, GraphSame
<1>3. CASE phase' = "write"
  <2>1. ~ failed /\ started = Cardinality(Workers)
    BY <1>1, <1>3 DEF CallInv
  <2>2. Workers = 1..Cardinality(Workers) /\ 1 \in Workers
    BY WorkersAre
  <2>3. ASSUME NEW w \in Workers PROVE place[w] = "ended" /\ nextTile >= TileCount
    <3>1. w <= joined
      BY <1>1, <2>1, WorkersAre
    <3> QED
      BY <2>1, <3>1 DEF CallInv
  <2>4. nextTile >= TileCount
    BY <2>2, <2>3
  <2>5. ASSUME NEW t \in Tiles PROVE Complete(t)'
    <3>1. t \in Nat /\ t < TileCount /\ TileCount \in Nat
      BY TileFacts
    <3>2. ~ Untouched(t) /\ ~ Busy(t)
      <4>1. ~ (t >= nextTile)
        <5>1. nextTile \in Nat
          BY DEF BuildInv, Types
        <5> QED
          BY <2>4, <3>1, <5>1
      <4> QED
        BY <2>3, <4>1 DEF Untouched, Busy
    <3>3. Complete(t)
      BY <1>1, <3>2 DEF GraphInv, PoolPhases
    <3>4. WalkingNodes(t)' = WalkingNodes(t) /\ WalkingEdges(t)' = WalkingEdges(t)
      BY <1>1, WantedKept
    <3> QED
      BY <1>1, <3>3, <3>4 DEF Complete
  <2>6. graphIndex' = [n \in Nodes' |-> graphIndex'[n]]
    BY <1>1 DEF GraphInv, Nodes
  <2> QED
    BY <1>3, <2>5, <2>6 DEF GraphInv, Passes, PoolPhases
<1> QED
  BY <1>1, <1>2, <1>3

-----------------------------------------------------------------------------
(***************************************************************************)
(* The steps of a thread that takes a tile and clears its graph.           *)
(***************************************************************************)

\* Taking a tile leaves it blank.
LEMMA GraphClaimed ==
  ASSUME BuildInv, GraphInv, phase \in PoolPhases, NEW w \in Workers, Worker(w), WorkerClaim(w)
  PROVE  GraphInv'
<1>1. /\ place[w] = "claim" /\ tile' = [tile EXCEPT ![w] = nextTile] /\ nextTile' = nextTile + 1
      /\ place' = [place EXCEPT ![w] = IF nextTile >= TileCount THEN "ended" ELSE "begin"]
      /\ UNCHANGED <<map, coordTile, offset, graph, graphIndex, segment, leftIndex, phase>>
  BY DEF WorkerClaim, Worker, At, Goes, graphVars, inputVars, storeVars, mainVars
<1>2. nextTile \in Nat /\ place \in [Workers -> WorkerPlaces] /\ tile \in [Workers -> Nat]
  BY DEF BuildInv, Types
<1>3. /\ place'[w] = (IF nextTile >= TileCount THEN "ended" ELSE "begin") /\ tile'[w] = nextTile
      /\ \A v \in Workers : v # w => place'[v] = place[v] /\ tile'[v] = tile[v]
  BY <1>1, <1>2
<1>4. ASSUME NEW t \in Tiles
      PROVE  /\ Blank(t)' <=> Blank(t)
             /\ Complete(t)' <=> Complete(t)
             /\ Untouched(t)' <=> Untouched(t)
             /\ Busy(t)' <=> Busy(t)
  <2>1. t \in Nat /\ t < TileCount /\ TileCount \in Nat
    BY TileFacts
  <2>2. t >= nextTile <=> t >= nextTile' \/ t = nextTile
    BY <1>1, <1>2, <2>1
  <2>3. t = nextTile => place'[w] = "begin" /\ tile'[w] = t
    BY <1>2, <1>3, <2>1
  <2>4. Untouched(t)' <=> Untouched(t)
    BY <1>1, <1>3, <2>2, <2>3 DEF Untouched
  <2>5. Busy(t)' <=> Busy(t)
    BY <1>1, <1>3 DEF Busy
  <2>6. Blank(t)' <=> Blank(t)
    BY <1>1 DEF Blank
  <2>7. Complete(t)' <=> Complete(t)
    <3>1. WalkingNodes(t)' = WalkingNodes(t) /\ WalkingEdges(t)' = WalkingEdges(t)
      BY <1>1, WantedKept
    <3> QED
      BY <1>1, <3>1 DEF Complete
  <2> QED
    BY <2>4, <2>5, <2>6, <2>7
<1>5. ASSUME NEW v \in Workers, HalfBuilt(v) PROVE HalfBuilt(v)'
  <2>1. CASE v = w
    BY <1>3, <2>1 DEF HalfBuilt
  <2>2. CASE v # w
    <3>1. place'[v] = place[v] /\ tile'[v] = tile[v]
      BY <1>3, <2>2
    <3>2. \A t : /\ TileSegments(t)' = TileSegments(t)
                 /\ \A k : Ends(t, k)' = Ends(t, k) /\ Links(t, k)' = Links(t, k)
                 /\ \A n : Number(t, n)' = Number(t, n)
      BY <1>1, WantedKept
    <3> QED
      BY <1>1, <1>5, <3>1, <3>2 DEF HalfBuilt
  <2> QED
    BY <2>1, <2>2
<1>6. Nodes' = Nodes /\ \A n \in Nodes : Kept(n)' <=> Kept(n)
  BY <1>1 DEF Nodes, Kept
<1>7. phase' \in PoolPhases /\ phase' \notin Passes /\ phase' # "write"
  BY <1>1 DEF PoolPhases, Passes
<1>8. /\ \A t \in Tiles : Untouched(t) => Blank(t)
      /\ \A t \in Tiles : Untouched(t) \/ Busy(t) \/ Complete(t)
      /\ \A n \in Nodes : Kept(n)
      /\ \A v \in Workers : HalfBuilt(v)
      /\ graphIndex = [n \in Nodes |-> graphIndex[n]]
  BY DEF GraphInv
<1>9. /\ \A t \in Tiles : Untouched(t)' => Blank(t)'
      /\ \A t \in Tiles : Untouched(t)' \/ Busy(t)' \/ Complete(t)'
  BY <1>4, <1>8
<1>10. (\A n \in Nodes' : Kept(n)') /\ \A v \in Workers : HalfBuilt(v)'
  BY <1>5, <1>6, <1>8
<1>11. graphIndex' = [n \in Nodes' |-> graphIndex'[n]]
  BY <1>1, <1>6, <1>8
<1> QED
  BY <1>7, <1>9, <1>10, <1>11 DEF GraphInv

\* Clearing the graph of a tile begins with its first segment; a tile without
\* segments is complete.
LEMMA GraphBegun ==
  ASSUME InputInv, StoreInv, BuildInv, GraphInv, phase \in PoolPhases,
         NEW w \in Workers, Worker(w), WorkerBegin(w)
  PROVE  GraphInv'
<1>0. PICK t : t = tile[w]
  OBVIOUS
<1>1. /\ place[w] = "begin" /\ t \in Tiles /\ tile[w] = t
      /\ \A v \in Workers : v # w /\ place[v] \in Building => tile[v] # t
  BY <1>0 DEF WorkerBegin, At, BuildInv, Claims, OneBuilder, Building
<1>2. count[t] = 0 \/ ~ (GroupEnd(t) > segmentCount)
  BY <1>1, BeginFits
<1>3. /\ UNCHANGED <<map, coordTile, count, offset, graphIndex, nextTile, tile, leftIndex, phase>>
      /\ \/ count[t] = 0 /\ place' = [place EXCEPT ![w] = "test"] /\ UNCHANGED <<graph, segment>>
         \/ /\ count[t] # 0 /\ place' = [place EXCEPT ![w] = "left"]
            /\ graph' = [graph EXCEPT ![t] = [@ EXCEPT !.nodes = <<>>, !.edges = <<>>]]
            /\ segment' = [segment EXCEPT ![w] = offset[t]]
  BY <1>1, <1>2 DEF WorkerBegin, Worker, At, Goes, graphVars, inputVars, storeVars, mainVars
<1>4. /\ place \in [Workers -> WorkerPlaces] /\ tile \in [Workers -> Nat] /\ segment \in [Workers -> Nat]
      /\ count[t] \in Nat /\ offset[t] \in Nat /\ map \in Maps /\ nextTile \in Nat
      /\ graph = [u \in Tiles |-> graph[u]] /\ IsGraph(graph[t]) /\ t < nextTile /\ t \in Nat
  BY <1>1, TileFacts DEF BuildInv, Types, InputInv, Claims, Building
<1>5. count[t] = Len(TileSegments(t))
  BY <1>1, StoreFacts DEF PoolPhases, Filled
<1>6. /\ \A u \in Tiles : Untouched(u) => Blank(u)
      /\ \A u \in Tiles : Untouched(u) \/ Busy(u) \/ Complete(u)
      /\ \A n \in Nodes : Kept(n)
      /\ \A v \in Workers : HalfBuilt(v)
      /\ graphIndex = [n \in Nodes |-> graphIndex[n]]
  BY DEF GraphInv
<1>7. Untouched(t) /\ Blank(t)
  BY <1>1, <1>6 DEF Untouched
<1>8. \A u \in Tiles : graph'[u].nodes = graph[u].nodes /\ graph'[u].edges = graph[u].edges
  <2>1. CASE UNCHANGED graph
    BY <2>1
  <2>2. CASE graph' = [graph EXCEPT ![t] = [@ EXCEPT !.nodes = <<>>, !.edges = <<>>]]
    <3>1. [graph[t] EXCEPT !.nodes = <<>>, !.edges = <<>>]
          = [nodes |-> <<>>, edges |-> <<>>, nodeCapacity |-> graph[t].nodeCapacity,
             slotCapacity |-> graph[t].slotCapacity, edgeCapacity |-> graph[t].edgeCapacity,
             pooled |-> graph[t].pooled]
      BY <1>4, ClearedGraph
    <3>2. graph'[t] = [nodes |-> <<>>, edges |-> <<>>, nodeCapacity |-> graph[t].nodeCapacity,
             slotCapacity |-> graph[t].slotCapacity, edgeCapacity |-> graph[t].edgeCapacity,
             pooled |-> graph[t].pooled]
      BY <1>1, <1>4, <2>2, <3>1
    <3>3. graph'[t].nodes = <<>> /\ graph'[t].edges = <<>>
      BY <3>2
    <3>4. \A u \in Tiles : u # t => graph'[u] = graph[u]
      BY <1>1, <1>4, <2>2
    <3> QED
      BY <1>7, <3>3, <3>4 DEF Blank
  <2> QED
    BY <1>3, <2>1, <2>2
<1>9. /\ \A v \in Workers : v # w => place'[v] = place[v] /\ segment'[v] = segment[v]
      /\ place'[w] = (IF count[t] = 0 THEN "test" ELSE "left")
      /\ count[t] # 0 => segment'[w] = offset[t]
  BY <1>3, <1>4
<1>10. /\ Nodes' = Nodes
       /\ \A u : /\ TileSegments(u)' = TileSegments(u)
                 /\ WalkingNodes(u)' = WalkingNodes(u) /\ WalkingEdges(u)' = WalkingEdges(u)
                 /\ \A k : Ends(u, k)' = Ends(u, k) /\ Links(u, k)' = Links(u, k)
                 /\ \A n : Number(u, n)' = Number(u, n)
  BY <1>3, WantedKept DEF Nodes
<1>11. ASSUME NEW u \in Tiles
       PROVE  /\ Blank(u)' <=> Blank(u)
              /\ Complete(u)' <=> Complete(u)
              /\ Untouched(u)' => Untouched(u)
              /\ Busy(u) => Busy(u)'
              /\ u # t /\ Untouched(u) => Untouched(u)'
  <2>1. (Blank(u)' <=> Blank(u)) /\ (Complete(u)' <=> Complete(u))
    BY <1>8, <1>10 DEF Blank, Complete
  <2>2. Untouched(u)' => Untouched(u)
    BY <1>3, <1>9 DEF Untouched
  <2>3. Busy(u) => Busy(u)'
    BY <1>1, <1>3, <1>9 DEF Busy
  <2>4. u # t /\ Untouched(u) => Untouched(u)'
    BY <1>1, <1>3, <1>9 DEF Untouched
  <2> QED
    BY <2>1, <2>2, <2>3, <2>4
<1>12. Busy(t)' \/ Complete(t)'
  <2>1. CASE count[t] = 0
    <3>1. WalkingNodes(t) = <<>> /\ WalkingEdges(t) = <<>>
      BY <1>4, <1>5, <2>1, NothingToBuild
    <3>2. Complete(t)
      BY <1>7, <3>1 DEF Blank, Complete
    <3> QED
      BY <1>1, <1>11, <3>2
  <2>2. CASE count[t] # 0
    BY <1>1, <1>3, <1>9, <2>2 DEF Busy
  <2> QED
    BY <2>1, <2>2
<1>13. ASSUME NEW v \in Workers PROVE HalfBuilt(v)'
  <2>1. CASE v = w
    <3>1. CASE count[t] = 0
      BY <1>9, <2>1, <3>1 DEF HalfBuilt
    <3>2. CASE count[t] # 0
      <4>1. place'[w] = "left" /\ segment'[w] - offset'[t] = 0 /\ tile'[w] = t
        BY <1>1, <1>3, <1>4, <1>9, <3>2
      <4>2. Ends(t, 0)' = <<>> /\ Links(t, 0)' = <<>>
        <5>1. Ends(t, 0) = <<>> /\ Links(t, 0) = <<>>
          BY <1>4, EndsStep, LinksStep
        <5> QED
          BY <1>10, <5>1
      <4>3. graph'[t].nodes = <<>> /\ graph'[t].edges = <<>>
        BY <1>1, <1>7, <1>8 DEF Blank
      <4> QED
        BY <2>1, <4>1, <4>2, <4>3, FirstMetNil DEF HalfBuilt
    <3> QED
      BY <3>1, <3>2
  <2>2. CASE v # w
    <3>1. /\ place'[v] = place[v] /\ tile'[v] = tile[v] /\ segment'[v] = segment[v]
          /\ leftIndex'[v] = leftIndex[v] /\ offset'[tile[v]] = offset[tile[v]]
      BY <1>3, <1>9, <2>2
    <3>2. place[v] \in {"left", "right"} => tile[v] \in Tiles
      BY DEF BuildInv, Claims, Building
    <3>3. place[v] \in {"left", "right"} =>
             graph'[tile[v]].nodes = graph[tile[v]].nodes /\ graph'[tile[v]].edges = graph[tile[v]].edges
      BY <1>8, <3>2
    <3> QED
      BY <1>6, <1>10, <3>1, <3>3 DEF HalfBuilt
  <2> QED
    BY <2>1, <2>2
<1>14. ASSUME NEW n \in Nodes PROVE Kept(n)'
  <2>1. Kept(n)
    BY <1>6
  <2> QED
    BY <1>3, <1>8, <2>1 DEF Kept
<1>15. phase' \in PoolPhases /\ phase' \notin Passes /\ phase' # "write"
  BY <1>3 DEF PoolPhases, Passes
<1>16. graphIndex' = [n \in Nodes' |-> graphIndex'[n]]
  BY <1>3, <1>6, <1>10
<1>17. /\ \A u \in Tiles : Untouched(u)' => Blank(u)'
       /\ \A u \in Tiles : Untouched(u)' \/ Busy(u)' \/ Complete(u)'
  BY <1>6, <1>11, <1>12
<1> QED
  BY <1>10, <1>13, <1>14, <1>15, <1>16, <1>17 DEF GraphInv

-----------------------------------------------------------------------------
(***************************************************************************)
(* The steps of a thread that adds the ends of a segment.                  *)
(***************************************************************************)

\* A thread that adds one node of its tile breaks nothing in the tiles of others, nor
\* any number kept with a node.
LEMMA GraphAdvanced ==
  ASSUME BuildInv, InputInv, GraphInv, phase \in PoolPhases,
         NEW w \in Workers, place[w] \in {"left", "right"}, NEW t \in Tiles, tile[w] = t,
         NEW n \in Nodes, NEW s \in Seq(Nodes), graph[t].nodes = FirstMet(s),
         \A u \in Tiles : u # t => graph'[u] = graph[u],
         graph'[t].nodes = FirstMet(Append(s, n)), Remember(t, n),
         UNCHANGED <<map, coordTile, offset, nextTile, tile, phase>>,
         \A v \in Workers : v # w => place'[v] = place[v] /\ segment'[v] = segment[v]
                                     /\ leftIndex'[v] = leftIndex[v],
         place'[w] \in {"left", "right", "test"},
         HalfBuilt(w)', place'[w] = "test" => Complete(t)'
  PROVE  GraphInv'
<1>1. /\ Nodes' = Nodes
      /\ \A u : /\ TileSegments(u)' = TileSegments(u)
                /\ WalkingNodes(u)' = WalkingNodes(u) /\ WalkingEdges(u)' = WalkingEdges(u)
                /\ \A k : Ends(u, k)' = Ends(u, k) /\ Links(u, k)' = Links(u, k)
                /\ \A m : Number(u, m)' = Number(u, m)
  BY WantedKept DEF Nodes
<1>2. /\ \A u \in Tiles : Untouched(u) => Blank(u)
      /\ \A u \in Tiles : Untouched(u) \/ Busy(u) \/ Complete(u)
      /\ \A m \in Nodes : Kept(m)
      /\ \A v \in Workers : HalfBuilt(v)
      /\ graphIndex = [m \in Nodes |-> graphIndex[m]]
  BY DEF GraphInv
<1>3. /\ t < nextTile /\ t \in Nat /\ nextTile \in Nat /\ IsGraph(graph[t])
      /\ \A v \in Workers : v # w /\ place[v] \in Building => tile[v] # t
  BY TileFacts DEF BuildInv, Types, Claims, OneBuilder, Building
<1>4. ~ Untouched(t)
  BY <1>3 DEF Untouched, Building
<1>5. \A u \in Tiles : Untouched(u)' <=> Untouched(u)
  BY DEF Untouched
<1>6. \A u \in Tiles : u # t => (Blank(u)' <=> Blank(u)) /\ (Complete(u)' <=> Complete(u))
  BY <1>1 DEF Blank, Complete
<1>7. \A u \in Tiles : u # t => (Busy(u)' <=> Busy(u))
  BY DEF Busy
<1>8. Busy(t)' \/ Complete(t)'
  BY DEF Busy
<1>9. /\ \A u \in Tiles : Untouched(u)' => Blank(u)'
      /\ \A u \in Tiles : Untouched(u)' \/ Busy(u)' \/ Complete(u)'
  BY <1>2, <1>4, <1>5, <1>6, <1>7, <1>8
<1>10. ASSUME NEW v \in Workers PROVE HalfBuilt(v)'
  <2>1. CASE v # w
    <3>1. place[v] \in {"left", "right"} => tile[v] \in Tiles /\ tile[v] # t
      BY <1>3, <2>1 DEF BuildInv, Claims, Building
    <3>2. place[v] \in {"left", "right"} => graph'[tile[v]] = graph[tile[v]]
      BY <3>1
    <3> QED
      BY <1>1, <1>2, <2>1, <3>2 DEF HalfBuilt
  <2> QED
    BY <2>1
<1>11. /\ IndexOf(t, n) \in Nat
       /\ IndexOf(t, n) + 1 \in 1..Len(FirstMet(Append(s, n)))
       /\ FirstMet(Append(s, n))[IndexOf(t, n) + 1] = n
  <2>1. IsRecord(graph[t])
    BY <1>3 DEF IsGraph, IsRecord
  <2> QED
    BY <1>2, <2>1, LookedUp
<1>12. Begins(FirstMet(s), FirstMet(Append(s, n)))
  BY FirstMetGrows
<1>13. \A m \in Nodes : graphIndex'[m] = IF m = n /\ coordTile[n] = t THEN IndexOf(t, n) ELSE graphIndex[m]
  BY <1>2 DEF Remember
<1>14. graphIndex' = [m \in Nodes |-> graphIndex'[m]]
  BY <1>2 DEF Remember
<1>15. ASSUME NEW m \in Nodes PROVE Kept(m)'
  <2>1. CASE m = n /\ coordTile[n] = t
    <3>1. graphIndex'[m] = IndexOf(t, n) /\ coordTile'[m] = t
      BY <1>13, <2>1
    <3> QED
      BY <1>11, <2>1, <3>1 DEF Kept
  <2>2. CASE ~ (m = n /\ coordTile[n] = t)
    <3>1. graphIndex'[m] = graphIndex[m] /\ Kept(m) /\ coordTile'[m] = coordTile[m]
      BY <1>2, <1>13, <2>2
    <3>2. CASE coordTile[m] = t
      <4>1. graphIndex[m] # NoIndex =>
               /\ graphIndex[m] \in Nat /\ graphIndex[m] + 1 \in 1..Len(FirstMet(s))
               /\ FirstMet(s)[graphIndex[m] + 1] = m
        BY <3>1, <3>2 DEF Kept
      <4>2. FirstMet(Append(s, n)) \in Seq(Nodes) /\ FirstMet(s) \in Seq(Nodes)
        <5>1. Append(s, n) \in Seq(Nodes)
          OBVIOUS
        <5> QED
          BY <5>1, FirstMetIs, Zenon
      <4>3. Len(FirstMet(Append(s, n))) \in Nat /\ Len(FirstMet(s)) \in Nat
        BY <4>2
      <4>4. graphIndex[m] # NoIndex =>
               /\ graphIndex[m] \in Nat /\ graphIndex[m] + 1 \in 1..Len(FirstMet(Append(s, n)))
               /\ FirstMet(Append(s, n))[graphIndex[m] + 1] = m
        BY <1>12, <4>1, <4>3 DEF Begins
      <4> QED
        BY <3>1, <3>2, <4>4 DEF Kept
    <3>3. CASE coordTile[m] # t
      BY <3>1, <3>3 DEF Kept
    <3> QED
      BY <3>2, <3>3
  <2> QED
    BY <2>1, <2>2
<1>16. phase' \in PoolPhases /\ phase' \notin Passes /\ phase' # "write"
  BY DEF PoolPhases, Passes
<1> QED
  BY <1>1, <1>9, <1>10, <1>14, <1>15, <1>16 DEF GraphInv

\* Where a thread stands, and the segment it is at.
LEMMA AtSegment ==
  ASSUME InputInv, StoreInv, BuildInv, phase \in PoolPhases,
         NEW w \in Workers, place[w] \in {"left", "right"}
  PROVE  LET t == tile[w]
             k == segment[w] - offset[t]
         IN  /\ t \in Tiles /\ k \in Nat /\ k < Len(TileSegments(t)) /\ map \in Maps
             /\ offset[t] \in Nat /\ segment[w] \in Nat
             /\ count[t] = Len(TileSegments(t)) /\ Len(TileSegments(t)) \in Nat
             /\ items[segment[w]].pair = TileSegments(t)[k + 1]
             /\ TileSegments(t)[k + 1][1] \in Nodes /\ TileSegments(t)[k + 1][2] \in Nodes
             /\ Ends(t, k) \in Seq(Nodes)
             /\ Append(Ends(t, k), TileSegments(t)[k + 1][1]) \in Seq(Nodes)
             /\ Ends(t, k + 1)
                = Append(Append(Ends(t, k), TileSegments(t)[k + 1][1]), TileSegments(t)[k + 1][2])
<1>1. PICK t : t = tile[w]
  OBVIOUS
<1>2. PICK k : k = segment[w] - offset[t]
  OBVIOUS
<1>3. t \in Tiles /\ count[t] \in Nat /\ offset[t] \in Nat /\ segment[w] \in Nat /\ map \in Maps
  BY <1>1 DEF BuildInv, Types, Claims, Building, InputInv
<1>4. k \in Nat /\ k < count[t] /\ offset[t] + (k + 1) - 1 = segment[w] /\ k + 1 \in 1..count[t]
  <2>1. 0 <= segment[w] - offset[t] /\ segment[w] - offset[t] < count[t]
    BY <1>1 DEF BuildInv, Progress
  <2> QED
    BY <1>2, <1>3, <2>1
<1>5. /\ count[t] = Len(TileSegments(t))
      /\ \A i \in 1..count[t] :
           items[offset[t] + i - 1] = [tile |-> t, pair |-> TileSegments(t)[i]]
  BY <1>3, StoreFacts DEF PoolPhases, Filled
<1>6. items[segment[w]].pair = TileSegments(t)[k + 1]
  <2>1. items[segment[w]] = [tile |-> t, pair |-> TileSegments(t)[k + 1]]
    <3>1. items[offset[t] + (k + 1) - 1] = [tile |-> t, pair |-> TileSegments(t)[k + 1]]
      BY <1>4, <1>5
    <3> QED
      BY <1>4, <3>1
  <2> QED
    BY <2>1
<1>7. /\ Len(TileSegments(t)) \in Nat
      /\ \A j \in 0..Len(TileSegments(t)) : Ends(t, j) \in Seq(Nodes)
      /\ \A j \in Nat : j < Len(TileSegments(t)) =>
             /\ TileSegments(t)[j + 1] \in Nodes \X Nodes
             /\ Ends(t, j + 1)
                = Append(Append(Ends(t, j), TileSegments(t)[j + 1][1]), TileSegments(t)[j + 1][2])
  BY <1>3, EndsStep
<1>8. TileSegments(t)[k + 1] \in Nodes \X Nodes /\ k \in 0..Len(TileSegments(t))
  BY <1>4, <1>5, <1>7
<1>9. TileSegments(t)[k + 1][1] \in Nodes /\ TileSegments(t)[k + 1][2] \in Nodes
  BY <1>8
<1>10. Ends(t, k) \in Seq(Nodes)
  BY <1>7, <1>8
<1>11. Append(Ends(t, k), TileSegments(t)[k + 1][1]) \in Seq(Nodes)
  BY <1>9, <1>10
<1>12. Ends(t, k + 1)
       = Append(Append(Ends(t, k), TileSegments(t)[k + 1][1]), TileSegments(t)[k + 1][2])
  BY <1>4, <1>5, <1>7
<1> QED
  BY <1>1, <1>2, <1>3, <1>4, <1>5, <1>6, <1>7, <1>9, <1>10, <1>11, <1>12

\* The left ends are kept by thread.
LeftInv == leftIndex = [w \in Workers |-> leftIndex[w]]

\* At first no left end is kept.
LEMMA LeftInit == Init => LeftInv
BY DEF Init, LeftInv

\* A thread keeps one left end.
LEMMA LeftStep == LeftInv /\ [Next]_vars => LeftInv'
<1> SUFFICES ASSUME LeftInv, [Next]_vars PROVE LeftInv'
  OBVIOUS
<1>1. CASE \E w \in Workers : WorkerLeft(w)
  BY <1>1 DEF WorkerLeft, LeftInv
<1>2. CASE ~ \E w \in Workers : WorkerLeft(w)
  <2>1. UNCHANGED leftIndex
    BY <1>2 DEF Next, Main, Returned, CollectRefs, ResolveCoords, CountSegment, CountDone, LayoutTile,
           LayoutDone, FillSegment, FillDone, MakePools, StartWorker, StartFails, AllStarted, Join,
           AllJoined, WriteTile, WriteDone, Worker, WorkerTest, WorkerClaim, WorkerBegin, WorkerRight,
           Fails, vars, buildVars, workerVars
  <2> QED
    BY <2>1 DEF LeftInv
<1> QED
  BY <1>1, <1>2

\* The left end of a segment is met, and its number is kept.
LEMMA GraphLeft ==
  ASSUME InputInv, StoreInv, BuildInv, GraphInv, LeftInv, phase \in PoolPhases,
         NEW w \in Workers, Worker(w), WorkerLeft(w)
  PROVE  GraphInv'
<1>1. PICK t : t = tile[w]
  OBVIOUS
<1>2. PICK k : k = segment[w] - offset[t]
  OBVIOUS
<1>3. PICK n : n = TileSegments(t)[k + 1][1]
  OBVIOUS
<1>4. place[w] = "left"
  BY DEF WorkerLeft, At
<1>5. /\ t \in Tiles /\ k \in Nat /\ k < Len(TileSegments(t)) /\ map \in Maps
      /\ items[segment[w]].pair = TileSegments(t)[k + 1]
      /\ n \in Nodes /\ Ends(t, k) \in Seq(Nodes)
  BY <1>1, <1>2, <1>3, <1>4, AtSegment
<1>6. /\ leftIndex' = [leftIndex EXCEPT ![w] = IndexOf(t, n)]
      /\ graph' = [graph EXCEPT ![t] = GraphWith(t, n)]
      /\ Remember(t, n)
      /\ place' = [place EXCEPT ![w] = "right"]
      /\ UNCHANGED <<map, coordTile, offset, nextTile, tile, segment, phase>>
  BY <1>1, <1>3, <1>5 DEF WorkerLeft, Worker, Goes, sharedVars, inputVars, storeVars, mainVars
<1>7. /\ place \in [Workers -> WorkerPlaces] /\ leftIndex = [v \in Workers |-> leftIndex[v]]
      /\ graph = [u \in Tiles |-> graph[u]] /\ IsGraph(graph[t])
  BY <1>5 DEF BuildInv, Types, LeftInv
<1>8. graph[t].nodes = FirstMet(Ends(t, k)) /\ graph[t].edges = Links(t, k)
  BY <1>1, <1>2, <1>4 DEF GraphInv, HalfBuilt
<1>9. /\ GraphWith(t, n).edges = graph[t].edges
      /\ GraphWith(t, n).nodes = FirstMet(Append(Ends(t, k), n))
      /\ IndexOf(t, n) \in Nat
      /\ IndexOf(t, n) + 1 \in 1..Len(FirstMet(Append(Ends(t, k), n)))
      /\ FirstMet(Append(Ends(t, k), n))[IndexOf(t, n) + 1] = n
  <2>1. IsRecord(graph[t]) /\ Kept(n)
    BY <1>5, <1>7 DEF IsGraph, IsRecord, GraphInv
  <2> QED
    BY <1>5, <1>8, <2>1, LookedUp
<1>10. IndexOf(t, n) = Number(t, n)
  <2>1. Begins(FirstMet(Append(Ends(t, k), n)), WalkingNodes(t))
    BY <1>3, <1>5, EndsBegin
  <2>2. Len(FirstMet(Append(Ends(t, k), n))) \in Nat
    <3>1. Append(Ends(t, k), n) \in Seq(Nodes)
      BY <1>5
    <3>2. FirstMet(Append(Ends(t, k), n)) \in Seq(Nodes)
      BY <3>1, FirstMetIs, Zenon
    <3> QED
      BY <3>2
  <2>3. Number(t, n) = (IndexOf(t, n) + 1) - 1
    BY <1>5, <1>9, <2>1, <2>2, NumberIs
  <2> QED
    BY <1>9, <2>3
<1>11. /\ graph'[t] = GraphWith(t, n) /\ \A u \in Tiles : u # t => graph'[u] = graph[u]
       /\ place'[w] = "right" /\ leftIndex'[w] = IndexOf(t, n)
       /\ \A v \in Workers : v # w => place'[v] = place[v] /\ leftIndex'[v] = leftIndex[v]
  BY <1>5, <1>6, <1>7
<1>12. HalfBuilt(w)'
  <2>1. /\ tile'[w] = t /\ segment'[w] - offset'[t] = k
        /\ TileSegments(t)' = TileSegments(t) /\ Ends(t, k)' = Ends(t, k) /\ Links(t, k)' = Links(t, k)
        /\ Number(t, n)' = Number(t, n)
    BY <1>1, <1>2, <1>6, WantedKept
  <2> QED
    BY <1>3, <1>8, <1>9, <1>10, <1>11, <2>1 DEF HalfBuilt
<1> QED
  BY <1>1, <1>4, <1>5, <1>6, <1>8, <1>9, <1>11, <1>12, GraphAdvanced

\* The right end is met and the edges are added; behind the last segment the graph
\* of the tile is complete.
LEMMA GraphRight ==
  ASSUME InputInv, StoreInv, BuildInv, GraphInv, phase \in PoolPhases,
         NEW w \in Workers, Worker(w), WorkerRight(w)
  PROVE  GraphInv'
<1>1. PICK t : t = tile[w]
  OBVIOUS
<1>2. PICK k : k = segment[w] - offset[t]
  OBVIOUS
<1>3. PICK pair : pair = TileSegments(t)[k + 1]
  OBVIOUS
<1>4. place[w] = "right"
  BY DEF WorkerRight, At
<1> DEFINE n == pair[2]
           s == Append(Ends(t, k), pair[1])
           l == leftIndex[w]
           r == IndexOf(t, n)
           g == GraphWith(t, n)
           h == AddDirected(AddDirected(g, l, r), r, l)
<1>5. /\ t \in Tiles /\ k \in Nat /\ k < Len(TileSegments(t)) /\ map \in Maps
      /\ items[segment[w]].pair = pair /\ pair[1] \in Nodes
      /\ n \in Nodes /\ Ends(t, k) \in Seq(Nodes) /\ s \in Seq(Nodes)
      /\ count[t] = Len(TileSegments(t)) /\ Len(TileSegments(t)) \in Nat
      /\ offset[t] \in Nat /\ segment[w] \in Nat
      /\ Ends(t, k + 1) = Append(s, n)
  BY <1>1, <1>2, <1>3, <1>4, AtSegment
<1>6. /\ graph' = [graph EXCEPT ![t] = h]
      /\ Remember(t, n)
      /\ segment' = [segment EXCEPT ![w] = segment[w] + 1]
      /\ place' = [place EXCEPT ![w] = IF segment[w] + 1 = GroupEnd(t) THEN "test" ELSE "left"]
      /\ UNCHANGED <<map, coordTile, offset, nextTile, tile, leftIndex, phase>>
  BY <1>1, <1>5 DEF WorkerRight, Worker, Goes, sharedVars, inputVars, storeVars, mainVars
<1>7. /\ place \in [Workers -> WorkerPlaces] /\ segment \in [Workers -> Nat]
      /\ graph = [u \in Tiles |-> graph[u]] /\ IsGraph(graph[t])
  BY <1>5 DEF BuildInv, Types
<1>8. graph[t].nodes = FirstMet(s) /\ graph[t].edges = Links(t, k) /\ l = Number(t, pair[1])
  BY <1>1, <1>2, <1>3, <1>4 DEF GraphInv, HalfBuilt
<1> HIDE DEF n, s, l, r, g, h
<1>9. /\ IsRecord(g) /\ g.edges = graph[t].edges
      /\ g.nodes = FirstMet(Append(s, n))
      /\ r \in Nat
      /\ r + 1 \in 1..Len(FirstMet(Append(s, n)))
      /\ FirstMet(Append(s, n))[r + 1] = n
  <2>1. IsRecord(graph[t]) /\ Kept(n)
    BY <1>5, <1>7 DEF IsGraph, IsRecord, GraphInv
  <2> QED
    BY <1>5, <1>8, <2>1, LookedUp DEF g, r
<1>10. k + 1 \in 0..Len(TileSegments(t))
  BY <1>5
<1>11. r = Number(t, n)
  <2>1. Begins(FirstMet(Append(s, n)), WalkingNodes(t))
    <3>1. Begins(FirstMet(Ends(t, k + 1)), WalkingNodes(t))
      BY <1>5, <1>10, EndsBegin
    <3> QED
      BY <1>5, <3>1
  <2>2. Len(FirstMet(Append(s, n))) \in Nat
    <3>1. Append(s, n) \in Seq(Nodes)
      BY <1>5
    <3>2. FirstMet(Append(s, n)) \in Seq(Nodes)
      BY <3>1, FirstMetIs, Zenon
    <3> QED
      BY <3>2
  <2>3. Number(t, n) = (r + 1) - 1
    BY <1>5, <1>9, <2>1, <2>2, NumberIs
  <2> QED
    BY <1>9, <2>3
<1>12. h.nodes = FirstMet(Ends(t, k + 1)) /\ h.edges = Links(t, k + 1)
  <2>1. PICK D : Links(t, k) \in Seq(D)
    <3>1. k \in 0..Len(TileSegments(t))
      BY <1>5
    <3> QED
      BY <1>5, <3>1, LinksStep
  <2>2. /\ h.nodes = g.nodes
        /\ h.edges = g.edges \o BothWays(l, r)
    <3>1. IsRecord(g) /\ g.edges \in Seq(D)
      BY <1>8, <1>9, <2>1
    <3> QED
      BY <3>1, TwoEdges DEF h
  <2>3. Both(t, pair) = BothWays(l, r)
    BY <1>8, <1>11 DEF Both, n
  <2>4. Links(t, k + 1) = Links(t, k) \o Both(t, pair)
    BY <1>3, <1>5, LinksStep
  <2> QED
    BY <1>5, <1>8, <1>9, <2>2, <2>3, <2>4
<1>13. PICK last \in BOOLEAN : last <=> segment[w] + 1 = GroupEnd(t)
  OBVIOUS
<1>14. /\ graph'[t] = h /\ \A u \in Tiles : u # t => graph'[u] = graph[u]
       /\ place'[w] = (IF last THEN "test" ELSE "left") /\ segment'[w] = segment[w] + 1
       /\ \A v \in Workers : v # w => place'[v] = place[v] /\ segment'[v] = segment[v]
  BY <1>5, <1>6, <1>7, <1>13
<1>15. /\ tile'[w] = t /\ segment'[w] - offset'[t] = k + 1
       /\ WalkingNodes(t)' = WalkingNodes(t) /\ WalkingEdges(t)' = WalkingEdges(t)
       /\ \A j : Ends(t, j)' = Ends(t, j) /\ Links(t, j)' = Links(t, j)
  <2>1. segment'[w] - offset'[t] = k + 1
    BY <1>2, <1>5, <1>6, <1>14
  <2> QED
    BY <1>1, <1>6, <2>1, WantedKept
<1>16. HalfBuilt(w)'
  BY <1>12, <1>14, <1>15 DEF HalfBuilt
<1>17. place'[w] = "test" => Complete(t)'
  <2>1. ASSUME last PROVE k + 1 = Len(TileSegments(t))
    BY <1>2, <1>5, <1>13, <2>1, SMTT(40) DEF GroupEnd
  <2>2. ASSUME last PROVE h.nodes = WalkingNodes(t) /\ h.edges = WalkingEdges(t)
    <3>1. WalkingNodes(t) = FirstMet(Ends(t, Len(TileSegments(t))))
          /\ WalkingEdges(t) = Links(t, Len(TileSegments(t)))
      BY <1>5, EndsStep, LinksStep
    <3> QED
      BY <1>12, <2>1, <2>2, <3>1
  <2> QED
    BY <1>14, <1>15, <2>2 DEF Complete
<1>18. graph'[t].nodes = FirstMet(Append(s, n))
  BY <1>5, <1>12, <1>14
<1>19. /\ place'[w] \in {"left", "right", "test"}
       /\ \A v \in Workers : v # w => place'[v] = place[v] /\ segment'[v] = segment[v]
                                      /\ leftIndex'[v] = leftIndex[v]
  BY <1>6, <1>14
<1> QED
  BY <1>1, <1>4, <1>5, <1>6, <1>8, <1>14, <1>16, <1>17, <1>18, <1>19, GraphAdvanced

\* Every step keeps what is said of the graphs.
LEMMA GraphStep ==
  ASSUME InputInv, StoreInv, BuildInv, CallInv, GraphInv, LeftInv, [Next]_vars
  PROVE  GraphInv'
<1>1. CASE \/ CollectRefs \/ ResolveCoords \/ CountSegment \/ CountDone
           \/ LayoutTile \/ LayoutDone \/ FillSegment \/ FillDone
  BY <1>1, GraphInPasses
<1>2. CASE MakePools
  BY <1>2, GraphPooled
<1>3. CASE StartWorker
  <2>1. /\ phase = "start" /\ started < Cardinality(Workers) /\ UNCHANGED phase
        /\ place' = [place EXCEPT ![started + 1] = "test"]
        /\ UNCHANGED <<map, coordTile, offset, graph, graphIndex, nextTile, tile, segment, leftIndex>>
    BY <1>3 DEF StartWorker, MainAt, sharedVars, inputVars, storeVars, graphVars
  <2>2. started \in Nat /\ ~ (started + 1 <= started)
    BY WorkersAre DEF CallInv
  <2>3. started + 1 \in Workers
    BY <2>1, <2>2, WorkersAre
  <2>4. place[started + 1] = "idle" /\ place \in [Workers -> WorkerPlaces]
    BY <2>2, <2>3 DEF CallInv, BuildInv, Types
  <2>5. \A w \in Workers : place[w] \in Building \/ place'[w] \in Building => place'[w] = place[w]
    BY <2>1, <2>3, <2>4 DEF Building
  <2> QED
    BY <2>1, <2>5, GraphSame
<1>4. CASE StartFails \/ AllStarted \/ Join \/ WriteTile \/ WriteDone \/ UNCHANGED vars
  <2>1. /\ UNCHANGED <<map, coordTile, offset, graph, graphIndex, nextTile, tile, segment, leftIndex, place>>
        /\ \/ phase' = phase
           \/ phase' = "join" /\ phase = "start"
           \/ phase' = "done"
    BY <1>4 DEF StartFails, AllStarted, Join, WriteTile, WriteDone, Fails, MainAt, MainGoes, vars,
           inputVars, storeVars, buildVars, graphVars, sharedVars, workerVars, mainVars
  <2> QED
    BY <2>1, GraphSame DEF PoolPhases
<1>5. CASE AllJoined
  BY <1>5, GraphJoined
<1>6. ASSUME NEW w \in Workers, Worker(w) PROVE GraphInv'
  <2>1. place[w] \notin {"idle", "ended", "gaveup"}
    BY <1>6 DEF Worker, WorkerTest, WorkerClaim, WorkerBegin, WorkerLeft, WorkerRight, At
  <2>2. phase \in PoolPhases
    BY <2>1 DEF CallInv
  <2>3. CASE WorkerTest(w)
    <3>1. /\ place[w] = "test" /\ place' = [place EXCEPT ![w] = IF failed THEN "gaveup" ELSE "claim"]
          /\ UNCHANGED <<map, coordTile, offset, graph, graphIndex, nextTile, tile, segment, leftIndex, phase>>
      BY <1>6, <2>3 DEF WorkerTest, Worker, At, Goes, graphVars, sharedVars, inputVars, storeVars, mainVars
    <3>2. place \in [Workers -> WorkerPlaces]
      BY DEF BuildInv, Types
    <3>3. \A v \in Workers : place[v] \in Building \/ place'[v] \in Building => place'[v] = place[v]
      BY <3>1, <3>2 DEF Building
    <3> QED
      BY <3>1, <3>3, GraphSame
  <2> QED
    BY <1>6, <2>2, <2>3, GraphClaimed, GraphBegun, GraphLeft, GraphRight DEF Worker
<1> QED
  BY <1>1, <1>2, <1>3, <1>4, <1>5, <1>6 DEF Next, Main, Returned

\* A build that succeeds gives every tile the graph of its part of the map, whoever
\* built it and in whatever order, and a build fails only when something in Faults
\* happened: for every map and every number of tiles and threads.
THEOREM WalkingBuilds == Spec => []BuildsWalkingGraph
<1> DEFINE Inv == InputInv /\ StoreInv /\ CallInv /\ GraphInv /\ LeftInv
<1>1. Init => Inv
  BY InputInit, StoreInit, CallInit, GraphInit, LeftInit
<1>2. Inv /\ BuildInv /\ [Next]_vars => Inv'
  BY InputStep, StoreStep, CallStep, GraphStep, LeftStep
<1>3. Inv => BuildsWalkingGraph
  BY DEF BuildsWalkingGraph, GraphInv, CallInv, Complete
<1> QED
  BY <1>1, <1>2, <1>3, WalkingInductive, PTL DEF Spec

-----------------------------------------------------------------------------
(***************************************************************************)
(* What is written of a graph.  OrderedEdges goes through the edges; after *)
(* m of them the cursor of a node is behind those of its edges.            *)
(***************************************************************************)

\* The edges of a node, by their places, as EdgesFrom picks them.
Own(g, i) == {k \in DOMAIN g.edges : g.edges[k][1] = i}

\* Where an edge is put.
PlaceOf(g, k) == Offsets(g)[g.edges[k][1]] + Rank(Own(g, g.edges[k][1]), k) - 1

\* One more edge is put, as in OrderedEdges.
Put(placed, e) == [cursor |-> [placed.cursor EXCEPT ![e[1]] = @ + 1],
                   edges |-> [placed.edges EXCEPT ![placed.cursor[e[1]]] = e[2]]]

\* Where it begins.
Unplaced(g) == [cursor |-> Offsets(g), edges |-> [p \in 0..(Len(g.edges) - 1) |-> NoIndex]]

\* The passes that OrderedEdges chooses from.
Puts(f, g, D) ==
    f = [s \in SUBSET D |->
           IF s = {} THEN Unplaced(g)
           ELSE Put(f[s \ {Max(s)}], g.edges[Max(s)])]

\* A graph whose edges join its numbered nodes.
IsNumbered(g, N) ==
    /\ N \in Nat /\ Len(g.nodes) = N
    /\ g.edges \in Seq((0..(N - 1)) \X (0..(N - 1)))

\* A set of numbers that are bounded has its largest.
LEMMA MaxIs ==
  ASSUME NEW n \in Nat, NEW s \in SUBSET (1..n), s # {}
  PROVE  Max(s) \in s /\ \A x \in s : x <= Max(s)
<1> DEFINE D == {b \in Nat : \A x \in s : x <= b}
<1>1. \A x \in s : x \in Nat /\ 1 <= x /\ x <= n
  OBVIOUS
<1>2. D \in SUBSET Nat /\ n \in D
  BY <1>1
<1>3. PICK m \in D : \A b \in D : m <= b
  <2> HIDE DEF D
  <2> QED
    BY <1>2, Least
<1>4. ASSUME m \notin s PROVE FALSE
  <2>1. PICK y \in s : TRUE
    OBVIOUS
  <2>2. m \in Nat /\ \A x \in s : x <= m
    OBVIOUS
  <2>3. \A x \in s : x <= m - 1
    BY <1>1, <1>4, <2>2
  <2>4. m - 1 \in Nat
    BY <1>1, <2>1, <2>2, <2>3
  <2>5. m - 1 \in D
    BY <2>3, <2>4
  <2> QED
    BY <1>3, <2>2, <2>5
<1>5. \E x \in s : \A y \in s : x >= y
  BY <1>1, <1>4
<1>6. Max(s) \in s /\ \A y \in s : Max(s) >= y
  BY <1>5 DEF Max
<1> QED
  BY <1>1, <1>6

\* What a pass does at each set of edges.
LEMMA PutsStep ==
  ASSUME NEW f, NEW g, NEW D, Puts(f, g, D), NEW s \in SUBSET D
  PROVE  f[s] = IF s = {} THEN Unplaced(g)
                ELSE Put(f[s \ {Max(s)}], g.edges[Max(s)])
<1> DEFINE A(h, r) == IF r = {} THEN Unplaced(g)
                      ELSE Put(h[r \ {Max(r)}], g.edges[Max(r)])
<1>1. f = [r \in SUBSET D |-> A(f, r)]
  BY DEF Puts
<1> HIDE DEF A
<1>2. f[s] = A(f, s)
  BY <1>1, Zenon
<1> QED
  BY <1>2 DEF A

\* There is such a pass for every number of edges.
LEMMA PutsExist ==
  ASSUME NEW g, NEW n \in Nat
  PROVE  \E f : Puts(f, g, 1..n)
<1> DEFINE D == {k \in Nat : ~ \E f : Puts(f, g, 1..k)}
<1>1. ASSUME D # {} PROVE FALSE
  <2>1. PICK m \in D : \A k \in D : m <= k
    <3>1. D \in SUBSET Nat
      OBVIOUS
    <3> HIDE DEF D
    <3> QED
      BY <1>1, <3>1, Least
  <2> DEFINE base == Unplaced(g)
  <2>2. m # 0
    <3> DEFINE f == [s \in SUBSET (1..0) |-> base]
    <3>1. 1..0 = {}
      OBVIOUS
    <3>2. \A s \in SUBSET (1..0) : s = {}
      BY <3>1
    <3> HIDE DEF base
    <3>3. f = [s \in SUBSET (1..0) |-> IF s = {} THEN base ELSE Put(f[s \ {Max(s)}], g.edges[Max(s)])]
      BY <3>2
    <3> HIDE DEF f
    <3>4. Puts(f, g, 1..0)
      BY <3>3 DEF Puts, base
    <3> QED
      BY <3>4
  <2>3. PICK l \in Nat : m = l + 1
    <3>1. m - 1 \in Nat /\ m = (m - 1) + 1
      BY <2>2
    <3> QED
      BY <3>1
  <2>4. PICK h : Puts(h, g, 1..l)
    <3>1. ~ (m <= l)
      BY <2>3
    <3> QED
      BY <2>1, <2>3, <3>1
  <2> DEFINE f == [s \in SUBSET (1..m) |-> IF m \in s THEN Put(h[s \ {m}], g.edges[m]) ELSE h[s]]
  <2>5. ASSUME NEW s \in SUBSET (1..m)
        PROVE  f[s] = IF s = {} THEN base ELSE Put(f[s \ {Max(s)}], g.edges[Max(s)])
    <3>1. s # {} => Max(s) \in s /\ \A x \in s : x <= Max(s)
      BY MaxIs
    <3>2. 1..m = (1..l) \cup {m} /\ m \notin 1..l
      BY <2>3
    <3>3. CASE m \in s
      <4>1. Max(s) = m
        <5>1. Max(s) \in 1..m /\ m <= Max(s)
          BY <3>1, <3>3
        <5> QED
          BY <5>1
      <4>2. s \ {m} \in SUBSET (1..m) /\ m \notin s \ {m}
        OBVIOUS
      <4>3. f[s \ {m}] = h[s \ {m}] /\ f[s] = Put(h[s \ {m}], g.edges[m])
        BY <3>3, <4>2
      <4> HIDE DEF f
      <4> QED
        BY <3>3, <4>1, <4>3
    <3>4. CASE m \notin s
      <4>1. s \in SUBSET (1..l)
        BY <3>2, <3>4
      <4>2. f[s] = h[s] /\ f[s \ {Max(s)}] = h[s \ {Max(s)}]
        <5>1. s \ {Max(s)} \in SUBSET (1..m) /\ m \notin s \ {Max(s)}
          BY <3>4
        <5> QED
          BY <3>4, <5>1
      <4>3. h[s] = IF s = {} THEN base ELSE Put(h[s \ {Max(s)}], g.edges[Max(s)])
        <5> HIDE DEF f, D
        <5>1. s \in SUBSET (1..l) /\ Puts(h, g, 1..l)
          BY <2>4, <4>1
        <5>2. \A r \in SUBSET (1..l) :
                 h[r] = IF r = {} THEN Unplaced(g)
                        ELSE Put(h[r \ {Max(r)}], g.edges[Max(r)])
          BY <5>1, PutsStep, ZenonT(40)
        <5> QED
          BY <5>1, <5>2
      <4> HIDE DEF f, base
      <4> QED
        BY <4>2, <4>3
    <3> QED
      BY <3>3, <3>4
  <2>6. Puts(f, g, 1..m)
    <3>1. f = [s \in SUBSET (1..m) |-> f[s]]
      OBVIOUS
    <3> HIDE DEF f
    <3>2. [s \in SUBSET (1..m) |-> f[s]]
          = [s \in SUBSET (1..m) |-> IF s = {} THEN base ELSE Put(f[s \ {Max(s)}], g.edges[Max(s)])]
      BY <2>5
    <3> QED
      BY <3>1, <3>2, Zenon DEF Puts
  <2> QED
    BY <2>6
<1> QED
  BY <1>1

\* OrderedEdges is the end of one.
LEMMA OrderedIs ==
  ASSUME NEW g, NEW n \in Nat, DOMAIN g.edges = 1..n
  PROVE  \E f : Puts(f, g, 1..n) /\ OrderedEdges(g) = f[1..n].edges
<1> DEFINE f == CHOOSE h : Puts(h, g, DOMAIN g.edges)
<1>1. OrderedEdges(g) = f[DOMAIN g.edges].edges
  BY Zenon DEF OrderedEdges, FoldLeft, MapThenFoldSet, Puts, Put, Unplaced
<1>2. \E h : Puts(h, g, DOMAIN g.edges)
  BY PutsExist
<1>3. Puts(f, g, DOMAIN g.edges)
  BY <1>2, Zenon
<1> HIDE DEF f
<1> QED
  BY <1>1, <1>3

\* The edges of a node begin where those of the node before it end.
LEMMA OffsetsAre ==
  ASSUME NEW g, NEW N, IsNumbered(g, N)
  PROVE  /\ N \in Nat /\ Len(g.edges) \in Nat /\ DOMAIN g.edges = 1..Len(g.edges)
         /\ Offsets(g) = [i \in 0..N |-> Offsets(g)[i]]
         /\ \A i \in 0..N : Offsets(g)[i] \in Nat /\ Offsets(g)[i] <= Len(g.edges)
         /\ \A k \in 1..Len(g.edges) : g.edges[k][1] \in 0..(N - 1)
         /\ \A i : Own(g, i) \in SUBSET (1..Len(g.edges)) /\ Cardinality(Own(g, i)) \in Nat
         /\ \A i \in 0..(N - 1) : Offsets(g)[i + 1] = Offsets(g)[i] + Cardinality(Own(g, i))
         /\ \A i, j \in 0..(N - 1) : i < j => Offsets(g)[i] + Cardinality(Own(g, i)) <= Offsets(g)[j]
<1> DEFINE n == Len(g.edges)
           Below(i) == {k \in DOMAIN g.edges : g.edges[k][1] < i}
<1>1. /\ N \in Nat /\ n \in Nat /\ DOMAIN g.edges = 1..n
      /\ \A k \in 1..n : g.edges[k] \in (0..(N - 1)) \X (0..(N - 1))
  BY DEF IsNumbered
<1>2. \A k \in 1..n : g.edges[k][1] \in 0..(N - 1)
  BY <1>1
<1>3. IsFiniteSet(1..n)
  <2> HIDE DEF n
  <2> QED
    BY <1>1, FS_Interval
<1>4. \A i : Below(i) \in SUBSET (1..n) /\ Own(g, i) \in SUBSET (1..n)
  BY <1>1 DEF Own
<1>5. \A i : /\ IsFiniteSet(Below(i)) /\ Cardinality(Below(i)) \in Nat
             /\ IsFiniteSet(Own(g, i)) /\ Cardinality(Own(g, i)) \in Nat
  <2> HIDE DEF Below, n
  <2> QED
    BY <1>3, <1>4, FS_Subset, FS_CardinalityType
<1>5a. Cardinality(1..n) = n /\ \A i : Cardinality(Below(i)) <= n
  <2>1. n \in Nat
    BY <1>1
  <2> HIDE DEF Below, n
  <2>2. Cardinality(1..n) = n
    <3>1. Cardinality(1..n) = IF 1 > n THEN 0 ELSE n - 1 + 1
      BY <2>1, FS_Interval
    <3> QED
      BY <2>1, <3>1
  <2> QED
    BY <1>3, <1>4, <2>2, FS_Subset
<1>6. Offsets(g) = [i \in 0..N |-> Cardinality(Below(i))]
  BY DEF Offsets, IsNumbered
<1>7. ASSUME NEW i \in 0..(N - 1)
      PROVE  /\ Below(i + 1) = Below(i) \cup Own(g, i)
             /\ Cardinality(Below(i + 1)) = Cardinality(Below(i)) + Cardinality(Own(g, i))
  <2>1. \A k \in 1..n : g.edges[k][1] < i + 1 <=> g.edges[k][1] < i \/ g.edges[k][1] = i
    BY <1>1, <1>2
  <2>2. Below(i + 1) = Below(i) \cup Own(g, i)
    BY <1>1, <2>1 DEF Own
  <2>3. Below(i) \cap Own(g, i) = {}
    <3>1. ~ (i < i)
      BY <1>1
    <3> QED
      BY <3>1 DEF Own
  <2>4. Cardinality(Below(i) \cap Own(g, i)) = 0
    BY <2>3, FS_EmptySet
  <2> HIDE DEF Below
  <2>5. Cardinality(Below(i) \cup Own(g, i))
        = Cardinality(Below(i)) + Cardinality(Own(g, i)) - Cardinality(Below(i) \cap Own(g, i))
    BY <1>5, FS_Union
  <2>6. Cardinality(Below(i)) \in Nat /\ Cardinality(Own(g, i)) \in Nat
    BY <1>5
  <2>7. Cardinality(Below(i)) + Cardinality(Own(g, i)) - Cardinality(Below(i) \cap Own(g, i))
        = Cardinality(Below(i)) + Cardinality(Own(g, i))
    BY <2>4, <2>6
  <2> QED
    BY <2>2, <2>5, <2>7, Zenon
<1>8. ASSUME NEW i \in 0..(N - 1), NEW j \in 0..(N - 1), i < j
      PROVE  Cardinality(Below(i + 1)) <= Cardinality(Below(j))
  <2>1. \A k \in 1..n : g.edges[k][1] < i + 1 => g.edges[k][1] < j
    BY <1>1, <1>2, <1>8
  <2>2. Below(i + 1) \in SUBSET Below(j)
    BY <1>1, <2>1
  <2> HIDE DEF Below
  <2> QED
    BY <1>5, <2>2, FS_Subset
<1>9. \A i \in 0..(N - 1) : i \in 0..N /\ i + 1 \in 0..N
  BY <1>1
<1> HIDE DEF Below
<1>10. /\ \A i \in 0..N : Offsets(g)[i] = Cardinality(Below(i))
       /\ Offsets(g) = [i \in 0..N |-> Offsets(g)[i]]
  BY <1>6
<1>11. \A i \in 0..(N - 1) : Offsets(g)[i + 1] = Offsets(g)[i] + Cardinality(Own(g, i))
  BY <1>7, <1>9, <1>10, Zenon
<1>12. \A i, j \in 0..(N - 1) : i < j => Offsets(g)[i] + Cardinality(Own(g, i)) <= Offsets(g)[j]
  <2>1. ASSUME NEW i \in 0..(N - 1), NEW j \in 0..(N - 1), i < j
        PROVE  Offsets(g)[i] + Cardinality(Own(g, i)) <= Offsets(g)[j]
    <3>1. Offsets(g)[i + 1] <= Offsets(g)[j]
      BY <1>8, <1>9, <1>10, <2>1
    <3> QED
      BY <1>11, <3>1
  <2> QED
    BY <2>1
<1>13. \A i \in 0..N : Offsets(g)[i] \in Nat /\ Offsets(g)[i] <= n
  BY <1>5, <1>5a, <1>10
<1> QED
  BY <1>1, <1>2, <1>4, <1>5, <1>10, <1>11, <1>12, <1>13

\* No two edges are put in one place.
LEMMA EdgesApart ==
  ASSUME NEW g, NEW N, IsNumbered(g, N),
         NEW k \in 1..Len(g.edges), NEW l \in 1..Len(g.edges), k # l
  PROVE  PlaceOf(g, k) # PlaceOf(g, l)
<1> DEFINE a == g.edges[k][1]
           b == g.edges[l][1]
           n == Len(g.edges)
<1>1. /\ N \in Nat /\ n \in Nat /\ DOMAIN g.edges = 1..n /\ a \in 0..(N - 1) /\ b \in 0..(N - 1)
      /\ Own(g, a) \in SUBSET (1..n) /\ Own(g, b) \in SUBSET (1..n)
      /\ Cardinality(Own(g, a)) \in Nat /\ Cardinality(Own(g, b)) \in Nat
      /\ a < b => Offsets(g)[a] + Cardinality(Own(g, a)) <= Offsets(g)[b]
      /\ b < a => Offsets(g)[b] + Cardinality(Own(g, b)) <= Offsets(g)[a]
  BY OffsetsAre
<1>2. Offsets(g)[a] \in Nat /\ Offsets(g)[b] \in Nat
  <2>1. a \in 0..N /\ b \in 0..N
    BY <1>1
  <2> QED
    BY <2>1, OffsetsAre
<1>3. k \in Own(g, a) /\ l \in Own(g, b)
  BY <1>1 DEF Own
<1>4. PlaceOf(g, k) = Offsets(g)[a] + Rank(Own(g, a), k) - 1
      /\ PlaceOf(g, l) = Offsets(g)[b] + Rank(Own(g, b), l) - 1
  BY DEF PlaceOf
<1> HIDE DEF a, b, n
<1>5. Rank(Own(g, a), k) \in 1..Cardinality(Own(g, a)) /\ Rank(Own(g, b), l) \in 1..Cardinality(Own(g, b))
  <2>1. \A i \in Own(g, a) : Rank(Own(g, a), i) \in 1..Cardinality(Own(g, a))
    BY <1>1, RankOnto, Zenon
  <2>2. \A i \in Own(g, b) : Rank(Own(g, b), i) \in 1..Cardinality(Own(g, b))
    BY <1>1, RankOnto, Zenon
  <2> QED
    BY <1>3, <2>1, <2>2
<1>5b. /\ Rank(Own(g, a), k) \in Nat /\ 1 <= Rank(Own(g, a), k)
       /\ Rank(Own(g, a), k) <= Cardinality(Own(g, a))
       /\ Rank(Own(g, b), l) \in Nat /\ 1 <= Rank(Own(g, b), l)
       /\ Rank(Own(g, b), l) <= Cardinality(Own(g, b))
       /\ Cardinality(Own(g, a)) \in Nat /\ Cardinality(Own(g, b)) \in Nat
  BY <1>1, <1>5
<1>6. CASE a = b
  <2>1. Rank(Own(g, a), k) # Rank(Own(g, a), l)
    <3>1. \A i, j \in Own(g, a) : Rank(Own(g, a), i) = Rank(Own(g, a), j) => i = j
      BY <1>1, RankOnto, Zenon
    <3> QED
      BY <1>3, <1>6, <3>1
  <2> QED
    BY <1>2, <1>4, <1>6, <1>5b, <2>1
<1>7. CASE a < b
  <2>1. Offsets(g)[a] + Cardinality(Own(g, a)) <= Offsets(g)[b]
    BY <1>1, <1>7
  <2> QED
    BY <1>2, <1>4, <1>5b, <2>1
<1>8. CASE b < a
  <2>1. Offsets(g)[b] + Cardinality(Own(g, b)) <= Offsets(g)[a]
    BY <1>1, <1>8
  <2> QED
    BY <1>2, <1>4, <1>5b, <2>1
<1> QED
  BY <1>1, <1>6, <1>7, <1>8

\* Every edge is put inside the array.
LEMMA PlaceInside ==
  ASSUME NEW g, NEW N, IsNumbered(g, N), NEW k \in 1..Len(g.edges)
  PROVE  PlaceOf(g, k) \in 0..(Len(g.edges) - 1)
<1> DEFINE a == g.edges[k][1]
           n == Len(g.edges)
<1>1. /\ N \in Nat /\ n \in Nat /\ DOMAIN g.edges = 1..n /\ a \in 0..(N - 1)
      /\ Own(g, a) \in SUBSET (1..n) /\ Cardinality(Own(g, a)) \in Nat
      /\ Offsets(g)[a + 1] = Offsets(g)[a] + Cardinality(Own(g, a))
  BY OffsetsAre
<1>2. Offsets(g)[a] \in Nat /\ Offsets(g)[a + 1] <= n
  <2>1. a \in 0..N /\ a + 1 \in 0..N
    BY <1>1
  <2> QED
    BY <2>1, OffsetsAre
<1>3. k \in Own(g, a)
  BY <1>1 DEF Own
<1>4. PlaceOf(g, k) = Offsets(g)[a] + Rank(Own(g, a), k) - 1
  BY DEF PlaceOf
<1> HIDE DEF a, n
<1>5. Rank(Own(g, a), k) \in 1..Cardinality(Own(g, a))
  <2>1. \A i \in Own(g, a) : Rank(Own(g, a), i) \in 1..Cardinality(Own(g, a))
    BY <1>1, RankOnto, Zenon
  <2> QED
    BY <1>3, <2>1
<1> QED
  BY <1>1, <1>2, <1>4, <1>5 DEF n

\* After m edges: where the cursors stand, and what has been put.
Reached(g, N, p, m) ==
    /\ p.cursor = [i \in 0..N |-> Offsets(g)[i] + Rank(Own(g, i), m)]
    /\ p.edges = [x \in 0..(Len(g.edges) - 1) |-> p.edges[x]]
    /\ \A k \in 1..m : p.edges[PlaceOf(g, k)] = g.edges[k][2]

\* One more edge is put where the cursor of its first node stands.
LEMMA PutReaches ==
  ASSUME NEW g, NEW N, IsNumbered(g, N), NEW m \in Nat, m < Len(g.edges),
         NEW p, Reached(g, N, p, m)
  PROVE  Reached(g, N, Put(p, g.edges[m + 1]), m + 1)
<1> DEFINE n == Len(g.edges)
           a == g.edges[m + 1][1]
           q == Put(p, g.edges[m + 1])
<1>1. /\ N \in Nat /\ n \in Nat /\ DOMAIN g.edges = 1..n /\ m + 1 \in 1..n
      /\ \A i : Own(g, i) \in SUBSET (1..n)
  BY OffsetsAre
<1>2. a \in 0..(N - 1) /\ a \in 0..N
  <2>1. a \in 0..(N - 1)
    BY <1>1, OffsetsAre
  <2> QED
    BY <1>1, <2>1
<1>3. \A i : /\ Rank(Own(g, i), m) \in Nat
             /\ Rank(Own(g, i), m + 1)
                = IF m + 1 \in Own(g, i) THEN Rank(Own(g, i), m) + 1 ELSE Rank(Own(g, i), m)
  <2>1. \A i : Own(g, i) \in SUBSET Nat
    BY <1>1
  <2> QED
    BY <2>1, RankStep
<1>4. \A i : m + 1 \in Own(g, i) <=> i = a
  BY <1>1 DEF Own
<1>5. \A i \in 0..N : Offsets(g)[i] \in Nat
  BY OffsetsAre
<1>6. /\ q.cursor = [p.cursor EXCEPT ![a] = @ + 1]
      /\ q.edges = [p.edges EXCEPT ![p.cursor[a]] = g.edges[m + 1][2]]
  BY DEF Put
<1>7. p.cursor = [i \in 0..N |-> Offsets(g)[i] + Rank(Own(g, i), m)]
  BY DEF Reached
<1>8. p.cursor[a] = PlaceOf(g, m + 1)
  <2>1. p.cursor[a] = Offsets(g)[a] + Rank(Own(g, a), m)
    BY <1>2, <1>7
  <2>2. PlaceOf(g, m + 1) = Offsets(g)[a] + Rank(Own(g, a), m + 1) - 1
    BY DEF PlaceOf
  <2>3. Rank(Own(g, a), m + 1) = Rank(Own(g, a), m) + 1 /\ Rank(Own(g, a), m) \in Nat
    BY <1>3, <1>4
  <2> HIDE DEF a
  <2> QED
    BY <1>2, <1>5, <2>1, <2>2, <2>3
<1>9. q.cursor = [i \in 0..N |-> Offsets(g)[i] + Rank(Own(g, i), m + 1)]
  <2> DEFINE c == [i \in 0..N |-> Offsets(g)[i] + Rank(Own(g, i), m + 1)]
  <2>1. q.cursor = [i \in 0..N |-> IF i = a THEN p.cursor[i] + 1 ELSE p.cursor[i]]
    <3> HIDE DEF q, a
    <3>1. DOMAIN p.cursor = 0..N
      BY <1>7
    <3> QED
      BY <1>6, <3>1
  <2>2. ASSUME NEW i \in 0..N
        PROVE  (IF i = a THEN p.cursor[i] + 1 ELSE p.cursor[i]) = Offsets(g)[i] + Rank(Own(g, i), m + 1)
    <3>1. p.cursor[i] = Offsets(g)[i] + Rank(Own(g, i), m)
      BY <1>7
    <3>2. Rank(Own(g, i), m + 1) = IF i = a THEN Rank(Own(g, i), m) + 1 ELSE Rank(Own(g, i), m)
      BY <1>3, <1>4
    <3>3. Rank(Own(g, i), m) \in Nat /\ Offsets(g)[i] \in Nat
      BY <1>3, <1>5
    <3> HIDE DEF a
    <3> QED
      BY <3>1, <3>2, <3>3
  <2> HIDE DEF q, a
  <2> QED
    BY <2>1, <2>2
<1>10. /\ q.edges = [x \in 0..(n - 1) |-> q.edges[x]]
       /\ q.edges[PlaceOf(g, m + 1)] = g.edges[m + 1][2]
       /\ \A x \in 0..(n - 1) : x # PlaceOf(g, m + 1) => q.edges[x] = p.edges[x]
  <2>1. PlaceOf(g, m + 1) \in 0..(n - 1)
    BY <1>1, PlaceInside
  <2>2. p.edges = [x \in 0..(n - 1) |-> p.edges[x]]
    BY DEF Reached
  <2>3. q.edges = [p.edges EXCEPT ![PlaceOf(g, m + 1)] = g.edges[m + 1][2]]
    BY <1>6, <1>8
  <2> HIDE DEF q, n
  <2> QED
    BY <2>1, <2>2, <2>3
<1>11. ASSUME NEW k \in 1..(m + 1)
       PROVE  q.edges[PlaceOf(g, k)] = g.edges[k][2]
  <2>1. CASE k = m + 1
    BY <1>10, <2>1
  <2>2. CASE k # m + 1
    <3>1. k \in 1..m /\ k \in 1..n
      BY <1>1, <2>2
    <3>2. p.edges[PlaceOf(g, k)] = g.edges[k][2]
      BY <3>1 DEF Reached
    <3>3. PlaceOf(g, k) # PlaceOf(g, m + 1) /\ PlaceOf(g, k) \in 0..(n - 1)
      BY <1>1, <2>2, <3>1, EdgesApart, PlaceInside
    <3> HIDE DEF q
    <3> QED
      BY <1>10, <3>2, <3>3
  <2> QED
    BY <2>1, <2>2
<1> QED
  BY <1>9, <1>10, <1>11 DEF Reached

\* A pass over the first m edges has put them.
LEMMA PutsReach ==
  ASSUME NEW g, NEW N, IsNumbered(g, N), NEW f, Puts(f, g, 1..Len(g.edges)),
         NEW m \in Nat, m <= Len(g.edges)
  PROVE  Reached(g, N, f[1..m], m)
<1> DEFINE n == Len(g.edges)
           D == {k \in Nat : k <= n /\ ~ Reached(g, N, f[1..k], k)}
<1>1. /\ N \in Nat /\ n \in Nat /\ \A i : Own(g, i) \in SUBSET (1..n)
      /\ Offsets(g) = [i \in 0..N |-> Offsets(g)[i]] /\ \A i \in 0..N : Offsets(g)[i] \in Nat
  BY OffsetsAre
<1>2. \A s \in SUBSET (1..n) : f[s] = IF s = {} THEN Unplaced(g)
                                     ELSE Put(f[s \ {Max(s)}], g.edges[Max(s)])
  BY PutsStep, ZenonT(40)
<1>3. Reached(g, N, f[1..0], 0)
  <2>1. 1..0 = {} /\ {} \in SUBSET (1..n)
    OBVIOUS
  <2>2. f[1..0] = Unplaced(g)
    BY <1>2, <2>1
  <2>3. \A i : Rank(Own(g, i), 0) = 0
    BY <1>1, RankBounds
  <2>4. [i \in 0..N |-> Offsets(g)[i]] = [i \in 0..N |-> Offsets(g)[i] + Rank(Own(g, i), 0)]
    BY <1>1, <2>3
  <2>5. Unplaced(g).cursor = [i \in 0..N |-> Offsets(g)[i] + Rank(Own(g, i), 0)]
    BY <1>1, <2>4 DEF Unplaced
  <2>6. Unplaced(g).edges = [x \in 0..(n - 1) |-> Unplaced(g).edges[x]]
    BY DEF Unplaced
  <2> QED
    BY <2>1, <2>2, <2>5, <2>6 DEF Reached
<1>4. ASSUME D # {} PROVE FALSE
  <2>1. PICK k \in D : \A l \in D : k <= l
    <3>1. D \in SUBSET Nat
      OBVIOUS
    <3> HIDE DEF D
    <3> QED
      BY <1>4, <3>1, Least
  <2>2. k \in Nat /\ k <= n /\ k # 0 /\ ~ Reached(g, N, f[1..k], k)
    BY <1>3
  <2>3. PICK l \in Nat : k = l + 1
    <3>1. k - 1 \in Nat /\ k = (k - 1) + 1
      BY <2>2
    <3> QED
      BY <3>1
  <2>4. l < n /\ ~ (k <= l) /\ l + 1 \in 1..n
    BY <1>1, <2>2, <2>3
  <2>5. Reached(g, N, f[1..l], l)
    BY <1>1, <2>1, <2>3, <2>4
  <2>6. Reached(g, N, Put(f[1..l], g.edges[l + 1]), l + 1)
    BY <2>3, <2>4, <2>5, PutReaches
  <2>7. Max(1..k) = k /\ (1..k) \ {k} = 1..l /\ 1..k # {} /\ 1..k \in SUBSET (1..n)
    <3>1. k \in 1..k /\ (1..k) \ {k} = 1..l
      BY <2>2, <2>3
    <3>2. 1..k \in SUBSET (1..n)
      BY <1>1, <2>2
    <3>3. Max(1..k) \in 1..k /\ \A x \in 1..k : x <= Max(1..k)
      BY <2>2, <3>1, MaxIs
    <3> QED
      BY <2>2, <3>1, <3>2, <3>3
  <2>8. f[1..k] = Put(f[1..l], g.edges[k])
    BY <1>2, <2>7
  <2> QED
    BY <2>2, <2>3, <2>6, <2>8
<1> QED
  BY <1>1, <1>4

(***************************************************************************)
(* Read back, the targets of a node are those of its edges.                *)
(***************************************************************************)
LEMMA ReadsBack ==
  ASSUME NEW g, NEW N, IsNumbered(g, N), NEW i \in 1..N
  PROVE  /\ Offsets(g)[i] - Offsets(g)[i - 1] = Len(EdgesFrom(g, i - 1))
         /\ \A k \in DOMAIN EdgesFrom(g, i - 1) :
               OrderedEdges(g)[Offsets(g)[i - 1] + k - 1] = EdgesFrom(g, i - 1)[k][2]
<1> DEFINE n == Len(g.edges)
           I == (0..(N - 1)) \X (0..(N - 1))
<1>1. /\ N \in Nat /\ n \in Nat /\ DOMAIN g.edges = 1..n /\ g.edges \in Seq(I)
  BY OffsetsAre DEF IsNumbered
<1>2. PICK j \in 0..(N - 1) : i = j + 1 /\ j = i - 1
  <2>1. i - 1 \in 0..(N - 1) /\ i = (i - 1) + 1
    BY <1>1
  <2> QED
    BY <2>1
<1>3. /\ Own(g, j) \in SUBSET (1..n) /\ Cardinality(Own(g, j)) \in Nat
      /\ Offsets(g)[j + 1] = Offsets(g)[j] + Cardinality(Own(g, j))
  BY OffsetsAre
<1>4. Offsets(g)[j] \in Nat
  <2>1. j \in 0..N
    BY <1>1
  <2> QED
    BY <2>1, OffsetsAre
<1>5. EdgesFrom(g, j) = Picked(g.edges, Own(g, j))
  BY DEF EdgesFrom, Own
<1>6. Len(EdgesFrom(g, j)) = Cardinality(Own(g, j)) /\ EdgesFrom(g, j) \in Seq(I)
  <2> HIDE DEF I, n
  <2>1. /\ Picked(g.edges, Own(g, j)) \in Seq(I)
        /\ Len(Picked(g.edges, Own(g, j))) = Cardinality(Own(g, j))
    BY <1>1, <1>3, PickedType DEF n
  <2> QED
    BY <1>5, <2>1
<1>7. DOMAIN EdgesFrom(g, j) = 1..Cardinality(Own(g, j))
  <2> HIDE DEF I
  <2> QED
    BY <1>6
<1>8. PICK f : Puts(f, g, 1..n) /\ OrderedEdges(g) = f[1..n].edges
  BY <1>1, OrderedIs
<1>9. Reached(g, N, f[1..n], n)
  <2>1. n \in Nat /\ n <= n
    BY <1>1
  <2> QED
    BY <1>8, <2>1, PutsReach
<1>10. ASSUME NEW k \in 1..Cardinality(Own(g, j))
       PROVE  OrderedEdges(g)[Offsets(g)[j] + k - 1] = EdgesFrom(g, j)[k][2]
  <2>1. PICK e \in Own(g, j) : Rank(Own(g, j), e) = k
    <3> HIDE DEF n
    <3>1. \A l \in 1..Cardinality(Own(g, j)) : \E e \in Own(g, j) : Rank(Own(g, j), e) = l
      BY <1>1, <1>3, PickedAt, ZenonT(40)
    <3> QED
      BY <3>1
  <2>2. e \in 1..n /\ g.edges[e][1] = j
    BY <1>1 DEF Own
  <2>3. Picked(g.edges, Own(g, j))[Rank(Own(g, j), e)] = g.edges[e]
    <3> HIDE DEF n
    <3>1. \A l \in Own(g, j) : Picked(g.edges, Own(g, j))[Rank(Own(g, j), l)] = g.edges[l]
      BY <1>1, <1>3, PickedAt, ZenonT(40)
    <3> QED
      BY <3>1
  <2>4. EdgesFrom(g, j)[k] = g.edges[e]
    BY <1>5, <2>1, <2>3
  <2>5. PlaceOf(g, e) = Offsets(g)[j] + k - 1
    BY <2>1, <2>2 DEF PlaceOf
  <2>6. OrderedEdges(g)[PlaceOf(g, e)] = g.edges[e][2]
    BY <1>8, <1>9, <2>2 DEF Reached
  <2> QED
    BY <2>4, <2>5, <2>6
<1>11. Offsets(g)[i] - Offsets(g)[j] = Len(EdgesFrom(g, j))
  <2>1. Offsets(g)[i] = Offsets(g)[j + 1]
    BY <1>2
  <2> QED
    BY <1>3, <1>4, <1>6, <2>1
<1> QED
  BY <1>2, <1>7, <1>10, <1>11

\* The edges of the graph of a tile join its nodes.
LEMMA EdgesJoin ==
  ASSUME map \in Maps, NEW t
  PROVE  LET N == Len(WalkingNodes(t))
         IN  /\ N \in Nat /\ DOMAIN WalkingNodes(t) = 1..N
             /\ WalkingEdges(t) \in Seq((0..(N - 1)) \X (0..(N - 1)))
<1> DEFINE W == WalkingNodes(t)
           N == Len(W)
           T == TileSegments(t)
           E == FlattenSeq(T)
           P == 0..(N - 1)
           I == P \X P
<1>1. T \in Seq(Nodes \X Nodes) /\ Len(T) \in Nat /\ DOMAIN T = 1..Len(T)
  <2>1. T \in Seq(Nodes \X Nodes)
    BY TileSegmentsAre
  <2> HIDE DEF T
  <2> QED
    BY <2>1
<1>2. T \in Seq(Seq(Nodes)) /\ E \in Seq(Nodes)
  <2> HIDE DEF T
  <2>1. ASSUME NEW k \in 1..Len(T) PROVE T[k] \in Seq(Nodes)
    <3>1. T[k] \in Nodes \X Nodes
      BY <1>1
    <3>2. T[k] = <<T[k][1], T[k][2]>> /\ T[k][1] \in Nodes /\ T[k][2] \in Nodes
      BY <3>1
    <3>3. \A a, b \in Nodes : <<a, b>> \in Seq(Nodes)
      OBVIOUS
    <3> QED
      BY <3>2, <3>3
  <2>2. T \in [1..Len(T) -> Seq(Nodes)]
    BY <1>1, <2>1
  <2>3. T \in Seq(Seq(Nodes))
    BY <1>1, <2>2, FunctionIsSequence
  <2>4. <<>> \in Seq(Nodes)
    OBVIOUS
  <2> QED
    BY <2>3, <2>4, FlattenAppend
<1>3. W = FirstMet(E)
  BY DEF WalkingNodes
<1> HIDE DEF W, E
<1>4. /\ W \in Seq(Nodes)
      /\ \A k \in 1..Len(E) : \E l \in 1..Len(W) : W[l] = E[k]
  BY <1>2, <1>3, FirstMetIs
<1>5. N \in Nat /\ DOMAIN W = 1..N
  BY <1>4
<1>5a. \A e : (\E k \in 1..Len(FlattenSeq(T)) : FlattenSeq(T)[k] = e)
               <=> \E i \in 1..Len(T) : \E j \in 1..Len(T[i]) : T[i][j] = e
  <2>1. T \in Seq(Seq(Nodes))
    BY <1>2
  <2> HIDE DEF T
  <2> QED
    BY <2>1, FlattenHas, Zenon
<1>6. ASSUME NEW k \in 1..Len(T), NEW e \in {1, 2} PROVE Number(t, T[k][e]) \in P
  <2>1. e \in 1..Len(T[k])
    <3>1. T[k] \in Nodes \X Nodes
      BY <1>1
    <3>2. T[k] = <<T[k][1], T[k][2]>>
      BY <3>1
    <3>3. Len(<<T[k][1], T[k][2]>>) = 2
      OBVIOUS
    <3> QED
      BY <3>2, <3>3
  <2>2. \E i \in 1..Len(T) : \E j \in 1..Len(T[i]) : T[i][j] = T[k][e]
    BY <2>1
  <2>3. \E l \in 1..Len(FlattenSeq(T)) : FlattenSeq(T)[l] = T[k][e]
    BY <1>5a, <2>2
  <2>4. PICK l \in 1..N : W[l] = T[k][e]
    BY <1>4, <2>3 DEF E
  <2>5. Begins(W, WalkingNodes(t))
    BY <1>5 DEF Begins, W
  <2>6. Number(t, W[l]) = l - 1
    <3> HIDE DEF T
    <3> QED
      BY <1>5, <2>5, NumberIs
  <2> QED
    BY <1>5, <2>4, <2>6
<1> DEFINE B == [i \in DOMAIN T |-> Both(t, T[i])]
<1> HIDE DEF T
<1>7. ASSUME NEW k \in 1..Len(T) PROVE Both(t, T[k]) \in Seq(I)
  <2>1. Number(t, T[k][1]) \in P /\ Number(t, T[k][2]) \in P
    BY <1>6
  <2> HIDE DEF P
  <2>2. <<Number(t, T[k][1]), Number(t, T[k][2])>> \in I /\ <<Number(t, T[k][2]), Number(t, T[k][1])>> \in I
    BY <2>1
  <2> HIDE DEF I
  <2> QED
    BY <2>2 DEF Both, BothWays
<1> HIDE DEF I
<1>8. B \in Seq(Seq(I))
  <2>1. B \in [1..Len(T) -> Seq(I)]
    BY <1>1, <1>7
  <2> HIDE DEF B
  <2> QED
    BY <1>1, <2>1, FunctionIsSequence
<1>9. WalkingEdges(t) = FlattenSeq(B)
  BY Zenon DEF WalkingEdges, T, Both, BothWays, Number
<1>10. WalkingEdges(t) \in Seq(I)
  <2> HIDE DEF B
  <2>1. <<>> \in Seq(I)
    OBVIOUS
  <2> QED
    BY <1>8, <1>9, <2>1, FlattenAppend
<1> QED
  BY <1>5, <1>10 DEF W, I

(***************************************************************************)
(* The payloads.                                                           *)
(***************************************************************************)
Written(t) == payload[t] = [offsets |-> Offsets(graph[t]), targets |-> OrderedEdges(graph[t])]

\* Tile by tile what is written is that of its complete graph.
PayloadInv ==
    /\ payload = [t \in Tiles |-> payload[t]]
    /\ phase \in {"pools", "start", "join"} => at = 0
    /\ phase = "write" => at \in 0..TileCount /\ \A t \in Tiles : t < at => Written(t)
    /\ phase = "done" /\ result = 0 => \A t \in Tiles : Written(t) /\ Complete(t)

\* At first nothing is written.
LEMMA PayloadInit == Init => PayloadInv
BY DEF Init, PayloadInv

\* One more tile is written.
LEMMA WriteTileStep ==
  ASSUME InputInv, CallInv, GraphInv, PayloadInv, WriteTile
  PROVE  PayloadInv'
<1>1. /\ phase = "write" /\ at < TileCount /\ at \in 0..TileCount /\ TileCount \in Nat
      /\ \A t \in Tiles : t < at => Written(t)
      /\ UNCHANGED <<graph, map>>
  BY TileFacts DEF WriteTile, MainAt, PayloadInv, Fails, inputVars, buildVars, graphVars
<1>2. CASE Fails({"memory"})
  <2>1. phase' = "done" /\ result' = -1 /\ payload' = payload
    BY <1>2 DEF Fails
  <2> QED
    BY <2>1 DEF PayloadInv
<1>3. CASE ~ Fails({"memory"})
  <2>1. /\ payload' = [payload EXCEPT ![at] = [offsets |-> Offsets(graph[at]), targets |-> OrderedEdges(graph[at])]]
        /\ at' = at + 1 /\ phase' = "write"
    BY <1>1, <1>3 DEF WriteTile
  <2>2. payload = [t \in Tiles |-> payload[t]] /\ at \in Tiles
    BY <1>1 DEF PayloadInv, Tiles
  <2>3. payload' = [t \in Tiles |-> payload'[t]]
    BY <2>1, <2>2
  <2>4. ASSUME NEW t \in Tiles, t < at + 1 PROVE Written(t)'
    <3>1. CASE t = at
      BY <1>1, <2>1, <2>2, <3>1 DEF Written
    <3>2. CASE t # at
      <4>1. t < at
        BY <1>1, <2>4, <3>2, TileFacts
      <4>2. payload'[t] = payload[t]
        BY <2>1, <2>2, <3>2
      <4> QED
        BY <1>1, <4>1, <4>2 DEF Written
    <3> QED
      BY <3>1, <3>2
  <2>5. at' \in 0..TileCount
    BY <1>1, <2>1
  <2> QED
    BY <2>1, <2>3, <2>4, <2>5 DEF PayloadInv
<1> QED
  BY <1>2, <1>3

\* Elsewhere nothing is written, and a call that is done stays so.
LEMMA PayloadSame ==
  ASSUME PayloadInv, payload' = payload,
         \/ phase' \notin {"pools", "start", "join", "write", "done"}
         \/ phase' = "done" /\ result' # 0
         \/ phase' \in {"pools", "start", "join", "write"} /\ at' = 0
         \/ phase' = phase /\ UNCHANGED <<map, graph, at, result>>
  PROVE  PayloadInv'
<1>1. payload' = [t \in Tiles |-> payload'[t]]
  BY DEF PayloadInv
<1>2. 0 \in 0..TileCount /\ \A t \in Tiles : ~ (t < 0)
  BY TileFacts
<1>3. CASE phase' = phase /\ UNCHANGED <<map, graph, at, result>>
  <2>1. \A t : Written(t)' <=> Written(t)
    BY <1>3 DEF Written
  <2>2. \A t : Complete(t)' <=> Complete(t)
    BY <1>3, WantedKept DEF Complete
  <2> QED
    BY <1>1, <1>3, <2>1, <2>2 DEF PayloadInv
<1> QED
  BY <1>1, <1>2, <1>3 DEF PayloadInv

\* Every step keeps what is said of the payloads.
LEMMA PayloadStep ==
  ASSUME InputInv, CallInv, GraphInv, PayloadInv, [Next]_vars
  PROVE  PayloadInv'
<1> USE DEF MainAt, MainGoes, Fails
<1>1. CASE WriteTile
  BY <1>1, WriteTileStep
<1>2. CASE WriteDone
  <2>1. /\ phase = "write" /\ at = TileCount /\ phase' = "done" /\ UNCHANGED <<payload, graph, map>>
    BY <1>2 DEF WriteDone, inputVars, buildVars, graphVars
  <2>2. ASSUME NEW t \in Tiles PROVE Written(t)' /\ Complete(t)'
    <3>1. t < at
      BY <2>1, TileFacts
    <3>2. Written(t) /\ Complete(t)
      BY <2>1, <3>1 DEF PayloadInv, GraphInv
    <3> QED
      BY <2>1, <3>2, WantedKept DEF Written, Complete
  <2> QED
    BY <2>1, <2>2 DEF PayloadInv
<1>3. CASE CollectRefs \/ ResolveCoords \/ CountSegment \/ CountDone \/ LayoutTile \/ LayoutDone
           \/ FillSegment
  <2>1. payload' = payload
        /\ (phase' \in {"resolve", "count", "layout", "fill"} \/ (phase' = "done" /\ result' = -1))
    BY <1>3 DEF CollectRefs, ResolveCoords, CountSegment, CountDone, LayoutTile, LayoutDone, FillSegment
  <2> QED
    BY <2>1, PayloadSame
<1>4. CASE FillDone
  <2>1. payload' = payload /\ at' = 0 /\ phase' \in {"pools", "write"}
    BY <1>4 DEF FillDone
  <2> QED
    BY <2>1, PayloadSame
<1>5. CASE MakePools \/ StartWorker \/ StartFails \/ AllStarted \/ Join \/ AllJoined
  <2>1. /\ payload' = payload /\ phase \in {"pools", "start", "join"}
        /\ \/ phase' = "done" /\ result' # 0
           \/ phase' \in {"pools", "start", "join", "write"} /\ at' = at
    BY <1>5 DEF MakePools, StartWorker, StartFails, AllStarted, Join, AllJoined
  <2>2. at = 0
    BY <2>1 DEF PayloadInv
  <2> QED
    BY <2>1, <2>2, PayloadSame
<1>6. ASSUME NEW w \in Workers, Worker(w) PROVE PayloadInv'
  <2>1. place[w] \notin {"idle", "ended", "gaveup"}
    BY <1>6 DEF Worker, WorkerTest, WorkerClaim, WorkerBegin, WorkerLeft, WorkerRight, At
  <2>2. phase \in PoolPhases
    BY <2>1 DEF CallInv
  <2>3. payload' = payload /\ phase' = phase /\ at' = at
    BY <1>6 DEF Worker, mainVars
  <2>4. phase \in {"start", "join"} /\ at = 0
    BY <2>2 DEF PoolPhases, PayloadInv
  <2> QED
    BY <2>3, <2>4, PayloadSame
<1>7. CASE UNCHANGED vars
  <2>1. UNCHANGED <<phase, map, graph, at, result, payload>>
    BY <1>7 DEF vars, inputVars, buildVars, graphVars, mainVars
  <2> QED
    BY <2>1, PayloadSame
<1> QED
  BY <1>1, <1>2, <1>3, <1>4, <1>5, <1>6, <1>7 DEF Next, Main, Returned

\* What is written of a tile can be read back.
THEOREM WalkingReadsBack == Spec => []PayloadReadsBack
<1> DEFINE Inv == InputInv /\ StoreInv /\ CallInv /\ GraphInv /\ LeftInv /\ PayloadInv
<1>1. Init => Inv
  BY InputInit, StoreInit, CallInit, GraphInit, LeftInit, PayloadInit
<1>2. Inv /\ BuildInv /\ [Next]_vars => Inv'
  BY InputStep, StoreStep, CallStep, GraphStep, LeftStep, PayloadStep
<1>3. Inv => PayloadReadsBack
  <2> SUFFICES ASSUME Inv, phase = "done", result = 0, NEW t \in Tiles, NEW i \in DOMAIN graph[t].nodes
               PROVE  LET edges == EdgesFrom(graph[t], i - 1)
                          begin == payload[t].offsets[i - 1]
                      IN  /\ payload[t].offsets[i] - begin = Len(edges)
                          /\ \A k \in DOMAIN edges : payload[t].targets[begin + k - 1] = edges[k][2]
    BY DEF PayloadReadsBack
  <2>1. Written(t) /\ Complete(t) /\ map \in Maps
    BY DEF PayloadInv, InputInv
  <2>2. PICK N : N = Len(WalkingNodes(t))
    OBVIOUS
  <2>3. IsNumbered(graph[t], N) /\ i \in 1..N
    BY <2>1, <2>2, EdgesJoin DEF Complete, IsNumbered
  <2>4. payload[t].offsets = Offsets(graph[t]) /\ payload[t].targets = OrderedEdges(graph[t])
    BY <2>1 DEF Written
  <2> QED
    BY <2>3, <2>4, ReadsBack
<1> QED
  BY <1>1, <1>2, <1>3, WalkingInductive, PTL DEF Spec
=============================================================================
