---------------------------- MODULE RouteSearch ----------------------------
(***************************************************************************)
(* The walking search of src/src/tools/rte_route.c: Dijkstra's algorithm   *)
(* over the adjacency lists of the loaded graph with a binary heap that    *)
(* keeps outdated items, and the path read back from the predecessors.     *)
(* The heap is the array of the code; every exchange of its loops is a     *)
(* step.  Nodes count from 1, so the parent of item i is item i \div 2.    *)
(***************************************************************************)
EXTENDS Integers, Sequences, FiniteSets

CONSTANTS HeapChunk,    \* first capacity of the heap
          SearchFaults  \* whether rt_realloc may fail

ASSUME SearchAssumption == HeapChunk \in Nat \ {0} /\ SearchFaults \in BOOLEAN

VARIABLES
    out,            \* the edges of every node, in the order of its list
    source, target,
    step,           \* where dijkstra is
    heap, capacity,
    hole, carried,  \* the free place of a heap loop and the item it is for
    popped,         \* the item heap_pop has handed out
    node, left,     \* the node being relaxed and what is left of its list
    reached,        \* nodes with a distance
    dist, previous, settled,
    path

graphVars == <<out, source, target>>
heapVars == <<heap, capacity, hole, carried>>
labelVars == <<reached, dist, previous>>
searchVars == <<graphVars, step, heapVars, popped, node, left, labelVars, settled, path>>

Nodes == DOMAIN out

Item(n, d) == [node |-> n, distance |-> d]
NoItem == Item(0, 0)

\* Before dijkstra: its variables mean nothing yet.
SearchIdle ==
    /\ step = "idle"
    /\ heap = <<>> /\ capacity = 0 /\ hole = 0 /\ carried = NoItem
    /\ popped = NoItem /\ node = 0 /\ left = <<>>
    /\ reached = {} /\ dist = <<>> /\ previous = <<>> /\ settled = {}
    /\ path = <<>>

\* heap_push up to its loop: the place at the end is free for the item.
Pushes(n, d) ==
    \/ /\ heap' = Append(heap, Item(n, d))
       /\ capacity' = IF Len(heap) < capacity THEN capacity
                      ELSE IF capacity = 0 THEN HeapChunk ELSE 2 * capacity
       /\ hole' = Len(heap) + 1
       /\ carried' = Item(n, d)
       /\ step' = "up"
    \/ /\ SearchFaults /\ Len(heap) = capacity
       /\ step' = "failed"
       /\ UNCHANGED heapVars

StartSearch ==
    /\ step = "idle"
    /\ reached' = {source}
    /\ dist' = [n \in Nodes |-> 0]
    /\ previous' = [n \in Nodes |-> 0]
    /\ settled' = {}
    /\ Pushes(source, 0)
    /\ UNCHANGED <<graphVars, popped, node, left, path>>

-----------------------------------------------------------------------------
(***************************************************************************)
(* heap_push and heap_pop.                                                 *)
(***************************************************************************)
MoveUp ==
    /\ step = "up"
    /\ hole > 1 /\ heap[hole \div 2].distance > carried.distance
    /\ heap' = [heap EXCEPT ![hole] = heap[hole \div 2]]
    /\ hole' = hole \div 2
    /\ UNCHANGED <<graphVars, step, capacity, carried, popped, node, left, labelVars, settled, path>>

Pushed ==
    /\ step = "up"
    /\ hole > 1 => heap[hole \div 2].distance <= carried.distance
    /\ heap' = [heap EXCEPT ![hole] = carried]
    /\ step' = "relax"
    /\ UNCHANGED <<graphVars, capacity, hole, carried, popped, node, left, labelVars, settled, path>>

Pop ==
    /\ step = "relax" /\ left = <<>> /\ heap # <<>>
    /\ popped' = heap[1]
    /\ carried' = heap[Len(heap)]
    /\ heap' = SubSeq(heap, 1, Len(heap) - 1)
    /\ hole' = 1
    /\ step' = "down"
    /\ UNCHANGED <<graphVars, capacity, node, left, labelVars, settled, path>>

LeftChild == 2 * hole

NearerChild ==
    IF 2 * hole + 1 <= Len(heap) /\ heap[2 * hole + 1].distance < heap[2 * hole].distance
    THEN 2 * hole + 1 ELSE 2 * hole

MoveDown ==
    /\ step = "down"
    /\ 2 * hole <= Len(heap) /\ heap[NearerChild].distance < carried.distance
    /\ heap' = [heap EXCEPT ![hole] = heap[NearerChild]]
    /\ hole' = NearerChild
    /\ UNCHANGED <<graphVars, step, capacity, carried, popped, node, left, labelVars, settled, path>>

Popped ==
    /\ step = "down"
    /\ 2 * hole <= Len(heap) => heap[NearerChild].distance >= carried.distance
    /\ heap' = IF heap = <<>> THEN heap ELSE [heap EXCEPT ![hole] = carried]
    /\ step' = "settle"
    /\ UNCHANGED <<graphVars, capacity, hole, carried, popped, node, left, labelVars, settled, path>>

-----------------------------------------------------------------------------
(***************************************************************************)
(* dijkstra.                                                               *)
(***************************************************************************)
\* An item for a node that was settled at a shorter distance.
Outdated ==
    /\ step = "settle" /\ popped.node \in settled
    /\ step' = "relax"
    /\ UNCHANGED <<graphVars, heapVars, popped, node, left, labelVars, settled, path>>

Settle ==
    /\ step = "settle" /\ popped.node \notin settled
    /\ settled' = settled \cup {popped.node}
    /\ step' = IF popped.node = target THEN "found" ELSE "relax"
    /\ node' = popped.node
    /\ left' = IF popped.node = target THEN <<>> ELSE out[popped.node]
    /\ UNCHANGED <<graphVars, heapVars, popped, labelVars, path>>

Shorter(edge) == edge.to \notin reached \/ dist[node] + edge.meters < dist[edge.to]

ShortensDistanceOnly ==
    /\ step = "relax" /\ left # <<>> /\ Shorter(Head(left))
    /\ LET edge == Head(left)
       IN  /\ reached' = reached \cup {edge.to}
           /\ dist' = [dist EXCEPT ![edge.to] = dist[node] + edge.meters]
           /\ previous' = IF edge.to \in reached THEN previous ELSE [previous EXCEPT ![edge.to] = node]
           /\ Pushes(edge.to, dist[node] + edge.meters)
    /\ left' = Tail(left)
    /\ UNCHANGED <<graphVars, popped, node, settled, path>>

Shortens ==
    /\ step = "relax" /\ left # <<>> /\ Shorter(Head(left))
    /\ LET edge == Head(left)
       IN  /\ reached' = reached \cup {edge.to}
           /\ dist' = [dist EXCEPT ![edge.to] = dist[node] + edge.meters]
           /\ previous' = [previous EXCEPT ![edge.to] = node]
           /\ Pushes(edge.to, dist[node] + edge.meters)
    /\ left' = Tail(left)
    /\ UNCHANGED <<graphVars, popped, node, settled, path>>

PassesBy ==
    /\ step = "relax" /\ left # <<>> /\ ~Shorter(Head(left))
    /\ left' = Tail(left)
    /\ UNCHANGED <<graphVars, step, heapVars, popped, node, labelVars, settled, path>>

Exhausted ==
    /\ step = "relax" /\ left = <<>> /\ heap = <<>>
    /\ step' = "none"
    /\ UNCHANGED <<graphVars, heapVars, popped, node, left, labelVars, settled, path>>

\* build_route_path: from the target along the predecessors to the source.
Back(count) ==
    LET chain[k \in 0..count] ==
            IF k = 0 THEN <<target>>
            ELSE IF chain[k - 1][1] = source THEN chain[k - 1]
                 ELSE <<previous[chain[k - 1][1]]>> \o chain[k - 1]
    IN  chain[count]

BuildPath ==
    /\ step = "found"
    /\ path' = Back(Cardinality(reached) - 1)
    /\ step' = "done"
    /\ UNCHANGED <<graphVars, heapVars, popped, node, left, labelVars, settled>>

SearchStep ==
    \/ MoveUp \/ Pushed \/ Pop \/ MoveDown \/ Popped
    \/ Outdated \/ Settle \/ Shortens \/ PassesBy \/ Exhausted \/ BuildPath

-----------------------------------------------------------------------------
(***************************************************************************)
(* The search on its own, over any graph, and what its answer must be.     *)
(***************************************************************************)
Edge == [to : Nodes, meters : Nat]
EdgesOf(n) == {out[n][i] : i \in DOMAIN out[n]}

Graph ==
    /\ \A n \in Nodes : out[n] \in Seq(Edge)
    /\ source \in Nodes /\ target \in Nodes

SearchNext == StartSearch \/ SearchStep

SearchSpec == Graph /\ SearchIdle /\ [][SearchNext]_searchVars

\* The certificate that nothing is nearer: with a target at distance d, the
\* distances cut off at d grow along no edge by more than its length; without
\* one, no edge leads out of what was reached.
Cut(n) == IF n \in reached /\ dist[n] < dist[target] THEN dist[n] ELSE dist[target]

NothingNearer ==
    /\ step \in {"found", "done"} =>
          /\ Cut(source) = 0
          /\ \A n \in Nodes : \A e \in EdgesOf(n) : Cut(e.to) <= Cut(n) + e.meters
    /\ step = "none" =>
          /\ source \in reached /\ target \notin reached
          /\ \A n \in reached : \A e \in EdgesOf(n) : e.to \in reached

\* Every distance is that of a way: an edge leads from the predecessor, which
\* is settled, and its length makes up the difference.
DistancesAreReal ==
    step \notin {"idle", "failed"} =>
        /\ source \in reached /\ dist[source] = 0
        /\ \A n \in reached \ {source} :
              /\ previous[n] \in settled
              /\ \E e \in EdgesOf(previous[n]) : e.to = n /\ dist[n] = dist[previous[n]] + e.meters
=============================================================================
