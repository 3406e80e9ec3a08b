------------------------- MODULE RouteQueryProofs --------------------------
(***************************************************************************)
(* What is proved about a query: that the walking search finds a shortest  *)
(* way in every graph, that a plan the public transport suggestion shows   *)
(* can be travelled with every timetable, and that the graph loaded from   *)
(* a pack is that of its walks, so that the route reported is the shortest *)
(* of them.                                                                *)
(***************************************************************************)
EXTENDS RouteQuery, SequenceTheorems, FiniteSetTheorems, WellFoundedInduction, TLAPS

-----------------------------------------------------------------------------
(***************************************************************************)
(* The inductive invariant.                                                *)
(***************************************************************************)
Items == [node : Nodes, distance : Nat]
Left == {left[i] : i \in DOMAIN left}

Types ==
    /\ step \in {"up", "relax", "down", "settle", "none", "found", "done"}
    /\ heap \in Seq(Items) /\ carried \in Items /\ hole \in Nat
    /\ step \in {"down", "settle"} => popped \in Items
    /\ step = "up" => hole \in 1..Len(heap)
    /\ step = "down" => hole \in Nat \ {0} /\ (heap # <<>> => hole \in 1..Len(heap))
    /\ left \in Seq(Edge) /\ (left # <<>> => node \in settled /\ Left \subseteq EdgesOf(node))
    /\ step \notin {"up", "relax"} => left = <<>>
    /\ dist \in [Nodes -> Nat] /\ DOMAIN previous = Nodes
    /\ reached \subseteq Nodes /\ settled \subseteq reached

\* The order of a heap of n distances d.  Where place h is free, its children
\* are compared with its parent, and the distance c of the item on its way with
\* the children when it goes up, with the parent when it goes down.
Ordered(n, d) == \A i \in 2..n : d[i \div 2] <= d[i]

OrderedAround(n, d, h) ==
    \A i \in 2..n :
        /\ i # h /\ i \div 2 # h => d[i \div 2] <= d[i]
        /\ i \div 2 = h /\ h > 1 => d[h \div 2] <= d[i]

OrderedUp(n, d, h, c) ==
    OrderedAround(n, d, h) /\ \A i \in 2..n : i \div 2 = h => c <= d[i]

OrderedDown(n, d, h, c) ==
    OrderedAround(n, d, h) /\ (h > 1 /\ n > 0 => d[h \div 2] <= c)

Distances == [i \in 1..Len(heap) |-> heap[i].distance]

HeapOrder ==
    /\ step \in {"relax", "settle"} => Ordered(Len(heap), Distances)
    /\ step = "up" => OrderedUp(Len(heap), Distances, hole, carried.distance)
    /\ step = "down" => OrderedDown(Len(heap), Distances, hole, carried.distance)

\* The items of the heap, the one on its way among them.
Queued ==
    IF step \in {"up", "down"} /\ heap # <<>>
    THEN {heap[i] : i \in 1..Len(heap) \ {hole}} \cup {carried}
    ELSE {heap[i] : i \in 1..Len(heap)}

Pending == IF step \in {"down", "settle"} THEN Queued \cup {popped} ELSE Queued

Frontier ==
    /\ \A n \in reached \ settled : Item(n, dist[n]) \in Pending
    /\ \A item \in Pending : /\ item.node \in reached
                             /\ dist[item.node] <= item.distance
                             /\ \A n \in settled : dist[n] <= item.distance
    /\ step \in {"down", "settle"} => \A item \in Queued : popped.distance <= item.distance
    /\ left # <<>> => \A n \in settled : dist[n] <= dist[node]

Relaxed ==
    \A n \in settled :
        \/ step \in {"found", "done"} /\ n = target
        \/ \A e \in EdgesOf(n) : \/ n = node /\ e \in Left
                                 \/ e.to \in reached /\ dist[e.to] <= dist[n] + e.meters

Ending ==
    /\ step \in {"found", "done"} =>
          /\ target \in settled
          /\ \A n \in settled : dist[n] <= dist[target]
          /\ \A n \in reached \ settled : dist[target] <= dist[n]
    /\ target \in settled => step \in {"found", "done"}
    /\ step = "none" => settled = reached

Running == Types /\ HeapOrder /\ Frontier /\ Relaxed /\ Ending /\ DistancesAreReal

SearchInv == Graph /\ (SearchIdle \/ step = "failed" \/ Running)

-----------------------------------------------------------------------------
(***************************************************************************)
(* Lemmas.                                                                 *)
(***************************************************************************)
\* Every non-empty set of naturals has a least element.
LEMMA LeastNat ==
    ASSUME NEW T \in SUBSET Nat, T # {}
    PROVE  \E x \in T : \A y \in T : x <= y
<1>1. \E x \in T : \A y \in T : ~(<<y, x>> \in OpToRel(<, Nat))
  BY NatLessThanWellFounded, WFMin, Zenon
<1>2. PICK x \in T : \A y \in T : ~(<<y, x>> \in OpToRel(<, Nat))
  BY <1>1, Zenon
<1>3. ASSUME NEW y \in T PROVE x <= y
  <2>1. y < x => <<y, x>> \in OpToRel(<, Nat)
    BY Zenon DEF OpToRel
  <2>2. ~(y < x)
    BY <1>2, <2>1, Zenon
  <2>3. x \in Nat /\ y \in Nat
    BY Zenon
  <2> QED
    BY ONLY <2>2, <2>3, SMT
<1> QED
  BY <1>3, Zenon

\* In a heap no item is smaller than the root.
LEMMA RootIsLeast ==
    ASSUME NEW n \in Nat, NEW d \in [1..n -> Nat],
           \A i \in 2..n : d[i \div 2] <= d[i]
    PROVE  \A i \in 1..n : d[1] <= d[i]
<1> DEFINE T == {i \in 1..n : d[i] < d[1]}
<1>1. SUFFICES ASSUME T # {} PROVE FALSE
  OBVIOUS
<1>2. PICK x \in T : \A y \in T : x <= y
  <2>1. T \in SUBSET Nat
    OBVIOUS
  <2> HIDE DEF T
  <2> QED
    BY <1>1, <2>1, LeastNat
<1>3. x \in 2..n /\ x \div 2 \in 1..n /\ x \div 2 < x
  BY <1>2
<1>4. x \div 2 \in T
  BY <1>2, <1>3
<1> QED
  BY <1>2, <1>3, <1>4

\* What an exchange in the heap leaves.
LEMMA Exchanged ==
    ASSUME NEW S, NEW h \in Seq(S), NEW i \in 1..Len(h), NEW x \in S,
           NEW g, g = [h EXCEPT ![i] = x]
    PROVE  /\ g \in Seq(S) /\ Len(g) = Len(h)
           /\ \A j \in 1..Len(h) : g[j] = IF j = i THEN x ELSE h[j]
           /\ h # <<>> /\ g # <<>>
<1>1. Len(h) # 0 /\ Len(h) \in Nat
  BY LenProperties
<1> QED
  BY <1>1, ExceptSeq, EmptySeq

\* What is left of a sequence without its last item.
LEMMA Shortened ==
    ASSUME NEW S, NEW s \in Seq(S), s # <<>>, NEW n, n = Len(s) - 1
    PROVE  /\ n \in Nat
           /\ SubSeq(s, 1, n) \in Seq(S)
           /\ Len(SubSeq(s, 1, n)) = n
           /\ \A i \in 1..n : SubSeq(s, 1, n)[i] = s[i]
<1>1. n \in Nat
  <2>1. Len(s) \in Nat /\ Len(s) # 0
    BY EmptySeq, LenProperties
  <2> QED
    BY <2>1
<1>2. \A i \in 1..n : s[i] \in S
  <2>1. SUFFICES ASSUME NEW i \in 1..n PROVE s[i] \in S
    OBVIOUS
  <2>2. i \in 1..Len(s)
    BY <1>1, LenProperties
  <2> QED
    BY <2>2, ElementOfSeq
<1> DEFINE g == SubSeq(s, 1, n)
<1>3. /\ g \in Seq(S) /\ Len(g) = (IF 1 <= n THEN n-1+1 ELSE 0)
      /\ \A i \in 1 .. n-1+1 : g[i] = s[1+i-1]
  <2>1. 1 \in Int /\ n \in Int
    BY <1>1
  <2> QED
    BY <1>2, <2>1, SubSeqProperties
<1> HIDE DEF g
<1>4. Len(g) = n
  BY <1>1, <1>3
<1>5. \A i \in 1..n : g[i] = s[i]
  <2> SUFFICES ASSUME NEW i \in 1..n PROVE g[i] = s[i]
    OBVIOUS
  <2>1. i \in 1..n-1+1 /\ 1+i-1 = i
    BY <1>1
  <2>2. g[i] = s[1+i-1]
    BY <1>3, <2>1
  <2> QED
    BY <2>1, <2>2
<1> QED
  BY <1>1, <1>3, <1>4, <1>5 DEF g

\* The items of a sequence are its head and those of its tail.
LEMMA HeadAndTail ==
    ASSUME NEW S, NEW s \in Seq(S), s # <<>>
    PROVE  /\ Head(s) \in S /\ Tail(s) \in Seq(S)
           /\ {s[i] : i \in DOMAIN s} = {Tail(s)[i] : i \in DOMAIN Tail(s)} \cup {Head(s)}
<1>1. PICK n : n = Len(s)
  OBVIOUS
<1>2. n \in Nat \ {0}
  BY <1>1, EmptySeq, LenProperties
<1>3. /\ Head(s) \in S /\ Tail(s) \in Seq(S) /\ Head(s) = s[1]
      /\ DOMAIN s = 1..n /\ DOMAIN Tail(s) = 1..n-1
      /\ \A i \in 1..n-1 : Tail(s)[i] = s[i + 1]
  BY <1>1, <1>2, HeadTailProperties, LenProperties
<1>4. \A i \in 1..n : i = 1 \/ (i - 1 \in 1..n-1 /\ i = (i - 1) + 1)
  BY <1>2
<1>5. \A i \in 1..n-1 : i + 1 \in 1..n
  BY <1>2
<1>6. 1 \in 1..n
  BY <1>2
<1>7. ASSUME NEW i \in 1..n PROVE s[i] \in {Tail(s)[j] : j \in 1..n-1} \cup {Head(s)}
  <2>1. CASE i = 1
    BY <1>3, <2>1
  <2>2. CASE i - 1 \in 1..n-1 /\ i = (i - 1) + 1
    <3>1. Tail(s)[i - 1] = s[i]
      BY <1>3, <2>2
    <3> QED
      BY <2>2, <3>1
  <2> QED
    BY <1>4, <2>1, <2>2
<1>8. ASSUME NEW i \in 1..n-1 PROVE Tail(s)[i] \in {s[j] : j \in 1..n}
  BY <1>3, <1>5
<1>9. {s[i] : i \in 1..n} = {Tail(s)[i] : i \in 1..n-1} \cup {Head(s)}
  BY <1>3, <1>6, <1>7, <1>8, ZenonT(40)
<1> QED
  BY <1>3, <1>9

-----------------------------------------------------------------------------
(***************************************************************************)
(* The steps inside the heap change none of the labels.                    *)
(***************************************************************************)
LEMMA LabelsKept ==
    ASSUME Graph, Running, Types', HeapOrder',
           UNCHANGED <<graphVars, node, left, labelVars, settled>>,
           Pending' = Pending, 
           step' \in {"down", "settle"} => step \in {"down", "settle"} /\ Queued' = Queued /\ popped' = popped,
           step \in {"up", "relax", "down", "settle"}, step' \in {"up", "relax", "down", "settle"}
    PROVE  Running'
<1>1. Frontier'
  BY DEF Running, Frontier, labelVars, Item
<1>2. Relaxed'
  BY DEF Running, Relaxed, graphVars, labelVars, EdgesOf, Left
<1>3. Ending'
  BY DEF Running, Ending, graphVars, labelVars
<1>4. DistancesAreReal'
  BY DEF Running, DistancesAreReal, graphVars, labelVars, EdgesOf
<1> QED
  BY <1>1, <1>2, <1>3, <1>4 DEF Running

LEMMA MovesUp ==
    ASSUME NEW n \in Nat, NEW d \in [1..n -> Nat], NEW h \in 2..n, NEW c \in Nat,
           OrderedUp(n, d, h, c), d[h \div 2] > c,
           NEW e \in [1..n -> Nat], \A j \in 1..n : e[j] = IF j = h THEN d[h \div 2] ELSE d[j]
    PROVE  OrderedUp(n, e, h \div 2, c)
<1> DEFINE p == h \div 2
<1>1. p \in 1..n /\ p < h /\ h \in 1..n
  OBVIOUS
<1>2. ASSUME NEW i \in 2..n PROVE i \in 1..n /\ i \div 2 \in 1..n /\ i \div 2 < i
  OBVIOUS
<1>3. p > 1 => d[p \div 2] <= d[p]
  BY <1>1, <1>2 DEF OrderedUp, OrderedAround
<1>4. ASSUME NEW i \in 2..n, i # p, i \div 2 # p PROVE e[i \div 2] <= e[i]
  <2> DEFINE q == i \div 2
  <2>1. q \in 1..n /\ i \in 1..n /\ i # h
    BY <1>2, <1>4
  <2>2. CASE q = h
    BY <1>1, <2>1, <2>2 DEF OrderedUp, OrderedAround
  <2>3. CASE q # h
    <3>1. d[q] <= d[i]
      BY <2>1, <2>3 DEF OrderedUp, OrderedAround
    <3> QED
      BY <2>1, <2>3, <3>1
  <2> QED
    BY <2>2, <2>3
<1>5. ASSUME NEW i \in 2..n, i \div 2 = p PROVE d[p] <= e[i]
  <2>1. CASE i = h
    BY <1>1, <2>1
  <2>2. CASE i # h
    <3>1. i # h /\ i \div 2 # h
      BY <1>1, <1>5, <2>2
    <3>2. d[i \div 2] <= d[i]
      BY <3>1 DEF OrderedUp, OrderedAround
    <3>3. d[p] <= d[i]
      BY <3>2, <1>5
    <3> QED
      BY <1>2, <2>2, <3>3
  <2> QED
    BY <2>1, <2>2
<1>6. p > 1 => p \div 2 \in 1..n /\ e[p \div 2] = d[p \div 2]
  BY <1>1
<1>7. OrderedAround(n, e, p)
  <2> SUFFICES ASSUME NEW i \in 2..n
               PROVE  /\ i # p /\ i \div 2 # p => e[i \div 2] <= e[i]
                      /\ i \div 2 = p /\ p > 1 => e[p \div 2] <= e[i]
    BY DEF OrderedAround
  <2>1. i \div 2 = p /\ p > 1 => e[p \div 2] <= e[i]
    BY <1>1, <1>2, <1>3, <1>5, <1>6
  <2> QED
    BY <1>4, <2>1
<1>8. ASSUME NEW i \in 2..n, i \div 2 = p PROVE c <= e[i]
  BY <1>1, <1>2, <1>5, <1>8, SMTT(40)
<1> QED
  BY <1>7, <1>8 DEF OrderedUp

LEMMA ArrivesUp ==
    ASSUME NEW n \in Nat, NEW d \in [1..n -> Nat], NEW h \in 1..n, NEW c \in Nat,
           OrderedUp(n, d, h, c), h > 1 => d[h \div 2] <= c,
           NEW e \in [1..n -> Nat], \A j \in 1..n : e[j] = IF j = h THEN c ELSE d[j]
    PROVE  Ordered(n, e)
BY DEF OrderedUp, OrderedAround, Ordered

LEMMA MovesDown ==
    ASSUME NEW n \in Nat, NEW d \in [1..n -> Nat], NEW h \in 1..n, NEW c \in Nat,
           OrderedDown(n, d, h, c),
           NEW k \in 2..n, k \div 2 = h, d[k] < c,
           \A i \in 2..n : i \div 2 = h => d[k] <= d[i],
           NEW e \in [1..n -> Nat], \A j \in 1..n : e[j] = IF j = h THEN d[k] ELSE d[j]
    PROVE  OrderedDown(n, e, k, c)
<1>1. h < k /\ k \in 1..n
  OBVIOUS
<1>2. ASSUME NEW i \in 2..n PROVE i \in 1..n /\ i \div 2 \in 1..n /\ i \div 2 < i
  OBVIOUS
<1>3. ASSUME NEW i \in 2..n, i # k, i \div 2 # k PROVE e[i \div 2] <= e[i]
  <2> DEFINE q == i \div 2
  <2>1. CASE q = h
    BY <1>1, <1>2, <2>1
  <2>2. CASE q # h /\ i = h
    BY <1>1, <1>2, <2>2 DEF OrderedDown, OrderedAround
  <2>3. CASE q # h /\ i # h
    <3>1. d[q] <= d[i]
      BY <2>3 DEF OrderedDown, OrderedAround
    <3> QED
      BY <1>2, <2>3, <3>1
  <2> QED
    BY <2>1, <2>2, <2>3
<1>4. ASSUME NEW i \in 2..n, i \div 2 = k PROVE e[k \div 2] <= e[i]
  <2>1. i # h /\ k # h /\ e[h] = d[k] /\ e[i] = d[i]
    BY <1>1, <1>2, <1>4
  <2>2. d[k] <= d[i]
    BY <1>1, <1>4, <2>1 DEF OrderedDown, OrderedAround
  <2> QED
    BY <2>1, <2>2
<1>5. OrderedAround(n, e, k)
  BY <1>3, <1>4 DEF OrderedAround
<1> QED
  BY <1>1, <1>5 DEF OrderedDown

LEMMA ArrivesDown ==
    ASSUME NEW n \in Nat, NEW d \in [1..n -> Nat], NEW h \in 1..n, NEW c \in Nat,
           OrderedDown(n, d, h, c),
           \A i \in 2..n : i \div 2 = h => c <= d[i],
           NEW e \in [1..n -> Nat], \A j \in 1..n : e[j] = IF j = h THEN c ELSE d[j]
    PROVE  Ordered(n, e)
BY DEF OrderedDown, OrderedAround, Ordered
LEMMA DistancesType ==
    ASSUME heap \in Seq(Items)
    PROVE  /\ Len(heap) \in Nat /\ Distances \in [1..Len(heap) -> Nat]
           /\ \A i \in 1..Len(heap) : heap[i] \in Items /\ Distances[i] = heap[i].distance
<1>1. Len(heap) \in Nat /\ \A i \in 1..Len(heap) : heap[i] \in Items
  BY LenProperties, ElementOfSeq
<1> QED
  BY <1>1 DEF Distances, Items

LEMMA SameGraph ==
    ASSUME UNCHANGED graphVars
    PROVE  Nodes' = Nodes /\ Items' = Items /\ Edge' = Edge
BY DEF graphVars, Nodes, Items, Edge

LEMMA MoveUpKeeps ==
    ASSUME Graph, Running, MoveUp
    PROVE  Running'
<1> DEFINE p == hole \div 2
<1>1. /\ heap \in Seq(Items) /\ carried \in Items /\ carried.distance \in Nat
      /\ hole \in 2..Len(heap) /\ p \in 1..Len(heap) /\ p < hole
      /\ Len(heap) \in Nat /\ \A i \in 1..Len(heap) : heap[i] \in Items
  <2>1. hole > 1 /\ hole \in 1..Len(heap) /\ heap \in Seq(Items) /\ carried \in Items
    BY DEF Running, Types, MoveUp
  <2> QED
    BY <2>1, DistancesType DEF Items
<1>2. /\ heap' \in Seq(Items) /\ Len(heap') = Len(heap)
      /\ \A j \in 1..Len(heap) : heap'[j] = IF j = hole THEN heap[p] ELSE heap[j]
      /\ heap # <<>> /\ heap' # <<>>
  BY <1>1, Exchanged DEF MoveUp
<1>g. Nodes' = Nodes /\ Items' = Items /\ Edge' = Edge
  BY SameGraph DEF MoveUp
<1>3. Types'
  <2>1. /\ step' = "up" /\ carried' = carried /\ hole' = p /\ left' = left /\ node' = node
        /\ dist' = dist /\ previous' = previous /\ reached' = reached /\ settled' = settled
        /\ Left' = Left /\ EdgesOf(node)' = EdgesOf(node)
    BY DEF MoveUp, graphVars, labelVars, Left, EdgesOf
  <2> QED
    BY <1>1, <1>2, <1>g, <2>1 DEF Types, Running
<1>4. HeapOrder'
  <2>1. /\ Distances' \in [1..Len(heap) -> Nat]
        /\ \A j \in 1..Len(heap) : Distances'[j] = IF j = hole THEN Distances[p] ELSE Distances[j]
    BY <1>1, <1>2 DEF Distances, Items
  <2>2. OrderedUp(Len(heap), Distances, hole, carried.distance) /\ Distances[p] > carried.distance
    BY <1>1, DistancesType DEF Running, HeapOrder, MoveUp
  <2>3. Distances \in [1..Len(heap) -> Nat]
    BY <1>1, DistancesType
  <2>4. OrderedUp(Len(heap), Distances', p, carried.distance)
    BY ONLY <1>1, <2>1, <2>2, <2>3, MovesUp
  <2>5. step' = "up" /\ hole' = p /\ carried' = carried
    BY DEF MoveUp
  <2> QED
    BY <1>2, <2>4, <2>5 DEF HeapOrder
<1>5. Queued' = Queued
  BY <1>1, <1>2 DEF Queued, MoveUp
<1> QED
  BY <1>3, <1>4, <1>5, LabelsKept DEF MoveUp, Pending, labelVars

LEMMA PushedKeeps ==
    ASSUME Graph, Running, Pushed
    PROVE  Running'
<1>1. /\ heap \in Seq(Items) /\ carried \in Items /\ carried.distance \in Nat
      /\ hole \in 1..Len(heap) /\ step = "up" /\ step' = "relax" /\ Len(heap) \in Nat
  <2>1. hole \in 1..Len(heap) /\ heap \in Seq(Items) /\ carried \in Items /\ step = "up" /\ step' = "relax"
    BY DEF Running, Types, Pushed
  <2> QED
    BY <2>1, DistancesType DEF Items
<1>2. /\ heap' \in Seq(Items) /\ Len(heap') = Len(heap)
      /\ \A j \in 1..Len(heap) : heap'[j] = IF j = hole THEN carried ELSE heap[j]
      /\ heap # <<>> /\ heap' # <<>>
  BY <1>1, Exchanged DEF Pushed
<1>3. /\ Nodes' = Nodes /\ Items' = Items /\ Edge' = Edge
      /\ carried' = carried /\ left' = left /\ node' = node /\ out' = out
      /\ dist' = dist /\ previous' = previous /\ reached' = reached /\ settled' = settled
  BY SameGraph DEF Pushed, labelVars, graphVars
<1>4. Types'
  <2>1. hole' = hole /\ Left' = Left /\ EdgesOf(node)' = EdgesOf(node)
    BY <1>3 DEF Left, EdgesOf, Pushed
  <2> QED
    BY <1>1, <1>2, <1>3, <2>1 DEF Types, Running
<1>5. HeapOrder'
  <2>1. /\ Distances \in [1..Len(heap) -> Nat] /\ Distances' \in [1..Len(heap) -> Nat]
        /\ \A j \in 1..Len(heap) : Distances'[j] = IF j = hole THEN carried.distance ELSE Distances[j]
    BY <1>1, <1>2, DistancesType DEF Distances, Items
  <2>2. /\ OrderedUp(Len(heap), Distances, hole, carried.distance)
        /\ hole > 1 => Distances[hole \div 2] <= carried.distance
    <3>1. hole > 1 => hole \div 2 \in 1..Len(heap)
      BY <1>1
    <3> QED
      BY <1>1, <3>1, DistancesType DEF Running, HeapOrder, Pushed
  <2>3. Ordered(Len(heap), Distances')
    <3> DEFINE d == Distances
               e == Distances'
               n == Len(heap)
               c == carried.distance
    <3>1. n \in Nat /\ hole \in 1..n /\ c \in Nat
      BY <1>1
    <3>2. d \in [1..n -> Nat] /\ e \in [1..n -> Nat] /\ \A j \in 1..n : e[j] = IF j = hole THEN c ELSE d[j]
      BY <2>1
    <3>3. OrderedUp(n, d, hole, c) /\ (hole > 1 => d[hole \div 2] <= c)
      BY <2>2
    <3>4. Ordered(n, e)
      <4> HIDE DEF d, e, n, c
      <4> QED
        BY <3>1, <3>2, <3>3 DEF OrderedUp, OrderedAround, Ordered
    <3> QED
      BY <3>4
  <2> QED
    BY <1>1, <1>2, <2>3 DEF HeapOrder
<1>6. Queued' = Queued
  BY <1>1, <1>2 DEF Queued
<1> QED
  BY <1>1, <1>4, <1>5, <1>6, LabelsKept DEF Pushed, Pending, labelVars

LEMMA PopKeeps ==
    ASSUME Graph, Running, Pop
    PROVE  Running'
<1> DEFINE n == Len(heap)
<1>1. /\ heap \in Seq(Items) /\ n \in Nat \ {0} /\ step = "relax" /\ step' = "down"
      /\ left = <<>> /\ \A i \in 1..n : heap[i] \in Items /\ heap[i].distance \in Nat
  <2>1. heap \in Seq(Items) /\ heap # <<>> /\ step = "relax" /\ step' = "down" /\ left = <<>>
    BY DEF Running, Types, Pop
  <2>2. Len(heap) # 0
    BY <2>1, EmptySeq
  <2> QED
    BY <2>1, <2>2, DistancesType DEF Items
<1>2. /\ heap' \in Seq(Items) /\ Len(heap') = n - 1
      /\ \A i \in 1..n-1 : heap'[i] = heap[i]
      /\ popped' = heap[1] /\ carried' = heap[n] /\ hole' = 1
  <2>1. heap # <<>>
    BY DEF Pop
  <2>2. PICK m : m = n - 1
    OBVIOUS
  <2>3. heap' = SubSeq(heap, 1, m) /\ popped' = heap[1] /\ carried' = heap[n] /\ hole' = 1
    BY <2>2 DEF Pop
  <2>4. heap' \in Seq(Items) /\ Len(heap') = m /\ \A i \in 1..m : heap'[i] = heap[i]
    <3> HIDE DEF n
    <3> QED
      BY <1>1, <2>1, <2>2, <2>3, Shortened DEF n
  <2> QED
    BY <2>2, <2>3, <2>4
<1>3. /\ Nodes' = Nodes /\ Items' = Items /\ Edge' = Edge
      /\ left' = left /\ node' = node /\ out' = out
      /\ dist' = dist /\ previous' = previous /\ reached' = reached /\ settled' = settled
      /\ source' = source /\ target' = target
  BY SameGraph DEF Pop, labelVars, graphVars
<1>4. heap' # <<>> <=> n > 1
  BY <1>1, <1>2, EmptySeq
<1>5. Types'
  <2>1. Left' = Left /\ EdgesOf(node)' = EdgesOf(node)
    BY <1>3 DEF Left, EdgesOf
  <2> QED
    BY <1>1, <1>2, <1>3, <1>4, <2>1 DEF Types, Running
<1>6. /\ Distances \in [1..n -> Nat]
      /\ \A i \in 1..n : Distances[i] = heap[i].distance
      /\ \A i \in 2..n : Distances[i \div 2] <= Distances[i]
  BY <1>1, DistancesType DEF Running, HeapOrder, Ordered
<1>7. \A i \in 1..n : heap[1].distance <= heap[i].distance
  <2>1. \A i \in 1..n : Distances[1] <= Distances[i]
    BY ONLY <1>1, <1>6, RootIsLeast
  <2> QED
    BY <1>1, <1>6, <2>1
<1>8. HeapOrder'
  <2>1. \A i \in 1..n-1 : Distances'[i] = Distances[i]
    BY <1>1, <1>2 DEF Distances
  <2>2. \A i \in 2..n-1 : i \div 2 \in 1..n-1
    BY <1>1
  <2>3. OrderedDown(n - 1, Distances', 1, heap[n].distance)
    BY <1>1, <1>6, <2>1, <2>2 DEF OrderedDown, OrderedAround
  <2> QED
    BY <1>1, <1>2, <2>3 DEF HeapOrder
<1>9. Queued = {heap[i] : i \in 1..n}
  BY <1>1 DEF Queued
<1>10. Queued' \subseteq Queued /\ Queued = Queued' \cup {popped'}
  <2>2. CASE n = 1
    <3>1. Queued' = {}
      BY <1>1, <1>2, <1>4, <2>2 DEF Queued
    <3> QED
      BY <1>1, <1>2, <1>9, <2>2, <3>1
  <2>3. CASE n > 1
    <3>1. Queued' = {heap'[i] : i \in 1..n-1 \ {1}} \cup {heap[n]}
      BY <1>1, <1>2, <1>4, <2>3 DEF Queued
    <3>2. {heap'[i] : i \in 1..n-1 \ {1}} = {heap[i] : i \in 1..n-1 \ {1}}
      BY <1>1, <1>2
    <3>3. 1..n = {1} \cup (1..n-1 \ {1}) \cup {n}
      BY <1>1, <2>3
    <3>4. Queued = {heap[1]} \cup {heap[i] : i \in 1..n-1 \ {1}} \cup {heap[n]}
      BY <1>9, <3>3
    <3>5. PICK M : M = {heap[i] : i \in 1..n-1 \ {1}}
      OBVIOUS
    <3>6. Queued' = M \cup {heap[n]} /\ Queued = {popped'} \cup M \cup {heap[n]}
      BY ONLY <1>2, <3>1, <3>2, <3>4, <3>5
    <3>7. Queued' \subseteq Queued /\ Queued = Queued' \cup {popped'}
      BY ONLY <3>6
    <3> QED
      BY ONLY <3>7
  <2>4. n = 1 \/ n > 1
    <3>1. n \in Nat \ {0}
      BY <1>1
    <3> HIDE DEF n
    <3> QED
      BY ONLY <3>1
  <2> QED
    BY <2>2, <2>3, <2>4, Zenon
<1>11. Pending' = Pending
  BY <1>1, <1>10 DEF Pending
<1>12. Frontier'
  <2>1. \A item \in Queued' : popped'.distance <= item.distance
    BY <1>2, <1>7, <1>9, <1>10
  <2> QED
    BY <1>1, <1>3, <1>11, <2>1 DEF Running, Frontier, Item
<1>13. Relaxed' /\ Ending' /\ DistancesAreReal'
  BY <1>1, <1>3 DEF Running, Relaxed, Ending, DistancesAreReal, EdgesOf, Left
<1> QED
  BY <1>5, <1>8, <1>12, <1>13 DEF Running

LEMMA MoveDownKeeps ==
    ASSUME Graph, Running, MoveDown
    PROVE  Running'
<1> DEFINE k == NearerChild
           n == Len(heap)
<1>1. /\ heap \in Seq(Items) /\ carried \in Items /\ carried.distance \in Nat
      /\ n \in Nat \ {0} /\ hole \in 1..n /\ step = "down" /\ step' = "down"
      /\ \A i \in 1..n : heap[i] \in Items /\ heap[i].distance \in Nat
  <2>1. /\ heap \in Seq(Items) /\ carried \in Items /\ hole \in Nat \ {0} /\ 2 * hole <= Len(heap)
        /\ heap # <<>> => hole \in 1..Len(heap)
        /\ step = "down" /\ step' = "down"
    BY DEF Running, Types, MoveDown
  <2>2. Len(heap) # 0 /\ Len(heap) \in Nat
    BY <2>1, LenProperties
  <2>3. heap # <<>>
    BY <2>2, EmptySeq
  <2> QED
    BY <2>1, <2>2, <2>3, DistancesType DEF Items
<1>2. /\ k \in 2..n /\ k \div 2 = hole /\ hole < k
      /\ \A i \in 2..n : i \div 2 = hole => heap[k].distance <= heap[i].distance
      /\ heap[k].distance < carried.distance
  <2>1. 2 * hole <= n /\ 2 * hole \in 1..n /\ heap[k].distance < carried.distance
    BY <1>1 DEF MoveDown
  <2>2. \A i \in 2..n : i \div 2 = hole => i = 2 * hole \/ i = 2 * hole + 1
    BY <1>1
  <2>3. (2 * hole) \div 2 = hole /\ (2 * hole + 1) \div 2 = hole
    BY <1>1
  <2>4. CASE 2 * hole + 1 <= n /\ heap[2 * hole + 1].distance < heap[2 * hole].distance
    <3>1. k = 2 * hole + 1
      BY <2>4 DEF NearerChild
    <3> QED
      BY <1>1, <2>1, <2>2, <2>3, <2>4, <3>1, SMTT(40)
  <2>5. CASE ~(2 * hole + 1 <= n /\ heap[2 * hole + 1].distance < heap[2 * hole].distance)
    <3>1. k = 2 * hole
      BY <2>5 DEF NearerChild
    <3>2. 2 * hole + 1 <= n => heap[2 * hole].distance <= heap[2 * hole + 1].distance
      BY <1>1, <2>1, <2>5
    <3>3. k \in 2..n /\ k \div 2 = hole /\ hole < k /\ heap[k].distance < carried.distance
      <4> HIDE DEF k
      <4> QED
        BY <1>1, <2>1, <2>3, <3>1
    <3>4. ASSUME NEW i \in 2..n, i \div 2 = hole PROVE heap[2 * hole].distance <= heap[i].distance
      <4>1. CASE i = 2 * hole
        <5>1. heap[2 * hole].distance \in Nat
          BY <1>1, <2>1
        <5> QED
          BY <4>1, <5>1
      <4>2. CASE i = 2 * hole + 1
        <5>1. 2 * hole + 1 <= n
          BY <1>1, <4>2
        <5> QED
          BY <3>2, <4>2, <5>1
      <4> QED
        BY <2>2, <3>4, <4>1, <4>2
    <3> QED
      BY <3>1, <3>3, <3>4
  <2> QED
    BY <2>4, <2>5
<1>3. heap' = [heap EXCEPT ![hole] = heap[k]] /\ hole' = k /\ carried' = carried /\ popped' = popped
  BY DEF MoveDown
<1> HIDE DEF k
<1>4. /\ heap' \in Seq(Items) /\ Len(heap') = n
      /\ \A j \in 1..n : heap'[j] = IF j = hole THEN heap[k] ELSE heap[j]
      /\ heap # <<>> /\ heap' # <<>>
  <2>1. heap[k] \in Items
    BY <1>1, <1>2
  <2> QED
    BY <1>1, <1>3, <2>1, Exchanged
<1>5. /\ Nodes' = Nodes /\ Items' = Items /\ Edge' = Edge
      /\ left' = left /\ node' = node /\ out' = out
      /\ dist' = dist /\ previous' = previous /\ reached' = reached /\ settled' = settled
  BY SameGraph DEF MoveDown, labelVars, graphVars
<1>6. Types'
  <2>1. Left' = Left /\ EdgesOf(node)' = EdgesOf(node)
    BY <1>5 DEF Left, EdgesOf
  <2> QED
    BY <1>1, <1>2, <1>3, <1>4, <1>5, <2>1 DEF Types, Running
<1>7. HeapOrder'
  <2>1. /\ Distances \in [1..n -> Nat] /\ Distances' \in [1..n -> Nat]
        /\ \A j \in 1..n : Distances[j] = heap[j].distance
        /\ \A j \in 1..n : Distances'[j] = IF j = hole THEN Distances[k] ELSE Distances[j]
    <3>1. k \in 1..n /\ heap[k].distance \in Nat
      BY <1>1, <1>2
    <3> QED
      BY <1>1, <1>4, <3>1, DistancesType DEF Distances
  <2>2. OrderedDown(n, Distances, hole, carried.distance)
    BY <1>1 DEF Running, HeapOrder
  <2>3. Distances[k] < carried.distance /\ \A i \in 2..n : i \div 2 = hole => Distances[k] <= Distances[i]
    <3>1. k \in 1..n /\ Distances[k] = heap[k].distance
      BY ONLY <1>2, <2>1
    <3>2. ASSUME NEW i \in 2..n, i \div 2 = hole PROVE Distances[k] <= Distances[i]
      <4>1. heap[k].distance <= heap[i].distance
        BY ONLY <1>2, <3>2
      <4>2. Distances[i] = heap[i].distance
        BY ONLY <2>1, i \in 2..n, n \in Nat
      <4> QED
        BY ONLY <3>1, <4>1, <4>2
    <3> QED
      BY ONLY <1>2, <3>1, <3>2
  <2>4. OrderedDown(n, Distances', k, carried.distance)
    BY ONLY <1>1, <1>2, <2>1, <2>2, <2>3, MovesDown
  <2> QED
    BY <1>1, <1>3, <1>4, <2>4 DEF HeapOrder
<1>8. Queued' = Queued
  BY <1>1, <1>2, <1>3, <1>4 DEF Queued
<1> QED
  BY <1>1, <1>3, <1>6, <1>7, <1>8, LabelsKept DEF MoveDown, Pending, labelVars

LEMMA PoppedKeeps ==
    ASSUME Graph, Running, Popped
    PROVE  Running'
<1>1. /\ heap \in Seq(Items) /\ carried \in Items /\ carried.distance \in Nat
      /\ Len(heap) \in Nat /\ step = "down" /\ step' = "settle"
      /\ hole' = hole /\ carried' = carried /\ popped' = popped /\ popped \in Items
  <2>1. /\ heap \in Seq(Items) /\ carried \in Items /\ step = "down" /\ step' = "settle"
        /\ hole' = hole /\ carried' = carried /\ popped' = popped /\ popped \in Items
    BY DEF Running, Types, Popped
  <2> QED
    BY <2>1, DistancesType DEF Items
<1>2. /\ Nodes' = Nodes /\ Items' = Items /\ Edge' = Edge
      /\ left' = left /\ node' = node /\ out' = out
      /\ dist' = dist /\ previous' = previous /\ reached' = reached /\ settled' = settled
      /\ Left' = Left /\ EdgesOf(node)' = EdgesOf(node)
  BY SameGraph DEF Popped, labelVars, graphVars, Left, EdgesOf
<1>3. heap' \in Seq(Items) /\ Queued' = Queued /\ Ordered(Len(heap'), Distances')
  <2>1. CASE heap = <<>>
    <3>1. heap' = <<>> /\ Len(heap') = 0
      BY <2>1, EmptySeq DEF Popped
    <3> QED
      BY <1>1, <2>1, <3>1 DEF Queued, Ordered
  <2>2. CASE heap # <<>>
    <3>1. hole \in 1..Len(heap) /\ heap' = [heap EXCEPT ![hole] = carried]
      BY <1>1, <2>2 DEF Running, Types, Popped
    <3>2. /\ heap' \in Seq(Items) /\ Len(heap') = Len(heap)
          /\ \A j \in 1..Len(heap) : heap'[j] = IF j = hole THEN carried ELSE heap[j]
          /\ heap' # <<>>
      BY <1>1, <3>1, Exchanged
    <3>3. Queued' = Queued
      BY <1>1, <2>2, <3>1, <3>2 DEF Queued
    <3>4. /\ Distances \in [1..Len(heap) -> Nat] /\ Distances' \in [1..Len(heap) -> Nat]
          /\ \A j \in 1..Len(heap) : Distances[j] = heap[j].distance
          /\ \A j \in 1..Len(heap) : Distances'[j] = IF j = hole THEN carried.distance ELSE Distances[j]
      BY <1>1, <3>1, <3>2, DistancesType DEF Distances, Items
    <3>5. OrderedDown(Len(heap), Distances, hole, carried.distance)
      BY <1>1 DEF Running, HeapOrder
    <3>6. ASSUME NEW i \in 2..Len(heap), i \div 2 = hole PROVE carried.distance <= Distances[i]
      <4>1. i = 2 * hole \/ i = 2 * hole + 1
        BY <3>1, <3>6
      <4>2. 2 * hole <= Len(heap) /\ 2 * hole \in 1..Len(heap)
        BY <1>1, <3>1, <4>1
      <4>3. heap[NearerChild].distance >= carried.distance
        BY <4>2 DEF Popped
      <4>4. \A j \in 1..Len(heap) : heap[j].distance \in Nat
        BY <1>1, <3>4
      <4>5. heap[NearerChild].distance <= heap[i].distance
        <5>1. CASE 2 * hole + 1 <= Len(heap) /\ heap[2 * hole + 1].distance < heap[2 * hole].distance
          BY <3>1, <4>1, <4>2, <4>4, <5>1 DEF NearerChild
        <5>2. CASE ~(2 * hole + 1 <= Len(heap) /\ heap[2 * hole + 1].distance < heap[2 * hole].distance)
          <6>1. NearerChild = 2 * hole
            BY <5>2 DEF NearerChild
          <6> QED
            BY <3>1, <4>1, <4>2, <4>4, <5>2, <6>1
        <5> QED
          BY <5>1, <5>2
      <4>6. NearerChild \in 1..Len(heap)
        BY <1>1, <3>1, <4>2 DEF NearerChild
      <4> QED
        BY <1>1, <3>4, <4>3, <4>4, <4>5, <4>6
    <3>7. \A i \in 2..Len(heap) : i \div 2 = hole => carried.distance <= Distances[i]
      BY <3>6
    <3>8. Ordered(Len(heap), Distances')
      <4> DEFINE d == Distances
                 e == Distances'
                 n == Len(heap)
                 c == carried.distance
      <4>1. n \in Nat /\ hole \in 1..n /\ c \in Nat
        BY <1>1, <3>1
      <4>2. d \in [1..n -> Nat] /\ e \in [1..n -> Nat] /\ \A j \in 1..n : e[j] = IF j = hole THEN c ELSE d[j]
        BY <3>4
      <4>3. OrderedDown(n, d, hole, c) /\ \A i \in 2..n : i \div 2 = hole => c <= d[i]
        BY <3>5, <3>7
      <4>4. Ordered(n, e)
        <5> HIDE DEF d, e, n, c
        <5> QED
          BY <4>1, <4>2, <4>3, SMTT(40) DEF OrderedDown, OrderedAround, Ordered
      <4> QED
        BY <4>4
    <3> QED
      BY <3>2, <3>3, <3>8
  <2> QED
    BY <2>1, <2>2
<1>4. Types'
  BY <1>1, <1>2, <1>3 DEF Types, Running
<1>5. HeapOrder'
  BY <1>1, <1>3 DEF HeapOrder
<1> QED
  BY <1>1, <1>3, <1>4, <1>5, LabelsKept DEF Popped, Pending, labelVars

LEMMA OutdatedKeeps ==
    ASSUME Graph, Running, Outdated
    PROVE  Running'
<1>1. /\ Nodes' = Nodes /\ Items' = Items /\ Edge' = Edge
      /\ heap' = heap /\ carried' = carried /\ hole' = hole /\ popped' = popped
      /\ left' = left /\ node' = node /\ out' = out /\ source' = source /\ target' = target
      /\ dist' = dist /\ previous' = previous /\ reached' = reached /\ settled' = settled
      /\ Left' = Left /\ EdgesOf(node)' = EdgesOf(node) /\ Distances' = Distances
      /\ step = "settle" /\ step' = "relax" /\ popped.node \in settled
  BY SameGraph DEF Outdated, labelVars, graphVars, heapVars, Left, EdgesOf, Distances
<1>2. Types' /\ HeapOrder'
  BY <1>1 DEF Running, Types, HeapOrder
<1>3. Pending = Pending' \cup {popped} /\ Queued' = Queued
  BY <1>1 DEF Pending, Queued
<1>4. Frontier'
  <2>1. ASSUME NEW n \in reached \ settled PROVE Item(n, dist[n]) \in Pending'
    <3>1. Item(n, dist[n]) \in Pending /\ Item(n, dist[n]) # popped
      BY <1>1, <2>1 DEF Running, Frontier, Item
    <3> QED
      BY <1>3, <3>1
  <2>2. left = <<>>
    BY <1>1 DEF Running, Types
  <2>3. \A n \in reached \ settled : Item(n, dist[n])' = Item(n, dist[n])
    BY <1>1 DEF Item
  <2> QED
    BY <1>1, <1>3, <2>1, <2>2, <2>3 DEF Running, Frontier
<1>5. Relaxed' /\ Ending' /\ DistancesAreReal'
  BY <1>1 DEF Running, Relaxed, Ending, DistancesAreReal, EdgesOf
<1> QED
  BY <1>2, <1>4, <1>5 DEF Running

LEMMA SettleKeeps ==
    ASSUME Graph, Running, Settle
    PROVE  Running'
<1> DEFINE p == popped.node
<1>1. /\ Nodes' = Nodes /\ Items' = Items /\ Edge' = Edge
      /\ heap' = heap /\ carried' = carried /\ hole' = hole /\ popped' = popped
      /\ out' = out /\ source' = source /\ target' = target
      /\ dist' = dist /\ previous' = previous /\ reached' = reached
      /\ Distances' = Distances
      /\ step = "settle" /\ p \notin settled /\ settled' = settled \cup {p} /\ node' = p
      /\ step' = IF p = target THEN "found" ELSE "relax"
      /\ left' = IF p = target THEN <<>> ELSE out[p]
  BY SameGraph DEF Settle, labelVars, graphVars, heapVars, Distances
<1>2. /\ p \in reached /\ p \in Nodes /\ reached \subseteq Nodes /\ popped \in Items
      /\ dist \in [Nodes -> Nat] /\ popped.distance \in Nat /\ left = <<>> /\ settled \subseteq reached
  BY <1>1 DEF Running, Types, Items, Frontier, Pending
<1>3. Pending = Queued \cup {popped} /\ Queued' = Queued /\ Pending' = Queued
  BY <1>1 DEF Pending, Queued
<1>4. popped.distance = dist[p]
  <2>1. dist[p] <= popped.distance
    BY <1>3 DEF Running, Frontier
  <2>2. Item(p, dist[p]) \in Pending
    BY <1>1, <1>2 DEF Running, Frontier
  <2>3. Item(p, dist[p]) = popped \/ popped.distance <= Item(p, dist[p]).distance
    BY <1>1, <1>3, <2>2 DEF Running, Frontier
  <2>4. Item(p, dist[p]).distance = dist[p] /\ dist[p] \in Nat
    BY <1>2 DEF Item
  <2> QED
    BY <1>2, <2>1, <2>3, <2>4
<1>5. out[p] \in Seq(Edge)
  BY <1>2 DEF Graph
<1>6. Left' \subseteq EdgesOf(p)' /\ (p # target => Left' = EdgesOf(p)')
  <2>1. p = target => Left' = {}
    BY <1>1 DEF Left
  <2>2. p # target => Left' = EdgesOf(p)'
    BY <1>1 DEF Left, EdgesOf
  <2> QED
    BY <2>1, <2>2
<1>7. Types'
  <2>1. EdgesOf(node)' = EdgesOf(p)'
    BY <1>1
  <2>2. left' \in Seq(Edge)
    BY <1>1, <1>2, <1>5 DEF Running, Types
  <2>3. step' \in {"relax", "found"} /\ (step' = "found" => left' = <<>>)
    BY <1>1
  <2> QED
    BY <1>1, <1>2, <1>6, <2>1, <2>2, <2>3 DEF Running, Types
<1>8. HeapOrder'
  BY <1>1 DEF Running, HeapOrder
<1>9. \A n \in settled' : dist[n] <= dist[p]
  BY <1>1, <1>2, <1>3, <1>4 DEF Running, Frontier
<1>10. \A item \in Queued : dist[p] <= item.distance
  BY <1>1, <1>4 DEF Running, Frontier
<1>11. \A n \in reached \ settled' : Item(n, dist[n]) \in Queued
  <2> SUFFICES ASSUME NEW n \in reached \ settled' PROVE Item(n, dist[n]) \in Queued
    OBVIOUS
  <2>1. n \in reached \ settled /\ n # p
    BY <1>1
  <2>2. Item(n, dist[n]) \in Pending /\ Item(n, dist[n]) # popped
    BY <2>1 DEF Running, Frontier, Item
  <2> QED
    BY <1>3, <2>2
<1>12. Frontier'
  <2>1. \A n \in reached' \ settled' : Item(n, dist[n])' \in Pending'
    BY <1>1, <1>3, <1>11 DEF Item
  <2>2. \A item \in Pending' : /\ item.node \in reached'
                               /\ dist'[item.node] <= item.distance
                               /\ \A n \in settled' : dist'[n] <= item.distance
    BY <1>1, <1>3, <1>10 DEF Running, Frontier
  <2>3. step' \notin {"down", "settle"}
    BY <1>1
  <2> QED
    BY <1>1, <1>9, <2>1, <2>2, <2>3 DEF Frontier
<1>13. Relaxed'
  <2> SUFFICES ASSUME NEW n \in settled'
               PROVE  \/ step' \in {"found", "done"} /\ n = target'
                      \/ \A e \in EdgesOf(n)' : \/ n = node' /\ e \in Left'
                                                \/ e.to \in reached' /\ dist'[e.to] <= dist'[n] + e.meters
    BY DEF Relaxed
  <2>1. CASE n = p
    BY <1>1, <1>6, <2>1
  <2>2. CASE n # p
    <3>1. n \in settled /\ Left = {}
      BY <1>1, <1>2, <2>2 DEF Left
    <3>2. EdgesOf(n)' = EdgesOf(n)
      BY <1>1 DEF EdgesOf
    <3> QED
      BY <1>1, <3>1, <3>2 DEF Running, Relaxed
  <2> QED
    BY <2>1, <2>2
<1>14. Ending'
  <2>1. step' \in {"found", "done"} => p = target
    BY <1>1
  <2>2. \A n \in reached \ settled' : dist[p] <= dist[n]
    BY <1>10, <1>11 DEF Item
  <2>3. target \notin settled
    BY <1>1 DEF Running, Ending
  <2> QED
    BY <1>1, <1>9, <2>1, <2>2, <2>3 DEF Ending
<1>15. DistancesAreReal'
  BY <1>1 DEF Running, DistancesAreReal, EdgesOf
<1> QED
  BY <1>7, <1>8, <1>12, <1>13, <1>14, <1>15 DEF Running

LEMMA PassesByKeeps ==
    ASSUME Graph, Running, PassesBy
    PROVE  Running'
<1> DEFINE e == Head(left)
<1>1. /\ Nodes' = Nodes /\ Items' = Items /\ Edge' = Edge
      /\ heap' = heap /\ carried' = carried /\ hole' = hole /\ popped' = popped
      /\ node' = node /\ out' = out /\ source' = source /\ target' = target
      /\ dist' = dist /\ previous' = previous /\ reached' = reached /\ settled' = settled
      /\ Distances' = Distances /\ EdgesOf(node)' = EdgesOf(node)
      /\ step = "relax" /\ step' = "relax" /\ left # <<>> /\ left' = Tail(left)
      /\ ~Shorter(e)
  BY SameGraph DEF PassesBy, labelVars, graphVars, heapVars, EdgesOf, Distances
<1>2. left \in Seq(Edge) /\ node \in settled /\ Left \subseteq EdgesOf(node)
  BY <1>1 DEF Running, Types
<1>3. left' \in Seq(Edge) /\ e \in Edge /\ Left = Left' \cup {e}
  BY <1>1, <1>2, HeadAndTail DEF Left
<1>4. Types' /\ HeapOrder'
  BY <1>1, <1>2, <1>3 DEF Running, Types, HeapOrder
<1>5. Pending' = Pending
  BY <1>1 DEF Pending, Queued
<1>6. Frontier'
  BY <1>1, <1>5 DEF Running, Frontier, Item
<1>7. e.to \in reached /\ dist[e.to] <= dist[node] + e.meters
  <2>1. /\ e.to \in reached /\ ~(dist[node] + e.meters < dist[e.to])
        /\ dist[e.to] \in Nat /\ dist[node] \in Nat /\ e.meters \in Nat
    BY <1>1, <1>2, <1>3 DEF Shorter, Running, Types, Edge
  <2> QED
    BY ONLY <2>1
<1>8. Relaxed'
  <2> HIDE DEF e
  <2> SUFFICES ASSUME NEW n \in settled, NEW x \in EdgesOf(n)
               PROVE  \/ n = node /\ x \in Left'
                      \/ x.to \in reached /\ dist[x.to] <= dist[n] + x.meters
    BY <1>1 DEF Relaxed, EdgesOf
  <2>1. \/ n = node /\ x \in Left
        \/ x.to \in reached /\ dist[x.to] <= dist[n] + x.meters
    BY <1>1 DEF Running, Relaxed
  <2> QED
    BY <1>3, <1>7, <2>1
<1>9. Ending' /\ DistancesAreReal'
  BY <1>1 DEF Running, Ending, DistancesAreReal, EdgesOf
<1> QED
  BY <1>4, <1>6, <1>8, <1>9 DEF Running

LEMMA ExhaustedKeeps ==
    ASSUME Graph, Running, Exhausted
    PROVE  Running'
<1>1. /\ Nodes' = Nodes /\ Items' = Items /\ Edge' = Edge
      /\ heap' = heap /\ carried' = carried /\ hole' = hole /\ popped' = popped
      /\ left' = left /\ node' = node /\ out' = out /\ source' = source /\ target' = target
      /\ dist' = dist /\ previous' = previous /\ reached' = reached /\ settled' = settled
      /\ Left' = Left /\ EdgesOf(node)' = EdgesOf(node)
      /\ step = "relax" /\ step' = "none" /\ left = <<>> /\ heap = <<>> /\ Len(heap) = 0
  BY SameGraph, EmptySeq DEF Exhausted, labelVars, graphVars, heapVars, Left, EdgesOf
<1>2. Types' /\ HeapOrder'
  BY <1>1 DEF Running, Types, HeapOrder
<1>3. Pending = {} /\ Pending' = {}
  BY <1>1 DEF Pending, Queued
<1>4. Frontier' /\ settled = reached
  BY <1>1, <1>3 DEF Running, Types, Frontier
<1>5. Relaxed' /\ Ending' /\ DistancesAreReal'
  BY <1>1, <1>4 DEF Running, Relaxed, Ending, DistancesAreReal, EdgesOf
<1> QED
  BY <1>2, <1>4, <1>5 DEF Running

LEMMA BuildPathKeeps ==
    ASSUME Graph, Running, BuildPath
    PROVE  Running'
<1>1. /\ Nodes' = Nodes /\ Items' = Items /\ Edge' = Edge
      /\ heap' = heap /\ carried' = carried /\ hole' = hole /\ popped' = popped
      /\ left' = left /\ node' = node /\ out' = out /\ source' = source /\ target' = target
      /\ dist' = dist /\ previous' = previous /\ reached' = reached /\ settled' = settled
      /\ Left' = Left /\ EdgesOf(node)' = EdgesOf(node)
      /\ step = "found" /\ step' = "done"
  BY SameGraph DEF BuildPath, labelVars, graphVars, heapVars, Left, EdgesOf
<1>2. Types' /\ HeapOrder'
  BY <1>1 DEF Running, Types, HeapOrder
<1>3. Pending' = Pending
  BY <1>1 DEF Pending, Queued
<1>4. Frontier'
  BY <1>1, <1>3 DEF Running, Frontier, Item
<1>5. Relaxed' /\ Ending' /\ DistancesAreReal'
  BY <1>1 DEF Running, Relaxed, Ending, DistancesAreReal, EdgesOf
<1> QED
  BY <1>2, <1>4, <1>5 DEF Running

LEMMA ShortensKeeps ==
    ASSUME Graph, Running, Shortens
    PROVE  Running' \/ step' = "failed"
<1> DEFINE e == Head(left)
           d == dist[node] + e.meters
<1>1. SUFFICES ASSUME step' # "failed" PROVE Running'
  OBVIOUS
<1>2. /\ step = "relax" /\ step' = "up" /\ left # <<>> /\ left' = Tail(left) /\ Shorter(e)
      /\ heap' = Append(heap, Item(e.to, d)) /\ carried' = Item(e.to, d) /\ hole' = Len(heap) + 1
      /\ reached' = reached \cup {e.to}
      /\ dist' = [dist EXCEPT ![e.to] = d] /\ previous' = [previous EXCEPT ![e.to] = node]
  BY <1>1 DEF Shortens, Pushes
<1>3. /\ Nodes' = Nodes /\ Items' = Items /\ Edge' = Edge
      /\ node' = node /\ out' = out /\ source' = source /\ target' = target
      /\ settled' = settled /\ popped' = popped /\ EdgesOf(node)' = EdgesOf(node)
  BY SameGraph DEF Shortens, graphVars, EdgesOf
<1>4. /\ left \in Seq(Edge) /\ node \in settled /\ Left \subseteq EdgesOf(node)
      /\ heap \in Seq(Items) /\ dist \in [Nodes -> Nat] /\ DOMAIN previous = Nodes
      /\ settled \subseteq reached /\ reached \subseteq Nodes /\ node \in Nodes
  BY <1>2 DEF Running, Types
<1>5. left' \in Seq(Edge) /\ e \in Edge /\ Left = Left' \cup {e} /\ e \in EdgesOf(node)
  BY <1>2, <1>4, HeadAndTail DEF Left
<1>6. e.to \in Nodes /\ e.meters \in Nat /\ d \in Nat /\ Item(e.to, d) \in Items
  BY <1>4, <1>5 DEF Edge, Items, Item
<1> HIDE DEF e, d
<1>7. /\ heap' \in Seq(Items) /\ heap' # <<>> /\ Len(heap') = Len(heap) + 1 /\ Len(heap) \in Nat
      /\ \A i \in 1..Len(heap) : heap'[i] = heap[i]
      /\ heap'[Len(heap) + 1] = Item(e.to, d)
  BY <1>2, <1>4, <1>6, AppendProperties, LenProperties
<1>8. \A n \in settled : dist[n] <= dist[node]
  BY <1>2 DEF Running, Frontier
<1>9. dist[node] <= d
  BY <1>4, <1>5, <1>6 DEF d
<1>10. e.to \notin reached \/ d < dist[e.to]
  BY <1>2 DEF Shorter, d
<1>11. e.to \notin settled
  <2>1. SUFFICES ASSUME e.to \in settled PROVE FALSE
    OBVIOUS
  <2>2. d < dist[e.to] /\ dist[e.to] <= dist[node]
    BY <1>4, <1>8, <1>10, <2>1
  <2>3. dist[e.to] \in Nat /\ dist[node] \in Nat
    BY <1>4, <1>6
  <2> QED
    BY <1>6, <1>9, <2>2, <2>3
<1>12. /\ dist' \in [Nodes -> Nat] /\ DOMAIN previous' = Nodes
       /\ dist'[e.to] = d /\ previous'[e.to] = node
       /\ \A n \in Nodes : n # e.to => dist'[n] = dist[n] /\ previous'[n] = previous[n]
       /\ \A n \in settled : n \in Nodes /\ n # e.to /\ dist'[n] = dist[n]
       /\ \A n \in reached : dist'[n] <= dist[n]
  <2>1. /\ dist' \in [Nodes -> Nat] /\ DOMAIN previous' = Nodes
        /\ dist'[e.to] = d /\ previous'[e.to] = node
        /\ \A n \in Nodes : n # e.to => dist'[n] = dist[n] /\ previous'[n] = previous[n]
    BY <1>2, <1>4, <1>6
  <2>2. \A n \in settled : n \in Nodes /\ n # e.to
    BY <1>4, <1>11
  <2>3. ASSUME NEW n \in reached PROVE dist'[n] <= dist[n]
    <3>1. n \in Nodes /\ dist[n] \in Nat
      BY <1>4
    <3>2. CASE n = e.to
      BY <1>6, <1>10, <2>1, <3>1, <3>2
    <3>3. CASE n # e.to
      BY <2>1, <3>1, <3>3
    <3> QED
      BY <3>2, <3>3
  <2> QED
    BY <2>1, <2>2, <2>3
<1>13. Types'
  <2>1. hole' \in Nat /\ hole' \in 1..Len(heap')
    BY <1>2, <1>7
  <2>2. Left' \subseteq EdgesOf(node)'
    BY <1>3, <1>4, <1>5
  <2> QED
    BY <1>2, <1>3, <1>4, <1>5, <1>6, <1>7, <1>12, <2>1, <2>2 DEF Types
<1>14. HeapOrder'
  <2>1. PICK m : m = Len(heap)
    OBVIOUS
  <2>2. m \in Nat /\ Ordered(m, Distances)
    BY <1>2, <1>7, <2>1 DEF Running, HeapOrder
  <2>3. Len(heap') = m + 1 /\ hole' = m + 1
    BY <1>2, <1>7, <2>1
  <2>4. \A i \in 1..m : Distances'[i] = Distances[i]
    BY <1>7, <2>1, <2>2, <2>3 DEF Distances
  <2>5. \A i \in 2..m+1 : i \div 2 # m + 1 /\ (i # m + 1 => i \in 2..m /\ i \in 1..m /\ i \div 2 \in 1..m)
    BY <2>2
  <2>6. OrderedUp(m + 1, Distances', m + 1, d)
    BY <2>2, <2>4, <2>5 DEF OrderedUp, OrderedAround, Ordered
  <2>7. carried'.distance = d
    BY <1>2 DEF Item
  <2> QED
    BY <1>2, <2>3, <2>6, <2>7 DEF HeapOrder
<1>15. Pending' = Pending \cup {Item(e.to, d)} /\ Queued' = Queued \cup {Item(e.to, d)}
  <2>1. PICK m : m = Len(heap)
    OBVIOUS
  <2>2. 1..(m + 1) \ {m + 1} = 1..m /\ m \in Nat
    BY <1>7, <2>1
  <2>3. Queued' = {heap'[i] : i \in 1..(m + 1) \ {m + 1}} \cup {carried'}
    BY <1>2, <1>7, <2>1 DEF Queued
  <2>4. {heap'[i] : i \in 1..m} = {heap[i] : i \in 1..m}
    BY <1>7, <2>1
  <2>5. Queued = {heap[i] : i \in 1..m}
    BY <1>2, <2>1 DEF Queued
  <2>6. Pending = Queued /\ Pending' = Queued'
    BY <1>2 DEF Pending
  <2> QED
    BY <1>2, <2>2, <2>3, <2>4, <2>5, <2>6
<1>16. Frontier'
  <2>1. ASSUME NEW n \in reached' \ settled PROVE Item(n, dist'[n]) \in Pending'
    <3>1. CASE n = e.to
      BY <1>12, <1>15, <3>1
    <3>2. CASE n # e.to
      <4>1. n \in reached \ settled /\ n \in Nodes
        BY <1>2, <1>4, <3>2
      <4> QED
        BY <1>12, <1>15, <3>2, <4>1 DEF Running, Frontier
    <3> QED
      BY <3>1, <3>2
  <2>2. ASSUME NEW item \in Pending'
        PROVE  /\ item.node \in reached'
               /\ dist'[item.node] <= item.distance
               /\ \A n \in settled : dist'[n] <= item.distance
    <3>1. CASE item = Item(e.to, d)
      <4>1. item.node = e.to /\ item.distance = d
        BY <3>1 DEF Item
      <4>2. ASSUME NEW n \in settled PROVE dist'[n] <= d
        <5>1. dist'[n] = dist[n] /\ dist[n] <= dist[node] /\ dist[n] \in Nat /\ dist[node] \in Nat
          BY <1>4, <1>8, <1>12
        <5> QED
          BY <1>6, <1>9, <5>1
      <4> QED
        BY <1>2, <1>6, <1>12, <4>1, <4>2
    <3>2. CASE item \in Pending
      <4>1. /\ item.node \in reached /\ dist[item.node] <= item.distance
            /\ \A n \in settled : dist[n] <= item.distance
        BY <3>2 DEF Running, Frontier
      <4>2. item.distance \in Nat /\ dist[item.node] \in Nat /\ dist'[item.node] \in Nat
        <5>1. item \in Items
          <6>1. \A i \in 1..Len(heap) : heap[i] \in Items
            BY <1>4, DistancesType
          <6>2. item \in {heap[i] : i \in 1..Len(heap)}
            BY <1>2, <3>2 DEF Pending, Queued
          <6> QED
            BY <6>1, <6>2
        <5> QED
          BY <1>4, <1>12, <5>1 DEF Items
      <4>3. dist'[item.node] <= dist[item.node]
        BY <1>12, <4>1
      <4> QED
        BY <1>2, <1>12, <4>1, <4>2, <4>3
    <3> QED
      BY <1>15, <3>1, <3>2
  <2>3. \A n \in settled : dist'[n] <= dist'[node]
    BY <1>4, <1>8, <1>12
  <2> QED
    BY <1>2, <1>3, <2>1, <2>2, <2>3 DEF Frontier, Item
<1>17. Relaxed'
  <2> SUFFICES ASSUME NEW n \in settled, NEW x \in EdgesOf(n)
               PROVE  \/ n = node /\ x \in Left'
                      \/ x.to \in reached' /\ dist'[x.to] <= dist'[n] + x.meters
    BY <1>3 DEF Relaxed, EdgesOf
  <2>1. n \in Nodes /\ dist'[n] = dist[n] /\ x.to \in Nodes /\ x.meters \in Nat
    <3>1. n \in Nodes /\ dist'[n] = dist[n] /\ out[n] \in Seq(Edge)
      BY <1>12 DEF Graph
    <3>2. x \in Edge
      BY <3>1, ElementOfSeq, LenProperties DEF EdgesOf
    <3> QED
      BY <3>1, <3>2 DEF Edge
  <2>2. CASE n = node /\ x = e
    BY <1>2, <1>12, <1>6, <2>1, <2>2 DEF d
  <2>3. CASE n = node /\ x \in Left'
    BY <2>3
  <2>4. CASE x.to \in reached /\ dist[x.to] <= dist[n] + x.meters
    <3>1. dist'[x.to] <= dist[x.to]
      BY <1>12, <2>4
    <3>2. dist'[x.to] \in Nat /\ dist[x.to] \in Nat /\ dist[n] \in Nat
      BY <1>4, <1>12, <2>1
    <3> QED
      BY <1>2, <2>1, <2>4, <3>1, <3>2
  <2>5. (n = node /\ x \in Left) \/ (x.to \in reached /\ dist[x.to] <= dist[n] + x.meters)
    BY <1>2 DEF Running, Relaxed
  <2> QED
    BY <1>5, <2>2, <2>3, <2>4, <2>5
<1>18. Ending'
  BY <1>2, <1>3 DEF Running, Ending
<1>19. DistancesAreReal'
  <2>1. source \in reached /\ dist[source] = 0 /\ source \in Nodes
    BY <1>2, <1>4 DEF Running, DistancesAreReal
  <2>2. e.to # source
    BY <1>6, <1>10, <2>1
  <2>3. ASSUME NEW n \in reached' \ {source}
        PROVE  /\ previous'[n] \in settled
               /\ \E x \in EdgesOf(previous'[n]) : x.to = n /\ dist'[n] = dist'[previous'[n]] + x.meters
    <3>1. CASE n = e.to
      BY <1>4, <1>5, <1>12, <3>1 DEF d
    <3>2. CASE n # e.to
      <4>1. n \in reached \ {source} /\ n \in Nodes
        BY <1>2, <1>4, <2>3, <3>2
      <4>2. /\ previous[n] \in settled
            /\ \E x \in EdgesOf(previous[n]) : x.to = n /\ dist[n] = dist[previous[n]] + x.meters
        BY <1>2, <4>1 DEF Running, DistancesAreReal
      <4> QED
        BY <1>12, <3>2, <4>1, <4>2
    <3> QED
      BY <3>1, <3>2
  <2> QED
    BY <1>2, <1>3, <1>12, <2>1, <2>2, <2>3 DEF DistancesAreReal, EdgesOf
<1> QED
  BY <1>13, <1>14, <1>16, <1>17, <1>18, <1>19 DEF Running

LEMMA StartSearchKeeps ==
    ASSUME Graph, SearchIdle, StartSearch
    PROVE  Running' \/ step' = "failed"
<1>1. SUFFICES ASSUME step' # "failed" PROVE Running'
  OBVIOUS
<1>2. /\ step' = "up" /\ heap' = <<Item(source, 0)>> /\ carried' = Item(source, 0) /\ hole' = 1
      /\ left = <<>> /\ left' = <<>> /\ reached' = {source} /\ settled' = {}
      /\ dist' = [n \in Nodes |-> 0] /\ previous' = [n \in Nodes |-> 0]
      /\ Nodes' = Nodes /\ Items' = Items /\ Edge' = Edge
      /\ source' = source /\ target' = target /\ out' = out /\ source \in Nodes
  <2>1. heap = <<>> /\ Append(heap, Item(source, 0)) = <<Item(source, 0)>> /\ Len(heap) + 1 = 1
    BY DEF SearchIdle
  <2> QED
    BY <1>1, <2>1, SameGraph DEF StartSearch, Pushes, SearchIdle, Graph, graphVars
<1>3. /\ Item(source, 0) \in Items /\ heap' \in Seq(Items) /\ Len(heap') = 1 /\ heap' # <<>>
  BY <1>2 DEF Items, Item
<1>4. Types'
  BY <1>2, <1>3 DEF Types
<1>5. HeapOrder'
  BY <1>2, <1>3 DEF HeapOrder, OrderedUp, OrderedAround
<1>6. Pending' = {Item(source, 0)}
  BY <1>2, <1>3 DEF Pending, Queued
<1>7. Frontier'
  BY <1>2, <1>6 DEF Frontier, Item
<1>8. Relaxed' /\ Ending' /\ DistancesAreReal'
  BY <1>2 DEF Relaxed, Ending, DistancesAreReal
<1> QED
  BY <1>4, <1>5, <1>7, <1>8 DEF Running

-----------------------------------------------------------------------------
(***************************************************************************)
(* Theorems.                                                               *)
(***************************************************************************)
\* Every step of a search keeps the invariant.
LEMMA SearchStepKeeps ==
    ASSUME SearchInv, [SearchNext]_searchVars
    PROVE  SearchInv'
<1>1. ASSUME SearchNext PROVE UNCHANGED graphVars
  BY <1>1 DEF SearchNext, SearchStep, StartSearch, MoveUp, Pushed, Pop, MoveDown, Popped, Outdated, Settle,
              Shortens, PassesBy, Exhausted, BuildPath
<1>2. CASE UNCHANGED searchVars
  <2>1. /\ Nodes' = Nodes /\ Items' = Items /\ Edge' = Edge /\ Queued' = Queued /\ Pending' = Pending
        /\ Left' = Left /\ Distances' = Distances
        /\ step' = step /\ heap' = heap /\ capacity' = capacity /\ hole' = hole /\ carried' = carried
        /\ popped' = popped /\ node' = node /\ left' = left /\ out' = out /\ source' = source
        /\ target' = target /\ dist' = dist /\ previous' = previous /\ reached' = reached
        /\ settled' = settled /\ path' = path
    BY <1>2 DEF searchVars, graphVars, heapVars, labelVars, Nodes, Items, Edge, Left, Queued, Pending, Distances
  <2>2. /\ SearchIdle => SearchIdle'
        /\ Graph => Graph'
        /\ Types => Types'
        /\ HeapOrder => HeapOrder'
    BY <2>1 DEF SearchIdle, Graph, Types, HeapOrder, EdgesOf
  <2>3. /\ Frontier => Frontier'
        /\ Relaxed => Relaxed'
        /\ Ending => Ending'
        /\ DistancesAreReal => DistancesAreReal'
    BY <2>1 DEF Frontier, Item, Relaxed, Ending, DistancesAreReal, EdgesOf
  <2>4. (step = "failed") => (step' = "failed")
    BY <2>1
  <2>5. Running => Running'
    BY <2>2, <2>3, Zenon DEF Running
  <2>6. SearchInv => SearchInv'
    BY <2>2, <2>4, <2>5, Zenon DEF SearchInv
  <2> QED
    BY <2>6
<1>3. CASE SearchNext
  <2>1. Graph /\ Graph'
    BY <1>1, <1>3 DEF SearchInv, Graph, graphVars, Nodes, Edge
  <2>2. CASE SearchIdle
    <3>1. StartSearch
      BY <1>3, <2>2 DEF SearchNext, SearchIdle, SearchStep, MoveUp, Pushed, Pop, MoveDown, Popped, Outdated,
                        Settle, Shortens, PassesBy, Exhausted, BuildPath
    <3> QED
      BY <2>1, <2>2, <3>1, StartSearchKeeps DEF SearchInv
  <2>3. CASE step = "failed"
    BY <1>3, <2>3 DEF SearchNext, SearchStep, StartSearch, MoveUp, Pushed, Pop, MoveDown, Popped, Outdated,
                      Settle, Shortens, PassesBy, Exhausted, BuildPath
  <2>4. CASE Running
    <3>1. ~StartSearch
      BY <2>4 DEF Running, Types, StartSearch
    <3> QED
      BY <1>3, <2>1, <2>4, <3>1, MoveUpKeeps, PushedKeeps, PopKeeps, MoveDownKeeps, PoppedKeeps, OutdatedKeeps,
         SettleKeeps, ShortensKeeps, PassesByKeeps, ExhaustedKeeps, BuildPathKeeps
         DEF SearchInv, SearchNext, SearchStep
  <2> QED
    BY <2>2, <2>3, <2>4 DEF SearchInv
<1> QED
  BY <1>2, <1>3

\* The invariant is inductive: it holds of every search over every graph.
THEOREM SearchInvariant == SearchSpec => []SearchInv
<1>1. Graph /\ SearchIdle => SearchInv
  BY DEF SearchInv
<1>2. SearchInv /\ [SearchNext]_searchVars => SearchInv'
  BY SearchStepKeeps
<1> QED
  BY <1>1, <1>2, PTL DEF SearchSpec

\* The predecessors of dijkstra always lead along edges that make up the
\* distances, whatever graph is loaded and however the heap is ordered.
THEOREM PredecessorsAreReal == SearchSpec => []DistancesAreReal
<1>1. SearchInv => DistancesAreReal
  BY DEF SearchInv, Running, SearchIdle, DistancesAreReal
<1> QED
  BY <1>1, SearchInvariant, PTL

\* Relaxed and Ending make the certificate.
LEMMA CertificateOfInvariant == SearchInv => NothingNearer
<1> SUFFICES ASSUME SearchInv, step \in {"found", "done", "none"} PROVE NothingNearer
  BY DEF NothingNearer
<1>1. Running /\ Graph
  BY DEF SearchInv, SearchIdle
<1>2. /\ dist \in [Nodes -> Nat] /\ reached \subseteq Nodes /\ settled \subseteq reached
      /\ source \in reached /\ dist[source] = 0 /\ source \in Nodes /\ target \in Nodes
  BY <1>1 DEF Running, Types, DistancesAreReal, Graph
<1>3. \A n \in Nodes : Cut(n) \in Nat /\ Cut(n) <= dist[target]
  BY <1>2 DEF Cut
<1>4. ASSUME NEW n \in Nodes, NEW e \in EdgesOf(n) PROVE e.to \in Nodes /\ e.meters \in Nat
  <2>1. e \in Edge
    BY <1>1, <1>4, ElementOfSeq, LenProperties DEF Graph, EdgesOf
  <2> QED
    BY <2>1 DEF Edge
<1>5. CASE step = "none"
  BY <1>1, <1>2, <1>5 DEF Running, Relaxed, Ending, Types, NothingNearer, Left
<1>6. CASE step \in {"found", "done"}
  <2>1. Cut(source) = 0
    BY <1>2 DEF Cut
  <2>2. ASSUME NEW n \in Nodes, NEW e \in EdgesOf(n) PROVE Cut(e.to) <= Cut(n) + e.meters
    <3>0. e.to \in Nodes /\ e.meters \in Nat /\ dist[target] \in Nat /\ dist[n] \in Nat /\ dist[e.to] \in Nat
      BY <1>2, <1>4, <2>2
    <3>1. CASE n \in reached /\ dist[n] < dist[target]
      <4>1. n \in settled /\ n # target /\ Left = {} /\ Cut(n) = dist[n]
        BY <1>1, <1>2, <1>6, <3>0, <3>1 DEF Running, Ending, Types, Left, Cut
      <4>2. e.to \in reached /\ dist[e.to] <= dist[n] + e.meters
        BY <1>1, <4>1 DEF Running, Relaxed
      <4> QED
        BY <3>0, <4>1, <4>2 DEF Cut
    <3>2. CASE ~(n \in reached /\ dist[n] < dist[target])
      <4>1. Cut(n) = dist[target] /\ Cut(e.to) <= dist[target]
        BY <1>3, <3>0, <3>2 DEF Cut
      <4> QED
        BY <1>3, <3>0, <4>1
    <3> QED
      BY <3>1, <3>2
  <2> QED
    BY <1>6, <2>1, <2>2 DEF NothingNearer
<1> QED
  BY <1>5, <1>6

\* When dijkstra ends its labels are a certificate that no way is shorter.
THEOREM CertificateHolds == SearchSpec => []NothingNearer
BY CertificateOfInvariant, SearchInvariant, PTL

\* A walk of k edges from the source to the target, with its length so far.
IsWalk(k, p, length) ==
    /\ p \in [0..k -> Nodes] /\ length \in [0..k -> Nat]
    /\ p[0] = source /\ length[0] = 0 /\ p[k] = target
    /\ \A i \in 1..k : \E e \in EdgesOf(p[i - 1]) :
          e.to = p[i] /\ length[i] = length[i - 1] + e.meters

\* The distance that the search ends with is no longer than any walk, and it
\* ends without one only if there is no walk.
NoShorterWalk ==
    \A k \in Nat : \A p, length : IsWalk(k, p, length) =>
        /\ step \in {"found", "done"} => dist[target] <= length[k]
        /\ step # "none"

\* What holds at the start of a walk and is kept by its steps holds at the end.
LEMMA AlongWalk ==
    ASSUME NEW k \in Nat, NEW T \in SUBSET (0..k), 0 \in T,
           \A i \in 1..k : i - 1 \in T => i \in T
    PROVE  k \in T
<1> DEFINE U == {i \in 0..k : i \notin T}
<1>1. SUFFICES ASSUME U # {} PROVE FALSE
  OBVIOUS
<1>2. PICK x \in U : \A y \in U : x <= y
  <2>1. U \in SUBSET Nat
    OBVIOUS
  <2> HIDE DEF U
  <2> QED
    BY <1>1, <2>1, LeastNat
<1>3. x \in 1..k /\ x - 1 \in 0..k
  BY <1>2
<1>4. x - 1 \in U
  BY <1>2, <1>3
<1> QED
  BY <1>2, <1>3, <1>4

\* The route that rte-route prints is as short as any over the loaded graph.
THEOREM ShortestOfAllWalks == SearchSpec => []NoShorterWalk
<1>1. SearchInv => NothingNearer
  BY CertificateOfInvariant
<1>2. SearchInv => NoShorterWalk
  <2> SUFFICES ASSUME SearchInv, NEW k \in Nat, NEW p, NEW length, IsWalk(k, p, length)
               PROVE  /\ step \in {"found", "done"} => dist[target] <= length[k]
                      /\ step # "none"
    BY DEF NoShorterWalk
  <2>1. NothingNearer
    BY <1>1
  <2>2. /\ p \in [0..k -> Nodes] /\ length \in [0..k -> Nat]
        /\ p[0] = source /\ length[0] = 0 /\ p[k] = target
    BY DEF IsWalk
  <2>3. ASSUME NEW i \in 1..k
        PROVE  /\ i - 1 \in 0..k /\ i \in 0..k
               /\ \E e \in EdgesOf(p[i - 1]) : e.to = p[i] /\ length[i] = length[i - 1] + e.meters
    BY DEF IsWalk
  <2>4. CASE step = "none"
    <3> DEFINE T == {i \in 0..k : p[i] \in reached}
    <3>1. 0 \in T
      BY <2>1, <2>2, <2>4 DEF NothingNearer
    <3>2. ASSUME NEW i \in 1..k, i - 1 \in T PROVE i \in T
      BY <2>1, <2>3, <2>4, <3>2 DEF NothingNearer
    <3>3. k \in T
      <4> HIDE DEF T
      <4>1. T \in SUBSET (0..k)
        BY DEF T
      <4> QED
        BY <3>1, <3>2, <4>1, AlongWalk
    <3> QED
      BY <2>1, <2>2, <2>4, <3>3 DEF NothingNearer
  <2>5. CASE step \in {"found", "done"}
    <3>1. Running /\ dist \in [Nodes -> Nat] /\ target \in Nodes
      BY <2>5 DEF SearchInv, SearchIdle, Running, Types, Graph
    <3>2. \A n \in Nodes : Cut(n) \in Nat
      BY <3>1 DEF Cut
    <3> DEFINE T == {i \in 0..k : Cut(p[i]) <= length[i]}
    <3>3. 0 \in T
      BY <2>1, <2>2, <2>5 DEF NothingNearer
    <3>4. ASSUME NEW i \in 1..k, i - 1 \in T PROVE i \in T
      <4>1. PICK e \in EdgesOf(p[i - 1]) : e.to = p[i] /\ length[i] = length[i - 1] + e.meters
        BY <2>3
      <4>2. p[i - 1] \in Nodes /\ p[i] \in Nodes /\ i \in 0..k /\ i - 1 \in 0..k
        BY <2>2, <2>3
      <4>3. Cut(e.to) <= Cut(p[i - 1]) + e.meters
        BY <2>1, <2>5, <4>2 DEF NothingNearer
      <4>4. e.meters \in Nat
        <5>1. e \in Edge
          BY <4>2, ElementOfSeq, LenProperties DEF SearchInv, Graph, EdgesOf
        <5> QED
          BY <5>1 DEF Edge
      <4>5. Cut(p[i - 1]) <= length[i - 1]
        BY <3>4
      <4>6. /\ Cut(p[i - 1]) \in Nat /\ Cut(p[i]) \in Nat
            /\ length[i - 1] \in Nat /\ length[i] \in Nat
        BY <2>2, <3>2, <4>2
      <4>7. Cut(p[i]) <= length[i]
        BY ONLY <4>1, <4>3, <4>4, <4>5, <4>6
      <4> QED
        BY <4>2, <4>7
    <3>5. k \in T
      <4> HIDE DEF T
      <4>1. T \in SUBSET (0..k)
        BY DEF T
      <4> QED
        BY <3>3, <3>4, <4>1, AlongWalk
    <3>6. Cut(target) = dist[target]
      BY DEF Cut
    <3> QED
      BY <2>2, <2>5, <3>5, <3>6
  <2> QED
    BY <2>4, <2>5
<1> QED
  BY <1>2, SearchInvariant, PTL

-----------------------------------------------------------------------------
(***************************************************************************)
(* The public transport suggestion: the inductive invariant.               *)
(***************************************************************************)
Kinds == {"none", "origin", "vehicle", "walk"}

\* What a label says of how its stop is reached.  The label of the stop before
\* may have been overwritten since, but only by an earlier arrival.
Leads(t) ==
    LET before == label[t].from
    IN  /\ before \in Stops /\ label[before].kind # "none"
        /\ label[t].departure \in Nat
        /\ label[before].arrival <= label[t].departure
        /\ label[t].departure <= label[t].arrival
        /\ IF label[t].kind = "vehicle" THEN Rideable(LegTo(t)) ELSE Walkable(LegTo(t))

LabelSound(t) ==
    /\ label[t].arrival \in Nat /\ label[t].kind \in Kinds
    /\ label[t].kind = "none" => label[t].arrival = Inf
    /\ label[t].kind = "origin" => t \in DOMAIN Access /\ label[t].arrival = Depart + Access[t]
    /\ label[t].kind \in {"vehicle", "walk"} => Leads(t)

\* The labels a round starts from are still met.
BaseMet ==
    \A s \in Stops :
        /\ base[s].arrival \in Nat /\ label[s].arrival <= base[s].arrival
        /\ base[s].arrival # Inf => label[s].kind # "none"

\* Every label comes after the one it was made from: by its arrival or, where
\* those are the same, by when it was written.
Ranked(rank, bound) ==
    /\ rank \in [Stops -> Nat] /\ bound \in Nat
    /\ \A s \in Stops : rank[s] <= bound
    /\ \A t \in Stops : label[t].kind \in {"vehicle", "walk"} =>
          \/ label[label[t].from].arrival < label[t].arrival
          \/ label[label[t].from].arrival = label[t].arrival /\ rank[label[t].from] < rank[t]

Orderly == \E rank, bound : Ranked(rank, bound)

TransitTypes ==
    /\ timetable \in Seq(Seq(StopEvent)) /\ trips \subseteq DOMAIN timetable
    /\ pc \in {"idle", "scan", "walk", "build", "arrive", "planned"}
    /\ trip \in Nat \ {0} /\ event \in Nat \ {0}
    /\ DOMAIN label = Stops /\ DOMAIN base = Stops
    /\ changed \in Seq(Stops)

BoardSound ==
    board # NoBoard =>
        /\ trip \in trips /\ board.at \in 1..(event - 1) /\ board.at \in DOMAIN timetable[trip]
        /\ board.stop = timetable[trip][board.at].stop
        /\ board.departure = timetable[trip][board.at].departure
        /\ pc = "scan" => /\ base[board.stop].arrival # Inf
                          /\ base[board.stop].arrival <= board.departure
        /\ pc = "arrive" => /\ board.stop \in DOMAIN Access
                            /\ Access[board.stop] <= board.departure

\* What PlanRidable says, of a plan that was found.
PlanSound ==
    LET legs == plan.legs
        first == legs[1]
        last == legs[Len(legs)]
        start == IF query.when = "arrive" THEN Deadline - plan.total ELSE Depart
        end == last.arrival + Egress[last.alight]
    IN  /\ \A i \in DOMAIN legs : Rideable(legs[i]) \/ Walkable(legs[i])
        /\ \A i \in 2..Len(legs) :
              legs[i].board = legs[i - 1].alight /\ legs[i].departure >= legs[i - 1].arrival
        /\ first.board \in DOMAIN Access /\ last.alight \in DOMAIN Egress
        /\ start >= 0 /\ start + Access[first.board] <= first.departure
        /\ IF query.when = "arrive" THEN end <= Deadline ELSE end = start + plan.total

Fresh ==
    /\ pc = "idle" /\ board = NoBoard /\ plan = NoPlan /\ changed = <<>>
    /\ label = [s \in Stops |-> OriginLabel(s)] /\ base = label

TransitInv ==
    /\ TransitTypes
    /\ \A t \in Stops : LabelSound(t)
    /\ BaseMet
    /\ Orderly
    /\ \A i \in DOMAIN changed : label[changed[i]].kind # "none"
    /\ BoardSound
    /\ pc = "idle" => board = NoBoard
    /\ pc \in {"scan", "walk", "build"} => query.when # "arrive"
    /\ pc = "arrive" => query.when = "arrive"
    /\ pc \in {"idle", "scan", "walk", "build"} => ~plan.found
    /\ plan.found => PlanSound

QueryInv ==
    /\ query \in Queries
    /\ phase = "open" => Fresh
    /\ TransitInv

-----------------------------------------------------------------------------
\* Labels of some stops are replaced by earlier arrivals, each of them made from
\* a label that stays.
Improved(W) ==
    /\ W \in SUBSET Stops
    /\ DOMAIN label' = Stops /\ UNCHANGED <<timetable, trips, base>>
    /\ \A t \in Stops \ W : label'[t] = label[t]
    /\ \A t \in W :
          /\ label'[t].kind \in {"vehicle", "walk"}
          /\ label'[t].arrival \in Nat /\ label'[t].arrival < label[t].arrival
          /\ label'[t].departure \in Nat
          /\ label'[t].from \in Stops \ W
          /\ label[label'[t].from].kind # "none"
          /\ label[label'[t].from].arrival <= label'[t].departure
          /\ label'[t].departure <= label'[t].arrival
          /\ IF label'[t].kind = "vehicle" THEN Rideable(LegTo(t)') ELSE Walkable(LegTo(t)')

LEMMA ImprovedLabels ==
    ASSUME \A t \in Stops : LabelSound(t), BaseMet, Orderly, NEW W, Improved(W)
    PROVE  /\ \A t \in Stops : LabelSound(t)'
           /\ BaseMet' /\ Orderly'
           /\ \A s \in Stops : label[s].kind # "none" => label'[s].kind # "none"
<1>1. ASSUME NEW s \in Stops
      PROVE  /\ label'[s].arrival \in Nat /\ label[s].arrival \in Nat
             /\ label'[s].arrival <= label[s].arrival
             /\ label[s].kind # "none" => label'[s].kind # "none"
             /\ label'[s].kind \in Kinds
             /\ label'[s].kind = "none" => label'[s].arrival = Inf
  <2>1. LabelSound(s)
    OBVIOUS
  <2>2. CASE s \in W
    BY <2>1, <2>2 DEF Improved, LabelSound, Kinds
  <2>3. CASE s \notin W
    BY <2>1, <2>3 DEF Improved, LabelSound
  <2> QED
    BY <2>2, <2>3
<1>2. \A leg : /\ Rideable(leg)' <=> Rideable(leg)
               /\ Walkable(leg)' <=> Walkable(leg)
  BY DEF Improved, Rideable, Walkable
<1>3. ASSUME NEW t \in Stops PROVE LabelSound(t)'
  <2>1. CASE t \in W
    <3>1. /\ label'[t].kind \in {"vehicle", "walk"}
          /\ label'[t].departure \in Nat
          /\ label'[t].from \in Stops \ W
          /\ label[label'[t].from].kind # "none"
          /\ label[label'[t].from].arrival <= label'[t].departure
          /\ label'[t].departure <= label'[t].arrival
          /\ IF label'[t].kind = "vehicle" THEN Rideable(LegTo(t)') ELSE Walkable(LegTo(t)')
          /\ label'[label'[t].from] = label[label'[t].from]
      BY <2>1 DEF Improved
    <3>2. Leads(t)'
      BY <1>2, <3>1 DEF Leads
    <3> QED
      BY <1>1, <3>1, <3>2 DEF LabelSound
  <2>2. CASE t \notin W
    <3>1. LabelSound(t) /\ label'[t] = label[t] /\ LegTo(t)' = LegTo(t)
      BY <2>2 DEF Improved, LegTo
    <3>2. ASSUME label[t].kind \in {"vehicle", "walk"} PROVE Leads(t)'
      <4>1. Leads(t)
        BY <3>1, <3>2 DEF LabelSound
      <4>2. label'[t].from \in Stops /\ label[t].departure \in Nat
        BY <3>1, <4>1 DEF Leads
      <4>3. /\ label'[label'[t].from].kind # "none"
            /\ label'[label'[t].from].arrival <= label'[t].departure
        BY <1>1, <3>1, <4>1, <4>2 DEF Leads
      <4> QED
        BY <1>2, <3>1, <4>1, <4>2, <4>3 DEF Leads
    <3> QED
      BY <1>1, <3>1, <3>2 DEF LabelSound
  <2> QED
    BY <2>1, <2>2
<1>4. BaseMet'
  <2>1. base' = base
    BY DEF Improved
  <2>2. ASSUME NEW s \in Stops
        PROVE  /\ base[s].arrival \in Nat /\ label'[s].arrival <= base[s].arrival
               /\ base[s].arrival # Inf => label'[s].kind # "none"
    BY <1>1 DEF BaseMet
  <2> QED
    BY <2>1, <2>2 DEF BaseMet
<1>5. Orderly'
  <2>1. PICK rank, bound : Ranked(rank, bound)
    BY DEF Orderly
  <2> DEFINE later == [t \in Stops |-> IF t \in W THEN bound + 1 ELSE rank[t]]
  <2>2. /\ later \in [Stops -> Nat] /\ bound + 1 \in Nat
        /\ \A s \in Stops : rank[s] \in Nat /\ rank[s] <= bound /\ later[s] <= bound + 1
        /\ bound \in Nat
    BY <2>1 DEF Ranked
  <2>3. ASSUME NEW t \in Stops, label'[t].kind \in {"vehicle", "walk"}
        PROVE  LET before == label'[t].from
               IN  \/ label'[before].arrival < label'[t].arrival
                   \/ label'[before].arrival = label'[t].arrival /\ later[before] < later[t]
    <3> DEFINE before == label'[t].from
    <3>1. CASE t \in W
      <4>1. /\ before \in Stops /\ before \notin W
            /\ label[before].arrival <= label'[t].departure
            /\ label'[t].departure <= label'[t].arrival
            /\ label'[t].departure \in Nat
            /\ label'[before] = label[before]
        BY <3>1 DEF Improved
      <4>2. later[before] = rank[before] /\ later[t] = bound + 1
        BY <3>1, <4>1
      <4> HIDE DEF before, later
      <4>3. label'[before].arrival <= label'[t].arrival /\ label'[before].arrival \in Nat /\ label'[t].arrival \in Nat
        BY <1>1, <4>1
      <4>4. later[before] < later[t]
        BY <2>2, <4>1, <4>2
      <4> QED
        BY <4>3, <4>4 DEF before
    <3>2. CASE t \notin W
      <4>1. label'[t] = label[t] /\ LabelSound(t)
        BY <3>2 DEF Improved
      <4>2. before \in Stops
        BY <2>3, <4>1 DEF LabelSound, Leads
      <4>3. \/ label[before].arrival < label[t].arrival
            \/ label[before].arrival = label[t].arrival /\ rank[before] < rank[t]
        BY <2>1, <2>3, <4>1 DEF Ranked
      <4>4. later[t] = rank[t]
        BY <3>2
      <4>5. CASE before \in W
        <5>1. label'[before].arrival < label[before].arrival
          BY <4>5 DEF Improved
        <5> HIDE DEF before, later
        <5>2. label'[before].arrival \in Nat /\ label[before].arrival \in Nat /\ label[t].arrival \in Nat
          BY <1>1, <4>2
        <5>3. label'[before].arrival < label[t].arrival
          BY <4>3, <5>1, <5>2
        <5> QED
          BY <4>1, <5>3 DEF before
      <4>6. CASE before \notin W
        <5>1. label'[before] = label[before] /\ later[before] = rank[before]
          BY <4>2, <4>6 DEF Improved
        <5> HIDE DEF before, later
        <5> QED
          BY <4>1, <4>3, <4>4, <5>1 DEF before
      <4> QED
        BY <4>5, <4>6
    <3> QED
      BY <3>1, <3>2
  <2> HIDE DEF later
  <2>4. Ranked(later, bound + 1)'
    BY <2>2, <2>3 DEF Ranked
  <2> QED
    BY <2>4 DEF Orderly
<1> QED
  BY <1>1, <1>3, <1>4, <1>5

LEMMA EventsOfTrips ==
    ASSUME TransitTypes, NEW i \in trips
    PROVE  /\ i \in DOMAIN timetable
           /\ timetable[i] \in Seq(StopEvent) /\ Len(timetable[i]) \in Nat
           /\ DOMAIN timetable[i] = 1..Len(timetable[i])
           /\ \A a \in 1..Len(timetable[i]) :
                 /\ timetable[i][a].stop \in Stops
                 /\ timetable[i][a].arrival \in Nat /\ timetable[i][a].departure \in Nat
<1>1. timetable \in Seq(Seq(StopEvent)) /\ i \in DOMAIN timetable
  BY DEF TransitTypes
<1>2. timetable[i] \in Seq(StopEvent)
  BY <1>1
<1>3. /\ Len(timetable[i]) \in Nat
      /\ DOMAIN timetable[i] = 1..Len(timetable[i])
      /\ \A a \in 1..Len(timetable[i]) : timetable[i][a] \in StopEvent
  BY <1>2
<1>4. \A e \in StopEvent : e.stop \in Stops /\ e.arrival \in Nat /\ e.departure \in Nat
  BY DEF StopEvent
<1> QED
  BY <1>1, <1>2, <1>3, <1>4

\* The parts of the invariant that an action has to do with.
LEMMA ScanKeeps ==
    ASSUME TransitInv, ScanEvent, query' = query
    PROVE  TransitInv'
<1>1. /\ TransitTypes /\ \A t \in Stops : LabelSound(t)
      /\ BaseMet /\ Orderly /\ BoardSound
      /\ pc = "scan" /\ trip \in trips /\ ~TripDone
      /\ UNCHANGED <<timetable, trips, pc, round, trip, base, plan>> /\ event' = event + 1
  BY DEF TransitInv, ScanEvent, ScanWith
<1>2. /\ event \in 1..Len(timetable[trip]) /\ DOMAIN timetable[trip] = 1..Len(timetable[trip])
      /\ Event = timetable[trip][event]
      /\ Event.stop \in Stops /\ Event.arrival \in Nat /\ Event.departure \in Nat
  <2>1. event \in Nat \ {0} /\ Len(timetable[trip]) \in Nat /\ ~(event > Len(timetable[trip]))
    BY <1>1, EventsOfTrips DEF TransitTypes, TripDone
  <2>2. event \in 1..Len(timetable[trip])
    BY <2>1
  <2> QED
    BY <1>1, <2>2, EventsOfTrips DEF Event
<1> DEFINE W == IF Alights THEN {Event.stop} ELSE {}
           new == [arrival |-> Event.arrival, rides |-> board.rides, kind |-> "vehicle",
                   from |-> board.stop, trip |-> trip, departure |-> board.departure]
<1>3. /\ label' = IF Alights THEN [label EXCEPT ![Event.stop] = new] ELSE label
      /\ DOMAIN label = Stops
  BY <1>1 DEF ScanEvent, ScanWith, TransitTypes
<1>4. Improved(W)
  <2>1. CASE ~Alights
    BY <1>1, <1>3, <2>1 DEF Improved
  <2>2. CASE Alights
    <3> DEFINE s == board.stop
    <3>1. /\ board # NoBoard /\ board.at < event /\ Event.arrival >= board.departure
          /\ Event.arrival < label[Event.stop].arrival
      BY <2>2 DEF Alights
    <3>2. /\ board.at \in 1..(event - 1) /\ board.at \in 1..Len(timetable[trip])
          /\ s = timetable[trip][board.at].stop
          /\ board.departure = timetable[trip][board.at].departure
          /\ base[s].arrival # Inf /\ base[s].arrival <= board.departure
      BY <1>1, <1>2, <3>1 DEF BoardSound
    <3>3. s \in Stops /\ board.departure \in Nat
      BY <1>1, <3>2, EventsOfTrips
    <3>4. /\ label[s].kind # "none" /\ label[s].arrival \in Nat
          /\ label[s].arrival <= base[s].arrival /\ base[s].arrival \in Nat
      BY <1>1, <3>2, <3>3 DEF BaseMet, LabelSound
    <3>5. label[s].arrival <= board.departure /\ s # Event.stop
      <4>1. label[s].arrival <= board.departure
        BY <3>2, <3>3, <3>4
      <4>2. label[s].arrival <= Event.arrival
        BY <1>2, <3>1, <3>3, <3>4, <4>1
      <4> QED
        BY <1>2, <3>1, <3>4, <4>1, <4>2
    <3>6. /\ label'[Event.stop] = new /\ DOMAIN label' = Stops
          /\ \A t \in Stops \ {Event.stop} : label'[t] = label[t]
      BY <1>2, <1>3, <2>2
    <3>7. ASSUME NEW t \in W
          PROVE  Rideable(LegTo(t)')
      <4>1. t = Event.stop /\ label'[t] = new
        BY <2>2, <3>6
      <4>2. /\ LegTo(t)'.trip = trip /\ LegTo(t)'.board = s
            /\ LegTo(t)'.departure = board.departure
            /\ LegTo(t)'.alight = t /\ LegTo(t)'.arrival = Event.arrival
        BY <4>1 DEF LegTo
      <4>3. event \in DOMAIN timetable[trip] /\ board.at \in DOMAIN timetable[trip]
        BY <1>2, <3>2
      <4>4. /\ board.at < event
            /\ LegTo(t)'.board = timetable[trip][board.at].stop
            /\ LegTo(t)'.departure = timetable[trip][board.at].departure
            /\ LegTo(t)'.alight = timetable[trip][event].stop
            /\ LegTo(t)'.arrival = timetable[trip][event].arrival
        BY <1>2, <3>1, <3>2, <4>1, <4>2
      <4> QED
        BY <1>1, <4>2, <4>3, <4>4, Zenon DEF Rideable
    <3>8. /\ label'[Event.stop].kind = "vehicle" /\ label'[Event.stop].arrival = Event.arrival
          /\ label'[Event.stop].departure = board.departure /\ label'[Event.stop].from = s
      BY <3>6
    <3>9. W = {Event.stop}
      BY <2>2
    <3> HIDE DEF s, W, new
    <3> QED
      BY <1>1, <1>2, <3>1, <3>3, <3>4, <3>5, <3>6, <3>7, <3>8, <3>9 DEF Improved
  <2> QED
    BY <2>1, <2>2
<1> HIDE DEF W, new
<1>5. /\ \A t \in Stops : LabelSound(t)'
      /\ BaseMet' /\ Orderly'
      /\ \A s \in Stops : label[s].kind # "none" => label'[s].kind # "none"
  BY <1>1, <1>4, ImprovedLabels
<1>6. /\ changed' \in Seq(Stops)
      /\ \A i \in DOMAIN changed' : label'[changed'[i]].kind # "none"
  <2>1. changed \in Seq(Stops) /\ \A i \in DOMAIN changed : label[changed[i]].kind # "none"
    BY DEF TransitInv, TransitTypes
  <2>2. \A i \in DOMAIN changed : changed[i] \in Stops /\ label'[changed[i]].kind # "none"
    BY <1>5, <2>1
  <2>3. CASE changed' = changed
    BY <2>1, <2>2, <2>3
  <2>4. CASE Alights /\ changed' = Append(changed, Event.stop)
    <3>1. label'[Event.stop].kind # "none"
      BY <1>2, <1>3, <2>4 DEF new
    <3> QED
      BY <1>2, <2>1, <2>2, <2>4, <3>1
  <2> QED
    BY <2>3, <2>4 DEF ScanEvent, ScanWith
<1>7. BoardSound'
  <2>1. CASE Boards(base)
    <3>1. board' = [stop |-> Event.stop, departure |-> Event.departure, at |-> event, rides |-> round + 1]
      BY <2>1 DEF ScanEvent, ScanWith
    <3>2. base[Event.stop].arrival # Inf /\ base[Event.stop].arrival <= Event.departure
      BY <2>1 DEF Boards
    <3>3. event \in 1..(event' - 1)
      BY <1>1, <1>2
    <3> QED
      BY <1>1, <1>2, <3>1, <3>2, <3>3 DEF BoardSound
  <2>2. CASE ~Boards(base)
    <3>1. board' = board
      BY <2>2 DEF ScanEvent, ScanWith
    <3>2. board.at \in 1..(event - 1) => board.at \in 1..(event' - 1)
      BY <1>1, <1>2
    <3> QED
      BY <1>1, <3>1, <3>2 DEF BoardSound
  <2> QED
    BY <2>1, <2>2
<1>8. TransitTypes'
  BY <1>1, <1>2, <1>4, <1>6 DEF TransitTypes, Improved
<1> QED
  BY <1>1, <1>5, <1>6, <1>7, <1>8 DEF TransitInv

\* A step that leaves the labels alone and boards no trip.
LEMMA LabelsStay ==
    ASSUME TransitInv, TransitTypes', UNCHANGED <<timetable, trips, base, label>>,
           \A i \in DOMAIN changed' : label[changed'[i]].kind # "none"
    PROVE  /\ \A t \in Stops : LabelSound(t)'
           /\ BaseMet' /\ Orderly'
           /\ \A i \in DOMAIN changed' : label'[changed'[i]].kind # "none"
<1>1. \A t \in Stops : LabelSound(t) /\ LegTo(t)' = LegTo(t)
  BY DEF TransitInv, LegTo
<1>2. \A leg : /\ Rideable(leg)' <=> Rideable(leg)
               /\ Walkable(leg)' <=> Walkable(leg)
  BY DEF Rideable, Walkable
<1>3. \A t \in Stops : LabelSound(t)'
  BY <1>1, <1>2 DEF LabelSound, Leads
<1>4. BaseMet' /\ Orderly'
  BY DEF TransitInv, BaseMet, Orderly, Ranked
<1> QED
  BY <1>3, <1>4

LEMMA TransferKeeps ==
    ASSUME TransitInv, TransferWalk, query' = query
    PROVE  TransitInv'
<1> DEFINE s == Head(changed)
           W == {t \in WalkTargets(s) : label[s].arrival + Walk[<<s, t>>] < label[t].arrival}
           new(t) == [arrival |-> label[s].arrival + Walk[<<s, t>>], rides |-> label[s].rides,
                      kind |-> "walk", from |-> s, trip |-> 0, departure |-> label[s].arrival]
<1>1. /\ TransitTypes /\ \A t \in Stops : LabelSound(t)
      /\ BaseMet /\ Orderly /\ BoardSound /\ pc = "walk"
      /\ UNCHANGED <<timetable, trips, pc, round, trip, event, board, base, plan>>
      /\ changed # <<>> /\ changed' = Tail(changed)
      /\ label' = [t \in Stops |-> IF t \in W THEN new(t) ELSE label[t]]
  BY DEF TransitInv, TransferWalk
<1>2. /\ s \in Stops /\ label[s].kind # "none" /\ label[s].arrival \in Nat
      /\ changed' \in Seq(Stops)
      /\ \A i \in DOMAIN changed' : label[changed'[i]].kind # "none"
  <2>1. changed \in Seq(Stops) /\ \A i \in DOMAIN changed : label[changed[i]].kind # "none"
    BY DEF TransitInv, TransitTypes
  <2>2. Len(changed) \in Nat \ {0} /\ DOMAIN changed = 1..Len(changed)
    BY <1>1, <2>1, EmptySeq, LenProperties
  <2>3. /\ changed' \in Seq(Stops) /\ Len(changed') = Len(changed) - 1
        /\ \A i \in 1..Len(changed') : changed'[i] = changed[i + 1]
    BY <1>1, <2>1, HeadTailProperties
  <2>4. DOMAIN changed' = 1..Len(changed')
    BY <2>3, LenProperties
  <2>5. \A i \in DOMAIN changed' : i + 1 \in DOMAIN changed
    BY <2>2, <2>3, <2>4
  <2>6. s = changed[1] /\ 1 \in DOMAIN changed
    BY <2>2
  <2> QED
    BY <1>1, <2>1, <2>3, <2>4, <2>5, <2>6 DEF LabelSound
<1>3. Improved(W)
  <2>1. \A t \in WalkTargets(s) : t \in Stops /\ t # s /\ Walk[<<s, t>>] \in Nat
    BY <1>2, TransitPackAssumption DEF WalkTargets
  <2>2. /\ W \in SUBSET Stops /\ s \notin W /\ DOMAIN label' = Stops
        /\ \A t \in Stops \ W : label'[t] = label[t]
        /\ \A t \in W : label'[t] = new(t)
    BY <1>1, <2>1
  <2>3. ASSUME NEW t \in W
        PROVE  /\ t \in WalkTargets(s)
               /\ label[s].arrival + Walk[<<s, t>>] < label[t].arrival
               /\ label[s].arrival + Walk[<<s, t>>] \in Nat
               /\ label[s].arrival <= label[s].arrival + Walk[<<s, t>>]
    BY <1>2, <2>1, <2>3
  <2> HIDE DEF W
  <2>4. ASSUME NEW t \in W
        PROVE  /\ label'[t].kind = "walk" /\ label'[t].from = s
               /\ label'[t].departure = label[s].arrival
               /\ label'[t].arrival = label[s].arrival + Walk[<<s, t>>]
    <3>1. label'[t] = new(t)
      BY <2>2
    <3> QED
      BY <3>1
  <2> HIDE DEF s, new
  <2>5. ASSUME NEW t \in W
        PROVE  Walkable(LegTo(t)')
    <3>1. /\ LegTo(t)'.board = s /\ LegTo(t)'.alight = t
          /\ LegTo(t)'.departure = label[s].arrival
          /\ LegTo(t)'.arrival = label[s].arrival + Walk[<<s, t>>]
      BY <2>4 DEF LegTo
    <3>2. /\ t \in WalkTargets(s)
          /\ label[s].arrival + Walk[<<s, t>>] = label[s].arrival + Walk[<<s, t>>]
      BY <2>3
    <3> QED
      BY ONLY <3>1, <3>2, Zenon DEF Walkable
  <2>6. ASSUME NEW t \in W
        PROVE  /\ label'[t].kind = "walk"
               /\ label'[t].arrival \in Nat /\ label'[t].arrival < label[t].arrival
               /\ label'[t].departure \in Nat
               /\ label'[t].from \in Stops \ W
               /\ label[label'[t].from].kind # "none"
               /\ label[label'[t].from].arrival <= label'[t].departure
               /\ label'[t].departure <= label'[t].arrival
    <3>1. /\ label'[t].kind = "walk" /\ label'[t].from = s
          /\ label'[t].departure = label[s].arrival
          /\ label'[t].arrival = label[s].arrival + Walk[<<s, t>>]
      BY <2>4
    <3>2. /\ label[s].arrival + Walk[<<s, t>>] < label[t].arrival
          /\ label[s].arrival + Walk[<<s, t>>] \in Nat
          /\ label[s].arrival <= label[s].arrival + Walk[<<s, t>>]
          /\ label[s].arrival <= label[s].arrival
      BY <1>2, <2>3
    <3>3. s \in Stops \ W /\ label[s].kind # "none" /\ label[s].arrival \in Nat
      BY <1>2, <2>2
    <3> QED
      BY ONLY <3>1, <3>2, <3>3, Zenon
  <2> QED
    BY <1>1, <2>2, <2>5, <2>6 DEF Improved
<1> HIDE DEF s, W, new
<1>4. /\ \A t \in Stops : LabelSound(t)'
      /\ BaseMet' /\ Orderly'
      /\ \A t \in Stops : label[t].kind # "none" => label'[t].kind # "none"
  BY <1>1, <1>3, ImprovedLabels
<1>5. \A i \in DOMAIN changed' : label'[changed'[i]].kind # "none"
  <2>1. \A i \in DOMAIN changed' : changed'[i] \in Stops
    BY <1>2
  <2> QED
    BY <1>2, <1>4, <2>1
<1>6. BoardSound'
  BY <1>1 DEF BoardSound
<1>7. TransitTypes'
  BY <1>1, <1>2, <1>3 DEF TransitTypes, Improved
<1> QED
  BY <1>1, <1>4, <1>5, <1>6, <1>7 DEF TransitInv

LEMMA NextRoundKeeps ==
    ASSUME TransitInv, NextRound, query' = query
    PROVE  TransitInv'
<1>1. /\ TransitTypes /\ \A t \in Stops : LabelSound(t)
      /\ Orderly /\ pc = "walk" /\ pc' \in {"scan", "build"} /\ board' = NoBoard
      /\ trip' = 1 /\ event' = 1 /\ base' = label
      /\ UNCHANGED <<timetable, trips, label, changed, plan>>
  BY DEF TransitInv, NextRound
<1>2. \A t \in Stops : LegTo(t)' = LegTo(t)
  BY <1>1 DEF LegTo
<1>3. \A leg : /\ Rideable(leg)' <=> Rideable(leg)
               /\ Walkable(leg)' <=> Walkable(leg)
  BY <1>1 DEF Rideable, Walkable
<1>4. \A t \in Stops : LabelSound(t)'
  BY <1>1, <1>2, <1>3 DEF LabelSound, Leads
<1>5. Orderly'
  BY <1>1 DEF Orderly, Ranked
<1>6. BaseMet'
  <2>1. \A s \in Stops : label[s].arrival \in Nat /\ (label[s].arrival # Inf => label[s].kind # "none")
    BY <1>1 DEF LabelSound
  <2> QED
    BY <1>1, <2>1 DEF BaseMet
<1>7. TransitTypes' /\ BoardSound'
  BY <1>1 DEF TransitTypes, BoardSound
<1> QED
  BY <1>1, <1>4, <1>5, <1>6, <1>7 DEF TransitInv

\* The steps that only go on in the scan.
LEMMA ScanGoesOn ==
    ASSUME TransitInv, query' = query, NextTrip \/ EndOfScan \/ ArriveNextTrip \/ ArriveDone
    PROVE  TransitInv'
<1>1. /\ UNCHANGED <<timetable, trips, base, label, changed, plan>>
      /\ \/ pc' = pc /\ pc \in {"scan", "arrive"}
         \/ pc = "scan" /\ pc' \in {"build", "walk"}
         \/ pc = "arrive" /\ pc' = "planned"
      /\ \/ board' = NoBoard /\ trip' = trip + 1 /\ event' = 1
         \/ UNCHANGED <<trip, event, board>> /\ pc' \notin {"scan", "arrive"}
  BY DEF NextTrip, EndOfScan, ArriveNextTrip, ArriveDone
<1>2. TransitTypes'
  BY <1>1 DEF TransitInv, TransitTypes
<1>3. BoardSound'
  BY <1>1 DEF TransitInv, BoardSound
<1>4. /\ \A t \in Stops : LabelSound(t)'
      /\ BaseMet' /\ Orderly'
      /\ \A i \in DOMAIN changed' : label'[changed'[i]].kind # "none"
  BY <1>1, <1>2, LabelsStay DEF TransitInv
<1>5. PlanSound' <=> PlanSound
  BY <1>1 DEF PlanSound, Rideable, Walkable
<1> QED
  BY <1>1, <1>2, <1>3, <1>4, <1>5 DEF TransitInv

LEMMA StartKeeps ==
    ASSUME TransitInv, NEW memory, StartTransit(query.when, memory), query' = query
    PROVE  TransitInv'
<1>1. /\ pc = "idle" /\ UNCHANGED <<timetable, trips, round, trip, event, board, base, label, changed, plan>>
      /\ pc' \in {"planned", "arrive", "scan"}
      /\ pc' = "scan" => query.when # "arrive"
      /\ pc' = "arrive" => query.when = "arrive"
      /\ board = NoBoard /\ ~plan.found
  BY DEF StartTransit, TransitInv
<1>2. TransitTypes'
  BY <1>1 DEF TransitInv, TransitTypes
<1>3. BoardSound'
  BY <1>1 DEF BoardSound
<1>4. /\ \A t \in Stops : LabelSound(t)'
      /\ BaseMet' /\ Orderly'
      /\ \A i \in DOMAIN changed' : label'[changed'[i]].kind # "none"
  BY <1>1, <1>2, LabelsStay DEF TransitInv
<1> QED
  BY <1>1, <1>2, <1>3, <1>4 DEF TransitInv

\* An arrival query keeps a single ride that can be had.
LEMMA ArriveKeeps ==
    ASSUME TransitInv, ArriveEvent, query' = query
    PROVE  TransitInv'
<1>1. /\ TransitTypes /\ BoardSound
      /\ pc = "arrive" /\ trip \in trips /\ ~TripDone /\ query.when = "arrive"
      /\ UNCHANGED <<timetable, trips, pc, round, trip, base, label, changed>> /\ event' = event + 1
  BY DEF TransitInv, ArriveEvent
<1>2. /\ event \in 1..Len(timetable[trip]) /\ DOMAIN timetable[trip] = 1..Len(timetable[trip])
      /\ Event = timetable[trip][event]
      /\ Event.stop \in Stops /\ Event.arrival \in Nat /\ Event.departure \in Nat
  <2>1. event \in Nat \ {0} /\ Len(timetable[trip]) \in Nat /\ ~(event > Len(timetable[trip]))
    BY <1>1, EventsOfTrips DEF TransitTypes, TripDone
  <2>2. event \in 1..Len(timetable[trip])
    BY <2>1
  <2> QED
    BY <1>1, <2>2, EventsOfTrips DEF Event
<1>3. TransitTypes'
  BY <1>1, <1>2 DEF TransitTypes
<1>4. /\ \A t \in Stops : LabelSound(t)'
      /\ BaseMet' /\ Orderly'
      /\ \A i \in DOMAIN changed' : label'[changed'[i]].kind # "none"
  BY <1>1, <1>3, LabelsStay DEF TransitInv
<1>5. BoardSound'
  <2>1. CASE board' = board
    <3>1. board.at \in 1..(event - 1) => board.at \in 1..(event' - 1)
      BY <1>1, <1>2
    <3> QED
      BY <1>1, <2>1, <3>1 DEF BoardSound
  <2>2. CASE /\ Event.stop \in DOMAIN Access /\ Event.departure >= Access[Event.stop]
             /\ board' = [stop |-> Event.stop, departure |-> Event.departure, at |-> event, rides |-> 1]
    <3>1. event \in 1..(event' - 1) /\ Access[Event.stop] <= Event.departure
      <4>1. Access[Event.stop] \in Nat
        BY <2>2, TransitPackAssumption
      <4> QED
        BY <1>1, <1>2, <2>2, <4>1
    <3> QED
      BY <1>1, <1>2, <2>2, <3>1 DEF BoardSound
  <2> QED
    BY <2>1, <2>2 DEF ArriveEvent
<1>6. plan'.found => PlanSound'
  <2>1. CASE plan' = plan
    <3>1. PlanSound' <=> PlanSound
      BY <1>1, <2>1 DEF PlanSound, Rideable, Walkable
    <3> QED
      BY <2>1, <3>1 DEF TransitInv
  <2>2. CASE ArriveAlights /\ plan' = ArriveTakes(board)
    <3>0. PICK leg : leg = [kind |-> "vehicle", trip |-> trip, board |-> board.stop, alight |-> Event.stop,
                            departure |-> board.departure, arrival |-> Event.arrival]
      OBVIOUS
    <3>1. /\ plan'.legs = <<leg>> /\ plan'.total = Deadline - (board.departure - Access[board.stop])
      BY <2>2, <3>0 DEF ArriveTakes, StartFor
    <3>2. /\ board # NoBoard /\ board.at < event
          /\ Event.stop \in DOMAIN Egress /\ Event.arrival + Egress[Event.stop] <= Deadline
      BY <2>2 DEF ArriveAlights
    <3>3. /\ board.at \in 1..(event - 1) /\ board.at \in 1..Len(timetable[trip])
          /\ board.stop = timetable[trip][board.at].stop
          /\ board.departure = timetable[trip][board.at].departure
          /\ board.stop \in DOMAIN Access /\ Access[board.stop] <= board.departure
      BY <1>1, <1>2, <3>2 DEF BoardSound
    <3>4. Rideable(leg)
      BY <1>1, <1>2, <3>0, <3>2, <3>3 DEF Rideable
    <3>5. board.departure \in Nat /\ Access[board.stop] \in Nat /\ Deadline \in Nat
      BY <1>1, <3>3, EventsOfTrips, TransitPackAssumption, TransitPlanAssumption
    <3>6. /\ Deadline - plan'.total = board.departure - Access[board.stop]
          /\ Deadline - plan'.total >= 0
          /\ Deadline - plan'.total + Access[board.stop] <= board.departure
      BY <3>1, <3>3, <3>5
    <3>7. /\ DOMAIN plan'.legs = {1} /\ Len(plan'.legs) = 1 /\ 2..Len(plan'.legs) = {}
          /\ plan'.legs[1] = leg
      BY <3>1
    <3>8. /\ leg.board = board.stop /\ leg.alight = Event.stop
          /\ leg.departure = board.departure /\ leg.arrival = Event.arrival
      BY <3>0
    <3>9. Rideable(leg)'
      BY <1>1, <3>4 DEF Rideable
    <3> QED
      BY <1>1, <3>2, <3>3, <3>6, <3>7, <3>8, <3>9 DEF PlanSound
  <2> QED
    BY <2>1, <2>2 DEF ArriveEvent
<1> QED
  BY <1>1, <1>3, <1>4, <1>5, <1>6 DEF TransitInv

-----------------------------------------------------------------------------
LEMMA EveryNumber ==
    ASSUME NEW T, 0 \in T, \A n \in Nat : n \in T => n + 1 \in T
    PROVE  \A n \in Nat : n \in T
<1> DEFINE U == {n \in Nat : n \notin T}
<1>1. SUFFICES ASSUME U # {} PROVE FALSE
  OBVIOUS
<1>2. PICK x \in U : \A y \in U : x <= y
  <2>1. U \in SUBSET Nat
    OBVIOUS
  <2> HIDE DEF U
  <2> QED
    BY <1>1, <2>1, LeastNat
<1>3. x - 1 \in Nat /\ x - 1 \notin U
  BY <1>2
<1> QED
  BY <1>2, <1>3

-----------------------------------------------------------------------------
(***************************************************************************)
(* The plan that is read back from the labels.                             *)
(***************************************************************************)
LEMMA BestOfGoals ==
    ASSUME \A t \in Stops : LabelSound(t), Goals # {}
    PROVE  BestGoal \in Goals /\ \A t \in Goals \ {BestGoal} : BetterGoal(BestGoal, t)
<1> DEFINE score(s) == Score(label[s].arrival, s)
           end(s) == label[s].arrival + Egress[s]
<1>1. ASSUME NEW s \in Goals
      PROVE  s \in Nat /\ score(s) \in Nat /\ end(s) \in Nat
  <2>1. s \in Stops /\ s \in Nat /\ Egress[s] \in Nat
    BY TransitPackAssumption DEF Goals
  <2>2. label[s].arrival \in Nat
    BY <2>1 DEF LabelSound
  <2> QED
    BY <2>1, <2>2 DEF Score
<1>2. \A s, t : BetterGoal(s, t) <=> \/ score(s) < score(t)
                                     \/ /\ score(s) = score(t)
                                        /\ end(s) < end(t) \/ (end(s) = end(t) /\ s < t)
  BY DEF BetterGoal
<1> HIDE DEF score, end
<1>3. PICK a \in Goals : \A t \in Goals : score(a) <= score(t)
  <2> DEFINE T == {score(t) : t \in Goals}
  <2>1. T \in SUBSET Nat /\ T # {}
    BY <1>1
  <2>2. PICK x \in T : \A y \in T : x <= y
    BY <2>1, LeastNat
  <2> QED
    BY <2>2
<1>4. PICK b \in Goals : score(b) = score(a) /\ \A t \in Goals : score(t) = score(a) => end(b) <= end(t)
  <2> DEFINE T == {end(t) : t \in {t \in Goals : score(t) = score(a)}}
  <2>1. T \in SUBSET Nat /\ T # {}
    BY <1>1
  <2>2. PICK x \in T : \A y \in T : x <= y
    BY <2>1, LeastNat
  <2> QED
    BY <2>2
<1>5. PICK c \in Goals : /\ score(c) = score(a) /\ end(c) = end(b)
                         /\ \A t \in Goals : score(t) = score(a) /\ end(t) = end(b) => c <= t
  <2> DEFINE T == {t \in Goals : score(t) = score(a) /\ end(t) = end(b)}
  <2>1. T \in SUBSET Nat /\ T # {}
    BY <1>1, <1>4
  <2>2. PICK x \in T : \A y \in T : x <= y
    BY <2>1, LeastNat
  <2> QED
    BY <2>2
<1>6. ASSUME NEW t \in Goals \ {c} PROVE BetterGoal(c, t)
  <2>1. /\ score(c) <= score(t)
        /\ score(t) = score(c) => end(c) <= end(t)
        /\ score(t) = score(c) /\ end(t) = end(c) => c <= t
    BY <1>3, <1>4, <1>5
  <2>2. /\ score(c) \in Nat /\ score(t) \in Nat /\ end(c) \in Nat /\ end(t) \in Nat
        /\ c \in Nat /\ t \in Nat /\ c # t
    BY <1>1
  <2> QED
    BY <1>2, <2>1, <2>2
<1> QED
  BY <1>6 DEF BestGoal

LEMMA ChainOfLegs ==
    ASSUME NEW s
    PROVE  \E chain :
              /\ LegsTo(s) = chain[Cardinality(Stops)].legs
              /\ chain[0] = [at |-> s, legs |-> <<>>]
              /\ \A k \in 1..Cardinality(Stops) :
                    chain[k] = IF label[chain[k - 1].at].kind \in {"vehicle", "walk"}
                               THEN [at |-> label[chain[k - 1].at].from,
                                     legs |-> <<LegTo(chain[k - 1].at)>> \o chain[k - 1].legs]
                               ELSE chain[k - 1]
<1> DEFINE N == Cardinality(Stops)
           Start == [at |-> s, legs |-> <<>>]
           Step(c) == IF label[c.at].kind \in {"vehicle", "walk"}
                      THEN [at |-> label[c.at].from, legs |-> <<LegTo(c.at)>> \o c.legs]
                      ELSE c
           Up(n, f) == f = [k \in 0..n |-> IF k = 0 THEN Start ELSE Step(f[k - 1])]
           T == {n \in Nat : \E f : Up(n, f)}
<1>0. N \in Nat
  BY TransitPackAssumption, FS_CardinalityType
<1>1. LegsTo(s) = (CHOOSE f : Up(N, f))[N].legs
  BY DEF LegsTo
<1> HIDE DEF Step, Start, N
<1>2. 0 \in T
  <2>1. Up(0, [k \in 0..0 |-> Start])
    OBVIOUS
  <2> HIDE DEF Up
  <2> QED
    BY <2>1
<1>3. ASSUME NEW n \in Nat, n \in T PROVE n + 1 \in T
  <2>1. PICK f : Up(n, f)
    BY <1>3
  <2> DEFINE g == [k \in 0..(n + 1) |-> IF k = 0 THEN Start ELSE Step(f[k - 1])]
  <2>2. ASSUME NEW k \in 0..(n + 1), k # 0 PROVE f[k - 1] = g[k - 1]
    <3>1. k - 1 \in 0..n /\ k - 1 \in 0..(n + 1)
      BY <2>2
    <3>2. f[k - 1] = IF k - 1 = 0 THEN Start ELSE Step(f[k - 1 - 1])
      BY <2>1, <3>1
    <3> QED
      BY <3>1, <3>2
  <2>3. g = [k \in 0..(n + 1) |-> IF k = 0 THEN Start ELSE Step(g[k - 1])]
    <3>1. \A k \in 0..(n + 1) :
             (IF k = 0 THEN Start ELSE Step(f[k - 1])) = (IF k = 0 THEN Start ELSE Step(g[k - 1]))
      BY <2>2
    <3> QED
      BY <3>1
  <2> HIDE DEF g
  <2>4. Up(n + 1, g)
    BY <2>3
  <2> HIDE DEF Up
  <2> QED
    BY <2>4
<1>4. \E f : Up(N, f)
  <2> HIDE DEF Up
  <2>1. N \in T
    <3> HIDE DEF T
    <3> QED
      BY <1>0, <1>2, <1>3, EveryNumber
  <2> QED
    BY <2>1
<1>5. PICK chain : Up(N, chain) /\ LegsTo(s) = chain[N].legs
  <2> HIDE DEF Up
  <2> QED
    BY <1>1, <1>4
<1>6. chain[0] = Start
  BY <1>0, <1>5
<1>7. \A k \in 1..N : chain[k] = Step(chain[k - 1])
  BY <1>0, <1>5
<1> QED
  BY <1>5, <1>6, <1>7 DEF Step, Start, N

LEMMA Prepended ==
    ASSUME NEW S, NEW e \in S, NEW q \in Seq(S)
    PROVE  /\ <<e>> \o q \in Seq(S) /\ Len(<<e>> \o q) = Len(q) + 1
           /\ Len(q) \in Nat
           /\ (<<e>> \o q)[1] = e
           /\ \A i \in 2..(Len(q) + 1) : (<<e>> \o q)[i] = q[i - 1]
<1>1. <<e>> \in Seq(S) /\ Len(<<e>>) = 1 /\ <<e>>[1] = e /\ Len(q) \in Nat
  BY LenProperties
<1>2. /\ <<e>> \o q \in Seq(S) /\ Len(<<e>> \o q) = 1 + Len(q)
      /\ \A i \in 1..(1 + Len(q)) : (<<e>> \o q)[i] = IF i <= 1 THEN <<e>>[i] ELSE q[i - 1]
  BY <1>1, ConcatProperties
<1> QED
  BY <1>1, <1>2

\* How many stops come before a stop in the order of the labels.
Earlier(rank, t) ==
    {u \in Stops : \/ label[u].arrival < label[t].arrival
                   \/ label[u].arrival = label[t].arrival /\ rank[u] < rank[t]}

Depth(rank, t) == Cardinality(Earlier(rank, t))

LEMMA DepthDecreases ==
    ASSUME \A t \in Stops : LabelSound(t), NEW rank, NEW bound, Ranked(rank, bound)
    PROVE  /\ \A t \in Stops : Depth(rank, t) \in Nat /\ Depth(rank, t) < Cardinality(Stops)
           /\ \A t \in Stops : label[t].kind \in {"vehicle", "walk"} =>
                 Depth(rank, label[t].from) < Depth(rank, t)
<1>1. ASSUME NEW t \in Stops PROVE label[t].arrival \in Nat /\ rank[t] \in Nat
  BY DEF LabelSound, Ranked
<1>2. IsFiniteSet(Stops) /\ Cardinality(Stops) \in Nat
  BY TransitPackAssumption, FS_CardinalityType
<1>3. ASSUME NEW t \in Stops
      PROVE  /\ Earlier(rank, t) \in SUBSET Stops /\ t \notin Earlier(rank, t)
             /\ IsFiniteSet(Earlier(rank, t))
             /\ Depth(rank, t) \in Nat /\ Depth(rank, t) < Cardinality(Stops)
  <2>1. Earlier(rank, t) \in SUBSET Stops /\ t \notin Earlier(rank, t)
    BY <1>1 DEF Earlier
  <2>2. /\ IsFiniteSet(Earlier(rank, t)) /\ Cardinality(Earlier(rank, t)) <= Cardinality(Stops)
        /\ Cardinality(Stops) = Cardinality(Earlier(rank, t)) => Stops = Earlier(rank, t)
    BY <1>2, <2>1, FS_Subset
  <2>3. Depth(rank, t) \in Nat
    BY <2>2, FS_CardinalityType DEF Depth
  <2> QED
    BY <1>2, <2>1, <2>2, <2>3 DEF Depth
<1>4. ASSUME NEW t \in Stops, label[t].kind \in {"vehicle", "walk"}
      PROVE  Depth(rank, label[t].from) < Depth(rank, t)
  <2> DEFINE u == label[t].from
  <2>1. u \in Stops
    BY <1>4 DEF LabelSound, Leads
  <2>2. u \in Earlier(rank, t)
    BY <1>4, <2>1 DEF Ranked, Earlier
  <2> HIDE DEF u
  <2>3. Earlier(rank, u) \in SUBSET Earlier(rank, t)
    <3>1. ASSUME NEW v \in Earlier(rank, u) PROVE v \in Earlier(rank, t)
      <4>1. /\ v \in Stops
            /\ \/ label[v].arrival < label[u].arrival
               \/ label[v].arrival = label[u].arrival /\ rank[v] < rank[u]
        BY DEF Earlier
      <4>2. \/ label[u].arrival < label[t].arrival
            \/ label[u].arrival = label[t].arrival /\ rank[u] < rank[t]
        BY <2>2 DEF Earlier
      <4>3. /\ label[v].arrival \in Nat /\ label[u].arrival \in Nat /\ label[t].arrival \in Nat
            /\ rank[v] \in Nat /\ rank[u] \in Nat /\ rank[t] \in Nat
        BY <1>1, <2>1, <4>1
      <4>4. \/ label[v].arrival < label[t].arrival
            \/ label[v].arrival = label[t].arrival /\ rank[v] < rank[t]
        BY <4>1, <4>2, <4>3
      <4> QED
        BY <4>1, <4>4 DEF Earlier
    <3> QED
      BY <3>1
  <2>4. Cardinality(Earlier(rank, u)) <= Cardinality(Earlier(rank, t))
    BY <1>3, <2>3, FS_Subset
  <2>5. Cardinality(Earlier(rank, u)) # Cardinality(Earlier(rank, t))
    <3>1. Earlier(rank, u) # Earlier(rank, t)
      BY <1>3, <2>1, <2>2
    <3>2. Cardinality(Earlier(rank, t)) = Cardinality(Earlier(rank, u)) => Earlier(rank, t) = Earlier(rank, u)
      BY <1>3, <2>3, FS_Subset
    <3> QED
      BY <3>1, <3>2
  <2>6. Depth(rank, u) \in Nat /\ Depth(rank, t) \in Nat
    BY <1>3, <2>1
  <2>7. Depth(rank, u) < Depth(rank, t)
    BY <2>4, <2>5, <2>6 DEF Depth
  <2> QED
    BY <2>7 DEF u
<1> QED
  BY <1>3, <1>4

AllLegs == {LegTo(u) : u \in Stops}

\* What the last labels of a chain that ends at s say together.
ChainSound(c, s, k, rank) ==
    /\ c.at \in Stops /\ label[c.at].kind # "none"
    /\ c.legs \in Seq(AllLegs)
    /\ Len(c.legs) = k \/ label[c.at].kind = "origin"
    /\ Len(c.legs) + Depth(rank, c.at) <= Depth(rank, s)
    /\ \A i \in 1..Len(c.legs) : Rideable(c.legs[i]) \/ Walkable(c.legs[i])
    /\ \A i \in 2..Len(c.legs) :
          c.legs[i].board = c.legs[i - 1].alight /\ c.legs[i].departure >= c.legs[i - 1].arrival
    /\ Len(c.legs) = 0 => c.at = s
    /\ Len(c.legs) # 0 =>
          /\ c.legs[1].board = c.at /\ label[c.at].arrival <= c.legs[1].departure
          /\ c.legs[Len(c.legs)].alight = s /\ c.legs[Len(c.legs)].arrival = label[s].arrival

LEMMA ChainGrows ==
    ASSUME \A t \in Stops : LabelSound(t), NEW rank, NEW bound, Ranked(rank, bound),
           NEW s \in Stops, NEW k \in Nat, NEW c, ChainSound(c, s, k, rank),
           label[c.at].kind \in {"vehicle", "walk"}
    PROVE  ChainSound([at |-> label[c.at].from, legs |-> <<LegTo(c.at)>> \o c.legs], s, k + 1, rank)
<1> DEFINE u == c.at
           v == label[u].from
           leg == LegTo(u)
           q == c.legs
           r == <<leg>> \o q
<1>1. /\ u \in Stops /\ q \in Seq(AllLegs)
      /\ Len(q) = k
      /\ Len(q) + Depth(rank, u) <= Depth(rank, s)
      /\ \A i \in 1..Len(q) : Rideable(q[i]) \/ Walkable(q[i])
      /\ \A i \in 2..Len(q) : q[i].board = q[i - 1].alight /\ q[i].departure >= q[i - 1].arrival
      /\ Len(q) = 0 => u = s
      /\ Len(q) # 0 => /\ q[1].board = u /\ label[u].arrival <= q[1].departure
                       /\ q[Len(q)].alight = s /\ q[Len(q)].arrival = label[s].arrival
  BY DEF ChainSound
<1>2. /\ v \in Stops /\ label[v].kind # "none"
      /\ label[v].arrival <= label[u].departure /\ label[u].departure \in Nat
      /\ Rideable(leg) \/ Walkable(leg)
  BY <1>1 DEF LabelSound, Leads
<1>3. /\ leg.board = v /\ leg.alight = u /\ leg.departure = label[u].departure
      /\ leg.arrival = label[u].arrival /\ leg \in AllLegs
  BY <1>1 DEF LegTo, AllLegs
<1>4. Depth(rank, v) < Depth(rank, u) /\ Depth(rank, v) \in Nat /\ Depth(rank, u) \in Nat /\ Depth(rank, s) \in Nat
  BY <1>1, <1>2, DepthDecreases
<1> HIDE DEF u, v, leg, q
<1>5. /\ r \in Seq(AllLegs) /\ Len(r) = Len(q) + 1 /\ Len(q) \in Nat
      /\ r[1] = leg /\ \A i \in 2..(Len(q) + 1) : r[i] = q[i - 1]
  BY <1>1, <1>3, Prepended
<1> HIDE DEF r
<1>6. Len(r) = k + 1 /\ Len(r) + Depth(rank, v) <= Depth(rank, s)
  BY <1>1, <1>4, <1>5
<1>7. ASSUME NEW i \in 1..Len(r) PROVE Rideable(r[i]) \/ Walkable(r[i])
  <2>1. CASE i = 1
    BY <1>2, <1>5, <2>1
  <2>2. CASE i # 1
    <3>1. i \in 2..(Len(q) + 1) /\ i - 1 \in 1..Len(q)
      BY <1>5, <2>2
    <3> QED
      BY <1>1, <1>5, <3>1
  <2> QED
    BY <2>1, <2>2
<1>8. ASSUME NEW i \in 2..Len(r)
      PROVE  r[i].board = r[i - 1].alight /\ r[i].departure >= r[i - 1].arrival
  <2>0. \A a, b : a <= b <=> b >= a
    OBVIOUS
  <2>1. CASE i = 2
    <3>1. r[i] = q[1] /\ r[i - 1] = leg /\ Len(q) # 0
      BY <1>5, <2>1
    <3>2. q[1].board = u /\ q[1].departure >= label[u].arrival
      BY <1>1, <2>0, <3>1
    <3> QED
      BY <1>3, <3>1, <3>2
  <2>2. CASE i # 2
    <3>1. i \in 2..(Len(q) + 1) /\ i - 1 \in 2..Len(q) /\ i - 1 \in 2..(Len(q) + 1)
      BY <1>5, <2>2
    <3>2. r[i] = q[i - 1] /\ r[i - 1] = q[i - 1 - 1]
      BY <1>5, <3>1
    <3> QED
      BY <1>1, <3>1, <3>2
  <2> QED
    BY <2>1, <2>2
<1>9. /\ r[1].board = v /\ label[v].arrival <= r[1].departure
      /\ r[Len(r)].alight = s /\ r[Len(r)].arrival = label[s].arrival
  <2>1. CASE Len(q) = 0
    <3>1. Len(r) = 1 /\ u = s
      BY <1>1, <1>5, <2>1
    <3> QED
      BY <1>2, <1>3, <1>5, <3>1
  <2>2. CASE Len(q) # 0
    <3>1. Len(r) \in 2..(Len(q) + 1) /\ Len(r) - 1 = Len(q)
      BY <1>5, <2>2
    <3>2. r[Len(r)] = q[Len(q)]
      BY <1>5, <3>1
    <3> QED
      BY <1>1, <1>2, <1>3, <1>5, <2>2, <3>2
  <2> QED
    BY <2>1, <2>2
<1>10. [at |-> v, legs |-> r].at = v /\ [at |-> v, legs |-> r].legs = r /\ Len(r) # 0
  BY <1>5
<1>11. ChainSound([at |-> v, legs |-> r], s, k + 1, rank)
  BY <1>2, <1>5, <1>6, <1>7, <1>8, <1>9, <1>10 DEF ChainSound
<1> QED
  BY <1>11 DEF u, v, leg, q, r

\* The chain reaches the origin before it has passed every stop.
LEMMA ChainReachesOrigin ==
    ASSUME \A t \in Stops : LabelSound(t), Orderly, NEW s \in Stops, label[s].kind # "none"
    PROVE  \E at \in Stops :
              /\ label[at].kind = "origin"
              /\ LegsTo(s) \in Seq(AllLegs)
              /\ \A i \in 1..Len(LegsTo(s)) : Rideable(LegsTo(s)[i]) \/ Walkable(LegsTo(s)[i])
              /\ \A i \in 2..Len(LegsTo(s)) :
                    /\ LegsTo(s)[i].board = LegsTo(s)[i - 1].alight
                    /\ LegsTo(s)[i].departure >= LegsTo(s)[i - 1].arrival
              /\ Len(LegsTo(s)) = 0 => at = s
              /\ Len(LegsTo(s)) # 0 =>
                    /\ LegsTo(s)[1].board = at /\ label[at].arrival <= LegsTo(s)[1].departure
                    /\ LegsTo(s)[Len(LegsTo(s))].alight = s
                    /\ LegsTo(s)[Len(LegsTo(s))].arrival = label[s].arrival
<1> DEFINE N == Cardinality(Stops)
<1>0. N \in Nat
  BY TransitPackAssumption, FS_CardinalityType
<1>1. PICK chain :
         /\ LegsTo(s) = chain[N].legs
         /\ chain[0] = [at |-> s, legs |-> <<>>]
         /\ \A k \in 1..N :
               chain[k] = IF label[chain[k - 1].at].kind \in {"vehicle", "walk"}
                          THEN [at |-> label[chain[k - 1].at].from,
                                legs |-> <<LegTo(chain[k - 1].at)>> \o chain[k - 1].legs]
                          ELSE chain[k - 1]
  BY ChainOfLegs
<1>2. PICK rank, bound : Ranked(rank, bound)
  BY DEF Orderly
<1> DEFINE T == {k \in Nat : k \in 0..N => ChainSound(chain[k], s, k, rank)}
<1> HIDE DEF N
<1>3. 0 \in T
  <2>1. chain[0].at = s /\ chain[0].legs = <<>>
    BY <1>1
  <2>2. Len(<<>>) = 0 /\ <<>> \in Seq(AllLegs) /\ Depth(rank, s) \in Nat
    BY <1>2, DepthDecreases
  <2>3. Len(chain[0].legs) = 0 /\ chain[0].legs \in Seq(AllLegs)
    BY <2>1, <2>2
  <2>4. Len(chain[0].legs) + Depth(rank, chain[0].at) <= Depth(rank, s)
    BY <2>1, <2>2, <2>3
  <2>5. 1..Len(chain[0].legs) = {} /\ 2..Len(chain[0].legs) = {}
    BY <2>3
  <2>6. ChainSound(chain[0], s, 0, rank)
    BY <2>1, <2>3, <2>4, <2>5 DEF ChainSound
  <2> QED
    BY <2>6
<1>4. ASSUME NEW k \in Nat, k \in T PROVE k + 1 \in T
  <2>1. SUFFICES ASSUME k + 1 \in 0..N PROVE ChainSound(chain[k + 1], s, k + 1, rank)
    BY <1>4
  <2>2. k \in 0..N /\ k + 1 \in 1..N /\ k + 1 - 1 = k
    BY <1>0, <2>1
  <2>3. ChainSound(chain[k], s, k, rank)
    BY <1>4, <2>2
  <2> DEFINE c == chain[k]
  <2>4. chain[k + 1] = IF label[c.at].kind \in {"vehicle", "walk"}
                       THEN [at |-> label[c.at].from, legs |-> <<LegTo(c.at)>> \o c.legs]
                       ELSE c
    BY <1>1, <2>2
  <2> HIDE DEF c
  <2>5. CASE label[c.at].kind \in {"vehicle", "walk"}
    <3>1. ChainSound(c, s, k, rank)
      BY <2>3 DEF c
    <3> QED
      BY <1>2, <2>4, <2>5, <3>1, ChainGrows
  <2>6. CASE label[c.at].kind \notin {"vehicle", "walk"}
    <3>1. ChainSound(c, s, k, rank)
      BY <2>3 DEF c
    <3>2. label[c.at].kind = "origin"
      BY <2>6, <3>1 DEF ChainSound, LabelSound, Kinds
    <3> QED
      BY <2>4, <2>6, <3>1, <3>2 DEF ChainSound
  <2> QED
    BY <2>5, <2>6
<1>5. ChainSound(chain[N], s, N, rank)
  <2> HIDE DEF T
  <2>1. N \in T
    BY <1>0, <1>3, <1>4, EveryNumber
  <2> QED
    BY <1>0, <2>1 DEF T
<1>6. label[chain[N].at].kind = "origin"
  <2>1. /\ Len(chain[N].legs) = N \/ label[chain[N].at].kind = "origin"
        /\ Len(chain[N].legs) + Depth(rank, chain[N].at) <= Depth(rank, s)
        /\ chain[N].at \in Stops
    BY <1>5 DEF ChainSound
  <2>2. Depth(rank, s) < N /\ Depth(rank, s) \in Nat /\ Depth(rank, chain[N].at) \in Nat
    BY <1>2, <2>1, DepthDecreases DEF N
  <2> QED
    BY <1>0, <2>1, <2>2
<1> QED
  BY <1>1, <1>5, <1>6 DEF ChainSound

\* The plan of a departure query: the chain of the best goal.
LEMMA BuildKeeps ==
    ASSUME TransitInv, BuildPlan, query' = query
    PROVE  TransitInv'
<1>1. /\ pc = "build" /\ pc' = "planned" /\ query.when # "arrive" /\ ~plan.found
      /\ UNCHANGED <<timetable, trips, round, trip, event, board, base, label, changed>>
      /\ \A t \in Stops : LabelSound(t)
      /\ Orderly
  BY DEF TransitInv, BuildPlan
<1>2. TransitTypes' /\ BoardSound'
  BY <1>1 DEF TransitInv, TransitTypes, BoardSound
<1>3. /\ \A t \in Stops : LabelSound(t)'
      /\ BaseMet' /\ Orderly'
      /\ \A i \in DOMAIN changed' : label'[changed'[i]].kind # "none"
  BY <1>1, <1>2, LabelsStay DEF TransitInv
<1>4. ASSUME plan'.found PROVE PlanSound'
  <2> DEFINE s == BestGoal
  <2>0. PICK legs : legs = LegsTo(s)
    OBVIOUS
  <2>1. /\ Goals # {} /\ Len(legs) \in 1..MaxPlanLegs
        /\ plan' = [found |-> TRUE, legs |-> legs, total |-> label[s].arrival + Egress[s] - Depart]
    BY <1>4, <2>0 DEF BuildPlan, NoPlan
  <2>2. s \in Goals
    BY <1>1, <2>1, BestOfGoals
  <2> HIDE DEF s
  <2>3. /\ s \in DOMAIN Egress /\ s \in Stops /\ Egress[s] \in Nat
        /\ label[s].kind # "none" /\ label[s].arrival \in Nat
    BY <1>1, <2>2, TransitPackAssumption DEF Goals, LabelSound
  <2>4. PICK at \in Stops :
              /\ label[at].kind = "origin"
              /\ legs \in Seq(AllLegs)
              /\ \A i \in 1..Len(legs) : Rideable(legs[i]) \/ Walkable(legs[i])
              /\ \A i \in 2..Len(legs) :
                    /\ legs[i].board = legs[i - 1].alight
                    /\ legs[i].departure >= legs[i - 1].arrival
              /\ Len(legs) = 0 => at = s
              /\ Len(legs) # 0 =>
                    /\ legs[1].board = at /\ label[at].arrival <= legs[1].departure
                    /\ legs[Len(legs)].alight = s
                    /\ legs[Len(legs)].arrival = label[s].arrival
    <3>1. label[s].kind # "none" /\ s \in Stops /\ Orderly /\ \A t \in Stops : LabelSound(t)
      BY <1>1, <2>3
    <3> QED
      BY ONLY <2>0, <3>1, ChainReachesOrigin, ZenonT(40)
  <2>5. Len(legs) # 0 /\ DOMAIN legs = 1..Len(legs)
    BY <2>1, <2>4
  <2>6. /\ at \in DOMAIN Access /\ label[at].arrival = Depart + Access[at]
        /\ Depart \in Nat /\ Access[at] \in Nat
    BY <1>1, <2>4, TransitPackAssumption, TransitPlanAssumption DEF LabelSound
  <2>7. /\ plan'.legs = legs /\ plan'.total = label[s].arrival + Egress[s] - Depart
    BY <2>1
  <2>8. label[s].arrival + Egress[s] = Depart + plan'.total /\ Depart >= 0
    BY <2>3, <2>6, <2>7
  <2>9. \A leg : Rideable(leg)' <=> Rideable(leg)
    BY <1>1 DEF Rideable
  <2>10. \A leg : Walkable(leg)' <=> Walkable(leg)
    BY DEF Walkable
  <2>11. query'.when # "arrive"
    BY <1>1
  <2>12. /\ legs[1].board \in DOMAIN Access /\ legs[Len(legs)].alight \in DOMAIN Egress
         /\ Depart + Access[legs[1].board] <= legs[1].departure
         /\ legs[Len(legs)].arrival + Egress[legs[Len(legs)].alight] = Depart + plan'.total
    BY <2>3, <2>4, <2>5, <2>6, <2>8
  <2>13. \A i \in DOMAIN legs : Rideable(legs[i])' \/ Walkable(legs[i])'
    BY <2>4, <2>5, <2>9, <2>10
  <2>14. \A i \in 2..Len(legs) :
            legs[i].board = legs[i - 1].alight /\ legs[i].departure >= legs[i - 1].arrival
    BY <2>4
  <2> QED
    BY <2>7, <2>8, <2>11, <2>12, <2>13, <2>14, <2>5 DEF PlanSound
<1> QED
  BY <1>1, <1>2, <1>3, <1>4 DEF TransitInv

-----------------------------------------------------------------------------
LEMMA FreshLabels ==
    ASSUME NEW s \in Stops
    PROVE  /\ OriginLabel(s).arrival \in Nat
           /\ OriginLabel(s).kind = "none" \/ OriginLabel(s).kind = "origin"
           /\ OriginLabel(s).kind = "none" => OriginLabel(s).arrival = Inf
           /\ OriginLabel(s).kind = "origin" => s \in DOMAIN Access /\ OriginLabel(s).arrival = Depart + Access[s]
<1>1. CASE s \in DOMAIN Access
  BY <1>1, TransitPackAssumption, TransitPlanAssumption DEF OriginLabel, Unreached
<1>2. CASE s \notin DOMAIN Access
  BY <1>2, TransitPackAssumption DEF OriginLabel, Unreached
<1> QED
  BY <1>1, <1>2

\* Labels of the walks from the origin alone, whatever the timetable is.
LEMMA FreshIsSound ==
    ASSUME Fresh, TransitTypes
    PROVE  TransitInv
<1>1. base = label /\ \A s \in Stops : label[s] = OriginLabel(s)
  BY DEF Fresh
<1>2. \A s \in Stops : /\ label[s].arrival \in Nat
                       /\ label[s].kind \in {"none", "origin"}
                       /\ label[s].kind = "none" => label[s].arrival = Inf
                       /\ label[s].kind = "origin" => s \in DOMAIN Access /\ label[s].arrival = Depart + Access[s]
  BY <1>1, FreshLabels
<1>3. \A s \in Stops : LabelSound(s)
  BY <1>2 DEF LabelSound, Kinds
<1>4. BaseMet
  <2>1. \A s \in Stops :
           /\ label[s].arrival \in Nat /\ label[s].arrival <= label[s].arrival
           /\ label[s].arrival # Inf => label[s].kind # "none"
    BY <1>2
  <2> QED
    BY <1>1, <2>1, Zenon DEF BaseMet
<1>5. Orderly
  <2> DEFINE same == [s \in Stops |-> 0]
  <2>1. same \in [Stops -> Nat] /\ \A s \in Stops : same[s] <= 0
    OBVIOUS
  <2>2. \A s \in Stops : label[s].kind \notin {"vehicle", "walk"}
    BY <1>2
  <2> HIDE DEF same
  <2>3. Ranked(same, 0)
    BY <2>1, <2>2 DEF Ranked
  <2> QED
    BY <2>3 DEF Orderly
<1>6. /\ pc = "idle" /\ board = NoBoard /\ changed = <<>> /\ ~plan.found /\ BoardSound
  BY DEF Fresh, NoPlan, BoardSound
<1> QED
  BY <1>3, <1>4, <1>5, <1>6 DEF TransitInv

LEMMA SuggestKeeps ==
    ASSUME QueryInv, Suggest
    PROVE  QueryInv'
<1>1. TransitInv /\ query \in Queries /\ UNCHANGED queryVars /\ phase = "transit"
  BY DEF QueryInv, Suggest
<1>2. query' = query /\ phase' # "open"
  BY <1>1 DEF queryVars
<1>3. TransitInv'
  BY <1>1, <1>2, StartKeeps, ScanKeeps, TransferKeeps, NextRoundKeeps, BuildKeeps, ArriveKeeps, ScanGoesOn
     DEF Suggest, TransitStep
<1> QED
  BY <1>1, <1>2, <1>3 DEF QueryInv

LEMMA ReadKeeps ==
    ASSUME QueryInv, ReadTimetable
    PROVE  QueryInv'
<1>1. /\ phase = "open" /\ phase' # "open" /\ Fresh /\ TransitInv /\ query \in Queries
      /\ UNCHANGED <<pc, round, trip, event, board, base, label, changed, plan, query>>
      /\ trips' = ActiveTrips(timetable', query.date)
  BY DEF QueryInv, ReadTimetable
<1>2. timetable' \in Seq(Seq(StopEvent))
  <2>1. query.timetable \in Seq(Seq(StopEvent)) /\ <<>> \in Seq(Seq(StopEvent))
    BY <1>1, RouteQueryAssumption DEF QueryShape
  <2>2. timetable \in Seq(Seq(StopEvent))
    BY <1>1 DEF TransitInv, TransitTypes
  <2> QED
    BY <2>1, <2>2 DEF ReadTimetable
<1>3. trips' \subseteq DOMAIN timetable'
  BY <1>1 DEF ActiveTrips
<1>4. TransitTypes'
  BY <1>1, <1>2, <1>3 DEF TransitInv, TransitTypes
<1>5. Fresh'
  BY <1>1 DEF Fresh, OriginLabel
<1>6. (Fresh /\ TransitTypes => TransitInv)'
  BY FreshIsSound, PTL
<1> QED
  BY <1>1, <1>4, <1>5, <1>6 DEF QueryInv

LEMMA TransitWaits ==
    ASSUME QueryInv, UNCHANGED <<transitVars, query>>, phase' # "open" \/ phase' = phase
    PROVE  QueryInv'
<1>1. UNCHANGED <<timetable, trips, pc, round, trip, event, board, base, label, changed, plan, query>>
  BY DEF transitVars
<1>2. TransitInv /\ query' \in Queries
  BY <1>1 DEF QueryInv
<1>3. TransitTypes'
  BY <1>1, <1>2 DEF TransitInv, TransitTypes
<1>4. /\ \A t \in Stops : LabelSound(t)'
      /\ BaseMet' /\ Orderly'
      /\ \A i \in DOMAIN changed' : label'[changed'[i]].kind # "none"
  BY <1>1, <1>2, <1>3, LabelsStay DEF TransitInv
<1>5. BoardSound' /\ (PlanSound' <=> PlanSound)
  BY <1>1, <1>2 DEF TransitInv, BoardSound, PlanSound, Rideable, Walkable
<1>6. TransitInv'
  BY <1>1, <1>2, <1>3, <1>4, <1>5 DEF TransitInv
<1>7. phase' = "open" => Fresh'
  BY <1>1 DEF QueryInv, Fresh, OriginLabel
<1> QED
  BY <1>2, <1>6, <1>7 DEF QueryInv

LEMMA QueryStarts ==
    ASSUME Init
    PROVE  QueryInv
<1>1. /\ query \in Queries /\ timetable = <<>> /\ trips = {} /\ TransitIdle
  BY DEF Init
<1>2. Fresh /\ DOMAIN label = Stops
  BY <1>1 DEF TransitIdle, Fresh
<1>3. <<>> \in Seq(Seq(StopEvent)) /\ <<>> \in Seq(Stops)
  OBVIOUS
<1>4. TransitTypes
  BY <1>1, <1>2, <1>3 DEF TransitTypes, TransitIdle
<1> QED
  BY <1>1, <1>2, <1>4, FreshIsSound DEF QueryInv

\* Whatever is asked, the labels of the public transport search are arrivals
\* that can be had, each of them made from a label that is still there or was
\* only replaced by an earlier one, and so is what a plan is read from
\* (evaluate_transit_plan with main around it).
THEOREM QueryInvariant == Spec => []QueryInv
<1>1. Init => QueryInv
  BY QueryStarts
<1>2. QueryInv /\ [Next]_vars => QueryInv'
  <2> SUFFICES ASSUME QueryInv, [Next]_vars PROVE QueryInv'
    OBVIOUS
  <2>1. CASE ReadTimetable
    BY <2>1, ReadKeeps
  <2>2. CASE Suggest
    BY <2>2, SuggestKeeps
  <2>3. CASE Resolve \/ Check \/ Load \/ LoadGivesUp \/ Snap \/ Search \/ Answer \/ Suggested
           \/ SuggestUnfilled \/ Done
    <3>1. UNCHANGED <<transitVars, query>> /\ (phase' # "open" \/ phase' = phase)
      BY <2>3 DEF Resolve, Check, Load, LoadGivesUp, Snap, Search, Answer, Suggested, SuggestUnfilled, Done, Ended,
                  queryVars, vars
    <3> QED
      BY <3>1, TransitWaits
  <2>4. CASE UNCHANGED vars
    <3>1. UNCHANGED <<transitVars, query>> /\ phase' = phase
      BY <2>4 DEF vars, queryVars
    <3> QED
      BY <3>1, TransitWaits
  <2> QED
    BY <2>1, <2>2, <2>3, <2>4 DEF Next
<1> QED
  BY <1>1, <1>2, PTL DEF Spec

\* A plan that is suggested can be travelled, although the labels it is read
\* from were overwritten by later rounds (transit_build_plan_from_arrivals).
THEOREM SuggestedPlanIsRidable == Spec => []PlanRidable
<1>1. QueryInv => PlanRidable
  BY DEF QueryInv, TransitInv, PlanSound, PlanRidable
<1> QED
  BY <1>1, QueryInvariant, PTL
-----------------------------------------------------------------------------
(***************************************************************************)
(* The hash table of the graph: where linear probing ends.                 *)
(***************************************************************************)
\* The k-th place that is looked at for a coordinate.
Probe(size, c, k) == (Hash[c] + k) % size

\* The first m nodes of cs are in the table, each in one slot, and every slot
\* that is looked at for it before is taken.
InTable(cs, table, size, m) ==
    /\ size \in Nat \ {0} /\ m \in Nat
    /\ DOMAIN table = 0..(size - 1)
    /\ \A s \in 0..(size - 1) : table[s] \in 0..m
    /\ \A s, u \in 0..(size - 1) : table[s] = table[u] /\ table[s] # 0 => s = u
    /\ \A n \in 1..m : \E k \in 0..(size - 1) :
          /\ table[Probe(size, cs[n], k)] = n
          /\ \A j \in 0..(k - 1) : table[Probe(size, cs[n], j)] # 0

\* A number is a remainder in its turn.
LEMMA Remainders ==
    ASSUME NEW size \in Nat \ {0}, NEW h \in Nat
    PROVE  /\ \A k \in Nat : (h + k) % size \in 0..(size - 1)
           /\ \A s \in 0..(size - 1) : \E k \in 0..(size - 1) : (h + k) % size = s
<1>1. ASSUME NEW x \in Nat
      PROVE  x % size \in 0..(size - 1) /\ x \div size \in Nat /\ x = size * (x \div size) + (x % size)
  <2>1. x % size \in 0..(size - 1)
    BY Z3
  <2>2. x \div size \in Nat
    BY Z3
  <2>3. x = (x \div size) * size + (x % size)
    BY Z3
  <2> QED
    BY <2>1, <2>2, <2>3
<1>2. ASSUME NEW q \in Nat, NEW s \in 0..(size - 1) PROVE (size * q + s) % size = s
  BY Z3
<1>3. ASSUME NEW s \in 0..(size - 1) PROVE \E k \in 0..(size - 1) : (h + k) % size = s
  <2> DEFINE q == h \div size
             r == h % size
  <2>1. q \in Nat /\ r \in 0..(size - 1) /\ h = size * q + r
    BY <1>1
  <2> HIDE DEF q, r
  <2>2. CASE r <= s
    <3>1. s - r \in 0..(size - 1) /\ h + (s - r) = size * q + s
      BY <2>1, <2>2
    <3> QED
      BY <1>2, <2>1, <3>1, Zenon
  <2>3. CASE r > s
    <3> DEFINE k == s + size - r
    <3>1. k \in 0..(size - 1) /\ h + k = (size * q + size) + s
      BY <2>1, <2>3
    <3>2. size * q + size = size * (q + 1) /\ q + 1 \in Nat
      BY <2>1
    <3>3. (size * (q + 1) + s) % size = s
      BY <1>2, <3>2
    <3> HIDE DEF k
    <3>4. h + k = size * (q + 1) + s
      BY <3>1, <3>2
    <3> QED
      BY <3>1, <3>3, <3>4
  <2> QED
    BY <2>1, <2>2, <2>3
<1>4. ASSUME NEW k \in Nat PROVE (h + k) % size \in 0..(size - 1)
  <2>1. h + k \in Nat
    OBVIOUS

  <2> QED
    BY <1>1, <2>1, Zenon
<1> QED
  BY <1>3, <1>4

\* A table that is not full has a slot that is free for a coordinate.
LEMMA FreeSlot ==
    ASSUME NEW cs, NEW table, NEW size, NEW m, InTable(cs, table, size, m), m < size
    PROVE  \E s \in 0..(size - 1) : table[s] = 0
<1>1. SUFFICES ASSUME \A s \in 0..(size - 1) : table[s] # 0 PROVE FALSE
  OBVIOUS
<1> DEFINE S == 0..(size - 1)
           T == 1..m
           f == [s \in S |-> table[s]]
<1>2. f \in [S -> T]
  BY <1>1 DEF InTable
<1>3. IsFiniteSet(S) /\ Cardinality(S) = size /\ IsFiniteSet(T) /\ Cardinality(T) = m
  BY FS_Interval DEF InTable
<1>4. \A x, y \in S : f[x] = f[y] => x = y
  BY <1>1 DEF InTable
<1> HIDE DEF S, T, f
<1> QED
  BY <1>2, <1>3, <1>4, FS_PigeonHole

\* The slot at which the search for a coordinate ends.
LEMMA SlotForIs ==
    ASSUME NEW table, NEW size, NEW c \in Coords, coords \in Seq(Coords),
           InTable(coords, table, size, Len(coords)), Len(coords) < size
    PROVE  \E k \in 0..(size - 1) :
              /\ SlotFor(table, c) = Probe(size, c, k)
              /\ table[Probe(size, c, k)] = 0 \/ coords[table[Probe(size, c, k)]] = c
              /\ \A j \in 0..(k - 1) :
                    table[Probe(size, c, j)] # 0 /\ coords[table[Probe(size, c, j)]] # c
<1>1. size \in Nat \ {0} /\ DOMAIN table = 0..(size - 1) /\ Hash[c] \in Nat
  BY RouteGraphAssumption DEF InTable
<1>2. Cardinality(DOMAIN table) = size
  BY <1>1, FS_Interval
<1> DEFINE ends == {k \in 0..(size - 1) :
                      table[Probe(size, c, k)] = 0 \/ coords[table[Probe(size, c, k)]] = c}
<1>3. SlotFor(table, c) = Probe(size, c, Min(ends))
  BY <1>2 DEF SlotFor, Probe
<1>4. ends # {}
  <2>1. PICK s \in 0..(size - 1) : table[s] = 0
    BY FreeSlot
  <2>2. PICK k \in 0..(size - 1) : (Hash[c] + k) % size = s
    BY <1>1, Remainders
  <2> QED
    BY <2>1, <2>2 DEF Probe
<1>5. PICK k \in ends : \A j \in ends : k <= j
  <2>1. ends \in SUBSET Nat
    BY <1>1
  <2> HIDE DEF ends
  <2> QED
    BY <1>4, <2>1, LeastNat
<1>6. Min(ends) = k
  <2>1. \A x \in ends : x \in Int
    BY <1>1
  <2> HIDE DEF ends
  <2>2. ASSUME NEW x \in ends, \A y \in ends : x <= y PROVE x = k
    BY <1>5, <2>1, <2>2
  <2> QED
    BY <1>5, <2>2 DEF Min
<1>7. \A j \in 0..(k - 1) : j \in 0..(size - 1) /\ j \notin ends
  <2>1. k \in 0..(size - 1)
    BY <1>5
  <2>2. \A j \in 0..(k - 1) : ~(k <= j) /\ j \in 0..(size - 1)
    BY <1>1, <2>1
  <2> HIDE DEF ends
  <2> QED
    BY <1>5, <2>2
<1> QED
  BY <1>3, <1>5, <1>6, <1>7

\* A node in the slot at which the search for its coordinate ends.
LEMMA Placed ==
    ASSUME NEW cs, NEW table, NEW size, NEW m, InTable(cs, table, size, m), \A n \in 1..(m + 1) : Hash[cs[n]] \in Nat,
           NEW k \in 0..(size - 1), table[Probe(size, cs[m + 1], k)] = 0,
           \A j \in 0..(k - 1) : table[Probe(size, cs[m + 1], j)] # 0
    PROVE  InTable(cs, [table EXCEPT ![Probe(size, cs[m + 1], k)] = m + 1], size, m + 1)
<1> DEFINE at == Probe(size, cs[m + 1], k)
           new == [table EXCEPT ![at] = m + 1]
<1>1. /\ size \in Nat \ {0} /\ m \in Nat /\ DOMAIN table = 0..(size - 1)
      /\ \A s \in 0..(size - 1) : table[s] \in 0..m
  BY DEF InTable
<1>2. ASSUME NEW n \in 1..(m + 1), NEW j \in 0..(size - 1)
      PROVE  Probe(size, cs[n], j) \in 0..(size - 1)
  <2>1. Hash[cs[n]] \in Nat /\ j \in Nat
    BY <1>1
  <2> QED
    BY <1>1, <2>1, Remainders DEF Probe
<1>3. at \in 0..(size - 1) /\ table[at] = 0
  <2>1. m + 1 \in 1..(m + 1)
    BY <1>1
  <2> QED
    BY <1>2, <2>1
<1>4. /\ DOMAIN new = 0..(size - 1) /\ new[at] = m + 1
      /\ \A s \in 0..(size - 1) : s # at => new[s] = table[s]
  BY <1>1, <1>3
<1> HIDE DEF new, at
<1>5. \A s \in 0..(size - 1) : new[s] \in 0..(m + 1)
  BY <1>1, <1>4
<1>6. \A s, u \in 0..(size - 1) : new[s] = new[u] /\ new[s] # 0 => s = u
  <2>1. \A s \in 0..(size - 1) : table[s] # m + 1
    BY <1>1
  <2>2. \A s, u \in 0..(size - 1) : table[s] = table[u] /\ table[s] # 0 => s = u
    BY DEF InTable
  <2> QED
    BY <1>4, <2>1, <2>2
<1>7. \A s \in 0..(size - 1) : table[s] # 0 => new[s] # 0
  BY <1>3, <1>4
<1>8. ASSUME NEW n \in 1..(m + 1)
      PROVE  \E i \in 0..(size - 1) : /\ new[Probe(size, cs[n], i)] = n
                                      /\ \A j \in 0..(i - 1) : new[Probe(size, cs[n], j)] # 0
  <2>1. CASE n = m + 1
    <3>1. \A j \in 0..(k - 1) : new[Probe(size, cs[n], j)] # 0
      <4>1. \A j \in 0..(k - 1) : j \in 0..(size - 1)
        BY <1>1
      <4> QED
        BY <1>2, <1>7, <2>1, <4>1
    <3>2. new[Probe(size, cs[n], k)] = n
      BY <1>4, <2>1 DEF at
    <3> QED
      BY <3>1, <3>2
  <2>2. CASE n # m + 1
    <3>1. n \in 1..m
      BY <1>1, <2>2
    <3>2. PICK i \in 0..(size - 1) : /\ table[Probe(size, cs[n], i)] = n
                                     /\ \A j \in 0..(i - 1) : table[Probe(size, cs[n], j)] # 0
      BY <3>1 DEF InTable
    <3>3. \A j \in 0..(i - 1) : j \in 0..(size - 1)
      BY <1>1
    <3>4. \A j \in 0..(i - 1) : new[Probe(size, cs[n], j)] # 0
      BY <1>2, <1>7, <3>2, <3>3
    <3>5. Probe(size, cs[n], i) \in 0..(size - 1)
      BY <1>2, Zenon
    <3>6. Probe(size, cs[n], i) # at
      BY <1>3, <3>1, <3>2
    <3> QED
      BY <1>4, <3>2, <3>4, <3>5, <3>6
  <2> QED
    BY <2>1, <2>2
<1>9. m + 1 \in Nat
  BY <1>1
<1>10. InTable(cs, new, size, m + 1)
  BY <1>1, <1>4, <1>5, <1>6, <1>8, <1>9 DEF InTable
<1> QED
  BY <1>10 DEF new, at

\* A table that is made anew has all nodes (graph_rehash).
LEMMA RehashedIs ==
    ASSUME NEW size \in Nat \ {0}, coords \in Seq(Coords), Len(coords) <= size
    PROVE  InTable(coords, Rehashed(size), size, Len(coords))
<1> DEFINE N == Len(coords)
           Blank == [s \in 0..(size - 1) |-> 0]
           Open(n, t) == {k \in 0..(size - 1) : t[(Hash[coords[n]] + k) % size] = 0}
           Put(n, t) == [t EXCEPT ![(Hash[coords[n]] + Min(Open(n, t))) % size] = n]
           Up(n, f) == f = [k \in 0..n |-> IF k = 0 THEN Blank ELSE Put(k, f[k - 1])]
           T == {n \in Nat : \E f : Up(n, f)}
<1>0. N \in Nat /\ \A n \in 1..N : coords[n] \in Coords /\ Hash[coords[n]] \in Nat
  BY LenProperties, ElementOfSeq, RouteGraphAssumption
<1>1. Rehashed(size) = (CHOOSE f : Up(N, f))[N]
  BY DEF Rehashed
<1> HIDE DEF Put, Blank, N
<1>2. 0 \in T
  <2>1. Up(0, [k \in 0..0 |-> Blank])
    OBVIOUS
  <2> HIDE DEF Up
  <2> QED
    BY <2>1
<1>3. ASSUME NEW n \in Nat, n \in T PROVE n + 1 \in T
  <2>1. PICK f : Up(n, f)
    BY <1>3
  <2> DEFINE g == [k \in 0..(n + 1) |-> IF k = 0 THEN Blank ELSE Put(k, f[k - 1])]
  <2>2. ASSUME NEW k \in 0..(n + 1), k # 0 PROVE f[k - 1] = g[k - 1]
    <3>1. k - 1 \in 0..n /\ k - 1 \in 0..(n + 1)
      BY <2>2
    <3>2. f[k - 1] = IF k - 1 = 0 THEN Blank ELSE Put(k - 1, f[k - 1 - 1])
      BY <2>1, <3>1
    <3> QED
      BY <3>1, <3>2
  <2>3. g = [k \in 0..(n + 1) |-> IF k = 0 THEN Blank ELSE Put(k, g[k - 1])]
    <3>1. \A k \in 0..(n + 1) :
             (IF k = 0 THEN Blank ELSE Put(k, f[k - 1])) = (IF k = 0 THEN Blank ELSE Put(k, g[k - 1]))
      BY <2>2
    <3> QED
      BY <3>1
  <2> HIDE DEF g
  <2>4. Up(n + 1, g)
    BY <2>3
  <2> HIDE DEF Up
  <2> QED
    BY <2>4
<1>4. \E f : Up(N, f)
  <2> HIDE DEF Up
  <2>1. N \in T
    <3> HIDE DEF T
    <3> QED
      BY <1>0, <1>2, <1>3, EveryNumber
  <2> QED
    BY <2>1
<1>5. PICK f : Up(N, f) /\ Rehashed(size) = f[N]
  <2> HIDE DEF Up
  <2> QED
    BY <1>1, <1>4
<1>6. f[0] = Blank
  BY <1>0, <1>5
<1>7. \A k \in 1..N : f[k] = Put(k, f[k - 1])
  BY <1>0, <1>5
<1> HIDE DEF Up
<1> DEFINE Z == {n \in 0..N : InTable(coords, f[n], size, n)}
<1>8. 0 \in Z
  <2>1. InTable(coords, Blank, size, 0)
    BY DEF InTable, Blank
  <2> QED
    BY <1>0, <1>6, <2>1
<1>9. ASSUME NEW n \in 1..N, n - 1 \in Z PROVE n \in Z
  <2> DEFINE t == f[n - 1]
             c == coords[n]
             open == Open(n, t)
  <2>1. InTable(coords, t, size, n - 1) /\ n - 1 < size /\ n \in Nat /\ n - 1 + 1 = n
    BY <1>0, <1>9 DEF N
  <2>2. f[n] = Put(n, t)
    BY <1>7
  <2> HIDE DEF t
  <2>3. open # {}
    <3>1. PICK s \in 0..(size - 1) : t[s] = 0
      BY <2>1, FreeSlot
    <3>2. PICK k \in 0..(size - 1) : (Hash[c] + k) % size = s
      BY <1>0, Remainders
    <3> QED
      BY <3>1, <3>2
  <2>4. PICK k \in open : \A j \in open : k <= j
    <3>1. open \in SUBSET Nat
      OBVIOUS
    <3> HIDE DEF open
    <3> QED
      BY <2>3, <3>1, LeastNat
  <2>5. Min(open) = k
    <3>1. \A x \in open : x \in Int
      OBVIOUS
    <3> HIDE DEF open
    <3>2. ASSUME NEW x \in open, \A y \in open : x <= y PROVE x = k
      BY <2>4, <3>1, <3>2
    <3> QED
      BY <2>4, <3>2 DEF Min
  <2>6. f[n] = [t EXCEPT ![Probe(size, c, k)] = n]
    BY <2>2, <2>5 DEF Put, Probe
  <2>7. k \in 0..(size - 1) /\ t[Probe(size, c, k)] = 0
    BY <2>4 DEF Probe
  <2>8. \A j \in 0..(k - 1) : t[Probe(size, c, j)] # 0
    <3>1. \A j \in 0..(k - 1) : j \in 0..(size - 1) /\ ~(k <= j)
      BY <2>7
    <3>2. \A j \in 0..(k - 1) : j \notin open
      <4> HIDE DEF open
      <4> QED
        BY <2>4, <3>1
    <3> QED
      BY <3>1, <3>2 DEF Probe
  <2>9. \A i \in 1..n : Hash[coords[i]] \in Nat
    BY <1>0
  <2> DEFINE m == n - 1
  <2>10. InTable(coords, [t EXCEPT ![Probe(size, c, k)] = n], size, n)
    <3> HIDE DEF open
    <3>1. m + 1 = n /\ InTable(coords, t, size, m)
      BY <2>1
    <3> HIDE DEF m
    <3>2. /\ \A i \in 1..(m + 1) : Hash[coords[i]] \in Nat
          /\ t[Probe(size, coords[m + 1], k)] = 0
          /\ \A j \in 0..(k - 1) : t[Probe(size, coords[m + 1], j)] # 0
      BY <2>7, <2>8, <2>9, <3>1
    <3>3. InTable(coords, [t EXCEPT ![Probe(size, coords[m + 1], k)] = m + 1], size, m + 1)
      BY <2>7, <3>1, <3>2, Placed, Zenon
    <3> QED
      BY <3>1, <3>3
  <2> QED
    BY <2>6, <2>10
<1>10. N \in Z
  <2>1. Z \in SUBSET (0..N)
    OBVIOUS
  <2> HIDE DEF Z
  <2> QED
    BY <1>0, <1>8, <1>9, <2>1, AlongWalk
<1> QED
  BY <1>5, <1>10 DEF N

\* The table has the nodes there are, before and after it is there at all.
TableKept ==
    \/ slots = <<>> /\ coords = <<>>
    \/ \E size \in Nat \ {0} : InTable(coords, slots, size, Len(coords)) /\ Len(coords) <= size

\* There is room for one more node before it is looked for.
LEMMA RoomyIs ==
    ASSUME coords \in Seq(Coords), TableKept
    PROVE  \E size \in Nat \ {0} : InTable(coords, RoomyTable, size, Len(coords)) /\ Len(coords) < size
<1>0. Len(coords) \in Nat
  BY LenProperties
<1>1. CASE slots = <<>> /\ coords = <<>>
  <2>1. Cardinality(DOMAIN slots) = 0 /\ Len(coords) = 0
    BY <1>1, FS_EmptySet
  <2>2. RoomyTable = Rehashed(SlotChunk)
    BY <2>1 DEF RoomyTable
  <2>3. SlotChunk \in Nat \ {0} /\ Len(coords) < SlotChunk /\ Len(coords) <= SlotChunk
    BY <2>1, RouteGraphAssumption
  <2>4. InTable(coords, Rehashed(SlotChunk), SlotChunk, Len(coords))
    BY <2>3, RehashedIs
  <2> QED
    BY <2>2, <2>3, <2>4
<1>2. ASSUME NEW size \in Nat \ {0}, InTable(coords, slots, size, Len(coords)), Len(coords) <= size
      PROVE  \E s \in Nat \ {0} : InTable(coords, RoomyTable, s, Len(coords)) /\ Len(coords) < s
  <2>1. Cardinality(DOMAIN slots) = size
    <3>1. DOMAIN slots = 0..(size - 1)
      BY <1>2 DEF InTable
    <3> QED
      BY <3>1, FS_Interval
  <2>2. CASE (Len(coords) + 1) * 2 >= size
    <3>1. RoomyTable = Rehashed(2 * size)
      BY <2>1, <2>2 DEF RoomyTable
    <3>2. 2 * size \in Nat \ {0} /\ Len(coords) <= 2 * size /\ Len(coords) < 2 * size
      BY <1>0, <1>2
    <3>3. InTable(coords, Rehashed(2 * size), 2 * size, Len(coords))
      BY <3>2, RehashedIs
    <3> QED
      BY <3>1, <3>2, <3>3
  <2>3. CASE ~((Len(coords) + 1) * 2 >= size)
    <3>1. RoomyTable = slots
      BY <2>1, <2>3 DEF RoomyTable
    <3>2. Len(coords) < size
      BY <1>0, <2>3
    <3> QED
      BY <1>2, <3>1, <3>2
  <2> QED
    BY <2>2, <2>3
<1> QED
  BY <1>1, <1>2 DEF TableKept

\* No two nodes have one coordinate.
Apart(cs) == \A i, j \in 1..Len(cs) : cs[i] = cs[j] => i = j

\* The next node of a tile is the one that has its coordinate, or a new one
\* (graph_node_for_coord).
LEMMA LoadNodeIs ==
    ASSUME coords \in Seq(Coords), TableKept, LoadNode, Payload.nodes \in Seq(Coords),
           toGlobal \in Seq(Nat)
    PROVE  /\ TableKept'
           /\ \E c \in Coords, n \in Nat :
                 /\ c = Payload.nodes[Len(toGlobal) + 1]
                 /\ toGlobal' = Append(toGlobal, n)
                 /\ \/ n \in 1..Len(coords) /\ coords[n] = c /\ UNCHANGED <<coords, out>>
                    \/ /\ n = Len(coords) + 1
                       /\ coords' = Append(coords, c) /\ out' = Append(out, <<>>)
                       /\ \A i \in 1..Len(coords) : coords[i] # c
<1>0. Len(coords) \in Nat /\ Len(toGlobal) \in Nat
  BY LenProperties
<1>1. PICK c : c = Payload.nodes[Len(toGlobal) + 1]
  OBVIOUS
<1>2. c \in Coords
  <2>1. Len(toGlobal) + 1 \in 1..Len(Payload.nodes)
    BY <1>0, LenProperties DEF LoadNode
  <2> QED
    BY <1>1, <2>1, ElementOfSeq
<1>3. PICK size \in Nat \ {0} : InTable(coords, RoomyTable, size, Len(coords)) /\ Len(coords) < size
  BY RoomyIs
<1>4. PICK table : table = RoomyTable
  OBVIOUS
<1>5. PICK slot : slot = SlotFor(table, c)
  OBVIOUS
<1>6. \/ /\ table[slot] # 0 /\ slots' = table
         /\ toGlobal' = Append(toGlobal, table[slot])
         /\ UNCHANGED <<coords, out>>
      \/ /\ table[slot] = 0 /\ slots' = [table EXCEPT ![slot] = Len(coords) + 1]
         /\ coords' = Append(coords, c) /\ out' = Append(out, <<>>)
         /\ toGlobal' = Append(toGlobal, Len(coords) + 1)
  BY <1>1, <1>4, <1>5 DEF LoadNode
<1>7. InTable(coords, table, size, Len(coords))
  BY <1>3, <1>4
<1>8. PICK k \in 0..(size - 1) :
          /\ slot = Probe(size, c, k)
          /\ table[Probe(size, c, k)] = 0 \/ coords[table[Probe(size, c, k)]] = c
          /\ \A j \in 0..(k - 1) :
                table[Probe(size, c, j)] # 0 /\ coords[table[Probe(size, c, j)]] # c
  <2>1. Len(coords) < size
    BY <1>3
  <2> QED
    BY ONLY <1>0, <1>2, <1>5, <1>7, <2>1, coords \in Seq(Coords), SlotForIs
<1>9. slot \in 0..(size - 1)
  <2>1. Hash[c] \in Nat /\ k \in Nat
    BY <1>2, <1>3, RouteGraphAssumption
  <2> QED
    BY <1>3, <1>8, <2>1, Remainders DEF Probe
<1>10. CASE table[slot] # 0
  <2>1. table[slot] \in 1..Len(coords)
    BY <1>0, <1>7, <1>9, <1>10 DEF InTable
  <2>2. coords[table[slot]] = c
    BY <1>8, <1>10
  <2>3. slots' = table /\ toGlobal' = Append(toGlobal, table[slot]) /\ UNCHANGED <<coords, out>>
    BY <1>6, <1>10
  <2>4. TableKept'
    BY <1>3, <1>7, <2>3 DEF TableKept
  <2>5. table[slot] \in Nat
    BY <2>1
  <2> QED
    BY <1>1, <1>2, <2>1, <2>2, <2>3, <2>4, <2>5
<1>11. CASE table[slot] = 0
  <2> DEFINE m == Len(coords)
             new == Append(coords, c)
  <2>1. /\ slots' = [table EXCEPT ![slot] = m + 1] /\ coords' = new /\ out' = Append(out, <<>>)
        /\ toGlobal' = Append(toGlobal, m + 1)
    BY <1>6, <1>11
  <2>2. /\ new \in Seq(Coords) /\ Len(new) = m + 1 /\ new[m + 1] = c
        /\ \A i \in 1..m : new[i] = coords[i]
    BY <1>2, AppendProperties
  <2>3. \A i \in 1..(m + 1) : new[i] \in Coords /\ Hash[new[i]] \in Nat
    BY <2>2, ElementOfSeq, RouteGraphAssumption
  <2>4. InTable(new, table, size, m)
    BY <1>7, <2>2 DEF InTable
  <2>5. \A i \in 1..m : coords[i] # c
    <3> SUFFICES ASSUME NEW i \in 1..m, coords[i] = c PROVE FALSE
      OBVIOUS
    <3>1. PICK h \in 0..(size - 1) :
              /\ table[Probe(size, c, h)] = i
              /\ \A j \in 0..(h - 1) : table[Probe(size, c, j)] # 0
      <4>1. \E h \in 0..(size - 1) : /\ table[Probe(size, coords[i], h)] = i
                                     /\ \A j \in 0..(h - 1) : table[Probe(size, coords[i], j)] # 0
        BY <1>7 DEF InTable
      <4>2. coords[i] = c
        OBVIOUS
      <4> QED
        BY <4>1, <4>2
    <3>2. ~(h < k)
      BY <1>8, <3>1
    <3>3. ~(k < h)
      BY <1>8, <1>11, <3>1
    <3>4. h = k
      BY <3>2, <3>3
    <3> QED
      BY <1>0, <1>8, <1>11, <3>1, <3>4
  <2> HIDE DEF new, m
  <2>6. InTable(new, [table EXCEPT ![slot] = m + 1], size, m + 1)
    <3>1. table[Probe(size, new[m + 1], k)] = 0
      BY <1>8, <1>11, <2>2
    <3>2. \A j \in 0..(k - 1) : table[Probe(size, new[m + 1], j)] # 0
      BY <1>8, <2>2
    <3>3. \A i \in 1..(m + 1) : Hash[new[i]] \in Nat
      BY <2>3
    <3>4. InTable(new, [table EXCEPT ![Probe(size, new[m + 1], k)] = m + 1], size, m + 1)
      BY <2>4, <3>1, <3>2, <3>3, Placed, Zenon
    <3> QED
      BY <1>8, <2>2, <3>4
  <2>7. TableKept'
    <3>1. m + 1 <= size /\ InTable(coords', slots', size, m + 1) /\ Len(coords') = m + 1
      BY <1>0, <1>3, <2>1, <2>2, <2>6 DEF m
    <3> QED
      BY <3>1 DEF TableKept
  <2>8. m + 1 \in Nat
    BY <1>0 DEF m
  <2> QED
    BY <1>1, <1>2, <2>1, <2>5, <2>7, <2>8 DEF m, new
<1> QED
  BY <1>10, <1>11

\* The binary search finds the tile of an id, if the pack has it (find_tile_by_id).
LEMMA FindTileIs ==
    ASSUME PackShape(directory), NEW id \in Nat
    PROVE  /\ FindTile(id) \in 0..Len(directory)
           /\ FindTile(id) # 0 => directory[FindTile(id)].id = id
           /\ FindTile(id) = 0 => \A t \in 1..Len(directory) : directory[t].id # id
<1> DEFINE L == Len(directory)
           D == 0..L
           Ids(t) == directory[t].id
           In(low, high) == \E t \in (low + 1)..high : Ids(t) = id
           G(low, high) == IF In(low, high) THEN CHOOSE t \in 1..L : Ids(t) = id ELSE 0
           Mid(low, high) == low + ((high - low) \div 2)
           Body(f, low, high) ==
               IF low >= high THEN 0
               ELSE IF Ids(Mid(low, high) + 1) = id THEN Mid(low, high) + 1
               ELSE IF Ids(Mid(low, high) + 1) < id THEN f[<<Mid(low, high) + 1, high>>]
               ELSE f[<<low, Mid(low, high)>>]
           Up(f) == f = [p \in D \X D |-> Body(f, p[1], p[2])]
<1>1. L \in Nat /\ \A t \in 1..L : Ids(t) \in Nat
  <2>1. directory \in Seq(TileRecord)
    BY DEF PackShape
  <2>2. L \in Nat /\ \A t \in 1..L : directory[t] \in TileRecord
    BY <2>1, LenProperties, ElementOfSeq
  <2> QED
    BY <2>2 DEF TileRecord
<1>2. \A t, u \in 1..L : t < u => Ids(t) < Ids(u)
  BY LenProperties DEF PackShape
<1>3. FindTile(id) = (CHOOSE f : Up(f))[<<0, L>>]
  BY DEF FindTile
<1> HIDE DEF L, Ids
<1>4. ASSUME NEW low \in D, NEW high \in D, low < high
      PROVE  /\ Mid(low, high) \in D /\ Mid(low, high) + 1 \in D /\ Mid(low, high) + 1 \in 1..L
             /\ low <= Mid(low, high) /\ Mid(low, high) < high
  BY <1>1, <1>4
<1>5. ASSUME NEW low \in D, NEW high \in D, low >= high PROVE G(low, high) = 0
  BY <1>1, <1>5
<1>6. ASSUME NEW F, NEW low \in D, NEW high \in D,
             low < high => /\ F[<<Mid(low, high) + 1, high>>] = G(Mid(low, high) + 1, high)
                           /\ F[<<low, Mid(low, high)>>] = G(low, Mid(low, high))
      PROVE  Body(F, low, high) = G(low, high)
  <2>1. CASE low >= high
    BY <1>5, <2>1
  <2>2. CASE low < high
    <3> DEFINE mid == Mid(low, high)
    <3>1. /\ mid \in D /\ mid + 1 \in 1..L /\ low <= mid /\ mid < high
          /\ F[<<mid + 1, high>>] = G(mid + 1, high) /\ F[<<low, mid>>] = G(low, mid)
      BY <1>4, <1>6, <2>2
    <3>2. Body(F, low, high) = IF Ids(mid + 1) = id THEN mid + 1
                               ELSE IF Ids(mid + 1) < id THEN G(mid + 1, high) ELSE G(low, mid)
      BY <1>1, <2>2, <3>1
    <3> HIDE DEF mid, Body, Mid
    <3>3. \A t \in 1..L : Ids(t) = id /\ Ids(mid + 1) = id => t = mid + 1
      BY <1>1, <1>2, <3>1
    <3>4. \A t \in 1..L : Ids(t) = id /\ Ids(mid + 1) < id => t > mid + 1
      BY <1>1, <1>2, <3>1
    <3>5. \A t \in 1..L : Ids(t) = id /\ ~(Ids(mid + 1) < id) /\ Ids(mid + 1) # id => t < mid + 1
      BY <1>1, <1>2, <3>1
    <3>6. CASE Ids(mid + 1) = id
      <4>1. In(low, high)
        BY <1>1, <3>1, <3>6
      <4>2. (CHOOSE t \in 1..L : Ids(t) = id) = mid + 1
        BY <3>1, <3>3, <3>6
      <4> QED
        BY <3>2, <3>6, <4>1, <4>2
    <3>7. CASE Ids(mid + 1) # id /\ Ids(mid + 1) < id
      <4>1. In(low, high) <=> In(mid + 1, high)
        BY <1>1, <3>1, <3>4, <3>7
      <4> HIDE DEF In
      <4> QED
        BY <3>2, <3>7, <4>1
    <3>8. CASE Ids(mid + 1) # id /\ ~(Ids(mid + 1) < id)
      <4>1. In(low, high) <=> In(low, mid)
        BY <1>1, <3>1, <3>5, <3>8
      <4> HIDE DEF In
      <4> QED
        BY <3>2, <3>8, <4>1
    <3> QED
      BY <3>6, <3>7, <3>8
  <2>3. low < high \/ low >= high
    BY <1>1
  <2> QED
    BY <2>1, <2>2, <2>3
<1> HIDE DEF In, G
<1>7. \E f : Up(f)
  <2> DEFINE g == [p \in D \X D |-> G(p[1], p[2])]
  <2>1. \A low, high \in D : g[<<low, high>>] = G(low, high)
    OBVIOUS
  <2>2. ASSUME NEW low \in D, NEW high \in D PROVE Body(g, low, high) = G(low, high)
    <3>1. low < high => /\ g[<<Mid(low, high) + 1, high>>] = G(Mid(low, high) + 1, high)
                        /\ g[<<low, Mid(low, high)>>] = G(low, Mid(low, high))
      BY <1>4, <2>1
    <3> HIDE DEF g, Body, Mid
    <3> QED
      BY <1>6, <3>1
  <2> HIDE DEF Body
  <2>3. [p \in D \X D |-> Body(g, p[1], p[2])] = [p \in D \X D |-> G(p[1], p[2])]
    BY <2>2
  <2>4. Up(g)
    BY <2>3
  <2> HIDE DEF Up, g
  <2> QED
    BY <2>4
<1>8. PICK f : Up(f) /\ FindTile(id) = f[<<0, L>>]
  <2> HIDE DEF Up
  <2> QED
    BY <1>3, <1>7
<1>9. \A low, high \in D : f[<<low, high>>] = Body(f, low, high)
  <2> HIDE DEF Body
  <2> QED
    BY <1>8
<1> HIDE DEF Up
<1> DEFINE T == {n \in Nat : \A low, high \in D : high - low <= n => f[<<low, high>>] = G(low, high)}
<1>10. 0 \in T
  <2> SUFFICES ASSUME NEW low \in D, NEW high \in D, high - low <= 0 PROVE f[<<low, high>>] = G(low, high)
    OBVIOUS
  <2>1. low >= high
    BY <1>1
  <2> QED
    BY <1>5, <1>9, <2>1
<1>11. ASSUME NEW n \in Nat, n \in T PROVE n + 1 \in T
  <2> SUFFICES ASSUME NEW low \in D, NEW high \in D, high - low <= n + 1 PROVE f[<<low, high>>] = G(low, high)
    OBVIOUS
  <2>1. ASSUME low < high
        PROVE  /\ f[<<Mid(low, high) + 1, high>>] = G(Mid(low, high) + 1, high)
               /\ f[<<low, Mid(low, high)>>] = G(low, Mid(low, high))
    <3> DEFINE mid == Mid(low, high)
    <3>1. mid \in D /\ mid + 1 \in D /\ low <= mid /\ mid < high
      BY <1>4, <2>1
    <3> HIDE DEF mid
    <3>2. high - (mid + 1) <= n /\ mid - low <= n
      BY <1>1, <3>1
    <3> QED
      BY <1>11, <3>1, <3>2 DEF mid
  <2> HIDE DEF Body, Mid
  <2>2. Body(f, low, high) = G(low, high)
    BY <1>6, <2>1
  <2> QED
    BY <1>9, <2>2
<1>12. L \in T
  <2> HIDE DEF T
  <2> QED
    BY <1>1, <1>10, <1>11, EveryNumber
<1>13. FindTile(id) = G(0, L)
  BY <1>1, <1>8, <1>12
<1>14. In(0, L) <=> \E t \in 1..L : Ids(t) = id
  BY <1>1 DEF In
<1>15. G(0, L) = IF \E t \in 1..L : Ids(t) = id THEN CHOOSE t \in 1..L : Ids(t) = id ELSE 0
  BY <1>14 DEF G
<1>16. CASE \E t \in 1..L : Ids(t) = id
  <2>1. PICK t \in 1..L : Ids(t) = id /\ FindTile(id) = t
    BY <1>13, <1>15, <1>16
  <2> QED
    BY <1>1, <2>1 DEF Ids, L
<1>17. CASE ~\E t \in 1..L : Ids(t) = id
  <2>1. FindTile(id) = 0
    BY <1>13, <1>15, <1>17
  <2> QED
    BY <1>1, <1>17, <2>1 DEF Ids, L
<1> QED
  BY <1>16, <1>17

\* An edge of the tile that is linked, and what it becomes.
Keeps(edge) == ~(edge.to > Len(toGlobal) \/ toGlobal[edge.to] = toGlobal[linked + 1])
NewEdge(edge) == [to |-> toGlobal[edge.to], meters |-> IF edge.meters = 0 THEN 1 ELSE edge.meters]

Elements(q) == {q[i] : i \in DOMAIN q}

\* One edge of a node: kept in front of its list, or left out (graph_add_edge).
LEMMA LinkedIs ==
    ASSUME NEW S, NEW q \in Seq(S), NEW edge, Keeps(edge) => NewEdge(edge) \in S
    PROVE  /\ Linked(q, edge) \in Seq(S)
           /\ Elements(Linked(q, edge)) = Elements(q) \cup (IF Keeps(edge) THEN {NewEdge(edge)} ELSE {})
<1>1. CASE ~Keeps(edge)
  BY <1>1 DEF Linked, Keeps
<1>2. CASE Keeps(edge)
  <2> DEFINE e == NewEdge(edge)
             r == <<e>> \o q
  <2>1. Linked(q, edge) = r
    BY <1>2 DEF Linked, Keeps, NewEdge
  <2>2. e \in S
    BY <1>2
  <2> HIDE DEF e
  <2>3. /\ r \in Seq(S) /\ Len(r) = Len(q) + 1 /\ Len(q) \in Nat /\ r[1] = e
        /\ \A i \in 2..(Len(q) + 1) : r[i] = q[i - 1]
    BY <2>2, Prepended
  <2> HIDE DEF r
  <2>4. DOMAIN r = 1..(Len(q) + 1) /\ DOMAIN q = 1..Len(q)
    BY <2>3, LenProperties
  <2>5. ASSUME NEW x \in Elements(r) PROVE x \in Elements(q) \cup {e}
    <3>1. PICK i \in 1..(Len(q) + 1) : x = r[i]
      BY <2>4 DEF Elements
    <3>2. i = 1 \/ (i \in 2..(Len(q) + 1) /\ i - 1 \in 1..Len(q))
      BY <2>3
    <3> QED
      BY <2>3, <2>4, <3>1, <3>2 DEF Elements
  <2>6. ASSUME NEW x \in Elements(q) \cup {e} PROVE x \in Elements(r)
    <3>1. CASE x = e
      <4>1. 1 \in 1..(Len(q) + 1)
        BY <2>3
      <4> QED
        BY <2>3, <2>4, <3>1, <4>1 DEF Elements
    <3>2. CASE x \in Elements(q)
      <4>1. PICK i \in 1..Len(q) : x = q[i]
        BY <2>4, <3>2 DEF Elements
      <4>2. i + 1 \in 2..(Len(q) + 1) /\ i + 1 \in DOMAIN r /\ i + 1 - 1 = i
        BY <2>3, <2>4
      <4>3. r[i + 1] = x
        BY <2>3, <4>1, <4>2
      <4> QED
        BY <4>2, <4>3 DEF Elements
    <3> QED
      BY <3>1, <3>2
  <2> QED
    BY <1>2, <2>1, <2>3, <2>5, <2>6 DEF e
<1> QED
  BY <1>1, <1>2

\* What the list of a node is after its edges are linked (graph_add_edge for
\* every edge of it).
LEMMA LinkEdgesIs ==
    ASSUME LinkEdges, Begin \in Nat, End \in Nat, NEW S, out[toGlobal[linked + 1]] \in Seq(S),
           \A e \in (Begin + 1)..End : Keeps(Payload.edges[e]) => NewEdge(Payload.edges[e]) \in S
    PROVE  \E q \in Seq(S) :
              /\ out' = [out EXCEPT ![toGlobal[linked + 1]] = q]
              /\ \A x : x \in Elements(q) <=>
                    \/ x \in Elements(out[toGlobal[linked + 1]])
                    \/ \E e \in (Begin + 1)..End : Keeps(Payload.edges[e]) /\ x = NewEdge(Payload.edges[e])
<1> DEFINE b == Begin
           Start == out[toGlobal[linked + 1]]
           Item1(e) == Payload.edges[e]
           Step(q, e) == Linked(q, Item1(e))
           Up(n, f) == f = [e \in b..(b + n) |-> IF e = b THEN Start ELSE Step(f[e - 1], e)]
           T == {n \in Nat : \E f : Up(n, f)}
           N == End - b
<1>0. N \in Nat /\ b \in Nat /\ b + N = End
  BY DEF LinkEdges
<1>1. out' = [out EXCEPT ![toGlobal[linked + 1]] = (CHOOSE f : Up(N, f))[End]]
  <2> HIDE DEF N
  <2>1. b..(b + N) = Begin..End
    BY <1>0
  <2> QED
    BY <2>1 DEF LinkEdges
<1> HIDE DEF Step, Start, N, b
<1>2. 0 \in T
  <2>1. Up(0, [e \in b..(b + 0) |-> Start])
    BY <1>0
  <2> HIDE DEF Up
  <2> QED
    BY <2>1
<1>3. ASSUME NEW n \in Nat, n \in T PROVE n + 1 \in T
  <2>1. PICK f : Up(n, f)
    BY <1>3
  <2> DEFINE g == [e \in b..(b + (n + 1)) |-> IF e = b THEN Start ELSE Step(f[e - 1], e)]
  <2>2. ASSUME NEW e \in b..(b + (n + 1)), e # b PROVE f[e - 1] = g[e - 1]
    <3>1. e - 1 \in b..(b + n) /\ e - 1 \in b..(b + (n + 1))
      BY <1>0, <2>2
    <3>2. f[e - 1] = IF e - 1 = b THEN Start ELSE Step(f[e - 1 - 1], e - 1)
      BY <2>1, <3>1
    <3> QED
      BY <3>1, <3>2
  <2>3. g = [e \in b..(b + (n + 1)) |-> IF e = b THEN Start ELSE Step(g[e - 1], e)]
    <3>1. \A e \in b..(b + (n + 1)) :
             (IF e = b THEN Start ELSE Step(f[e - 1], e)) = (IF e = b THEN Start ELSE Step(g[e - 1], e))
      BY <2>2
    <3> QED
      BY <3>1
  <2> HIDE DEF g
  <2>4. Up(n + 1, g)
    BY <2>3
  <2> HIDE DEF Up
  <2> QED
    BY <2>4
<1>4. \E f : Up(N, f)
  <2> HIDE DEF Up
  <2>1. N \in T
    <3> HIDE DEF T
    <3> QED
      BY <1>0, <1>2, <1>3, EveryNumber
  <2> QED
    BY <2>1
<1>5. PICK f : Up(N, f) /\ out' = [out EXCEPT ![toGlobal[linked + 1]] = f[End]]
  <2> HIDE DEF Up
  <2> QED
    BY <1>1, <1>4
<1>6. f[b] = Start
  BY <1>0, <1>5
<1>7. \A e \in (b + 1)..(b + N) : f[e] = Step(f[e - 1], e)
  BY <1>0, <1>5
<1> HIDE DEF Up
<1> DEFINE Added(e) == {NewEdge(Item1(i)) : i \in {i \in (b + 1)..e : Keeps(Item1(i))}}
           Z == {n \in 0..N : /\ f[b + n] \in Seq(S)
                              /\ Elements(f[b + n]) = Elements(Start) \cup Added(b + n)}
<1>8. 0 \in Z
  <2>1. Added(b + 0) = {} /\ b + 0 = b
    BY <1>0
  <2> QED
    BY <1>0, <1>6, <2>1 DEF Start
<1>9. ASSUME NEW n \in 1..N, n - 1 \in Z PROVE n \in Z
  <2> DEFINE e == b + n
             q == f[e - 1]
  <2>1. e \in (b + 1)..(b + N) /\ e - 1 = b + (n - 1)
    BY <1>0
  <2>2. f[e] = Linked(q, Item1(e))
    BY <1>7, <2>1 DEF Step
  <2>3. q \in Seq(S) /\ Elements(q) = Elements(Start) \cup Added(e - 1)
    BY <1>9, <2>1
  <2>4. Keeps(Item1(e)) => NewEdge(Item1(e)) \in S
    BY <1>0, <2>1 DEF b
  <2>5. /\ f[e] \in Seq(S)
        /\ Elements(f[e]) = Elements(q) \cup (IF Keeps(Item1(e)) THEN {NewEdge(Item1(e))} ELSE {})
    <3> HIDE DEF q, Item1, e
    <3> QED
      BY <2>2, <2>3, <2>4, LinkedIs
  <2>6. Added(e) = Added(e - 1) \cup (IF Keeps(Item1(e)) THEN {NewEdge(Item1(e))} ELSE {})
    <3>1. \A i : i \in (b + 1)..e <=> i \in (b + 1)..(e - 1) \/ i = e
      BY <1>0, <2>1
    <3> HIDE DEF Item1, e
    <3> QED
      BY <3>1
  <2> HIDE DEF Added
  <2> QED
    BY <2>3, <2>5, <2>6
<1>10. N \in Z
  <2>1. Z \in SUBSET (0..N)
    OBVIOUS
  <2> HIDE DEF Z
  <2> QED
    BY <1>0, <1>8, <1>9, <2>1, AlongWalk
<1>11. f[End] \in Seq(S) /\ Elements(f[End]) = Elements(Start) \cup Added(End)
  BY <1>0, <1>10
<1>12. \A x : x \in Added(End) <=>
          \E e \in (Begin + 1)..End : Keeps(Payload.edges[e]) /\ x = NewEdge(Payload.edges[e])
  BY DEF b
<1> HIDE DEF Added
<1>13. PICK q \in Seq(S) : q = f[End]
  BY <1>11
<1>14. \A x : x \in Elements(q) <=>
          \/ x \in Elements(Start)
          \/ \E e \in (Begin + 1)..End : Keeps(Payload.edges[e]) /\ x = NewEdge(Payload.edges[e])
  BY <1>11, <1>12, <1>13
<1> QED
  BY <1>5, <1>13, <1>14 DEF Start

\* An end that has a coordinate has that of the first located record that the
\* address matches (resolve_query, resolve_address).
LEMMA ResolvedIs ==
    ASSUME QueryShape(query), NEW end \in {query.from, query.to}, Resolved(end).located
    PROVE  Resolved(end).at = AskedFor(end) /\ Resolved(end).at \in Coords
<1>1. CASE "at" \in DOMAIN end
  <2>1. Resolved(end) = [found |-> TRUE, located |-> TRUE, at |-> end.at]
    BY <1>1 DEF Resolved
  <2>2. AskedFor(end) = end.at
    BY <1>1 DEF AskedFor
  <2> QED
    BY <1>1, <2>1, <2>2 DEF QueryShape
<1>2. CASE "at" \notin DOMAIN end
  <2> DEFINE N == Len(query.addresses)
             Rec(i) == query.addresses[i]
             Hit(i) == Matches(end, Rec(i))
             Better(b, i) == Hit(i) /\ (~b.found \/ (Rec(i).located /\ ~b.located))
             Found(i) == [found |-> TRUE, located |-> Rec(i).located, at |-> Rec(i).at]
             Step(b, i) == IF Better(b, i) THEN Found(i) ELSE b
             Up(n, f) == f = [i \in 0..n |-> IF i = 0 THEN Nowhere ELSE Step(f[i - 1], i)]
             T == {n \in Nat : \E f : Up(n, f)}
  <2>0. N \in Nat /\ \A i \in 1..N : Rec(i).located \in BOOLEAN /\ (Rec(i).located => Rec(i).at \in Coords)
    <3>1. query.addresses \in Seq(AddressRecord)
      BY DEF QueryShape
    <3>2. N \in Nat /\ DOMAIN query.addresses = 1..N /\ \A i \in 1..N : Rec(i) \in AddressRecord
      BY <3>1, LenProperties, ElementOfSeq
    <3>3. \A i \in 1..N : Rec(i).located \in BOOLEAN
      BY <3>2 DEF AddressRecord
    <3> QED
      BY <3>2, <3>3 DEF QueryShape
  <2>1. Resolved(end) = (CHOOSE f : Up(N, f))[N]
    BY <1>2 DEF Resolved
  <2> HIDE DEF Step, N
  <2>2. 0 \in T
    <3>1. Up(0, [i \in 0..0 |-> Nowhere])
      OBVIOUS
    <3> HIDE DEF Up
    <3> QED
      BY <3>1
  <2>3. ASSUME NEW n \in Nat, n \in T PROVE n + 1 \in T
    <3>1. PICK f : Up(n, f)
      BY <2>3
    <3> DEFINE g == [i \in 0..(n + 1) |-> IF i = 0 THEN Nowhere ELSE Step(f[i - 1], i)]
    <3>2. ASSUME NEW i \in 0..(n + 1), i # 0 PROVE f[i - 1] = g[i - 1]
      <4>1. i - 1 \in 0..n /\ i - 1 \in 0..(n + 1)
        BY <3>2
      <4>2. f[i - 1] = IF i - 1 = 0 THEN Nowhere ELSE Step(f[i - 1 - 1], i - 1)
        BY <3>1, <4>1
      <4> QED
        BY <4>1, <4>2
    <3>3. g = [i \in 0..(n + 1) |-> IF i = 0 THEN Nowhere ELSE Step(g[i - 1], i)]
      <4>1. \A i \in 0..(n + 1) :
               (IF i = 0 THEN Nowhere ELSE Step(f[i - 1], i)) = (IF i = 0 THEN Nowhere ELSE Step(g[i - 1], i))
        BY <3>2
      <4> QED
        BY <4>1
    <3> HIDE DEF g
    <3>4. Up(n + 1, g)
      BY <3>3
    <3> HIDE DEF Up
    <3> QED
      BY <3>4
  <2>4. \E f : Up(N, f)
    <3> HIDE DEF Up
    <3>1. N \in T
      <4> HIDE DEF T
      <4> QED
        BY <2>0, <2>2, <2>3, EveryNumber
    <3> QED
      BY <3>1
  <2>5. PICK f : Up(N, f) /\ Resolved(end) = f[N]
    <3> HIDE DEF Up
    <3> QED
      BY <2>1, <2>4
  <2>6. f[0] = Nowhere
    BY <2>0, <2>5
  <2>7. \A i \in 1..N : f[i] = Step(f[i - 1], i)
    BY <2>0, <2>5
  <2> HIDE DEF Up, Hit, Rec
  <2> DEFINE Ok(b, n) ==
                 /\ b.located \in BOOLEAN /\ b.found \in BOOLEAN
                 /\ b.located => b.found
                 /\ ~b.located => \A i \in 1..n : ~(Rec(i).located /\ Hit(i))
                 /\ b.located => \E i \in 1..n : /\ Rec(i).located /\ Hit(i) /\ b.at = Rec(i).at
                                                 /\ \A j \in 1..(i - 1) : ~(Rec(j).located /\ Hit(j))
                 /\ ~b.found => \A i \in 1..n : ~Hit(i)
             Z == {n \in 0..N : Ok(f[n], n)}
  <2>8. 0 \in Z
    <3>1. /\ Nowhere.located = FALSE /\ Nowhere.found = FALSE
      BY DEF Nowhere
    <3>2. \A i : i \notin 1..0
      OBVIOUS
    <3>3. Ok(Nowhere, 0)
      BY <3>1, <3>2
    <3> HIDE DEF Ok
    <3> QED
      BY <2>0, <2>6, <3>3
  <2>9. ASSUME NEW n \in 1..N, n - 1 \in Z PROVE n \in Z
    <3>1. PICK b : b = f[n - 1]
      OBVIOUS
    <3>2. Ok(b, n - 1)
      BY <2>9, <3>1
    <3>3. f[n] = Step(b, n)
      BY <2>7, <3>1
    <3>4. \A i : i \in 1..n <=> i \in 1..(n - 1) \/ i = n
      BY <2>0
    <3>5. CASE Better(b, n)
      <4>1. f[n] = Found(n)
        BY <3>3, <3>5 DEF Step
      <4>2. PICK c : c = Found(n)
        OBVIOUS
      <4>3. c.found = TRUE /\ c.located = Rec(n).located /\ c.at = Rec(n).at /\ c.located \in BOOLEAN
        BY <2>0, <4>2
      <4>4. c.located => \A i \in 1..(n - 1) : ~(Rec(i).located /\ Hit(i))
        BY <3>2, <3>5, <4>3
      <4>7. ~c.located => \A i \in 1..n : ~(Rec(i).located /\ Hit(i))
        <5> SUFFICES ASSUME ~c.located, NEW i \in 1..n, Rec(i).located, Hit(i) PROVE FALSE
          OBVIOUS
        <5>1. Rec(n).located = FALSE
          BY <4>3
        <5>2. ~b.found
          BY <3>5, <5>1
        <5>3. i # n
          BY <5>1
        <5>4. i \in 1..(n - 1)
          BY <3>4, <5>3
        <5> QED
          BY <3>2, <5>2, <5>4
      <4>5. Hit(n) /\ n \in 1..n
        BY <2>0, <3>5
      <4>8. c.located => /\ Rec(n).located /\ Hit(n) /\ c.at = Rec(n).at
                         /\ \A j \in 1..(n - 1) : ~(Rec(j).located /\ Hit(j))
        BY <4>3, <4>4, <4>5
      <4>6. Ok(c, n)
        <5>1. c.located \in BOOLEAN /\ c.found \in BOOLEAN /\ c.found
          BY <4>3
        <5> QED
          BY <4>5, <4>7, <4>8, <5>1, Zenon
      <4>9. f[n] = c
        BY <4>1, <4>2
      <4> HIDE DEF Ok
      <4> QED
        BY <4>6, <4>9
    <3>6. CASE ~Better(b, n)
      <4>1. f[n] = b
        BY <3>3, <3>6 DEF Step
      <4>2. ~Hit(n) \/ (b.found /\ (~Rec(n).located \/ b.located))
        BY <3>2, <3>6
      <4>3. ~b.located => \A i \in 1..n : ~(Rec(i).located /\ Hit(i))
        BY <3>2, <3>4, <4>2
      <4>4. ~b.found => \A i \in 1..n : ~Hit(i)
        BY <3>2, <3>4, <4>2
      <4>5. b.located => \E i \in 1..n : /\ Rec(i).located /\ Hit(i) /\ b.at = Rec(i).at
                                         /\ \A j \in 1..(i - 1) : ~(Rec(j).located /\ Hit(j))
        BY <3>2, <3>4
      <4>6. Ok(b, n)
        BY <3>2, <4>3, <4>4, <4>5
      <4> HIDE DEF Ok
      <4> QED
        BY <4>1, <4>6
    <3> QED
      BY <3>5, <3>6
  <2>10. N \in Z
    <3>1. Z \in SUBSET (0..N)
      OBVIOUS
    <3> HIDE DEF Z
    <3> QED
      BY <2>0, <2>8, <2>9, <3>1, AlongWalk
  <2>11. PICK i \in 1..N : /\ Rec(i).located /\ Hit(i) /\ Resolved(end).at = Rec(i).at
                           /\ \A j \in 1..(i - 1) : ~(Rec(j).located /\ Hit(j))
    BY <2>5, <2>10
  <2> DEFINE located == {j \in DOMAIN query.addresses :
                            query.addresses[j].located /\ Matches(end, query.addresses[j])}
  <2>12. AskedFor(end) = Rec(Min(located)).at
    BY <1>2 DEF AskedFor, Rec
  <2>13. located = {j \in 1..N : Rec(j).located /\ Hit(j)}
    BY LenProperties DEF QueryShape, Rec, Hit, N
  <2> HIDE DEF located
  <2>14. Min(located) = i
    <3>1. i \in located /\ \A j \in located : j \in Int /\ i <= j
      <4>1. \A j \in 1..N : ~(j < i) \/ j \in 1..(i - 1)
        BY <2>0
      <4> QED
        BY <2>0, <2>11, <2>13, <4>1
    <3>2. ASSUME NEW x \in located, \A y \in located : x <= y PROVE x = i
      BY <3>1, <3>2, <2>0
    <3> QED
      BY <3>1, <3>2 DEF Min
  <2> QED
    BY <2>0, <2>11, <2>12, <2>14
<1> QED
  BY <1>1, <1>2

-----------------------------------------------------------------------------
(***************************************************************************)
(* The path that is read back from the predecessors (build_route_path).    *)
(***************************************************************************)
LEMMA Increasing ==
    ASSUME NEW n \in Nat, NEW d, \A i \in 1..n : d[i] \in Nat,
           \A i \in 1..(n - 1) : d[i] < d[i + 1]
    PROVE  \A i, j \in 1..n : i < j => d[i] < d[j]
<1> SUFFICES ASSUME NEW i \in 1..n, NEW j \in 1..n, i < j PROVE d[i] < d[j]
  OBVIOUS
<1> DEFINE m == j - i - 1
           T == {k \in 0..m : d[i] < d[i + 1 + k]}
<1>1. m \in Nat /\ i + 1 + m = j
  OBVIOUS
<1>2. 0 \in T
  BY <1>1
<1>3. ASSUME NEW k \in 1..m, k - 1 \in T PROVE k \in T
  <2>1. i + 1 + (k - 1) = i + k /\ i + 1 + k = i + k + 1 /\ i + k \in 1..(n - 1) /\ i + k \in 1..n /\ i + k + 1 \in 1..n
    BY <1>1
  <2>2. d[i] < d[i + k] /\ d[i + k] < d[i + k + 1]
    BY <1>3, <2>1
  <2> QED
    BY <2>1, <2>2
<1>4. m \in T
  <2>1. T \in SUBSET (0..m)
    OBVIOUS
  <2> HIDE DEF T, m
  <2> QED
    BY <1>1, <1>2, <1>3, <2>1, AlongWalk
<1> QED
  BY <1>1, <1>4

\* Every node that is reached but the source has a nearer predecessor.
Descends ==
    /\ IsFiniteSet(reached) /\ source \in reached /\ target \in reached
    /\ \A n \in reached : dist[n] \in Nat
    /\ \A n \in reached \ {source} : previous[n] \in reached /\ dist[previous[n]] < dist[n]

\* The nodes from p's first to the target.
Trail(p) ==
    /\ p \in Seq(reached) /\ Len(p) \in Nat \ {0} /\ p[Len(p)] = target
    /\ \A i \in 1..(Len(p) - 1) : p[i + 1] # source /\ p[i] = previous[p[i + 1]]

\* A trail as long as there are nodes has come to the source: its distances only grow.
LEMMA TrailEnds ==
    ASSUME Descends, NEW p, Trail(p), Len(p) >= Cardinality(reached)
    PROVE  p[1] = source
<1> SUFFICES ASSUME p[1] # source PROVE FALSE
  OBVIOUS
<1> DEFINE n == Len(p)
           d == [i \in 1..n |-> dist[p[i]]]
           S == 1..n
           T == reached \ {source}
           f == [i \in S |-> p[i]]
<1>1. n \in Nat \ {0} /\ \A i \in 1..n : p[i] \in reached /\ d[i] \in Nat
  BY ElementOfSeq DEF Trail, Descends
<1>2. \A i \in 1..n : p[i] \in T
  <2> SUFFICES ASSUME NEW i \in 1..n PROVE p[i] # source
    BY <1>1
  <2>1. i = 1 \/ (i - 1 \in 1..(n - 1) /\ i - 1 + 1 = i)
    BY <1>1
  <2> QED
    BY <2>1 DEF Trail
<1>3. \A i \in 1..(n - 1) : d[i] < d[i + 1]
  <2> SUFFICES ASSUME NEW i \in 1..(n - 1) PROVE d[i] < d[i + 1]
    OBVIOUS
  <2>1. i \in 1..n /\ i + 1 \in 1..n
    BY <1>1
  <2>2. p[i + 1] \in T /\ p[i] = previous[p[i + 1]]
    BY <1>2, <2>1 DEF Trail
  <2>3. dist[p[i]] < dist[p[i + 1]]
    BY <2>2 DEF Descends
  <2> QED
    BY <2>1, <2>3
<1> HIDE DEF n, d
<1>4. \A i, j \in 1..n : i < j => d[i] < d[j]
  BY <1>1, <1>3, Increasing
<1>5. \A i, j \in S : f[i] = f[j] => i = j
  <2> SUFFICES ASSUME NEW i \in 1..n, NEW j \in 1..n, i # j PROVE p[i] # p[j]
    OBVIOUS
  <2>1. i < j \/ j < i
    BY <1>1
  <2>2. d[i] # d[j]
    BY <1>1, <1>4, <2>1
  <2> QED
    BY <2>2 DEF d, n
<1>6. f \in [S -> T]
  BY <1>2
<1>7. IsFiniteSet(S) /\ Cardinality(S) = n
  <2>1. n \in Int /\ 1 <= n /\ n - 1 + 1 = n
    BY <1>1
  <2> QED
    BY <2>1, FS_Interval
<1>8. IsFiniteSet(T) /\ Cardinality(T) < n
  <2>1. IsFiniteSet(T) /\ Cardinality(T) = Cardinality(reached) - 1 /\ Cardinality(reached) \in Nat
    BY FS_RemoveElement, FS_CardinalityType DEF Descends
  <2> QED
    BY <1>1, <2>1 DEF n
<1> HIDE DEF S, T, f
<1> QED
  BY <1>5, <1>6, <1>7, <1>8, FS_PigeonHole

\* The path leads from the source along predecessors to the target, and is no
\* longer than there are nodes that are reached.
LEMMA BackIs ==
    ASSUME Descends
    PROVE  /\ Trail(Back(Cardinality(reached) - 1)) /\ Back(Cardinality(reached) - 1)[1] = source
           /\ Len(Back(Cardinality(reached) - 1)) <= Cardinality(reached)
<1> DEFINE N == Cardinality(reached) - 1
           Longer(p) == <<previous[p[1]]>> \o p
           Step(p) == IF p[1] = source THEN p ELSE Longer(p)
           Up(n, f) == f = [k \in 0..n |-> IF k = 0 THEN <<target>> ELSE Step(f[k - 1])]
           T == {n \in Nat : \E f : Up(n, f)}
<1>0. N \in Nat /\ Cardinality(reached) = N + 1
  <2>1. Cardinality(reached) \in Nat /\ Cardinality(reached) # 0
    BY FS_CardinalityType, FS_EmptySet DEF Descends
  <2> QED
    BY <2>1
<1>1. Back(N) = (CHOOSE f : Up(N, f))[N]
  BY DEF Back
<1> HIDE DEF Step, N
<1>2. 0 \in T
  <2>1. Up(0, [k \in 0..0 |-> <<target>>])
    OBVIOUS
  <2> HIDE DEF Up
  <2> QED
    BY <2>1
<1>3. ASSUME NEW n \in Nat, n \in T PROVE n + 1 \in T
  <2>1. PICK f : Up(n, f)
    BY <1>3
  <2> DEFINE g == [k \in 0..(n + 1) |-> IF k = 0 THEN <<target>> ELSE Step(f[k - 1])]
  <2>2. ASSUME NEW k \in 0..(n + 1), k # 0 PROVE f[k - 1] = g[k - 1]
    <3>1. k - 1 \in 0..n /\ k - 1 \in 0..(n + 1)
      BY <2>2
    <3>2. f[k - 1] = IF k - 1 = 0 THEN <<target>> ELSE Step(f[k - 1 - 1])
      BY <2>1, <3>1
    <3> QED
      BY <3>1, <3>2
  <2>3. g = [k \in 0..(n + 1) |-> IF k = 0 THEN <<target>> ELSE Step(g[k - 1])]
    <3>1. \A k \in 0..(n + 1) :
             (IF k = 0 THEN <<target>> ELSE Step(f[k - 1])) = (IF k = 0 THEN <<target>> ELSE Step(g[k - 1]))
      BY <2>2
    <3> QED
      BY <3>1
  <2> HIDE DEF g
  <2>4. Up(n + 1, g)
    BY <2>3
  <2> HIDE DEF Up
  <2> QED
    BY <2>4
<1>4. \E f : Up(N, f)
  <2> HIDE DEF Up
  <2>1. N \in T
    <3> HIDE DEF T
    <3> QED
      BY <1>0, <1>2, <1>3, EveryNumber
  <2> QED
    BY <2>1
<1>5. PICK f : Up(N, f) /\ Back(N) = f[N]
  <2> HIDE DEF Up
  <2> QED
    BY <1>1, <1>4
<1>6. f[0] = <<target>>
  BY <1>0, <1>5
<1>7. \A k \in 1..N : f[k] = Step(f[k - 1])
  BY <1>0, <1>5
<1> HIDE DEF Up
<1> DEFINE Z == {k \in 0..N : /\ Trail(f[k]) /\ Len(f[k]) <= k + 1
                              /\ f[k][1] = source \/ Len(f[k]) = k + 1}
<1>8. 0 \in Z
  <2>1. Trail(<<target>>) /\ Len(<<target>>) = 1
    BY DEF Trail, Descends
  <2>2. Trail(f[0]) /\ Len(f[0]) = 1
    BY <1>6, <2>1
  <2>3. Len(f[0]) <= 0 + 1 /\ Len(f[0]) = 0 + 1 /\ 0 \in 0..N
    BY <1>0, <2>2
  <2> QED
    BY <2>2, <2>3, Zenon
<1>9. ASSUME NEW k \in 1..N, k - 1 \in Z PROVE k \in Z
  <2>1. PICK p : p = f[k - 1]
    OBVIOUS
  <2>2. Trail(p) /\ Len(p) <= k /\ (p[1] = source \/ Len(p) = k) /\ k \in Nat
    BY <1>0, <1>9, <2>1
  <2>3. f[k] = Step(p)
    BY <1>7, <2>1
  <2>4. CASE p[1] = source
    <3>1. f[k] = p
      BY <2>3, <2>4 DEF Step
    <3>2. Len(p) <= k + 1
      BY <2>2 DEF Trail
    <3> QED
      BY <2>2, <2>4, <3>1, <3>2
  <2>5. CASE p[1] # source
    <3> DEFINE e == previous[p[1]]
    <3>1. p \in Seq(reached) /\ Len(p) = k
      BY <2>2, <2>5 DEF Trail
    <3>2. p[1] \in reached /\ e \in reached
      <4>1. 1 \in 1..Len(p)
        BY <3>1
      <4> QED
        BY <2>5, <3>1, <4>1, ElementOfSeq DEF Descends
    <3>3. PICK r : r = <<e>> \o p
      OBVIOUS
    <3>4. f[k] = r
      BY <2>3, <2>5, <3>3 DEF Step
    <3>5. /\ r \in Seq(reached) /\ Len(r) = k + 1 /\ r[1] = e
          /\ \A i \in 2..(k + 1) : r[i] = p[i - 1]
      BY <3>1, <3>2, <3>3, Prepended
    <3>6. r[Len(r)] = target
      <4>1. k + 1 \in 2..(k + 1) /\ k + 1 - 1 = k
        BY <2>2
      <4> QED
        BY <2>2, <3>1, <3>5, <4>1 DEF Trail
    <3>7. ASSUME NEW i \in 1..(Len(r) - 1) PROVE r[i + 1] # source /\ r[i] = previous[r[i + 1]]
      <4>1. i \in 1..k /\ i + 1 \in 2..(k + 1) /\ i + 1 - 1 = i
        BY <2>2, <3>5
      <4>2. r[i + 1] = p[i]
        BY <3>5, <4>1
      <4>3. CASE i = 1
        BY <2>5, <3>5, <4>2, <4>3
      <4>4. CASE i # 1
        <5>1. i - 1 \in 1..(Len(p) - 1) /\ i - 1 + 1 = i /\ i \in 2..(k + 1)
          BY <2>2, <3>1, <4>1, <4>4
        <5>2. p[i] # source /\ p[i - 1] = previous[p[i]]
          BY <2>2, <5>1 DEF Trail
        <5> QED
          BY <3>5, <4>2, <5>1, <5>2
      <4> QED
        BY <4>3, <4>4
    <3>8. Trail(r)
      BY <2>2, <3>5, <3>6, <3>7 DEF Trail
    <3> QED
      BY <2>2, <3>4, <3>5, <3>8
  <2> QED
    BY <2>4, <2>5
<1>10. N \in Z
  <2>1. Z \in SUBSET (0..N)
    OBVIOUS
  <2> HIDE DEF Z
  <2> QED
    BY <1>0, <1>8, <1>9, <2>1, AlongWalk
<1>11. Trail(Back(N)) /\ Len(Back(N)) <= N + 1 /\ (Back(N)[1] = source \/ Len(Back(N)) = N + 1)
  BY <1>5, <1>10
<1>12. Back(N)[1] = source
  <2>1. Len(Back(N)) = N + 1 => Len(Back(N)) >= Cardinality(reached)
    BY <1>0
  <2> QED
    BY <1>11, <2>1, TrailEnds
<1> QED
  BY <1>0, <1>11, <1>12 DEF N

-----------------------------------------------------------------------------
(***************************************************************************)
(* The loaded graph against the walks of the payloads.                     *)
(***************************************************************************)
Way == [to : Nodes, meters : Nat \ {0}]

\* A graph of walks: nodes apart from each other, edges that the payloads have.
Chart ==
    /\ coords \in Seq(Coords) /\ Apart(coords) /\ DOMAIN out = 1..Len(coords)
    /\ out \in [Nodes -> Seq(Way)]
    /\ \A n \in Nodes : \A e \in EdgesOf(n) : <<coords[n], coords[e.to], e.meters>> \in Walks

\* A walk that is an edge, or goes nowhere.
Charted(w) ==
    /\ w[3] \in Nat
    /\ \/ w[1] = w[2]
       \/ \E n \in Nodes : /\ coords[n] = w[1]
                           /\ \E e \in EdgesOf(n) : coords[e.to] = w[2] /\ e.meters = w[3]

\* An edge of the graph leads to a node and has a length.
LEMMA EdgeIsWay ==
    ASSUME Chart, NEW n \in Nodes, NEW e \in EdgesOf(n)
    PROVE  e \in Way /\ e.to \in Nodes /\ e.meters \in Nat \ {0}
<1>1. out[n] \in Seq(Way)
  BY DEF Chart
<1>2. e \in Way
  BY <1>1, ElementOfSeq, LenProperties DEF EdgesOf
<1> QED
  BY <1>2 DEF Way

\* What a charted walk is at the node it starts from.
LEMMA WalkOn ==
    ASSUME Chart, NEW n \in Nodes, NEW w, Charted(w), coords[n] = w[1]
    PROVE  /\ w[3] \in Nat
           /\ \/ coords[n] = w[2]
              \/ \E e \in EdgesOf(n) : e.to \in Nodes /\ coords[e.to] = w[2] /\ e.meters = w[3]
<1>1. CASE w[1] = w[2]
  BY <1>1 DEF Charted
<1>2. CASE w[1] # w[2]
  <2>1. PICK k \in Nodes : /\ coords[k] = w[1]
                           /\ \E e \in EdgesOf(k) : coords[e.to] = w[2] /\ e.meters = w[3]
    BY <1>2 DEF Charted
  <2>2. k = n
    BY <2>1 DEF Chart, Apart, Nodes
  <2>3. PICK e \in EdgesOf(n) : coords[e.to] = w[2] /\ e.meters = w[3]
    BY <2>1, <2>2
  <2>4. e.to \in Nodes
    BY <2>3, EdgeIsWay
  <2> QED
    BY <2>3, <2>4 DEF Charted
<1> QED
  BY <1>1, <1>2

-----------------------------------------------------------------------------
(***************************************************************************)
(* The lengths of the shortest ways (ShortestWays) as they grow with the   *)
(* number of walks.                                                        *)
(***************************************************************************)
NearestOf(ways) == {w \in ways : \A v \in ways : v[1] = w[1] => w[2] <= v[2]}

Onwards(ways) ==
    ways \cup {<<p[2][2], p[1][2] + p[2][3]>> : p \in {p \in ways \X Walks : p[2][1] = p[1][1]}}

\* ShortestWays as a sequence of sets of ways, each the nearest of one walk more.
LEMMA NearIs ==
    ASSUME NEW start, NEW end, coords \in Seq(Coords)
    PROVE  \E near :
              /\ ShortestWays(start, end) = {w[2] : w \in {w \in near[Len(coords)] : w[1] = end}}
              /\ near[0] = {<<start, 0>>}
              /\ \A k \in 1..Len(coords) : near[k] = NearestOf(Onwards(near[k - 1]))
<1> DEFINE N == Len(coords)
           Start == {<<start, 0>>}
           Step(ways) == NearestOf(Onwards(ways))
           Up(n, f) == f = [k \in 0..n |-> IF k = 0 THEN Start ELSE Step(f[k - 1])]
           T == {n \in Nat : \E f : Up(n, f)}
<1>0. N \in Nat
  BY LenProperties
<1>1. ShortestWays(start, end) = {w[2] : w \in {w \in (CHOOSE f : Up(N, f))[N] : w[1] = end}}
  BY DEF ShortestWays, NearestOf, Onwards
<1> HIDE DEF Step, Start, N
<1>2. 0 \in T
  <2>1. Up(0, [k \in 0..0 |-> Start])
    OBVIOUS
  <2> HIDE DEF Up
  <2> QED
    BY <2>1
<1>3. ASSUME NEW n \in Nat, n \in T PROVE n + 1 \in T
  <2>1. PICK f : Up(n, f)
    BY <1>3
  <2> DEFINE g == [k \in 0..(n + 1) |-> IF k = 0 THEN Start ELSE Step(f[k - 1])]
  <2>2. ASSUME NEW k \in 0..(n + 1), k # 0 PROVE f[k - 1] = g[k - 1]
    <3>1. k - 1 \in 0..n /\ k - 1 \in 0..(n + 1)
      BY <2>2
    <3>2. f[k - 1] = IF k - 1 = 0 THEN Start ELSE Step(f[k - 1 - 1])
      BY <2>1, <3>1
    <3> QED
      BY <3>1, <3>2
  <2>3. g = [k \in 0..(n + 1) |-> IF k = 0 THEN Start ELSE Step(g[k - 1])]
    <3>1. \A k \in 0..(n + 1) :
             (IF k = 0 THEN Start ELSE Step(f[k - 1])) = (IF k = 0 THEN Start ELSE Step(g[k - 1]))
      BY <2>2
    <3> QED
      BY <3>1
  <2> HIDE DEF g
  <2>4. Up(n + 1, g)
    BY <2>3
  <2> HIDE DEF Up
  <2> QED
    BY <2>4
<1>4. \E f : Up(N, f)
  <2> HIDE DEF Up
  <2>1. N \in T
    <3> HIDE DEF T
    <3> QED
      BY <1>0, <1>2, <1>3, EveryNumber
  <2> QED
    BY <2>1
<1>5. PICK near : Up(N, near) /\ ShortestWays(start, end) = {w[2] : w \in {w \in near[N] : w[1] = end}}
  <2> HIDE DEF Up
  <2> QED
    BY <1>1, <1>4
<1>6. near[0] = Start
  BY <1>0, <1>5
<1>7. \A k \in 1..N : near[k] = Step(near[k - 1])
  BY <1>0, <1>5
<1> QED
  BY <1>5, <1>6, <1>7 DEF Step, Start, N

\* One walk more.
LEMMA OnwardsIs ==
    ASSUME NEW ways, NEW x
    PROVE  x \in Onwards(ways) <=>
              \/ x \in ways
              \/ \E a \in ways, w \in Walks : w[1] = a[1] /\ x = <<w[2], a[2] + w[3]>>
<1> DEFINE W == Walks
<1>1. x \in Onwards(ways) <=>
         \/ x \in ways
         \/ \E p \in ways \X W : p[2][1] = p[1][1] /\ x = <<p[2][2], p[1][2] + p[2][3]>>
  BY DEF Onwards
<1> HIDE DEF W
<1>2. ASSUME NEW p \in ways \X W, p[2][1] = p[1][1], x = <<p[2][2], p[1][2] + p[2][3]>>
      PROVE  \E a \in ways, w \in W : w[1] = a[1] /\ x = <<w[2], a[2] + w[3]>>
  BY <1>2
<1>3. ASSUME NEW a \in ways, NEW w \in W, w[1] = a[1], x = <<w[2], a[2] + w[3]>>
      PROVE  \E p \in ways \X W : p[2][1] = p[1][1] /\ x = <<p[2][2], p[1][2] + p[2][3]>>
  <2>1. <<a, w>> \in ways \X W /\ <<a, w>>[1] = a /\ <<a, w>>[2] = w
    OBVIOUS
  <2> QED
    BY <1>3, <2>1
<1> QED
  BY <1>1, <1>2, <1>3 DEF W

\* To wherever a way leads there is a shortest one.
LEMMA NearestKeeps ==
    ASSUME NEW ways, \A v \in ways : v[2] \in Nat, NEW v \in ways
    PROVE  \E u \in NearestOf(ways) : u[1] = v[1] /\ u[2] <= v[2]
<1> DEFINE S == {u[2] : u \in {u \in ways : u[1] = v[1]}}
<1>1. S \in SUBSET Nat /\ v[2] \in S
  OBVIOUS
<1>2. PICK least \in S : \A y \in S : least <= y
  <2> HIDE DEF S
  <2> QED
    BY <1>1, LeastNat
<1>3. PICK u \in ways : u[1] = v[1] /\ u[2] = least
  BY <1>2
<1>4. u \in NearestOf(ways)
  BY <1>2, <1>3 DEF NearestOf
<1>5. u[2] <= v[2]
  BY <1>1, <1>2, <1>3
<1> QED
  BY <1>3, <1>4, <1>5

\* What holds of the source and is kept by edges holds wherever a way leads;
\* lower bounds for the found distance: Cut grows by no more than the walks.
LEMMA WaysReach ==
    ASSUME Chart, \A w \in Walks : Charted(w), source \in Nodes,
           NEW near, near[0] = {<<coords[source], 0>>},
           \A k \in 1..Len(coords) : near[k] = NearestOf(Onwards(near[k - 1])),
           NEW R \in SUBSET (Nodes \X Nat), <<source, 0>> \in R,
           \A n \in Nodes, d \in Nat : <<n, d>> \in R =>
               /\ \A m \in Nat : <<n, d + m>> \in R
               /\ \A e \in EdgesOf(n) : <<e.to, d + e.meters>> \in R
    PROVE  \A k \in 0..Len(coords) : \A x \in near[k] :
              x[2] \in Nat /\ \E n \in Nodes : coords[n] = x[1] /\ <<n, x[2]>> \in R
<1> DEFINE Ok(x) == x[2] \in Nat /\ \E n \in Nodes : coords[n] = x[1] /\ <<n, x[2]>> \in R
           T == {k \in 0..Len(coords) : \A x \in near[k] : Ok(x)}
<1>0. Len(coords) \in Nat
  BY LenProperties DEF Chart
<1>1. 0 \in T
  <2>1. Ok(<<coords[source], 0>>)
    OBVIOUS
  <2> HIDE DEF Ok
  <2> QED
    BY <1>0, <2>1
<1>2. ASSUME NEW k \in 1..Len(coords), k - 1 \in T PROVE k \in T
  <2>1. SUFFICES ASSUME NEW x \in Onwards(near[k - 1]) PROVE Ok(x)
    <3> HIDE DEF Ok
    <3> QED
      BY <2>1 DEF NearestOf
  <2>2. CASE x \in near[k - 1]
    BY <1>2, <2>2
  <2>3. CASE \E a \in near[k - 1], w \in Walks : w[1] = a[1] /\ x = <<w[2], a[2] + w[3]>>
    <3>1. PICK a \in near[k - 1], w \in Walks : w[1] = a[1] /\ x = <<w[2], a[2] + w[3]>>
      BY <2>3
    <3>2. Ok(a)
      BY <1>2
    <3>3. PICK n \in Nodes : coords[n] = a[1] /\ <<n, a[2]>> \in R
      BY <3>2
    <3>4. Charted(w) /\ coords[n] = w[1]
      BY <3>1, <3>3
    <3>5. /\ w[3] \in Nat
          /\ \/ coords[n] = w[2]
             \/ \E e \in EdgesOf(n) : e.to \in Nodes /\ coords[e.to] = w[2] /\ e.meters = w[3]
      BY <3>4, WalkOn
    <3>6. a[2] \in Nat /\ x[1] = w[2] /\ x[2] = a[2] + w[3] /\ a[2] + w[3] \in Nat
      BY <3>1, <3>2, <3>5
    <3>7. CASE coords[n] = w[2]
      <4>1. <<n, a[2] + w[3]>> \in R
        BY <3>3, <3>5, <3>6
      <4> QED
        BY <3>6, <3>7, <4>1
    <3>8. CASE \E e \in EdgesOf(n) : e.to \in Nodes /\ coords[e.to] = w[2] /\ e.meters = w[3]
      <4>1. PICK e \in EdgesOf(n) : e.to \in Nodes /\ coords[e.to] = w[2] /\ e.meters = w[3]
        BY <3>8
      <4>2. <<e.to, a[2] + e.meters>> \in R
        BY <3>3, <3>6
      <4> QED
        BY <3>6, <4>1, <4>2
    <3> QED
      BY <3>5, <3>7, <3>8
  <2>4. \/ x \in near[k - 1]
        \/ \E a \in near[k - 1], w \in Walks : w[1] = a[1] /\ x = <<w[2], a[2] + w[3]>>
    <3>1. x \in Onwards(near[k - 1])
      OBVIOUS
    <3> HIDE DEF Ok, T
    <3> QED
      BY ONLY <3>1, OnwardsIs
  <2> HIDE DEF Ok
  <2> QED
    BY <2>2, <2>3, <2>4, Zenon
<1>3. \A k \in 0..Len(coords) : k \in T
  <2> SUFFICES ASSUME NEW k \in 0..Len(coords) PROVE k \in T
    OBVIOUS
  <2> DEFINE U == {i \in 0..k : i \in T}
  <2>1. 0 \in U /\ \A i \in 1..k : i - 1 \in U => i \in U
    <3>1. \A i \in 1..k : i \in 1..Len(coords) /\ i \in 0..k
      BY <1>0
    <3> HIDE DEF T
    <3> QED
      BY <1>1, <1>2, <3>1
  <2>2. U \in SUBSET (0..k) /\ k \in Nat
    OBVIOUS
  <2>3. k \in U
    <3> HIDE DEF U
    <3> QED
      BY <2>1, <2>2, AlongWalk
  <2> QED
    BY <2>3
<1> QED
  BY <1>3

\* The path as the search leaves it: along edges that make up the distances.
Route(p) ==
    /\ p \in Seq(Nodes) /\ Len(p) \in 1..Len(coords) /\ p[1] = source /\ p[Len(p)] = target
    /\ \A i \in 1..(Len(p) - 1) :
          \E e \in EdgesOf(p[i]) : e.to = p[i + 1] /\ dist[p[i + 1]] = dist[p[i]] + e.meters

\* Where there is a path, there is a way that is no longer.
LEMMA WaysFollow ==
    ASSUME Chart, NEW p, Route(p), dist \in [Nodes -> Nat], dist[source] = 0,
           NEW near, near[0] = {<<coords[source], 0>>},
           \A k \in 1..Len(coords) : near[k] = NearestOf(Onwards(near[k - 1])),
           \A k \in 0..Len(coords) : \A x \in near[k] : x[2] \in Nat,
           \A w \in Walks : w[3] \in Nat
    PROVE  \E x \in near[Len(coords)] : x[1] = coords[target] /\ x[2] <= dist[target]
<1> DEFINE N == Len(coords)
           at(k) == p[IF k < Len(p) THEN k + 1 ELSE Len(p)]
           Ok(x, k) == x[1] = coords[at(k)] /\ x[2] <= dist[at(k)]
           T == {k \in 0..N : \E x \in near[k] : Ok(x, k)}
<1>0. N \in Nat /\ Len(p) \in 1..N
  BY LenProperties DEF Chart, Route
<1>1. 0 \in T
  <2>1. Ok(<<coords[source], 0>>, 0)
    BY <1>0 DEF Route
  <2> HIDE DEF Ok
  <2> QED
    BY <1>0, <2>1
<1>2. ASSUME NEW k \in 1..N, k - 1 \in T PROVE k \in T
  <2>1. PICK x \in near[k - 1] : Ok(x, k - 1)
    BY <1>2
  <2>2. \E y \in Onwards(near[k - 1]) : Ok(y, k)
    <3>1. CASE k < Len(p)
      <4>1. at(k - 1) = p[k] /\ at(k) = p[k + 1] /\ k \in 1..(Len(p) - 1) /\ k \in 1..Len(p) /\ k + 1 \in 1..Len(p)
        BY <1>0, <3>1
      <4>2. PICK e \in EdgesOf(p[k]) : e.to = p[k + 1] /\ dist[p[k + 1]] = dist[p[k]] + e.meters
        BY <4>1 DEF Route
      <4>3. p[k] \in Nodes /\ p[k + 1] \in Nodes
        BY <4>1, ElementOfSeq DEF Route
      <4>4. e.meters \in Nat /\ <<coords[p[k]], coords[p[k + 1]], e.meters>> \in Walks
        BY <4>2, <4>3, EdgeIsWay DEF Chart
      <4>5. PICK w \in Walks : w = <<coords[p[k]], coords[p[k + 1]], e.meters>>
        BY <4>4
      <4>6. <<w[2], x[2] + w[3]>> \in Onwards(near[k - 1])
        <5>1. w[1] = x[1]
          BY <2>1, <4>1, <4>5
        <5> QED
          BY <5>1, OnwardsIs
      <4>7. x[2] \in Nat /\ x[2] <= dist[p[k]] /\ dist[p[k]] \in Nat
        <5>1. k - 1 \in 0..N
          BY <1>0
        <5> QED
          BY <2>1, <4>1, <4>3, <5>1
      <4>8. x[2] + w[3] <= dist[p[k + 1]]
        <5>1. w[3] = e.meters
          BY <4>5
        <5>2. \A d \in Nat, f \in Nat, m \in Nat : d <= f => d + m <= f + m
          OBVIOUS
        <5>3. x[2] + e.meters <= dist[p[k]] + e.meters
          BY <4>4, <4>7, <5>2
        <5> QED
          BY ONLY <4>2, <5>1, <5>3, Zenon
      <4> QED
        BY <4>1, <4>5, <4>6, <4>8
    <3>2. CASE ~(k < Len(p))
      <4>1. at(k - 1) = p[Len(p)] /\ at(k) = p[Len(p)]
        BY <1>0, <3>2
      <4>2. x \in Onwards(near[k - 1])
        BY OnwardsIs
      <4> QED
        BY <2>1, <4>1, <4>2
    <3> QED
      BY <3>1, <3>2
  <2>3. PICK y \in Onwards(near[k - 1]) : Ok(y, k)
    BY <2>2
  <2>4. \A v \in Onwards(near[k - 1]) : v[2] \in Nat
    <3>1. k - 1 \in 0..N
      BY <1>0
    <3> SUFFICES ASSUME NEW v \in Onwards(near[k - 1]) PROVE v[2] \in Nat
      OBVIOUS
    <3>2. CASE v \in near[k - 1]
      BY <3>1, <3>2
    <3>3. ASSUME NEW a \in near[k - 1], NEW w \in Walks, v = <<w[2], a[2] + w[3]>>
          PROVE  v[2] \in Nat
      <4>1. a[2] \in Nat /\ w[3] \in Nat
        BY <3>1
      <4> QED
        BY <3>3, <4>1
    <3> QED
      BY <3>2, <3>3, OnwardsIs
  <2>5. PICK u \in NearestOf(Onwards(near[k - 1])) : u[1] = y[1] /\ u[2] <= y[2]
    BY <2>4, NearestKeeps
  <2>6. u \in near[k] /\ u[2] \in Nat /\ y[2] \in Nat
    BY <1>0, <2>4, <2>5 DEF NearestOf
  <2>7. at(k) \in Nodes
    <3>1. (IF k < Len(p) THEN k + 1 ELSE Len(p)) \in 1..Len(p)
      BY <1>0
    <3> QED
      BY <3>1, ElementOfSeq DEF Route
  <2>8. Ok(u, k)
    <3>1. dist[at(k)] \in Nat
      BY <2>7
    <3> HIDE DEF at
    <3> QED
      BY <2>3, <2>5, <2>6, <3>1
  <2> HIDE DEF Ok
  <2> QED
    BY <2>6, <2>8, <1>0
<1>3. N \in T
  <2>1. T \in SUBSET (0..N)
    OBVIOUS
  <2> HIDE DEF T, N
  <2> QED
    BY <1>0, <1>1, <1>2, <2>1, AlongWalk
<1>4. at(N) = target
  BY <1>0 DEF Route
<1> QED
  BY <1>3, <1>4

\* With the certificate of the search the distance is that of the shortest way.
LEMMA FoundIsShortest ==
    ASSUME Chart, \A w \in Walks : Charted(w), Graph, NothingNearer, step = "done",
           dist \in [Nodes -> Nat], dist[source] = 0, NEW p, Route(p)
    PROVE  ShortestWays(coords[source], coords[target]) = {dist[target]}
<1> DEFINE N == Len(coords)
           R == {r \in Nodes \X Nat : Cut(r[1]) <= r[2]}
<1>0. N \in Nat /\ source \in Nodes /\ target \in Nodes /\ Nodes = 1..N /\ 1 <= N
  BY LenProperties DEF Chart, Graph, Nodes
<1>1. PICK near :
          /\ ShortestWays(coords[source], coords[target])
                = {w[2] : w \in {w \in near[N] : w[1] = coords[target]}}
          /\ near[0] = {<<coords[source], 0>>}
          /\ \A k \in 1..N : near[k] = NearestOf(Onwards(near[k - 1]))
  <2>1. coords \in Seq(Coords)
    BY DEF Chart
  <2> HIDE DEF R
  <2> QED
    BY <2>1, NearIs
<1>2. \A n \in Nodes : Cut(n) \in Nat
  <2>1. target \in Nodes
    BY DEF Graph
  <2>2. \A n \in Nodes : dist[n] \in Nat
    OBVIOUS
  <2> QED
    BY <2>1, <2>2, Zenon DEF Cut
<1>3. /\ R \in SUBSET (Nodes \X Nat) /\ <<source, 0>> \in R
      /\ \A n \in Nodes, d \in Nat : <<n, d>> \in R =>
            /\ \A m \in Nat : <<n, d + m>> \in R
            /\ \A e \in EdgesOf(n) : <<e.to, d + e.meters>> \in R
  <2>1. <<source, 0>> \in R
    BY <1>0 DEF NothingNearer
  <2>2. ASSUME NEW n \in Nodes, NEW d \in Nat, <<n, d>> \in R, NEW m \in Nat
        PROVE  <<n, d + m>> \in R
    <3>1. Cut(n) <= d + m /\ d + m \in Nat
      BY <1>2, <2>2
    <3> QED
      BY <3>1
  <2>3. ASSUME NEW n \in Nodes, NEW d \in Nat, <<n, d>> \in R, NEW e \in EdgesOf(n)
        PROVE  <<e.to, d + e.meters>> \in R
    <3>1. e.to \in Nodes /\ e.meters \in Nat
      BY EdgeIsWay
    <3>2. Cut(e.to) <= Cut(n) + e.meters
      BY DEF NothingNearer
    <3>3. Cut(e.to) \in Nat /\ Cut(n) \in Nat /\ Cut(n) <= d
      BY <1>2, <2>3, <3>1
    <3>4. Cut(e.to) <= d + e.meters /\ d + e.meters \in Nat
      BY <3>1, <3>2, <3>3
    <3> QED
      BY <3>1, <3>4
  <2> HIDE DEF R
  <2>4. R \in SUBSET (Nodes \X Nat)
    BY DEF R
  <2> QED
    BY <2>1, <2>2, <2>3, <2>4
<1> HIDE DEF N
<1>4. \A k \in 0..N : \A x \in near[k] :
          x[2] \in Nat /\ \E n \in Nodes : coords[n] = x[1] /\ <<n, x[2]>> \in R
  <2> HIDE DEF R
  <2> QED
    BY <1>0, <1>1, <1>3, WaysReach DEF N
<1>5. ASSUME NEW x \in near[N], x[1] = coords[target] PROVE x[2] \in Nat /\ dist[target] <= x[2]
  <2>1. N \in 0..N
    BY <1>0
  <2>2. x[2] \in Nat
    BY <1>4, <2>1
  <2>3. PICK n \in Nodes : coords[n] = x[1] /\ <<n, x[2]>> \in R
    BY <1>4, <2>1
  <2>4. n = target
    BY <1>0, <1>5, <2>3 DEF Chart, Apart, N
  <2>5. Cut(target) <= x[2]
    BY <2>3, <2>4
  <2>6. Cut(target) = dist[target]
    BY DEF Cut
  <2> QED
    BY <2>2, <2>5, <2>6
<1>6. PICK x \in near[N] : x[1] = coords[target] /\ x[2] <= dist[target]
  <2>1. \A w \in Walks : w[3] \in Nat
    BY DEF Charted
  <2>2. \A k \in 0..N : \A y \in near[k] : y[2] \in Nat
    BY <1>4
  <2> QED
    BY <1>1, <2>1, <2>2, WaysFollow DEF N
<1>7. dist[target] \in Nat
  BY <1>0
<1>8. x[2] = dist[target]
  BY <1>5, <1>6, <1>7
<1>9. ASSUME NEW y \in near[N], y[1] = coords[target] PROVE y[2] = dist[target]
  <2>1. N \in 1..N
    BY <1>0
  <2>2. near[N] = NearestOf(Onwards(near[N - 1]))
    BY <1>1, <2>1
  <2>3. x \in Onwards(near[N - 1])
    BY <2>2 DEF NearestOf
  <2>4. y[2] <= x[2]
    BY <1>6, <1>9, <2>2, <2>3 DEF NearestOf
  <2>5. y[2] \in Nat /\ dist[target] <= y[2]
    BY <1>5, <1>9
  <2> QED
    BY <1>7, <1>8, <2>4, <2>5
<1> QED
  BY <1>1, <1>6, <1>8, <1>9

\* Without a path there is no way.
LEMMA NoneIsNone ==
    ASSUME Chart, \A w \in Walks : Charted(w), Graph, NothingNearer, step = "none", reached \subseteq Nodes
    PROVE  ShortestWays(coords[source], coords[target]) = {}
<1> DEFINE N == Len(coords)
           R == reached \X Nat
<1>0. N \in Nat /\ source \in Nodes /\ target \in Nodes /\ Nodes = 1..N
  BY LenProperties DEF Chart, Graph, Nodes
<1>1. PICK near :
          /\ ShortestWays(coords[source], coords[target])
                = {w[2] : w \in {w \in near[N] : w[1] = coords[target]}}
          /\ near[0] = {<<coords[source], 0>>}
          /\ \A k \in 1..N : near[k] = NearestOf(Onwards(near[k - 1]))
  <2>1. coords \in Seq(Coords)
    BY DEF Chart
  <2> HIDE DEF R
  <2> QED
    BY <2>1, NearIs
<1>2. /\ R \in SUBSET (Nodes \X Nat) /\ <<source, 0>> \in R
      /\ \A n \in Nodes, d \in Nat : <<n, d>> \in R =>
            /\ \A m \in Nat : <<n, d + m>> \in R
            /\ \A e \in EdgesOf(n) : <<e.to, d + e.meters>> \in R
  <2>1. <<source, 0>> \in R
    BY DEF NothingNearer
  <2>2. ASSUME NEW n \in Nodes, NEW d \in Nat, <<n, d>> \in R, NEW m \in Nat
        PROVE  <<n, d + m>> \in R
    BY <2>2
  <2>3. ASSUME NEW n \in Nodes, NEW d \in Nat, <<n, d>> \in R, NEW e \in EdgesOf(n)
        PROVE  <<e.to, d + e.meters>> \in R
    <3>1. n \in reached
      BY <2>3
    <3>2. e.to \in reached
      BY <3>1 DEF NothingNearer
    <3>3. e.meters \in Nat
      BY EdgeIsWay
    <3> QED
      BY <3>2, <3>3
  <2> HIDE DEF R
  <2>4. R \in SUBSET (Nodes \X Nat)
    BY DEF R
  <2> QED
    BY <2>1, <2>2, <2>3, <2>4
<1> HIDE DEF N
<1>3. \A k \in 0..N : \A x \in near[k] :
          x[2] \in Nat /\ \E n \in Nodes : coords[n] = x[1] /\ <<n, x[2]>> \in R
  <2> HIDE DEF R
  <2> QED
    BY <1>0, <1>1, <1>2, WaysReach DEF N
<1>4. ASSUME NEW x \in near[N], x[1] = coords[target] PROVE FALSE
  <2>1. N \in 0..N
    BY <1>0
  <2>2. PICK n \in Nodes : coords[n] = x[1] /\ <<n, x[2]>> \in R
    BY <1>3, <2>1
  <2>3. n = target
    BY <1>0, <1>4, <2>2 DEF Chart, Apart, N
  <2> QED
    BY <2>2, <2>3 DEF NothingNearer
<1> QED
  BY <1>1, <1>4

-----------------------------------------------------------------------------
(***************************************************************************)
(* What the steps of a query compute.                                      *)
(***************************************************************************)
LEMMA LeastAndGreatest ==
    ASSUME NEW a \in Int, NEW b \in Int
    PROVE  /\ Min({a, b}) \in Int /\ Max({a, b}) \in Int /\ Min({a, b}) <= Max({a, b})
           /\ Max({a, b}) = IF a >= b THEN a ELSE b
<1>1. Min({a, b}) = IF a <= b THEN a ELSE b
  <2>1. ASSUME NEW x \in {a, b}, \A y \in {a, b} : x <= y PROVE x = IF a <= b THEN a ELSE b
    BY <2>1
  <2>2. (IF a <= b THEN a ELSE b) \in {a, b} /\ \A y \in {a, b} : (IF a <= b THEN a ELSE b) <= y
    OBVIOUS
  <2> QED
    BY <2>1, <2>2 DEF Min
<1>2. Max({a, b}) = IF a >= b THEN a ELSE b
  <2>1. ASSUME NEW x \in {a, b}, \A y \in {a, b} : x >= y PROVE x = IF a >= b THEN a ELSE b
    BY <2>1
  <2>2. (IF a >= b THEN a ELSE b) \in {a, b} /\ \A y \in {a, b} : (IF a >= b THEN a ELSE b) >= y
    OBVIOUS
  <2> QED
    BY <2>1, <2>2 DEF Max
<1> QED
  BY <1>1, <1>2

\* The tiles around two tiles are a sequence of tiles.
LEMMA NeighborhoodIs ==
    ASSUME NEW a \in Int \X Int, NEW b \in Int \X Int
    PROVE  Neighborhood(a, b) \in Seq(Int \X Int)
<1> DEFINE low(i) == Min({a[i], b[i]}) - 1
           wide(i) == Max({a[i], b[i]}) + 2 - low(i)
           n == wide(1) * wide(2)
           Cell(k) == <<low(1) + ((k - 1) % wide(1)), low(2) + ((k - 1) \div wide(1))>>
<1>1. ASSUME NEW i \in {1, 2} PROVE low(i) \in Int /\ wide(i) \in Nat \ {0}
  <2>1. a[i] \in Int /\ b[i] \in Int
    OBVIOUS
  <2>2. /\ Min({a[i], b[i]}) \in Int /\ Max({a[i], b[i]}) \in Int
        /\ Min({a[i], b[i]}) <= Max({a[i], b[i]})
    BY <2>1, LeastAndGreatest
  <2> QED
    BY <2>2
<1>2. Neighborhood(a, b) = [k \in 1..n |-> Cell(k)]
  BY DEF Neighborhood
<1> HIDE DEF low, wide
<1>3. n \in Nat
  <2>1. wide(1) \in Nat /\ wide(2) \in Nat
    BY <1>1
  <2> QED
    BY <2>1
<1>4. ASSUME NEW k \in 1..n PROVE Cell(k) \in Int \X Int
  <2>1. k - 1 \in Nat /\ wide(1) \in Nat \ {0} /\ low(1) \in Int /\ low(2) \in Int
    BY <1>1, <1>3
  <2>2. (k - 1) % wide(1) \in Int /\ (k - 1) \div wide(1) \in Int
    <3> DEFINE x == k - 1
               s == wide(1)
    <3>1. x \in Nat /\ s \in Nat \ {0}
      BY <2>1
    <3> HIDE DEF x, s
    <3>2. x % s \in Int
      BY <3>1, Z3
    <3>3. x \div s \in Int
      BY <3>1, Z3
    <3> QED
      BY <3>2, <3>3 DEF x, s
  <2> QED
    BY <2>1, <2>2
<1> HIDE DEF Cell, n
<1> QED
  BY <1>2, <1>3, <1>4, IsASeq

\* An id is a number, for tiles west and south of zero too.
LEMMA TileIdIs ==
    ASSUME NEW x \in Int, NEW y \in Int
    PROVE  TileId(x, y) \in Nat
<1> DEFINE code(i) == IF i + TileBias < 0 THEN 0 ELSE i + TileBias
<1>1. TileBias \in Nat /\ TileBase \in Nat
  BY RouteGraphAssumption
<1>2. code(x) \in Nat /\ code(y) \in Nat
  BY <1>1
<1>3. TileId(x, y) = code(x) * TileBase + code(y)
  BY DEF TileId
<1> HIDE DEF code
<1> QED
  BY <1>1, <1>2, <1>3

\* There is a nearest node if there is a node (nearest_graph_node).
LEMMA NearestIs ==
    ASSUME coords \in Seq(Coords), coords # <<>>, NEW c \in Coords
    PROVE  Nearest(c) \in DOMAIN coords
<1> DEFINE D == DOMAIN coords
           away(n) == Away[<<c, coords[n]>>]
<1>1. D = 1..Len(coords) /\ Len(coords) \in Nat /\ D # {}
  BY LenProperties, EmptySeq
<1>2. \A n \in D : n \in Nat /\ away(n) \in Nat
  <2> SUFFICES ASSUME NEW n \in D PROVE n \in Nat /\ away(n) \in Nat
    OBVIOUS
  <2>1. coords[n] \in Coords
    BY <1>1, ElementOfSeq
  <2> QED
    BY <1>1, <2>1, RouteGraphAssumption
<1>3. Nearest(c) = CHOOSE k \in D : \A j \in D : away(k) < away(j) \/ (away(k) = away(j) /\ k <= j)
  BY DEF Nearest
<1> HIDE DEF D, away
<1>4. PICK a \in D : \A n \in D : away(a) <= away(n)
  <2> DEFINE T == {away(n) : n \in D}
  <2>1. T \in SUBSET Nat /\ T # {}
    BY <1>1, <1>2
  <2>2. PICK x \in T : \A y \in T : x <= y
    BY <2>1, LeastNat
  <2> QED
    BY <2>2
<1>5. PICK b \in D : away(b) = away(a) /\ \A n \in D : away(n) = away(a) => b <= n
  <2> DEFINE T == {n \in D : away(n) = away(a)}
  <2>1. T \in SUBSET Nat /\ T # {}
    BY <1>2, <1>4
  <2>2. PICK x \in T : \A y \in T : x <= y
    BY <2>1, LeastNat
  <2> QED
    BY <2>2
<1>6. \A j \in D : away(b) < away(j) \/ (away(b) = away(j) /\ b <= j)
  BY <1>2, <1>4, <1>5
<1> QED
  BY <1>3, <1>5, <1>6 DEF D

\* Why a query may end before a tile is opened.
LEMMA RefusalIs ==
    /\ Refusal \notin {"found", "no path found"}
    /\ Refusal = "none" => from.located /\ to.located
<1> DEFINE A == \E end \in Ends : ~end.found
           B == \E end \in Ends : ~end.located
           C == query.transitOnly
           D == \E end \in Ends : EndTile(end) = 0
           E == \E end \in Ends : Empty(directory[EndTile(end)])
<1>1. Refusal = CASE A -> "address_not_found"
                  [] B -> "no_coordinate"
                  [] C -> "transit_only"
                  [] D -> "endpoint tile not found"
                  [] E -> "payloads are empty"
                  [] OTHER -> "none"
  BY DEF Refusal
<1> HIDE DEF A, B, C, D, E
<1>2. Refusal \notin {"found", "no path found"}
  BY <1>1
<1>3. Refusal = "none" => ~B
  BY <1>1
<1>4. ~B => from.located /\ to.located
  BY DEF B, Ends
<1> QED
  BY <1>2, <1>3, <1>4

-----------------------------------------------------------------------------
(***************************************************************************)
(* The walking route of a query: the inductive invariant.                  *)
(***************************************************************************)
WalksFrom(tiled, i) ==
    {<<tiled.nodes[i], tiled.nodes[tiled.edges[e].to], Max({1, tiled.edges[e].meters})>> :
        e \in {e \in (tiled.offsets[i] + 1)..tiled.offsets[i + 1] :
                   tiled.edges[e].to \in DOMAIN tiled.nodes}}

\* A tile is found again for one of the places that are still to be looked at.
Waits(t) == \E xy \in Elements(todo) : directory[t].id = TileId(xy[1], xy[2])

Complete(t) == \A w \in TileWalks(directory[t]) : Charted(w)

\* Every tile around the ends that has a graph is yet to come, being loaded or
\* in the graph, and of the one being loaded the nodes have the numbers of
\* their coordinates and the edges are there up to the node at hand.
LoadInv ==
    /\ Chart /\ TableKept
    /\ todo \in Seq(Int \X Int) /\ Elements(todo) \subseteq Elements(Neighborhood(TileOf[from.at], TileOf[to.at]))
    /\ tile # 0 => tile \in InReach /\ ~Empty(directory[tile])
    /\ toGlobal \in Seq(Nodes) /\ linked \in 0..Len(toGlobal)
    /\ tile # 0 => /\ Len(toGlobal) <= Len(Payload.nodes)
                   /\ linked # 0 => Len(toGlobal) = Len(Payload.nodes)
                   /\ \A i \in 1..Len(toGlobal) : coords[toGlobal[i]] = Payload.nodes[i]
                   /\ \A i \in 1..linked : \A w \in WalksFrom(Payload, i) : Charted(w)
    /\ \A t \in InReach : ~Empty(directory[t]) => Waits(t) \/ tile = t \/ Complete(t)

\* The graph is whole, the ends are where they were asked for, and the path is
\* one of its edges.
Mapped ==
    /\ Chart /\ \A w \in Walks : Charted(w)
    /\ SearchInv
    /\ step = "done" => Route(path)
    /\ source = Nearest(AskedFor(query.from)) /\ target = Nearest(AskedFor(query.to))

WalkingInv ==
    /\ query \in Queries /\ directory = query.pack
    /\ phase \in {"open", "resolve", "check", "load", "search", "transit", "done", "garbled", "crashed"}
    /\ phase \in {"open", "resolve", "check"} => LoadIdle /\ out = <<>>
    /\ phase \in {"open", "resolve", "check", "load"} => SearchIdle
    /\ phase \in {"open", "resolve", "check", "load", "search"} => status = "pending"
    /\ phase = "check" => from = Resolved(query.from) /\ to = Resolved(query.to)
    /\ phase \in {"load", "search"} =>
          /\ from.at = AskedFor(query.from) /\ to.at = AskedFor(query.to)
          /\ from.at \in Coords /\ to.at \in Coords
    /\ phase = "load" => LoadInv
    /\ phase = "search" => Mapped
    /\ phase \in {"transit", "done", "garbled", "crashed"} /\ status = "found" =>
          /\ Mapped /\ step = "done"
          /\ from.at \in Coords /\ to.at \in Coords
          /\ total = dist[target] + FromSnap + ToSnap
    /\ phase \in {"transit", "done", "garbled", "crashed"} /\ status = "no path found" => Mapped /\ step = "none"

-----------------------------------------------------------------------------
\* The walks of a tile are those of its nodes.
LEMMA WalksOfTile ==
    ASSUME NEW tiled, NEW w
    PROVE  w \in TileWalks(tiled) <=> \E i \in DOMAIN tiled.nodes : w \in WalksFrom(tiled, i)
BY DEF TileWalks, WalksFrom

\* A walk belongs to a tile in reach that has a graph.
LEMMA WalksOfPack ==
    ASSUME NEW w
    PROVE  w \in Walks <=> \E t \in InReach : ~Empty(directory[t]) /\ w \in TileWalks(directory[t])
BY DEF Walks

\* The pack of a query: no two tiles have one id.
LEMMA PackOfQuery ==
    ASSUME query \in Queries, directory = query.pack
    PROVE  /\ QueryShape(query) /\ PackShape(directory)
           /\ DOMAIN directory = 1..Len(directory) /\ Len(directory) \in Nat
           /\ \A t \in DOMAIN directory : directory[t] \in TileRecord
           /\ \A t, u \in DOMAIN directory : directory[t].id = directory[u].id => t = u
<1>1. QueryShape(query) /\ PackShape(directory)
  BY RouteQueryAssumption DEF QueryShape
<1>2. directory \in Seq(TileRecord)
  BY <1>1 DEF PackShape
<1>3. /\ DOMAIN directory = 1..Len(directory) /\ Len(directory) \in Nat
      /\ \A t \in DOMAIN directory : directory[t] \in TileRecord
  BY <1>2, LenProperties, ElementOfSeq
<1>4. ASSUME NEW t \in DOMAIN directory, NEW u \in DOMAIN directory, directory[t].id = directory[u].id
      PROVE  t = u
  <2>1. directory[t].id \in Nat /\ directory[u].id \in Nat /\ t \in Nat /\ u \in Nat
    BY <1>3 DEF TileRecord
  <2>2. ~(t < u) /\ ~(u < t)
    BY <1>1, <1>4, <2>1 DEF PackShape
  <2> QED
    BY <2>1, <2>2
<1> QED
  BY <1>1, <1>3, <1>4

\* What was an edge stays one while the graph grows.
LEMMA ChartedStays ==
    ASSUME Chart, NEW w, Charted(w),
           DOMAIN out \subseteq DOMAIN out',
           \A n \in Nodes : coords'[n] = coords[n] /\ EdgesOf(n) \subseteq Elements(out'[n])
    PROVE  Charted(w)'
<1>1. CASE w[1] = w[2]
  BY <1>1 DEF Charted
<1>2. CASE w[1] # w[2]
  <2>1. PICK n \in Nodes : coords[n] = w[1] /\ \E e \in EdgesOf(n) : coords[e.to] = w[2] /\ e.meters = w[3]
    BY <1>2 DEF Charted
  <2>2. PICK e \in EdgesOf(n) : coords[e.to] = w[2] /\ e.meters = w[3]
    BY <2>1
  <2>3. e.to \in Nodes /\ n \in DOMAIN out'
    BY <2>2, EdgeIsWay DEF Nodes
  <2>4. coords'[n] = w[1] /\ coords'[e.to] = w[2] /\ e \in Elements(out'[n])
    BY <2>1, <2>2, <2>3
  <2>5. \E d \in {out'[n][i] : i \in DOMAIN out'[n]} : coords'[d.to] = w[2] /\ d.meters = w[3]
    BY <2>2, <2>4 DEF Elements
  <2> QED
    BY <2>3, <2>4, <2>5 DEF Charted, Nodes, EdgesOf
<1> QED
  BY <1>1, <1>2

-----------------------------------------------------------------------------
(***************************************************************************)
(* The steps of loading.                                                   *)
(***************************************************************************)
LEMMA SamePlace ==
    ASSUME UNCHANGED <<from, to, directory>>
    PROVE  /\ InReach' = InReach /\ Walks' = Walks
           /\ Neighborhood(TileOf[from.at], TileOf[to.at])' = Neighborhood(TileOf[from.at], TileOf[to.at])
<1>1. InReach' = InReach
  BY DEF InReach
<1>2. Walks' = Walks
  BY <1>1 DEF Walks
<1> QED
  BY <1>1, <1>2

\* While the graph stays, so does what is charted.
LEMMA SameGraphSameChart ==
    ASSUME UNCHANGED <<from, to, directory, coords, out>>
    PROVE  /\ Chart' <=> Chart
           /\ \A w : Charted(w)' <=> Charted(w)
           /\ \A t : Complete(t)' <=> Complete(t)
<1>1. Walks' = Walks
  BY SamePlace
<1>2. \A n : EdgesOf(n)' = EdgesOf(n)
  BY DEF EdgesOf
<1>3. Nodes' = Nodes /\ Way' = Way
  BY DEF Nodes, Way
<1>4. Chart' <=> Chart
  BY <1>1, <1>2, <1>3 DEF Chart, Apart
<1>5. ASSUME NEW w PROVE Charted(w)' <=> Charted(w)
  BY <1>2, <1>3 DEF Charted
<1>6. ASSUME NEW t PROVE Complete(t)' <=> Complete(t)
  BY <1>5 DEF Complete
<1> QED
  BY <1>4, <1>5, <1>6

\* The next tile of the neighbourhood: what waited for it is loaded now, or has no graph.
LEMMA OpenKeeps ==
    ASSUME LoadInv, query \in Queries, directory = query.pack, OpenTile, UNCHANGED <<from, to>>
    PROVE  LoadInv'
<1>1. /\ tile = 0 /\ todo # <<>> /\ todo' = Tail(todo) /\ toGlobal' = <<>> /\ linked' = 0
      /\ UNCHANGED <<from, to, directory, coords, out, slots>>
  BY DEF OpenTile, graphVars
<1>2. /\ Chart' /\ \A t : Complete(t) => Complete(t)'
      /\ InReach' = InReach
      /\ Elements(Neighborhood(TileOf[from.at], TileOf[to.at]))' = Elements(Neighborhood(TileOf[from.at], TileOf[to.at]))
  BY <1>1, SameGraphSameChart, SamePlace DEF LoadInv, Elements
<1>3. TableKept'
  <2>1. TableKept
    BY DEF LoadInv
  <2> QED
    BY <1>1, <2>1 DEF TableKept, InTable, Probe
<1>4. todo \in Seq(Int \X Int)
  BY DEF LoadInv
<1>5. PICK h : h = Head(todo)
  OBVIOUS
<1>6. /\ h \in Int \X Int /\ h \in Elements(todo) /\ todo' \in Seq(Int \X Int)
      /\ \A xy \in Elements(todo) : xy = h \/ xy \in Elements(todo')
      /\ Elements(todo') \subseteq Elements(todo)
  <2>1. /\ Len(todo) \in Nat \ {0} /\ h = todo[1] /\ h \in Int \X Int
        /\ todo' \in Seq(Int \X Int) /\ Len(todo') = Len(todo) - 1
        /\ \A i \in 1..(Len(todo) - 1) : todo'[i] = todo[i + 1]
    BY <1>1, <1>4, <1>5, HeadTailProperties, EmptySeq, LenProperties
  <2>2. DOMAIN todo = 1..Len(todo) /\ DOMAIN todo' = 1..(Len(todo) - 1)
    BY <1>4, <2>1, LenProperties
  <2>3. h \in Elements(todo)
    <3>1. 1 \in DOMAIN todo
      BY <2>1, <2>2
    <3> QED
      BY <2>1, <3>1, Zenon DEF Elements
  <2>4. ASSUME NEW xy \in Elements(todo) PROVE xy = h \/ xy \in Elements(todo')
    <3>1. PICK i \in 1..Len(todo) : xy = todo[i]
      BY <2>2 DEF Elements
    <3>2. i = 1 \/ (i - 1 \in 1..(Len(todo) - 1) /\ i - 1 + 1 = i)
      BY <2>1
    <3> QED
      BY <2>1, <2>2, <3>1, <3>2 DEF Elements
  <2>5. ASSUME NEW xy \in Elements(todo') PROVE xy \in Elements(todo)
    <3>1. PICK i \in 1..(Len(todo) - 1) : xy = todo'[i]
      BY <2>2 DEF Elements
    <3>2. i + 1 \in 1..Len(todo) /\ xy = todo[i + 1]
      BY <2>1, <3>1
    <3> QED
      BY <2>2, <3>2 DEF Elements
  <2> QED
    BY <2>1, <2>3, <2>4, <2>5
<1>7. PICK id : id = TileId(h[1], h[2])
  OBVIOUS
<1>8. id \in Nat
  BY <1>6, <1>7, TileIdIs
<1>9. PICK found : found = FindTile(id)
  OBVIOUS
<1>10. /\ PackShape(directory) /\ DOMAIN directory = 1..Len(directory)
       /\ \A t, u \in DOMAIN directory : directory[t].id = directory[u].id => t = u
  BY PackOfQuery
<1>11. /\ found \in 0..Len(directory)
       /\ found # 0 => directory[found].id = id
       /\ found = 0 => \A t \in 1..Len(directory) : directory[t].id # id
  BY <1>8, <1>9, <1>10, FindTileIs
<1>12. tile' = IF found # 0 /\ ~Empty(directory[found]) THEN found ELSE 0
  BY <1>5, <1>7, <1>9 DEF OpenTile
<1>13. tile' # 0 => tile' \in InReach /\ ~Empty(directory[tile'])
  <2>1. CASE found # 0 /\ ~Empty(directory[found])
    <3>1. found \in DOMAIN directory
      BY <1>10, <1>11, <2>1
    <3>2. \E xy \in Range(Neighborhood(TileOf[from.at], TileOf[to.at])) : id = TileId(xy[1], xy[2])
      <4>1. h \in Range(Neighborhood(TileOf[from.at], TileOf[to.at]))
        BY <1>6 DEF LoadInv, Elements, Range
      <4> QED
        BY <1>7, <4>1
    <3>3. found \in InReach
      BY <1>11, <2>1, <3>1, <3>2 DEF InReach
    <3> QED
      BY <1>12, <2>1, <3>3
  <2>2. CASE ~(found # 0 /\ ~Empty(directory[found]))
    BY <1>12, <2>2
  <2> QED
    BY <2>1, <2>2
<1>14. tile' # 0 => (tile \in InReach /\ ~Empty(directory[tile]))'
  BY <1>1, <1>2, <1>13 DEF Empty
<1>15. ASSUME NEW t \in InReach, ~Empty(directory[t]), ~Complete(t)
       PROVE  Waits(t)' \/ tile' = t
  <2>1. Waits(t)
    <3>1. t # 0
      BY <1>10 DEF InReach
    <3> QED
      BY <1>1, <1>15, <3>1 DEF LoadInv
  <2>2. PICK xy \in Elements(todo) : directory[t].id = TileId(xy[1], xy[2])
    BY <2>1 DEF Waits
  <2>3. CASE xy \in Elements(todo')
    <3>1. \E z \in Elements(todo') : directory'[t].id = TileId(z[1], z[2])
      BY <1>1, <2>2, <2>3
    <3> QED
      BY <3>1 DEF Waits, Elements, TileId
  <2>4. CASE xy = h
    <3>1. t \in DOMAIN directory /\ directory[t].id = id
      BY <1>7, <2>2, <2>4 DEF InReach
    <3>2. found # 0 /\ found \in DOMAIN directory
      BY <1>10, <1>11, <3>1
    <3>3. found = t
      BY <1>10, <1>11, <3>1, <3>2
    <3> QED
      BY <1>12, <1>15, <3>2, <3>3
  <2> QED
    BY <1>6, <2>2, <2>3, <2>4
<1>16. ASSUME NEW t \in InReach, ~Empty(directory[t])
       PROVE  Waits(t)' \/ tile' = t \/ Complete(t)'
  BY <1>2, <1>15, <1>16
<1>17. /\ toGlobal' \in Seq(Nodes') /\ linked' \in 0..Len(toGlobal')
       /\ Len(toGlobal') = 0 /\ linked' = 0
  BY <1>1
<1>18. tile' # 0 => Len(toGlobal') <= Len(Payload.nodes')
  <2> SUFFICES ASSUME tile' # 0 PROVE Len(toGlobal') <= Len(Payload.nodes')
    OBVIOUS
  <2>1. tile' \in DOMAIN directory
    BY <1>13 DEF InReach
  <2>2. directory[tile'] \in TileRecord
    BY <2>1, PackOfQuery
  <2>3. Len(directory[tile'].nodes) \in Nat
    BY <2>2, LenProperties DEF TileRecord
  <2> QED
    BY <1>1, <1>17, <2>3 DEF Payload
<1>19. (\A t \in InReach : ~Empty(directory[t]) => Waits(t) \/ tile = t \/ Complete(t))'
  BY <1>1, <1>2, <1>16 DEF Empty
<1>20. (todo \in Seq(Int \X Int)
         /\ Elements(todo) \subseteq Elements(Neighborhood(TileOf[from.at], TileOf[to.at])))'
  <2>1. Elements(todo)' = Elements(todo')
    BY DEF Elements
  <2> QED
    BY <1>2, <1>6, <2>1 DEF LoadInv
<1>21. (tile # 0 => /\ Len(toGlobal) <= Len(Payload.nodes)
                    /\ linked # 0 => Len(toGlobal) = Len(Payload.nodes)
                    /\ \A i \in 1..Len(toGlobal) : coords[toGlobal[i]] = Payload.nodes[i]
                    /\ \A i \in 1..linked : \A w \in WalksFrom(Payload, i) : Charted(w))'
  BY <1>17, <1>18
<1> QED
  BY <1>2, <1>3, <1>14, <1>17, <1>19, <1>20, <1>21 DEF LoadInv

\* A tile whose nodes all have their edges is complete.
LEMMA CloseKeeps ==
    ASSUME LoadInv, query \in Queries, directory = query.pack, CloseTile, UNCHANGED <<from, to>>
    PROVE  LoadInv'
<1>1. /\ tile # 0 /\ Len(toGlobal) = Len(Payload.nodes) /\ linked = Len(toGlobal) /\ tile' = 0
      /\ UNCHANGED <<from, to, directory, coords, out, slots, todo, toGlobal, linked>>
  BY DEF CloseTile, graphVars
<1>2. /\ Chart' /\ \A t : Complete(t) => Complete(t)'
      /\ InReach' = InReach
      /\ Elements(Neighborhood(TileOf[from.at], TileOf[to.at]))' = Elements(Neighborhood(TileOf[from.at], TileOf[to.at]))
  BY <1>1, SameGraphSameChart, SamePlace DEF LoadInv, Elements
<1>3. TableKept'
  <2>1. TableKept
    BY DEF LoadInv
  <2>2. UNCHANGED <<coords, slots>>
    BY <1>1
  <2> QED
    BY <2>1, <2>2 DEF TableKept, InTable, Probe
<1>4. Complete(tile)
  <2>1. tile \in DOMAIN directory
    BY <1>1 DEF LoadInv, InReach
  <2>2. directory[tile] \in TileRecord
    BY <2>1, PackOfQuery
  <2>3. DOMAIN directory[tile].nodes = 1..Len(directory[tile].nodes)
    BY <2>2, LenProperties DEF TileRecord
  <2>4. \A i \in DOMAIN directory[tile].nodes : \A w \in WalksFrom(directory[tile], i) : Charted(w)
    BY <1>1, <2>3 DEF LoadInv, Payload
  <2> QED
    BY <2>4, WalksOfTile DEF Complete
<1>5. \A t : Waits(t) => Waits(t)'
  BY <1>1 DEF Waits, Elements
<1>6. \A t \in InReach : ~Empty(directory[t]) => Waits(t)' \/ Complete(t)'
  BY <1>2, <1>4, <1>5 DEF LoadInv
<1>7. (\A t \in InReach : ~Empty(directory[t]) => Waits(t) \/ tile = t \/ Complete(t))'
  BY <1>1, <1>2, <1>6 DEF Empty
<1>8. (todo \in Seq(Int \X Int)
         /\ Elements(todo) \subseteq Elements(Neighborhood(TileOf[from.at], TileOf[to.at])))'
  <2>1. Elements(todo)' = Elements(todo)
    BY <1>1 DEF Elements
  <2> QED
    BY <1>1, <1>2, <2>1 DEF LoadInv
<1>9. (toGlobal \in Seq(Nodes) /\ linked \in 0..Len(toGlobal))'
  BY <1>1 DEF LoadInv, Nodes
<1> QED
  BY <1>1, <1>2, <1>3, <1>7, <1>8, <1>9 DEF LoadInv

\* The payload that is being loaded is one of the pack.
LEMMA PayloadIs ==
    ASSUME LoadInv, query \in Queries, directory = query.pack, tile # 0
    PROVE  /\ tile \in DOMAIN directory /\ Payload \in TileRecord
           /\ Payload.nodes \in Seq(Coords) /\ Payload.offsets \in Seq(Nat)
           /\ Payload.edges \in Seq([to : Nat \ {0}, meters : Nat])
           /\ Len(Payload.offsets) = Len(Payload.nodes) + 1 /\ Len(Payload.nodes) \in Nat
<1>1. tile \in DOMAIN directory
  BY DEF LoadInv, InReach
<1>2. Payload \in TileRecord /\ Len(Payload.offsets) = Len(Payload.nodes) + 1
  BY <1>1, PackOfQuery DEF Payload, PackShape
<1> QED
  BY <1>1, <1>2, LenProperties DEF TileRecord

\* One more node, with the coordinates apart.
LEMMA ChartGrows ==
    ASSUME Chart, NEW c \in Coords, coords' = Append(coords, c), out' = Append(out, <<>>),
           \A i \in 1..Len(coords) : coords[i] # c, UNCHANGED <<from, to, directory>>
    PROVE  /\ Chart' /\ \A w : Charted(w) => Charted(w)'
           /\ Nodes' = 1..(Len(coords) + 1) /\ Nodes = 1..Len(coords) /\ Len(coords) \in Nat
           /\ coords'[Len(coords) + 1] = c /\ \A n \in Nodes : coords'[n] = coords[n]
<1> DEFINE N == Len(coords)
<1>1. N \in Nat /\ coords \in Seq(Coords) /\ DOMAIN out = 1..N /\ Nodes = 1..N
  BY LenProperties DEF Chart, Nodes
<1>2. /\ coords' \in Seq(Coords) /\ Len(coords') = N + 1 /\ coords'[N + 1] = c
      /\ \A n \in 1..N : coords'[n] = coords[n]
  BY <1>1, AppendProperties
<1>3. out \in Seq(Seq(Way)) /\ Len(out) = N
  <2>1. out \in [1..N -> Seq(Way)]
    BY <1>1 DEF Chart
  <2>2. out \in UNION {[1..n -> Seq(Way)] : n \in Nat}
    BY <1>1, <2>1, Zenon
  <2>3. Seq(Seq(Way)) = UNION {[1..n -> Seq(Way)] : n \in Nat}
    BY SeqDef, Zenon
  <2>4. out \in Seq(Seq(Way))
    BY <2>2, <2>3, Zenon
  <2>5. DOMAIN out = 1..Len(out) /\ Len(out) \in Nat
    BY <2>4, LenProperties
  <2>6. Len(out) = N
    BY <1>1, <2>5
  <2> QED
    BY <2>4, <2>6
<1>4. /\ out' \in Seq(Seq(Way)) /\ Len(out') = N + 1 /\ out'[N + 1] = <<>>
      /\ \A n \in 1..N : out'[n] = out[n]
  <2>1. <<>> \in Seq(Way)
    BY EmptySeq
  <2> QED
    BY <1>3, <2>1, AppendProperties
<1>5. DOMAIN out' = 1..(N + 1) /\ Nodes' = 1..(N + 1) /\ \A n \in Nodes' : out'[n] \in Seq(Way)
  <2>1. DOMAIN out' = 1..(N + 1)
    BY <1>4, LenProperties
  <2> QED
    BY <1>4, <2>1, ElementOfSeq DEF Nodes
<1>6. Way \subseteq Way'
  BY <1>1, <1>5 DEF Way
<1>7. out' \in [Nodes' -> Seq(Way')]
  <2>1. \A n \in Nodes' : out'[n] \in Seq(Way')
    BY <1>5, <1>6, SeqMonotonic
  <2>2. out' \in [1..(N + 1) -> Seq(Way)]
    BY <1>4, LenProperties
  <2> QED
    BY <1>5, <2>1, <2>2
<1>8. \A n \in Nodes : EdgesOf(n)' = EdgesOf(n)
  BY <1>1, <1>4 DEF EdgesOf
<1>9. ASSUME NEW n, n = N + 1 PROVE EdgesOf(n)' = {}
  <2>1. out'[n] = <<>>
    BY <1>4, <1>9
  <2>2. DOMAIN out'[n] = {}
    <3>1. <<>> \in Seq({}) /\ Len(<<>>) = 0
      BY EmptySeq
    <3>2. DOMAIN <<>> = 1..0
      BY <3>1, LenProperties
    <3>3. 1..0 = {}
      OBVIOUS
    <3> QED
      BY <2>1, <3>2, <3>3, Zenon
  <2> QED
    BY <2>2 DEF EdgesOf
<1>10. Apart(coords')
  <2> SUFFICES ASSUME NEW i \in 1..(N + 1), NEW j \in 1..(N + 1), coords'[i] = coords'[j] PROVE i = j
    BY <1>2 DEF Apart
  <2>1. CASE i \in 1..N /\ j \in 1..N
    <3>1. coords[i] = coords[j]
      BY <1>2, <2>1
    <3> QED
      BY <2>1, <3>1 DEF Chart, Apart
  <2>2. CASE i \in 1..N /\ j = N + 1
    BY <1>2, <2>2
  <2>3. CASE i = N + 1 /\ j \in 1..N
    BY <1>2, <2>3
  <2>4. CASE i = N + 1 /\ j = N + 1
    BY <2>4
  <2> QED
    BY <1>1, <2>1, <2>2, <2>3, <2>4
<1>11. (\A n \in Nodes : \A e \in EdgesOf(n) : <<coords[n], coords[e.to], e.meters>> \in Walks)'
  <2>1. ASSUME NEW n \in 1..(N + 1), NEW e \in EdgesOf(n)'
        PROVE  <<coords'[n], coords'[e.to], e.meters>> \in Walks
    <3>1. n \in Nodes /\ e \in EdgesOf(n)
      <4>1. n = N + 1 \/ n \in Nodes
        BY <1>1
      <4>2. n # N + 1
        BY <1>9, <2>1
      <4> QED
        BY <1>8, <2>1, <4>1, <4>2
    <3>2. e.to \in Nodes /\ <<coords[n], coords[e.to], e.meters>> \in Walks
      BY <3>1, EdgeIsWay DEF Chart
    <3> QED
      BY <1>1, <1>2, <3>1, <3>2
  <2> QED
    BY <1>5, <2>1, SamePlace
<1>12. Chart'
  BY <1>2, <1>5, <1>7, <1>10, <1>11 DEF Chart, Apart
<1>13. ASSUME NEW w, Charted(w) PROVE Charted(w)'
  <2>1. DOMAIN out \subseteq DOMAIN out'
    BY <1>1, <1>5
  <2>2. \A n \in Nodes : coords'[n] = coords[n] /\ EdgesOf(n) \subseteq Elements(out'[n])
    BY <1>1, <1>2, <1>4 DEF EdgesOf, Elements
  <2> QED
    BY <1>13, <2>1, <2>2, ChartedStays
<1> HIDE DEF N
<1> QED
  BY <1>1, <1>2, <1>5, <1>12, <1>13 DEF N

\* The graph after one more node of a tile: it has the coordinates it had, and
\* what was charted still is.
LEMMA NodeIsCharted ==
    ASSUME LoadInv, query \in Queries, directory = query.pack, LoadNode, UNCHANGED <<from, to>>
    PROVE  /\ Chart' /\ TableKept' /\ \A w : Charted(w) => Charted(w)'
           /\ Nodes \subseteq Nodes' /\ \A n \in Nodes : coords'[n] = coords[n]
           /\ \E n \in Nodes' : toGlobal' = Append(toGlobal, n) /\ coords'[n] = Payload.nodes[Len(toGlobal) + 1]
<1>1. tile # 0 /\ UNCHANGED directory
  BY DEF LoadNode
<1>2. Chart /\ TableKept /\ toGlobal \in Seq(Nodes) /\ coords \in Seq(Coords) /\ Nodes = 1..Len(coords)
  BY DEF LoadInv, Chart, Nodes
<1>3. Len(coords) \in Nat
  BY <1>2, LenProperties
<1>4. toGlobal \in Seq(Nat)
  <2>1. Nodes \subseteq Nat
    BY <1>2, <1>3
  <2> QED
    BY <1>2, <2>1, SeqMonotonic
<1>5. Payload.nodes \in Seq(Coords)
  BY <1>1, PayloadIs
<1>6. /\ TableKept'
      /\ \E c \in Coords, n \in Nat :
            /\ c = Payload.nodes[Len(toGlobal) + 1]
            /\ toGlobal' = Append(toGlobal, n)
            /\ \/ n \in 1..Len(coords) /\ coords[n] = c /\ UNCHANGED <<coords, out>>
               \/ /\ n = Len(coords) + 1
                  /\ coords' = Append(coords, c) /\ out' = Append(out, <<>>)
                  /\ \A i \in 1..Len(coords) : coords[i] # c
  BY <1>2, <1>4, <1>5, LoadNodeIs
<1>7. PICK c \in Coords, n \in Nat :
            /\ c = Payload.nodes[Len(toGlobal) + 1]
            /\ toGlobal' = Append(toGlobal, n)
            /\ \/ n \in 1..Len(coords) /\ coords[n] = c /\ UNCHANGED <<coords, out>>
               \/ /\ n = Len(coords) + 1
                  /\ coords' = Append(coords, c) /\ out' = Append(out, <<>>)
                  /\ \A i \in 1..Len(coords) : coords[i] # c
  BY <1>6
<1>8. CASE n \in 1..Len(coords) /\ coords[n] = c /\ UNCHANGED <<coords, out>>
  <2>1. Chart' /\ \A w : Charted(w) => Charted(w)'
    BY <1>1, <1>2, <1>8, SameGraphSameChart
  <2>2. Nodes' = Nodes /\ coords' = coords
    BY <1>8 DEF Nodes
  <2> QED
    BY <1>2, <1>6, <1>7, <1>8, <2>1, <2>2
<1>9. CASE /\ n = Len(coords) + 1
           /\ coords' = Append(coords, c) /\ out' = Append(out, <<>>)
           /\ \A i \in 1..Len(coords) : coords[i] # c
  <2>1. /\ Chart' /\ \A w : Charted(w) => Charted(w)'
        /\ Nodes' = 1..(Len(coords) + 1) /\ Nodes = 1..Len(coords) /\ Len(coords) \in Nat
        /\ coords'[Len(coords) + 1] = c /\ \A k \in Nodes : coords'[k] = coords[k]
    BY <1>1, <1>2, <1>9, ChartGrows
  <2>2. n \in Nodes' /\ coords'[n] = c /\ Nodes \subseteq Nodes'
    BY <1>9, <2>1
  <2> QED
    BY <1>6, <1>7, <2>1, <2>2
<1> QED
  BY <1>7, <1>8, <1>9

\* While one tile is loaded, the others stay where they are.
LEMMA TilesKept ==
    ASSUME LoadInv, UNCHANGED <<from, to, directory, todo, tile>>, \A t : Complete(t) => Complete(t)'
    PROVE  (/\ todo \in Seq(Int \X Int)
            /\ Elements(todo) \subseteq Elements(Neighborhood(TileOf[from.at], TileOf[to.at]))
            /\ tile # 0 => tile \in InReach /\ ~Empty(directory[tile])
            /\ \A t \in InReach : ~Empty(directory[t]) => Waits(t) \/ tile = t \/ Complete(t))'
<1>1. InReach' = InReach
  BY SamePlace
<1>2. \A t : Waits(t)' <=> Waits(t)
  BY DEF Waits, Elements
<1>3. Elements(todo)' = Elements(todo)
  BY DEF Elements
<1>4. Elements(Neighborhood(TileOf[from.at], TileOf[to.at]))' = Elements(Neighborhood(TileOf[from.at], TileOf[to.at]))
  BY SamePlace DEF Elements
<1>5. (todo \in Seq(Int \X Int) /\ Elements(todo) \subseteq Elements(Neighborhood(TileOf[from.at], TileOf[to.at])))'
  BY <1>3, <1>4 DEF LoadInv
<1>6. (tile # 0 => tile \in InReach /\ ~Empty(directory[tile]))'
  BY <1>1 DEF LoadInv, Empty
<1>7. (\A t \in InReach : ~Empty(directory[t]) => Waits(t) \/ tile = t \/ Complete(t))'
  <2>1. ASSUME NEW t \in InReach, ~Empty(directory[t])
        PROVE  Waits(t)' \/ tile' = t \/ Complete(t)'
    BY <1>2, <2>1 DEF LoadInv
  <2> QED
    BY <1>1, <2>1 DEF Empty
<1> QED
  BY <1>5, <1>6, <1>7

\* A node of a tile keeps the invariant (graph_node_for_coord).
LEMMA LoadNodeKeeps ==
    ASSUME LoadInv, query \in Queries, directory = query.pack, LoadNode, UNCHANGED <<from, to>>
    PROVE  LoadInv'
<1> DEFINE nodes == Payload.nodes
           L == Len(toGlobal)
<1>1. tile # 0 /\ L < Len(nodes) /\ UNCHANGED <<source, target, directory, todo, tile, linked, tilesLoaded>>
  BY DEF LoadNode
<1>2. linked = 0
  <2>1. linked # 0 => Len(toGlobal) = Len(Payload.nodes)
    BY <1>1 DEF LoadInv
  <2>2. Len(Payload.nodes) \in Nat
    BY <1>1, PayloadIs
  <2> QED
    BY <1>1, <2>1, <2>2
<1>3. /\ Chart' /\ TableKept' /\ \A w : Charted(w) => Charted(w)'
      /\ Nodes \subseteq Nodes' /\ \A n \in Nodes : coords'[n] = coords[n]
      /\ \E n \in Nodes' : toGlobal' = Append(toGlobal, n) /\ coords'[n] = Payload.nodes[Len(toGlobal) + 1]
  BY NodeIsCharted
<1>4. PICK n \in Nodes' : toGlobal' = Append(toGlobal, n) /\ coords'[n] = nodes[L + 1]
  BY <1>3
<1>5. toGlobal \in Seq(Nodes) /\ toGlobal \in Seq(Nodes') /\ L \in Nat
  BY <1>3, SeqMonotonic, LenProperties DEF LoadInv
<1>6. /\ toGlobal' \in Seq(Nodes') /\ Len(toGlobal') = L + 1 /\ toGlobal'[L + 1] = n
      /\ \A i \in 1..L : toGlobal'[i] = toGlobal[i]
  BY <1>4, <1>5, AppendProperties
<1>7. Payload' = Payload /\ Len(nodes) \in Nat
  BY <1>1, PayloadIs DEF Payload
<1>8. ASSUME NEW i \in 1..(L + 1) PROVE coords'[toGlobal'[i]] = nodes[i]
  <2>1. CASE i \in 1..L
    <3>1. toGlobal[i] \in Nodes
      BY <1>5, <2>1, ElementOfSeq
    <3>2. coords[toGlobal[i]] = nodes[i]
      BY <1>1, <2>1 DEF LoadInv
    <3> QED
      BY <1>3, <1>6, <2>1, <3>1, <3>2
  <2>2. CASE i = L + 1
    BY <1>4, <1>6, <2>2
  <2> QED
    BY <1>5, <2>1, <2>2
<1>9. (tile # 0 => /\ Len(toGlobal) <= Len(Payload.nodes)
                   /\ linked # 0 => Len(toGlobal) = Len(Payload.nodes)
                   /\ \A i \in 1..Len(toGlobal) : coords[toGlobal[i]] = Payload.nodes[i]
                   /\ \A i \in 1..linked : \A w \in WalksFrom(Payload, i) : Charted(w))'
  <2>1. Len(toGlobal') <= Len(nodes)
    BY <1>1, <1>5, <1>6, <1>7
  <2>2. linked' = 0 /\ 1..linked' = {}
    BY <1>1, <1>2
  <2>3. \A i \in 1..Len(toGlobal') : coords'[toGlobal'[i]] = Payload'.nodes[i]
    BY <1>6, <1>7, <1>8
  <2> QED
    BY <1>7, <2>1, <2>2, <2>3
<1>10. \A t : Complete(t) => Complete(t)'
  <2>1. ASSUME NEW t, Complete(t), NEW w \in TileWalks(directory[t])
        PROVE  Charted(w)'
    BY <1>3, <2>1 DEF Complete
  <2> QED
    BY <1>1, <2>1 DEF Complete
<1>11. (/\ todo \in Seq(Int \X Int)
        /\ Elements(todo) \subseteq Elements(Neighborhood(TileOf[from.at], TileOf[to.at]))
        /\ tile # 0 => tile \in InReach /\ ~Empty(directory[tile])
        /\ \A t \in InReach : ~Empty(directory[t]) => Waits(t) \/ tile = t \/ Complete(t))'
  BY <1>1, <1>10, TilesKept
<1>12. (toGlobal \in Seq(Nodes) /\ linked \in 0..Len(toGlobal))'
  BY <1>1, <1>2, <1>5, <1>6
<1> HIDE DEF nodes, L
<1> QED
  BY <1>3, <1>9, <1>11, <1>12 DEF LoadInv

\* The node whose edges are linked, and the part of the edges that is its own.
LEMMA LinkedNodeIs ==
    ASSUME LoadInv, query \in Queries, directory = query.pack, LinkEdges
    PROVE  /\ tile # 0 /\ Len(toGlobal) = Len(Payload.nodes) /\ Len(toGlobal) \in Nat
           /\ linked \in Nat /\ linked + 1 \in 1..Len(toGlobal) /\ linked + 1 + 1 = linked + 2
           /\ toGlobal \in [1..Len(toGlobal) -> Nodes] /\ toGlobal[linked + 1] \in Nodes
           /\ DOMAIN Payload.nodes = 1..Len(toGlobal)
           /\ Begin \in Nat /\ End \in Nat
           /\ \A i \in 1..Len(toGlobal) : coords[toGlobal[i]] = Payload.nodes[i]
           /\ \A e \in (Begin + 1)..End : Payload.edges[e].to \in Nat \ {0} /\ Payload.edges[e].meters \in Nat
<1>1. tile # 0 /\ Len(toGlobal) = Len(Payload.nodes) /\ linked < Len(toGlobal) /\ End <= Len(Payload.edges)
  BY DEF LinkEdges
<1>2. toGlobal \in Seq(Nodes) /\ linked \in 0..Len(toGlobal)
  BY DEF LoadInv
<1>3. Len(toGlobal) \in Nat /\ toGlobal \in [1..Len(toGlobal) -> Nodes]
  BY <1>2, LenProperties
<1>4. linked \in Nat /\ linked + 1 \in 1..Len(toGlobal) /\ linked + 1 + 1 = linked + 2
  BY <1>1, <1>2, <1>3
<1>5. /\ Payload.nodes \in Seq(Coords) /\ Payload.offsets \in Seq(Nat)
      /\ Payload.edges \in Seq([to : Nat \ {0}, meters : Nat])
      /\ Len(Payload.offsets) = Len(Payload.nodes) + 1
  BY <1>1, PayloadIs
<1>6. DOMAIN Payload.nodes = 1..Len(toGlobal)
  BY <1>1, <1>5, LenProperties
<1>7. Begin \in Nat /\ End \in Nat
  <2>1. linked + 1 \in 1..Len(Payload.offsets) /\ linked + 2 \in 1..Len(Payload.offsets)
    BY <1>1, <1>3, <1>4, <1>5
  <2> QED
    BY <1>5, <2>1, ElementOfSeq DEF Begin, End
<1>8. \A i \in 1..Len(toGlobal) : coords[toGlobal[i]] = Payload.nodes[i]
  BY <1>1 DEF LoadInv
<1>9. ASSUME NEW e \in (Begin + 1)..End
      PROVE  Payload.edges[e].to \in Nat \ {0} /\ Payload.edges[e].meters \in Nat
  <2>1. e \in 1..Len(Payload.edges)
    <3>1. Len(Payload.edges) \in Nat
      BY <1>5, LenProperties
    <3> QED
      BY <1>1, <1>7, <3>1
  <2>2. Payload.edges[e] \in [to : Nat \ {0}, meters : Nat]
    BY <1>5, <2>1, ElementOfSeq
  <2> QED
    BY <2>2
<1> QED
  BY <1>1, <1>3, <1>4, <1>6, <1>7, <1>8, <1>9

\* An edge of no length gets one metre.
LEMMA OneAtLeast ==
    ASSUME NEW m \in Nat
    PROVE  Max({1, m}) = IF m = 0 THEN 1 ELSE m
<1>1. 1 \in Int /\ m \in Int
  OBVIOUS
<1>2. Max({1, m}) = IF 1 >= m THEN 1 ELSE m
  BY <1>1, LeastAndGreatest, Zenon
<1> QED
  BY <1>2

\* An edge that is kept is an edge of the graph, and a walk of the payload.
LEMMA KeptIsWalk ==
    ASSUME LoadInv, query \in Queries, directory = query.pack, LinkEdges,
           NEW e \in (Begin + 1)..End, Keeps(Payload.edges[e])
    PROVE  /\ NewEdge(Payload.edges[e]) \in Way
           /\ LET edge == NewEdge(Payload.edges[e])
              IN  <<coords[toGlobal[linked + 1]], coords[edge.to], edge.meters>> \in Walks
<1> DEFINE edge == Payload.edges[e]
           n == toGlobal[linked + 1]
           nodes == Payload.nodes
           offsets == Payload.offsets
           new == NewEdge(edge)
<1>1. /\ tile # 0 /\ Len(toGlobal) \in Nat
      /\ linked \in Nat /\ linked + 1 \in 1..Len(toGlobal) /\ linked + 1 + 1 = linked + 2
      /\ toGlobal \in [1..Len(toGlobal) -> Nodes]
      /\ DOMAIN nodes = 1..Len(toGlobal)
      /\ \A i \in 1..Len(toGlobal) : coords[toGlobal[i]] = nodes[i]
      /\ edge.to \in Nat \ {0} /\ edge.meters \in Nat
  BY LinkedNodeIs
<1>2. edge.to \in 1..Len(toGlobal)
  BY <1>1 DEF Keeps
<1>3. new.to = toGlobal[edge.to] /\ new.meters = (IF edge.meters = 0 THEN 1 ELSE edge.meters)
  BY DEF NewEdge
<1>4. new \in Way
  <2>1. toGlobal[edge.to] \in Nodes /\ (IF edge.meters = 0 THEN 1 ELSE edge.meters) \in Nat \ {0}
    BY <1>1, <1>2
  <2> QED
    BY <2>1 DEF Way, NewEdge
<1>5. Max({1, edge.meters}) = new.meters
  <2>1. Max({1, edge.meters}) = IF edge.meters = 0 THEN 1 ELSE edge.meters
    BY <1>1, OneAtLeast, Zenon
  <2> QED
    BY <1>3, <2>1, Zenon
<1>6. coords[n] = nodes[linked + 1] /\ coords[new.to] = nodes[edge.to]
  BY <1>1, <1>2, <1>3
<1>7. <<nodes[linked + 1], nodes[edge.to], Max({1, edge.meters})>> \in WalksFrom(Payload, linked + 1)
  <2>1. e \in (offsets[linked + 1] + 1)..offsets[linked + 1 + 1]
    BY <1>1 DEF Begin, End
  <2>2. edge.to \in DOMAIN nodes
    BY <1>1, <1>2
  <2> QED
    BY <2>1, <2>2 DEF WalksFrom
<1>8. <<nodes[linked + 1], nodes[edge.to], Max({1, edge.meters})>> \in Walks
  <2>1. linked + 1 \in DOMAIN nodes
    BY <1>1
  <2>2. <<nodes[linked + 1], nodes[edge.to], Max({1, edge.meters})>> \in TileWalks(Payload)
    BY <1>7, <2>1, WalksOfTile
  <2>3. tile \in InReach /\ ~Empty(directory[tile])
    BY <1>1 DEF LoadInv
  <2> QED
    BY <2>2, <2>3, WalksOfPack DEF Payload
<1> QED
  BY <1>4, <1>5, <1>6, <1>8

\* The edges of a node keep the invariant.
LEMMA LinkKeeps ==
    ASSUME LoadInv, query \in Queries, directory = query.pack, LinkEdges, UNCHANGED <<from, to>>
    PROVE  LoadInv'
<1> DEFINE n == toGlobal[linked + 1]
           nodes == Payload.nodes
<1>1. /\ tile # 0 /\ linked' = linked + 1
      /\ UNCHANGED <<source, target, directory, coords, slots, todo, tile, toGlobal>>
  BY DEF LinkEdges
<1>2. /\ Len(toGlobal) = Len(nodes) /\ Len(toGlobal) \in Nat
      /\ linked \in Nat /\ linked + 1 \in 1..Len(toGlobal) /\ linked + 1 + 1 = linked + 2
      /\ toGlobal \in [1..Len(toGlobal) -> Nodes] /\ n \in Nodes
      /\ DOMAIN nodes = 1..Len(toGlobal)
      /\ Begin \in Nat /\ End \in Nat
      /\ \A i \in 1..Len(toGlobal) : coords[toGlobal[i]] = nodes[i]
      /\ \A e \in (Begin + 1)..End : Payload.edges[e].to \in Nat \ {0} /\ Payload.edges[e].meters \in Nat
  BY LinkedNodeIs
<1>3. Chart /\ out \in [Nodes -> Seq(Way)]
  BY DEF LoadInv, Chart
<1>4. PICK q \in Seq(Way) :
          /\ out' = [out EXCEPT ![n] = q]
          /\ \A x : x \in Elements(q) <=>
                \/ x \in Elements(out[n])
                \/ \E e \in (Begin + 1)..End : Keeps(Payload.edges[e]) /\ x = NewEdge(Payload.edges[e])
  <2>1. out[n] \in Seq(Way)
    BY <1>2, <1>3
  <2>2. \A e \in (Begin + 1)..End : Keeps(Payload.edges[e]) => NewEdge(Payload.edges[e]) \in Way
    BY KeptIsWalk
  <2> QED
    BY <1>2, <2>1, <2>2, LinkEdgesIs
<1>5. Nodes' = Nodes /\ Way' = Way /\ out' \in [Nodes -> Seq(Way)]
  <2>1. DOMAIN out' = DOMAIN out
    BY <1>4
  <2>2. Nodes' = Nodes
    BY <2>1 DEF Nodes
  <2>3. out' \in [Nodes -> Seq(Way)]
    BY <1>2, <1>3, <1>4
  <2> QED
    BY <2>2, <2>3 DEF Way
<1>6. /\ \A k \in Nodes : out'[k] = IF k = n THEN q ELSE out[k]
      /\ \A k \in Nodes : EdgesOf(k) = Elements(out[k]) /\ EdgesOf(k)' = Elements(out'[k])
  BY <1>3, <1>4 DEF EdgesOf, Elements
<1>7. ASSUME NEW k \in Nodes, NEW e \in EdgesOf(k)'
      PROVE  <<coords[k], coords[e.to], e.meters>> \in Walks
  <2>1. CASE e \in EdgesOf(k)
    BY <1>3, <2>1 DEF Chart
  <2>2. CASE k = n /\ \E i \in (Begin + 1)..End : Keeps(Payload.edges[i]) /\ e = NewEdge(Payload.edges[i])
    BY <2>2, KeptIsWalk
  <2>3. CASE k = n
    <3>1. e \in Elements(q)
      BY <1>6, <1>7, <2>3
    <3> QED
      BY <1>4, <1>6, <2>1, <2>2, <2>3, <3>1
  <2>4. CASE k # n
    BY <1>6, <1>7, <2>1, <2>4
  <2> QED
    BY <2>3, <2>4
<1>8. Chart'
  <2>1. (\A k \in Nodes : \A e \in EdgesOf(k) : <<coords[k], coords[e.to], e.meters>> \in Walks)'
    BY <1>1, <1>5, <1>7, SamePlace
  <2>2. (coords \in Seq(Coords) /\ Apart(coords))' /\ DOMAIN out' = 1..Len(coords)
    BY <1>1, <1>3, <1>5 DEF Chart, Apart, Nodes
  <2> QED
    BY <1>1, <1>5, <2>1, <2>2 DEF Chart
<1>9. ASSUME NEW w, Charted(w) PROVE Charted(w)'
  <2>1. DOMAIN out \subseteq DOMAIN out'
    BY <1>4
  <2>2. \A k \in Nodes : coords'[k] = coords[k] /\ EdgesOf(k) \subseteq Elements(out'[k])
    BY <1>1, <1>4, <1>6
  <2> QED
    BY <1>3, <1>9, <2>1, <2>2, ChartedStays
<1>10. ASSUME NEW w \in WalksFrom(Payload, linked + 1) PROVE Charted(w)'
  <2>1. PICK e \in (Begin + 1)..End :
            /\ Payload.edges[e].to \in DOMAIN nodes
            /\ w = <<nodes[linked + 1], nodes[Payload.edges[e].to], Max({1, Payload.edges[e].meters})>>
    BY <1>2 DEF WalksFrom, Begin, End
  <2> DEFINE edge == Payload.edges[e]
  <2>2. edge.to \in 1..Len(toGlobal) /\ edge.meters \in Nat
    BY <1>2, <2>1
  <2>3. Max({1, edge.meters}) = (IF edge.meters = 0 THEN 1 ELSE edge.meters)
    BY <2>2, OneAtLeast, Zenon
  <2>4. w[3] \in Nat /\ w[1] = coords[n] /\ w[2] = coords[toGlobal[edge.to]]
    <3>1. PICK m : m = Max({1, edge.meters})
      OBVIOUS
    <3>2. w = <<nodes[linked + 1], nodes[edge.to], m>>
      BY <2>1, <3>1, Zenon
    <3>3. w[1] = nodes[linked + 1] /\ w[2] = nodes[edge.to] /\ w[3] = m
      BY <3>2
    <3>4. m \in Nat
      BY <2>2, <2>3, <3>1
    <3> QED
      BY <1>2, <2>2, <3>3, <3>4
  <2>5. CASE ~Keeps(edge)
    <3>1. toGlobal[edge.to] = n
      BY <1>2, <2>2, <2>5 DEF Keeps
    <3> QED
      BY <2>4, <3>1 DEF Charted
  <2>6. CASE Keeps(edge)
    <3>1. PICK k, new : k = n /\ new = NewEdge(edge)
      OBVIOUS
    <3>2. k \in Nodes /\ new \in Elements(q) /\ out'[k] = q
      BY <1>2, <1>4, <1>6, <2>1, <2>6, <3>1
    <3>3. new \in {out'[k][i] : i \in DOMAIN out'[k]}
      BY <3>2 DEF Elements
    <3>4. coords'[new.to] = w[2] /\ new.meters = w[3] /\ coords'[k] = w[1]
      BY <1>1, <2>1, <2>3, <2>4, <3>1 DEF NewEdge
    <3> QED
      BY <1>5, <2>4, <3>2, <3>3, <3>4 DEF Charted, EdgesOf
  <2> QED
    BY <2>5, <2>6
<1>11. \A t : Complete(t) => Complete(t)'
  <2>1. ASSUME NEW t, Complete(t), NEW w \in TileWalks(directory[t])
        PROVE  Charted(w)'
    BY <1>9, <2>1 DEF Complete
  <2> QED
    BY <1>1, <2>1 DEF Complete
<1>12. (/\ todo \in Seq(Int \X Int)
        /\ Elements(todo) \subseteq Elements(Neighborhood(TileOf[from.at], TileOf[to.at]))
        /\ tile # 0 => tile \in InReach /\ ~Empty(directory[tile])
        /\ \A t \in InReach : ~Empty(directory[t]) => Waits(t) \/ tile = t \/ Complete(t))'
  BY <1>1, <1>11, TilesKept
<1>13. Payload' = Payload /\ toGlobal' = toGlobal /\ tile' = tile /\ coords' = coords
  BY <1>1 DEF Payload
<1>14. ASSUME NEW i \in 1..(linked + 1), NEW w \in WalksFrom(Payload, i) PROVE Charted(w)'
  <2>1. CASE i = linked + 1
    BY <1>10, <1>14, <2>1
  <2>2. CASE i \in 1..linked
    BY <1>1, <1>9, <1>14, <2>2 DEF LoadInv
  <2> QED
    BY <1>2, <2>1, <2>2
<1>15. (tile # 0 => /\ Len(toGlobal) <= Len(Payload.nodes)
                    /\ linked # 0 => Len(toGlobal) = Len(Payload.nodes)
                    /\ \A i \in 1..Len(toGlobal) : coords[toGlobal[i]] = Payload.nodes[i]
                    /\ \A i \in 1..linked : \A w \in WalksFrom(Payload, i) : Charted(w))'
  <2>1. \A i \in 1..linked' : \A w \in WalksFrom(Payload, i) : Charted(w)'
    BY <1>1, <1>14
  <2>2. \A i : WalksFrom(Payload, i)' = WalksFrom(Payload, i)
    BY <1>13 DEF WalksFrom
  <2>3. \A i \in 1..linked' : \A w \in WalksFrom(Payload, i)' : Charted(w)'
    BY <2>1, <2>2
  <2> QED
    BY <1>2, <1>13, <2>3
<1>16. (toGlobal \in Seq(Nodes) /\ linked \in 0..Len(toGlobal))'
  BY <1>1, <1>2, <1>5 DEF LoadInv
<1>17. TableKept'
  <2>1. TableKept
    BY DEF LoadInv
  <2>2. UNCHANGED <<coords, slots>>
    BY <1>1
  <2> QED
    BY <2>1, <2>2 DEF TableKept, InTable, Probe
<1> HIDE DEF n, nodes
<1> QED
  BY <1>8, <1>12, <1>15, <1>16, <1>17 DEF LoadInv

\* Nothing is loaded yet, and everything is to come (main up to the loop over
\* the tiles).
LEMMA LoadStarts ==
    ASSUME query \in Queries, directory = query.pack, LoadIdle, out = <<>>,
           from.at \in Coords, to.at \in Coords,
           StartLoad(TileOf[from.at], TileOf[to.at]), UNCHANGED <<out, from, to>>
    PROVE  LoadInv'
<1> DEFINE around == Neighborhood(TileOf[from.at], TileOf[to.at])
<1>1. /\ coords' = <<>> /\ slots' = <<>> /\ tile' = 0 /\ toGlobal' = <<>> /\ linked' = 0 /\ out' = <<>>
      /\ todo' = around /\ directory' = directory
  BY DEF LoadIdle, StartLoad
<1>2. 1..0 = {} /\ DOMAIN <<>> = 1..0 /\ Len(<<>>) = 0
  <2>1. <<>> \in Seq({}) /\ Len(<<>>) = 0
    BY EmptySeq
  <2>2. DOMAIN <<>> = 1..0
    BY <2>1, LenProperties
  <2> QED
    BY <2>1, <2>2
<1>3. Chart'
  <2>1. Nodes' = {} /\ DOMAIN out' = 1..Len(coords')
    BY <1>1, <1>2 DEF Nodes
  <2>2. out' \in [Nodes' -> Seq(Way')]
    <3>1. <<>> \in Seq(Seq(Way'))
      BY EmptySeq
    <3>2. <<>> \in [1..0 -> Seq(Way')]
      BY <1>2, <3>1, LenProperties
    <3> QED
      BY <1>1, <1>2, <2>1, <3>2
  <2>3. coords' \in Seq(Coords)
    BY <1>1, EmptySeq
  <2>4. Apart(coords')
    BY <1>1, <1>2 DEF Apart
  <2> QED
    BY <2>1, <2>2, <2>3, <2>4 DEF Chart, Apart
<1>4. TableKept'
  BY <1>1 DEF TableKept
<1>5. around \in Seq(Int \X Int)
  <2>1. TileOf[from.at] \in Int \X Int /\ TileOf[to.at] \in Int \X Int
    BY RouteQueryAssumption
  <2> QED
    BY <2>1, NeighborhoodIs
<1>6. InReach' = InReach /\ around' = around /\ Elements(todo') = Elements(around)
  BY <1>1, SamePlace
<1>7. ASSUME NEW t \in InReach PROVE Waits(t)'
  <2>1. PICK xy \in Range(around) : directory[t].id = TileId(xy[1], xy[2])
    BY DEF InReach
  <2>2. xy \in Elements(todo')
    BY <1>1, <2>1 DEF Elements, Range
  <2> QED
    BY <1>1, <2>1, <2>2 DEF Waits, Elements, TileId
<1>8. (/\ todo \in Seq(Int \X Int)
       /\ Elements(todo) \subseteq Elements(Neighborhood(TileOf[from.at], TileOf[to.at])))'
  <2>1. Elements(todo)' = Elements(around)
    BY <1>1 DEF Elements
  <2>2. Elements(around)' = Elements(around)
    BY <1>6 DEF Elements
  <2> QED
    BY <1>1, <1>5, <2>1, <2>2
<1>9. (toGlobal \in Seq(Nodes) /\ linked \in 0..Len(toGlobal))'
  BY <1>1, <1>2, EmptySeq
<1> HIDE DEF around
<1> QED
  BY <1>1, <1>3, <1>4, <1>6, <1>7, <1>8, <1>9 DEF LoadInv

\* When no tile is left, the graph has every walk of the tiles in reach.
LEMMA LoadEnds ==
    ASSUME LoadInv, query \in Queries, directory = query.pack, Loaded
    PROVE  \A w \in Walks : Charted(w)
<1>1. ASSUME NEW t \in InReach, ~Empty(directory[t]) PROVE Complete(t)
  <2>1. tile = 0 /\ todo = <<>>
    BY DEF Loaded
  <2>2. DOMAIN todo = {}
    <3>1. <<>> \in Seq({}) /\ Len(<<>>) = 0
      BY EmptySeq
    <3>2. DOMAIN <<>> = 1..0
      BY <3>1, LenProperties
    <3>3. 1..0 = {}
      OBVIOUS
    <3> QED
      BY <2>1, <3>2, <3>3, Zenon
  <2>3. ~Waits(t)
    BY <2>2 DEF Waits, Elements
  <2>4. t # 0
    BY PackOfQuery DEF InReach
  <2> QED
    BY <1>1, <2>1, <2>3, <2>4 DEF LoadInv
<1>2. ASSUME NEW w \in Walks PROVE Charted(w)
  BY <1>1, WalksOfPack DEF Complete
<1> QED
  BY <1>2

\* The path that is read back from the predecessors is a route (build_route_path).
LEMMA RouteBuilt ==
    ASSUME Chart, SearchInv, step = "found"
    PROVE  Route(Back(Cardinality(reached) - 1))
<1> DEFINE N == Len(coords)
           p == Back(Cardinality(reached) - 1)
<1>1. Graph /\ Running
  BY DEF SearchInv, SearchIdle
<1>2. /\ reached \subseteq Nodes /\ settled \subseteq reached /\ dist \in [Nodes -> Nat]
      /\ target \in settled
      /\ source \in reached /\ dist[source] = 0
  BY <1>1 DEF Running, Types, Ending, DistancesAreReal
<1>3. \A n \in reached \ {source} :
          /\ previous[n] \in settled
          /\ \E e \in EdgesOf(previous[n]) : e.to = n /\ dist[n] = dist[previous[n]] + e.meters
  BY <1>1 DEF Running, DistancesAreReal
<1>4. N \in Nat /\ Nodes = 1..N
  BY LenProperties DEF Chart, Nodes
<1>5. IsFiniteSet(reached) /\ Cardinality(reached) \in Nat /\ Cardinality(reached) <= N
  <2>1. IsFiniteSet(1..N) /\ Cardinality(1..N) = N
    <3>1. 0 \in Int /\ 1 \in Int /\ N \in Int
      BY <1>4
    <3>2. IsFiniteSet(1..N) /\ Cardinality(1..N) = IF 1 > N THEN 0 ELSE N - 1 + 1
      BY <3>1, FS_Interval
    <3> QED
      BY <1>4, <3>2
  <2>2. reached \in SUBSET (1..N)
    BY <1>2, <1>4
  <2>3. IsFiniteSet(reached) /\ Cardinality(reached) <= Cardinality(1..N)
    BY <2>1, <2>2, FS_Subset
  <2> QED
    BY <2>1, <2>3, FS_CardinalityType
<1>6. Descends
  <2>1. ASSUME NEW n \in reached \ {source} PROVE previous[n] \in reached /\ dist[previous[n]] < dist[n]
    <3>1. PICK e \in EdgesOf(previous[n]) : e.to = n /\ dist[n] = dist[previous[n]] + e.meters
      BY <1>3
    <3>2. previous[n] \in reached /\ previous[n] \in Nodes
      BY <1>2, <1>3
    <3>3. e.meters \in Nat \ {0}
      BY <3>2, EdgeIsWay
    <3>4. dist[previous[n]] \in Nat
      BY <1>2, <3>2
    <3> QED
      BY <3>1, <3>2, <3>3, <3>4
  <2>2. \A n \in reached : dist[n] \in Nat
    BY <1>2
  <2> QED
    BY <1>2, <1>5, <2>1, <2>2 DEF Descends
<1>7. Trail(p) /\ p[1] = source /\ Len(p) <= Cardinality(reached)
  BY <1>6, BackIs
<1> HIDE DEF p
<1>8. p \in Seq(reached) /\ Len(p) \in Nat \ {0} /\ p[Len(p)] = target
  BY <1>7 DEF Trail
<1>9. p \in Seq(Nodes) /\ Len(p) \in 1..N
  <2>1. p \in Seq(Nodes)
    BY <1>2, <1>8, SeqMonotonic
  <2>2. Len(p) <= N
    BY <1>4, <1>5, <1>7, <1>8
  <2> QED
    BY <1>4, <1>8, <2>1, <2>2
<1>10. ASSUME NEW i \in 1..(Len(p) - 1)
       PROVE  \E e \in EdgesOf(p[i]) : e.to = p[i + 1] /\ dist[p[i + 1]] = dist[p[i]] + e.meters
  <2>1. i + 1 \in 1..Len(p)
    BY <1>8
  <2>2. p[i + 1] \in reached
    BY <1>8, <2>1, ElementOfSeq
  <2>3. p[i + 1] # source /\ p[i] = previous[p[i + 1]]
    BY <1>7 DEF Trail
  <2> QED
    BY <1>3, <2>2, <2>3
<1>11. Route(p)
  BY <1>7, <1>8, <1>9, <1>10 DEF Route
<1> QED
  BY <1>11 DEF p

\* What a walk is does not change once the ends are resolved.
LEMMA SameWalks ==
    ASSUME UNCHANGED <<query, from, to, directory, coords, out>>
    PROVE  /\ Chart' <=> Chart
           /\ (\A w \in Walks : Charted(w))' <=> (\A w \in Walks : Charted(w))
           /\ \A end : AskedFor(end)' = AskedFor(end)
           /\ \A c : Nearest(c)' = Nearest(c)
           /\ Nearest(AskedFor(query.from))' = Nearest(AskedFor(query.from))
           /\ Nearest(AskedFor(query.to))' = Nearest(AskedFor(query.to))
           /\ Nodes' = Nodes /\ \A n : EdgesOf(n)' = EdgesOf(n)
<1>1. Walks' = Walks /\ \A w : Charted(w)' <=> Charted(w)
  BY SamePlace, SameGraphSameChart
<1>2. \A end : AskedFor(end)' = AskedFor(end)
  BY DEF AskedFor, Matches
<1>3. \A c : Nearest(c)' = Nearest(c)
  BY DEF Nearest
<1>4. /\ Nearest(AskedFor(query.from))' = Nearest(AskedFor(query.from))
      /\ Nearest(AskedFor(query.to))' = Nearest(AskedFor(query.to))
  BY DEF Nearest, AskedFor, Matches
<1>5. Nodes' = Nodes /\ \A n : EdgesOf(n)' = EdgesOf(n)
  BY DEF Nodes, EdgesOf
<1> QED
  BY <1>1, <1>2, <1>3, <1>4, <1>5, SameGraphSameChart

\* The search keeps the whole graph, and leaves a route.
LEMMA SearchKeepsMap ==
    ASSUME Mapped, [SearchNext]_searchVars, UNCHANGED <<loadVars, query, from, to>>
    PROVE  Mapped'
<1>1. UNCHANGED <<graphVars, directory, coords>>
  BY DEF SearchNext, SearchStep, StartSearch, MoveUp, Pushed, Pop, MoveDown, Popped, Outdated, Settle,
         Shortens, PassesBy, Exhausted, BuildPath, searchVars, loadVars
<1>2. SearchInv'
  BY SearchStepKeeps DEF Mapped
<1>3. /\ Chart' /\ (\A w \in Walks : Charted(w))'
      /\ Nearest(AskedFor(query.from))' = Nearest(AskedFor(query.from))
      /\ Nearest(AskedFor(query.to))' = Nearest(AskedFor(query.to))
      /\ Nodes' = Nodes /\ \A n : EdgesOf(n)' = EdgesOf(n)
  BY <1>1, SameWalks DEF Mapped, graphVars
<1>4. ASSUME step' = "done" PROVE Route(path)'
  <2>1. CASE UNCHANGED searchVars
    <3>1. step = "done" /\ UNCHANGED <<path, dist, source, target, coords, out>>
      BY <1>1, <1>4, <2>1 DEF searchVars, labelVars, graphVars
    <3>2. Route(path)
      BY <3>1 DEF Mapped
    <3> QED
      BY <3>1, <3>2 DEF Route, EdgesOf, Nodes
  <2>2. CASE SearchNext
    <3>1. BuildPath
      BY <1>4, <2>2 DEF SearchNext, SearchStep, StartSearch, MoveUp, Pushed, Pop, MoveDown, Popped, Outdated,
                        Settle, Shortens, PassesBy, Exhausted, Pushes
    <3>2. step = "found" /\ UNCHANGED <<dist, source, target, coords, out>>
      BY <1>1, <3>1 DEF BuildPath, graphVars, labelVars
    <3>3. PICK p : p = Back(Cardinality(reached) - 1)
      OBVIOUS
    <3>4. Route(p) /\ path' = p
      BY <3>1, <3>2, <3>3, RouteBuilt DEF Mapped, BuildPath
    <3> QED
      BY <3>2, <3>4 DEF Route, EdgesOf, Nodes
  <2> QED
    BY <2>1, <2>2
<1> QED
  BY <1>1, <1>2, <1>3, <1>4 DEF Mapped, graphVars

\* The route stays while nothing it is made of changes.
LEMMA MapStays ==
    ASSUME Mapped, UNCHANGED <<searchVars, loadVars, query, from, to>>
    PROVE  Mapped'
BY SearchKeepsMap

\* The ends at their nearest nodes in a whole graph.
LEMMA SnapMaps ==
    ASSUME LoadInv, query \in Queries, directory = query.pack, SearchIdle, Snap, ~NoGraph,
           from.at = AskedFor(query.from), to.at = AskedFor(query.to),
           from.at \in Coords, to.at \in Coords
    PROVE  Mapped'
<1>1. /\ Loaded /\ UNCHANGED <<out, step, heapVars, popped, node, left, labelVars, settled, path>>
      /\ UNCHANGED <<loadVars, query, from, to>>
      /\ source' = Nearest(from.at) /\ target' = Nearest(to.at)
  BY DEF Snap
<1>2. UNCHANGED <<directory, coords, out, query, from, to>>
  BY <1>1 DEF loadVars
<1>3. /\ Chart' /\ (\A w \in Walks : Charted(w))'
      /\ Nearest(AskedFor(query.from))' = Nearest(AskedFor(query.from))
      /\ Nearest(AskedFor(query.to))' = Nearest(AskedFor(query.to))
      /\ Nodes' = Nodes
  BY <1>1, <1>2, LoadEnds, SameWalks DEF LoadInv
<1>4. Chart
  BY DEF LoadInv
<1>5. source' \in Nodes /\ target' \in Nodes
  <2>1. coords \in Seq(Coords) /\ coords # <<>> /\ DOMAIN coords = Nodes
    BY <1>4, LenProperties DEF NoGraph, Chart, Nodes
  <2> QED
    BY <1>1, <2>1, NearestIs
<1>6. Graph'
  <2>1. ASSUME NEW n \in Nodes PROVE out[n] \in Seq(Edge)
    <3>1. out[n] \in Seq(Way) /\ Way \subseteq Edge
      BY <1>4 DEF Chart, Way, Edge
    <3> QED
      BY <3>1, SeqMonotonic
  <2>2. Edge' = Edge
    BY <1>3 DEF Edge
  <2> QED
    BY <1>2, <1>3, <1>5, <2>1, <2>2 DEF Graph
<1>7. SearchIdle'
  BY <1>1 DEF SearchIdle, heapVars, labelVars
<1>8. step' # "done"
  BY <1>7 DEF SearchIdle
<1> QED
  BY <1>1, <1>3, <1>6, <1>7, <1>8 DEF Mapped, SearchInv

\* Everything a query has before it loads, and what resolves it.
LEMMA WalkingStarts == Init => WalkingInv
<1> SUFFICES ASSUME Init PROVE WalkingInv
  OBVIOUS
<1>1. query \in Queries /\ directory = query.pack
  BY DEF Init
<1>2. LoadIdle /\ out = <<>> /\ SearchIdle /\ phase = "open" /\ status = "pending"
  BY DEF Init
<1> QED
  BY <1>1, <1>2 DEF WalkingInv

\* The timetable and the look-up of the ends.
LEMMA WalkingBegins ==
    ASSUME WalkingInv, ReadTimetable \/ Resolve
    PROVE  WalkingInv'
<1>1. /\ UNCHANGED <<searchVars, loadVars, query>> /\ phase \in {"open", "resolve"}
      /\ \/ phase' = "resolve" /\ status' = status
         \/ /\ phase' = "check" /\ status' = status
            /\ from' = Resolved(query.from) /\ to' = Resolved(query.to)
         \/ phase' = "done" /\ status' = "address lookup failed"
  BY DEF ReadTimetable, Resolve, Ended
<1>2. /\ query \in Queries /\ directory = query.pack /\ LoadIdle /\ out = <<>> /\ SearchIdle
      /\ status = "pending"
  BY <1>1 DEF WalkingInv
<1>3. (query \in Queries /\ directory = query.pack /\ LoadIdle /\ out = <<>> /\ SearchIdle)'
  <2>1. LoadIdle' /\ out' = <<>> /\ query' = query /\ directory' = directory
    BY <1>1, <1>2 DEF LoadIdle, searchVars, graphVars, loadVars
  <2>2. SearchIdle'
    BY <1>1, <1>2 DEF SearchIdle, searchVars, heapVars, labelVars
  <2> QED
    BY <1>2, <2>1, <2>2
<1>4. Resolved(query.from)' = Resolved(query.from) /\ Resolved(query.to)' = Resolved(query.to)
  <2>1. query' = query
    BY <1>1
  <2> QED
    BY <2>1 DEF Resolved, Matches
<1> QED
  BY <1>1, <1>2, <1>3, <1>4 DEF WalkingInv

\* What main finds out before it opens a tile.
LEMMA CheckKeeps ==
    ASSUME WalkingInv, Check
    PROVE  WalkingInv'
<1>1. /\ phase = "check" /\ UNCHANGED <<searchVars, query, from, to>>
      /\ \/ /\ Refusal = "none" /\ StartLoad(TileOf[from.at], TileOf[to.at])
            /\ phase' = "load" /\ status' = status
         \/ /\ UNCHANGED loadVars /\ phase' \in {"transit", "done", "garbled", "crashed"} /\ status' = Refusal
  BY DEF Check, Ended
<1>2. /\ query \in Queries /\ directory = query.pack /\ LoadIdle /\ out = <<>> /\ SearchIdle
      /\ status = "pending" /\ from = Resolved(query.from) /\ to = Resolved(query.to)
  BY <1>1 DEF WalkingInv
<1>3. directory' = directory /\ out' = out
  BY <1>1 DEF StartLoad, loadVars, searchVars, graphVars
<1>4. CASE Refusal = "none" /\ StartLoad(TileOf[from.at], TileOf[to.at]) /\ phase' = "load" /\ status' = status
  <2>1. from.located /\ to.located
    BY <1>4, RefusalIs
  <2>2. QueryShape(query)
    BY <1>2, PackOfQuery
  <2>3. /\ from.at = AskedFor(query.from) /\ to.at = AskedFor(query.to)
        /\ from.at \in Coords /\ to.at \in Coords
    BY <1>2, <2>1, <2>2, ResolvedIs
  <2>4. LoadInv'
    BY <1>1, <1>2, <1>3, <1>4, <2>3, LoadStarts
  <2>5. AskedFor(query.from)' = AskedFor(query.from) /\ AskedFor(query.to)' = AskedFor(query.to)
    BY <1>1 DEF AskedFor, Matches
  <2>6. SearchIdle'
    BY <1>1, <1>2 DEF SearchIdle, searchVars, heapVars, labelVars
  <2> QED
    BY <1>1, <1>2, <1>3, <1>4, <2>3, <2>4, <2>5, <2>6 DEF WalkingInv
<1>5. CASE UNCHANGED loadVars /\ phase' \in {"transit", "done", "garbled", "crashed"} /\ status' = Refusal
  <2>1. status' \notin {"found", "no path found"}
    BY <1>5, RefusalIs
  <2> QED
    BY <1>1, <1>2, <1>3, <1>5, <2>1 DEF WalkingInv
<1> QED
  BY <1>1, <1>4, <1>5

\* The steps of loading.
LEMMA LoadKeeps ==
    ASSUME WalkingInv, Load
    PROVE  WalkingInv'
<1>1. /\ phase = "load" /\ LoadStep
      /\ UNCHANGED <<step, heapVars, popped, node, left, labelVars, settled, path, queryVars>>
  BY DEF Load
<1>2. /\ query \in Queries /\ directory = query.pack /\ LoadInv /\ SearchIdle /\ status = "pending"
      /\ from.at = AskedFor(query.from) /\ to.at = AskedFor(query.to)
      /\ from.at \in Coords /\ to.at \in Coords
  BY <1>1 DEF WalkingInv
<1>3. UNCHANGED <<query, phase, from, to, status>>
  BY <1>1 DEF queryVars
<1>4. LoadInv' /\ directory' = directory
  <2>1. UNCHANGED <<from, to>>
    BY <1>3
  <2>2. CASE OpenTile
    BY <1>2, <2>1, <2>2, OpenKeeps DEF OpenTile
  <2>3. CASE LoadNode
    BY <1>2, <2>1, <2>3, LoadNodeKeeps DEF LoadNode
  <2>4. CASE LinkEdges
    BY <1>2, <2>1, <2>4, LinkKeeps DEF LinkEdges
  <2>5. CASE CloseTile
    BY <1>2, <2>1, <2>5, CloseKeeps DEF CloseTile
  <2> QED
    BY <1>1, <2>2, <2>3, <2>4, <2>5 DEF LoadStep
<1>5. SearchIdle'
  BY <1>1, <1>2 DEF SearchIdle, heapVars, labelVars
<1>6. AskedFor(query.from)' = AskedFor(query.from) /\ AskedFor(query.to)' = AskedFor(query.to)
  BY <1>3 DEF AskedFor, Matches
<1> QED
  BY <1>1, <1>2, <1>3, <1>4, <1>5, <1>6 DEF WalkingInv

\* From the loaded graph to the search.
LEMMA SnapKeeps ==
    ASSUME WalkingInv, Snap
    PROVE  WalkingInv'
<1>1. /\ phase = "load" /\ UNCHANGED <<loadVars, query, from, to>>
      /\ \/ NoGraph /\ phase' = "done" /\ status' = "loaded walking graph is empty"
         \/ ~NoGraph /\ phase' = "search" /\ status' = status
  BY DEF Snap, Ended
<1>2. /\ query \in Queries /\ directory = query.pack /\ LoadInv /\ SearchIdle /\ status = "pending"
      /\ from.at = AskedFor(query.from) /\ to.at = AskedFor(query.to)
      /\ from.at \in Coords /\ to.at \in Coords
  BY <1>1 DEF WalkingInv
<1>3. UNCHANGED <<directory, query, from, to>>
  BY <1>1 DEF loadVars
<1>4. CASE phase' = "done" /\ status' = "loaded walking graph is empty"
  BY <1>2, <1>3, <1>4 DEF WalkingInv
<1>5. CASE ~NoGraph /\ phase' = "search" /\ status' = status
  <2>1. Mapped'
    BY <1>2, <1>5, SnapMaps
  <2>2. AskedFor(query.from)' = AskedFor(query.from) /\ AskedFor(query.to)' = AskedFor(query.to)
    BY <1>3 DEF AskedFor, Matches
  <2> QED
    BY <1>2, <1>3, <1>5, <2>1, <2>2 DEF WalkingInv
<1> QED
  BY <1>1, <1>4, <1>5

\* The steps of the search.
LEMMA SearchKeeps ==
    ASSUME WalkingInv, Search
    PROVE  WalkingInv'
<1>1. phase = "search" /\ SearchNext /\ UNCHANGED <<loadVars, queryVars>>
  BY DEF Search
<1>2. /\ query \in Queries /\ directory = query.pack /\ Mapped /\ status = "pending"
      /\ from.at = AskedFor(query.from) /\ to.at = AskedFor(query.to)
      /\ from.at \in Coords /\ to.at \in Coords
  BY <1>1 DEF WalkingInv
<1>3. UNCHANGED <<query, phase, from, to, status, directory>>
  BY <1>1 DEF queryVars, loadVars
<1>4. Mapped'
  BY <1>1, <1>2, <1>3, SearchKeepsMap
<1>5. AskedFor(query.from)' = AskedFor(query.from) /\ AskedFor(query.to)' = AskedFor(query.to)
  BY <1>3 DEF AskedFor, Matches
<1> QED
  BY <1>1, <1>2, <1>3, <1>4, <1>5 DEF WalkingInv

\* What is reported of the search.
LEMMA AnswerKeeps ==
    ASSUME WalkingInv, Answer
    PROVE  WalkingInv'
<1>1. /\ phase = "search" /\ UNCHANGED <<searchVars, loadVars, query, from, to>>
      /\ \/ phase' = "done" /\ status' = "dijkstra_failed"
         \/ step = "none" /\ phase' = "done" /\ status' = "no path found"
         \/ /\ step = "done" /\ phase' \in {"transit", "done", "garbled", "crashed"} /\ status' = "found"
            /\ total' = dist[target] + FromSnap + ToSnap
  BY DEF Answer, Ended
<1>2. query \in Queries /\ directory = query.pack /\ Mapped /\ from.at \in Coords /\ to.at \in Coords
  BY <1>1 DEF WalkingInv
<1>3. Mapped'
  BY <1>1, <1>2, MapStays
<1>4. query' = query /\ directory' = directory /\ step' = step
  BY <1>1 DEF searchVars, loadVars
<1>5. dist'[target'] + FromSnap' + ToSnap' = dist[target] + FromSnap + ToSnap
  BY <1>1 DEF FromSnap, ToSnap, searchVars, graphVars, labelVars, loadVars
<1> QED
  BY <1>1, <1>2, <1>3, <1>4, <1>5 DEF WalkingInv

\* The suggestion, and the ends of a query, leave the route alone.
LEMMA RouteStays ==
    ASSUME WalkingInv,
           \/ LoadGivesUp
           \/ Suggest \/ Suggested \/ SuggestUnfilled \/ Done
    PROVE  WalkingInv'
<1>1. UNCHANGED <<searchVars, loadVars, query, from, to>>
  BY DEF LoadGivesUp, Suggest, Suggested, SuggestUnfilled, Done, vars, queryVars
<1>2. /\ phase' \in {"transit", "done", "garbled", "crashed"}
      /\ \/ status' = "failed to load"
         \/ phase \in {"transit", "done", "garbled", "crashed"} /\ UNCHANGED <<status, total>>
  BY DEF LoadGivesUp, Ended, Suggest, Suggested, SuggestUnfilled, Done, vars, queryVars
<1>3. query' \in Queries /\ directory' = query'.pack /\ step' = step
  BY <1>1 DEF WalkingInv, loadVars, searchVars
<1>4. dist'[target'] + FromSnap' + ToSnap' = dist[target] + FromSnap + ToSnap
  BY <1>1 DEF FromSnap, ToSnap, searchVars, graphVars, labelVars, loadVars
<1>5. Mapped => Mapped'
  BY <1>1, MapStays
<1> QED
  BY <1>1, <1>2, <1>3, <1>4, <1>5 DEF WalkingInv

\* A stuttering step.
LEMMA WalkingStutters ==
    ASSUME WalkingInv, UNCHANGED vars
    PROVE  WalkingInv'
<1>1. UNCHANGED <<searchVars, loadVars, query, from, to>> /\ UNCHANGED <<phase, status, total>>
  BY DEF vars, queryVars
<1>2. UNCHANGED <<out, directory, coords, slots, todo, tile, toGlobal, linked, tilesLoaded, dist, target, source, step>>
  BY <1>1 DEF searchVars, graphVars, labelVars, loadVars
<1>3. LoadInv => LoadInv'
  <2> SUFFICES ASSUME LoadInv PROVE LoadInv'
    OBVIOUS
  <2>1. Chart' /\ \A w : Charted(w)' <=> Charted(w)
    BY <1>1, <1>2, SameGraphSameChart DEF LoadInv
  <2>2. \A t : Complete(t) => Complete(t)'
    BY <1>1, <1>2, SameGraphSameChart
  <2>3. TableKept'
    <3>1. TableKept
      BY DEF LoadInv
    <3> QED
      BY <1>2, <3>1 DEF TableKept, InTable, Probe
  <2>4. (/\ todo \in Seq(Int \X Int)
         /\ Elements(todo) \subseteq Elements(Neighborhood(TileOf[from.at], TileOf[to.at]))
         /\ tile # 0 => tile \in InReach /\ ~Empty(directory[tile])
         /\ \A t \in InReach : ~Empty(directory[t]) => Waits(t) \/ tile = t \/ Complete(t))'
    BY <1>1, <1>2, <2>2, TilesKept
  <2>5. (toGlobal \in Seq(Nodes) /\ linked \in 0..Len(toGlobal))'
    BY <1>2 DEF LoadInv, Nodes
  <2>6. (tile # 0 => /\ Len(toGlobal) <= Len(Payload.nodes)
                     /\ linked # 0 => Len(toGlobal) = Len(Payload.nodes)
                     /\ \A i \in 1..Len(toGlobal) : coords[toGlobal[i]] = Payload.nodes[i]
                     /\ \A i \in 1..linked : \A w \in WalksFrom(Payload, i) : Charted(w))'
    <3>1. /\ Payload' = Payload /\ tile' = tile /\ toGlobal' = toGlobal /\ linked' = linked
          /\ coords' = coords
      BY <1>2 DEF Payload
    <3>2. \A i : WalksFrom(Payload, i)' = WalksFrom(Payload, i)
      BY <3>1 DEF WalksFrom
    <3> QED
      BY <2>1, <3>1, <3>2 DEF LoadInv
  <2> QED
    BY <2>1, <2>3, <2>4, <2>5, <2>6 DEF LoadInv
<1>4. Mapped => Mapped'
  BY <1>1, MapStays
<1>5. /\ SearchIdle' <=> SearchIdle
      /\ LoadIdle' <=> LoadIdle
  BY <1>1, <1>2 DEF SearchIdle, LoadIdle, searchVars, heapVars, labelVars
<1>6. /\ Resolved(query.from)' = Resolved(query.from) /\ Resolved(query.to)' = Resolved(query.to)
      /\ AskedFor(query.from)' = AskedFor(query.from) /\ AskedFor(query.to)' = AskedFor(query.to)
      /\ FromSnap' = FromSnap /\ ToSnap' = ToSnap
  BY <1>1, <1>2 DEF Resolved, AskedFor, Matches, FromSnap, ToSnap
<1> QED
  BY <1>1, <1>2, <1>3, <1>4, <1>5, <1>6 DEF WalkingInv

\* In every state of every query the graph, the search and the route are as WalkingInv says
\* (main from its arguments to its answer).
THEOREM WalkingInvariant == Spec => []WalkingInv
<1>1. Init => WalkingInv
  BY WalkingStarts
<1>2. WalkingInv /\ [Next]_vars => WalkingInv'
  BY WalkingBegins, CheckKeeps, LoadKeeps, SnapKeeps, SearchKeeps, AnswerKeeps, RouteStays, WalkingStutters DEF Next
<1> QED
  BY <1>1, <1>2, PTL DEF Spec

-----------------------------------------------------------------------------
\* What WalkingInv says of the path.
LEMMA FoundIsWalk == WalkingInv => PathIsWalk
<1> SUFFICES ASSUME WalkingInv, phase = "done", status = "found"
             PROVE  /\ path[1] = Nearest(AskedFor(query.from)) /\ path[Len(path)] = Nearest(AskedFor(query.to))
                    /\ \A i \in 1..(Len(path) - 1) :
                          <<coords[path[i]], coords[path[i + 1]], dist[path[i + 1]] - dist[path[i]]>> \in Walks
  BY DEF PathIsWalk
<1>1. Mapped /\ step = "done"
  BY DEF WalkingInv
<1>2. Chart /\ Route(path) /\ source = Nearest(AskedFor(query.from)) /\ target = Nearest(AskedFor(query.to))
  BY <1>1 DEF Mapped
<1>3. dist \in [Nodes -> Nat]
  BY <1>1 DEF Mapped, SearchInv, SearchIdle, Running, Types
<1>4. ASSUME NEW i \in 1..(Len(path) - 1)
      PROVE  <<coords[path[i]], coords[path[i + 1]], dist[path[i + 1]] - dist[path[i]]>> \in Walks
  <2>1. path \in Seq(Nodes) /\ Len(path) \in Nat
    BY <1>2, LenProperties DEF Route
  <2>2. i \in 1..Len(path)
    BY <2>1
  <2>3. path[i] \in Nodes
    BY <2>1, <2>2, ElementOfSeq
  <2>4. PICK e \in EdgesOf(path[i]) : e.to = path[i + 1] /\ dist[path[i + 1]] = dist[path[i]] + e.meters
    BY <1>2 DEF Route
  <2>5. <<coords[path[i]], coords[e.to], e.meters>> \in Walks
    BY <1>2, <2>3 DEF Chart
  <2>6. dist[path[i]] \in Nat /\ e.meters \in Nat
    BY <1>2, <1>3, <2>3, EdgeIsWay
  <2>7. dist[path[i + 1]] - dist[path[i]] = e.meters
    BY <2>4, <2>6
  <2> QED
    BY <2>4, <2>5, <2>7
<1> QED
  BY <1>2, <1>4 DEF Route

\* A path that is reported leads from the node nearest to the one address to the node nearest
\* to the other, along walks of the pack, whatever the pack and the hash of its coordinates.
THEOREM PathLeadsThere == Spec => []PathIsWalk
BY WalkingInvariant, FoundIsWalk, PTL

\* What WalkingInv says of the distance.
LEMMA AnswerIsShortest == WalkingInv => RouteIsShortest
<1> SUFFICES ASSUME WalkingInv, phase = "done"
             PROVE  /\ status = "found" =>
                          ShortestWays(coords[source], coords[target]) = {total - FromSnap - ToSnap}
                    /\ status = "no path found" =>
                          ShortestWays(coords[source], coords[target]) = {}
  BY DEF RouteIsShortest
<1>1. CASE status = "found"
  <2>1. Mapped /\ step = "done" /\ total = dist[target] + FromSnap + ToSnap
    BY <1>1 DEF WalkingInv
  <2>2. Chart /\ (\A w \in Walks : Charted(w)) /\ Graph /\ Running /\ Route(path) /\ NothingNearer
    BY <2>1, CertificateOfInvariant DEF Mapped, SearchInv, SearchIdle
  <2>3. dist \in [Nodes -> Nat] /\ dist[source] = 0 /\ source \in Nodes /\ target \in Nodes
    BY <2>1, <2>2 DEF Running, Types, DistancesAreReal, Graph
  <2>4. ShortestWays(coords[source], coords[target]) = {dist[target]}
    BY <2>1, <2>2, <2>3, FoundIsShortest
  <2>5. FromSnap \in Nat /\ ToSnap \in Nat /\ dist[target] \in Nat
    <3>1. from.at \in Coords /\ to.at \in Coords
      BY <1>1 DEF WalkingInv
    <3>2. coords[source] \in Coords /\ coords[target] \in Coords
      BY <2>2, <2>3, LenProperties DEF Chart, Nodes
    <3>3. FromSnap \in Nat /\ ToSnap \in Nat
      BY <3>1, <3>2, RouteGraphAssumption DEF FromSnap, ToSnap
    <3> QED
      BY <2>3, <3>3
  <2>6. total - FromSnap - ToSnap = dist[target]
    BY <2>1, <2>5
  <2> QED
    BY <1>1, <2>4, <2>6
<1>2. CASE status = "no path found"
  <2>1. Mapped /\ step = "none"
    BY <1>2 DEF WalkingInv
  <2>2. Chart /\ (\A w \in Walks : Charted(w)) /\ Graph /\ Running /\ NothingNearer
    BY <2>1, CertificateOfInvariant DEF Mapped, SearchInv, SearchIdle
  <2>3. reached \subseteq Nodes
    BY <2>2 DEF Running, Types
  <2> QED
    BY <1>2, <2>1, <2>2, <2>3, NoneIsNone
<1> QED
  BY <1>1, <1>2

\* A route that is reported is as long as the shortest walk there is in the tiles around both
\* ends, and none is reported only where there is none.
THEOREM ReportedRouteIsShortest == Spec => []RouteIsShortest
BY WalkingInvariant, AnswerIsShortest, PTL

-----------------------------------------------------------------------------
(***************************************************************************)
(* The labels of the public transport search settle: the inductive         *)
(* invariant of its rounds.                                                *)
(***************************************************************************)
Changed == {changed[i] : i \in DOMAIN changed}

Counted(s) ==
    /\ label[s].rides \in Nat
    /\ label[s].rides > 0 <=> label[s].kind \in {"vehicle", "walk"}
    /\ label[s].arrival <= Inf
    /\ label[s].rides > 0 => label[s].arrival < Inf
    /\ s \in DOMAIN Access => label[s].arrival <= Depart + Access[s]

\* Where a vehicle was left, the walks onward are taken or still to be taken.
WalksTaken ==
    \A s \in Stops \ Changed : label[s].kind = "vehicle" =>
        \A t \in WalkTargets(s) : label[t].arrival <= label[s].arrival + Walk[<<s, t>>]

\* Every label of a round is as the round has found it, or one ride further.
LabelsOfRound ==
    /\ round \in Nat /\ round < MaxRounds
    /\ \A s \in Stops :
          /\ base[s].rides \in 0..round
          /\ label[s] = base[s] \/ label[s].rides = round + 1
    /\ \A s \in Changed : label[s].rides = round + 1

Open(i, a) ==
    /\ base[timetable[i][a].stop].arrival # Inf
    /\ base[timetable[i][a].stop].arrival <= timetable[i][a].departure

Scanned(i, b) == i < trip \/ (i = trip /\ b < event)

\* No ride from a label the round has found leads to a stop before its label,
\* as far as the scan has come; the rides of earlier rounds never do.
RidesTaken ==
    \A i \in trips : RunsForward(i) =>
        \A a, b \in DOMAIN timetable[i] :
            /\ a < b /\ Open(i, a)
            /\ base[timetable[i][a].stop].rides < round \/ Scanned(i, b)
            => label[timetable[i][b].stop].arrival <= timetable[i][b].arrival

BoardIsFirst ==
    /\ board # NoBoard => board.rides = round + 1
    /\ trip \in trips =>
          \A a \in DOMAIN timetable[trip] :
              /\ a < event /\ Open(trip, a) /\ base[timetable[trip][a].stop].rides = round
              => board # NoBoard /\ board.at <= a

NewInChanged == \A s \in Stops \ Changed : label[s] = base[s]

RidesSettled ==
    \A i \in trips : RunsForward(i) =>
        \A a, b \in DOMAIN timetable[i] :
            /\ a < b /\ Catches(i, a) /\ label[timetable[i][a].stop].rides < MaxRounds
            => label[timetable[i][b].stop].arrival <= timetable[i][b].arrival

\* What the plan says of the labels it was read from.
Ridden == {s \in DOMAIN Egress : label[s].kind \in {"vehicle", "walk"}}

PlanIsBest ==
    LET last == plan.legs[Len(plan.legs)]
    IN  /\ plan.found => \A s \in Ridden : Score(last.arrival, last.alight) <= Score(label[s].arrival, s)
        /\ Ridden # {} /\ ~plan.found => Len(LegsTo(BestGoal)) > MaxPlanLegs

SettledInv ==
    /\ pc = "idle" => TransitIdle
    /\ \A s \in Stops : Counted(s)
    /\ WalksTaken
    /\ pc \in {"scan", "walk"} => LabelsOfRound /\ RidesTaken
    /\ pc = "scan" => BoardIsFirst /\ NewInChanged
    /\ pc = "walk" => TripsDone
    /\ pc = "build" => RidesSettled /\ changed = <<>>
    /\ pc = "planned" /\ query.when = "depart" /\ (round > 0 \/ TripsDone) =>
          RidesSettled /\ changed = <<>> /\ PlanIsBest

\* The event the scan is at.
LEMMA AtEvent ==
    ASSUME TransitTypes, trip \in trips, ~TripDone
    PROVE  /\ event \in 1..Len(timetable[trip]) /\ DOMAIN timetable[trip] = 1..Len(timetable[trip])
           /\ Len(timetable[trip]) \in Nat
           /\ Event = timetable[trip][event]
           /\ Event.stop \in Stops /\ Event.arrival \in Nat /\ Event.departure \in Nat
<1>1. event \in Nat \ {0} /\ Len(timetable[trip]) \in Nat /\ ~(event > Len(timetable[trip]))
  BY EventsOfTrips DEF TransitTypes, TripDone
<1>2. event \in 1..Len(timetable[trip])
  BY <1>1
<1> QED
  BY <1>1, <1>2, EventsOfTrips DEF Event

LEMMA WalksLead ==
    ASSUME NEW s \in Stops, NEW t \in WalkTargets(s)
    PROVE  t \in Stops /\ t # s /\ Walk[<<s, t>>] \in Nat
BY TransitPackAssumption DEF WalkTargets

\* What a scanned event does to the labels: its stop is reached a ride further
\* and earlier, or nothing happens to them.
LEMMA ScanWrites ==
    ASSUME TransitInv, SettledInv, ScanEvent
    PROVE  /\ UNCHANGED <<timetable, trips, pc, round, trip, base, plan>> /\ event' = event + 1
           /\ \A s \in Stops :
                 /\ label[s].arrival \in Nat /\ label'[s].arrival \in Nat
                 /\ label'[s].arrival <= label[s].arrival
                 /\ \/ label'[s] = label[s]
                    \/ /\ label'[s].arrival < label[s].arrival
                       /\ label'[s].kind = "vehicle" /\ label'[s].rides = round + 1
                       /\ s \in Changed'
           /\ \A s \in Changed : s \in Changed'
           /\ \A s \in Changed' : s \in Changed \/ (s \in Stops /\ label'[s].rides = round + 1)
           /\ Alights => label'[Event.stop].arrival = Event.arrival
<1>1. /\ TransitTypes /\ \A t \in Stops : LabelSound(t)
      /\ pc = "scan" /\ trip \in trips /\ ~TripDone
      /\ UNCHANGED <<timetable, trips, pc, round, trip, base, plan>> /\ event' = event + 1
      /\ BoardIsFirst
  BY DEF TransitInv, SettledInv, ScanEvent, ScanWith
<1>2. /\ Event.stop \in Stops /\ Event.arrival \in Nat
      /\ DOMAIN label = Stops /\ changed \in Seq(Stops)
      /\ \A s \in Stops : label[s].arrival \in Nat
  BY <1>1, AtEvent DEF TransitTypes, LabelSound
<1>3. CASE ~Alights
  <2>1. label' = label /\ changed' = changed
    BY <1>3 DEF ScanEvent, ScanWith
  <2>2. Changed' = Changed
    BY <2>1 DEF Changed
  <2> QED
    BY <1>1, <1>2, <1>3, <2>1, <2>2
<1>4. CASE Alights
  <2> DEFINE new == [arrival |-> Event.arrival, rides |-> board.rides, kind |-> "vehicle",
                     from |-> board.stop, trip |-> trip, departure |-> board.departure]
  <2>1. /\ label' = [label EXCEPT ![Event.stop] = new]
        /\ changed' = IF Event.stop \notin Changed THEN Append(changed, Event.stop) ELSE changed
    BY <1>4 DEF ScanEvent, ScanWith, Changed
  <2>2. board # NoBoard /\ Event.arrival < label[Event.stop].arrival /\ board.rides = round + 1
    BY <1>1, <1>4 DEF Alights, BoardIsFirst
  <2>3. label'[Event.stop] = new /\ \A s \in Stops \ {Event.stop} : label'[s] = label[s]
    BY <1>2, <2>1
  <2>4. /\ label'[Event.stop].arrival = Event.arrival /\ label'[Event.stop].kind = "vehicle"
        /\ label'[Event.stop].rides = round + 1
    BY <2>2, <2>3
  <2>5. Changed' = Changed \cup {Event.stop}
    <3>1. CASE Event.stop \in Changed
      BY <2>1, <3>1 DEF Changed
    <3>2. CASE Event.stop \notin Changed
      <4>1. changed' = Append(changed, Event.stop)
        BY <2>1, <3>2
      <4>2. /\ Len(changed) \in Nat /\ DOMAIN changed = 1..Len(changed)
            /\ DOMAIN changed' = 1..(Len(changed) + 1)
            /\ \A i \in 1..Len(changed) : changed'[i] = changed[i]
            /\ changed'[Len(changed) + 1] = Event.stop
        BY <1>2, <4>1
      <4>3. ASSUME NEW i \in DOMAIN changed'
            PROVE  changed'[i] \in Changed \cup {Event.stop}
        <5>1. i \in 1..Len(changed) \/ i = Len(changed) + 1
          BY <4>2
        <5> QED
          BY <4>2, <5>1 DEF Changed
      <4>4. ASSUME NEW i \in DOMAIN changed
            PROVE  i \in DOMAIN changed' /\ changed'[i] = changed[i]
        BY <4>2
      <4>5. Len(changed) + 1 \in DOMAIN changed'
        BY <4>2
      <4> QED
        BY <4>2, <4>3, <4>4, <4>5 DEF Changed
    <3> QED
      BY <3>1, <3>2
  <2> HIDE DEF new
  <2> QED
    BY <1>1, <1>2, <2>2, <2>3, <2>4, <2>5
<1> QED
  BY <1>3, <1>4

\* A scanned event: the ride that ends at it is taken, for the trip was boarded at
\* the first stop it could be.
LEMMA ScanSettles ==
    ASSUME TransitInv, SettledInv, ScanEvent
    PROVE  SettledInv'
<1>1. /\ UNCHANGED <<timetable, trips, pc, round, trip, base, plan>> /\ event' = event + 1
      /\ \A s \in Stops :
            /\ label[s].arrival \in Nat /\ label'[s].arrival \in Nat
            /\ label'[s].arrival <= label[s].arrival
            /\ \/ label'[s] = label[s]
               \/ /\ label'[s].arrival < label[s].arrival
                  /\ label'[s].kind = "vehicle" /\ label'[s].rides = round + 1
                  /\ s \in Changed'
      /\ \A s \in Changed : s \in Changed'
      /\ \A s \in Changed' : s \in Changed \/ (s \in Stops /\ label'[s].rides = round + 1)
      /\ Alights => label'[Event.stop].arrival = Event.arrival
  BY ScanWrites
<1>2. /\ TransitTypes /\ BoardSound /\ pc = "scan" /\ pc' = "scan" /\ trip \in trips /\ ~TripDone
      /\ \A s \in Stops : Counted(s)
      /\ WalksTaken /\ LabelsOfRound /\ RidesTaken /\ BoardIsFirst /\ NewInChanged
  BY <1>1 DEF TransitInv, SettledInv, ScanEvent, ScanWith
<1>3. /\ event \in 1..Len(timetable[trip]) /\ DOMAIN timetable[trip] = 1..Len(timetable[trip])
      /\ Len(timetable[trip]) \in Nat /\ Event = timetable[trip][event]
      /\ Event.stop \in Stops /\ Event.arrival \in Nat /\ Event.departure \in Nat
  BY <1>2, AtEvent
<1>4. round \in Nat /\ Inf \in Nat
  BY <1>2, TransitPackAssumption DEF LabelsOfRound
<1>5. ASSUME NEW s \in Stops PROVE Counted(s)'
  <2>1. Counted(s)
    BY <1>2
  <2>2. /\ label[s].arrival \in Nat /\ label'[s].arrival \in Nat
        /\ label'[s].arrival <= label[s].arrival
        /\ \/ label'[s] = label[s]
           \/ /\ label'[s].arrival < label[s].arrival
              /\ label'[s].kind = "vehicle" /\ label'[s].rides = round + 1
    BY <1>1
  <2>3. s \in DOMAIN Access => Depart + Access[s] \in Nat
    BY TransitPackAssumption, TransitPlanAssumption
  <2> QED
    BY <1>4, <2>1, <2>2, <2>3 DEF Counted
<1>6. WalksTaken'
  <2> SUFFICES ASSUME NEW s \in Stops, s \notin Changed', label'[s].kind = "vehicle",
                      NEW t \in WalkTargets(s)
               PROVE  label'[t].arrival <= label'[s].arrival + Walk[<<s, t>>]
    BY DEF WalksTaken, WalkTargets
  <2>1. s \notin Changed /\ label'[s] = label[s]
    BY <1>1
  <2>2. label[t].arrival <= label[s].arrival + Walk[<<s, t>>]
    BY <1>2, <2>1 DEF WalksTaken
  <2>3. t \in Stops /\ Walk[<<s, t>>] \in Nat
    BY WalksLead
  <2> QED
    BY <1>1, <2>1, <2>2, <2>3
<1>7. LabelsOfRound'
  <2>1. \A s \in Stops : base[s].rides \in 0..round /\ (label'[s] = base[s] \/ label'[s].rides = round + 1)
    BY <1>1, <1>2 DEF LabelsOfRound
  <2>2. \A s \in Changed : s \in Stops
    BY <1>2 DEF TransitTypes, Changed
  <2>3. \A s \in Changed' : label'[s].rides = round + 1
    BY <1>1, <1>2, <2>2 DEF LabelsOfRound
  <2>4. round' = round /\ base' = base /\ round \in Nat /\ round < MaxRounds
    BY <1>1, <1>2 DEF LabelsOfRound
  <2> QED
    BY <2>1, <2>3, <2>4 DEF LabelsOfRound
<1>8. NewInChanged'
  BY <1>1, <1>2 DEF NewInChanged
<1>9. RidesTaken'
  <2> SUFFICES ASSUME NEW i \in trips, RunsForward(i),
                      NEW a \in DOMAIN timetable[i], NEW b \in DOMAIN timetable[i], a < b, Open(i, a),
                      base[timetable[i][a].stop].rides < round \/ Scanned(i, b)'
               PROVE  label'[timetable[i][b].stop].arrival <= timetable[i][b].arrival
    <3>1. trips' = trips /\ timetable' = timetable /\ base' = base /\ round' = round
      BY <1>1
    <3>2. \A i \in trips : RunsForward(i)' <=> RunsForward(i)
      BY <3>1 DEF RunsForward
    <3>3. \A i, a : Open(i, a)' <=> Open(i, a)
      BY <3>1 DEF Open
    <3> QED
      BY <3>1, <3>2, <3>3 DEF RidesTaken
  <2>1. /\ timetable[i][a].stop \in Stops /\ timetable[i][b].stop \in Stops
        /\ timetable[i][b].arrival \in Nat /\ a \in Nat /\ b \in Nat
    BY <1>2, EventsOfTrips
  <2>2. CASE base[timetable[i][a].stop].rides < round \/ Scanned(i, b)
    <3>1. label[timetable[i][b].stop].arrival <= timetable[i][b].arrival
      BY <1>2, <2>2 DEF RidesTaken
    <3> QED
      BY <1>1, <2>1, <3>1
  <2>3. CASE ~(base[timetable[i][a].stop].rides < round \/ Scanned(i, b))
    <3>1. i = trip /\ b = event
      BY <1>1, <1>2, <1>3, <2>1, <2>3 DEF Scanned
    <3>2. base[timetable[i][a].stop].rides = round
      BY <1>2, <1>4, <2>1, <2>3 DEF LabelsOfRound
    <3>3. board # NoBoard /\ board.at <= a
      BY <1>2, <3>1, <3>2 DEF BoardIsFirst
    <3>4. /\ board.at \in DOMAIN timetable[trip] /\ board.at \in Nat
          /\ board.departure = timetable[trip][board.at].departure
      BY <1>2, <1>3, <3>3 DEF BoardSound
    <3>5. board.at < event
      BY <3>1, <3>3, <3>4, <2>1
    <3>6. board.departure <= Event.arrival
      BY <1>3, <3>1, <3>4, <3>5 DEF RunsForward
    <3>7. CASE Alights
      <4>1. label'[Event.stop].arrival = Event.arrival
        BY <1>1, <3>7
      <4> QED
        BY <1>3, <3>1, <4>1
    <3>8. CASE ~Alights
      <4>0. board.departure \in Nat
        BY <1>2, <3>4, EventsOfTrips
      <4>1. ~(Event.arrival < label[Event.stop].arrival)
        <5>1. event > board.at
          BY <1>3, <3>4, <3>5
        <5>2. Event.arrival >= board.departure
          BY <1>3, <3>6, <4>0
        <5> QED
          BY <3>3, <3>8, <5>1, <5>2 DEF Alights
      <4>2. label[Event.stop].arrival <= Event.arrival
        BY <1>1, <1>3, <4>1
      <4>3. /\ label'[Event.stop].arrival <= label[Event.stop].arrival
            /\ label'[Event.stop].arrival \in Nat /\ label[Event.stop].arrival \in Nat
        BY <1>1, <1>3
      <4>4. label'[Event.stop].arrival <= Event.arrival
        BY <1>3, <4>2, <4>3
      <4> QED
        BY <1>3, <3>1, <4>4
    <3> QED
      BY <3>7, <3>8
  <2> QED
    BY <2>2, <2>3
<1>10. BoardIsFirst'
  <2>1. /\ board' = IF Boards(base)
                    THEN [stop |-> Event.stop, departure |-> Event.departure, at |-> event,
                          rides |-> round + 1]
                    ELSE board
    BY DEF ScanEvent, ScanWith
  <2>2. board' # NoBoard => board'.rides = round' + 1
    BY <1>1, <1>2, <2>1 DEF BoardIsFirst
  <2>3. ASSUME NEW a \in DOMAIN timetable[trip], a < event', Open(trip, a),
               base[timetable[trip][a].stop].rides = round
        PROVE  board' # NoBoard /\ board'.at <= a
    <3>1. a \in Nat /\ event \in Nat /\ (a < event \/ a = event)
      BY <1>1, <1>3, <2>3
    <3>2. board # NoBoard => board.at \in Nat /\ board.at < event
      BY <1>2, <1>3 DEF BoardSound
    <3>3. Boards(base) => board = NoBoard
      <4>1. Boards(base) => board = NoBoard \/ event < board.at
        BY DEF Boards
      <4> QED
        BY <3>1, <3>2, <4>1
    <3>4. Boards(base) => board' # NoBoard /\ board'.at = event
      <4>1. event # 0 /\ NoBoard.at = 0
        BY <1>3 DEF NoBoard
      <4>2. Boards(base) => board'.at = event
        BY <2>1
      <4> QED
        BY <4>1, <4>2
    <3>5. CASE a < event
      <4>1. board # NoBoard /\ board.at <= a
        BY <1>2, <2>3, <3>5 DEF BoardIsFirst
      <4>2. board' = board
        BY <2>1, <3>3, <4>1
      <4> QED
        BY <4>1, <4>2
    <3>6. CASE a = event
      <4>1. Boards(base) \/ board # NoBoard
        <5>1. Boards(base) <=> board = NoBoard \/ event < board.at
          BY <1>3, <2>3, <3>6 DEF Boards, Open
        <5> QED
          BY <5>1
      <4>2. CASE Boards(base)
        BY <3>1, <3>4, <3>6, <4>2
      <4>3. CASE ~Boards(base)
        BY <2>1, <3>1, <3>2, <3>6, <4>1, <4>3
      <4> QED
        BY <4>2, <4>3
    <3> QED
      BY <3>1, <3>5, <3>6
  <2> QED
    BY <1>1, <2>2, <2>3 DEF BoardIsFirst, Open
<1> QED
  BY <1>2, <1>5, <1>6, <1>7, <1>8, <1>9, <1>10 DEF SettledInv

\* The walks from a changed stop are taken; what is left are those of the others.
LEMMA TransferSettles ==
    ASSUME TransitInv, SettledInv, TransferWalk
    PROVE  SettledInv'
<1> DEFINE s == Head(changed)
           W == {t \in WalkTargets(s) : label[s].arrival + Walk[<<s, t>>] < label[t].arrival}
           new(t) == [arrival |-> label[s].arrival + Walk[<<s, t>>], rides |-> label[s].rides,
                      kind |-> "walk", from |-> s, trip |-> 0, departure |-> label[s].arrival]
<1>1. /\ pc = "walk" /\ changed # <<>> /\ changed' = Tail(changed)
      /\ UNCHANGED <<timetable, trips, pc, round, trip, event, board, base, plan>>
      /\ label' = [t \in Stops |-> IF t \in W THEN new(t) ELSE label[t]]
      /\ changed \in Seq(Stops) /\ DOMAIN label = Stops
      /\ \A t \in Stops : LabelSound(t)
  BY DEF TransitInv, TransitTypes, TransferWalk
<1>2. /\ \A t \in Stops : Counted(t)
      /\ WalksTaken /\ LabelsOfRound /\ RidesTaken /\ TripsDone
  BY <1>1 DEF SettledInv
<1>3. /\ s \in Changed /\ s \in Stops
      /\ \A t \in Changed' : t \in Changed
      /\ \A t \in Changed : t \in Stops /\ (t = s \/ t \in Changed')
  <2>1. Len(changed) \in Nat \ {0} /\ DOMAIN changed = 1..Len(changed)
    BY <1>1, EmptySeq, LenProperties
  <2>2. /\ changed' \in Seq(Stops) /\ Len(changed') = Len(changed) - 1
        /\ \A i \in 1..Len(changed') : changed'[i] = changed[i + 1]
    BY <1>1, <2>1, HeadTailProperties
  <2>3. DOMAIN changed' = 1..(Len(changed) - 1)
    BY <2>2, LenProperties
  <2>4. s = changed[1] /\ 1 \in DOMAIN changed
    BY <2>1
  <2>5. ASSUME NEW i \in DOMAIN changed' PROVE i + 1 \in DOMAIN changed /\ changed'[i] = changed[i + 1]
    BY <2>1, <2>2, <2>3
  <2>6. ASSUME NEW i \in DOMAIN changed, i # 1
        PROVE  i - 1 \in DOMAIN changed' /\ changed'[i - 1] = changed[i]
    <3>1. i - 1 \in 1..(Len(changed) - 1) /\ i - 1 + 1 = i
      BY <2>1, <2>6
    <3> QED
      BY <2>2, <2>3, <3>1
  <2>7. \A i \in DOMAIN changed : changed[i] \in Stops
    BY <1>1
  <2> HIDE DEF s
  <2>8. s \in Changed /\ s \in Stops
    BY <2>4, <2>7 DEF Changed
  <2>9. ASSUME NEW t \in Changed' PROVE t \in Changed
    BY <2>5 DEF Changed
  <2>10. ASSUME NEW t \in Changed PROVE t \in Stops /\ (t = s \/ t \in Changed')
    <3>1. PICK i \in DOMAIN changed : t = changed[i]
      BY DEF Changed
    <3> QED
      BY <2>4, <2>6, <2>7, <3>1 DEF Changed
  <2> QED
    BY <2>8, <2>9, <2>10
<1>4. /\ label[s].arrival \in Nat /\ label[s].rides = round + 1 /\ round \in Nat
      /\ label[s].arrival < Inf /\ Inf \in Nat
  <2> HIDE DEF s, W, new
  <2>1. label[s].arrival \in Nat
    BY <1>1, <1>3 DEF LabelSound
  <2>2. label[s].rides = round + 1 /\ round \in Nat
    BY <1>2, <1>3 DEF LabelsOfRound
  <2>3. Counted(s)
    BY <1>2, <1>3
  <2>4. label[s].arrival < Inf
    BY <2>2, <2>3 DEF Counted
  <2> QED
    BY <2>1, <2>2, <2>4, TransitPackAssumption
<1>5. ASSUME NEW t \in Stops
      PROVE  /\ label[t].arrival \in Nat /\ label'[t].arrival \in Nat
             /\ label'[t].arrival <= label[t].arrival
             /\ \/ t # s /\ t \in WalkTargets(s) /\ label'[t].kind = "walk" /\ label'[t].rides = round + 1
                   /\ label'[t].arrival < label[t].arrival
                   /\ label'[t].arrival = label[s].arrival + Walk[<<s, t>>]
                \/ label'[t] = label[t] /\ (t \in WalkTargets(s) => label[t].arrival <= label[s].arrival + Walk[<<s, t>>])
  <2>1. label[t].arrival \in Nat
    BY <1>1 DEF LabelSound
  <2>2. t \in WalkTargets(s) => t # s /\ Walk[<<s, t>>] \in Nat
    <3> HIDE DEF s
    <3> QED
      BY <1>3, WalksLead
  <2>3. CASE t \in W
    <3>1. label'[t] = new(t)
      BY <1>1, <2>3
    <3>2. /\ label'[t].kind = "walk" /\ label'[t].rides = label[s].rides
          /\ label'[t].arrival = label[s].arrival + Walk[<<s, t>>]
      BY <3>1
    <3>3. t \in WalkTargets(s) /\ label[s].arrival + Walk[<<s, t>>] < label[t].arrival
      BY <2>3
    <3> HIDE DEF s, W, new
    <3> QED
      BY <1>4, <2>1, <2>2, <3>2, <3>3
  <2>4. CASE t \notin W
    <3>1. label'[t] = label[t]
      BY <1>1, <2>4
    <3>2. t \in WalkTargets(s) => ~(label[s].arrival + Walk[<<s, t>>] < label[t].arrival)
      BY <2>4
    <3> HIDE DEF s, W, new
    <3> QED
      BY <1>4, <2>1, <2>2, <3>1, <3>2
  <2> QED
    BY <2>3, <2>4
<1> HIDE DEF s, W, new
<1>6. ASSUME NEW t \in Stops PROVE Counted(t)'
  <2>1. Counted(t)
    BY <1>2
  <2>2. t \in DOMAIN Access => Depart + Access[t] \in Nat
    BY TransitPackAssumption, TransitPlanAssumption
  <2> QED
    <3>1. CASE label'[t] = label[t]
      BY <2>1, <3>1 DEF Counted
    <3>2. CASE /\ label'[t].kind = "walk" /\ label'[t].rides = round + 1
               /\ label'[t].arrival < label[t].arrival
      <4>1. label[t].arrival \in Nat /\ label'[t].arrival \in Nat /\ Inf \in Nat /\ round \in Nat
        BY <1>4, <1>5
      <4>2. label[t].arrival <= Inf /\ (t \in DOMAIN Access => label[t].arrival <= Depart + Access[t])
        BY <2>1 DEF Counted
      <4>3. /\ label'[t].rides \in Nat /\ label'[t].rides > 0
            /\ label'[t].kind \in {"vehicle", "walk"}
        BY <3>2, <4>1
      <4>4. /\ label'[t].arrival < Inf /\ label'[t].arrival <= Inf
            /\ t \in DOMAIN Access => label'[t].arrival <= Depart + Access[t]
        BY <2>2, <3>2, <4>1, <4>2
      <4> QED
        BY <4>3, <4>4 DEF Counted
    <3> QED
      BY <1>5, <3>1, <3>2
<1>7. WalksTaken'
  <2> SUFFICES ASSUME NEW u \in Stops, u \notin Changed', label'[u].kind = "vehicle",
                      NEW t \in WalkTargets(u)
               PROVE  label'[t].arrival <= label'[u].arrival + Walk[<<u, t>>]
    BY DEF WalksTaken, WalkTargets
  <2>1. label'[u] = label[u] /\ label[u].arrival \in Nat
    BY <1>5
  <2>2. t \in Stops /\ Walk[<<u, t>>] \in Nat
    BY WalksLead
  <2>3. label'[t].arrival \in Nat /\ label[t].arrival \in Nat /\ label'[t].arrival <= label[t].arrival
    BY <1>5, <2>2
  <2>4. CASE u = s
    <3>1. label'[t].arrival <= label[s].arrival + Walk[<<s, t>>]
      <4>1. Walk[<<s, t>>] \in Nat /\ t \in WalkTargets(s)
        BY <2>2, <2>4
      <4> QED
        BY <1>4, <1>5, <2>2, <2>3, <4>1
    <3> QED
      BY <2>1, <2>4, <3>1
  <2>5. CASE u # s
    <3>1. u \notin Changed
      BY <1>3, <2>5
    <3>2. label[t].arrival <= label[u].arrival + Walk[<<u, t>>]
      BY <1>2, <2>1, <3>1 DEF WalksTaken
    <3> QED
      BY <2>1, <2>2, <2>3, <3>2
  <2> QED
    BY <2>4, <2>5
<1>8. LabelsOfRound'
  <2>1. \A t \in Stops : base[t].rides \in 0..round /\ (label'[t] = base[t] \/ label'[t].rides = round + 1)
    BY <1>2, <1>5 DEF LabelsOfRound
  <2>2. \A t \in Changed' : label'[t].rides = round + 1
    BY <1>2, <1>3, <1>5 DEF LabelsOfRound
  <2>3. round' = round /\ base' = base /\ round \in Nat /\ round < MaxRounds
    BY <1>1, <1>2 DEF LabelsOfRound
  <2> QED
    BY <2>1, <2>2, <2>3 DEF LabelsOfRound
<1>9. RidesTaken'
  <2> SUFFICES ASSUME NEW i \in trips, RunsForward(i),
                      NEW a \in DOMAIN timetable[i], NEW b \in DOMAIN timetable[i], a < b, Open(i, a),
                      base[timetable[i][a].stop].rides < round \/ Scanned(i, b)
               PROVE  label'[timetable[i][b].stop].arrival <= timetable[i][b].arrival
    <3>1. trips' = trips /\ timetable' = timetable /\ base' = base /\ round' = round
      BY <1>1
    <3>2. \A i \in trips : RunsForward(i)' <=> RunsForward(i)
      BY <3>1 DEF RunsForward
    <3>3. \A i, a : (Open(i, a)' <=> Open(i, a)) /\ (Scanned(i, a)' <=> Scanned(i, a))
      BY <1>1 DEF Open, Scanned
    <3> QED
      BY <3>1, <3>2, <3>3 DEF RidesTaken
  <2>1. timetable[i][b].stop \in Stops /\ timetable[i][b].arrival \in Nat
    BY EventsOfTrips DEF TransitInv
  <2>2. label[timetable[i][b].stop].arrival <= timetable[i][b].arrival
    BY <1>2 DEF RidesTaken
  <2>3. /\ label'[timetable[i][b].stop].arrival <= label[timetable[i][b].stop].arrival
        /\ label'[timetable[i][b].stop].arrival \in Nat /\ label[timetable[i][b].stop].arrival \in Nat
    BY <1>5, <2>1
  <2> QED
    BY <2>1, <2>2, <2>3
<1>10. TripsDone'
  BY <1>1, <1>2 DEF TripsDone
<1> QED
  BY <1>1, <1>6, <1>7, <1>8, <1>9, <1>10 DEF SettledInv

\* At the end of a trip all its rides are taken.
LEMMA NextTripSettles ==
    ASSUME TransitInv, SettledInv, NextTrip
    PROVE  SettledInv'
<1>1. /\ pc = "scan" /\ pc' = "scan" /\ trip' = trip + 1 /\ event' = 1 /\ board' = NoBoard
      /\ TripDone \/ trip \notin trips
      /\ UNCHANGED <<timetable, trips, round, base, label, changed, plan>>
      /\ TransitTypes
  BY DEF TransitInv, NextTrip
<1>2. /\ \A t \in Stops : Counted(t)
      /\ WalksTaken /\ LabelsOfRound /\ RidesTaken /\ NewInChanged
  BY <1>1 DEF SettledInv
<1>3. \A t \in Stops : Counted(t)'
  BY <1>1, <1>2 DEF Counted
<1>4. Changed' = Changed
  BY <1>1 DEF Changed
<1>5. WalksTaken'
  BY <1>1, <1>2, <1>4 DEF WalksTaken
<1>6. LabelsOfRound' /\ NewInChanged'
  BY <1>1, <1>2, <1>4 DEF LabelsOfRound, NewInChanged
<1>7. RidesTaken'
  <2> SUFFICES ASSUME NEW i \in trips, RunsForward(i),
                      NEW a \in DOMAIN timetable[i], NEW b \in DOMAIN timetable[i], a < b, Open(i, a),
                      base[timetable[i][a].stop].rides < round \/ Scanned(i, b)'
               PROVE  label[timetable[i][b].stop].arrival <= timetable[i][b].arrival
    <3>2. \A i \in trips : RunsForward(i)' <=> RunsForward(i)
      BY <1>1 DEF RunsForward
    <3>3. \A i, a : Open(i, a)' <=> Open(i, a)
      BY <1>1 DEF Open
    <3> QED
      BY <1>1, <3>2, <3>3 DEF RidesTaken
  <2>1. /\ i \in Nat /\ trip \in Nat /\ b \in Nat /\ b >= 1 /\ event \in Nat
        /\ DOMAIN timetable[i] = 1..Len(timetable[i]) /\ Len(timetable[i]) \in Nat
    BY <1>1, EventsOfTrips DEF TransitTypes
  <2>2. base[timetable[i][a].stop].rides < round \/ Scanned(i, b)
    <3>1. CASE base[timetable[i][a].stop].rides < round
      BY <3>1
    <3>2. CASE Scanned(i, b)'
      <4>1. i < trip + 1 \/ (i = trip + 1 /\ b < 1)
        BY <1>1, <3>2 DEF Scanned
      <4>2. i < trip \/ i = trip
        BY <2>1, <4>1
      <4>3. i = trip => event > Len(timetable[trip])
        BY <1>1 DEF TripDone
      <4>4. i = trip => b < event
        BY <2>1, <4>3
      <4> QED
        BY <4>2, <4>4 DEF Scanned
    <3> QED
      BY <3>1, <3>2
  <2> QED
    BY <1>2, <2>2 DEF RidesTaken
<1>8. BoardIsFirst'
  <2>1. ASSUME trip' \in trips, NEW a \in DOMAIN timetable[trip'] PROVE ~(a < 1)
    <3>1. PICK i \in trips : i = trip'
      BY <2>1
    <3>2. a \in 1..Len(timetable[i])
      BY <1>1, <2>1, <3>1, EventsOfTrips
    <3> QED
      BY <3>2
  <2> QED
    BY <1>1, <2>1 DEF BoardIsFirst
<1> QED
  BY <1>1, <1>3, <1>5, <1>6, <1>7, <1>8 DEF SettledInv

\* A scan that has changed nothing has left no ride.
LEMMA EndOfScanSettles ==
    ASSUME TransitInv, SettledInv, EndOfScan
    PROVE  SettledInv'
<1>1. /\ pc = "scan" /\ TripsDone
      /\ \/ changed = <<>> /\ pc' = "build"
         \/ pc' = "walk"
      /\ UNCHANGED <<timetable, trips, round, trip, event, board, base, label, changed, plan>>
      /\ TransitTypes
  BY DEF TransitInv, EndOfScan
<1>2. /\ \A t \in Stops : Counted(t)
      /\ WalksTaken /\ LabelsOfRound /\ RidesTaken /\ NewInChanged
  BY <1>1 DEF SettledInv
<1>3. \A t \in Stops : Counted(t)'
  BY <1>1, <1>2 DEF Counted
<1>4. Changed' = Changed
  BY <1>1 DEF Changed
<1>5. WalksTaken' /\ LabelsOfRound' /\ TripsDone'
  BY <1>1, <1>2, <1>4 DEF WalksTaken, LabelsOfRound, TripsDone
<1>6. \A i : RunsForward(i)' <=> RunsForward(i)
  BY <1>1 DEF RunsForward
<1>7. RidesTaken'
  <2>1. \A i, a : (Open(i, a)' <=> Open(i, a)) /\ (Scanned(i, a)' <=> Scanned(i, a))
    BY <1>1 DEF Open, Scanned
  <2> QED
    BY <1>1, <1>2, <1>6, <2>1 DEF RidesTaken
<1>8. ASSUME changed = <<>> PROVE RidesSettled'
  <2>1. \A s \in Stops : label[s] = base[s]
    <3>1. DOMAIN changed = {}
      BY <1>8
    <3> QED
      BY <1>2, <3>1 DEF NewInChanged, Changed
  <2> SUFFICES ASSUME NEW i \in trips, RunsForward(i),
                      NEW a \in DOMAIN timetable[i], NEW b \in DOMAIN timetable[i], a < b, Catches(i, a)
               PROVE  label[timetable[i][b].stop].arrival <= timetable[i][b].arrival
    <3>1. \A i, a : Catches(i, a)' <=> Catches(i, a)
      BY <1>1 DEF Catches
    <3> QED
      BY <1>1, <1>6, <3>1 DEF RidesSettled
  <2>2. timetable[i][a].stop \in Stops
    BY <1>1, EventsOfTrips
  <2>3. Open(i, a)
    BY <2>1, <2>2 DEF Open, Catches
  <2>4. Scanned(i, b)
    <3>1. i \in 1..Len(timetable) /\ Len(timetable) \in Nat /\ trip \in Nat
      BY <1>1 DEF TransitTypes
    <3>2. i < trip
      BY <1>1, <3>1 DEF TripsDone
    <3> QED
      BY <3>2 DEF Scanned
  <2> QED
    BY <1>2, <2>3, <2>4 DEF RidesTaken
<1> QED
  BY <1>1, <1>3, <1>5, <1>7, <1>8 DEF SettledInv

\* A label that the next round finds and this one has not made was there before.
LEMMA NextRoundSettles ==
    ASSUME TransitInv, SettledInv, NextRound
    PROVE  SettledInv'
<1>1. /\ pc = "walk" /\ changed = <<>> /\ round' = round + 1
      /\ pc' = IF round + 1 < MaxRounds THEN "scan" ELSE "build"
      /\ trip' = 1 /\ event' = 1 /\ board' = NoBoard /\ base' = label
      /\ UNCHANGED <<timetable, trips, label, changed, plan>>
      /\ TransitTypes /\ \A s \in Stops : LabelSound(s)
  BY DEF TransitInv, NextRound
<1>2. /\ \A t \in Stops : Counted(t)
      /\ WalksTaken /\ LabelsOfRound /\ RidesTaken /\ TripsDone
  BY <1>1 DEF SettledInv
<1>3. \A t \in Stops : Counted(t)'
  BY <1>1, <1>2 DEF Counted
<1>4. Changed' = {} /\ Changed = {}
  <2>1. DOMAIN changed = {}
    BY <1>1
  <2> QED
    BY <1>1, <2>1 DEF Changed
<1>5. WalksTaken'
  BY <1>1, <1>2, <1>4 DEF WalksTaken
<1>6. round \in Nat /\ MaxRounds \in Nat /\ round < MaxRounds
  BY <1>2, TransitPackAssumption DEF LabelsOfRound
<1>7. round + 1 < MaxRounds => LabelsOfRound'
  <2>1. \A s \in Stops : label[s].rides \in 0..(round + 1)
    BY <1>2, <1>6 DEF LabelsOfRound
  <2>2. base' = label /\ label' = label /\ round' = round + 1
    BY <1>1
  <2> QED
    BY <1>4, <1>6, <2>1, <2>2 DEF LabelsOfRound
<1>8. NewInChanged'
  BY <1>1 DEF NewInChanged
<1>9. ASSUME NEW i \in trips, RunsForward(i),
             NEW a \in DOMAIN timetable[i], NEW b \in DOMAIN timetable[i], a < b, Catches(i, a),
             label[timetable[i][a].stop].rides < round + 1
      PROVE  label[timetable[i][b].stop].arrival <= timetable[i][b].arrival
  <2>1. timetable[i][a].stop \in Stops
    BY <1>1, EventsOfTrips
  <2>2. label[timetable[i][a].stop] = base[timetable[i][a].stop]
    <3>1. label[timetable[i][a].stop].rides # round + 1
      BY <1>6, <1>9
    <3> QED
      BY <1>2, <2>1, <3>1 DEF LabelsOfRound
  <2>3. Open(i, a)
    BY <1>9, <2>2 DEF Open, Catches
  <2>4. Scanned(i, b)
    <3>1. i \in 1..Len(timetable) /\ Len(timetable) \in Nat /\ trip \in Nat
      BY <1>1 DEF TransitTypes
    <3>2. i < trip
      BY <1>2, <3>1 DEF TripsDone
    <3> QED
      BY <3>2 DEF Scanned
  <2> QED
    BY <1>2, <1>9, <2>3, <2>4 DEF RidesTaken
<1>10. \A i : RunsForward(i)' <=> RunsForward(i)
  BY <1>1 DEF RunsForward
<1>11. RidesTaken'
  <2> SUFFICES ASSUME NEW i \in trips, RunsForward(i),
                      NEW a \in DOMAIN timetable[i], NEW b \in DOMAIN timetable[i], a < b, Open(i, a)',
                      label[timetable[i][a].stop].rides < round + 1 \/ Scanned(i, b)'
               PROVE  label[timetable[i][b].stop].arrival <= timetable[i][b].arrival
    BY <1>1, <1>10 DEF RidesTaken
  <2>1. i \in Nat \ {0} /\ b \in Nat \ {0}
    BY <1>1, EventsOfTrips DEF TransitTypes
  <2>2. ~Scanned(i, b)'
    BY <1>1, <2>1 DEF Scanned
  <2>3. Catches(i, a)
    BY <1>1 DEF Open, Catches
  <2> QED
    BY <1>9, <2>2, <2>3
<1>12. BoardIsFirst'
  <2>1. ASSUME trip' \in trips, NEW a \in DOMAIN timetable[trip'] PROVE ~(a < 1)
    <3>1. PICK i \in trips : i = trip'
      BY <2>1
    <3>2. a \in 1..Len(timetable[i])
      BY <1>1, <2>1, <3>1, EventsOfTrips
    <3> QED
      BY <3>2
  <2> QED
    BY <1>1, <2>1 DEF BoardIsFirst
<1>13. ASSUME ~(round + 1 < MaxRounds) PROVE RidesSettled'
  <2> SUFFICES ASSUME NEW i \in trips, RunsForward(i),
                      NEW a \in DOMAIN timetable[i], NEW b \in DOMAIN timetable[i], a < b, Catches(i, a),
                      label[timetable[i][a].stop].rides < MaxRounds
               PROVE  label[timetable[i][b].stop].arrival <= timetable[i][b].arrival
    <3>1. \A i, a : Catches(i, a)' <=> Catches(i, a)
      BY <1>1 DEF Catches
    <3> QED
      BY <1>1, <1>10, <3>1 DEF RidesSettled
  <2>1. MaxRounds = round + 1
    BY <1>6, <1>13
  <2> QED
    BY <1>9, <2>1
<1> QED
  BY <1>1, <1>3, <1>5, <1>7, <1>8, <1>11, <1>12, <1>13 DEF SettledInv

\* The plan is read from the best of the stops that were reached.
LEMMA BuildSettles ==
    ASSUME TransitInv, SettledInv, BuildPlan
    PROVE  SettledInv'
<1>1. /\ pc = "build" /\ pc' = "planned"
      /\ UNCHANGED <<timetable, trips, round, trip, event, board, base, label, changed>>
      /\ \A t \in Stops : LabelSound(t)
      /\ Orderly
  BY DEF TransitInv, BuildPlan
<1>2. /\ \A t \in Stops : Counted(t)
      /\ WalksTaken /\ RidesSettled /\ changed = <<>>
  BY <1>1 DEF SettledInv
<1>3. \A t \in Stops : Counted(t)'
  BY <1>1, <1>2 DEF Counted
<1>4. WalksTaken' /\ RidesSettled' /\ changed' = <<>>
  BY <1>1, <1>2 DEF WalksTaken, RidesSettled, Changed, RunsForward, Catches
<1>5. \A s \in Ridden : s \in Goals
  <2> SUFFICES ASSUME NEW s \in Ridden PROVE s \in Goals
    OBVIOUS
  <2>1. s \in DOMAIN Egress /\ s \in Stops /\ label[s].kind \in {"vehicle", "walk"}
    BY TransitPackAssumption DEF Ridden
  <2>2. Counted(s) /\ label[s].arrival \in Nat /\ Inf \in Nat
    BY <1>1, <1>2, <2>1, TransitPackAssumption DEF LabelSound
  <2> QED
    BY <2>1, <2>2 DEF Counted, Goals
<1>6. ASSUME Goals # {}
      PROVE  /\ BestGoal \in Goals /\ \A t \in Goals \ {BestGoal} : BetterGoal(BestGoal, t)
             /\ BestGoal \in Stops /\ label[BestGoal].kind \in {"vehicle", "walk"}
  <2>1. BestGoal \in Goals /\ \A t \in Goals \ {BestGoal} : BetterGoal(BestGoal, t)
    BY <1>1, <1>6, BestOfGoals
  <2>2. BestGoal \in Stops /\ label[BestGoal].rides > 0
    BY <2>1, TransitPackAssumption DEF Goals
  <2>3. Counted(BestGoal)
    BY <1>2, <2>2
  <2> QED
    BY <2>1, <2>2, <2>3 DEF Counted
<1>7. ASSUME Goals # {}, NEW s, s = BestGoal, NEW legs, legs = LegsTo(s)
      PROVE  /\ Len(legs) \in Nat \ {0}
             /\ legs[Len(legs)].alight = s /\ legs[Len(legs)].arrival = label[s].arrival
  <2>1. s \in Stops /\ label[s].kind \in {"vehicle", "walk"} /\ label[s].kind # "none" /\ label[s].kind # "origin"
    BY <1>6, <1>7
  <2>2. PICK at \in Stops :
              /\ label[at].kind = "origin"
              /\ LegsTo(s) \in Seq(AllLegs)
              /\ Len(LegsTo(s)) = 0 => at = s
              /\ Len(LegsTo(s)) # 0 =>
                    /\ LegsTo(s)[Len(LegsTo(s))].alight = s
                    /\ LegsTo(s)[Len(LegsTo(s))].arrival = label[s].arrival
    BY <1>1, <2>1, ChainReachesOrigin, Zenon
  <2>3. /\ legs \in Seq(AllLegs) /\ Len(legs) # 0
        /\ legs[Len(legs)].alight = s /\ legs[Len(legs)].arrival = label[s].arrival
    BY <1>7, <2>1, <2>2, Zenon
  <2> QED
    BY <2>3, LenProperties
<1>8. PICK best, legs : best = BestGoal /\ legs = LegsTo(best)
  OBVIOUS
<1>9. Ridden' = Ridden /\ (\A s : LegsTo(s)' = LegsTo(s)) /\ BestGoal' = BestGoal
  BY <1>1 DEF Ridden, LegsTo, LegTo, BestGoal, Goals, BetterGoal
<1>10. plan' = IF Goals = {} \/ Len(legs) \notin 1..MaxPlanLegs
               THEN NoPlan
               ELSE [found |-> TRUE, legs |-> legs, total |-> label[best].arrival + Egress[best] - Depart]
  BY <1>8 DEF BuildPlan
<1>11. ASSUME plan'.found, NEW s \in Ridden
       PROVE  LET last == plan'.legs[Len(plan'.legs)]
              IN  Score(last.arrival, last.alight) <= Score(label[s].arrival, s)
  <2>1. Goals # {} /\ plan'.legs = legs
    BY <1>10, <1>11 DEF NoPlan
  <2>2. legs[Len(legs)].alight = best /\ legs[Len(legs)].arrival = label[best].arrival
    BY <1>7, <1>8, <2>1
  <2>3. s \in Goals /\ best \in Goals /\ (s # best => BetterGoal(best, s))
    BY <1>5, <1>6, <1>8, <1>11, <2>1
  <2>4. \A t \in Goals : Score(label[t].arrival, t) \in Nat
    <3> SUFFICES ASSUME NEW t \in Goals PROVE Score(label[t].arrival, t) \in Nat
      OBVIOUS
    <3>1. t \in Stops /\ Egress[t] \in Nat
      BY TransitPackAssumption DEF Goals
    <3>2. label[t].arrival \in Nat
      BY <1>1, <3>1 DEF LabelSound
    <3> QED
      BY <3>1, <3>2 DEF Score
  <2>5. Score(label[best].arrival, best) <= Score(label[s].arrival, s)
    <3>1. CASE s = best
      BY <2>3, <2>4, <3>1
    <3>2. CASE s # best
      <4>1. \/ Score(label[best].arrival, best) < Score(label[s].arrival, s)
            \/ Score(label[best].arrival, best) = Score(label[s].arrival, s)
        BY <2>3, <3>2 DEF BetterGoal
      <4> QED
        BY <2>3, <2>4, <4>1
    <3> QED
      BY <3>1, <3>2
  <2> QED
    BY <2>1, <2>2, <2>5
<1>12. ASSUME Ridden # {}, ~plan'.found PROVE Len(legs) > MaxPlanLegs
  <2>1. Goals # {}
    BY <1>5, <1>12
  <2>2. Len(legs) \notin 1..MaxPlanLegs
    BY <1>10, <1>12, <2>1
  <2>3. Len(legs) \in Nat \ {0}
    BY <1>7, <1>8, <2>1
  <2> QED
    BY <2>2, <2>3, TransitPlanAssumption
<1>13. PlanIsBest'
  <2>1. Len(LegsTo(BestGoal)') = Len(legs)
    BY <1>8, <1>9
  <2> QED
    BY <1>1, <1>9, <1>11, <1>12, <2>1 DEF PlanIsBest
<1> QED
  BY <1>1, <1>3, <1>4, <1>13 DEF SettledInv

\* The labels and the walks from them, where nothing happens to them.
LEMMA CountsStay ==
    ASSUME SettledInv, UNCHANGED <<label, changed>>
    PROVE  (\A s \in Stops : Counted(s)') /\ WalksTaken'
BY DEF SettledInv, Counted, WalksTaken, Changed

\* An arrival query has nothing to do with the labels.
LEMMA ArriveSettles ==
    ASSUME TransitInv, SettledInv, ArriveEvent \/ ArriveNextTrip \/ ArriveDone, query' = query
    PROVE  SettledInv'
<1>1. /\ pc = "arrive" /\ pc' \in {"arrive", "planned"} /\ UNCHANGED <<label, changed>>
      /\ query'.when = "arrive"
  BY DEF ArriveEvent, ArriveNextTrip, ArriveDone, TransitInv
<1> QED
  BY <1>1, CountsStay DEF SettledInv

\* The walks from the origin.
LEMMA OriginCounts ==
    ASSUME NEW s \in Stops, label[s] = OriginLabel(s)
    PROVE  Counted(s) /\ label[s].kind \in {"none", "origin"}
<1>1. CASE s \in DOMAIN Access
  <2>1. /\ label[s].arrival = Depart + Access[s] /\ label[s].kind = "origin" /\ label[s].rides = 0
    BY <1>1 DEF OriginLabel, Unreached
  <2>2. Depart + Access[s] \in Nat /\ Depart + Access[s] < Inf /\ Inf \in Nat
    BY <1>1, TransitPackAssumption, TransitPlanAssumption
  <2> QED
    BY <2>1, <2>2 DEF Counted
<1>2. CASE s \notin DOMAIN Access
  <2>1. label[s].arrival = Inf /\ label[s].kind = "none" /\ label[s].rides = 0
    BY <1>2 DEF OriginLabel, Unreached
  <2> QED
    BY <1>2, <2>1, TransitPackAssumption DEF Counted
<1> QED
  BY <1>1, <1>2

LEMMA IdleSettled ==
    ASSUME TransitIdle
    PROVE  SettledInv
<1>1. \A s \in Stops : Counted(s) /\ label[s].kind \in {"none", "origin"}
  BY OriginCounts DEF TransitIdle
<1>2. WalksTaken
  BY <1>1 DEF WalksTaken
<1> QED
  BY <1>1, <1>2 DEF SettledInv, TransitIdle

\* A search that starts, or ends at once for want of a timetable or of memory.
LEMMA StartSettles ==
    ASSUME TransitInv, SettledInv, NEW memory, StartTransit(query.when, memory), query' = query
    PROVE  SettledInv'
<1>1. /\ pc = "idle" /\ UNCHANGED <<timetable, trips, round, trip, event, board, base, label, changed, plan>>
      /\ pc' = IF timetable = <<>> THEN "planned"
               ELSE IF query.when = "arrive" THEN "arrive"
               ELSE IF memory THEN "scan" ELSE "planned"
      /\ TransitTypes /\ TransitIdle
  BY DEF StartTransit, TransitInv, SettledInv
<1>2. /\ round = 0 /\ trip = 1 /\ event = 1 /\ board = NoBoard /\ base = label /\ changed = <<>>
      /\ plan = NoPlan /\ \A s \in Stops : label[s] = OriginLabel(s)
  BY <1>1 DEF TransitIdle
<1>3. \A s \in Stops : Counted(s) /\ label[s].rides = 0 /\ label[s].kind \in {"none", "origin"}
  <2>1. ASSUME NEW s \in Stops PROVE OriginLabel(s).rides = 0
    BY DEF OriginLabel, Unreached
  <2> QED
    BY <1>2, <2>1, OriginCounts
<1>4. /\ Changed' = {} /\ Changed = {}
  <2>1. DOMAIN changed = {}
    BY <1>2
  <2> QED
    BY <1>1, <2>1 DEF Changed
<1>5. ASSUME NEW i \in trips
      PROVE  /\ i \in 1..Len(timetable) /\ Len(timetable) \in Nat
             /\ \A b \in DOMAIN timetable[i] : b \in Nat /\ b >= 1
  BY <1>1, EventsOfTrips DEF TransitTypes
<1>6. CASE pc' = "scan"
  <2>1. LabelsOfRound'
    <3>1. 0 < MaxRounds
      BY TransitPackAssumption
    <3>2. \A s \in Stops : base'[s].rides \in 0..round' /\ label'[s] = base'[s]
      <4>1. 0 \in 0..0
        OBVIOUS
      <4> QED
        BY <1>1, <1>2, <1>3, <4>1
    <3>3. round' = 0
      BY <1>1, <1>2
    <3> QED
      BY <1>4, <3>1, <3>2, <3>3 DEF LabelsOfRound
  <2>2. RidesTaken'
    <3> SUFFICES ASSUME NEW i \in trips, NEW a \in DOMAIN timetable[i], NEW b \in DOMAIN timetable[i],
                        base[timetable[i][a].stop].rides < 0 \/ Scanned(i, b)'
                 PROVE  FALSE
      BY <1>1, <1>2 DEF RidesTaken
    <3>1. base[timetable[i][a].stop].rides = 0
      BY <1>1, <1>2, <1>3, EventsOfTrips
    <3>2. i \in Nat /\ i >= 1 /\ b \in Nat /\ b >= 1
      BY <1>5
    <3>3. ~Scanned(i, b)'
      BY <1>1, <1>2, <3>2 DEF Scanned
    <3> QED
      BY <3>1, <3>3
  <2>3. BoardIsFirst'
    <3>1. ASSUME NEW i \in trips, NEW a \in DOMAIN timetable[i] PROVE ~(a < 1)
      BY <1>5
    <3> QED
      BY <1>1, <1>2, <3>1 DEF BoardIsFirst
  <2>4. NewInChanged'
    BY <1>1, <1>2 DEF NewInChanged
  <2> QED
    BY <1>1, <1>6, <2>1, <2>2, <2>3, <2>4, CountsStay DEF SettledInv
<1>7. CASE pc' = "planned"
  <2>1. ASSUME (round > 0 \/ TripsDone)' PROVE RidesSettled' /\ PlanIsBest'
    <3>1. trips = {}
      <4>1. 1 > Len(timetable)
        BY <1>1, <1>2, <2>1 DEF TripsDone
      <4>2. \A i \in trips : FALSE
        BY <1>5, <4>1
      <4> QED
        BY <4>2
    <3>2. RidesSettled'
      BY <1>1, <3>1 DEF RidesSettled
    <3>3. Ridden' = {}
      <4>1. \A s \in DOMAIN Egress : s \in Stops
        BY TransitPackAssumption
      <4> QED
        BY <1>1, <1>3, <4>1 DEF Ridden
    <3>4. ~plan'.found
      BY <1>1, <1>2 DEF NoPlan
    <3> QED
      BY <3>2, <3>3, <3>4 DEF PlanIsBest
  <2> QED
    BY <1>1, <1>2, <1>7, <2>1, CountsStay DEF SettledInv
<1>8. CASE pc' = "arrive"
  BY <1>8, <1>1, CountsStay DEF SettledInv
<1> QED
  BY <1>1, <1>6, <1>7, <1>8

LEMMA SettledStays ==
    ASSUME SettledInv, UNCHANGED <<transitVars, query>>
    PROVE  SettledInv'
<1>1. UNCHANGED <<timetable, trips, pc, round, trip, event, board, base, label, changed, plan, query>>
  BY DEF transitVars
<1>2. (\A s \in Stops : Counted(s)') /\ WalksTaken'
  BY <1>1, CountsStay
<1>3. TransitIdle' <=> TransitIdle
  BY <1>1 DEF TransitIdle, OriginLabel
<1>4. \A i : RunsForward(i)' <=> RunsForward(i)
  BY <1>1 DEF RunsForward
<1>5. \A i, a : /\ Open(i, a)' <=> Open(i, a)
                /\ Scanned(i, a)' <=> Scanned(i, a)
                /\ Catches(i, a)' <=> Catches(i, a)
  BY <1>1 DEF Open, Scanned, Catches
<1>6. (RidesTaken' <=> RidesTaken) /\ (RidesSettled' <=> RidesSettled)
  BY <1>1, <1>4, <1>5 DEF RidesTaken, RidesSettled
<1>7. Changed' = Changed
  BY <1>1 DEF Changed
<1>8. (LabelsOfRound' <=> LabelsOfRound) /\ (NewInChanged' <=> NewInChanged) /\ (TripsDone' <=> TripsDone)
  BY <1>1, <1>7 DEF LabelsOfRound, NewInChanged, TripsDone
<1>9. BoardIsFirst' <=> BoardIsFirst
  BY <1>1, <1>5 DEF BoardIsFirst
<1>10. PlanIsBest' <=> PlanIsBest
  <2>1. Ridden' = Ridden /\ (\A s : LegsTo(s)' = LegsTo(s)) /\ BestGoal' = BestGoal
    BY <1>1 DEF Ridden, LegsTo, LegTo, BestGoal, Goals, BetterGoal
  <2>2. Len(LegsTo(BestGoal)') = Len(LegsTo(BestGoal))
    BY <2>1
  <2> QED
    BY <1>1, <2>1, <2>2 DEF PlanIsBest
<1> QED
  BY <1>1, <1>2, <1>3, <1>6, <1>8, <1>9, <1>10 DEF SettledInv

LEMMA ReadSettles ==
    ASSUME QueryInv, SettledInv, ReadTimetable
    PROVE  SettledInv'
<1>1. /\ pc = "idle" /\ TransitIdle
      /\ UNCHANGED <<pc, round, trip, event, board, base, label, changed, plan>>
  BY DEF QueryInv, SettledInv, ReadTimetable, Fresh
<1>2. TransitIdle'
  BY <1>1 DEF TransitIdle, OriginLabel
<1>3. (TransitIdle => SettledInv)'
  BY IdleSettled, PTL
<1> QED
  BY <1>2, <1>3

LEMMA RoundsKept ==
    ASSUME QueryInv, SettledInv, [Next]_vars
    PROVE  SettledInv'
<1>1. QueryInv /\ TransitInv /\ SettledInv
  BY DEF QueryInv
<1>2. CASE ReadTimetable
  BY <1>1, <1>2, ReadSettles
<1>3. CASE Suggest
  <2>1. query' = query
    BY <1>3 DEF Suggest, queryVars
  <2> QED
    BY <1>1, <1>3, <2>1, StartSettles, ScanSettles, NextTripSettles, EndOfScanSettles, TransferSettles,
       NextRoundSettles, BuildSettles, ArriveSettles DEF Suggest, TransitStep
<1>4. CASE Resolve \/ Check \/ Load \/ LoadGivesUp \/ Snap \/ Search \/ Answer \/ Suggested
           \/ SuggestUnfilled \/ Done
  <2>1. UNCHANGED <<transitVars, query>>
    BY <1>4 DEF Resolve, Check, Load, LoadGivesUp, Snap, Search, Answer, Suggested, SuggestUnfilled, Done, Ended,
                queryVars, vars
  <2> QED
    BY <1>1, <2>1, SettledStays
<1>5. CASE UNCHANGED vars
  <2>1. UNCHANGED <<transitVars, query>>
    BY <1>5 DEF vars, queryVars
  <2> QED
    BY <1>1, <2>1, SettledStays
<1> QED
  BY <1>2, <1>3, <1>4, <1>5 DEF Next

\* Whatever is asked, the rounds leave no ride from a label they have found and
\* no walk from where a vehicle was left untaken (the rounds and the transfer
\* walks of evaluate_transit_plan).
THEOREM SettledInvariant == Spec => []SettledInv
<1>1. Init => SettledInv
  BY IdleSettled DEF Init
<1>2. QueryInv /\ SettledInv /\ [Next]_vars => SettledInv'
  BY RoundsKept
<1> QED
  BY <1>1, <1>2, QueryInvariant, PTL DEF Spec

\* When a search for a departure has ended, no ride and no walk it had to take
\* improves a label, and no stop that was reached has a better score than the
\* plan (evaluate_transit_plan and transit_build_plan_from_arrivals).
THEOREM NothingBetterIsLeft == Spec => []NoBetterJourney
<1>1. SettledInv => NoBetterJourney
  <2> SUFFICES ASSUME SettledInv, pc = "planned", query.when = "depart", round > 0 \/ TripsDone
               PROVE  NoBetterJourney
    BY DEF NoBetterJourney
  <2>1. /\ \A s \in Stops : Counted(s)
        /\ WalksTaken /\ RidesSettled /\ PlanIsBest /\ changed = <<>>
    BY DEF SettledInv
  <2>2. Changed = {}
    <3>1. DOMAIN changed = {}
      BY <2>1
    <3> QED
      BY <3>1 DEF Changed
  <2>3. \A i \in {i \in trips : RunsForward(i)} : \A a, b \in DOMAIN timetable[i] :
            a < b /\ Catches(i, a) /\ label[timetable[i][a].stop].rides < MaxRounds
                => label[timetable[i][b].stop].arrival <= timetable[i][b].arrival
    BY <2>1 DEF RidesSettled
  <2>4. \A s \in Stops : \A t \in WalkTargets(s) :
            label[s].kind = "vehicle" => label[t].arrival <= label[s].arrival + Walk[<<s, t>>]
    BY <2>1, <2>2 DEF WalksTaken
  <2>5. \A s \in DOMAIN Access : label[s].arrival <= Depart + Access[s]
    BY <2>1, TransitPackAssumption DEF Counted
  <2> QED
    BY <2>1, <2>3, <2>4, <2>5 DEF NoBetterJourney, PlanIsBest, Ridden
<1> QED
  BY <1>1, SettledInvariant, PTL

-----------------------------------------------------------------------------
(***************************************************************************)
(* The directions.                                                         *)
(***************************************************************************)
\* Three sequences one after the other.
LEMMA Joined ==
    ASSUME NEW R, NEW a \in Seq(R), NEW b \in Seq(R), NEW c \in Seq(R)
    PROVE  /\ Len(a) \in Nat /\ Len(b) \in Nat /\ Len(c) \in Nat
           /\ (a \o b) \o c \in Seq(R) /\ Len((a \o b) \o c) = Len(a) + Len(b) + Len(c)
           /\ \A i \in 1..(Len(a) + Len(b) + Len(c)) :
                 /\ i <= Len(a) => ((a \o b) \o c)[i] = a[i]
                 /\ i > Len(a) /\ i <= Len(a) + Len(b) => ((a \o b) \o c)[i] = b[i - Len(a)]
                 /\ i > Len(a) + Len(b) => ((a \o b) \o c)[i] = c[i - Len(a) - Len(b)]
<1>1. Len(a) \in Nat /\ Len(b) \in Nat /\ Len(c) \in Nat
  BY LenProperties
<1> DEFINE q == a \o b
<1>2. /\ q \in Seq(R) /\ Len(q) = Len(a) + Len(b)
      /\ \A i \in 1..(Len(a) + Len(b)) : q[i] = IF i <= Len(a) THEN a[i] ELSE b[i - Len(a)]
  BY ConcatProperties
<1> HIDE DEF q
<1>3. /\ q \o c \in Seq(R) /\ Len(q \o c) = Len(q) + Len(c)
      /\ \A i \in 1..(Len(q) + Len(c)) : (q \o c)[i] = IF i <= Len(q) THEN q[i] ELSE c[i - Len(q)]
  <2>1. q \in Seq(R)
    BY <1>2
  <2> QED
    BY <2>1, ConcatProperties, Zenon
<1>4. ASSUME NEW i \in 1..(Len(a) + Len(b) + Len(c))
      PROVE  /\ i <= Len(a) => (q \o c)[i] = a[i]
             /\ i > Len(a) /\ i <= Len(a) + Len(b) => (q \o c)[i] = b[i - Len(a)]
             /\ i > Len(a) + Len(b) => (q \o c)[i] = c[i - Len(a) - Len(b)]
  <2>1. (q \o c)[i] = IF i <= Len(a) + Len(b) THEN q[i] ELSE c[i - (Len(a) + Len(b))]
    BY <1>2, <1>3
  <2>2. CASE i <= Len(a) + Len(b)
    <3>1. q[i] = IF i <= Len(a) THEN a[i] ELSE b[i - Len(a)]
      BY <1>1, <1>2, <2>2
    <3> QED
      BY <1>1, <2>1, <2>2, <3>1
  <2>3. CASE i > Len(a) + Len(b)
    <3>1. i - (Len(a) + Len(b)) = i - Len(a) - Len(b)
      BY <1>1
    <3> QED
      BY <1>1, <2>1, <2>3, <3>1
  <2>4. i <= Len(a) + Len(b) \/ i > Len(a) + Len(b)
    BY <1>1
  <2> QED
    BY ONLY <2>2, <2>3, <2>4, Zenon
<1>5. Len(q \o c) = Len(a) + Len(b) + Len(c)
  BY <1>1, <1>2, <1>3
<1>6. /\ q \o c \in Seq(R) /\ Len(q \o c) = Len(a) + Len(b) + Len(c)
      /\ \A i \in 1..(Len(a) + Len(b) + Len(c)) :
            /\ i <= Len(a) => (q \o c)[i] = a[i]
            /\ i > Len(a) /\ i <= Len(a) + Len(b) => (q \o c)[i] = b[i - Len(a)]
            /\ i > Len(a) + Len(b) => (q \o c)[i] = c[i - Len(a) - Len(b)]
  BY <1>3, <1>4, <1>5, Zenon
<1> QED
  <2>1. (a \o b) \o c = q \o c
    BY DEF q
  <2> QED
    BY ONLY <1>1, <1>6, <2>1, Zenon

\* The steps of the walk as they are put together node by node.
LEMMA WalkStepsGrow ==
    ASSUME Len(path) \in Nat \ {0}
    PROVE  \E g :
              /\ WalkSteps = g[Len(path)].steps
              /\ g[1] = [start |-> 1, meters |-> 0, steps |-> <<>>]
              /\ \A i \in 2..Len(path) : g[i] = Grouped(g[i - 1], i)
<1> DEFINE N == Len(path)
           Start == [start |-> 1, meters |-> 0, steps |-> <<>>]
           Up(n, f) == f = [i \in 1..n |-> IF i = 1 THEN Start ELSE Grouped(f[i - 1], i)]
           T == {n \in Nat : \E f : Up(n, f)}
<1>1. WalkSteps = (CHOOSE f : Up(N, f))[N].steps
  BY DEF WalkSteps
<1> HIDE DEF Start, N
<1>2. 0 \in T
  <2>1. Up(0, [i \in 1..0 |-> Start])
    OBVIOUS
  <2> HIDE DEF Up
  <2> QED
    BY <2>1
<1>3. ASSUME NEW n \in Nat, n \in T PROVE n + 1 \in T
  <2>1. PICK f : Up(n, f)
    BY <1>3
  <2> DEFINE g == [i \in 1..(n + 1) |-> IF i = 1 THEN Start ELSE Grouped(f[i - 1], i)]
  <2>2. ASSUME NEW i \in 1..(n + 1), i # 1 PROVE f[i - 1] = g[i - 1]
    <3>1. i - 1 \in 1..n /\ i - 1 \in 1..(n + 1)
      BY <2>2
    <3>2. f[i - 1] = IF i - 1 = 1 THEN Start ELSE Grouped(f[i - 1 - 1], i - 1)
      BY <2>1, <3>1
    <3> QED
      BY <3>1, <3>2
  <2>3. g = [i \in 1..(n + 1) |-> IF i = 1 THEN Start ELSE Grouped(g[i - 1], i)]
    <3>1. \A i \in 1..(n + 1) :
             (IF i = 1 THEN Start ELSE Grouped(f[i - 1], i)) = (IF i = 1 THEN Start ELSE Grouped(g[i - 1], i))
      BY <2>2
    <3> QED
      BY <3>1
  <2> HIDE DEF g
  <2>4. Up(n + 1, g)
    BY <2>3
  <2> HIDE DEF Up
  <2> QED
    BY <2>4
<1>4. \E f : Up(N, f)
  <2> HIDE DEF Up
  <2>1. N \in T
    <3> HIDE DEF T
    <3> QED
      BY <1>2, <1>3, EveryNumber DEF N
  <2> QED
    BY <2>1
<1>5. PICK g : Up(N, g) /\ WalkSteps = g[N].steps
  <2> HIDE DEF Up
  <2> QED
    BY <1>1, <1>4
<1>6. N \in Nat \ {0}
  BY DEF N
<1>7. g[1] = Start
  BY <1>5, <1>6
<1>8. \A i \in 2..N : g[i] = Grouped(g[i - 1], i)
  BY <1>5, <1>6
<1> QED
  BY <1>5, <1>7, <1>8 DEF Start, N

\* What is read of a step.
StepsRead == [start : Nat, end : Nat, meters : Int]

\* What is known of the path where the directions are made.
Measured ==
    /\ Len(path) \in Nat \ {0} /\ GroupMeters \in Nat
    /\ \A i \in 1..Len(path) : dist[path[i]] \in Nat
    /\ dist[path[1]] = 0
    /\ \A i \in 1..(Len(path) - 1) : dist[path[i]] <= dist[path[i + 1]]

\* A step of the walk joins two nodes of the path.
Joins(s) ==
    /\ s.start \in 1..Len(path) /\ s.end \in 1..Len(path)
    /\ s.meters = dist[path[s.end]] - dist[path[s.start]]

\* The steps up to node i join on, and what is not in them is from start on.
GroupSound(group, i) ==
    /\ group \in [start : Nat, meters : Int, steps : Seq(StepsRead)]
    /\ group.start \in 1..i /\ group.meters = dist[path[i]] - dist[path[group.start]]
    /\ i = Len(path) => group.start = i
    /\ \A k \in 1..Len(group.steps) :
          /\ Joins(group.steps[k])
          /\ group.steps[k].meters >= GroupMeters \/ (k = Len(group.steps) /\ i = Len(path))
    /\ \A k \in 1..(Len(group.steps) - 1) : group.steps[k].end = group.steps[k + 1].start
    /\ IF Len(group.steps) = 0 THEN group.start = 1
       ELSE group.steps[1].start = 1 /\ group.steps[Len(group.steps)].end = group.start

\* One more edge.
LEMMA GroupGrows ==
    ASSUME Measured, NEW i \in 2..Len(path), NEW g, GroupSound(g, i - 1)
    PROVE  GroupSound(Grouped(g, i), i)
<1> DEFINE meters == g.meters + EdgeMeters(i)
           new == [start |-> g.start, end |-> i, meters |-> meters]
           q == g.steps
           r == Append(g.steps, new)
           n == Len(g.steps)
<1>1. /\ Len(path) \in Nat \ {0} /\ i \in Nat /\ i \in 1..Len(path) /\ i - 1 \in 1..Len(path) /\ i - 1 # Len(path)
      /\ dist[path[i]] \in Nat /\ dist[path[i - 1]] \in Nat /\ GroupMeters \in Nat
  BY DEF Measured
<1>2. /\ g.start \in 1..(i - 1) /\ g.meters = dist[path[i - 1]] - dist[path[g.start]]
      /\ q \in Seq(StepsRead) /\ n \in Nat
      /\ \A k \in 1..n : Joins(q[k]) /\ q[k].meters >= GroupMeters
      /\ \A k \in 1..(n - 1) : q[k].end = q[k + 1].start
      /\ IF n = 0 THEN g.start = 1 ELSE q[1].start = 1 /\ q[n].end = g.start
  BY <1>1, LenProperties DEF GroupSound
<1>3. g.start \in 1..Len(path) /\ g.start \in 1..i /\ dist[path[g.start]] \in Nat
  BY <1>1, <1>2 DEF Measured
<1>4. meters = dist[path[i]] - dist[path[g.start]] /\ meters \in Int
  <2>1. PICK d, e, f : d = dist[path[i]] /\ e = dist[path[i - 1]] /\ f = dist[path[g.start]]
    OBVIOUS
  <2>2. meters = (e - f) + (d - e)
    BY <1>2, <2>1 DEF EdgeMeters
  <2>3. d \in Nat /\ e \in Nat /\ f \in Nat
    BY <1>1, <1>3, <2>1
  <2>4. meters = d - f /\ d - f \in Int
    BY ONLY <2>2, <2>3
  <2> QED
    BY ONLY <2>1, <2>4, Zenon
<1>5. ASSUME NEW h, h \in [start : Nat, meters : Int, steps : Seq(StepsRead)],
             h.start = g.start, h.meters = meters, h.steps = q, i # Len(path)
      PROVE  GroupSound(h, i)
  BY <1>1, <1>2, <1>3, <1>4, <1>5 DEF GroupSound
<1>6. ASSUME NEW h, h \in [start : Nat, meters : Int, steps : Seq(StepsRead)],
             h.start = i, h.meters = 0, h.steps = r, meters >= GroupMeters \/ i = Len(path)
      PROVE  GroupSound(h, i)
  <2>1. /\ Len(r) = n + 1 /\ r[n + 1] = new /\ \A k \in 1..n : r[k] = q[k]
    BY <1>2
  <2>2. /\ new.start = g.start /\ new.end = i /\ new.meters = meters
    OBVIOUS
  <2>3. Joins(new)
    BY <1>1, <1>3, <1>4, <2>2 DEF Joins
  <2> HIDE DEF new, r, q, n, meters
  <2>4. ASSUME NEW k \in 1..Len(r)
        PROVE  Joins(r[k]) /\ (r[k].meters >= GroupMeters \/ (k = Len(r) /\ i = Len(path)))
    <3>1. CASE k = n + 1
      BY <1>6, <2>1, <2>2, <2>3, <3>1
    <3>2. CASE k # n + 1
      <4>1. k \in 1..n
        BY <1>2, <2>1, <3>2
      <4> QED
        BY <1>2, <2>1, <4>1
    <3> QED
      BY <3>1, <3>2
  <2>5. ASSUME NEW k \in 1..(Len(r) - 1) PROVE r[k].end = r[k + 1].start
    <3>1. k \in 1..n
      BY <1>2, <2>1
    <3>2. CASE k = n
      <4>1. q[n].end = g.start
        BY <1>2, <3>1, <3>2
      <4> QED
        BY <2>1, <2>2, <3>1, <3>2, <4>1
    <3>3. CASE k # n
      <4>1. k \in 1..(n - 1) /\ k + 1 \in 1..n
        BY <1>2, <3>1, <3>3
      <4> QED
        BY <1>2, <2>1, <4>1
    <3> QED
      BY <3>2, <3>3
  <2>6. r[1].start = 1 /\ r[Len(r)].end = i
    <3>1. CASE n = 0
      BY <1>2, <2>1, <2>2, <3>1
    <3>2. CASE n # 0
      <4>1. 1 \in 1..n
        BY <1>2, <3>2
      <4> QED
        BY <1>2, <2>1, <2>2, <3>2, <4>1
    <3> QED
      BY <3>1, <3>2
  <2>7. h.start \in 1..i /\ h.meters = dist[path[i]] - dist[path[h.start]] /\ Len(r) # 0
    BY <1>1, <1>2, <1>6, <2>1
  <2> QED
    BY <1>6, <2>4, <2>5, <2>6, <2>7 DEF GroupSound
<1>7. /\ r \in Seq(StepsRead) /\ g \in [start : Nat, meters : Int, steps : Seq(StepsRead)]
  <2>1. new \in StepsRead
    BY <1>1, <1>3, <1>4 DEF StepsRead
  <2>2. g \in [start : Nat, meters : Int, steps : Seq(StepsRead)]
    BY DEF GroupSound
  <2> HIDE DEF new
  <2> QED
    BY <1>2, <2>1, <2>2
<1>8. CASE meters >= GroupMeters \/ i = Len(path)
  <2> DEFINE h == [start |-> i, meters |-> 0, steps |-> r]
  <2>1. Grouped(g, i) = h
    BY <1>8 DEF Grouped
  <2>2. /\ h.start = i /\ h.meters = 0 /\ h.steps = r
    OBVIOUS
  <2>3. h \in [start : Nat, meters : Int, steps : Seq(StepsRead)]
    BY <1>1, <1>7
  <2> HIDE DEF h, r, meters
  <2> QED
    BY <1>6, <1>8, <2>1, <2>2, <2>3
<1>9. CASE ~(meters >= GroupMeters \/ i = Len(path))
  <2> DEFINE h == [g EXCEPT !.meters = meters]
  <2>1. Grouped(g, i) = h
    BY <1>9 DEF Grouped
  <2>2. /\ h \in [start : Nat, meters : Int, steps : Seq(StepsRead)]
        /\ h.start = g.start /\ h.meters = meters /\ h.steps = q
    BY <1>4, <1>7
  <2> HIDE DEF h, meters, q
  <2> QED
    BY <1>5, <1>9, <2>1, <2>2
<1> QED
  BY <1>8, <1>9

\* Once all edges are in, the steps join from the first node to the last.
LEMMA WalkStepsSound ==
    ASSUME Measured
    PROVE  \E g : WalkSteps = g.steps /\ GroupSound(g, Len(path))
<1> DEFINE N == Len(path)
<1>1. N \in Nat \ {0}
  BY DEF Measured
<1>2. PICK g : /\ WalkSteps = g[N].steps
               /\ g[1] = [start |-> 1, meters |-> 0, steps |-> <<>>]
               /\ \A i \in 2..N : g[i] = Grouped(g[i - 1], i)
  BY <1>1, WalkStepsGrow
<1>3. GroupSound(g[1], 1)
  <2>1. /\ g[1].start = 1 /\ g[1].meters = 0 /\ g[1].steps = <<>> /\ Len(<<>>) = 0
        /\ g[1] \in [start : Nat, meters : Int, steps : Seq(StepsRead)]
    BY <1>2
  <2>2. dist[path[1]] - dist[path[1]] = 0
    BY DEF Measured
  <2>3. 1..0 = {} /\ 1..(0 - 1) = {} /\ 1 \in 1..1
    OBVIOUS
  <2> QED
    BY <2>1, <2>2, <2>3 DEF GroupSound
<1> DEFINE T == {n \in Nat : n + 1 \in 1..N => GroupSound(g[n + 1], n + 1)}
<1> HIDE DEF N
<1>4. 0 \in T
  BY <1>3
<1>5. ASSUME NEW n \in Nat, n \in T PROVE n + 1 \in T
  <2>1. SUFFICES ASSUME n + 1 + 1 \in 1..N PROVE GroupSound(g[n + 1 + 1], n + 1 + 1)
    OBVIOUS
  <2>2. PICK i : i = n + 1 + 1
    OBVIOUS
  <2>3. i \in 2..N /\ i - 1 = n + 1 /\ n + 1 \in 1..N
    BY <1>1, <2>1, <2>2
  <2>4. GroupSound(g[i - 1], i - 1)
    BY <1>5, <2>3
  <2>5. GroupSound(Grouped(g[i - 1], i), i)
    <3>1. i \in 2..Len(path)
      BY <2>3 DEF N
    <3> QED
      BY <2>4, <3>1, GroupGrows
  <2> QED
    BY <1>2, <2>2, <2>3, <2>5
<1>6. GroupSound(g[N], N)
  <2> HIDE DEF T
  <2>1. N - 1 \in T /\ N - 1 + 1 = N /\ N \in 1..N
    BY <1>1, <1>4, <1>5, EveryNumber
  <2> QED
    BY <2>1 DEF T
<1> QED
  BY <1>2, <1>6 DEF N

\* What DirectionsLeadThere says of steps and points.
Directed(steps, points, sum) ==
    LET walk == {i \in DOMAIN steps : steps[i].start # 0 /\ steps[i].end # 0}
        startsAt(i) == points[steps[i].start + 1]
        endsAt(i) == points[IF steps[i].end = 0 THEN Len(points) ELSE steps[i].end + 1]
    IN  /\ IF steps = <<>> THEN sum = 0
           ELSE /\ steps[1].start \in {0, 1} /\ startsAt(1).meters = 0
                /\ steps[Len(steps)].end \in {0, Len(path)} /\ endsAt(Len(steps)).meters = sum
        /\ \A i \in 1..(Len(steps) - 1) : steps[i].end = steps[i + 1].start
        /\ \A i \in DOMAIN steps : steps[i].meters = endsAt(i).meters - startsAt(i).meters
        /\ \A i, j \in walk : i < j => steps[i].meters >= GroupMeters
        /\ points[1].at = from.at /\ points[Len(points)] = [at |-> to.at, meters |-> sum]
        /\ \A i \in 1..(Len(points) - 1) : points[i].meters <= points[i + 1].meters

\* The points of the directions and the metres up to them.
LEMMA PointsAre ==
    ASSUME Measured, NEW points, points = Points
    PROVE  /\ Len(points) = Len(path) + 2
           /\ points[1] = [at |-> from.at, meters |-> 0]
           /\ points[Len(points)] = [at |-> to.at, meters |-> dist[target] + FromSnap + ToSnap]
           /\ \A i \in 1..Len(path) : points[i + 1].meters = FromSnap + dist[path[i]]
<1> DEFINE N == Len(path)
           first == [at |-> from.at, meters |-> 0]
           last == [at |-> to.at, meters |-> dist[target] + FromSnap + ToSnap]
           graph == [i \in 1..N |-> [at |-> coords[path[i]], meters |-> FromSnap + dist[path[i]]]]
           R == {first, last} \cup {graph[i] : i \in 1..N}
<1>1. N \in Nat \ {0}
  BY DEF Measured
<1>2. points = (<<first>> \o graph) \o <<last>>
  BY DEF Points
<1>3. graph \in Seq(R) /\ Len(graph) = N
  <2>1. \A i \in 1..N : graph[i] \in R
    OBVIOUS
  <2> HIDE DEF R
  <2>2. graph \in [1..N -> R]
    BY <2>1
  <2> QED
    BY <1>1, <2>2, IsASeq, LenProperties
<1>4. \A i \in 1..N : graph[i].meters = FromSnap + dist[path[i]]
  OBVIOUS
<1> HIDE DEF graph, N
<1>5. <<first>> \in Seq(R) /\ <<last>> \in Seq(R) /\ Len(<<first>>) = 1 /\ Len(<<last>>) = 1
      /\ <<first>>[1] = first /\ <<last>>[1] = last
  <2>1. first \in R /\ last \in R
    OBVIOUS
  <2> HIDE DEF R, first, last
  <2> QED
    BY <2>1
<1> HIDE DEF R, first, last
<1>6. /\ Len(points) = 1 + N + 1
      /\ \A i \in 1..(1 + N + 1) :
            /\ i <= 1 => points[i] = <<first>>[i]
            /\ i > 1 /\ i <= 1 + N => points[i] = graph[i - 1]
            /\ i > 1 + N => points[i] = <<last>>[i - 1 - N]
  <2>1. PICK a, b, c : a = <<first>> /\ b = graph /\ c = <<last>>
    OBVIOUS
  <2>2. a \in Seq(R) /\ b \in Seq(R) /\ c \in Seq(R) /\ Len(a) = 1 /\ Len(b) = N /\ Len(c) = 1
    BY <1>3, <1>5, <2>1
  <2>3. points = (a \o b) \o c
    BY <1>2, <2>1
  <2>4. /\ Len(points) = Len(a) + Len(b) + Len(c)
        /\ \A i \in 1..(Len(a) + Len(b) + Len(c)) :
             /\ i <= Len(a) => points[i] = a[i]
             /\ i > Len(a) /\ i <= Len(a) + Len(b) => points[i] = b[i - Len(a)]
             /\ i > Len(a) + Len(b) => points[i] = c[i - Len(a) - Len(b)]
    <3>1. PICK r : r = R
      OBVIOUS
    <3>2. a \in Seq(r) /\ b \in Seq(r) /\ c \in Seq(r)
      BY <2>2, <3>1
    <3>3. /\ Len((a \o b) \o c) = Len(a) + Len(b) + Len(c)
          /\ \A i \in 1..(Len(a) + Len(b) + Len(c)) :
             /\ i <= Len(a) => ((a \o b) \o c)[i] = a[i]
             /\ i > Len(a) /\ i <= Len(a) + Len(b) => ((a \o b) \o c)[i] = b[i - Len(a)]
             /\ i > Len(a) + Len(b) => ((a \o b) \o c)[i] = c[i - Len(a) - Len(b)]
      BY ONLY <3>2, Joined, SMT
    <3> QED
      BY ONLY <2>3, <3>3, Zenon
  <2>5. /\ Len(points) = 1 + N + 1
        /\ \A i \in 1..(1 + N + 1) :
             /\ i <= 1 => points[i] = a[i]
             /\ i > 1 /\ i <= 1 + N => points[i] = b[i - 1]
             /\ i > 1 + N => points[i] = c[i - 1 - N]
    BY ONLY <2>2, <2>4, Zenon
  <2> QED
    BY <2>1, <2>5, Zenon
<1>7. points[1] = first
  BY <1>1, <1>5, <1>6
<1>8. points[Len(points)] = last
  <2>1. PICK k : k = 1 + N + 1
    OBVIOUS
  <2>2. k \in 1..(1 + N + 1) /\ k > 1 + N /\ k - 1 - N = 1
    BY <1>1, <2>1
  <2>3. points[k] = <<last>>[k - 1 - N]
    BY <1>6, <2>2
  <2> QED
    BY <1>5, <1>6, <2>1, <2>2, <2>3
<1>9. ASSUME NEW i \in 1..N PROVE points[i + 1].meters = FromSnap + dist[path[i]]
  <2>1. i + 1 \in 1..(1 + N + 1) /\ i + 1 > 1 /\ i + 1 <= 1 + N /\ i + 1 - 1 = i
    BY <1>1
  <2> QED
    BY <1>4, <1>6, <2>1
<1>10. Len(points) = N + 2
  BY <1>1, <1>6
<1> QED
  BY <1>7, <1>8, <1>9, <1>10 DEF first, last, N

\* Steps that lead from the address over the walk w to the address, where a and
\* b say whether there is a way to the path and one from it.
Built(s, a, w, b) ==
    LET N == Len(path)
        l == Len(w)
    IN  /\ w \in Seq(StepsRead) /\ s \in Seq(StepsRead)
        /\ a \in {0, 1} /\ b \in {0, 1} /\ Len(s) = a + l + b
        /\ a = 0 => FromSnap = 0
        /\ a = 1 => s[1].start = 0 /\ s[1].end = 1 /\ s[1].meters = FromSnap
        /\ b = 0 => ToSnap = 0
        /\ b = 1 => s[a + l + b].start = N /\ s[a + l + b].end = 0 /\ s[a + l + b].meters = ToSnap
        /\ \A k \in 1..l : s[a + k] = w[k] /\ Joins(w[k])
        /\ \A k \in 1..l : k # l => w[k].meters >= GroupMeters
        /\ \A k \in 1..(l - 1) : w[k].end = w[k + 1].start
        /\ IF l = 0 THEN N = 1 ELSE w[1].start = 1 /\ w[l].end = N

\* The steps are built so.
LEMMA StepsAreBuilt ==
    ASSUME Measured, FromSnap \in Nat, ToSnap \in Nat
    PROVE  \E a, w, b : Built(Steps, a, w, b)
<1> DEFINE N == Len(path)
           x == [start |-> 0, end |-> 1, meters |-> FromSnap]
           y == [start |-> N, end |-> 0, meters |-> ToSnap]
<1>1. N \in Nat \ {0}
  BY DEF Measured
<1>2. PICK g : WalkSteps = g.steps /\ GroupSound(g, N)
  BY WalkStepsSound
<1>3. PICK w : w = g.steps
  OBVIOUS
<1>4. /\ w \in Seq(StepsRead) /\ g.start = N
      /\ \A k \in 1..Len(w) : Joins(w[k]) /\ (w[k].meters >= GroupMeters \/ k = Len(w))
      /\ \A k \in 1..(Len(w) - 1) : w[k].end = w[k + 1].start
      /\ IF Len(w) = 0 THEN N = 1 ELSE w[1].start = 1 /\ w[Len(w)].end = N
  BY <1>1, <1>2, <1>3 DEF GroupSound
<1>5. x \in StepsRead /\ y \in StepsRead
  BY <1>1 DEF StepsRead
<1> HIDE DEF x, y, N
<1>6. \E u, a : /\ u = (IF FromSnap # 0 THEN <<x>> ELSE <<>>) /\ u \in Seq(StepsRead) /\ Len(u) = a /\ a \in {0, 1}
                /\ a = 0 => FromSnap = 0
                /\ a = 1 => u[1] = x
  <2>1. CASE FromSnap # 0
    <3>1. PICK u : u = <<x>>
      OBVIOUS
    <3>2. u \in Seq(StepsRead) /\ Len(u) = 1 /\ u[1] = x
      BY <1>5, <3>1
    <3>3. u = IF FromSnap # 0 THEN <<x>> ELSE <<>>
      BY <2>1, <3>1
    <3>4. 1 \in {0, 1} /\ 1 # 0
      OBVIOUS
    <3> QED
      BY ONLY <3>2, <3>3, <3>4, Zenon
  <2>2. CASE FromSnap = 0
    <3>1. PICK u : u = <<>>
      OBVIOUS
    <3>2. u \in Seq(StepsRead) /\ Len(u) = 0
      BY <3>1
    <3>3. u = IF FromSnap # 0 THEN <<x>> ELSE <<>>
      BY <2>2, <3>1
    <3>4. 0 \in {0, 1} /\ 0 # 1
      OBVIOUS
    <3> QED
      BY ONLY <2>2, <3>2, <3>3, <3>4, Zenon
  <2> QED
    BY <2>1, <2>2
<1>7. \E v, b : /\ v = (IF ToSnap # 0 THEN <<y>> ELSE <<>>) /\ v \in Seq(StepsRead) /\ Len(v) = b /\ b \in {0, 1}
                /\ b = 0 => ToSnap = 0
                /\ b = 1 => v[1] = y
  <2>1. CASE ToSnap # 0
    <3>1. PICK v : v = <<y>>
      OBVIOUS
    <3>2. v \in Seq(StepsRead) /\ Len(v) = 1 /\ v[1] = y
      BY <1>5, <3>1
    <3>3. v = IF ToSnap # 0 THEN <<y>> ELSE <<>>
      BY <2>1, <3>1
    <3>4. 1 \in {0, 1} /\ 1 # 0
      OBVIOUS
    <3> QED
      BY ONLY <3>2, <3>3, <3>4, Zenon
  <2>2. CASE ToSnap = 0
    <3>1. PICK v : v = <<>>
      OBVIOUS
    <3>2. v \in Seq(StepsRead) /\ Len(v) = 0
      BY <3>1
    <3>3. v = IF ToSnap # 0 THEN <<y>> ELSE <<>>
      BY <2>2, <3>1
    <3>4. 0 \in {0, 1} /\ 0 # 1
      OBVIOUS
    <3> QED
      BY ONLY <2>2, <3>2, <3>3, <3>4, Zenon
  <2> QED
    BY <2>1, <2>2
<1>8. PICK u, a : /\ u = (IF FromSnap # 0 THEN <<x>> ELSE <<>>) /\ u \in Seq(StepsRead) /\ Len(u) = a /\ a \in {0, 1}
                  /\ a = 0 => FromSnap = 0
                  /\ a = 1 => u[1] = x
  BY <1>6
<1>9. PICK v, b : /\ v = (IF ToSnap # 0 THEN <<y>> ELSE <<>>) /\ v \in Seq(StepsRead) /\ Len(v) = b /\ b \in {0, 1}
                  /\ b = 0 => ToSnap = 0
                  /\ b = 1 => v[1] = y
  BY <1>7
<1>10. Steps = (u \o w) \o v
  BY <1>2, <1>3, <1>8, <1>9 DEF Steps, x, y, N
<1>11. u \in Seq(StepsRead) /\ w \in Seq(StepsRead) /\ v \in Seq(StepsRead)
  BY <1>4, <1>8, <1>9
<1>12. PICK s, r : s = (u \o w) \o v /\ r = StepsRead
  OBVIOUS
<1>13. /\ Len(u) \in Nat /\ Len(w) \in Nat /\ Len(v) \in Nat
       /\ s \in Seq(StepsRead) /\ Len(s) = Len(u) + Len(w) + Len(v)
       /\ \A i \in 1..(Len(u) + Len(w) + Len(v)) :
             /\ i <= Len(u) => s[i] = u[i]
             /\ i > Len(u) /\ i <= Len(u) + Len(w) => s[i] = w[i - Len(u)]
             /\ i > Len(u) + Len(w) => s[i] = v[i - Len(u) - Len(w)]
  <2>1. u \in Seq(r) /\ w \in Seq(r) /\ v \in Seq(r)
    BY <1>11, <1>12
  <2>2. /\ Len(u) \in Nat /\ Len(w) \in Nat /\ Len(v) \in Nat
        /\ (u \o w) \o v \in Seq(r) /\ Len((u \o w) \o v) = Len(u) + Len(w) + Len(v)
        /\ \A i \in 1..(Len(u) + Len(w) + Len(v)) :
             /\ i <= Len(u) => ((u \o w) \o v)[i] = u[i]
             /\ i > Len(u) /\ i <= Len(u) + Len(w) => ((u \o w) \o v)[i] = w[i - Len(u)]
             /\ i > Len(u) + Len(w) => ((u \o w) \o v)[i] = v[i - Len(u) - Len(w)]
    BY ONLY <2>1, Joined, SMT
  <2> QED
    BY ONLY <1>12, <2>2, Zenon
<1>14. PICK l : l = Len(w)
  OBVIOUS
<1>15. /\ a \in Nat /\ l \in Nat /\ b \in Nat /\ Len(s) = a + l + b
       /\ \A i \in 1..(a + l + b) :
             /\ i <= a => s[i] = u[i]
             /\ i > a /\ i <= a + l => s[i] = w[i - a]
             /\ i > a + l => s[i] = v[i - a - l]
  <2>1. a \in Nat /\ b \in Nat
    BY <1>8, <1>9
  <2> QED
    BY ONLY <1>8, <1>9, <1>13, <1>14, <2>1, Zenon
<1>16. a = 1 => s[1] = x
  BY <1>8, <1>15
<1>17. b = 1 => s[a + l + b] = y
  <2>1. SUFFICES ASSUME b = 1 PROVE s[a + l + b] = y
    OBVIOUS
  <2>2. PICK k : k = a + l + b
    OBVIOUS
  <2>3. k \in 1..(a + l + b) /\ k > a + l /\ k - a - l = 1
    BY <1>15, <2>1, <2>2
  <2>4. s[k] = v[k - a - l]
    BY <1>15, <2>3
  <2> QED
    BY <1>9, <2>1, <2>2, <2>3, <2>4
<1>18. ASSUME NEW k \in 1..l PROVE s[a + k] = w[k]
  <2>1. a + k \in 1..(a + l + b) /\ a + k > a /\ a + k <= a + l /\ a + k - a = k
    BY <1>15
  <2> QED
    BY <1>15, <2>1
<1>19. /\ x.start = 0 /\ x.end = 1 /\ x.meters = FromSnap
       /\ y.start = N /\ y.end = 0 /\ y.meters = ToSnap
  BY DEF x, y
<1>20. Built(s, a, w, b)
  BY <1>4, <1>8, <1>9, <1>11, <1>13, <1>14, <1>15, <1>16, <1>17, <1>18, <1>19 DEF Built, N
<1> QED
  BY <1>10, <1>12, <1>20

\* Steps built so lead from address to address.
LEMMA BuiltLeads ==
    ASSUME Measured, path[Len(path)] = target, FromSnap \in Nat, ToSnap \in Nat,
           NEW s, NEW a, NEW w, NEW b, Built(s, a, w, b)
    PROVE  Directed(s, Points, dist[target] + FromSnap + ToSnap)
<1> DEFINE N == Len(path)
           l == Len(w)
           D(i) == dist[path[i]]
           F == FromSnap
           Z == ToSnap
           sum == dist[target] + FromSnap + ToSnap
           startsAt(i) == Points[s[i].start + 1]
           endsAt(i) == Points[IF s[i].end = 0 THEN Len(Points) ELSE s[i].end + 1]
           begin(i) == startsAt(i).meters
           finish(i) == endsAt(i).meters
<1>1. /\ N \in Nat \ {0} /\ F \in Nat /\ Z \in Nat /\ GroupMeters \in Nat
      /\ D(1) = 0 /\ D(N) = dist[target]
      /\ \A i \in 1..N : D(i) \in Nat
      /\ \A i \in 1..(N - 1) : D(i) <= D(i + 1)
  BY DEF Measured
<1>2. /\ Len(Points) = N + 2
      /\ Points[1].at = from.at /\ Points[1].meters = 0
      /\ Points[Len(Points)] = [at |-> to.at, meters |-> sum] /\ Points[Len(Points)].meters = sum
      /\ \A i \in 1..N : Points[i + 1].meters = F + D(i)
  <2>1. PICK p : p = Points
    OBVIOUS
  <2>2. /\ Len(p) = N + 2
        /\ p[1] = [at |-> from.at, meters |-> 0]
        /\ p[Len(p)] = [at |-> to.at, meters |-> sum]
        /\ \A i \in 1..N : p[i + 1].meters = F + D(i)
    BY <2>1, PointsAre
  <2> QED
    BY <2>1, <2>2
<1>3. /\ w \in Seq(StepsRead) /\ s \in Seq(StepsRead) /\ l \in Nat
      /\ a \in {0, 1} /\ b \in {0, 1} /\ Len(s) = a + l + b
      /\ a = 0 => F = 0
      /\ a = 1 => s[1].start = 0 /\ s[1].end = 1 /\ s[1].meters = F
      /\ b = 0 => Z = 0
      /\ b = 1 => s[a + l + b].start = N /\ s[a + l + b].end = 0 /\ s[a + l + b].meters = Z
      /\ \A k \in 1..l : s[a + k] = w[k]
      /\ \A k \in 1..l : /\ w[k].start \in 1..N /\ w[k].end \in 1..N
                         /\ w[k].meters = D(w[k].end) - D(w[k].start)
      /\ \A k \in 1..l : k # l => w[k].meters >= GroupMeters
      /\ \A k \in 1..(l - 1) : w[k].end = w[k + 1].start
      /\ IF l = 0 THEN N = 1 ELSE w[1].start = 1 /\ w[l].end = N
  BY LenProperties DEF Built, Joins
<1>4. sum = D(N) + F + Z /\ sum \in Nat
  BY <1>1
<1>5. ASSUME NEW i, s[i].start = 0 PROVE begin(i) = 0
  BY <1>2, <1>5
<1>6. ASSUME NEW i, NEW k \in 1..N, s[i].start = k PROVE begin(i) = F + D(k)
  BY <1>2, <1>6
<1>7. ASSUME NEW i, s[i].end = 0 PROVE finish(i) = sum
  BY <1>2, <1>7
<1>8. ASSUME NEW i, NEW k \in 1..N, s[i].end = k PROVE finish(i) = F + D(k)
  BY <1>2, <1>8
<1>9. /\ 1 \in 1..N /\ N \in 1..N
  BY <1>1
<1> HIDE DEF N, l, D, F, Z, sum, begin, finish
<1>num. /\ l \in Nat /\ a \in Nat /\ b \in Nat /\ a \in {0, 1} /\ b \in {0, 1} /\ Len(s) = a + l + b
        /\ a = 0 => F = 0
        /\ b = 0 => Z = 0
  BY <1>3
<1>walk. \A k \in 1..l : s[a + k] = w[k]
  BY <1>3
<1>join. \A k \in 1..l : w[k].start \in 1..N /\ w[k].end \in 1..N /\ w[k].meters = D(w[k].end) - D(w[k].start)
  BY <1>3
<1>chain. \A k \in 1..(l - 1) : w[k].end = w[k + 1].start
  BY <1>3
<1>whole. IF l = 0 THEN N = 1 ELSE w[1].start = 1 /\ w[l].end = N
  BY <1>3
<1>10. ASSUME a = 1 PROVE begin(1) = 0 /\ finish(1) = F
  <2>1. s[1].start = 0 /\ s[1].end = 1
    BY <1>3, <1>10
  <2> QED
    BY <1>1, <1>5, <1>8, <1>9, <2>1
<1>11. ASSUME b = 1 PROVE begin(Len(s)) = F + D(N) /\ finish(Len(s)) = sum
  <2>1. s[Len(s)].start = N /\ s[Len(s)].end = 0
    BY <1>3, <1>11
  <2> QED
    BY <1>6, <1>7, <1>9, <2>1
<1>12. ASSUME NEW k \in 1..l
       PROVE  begin(a + k) = F + D(w[k].start) /\ finish(a + k) = F + D(w[k].end)
  <2>1. s[a + k] = w[k] /\ w[k].start \in 1..N /\ w[k].end \in 1..N
    BY <1>walk, <1>join
  <2> QED
    BY <1>6, <1>8, <2>1
<1>13. ASSUME NEW i \in 1..Len(s), i # 1 \/ a = 0, i # Len(s) \/ b = 0
       PROVE  \E k \in 1..l : i = a + k
  <2>1. i - a \in 1..l /\ i = a + (i - a)
    BY <1>num, <1>13
  <2> QED
    BY <2>1
<1>14. ASSUME s = <<>> PROVE sum = 0
  <2>1. Len(s) = 0
    BY <1>14
  <2>2. a = 0 /\ b = 0 /\ l = 0
    BY <1>3, <2>1
  <2> QED
    BY <1>1, <1>3, <1>4, <2>2
<1>15. ASSUME s # <<>>
       PROVE  /\ s[1].start \in {0, 1} /\ begin(1) = 0
              /\ s[Len(s)].end \in {0, N} /\ finish(Len(s)) = sum
  <2>1. Len(s) # 0
    BY <1>3, <1>15, EmptySeq
  <2>2. s[1].start \in {0, 1} /\ begin(1) = 0
    <3>1. CASE a = 1
      BY <1>3, <1>10, <3>1
    <3>2. CASE a = 0 /\ l = 0
      <4>1. b = 1 /\ Len(s) = 1 /\ N = 1 /\ F = 0
        BY <1>num, <1>whole, <2>1, <3>2
      <4>2. s[Len(s)].start = N
        BY <1>3, <4>1
      <4> QED
        BY <1>1, <1>11, <4>1, <4>2
    <3>3. CASE a = 0 /\ l # 0
      <4>1. 1 \in 1..l /\ a + 1 = 1 /\ F = 0 /\ w[1].start = 1
        BY <1>num, <1>whole, <3>3
      <4>2. begin(1) = F + D(1)
        BY <1>12, <4>1
      <4>3. s[1] = w[1]
        BY <1>walk, <4>1
      <4> QED
        BY <1>1, <4>1, <4>2, <4>3
    <3> QED
      BY <1>3, <3>1, <3>2, <3>3
  <2>3. s[Len(s)].end \in {0, N} /\ finish(Len(s)) = sum
    <3>1. CASE b = 1
      BY <1>3, <1>11, <3>1
    <3>2. CASE b = 0 /\ l = 0
      <4>1. a = 1 /\ Len(s) = 1 /\ N = 1 /\ Z = 0
        BY <1>num, <1>whole, <2>1, <3>2
      <4>2. s[Len(s)].end = 1 /\ finish(1) = F
        BY <1>3, <1>10, <4>1
      <4>3. F = D(N) + F + Z
        BY <1>1, <4>1
      <4> QED
        BY <1>4, <4>1, <4>2, <4>3
    <3>3. CASE b = 0 /\ l # 0
      <4>1. l \in 1..l /\ a + l = Len(s) /\ Z = 0 /\ w[l].end = N
        BY <1>num, <1>whole, <3>3
      <4>2. finish(Len(s)) = F + D(N)
        BY <1>12, <4>1
      <4>3. s[Len(s)] = w[l]
        BY <1>walk, <4>1
      <4> QED
        BY <1>1, <1>4, <4>1, <4>2, <4>3
    <3> QED
      BY <1>3, <3>1, <3>2, <3>3
  <2> QED
    BY <2>2, <2>3
<1>16. ASSUME NEW i \in 1..(Len(s) - 1) PROVE s[i].end = s[i + 1].start
  <2>1. i \in 1..Len(s) /\ i + 1 \in 1..Len(s) /\ i # Len(s) /\ i + 1 # 1
    BY <1>num
  <2>2. i + 1 = Len(s) /\ b = 1 => s[i + 1].start = N
    BY <1>3
  <2>3. CASE i = 1 /\ a = 1
    <3>1. s[i].end = 1
      BY <1>3, <2>3
    <3>2. CASE l = 0
      <4>1. b = 1 /\ i + 1 = Len(s) /\ N = 1
        BY <1>num, <1>whole, <2>1, <2>3, <3>2
      <4> QED
        BY <2>2, <3>1, <4>1
    <3>3. CASE l # 0
      <4>1. 1 \in 1..l /\ i + 1 = a + 1 /\ w[1].start = 1
        BY <1>num, <1>whole, <2>3, <3>3
      <4>2. s[a + 1] = w[1]
        BY <1>walk, <4>1
      <4> QED
        BY <3>1, <4>1, <4>2
    <3> QED
      BY <3>2, <3>3
  <2>4. CASE i # 1 \/ a = 0
    <3>1. PICK k \in 1..l : i = a + k
      BY <1>13, <2>1, <2>4
    <3>2. s[i] = w[k]
      BY <1>walk, <3>1
    <3>3. CASE k = l
      <4>1. b = 1 /\ i + 1 = Len(s) /\ l # 0
        BY <1>num, <2>1, <3>1, <3>3
      <4>2. w[l].end = N
        BY <1>whole, <4>1
      <4> QED
        BY <2>2, <3>2, <3>3, <4>1, <4>2
    <3>4. CASE k # l
      <4>1. k \in 1..(l - 1) /\ k + 1 \in 1..l /\ i + 1 = a + (k + 1)
        <5>1. l \in Nat /\ a \in Nat
          BY <1>num
        <5> QED
          BY ONLY <3>1, <3>4, <5>1
      <4>2. s[i + 1] = w[k + 1]
        BY <1>walk, <4>1
      <4>3. w[k].end = w[k + 1].start
        BY <1>chain, <4>1
      <4> QED
        BY <3>2, <4>2, <4>3
    <3> QED
      BY <3>3, <3>4
  <2> QED
    BY <1>num, <2>3, <2>4
<1>17. ASSUME NEW i \in 1..Len(s) PROVE s[i].meters = finish(i) - begin(i)
  <2>1. CASE i = 1 /\ a = 1
    BY <1>1, <1>3, <1>10, <2>1
  <2>2. CASE i = Len(s) /\ b = 1
    <3>1. s[i].meters = Z
      BY <1>3, <2>2
    <3> QED
      BY <1>1, <1>4, <1>9, <1>11, <2>2, <3>1
  <2>3. CASE (i # 1 \/ a = 0) /\ (i # Len(s) \/ b = 0)
    <3>1. PICK k \in 1..l : i = a + k
      BY <1>13, <2>3
    <3>2. s[i] = w[k] /\ w[k].start \in 1..N /\ w[k].end \in 1..N /\ w[k].meters = D(w[k].end) - D(w[k].start)
      BY <1>walk, <1>join, <3>1
    <3>3. begin(i) = F + D(w[k].start) /\ finish(i) = F + D(w[k].end)
      BY <1>12, <3>1
    <3>4. D(w[k].start) \in Nat /\ D(w[k].end) \in Nat
      BY <1>1, <3>2
    <3> QED
      BY <1>1, <3>2, <3>3, <3>4
  <2> QED
    BY <1>num, <2>1, <2>2, <2>3
<1>18. ASSUME NEW i \in 1..Len(s), NEW j \in 1..Len(s), i < j, s[i].start # 0, s[i].end # 0,
              s[j].start # 0, s[j].end # 0
       PROVE  s[i].meters >= GroupMeters
  <2>1. (i # 1 \/ a = 0) /\ (i # Len(s) \/ b = 0) /\ (j # 1 \/ a = 0) /\ (j # Len(s) \/ b = 0)
    BY <1>3, <1>18
  <2>2. PICK k \in 1..l : i = a + k
    BY <1>13, <2>1
  <2>3. PICK m \in 1..l : j = a + m
    BY <1>13, <2>1
  <2>4. k # l
    BY <1>3, <1>18, <2>2, <2>3
  <2> QED
    BY <1>3, <2>2, <2>4
<1>19. ASSUME NEW i \in 1..(Len(Points) - 1) PROVE Points[i].meters <= Points[i + 1].meters
  <2>1. i \in 1..(N + 1)
    BY <1>1, <1>2
  <2>2. CASE i = 1
    BY <1>1, <1>2, <1>9, <2>2
  <2>3. CASE i \in 2..N
    <3>1. i - 1 \in 1..(N - 1) /\ i - 1 \in 1..N /\ i - 1 + 1 = i /\ i \in 1..N
      BY <1>1, <2>3
    <3>2. Points[i].meters = F + D(i - 1) /\ Points[i + 1].meters = F + D(i)
      BY <1>2, <3>1
    <3>3. D(i - 1) \in Nat /\ D(i) \in Nat /\ D(i - 1) <= D(i)
      BY <1>1, <3>1
    <3> QED
      BY <1>1, <3>2, <3>3
  <2>4. CASE i = N + 1
    <3>1. Points[i].meters = F + D(N) /\ Points[i + 1].meters = sum
      <4>1. i + 1 = Len(Points)
        BY <1>1, <1>2, <2>4
      <4> QED
        BY <1>2, <1>9, <2>4, <4>1
    <3> QED
      BY <1>1, <1>4, <1>9, <3>1
  <2> QED
    BY <1>1, <2>1, <2>2, <2>3, <2>4
<1>20. DOMAIN s = 1..Len(s)
  BY <1>3, LenProperties
<1> HIDE DEF startsAt, endsAt
<1>21. /\ IF s = <<>> THEN sum = 0
          ELSE /\ s[1].start \in {0, 1} /\ startsAt(1).meters = 0
               /\ s[Len(s)].end \in {0, N} /\ endsAt(Len(s)).meters = sum
       /\ \A i \in 1..(Len(s) - 1) : s[i].end = s[i + 1].start
       /\ \A i \in DOMAIN s : s[i].meters = endsAt(i).meters - startsAt(i).meters
       /\ \A i, j \in {i \in DOMAIN s : s[i].start # 0 /\ s[i].end # 0} : i < j => s[i].meters >= GroupMeters
       /\ Points[1].at = from.at /\ Points[Len(Points)] = [at |-> to.at, meters |-> sum]
       /\ \A i \in 1..(Len(Points) - 1) : Points[i].meters <= Points[i + 1].meters
  <2>1. IF s = <<>> THEN sum = 0
        ELSE /\ s[1].start \in {0, 1} /\ startsAt(1).meters = 0
             /\ s[Len(s)].end \in {0, N} /\ endsAt(Len(s)).meters = sum
    BY <1>14, <1>15 DEF begin, finish
  <2>2. \A i \in DOMAIN s : s[i].meters = endsAt(i).meters - startsAt(i).meters
    BY <1>17, <1>20 DEF begin, finish
  <2>3. \A i, j \in {i \in DOMAIN s : s[i].start # 0 /\ s[i].end # 0} : i < j => s[i].meters >= GroupMeters
    BY <1>18, <1>20
  <2> QED
    BY <1>2, <1>16, <1>19, <2>1, <2>2, <2>3
<1> QED
  BY <1>21 DEF Directed, startsAt, endsAt, sum, N

\* The directions of a measured path lead from address to address.
LEMMA StepsLead ==
    ASSUME Measured, path[Len(path)] = target, FromSnap \in Nat, ToSnap \in Nat
    PROVE  Directed(Steps, Points, dist[target] + FromSnap + ToSnap)
<1>1. PICK a, w, b : Built(Steps, a, w, b)
  BY StepsAreBuilt
<1>2. PICK s : s = Steps
  OBVIOUS
<1>3. Directed(s, Points, dist[target] + FromSnap + ToSnap)
  BY <1>1, <1>2, BuiltLeads
<1> QED
  BY <1>2, <1>3

\* Directions that are shown stay those of the path.
ShownSound ==
    shown # NotShown =>
        /\ phase \in {"transit", "done", "garbled", "crashed"}
        /\ Directed(shown.steps, shown.points, total)

\* Where the answer is made, the path is measured.
LEMMA PathIsMeasured ==
    ASSUME WalkingInv, phase = "search", step = "done"
    PROVE  Measured /\ path[Len(path)] = target /\ FromSnap \in Nat /\ ToSnap \in Nat
<1>1. Mapped /\ from.at \in Coords /\ to.at \in Coords
  BY DEF WalkingInv
<1>2. Chart /\ Route(path)
  BY <1>1 DEF Mapped
<1>3. Running /\ Graph
  BY <1>1 DEF Mapped, SearchInv, SearchIdle
<1>4. dist \in [Nodes -> Nat] /\ dist[source] = 0 /\ source \in Nodes /\ target \in Nodes
  BY <1>3 DEF Running, Types, DistancesAreReal, Graph
<1>5. path \in Seq(Nodes) /\ Len(path) \in Nat \ {0} /\ path[1] = source /\ path[Len(path)] = target
  BY <1>2, LenProperties DEF Route
<1>6. \A i \in 1..Len(path) : path[i] \in Nodes /\ dist[path[i]] \in Nat
  <2>1. \A i \in 1..Len(path) : path[i] \in Nodes
    BY <1>5, ElementOfSeq
  <2> QED
    BY <1>4, <2>1
<1>7. ASSUME NEW i \in 1..(Len(path) - 1) PROVE dist[path[i]] <= dist[path[i + 1]]
  <2>1. i \in 1..Len(path)
    BY <1>5
  <2>2. PICK e \in EdgesOf(path[i]) : e.to = path[i + 1] /\ dist[path[i + 1]] = dist[path[i]] + e.meters
    BY <1>2 DEF Route
  <2>3. dist[path[i]] \in Nat /\ e.meters \in Nat
    BY <1>2, <1>6, <2>1, EdgeIsWay
  <2> QED
    BY <2>2, <2>3
<1>8. FromSnap \in Nat /\ ToSnap \in Nat
  <2>1. coords[source] \in Coords /\ coords[target] \in Coords
    BY <1>2, <1>4, LenProperties DEF Chart, Nodes
  <2> QED
    BY <1>1, <2>1, RouteGraphAssumption DEF FromSnap, ToSnap
<1> QED
  BY <1>4, <1>5, <1>6, <1>7, <1>8, RouteQueryAssumption DEF Measured

\* The answer shows the directions of the path.
LEMMA AnswerShows ==
    ASSUME WalkingInv, ShownSound, Answer
    PROVE  ShownSound'
<1>1. phase = "search" /\ UNCHANGED <<path, from, to>>
  BY DEF Answer, searchVars, labelVars, graphVars, heapVars
<1>2. shown = NotShown
  BY <1>1 DEF ShownSound
<1>3. SUFFICES ASSUME shown' # NotShown PROVE ShownSound'
  BY DEF ShownSound
<1>4. /\ step = "done" /\ total' = dist[target] + FromSnap + ToSnap
      /\ shown' = [points |-> Points, steps |-> Steps]
      /\ phase' \in {"transit", "done", "garbled", "crashed"}
  BY <1>2, <1>3 DEF Answer, Ended
<1>5. Directed(Steps, Points, dist[target] + FromSnap + ToSnap)
  BY <1>1, <1>4, PathIsMeasured, StepsLead
<1>6. shown'.steps = Steps /\ shown'.points = Points
  BY <1>4
<1>7. Directed(shown.steps, shown.points, total)'
  BY <1>1, <1>4, <1>5, <1>6 DEF Directed
<1> QED
  BY <1>4, <1>7 DEF ShownSound

\* Nothing else changes what is shown, nor the path once it is.
LEMMA ShownStays ==
    ASSUME ShownSound,
           \/ ReadTimetable \/ Resolve \/ Check \/ Load \/ LoadGivesUp \/ Snap \/ Search
           \/ Suggest \/ Suggested \/ SuggestUnfilled \/ Done \/ UNCHANGED vars
    PROVE  ShownSound'
<1>1. CASE shown = NotShown
  <2>1. shown' = shown
    BY DEF ReadTimetable, Resolve, Check, Load, LoadGivesUp, Snap, Search, Suggest, Suggested, SuggestUnfilled, Done, vars, queryVars,
           Ended
  <2> QED
    BY <1>1, <2>1 DEF ShownSound
<1>2. CASE shown # NotShown
  <2>1. phase \in {"transit", "done", "garbled", "crashed"} /\ Directed(shown.steps, shown.points, total)
    BY <1>2 DEF ShownSound
  <2>2. Suggest \/ Suggested \/ SuggestUnfilled \/ Done \/ UNCHANGED vars
    BY <2>1 DEF ReadTimetable, Resolve, Check, Load, LoadGivesUp, Snap, Search
  <2>3. UNCHANGED <<path, from, to, shown, total>> /\ phase' \in {"transit", "done", "garbled", "crashed"}
    BY <2>1, <2>2 DEF Suggest, Suggested, SuggestUnfilled, Done, vars, queryVars, searchVars, labelVars, graphVars, heapVars
  <2>4. Directed(shown.steps, shown.points, total)'
    BY <2>1, <2>3 DEF Directed
  <2> QED
    BY <2>3, <2>4 DEF ShownSound
<1> QED
  BY <1>1, <1>2

\* Directions that a query shows are those of its path (write_human_route and
\* json_write_route_geometry_and_steps, before the suggestion is searched for).
THEOREM ShownInvariant == Spec => []ShownSound
<1>1. Init => ShownSound
  BY DEF Init, ShownSound
<1>2. WalkingInv /\ ShownSound /\ [Next]_vars => ShownSound'
  BY AnswerShows, ShownStays DEF Next
<1> QED
  BY <1>1, <1>2, WalkingInvariant, PTL DEF Spec

\* What ShownSound says once the query is done.
LEMMA ShownLeads == ShownSound => DirectionsLeadThere
BY DEF ShownSound, Directed, DirectionsLeadThere

\* Directions lead from address to address over the path: every step starts where the one
\* before has ended and has the metres between the points it joins, for every length of a step.
THEOREM DirectionsLead == Spec => []DirectionsLeadThere
BY ShownInvariant, ShownLeads, PTL
====
