--------------------------- MODULE MCWalkingGraph ---------------------------
(***************************************************************************)
(* Maps for WalkingGraph: three tiles, four nodes, up to two ways.         *)
(***************************************************************************)
EXTENDS WalkingGraph

Way(walkable, refs) == [walkable |-> walkable, refs |-> refs]

\* A way within and across tiles, one that returns to its start, one that
\* stands still, one that is not walkable, one too short for a segment.
WaySets == {
    <<Way(TRUE, <<1, 2, 3>>), Way(TRUE, <<3, 4>>)>>,
    <<Way(TRUE, <<1, 2, 1, 3, 1>>)>>,
    <<Way(TRUE, <<1, 1, 2>>), Way(FALSE, <<2, 3, 4>>), Way(TRUE, <<2, 4>>)>>,
    <<Way(TRUE, <<1>>), Way(TRUE, <<4, 3, 2, 1>>)>>,
    <<Way(FALSE, <<1, 2>>)>>,
    <<>> }

\* Node 1 lies in the first tile, nodes 3 and 4 in any or not in the PBF.
Homes == {h \in [1..4 -> Tiles \cup {NoTile}] : h[1] = 0 /\ h[2] \in {0, 1}}

SmallMaps == {[ways |-> w, home |-> h] : w \in WaySets, h \in Homes}
=============================================================================
