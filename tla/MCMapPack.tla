----------------------------- MODULE MCMapPack -----------------------------
(***************************************************************************)
(* MapPack on a world of 12 by 12 units and 4 by 4 tiles.                  *)
(***************************************************************************)
EXTENDS MapPack

Way(id, style, refs) == [id |-> id, style |-> style, coast |-> FALSE, refs |-> refs]
Place(name, rank, ways) == [place |-> TRUE, name |-> name, rank |-> rank, ways |-> ways]

\* Nodes 1 to 4 are the corners of a square over four tiles and 11 to 14 lie
\* between them, 5 and 6 are at two edges of the world, 7 to 9 are far from the
\* square, 15 and 16 on the way to there; 10 is in no file.
Corners == 1 :> <<2, 2>> @@ 2 :> <<2, 7>> @@ 3 :> <<7, 7>> @@ 4 :> <<7, 2>>
           @@ 11 :> <<2, 4>> @@ 12 :> <<5, 7>> @@ 13 :> <<7, 5>> @@ 14 :> <<4, 2>>
Others == 5 :> <<12, 0>> @@ 6 :> <<3, 12>> @@ 7 :> <<11, 11>> @@ 8 :> <<11, 12>> @@ 9 :> <<12, 12>>
          @@ 15 :> <<8, 8>> @@ 16 :> <<10, 10>>

\* The square as two ways and as one, a road across, a road that leaves the
\* extract, a coastline, a way of one ref and two far ways.
West == Way(1, "none", <<1, 11, 2, 12, 3>>)
East == Way(2, "road", <<3, 13, 4, 14, 1>>)
Square == Way(3, "water", <<1, 2, 3, 4, 1>>)
Twin == Way(10, "water", <<1, 2, 3, 4, 1>>)
Road == Way(4, "road", <<2, 5>>)
Leaving == Way(5, "road", <<6, 10, 5>>)
Coast == [Way(6, "water", <<6, 1, 3, 6>>) EXCEPT !.coast = TRUE]
Dot == Way(7, "path", <<8>>)
Edge == Way(8, "none", <<7, 8>>)
Tip == Way(9, "none", <<8, 9>>)
\* Two ways that end where they meet, one near the square and one far from it.
Near == Way(11, "none", <<15, 16>>)
Reach == Way(12, "none", <<9, 16>>)

Town == Place("a", 9, <<1, 2>>)
Exclave == Place("a", 9, <<8, 9, 1, 2>>)
\* With two members counted at most, the county has the rank of the town.
County == Place("a", 9, <<1, 2, 3, 4>>)
Stepping == Place("b", 2, <<1, 2, 11, 12>>)
Clipped == Place("b", 4, <<5, 2, 99>>)
Flat == Place("b", 8, <<7>>)
NoPlace == [place |-> FALSE, name |-> "b", rank |-> 9, ways |-> <<3>>]

Source(relations, ways, halo) ==
    [relations |-> relations, ways |-> ways, nodes |-> <<Corners, Others>>, halo |-> halo]

MCSources ==
    {Source(<<Town, County, Clipped>>, <<<<West, Road>>, <<East, Leaving>>, <<Square>>>>, 0),
     Source(<<Exclave, Town>>, <<<<Tip, Coast>>, <<East, West>>, <<Edge>>>>, 1),
     Source(<<Flat, Town, Exclave, Clipped>>, <<<<East, Edge>>, <<West, Leaving, Dot>>, <<Tip>>>>, 0),
     Source(<<Exclave, NoPlace>>, <<<<Edge, East>>, <<Tip, West>>, <<Dot, Road>>>>, 0),
     Source(<<Stepping>>, <<<<Reach, Square>>, <<Twin, West>>, <<East, Near>>>>, 0)}

Box(west, south, east, north) == [west |-> west, south |-> south, east |-> east, north |-> north]

\* A name with a preset box; two of the sources have no place of that name.
MCPresets == "b" :> Box(1, 1, 6, 6)

\* Boxes within a tile, on the edges of tiles and across them.
MCBoxes == {Box(3, 3, 5, 5), Box(4, 0, 6, 2), Box(0, 6, 3, 9), Box(6, 6, 12, 12), Box(0, 0, 12, 12), Box(9, 0, 12, 3)}
=============================================================================
