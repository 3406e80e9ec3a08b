------------------------ MODULE MCPbfStreamParallel ------------------------
(***************************************************************************)
(* Small files for PbfStreamParallel: OSMData blocks among which one may   *)
(* be an OSMHeader, one may stop the stream, and the last may be faulty    *)
(* (both in the shorter files only).                                       *)
(***************************************************************************)
EXTENDS PbfStreamParallel

CONSTANTS MaxBlocks,  \* bound: fileblocks in a file
          Specials,   \* the special blocks, as <<type, effect>>
          Endings     \* effects of the last block

Make(type, effect) == [type |-> type, effect |-> effect]

DataFile(n) == [p \in 1..n |-> Make("OSMData", "none")]

OneSpecial(n) ==
    {[DataFile(n) EXCEPT ![p] = Make(s[1], s[2])] : p \in 1..n, s \in Specials}

SmallFiles ==
    LET Bodies == UNION {{DataFile(n)} \cup OneSpecial(n) : n \in 0..MaxBlocks}
    IN  {f \in Bodies : Len(f) > 0}
        \cup {Append(f, Make("OSMData", effect)) :
                  f \in {g \in Bodies : Len(g) < MaxBlocks - 1} \cup {DataFile(MaxBlocks - 1)},
                  effect \in Endings}

HeaderAndStop == {<<"OSMHeader", "none">>, <<"OSMData", "stop">>}
=============================================================================
