------------------------ MODULE MCPbfSummaryParallel ------------------------
(***************************************************************************)
(* Small files for PbfSummaryParallel: good fileblocks, possibly one that  *)
(* does not decode among them, and possibly one at the end that cannot be  *)
(* parsed or that the reader cannot get past.                              *)
(***************************************************************************)
EXTENDS PbfSummaryParallel

CONSTANTS MaxBlocks,  \* bound: fileblocks in a file
          Endings     \* effects of the last block

Data(effect) == [type |-> "OSMData", effect |-> effect]

GoodFile(n) == [p \in 1..n |-> Data("none")]

OneFault(n) == {[GoodFile(n) EXCEPT ![p] = Data("decode")] : p \in 1..n}

SmallFiles ==
    LET Bodies == UNION {{GoodFile(n)} \cup OneFault(n) : n \in 0..MaxBlocks}
    IN  {f \in Bodies : Len(f) > 0}
        \cup {Append(f, Data(effect)) : f \in {g \in Bodies : Len(g) < MaxBlocks},
                                        effect \in Endings}
=============================================================================
