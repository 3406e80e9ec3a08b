------------------------------- MODULE PbfFile -------------------------------
(***************************************************************************)
(* An OSM PBF file as the readers of src/src/shared/pbf.c see it, and what *)
(* the serial readers make of it.  A file is a sequence of fileblocks; of  *)
(* a fileblock the readers only tell its type and where its handling ends: *)
(*   "none"    everything succeeds                                         *)
(*   "header"  the length or the BlobHeader cannot be read or parsed       *)
(*   "blob"    the Blob is cut off                                         *)
(*   "decode"  the Blob cannot be decoded (inflated)                       *)
(*   "parse"   the payload cannot be parsed                                *)
(*   "stop"    a stream callback asks to stop in this block                *)
(***************************************************************************)
EXTENDS Integers, Sequences, FiniteSets

BlockTypes == {"OSMHeader", "OSMData", "other"}

Effects == {"none", "header", "blob", "decode", "parse", "stop"}

Block == [type : BlockTypes, effect : Effects]

\* Positions of the fileblocks of a file.
Positions(file) == 1..Len(file)

\* The reader itself cannot get past these blocks.
ReaderRejects(b) == b.effect \in {"header", "blob"}

\* pbf_decode_blob and pbf_parse_decoded_blob: a summary fails on these.
SummaryRejects(b) ==
    \/ b.effect = "decode"
    \/ b.effect = "parse" /\ b.type # "other"

\* pbf_stream_primitive_block is only called for OSMData blocks.
StreamRejects(b) == b.type = "OSMData" /\ b.effect = "parse"
StreamStops(b) == b.type = "OSMData" /\ b.effect = "stop"

IsFirst(file, p, Test(_)) ==
    /\ p \in Positions(file)
    /\ Test(file[p])
    /\ \A q \in 1..(p - 1) : ~ Test(file[q])

\* What a call delivers: its result and how often it counts each fileblock.
Delivery(result, tally) == [result |-> result, tally |-> tally]

Once(file, S) == [p \in Positions(file) |-> IF p \in S THEN 1 ELSE 0]

(***************************************************************************)
(* pbf_read_summary adds every fileblock, in file order, to the caller's   *)
(* *summary.  The first one that fails ends the call with -1 and leaves    *)
(* the counts there: a block the reader cannot get past is not in them,    *)
(* one that does not decode or parse is in fileblocks and compressed_bytes *)
(* (and with as much of its payload as was parsed, which a tally does not  *)
(* tell apart).                                                            *)
(***************************************************************************)
SerialSummary(file) ==
    LET Rejects(b) == ReaderRejects(b) \/ SummaryRejects(b)
    IN  IF \A p \in Positions(file) : ~ Rejects(file[p])
        THEN Delivery(0, Once(file, Positions(file)))
        ELSE LET last == CHOOSE p \in Positions(file) : IsFirst(file, p, Rejects)
             IN  Delivery(-1, Once(file, IF ReaderRejects(file[last]) THEN 1..(last - 1)
                                                                      ELSE 1..last))

(***************************************************************************)
(* pbf_stream_entities: every Blob is decoded, the OSMData blocks are      *)
(* streamed to the callbacks; the scan ends at the first block that fails  *)
(* or whose callback asks to stop.                                         *)
(***************************************************************************)
SerialStream(file) ==
    LET Ends(b) == ReaderRejects(b) \/ b.effect = "decode" \/ StreamRejects(b) \/ StreamStops(b)
        Data(S) == {p \in S : file[p].type = "OSMData"}
    IN  IF \A p \in Positions(file) : ~ Ends(file[p])
        THEN Delivery(0, Once(file, Data(Positions(file))))
        ELSE LET last == CHOOSE p \in Positions(file) : IsFirst(file, p, Ends)
             IN  IF StreamStops(file[last])
                 THEN Delivery(0, Once(file, Data(1..last)))
                 ELSE Delivery(-1, Once(file, {}))
=============================================================================
