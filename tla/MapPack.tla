------------------------------ MODULE MapPack ------------------------------
(***************************************************************************)
(* The converter pbf-to-rpack: the relations are read for places, the ways *)
(* by parallel workers that are merged, the nodes by parallel workers into *)
(* one shared table; then the features are put on tiles and the pack file  *)
(* is written in place, the directories after the payloads.                *)
(*                                                                         *)
(* The parallel reading itself is PbfStreamParallel: every block of the    *)
(* file goes to one worker, and the workers are merged in the order of     *)
(* their number once all have ended, or not at all.                        *)
(***************************************************************************)
EXTENDS MapRender

CONSTANTS
    Sources,        \* the files and options: see SourceShape
    Workers,        \* the number of way workers
    AreaStyles,     \* style_can_be_area
    MemberCap,      \* what the member ways add to a rank at most: 999
    Boxes, Names    \* what is asked of the renderer

IsList(l) == l \in Seq(ToSet(l))

\* Ways and nodes come in fileblocks.  The id of a way or a node occurs once in
\* a file, as the OSM format has it.
SourceShape(s) ==
    /\ s.halo \in Nat
    /\ IsList(s.relations)
    /\ \A r \in ToSet(s.relations) :
          DOMAIN r = {"place", "name", "rank", "ways"} /\ r.place \in BOOLEAN /\ r.rank \in Nat /\ IsList(r.ways)
    /\ \A b \in ToSet(s.ways) :
          IsList(b) /\ \A w \in ToSet(b) : DOMAIN w = {"id", "style", "coast", "refs"} /\ IsList(w.refs)
    /\ \A v, w \in UNION {ToSet(b) : b \in ToSet(s.ways)} : v.id = w.id => v = w
    /\ \A i \in DOMAIN s.nodes : \A id \in DOMAIN s.nodes[i] : s.nodes[i][id] \in (0 .. Span) \X (0 .. Span)
    /\ \A i, j \in DOMAIN s.nodes : i # j => DOMAIN s.nodes[i] \cap DOMAIN s.nodes[j] = {}

ASSUME MapPackAssumption ==
    /\ Workers \in Nat \ {0}
    /\ MemberCap \in Nat
    /\ \A s \in Sources : SourceShape(s)
    /\ Boxes \subseteq RenderableBoxes

VARIABLES
    source,
    phase,
    places,         \* [list, members, strings]: the places, their member ways, their names
    wayBlocks,      \* the fileblocks of ways, and of nodes, not read yet
    nodeBlocks,
    worker,         \* the refs, features and place ways of each way worker
    pack,           \* those of the context
    nodes,          \* the node table: the coordinates of a node, or NotFound
    writes,         \* the writes to the pack file, in order: [at, unit]
    written,        \* how many of them are done
    image           \* the pack file

vars == <<source, phase, places, wayBlocks, nodeBlocks, worker, pack, nodes, writes, written, image>>

NoStyle == "none"
NotFound == <<>>
NoPlaces == [list |-> <<>>, members |-> <<>>, strings |-> <<>>]
Empty == [refs |-> <<>>, features |-> <<>>, placeWays |-> <<>>]

-----------------------------------------------------------------------------
(* Reading.                                                                *)

\* v2_rank_score: base is what kind and admin level give.
RankScore(base, members) == base + (IF members > MemberCap THEN MemberCap ELSE members)

\* (Mutant: the members are taken to begin at the number of the place.)
AddRelationAtPlace(kept, relation) ==
    IF ~relation.place \/ relation.ways = <<>> THEN kept
    ELSE [list |-> Append(kept.list, [rank |-> RankScore(relation.rank, Len(relation.ways)),
                                      first |-> Len(kept.list), n |-> Len(relation.ways),
                                      nameAt |-> Len(kept.strings)]),
          members |-> kept.members \o relation.ways,
          strings |-> Append(kept.strings, relation.name)]

\* v2_on_relation: a place is kept when it has member ways.
AddRelation(kept, relation) ==
    IF ~relation.place \/ relation.ways = <<>> THEN kept
    ELSE [list |-> Append(kept.list, [rank |-> RankScore(relation.rank, Len(relation.ways)),
                                      first |-> Len(kept.members), n |-> Len(relation.ways),
                                      nameAt |-> Len(kept.strings)]),
          members |-> kept.members \o relation.ways,
          strings |-> Append(kept.strings, relation.name)]

\* v2_needed_place_way_contains.
Needed(id) == id \in ToSet(places.members)

\* v2_on_way_worker, with the classification of v2_on_way_worker_tags.
FlagOf(way) ==
    IF way.coast THEN "coastline"
    ELSE IF way.style \in AreaStyles /\ Len(way.refs) >= 4 /\ way.refs[1] = Last(way.refs)
         THEN "area" ELSE "line"

AddFeature(w, way) ==
    IF way.style = NoStyle \/ Len(way.refs) < 2 THEN w
    ELSE [w EXCEPT !.refs = @ \o way.refs,
                   !.features = Append(@, [style |-> way.style, flag |-> FlagOf(way),
                                           first |-> Len(w.refs), n |-> Len(way.refs)])]

AddPlaceWay(w, way) ==
    IF ~Needed(way.id) THEN w
    ELSE [w EXCEPT !.refs = @ \o way.refs,
                   !.placeWays = Append(@, [id |-> way.id, first |-> Len(w.refs), n |-> Len(way.refs)])]

AddWay(w, way) == AddPlaceWay(AddFeature(w, way), way)

\* (Mutant: the offsets stay those of the worker.)
RebasedNot(records, base) == records

\* v2_way_worker_merge.
Rebased(records, base) == [i \in DOMAIN records |-> [records[i] EXCEPT !.first = @ + base]]

Merged(context, w) ==
    [refs |-> context.refs \o w.refs,
     features |-> context.features \o Rebased(w.features, Len(context.refs)),
     placeWays |-> context.placeWays \o Rebased(w.placeWays, Len(context.refs))]

RefsOf(record) == SubSeq(pack.refs, record.first + 1, record.first + record.n)

-----------------------------------------------------------------------------
(* Placing.                                                                *)

\* The elements of s that are in S, in their order.
Only(s, S) == FoldLeft(LAMBDA kept, e : IF e \in S THEN Append(kept, e) ELSE kept, <<>>, s)

\* find_node, and the test of its found flag.
Located(id) == id \in DOMAIN nodes /\ nodes[id] # NotFound

Complete(record) == \A k \in 1 .. record.n : Located(RefsOf(record)[k])

PointsOf(record) == [k \in 1 .. record.n |-> nodes[RefsOf(record)[k]]]

\* v2_compute_places: the box of a place is that of the nodes its ways have in
\* the file, whether or not all of them are there.
MemberWays(place) == SubSeq(places.members, place.first + 1, place.first + place.n)

\* v2_find_place_way, and the ways of a place that the file has, in their order.
FileWays(place) ==
    LET way(id) == CHOOSE w \in ToSet(pack.placeWays) : w.id = id
        present == Only(MemberWays(place), {w.id : w \in ToSet(pack.placeWays)})
    IN [i \in DOMAIN present |-> way(present[i])]

PlacePoints(place) ==
    {nodes[id] : id \in {r \in UNION {ToSet(RefsOf(w)) : w \in ToSet(FileWays(place))} : Located(r)}}

ValidPlace(place) == PlacePoints(place) # {} /\ HasArea(BoxOf(PlacePoints(place)))

\* v2_materialize_features_and_assign_tiles: a feature goes to every tile of
\* its box, or nowhere when one of its nodes is missing.
TilesOf(feature) == IF Complete(feature) THEN Cover(BoxOf(ToSet(PointsOf(feature))), 0) ELSE {}

\* The tiles by their id, x before y, and what each of them holds.
UsedTiles ==
    Only([i \in 1 .. Axis * Axis |-> <<(i - 1) \div Axis, (i - 1) % Axis>>],
         UNION {TilesOf(f) : f \in ToSet(pack.features)})

Holds(tile) == Only(pack.features, {f \in ToSet(pack.features) : tile \in TilesOf(f)})

-----------------------------------------------------------------------------
(* Writing: v2_write_pack as the sequence of its writes.                   *)

\* v2_write_feature_header_buffered and v2_write_feature_points_from_refs.
FeatureUnits(feature, style, flag) ==
    <<[kind |-> "feature", style |-> style, flag |-> flag, n |-> feature.n,
       box |-> BoxOf(ToSet(PointsOf(feature)))]>>
    \o [k \in 1 .. feature.n |-> [kind |-> "point", at |-> PointsOf(feature)[k]]]

\* A count and that many runs of units.
Counted(runs) == <<[kind |-> "count", n |-> Len(runs)]>> \o FlattenSeq(runs)

TileUnits(tile) ==
    LET held == Holds(tile)
    IN  Counted([i \in DOMAIN held |-> FeatureUnits(held[i], held[i].style, held[i].flag)])

\* v2_write_place_boundary_payload: the ways of two refs or more of which no
\* node is missing; without any there is no payload.
OutlineWays(place) == Only(FileWays(place), {w \in ToSet(FileWays(place)) : w.n >= 2 /\ Complete(w)})

OutlineUnits(place) ==
    LET ways == OutlineWays(place)
    IN  IF ways = <<>> THEN <<>>
        ELSE Counted([i \in DOMAIN ways |-> FeatureUnits(ways[i], "boundary", "line")])

\* The offsets at which consecutive runs of units begin.
Starts(first, runs) == [i \in DOMAIN runs |-> first + Len(FlattenSeq(SubSeq(runs, 1, i - 1)))]

\* The writes of units from an offset on.
From(at, units) == [i \in DOMAIN units |-> [at |-> at + i - 1, unit |-> units[i]]]

\* (Mutant: the directories are written first.)
InOrderDirectoriesFirst(header, contents, directories, final) ==
    header \o directories \o contents \o final

\* The directories and the final header come after what they point to.
InOrder(header, contents, directories, final) == header \o contents \o directories \o final

\* Header, directories, payloads and names have their place before anything
\* is written: the directories are of a known size.  A place record has its
\* outline, and a tile record its payload, in the second half.
Writes ==
    LET valid == Only(places.list, {p \in ToSet(places.list) : ValidPlace(p)})
        used == UsedTiles
        tiles == [i \in DOMAIN used |-> TileUnits(used[i])]
        outlines == [i \in DOMAIN valid |-> OutlineUnits(valid[i])]
        placeAt == 1
        tileAt == placeAt + 2 * Len(valid)
        payloadAt == tileAt + 2 * Len(used)
        outlineAt == payloadAt + Len(FlattenSeq(tiles))
        stringAt == outlineAt + Len(FlattenSeq(outlines))
        header == [kind |-> "header", halo |-> source.halo, places |-> Len(valid), tiles |-> Len(used),
                   placeAt |-> placeAt, tileAt |-> tileAt,
                   sourceWays |-> Len(FlattenSeq(source.ways)), complete |-> FALSE]
        placeRecord(i) ==
            <<[kind |-> "place", rank |-> valid[i].rank, box |-> BoxOf(PlacePoints(valid[i])),
               nameAt |-> stringAt + valid[i].nameAt],
              [kind |-> "outline of place", n |-> Len(OutlineWays(valid[i])),
               at |-> IF outlines[i] = <<>> THEN 0 ELSE Starts(outlineAt, outlines)[i]]>>
        tileRecord(i) ==
            <<[kind |-> "tile", x |-> used[i][1], y |-> used[i][2], n |-> Len(Holds(used[i]))],
              [kind |-> "place of tile", at |-> Starts(payloadAt, tiles)[i]]>>
    IN InOrder(From(0, <<header>>),
               From(payloadAt, FlattenSeq(tiles))
               \o From(outlineAt, FlattenSeq(outlines))
               \o From(stringAt, [i \in DOMAIN places.strings |-> [kind |-> "name", name |-> places.strings[i]]]),
               From(placeAt, FlattenSeq([i \in DOMAIN valid |-> placeRecord(i)]))
               \o From(tileAt, FlattenSeq([i \in DOMAIN used |-> tileRecord(i)])),
               From(0, <<[header EXCEPT !.complete = TRUE]>>))

\* A write beyond the end of the file leaves a hole.
Put(file, at, unit) ==
    [i \in 1 .. MostOf({Len(file), at + 1}) |->
        IF i = at + 1 THEN unit ELSE IF i <= Len(file) THEN file[i] ELSE Hole]

-----------------------------------------------------------------------------
Init ==
    /\ source \in Sources
    /\ phase = "collect_places"
    /\ places = NoPlaces
    /\ wayBlocks = DOMAIN source.ways
    /\ nodeBlocks = DOMAIN source.nodes
    /\ worker = [w \in 1 .. Workers |-> Empty]
    /\ pack = Empty
    /\ nodes = <<>>
    /\ writes = <<>> /\ written = 0 /\ image = <<>>

\* Relations are read by one thread.
CollectPlaces ==
    /\ phase = "collect_places"
    /\ places' = FoldLeft(AddRelation, NoPlaces, source.relations)
    /\ phase' = "collect_ways"
    /\ UNCHANGED <<source, wayBlocks, nodeBlocks, worker, pack, nodes, writes, written, image>>

\* A worker takes a fileblock of ways.
ReadWays(w) ==
    /\ phase = "collect_ways"
    /\ \E b \in wayBlocks :
        /\ wayBlocks' = wayBlocks \ {b}
        /\ worker' = [worker EXCEPT ![w] = FoldLeft(AddWay, @, source.ways[b])]
    /\ UNCHANGED <<source, phase, places, nodeBlocks, pack, nodes, writes, written, image>>

\* The workers are merged and the table of nodes is built:
\* v2_build_unique_nodes.
MergeWays ==
    /\ phase = "collect_ways" /\ wayBlocks = {}
    /\ pack' = FoldLeft(Merged, pack, worker)
    /\ nodes' = [id \in ToSet(pack'.refs) |-> NotFound]
    /\ phase' = "collect_nodes"
    /\ UNCHANGED <<source, places, wayBlocks, nodeBlocks, worker, writes, written, image>>

\* A worker takes a fileblock of nodes: v2_on_node_worker.  No two blocks
\* have a node in common, so that no two workers write one entry.
ReadNodes ==
    /\ phase = "collect_nodes"
    /\ \E b \in nodeBlocks :
        /\ nodeBlocks' = nodeBlocks \ {b}
        /\ nodes' = [id \in DOMAIN nodes |->
                        IF id \in DOMAIN source.nodes[b] THEN source.nodes[b][id] ELSE nodes[id]]
    /\ UNCHANGED <<source, phase, places, wayBlocks, worker, pack, writes, written, image>>

\* Places and tiles are computed, and the file is created or truncated.
OpenPack ==
    /\ phase = "collect_nodes" /\ nodeBlocks = {}
    /\ writes' = Writes
    /\ phase' = "write_pack"
    /\ UNCHANGED <<source, places, wayBlocks, nodeBlocks, worker, pack, nodes, written, image>>

\* One more unit reaches the file.
WriteUnit ==
    /\ phase = "write_pack" /\ written < Len(writes)
    /\ image' = Put(image, writes[written + 1].at, writes[written + 1].unit)
    /\ written' = written + 1
    /\ UNCHANGED <<source, phase, places, wayBlocks, nodeBlocks, worker, pack, nodes, writes>>

ClosePack ==
    /\ phase = "write_pack" /\ written = Len(writes)
    /\ phase' = "done"
    /\ UNCHANGED <<source, places, wayBlocks, nodeBlocks, worker, pack, nodes, writes, written, image>>

\* Memory runs out, a block cannot be read, a write fails or the process is
\* killed: the program ends where it is and leaves the file as it is.
Stop ==
    /\ phase \notin {"done", "stopped"}
    /\ phase' = "stopped"
    /\ UNCHANGED <<source, places, wayBlocks, nodeBlocks, worker, pack, nodes, writes, written, image>>

Next ==
    \/ CollectPlaces
    \/ \E w \in 1 .. Workers : ReadWays(w)
    \/ MergeWays
    \/ ReadNodes
    \/ OpenPack
    \/ WriteUnit
    \/ ClosePack
    \/ Stop

Spec == Init /\ [][Next]_vars

-----------------------------------------------------------------------------
(* What the source says, without workers, offsets, tiles or a file.        *)

SourceNodes == [id \in UNION {DOMAIN b : b \in ToSet(source.nodes)} |->
                   (CHOOSE b \in ToSet(source.nodes) : id \in DOMAIN b)[id]]

FileWaySet == UNION {ToSet(b) : b \in ToSet(source.ways)}

AllThere(way) == ToSet(way.refs) \subseteq DOMAIN SourceNodes
Shape(way) == [k \in DOMAIN way.refs |-> SourceNodes[way.refs[k]]]
Drawn(way, style, flag) ==
    [style |-> style, flag |-> flag, box |-> BoxOf(ToSet(Shape(way))), points |-> Shape(way)]

SourceWays == {w \in FileWaySet : Len(w.refs) >= 2 /\ AllThere(w)}

Visible(box) ==
    {f \in {Drawn(w, w.style, FlagOf(w)) : w \in {v \in SourceWays : v.style # NoStyle}} : Meets(f.box, box)}

World == [west |-> 0, east |-> Span, south |-> 0, north |-> Span]

\* The outline of a place and the box of what the file has of it.
Outline(place) == {Drawn(w, "boundary", "line") : w \in {v \in SourceWays : v.id \in ToSet(place.ways)}}

Extent(place) ==
    LET ways == {w \in FileWaySet : w.id \in ToSet(place.ways)}
    IN {SourceNodes[id] : id \in (UNION {ToSet(w.refs) : w \in ways}) \cap DOMAIN SourceNodes}

\* docs/osmrpack_format.md: a member way adds one to the rank, MemberCap of them
\* at most.  Of the places of a name the first one with the highest rank is meant.
Rank(place) == place.rank + LeastOf({Len(place.ways), MemberCap})
Candidates(name) ==
    {i \in DOMAIN source.relations :
        LET p == source.relations[i]
        IN p.place /\ p.name = name /\ Extent(p) # {} /\ HasArea(BoxOf(Extent(p)))}
CityOf(name) ==
    source.relations[CHOOSE i \in Candidates(name) : \A j \in Candidates(name) :
        \/ Rank(source.relations[j]) < Rank(source.relations[i])
        \/ Rank(source.relations[j]) = Rank(source.relations[i]) /\ i <= j]

-----------------------------------------------------------------------------
(* A pack that is complete shows in every box the features of the source   *)
(* that meet it, each with the coordinates of its own nodes, whichever     *)
(* worker read which block and wherever the tiles divide the features:     *)
(* the rebasing of the merge, the offsets of the writer, and the tile      *)
(* arithmetic of the two programs agree.                                   *)
RendersTheSource ==
    phase = "done" =>
        \A box \in Boxes : RenderBox(image, box) = Found(Visible(box))

\* A city of a complete pack that is a preset box, with all that meets it.
ShowsPreset(city, box) ==
    ~city.refused /\ city.view = box /\ city.features = Visible(box) /\ city.outline = {}

(* A city asked for by name is the place of that name with the highest     *)
(* rank; its view holds what the file has of it unless a part is far off,  *)
(* and every complete member way of it that meets the view is outlined,    *)
(* whatever the order of the ways in the merged lists.  A name without     *)
(* such a place shows its preset box, and is refused when it has none.     *)
OutlinesTheCity ==
    phase = "done" =>
        \A name \in Names :
            LET city == RenderCity(image, name)
            IN IF Candidates(name) = {}
               THEN IF name \in DOMAIN Presets THEN ShowsPreset(city, Presets[name]) ELSE city = Refused
               ELSE /\ ~city.refused
                    /\ city.features = Visible(city.view)
                    /\ city.outline = {f \in Outline(CityOf(name)) : Meets(f.box, city.view)}
                    /\ ~city.exclaves =>
                          /\ city.view = Padded(BoxOf(Extent(CityOf(name))))
                          /\ city.outline = Outline(CityOf(name))

(* However early the converter stops, the file it leaves has no directory  *)
(* entry that lies: a tile record that reached the file leads to all that  *)
(* the source has on that tile, and what the renderer shows of an          *)
(* incomplete file is in the source: entries are written after what they   *)
(* point to, and the renderer checks the counts.                           *)
InterruptedNeverLies ==
    HasHeader(image) =>
        /\ \A i \in 1 .. Header(image).tiles :
            LET key == Header(image).tileAt + 2 * (i - 1)
            IN KindAt(image, key + 1, "place of tile") =>
                LET tile == <<UnitAt(image, key).x, UnitAt(image, key).y>>
                    at == UnitAt(image, key + 1).at
                    scan == FeaturesFrom(image, at + 1, UnitAt(image, key).n)
                IN /\ CountAt(image, at) = UnitAt(image, key).n
                   /\ ~scan.bad
                   /\ ToSet(scan.seen) = {f \in Visible(World) : tile \in Cover(f.box, 0)}
        /\ \A box \in Boxes : RenderBox(image, box).features \subseteq Visible(box)
        /\ \A name \in Names :
            LET city == RenderCity(image, name)
            IN ~city.refused =>
                /\ city.features \subseteq Visible(city.view)
                /\ \/ name \in DOMAIN Presets /\ city.view = Presets[name] /\ city.outline = {}
                   \/ \E i \in Candidates(name) : city.outline \subseteq Outline(source.relations[i])

(* When the far parts of a city go to an inset, ways that share an end are *)
(* shown together: every one of two such ways lies in the view, or both    *)
(* lie in the inset; and no way of the outline lies in neither.            *)
PiecesKeptTogether ==
    phase = "done" =>
        \A name \in {n \in Names : Candidates(n) # {}} :
            LET city == RenderCity(image, name)
                outline == Outline(CityOf(name))
                within(f, box) == \A p \in ToSet(f.points) : Inside(p, box)
            IN city.exclaves =>
                \A f, g \in outline : Ends(f) \cap Ends(g) # {} =>
                    \E box \in {city.view, city.inset} : within(f, box) /\ within(g, box)
=============================================================================
