----------------------------- MODULE MapRender -----------------------------
(***************************************************************************)
(* What rpack-render takes from the image of a map pack: the features in   *)
(* a box, and the box, the outline and the far-off parts of a city.        *)
(* Projection and drawing are left out.                                    *)
(*                                                                         *)
(* An image is a sequence of units, the offset of a unit one less than its *)
(* index: the header, half a place or tile record, a feature count, a      *)
(* feature header, a point and a name are a unit each.  A unit that was    *)
(* skipped by a seek reads as zeros.                                       *)
(***************************************************************************)
EXTENDS MapTiles, SequencesExt, TLC

CONSTANTS
    PadLeast,       \* the least padding of a city's box
    FarGap,         \* a gap that makes a part of a boundary far
    AreaUnit,       \* the divisor of bbox_area_score
    Presets         \* set_city_bbox: the boxes of the names it knows

\* The boxes that rpack-render takes (parse_bbox_arg) are not empty.
RenderableBoxes == {b \in [west : Int, east : Int, south : Int, north : Int] : HasArea(b)}

ASSUME MapRenderAssumption ==
    /\ PadLeast \in Nat /\ FarGap \in Nat /\ AreaUnit \in Nat \ {0}
    /\ Presets \in [DOMAIN Presets -> RenderableBoxes]

Hole == [kind |-> "zeros"]

\* What the renderer gives up on; what it finds otherwise is not refused.
Refused == [refused |-> TRUE, features |-> {}]
Found(features) == [refused |-> FALSE, features |-> features]

\* read_exact fails at the end of the file.
Readable(image, at) == at + 1 \in 1 .. Len(image)
UnitAt(image, at) == image[at + 1]
KindAt(image, at, kind) == Readable(image, at) /\ UnitAt(image, at).kind = kind

\* read_v2_header_bytes: the magic and the sizes of the records.
HasHeader(image) == KindAt(image, 0, "header")
Header(image) == UnitAt(image, 0)

\* A count of features, 0 in a hole; anything else is not the count in a record.
CountAt(image, at) ==
    CASE KindAt(image, at, "count") -> UnitAt(image, at).n
      [] KindAt(image, at, "zeros") -> 0
      [] OTHER -> -1

\* A feature and its points at an offset; a feature has two points at least.
FeatureWhole(image, at) ==
    /\ KindAt(image, at, "feature")
    /\ UnitAt(image, at).n >= 2
    /\ \A k \in 1 .. UnitAt(image, at).n : KindAt(image, at + k, "point")

FeatureAt(image, at) ==
    [style |-> UnitAt(image, at).style, flag |-> UnitAt(image, at).flag,
     box |-> UnitAt(image, at).box,
     points |-> [k \in 1 .. UnitAt(image, at).n |-> UnitAt(image, at + k).at]]

\* n features, one after the other.
FeaturesFrom(image, at, n) ==
    LET Next(scan, k) ==
            IF scan.bad \/ ~FeatureWhole(image, scan.at) THEN [scan EXCEPT !.bad = TRUE]
            ELSE [at |-> scan.at + 1 + UnitAt(image, scan.at).n,
                  seen |-> Append(scan.seen, FeatureAt(image, scan.at)), bad |-> FALSE]
    IN FoldLeft(Next, [at |-> at, seen |-> <<>>, bad |-> FALSE], [k \in 1 .. n |-> k])

Seen(scan, box) == {scan.seen[k] : k \in {j \in DOMAIN scan.seen : Meets(scan.seen[j].box, box)}}

\* collect_visible_features_v2: a scan of the tile directory for the tiles of
\* the box, the features of which are taken when they meet the box; copies of
\* a feature from several tiles are the same.  The number of features in a
\* payload is to be the one in the record.
RenderBox(image, box) ==
    LET header == Header(image)
        key(i) == header.tileAt + 2 * (i - 1)
        tiles == {i \in 1 .. header.tiles : KindAt(image, key(i), "tile")
                    /\ <<UnitAt(image, key(i)).x, UnitAt(image, key(i)).y>> \in Cover(box, header.halo)}
        payload(i) == IF KindAt(image, key(i) + 1, "place of tile") THEN UnitAt(image, key(i) + 1).at ELSE 0
        wanted(i) == UnitAt(image, key(i)).n
        scan(i) == FeaturesFrom(image, payload(i) + 1, wanted(i))
    IN IF \/ ~HasHeader(image)
          \/ \E i \in 1 .. header.tiles : ~Readable(image, key(i) + 1)
          \/ \E i \in tiles : CountAt(image, payload(i)) # wanted(i) \/ scan(i).bad
       THEN Refused
       ELSE Found(UNION {Seen(scan(i), box) : i \in tiles})

-----------------------------------------------------------------------------
(* A city.                                                                 *)

\* apply_bbox_padding, and the end of apply_v2_place_bbox.
Padded(box) ==
    LET pad(low, high) == MostOf({(high - low) \div 10, PadLeast})
    IN [west |-> box.west - pad(box.west, box.east), east |-> box.east + pad(box.west, box.east),
        south |-> box.south - pad(box.south, box.north), north |-> box.north + pad(box.south, box.north)]

\* apply_v2_place_bbox: of the records with this name and a box the one with
\* the highest rank, the first of several.  No record is found when one of the
\* units it needs is beyond the end of the file; otherwise the name is absent
\* when no record fits.
PlaceFor(image, name) ==
    LET header == Header(image)
        key(i) == header.placeAt + 2 * (i - 1)
        named == {i \in 1 .. header.places : KindAt(image, key(i), "place")}
        fits == {i \in named : /\ UnitAt(image, UnitAt(image, key(i)).nameAt) = [kind |-> "name", name |-> name]
                               /\ HasArea(UnitAt(image, key(i)).box)}
        rank(i) == UnitAt(image, key(i)).rank
        best == CHOOSE i \in fits : \A j \in fits : rank(j) < rank(i) \/ (rank(j) = rank(i) /\ i <= j)
        outline(i) == IF KindAt(image, key(i) + 1, "outline of place") THEN UnitAt(image, key(i) + 1)
                      ELSE [kind |-> "zeros", at |-> 0, n |-> 0]
    IN IF \/ \E i \in 1 .. header.places : ~Readable(image, key(i) + 1)
          \/ \E i \in named : ~Readable(image, UnitAt(image, key(i)).nameAt)
       THEN [found |-> FALSE, absent |-> FALSE]
       ELSE IF fits = {} THEN [found |-> FALSE, absent |-> TRUE]
       ELSE [found |-> TRUE, absent |-> FALSE, box |-> UnitAt(image, key(best)).box,
             at |-> outline(best).at, n |-> outline(best).n]

Ends(way) == {way.points[1], Last(way.points)}

\* (Mutant: a way only continues another one in its direction.)
TouchingHeadToTail(a, b) == Last(a.points) = b.points[1]

\* boundary_ways_touch: two ways have an end in common.
Touching(a, b) == Ends(a) \cap Ends(b) # {}

\* The union of compute_v2_boundary_viewports: the root of each way, the
\* roots being joined pair by pair.
Joined(ways, root, i, j) ==
    IF root[i] # root[j] /\ Touching(ways[i], ways[j])
    THEN [k \in DOMAIN root |-> IF root[k] = root[j] THEN root[i] ELSE root[k]]
    ELSE root

\* One way with each of those after it, and every way so.
JoinedAfter(ways, root, i) ==
    FoldLeft(LAMBDA r, j : Joined(ways, r, i, j), root, [k \in 1 .. Len(ways) - i |-> i + k])

Roots(ways) ==
    FoldLeft(LAMBDA root, i : JoinedAfter(ways, root, i), [i \in DOMAIN ways |-> i], [i \in DOMAIN ways |-> i])

\* A component: its ways, its points and its box.
Component(ways, root, r) ==
    LET members == {i \in DOMAIN ways : root[i] = r}
    IN [ways |-> members,
        n |-> FoldLeft(LAMBDA sum, i : sum + IF i \in members THEN Len(ways[i].points) ELSE 0,
                       0, [i \in DOMAIN ways |-> i]),
        box |-> BoxOf(UNION {ToSet(ways[i].points) : i \in members})]

\* bbox_area_score, and bbox_gap_1d in the two directions.
Area(box) == IF HasArea(box)
             THEN ((box.east - box.west) \div AreaUnit + 1) * ((box.north - box.south) \div AreaUnit + 1)
             ELSE 1
Gap(lowA, highA, lowB, highB) == MostOf({0, lowB - highA, lowA - highB})

\* boundary_component_is_far.
Far(primary, part) ==
    LET lon == Gap(primary.box.west, primary.box.east, part.box.west, part.box.east)
        lat == Gap(primary.box.south, primary.box.north, part.box.south, part.box.north)
        wide(gap, low, high) == high > low /\ gap > (high - low) \div 3
    IN /\ lon # 0 \/ lat # 0
       /\ part.n * 2 < primary.n
       /\ Area(BoxUnion(primary.box, part.box)) > 2 * Area(primary.box)
       /\ \/ lon > FarGap \/ lat > FarGap
          \/ wide(lon, primary.box.west, primary.box.east)
          \/ wide(lat, primary.box.south, primary.box.north)

Together(boxes) == BoxOf(UNION {{<<b.west, b.south>>, <<b.east, b.north>>} : b \in boxes})

\* compute_v2_boundary_viewports: the largest component, the first of several,
\* and those not far from it are the view; the far ones are the inset's.
Primary(parts) == CHOOSE p \in parts : \A q \in parts :
                      q.n < p.n \/ (q.n = p.n /\ LeastOf(p.ways) <= LeastOf(q.ways))

Divided(parts, far) ==
    IF far = {} THEN [exclaves |-> FALSE]
    ELSE [exclaves |-> TRUE, main |-> Together({p.box : p \in parts \ far}),
          inset |-> Together({p.box : p \in far})]

Apart(parts, primary) == Divided(parts, {p \in parts : p # primary /\ Far(primary, p)})

Components(ways, root) == {Component(ways, root, root[i]) : i \in DOMAIN ways}

Viewports(ways) ==
    LET parts == Components(ways, Roots(ways))
    IN Apart(parts, Primary(parts))

\* rpack-render --city: the place, its view (frozen before the features are
\* collected), the features there and what of the outline is in view; with
\* --exclave-insets the far parts as well.
Outlined(place) == place.at # 0 /\ place.n # 0

CityInView(image, place, scan, exclaves, view, inset) ==
    LET shown(box) == IF Outlined(place) THEN Seen(scan, box) ELSE {}
        main == RenderBox(image, view)
    IN IF \/ ~HasHeader(image)
          \/ ~place.found
          \/ Outlined(place) /\ (CountAt(image, place.at) # place.n \/ scan.bad)
          \/ main.refused
          \/ exclaves /\ RenderBox(image, inset).refused
       THEN Refused
       ELSE [refused |-> FALSE, features |-> main.features,
             view |-> view, outline |-> shown(view), exclaves |-> exclaves,
             inset |-> IF exclaves THEN inset ELSE view,
             insetOutline |-> IF exclaves THEN shown(inset) ELSE {}]

CityParts(image, place, scan, spread) ==
    CityInView(image, place, scan, spread.exclaves,
               Padded(IF spread.exclaves THEN spread.main ELSE place.box), Padded(spread.inset))

CityScanned(image, place, scan) ==
    CityParts(image, place, scan,
              IF Outlined(place) /\ place.n >= 2 THEN Viewports(scan.seen) ELSE [exclaves |-> FALSE])

CityAt(image, place) == CityScanned(image, place, FeaturesFrom(image, place.at + 1, place.n))

CityNamed(image, name) == CityAt(image, PlaceFor(image, name))

\* A preset box is shown as it is: without padding, outline or inset.
RenderPreset(image, box) ==
    IF RenderBox(image, box).refused THEN Refused
    ELSE [refused |-> FALSE, features |-> RenderBox(image, box).features,
          view |-> box, outline |-> {}, exclaves |-> FALSE, inset |-> box, insetOutline |-> {}]

\* A place of the pack comes before a preset; a pack that cannot be read is
\* refused with and without a preset.
RenderCity(image, name) ==
    IF HasHeader(image) /\ PlaceFor(image, name).absent /\ name \in DOMAIN Presets
    THEN RenderPreset(image, Presets[name])
    ELSE CityNamed(image, name)
=============================================================================
