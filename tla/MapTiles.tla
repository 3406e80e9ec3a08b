------------------------------ MODULE MapTiles ------------------------------
(***************************************************************************)
(* The geometry that the converter pbf-to-rpack and the renderer           *)
(* rpack-render have in common: points, bounding boxes and the grid of     *)
(* tiles.  Both programs have their own copy of the tile arithmetic.       *)
(*                                                                         *)
(* A point is a pair longitude, latitude, counted from the south-west      *)
(* corner of the world in units of which the world has Span in each        *)
(* direction; the grid has Axis by Axis tiles, with row 0 in the north.    *)
(***************************************************************************)
EXTENDS Integers

CONSTANTS
    Span,
    Axis            \* 2 to the power of tile_zoom

ASSUME MapTilesAssumption == Span \in Nat \ {0} /\ Axis \in Nat \ {0}

\* A coordinate beyond the edge of the world is moved to the edge.
Clamped(c, top) == IF c < 0 THEN 0 ELSE IF c > top THEN top ELSE c

\* v2_lon_to_tile_x and v2_lat_to_tile_y.
Column(lon) == Clamped((Clamped(lon, Span) * Axis) \div Span, Axis - 1)
Row(lat) == Clamped((Clamped(Span - lat, Span) * Axis) \div Span, Axis - 1)

\* The tiles of a box, widened by halo columns and rows.
Cover(box, halo) ==
    {tile \in (0 .. Axis - 1) \X (0 .. Axis - 1) :
        /\ tile[1] \in Column(box.west) - halo .. Column(box.east) + halo
        /\ tile[2] \in Row(box.north) - halo .. Row(box.south) + halo}

LeastOf(S) == CHOOSE x \in S : \A y \in S : x <= y
MostOf(S) == CHOOSE x \in S : \A y \in S : x >= y

\* The bounding box of a non-empty set of points, and of two boxes.
BoxOf(points) ==
    [west |-> LeastOf({p[1] : p \in points}), east |-> MostOf({p[1] : p \in points}),
     south |-> LeastOf({p[2] : p \in points}), north |-> MostOf({p[2] : p \in points})]

BoxUnion(a, b) ==
    BoxOf({<<a.west, a.south>>, <<a.east, a.north>>, <<b.west, b.south>>, <<b.east, b.north>>})

\* render_bbox_is_valid, and the test of v2_compute_places.
HasArea(box) == box.west < box.east /\ box.south < box.north

\* feature_intersects_render_bbox: boxes that touch intersect.
Meets(a, b) ==
    /\ a.east >= b.west /\ a.west <= b.east
    /\ a.north >= b.south /\ a.south <= b.north

Inside(p, box) == p[1] \in box.west .. box.east /\ p[2] \in box.south .. box.north
=============================================================================
