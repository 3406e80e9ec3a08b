----------------------------- MODULE PackProofs -----------------------------
(***************************************************************************)
(* Proofs about map packs, for any source, number of workers and schedule: *)
(* the passes of the converter gather what the source says; its file, at   *)
(* every moment of the writing, misleads no reader; what the renderer      *)
(* shows of it for a box is what the source shows there; and the picture   *)
(* of a city is that of its boundary.                                      *)
(***************************************************************************)
EXTENDS MapPack, WellFoundedInduction, TLAPS, FiniteSetTheorems

-----------------------------------------------------------------------------
(***************************************************************************)
(* Numbers.                                                                *)
(***************************************************************************)
\* Every non-empty set of naturals has a least element, and it is the Min.
LEMMA LeastNumber ==
    ASSUME NEW T \in SUBSET Nat, T # {}
    PROVE  \E x \in T : \A y \in T : x <= y
<1>1. \E x \in T : \A y \in T : ~(<<y, x>> \in OpToRel(<, Nat))
  BY NatLessThanWellFounded, WFMin, Zenon
<1>2. PICK x \in T : \A y \in T : ~(<<y, x>> \in OpToRel(<, Nat))
  BY <1>1, Zenon
<1>3. ASSUME NEW y \in T PROVE x <= y
  <2>1. y < x => <<y, x>> \in OpToRel(<, Nat)
    BY Zenon DEF OpToRel
  <2>2. ~(y < x)
    BY <1>2, <2>1, Zenon
  <2>3. x \in Nat /\ y \in Nat
    BY Zenon
  <2> QED
    BY ONLY <2>2, <2>3, SMT
<1> QED
  BY <1>3, Zenon

LEMMA MinOfNumbers ==
    ASSUME NEW T \in SUBSET Nat, T # {}
    PROVE  Min(T) \in T /\ \A y \in T : Min(T) <= y
BY LeastNumber DEF Min

LEMMA MinIsUnique ==
    ASSUME NEW T \in SUBSET Nat, NEW x \in T, \A y \in T : x <= y
    PROVE  Min(T) = x
<1>1. Min(T) \in T /\ \A y \in T : Min(T) <= y
  BY MinOfNumbers
<1>2. Min(T) <= x /\ x <= Min(T) /\ x \in Nat /\ Min(T) \in Nat
  BY <1>1
<1> QED
  BY <1>2

\* What holds of 0 and of the next of each holds of every natural.
LEMMA EveryNumber ==
    ASSUME NEW T, 0 \in T, \A n \in Nat : n \in T => n + 1 \in T
    PROVE  \A n \in Nat : n \in T
<1> DEFINE U == {n \in Nat : n \notin T}
<1>1. SUFFICES ASSUME U # {} PROVE FALSE
  OBVIOUS
<1>2. PICK x \in U : \A y \in U : x <= y
  <2>1. U \in SUBSET Nat
    OBVIOUS
  <2> HIDE DEF U
  <2> QED
    BY <1>1, <2>1, LeastNumber
<1>3. x - 1 \in Nat /\ x - 1 \notin U
  BY <1>2
<1> QED
  BY <1>2, <1>3

-----------------------------------------------------------------------------
(***************************************************************************)
(* Map packs.                                                              *)
(***************************************************************************)
\* What the records of ways can hold.
AllWays == UNION {UNION {ToSet(b) : b \in ToSet(s.ways)} : s \in Sources}
Ids == {w.id : w \in AllWays} \cup UNION {ToSet(w.refs) : w \in AllWays}
Styles == {w.style : w \in AllWays}
Flags == {"coastline", "area", "line"}

Box == {b \in [west : Int, east : Int, south : Int, north : Int] : b.west <= b.east /\ b.south <= b.north}

(* Scaling and dividing keep the order of coordinates. *)
LEMMA ProductMonotone ==
    ASSUME NEW p \in Nat, NEW q \in Nat, p <= q, NEW n \in Nat
    PROVE  p * n <= q * n /\ p * n \in Nat /\ q * n \in Nat
  BY Z3

LEMMA QuotientMonotone ==
    ASSUME NEW x \in Nat, NEW y \in Nat, x <= y, NEW s \in Nat \ {0}
    PROVE  x \div s <= y \div s /\ x \div s \in Nat /\ y \div s \in Nat
  BY Z3

(* A clamped coordinate is in its range, and clamping keeps the order. *)
LEMMA ClampedMonotone ==
    ASSUME NEW c \in Int, NEW d \in Int, c <= d, NEW top \in Nat
    PROVE  Clamped(c, top) \in 0 .. top /\ Clamped(d, top) \in 0 .. top
           /\ Clamped(c, top) <= Clamped(d, top)
  BY DEF Clamped

(* The place on an axis of the grid, for either direction, keeps the order *)
(* of coordinates and is on the grid: v2_lon_to_tile_x, v2_lat_to_tile_y.  *)
LEMMA PlaceMonotone ==
    ASSUME NEW c \in Int, NEW d \in Int, c <= d
    PROVE  LET place(e) == Clamped((Clamped(e, Span) * Axis) \div Span, Axis - 1)
           IN place(c) \in 0 .. Axis - 1 /\ place(d) \in 0 .. Axis - 1 /\ place(c) <= place(d)
  <1> DEFINE place(e) == Clamped((Clamped(e, Span) * Axis) \div Span, Axis - 1)
             p == Clamped(c, Span)
             q == Clamped(d, Span)
  <1>1. Span \in Nat \ {0} /\ Axis \in Nat \ {0} /\ Axis - 1 \in Nat
    BY MapTilesAssumption DEF MapTilesAssumption
  <1>2. p \in Nat /\ q \in Nat /\ p <= q
    BY <1>1, ClampedMonotone
  <1> HIDE DEF p, q
  <1> DEFINE x == p * Axis
             y == q * Axis
  <1>3. x \in Nat /\ y \in Nat /\ x <= y
    BY <1>1, <1>2, ProductMonotone
  <1> HIDE DEF x, y
  <1> DEFINE r == x \div Span
             t == y \div Span
  <1>4. r \in Int /\ t \in Int /\ r <= t
    BY <1>1, <1>3, QuotientMonotone
  <1> HIDE DEF r, t
  <1>5. /\ Clamped(r, Axis - 1) \in 0 .. Axis - 1 /\ Clamped(t, Axis - 1) \in 0 .. Axis - 1
        /\ Clamped(r, Axis - 1) <= Clamped(t, Axis - 1)
    BY <1>1, <1>4, ClampedMonotone
  <1>6. place(c) = Clamped(r, Axis - 1) /\ place(d) = Clamped(t, Axis - 1)
    BY DEF p, q, x, y, r, t
  <1> QED BY <1>5, <1>6

LEMMA ColumnMonotone ==
    ASSUME NEW c \in Int, NEW d \in Int, c <= d
    PROVE  Column(c) \in 0 .. Axis - 1 /\ Column(d) \in 0 .. Axis - 1 /\ Column(c) <= Column(d)
  BY PlaceMonotone DEF Column

(* Rows run from north to south. *)
LEMMA RowMonotone ==
    ASSUME NEW c \in Int, NEW d \in Int, c <= d
    PROVE  Row(c) \in 0 .. Axis - 1 /\ Row(d) \in 0 .. Axis - 1 /\ Row(d) <= Row(c)
  <1>1. Span - d \in Int /\ Span - c \in Int /\ Span - d <= Span - c
    BY MapTilesAssumption DEF MapTilesAssumption
  <1> QED BY <1>1, PlaceMonotone DEF Row

(* A point of two boxes has a tile that is among the tiles of both. *)
LEMMA TileOfPoint ==
    ASSUME NEW b \in Box, NEW lon \in b.west .. b.east, NEW lat \in b.south .. b.north, NEW halo \in Nat
    PROVE  <<Column(lon), Row(lat)>> \in Cover(b, halo)
  <1>1. b.west \in Int /\ b.east \in Int /\ b.south \in Int /\ b.north \in Int
    BY DEF Box
  <1>2. lon \in Int /\ lat \in Int /\ b.west <= lon /\ lon <= b.east /\ b.south <= lat /\ lat <= b.north
    BY <1>1
  <1>3. Column(b.west) <= Column(lon) /\ Column(lon) <= Column(b.east)
    BY <1>1, <1>2, ColumnMonotone
  <1>4. Row(b.north) <= Row(lat) /\ Row(lat) <= Row(b.south)
    BY <1>1, <1>2, RowMonotone
  <1>5. /\ Column(lon) \in 0 .. Axis - 1 /\ Column(b.west) \in Int /\ Column(b.east) \in Int
        /\ Row(lat) \in 0 .. Axis - 1 /\ Row(b.north) \in Int /\ Row(b.south) \in Int
    <2>1. Column(lon) \in 0 .. Axis - 1 /\ Column(b.west) \in 0 .. Axis - 1 /\ Column(b.east) \in 0 .. Axis - 1
      BY <1>1, <1>2, ColumnMonotone
    <2>2. Row(lat) \in 0 .. Axis - 1 /\ Row(b.north) \in 0 .. Axis - 1 /\ Row(b.south) \in 0 .. Axis - 1
      BY <1>1, <1>2, RowMonotone
    <2> QED BY <2>1, <2>2
  <1> DEFINE tile == <<Column(lon), Row(lat)>>
  <1>6. tile \in (0 .. Axis - 1) \X (0 .. Axis - 1) /\ tile[1] = Column(lon) /\ tile[2] = Row(lat)
    BY <1>5
  <1>7. tile[1] \in Column(b.west) - halo .. Column(b.east) + halo
    BY <1>3, <1>5, <1>6
  <1>8. tile[2] \in Row(b.north) - halo .. Row(b.south) + halo
    BY <1>4, <1>5, <1>6
  <1> QED BY <1>6, <1>7, <1>8 DEF Cover

(* Whenever the box of a feature and the box of a rendering meet, one of   *)
(* the tiles of the feature (v2_materialize_features_and_assign_tiles) is  *)
(* among the tiles that collect_visible_features_v2 reads, for every zoom, *)
(* every halo and boxes that reach beyond the world.                       *)
THEOREM MeetingBoxesShareATile ==
    ASSUME NEW a \in Box, NEW b \in Box, Meets(a, b), NEW halo \in Nat
    PROVE  \E tile \in Cover(a, 0) : tile \in Cover(b, halo)
  <1> DEFINE lon == IF a.west >= b.west THEN a.west ELSE b.west
             lat == IF a.south >= b.south THEN a.south ELSE b.south
  <1>1. lon \in a.west .. a.east /\ lon \in b.west .. b.east
    BY DEF Box, Meets
  <1>2. lat \in a.south .. a.north /\ lat \in b.south .. b.north
    BY DEF Box, Meets
  <1> HIDE DEF lon, lat
  <1>3. <<Column(lon), Row(lat)>> \in Cover(a, 0)
    BY <1>1, <1>2, TileOfPoint
  <1>4. <<Column(lon), Row(lat)>> \in Cover(b, halo)
    BY <1>1, <1>2, TileOfPoint
  <1> QED BY <1>3, <1>4

-----------------------------------------------------------------------------
(* The lists of a worker or of the context, each feature and each place    *)
(* way with a stretch of the refs that lies within them.                   *)
Features == [style : Styles, flag : Flags, first : Nat, n : Nat]
PlaceWays == [id : Ids, first : Nat, n : Nat]

Fits(record, refs) == record.first + record.n <= Len(refs)
Stretch(refs, record) == SubSeq(refs, record.first + 1, record.first + record.n)

Lists == {l \in [refs : Seq(Ids), features : Seq(Features), placeWays : Seq(PlaceWays)] :
            /\ \A i \in 1 .. Len(l.features) : Fits(l.features[i], l.refs)
            /\ \A i \in 1 .. Len(l.placeWays) : Fits(l.placeWays[i], l.refs)}

(* A stretch of a list is a stretch of the list it is put behind, with its *)
(* beginning moved; and a stretch of the list that is put behind it.       *)
LEMMA StretchMoved ==
    ASSUME NEW S, NEW old \in Seq(S), NEW new \in Seq(S)
    PROVE  \A first, n \in Nat : first + n <= Len(new) =>
               SubSeq(old \o new, first + Len(old) + 1, first + Len(old) + n) = SubSeq(new, first + 1, first + n)
  OBVIOUS

LEMMA StretchElements ==
    ASSUME NEW S, NEW all \in Seq(S), NEW first \in Nat, NEW n \in Nat, first + n <= Len(all)
    PROVE  \A k \in 1 .. n : /\ SubSeq(all, first + 1, first + n)[k] = all[first + k]
                             /\ all[first + k] \in ToSet(all)
  <1>1. \A k \in 1 .. n : first + k \in 1 .. Len(all) /\ first + k \in DOMAIN all
    OBVIOUS
  <1>2. \A k \in 1 .. n : SubSeq(all, first + 1, first + n)[k] = all[first + k]
    OBVIOUS
  <1> QED BY <1>1, <1>2, Zenon DEF ToSet

LEMMA LongerConcatenation ==
    ASSUME NEW S, NEW old \in Seq(S), NEW new \in Seq(S)
    PROVE  \A k \in Nat : /\ k <= Len(old) => k <= Len(old \o new)
                          /\ k <= Len(new) => k + Len(old) <= Len(old \o new)
  OBVIOUS

LEMMA StretchKept ==
    ASSUME NEW S, NEW old \in Seq(S), NEW new \in Seq(S), NEW first \in Nat, NEW n \in Nat,
           first + n <= Len(old)
    PROVE  SubSeq(old \o new, first + 1, first + n) = SubSeq(old, first + 1, first + n)
  OBVIOUS

LEMMA ConcatenationLength ==
    ASSUME NEW S, NEW a \in Seq(S), NEW b \in Seq(S)
    PROVE  /\ a \o b \in Seq(S)
           /\ Len(a \o b) = Len(a) + Len(b)
           /\ Len(a) \in Nat /\ Len(b) \in Nat
  OBVIOUS

LEMMA Concatenation ==
    ASSUME NEW S, NEW a \in Seq(S), NEW b \in Seq(S)
    PROVE  /\ \A i \in 1 .. Len(a) : (a \o b)[i] = a[i] /\ a[i] \in S
           /\ \A i \in 1 .. Len(b) : (a \o b)[Len(a) + i] = b[i] /\ b[i] \in S
  OBVIOUS

(* What rebasing needs of a kind of records. *)
Movable(R) ==
    \A r \in R :
        /\ r.first \in Nat /\ r.n \in Nat
        /\ \A k \in Nat :
              /\ [r EXCEPT !.first = k] \in R
              /\ [r EXCEPT !.first = k].first = k
              /\ [r EXCEPT !.first = k].n = r.n
              /\ [[r EXCEPT !.first = k] EXCEPT !.first = 0] = [r EXCEPT !.first = 0]

LEMMA FeaturesMove == Movable(Features)
  <1>1. ASSUME NEW r \in Features, NEW k \in Nat
        PROVE  /\ [r EXCEPT !.first = k] \in Features
               /\ [r EXCEPT !.first = k].first = k
               /\ [r EXCEPT !.first = k].n = r.n
               /\ [[r EXCEPT !.first = k] EXCEPT !.first = 0] = [r EXCEPT !.first = 0]
    <2>1. \A j : [r EXCEPT !.first = j] = [style |-> r.style, flag |-> r.flag, first |-> j, n |-> r.n]
      BY DEF Features
    <2> DEFINE q == [r EXCEPT !.first = k]
    <2>2. q = [style |-> r.style, flag |-> r.flag, first |-> k, n |-> r.n] /\ q \in Features
      BY <2>1 DEF Features
    <2>3. [q EXCEPT !.first = 0] = [style |-> r.style, flag |-> r.flag, first |-> 0, n |-> r.n]
      <3> HIDE DEF q
      <3> QED BY <2>2
    <2> QED BY <2>1, <2>2, <2>3
  <1>2. \A r \in Features : r.first \in Nat /\ r.n \in Nat
    BY DEF Features
  <1> QED BY <1>1, <1>2 DEF Movable

LEMMA PlaceWaysMove == Movable(PlaceWays)
  <1>1. ASSUME NEW r \in PlaceWays, NEW k \in Nat
        PROVE  /\ [r EXCEPT !.first = k] \in PlaceWays
               /\ [r EXCEPT !.first = k].first = k
               /\ [r EXCEPT !.first = k].n = r.n
               /\ [[r EXCEPT !.first = k] EXCEPT !.first = 0] = [r EXCEPT !.first = 0]
    <2>1. \A j : [r EXCEPT !.first = j] = [id |-> r.id, first |-> j, n |-> r.n]
      BY DEF PlaceWays
    <2> DEFINE q == [r EXCEPT !.first = k]
    <2>2. q = [id |-> r.id, first |-> k, n |-> r.n] /\ q \in PlaceWays
      BY <2>1 DEF PlaceWays
    <2>3. [q EXCEPT !.first = 0] = [id |-> r.id, first |-> 0, n |-> r.n]
      <3> HIDE DEF q
      <3> QED BY <2>2
    <2> QED BY <2>1, <2>2, <2>3
  <1>2. \A r \in PlaceWays : r.first \in Nat /\ r.n \in Nat
    BY DEF PlaceWays
  <1> QED BY <1>1, <1>2 DEF Movable

(* Rebasing changes nothing but where the stretches begin. *)
LEMMA RebasedRecords ==
    ASSUME NEW R, Movable(R), NEW records \in Seq(R), NEW offset \in Nat
    PROVE  /\ Rebased(records, offset) \in Seq(R)
           /\ Len(Rebased(records, offset)) = Len(records)
           /\ \A i \in 1 .. Len(records) :
                Rebased(records, offset)[i] = [records[i] EXCEPT !.first = records[i].first + offset]
  <1> DEFINE moved == Rebased(records, offset)
             length == Len(records)
  <1>1. length \in Nat /\ DOMAIN records = 1 .. length /\ \A i \in 1 .. length : records[i] \in R
    OBVIOUS
  <1>2. moved = [i \in 1 .. length |-> [records[i] EXCEPT !.first = records[i].first + offset]]
    BY <1>1, Zenon DEF Rebased
  <1>3. \A r \in R : [r EXCEPT !.first = r.first + offset] \in R
    <2>1. ASSUME NEW r \in R PROVE [r EXCEPT !.first = r.first + offset] \in R
      <3>0. r.first \in Nat
        BY Zenon DEF Movable
      <3>1. r.first + offset \in Nat
        BY <3>0
      <3>2. \A k \in Nat : [r EXCEPT !.first = k] \in R
        BY Zenon DEF Movable
      <3> QED BY <3>1, <3>2, Zenon
    <2> QED BY <2>1, Zenon
  <1> HIDE DEF length, moved
  <1>4. moved \in [1 .. length -> R]
    BY <1>1, <1>2, <1>3
  <1>5. moved \in Seq(R) /\ Len(moved) = length
    BY <1>1, <1>4
  <1>6. \A i \in 1 .. length : moved[i] = [records[i] EXCEPT !.first = records[i].first + offset]
    BY <1>2
  <1> QED BY <1>5, <1>6 DEF moved, length

(* Merging a worker (v2_way_worker_merge) keeps the features that were     *)
(* there with the refs they had, and appends those of the worker in their  *)
(* order, each with the refs it had in the worker's own list: however      *)
(* many workers are merged, in whatever order, no feature gets the refs    *)
(* of another.                                                             *)
THEOREM MergeKeepsFeatures ==
    ASSUME NEW context \in Lists, NEW w \in Lists
    PROVE  LET m == Merged(context, w)
               old == Len(context.features)
           IN /\ m.features \in Seq(Features)
              /\ Len(m.features) = old + Len(w.features)
              /\ \A i \in 1 .. old :
                    /\ m.features[i] = context.features[i]
                    /\ Fits(m.features[i], m.refs)
                    /\ Stretch(m.refs, m.features[i]) = Stretch(context.refs, context.features[i])
              /\ \A i \in 1 .. Len(w.features) :
                    /\ m.features[old + i].style = w.features[i].style
                    /\ m.features[old + i].flag = w.features[i].flag
                    /\ Fits(m.features[old + i], m.refs)
                    /\ Stretch(m.refs, m.features[old + i]) = Stretch(w.refs, w.features[i])
  <1> DEFINE m == Merged(context, w)
             offset == Len(context.refs)
             moved == Rebased(w.features, offset)
             old == Len(context.features)
  <1>1. /\ context.refs \in Seq(Ids) /\ w.refs \in Seq(Ids) /\ offset \in Nat
        /\ context.features \in Seq(Features) /\ w.features \in Seq(Features)
    BY DEF Lists
  <1>2. m.refs = context.refs \o w.refs /\ m.features = context.features \o moved
    BY DEF Merged
  <1>3. moved \in Seq(Features) /\ Len(moved) = Len(w.features)
    BY <1>1, FeaturesMove, RebasedRecords
  <1>e. \A i \in 1 .. Len(w.features) : moved[i] = [w.features[i] EXCEPT !.first = w.features[i].first + offset]
    BY <1>1, FeaturesMove, RebasedRecords
  <1>d. \A k \in Nat : /\ k <= Len(context.refs) => k <= Len(context.refs \o w.refs)
                       /\ k <= Len(w.refs) => k + Len(context.refs) <= Len(context.refs \o w.refs)
    <2>1. context.refs \in Seq(Ids) /\ w.refs \in Seq(Ids)
      BY <1>1
    <2> QED BY <2>1, LongerConcatenation, Zenon
  <1>f. \A x, y \in Nat : x + y <= Len(w.refs) =>
            SubSeq(context.refs \o w.refs, x + Len(context.refs) + 1, x + Len(context.refs) + y)
            = SubSeq(w.refs, x + 1, x + y)
    <2>1. context.refs \in Seq(Ids) /\ w.refs \in Seq(Ids)
      BY <1>1
    <2>2. ASSUME NEW x \in Nat, NEW y \in Nat, x + y <= Len(w.refs)
          PROVE  SubSeq(context.refs \o w.refs, x + Len(context.refs) + 1, x + Len(context.refs) + y)
                 = SubSeq(w.refs, x + 1, x + y)
      BY <2>1, <2>2, StretchMoved, ZenonT(40)
    <2> QED BY <2>2
  <1> HIDE DEF m, moved
  <1>5. m.features \in Seq(Features) /\ Len(m.features) = old + Len(w.features)
    <2>1. /\ context.features \o moved \in Seq(Features)
          /\ Len(context.features \o moved) = Len(context.features) + Len(moved)
      BY <1>1, <1>3, ConcatenationLength
    <2> QED BY <1>2, <1>3, <2>1
  <1>a. \A i \in 1 .. old : m.features[i] = context.features[i] /\ context.features[i] \in Features
    BY <1>1, <1>2, <1>3, Concatenation
  <1>b. \A i \in 1 .. Len(w.features) : m.features[old + i] = moved[i] /\ w.features[i] \in Features
    <2>1. \A i \in 1 .. Len(moved) : m.features[old + i] = moved[i]
      BY <1>1, <1>2, <1>3, Concatenation
    <2>2. \A i \in 1 .. Len(w.features) : w.features[i] \in Features
      BY <1>1
    <2> QED BY <1>3, <2>1, <2>2
  <1>c. /\ \A i \in 1 .. old : Fits(context.features[i], context.refs)
        /\ \A i \in 1 .. Len(w.features) : Fits(w.features[i], w.refs)
    BY DEF Lists
  <1>6. ASSUME NEW i \in 1 .. old
        PROVE  /\ m.features[i] = context.features[i]
               /\ Fits(m.features[i], m.refs)
               /\ Stretch(m.refs, m.features[i]) = Stretch(context.refs, context.features[i])
    <2>1. m.features[i] = context.features[i] /\ context.features[i] \in Features
      BY <1>a
    <2> DEFINE f == context.features[i]
    <2>2. f.first \in Nat /\ f.n \in Nat /\ f.first + f.n <= Len(context.refs)
      BY <1>c, <2>1 DEF Fits, Features
    <2> HIDE DEF f
    <2>3. Fits(f, m.refs)
      <3>1. f.first + f.n \in Nat
        BY <2>2
      <3>2. f.first + f.n <= Len(context.refs \o w.refs)
        BY <1>d, <2>2, <3>1
      <3> QED BY <1>2, <3>2 DEF Fits
    <2>4. Stretch(m.refs, f) = Stretch(context.refs, f)
      <3>1. SubSeq(context.refs \o w.refs, f.first + 1, f.first + f.n) = SubSeq(context.refs, f.first + 1, f.first + f.n)
        BY <1>1, <2>2, StretchKept, ZenonT(40)
      <3> QED BY <1>2, <3>1 DEF Stretch
    <2> QED BY <2>1, <2>3, <2>4 DEF f
  <1>7. ASSUME NEW i \in 1 .. Len(w.features)
        PROVE  /\ m.features[old + i].style = w.features[i].style
               /\ m.features[old + i].flag = w.features[i].flag
               /\ Fits(m.features[old + i], m.refs)
               /\ Stretch(m.refs, m.features[old + i]) = Stretch(w.refs, w.features[i])
    <2> DEFINE f == w.features[i]
               g == m.features[old + i]
    <2>1. g = moved[i] /\ f \in Features
      BY <1>b
    <2>2. g = [f EXCEPT !.first = f.first + offset]
      BY <1>e, <2>1
    <2>3. f.first \in Nat /\ f.n \in Nat /\ f.first + f.n <= Len(w.refs)
      BY <1>c, <2>1 DEF Fits, Features
    <2>4. g.first = f.first + offset /\ g.n = f.n /\ g.style = f.style /\ g.flag = f.flag
      BY <2>1, <2>2 DEF Features
    <2> HIDE DEF f, g
    <2>5. Fits(g, m.refs)
      <3>1. f.first + f.n \in Nat /\ f.first + f.n + offset = g.first + g.n
        BY <1>1, <2>3, <2>4
      <3>2. f.first + f.n + offset <= Len(context.refs \o w.refs)
        BY <1>d, <2>3, <3>1
      <3> QED BY <1>2, <3>1, <3>2 DEF Fits
    <2>6. Stretch(m.refs, g) = Stretch(w.refs, f)
      <3>1. SubSeq(context.refs \o w.refs, f.first + offset + 1, f.first + offset + f.n)
            = SubSeq(w.refs, f.first + 1, f.first + f.n)
        BY <1>f, <2>3
      <3> QED BY <1>2, <2>4, <3>1 DEF Stretch
    <2> QED BY <2>4, <2>5, <2>6 DEF f, g
  <1> QED BY <1>5, <1>6, <1>7 DEF m

-----------------------------------------------------------------------------
(***************************************************************************)
(* What a list of records says, wherever in the refs its stretches begin.  *)
(***************************************************************************)
AllFit(records, refs) == \A i \in 1 .. Len(records) : Fits(records[i], refs)
Look(records, refs) == {<<[r EXCEPT !.first = 0], Stretch(refs, r)>> : r \in ToSet(records)}

LEMMA RecordTypes ==
    ASSUME NEW R, Movable(R), NEW records \in Seq(R), NEW refs, AllFit(records, refs)
    PROVE  \A r \in ToSet(records) : r \in R /\ r.first \in Nat /\ r.n \in Nat /\ r.first + r.n <= Len(refs)
  <1>1. ASSUME NEW r \in ToSet(records)
        PROVE  r \in R /\ Fits(r, refs)
    <2>1. PICK i \in 1 .. Len(records) : r = records[i]
      BY DEF ToSet
    <2> QED BY <2>1 DEF AllFit
  <1> QED BY <1>1 DEF Movable, Fits

(* Refs that are appended change nothing. *)
LEMMA LookKept ==
    ASSUME NEW R, Movable(R), NEW records \in Seq(R), NEW old \in Seq(Ids), NEW new \in Seq(Ids),
           AllFit(records, old)
    PROVE  AllFit(records, old \o new) /\ Look(records, old \o new) = Look(records, old)
  <1>1. \A r \in ToSet(records) : r \in R /\ r.first \in Nat /\ r.n \in Nat /\ r.first + r.n <= Len(old)
    BY RecordTypes, Zenon
  <1>2. ASSUME NEW r \in ToSet(records)
        PROVE  Fits(r, old \o new) /\ Stretch(old \o new, r) = Stretch(old, r)
    <2>1. r.first \in Nat /\ r.n \in Nat /\ r.first + r.n <= Len(old) /\ r.first + r.n \in Nat
      BY <1>1
    <2>2. r.first + r.n <= Len(old \o new)
      BY <2>1, LongerConcatenation, Zenon
    <2>3. SubSeq(old \o new, r.first + 1, r.first + r.n) = SubSeq(old, r.first + 1, r.first + r.n)
      BY <2>1, StretchKept, ZenonT(40)
    <2> QED BY <2>2, <2>3, Zenon DEF Fits, Stretch
  <1>3. AllFit(records, old \o new)
    <2>1. \A i \in 1 .. Len(records) : records[i] \in ToSet(records)
      BY DEF ToSet
    <2> QED BY <1>2, <2>1, Zenon DEF AllFit
  <1>4. Look(records, old \o new) = Look(records, old)
    BY <1>2, Zenon DEF Look
  <1> QED BY <1>3, <1>4

(* Records that are rebased say of the longer refs what they said of their *)
(* own.                                                                    *)
LEMMA LookMoved ==
    ASSUME NEW R, Movable(R), NEW records \in Seq(R), NEW old \in Seq(Ids), NEW new \in Seq(Ids),
           AllFit(records, new)
    PROVE  /\ Rebased(records, Len(old)) \in Seq(R)
           /\ AllFit(Rebased(records, Len(old)), old \o new)
           /\ Look(Rebased(records, Len(old)), old \o new) = Look(records, new)
  <1> DEFINE moved == Rebased(records, Len(old))
             length == Len(records)
             offset == Len(old)
  <1>1. offset \in Nat /\ length \in Nat /\ \A i \in 1 .. length : records[i] \in R /\ Fits(records[i], new)
    BY DEF AllFit
  <1>2. /\ moved \in Seq(R) /\ Len(moved) = length
        /\ \A i \in 1 .. length : moved[i] = [records[i] EXCEPT !.first = records[i].first + offset]
    BY <1>1, RebasedRecords
  <1>3. ASSUME NEW i \in 1 .. length
        PROVE  /\ Fits(moved[i], old \o new)
               /\ [moved[i] EXCEPT !.first = 0] = [records[i] EXCEPT !.first = 0]
               /\ Stretch(old \o new, moved[i]) = Stretch(new, records[i])
    <2> DEFINE r == records[i]
               k == r.first + offset
               q == [r EXCEPT !.first = k]
    <2>1. r \in R /\ r.first \in Nat /\ r.n \in Nat /\ r.first + r.n <= Len(new) /\ k \in Nat
      <3>1. r \in R /\ Fits(r, new)
        BY <1>1
      <3>2. r.first \in Nat /\ r.n \in Nat
        BY <3>1, Zenon DEF Movable
      <3> HIDE DEF r
      <3> QED BY <1>1, <3>1, <3>2 DEF Fits
    <2>2. moved[i] = q
      BY <1>2
    <2>3. q.first = k /\ q.n = r.n /\ [q EXCEPT !.first = 0] = [r EXCEPT !.first = 0]
      <3> HIDE DEF k
      <3>1. \A j \in Nat : /\ [r EXCEPT !.first = j].first = j
                           /\ [r EXCEPT !.first = j].n = r.n
                           /\ [[r EXCEPT !.first = j] EXCEPT !.first = 0] = [r EXCEPT !.first = 0]
        <4> HIDE DEF r
        <4> QED BY <2>1, Zenon DEF Movable
      <3> QED BY <2>1, <3>1, Zenon
    <2> HIDE DEF q, r
    <2>4. Fits(q, old \o new)
      <3>1. r.first + r.n \in Nat /\ r.first + r.n + offset = q.first + q.n
        BY <1>1, <2>1, <2>3
      <3>2. r.first + r.n + offset <= Len(old \o new)
        BY <2>1, <3>1, LongerConcatenation, Zenon
      <3> QED BY <3>1, <3>2 DEF Fits
    <2>5. Stretch(old \o new, q) = Stretch(new, r)
      <3>1. SubSeq(old \o new, r.first + offset + 1, r.first + offset + r.n) = SubSeq(new, r.first + 1, r.first + r.n)
        BY <2>1, StretchMoved, ZenonT(40)
      <3> QED BY <2>3, <3>1, Zenon DEF Stretch
    <2> QED BY <2>2, <2>3, <2>4, <2>5, Zenon DEF r
  <1> HIDE DEF moved, length
  <1>4. DOMAIN moved = 1 .. length /\ DOMAIN records = 1 .. length
    BY <1>1, <1>2 DEF length
  <1>5. AllFit(moved, old \o new)
    BY <1>2, <1>3, Zenon DEF AllFit
  <1>6. ToSet(moved) = {moved[i] : i \in 1 .. length} /\ ToSet(records) = {records[i] : i \in 1 .. length}
    BY <1>4, Zenon DEF ToSet
  <1>6a. /\ \A r : r \in ToSet(moved) <=> \E i \in 1 .. length : r = moved[i]
         /\ \A r : r \in ToSet(records) <=> \E i \in 1 .. length : r = records[i]
    BY <1>6, Zenon
  <1> DEFINE there(r) == <<[r EXCEPT !.first = 0], Stretch(old \o new, r)>>
             here(r) == <<[r EXCEPT !.first = 0], Stretch(new, r)>>
  <1>7. \A i \in 1 .. length : there(moved[i]) = here(records[i])
    BY <1>3, Zenon
  <1>7a. /\ \A x : x \in Look(moved, old \o new) <=> \E r \in ToSet(moved) : x = there(r)
         /\ \A x : x \in Look(records, new) <=> \E r \in ToSet(records) : x = here(r)
    BY Zenon DEF Look
  <1> HIDE DEF there, here
  <1>7b. /\ \A x : x \in Look(moved, old \o new) <=> \E i \in 1 .. length : x = there(moved[i])
         /\ \A x : x \in Look(records, new) <=> \E i \in 1 .. length : x = here(records[i])
    BY <1>6a, <1>7a
  <1>8. Look(moved, old \o new) = Look(records, new)
    BY <1>7, <1>7b, Zenon
  <1> QED BY <1>2, <1>5, <1>8 DEF moved

LEMMA LookJoined ==
    ASSUME NEW R, NEW a \in Seq(R), NEW b \in Seq(R), NEW refs
    PROVE  /\ a \o b \in Seq(R)
           /\ Look(a \o b, refs) = Look(a, refs) \cup Look(b, refs)
           /\ AllFit(a, refs) /\ AllFit(b, refs) => AllFit(a \o b, refs)
  <1>1. /\ a \o b \in Seq(R) /\ Len(a \o b) = Len(a) + Len(b) /\ Len(a) \in Nat /\ Len(b) \in Nat
        /\ DOMAIN a = 1 .. Len(a) /\ DOMAIN b = 1 .. Len(b) /\ DOMAIN (a \o b) = 1 .. Len(a) + Len(b)
    OBVIOUS
  <1>2. /\ \A i \in 1 .. Len(a) : (a \o b)[i] = a[i]
        /\ \A i \in 1 .. Len(b) : (a \o b)[Len(a) + i] = b[i]
    BY Concatenation
  <1> DEFINE c == a \o b
             m == Len(a)
             n == Len(b)
  <1>3. m \in Nat /\ n \in Nat /\ DOMAIN c = 1 .. m + n /\ DOMAIN a = 1 .. m /\ DOMAIN b = 1 .. n /\ Len(c) = m + n
    BY <1>1
  <1>4. /\ \A i \in 1 .. m : c[i] = a[i]
        /\ \A i \in 1 .. n : c[m + i] = b[i]
    BY <1>2
  <1>5. c \in Seq(R)
    BY <1>1
  <1> HIDE DEF c, m, n
  <1>6. \A i \in 1 .. m + n : i \in 1 .. m \/ (i - m \in 1 .. n /\ m + (i - m) = i)
    BY <1>3
  <1>6a. \A i \in 1 .. n : m + i \in 1 .. m + n
    BY <1>3
  <1>6b. \A i \in 1 .. m : i \in 1 .. m + n
    BY <1>3
  <1>7. ToSet(c) = ToSet(a) \cup ToSet(b)
    <2>1. ASSUME NEW i \in 1 .. m + n PROVE c[i] \in ToSet(a) \cup ToSet(b)
      <3>1. CASE i \in 1 .. m
        BY <1>3, <1>4, <3>1 DEF ToSet
      <3>2. CASE i - m \in 1 .. n /\ m + (i - m) = i
        <4>1. c[i] = b[i - m]
          BY <1>4, <3>2
        <4> QED BY <1>3, <3>2, <4>1, Zenon DEF ToSet
      <3> QED BY <1>6, <3>1, <3>2
    <2>2. \A i \in 1 .. m : a[i] \in ToSet(c)
      BY <1>3, <1>4, <1>6b, Zenon DEF ToSet
    <2>3. \A i \in 1 .. n : b[i] \in ToSet(c)
      BY <1>3, <1>4, <1>6a, Zenon DEF ToSet
    <2>4. ToSet(c) \subseteq ToSet(a) \cup ToSet(b)
      BY <1>3, <2>1, Zenon DEF ToSet
    <2>5. ToSet(a) \subseteq ToSet(c) /\ ToSet(b) \subseteq ToSet(c)
      BY <1>3, <2>2, <2>3, Zenon DEF ToSet
    <2> QED BY <2>4, <2>5
  <1>8. Look(c, refs) = Look(a, refs) \cup Look(b, refs)
    BY <1>7 DEF Look
  <1>9. AllFit(a, refs) /\ AllFit(b, refs) => AllFit(c, refs)
    <2>1. SUFFICES ASSUME AllFit(a, refs), AllFit(b, refs), NEW i \in 1 .. m + n
                   PROVE  Fits(c[i], refs)
      BY <1>3, Zenon DEF AllFit
    <2>2. CASE i \in 1 .. m
      BY <1>4, <2>1, <2>2, Zenon DEF AllFit, m
    <2>3. CASE i - m \in 1 .. n /\ m + (i - m) = i
      <3>1. c[i] = b[i - m]
        BY <1>4, <2>3
      <3> QED BY <2>1, <2>3, <3>1, Zenon DEF AllFit, n
    <2> QED BY <1>6, <2>2, <2>3
  <1> QED BY <1>5, <1>8, <1>9 DEF c

(* One more record, whose stretch is what the refs have just got. *)
LEMMA LookAppended ==
    ASSUME NEW R, Movable(R), NEW records \in Seq(R), NEW old \in Seq(Ids), NEW new \in Seq(Ids),
           AllFit(records, old), NEW r \in R, r.first = Len(old), r.n = Len(new)
    PROVE  /\ Append(records, r) \in Seq(R)
           /\ AllFit(Append(records, r), old \o new)
           /\ Look(Append(records, r), old \o new) = Look(records, old) \cup {<<[r EXCEPT !.first = 0], new>>}
  <1>1. Append(records, r) = records \o <<r>> /\ <<r>> \in Seq(R) /\ Len(<<r>>) = 1 /\ <<r>>[1] = r
    OBVIOUS
  <1>2. AllFit(records, old \o new) /\ Look(records, old \o new) = Look(records, old)
    BY LookKept
  <1>3. /\ Len(old \o new) = Len(old) + Len(new) /\ Len(old) \in Nat /\ Len(new) \in Nat
        /\ SubSeq(old \o new, Len(old) + 1, Len(old) + Len(new)) = new
    OBVIOUS
  <1>4. Fits(r, old \o new) /\ Stretch(old \o new, r) = new
    BY <1>3 DEF Fits, Stretch
  <1>5. AllFit(<<r>>, old \o new)
    BY <1>1, <1>4 DEF AllFit
  <1>6. ToSet(<<r>>) = {r}
    BY DEF ToSet
  <1>7. Look(<<r>>, old \o new) = {<<[r EXCEPT !.first = 0], new>>}
    BY <1>4, <1>6, Zenon DEF Look
  <1> DEFINE one == <<r>>
  <1>8. one \in Seq(R) /\ AllFit(one, old \o new) /\ Look(one, old \o new) = {<<[r EXCEPT !.first = 0], new>>}
    BY <1>1, <1>5, <1>7
  <1> HIDE DEF one
  <1> DEFINE refs == old \o new
  <1>8a. AllFit(records, refs) /\ AllFit(one, refs)
    BY <1>2, <1>8
  <1> HIDE DEF refs
  <1>9. /\ records \o one \in Seq(R)
        /\ Look(records \o one, refs) = Look(records, refs) \cup Look(one, refs)
        /\ AllFit(records \o one, refs)
    BY <1>8, <1>8a, LookJoined
  <1> QED BY <1>1, <1>2, <1>8, <1>9, Zenon DEF one, refs

-----------------------------------------------------------------------------
(***************************************************************************)
(* Folds over a sequence: what is computed after each element.             *)
(***************************************************************************)
\* A set of numbers that are bounded has its largest.
LEMMA MaxOfBounded ==
    ASSUME NEW n \in Nat, NEW s \in SUBSET (1..n), s # {}
    PROVE  Max(s) \in s /\ \A x \in s : x <= Max(s)
  <1> DEFINE D == {b \in Nat : \A x \in s : x <= b}
  <1>1. \A x \in s : x \in Nat /\ 1 <= x /\ x <= n
    OBVIOUS
  <1>2. D \in SUBSET Nat /\ D # {}
    BY <1>1
  <1>3. PICK m \in D : \A b \in D : m <= b
    <2> HIDE DEF D
    <2> QED BY <1>2, LeastNumber
  <1>4. ASSUME m \notin s PROVE FALSE
    <2>1. \E x \in s : x \in Nat /\ 1 <= x
      BY <1>1
    <2>2. m \in Nat /\ \A x \in s : x <= m - 1
      BY <1>1, <1>3, <1>4
    <2>3. m - 1 \in D
      BY <2>1, <2>2
    <2> QED BY <1>3, <2>2, <2>3
  <1>5. \E x \in s : \A y \in s : x >= y
    BY <1>1, <1>3, <1>4
  <1>6. Max(s) \in s /\ \A y \in s : Max(s) >= y
    BY <1>5 DEF Max
  <1> QED BY <1>1, <1>6

LEMMA MaxOfPrefix ==
    ASSUME NEW k \in Nat
    PROVE  Max(1 .. k + 1) = k + 1 /\ (1 .. k + 1) \ {k + 1} = 1 .. k /\ 1 .. k + 1 # {}
  <1>1. (1 .. k + 1) \ {k + 1} = 1 .. k /\ k + 1 \in 1 .. k + 1 /\ k + 1 \in Nat
    OBVIOUS
  <1>2. Max(1 .. k + 1) \in 1 .. k + 1 /\ k + 1 <= Max(1 .. k + 1)
    BY <1>1, MaxOfBounded
  <1> QED BY <1>1, <1>2

\* A fold over 1..n, from a start, that does G[i] at i.
Folding(f, start, G, n) ==
    f = [s \in SUBSET (1..n) |-> IF s = {} THEN start ELSE G[Max(s)][f[s \ {Max(s)}]]]

LEMMA FoldExists ==
    ASSUME NEW X, NEW start \in X, NEW n \in Nat, NEW G \in [1..n -> [X -> X]]
    PROVE  \E f \in [SUBSET (1..n) -> X] : Folding(f, start, G, n)
  <1> DEFINE T == {m \in Nat : m <= n => \E f \in [SUBSET (1..m) -> X] : Folding(f, start, G, m)}
  <1>1. 0 \in T
    <2> DEFINE f == [s \in SUBSET (1..0) |-> start]
    <2>1. 1..0 = {}
      OBVIOUS
    <2>2. \A s \in SUBSET (1..0) : s = {}
      BY <2>1
    <2>3. f \in [SUBSET (1..0) -> X]
      OBVIOUS
    <2>4. f = [s \in SUBSET (1..0) |-> IF s = {} THEN start ELSE G[Max(s)][f[s \ {Max(s)}]]]
      BY <2>2, Zenon
    <2> HIDE DEF f
    <2>5. Folding(f, start, G, 0)
      BY <2>4, Zenon DEF Folding
    <2> QED BY <2>3, <2>5
  <1>2. ASSUME NEW l \in Nat, l \in T PROVE l + 1 \in T
    <2> DEFINE m == l + 1
    <2>0. m \in Nat /\ m = l + 1 /\ (m <= n => l <= n /\ m \in 1..n)
      OBVIOUS
    <2> HIDE DEF m
    <2>1. SUFFICES ASSUME m <= n PROVE \E f \in [SUBSET (1..m) -> X] : Folding(f, start, G, m)
      BY <2>0 DEF m
    <2>2. PICK h \in [SUBSET (1..l) -> X] : Folding(h, start, G, l)
      BY <1>2, <2>0, <2>1
    <2> DEFINE f == [s \in SUBSET (1..m) |-> IF m \in s THEN G[m][h[s \ {m}]] ELSE h[s]]
    <2>3. 1..m = (1..l) \cup {m} /\ m \notin 1..l /\ m \in 1..n /\ 1..l \subseteq 1..n
      BY <2>0, <2>1
    <2>4. \A s \in SUBSET (1..m) : /\ s \ {m} \in SUBSET (1..l)
                                   /\ m \notin s => s \in SUBSET (1..l)
      BY <2>3
    <2>5. \A s \in SUBSET (1..l) : h[s] \in X /\ G[m][h[s]] \in X
      BY <2>3
    <2>6. f \in [SUBSET (1..m) -> X]
      BY <2>4, <2>5
    <2>7. \A r \in SUBSET (1..l) : h[r] = IF r = {} THEN start ELSE G[Max(r)][h[r \ {Max(r)}]]
      <3> DEFINE A(g, r) == IF r = {} THEN start ELSE G[Max(r)][g[r \ {Max(r)}]]
      <3>1. h = [r \in SUBSET (1..l) |-> A(h, r)]
        BY <2>2, Zenon DEF Folding
      <3> HIDE DEF A
      <3>2. \A r \in SUBSET (1..l) : h[r] = A(h, r)
        BY <3>1, Zenon
      <3> QED BY <3>2, Zenon DEF A
    <2>8. ASSUME NEW s \in SUBSET (1..m)
          PROVE  f[s] = IF s = {} THEN start ELSE G[Max(s)][f[s \ {Max(s)}]]
      <3>1. s # {} => Max(s) \in s /\ \A x \in s : x <= Max(s)
        BY <2>0, MaxOfBounded
      <3>2. CASE m \in s
        <4>1. Max(s) = m
          <5>1. Max(s) \in 1..m /\ m <= Max(s)
            BY <3>1, <3>2
          <5> QED BY <2>0, <5>1
        <4>2. s \ {m} \in SUBSET (1..m) /\ m \notin s \ {m}
          OBVIOUS
        <4>3. f[s \ {m}] = h[s \ {m}] /\ f[s] = G[m][h[s \ {m}]]
          BY <3>2, <4>2, Zenon
        <4> HIDE DEF f
        <4> QED BY <3>2, <4>1, <4>3
      <3>3. CASE m \notin s
        <4>1. s \in SUBSET (1..l) /\ s \ {Max(s)} \in SUBSET (1..m) /\ m \notin s \ {Max(s)}
          BY <2>4, <3>3
        <4>2. f[s] = h[s] /\ f[s \ {Max(s)}] = h[s \ {Max(s)}]
          BY <3>3, <4>1, Zenon
        <4> HIDE DEF f
        <4> QED BY <2>7, <4>1, <4>2
      <3> QED BY <3>2, <3>3
    <2>9. Folding(f, start, G, m)
      <3>1. f = [s \in SUBSET (1..m) |-> f[s]]
        BY Zenon
      <3> HIDE DEF f
      <3>2. [s \in SUBSET (1..m) |-> f[s]]
            = [s \in SUBSET (1..m) |-> IF s = {} THEN start ELSE G[Max(s)][f[s \ {Max(s)}]]]
        BY <2>8
      <3> QED BY <3>1, <3>2, Zenon DEF Folding
    <2> HIDE DEF f
    <2> QED BY <2>6, <2>9
  <1>3. n \in T
    <2> HIDE DEF T
    <2> QED BY <1>1, <1>2, EveryNumber
  <1>4. n <= n
    OBVIOUS
  <1> QED BY <1>3, <1>4, Zenon

-----------------------------------------------------------------------------
(***************************************************************************)
(* What a worker keeps of a way, and the context of a worker.              *)
(***************************************************************************)
FeatureLook(l) == Look(l.features, l.refs)
PlaceLook(l) == Look(l.placeWays, l.refs)

FeatureOf(way) ==
    IF way.style = NoStyle \/ Len(way.refs) < 2 THEN {}
    ELSE {<<[style |-> way.style, flag |-> FlagOf(way), first |-> 0, n |-> Len(way.refs)], way.refs>>}

PlaceWayOf(way) ==
    IF ~Needed(way.id) THEN {} ELSE {<<[id |-> way.id, first |-> 0, n |-> Len(way.refs)], way.refs>>}

LEMMA WayTypes ==
    ASSUME NEW way \in AllWays
    PROVE  /\ way.id \in Ids /\ way.style \in Styles /\ FlagOf(way) \in Flags
           /\ way.refs \in Seq(Ids) /\ Len(way.refs) \in Nat
  <1>1. PICK s \in Sources : \E b \in ToSet(s.ways) : way \in ToSet(b)
    BY DEF AllWays
  <1>2. IsList(way.refs)
    BY <1>1, MapPackAssumption DEF MapPackAssumption, SourceShape
  <1>3. ToSet(way.refs) \subseteq Ids
    BY DEF Ids
  <1>4. way.refs \in Seq(Ids)
    BY <1>2, <1>3 DEF IsList
  <1>5. way.id \in Ids /\ way.style \in Styles
    BY DEF Ids, Styles
  <1>6. FlagOf(way) \in Flags
    BY DEF FlagOf, Flags
  <1> QED BY <1>4, <1>5, <1>6

LEMMA ListParts ==
    /\ \A l \in Lists : /\ l.refs \in Seq(Ids) /\ l.features \in Seq(Features) /\ l.placeWays \in Seq(PlaceWays)
                        /\ AllFit(l.features, l.refs) /\ AllFit(l.placeWays, l.refs)
                        /\ l = [refs |-> l.refs, features |-> l.features, placeWays |-> l.placeWays]
    /\ \A r \in Seq(Ids), f \in Seq(Features), p \in Seq(PlaceWays) :
          AllFit(f, r) /\ AllFit(p, r) => [refs |-> r, features |-> f, placeWays |-> p] \in Lists
  BY DEF Lists, AllFit

(* v2_on_way_worker, and what it does for a place way. *)
LEMMA FeatureAdded ==
    ASSUME NEW l \in Lists, NEW way \in AllWays
    PROVE  /\ AddFeature(l, way) \in Lists
           /\ FeatureLook(AddFeature(l, way)) = FeatureLook(l) \cup FeatureOf(way)
           /\ PlaceLook(AddFeature(l, way)) = PlaceLook(l)
  <1>1. CASE way.style = NoStyle \/ Len(way.refs) < 2
    BY <1>1 DEF AddFeature, FeatureOf
  <1>2. CASE ~(way.style = NoStyle \/ Len(way.refs) < 2)
    <2> DEFINE r == [style |-> way.style, flag |-> FlagOf(way), first |-> Len(l.refs), n |-> Len(way.refs)]
               refs == l.refs \o way.refs
               features == Append(l.features, r)
    <2>1. /\ l.refs \in Seq(Ids) /\ l.features \in Seq(Features) /\ l.placeWays \in Seq(PlaceWays)
          /\ AllFit(l.features, l.refs) /\ AllFit(l.placeWays, l.refs)
          /\ l = [refs |-> l.refs, features |-> l.features, placeWays |-> l.placeWays]
      BY ListParts, Zenon
    <2>2. way.refs \in Seq(Ids) /\ way.style \in Styles /\ FlagOf(way) \in Flags
      BY WayTypes
    <2>3. AddFeature(l, way) = [refs |-> refs, features |-> features, placeWays |-> l.placeWays]
      BY <1>2, <2>1 DEF AddFeature
    <2>4. /\ r \in Features /\ r.first = Len(l.refs) /\ r.n = Len(way.refs)
          /\ [r EXCEPT !.first = 0]
             = [style |-> way.style, flag |-> FlagOf(way), first |-> 0, n |-> Len(way.refs)]
      <3>1. Len(l.refs) \in Nat /\ Len(way.refs) \in Nat
        BY <2>1, <2>2
      <3> QED BY <2>2, <3>1 DEF Features
    <2> HIDE DEF r
    <2>5. /\ features \in Seq(Features) /\ AllFit(features, refs)
          /\ Look(features, refs) = Look(l.features, l.refs) \cup {<<[r EXCEPT !.first = 0], way.refs>>}
      <3> DEFINE records == l.features
                 old == l.refs
                 new == way.refs
      <3>1. records \in Seq(Features) /\ old \in Seq(Ids) /\ new \in Seq(Ids) /\ AllFit(records, old)
        BY <2>1, <2>2
      <3>2. r \in Features /\ r.first = Len(old) /\ r.n = Len(new)
        BY <2>4
      <3> HIDE DEF records, old, new
      <3>3. /\ Append(records, r) \in Seq(Features)
            /\ AllFit(Append(records, r), old \o new)
            /\ Look(Append(records, r), old \o new) = Look(records, old) \cup {<<[r EXCEPT !.first = 0], new>>}
        BY <3>1, <3>2, FeaturesMove, LookAppended
      <3> QED BY <3>3, Zenon DEF records, old, new
    <2>6. AllFit(l.placeWays, refs) /\ Look(l.placeWays, refs) = Look(l.placeWays, l.refs)
      BY <2>1, <2>2, PlaceWaysMove, LookKept
    <2>7. refs \in Seq(Ids)
      BY <2>1, <2>2
    <2> HIDE DEF refs, features
    <2>8. AddFeature(l, way) \in Lists
      BY <2>1, <2>3, <2>5, <2>6, <2>7, ListParts
    <2>9. FeatureOf(way) = {<<[r EXCEPT !.first = 0], way.refs>>}
      BY <1>2, <2>4, Zenon DEF FeatureOf
    <2>10. AddFeature(l, way).refs = refs /\ AddFeature(l, way).features = features
           /\ AddFeature(l, way).placeWays = l.placeWays
      BY <2>3
    <2> QED BY <2>5, <2>6, <2>8, <2>9, <2>10, Zenon DEF FeatureLook, PlaceLook
  <1> QED BY <1>1, <1>2

LEMMA PlaceWayAdded ==
    ASSUME NEW l \in Lists, NEW way \in AllWays
    PROVE  /\ AddPlaceWay(l, way) \in Lists
           /\ FeatureLook(AddPlaceWay(l, way)) = FeatureLook(l)
           /\ PlaceLook(AddPlaceWay(l, way)) = PlaceLook(l) \cup PlaceWayOf(way)
  <1>1. CASE ~Needed(way.id)
    BY <1>1 DEF AddPlaceWay, PlaceWayOf
  <1>2. CASE Needed(way.id)
    <2> DEFINE r == [id |-> way.id, first |-> Len(l.refs), n |-> Len(way.refs)]
               refs == l.refs \o way.refs
               ways == Append(l.placeWays, r)
    <2>1. /\ l.refs \in Seq(Ids) /\ l.features \in Seq(Features) /\ l.placeWays \in Seq(PlaceWays)
          /\ AllFit(l.features, l.refs) /\ AllFit(l.placeWays, l.refs)
          /\ l = [refs |-> l.refs, features |-> l.features, placeWays |-> l.placeWays]
      BY ListParts, Zenon
    <2>2. way.refs \in Seq(Ids) /\ way.id \in Ids
      BY WayTypes
    <2>3. AddPlaceWay(l, way) = [refs |-> refs, features |-> l.features, placeWays |-> ways]
      BY <1>2, <2>1 DEF AddPlaceWay
    <2>4. /\ r \in PlaceWays /\ r.first = Len(l.refs) /\ r.n = Len(way.refs)
          /\ [r EXCEPT !.first = 0] = [id |-> way.id, first |-> 0, n |-> Len(way.refs)]
      <3>1. Len(l.refs) \in Nat /\ Len(way.refs) \in Nat
        BY <2>1, <2>2
      <3> QED BY <2>2, <3>1 DEF PlaceWays
    <2> HIDE DEF r
    <2>5. /\ ways \in Seq(PlaceWays) /\ AllFit(ways, refs)
          /\ Look(ways, refs) = Look(l.placeWays, l.refs) \cup {<<[r EXCEPT !.first = 0], way.refs>>}
      <3> DEFINE records == l.placeWays
                 old == l.refs
                 new == way.refs
      <3>1. records \in Seq(PlaceWays) /\ old \in Seq(Ids) /\ new \in Seq(Ids) /\ AllFit(records, old)
        BY <2>1, <2>2
      <3>2. r \in PlaceWays /\ r.first = Len(old) /\ r.n = Len(new)
        BY <2>4
      <3> HIDE DEF records, old, new
      <3>3. /\ Append(records, r) \in Seq(PlaceWays)
            /\ AllFit(Append(records, r), old \o new)
            /\ Look(Append(records, r), old \o new) = Look(records, old) \cup {<<[r EXCEPT !.first = 0], new>>}
        BY <3>1, <3>2, PlaceWaysMove, LookAppended
      <3> QED BY <3>3, Zenon DEF records, old, new
    <2>6. AllFit(l.features, refs) /\ Look(l.features, refs) = Look(l.features, l.refs)
      BY <2>1, <2>2, FeaturesMove, LookKept
    <2>7. refs \in Seq(Ids)
      BY <2>1, <2>2
    <2> HIDE DEF refs, ways
    <2>8. AddPlaceWay(l, way) \in Lists
      BY <2>1, <2>3, <2>5, <2>6, <2>7, ListParts
    <2>9. PlaceWayOf(way) = {<<[r EXCEPT !.first = 0], way.refs>>}
      BY <1>2, <2>4, Zenon DEF PlaceWayOf
    <2>10. AddPlaceWay(l, way).refs = refs /\ AddPlaceWay(l, way).features = l.features
           /\ AddPlaceWay(l, way).placeWays = ways
      BY <2>3
    <2> QED BY <2>5, <2>6, <2>8, <2>9, <2>10, Zenon DEF FeatureLook, PlaceLook
  <1> QED BY <1>1, <1>2

LEMMA WayAdded ==
    ASSUME NEW l \in Lists, NEW way \in AllWays
    PROVE  /\ AddWay(l, way) \in Lists
           /\ FeatureLook(AddWay(l, way)) = FeatureLook(l) \cup FeatureOf(way)
           /\ PlaceLook(AddWay(l, way)) = PlaceLook(l) \cup PlaceWayOf(way)
  BY FeatureAdded, PlaceWayAdded DEF AddWay

(* A fold of AddWay over a fileblock. *)
WaysAdded(start, block) == FoldLeft(AddWay, start, block)

LEMMA WayFold ==
    ASSUME NEW start \in Lists, NEW block \in Seq(AllWays)
    PROVE  \E h : /\ WaysAdded(start, block) = h[Len(block)]
                  /\ h[0] = start
                  /\ \A k \in 0 .. Len(block) - 1 : h[k + 1] = AddWay(h[k], block[k + 1])
  <1> DEFINE n == Len(block)
             G == [i \in 1..n |-> [x \in Lists |-> AddWay(x, block[i])]]
             A(f, s) == IF s = {} THEN start ELSE AddWay(f[s \ {Max(s)}], block[Max(s)])
  <1>1. n \in Nat /\ DOMAIN block = 1..n /\ \A i \in 1..n : block[i] \in AllWays
    OBVIOUS
  <1>1a. \A x \in Lists, way \in AllWays : AddWay(x, way) \in Lists
    BY WayAdded, Zenon
  <1>2. G \in [1..n -> [Lists -> Lists]] /\ \A x \in Lists, i \in 1..n : G[i][x] = AddWay(x, block[i])
    BY <1>1, <1>1a
  <1>3. PICK f \in [SUBSET (1..n) -> Lists] : Folding(f, start, G, n)
    <2> HIDE DEF G, n
    <2> QED BY <1>1, <1>2, FoldExists
  <1>4. f = [s \in SUBSET (1..n) |-> A(f, s)]
    <2>1. ASSUME NEW s \in SUBSET (1..n), s # {}
          PROVE  G[Max(s)][f[s \ {Max(s)}]] = AddWay(f[s \ {Max(s)}], block[Max(s)])
      <3>1. Max(s) \in 1..n /\ f[s \ {Max(s)}] \in Lists
        BY <1>1, <2>1, MaxOfBounded
      <3> HIDE DEF G
      <3> QED BY <1>2, <3>1, Zenon
    <2> HIDE DEF G, n
    <2>2. f = [s \in SUBSET (1..n) |-> IF s = {} THEN start ELSE G[Max(s)][f[s \ {Max(s)}]]]
      BY <1>3, Zenon DEF Folding
    <2> QED BY <2>1, <2>2
  <1> DEFINE g == CHOOSE h : h = [s \in SUBSET (1..n) |-> A(h, s)]
  <1>5. WaysAdded(start, block) = g[1..n]
    <2> HIDE DEF n
    <2> QED BY <1>1, Zenon DEF WaysAdded, FoldLeft, MapThenFoldSet
  <1>6. g = [s \in SUBSET (1..n) |-> A(g, s)]
    <2> HIDE DEF A
    <2> QED BY <1>4, Zenon
  <1> HIDE DEF g, A
  <1>7. \A s \in SUBSET (1..n) : g[s] = A(g, s)
    BY <1>6, Zenon
  <1> DEFINE h == [k \in 0..n |-> g[1..k]]
  <1>8. h[n] = g[1..n] /\ h[0] = start
    <2>1. 1..0 = {} /\ 0 \in 0..n /\ n \in 0..n /\ {} \in SUBSET (1..n)
      BY <1>1
    <2>2. g[{}] = start
      BY <1>7, <2>1 DEF A
    <2> QED BY <2>1, <2>2
  <1>9. ASSUME NEW k \in 0 .. n - 1 PROVE h[k + 1] = AddWay(h[k], block[k + 1])
    <2>1. k \in Nat /\ k \in 0..n /\ k + 1 \in 0..n /\ 1 .. k + 1 \in SUBSET (1..n)
      BY <1>1
    <2>2. Max(1 .. k + 1) = k + 1 /\ (1 .. k + 1) \ {k + 1} = 1..k /\ 1 .. k + 1 # {}
      BY <2>1, MaxOfPrefix
    <2>3. g[1 .. k + 1] = AddWay(g[1..k], block[k + 1])
      BY <1>7, <2>1, <2>2, Zenon DEF A
    <2> HIDE DEF n
    <2> QED BY <2>1, <2>3
  <1> HIDE DEF h
  <1> QED BY <1>5, <1>8, <1>9

FeaturesOf(ways) == UNION {FeatureOf(way) : way \in ways}
PlaceWaysOf(ways) == UNION {PlaceWayOf(way) : way \in ways}

(* Reading a fileblock adds to the lists of a worker what the ways of the  *)
(* block say.                                                              *)
LEMMA BlockRead ==
    ASSUME NEW l \in Lists, NEW block \in Seq(AllWays)
    PROVE  /\ WaysAdded(l, block) \in Lists
           /\ FeatureLook(WaysAdded(l, block)) = FeatureLook(l) \cup FeaturesOf(ToSet(block))
           /\ PlaceLook(WaysAdded(l, block)) = PlaceLook(l) \cup PlaceWaysOf(ToSet(block))
  <1> DEFINE n == Len(block)
             Read(k) == {block[j] : j \in 1..k}
  <1>1. n \in Nat /\ DOMAIN block = 1..n /\ \A i \in 1..n : block[i] \in AllWays
    OBVIOUS
  <1>2. PICK h : /\ WaysAdded(l, block) = h[n]
                 /\ h[0] = l
                 /\ \A k \in 0 .. n - 1 : h[k + 1] = AddWay(h[k], block[k + 1])
    <2> HIDE DEF Read
    <2>1. \E h : /\ WaysAdded(l, block) = h[Len(block)]
                  /\ h[0] = l
                  /\ \A k \in 0 .. Len(block) - 1 : h[k + 1] = AddWay(h[k], block[k + 1])
      BY WayFold
    <2> QED BY <2>1, Zenon
  <1> HIDE DEF n
  <1> DEFINE Good(k) == /\ h[k] \in Lists
                        /\ FeatureLook(h[k]) = FeatureLook(l) \cup FeaturesOf(Read(k))
                        /\ PlaceLook(h[k]) = PlaceLook(l) \cup PlaceWaysOf(Read(k))
             T == {k \in Nat : k <= n => Good(k)}
  <1>3. 0 \in T
    <2>1. Read(0) = {}
      OBVIOUS
    <2>2. FeaturesOf({}) = {} /\ PlaceWaysOf({}) = {}
      BY DEF FeaturesOf, PlaceWaysOf
    <2>3. Good(0)
      BY <1>2, <2>1, <2>2
    <2> QED BY <2>3
  <1>4. ASSUME NEW k \in Nat, k \in T PROVE k + 1 \in T
    <2>1. SUFFICES ASSUME k + 1 <= n PROVE Good(k + 1)
      <3> HIDE DEF Good, Read
      <3> QED OBVIOUS
    <2>2. k <= n /\ k \in 0 .. n - 1 /\ k + 1 \in 1..n
      BY <1>1, <2>1
    <2>3. Good(k)
      BY <1>4, <2>2
    <2>4. h[k + 1] = AddWay(h[k], block[k + 1]) /\ block[k + 1] \in AllWays
      BY <1>1, <1>2, <2>2
    <2>5. Read(k + 1) = Read(k) \cup {block[k + 1]}
      <3>1. 1 .. k + 1 = (1..k) \cup {k + 1}
        OBVIOUS
      <3> QED BY <3>1
    <2> HIDE DEF Read
    <2>6. /\ FeaturesOf(Read(k + 1)) = FeaturesOf(Read(k)) \cup FeatureOf(block[k + 1])
          /\ PlaceWaysOf(Read(k + 1)) = PlaceWaysOf(Read(k)) \cup PlaceWayOf(block[k + 1])
      BY <2>5 DEF FeaturesOf, PlaceWaysOf
    <2>7. /\ h[k + 1] \in Lists
          /\ FeatureLook(h[k + 1]) = FeatureLook(h[k]) \cup FeatureOf(block[k + 1])
          /\ PlaceLook(h[k + 1]) = PlaceLook(h[k]) \cup PlaceWayOf(block[k + 1])
      BY <2>3, <2>4, WayAdded
    <2> QED BY <2>3, <2>6, <2>7
  <1>5. n \in T
    <2> HIDE DEF T
    <2> QED BY <1>1, <1>3, <1>4, EveryNumber
  <1>6. n <= n
    BY <1>1
  <1>7. Good(n)
    <2> HIDE DEF Good
    <2> QED BY <1>5, <1>6
  <1>8. Read(n) = ToSet(block)
    BY <1>1 DEF ToSet
  <1> HIDE DEF Read
  <1> QED BY <1>2, <1>7, <1>8

(* v2_way_worker_merge. *)
LEMMA MergedLists ==
    ASSUME NEW context \in Lists, NEW w \in Lists
    PROVE  /\ Merged(context, w) \in Lists
           /\ FeatureLook(Merged(context, w)) = FeatureLook(context) \cup FeatureLook(w)
           /\ PlaceLook(Merged(context, w)) = PlaceLook(context) \cup PlaceLook(w)
  <1> DEFINE old == context.refs
             new == w.refs
             refs == old \o new
             f == Rebased(w.features, Len(old))
             p == Rebased(w.placeWays, Len(old))
  <1>1. /\ old \in Seq(Ids) /\ new \in Seq(Ids)
        /\ context.features \in Seq(Features) /\ w.features \in Seq(Features)
        /\ context.placeWays \in Seq(PlaceWays) /\ w.placeWays \in Seq(PlaceWays)
        /\ AllFit(context.features, old) /\ AllFit(context.placeWays, old)
        /\ AllFit(w.features, new) /\ AllFit(w.placeWays, new)
    BY ListParts, Zenon
  <1>2. refs \in Seq(Ids)
    BY <1>1
  <1>3. Merged(context, w) = [refs |-> refs, features |-> context.features \o f, placeWays |-> context.placeWays \o p]
    BY DEF Merged
  <1> HIDE DEF f, p, old, new
  <1>4. /\ AllFit(context.features, refs) /\ Look(context.features, refs) = Look(context.features, old)
        /\ AllFit(context.placeWays, refs) /\ Look(context.placeWays, refs) = Look(context.placeWays, old)
    BY <1>1, LookKept, FeaturesMove, PlaceWaysMove
  <1>5. /\ f \in Seq(Features) /\ AllFit(f, refs) /\ Look(f, refs) = Look(w.features, new)
        /\ p \in Seq(PlaceWays) /\ AllFit(p, refs) /\ Look(p, refs) = Look(w.placeWays, new)
    <2>1. /\ Rebased(w.features, Len(old)) \in Seq(Features) /\ AllFit(Rebased(w.features, Len(old)), refs)
          /\ Look(Rebased(w.features, Len(old)), refs) = Look(w.features, new)
      BY <1>1, LookMoved, FeaturesMove
    <2>2. /\ Rebased(w.placeWays, Len(old)) \in Seq(PlaceWays) /\ AllFit(Rebased(w.placeWays, Len(old)), refs)
          /\ Look(Rebased(w.placeWays, Len(old)), refs) = Look(w.placeWays, new)
      BY <1>1, LookMoved, PlaceWaysMove
    <2> QED BY <2>1, <2>2, Zenon DEF f, p
  <1> HIDE DEF refs
  <1> DEFINE features == context.features \o f
             ways == context.placeWays \o p
  <1>6. /\ features \in Seq(Features) /\ AllFit(features, refs)
        /\ Look(features, refs) = Look(context.features, refs) \cup Look(f, refs)
    BY <1>1, <1>4, <1>5, LookJoined
  <1>7. /\ ways \in Seq(PlaceWays) /\ AllFit(ways, refs)
        /\ Look(ways, refs) = Look(context.placeWays, refs) \cup Look(p, refs)
    BY <1>1, <1>4, <1>5, LookJoined
  <1> HIDE DEF features, ways
  <1>8. Merged(context, w) \in Lists
    <2>1. Merged(context, w) = [refs |-> refs, features |-> features, placeWays |-> ways]
      BY <1>3, Zenon DEF features, ways
    <2>2. [refs |-> refs, features |-> features, placeWays |-> ways] \in Lists
      BY <1>2, <1>6, <1>7, ListParts, Zenon
    <2> QED BY <2>1, <2>2, Zenon
  <1>9. Merged(context, w).refs = refs /\ Merged(context, w).features = features
        /\ Merged(context, w).placeWays = ways
    BY <1>3 DEF features, ways
  <1> QED BY <1>4, <1>5, <1>6, <1>7, <1>8, <1>9, Zenon DEF FeatureLook, PlaceLook, old, new

(* A fold of Merged over the workers. *)
AllMerged(start, workers) == FoldLeft(Merged, start, workers)

LEMMA MergeFold ==
    ASSUME NEW start \in Lists, NEW workers \in Seq(Lists)
    PROVE  \E h : /\ AllMerged(start, workers) = h[Len(workers)]
                  /\ h[0] = start
                  /\ \A k \in 0 .. Len(workers) - 1 : h[k + 1] = Merged(h[k], workers[k + 1])
  <1> DEFINE n == Len(workers)
             G == [i \in 1..n |-> [x \in Lists |-> Merged(x, workers[i])]]
             A(f, s) == IF s = {} THEN start ELSE Merged(f[s \ {Max(s)}], workers[Max(s)])
  <1>1. n \in Nat /\ DOMAIN workers = 1..n /\ \A i \in 1..n : workers[i] \in Lists
    OBVIOUS
  <1>1a. \A x \in Lists, w \in Lists : Merged(x, w) \in Lists
    BY MergedLists, Zenon
  <1>2. G \in [1..n -> [Lists -> Lists]] /\ \A x \in Lists, i \in 1..n : G[i][x] = Merged(x, workers[i])
    BY <1>1, <1>1a
  <1>3. PICK f \in [SUBSET (1..n) -> Lists] : Folding(f, start, G, n)
    <2> HIDE DEF G, n
    <2> QED BY <1>1, <1>2, FoldExists
  <1>4. f = [s \in SUBSET (1..n) |-> A(f, s)]
    <2>1. ASSUME NEW s \in SUBSET (1..n), s # {}
          PROVE  G[Max(s)][f[s \ {Max(s)}]] = Merged(f[s \ {Max(s)}], workers[Max(s)])
      <3>1. Max(s) \in 1..n /\ f[s \ {Max(s)}] \in Lists
        BY <1>1, <2>1, MaxOfBounded
      <3> HIDE DEF G
      <3> QED BY <1>2, <3>1, Zenon
    <2> HIDE DEF G, n
    <2>2. f = [s \in SUBSET (1..n) |-> IF s = {} THEN start ELSE G[Max(s)][f[s \ {Max(s)}]]]
      BY <1>3, Zenon DEF Folding
    <2> QED BY <2>1, <2>2
  <1> DEFINE g == CHOOSE h : h = [s \in SUBSET (1..n) |-> A(h, s)]
  <1>5. AllMerged(start, workers) = g[1..n]
    <2> HIDE DEF n
    <2> QED BY <1>1, Zenon DEF AllMerged, FoldLeft, MapThenFoldSet
  <1>6. g = [s \in SUBSET (1..n) |-> A(g, s)]
    <2> HIDE DEF A
    <2> QED BY <1>4, Zenon
  <1> HIDE DEF g, A
  <1>7. \A s \in SUBSET (1..n) : g[s] = A(g, s)
    BY <1>6, Zenon
  <1> DEFINE h == [k \in 0..n |-> g[1..k]]
  <1>8. h[n] = g[1..n] /\ h[0] = start
    <2>1. 1..0 = {} /\ 0 \in 0..n /\ n \in 0..n /\ {} \in SUBSET (1..n)
      BY <1>1
    <2>2. g[{}] = start
      BY <1>7, <2>1 DEF A
    <2> QED BY <2>1, <2>2
  <1>9. ASSUME NEW k \in 0 .. n - 1 PROVE h[k + 1] = Merged(h[k], workers[k + 1])
    <2>1. k \in Nat /\ k \in 0..n /\ k + 1 \in 0..n /\ 1 .. k + 1 \in SUBSET (1..n)
      BY <1>1
    <2>2. Max(1 .. k + 1) = k + 1 /\ (1 .. k + 1) \ {k + 1} = 1..k /\ 1 .. k + 1 # {}
      BY <2>1, MaxOfPrefix
    <2>3. g[1 .. k + 1] = Merged(g[1..k], workers[k + 1])
      BY <1>7, <2>1, <2>2, Zenon DEF A
    <2> HIDE DEF n
    <2> QED BY <2>1, <2>3
  <1> HIDE DEF h
  <1> QED BY <1>5, <1>8, <1>9

FeaturesIn(lists) == UNION {FeatureLook(l) : l \in lists}
PlacesIn(lists) == UNION {PlaceLook(l) : l \in lists}

(* The context of all workers says what they say together, in whatever     *)
(* order and number they are merged.                                       *)
LEMMA WorkersMerged ==
    ASSUME NEW l \in Lists, NEW workers \in Seq(Lists)
    PROVE  /\ AllMerged(l, workers) \in Lists
           /\ FeatureLook(AllMerged(l, workers)) = FeatureLook(l) \cup FeaturesIn(ToSet(workers))
           /\ PlaceLook(AllMerged(l, workers)) = PlaceLook(l) \cup PlacesIn(ToSet(workers))
  <1> DEFINE n == Len(workers)
             Read(k) == {workers[j] : j \in 1..k}
  <1>1. n \in Nat /\ DOMAIN workers = 1..n /\ \A i \in 1..n : workers[i] \in Lists
    OBVIOUS
  <1>2. PICK h : /\ AllMerged(l, workers) = h[n]
                 /\ h[0] = l
                 /\ \A k \in 0 .. n - 1 : h[k + 1] = Merged(h[k], workers[k + 1])
    <2> HIDE DEF Read
    <2>1. \E h : /\ AllMerged(l, workers) = h[Len(workers)]
                  /\ h[0] = l
                  /\ \A k \in 0 .. Len(workers) - 1 : h[k + 1] = Merged(h[k], workers[k + 1])
      BY MergeFold
    <2> QED BY <2>1, Zenon
  <1> HIDE DEF n
  <1> DEFINE Good(k) == /\ h[k] \in Lists
                        /\ FeatureLook(h[k]) = FeatureLook(l) \cup FeaturesIn(Read(k))
                        /\ PlaceLook(h[k]) = PlaceLook(l) \cup PlacesIn(Read(k))
             T == {k \in Nat : k <= n => Good(k)}
  <1>3. 0 \in T
    <2>1. Read(0) = {}
      OBVIOUS
    <2>2. FeaturesIn({}) = {} /\ PlacesIn({}) = {}
      BY DEF FeaturesIn, PlacesIn
    <2>3. Good(0)
      BY <1>2, <2>1, <2>2
    <2> QED BY <2>3
  <1>4. ASSUME NEW k \in Nat, k \in T PROVE k + 1 \in T
    <2>1. SUFFICES ASSUME k + 1 <= n PROVE Good(k + 1)
      OBVIOUS
    <2>2. k <= n /\ k \in 0 .. n - 1 /\ k + 1 \in 1..n
      BY <1>1, <2>1
    <2>3. Good(k)
      BY <1>4, <2>2
    <2>4. h[k + 1] = Merged(h[k], workers[k + 1]) /\ workers[k + 1] \in Lists
      BY <1>1, <1>2, <2>2
    <2>5. Read(k + 1) = Read(k) \cup {workers[k + 1]}
      <3>1. 1 .. k + 1 = (1..k) \cup {k + 1}
        OBVIOUS
      <3> QED BY <3>1
    <2> HIDE DEF Read
    <2>6. /\ FeaturesIn(Read(k + 1)) = FeaturesIn(Read(k)) \cup FeatureLook(workers[k + 1])
          /\ PlacesIn(Read(k + 1)) = PlacesIn(Read(k)) \cup PlaceLook(workers[k + 1])
      BY <2>5 DEF FeaturesIn, PlacesIn
    <2>7. /\ h[k + 1] \in Lists
          /\ FeatureLook(h[k + 1]) = FeatureLook(h[k]) \cup FeatureLook(workers[k + 1])
          /\ PlaceLook(h[k + 1]) = PlaceLook(h[k]) \cup PlaceLook(workers[k + 1])
      BY <2>3, <2>4, MergedLists
    <2> QED BY <2>3, <2>6, <2>7
  <1>5. n \in T
    <2> HIDE DEF T
    <2> QED BY <1>1, <1>3, <1>4, EveryNumber
  <1>6. n <= n
    BY <1>1
  <1>7. Good(n)
    <2> HIDE DEF Good
    <2> QED BY <1>5, <1>6
  <1>8. Read(n) = ToSet(workers)
    BY <1>1 DEF ToSet
  <1> HIDE DEF Read
  <1> QED BY <1>2, <1>7, <1>8

-----------------------------------------------------------------------------
(***************************************************************************)
(* The places.                                                             *)
(***************************************************************************)
AllRelations == UNION {ToSet(s.relations) : s \in Sources}
MemberIds == UNION {ToSet(r.ways) : r \in AllRelations}
PlaceNames == {r.name : r \in AllRelations}
PlaceRecords == [rank : Nat, first : Nat, n : Nat, nameAt : Nat]

Holding(p, members, strings) == p.first + p.n <= Len(members) /\ p.nameAt + 1 <= Len(strings)

Kept == {k \in [list : Seq(PlaceRecords), members : Seq(MemberIds), strings : Seq(PlaceNames)] :
            \A i \in 1 .. Len(k.list) : Holding(k.list[i], k.members, k.strings)}

\* What the lists say of a place, and of all.
Told(p, members, strings) ==
    [rank |-> p.rank, name |-> strings[p.nameAt + 1], ways |-> SubSeq(members, p.first + 1, p.first + p.n)]
Said(kept) == {Told(p, kept.members, kept.strings) : p \in ToSet(kept.list)}
MemberSet(kept) == ToSet(kept.members)

\* What a relation says.
Kind(relation) == relation.place /\ relation.ways # <<>>
Tell(relation) == [rank |-> Rank(relation), name |-> relation.name, ways |-> relation.ways]
PlaceOf(relation) ==
    IF ~relation.place \/ relation.ways = <<>> THEN {}
    ELSE {[rank |-> Rank(relation), name |-> relation.name, ways |-> relation.ways]}

\* What the lists say of their places, one after the other.
ToldAt(kept, i) == Told(kept.list[i], kept.members, kept.strings)
OneMore(before, after, relation) ==
    /\ Len(after.list) = IF Kind(relation) THEN Len(before.list) + 1 ELSE Len(before.list)
    /\ \A i \in 1 .. Len(before.list) : ToldAt(after, i) = ToldAt(before, i)
    /\ Kind(relation) => ToldAt(after, Len(before.list) + 1) = Tell(relation)

\* The places of the lists are those of the first n relations, in their order;
\* g has the index of the relation.
OrderedBy(g, kept, relations, n) ==
    /\ \A i \in 1 .. Len(kept.list) :
          g[i] \in 1 .. n /\ Kind(relations[g[i]]) /\ ToldAt(kept, i) = Tell(relations[g[i]])
    /\ \A i, j \in 1 .. Len(kept.list) : i < j => g[i] < g[j]
    /\ \A k \in 1 .. n : Kind(relations[k]) => \E i \in 1 .. Len(kept.list) : g[i] = k
Ordered(kept, relations) == \E g : OrderedBy(g, kept, relations, Len(relations))
MembersOf(relation) == IF relation.place THEN ToSet(relation.ways) ELSE {}

LEMMA RelationTypes ==
    ASSUME NEW relation \in AllRelations
    PROVE  /\ relation.place \in BOOLEAN /\ relation.rank \in Nat /\ relation.name \in PlaceNames
           /\ relation.ways \in Seq(MemberIds) /\ Len(relation.ways) \in Nat
  <1>1. PICK s \in Sources : relation \in ToSet(s.relations)
    BY DEF AllRelations
  <1>2. relation.place \in BOOLEAN /\ relation.rank \in Nat /\ IsList(relation.ways)
    BY <1>1, MapPackAssumption DEF MapPackAssumption, SourceShape
  <1>3. ToSet(relation.ways) \subseteq MemberIds
    BY DEF MemberIds
  <1>4. relation.ways \in Seq(MemberIds)
    BY <1>2, <1>3 DEF IsList
  <1>5. relation.name \in PlaceNames
    BY DEF PlaceNames
  <1> QED BY <1>2, <1>4, <1>5

LEMMA AppendedElements ==
    ASSUME NEW S, NEW q \in Seq(S), NEW e \in S
    PROVE  /\ Append(q, e) \in Seq(S) /\ Len(Append(q, e)) = Len(q) + 1 /\ Len(q) \in Nat
           /\ \A i \in 1 .. Len(q) : Append(q, e)[i] = q[i]
           /\ Append(q, e)[Len(q) + 1] = e
           /\ ToSet(Append(q, e)) = ToSet(q) \cup {e}
  <1> DEFINE n == Len(q)
             c == Append(q, e)
  <1>1. /\ c \in Seq(S) /\ Len(c) = n + 1 /\ n \in Nat /\ \A i \in 1 .. n : c[i] = q[i]
        /\ c[n + 1] = e /\ DOMAIN c = 1 .. n + 1 /\ DOMAIN q = 1 .. n
    OBVIOUS
  <1> HIDE DEF n, c
  <1>2. 1 .. n + 1 = (1 .. n) \cup {n + 1}
    BY <1>1
  <1>3. ToSet(c) = ToSet(q) \cup {e}
    BY <1>1, <1>2 DEF ToSet
  <1> QED BY <1>1, <1>3 DEF n, c

LEMMA JoinedElements ==
    ASSUME NEW S, NEW a \in Seq(S), NEW b \in Seq(S)
    PROVE  /\ a \o b \in Seq(S) /\ Len(a \o b) = Len(a) + Len(b) /\ Len(a) \in Nat /\ Len(b) \in Nat
           /\ ToSet(a \o b) = ToSet(a) \cup ToSet(b)
           /\ SubSeq(a \o b, Len(a) + 1, Len(a) + Len(b)) = b
  <1> DEFINE m == Len(a)
             n == Len(b)
             c == a \o b
  <1>1. /\ m \in Nat /\ n \in Nat /\ c \in Seq(S) /\ Len(c) = m + n
        /\ DOMAIN a = 1 .. m /\ DOMAIN b = 1 .. n /\ DOMAIN c = 1 .. m + n
        /\ SubSeq(c, m + 1, m + n) = b
    OBVIOUS
  <1>2. \A i \in 1 .. m + n : c[i] = IF i <= m THEN a[i] ELSE b[i - m]
    OBVIOUS
  <1> HIDE DEF m, n, c
  <1>3. ToSet(c) \subseteq ToSet(a) \cup ToSet(b)
    <2>1. ASSUME NEW i \in 1 .. m + n PROVE c[i] \in ToSet(a) \cup ToSet(b)
      <3>1. CASE i <= m
        <4>1. i \in 1 .. m /\ c[i] = a[i]
          BY <1>1, <1>2, <3>1
        <4> QED BY <1>1, <4>1 DEF ToSet
      <3>2. CASE ~(i <= m)
        <4>1. i - m \in 1 .. n /\ c[i] = b[i - m]
          BY <1>1, <1>2, <3>2
        <4> QED BY <1>1, <4>1 DEF ToSet
      <3> QED BY <3>1, <3>2
    <2> QED BY <1>1, <2>1, Zenon DEF ToSet
  <1>4. ASSUME NEW i \in 1 .. m PROVE a[i] \in ToSet(c)
    <2>1. i \in 1 .. m + n /\ c[i] = a[i]
      BY <1>1, <1>2
    <2> QED BY <1>1, <2>1 DEF ToSet
  <1>5. ASSUME NEW i \in 1 .. n PROVE b[i] \in ToSet(c)
    <2>1. m + i \in 1 .. m + n /\ c[m + i] = b[i]
      BY <1>1, <1>2
    <2> QED BY <1>1, <2>1, Zenon DEF ToSet
  <1>6. ToSet(a) \subseteq ToSet(c) /\ ToSet(b) \subseteq ToSet(c)
    BY <1>1, <1>4, <1>5, Zenon DEF ToSet
  <1> QED BY <1>1, <1>3, <1>6 DEF m, n, c

(* v2_rank_score is the rank of docs/osmrpack_format.md. *)
LEMMA RankIsScore ==
    ASSUME NEW relation \in AllRelations
    PROVE  /\ RankScore(relation.rank, Len(relation.ways)) = Rank(relation)
           /\ RankScore(relation.rank, Len(relation.ways)) \in Nat
  <1> DEFINE n == Len(relation.ways)
             T == {n, MemberCap}
  <1>1. relation.rank \in Nat /\ n \in Nat /\ MemberCap \in Nat
    BY RelationTypes, MapPackAssumption DEF MapPackAssumption
  <1> DEFINE counted == IF n > MemberCap THEN MemberCap ELSE n
  <1> HIDE DEF n
  <1>2. counted \in T /\ \A y \in T : counted <= y
    BY <1>1
  <1>3. \A x \in T : (\A y \in T : x <= y) => x = counted
    BY <1>1
  <1>4. LeastOf(T) = counted
    BY <1>2, <1>3 DEF LeastOf
  <1>5. RankScore(relation.rank, n) = relation.rank + counted /\ Rank(relation) = relation.rank + LeastOf(T)
    BY Zenon DEF RankScore, Rank, n
  <1> HIDE DEF T
  <1>6. relation.rank + counted \in Nat
    BY <1>1
  <1> QED BY <1>4, <1>5, <1>6 DEF n

(* v2_on_relation. *)
LEMMA RelationAdded ==
    ASSUME NEW kept \in Kept, NEW relation \in AllRelations
    PROVE  /\ AddRelation(kept, relation) \in Kept
           /\ Said(AddRelation(kept, relation)) = Said(kept) \cup PlaceOf(relation)
           /\ MemberSet(AddRelation(kept, relation)) = MemberSet(kept) \cup MembersOf(relation)
           /\ OneMore(kept, AddRelation(kept, relation), relation)
  <1>t. /\ relation.place \in BOOLEAN /\ relation.rank \in Nat /\ relation.name \in PlaceNames
        /\ relation.ways \in Seq(MemberIds) /\ Len(relation.ways) \in Nat
    BY RelationTypes
  <1>r. RankScore(relation.rank, Len(relation.ways)) = Rank(relation) /\ Rank(relation) \in Nat
    BY RankIsScore
  <1>1. CASE ~relation.place \/ relation.ways = <<>>
    <2>1. ToSet(<<>>) = {}
      BY DEF ToSet
    <2>2. MembersOf(relation) = {}
      BY <1>1, <2>1 DEF MembersOf
    <2>3. AddRelation(kept, relation) = kept /\ OneMore(kept, kept, relation)
      BY <1>1 DEF AddRelation, OneMore, Kind
    <2> QED BY <1>1, <2>2, <2>3 DEF PlaceOf
  <1>2. CASE ~(~relation.place \/ relation.ways = <<>>)
    <2> DEFINE list == kept.list
               old == kept.members
               new == relation.ways
               strings == kept.strings
               p == [rank |-> RankScore(relation.rank, Len(new)), first |-> Len(old), n |-> Len(new), nameAt |-> Len(strings)]
               members == old \o new
               names == Append(strings, relation.name)
               after == [list |-> Append(list, p), members |-> members, strings |-> names]
    <2>1. /\ list \in Seq(PlaceRecords) /\ old \in Seq(MemberIds) /\ strings \in Seq(PlaceNames)
          /\ \A i \in 1 .. Len(list) : Holding(list[i], old, strings)
      BY DEF Kept
    <2>2. AddRelation(kept, relation) = after
      BY <1>2 DEF AddRelation
    <2>3. /\ members \in Seq(MemberIds) /\ Len(members) = Len(old) + Len(new) /\ Len(old) \in Nat /\ Len(new) \in Nat
          /\ ToSet(members) = ToSet(old) \cup ToSet(new)
          /\ SubSeq(members, Len(old) + 1, Len(old) + Len(new)) = new
      <3>1. old \in Seq(MemberIds) /\ new \in Seq(MemberIds)
        BY <1>t, <2>1
      <3> HIDE DEF old, new
      <3> QED BY <3>1, JoinedElements
    <2>4. /\ names \in Seq(PlaceNames) /\ Len(names) = Len(strings) + 1 /\ Len(strings) \in Nat
          /\ \A i \in 1 .. Len(strings) : names[i] = strings[i]
          /\ names[Len(strings) + 1] = relation.name
      BY <1>t, <2>1, AppendedElements
    <2>5. /\ p \in PlaceRecords /\ p.rank = Rank(relation) /\ p.first = Len(old) /\ p.n = Len(new)
          /\ p.nameAt = Len(strings)
      BY <1>r, <2>3, <2>4 DEF PlaceRecords
    <2> HIDE DEF p
    <2>6. /\ Append(list, p) \in Seq(PlaceRecords) /\ Len(Append(list, p)) = Len(list) + 1 /\ Len(list) \in Nat
          /\ \A i \in 1 .. Len(list) : Append(list, p)[i] = list[i]
          /\ Append(list, p)[Len(list) + 1] = p
          /\ ToSet(Append(list, p)) = ToSet(list) \cup {p}
      BY <2>1, <2>5, AppendedElements
    <2>7. \A q \in ToSet(list) : /\ q.first \in Nat /\ q.n \in Nat /\ q.nameAt \in Nat
                                 /\ q.first + q.n <= Len(old) /\ q.nameAt + 1 <= Len(strings)
      <3>1. ASSUME NEW q \in ToSet(list) PROVE q \in PlaceRecords /\ Holding(q, old, strings)
        <4>1. PICK i \in 1 .. Len(list) : q = list[i]
          BY <2>1 DEF ToSet
        <4> HIDE DEF list
        <4> QED BY <2>1, <4>1
      <3> QED BY <3>1 DEF PlaceRecords, Holding
    <2> DEFINE longer == Append(list, p)
    <2>f. old \in Seq(MemberIds) /\ new \in Seq(MemberIds)
      BY <1>t, <2>1
    <2>l. list \in Seq(PlaceRecords)
      BY <2>1
    <2> HIDE DEF list, old, new, strings, names, longer
    <2>8. ASSUME NEW q \in ToSet(list)
          PROVE  Holding(q, members, names) /\ Told(q, members, names) = Told(q, old, strings)
      <3>1. /\ q.first \in Nat /\ q.n \in Nat /\ q.nameAt \in Nat
            /\ q.first + q.n <= Len(old) /\ q.nameAt + 1 <= Len(strings)
        BY <2>7
      <3>2. names[q.nameAt + 1] = strings[q.nameAt + 1]
        BY <2>4, <3>1
      <3>3. SubSeq(members, q.first + 1, q.first + q.n) = SubSeq(old, q.first + 1, q.first + q.n)
        BY <2>f, <3>1, StretchKept, ZenonT(40)
      <3> HIDE DEF members
      <3>4. q.first + q.n <= Len(members) /\ q.nameAt + 1 <= Len(names)
        BY <2>3, <2>4, <3>1
      <3> QED BY <3>2, <3>3, <3>4, Zenon DEF Holding, Told
    <2> HIDE DEF members
    <2>9. Holding(p, members, names)
      BY <2>3, <2>4, <2>5 DEF Holding
    <2>10. Told(p, members, names) = [rank |-> Rank(relation), name |-> relation.name, ways |-> relation.ways]
      BY <2>3, <2>4, <2>5 DEF Told, new
    <2>11. /\ longer \in Seq(PlaceRecords) /\ Len(longer) = Len(list) + 1 /\ Len(list) \in Nat
           /\ ToSet(longer) = ToSet(list) \cup {p}
      BY <2>6 DEF longer
    <2>12. \A i \in 1 .. Len(longer) : longer[i] \in ToSet(longer)
      BY <2>11 DEF ToSet
    <2>13. \A i \in 1 .. Len(longer) : Holding(longer[i], members, names)
      BY <2>8, <2>9, <2>11, <2>12
    <2>14. after = [list |-> longer, members |-> members, strings |-> names]
      BY Zenon DEF longer
    <2> HIDE DEF after
    <2>15. after \in Kept
      BY <2>3, <2>4, <2>11, <2>13, <2>14 DEF Kept
    <2>16. after.list = longer /\ after.members = members /\ after.strings = names
      BY <2>14
    <2>17. Said(after) = {Told(q, members, names) : q \in ToSet(list) \cup {p}}
      BY <2>11, <2>16, Zenon DEF Said
    <2>18. Said(kept) = {Told(q, old, strings) : q \in ToSet(list)}
      BY Zenon DEF Said, old, strings, list
    <2>19. Said(after) = Said(kept) \cup {Told(p, members, names)}
      <3> HIDE DEF Told
      <3> QED BY <2>8, <2>17, <2>18
    <2>20. PlaceOf(relation) = {Told(p, members, names)}
      BY <1>2, <2>10, Zenon DEF PlaceOf
    <2>21. MemberSet(after) = MemberSet(kept) \cup MembersOf(relation)
      BY <1>2, <2>3, <2>16 DEF MemberSet, MembersOf, old, new
    <2>22. OneMore(kept, after, relation)
      <3>1. Kind(relation)
        BY <1>2 DEF Kind
      <3>2. \A i \in 1 .. Len(list) : longer[i] = list[i] /\ list[i] \in ToSet(list)
        <4>1. list = [i \in 1 .. Len(list) |-> list[i]] /\ DOMAIN list = 1 .. Len(list)
          BY <2>l
        <4> QED BY <2>6, <4>1 DEF longer, ToSet
      <3>3. longer[Len(list) + 1] = p
        BY <2>6 DEF longer
      <3>4. \A i \in 1 .. Len(list) : Told(longer[i], members, names) = Told(list[i], old, strings)
        BY <2>8, <3>2, Zenon
      <3>5. Told(longer[Len(list) + 1], members, names) = Tell(relation)
        BY <2>10, <3>3, Zenon DEF Tell
      <3>6. kept.list = list /\ kept.members = old /\ kept.strings = strings
        BY DEF list, old, strings
      <3> HIDE DEF Told
      <3> QED BY <2>11, <2>16, <3>1, <3>4, <3>5, <3>6 DEF OneMore, ToldAt
    <2> QED BY <2>2, <2>15, <2>19, <2>20, <2>21, <2>22
  <1> QED BY <1>1, <1>2

(* A fold of AddRelation over the relations. *)
RelationsAdded(start, relations) == FoldLeft(AddRelation, start, relations)

LEMMA RelationFold ==
    ASSUME NEW start \in Kept, NEW relations \in Seq(AllRelations)
    PROVE  \E h : /\ RelationsAdded(start, relations) = h[Len(relations)]
                  /\ h[0] = start
                  /\ \A k \in 0 .. Len(relations) - 1 : h[k + 1] = AddRelation(h[k], relations[k + 1])
  <1> DEFINE n == Len(relations)
             G == [i \in 1..n |-> [x \in Kept |-> AddRelation(x, relations[i])]]
             A(f, s) == IF s = {} THEN start ELSE AddRelation(f[s \ {Max(s)}], relations[Max(s)])
  <1>1. n \in Nat /\ DOMAIN relations = 1..n /\ \A i \in 1..n : relations[i] \in AllRelations
    OBVIOUS
  <1>1a. \A x \in Kept, r \in AllRelations : AddRelation(x, r) \in Kept
    BY RelationAdded, Zenon
  <1>2. G \in [1..n -> [Kept -> Kept]] /\ \A x \in Kept, i \in 1..n : G[i][x] = AddRelation(x, relations[i])
    BY <1>1, <1>1a
  <1>3. PICK f \in [SUBSET (1..n) -> Kept] : Folding(f, start, G, n)
    <2> HIDE DEF G, n
    <2> QED BY <1>1, <1>2, FoldExists
  <1>4. f = [s \in SUBSET (1..n) |-> A(f, s)]
    <2>1. ASSUME NEW s \in SUBSET (1..n), s # {}
          PROVE  G[Max(s)][f[s \ {Max(s)}]] = AddRelation(f[s \ {Max(s)}], relations[Max(s)])
      <3>1. Max(s) \in 1..n /\ f[s \ {Max(s)}] \in Kept
        BY <1>1, <2>1, MaxOfBounded
      <3> HIDE DEF G
      <3> QED BY <1>2, <3>1, Zenon
    <2> HIDE DEF G, n
    <2>2. f = [s \in SUBSET (1..n) |-> IF s = {} THEN start ELSE G[Max(s)][f[s \ {Max(s)}]]]
      BY <1>3, Zenon DEF Folding
    <2> QED BY <2>1, <2>2
  <1> DEFINE g == CHOOSE h : h = [s \in SUBSET (1..n) |-> A(h, s)]
  <1>5. RelationsAdded(start, relations) = g[1..n]
    <2> HIDE DEF n
    <2> QED BY <1>1, Zenon DEF RelationsAdded, FoldLeft, MapThenFoldSet
  <1>6. g = [s \in SUBSET (1..n) |-> A(g, s)]
    <2> HIDE DEF A
    <2> QED BY <1>4, Zenon
  <1> HIDE DEF g, A
  <1>7. \A s \in SUBSET (1..n) : g[s] = A(g, s)
    BY <1>6, Zenon
  <1> DEFINE h == [k \in 0..n |-> g[1..k]]
  <1>8. h[n] = g[1..n] /\ h[0] = start
    <2>1. 1..0 = {} /\ 0 \in 0..n /\ n \in 0..n /\ {} \in SUBSET (1..n)
      BY <1>1
    <2>2. g[{}] = start
      BY <1>7, <2>1 DEF A
    <2> QED BY <2>1, <2>2
  <1>9. ASSUME NEW k \in 0 .. n - 1 PROVE h[k + 1] = AddRelation(h[k], relations[k + 1])
    <2>1. k \in Nat /\ k \in 0..n /\ k + 1 \in 0..n /\ 1 .. k + 1 \in SUBSET (1..n)
      BY <1>1
    <2>2. Max(1 .. k + 1) = k + 1 /\ (1 .. k + 1) \ {k + 1} = 1..k /\ 1 .. k + 1 # {}
      BY <2>1, MaxOfPrefix
    <2>3. g[1 .. k + 1] = AddRelation(g[1..k], relations[k + 1])
      BY <1>7, <2>1, <2>2, Zenon DEF A
    <2> HIDE DEF n
    <2> QED BY <2>1, <2>3
  <1> HIDE DEF h
  <1> QED BY <1>5, <1>8, <1>9

PlacesOf(relations) == UNION {PlaceOf(r) : r \in relations}
AllMembersOf(relations) == UNION {MembersOf(r) : r \in relations}

LEMMA OrderGoesOn ==
    ASSUME NEW k \in Nat, NEW before \in Kept, NEW after, NEW relations, NEW g,
           OrderedBy(g, before, relations, k), OneMore(before, after, relations[k + 1])
    PROVE  \E f : OrderedBy(f, after, relations, k + 1)
  <1> DEFINE m == Len(before.list)
             f == [i \in 1 .. m + 1 |-> IF i = m + 1 THEN k + 1 ELSE g[i]]
  <1>1. m \in Nat
    BY DEF Kept
  <1>2. /\ \A i \in 1 .. m : g[i] \in 1 .. k /\ Kind(relations[g[i]]) /\ ToldAt(before, i) = Tell(relations[g[i]])
        /\ \A i, j \in 1 .. m : i < j => g[i] < g[j]
        /\ \A j \in 1 .. k : Kind(relations[j]) => \E i \in 1 .. m : g[i] = j
    BY DEF OrderedBy
  <1>3. /\ Len(after.list) = IF Kind(relations[k + 1]) THEN m + 1 ELSE m
        /\ \A i \in 1 .. m : ToldAt(after, i) = ToldAt(before, i)
        /\ Kind(relations[k + 1]) => ToldAt(after, m + 1) = Tell(relations[k + 1])
    BY DEF OneMore
  <1> HIDE DEF m
  <1>4. CASE Kind(relations[k + 1])
    <2>1. \A i \in 1 .. m + 1 : i = m + 1 \/ i \in 1 .. m
      BY <1>1
    <2>2. \A i \in 1 .. m : i \in 1 .. m + 1 /\ i # m + 1 /\ f[i] = g[i]
      BY <1>1
    <2>3. m + 1 \in 1 .. m + 1 /\ f[m + 1] = k + 1
      BY <1>1
    <2> HIDE DEF f
    <2>4. \A i \in 1 .. m + 1 : f[i] \in 1 .. k + 1 /\ Kind(relations[f[i]]) /\ ToldAt(after, i) = Tell(relations[f[i]])
      <3>1. \A i \in 1 .. m : g[i] \in 1 .. k + 1
        BY <1>2
      <3>2. k + 1 \in 1 .. k + 1
        OBVIOUS
      <3> QED BY <1>2, <1>3, <1>4, <2>1, <2>2, <2>3, <3>1, <3>2, Zenon
    <2>5. \A i, j \in 1 .. m + 1 : i < j => f[i] < f[j]
      BY <1>1, <1>2, <2>1, <2>2, <2>3
    <2>6. \A j \in 1 .. k + 1 : Kind(relations[j]) => \E i \in 1 .. m + 1 : f[i] = j
      <3>1. \A j \in 1 .. k + 1 : j = k + 1 \/ j \in 1 .. k
        OBVIOUS
      <3> QED BY <1>2, <2>2, <2>3, <3>1, Zenon
    <2>7. Len(after.list) = m + 1
      BY <1>3, <1>4
    <2>8. OrderedBy(f, after, relations, k + 1)
      BY <2>4, <2>5, <2>6, <2>7, Zenon DEF OrderedBy
    <2> QED BY <2>8
  <1>5. CASE ~Kind(relations[k + 1])
    <2>1. Len(after.list) = m
      BY <1>3, <1>5
    <2>2. \A i \in 1 .. m : g[i] \in 1 .. k + 1
      BY <1>2
    <2>3. \A j \in 1 .. k + 1 : Kind(relations[j]) => \E i \in 1 .. m : g[i] = j
      <3>1. \A j \in 1 .. k + 1 : j = k + 1 \/ j \in 1 .. k
        OBVIOUS
      <3> QED BY <1>2, <1>5, <3>1, Zenon
    <2>4. OrderedBy(g, after, relations, k + 1)
      BY <1>2, <1>3, <2>1, <2>2, <2>3, Zenon DEF OrderedBy
    <2> QED BY <2>4
  <1> QED BY <1>4, <1>5

(* The lists say of the places what the relations say. *)
LEMMA RelationsRead ==
    ASSUME NEW l \in Kept, NEW relations \in Seq(AllRelations)
    PROVE  /\ RelationsAdded(l, relations) \in Kept
           /\ Said(RelationsAdded(l, relations)) = Said(l) \cup PlacesOf(ToSet(relations))
           /\ MemberSet(RelationsAdded(l, relations)) = MemberSet(l) \cup AllMembersOf(ToSet(relations))
           /\ l.list = <<>> => Ordered(RelationsAdded(l, relations), relations)
  <1> DEFINE n == Len(relations)
             Read(k) == {relations[j] : j \in 1..k}
  <1>1. n \in Nat /\ DOMAIN relations = 1..n /\ \A i \in 1..n : relations[i] \in AllRelations
    OBVIOUS
  <1>2. PICK h : /\ RelationsAdded(l, relations) = h[n]
                 /\ h[0] = l
                 /\ \A k \in 0 .. n - 1 : h[k + 1] = AddRelation(h[k], relations[k + 1])
    <2> HIDE DEF Read
    <2>1. \E h : /\ RelationsAdded(l, relations) = h[Len(relations)]
                  /\ h[0] = l
                  /\ \A k \in 0 .. Len(relations) - 1 : h[k + 1] = AddRelation(h[k], relations[k + 1])
      BY RelationFold
    <2> QED BY <2>1, Zenon
  <1> HIDE DEF n
  <1> DEFINE Good(k) == /\ h[k] \in Kept
                        /\ Said(h[k]) = Said(l) \cup PlacesOf(Read(k))
                        /\ MemberSet(h[k]) = MemberSet(l) \cup AllMembersOf(Read(k))
                        /\ l.list = <<>> => \E g : OrderedBy(g, h[k], relations, k)
             T == {k \in Nat : k <= n => Good(k)}
  <1>3. 0 \in T
    <2>1. Read(0) = {}
      OBVIOUS
    <2>2. PlacesOf({}) = {} /\ AllMembersOf({}) = {}
      BY DEF PlacesOf, AllMembersOf
    <2>3. l.list = <<>> => OrderedBy(<<>>, h[0], relations, 0)
      BY <1>2 DEF OrderedBy
    <2>4. Good(0)
      BY <1>2, <2>1, <2>2, <2>3, Zenon
    <2> HIDE DEF Good
    <2> QED BY <2>4
  <1>4. ASSUME NEW k \in Nat, k \in T PROVE k + 1 \in T
    <2>0. k + 1 \in Nat
      OBVIOUS
    <2>1. SUFFICES ASSUME k + 1 <= n PROVE Good(k + 1)
      BY <2>0, Zenon
    <2>2. k <= n /\ k \in 0 .. n - 1 /\ k + 1 \in 1..n
      BY <1>1, <2>1
    <2>3. Good(k)
      BY <1>4, <2>2
    <2>4. h[k + 1] = AddRelation(h[k], relations[k + 1]) /\ relations[k + 1] \in AllRelations
      BY <1>1, <1>2, <2>2
    <2>5. Read(k + 1) = Read(k) \cup {relations[k + 1]}
      <3>1. 1 .. k + 1 = (1..k) \cup {k + 1}
        OBVIOUS
      <3> QED BY <3>1
    <2> HIDE DEF Read
    <2>6. /\ PlacesOf(Read(k + 1)) = PlacesOf(Read(k)) \cup PlaceOf(relations[k + 1])
          /\ AllMembersOf(Read(k + 1)) = AllMembersOf(Read(k)) \cup MembersOf(relations[k + 1])
      BY <2>5 DEF PlacesOf, AllMembersOf
    <2>7. /\ h[k + 1] \in Kept
          /\ Said(h[k + 1]) = Said(h[k]) \cup PlaceOf(relations[k + 1])
          /\ MemberSet(h[k + 1]) = MemberSet(h[k]) \cup MembersOf(relations[k + 1])
          /\ OneMore(h[k], h[k + 1], relations[k + 1])
      BY <2>3, <2>4, RelationAdded, Zenon
    <2>8. l.list = <<>> => \E g : OrderedBy(g, h[k + 1], relations, k + 1)
      <3> SUFFICES ASSUME l.list = <<>> PROVE \E g : OrderedBy(g, h[k + 1], relations, k + 1)
        OBVIOUS
      <3>1. PICK g : OrderedBy(g, h[k], relations, k)
        BY <2>3
      <3>2. h[k] \in Kept
        BY <2>3
      <3> QED BY <2>7, <3>1, <3>2, OrderGoesOn
    <2> QED BY <2>3, <2>6, <2>7, <2>8
  <1>5. n \in T
    <2> HIDE DEF T
    <2> QED BY <1>1, <1>3, <1>4, EveryNumber
  <1>6. n <= n
    BY <1>1
  <1>7. Good(n)
    <2> HIDE DEF Good
    <2> QED BY <1>5, <1>6
  <1>8. Read(n) = ToSet(relations)
    BY <1>1 DEF ToSet
  <1> HIDE DEF Read
  <1>9. l.list = <<>> => Ordered(RelationsAdded(l, relations), relations)
    BY <1>2, <1>7, Zenon DEF Ordered, n
  <1> QED BY <1>2, <1>7, <1>8, <1>9

-----------------------------------------------------------------------------
(***************************************************************************)
(* The inductive invariant of the converter.                               *)
(***************************************************************************)
MapTypes ==
    /\ source \in Sources
    /\ wayBlocks \subseteq DOMAIN source.ways /\ nodeBlocks \subseteq DOMAIN source.nodes
    /\ worker \in [1 .. Workers -> Lists]
    /\ pack \in Lists

\* The relations have been read.
PlacesAreRead ==
    /\ places \in Kept
    /\ Said(places) = PlacesOf(ToSet(source.relations))
    /\ MemberSet(places) = AllMembersOf(ToSet(source.relations))
    /\ Ordered(places, source.relations)

\* Together the workers have what the blocks say that were taken.
WaysRead == UNION {ToSet(source.ways[b]) : b \in DOMAIN source.ways \ wayBlocks}
WorkerLists == {worker[w] : w \in 1 .. Workers}

WorkersHaveTheirWays ==
    /\ FeaturesIn(WorkerLists) = FeaturesOf(WaysRead)
    /\ PlacesIn(WorkerLists) = PlaceWaysOf(WaysRead)

PackHasAllWays ==
    /\ FeatureLook(pack) = FeaturesOf(FileWaySet)
    /\ PlaceLook(pack) = PlaceWaysOf(FileWaySet)

\* The table has the nodes of the blocks that were taken, and no others.
NodeBlocksRead == DOMAIN source.nodes \ nodeBlocks

TableHasItsNodes ==
    /\ DOMAIN nodes = ToSet(pack.refs)
    /\ \A id \in ToSet(pack.refs) :
          /\ \A b \in NodeBlocksRead : id \in DOMAIN source.nodes[b] => nodes[id] = source.nodes[b][id]
          /\ (\A b \in NodeBlocksRead : id \notin DOMAIN source.nodes[b]) => nodes[id] = NotFound

MapInv ==
    /\ MapTypes
    /\ phase \in {"collect_places", "collect_ways"} => pack = Empty /\ nodeBlocks = DOMAIN source.nodes
    /\ phase = "collect_places" => wayBlocks = DOMAIN source.ways /\ worker = [w \in 1 .. Workers |-> Empty]
    /\ phase = "collect_ways" => PlacesAreRead /\ WorkersHaveTheirWays
    /\ phase \in {"collect_nodes", "write_pack", "done"} => PlacesAreRead /\ PackHasAllWays /\ TableHasItsNodes
    /\ phase \in {"write_pack", "done"} => nodeBlocks = {}

LEMMA SourceTypes ==
    ASSUME source \in Sources
    PROVE  /\ source.halo \in Nat
           /\ source.relations \in Seq(AllRelations)
           /\ \A b \in DOMAIN source.ways : source.ways[b] \in Seq(AllWays)
           /\ \A b \in DOMAIN source.nodes : \A id \in DOMAIN source.nodes[b] :
                 source.nodes[b][id] \in (0 .. Span) \X (0 .. Span)
           /\ \A b, c \in DOMAIN source.nodes : b # c => DOMAIN source.nodes[b] \cap DOMAIN source.nodes[c] = {}
           /\ FileWaySet \subseteq AllWays
  <1>1. SourceShape(source)
    BY MapPackAssumption DEF MapPackAssumption
  <1>2. source.relations \in Seq(AllRelations)
    <2>1. IsList(source.relations)
      BY <1>1, Zenon DEF SourceShape
    <2>2. ToSet(source.relations) \subseteq AllRelations
      BY DEF AllRelations
    <2> QED BY <2>1, <2>2 DEF IsList
  <1>3. ASSUME NEW b \in DOMAIN source.ways PROVE source.ways[b] \in Seq(AllWays)
    <2>1. source.ways[b] \in ToSet(source.ways)
      BY DEF ToSet
    <2>2. IsList(source.ways[b])
      BY <1>1, <2>1, Zenon DEF SourceShape
    <2>3. ToSet(source.ways[b]) \subseteq AllWays
      BY <2>1 DEF AllWays
    <2> QED BY <2>2, <2>3 DEF IsList
  <1>4. FileWaySet \subseteq AllWays
    BY DEF FileWaySet, AllWays
  <1> QED BY <1>1, <1>2, <1>3, <1>4 DEF SourceShape

LEMMA NothingYet ==
    /\ Empty \in Lists /\ FeatureLook(Empty) = {} /\ PlaceLook(Empty) = {}
    /\ NoPlaces \in Kept /\ Said(NoPlaces) = {} /\ MemberSet(NoPlaces) = {}
  <1>1. /\ ToSet(<<>>) = {} /\ <<>> \in Seq(Ids) /\ <<>> \in Seq(Features) /\ <<>> \in Seq(PlaceWays) /\ Len(<<>>) = 0
        /\ <<>> \in Seq(PlaceRecords) /\ <<>> \in Seq(MemberIds) /\ <<>> \in Seq(PlaceNames)
    BY DEF ToSet
  <1>2. \A refs : AllFit(<<>>, refs) /\ Look(<<>>, refs) = {}
    BY <1>1 DEF AllFit, Look
  <1>3. Empty \in Lists
    BY <1>1, <1>2, ListParts, Zenon DEF Empty
  <1>4. FeatureLook(Empty) = {} /\ PlaceLook(Empty) = {}
    BY <1>2 DEF FeatureLook, PlaceLook, Empty
  <1>5. NoPlaces \in Kept
    BY <1>1 DEF NoPlaces, Kept
  <1>6. Said(NoPlaces) = {} /\ MemberSet(NoPlaces) = {}
    BY <1>1 DEF NoPlaces, Said, MemberSet
  <1> QED BY <1>3, <1>4, <1>5, <1>6

LEMMA MapInvInit == Init => MapInv
  <1> SUFFICES ASSUME Init PROVE MapInv
    OBVIOUS
  <1>1. MapTypes
    BY NothingYet DEF Init, MapTypes
  <1>2. phase = "collect_places" /\ pack = Empty /\ nodeBlocks = DOMAIN source.nodes
        /\ wayBlocks = DOMAIN source.ways /\ worker = [w \in 1 .. Workers |-> Empty]
    BY DEF Init
  <1> QED BY <1>1, <1>2 DEF MapInv

LEMMA PlacesCollected == MapInv /\ CollectPlaces => MapInv'
  <1> SUFFICES ASSUME MapInv, CollectPlaces PROVE MapInv'
    OBVIOUS
  <1>1. /\ phase = "collect_places" /\ phase' = "collect_ways"
        /\ places' = FoldLeft(AddRelation, NoPlaces, source.relations)
        /\ source' = source /\ wayBlocks' = wayBlocks /\ nodeBlocks' = nodeBlocks /\ worker' = worker /\ pack' = pack
    BY Zenon DEF CollectPlaces
  <1>2. /\ MapTypes /\ pack = Empty /\ nodeBlocks = DOMAIN source.nodes /\ wayBlocks = DOMAIN source.ways
        /\ worker = [w \in 1 .. Workers |-> Empty]
    BY <1>1 DEF MapInv
  <1>3. MapTypes'
    BY <1>1, <1>2 DEF MapTypes
  <1>4. PlacesAreRead'
    <2>1. places' = RelationsAdded(NoPlaces, source.relations)
      BY <1>1, Zenon DEF RelationsAdded
    <2>2. source.relations \in Seq(AllRelations)
      BY <1>2, SourceTypes DEF MapTypes
    <2> DEFINE relations == source.relations
    <2>2a. relations \in Seq(AllRelations)
      BY <2>2
    <2> HIDE DEF relations
    <2>3. /\ RelationsAdded(NoPlaces, relations) \in Kept
          /\ Said(RelationsAdded(NoPlaces, relations)) = PlacesOf(ToSet(relations))
          /\ MemberSet(RelationsAdded(NoPlaces, relations)) = AllMembersOf(ToSet(relations))
          /\ Ordered(RelationsAdded(NoPlaces, relations), relations)
      <3>1. NoPlaces.list = <<>>
        BY DEF NoPlaces
      <3> QED BY <2>2a, <3>1, NothingYet, RelationsRead
    <2>4. /\ places' \in Kept
          /\ Said(places') = PlacesOf(ToSet(source.relations))
          /\ MemberSet(places') = AllMembersOf(ToSet(source.relations))
          /\ Ordered(places', source.relations)
      BY <2>1, <2>3, Zenon DEF relations
    <2> QED BY <1>1, <2>4, Zenon DEF PlacesAreRead, Said, MemberSet
  <1>5. WorkersHaveTheirWays'
    <2>1. WaysRead' = {}
      BY <1>1, <1>2 DEF WaysRead
    <2>2. \A l \in WorkerLists' : l = Empty
      BY <1>1, <1>2 DEF WorkerLists
    <2>3. /\ FeaturesIn(WorkerLists)' = {} /\ PlacesIn(WorkerLists)' = {}
      BY <2>2, NothingYet DEF FeaturesIn, PlacesIn
    <2>4. FeaturesOf(WaysRead)' = {} /\ PlaceWaysOf(WaysRead)' = {}
      BY <2>1 DEF FeaturesOf, PlaceWaysOf
    <2> QED BY <2>3, <2>4 DEF WorkersHaveTheirWays
  <1> QED BY <1>1, <1>2, <1>3, <1>4, <1>5 DEF MapInv

(* Whichever worker takes the block. *)
LEMMA BlockTaken == ASSUME MapInv, NEW w \in 1 .. Workers, ReadWays(w) PROVE MapInv'
  <1>1. PICK b \in wayBlocks :
            /\ wayBlocks' = wayBlocks \ {b}
            /\ worker' = [worker EXCEPT ![w] = FoldLeft(AddWay, worker[w], source.ways[b])]
    BY Zenon DEF ReadWays
  <1>2. /\ phase = "collect_ways" /\ phase' = phase
        /\ source' = source /\ places' = places /\ nodeBlocks' = nodeBlocks /\ pack' = pack
    BY Zenon DEF ReadWays
  <1>3. /\ MapTypes /\ pack = Empty /\ nodeBlocks = DOMAIN source.nodes /\ PlacesAreRead /\ WorkersHaveTheirWays
    BY <1>2 DEF MapInv
  <1> DEFINE block == source.ways[b]
             l == WaysAdded(worker[w], block)
  <1>4. block \in Seq(AllWays) /\ worker[w] \in Lists /\ b \in DOMAIN source.ways
    BY <1>3, SourceTypes DEF MapTypes
  <1>5. worker' = [worker EXCEPT ![w] = l]
    BY <1>1, Zenon DEF WaysAdded
  <1> HIDE DEF block
  <1>6. /\ l \in Lists
        /\ FeatureLook(l) = FeatureLook(worker[w]) \cup FeaturesOf(ToSet(block))
        /\ PlaceLook(l) = PlaceLook(worker[w]) \cup PlaceWaysOf(ToSet(block))
    BY <1>4, BlockRead
  <1> HIDE DEF l
  <1>7. MapTypes'
    BY <1>1, <1>2, <1>3, <1>5, <1>6 DEF MapTypes
  <1>8. PlacesAreRead'
    BY <1>2, <1>3 DEF PlacesAreRead, Said, MemberSet
  <1>9. WaysRead' = WaysRead \cup ToSet(block)
    BY <1>1, <1>2, <1>4 DEF WaysRead, block
  <1>10. worker'[w] = l /\ \A v \in 1 .. Workers : v # w => worker'[v] = worker[v]
    BY <1>3, <1>5 DEF MapTypes
  <1>11. /\ FeaturesIn(WorkerLists)' = FeaturesIn(WorkerLists) \cup FeaturesOf(ToSet(block))
         /\ PlacesIn(WorkerLists)' = PlacesIn(WorkerLists) \cup PlaceWaysOf(ToSet(block))
    <2>1. /\ \A x : x \in FeaturesIn(WorkerLists)' <=> \E v \in 1 .. Workers : x \in FeatureLook(worker'[v])
          /\ \A x : x \in PlacesIn(WorkerLists)' <=> \E v \in 1 .. Workers : x \in PlaceLook(worker'[v])
      BY DEF FeaturesIn, PlacesIn, WorkerLists, FeatureLook, PlaceLook
    <2>2. /\ \A x : x \in FeaturesIn(WorkerLists) <=> \E v \in 1 .. Workers : x \in FeatureLook(worker[v])
          /\ \A x : x \in PlacesIn(WorkerLists) <=> \E v \in 1 .. Workers : x \in PlaceLook(worker[v])
      BY DEF FeaturesIn, PlacesIn, WorkerLists
    <2> QED BY <1>6, <1>10, <2>1, <2>2
  <1>12. /\ FeaturesOf(WaysRead)' = FeaturesOf(WaysRead) \cup FeaturesOf(ToSet(block))
         /\ PlaceWaysOf(WaysRead)' = PlaceWaysOf(WaysRead) \cup PlaceWaysOf(ToSet(block))
    <2>1. FeaturesOf(WaysRead)' = FeaturesOf(WaysRead') /\ PlaceWaysOf(WaysRead)' = PlaceWaysOf(WaysRead')
      BY <1>2 DEF FeaturesOf, PlaceWaysOf, FeatureOf, PlaceWayOf, Needed
    <2> QED BY <1>9, <2>1 DEF FeaturesOf, PlaceWaysOf
  <1>13. WorkersHaveTheirWays'
    BY <1>3, <1>11, <1>12 DEF WorkersHaveTheirWays
  <1> QED BY <1>2, <1>3, <1>7, <1>8, <1>13 DEF MapInv

LEMMA WaysMerged == MapInv /\ MergeWays => MapInv'
  <1> SUFFICES ASSUME MapInv, MergeWays PROVE MapInv'
    OBVIOUS
  <1>1. /\ phase = "collect_ways" /\ wayBlocks = {} /\ phase' = "collect_nodes"
        /\ pack' = FoldLeft(Merged, pack, worker)
        /\ nodes' = [id \in ToSet(pack'.refs) |-> NotFound]
        /\ source' = source /\ places' = places /\ wayBlocks' = wayBlocks /\ nodeBlocks' = nodeBlocks /\ worker' = worker
    BY Zenon DEF MergeWays
  <1>2. /\ MapTypes /\ pack = Empty /\ nodeBlocks = DOMAIN source.nodes /\ PlacesAreRead /\ WorkersHaveTheirWays
    BY <1>1 DEF MapInv
  <1>3. worker \in Seq(Lists) /\ ToSet(worker) = WorkerLists
    <2>1. Workers \in Nat /\ worker \in [1 .. Workers -> Lists] /\ DOMAIN worker = 1 .. Workers
      BY <1>2, MapPackAssumption DEF MapTypes, MapPackAssumption
    <2> QED BY <2>1 DEF ToSet, WorkerLists
  <1> DEFINE all == AllMerged(Empty, worker)
  <1>4. pack' = all
    BY <1>1, <1>2, Zenon DEF AllMerged
  <1>5. all \in Lists /\ FeatureLook(all) = FeaturesIn(ToSet(worker)) /\ PlaceLook(all) = PlacesIn(ToSet(worker))
    BY <1>3, NothingYet, WorkersMerged
  <1> HIDE DEF all
  <1>6. WaysRead = FileWaySet
    BY <1>1 DEF WaysRead, FileWaySet, ToSet
  <1>7. FeatureLook(all) = FeaturesOf(FileWaySet) /\ PlaceLook(all) = PlaceWaysOf(FileWaySet)
    BY <1>2, <1>3, <1>5, <1>6 DEF WorkersHaveTheirWays
  <1>8. PackHasAllWays'
    <2>1. /\ FeaturesOf(FileWaySet)' = FeaturesOf(FileWaySet) /\ PlaceWaysOf(FileWaySet)' = PlaceWaysOf(FileWaySet)
      BY <1>1 DEF FeaturesOf, PlaceWaysOf, FeatureOf, PlaceWayOf, Needed, FileWaySet
    <2>2. FeatureLook(pack)' = FeatureLook(all) /\ PlaceLook(pack)' = PlaceLook(all)
      BY <1>4 DEF FeatureLook, PlaceLook
    <2> QED BY <1>7, <2>1, <2>2 DEF PackHasAllWays
  <1>9. TableHasItsNodes'
    BY <1>1, <1>2 DEF TableHasItsNodes, NodeBlocksRead
  <1>10. MapTypes'
    BY <1>1, <1>2, <1>4, <1>5 DEF MapTypes
  <1>11. PlacesAreRead'
    BY <1>1, <1>2 DEF PlacesAreRead, Said, MemberSet
  <1> QED BY <1>1, <1>8, <1>9, <1>10, <1>11 DEF MapInv

(* What does not touch the lists leaves them what they say. *)
LEMMA ListsKept ==
    ASSUME MapInv, phase \in {"collect_nodes", "write_pack", "done"},
           UNCHANGED <<source, places, wayBlocks, worker, pack>>
    PROVE  PlacesAreRead' /\ PackHasAllWays'
  <1>1. PlacesAreRead /\ PackHasAllWays
    BY DEF MapInv
  <1>2. PlacesAreRead'
    BY <1>1 DEF PlacesAreRead, Said, MemberSet
  <1>3. /\ FeaturesOf(FileWaySet)' = FeaturesOf(FileWaySet) /\ PlaceWaysOf(FileWaySet)' = PlaceWaysOf(FileWaySet)
    BY DEF FeaturesOf, PlaceWaysOf, FeatureOf, PlaceWayOf, Needed, FileWaySet
  <1>4. FeatureLook(pack)' = FeatureLook(pack) /\ PlaceLook(pack)' = PlaceLook(pack)
    BY DEF FeatureLook, PlaceLook
  <1> QED BY <1>1, <1>2, <1>3, <1>4 DEF PackHasAllWays

(* No other block has a node of the block that is read. *)
LEMMA NodesTaken == MapInv /\ ReadNodes => MapInv'
  <1> SUFFICES ASSUME MapInv, ReadNodes PROVE MapInv'
    OBVIOUS
  <1>1. PICK b \in nodeBlocks :
            /\ nodeBlocks' = nodeBlocks \ {b}
            /\ nodes' = [id \in DOMAIN nodes |->
                            IF id \in DOMAIN source.nodes[b] THEN source.nodes[b][id] ELSE nodes[id]]
    BY Zenon DEF ReadNodes
  <1>2. /\ phase = "collect_nodes" /\ phase' = phase
        /\ source' = source /\ places' = places /\ wayBlocks' = wayBlocks /\ worker' = worker /\ pack' = pack
    BY Zenon DEF ReadNodes
  <1>3. MapTypes /\ TableHasItsNodes
    BY <1>2 DEF MapInv
  <1>4. MapTypes'
    BY <1>1, <1>2, <1>3 DEF MapTypes
  <1>5. PlacesAreRead' /\ PackHasAllWays'
    BY <1>2, ListsKept
  <1>6. b \in DOMAIN source.nodes /\ NodeBlocksRead' = NodeBlocksRead \cup {b} /\ b \notin NodeBlocksRead
    BY <1>1, <1>2, <1>3 DEF MapTypes, NodeBlocksRead
  <1>7. ASSUME NEW id \in ToSet(pack.refs)
        PROVE  /\ \A c \in NodeBlocksRead' : id \in DOMAIN source.nodes[c] => nodes'[id] = source.nodes[c][id]
               /\ (\A c \in NodeBlocksRead' : id \notin DOMAIN source.nodes[c]) => nodes'[id] = NotFound
    <2>1. /\ id \in DOMAIN nodes
          /\ \A c \in NodeBlocksRead : id \in DOMAIN source.nodes[c] => nodes[id] = source.nodes[c][id]
          /\ (\A c \in NodeBlocksRead : id \notin DOMAIN source.nodes[c]) => nodes[id] = NotFound
      BY <1>3 DEF TableHasItsNodes
    <2>2. nodes'[id] = IF id \in DOMAIN source.nodes[b] THEN source.nodes[b][id] ELSE nodes[id]
      BY <1>1, <2>1
    <2>3. CASE id \in DOMAIN source.nodes[b]
      <3>1. \A c \in NodeBlocksRead : id \notin DOMAIN source.nodes[c]
        <4>1. \A c \in NodeBlocksRead : c \in DOMAIN source.nodes /\ c # b
          BY <1>6 DEF NodeBlocksRead
        <4>2. \A c, d \in DOMAIN source.nodes :
                  c # d => DOMAIN source.nodes[c] \cap DOMAIN source.nodes[d] = {}
          BY <1>3, SourceTypes DEF MapTypes
        <4> QED BY <1>6, <2>3, <4>1, <4>2
      <3> QED BY <1>6, <2>2, <2>3, <3>1
    <2>4. CASE id \notin DOMAIN source.nodes[b]
      BY <1>6, <2>1, <2>2, <2>4
    <2> QED BY <2>3, <2>4
  <1>8. TableHasItsNodes'
    <2>1. DOMAIN nodes' = ToSet(pack.refs)
      BY <1>1, <1>3 DEF TableHasItsNodes
    <2> QED BY <1>2, <1>7, <2>1 DEF TableHasItsNodes
  <1> QED BY <1>2, <1>4, <1>5, <1>8 DEF MapInv

LEMMA PackWritten ==
    ASSUME MapInv, OpenPack \/ WriteUnit \/ ClosePack
    PROVE  MapInv'
  <1>1. /\ phase \in {"collect_nodes", "write_pack"} /\ phase' \in {"write_pack", "done"} /\ nodeBlocks = {}
        /\ UNCHANGED <<source, places, wayBlocks, nodeBlocks, worker, pack, nodes>>
    BY DEF OpenPack, WriteUnit, ClosePack, MapInv
  <1>2. MapTypes /\ TableHasItsNodes
    BY <1>1 DEF MapInv
  <1>3. MapTypes'
    BY <1>1, <1>2 DEF MapTypes
  <1>4. PlacesAreRead' /\ PackHasAllWays'
    BY <1>1, ListsKept
  <1>5. TableHasItsNodes'
    BY <1>1, <1>2 DEF TableHasItsNodes, NodeBlocksRead
  <1> QED BY <1>1, <1>3, <1>4, <1>5 DEF MapInv

LEMMA MapStopped == MapInv /\ Stop => MapInv'
  BY DEF MapInv, MapTypes, Stop

LEMMA MapStuttered == MapInv /\ UNCHANGED vars => MapInv'
  <1> SUFFICES ASSUME MapInv, UNCHANGED vars PROVE MapInv'
    OBVIOUS
  <1>1. UNCHANGED <<source, phase, places, wayBlocks, nodeBlocks, worker, pack, nodes>>
    BY DEF vars
  <1>2. MapTypes'
    BY <1>1 DEF MapInv, MapTypes
  <1>3. PlacesAreRead => PlacesAreRead'
    BY <1>1 DEF PlacesAreRead, Said, MemberSet
  <1>4. /\ FeaturesOf(FileWaySet)' = FeaturesOf(FileWaySet) /\ PlaceWaysOf(FileWaySet)' = PlaceWaysOf(FileWaySet)
        /\ FeaturesOf(WaysRead)' = FeaturesOf(WaysRead) /\ PlaceWaysOf(WaysRead)' = PlaceWaysOf(WaysRead)
    BY <1>1 DEF FeaturesOf, PlaceWaysOf, FeatureOf, PlaceWayOf, Needed, FileWaySet, WaysRead
  <1>5. /\ FeatureLook(pack)' = FeatureLook(pack) /\ PlaceLook(pack)' = PlaceLook(pack)
        /\ FeaturesIn(WorkerLists)' = FeaturesIn(WorkerLists) /\ PlacesIn(WorkerLists)' = PlacesIn(WorkerLists)
    BY <1>1 DEF FeatureLook, PlaceLook, FeaturesIn, PlacesIn, WorkerLists
  <1>6. (PackHasAllWays => PackHasAllWays') /\ (WorkersHaveTheirWays => WorkersHaveTheirWays')
    BY <1>4, <1>5 DEF PackHasAllWays, WorkersHaveTheirWays
  <1>7. TableHasItsNodes => TableHasItsNodes'
    BY <1>1 DEF TableHasItsNodes, NodeBlocksRead
  <1> QED BY <1>1, <1>2, <1>3, <1>6, <1>7 DEF MapInv

(* What the passes of the converter have gathered at every moment,         *)
(* whichever worker took which block: the lists of all workers together    *)
(* say what the blocks say that were read, each record with the refs of    *)
(* its own way; the merged list says what the file says; and the table of  *)
(* nodes has the coordinates of the blocks that were read and no others.   *)
THEOREM MapInvariant == Spec => []MapInv
  <1>1. MapInv /\ [Next]_vars => MapInv'
    BY PlacesCollected, BlockTaken, WaysMerged, NodesTaken, PackWritten, MapStopped, MapStuttered DEF Next
  <1> QED BY MapInvInit, <1>1, PTL DEF Spec

-----------------------------------------------------------------------------
(***************************************************************************)
(* What the features and the places of the pack are, once all is read.     *)
(***************************************************************************)
(* Before anything is written: the features put on the tiles that the      *)
(* renderer looks at for a box (collect_visible_features_v2), those that   *)
(* meet the box, are the features of the source that meet it.  The ways    *)
(* come from parallel workers whose refs are rebased, the coordinates from *)
(* parallel workers that fill one table, and a feature may reach the box   *)
(* only with an edge between two nodes on other tiles.                     *)
Placed(f) == [style |-> f.style, flag |-> f.flag, box |-> BoxOf(ToSet(PointsOf(f))), points |-> PointsOf(f)]
On(tiles) == {Placed(f) : f \in {g \in ToSet(pack.features) : TilesOf(g) \cap tiles # {}}}

TilesShowTheSource ==
    phase \in {"write_pack", "done"} =>
        \A box \in Boxes : {f \in On(Cover(box, source.halo)) : Meets(f.box, box)} = Visible(box)

(* The places are those of the source, each with its own member ways and   *)
(* its own name, and the ways kept for them are those a place asks for,    *)
(* each with its own refs, whichever worker read them: the offsets into    *)
(* the shared lists and the rebasing of the merge agree.                   *)
PlacesReadTheSource ==
    phase \in {"write_pack", "done"} =>
        /\ {[rank |-> p.rank, name |-> places.strings[p.nameAt + 1], ways |-> MemberWays(p)] : p \in ToSet(places.list)}
           = {[rank |-> Rank(r), name |-> r.name, ways |-> r.ways] :
                r \in {q \in ToSet(source.relations) : q.place /\ q.ways # <<>>}}
        /\ {[id |-> p.id, refs |-> RefsOf(p)] : p \in ToSet(pack.placeWays)}
           = {[id |-> w.id, refs |-> w.refs] :
                w \in {v \in FileWaySet : \E r \in ToSet(source.relations) : r.place /\ v.id \in ToSet(r.ways)}}

\* All of the file has been read.
Gathered ==
    /\ MapTypes /\ nodeBlocks = {}
    /\ PlacesAreRead /\ PackHasAllWays /\ TableHasItsNodes

Read == phase \in {"write_pack", "done"}

LEMMA AllIsRead == MapInv /\ Read => Gathered
  BY DEF MapInv, Read, Gathered

Points == (0 .. Span) \X (0 .. Span)

LEMMA LeastAndMost ==
    ASSUME NEW n \in Nat, NEW T \in SUBSET (0 .. n), T # {}
    PROVE  /\ LeastOf(T) \in T /\ MostOf(T) \in T
           /\ LeastOf(T) \in Int /\ MostOf(T) \in Int /\ LeastOf(T) <= MostOf(T)
           /\ \A y \in T : LeastOf(T) <= y /\ y <= MostOf(T)
  <1>1. T \in SUBSET Nat /\ \A x \in T : x \in Nat /\ x <= n
    OBVIOUS
  <1>2. \E x \in T : \A y \in T : x <= y
    BY <1>1, LeastNumber
  <1>3. LeastOf(T) \in T /\ \A y \in T : LeastOf(T) <= y
    BY <1>2 DEF LeastOf
  <1> DEFINE D == {b \in Nat : \A x \in T : x <= b}
  <1>4. D \in SUBSET Nat /\ D # {}
    BY <1>1
  <1>5. PICK m \in D : \A b \in D : m <= b
    <2> HIDE DEF D
    <2> QED BY <1>4, LeastNumber
  <1>6. m \in T
    <2>1. SUFFICES ASSUME m \notin T PROVE FALSE
      OBVIOUS
    <2>2. m \in Nat /\ \A x \in T : x <= m - 1
      BY <1>1, <1>5, <2>1
    <2>3. m - 1 \in D
      <3>1. PICK x \in T : TRUE
        OBVIOUS
      <3>2. x \in Nat /\ x <= m - 1
        BY <1>1, <2>2, Zenon
      <3>3. m - 1 \in Nat
        BY <2>2, <3>2
      <3> QED BY <2>2, <3>3
    <2> QED BY <1>5, <2>2, <2>3
  <1>7. \E x \in T : \A y \in T : x >= y
    BY <1>1, <1>5, <1>6
  <1>8. MostOf(T) \in T /\ \A y \in T : MostOf(T) >= y
    BY <1>7 DEF MostOf
  <1>9. LeastOf(T) \in Nat /\ MostOf(T) \in Nat /\ LeastOf(T) <= MostOf(T)
    BY <1>1, <1>3, <1>8, Zenon
  <1>10. \A k \in Nat : k \in Int
    OBVIOUS
  <1>11. \A y \in T : LeastOf(T) <= y /\ y <= MostOf(T)
    BY <1>1, <1>3, <1>8, <1>9
  <1> QED BY <1>3, <1>8, <1>9, <1>10, <1>11, Zenon

LEMMA BoxOfPoints ==
    ASSUME NEW P \in SUBSET Points, P # {}
    PROVE  BoxOf(P) \in Box
  <1> DEFINE A == {p[1] : p \in P}
             B == {p[2] : p \in P}
  <1>1. A \in SUBSET (0 .. Span) /\ A # {} /\ B \in SUBSET (0 .. Span) /\ B # {} /\ Span \in Nat
    BY MapTilesAssumption DEF Points, MapTilesAssumption
  <1>2. BoxOf(P) = [west |-> LeastOf(A), east |-> MostOf(A), south |-> LeastOf(B), north |-> MostOf(B)]
    BY Zenon DEF BoxOf
  <1> HIDE DEF A, B
  <1>3. /\ LeastOf(A) \in Int /\ MostOf(A) \in Int /\ LeastOf(A) <= MostOf(A)
        /\ LeastOf(B) \in Int /\ MostOf(B) \in Int /\ LeastOf(B) <= MostOf(B)
    BY <1>1, LeastAndMost
  <1> QED BY <1>2, <1>3 DEF Box

(* The table has the nodes of the source that are asked for. *)
LEMMA NodesOfTheSource ==
    ASSUME Gathered
    PROVE  \A id \in ToSet(pack.refs) :
              /\ Located(id) <=> id \in DOMAIN SourceNodes
              /\ Located(id) => nodes[id] = SourceNodes[id] /\ nodes[id] \in Points
  <1>1. MapTypes /\ TableHasItsNodes /\ NodeBlocksRead = DOMAIN source.nodes
    BY DEF Gathered, NodeBlocksRead
  <1> SUFFICES ASSUME NEW id \in ToSet(pack.refs)
               PROVE  /\ Located(id) <=> id \in DOMAIN SourceNodes
                      /\ Located(id) => nodes[id] = SourceNodes[id] /\ nodes[id] \in Points
    OBVIOUS
  <1>2. /\ id \in DOMAIN nodes
        /\ \A b \in DOMAIN source.nodes : id \in DOMAIN source.nodes[b] => nodes[id] = source.nodes[b][id]
        /\ (\A b \in DOMAIN source.nodes : id \notin DOMAIN source.nodes[b]) => nodes[id] = NotFound
    BY <1>1 DEF TableHasItsNodes
  <1>3. DOMAIN SourceNodes = UNION {DOMAIN b : b \in ToSet(source.nodes)}
    BY DEF SourceNodes
  <1>4. ASSUME NEW b \in DOMAIN source.nodes, id \in DOMAIN source.nodes[b]
        PROVE  id \in DOMAIN SourceNodes /\ Located(id) /\ nodes[id] = SourceNodes[id] /\ nodes[id] \in Points
    <2>1. nodes[id] = source.nodes[b][id]
      BY <1>2, <1>4
    <2>2. nodes[id] \in Points
      BY <1>1, <1>4, <2>1, SourceTypes DEF MapTypes, Points
    <2>3. nodes[id] # NotFound
      <3>1. \A p \in Points : Len(p) = 2
        BY DEF Points
      <3>2. Len(<<>>) = 0
        OBVIOUS
      <3> QED BY <2>2, <3>1, <3>2 DEF NotFound
    <2>4. source.nodes[b] \in ToSet(source.nodes)
      BY DEF ToSet
    <2>5. id \in DOMAIN SourceNodes
      BY <1>3, <1>4, <2>4
    <2> DEFINE chosen == CHOOSE c \in ToSet(source.nodes) : id \in DOMAIN c
    <2>6. chosen \in ToSet(source.nodes) /\ id \in DOMAIN chosen
      BY <1>4, <2>4, Zenon
    <2>7. SourceNodes[id] = chosen[id]
      BY <1>3, <2>5, Zenon DEF SourceNodes
    <2> HIDE DEF chosen
    <2>8. PICK c \in DOMAIN source.nodes : chosen = source.nodes[c]
      BY <2>6 DEF ToSet
    <2>9. nodes[id] = SourceNodes[id]
      BY <1>2, <2>6, <2>7, <2>8
    <2> QED BY <1>2, <2>2, <2>3, <2>5, <2>9 DEF Located
  <1>5. ASSUME \A b \in DOMAIN source.nodes : id \notin DOMAIN source.nodes[b]
        PROVE  id \notin DOMAIN SourceNodes /\ ~Located(id)
    <2>1. id \notin DOMAIN SourceNodes
      BY <1>3, <1>5 DEF ToSet
    <2> QED BY <1>2, <1>5, <2>1 DEF Located
  <1> QED BY <1>4, <1>5

(* A record of the pack that has the refs of a way has its nodes: all of   *)
(* them or not, and the same coordinates.                                  *)
LEMMA RecordIsWay ==
    ASSUME Gathered, NEW f, f.first \in Nat, f.n \in Nat, f.first + f.n <= Len(pack.refs),
           NEW way \in AllWays, RefsOf(f) = way.refs, f.n = Len(way.refs), f.n >= 1
    PROVE  /\ Complete(f) <=> AllThere(way)
           /\ AllThere(way) => PointsOf(f) = Shape(way) /\ BoxOf(ToSet(PointsOf(f))) \in Box
  <1> DEFINE refs == way.refs
             n == f.n
  <1>1. refs \in Seq(Ids) /\ n \in Nat /\ n = Len(refs) /\ DOMAIN refs = 1 .. n /\ n >= 1
    BY WayTypes
  <1>2. \A k \in 1 .. n : refs[k] \in ToSet(pack.refs)
    <2>1. pack.refs \in Seq(Ids)
      BY ListParts DEF Gathered, MapTypes
    <2>2. refs = SubSeq(pack.refs, f.first + 1, f.first + f.n)
      BY DEF RefsOf
    <2> DEFINE all == pack.refs
    <2>3. all \in Seq(Ids) /\ f.first + f.n <= Len(all) /\ refs = SubSeq(all, f.first + 1, f.first + f.n)
      BY <2>1, <2>2
    <2> HIDE DEF all, refs
    <2> QED BY <2>3, StretchElements DEF all
  <1>3. \A k \in 1 .. n : /\ Located(refs[k]) <=> refs[k] \in DOMAIN SourceNodes
                          /\ Located(refs[k]) => nodes[refs[k]] = SourceNodes[refs[k]] /\ nodes[refs[k]] \in Points
    BY <1>2, NodesOfTheSource, Zenon
  <1>4. Complete(f) <=> \A k \in 1 .. n : Located(refs[k])
    BY DEF Complete
  <1>5. AllThere(way) <=> \A k \in 1 .. n : refs[k] \in DOMAIN SourceNodes
    BY <1>1 DEF AllThere, ToSet
  <1>6. Complete(f) <=> AllThere(way)
    BY <1>3, <1>4, <1>5
  <1>7. ASSUME AllThere(way)
        PROVE  PointsOf(f) = Shape(way) /\ BoxOf(ToSet(PointsOf(f))) \in Box
    <2>1. \A k \in 1 .. n : nodes[refs[k]] = SourceNodes[refs[k]] /\ nodes[refs[k]] \in Points
      BY <1>3, <1>5, <1>7
    <2>2. PointsOf(f) = [k \in 1 .. n |-> nodes[refs[k]]]
      BY DEF PointsOf
    <2>3. Shape(way) = [k \in 1 .. n |-> SourceNodes[refs[k]]]
      BY <1>1, Zenon DEF Shape
    <2>4. PointsOf(f) = Shape(way)
      BY <2>1, <2>2, <2>3
    <2>5. ToSet(PointsOf(f)) = {nodes[refs[k]] : k \in 1 .. n}
      BY <2>2 DEF ToSet
    <2>6. ToSet(PointsOf(f)) \in SUBSET Points /\ ToSet(PointsOf(f)) # {}
      <3>1. 1 \in 1 .. n
        BY <1>1
      <3> QED BY <2>1, <2>5, <3>1
    <2> QED BY <2>4, <2>6, BoxOfPoints
  <1> QED BY <1>6, <1>7

(* The features of the pack are those of the source, and each is placed    *)
(* where its nodes are.                                                    *)
LEMMA FeaturesOfTheSource ==
    ASSUME Gathered
    PROVE  /\ \A f \in ToSet(pack.features) : f.n \in Nat /\ f.n >= 2
           /\ \A f \in ToSet(pack.features) : Complete(f) =>
                 /\ Placed(f).box \in Box
                 /\ \E way \in SourceWays : way.style # NoStyle /\ Placed(f) = Drawn(way, way.style, FlagOf(way))
           /\ \A way \in SourceWays : way.style # NoStyle =>
                 \E f \in ToSet(pack.features) : Complete(f) /\ Placed(f) = Drawn(way, way.style, FlagOf(way))
  <1>1. /\ pack \in Lists /\ FileWaySet \subseteq AllWays
        /\ FeatureLook(pack) = FeaturesOf(FileWaySet)
    BY SourceTypes DEF Gathered, MapTypes, PackHasAllWays
  <1>2. \A f \in ToSet(pack.features) :
            /\ f \in Features /\ f.first \in Nat /\ f.n \in Nat /\ f.first + f.n <= Len(pack.refs)
    <2>1. pack.features \in Seq(Features) /\ AllFit(pack.features, pack.refs)
      BY <1>1, ListParts
    <2> QED BY <2>1, FeaturesMove, RecordTypes, Zenon
  \* A feature that has what is kept of a way.
  <1> DEFINE Is(f, way) == /\ way.style # NoStyle /\ Len(way.refs) >= 2
                           /\ f.style = way.style /\ f.flag = FlagOf(way) /\ f.n = Len(way.refs)
                           /\ RefsOf(f) = way.refs
  <1>3. ASSUME NEW f \in ToSet(pack.features), NEW way \in FileWaySet
        PROVE  <<[f EXCEPT !.first = 0], Stretch(pack.refs, f)>> \in FeatureOf(way) <=> Is(f, way)
    <2>1. [f EXCEPT !.first = 0] = [style |-> f.style, flag |-> f.flag, first |-> 0, n |-> f.n]
      BY <1>2 DEF Features
    <2>2. Stretch(pack.refs, f) = RefsOf(f)
      BY DEF Stretch, RefsOf
    <2>3. Len(way.refs) \in Nat
      BY <1>1, WayTypes
    <2> DEFINE kept == [style |-> way.style, flag |-> FlagOf(way), first |-> 0, n |-> Len(way.refs)]
               has == [style |-> f.style, flag |-> f.flag, first |-> 0, n |-> f.n]
    <2>4. has = kept <=> f.style = way.style /\ f.flag = FlagOf(way) /\ f.n = Len(way.refs)
      <3>1. has.style = f.style /\ has.flag = f.flag /\ has.n = f.n
        OBVIOUS
      <3>2. kept.style = way.style /\ kept.flag = FlagOf(way) /\ kept.n = Len(way.refs)
        OBVIOUS
      <3>3. f.style = way.style /\ f.flag = FlagOf(way) /\ f.n = Len(way.refs) => has = kept
        OBVIOUS
      <3> HIDE DEF has, kept
      <3> QED BY <3>1, <3>2, <3>3
    <2>5. FeatureOf(way) = IF way.style = NoStyle \/ Len(way.refs) < 2 THEN {} ELSE {<<kept, way.refs>>}
      BY Zenon DEF FeatureOf
    <2> HIDE DEF kept, has
    <2>6. Len(way.refs) >= 2 <=> ~(Len(way.refs) < 2)
      BY <2>3
    <2>7. <<[f EXCEPT !.first = 0], Stretch(pack.refs, f)>> = <<has, RefsOf(f)>>
      BY <2>1, <2>2, Zenon DEF has
    <2>8. <<has, RefsOf(f)>> = <<kept, way.refs>> <=> has = kept /\ RefsOf(f) = way.refs
      OBVIOUS
    <2>9. <<has, RefsOf(f)>> \in FeatureOf(way)
          <=> way.style # NoStyle /\ ~(Len(way.refs) < 2) /\ <<has, RefsOf(f)>> = <<kept, way.refs>>
      <3> DEFINE x == <<has, RefsOf(f)>>
                 y == <<kept, way.refs>>
                 short == Len(way.refs) < 2
      <3>1. FeatureOf(way) = IF way.style = NoStyle \/ short THEN {} ELSE {y}
        BY <2>5
      <3> HIDE DEF x, y, short
      <3>2. x \in FeatureOf(way) <=> way.style # NoStyle /\ ~short /\ x = y
        BY <3>1
      <3> QED BY <3>2 DEF x, y, short
    <2> QED BY <2>4, <2>6, <2>7, <2>8, <2>9, Zenon
  <1>4. ASSUME NEW f \in ToSet(pack.features)
        PROVE  \E way \in FileWaySet : Is(f, way)
    <2> DEFINE e == <<[f EXCEPT !.first = 0], Stretch(pack.refs, f)>>
    <2>1. e \in FeatureLook(pack)
      BY Zenon DEF FeatureLook, Look
    <2>2. \A way \in FileWaySet : e \in FeatureOf(way) => Is(f, way)
      BY <1>3, Zenon
    <2> HIDE DEF e, Is
    <2>3. \E way \in FileWaySet : e \in FeatureOf(way)
      BY <1>1, <2>1 DEF FeaturesOf
    <2> QED BY <2>2, <2>3, Zenon
  <1>5. ASSUME NEW way \in FileWaySet, way.style # NoStyle, Len(way.refs) >= 2
        PROVE  \E f \in ToSet(pack.features) : Is(f, way)
    <2> DEFINE y == <<[style |-> way.style, flag |-> FlagOf(way), first |-> 0, n |-> Len(way.refs)], way.refs>>
               entry(f) == <<[f EXCEPT !.first = 0], Stretch(pack.refs, f)>>
    <2>1. ~(Len(way.refs) < 2)
      BY <1>1, <1>5, WayTypes
    <2>2. y \in FeatureOf(way)
      BY <1>5, <2>1, Zenon DEF FeatureOf
    <2>3. y \in FeaturesOf(FileWaySet)
      <3> HIDE DEF y
      <3> QED BY <2>2 DEF FeaturesOf
    <2>4. \E f \in ToSet(pack.features) : y = entry(f)
      <3>1. y \in FeatureLook(pack)
        BY <1>1, <2>3, Zenon
      <3> QED BY <3>1, Zenon DEF FeatureLook, Look
    <2>5. \A f \in ToSet(pack.features) : entry(f) \in FeatureOf(way) => Is(f, way)
      BY <1>3, Zenon
    <2> HIDE DEF y, entry, Is
    <2> QED BY <2>2, <2>4, <2>5, Zenon
  <1>6. ASSUME NEW f \in ToSet(pack.features), NEW way \in FileWaySet, Is(f, way)
        PROVE  /\ Complete(f) <=> AllThere(way)
               /\ AllThere(way) => Placed(f) = Drawn(way, way.style, FlagOf(way)) /\ Placed(f).box \in Box
    <2>1. f.first \in Nat /\ f.n \in Nat /\ f.first + f.n <= Len(pack.refs) /\ f.n >= 1 /\ way \in AllWays
      BY <1>1, <1>2, <1>6
    <2>2. RefsOf(f) = way.refs /\ f.n = Len(way.refs) /\ f.style = way.style /\ f.flag = FlagOf(way)
      BY <1>6
    <2> HIDE DEF Is
    <2>3. /\ Complete(f) <=> AllThere(way)
          /\ AllThere(way) => PointsOf(f) = Shape(way) /\ BoxOf(ToSet(PointsOf(f))) \in Box
      BY <2>1, <2>2, RecordIsWay
    <2>4. Placed(f).box = BoxOf(ToSet(PointsOf(f)))
      BY DEF Placed
    <2>5. PointsOf(f) = Shape(way) => Placed(f) = Drawn(way, way.style, FlagOf(way))
      BY <2>2, Zenon DEF Placed, Drawn
    <2> QED BY <2>3, <2>4, <2>5, Zenon
  <1>7. \A way : way \in SourceWays <=> way \in FileWaySet /\ Len(way.refs) >= 2 /\ AllThere(way)
    BY Zenon DEF SourceWays
  <1>8. ASSUME NEW f \in ToSet(pack.features), Complete(f)
        PROVE  /\ Placed(f).box \in Box
               /\ \E way \in SourceWays : way.style # NoStyle /\ Placed(f) = Drawn(way, way.style, FlagOf(way))
    <2>1. PICK way \in FileWaySet : Is(f, way)
      BY <1>4, Zenon
    <2>2. AllThere(way) /\ Placed(f) = Drawn(way, way.style, FlagOf(way)) /\ Placed(f).box \in Box
      BY <1>6, <1>8, <2>1, Zenon
    <2> QED BY <1>7, <2>1, <2>2, Zenon
  <1>9. ASSUME NEW way \in SourceWays, way.style # NoStyle
        PROVE  \E f \in ToSet(pack.features) : Complete(f) /\ Placed(f) = Drawn(way, way.style, FlagOf(way))
    <2>1. way \in FileWaySet /\ Len(way.refs) >= 2 /\ AllThere(way)
      BY <1>7, Zenon
    <2>2. PICK f \in ToSet(pack.features) : Is(f, way)
      BY <1>5, <1>9, <2>1, Zenon
    <2> QED BY <1>6, <2>1, <2>2, Zenon
  <1>10. \A f \in ToSet(pack.features) : f.n \in Nat /\ f.n >= 2
    <2> SUFFICES ASSUME NEW f \in ToSet(pack.features) PROVE f.n \in Nat /\ f.n >= 2
      OBVIOUS
    <2>1. PICK way \in FileWaySet : Is(f, way)
      BY <1>4, Zenon
    <2> QED BY <1>2, <2>1, Zenon
  <1> HIDE DEF Is
  <1> QED BY <1>8, <1>9, <1>10, Zenon

\* What is on the tiles around a box and meets it is in the source, and all of it
\* if the box is one.
LEMMA TilesShow ==
    ASSUME Gathered, NEW box, NEW halo
    PROVE  /\ {f \in On(Cover(box, halo)) : Meets(f.box, box)} \subseteq Visible(box)
           /\ box \in Box /\ halo \in Nat =>
                 {f \in On(Cover(box, halo)) : Meets(f.box, box)} = Visible(box)
  <1>2. \A x : x \in Visible(box) <=>
            \E way \in SourceWays : /\ way.style # NoStyle /\ x = Drawn(way, way.style, FlagOf(way))
                                    /\ Meets(x.box, box)
    BY DEF Visible
  <1>3. \A x : x \in On(Cover(box, halo)) <=>
            \E f \in ToSet(pack.features) : TilesOf(f) \cap Cover(box, halo) # {} /\ x = Placed(f)
    BY DEF On
  <1>4. \A f : TilesOf(f) = IF Complete(f) THEN Cover(Placed(f).box, 0) ELSE {}
    BY DEF TilesOf, Placed
  <1>5. ASSUME NEW x, x \in On(Cover(box, halo)), Meets(x.box, box)
        PROVE  x \in Visible(box)
    <2>1. PICK f \in ToSet(pack.features) : TilesOf(f) \cap Cover(box, halo) # {} /\ x = Placed(f)
      BY <1>3, <1>5, Zenon
    <2>2. Complete(f)
      BY <1>4, <2>1
    <2>3. PICK way \in SourceWays : way.style # NoStyle /\ Placed(f) = Drawn(way, way.style, FlagOf(way))
      BY <2>2, FeaturesOfTheSource, Zenon
    <2> QED BY <1>2, <1>5, <2>1, <2>3, Zenon
  <1>6. ASSUME box \in Box, halo \in Nat, NEW x \in Visible(box)
        PROVE  x \in On(Cover(box, halo)) /\ Meets(x.box, box)
    <2>1. PICK way \in SourceWays : /\ way.style # NoStyle /\ x = Drawn(way, way.style, FlagOf(way))
                                    /\ Meets(x.box, box)
      BY <1>2, Zenon
    <2>2. PICK f \in ToSet(pack.features) : Complete(f) /\ Placed(f) = Drawn(way, way.style, FlagOf(way))
      BY <2>1, FeaturesOfTheSource, Zenon
    <2>3. x = Placed(f) /\ x.box \in Box
      BY <2>1, <2>2, FeaturesOfTheSource, Zenon
    <2>4. \E tile \in Cover(x.box, 0) : tile \in Cover(box, halo)
      BY <1>6, <2>1, <2>3, MeetingBoxesShareATile
    <2>5. TilesOf(f) \cap Cover(box, halo) # {}
      BY <1>4, <2>2, <2>3, <2>4
    <2> QED BY <1>3, <2>1, <2>3, <2>5, Zenon
  <1> QED BY <1>5, <1>6

(* For every source, every number of workers and blocks, every grid and    *)
(* every box: on the tiles that collect_visible_features_v2 looks at are   *)
(* exactly the features of the source that meet the box.                   *)
THEOREM TilesLeadToTheSource == Spec => []TilesShowTheSource
  <1>1. MapInv => TilesShowTheSource
    <2> SUFFICES ASSUME Gathered, NEW box \in Boxes
                 PROVE  {f \in On(Cover(box, source.halo)) : Meets(f.box, box)} = Visible(box)
      BY AllIsRead DEF TilesShowTheSource, Read
    <2>1. box \in Box /\ source.halo \in Nat
      <3>1. box \in [west : Int, east : Int, south : Int, north : Int] /\ HasArea(box)
        BY MapPackAssumption DEF MapPackAssumption, RenderableBoxes
      <3>2. box \in Box
        BY <3>1 DEF HasArea, Box
      <3> QED BY <3>2, SourceTypes DEF Gathered, MapTypes
    <2> QED BY <2>1, TilesShow
  <1> QED BY <1>1, MapInvariant, PTL

(* For every source and every number of workers and blocks: every place    *)
(* has its own member ways and its own name in the shared lists            *)
(* (v2_on_relation), and the ways kept for the places are those asked for, *)
(* each with its own refs.                                                 *)
THEOREM PlacesHaveTheirWays == Spec => []PlacesReadTheSource
  <1>1. MapInv => PlacesReadTheSource
    <2> SUFFICES ASSUME MapInv, Read PROVE PlacesReadTheSource
      BY DEF PlacesReadTheSource, Read
    <2>1. /\ PlacesAreRead /\ PlaceLook(pack) = PlaceWaysOf(FileWaySet)
          /\ pack \in Lists /\ FileWaySet \subseteq AllWays
      BY SourceTypes DEF MapInv, MapTypes, Read, PackHasAllWays
    <2> DEFINE relations == ToSet(source.relations)
               told(p) == [rank |-> p.rank, name |-> places.strings[p.nameAt + 1], ways |-> MemberWays(p)]
               said(r) == [rank |-> Rank(r), name |-> r.name, ways |-> r.ways]
    <2>2. {told(p) : p \in ToSet(places.list)} = {said(r) : r \in {q \in relations : q.place /\ q.ways # <<>>}}
      <3>1. {told(p) : p \in ToSet(places.list)} = Said(places)
        BY Zenon DEF Said, Told, MemberWays
      <3>2. \A r : PlaceOf(r) = IF ~r.place \/ r.ways = <<>> THEN {} ELSE {said(r)}
        BY Zenon DEF PlaceOf
      <3>3. Said(places) = UNION {PlaceOf(r) : r \in relations}
        BY <2>1, Zenon DEF PlacesAreRead, PlacesOf
      <3> HIDE DEF told, said, relations
      <3>4. UNION {PlaceOf(r) : r \in relations} = {said(r) : r \in {q \in relations : q.place /\ q.ways # <<>>}}
        BY <3>2
      <3> QED BY <3>1, <3>3, <3>4
    <2> DEFINE kept(p) == [id |-> p.id, refs |-> RefsOf(p)]
               asked(w) == [id |-> w.id, refs |-> w.refs]
               Wanted(id) == \E r \in relations : r.place /\ id \in ToSet(r.ways)
    <2>3. \A id : Needed(id) <=> Wanted(id)
      <3>1. ToSet(places.members) = UNION {MembersOf(r) : r \in relations}
        BY <2>1, Zenon DEF PlacesAreRead, MemberSet, AllMembersOf
      <3> HIDE DEF relations
      <3> QED BY <3>1 DEF Needed, MembersOf
    <2>4. \A p \in ToSet(pack.placeWays) : p \in PlaceWays
      <3>1. pack.placeWays \in Seq(PlaceWays) /\ AllFit(pack.placeWays, pack.refs)
        BY <2>1, ListParts
      <3> QED BY <3>1, PlaceWaysMove, RecordTypes, Zenon
    <2> DEFINE entry(p) == <<[p EXCEPT !.first = 0], Stretch(pack.refs, p)>>
               said2(w) == <<[id |-> w.id, first |-> 0, n |-> Len(w.refs)], w.refs>>
    <2>5. \A p \in ToSet(pack.placeWays) : /\ entry(p)[1].id = p.id
                                           /\ entry(p)[2] = RefsOf(p)
      <3>1. ASSUME NEW p \in ToSet(pack.placeWays)
            PROVE  entry(p)[1].id = p.id /\ entry(p)[2] = RefsOf(p)
        <4>1. [p EXCEPT !.first = 0].id = p.id
          BY <2>4 DEF PlaceWays
        <4> QED BY <4>1 DEF Stretch, RefsOf
      <3> QED BY <3>1, Zenon
    <2>6. \A w : said2(w)[1].id = w.id /\ said2(w)[2] = w.refs
      OBVIOUS
    <2>7. \A w : PlaceWayOf(w) = IF ~Needed(w.id) THEN {} ELSE {said2(w)}
      BY Zenon DEF PlaceWayOf
    <2>8. PlaceLook(pack) = {entry(p) : p \in ToSet(pack.placeWays)}
      BY Zenon DEF PlaceLook, Look
    <2>9. PlaceWaysOf(FileWaySet) = UNION {PlaceWayOf(w) : w \in FileWaySet}
      BY Zenon DEF PlaceWaysOf
    <2>k. /\ \A p : kept(p) = [id |-> p.id, refs |-> RefsOf(p)]
          /\ \A w : asked(w) = [id |-> w.id, refs |-> w.refs]
      OBVIOUS
    <2> HIDE DEF entry, said2, kept, asked, Wanted
    <2>10. \A p \in ToSet(pack.placeWays) : \E w \in FileWaySet : Needed(w.id) /\ entry(p) = said2(w)
      BY <2>1, <2>7, <2>8, <2>9
    <2>11. \A w \in FileWaySet : Needed(w.id) => \E p \in ToSet(pack.placeWays) : entry(p) = said2(w)
      BY <2>1, <2>7, <2>8, <2>9
    <2>12. \A p \in ToSet(pack.placeWays) : \A w : entry(p) = said2(w) => kept(p) = asked(w)
      BY <2>5, <2>6, <2>k
    <2>13. {kept(p) : p \in ToSet(pack.placeWays)} = {asked(w) : w \in {v \in FileWaySet : Wanted(v.id)}}
      BY <2>3, <2>10, <2>11, <2>12
    <2> QED BY <2>2, <2>13, Zenon DEF PlacesReadTheSource, kept, asked, Wanted
  <1> QED BY <1>1, MapInvariant, PTL

-----------------------------------------------------------------------------
(***************************************************************************)
(* Lists, whatever they are of.                                            *)
(***************************************************************************)
LEMMA ListOf ==
    ASSUME NEW S, NEW l \in Seq(S)
    PROVE  IsList(l) /\ ToSet(l) \subseteq S
  <1>1. Len(l) \in Nat /\ DOMAIN l = 1 .. Len(l) /\ l = [i \in 1 .. Len(l) |-> l[i]]
    OBVIOUS
  <1>2. \A i \in 1 .. Len(l) : l[i] \in ToSet(l) /\ l[i] \in S
    BY <1>1 DEF ToSet
  <1>3. l \in [1 .. Len(l) -> ToSet(l)]
    BY <1>1, <1>2
  <1>4. l \in Seq(ToSet(l))
    BY <1>1, <1>3
  <1>5. ToSet(l) \subseteq S
    BY <1>1, <1>2 DEF ToSet
  <1> QED BY <1>4, <1>5 DEF IsList

LEMMA ListFacts ==
    ASSUME NEW l, IsList(l)
    PROVE  /\ Len(l) \in Nat /\ DOMAIN l = 1 .. Len(l) /\ l = [i \in 1 .. Len(l) |-> l[i]]
           /\ ToSet(l) = {l[i] : i \in 1 .. Len(l)}
           /\ \A S : ToSet(l) \subseteq S => l \in Seq(S)
  <1>1. l \in Seq(ToSet(l))
    BY DEF IsList
  <1> DEFINE T == ToSet(l)
  <1>2. l \in Seq(T)
    BY <1>1
  <1> HIDE DEF T
  <1>3. Len(l) \in Nat /\ DOMAIN l = 1 .. Len(l) /\ l = [i \in 1 .. Len(l) |-> l[i]]
    BY <1>2
  <1>4. \A S : T \subseteq S => l \in Seq(S)
    BY <1>2
  <1> QED BY <1>3, <1>4 DEF ToSet, T

LEMMA ListMade ==
    ASSUME NEW n \in Nat, NEW l, l = [i \in 1 .. n |-> l[i]]
    PROVE  IsList(l) /\ Len(l) = n /\ DOMAIN l = 1 .. n
  <1>1. DOMAIN l = 1 .. n
    OBVIOUS
  <1>2. l \in [1 .. n -> ToSet(l)]
    BY <1>1 DEF ToSet
  <1>3. l \in Seq(ToSet(l)) /\ Len(l) = n
    BY <1>2
  <1> QED BY <1>1, <1>3 DEF IsList

LEMMA ListsJoined ==
    ASSUME NEW a, IsList(a), NEW b, IsList(b)
    PROVE  /\ IsList(a \o b) /\ Len(a \o b) = Len(a) + Len(b)
           /\ \A i \in 1 .. Len(a) : (a \o b)[i] = a[i]
           /\ \A i \in 1 .. Len(b) : (a \o b)[Len(a) + i] = b[i]
           /\ ToSet(a \o b) = ToSet(a) \cup ToSet(b)
  <1> DEFINE S == ToSet(a) \cup ToSet(b)
  <1>1. a \in Seq(S) /\ b \in Seq(S)
    BY ListFacts
  <1> HIDE DEF S
  <1>2. a \o b \in Seq(S) /\ Len(a \o b) = Len(a) + Len(b) /\ ToSet(a \o b) = ToSet(a) \cup ToSet(b)
    BY <1>1, JoinedElements
  <1>3. /\ \A i \in 1 .. Len(a) : (a \o b)[i] = a[i]
        /\ \A i \in 1 .. Len(b) : (a \o b)[Len(a) + i] = b[i]
    BY <1>1, Concatenation
  <1> QED BY <1>2, <1>3, ListOf

LEMMA ShortLists ==
    /\ IsList(<<>>) /\ Len(<<>>) = 0 /\ ToSet(<<>>) = {}
    /\ \A x : IsList(<<x>>) /\ Len(<<x>>) = 1 /\ <<x>>[1] = x
    /\ \A x, y : IsList(<<x, y>>) /\ Len(<<x, y>>) = 2 /\ <<x, y>>[1] = x /\ <<x, y>>[2] = y
  <1>1. <<>> \in Seq({}) /\ Len(<<>>) = 0 /\ ToSet(<<>>) = {}
    BY DEF ToSet
  <1>2. ASSUME NEW x PROVE <<x>> \in Seq({x}) /\ Len(<<x>>) = 1 /\ <<x>>[1] = x
    OBVIOUS
  <1>3. ASSUME NEW x, NEW y
        PROVE  <<x, y>> \in Seq({x, y}) /\ Len(<<x, y>>) = 2 /\ <<x, y>>[1] = x /\ <<x, y>>[2] = y
    OBVIOUS
  <1>4. ASSUME NEW S, NEW l \in Seq(S) PROVE IsList(l)
    BY ListOf
  <1>5. ASSUME NEW x PROVE IsList(<<x>>)
    BY <1>2, <1>4, Zenon
  <1>6. ASSUME NEW x, NEW y PROVE IsList(<<x, y>>)
    BY <1>3, <1>4, Zenon
  <1>7. IsList(<<>>)
    BY <1>1, <1>4, Zenon
  <1> QED BY <1>1, <1>2, <1>3, <1>5, <1>6, <1>7, Zenon

LEMMA Beginning ==
    ASSUME NEW l, IsList(l), NEW m \in 0 .. Len(l)
    PROVE  /\ IsList(SubSeq(l, 1, m)) /\ Len(SubSeq(l, 1, m)) = m
           /\ \A i \in 1 .. m : SubSeq(l, 1, m)[i] = l[i]
           /\ m = Len(l) => SubSeq(l, 1, m) = l
           /\ m = 0 => SubSeq(l, 1, m) = <<>>
  <1> DEFINE S == ToSet(l)
  <1>1. l \in Seq(S)
    BY DEF IsList
  <1> HIDE DEF S
  <1>2. /\ SubSeq(l, 1, m) \in Seq(S) /\ Len(SubSeq(l, 1, m)) = m
        /\ \A i \in 1 .. m : SubSeq(l, 1, m)[i] = l[i]
    BY <1>1
  <1>3. m = Len(l) => SubSeq(l, 1, m) = l
    BY <1>1
  <1>4. m = 0 => SubSeq(l, 1, m) = <<>>
    BY <1>1
  <1> QED BY <1>2, <1>3, <1>4, ListOf

\* What is computed from a start in n steps.
LEMMA Iterated ==
    ASSUME NEW X, NEW start \in X, NEW n \in Nat, NEW G \in [1..n -> [X -> X]]
    PROVE  \E h \in [0..n -> X] : h[0] = start /\ \A k \in 0 .. n - 1 : h[k + 1] = G[k + 1][h[k]]
  <1>1. PICK f \in [SUBSET (1..n) -> X] : Folding(f, start, G, n)
    BY FoldExists
  <1>2. \A s \in SUBSET (1..n) : f[s] = IF s = {} THEN start ELSE G[Max(s)][f[s \ {Max(s)}]]
    BY <1>1, Zenon DEF Folding
  <1> DEFINE h == [k \in 0..n |-> f[1..k]]
  <1>3. \A k \in 0..n : 1..k \in SUBSET (1..n) /\ h[k] = f[1..k]
    OBVIOUS
  <1>4. h \in [0..n -> X]
    BY <1>3
  <1>5. h[0] = start
    <2>1. 0 \in 0..n /\ 1..0 = {}
      OBVIOUS
    <2> HIDE DEF h
    <2>2. f[1..0] = start
      BY <1>2, <1>3, <2>1
    <2> QED BY <1>3, <2>1, <2>2
  <1>6. ASSUME NEW k \in 0 .. n - 1 PROVE h[k + 1] = G[k + 1][h[k]]
    <2>1. k \in Nat /\ k \in 0..n /\ k + 1 \in 0..n
      OBVIOUS
    <2>2. Max(1 .. k + 1) = k + 1 /\ (1 .. k + 1) \ {k + 1} = 1 .. k /\ 1 .. k + 1 # {}
      BY <2>1, MaxOfPrefix
    <2> HIDE DEF h
    <2>3. f[1 .. k + 1] = G[k + 1][f[1..k]]
      <3>1. 1 .. k + 1 \in SUBSET (1..n)
        BY <1>3, <2>1
      <3> DEFINE s == 1 .. k + 1
      <3>2. f[s] = IF s = {} THEN start ELSE G[Max(s)][f[s \ {Max(s)}]]
        BY <1>2, <3>1, Zenon
      <3> HIDE DEF s
      <3>3. s # {} /\ Max(s) = k + 1 /\ s \ {Max(s)} = 1..k
        BY <2>2 DEF s
      <3>4. f[s] = G[k + 1][f[1..k]]
        BY <3>2, <3>3
      <3> QED BY <3>4 DEF s
    <2> QED BY <1>3, <2>1, <2>3
  <1> HIDE DEF h
  <1> QED BY <1>4, <1>5, <1>6, Zenon

-----------------------------------------------------------------------------
(***************************************************************************)
(* Runs behind each other (FlattenSeq), and where each of them begins.     *)
(***************************************************************************)
\* The flattened list is what is there after the last run.
LEMMA FlattenedStepwise ==
    ASSUME NEW runs, IsList(runs), Len(runs) > 0, NEW h,
           h[1] = runs[1], \A k \in 1 .. Len(runs) - 1 : h[k + 1] = h[k] \o runs[k + 1]
    PROVE  FlattenSeq(runs) = h[Len(runs)]
  <1> DEFINE n == Len(runs)
             A(g, i) == IF i = 1 THEN runs[i] ELSE g[i - 1] \o runs[i]
  <1>1. n \in Nat /\ n > 0 /\ n # 0
    BY ListFacts
  <1> DEFINE f == [i \in 1..n |-> h[i]]
             g == CHOOSE g : g = [i \in 1..n |-> A(g, i)]
  <1>2. FlattenSeq(runs) = g[n]
    BY <1>1, Zenon DEF FlattenSeq
  <1>3. f = [i \in 1..n |-> A(f, i)]
    <2>1. ASSUME NEW i \in 1..n PROVE h[i] = A(f, i)
      <3>1. CASE i = 1
        BY <3>1
      <3>2. CASE i # 1
        <4>1. i - 1 \in 1 .. n - 1 /\ i - 1 \in 1..n /\ (i - 1) + 1 = i
          BY <1>1, <3>2
        <4>2. h[i] = h[i - 1] \o runs[i]
          <5>1. h[(i - 1) + 1] = h[i - 1] \o runs[(i - 1) + 1]
            BY <4>1
          <5> QED BY <4>1, <5>1
        <4>3. f[i - 1] = h[i - 1]
          BY <4>1
        <4> HIDE DEF f, n
        <4> QED BY <3>2, <4>2, <4>3
      <3> QED BY <3>1, <3>2
    <2> HIDE DEF A, n
    <2>2. \A i \in 1..n : f[i] = h[i]
      OBVIOUS
    <2>3. DOMAIN f = 1..n
      OBVIOUS
    <2> QED BY <2>1, Zenon
  <1>4. g = [i \in 1..n |-> A(g, i)]
    <2> HIDE DEF A, f, n
    <2> QED BY <1>3, Zenon
  <1> HIDE DEF g, f
  <1>5. \A i \in 1..n : g[i] = A(g, i)
    <2> HIDE DEF A, n
    <2> QED BY <1>4, Zenon
  <1> DEFINE T == {k \in Nat : k + 1 <= n => g[k + 1] = h[k + 1]}
  <1>6. 0 \in T
    <2>1. 1 \in 1..n
      BY <1>1
    <2>2. g[1] = h[1]
      BY <1>5, <2>1
    <2> QED BY <2>2
  <1>7. ASSUME NEW k \in Nat, k \in T PROVE k + 1 \in T
    <2> SUFFICES ASSUME (k + 1) + 1 <= n PROVE g[(k + 1) + 1] = h[(k + 1) + 1]
      OBVIOUS
    <2> DEFINE m == k + 1
    <2>1. m \in 1 .. n - 1 /\ m + 1 \in 1..n /\ m + 1 # 1 /\ (m + 1) - 1 = m /\ g[m] = h[m]
      BY <1>1, <1>7
    <2> HIDE DEF m, T
    <2>2. g[m + 1] = A(g, m + 1)
      <3> HIDE DEF A
      <3> QED BY <1>5, <2>1
    <2>3. g[m + 1] = g[m] \o runs[m + 1]
      <3> HIDE DEF n
      <3> QED BY <2>1, <2>2
    <2>4. h[m + 1] = h[m] \o runs[m + 1]
      BY <2>1
    <2>5. g[m + 1] = h[m + 1]
      BY <2>1, <2>3, <2>4
    <2> QED BY <2>5 DEF m
  <1>8. \A k \in Nat : k \in T
    <2> HIDE DEF T
    <2> QED BY <1>6, <1>7, EveryNumber
  <1>9. g[n] = h[n]
    <2>1. n - 1 \in Nat /\ (n - 1) + 1 = n /\ n <= n
      BY <1>1
    <2>2. n - 1 \in T
      BY <1>8, <2>1
    <2> QED BY <2>1, <2>2
  <1> QED BY <1>2, <1>9

Runs(runs) == IsList(runs) /\ \A i \in 1 .. Len(runs) : IsList(runs[i])

LEMMA Concatenating ==
    ASSUME NEW runs, Runs(runs)
    PROVE  \E h : /\ h[0] = <<>> /\ \A k \in 0 .. Len(runs) : IsList(h[k])
                  /\ \A k \in 0 .. Len(runs) - 1 : h[k + 1] = h[k] \o runs[k + 1]
                  /\ \A m \in 0 .. Len(runs) : FlattenSeq(SubSeq(runs, 1, m)) = h[m]
  <1> DEFINE n == Len(runs)
             S == UNION {ToSet(runs[i]) : i \in 1..n}
             G == [i \in 1..n |-> [x \in Seq(S) |-> x \o runs[i]]]
  <1>1. IsList(runs) /\ n \in Nat /\ \A i \in 1..n : IsList(runs[i])
    BY ListFacts, Zenon DEF Runs
  <1>2. \A i \in 1..n : runs[i] \in Seq(S)
    <2> SUFFICES ASSUME NEW i \in 1..n PROVE runs[i] \in Seq(S)
      OBVIOUS
    <2>1. ToSet(runs[i]) \subseteq S
      OBVIOUS
    <2> HIDE DEF S, n
    <2> QED BY <1>1, <2>1, ListFacts
  <1> HIDE DEF S
  <1>3. <<>> \in Seq(S) /\ G \in [1..n -> [Seq(S) -> Seq(S)]]
    <2>1. \A i \in 1..n : \A x \in Seq(S) : x \o runs[i] \in Seq(S)
      <3> HIDE DEF n
      <3> QED BY <1>2
    <2> HIDE DEF n
    <2> QED BY <2>1
  <1>4. PICK h \in [0..n -> Seq(S)] : h[0] = <<>> /\ \A k \in 0 .. n - 1 : h[k + 1] = G[k + 1][h[k]]
    <2> HIDE DEF G, n
    <2> DEFINE X == Seq(S)
    <2>1. <<>> \in X /\ G \in [1..n -> [X -> X]]
      BY <1>3
    <2> HIDE DEF X
    <2>2. \E h \in [0..n -> X] : h[0] = <<>> /\ \A k \in 0 .. n - 1 : h[k + 1] = G[k + 1][h[k]]
      <3>1. <<>> \in X /\ n \in Nat
        BY <1>1, <2>1
      <3> DEFINE start == <<>>
      <3>2. start \in X /\ n \in Nat /\ G \in [1..n -> [X -> X]]
        BY <2>1, <3>1
      <3> HIDE DEF start
      <3>3. \E h \in [0..n -> X] : h[0] = start /\ \A k \in 0 .. n - 1 : h[k + 1] = G[k + 1][h[k]]
        BY <3>2, Iterated
      <3> QED BY <3>3 DEF start
    <2> QED BY <2>2 DEF X
  <1>5. \A k \in 0 .. n - 1 : h[k + 1] = h[k] \o runs[k + 1]
    <2> SUFFICES ASSUME NEW k \in 0 .. n - 1 PROVE h[k + 1] = h[k] \o runs[k + 1]
      OBVIOUS
    <2>1. k + 1 \in 1..n /\ h[k] \in Seq(S)
      <3> HIDE DEF n
      <3> QED BY <1>1, <1>4
    <2>2. G[k + 1][h[k]] = h[k] \o runs[k + 1]
      <3> HIDE DEF n
      <3> QED BY <2>1
    <2> HIDE DEF G
    <2> QED BY <1>4, <2>2
  <1>6. \A k \in 0..n : IsList(h[k])
    <2> HIDE DEF n
    <2> QED BY <1>4, ListOf
  <1>7. n > 0 => h[1] = runs[1]
    <2> HIDE DEF n
    <2>1. n > 0 => 0 \in 0 .. n - 1 /\ 0 + 1 = 1 /\ 1 \in 1..n
      BY <1>1
    <2>2. n > 0 => h[1] = <<>> \o runs[1]
      BY <1>4, <1>5, <2>1
    <2>3. n > 0 => runs[1] \in Seq(S)
      BY <1>2, <2>1
    <2>4. n > 0 => <<>> \o runs[1] = runs[1]
      BY <2>3
    <2> QED BY <2>2, <2>4
  <1>8. ASSUME NEW m \in 0..n PROVE FlattenSeq(SubSeq(runs, 1, m)) = h[m]
    <2> DEFINE r == SubSeq(runs, 1, m)
    <2>1. IsList(r) /\ Len(r) = m /\ (\A i \in 1..m : r[i] = runs[i]) /\ (m = 0 => r = <<>>)
      BY <1>1, Beginning
    <2>2. m \in Nat /\ m <= n
      BY <1>1
    <2> HIDE DEF r, n
    <2>3. CASE m = 0
      <3>1. FlattenSeq(r) = r
        BY <2>1, <2>3, Zenon DEF FlattenSeq
      <3> QED BY <1>4, <2>1, <2>3, <3>1 DEF r
    <2>4. CASE m # 0
      <3>1. m > 0 /\ n > 0 /\ 1 \in 1..m
        BY <1>1, <2>2, <2>4
      <3>2. h[1] = r[1]
        BY <1>7, <2>1, <3>1
      <3>3. \A k \in 1 .. m - 1 : h[k + 1] = h[k] \o r[k + 1]
        <4> SUFFICES ASSUME NEW k \in 1 .. m - 1 PROVE h[k + 1] = h[k] \o r[k + 1]
          OBVIOUS
        <4>1. k \in 0 .. n - 1 /\ k + 1 \in 1..m
          BY <2>2, <1>1
        <4> QED BY <1>5, <2>1, <4>1
      <3>4. FlattenSeq(r) = h[m]
        BY <2>1, <3>1, <3>2, <3>3, FlattenedStepwise
      <3> QED BY <3>4 DEF r
    <2> QED BY <2>3, <2>4
  <1> HIDE DEF G
  <1> QED BY <1>4, <1>5, <1>6, <1>8, Zenon

\* How much is before a run.
Offset(runs, i) == Len(FlattenSeq(SubSeq(runs, 1, i - 1)))

\* The runs begin where Starts says, and each is there with all it has.
LEMMA Flattening ==
    ASSUME NEW runs, Runs(runs)
    PROVE  /\ IsList(FlattenSeq(runs))
           /\ Offset(runs, 1) = 0 /\ Offset(runs, Len(runs) + 1) = Len(FlattenSeq(runs))
           /\ \A i \in 1 .. Len(runs) + 1 : Offset(runs, i) \in 0 .. Len(FlattenSeq(runs))
           /\ \A i \in 1 .. Len(runs) : Offset(runs, i + 1) = Offset(runs, i) + Len(runs[i])
           /\ \A i \in 1 .. Len(runs) : \A k \in 1 .. Len(runs[i]) :
                 /\ Offset(runs, i) + k \in 1 .. Len(FlattenSeq(runs))
                 /\ FlattenSeq(runs)[Offset(runs, i) + k] = runs[i][k]
  <1> DEFINE n == Len(runs)
             all == FlattenSeq(runs)
  <1>1. IsList(runs) /\ n \in Nat /\ \A i \in 1..n : IsList(runs[i]) /\ Len(runs[i]) \in Nat
    BY ListFacts, Zenon DEF Runs
  <1>2. PICK h : /\ h[0] = <<>> /\ \A k \in 0 .. n : IsList(h[k])
                 /\ \A k \in 0 .. n - 1 : h[k + 1] = h[k] \o runs[k + 1]
                 /\ \A m \in 0 .. n : FlattenSeq(SubSeq(runs, 1, m)) = h[m]
    <2> HIDE DEF n
    <2>1. \E h : /\ h[0] = <<>> /\ \A k \in 0 .. Len(runs) : IsList(h[k])
                 /\ \A k \in 0 .. Len(runs) - 1 : h[k + 1] = h[k] \o runs[k + 1]
                 /\ \A m \in 0 .. Len(runs) : FlattenSeq(SubSeq(runs, 1, m)) = h[m]
      BY Concatenating
    <2> QED BY <2>1, Zenon DEF n
  <1>3. all = h[n] /\ n \in 0..n
    <2>1. SubSeq(runs, 1, n) = runs /\ n \in 0..n
      BY <1>1, Beginning
    <2> HIDE DEF n
    <2> QED BY <1>2, <2>1
  <1> HIDE DEF n, all
  <1>4. \A i \in 1 .. n + 1 : Offset(runs, i) = Len(h[i - 1]) /\ i - 1 \in 0..n
    <2> SUFFICES ASSUME NEW i \in 1 .. n + 1 PROVE Offset(runs, i) = Len(h[i - 1]) /\ i - 1 \in 0..n
      OBVIOUS
    <2>1. i - 1 \in 0..n
      BY <1>1
    <2>2. FlattenSeq(SubSeq(runs, 1, i - 1)) = h[i - 1]
      BY <1>2, <2>1, Zenon
    <2> QED BY <2>1, <2>2 DEF Offset
  <1>5. \A k \in 0 .. n - 1 : /\ Len(h[k]) \in Nat /\ Len(h[k + 1]) = Len(h[k]) + Len(runs[k + 1])
                              /\ \A j \in 1 .. Len(h[k]) : h[k + 1][j] = h[k][j]
                              /\ \A j \in 1 .. Len(runs[k + 1]) : h[k + 1][Len(h[k]) + j] = runs[k + 1][j]
    <2> SUFFICES ASSUME NEW k \in 0 .. n - 1
                 PROVE  /\ Len(h[k]) \in Nat /\ Len(h[k + 1]) = Len(h[k]) + Len(runs[k + 1])
                        /\ \A j \in 1 .. Len(h[k]) : h[k + 1][j] = h[k][j]
                        /\ \A j \in 1 .. Len(runs[k + 1]) : h[k + 1][Len(h[k]) + j] = runs[k + 1][j]
      OBVIOUS
    <2>1. k \in 0..n /\ k + 1 \in 1..n
      BY <1>1
    <2>2. IsList(h[k]) /\ IsList(runs[k + 1]) /\ h[k + 1] = h[k] \o runs[k + 1]
      BY <1>1, <1>2, <2>1
    <2> DEFINE a == h[k]
               b == runs[k + 1]
               c == h[k + 1]
    <2>3. IsList(a) /\ IsList(b) /\ c = a \o b
      BY <2>2
    <2> HIDE DEF a, b, c
    <2>4. Len(a) \in Nat /\ Len(c) = Len(a) + Len(b)
      BY <2>3, ListsJoined, ListFacts
    <2>5. /\ \A j \in 1 .. Len(a) : c[j] = a[j]
          /\ \A j \in 1 .. Len(b) : c[Len(a) + j] = b[j]
      BY <2>3, ListsJoined
    <2> QED BY <2>4, <2>5 DEF a, b, c
  \* What is there after k runs stays there.
  <1> DEFINE T(k) == {d \in Nat : k + d <= n => /\ Len(h[k]) <= Len(h[k + d])
                                                /\ \A j \in 1 .. Len(h[k]) : h[k + d][j] = h[k][j]}
  <1>6. ASSUME NEW k \in 0..n
        PROVE  Len(h[k]) \in Nat /\ Len(h[k]) <= Len(h[n]) /\ \A j \in 1 .. Len(h[k]) : h[n][j] = h[k][j]
    <2>0. k \in Nat /\ k <= n /\ \A m \in 0..n : Len(h[m]) \in Nat
      BY <1>1, <1>2, ListFacts
    <2>1. 0 \in T(k)
      BY <2>0
    <2>2. ASSUME NEW d \in Nat, d \in T(k) PROVE d + 1 \in T(k)
      <3> SUFFICES ASSUME k + (d + 1) <= n
                   PROVE  /\ Len(h[k]) <= Len(h[k + (d + 1)])
                          /\ \A j \in 1 .. Len(h[k]) : h[k + (d + 1)][j] = h[k][j]
        OBVIOUS
      <3> DEFINE m == k + d
      <3>1. m \in 0 .. n - 1 /\ m + 1 = k + (d + 1) /\ m + 1 \in 1..n
        BY <1>1, <2>0
      <3>2. Len(h[k]) <= Len(h[m]) /\ \A j \in 1 .. Len(h[k]) : h[m][j] = h[k][j]
        <4>1. k + d <= n
          BY <1>1, <2>0, <3>1
        <4> QED BY <2>2, <4>1, Zenon
      <3> HIDE DEF m, T
      <3>3. /\ Len(h[m]) \in Nat /\ Len(runs[m + 1]) \in Nat
            /\ Len(h[m + 1]) = Len(h[m]) + Len(runs[m + 1])
            /\ \A j \in 1 .. Len(h[m]) : h[m + 1][j] = h[m][j]
        BY <1>1, <1>5, <3>1
      <3>4. Len(h[k]) <= Len(h[m + 1]) /\ \A j \in 1 .. Len(h[k]) : h[m + 1][j] = h[k][j]
        <4> DEFINE a == h[k]
                   b == h[m]
                   c == h[m + 1]
        <4>1. /\ Len(a) \in Nat /\ Len(b) \in Nat /\ Len(a) <= Len(b) /\ Len(b) <= Len(c)
          <5>1. Len(a) \in Nat /\ Len(b) \in Nat /\ Len(a) <= Len(b)
            BY <2>0, <3>2, <3>3
          <5>2. Len(c) = Len(b) + Len(runs[m + 1])
            BY <3>3
          <5> HIDE DEF a, b, c
          <5> QED BY <3>3, <5>1, <5>2
        <4>2. (\A j \in 1 .. Len(a) : b[j] = a[j]) /\ (\A j \in 1 .. Len(b) : c[j] = b[j])
          BY <3>2, <3>3
        <4>2a. Len(c) \in Int
          BY <3>3
        <4> HIDE DEF a, b, c
        <4>3. Len(a) <= Len(c) /\ \A j \in 1 .. Len(a) : c[j] = a[j]
          BY <4>1, <4>2, <4>2a
        <4> QED BY <4>3 DEF a, b, c
      <3> QED BY <3>1, <3>4
    <2>3. \A d \in Nat : d \in T(k)
      <3> HIDE DEF T
      <3> QED BY <2>1, <2>2, EveryNumber
    <2>4. n - k \in Nat /\ k + (n - k) = n /\ n <= n
      BY <1>1, <2>0
    <2>5. n - k \in T(k)
      <3> HIDE DEF T
      <3> QED BY <2>3, <2>4
    <2> QED BY <2>0, <2>4, <2>5
  <1> HIDE DEF T
  <1>7. IsList(all) /\ Len(all) \in Nat
    BY <1>2, <1>3, ListFacts
  <1>8. Offset(runs, 1) = 0 /\ Offset(runs, n + 1) = Len(all)
    <2>1. 1 \in 1 .. n + 1 /\ n + 1 \in 1 .. n + 1 /\ 1 - 1 = 0 /\ (n + 1) - 1 = n
      BY <1>1
    <2>2. Offset(runs, 1) = Len(h[0]) /\ Offset(runs, n + 1) = Len(h[n])
      BY <1>4, <2>1
    <2> QED BY <1>2, <1>3, <2>2, ShortLists
  <1>9. \A i \in 1 .. n + 1 : Offset(runs, i) \in 0 .. Len(all)
    BY <1>3, <1>4, <1>6, <1>7
  <1>10. \A i \in 1..n : Offset(runs, i + 1) = Offset(runs, i) + Len(runs[i])
    <2> SUFFICES ASSUME NEW i \in 1..n PROVE Offset(runs, i + 1) = Offset(runs, i) + Len(runs[i])
      OBVIOUS
    <2>1. i - 1 \in 0 .. n - 1 /\ (i - 1) + 1 = i /\ (i + 1) - 1 = i /\ i + 1 \in 1 .. n + 1 /\ i \in 1 .. n + 1
      BY <1>1
    <2>2. Len(h[(i - 1) + 1]) = Len(h[i - 1]) + Len(runs[(i - 1) + 1])
      BY <1>5, <2>1
    <2> QED BY <1>4, <2>1, <2>2
  <1>11. ASSUME NEW i \in 1..n, NEW k \in 1 .. Len(runs[i])
         PROVE  Offset(runs, i) + k \in 1 .. Len(all) /\ all[Offset(runs, i) + k] = runs[i][k]
    <2>1. i - 1 \in 0 .. n - 1 /\ (i - 1) + 1 = i /\ i \in 0..n /\ i \in 1 .. n + 1
      BY <1>1
    <2> DEFINE p == i - 1
    <2>2. p \in 0 .. n - 1 /\ p + 1 = i /\ Offset(runs, i) = Len(h[p])
      BY <1>4, <2>1
    <2> HIDE DEF p
    <2> DEFINE a == h[p]
               b == h[i]
               c == h[n]
               r == runs[i]
    <2>3. /\ Len(a) \in Nat /\ Len(b) = Len(a) + Len(r) /\ b[Len(a) + k] = r[k]
      BY <1>5, <2>2
    <2>4. Len(b) \in Nat /\ Len(b) <= Len(c) /\ \A j \in 1 .. Len(b) : c[j] = b[j]
      BY <1>6, <2>1
    <2>5. all = c /\ Offset(runs, i) = Len(a) /\ Len(r) \in Nat /\ k \in 1 .. Len(r) /\ Len(all) \in Nat
      BY <1>1, <1>3, <1>7, <2>2
    <2> HIDE DEF a, b, c, r
    <2>6. Len(a) + k \in 1 .. Len(b)
      BY <2>3, <2>5
    <2>7. Len(a) + k \in 1 .. Len(c) /\ c[Len(a) + k] = r[k]
      BY <2>3, <2>4, <2>5, <2>6
    <2> QED BY <2>5, <2>7 DEF r
  <1> QED BY <1>7, <1>8, <1>9, <1>10, <1>11 DEF n, all

\* The elements of a list that are in a set: what is kept after each element.
LEMMA OnlyFold ==
    ASSUME NEW s, IsList(s), NEW S
    PROVE  \E h : /\ Only(s, S) = h[Len(s)] /\ h[0] = <<>>
                  /\ \A k \in 0 .. Len(s) - 1 :
                        h[k + 1] = IF s[k + 1] \in S THEN Append(h[k], s[k + 1]) ELSE h[k]
  <1> DEFINE n == Len(s)
             E == ToSet(s)
             N(x, e) == IF e \in S THEN Append(x, e) ELSE x
             G == [i \in 1..n |-> [x \in Seq(E) |-> N(x, s[i])]]
             A(f, t) == IF t = {} THEN <<>> ELSE N(f[t \ {Max(t)}], s[Max(t)])
  <1>1. n \in Nat /\ DOMAIN s = 1..n /\ E = {s[i] : i \in 1..n} /\ \A i \in 1..n : s[i] \in E
    <2>1. n \in Nat /\ DOMAIN s = 1..n /\ E = {s[i] : i \in 1..n}
      BY ListFacts
    <2> HIDE DEF E, n
    <2> QED BY <2>1
  <1> HIDE DEF n, E
  <1>2. \A x \in Seq(E) : \A i \in 1..n : N(x, s[i]) \in Seq(E)
    <2> SUFFICES ASSUME NEW x \in Seq(E), NEW i \in 1..n PROVE N(x, s[i]) \in Seq(E)
      OBVIOUS
    <2>1. Append(x, s[i]) \in Seq(E)
      BY <1>1, AppendedElements
    <2> QED BY <2>1
  <1>3. <<>> \in Seq(E) /\ G \in [1..n -> [Seq(E) -> Seq(E)]] /\ \A x \in Seq(E), i \in 1..n : G[i][x] = N(x, s[i])
    <2> HIDE DEF N
    <2> QED BY <1>2
  <1>4. PICK f \in [SUBSET (1..n) -> Seq(E)] : Folding(f, <<>>, G, n)
    <2> HIDE DEF G
    <2> DEFINE X == Seq(E)
    <2>1. <<>> \in X /\ G \in [1..n -> [X -> X]]
      BY <1>3
    <2> HIDE DEF X
    <2>2. \E f \in [SUBSET (1..n) -> X] : Folding(f, <<>>, G, n)
      BY <1>1, <2>1, FoldExists
    <2> QED BY <2>2 DEF X
  <1>5. f = [t \in SUBSET (1..n) |-> A(f, t)]
    <2>1. ASSUME NEW t \in SUBSET (1..n), t # {}
          PROVE  G[Max(t)][f[t \ {Max(t)}]] = N(f[t \ {Max(t)}], s[Max(t)])
      <3>1. Max(t) \in 1..n /\ f[t \ {Max(t)}] \in Seq(E)
        BY <1>1, <2>1, MaxOfBounded
      <3> HIDE DEF G, N
      <3> QED BY <1>3, <3>1, Zenon
    <2> HIDE DEF G, N
    <2>2. f = [t \in SUBSET (1..n) |-> IF t = {} THEN <<>> ELSE G[Max(t)][f[t \ {Max(t)}]]]
      BY <1>4, Zenon DEF Folding
    <2> QED BY <2>1, <2>2
  <1> DEFINE g == CHOOSE h : h = [t \in SUBSET (1..n) |-> A(h, t)]
  <1>6. Only(s, S) = g[1..n]
    BY <1>1, Zenon DEF Only, FoldLeft, MapThenFoldSet
  <1>7. g = [t \in SUBSET (1..n) |-> A(g, t)]
    <2> HIDE DEF A
    <2> QED BY <1>5, Zenon
  <1> HIDE DEF g, A
  <1>8. \A t \in SUBSET (1..n) : g[t] = A(g, t)
    BY <1>7, Zenon
  <1> DEFINE h == [k \in 0 .. n |-> g[1..k]]
  <1>9. \A k \in 0 .. n : h[k] = g[1..k]
    OBVIOUS
  <1> HIDE DEF h
  <1>10. Only(s, S) = h[n]
    BY <1>1, <1>6, <1>9
  <1>11. h[0] = <<>>
    <2>1. 1..0 = {} /\ {} \in SUBSET (1..n) /\ 0 \in 0 .. n
      BY <1>1
    <2>2. g[{}] = <<>>
      BY <1>8, <2>1, Zenon DEF A
    <2> QED BY <1>9, <2>1, <2>2
  <1>12. ASSUME NEW k \in 0 .. n - 1 PROVE h[k + 1] = N(h[k], s[k + 1])
    <2>1. k \in Nat /\ k \in 0 .. n /\ k + 1 \in 0 .. n /\ 1 .. k + 1 \in SUBSET (1..n)
      BY <1>1
    <2>2. Max(1 .. k + 1) = k + 1 /\ (1 .. k + 1) \ {k + 1} = 1..k /\ 1 .. k + 1 # {}
      BY <2>1, MaxOfPrefix
    <2> DEFINE t == 1 .. k + 1
    <2>3. g[t] = A(g, t)
      BY <1>8, <2>1, Zenon
    <2>4. t # {} /\ Max(t) = k + 1 /\ t \ {Max(t)} = 1..k
      BY <2>2
    <2>5. h[k + 1] = g[t] /\ h[k] = g[1..k]
      BY <1>9, <2>1
    <2> HIDE DEF t, N
    <2>6. A(g, t) = N(g[1..k], s[k + 1])
      BY <2>4, Zenon DEF A
    <2> QED BY <2>3, <2>5, <2>6
  <1>13. \A k \in 0 .. n - 1 : h[k + 1] = IF s[k + 1] \in S THEN Append(h[k], s[k + 1]) ELSE h[k]
    BY <1>12
  <1> QED BY <1>10, <1>11, <1>13, Zenon DEF n

\* Kept is what there is of the first k elements; e has the index of each.
Picked(e, s, S, k, kept) ==
    /\ \A i \in 1 .. Len(kept) : e[i] \in 1 .. k /\ kept[i] = s[e[i]]
    /\ \A i, j \in 1 .. Len(kept) : i < j => e[i] < e[j]
    /\ \A j \in 1 .. k : s[j] \in S => \E i \in 1 .. Len(kept) : e[i] = j

LEMMA OneMorePicked ==
    ASSUME NEW E, NEW kept \in Seq(E), NEW k \in Nat, NEW s, s[k + 1] \in E, NEW S, s[k + 1] \in S,
           NEW e, Picked(e, s, S, k, kept)
    PROVE  \E f : Picked(f, s, S, k + 1, Append(kept, s[k + 1]))
  <1> DEFINE m == Len(kept)
             more == Append(kept, s[k + 1])
             f == [i \in 1 .. m + 1 |-> IF i = m + 1 THEN k + 1 ELSE e[i]]
  <1>1. /\ m \in Nat /\ Len(more) = m + 1 /\ more[m + 1] = s[k + 1]
        /\ \A i \in 1 .. m : more[i] = kept[i]
    OBVIOUS
  <1>2. /\ \A i \in 1 .. m : e[i] \in 1 .. k /\ kept[i] = s[e[i]]
        /\ \A i, j \in 1 .. m : i < j => e[i] < e[j]
        /\ \A j \in 1 .. k : s[j] \in S => \E i \in 1 .. m : e[i] = j
    BY DEF Picked
  <1> HIDE DEF m, more
  <1>3. \A i \in 1 .. m + 1 : i = m + 1 \/ i \in 1 .. m
    BY <1>1
  <1>4. \A i \in 1 .. m : i \in 1 .. m + 1 /\ i # m + 1 /\ f[i] = e[i]
    BY <1>1
  <1>5. m + 1 \in 1 .. m + 1 /\ f[m + 1] = k + 1
    BY <1>1
  <1> HIDE DEF f
  <1>6. \A i \in 1 .. m + 1 : f[i] \in 1 .. k + 1 /\ more[i] = s[f[i]]
    <2>1. \A i \in 1 .. m : e[i] \in 1 .. k + 1
      BY <1>2
    <2>2. k + 1 \in 1 .. k + 1
      OBVIOUS
    <2> QED BY <1>1, <1>2, <1>3, <1>4, <1>5, <2>1, <2>2, Zenon
  <1>7. ASSUME NEW i \in 1 .. m + 1, NEW j \in 1 .. m + 1, i < j PROVE f[i] < f[j]
    <2>1. i \in 1 .. m
      BY <1>1, <1>7
    <2>2. f[i] = e[i] /\ e[i] \in 1 .. k
      BY <1>2, <1>4, <2>1
    <2>3. CASE j = m + 1
      BY <1>5, <2>2, <2>3
    <2>4. CASE j \in 1 .. m
      BY <1>2, <1>4, <1>7, <2>1, <2>2, <2>4
    <2> QED BY <1>3, <2>3, <2>4
  <1>8. \A j \in 1 .. k + 1 : s[j] \in S => \E i \in 1 .. m + 1 : f[i] = j
    <2>1. \A j \in 1 .. k + 1 : j = k + 1 \/ j \in 1 .. k
      OBVIOUS
    <2> QED BY <1>2, <1>4, <1>5, <2>1, Zenon
  <1>9. Picked(f, s, S, k + 1, more)
    BY <1>1, <1>6, <1>7, <1>8, Zenon DEF Picked
  <1> QED BY <1>9 DEF more

LEMMA OnlyThose ==
    ASSUME NEW s, IsList(s), NEW S
    PROVE  /\ IsList(Only(s, S)) /\ ToSet(Only(s, S)) = ToSet(s) \cap S
           /\ \E e : Picked(e, s, S, Len(s), Only(s, S))
  <1> DEFINE n == Len(s)
             E == ToSet(s)
  <1>1. n \in Nat /\ DOMAIN s = 1..n /\ E = {s[i] : i \in 1..n} /\ \A i \in 1..n : s[i] \in E
    <2>1. n \in Nat /\ DOMAIN s = 1..n /\ E = {s[i] : i \in 1..n}
      BY ListFacts
    <2> HIDE DEF E, n
    <2> QED BY <2>1
  <1> HIDE DEF n, E
  <1>2a. PICK h : /\ Only(s, S) = h[Len(s)] /\ h[0] = <<>>
                  /\ \A k \in 0 .. Len(s) - 1 :
                        h[k + 1] = IF s[k + 1] \in S THEN Append(h[k], s[k + 1]) ELSE h[k]
    BY OnlyFold
  <1>2. /\ Only(s, S) = h[n] /\ h[0] = <<>>
        /\ \A k \in 0 .. n - 1 : h[k + 1] = IF s[k + 1] \in S THEN Append(h[k], s[k + 1]) ELSE h[k]
    BY <1>2a DEF n
  <1> DEFINE Good(k) == /\ h[k] \in Seq(E) /\ ToSet(h[k]) = {s[i] : i \in 1..k} \cap S
                        /\ \E e : Picked(e, s, S, k, h[k])
             T == {k \in Nat : k <= n => Good(k)}
  <1>3. 0 \in T
    <2>1. h[0] \in Seq(E) /\ ToSet(h[0]) = {s[i] : i \in 1..0} \cap S
      <3>1. <<>> \in Seq(E) /\ {s[i] : i \in 1..0} = {}
        OBVIOUS
      <3> QED BY <1>2, <3>1, ShortLists
    <2>2. Picked(<<>>, s, S, 0, h[0])
      BY <1>2 DEF Picked
    <2>3. Good(0)
      BY <2>1, <2>2, Zenon
    <2> HIDE DEF Good
    <2> QED BY <2>3
  <1>4. ASSUME NEW k \in Nat, k \in T PROVE k + 1 \in T
    <2> SUFFICES ASSUME k + 1 <= n PROVE Good(k + 1)
      <3> HIDE DEF Good
      <3> QED OBVIOUS
    <2>1. k <= n /\ k + 1 \in 1..n /\ k \in 0 .. n - 1
      BY <1>1
    <2>2. Good(k)
      <3> HIDE DEF Good
      <3> QED BY <1>4, <2>1
    <2> DEFINE a == s[k + 1]
               x == h[k]
    <2>3. PICK e : Picked(e, s, S, k, x)
      BY <2>2
    <2>4. h[k + 1] = IF a \in S THEN Append(x, a) ELSE x
      BY <1>2, <2>1
    <2>5. {s[i] : i \in 1 .. k + 1} = {s[i] : i \in 1..k} \cup {a}
      <3>1. 1 .. k + 1 = (1..k) \cup {k + 1}
        OBVIOUS
      <3> QED BY <3>1
    <2>6. x \in Seq(E) /\ a \in E /\ ToSet(x) = {s[i] : i \in 1..k} \cap S
      BY <1>1, <2>1, <2>2
    <2>7. Append(x, a) \in Seq(E) /\ ToSet(Append(x, a)) = ToSet(x) \cup {a}
      <3> HIDE DEF x, a
      <3> QED BY <2>6, AppendedElements
    <2>8. CASE a \in S
      <3>1. h[k + 1] = Append(x, a)
        BY <2>4, <2>8
      <3>2. \E f : Picked(f, s, S, k + 1, Append(x, a))
        BY <2>3, <2>6, <2>8, OneMorePicked
      <3> HIDE DEF a, x
      <3>3. ToSet(h[k + 1]) = {s[i] : i \in 1 .. k + 1} \cap S
        BY <2>5, <2>6, <2>7, <2>8, <3>1
      <3> QED BY <2>7, <3>1, <3>2, <3>3
    <2>9. CASE a \notin S
      <3>1. h[k + 1] = x
        BY <2>4, <2>9
      <3>2. Picked(e, s, S, k + 1, x)
        <4>1. \A j \in 1 .. k + 1 : j = k + 1 \/ j \in 1 .. k
          OBVIOUS
        <4>2. \A j \in 1 .. k : j \in 1 .. k + 1
          OBVIOUS
        <4> HIDE DEF x
        <4>3. a = s[k + 1]
          OBVIOUS
        <4> HIDE DEF a
        <4> QED BY <2>3, <2>9, <4>1, <4>2, <4>3, Zenon DEF Picked
      <3> HIDE DEF a, x
      <3>3. ToSet(h[k + 1]) = {s[i] : i \in 1 .. k + 1} \cap S
        BY <2>5, <2>6, <2>9, <3>1
      <3> QED BY <2>6, <3>1, <3>2, <3>3
    <2> QED BY <2>8, <2>9
  <1>5. Good(n)
    <2> HIDE DEF Good
    <2>1. n \in T
      <3> HIDE DEF T
      <3> QED BY <1>1, <1>3, <1>4, EveryNumber
    <2> QED BY <1>1, <2>1
  <1>6. /\ ToSet(h[n]) = E \cap S /\ h[n] \in Seq(E)
        /\ \E e : Picked(e, s, S, n, h[n])
    BY <1>1, <1>5
  <1>7. IsList(h[n])
    BY <1>6, ListOf
  <1> QED BY <1>2, <1>6, <1>7 DEF E, n

-----------------------------------------------------------------------------
(***************************************************************************)
(* What the renderer reads of a run of features.                           *)
(***************************************************************************)
LEMMA OneLess ==
    ASSUME NEW n \in Nat, NEW t \in SUBSET (1..n), t # {}
    PROVE  Cardinality(t) \in 1..n /\ Cardinality(t \ {Max(t)}) = Cardinality(t) - 1
  <1>1. IsFiniteSet(1..n) /\ Cardinality(1..n) = n
    BY FS_Interval
  <1>2. IsFiniteSet(t) /\ Cardinality(t) <= n
    BY <1>1, FS_Subset
  <1>3. Cardinality(t) \in Nat /\ Cardinality(t) # 0
    BY <1>2, FS_CardinalityType, FS_EmptySet
  <1>4. Max(t) \in t
    BY MaxOfBounded
  <1>5. Cardinality(t \ {Max(t)}) = Cardinality(t) - 1
    BY <1>2, <1>4, FS_RemoveElement
  <1> QED BY <1>2, <1>3, <1>5

\* One feature after the other is read, each where the one before has ended.
LEMMA Scanned ==
    ASSUME NEW file, NEW n \in Nat, NEW o,
           \A i \in 1..n : FeatureWhole(file, o[i]) /\ o[i + 1] = o[i] + 1 + UnitAt(file, o[i]).n
    PROVE  FeaturesFrom(file, o[1], n)
           = [at |-> o[n + 1], seen |-> [i \in 1..n |-> FeatureAt(file, o[i])], bad |-> FALSE]
  <1> DEFINE D == DOMAIN [k \in 1..n |-> k]
             start == [at |-> o[1], seen |-> <<>>, bad |-> FALSE]
             N(x) == IF x.bad \/ ~FeatureWhole(file, x.at) THEN [x EXCEPT !.bad = TRUE]
                     ELSE [at |-> x.at + 1 + UnitAt(file, x.at).n,
                           seen |-> Append(x.seen, FeatureAt(file, x.at)), bad |-> FALSE]
             A(f, t) == IF t = {} THEN start ELSE N(f[t \ {Max(t)}])
             g == CHOOSE h : h = [t \in SUBSET D |-> A(h, t)]
  <1>1. FeaturesFrom(file, o[1], n) = g[D]
    BY Zenon DEF FeaturesFrom, FoldLeft, MapThenFoldSet
  <1>2. D = 1..n
    OBVIOUS
  <1> HIDE DEF D
  <1> DEFINE F == [i \in 1..n |-> FeatureAt(file, o[i])]
             Sc(m) == [at |-> o[m + 1], seen |-> [i \in 1..m |-> F[i]], bad |-> FALSE]
  <1>3. ASSUME NEW c \in 1..n PROVE N(Sc(c - 1)) = Sc(c)
    <2> DEFINE x == Sc(c - 1)
               old == [i \in 1 .. c - 1 |-> F[i]]
               new == [i \in 1 .. c |-> F[i]]
               e == FeatureAt(file, o[c])
    <2>1. (c - 1) + 1 = c /\ c - 1 \in Nat /\ c \in Nat /\ c \in 1..n
      OBVIOUS
    <2>2. x.at = o[c] /\ x.seen = old /\ x.bad = FALSE
      BY <2>1
    <2>3. Append(old, e) = new
      <3>1. F[c] = e /\ \A i \in 1 .. c - 1 : old[i] = F[i]
        OBVIOUS
      <3>2. \A i \in 1 .. c : new[i] = F[i]
        OBVIOUS
      <3>3. IsList(old) /\ Len(old) = c - 1
        <4>1. old = [i \in 1 .. c - 1 |-> old[i]]
          BY <3>1
        <4> HIDE DEF old
        <4> QED BY <2>1, <4>1, ListMade
      <3>4. IsList(new) /\ Len(new) = c
        <4>1. new = [i \in 1 .. c |-> new[i]]
          BY <3>2
        <4> HIDE DEF new
        <4> QED BY <2>1, <4>1, ListMade
      <3> HIDE DEF old, new, F, e
      <3> DEFINE S == ToSet(old) \cup {e}
      <3>5. old \in Seq(S) /\ e \in S
        BY <3>3, ListFacts
      <3> HIDE DEF S
      <3>6. /\ Append(old, e) \in Seq(S) /\ Len(Append(old, e)) = c
            /\ \A i \in 1 .. c - 1 : Append(old, e)[i] = F[i]
            /\ Append(old, e)[c] = e
        BY <2>1, <3>1, <3>3, <3>5, AppendedElements
      <3> DEFINE a == Append(old, e)
      <3>7. a \in Seq(S) /\ Len(a) = c
        BY <3>6
      <3>8. new = [i \in 1..c |-> new[i]]
        BY <3>4, ListFacts
      <3>9. \A i \in 1..c : a[i] = new[i]
        <4>1. \A i \in 1..c : i = c \/ i \in 1 .. c - 1
          BY <2>1
        <4> QED BY <3>1, <3>2, <3>6, <4>1
      <3> HIDE DEF a
      <3>10. a = [i \in 1..c |-> a[i]] /\ \A i \in 1..c : a[i] = new[i]
        BY <3>7, <3>9
      <3>11. a = new
        BY <3>8, <3>10
      <3> QED BY <3>11 DEF a
    <2>4. FeatureWhole(file, o[c]) /\ o[c + 1] = o[c] + 1 + UnitAt(file, o[c]).n
      BY <2>1
    <2>5. N(x) = [at |-> x.at + 1 + UnitAt(file, x.at).n,
                  seen |-> Append(x.seen, FeatureAt(file, x.at)), bad |-> FALSE]
      <3> HIDE DEF x
      <3> QED BY <2>2, <2>4
    <2>6. N(x) = [at |-> o[c] + 1 + UnitAt(file, o[c]).n, seen |-> Append(old, e), bad |-> FALSE]
      <3> HIDE DEF N, x, old
      <3> QED BY <2>2, <2>5
    <2>7. Sc(c) = [at |-> o[c + 1], seen |-> new, bad |-> FALSE]
      OBVIOUS
    <2> HIDE DEF N, Sc, old, new, e
    <2> QED BY <2>3, <2>4, <2>6, <2>7 DEF x
  <1>4. Sc(0) = start
    <2>1. [i \in 1 .. 0 |-> F[i]] = <<>>
      OBVIOUS
    <2> QED BY <2>1
  <1> HIDE DEF N, F
  <1> DEFINE f == [t \in SUBSET D |-> Sc(Cardinality(t))]
  <1>5. f = [t \in SUBSET D |-> A(f, t)]
    <2>1. ASSUME NEW t \in SUBSET D PROVE Sc(Cardinality(t)) = A(f, t)
      <3>1. CASE t = {}
        <4>1. Cardinality(t) = 0
          BY <3>1, FS_EmptySet
        <4> HIDE DEF f, Sc
        <4> QED BY <1>4, <3>1, <4>1
      <3>2. CASE t # {}
        <4>1. Cardinality(t) \in 1..n /\ Cardinality(t \ {Max(t)}) = Cardinality(t) - 1
          BY <1>2, <3>2, OneLess
        <4>2. t \ {Max(t)} \in SUBSET D
          OBVIOUS
        <4>3. f[t \ {Max(t)}] = Sc(Cardinality(t) - 1)
          BY <4>1, <4>2
        <4>4. A(f, t) = N(f[t \ {Max(t)}])
          BY <3>2, Zenon
        <4> HIDE DEF f, Sc, A
        <4> QED BY <1>3, <4>1, <4>3, <4>4
      <3> QED BY <3>1, <3>2
    <2> HIDE DEF A, Sc
    <2>2. \A t \in SUBSET D : f[t] = Sc(Cardinality(t))
      OBVIOUS
    <2> QED BY <2>1, Zenon
  <1>6. g = [t \in SUBSET D |-> A(g, t)]
    <2> HIDE DEF A, f
    <2> QED BY <1>5, Zenon
  <1> HIDE DEF g, f, A, Sc
  <1>7. \A t \in SUBSET D : g[t] = A(g, t)
    BY <1>6, Zenon
  <1> DEFINE T == {k \in Nat : k <= n => g[1..k] = Sc(k)}
  <1>8. 0 \in T
    <2>1. 1..0 = {} /\ {} \in SUBSET D
      OBVIOUS
    <2>2. g[{}] = start
      BY <1>7, <2>1, Zenon DEF A
    <2> QED BY <1>4, <2>1, <2>2
  <1>9. ASSUME NEW k \in Nat, k \in T PROVE k + 1 \in T
    <2> SUFFICES ASSUME k + 1 <= n PROVE g[1 .. k + 1] = Sc(k + 1)
      OBVIOUS
    <2>1. k + 1 \in 1..n /\ (k + 1) - 1 = k /\ 1 .. k + 1 \in SUBSET D /\ g[1..k] = Sc(k)
      BY <1>2, <1>9
    <2>2. Max(1 .. k + 1) = k + 1 /\ (1 .. k + 1) \ {k + 1} = 1 .. k /\ 1 .. k + 1 # {}
      BY MaxOfPrefix
    <2> DEFINE t == 1 .. k + 1
    <2>3. t \in SUBSET D /\ t # {} /\ t \ {Max(t)} = 1..k
      BY <2>1, <2>2
    <2> HIDE DEF t
    <2>4. g[t] = N(g[t \ {Max(t)}])
      BY <1>7, <2>3, Zenon DEF A
    <2>5. g[t] = N(Sc(k))
      BY <2>1, <2>3, <2>4
    <2>6. N(Sc(k)) = Sc(k + 1)
      BY <1>3, <2>1
    <2> QED BY <2>5, <2>6 DEF t
  <1>10. n \in T
    <2> HIDE DEF T
    <2> QED BY <1>8, <1>9, EveryNumber
  <1>11. g[1..n] = Sc(n)
    BY <1>10
  <1>12. Sc(n) = [at |-> o[n + 1], seen |-> F, bad |-> FALSE]
    BY DEF Sc, F
  <1> QED BY <1>1, <1>2, <1>11, <1>12 DEF F

\* The file has these units from this offset on.
Has(file, at, units) ==
    \A k \in 1 .. Len(units) : Readable(file, at + k - 1) /\ UnitAt(file, at + k - 1) = units[k]

LEMMA HasBoth ==
    ASSUME NEW file, NEW at \in Nat, NEW a, IsList(a), NEW b, IsList(b), Has(file, at, a \o b)
    PROVE  Has(file, at, a) /\ Has(file, at + Len(a), b)
  <1> DEFINE c == a \o b
  <1>1. /\ Len(a) \in Nat /\ Len(b) \in Nat /\ Len(c) = Len(a) + Len(b)
        /\ \A i \in 1 .. Len(a) : c[i] = a[i]
        /\ \A i \in 1 .. Len(b) : c[Len(a) + i] = b[i]
    <2>1. Len(a) \in Nat /\ Len(b) \in Nat
      BY ListFacts
    <2>2. Len(a \o b) = Len(a) + Len(b) /\ \A i \in 1 .. Len(a) : (a \o b)[i] = a[i]
      BY ListsJoined, Zenon
    <2>3. \A i \in 1 .. Len(b) : (a \o b)[Len(a) + i] = b[i]
      BY ListsJoined
    <2> HIDE DEF c
    <2> QED BY <2>1, <2>2, <2>3, Zenon DEF c
  <1>2. \A k \in 1 .. Len(c) : Readable(file, at + k - 1) /\ UnitAt(file, at + k - 1) = c[k]
    BY DEF Has
  <1> HIDE DEF c
  <1>3. ASSUME NEW k \in 1 .. Len(a) PROVE Readable(file, at + k - 1) /\ UnitAt(file, at + k - 1) = a[k]
    <2>1. k \in 1 .. Len(c)
      BY <1>1
    <2> QED BY <1>1, <1>2, <2>1
  <1>4. ASSUME NEW k \in 1 .. Len(b)
        PROVE  Readable(file, at + Len(a) + k - 1) /\ UnitAt(file, at + Len(a) + k - 1) = b[k]
    <2>1. Len(a) + k \in 1 .. Len(c) /\ at + (Len(a) + k) - 1 = at + Len(a) + k - 1
      BY <1>1
    <2> QED BY <1>1, <1>2, <2>1
  <1> QED BY <1>3, <1>4 DEF Has

LEMMA HasRun ==
    ASSUME NEW file, NEW at \in Nat, NEW runs, Runs(runs), Has(file, at, FlattenSeq(runs)),
           NEW i \in 1 .. Len(runs)
    PROVE  Has(file, at + Offset(runs, i), runs[i])
  <1> DEFINE all == FlattenSeq(runs)
             p == Offset(runs, i)
             r == runs[i]
  <1>1. p \in Nat /\ \A k \in 1 .. Len(r) : p + k \in 1 .. Len(all) /\ all[p + k] = r[k]
    <2>1. IsList(runs) /\ Len(runs) \in Nat /\ i \in 1 .. Len(runs) + 1
      BY ListFacts DEF Runs
    <2> QED BY <2>1, Flattening
  <1>2. \A k \in 1 .. Len(all) : Readable(file, at + k - 1) /\ UnitAt(file, at + k - 1) = all[k]
    BY DEF Has
  <1>2a. Len(r) \in Nat
    BY ListFacts, Zenon DEF Runs
  <1> HIDE DEF all, p, r
  <1>3. ASSUME NEW k \in 1 .. Len(r) PROVE Readable(file, at + p + k - 1) /\ UnitAt(file, at + p + k - 1) = r[k]
    <2>1. at + (p + k) - 1 = at + p + k - 1
      BY <1>1, <1>2a
    <2> QED BY <1>1, <1>2, <2>1
  <1> QED BY <1>3 DEF Has, p, r

\* A feature header and its points.
IsFeature(units, f, style, flag) ==
    /\ IsList(units) /\ Len(units) = 1 + f.n
    /\ units[1] = [kind |-> "feature", style |-> style, flag |-> flag, n |-> f.n, box |-> BoxOf(ToSet(PointsOf(f)))]
    /\ \A k \in 1 .. f.n : units[1 + k] = [kind |-> "point", at |-> PointsOf(f)[k]]

LEMMA JoinedSecond ==
    \A a, b : IsList(a) /\ IsList(b) => \A i \in 1 .. Len(b) : (a \o b)[Len(a) + i] = b[i]
  <1> SUFFICES ASSUME NEW a, NEW b, IsList(a), IsList(b) PROVE \A i \in 1 .. Len(b) : (a \o b)[Len(a) + i] = b[i]
    OBVIOUS
  <1> QED BY ListsJoined

LEMMA FeatureUnitsList ==
    ASSUME NEW f, f.n \in Nat, NEW style, NEW flag
    PROVE  IsFeature(FeatureUnits(f, style, flag), f, style, flag)
  <1> DEFINE h == [kind |-> "feature", style |-> style, flag |-> flag, n |-> f.n, box |-> BoxOf(ToSet(PointsOf(f)))]
             P(k) == [kind |-> "point", at |-> PointsOf(f)[k]]
             n == f.n
             b == [k \in 1..n |-> P(k)]
             a == <<h>>
             u == FeatureUnits(f, style, flag)
  <1>1. u = a \o b
    BY Zenon DEF FeatureUnits
  <1> HIDE DEF h, P, u, n
  <1>2. IsList(a) /\ Len(a) = 1 /\ a[1] = h
    BY ShortLists, Zenon
  <1>3. n \in Nat
    BY DEF n
  <1>4. b = [k \in 1..n |-> b[k]] /\ \A k \in 1..n : b[k] = P(k)
    OBVIOUS
  <1> HIDE DEF a, b
  <1>5. IsList(b) /\ Len(b) = n
    BY <1>3, <1>4, ListMade
  <1>6. /\ IsList(u) /\ Len(u) = 1 + n
        /\ \A i \in 1 .. 1 : u[i] = a[i]
        /\ \A i \in 1 .. n : u[1 + i] = b[i]
    <2>1. /\ IsList(a \o b) /\ Len(a \o b) = Len(a) + Len(b)
          /\ \A i \in 1 .. Len(a) : (a \o b)[i] = a[i]
      BY <1>2, <1>5, ListsJoined, Zenon
    <2>2. \A i \in 1 .. Len(b) : (a \o b)[Len(a) + i] = b[i]
      <3>1. IsList(a) /\ IsList(b)
        BY <1>2, <1>5
      <3> QED BY <3>1, JoinedSecond
    <2>3. /\ IsList(u) /\ Len(u) = Len(a) + Len(b)
          /\ \A i \in 1 .. Len(a) : u[i] = a[i]
      BY <1>1, <2>1, Zenon
    <2>4. \A i \in 1 .. Len(b) : u[Len(a) + i] = b[i]
      BY <1>1, <2>2, Zenon
    <2> QED BY <1>2, <1>5, <2>3, <2>4
  <1>7. u[1] = h
    <2>1. 1 \in 1 .. 1
      OBVIOUS
    <2> QED BY <1>2, <1>6, <2>1
  <1>8. \A i \in 1 .. n : u[1 + i] = P(i)
    BY <1>4, <1>6
  <1>9. IsFeature(u, f, style, flag)
    BY <1>6, <1>7, <1>8, Zenon DEF IsFeature, h, P, n
  <1> QED BY <1>9 DEF u

DrawnAs(f, style, flag) ==
    [style |-> style, flag |-> flag, box |-> BoxOf(ToSet(PointsOf(f))), points |-> PointsOf(f)]

LEMMA FeatureRead ==
    ASSUME NEW file, NEW at \in Nat, NEW f, f.n \in Nat, f.n >= 2, NEW style, NEW flag,
           Has(file, at, FeatureUnits(f, style, flag))
    PROVE  /\ FeatureWhole(file, at) /\ UnitAt(file, at).n = f.n
           /\ FeatureAt(file, at) = DrawnAs(f, style, flag)
  <1> DEFINE u == FeatureUnits(f, style, flag)
             box == BoxOf(ToSet(PointsOf(f)))
             n == f.n
             h == [kind |-> "feature", style |-> style, flag |-> flag, n |-> n, box |-> box]
             points == PointsOf(f)
             P(k) == [kind |-> "point", at |-> points[k]]
  <1>1. /\ Len(u) = 1 + n /\ u[1] = h /\ \A k \in 1..n : u[1 + k] = P(k)
    <2>1. IsFeature(u, f, style, flag)
      BY FeatureUnitsList, Zenon
    <2> HIDE DEF u
    <2> QED BY <2>1, Zenon DEF IsFeature
  <1>2. \A k \in 1 .. Len(u) : Readable(file, at + k - 1) /\ UnitAt(file, at + k - 1) = u[k]
    BY DEF Has
  <1>3. n \in Nat /\ n >= 2 /\ points = [k \in 1..n |-> points[k]]
    <2>1. points = [k \in 1..n |-> nodes[RefsOf(f)[k]]]
      BY DEF PointsOf
    <2> HIDE DEF points
    <2> QED BY <2>1
  <1>4. h.kind = "feature" /\ h.style = style /\ h.flag = flag /\ h.n = n /\ h.box = box
    OBVIOUS
  <1>5. \A k : P(k).kind = "point" /\ P(k).at = points[k]
    OBVIOUS
  <1> HIDE DEF u, box, n, h, points, P
  <1>6. Readable(file, at) /\ UnitAt(file, at) = h
    <2>1. 1 \in 1 .. Len(u) /\ at + 1 - 1 = at
      BY <1>1, <1>3
    <2> QED BY <1>1, <1>2, <2>1
  <1>7. \A k \in 1..n : Readable(file, at + k) /\ UnitAt(file, at + k) = P(k)
    <2> SUFFICES ASSUME NEW k \in 1..n PROVE Readable(file, at + k) /\ UnitAt(file, at + k) = P(k)
      OBVIOUS
    <2>1. 1 + k \in 1 .. Len(u) /\ at + (1 + k) - 1 = at + k
      BY <1>1, <1>3
    <2> QED BY <1>1, <1>2, <2>1
  <1>8. FeatureWhole(file, at)
    <2>1. UnitAt(file, at).n = n /\ KindAt(file, at, "feature")
      BY <1>4, <1>6 DEF KindAt
    <2>2. \A k \in 1..n : KindAt(file, at + k, "point")
      BY <1>5, <1>7 DEF KindAt
    <2> QED BY <1>3, <2>1, <2>2 DEF FeatureWhole
  <1>9. FeatureAt(file, at) = [style |-> style, flag |-> flag, box |-> box, points |-> points]
    <2>1. [k \in 1..n |-> UnitAt(file, at + k).at] = points
      BY <1>3, <1>5, <1>7
    <2> QED BY <1>4, <1>6, <2>1 DEF FeatureAt
  <1> QED BY <1>4, <1>6, <1>8, <1>9, Zenon DEF DrawnAs, box, points, n

\* A count and that many features are read as these features.
ReadAs(file, at, n, f, style, flag) ==
    /\ CountAt(file, at) = n /\ ~FeaturesFrom(file, at + 1, n).bad
    /\ FeaturesFrom(file, at + 1, n).seen = [i \in 1 .. n |-> DrawnAs(f[i], style[i], flag[i])]

LEMMA PayloadRead ==
    ASSUME NEW file, NEW at \in Nat, NEW runs, IsList(runs), NEW f, NEW style, NEW flag,
           \A i \in 1 .. Len(runs) : /\ f[i].n \in Nat /\ f[i].n >= 2
                                     /\ runs[i] = FeatureUnits(f[i], style[i], flag[i]),
           Has(file, at, Counted(runs))
    PROVE  ReadAs(file, at, Len(runs), f, style, flag)
  <1> DEFINE n == Len(runs)
             h == [kind |-> "count", n |-> n]
             a == <<h>>
             b == FlattenSeq(runs)
             p == at + 1
             o == [i \in 1 .. n + 1 |-> p + Offset(runs, i)]
  <1>1. n \in Nat /\ IsList(runs) /\ \A i \in 1..n : IsList(runs[i]) /\ Len(runs[i]) = 1 + f[i].n
    <2>1. n \in Nat /\ IsList(runs)
      BY ListFacts
    <2>2. ASSUME NEW i \in 1..n PROVE IsList(runs[i]) /\ Len(runs[i]) = 1 + f[i].n
      <3>1. f[i].n \in Nat /\ runs[i] = FeatureUnits(f[i], style[i], flag[i])
        OBVIOUS
      <3>0. IsFeature(FeatureUnits(f[i], style[i], flag[i]), f[i], style[i], flag[i])
        BY <3>1, FeatureUnitsList, Zenon
      <3>2. IsList(FeatureUnits(f[i], style[i], flag[i])) /\ Len(FeatureUnits(f[i], style[i], flag[i])) = 1 + f[i].n
        BY <3>0, Zenon DEF IsFeature
      <3> QED BY <3>1, <3>2, Zenon
    <2> QED BY <2>1, <2>2, Zenon
  <1>2. Runs(runs)
    BY <1>1 DEF Runs
  <1>3. IsList(a) /\ Len(a) = 1 /\ a[1] = h
    BY ShortLists, Zenon
  <1>4. IsList(b)
    BY <1>2, Flattening
  <1>5. h.kind = "count" /\ h.n = n
    OBVIOUS
  <1>6. Has(file, at, a \o b)
    BY Zenon DEF Counted
  <1> HIDE DEF a, b, h
  <1>7. Has(file, at, a) /\ Has(file, p, b)
    BY <1>3, <1>4, <1>6, HasBoth
  <1>8. CountAt(file, at) = n
    <2>1. 1 \in 1 .. Len(a) /\ at + 1 - 1 = at
      BY <1>3
    <2>2. Readable(file, at) /\ UnitAt(file, at) = h
      BY <1>3, <1>7, <2>1 DEF Has
    <2>3. KindAt(file, at, "count") /\ ~KindAt(file, at, "zeros")
      BY <1>5, <2>2 DEF KindAt
    <2> HIDE DEF n
    <2> QED BY <1>5, <2>2, <2>3 DEF CountAt
  <1>9. ASSUME NEW i \in 1..n
        PROVE  /\ FeatureWhole(file, o[i]) /\ o[i + 1] = o[i] + 1 + UnitAt(file, o[i]).n
               /\ FeatureAt(file, o[i]) = DrawnAs(f[i], style[i], flag[i])
    <2>1. i \in 1 .. n + 1 /\ i + 1 \in 1 .. n + 1
      BY <1>1
    <2>2. o[i] = p + Offset(runs, i) /\ o[i + 1] = p + Offset(runs, i + 1)
      <3> HIDE DEF n, p
      <3> QED BY <2>1
    <2>3. Offset(runs, i) \in Nat /\ Offset(runs, i + 1) = Offset(runs, i) + Len(runs[i])
      BY <1>2, <2>1, Flattening
    <2>4. Has(file, p + Offset(runs, i), runs[i])
      BY <1>2, <1>7, HasRun DEF b
    <2>5. p + Offset(runs, i) \in Nat
      BY <2>3
    <2> DEFINE q == p + Offset(runs, i)
    <2> HIDE DEF n, o, p
    <2>6. /\ FeatureWhole(file, q) /\ UnitAt(file, q).n = f[i].n
          /\ FeatureAt(file, q) = DrawnAs(f[i], style[i], flag[i])
      <3>1. Has(file, q, FeatureUnits(f[i], style[i], flag[i])) /\ f[i].n \in Nat /\ f[i].n >= 2 /\ q \in Nat
        BY <2>4, <2>5 DEF n
      <3> HIDE DEF q
      <3> QED BY <3>1, FeatureRead
    <2>7. o[i + 1] = o[i] + 1 + f[i].n
      <3>1. f[i].n \in Nat /\ Len(runs[i]) = 1 + f[i].n /\ p \in Nat
        BY <1>1 DEF p, n
      <3> QED BY <2>2, <2>3, <3>1
    <2> QED BY <2>2, <2>6, <2>7
  <1>10. o[1] = p
    <2>1. 1 \in 1 .. n + 1
      BY <1>1
    <2>2. o[1] = p + Offset(runs, 1)
      <3> HIDE DEF n, p
      <3> QED BY <2>1
    <2> QED BY <1>2, <2>2, Flattening
  <1> HIDE DEF o, p, n
  <1>11. FeaturesFrom(file, o[1], n)
         = [at |-> o[n + 1], seen |-> [i \in 1..n |-> FeatureAt(file, o[i])], bad |-> FALSE]
    <2>1. n \in Nat
      BY <1>1
    <2>2. \A i \in 1..n : FeatureWhole(file, o[i]) /\ o[i + 1] = o[i] + 1 + UnitAt(file, o[i]).n
      BY <1>9, Zenon
    <2> QED BY <2>1, <2>2, Scanned, Zenon
  <1>12. [i \in 1..n |-> FeatureAt(file, o[i])] = [i \in 1..n |-> DrawnAs(f[i], style[i], flag[i])]
    BY <1>9
  <1>13. /\ ~FeaturesFrom(file, p, n).bad
         /\ FeaturesFrom(file, p, n).seen = [i \in 1..n |-> DrawnAs(f[i], style[i], flag[i])]
    BY <1>10, <1>11, <1>12
  <1> QED BY <1>8, <1>13, Zenon DEF ReadAs, n, p

LEMMA FromList ==
    ASSUME NEW units, IsList(units), NEW at
    PROVE  /\ IsList(From(at, units)) /\ Len(From(at, units)) = Len(units)
           /\ \A k \in 1 .. Len(units) : From(at, units)[k] = [at |-> at + k - 1, unit |-> units[k]]
  <1> DEFINE n == Len(units)
             P(k) == [at |-> at + k - 1, unit |-> units[k]]
             l == From(at, units)
  <1>1. n \in Nat /\ DOMAIN units = 1 .. n
    BY ListFacts
  <1>2. l = [k \in 1 .. n |-> P(k)]
    <2>1. l = [k \in DOMAIN units |-> P(k)]
      BY Zenon DEF From
    <2> QED BY <1>1, <2>1, Zenon
  <1> HIDE DEF P, l, n
  <1>3. l = [k \in 1 .. n |-> l[k]] /\ \A k \in 1 .. n : l[k] = P(k)
    BY <1>2
  <1>4. IsList(l) /\ Len(l) = n
    BY <1>1, <1>3, ListMade
  <1> QED BY <1>3, <1>4, Zenon DEF P, l, n

LEMMA HasItself ==
    ASSUME NEW file, IsList(file)
    PROVE  Has(file, 0, file)
  <1>1. Len(file) \in Nat
    BY ListFacts
  <1> QED BY <1>1 DEF Has, Readable, UnitAt

\* The writes at consecutive offsets that are the ones from m + 1 on.
LEMMA HasWrites ==
    ASSUME NEW W, NEW m \in Nat, NEW at \in Nat, NEW units, IsList(units), Has(W, m, From(at, units))
    PROVE  \A k \in 1 .. Len(units) : /\ m + k \in 1 .. Len(W)
                                      /\ W[m + k].at = at + k - 1 /\ W[m + k].unit = units[k]
  <1> DEFINE l == From(at, units)
             n == Len(units)
  <1>1. n \in Nat /\ Len(l) = n /\ \A k \in 1 .. n : l[k] = [at |-> at + k - 1, unit |-> units[k]]
    BY ListFacts, FromList
  <1>2. \A k \in 1 .. n : l[k].at = at + k - 1 /\ l[k].unit = units[k]
    <2> SUFFICES ASSUME NEW k \in 1 .. n PROVE l[k].at = at + k - 1 /\ l[k].unit = units[k]
      OBVIOUS
    <2>1. l[k] = [at |-> at + k - 1, unit |-> units[k]]
      BY <1>1, Zenon
    <2> HIDE DEF l, n
    <2> QED BY <2>1
  <1>3. \A k \in 1 .. Len(l) : Readable(W, m + k - 1) /\ UnitAt(W, m + k - 1) = l[k]
    BY Zenon DEF Has
  <1> HIDE DEF l, n
  <1>4. ASSUME NEW k \in 1 .. n
        PROVE  m + k \in 1 .. Len(W) /\ W[m + k] = l[k]
    <2>0. k \in 1 .. Len(l) /\ (m + k - 1) + 1 = m + k
      BY <1>1
    <2>1. Readable(W, m + k - 1) /\ UnitAt(W, m + k - 1) = l[k] /\ (m + k - 1) + 1 = m + k
      BY <1>3, <2>0, Zenon
    <2> QED BY <2>1 DEF Readable, UnitAt
  <1> QED BY <1>2, <1>4, Zenon DEF n

LEMMA JoinedLength ==
    \A a, b : IsList(a) /\ IsList(b) => IsList(a \o b) /\ Len(a \o b) = Len(a) + Len(b)
  <1> SUFFICES ASSUME NEW a, NEW b, IsList(a), IsList(b) PROVE IsList(a \o b) /\ Len(a \o b) = Len(a) + Len(b)
    OBVIOUS
  <1> QED BY ListsJoined

LEMMA JoinedFirst ==
    \A a, b : IsList(a) /\ IsList(b) => \A i \in 1 .. Len(a) : (a \o b)[i] = a[i]
  <1> SUFFICES ASSUME NEW a, NEW b, IsList(a), IsList(b) PROVE \A i \in 1 .. Len(a) : (a \o b)[i] = a[i]
    OBVIOUS
  <1> QED BY ListsJoined

LEMMA SameList ==
    ASSUME NEW a, IsList(a), NEW b, IsList(b), Len(a) = Len(b), \A k \in 1 .. Len(a) : a[k] = b[k]
    PROVE  a = b
  <1>1. a = [i \in 1 .. Len(a) |-> a[i]] /\ b = [i \in 1 .. Len(b) |-> b[i]]
    BY ListFacts
  <1> QED BY <1>1

\* Writes that go on where others end are the writes of both.
LEMMA FromJoined ==
    ASSUME NEW at \in Nat, NEW a, IsList(a), NEW b, IsList(b)
    PROVE  From(at, a) \o From(at + Len(a), b) = From(at, a \o b)
  <1> DEFINE fa == From(at, a)
             fb == From(at + Len(a), b)
             c == a \o b
             fc == From(at, c)
             P(k, x) == [at |-> k, unit |-> x]
  <1>1. /\ Len(a) \in Nat /\ Len(b) \in Nat /\ IsList(c) /\ Len(c) = Len(a) + Len(b)
        /\ \A i \in 1 .. Len(a) : c[i] = a[i]
    BY ListFacts, ListsJoined
  <1>2. \A i \in 1 .. Len(b) : c[Len(a) + i] = b[i]
    BY JoinedSecond
  <1>3. IsList(fa) /\ Len(fa) = Len(a) /\ \A k \in 1 .. Len(a) : fa[k] = P(at + k - 1, a[k])
    BY FromList, Zenon
  <1>4. IsList(fb) /\ Len(fb) = Len(b) /\ \A k \in 1 .. Len(b) : fb[k] = P(at + Len(a) + k - 1, b[k])
    BY FromList, Zenon
  <1> HIDE DEF c
  <1>5. IsList(fc) /\ Len(fc) = Len(c) /\ \A k \in 1 .. Len(c) : fc[k] = P(at + k - 1, c[k])
    BY <1>1, FromList, Zenon
  <1> HIDE DEF fa, fb, fc, P
  <1> DEFINE f == fa \o fb
  <1>6. /\ IsList(f) /\ Len(f) = Len(fa) + Len(fb)
        /\ \A i \in 1 .. Len(fa) : f[i] = fa[i]
    BY <1>3, <1>4, ListsJoined, Zenon
  <1>7. \A i \in 1 .. Len(fb) : f[Len(fa) + i] = fb[i]
    BY <1>3, <1>4, JoinedSecond
  <1> HIDE DEF f
  <1>8. ASSUME NEW k \in 1 .. Len(c) PROVE f[k] = fc[k]
    <2>1. CASE k \in 1 .. Len(a)
      BY <1>1, <1>3, <1>5, <1>6, <2>1
    <2>2. CASE k \notin 1 .. Len(a)
      <3> DEFINE j == k - Len(a)
      <3>1. j \in 1 .. Len(b) /\ k = Len(a) + j /\ at + Len(a) + j - 1 = at + k - 1
        BY <1>1, <2>2
      <3> HIDE DEF j
      <3>2. f[k] = P(at + k - 1, b[j])
        BY <1>3, <1>4, <1>7, <3>1
      <3>3. c[k] = b[j]
        BY <1>2, <3>1
      <3> QED BY <1>5, <3>2, <3>3
    <2> QED BY <2>1, <2>2
  <1>9. f = fc
    BY <1>1, <1>3, <1>4, <1>5, <1>6, <1>8, SameList
  <1> QED BY <1>9 DEF f, fa, fb, fc, c

\* The contents of a file are written from pa on, n units of them, before the
\* directories that precede them; the header comes first and again last.
Filed(W, L, pa, n, first) ==
    /\ IsList(W) /\ IsList(L) /\ pa \in Nat /\ pa >= 1 /\ n \in Nat
    /\ Len(L) = pa + n /\ Len(W) = pa + n + 1
    /\ W[1].at = 0 /\ W[1].unit = first
    /\ \A m \in 2 .. n + 1 : W[m].at = pa + m - 2
    /\ \A m \in n + 2 .. n + pa : W[m].at = m - n - 1
    /\ W[n + pa + 1].at = 0
    /\ \A m \in 2 .. n + pa + 1 : W[m].unit = L[W[m].at + 1]

LEMMA FiledInOrder ==
    ASSUME NEW contents, IsList(contents), NEW directories, IsList(directories), NEW first, NEW final
    PROVE  Filed(InOrder(From(0, <<first>>), From(1 + Len(directories), contents), From(1, directories),
                         From(0, <<final>>)),
                 <<final>> \o (directories \o contents), 1 + Len(directories), Len(contents), first)
  <1> DEFINE n == Len(contents)
             d == Len(directories)
             A == From(0, <<first>>)
             B == From(1 + d, contents)
             C == From(1, directories)
             D == From(0, <<final>>)
             W == ((A \o B) \o C) \o D
             M == directories \o contents
             L == <<final>> \o M
  <1>1. n \in Nat /\ d \in Nat /\ 1 \in Nat /\ 0 \in Nat /\ 1 + d \in Nat
    BY ListFacts
  <1>2. /\ IsList(<<first>>) /\ Len(<<first>>) = 1 /\ <<first>>[1] = first
        /\ IsList(<<final>>) /\ Len(<<final>>) = 1 /\ <<final>>[1] = final
    BY ShortLists, Zenon
  <1>3. /\ IsList(A) /\ Len(A) = 1 /\ IsList(B) /\ Len(B) = n
        /\ IsList(C) /\ Len(C) = d /\ IsList(D) /\ Len(D) = 1
    BY <1>2, FromList, Zenon
  <1> HIDE DEF A, B, C, D
  <1>4. IsList(A \o B) /\ Len(A \o B) = 1 + n
    BY <1>3, JoinedLength
  <1>5. IsList((A \o B) \o C) /\ Len((A \o B) \o C) = 1 + n + d
    <2> DEFINE ab == A \o B
    <2>1. IsList(ab) /\ Len(ab) = 1 + n
      BY <1>4
    <2> HIDE DEF ab
    <2>2. IsList(ab \o C) /\ Len(ab \o C) = 1 + n + d
      BY <1>3, <2>1, JoinedLength
    <2> QED BY <2>2 DEF ab
  <1>6. IsList(W) /\ Len(W) = n + d + 2
    <2> DEFINE abc == (A \o B) \o C
    <2>1. IsList(abc) /\ Len(abc) = 1 + n + d
      BY <1>5
    <2> HIDE DEF abc
    <2>2. IsList(abc \o D) /\ Len(abc \o D) = (1 + n + d) + 1
      BY <1>3, <2>1, JoinedLength
    <2>3. (1 + n + d) + 1 = n + d + 2
      BY <1>1
    <2> QED BY <2>2, <2>3 DEF abc
  <1>7. Has(W, 0, A) /\ Has(W, 1, B) /\ Has(W, 1 + n, C) /\ Has(W, 1 + n + d, D)
    <2>1. Has(W, 0, W)
      <3> HIDE DEF W
      <3> QED BY <1>6, HasItself
    <2> DEFINE abc == (A \o B) \o C
               ab == A \o B
    <2>2. Has(W, 0, abc \o D) /\ IsList(abc) /\ Len(abc) = 1 + n + d
      BY <1>5, <2>1
    <2> HIDE DEF W
    <2>3. Has(W, 0, abc) /\ Has(W, 0 + Len(abc), D)
      <3> HIDE DEF abc
      <3> QED BY <1>1, <1>3, <2>2, HasBoth
    <2>4. Has(W, 0, ab \o C) /\ IsList(ab) /\ Len(ab) = 1 + n
      BY <1>4, <2>3
    <2>5. Has(W, 0, ab) /\ Has(W, 0 + Len(ab), C)
      <3> HIDE DEF ab
      <3> QED BY <1>1, <1>3, <2>4, HasBoth
    <2>6. Has(W, 0, A) /\ Has(W, 0 + Len(A), B)
      BY <1>1, <1>3, <2>5, HasBoth
    <2>7. 0 + Len(abc) = 1 + n + d /\ 0 + Len(ab) = 1 + n /\ 0 + Len(A) = 1
      BY <1>1, <1>3, <2>2, <2>4
    <2> HIDE DEF abc, ab
    <2> QED BY <2>3, <2>5, <2>6, <2>7
  <1>8. /\ IsList(M) /\ Len(M) = d + n
        /\ \A i \in 1 .. d : M[i] = directories[i]
    BY ListsJoined, Zenon
  <1>9. \A i \in 1 .. n : M[d + i] = contents[i]
    BY JoinedSecond
  <1>10. IsList(L) /\ Len(L) = 1 + (d + n) /\ L[1] = final /\ \A i \in 1 .. d + n : L[1 + i] = M[i]
    <2> DEFINE f == <<final>>
    <2>1. IsList(f) /\ Len(f) = 1 /\ f[1] = final
      BY <1>2
    <2> HIDE DEF f, M
    <2>2. IsList(f \o M) /\ Len(f \o M) = 1 + (d + n)
      <3>1. IsList(f \o M) /\ Len(f \o M) = Len(f) + Len(M)
        BY <1>8, <2>1, JoinedLength
      <3> QED BY <1>8, <2>1, <3>1
    <2>3. \A i \in 1 .. Len(f) : (f \o M)[i] = f[i]
      BY <1>8, <2>1, JoinedFirst
    <2>4. \A i \in 1 .. Len(M) : (f \o M)[Len(f) + i] = M[i]
      <3>1. IsList(M) /\ IsList(f)
        BY <1>8, <2>1
      <3> QED BY <3>1, JoinedSecond
    <2>5. 1 \in 1 .. Len(f)
      BY <2>1
    <2>6. (f \o M)[1] = final
      BY <2>1, <2>3, <2>5
    <2>7. \A i \in 1 .. d + n : (f \o M)[1 + i] = M[i]
      BY <1>8, <2>1, <2>4
    <2> QED BY <2>2, <2>6, <2>7, Zenon DEF f
  <1> HIDE DEF W, L
  <1>11. W[1].at = 0 /\ W[1].unit = first
    <2>1. \A k \in 1 .. Len(<<first>>) : W[0 + k].at = 0 + k - 1 /\ W[0 + k].unit = <<first>>[k]
      BY <1>1, <1>2, <1>7, HasWrites DEF A
    <2>2. 1 \in 1 .. Len(<<first>>)
      BY <1>2
    <2>3. W[0 + 1].at = 0 + 1 - 1 /\ W[0 + 1].unit = <<first>>[1]
      BY <2>1, <2>2
    <2> QED BY <1>2, <2>3
  <1>12. W[n + d + 2].at = 0 /\ W[n + d + 2].unit = final
    <2>0. 1 + n + d \in Nat
      BY <1>1
    <2>1. \A k \in 1 .. Len(<<final>>) : W[1 + n + d + k].at = 0 + k - 1 /\ W[1 + n + d + k].unit = <<final>>[k]
      <3> DEFINE m == 1 + n + d
                 f == <<final>>
      <3>1. m \in Nat /\ IsList(f) /\ Has(W, m, From(0, f))
        BY <1>2, <1>7, <2>0 DEF D
      <3> HIDE DEF m, f
      <3>2. \A k \in 1 .. Len(f) : W[m + k].at = 0 + k - 1 /\ W[m + k].unit = f[k]
        BY <1>1, <3>1, HasWrites
      <3> QED BY <3>2 DEF m, f
    <2>2. 1 \in 1 .. Len(<<final>>)
      BY <1>2
    <2>3. W[1 + n + d + 1].at = 0 + 1 - 1 /\ W[1 + n + d + 1].unit = <<final>>[1]
      BY <2>1, <2>2
    <2>4. 1 + n + d + 1 = n + d + 2 /\ 0 + 1 - 1 = 0
      BY <1>1
    <2> QED BY <1>2, <2>3, <2>4
  <1>13. \A k \in 1 .. n : W[1 + k].at = 1 + d + k - 1 /\ W[1 + k].unit = contents[k]
    <2> DEFINE p == 1 + d
    <2>1. p \in Nat /\ Has(W, 1, From(p, contents))
      BY <1>1, <1>7 DEF B
    <2> HIDE DEF p
    <2>2. \A k \in 1 .. Len(contents) : W[1 + k].at = p + k - 1 /\ W[1 + k].unit = contents[k]
      BY <1>1, <2>1, HasWrites
    <2> QED BY <2>2 DEF p
  <1>14. \A k \in 1 .. d : W[1 + n + k].at = 1 + k - 1 /\ W[1 + n + k].unit = directories[k]
    BY <1>1, <1>7, HasWrites DEF C
  <1> HIDE DEF n, d, M
  <1>15. ASSUME NEW m \in 2 .. n + 1
         PROVE  W[m].at = (1 + d) + m - 2 /\ W[m].unit = L[W[m].at + 1]
    <2> DEFINE k == m - 1
    <2>1. k \in 1 .. n /\ m = 1 + k /\ 1 + d + k - 1 = (1 + d) + m - 2 /\ d + k \in 1 .. d + n
          /\ (1 + d + k - 1) + 1 = 1 + (d + k)
      BY <1>1
    <2> HIDE DEF k
    <2>2. W[m].at = 1 + d + k - 1 /\ W[m].unit = contents[k]
      BY <1>13, <2>1
    <2>3. L[1 + (d + k)] = contents[k]
      BY <1>9, <1>10, <2>1
    <2>4. L[W[m].at + 1] = contents[k]
      BY <2>1, <2>2, <2>3
    <2> QED BY <2>1, <2>2, <2>4
  <1>16. ASSUME NEW m \in n + 2 .. n + (1 + d)
         PROVE  W[m].at = m - n - 1 /\ W[m].unit = L[W[m].at + 1]
    <2> DEFINE k == m - n - 1
    <2>1. k \in 1 .. d /\ m = 1 + n + k /\ 1 + k - 1 = k /\ k \in 1 .. d + n /\ k + 1 = 1 + k
      BY <1>1
    <2> HIDE DEF k
    <2> QED BY <1>8, <1>10, <1>14, <2>1 DEF k
  <1>17. W[n + (1 + d) + 1].at = 0 /\ W[n + (1 + d) + 1].unit = L[W[n + (1 + d) + 1].at + 1]
    <2>1. n + (1 + d) + 1 = n + d + 2 /\ 0 + 1 = 1
      BY <1>1
    <2> QED BY <1>10, <1>12, <2>1
  <1>18. \A m \in 2 .. n + (1 + d) + 1 : W[m].unit = L[W[m].at + 1]
    <2> SUFFICES ASSUME NEW m \in 2 .. n + (1 + d) + 1 PROVE W[m].unit = L[W[m].at + 1]
      OBVIOUS
    <2>1. m \in 2 .. n + 1 \/ m \in n + 2 .. n + (1 + d) \/ m = n + (1 + d) + 1
      BY <1>1
    <2> QED BY <1>15, <1>16, <1>17, <2>1
  <1>19. Filed(W, L, 1 + d, n, first)
    <2>1. 1 + d \in Nat /\ 1 + d >= 1 /\ Len(L) = (1 + d) + n /\ Len(W) = (1 + d) + n + 1
      BY <1>1, <1>6, <1>10
    <2> QED BY <1>1, <1>6, <1>10, <1>11, <1>15, <1>16, <1>17, <1>18, <2>1 DEF Filed
  <1>20. W = InOrder(From(0, <<first>>), From(1 + d, contents), From(1, directories), From(0, <<final>>))
    BY Zenon DEF W, InOrder, A, B, C, D
  <1>21. L = <<final>> \o (directories \o contents)
    BY Zenon DEF L, M
  <1> QED BY <1>19, <1>20, <1>21, Zenon DEF n, d

-----------------------------------------------------------------------------
(***************************************************************************)
(* The parts of Writes.                                                    *)
(***************************************************************************)
ValidPlaces == Only(places.list, {p \in ToSet(places.list) : ValidPlace(p)})
Payloads == [i \in DOMAIN UsedTiles |-> TileUnits(UsedTiles[i])]
Outlines == [i \in DOMAIN ValidPlaces |-> OutlineUnits(ValidPlaces[i])]
NameUnits == [i \in DOMAIN places.strings |-> [kind |-> "name", name |-> places.strings[i]]]

TileAt == 1 + 2 * Len(ValidPlaces)
PayloadAt == TileAt + 2 * Len(UsedTiles)
OutlineAt == PayloadAt + Len(FlattenSeq(Payloads))
StringAt == OutlineAt + Len(FlattenSeq(Outlines))

FirstHeader ==
    [kind |-> "header", halo |-> source.halo, places |-> Len(ValidPlaces), tiles |-> Len(UsedTiles),
     placeAt |-> 1, tileAt |-> TileAt, sourceWays |-> Len(FlattenSeq(source.ways)), complete |-> FALSE]
LastHeader == [FirstHeader EXCEPT !.complete = TRUE]

PlaceUnit(i) ==
    [kind |-> "place", rank |-> ValidPlaces[i].rank, box |-> BoxOf(PlacePoints(ValidPlaces[i])),
     nameAt |-> StringAt + ValidPlaces[i].nameAt]
OutlineUnit(i) ==
    [kind |-> "outline of place", n |-> Len(OutlineWays(ValidPlaces[i])),
     at |-> IF Outlines[i] = <<>> THEN 0 ELSE Starts(OutlineAt, Outlines)[i]]
TileUnit(i) ==
    [kind |-> "tile", x |-> UsedTiles[i][1], y |-> UsedTiles[i][2], n |-> Len(Holds(UsedTiles[i]))]
PayloadUnit(i) == [kind |-> "place of tile", at |-> Starts(PayloadAt, Payloads)[i]]

PlaceEntries == [i \in DOMAIN ValidPlaces |-> <<PlaceUnit(i), OutlineUnit(i)>>]
TileEntries == [i \in DOMAIN UsedTiles |-> <<TileUnit(i), PayloadUnit(i)>>]

Contents == (FlattenSeq(Payloads) \o FlattenSeq(Outlines)) \o NameUnits
Directories == FlattenSeq(PlaceEntries) \o FlattenSeq(TileEntries)

AllWrites ==
    InOrder(From(0, <<FirstHeader>>),
            From(PayloadAt, FlattenSeq(Payloads)) \o From(OutlineAt, FlattenSeq(Outlines))
            \o From(StringAt, NameUnits),
            From(1, FlattenSeq(PlaceEntries)) \o From(TileAt, FlattenSeq(TileEntries)),
            From(0, <<LastHeader>>))

LEMMA WritesParts == Writes = AllWrites
  BY Zenon DEF Writes, AllWrites, ValidPlaces, Payloads, Outlines, NameUnits, TileAt, PayloadAt, OutlineAt, StringAt,
               FirstHeader, LastHeader, PlaceUnit, OutlineUnit, TileUnit, PayloadUnit, PlaceEntries, TileEntries

LEMMA ListOver ==
    ASSUME NEW s, IsList(s), NEW g, g = [i \in DOMAIN s |-> g[i]]
    PROVE  IsList(g) /\ Len(g) = Len(s) /\ DOMAIN g = 1 .. Len(s) /\ DOMAIN s = 1 .. Len(s) /\ Len(s) \in Nat
  <1>1. Len(s) \in Nat /\ DOMAIN s = 1 .. Len(s)
    BY ListFacts
  <1>2. g = [i \in 1 .. Len(s) |-> g[i]]
    BY <1>1
  <1> DEFINE n == Len(s)
  <1>3. n \in Nat /\ g = [i \in 1 .. n |-> g[i]]
    BY <1>1, <1>2
  <1> HIDE DEF n
  <1>4. IsList(g) /\ Len(g) = n /\ DOMAIN g = 1 .. n
    BY <1>3, ListMade
  <1> QED BY <1>1, <1>4 DEF n

LEMMA CountedList ==
    ASSUME NEW runs, Runs(runs)
    PROVE  IsList(Counted(runs)) /\ Len(Counted(runs)) >= 1
  <1> DEFINE a == <<[kind |-> "count", n |-> Len(runs)]>>
             b == FlattenSeq(runs)
  <1>1. IsList(a) /\ Len(a) = 1
    BY ShortLists, Zenon
  <1>2. IsList(b)
    BY Flattening
  <1>3. Counted(runs) = a \o b
    BY Zenon DEF Counted
  <1> HIDE DEF a, b
  <1>4. IsList(a \o b) /\ Len(a \o b) = 1 + Len(b) /\ Len(b) \in Nat
    BY <1>1, <1>2, JoinedLength, ListFacts
  <1> QED BY <1>3, <1>4

\* Runs of two units each.
LEMMA Pairs ==
    ASSUME NEW runs, IsList(runs), \A i \in 1 .. Len(runs) : \E x, y : runs[i] = <<x, y>>
    PROVE  /\ Runs(runs) /\ Len(FlattenSeq(runs)) = 2 * Len(runs)
           /\ \A i \in 1 .. Len(runs) : Offset(runs, i) = 2 * (i - 1)
  <1> DEFINE n == Len(runs)
  <1>1. n \in Nat
    BY ListFacts
  <1>2. \A i \in 1 .. n : IsList(runs[i]) /\ Len(runs[i]) = 2
    <2> SUFFICES ASSUME NEW i \in 1 .. n PROVE IsList(runs[i]) /\ Len(runs[i]) = 2
      OBVIOUS
    <2>1. PICK x, y : runs[i] = <<x, y>>
      OBVIOUS
    <2>2. IsList(<<x, y>>) /\ Len(<<x, y>>) = 2
      BY ShortLists, Zenon
    <2> QED BY <2>1, <2>2
  <1>3. Runs(runs)
    BY <1>2 DEF Runs
  <1>4. /\ Offset(runs, 1) = 0 /\ Offset(runs, n + 1) = Len(FlattenSeq(runs))
        /\ \A i \in 1 .. n : Offset(runs, i + 1) = Offset(runs, i) + Len(runs[i])
    BY <1>3, Flattening
  <1> DEFINE T == {k \in Nat : k <= n => Offset(runs, k + 1) = 2 * k}
  <1> HIDE DEF n
  <1>5. 0 \in T
    BY <1>4
  <1>6. ASSUME NEW k \in Nat, k \in T PROVE k + 1 \in T
    <2> SUFFICES ASSUME k + 1 <= n PROVE Offset(runs, (k + 1) + 1) = 2 * (k + 1)
      OBVIOUS
    <2>1. k + 1 \in 1 .. n /\ k <= n
      BY <1>1
    <2>2. Offset(runs, k + 1) = 2 * k
      BY <1>6, <2>1
    <2>3. Offset(runs, (k + 1) + 1) = Offset(runs, k + 1) + Len(runs[k + 1]) /\ Len(runs[k + 1]) = 2
      BY <1>2, <1>4, <2>1, Zenon
    <2>4. Offset(runs, (k + 1) + 1) = 2 * k + 2
      BY <2>2, <2>3
    <2> QED BY <2>4
  <1>7. \A k \in Nat : k \in T
    <2> HIDE DEF T
    <2> QED BY <1>5, <1>6, EveryNumber
  <1>8. \A k \in Nat : k <= n => Offset(runs, k + 1) = 2 * k
    BY <1>7
  <1>9. Offset(runs, n + 1) = 2 * n
    BY <1>1, <1>8
  <1>10. \A i \in 1 .. n : Offset(runs, i) = 2 * (i - 1)
    <2> SUFFICES ASSUME NEW i \in 1 .. n PROVE Offset(runs, i) = 2 * (i - 1)
      OBVIOUS
    <2>1. i - 1 \in Nat /\ i - 1 <= n /\ (i - 1) + 1 = i
      BY <1>1
    <2> QED BY <1>8, <2>1
  <1> QED BY <1>3, <1>4, <1>9, <1>10 DEF n

LEMMA AxisSquared ==
    /\ Axis * Axis \in Nat
    /\ \A i \in 1 .. Axis * Axis : (i - 1) \div Axis \in 0 .. Axis - 1 /\ (i - 1) % Axis \in 0 .. Axis - 1
    /\ \A x, y \in 0 .. Axis - 1 : \E i \in 1 .. Axis * Axis : (i - 1) \div Axis = x /\ (i - 1) % Axis = y
  <1>1. Axis \in Nat /\ Axis >= 1
    BY MapTilesAssumption DEF MapTilesAssumption
  <1>2. Axis * Axis \in Nat
    BY <1>1
  <1>3. ASSUME NEW i \in 1 .. Axis * Axis
        PROVE  (i - 1) \div Axis \in 0 .. Axis - 1 /\ (i - 1) % Axis \in 0 .. Axis - 1
    <2> DEFINE q == (i - 1) \div Axis
               r == (i - 1) % Axis
    <2>1. i - 1 \in Nat /\ i - 1 < Axis * Axis
      BY <1>2
    <2>2. q \in Int /\ r \in 0 .. Axis - 1 /\ i - 1 = Axis * q + r
      BY <1>1, <2>1
    <2> HIDE DEF q, r
    <2>3. q >= 0
      <3> SUFFICES ASSUME q <= -1 PROVE FALSE
        BY <2>2
      <3>1. Axis * q <= -Axis
        BY <1>1, <2>2
      <3> QED BY <1>1, <2>1, <2>2, <3>1
    <2>4. q <= Axis - 1
      <3> SUFFICES ASSUME q >= Axis PROVE FALSE
        BY <1>1, <2>2
      <3>1. Axis * q >= Axis * Axis
        BY <1>1, <2>2
      <3> QED BY <1>1, <2>1, <2>2, <3>1
    <2> QED BY <2>2, <2>3, <2>4 DEF q, r
  <1>4. ASSUME NEW x \in 0 .. Axis - 1, NEW y \in 0 .. Axis - 1
        PROVE  \E i \in 1 .. Axis * Axis : (i - 1) \div Axis = x /\ (i - 1) % Axis = y
    <2> DEFINE p == Axis * x
               i == p + y + 1
    <2>1. p \in Nat /\ p + Axis <= Axis * Axis
      <3>1. Axis * (x + 1) <= Axis * Axis
        BY <1>1
      <3> QED BY <1>1, <3>1
    <2>2. i \in 1 .. Axis * Axis /\ i - 1 = p + y
      <3> HIDE DEF p
      <3> QED BY <1>1, <1>2, <2>1
    <2> DEFINE q == (i - 1) \div Axis
               r == (i - 1) % Axis
    <2>3. i - 1 = Axis * x + y
      BY <2>2
    <2> HIDE DEF i, p
    <2>4. q \in Int /\ r \in 0 .. Axis - 1 /\ i - 1 = Axis * q + r
      BY <1>1, <1>2, <2>2
    <2> HIDE DEF q, r
    <2>5. q = x
      <3>1. Axis * q + r = Axis * x + y /\ q \in Int /\ x \in Int
        BY <2>3, <2>4
      <3>2. ~(q < x)
        <4> SUFFICES ASSUME q + 1 <= x PROVE FALSE
          BY <3>1
        <4>1. Axis * (q + 1) <= Axis * x
          BY <1>1, <3>1
        <4>2. Axis * (q + 1) = Axis * q + Axis
          BY <1>1, <3>1
        <4> QED BY <1>1, <2>4, <3>1, <4>1, <4>2
      <3>3. ~(x < q)
        <4> SUFFICES ASSUME x + 1 <= q PROVE FALSE
          BY <3>1
        <4>1. Axis * (x + 1) <= Axis * q
          BY <1>1, <3>1
        <4>2. Axis * (x + 1) = Axis * x + Axis
          BY <1>1, <3>1
        <4> QED BY <1>1, <2>4, <3>1, <4>1, <4>2
      <3> QED BY <3>1, <3>2, <3>3
    <2>6. r = y
      BY <2>3, <2>4, <2>5, <1>1
    <2> QED BY <2>2, <2>5, <2>6, Zenon DEF q, r
  <1> QED BY <1>2, <1>3, <1>4

\* The tiles that are used, and what they hold.
LEMMA TilesUsed ==
    /\ IsList(UsedTiles) /\ Len(UsedTiles) \in Nat /\ DOMAIN UsedTiles = 1 .. Len(UsedTiles)
    /\ ToSet(UsedTiles) = UNION {TilesOf(f) : f \in ToSet(pack.features)}
  <1> DEFINE P(i) == <<(i - 1) \div Axis, (i - 1) % Axis>>
             grid == [i \in 1 .. Axis * Axis |-> P(i)]
             used == UNION {TilesOf(f) : f \in ToSet(pack.features)}
             N == Axis * Axis
  <1>1. N \in Nat
    BY AxisSquared
  <1>2. UsedTiles = Only(grid, used)
    BY Zenon DEF UsedTiles
  <1>3. used \subseteq (0 .. Axis - 1) \X (0 .. Axis - 1)
    BY DEF TilesOf, Cover
  <1>4. \A x, y \in 0 .. Axis - 1 : \E i \in 1 .. N : P(i) = <<x, y>>
    BY AxisSquared
  <1> HIDE DEF P, used, N
  <1>5. grid = [i \in 1 .. N |-> P(i)]
    BY Zenon DEF N
  <1> HIDE DEF grid
  <1>6. IsList(grid) /\ Len(grid) = N /\ DOMAIN grid = 1 .. N
    <2>1. grid = [i \in 1 .. N |-> grid[i]]
      BY <1>5
    <2> QED BY <1>1, <2>1, ListMade
  <1>7. ToSet(grid) = {P(i) : i \in 1 .. N}
    BY <1>5, <1>6 DEF ToSet
  <1>8. used \subseteq ToSet(grid)
    BY <1>3, <1>4, <1>7
  <1>9. IsList(UsedTiles) /\ ToSet(UsedTiles) = ToSet(grid) \cap used
    BY <1>2, <1>6, OnlyThose, Zenon
  <1>10. ToSet(UsedTiles) = used
    BY <1>8, <1>9
  <1> QED BY <1>9, <1>10, ListFacts DEF used

LEMMA PackLists ==
    ASSUME Gathered
    PROVE  /\ IsList(pack.refs) /\ IsList(pack.features) /\ IsList(pack.placeWays)
           /\ IsList(places.list) /\ IsList(places.members) /\ IsList(places.strings)
           /\ \A f \in ToSet(pack.features) : f.n \in Nat /\ f.n >= 2
           /\ \A w \in ToSet(pack.placeWays) : w.n \in Nat
           /\ \A p \in ToSet(places.list) :
                 /\ p.first \in Nat /\ p.n \in Nat /\ p.first + p.n <= Len(places.members)
                 /\ p.nameAt \in Nat /\ p.nameAt + 1 <= Len(places.strings) /\ p.rank \in Nat
  <1>1. pack \in Lists /\ places \in Kept
    BY DEF Gathered, MapTypes, PlacesAreRead
  <1>2. /\ pack.refs \in Seq(Ids) /\ pack.features \in Seq(Features) /\ pack.placeWays \in Seq(PlaceWays)
        /\ AllFit(pack.placeWays, pack.refs)
    BY <1>1, ListParts
  <1>3. /\ places.list \in Seq(PlaceRecords) /\ places.members \in Seq(MemberIds) /\ places.strings \in Seq(PlaceNames)
        /\ \A i \in 1 .. Len(places.list) : Holding(places.list[i], places.members, places.strings)
    BY <1>1 DEF Kept
  <1>4. /\ IsList(pack.refs) /\ IsList(pack.features) /\ IsList(pack.placeWays)
        /\ IsList(places.list) /\ IsList(places.members) /\ IsList(places.strings)
    BY <1>2, <1>3, ListOf, Zenon
  <1>5. \A f \in ToSet(pack.features) : f.n \in Nat /\ f.n >= 2
    BY FeaturesOfTheSource
  <1>6. \A w \in ToSet(pack.placeWays) : w.n \in Nat
    BY <1>2, PlaceWaysMove, RecordTypes, Zenon
  <1>7. \A p \in ToSet(places.list) :
           /\ p.first \in Nat /\ p.n \in Nat /\ p.first + p.n <= Len(places.members)
           /\ p.nameAt \in Nat /\ p.nameAt + 1 <= Len(places.strings) /\ p.rank \in Nat
    <2> SUFFICES ASSUME NEW p \in ToSet(places.list)
                 PROVE  /\ p.first \in Nat /\ p.n \in Nat /\ p.first + p.n <= Len(places.members)
                        /\ p.nameAt \in Nat /\ p.nameAt + 1 <= Len(places.strings) /\ p.rank \in Nat
      OBVIOUS
    <2>1. PICK i \in 1 .. Len(places.list) : p = places.list[i]
      BY <1>4, ListFacts
    <2>2. p \in PlaceRecords /\ Holding(p, places.members, places.strings)
      BY <1>3, <2>1
    <2> QED BY <2>2 DEF PlaceRecords, Holding
  <1> QED BY <1>4, <1>5, <1>6, <1>7

LEMMA DrawnRuns ==
    ASSUME NEW s, IsList(s), \A f \in ToSet(s) : f.n \in Nat, NEW runs, runs = [i \in DOMAIN s |-> runs[i]],
           \A i \in DOMAIN s : \E style, flag : runs[i] = FeatureUnits(s[i], style, flag)
    PROVE  Runs(runs) /\ Len(runs) = Len(s)
  <1> DEFINE n == Len(s)
  <1>1. IsList(runs) /\ Len(runs) = n /\ DOMAIN s = 1 .. n
    BY ListOver, Zenon
  <1>2. \A i \in 1 .. n : IsList(runs[i])
    <2> SUFFICES ASSUME NEW i \in 1 .. n PROVE IsList(runs[i])
      OBVIOUS
    <2>1. s[i] \in ToSet(s)
      <3>1. ToSet(s) = {s[j] : j \in 1 .. Len(s)}
        BY ListFacts, Zenon
      <3> QED BY <3>1
    <2>2. s[i].n \in Nat
      BY <2>1
    <2>3. PICK style, flag : runs[i] = FeatureUnits(s[i], style, flag)
      BY <1>1
    <2>4. IsFeature(FeatureUnits(s[i], style, flag), s[i], style, flag)
      BY <2>2, FeatureUnitsList, Zenon
    <2> QED BY <2>3, <2>4, Zenon DEF IsFeature
  <1> QED BY <1>1, <1>2, Zenon DEF Runs

\* What a tile holds and the units of its payload.
HeldRuns(tile) ==
    LET held == Holds(tile) IN [i \in DOMAIN held |-> FeatureUnits(held[i], held[i].style, held[i].flag)]

LEMMA HeldBy ==
    ASSUME Gathered, NEW tile
    PROVE  /\ IsList(Holds(tile)) /\ ToSet(Holds(tile)) = {f \in ToSet(pack.features) : tile \in TilesOf(f)}
           /\ \A i \in 1 .. Len(Holds(tile)) : Holds(tile)[i].n \in Nat /\ Holds(tile)[i].n >= 2
           /\ Runs(HeldRuns(tile)) /\ Len(HeldRuns(tile)) = Len(Holds(tile))
           /\ \A i \in 1 .. Len(Holds(tile)) :
                 HeldRuns(tile)[i] = FeatureUnits(Holds(tile)[i], Holds(tile)[i].style, Holds(tile)[i].flag)
           /\ TileUnits(tile) = Counted(HeldRuns(tile)) /\ IsList(TileUnits(tile))
  <1> DEFINE held == Holds(tile)
             that == {f \in ToSet(pack.features) : tile \in TilesOf(f)}
             runs == HeldRuns(tile)
             D == DOMAIN held
  <1>1. held = Only(pack.features, that) /\ that \subseteq ToSet(pack.features)
    BY Zenon DEF Holds
  <1> HIDE DEF that
  <1>2. IsList(held) /\ ToSet(held) = that
    <2>1. IsList(Only(pack.features, that)) /\ ToSet(Only(pack.features, that)) = ToSet(pack.features) \cap that
      BY PackLists, OnlyThose, Zenon
    <2> HIDE DEF held
    <2> QED BY <1>1, <2>1
  <1>3. \A f \in ToSet(held) : f.n \in Nat /\ f.n >= 2
    BY <1>1, <1>2, PackLists, Zenon
  <1>4. \A i \in 1 .. Len(held) : held[i].n \in Nat /\ held[i].n >= 2
    <2>1. ToSet(held) = {held[i] : i \in 1 .. Len(held)}
      BY <1>2, ListFacts, Zenon
    <2> HIDE DEF held
    <2> QED BY <1>3, <2>1
  <1>6. runs = [i \in D |-> FeatureUnits(held[i], held[i].style, held[i].flag)]
    BY Zenon DEF HeldRuns
  <1>7. TileUnits(tile) = Counted(runs)
    BY Zenon DEF TileUnits, HeldRuns
  <1>8. D = 1 .. Len(held)
    BY <1>2, ListFacts, Zenon
  <1> HIDE DEF held, runs
  <1> DEFINE U(i) == FeatureUnits(held[i], held[i].style, held[i].flag)
  <1>9. \A i \in D : \E style, flag : U(i) = FeatureUnits(held[i], style, flag)
    BY Zenon
  <1> HIDE DEF U
  <1>10. runs = [i \in D |-> U(i)]
    BY <1>6, Zenon DEF U
  <1>10a. runs = [i \in D |-> runs[i]] /\ \A i \in D : runs[i] = U(i)
    BY <1>10
  <1>10b. Runs(runs) /\ Len(runs) = Len(held)
    <2>1. IsList(held) /\ \A f \in ToSet(held) : f.n \in Nat
      BY <1>2, <1>3, Zenon
    <2>2. \A i \in DOMAIN held : \E style, flag : runs[i] = FeatureUnits(held[i], style, flag)
      BY <1>9, <1>10a, Zenon
    <2> QED BY <1>10a, <2>1, <2>2, DrawnRuns, Zenon
  <1>11. \A i \in 1 .. Len(held) : runs[i] = FeatureUnits(held[i], held[i].style, held[i].flag)
    BY <1>8, <1>10a, Zenon DEF U
  <1>12. IsList(TileUnits(tile))
    BY <1>7, <1>10b, CountedList, Zenon
  <1> QED BY <1>2, <1>4, <1>7, <1>10b, <1>11, <1>12, Zenon DEF held, runs, that

\* v2_find_place_way finds a way of this id.
PlaceWayIds == {w.id : w \in ToSet(pack.placeWays)}
PlaceWay(id) == CHOOSE w \in ToSet(pack.placeWays) : w.id = id

LEMMA FileWaysOfPlace ==
    ASSUME Gathered, NEW place \in ToSet(places.list)
    PROVE  /\ IsList(FileWays(place))
           /\ ToSet(FileWays(place)) = {PlaceWay(id) : id \in ToSet(MemberWays(place)) \cap PlaceWayIds}
           /\ \A id \in PlaceWayIds : PlaceWay(id) \in ToSet(pack.placeWays) /\ PlaceWay(id).id = id
           /\ ToSet(FileWays(place)) \subseteq ToSet(pack.placeWays)
  <1> DEFINE mine == MemberWays(place)
             present == Only(mine, PlaceWayIds)
             D == DOMAIN present
             l == FileWays(place)
  <1>1. IsList(mine)
    <2> DEFINE all == places.members
               first == place.first
               n == place.n
    <2>1. all \in Seq(ToSet(all)) /\ first \in Nat /\ n \in Nat /\ first + n <= Len(all)
      BY PackLists DEF IsList
    <2>2. mine = SubSeq(all, first + 1, first + n)
      BY DEF MemberWays
    <2> DEFINE S == ToSet(all)
    <2>3. all \in Seq(S)
      BY <2>1
    <2> HIDE DEF all, first, n, mine, S
    <2>4. mine \in Seq(S)
      <3>1. Len(all) \in Nat /\ \A i \in 1 .. Len(all) : all[i] \in S
        BY <2>3
      <3>2. \A i \in first + 1 .. first + n : all[i] \in S
        BY <2>1, <3>1
      <3> QED BY <2>1, <2>2, <2>3, <3>2
    <2> QED BY <2>4, ListOf
  <1> HIDE DEF mine
  <1>2. IsList(present) /\ ToSet(present) = ToSet(mine) \cap PlaceWayIds
    BY <1>1, OnlyThose, Zenon
  <1>3. l = [i \in DOMAIN present |-> PlaceWay(present[i])]
    BY Zenon DEF FileWays, PlaceWay, PlaceWayIds, mine
  <1>4. \A id \in PlaceWayIds : PlaceWay(id) \in ToSet(pack.placeWays) /\ PlaceWay(id).id = id
    BY Zenon DEF PlaceWay, PlaceWayIds
  <1> HIDE DEF present, l
  <1>5. l = [i \in DOMAIN present |-> l[i]] /\ \A i \in DOMAIN present : l[i] = PlaceWay(present[i])
    BY <1>3
  <1>6. IsList(l) /\ Len(l) = Len(present) /\ DOMAIN l = 1 .. Len(present) /\ DOMAIN present = 1 .. Len(present)
    BY <1>2, <1>5, ListOver, Zenon
  <1>7. ToSet(l) = {PlaceWay(id) : id \in ToSet(present)}
    <2>1. ToSet(l) = {l[i] : i \in DOMAIN present} /\ ToSet(present) = {present[i] : i \in DOMAIN present}
      BY <1>6 DEF ToSet
    <2> QED BY <1>5, <2>1
  <1>8. ToSet(l) \subseteq ToSet(pack.placeWays)
    BY <1>2, <1>4, <1>7
  <1> QED BY <1>2, <1>4, <1>6, <1>7, <1>8, Zenon DEF l, mine

OutlineRuns(place) ==
    LET ways == OutlineWays(place) IN [i \in DOMAIN ways |-> FeatureUnits(ways[i], "boundary", "line")]

LEMMA OutlineOf ==
    ASSUME Gathered, NEW place \in ToSet(places.list)
    PROVE  /\ IsList(OutlineWays(place))
           /\ ToSet(OutlineWays(place)) = {w \in ToSet(FileWays(place)) : w.n >= 2 /\ Complete(w)}
           /\ \A i \in 1 .. Len(OutlineWays(place)) : OutlineWays(place)[i].n \in Nat /\ OutlineWays(place)[i].n >= 2
           /\ Runs(OutlineRuns(place)) /\ Len(OutlineRuns(place)) = Len(OutlineWays(place))
           /\ \A i \in 1 .. Len(OutlineWays(place)) :
                 OutlineRuns(place)[i] = FeatureUnits(OutlineWays(place)[i], "boundary", "line")
           /\ OutlineWays(place) # <<>> => OutlineUnits(place) = Counted(OutlineRuns(place))
           /\ OutlineWays(place) = <<>> => OutlineUnits(place) = <<>>
           /\ IsList(OutlineUnits(place))
           /\ OutlineWays(place) # <<>> => OutlineUnits(place) # <<>> /\ Len(OutlineWays(place)) # 0
  <1> DEFINE ways == OutlineWays(place)
             that == {w \in ToSet(FileWays(place)) : w.n >= 2 /\ Complete(w)}
             runs == OutlineRuns(place)
             D == DOMAIN ways
             units == OutlineUnits(place)
  <1>1. ways = Only(FileWays(place), that) /\ that \subseteq ToSet(FileWays(place))
    BY Zenon DEF OutlineWays
  <1>1a. \A w \in that : w.n >= 2
    OBVIOUS
  <1> HIDE DEF that
  <1>2. IsList(ways) /\ ToSet(ways) = that
    <2>1. IsList(Only(FileWays(place), that)) /\ ToSet(Only(FileWays(place), that)) = ToSet(FileWays(place)) \cap that
      BY FileWaysOfPlace, OnlyThose, Zenon
    <2> HIDE DEF ways
    <2> QED BY <1>1, <2>1
  <1>3. \A w \in ToSet(ways) : w.n \in Nat /\ w.n >= 2
    <2>1. \A w \in that : w \in ToSet(pack.placeWays)
      BY <1>1, FileWaysOfPlace, Zenon
    <2> QED BY <1>1a, <1>2, <2>1, PackLists, Zenon
  <1>4. \A i \in 1 .. Len(ways) : ways[i].n \in Nat /\ ways[i].n >= 2
    <2>1. ToSet(ways) = {ways[i] : i \in 1 .. Len(ways)}
      BY <1>2, ListFacts, Zenon
    <2> HIDE DEF ways
    <2> QED BY <1>3, <2>1
  <1>6. runs = [i \in D |-> FeatureUnits(ways[i], "boundary", "line")]
    BY Zenon DEF OutlineRuns
  <1>7. units = IF ways = <<>> THEN <<>> ELSE Counted(runs)
    BY Zenon DEF OutlineUnits, OutlineRuns
  <1>8. D = 1 .. Len(ways)
    BY <1>2, ListFacts, Zenon
  <1> HIDE DEF ways, runs, units
  <1> DEFINE U(i) == FeatureUnits(ways[i], "boundary", "line")
  <1>9. \A i \in D : \E style, flag : U(i) = FeatureUnits(ways[i], style, flag)
    BY Zenon
  <1> HIDE DEF U
  <1>10. runs = [i \in D |-> U(i)]
    BY <1>6, Zenon DEF U
  <1>10a. runs = [i \in D |-> runs[i]] /\ \A i \in D : runs[i] = U(i)
    BY <1>10
  <1>10b. Runs(runs) /\ Len(runs) = Len(ways)
    <2>1. IsList(ways) /\ \A f \in ToSet(ways) : f.n \in Nat
      BY <1>2, <1>3, Zenon
    <2>2. \A i \in DOMAIN ways : \E style, flag : runs[i] = FeatureUnits(ways[i], style, flag)
      BY <1>9, <1>10a, Zenon
    <2> QED BY <1>10a, <2>1, <2>2, DrawnRuns, Zenon
  <1>11. \A i \in 1 .. Len(ways) : runs[i] = FeatureUnits(ways[i], "boundary", "line")
    BY <1>8, <1>10a, Zenon DEF U
  <1>12. IsList(Counted(runs)) /\ Len(Counted(runs)) >= 1
    BY <1>10b, CountedList, Zenon
  <1>13. IsList(units)
    BY <1>7, <1>12, ShortLists, Zenon
  <1>14. ways # <<>> => units # <<>> /\ Len(ways) # 0
    <2>1. ASSUME Len(ways) = 0 PROVE ways = <<>>
      BY <1>2, <2>1, ShortLists, SameList
    <2> QED BY <1>7, <1>12, <2>1, ShortLists
  <1> QED BY <1>2, <1>4, <1>7, <1>10b, <1>11, <1>13, <1>14, Zenon DEF ways, runs, that, units

Layout == <<LastHeader>> \o (Directories \o Contents)

LEMMA UsedLists ==
    ASSUME Gathered
    PROVE  /\ IsList(ValidPlaces) /\ DOMAIN ValidPlaces = 1 .. Len(ValidPlaces) /\ Len(ValidPlaces) \in Nat
           /\ ToSet(ValidPlaces) = {p \in ToSet(places.list) : ValidPlace(p)}
           /\ \A i \in 1 .. Len(ValidPlaces) : ValidPlaces[i] \in ToSet(places.list) /\ ValidPlace(ValidPlaces[i])
           /\ IsList(NameUnits) /\ Len(NameUnits) = Len(places.strings)
           /\ \A i \in 1 .. Len(places.strings) : NameUnits[i] = [kind |-> "name", name |-> places.strings[i]]
  <1> DEFINE v == ValidPlaces
             that == {p \in ToSet(places.list) : ValidPlace(p)}
             N(i) == [kind |-> "name", name |-> places.strings[i]]
             s == places.strings
             u == NameUnits
  <1>1. v = Only(places.list, that)
    BY Zenon DEF ValidPlaces
  <1>2. IsList(Only(places.list, that)) /\ ToSet(Only(places.list, that)) = ToSet(places.list) \cap that
    BY PackLists, OnlyThose, Zenon
  <1>3. IsList(v) /\ ToSet(v) = that
    <2> HIDE DEF v
    <2>1. that \subseteq ToSet(places.list)
      OBVIOUS
    <2> HIDE DEF that
    <2> QED BY <1>1, <1>2, <2>1
  <1>4. DOMAIN v = 1 .. Len(v) /\ Len(v) \in Nat /\ ToSet(v) = {v[i] : i \in 1 .. Len(v)}
    BY <1>3, ListFacts, Zenon
  <1>5. \A i \in 1 .. Len(v) : v[i] \in ToSet(places.list) /\ ValidPlace(v[i])
    <2> HIDE DEF v
    <2> QED BY <1>3, <1>4
  <1>6. u = [i \in DOMAIN s |-> N(i)]
    BY Zenon DEF NameUnits
  <1>7. IsList(s)
    BY PackLists
  <1> HIDE DEF v, N, s, u
  <1>8. u = [i \in DOMAIN s |-> u[i]] /\ \A i \in DOMAIN s : u[i] = N(i)
    BY <1>6
  <1>9. IsList(u) /\ Len(u) = Len(s) /\ DOMAIN s = 1 .. Len(s)
    BY <1>7, <1>8, ListOver, Zenon
  <1>10. \A i \in 1 .. Len(s) : u[i] = N(i)
    BY <1>8, <1>9
  <1> QED BY <1>3, <1>4, <1>5, <1>9, <1>10, Zenon DEF v, u, s, N

\* The lists of runs, one for each tile or place.
LEMMA RunsOfPack ==
    ASSUME Gathered
    PROVE  /\ Runs(Payloads) /\ Len(Payloads) = Len(UsedTiles)
           /\ \A i \in 1 .. Len(UsedTiles) : Payloads[i] = TileUnits(UsedTiles[i])
           /\ Runs(Outlines) /\ Len(Outlines) = Len(ValidPlaces)
           /\ \A i \in 1 .. Len(ValidPlaces) : Outlines[i] = OutlineUnits(ValidPlaces[i])
           /\ Runs(PlaceEntries) /\ Len(PlaceEntries) = Len(ValidPlaces)
           /\ Len(FlattenSeq(PlaceEntries)) = 2 * Len(ValidPlaces)
           /\ \A i \in 1 .. Len(ValidPlaces) : /\ PlaceEntries[i] = <<PlaceUnit(i), OutlineUnit(i)>>
                                               /\ Offset(PlaceEntries, i) = 2 * (i - 1)
           /\ Runs(TileEntries) /\ Len(TileEntries) = Len(UsedTiles)
           /\ Len(FlattenSeq(TileEntries)) = 2 * Len(UsedTiles)
           /\ \A i \in 1 .. Len(UsedTiles) : /\ TileEntries[i] = <<TileUnit(i), PayloadUnit(i)>>
                                             /\ Offset(TileEntries, i) = 2 * (i - 1)
  <1>1. IsList(UsedTiles) /\ DOMAIN UsedTiles = 1 .. Len(UsedTiles) /\ Len(UsedTiles) \in Nat
    BY TilesUsed
  <1>2. IsList(ValidPlaces) /\ DOMAIN ValidPlaces = 1 .. Len(ValidPlaces) /\ Len(ValidPlaces) \in Nat
    BY UsedLists
  <1>3. /\ Runs(Payloads) /\ Len(Payloads) = Len(UsedTiles)
        /\ \A i \in 1 .. Len(UsedTiles) : Payloads[i] = TileUnits(UsedTiles[i])
    <2> DEFINE U(i) == TileUnits(UsedTiles[i])
    <2>1. \A i : IsList(U(i))
      BY HeldBy, Zenon
    <2>2. Payloads = [i \in DOMAIN UsedTiles |-> U(i)]
      BY Zenon DEF Payloads
    <2> HIDE DEF U
    <2>3. Payloads = [i \in DOMAIN UsedTiles |-> Payloads[i]] /\ \A i \in DOMAIN UsedTiles : Payloads[i] = U(i)
      BY <2>2
    <2>4. IsList(Payloads) /\ Len(Payloads) = Len(UsedTiles)
      BY <1>1, <2>3, ListOver, Zenon
    <2>5. Runs(Payloads)
      BY <1>1, <2>1, <2>3, <2>4, Zenon DEF Runs
    <2> QED BY <1>1, <2>3, <2>4, <2>5, Zenon DEF U
  <1>4. /\ Runs(Outlines) /\ Len(Outlines) = Len(ValidPlaces)
        /\ \A i \in 1 .. Len(ValidPlaces) : Outlines[i] = OutlineUnits(ValidPlaces[i])
    <2> DEFINE U(i) == OutlineUnits(ValidPlaces[i])
    <2>1. \A i \in 1 .. Len(ValidPlaces) : IsList(U(i))
      BY UsedLists, OutlineOf, Zenon
    <2>2. Outlines = [i \in DOMAIN ValidPlaces |-> U(i)]
      BY Zenon DEF Outlines
    <2> HIDE DEF U
    <2>3. Outlines = [i \in DOMAIN ValidPlaces |-> Outlines[i]] /\ \A i \in DOMAIN ValidPlaces : Outlines[i] = U(i)
      BY <2>2
    <2>4. IsList(Outlines) /\ Len(Outlines) = Len(ValidPlaces)
      BY <1>2, <2>3, ListOver, Zenon
    <2>5. Runs(Outlines)
      BY <1>2, <2>1, <2>3, <2>4, Zenon DEF Runs
    <2> QED BY <1>2, <2>3, <2>4, <2>5, Zenon DEF U
  <1>5. /\ Runs(PlaceEntries) /\ Len(PlaceEntries) = Len(ValidPlaces)
        /\ Len(FlattenSeq(PlaceEntries)) = 2 * Len(ValidPlaces)
        /\ \A i \in 1 .. Len(ValidPlaces) : /\ PlaceEntries[i] = <<PlaceUnit(i), OutlineUnit(i)>>
                                            /\ Offset(PlaceEntries, i) = 2 * (i - 1)
    <2> DEFINE U(i) == <<PlaceUnit(i), OutlineUnit(i)>>
    <2>1. \A i : \E x, y : U(i) = <<x, y>>
      BY Zenon
    <2>2. PlaceEntries = [i \in DOMAIN ValidPlaces |-> U(i)]
      BY Zenon DEF PlaceEntries
    <2> HIDE DEF U
    <2>3. /\ PlaceEntries = [i \in DOMAIN ValidPlaces |-> PlaceEntries[i]]
          /\ \A i \in DOMAIN ValidPlaces : PlaceEntries[i] = U(i)
      BY <2>2
    <2>4. IsList(PlaceEntries) /\ Len(PlaceEntries) = Len(ValidPlaces)
      BY <1>2, <2>3, ListOver, Zenon
    <2>5. \A i \in 1 .. Len(PlaceEntries) : \E x, y : PlaceEntries[i] = <<x, y>>
      BY <1>2, <2>1, <2>3, <2>4, Zenon
    <2>6. /\ Runs(PlaceEntries) /\ Len(FlattenSeq(PlaceEntries)) = 2 * Len(PlaceEntries)
          /\ \A i \in 1 .. Len(PlaceEntries) : Offset(PlaceEntries, i) = 2 * (i - 1)
      BY <2>4, <2>5, Pairs, Zenon
    <2> QED BY <1>2, <2>3, <2>4, <2>6, Zenon DEF U
  <1>6. /\ Runs(TileEntries) /\ Len(TileEntries) = Len(UsedTiles)
        /\ Len(FlattenSeq(TileEntries)) = 2 * Len(UsedTiles)
        /\ \A i \in 1 .. Len(UsedTiles) : /\ TileEntries[i] = <<TileUnit(i), PayloadUnit(i)>>
                                          /\ Offset(TileEntries, i) = 2 * (i - 1)
    <2> DEFINE U(i) == <<TileUnit(i), PayloadUnit(i)>>
    <2>1. \A i : \E x, y : U(i) = <<x, y>>
      BY Zenon
    <2>2. TileEntries = [i \in DOMAIN UsedTiles |-> U(i)]
      BY Zenon DEF TileEntries
    <2> HIDE DEF U
    <2>3. /\ TileEntries = [i \in DOMAIN UsedTiles |-> TileEntries[i]]
          /\ \A i \in DOMAIN UsedTiles : TileEntries[i] = U(i)
      BY <2>2
    <2>4. IsList(TileEntries) /\ Len(TileEntries) = Len(UsedTiles)
      BY <1>1, <2>3, ListOver, Zenon
    <2>5. \A i \in 1 .. Len(TileEntries) : \E x, y : TileEntries[i] = <<x, y>>
      BY <1>1, <2>1, <2>3, <2>4, Zenon
    <2>6. /\ Runs(TileEntries) /\ Len(FlattenSeq(TileEntries)) = 2 * Len(TileEntries)
          /\ \A i \in 1 .. Len(TileEntries) : Offset(TileEntries, i) = 2 * (i - 1)
      BY <2>4, <2>5, Pairs, Zenon
    <2> QED BY <1>1, <2>3, <2>4, <2>6, Zenon DEF U
  <1> QED BY <1>3, <1>4, <1>5, <1>6, Zenon

\* Where the parts of the file are.
LEMMA Offsets ==
    ASSUME Gathered
    PROVE  /\ IsList(FlattenSeq(PlaceEntries)) /\ IsList(FlattenSeq(TileEntries)) /\ IsList(Directories)
           /\ IsList(FlattenSeq(Payloads)) /\ IsList(FlattenSeq(Outlines)) /\ IsList(NameUnits) /\ IsList(Contents)
           /\ IsList(FlattenSeq(Payloads) \o FlattenSeq(Outlines))
           /\ TileAt \in Nat /\ PayloadAt \in Nat /\ OutlineAt \in Nat /\ StringAt \in Nat
           /\ TileAt = 1 + Len(FlattenSeq(PlaceEntries)) /\ PayloadAt = 1 + Len(Directories)
           /\ OutlineAt = PayloadAt + Len(FlattenSeq(Payloads))
           /\ StringAt = PayloadAt + Len(FlattenSeq(Payloads) \o FlattenSeq(Outlines))
           /\ OutlineAt >= 1
  <1> DEFINE a == FlattenSeq(Payloads)
             b == FlattenSeq(Outlines)
             c == NameUnits
             d == FlattenSeq(PlaceEntries)
             e == FlattenSeq(TileEntries)
  <1>1. IsList(a) /\ IsList(b) /\ IsList(c) /\ IsList(d) /\ IsList(e)
    BY RunsOfPack, UsedLists, Flattening, Zenon
  <1>2. Len(d) = 2 * Len(ValidPlaces) /\ Len(e) = 2 * Len(UsedTiles)
    BY RunsOfPack, Zenon
  <1>3. Directories = d \o e /\ Contents = (a \o b) \o c
    BY Zenon DEF Directories, Contents
  <1>4. /\ TileAt = 1 + 2 * Len(ValidPlaces) /\ PayloadAt = TileAt + 2 * Len(UsedTiles)
        /\ OutlineAt = PayloadAt + Len(a) /\ StringAt = OutlineAt + Len(b)
    BY DEF TileAt, PayloadAt, OutlineAt, StringAt
  <1> HIDE DEF a, b, c, d, e
  <1>5. Len(a) \in Nat /\ Len(b) \in Nat /\ Len(d) \in Nat /\ Len(e) \in Nat
    BY <1>1, ListFacts
  <1>6. IsList(a \o b) /\ Len(a \o b) = Len(a) + Len(b) /\ IsList(d \o e) /\ Len(d \o e) = Len(d) + Len(e)
    BY <1>1, JoinedLength
  <1>7. IsList((a \o b) \o c)
    BY <1>1, <1>6, JoinedLength
  <1>8. Len(ValidPlaces) \in Nat /\ Len(UsedTiles) \in Nat
    BY UsedLists, TilesUsed
  <1>9. /\ TileAt \in Nat /\ PayloadAt \in Nat /\ OutlineAt \in Nat /\ StringAt \in Nat /\ OutlineAt >= 1
        /\ TileAt = 1 + Len(d) /\ PayloadAt = 1 + Len(d \o e) /\ StringAt = PayloadAt + Len(a \o b)
    BY <1>2, <1>4, <1>5, <1>6, <1>8
  <1> QED BY <1>1, <1>3, <1>4, <1>6, <1>7, <1>9, Zenon DEF a, b, c, d, e

LEMMA WritesLaid ==
    ASSUME Gathered
    PROVE  Filed(Writes, Layout, PayloadAt, Len(Contents), FirstHeader)
  <1> DEFINE a == FlattenSeq(Payloads)
             b == FlattenSeq(Outlines)
             c == NameUnits
             d == FlattenSeq(PlaceEntries)
             e == FlattenSeq(TileEntries)
             ab == a \o b
             head == From(0, <<FirstHeader>>)
             final == From(0, <<LastHeader>>)
  <1>1. /\ IsList(a) /\ IsList(b) /\ IsList(c) /\ IsList(d) /\ IsList(e) /\ IsList(ab)
        /\ PayloadAt \in Nat /\ OutlineAt = PayloadAt + Len(a) /\ StringAt = PayloadAt + Len(ab)
        /\ TileAt = 1 + Len(d) /\ PayloadAt = 1 + Len(Directories)
        /\ IsList(Directories) /\ IsList(Contents)
    BY Offsets, Zenon
  <1>2. Writes = InOrder(head, (From(PayloadAt, a) \o From(OutlineAt, b)) \o From(StringAt, c),
                         From(1, d) \o From(TileAt, e), final)
    BY WritesParts, Zenon DEF AllWrites, head, final, a, b, c, d, e
  <1>3. Directories = d \o e /\ Contents = ab \o c
    BY Zenon DEF Directories, Contents
  <1>ab. ab = a \o b
    OBVIOUS
  <1> HIDE DEF a, b, c, d, e, ab, head, final
  <1>4. From(PayloadAt, a) \o From(OutlineAt, b) = From(PayloadAt, ab)
    BY <1>1, <1>ab, FromJoined, Zenon
  <1>5. From(PayloadAt, ab) \o From(StringAt, c) = From(PayloadAt, Contents)
    <2>1. PayloadAt \in Nat /\ IsList(ab) /\ IsList(c) /\ StringAt = PayloadAt + Len(ab) /\ Contents = ab \o c
      BY <1>1, <1>3, Zenon
    <2> DEFINE p == PayloadAt
               t == StringAt
               c2 == Contents
    <2> HIDE DEF p, t, c2
    <2>2. p \in Nat /\ IsList(ab) /\ IsList(c) /\ t = p + Len(ab) /\ c2 = ab \o c
      BY <2>1 DEF p, t, c2
    <2>3. From(p, ab) \o From(t, c) = From(p, c2)
      BY ONLY <2>2, FromJoined, Zenon
    <2> QED BY <2>3, Zenon DEF p, t, c2
  <1>6. From(1, d) \o From(TileAt, e) = From(1, Directories)
    <2>2. From(1, d) \o From(1 + Len(d), e) = From(1, d \o e)
      <3> DEFINE p == 1
                 t == p + Len(d)
                 c2 == d \o e
      <3>1. p \in Nat /\ IsList(d) /\ IsList(e) /\ t = p + Len(d) /\ c2 = d \o e
        BY <1>1
      <3> HIDE DEF p, t, c2
      <3>2. From(p, d) \o From(t, e) = From(p, c2)
        BY <3>1, FromJoined, Zenon
      <3> QED BY <3>2 DEF p, t, c2
    <2> QED BY <1>1, <1>3, <2>2, Zenon
  <1>7. Writes = InOrder(head, From(1 + Len(Directories), Contents), From(1, Directories), final)
    BY <1>1, <1>2, <1>4, <1>5, <1>6, Zenon
  <1>8. Filed(InOrder(head, From(1 + Len(Directories), Contents), From(1, Directories), final),
              Layout, 1 + Len(Directories), Len(Contents), FirstHeader)
    BY <1>1, FiledInOrder, Zenon DEF Layout, head, final
  <1> QED BY <1>1, <1>7, <1>8, Zenon

\* A file that has the contents has each part of them.
LEMMA HasContents ==
    ASSUME Gathered, NEW file, Has(file, PayloadAt, Contents)
    PROVE  /\ \A i \in 1 .. Len(UsedTiles) : Has(file, PayloadAt + Offset(Payloads, i), TileUnits(UsedTiles[i]))
           /\ \A i \in 1 .. Len(ValidPlaces) :
                 Has(file, OutlineAt + Offset(Outlines, i), OutlineUnits(ValidPlaces[i]))
           /\ Has(file, StringAt, NameUnits)
  <1> DEFINE a == FlattenSeq(Payloads)
             b == FlattenSeq(Outlines)
             c == NameUnits
             ab == a \o b
  <1>1. /\ IsList(a) /\ IsList(b) /\ IsList(c) /\ IsList(ab)
        /\ PayloadAt \in Nat /\ OutlineAt \in Nat /\ OutlineAt = PayloadAt + Len(a) /\ StringAt = PayloadAt + Len(ab)
    BY Offsets, Zenon
  <1>2. Contents = ab \o c
    BY Zenon DEF Contents
  <1>3. Has(file, PayloadAt, ab) /\ Has(file, StringAt, c)
    <2> HIDE DEF ab, c
    <2> QED BY <1>1, <1>2, HasBoth
  <1>4. Has(file, PayloadAt, a) /\ Has(file, OutlineAt, b)
    <2>1. Has(file, PayloadAt, a \o b)
      BY <1>3
    <2> HIDE DEF a, b
    <2> QED BY <1>1, <2>1, HasBoth
  <1>5. \A i \in 1 .. Len(UsedTiles) : Has(file, PayloadAt + Offset(Payloads, i), TileUnits(UsedTiles[i]))
    <2>1. \A i \in 1 .. Len(Payloads) : Has(file, PayloadAt + Offset(Payloads, i), Payloads[i])
      BY <1>1, <1>4, RunsOfPack, HasRun
    <2> QED BY <2>1, RunsOfPack, Zenon
  <1>6. \A i \in 1 .. Len(ValidPlaces) : Has(file, OutlineAt + Offset(Outlines, i), OutlineUnits(ValidPlaces[i]))
    <2>1. \A i \in 1 .. Len(Outlines) : Has(file, OutlineAt + Offset(Outlines, i), Outlines[i])
      BY <1>1, <1>4, RunsOfPack, HasRun
    <2> QED BY <2>1, RunsOfPack, Zenon
  <1> QED BY <1>3, <1>5, <1>6

LEMMA HasPair ==
    ASSUME NEW file, NEW at \in Nat, NEW x, NEW y, Has(file, at, <<x, y>>)
    PROVE  /\ Readable(file, at) /\ UnitAt(file, at) = x
           /\ Readable(file, at + 1) /\ UnitAt(file, at + 1) = y
  <1> DEFINE p == <<x, y>>
  <1>1. Len(p) = 2 /\ p[1] = x /\ p[2] = y
    BY ShortLists, Zenon
  <1>2. \A k \in 1 .. Len(p) : Readable(file, at + k - 1) /\ UnitAt(file, at + k - 1) = p[k]
    BY Zenon DEF Has
  <1> HIDE DEF p
  <1>3. 1 \in 1 .. Len(p) /\ 2 \in 1 .. Len(p) /\ at + 1 - 1 = at /\ at + 2 - 1 = at + 1
    BY <1>1
  <1>4. Readable(file, at + 1 - 1) /\ UnitAt(file, at + 1 - 1) = p[1]
    BY <1>2, <1>3
  <1>5. Readable(file, at + 2 - 1) /\ UnitAt(file, at + 2 - 1) = p[2]
    BY <1>2, <1>3
  <1> QED BY <1>1, <1>3, <1>4, <1>5

\* The layout has the headers, the directories and the contents in their places.
PlaceKey(i) == 1 + 2 * (i - 1)
TileKey(i) == TileAt + 2 * (i - 1)

LEMMA LayoutParts ==
    ASSUME Gathered
    PROVE  /\ IsList(Layout) /\ Readable(Layout, 0) /\ UnitAt(Layout, 0) = LastHeader
           /\ Has(Layout, PayloadAt, Contents)
           /\ \A i \in 1 .. Len(ValidPlaces) :
                 /\ PlaceKey(i) \in 1 .. PayloadAt - 2 /\ PlaceKey(i) + 1 \in 1 .. PayloadAt - 1
                 /\ Readable(Layout, PlaceKey(i)) /\ UnitAt(Layout, PlaceKey(i)) = PlaceUnit(i)
                 /\ Readable(Layout, PlaceKey(i) + 1) /\ UnitAt(Layout, PlaceKey(i) + 1) = OutlineUnit(i)
           /\ \A i \in 1 .. Len(UsedTiles) :
                 /\ TileKey(i) \in 1 .. PayloadAt - 2 /\ TileKey(i) + 1 \in 1 .. PayloadAt - 1
                 /\ Readable(Layout, TileKey(i)) /\ UnitAt(Layout, TileKey(i)) = TileUnit(i)
                 /\ Readable(Layout, TileKey(i) + 1) /\ UnitAt(Layout, TileKey(i) + 1) = PayloadUnit(i)
  <1> DEFINE d == FlattenSeq(PlaceEntries)
             e == FlattenSeq(TileEntries)
             h == <<LastHeader>>
             M == Directories \o Contents
             v == Len(ValidPlaces)
             t == Len(UsedTiles)
  <1>1. /\ IsList(d) /\ IsList(e) /\ IsList(Directories) /\ IsList(Contents)
        /\ TileAt \in Nat /\ PayloadAt \in Nat /\ TileAt = 1 + Len(d) /\ PayloadAt = 1 + Len(Directories)
    BY Offsets, Zenon
  <1>2. IsList(h) /\ Len(h) = 1 /\ h[1] = LastHeader
    BY ShortLists, Zenon
  <1>3. Layout = h \o M /\ Directories = d \o e
    BY Zenon DEF Layout, Directories
  <1>M. M = Directories \o Contents
    OBVIOUS
  <1>4. IsList(M)
    BY <1>1, JoinedLength
  <1>vt. v \in Nat /\ t \in Nat /\ TileAt = 1 + 2 * v /\ PayloadAt = TileAt + 2 * t
    BY UsedLists, TilesUsed DEF TileAt, PayloadAt
  <1> HIDE DEF d, e, h, M, v, t
  <1>5. IsList(Layout)
    BY <1>2, <1>3, <1>4, JoinedLength
  <1>6. Has(Layout, 0, h \o M)
    BY <1>3, <1>5, HasItself
  <1>7. Has(Layout, 0, h) /\ Has(Layout, 1, M)
    <2>1. 0 \in Nat /\ 0 + 1 = 1
      OBVIOUS
    <2>2. Has(Layout, 0, h) /\ Has(Layout, 0 + Len(h), M)
      BY <1>2, <1>4, <1>6, <2>1, HasBoth, Zenon
    <2>3. 0 + Len(h) = 1
      BY <1>2
    <2> QED BY <2>2, <2>3, Zenon
  <1>8. Has(Layout, 1, Directories) /\ Has(Layout, PayloadAt, Contents)
    <2>1. 1 \in Nat
      OBVIOUS
    <2>2. Has(Layout, 1, Directories \o Contents)
      BY <1>M, <1>7, Zenon
    <2>3. Has(Layout, 1, Directories) /\ Has(Layout, 1 + Len(Directories), Contents)
      BY <1>1, <2>1, <2>2, HasBoth, Zenon
    <2> QED BY <1>1, <2>3, Zenon
  <1>9. Has(Layout, 1, d) /\ Has(Layout, TileAt, e)
    <2>1. 1 \in Nat
      OBVIOUS
    <2>2. Has(Layout, 1, d \o e)
      BY <1>3, <1>8, Zenon
    <2>3. Has(Layout, 1, d) /\ Has(Layout, 1 + Len(d), e)
      BY <1>1, <2>1, <2>2, HasBoth, Zenon
    <2> QED BY <1>1, <2>3, Zenon
  <1>10. Readable(Layout, 0) /\ UnitAt(Layout, 0) = LastHeader
    <2>1. \A k \in 1 .. Len(h) : Readable(Layout, 0 + k - 1) /\ UnitAt(Layout, 0 + k - 1) = h[k]
      BY <1>7, Zenon DEF Has
    <2>2. 1 \in 1 .. Len(h) /\ 0 + 1 - 1 = 0
      BY <1>2
    <2>3. Readable(Layout, 0 + 1 - 1) /\ UnitAt(Layout, 0 + 1 - 1) = h[1]
      BY <2>1, <2>2
    <2> QED BY <1>2, <2>2, <2>3
  <1>11. ASSUME NEW i \in 1 .. v
         PROVE  /\ PlaceKey(i) \in 1 .. PayloadAt - 2 /\ PlaceKey(i) + 1 \in 1 .. PayloadAt - 1
                /\ Readable(Layout, PlaceKey(i)) /\ UnitAt(Layout, PlaceKey(i)) = PlaceUnit(i)
                /\ Readable(Layout, PlaceKey(i) + 1) /\ UnitAt(Layout, PlaceKey(i) + 1) = OutlineUnit(i)
    <2>1. /\ Runs(PlaceEntries) /\ i \in 1 .. Len(PlaceEntries) /\ Offset(PlaceEntries, i) = 2 * (i - 1)
          /\ PlaceEntries[i] = <<PlaceUnit(i), OutlineUnit(i)>>
      BY RunsOfPack DEF v
    <2>2. Has(Layout, 1 + Offset(PlaceEntries, i), PlaceEntries[i])
      BY <1>9, <2>1, HasRun DEF d
    <2>3. PlaceKey(i) = 1 + Offset(PlaceEntries, i)
          /\ PlaceKey(i) \in 1 .. PayloadAt - 2 /\ PlaceKey(i) + 1 \in 1 .. PayloadAt - 1
      BY <1>vt, <2>1 DEF PlaceKey
    <2>4. PlaceKey(i) \in Nat /\ Has(Layout, PlaceKey(i), <<PlaceUnit(i), OutlineUnit(i)>>)
      BY <1>vt, <2>1, <2>2, <2>3
    <2> QED BY <2>3, <2>4, HasPair, Zenon
  <1>12. ASSUME NEW i \in 1 .. t
         PROVE  /\ TileKey(i) \in 1 .. PayloadAt - 2 /\ TileKey(i) + 1 \in 1 .. PayloadAt - 1
                /\ Readable(Layout, TileKey(i)) /\ UnitAt(Layout, TileKey(i)) = TileUnit(i)
                /\ Readable(Layout, TileKey(i) + 1) /\ UnitAt(Layout, TileKey(i) + 1) = PayloadUnit(i)
    <2>1. /\ Runs(TileEntries) /\ i \in 1 .. Len(TileEntries) /\ Offset(TileEntries, i) = 2 * (i - 1)
          /\ TileEntries[i] = <<TileUnit(i), PayloadUnit(i)>>
      BY RunsOfPack DEF t
    <2>2. Has(Layout, TileAt + Offset(TileEntries, i), TileEntries[i])
      BY <1>1, <1>9, <2>1, HasRun DEF e
    <2>3. TileKey(i) = TileAt + Offset(TileEntries, i)
          /\ TileKey(i) \in 1 .. PayloadAt - 2 /\ TileKey(i) + 1 \in 1 .. PayloadAt - 1
      BY <1>vt, <2>1 DEF TileKey
    <2>4. TileKey(i) \in Nat /\ Has(Layout, TileKey(i), <<TileUnit(i), PayloadUnit(i)>>)
      BY <1>vt, <2>1, <2>2, <2>3
    <2> QED BY <2>3, <2>4, HasPair, Zenon
  <1> QED BY <1>5, <1>8, <1>10, <1>11, <1>12, Zenon DEF v, t

-----------------------------------------------------------------------------
(***************************************************************************)
(* The file while it is written.                                           *)
(***************************************************************************)
LEMMA UnitPut ==
    ASSUME NEW file, IsList(file), NEW at \in Nat, NEW unit
    PROVE  /\ IsList(Put(file, at, unit))
           /\ Len(Put(file, at, unit)) = IF Len(file) >= at + 1 THEN Len(file) ELSE at + 1
           /\ Readable(Put(file, at, unit), at) /\ UnitAt(Put(file, at, unit), at) = unit
           /\ \A a \in Nat : a # at =>
                 /\ Readable(Put(file, at, unit), a) <=> Readable(file, a) \/ a < at
                 /\ Readable(Put(file, at, unit), a) =>
                       UnitAt(Put(file, at, unit), a) = IF Readable(file, a) THEN UnitAt(file, a) ELSE Hole
  <1> DEFINE l == Len(file)
             n == MostOf({l, at + 1})
             P(i) == IF i = at + 1 THEN unit ELSE IF i <= l THEN file[i] ELSE Hole
             f == Put(file, at, unit)
  <1>1. l \in Nat
    BY ListFacts
  <1>2. n = IF l >= at + 1 THEN l ELSE at + 1
    <2> DEFINE T == {l, at + 1}
    <2>1. l \in Nat /\ at + 1 \in Nat
      BY <1>1
    <2>2. \E x \in T : \A y \in T : x >= y
      BY <2>1
    <2>3. n \in T /\ \A y \in T : n >= y
      <3> HIDE DEF T
      <3> QED BY <2>2 DEF MostOf, T
    <2> HIDE DEF n
    <2> QED BY <2>1, <2>3
  <1>3. f = [i \in 1 .. n |-> P(i)]
    BY Zenon DEF Put
  <1>3a. \A i : P(i) = IF i = at + 1 THEN unit ELSE IF i <= l THEN file[i] ELSE Hole
    OBVIOUS
  <1> HIDE DEF f, P, n, l
  <1>4. n \in Nat /\ f = [i \in 1 .. n |-> f[i]]
    BY <1>1, <1>2, <1>3
  <1>5. IsList(f) /\ Len(f) = n
    BY <1>4, ListMade
  <1>6. \A i \in 1 .. n : f[i] = IF i = at + 1 THEN unit ELSE IF i <= l THEN file[i] ELSE Hole
    BY <1>3, <1>3a
  <1>7. Readable(f, at) /\ UnitAt(f, at) = unit
    <2>1. at + 1 \in 1 .. n
      BY <1>1, <1>2
    <2> QED BY <1>5, <1>6, <2>1 DEF Readable, UnitAt
  <1>8. ASSUME NEW a \in Nat, a # at
        PROVE  /\ Readable(f, a) <=> Readable(file, a) \/ a < at
               /\ Readable(f, a) => UnitAt(f, a) = IF Readable(file, a) THEN UnitAt(file, a) ELSE Hole
    <2>1. Readable(f, a) <=> a + 1 \in 1 .. n
      BY <1>5 DEF Readable
    <2>2. Readable(file, a) <=> a + 1 \in 1 .. l
      BY DEF Readable, l
    <2>3. a + 1 \in 1 .. n <=> a + 1 \in 1 .. l \/ a < at
      BY <1>1, <1>2, <1>8
    <2>4. ASSUME a + 1 \in 1 .. n PROVE f[a + 1] = IF a + 1 \in 1 .. l THEN file[a + 1] ELSE Hole
      BY <1>1, <1>6, <1>8, <2>4
    <2> QED BY <2>1, <2>2, <2>3, <2>4 DEF UnitAt
  <1> QED BY <1>2, <1>5, <1>7, <1>8, Zenon DEF f, l

\* The file after k writes.
Shown(file, k, L, pa, n, first) ==
    /\ IsList(file) /\ Len(file) <= Len(L)
    /\ k = 0 => Len(file) = 0
    /\ k >= 1 => Readable(file, 0) /\ UnitAt(file, 0) = IF k = n + pa + 1 THEN L[1] ELSE first
    /\ \A at \in 1 .. pa - 1 : n + 1 + at <= k => Readable(file, at) /\ UnitAt(file, at) = L[at + 1]
    /\ \A at \in 1 .. pa - 1 : n + 1 + at > k => (Readable(file, at) => UnitAt(file, at) = Hole)
    /\ \A at \in pa .. pa + n - 1 : at - pa + 2 <= k => Readable(file, at) /\ UnitAt(file, at) = L[at + 1]
    /\ \A at \in pa .. pa + n - 1 : at - pa + 2 > k => ~Readable(file, at)

LEMMA OneMoreWrite ==
    ASSUME NEW W, NEW L, NEW pa, NEW n, NEW first, Filed(W, L, pa, n, first),
           NEW k \in 0 .. n + pa, NEW file, Shown(file, k, L, pa, n, first)
    PROVE  Shown(Put(file, W[k + 1].at, W[k + 1].unit), k + 1, L, pa, n, first)
  <1> DEFINE at == W[k + 1].at
             unit == W[k + 1].unit
             new == Put(file, at, unit)
  <1>1. pa \in Nat /\ pa >= 1 /\ n \in Nat /\ Len(L) = pa + n
    BY DEF Filed
  <1>2. /\ k = 0 => at = 0 /\ unit = first
        /\ k \in 1 .. n => at = pa + k - 1 /\ unit = L[at + 1]
        /\ k \in n + 1 .. n + pa - 1 => at = k - n /\ unit = L[at + 1]
        /\ k = n + pa => at = 0 /\ unit = L[1]
    <2>1. W[1].at = 0 /\ W[1].unit = first
      BY DEF Filed
    <2>2. ASSUME k \in 1 .. n PROVE at = pa + k - 1 /\ unit = L[at + 1]
      <3>1. k + 1 \in 2 .. n + 1 /\ k + 1 \in 2 .. n + pa + 1 /\ pa + (k + 1) - 2 = pa + k - 1
        BY <1>1, <2>2
      <3> QED BY <3>1 DEF Filed
    <2>3. ASSUME k \in n + 1 .. n + pa - 1 PROVE at = k - n /\ unit = L[at + 1]
      <3>1. k + 1 \in n + 2 .. n + pa /\ k + 1 \in 2 .. n + pa + 1 /\ (k + 1) - n - 1 = k - n
        BY <1>1, <2>3
      <3> QED BY <3>1 DEF Filed
    <2>4. ASSUME k = n + pa PROVE at = 0 /\ unit = L[1]
      <3>1. k + 1 = n + pa + 1 /\ k + 1 \in 2 .. n + pa + 1
        BY <1>1, <2>4
      <3>2. at = 0 /\ unit = L[at + 1]
        BY <3>1 DEF Filed
      <3>3. 0 + 1 = 1
        OBVIOUS
      <3> QED BY <3>2, <3>3
    <2>5. ASSUME k = 0 PROVE at = 0 /\ unit = first
      <3>1. k + 1 = 1
        BY <2>5
      <3> QED BY <2>1, <3>1
    <2> QED BY <2>2, <2>3, <2>4, <2>5
  <1> HIDE DEF at, unit
  <1>3. k = 0 \/ k \in 1 .. n \/ k \in n + 1 .. n + pa - 1 \/ k = n + pa
    BY <1>1
  <1>4. at \in Nat /\ at + 1 <= pa + n
    BY <1>1, <1>2, <1>3
  <1>5. IsList(file) /\ Len(file) \in Nat /\ Len(file) <= Len(L)
    BY ListFacts DEF Shown
  <1>6. /\ IsList(new) /\ Len(new) = IF Len(file) >= at + 1 THEN Len(file) ELSE at + 1
        /\ Readable(new, at) /\ UnitAt(new, at) = unit
        /\ \A a \in Nat : a # at =>
              /\ Readable(new, a) <=> Readable(file, a) \/ a < at
              /\ Readable(new, a) => UnitAt(new, a) = IF Readable(file, a) THEN UnitAt(file, a) ELSE Hole
    BY <1>4, <1>5, UnitPut, Zenon
  <1> HIDE DEF new
  <1>7. Len(new) <= Len(L)
    BY <1>1, <1>4, <1>5, <1>6
  <1>8. Readable(new, 0) /\ UnitAt(new, 0) = IF k + 1 = n + pa + 1 THEN L[1] ELSE first
    <2>1. CASE at = 0
      <3>1. k = 0 \/ k = n + pa
        BY <1>1, <1>2, <1>3, <2>1
      <3>2. 0 # n + pa
        BY <1>1
      <3> QED BY <1>1, <1>2, <1>6, <2>1, <3>1, <3>2
    <2>2. CASE at # 0
      <3>1. k >= 1 /\ k # n + pa
        BY <1>2, <2>2
      <3>2. Readable(file, 0) /\ UnitAt(file, 0) = first
        BY <1>1, <3>1 DEF Shown
      <3> QED BY <1>1, <1>6, <2>2, <3>1, <3>2
    <2> QED BY <2>1, <2>2
  <1>9. ASSUME NEW a \in 1 .. pa - 1, n + 1 + a <= k + 1
        PROVE  Readable(new, a) /\ UnitAt(new, a) = L[a + 1]
    <2>0. a \in Nat /\ a # 0
      BY <1>1
    <2>1. CASE a = at
      <3>1. k \in n + 1 .. n + pa - 1 \/ k \in 1 .. n
        BY <1>2, <1>3, <2>0, <2>1
      <3> QED BY <1>2, <1>6, <2>1, <3>1
    <2>2. CASE a # at
      <3>1. n + 1 + a <= k
        BY <1>1, <1>2, <1>3, <1>9, <2>2
      <3>2. Readable(file, a) /\ UnitAt(file, a) = L[a + 1]
        BY <3>1 DEF Shown
      <3> QED BY <1>6, <2>0, <2>2, <3>2
    <2> QED BY <2>1, <2>2
  <1>10. ASSUME NEW a \in 1 .. pa - 1, n + 1 + a > k + 1, Readable(new, a)
         PROVE  UnitAt(new, a) = Hole
    <2>1. a \in Nat /\ a # at /\ n + 1 + a > k
      BY <1>1, <1>2, <1>3, <1>10
    <2>2. Readable(file, a) => UnitAt(file, a) = Hole
      BY <2>1 DEF Shown
    <2> QED BY <1>6, <1>10, <2>1, <2>2
  <1>11. ASSUME NEW a \in pa .. pa + n - 1, a - pa + 2 <= k + 1
         PROVE  Readable(new, a) /\ UnitAt(new, a) = L[a + 1]
    <2>0. a \in Nat /\ a # 0
      BY <1>1
    <2>1. CASE a = at
      <3>1. k \in n + 1 .. n + pa - 1 \/ k \in 1 .. n
        BY <1>2, <1>3, <2>0, <2>1
      <3> QED BY <1>2, <1>6, <2>1, <3>1
    <2>2. CASE a # at
      <3>1. a - pa + 2 <= k
        BY <1>1, <1>2, <1>3, <1>11, <2>2
      <3>2. Readable(file, a) /\ UnitAt(file, a) = L[a + 1]
        BY <3>1 DEF Shown
      <3> QED BY <1>6, <2>0, <2>2, <3>2
    <2> QED BY <2>1, <2>2
  <1>12. ASSUME NEW a \in pa .. pa + n - 1, a - pa + 2 > k + 1
         PROVE  ~Readable(new, a)
    <2>1. a \in Nat /\ a # at /\ a - pa + 2 > k /\ ~(a < at)
      BY <1>1, <1>2, <1>3, <1>12
    <2>2. ~Readable(file, a)
      BY <2>1 DEF Shown
    <2> QED BY <1>6, <2>1, <2>2
  <1>13. k + 1 # 0
    OBVIOUS
  <1>14. Shown(new, k + 1, L, pa, n, first)
    BY <1>6, <1>7, <1>8, <1>9, <1>10, <1>11, <1>12, <1>13 DEF Shown
  <1> QED BY <1>14 DEF new, at, unit

\* What the pack is written from.
Given == source' = source /\ places' = places /\ pack' = pack /\ nodes' = nodes

LEMMA SameRecords ==
    ASSUME Given
    PROVE  /\ \A f : RefsOf(f)' = RefsOf(f) /\ Complete(f)' = Complete(f) /\ PointsOf(f)' = PointsOf(f)
           /\ \A f : TilesOf(f)' = TilesOf(f)
           /\ \A id : Located(id)' = Located(id) /\ PlaceWay(id)' = PlaceWay(id)
           /\ PlaceWayIds' = PlaceWayIds
           /\ \A p : MemberWays(p)' = MemberWays(p)
  <1>1. /\ \A f : RefsOf(f)' = RefsOf(f) /\ Complete(f)' = Complete(f) /\ PointsOf(f)' = PointsOf(f)
        /\ \A f : TilesOf(f)' = TilesOf(f)
    BY Zenon DEF Given, TilesOf, Complete, PointsOf, RefsOf, Located
  <1>2. \A id : Located(id)' = Located(id) /\ PlaceWay(id)' = PlaceWay(id)
    BY Zenon DEF Given, Located, PlaceWay
  <1>3. PlaceWayIds' = PlaceWayIds /\ \A p : MemberWays(p)' = MemberWays(p)
    BY Zenon DEF Given, PlaceWayIds, MemberWays
  <1> QED BY <1>1, <1>2, <1>3

LEMMA SameFileWays ==
    ASSUME Given, NEW p
    PROVE  /\ FileWays(p)' = FileWays(p) /\ OutlineWays(p)' = OutlineWays(p)
           /\ PlacePoints(p)' = PlacePoints(p) /\ ValidPlace(p)' = ValidPlace(p)
  <1> DEFINE present == Only(MemberWays(p), PlaceWayIds)
  <1>1. present' = present
    BY SameRecords, Zenon
  <1>2. FileWays(p) = [i \in DOMAIN present |-> PlaceWay(present[i])]
    BY Zenon DEF FileWays, PlaceWay, PlaceWayIds
  <1>3. \A i : PlaceWay(present[i])' = PlaceWay(present[i])
    BY <1>1, SameRecords, Zenon
  <1> DEFINE U(i) == PlaceWay(present[i])
             D == DOMAIN present
             all == [i \in D |-> U(i)]
  <1>4. FileWays(p)' = FileWays(p)
    <2>1. D' = D
      BY <1>1
    <2>2. \A i : U(i)' = U(i)
      BY <1>3
    <2> HIDE DEF U, D
    <2>3. all' = all
      BY <2>1, <2>2
    <2>4. all = FileWays(p)
      BY <1>2, Zenon DEF U, D
    <2>5. all' = FileWays(p)'
      BY Zenon DEF FileWays, PlaceWay, PlaceWayIds, U, D
    <2> QED BY <2>3, <2>4, <2>5
  <1>5. OutlineWays(p)' = OutlineWays(p)
    <2> DEFINE that == {w \in ToSet(FileWays(p)) : w.n >= 2 /\ Complete(w)}
    <2>1. \A w : Complete(w)' = Complete(w)
      BY SameRecords, Zenon
    <2>2. that' = that
      BY <1>4, <2>1
    <2> QED BY <1>4, <2>2, Zenon DEF OutlineWays
  <1>6. PlacePoints(p)' = PlacePoints(p)
    <2> DEFINE ids == UNION {ToSet(RefsOf(w)) : w \in ToSet(FileWays(p))}
               those == {r \in ids : Located(r)}
    <2>1. \A w : RefsOf(w)' = RefsOf(w)
      BY SameRecords, Zenon
    <2>2. ids' = ids
      BY <1>4, <2>1
    <2>3. \A r : Located(r)' = Located(r)
      BY SameRecords, Zenon
    <2> HIDE DEF ids
    <2>4. those' = those
      BY <2>2, <2>3
    <2>5. PlacePoints(p) = {nodes[id] : id \in those} /\ PlacePoints(p)' = {nodes'[id] : id \in those'}
      BY Zenon DEF PlacePoints, ids
    <2>6. nodes' = nodes
      BY DEF Given
    <2> HIDE DEF those
    <2> QED BY <2>4, <2>5, <2>6
  <1>7. ValidPlace(p)' = ValidPlace(p)
    BY <1>6, Zenon DEF ValidPlace
  <1> QED BY <1>4, <1>5, <1>6, <1>7

LEMMA SameUnits ==
    ASSUME Given
    PROVE  /\ \A f, style, flag : FeatureUnits(f, style, flag)' = FeatureUnits(f, style, flag)
           /\ \A tile : Holds(tile)' = Holds(tile) /\ TileUnits(tile)' = TileUnits(tile)
           /\ \A p : OutlineUnits(p)' = OutlineUnits(p)
           /\ UsedTiles' = UsedTiles /\ ValidPlaces' = ValidPlaces
  <1>1. ASSUME NEW f, NEW style, NEW flag
        PROVE  FeatureUnits(f, style, flag)' = FeatureUnits(f, style, flag)
    <2>1. PointsOf(f)' = PointsOf(f)
      BY SameRecords, Zenon
    <2> QED BY <2>1, Zenon DEF FeatureUnits
  <1>2. ASSUME NEW tile PROVE Holds(tile)' = Holds(tile)
    <2> DEFINE that == {f \in ToSet(pack.features) : tile \in TilesOf(f)}
    <2>1. pack' = pack /\ \A f : TilesOf(f)' = TilesOf(f)
      BY SameRecords, Zenon DEF Given
    <2>2. that' = that
      BY <2>1
    <2> QED BY <2>1, <2>2, Zenon DEF Holds
  <1>3. ASSUME NEW tile PROVE TileUnits(tile)' = TileUnits(tile)
    <2> DEFINE held == Holds(tile)
               D == DOMAIN held
               U(i) == FeatureUnits(held[i], held[i].style, held[i].flag)
               all == [i \in D |-> U(i)]
    <2>1. held' = held
      BY <1>2
    <2>2. \A i : U(i)' = U(i)
      BY <1>1, <2>1, Zenon
    <2>3. D' = D
      BY <2>1
    <2>4. TileUnits(tile) = Counted(all) /\ TileUnits(tile)' = Counted(all)'
      BY Zenon DEF TileUnits
    <2> HIDE DEF U, D
    <2>5. all' = all
      BY <2>2, <2>3
    <2> QED BY <2>4, <2>5, Zenon
  <1>4. ASSUME NEW p PROVE OutlineUnits(p)' = OutlineUnits(p)
    <2> DEFINE ways == OutlineWays(p)
               D == DOMAIN ways
               U(i) == FeatureUnits(ways[i], "boundary", "line")
               all == [i \in D |-> U(i)]
               units == IF ways = <<>> THEN <<>> ELSE Counted(all)
    <2>1. ways' = ways
      BY SameFileWays
    <2>2. \A i : U(i)' = U(i)
      BY <1>1, <2>1, Zenon
    <2>3. D' = D
      BY <2>1
    <2>4. OutlineUnits(p) = units /\ OutlineUnits(p)' = units'
      BY Zenon DEF OutlineUnits
    <2> HIDE DEF U, D
    <2>5. all' = all
      BY <2>2, <2>3
    <2>6. units' = units
      BY <2>1, <2>5, Zenon
    <2> HIDE DEF units
    <2> QED BY <2>4, <2>6
  <1>5. UsedTiles' = UsedTiles
    <2> DEFINE used == UNION {TilesOf(f) : f \in ToSet(pack.features)}
    <2>1. pack' = pack /\ \A f : TilesOf(f)' = TilesOf(f)
      BY SameRecords, Zenon DEF Given
    <2>2. used' = used
      BY <2>1
    <2> QED BY <2>2, Zenon DEF UsedTiles
  <1>6. ValidPlaces' = ValidPlaces
    <2> DEFINE that == {p \in ToSet(places.list) : ValidPlace(p)}
    <2>1. places' = places /\ \A p : ValidPlace(p)' = ValidPlace(p)
      BY SameFileWays, Zenon DEF Given
    <2>2. that' = that
      BY <2>1
    <2> QED BY <2>1, <2>2, Zenon DEF ValidPlaces
  <1> QED BY <1>1, <1>2, <1>3, <1>4, <1>5, <1>6

LEMMA SameLayout ==
    ASSUME Given
    PROVE  /\ Writes' = Writes /\ Layout' = Layout /\ PayloadAt' = PayloadAt
           /\ Contents' = Contents /\ FirstHeader' = FirstHeader
  <1>1. /\ \A tile : Holds(tile)' = Holds(tile) /\ TileUnits(tile)' = TileUnits(tile)
        /\ \A p : OutlineUnits(p)' = OutlineUnits(p) /\ OutlineWays(p)' = OutlineWays(p)
        /\ \A p : PlacePoints(p)' = PlacePoints(p)
        /\ UsedTiles' = UsedTiles /\ ValidPlaces' = ValidPlaces
        /\ source' = source /\ places' = places
    BY SameUnits, SameFileWays DEF Given
  <1> DEFINE v == DOMAIN ValidPlaces
             t == DOMAIN UsedTiles
  <1>2. v' = v /\ t' = t /\ \A i : ValidPlaces[i]' = ValidPlaces[i] /\ UsedTiles[i]' = UsedTiles[i]
    BY <1>1
  <1>3. Payloads' = Payloads
    <2> DEFINE U(i) == TileUnits(UsedTiles[i])
    <2>1. \A i : U(i)' = U(i)
      BY <1>1, <1>2, Zenon
    <2>2. Payloads = [i \in t |-> U(i)] /\ Payloads' = [i \in t |-> U(i)]'
      BY Zenon DEF Payloads
    <2> HIDE DEF U, t
    <2> QED BY <1>2, <2>1, <2>2
  <1>4. Outlines' = Outlines
    <2> DEFINE U(i) == OutlineUnits(ValidPlaces[i])
    <2>1. \A i : U(i)' = U(i)
      BY <1>1, <1>2, Zenon
    <2>2. Outlines = [i \in v |-> U(i)] /\ Outlines' = [i \in v |-> U(i)]'
      BY Zenon DEF Outlines
    <2> HIDE DEF U, v
    <2> QED BY <1>2, <2>1, <2>2
  <1>5. NameUnits' = NameUnits
    BY <1>1, Zenon DEF NameUnits
  <1>6. TileAt' = TileAt /\ PayloadAt' = PayloadAt
    BY <1>1, Zenon DEF TileAt, PayloadAt
  <1>7. OutlineAt' = OutlineAt /\ StringAt' = StringAt
    BY <1>3, <1>4, <1>6, Zenon DEF OutlineAt, StringAt
  <1>8. FirstHeader' = FirstHeader /\ LastHeader' = LastHeader
    <2>1. FirstHeader' = FirstHeader
      BY <1>1, <1>6, Zenon DEF FirstHeader
    <2> QED BY <2>1, Zenon DEF LastHeader
  <1>9. \A i : PlaceUnit(i)' = PlaceUnit(i) /\ OutlineUnit(i)' = OutlineUnit(i)
    <2>1. \A i : PlacePoints(ValidPlaces[i])' = PlacePoints(ValidPlaces[i])
                 /\ OutlineWays(ValidPlaces[i])' = OutlineWays(ValidPlaces[i])
      BY <1>1, <1>2, Zenon
    <2>2. Starts(OutlineAt, Outlines)' = Starts(OutlineAt, Outlines)
      BY <1>4, <1>7, Zenon
    <2> QED BY <1>1, <1>4, <1>7, <2>1, <2>2, Zenon DEF PlaceUnit, OutlineUnit
  <1>10. \A i : TileUnit(i)' = TileUnit(i) /\ PayloadUnit(i)' = PayloadUnit(i)
    <2>1. \A i : Holds(UsedTiles[i])' = Holds(UsedTiles[i])
      BY <1>1, <1>2, Zenon
    <2>2. Starts(PayloadAt, Payloads)' = Starts(PayloadAt, Payloads)
      BY <1>3, <1>6, Zenon
    <2> QED BY <1>1, <2>1, <2>2, Zenon DEF TileUnit, PayloadUnit
  <1>11. PlaceEntries' = PlaceEntries
    <2> DEFINE U(i) == <<PlaceUnit(i), OutlineUnit(i)>>
    <2>1. \A i : U(i)' = U(i)
      BY <1>9, Zenon
    <2>2. PlaceEntries = [i \in v |-> U(i)] /\ PlaceEntries' = [i \in v |-> U(i)]'
      BY Zenon DEF PlaceEntries
    <2> HIDE DEF U, v
    <2> QED BY <1>2, <2>1, <2>2
  <1>12. TileEntries' = TileEntries
    <2> DEFINE U(i) == <<TileUnit(i), PayloadUnit(i)>>
    <2>1. \A i : U(i)' = U(i)
      BY <1>10, Zenon
    <2>2. TileEntries = [i \in t |-> U(i)] /\ TileEntries' = [i \in t |-> U(i)]'
      BY Zenon DEF TileEntries
    <2> HIDE DEF U, t
    <2> QED BY <1>2, <2>1, <2>2
  <1>13. Contents' = Contents /\ Directories' = Directories
    BY <1>3, <1>4, <1>5, <1>11, <1>12, Zenon DEF Contents, Directories
  <1>14. Layout' = Layout
    BY <1>8, <1>13, Zenon DEF Layout
  <1>15. AllWrites' = AllWrites
    BY <1>3, <1>4, <1>5, <1>6, <1>7, <1>8, <1>11, <1>12, Zenon DEF AllWrites
  <1>16. Writes = AllWrites
    BY WritesParts
  <1>17. (Writes = AllWrites)'
    BY WritesParts, PTL
  <1> QED BY <1>6, <1>8, <1>13, <1>14, <1>15, <1>16, <1>17

(* Before the pack is opened nothing is written; afterwards all is read,   *)
(* and the file has what the writes done so far put there.                 *)
WrittenInv ==
    /\ MapInv
    /\ phase \in {"collect_places", "collect_ways", "collect_nodes"} => writes = <<>>
    /\ phase \in {"write_pack", "done"} => writes # <<>>
    /\ phase = "done" => written = Len(writes)
    /\ writes = <<>> => written = 0 /\ image = <<>>
    /\ writes # <<>> =>
          /\ Gathered /\ writes = Writes /\ written \in 0 .. Len(writes)
          /\ Shown(image, written, Layout, PayloadAt, Len(Contents), FirstHeader)

LEMMA GatheredKept ==
    ASSUME Gathered, UNCHANGED <<source, places, wayBlocks, nodeBlocks, worker, pack, nodes>>
    PROVE  Gathered'
  <1>1. MapTypes' /\ (nodeBlocks = {})'
    BY DEF Gathered, MapTypes
  <1>2. PlacesAreRead'
    BY DEF Gathered, PlacesAreRead, Said, MemberSet
  <1>3. FeaturesOf(FileWaySet)' = FeaturesOf(FileWaySet) /\ PlaceWaysOf(FileWaySet)' = PlaceWaysOf(FileWaySet)
    BY DEF FeaturesOf, PlaceWaysOf, FeatureOf, PlaceWayOf, Needed, FileWaySet
  <1>4. FeatureLook(pack)' = FeatureLook(pack) /\ PlaceLook(pack)' = PlaceLook(pack)
    BY DEF FeatureLook, PlaceLook
  <1>5. PackHasAllWays'
    BY <1>3, <1>4 DEF Gathered, PackHasAllWays
  <1>6. TableHasItsNodes'
    BY DEF Gathered, TableHasItsNodes, NodeBlocksRead
  <1> QED BY <1>1, <1>2, <1>5, <1>6 DEF Gathered

LEMMA WritesSize ==
    ASSUME Gathered
    PROVE  /\ Writes # <<>> /\ Len(Writes) = Len(Contents) + PayloadAt + 1
           /\ Len(Contents) \in Nat /\ PayloadAt \in Nat /\ PayloadAt >= 1
  <1>1. /\ Len(Writes) = PayloadAt + Len(Contents) + 1 /\ Len(Contents) \in Nat
        /\ PayloadAt \in Nat /\ PayloadAt >= 1
    BY WritesLaid DEF Filed
  <1>2. Len(<<>>) = 0
    OBVIOUS
  <1> QED BY <1>1, <1>2

LEMMA WrittenOpen == WrittenInv /\ OpenPack => WrittenInv'
  <1> SUFFICES ASSUME WrittenInv, OpenPack PROVE WrittenInv'
    OBVIOUS
  <1>1. /\ phase = "collect_nodes" /\ phase' = "write_pack" /\ nodeBlocks = {} /\ writes' = Writes
        /\ UNCHANGED <<source, places, wayBlocks, nodeBlocks, worker, pack, nodes, written, image>>
    BY DEF OpenPack
  <1>2. MapInv'
    BY PackWritten DEF WrittenInv
  <1>3. Gathered
    BY <1>1 DEF WrittenInv, MapInv, Gathered
  <1>4. Gathered'
    BY <1>1, <1>3, GatheredKept
  <1>5. Writes' = Writes
    BY <1>1, SameLayout DEF Given
  <1>6. Writes # <<>> /\ Len(Writes) \in Nat
    BY <1>3, WritesSize
  <1>7. written' = 0 /\ image' = <<>>
    BY <1>1 DEF WrittenInv
  <1>8. IsList(<<>>) /\ Len(<<>>) = 0 /\ \A at \in Nat : ~Readable(<<>>, at)
    BY ShortLists DEF Readable
  <1>9. Shown(<<>>, 0, Layout, PayloadAt, Len(Contents), FirstHeader)
    <2> DEFINE pa == PayloadAt
               n == Len(Contents)
    <2>1. pa \in Nat /\ pa >= 1 /\ n \in Nat /\ Len(Layout) = pa + n
      BY <1>3, WritesLaid DEF Filed
    <2> HIDE DEF pa, n
    <2>2. \A at \in 1 .. pa - 1 : at \in Nat /\ ~(n + 1 + at <= 0)
      BY <2>1
    <2>3. \A at \in pa .. pa + n - 1 : at \in Nat /\ ~(at - pa + 2 <= 0)
      BY <2>1
    <2>4. Len(<<>>) <= Len(Layout)
      BY <1>8, <2>1
    <2>5. Shown(<<>>, 0, Layout, pa, n, FirstHeader)
      BY <1>8, <2>2, <2>3, <2>4 DEF Shown
    <2> QED BY <2>5 DEF pa, n
  <1>10. Shown(image, written, Layout, PayloadAt, Len(Contents), FirstHeader)'
    <2>1. /\ Layout' = Layout /\ PayloadAt' = PayloadAt /\ Contents' = Contents /\ FirstHeader' = FirstHeader
      BY <1>1, SameLayout DEF Given
    <2>2. Shown(image', written', Layout', PayloadAt', Len(Contents'), FirstHeader')
      BY <1>7, <1>9, <2>1, Zenon
    <2> QED BY <2>2
  <1>11. phase' = "write_pack" /\ writes' # <<>> /\ writes' = Writes' /\ 0 \in 0 .. Len(writes')
    BY <1>1, <1>5, <1>6
  <1> QED BY <1>2, <1>4, <1>7, <1>10, <1>11 DEF WrittenInv

LEMMA WrittenUnit == WrittenInv /\ WriteUnit => WrittenInv'
  <1> SUFFICES ASSUME WrittenInv, WriteUnit PROVE WrittenInv'
    OBVIOUS
  <1>1. /\ phase = "write_pack" /\ written < Len(writes) /\ written' = written + 1
        /\ image' = Put(image, writes[written + 1].at, writes[written + 1].unit)
        /\ UNCHANGED <<source, phase, places, wayBlocks, nodeBlocks, worker, pack, nodes, writes>>
    BY DEF WriteUnit
  <1>2. MapInv'
    BY PackWritten DEF WrittenInv
  <1>3. /\ Gathered /\ writes # <<>> /\ writes = Writes /\ written \in 0 .. Len(writes)
        /\ Shown(image, written, Layout, PayloadAt, Len(Contents), FirstHeader)
    BY <1>1 DEF WrittenInv
  <1>4. Gathered'
    BY <1>1, <1>3, GatheredKept
  <1>5. /\ Writes' = Writes /\ Layout' = Layout /\ PayloadAt' = PayloadAt
        /\ Contents' = Contents /\ FirstHeader' = FirstHeader
    BY <1>1, SameLayout DEF Given
  <1>6. /\ Len(Writes) = Len(Contents) + PayloadAt + 1 /\ Len(Contents) \in Nat /\ PayloadAt \in Nat
        /\ Filed(Writes, Layout, PayloadAt, Len(Contents), FirstHeader)
    BY <1>3, WritesSize, WritesLaid
  <1>7. written \in 0 .. Len(Contents) + PayloadAt /\ written + 1 \in 0 .. Len(writes)
    BY <1>1, <1>3, <1>6
  <1>8. Shown(Put(image, writes[written + 1].at, writes[written + 1].unit), written + 1,
              Layout, PayloadAt, Len(Contents), FirstHeader)
    <2> DEFINE k == written
               n == Len(Contents)
               W == writes
    <2>1. /\ k \in 0 .. n + PayloadAt /\ Filed(W, Layout, PayloadAt, n, FirstHeader)
          /\ Shown(image, k, Layout, PayloadAt, n, FirstHeader)
      BY <1>3, <1>6, <1>7
    <2> HIDE DEF k, n, W
    <2>2. Shown(Put(image, W[k + 1].at, W[k + 1].unit), k + 1, Layout, PayloadAt, n, FirstHeader)
      BY <2>1, OneMoreWrite, Zenon
    <2> QED BY <2>2 DEF k, n, W
  <1>9. Shown(image, written, Layout, PayloadAt, Len(Contents), FirstHeader)'
    <2>1. Shown(image', written', Layout', PayloadAt', Len(Contents'), FirstHeader')
      BY <1>1, <1>5, <1>8, Zenon
    <2> QED BY <2>1
  <1>10. phase' = "write_pack" /\ writes' # <<>> /\ writes' = Writes' /\ written' \in 0 .. Len(writes')
    BY <1>1, <1>3, <1>5, <1>7
  <1> QED BY <1>2, <1>4, <1>9, <1>10 DEF WrittenInv

\* Steps that leave the file alone.
LEMMA FileKept ==
    ASSUME WrittenInv, MapInv', writes # <<>>,
           UNCHANGED <<source, places, wayBlocks, nodeBlocks, worker, pack, nodes, writes, written, image>>,
           phase' \notin {"collect_places", "collect_ways", "collect_nodes"}, phase' = "done" => written = Len(writes)
    PROVE  WrittenInv'
  <1>1. /\ Gathered /\ writes = Writes /\ written \in 0 .. Len(writes)
        /\ Shown(image, written, Layout, PayloadAt, Len(Contents), FirstHeader)
    BY DEF WrittenInv
  <1>2. Gathered'
    BY <1>1, GatheredKept
  <1>3. /\ Writes' = Writes /\ Layout' = Layout /\ PayloadAt' = PayloadAt
        /\ Contents' = Contents /\ FirstHeader' = FirstHeader
    BY SameLayout DEF Given
  <1>4. Shown(image, written, Layout, PayloadAt, Len(Contents), FirstHeader)'
    <2>1. Shown(image', written', Layout', PayloadAt', Len(Contents'), FirstHeader')
      BY <1>1, <1>3, Zenon
    <2> QED BY <2>1
  <1> QED BY <1>1, <1>2, <1>3, <1>4 DEF WrittenInv

LEMMA WrittenElse ==
    ASSUME WrittenInv, MapInv',
           \/ CollectPlaces \/ (\E w \in 1 .. Workers : ReadWays(w)) \/ MergeWays \/ ReadNodes
           \/ ClosePack \/ Stop \/ UNCHANGED vars
    PROVE  WrittenInv'
  <1>1. CASE CollectPlaces \/ (\E w \in 1 .. Workers : ReadWays(w)) \/ MergeWays \/ ReadNodes
    <2>1. /\ phase \in {"collect_places", "collect_ways", "collect_nodes"}
          /\ phase' \in {"collect_places", "collect_ways", "collect_nodes"}
          /\ UNCHANGED <<writes, written, image>>
      BY <1>1 DEF CollectPlaces, ReadWays, MergeWays, ReadNodes
    <2> QED BY <2>1 DEF WrittenInv
  <1>2. CASE ClosePack
    <2>1. /\ phase = "write_pack" /\ written = Len(writes) /\ phase' = "done"
          /\ UNCHANGED <<source, places, wayBlocks, nodeBlocks, worker, pack, nodes, writes, written, image>>
      BY <1>2 DEF ClosePack
    <2>2. writes # <<>>
      BY <2>1 DEF WrittenInv
    <2> QED BY <2>1, <2>2, FileKept
  <1>3. CASE Stop \/ UNCHANGED vars
    <2>1. UNCHANGED <<source, places, wayBlocks, nodeBlocks, worker, pack, nodes, writes, written, image>>
      BY <1>3 DEF Stop, vars
    <2>2. phase' = "stopped" \/ phase' = phase
      BY <1>3 DEF Stop, vars
    <2>3. CASE writes = <<>>
      BY <2>1, <2>2, <2>3 DEF WrittenInv
    <2>4. CASE writes # <<>>
      <3>1. phase \notin {"collect_places", "collect_ways", "collect_nodes"} /\ (phase = "done" => written = Len(writes))
        BY <2>4 DEF WrittenInv
      <3> QED BY <2>1, <2>2, <2>4, <3>1, FileKept
    <2> QED BY <2>3, <2>4
  <1> QED BY <1>1, <1>2, <1>3

LEMMA WrittenInvInit == Init => WrittenInv
  <1> SUFFICES ASSUME Init PROVE WrittenInv
    OBVIOUS
  <1>1. MapInv
    BY MapInvInit
  <1> QED BY <1>1 DEF Init, WrittenInv

(* At every moment, also when the program stops early, the pack file has   *)
(* what the writes done so far put there, and no more.                     *)
THEOREM FileInvariant == Spec => []WrittenInv
  <1>1. WrittenInv /\ [Next]_vars => WrittenInv'
    <2> SUFFICES ASSUME WrittenInv, [Next]_vars PROVE WrittenInv'
      OBVIOUS
    <2>1. MapInv'
      <3>1. MapInv
        BY DEF WrittenInv
      <3> QED BY <3>1, PlacesCollected, BlockTaken, WaysMerged, NodesTaken, PackWritten, MapStopped, MapStuttered
              DEF Next
    <2> QED BY <2>1, WrittenOpen, WrittenUnit, WrittenElse DEF Next
  <1> QED BY WrittenInvInit, <1>1, PTL DEF Spec

-----------------------------------------------------------------------------
(***************************************************************************)
(* What the renderer reads of the file.                                    *)
(***************************************************************************)
\* The entries of a directory up to one that is there are those of the layout,
\* and then the contents are there too.
Faithful(file) ==
    /\ Readable(file, 0) /\ UnitAt(file, 0) \in {FirstHeader, LastHeader}
    /\ \A at \in 1 .. PayloadAt - 1 : Readable(file, at) =>
          \/ UnitAt(file, at) = Hole
          \/ /\ Has(file, PayloadAt, Contents)
             /\ \A b \in 1 .. at : Readable(file, b) /\ UnitAt(file, b) = UnitAt(Layout, b)

Finished(file) ==
    /\ Readable(file, 0) /\ UnitAt(file, 0) = LastHeader
    /\ \A at \in 1 .. PayloadAt - 1 : Readable(file, at) /\ UnitAt(file, at) = UnitAt(Layout, at)
    /\ Has(file, PayloadAt, Contents)

\* All contents are there once more is written than they are.
LEMMA ContentsShown ==
    ASSUME Gathered, NEW file, NEW k \in Nat,
           Shown(file, k, Layout, PayloadAt, Len(Contents), FirstHeader), k >= Len(Contents) + 1
    PROVE  Has(file, PayloadAt, Contents)
  <1> DEFINE pa == PayloadAt
             n == Len(Contents)
             c == Contents
  <1>1. pa \in Nat /\ n \in Nat
    BY WritesSize
  <1>2. \A j \in 1 .. n : Readable(Layout, pa + j - 1) /\ UnitAt(Layout, pa + j - 1) = c[j]
    BY LayoutParts DEF Has
  <1>3. \A at \in pa .. pa + n - 1 : at - pa + 2 <= k => Readable(file, at) /\ UnitAt(file, at) = Layout[at + 1]
    BY DEF Shown
  <1>c. Len(c) = n
    OBVIOUS
  <1> HIDE DEF pa, n, c
  <1>4. ASSUME NEW j \in 1 .. n
        PROVE  Readable(file, pa + j - 1) /\ UnitAt(file, pa + j - 1) = c[j]
    <2>1. pa + j - 1 \in pa .. pa + n - 1 /\ (pa + j - 1) - pa + 2 <= k
      BY <1>1 DEF n
    <2>2. Readable(file, pa + j - 1) /\ UnitAt(file, pa + j - 1) = Layout[(pa + j - 1) + 1]
      BY <1>3, <2>1, Zenon
    <2> QED BY <1>2, <2>2 DEF UnitAt
  <1> QED BY <1>4, <1>c DEF Has, pa, c

LEMMA FileIsFaithful ==
    ASSUME WrittenInv, HasHeader(image)
    PROVE  Gathered /\ Faithful(image)
  <1> DEFINE pa == PayloadAt
             n == Len(Contents)
  <1>1. image # <<>>
    <2>1. Readable(image, 0)
      BY DEF HasHeader, KindAt
    <2>2. ~Readable(<<>>, 0)
      BY DEF Readable
    <2> QED BY <2>1, <2>2
  <1>2. /\ Gathered /\ Shown(image, written, Layout, pa, n, FirstHeader)
        /\ writes = Writes /\ written \in 0 .. Len(writes)
    BY <1>1 DEF WrittenInv
  <1>3. pa \in Nat /\ pa >= 1 /\ n \in Nat /\ written \in Nat
    BY <1>2, WritesSize
  <1>4. written # 0
    <2>1. IsList(image)
      BY <1>2 DEF Shown
    <2>2. ASSUME written = 0 PROVE FALSE
      <3>1. Len(image) = 0
        BY <1>2, <2>2 DEF Shown
      <3> QED BY <1>1, <2>1, <3>1, ShortLists, SameList
    <2> QED BY <2>2
  <1>5. Readable(image, 0) /\ UnitAt(image, 0) \in {FirstHeader, LastHeader}
    <2>1. Readable(image, 0) /\ (UnitAt(image, 0) = Layout[1] \/ UnitAt(image, 0) = FirstHeader)
      BY <1>2, <1>3, <1>4 DEF Shown
    <2>2. Layout[1] = LastHeader
      <3>1. UnitAt(Layout, 0) = LastHeader
        BY <1>2, LayoutParts
      <3> QED BY <3>1 DEF UnitAt
    <2> QED BY <2>1, <2>2
  <1>6. ASSUME NEW at \in 1 .. pa - 1, Readable(image, at), UnitAt(image, at) # Hole
        PROVE  /\ Has(image, pa, Contents)
               /\ \A b \in 1 .. at : Readable(image, b) /\ UnitAt(image, b) = UnitAt(Layout, b)
    <2>1. \A a \in 1 .. pa - 1 : n + 1 + a > written => (Readable(image, a) => UnitAt(image, a) = Hole)
      BY <1>2, Zenon DEF Shown
    <2>2. n + 1 + at <= written
      <3> HIDE DEF n, pa
      <3> QED BY <1>3, <1>6, <2>1
    <2>3. Has(image, pa, Contents)
      <3>1. written >= Len(Contents) + 1
        BY <1>3, <2>2
      <3> QED BY <1>2, <1>3, <3>1, ContentsShown
    <2>4. \A a \in 1 .. pa - 1 : n + 1 + a <= written => Readable(image, a) /\ UnitAt(image, a) = Layout[a + 1]
      BY <1>2, Zenon DEF Shown
    <2> HIDE DEF n, pa
    <2>5. \A b \in 1 .. at : b \in 1 .. pa - 1 /\ n + 1 + b <= written
      BY <1>3, <2>2
    <2> QED BY <2>3, <2>4, <2>5 DEF UnitAt
  <1> QED BY <1>2, <1>5, <1>6, Zenon DEF Faithful

LEMMA FileIsFinished ==
    ASSUME WrittenInv, phase = "done"
    PROVE  Gathered /\ Finished(image) /\ Faithful(image) /\ HasHeader(image)
  <1> DEFINE pa == PayloadAt
             n == Len(Contents)
  <1>1. /\ Gathered /\ Shown(image, written, Layout, pa, n, FirstHeader)
        /\ writes = Writes /\ written = Len(writes)
    BY DEF WrittenInv
  <1>2. pa \in Nat /\ pa >= 1 /\ n \in Nat /\ written = n + pa + 1
    BY <1>1, WritesSize
  <1>3. Readable(image, 0) /\ UnitAt(image, 0) = LastHeader
    <2>1. Readable(image, 0) /\ UnitAt(image, 0) = Layout[1]
      BY <1>1, <1>2 DEF Shown
    <2>2. Layout[1] = LastHeader
      <3>1. UnitAt(Layout, 0) = LastHeader
        BY <1>1, LayoutParts
      <3> QED BY <3>1 DEF UnitAt
    <2> QED BY <2>1, <2>2
  <1>4. Has(image, pa, Contents)
    <2>1. written \in Nat /\ written >= Len(Contents) + 1
      BY <1>2
    <2> QED BY <1>1, <2>1, ContentsShown
  <1>5. \A at \in 1 .. pa - 1 : Readable(image, at) /\ UnitAt(image, at) = UnitAt(Layout, at)
    <2>1. \A a \in 1 .. pa - 1 : n + 1 + a <= written => Readable(image, a) /\ UnitAt(image, a) = Layout[a + 1]
      BY <1>1, Zenon DEF Shown
    <2> HIDE DEF n, pa
    <2> QED BY <1>2, <2>1 DEF UnitAt
  <1>6. HasHeader(image)
    <2>1. LastHeader.kind = "header"
      BY DEF LastHeader, FirstHeader
    <2> QED BY <1>3, <2>1 DEF HasHeader, KindAt
  <1>7. Finished(image)
    BY <1>3, <1>4, <1>5, Zenon DEF Finished
  <1> QED BY <1>1, <1>6, <1>7, FileIsFaithful

\* n features are read from an offset on, and they are these.
Reads(file, at, n, features) ==
    /\ CountAt(file, at) = n /\ ~FeaturesFrom(file, at + 1, n).bad
    /\ ToSet(FeaturesFrom(file, at + 1, n).seen) = features
    /\ IsList(FeaturesFrom(file, at + 1, n).seen) /\ Len(FeaturesFrom(file, at + 1, n).seen) = n

\* The features of a list that are drawn in this style and with this flag.
AllDrawn(s, style, flag) == {DrawnAs(s[i], style[i], flag[i]) : i \in 1 .. Len(s)}

LEMMA RunsRead ==
    ASSUME NEW file, NEW at \in Nat, NEW s, IsList(s), \A i \in 1 .. Len(s) : s[i].n \in Nat /\ s[i].n >= 2,
           NEW style, NEW flag,
           NEW runs, IsList(runs), Len(runs) = Len(s),
           \A i \in 1 .. Len(s) : runs[i] = FeatureUnits(s[i], style[i], flag[i]),
           Has(file, at, Counted(runs))
    PROVE  Reads(file, at, Len(s), AllDrawn(s, style, flag))
  <1> DEFINE n == Len(runs)
             seen == FeaturesFrom(file, at + 1, n).seen
             P(i) == DrawnAs(s[i], style[i], flag[i])
  <1>1. \A i \in 1 .. n : s[i].n \in Nat /\ s[i].n >= 2 /\ runs[i] = FeatureUnits(s[i], style[i], flag[i])
    OBVIOUS
  <1>2. /\ CountAt(file, at) = n /\ ~FeaturesFrom(file, at + 1, n).bad
        /\ seen = [i \in 1 .. n |-> DrawnAs(s[i], style[i], flag[i])]
    <2>1. ReadAs(file, at, Len(runs), s, style, flag)
      BY <1>1, PayloadRead, Zenon
    <2> QED BY <2>1, Zenon DEF ReadAs
  <1>3. n \in Nat /\ n = Len(s)
    BY ListFacts
  <1>4. seen = [i \in 1 .. n |-> P(i)]
    BY <1>2
  <1> HIDE DEF n, seen, P
  <1>5. seen = [i \in 1 .. n |-> seen[i]] /\ \A i \in 1 .. n : seen[i] = P(i)
    BY <1>4
  <1>6. IsList(seen) /\ Len(seen) = n /\ DOMAIN seen = 1 .. n
    BY <1>3, <1>5, ListMade
  <1>7. ToSet(seen) = {P(i) : i \in 1 .. n}
    BY <1>5, <1>6 DEF ToSet
  <1> QED BY <1>2, <1>3, <1>6, <1>7, Zenon DEF Reads, AllDrawn, seen, P

OnTile(tile) == {Placed(f) : f \in {g \in ToSet(pack.features) : tile \in TilesOf(g)}}

LEMMA TileRead ==
    ASSUME Gathered, NEW file, Has(file, PayloadAt, Contents), NEW i \in 1 .. Len(UsedTiles)
    PROVE  /\ Reads(file, PayloadUnit(i).at, TileUnit(i).n, OnTile(UsedTiles[i]))
           /\ TileUnit(i).n \in Nat /\ PayloadUnit(i).at \in Nat
  <1> DEFINE tile == UsedTiles[i]
             s == Holds(tile)
             runs == HeldRuns(tile)
             at == PayloadAt + Offset(Payloads, i)
             style == [j \in 1 .. Len(s) |-> s[j].style]
             flag == [j \in 1 .. Len(s) |-> s[j].flag]
  <1>1. /\ IsList(s) /\ ToSet(s) = {f \in ToSet(pack.features) : tile \in TilesOf(f)}
        /\ \A j \in 1 .. Len(s) : s[j].n \in Nat /\ s[j].n >= 2
        /\ Runs(runs) /\ Len(runs) = Len(s)
        /\ \A j \in 1 .. Len(s) : runs[j] = FeatureUnits(s[j], s[j].style, s[j].flag)
        /\ TileUnits(tile) = Counted(runs)
    BY HeldBy, Zenon
  <1>2. Has(file, at, Counted(runs))
    <2>1. Has(file, PayloadAt + Offset(Payloads, i), TileUnits(UsedTiles[i]))
      BY HasContents
    <2> QED BY <1>1, <2>1
  <1>3. at \in Nat
    <2>1. Runs(Payloads) /\ Len(Payloads) = Len(UsedTiles)
      BY RunsOfPack, Zenon
    <2>2. Len(Payloads) \in Nat /\ Len(FlattenSeq(Payloads)) \in Nat
      BY <2>1, Flattening, ListFacts DEF Runs
    <2>3. i \in 1 .. Len(Payloads) + 1
      BY <2>1, <2>2
    <2>4. Offset(Payloads, i) \in 0 .. Len(FlattenSeq(Payloads))
      BY <2>1, <2>3, Flattening
    <2>5. PayloadAt \in Nat
      BY Offsets, Zenon
    <2> QED BY <2>2, <2>4, <2>5
  <1>4. TileUnit(i).n = Len(s) /\ PayloadUnit(i).at = at
    <2>1. TileUnit(i).n = Len(s)
      BY DEF TileUnit
    <2>2. PayloadUnit(i).at = Starts(PayloadAt, Payloads)[i]
      BY DEF PayloadUnit
    <2>3. i \in DOMAIN Payloads
      <3>1. IsList(Payloads) /\ i \in 1 .. Len(Payloads)
        BY RunsOfPack DEF Runs
      <3> QED BY <3>1, ListFacts
    <2>4. Starts(PayloadAt, Payloads)[i] = at
      BY <2>3 DEF Starts, Offset
    <2> QED BY <2>1, <2>2, <2>4
  <1>5. \A j \in 1 .. Len(s) : style[j] = s[j].style /\ flag[j] = s[j].flag
    OBVIOUS
  <1>6. Len(s) \in Nat /\ ToSet(s) = {s[j] : j \in 1 .. Len(s)}
    BY <1>1, ListFacts, Zenon
  <1> HIDE DEF s, runs, at, style, flag, tile
  <1>7. Reads(file, at, Len(s), AllDrawn(s, style, flag))
    <2>1. IsList(runs) /\ \A j \in 1 .. Len(s) : runs[j] = FeatureUnits(s[j], style[j], flag[j])
      BY <1>1, <1>5 DEF Runs
    <2> QED BY <1>1, <1>2, <1>3, <2>1, RunsRead
  <1>8. AllDrawn(s, style, flag) = OnTile(tile)
    <2>1. \A f : DrawnAs(f, f.style, f.flag) = Placed(f)
      BY Zenon DEF DrawnAs, Placed
    <2>2. AllDrawn(s, style, flag) = {Placed(f) : f \in ToSet(s)}
      BY <1>5, <1>6, <2>1 DEF AllDrawn
    <2> QED BY <1>1, <2>2, Zenon DEF OnTile
  <1> QED BY <1>3, <1>4, <1>6, <1>7, <1>8 DEF tile

LEMMA SeenIn ==
    ASSUME NEW scan, NEW box
    PROVE  Seen(scan, box) = {f \in ToSet(scan.seen) : Meets(f.box, box)}
  BY DEF Seen, ToSet

\* The tiles whose record is in the file.
LEMMA TileEntryRead ==
    ASSUME Gathered, NEW file, Faithful(file), NEW i \in 1 .. Len(UsedTiles)
    PROVE  /\ KindAt(file, TileKey(i), "tile") => UnitAt(file, TileKey(i)) = TileUnit(i)
           /\ KindAt(file, TileKey(i) + 1, "place of tile") =>
                 /\ UnitAt(file, TileKey(i)) = TileUnit(i) /\ KindAt(file, TileKey(i), "tile")
                 /\ UnitAt(file, TileKey(i) + 1) = PayloadUnit(i)
                 /\ Has(file, PayloadAt, Contents)
           /\ CountAt(file, 0) = -1
  <1> DEFINE key == TileKey(i)
  <1>1. /\ key \in 1 .. PayloadAt - 2 /\ key + 1 \in 1 .. PayloadAt - 1
        /\ UnitAt(Layout, key) = TileUnit(i) /\ UnitAt(Layout, key + 1) = PayloadUnit(i)
    BY LayoutParts, Zenon
  <1>2. PayloadAt \in Nat
    BY Offsets, Zenon
  <1>3. Hole.kind = "zeros" /\ TileUnit(i).kind = "tile"
    BY DEF Hole, TileUnit
  <1> HIDE DEF key
  <1>4. key \in 1 .. PayloadAt - 1 /\ key \in 1 .. key /\ key \in 1 .. key + 1 /\ key + 1 \in 1 .. key + 1
    BY <1>1, <1>2
  <1>5. KindAt(file, key, "tile") => UnitAt(file, key) = TileUnit(i)
    BY <1>1, <1>3, <1>4 DEF KindAt, Faithful
  <1>6. ASSUME KindAt(file, key + 1, "place of tile")
        PROVE  /\ UnitAt(file, key) = TileUnit(i) /\ KindAt(file, key, "tile")
               /\ UnitAt(file, key + 1) = PayloadUnit(i)
               /\ Has(file, PayloadAt, Contents)
    <2>1. /\ Has(file, PayloadAt, Contents)
          /\ \A b \in 1 .. key + 1 : Readable(file, b) /\ UnitAt(file, b) = UnitAt(Layout, b)
      BY <1>1, <1>3, <1>6 DEF KindAt, Faithful
    <2> QED BY <1>1, <1>3, <1>4, <2>1 DEF KindAt
  <1>7. CountAt(file, 0) = -1
    <2>1. FirstHeader.kind = "header" /\ LastHeader.kind = "header"
      BY DEF LastHeader, FirstHeader
    <2>2. UnitAt(file, 0).kind = "header"
      BY <2>1 DEF Faithful
    <2>3. ~KindAt(file, 0, "count") /\ ~KindAt(file, 0, "zeros")
      BY <2>2 DEF KindAt
    <2> QED BY <2>3 DEF CountAt
  <1> QED BY <1>5, <1>6, <1>7 DEF key

\* The parts of RenderBox, given where the directory of tiles is.
EntryAt(tileAt, i) == tileAt + 2 * (i - 1)
PayloadPlace(file, key) == IF KindAt(file, key + 1, "place of tile") THEN UnitAt(file, key + 1).at ELSE 0
Scan(file, key) == FeaturesFrom(file, PayloadPlace(file, key) + 1, UnitAt(file, key).n)
Listed(file, key, tiles) ==
    KindAt(file, key, "tile") /\ <<UnitAt(file, key).x, UnitAt(file, key).y>> \in tiles
Wrong(file, key) == CountAt(file, PayloadPlace(file, key)) # UnitAt(file, key).n \/ Scan(file, key).bad

RenderFrom(file, box, tileAt, n, tiles) ==
    IF \/ ~HasHeader(file)
       \/ \E i \in 1 .. n : ~Readable(file, EntryAt(tileAt, i) + 1)
       \/ \E i \in {j \in 1 .. n : Listed(file, EntryAt(tileAt, j), tiles)} : Wrong(file, EntryAt(tileAt, i))
    THEN Refused
    ELSE Found(UNION {Seen(Scan(file, EntryAt(tileAt, i)), box) :
                        i \in {j \in 1 .. n : Listed(file, EntryAt(tileAt, j), tiles)}})

LEMMA NoNumber == \A m \in Nat : m # -1
  OBVIOUS

LEMMA RenderParts ==
    ASSUME NEW file, NEW box
    PROVE  RenderBox(file, box)
           = RenderFrom(file, box, Header(file).tileAt, Header(file).tiles, Cover(box, Header(file).halo))
  BY Zenon DEF RenderBox, RenderFrom, Wrong, Listed, Scan, PayloadPlace, EntryAt

LEMMA BoxRead ==
    ASSUME Gathered, NEW file, Faithful(file), NEW box
    PROVE  /\ RenderBox(file, box).features \subseteq {f \in On(Cover(box, source.halo)) : Meets(f.box, box)}
           /\ Finished(file) =>
                 RenderBox(file, box) = Found({f \in On(Cover(box, source.halo)) : Meets(f.box, box)})
  <1> DEFINE n == Len(UsedTiles)
             cover == Cover(box, source.halo)
             all == {f \in On(cover) : Meets(f.box, box)}
             T == {j \in 1 .. n : Listed(file, TileKey(j), cover)}
             bad == \/ ~HasHeader(file)
                    \/ \E i \in 1 .. n : ~Readable(file, TileKey(i) + 1)
                    \/ \E i \in T : Wrong(file, TileKey(i))
             some == UNION {Seen(Scan(file, TileKey(i)), box) : i \in T}
  <1>1. RenderBox(file, box) = IF bad THEN Refused ELSE Found(some)
    <2>1. /\ FirstHeader.tileAt = TileAt /\ FirstHeader.tiles = n /\ FirstHeader.halo = source.halo
          /\ LastHeader.tileAt = TileAt /\ LastHeader.tiles = n /\ LastHeader.halo = source.halo
      BY DEF LastHeader, FirstHeader
    <2>2. Header(file) = FirstHeader \/ Header(file) = LastHeader
      BY DEF Faithful, Header
    <2>3. Header(file).tileAt = TileAt /\ Header(file).tiles = n /\ Header(file).halo = source.halo
      BY <2>1, <2>2, Zenon
    <2>4. RenderBox(file, box) = RenderFrom(file, box, TileAt, n, cover)
      BY <2>3, RenderParts, Zenon
    <2>5. \A i : EntryAt(TileAt, i) = TileKey(i)
      BY DEF EntryAt, TileKey
    <2> QED BY <2>4, <2>5, Zenon DEF RenderFrom
  <1>2. ASSUME NEW i \in T, ~Wrong(file, TileKey(i))
        PROVE  /\ Seen(Scan(file, TileKey(i)), box) = {f \in OnTile(UsedTiles[i]) : Meets(f.box, box)}
               /\ UsedTiles[i] \in cover
    <2>1. i \in 1 .. Len(UsedTiles) /\ Listed(file, TileKey(i), cover)
      OBVIOUS
    <2>2. UnitAt(file, TileKey(i)) = TileUnit(i)
      BY <2>1, TileEntryRead DEF Listed
    <2>3. KindAt(file, TileKey(i) + 1, "place of tile")
      <3> SUFFICES ASSUME ~KindAt(file, TileKey(i) + 1, "place of tile") PROVE FALSE
        OBVIOUS
      <3>1. PayloadPlace(file, TileKey(i)) = 0
        BY Zenon DEF PayloadPlace
      <3>2. CountAt(file, 0) = UnitAt(file, TileKey(i)).n
        BY <1>2, <3>1, Zenon DEF Wrong
      <3>3. TileUnit(i).n \in Nat
        <4>1. TileUnit(i).n = Len(Holds(UsedTiles[i]))
          BY DEF TileUnit
        <4>2. IsList(Holds(UsedTiles[i]))
          BY HeldBy, Zenon
        <4> QED BY <4>1, <4>2, ListFacts
      <3>4. CountAt(file, 0) = -1
        BY <2>1, TileEntryRead
      <3> QED BY <2>2, <3>2, <3>3, <3>4, NoNumber, Zenon
    <2>4. UnitAt(file, TileKey(i) + 1) = PayloadUnit(i) /\ Has(file, PayloadAt, Contents)
      BY <2>1, <2>3, TileEntryRead
    <2>5. Reads(file, PayloadUnit(i).at, TileUnit(i).n, OnTile(UsedTiles[i]))
      BY <2>1, <2>4, TileRead
    <2>6. Scan(file, TileKey(i)) = FeaturesFrom(file, PayloadUnit(i).at + 1, TileUnit(i).n)
      BY <2>2, <2>3, <2>4, Zenon DEF Scan, PayloadPlace
    <2>7. ToSet(Scan(file, TileKey(i)).seen) = OnTile(UsedTiles[i])
      BY <2>5, <2>6, Zenon DEF Reads
    <2>8. Seen(Scan(file, TileKey(i)), box) = {f \in OnTile(UsedTiles[i]) : Meets(f.box, box)}
      BY <2>7, SeenIn, Zenon
    <2>9. UsedTiles[i] \in cover
      <3>1. <<UsedTiles[i][1], UsedTiles[i][2]>> \in cover
        <4>1. TileUnit(i).x = UsedTiles[i][1] /\ TileUnit(i).y = UsedTiles[i][2]
          BY DEF TileUnit
        <4> QED BY <2>1, <2>2, <4>1, Zenon DEF Listed
      <3>2. UsedTiles[i] \in (0 .. Axis - 1) \X (0 .. Axis - 1)
        <4>1. UsedTiles[i] \in ToSet(UsedTiles)
          BY <2>1, TilesUsed DEF ToSet
        <4>2. \A f : TilesOf(f) \subseteq (0 .. Axis - 1) \X (0 .. Axis - 1)
          BY DEF TilesOf, Cover
        <4>3. ToSet(UsedTiles) = UNION {TilesOf(f) : f \in ToSet(pack.features)}
          BY TilesUsed
        <4> QED BY <4>1, <4>2, <4>3
      <3>3. UsedTiles[i] = <<UsedTiles[i][1], UsedTiles[i][2]>>
        BY <3>2
      <3> QED BY <3>1, <3>3, Zenon
    <2> QED BY <2>8, <2>9, Zenon
  <1>3. \A tile : tile \in cover => OnTile(tile) \subseteq On(cover)
    BY DEF OnTile, On
  <1>4. ~bad => some \subseteq all
    <2> SUFFICES ASSUME ~bad, NEW i \in T PROVE Seen(Scan(file, TileKey(i)), box) \subseteq all
      BY Zenon
    <2>1. ~Wrong(file, TileKey(i))
      BY Zenon
    <2>2. /\ Seen(Scan(file, TileKey(i)), box) = {f \in OnTile(UsedTiles[i]) : Meets(f.box, box)}
          /\ UsedTiles[i] \in cover
      BY <1>2, <2>1
    <2> HIDE DEF T, bad, cover
    <2> QED BY <1>3, <2>2
  <1>5. ASSUME Finished(file), NEW i \in 1 .. n
        PROVE  /\ Readable(file, TileKey(i) + 1) /\ ~Wrong(file, TileKey(i))
               /\ UsedTiles[i] \in cover => i \in T
    <2>1. /\ TileKey(i) \in 1 .. PayloadAt - 2 /\ TileKey(i) + 1 \in 1 .. PayloadAt - 1
          /\ UnitAt(Layout, TileKey(i)) = TileUnit(i) /\ UnitAt(Layout, TileKey(i) + 1) = PayloadUnit(i)
          /\ PayloadAt \in Nat
      BY LayoutParts, Offsets, Zenon
    <2>2. TileKey(i) \in 1 .. PayloadAt - 1
      BY <2>1
    <2>3. /\ Readable(file, TileKey(i)) /\ UnitAt(file, TileKey(i)) = TileUnit(i)
          /\ Readable(file, TileKey(i) + 1) /\ UnitAt(file, TileKey(i) + 1) = PayloadUnit(i)
          /\ Has(file, PayloadAt, Contents)
      BY <1>5, <2>1, <2>2 DEF Finished
    <2>4. TileUnit(i).kind = "tile" /\ PayloadUnit(i).kind = "place of tile"
      BY DEF TileUnit, PayloadUnit
    <2>5. KindAt(file, TileKey(i), "tile") /\ KindAt(file, TileKey(i) + 1, "place of tile")
      BY <2>3, <2>4 DEF KindAt
    <2>6. Reads(file, PayloadUnit(i).at, TileUnit(i).n, OnTile(UsedTiles[i]))
      BY <2>3, TileRead
    <2>7. ~Wrong(file, TileKey(i))
      BY <2>3, <2>5, <2>6, Zenon DEF Wrong, Reads, Scan, PayloadPlace
    <2>8. UsedTiles[i] \in cover => i \in T
      <3>1. UsedTiles[i] = <<UsedTiles[i][1], UsedTiles[i][2]>>
        <4>1. UsedTiles[i] \in ToSet(UsedTiles)
          BY TilesUsed DEF ToSet
        <4>2. \A f : TilesOf(f) \subseteq (0 .. Axis - 1) \X (0 .. Axis - 1)
          BY DEF TilesOf, Cover
        <4>3. UsedTiles[i] \in (0 .. Axis - 1) \X (0 .. Axis - 1)
          BY <4>1, <4>2, TilesUsed
        <4> QED BY <4>3
      <3>2. TileUnit(i).x = UsedTiles[i][1] /\ TileUnit(i).y = UsedTiles[i][2]
        BY DEF TileUnit
      <3> QED BY <2>3, <2>5, <3>1, <3>2, Zenon DEF Listed
    <2> QED BY <2>3, <2>7, <2>8
  <1>6. Finished(file) => ~bad /\ all \subseteq some
    <2> SUFFICES ASSUME Finished(file) PROVE ~bad /\ all \subseteq some
      OBVIOUS
    <2>1. HasHeader(file)
      <3>1. LastHeader.kind = "header"
        BY DEF LastHeader, FirstHeader
      <3> QED BY <3>1 DEF HasHeader, KindAt, Finished
    <2>2. ~bad
      BY <1>5, <2>1
    <2>3. ASSUME NEW x \in all PROVE x \in some
      <3>1. PICK f \in ToSet(pack.features) : TilesOf(f) \cap cover # {} /\ x = Placed(f)
        BY DEF On
      <3>2. PICK tile \in TilesOf(f) : tile \in cover
        BY <3>1
      <3>3. PICK i \in 1 .. n : UsedTiles[i] = tile
        BY TilesUsed DEF ToSet
      <3>4. i \in T /\ ~Wrong(file, TileKey(i))
        BY <1>5, <3>2, <3>3
      <3>5. Seen(Scan(file, TileKey(i)), box) = {g \in OnTile(UsedTiles[i]) : Meets(g.box, box)}
        BY <1>2, <3>4
      <3>6. x \in OnTile(tile) /\ Meets(x.box, box)
        BY <3>1, <3>2 DEF OnTile
      <3> HIDE DEF T
      <3> QED BY <3>3, <3>4, <3>5, <3>6
    <2> QED BY <2>2, <2>3
  <1>7. Refused.features = {} /\ Found(some).features = some
    BY DEF Refused, Found
  <1> HIDE DEF some, bad, all, T
  <1>8. RenderBox(file, box).features \subseteq all
    BY <1>1, <1>4, <1>7
  <1>9. Finished(file) => RenderBox(file, box) = Found(all)
    <2>1. Finished(file) => some = all /\ ~bad
      BY <1>4, <1>6
    <2> QED BY <1>1, <2>1
  <1> QED BY <1>8, <1>9 DEF all, cover

(* For every source, every number of workers and blocks, every grid and    *)
(* every box: rpack-render shows in the box, of the file that pbf-to-rpack *)
(* has written, exactly the features of the source that meet it, each with *)
(* the coordinates of its own nodes.                                       *)
THEOREM PackRendersTheSource == Spec => []RendersTheSource
  <1>1. WrittenInv => RendersTheSource
    <2> SUFFICES ASSUME WrittenInv, phase = "done", NEW box \in Boxes
                 PROVE  RenderBox(image, box) = Found(Visible(box))
      BY DEF RendersTheSource
    <2>1. Gathered /\ Finished(image) /\ Faithful(image)
      BY FileIsFinished
    <2>2. RenderBox(image, box) = Found({f \in On(Cover(box, source.halo)) : Meets(f.box, box)})
      BY <2>1, BoxRead
    <2>3. box \in Box /\ source.halo \in Nat
      <3>1. box \in [west : Int, east : Int, south : Int, north : Int] /\ HasArea(box)
        BY MapPackAssumption DEF MapPackAssumption, RenderableBoxes
      <3>2. box \in Box
        BY <3>1 DEF HasArea, Box
      <3> QED BY <2>1, <3>2, SourceTypes DEF Gathered, MapTypes
    <2> QED BY <2>1, <2>2, <2>3, TilesShow
  <1> QED BY <1>1, FileInvariant, PTL

-----------------------------------------------------------------------------
(***************************************************************************)
(* Places and their ways.                                                  *)
(***************************************************************************)
\* A record of the pack for the outline of places, and the way it was made of.
RecordOf(w, way) ==
    /\ w.id = way.id /\ w.n = Len(way.refs) /\ RefsOf(w) = way.refs
    /\ w.first \in Nat /\ w.n \in Nat /\ w.first + w.n <= Len(pack.refs)

LEMMA PlaceWaysOfTheSource ==
    ASSUME Gathered
    PROVE  /\ \A w \in ToSet(pack.placeWays) : \E way \in FileWaySet : Needed(way.id) /\ RecordOf(w, way)
           /\ \A way \in FileWaySet : Needed(way.id) => \E w \in ToSet(pack.placeWays) : RecordOf(w, way)
  <1>1. PlaceLook(pack) = PlaceWaysOf(FileWaySet) /\ pack \in Lists
    BY DEF Gathered, MapTypes, PackHasAllWays
  <1>2. \A w \in ToSet(pack.placeWays) :
           w \in PlaceWays /\ w.first \in Nat /\ w.n \in Nat /\ w.first + w.n <= Len(pack.refs)
    <2>1. pack.placeWays \in Seq(PlaceWays) /\ AllFit(pack.placeWays, pack.refs)
      BY <1>1, ListParts
    <2> QED BY <2>1, PlaceWaysMove, RecordTypes, Zenon
  <1> DEFINE entry(p) == <<[p EXCEPT !.first = 0], Stretch(pack.refs, p)>>
             said(w) == <<[id |-> w.id, first |-> 0, n |-> Len(w.refs)], w.refs>>
  <1>3. ASSUME NEW w \in ToSet(pack.placeWays)
        PROVE  entry(w)[1].id = w.id /\ entry(w)[1].n = w.n /\ entry(w)[2] = RefsOf(w)
    <2>1. [w EXCEPT !.first = 0].id = w.id /\ [w EXCEPT !.first = 0].n = w.n
      BY <1>2 DEF PlaceWays
    <2> QED BY <2>1 DEF Stretch, RefsOf
  <1>4. \A w : said(w)[1].id = w.id /\ said(w)[1].n = Len(w.refs) /\ said(w)[2] = w.refs
    OBVIOUS
  <1>5. \A w : PlaceWayOf(w) = IF ~Needed(w.id) THEN {} ELSE {said(w)}
    BY Zenon DEF PlaceWayOf
  <1>6. PlaceLook(pack) = {entry(p) : p \in ToSet(pack.placeWays)}
    BY Zenon DEF PlaceLook, Look
  <1>7. PlaceWaysOf(FileWaySet) = UNION {PlaceWayOf(w) : w \in FileWaySet}
    BY Zenon DEF PlaceWaysOf
  <1> HIDE DEF entry, said
  <1>8. \A p \in ToSet(pack.placeWays) : \E w \in FileWaySet : Needed(w.id) /\ entry(p) = said(w)
    BY <1>1, <1>5, <1>6, <1>7
  <1>9. \A w \in FileWaySet : Needed(w.id) => \E p \in ToSet(pack.placeWays) : entry(p) = said(w)
    BY <1>1, <1>5, <1>6, <1>7
  <1>10. \A p \in ToSet(pack.placeWays) : \A w : entry(p) = said(w) => RecordOf(p, w)
    BY <1>2, <1>3, <1>4 DEF RecordOf
  <1> QED BY <1>8, <1>9, <1>10, Zenon

LEMMA WaysHaveIds ==
    ASSUME Gathered
    PROVE  /\ \A v, w \in FileWaySet : v.id = w.id => v = w
           /\ \A w \in FileWaySet : w \in AllWays
           /\ \A r \in ToSet(source.relations) : IsList(r.ways) /\ r.place \in BOOLEAN /\ r.rank \in Nat
  <1>1. source \in Sources
    BY DEF Gathered, MapTypes
  <1>2. SourceShape(source)
    BY <1>1, MapPackAssumption DEF MapPackAssumption
  <1>3. FileWaySet = UNION {ToSet(b) : b \in ToSet(source.ways)}
    BY DEF FileWaySet
  <1>4. \A v, w \in FileWaySet : v.id = w.id => v = w
    BY <1>2, <1>3, Zenon DEF SourceShape
  <1>5. \A w \in FileWaySet : w \in AllWays
    BY <1>1, SourceTypes
  <1>6. \A r \in ToSet(source.relations) : IsList(r.ways) /\ r.place \in BOOLEAN /\ r.rank \in Nat
    BY <1>2, Zenon DEF SourceShape
  <1> QED BY <1>4, <1>5, <1>6

\* The way that v2_find_place_way finds is the one of the file.
LEMMA PlaceWayOfId ==
    ASSUME Gathered
    PROVE  /\ \A way \in FileWaySet : Needed(way.id) =>
                 /\ way.id \in PlaceWayIds /\ PlaceWay(way.id) \in ToSet(pack.placeWays)
                 /\ RecordOf(PlaceWay(way.id), way)
           /\ \A id \in PlaceWayIds : \E way \in FileWaySet : way.id = id /\ Needed(id)
  <1>1. \A id \in PlaceWayIds : PlaceWay(id) \in ToSet(pack.placeWays) /\ PlaceWay(id).id = id
    BY DEF PlaceWay, PlaceWayIds
  <1>2. ASSUME NEW way \in FileWaySet, Needed(way.id)
        PROVE  /\ way.id \in PlaceWayIds /\ PlaceWay(way.id) \in ToSet(pack.placeWays)
               /\ RecordOf(PlaceWay(way.id), way)
    <2>1. PICK w \in ToSet(pack.placeWays) : RecordOf(w, way)
      BY <1>2, PlaceWaysOfTheSource
    <2>2. way.id \in PlaceWayIds
      BY <2>1 DEF RecordOf, PlaceWayIds
    <2> DEFINE p == PlaceWay(way.id)
    <2>3. p \in ToSet(pack.placeWays) /\ p.id = way.id
      BY <1>1, <2>2
    <2> HIDE DEF p
    <2>4. PICK v \in FileWaySet : RecordOf(p, v)
      BY <2>3, PlaceWaysOfTheSource
    <2>5. v = way
      BY <2>3, <2>4, WaysHaveIds, Zenon DEF RecordOf
    <2> QED BY <2>2, <2>3, <2>4, <2>5 DEF p
  <1>3. ASSUME NEW id \in PlaceWayIds
        PROVE  \E way \in FileWaySet : way.id = id /\ Needed(id)
    <2>1. PICK way \in FileWaySet : Needed(way.id) /\ RecordOf(PlaceWay(id), way)
      BY <1>1, PlaceWaysOfTheSource
    <2> QED BY <1>1, <2>1 DEF RecordOf
  <1> QED BY <1>2, <1>3

\* The ways the file has of a place are records of the ways of its relation.
LEMMA FileWaysOfRelation ==
    ASSUME Gathered, NEW place \in ToSet(places.list), NEW r \in ToSet(source.relations),
           MemberWays(place) = r.ways
    PROVE  /\ \A way \in FileWaySet : way.id \in ToSet(r.ways) =>
                 /\ PlaceWay(way.id) \in ToSet(FileWays(place)) /\ RecordOf(PlaceWay(way.id), way)
           /\ \A w \in ToSet(FileWays(place)) :
                 \E way \in FileWaySet : way.id \in ToSet(r.ways) /\ RecordOf(w, way)
  <1>1. \A id \in ToSet(r.ways) : Needed(id)
    <2>1. \A p \in ToSet(places.list) : p.first \in Nat /\ p.n \in Nat /\ p.first + p.n <= Len(places.members)
      BY PackLists
    <2>2. IsList(places.members)
      BY PackLists
    <2> DEFINE all == places.members
               S == ToSet(all)
               a == place.first
               n == place.n
    <2>3. all \in Seq(S) /\ a \in Nat /\ n \in Nat /\ a + n <= Len(all)
      BY <2>1, <2>2, ListFacts
    <2>4. r.ways = SubSeq(all, a + 1, a + n)
      BY DEF MemberWays
    <2> HIDE DEF all, a, n, S
    <2>5. \A k \in 1 .. n : SubSeq(all, a + 1, a + n)[k] \in ToSet(all)
      BY <2>3, StretchElements
    <2>6. Len(SubSeq(all, a + 1, a + n)) = n /\ SubSeq(all, a + 1, a + n) \in Seq(S)
      BY <2>3
    <2>7. ToSet(r.ways) \subseteq ToSet(all)
      <3>1. DOMAIN r.ways = 1 .. n
        BY <2>4, <2>6
      <3> QED BY <2>4, <2>5, <3>1 DEF ToSet
    <2> QED BY <2>7 DEF Needed, all
  <1>2. ToSet(FileWays(place)) = {PlaceWay(id) : id \in ToSet(r.ways) \cap PlaceWayIds}
    BY FileWaysOfPlace
  <1>3. ASSUME NEW way \in FileWaySet, way.id \in ToSet(r.ways)
        PROVE  PlaceWay(way.id) \in ToSet(FileWays(place)) /\ RecordOf(PlaceWay(way.id), way)
    BY <1>1, <1>2, <1>3, PlaceWayOfId
  <1>4. ASSUME NEW w \in ToSet(FileWays(place))
        PROVE  \E way \in FileWaySet : way.id \in ToSet(r.ways) /\ RecordOf(w, way)
    <2>1. PICK id \in ToSet(r.ways) \cap PlaceWayIds : w = PlaceWay(id)
      BY <1>2
    <2>2. PICK way \in FileWaySet : way.id = id
      BY <2>1, PlaceWayOfId
    <2> QED BY <1>3, <2>1, <2>2
  <1> QED BY <1>3, <1>4

LEMMA PlacePointsOf ==
    ASSUME NEW place
    PROVE  \A x : x \in PlacePoints(place)
                  <=> \E id \in UNION {ToSet(RefsOf(w)) : w \in ToSet(FileWays(place))} : Located(id) /\ x = nodes[id]
  BY DEF PlacePoints

\* Box and outline of a place are those of its relation: v2_compute_places,
\* v2_write_place_boundary_payload.
LEMMA PlacePointsOfRelation ==
    ASSUME Gathered, NEW place \in ToSet(places.list), NEW r \in ToSet(source.relations),
           MemberWays(place) = r.ways
    PROVE  PlacePoints(place) = Extent(r) /\ Extent(r) \subseteq Points
  <1> DEFINE A == UNION {ToSet(RefsOf(w)) : w \in ToSet(FileWays(place))}
             ways == {w \in FileWaySet : w.id \in ToSet(r.ways)}
             B == UNION {ToSet(w.refs) : w \in ways}
  <1>1. A = B
    <2>1. ASSUME NEW id \in A PROVE id \in B
      <3>1. PICK w \in ToSet(FileWays(place)) : id \in ToSet(RefsOf(w))
        OBVIOUS
      <3>2. PICK way \in FileWaySet : way.id \in ToSet(r.ways) /\ RecordOf(w, way)
        BY FileWaysOfRelation
      <3>3. way \in ways /\ id \in ToSet(way.refs)
        BY <3>1, <3>2 DEF RecordOf
      <3> QED BY <3>3
    <2>2. ASSUME NEW id \in B PROVE id \in A
      <3>1. PICK way \in ways : id \in ToSet(way.refs)
        OBVIOUS
      <3>2. PlaceWay(way.id) \in ToSet(FileWays(place)) /\ RecordOf(PlaceWay(way.id), way)
        BY FileWaysOfRelation
      <3> DEFINE p == PlaceWay(way.id)
      <3>3. p \in ToSet(FileWays(place)) /\ id \in ToSet(RefsOf(p))
        BY <3>1, <3>2 DEF RecordOf
      <3> HIDE DEF p
      <3> QED BY <3>3
    <2> QED BY <2>1, <2>2
  <1>2. ASSUME NEW w \in ToSet(FileWays(place)) PROVE ToSet(RefsOf(w)) \subseteq ToSet(pack.refs)
    <2>1. PICK way : RecordOf(w, way)
      BY FileWaysOfRelation
    <2>2. pack.refs \in Seq(Ids)
      BY ListParts DEF Gathered, MapTypes
    <2> DEFINE all == pack.refs
               a == w.first
               n == w.n
    <2>3. all \in Seq(Ids) /\ a \in Nat /\ n \in Nat /\ a + n <= Len(all)
      BY <2>1, <2>2 DEF RecordOf
    <2>4. RefsOf(w) = SubSeq(all, a + 1, a + n)
      BY DEF RefsOf
    <2> HIDE DEF all, a, n
    <2>5. \A k \in 1 .. n : SubSeq(all, a + 1, a + n)[k] \in ToSet(all)
      BY <2>3, StretchElements
    <2>6. Len(SubSeq(all, a + 1, a + n)) = n /\ SubSeq(all, a + 1, a + n) \in Seq(Ids)
      BY <2>3
    <2>7. DOMAIN RefsOf(w) = 1 .. n
      BY <2>4, <2>6
    <2> QED BY <2>4, <2>5, <2>7 DEF ToSet, all
  <1>3. \A id \in A : /\ Located(id) <=> id \in DOMAIN SourceNodes
                      /\ Located(id) => nodes[id] = SourceNodes[id] /\ nodes[id] \in Points
    <2>1. A \subseteq ToSet(pack.refs)
      BY <1>2
    <2> HIDE DEF A
    <2> QED BY <2>1, NodesOfTheSource, Zenon
  <1>4. PlacePoints(place) = {nodes[id] : id \in {x \in A : Located(x)}}
    <2>1. \A x : x \in PlacePoints(place) <=> \E id \in A : Located(id) /\ x = nodes[id]
      BY PlacePointsOf
    <2> HIDE DEF A
    <2> QED BY <2>1
  <1>5. Extent(r) = {SourceNodes[id] : id \in B \cap DOMAIN SourceNodes}
    BY Zenon DEF Extent
  <1> HIDE DEF A, B
  <1> QED BY <1>1, <1>3, <1>4, <1>5

LEMMA OutlineOfRelation ==
    ASSUME Gathered, NEW place \in ToSet(places.list), NEW r \in ToSet(source.relations),
           MemberWays(place) = r.ways
    PROVE  {DrawnAs(w, "boundary", "line") : w \in ToSet(OutlineWays(place))} = Outline(r)
  <1>1. ToSet(OutlineWays(place)) = {w \in ToSet(FileWays(place)) : w.n >= 2 /\ Complete(w)}
    BY OutlineOf
  <1>2. ASSUME NEW w, NEW way \in FileWaySet, RecordOf(w, way), w.n >= 2
        PROVE  /\ Complete(w) <=> AllThere(way)
               /\ AllThere(way) => DrawnAs(w, "boundary", "line") = Drawn(way, "boundary", "line")
    <2>1. way \in AllWays /\ Gathered /\ w.first \in Nat /\ w.n \in Nat /\ w.first + w.n <= Len(pack.refs)
          /\ RefsOf(w) = way.refs /\ w.n = Len(way.refs) /\ w.n >= 1
      BY <1>2, WaysHaveIds DEF RecordOf
    <2>2. /\ Complete(w) <=> AllThere(way)
          /\ AllThere(way) => PointsOf(w) = Shape(way)
      BY <2>1, RecordIsWay
    <2> QED BY <2>2 DEF DrawnAs, Drawn
  <1>3. \A way : way \in SourceWays <=> way \in FileWaySet /\ Len(way.refs) >= 2 /\ AllThere(way)
    BY DEF SourceWays
  <1>4. Outline(r) = {Drawn(w, "boundary", "line") : w \in {v \in SourceWays : v.id \in ToSet(r.ways)}}
    BY Zenon DEF Outline
  <1>5. ASSUME NEW w \in ToSet(OutlineWays(place))
        PROVE  \E way \in SourceWays : way.id \in ToSet(r.ways)
                                       /\ DrawnAs(w, "boundary", "line") = Drawn(way, "boundary", "line")
    <2>1. w \in ToSet(FileWays(place)) /\ w.n >= 2 /\ Complete(w)
      BY <1>1
    <2>2. PICK way \in FileWaySet : way.id \in ToSet(r.ways) /\ RecordOf(w, way)
      BY <2>1, FileWaysOfRelation
    <2>3. way \in SourceWays
      BY <1>2, <1>3, <2>1, <2>2 DEF RecordOf
    <2> QED BY <1>2, <1>3, <2>1, <2>2, <2>3
  <1>6. ASSUME NEW way \in SourceWays, way.id \in ToSet(r.ways)
        PROVE  \E w \in ToSet(OutlineWays(place)) :
                  DrawnAs(w, "boundary", "line") = Drawn(way, "boundary", "line")
    <2> DEFINE w == PlaceWay(way.id)
    <2>1. w \in ToSet(FileWays(place)) /\ RecordOf(w, way)
      BY <1>3, <1>6, FileWaysOfRelation
    <2> HIDE DEF w
    <2>2. w.n >= 2 /\ way \in FileWaySet /\ AllThere(way)
      BY <1>3, <2>1 DEF RecordOf
    <2>3. w \in ToSet(OutlineWays(place))
      BY <1>1, <1>2, <2>1, <2>2
    <2> QED BY <1>2, <2>1, <2>2, <2>3
  <1> DEFINE D(w) == DrawnAs(w, "boundary", "line")
             F(w) == Drawn(w, "boundary", "line")
  <1>7. \A w \in ToSet(OutlineWays(place)) : \E way \in SourceWays : way.id \in ToSet(r.ways) /\ D(w) = F(way)
    BY <1>5
  <1>8. \A way \in SourceWays : way.id \in ToSet(r.ways) => \E w \in ToSet(OutlineWays(place)) : D(w) = F(way)
    BY <1>6
  <1>9. Outline(r) = {F(w) : w \in {v \in SourceWays : v.id \in ToSet(r.ways)}}
    BY <1>4
  <1> HIDE DEF D, F
  <1>10. {D(w) : w \in ToSet(OutlineWays(place))} = Outline(r)
    BY <1>7, <1>8, <1>9
  <1> QED BY <1>10 DEF D

\* Every outline lies in the extent of its place.
LEMMA OutlinePoints ==
    ASSUME Gathered, NEW r, NEW f \in Outline(r)
    PROVE  /\ f.box = BoxOf(ToSet(f.points)) /\ IsList(f.points) /\ Len(f.points) >= 2
           /\ ToSet(f.points) # {} /\ ToSet(f.points) \subseteq Extent(r)
  <1>1. PICK way \in SourceWays : way.id \in ToSet(r.ways) /\ f = Drawn(way, "boundary", "line")
    BY DEF Outline
  <1>2. way \in FileWaySet /\ Len(way.refs) >= 2 /\ AllThere(way)
    BY DEF SourceWays
  <1>3. way.refs \in Seq(Ids) /\ DOMAIN way.refs = 1 .. Len(way.refs) /\ Len(way.refs) \in Nat
    BY <1>2, WaysHaveIds, WayTypes
  <1>4. f.points = Shape(way) /\ f.box = BoxOf(ToSet(Shape(way)))
    BY <1>1 DEF Drawn
  <1> DEFINE n == Len(way.refs)
             s == Shape(way)
  <1>5. s = [k \in 1 .. n |-> SourceNodes[way.refs[k]]]
    BY <1>3 DEF Shape
  <1>6. \A k \in 1 .. n : s[k] = SourceNodes[way.refs[k]]
    <2> HIDE DEF s, n
    <2> QED BY <1>5
  <1>7. IsList(s) /\ Len(s) = n /\ DOMAIN s = 1 .. n
    <2>1. n \in Nat /\ s = [k \in 1 .. n |-> s[k]]
      <3>1. n \in Nat
        BY <1>3
      <3> HIDE DEF s, n
      <3> QED BY <1>5, <1>6, <3>1, Zenon
    <2> HIDE DEF s, n
    <2> QED BY <2>1, ListMade
  <1>8. \A k \in 1 .. n : s[k] \in Extent(r)
    <2> SUFFICES ASSUME NEW k \in 1 .. n PROVE s[k] \in Extent(r)
      OBVIOUS
    <2> DEFINE W == {w \in FileWaySet : w.id \in ToSet(r.ways)}
               I == (UNION {ToSet(w.refs) : w \in W}) \cap DOMAIN SourceNodes
    <2>1. way.refs[k] \in ToSet(way.refs)
      BY <1>3 DEF ToSet
    <2>2. way.refs[k] \in I
      <3>1. way \in W /\ way.refs[k] \in DOMAIN SourceNodes
        BY <1>1, <1>2, <2>1 DEF AllThere
      <3> HIDE DEF W
      <3> QED BY <2>1, <3>1
    <2>3. Extent(r) = {SourceNodes[id] : id \in I}
      BY Zenon DEF Extent
    <2> HIDE DEF I, s
    <2> QED BY <1>6, <2>2, <2>3
  <1>9. 1 \in 1 .. n /\ n >= 2
    BY <1>2, <1>3
  <1> HIDE DEF n, s
  <1>10. ToSet(s) # {} /\ ToSet(s) \subseteq Extent(r)
    BY <1>7, <1>8, <1>9 DEF ToSet
  <1> QED BY <1>4, <1>7, <1>9, <1>10 DEF s

-----------------------------------------------------------------------------
(***************************************************************************)
(* The records of places, in the order of their relations.                 *)
(***************************************************************************)
\* A relation that has a record.
Grown(r) == r.place /\ Extent(r) # {} /\ HasArea(BoxOf(Extent(r)))

Recorded(p, r) ==
    /\ p.rank = Rank(r) /\ places.strings[p.nameAt + 1] = r.name /\ MemberWays(p) = r.ways

\* h has the index of the relation of each record.
RecordedBy(h) ==
    /\ \A i \in 1 .. Len(ValidPlaces) :
          /\ h[i] \in 1 .. Len(source.relations) /\ Grown(source.relations[h[i]])
          /\ Recorded(ValidPlaces[i], source.relations[h[i]])
    /\ \A i, j \in 1 .. Len(ValidPlaces) : i < j => h[i] < h[j]
    /\ \A k \in 1 .. Len(source.relations) : Grown(source.relations[k]) =>
          \E i \in 1 .. Len(ValidPlaces) : h[i] = k

LEMMA RecordedIfTold ==
    ASSUME NEW i, NEW r, ToldAt(places, i) = Tell(r)
    PROVE  Recorded(places.list[i], r)
  <1> DEFINE p == places.list[i]
             a == [rank |-> p.rank, name |-> places.strings[p.nameAt + 1], ways |-> MemberWays(p)]
             b == [rank |-> Rank(r), name |-> r.name, ways |-> r.ways]
  <1>1. a = b
    BY Zenon DEF ToldAt, Told, Tell, MemberWays
  <1>2. /\ a.rank = p.rank /\ a.name = places.strings[p.nameAt + 1] /\ a.ways = MemberWays(p)
        /\ b.rank = Rank(r) /\ b.name = r.name /\ b.ways = r.ways
    OBVIOUS
  <1> HIDE DEF a, b
  <1> QED BY <1>1, <1>2 DEF Recorded

LEMMA GrownHasWays ==
    ASSUME NEW r, Grown(r), IsList(r.ways)
    PROVE  Kind(r)
  <1>1. ASSUME r.ways = <<>> PROVE FALSE
    <2>1. ToSet(r.ways) = {}
      BY <1>1, ShortLists
    <2> DEFINE W == {w \in FileWaySet : w.id \in ToSet(r.ways)}
               I == (UNION {ToSet(w.refs) : w \in W}) \cap DOMAIN SourceNodes
    <2>2. Extent(r) = {SourceNodes[id] : id \in I}
      BY Zenon DEF Extent
    <2>3. I = {}
      BY <2>1
    <2> HIDE DEF I
    <2>4. Extent(r) = {}
      BY <2>2, <2>3
    <2> QED BY <2>4 DEF Grown
  <1> QED BY <1>1 DEF Kind, Grown

LEMMA PlacesInOrder ==
    ASSUME Gathered
    PROVE  \E h : RecordedBy(h)
  <1> DEFINE N == Len(source.relations)
             m == Len(ValidPlaces)
             list == places.list
             valid == {p \in ToSet(list) : ValidPlace(p)}
             rel == source.relations
  <1>1. IsList(list) /\ Len(list) \in Nat /\ ToSet(list) = {list[i] : i \in 1 .. Len(list)}
    BY PackLists, ListFacts, Zenon
  <1>2. PICK e : Picked(e, list, valid, Len(list), ValidPlaces)
    BY <1>1, OnlyThose, Zenon DEF ValidPlaces
  <1>3. PICK g : OrderedBy(g, places, rel, N)
    BY DEF Gathered, PlacesAreRead, Ordered
  <1>4. \A r \in ToSet(rel) : IsList(r.ways)
    BY WaysHaveIds
  <1>5. \A k \in 1 .. N : rel[k] \in ToSet(rel)
    <2>1. IsList(rel)
      <3>1. SourceShape(source)
        BY MapPackAssumption DEF MapPackAssumption, Gathered, MapTypes
      <3> QED BY <3>1, Zenon DEF SourceShape
    <2>2. ToSet(rel) = {rel[k] : k \in 1 .. N}
      BY <2>1, ListFacts, Zenon
    <2> QED BY <2>2
  <1>6. ASSUME NEW j \in 1 .. Len(list)
        PROVE  /\ g[j] \in 1 .. N /\ Recorded(list[j], rel[g[j]]) /\ Kind(rel[g[j]])
               /\ list[j] \in valid <=> Grown(rel[g[j]])
    <2>1. g[j] \in 1 .. N /\ Kind(rel[g[j]]) /\ ToldAt(places, j) = Tell(rel[g[j]])
      BY <1>3, Zenon DEF OrderedBy
    <2>2. Recorded(list[j], rel[g[j]])
      BY <2>1, RecordedIfTold
    <2>3. list[j] \in ToSet(list) /\ rel[g[j]] \in ToSet(rel)
      BY <1>1, <1>5, <2>1
    <2>4. MemberWays(list[j]) = rel[g[j]].ways
      BY <2>2 DEF Recorded
    <2>5. PlacePoints(list[j]) = Extent(rel[g[j]])
      BY <2>3, <2>4, PlacePointsOfRelation
    <2>6. ValidPlace(list[j]) <=> Grown(rel[g[j]])
      BY <2>1, <2>5 DEF ValidPlace, Grown, Kind
    <2> QED BY <2>1, <2>2, <2>3, <2>6
  <1> DEFINE h == [i \in 1 .. m |-> g[e[i]]]
  <1>7. \A i \in 1 .. m : h[i] = g[e[i]]
    OBVIOUS
  <1>8. /\ \A i \in 1 .. m : e[i] \in 1 .. Len(list) /\ ValidPlaces[i] = list[e[i]] /\ ValidPlaces[i] \in valid
        /\ \A i, j \in 1 .. m : i < j => e[i] < e[j]
        /\ \A j \in 1 .. Len(list) : list[j] \in valid => \E i \in 1 .. m : e[i] = j
    <2>1. \A i \in 1 .. m : ValidPlaces[i] \in valid
      BY UsedLists, Zenon
    <2> QED BY <1>2, <2>1, Zenon DEF Picked
  <1>9. /\ \A i, j \in 1 .. Len(list) : i < j => g[i] < g[j]
        /\ \A k \in 1 .. N : Kind(rel[k]) => \E i \in 1 .. Len(list) : g[i] = k
    BY <1>3, Zenon DEF OrderedBy
  <1> HIDE DEF h, valid, m
  <1>10. \A i \in 1 .. m : /\ h[i] \in 1 .. N /\ Grown(rel[h[i]])
                           /\ Recorded(ValidPlaces[i], rel[h[i]])
    BY <1>6, <1>7, <1>8, Zenon
  <1>11. ASSUME NEW i \in 1 .. m, NEW j \in 1 .. m, i < j PROVE h[i] < h[j]
    <2>1. e[i] < e[j] /\ e[i] \in 1 .. Len(list) /\ e[j] \in 1 .. Len(list)
      BY <1>8, <1>11
    <2>2. g[e[i]] < g[e[j]]
      BY <1>9, <2>1
    <2> QED BY <1>7, <2>2
  <1>12. ASSUME NEW k \in 1 .. N, Grown(rel[k])
         PROVE  \E i \in 1 .. m : h[i] = k
    <2>1. Kind(rel[k])
      BY <1>4, <1>5, <1>12, GrownHasWays
    <2>2. PICK j \in 1 .. Len(list) : g[j] = k
      BY <1>9, <2>1
    <2>3. PICK i \in 1 .. m : e[i] = j
      BY <1>6, <1>8, <1>12, <2>2
    <2> QED BY <1>7, <2>2, <2>3
  <1>13. RecordedBy(h)
    BY <1>10, <1>11, <1>12, Zenon DEF RecordedBy, m
  <1> QED BY <1>13

\* Of several records the one of the highest rank, the first of those.
First(i, T, rank) == \A j \in T : rank[j] < rank[i] \/ (rank[j] = rank[i] /\ i <= j)

LEMMA FirstOfAll ==
    ASSUME NEW n \in Nat, NEW rank \in [1 .. n -> Nat], NEW T \in SUBSET (1 .. n), T # {}
    PROVE  \E i \in T : First(i, T, rank)
  <1> DEFINE Good(k) == \A S \in SUBSET (1 .. k) : S # {} => \E i \in S : First(i, S, rank)
             U == {k \in Nat : k <= n => Good(k)}
  <1>1. 0 \in U
    <2>1. 1 .. 0 = {}
      OBVIOUS
    <2> QED BY <2>1
  <1>2. ASSUME NEW k \in Nat, k \in U PROVE k + 1 \in U
    <2> SUFFICES ASSUME k + 1 <= n PROVE Good(k + 1)
      <3> HIDE DEF Good
      <3> QED OBVIOUS
    <2>1. Good(k)
      <3> HIDE DEF Good
      <3> QED BY <1>2
    <2> SUFFICES ASSUME NEW S \in SUBSET (1 .. k + 1), S # {} PROVE \E i \in S : First(i, S, rank)
      OBVIOUS
    <2> DEFINE R == S \ {k + 1}
    <2>2. R \in SUBSET (1 .. k) /\ \A j \in S : j = k + 1 \/ j \in R
      OBVIOUS
    <2>3. CASE R = {}
      <3>1. S = {k + 1}
        <4> HIDE DEF R
        <4> QED BY <2>2, <2>3
      <3>1a. k + 1 \in 1 .. n
        OBVIOUS
      <3>2. First(k + 1, S, rank)
        BY <3>1, <3>1a DEF First
      <3> QED BY <3>1, <3>2
    <2>4. CASE R # {}
      <3>1. PICK i \in R : First(i, R, rank)
        BY <2>1, <2>2, <2>4
      <3>2. i \in S /\ i \in 1 .. k /\ i \in 1 .. n /\ k + 1 \in 1 .. n
        BY <2>2
      <3>3. \A j \in R : rank[j] < rank[i] \/ (rank[j] = rank[i] /\ i <= j)
        BY <3>1 DEF First
      <3>4. rank[i] \in Nat /\ rank[k + 1] \in Nat /\ \A j \in R : rank[j] \in Nat
        <4>1. \A j \in R : j \in 1 .. n
          BY <2>2
        <4> QED BY <3>2, <4>1
      <3> HIDE DEF R
      <3>5. CASE k + 1 \notin S \/ rank[k + 1] <= rank[i]
        <4>1. ASSUME NEW j \in S PROVE rank[j] < rank[i] \/ (rank[j] = rank[i] /\ i <= j)
          <5>1. CASE j \in R
            BY <3>3, <5>1
          <5>2. CASE j = k + 1
            BY <3>2, <3>4, <3>5, <5>2
          <5> QED BY <2>2, <5>1, <5>2
        <4> QED BY <3>2, <4>1 DEF First
      <3>6. CASE k + 1 \in S /\ rank[i] < rank[k + 1]
        <4>1. ASSUME NEW j \in S PROVE rank[j] < rank[k + 1] \/ (rank[j] = rank[k + 1] /\ k + 1 <= j)
          <5>1. CASE j \in R
            BY <3>3, <3>4, <3>6, <5>1
          <5>2. CASE j = k + 1
            BY <5>2
          <5> QED BY <2>2, <5>1, <5>2
        <4> QED BY <3>6, <4>1 DEF First
      <3> QED BY <3>4, <3>5, <3>6
    <2> QED BY <2>3, <2>4
  <1>3. Good(n)
    <2> HIDE DEF Good
    <2>1. n \in U
      <3> HIDE DEF U
      <3> QED BY <1>1, <1>2, EveryNumber
    <2> QED BY <2>1
  <1> QED BY <1>3

-----------------------------------------------------------------------------
(***************************************************************************)
(* What apply_v2_place_bbox reads of the records of places.                *)
(***************************************************************************)
NameOf(i) == places.strings[ValidPlaces[i].nameAt + 1]
Named(name) == {i \in 1 .. Len(ValidPlaces) : NameOf(i) = name}
Ranks == [i \in 1 .. Len(ValidPlaces) |-> ValidPlaces[i].rank]
Lines(i) == {DrawnAs(w, "boundary", "line") : w \in ToSet(OutlineWays(ValidPlaces[i]))}

\* The parts of PlaceFor, given where the directory of places is.
FitsAt(file, key, name) ==
    /\ UnitAt(file, UnitAt(file, key).nameAt) = [kind |-> "name", name |-> name]
    /\ HasArea(UnitAt(file, key).box)
FitSet(file, name, at, n) ==
    {i \in {j \in 1 .. n : KindAt(file, EntryAt(at, j), "place")} : FitsAt(file, EntryAt(at, i), name)}
OutlineIn(file, key) ==
    IF KindAt(file, key + 1, "outline of place") THEN UnitAt(file, key + 1) ELSE [kind |-> "zeros", at |-> 0, n |-> 0]
RankAt(file, key) == UnitAt(file, key).rank
BestOf(file, at, T) ==
    CHOOSE i \in T : \A j \in T :
        \/ RankAt(file, EntryAt(at, j)) < RankAt(file, EntryAt(at, i))
        \/ (RankAt(file, EntryAt(at, j)) = RankAt(file, EntryAt(at, i)) /\ i <= j)
EntryOf(file, key) ==
    [found |-> TRUE, absent |-> FALSE, box |-> UnitAt(file, key).box,
     at |-> OutlineIn(file, key).at, n |-> OutlineIn(file, key).n]
PlaceFrom(file, name, at, n) ==
    IF \/ \E i \in 1 .. n : ~Readable(file, EntryAt(at, i) + 1)
       \/ \E i \in {j \in 1 .. n : KindAt(file, EntryAt(at, j), "place")} :
             ~Readable(file, UnitAt(file, EntryAt(at, i)).nameAt)
    THEN [found |-> FALSE, absent |-> FALSE]
    ELSE IF FitSet(file, name, at, n) = {} THEN [found |-> FALSE, absent |-> TRUE]
    ELSE EntryOf(file, EntryAt(at, BestOf(file, at, FitSet(file, name, at, n))))

LEMMA PlaceParts ==
    ASSUME NEW file, NEW name
    PROVE  PlaceFor(file, name) = PlaceFrom(file, name, Header(file).placeAt, Header(file).places)
  BY Zenon DEF PlaceFor, PlaceFrom, FitSet, FitsAt, OutlineIn, RankAt, BestOf, EntryOf, EntryAt

LEMMA PlaceEntryRead ==
    ASSUME Gathered, NEW file, Faithful(file), NEW i \in 1 .. Len(ValidPlaces)
    PROVE  /\ KindAt(file, PlaceKey(i), "place") =>
                 UnitAt(file, PlaceKey(i)) = PlaceUnit(i) /\ Has(file, PayloadAt, Contents)
           /\ KindAt(file, PlaceKey(i) + 1, "outline of place") =>
                 UnitAt(file, PlaceKey(i) + 1) = OutlineUnit(i) /\ Has(file, PayloadAt, Contents)
           /\ Finished(file) =>
                 /\ KindAt(file, PlaceKey(i), "place") /\ KindAt(file, PlaceKey(i) + 1, "outline of place")
                 /\ Readable(file, PlaceKey(i) + 1)
  <1> DEFINE key == PlaceKey(i)
  <1>1. /\ key \in 1 .. PayloadAt - 2 /\ key + 1 \in 1 .. PayloadAt - 1
        /\ UnitAt(Layout, key) = PlaceUnit(i) /\ UnitAt(Layout, key + 1) = OutlineUnit(i)
    BY LayoutParts, Zenon
  <1>2. PayloadAt \in Nat
    BY Offsets, Zenon
  <1>3. Hole.kind = "zeros" /\ PlaceUnit(i).kind = "place" /\ OutlineUnit(i).kind = "outline of place"
    BY DEF Hole, PlaceUnit, OutlineUnit
  <1> HIDE DEF key
  <1>4. key \in 1 .. PayloadAt - 1 /\ key \in 1 .. key /\ key + 1 \in 1 .. key + 1
    BY <1>1, <1>2
  <1>5. KindAt(file, key, "place") => UnitAt(file, key) = PlaceUnit(i) /\ Has(file, PayloadAt, Contents)
    BY <1>1, <1>3, <1>4 DEF KindAt, Faithful
  <1>6. KindAt(file, key + 1, "outline of place") =>
            UnitAt(file, key + 1) = OutlineUnit(i) /\ Has(file, PayloadAt, Contents)
    BY <1>1, <1>3, <1>4 DEF KindAt, Faithful
  <1>7. ASSUME Finished(file)
        PROVE  /\ KindAt(file, key, "place") /\ KindAt(file, key + 1, "outline of place")
               /\ Readable(file, key + 1)
    <2>1. \A at \in 1 .. PayloadAt - 1 : Readable(file, at) /\ UnitAt(file, at) = UnitAt(Layout, at)
      BY <1>7, Zenon DEF Finished
    <2> QED BY <1>1, <1>3, <1>4, <2>1 DEF KindAt
  <1> QED BY <1>5, <1>6, <1>7 DEF key

\* The name of a record is the one of its place.
LEMMA NameRead ==
    ASSUME Gathered, NEW file, Has(file, PayloadAt, Contents), NEW i \in 1 .. Len(ValidPlaces)
    PROVE  /\ Readable(file, PlaceUnit(i).nameAt)
           /\ UnitAt(file, PlaceUnit(i).nameAt) = [kind |-> "name", name |-> NameOf(i)]
  <1> DEFINE p == ValidPlaces[i]
             k == p.nameAt + 1
             n == Len(places.strings)
             units == NameUnits
             at == StringAt
  <1>1. p \in ToSet(places.list)
    BY UsedLists, Zenon
  <1>2. p.nameAt \in Nat /\ k <= n /\ n \in Nat
    <2>1. IsList(places.strings) /\ \A q \in ToSet(places.list) : q.nameAt \in Nat /\ q.nameAt + 1 <= Len(places.strings)
      BY PackLists
    <2>2. n \in Nat
      BY <2>1, ListFacts
    <2> QED BY <1>1, <2>1, <2>2
  <1>3. Len(units) = n /\ \A j \in 1 .. n : units[j] = [kind |-> "name", name |-> places.strings[j]]
    BY UsedLists, Zenon
  <1>4. \A j \in 1 .. Len(units) : Readable(file, at + j - 1) /\ UnitAt(file, at + j - 1) = units[j]
    <2>1. Has(file, StringAt, NameUnits)
      BY HasContents
    <2> QED BY <2>1 DEF Has
  <1>5. at \in Nat
    BY Offsets, Zenon
  <1>6. PlaceUnit(i).nameAt = at + p.nameAt
    BY DEF PlaceUnit
  <1>7. NameOf(i) = places.strings[k]
    BY DEF NameOf
  <1> HIDE DEF p, n, units, at
  <1>8. k \in 1 .. n /\ at + k - 1 = at + p.nameAt
    BY <1>2, <1>5
  <1> HIDE DEF k
  <1>9. Readable(file, at + k - 1) /\ UnitAt(file, at + k - 1) = units[k]
    BY <1>3, <1>4, <1>8
  <1> QED BY <1>3, <1>6, <1>7, <1>8, <1>9

LEMMA OutlineRead ==
    ASSUME Gathered, NEW file, Has(file, PayloadAt, Contents), NEW i \in 1 .. Len(ValidPlaces)
    PROVE  /\ OutlineUnit(i).at # 0 /\ OutlineUnit(i).n # 0 =>
                 Reads(file, OutlineUnit(i).at, OutlineUnit(i).n, Lines(i))
           /\ OutlineUnit(i).at = 0 \/ OutlineUnit(i).n = 0 => Lines(i) = {}
  <1> DEFINE p == ValidPlaces[i]
             s == OutlineWays(p)
             runs == OutlineRuns(p)
             at == OutlineAt + Offset(Outlines, i)
             style == [j \in 1 .. Len(s) |-> "boundary"]
             flag == [j \in 1 .. Len(s) |-> "line"]
  <1>1. p \in ToSet(places.list)
    BY UsedLists, Zenon
  <1>2. /\ IsList(s) /\ \A j \in 1 .. Len(s) : s[j].n \in Nat /\ s[j].n >= 2
        /\ Runs(runs) /\ Len(runs) = Len(s)
        /\ \A j \in 1 .. Len(s) : runs[j] = FeatureUnits(s[j], "boundary", "line")
        /\ s # <<>> => OutlineUnits(p) = Counted(runs)
        /\ s = <<>> => OutlineUnits(p) = <<>>
        /\ s # <<>> => OutlineUnits(p) # <<>> /\ Len(s) # 0
    BY <1>1, OutlineOf, Zenon
  <1>3. Has(file, at, OutlineUnits(p))
    BY HasContents, Zenon
  <1>4. at \in Nat /\ at # 0 /\ i \in DOMAIN Outlines
    <2>1. Runs(Outlines) /\ Len(Outlines) = Len(ValidPlaces)
      BY RunsOfPack, Zenon
    <2>2. Len(Outlines) \in Nat /\ Len(FlattenSeq(Outlines)) \in Nat /\ DOMAIN Outlines = 1 .. Len(Outlines)
      BY <2>1, Flattening, ListFacts DEF Runs
    <2>3. i \in 1 .. Len(Outlines) + 1 /\ i \in DOMAIN Outlines
      BY <2>1, <2>2
    <2>4. Offset(Outlines, i) \in 0 .. Len(FlattenSeq(Outlines))
      BY <2>1, <2>3, Flattening
    <2>5. OutlineAt \in Nat /\ OutlineAt >= 1
      BY Offsets, Zenon
    <2> QED BY <2>2, <2>3, <2>4, <2>5
  <1>5. /\ OutlineUnit(i).n = Len(s)
        /\ OutlineUnit(i).at = IF OutlineUnits(p) = <<>> THEN 0 ELSE at
    <2>1. Outlines[i] = OutlineUnits(p)
      BY RunsOfPack, Zenon
    <2>2. Starts(OutlineAt, Outlines)[i] = at
      BY <1>4 DEF Starts, Offset
    <2>3. OutlineUnit(i).n = Len(s) /\ OutlineUnit(i).at = IF Outlines[i] = <<>> THEN 0 ELSE Starts(OutlineAt, Outlines)[i]
      BY DEF OutlineUnit
    <2> QED BY <2>1, <2>2, <2>3
  <1>6. \A j \in 1 .. Len(s) : style[j] = "boundary" /\ flag[j] = "line"
    OBVIOUS
  <1>7. Lines(i) = {DrawnAs(w, "boundary", "line") : w \in ToSet(s)}
    BY Zenon DEF Lines
  <1>8. Len(s) \in Nat /\ ToSet(s) = {s[j] : j \in 1 .. Len(s)}
    BY <1>2, ListFacts, Zenon
  <1> HIDE DEF p, s, runs, at, style, flag
  <1>9. CASE s = <<>>
    <2>1. Lines(i) = {}
      BY <1>7, <1>9, ShortLists
    <2>2. OutlineUnit(i).at = 0
      BY <1>2, <1>5, <1>9
    <2> QED BY <2>1, <2>2
  <1>10. CASE s # <<>>
    <2>1. OutlineUnit(i).at = at /\ OutlineUnit(i).n = Len(s) /\ Len(s) # 0
      BY <1>2, <1>5, <1>10
    <2>2. Reads(file, at, Len(s), AllDrawn(s, style, flag))
      <3>1. IsList(runs) /\ \A j \in 1 .. Len(s) : runs[j] = FeatureUnits(s[j], style[j], flag[j])
        BY <1>2, <1>6 DEF Runs
      <3>2. Has(file, at, Counted(runs))
        BY <1>2, <1>3, <1>10
      <3> QED BY <1>2, <1>4, <3>1, <3>2, RunsRead
    <2>3. AllDrawn(s, style, flag) = Lines(i)
      BY <1>6, <1>7, <1>8 DEF AllDrawn
    <2> QED BY <1>4, <2>1, <2>2, <2>3
  <1> QED BY <1>9, <1>10

\* What is found is the record of a place: its box and its outline.
OfRecord(file, place, i) ==
    /\ place.found /\ place.box = BoxOf(PlacePoints(ValidPlaces[i]))
    /\ Outlined(place) => Reads(file, place.at, place.n, Lines(i))

LEMMA EntryOfRecord ==
    ASSUME Gathered, NEW file, Faithful(file), NEW i \in 1 .. Len(ValidPlaces), KindAt(file, PlaceKey(i), "place")
    PROVE  /\ OfRecord(file, EntryOf(file, PlaceKey(i)), i)
           /\ Finished(file) => (~Outlined(EntryOf(file, PlaceKey(i))) => Lines(i) = {})
  <1> DEFINE key == PlaceKey(i)
             place == EntryOf(file, key)
             o == OutlineIn(file, key)
  <1>1. place.found /\ place.box = UnitAt(file, key).box /\ place.at = o.at /\ place.n = o.n
    BY DEF EntryOf
  <1>2. UnitAt(file, key) = PlaceUnit(i) /\ Has(file, PayloadAt, Contents)
    BY PlaceEntryRead
  <1>3. PlaceUnit(i).box = BoxOf(PlacePoints(ValidPlaces[i]))
    BY DEF PlaceUnit
  <1>4. Outlined(place) <=> o.at # 0 /\ o.n # 0
    <2> HIDE DEF place, o
    <2> QED BY <1>1 DEF Outlined
  <1>5. /\ KindAt(file, key + 1, "outline of place") => o = OutlineUnit(i)
        /\ ~KindAt(file, key + 1, "outline of place") => o.at = 0
    BY PlaceEntryRead DEF OutlineIn
  <1>6. Finished(file) => KindAt(file, key + 1, "outline of place")
    BY PlaceEntryRead
  <1> HIDE DEF place, o, key
  <1>7. Outlined(place) => Reads(file, place.at, place.n, Lines(i))
    BY <1>1, <1>2, <1>4, <1>5, OutlineRead
  <1>8. Finished(file) => (~Outlined(place) => Lines(i) = {})
    BY <1>2, <1>4, <1>5, <1>6, OutlineRead
  <1>9. OfRecord(file, place, i)
    BY <1>1, <1>2, <1>3, <1>7 DEF OfRecord
  <1> QED BY <1>8, <1>9 DEF place, key

LEMMA PlaceRead ==
    ASSUME Gathered, NEW file, Faithful(file), NEW name
    PROVE  /\ PlaceFor(file, name).found => \E i \in Named(name) : OfRecord(file, PlaceFor(file, name), i)
           /\ PlaceFor(file, name).found => ~PlaceFor(file, name).absent
           /\ Finished(file) /\ Named(name) = {} => ~PlaceFor(file, name).found /\ PlaceFor(file, name).absent
           /\ Finished(file) /\ Named(name) # {} =>
                 \E i \in Named(name) : /\ First(i, Named(name), Ranks)
                                        /\ OfRecord(file, PlaceFor(file, name), i)
                                        /\ ~Outlined(PlaceFor(file, name)) => Lines(i) = {}
  <1> DEFINE n == Len(ValidPlaces)
             fits == FitSet(file, name, 1, n)
             lost == \/ \E i \in 1 .. n : ~Readable(file, PlaceKey(i) + 1)
                     \/ \E i \in {j \in 1 .. n : KindAt(file, PlaceKey(j), "place")} :
                           ~Readable(file, UnitAt(file, PlaceKey(i)).nameAt)
             best == BestOf(file, 1, fits)
  <1>k. \A i : EntryAt(1, i) = PlaceKey(i)
    BY DEF EntryAt, PlaceKey
  <1>1. PlaceFor(file, name) = IF lost THEN [found |-> FALSE, absent |-> FALSE]
                               ELSE IF fits = {} THEN [found |-> FALSE, absent |-> TRUE]
                               ELSE EntryOf(file, PlaceKey(best))
    <2>1. /\ FirstHeader.placeAt = 1 /\ FirstHeader.places = n
          /\ LastHeader.placeAt = 1 /\ LastHeader.places = n
      BY DEF LastHeader, FirstHeader
    <2>2. Header(file) = FirstHeader \/ Header(file) = LastHeader
      BY DEF Faithful, Header
    <2>3. Header(file).placeAt = 1 /\ Header(file).places = n
      BY <2>1, <2>2, Zenon
    <2>4. PlaceFor(file, name) = PlaceFrom(file, name, 1, n)
      BY <2>3, PlaceParts, Zenon
    <2> DEFINE lost1 == \/ \E i \in 1 .. n : ~Readable(file, EntryAt(1, i) + 1)
                        \/ \E i \in {j \in 1 .. n : KindAt(file, EntryAt(1, j), "place")} :
                              ~Readable(file, UnitAt(file, EntryAt(1, i)).nameAt)
    <2>5. PlaceFrom(file, name, 1, n)
          = IF lost1 THEN [found |-> FALSE, absent |-> FALSE]
            ELSE IF fits = {} THEN [found |-> FALSE, absent |-> TRUE]
            ELSE EntryOf(file, EntryAt(1, best))
      BY Zenon DEF PlaceFrom
    <2>6. lost1 <=> lost
      <3> HIDE DEF n
      <3> QED BY <1>k
    <2> HIDE DEF lost1, lost, fits, best
    <2> QED BY <1>k, <2>4, <2>5, <2>6
  <1>2. n \in Nat /\ Ranks \in [1 .. n -> Nat] /\ \A i \in 1 .. n : Ranks[i] = ValidPlaces[i].rank
    <2>1. \A i \in 1 .. n : ValidPlaces[i] \in ToSet(places.list)
      BY UsedLists, Zenon
    <2>2. \A p \in ToSet(places.list) : p.rank \in Nat
      BY PackLists
    <2>3. n \in Nat
      BY UsedLists, Zenon
    <2> HIDE DEF n
    <2> QED BY <2>1, <2>2, <2>3 DEF Ranks, n
  <1>3. ASSUME NEW i \in 1 .. n, KindAt(file, PlaceKey(i), "place")
        PROVE  /\ FitsAt(file, PlaceKey(i), name) <=> NameOf(i) = name
               /\ Readable(file, UnitAt(file, PlaceKey(i)).nameAt)
               /\ RankAt(file, PlaceKey(i)) = Ranks[i]
    <2>1. UnitAt(file, PlaceKey(i)) = PlaceUnit(i) /\ Has(file, PayloadAt, Contents)
      BY <1>3, PlaceEntryRead
    <2>2. /\ Readable(file, PlaceUnit(i).nameAt)
          /\ UnitAt(file, PlaceUnit(i).nameAt) = [kind |-> "name", name |-> NameOf(i)]
      BY <2>1, NameRead
    <2>3. PlaceUnit(i).box = BoxOf(PlacePoints(ValidPlaces[i])) /\ PlaceUnit(i).rank = ValidPlaces[i].rank
      BY DEF PlaceUnit
    <2>4. HasArea(PlaceUnit(i).box)
      BY <2>3, UsedLists, Zenon DEF ValidPlace
    <2>5. [kind |-> "name", name |-> NameOf(i)] = [kind |-> "name", name |-> name] <=> NameOf(i) = name
      <3>1. [kind |-> "name", name |-> NameOf(i)].name = NameOf(i) /\ [kind |-> "name", name |-> name].name = name
        OBVIOUS
      <3> QED BY <3>1, Zenon
    <2>6. FitsAt(file, PlaceKey(i), name) <=> NameOf(i) = name
      BY <2>1, <2>2, <2>4, <2>5, Zenon DEF FitsAt
    <2> QED BY <1>2, <2>1, <2>2, <2>3, <2>6 DEF RankAt
  <1>4. \A i : i \in fits <=> i \in 1 .. n /\ KindAt(file, PlaceKey(i), "place") /\ FitsAt(file, PlaceKey(i), name)
    BY <1>k, Zenon DEF FitSet
  <1>5. \A i : i \in Named(name) <=> i \in 1 .. n /\ NameOf(i) = name
    BY Zenon DEF Named
  <1> HIDE DEF n, fits
  <1>6. fits \subseteq Named(name) /\ fits \subseteq 1 .. n
    BY <1>3, <1>4, <1>5
  <1>7. ASSUME fits # {}
        PROVE  best \in fits /\ First(best, fits, Ranks)
    <2>1. \E i \in fits : First(i, fits, Ranks)
      BY <1>2, <1>6, <1>7, FirstOfAll
    <2>2. \A i \in fits : RankAt(file, EntryAt(1, i)) = Ranks[i]
      BY <1>k, <1>3, <1>4, Zenon
    <2> DEFINE P(i) == \A j \in fits :
                  \/ RankAt(file, EntryAt(1, j)) < RankAt(file, EntryAt(1, i))
                  \/ (RankAt(file, EntryAt(1, j)) = RankAt(file, EntryAt(1, i)) /\ i <= j)
    <2>3. \A i \in fits : P(i) <=> First(i, fits, Ranks)
      BY <2>2, Zenon DEF First
    <2>4. best = CHOOSE i \in fits : P(i)
      BY Zenon DEF BestOf
    <2> HIDE DEF P, best
    <2> QED BY <2>1, <2>3, <2>4
  <1> HIDE DEF best
  <1>8. ASSUME ~(lost \/ fits = {})
        PROVE  /\ best \in fits /\ First(best, fits, Ranks) /\ OfRecord(file, PlaceFor(file, name), best)
               /\ ~PlaceFor(file, name).absent
               /\ Finished(file) => (~Outlined(PlaceFor(file, name)) => Lines(best) = {})
    <2>1. fits # {}
      BY <1>8
    <2>2. best \in fits /\ First(best, fits, Ranks)
      BY <1>7, <2>1
    <2>3. PlaceFor(file, name) = EntryOf(file, PlaceKey(best))
      BY <1>1, <1>8
    <2>4. best \in 1 .. Len(ValidPlaces) /\ KindAt(file, PlaceKey(best), "place")
      BY <1>4, <2>2 DEF n
    <2>5. ~EntryOf(file, PlaceKey(best)).absent
      BY DEF EntryOf
    <2> QED BY <2>2, <2>3, <2>4, <2>5, EntryOfRecord
  <1>9. ASSUME lost \/ fits = {}
        PROVE  ~PlaceFor(file, name).found /\ (~lost => PlaceFor(file, name).absent)
    <2> HIDE DEF lost
    <2>1. CASE lost
      <3>1. PlaceFor(file, name) = [found |-> FALSE, absent |-> FALSE]
        BY <1>1, <2>1
      <3> QED BY <2>1, <3>1
    <2>2. CASE ~lost
      <3>1. PlaceFor(file, name) = [found |-> FALSE, absent |-> TRUE]
        BY <1>1, <1>9, <2>2
      <3> QED BY <3>1
    <2> QED BY <2>1, <2>2
  <1>10. ASSUME Finished(file) PROVE ~lost /\ fits = Named(name)
    <2>1. \A i \in 1 .. n : KindAt(file, PlaceKey(i), "place") /\ Readable(file, PlaceKey(i) + 1)
      BY <1>10, PlaceEntryRead DEF n
    <2>2. ~lost
      BY <1>3, <2>1
    <2> HIDE DEF lost
    <2>3. fits = Named(name)
      BY <1>3, <1>4, <1>5, <2>1
    <2> QED BY <2>2, <2>3
  <1> HIDE DEF lost
  <1> QED BY <1>6, <1>8, <1>9, <1>10

-----------------------------------------------------------------------------
(***************************************************************************)
(* Boxes of points, and around them.                                       *)
(***************************************************************************)
Around(outer, inner) ==
    /\ outer.west <= inner.west /\ inner.east <= outer.east
    /\ outer.south <= inner.south /\ inner.north <= outer.north

LEMMA BoxAroundPoints ==
    ASSUME NEW P \in SUBSET Points, P # {}
    PROVE  /\ BoxOf(P) \in Box /\ Around(World, BoxOf(P))
           /\ \A p \in P : Inside(p, BoxOf(P)) /\ p[1] \in 0 .. Span /\ p[2] \in 0 .. Span
           /\ BoxOf(P).west \in 0 .. Span /\ BoxOf(P).east \in 0 .. Span
           /\ BoxOf(P).south \in 0 .. Span /\ BoxOf(P).north \in 0 .. Span
  <1> DEFINE A == {p[1] : p \in P}
             B == {p[2] : p \in P}
             b == BoxOf(P)
  <1>1. A \in SUBSET (0 .. Span) /\ A # {} /\ B \in SUBSET (0 .. Span) /\ B # {} /\ Span \in Nat
    BY MapTilesAssumption DEF Points, MapTilesAssumption
  <1>2. b = [west |-> LeastOf(A), east |-> MostOf(A), south |-> LeastOf(B), north |-> MostOf(B)]
    BY Zenon DEF BoxOf
  <1>3. \A p \in P : p[1] \in A /\ p[2] \in B
    OBVIOUS
  <1>4. b \in Box
    BY BoxOfPoints
  <1> HIDE DEF A, B, b
  <1>5. /\ LeastOf(A) \in 0 .. Span /\ MostOf(A) \in 0 .. Span
        /\ \A y \in A : LeastOf(A) <= y /\ y <= MostOf(A)
    BY <1>1, LeastAndMost
  <1>6. /\ LeastOf(B) \in 0 .. Span /\ MostOf(B) \in 0 .. Span
        /\ \A y \in B : LeastOf(B) <= y /\ y <= MostOf(B)
    BY <1>1, LeastAndMost
  <1>7. b.west = LeastOf(A) /\ b.east = MostOf(A) /\ b.south = LeastOf(B) /\ b.north = MostOf(B)
    BY <1>2
  <1>8. \A p \in P : Inside(p, b) /\ p[1] \in 0 .. Span /\ p[2] \in 0 .. Span
    <2> SUFFICES ASSUME NEW p \in P PROVE Inside(p, b) /\ p[1] \in 0 .. Span /\ p[2] \in 0 .. Span
      OBVIOUS
    <2>1. p[1] \in 0 .. Span /\ p[2] \in 0 .. Span
      BY <1>1, <1>3
    <2>2. LeastOf(A) <= p[1] /\ p[1] <= MostOf(A) /\ LeastOf(B) <= p[2] /\ p[2] <= MostOf(B)
      BY <1>3, <1>5, <1>6
    <2> QED BY <1>5, <1>6, <1>7, <2>1, <2>2 DEF Inside
  <1>9. Around(World, b)
    BY <1>1, <1>5, <1>6, <1>7 DEF Around, World
  <1> QED BY <1>4, <1>5, <1>6, <1>7, <1>8, <1>9 DEF b

LEMMA AroundMore ==
    ASSUME NEW P, NEW Q \in SUBSET Points, P \subseteq Q, P # {}
    PROVE  Around(BoxOf(Q), BoxOf(P))
  <1> DEFINE A == {p[1] : p \in P}
             B == {p[2] : p \in P}
             C == {p[1] : p \in Q}
             D == {p[2] : p \in Q}
             b == BoxOf(P)
             c == BoxOf(Q)
  <1>1. /\ A \in SUBSET (0 .. Span) /\ A # {} /\ B \in SUBSET (0 .. Span) /\ B # {} /\ Span \in Nat
        /\ C \in SUBSET (0 .. Span) /\ C # {} /\ D \in SUBSET (0 .. Span) /\ D # {}
        /\ A \subseteq C /\ B \subseteq D
    BY MapTilesAssumption DEF Points, MapTilesAssumption
  <1>2. /\ b = [west |-> LeastOf(A), east |-> MostOf(A), south |-> LeastOf(B), north |-> MostOf(B)]
        /\ c = [west |-> LeastOf(C), east |-> MostOf(C), south |-> LeastOf(D), north |-> MostOf(D)]
    BY Zenon DEF BoxOf
  <1> HIDE DEF A, B, C, D, b, c
  <1>3. /\ LeastOf(A) \in A /\ MostOf(A) \in A /\ LeastOf(B) \in B /\ MostOf(B) \in B
    BY <1>1, LeastAndMost
  <1>4. \A y \in C : LeastOf(C) <= y /\ y <= MostOf(C)
    BY <1>1, LeastAndMost
  <1>5. \A y \in D : LeastOf(D) <= y /\ y <= MostOf(D)
    BY <1>1, LeastAndMost
  <1>6. Around(c, b)
    BY <1>1, <1>2, <1>3, <1>4, <1>5 DEF Around
  <1> QED BY <1>6 DEF b, c

LEMMA AroundAll ==
    ASSUME NEW a \in Box, NEW b \in Box, NEW c \in Box, Around(a, b), Around(b, c)
    PROVE  Around(a, c) /\ Meets(c, a) /\ Meets(b, a)
  BY DEF Around, Box, Meets

LEMMA InsideAround ==
    ASSUME NEW a \in Box, NEW b \in Box, Around(a, b), NEW p, Inside(p, b)
    PROVE  Inside(p, a)
  BY DEF Around, Box, Inside

\* Padding only widens a box.
LEMMA PaddedBox ==
    ASSUME NEW b \in Box
    PROVE  Padded(b) \in Box /\ Around(Padded(b), b)
  <1> DEFINE pad(low, high) == MostOf({(high - low) \div 10, PadLeast})
  <1>1. ASSUME NEW low \in Int, NEW high \in Int, low <= high PROVE pad(low, high) \in Nat
    <2> DEFINE x == (high - low) \div 10
               n == x + PadLeast
               T == {x, PadLeast}
    <2>1. PadLeast \in Nat
      BY MapRenderAssumption DEF MapRenderAssumption
    <2>2. x \in Nat
      <3>1. high - low \in Nat
        BY <1>1
      <3>2. \A y \in Nat : y \div 10 \in Nat
        OBVIOUS
      <3> QED BY <3>1, <3>2
    <2> HIDE DEF x
    <2>3. n \in Nat /\ T \in SUBSET (0 .. n) /\ T # {} /\ T \in SUBSET Nat
      BY <2>1, <2>2
    <2> HIDE DEF n, T
    <2>4. MostOf(T) \in T
      BY <2>3, LeastAndMost
    <2>5. MostOf(T) \in Nat
      BY <2>3, <2>4
    <2> QED BY <2>5 DEF x, T
  <1>2. /\ b.west \in Int /\ b.east \in Int /\ b.south \in Int /\ b.north \in Int
        /\ b.west <= b.east /\ b.south <= b.north
    BY DEF Box
  <1>3. pad(b.west, b.east) \in Nat /\ pad(b.south, b.north) \in Nat
    <2> HIDE DEF pad
    <2> QED BY <1>1, <1>2
  <1>4. Padded(b) = [west |-> b.west - pad(b.west, b.east), east |-> b.east + pad(b.west, b.east),
                     south |-> b.south - pad(b.south, b.north), north |-> b.north + pad(b.south, b.north)]
    BY Zenon DEF Padded
  <1> HIDE DEF pad
  <1> DEFINE x == pad(b.west, b.east)
             y == pad(b.south, b.north)
             c == Padded(b)
  <1>5. x \in Nat /\ y \in Nat
    BY <1>3
  <1>6. /\ c \in [west : Int, east : Int, south : Int, north : Int]
        /\ c.west = b.west - x /\ c.east = b.east + x /\ c.south = b.south - y /\ c.north = b.north + y
    <2>1. c = [west |-> b.west - x, east |-> b.east + x, south |-> b.south - y, north |-> b.north + y]
      BY <1>4
    <2> HIDE DEF c, x, y
    <2> QED BY <1>2, <1>5, <2>1
  <1> HIDE DEF c, x, y
  <1>7. c \in Box /\ Around(c, b)
    BY <1>2, <1>5, <1>6 DEF Box, Around
  <1> QED BY <1>7 DEF c

\* The box of several boxes.
LEMMA TogetherAround ==
    ASSUME NEW boxes, boxes # {},
           \A b \in boxes : /\ b.west \in 0 .. Span /\ b.east \in 0 .. Span
                            /\ b.south \in 0 .. Span /\ b.north \in 0 .. Span
    PROVE  Together(boxes) \in Box /\ \A b \in boxes : Around(Together(boxes), b)
  <1> DEFINE P == UNION {{<<b.west, b.south>>, <<b.east, b.north>>} : b \in boxes}
             t == BoxOf(P)
  <1>1. P \in SUBSET Points /\ P # {}
    <2>1. ASSUME NEW b \in boxes PROVE <<b.west, b.south>> \in Points /\ <<b.east, b.north>> \in Points
      BY DEF Points
    <2>2. PICK b \in boxes : TRUE
      OBVIOUS
    <2>3. <<b.west, b.south>> \in P
      BY <2>2
    <2> QED BY <2>1, <2>3
  <1>2. Together(boxes) = t
    BY Zenon DEF Together
  <1>3. \A b \in boxes : <<b.west, b.south>> \in P /\ <<b.east, b.north>> \in P
    OBVIOUS
  <1> HIDE DEF P
  <1>4. t \in Box /\ \A p \in P : Inside(p, t)
    BY <1>1, BoxAroundPoints
  <1> HIDE DEF t
  <1>5. ASSUME NEW b \in boxes PROVE Around(t, b)
    <2>1. Inside(<<b.west, b.south>>, t) /\ Inside(<<b.east, b.north>>, t)
      BY <1>3, <1>4
    <2> QED BY <2>1 DEF Inside, Around
  <1> QED BY <1>2, <1>4, <1>5

\* The nodes of a source are in the world, and so is what is drawn of it.
LEMMA NodesInWorld ==
    ASSUME Gathered
    PROVE  \A id \in DOMAIN SourceNodes : SourceNodes[id] \in Points
  <1>1. source \in Sources
    BY DEF Gathered, MapTypes
  <1>2. SourceShape(source)
    BY <1>1, MapPackAssumption DEF MapPackAssumption
  <1>3. \A b \in ToSet(source.nodes) : \A id \in DOMAIN b : b[id] \in Points
    BY <1>2 DEF SourceShape, ToSet, Points
  <1> SUFFICES ASSUME NEW id \in DOMAIN SourceNodes PROVE SourceNodes[id] \in Points
    OBVIOUS
  <1>4. DOMAIN SourceNodes = UNION {DOMAIN b : b \in ToSet(source.nodes)}
    BY DEF SourceNodes
  <1> DEFINE chosen == CHOOSE c \in ToSet(source.nodes) : id \in DOMAIN c
  <1>5. chosen \in ToSet(source.nodes) /\ id \in DOMAIN chosen
    BY <1>4, Zenon
  <1>6. SourceNodes[id] = chosen[id]
    BY <1>4, Zenon DEF SourceNodes
  <1> HIDE DEF chosen
  <1> QED BY <1>3, <1>5, <1>6

LEMMA WaysInWorld ==
    ASSUME Gathered, NEW way \in SourceWays
    PROVE  ToSet(Shape(way)) \in SUBSET Points /\ ToSet(Shape(way)) # {}
  <1>1. way \in FileWaySet /\ Len(way.refs) >= 2 /\ AllThere(way)
    BY DEF SourceWays
  <1>2. way.refs \in Seq(Ids) /\ DOMAIN way.refs = 1 .. Len(way.refs) /\ Len(way.refs) \in Nat
    BY <1>1, WaysHaveIds, WayTypes
  <1> DEFINE n == Len(way.refs)
             s == Shape(way)
  <1>3. s = [k \in 1 .. n |-> SourceNodes[way.refs[k]]]
    BY <1>2 DEF Shape
  <1>4. \A k \in 1 .. n : SourceNodes[way.refs[k]] \in Points
    <2>1. \A k \in 1 .. n : way.refs[k] \in DOMAIN SourceNodes
      BY <1>1, <1>2 DEF AllThere, ToSet
    <2> QED BY <2>1, NodesInWorld
  <1>5. 1 \in 1 .. n
    BY <1>1, <1>2
  <1> HIDE DEF n, s
  <1>6. ToSet(s) = {SourceNodes[way.refs[k]] : k \in 1 .. n}
    BY <1>3 DEF ToSet
  <1>7. ToSet(s) \in SUBSET Points /\ ToSet(s) # {}
    BY <1>4, <1>5, <1>6
  <1> QED BY <1>7 DEF s

-----------------------------------------------------------------------------
(***************************************************************************)
(* What rpack-render --city shows.                                         *)
(***************************************************************************)
ScanOf(file, place) == FeaturesFrom(file, place.at + 1, place.n)
SpreadOf(file, place) ==
    IF Outlined(place) /\ place.n >= 2 THEN Viewports(ScanOf(file, place).seen) ELSE [exclaves |-> FALSE]
MainOf(place, spread) == Padded(IF spread.exclaves THEN spread.main ELSE place.box)
CityFrom(file, place, spread) ==
    CityInView(file, place, ScanOf(file, place), spread.exclaves, MainOf(place, spread), Padded(spread.inset))

LEMMA CityIsFrom ==
    ASSUME NEW file, NEW name
    PROVE  CityNamed(file, name) = CityFrom(file, PlaceFor(file, name), SpreadOf(file, PlaceFor(file, name)))
  BY Zenon DEF CityNamed, CityAt, CityScanned, CityParts, CityFrom, ScanOf, SpreadOf, MainOf

CityRefused(file, place, spread) ==
    \/ ~HasHeader(file)
    \/ ~place.found
    \/ Outlined(place) /\ (CountAt(file, place.at) # place.n \/ ScanOf(file, place).bad)
    \/ RenderBox(file, MainOf(place, spread)).refused
    \/ spread.exclaves /\ RenderBox(file, Padded(spread.inset)).refused
OutlineShown(file, place, box) == IF Outlined(place) THEN Seen(ScanOf(file, place), box) ELSE {}

LEMMA CityFields ==
    ASSUME NEW file, NEW place, NEW spread
    PROVE  /\ CityRefused(file, place, spread) =>
                 CityFrom(file, place, spread) = Refused /\ CityFrom(file, place, spread).refused
           /\ ~CityRefused(file, place, spread) =>
                 /\ ~CityFrom(file, place, spread).refused
                 /\ CityFrom(file, place, spread).features = RenderBox(file, MainOf(place, spread)).features
                 /\ CityFrom(file, place, spread).view = MainOf(place, spread)
                 /\ CityFrom(file, place, spread).outline = OutlineShown(file, place, MainOf(place, spread))
                 /\ CityFrom(file, place, spread).exclaves = spread.exclaves
                 /\ spread.exclaves => CityFrom(file, place, spread).inset = Padded(spread.inset)
  <1> DEFINE view == MainOf(place, spread)
             inset == Padded(spread.inset)
             city == CityFrom(file, place, spread)
             shown == [refused |-> FALSE, features |-> RenderBox(file, view).features,
                       view |-> view, outline |-> OutlineShown(file, place, view), exclaves |-> spread.exclaves,
                       inset |-> IF spread.exclaves THEN inset ELSE view,
                       insetOutline |-> IF spread.exclaves THEN OutlineShown(file, place, inset) ELSE {}]
  <1>1. city = IF CityRefused(file, place, spread) THEN Refused ELSE shown
    BY Zenon DEF CityFrom, CityInView, CityRefused, OutlineShown
  <1>2. Refused.refused
    BY DEF Refused
  <1>3. /\ ~shown.refused /\ shown.features = RenderBox(file, view).features /\ shown.view = view
        /\ shown.outline = OutlineShown(file, place, view) /\ shown.exclaves = spread.exclaves
        /\ spread.exclaves => shown.inset = inset
    OBVIOUS
  <1> HIDE DEF city, shown, view, inset
  <1>4. CityRefused(file, place, spread) => city = Refused /\ city.refused
    BY <1>1, <1>2
  <1>5. ~CityRefused(file, place, spread) => city = shown
    BY <1>1
  <1> QED BY <1>3, <1>4, <1>5 DEF city, view, inset

\* A record of a name stands for a candidate of the source.
LEMMA CandidateOfRecord ==
    ASSUME Gathered, NEW h, RecordedBy(h), NEW name, NEW i \in Named(name)
    PROVE  /\ h[i] \in Candidates(name) /\ Lines(i) = Outline(source.relations[h[i]])
           /\ PlacePoints(ValidPlaces[i]) = Extent(source.relations[h[i]])
           /\ Ranks[i] = Rank(source.relations[h[i]])
  <1> DEFINE k == h[i]
             r == source.relations[k]
             p == ValidPlaces[i]
  <1>1. i \in 1 .. Len(ValidPlaces) /\ NameOf(i) = name
    BY DEF Named
  <1>2. k \in 1 .. Len(source.relations) /\ Grown(r) /\ Recorded(p, r)
    BY <1>1, Zenon DEF RecordedBy
  <1>3. DOMAIN source.relations = 1 .. Len(source.relations) /\ r \in ToSet(source.relations)
    <2>1. IsList(source.relations)
      <3>1. source \in Sources
        BY DEF Gathered, MapTypes
      <3> QED BY <3>1, MapPackAssumption DEF MapPackAssumption, SourceShape
    <2>2. DOMAIN source.relations = 1 .. Len(source.relations)
      BY <2>1, ListFacts, Zenon
    <2> HIDE DEF k
    <2> QED BY <1>2, <2>2 DEF ToSet
  <1>4. p \in ToSet(places.list) /\ MemberWays(p) = r.ways /\ p.rank = Rank(r) /\ r.name = name
    <2>1. p \in ToSet(places.list)
      BY <1>1, UsedLists, Zenon
    <2> QED BY <1>1, <1>2, <2>1, Zenon DEF Recorded, NameOf
  <1>5. Ranks[i] = p.rank
    BY <1>1 DEF Ranks
  <1>6. PlacePoints(p) = Extent(r)
    <2> HIDE DEF p, r
    <2> QED BY <1>3, <1>4, PlacePointsOfRelation
  <1>7. Lines(i) = Outline(r)
    <2>1. Lines(i) = {DrawnAs(w, "boundary", "line") : w \in ToSet(OutlineWays(p))}
      BY Zenon DEF Lines
    <2> HIDE DEF p, r
    <2> QED BY <1>3, <1>4, <2>1, OutlineOfRelation
  <1>8. k \in Candidates(name)
    <2>1. k \in DOMAIN source.relations /\ r.place /\ r.name = name /\ Extent(r) # {} /\ HasArea(BoxOf(Extent(r)))
      BY <1>2, <1>3, <1>4 DEF Grown
    <2> QED BY <2>1, Zenon DEF Candidates
  <1> QED BY <1>4, <1>5, <1>6, <1>7, <1>8

\* And every candidate has a record.
LEMMA RecordOfCandidate ==
    ASSUME Gathered, NEW h, RecordedBy(h), NEW name, NEW k \in Candidates(name)
    PROVE  \E i \in Named(name) : h[i] = k
  <1>1. k \in DOMAIN source.relations /\ Grown(source.relations[k]) /\ source.relations[k].name = name
    BY Zenon DEF Candidates, Grown
  <1>2. DOMAIN source.relations = 1 .. Len(source.relations)
    <2>1. IsList(source.relations)
      <3>1. source \in Sources
        BY DEF Gathered, MapTypes
      <3> QED BY <3>1, MapPackAssumption DEF MapPackAssumption, SourceShape
    <2> QED BY <2>1, ListFacts, Zenon
  <1>3. PICK i \in 1 .. Len(ValidPlaces) : h[i] = k
    BY <1>1, <1>2, Zenon DEF RecordedBy
  <1>4. NameOf(i) = name
    BY <1>1, <1>3, Zenon DEF RecordedBy, Recorded, NameOf
  <1> QED BY <1>3, <1>4 DEF Named

\* What a city shows is in the source, however far the file was written.
LEMMA NamedInSource ==
    ASSUME Gathered, NEW file, Faithful(file), NEW name, ~CityNamed(file, name).refused
    PROVE  /\ CityNamed(file, name).features \subseteq Visible(CityNamed(file, name).view)
           /\ \E i \in Candidates(name) : CityNamed(file, name).outline \subseteq Outline(source.relations[i])
  <1> DEFINE place == PlaceFor(file, name)
             spread == SpreadOf(file, place)
             city == CityNamed(file, name)
             view == MainOf(place, spread)
  <1>1. city = CityFrom(file, place, spread)
    BY CityIsFrom
  <1>2. /\ ~CityRefused(file, place, spread) /\ city.features = RenderBox(file, view).features
        /\ city.view = view /\ city.outline = OutlineShown(file, place, view)
    <2>1. ~city.refused
      OBVIOUS
    <2> HIDE DEF place, spread, city
    <2> QED BY <1>1, <2>1, CityFields, Zenon
  <1>3. city.features \subseteq Visible(view)
    <2> HIDE DEF view
    <2>1. RenderBox(file, view).features \subseteq {f \in On(Cover(view, source.halo)) : Meets(f.box, view)}
      BY BoxRead
    <2>2. {f \in On(Cover(view, source.halo)) : Meets(f.box, view)} \subseteq Visible(view)
      BY TilesShow
    <2> QED BY <1>2, <2>1, <2>2
  <1>4. PICK i \in Named(name) : OfRecord(file, place, i)
    <2>1. place.found
      BY <1>2, Zenon DEF CityRefused
    <2> QED BY <2>1, PlaceRead
  <1>5. PICK h : RecordedBy(h)
    BY PlacesInOrder
  <1>6. city.outline \subseteq Lines(i)
    <2>1. CASE Outlined(place)
      <3>1. ToSet(ScanOf(file, place).seen) = Lines(i)
        BY <1>4, <2>1, Zenon DEF OfRecord, Reads, ScanOf
      <3>2. Seen(ScanOf(file, place), view) = {f \in ToSet(ScanOf(file, place).seen) : Meets(f.box, view)}
        BY SeenIn, Zenon
      <3>3. city.outline = Seen(ScanOf(file, place), view)
        BY <1>2, <2>1, Zenon DEF OutlineShown
      <3> HIDE DEF place, city, view
      <3> QED BY <3>1, <3>2, <3>3
    <2>2. CASE ~Outlined(place)
      <3>1. city.outline = {}
        BY <1>2, <2>2, Zenon DEF OutlineShown
      <3> HIDE DEF city
      <3> QED BY <3>1
    <2> QED BY <2>1, <2>2
  <1>7. h[i] \in Candidates(name) /\ Lines(i) = Outline(source.relations[h[i]])
    BY <1>5, CandidateOfRecord
  <1> HIDE DEF city, view
  <1> QED BY <1>2, <1>3, <1>6, <1>7 DEF city

LEMMA PresetFields ==
    ASSUME NEW file, NEW box
    PROVE  /\ RenderPreset(file, box).refused <=> RenderBox(file, box).refused
           /\ ~RenderPreset(file, box).refused =>
                 /\ RenderPreset(file, box).features = RenderBox(file, box).features
                 /\ RenderPreset(file, box).view = box /\ RenderPreset(file, box).outline = {}
                 /\ ~RenderPreset(file, box).exclaves
  BY DEF RenderPreset, Refused

CityShows(city, name) ==
    /\ city.features \subseteq Visible(city.view)
    /\ \/ name \in DOMAIN Presets /\ city.view = Presets[name] /\ city.outline = {}
       \/ \E i \in Candidates(name) : city.outline \subseteq Outline(source.relations[i])

LEMMA CityInSource ==
    ASSUME Gathered, NEW file, Faithful(file), NEW name, ~RenderCity(file, name).refused
    PROVE  CityShows(RenderCity(file, name), name)
  <1> DEFINE preset == HasHeader(file) /\ PlaceFor(file, name).absent /\ name \in DOMAIN Presets
  <1>1. CASE preset
    <2> DEFINE box == Presets[name]
               city == RenderPreset(file, box)
    <2>1. RenderCity(file, name) = city
      BY <1>1, Zenon DEF RenderCity
    <2>2. city.features = RenderBox(file, box).features /\ city.view = box /\ city.outline = {}
      BY <2>1, PresetFields
    <2> HIDE DEF box, city
    <2>3. RenderBox(file, box).features \subseteq {f \in On(Cover(box, source.halo)) : Meets(f.box, box)}
      BY BoxRead
    <2>4. {f \in On(Cover(box, source.halo)) : Meets(f.box, box)} \subseteq Visible(box)
      BY TilesShow
    <2>5. city.features \subseteq Visible(city.view)
      BY <2>2, <2>3, <2>4
    <2> QED BY <1>1, <2>1, <2>2, <2>5, Zenon DEF CityShows, box
  <1>2. CASE ~preset
    <2>1. RenderCity(file, name) = CityNamed(file, name)
      BY <1>2, Zenon DEF RenderCity
    <2>2. ~CityNamed(file, name).refused
      BY <2>1, Zenon
    <2> QED BY <2>1, <2>2, NamedInSource, Zenon DEF CityShows
  <1> QED BY <1>1, <1>2

\* The features of a tile are those of the source whose box is on it.
LEMMA OnTileOfSource ==
    ASSUME Gathered, NEW tile
    PROVE  OnTile(tile) = {f \in Visible(World) : tile \in Cover(f.box, 0)}
  <1>1. \A x : x \in Visible(World) <=>
            \E way \in SourceWays : /\ way.style # NoStyle /\ x = Drawn(way, way.style, FlagOf(way))
                                    /\ Meets(x.box, World)
    BY DEF Visible
  <1>2. \A x : x \in OnTile(tile) <=> \E f \in ToSet(pack.features) : tile \in TilesOf(f) /\ x = Placed(f)
    BY DEF OnTile
  <1>3. \A f : TilesOf(f) = IF Complete(f) THEN Cover(Placed(f).box, 0) ELSE {}
    BY DEF TilesOf, Placed
  <1>4. ASSUME NEW way \in SourceWays, NEW style, NEW flag PROVE Meets(Drawn(way, style, flag).box, World)
    <2> DEFINE P == ToSet(Shape(way))
    <2>1. P \in SUBSET Points /\ P # {}
      BY WaysInWorld
    <2>2. Drawn(way, style, flag).box = BoxOf(P)
      BY DEF Drawn
    <2> HIDE DEF P
    <2>3. BoxOf(P) \in Box /\ Around(World, BoxOf(P))
      BY <2>1, BoxAroundPoints
    <2>4. World \in Box
      BY MapTilesAssumption DEF World, Box, MapTilesAssumption
    <2>5. Meets(BoxOf(P), World)
      BY <2>3, <2>4 DEF Around, Box, Meets
    <2> QED BY <2>2, <2>5
  <1>5. ASSUME NEW x \in OnTile(tile) PROVE x \in Visible(World) /\ tile \in Cover(x.box, 0)
    <2>1. PICK f \in ToSet(pack.features) : tile \in TilesOf(f) /\ x = Placed(f)
      BY <1>2
    <2>2. Complete(f) /\ tile \in Cover(x.box, 0)
      BY <1>3, <2>1
    <2>3. PICK way \in SourceWays : way.style # NoStyle /\ Placed(f) = Drawn(way, way.style, FlagOf(way))
      BY <2>2, FeaturesOfTheSource, Zenon
    <2>4. Meets(x.box, World)
      BY <1>4, <2>1, <2>3
    <2> QED BY <1>1, <2>1, <2>2, <2>3, <2>4, Zenon
  <1>6. ASSUME NEW x \in Visible(World), tile \in Cover(x.box, 0) PROVE x \in OnTile(tile)
    <2>1. PICK way \in SourceWays : way.style # NoStyle /\ x = Drawn(way, way.style, FlagOf(way))
      BY <1>1, Zenon
    <2>2. PICK f \in ToSet(pack.features) : Complete(f) /\ Placed(f) = Drawn(way, way.style, FlagOf(way))
      BY <2>1, FeaturesOfTheSource, Zenon
    <2>3. x = Placed(f) /\ tile \in TilesOf(f)
      BY <1>3, <1>6, <2>1, <2>2
    <2> QED BY <1>2, <2>3
  <1> QED BY <1>5, <1>6

LEMMA PairOf ==
    ASSUME NEW A, NEW B, NEW t \in A \X B
    PROVE  t = <<t[1], t[2]>>
  OBVIOUS

\* A tile record that reached the file leads to the payload of its tile.
LEMMA TileLeads ==
    ASSUME Gathered, NEW file, Faithful(file), NEW i \in 1 .. Header(file).tiles,
           KindAt(file, EntryAt(Header(file).tileAt, i) + 1, "place of tile")
    PROVE  Reads(file, UnitAt(file, EntryAt(Header(file).tileAt, i) + 1).at,
                 UnitAt(file, EntryAt(Header(file).tileAt, i)).n,
                 OnTile(<<UnitAt(file, EntryAt(Header(file).tileAt, i)).x,
                          UnitAt(file, EntryAt(Header(file).tileAt, i)).y>>))
  <1> DEFINE n == Len(UsedTiles)
             key == TileKey(i)
  <1>1. Header(file).tileAt = TileAt /\ Header(file).tiles = n
    <2>1. /\ FirstHeader.tileAt = TileAt /\ FirstHeader.tiles = n
          /\ LastHeader.tileAt = TileAt /\ LastHeader.tiles = n
      BY DEF LastHeader, FirstHeader
    <2>2. Header(file) = FirstHeader \/ Header(file) = LastHeader
      BY DEF Faithful, Header
    <2> QED BY <2>1, <2>2, Zenon
  <1>2. EntryAt(Header(file).tileAt, i) = key
    BY <1>1 DEF EntryAt, TileKey
  <1>3. i \in 1 .. n /\ KindAt(file, key + 1, "place of tile")
    BY <1>1, <1>2
  <1>4. /\ UnitAt(file, key) = TileUnit(i) /\ UnitAt(file, key + 1) = PayloadUnit(i)
        /\ Has(file, PayloadAt, Contents)
    BY <1>3, TileEntryRead
  <1>5. Reads(file, PayloadUnit(i).at, TileUnit(i).n, OnTile(UsedTiles[i]))
    BY <1>3, <1>4, TileRead
  <1>6. <<TileUnit(i).x, TileUnit(i).y>> = UsedTiles[i]
    <2>1. UsedTiles[i] \in (0 .. Axis - 1) \X (0 .. Axis - 1)
      <3>1. UsedTiles[i] \in ToSet(UsedTiles)
        BY <1>3, TilesUsed DEF ToSet
      <3>2. \A f : TilesOf(f) \subseteq (0 .. Axis - 1) \X (0 .. Axis - 1)
        BY DEF TilesOf, Cover
      <3>3. ToSet(UsedTiles) = UNION {TilesOf(f) : f \in ToSet(pack.features)}
        BY TilesUsed
      <3> QED BY <3>1, <3>2, <3>3
    <2>2. TileUnit(i).x = UsedTiles[i][1] /\ TileUnit(i).y = UsedTiles[i][2]
      BY DEF TileUnit
    <2>3. UsedTiles[i] = <<UsedTiles[i][1], UsedTiles[i][2]>>
      BY <2>1, PairOf, Zenon
    <2> QED BY <2>2, <2>3, Zenon
  <1> HIDE DEF key
  <1> QED BY <1>2, <1>4, <1>5, <1>6, Zenon

(* For every source and every grid, and however early pbf-to-rpack stops:  *)
(* a tile record in the file it leaves leads to all that the source has on *)
(* that tile, and what rpack-render shows of the file, in a box, in the    *)
(* preset box of a name or of a city, is in the source.                    *)
THEOREM NoFileLies == Spec => []InterruptedNeverLies
  <1>1. WrittenInv => InterruptedNeverLies
    <2> SUFFICES ASSUME WrittenInv, HasHeader(image) PROVE InterruptedNeverLies
      BY DEF InterruptedNeverLies
    <2>1. Gathered /\ Faithful(image)
      BY FileIsFaithful
    <2>2. ASSUME NEW i \in 1 .. Header(image).tiles
          PROVE  LET key == Header(image).tileAt + 2 * (i - 1)
                 IN KindAt(image, key + 1, "place of tile") =>
                     LET tile == <<UnitAt(image, key).x, UnitAt(image, key).y>>
                         at == UnitAt(image, key + 1).at
                         scan == FeaturesFrom(image, at + 1, UnitAt(image, key).n)
                     IN /\ CountAt(image, at) = UnitAt(image, key).n
                        /\ ~scan.bad
                        /\ ToSet(scan.seen) = {f \in Visible(World) : tile \in Cover(f.box, 0)}
      <3> DEFINE key == EntryAt(Header(image).tileAt, i)
                 tile == <<UnitAt(image, key).x, UnitAt(image, key).y>>
                 at == UnitAt(image, key + 1).at
                 n == UnitAt(image, key).n
                 drawn == {f \in Visible(World) : tile \in Cover(f.box, 0)}
      <3>1. ASSUME KindAt(image, key + 1, "place of tile")
            PROVE  Reads(image, at, n, drawn)
        <4>1. Reads(image, at, n, OnTile(tile))
          BY <2>1, <3>1, TileLeads
        <4>2. OnTile(tile) = drawn
          BY <2>1, OnTileOfSource, Zenon
        <4> QED BY <4>1, <4>2, Zenon
      <3>2. KindAt(image, key + 1, "place of tile") =>
                /\ CountAt(image, at) = n /\ ~FeaturesFrom(image, at + 1, n).bad
                /\ ToSet(FeaturesFrom(image, at + 1, n).seen) = drawn
        BY <3>1, Zenon DEF Reads
      <3> QED BY <3>2, Zenon DEF EntryAt
    <2>3. ASSUME NEW box \in Boxes PROVE RenderBox(image, box).features \subseteq Visible(box)
      <3>1. RenderBox(image, box).features \subseteq {f \in On(Cover(box, source.halo)) : Meets(f.box, box)}
        BY <2>1, BoxRead
      <3>2. {f \in On(Cover(box, source.halo)) : Meets(f.box, box)} \subseteq Visible(box)
        BY <2>1, TilesShow
      <3> QED BY <3>1, <3>2
    <2>4. ASSUME NEW name \in Names, ~RenderCity(image, name).refused
          PROVE  CityShows(RenderCity(image, name), name)
      BY <2>1, <2>4, CityInSource
    <2> QED BY <2>2, <2>3, <2>4, Zenon DEF InterruptedNeverLies, CityShows
  <1> QED BY <1>1, FileInvariant, PTL

-----------------------------------------------------------------------------
(***************************************************************************)
(* The components of an outline: compute_v2_boundary_viewports.            *)
(***************************************************************************)
\* Lines of an outline: each has points, all in the world.
Line(f) == IsList(f.points) /\ Len(f.points) \in Nat /\ ToSet(f.points) \in SUBSET Points /\ ToSet(f.points) # {}
Drawing(ways) == IsList(ways) /\ Len(ways) \in Nat /\ Len(ways) >= 1 /\ \A i \in 1 .. Len(ways) : Line(ways[i])

\* No pair that had one root loses it.
Coarser(new, root, n) == \A a, b \in 1 .. n : root[a] = root[b] => new[a] = new[b]

LEMMA JoinedKeeps ==
    ASSUME NEW ways, NEW n \in Nat, NEW root \in [1 .. n -> 1 .. n], NEW i \in 1 .. n, NEW j \in 1 .. n
    PROVE  /\ Joined(ways, root, i, j) \in [1 .. n -> 1 .. n]
           /\ Coarser(Joined(ways, root, i, j), root, n)
           /\ Touching(ways[i], ways[j]) => Joined(ways, root, i, j)[i] = Joined(ways, root, i, j)[j]
  <1> DEFINE new == [k \in DOMAIN root |-> IF root[k] = root[j] THEN root[i] ELSE root[k]]
             res == Joined(ways, root, i, j)
  <1>1. res = IF root[i] # root[j] /\ Touching(ways[i], ways[j]) THEN new ELSE root
    BY Zenon DEF Joined
  <1>2. new \in [1 .. n -> 1 .. n] /\ \A k \in 1 .. n : new[k] = IF root[k] = root[j] THEN root[i] ELSE root[k]
    OBVIOUS
  <1> HIDE DEF new, res
  <1>3. CASE root[i] # root[j] /\ Touching(ways[i], ways[j])
    <2>1. res = new
      BY <1>1, <1>3
    <2>2. Coarser(new, root, n) /\ new[i] = new[j]
      BY <1>2 DEF Coarser
    <2> QED BY <1>2, <2>1, <2>2 DEF res
  <1>4. CASE ~(root[i] # root[j] /\ Touching(ways[i], ways[j]))
    <2>1. res = root
      BY <1>1, <1>4
    <2>2. Coarser(root, root, n)
      BY DEF Coarser
    <2> QED BY <1>4, <2>1, <2>2 DEF res
  <1> QED BY <1>3, <1>4

\* One way with each of those after it: what is joined after each of them.
LEMMA JoinedAfterFold ==
    ASSUME NEW ways, Len(ways) \in Nat, NEW root \in [1 .. Len(ways) -> 1 .. Len(ways)], NEW i \in 1 .. Len(ways)
    PROVE  \E h : /\ JoinedAfter(ways, root, i) = h[Len(ways) - i] /\ h[0] = root
                  /\ \A k \in 0 .. Len(ways) - i - 1 : h[k + 1] = Joined(ways, h[k], i, i + k + 1)
  <1> DEFINE l == Len(ways)
             n == l - i
             X == [1 .. l -> 1 .. l]
             s == [k \in 1 .. n |-> i + k]
             N(x, j) == Joined(ways, x, i, j)
             G == [k \in 1..n |-> [x \in X |-> N(x, s[k])]]
             A(f, t) == IF t = {} THEN root ELSE N(f[t \ {Max(t)}], s[Max(t)])
  <1>1. n \in Nat /\ DOMAIN s = 1..n /\ \A k \in 1..n : s[k] = i + k /\ s[k] \in 1 .. l
    OBVIOUS
  <1>2. root \in X
    OBVIOUS
  <1>3. \A x \in X : \A k \in 1..n : N(x, s[k]) \in X
    <2> SUFFICES ASSUME NEW x \in X, NEW k \in 1..n PROVE N(x, s[k]) \in X
      OBVIOUS
    <2>1. s[k] \in 1 .. l /\ l \in Nat
      BY <1>1
    <2> HIDE DEF s
    <2> QED BY <2>1, JoinedKeeps
  <1> HIDE DEF n, X, s
  <1>4. G \in [1..n -> [X -> X]] /\ \A x \in X, k \in 1..n : G[k][x] = N(x, s[k])
    <2> HIDE DEF N
    <2> QED BY <1>3
  <1>5. PICK f \in [SUBSET (1..n) -> X] : Folding(f, root, G, n)
    <2> HIDE DEF G
    <2> QED BY <1>1, <1>2, <1>4, FoldExists
  <1>6. f = [t \in SUBSET (1..n) |-> A(f, t)]
    <2>1. ASSUME NEW t \in SUBSET (1..n), t # {}
          PROVE  G[Max(t)][f[t \ {Max(t)}]] = N(f[t \ {Max(t)}], s[Max(t)])
      <3>1. Max(t) \in 1..n /\ f[t \ {Max(t)}] \in X
        BY <1>1, <2>1, MaxOfBounded
      <3> HIDE DEF G, N
      <3> QED BY <1>4, <3>1, Zenon
    <2> HIDE DEF G, N
    <2>2. f = [t \in SUBSET (1..n) |-> IF t = {} THEN root ELSE G[Max(t)][f[t \ {Max(t)}]]]
      BY <1>5, Zenon DEF Folding
    <2> QED BY <2>1, <2>2
  <1> DEFINE g == CHOOSE h : h = [t \in SUBSET (1..n) |-> A(h, t)]
  <1>7. JoinedAfter(ways, root, i) = g[1..n]
    <2>1. JoinedAfter(ways, root, i) = FoldLeft(N, root, s)
      BY Zenon DEF JoinedAfter, s, n
    <2> QED BY <1>1, <2>1, Zenon DEF FoldLeft, MapThenFoldSet
  <1>8. g = [t \in SUBSET (1..n) |-> A(g, t)]
    <2> HIDE DEF A
    <2> QED BY <1>6, Zenon
  <1> HIDE DEF g, A
  <1>9. \A t \in SUBSET (1..n) : g[t] = A(g, t)
    BY <1>8, Zenon
  <1> DEFINE h == [k \in 0 .. n |-> g[1..k]]
  <1>10. \A k \in 0 .. n : h[k] = g[1..k]
    OBVIOUS
  <1> HIDE DEF h
  <1>11. JoinedAfter(ways, root, i) = h[n]
    BY <1>1, <1>7, <1>10
  <1>12. h[0] = root
    <2>1. 1..0 = {} /\ {} \in SUBSET (1..n) /\ 0 \in 0 .. n
      BY <1>1
    <2>2. A(g, {}) = root
      BY DEF A
    <2> QED BY <1>9, <1>10, <2>1, <2>2
  <1>13. ASSUME NEW k \in 0 .. n - 1 PROVE h[k + 1] = Joined(ways, h[k], i, i + k + 1)
    <2>1. k \in Nat /\ k + 1 \in 1..n /\ k + 1 \in 0 .. n /\ k \in 0 .. n /\ 1 .. k + 1 \in SUBSET (1..n)
      BY <1>1
    <2>2. Max(1 .. k + 1) = k + 1 /\ (1 .. k + 1) \ {k + 1} = 1..k /\ 1 .. k + 1 # {}
      BY <2>1, MaxOfPrefix
    <2>3. g[1 .. k + 1] = N(g[1..k], s[k + 1])
      <3>1. g[1 .. k + 1] = A(g, 1 .. k + 1)
        BY <1>9, <2>1
      <3> HIDE DEF N
      <3> QED BY <2>2, <3>1 DEF A
    <2>4. s[k + 1] = i + k + 1
      BY <1>1, <2>1
    <2> QED BY <1>10, <2>1, <2>3, <2>4
  <1> QED BY <1>11, <1>12, <1>13 DEF n

\* Two ways that touch have one root.
OneRoot(ways, root, i, j) == Touching(ways[i], ways[j]) => root[i] = root[j]

LEMMA CoarserStill ==
    ASSUME NEW n, NEW a, NEW b, NEW c, Coarser(b, a, n), Coarser(c, b, n)
    PROVE  Coarser(c, a, n)
  BY DEF Coarser

LEMMA JoinedAfterKeeps ==
    ASSUME NEW ways, Len(ways) \in Nat, NEW root \in [1 .. Len(ways) -> 1 .. Len(ways)], NEW i \in 1 .. Len(ways)
    PROVE  /\ JoinedAfter(ways, root, i) \in [1 .. Len(ways) -> 1 .. Len(ways)]
           /\ Coarser(JoinedAfter(ways, root, i), root, Len(ways))
           /\ \A j \in 1 .. Len(ways) : i < j => OneRoot(ways, JoinedAfter(ways, root, i), i, j)
  <1> DEFINE l == Len(ways)
             n == l - i
             X == [1 .. l -> 1 .. l]
             res == JoinedAfter(ways, root, i)
  <1>1. n \in Int /\ n >= 0 /\ n \in Nat /\ l \in Nat /\ i \in 1 .. l /\ root \in X
    OBVIOUS
  <1>2. PICK h : /\ JoinedAfter(ways, root, i) = h[Len(ways) - i] /\ h[0] = root
                 /\ \A k \in 0 .. Len(ways) - i - 1 : h[k + 1] = Joined(ways, h[k], i, i + k + 1)
    BY JoinedAfterFold
  <1>3. res = h[n] /\ h[0] = root /\ \A k \in 0 .. n - 1 : h[k + 1] = Joined(ways, h[k], i, i + k + 1)
    BY <1>2
  <1> DEFINE Good(k) == /\ h[k] \in X /\ Coarser(h[k], root, l)
                        /\ \A m \in 1 .. k : OneRoot(ways, h[k], i, i + m)
             T == {k \in Nat : k <= n => Good(k)}
  <1> HIDE DEF n, X, res
  <1>4. 0 \in T
    <2>1. Coarser(root, root, l)
      BY DEF Coarser
    <2>2. Good(0)
      BY <1>1, <1>3, <2>1
    <2> HIDE DEF Good
    <2> QED BY <2>2
  <1>5. ASSUME NEW k \in Nat, k \in T PROVE k + 1 \in T
    <2> SUFFICES ASSUME k + 1 <= n PROVE Good(k + 1)
      <3> HIDE DEF Good
      <3> QED OBVIOUS
    <2>1. k <= n /\ k \in 0 .. n - 1 /\ i + k + 1 \in 1 .. l
      BY <1>1 DEF n
    <2>2. Good(k)
      <3> HIDE DEF Good
      <3> QED BY <1>5, <2>1
    <2> DEFINE j == i + k + 1
               a == h[k]
               b == h[k + 1]
    <2>3. b = Joined(ways, a, i, j)
      BY <1>3, <2>1
    <2>4. a \in [1 .. l -> 1 .. l] /\ l \in Nat /\ i \in 1 .. l /\ j \in 1 .. l
      BY <1>1, <2>1, <2>2 DEF X
    <2> HIDE DEF a, b, j
    <2>5. /\ Joined(ways, a, i, j) \in [1 .. l -> 1 .. l] /\ Coarser(Joined(ways, a, i, j), a, l)
          /\ Touching(ways[i], ways[j]) => Joined(ways, a, i, j)[i] = Joined(ways, a, i, j)[j]
      BY <2>4, JoinedKeeps
    <2>6. b \in X /\ Coarser(b, a, l) /\ OneRoot(ways, b, i, j)
      BY <2>3, <2>5 DEF X, OneRoot
    <2>7. Coarser(b, root, l)
      BY <2>2, <2>6, CoarserStill DEF a
    <2>8. ASSUME NEW m \in 1 .. k + 1 PROVE OneRoot(ways, b, i, i + m)
      <3>1. CASE m = k + 1
        <4>1. i + m = j
          BY <1>1, <3>1 DEF j
        <4> QED BY <2>6, <4>1
      <3>2. CASE m # k + 1
        <4>1. m \in 1 .. k /\ i + m \in 1 .. l
          BY <1>1, <2>1, <3>2 DEF n
        <4>2. OneRoot(ways, a, i, i + m)
          BY <2>2, <4>1 DEF a
        <4> QED BY <1>1, <2>6, <4>1, <4>2 DEF OneRoot, Coarser
      <3> QED BY <3>1, <3>2
    <2> QED BY <2>6, <2>7, <2>8 DEF b
  <1>6. Good(n)
    <2>1. n \in T
      <3> HIDE DEF T
      <3> QED BY <1>1, <1>4, <1>5, EveryNumber
    <2> HIDE DEF Good
    <2> QED BY <1>1, <2>1
  <1>7. ASSUME NEW j \in 1 .. l, i < j PROVE OneRoot(ways, res, i, j)
    <2> DEFINE m == j - i
    <2>1. m \in 1 .. n /\ i + m = j
      BY <1>1, <1>7 DEF n
    <2> HIDE DEF m
    <2> QED BY <1>3, <1>6, <2>1
  <1> QED BY <1>3, <1>6, <1>7 DEF X, res

\* Every way so.
LEMMA RootsFold ==
    ASSUME NEW ways, IsList(ways), Len(ways) \in Nat
    PROVE  \E h : /\ Roots(ways) = h[Len(ways)] /\ h[0] = [i \in 1 .. Len(ways) |-> i]
                  /\ \A k \in 0 .. Len(ways) - 1 : h[k + 1] = JoinedAfter(ways, h[k], k + 1)
  <1> DEFINE n == Len(ways)
             X == [1 .. n -> 1 .. n]
             start == [i \in 1 .. n |-> i]
             N(x, i) == JoinedAfter(ways, x, i)
             G == [k \in 1..n |-> [x \in X |-> N(x, start[k])]]
             A(f, t) == IF t = {} THEN start ELSE N(f[t \ {Max(t)}], start[Max(t)])
  <1>1. n \in Nat /\ DOMAIN ways = 1..n /\ start \in X /\ DOMAIN start = 1..n /\ \A k \in 1..n : start[k] = k
    <2>1. DOMAIN ways = 1..n
      BY ListFacts, Zenon
    <2> HIDE DEF n
    <2>2. start \in X /\ DOMAIN start = 1..n /\ \A k \in 1..n : start[k] = k
      OBVIOUS
    <2>3. n \in Nat
      BY DEF n
    <2> QED BY <2>1, <2>2, <2>3
  <1>2. \A x \in X : \A k \in 1..n : N(x, start[k]) \in X
    <2> SUFFICES ASSUME NEW x \in X, NEW k \in 1..n PROVE N(x, k) \in X
      BY <1>1
    <2> QED BY <1>1, JoinedAfterKeeps
  <1> HIDE DEF n, X, start
  <1>3. G \in [1..n -> [X -> X]] /\ \A x \in X, k \in 1..n : G[k][x] = N(x, start[k])
    <2> HIDE DEF N
    <2> QED BY <1>2
  <1>4. PICK f \in [SUBSET (1..n) -> X] : Folding(f, start, G, n)
    <2> HIDE DEF G
    <2> QED BY <1>1, <1>3, FoldExists
  <1>5. f = [t \in SUBSET (1..n) |-> A(f, t)]
    <2>1. ASSUME NEW t \in SUBSET (1..n), t # {}
          PROVE  G[Max(t)][f[t \ {Max(t)}]] = N(f[t \ {Max(t)}], start[Max(t)])
      <3>1. Max(t) \in 1..n /\ f[t \ {Max(t)}] \in X
        BY <1>1, <2>1, MaxOfBounded
      <3> HIDE DEF G, N
      <3> QED BY <1>3, <3>1, Zenon
    <2> HIDE DEF G, N
    <2>2. f = [t \in SUBSET (1..n) |-> IF t = {} THEN start ELSE G[Max(t)][f[t \ {Max(t)}]]]
      BY <1>4, Zenon DEF Folding
    <2> QED BY <2>1, <2>2
  <1> DEFINE g == CHOOSE h : h = [t \in SUBSET (1..n) |-> A(h, t)]
  <1>6. Roots(ways) = g[1..n]
    <2>1. start = [i \in DOMAIN ways |-> i]
      BY <1>1 DEF start
    <2>2. Roots(ways) = FoldLeft(N, [i \in DOMAIN ways |-> i], [i \in DOMAIN ways |-> i])
      BY Zenon DEF Roots
    <2>3. Roots(ways) = FoldLeft(N, start, start)
      BY <2>1, <2>2
    <2> QED BY <1>1, <2>3, Zenon DEF FoldLeft, MapThenFoldSet
  <1>7. g = [t \in SUBSET (1..n) |-> A(g, t)]
    <2> HIDE DEF A
    <2> QED BY <1>5, Zenon
  <1> HIDE DEF g, A
  <1>8. \A t \in SUBSET (1..n) : g[t] = A(g, t)
    BY <1>7, Zenon
  <1> DEFINE h == [k \in 0 .. n |-> g[1..k]]
  <1>9. \A k \in 0 .. n : h[k] = g[1..k]
    OBVIOUS
  <1> HIDE DEF h
  <1>10. Roots(ways) = h[n]
    BY <1>1, <1>6, <1>9
  <1>11. h[0] = start
    <2>1. 1..0 = {} /\ {} \in SUBSET (1..n) /\ 0 \in 0 .. n
      BY <1>1
    <2>2. A(g, {}) = start
      BY DEF A
    <2> QED BY <1>8, <1>9, <2>1, <2>2
  <1>12. ASSUME NEW k \in 0 .. n - 1 PROVE h[k + 1] = JoinedAfter(ways, h[k], k + 1)
    <2>1. k \in Nat /\ k + 1 \in 1..n /\ k + 1 \in 0 .. n /\ k \in 0 .. n /\ 1 .. k + 1 \in SUBSET (1..n)
      BY <1>1
    <2>2. Max(1 .. k + 1) = k + 1 /\ (1 .. k + 1) \ {k + 1} = 1..k /\ 1 .. k + 1 # {}
      BY <2>1, MaxOfPrefix
    <2>3. g[1 .. k + 1] = N(g[1..k], start[k + 1])
      <3>1. g[1 .. k + 1] = A(g, 1 .. k + 1)
        BY <1>8, <2>1
      <3> HIDE DEF N
      <3> QED BY <2>2, <3>1 DEF A
    <2> QED BY <1>1, <1>9, <2>1, <2>3
  <1> QED BY <1>10, <1>11, <1>12 DEF n, start

\* Ways that share an end have one root.
LEMMA RootsJoin ==
    ASSUME NEW ways, IsList(ways), Len(ways) \in Nat
    PROVE  /\ Roots(ways) \in [1 .. Len(ways) -> 1 .. Len(ways)]
           /\ \A i, j \in 1 .. Len(ways) : Touching(ways[i], ways[j]) => Roots(ways)[i] = Roots(ways)[j]
  <1> DEFINE n == Len(ways)
             X == [1 .. n -> 1 .. n]
             res == Roots(ways)
  <1>1. n \in Nat
    OBVIOUS
  <1>2. PICK h : /\ Roots(ways) = h[Len(ways)] /\ h[0] = [i \in 1 .. Len(ways) |-> i]
                 /\ \A k \in 0 .. Len(ways) - 1 : h[k + 1] = JoinedAfter(ways, h[k], k + 1)
    BY RootsFold
  <1>3. res = h[n] /\ h[0] \in X /\ \A k \in 0 .. n - 1 : h[k + 1] = JoinedAfter(ways, h[k], k + 1)
    <2> HIDE DEF res
    <2> QED BY <1>2 DEF res
  <1> DEFINE Good(k) == h[k] \in X /\ \A i \in 1 .. k, j \in 1 .. n : i < j => OneRoot(ways, h[k], i, j)
             T == {k \in Nat : k <= n => Good(k)}
  <1> HIDE DEF res
  <1>4. 0 \in T
    <2>1. Good(0)
      BY <1>3
    <2> HIDE DEF Good
    <2> QED BY <2>1
  <1>5. ASSUME NEW k \in Nat, k \in T PROVE k + 1 \in T
    <2> SUFFICES ASSUME k + 1 <= n PROVE Good(k + 1)
      <3> HIDE DEF Good
      <3> QED OBVIOUS
    <2>1. k <= n /\ k \in 0 .. n - 1 /\ k + 1 \in 1 .. n
      BY <1>1
    <2>2. Good(k)
      <3> HIDE DEF Good
      <3> QED BY <1>5, <2>1
    <2> DEFINE a == h[k]
               b == h[k + 1]
    <2>3. b = JoinedAfter(ways, a, k + 1) /\ a \in [1 .. Len(ways) -> 1 .. Len(ways)]
      BY <1>3, <2>1, <2>2
    <2> DEFINE p == k + 1
    <2>3a. p \in 1 .. Len(ways)
      BY <2>1
    <2> HIDE DEF a, b, p
    <2>4. /\ JoinedAfter(ways, a, p) \in [1 .. Len(ways) -> 1 .. Len(ways)]
          /\ Coarser(JoinedAfter(ways, a, p), a, Len(ways))
          /\ \A j \in 1 .. Len(ways) : p < j => OneRoot(ways, JoinedAfter(ways, a, p), p, j)
      BY <2>3, <2>3a, JoinedAfterKeeps
    <2>5. b \in X /\ Coarser(b, a, n) /\ \A j \in 1 .. n : p < j => OneRoot(ways, b, p, j)
      BY <2>3, <2>4 DEF p
    <2>6. ASSUME NEW i \in 1 .. k + 1, NEW j \in 1 .. n, i < j PROVE OneRoot(ways, b, i, j)
      <3>1. CASE i = k + 1
        BY <2>5, <2>6, <3>1 DEF p
      <3>2. CASE i # k + 1
        <4>1. i \in 1 .. k /\ i \in 1 .. n
          BY <1>1, <2>1, <3>2
        <4>2. OneRoot(ways, a, i, j)
          BY <2>2, <2>6, <4>1 DEF a
        <4> QED BY <2>5, <4>1, <4>2 DEF OneRoot, Coarser
      <3> QED BY <3>1, <3>2
    <2> QED BY <2>5, <2>6 DEF b
  <1>6. Good(n)
    <2>1. n \in T
      <3> HIDE DEF T
      <3> QED BY <1>1, <1>4, <1>5, EveryNumber
    <2> HIDE DEF Good
    <2> QED BY <1>1, <2>1
  <1>7. \A i, j \in 1 .. n : i < j => OneRoot(ways, res, i, j)
    BY <1>3, <1>6
  <1>8. \A i, j \in 1 .. n : Touching(ways[i], ways[j]) => res[i] = res[j]
    <2> SUFFICES ASSUME NEW i \in 1 .. n, NEW j \in 1 .. n, Touching(ways[i], ways[j]) PROVE res[i] = res[j]
      OBVIOUS
    <2>1. Touching(ways[j], ways[i])
      BY DEF Touching
    <2>2. i < j \/ i = j \/ j < i
      OBVIOUS
    <2> QED BY <1>7, <2>1, <2>2 DEF OneRoot
  <1> QED BY <1>3, <1>6, <1>8 DEF res

-----------------------------------------------------------------------------
(***************************************************************************)
(* Components: their points, their boxes, and the views on them.           *)
(***************************************************************************)
Members(ways, root, r) == {i \in DOMAIN ways : root[i] = r}
PointsIn(ways, members) == UNION {ToSet(ways[i].points) : i \in members}

\* The number of points of some of the ways.
Counting(ways, members) ==
    FoldLeft(LAMBDA sum, i : sum + IF i \in members THEN Len(ways[i].points) ELSE 0, 0, [i \in DOMAIN ways |-> i])

LEMMA PointsCounted ==
    ASSUME NEW ways, Drawing(ways), NEW members
    PROVE  Counting(ways, members) \in Nat
  <1> DEFINE n == Len(ways)
             start == [i \in 1 .. n |-> i]
             N(x, i) == x + IF i \in members THEN Len(ways[i].points) ELSE 0
             G == [k \in 1..n |-> [x \in Nat |-> N(x, start[k])]]
             A(f, t) == IF t = {} THEN 0 ELSE N(f[t \ {Max(t)}], start[Max(t)])
  <1>1. n \in Nat /\ DOMAIN ways = 1..n /\ DOMAIN start = 1..n /\ \A k \in 1..n : start[k] = k
    <2>1. DOMAIN ways = 1..n /\ n \in Nat
      BY ListFacts, Zenon DEF Drawing
    <2> HIDE DEF n
    <2>2. DOMAIN start = 1..n /\ \A k \in 1..n : start[k] = k
      OBVIOUS
    <2> QED BY <2>1, <2>2
  <1>2. \A x \in Nat : \A k \in 1..n : N(x, start[k]) \in Nat
    <2> SUFFICES ASSUME NEW x \in Nat, NEW k \in 1..n PROVE N(x, k) \in Nat
      BY <1>1
    <2>1. Len(ways[k].points) \in Nat
      BY DEF Drawing, Line
    <2> QED BY <2>1
  <1> HIDE DEF n, start
  <1>3. G \in [1..n -> [Nat -> Nat]] /\ \A x \in Nat, k \in 1..n : G[k][x] = N(x, start[k])
    <2> HIDE DEF N
    <2> QED BY <1>2
  <1>4. PICK f \in [SUBSET (1..n) -> Nat] : Folding(f, 0, G, n)
    <2> HIDE DEF G
    <2> QED BY <1>1, <1>3, FoldExists
  <1>5. f = [t \in SUBSET (1..n) |-> A(f, t)]
    <2>1. ASSUME NEW t \in SUBSET (1..n), t # {}
          PROVE  G[Max(t)][f[t \ {Max(t)}]] = N(f[t \ {Max(t)}], start[Max(t)])
      <3>1. Max(t) \in 1..n /\ f[t \ {Max(t)}] \in Nat
        BY <1>1, <2>1, MaxOfBounded
      <3> HIDE DEF G, N
      <3> QED BY <1>3, <3>1, Zenon
    <2> HIDE DEF G, N
    <2>2. f = [t \in SUBSET (1..n) |-> IF t = {} THEN 0 ELSE G[Max(t)][f[t \ {Max(t)}]]]
      BY <1>4, Zenon DEF Folding
    <2> QED BY <2>1, <2>2
  <1> DEFINE g == CHOOSE h : h = [t \in SUBSET (1..n) |-> A(h, t)]
             res == Counting(ways, members)
  <1>6. res = g[1..n]
    <2>1. start = [i \in DOMAIN ways |-> i]
      BY <1>1 DEF start
    <2>2. res = FoldLeft(N, 0, [i \in DOMAIN ways |-> i])
      BY Zenon DEF Counting
    <2>3. res = FoldLeft(N, 0, start)
      BY <2>1, <2>2
    <2> HIDE DEF res
    <2> QED BY <1>1, <2>3, Zenon DEF FoldLeft, MapThenFoldSet
  <1>7. g = [t \in SUBSET (1..n) |-> A(g, t)]
    <2> HIDE DEF A
    <2> QED BY <1>5, Zenon
  <1> HIDE DEF g, A, res
  <1>8. \A t \in SUBSET (1..n) : g[t] = A(g, t)
    BY <1>7, Zenon
  <1> DEFINE T == {k \in Nat : k <= n => g[1..k] \in Nat}
  <1>9. 0 \in T
    <2>1. 1..0 = {} /\ {} \in SUBSET (1..n)
      OBVIOUS
    <2>2. A(g, {}) = 0
      BY DEF A
    <2>3. g[1..0] \in Nat
      BY <1>8, <2>1, <2>2
    <2> QED BY <2>3
  <1>10. ASSUME NEW k \in Nat, k \in T PROVE k + 1 \in T
    <2> SUFFICES ASSUME k + 1 <= n PROVE g[1 .. k + 1] \in Nat
      OBVIOUS
    <2>1. k + 1 \in 1..n /\ 1 .. k + 1 \in SUBSET (1..n) /\ g[1..k] \in Nat
      BY <1>1, <1>10
    <2>2. Max(1 .. k + 1) = k + 1 /\ (1 .. k + 1) \ {k + 1} = 1..k /\ 1 .. k + 1 # {}
      BY MaxOfPrefix
    <2>3. g[1 .. k + 1] = N(g[1..k], start[k + 1])
      <3>1. g[1 .. k + 1] = A(g, 1 .. k + 1)
        BY <1>8, <2>1
      <3> HIDE DEF N
      <3> QED BY <2>2, <3>1 DEF A
    <2> HIDE DEF N
    <2> QED BY <1>2, <2>1, <2>3
  <1>11. g[1..n] \in Nat
    <2>1. n \in T
      <3> HIDE DEF T
      <3> QED BY <1>1, <1>9, <1>10, EveryNumber
    <2> QED BY <1>1, <2>1
  <1>12. res \in Nat
    BY <1>6, <1>11
  <1> QED BY <1>12 DEF res

LEMMA ComponentParts ==
    ASSUME NEW ways, Drawing(ways), NEW root, NEW e \in 1 .. Len(ways)
    PROVE  /\ Component(ways, root, root[e]).ways = Members(ways, root, root[e])
           /\ Component(ways, root, root[e]).n \in Nat
           /\ Component(ways, root, root[e]).box = BoxOf(PointsIn(ways, Members(ways, root, root[e])))
           /\ e \in Members(ways, root, root[e]) /\ Members(ways, root, root[e]) \subseteq 1 .. Len(ways)
           /\ PointsIn(ways, Members(ways, root, root[e])) \in SUBSET Points
           /\ \A j \in Members(ways, root, root[e]) :
                 ToSet(ways[j].points) \subseteq PointsIn(ways, Members(ways, root, root[e]))
           /\ PointsIn(ways, Members(ways, root, root[e])) # {}
  <1> DEFINE m == Members(ways, root, root[e])
             total == Counting(ways, m)
             c == Component(ways, root, root[e])
  <1>1. DOMAIN ways = 1 .. Len(ways) /\ Len(ways) \in Nat
    BY ListFacts, Zenon DEF Drawing
  <1>2. e \in m /\ m \subseteq 1 .. Len(ways)
    BY <1>1 DEF Members
  <1>3. total \in Nat
    <2> HIDE DEF m
    <2> QED BY PointsCounted
  <1>4. c = [ways |-> m, n |-> total, box |-> BoxOf(PointsIn(ways, m))]
    BY Zenon DEF Component, Members, PointsIn, Counting
  <1> HIDE DEF m, total
  <1>5. c.ways = m /\ c.n = total /\ c.box = BoxOf(PointsIn(ways, m))
    <2> HIDE DEF c
    <2> QED BY <1>4
  <1>6. \A j \in m : ToSet(ways[j].points) \in SUBSET Points /\ ToSet(ways[j].points) # {}
    BY <1>2 DEF Drawing, Line
  <1>7. /\ PointsIn(ways, m) \in SUBSET Points /\ PointsIn(ways, m) # {}
        /\ \A j \in m : ToSet(ways[j].points) \subseteq PointsIn(ways, m)
    <2>1. \A j \in m : ToSet(ways[j].points) \subseteq PointsIn(ways, m)
      BY DEF PointsIn
    <2>2. PointsIn(ways, m) \in SUBSET Points
      BY <1>6 DEF PointsIn
    <2> QED BY <1>2, <1>6, <2>1, <2>2
  <1> HIDE DEF c
  <1> QED BY <1>2, <1>3, <1>5, <1>7 DEF m, c

\* The largest component is one of them.
LEMMA PrimaryIsOne ==
    ASSUME NEW ways, Drawing(ways), NEW root
    PROVE  Primary(Components(ways, root)) \in Components(ways, root)
  <1> DEFINE n == Len(ways)
             C(i) == Component(ways, root, root[i])
             parts == Components(ways, root)
             rank == [i \in 1 .. n |-> C(i).n]
  <1>1. n \in Nat /\ n >= 1 /\ DOMAIN ways = 1..n
    BY ListFacts, Zenon DEF Drawing
  <1>2. \A i \in 1..n : /\ C(i).ways = Members(ways, root, root[i]) /\ C(i).n \in Nat
                        /\ i \in Members(ways, root, root[i]) /\ Members(ways, root, root[i]) \subseteq 1 .. n
    BY ComponentParts
  <1>3. \A q : q \in parts <=> \E i \in 1..n : q = C(i)
    BY <1>1 DEF Components
  <1>3a. \A i, j : root[i] = root[j] => C(i) = C(j)
    OBVIOUS
  <1> HIDE DEF n, C, parts
  <1>4. rank \in [1 .. n -> Nat] /\ \A i \in 1..n : rank[i] = C(i).n
    BY <1>2
  <1> HIDE DEF rank
  <1>5. PICK i \in 1..n : First(i, 1..n, rank)
    <2>1. 1..n \in SUBSET (1..n) /\ 1..n # {}
      BY <1>1
    <2> QED BY <1>1, <1>4, <2>1, FirstOfAll
  <1> DEFINE p == C(i)
  <1>6. ASSUME NEW q \in parts
        PROVE  q.n < p.n \/ (q.n = p.n /\ LeastOf(p.ways) <= LeastOf(q.ways))
    <2>1. PICK j \in 1..n : q = C(j)
      BY <1>3
    <2> DEFINE M == Members(ways, root, root[j])
               P == Members(ways, root, root[i])
               k == LeastOf(M)
    <2>2. M \in SUBSET (0 .. n) /\ M # {} /\ P \in SUBSET (0 .. n) /\ P # {} /\ i \in P /\ M \subseteq 1 .. n
      <3>1. M \subseteq 1 .. n /\ P \subseteq 1 .. n /\ j \in M /\ i \in P
        BY <1>2
      <3>2. 1 .. n \subseteq 0 .. n
        OBVIOUS
      <3> QED BY <3>1, <3>2
    <2>3. q.ways = M /\ p.ways = P
      BY <1>2, <2>1
    <2>4. \A x \in M : root[x] = root[j]
      BY DEF Members
    <2> HIDE DEF M, P
    <2>5. k \in M /\ LeastOf(P) <= i /\ LeastOf(P) \in Int
      BY <1>1, <2>2, LeastAndMost
    <2> HIDE DEF k
    <2>6. k \in 1..n /\ C(k) = q
      BY <1>3a, <2>1, <2>2, <2>4, <2>5
    <2>7. rank[k] < rank[i] \/ (rank[k] = rank[i] /\ i <= k)
      BY <1>5, <2>6 DEF First
    <2>8. rank[k] = q.n /\ rank[i] = p.n
      BY <1>4, <2>6
    <2>9. CASE rank[k] < rank[i]
      BY <2>8, <2>9
    <2>10. CASE rank[k] = rank[i] /\ i <= k
      <3>1. LeastOf(P) <= k
        BY <2>5, <2>6, <2>10
      <3> QED BY <2>3, <2>8, <2>10, <3>1 DEF k
    <2> QED BY <2>7, <2>9, <2>10
  <1>7. p \in parts
    BY <1>3
  <1> HIDE DEF p
  <1>8. Primary(parts) \in parts
    BY <1>6, <1>7, Zenon DEF Primary
  <1> QED BY <1>8 DEF parts

AllIn(f, box) == \A p \in ToSet(f.points) : Inside(p, box)
BothIn(f, g, box) == AllIn(f, box) /\ AllIn(g, box)

LEMMA ViewsOrNone ==
    ASSUME NEW ways
    PROVE  Viewports(ways).exclaves \in BOOLEAN
  BY DEF Viewports, Apart, Divided

\* Pieces that share an end are in one view.
LEMMA ViewsKeepPieces ==
    ASSUME NEW ways, Drawing(ways), Viewports(ways).exclaves
    PROVE  /\ Viewports(ways).main \in Box /\ Viewports(ways).inset \in Box
           /\ \A i, j \in 1 .. Len(ways) : Touching(ways[i], ways[j]) =>
                 \/ BothIn(ways[i], ways[j], Viewports(ways).main)
                 \/ BothIn(ways[i], ways[j], Viewports(ways).inset)
  <1> DEFINE n == Len(ways)
             root == Roots(ways)
             parts == Components(ways, root)
             primary == Primary(parts)
             far == {p \in parts : p # primary /\ Far(primary, p)}
             v == Viewports(ways)
             near == parts \ far
             main == {p.box : p \in near}
             inset == {p.box : p \in far}
             C(i) == Component(ways, root, root[i])
  <1>1. v = Divided(parts, far)
    BY Zenon DEF Viewports, Apart
  <1>2. primary \in parts /\ primary \notin far /\ far \subseteq parts
    <2>1. primary \in parts
      BY PrimaryIsOne
    <2> HIDE DEF parts, primary
    <2> QED BY <2>1
  <1>3. \A q \in parts : \E i \in 1..n : q = C(i)
    <2>1. DOMAIN ways = 1..n
      BY ListFacts, Zenon DEF Drawing
    <2> QED BY <2>1 DEF Components
  <1>3a. \A i \in 1..n : C(i) \in parts
    <2>1. DOMAIN ways = 1..n
      BY ListFacts, Zenon DEF Drawing
    <2> QED BY <2>1 DEF Components
  <1>3b. \A i, j : root[i] = root[j] => C(i) = C(j)
    OBVIOUS
  <1>4. /\ root \in [1 .. n -> 1 .. n]
        /\ \A i, j \in 1 .. n : Touching(ways[i], ways[j]) => root[i] = root[j]
    BY RootsJoin DEF Drawing
  <1>5. ASSUME NEW i \in 1..n
        PROVE  /\ C(i).box.west \in 0 .. Span /\ C(i).box.east \in 0 .. Span
               /\ C(i).box.south \in 0 .. Span /\ C(i).box.north \in 0 .. Span
               /\ C(i).box \in Box /\ AllIn(ways[i], C(i).box)
    <2> DEFINE P == PointsIn(ways, Members(ways, root, root[i]))
    <2>1. C(i).box = BoxOf(P) /\ P \in SUBSET Points /\ P # {} /\ ToSet(ways[i].points) \subseteq P
      <3> HIDE DEF root
      <3> QED BY ComponentParts
    <2> HIDE DEF P, C
    <2>2. /\ BoxOf(P) \in Box /\ \A p \in P : Inside(p, BoxOf(P))
          /\ BoxOf(P).west \in 0 .. Span /\ BoxOf(P).east \in 0 .. Span
          /\ BoxOf(P).south \in 0 .. Span /\ BoxOf(P).north \in 0 .. Span
      BY <2>1, BoxAroundPoints
    <2>3. AllIn(ways[i], BoxOf(P))
      BY <2>1, <2>2 DEF AllIn
    <2> QED BY <2>1, <2>2, <2>3
  <1> HIDE DEF n, root, C, parts, primary, far, v
  <1>6. far # {} /\ v.main = Together(main) /\ v.inset = Together(inset)
    <2>1. v.exclaves
      BY DEF v
    <2>2. far # {}
      <3> SUFFICES ASSUME far = {} PROVE FALSE
        OBVIOUS
      <3>1. v = [exclaves |-> FALSE]
        BY <1>1 DEF Divided
      <3> QED BY <2>1, <3>1
    <2>3. v = [exclaves |-> TRUE, main |-> Together(main), inset |-> Together(inset)]
      BY <1>1, <2>2, Zenon DEF Divided
    <2> HIDE DEF main, inset
    <2> QED BY <2>2, <2>3
  <1>7. Together(main) \in Box /\ \A b \in main : Around(Together(main), b)
    <2>1. main # {}
      BY <1>2
    <2>2. \A b \in main : /\ b.west \in 0 .. Span /\ b.east \in 0 .. Span
                          /\ b.south \in 0 .. Span /\ b.north \in 0 .. Span
      BY <1>3, <1>5
    <2> HIDE DEF main
    <2> QED BY <2>1, <2>2, TogetherAround
  <1>8. Together(inset) \in Box /\ \A b \in inset : Around(Together(inset), b)
    <2>1. inset # {}
      BY <1>6
    <2>2. \A b \in inset : /\ b.west \in 0 .. Span /\ b.east \in 0 .. Span
                           /\ b.south \in 0 .. Span /\ b.north \in 0 .. Span
      BY <1>2, <1>3, <1>5
    <2> HIDE DEF inset
    <2> QED BY <2>1, <2>2, TogetherAround
  <1>9. ASSUME NEW i \in 1 .. n, NEW box \in Box, Around(box, C(i).box) PROVE AllIn(ways[i], box)
    <2>1. C(i).box \in Box /\ AllIn(ways[i], C(i).box)
      BY <1>5
    <2> QED BY <1>9, <2>1, InsideAround DEF AllIn
  <1>10. ASSUME NEW i \in 1 .. n, NEW j \in 1 .. n, Touching(ways[i], ways[j])
         PROVE  BothIn(ways[i], ways[j], Together(main)) \/ BothIn(ways[i], ways[j], Together(inset))
    <2>1. C(j) = C(i) /\ C(i) \in parts
      BY <1>3a, <1>3b, <1>4, <1>10
    <2>2. CASE C(i) \in far
      <3>1. C(i).box \in inset
        BY <2>2
      <3>2. Around(Together(inset), C(i).box) /\ Around(Together(inset), C(j).box)
        BY <1>8, <2>1, <3>1
      <3> HIDE DEF inset, main
      <3> QED BY <1>8, <1>9, <3>2 DEF BothIn
    <2>3. CASE C(i) \notin far
      <3>1. C(i).box \in main
        BY <2>1, <2>3
      <3>2. Around(Together(main), C(i).box) /\ Around(Together(main), C(j).box)
        BY <1>7, <2>1, <3>1
      <3> HIDE DEF inset, main
      <3> QED BY <1>7, <1>9, <3>2 DEF BothIn
    <2> QED BY <2>2, <2>3
  <1> HIDE DEF main, inset
  <1> QED BY <1>6, <1>7, <1>8, <1>10 DEF v, n

-----------------------------------------------------------------------------
(***************************************************************************)
(* The city of a finished file.                                            *)
(***************************************************************************)
\* What is shown for the relation r of a city.
CityStands(city, r) ==
    /\ ~city.refused /\ city.exclaves \in BOOLEAN
    /\ city.view \in Box /\ city.features = Visible(city.view)
    /\ city.outline = {f \in Outline(r) : Meets(f.box, city.view)}
    /\ ~city.exclaves => city.view = Padded(BoxOf(Extent(r)))
    /\ city.exclaves =>
          \E seen : /\ Drawing(seen) /\ ToSet(seen) = Outline(r)
                    /\ Viewports(seen).exclaves /\ city.view = Padded(Viewports(seen).main)
                    /\ city.inset = Padded(Viewports(seen).inset)

LEMMA RelationOfRecord ==
    ASSUME Gathered, NEW h, RecordedBy(h), NEW name, NEW i \in Named(name)
    PROVE  /\ Extent(source.relations[h[i]]) # {} /\ Extent(source.relations[h[i]]) \in SUBSET Points
           /\ BoxOf(Extent(source.relations[h[i]])) \in Box
  <1> DEFINE r == source.relations[h[i]]
             p == ValidPlaces[i]
  <1>1. /\ h[i] \in Candidates(name) /\ PlacePoints(p) = Extent(r)
    BY CandidateOfRecord
  <1>2. Extent(r) # {}
    BY <1>1, Zenon DEF Candidates
  <1>3. \A x \in PlacePoints(p) : x \in Points
    <2>1. i \in 1 .. Len(ValidPlaces)
      BY DEF Named
    <2>2. h[i] \in 1 .. Len(source.relations) /\ MemberWays(p) = r.ways /\ p \in ToSet(places.list)
      BY <2>1, UsedLists, Zenon DEF RecordedBy, Recorded
    <2>3. r \in ToSet(source.relations)
      <3>1. IsList(source.relations)
        <4>1. source \in Sources
          BY DEF Gathered, MapTypes
        <4> QED BY <4>1, MapPackAssumption DEF MapPackAssumption, SourceShape
      <3>2. DOMAIN source.relations = 1 .. Len(source.relations)
        BY <3>1, ListFacts, Zenon
      <3> QED BY <2>2, <3>2 DEF ToSet
    <2> HIDE DEF p, r
    <2> QED BY <2>2, <2>3, PlacePointsOfRelation
  <1> HIDE DEF r, p
  <1>4. Extent(r) \in SUBSET Points
    BY <1>1, <1>3
  <1> QED BY <1>2, <1>4, BoxAroundPoints DEF r

LEMMA OutlineIsDrawing ==
    ASSUME Gathered, NEW h, RecordedBy(h), NEW name, NEW i \in Named(name),
           NEW seen, IsList(seen), Len(seen) \in Nat, Len(seen) >= 1, ToSet(seen) = Outline(source.relations[h[i]])
    PROVE  Drawing(seen)
  <1> DEFINE r == source.relations[h[i]]
  <1>1. Extent(r) \in SUBSET Points
    BY RelationOfRecord
  <1>2. \A k \in 1 .. Len(seen) : seen[k] \in Outline(r)
    <2>1. DOMAIN seen = 1 .. Len(seen)
      BY ListFacts, Zenon
    <2> QED BY <2>1 DEF ToSet
  <1> HIDE DEF r
  <1>3. ASSUME NEW f \in Outline(r) PROVE Line(f)
    <2>1. /\ IsList(f.points) /\ ToSet(f.points) # {} /\ ToSet(f.points) \subseteq Extent(r)
      BY OutlinePoints
    <2>2. Len(f.points) \in Nat
      BY <2>1, ListFacts, Zenon
    <2> QED BY <1>1, <2>1, <2>2 DEF Line
  <1> QED BY <1>2, <1>3 DEF Drawing

\* A box of a finished file shows what the source has there.
LEMMA BoxOfFinished ==
    ASSUME Gathered, NEW file, Faithful(file), Finished(file), NEW box
    PROVE  /\ ~RenderBox(file, box).refused
           /\ box \in Box => RenderBox(file, box).features = Visible(box)
  <1> DEFINE all == {f \in On(Cover(box, source.halo)) : Meets(f.box, box)}
  <1>1. RenderBox(file, box) = Found(all)
    BY BoxRead
  <1>2. box \in Box => all = Visible(box)
    <2>1. source.halo \in Nat
      BY SourceTypes DEF Gathered, MapTypes
    <2> QED BY <2>1, TilesShow
  <1> HIDE DEF all
  <1>3. ~Found(all).refused /\ Found(all).features = all
    BY DEF Found
  <1> QED BY <1>1, <1>2, <1>3

\* The outline of a place meets every box around its extent.
LEMMA OutlineMeets ==
    ASSUME Gathered, NEW r, Extent(r) \in SUBSET Points, Extent(r) # {}, NEW f \in Outline(r)
    PROVE  Meets(f.box, Padded(BoxOf(Extent(r))))
  <1> DEFINE P == ToSet(f.points)
             E == Extent(r)
  <1>1. f.box = BoxOf(P) /\ P # {} /\ P \subseteq E /\ E \in SUBSET Points /\ E # {}
    BY OutlinePoints
  <1> HIDE DEF P, E
  <1>2. BoxOf(P) \in Box /\ BoxOf(E) \in Box
    BY <1>1, BoxAroundPoints
  <1>3. Around(BoxOf(E), BoxOf(P))
    BY <1>1, AroundMore
  <1>4. Padded(BoxOf(E)) \in Box /\ Around(Padded(BoxOf(E)), BoxOf(E))
    BY <1>2, PaddedBox
  <1>5. Meets(BoxOf(P), Padded(BoxOf(E)))
    BY <1>2, <1>3, <1>4, AroundAll
  <1> QED BY <1>1, <1>5 DEF E

\* The city of a finished file is that of a record, and of its relation.
LEMMA CityOfFinished ==
    ASSUME Gathered, NEW file, Faithful(file), Finished(file), HasHeader(file), NEW h, RecordedBy(h),
           NEW name, NEW i \in Named(name), OfRecord(file, PlaceFor(file, name), i),
           ~Outlined(PlaceFor(file, name)) => Lines(i) = {}
    PROVE  CityStands(RenderCity(file, name), source.relations[h[i]])
  <1> DEFINE place == PlaceFor(file, name)
             seen == ScanOf(file, place).seen
             spread == SpreadOf(file, place)
             city == CityNamed(file, name)
             view == MainOf(place, spread)
             r == source.relations[h[i]]
  <1>0. RenderCity(file, name) = city
    <2>1. place.found
      BY DEF OfRecord
    <2>2. ~place.absent
      BY <2>1, PlaceRead
    <2> QED BY <2>2, Zenon DEF RenderCity
  <1>1. city = CityFrom(file, place, spread)
    BY CityIsFrom
  <1>2. Lines(i) = Outline(r) /\ PlacePoints(ValidPlaces[i]) = Extent(r)
    BY CandidateOfRecord
  <1>3. place.found /\ place.box = BoxOf(Extent(r))
    BY <1>2 DEF OfRecord
  <1>4. Extent(r) # {} /\ Extent(r) \in SUBSET Points /\ BoxOf(Extent(r)) \in Box
    BY RelationOfRecord
  <1>5. Outlined(place) =>
            /\ CountAt(file, place.at) = place.n /\ ~ScanOf(file, place).bad
            /\ ToSet(seen) = Outline(r) /\ IsList(seen) /\ Len(seen) = place.n
    BY <1>2, Zenon DEF OfRecord, Reads, ScanOf
  <1>6. ~Outlined(place) => Outline(r) = {}
    BY <1>2
  <1>7. Outlined(place) /\ place.n >= 2 => spread = Viewports(seen)
    BY Zenon DEF SpreadOf
  <1>8. ~(Outlined(place) /\ place.n >= 2) => ~spread.exclaves /\ spread.exclaves = FALSE
    BY DEF SpreadOf
  <1>9. /\ spread.exclaves => view = Padded(spread.main)
        /\ ~spread.exclaves => view = Padded(place.box)
    BY Zenon DEF MainOf
  <1>10. Outlined(place) /\ place.n >= 2 => Drawing(seen)
    <2> SUFFICES ASSUME Outlined(place), place.n >= 2 PROVE Drawing(seen)
      OBVIOUS
    <2> DEFINE s == seen
    <2>1. IsList(s) /\ Len(s) = place.n /\ ToSet(s) = Outline(r)
      BY <1>5
    <2>2. Len(s) \in Nat
      BY <2>1, ListFacts, Zenon
    <2> HIDE DEF s, place
    <2>3. Len(s) >= 1
      BY <2>1, <2>2
    <2>4. Drawing(s)
      BY <2>1, <2>2, <2>3, OutlineIsDrawing
    <2> QED BY <2>4 DEF s
  <1>11. spread.exclaves \in BOOLEAN
    BY <1>7, <1>8, ViewsOrNone
  <1>12. OutlineShown(file, place, view) = IF Outlined(place) THEN Seen(ScanOf(file, place), view) ELSE {}
    BY Zenon DEF OutlineShown
  <1>13. Seen(ScanOf(file, place), view) = {f \in ToSet(seen) : Meets(f.box, view)}
    BY SeenIn, Zenon
  <1>14. ~CityRefused(file, place, spread)
    BY <1>3, <1>5, BoxOfFinished, Zenon DEF CityRefused
  <1>15. /\ ~city.refused /\ city.features = RenderBox(file, view).features /\ city.view = view
         /\ city.outline = OutlineShown(file, place, view) /\ city.exclaves = spread.exclaves
         /\ spread.exclaves => city.inset = Padded(spread.inset)
    <2> HIDE DEF place, spread, city
    <2> QED BY <1>1, <1>14, CityFields, Zenon
  <1> HIDE DEF place, seen, spread, city, view, r
  <1>16. spread.exclaves =>
            /\ Outlined(place) /\ spread = Viewports(seen) /\ Drawing(seen) /\ Viewports(seen).exclaves
            /\ Viewports(seen).main \in Box /\ view = Padded(Viewports(seen).main)
            /\ city.inset = Padded(Viewports(seen).inset)
    BY <1>7, <1>8, <1>9, <1>10, <1>15, ViewsKeepPieces
  <1>17. view \in Box
    <2>1. CASE spread.exclaves
      BY <1>16, <2>1, PaddedBox
    <2>2. CASE ~spread.exclaves
      BY <1>3, <1>4, <1>9, <2>2, PaddedBox
    <2> QED BY <2>1, <2>2
  <1>18. city.features = Visible(view)
    BY <1>15, <1>17, BoxOfFinished
  <1>19. city.outline = {f \in Outline(r) : Meets(f.box, view)}
    <2>1. CASE Outlined(place)
      BY <1>5, <1>12, <1>13, <1>15, <2>1
    <2>2. CASE ~Outlined(place)
      BY <1>6, <1>12, <1>15, <2>2
    <2> QED BY <2>1, <2>2
  <1>20. ~spread.exclaves => view = Padded(BoxOf(Extent(r)))
    BY <1>3, <1>9
  <1>21. spread.exclaves =>
            \E s : /\ Drawing(s) /\ ToSet(s) = Outline(r)
                   /\ Viewports(s).exclaves /\ view = Padded(Viewports(s).main)
                   /\ city.inset = Padded(Viewports(s).inset)
    BY <1>5, <1>16
  <1>22. CityStands(city, r)
    BY <1>11, <1>15, <1>17, <1>18, <1>19, <1>20, <1>21, Zenon DEF CityStands
  <1> QED BY <1>0, <1>22 DEF city, r

\* The first of the highest rank is the city.
LEMMA CityOfRecord ==
    ASSUME Gathered, NEW h, RecordedBy(h), NEW name, NEW i \in Named(name), First(i, Named(name), Ranks)
    PROVE  CityOf(name) = source.relations[h[i]] /\ Candidates(name) # {}
  <1> DEFINE R(k) == Rank(source.relations[k])
             Best(k) == \A j \in Candidates(name) : R(j) < R(k) \/ (R(j) = R(k) /\ k <= j)
             rel == source.relations
  <1>1. \A j \in Named(name) : h[j] \in Candidates(name) /\ Ranks[j] = R(h[j])
    BY CandidateOfRecord
  <1>2. \A k \in Candidates(name) : \E j \in Named(name) : h[j] = k
    BY RecordOfCandidate
  <1>3. \A j \in Named(name) : Ranks[j] \in Nat /\ j \in 1 .. Len(ValidPlaces) /\ h[j] \in 1 .. Len(rel)
    <2>1. \A j \in 1 .. Len(ValidPlaces) : ValidPlaces[j].rank \in Nat
      <3>1. \A p \in ToSet(places.list) : p.rank \in Nat
        BY PackLists
      <3> QED BY <3>1, UsedLists, Zenon
    <2> QED BY <2>1 DEF Named, Ranks, RecordedBy
  <1>4. \A j \in Named(name) : i <= j => h[i] <= h[j]
    <2> SUFFICES ASSUME NEW j \in Named(name), i <= j PROVE h[i] <= h[j]
      OBVIOUS
    <2>1. i \in 1 .. Len(ValidPlaces) /\ j \in 1 .. Len(ValidPlaces) /\ h[i] \in 1 .. Len(rel) /\ h[j] \in 1 .. Len(rel)
      BY <1>3
    <2>2. i = j \/ i < j
      BY <2>1
    <2>3. i < j => h[i] < h[j]
      BY <2>1, Zenon DEF RecordedBy
    <2> QED BY <2>1, <2>2, <2>3
  <1> HIDE DEF R, rel
  <1>5. Best(h[i])
    <2> SUFFICES ASSUME NEW k \in Candidates(name) PROVE R(k) < R(h[i]) \/ (R(k) = R(h[i]) /\ h[i] <= k)
      OBVIOUS
    <2>1. PICK j \in Named(name) : h[j] = k
      BY <1>2
    <2>2. Ranks[j] < Ranks[i] \/ (Ranks[j] = Ranks[i] /\ i <= j)
      BY DEF First
    <2>3. Ranks[j] = R(k) /\ Ranks[i] = R(h[i])
      BY <1>1, <2>1
    <2> QED BY <1>4, <2>1, <2>2, <2>3
  <1>6. ASSUME NEW k \in Candidates(name), Best(k) PROVE k = h[i]
    <2>1. PICK j \in Named(name) : h[j] = k
      BY <1>2
    <2>2. h[i] \in Candidates(name) /\ R(h[i]) = Ranks[i] /\ R(k) = Ranks[j]
      BY <1>1, <2>1
    <2>3. Ranks[i] \in Nat /\ Ranks[j] \in Nat /\ h[i] \in Int /\ k \in Int
      BY <1>3, <2>1
    <2>4. R(h[i]) < R(k) \/ (R(h[i]) = R(k) /\ k <= h[i])
      BY <1>6, <2>2
    <2>5. R(k) < R(h[i]) \/ (R(k) = R(h[i]) /\ h[i] <= k)
      BY <1>5
    <2> QED BY <2>2, <2>3, <2>4, <2>5
  <1> DEFINE best == CHOOSE k \in Candidates(name) : Best(k)
  <1>7. h[i] \in Candidates(name)
    BY <1>1
  <1>8. best = h[i]
    <2>1. best \in Candidates(name) /\ Best(best)
      <3> HIDE DEF Best
      <3> QED BY <1>5, <1>7, Zenon
    <2> HIDE DEF best
    <2> QED BY <1>6, <2>1
  <1>9. CityOf(name) = source.relations[best]
    BY Zenon DEF CityOf, R
  <1> HIDE DEF best
  <1> QED BY <1>7, <1>8, <1>9

\* The city of a name in a finished file.
LEMMA CityOfName ==
    ASSUME WrittenInv, phase = "done", NEW name
    PROVE  /\ Candidates(name) = {} =>
                 IF name \in DOMAIN Presets THEN ShowsPreset(RenderCity(image, name), Presets[name])
                 ELSE RenderCity(image, name) = Refused
           /\ Candidates(name) # {} =>
                 /\ CityStands(RenderCity(image, name), CityOf(name))
                 /\ Extent(CityOf(name)) \in SUBSET Points /\ Extent(CityOf(name)) # {}
  <1>1. Gathered /\ Finished(image) /\ Faithful(image) /\ HasHeader(image)
    BY FileIsFinished
  <1>2. PICK h : RecordedBy(h)
    BY <1>1, PlacesInOrder
  <1>3. ASSUME Candidates(name) = {}
        PROVE  IF name \in DOMAIN Presets THEN ShowsPreset(RenderCity(image, name), Presets[name])
               ELSE RenderCity(image, name) = Refused
    <2>1. Named(name) = {}
      <3>1. \A j \in Named(name) : h[j] \in Candidates(name)
        BY <1>1, <1>2, CandidateOfRecord
      <3> QED BY <1>3, <3>1
    <2> DEFINE place == PlaceFor(image, name)
               spread == SpreadOf(image, place)
    <2>2. ~place.found /\ place.absent
      BY <1>1, <2>1, PlaceRead
    <2>3. CASE name \in DOMAIN Presets
      <3> DEFINE box == Presets[name]
      <3>1. RenderCity(image, name) = RenderPreset(image, box)
        BY <1>1, <2>2, <2>3, Zenon DEF RenderCity
      <3>2. box \in Box
        BY <2>3, MapRenderAssumption DEF MapRenderAssumption, RenderableBoxes, HasArea, Box
      <3> HIDE DEF box
      <3>3. ~RenderBox(image, box).refused /\ RenderBox(image, box).features = Visible(box)
        BY <1>1, <3>2, BoxOfFinished
      <3>4. ShowsPreset(RenderPreset(image, box), box)
        BY <3>3, PresetFields, Zenon DEF ShowsPreset
      <3> QED BY <2>3, <3>1, <3>4, Zenon DEF box
    <2>4. CASE name \notin DOMAIN Presets
      <3>1. CityRefused(image, place, spread)
        BY <2>2, Zenon DEF CityRefused
      <3>2. CityNamed(image, name) = CityFrom(image, place, spread)
        BY CityIsFrom
      <3>3. RenderCity(image, name) = CityNamed(image, name)
        BY <2>4, Zenon DEF RenderCity
      <3> HIDE DEF place, spread
      <3>4. CityNamed(image, name) = Refused
        BY <3>1, <3>2, CityFields, Zenon
      <3> QED BY <2>4, <3>3, <3>4
    <2> QED BY <2>3, <2>4, Zenon
  <1>4. ASSUME Candidates(name) # {}
        PROVE  /\ CityStands(RenderCity(image, name), CityOf(name))
               /\ Extent(CityOf(name)) \in SUBSET Points /\ Extent(CityOf(name)) # {}
    <2>1. Named(name) # {}
      <3>1. PICK k \in Candidates(name) : TRUE
        BY <1>4
      <3>2. \E j \in Named(name) : h[j] = k
        BY <1>1, <1>2, RecordOfCandidate
      <3> QED BY <3>2
    <2>2. PICK i \in Named(name) : /\ First(i, Named(name), Ranks)
                                   /\ OfRecord(image, PlaceFor(image, name), i)
                                   /\ ~Outlined(PlaceFor(image, name)) => Lines(i) = {}
      BY <1>1, <2>1, PlaceRead
    <2>3. CityStands(RenderCity(image, name), source.relations[h[i]])
      BY <1>1, <1>2, <2>2, CityOfFinished
    <2>4. CityOf(name) = source.relations[h[i]]
      BY <1>1, <1>2, <2>2, CityOfRecord
    <2>5. Extent(source.relations[h[i]]) # {} /\ Extent(source.relations[h[i]]) \in SUBSET Points
      BY <1>1, <1>2, RelationOfRecord
    <2> QED BY <2>3, <2>4, <2>5
  <1> QED BY <1>3, <1>4

(* For every source, every number of workers and blocks, every grid and    *)
(* every name: rpack-render finds the city of that name in the file of     *)
(* pbf-to-rpack if and only if the source has it, takes the place of the   *)
(* highest rank, its member ways counted up to the cap, and shows its      *)
(* features and its whole outline in view; a name that the source does not *)
(* have shows the features of its preset box, or is refused without one.   *)
THEOREM TheCityIsOutlined == Spec => []OutlinesTheCity
  <1>1. WrittenInv => OutlinesTheCity
    <2> SUFFICES ASSUME WrittenInv, phase = "done", NEW name \in Names
                 PROVE  IF Candidates(name) = {}
                        THEN IF name \in DOMAIN Presets THEN ShowsPreset(RenderCity(image, name), Presets[name])
                             ELSE RenderCity(image, name) = Refused
                        ELSE /\ ~RenderCity(image, name).refused
                             /\ RenderCity(image, name).features = Visible(RenderCity(image, name).view)
                             /\ RenderCity(image, name).outline
                                = {f \in Outline(CityOf(name)) : Meets(f.box, RenderCity(image, name).view)}
                             /\ ~RenderCity(image, name).exclaves =>
                                   /\ RenderCity(image, name).view = Padded(BoxOf(Extent(CityOf(name))))
                                   /\ RenderCity(image, name).outline = Outline(CityOf(name))
      BY Zenon DEF OutlinesTheCity
    <2> DEFINE city == RenderCity(image, name)
               r == CityOf(name)
    <2>1. CASE Candidates(name) = {}
      BY <2>1, CityOfName
    <2>2. CASE Candidates(name) # {}
      <3>1. CityStands(city, r) /\ Extent(r) \in SUBSET Points /\ Extent(r) # {}
        BY <2>2, CityOfName
      <3>2. Gathered
        BY FileIsFinished
      <3>3. \A f \in Outline(r) : Meets(f.box, Padded(BoxOf(Extent(r))))
        <4> HIDE DEF r
        <4> QED BY <3>1, <3>2, OutlineMeets
      <3> HIDE DEF city, r
      <3>4. ~city.exclaves => city.outline = Outline(r)
        BY <3>1, <3>3 DEF CityStands
      <3>5. /\ ~city.refused /\ city.features = Visible(city.view)
            /\ city.outline = {f \in Outline(r) : Meets(f.box, city.view)}
            /\ ~city.exclaves => city.view = Padded(BoxOf(Extent(r)))
        BY <3>1, Zenon DEF CityStands
      <3> QED BY <2>2, <3>4, <3>5, Zenon DEF city, r
    <2> QED BY <2>1, <2>2
  <1> QED BY <1>1, FileInvariant, PTL

(* For every source and every city: when the far parts of its boundary go  *)
(* to an inset, two ways that share an end are both in the view or both in *)
(* the inset, and every way is in one of them.                             *)
THEOREM NoPieceIsTornOff == Spec => []PiecesKeptTogether
  <1>1. WrittenInv => PiecesKeptTogether
    <2> SUFFICES ASSUME WrittenInv, phase = "done", NEW name \in Names, Candidates(name) # {},
                        RenderCity(image, name).exclaves,
                        NEW f \in Outline(CityOf(name)), NEW g \in Outline(CityOf(name)), Ends(f) \cap Ends(g) # {}
                 PROVE  \E box \in {RenderCity(image, name).view, RenderCity(image, name).inset} :
                            BothIn(f, g, box)
      BY Zenon DEF PiecesKeptTogether, BothIn, AllIn
    <2> DEFINE city == RenderCity(image, name)
    <2>1. CityStands(city, CityOf(name))
      BY CityOfName
    <2>2. PICK seen : /\ Drawing(seen) /\ ToSet(seen) = Outline(CityOf(name))
                      /\ Viewports(seen).exclaves /\ city.view = Padded(Viewports(seen).main)
                      /\ city.inset = Padded(Viewports(seen).inset)
      BY <2>1, Zenon DEF CityStands
    <2>3. \E i, j \in 1 .. Len(seen) : seen[i] = f /\ seen[j] = g
      <3>1. DOMAIN seen = 1 .. Len(seen)
        BY <2>2, ListFacts, Zenon DEF Drawing
      <3> QED BY <2>2, <3>1 DEF ToSet
    <2>4. PICK i \in 1 .. Len(seen), j \in 1 .. Len(seen) : seen[i] = f /\ seen[j] = g
      BY <2>3
    <2>5. Touching(seen[i], seen[j])
      BY <2>4 DEF Touching
    <2> HIDE DEF city
    <2>6. /\ Viewports(seen).main \in Box /\ Viewports(seen).inset \in Box
          /\ BothIn(f, g, Viewports(seen).main) \/ BothIn(f, g, Viewports(seen).inset)
      BY <2>2, <2>4, <2>5, ViewsKeepPieces
    <2>7. ASSUME NEW box \in Box, BothIn(f, g, box) PROVE BothIn(f, g, Padded(box))
      <3>1. Padded(box) \in Box /\ Around(Padded(box), box)
        BY PaddedBox
      <3>2. \A p : Inside(p, box) => Inside(p, Padded(box))
        BY <3>1, InsideAround
      <3> QED BY <2>7, <3>2 DEF BothIn, AllIn
    <2>8. BothIn(f, g, city.view) \/ BothIn(f, g, city.inset)
      BY <2>2, <2>6, <2>7
    <2> QED BY <2>8 DEF city
  <1> QED BY <1>1, FileInvariant, PTL
=============================================================================
