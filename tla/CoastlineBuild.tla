--------------------------- MODULE CoastlineBuild ---------------------------
(***************************************************************************)
(* How the coastline tiles are made (web/scripts/build-coastline.mjs): the *)
(* GML is read in chunks, every Kystkontur feature found in it, simplified *)
(* in metres, projected, cut up into tiles, and written with an index once *)
(* everything has been read.                                               *)
(*                                                                         *)
(* A posList is one character of the text, its points are in the source,   *)
(* and proj4 and the rounding to five decimals are Project.  Distances are *)
(* compared as squares.                                                    *)
(***************************************************************************)
EXTENDS Integers, Sequences, FiniteSets, FiniteSetsExt, SequencesExt

CONSTANTS
    OpenTag, CloseTag,
    Sources,          \* inputs: a text, and the points of each posList in it
    Malformed,        \* the posLists that are not pairs of numbers
    Tolerance,        \* SIMPLIFY_METRES
    Project,          \* the position of every point in degrees
    TileDegrees       \* TILE_DEGREES

Metres == DOMAIN Project

Characters ==
    Range(OpenTag) \cup Range(CloseTag) \cup UNION {Range(src.text) : src \in Sources}

\* A posList that is not malformed has at least two points.
ASSUME BuildAssumption ==
    /\ OpenTag \in Seq(Characters) /\ CloseTag \in Seq(Characters)
    /\ Len(OpenTag) > 0 /\ Len(CloseTag) >= Len(OpenTag)
    /\ TileDegrees \in Nat \ {0} /\ Tolerance \in Nat
    /\ Metres \subseteq Int \X Int
    /\ \A p \in Metres : Project[p] \in Int \X Int
    /\ \A src \in Sources :
          /\ src.text \in Seq(Characters)
          /\ \A list \in DOMAIN src.points :
                src.points[list] \in Seq(Metres) /\ Len(src.points[list]) >= 2

\* No end of a closing tag begins an opening tag.
ASSUME TagsAssumption ==
    \A n \in 1 .. Len(OpenTag) :
        SubSeq(CloseTag, Len(CloseTag) - n + 1, Len(CloseTag)) # SubSeq(OpenTag, 1, n)

VARIABLES
    source,           \* the input
    read,             \* how much of its text has been read
    pending,          \* what of it has been read and may belong to a feature
    found,            \* the features found so far
    tiles,            \* the lines of each tile
    built             \* "no", "yes", or "failed"

buildVars == <<source, read, pending, found, tiles, built>>

\* indexOf, counting from 1; 0 if there is none.
IndexOf(s, tag, from) ==
    LET at == {i \in from .. Len(s) - Len(tag) + 1 : SubSeq(s, i, i + Len(tag) - 1) = tag}
    IN  IF at = {} THEN 0 ELSE Min(at)

\* What the loop finds in s from there on, and where the search ends.
Search(s, scan, from) ==
    LET start == IndexOf(s, OpenTag, from)
        end   == IF start = 0 THEN 0 ELSE IndexOf(s, CloseTag, start)
        rest  == scan[end + Len(CloseTag)]
    IN  IF end = 0 THEN [features |-> <<>>, from |-> IF start = 0 THEN from ELSE start]
        ELSE [features |-> <<SubSeq(s, start, end - 1)>> \o rest.features, from |-> rest.from]

\* The features that are complete in s, and where the search for them ended.
Scan(s) ==
    LET scan[from \in 1 .. Len(s) + 1] == Search(s, scan, from)
    IN  scan[1]

\* Mutant: the tail kept is too short for a tag that is split.
UnfinishedWithoutTail(s) ==
    LET start == IndexOf(s, OpenTag, Scan(s).from)
    IN  IF start # 0 THEN SubSeq(s, start, Len(s)) ELSE <<>>

\* An unfinished feature, or enough of the tail for a tag that is split.
Unfinished(s) ==
    LET start == IndexOf(s, OpenTag, Scan(s).from)
    IN  IF start # 0 THEN SubSeq(s, start, Len(s))
        ELSE SubSeq(s, Max({1, Len(s) - Len(OpenTag) + 1}), Len(s))

PosLists == DOMAIN source.points \cup Malformed

\* What the regular expression finds in a feature that has a posList: the first.
PosListOf(feature) == feature[SelectInSeq(feature, LAMBDA c : c \in PosLists)]

PosListsOf(features) ==
    {PosListOf(feature) : feature \in {f \in Range(features) : Range(f) \cap PosLists # {}}}
----------------------------------------------------------------------------
Square(n) == n * n

SquaredLength(a, b) == Square(b[1] - a[1]) + Square(b[2] - a[2])

\* The square of the distance from p to the segment from a to b, times that of the
\* segment's length unless it is 0.
ScaledDistance(p, a, b) ==
    LET length == SquaredLength(a, b)
        along  == (p[1] - a[1]) * (b[1] - a[1]) + (p[2] - a[2]) * (b[2] - a[2])
        across == (p[1] - a[1]) * (b[2] - a[2]) - (p[2] - a[2]) * (b[1] - a[1])
    IN  IF length = 0 THEN SquaredLength(p, a)
        ELSE IF along <= 0 THEN SquaredLength(p, a) * length
        ELSE IF along >= length THEN SquaredLength(p, b) * length
        ELSE Square(across)

Far(p, a, b) ==
    ScaledDistance(p, a, b) > Square(Tolerance) * Max({1, SquaredLength(a, b)})

\* The first of the vertices furthest off the segment from first to last.
Furthest(points, far, first, last) ==
    LET off(i) == ScaledDistance(points[i], points[first], points[last])
    IN  CHOOSE i \in far : \A j \in far : off(j) < off(i) \/ (off(j) = off(i) /\ i <= j)

\* Mutant: only the half before the vertex that is furthest off is looked at again.
BendsBefore(points, bends, first, last) ==
    LET far      == {i \in first + 1 .. last - 1 : Far(points[i], points[first], points[last])}
        furthest == Furthest(points, far, first, last)
    IN  IF far = {} THEN {} ELSE {furthest} \cup bends[<<first, furthest>>]

\* What is kept between two vertices that are kept.
Bends(points, bends, first, last) ==
    LET far      == {i \in first + 1 .. last - 1 : Far(points[i], points[first], points[last])}
        furthest == Furthest(points, far, first, last)
    IN  IF far = {} THEN {} ELSE {furthest} \cup bends[<<first, furthest>>] \cup bends[<<furthest, last>>]

\* Which vertices Douglas-Peucker keeps: the ends, and again and again the first of
\* those furthest off what has been kept.
Kept(points) ==
    LET bends[ends \in (DOMAIN points) \X (DOMAIN points)] ==
            Bends(points, bends, ends[1], ends[2])
    IN  {i \in DOMAIN points : i \in {1, Len(points)} \cup bends[<<1, Len(points)>>]}

\* The vertices kept, in order.
Simplify(points) ==
    LET kept   == Kept(points)
        nth(n) == CHOOSE i \in kept : Cardinality({j \in kept : j <= i}) = n
    IN  [n \in 1 .. Cardinality(kept) |-> points[nth(n)]]

Line(points) ==
    LET simple == Simplify(points)
    IN  [i \in DOMAIN simple |-> Project[simple[i]]]
----------------------------------------------------------------------------
\* A tile is known by its south-west corner, <<lat, lon>>; a point is <<lon, lat>>.
Inside(p, id) ==
    /\ id[2] <= p[1] /\ p[1] <= id[2] + TileDegrees
    /\ id[1] <= p[2] /\ p[2] <= id[1] + TileDegrees

\* The corners from that of one coordinate to another coordinate.
Corners(from, to) ==
    {k * TileDegrees : k \in from \div TileDegrees .. to \div TileDegrees}

TilesTouched(line) ==
    LET lons == {p[1] : p \in Range(line)}
        lats == {p[2] : p \in Range(line)}
    IN  Corners(Min(lats), Max(lats)) \X Corners(Min(lons), Max(lons))

\* The longest stretches of the line that are inside.
Stretches(line, id) ==
    {s \in (DOMAIN line) \X (DOMAIN line) :
        /\ s[1] <= s[2]
        /\ \A i \in s[1] .. s[2] : Inside(line[i], id)
        /\ s[1] > 1 => ~Inside(line[s[1] - 1], id)
        /\ s[2] < Len(line) => ~Inside(line[s[2] + 1], id)}

\* Mutant: a run stops at the last point inside.
ClipInside(line, id) ==
    {r \in {SubSeq(line, s[1], s[2]) : s \in Stretches(line, id)} : Len(r) >= 2}

\* Each with the neighbouring point outside at either end.
Clip(line, id) ==
    {r \in {SubSeq(line, Max({1, s[1] - 1}), Min({Len(line), s[2] + 1})) : s \in Stretches(line, id)} :
        Len(r) >= 2}

LinesIn(t, id) == IF id \in DOMAIN t THEN t[id] ELSE {}

\* The lines are cut up one after the other, in whatever order.
AddLines(t, lines) ==
    LET cut(id) == UNION {Clip(line, id) : line \in {l \in lines : id \in TilesTouched(l)}}
        hit     == {id \in UNION {TilesTouched(line) : line \in lines} : cut(id) # {}}
    IN  [id \in DOMAIN t \cup hit |-> LinesIn(t, id) \cup cut(id)]
----------------------------------------------------------------------------
BuildInit ==
    /\ source \in Sources
    /\ read = 0 /\ pending = <<>>
    /\ found = <<>> /\ tiles = <<>>
    /\ built = "no"

\* One more chunk: the features completed by it are added to their tiles.  A posList
\* that is malformed ends the program.
ReadChunk ==
    /\ built = "no"
    /\ read' \in read + 1 .. Len(source.text)
    /\  LET s        == pending \o SubSeq(source.text, read + 1, read')
            features == Scan(s).features
            lists    == PosListsOf(features)
        IN  IF lists \cap Malformed # {}
              THEN built' = "failed" /\ UNCHANGED <<pending, found, tiles>>
              ELSE /\ pending' = Unfinished(s)
                   /\ found' = found \o features
                   /\ tiles' = AddLines(tiles, {Line(source.points[list]) : list \in lists})
                   /\ UNCHANGED built
    /\ UNCHANGED source

\* Everything has been read: the tiles and the index replace those there were.
WriteTiles ==
    /\ built = "no" /\ read = Len(source.text)
    /\ built' = "yes"
    /\ UNCHANGED <<source, read, pending, found, tiles>>
----------------------------------------------------------------------------
\* build-coastline.mjs:45-78.  Wherever the chunks end, the features found are those
\* of the text read as a whole.
FindsEveryFeature ==
    built = "yes" => found = Scan(source.text).features

\* build-coastline.mjs:96-100.  The ends of a line are kept, and no vertex that is left
\* out is further than the tolerance from what is drawn in its place.
SimplifiedWithinTolerance ==
    built = "yes" =>
        \A list \in PosListsOf(found) :
            LET points == source.points[list]
                kept   == Kept(points)
            IN  /\ {1, Len(points)} \subseteq kept
                /\ \A k \in DOMAIN points \ kept :
                       ~Far(points[k], points[Max({i \in kept : i < k})],
                                       points[Min({i \in kept : i > k})])

Drawn(runs, p, q) ==
    \E r \in runs : \E i \in 1 .. Len(r) - 1 : r[i] = p /\ r[i + 1] = q

\* build-coastline.mjs:130-135.  The coast has no gaps at tile boundaries: every segment
\* is in the tiles of both of its ends.
NoGapsAtBoundaries ==
    built = "yes" =>
        \A line \in {Line(source.points[list]) : list \in PosListsOf(found)} :
            \A i \in 1 .. Len(line) - 1 : \A id \in TilesTouched(line) :
                Inside(line[i], id) \/ Inside(line[i + 1], id) =>
                    Drawn(LinesIn(tiles, id), line[i], line[i + 1])
=============================================================================
