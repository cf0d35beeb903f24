----------------------------- MODULE MapProofs -----------------------------
(***************************************************************************)
(* The map and the coastline on it.                                        *)
(*                                                                         *)
(* The map comes to rest on what has been asked for last, for any places,  *)
(* ranges, sizes and number of animations under way, if the container does *)
(* not change its size between a render and its effect.  What has to be    *)
(* added is what Leaflet and the observer know of the size.                *)
(*                                                                         *)
(* The coastline is simplified within the tolerance, cut up without gaps   *)
(* and drawn whole, for any text, lines, projection, tiles and chunks, and *)
(* nothing of it is overlooked where one chunk ends and the next begins.   *)
(* Scan and Kept are recursive functions: that there is a function which   *)
(* satisfies each recursion is proved by a least counterexample.           *)
(***************************************************************************)
EXTENDS RadarMap, Coastline, SequenceTheorems, FiniteSetTheorems, TLAPS

\* Where the map can be told to be.
Boxes == [at : Centres \cup {None}, zoom : Zooms \cup {None}, size : Sizes]

Maps == [at : Centres \cup {None}, zoom : Zooms \cup {None}, size : Sizes,
         target : Targets \cup {None}, frames : Seq(Targets), box : Boxes \cup {None}]

MapTypeOK ==
    /\ want \in Wants /\ held \in Wants \cup {None}
    /\ size \in Sizes
    /\ lastSize \in Sizes \cup {None} /\ reported \in Sizes \cup {None}
    /\ map \in Maps

\* No animation runs, and none waits for its frame.
Still(m) == m.target = None /\ m.frames = <<>>

OnTarget(m, w) == m.at = w.centre /\ m.zoom = WantedZoom(m, w)

\* The coastline has been told of the view, unless an animation is under way.
Told(m) == m.target = None => m.box = [at |-> m.at, zoom |-> m.zoom, size |-> m.size]

\* Before the first effect nothing has happened.
Untouched ==
    held = None => map.size = size /\ Still(map) /\ lastSize = None /\ reported = None

\* Leaflet's size is the observer's, or the container's; the observer's is what
\* it has reported.
SizesKnown ==
    held # None =>
        /\ map.size = lastSize \/ map.size = size
        /\ reported # None => lastSize = reported
        /\ lastSize # None

\* If nothing moves and Leaflet's size is the observer's, the map is where the
\* effect has set it.
RestsOnTarget ==
    held = want /\ Still(map) /\ map.size = lastSize => OnTarget(map, want)

MapInv ==
    /\ MapTypeOK
    /\ Untouched
    /\ held # None => Told(map)
    /\ SizesKnown
    /\ RestsOnTarget

------------------------------------------------------------------------------
LEMMA WantsFacts ==
    ASSUME NEW m \in Maps, NEW w \in Wants
    PROVE  w.centre \in Centres /\ w.range \in 1 .. Len(Ranges) /\ w # None
           /\ WantedZoom(m, w) \in Zooms
  BY MapAssumption DEF Wants, Maps, WantedZoom, ZoomForRange, Zooms

LEMMA MoveFacts ==
    ASSUME NEW m \in Maps, NEW c \in Centres, NEW z \in Zooms, NEW n, n = Move(m, c, z)
    PROVE  /\ n \in Maps /\ n.size = m.size /\ n.target = m.target /\ n.frames = m.frames
           /\ n.at = c /\ n.zoom = z /\ Told(n)
<1>1. n = [m EXCEPT !.at = c, !.zoom = z, !.box = [at |-> c, zoom |-> z, size |-> m.size]]
  BY DEF Move, Report, Maps
<1>2. [at |-> c, zoom |-> z, size |-> m.size] \in Boxes
  BY DEF Maps, Boxes
<1> QED
  BY <1>1, <1>2 DEF Maps, Told

\* Leaflet's setView sets the view or leaves it to an animation.
LEMMA SetFacts ==
    ASSUME NEW m \in Maps, NEW c \in Centres, NEW z \in Zooms, NEW animate \in BOOLEAN,
           NEW n \in Set(m, c, z, animate)
    PROVE  /\ n \in Maps /\ n.size = m.size /\ n.target = m.target
           /\ (n.at = c /\ n.zoom = z) \/ ~Still(n)
           /\ Told(m) \/ (m.target = None /\ ~animate) => Told(n)
<1>1. CASE n = Move(m, c, z)
  BY <1>1, MoveFacts
<1>2. CASE n = m /\ m.target # None
  BY <1>2 DEF Still, Told
<1>3. CASE animate /\ n = [m EXCEPT !.frames = Append(@, [at |-> c, zoom |-> z])]
  <2> DEFINE more == Append(m.frames, [at |-> c, zoom |-> z])
  <2>1. [at |-> c, zoom |-> z] \in Targets /\ m.frames \in Seq(Targets)
    BY DEF Targets, Maps
  <2>2. more \in Seq(Targets) /\ more # <<>>
    BY <2>1
  <2>3. n = [m EXCEPT !.frames = more]
    BY <1>3
  <2> HIDE DEF more
  <2> QED
    <3>1. n \in Maps
      BY <2>2, <2>3 DEF Maps
    <3>2. n.frames = more /\ n.target = m.target /\ n.size = m.size /\ n.at = m.at
          /\ n.zoom = m.zoom /\ n.box = m.box
      BY <2>3 DEF Maps
    <3> QED
      BY <1>3, <2>2, <3>1, <3>2 DEF Still, Told
<1> QED
  BY <1>1, <1>2, <1>3 DEF Set

LEMMA CatchUpFacts ==
    ASSUME NEW m \in Maps, NEW w \in Wants, NEW n \in CatchUp(m, w)
    PROVE  /\ n \in Maps /\ n.size = m.size /\ n.target = m.target
           /\ OnTarget(n, w) \/ ~Still(n)
           /\ Told(m) => Told(n)
<1>1. w.centre \in Centres /\ WantedZoom(m, w) \in Zooms
  BY WantsFacts
<1>2. CASE n = m /\ m.zoom = WantedZoom(m, w) /\ m.at = w.centre
  BY <1>2 DEF OnTarget
<1>3. CASE n \in Set(m, w.centre, WantedZoom(m, w), TRUE)
  <2>1. /\ n \in Maps /\ n.size = m.size /\ n.target = m.target
        /\ (n.at = w.centre /\ n.zoom = WantedZoom(m, w)) \/ ~Still(n)
        /\ Told(m) => Told(n)
    <3> DEFINE z == WantedZoom(m, w)
               c == w.centre
               yes == TRUE
    <3>1. z \in Zooms /\ c \in Centres /\ yes \in BOOLEAN /\ n \in Set(m, c, z, yes)
      BY <1>1, <1>3
    <3> HIDE DEF z, c, yes
    <3> QED
      BY <3>1, SetFacts DEF z, c
  <2> QED
    BY <2>1 DEF OnTarget, WantedZoom
<1> QED
  BY <1>2, <1>3 DEF CatchUp

\* The setView of LockedView.  Where zoomend fires at once, the view has caught up
\* with the last render.
LEMMA SetViewFacts ==
    ASSUME want \in Wants, NEW m \in Maps, NEW w \in Wants, NEW animate \in BOOLEAN,
           NEW n \in SetView(m, w.centre, WantedZoom(m, w), animate)
    PROVE  /\ n \in Maps /\ n.size = m.size /\ n.target = m.target
           /\ w = want => OnTarget(n, want) \/ ~Still(n)
           /\ Told(m) \/ (m.target = None /\ ~animate) => Told(n)
<1>1. w.centre \in Centres /\ WantedZoom(m, w) \in Zooms
  BY WantsFacts
<1>2. PICK o \in Set(m, w.centre, WantedZoom(m, w), animate) :
         n \in IF o.zoom # m.zoom THEN CatchUp(o, want) ELSE {o}
  BY DEF SetView
<1>3. /\ o \in Maps /\ o.size = m.size /\ o.target = m.target
      /\ (o.at = w.centre /\ o.zoom = WantedZoom(m, w)) \/ ~Still(o)
      /\ Told(m) \/ (m.target = None /\ ~animate) => Told(o)
  BY <1>1, SetFacts
<1>4. CASE n \in CatchUp(o, want)
  BY <1>3, <1>4, CatchUpFacts
<1>5. CASE n = o
  BY <1>3, <1>5 DEF OnTarget, WantedZoom
<1> QED
  BY <1>2, <1>4, <1>5

------------------------------------------------------------------------------
LEMMA InitMap == MapInit => MapInv
<1> SUFFICES ASSUME MapInit PROVE MapInv
  OBVIOUS
<1>1. <<>> \in Seq(Targets)
  OBVIOUS
<1>2. map \in Maps /\ map.size = size /\ map.target = None /\ map.frames = <<>>
  BY <1>1 DEF MapInit, Maps, Wants
<1>3. held = None /\ want # None
  BY MapAssumption DEF MapInit
<1> QED
  BY <1>2, <1>3 DEF MapInit, MapInv, MapTypeOK, Untouched, Still, SizesKnown, RestsOnTarget

LEMMA TurnOrMove ==
    ASSUME MapInv, TurnKnob \/ MoveTo
    PROVE  MapInv'
<1>1. /\ want' \in Wants
      /\ want' = want \/ held # want'
      /\ UNCHANGED <<held, size, lastSize, reported, map>>
  <2>1. CASE TurnKnob
    <3>1. PICK direction \in {"in", "out"} :
             want' = [want EXCEPT !.range = StepRange(want.range, direction)]
      BY <2>1 DEF TurnKnob
    <3>2. want.range \in 1 .. Len(Ranges) /\ Len(Ranges) \in Nat /\ want \in Wants
      BY MapAssumption DEF MapInv, MapTypeOK, Wants
    <3>3. StepRange(want.range, direction) \in 1 .. Len(Ranges)
      BY <3>2 DEF StepRange
    <3> QED
      BY <2>1, <3>1, <3>2, <3>3 DEF TurnKnob, EffectPending, Wants
  <2>2. CASE MoveTo
    BY <2>2 DEF MoveTo, EffectPending, MapInv, MapTypeOK, Wants
  <2> QED
    BY <2>1, <2>2
<1> QED
  BY <1>1 DEF MapInv, MapTypeOK, Untouched, SizesKnown, RestsOnTarget

LEMMA EffectKeeps ==
    ASSUME ResizesInTime, MapInv, Effect
    PROVE  MapInv'
<1> DEFINE animate == held # None /\ held.centre = want.centre
<1>1. map' \in SetView(map, want.centre, WantedZoom(map, want), animate)
  BY DEF Effect
<1>2. held' = want /\ lastSize' = size /\ reported' = None /\ UNCHANGED <<want, size>>
  BY DEF Effect
<1>3. want \in Wants /\ want # None /\ map \in Maps
  BY WantsFacts DEF MapInv, MapTypeOK
<1>4. Told(map) \/ (map.target = None /\ ~animate)
  BY DEF MapInv, Untouched, Still
<1>5. animate \in BOOLEAN
  OBVIOUS
<1> HIDE DEF animate
<1>6. /\ map' \in Maps /\ map'.size = map.size
      /\ OnTarget(map', want) \/ ~Still(map')
      /\ Told(map')
  BY <1>1, <1>3, <1>4, <1>5, SetViewFacts
<1>7. map.size = size
  <2>1. CASE held = None
    BY <2>1 DEF MapInv, Untouched
  <2>2. CASE held # None
    <3>1. reported = size /\ size # None
      BY <2>2, MapAssumption DEF Effect, MapInv, MapTypeOK
    <3> QED
      BY <2>2, <3>1 DEF MapInv, SizesKnown
  <2> QED
    BY <2>1, <2>2
<1>8. MapTypeOK'
  BY <1>2, <1>6 DEF MapInv, MapTypeOK
<1>9. Untouched' /\ SizesKnown'
  BY <1>2, <1>3, <1>6, <1>7, MapAssumption DEF Untouched, SizesKnown, MapInv, MapTypeOK
<1>10. RestsOnTarget'
  BY <1>2, <1>6 DEF RestsOnTarget, OnTarget, WantedZoom
<1> QED
  BY <1>6, <1>8, <1>9, <1>10 DEF MapInv, Told

LEMMA ObserveKeeps ==
    ASSUME MapInv, Observe
    PROVE  MapInv'
<1> DEFINE m == Invalidated(map)
<1>1. /\ held # None /\ held \in Wants /\ want \in Wants /\ map \in Maps /\ size \in Sizes
      /\ size # None
  BY MapAssumption DEF Observe, MapInv, MapTypeOK
<1>2. reported' = size /\ lastSize' = size /\ UNCHANGED <<want, held, size>>
  BY DEF Observe
<1>3. Told(map)
  BY <1>1 DEF MapInv
<1>4. CASE size = lastSize
  <2>1. map' = map /\ map.size = size
    BY <1>1, <1>4 DEF Observe, MapInv, SizesKnown
  <2> QED
    BY <1>1, <1>2, <1>4, <2>1 DEF MapInv, MapTypeOK, Untouched, SizesKnown, RestsOnTarget
<1>5. CASE size # lastSize
  <2>1. map' \in SetView(m, held.centre, WantedZoom(m, held), FALSE)
    BY <1>5 DEF Observe
  <2>2. m \in Maps /\ m.size = size /\ m.target = map.target /\ Told(m)
    <3>1. CASE map.size = size
      BY <1>1, <1>3, <3>1 DEF Invalidated
    <3>2. CASE map.size # size
      <4>1. m = [map EXCEPT !.size = size, !.at = None,
                            !.box = [at |-> None, zoom |-> map.zoom, size |-> size]]
        BY <1>1, <3>2 DEF Invalidated, Report, Maps
      <4>2. [at |-> None, zoom |-> map.zoom, size |-> size] \in Boxes
        BY <1>1 DEF Boxes, Maps
      <4> QED
        BY <1>1, <4>1, <4>2 DEF Maps, Told
    <3> QED
      BY <3>1, <3>2
  <2> HIDE DEF m
  <2>3. /\ map' \in Maps /\ map'.size = size
        /\ held = want => OnTarget(map', want) \/ ~Still(map')
        /\ Told(map')
    BY <1>1, <2>1, <2>2, SetViewFacts
  <2>4. MapTypeOK'
    BY <1>1, <1>2, <2>3 DEF MapInv, MapTypeOK
  <2>5. Untouched' /\ SizesKnown'
    BY <1>1, <1>2, <2>3 DEF Untouched, SizesKnown
  <2>6. RestsOnTarget'
    BY <1>2, <2>3 DEF RestsOnTarget, OnTarget, WantedZoom
  <2> QED
    BY <2>3, <2>4, <2>5, <2>6 DEF MapInv, Told
<1> QED
  BY <1>4, <1>5

LEMMA ResizesKeep ==
    ASSUME MapInv, Resize \/ WindowResized
    PROVE  MapInv'
<1>1. CASE Resize
  <2>1. /\ held # None /\ size' \in Sizes /\ UNCHANGED <<want, held, lastSize, reported, map>>
        /\ map.size # size \/ lastSize = size
    BY <1>1 DEF Resize, InFrame
  <2>2. map.size = lastSize
    BY <2>1 DEF MapInv, SizesKnown
  <2> QED
    BY <2>1, <2>2 DEF MapInv, MapTypeOK, Untouched, SizesKnown, RestsOnTarget
<1>2. CASE WindowResized
  <2>1. /\ map.size # size /\ map' = Report([map EXCEPT !.size = size])
        /\ UNCHANGED <<want, held, size, lastSize, reported>>
    BY <1>2 DEF WindowResized
  <2>2. map \in Maps /\ size \in Sizes
    BY DEF MapInv, MapTypeOK
  <2>3. map' = [map EXCEPT !.size = size, !.box = [at |-> map.at, zoom |-> map.zoom, size |-> size]]
    BY <2>1, <2>2 DEF Report, Maps
  <2>4. [at |-> map.at, zoom |-> map.zoom, size |-> size] \in Boxes
    BY <2>2 DEF Boxes, Maps
  <2>5. map' \in Maps /\ map'.size = size /\ Told(map')
    BY <2>2, <2>3, <2>4 DEF Maps, Told
  <2>6. held # None /\ map.size = lastSize
    BY <2>1 DEF MapInv, Untouched, SizesKnown
  <2>7. MapTypeOK' /\ Untouched' /\ SizesKnown' /\ RestsOnTarget'
    BY <2>1, <2>5, <2>6 DEF MapInv, MapTypeOK, Untouched, SizesKnown, RestsOnTarget
  <2> QED
    BY <2>5, <2>7 DEF MapInv, Told
<1> QED
  BY <1>1, <1>2

LEMMA AnimationsKeep ==
    ASSUME MapInv, Frame \/ ZoomEnds
    PROVE  MapInv'
<1>1. /\ map \in Maps /\ want \in Wants /\ held # None
      /\ UNCHANGED <<want, held, size, lastSize, reported>>
  BY DEF MapInv, MapTypeOK, Untouched, Still, Frame, ZoomEnds
<1>2. ASSUME NEW m \in Maps, m.size = map.size, map' = m, Told(m), OnTarget(m, want) \/ ~Still(m)
      PROVE  MapInv'
  <2>1. MapTypeOK' /\ Untouched' /\ SizesKnown'
    BY <1>1, <1>2 DEF MapInv, MapTypeOK, Untouched, SizesKnown
  <2>2. RestsOnTarget'
    BY <1>1, <1>2 DEF RestsOnTarget, OnTarget, WantedZoom
  <2> QED
    BY <1>2, <2>1, <2>2 DEF MapInv, Told
<1>3. CASE Frame
  <2> DEFINE head == Head(map.frames)
             tail == Tail(map.frames)
  <2>1. /\ map.frames \in Seq(Targets) /\ map.frames # <<>>
        /\ map' = [map EXCEPT !.target = head, !.frames = tail, !.at = head.at,
                              !.zoom = head.zoom]
    BY <1>1, <1>3 DEF Frame, Maps
  <2>2. head \in Targets /\ tail \in Seq(Targets)
    BY <2>1
  <2> HIDE DEF head, tail
  <2>3. head # None /\ head.at \in Centres /\ head.zoom \in Zooms
    BY <2>2, MapAssumption DEF Targets
  <2>4. map' \in Maps /\ map'.target = head /\ map'.size = map.size
    BY <1>1, <2>1, <2>2, <2>3 DEF Maps
  <2> QED
    BY <1>2, <2>3, <2>4 DEF Told, Still
<1>4. CASE ZoomEnds
  <2> DEFINE n == [map EXCEPT !.target = None]
             o == Move(n, map.target.at, map.target.zoom)
  <2>1. map.target # None /\ map' \in CatchUp(o, want)
    BY <1>4, Zenon DEF ZoomEnds
  <2>2. map.target.at \in Centres /\ map.target.zoom \in Zooms
    <3>1. map.target \in Targets
      BY <1>1, <2>1 DEF Maps
    <3> QED
      BY <3>1 DEF Targets
  <2>3. n \in Maps /\ n.size = map.size
    BY <1>1 DEF Maps
  <2> HIDE DEF n
  <2>4. o \in Maps /\ o.size = map.size /\ Told(o)
    <3> DEFINE c == map.target.at
               z == map.target.zoom
    <3>1. c \in Centres /\ z \in Zooms /\ o = Move(n, c, z)
      BY <2>2
    <3> HIDE DEF c, z, o
    <3> QED
      BY <2>3, <3>1, MoveFacts
  <2> HIDE DEF o
  <2>5. /\ map' \in Maps /\ map'.size = map.size /\ Told(map')
        /\ OnTarget(map', want) \/ ~Still(map')
    BY <1>1, <2>1, <2>4, CatchUpFacts
  <2> QED
    BY <1>2, <2>5
<1> QED
  BY <1>3, <1>4

LEMMA MapInvNext ==
    ASSUME ResizesInTime, MapInv, [MapNext]_mapVars
    PROVE  MapInv'
<1>1. CASE UNCHANGED mapVars
  BY <1>1 DEF mapVars, MapInv, MapTypeOK, Untouched, SizesKnown, RestsOnTarget, Told, Still,
     OnTarget, WantedZoom
<1> QED
  BY <1>1, TurnOrMove, EffectKeeps, ObserveKeeps, ResizesKeep, AnimationsKeep DEF MapNext

\* RadarMap.tsx:52-58 and 99-104.  However many steps of the knob, moves and changes
\* of size have met with however many animations, what is left when nothing moves any
\* more is the last centre and range, in the container as it is, and the coastline of
\* that view.
THEOREM MapHoldsTheView == ASSUME ResizesInTime PROVE MapSpec => []HoldsTheView
<1>1. MapInv /\ [MapNext]_mapVars => MapInv'
  BY MapInvNext
<1>2. MapInv => HoldsTheView
  <2> SUFFICES ASSUME MapInv, Quiet
               PROVE  /\ map.at = want.centre
                      /\ map.zoom = ZoomForRange(want.range, size, want.centre)
                      /\ map.box = [at |-> map.at, zoom |-> map.zoom, size |-> size]
    BY DEF HoldsTheView
  <2>1. held = want /\ held # None /\ reported = size /\ reported # None /\ Still(map)
    BY WantsFacts, MapAssumption DEF Quiet, EffectPending, Still, MapInv, MapTypeOK
  <2>2. map.size = size /\ map.size = lastSize
    BY <2>1 DEF MapInv, SizesKnown
  <2>3. OnTarget(map, want) /\ Told(map)
    BY <2>1, <2>2 DEF MapInv, RestsOnTarget
  <2> QED
    BY <2>1, <2>2, <2>3 DEF OnTarget, WantedZoom, Told, Still
<1> QED
  BY <1>1, <1>2, InitMap, PTL DEF MapSpec

------------------------------------------------------------------------------
(* Least and greatest.                                                      *)

LEMMA Least ==
    ASSUME NEW T \in SUBSET Nat, T # {}
    PROVE  \E x \in T : \A y \in T : x <= y
<1>1. PICK x \in T : \A y \in T : ~(<<y, x>> \in OpToRel(<, Nat))
  BY NatLessThanWellFounded, WFMin, Zenon
<1>2. \A y \in T : ~(y < x)
  BY <1>1 DEF OpToRel
<1> QED
  BY <1>2

LEMMA LeastOfInterval ==
    ASSUME NEW a \in Int, NEW b \in Int, NEW T \in SUBSET (a .. b), T # {}
    PROVE  /\ Min(T) \in T /\ \A y \in T : Min(T) <= y
           /\ Max(T) \in T /\ \A y \in T : Max(T) >= y
<1>1. \E x \in T : \A y \in T : x <= y
  <2> DEFINE U == {y - a : y \in T}
  <2>1. \A y \in T : y \in Int /\ y - a \in Nat
    OBVIOUS
  <2>2. U \in SUBSET Nat /\ U # {}
    BY <2>1
  <2>3. PICK u \in U : \A v \in U : u <= v
    <3> HIDE DEF U
    <3> QED
      BY <2>2, Least
  <2>4. PICK x \in T : u = x - a
    OBVIOUS
  <2>5. \A y \in T : x - a <= y - a
    BY <2>3, <2>4
  <2> QED
    BY <2>1, <2>5
<1>2. \E x \in T : \A y \in T : x >= y
  <2> DEFINE U == {b - y : y \in T}
  <2>1. \A y \in T : y \in Int /\ b - y \in Nat
    OBVIOUS
  <2>2. U \in SUBSET Nat /\ U # {}
    BY <2>1
  <2>3. PICK u \in U : \A v \in U : u <= v
    <3> HIDE DEF U
    <3> QED
      BY <2>2, Least
  <2>4. PICK x \in T : u = b - x
    OBVIOUS
  <2>5. \A y \in T : b - x <= b - y
    BY <2>3, <2>4
  <2> QED
    BY <2>1, <2>5
<1> QED
  BY <1>1, <1>2 DEF Min, Max

LEMMA OfTwo ==
    ASSUME NEW a \in Int, NEW b \in Int
    PROVE  /\ Max({a, b}) = IF a >= b THEN a ELSE b
           /\ Min({a, b}) = IF a <= b THEN a ELSE b
BY DEF Max, Min

------------------------------------------------------------------------------
(* The search for features.                                                 *)

LEMMA IndexOfFacts ==
    ASSUME NEW s \in Seq(Characters), NEW tag \in Seq(Characters), Len(tag) > 0,
           NEW from \in Nat, from >= 1
    PROVE  LET i == IndexOf(s, tag, from) IN
           /\ i \in Nat
           /\ i # 0 => /\ from <= i /\ i + Len(tag) <= Len(s) + 1
                       /\ SubSeq(s, i, i + Len(tag) - 1) = tag
                       /\ \A j \in from .. i - 1 : SubSeq(s, j, j + Len(tag) - 1) # tag
           /\ i = 0 => \A j \in from .. Len(s) - Len(tag) + 1 :
                           SubSeq(s, j, j + Len(tag) - 1) # tag
<1> DEFINE at == {i \in from .. Len(s) - Len(tag) + 1 : SubSeq(s, i, i + Len(tag) - 1) = tag}
<1>1. Len(s) \in Nat /\ Len(tag) \in Nat
  BY LenProperties
<1>2. PICK i : i = IndexOf(s, tag, from)
  OBVIOUS
<1>3. CASE at = {}
  <2>1. i = 0
    BY <1>2, <1>3 DEF IndexOf
  <2>2. \A j \in from .. Len(s) - Len(tag) + 1 : SubSeq(s, j, j + Len(tag) - 1) # tag
    BY <1>3
  <2>3. i \in Nat
    BY <2>1
  <2> HIDE DEF at
  <2> QED
    BY <1>2, <2>1, <2>2, <2>3, Zenon
<1>4. CASE at # {}
  <2>1. i = Min(at)
    BY <1>2, <1>4 DEF IndexOf
  <2>2. Min(at) \in at /\ \A y \in at : Min(at) <= y
    <3>1. PICK b \in Int : b = Len(s) - Len(tag) + 1
      BY <1>1
    <3>2. at \in SUBSET (from .. b) /\ from \in Int
      BY <3>1
    <3> HIDE DEF at
    <3> QED
      BY <1>4, <3>1, <3>2, LeastOfInterval
  <2>3. /\ i \in from .. Len(s) - Len(tag) + 1 /\ SubSeq(s, i, i + Len(tag) - 1) = tag
        /\ \A y \in at : i <= y
    BY <2>1, <2>2
  <2>4. \A j \in from .. i - 1 : SubSeq(s, j, j + Len(tag) - 1) # tag
    <3> SUFFICES ASSUME NEW j \in from .. i - 1, SubSeq(s, j, j + Len(tag) - 1) = tag
                 PROVE  FALSE
      OBVIOUS
    <3>1. j \in from .. Len(s) - Len(tag) + 1
      BY <1>1, <2>3
    <3>2. i <= j
      BY <2>3, <3>1
    <3> QED
      BY <2>3, <3>2
  <2> HIDE DEF at
  <2>5. i \in Nat /\ i # 0 /\ from <= i /\ i + Len(tag) <= Len(s) + 1
    BY <1>1, <2>3
  <2> QED
    BY <1>2, <2>3, <2>4, <2>5, Zenon
<1> QED
  BY <1>3, <1>4

Results == [features : Seq(Seq(Characters)), from : Nat \ {0}]

\* A search that starts at from depends on what is found after that only.
LEMMA SearchDepends ==
    ASSUME NEW s \in Seq(Characters), NEW from \in 1 .. Len(s) + 1, NEW f, NEW g,
           \A i \in from + 1 .. Len(s) + 1 : f[i] = g[i]
    PROVE  Search(s, f, from) = Search(s, g, from)
<1> DEFINE start == IndexOf(s, OpenTag, from)
           end   == IF start = 0 THEN 0 ELSE IndexOf(s, CloseTag, start)
<1>1. /\ OpenTag \in Seq(Characters) /\ CloseTag \in Seq(Characters)
      /\ Len(OpenTag) > 0 /\ Len(CloseTag) > 0
      /\ Len(s) \in Nat /\ Len(CloseTag) \in Nat /\ from \in Nat /\ from >= 1
  BY BuildAssumption, LenProperties
<1>2. start \in Nat /\ (start # 0 => start >= from)
  BY <1>1, IndexOfFacts
<1> HIDE DEF start
<1>3. end \in Nat /\ (end # 0 => /\ start # 0 /\ end >= start
                                 /\ end + Len(CloseTag) <= Len(s) + 1)
  <2>1. CASE start = 0
    BY <2>1
  <2>2. CASE start # 0
    <3>1. start >= 1
      BY <1>2, <2>2
    <3> QED
      BY <1>1, <1>2, <2>2, <3>1, IndexOfFacts
  <2> QED
    BY <2>1, <2>2
<1>4. end # 0 => f[end + Len(CloseTag)] = g[end + Len(CloseTag)]
  BY <1>1, <1>2, <1>3
<1>5. \A h : Search(s, h, from) =
        IF end = 0 THEN [features |-> <<>>, from |-> IF start = 0 THEN from ELSE start]
        ELSE [features |-> <<SubSeq(s, start, end - 1)>> \o h[end + Len(CloseTag)].features,
              from |-> h[end + Len(CloseTag)].from]
  BY DEF Search, start
<1> QED
  BY <1>4, <1>5

LEMMA SearchType ==
    ASSUME NEW s \in Seq(Characters), NEW from \in 1 .. Len(s) + 1, NEW f,
           \A i \in from + 1 .. Len(s) + 1 : f[i] \in Results
    PROVE  Search(s, f, from) \in Results
<1> DEFINE start == IndexOf(s, OpenTag, from)
           end   == IF start = 0 THEN 0 ELSE IndexOf(s, CloseTag, start)
<1>1. /\ OpenTag \in Seq(Characters) /\ CloseTag \in Seq(Characters)
      /\ Len(OpenTag) > 0 /\ Len(CloseTag) > 0
      /\ Len(s) \in Nat /\ Len(CloseTag) \in Nat /\ from \in Nat /\ from >= 1
  BY BuildAssumption, LenProperties
<1>2. start \in Nat /\ (start # 0 => start >= from)
  BY <1>1, IndexOfFacts
<1> HIDE DEF start
<1>3. end \in Nat /\ (end # 0 => /\ start # 0 /\ end >= start
                                 /\ end + Len(CloseTag) <= Len(s) + 1)
  <2>1. CASE start = 0
    BY <2>1
  <2>2. CASE start # 0
    <3>1. start >= 1
      BY <1>2, <2>2
    <3> QED
      BY <1>1, <1>2, <2>2, <3>1, IndexOfFacts
  <2> QED
    BY <2>1, <2>2
<1>4. Search(s, f, from) =
        IF end = 0 THEN [features |-> <<>>, from |-> IF start = 0 THEN from ELSE start]
        ELSE [features |-> <<SubSeq(s, start, end - 1)>> \o f[end + Len(CloseTag)].features,
              from |-> f[end + Len(CloseTag)].from]
  BY DEF Search, start
<1> HIDE DEF end
<1>5. CASE end = 0
  <2>1. <<>> \in Seq(Seq(Characters))
    BY EmptySeq
  <2> QED
    BY <1>1, <1>2, <1>4, <1>5, <2>1 DEF Results
<1>6. CASE end # 0
  <2>1. f[end + Len(CloseTag)] \in Results
    BY <1>1, <1>2, <1>3, <1>6
  <2>2. SubSeq(s, start, end - 1) \in Seq(Characters)
    <3>1. start \in Int /\ end - 1 \in Int /\ \A i \in start .. end - 1 : i \in 1 .. Len(s)
      BY <1>1, <1>2, <1>3, <1>6
    <3>2. \A i \in start .. end - 1 : s[i] \in Characters
      BY <3>1, ElementOfSeq
    <3> QED
      BY <3>1, <3>2, SubSeqProperties
  <2>3. <<SubSeq(s, start, end - 1)>> \in Seq(Seq(Characters))
    BY <2>2
  <2>4. PICK one \in Seq(Seq(Characters)) : one = <<SubSeq(s, start, end - 1)>>
    BY <2>3
  <2>5. PICK rest \in Results : rest = f[end + Len(CloseTag)]
    BY <2>1
  <2>6. one \o rest.features \in Seq(Seq(Characters)) /\ rest.from \in Nat \ {0}
    BY ConcatProperties DEF Results
  <2> QED
    BY <1>4, <1>6, <2>4, <2>5, <2>6 DEF Results
<1> QED
  BY <1>5, <1>6

\* The recursion of Scan is well-founded: there is one function that satisfies it.
LEMMA ScanUnfolds ==
    ASSUME NEW s \in Seq(Characters)
    PROVE  \E scan \in [1 .. Len(s) + 1 -> Results] :
              /\ scan = [from \in 1 .. Len(s) + 1 |-> Search(s, scan, from)]
              /\ Scan(s) = scan[1]
<1> DEFINE n == Len(s) + 1
           D == 1 .. n
           Upto(g, m) == \A from \in D : from > n - m => g[from] = Search(s, g, from)
           Bad == {m \in Nat : m <= n /\ ~\E g : Upto(g, m)}
<1>1. n \in Nat /\ n >= 1
  BY LenProperties
<1>2. \E g : Upto(g, n)
  <2> SUFFICES ASSUME Bad # {} PROVE FALSE
    BY <1>1
  <2>1. PICK m \in Bad : \A k \in Bad : m <= k
    <3>1. Bad \in SUBSET Nat
      OBVIOUS
    <3> HIDE DEF Bad
    <3> QED
      BY <3>1, Least
  <2>2. CASE m = 0
    BY <1>1, <2>2
  <2>3. CASE m # 0
    <3>1. m - 1 \in Nat /\ m - 1 <= n /\ m \in Nat /\ m <= n /\ ~(m <= m - 1)
      BY <1>1, <2>1, <2>3
    <3>2. m - 1 \notin Bad
      BY <2>1, <3>1
    <3>3. PICK k \in D : k = n - m + 1
      <4>1. n - m + 1 \in D
        BY <1>1, <2>3, <3>1
      <4> QED
        BY <4>1
    <3>5. PICK g : Upto(g, m - 1)
      BY <3>1, <3>2
    <3> DEFINE h == [from \in D |-> IF from = k THEN Search(s, g, k) ELSE g[from]]
    <3>4. \A from \in D : from > n - m => h[from] = Search(s, h, from)
      <4> SUFFICES ASSUME NEW from \in D, from > n - m
                   PROVE  h[from] = Search(s, h, from)
        OBVIOUS
      <4>1. \A i \in from + 1 .. Len(s) + 1 : g[i] = h[i]
        BY <1>1, <3>3
      <4> HIDE DEF h
      <4>2. Search(s, g, from) = Search(s, h, from)
        BY <4>1, SearchDepends
      <4> USE DEF h
      <4>3. CASE from = k
        BY <4>2, <4>3
      <4>4. CASE from # k
        <5>1. from > n - (m - 1)
          BY <1>1, <3>3, <4>4
        <5>2. g[from] = Search(s, g, from)
          BY <3>5, <5>1
        <5>3. h[from] = g[from]
          BY <4>4
        <5> QED
          BY <4>2, <5>2, <5>3
      <4> QED
        BY <4>3, <4>4
    <3> HIDE DEF h
    <3> QED
      BY <3>4
  <2> QED
    BY <2>2, <2>3
<1>3. \E g : g = [from \in D |-> Search(s, g, from)]
  <2>1. PICK g : Upto(g, n)
    BY <1>2
  <2> DEFINE h == [from \in D |-> g[from]]
  <2>2. \A from \in D : h[from] = Search(s, h, from)
    <3> SUFFICES ASSUME NEW from \in D PROVE h[from] = Search(s, h, from)
      OBVIOUS
    <3>1. \A i \in from + 1 .. Len(s) + 1 : g[i] = h[i]
      BY <1>1
    <3>2. h[from] = g[from]
      OBVIOUS
    <3> HIDE DEF h
    <3>3. Search(s, g, from) = Search(s, h, from)
      BY <3>1, SearchDepends
    <3>4. g[from] = Search(s, g, from)
      BY <1>1, <2>1
    <3> QED
      BY <3>2, <3>3, <3>4
  <2>3. h = [from \in D |-> h[from]]
    OBVIOUS
  <2> HIDE DEF h
  <2>4. h = [from \in D |-> Search(s, h, from)]
    BY <2>2, <2>3
  <2> QED
    BY <2>4
<1>4. PICK scan : scan = [from \in D |-> Search(s, scan, from)] /\ Scan(s) = scan[1]
  BY <1>3 DEF Scan
<1>5. \A from \in D : scan[from] \in Results
  <2> DEFINE Wrong == {m \in Nat : n - m \in D /\ scan[n - m] \notin Results}
  <2> SUFFICES ASSUME Wrong # {} PROVE FALSE
    <3>1. \A from \in D : n - from \in Nat /\ n - (n - from) = from
      BY <1>1
    <3> QED
      BY <3>1
  <2>1. PICK m \in Wrong : \A k \in Wrong : m <= k
    <3>1. Wrong \in SUBSET Nat
      OBVIOUS
    <3> HIDE DEF Wrong
    <3> QED
      BY <3>1, Least
  <2>2. PICK from \in D : from = n - m
    OBVIOUS
  <2>3. \A i \in from + 1 .. Len(s) + 1 : scan[i] \in Results
    <3> SUFFICES ASSUME NEW i \in from + 1 .. n, scan[i] \notin Results PROVE FALSE
      OBVIOUS
    <3>1. n - i \in Nat /\ n - (n - i) = i /\ i \in D /\ n - i < m
      BY <1>1, <2>2
    <3>2. n - i \in Wrong
      BY <3>1
    <3> QED
      BY <2>1, <3>1, <3>2
  <2>4. scan[from] = Search(s, scan, from)
    BY <1>4
  <2>5. scan[from] \in Results
    BY <2>3, <2>4, SearchType
  <2> QED
    BY <2>1, <2>2, <2>5
<1>6. scan \in [D -> Results]
  BY <1>4, <1>5
<1> QED
  BY <1>4, <1>6

------------------------------------------------------------------------------
(* The lists of the features.                                               *)

LEMMA PosListsOfConcat ==
    ASSUME NEW f \in Seq(Seq(Characters)), NEW g \in Seq(Seq(Characters))
    PROVE  PosListsOf(f \o g) = PosListsOf(f) \cup PosListsOf(g)
<1>1. Range(f \o g) = Range(f) \cup Range(g)
  <2>1. /\ f \o g \in Seq(Seq(Characters)) /\ Len(f \o g) = Len(f) + Len(g)
        /\ \A i \in 1 .. Len(f) + Len(g) :
              (f \o g)[i] = IF i <= Len(f) THEN f[i] ELSE g[i - Len(f)]
    BY ConcatProperties
  <2>2. PICK h \in Seq(Seq(Characters)) : h = f \o g
    BY <2>1
  <2>3. /\ Len(f) \in Nat /\ Len(g) \in Nat
        /\ DOMAIN f = 1 .. Len(f) /\ DOMAIN g = 1 .. Len(g) /\ DOMAIN h = 1 .. Len(h)
    BY LenProperties
  <2>4. \A i \in DOMAIN h : (i \in DOMAIN f /\ h[i] = f[i])
                            \/ (i - Len(f) \in DOMAIN g /\ h[i] = g[i - Len(f)])
    BY <2>1, <2>2, <2>3
  <2>5. \A i \in DOMAIN f : i \in DOMAIN h /\ h[i] = f[i]
    BY <2>1, <2>2, <2>3
  <2>6. \A i \in DOMAIN g : i + Len(f) \in DOMAIN h /\ h[i + Len(f)] = g[i]
    BY <2>1, <2>2, <2>3
  <2>7. Range(h) \subseteq Range(f) \cup Range(g)
    BY <2>4 DEF Range
  <2>8. Range(f) \subseteq Range(h) /\ Range(g) \subseteq Range(h)
    BY <2>5, <2>6 DEF Range
  <2> QED
    BY <2>2, <2>7, <2>8
<1> QED
  BY <1>1 DEF PosListsOf

LEMMA PosListIsOne ==
    ASSUME NEW f \in Seq(Characters), Range(f) \cap PosLists # {}
    PROVE  PosListOf(f) \in PosLists
<1> DEFINE I == {i \in 1 .. Len(f) : f[i] \in PosLists}
<1>1. Len(f) \in Nat /\ DOMAIN f = 1 .. Len(f)
  BY LenProperties
<1>2. I # {} /\ I \in SUBSET (1 .. Len(f)) /\ 1 \in Int /\ Len(f) \in Int
  BY <1>1 DEF Range
<1>3. PosListOf(f) = f[Min(I)]
  BY <1>2 DEF PosListOf, SelectInSeq
<1>4. Min(I) \in I
  <2> HIDE DEF I
  <2> QED
    BY <1>2, LeastOfInterval
<1> QED
  BY <1>3, <1>4

------------------------------------------------------------------------------
(* What is kept of a line, in order.                                        *)

\* The n-th of a set of vertices.
LEMMA Nth ==
    ASSUME NEW m \in Nat, NEW K \in SUBSET (1 .. m), NEW n \in 1 .. Cardinality(K)
    PROVE  \E i \in K : Cardinality({j \in K : j <= i}) = n
<1>1. IsFiniteSet(1 .. m) /\ 1 \in Int /\ m \in Int
  BY FS_Interval
<1>2. \A T \in SUBSET K : IsFiniteSet(T) /\ Cardinality(T) \in Nat
  BY <1>1, FS_Subset, FS_CardinalityType
<1> DEFINE C(i) == Cardinality({j \in K : j <= i})
           B == {i \in K : C(i) >= n}
<1>3. \A T \in SUBSET K : T # {} =>
        /\ Min(T) \in T /\ \A y \in T : Min(T) <= y
        /\ Max(T) \in T /\ \A y \in T : Max(T) >= y
  BY <1>1, LeastOfInterval
<1>4. K # {}
  BY FS_EmptySet
<1>5. B # {}
  <2>1. PICK i \in K : \A y \in K : i >= y
    BY <1>3, <1>4
  <2>2. {j \in K : j <= i} = K
    BY <2>1
  <2>3. C(i) = Cardinality(K)
    BY <2>2
  <2> QED
    BY <1>2, <2>3
<1>6. PICK i \in B : \A y \in B : i <= y
  <2>1. B \in SUBSET K
    OBVIOUS
  <2> HIDE DEF B
  <2> QED
    BY <1>3, <1>5, <2>1
<1>7. ASSUME C(i) > n PROVE FALSE
  <2> DEFINE upto == {j \in K : j <= i}
             less == {j \in K : j < i}
  <2>1. less = upto \ {i} /\ i \in upto /\ upto \in SUBSET K /\ less \in SUBSET K
    <3>1. i \in K /\ i \in Int /\ \A j \in K : j \in Int
      OBVIOUS
    <3>2. \A j \in K : j < i <=> (j <= i /\ j # i)
      BY <3>1
    <3>3. i \in upto
      BY <3>1
    <3> QED
      BY <3>2, <3>3, Zenon
  <2>2. Cardinality(upto) = C(i)
    OBVIOUS
  <2> HIDE DEF upto, less, C
  <2>3. Cardinality(less) = Cardinality(upto) - 1
    BY <1>2, <2>1, FS_RemoveElement
  <2>4. Cardinality(less) \in Nat /\ Cardinality(upto) \in Nat
    BY <1>2, <2>1
  <2>5. Cardinality(less) >= n
    BY <1>7, <2>2, <2>3, <2>4
  <2>6. less # {}
    BY <2>5, FS_EmptySet
  <2>7. PICK p \in less : \A y \in less : p >= y
    BY <1>3, <2>1, <2>6
  <2> USE DEF less
  <2>8. {j \in K : j <= p} = less
    <3>1. i \in Int /\ p \in K /\ p < i /\ \A j \in K : j \in Int
      BY <2>7
    <3>2. \A j \in K : j <= p => j < i
      BY <3>1
    <3>3. \A j \in K : j < i => j <= p
      BY <2>7, <3>1
    <3> QED
      BY <3>2, <3>3, Zenon
  <2>9. Cardinality({j \in K : j <= p}) >= n
    BY <2>5, <2>8
  <2>10. p \in B
    BY <2>7, <2>9 DEF C
  <2> QED
    BY <1>6, <2>7, <2>10
<1>8. C(i) \in Nat /\ C(i) >= n /\ n \in Nat
  BY <1>2
<1> HIDE DEF C
<1>9. C(i) = n
  BY <1>7, <1>8
<1> QED
  BY <1>6, <1>9 DEF C

LEMMA KeptAreVertices ==
    ASSUME NEW points
    PROVE  Kept(points) \subseteq DOMAIN points
<1> DEFINE bends == CHOOSE bends : bends = [ends \in (DOMAIN points) \X (DOMAIN points) |->
                           Bends(points, bends, ends[1], ends[2])]
<1>1. Kept(points) = {i \in DOMAIN points : i \in {1, Len(points)} \cup bends[<<1, Len(points)>>]}
  BY DEF Kept
<1> HIDE DEF bends
<1> QED
  BY <1>1

LEMMA LineType ==
    ASSUME NEW points \in Seq(Metres)
    PROVE  Line(points) \in Seq(Int \X Int)
<1> DEFINE kept == Kept(points)
           nth(n) == CHOOSE i \in kept : Cardinality({j \in kept : j <= i}) = n
<1>1. Len(points) \in Nat /\ DOMAIN points = 1 .. Len(points)
  BY LenProperties
<1>2. kept \in SUBSET (1 .. Len(points))
  BY <1>1, KeptAreVertices
<1> HIDE DEF kept
<1>3. Cardinality(kept) \in Nat
  <2>1. 1 \in Int /\ Len(points) \in Int
    BY <1>1
  <2>2. IsFiniteSet(1 .. Len(points))
    BY <2>1, FS_Interval, Zenon
  <2> QED
    BY <1>2, <2>2, FS_Subset, FS_CardinalityType
<1>4. \A n \in 1 .. Cardinality(kept) : nth(n) \in kept
  <2> SUFFICES ASSUME NEW n \in 1 .. Cardinality(kept) PROVE nth(n) \in kept
    OBVIOUS
  <2>1. \E i \in kept : Cardinality({j \in kept : j <= i}) = n
    BY <1>1, <1>2, Nth
  <2> QED
    BY <2>1
<1>5. Simplify(points) = [n \in 1 .. Cardinality(kept) |-> points[nth(n)]]
  BY DEF Simplify, kept
<1> HIDE DEF nth
<1>6. \A n \in 1 .. Cardinality(kept) : points[nth(n)] \in Metres
  BY <1>1, <1>2, <1>4, ElementOfSeq
<1>7. DOMAIN Simplify(points) = 1 .. Cardinality(kept)
      /\ \A n \in 1 .. Cardinality(kept) : Simplify(points)[n] \in Metres
  BY <1>5, <1>6
<1>8. Line(points) = [n \in DOMAIN Simplify(points) |-> Project[Simplify(points)[n]]]
  BY DEF Line
<1>9. Line(points) \in [1 .. Cardinality(kept) -> Int \X Int]
  BY <1>7, <1>8, BuildAssumption
<1> QED
  BY <1>3, <1>9, SeqDef

------------------------------------------------------------------------------
(* Every segment is in the tiles of its ends.                               *)

LEMMA DrawnInMore ==
    ASSUME NEW runs, NEW more, runs \subseteq more, NEW p, NEW q, Drawn(runs, p, q)
    PROVE  Drawn(more, p, q)
BY DEF Drawn

LEMMA ClipCovers ==
    ASSUME NEW line \in Seq(Int \X Int), NEW id, NEW i \in 1 .. Len(line) - 1,
           Inside(line[i], id) \/ Inside(line[i + 1], id)
    PROVE  Drawn(Clip(line, id), line[i], line[i + 1])
<1> DEFINE In(k) == Inside(line[k], id)
<1>1. PICK n \in Nat : n = Len(line)
  BY LenProperties
<1>2. PICK c \in 1 .. n : In(c) /\ (c = i \/ c = i + 1)
  <2>1. i \in 1 .. n /\ i + 1 \in 1 .. n
    BY <1>1
  <2> QED
    BY <2>1
<1> HIDE DEF In
<1>3. PICK a \in 1 .. c : /\ \A k \in a .. c : In(k)
                          /\ a > 1 => ~In(a - 1)
  <2> DEFINE T == {a \in 1 .. c : \A k \in a .. c : In(k)}
  <2>1. c \in T
    BY <1>2
  <2>2. T \in SUBSET (1 .. c) /\ T # {}
    BY <2>1
  <2>5. 1 \in Int /\ c \in Int
    BY <1>2
  <2> HIDE DEF T
  <2>3. PICK a \in T : \A y \in T : a <= y
    BY <2>2, <2>5, LeastOfInterval
  <2> USE DEF T
  <2>4. ASSUME a > 1, In(a - 1) PROVE FALSE
    <3>1. a - 1 \in 1 .. c /\ \A k \in a - 1 .. c : k = a - 1 \/ k \in a .. c
      BY <2>4
    <3>2. a - 1 \in T
      BY <2>4, <3>1
    <3>3. a \in Int /\ ~(a <= a - 1)
      BY <2>5
    <3> QED
      BY <2>3, <3>2, <3>3
  <2> QED
    BY <2>3, <2>4
<1>4. PICK b \in c .. n : /\ \A k \in c .. b : In(k)
                          /\ b < n => ~In(b + 1)
  <2> DEFINE T == {b \in c .. n : \A k \in c .. b : In(k)}
  <2>1. c \in T
    BY <1>2
  <2>2. T \in SUBSET (c .. n) /\ T # {}
    BY <2>1
  <2>5. n \in Int /\ c \in Int
    BY <1>2
  <2> HIDE DEF T
  <2>3. PICK b \in T : \A y \in T : b >= y
    BY <2>2, <2>5, LeastOfInterval
  <2> USE DEF T
  <2>4. ASSUME b < n, In(b + 1) PROVE FALSE
    <3>1. b + 1 \in c .. n /\ \A k \in c .. b + 1 : k = b + 1 \/ k \in c .. b
      BY <2>4
    <3>2. b + 1 \in T
      BY <2>4, <3>1
    <3>3. b \in Int /\ ~(b >= b + 1)
      BY <2>5
    <3> QED
      BY <2>3, <3>2, <3>3
  <2> QED
    BY <2>3, <2>4
<1>5. <<a, b>> \in Stretches(line, id)
  <2>1. DOMAIN line = 1 .. n
    BY <1>1, LenProperties
  <2>2. /\ a \in 1 .. n /\ b \in 1 .. n /\ a <= b
        /\ \A k \in a .. b : k \in a .. c \/ k \in c .. b
    OBVIOUS
  <2>3. \A k \in a .. b : In(k)
    BY <1>3, <1>4, <2>2
  <2> QED
    BY <1>1, <1>3, <1>4, <2>1, <2>2, <2>3 DEF Stretches, In
<1>6. PICK f : f = Max({1, a - 1})
  OBVIOUS
<1>7. PICK t : t = Min({n, b + 1})
  OBVIOUS
<1>20. /\ a \in Int /\ a - 1 \in Int /\ b \in Int /\ b + 1 \in Int /\ n \in Int /\ i \in Int
       /\ 1 <= a /\ a <= c /\ c <= b /\ b <= n /\ 1 <= i /\ i + 1 <= n
  BY <1>1, <1>2
<1>8. f = IF 1 >= a - 1 THEN 1 ELSE a - 1
  BY <1>6, <1>20, OfTwo
<1>9. t = IF n <= b + 1 THEN n ELSE b + 1
  BY <1>7, <1>20, OfTwo
<1>10. /\ f \in 1 .. n /\ t \in 1 .. n /\ f <= i /\ i + 1 <= t
  <2>1. CASE c = i
    <3>2. f \in 1 .. n /\ f <= i
      BY <1>20, <1>8, <2>1
    <3>3. t \in 1 .. n /\ i + 1 <= t
      BY <1>20, <1>9, <2>1
    <3> QED
      BY <3>2, <3>3
  <2>2. CASE c = i + 1
    <3>2. f \in 1 .. n /\ f <= i
      BY <1>20, <1>8, <2>2
    <3>3. t \in 1 .. n /\ i + 1 <= t
      BY <1>20, <1>9, <2>2
    <3> QED
      BY <3>2, <3>3
  <2> QED
    BY <1>2, <2>1, <2>2
<1>11. PICK r : r = SubSeq(line, f, t)
  OBVIOUS
<1>12. /\ Len(r) = t - f + 1
       /\ \A k \in 1 .. t - f + 1 : r[k] = line[f + k - 1]
  <2>1. \A k \in f .. t : line[k] \in Int \X Int
    <3>1. \A k \in f .. t : k \in 1 .. Len(line)
      BY <1>1, <1>10
    <3> QED
      BY <3>1, ElementOfSeq
  <2>2. f \in Int /\ t \in Int /\ f <= t
    BY <1>10
  <2> QED
    BY <1>11, <2>1, <2>2, SubSeqProperties
<1>13. r \in Clip(line, id)
  <2>1. r \in {SubSeq(line, Max({1, s[1] - 1}), Min({Len(line), s[2] + 1})) : s \in Stretches(line, id)}
    <3>1. r = SubSeq(line, Max({1, <<a, b>>[1] - 1}), Min({Len(line), <<a, b>>[2] + 1}))
      BY <1>1, <1>6, <1>7, <1>11
    <3> QED
      BY <1>5, <3>1, Zenon
  <2>2. Len(r) >= 2
    BY <1>10, <1>12
  <2> QED
    BY <2>1, <2>2 DEF Clip
<1>14. PICK k \in 1 .. Len(r) - 1 : k = i - f + 1
  BY <1>10, <1>12
<1>15. r[k] = line[i] /\ r[k + 1] = line[i + 1]
  <2>1. k \in 1 .. t - f + 1 /\ k + 1 \in 1 .. t - f + 1
    BY <1>10, <1>12, <1>14, <1>20
  <2>2. f + k - 1 = i /\ f + (k + 1) - 1 = i + 1
    BY <1>10, <1>14, <1>20
  <2> QED
    BY <1>12, <2>1, <2>2
<1> QED
  BY <1>13, <1>14, <1>15 DEF Drawn

------------------------------------------------------------------------------
(* What the build keeps true.                                               *)

LEMMA PartOfText ==
    ASSUME NEW s \in Seq(Characters), NEW m \in Int, NEW n \in Int, m >= 1, n <= Len(s)
    PROVE  SubSeq(s, m, n) \in Seq(Characters)
<1>1. \A i \in m .. n : i \in 1 .. Len(s)
  BY LenProperties
<1>2. \A i \in m .. n : s[i] \in Characters
  BY <1>1, ElementOfSeq
<1> QED
  BY <1>2, SubSeqProperties

LEMMA ScanIsText ==
    ASSUME NEW s \in Seq(Characters)
    PROVE  Scan(s) \in Results
<1>1. PICK scan \in [1 .. Len(s) + 1 -> Results] : Scan(s) = scan[1]
  BY ScanUnfolds
<1>2. 1 \in 1 .. Len(s) + 1
  BY LenProperties
<1> QED
  BY <1>1, <1>2

LEMMA UnfinishedIsText ==
    ASSUME NEW s \in Seq(Characters)
    PROVE  Unfinished(s) \in Seq(Characters)
<1>1. PICK from \in Nat : from = Scan(s).from /\ from >= 1
  <2>1. PICK r \in Results : r = Scan(s)
    BY ScanIsText
  <2>2. r.from \in Nat /\ r.from >= 1
    BY DEF Results
  <2> QED
    BY <2>1, <2>2
<1>2. /\ OpenTag \in Seq(Characters) /\ Len(OpenTag) > 0
      /\ Len(s) \in Nat /\ Len(OpenTag) \in Nat
  BY BuildAssumption, LenProperties
<1>3. PICK start : start = IndexOf(s, OpenTag, from)
  OBVIOUS
<1>4. start \in Nat
  BY <1>1, <1>2, <1>3, IndexOfFacts
<1>5. CASE start # 0
  <2>1. Unfinished(s) = SubSeq(s, start, Len(s))
    BY <1>1, <1>3, <1>5 DEF Unfinished
  <2>2. SubSeq(s, start, Len(s)) \in Seq(Characters)
    BY <1>2, <1>4, <1>5, PartOfText
  <2> QED
    BY <2>1, <2>2
<1>6. CASE start = 0
  <2>1. PICK m : m = Max({1, Len(s) - Len(OpenTag) + 1})
    OBVIOUS
  <2>2. Unfinished(s) = SubSeq(s, m, Len(s))
    BY <1>1, <1>3, <1>6, <2>1 DEF Unfinished
  <2>3. 1 \in Int /\ Len(s) - Len(OpenTag) + 1 \in Int
    BY <1>2
  <2>4. m \in Int /\ m >= 1
    BY <2>1, <2>3, OfTwo
  <2>5. SubSeq(s, m, Len(s)) \in Seq(Characters)
    BY <1>2, <2>4, PartOfText
  <2> QED
    BY <2>2, <2>5
<1> QED
  BY <1>5, <1>6

LEMMA PosListsAreKnown ==
    ASSUME NEW features \in Seq(Seq(Characters))
    PROVE  PosListsOf(features) \subseteq PosLists
<1>1. \A f \in Range(features) : f \in Seq(Characters)
  BY ElementOfSeq, LenProperties DEF Range
<1>2. ASSUME NEW f \in Range(features), Range(f) \cap PosLists # {}
      PROVE  PosListOf(f) \in PosLists
  BY <1>1, <1>2, PosListIsOne
<1> QED
  BY <1>2 DEF PosListsOf

\* What is in a tile stays there, and what is cut out of a line for it is added.
LEMMA AddLinesFacts ==
    ASSUME NEW t, NEW lines, NEW id
    PROVE  /\ LinesIn(t, id) \subseteq LinesIn(AddLines(t, lines), id)
           /\ \A l \in lines : id \in TilesTouched(l) =>
                  Clip(l, id) \subseteq LinesIn(AddLines(t, lines), id)
<1> DEFINE cut(i) == UNION {Clip(line, i) : line \in {l \in lines : i \in TilesTouched(l)}}
           hit    == {i \in UNION {TilesTouched(line) : line \in lines} : cut(i) # {}}
<1>1. AddLines(t, lines) = [i \in DOMAIN t \cup hit |-> LinesIn(t, i) \cup cut(i)]
  BY DEF AddLines
<1>2. \A l \in lines : id \in TilesTouched(l) => Clip(l, id) \subseteq cut(id)
  OBVIOUS
<1>3. cut(id) # {} => id \in hit
  OBVIOUS
<1>4. LinesIn(t, id) # {} => id \in DOMAIN t
  BY DEF LinesIn
<1> HIDE DEF cut, hit
<1>5. CASE id \in DOMAIN t \cup hit
  <2>1. LinesIn(AddLines(t, lines), id) = LinesIn(t, id) \cup cut(id)
    BY <1>1, <1>5 DEF LinesIn
  <2> QED
    BY <1>2, <2>1
<1>6. CASE id \notin DOMAIN t \cup hit
  <2>1. LinesIn(t, id) = {} /\ cut(id) = {}
    BY <1>3, <1>4, <1>6
  <2> QED
    BY <1>2, <2>1
<1> QED
  BY <1>5, <1>6

TextTypeOK ==
    /\ source \in Sources
    /\ read \in Nat /\ read <= Len(source.text)
    /\ pending \in Seq(Characters)
    /\ found \in Seq(Seq(Characters))
    /\ PosListsOf(found) \subseteq DOMAIN source.points

\* What has been cut out of a line is in the tiles it touches.
LinesAreCut ==
    \A list \in PosListsOf(found) : \A id \in TilesTouched(Line(source.points[list])) :
        Clip(Line(source.points[list]), id) \subseteq LinesIn(tiles, id)

BuildInv == TextTypeOK /\ LinesAreCut

LEMMA BuildBegins == BuildInit => BuildInv
<1> SUFFICES ASSUME BuildInit PROVE BuildInv
  OBVIOUS
<1>1. source.text \in Seq(Characters)
  BY BuildAssumption DEF BuildInit
<1>2. <<>> \in Seq(Characters) /\ <<>> \in Seq(Seq(Characters))
  BY EmptySeq
<1>3. PosListsOf(found) = {}
  <2>1. Range(found) = {}
    BY DEF BuildInit, Range
  <2> QED
    BY <2>1 DEF PosListsOf
<1>4. 0 <= Len(source.text)
  BY <1>1, LenProperties
<1> QED
  BY <1>2, <1>3, <1>4 DEF BuildInv, TextTypeOK, LinesAreCut, BuildInit

LEMMA ReadChunkKeeps == BuildInv /\ ReadChunk => BuildInv'
<1> SUFFICES ASSUME BuildInv, ReadChunk PROVE BuildInv'
  OBVIOUS
<1> DEFINE s        == pending \o SubSeq(source.text, read + 1, read')
           features == Scan(s).features
           lists    == PosListsOf(features)
<1>1. source' = source /\ read' \in read + 1 .. Len(source.text)
  BY DEF ReadChunk
<1>2. source.text \in Seq(Characters) /\ Len(source.text) \in Nat
  BY BuildAssumption, LenProperties DEF BuildInv, TextTypeOK
<1>3. read' \in Nat /\ read' <= Len(source.text) /\ read \in Nat
  BY <1>1, <1>2 DEF BuildInv, TextTypeOK
<1>4. PosListsOf(found)' = PosListsOf(found') /\ PosLists' = PosLists
  BY <1>1, Zenon DEF PosListsOf, PosListOf, PosLists, SelectInSeq
<1>5. CASE lists \cap Malformed # {}
  <2>1. UNCHANGED <<pending, found, tiles>>
    BY <1>5 DEF ReadChunk
  <2> QED
    BY <1>1, <1>2, <1>3, <1>4, <2>1 DEF BuildInv, TextTypeOK, LinesAreCut
<1>6. CASE lists \cap Malformed = {}
  <2>1. s \in Seq(Characters)
    <3>1. SubSeq(source.text, read + 1, read') \in Seq(Characters)
      BY <1>2, <1>3, PartOfText
    <3> QED
      BY <3>1, ConcatProperties DEF BuildInv, TextTypeOK
  <2>2. /\ pending' = Unfinished(s) /\ found' = found \o features
        /\ tiles' = AddLines(tiles, {Line(source.points[list]) : list \in lists})
    BY <1>6 DEF ReadChunk
  <2> HIDE DEF s
  <2>3. features \in Seq(Seq(Characters))
    BY <2>1, ScanIsText DEF Results
  <2>4. pending' \in Seq(Characters)
    BY <2>1, <2>2, UnfinishedIsText
  <2> HIDE DEF features
  <2>5. found' \in Seq(Seq(Characters))
    BY <2>2, <2>3, ConcatProperties DEF BuildInv, TextTypeOK
  <2>6. PosListsOf(found') = PosListsOf(found) \cup lists
    BY <2>2, <2>3, PosListsOfConcat DEF BuildInv, TextTypeOK
  <2>7. lists \subseteq DOMAIN source.points
    BY <1>6, <2>3, PosListsAreKnown DEF PosLists
  <2>8. TextTypeOK'
    BY <1>1, <1>3, <1>4, <2>4, <2>5, <2>6, <2>7 DEF BuildInv, TextTypeOK
  <2> HIDE DEF lists
  <2>9. LinesAreCut'
    <3>1. LinesAreCut' = \A list \in PosListsOf(found') :
            \A id \in TilesTouched(Line(source.points[list])) :
               Clip(Line(source.points[list]), id) \subseteq LinesIn(tiles', id)
      BY <1>1, <1>4 DEF LinesAreCut
    <3>2. SUFFICES ASSUME NEW list \in PosListsOf(found'),
                          NEW line, line = Line(source.points[list]),
                          NEW id \in TilesTouched(line)
                   PROVE  Clip(line, id) \subseteq LinesIn(tiles', id)
      BY <3>1, Zenon
    <3>3. PICK lines : lines = {Line(source.points[l]) : l \in lists}
      OBVIOUS
    <3>4. tiles' = AddLines(tiles, lines)
      BY <2>2, <3>3
    <3>5. /\ LinesIn(tiles, id) \subseteq LinesIn(tiles', id)
          /\ line \in lines => Clip(line, id) \subseteq LinesIn(tiles', id)
      BY <3>4, AddLinesFacts
    <3>6. CASE list \in lists
      BY <3>2, <3>3, <3>5, <3>6
    <3>7. CASE list \in PosListsOf(found)
      BY <3>2, <3>5, <3>7 DEF BuildInv, LinesAreCut
    <3> QED
      BY <2>6, <3>6, <3>7
  <2> QED
    BY <2>8, <2>9 DEF BuildInv
<1> QED
  BY <1>5, <1>6

\* Whatever changes none of what the build works on keeps the invariant.
LEMMA BuildStays ==
    ASSUME BuildInv, UNCHANGED <<source, read, pending, found, tiles>>
    PROVE  BuildInv'
<1>1. PosListsOf(found)' = PosListsOf(found)
  BY DEF PosListsOf, PosListOf, PosLists, SelectInSeq
<1> QED
  BY <1>1 DEF BuildInv, TextTypeOK, LinesAreCut

\* However the text is divided into chunks (build-coastline.mjs:45-78, 197-207), what
\* has been found is well typed and in the tiles.
THEOREM BuildInvariant == Spec => []BuildInv
<1>1. Init => BuildInv
  BY BuildBegins DEF Init
<1>2. BuildInv /\ [Next]_vars => BuildInv'
  <2> SUFFICES ASSUME BuildInv, [Next]_vars PROVE BuildInv'
    OBVIOUS
  <2>1. CASE ReadChunk
    BY <2>1, ReadChunkKeeps
  <2>2. CASE WriteTiles
    BY <2>2, BuildStays DEF WriteTiles
  <2>3. CASE UNCHANGED vars
    BY <2>3, BuildStays DEF vars
  <2>4. ChangeView \/ RunEffect \/ IndexLoaded \/ IndexFails \/ Show \/ SwitchServer
           => UNCHANGED buildVars
    BY DEF ChangeView, RunEffect, IndexLoaded, IndexFails, Show, SwitchServer
  <2>5. (\E id \in DOMAIN promises : TileLoaded(id) \/ TileFails(id)) => UNCHANGED buildVars
    BY DEF TileLoaded, TileFails
  <2>6. CASE UNCHANGED buildVars
    BY <2>6, BuildStays DEF buildVars
  <2> QED
    BY <2>1, <2>2, <2>3, <2>4, <2>5, <2>6 DEF Next, Build
<1> QED
  BY <1>1, <1>2, PTL DEF Spec

\* Every segment of a line that has been found is in the tiles of its ends.
LEMMA SegmentsInTiles ==
    ASSUME BuildInv, NEW list \in PosListsOf(found),
           NEW line, line = Line(source.points[list]), NEW i \in 1 .. Len(line) - 1,
           NEW id \in TilesTouched(line), Inside(line[i], id) \/ Inside(line[i + 1], id)
    PROVE  Drawn(LinesIn(tiles, id), line[i], line[i + 1])
<1>1. line \in Seq(Int \X Int)
  <2>1. list \in DOMAIN source.points /\ source \in Sources
    BY DEF BuildInv, TextTypeOK
  <2>2. source.points[list] \in Seq(Metres)
    BY <2>1, BuildAssumption
  <2> QED
    BY <2>2, LineType
<1>2. Drawn(Clip(line, id), line[i], line[i + 1])
  BY <1>1, ClipCovers
<1>3. Clip(line, id) \subseteq LinesIn(tiles, id)
  BY DEF BuildInv, LinesAreCut
<1> QED
  BY <1>2, <1>3, DrawnInMore

\* build-coastline.mjs:130-135.  The coast has no gaps at tile boundaries, wherever the
\* chunks end and whatever the lines and the tiles are.
THEOREM CoastHasNoGaps == Spec => []NoGapsAtBoundaries
<1>1. BuildInv => NoGapsAtBoundaries
  <2> SUFFICES ASSUME BuildInv, NEW list \in PosListsOf(found),
                      NEW line, line = Line(source.points[list]),
                      NEW i \in 1 .. Len(line) - 1, NEW id \in TilesTouched(line),
                      Inside(line[i], id) \/ Inside(line[i + 1], id)
               PROVE  Drawn(LinesIn(tiles, id), line[i], line[i + 1])
    BY DEF NoGapsAtBoundaries
  <2> QED
    BY SegmentsInTiles
<1> QED
  BY <1>1, BuildInvariant, PTL

------------------------------------------------------------------------------
(* The tile of a point.                                                     *)

LEMMA TileWidth == TileDegrees \in Int /\ TileDegrees > 0
BY BuildAssumption

LEMMA Floor ==
    ASSUME NEW d \in Int
    PROVE  /\ d \div TileDegrees \in Int
           /\ (d \div TileDegrees) * TileDegrees \in Int
           /\ (d \div TileDegrees) * TileDegrees <= d
           /\ d < (d \div TileDegrees) * TileDegrees + TileDegrees
BY TileWidth

LEMMA Times ==
    ASSUME NEW w \in Int, w > 0, NEW j \in Int, NEW k \in Int, j >= k + 1
    PROVE  j * w >= k * w + w
<1>1. (j - k - 1) * w >= 0
  OBVIOUS
<1>2. j * w = (j - k - 1) * w + k * w + w
  OBVIOUS
<1> QED
  BY <1>1, <1>2

LEMMA FloorIsMonotone ==
    ASSUME NEW c \in Int, NEW d \in Int, c <= d
    PROVE  c \div TileDegrees <= d \div TileDegrees
<1>1. PICK j \in Int : j = c \div TileDegrees
  BY Floor
<1>2. PICK k \in Int : k = d \div TileDegrees
  BY Floor
<1>3. /\ j * TileDegrees <= c /\ d < k * TileDegrees + TileDegrees
      /\ j * TileDegrees \in Int /\ k * TileDegrees \in Int
  BY <1>1, <1>2, Floor
<1>4. ASSUME j >= k + 1 PROVE FALSE
  <2>1. j * TileDegrees >= k * TileDegrees + TileDegrees
    BY <1>4, TileWidth, Times
  <2> QED
    BY <1>3, <2>1, TileWidth
<1> QED
  BY <1>1, <1>2, <1>4

FloorToTile(degrees) == (degrees \div TileDegrees) * TileDegrees

LEMMA CornersHold ==
    ASSUME NEW from \in Int, NEW to \in Int, NEW d \in Int, from <= d, d <= to
    PROVE  FloorToTile(d) \in Corners(from, to)
<1>1. /\ from \div TileDegrees \in Int /\ to \div TileDegrees \in Int
      /\ d \div TileDegrees \in Int
      /\ from \div TileDegrees <= d \div TileDegrees /\ d \div TileDegrees <= to \div TileDegrees
  BY Floor, FloorIsMonotone
<1> QED
  BY <1>1 DEF FloorToTile, Corners

TileOf(p) == <<FloorToTile(p[2]), FloorToTile(p[1])>>

LEMMA TileHolds ==
    ASSUME NEW p \in Int \X Int
    PROVE  Inside(p, TileOf(p)) /\ TileOf(p)[1] <= p[2] /\ TileOf(p)[2] <= p[1]
<1>1. /\ p[1] \in Int /\ p[2] \in Int
  OBVIOUS
<1>2. \A d \in {p[1], p[2]} : /\ FloorToTile(d) <= d /\ d < FloorToTile(d) + TileDegrees
                              /\ FloorToTile(d) \in Int
  BY <1>1, Floor DEF FloorToTile
<1> QED
  BY <1>1, <1>2, TileWidth DEF Inside, TileOf

\* The numbers in a sequence are bounded.
LEMMA Bounded ==
    ASSUME NEW n \in Nat, NEW f, \A i \in 1 .. n : f[i] \in Int
    PROVE  \E a \in Int, b \in Int : \A i \in 1 .. n : a <= f[i] /\ f[i] <= b
<1> DEFINE Fit(m) == \E a \in Int, b \in Int : \A i \in 1 .. m : a <= f[i] /\ f[i] <= b
           Bad == {m \in Nat : m <= n /\ ~Fit(m)}
<1> SUFFICES ASSUME Bad # {} PROVE FALSE
  <2>1. CASE Fit(n)
    BY <2>1
  <2>2. CASE ~Fit(n)
    <3>1. n \in Bad
      BY <2>2
    <3> QED
      BY <3>1
  <2> QED
    BY <2>1, <2>2
<1>1. PICK m \in Bad : \A k \in Bad : m <= k
  <2>1. Bad \in SUBSET Nat
    OBVIOUS
  <2> HIDE DEF Bad
  <2> QED
    BY <2>1, Least
<1>2. m \in Nat /\ m <= n /\ ~Fit(m)
  OBVIOUS
<1>3. m # 0
  <2>1. \A i \in 1 .. 0 : 0 <= f[i] /\ f[i] <= 0
    OBVIOUS
  <2> QED
    BY <1>2, <2>1
<1>4. m - 1 \in Nat /\ m - 1 <= n /\ ~(m <= m - 1) /\ m \in 1 .. n
  BY <1>2, <1>3
<1>5. Fit(m - 1)
  BY <1>1, <1>4
<1>6. PICK a \in Int, b \in Int : \A i \in 1 .. m - 1 : a <= f[i] /\ f[i] <= b
  BY <1>5
<1>7. PICK x \in Int : x = f[m]
  BY <1>4
<1>8. PICK c \in Int : c <= a /\ c <= x
  <2>1. a <= x \/ x <= a
    OBVIOUS
  <2>2. a <= a /\ x <= x
    OBVIOUS
  <2> QED
    BY <2>1, <2>2
<1>9. PICK d \in Int : d >= b /\ d >= x
  <2>1. b >= x \/ x >= b
    OBVIOUS
  <2>2. b >= b /\ x >= x
    OBVIOUS
  <2> QED
    BY <2>1, <2>2
<1>10. \A i \in 1 .. m : c <= f[i] /\ f[i] <= d
  <2> SUFFICES ASSUME NEW i \in 1 .. m PROVE c <= f[i] /\ f[i] <= d
    OBVIOUS
  <2>1. CASE i = m
    BY <1>7, <1>8, <1>9, <2>1
  <2>2. CASE i # m
    <3>1. i \in 1 .. m - 1 /\ i \in 1 .. n
      BY <1>2, <2>2
    <3>2. a <= f[i] /\ f[i] <= b
      BY <1>6, <3>1
    <3>3. PICK y \in Int : y = f[i]
      BY <3>1
    <3>5. a <= y /\ y <= b
      BY <3>2, <3>3
    <3> HIDE DEF Fit, Bad
    <3>4. c <= y /\ y <= d
      <4>1. c <= a /\ b <= d
        BY <1>8, <1>9
      <4> QED
        BY <3>5, <4>1
    <3> QED
      BY <3>3, <3>4
  <2> QED
    BY <2>1, <2>2
<1> QED
  BY <1>2, <1>10

LEMMA TileIsTouched ==
    ASSUME NEW line \in Seq(Int \X Int), NEW i \in 1 .. Len(line)
    PROVE  TileOf(line[i]) \in TilesTouched(line)
<1>1. PICK n \in Nat : n = Len(line) /\ DOMAIN line = 1 .. n
  BY LenProperties
<1>2. \A k \in 1 .. n : line[k] \in Int \X Int
  BY <1>1, ElementOfSeq
<1>3. \A k \in 1 .. n : line[k][1] \in Int /\ line[k][2] \in Int
  BY <1>2
<1>4. PICK lons : lons = {p[1] : p \in Range(line)}
  OBVIOUS
<1>5. PICK lats : lats = {p[2] : p \in Range(line)}
  OBVIOUS
<1>6. /\ lons = {line[k][1] : k \in 1 .. n}
      /\ lats = {line[k][2] : k \in 1 .. n}
  BY <1>1, <1>4, <1>5 DEF Range
<1>7. /\ Min(lons) \in Int /\ Max(lons) \in Int
      /\ Min(lons) <= line[i][1] /\ line[i][1] <= Max(lons)
  <2> DEFINE f == [k \in 1 .. n |-> line[k][1]]
  <2>1. \A k \in 1 .. n : f[k] \in Int /\ f[k] = line[k][1]
    BY <1>3
  <2> HIDE DEF f
  <2>2. PICK a \in Int, b \in Int : \A k \in 1 .. n : a <= f[k] /\ f[k] <= b
    BY <2>1, Bounded
  <2>5. ASSUME NEW k \in 1 .. n PROVE line[k][1] \in a .. b
    <3>1. PICK x \in Int : x = line[k][1]
      BY <1>3
    <3>2. a <= x /\ x <= b
      BY <2>1, <2>2, <3>1
    <3> QED
      BY <3>1, <3>2
  <2>3. lons \in SUBSET (a .. b) /\ line[i][1] \in lons
    BY <1>1, <1>6, <2>5, Zenon
  <2>4. /\ Min(lons) \in lons /\ \A y \in lons : Min(lons) <= y
        /\ Max(lons) \in lons /\ \A y \in lons : Max(lons) >= y
    BY <2>3, LeastOfInterval
  <2>6. \A y \in lons : y \in Int
    BY <2>3
  <2> QED
    BY <2>3, <2>4, <2>6
<1>8. /\ Min(lats) \in Int /\ Max(lats) \in Int
      /\ Min(lats) <= line[i][2] /\ line[i][2] <= Max(lats)
  <2> DEFINE f == [k \in 1 .. n |-> line[k][2]]
  <2>1. \A k \in 1 .. n : f[k] \in Int /\ f[k] = line[k][2]
    BY <1>3
  <2> HIDE DEF f
  <2>2. PICK a \in Int, b \in Int : \A k \in 1 .. n : a <= f[k] /\ f[k] <= b
    BY <2>1, Bounded
  <2>5. ASSUME NEW k \in 1 .. n PROVE line[k][2] \in a .. b
    <3>1. PICK x \in Int : x = line[k][2]
      BY <1>3
    <3>2. a <= x /\ x <= b
      BY <2>1, <2>2, <3>1
    <3> QED
      BY <3>1, <3>2
  <2>3. lats \in SUBSET (a .. b) /\ line[i][2] \in lats
    BY <1>1, <1>6, <2>5, Zenon
  <2>4. /\ Min(lats) \in lats /\ \A y \in lats : Min(lats) <= y
        /\ Max(lats) \in lats /\ \A y \in lats : Max(lats) >= y
    BY <2>3, LeastOfInterval
  <2>6. \A y \in lats : y \in Int
    BY <2>3
  <2> QED
    BY <2>3, <2>4, <2>6
<1>9. /\ FloorToTile(line[i][2]) \in Corners(Min(lats), Max(lats))
      /\ FloorToTile(line[i][1]) \in Corners(Min(lons), Max(lons))
  BY <1>1, <1>3, <1>7, <1>8, CornersHold
<1>10. TilesTouched(line) = Corners(Min(lats), Max(lats)) \X Corners(Min(lons), Max(lons))
  BY <1>4, <1>5 DEF TilesTouched
<1> QED
  BY <1>9, <1>10 DEF TileOf

LEMMA TileOfView ==
    ASSUME NEW v \in Views, NEW p \in Int \X Int, InView(p, v)
    PROVE  TileOf(p) \in TilesIn(v)
<1>1. /\ v.south \in Int /\ v.north \in Int /\ v.west \in Int /\ v.east \in Int
      /\ p[1] \in Int /\ p[2] \in Int
  BY CoastlineAssumption
<1>2. v.south <= p[2] /\ p[2] < v.north /\ v.west <= p[1] /\ p[1] < v.east
  BY DEF InView
<1>3. /\ FloorToTile(p[2]) \in Corners(v.south, v.north)
      /\ FloorToTile(p[1]) \in Corners(v.west, v.east)
  BY <1>1, <1>2, CornersHold
<1>4. FloorToTile(p[2]) \in Int /\ FloorToTile(p[1]) \in Int
  BY <1>1, Floor DEF FloorToTile
<1>6. FloorToTile(p[2]) <= p[2] /\ FloorToTile(p[1]) <= p[1]
  BY <1>1, Floor DEF FloorToTile
<1>5. FloorToTile(p[2]) < v.north /\ FloorToTile(p[1]) < v.east
  BY <1>1, <1>2, <1>4, <1>6
<1> QED
  BY <1>3, <1>5 DEF TilesIn, TileOf

LEMMA ViewHasTiles ==
    ASSUME NEW v \in Views
    PROVE  Key(v) # {}
<1>1. <<v.west, v.south>> \in Int \X Int /\ InView(<<v.west, v.south>>, v)
  BY CoastlineAssumption DEF InView
<1>2. TileOf(<<v.west, v.south>>) \in TilesIn(v)
  BY <1>1, TileOfView
<1> QED
  BY <1>2, CoastlineAssumption DEF Key

------------------------------------------------------------------------------
(* What a page shows.                                                       *)

PageInv ==
    /\ view # Nothing => view \in Views /\ built = "yes"
    /\ view = Nothing => effect = "idle"
    /\ view # Nothing /\ effect = "idle" /\ ~shown.error =>
           shown.key = Key(view) /\ shown.tiles = Available(Key(view))

LEMMA PageStays ==
    ASSUME PageInv, UNCHANGED <<view, effect, shown>>, view # Nothing => UNCHANGED <<tiles, built>>
    PROVE  PageInv'
<1>1. CASE view = Nothing
  BY <1>1 DEF PageInv
<1>2. CASE view # Nothing
  <2>1. UNCHANGED <<view, effect, shown, tiles, built>>
    BY <1>2
  <2>2. Available(Key(view))' = Available(Key(view))
    BY <2>1 DEF Available, Key
  <2> QED
    BY <2>1, <2>2 DEF PageInv, Key
<1> QED
  BY <1>1, <1>2

\* useCoastline.ts:79-100.  An effect that has come to rest without an error has drawn
\* the tiles of the view there are, whatever was cleaned up or has failed before.
THEOREM PageInvariant == Spec => []PageInv
<1>1. Init => PageInv
  BY DEF Init, PageInv
<1>2. PageInv /\ [Next]_vars => PageInv'
  <2> SUFFICES ASSUME PageInv, [Next]_vars PROVE PageInv'
    OBVIOUS
  <2>1. CASE Build
    BY <2>1, PageStays DEF Build, ReadChunk, WriteTiles, pageVars, PageInv
  <2>2. CASE ChangeView
    <3>1. view' \in Views /\ view' # Nothing /\ built' = "yes" /\ UNCHANGED <<tiles, shown>>
      BY <2>2, CoastlineAssumption DEF ChangeView, buildVars
    <3>2. CASE Key(view') = Key(view)
      <4>1. UNCHANGED effect
        BY <2>2, <3>2 DEF ChangeView
      <4>2. view # Nothing
        BY <3>1, <3>2, ViewHasTiles DEF Key
      <4>3. Available(Key(view))' = Available(Key(view))
        BY <3>1, <3>2 DEF Available
      <4> QED
        BY <3>1, <3>2, <4>1, <4>2, <4>3 DEF PageInv
    <3>3. CASE Key(view') # Key(view)
      <4>1. effect' = "effect"
        BY <2>2, <3>3 DEF ChangeView
      <4> QED
        BY <3>1, <4>1 DEF PageInv
    <3> QED
      BY <3>2, <3>3
  <2>3. CASE RunEffect
    BY <2>3 DEF RunEffect, PageInv, buildVars
  <2>4. CASE IndexLoaded
    <3>1. CASE effect = "index"
      BY <2>4, <3>1 DEF IndexLoaded, PageInv, buildVars
    <3>2. CASE effect # "index"
      BY <2>4, <3>2, PageStays DEF IndexLoaded, buildVars
    <3> QED
      BY <3>1, <3>2
  <2>5. CASE IndexFails
    <3>1. CASE effect = "index"
      BY <2>5, <3>1 DEF IndexFails, Fails, PageInv, buildVars
    <3>2. CASE effect # "index"
      BY <2>5, <3>2, PageStays DEF IndexFails, buildVars
    <3> QED
      BY <3>1, <3>2
  <2>6. CASE Show
    <3>1. /\ UNCHANGED <<view, tiles, built>> /\ effect = "tiles"
          /\ shown' = [key |-> Key(view), tiles |-> Available(Key(view)), error |-> FALSE]
      BY <2>6 DEF Show, buildVars
    <3>2. Available(Key(view))' = Available(Key(view)) /\ Key(view)' = Key(view)
      BY <3>1 DEF Available, Key
    <3> QED
      BY <3>1, <3>2 DEF PageInv
  <2>7. CASE SwitchServer
    BY <2>7, PageStays DEF SwitchServer, buildVars
  <2>8. ASSUME NEW id \in DOMAIN promises, TileLoaded(id) PROVE PageInv'
    BY <2>8, PageStays DEF TileLoaded, buildVars
  <2>9. ASSUME NEW id \in DOMAIN promises, TileFails(id) PROVE PageInv'
    <3>1. CASE effect = "tiles" /\ id \in Available(Key(view))
      BY <2>9, <3>1 DEF TileFails, Fails, PageInv, buildVars
    <3>2. CASE ~(effect = "tiles" /\ id \in Available(Key(view)))
      BY <2>9, <3>2, PageStays DEF TileFails, buildVars
    <3> QED
      BY <3>1, <3>2
  <2>10. CASE UNCHANGED vars
    BY <2>10, PageStays DEF vars
  <2> QED
    BY <2>1, <2>2, <2>3, <2>4, <2>5, <2>6, <2>7, <2>8, <2>9, <2>10 DEF Next
<1> QED
  BY <1>1, <1>2, PTL DEF Spec

\* useCoastline.ts:57-66.  When nothing is being loaded and nothing has failed, every
\* piece of the coast that has an end in the view is drawn: the tiles of the key are
\* all those the piece can have been put in.
THEOREM TheCoastInViewIsDrawn == Spec => []CoastIsDrawn
<1>1. BuildInv /\ PageInv => CoastIsDrawn
  <2> SUFFICES ASSUME BuildInv, PageInv, view # Nothing, effect = "idle", ~shown.error,
                      NEW list \in PosListsOf(found),
                      NEW line, line = Line(source.points[list]),
                      NEW i \in 1 .. Len(line) - 1,
                      InView(line[i], view) \/ InView(line[i + 1], view)
               PROVE  Drawn(UNION {tiles[id] : id \in shown.tiles}, line[i], line[i + 1])
    BY DEF CoastIsDrawn
  <2>1. line \in Seq(Int \X Int)
    <3>1. list \in DOMAIN source.points /\ source \in Sources
      BY DEF BuildInv, TextTypeOK
    <3>2. source.points[list] \in Seq(Metres)
      BY <3>1, BuildAssumption
    <3> QED
      BY <3>2, LineType
  <2>2. Len(line) \in Nat
    BY <2>1, LenProperties
  <2>3. PICK c \in 1 .. Len(line) : (c = i \/ c = i + 1) /\ InView(line[c], view)
    <3>1. i \in 1 .. Len(line) /\ i + 1 \in 1 .. Len(line)
      BY <2>2
    <3> QED
      BY <3>1
  <2>4. line[c] \in Int \X Int
    BY <2>1, ElementOfSeq
  <2>5. view \in Views
    BY DEF PageInv
  <2>6. PICK id : id = TileOf(line[c])
    OBVIOUS
  <2>7. id \in TilesTouched(line)
    BY <2>1, <2>6, TileIsTouched
  <2>8. Inside(line[i], id) \/ Inside(line[i + 1], id)
    BY <2>3, <2>4, <2>6, TileHolds
  <2>9. Drawn(LinesIn(tiles, id), line[i], line[i + 1])
    BY <2>7, <2>8, SegmentsInTiles
  <2>10. id \in DOMAIN tiles
    BY <2>9 DEF Drawn, LinesIn
  <2>11. id \in Key(view)
    BY <2>3, <2>4, <2>5, <2>6, TileOfView DEF Key
  <2>12. id \in shown.tiles
    BY <2>10, <2>11 DEF PageInv, Available
  <2>13. LinesIn(tiles, id) \subseteq UNION {tiles[t] : t \in shown.tiles}
    BY <2>10, <2>12 DEF LinesIn
  <2> QED
    BY <2>9, <2>13, DrawnInMore
<1> QED
  BY <1>1, BuildInvariant, PageInvariant, PTL

------------------------------------------------------------------------------
(* Douglas-Peucker.                                                         *)

LEMMA SquareIsInteger ==
    ASSUME NEW x \in Int
    PROVE  Square(x) \in Int
BY DEF Square

LEMMA LengthIsInteger ==
    ASSUME NEW a \in Int \X Int, NEW b \in Int \X Int
    PROVE  SquaredLength(a, b) \in Int
<1>1. a[1] \in Int /\ a[2] \in Int /\ b[1] \in Int /\ b[2] \in Int
  OBVIOUS
<1>2. b[1] - a[1] \in Int /\ b[2] - a[2] \in Int
  BY <1>1
<1>3. Square(b[1] - a[1]) \in Int /\ Square(b[2] - a[2]) \in Int
  BY <1>2, SquareIsInteger
<1> QED
  BY <1>3 DEF SquaredLength

LEMMA DistanceIsInteger ==
    ASSUME NEW p \in Int \X Int, NEW a \in Int \X Int, NEW b \in Int \X Int
    PROVE  ScaledDistance(p, a, b) \in Int
<1> DEFINE length == SquaredLength(a, b)
           along  == (p[1] - a[1]) * (b[1] - a[1]) + (p[2] - a[2]) * (b[2] - a[2])
           across == (p[1] - a[1]) * (b[2] - a[2]) - (p[2] - a[2]) * (b[1] - a[1])
<1>1. /\ a[1] \in Int /\ a[2] \in Int /\ b[1] \in Int /\ b[2] \in Int
      /\ p[1] \in Int /\ p[2] \in Int
  OBVIOUS
<1>2. across \in Int
  BY <1>1
<1>3. /\ length \in Int /\ SquaredLength(p, a) \in Int /\ SquaredLength(p, b) \in Int
  BY LengthIsInteger
<1>4. Square(across) \in Int
  <2> HIDE DEF across
  <2> QED
    BY <1>2, SquareIsInteger
<1>5. ScaledDistance(p, a, b) =
        IF length = 0 THEN SquaredLength(p, a)
        ELSE IF along <= 0 THEN SquaredLength(p, a) * length
        ELSE IF along >= length THEN SquaredLength(p, b) * length
        ELSE Square(across)
  BY DEF ScaledDistance
<1> HIDE DEF length, along, across
<1>6. SquaredLength(p, a) * length \in Int /\ SquaredLength(p, b) * length \in Int
  BY <1>3
<1> QED
  BY <1>3, <1>4, <1>5, <1>6

Lines == {points \in Seq(Metres) : Len(points) >= 2}

\* The vertices between two that are too far off the segment.
FarOff(points, first, last) ==
    {i \in first + 1 .. last - 1 : Far(points[i], points[first], points[last])}

Middle(points, first, last) == Furthest(points, FarOff(points, first, last), first, last)

LEMMA LineFacts ==
    ASSUME NEW points \in Lines
    PROVE  /\ Len(points) \in Nat /\ Len(points) >= 2 /\ DOMAIN points = 1 .. Len(points)
           /\ \A i \in DOMAIN points : points[i] \in Int \X Int
<1>1. points \in Seq(Metres) /\ Len(points) >= 2
  BY DEF Lines
<1>2. Len(points) \in Nat /\ DOMAIN points = 1 .. Len(points)
  BY <1>1, LenProperties
<1>3. \A i \in 1 .. Len(points) : points[i] \in Metres
  BY <1>1, ElementOfSeq
<1>4. Metres \subseteq Int \X Int
  BY BuildAssumption
<1> QED
  BY <1>1, <1>2, <1>3, <1>4

\* Of the vertices that are too far off there is a first that is furthest.
LEMMA MiddleIsBetween ==
    ASSUME NEW points \in Lines, NEW first \in DOMAIN points, NEW last \in DOMAIN points,
           FarOff(points, first, last) # {}
    PROVE  Middle(points, first, last) \in FarOff(points, first, last)
<1> DEFINE far    == FarOff(points, first, last)
           off(i) == ScaledDistance(points[i], points[first], points[last])
<1>1. PICK n \in Nat : n = Len(points) /\ DOMAIN points = 1 .. n
  BY LineFacts
<1>2. far \in SUBSET (1 .. n)
  BY <1>1 DEF FarOff
<1>3. \A i \in 1 .. n : off(i) \in Int
  BY <1>1, LineFacts, DistanceIsInteger
<1> DEFINE f == [i \in 1 .. n |-> off(i)]
<1>4. \A i \in 1 .. n : f[i] \in Int /\ f[i] = off(i)
  BY <1>3
<1> HIDE DEF far, off, f
<1>5. PICK a \in Int, b \in Int : \A i \in 1 .. n : a <= f[i] /\ f[i] <= b
  BY <1>4, Bounded
<1>6. PICK top \in far : \A j \in far : f[j] <= f[top]
  <2> DEFINE V == {f[i] : i \in far}
  <2>1. ASSUME NEW i \in far PROVE f[i] \in a .. b
    <3>1. i \in 1 .. n
      BY <1>2
    <3>2. PICK y \in Int : y = f[i]
      BY <1>4, <3>1
    <3>3. a <= y /\ y <= b
      BY <1>5, <3>1, <3>2
    <3> QED
      BY <3>2, <3>3
  <2>2. V \in SUBSET (a .. b) /\ V # {}
    BY <2>1 DEF far
  <2>3. Max(V) \in V /\ \A y \in V : Max(V) >= y
    <3> HIDE DEF V
    <3> QED
      BY <2>2, LeastOfInterval
  <2>4. PICK top \in far : f[top] = Max(V)
    BY <2>3
  <2>5. ASSUME NEW j \in far PROVE f[j] <= f[top]
    <3>1. f[j] \in V /\ f[j] \in Int /\ f[top] \in Int
      BY <1>2, <1>4
    <3>2. Max(V) >= f[j]
      BY <2>3, <3>1
    <3> HIDE DEF V
    <3> QED
      BY <2>4, <3>1, <3>2
  <2> QED
    BY <2>5
<1>7. PICK i \in far : f[i] = f[top] /\ \A j \in far : f[j] = f[top] => i <= j
  <2> DEFINE T == {j \in far : f[j] = f[top]}
  <2>3. top \in T
    BY <1>6, Zenon
  <2>4. T \in SUBSET (1 .. n)
    BY <1>2
  <2>1. T \in SUBSET (1 .. n) /\ T # {} /\ 1 \in Int /\ n \in Int
    <3> HIDE DEF T
    <3> QED
      BY <2>3, <2>4
  <2>2. Min(T) \in T /\ \A y \in T : Min(T) <= y
    <3> HIDE DEF T
    <3> QED
      BY <2>1, LeastOfInterval
  <2> QED
    BY <2>2
<1>8. \A j \in far : off(j) < off(i) \/ (off(j) = off(i) /\ i <= j)
  <2> SUFFICES ASSUME NEW j \in far PROVE off(j) < off(i) \/ (off(j) = off(i) /\ i <= j)
    OBVIOUS
  <2>1. /\ i \in 1 .. n /\ j \in 1 .. n /\ top \in 1 .. n
    BY <1>2
  <2>2. PICK x \in Int : x = f[i] /\ x = off(i)
    BY <1>4, <2>1
  <2>3. PICK y \in Int : y = f[j] /\ y = off(j)
    BY <1>4, <2>1
  <2>4. y <= x
    BY <1>6, <1>7, <2>2, <2>3
  <2>5. y = x => i <= j
    BY <1>7, <2>2, <2>3
  <2> QED
    BY <2>2, <2>3, <2>4, <2>5
<1>9. Middle(points, first, last) =
        CHOOSE k \in far : \A j \in far : off(j) < off(k) \/ (off(j) = off(k) /\ k <= j)
  BY DEF Middle, Furthest, far, off
<1>10. Middle(points, first, last) \in far
  BY <1>8, <1>9, Zenon
<1> QED
  BY <1>10 DEF far

LEMMA BendsUnfold ==
    ASSUME NEW points, NEW f, NEW first, NEW last
    PROVE  Bends(points, f, first, last) =
             IF FarOff(points, first, last) = {} THEN {}
             ELSE {Middle(points, first, last)}
                  \cup f[<<first, Middle(points, first, last)>>]
                  \cup f[<<Middle(points, first, last), last>>]
BY DEF Bends, FarOff, Middle

LEMMA MiddleFacts ==
    ASSUME NEW points \in Lines, NEW first \in DOMAIN points, NEW last \in DOMAIN points,
           FarOff(points, first, last) # {},
           NEW m, m = Middle(points, first, last)
    PROVE  m \in DOMAIN points /\ first < m /\ m < last
<1>1. m \in FarOff(points, first, last)
  BY MiddleIsBetween
<1>2. Len(points) \in Nat /\ DOMAIN points = 1 .. Len(points)
  BY LineFacts
<1> QED
  BY <1>1, <1>2 DEF FarOff

\* What is kept between two vertices depends on what is kept between closer ones only.
LEMMA BendsDepend ==
    ASSUME NEW points \in Lines, NEW first \in DOMAIN points, NEW last \in DOMAIN points,
           NEW f, NEW g,
           \A m \in DOMAIN points : first < m /\ m < last =>
              f[<<first, m>>] = g[<<first, m>>] /\ f[<<m, last>>] = g[<<m, last>>]
    PROVE  Bends(points, f, first, last) = Bends(points, g, first, last)
<1>1. CASE FarOff(points, first, last) = {}
  BY <1>1, BendsUnfold
<1>2. CASE FarOff(points, first, last) # {}
  <2>1. PICK m : m = Middle(points, first, last)
    OBVIOUS
  <2>2. m \in DOMAIN points /\ first < m /\ m < last
    BY <1>2, <2>1, MiddleFacts
  <2>3. f[<<first, m>>] = g[<<first, m>>] /\ f[<<m, last>>] = g[<<m, last>>]
    BY <2>2
  <2>4. /\ Bends(points, f, first, last) = {m} \cup f[<<first, m>>] \cup f[<<m, last>>]
        /\ Bends(points, g, first, last) = {m} \cup g[<<first, m>>] \cup g[<<m, last>>]
    BY <1>2, <2>1, BendsUnfold
  <2> QED
    BY <2>3, <2>4
<1> QED
  BY <1>1, <1>2

\* The recursion of Kept is well-founded: the vertices between two get ever fewer.
LEMMA KeptUnfolds ==
    ASSUME NEW points \in Lines
    PROVE  \E bends :
              /\ \A first, last \in DOMAIN points :
                    bends[<<first, last>>] = Bends(points, bends, first, last)
              /\ Kept(points) = {i \in DOMAIN points :
                                    i \in {1, Len(points)} \cup bends[<<1, Len(points)>>]}
<1> DEFINE D == DOMAIN points
           Upto(g, m) == \A first, last \in D : last - first <= m =>
                            g[<<first, last>>] = Bends(points, g, first, last)
           Bad == {m \in Nat : ~\E g : Upto(g, m)}
<1>1. PICK n \in Nat : n = Len(points) /\ D = 1 .. n
  BY LineFacts
<1>2. \A m \in Nat : \E g : Upto(g, m)
  <2> SUFFICES ASSUME Bad # {} PROVE FALSE
    OBVIOUS
  <2>1. PICK m \in Bad : \A k \in Bad : m <= k
    <3>1. Bad \in SUBSET Nat
      OBVIOUS
    <3> HIDE DEF Bad
    <3> QED
      BY <3>1, Least
  <2>2. m \in Nat /\ ~\E g : Upto(g, m)
    OBVIOUS
  <2>3. PICK g : m # 0 => Upto(g, m - 1)
    <3>1. CASE m = 0
      BY <3>1
    <3>2. CASE m # 0
      <4>1. m - 1 \in Nat /\ ~(m <= m - 1)
        BY <2>2, <3>2
      <4>2. m - 1 \notin Bad
        BY <2>1, <4>1
      <4> QED
        BY <4>1, <4>2
    <3> QED
      BY <3>1, <3>2
  <2> HIDE DEF Bad
  <2> DEFINE h == [ends \in D \X D |-> Bends(points, g, ends[1], ends[2])]
  <2>4. \A first, last \in D : h[<<first, last>>] = Bends(points, g, first, last)
    OBVIOUS
  <2> HIDE DEF h
  <2>5. ASSUME NEW first \in D, NEW last \in D, last - first <= m
        PROVE  h[<<first, last>>] = Bends(points, h, first, last)
    <3>1. ASSUME NEW k \in D, first < k, k < last
          PROVE  g[<<first, k>>] = h[<<first, k>>] /\ g[<<k, last>>] = h[<<k, last>>]
      <4>1. /\ first \in Nat /\ last \in Nat /\ k \in Nat
        BY <1>1
      <4>2. m # 0 /\ k - first <= m - 1 /\ last - k <= m - 1
        BY <2>2, <2>5, <3>1, <4>1
      <4>3. Upto(g, m - 1)
        BY <2>3, <4>2
      <4> QED
        BY <2>4, <4>2, <4>3
    <3>2. Bends(points, g, first, last) = Bends(points, h, first, last)
      BY <3>1, BendsDepend
    <3> QED
      BY <2>4, <3>2
  <2> QED
    BY <2>2, <2>5
<1>3. PICK g : \A first, last \in D : g[<<first, last>>] = Bends(points, g, first, last)
  <2>1. PICK g : Upto(g, n)
    BY <1>2
  <2>2. \A first, last \in D : last - first <= n
    BY <1>1
  <2> QED
    BY <2>1, <2>2
<1> DEFINE h == [ends \in D \X D |-> g[ends]]
<1>4. \A first, last \in D : h[<<first, last>>] = g[<<first, last>>]
  OBVIOUS
<1>5. h = [ends \in D \X D |-> h[ends]]
  OBVIOUS
<1> HIDE DEF h
<1>6. \A first, last \in D : h[<<first, last>>] = Bends(points, h, first, last)
  <2> SUFFICES ASSUME NEW first \in D, NEW last \in D
               PROVE  h[<<first, last>>] = Bends(points, h, first, last)
    OBVIOUS
  <2>1. Bends(points, g, first, last) = Bends(points, h, first, last)
    BY <1>4, BendsDepend
  <2> QED
    BY <1>3, <1>4, <2>1
<1>7. h = [ends \in D \X D |-> Bends(points, h, ends[1], ends[2])]
  <2>1. \A ends \in D \X D : h[ends] = Bends(points, h, ends[1], ends[2])
    <3> SUFFICES ASSUME NEW first \in D, NEW last \in D
                 PROVE  h[<<first, last>>] = Bends(points, h, first, last)
      OBVIOUS
    <3> QED
      BY <1>6
  <2> QED
    BY <1>5, <2>1
<1>8. PICK bends : /\ bends = [ends \in D \X D |-> Bends(points, bends, ends[1], ends[2])]
                   /\ Kept(points) = {i \in D : i \in {1, Len(points)} \cup bends[<<1, Len(points)>>]}
  BY <1>7 DEF Kept
<1>9. \A first, last \in D : bends[<<first, last>>] = Bends(points, bends, first, last)
  <2> SUFFICES ASSUME NEW first \in D, NEW last \in D
               PROVE  bends[<<first, last>>] = Bends(points, bends, first, last)
    OBVIOUS
  <2>1. <<first, last>> \in D \X D
    OBVIOUS
  <2> DEFINE B(ends) == Bends(points, bends, ends[1], ends[2])
  <2>2. bends = [ends \in D \X D |-> B(ends)]
    BY <1>8
  <2>3. B(<<first, last>>) = Bends(points, bends, first, last)
    OBVIOUS
  <2> HIDE DEF B
  <2> QED
    BY <2>1, <2>2, <2>3
<1> QED
  BY <1>8, <1>9

\* The neighbours of a vertex that is left out, of what is kept from first to last, and
\* that it is near the segment between them.
LeftOutBetween(points, bends, first, last, k, l, r) ==
    /\ l \in {first, last} \cup bends[<<first, last>>]
    /\ r \in {first, last} \cup bends[<<first, last>>]
    /\ l \in first .. k - 1 /\ r \in k + 1 .. last
    /\ \A i \in bends[<<first, last>>] : i <= l \/ i >= r
    /\ ~Far(points[k], points[l], points[r])

Near(points, bends, first, last) ==
    /\ bends[<<first, last>>] \subseteq first + 1 .. last - 1
    /\ \A k \in (first + 1 .. last - 1) \ bends[<<first, last>>] :
          \E l, r \in first .. last : LeftOutBetween(points, bends, first, last, k, l, r)

\* If it holds of what is kept on either side of the middle it holds of the whole.
LEMMA NearOfHalves ==
    ASSUME NEW points \in Lines, NEW bends,
           \A a, b \in DOMAIN points : bends[<<a, b>>] = Bends(points, bends, a, b),
           NEW first \in DOMAIN points, NEW last \in DOMAIN points,
           \A m \in DOMAIN points : first < m /\ m < last =>
              Near(points, bends, first, m) /\ Near(points, bends, m, last)
    PROVE  Near(points, bends, first, last)
<1>1. first \in Int /\ last \in Int /\ DOMAIN points = 1 .. Len(points) /\ Len(points) \in Nat
  BY LineFacts
<1>2. bends[<<first, last>>] = Bends(points, bends, first, last)
  OBVIOUS
<1>3. CASE FarOff(points, first, last) = {}
  <2>1. bends[<<first, last>>] = {}
    BY <1>2, <1>3, BendsUnfold
  <2>2. ASSUME NEW k \in first + 1 .. last - 1
        PROVE  LeftOutBetween(points, bends, first, last, k, first, last)
    <3>1. first \in first .. k - 1 /\ last \in k + 1 .. last
      BY <1>1
    <3>2. ~Far(points[k], points[first], points[last])
      BY <1>3 DEF FarOff
    <3> QED
      BY <2>1, <3>1, <3>2 DEF LeftOutBetween
  <2>3. (\E k \in first + 1 .. last - 1 : TRUE) => first \in first .. last /\ last \in first .. last
    BY <1>1
  <2> QED
    BY <2>1, <2>2, <2>3 DEF Near
<1>4. CASE FarOff(points, first, last) # {}
  <2>1. PICK m : m = Middle(points, first, last)
    OBVIOUS
  <2>2. m \in DOMAIN points /\ first < m /\ m < last /\ m \in Int
    <3>1. m \in DOMAIN points /\ first < m /\ m < last
      BY <1>4, <2>1, MiddleFacts
    <3> QED
      BY <1>1, <3>1
  <2>3. PICK A : A = bends[<<first, m>>]
    OBVIOUS
  <2>4. PICK B : B = bends[<<m, last>>]
    OBVIOUS
  <2>5. bends[<<first, last>>] = {m} \cup A \cup B
    BY <1>2, <1>4, <2>1, <2>3, <2>4, BendsUnfold
  <2>6. Near(points, bends, first, m) /\ Near(points, bends, m, last)
    BY <2>2
  <2>7. A \subseteq first + 1 .. m - 1 /\ B \subseteq m + 1 .. last - 1
    BY <2>3, <2>4, <2>6 DEF Near
  <2>8. bends[<<first, last>>] \subseteq first + 1 .. last - 1
    <3>1. \A i \in first + 1 .. m - 1 : i \in first + 1 .. last - 1
      BY <1>1, <2>2
    <3>2. \A i \in m + 1 .. last - 1 : i \in first + 1 .. last - 1
      BY <1>1, <2>2
    <3>3. m \in first + 1 .. last - 1
      BY <1>1, <2>2
    <3> QED
      BY <2>5, <2>7, <3>1, <3>2, <3>3
  <2>9. ASSUME NEW k \in first + 1 .. last - 1, k \notin bends[<<first, last>>]
        PROVE  \E l, r \in first .. last : LeftOutBetween(points, bends, first, last, k, l, r)
    <3>1. k # m /\ k \notin A /\ k \notin B /\ k \in Int
      BY <1>1, <2>5, <2>9
    <3>2. CASE k < m
      <4>1. k \in (first + 1 .. m - 1) \ bends[<<first, m>>]
        BY <1>1, <2>2, <2>3, <3>1, <3>2
      <4>2. PICK l \in first .. m, r \in first .. m :
                LeftOutBetween(points, bends, first, m, k, l, r)
        BY <2>6, <4>1 DEF Near
      <4>3. /\ l \in {first, m} \cup A /\ r \in {first, m} \cup A
            /\ l \in first .. k - 1 /\ r \in k + 1 .. m
            /\ \A i \in A : i <= l \/ i >= r
            /\ ~Far(points[k], points[l], points[r])
        BY <2>3, <4>2 DEF LeftOutBetween
      <4>4. r \in k + 1 .. last /\ l \in first .. last /\ r \in first .. last
        BY <1>1, <2>2, <3>1, <4>3
      <4>5. ASSUME NEW i \in B PROVE i >= r
        <5>1. i \in m + 1 .. last - 1
          BY <2>7
        <5> QED
          BY <1>1, <2>2, <3>1, <4>3, <5>1
      <4>6. m >= r
        BY <1>1, <2>2, <3>1, <4>3
      <4>7. l \in {first, last} \cup bends[<<first, last>>]
            /\ r \in {first, last} \cup bends[<<first, last>>]
        BY <2>5, <4>3
      <4>8. \A i \in bends[<<first, last>>] : i <= l \/ i >= r
        BY <2>5, <4>3, <4>5, <4>6
      <4>9. LeftOutBetween(points, bends, first, last, k, l, r)
        BY <4>3, <4>4, <4>7, <4>8 DEF LeftOutBetween
      <4> QED
        BY <4>4, <4>9
    <3>3. CASE k > m
      <4>1. k \in (m + 1 .. last - 1) \ bends[<<m, last>>]
        BY <1>1, <2>2, <2>4, <3>1, <3>3
      <4>2. PICK l \in m .. last, r \in m .. last :
                LeftOutBetween(points, bends, m, last, k, l, r)
        BY <2>6, <4>1 DEF Near
      <4>3. /\ l \in {m, last} \cup B /\ r \in {m, last} \cup B
            /\ l \in m .. k - 1 /\ r \in k + 1 .. last
            /\ \A i \in B : i <= l \/ i >= r
            /\ ~Far(points[k], points[l], points[r])
        BY <2>4, <4>2 DEF LeftOutBetween
      <4>4. l \in first .. k - 1 /\ l \in first .. last /\ r \in first .. last
        BY <1>1, <2>2, <3>1, <4>3
      <4>5. ASSUME NEW i \in A PROVE i <= l
        <5>1. i \in first + 1 .. m - 1
          BY <2>7
        <5> QED
          BY <1>1, <2>2, <3>1, <4>3, <5>1
      <4>6. m <= l
        BY <1>1, <2>2, <3>1, <4>3
      <4>7. l \in {first, last} \cup bends[<<first, last>>]
            /\ r \in {first, last} \cup bends[<<first, last>>]
        BY <2>5, <4>3
      <4>8. \A i \in bends[<<first, last>>] : i <= l \/ i >= r
        BY <2>5, <4>3, <4>5, <4>6
      <4>9. LeftOutBetween(points, bends, first, last, k, l, r)
        BY <4>3, <4>4, <4>7, <4>8 DEF LeftOutBetween
      <4> QED
        BY <4>4, <4>9
    <3> QED
      BY <2>2, <3>1, <3>2, <3>3
  <2> QED
    BY <2>8, <2>9 DEF Near
<1> QED
  BY <1>3, <1>4

LEMMA EverywhereNear ==
    ASSUME NEW points \in Lines, NEW bends,
           \A a, b \in DOMAIN points : bends[<<a, b>>] = Bends(points, bends, a, b)
    PROVE  \A first, last \in DOMAIN points : first <= last => Near(points, bends, first, last)
<1> DEFINE D == DOMAIN points
           Upto(m) == \A first, last \in D : first <= last /\ last - first <= m =>
                          Near(points, bends, first, last)
           Bad == {m \in Nat : ~Upto(m)}
<1>1. PICK n \in Nat : n = Len(points) /\ D = 1 .. n
  BY LineFacts
<1>2. \A m \in Nat : Upto(m)
  <2> SUFFICES ASSUME Bad # {} PROVE FALSE
    OBVIOUS
  <2>1. PICK m \in Bad : \A k \in Bad : m <= k
    <3>1. Bad \in SUBSET Nat
      OBVIOUS
    <3> HIDE DEF Bad
    <3> QED
      BY <3>1, Least
  <2>2. m \in Nat /\ ~Upto(m)
    OBVIOUS
  <2>3. m # 0 => Upto(m - 1)
    <3> SUFFICES ASSUME m # 0 PROVE Upto(m - 1)
      OBVIOUS
    <3>1. m - 1 \in Nat /\ ~(m <= m - 1)
      BY <2>2
    <3>2. m - 1 \notin Bad
      BY <2>1, <3>1
    <3> QED
      BY <3>1, <3>2
  <2> HIDE DEF Bad
  <2>4. ASSUME NEW first \in D, NEW last \in D, first <= last, last - first <= m
        PROVE  Near(points, bends, first, last)
    <3>1. ASSUME NEW k \in D, first < k, k < last
          PROVE  Near(points, bends, first, k) /\ Near(points, bends, k, last)
      <4>1. /\ first \in Nat /\ last \in Nat /\ k \in Nat
        BY <1>1
      <4>2. /\ m # 0 /\ k - first <= m - 1 /\ last - k <= m - 1
            /\ first <= k /\ k <= last
        BY <2>2, <2>4, <3>1, <4>1
      <4>3. Upto(m - 1)
        BY <2>3, <4>2
      <4> QED
        BY <4>2, <4>3
    <3> QED
      BY <3>1, NearOfHalves
  <2> QED
    BY <2>2, <2>4
<1>3. \A first, last \in D : first <= last => last - first <= n
  BY <1>1
<1> QED
  BY <1>2, <1>3

\* What Douglas-Peucker promises of any line.
LEMMA LeftOutIsNear ==
    ASSUME NEW points \in Lines, NEW kept, kept = Kept(points)
    PROVE  /\ {1, Len(points)} \subseteq kept
           /\ \A k \in DOMAIN points \ kept :
                  ~Far(points[k], points[Max({i \in kept : i < k})],
                                  points[Min({i \in kept : i > k})])
<1>1. PICK n \in Nat : n = Len(points) /\ n >= 2 /\ DOMAIN points = 1 .. n
  BY LineFacts
<1>2. PICK bends :
        /\ \A a, b \in DOMAIN points : bends[<<a, b>>] = Bends(points, bends, a, b)
        /\ Kept(points) = {i \in DOMAIN points : i \in {1, Len(points)} \cup bends[<<1, Len(points)>>]}
  BY KeptUnfolds
<1>3. Near(points, bends, 1, n)
  <2>1. 1 \in DOMAIN points /\ n \in DOMAIN points /\ 1 <= n
    BY <1>1
  <2> QED
    BY <1>2, <2>1, EverywhereNear
<1>4. PICK B : B = bends[<<1, n>>]
  OBVIOUS
<1>5. /\ B \subseteq 2 .. n - 1
      /\ \A k \in (2 .. n - 1) \ B :
            \E l, r \in 1 .. n : LeftOutBetween(points, bends, 1, n, k, l, r)
  BY <1>3, <1>4 DEF Near
<1>6. kept = {1, n} \cup B
  <2>1. \A i \in 2 .. n - 1 : i \in 1 .. n
    BY <1>1
  <2>2. 1 \in 1 .. n /\ n \in 1 .. n
    BY <1>1
  <2> QED
    BY <1>1, <1>2, <1>4, <1>5, <2>1, <2>2
<1>7. ASSUME NEW k \in (DOMAIN points) \ kept
      PROVE  ~Far(points[k], points[Max({i \in kept : i < k})],
                             points[Min({i \in kept : i > k})])
  <2>1. k \in (2 .. n - 1) \ B /\ k \in Int
    BY <1>1, <1>6
  <2>2. PICK l \in 1 .. n, r \in 1 .. n : LeftOutBetween(points, bends, 1, n, k, l, r)
    BY <1>5, <2>1
  <2>3. /\ l \in kept /\ r \in kept /\ l \in 1 .. k - 1 /\ r \in k + 1 .. n
        /\ \A i \in B : i <= l \/ i >= r
        /\ ~Far(points[k], points[l], points[r])
    BY <1>4, <1>6, <2>2 DEF LeftOutBetween
  <2>4. \A i \in kept : i \in 1 .. n
    <3>1. \A i \in 2 .. n - 1 : i \in 1 .. n
      BY <1>1
    <3>2. 1 \in 1 .. n /\ n \in 1 .. n
      BY <1>1
    <3> QED
      BY <1>5, <1>6, <3>1, <3>2
  <2>5. \A i \in kept : i <= l \/ i >= r
    <3>1. 1 <= l /\ n >= r
      BY <2>1, <2>3
    <3> QED
      BY <1>6, <2>3, <3>1
  <2>6. Max({i \in kept : i < k}) = l
    <3>1. PICK T : T = {i \in kept : i < k}
      OBVIOUS
    <3>6. T \in SUBSET (1 .. n)
      BY <2>4, <3>1
    <3>7. l < k /\ n \in Int
      BY <1>1, <2>1, <2>3
    <3>8. l \in T
      BY <2>3, <3>1, <3>7
    <3>2. T \in SUBSET (1 .. n) /\ l \in T /\ 1 \in Int /\ n \in Int
      BY <3>6, <3>7, <3>8
    <3>3. Max(T) \in T /\ \A y \in T : Max(T) >= y
      BY <3>2, LeastOfInterval
    <3>4. Max(T) \in Int /\ Max(T) \in kept /\ Max(T) < k /\ Max(T) >= l
      BY <3>1, <3>2, <3>3
    <3>5. Max(T) <= l
      BY <2>1, <2>3, <2>5, <3>4
    <3> QED
      BY <2>1, <2>3, <3>1, <3>4, <3>5
  <2>7. Min({i \in kept : i > k}) = r
    <3>1. PICK T : T = {i \in kept : i > k}
      OBVIOUS
    <3>6. T \in SUBSET (1 .. n)
      BY <2>4, <3>1
    <3>7. r > k /\ n \in Int
      BY <1>1, <2>1, <2>3
    <3>8. r \in T
      BY <2>3, <3>1, <3>7
    <3>2. T \in SUBSET (1 .. n) /\ r \in T /\ 1 \in Int /\ n \in Int
      BY <3>6, <3>7, <3>8
    <3>3. Min(T) \in T /\ \A y \in T : Min(T) <= y
      BY <3>2, LeastOfInterval
    <3>4. Min(T) \in Int /\ Min(T) \in kept /\ Min(T) > k /\ Min(T) <= r
      BY <3>1, <3>2, <3>3
    <3>5. Min(T) >= r
      BY <2>1, <2>3, <2>5, <3>4
    <3> QED
      BY <2>1, <2>3, <3>1, <3>4, <3>5
  <2> QED
    BY <2>3, <2>6, <2>7
<1> QED
  BY <1>1, <1>6, <1>7

\* build-coastline.mjs:96-100.  The ends of every line are kept, and no vertex that is
\* left out is further than the tolerance from what is drawn in its place.
THEOREM LinesAreSimplifiedWithinTolerance == Spec => []SimplifiedWithinTolerance
<1>1. BuildInv => SimplifiedWithinTolerance
  <2> SUFFICES ASSUME BuildInv, NEW list \in PosListsOf(found),
                      NEW points, points = source.points[list],
                      NEW kept, kept = Kept(points)
               PROVE  /\ {1, Len(points)} \subseteq kept
                      /\ \A k \in DOMAIN points \ kept :
                             ~Far(points[k], points[Max({i \in kept : i < k})],
                                             points[Min({i \in kept : i > k})])
    BY Zenon DEF SimplifiedWithinTolerance
  <2>1. list \in DOMAIN source.points /\ source \in Sources
    BY DEF BuildInv, TextTypeOK
  <2>2. points \in Lines
    BY <2>1, BuildAssumption DEF Lines
  <2> QED
    BY <2>2, LeftOutIsNear
<1> QED
  BY <1>1, BuildInvariant, PTL

------------------------------------------------------------------------------
(* Where a tag is.                                                          *)

\* The tag is at place i of s.
At(s, tag, i) ==
    /\ i \in 1 .. Len(s) - Len(tag) + 1
    /\ \A k \in 1 .. Len(tag) : s[i + k - 1] = tag[k]

LEMMA AtIsSubSeq ==
    ASSUME NEW s \in Seq(Characters), NEW tag \in Seq(Characters),
           NEW i \in 1 .. Len(s) - Len(tag) + 1
    PROVE  SubSeq(s, i, i + Len(tag) - 1) = tag <=> At(s, tag, i)
<1>1. PICK n \in Nat : n = Len(s)
  BY LenProperties
<1>2. PICK m \in Nat : m = Len(tag)
  BY LenProperties
<1>3. PICK part : part = SubSeq(s, i, i + Len(tag) - 1)
  OBVIOUS
<1>4. i \in Int /\ i + m - 1 \in Int /\ 1 <= i /\ i + m - 1 <= n
  BY <1>1, <1>2
<1>5. \A k \in i .. i + m - 1 : s[k] \in Characters
  <2>1. \A k \in i .. i + m - 1 : k \in 1 .. Len(s)
    BY <1>1, <1>4
  <2> QED
    BY <2>1, ElementOfSeq
<1>6. /\ part \in Seq(Characters) /\ Len(part) = m
      /\ \A k \in 1 .. m : part[k] = s[i + k - 1]
  <2>1. /\ part \in Seq(Characters)
        /\ Len(part) = IF i <= i + m - 1 THEN (i + m - 1) - i + 1 ELSE 0
        /\ \A k \in 1 .. (i + m - 1) - i + 1 : part[k] = s[i + k - 1]
    BY <1>2, <1>3, <1>4, <1>5, SubSeqProperties
  <2>2. (i + m - 1) - i + 1 = m /\ (i <= i + m - 1 \/ m = 0)
    BY <1>2, <1>4
  <2> QED
    BY <2>1, <2>2
<1>7. ASSUME At(s, tag, i) PROVE part = tag
  <2>1. \A k \in 1 .. m : part[k] = tag[k]
    BY <1>2, <1>6, <1>7 DEF At
  <2> QED
    BY <1>2, <1>6, <2>1, SeqEqual
<1>8. ASSUME part = tag PROVE At(s, tag, i)
  BY <1>2, <1>6, <1>8 DEF At
<1> QED
  BY <1>3, <1>7, <1>8

\* indexOf is the first place where the tag is.
LEMMA IndexOfIsFirst ==
    ASSUME NEW s \in Seq(Characters), NEW tag \in Seq(Characters), Len(tag) > 0,
           NEW from \in Nat, from >= 1, NEW i, i = IndexOf(s, tag, from)
    PROVE  /\ i \in Nat
           /\ i # 0 => i >= from /\ At(s, tag, i) /\ \A j \in from .. i - 1 : ~At(s, tag, j)
           /\ i = 0 => \A j \in Nat : j >= from => ~At(s, tag, j)
<1>1. Len(s) \in Nat /\ Len(tag) \in Nat
  BY LenProperties
<1>2. /\ i \in Nat
      /\ i # 0 => /\ from <= i /\ i + Len(tag) <= Len(s) + 1
                  /\ SubSeq(s, i, i + Len(tag) - 1) = tag
                  /\ \A j \in from .. i - 1 : SubSeq(s, j, j + Len(tag) - 1) # tag
      /\ i = 0 => \A j \in from .. Len(s) - Len(tag) + 1 : SubSeq(s, j, j + Len(tag) - 1) # tag
  BY IndexOfFacts
<1>3. ASSUME i # 0
      PROVE  i >= from /\ At(s, tag, i) /\ \A j \in from .. i - 1 : ~At(s, tag, j)
  <2>1. i \in 1 .. Len(s) - Len(tag) + 1
    BY <1>1, <1>2, <1>3
  <2>2. At(s, tag, i)
    BY <1>2, <1>3, <2>1, AtIsSubSeq
  <2>3. ASSUME NEW j \in from .. i - 1 PROVE ~At(s, tag, j)
    <3>1. j \in 1 .. Len(s) - Len(tag) + 1
      BY <1>1, <2>1
    <3> QED
      BY <1>2, <1>3, <3>1, AtIsSubSeq
  <2> QED
    BY <1>2, <1>3, <2>2, <2>3
<1>4. ASSUME i = 0, NEW j \in Nat, j >= from, At(s, tag, j) PROVE FALSE
  <2>1. j \in 1 .. Len(s) - Len(tag) + 1 /\ j \in from .. Len(s) - Len(tag) + 1
    BY <1>1, <1>4 DEF At
  <2> QED
    BY <1>2, <1>4, <2>1, AtIsSubSeq
<1> QED
  BY <1>2, <1>3, <1>4

LEMMA FirstIsIndexOf ==
    ASSUME NEW s \in Seq(Characters), NEW tag \in Seq(Characters), Len(tag) > 0,
           NEW from \in Nat, from >= 1, NEW i \in Nat, i >= from, At(s, tag, i),
           \A j \in from .. i - 1 : ~At(s, tag, j)
    PROVE  IndexOf(s, tag, from) = i
<1>1. PICK k : k = IndexOf(s, tag, from)
  OBVIOUS
<1>2. /\ k \in Nat
      /\ k # 0 => k >= from /\ At(s, tag, k) /\ \A j \in from .. k - 1 : ~At(s, tag, j)
      /\ k = 0 => \A j \in Nat : j >= from => ~At(s, tag, j)
  BY <1>1, IndexOfIsFirst
<1>3. k # 0
  BY <1>2
<1>4. ~(k < i)
  <2> SUFFICES ASSUME k < i PROVE FALSE
    OBVIOUS
  <2>1. k \in from .. i - 1
    BY <1>2, <1>3
  <2> QED
    BY <1>2, <1>3, <2>1
<1>5. ~(i < k)
  <2> SUFFICES ASSUME i < k PROVE FALSE
    OBVIOUS
  <2>1. i \in from .. k - 1
    BY <1>2, <1>3
  <2> QED
    BY <1>2, <1>3, <2>1
<1> QED
  BY <1>1, <1>2, <1>4, <1>5

LEMMA NoneIsZero ==
    ASSUME NEW s \in Seq(Characters), NEW tag \in Seq(Characters), Len(tag) > 0,
           NEW from \in Nat, from >= 1, \A j \in Nat : j >= from => ~At(s, tag, j)
    PROVE  IndexOf(s, tag, from) = 0
<1>1. PICK k : k = IndexOf(s, tag, from)
  OBVIOUS
<1>2. k \in Nat /\ (k # 0 => k >= from /\ At(s, tag, k))
  BY <1>1, IndexOfIsFirst
<1> QED
  BY <1>1, <1>2

\* What lies between two places where a search may begin does not matter if no tag is there.
LEMMA SameFirst ==
    ASSUME NEW s \in Seq(Characters), NEW tag \in Seq(Characters), Len(tag) > 0,
           NEW a \in Nat, a >= 1, NEW b \in Nat, b >= 1,
           \A j \in Nat : At(s, tag, j) => (j >= a <=> j >= b)
    PROVE  IndexOf(s, tag, a) = IndexOf(s, tag, b)
<1>1. PICK i : i = IndexOf(s, tag, a)
  OBVIOUS
<1>2. /\ i \in Nat
      /\ i # 0 => i >= a /\ At(s, tag, i) /\ \A j \in a .. i - 1 : ~At(s, tag, j)
      /\ i = 0 => \A j \in Nat : j >= a => ~At(s, tag, j)
  BY <1>1, IndexOfIsFirst
<1>3. CASE i = 0
  <2>1. IndexOf(s, tag, b) = 0
    BY <1>2, <1>3, NoneIsZero
  <2> QED
    BY <1>1, <1>3, <2>1
<1>4. CASE i # 0
  <2>1. i >= b
    BY <1>2, <1>4
  <2>2. ASSUME NEW j \in b .. i - 1, At(s, tag, j) PROVE FALSE
    <3>1. j \in Nat /\ j >= b
      BY <1>2
    <3>2. j >= a
      BY <2>2, <3>1
    <3>3. j \in a .. i - 1
      BY <1>2, <3>1, <3>2
    <3> QED
      BY <1>2, <1>4, <2>2, <3>3
  <2>3. IndexOf(s, tag, b) = i
    BY <1>2, <1>4, <2>1, <2>2, FirstIsIndexOf
  <2> QED
    BY <1>1, <2>3
<1> QED
  BY <1>3, <1>4

\* A text that goes on.
LEMMA AtInLonger ==
    ASSUME NEW s \in Seq(Characters), NEW t \in Seq(Characters), NEW tag \in Seq(Characters),
           NEW i
    PROVE  At(s, tag, i) <=> At(s \o t, tag, i) /\ i + Len(tag) - 1 <= Len(s)
<1>1. PICK x \in Seq(Characters) : x = s \o t
  BY ConcatProperties
<1>2. /\ Len(x) = Len(s) + Len(t)
      /\ \A k \in 1 .. Len(s) + Len(t) : x[k] = IF k <= Len(s) THEN s[k] ELSE t[k - Len(s)]
  BY <1>1, ConcatProperties
<1>3. Len(s) \in Nat /\ Len(t) \in Nat /\ Len(tag) \in Nat
  BY LenProperties
<1>4. CASE i \in 1 .. Len(s) - Len(tag) + 1
  <2>1. i \in 1 .. Len(x) - Len(tag) + 1 /\ i + Len(tag) - 1 <= Len(s)
    BY <1>2, <1>3, <1>4
  <2>2. ASSUME NEW k \in 1 .. Len(tag) PROVE x[i + k - 1] = s[i + k - 1]
    <3>1. i + k - 1 \in 1 .. Len(s) + Len(t) /\ i + k - 1 <= Len(s)
      BY <1>3, <1>4
    <3> QED
      BY <1>2, <3>1
  <2> QED
    BY <1>1, <1>4, <2>1, <2>2 DEF At
<1>5. CASE i \notin 1 .. Len(s) - Len(tag) + 1
  <2>1. ~At(s, tag, i)
    BY <1>5 DEF At
  <2>2. ASSUME i \in 1 .. Len(x) - Len(tag) + 1 PROVE ~(i + Len(tag) - 1 <= Len(s))
    BY <1>2, <1>3, <1>5, <2>2
  <2> QED
    BY <1>1, <2>1, <2>2 DEF At
<1> QED
  BY <1>4, <1>5

LEMMA FirstInLonger ==
    ASSUME NEW s \in Seq(Characters), NEW t \in Seq(Characters), NEW tag \in Seq(Characters),
           Len(tag) > 0, NEW from \in Nat, from >= 1,
           NEW i, i = IndexOf(s, tag, from), i # 0
    PROVE  IndexOf(s \o t, tag, from) = i
<1>1. i \in Nat /\ i >= from /\ At(s, tag, i) /\ \A j \in from .. i - 1 : ~At(s, tag, j)
  BY IndexOfIsFirst
<1>2. PICK x \in Seq(Characters) : x = s \o t
  BY ConcatProperties
<1>3. At(x, tag, i) /\ i + Len(tag) - 1 <= Len(s)
  BY <1>1, <1>2, AtInLonger
<1>4. ASSUME NEW j \in from .. i - 1, At(x, tag, j) PROVE FALSE
  <2>1. Len(s) \in Nat /\ Len(tag) \in Nat
    BY LenProperties
  <2>2. j + Len(tag) - 1 <= Len(s)
    BY <1>1, <1>3, <2>1
  <2> QED
    BY <1>1, <1>2, <1>4, <2>2, AtInLonger
<1> QED
  BY <1>1, <1>2, <1>3, <1>4, FirstIsIndexOf

\* y is x without its first d characters.
IsRest(y, x, d) == d \in 0 .. Len(x) /\ y = SubSeq(x, d + 1, Len(x))

LEMMA WithoutFirst ==
    ASSUME NEW x \in Seq(Characters), NEW d, NEW y, IsRest(y, x, d)
    PROVE  /\ y \in Seq(Characters) /\ Len(y) = Len(x) - d /\ Len(y) \in Nat /\ d \in Nat
           /\ \A k \in 1 .. Len(y) : y[k] = x[k + d]
<1>1. PICK n \in Nat : n = Len(x)
  BY LenProperties
<1>2. d \in Nat /\ d <= n /\ d + 1 \in Int /\ n \in Int
  BY <1>1 DEF IsRest
<1>3. \A k \in d + 1 .. n : x[k] \in Characters
  <2>1. \A k \in d + 1 .. n : k \in 1 .. Len(x)
    BY <1>1, <1>2
  <2> QED
    BY <2>1, ElementOfSeq
<1>4. /\ y \in Seq(Characters)
      /\ Len(y) = IF d + 1 <= n THEN n - (d + 1) + 1 ELSE 0
      /\ \A k \in 1 .. n - (d + 1) + 1 : y[k] = x[(d + 1) + k - 1]
  BY <1>1, <1>2, <1>3, SubSeqProperties DEF IsRest
<1>5. Len(y) = n - d /\ n - (d + 1) + 1 = n - d
  BY <1>2, <1>4
<1>6. ASSUME NEW k \in 1 .. Len(y) PROVE y[k] = x[k + d]
  <2>1. (d + 1) + k - 1 = k + d
    BY <1>2, <1>5
  <2> QED
    BY <1>4, <1>5, <2>1
<1> QED
  BY <1>1, <1>2, <1>4, <1>5, <1>6

LEMMA AtInRest ==
    ASSUME NEW x \in Seq(Characters), NEW d, NEW y, IsRest(y, x, d),
           NEW tag \in Seq(Characters), NEW i \in Nat, i >= 1, NEW n, n = i + d
    PROVE  At(y, tag, i) <=> At(x, tag, n)
<1>1. /\ y \in Seq(Characters) /\ Len(y) = Len(x) - d /\ Len(y) \in Nat /\ d \in Nat
      /\ \A k \in 1 .. Len(y) : y[k] = x[k + d]
  BY WithoutFirst
<1>2. Len(x) \in Nat /\ Len(tag) \in Nat
  BY LenProperties
<1>3. i \in 1 .. Len(y) - Len(tag) + 1 <=> n \in 1 .. Len(x) - Len(tag) + 1
  BY <1>1, <1>2
<1>4. ASSUME i \in 1 .. Len(y) - Len(tag) + 1, NEW k \in 1 .. Len(tag)
      PROVE  y[i + k - 1] = x[n + k - 1]
  <2>1. i + k - 1 \in 1 .. Len(y) /\ (i + k - 1) + d = n + k - 1
    BY <1>1, <1>2, <1>4
  <2> QED
    BY <1>1, <2>1
<1> QED
  BY <1>3, <1>4 DEF At

LEMMA FirstInRest ==
    ASSUME NEW x \in Seq(Characters), NEW d, NEW y, IsRest(y, x, d),
           NEW tag \in Seq(Characters), Len(tag) > 0,
           NEW from \in Nat, from >= 1, NEW i, i = IndexOf(y, tag, from),
           NEW f, f = from + d
    PROVE  IndexOf(x, tag, f) = IF i = 0 THEN 0 ELSE i + d
<1>1. y \in Seq(Characters) /\ d \in Nat
  BY WithoutFirst
<1>2. /\ i \in Nat
      /\ i # 0 => i >= from /\ At(y, tag, i) /\ \A j \in from .. i - 1 : ~At(y, tag, j)
      /\ i = 0 => \A j \in Nat : j >= from => ~At(y, tag, j)
  BY <1>1, IndexOfIsFirst
<1>3. f \in Nat /\ f >= 1
  BY <1>1
<1>4. ASSUME NEW j \in Nat, j >= f, At(x, tag, j), NEW k, k = j - d
      PROVE  k \in Nat /\ k >= from /\ At(y, tag, k)
  <2>1. k \in Nat /\ k >= from /\ k >= 1 /\ j = k + d
    BY <1>1, <1>4
  <2>3. At(y, tag, k) <=> At(x, tag, j)
    BY <2>1, AtInRest
  <2> QED
    BY <1>4, <2>1, <2>3
<1>5. CASE i = 0
  <2>1. \A j \in Nat : j >= f => ~At(x, tag, j)
    BY <1>2, <1>4, <1>5
  <2>2. IndexOf(x, tag, f) = 0
    BY <1>3, <2>1, NoneIsZero
  <2> QED
    BY <1>5, <2>2
<1>6. CASE i # 0
  <2>5. i \in Nat /\ i >= from /\ i >= 1
    BY <1>2, <1>6
  <2>6. i + d \in Nat /\ i + d >= f
    BY <1>1, <2>5
  <2>1. PICK n \in Nat : n = i + d /\ n >= f /\ i >= 1
    BY <2>5, <2>6
  <2>2. At(x, tag, n)
    BY <1>2, <1>6, <2>1, AtInRest
  <2>3. ASSUME NEW j \in f .. n - 1, At(x, tag, j) PROVE FALSE
    <3>1. j \in Nat /\ j >= f
      BY <1>3
    <3>2. PICK k : k = j - d
      OBVIOUS
    <3>3. At(y, tag, k)
      BY <1>4, <2>3, <3>1, <3>2
    <3>4. k \in from .. i - 1
      BY <1>1, <1>2, <2>1, <3>1, <3>2
    <3> QED
      BY <1>2, <1>6, <3>3, <3>4
  <2>4. IndexOf(x, tag, f) = n
    BY <1>3, <2>1, <2>2, <2>3, FirstIsIndexOf
  <2> QED
    BY <1>6, <2>1, <2>4
<1> QED
  BY <1>5, <1>6

\* y is what is in s from a to b.
IsPart(y, s, a, b) == y = SubSeq(s, a, b)

LEMMA SubSeqFacts ==
    ASSUME NEW s \in Seq(Characters), NEW a \in Int, NEW b \in Int, a >= 1, b <= Len(s),
           NEW y, IsPart(y, s, a, b)
    PROVE  /\ y \in Seq(Characters)
           /\ Len(y) = IF a <= b THEN b - a + 1 ELSE 0
           /\ \A k \in 1 .. Len(y) : y[k] = s[a + k - 1]
<1>1. \A i \in a .. b : i \in 1 .. Len(s)
  BY LenProperties
<1>2. \A i \in a .. b : s[i] \in Characters
  BY <1>1, ElementOfSeq
<1>3. /\ y \in Seq(Characters)
      /\ Len(y) = IF a <= b THEN b - a + 1 ELSE 0
      /\ \A k \in 1 .. b - a + 1 : y[k] = s[a + k - 1]
  BY <1>2, SubSeqProperties DEF IsPart
<1>4. \A k \in 1 .. Len(y) : k \in 1 .. b - a + 1
  BY <1>3
<1> QED
  BY <1>3, <1>4

LEMMA SubSeqInLonger ==
    ASSUME NEW s \in Seq(Characters), NEW t \in Seq(Characters),
           NEW a \in Int, NEW b \in Int, a >= 1, b <= Len(s)
    PROVE  SubSeq(s \o t, a, b) = SubSeq(s, a, b)
<1>1. PICK x \in Seq(Characters) : x = s \o t
  BY ConcatProperties
<1>2. /\ Len(x) = Len(s) + Len(t)
      /\ \A k \in 1 .. Len(s) + Len(t) : x[k] = IF k <= Len(s) THEN s[k] ELSE t[k - Len(s)]
  BY <1>1, ConcatProperties
<1>3. Len(s) \in Nat /\ Len(t) \in Nat
  BY LenProperties
<1>4. PICK y : IsPart(y, s, a, b)
  BY DEF IsPart
<1>5. PICK z : IsPart(z, x, a, b)
  BY DEF IsPart
<1>6. /\ y \in Seq(Characters) /\ Len(y) = IF a <= b THEN b - a + 1 ELSE 0
      /\ \A k \in 1 .. Len(y) : y[k] = s[a + k - 1]
  BY <1>4, SubSeqFacts
<1>7. b <= Len(x)
  BY <1>2, <1>3
<1>8. /\ z \in Seq(Characters) /\ Len(z) = IF a <= b THEN b - a + 1 ELSE 0
      /\ \A k \in 1 .. Len(z) : z[k] = x[a + k - 1]
  BY <1>5, <1>7, SubSeqFacts
<1>9. Len(y) = Len(z) /\ Len(y) \in Nat
  BY <1>6, <1>8
<1>10. ASSUME NEW k \in 1 .. Len(y) PROVE y[k] = z[k]
  <2>1. a + k - 1 \in 1 .. Len(s) + Len(t) /\ a + k - 1 <= Len(s)
    BY <1>3, <1>6
  <2> QED
    BY <1>2, <1>6, <1>8, <1>9, <2>1
<1>11. y = z
  BY <1>6, <1>8, <1>9, <1>10, SeqEqual
<1> QED
  BY <1>1, <1>4, <1>5, <1>11 DEF IsPart

\* Place a of the rest is place e of the text.
Shifted(e, a, d) == e = a + d

LEMMA SubSeqInRest ==
    ASSUME NEW x \in Seq(Characters), NEW d, NEW y, IsRest(y, x, d),
           NEW a \in Int, NEW b \in Int, a >= 1, b <= Len(y),
           NEW e, Shifted(e, a, d), NEW f, Shifted(f, b, d), NEW u, IsPart(u, y, a, b)
    PROVE  IsPart(u, x, e, f)
<1>1. /\ y \in Seq(Characters) /\ Len(y) = Len(x) - d /\ Len(y) \in Nat /\ d \in Nat
      /\ \A k \in 1 .. Len(y) : y[k] = x[k + d]
  BY WithoutFirst
<1>2. Len(x) \in Nat
  BY LenProperties
<1>3. /\ e = a + d /\ f = b + d
      /\ e \in Int /\ f \in Int /\ e >= 1 /\ f <= Len(x)
  BY <1>1, <1>2 DEF Shifted
<1>4. e \in Int /\ f \in Int /\ e >= 1 /\ f <= Len(x)
  BY <1>3
<1>5. PICK v : IsPart(v, x, e, f)
  BY DEF IsPart
<1>6. /\ u \in Seq(Characters) /\ Len(u) = IF a <= b THEN b - a + 1 ELSE 0
      /\ \A k \in 1 .. Len(u) : u[k] = y[a + k - 1]
  BY <1>1, SubSeqFacts
<1>7. /\ v \in Seq(Characters) /\ Len(v) = IF e <= f THEN f - e + 1 ELSE 0
      /\ \A k \in 1 .. Len(v) : v[k] = x[e + k - 1]
  BY <1>4, <1>5, SubSeqFacts
<1>8. Len(u) = Len(v) /\ Len(u) \in Nat
  BY <1>1, <1>3, <1>6, <1>7
<1>9. ASSUME NEW k \in 1 .. Len(u) PROVE u[k] = v[k]
  <2>1. a + k - 1 \in 1 .. Len(y) /\ (a + k - 1) + d = e + k - 1
    BY <1>1, <1>3, <1>6
  <2>2. y[a + k - 1] = x[e + k - 1]
    BY <1>1, <2>1
  <2> QED
    BY <1>6, <1>7, <1>8, <2>2
<1>10. u = v
  BY <1>6, <1>7, <1>8, <1>9, SeqEqual
<1> QED
  BY <1>5, <1>10

LEMMA SubSeqSplits ==
    ASSUME NEW s \in Seq(Characters), NEW a \in Nat, NEW b \in Nat, a <= b, b <= Len(s)
    PROVE  SubSeq(s, a + 1, Len(s)) = SubSeq(s, a + 1, b) \o SubSeq(s, b + 1, Len(s))
<1>1. Len(s) \in Nat
  BY LenProperties
<1>2. PICK m \in 1 .. Len(s) + 1 : m = a + 1
  BY <1>1
<1>3. b \in m - 1 .. Len(s) /\ Len(s) \in b .. Len(s)
  BY <1>1, <1>2
<1>4. SubSeq(s, m, b) \o SubSeq(s, b + 1, Len(s)) = SubSeq(s, m, Len(s))
  BY <1>3, ConcatAdjacentSubSeq, Zenon
<1> QED
  BY <1>2, <1>4

------------------------------------------------------------------------------
(* A scan that goes on with what is left.                                   *)

\* f is what is found in s from each place on.
Scanned(f, s) ==
    /\ f \in [1 .. Len(s) + 1 -> Results]
    /\ f = [from \in 1 .. Len(s) + 1 |-> Search(s, f, from)]

\* i is where a tag is next.
IsNext(i, s, tag, from) == i = IndexOf(s, tag, from)

\* The search goes on behind a closing tag.
IsBehind(next, end) == next = end + Len(CloseTag)

\* The feature between two tags, and those after it.
Found(s, start, end, others) == <<SubSeq(s, start, end - 1)>> \o others

LEMMA Tags ==
    /\ OpenTag \in Seq(Characters) /\ CloseTag \in Seq(Characters)
    /\ Len(OpenTag) \in Nat /\ Len(CloseTag) \in Nat
    /\ Len(OpenTag) > 0 /\ Len(CloseTag) > 0 /\ Len(CloseTag) >= Len(OpenTag)
BY BuildAssumption, LenProperties

LEMMA NothingBegun ==
    ASSUME NEW s \in Seq(Characters), NEW f, Scanned(f, s), NEW from \in 1 .. Len(s) + 1,
           IsNext(0, s, OpenTag, from)
    PROVE  f[from].features = <<>> /\ f[from].from = from
BY DEF Scanned, Search, IsNext

LEMMA NothingEnded ==
    ASSUME NEW s \in Seq(Characters), NEW f, Scanned(f, s), NEW from \in 1 .. Len(s) + 1,
           NEW start, IsNext(start, s, OpenTag, from), start # 0,
           IsNext(0, s, CloseTag, start)
    PROVE  f[from].features = <<>> /\ f[from].from = start
BY DEF Scanned, Search, IsNext

LEMMA OneFound ==
    ASSUME NEW s \in Seq(Characters), NEW f, Scanned(f, s), NEW from \in 1 .. Len(s) + 1,
           NEW start, IsNext(start, s, OpenTag, from), start # 0,
           NEW end, IsNext(end, s, CloseTag, start), end # 0,
           NEW next, IsBehind(next, end)
    PROVE  /\ next \in from + 1 .. Len(s) + 1
           /\ start \in Nat /\ start >= from /\ start >= 1
           /\ end \in Nat /\ end >= start /\ At(s, CloseTag, end)
           /\ f[from].features = Found(s, start, end, f[next].features)
           /\ f[from].from = f[next].from
<1>1. Len(s) \in Nat /\ from \in Nat /\ from >= 1
  BY LenProperties
<1>2. start \in Nat /\ start >= from
  BY <1>1, Tags, IndexOfIsFirst DEF IsNext
<1>3. end \in Nat /\ end >= start /\ At(s, CloseTag, end)
  <2>1. start >= 1
    BY <1>1, <1>2
  <2> QED
    BY <1>2, <2>1, Tags, IndexOfIsFirst DEF IsNext
<1>4. next \in from + 1 .. Len(s) + 1 /\ start >= 1
  <2>1. end + Len(CloseTag) <= Len(s) + 1
    BY <1>1, <1>3, Tags DEF At
  <2> QED
    BY <1>1, <1>2, <1>3, <2>1, Tags DEF IsBehind
<1>5. /\ f[from].features = Found(s, start, end, f[next].features)
      /\ f[from].from = f[next].from
  <2>1. f[from] = Search(s, f, from)
    BY DEF Scanned
  <2>2. Search(s, f, from) = [features |-> Found(s, start, end, f[next].features),
                              from |-> f[next].from]
    BY DEF Search, IsNext, IsBehind, Found
  <2> QED
    BY <2>1, <2>2
<1> QED
  BY <1>2, <1>3, <1>4, <1>5

LEMMA ScanIsFirst ==
    ASSUME NEW s \in Seq(Characters)
    PROVE  \E f : Scanned(f, s) /\ Scan(s) = f[1]
BY ScanUnfolds DEF Scanned

\* What is found depends on where the next opening tag is only.
LEMMA SameStart ==
    ASSUME NEW s \in Seq(Characters), NEW f, Scanned(f, s),
           NEW a \in 1 .. Len(s) + 1, NEW b \in 1 .. Len(s) + 1,
           NEW start, IsNext(start, s, OpenTag, a), IsNext(start, s, OpenTag, b)
    PROVE  f[a].features = f[b].features
<1>1. CASE start = 0
  BY <1>1, NothingBegun
<1>2. CASE start # 0
  <2>1. PICK end : IsNext(end, s, CloseTag, start)
    BY DEF IsNext
  <2>2. CASE end = 0
    BY <1>2, <2>1, <2>2, NothingEnded
  <2>3. CASE end # 0
    <3>1. PICK next : IsBehind(next, end)
      BY DEF IsBehind
    <3>2. f[a].features = Found(s, start, end, f[next].features)
      BY <1>2, <2>1, <2>3, <3>1, OneFound
    <3>3. f[b].features = Found(s, start, end, f[next].features)
      BY <1>2, <2>1, <2>3, <3>1, OneFound
    <3> QED
      BY <3>2, <3>3
  <2> QED
    BY <2>2, <2>3
<1> QED
  BY <1>1, <1>2

LEMMA NextInRest ==
    ASSUME NEW x \in Seq(Characters), NEW d, NEW y, IsRest(y, x, d),
           NEW tag \in Seq(Characters), Len(tag) > 0,
           NEW from \in Nat, from >= 1, NEW i, IsNext(i, y, tag, from),
           NEW f, f = from + d
    PROVE  IsNext(IF i = 0 THEN 0 ELSE i + d, x, tag, f)
BY FirstInRest DEF IsNext

LEMMA NextFacts ==
    ASSUME NEW s \in Seq(Characters), NEW tag \in Seq(Characters), Len(tag) > 0,
           NEW from \in Nat, from >= 1, NEW i, IsNext(i, s, tag, from)
    PROVE  /\ i \in Nat
           /\ i # 0 => i >= from /\ At(s, tag, i) /\ \A j \in from .. i - 1 : ~At(s, tag, j)
           /\ i = 0 => \A j \in Nat : j >= from => ~At(s, tag, j)
BY IndexOfIsFirst DEF IsNext

\* One step of the search in the rest is one in the text.
LEMMA StepInRest ==
    ASSUME NEW x \in Seq(Characters), NEW d, NEW y, IsRest(y, x, d),
           NEW f, Scanned(f, x), NEW g, Scanned(g, y),
           NEW i \in 1 .. Len(y) + 1, NEW i2 \in 1 .. Len(x) + 1, i2 = i + d,
           \A j \in i + 1 .. Len(y) + 1 : g[j].features = f[j + d].features
    PROVE  g[i].features = f[i2].features
<1>1. y \in Seq(Characters) /\ Len(y) \in Nat /\ d \in Nat
  BY WithoutFirst
<1>2. i \in Nat /\ i >= 1
  BY <1>1
<1>3. PICK start : IsNext(start, y, OpenTag, i)
  BY DEF IsNext
<1>4. IsNext(IF start = 0 THEN 0 ELSE start + d, x, OpenTag, i2)
  BY <1>2, <1>3, Tags, NextInRest
<1>5. CASE start = 0
  <2>1. IsNext(0, x, OpenTag, i2)
    BY <1>4, <1>5
  <2>2. g[i].features = <<>>
    BY <1>1, <1>3, <1>5, NothingBegun
  <2>3. f[i2].features = <<>>
    BY <2>1, NothingBegun
  <2> QED
    BY <2>2, <2>3
<1>6. CASE start # 0
  <2>1. start \in Nat /\ start >= i /\ start >= 1
    <3>1. start \in Nat /\ start >= i
      BY <1>1, <1>2, <1>3, <1>6, Tags, NextFacts
    <3> QED
      BY <1>2, <3>1
  <2>2. PICK start2 \in Nat : start2 = start + d /\ start2 # 0
    BY <1>1, <2>1
  <2>3. IsNext(start2, x, OpenTag, i2)
    BY <1>4, <1>6, <2>2
  <2>4. PICK end : IsNext(end, y, CloseTag, start)
    BY DEF IsNext
  <2>5. IsNext(IF end = 0 THEN 0 ELSE end + d, x, CloseTag, start2)
    BY <2>1, <2>2, <2>4, Tags, NextInRest
  <2>6. CASE end = 0
    <3>1. IsNext(0, x, CloseTag, start2)
      BY <2>5, <2>6
    <3>2. g[i].features = <<>>
      BY <1>1, <1>3, <1>6, <2>4, <2>6, NothingEnded
    <3>3. f[i2].features = <<>>
      BY <2>2, <2>3, <3>1, NothingEnded
    <3> QED
      BY <3>2, <3>3
  <2>7. CASE end # 0
    <3>1. PICK next : IsBehind(next, end)
      BY DEF IsBehind
    <3>2. /\ next \in i + 1 .. Len(y) + 1 /\ end \in Nat
          /\ end >= start /\ At(y, CloseTag, end)
          /\ g[i].features = Found(y, start, end, g[next].features)
      BY <1>1, <1>3, <1>6, <2>4, <2>7, <3>1, OneFound
    <3>3. PICK end2 \in Nat : end2 = end + d /\ end2 # 0
      BY <1>1, <2>1, <3>2
    <3>4. IsNext(end2, x, CloseTag, start2)
      BY <2>5, <2>7, <3>3
    <3>5. PICK next2 : IsBehind(next2, end2)
      BY DEF IsBehind
    <3>6. f[i2].features = Found(x, start2, end2, f[next2].features)
      BY <2>2, <2>3, <3>3, <3>4, <3>5, OneFound
    <3>7. next2 = next + d
      BY <1>1, <3>1, <3>2, <3>3, <3>5, Tags DEF IsBehind
    <3>8. g[next].features = f[next2].features
      BY <3>2, <3>7
    <3>9. SubSeq(x, start2, end2 - 1) = SubSeq(y, start, end - 1)
      <4>1. PICK e \in Int : e = end - 1 /\ e <= Len(y)
        BY <1>1, <3>2, Tags DEF At
      <4>2. PICK e2 \in Int : e2 = end2 - 1 /\ e2 = e + d
        BY <1>1, <3>2, <3>3, <4>1
      <4>3. Shifted(start2, start, d) /\ Shifted(e2, e, d) /\ start \in Int
        BY <2>1, <2>2, <4>2 DEF Shifted
      <4>5. PICK z : IsPart(z, y, start, e)
        BY DEF IsPart
      <4>6. IsPart(z, x, start2, e2)
        BY <2>1, <4>1, <4>3, <4>5, SubSeqInRest
      <4>4. SubSeq(x, start2, e2) = SubSeq(y, start, e)
        BY <4>5, <4>6 DEF IsPart
      <4> QED
        BY <4>1, <4>2, <4>4
    <3> QED
      BY <3>2, <3>6, <3>8, <3>9 DEF Found
  <2> QED
    BY <2>6, <2>7
<1> QED
  BY <1>5, <1>6

\* What is found in the rest of a text is what is found in the text from there on.
LEMMA FoundInRest ==
    ASSUME NEW x \in Seq(Characters), NEW d, NEW y, IsRest(y, x, d),
           NEW f, Scanned(f, x), NEW g, Scanned(g, y)
    PROVE  \A i \in 1 .. Len(y) + 1 : g[i].features = f[i + d].features
<1>1. y \in Seq(Characters) /\ Len(y) = Len(x) - d /\ Len(y) \in Nat /\ d \in Nat
  BY WithoutFirst
<1>2. PICK n : n = Len(y) + 1
  OBVIOUS
<1>3. n \in Nat
  BY <1>1, <1>2
<1> DEFINE Wrong == {m \in Nat : m < n /\ g[n - m].features # f[n - m + d].features}
<1> SUFFICES ASSUME Wrong # {} PROVE FALSE
  <2>1. \A i \in 1 .. n : n - i \in Nat /\ n - i < n /\ n - (n - i) = i
    BY <1>3
  <2> QED
    BY <1>2, <2>1
<1>4. PICK m \in Wrong : \A k \in Wrong : m <= k
  <2>1. Wrong \in SUBSET Nat
    OBVIOUS
  <2> HIDE DEF Wrong
  <2> QED
    BY <2>1, Least
<1>5. PICK i \in 1 .. Len(y) + 1 : i = n - m
  BY <1>2, <1>3
<1>6. PICK i2 \in 1 .. Len(x) + 1 : i2 = i + d
  <2>1. Len(x) \in Nat
    BY LenProperties
  <2> QED
    BY <1>1, <2>1
<1>7. g[i].features # f[i2].features
  BY <1>4, <1>5, <1>6
<1>8. ASSUME NEW j \in i + 1 .. Len(y) + 1
      PROVE  g[j].features = f[j + d].features
  <2>1. n - j \in Nat /\ n - j < n /\ n - (n - j) = j /\ ~(m <= n - j)
    BY <1>1, <1>2, <1>3, <1>4, <1>5
  <2>2. n - j \notin Wrong
    BY <1>4, <2>1
  <2> QED
    BY <2>1, <2>2
<1> HIDE DEF Wrong
<1>9. g[i].features = f[i2].features
  BY <1>6, <1>8, StepInRest
<1> QED
  BY <1>7, <1>9

\* Where what has not been used of s begins, when the search has ended at a place.
Left(s, from) ==
    IF IndexOf(s, OpenTag, from) # 0 THEN IndexOf(s, OpenTag, from)
    ELSE Max({1, Len(s) - Len(OpenTag) + 1})

LEMMA LeftIsInText ==
    ASSUME NEW s \in Seq(Characters), NEW from \in 1 .. Len(s) + 1
    PROVE  Left(s, from) \in 1 .. Len(s) + 1
<1>1. Len(s) \in Nat /\ from \in Nat /\ from >= 1
  BY LenProperties
<1>2. PICK i : IsNext(i, s, OpenTag, from)
  BY DEF IsNext
<1>3. i \in Nat /\ (i # 0 => i >= from /\ At(s, OpenTag, i))
  BY <1>1, <1>2, Tags, NextFacts
<1>4. CASE i # 0
  <2>1. i \in 1 .. Len(s) + 1
    BY <1>1, <1>3, <1>4, Tags DEF At
  <2> QED
    BY <1>2, <1>4, <2>1 DEF Left, IsNext
<1>5. CASE i = 0
  <2>1. PICK m \in Int : m = Len(s) - Len(OpenTag) + 1
    BY <1>1, Tags
  <2>2. Left(s, from) = IF 1 >= m THEN 1 ELSE m
    <3>1. Left(s, from) = Max({1, m})
      BY <1>2, <1>5, <2>1 DEF Left, IsNext
    <3> QED
      BY <2>1, <3>1, OfTwo
  <2> QED
    BY <1>1, <2>1, <2>2, Tags
<1> QED
  BY <1>4, <1>5

\* The search may begin there: no tag is there that ended.
MayBegin(s, from) == from = 1 \/ At(s, CloseTag, from - Len(CloseTag))

\* An opening tag does not begin in a closing tag and end behind it.
LEMMA NoOpenTagAcross ==
    ASSUME NEW x \in Seq(Characters), NEW c \in Nat, At(x, CloseTag, c),
           NEW from, IsBehind(from, c),
           NEW j \in Nat, At(x, OpenTag, j), j < from, j + Len(OpenTag) >= from
    PROVE  FALSE
<1>1. PICK n \in Nat : n = Len(OpenTag) /\ n > 0
  BY Tags
<1>2. PICK m \in Nat : m = Len(CloseTag) /\ m >= n
  BY <1>1, Tags
<1>11. from = c + m
  BY <1>2 DEF IsBehind
<1>12. from - j \in 1 .. n
  BY <1>1, <1>2, <1>11
<1>13. PICK q : q = from - j
  OBVIOUS
<1>3. q \in 1 .. n /\ q = from - j
  BY <1>12, <1>13
<1>4. PICK y : IsPart(y, CloseTag, m - q + 1, m)
  BY DEF IsPart
<1>5. PICK z : IsPart(z, OpenTag, 1, q)
  BY DEF IsPart
<1>6. m - q + 1 \in Int /\ m - q + 1 >= 1 /\ m \in Int /\ m <= Len(CloseTag)
  BY <1>1, <1>2, <1>3
<1>7. /\ y \in Seq(Characters) /\ Len(y) = q
      /\ \A k \in 1 .. Len(y) : y[k] = CloseTag[(m - q + 1) + k - 1]
  <2>1. /\ y \in Seq(Characters)
        /\ Len(y) = IF m - q + 1 <= m THEN m - (m - q + 1) + 1 ELSE 0
        /\ \A k \in 1 .. Len(y) : y[k] = CloseTag[(m - q + 1) + k - 1]
    BY <1>4, <1>6, Tags, SubSeqFacts
  <2> QED
    BY <1>2, <1>3, <2>1
<1>8. /\ z \in Seq(Characters) /\ Len(z) = q
      /\ \A k \in 1 .. Len(z) : z[k] = OpenTag[1 + k - 1]
  <2>1. q \in Int /\ q <= Len(OpenTag) /\ 1 \in Int /\ 1 >= 1
    BY <1>1, <1>3
  <2>2. /\ z \in Seq(Characters) /\ Len(z) = IF 1 <= q THEN q - 1 + 1 ELSE 0
        /\ \A k \in 1 .. Len(z) : z[k] = OpenTag[1 + k - 1]
    BY <1>5, <2>1, Tags, SubSeqFacts
  <2> QED
    BY <1>3, <2>1, <2>2
<1>9. ASSUME NEW k \in 1 .. q PROVE y[k] = z[k]
  <2>1. k \in Int /\ 1 <= k /\ k <= q /\ q <= n /\ q = from - j
    BY <1>3
  <2>2. PICK a \in 1 .. m : a = m - q + k
    BY <1>2, <1>3
  <2>3. PICK b \in 1 .. Len(OpenTag) : b = k
    BY <1>1, <2>1
  <2>4. x[c + a - 1] = CloseTag[a]
    BY <1>2 DEF At
  <2>5. x[j + b - 1] = OpenTag[b]
    BY DEF At
  <2>6. c + a - 1 = j + b - 1
    BY <1>2, <1>3, <1>11, <2>2, <2>3
  <2>7. (m - q + 1) + k - 1 = a /\ 1 + k - 1 = b
    BY <1>2, <1>3, <2>2, <2>3
  <2>8. y[k] = CloseTag[a] /\ z[k] = OpenTag[b]
    BY <1>7, <1>8, <2>7
  <2> QED
    BY <2>4, <2>5, <2>6, <2>8
<1>10. y = z
  BY <1>7, <1>8, <1>9, SeqEqual
<1> QED
  BY <1>1, <1>2, <1>3, <1>4, <1>5, <1>10, TagsAssumption DEF IsPart

\* x is s and goes on with t.
Longer(x, s, t) == x = s \o t

\* If no tag is begun in s, it does not matter in a longer text whether the search goes
\* on where it has ended or at the tail that is kept.
LEMMA TailIsEnough ==
    ASSUME NEW s \in Seq(Characters), NEW t \in Seq(Characters), NEW x, Longer(x, s, t),
           NEW from \in 1 .. Len(s) + 1, MayBegin(s, from), IsNext(0, s, OpenTag, from)
    PROVE  \E i : IsNext(i, x, OpenTag, from) /\ IsNext(i, x, OpenTag, Left(s, from))
<1>1. x \in Seq(Characters) /\ Len(s) \in Nat /\ from \in Nat /\ from >= 1
  BY ConcatProperties, LenProperties DEF Longer
<1>2. PICK n \in Nat : n = Len(OpenTag) /\ n > 0
  BY Tags
<1>10. PICK left : left = Left(s, from)
  OBVIOUS
<1>3. left \in Nat /\ left = IF 1 >= Len(s) - n + 1 THEN 1 ELSE Len(s) - n + 1
  <2>4. Len(s) - Len(OpenTag) + 1 \in Int
    BY <1>1, Tags
  <2>5. PICK m : m = Len(s) - Len(OpenTag) + 1
    OBVIOUS
  <2>1. m \in Int /\ m = Len(s) - Len(OpenTag) + 1
    BY <2>4, <2>5
  <2>2. Left(s, from) = Max({1, m})
    BY <2>1 DEF Left, IsNext
  <2>3. Left(s, from) = IF 1 >= m THEN 1 ELSE m
    BY <2>1, <2>2, OfTwo
  <2>6. m = Len(s) - n + 1
    BY <1>2, <2>1
  <2>7. left = IF 1 >= m THEN 1 ELSE m
    BY <1>10, <2>3
  <2>8. left \in Nat
    BY <2>1, <2>7
  <2> QED
    BY <2>6, <2>7, <2>8
<1>4. \A j \in Nat : j >= from => ~At(s, OpenTag, j)
  BY <1>1, Tags, NextFacts
<1>5. ASSUME NEW j \in Nat, At(x, OpenTag, j), j >= from PROVE j >= left
  <2>1. ~(j + Len(OpenTag) - 1 <= Len(s))
    BY <1>4, <1>5, Tags, AtInLonger DEF Longer
  <2> QED
    BY <1>1, <1>2, <1>3, <1>5, <2>1
<1>6. ASSUME NEW j \in Nat, At(x, OpenTag, j), j >= left, j < from PROVE FALSE
  <2>1. from # 1
    BY <1>3, <1>6
  <2>2. PICK c : c = from - Len(CloseTag)
    OBVIOUS
  <2>3. At(s, CloseTag, c)
    BY <2>1, <2>2 DEF MayBegin
  <2>4. At(x, CloseTag, c) /\ c \in Nat
    <3>1. At(x, CloseTag, c)
      BY <2>3, Tags, AtInLonger DEF Longer
    <3>2. c \in Nat
      BY <1>1, <2>3, Tags DEF At
    <3> QED
      BY <3>1, <3>2
  <2>5. IsBehind(from, c)
    BY <1>1, <2>2, Tags DEF IsBehind
  <2>6. j + Len(OpenTag) >= from
    BY <1>1, <1>2, <1>3, <1>6
  <2> QED
    BY <1>1, <1>6, <2>4, <2>5, <2>6, NoOpenTagAcross
<1>7. \A j \in Nat : At(x, OpenTag, j) => (j >= from <=> j >= left)
  BY <1>1, <1>3, <1>5, <1>6
<1>8. left >= 1
  BY <1>1, <1>3
<1>9. IndexOf(x, OpenTag, from) = IndexOf(x, OpenTag, left)
  BY <1>1, <1>3, <1>7, <1>8, Tags, SameFirst, SMTT(30)
<1> QED
  BY <1>9, <1>10 DEF IsNext

LEMMA SameNext ==
    ASSUME NEW s \in Seq(Characters), NEW t \in Seq(Characters), NEW x, Longer(x, s, t),
           NEW tag \in Seq(Characters), Len(tag) > 0,
           NEW from \in Nat, from >= 1, NEW i, IsNext(i, s, tag, from), i # 0
    PROVE  IsNext(i, x, tag, from)
BY FirstInLonger DEF IsNext, Longer

LEMMA ConcatTwice ==
    \A S : \A p, q, r \in Seq(S) : (p \o q) \o r = p \o (q \o r)
BY ConcatAssociative

LEMMA FeaturesTwice ==
    ASSUME NEW p \in Seq(Seq(Characters)), NEW q \in Seq(Seq(Characters)),
           NEW r \in Seq(Seq(Characters))
    PROVE  (p \o q) \o r = p \o (q \o r)
<1>1. PICK S : S = Seq(Characters)
  OBVIOUS
<1>2. p \in Seq(S) /\ q \in Seq(S) /\ r \in Seq(S)
  BY <1>1
<1> QED
  BY <1>2, ConcatTwice

LEMMA ScannedType ==
    ASSUME NEW s \in Seq(Characters), NEW f, Scanned(f, s), NEW i \in 1 .. Len(s) + 1
    PROVE  f[i].features \in Seq(Seq(Characters)) /\ f[i].from \in Nat /\ f[i].from >= 1
<1>1. f[i] \in Results
  BY DEF Scanned
<1> QED
  BY <1>1 DEF Results

\* The search of the longer text from a place on finds what the search of s finds, and
\* what is found from where that leaves off.
GoesOn(f, g, s, from) ==
    /\ f[from].from \in 1 .. Len(s) + 1
    /\ g[from].features = f[from].features \o g[Left(s, f[from].from)].features

LEMMA StepGoesOn ==
    ASSUME NEW s \in Seq(Characters), NEW t \in Seq(Characters), NEW x, Longer(x, s, t),
           NEW f, Scanned(f, s), NEW g, Scanned(g, x),
           NEW from \in 1 .. Len(s) + 1, MayBegin(s, from),
           \A j \in from + 1 .. Len(s) + 1 : MayBegin(s, j) => GoesOn(f, g, s, j)
    PROVE  GoesOn(f, g, s, from)
<1>1. /\ x \in Seq(Characters) /\ Len(s) \in Nat /\ Len(x) \in Nat /\ Len(x) >= Len(s)
      /\ from \in Nat /\ from >= 1 /\ from \in 1 .. Len(x) + 1
  <2>1. x \in Seq(Characters) /\ Len(x) = Len(s) + Len(t)
    BY ConcatProperties DEF Longer
  <2>2. Len(s) \in Nat /\ Len(t) \in Nat
    BY LenProperties
  <2> QED
    BY <2>1, <2>2
<1>2. PICK start : IsNext(start, s, OpenTag, from)
  BY DEF IsNext
<1>3. g[from].features \in Seq(Seq(Characters))
  BY <1>1, ScannedType
<1>4. CASE start = 0
  <2>1. f[from].features = <<>> /\ f[from].from = from
    BY <1>2, <1>4, NothingBegun
  <2>2. PICK i : IsNext(i, x, OpenTag, from) /\ IsNext(i, x, OpenTag, Left(s, from))
    BY <1>2, <1>4, TailIsEnough
  <2>3. Left(s, from) \in 1 .. Len(x) + 1
    <3>1. Left(s, from) \in 1 .. Len(s) + 1
      BY LeftIsInText
    <3> QED
      BY <1>1, <3>1
  <2>4. g[from].features = g[Left(s, from)].features
    BY <1>1, <2>2, <2>3, SameStart
  <2>5. g[from].features = <<>> \o g[from].features
    BY <1>3, ConcatEmptySeq
  <2> QED
    BY <2>1, <2>4, <2>5 DEF GoesOn
<1>5. CASE start # 0
  <2>1. start \in Nat /\ start >= from /\ start >= 1 /\ At(s, OpenTag, start)
    <3>1. start \in Nat /\ start >= from /\ At(s, OpenTag, start)
      BY <1>1, <1>2, <1>5, Tags, NextFacts
    <3> QED
      BY <1>1, <3>1
  <2>2. IsNext(start, x, OpenTag, from)
    BY <1>1, <1>2, <1>5, Tags, SameNext
  <2>3. PICK end : IsNext(end, s, CloseTag, start)
    BY DEF IsNext
  <2>4. CASE end = 0
    <3>1. f[from].features = <<>> /\ f[from].from = start
      BY <1>2, <1>5, <2>3, <2>4, NothingEnded
    <3>2. start \in 1 .. Len(s) + 1 /\ start \in 1 .. Len(x) + 1
      BY <1>1, <2>1, Tags DEF At
    <3>3. IsNext(start, s, OpenTag, start)
      <4>1. \A j \in start .. start - 1 : ~At(s, OpenTag, j)
        BY <2>1
      <4> QED
        BY <2>1, <4>1, Tags, FirstIsIndexOf DEF IsNext
    <3>4. Left(s, start) = start
      BY <1>5, <3>3 DEF Left, IsNext
    <3>5. IsNext(start, x, OpenTag, start)
      BY <1>5, <2>1, <3>3, Tags, SameNext
    <3>6. g[from].features = g[start].features
      BY <1>1, <2>2, <3>2, <3>5, SameStart
    <3>7. g[from].features = <<>> \o g[from].features
      BY <1>3, ConcatEmptySeq
    <3> QED
      BY <3>1, <3>2, <3>4, <3>6, <3>7 DEF GoesOn
  <2>5. CASE end # 0
    <3>1. PICK next : IsBehind(next, end)
      BY DEF IsBehind
    <3>2. /\ next \in from + 1 .. Len(s) + 1 /\ end \in Nat
          /\ end >= start /\ At(s, CloseTag, end)
          /\ f[from].features = Found(s, start, end, f[next].features)
          /\ f[from].from = f[next].from
      BY <1>2, <1>5, <2>3, <2>5, <3>1, OneFound
    <3>3. IsNext(end, x, CloseTag, start)
      BY <2>1, <2>3, <2>5, Tags, SameNext
    <3>4. g[from].features = Found(x, start, end, g[next].features)
      BY <1>1, <1>5, <2>2, <2>5, <3>1, <3>3, OneFound
    <3>5. MayBegin(s, next)
      <4>1. next - Len(CloseTag) = end
        BY <3>1, <3>2, Tags DEF IsBehind
      <4> QED
        BY <3>2, <4>1 DEF MayBegin
    <3>6. GoesOn(f, g, s, next)
      BY <3>2, <3>5
    <3>7. PICK left : left = Left(s, f[next].from)
      OBVIOUS
    <3>8. /\ f[next].from \in 1 .. Len(s) + 1
          /\ g[next].features = f[next].features \o g[left].features
      BY <3>6, <3>7 DEF GoesOn
    <3>9. next \in 1 .. Len(s) + 1 /\ left \in 1 .. Len(x) + 1
      <4>1. left \in 1 .. Len(s) + 1
        BY <3>7, <3>8, LeftIsInText
      <4> QED
        BY <1>1, <3>2, <4>1
    <3>10. PICK one : one = SubSeq(s, start, end - 1)
      OBVIOUS
    <3>11. one = SubSeq(x, start, end - 1) /\ one \in Seq(Characters)
      <4>1. start \in Int /\ end - 1 \in Int /\ end - 1 <= Len(s) /\ start >= 1
        BY <1>1, <2>1, <3>2, Tags DEF At
      <4>2. SubSeq(s \o t, start, end - 1) = SubSeq(s, start, end - 1)
        BY <4>1, SubSeqInLonger
      <4>3. SubSeq(s, start, end - 1) \in Seq(Characters)
        BY <4>1, PartOfText
      <4> QED
        BY <3>10, <4>2, <4>3 DEF Longer
    <3>12. PICK p \in Seq(Seq(Characters)) : p = <<one>>
      <4>1. <<one>> \in Seq(Seq(Characters))
        BY <3>11
      <4> QED
        BY <4>1
    <3>13. PICK q \in Seq(Seq(Characters)) : q = f[next].features
      BY <3>9, ScannedType
    <3>14. PICK r \in Seq(Seq(Characters)) : r = g[left].features
      BY <1>1, <3>9, ScannedType
    <3>15. f[from].features = p \o q /\ g[from].features = p \o (q \o r)
      BY <3>2, <3>4, <3>8, <3>10, <3>11, <3>12, <3>13, <3>14 DEF Found
    <3>16. (p \o q) \o r = p \o (q \o r)
      BY FeaturesTwice
    <3> QED
      BY <3>2, <3>7, <3>8, <3>14, <3>15, <3>16 DEF GoesOn
  <2> QED
    BY <2>4, <2>5
<1> QED
  BY <1>4, <1>5

LEMMA AlwaysGoesOn ==
    ASSUME NEW s \in Seq(Characters), NEW t \in Seq(Characters), NEW x, Longer(x, s, t),
           NEW f, Scanned(f, s), NEW g, Scanned(g, x)
    PROVE  GoesOn(f, g, s, 1)
<1>1. PICK n : n = Len(s) + 1
  OBVIOUS
<1>2. n \in Nat /\ n >= 1
  BY <1>1, LenProperties
<1> DEFINE Wrong == {m \in Nat : m < n /\ MayBegin(s, n - m) /\ ~GoesOn(f, g, s, n - m)}
<1> SUFFICES ASSUME Wrong # {} PROVE FALSE
  <2>1. n - 1 \in Nat /\ n - 1 < n /\ n - (n - 1) = 1 /\ MayBegin(s, 1)
    BY <1>2 DEF MayBegin
  <2> QED
    BY <2>1
<1>3. PICK m \in Wrong : \A k \in Wrong : m <= k
  <2>1. Wrong \in SUBSET Nat
    OBVIOUS
  <2> HIDE DEF Wrong
  <2> QED
    BY <2>1, Least
<1>4. PICK from : from = n - m
  OBVIOUS
<1>5. from \in 1 .. Len(s) + 1 /\ MayBegin(s, from) /\ ~GoesOn(f, g, s, from)
  BY <1>1, <1>2, <1>3, <1>4
<1>6. ASSUME NEW j \in from + 1 .. Len(s) + 1, MayBegin(s, j) PROVE GoesOn(f, g, s, j)
  <2>1. n - j \in Nat /\ n - j < n /\ n - (n - j) = j /\ ~(m <= n - j)
    BY <1>1, <1>2, <1>3, <1>4, <1>5
  <2>2. n - j \notin Wrong
    BY <1>3, <2>1
  <2> QED
    BY <1>6, <2>1, <2>2
<1> HIDE DEF Wrong
<1>7. GoesOn(f, g, s, from)
  BY <1>5, <1>6, StepGoesOn
<1> QED
  BY <1>5, <1>7

\* What is left of a text finds, with what follows, just what was not found yet.
LEMMA Resumes ==
    ASSUME NEW s \in Seq(Characters), NEW t \in Seq(Characters)
    PROVE  Scan(s \o t).features = Scan(s).features \o Scan(Unfinished(s) \o t).features
<1>1. PICK x \in Seq(Characters) : Longer(x, s, t)
  BY ConcatProperties DEF Longer
<1>2. /\ Len(x) = Len(s) + Len(t) /\ Len(s) \in Nat /\ Len(t) \in Nat
  BY <1>1, ConcatProperties, LenProperties DEF Longer
<1>3. PICK f : Scanned(f, s) /\ Scan(s) = f[1]
  BY ScanIsFirst
<1>4. PICK g : Scanned(g, x) /\ Scan(x) = g[1]
  BY ScanIsFirst
<1>5. GoesOn(f, g, s, 1)
  BY <1>1, <1>3, <1>4, AlwaysGoesOn
<1>6. PICK left : left = Left(s, f[1].from)
  OBVIOUS
<1>7. left \in 1 .. Len(s) + 1
  BY <1>5, <1>6, LeftIsInText DEF GoesOn
<1>8. PICK d \in Nat : d = left - 1
  BY <1>2, <1>7
<1>9. Unfinished(s) = SubSeq(s, d + 1, Len(s))
  <2>1. Unfinished(s) = SubSeq(s, left, Len(s))
    BY <1>3, <1>6 DEF Unfinished, Left
  <2>2. left = d + 1
    BY <1>2, <1>7, <1>8
  <2> QED
    BY <2>1, <2>2
<1>10. PICK y \in Seq(Characters) : y = Unfinished(s) \o t
  BY UnfinishedIsText, ConcatProperties
<1>11. IsRest(y, x, d)
  <2>1. d <= Len(s) /\ d \in 0 .. Len(x)
    BY <1>2, <1>7, <1>8
  <2>2. SubSeq(x, d + 1, Len(x)) = SubSeq(x, d + 1, Len(s)) \o SubSeq(x, Len(s) + 1, Len(x))
    <3>1. d \in Nat /\ Len(s) \in Nat /\ d <= Len(s) /\ Len(s) <= Len(x)
      BY <1>2, <2>1
    <3> QED
      BY <3>1, SubSeqSplits
  <2>3. SubSeq(s \o t, d + 1, Len(s)) = SubSeq(s, d + 1, Len(s))
    <3>1. d + 1 \in Int /\ Len(s) \in Int /\ d + 1 >= 1 /\ Len(s) <= Len(s)
      BY <1>2
    <3> QED
      BY <3>1, SubSeqInLonger
  <2>4. SubSeq(x, Len(s) + 1, Len(x)) = t
    <3>1. PICK v : IsPart(v, x, Len(s) + 1, Len(x))
      BY DEF IsPart
    <3>2. Len(s) + 1 \in Int /\ Len(x) \in Int /\ Len(s) + 1 >= 1 /\ Len(x) <= Len(x)
      BY <1>2
    <3>3. /\ v \in Seq(Characters)
          /\ Len(v) = IF Len(s) + 1 <= Len(x) THEN Len(x) - (Len(s) + 1) + 1 ELSE 0
          /\ \A k \in 1 .. Len(v) : v[k] = x[(Len(s) + 1) + k - 1]
      BY <3>1, <3>2, SubSeqFacts
    <3>4. Len(v) = Len(t)
      BY <1>2, <3>3
    <3>5. \A k \in 1 .. Len(s) + Len(t) : x[k] = IF k <= Len(s) THEN s[k] ELSE t[k - Len(s)]
      BY <1>1, ConcatProperties DEF Longer
    <3>6. ASSUME NEW k \in 1 .. Len(v) PROVE v[k] = t[k]
      <4>1. /\ Len(s) + k \in 1 .. Len(s) + Len(t) /\ ~(Len(s) + k <= Len(s))
            /\ (Len(s) + k) - Len(s) = k /\ (Len(s) + 1) + k - 1 = Len(s) + k
        BY <1>2, <3>4
      <4>2. x[Len(s) + k] = t[k]
        BY <3>5, <4>1
      <4> QED
        BY <3>3, <4>1, <4>2
    <3>7. v = t
      BY <3>3, <3>4, <3>6, SeqEqual
    <3> QED
      BY <3>1, <3>7 DEF IsPart
  <2> QED
    BY <1>1, <1>9, <1>10, <2>1, <2>2, <2>3, <2>4 DEF IsRest, Longer
<1>12. PICK h : Scanned(h, y) /\ Scan(y) = h[1]
  BY ScanIsFirst
<1>13. h[1].features = g[left].features
  <2>1. 1 \in 1 .. Len(y) + 1
    BY LenProperties
  <2>2. \A i \in 1 .. Len(y) + 1 : h[i].features = g[i + d].features
    BY <1>4, <1>11, <1>12, FoundInRest
  <2>3. h[1].features = g[1 + d].features
    BY <2>1, <2>2
  <2>4. 1 + d = left
    BY <1>2, <1>7, <1>8
  <2> QED
    BY <2>3, <2>4
<1>14. g[1].features = f[1].features \o g[left].features
  BY <1>5, <1>6 DEF GoesOn
<1> QED
  BY <1>1, <1>3, <1>4, <1>10, <1>12, <1>13, <1>14 DEF Longer

\* Nothing is left to be found in what is left.
LEMMA UnfinishedHasNone ==
    ASSUME NEW s \in Seq(Characters)
    PROVE  Scan(Unfinished(s)).features = <<>>
<1>1. PICK u \in Seq(Characters) : u = Unfinished(s)
  BY UnfinishedIsText
<1>2. <<>> \in Seq(Characters) /\ s \o <<>> = s /\ u \o <<>> = u
  BY EmptySeq, ConcatEmptySeq
<1>3. Scan(s \o <<>>).features = Scan(s).features \o Scan(Unfinished(s) \o <<>>).features
  BY <1>2, Resumes
<1>4. PICK p \in Seq(Seq(Characters)) : p = Scan(s).features
  BY ScanIsText DEF Results
<1>5. PICK q \in Seq(Seq(Characters)) : q = Scan(u).features
  BY ScanIsText DEF Results
<1>6. p \o q = p
  BY <1>1, <1>2, <1>3, <1>4, <1>5
<1>7. q = <<>>
  <2>1. Len(p \o q) = Len(p) + Len(q)
    BY ConcatProperties
  <2>2. Len(p) \in Nat /\ Len(q) \in Nat
    BY LenProperties
  <2>3. Len(q) = 0
    BY <1>6, <2>1, <2>2
  <2> QED
    BY <2>3, EmptySeq
<1> QED
  BY <1>1, <1>5, <1>7

LEMMA NothingInNothing == Scan(<<>>).features = <<>>
<1>1. PICK none \in Seq(Characters) : none = <<>> /\ Len(none) = 0
  BY EmptySeq
<1>2. PICK f : Scanned(f, none) /\ Scan(none) = f[1]
  BY ScanIsFirst
<1>3. \A j \in Nat : j >= 1 => ~At(none, OpenTag, j)
  BY <1>1, Tags DEF At
<1>4. IndexOf(none, OpenTag, 1) = 0
  BY <1>3, Tags, NoneIsZero
<1>5. 1 \in 1 .. Len(none) + 1 /\ IsNext(0, none, OpenTag, 1)
  BY <1>1, <1>4 DEF IsNext
<1>6. f[1].features = <<>>
  BY <1>2, <1>5, NothingBegun
<1> QED
  BY <1>1, <1>2, <1>6

------------------------------------------------------------------------------
(* What has been found, and what will be.                                   *)

\* What is still to be read of the text.
Unread == SubSeq(source.text, read + 1, Len(source.text))

\* What has been found and what will be is what there is in the text.
FoundSoFar ==
    /\ built # "failed" =>
           /\ Scan(source.text).features = found \o Scan(pending \o Unread).features
           /\ Scan(pending).features = <<>>
    /\ built = "yes" => read = Len(source.text)

LEMMA FindingBegins == BuildInit => FoundSoFar
<1> SUFFICES ASSUME BuildInit PROVE FoundSoFar
  OBVIOUS
<1>1. PICK text \in Seq(Characters) : text = source.text
  BY BuildAssumption DEF BuildInit
<1>2. found = <<>> /\ pending = <<>> /\ read = 0 /\ built = "no"
  BY DEF BuildInit
<1>3. SubSeq(text, 1, Len(text)) = text
  BY SubSeqFull
<1>4. <<>> \o text = text
  BY ConcatEmptySeq
<1>5. PICK all \in Seq(Seq(Characters)) : all = Scan(text).features
  BY ScanIsText DEF Results
<1>6. <<>> \o all = all
  BY ConcatEmptySeq
<1>7. Unread = text
  BY <1>1, <1>2, <1>3 DEF Unread
<1>8. Scan(pending \o Unread).features = all
  BY <1>2, <1>4, <1>5, <1>7
<1>9. Scan(pending).features = <<>>
  BY <1>2, NothingInNothing
<1>10. Scan(source.text).features = found \o Scan(pending \o Unread).features
  BY <1>1, <1>2, <1>5, <1>6, <1>8
<1> QED
  BY <1>2, <1>9, <1>10 DEF FoundSoFar

LEMMA FindingGoesOn == BuildInv /\ FoundSoFar /\ ReadChunk => FoundSoFar'
<1> SUFFICES ASSUME BuildInv, FoundSoFar, ReadChunk PROVE FoundSoFar'
  OBVIOUS
<1>1. source' = source /\ read' \in read + 1 .. Len(source.text) /\ built = "no"
  BY DEF ReadChunk
<1>2. PICK text \in Seq(Characters) : text = source.text
  BY BuildAssumption DEF BuildInv, TextTypeOK
<1>3. Len(text) \in Nat /\ read \in Nat
  BY <1>2, LenProperties DEF BuildInv, TextTypeOK
<1>4. PICK b \in Nat : b = read' /\ read <= b /\ b <= Len(text)
  BY <1>1, <1>2, <1>3
<1>11. /\ read + 1 \in Int /\ b \in Int /\ b + 1 \in Int /\ Len(text) \in Int
       /\ read + 1 >= 1 /\ b + 1 >= 1 /\ Len(text) <= Len(text)
  <2>1. \A n \in Nat : n + 1 \in Int /\ n + 1 >= 1 /\ n \in Int /\ n <= n
    OBVIOUS
  <2> QED
    BY <1>3, <1>4, <2>1
<1>5. PICK chunk \in Seq(Characters) : chunk = SubSeq(text, read + 1, b)
  BY <1>4, <1>11, PartOfText
<1>6. PICK t \in Seq(Characters) : t = SubSeq(text, b + 1, Len(text))
  BY <1>4, <1>11, PartOfText
<1>7. Unread = chunk \o t /\ Unread' = t
  <2>1. SubSeq(text, read + 1, Len(text)) = chunk \o t
    BY <1>3, <1>4, <1>5, <1>6, SubSeqSplits
  <2> QED
    BY <1>1, <1>2, <1>4, <1>6, <2>1 DEF Unread
<1>8. PICK s \in Seq(Characters) : s = pending \o chunk
  BY ConcatProperties DEF BuildInv, TextTypeOK
<1>9. CASE built' # "no"
  <2>1. built' = "failed"
    BY <1>1, <1>9 DEF ReadChunk
  <2> QED
    BY <2>1 DEF FoundSoFar
<1>10. CASE built' = "no"
  <2>1. pending' = Unfinished(s) /\ found' = found \o Scan(s).features
    BY <1>1, <1>2, <1>4, <1>5, <1>8, <1>10 DEF ReadChunk
  <2>2. pending \o Unread = s \o t
    <3>1. pending \in Seq(Characters)
      BY DEF BuildInv, TextTypeOK
    <3>2. (pending \o chunk) \o t = pending \o (chunk \o t)
      BY <3>1, ConcatTwice
    <3> QED
      BY <1>7, <1>8, <3>2
  <2>3. Scan(s \o t).features = Scan(s).features \o Scan(Unfinished(s) \o t).features
    BY Resumes
  <2>4. PICK p \in Seq(Seq(Characters)) : p = found
    BY DEF BuildInv, TextTypeOK
  <2>5. PICK q \in Seq(Seq(Characters)) : q = Scan(s).features
    BY ScanIsText DEF Results
  <2>6. PICK u \in Seq(Characters) : u = Unfinished(s) \o t
    BY UnfinishedIsText, ConcatProperties
  <2>7. PICK r \in Seq(Seq(Characters)) : r = Scan(u).features
    BY ScanIsText DEF Results
  <2>8. (p \o q) \o r = p \o (q \o r)
    BY FeaturesTwice
  <2>9. Scan(text).features = p \o (q \o r)
    <3>1. Scan(text).features = found \o Scan(pending \o Unread).features
      BY <1>1, <1>2 DEF FoundSoFar
    <3> QED
      BY <2>2, <2>3, <2>4, <2>5, <2>6, <2>7, <3>1
  <2>10. Scan(text).features = found' \o Scan(pending' \o t).features
    BY <2>1, <2>4, <2>5, <2>6, <2>7, <2>8, <2>9
  <2>11. Scan(pending').features = <<>>
    BY <2>1, UnfinishedHasNone
  <2>12. /\ Scan(source'.text).features = found' \o Scan(pending' \o Unread').features
         /\ Scan(pending').features = <<>>
         /\ built' = "no"
    BY <1>1, <1>2, <1>7, <1>10, <2>10, <2>11
  <2> QED
    BY <2>12 DEF FoundSoFar
<1> QED
  BY <1>9, <1>10

LEMMA FindingStays ==
    ASSUME FoundSoFar, UNCHANGED <<source, read, pending, found, built>>
    PROVE  FoundSoFar'
BY DEF FoundSoFar, Unread

\* build-coastline.mjs:45-78.  Wherever the chunks end, whatever the text and the tags,
\* the features found are those of the text read as a whole.
THEOREM EveryFeatureIsFound == Spec => []FindsEveryFeature
<1>1. Init => FoundSoFar
  BY FindingBegins DEF Init
<1>2. BuildInv /\ FoundSoFar /\ [Next]_vars => FoundSoFar'
  <2> SUFFICES ASSUME BuildInv, FoundSoFar, [Next]_vars PROVE FoundSoFar'
    OBVIOUS
  <2>1. CASE ReadChunk
    BY <2>1, FindingGoesOn
  <2>2. CASE WriteTiles
    BY <2>2 DEF WriteTiles, FoundSoFar, Unread
  <2>3. CASE UNCHANGED vars
    BY <2>3, FindingStays DEF vars
  <2>4. ChangeView \/ RunEffect \/ IndexLoaded \/ IndexFails \/ Show \/ SwitchServer
           => UNCHANGED buildVars
    BY DEF ChangeView, RunEffect, IndexLoaded, IndexFails, Show, SwitchServer
  <2>5. ASSUME NEW id \in DOMAIN promises, TileLoaded(id) \/ TileFails(id)
        PROVE  UNCHANGED buildVars
    BY <2>5 DEF TileLoaded, TileFails
  <2>6. CASE UNCHANGED buildVars
    BY <2>6, FindingStays DEF buildVars
  <2> QED
    BY <2>1, <2>2, <2>3, <2>4, <2>5, <2>6 DEF Next, Build
<1>3. BuildInv /\ FoundSoFar => FindsEveryFeature
  <2> SUFFICES ASSUME BuildInv, FoundSoFar, built = "yes"
               PROVE  found = Scan(source.text).features
    BY DEF FindsEveryFeature
  <2>1. read = Len(source.text) /\ Scan(pending).features = <<>>
        /\ Scan(source.text).features = found \o Scan(pending \o Unread).features
    BY DEF FoundSoFar
  <2>2. Unread = <<>>
    <3>1. source.text \in Seq(Characters)
      BY BuildAssumption DEF BuildInv, TextTypeOK
    <3>2. Len(source.text) \in Nat /\ read \in Nat
      BY <3>1, LenProperties DEF BuildInv, TextTypeOK
    <3> QED
      BY <2>1, <3>1, <3>2, SubSeqEmpty DEF Unread
  <2>3. pending \o <<>> = pending /\ found \o <<>> = found
    BY ConcatEmptySeq DEF BuildInv, TextTypeOK
  <2> QED
    BY <2>1, <2>2, <2>3
<1> QED
  BY <1>1, <1>2, <1>3, BuildInvariant, PTL DEF Spec
=============================================================================
