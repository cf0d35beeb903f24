------------------------------ MODULE RadarMap ------------------------------
(***************************************************************************)
(* The view of the map (web/src/components/RadarMap.tsx): LockedView holds *)
(* it on the centre, at the zoom where the range fills the container, and  *)
(* ViewBoxReporter tells the coastline what is visible.                    *)
(*                                                                         *)
(* Leaflet is external.  What is modelled of it is what its version 1.9    *)
(* does for the calls made here: an animated zoom starts in the next       *)
(* animation frame, has the new zoom at once and fires zoomend when it     *)
(* ends; while it runs, a setView to another zoom is dropped; the size is  *)
(* read again only when it is invalidated.  Pans take no time.             *)
(***************************************************************************)
EXTENDS Integers, Sequences

CONSTANTS
    Centres,        \* positions
    Ranges,         \* RADAR_RANGES_NM, in order
    Latitude,       \* the latitude of each centre
    Sizes,          \* sizes the container can have
    ShortSide,      \* the shorter side of each
    None,           \* no animation; not reported; nowhere in particular
    MaxFrames,      \* bound: animations waiting for a frame
    ResizesInTime   \* bound: the size has been reported before an effect runs again

\* What a render can ask for, and where an animation can lead to.
Wants == [centre : Centres, range : 1 .. Len(Ranges)]
Zooms == (1 .. Len(Ranges)) \X {ShortSide[s] : s \in Sizes} \X {Latitude[c] : c \in Centres}
Targets == [at : Centres, zoom : Zooms]

ASSUME MapAssumption ==
    /\ Latitude \in [Centres -> Int]
    /\ ShortSide \in [Sizes -> Int]
    /\ Len(Ranges) \in Nat \ {0}
    /\ None \notin Centres \cup Sizes \cup Wants \cup Targets
    /\ MaxFrames \in Nat
    /\ ResizesInTime \in BOOLEAN

VARIABLES
    want,           \* the centre and the range (an index) of the last render
    held,           \* those of the effect of LockedView, None before it has run
    size,           \* of the container
    lastSize,       \* lastWidth and lastHeight of the observer
    reported,       \* the size the observer has reported
    map             \* Leaflet: where it is, at what zoom, what size it thinks it has,
                    \* the running animation's target, the animations that wait for a
                    \* frame; and the view the coastline has been told of

mapVars == <<want, held, size, lastSize, reported, map>>

\* zoomForRange: the zoom depends on the range, the available radius and the latitude.
ZoomForRange(range, s, c) == <<range, ShortSide[s], Latitude[c]>>

WantedZoom(m, w) == ZoomForRange(w.range, m.size, w.centre)

StepRange(range, direction) ==
    IF direction = "in" THEN IF range > 1 THEN range - 1 ELSE 1
    ELSE IF range < Len(Ranges) THEN range + 1 ELSE Len(Ranges)

\* ViewBoxReporter, on moveend and resize.
Report(m) == [m EXCEPT !.box = [at |-> m.at, zoom |-> m.zoom, size |-> m.size]]

Move(m, c, z) == Report([m EXCEPT !.at = c, !.zoom = z])

\* Leaflet's setView, up to its events.  An animation is only tried if asked for, and
\* not between zooms too far apart.
Set(m, c, z, animate) ==
    IF z = m.zoom THEN {Move(m, c, z)}
    ELSE IF m.target # None THEN {m}
    ELSE {Move(m, c, z)} \cup
         IF animate /\ Len(m.frames) < MaxFrames
           THEN {[m EXCEPT !.frames = Append(@, [at |-> c, zoom |-> z])]} ELSE {}

\* On zoomend: carry on to wherever the last render says the view should be.
CatchUp(m, w) ==
    IF m.zoom = WantedZoom(m, w) /\ m.at = w.centre THEN {m}
    ELSE Set(m, w.centre, WantedZoom(m, w), TRUE)

\* A setView that changes the zoom without an animation fires zoomend at once.
SetView(m, c, z, animate) ==
    UNION {IF n.zoom # m.zoom THEN CatchUp(n, want) ELSE {n} : n \in Set(m, c, z, animate)}

MapInit ==
    /\ want \in Wants
    /\ held = None
    /\ size \in Sizes /\ lastSize = None /\ reported = None
    /\ map = [at |-> want.centre, zoom |-> None, size |-> size, target |-> None,
              frames |-> <<>>, box |-> None]

\* The effects of a render run before the next one.
EffectPending == held # want

\* The wheel, a pinch, a double click, the keys or the buttons turn the range knob.
TurnKnob ==
    /\ ~EffectPending
    /\ \E direction \in {"in", "out"} :
        want' = [want EXCEPT !.range = StepRange(@, direction)]
    /\ UNCHANGED <<held, size, lastSize, reported, map>>

MoveTo ==
    /\ ~EffectPending
    /\ \E c \in Centres \ {want.centre} : want' = [want EXCEPT !.centre = c]
    /\ UNCHANGED <<held, size, lastSize, reported, map>>

\* The effect of LockedView: the view is set, and a new observer takes over.
Effect ==
    /\ EffectPending
    /\ ResizesInTime => held = None \/ reported = size
    /\ LET animate == held # None /\ held.centre = want.centre
       IN  map' \in SetView(map, want.centre, WantedZoom(map, want), animate)
    /\ held' = want
    /\ lastSize' = size
    /\ reported' = None
    /\ UNCHANGED <<want, size>>

\* Leaflet has noticed a size in a frame whose observers have yet to run.
InFrame == map.size = size /\ lastSize # size

Resize ==
    /\ held # None /\ ~InFrame
    /\ size' \in Sizes \ {size}
    /\ UNCHANGED <<want, held, lastSize, reported, map>>

\* invalidateSize without panning leaves the map off the centre.
Invalidated(m) ==
    IF m.size = size THEN m ELSE Report([m EXCEPT !.size = size, !.at = None])

\* The observer reports, for the first time too, and only acts on another size.
Observe ==
    /\ held # None /\ reported # size
    /\ reported' = size
    /\ lastSize' = size
    /\ IF size = lastSize THEN UNCHANGED map
       ELSE LET m == Invalidated(map)
            IN  map' \in SetView(m, held.centre, WantedZoom(m, held), FALSE)
    /\ UNCHANGED <<want, held, size>>

\* Leaflet itself notices that the window has changed size, and keeps the centre.
WindowResized ==
    /\ map.size # size
    /\ map' = Report([map EXCEPT !.size = size])
    /\ UNCHANGED <<want, held, size, lastSize, reported>>

\* An animation starts in its frame, whatever has happened since.
Frame ==
    /\ map.frames # <<>>
    /\ map' = [map EXCEPT !.target = Head(map.frames), !.frames = Tail(@),
                          !.at = Head(map.frames).at, !.zoom = Head(map.frames).zoom]
    /\ UNCHANGED <<want, held, size, lastSize, reported>>

\* Mutant: nothing listens to zoomend.
ZoomEndsUnheard ==
    /\ map.target # None
    /\ map' = Move([map EXCEPT !.target = None], map.target.at, map.target.zoom)
    /\ UNCHANGED <<want, held, size, lastSize, reported>>

ZoomEnds ==
    /\ map.target # None
    /\ map' \in CatchUp(Move([map EXCEPT !.target = None], map.target.at, map.target.zoom), want)
    /\ UNCHANGED <<want, held, size, lastSize, reported>>

MapNext ==
    \/ TurnKnob \/ MoveTo \/ Resize
    \/ Effect \/ Observe \/ WindowResized \/ Frame \/ ZoomEnds

MapSpec == MapInit /\ [][MapNext]_mapVars

----------------------------------------------------------------------------
\* Nothing is left to happen by itself.
Quiet ==
    /\ ~EffectPending
    /\ reported = size
    /\ map.target = None /\ map.frames = <<>>

\* RadarMap.tsx:52-58, 99-104 and 236.  When everything has come to rest the map shows
\* what has been asked for last: the centre, at the zoom where the range fills the
\* container as it is, whatever was stepped, moved or resized while it was moving; and
\* this is the view that the coastline is loaded for.
HoldsTheView ==
    Quiet => /\ map.at = want.centre
             /\ map.zoom = ZoomForRange(want.range, size, want.centre)
             /\ map.box = [at |-> map.at, zoom |-> map.zoom, size |-> size]
=============================================================================
