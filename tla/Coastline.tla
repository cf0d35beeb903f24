----------------------------- MODULE Coastline -----------------------------
(***************************************************************************)
(* The coastline on the radar (web/src/hooks/useCoastline.ts), drawn from  *)
(* the tiles that CoastlineBuild has made.  The promises of the index and  *)
(* of the tiles are kept for the life of the page and shared by all        *)
(* effects; one that fails is forgotten.  An effect that has been cleaned  *)
(* up goes on loading and touches nothing.                                 *)
(***************************************************************************)
EXTENDS CoastlineBuild

CONSTANTS
    Views,            \* view boxes: south, west, north, east
    Served,           \* names of the sources whose tiles a page is opened on
    Nothing,          \* no view yet
    MaxOrphans        \* bound: effects cleaned up and still loading

ASSUME CoastlineAssumption ==
    /\ MaxOrphans \in Nat
    /\ Nothing \notin Views
    /\ \A v \in Views :
          /\ v.south \in Int /\ v.north \in Int /\ v.south < v.north
          /\ v.west \in Int /\ v.east \in Int /\ v.west < v.east

VARIABLES
    view,             \* the view box, Nothing until it is known
    index,            \* indexPromise: "none", "pending" or "kept"
    promises,         \* the tiles whose promise is in tilePromises, "pending" or "kept"
    effect,           \* what the effect of the current key waits for: "idle", "effect",
                      \* "index" or "tiles"
    orphans,          \* what effects cleaned up wait for the index with
    shown,            \* the hook's state: the key, the tiles drawn, and whether it is an error
    online            \* the web server answers

pageVars == <<view, index, promises, effect, orphans, shown, online>>
vars == <<source, read, pending, found, tiles, built,
          view, index, promises, effect, orphans, shown, online>>

\* Mutant: the boxes of the view, not of the tiles it begins in.
TilesFrom(box) ==
    {id \in (box.south .. box.north) \X (box.west .. box.east) :
        /\ id[1] % TileDegrees = 0 /\ id[2] % TileDegrees = 0
        /\ id[1] < box.north /\ id[2] < box.east}

\* coastlineTilesIn.
TilesIn(box) ==
    {id \in Corners(box.south, box.north) \X Corners(box.west, box.east) :
        id[1] < box.north /\ id[2] < box.east}

Key(v) == IF v = Nothing THEN {} ELSE TilesIn(v)

Available(ids) == ids \cap DOMAIN tiles

Init ==
    /\ BuildInit
    /\ view = Nothing
    /\ index = "none" /\ promises = <<>>
    /\ effect = "idle" /\ orphans = {}
    /\ shown = [key |-> {}, tiles |-> {}, error |-> FALSE]
    /\ online = TRUE

Build ==
    /\ ReadChunk \/ WriteTiles
    /\ UNCHANGED pageVars

\* The map reports another view box.  The key changes with the tiles in it only.
\* What runs now is cleaned up, and another effect is to run.
ChangeView ==
    /\ built = "yes" /\ source.name \in Served
    /\ effect # "effect"
    /\ view' \in Views \ {view}
    /\ IF Key(view') = Key(view) THEN UNCHANGED <<effect, orphans>>
       ELSE /\ effect' = "effect"
            /\ orphans' = IF effect = "index" THEN orphans \cup {Key(view)} ELSE orphans
    /\ Cardinality(orphans') <= MaxOrphans
    /\ UNCHANGED <<buildVars, index, promises, shown, online>>

\* loadTile for each of ids that no promise is there for.
Promised(ids) ==
    [id \in DOMAIN promises \cup ids |-> IF id \in DOMAIN promises THEN promises[id] ELSE "pending"]

\* The effect starts: it waits for the index, or has it and asks for the tiles.
RunEffect ==
    /\ effect = "effect"
    /\ IF index = "kept"
         THEN /\ effect' = "tiles"
              /\ promises' = Promised(Available(Key(view)))
              /\ UNCHANGED index
         ELSE /\ effect' = "index"
              /\ index' = "pending"
              /\ UNCHANGED promises
    /\ UNCHANGED <<buildVars, view, orphans, shown, online>>

\* The index is there: everyone who waits for it asks for tiles, cleaned up or not.
IndexLoaded ==
    /\ index = "pending" /\ online
    /\ index' = "kept"
    /\ promises' = Promised(Available(UNION orphans \cup IF effect = "index" THEN Key(view) ELSE {}))
    /\ effect' = IF effect = "index" THEN "tiles" ELSE effect
    /\ orphans' = {}
    /\ UNCHANGED <<buildVars, view, shown, online>>

Fails == [key |-> Key(view), tiles |-> {}, error |-> TRUE]

IndexFails ==
    /\ index = "pending" /\ ~online
    /\ index' = "none"
    /\ IF effect = "index" THEN shown' = Fails /\ effect' = "idle"
       ELSE UNCHANGED <<shown, effect>>
    /\ orphans' = {}
    /\ UNCHANGED <<buildVars, view, promises, online>>

TileLoaded(id) ==
    /\ promises[id] = "pending" /\ online
    /\ promises' = [promises EXCEPT ![id] = "kept"]
    /\ UNCHANGED <<buildVars, view, index, effect, orphans, shown, online>>

\* Mutant: the promise that has failed is kept, for whoever wants the tile next.
TileFailsForGood(id) ==
    /\ promises[id] = "pending" /\ ~online
    /\ promises' = [promises EXCEPT ![id] = "failed"]
    /\ IF effect = "tiles" /\ id \in Available(Key(view))
         THEN shown' = Fails /\ effect' = "idle"
         ELSE UNCHANGED <<shown, effect>>
    /\ UNCHANGED <<buildVars, view, index, orphans, online>>

\* A tile that fails is forgotten, and fails the effect that waits for it.
TileFails(id) ==
    /\ promises[id] = "pending" /\ ~online
    /\ promises' = [i \in DOMAIN promises \ {id} |-> promises[i]]
    /\ IF effect = "tiles" /\ id \in Available(Key(view))
         THEN shown' = Fails /\ effect' = "idle"
         ELSE UNCHANGED <<shown, effect>>
    /\ UNCHANGED <<buildVars, view, index, orphans, online>>

\* All the tiles of the key are there.
Show ==
    /\ effect = "tiles"
    /\ \A id \in Available(Key(view)) : id \in DOMAIN promises /\ promises[id] = "kept"
    /\ shown' = [key |-> Key(view), tiles |-> Available(Key(view)), error |-> FALSE]
    /\ effect' = "idle"
    /\ UNCHANGED <<buildVars, view, index, promises, orphans, online>>

SwitchServer ==
    /\ built = "yes" /\ source.name \in Served
    /\ online' = ~online
    /\ UNCHANGED <<buildVars, view, index, promises, effect, orphans, shown>>

Next ==
    \/ Build
    \/ ChangeView \/ RunEffect \/ IndexLoaded \/ IndexFails \/ Show \/ SwitchServer
    \/ \E id \in DOMAIN promises : TileLoaded(id) \/ TileFails(id)

Spec == Init /\ [][Next]_vars

\* Effects run and requests are answered or fail.
FairSpec ==
    /\ Spec
    /\ WF_vars(RunEffect) /\ WF_vars(IndexLoaded) /\ WF_vars(IndexFails) /\ WF_vars(Show)
    /\ WF_vars(\E id \in DOMAIN promises : TileLoaded(id))
    /\ WF_vars(\E id \in DOMAIN promises : TileFails(id))
----------------------------------------------------------------------------
\* The northern and eastern edges belong to the tiles beyond.
InView(p, v) == v.south <= p[2] /\ p[2] < v.north /\ v.west <= p[1] /\ p[1] < v.east

\* useCoastline.ts:57-66.  When nothing is being loaded and nothing has failed, every
\* piece of the coast that has an end in the view is drawn.
CoastIsDrawn ==
    view # Nothing /\ effect = "idle" /\ ~shown.error =>
        \A line \in {Line(source.points[list]) : list \in PosListsOf(found)} :
            \A i \in 1 .. Len(line) - 1 :
                InView(line[i], view) \/ InView(line[i + 1], view) =>
                    Drawn(UNION {tiles[id] : id \in shown.tiles}, line[i], line[i + 1])

\* useCoastline.ts:23-42 and 48-51.  A failure is not remembered: once the server
\* answers, the tiles of a view whose effect has not failed yet are shown, whatever
\* has failed for other views or before, and however many effects share a promise.
LoadsOnceOnline ==
    \A v \in Views :
        ([]online /\ view = v /\ shown.key # Key(v)) ~>
            (view # v \/ (shown.key = Key(v) /\ ~shown.error))
=============================================================================
