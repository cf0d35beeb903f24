--------------------------- MODULE LocationPicker ---------------------------
(***************************************************************************)
(* The search box and the two buttons that move the radar                  *)
(* (web/src/components/LocationPicker.tsx), with the search it asks        *)
(* Kartverket for (web/src/api/placeSearch.ts) and the device's position.  *)
(*                                                                         *)
(* Key presses and clicks are rendered before anything else happens, and   *)
(* their effects run; what a timer, a request or the device sets is        *)
(* rendered a moment later, and until then the handlers see the search as  *)
(* it was rendered last; a choice is rendered at once.  What a move does   *)
(* outside of the picker is the App's (AppControls).                       *)
(***************************************************************************)
EXTENDS Naturals, Sequences

CONSTANTS
    Texts, Empty,   \* what the box can hold
    Trimmed,        \* each text without the space around it
    Active,         \* trimmed texts of MIN_QUERY_LENGTH or more
    Results,        \* the lists of places a search can find
    Failed,         \* the answer of a search without a result: a status, no connection, no JSON
    NoText          \* no text; nothing on its way

ASSUME PickerAssumption ==
    /\ Empty \in Texts /\ Trimmed \in [Texts -> Texts] /\ Trimmed[Empty] = Empty
    /\ Active \subseteq Texts \ {Empty}
    /\ NoText \notin Texts \cup Results /\ Failed \notin Results

Idle == [status |-> "idle"]
Searching(q) == [status |-> "searching", query |-> q]
Done(q, places) == [status |-> "done", query |-> q, places |-> places]
Broken(q) == [status |-> "failed", query |-> q]

VARIABLES
    query,          \* the text in the box
    search,         \* the SearchState
    rendered,       \* search as the handlers on the page know it
    enterPending,   \* the ref
    step,           \* of the effect's search: "none", "delay", "asking"
    reply,          \* its answer that is on its way
    aborted,        \* an earlier search has yet to hear that it was aborted
    locating,       \* the device has been asked
    entered         \* history: the text Enter was pressed on, unless edited since

pickerVars == <<query, search, rendered, enterPending, step, reply, aborted, locating,
                entered>>

PickerInit ==
    /\ query = Empty
    /\ search = Idle /\ rendered = Idle
    /\ enterPending = FALSE
    /\ step = "none" /\ reply = NoText /\ aborted = FALSE
    /\ locating = FALSE
    /\ entered = NoText

\* What belongs to the text in the box, as it is on the page.
Current == IF rendered # Idle /\ rendered.query = Trimmed[query] THEN rendered ELSE Idle

\* The cleanup clears the timer and aborts the request; the effect starts over.
Restart(text) ==
    /\ query' = text
    /\ IF Trimmed[text] = Trimmed[query] THEN UNCHANGED <<step, reply, aborted>>
       ELSE /\ step' = IF Trimmed[text] \in Active THEN "delay" ELSE "none"
            /\ reply' = NoText
            /\ aborted' = (aborted \/ step = "asking")

\* Mutant: an edit does not take back an Enter.
TypeKeepingEnter(text) ==
    /\ text # query
    /\ Restart(text)
    /\ rendered' = search
    /\ entered' = NoText
    /\ UNCHANGED <<search, enterPending, locating>>

Type(text) ==
    /\ text # query
    /\ enterPending' = FALSE
    /\ Restart(text)
    /\ rendered' = search
    /\ entered' = NoText
    /\ UNCHANGED <<search, locating>>

EscapeInBox ==
    /\ query # Empty
    /\ Restart(Empty)
    /\ rendered' = search
    /\ entered' = NoText
    /\ UNCHANGED <<search, enterPending, locating>>

\* choose(): the box is emptied.
Chosen ==
    /\ enterPending' = FALSE
    /\ Restart(Empty)
    /\ search' = Idle /\ rendered' = Idle
    /\ entered' = NoText
    /\ UNCHANGED locating

\* Enter takes the top result, or waits for it.
EnterWaits ==
    /\ Trimmed[query] \in Active
    /\ Current.status \notin {"done", "failed"}
    /\ enterPending' = TRUE
    /\ entered' = query
    /\ rendered' = search
    /\ UNCHANGED <<query, search, step, reply, aborted, locating>>

EnterChooses ==
    /\ Trimmed[query] \in Active
    /\ Current.status = "done"
    /\ Current.places # <<>>
    /\ Chosen

ClickResult ==
    /\ Current.status = "done" /\ Current.places # <<>>
    /\ Trimmed[query] \in Active
    /\ Chosen

\* The pause in typing was long enough.
SearchStarts ==
    /\ step = "delay"
    /\ step' = "asking"
    /\ search' = Searching(Trimmed[query])
    /\ UNCHANGED <<query, rendered, enterPending, reply, aborted, locating, entered>>

\* searchPlaces: a list of places, or an error.
Kartverket ==
    /\ step = "asking" /\ reply = NoText
    /\ reply' \in Results \cup {Failed}
    /\ UNCHANGED <<query, search, rendered, enterPending, step, aborted, locating, entered>>

ResultsShown ==
    /\ step = "asking" /\ reply \in Results
    /\ ~(enterPending /\ reply # <<>>)
    /\ search' = Done(Trimmed[query], reply)
    /\ step' = "none" /\ reply' = NoText
    /\ UNCHANGED <<query, rendered, enterPending, aborted, locating, entered>>

ResultsChosen ==
    /\ step = "asking" /\ reply \in Results
    /\ enterPending /\ reply # <<>>
    /\ Chosen

SearchFails ==
    /\ step = "asking" /\ reply = Failed
    /\ enterPending' = FALSE
    /\ search' = Broken(Trimmed[query])
    /\ step' = "none" /\ reply' = NoText
    /\ UNCHANGED <<query, rendered, aborted, locating, entered>>

\* Mutant: the failure of a search that was aborted is taken for one of the search
\* that has replaced it.
SearchAbortedUnchecked ==
    /\ aborted
    /\ aborted' = FALSE
    /\ enterPending' = FALSE
    /\ UNCHANGED <<query, search, rendered, step, reply, locating, entered>>

\* A search that was aborted fails, and returns without touching anything.
SearchAborted ==
    /\ aborted
    /\ aborted' = FALSE
    /\ UNCHANGED <<query, search, rendered, enterPending, step, reply, locating, entered>>

Render ==
    /\ rendered # search
    /\ rendered' = search
    /\ UNCHANGED <<query, search, enterPending, step, reply, aborted, locating, entered>>

\* The button is disabled while the device is being asked.
CentreOnDevicePosition ==
    /\ ~locating
    /\ locating' = TRUE
    /\ rendered' = search
    /\ UNCHANGED <<query, search, enterPending, step, reply, aborted, entered>>

\* The device answers, with a position or an error, however late.
DeviceAnswers ==
    /\ locating
    /\ locating' = FALSE
    /\ UNCHANGED <<query, search, rendered, enterPending, step, reply, aborted, entered>>
=============================================================================
