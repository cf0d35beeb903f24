---------------------------- MODULE AppControls ----------------------------
(***************************************************************************)
(* How the controls of the page work together (web/src/App.tsx): the       *)
(* picker's three ways to move the radar, the pick mode of the map, the    *)
(* selected ship, and the Escape key that backs out of what is open.  The  *)
(* Escape handler is that of the last effect, so it knows picking as it    *)
(* was then.                                                               *)
(***************************************************************************)
EXTENDS LocationPicker, ShipSelection, FiniteSets

CONSTANT MaxGone    \* bound: cancelled polls that have not heard of it

ASSUME ControlsAssumption == MaxGone \in Nat

Workloads == {"box", "ships"}

VARIABLES
    workload,       \* bound: what is used besides the map and the buttons, the box or the ships
    centre,         \* what has moved the radar: "start", "search", "map" or "device"
    picking,
    listening       \* picking, as the Escape handler knows it

appVars == <<centre, picking, listening>>
vars == <<query, search, rendered, enterPending, step, reply, aborted, locating, entered,
          selected, watched, phase, tracked, gone, data, centre, picking, listening, workload>>

Init ==
    /\ PickerInit /\ SelectionInit
    /\ workload \in Workloads
    /\ centre = "start" /\ picking = FALSE /\ listening = FALSE

\* moveTo: leaves pick mode and drops the selection.
MoveTo(by) ==
    /\ centre' = by
    /\ picking' = FALSE
    /\ selected' = None

\* A click's effects run before anything else does; others' a moment later.
ByClick(by) == MoveTo(by) /\ listening' = FALSE /\ Follow(None) /\ UNCHANGED data
Later(by) == MoveTo(by) /\ UNCHANGED <<watched, phase, tracked, gone, data, listening>>

InBox ==
    /\ workload = "box"
    /\ \/ \E text \in Texts : Type(text)
       \/ EscapeInBox \/ EnterWaits
    /\ UNCHANGED <<selectionVars, appVars>>

ChooseByHand == (EnterChooses \/ ClickResult) /\ ByClick("search")

ChooseByResults == ResultsChosen /\ Later("search")

SearchStep ==
    /\ SearchStarts \/ Kartverket \/ ResultsShown \/ SearchFails \/ SearchAborted
    /\ UNCHANGED <<selectionVars, appVars>>

RenderSearch == Render /\ UNCHANGED <<selectionVars, appVars>>

AskDevice == CentreOnDevicePosition /\ UNCHANGED <<selectionVars, appVars>>

DevicePosition == DeviceAnswers /\ Later("device")

DeviceError == DeviceAnswers /\ UNCHANGED <<selectionVars, appVars>>

\* What is left of an earlier change runs before a click is rendered.
EffectsPending == watched # selected \/ listening # picking

TogglePicking ==
    /\ ~EffectsPending
    /\ picking' = ~picking
    /\ listening' = ~picking
    /\ UNCHANGED <<pickerVars, selectionVars, centre>>

PickOnMap == picking /\ ByClick("map") /\ UNCHANGED pickerVars

\* A ship is clicked, or its panel closed.
SelectShip ==
    /\ ~EffectsPending
    /\ Cardinality(gone) < MaxGone
    /\ \E ship \in Ships \cup {None} : Select(ship)
    /\ UNCHANGED <<pickerVars, appVars>>

\* Mutant: the handler is registered once, when picking is off.
EscapeKeyOfTheFirstRender ==
    /\ Select(None) /\ UNCHANGED picking
    /\ UNCHANGED <<pickerVars, centre, listening>>

\* Escape outside of the box.
EscapeKey ==
    /\ IF listening
         THEN picking' = FALSE /\ listening' = FALSE /\ UNCHANGED selectionVars
         ELSE Select(None) /\ UNCHANGED <<picking, listening>>
    /\ UNCHANGED <<pickerVars, centre>>

FlushEffects ==
    /\ EffectsPending
    /\ listening' = picking
    /\ Follow(selected)
    /\ UNCHANGED <<pickerVars, selected, data, centre, picking>>

TrackStep ==
    /\ workload = "ships"
    /\ \/ HistoryAnswers \/ HistoryShown \/ HistoryPollsAgain \/ HistoryGone
       \/ \E ship \in Ships : ShipReports(ship)
    /\ UNCHANGED <<pickerVars, appVars>>

Next ==
    /\ \/ InBox \/ ChooseByHand \/ ChooseByResults \/ SearchStep \/ RenderSearch
       \/ AskDevice \/ DevicePosition \/ DeviceError
       \/ TogglePicking \/ PickOnMap \/ SelectShip \/ EscapeKey
       \/ FlushEffects \/ TrackStep
    /\ UNCHANGED workload

Spec == Init /\ [][Next]_vars

\* Timers fire, requests are answered or fail, and what they set is rendered.  The
\* device may never answer.
FairSpec ==
    /\ Spec
    /\ WF_vars(SearchStep /\ UNCHANGED workload)
    /\ WF_vars(ChooseByResults /\ UNCHANGED workload)
    /\ WF_vars(RenderSearch /\ UNCHANGED workload)
    /\ WF_vars(FlushEffects /\ UNCHANGED workload)
----------------------------------------------------------------------------
TypeOK ==
    /\ query \in Texts /\ entered \in Texts \cup {NoText}
    /\ step \in {"none", "delay", "asking"}
    /\ {enterPending, aborted, locating, picking, listening} \subseteq BOOLEAN
    /\ selected \in Ships \cup {None} /\ watched \in Ships \cup {None}
    /\ phase \in {"idle", "asking", "answered", "waiting"}
    /\ tracked \in Polled
    /\ data \in Tracks \cup {None}
    /\ gone \subseteq [to : Ships, poll : Polled]

\* LocationPicker.tsx:103-109.  Results move the radar by themselves only if Enter
\* was pressed on the very text that is in the box, and not edited since.
ResultsChosenOnEnterOnly == [][ChooseByResults => entered = query]_vars

\* LocationPicker.tsx:87-91.  An Enter pressed while a search for the text has not
\* yet found anything is honoured: unless the text is edited, a place is chosen, or
\* there is nothing to choose.
Answered(text) ==
    /\ search # Idle /\ search.query = Trimmed[text]
    /\ search.status \in {"done", "failed"}

EnterIsHonoured ==
    \A text \in Texts :
        enterPending /\ query = text /\ Trimmed[text] \in Active /\ ~Answered(text)
            ~> query # text \/ (Answered(text) /\ (search.status = "done" => search.places = <<>>))

\* App.tsx:89-96.  Escape backs out of one thing at a time, pick mode first: it never
\* drops the ship while the map waits for a click, nor leaves either open for a
\* second Escape when only one was.
EscapeBacksOut ==
    [][EscapeKey =>
          /\ picking /\ selected # None => selected' = selected /\ ~picking'
          /\ ~picking => selected' = None]_vars

LA == INSTANCE LatestAnswer WITH
    Questions <- Ships \cup {None}, Ages <- TrackAges, NoAnswer <- None, asked <- watched,
    answer <- IF data = None THEN None
              ELSE IF data.track = None THEN None ELSE [to |-> data.to, age |-> data.track]

\* useHistory.ts:48-58.  The track kept is the selected ship's or that of one selected
\* before; it is only replaced by a newer one of the selected ship, and a failed poll
\* does not erase it.
TrackOnlyGrows == LA!Init /\ [][LA!Next]_(LA!vars)
=============================================================================
