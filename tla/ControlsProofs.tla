--------------------------- MODULE ControlsProofs ---------------------------
(***************************************************************************)
(* The track of the selected ship never goes back, whatever the picker,    *)
(* the map and the Escape key do in between, for any ships and any number  *)
(* of cancelled polls.  What has to be added is that an answer on its way  *)
(* is to the ship watched now, and no older than a track of it that is     *)
(* known already.  Then the search box, for any texts: only an Enter       *)
(* pressed on the text in the box makes late results move the radar.  And  *)
(* the Escape key, which backs out of one thing at a time.                 *)
(***************************************************************************)
EXTENDS AppControls, TLAPS

Inv ==
    /\ selected \in Ships \cup {None} /\ watched \in Ships \cup {None}
    /\ phase \in {"idle", "asking", "answered", "waiting"}
    /\ phase # "idle" => watched \in Ships
    /\ tracked \in Polled
    /\ data \in Tracks \cup {None}
    /\ data # None =>
         (data.to = watched /\ data.track # None => (tracked.ok => tracked.age <= data.track))

LEMMA BehindFacts ==
    ASSUME NEW a \in TrackAges
    PROVE  /\ Behind(a) \in TrackAges /\ a <= Behind(a)
           /\ \A b \in TrackAges : a <= b => Behind(a) <= Behind(b)
  BY SelectionAssumption DEF TrackAges, Behind

LEMMA PolledFacts ==
    /\ NoPoll \in Polled /\ ~NoPoll.ok
    /\ \A p \in Polled : p.ok \in BOOLEAN
    /\ \A p \in Polled : p.ok => p \in [ok : {TRUE}, age : TrackAges] /\ p.age \in TrackAges
    /\ \A a \in TrackAges : [ok |-> TRUE, age |-> a] \in Polled
  BY DEF NoPoll, Polled

------------------------------------------------------------------------------
(* What a step of the page can do to the selection.                          *)

\* Nothing to the effect and its data.
Leaves == selected' \in Ships \cup {None} /\ UNCHANGED <<watched, phase, tracked, data>>

\* The effect follows the selection.
Turns ==
    /\ selected' \in Ships \cup {None}
    /\ \E ship \in Ships \cup {None} : Follow(ship)
    /\ UNCHANGED data

LEMMA StepsOfThePage ==
    ASSUME Inv, Next
    PROVE  \/ Leaves \/ Turns
           \/ HistoryAnswers \/ HistoryShown \/ HistoryPollsAgain
           \/ \E ship \in Ships : ShipReports(ship)
<1> USE DEF selectionVars, Inv
<1>1. CASE InBox \/ SearchStep \/ RenderSearch \/ AskDevice \/ DeviceError \/ TogglePicking
  BY <1>1 DEF InBox, SearchStep, RenderSearch, AskDevice, DeviceError, TogglePicking, Leaves
<1>2. CASE ChooseByHand \/ PickOnMap
  BY <1>2 DEF ChooseByHand, PickOnMap, ByClick, MoveTo, Turns
<1>3. CASE ChooseByResults \/ DevicePosition
  BY <1>3 DEF ChooseByResults, DevicePosition, Later, MoveTo, Leaves
<1>4. CASE SelectShip \/ EscapeKey
  BY <1>4 DEF SelectShip, EscapeKey, Select, Turns, Leaves
<1>5. CASE FlushEffects
  BY <1>5 DEF FlushEffects, Turns
<1>6. CASE TrackStep
  BY <1>6 DEF TrackStep, HistoryGone, Leaves
<1> QED
  BY <1>1, <1>2, <1>3, <1>4, <1>5, <1>6 DEF Next

\* A poll that failed keeps the track there is.
LEMMA AfterAPoll ==
    ASSUME Inv, HistoryShown
    PROVE  /\ watched \in Ships /\ watched' = watched /\ data' \in Tracks /\ data'.to = watched
           /\ tracked.ok => data'.track = tracked.age /\ tracked.age \in TrackAges
           /\ ~tracked.ok /\ data # None =>
                (data.to = watched => data'.track = data.track)
           /\ ~tracked.ok => (data = None \/ data.to # watched => data'.track = None)
<1>1. watched \in Ships /\ watched' = watched /\ tracked \in Polled
  BY DEF HistoryShown, Inv
<1>2. data # None => data.track \in TrackAges \cup {None}
  BY DEF Inv, Tracks
<1>3. CASE tracked.ok
  <2>1. data' = [to |-> watched, track |-> tracked.age, error |-> FALSE]
    BY <1>3 DEF HistoryShown, AfterPoll
  <2> QED
    BY <1>1, <1>3, <2>1, PolledFacts DEF Tracks
<1>4. CASE ~tracked.ok
  <2>1. data' = [to    |-> watched,
                 track |-> IF data # None /\ data.to = watched THEN data.track ELSE None,
                 error |-> TRUE]
    BY <1>4 DEF HistoryShown, AfterPoll
  <2> QED
    BY <1>1, <1>2, <1>4, <2>1 DEF Tracks
<1> QED
  BY <1>3, <1>4

------------------------------------------------------------------------------
LEMMA InvNext == Inv /\ [Next]_vars => Inv'
<1> SUFFICES ASSUME Inv, [Next]_vars PROVE Inv'
  OBVIOUS
<1>1. CASE UNCHANGED vars
  BY <1>1 DEF vars, Inv
<1>2. CASE Leaves
  BY <1>2 DEF Leaves, Inv
<1>3. CASE Turns
  <2>1. PICK ship \in Ships \cup {None} : Follow(ship)
    BY <1>3 DEF Turns
  <2>2. selected' \in Ships \cup {None} /\ data' = data
    BY <1>3 DEF Turns
  <2>3. CASE watched = ship
    BY <2>1, <2>2, <2>3 DEF Follow, Inv
  <2>4. CASE watched # ship
    BY <2>1, <2>2, <2>4, PolledFacts DEF Follow, Inv
  <2> QED
    BY <2>3, <2>4
<1>4. CASE HistoryAnswers
  <2>1. /\ phase = "asking" /\ phase' = "answered"
        /\ tracked' = NoPoll \/ tracked' = [ok |-> TRUE, age |-> 0]
        /\ UNCHANGED <<selected, watched, data>>
    BY <1>4 DEF HistoryAnswers
  <2>2. 0 \in TrackAges /\ \A a \in TrackAges : 0 <= a
    BY SelectionAssumption DEF TrackAges
  <2>3. data # None => data.track \in TrackAges \cup {None}
    BY DEF Inv, Tracks
  <2>4. tracked' \in Polled /\ (tracked'.ok => tracked'.age = 0)
    BY <2>1, <2>2, PolledFacts
  <2> QED
    BY <2>1, <2>2, <2>3, <2>4 DEF Inv
<1>5. CASE HistoryShown
  <2>1. /\ phase = "answered" /\ phase' = "waiting" /\ tracked' = NoPoll
        /\ UNCHANGED <<selected, watched>>
    BY <1>5 DEF HistoryShown
  <2> QED
    BY <1>5, <2>1, AfterAPoll, PolledFacts DEF Inv
<1>6. CASE HistoryPollsAgain
  BY <1>6 DEF HistoryPollsAgain, Inv
<1>7. ASSUME NEW ship \in Ships, ShipReports(ship) PROVE Inv'
  <2>1. UNCHANGED <<selected, watched, phase>>
    BY <1>7 DEF ShipReports
  <2>2. /\ tracked' \in Polled
        /\ tracked'.ok => tracked.ok
        /\ tracked.ok => tracked.age \in TrackAges
        /\ tracked.ok => tracked'.age = IF watched = ship THEN Behind(tracked.age) ELSE tracked.age
    <3>1. CASE watched = ship /\ tracked.ok
      <4>1. tracked \in [ok : {TRUE}, age : TrackAges] /\ tracked.age \in TrackAges
        BY <3>1, PolledFacts DEF Inv
      <4>2. tracked' = [tracked EXCEPT !.age = Behind(tracked.age)]
        BY <1>7, <3>1 DEF ShipReports
      <4>3. tracked' = [ok |-> TRUE, age |-> Behind(tracked.age)]
        BY <4>1, <4>2
      <4> QED
        BY <3>1, <4>1, <4>3, BehindFacts, PolledFacts
    <3>2. CASE ~(watched = ship /\ tracked.ok)
      BY <1>7, <3>2, PolledFacts DEF ShipReports, Inv
    <3> QED
      BY <3>1, <3>2
  <2>3. CASE data # None /\ data.to = ship /\ data.track # None
    <3>1. data' = [data EXCEPT !.track = Behind(data.track)]
      BY <1>7, <2>3 DEF ShipReports
    <3>2. data \in Tracks /\ data.track \in TrackAges /\ Behind(data.track) \in TrackAges
      BY <2>3, BehindFacts DEF Inv, Tracks
    <3>3. data' \in Tracks /\ data'.to = data.to /\ data'.track = Behind(data.track)
      BY <3>1, <3>2 DEF Tracks
    <3>4. data'.to = watched => (tracked'.ok => tracked'.age <= data'.track)
      BY <2>2, <2>3, <3>2, <3>3, BehindFacts DEF Inv
    <3> QED
      BY <2>1, <2>2, <3>3, <3>4 DEF Inv
  <2>4. CASE ~(data # None /\ data.to = ship /\ data.track # None)
    <3>1. data' = data
      BY <1>7, <2>4 DEF ShipReports
    <3> QED
      BY <2>1, <2>2, <2>4, <3>1 DEF Inv
  <2> QED
    BY <2>3, <2>4
<1> QED
  BY <1>1, <1>2, <1>3, <1>4, <1>5, <1>6, <1>7, StepsOfThePage

\* The hook's state is well-formed, and what is on its way is no older than what is known.
THEOREM SelectionInvariant == Spec => []Inv
<1>1. Init => Inv
  BY PolledFacts DEF Init, SelectionInit, Inv
<1> QED
  BY <1>1, InvNext, PTL DEF Spec

------------------------------------------------------------------------------
\* The track on screen, as an answer about a ship.
Kept ==
    IF data = None THEN None
    ELSE IF data.track = None THEN None ELSE [to |-> data.to, age |-> data.track]

LEMMA KeptFacts ==
    ASSUME Inv
    PROVE  /\ Kept \in LA!Answers <=> Kept # None
           /\ Kept # None <=> data # None /\ data.track # None
           /\ Kept # None => Kept.to = data.to /\ Kept.age = data.track /\ data.track \in TrackAges
<1>1. data # None => data.to \in Ships /\ data.track \in TrackAges \cup {None}
  BY DEF Inv, Tracks
<1>2. CASE data # None /\ data.track # None
  <2>1. Kept = [to |-> data.to, age |-> data.track]
    BY <1>2 DEF Kept
  <2>2. Kept \in [to : Ships \cup {None}, age : TrackAges]
    BY <1>1, <1>2, <2>1
  <2> QED
    BY <1>1, <1>2, <2>1, <2>2, NoneAssumption DEF LA!Answers
<1>3. CASE ~(data # None /\ data.track # None)
  BY <1>3, NoneAssumption DEF Kept, LA!Answers
<1> QED
  BY <1>2, <1>3

\* What a poll that ended with an answer, or with an error, does to the track.
LEMMA ShownImplements ==
    ASSUME Inv, HistoryShown, Inv'
    PROVE  LA!Next \/ UNCHANGED LA!vars
<1>1. /\ watched \in Ships /\ watched' = watched /\ data' \in Tracks /\ data'.to = watched
      /\ data' # None
      /\ tracked.ok => data'.track = tracked.age /\ tracked.age \in TrackAges
      /\ ~tracked.ok /\ data # None => (data.to = watched => data'.track = data.track)
      /\ ~tracked.ok => (data = None \/ data.to # watched => data'.track = None)
  BY AfterAPoll, NoneAssumption
<1>2. CASE tracked.ok
  <2>1. Kept' = [to |-> watched, age |-> tracked.age]
    BY <1>1, <1>2, NoneAssumption DEF Kept
  <2>2. Kept \in LA!Answers /\ Kept.to = watched => tracked.age <= Kept.age
    BY <1>2, KeptFacts DEF Inv
  <2>3. LA!Learn
    <3>1. Kept' \in [to : {watched}, age : TrackAges] /\ Kept'.age = tracked.age
      BY <1>1, <1>2, <2>1
    <3> QED
      BY <1>1, <2>2, <3>1 DEF LA!Learn, Kept
  <2> QED
    BY <2>3 DEF LA!Next
<1>3. CASE ~tracked.ok /\ data # None /\ data.to = watched
  <2>1. Kept' = Kept
    BY <1>1, <1>3 DEF Kept
  <2> QED
    BY <1>1, <2>1 DEF LA!vars, Kept
<1>4. CASE ~tracked.ok /\ ~(data # None /\ data.to = watched)
  <2>1. Kept' = None
    BY <1>1, <1>4 DEF Kept
  <2>2. Kept \in LA!Answers => Kept.to # watched
    BY <1>4, KeptFacts
  <2>3. LA!Forget
    BY <1>1, <2>1, <2>2 DEF LA!Forget, Kept
  <2> QED
    BY <2>3 DEF LA!Next
<1> QED
  BY <1>2, <1>3, <1>4

LEMMA ReportImplements ==
    ASSUME Inv, NEW ship \in Ships, ShipReports(ship)
    PROVE  LA!Next \/ UNCHANGED LA!vars
<1>1. watched' = watched
  BY DEF ShipReports
<1>2. CASE data # None /\ data.to = ship /\ data.track # None
  <2>1. data' = [data EXCEPT !.track = Behind(data.track)]
    BY <1>2 DEF ShipReports
  <2>2. /\ data \in Tracks /\ data.track \in TrackAges
        /\ Behind(data.track) \in TrackAges /\ data.track <= Behind(data.track)
    BY <1>2, BehindFacts DEF Inv, Tracks
  <2>3. data' \in Tracks /\ data'.to = data.to /\ data'.track = Behind(data.track)
    BY <2>1, <2>2 DEF Tracks
  <2>4. Kept' = [to |-> data.to, age |-> Behind(data.track)]
    BY <2>2, <2>3, NoneAssumption DEF Kept
  <2>5. Kept' \in [to : {Kept.to}, age : {a \in TrackAges : a >= Kept.age}] /\ Kept \in LA!Answers
    BY <1>2, <2>2, <2>4, KeptFacts DEF TrackAges
  <2>6. LA!Wait
    BY <1>1, <2>5 DEF LA!Wait, Kept
  <2> QED
    BY <2>6 DEF LA!Next
<1>3. CASE ~(data # None /\ data.to = ship /\ data.track # None)
  BY <1>1, <1>3 DEF ShipReports, LA!vars
<1> QED
  BY <1>2, <1>3

\* useHistory.ts:48-58: a track gives way only to a newer one of the same ship, or to
\* whatever is known of the ship that has been selected instead.
THEOREM TracksOnlyGrow == Spec => TrackOnlyGrows
<1>1. Init => LA!Init
  BY DEF Init, SelectionInit, LA!Init
<1>2. Inv /\ Inv' /\ [Next]_vars => [LA!Next]_(LA!vars)
  <2> SUFFICES ASSUME Inv, Inv', [Next]_vars
               PROVE  LA!Next \/ UNCHANGED LA!vars
    OBVIOUS
  <2>1. CASE Leaves \/ UNCHANGED vars \/ HistoryAnswers \/ HistoryPollsAgain
    BY <2>1 DEF Leaves, vars, HistoryAnswers, HistoryPollsAgain, LA!vars
  <2>2. CASE Turns
    <3>1. watched' \in Ships \cup {None} /\ data' = data
      BY <2>2 DEF Turns, Follow, Inv
    <3> QED
      BY <3>1 DEF LA!Next, LA!Ask
  <2> QED
    BY <2>1, <2>2, ShownImplements, ReportImplements, StepsOfThePage
<1> QED
  BY <1>1, <1>2, SelectionInvariant, PTL DEF Spec, TrackOnlyGrows

------------------------------------------------------------------------------
(* The search box.  A pending Enter was pressed on the text that is being    *)
(* searched for; Escape in the box ends the search and may leave it pending, *)
(* until the next edit takes it back.                                        *)

PickerInv ==
    /\ query \in Texts /\ entered \in Texts \cup {NoText}
    /\ step \in {"none", "delay", "asking"}
    /\ enterPending \in BOOLEAN /\ aborted \in BOOLEAN /\ locating \in BOOLEAN
    /\ step # "none" => Trimmed[query] \in Active
    /\ step # "none" /\ enterPending => entered = query

\* Another text, or the same but for its blanks.
LEMMA AfterRestart ==
    ASSUME PickerInv, NEW text \in Texts, Restart(text)
    PROVE  /\ query' = text
           /\ step' \in {"none", "delay", "asking"} /\ aborted' \in BOOLEAN
           /\ step' # "none" => Trimmed[text] \in Active
  BY DEF Restart, PickerInv

LEMMA PickerNext == PickerInv /\ [Next]_vars => PickerInv'
<1> SUFFICES ASSUME PickerInv, [Next]_vars PROVE PickerInv'
  OBVIOUS
<1>0. Empty \in Texts /\ Trimmed[Empty] = Empty /\ Empty \notin Active
  BY PickerAssumption
<1>1. ASSUME NEW text \in Texts, Type(text) PROVE PickerInv'
  BY <1>1, AfterRestart DEF Type, PickerInv
<1>2. CASE EscapeInBox
  BY <1>0, <1>2, AfterRestart DEF EscapeInBox, PickerInv
<1>3. CASE EnterWaits
  BY <1>3 DEF EnterWaits, PickerInv
<1>4. CASE Chosen
  BY <1>0, <1>4, AfterRestart DEF Chosen, PickerInv
<1>5. CASE SearchStep
  <2>1. CASE SearchStarts
    BY <2>1 DEF SearchStarts, PickerInv
  <2>2. CASE Kartverket
    BY <2>2 DEF Kartverket, PickerInv
  <2>3. CASE ResultsShown
    BY <2>3 DEF ResultsShown, PickerInv
  <2>4. CASE SearchFails
    BY <2>4 DEF SearchFails, PickerInv
  <2>5. CASE SearchAborted
    BY <2>5 DEF SearchAborted, PickerInv
  <2> QED
    BY <1>5, <2>1, <2>2, <2>3, <2>4, <2>5 DEF SearchStep
<1>6. CASE RenderSearch \/ AskDevice \/ DevicePosition \/ DeviceError
  <2>1. CASE Render
    BY <2>1 DEF Render, PickerInv
  <2>2. CASE CentreOnDevicePosition
    BY <2>2 DEF CentreOnDevicePosition, PickerInv
  <2>3. CASE DeviceAnswers
    BY <2>3 DEF DeviceAnswers, PickerInv
  <2> QED
    BY <1>6, <2>1, <2>2, <2>3 DEF RenderSearch, AskDevice, DevicePosition, DeviceError
<1>7. CASE UNCHANGED pickerVars
  BY <1>7 DEF pickerVars, PickerInv
<1>8. CASE UNCHANGED vars
  BY <1>7, <1>8 DEF vars, pickerVars
<1>9. Next => \/ \E text \in Texts : Type(text)
              \/ EscapeInBox \/ EnterWaits \/ Chosen \/ SearchStep
              \/ RenderSearch \/ AskDevice \/ DevicePosition \/ DeviceError
              \/ UNCHANGED pickerVars
  BY DEF Next, InBox, ChooseByHand, EnterChooses, ClickResult, ChooseByResults, ResultsChosen,
         TogglePicking, PickOnMap, SelectShip, EscapeKey, FlushEffects, TrackStep
<1> QED
  BY <1>1, <1>2, <1>3, <1>4, <1>5, <1>6, <1>7, <1>8, <1>9

LEMMA PickerAlways == Spec => []PickerInv
<1>1. Init => PickerInv
  BY PickerAssumption DEF Init, PickerInit, PickerInv
<1> QED
  BY <1>1, PickerNext, PTL DEF Spec

\* LocationPicker.tsx:103-109.  Results that come late move the radar only if the Enter
\* they answer was pressed on the text that is still in the box.
THEOREM OnlyEnterChoosesResults == Spec => ResultsChosenOnEnterOnly
<1>1. PickerInv /\ [Next]_vars => [ChooseByResults => entered = query]_vars
  BY DEF ChooseByResults, ResultsChosen, PickerInv
<1> QED
  BY <1>1, PickerAlways, PTL DEF Spec, ResultsChosenOnEnterOnly

------------------------------------------------------------------------------
(* The Escape key.  The handler may only lag behind a move, which has        *)
(* dropped the selection.                                                    *)

EscapeInv ==
    /\ picking \in BOOLEAN /\ listening \in BOOLEAN
    /\ picking => listening
    /\ listening /\ ~picking => selected = None

LEMMA EscapeNext == EscapeInv /\ [Next]_vars => EscapeInv'
<1> SUFFICES ASSUME EscapeInv, [Next]_vars PROVE EscapeInv'
  OBVIOUS
<1> USE DEF EscapeInv, selectionVars, appVars
<1>1. CASE InBox \/ SearchStep \/ RenderSearch \/ AskDevice \/ DeviceError \/ TrackStep
  BY <1>1 DEF InBox, SearchStep, RenderSearch, AskDevice, DeviceError, TrackStep, HistoryAnswers,
              HistoryShown, HistoryPollsAgain, HistoryGone, ShipReports
<1>2. CASE ChooseByHand \/ ChooseByResults \/ DevicePosition \/ PickOnMap
  <2>1. ASSUME NEW by, ByClick(by) PROVE EscapeInv'
    BY <2>1 DEF ByClick, MoveTo
  <2>2. ASSUME NEW by, Later(by) PROVE EscapeInv'
    BY <2>2 DEF Later, MoveTo
  <2> QED
    BY <1>2, <2>1, <2>2 DEF ChooseByHand, ChooseByResults, DevicePosition, PickOnMap
<1>3. CASE TogglePicking \/ SelectShip \/ EscapeKey \/ FlushEffects
  <2>1. CASE TogglePicking
    BY <2>1 DEF TogglePicking, EffectsPending
  <2>2. CASE SelectShip
    BY <2>2 DEF SelectShip, EffectsPending, Select
  <2>3. CASE EscapeKey
    BY <2>3 DEF EscapeKey, Select
  <2>4. CASE FlushEffects
    BY <2>4 DEF FlushEffects
  <2> QED
    BY <1>3, <2>1, <2>2, <2>3, <2>4
<1>4. CASE UNCHANGED vars
  BY <1>4 DEF vars
<1> QED
  BY <1>1, <1>2, <1>3, <1>4 DEF Next

LEMMA EscapeAlways == Spec => []EscapeInv
<1>1. Init => EscapeInv
  BY DEF Init, SelectionInit, EscapeInv
<1> QED
  BY <1>1, EscapeNext, PTL DEF Spec

\* App.tsx:89-96.  The handler backs out of one thing at a time, although it may be that
\* of an earlier render.
THEOREM EscapeBacksOutOfOneThing == Spec => EscapeBacksOut
<1>1. EscapeInv /\ [Next]_vars =>
        [EscapeKey =>
            /\ picking /\ selected # None => selected' = selected /\ ~picking'
            /\ ~picking => selected' = None]_vars
  BY DEF EscapeInv, EscapeKey, Select, selectionVars
<1> QED
  BY <1>1, EscapeAlways, PTL DEF Spec, EscapeBacksOut

------------------------------------------------------------------------------
(* Types.                                                                    *)

GoneInv == gone \subseteq [to : Ships, poll : Polled]

LEMMA FollowKeepsGone ==
    ASSUME Inv, GoneInv, NEW ship, Follow(ship)
    PROVE  GoneInv'
<1>1. CASE watched = ship
  BY <1>1 DEF Follow, GoneInv
<1>2. CASE watched # ship /\ phase \in {"asking", "answered"}
  <2>1. [to |-> watched, poll |-> tracked] \in [to : Ships, poll : Polled]
    BY <1>2 DEF Inv
  <2> QED
    BY <1>2, <2>1 DEF Follow, GoneInv
<1>3. CASE watched # ship /\ phase \notin {"asking", "answered"}
  BY <1>3 DEF Follow, GoneInv
<1> QED
  BY <1>1, <1>2, <1>3

LEMMA GoneNext == Inv /\ GoneInv /\ [Next]_vars => GoneInv'
<1> SUFFICES ASSUME Inv, GoneInv, [Next]_vars PROVE GoneInv'
  OBVIOUS
<1>1. CASE UNCHANGED gone
  BY <1>1 DEF GoneInv
<1>2. ASSUME NEW ship \in Ships, ShipReports(ship) PROVE GoneInv'
  <2>1. \A g \in gone : g.poll.ok => [g EXCEPT !.poll.age = Behind(@)] \in [to : Ships, poll : Polled]
    <3>1. SUFFICES ASSUME NEW g \in gone, g.poll.ok
                   PROVE  [g EXCEPT !.poll.age = Behind(@)] \in [to : Ships, poll : Polled]
      OBVIOUS
    <3>2. g \in [to : Ships, poll : Polled]
      BY DEF GoneInv
    <3>3. g.poll \in [ok : {TRUE}, age : TrackAges] /\ g.poll.age \in TrackAges
      BY <3>1, <3>2, PolledFacts
    <3>4. [g.poll EXCEPT !.age = Behind(g.poll.age)] \in [ok : {TRUE}, age : TrackAges]
      BY <3>3, BehindFacts
    <3>5. [g.poll EXCEPT !.age = Behind(g.poll.age)] \in Polled
      BY <3>4 DEF Polled
    <3> QED
      BY <3>2, <3>5
  <2> QED
    BY <1>2, <2>1 DEF ShipReports, GoneInv
<1>3. CASE HistoryGone
  BY <1>3 DEF HistoryGone, GoneInv
<1>4. \/ UNCHANGED gone \/ HistoryGone
      \/ \E ship \in Ships : ShipReports(ship)
      \/ \E ship : Follow(ship)
  <2>1. ASSUME Next
        PROVE  \/ UNCHANGED gone \/ HistoryGone
               \/ \E ship \in Ships : ShipReports(ship)
               \/ \E ship : Follow(ship)
    <3>1. CASE TrackStep
      BY <3>1 DEF TrackStep, HistoryAnswers, HistoryShown, HistoryPollsAgain
    <3>2. CASE ChooseByHand \/ PickOnMap \/ FlushEffects
      BY <3>2 DEF ChooseByHand, PickOnMap, FlushEffects, ByClick
    <3>3. CASE SelectShip \/ EscapeKey
      BY <3>3 DEF SelectShip, EscapeKey, Select, selectionVars
    <3>4. CASE ChooseByResults \/ DevicePosition
      BY <3>4 DEF ChooseByResults, DevicePosition, Later
    <3>5. CASE InBox \/ SearchStep \/ RenderSearch \/ AskDevice \/ DeviceError \/ TogglePicking
      BY <3>5 DEF InBox, SearchStep, RenderSearch, AskDevice, DeviceError, TogglePicking, selectionVars
    <3> QED
      BY <2>1, <3>1, <3>2, <3>3, <3>4, <3>5 DEF Next
  <2> QED
    BY <2>1 DEF vars
<1> QED
  BY <1>1, <1>2, <1>3, <1>4, FollowKeepsGone

\* The picker, the selection and the controls are well typed, in every state of the page.
THEOREM ControlsTypeCorrect == Spec => []TypeOK
<1>1. Init => GoneInv
  BY DEF Init, SelectionInit, GoneInv
<1>2. Inv /\ GoneInv /\ PickerInv /\ EscapeInv => TypeOK
  BY DEF Inv, GoneInv, PickerInv, EscapeInv, TypeOK
<1> QED
  BY <1>1, <1>2, GoneNext, SelectionInvariant, PickerAlways, EscapeAlways, PTL DEF Spec
=============================================================================
