--------------------------- MODULE ShipSelection ---------------------------
(***************************************************************************)
(* The ship selected on the radar and its track: selectedMmsi of App.tsx   *)
(* and useHistory (web/src/hooks/useHistory.ts), which polls for the       *)
(* track.  What the last poll that ended has produced is kept with the     *)
(* ship it belongs to.  The age of a track is the number of reports of the *)
(* ship it does not have yet.                                              *)
(***************************************************************************)
EXTENDS Naturals

CONSTANTS
    Ships,
    None,           \* no ship; no data; nothing on its way
    MaxBehind       \* bound: how many reports a track may lack

ASSUME SelectionAssumption == None \notin Ships /\ MaxBehind \in Nat

TrackAges == 0 .. MaxBehind

Unanswered == "unanswered"

\* What a poll can produce, and what useHistory keeps.
Polled == [ok : {TRUE}, age : TrackAges] \cup [ok : {FALSE}]
Tracks == [to : Ships, track : TrackAges \cup {None}, error : BOOLEAN]

ASSUME NoneAssumption ==
    /\ None \notin TrackAges
    /\ None \notin Tracks
    /\ None \notin [to : Ships \cup {None}, age : TrackAges]

VARIABLES
    selected,       \* selectedMmsi
    watched,        \* the ship the running effect polls for
    phase,          \* of its poll: "asking", "answered", "waiting", or "idle" without a ship
    tracked,        \* the answer on its way
    gone,           \* the polls of effects that have been cleaned up
    data            \* the hook's state

selectionVars == <<selected, watched, phase, tracked, gone, data>>

NoPoll == [ok |-> FALSE]

SelectionInit ==
    /\ selected = None /\ watched = None
    /\ phase = "idle" /\ tracked = NoPoll
    /\ gone = {}
    /\ data = None

\* The effect follows the selection.
Follow(ship) ==
    IF watched = ship THEN UNCHANGED <<watched, phase, tracked, gone>>
    ELSE /\ watched' = ship
         /\ phase' = IF ship = None THEN "idle" ELSE "asking"
         /\ tracked' = NoPoll
         /\ gone' = IF phase \in {"asking", "answered"}
                      THEN gone \cup {[to |-> watched, poll |-> tracked]} ELSE gone

\* A click: rendered, with its effects, before anything else.
Select(ship) ==
    /\ selected' = ship
    /\ Follow(ship)
    /\ UNCHANGED data

\* The state after a poll for the ship: the track, or the one there was and an error.
AfterPoll(ship, poll) ==
    IF poll.ok THEN [to |-> ship, track |-> poll.age, error |-> FALSE]
    ELSE [to    |-> ship,
          track |-> IF data # None /\ data.to = ship THEN data.track ELSE None,
          error |-> TRUE]

HistoryAnswers ==
    /\ phase = "asking"
    /\ tracked' \in {NoPoll, [ok |-> TRUE, age |-> 0]}
    /\ phase' = "answered"
    /\ UNCHANGED <<selected, watched, gone, data>>

HistoryShown ==
    /\ phase = "answered"
    /\ data' = AfterPoll(watched, tracked)
    /\ phase' = "waiting"
    /\ tracked' = NoPoll
    /\ UNCHANGED <<selected, watched, gone>>

HistoryPollsAgain ==
    /\ phase = "waiting"
    /\ phase' = "asking"
    /\ UNCHANGED <<selected, watched, tracked, gone, data>>

\* Mutant: a poll that has been cancelled reports its outcome.
HistoryGoneUnchecked ==
    \E g \in gone :
        /\ gone' = gone \ {g}
        /\ data' = AfterPoll(g.to, g.poll)
        /\ UNCHANGED <<selected, watched, phase, tracked>>

\* A poll that has been cancelled returns without touching the state.
HistoryGone ==
    \E g \in gone :
        /\ gone' = gone \ {g}
        /\ UNCHANGED <<selected, watched, phase, tracked, data>>

Behind(age) == IF age < MaxBehind THEN age + 1 ELSE age

\* A ship reports: every track of it that is known or on its way lacks one more.
ShipReports(ship) ==
    /\ data' = IF data # None /\ data.to = ship /\ data.track # None
                 THEN [data EXCEPT !.track = Behind(@)] ELSE data
    /\ tracked' = IF watched = ship /\ tracked.ok
                    THEN [tracked EXCEPT !.age = Behind(@)] ELSE tracked
    /\ gone' = {IF g.to = ship /\ g.poll.ok THEN [g EXCEPT !.poll.age = Behind(@)] ELSE g : g \in gone}
    /\ UNCHANGED <<selected, watched, phase>>
=============================================================================
