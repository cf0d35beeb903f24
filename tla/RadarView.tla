----------------------------- MODULE RadarView -----------------------------
(***************************************************************************)
(* Where the radar is and what range it is set to, and the copy of it in   *)
(* the page's address (web/src/hooks/useRadarView.ts).  The address is     *)
(* read when the page loads and written by an effect, after the change has *)
(* been rendered.  Coordinates are written with five decimals.             *)
(***************************************************************************)
EXTENDS Naturals

CONSTANTS
    Places,          \* coordinates a centre can have
    Linkable,        \* those within the limits readFromUrl accepts
    Rounded,         \* each place as toFixed(5) leaves it
    Centres,         \* the centres a user can move to
    Ranges,          \* RADAR_RANGES_NM
    DefaultCentre, DefaultRange,
    NoName,          \* a centre without a name
    Missing          \* a parameter that is absent, or not one of the accepted values

ASSUME ViewAssumption ==
    /\ Linkable \subseteq Places
    /\ Rounded \in [Places -> Places]
    /\ \A p \in Places : Rounded[Rounded[p]] = Rounded[p]
    /\ \A c \in Centres : c.at \in Places
    /\ \A c \in Centres \cup {DefaultCentre} : c = [at |-> c.at, name |-> c.name]
    /\ DefaultCentre.at \in Linkable /\ Rounded[DefaultCentre.at] = DefaultCentre.at
    /\ DefaultRange \in Ranges
    /\ Missing \notin Places \cup Ranges

VARIABLES
    view,            \* the state: a centre and a range
    url              \* the address: at, name and range

viewVars == <<view, url>>

ReadFromUrl(u) ==
    [centre |-> IF u.at \in Linkable THEN [at |-> u.at, name |-> u.name] ELSE DefaultCentre,
     range  |-> IF u.range \in Ranges THEN u.range ELSE DefaultRange]

\* Mutant: the name of a place that has been left stays in the address.
WriteToUrlKeepingTheName(v) ==
    [at    |-> Rounded[v.centre.at],
     name  |-> IF v.centre.name # NoName THEN v.centre.name ELSE url.name,
     range |-> v.range]

WriteToUrl(v) ==
    [at    |-> Rounded[v.centre.at],
     name  |-> v.centre.name,
     range |-> v.range]

ViewInit ==
    /\ url \in [at : Linkable \cup {Missing}, name : {NoName}, range : Ranges \cup {Missing}]
    /\ view = ReadFromUrl(url)

\* Choosing a place, picking a point of the map or locating the device.
SetCentre(c) == view' = [view EXCEPT !.centre = c]

SetRangeNm(nm) == view' = [view EXCEPT !.range = nm]
=============================================================================
