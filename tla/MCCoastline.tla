---------------------------- MODULE MCCoastline ----------------------------
(* Tags of two and three characters and lines on a grid of tiles two       *)
(* degrees wide.  Every file of up to three pieces, and every line of four *)
(* vertices in a corner of the grid; pages are opened on two of the files. *)
EXTENDS Coastline

MCOpen == <<"<", "k">>
MCClose == <<"<", "/", "k">>

Pieces == {<<"<", "k", "a", "<", "/", "k">>, <<"<", "k", "x", "b", "<", "/", "k">>,
           <<"<", "k", "x", "<", "/", "k">>, <<"x", "<">>, <<"<", "k", "-", "<", "/", "k">>}

TwoLines == [a |-> <<<<0, 1>>, <<2, 1>>, <<3, 3>>, <<1, 3>>>>, b |-> <<<<3, 0>>, <<3, 2>>, <<4, 4>>>>]

Files == {[name |-> "file", text |-> p \o q, points |-> TwoLines] : p, q \in Pieces}
         \cup {[name |-> "coast", text |-> <<"<", "k", "a", "<", "/", "k", "<", "k", "b", "<", "/", "k">>, points |-> TwoLines]}

Grid == (0 .. 3) \X (0 .. 2)

Shapes == {[name |-> "shape", text |-> <<"<", "k", "a", "<", "/", "k">>,
            points |-> [a |-> <<p, q, r, s>>]] : p \in {<<0, 0>>, <<1, 2>>}, q, r, s \in Grid}

MCSources == Files \cup Shapes

\* Metres to degrees: the axes are turned, as the grid of UTM is against that of degrees.
MCProject == [p \in (0 .. 4) \X (0 .. 4) |-> <<p[1], 4 - p[2]>>]

Box(s, w, n, e) == [south |-> s, west |-> w, north |-> n, east |-> e]
MCViews == {Box(0, 0, 2, 2), Box(1, 1, 3, 3), Box(2, 2, 4, 4), Box(2, 3, 3, 4)}
=============================================================================
