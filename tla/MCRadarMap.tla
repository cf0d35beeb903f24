----------------------------- MODULE MCRadarMap -----------------------------
(* Two places on one parallel, where the zoom is the same, and one further *)
(* north.                                                                  *)
EXTENDS RadarMap

CONSTANTS c1, c2, c3, small, big

MCLatitude == [c \in Centres |-> IF c = c3 THEN 70 ELSE 62]
MCShortSide == [s \in Sizes |-> IF s = big THEN 900 ELSE 400]
MCRanges == <<12, 16>>
=============================================================================
