---------------------------- MODULE MCRadarFeed ----------------------------
(* A port with many ships, a point picked at sea whose sixth decimal the   *)
(* address does not keep, and one beyond the limits of the address.        *)
EXTENDS RadarFeed

CONSTANTS port, sea, seaRounded, far, aalesund, none, missing

MCPlaces == {port, sea, seaRounded, far}
MCLinkable == {port, sea, seaRounded}
MCRounded == [p \in MCPlaces |-> IF p = sea THEN seaRounded ELSE p]
MCDefaultCentre == [at |-> port, name |-> aalesund]
MCCentres == {MCDefaultCentre, [at |-> sea, name |-> none], [at |-> far, name |-> none]}
=============================================================================
