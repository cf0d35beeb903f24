--------------------------- MODULE MCDecoderStage ---------------------------
(* Two stations on the same channel and sequence id.  The first sends two    *)
(* messages of two fragments and one of three with it, with a message of one *)
(* sentence in between, and at the end one that lacks its sequence id.       *)
EXTENDS DecoderStage

Parts(text, count, slot) ==
    [i \in 1 .. count |-> [text |-> text, number |-> i, count |-> count, slot |-> slot]]

MCStations == {"north", "south"}
MCSlots == {"A4"}

MCAirings == [st \in MCStations |->
    IF st = "north"
    THEN LET first == Parts("n1", 2, "A4") IN
         <<first[1]>> \o Parts("n2", 1, NoSlot) \o <<first[2]>>
         \o Parts("n3", 2, "A4") \o Parts("n4", 3, "A4") \o Parts("n5", 2, NoSlot)
    ELSE Parts("s1", 2, "A4") \o Parts("s2", 2, "A4")]

MCDecodable == {"n1", "n2", "n3", "n4", "n5", "s1"}
============================================================================
