--------------------------- MODULE MCAppControls ---------------------------
(* Two names, one of them also with a blank after it, and one ship or two. *)
EXTENDS AppControls

CONSTANTS empty, bodo, bodoBlank, bergen, place

MCTexts == {empty, bodo, bodoBlank, bergen}
MCTrimmed == [t \in MCTexts |-> IF t = bodoBlank THEN bodo ELSE t]
MCActive == {bodo, bergen}
MCResults == {<<>>, <<place>>}
=============================================================================
