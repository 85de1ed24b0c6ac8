------------------------- MODULE MCRecordingSessions -------------------------
(***************************************************************************)
(* Sessions for TLC: a batch of two clips, then the first of them again.   *)
(***************************************************************************)
EXTENDS RecordingSessions

MCSelections == [s \in Sessions |-> IF s = 1 THEN {Clips} ELSE {{Min(Clips)}}]
=============================================================================
