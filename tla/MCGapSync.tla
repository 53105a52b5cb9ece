----------------------------- MODULE MCGapSync -----------------------------
(* Instances of GapSync for TLC.                                            *)
EXTENDS GapSync

(* Two faults with one gap, none with two at a time. *)
FaultsBySeq == [n \in 0..MaxSeq |-> IF n <= 2 THEN 2 ELSE 0]
=============================================================================
