------------------------------ MODULE MCCutover ------------------------------
(* The instance of Cutover that is model-checked: both messages belong to   *)
(* the one conversation.                                                    *)
EXTENDS Cutover

MCConvOf == [m \in 1 .. NumMsgs |-> NumMsgs + 1]
=============================================================================
