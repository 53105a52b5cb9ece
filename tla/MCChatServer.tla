---------------------------- MODULE MCChatServer ----------------------------
(* Small instances of ChatServer: two friends, m1 from a to b and b's media *)
(* reply m2; b has two connections.                                         *)
EXTENDS ChatServer, TLC

CONSTANTS a, b, a1, b1, b2, m1, m2

(* The conversation of a and b: m1 goes to b, m2 is b's reply. *)
FromOf == [m \in Msgs |-> IF m = m1 THEN a ELSE b]
ToOf   == [m \in Msgs |-> IF m = m1 THEN b ELSE a]
HomeOf == [c \in Conns |-> IF c = a1 THEN a ELSE b]

(* All of it at once is too large for TLC: a behaviour either uses one     *)
(* connection each and no restart, or leaves m2 and the friendship alone.  *)
Scenario == \/ conn[b2] = "new" /\ restarts = 0
            \/ sends[m2] = 0 /\ upload[m2] = "none" /\ Pair(m2) \in friends
=============================================================================
