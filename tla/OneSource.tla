------------------------------ MODULE OneSource ------------------------------
(***************************************************************************)
(* What the cutover from the old store (Room) to the native store promises *)
(* (outputs/kernel-round7-adr-cutover.md, ADR-03): at any moment one store *)
(* at most accepts writes, the change is one-way, and the account's data   *)
(* is the same on both sides of it.  Cutover.tla implements this.          *)
(***************************************************************************)
EXTENDS Integers

CONSTANTS Rows,      \* the rows of an account: messages and conversations
          Contents   \* what a row may hold; 0 is a row that does not exist

VARIABLES owner,     \* "room", "nobody" (writing is suspended) or "native"
          data       \* what the account's owner, or last owner, holds

vars == <<owner, data>>

Init ==
  /\ owner = "room"
  /\ data = [r \in Rows |-> 0]

Write ==
  /\ owner \in {"room", "native"}
  /\ \E r \in Rows, c \in Contents \ {0} : data' = [data EXCEPT ![r] = c]
  /\ UNCHANGED owner

Suspend == owner = "room"   /\ owner' = "nobody" /\ UNCHANGED data
Resume  == owner = "nobody" /\ owner' = "room"   /\ UNCHANGED data
Switch  == owner = "nobody" /\ owner' = "native" /\ UNCHANGED data

Next == Write \/ Suspend \/ Resume \/ Switch

Spec == Init /\ [][Next]_vars
=============================================================================
