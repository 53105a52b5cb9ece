----------------------------- MODULE MCAccount -----------------------------
(* Instances of AccountSession for TLC.                                     *)
EXTENDS AccountSession

(* Everything works and nobody calls tick(), as in the app today. *)
Calm == [saves |-> {TRUE}, signs |-> {TRUE}, ticks |-> FALSE]
(* The token store and the device key may fail, tokens are refreshed. *)
Rough == [saves |-> BOOLEAN, signs |-> BOOLEAN, ticks |-> TRUE]
(* The store works, the key may fail. *)
Keyless == [saves |-> {TRUE}, signs |-> BOOLEAN, ticks |-> FALSE]
(* Store and key may fail, nobody calls tick(). *)
Plain == [saves |-> BOOLEAN, signs |-> BOOLEAN, ticks |-> FALSE]

Platforms == {Rough, Keyless, Plain}
Best == {Calm}
=============================================================================
