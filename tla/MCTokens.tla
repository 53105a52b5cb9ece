------------------------------ MODULE MCTokens ------------------------------
(* Instances of AuthTokens for TLC.                                         *)
EXTENDS AuthTokens, TLC

ConnSymmetry == Permutations(Conns) \cup Permutations(Requests)
=============================================================================
