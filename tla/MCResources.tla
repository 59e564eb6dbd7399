----------------------------- MODULE MCResources -----------------------------
(* Small instances of Resources for TLC. *)
EXTENDS Resources, TLC

CONSTANTS c1, c2

CallSymmetry == Permutations(Calls)
=============================================================================
