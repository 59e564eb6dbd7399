---------------------------- MODULE MCMemoryTurn ----------------------------
(* Small instances of MemoryTurn for TLC. *)
EXTENDS MemoryTurn, TLC

CONSTANTS c1, c2

CallSymmetry == Permutations(Calls)
=============================================================================
