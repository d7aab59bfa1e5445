---------------------------- MODULE MCTurnStream ----------------------------
(* Small instances of TurnStream for TLC. *)
EXTENDS TurnStream, TLC

Symmetry == Permutations(Turns) \cup Permutations(Readers)
=============================================================================
