-------------------------- MODULE MCSessionServer --------------------------
(* Small instances of SessionServer for TLC. *)
EXTENDS SessionServer, TLC

Symmetry == Permutations(Turns) \cup Permutations(Runtimes) \cup Permutations(Handlers)
=============================================================================
