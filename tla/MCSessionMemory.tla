---------------------------- MODULE MCSessionMemory ----------------------------
(* One session's memory for TLC: the agent's thread and a request thread.   *)
EXTENDS SessionMemory, TLC

Symmetry == Permutations(Titles)
================================================================================
