------------------------- MODULE MCSessionTranscript -------------------------
(* Small instances of SessionTranscript for TLC. *)
EXTENDS SessionTranscript, TLC

Symmetry == Permutations(Readers)
=============================================================================
