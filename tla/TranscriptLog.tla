---------------------------- MODULE TranscriptLog ----------------------------
(***************************************************************************)
(* What a persisted session promises of its conversation, without worker,  *)
(* context, counters or crashes: one log of exchanges that only grows at   *)
(* its end, whose beginning may be folded into a summary, and of which at  *)
(* least the newest exchange stays word for word.                          *)
(***************************************************************************)
EXTENDS Naturals, Sequences

VARIABLES log,     \* the exchanges the session remembers, oldest first
          folded   \* how many of them only the summary remembers

Extends(new, old) == /\ Len(old) <= Len(new)
                     /\ SubSeq(new, 1, Len(old)) = old

Init == log = <<>> /\ folded = 0

(* A turn is saved: new exchanges at the end, older ones folded away. *)
Save == /\ Extends(log', log)
        /\ folded' \in folded..(Len(log') - 1)

Spec == Init /\ [][Save]_<<log, folded>>
=============================================================================
