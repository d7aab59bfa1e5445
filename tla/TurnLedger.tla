----------------------------- MODULE TurnLedger -----------------------------
(***************************************************************************)
(* What the HTTP service promises of its persisted sessions and turns,     *)
(* without threads, queues or locks: a session is opened, closed or rolled *)
(* back, a turn is accepted only by an active session with no other turn   *)
(* in flight, and moves forward once to a terminal status.                 *)
(***************************************************************************)
CONSTANTS Sessions, Turns, None

VARIABLES sess,      \* state of each session row
          turn,      \* status of each turn row
          turnSess   \* turns.session_id

ledger == <<sess, turn, turnSess>>

InFlight(t) == turn[t] \in {"queued", "running"}

(* No turn of session s is queued or running. *)
Idle(s) == \A t \in Turns : turnSess[t] = s => ~InFlight(t)

Init == /\ sess = [s \in Sessions |-> "absent"]
        /\ turn = [t \in Turns |-> "none"]
        /\ turnSess = [t \in Turns |-> None]

Open(s) == /\ sess[s] = "absent"
           /\ sess' = [sess EXCEPT ![s] = "active"]
           /\ UNCHANGED <<turn, turnSess>>

Close(s) == /\ sess[s] = "active"
            /\ sess' = [sess EXCEPT ![s] = "closed"]
            /\ UNCHANGED <<turn, turnSess>>

(* A session whose runtime could not be built takes its rows with it. *)
RollBack(s) ==
    /\ sess[s] # "absent"
    /\ sess' = [sess EXCEPT ![s] = "deleted"]
    /\ turn' = [t \in Turns |-> IF turnSess[t] = s THEN "deleted" ELSE turn[t]]
    /\ UNCHANGED turnSess

Accept(t, s) == /\ turn[t] = "none"
                /\ sess[s] = "active"
                /\ Idle(s)
                /\ turn' = [turn EXCEPT ![t] = "queued"]
                /\ turnSess' = [turnSess EXCEPT ![t] = s]
                /\ UNCHANGED sess

Begin(t) == /\ turn[t] = "queued"
            /\ turn' = [turn EXCEPT ![t] = "running"]
            /\ UNCHANGED <<sess, turnSess>>

Finish(t) == /\ \/ turn[t] = "running" /\ turn' = [turn EXCEPT ![t] = "completed"]
                \/ InFlight(t) /\ turn' = [turn EXCEPT ![t] = "failed"]
             /\ UNCHANGED <<sess, turnSess>>

(* A restart fails everything that was in flight. *)
Recover == /\ turn' = [t \in Turns |-> IF InFlight(t) THEN "failed" ELSE turn[t]]
           /\ UNCHANGED <<sess, turnSess>>

Next == \/ \E s \in Sessions : Open(s) \/ Close(s) \/ RollBack(s)
        \/ \E t \in Turns, s \in Sessions : Accept(t, s)
        \/ \E t \in Turns : Begin(t) \/ Finish(t)
        \/ Recover

Spec == Init /\ [][Next]_ledger
=============================================================================
