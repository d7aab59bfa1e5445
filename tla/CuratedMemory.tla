----------------------------- MODULE CuratedMemory -----------------------------
(***************************************************************************)
(* What the curated memory of a session promises its clients while they    *)
(* take turns: a set of entries that each request changes in one step, and *)
(* settings of which a request changes one field.  Nothing is promised     *)
(* once an operation has acted on what another one changed meanwhile.      *)
(***************************************************************************)
EXTENDS Naturals

CONSTANT Titles

VARIABLES entries, settings, trusted

mvars == <<entries, settings, trusted>>

Statuses == {"active", "archived", "superseded"}

MInit == entries = {} /\ trusted = TRUE

(* One entry gives way to another that keeps its identity. *)
Rewrite == \E old \in entries, new \in entries' :
             /\ new.id = old.id
             /\ entries' = (entries \ {old}) \cup {new}

(* A new entry, with an id no entry has and nothing it replaces. *)
Remember == \E new \in entries' :
              /\ \A e \in entries : e.id # new.id /\ e.title # new.title
              /\ new.status = "active" /\ new.supersedes = 0
              /\ entries' = entries \cup {new}

(* An entry is retired, its text untouched, and a new one replaces it. *)
Supersede == \E old \in entries, new \in entries' :
               /\ \A e \in entries : e.id # new.id
               /\ new.status = "active" /\ new.supersedes = old.id
               /\ entries' = (entries \ {old})
                               \cup {[old EXCEPT !.status = "superseded"], new}

Forget == \E old \in entries : entries' = {e \in entries : e.id # old.id}

(* A person adds an entry by hand, which gets the id of its title. *)
WriteByHand == \E t \in Titles, new \in entries' :
                 /\ new.title = t /\ new.id = t /\ new.status = "active"
                 /\ entries' = entries \cup {new}

(* The session is deleted. *)
Clear == entries' = {}

SetOneField == \E field \in {"mode", "policy"} :
                 \A other \in {"mode", "policy"} \ {field} :
                   settings'[other] = settings[other]

MNext == \/ /\ Rewrite \/ Remember \/ Supersede \/ Forget \/ WriteByHand \/ Clear
            /\ UNCHANGED <<settings, trusted>>
         \/ SetOneField /\ UNCHANGED <<entries, trusted>>
         \/ Clear /\ UNCHANGED trusted
         \/ trusted' = FALSE

MSpec == MInit /\ [][MNext]_mvars
================================================================================
