--------------------------- MODULE SessionTranscript ---------------------------
(***************************************************************************)
(* The conversation of one HTTP session: the agent's in-memory context,    *)
(* its compaction, the rows the worker saves after a completed turn, what  *)
(* a failed turn leaves behind, and the context a restart rebuilds from    *)
(* the rows.                                                               *)
(*                                                                         *)
(* The user and the assistant message of a turn are added and saved        *)
(* together, so a turn's number stands for both (an exchange), and the     *)
(* counts below are half the code's.  A summary's text is abstracted to    *)
(* the exchanges it was made from.  SessionServer shows that one thread at *)
(* a time works on a session.                                              *)
(***************************************************************************)
EXTENDS Naturals, Sequences, FiniteSets

CONSTANTS MaxTurns,   \* bound: turns accepted; they are numbered 1..MaxTurns
          MinRecent,  \* policy.min_recent_turns
          Readers     \* requests for the session's detail

ASSUME TranscriptAssumption == MaxTurns \in Nat /\ MinRecent \in Nat \ {0}

Turns == 1..MaxTurns

VARIABLES status,                \* turns.status
          pc, current,           \* the worker's step and its turn
          messages, summary,     \* Context.messages and Context.summary
          persistedCount,        \* _persisted_message_count
          persistedCompactions,  \* _persisted_compaction_count
          rows, dbSummary,       \* the messages table and sessions.summary_json
          rpc, seen,             \* reader -> its step and the detail it read
          asked                  \* history: what was saved when it asked

context  == <<messages, summary>>
counters == <<persistedCount, persistedCompactions>>
database == <<rows, dbSummary>>
details  == <<rpc, seen, asked>>
vars     == <<status, pc, current, context, counters, database, details>>

(* compaction_count, and what went into the summary; 0 when there is none. *)
NoSummary == [count |-> 0, covered |-> <<>>]
NoDetail  == [covered |-> <<>>, messages |-> <<>>]

(* _insert_message for the exchanges of msgs from position first on. *)
Rows(msgs, first, t) == {[seq |-> i, exchange |-> msgs[i], turn |-> t] : i \in first..Len(msgs)}

(* SELECT ... ORDER BY seq, which RowsAreNumbered makes a sequence. *)
InOrder(table) == [i \in 1..Cardinality(table) |->
                      (CHOOSE row \in table : row.seq = i).exchange]

(* All the session remembers: in the database, and in the context. *)
Saved      == dbSummary.covered \o InOrder(rows)
Remembered == summary.covered \o messages

Init == /\ status = [t \in Turns |-> "none"]
        /\ pc = "off" /\ current = 0
        /\ messages = <<>> /\ summary = NoSummary
        /\ persistedCount = 0 /\ persistedCompactions = 0
        /\ rows = {} /\ dbSummary = NoSummary
        /\ rpc = [c \in Readers |-> "idle"]
        /\ seen = [c \in Readers |-> NoDetail] /\ asked = [c \in Readers |-> <<>>]

-----------------------------------------------------------------------------
(* A runtime is built for the session: _build_context_from_snapshot, and   *)
(* the two counters of SessionRuntime.__init__.  The mutants forget the    *)
(* summary and the messages already saved.                                 *)

Hydrated(msgs, sum, count) ==
    /\ pc = "off"
    /\ pc' = "idle"
    /\ messages' = msgs
    /\ summary' = sum
    /\ persistedCount' = count
    /\ persistedCompactions' = sum.count
    /\ UNCHANGED <<status, current, database, details>>

HydrateForgetful == Hydrated(InOrder(rows), NoSummary, Cardinality(rows))
HydrateUncounted == Hydrated(InOrder(rows), dbSummary, 0)
Hydrate          == Hydrated(InOrder(rows), dbSummary, Cardinality(rows))

(* submit_turn and set_turn_running. *)
Submit(t) ==
    /\ pc = "idle"
    /\ status[t] = "none" /\ \A u \in 1..(t - 1) : status[u] # "none"
    /\ status' = [status EXCEPT ![t] = "running"]
    /\ current' = t
    /\ pc' = "start"
    /\ UNCHANGED <<context, counters, database, details>>

-----------------------------------------------------------------------------
(* Agent._create_turn_state: compaction, when token estimates ask for it.  *)

(* The exchanges _build_plan may evict: all but the MinRecent newest, and  *)
(* never all of them. *)
Evictable == LET n == Len(messages)
                 keep == IF MinRecent < n - 1 THEN MinRecent ELSE n - 1
             IN IF n < 2 THEN 0 ELSE n - keep

(* compact_now on the k oldest; the mutant keeps the last of them raw too. *)
CompactedTo(k, retained) ==
    /\ pc = "start"
    /\ k <= Evictable
    /\ summary' = [count   |-> summary.count + 1,
                   covered |-> summary.covered \o SubSeq(messages, 1, k)]
    /\ messages' = retained
    /\ pc' = "agent"
    /\ UNCHANGED <<status, current, counters, database, details>>

CompactOverlapping(k) == CompactedTo(k, SubSeq(messages, k, Len(messages)))
Compact(k)            == CompactedTo(k, SubSeq(messages, k + 1, Len(messages)))

SkipCompaction ==
    /\ pc = "start"
    /\ pc' = "agent"
    /\ UNCHANGED <<status, current, context, counters, database, details>>

(* _append_completed_turn_to_context, with the final answer or with the    *)
(* apology of a turn that ran out of iterations.                           *)
Answer ==
    /\ pc = "agent"
    /\ messages' = Append(messages, current)
    /\ pc' = "persist"
    /\ UNCHANGED <<status, current, summary, counters, database, details>>

(* The run raises: in the model or a tool, once it has answered, or in a   *)
(* database write.  What the context holds by then stays there.            *)
Raise ==
    /\ pc \in {"start", "agent", "persist", "finish"}
    /\ pc' = "fail"
    /\ UNCHANGED <<status, current, context, counters, database, details>>

-----------------------------------------------------------------------------
(* SessionRuntime._persist_completed_turn_snapshot: one transaction, and   *)
(* then the counters.                                                      *)

(* Can the saved rows not be extended; the mutant looks at lengths only. *)
Shorter       == Len(messages) < persistedCount
ShouldReplace == summary.count > persistedCompactions \/ Len(messages) < persistedCount

(* replace_session_snapshot. *)
Replaced == Rows(messages, 1, current)

(* append_session_snapshot_delta. *)
Appended == rows \cup Rows(messages, persistedCount + 1, current)

Persist ==
    /\ pc = "persist"
    /\ rows' = IF ShouldReplace THEN Replaced ELSE Appended
    /\ dbSummary' = summary
    /\ persistedCount' = Len(messages)
    /\ persistedCompactions' = summary.count
    /\ pc' = "finish"
    /\ UNCHANGED <<status, current, context, details>>

(* The turn ends: finish_turn_success, finish_turn_failure.  The mutant    *)
(* writes the event's name into the row.                                   *)
Settle(from, outcome) ==
    /\ pc = from
    /\ status' = [status EXCEPT ![current] = outcome]
    /\ pc' = "idle"
    /\ UNCHANGED <<current, context, counters, database, details>>

FinishTurnSuccess == Settle("finish", "completed")
FinishTurnFailure == Settle("fail", "failed")

(* finish_turn_failure raises and the worker's thread ends. *)
WorkerDies ==
    /\ pc = "fail"
    /\ pc' = "dead"
    /\ UNCHANGED <<status, current, context, counters, database, details>>

(* The process ends, by a crash or not, and starts again: memory is lost   *)
(* and mark_incomplete_turns_failed runs before any request.               *)
Restart ==
    /\ pc # "off"
    /\ pc' = "off"
    /\ status' = [t \in Turns |-> IF status[t] = "running" THEN "failed" ELSE status[t]]
    /\ messages' = <<>> /\ summary' = NoSummary
    /\ persistedCount' = 0 /\ persistedCompactions' = 0
    /\ rpc' = [c \in Readers |-> "idle"]
    /\ seen' = [c \in Readers |-> NoDetail] /\ asked' = [c \in Readers |-> <<>>]
    /\ current' = 0
    /\ UNCHANGED database

-----------------------------------------------------------------------------
(* GET /sessions/{id}: _read_session_snapshot's two SELECTs run on one     *)
(* connection but outside any transaction.                                 *)

ReadSession(c) ==
    /\ rpc[c] = "idle"
    /\ rpc' = [rpc EXCEPT ![c] = "messages"]
    /\ seen' = [seen EXCEPT ![c].covered = dbSummary.covered]
    /\ asked' = [asked EXCEPT ![c] = Saved]
    /\ UNCHANGED <<status, pc, current, context, counters, database>>

ReadMessages(c) ==
    /\ rpc[c] = "messages"
    /\ rpc' = [rpc EXCEPT ![c] = "answered"]
    /\ seen' = [seen EXCEPT ![c].messages = InOrder(rows)]
    /\ UNCHANGED <<status, pc, current, context, counters, database, asked>>

-----------------------------------------------------------------------------
Next == \/ Hydrate
        \/ \E t \in Turns : Submit(t) \/ Compact(t)
        \/ SkipCompaction \/ Answer \/ Raise \/ Persist
        \/ FinishTurnSuccess \/ FinishTurnFailure \/ WorkerDies \/ Restart
        \/ \E c \in Readers : ReadSession(c) \/ ReadMessages(c)

Spec == Init /\ [][Next]_vars

-----------------------------------------------------------------------------
(* Properties *)

Summaries == [count : Nat, covered : Seq(Turns)]

TypeOK ==
    /\ status \in [Turns -> {"none", "running", "completed", "failed"}]
    /\ pc \in {"off", "idle", "start", "agent", "persist", "finish", "fail", "dead"}
    /\ current \in Turns \cup {0}
    /\ messages \in Seq(Turns) /\ summary \in Summaries
    /\ persistedCount \in Nat /\ persistedCompactions \in Nat
    /\ rows \subseteq [seq : Turns, exchange : Turns, turn : Turns]
    /\ dbSummary \in Summaries
    /\ rpc \in [Readers -> {"idle", "messages", "answered"}]
    /\ seen \in [Readers -> [covered : Seq(Turns), messages : Seq(Turns)]]
    /\ asked \in [Readers -> Seq(Turns)]

(* The worker's idea of what is saved is what is saved, from the moment a  *)
(* runtime is built until it dies: the choice between append and replace   *)
(* rests on it.  The messages table has no unique key on (session_id,      *)
(* seq): however appends, replacements, failed turns and restarts          *)
(* alternate, a session's rows are numbered 1, 2, 3... without gap or      *)
(* repetition.                                                             *)
CountersMatchRows ==
    /\ TypeOK
    /\ pc # "off" => /\ persistedCount = Cardinality(rows)
                     /\ persistedCompactions = dbSummary.count
    /\ {row.seq : row \in rows} = 1..Cardinality(rows)
    /\ \A a, b \in rows : a.seq = b.seq => a = b

(* The saved conversation, summary first, is in the order of the turns,    *)
(* has no exchange twice, and has that of every completed turn: neither    *)
(* compaction nor a failed turn nor a crash between the snapshot and the   *)
(* turn's status loses or repeats one.                                     *)
NothingLost ==
    /\ \A i, j \in 1..Len(Saved) : i < j => Saved[i] < Saved[j]
    /\ \A t \in Turns : status[t] = "completed" =>
           \E i \in 1..Len(Saved) : Saved[i] = t

(* The context of a running session continues what is saved. *)
ContextContinues ==
    pc # "off" => /\ Len(Saved) <= Len(Remembered)
                  /\ SubSeq(Remembered, 1, Len(Saved)) = Saved

(* What the database holds is a log that only grows at its end: a later    *)
(* save, by this process or the next, never rewrites what an earlier one   *)
(* made durable, and compaction never folds the newest exchange.           *)
Log == INSTANCE TranscriptLog WITH log <- Saved, folded <- Len(dbSummary.covered)
LogSpec == Log!Spec

(* "Return persisted transcript": a session's detail has every exchange    *)
(* that was saved when it was asked for, in the summary or word for word.  *)
DetailIsWhole ==
    \A c \in Readers : rpc[c] = "answered" =>
        \A i \in 1..Len(asked[c]) :
            \E j \in 1..Len(seen[c].covered \o seen[c].messages) :
                (seen[c].covered \o seen[c].messages)[j] = asked[c][i]
=============================================================================
