------------------------------- MODULE AgentTurn -------------------------------
(***************************************************************************)
(* The agent's turns, one after another: the model is called, its tool     *)
(* calls are answered in order, consecutive run_subagent calls run as one  *)
(* batch on a thread pool, and the turn ends with an answer, at the        *)
(* iteration limit or with an exception.  A tool (or, in the service, a    *)
(* request thread that saw the session idle) may replace the tools and the *)
(* subagent manager meanwhile.                                             *)
(*                                                                         *)
(* A tool call is its position in the batch the model asked for, a tool    *)
(* message the pair of that position and the run that answers it.          *)
(***************************************************************************)
EXTENDS Naturals, Sequences, FiniteSets

CONSTANTS MaxTurns,       \* bound: turns taken
          MaxIterations,  \* agent.max_iterations
          MaxBatch,       \* bound: tool calls in one reply of the model
          MaxRefreshes,   \* bound: replacements of the runtime's capabilities
          MaxParallel,    \* subagents.max_parallel
          MaxPerTurn,     \* subagents.max_per_turn
          Kinds,          \* the tool calls the model may make, of AllKinds
          Faults          \* what may go wrong, of AllFaults

(* "tool" is any call execute_standard_tool_call answers, with a result or *)
(* an error; "garbled" and "garbledSub" have arguments that are rejected.  *)
AllKinds  == {"tool", "garbled", "subagent", "garbledSub", "submitPlan", "refresh"}

(* "callback": an event callback raises; "interrupt": Ctrl-C, or the       *)
(* reader of a streamed turn goes away; "reload": the reload route.        *)
AllFaults == {"callback", "interrupt", "reload"}

ASSUME AgentAssumption ==
    /\ MaxTurns \in Nat /\ MaxIterations \in Nat \ {0} /\ MaxBatch \in Nat \ {0}
    /\ MaxRefreshes \in Nat /\ MaxParallel \in Nat \ {0} /\ MaxPerTurn \in Nat \ {0}
    /\ Kinds \subseteq AllKinds /\ Faults \subseteq AllFaults

Turns == 1..MaxTurns

VARIABLES pc, turn, iteration,     \* the agent's step, turn and loop counter
          calls, next, messages,   \* the calls asked for, the next, the answers
          schemas,                 \* _cached_tool_schemas is not None
          manager, counts,         \* SubagentManager in use, _per_turn_counts
          runs, thread,            \* SubagentRun records and their futures
          first, awaited,          \* the batch's first run, the one waited for
          ending,                  \* how the turn ends
          log, outcome, context,   \* TurnState.status, what run() did, Context
          reload                   \* the reload route's step

loop   == <<turn, iteration>>
batch  == <<calls, next, messages>>
tools  == <<schemas, manager, counts>>
pool   == <<runs, thread, first, awaited>>
record == <<log, outcome, context>>
vars   == <<pc, loop, batch, tools, pool, ending, record, reload>>

Init == /\ pc = "idle" /\ turn = 0 /\ iteration = 0
        /\ calls = <<>> /\ next = 1 /\ messages = <<>>
        /\ schemas = FALSE /\ manager = 1 /\ counts = [t \in Turns |-> 0]
        /\ runs = <<>> /\ thread = <<>> /\ first = 1 /\ awaited = 1
        /\ ending = "none"
        /\ log = [t \in Turns |-> "none"] /\ outcome = [t \in Turns |-> "none"]
        /\ context = <<>>
        /\ reload = "idle"

-----------------------------------------------------------------------------
(* SessionLogger.finish_turn: the first status stays. *)
Logged(status) == [log EXCEPT ![turn] = IF @ = "open" THEN status ELSE @]

(* run() ends: it returns, raises, or is dropped by its caller; its locals *)
(* go with it.                                                             *)
Over(how) == /\ pc' = "idle"
             /\ outcome' = [outcome EXCEPT ![turn] = how]
             /\ ending' = "none"
             /\ iteration' = 0 /\ calls' = <<>> /\ next' = 1 /\ messages' = <<>>
             /\ UNCHANGED <<turn, tools, runs, first, awaited, context, reload>>

(* _finish_turn_after_exception, and the exception goes on to the caller.  *)
(* The mutant leaves the log's turn to the caller.                         *)
RaiseUnlogged == Over("raised") /\ UNCHANGED log

Raise == Over("raised") /\ log' = Logged("error")

-----------------------------------------------------------------------------
(* _create_turn_state: the log's turn is opened, and the schemas cached    *)
(* when there are none.  It runs before the try block: what it raises      *)
(* leaves the turn open in the log.                                        *)
BeginTurn ==
    /\ pc = "idle" /\ turn < MaxTurns
    /\ turn' = turn + 1
    /\ iteration' = 0
    /\ calls' = <<>> /\ next' = 1 /\ messages' = <<>>
    /\ log' = [log EXCEPT ![turn + 1] = "open"]
    /\ \/ pc' = "model" /\ schemas' = TRUE /\ UNCHANGED outcome
       \/ /\ outcome' = [outcome EXCEPT ![turn + 1] = "unprepared"]
          /\ schemas' \in {schemas, TRUE}
          /\ UNCHANGED pc
    /\ UNCHANGED <<manager, counts, pool, ending, context, reload>>

Batches == UNION {[1..n -> Kinds] : n \in 1..MaxBatch}

(* One iteration's model call: an answer or tool calls.  The mutant's loop *)
(* runs once too often.                                                    *)
Replied(more) ==
    /\ pc = "model" /\ more /\ schemas
    /\ \/ pc' = "append" /\ ending' = "completed" /\ UNCHANGED batch
       \/ /\ calls' \in Batches
          /\ next' = 1 /\ messages' = <<>>
          /\ pc' = "tools" /\ UNCHANGED ending
    /\ iteration' = iteration + 1
    /\ UNCHANGED <<turn, tools, pool, record, reload>>

Reply == Replied(iteration < MaxIterations)

(* The model client raises, or len() of the schemas a refresh has dropped. *)
ReplyRaises == pc = "model" /\ iteration < MaxIterations /\ Raise /\ UNCHANGED thread

IterationLimit ==
    /\ pc = "model" /\ iteration = MaxIterations
    /\ pc' = "append" /\ ending' = "error"
    /\ UNCHANGED <<loop, batch, tools, pool, record, reload>>

-----------------------------------------------------------------------------
(* process_tool_calls: the calls that one step answers. *)
Answer(position, by) == [call |-> position, by |-> by]

AnswerCall == /\ messages' = Append(messages, Answer(next, 0))
              /\ next' = next + 1

NextIs(kinds) == pc = "tools" /\ next <= Len(calls) /\ calls[next] \in kinds

CallTool == /\ NextIs({"tool", "garbled"})
            /\ AnswerCall
            /\ UNCHANGED <<pc, loop, calls, tools, pool, ending, record, reload>>

(* refresh_live_runtime: new tools, and a new manager with empty counts.   *)
Refreshed == /\ manager < MaxRefreshes + 1
             /\ manager' = manager + 1
             /\ counts' = [t \in Turns |-> 0]
             /\ schemas' = FALSE

Refresh == /\ NextIs({"refresh"})
           /\ AnswerCall
           /\ \/ Refreshed
              \/ UNCHANGED tools  \* a ToolResult with an error
           /\ UNCHANGED <<pc, loop, calls, pool, ending, record, reload>>

(* submit_plan ends the turn, unless it answers with an error.  The mutant *)
(* records the error without the message.                                  *)
PlanAccepted == /\ pc' = "append" /\ ending' = "completed"
                /\ UNCHANGED batch

SubmitPlan ==
    /\ NextIs({"submitPlan"})
    /\ \/ PlanAccepted
       \/ AnswerCall /\ UNCHANGED <<pc, calls, ending>>
    /\ UNCHANGED <<loop, tools, pool, record, reload>>

CallsAnswered ==
    /\ pc = "tools" /\ next > Len(calls)
    /\ pc' = "model"
    /\ UNCHANGED <<loop, batch, tools, pool, ending, record, reload>>

-----------------------------------------------------------------------------
(* process_subagent_batch and SubagentManager.run_subagents. *)
SubagentCalls ==
    {p \in next..Len(calls) : \A q \in next..p : calls[q] \in {"subagent", "garbledSub"}}

(* The position of p's request among the valid ones.  The mutant counts    *)
(* the rejected arguments too.                                             *)
RankOfAll(p) == Cardinality({q \in SubagentCalls : q <= p})
Rank(p)      == Cardinality({q \in SubagentCalls : q <= p /\ calls[q] = "subagent"})

Requests == {p \in SubagentCalls : calls[p] = "subagent"}

Smaller(a, b) == IF a < b THEN a ELSE b

(* _reserve_turn_capacity. *)
Allowed == Smaller(Cardinality(Requests), MaxPerTurn - counts[turn])

Request(k) == CHOOSE p \in Requests : Cardinality({q \in Requests : q <= p}) = k

StartBatch ==
    /\ NextIs({"subagent", "garbledSub"})
    /\ counts' = [counts EXCEPT ![turn] = @ + Allowed]
    /\ runs' = runs \o [k \in 1..Allowed |->
                           [turn |-> turn, manager |-> manager,
                            call |-> Request(k), status |-> "running"]]
    /\ thread' = thread \o [k \in 1..Allowed |-> "queued"]
    /\ first' = Len(runs) + 1 /\ awaited' = Len(runs) + 1
    /\ pc' = "collect"
    /\ UNCHANGED <<loop, batch, schemas, manager, ending, record, reload>>

Children == first..Len(runs)
Live(c)  == thread[c] \in {"queued", "running"}

(* The children of c's pool: a turn starts a batch only after the last.    *)
Pool(c) == {d \in 1..Len(runs) : runs[d].turn = runs[c].turn /\ thread[d] # "over"}

(* The executor's workers take the submitted children in order.  The       *)
(* mutant's stop when the batch is left early.                             *)
Started(c) ==
    /\ thread[c] = "queued"
    /\ \A d \in Pool(c) : d < c => thread[d] # "queued"
    /\ Cardinality({d \in Pool(c) : thread[d] = "running"}) < MaxParallel
    /\ thread' = [thread EXCEPT ![c] = "running"]
    /\ UNCHANGED <<pc, loop, batch, tools, runs, first, awaited, ending, record, reload>>

StartWhileCollected(c) == pc = "collect" /\ Started(c)
StartChild(c)          == Started(c)

(* _run_subagent_in_thread returns a report, of success or of failure. *)
ChildEnds(c) ==
    /\ thread[c] = "running"
    /\ thread' = [thread EXCEPT ![c] = "reported"]
    /\ UNCHANGED <<pc, loop, batch, tools, runs, first, awaited, ending, record, reload>>

(* future.result() and _finalize_subagent_run_record, child after child.   *)
Finalize(status) == /\ runs' = [runs EXCEPT ![awaited].status = status]
                    /\ awaited' = awaited + 1

Collect ==
    /\ pc = "collect" /\ awaited \in Children
    /\ ~Live(awaited)
    /\ Finalize("reported")
    /\ UNCHANGED <<pc, loop, batch, tools, thread, first, ending, record, reload>>

(* default_timeout_seconds pass: a queued child is cancelled, a running    *)
(* one goes on.  The mutant forgets future.cancel().                       *)
TimeOutUncancelled ==
    /\ pc = "collect" /\ awaited \in Children
    /\ Live(awaited)
    /\ Finalize("timed_out")
    /\ UNCHANGED <<pc, loop, batch, tools, thread, first, ending, record, reload>>

TimeOut ==
    /\ pc = "collect" /\ awaited \in Children
    /\ Live(awaited)
    /\ Finalize("timed_out")
    /\ thread' = [thread EXCEPT ![awaited] = IF @ = "queued" THEN "cancelled" ELSE @]
    /\ UNCHANGED <<pc, loop, batch, tools, first, ending, record, reload>>

(* The pool's with block is left, by its end, an exception or an           *)
(* interrupt: shutdown(wait=True) lets every child end.  The mutant does   *)
(* not wait.                                                               *)
Unwaited == TRUE
Quiet    == \A c \in Children : ~Live(c)

(* The futures of children that ended are dropped. *)
Settled == thread' = [c \in 1..Len(thread) |-> IF Live(c) THEN thread[c] ELSE "over"]

(* The run that answers call p; 0 for an error payload or a rejection.     *)
AnswerOf(p) ==
    Answer(p, IF calls[p] = "subagent" /\ Rank(p) <= Cardinality(Children)
              THEN first + Rank(p) - 1 ELSE 0)

FinishBatch ==
    /\ pc = "collect" /\ awaited \notin Children
    /\ Quiet
    /\ messages' = messages \o
                     [k \in 1..Cardinality(SubagentCalls) |-> AnswerOf(next + k - 1)]
    /\ next' = next + Cardinality(SubagentCalls)
    /\ pc' = "tools"
    /\ Settled
    /\ UNCHANGED <<loop, calls, tools, runs, first, awaited, ending, record, reload>>

(* The callback that announces a child raises: none is submitted. *)
AnnounceRaises ==
    /\ "callback" \in Faults
    /\ pc = "collect" /\ Children # {}
    /\ awaited = first /\ \A c \in Children : thread[c] = "queued"
    /\ thread' = [c \in 1..Len(thread) |-> IF c \in Children THEN "over" ELSE thread[c]]
    /\ Raise

(* A callback raises as a child is collected, or Ctrl-C arrives. *)
LeaveBatch ==
    /\ pc = "collect" /\ Children # {}
    /\ \/ "callback" \in Faults /\ ending' = "raised"
       \/ "interrupt" \in Faults /\ ending' = "dropped"
    /\ pc' = "drain"
    /\ UNCHANGED <<loop, batch, tools, pool, record, reload>>

Drain == /\ pc = "drain" /\ Quiet
         /\ Settled
         /\ \/ ending = "raised" /\ Raise
            \/ ending = "dropped" /\ Over("dropped") /\ UNCHANGED log

-----------------------------------------------------------------------------
(* _finish_successful_turn and _finish_turn_after_max_iterations: the      *)
(* exchange joins the context, the log's turn is finished, turn_completed  *)
(* is emitted and run() returns.                                           *)
AppendExchange ==
    /\ pc = "append"
    /\ context' = Append(context, turn)
    /\ pc' = "log"
    /\ UNCHANGED <<loop, batch, tools, pool, ending, log, outcome, reload>>

FinishLog ==
    /\ pc = "log"
    /\ log' = Logged(ending)
    /\ pc' = "announce"
    /\ UNCHANGED <<loop, batch, tools, pool, ending, outcome, context, reload>>

Return ==
    /\ pc = "announce"
    /\ Over("returned")
    /\ UNCHANGED <<thread, log>>

CallbackRaises ==
    /\ "callback" \in Faults /\ pc \in {"tools", "announce"}
    /\ Raise /\ UNCHANGED thread

(* Ctrl-C while the with block waits for the children: they go on. *)
InterruptWait ==
    /\ "interrupt" \in Faults
    /\ pc = "drain" \/ (pc = "collect" /\ awaited \notin Children)
    /\ Settled
    /\ Over("dropped")
    /\ UNCHANGED log

(* KeyboardInterrupt and GeneratorExit pass the except clause by. *)
Interrupt ==
    /\ "interrupt" \in Faults /\ pc \in {"model", "tools", "append", "log", "announce"}
    /\ Over("dropped")
    /\ UNCHANGED <<thread, log>>

-----------------------------------------------------------------------------
(* reload_capabilities on a request thread: the busy check under the       *)
(* runtime's lock, then the replacement without it.                        *)
ReloadCheck ==
    /\ "reload" \in Faults /\ reload = "idle" /\ pc = "idle"
    /\ reload' = "checked"
    /\ UNCHANGED <<pc, loop, batch, tools, pool, ending, record>>

ReloadSwap ==
    /\ reload = "checked"
    /\ Refreshed
    /\ reload' = "idle"
    /\ UNCHANGED <<pc, loop, batch, pool, ending, record>>

AgentStep == \/ Reply \/ ReplyRaises \/ IterationLimit
             \/ CallTool \/ Refresh \/ SubmitPlan \/ CallsAnswered
             \/ StartBatch \/ Collect \/ TimeOut \/ FinishBatch \/ Drain
             \/ AppendExchange \/ FinishLog \/ Return

Next == \/ BeginTurn \/ AgentStep
        \/ \E c \in 1..Len(runs) : StartChild(c) \/ ChildEnds(c)
        \/ AnnounceRaises \/ LeaveBatch \/ CallbackRaises \/ Interrupt \/ InterruptWait
        \/ ReloadCheck \/ ReloadSwap

Spec == Init /\ [][Next]_vars

(* The agent runs on a thread of its own, and a child ends: it has an      *)
(* iteration limit and model timeouts of its own.                          *)
FairSpec == /\ Spec
            /\ WF_vars(AgentStep)
            /\ WF_vars(\E c \in 1..Len(runs) : StartChild(c))
            /\ WF_vars(\E c \in 1..Len(runs) : ChildEnds(c))

-----------------------------------------------------------------------------
Statuses == {"none", "open", "completed", "error"}
Outcomes == {"none", "returned", "raised", "dropped", "unprepared"}

(* Every variable has its type.  (A TurnState is finished with a status.)  *)
TypeOK ==
    /\ pc \in {"idle", "model", "tools", "collect", "drain", "append", "log", "announce"}
    /\ turn \in 0..MaxTurns /\ iteration \in 0..MaxIterations
    /\ calls \in Batches \cup {<<>>} /\ next \in 1..(MaxBatch + 1)
    /\ messages \in Seq([call : 1..MaxBatch, by : Nat])
    /\ schemas \in BOOLEAN /\ manager \in 1..(MaxRefreshes + 1)
    /\ counts \in [Turns -> 0..MaxPerTurn]
    /\ runs \in Seq([turn : Turns, manager : 1..(MaxRefreshes + 1), call : 1..MaxBatch,
                     status : {"running", "reported", "timed_out"}])
    /\ thread \in Seq({"queued", "running", "reported", "cancelled", "over"})
    /\ Len(thread) = Len(runs)
    /\ first \in 1..(Len(runs) + 1) /\ awaited \in first..(Len(runs) + 1)
    /\ ending \in {"none", "completed", "error", "raised", "dropped"}
    /\ log \in [Turns -> Statuses] /\ outcome \in [Turns -> Outcomes]
    /\ context \in Seq(Turns)
    /\ reload \in {"idle", "checked"}

(* Whenever the model is called again, each call it made last has exactly  *)
(* one tool message, in the order of the calls: chat APIs refuse a         *)
(* conversation in which one is missing (process_tool_calls).  And the     *)
(* answer to a run_subagent call is the report of the child started for    *)
(* that call and turn, though invalid, rejected and timed out requests of  *)
(* the batch have none (process_subagent_batch, run_subagents).            *)
AnswersMatchCalls ==
    /\ TypeOK
    /\ pc = "model" => /\ Len(messages) = Len(calls)
                       /\ \A p \in 1..Len(calls) : messages[p].call = p
    /\ \A p \in 1..Len(messages) : messages[p].by > 0 =>
         /\ messages[p].by \in 1..Len(runs)
         /\ LET run == runs[messages[p].by]
            IN  /\ run.call = messages[p].call /\ run.turn = turn
                /\ run.status # "running"

(* One manager starts at most max_per_turn children for one turn, over all *)
(* the batches of its iterations, and max_parallel of a batch run at a     *)
(* time (a refresh within the turn brings a second manager, and with it a  *)
(* second allowance).  And no child works in the repository once its batch *)
(* is left: neither a timeout nor an exception lets one run beside the     *)
(* agent's next tool call or turn (the executor's with block).  Ctrl-C     *)
(* does, when it meets the agent waiting for the children to end.          *)
ChildrenContained ==
    /\ \A t \in Turns, m \in 1..manager :
         Cardinality({c \in 1..Len(runs) : runs[c].turn = t /\ runs[c].manager = m}) <= MaxPerTurn
    /\ Cardinality({c \in Children : thread[c] = "running"}) <= MaxParallel
    /\ pc \notin {"collect", "drain"} =>
         \A c \in 1..Len(runs) : Live(c) => outcome[runs[c].turn] = "dropped"

(* The log, the context and the caller agree on a turn's end: a returned   *)
(* turn is logged as completed or at its limit and added its exchange to   *)
(* the context once; a raised one is logged as an error and added none,    *)
(* unless a callback raised after the end was logged (finish_turn); one    *)
(* that was not prepared added none.                                       *)
Occurrences(t) == Cardinality({i \in 1..Len(context) : context[i] = t})
EndIsToldAlike ==
    \A t \in Turns :
        /\ outcome[t] = "returned" => /\ log[t] \in {"completed", "error"}
                                      /\ Occurrences(t) = 1
        /\ outcome[t] = "unprepared" => Occurrences(t) = 0
        /\ outcome[t] = "raised" =>
             /\ log[t] = "error" \/ ("callback" \in Faults /\ log[t] = "completed")
             /\ Occurrences(t) > 0 => "callback" \in Faults

(* A child the agent has given up on never starts: its request was         *)
(* answered with a timeout (future.cancel in _run_prepared_subagents).     *)
GivenUpNeverStarts ==
    [][\A c \in 1..Len(thread) :
          thread[c] = "queued" /\ thread'[c] = "running" => runs[c].status = "running"]_vars

(* Every turn ends, however many children time out: leaving the pool waits *)
(* for them, and they end.                                                 *)
TurnsEnd == pc # "idle" ~> pc = "idle"

(* A turn whose tool refreshed the capabilities goes on: its next model    *)
(* call has tool schemas (tools/runtime_refresh.py:15).                    *)
ModelCallHasSchemas == pc = "model" => schemas
=============================================================================
