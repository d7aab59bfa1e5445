---------------------------- MODULE SessionServer ----------------------------
(***************************************************************************)
(* The multi-session HTTP service: request handlers on the thread pool,    *)
(* the registry that lazily builds one runtime per session, the worker     *)
(* thread of every runtime, and the sessions and turns tables.             *)
(*                                                                         *)
(* Every step is one critical section or one database transaction of the   *)
(* code, so the interleavings are those of the threads.  Faults names the  *)
(* failures a run allows:                                                  *)
(*   "db"           a database write raises                                *)
(*   "build"        SessionRuntime(...) raises                             *)
(*   "joinTimeout"  close() gives up waiting for the worker                *)
(*   "drainTimeout" shutdown starts while requests are still running       *)
(*   "crash"        the process dies at any point                          *)
(*   "rival"        a second server process starts on the same database    *)
(* An agent run that raises is ordinary behaviour and always allowed.      *)
(***************************************************************************)
EXTENDS Naturals, Sequences, FiniteSets

CONSTANTS Sessions,   \* session ids; an id is used for one session only
          Turns,      \* turn ids (bound: turns ever accepted)
          Runtimes,   \* SessionRuntime objects (bound: built between restarts)
          Handlers,   \* request threads
          None,       \* Python's None
          Stop,       \* the _TURN_STOP queue item
          Faults      \* the failures allowed

FaultKinds == {"db", "build", "joinTimeout", "drainTimeout", "crash", "rival"}

ASSUME ConstantsAssumption ==
    /\ None \notin Sessions \cup Turns \cup Runtimes \cup Handlers
    /\ Stop \notin Turns
    /\ Faults \subseteq FaultKinds

VARIABLES phase,         \* the process: "down", "up" or "stopping"
          sess, turn, turnSess,  \* the sessions and turns tables
          dir,           \* does the session's directory exist on disk
          registry,      \* SessionRegistry._runtimes
          initializing,  \* SessionRegistry._initializing: who set the Event
          hpc, hop, hsess, hrt,  \* handlers: step, request, session, runtime
          rsess,         \* runtime -> session_id, None while not built
          closed,        \* _closed
          queue,         \* _turn_queue
          pending,       \* _pending_turn_count
          active,        \* _active_turn_id
          wpc            \* step of the worker thread

tables   == <<sess, turn, turnSess>>
reg      == <<registry, initializing>>
handlers == <<hpc, hop, hsess, hrt>>
runtimes == <<rsess, closed, queue, pending, active, wpc>>
vars     == <<phase, tables, dir, reg, handlers, runtimes>>

InFlight(t) == turn[t] \in {"queued", "running"}
Step(r, p)  == wpc' = [wpc EXCEPT ![r] = p]

(* A handler moves on, or returns and drops its locals. *)
Locals(h, p, r) ==
    IF p = "idle"
    THEN /\ hop' = [hop EXCEPT ![h] = "none"]
         /\ hsess' = [hsess EXCEPT ![h] = None]
         /\ hrt' = [hrt EXCEPT ![h] = None]
    ELSE /\ hrt' = [hrt EXCEPT ![h] = r]
         /\ UNCHANGED <<hop, hsess>>
GotoWith(h, p, r) == hpc' = [hpc EXCEPT ![h] = p] /\ Locals(h, p, r)
Goto(h, p) == GotoWith(h, p, hrt[h])

(* is_busy; the mutant forgets the turns that still wait in the queue. *)
BusyWhenRunning(r) == active[r] # None
Busy(r) == active[r] # None \/ pending[r] > 0

(* The two guards of submit_turn; the mutant forgets the first. *)
AcceptingIfIdle(r) == ~Busy(r)
Accepting(r) == ~closed[r] /\ ~Busy(r)

(* _require_active_session; the mutant only asks that the row exists. *)
SessionExists(s) == sess[s] # "deleted"
SessionActive(s) == sess[s] = "active"

(* May a thread construct s's runtime; the mutant ignores other builders. *)
NotLoaded(s) == registry[s] = None
Claimable(s) == registry[s] = None /\ initializing[s] = None

(* The threads an Event.set() wakes; the mutant forgets the call. *)
NobodyWoken(s) == {}
Woken(s) == {x \in Handlers : hpc[x] = "wait" /\ hsess[x] = s}

(* What close() waits for; the mutant does not join the worker. *)
NotJoined(r) == TRUE
WorkerEnded(r) == wpc[r] = "stopped"

(* Where a request goes once ensure_runtime returns, and once it raises. *)
Returned(h) == IF hop[h] = "turn" THEN "submit" ELSE "idle"
Raised(h)   == IF hop[h] = "create" THEN "rollback" ELSE "idle"

OfHandlers(v) == [h \in Handlers |-> v]
OfRuntimes(v) == [r \in Runtimes |-> v]
OfSessions(v) == [s \in Sessions |-> v]

Init == /\ phase = "down"
        /\ sess = OfSessions("absent") /\ dir = OfSessions(FALSE)
        /\ turn = [t \in Turns |-> "none"] /\ turnSess = [t \in Turns |-> None]
        /\ registry = OfSessions(None) /\ initializing = OfSessions(None)
        /\ hpc = OfHandlers("idle") /\ hop = OfHandlers("none")
        /\ hsess = OfHandlers(None) /\ hrt = OfHandlers(None)
        /\ rsess = OfRuntimes(None) /\ closed = OfRuntimes(FALSE)
        /\ queue = OfRuntimes(<<>>) /\ pending = OfRuntimes(0)
        /\ active = OfRuntimes(None) /\ wpc = OfRuntimes("none")

-----------------------------------------------------------------------------
(* Requests arrive on an idle thread. *)

Begin(h, op, s, pc) ==
    /\ phase = "up"
    /\ hpc[h] = "idle"
    /\ hop' = [hop EXCEPT ![h] = op]
    /\ hsess' = [hsess EXCEPT ![h] = s]
    /\ hpc' = [hpc EXCEPT ![h] = pc]
    /\ UNCHANGED <<phase, hrt, turn, turnSess, dir, reg, runtimes>>

(* POST /sessions: the row is inserted, then ensure_runtime is called. *)
CreateSession(h, s) == /\ sess[s] = "absent"
                       /\ sess' = [sess EXCEPT ![s] = "active"]
                       /\ Begin(h, "create", s, "check")

(* Bound: a turn request starts only while a turn id is left for it. *)
TurnIdsLeft == Cardinality({t \in Turns : turn[t] = "none"})
                 > Cardinality({h \in Handlers : hop[h] = "turn"})

(* POST /sessions/{id}/turns *)
CreateTurn(h, s) == /\ sess[s] # "absent"
                    /\ TurnIdsLeft
                    /\ Begin(h, "turn", s, "check")
                    /\ UNCHANGED sess

(* DELETE /sessions/{id}: an unknown id is a 404. *)
DeleteSession(h, s) == /\ sess[s] \in {"active", "closed"}
                       /\ Begin(h, "delete", s, "closeDb")
                       /\ UNCHANGED sess

-----------------------------------------------------------------------------
(* SessionRegistry.ensure_runtime *)

(* _require_active_session on entry and after every wait. *)
RequireActive(h) ==
    /\ hpc[h] \in {"check", "recheck"}
    /\ Goto(h, IF SessionActive(hsess[h]) THEN "lookup" ELSE Raised(h))
    /\ UNCHANGED <<phase, tables, dir, reg, runtimes>>

(* Under the lock: return the runtime, wait for its builder, or build it. *)
Lookup(h) ==
    LET s == hsess[h] IN
    /\ hpc[h] = "lookup"
    /\ \/ /\ registry[s] # None
          /\ GotoWith(h, Returned(h), registry[s])
          /\ UNCHANGED initializing
       \/ /\ registry[s] = None /\ initializing[s] # None
          /\ Goto(h, "wait")
          /\ UNCHANGED initializing
       \/ /\ Claimable(s)
          /\ initializing' = [initializing EXCEPT ![s] = h]
          /\ Goto(h, "build")
    /\ UNCHANGED <<phase, tables, dir, registry, runtimes>>

(* SessionRuntime(...): the worker starts at once. *)
Build(h) ==
    /\ hpc[h] = "build"
    /\ sess[hsess[h]] # "deleted"
    /\ \E r \in Runtimes :
          /\ rsess[r] = None
          /\ rsess' = [rsess EXCEPT ![r] = hsess[h]]
          /\ Step(r, "get")
          /\ GotoWith(h, "confirm", r)
    /\ UNCHANGED <<phase, tables, dir, reg,
                   closed, queue, pending, active>>

(* The constructor raises: no snapshot row, or the resources fail. *)
BuildFails(h) ==
    /\ hpc[h] = "build"
    /\ sess[hsess[h]] = "deleted" \/ "build" \in Faults
    /\ Goto(h, "releaseFail")
    /\ UNCHANGED <<phase, tables, dir, reg, runtimes>>

(* The second _require_active_session, outside the lock. *)
Confirm(h) ==
    /\ hpc[h] = "confirm"
    /\ Goto(h, IF SessionActive(hsess[h]) THEN "install" ELSE "close")
    /\ UNCHANGED <<phase, tables, dir, reg, runtimes>>

(* runtime.close() on r, up to its join; the mutant's stop overtakes what  *)
(* is queued.                                                              *)
StopOvertakes(r) ==
    /\ closed' = [closed EXCEPT ![r] = TRUE]
    /\ queue' = IF closed[r] THEN queue ELSE [queue EXCEPT ![r] = <<Stop>> \o @]
SignalStop(r) ==
    /\ closed' = [closed EXCEPT ![r] = TRUE]
    /\ queue' = IF closed[r] THEN queue ELSE [queue EXCEPT ![r] = Append(@, Stop)]

(* Under the lock: publish the runtime, or yield to one already there. *)
Install(h) ==
    LET s == hsess[h]
        r == hrt[h]
    IN /\ hpc[h] = "install"
       /\ IF registry[s] = None
          THEN /\ registry' = [registry EXCEPT ![s] = r]
               /\ Goto(h, "release")
               /\ UNCHANGED <<closed, queue>>
          ELSE /\ SignalStop(r)
               /\ GotoWith(h, "release", registry[s])
               /\ UNCHANGED registry
       /\ UNCHANGED <<phase, tables, dir, initializing,
                      rsess, pending, active, wpc>>

(* The finally block: drop the Event and set it, waking its waiters. *)
Release(h) ==
    LET s == hsess[h]
        next == IF hpc[h] = "release" THEN Returned(h) ELSE Raised(h)
    IN /\ hpc[h] \in {"release", "releaseFail"}
       /\ initializing' = [initializing EXCEPT ![s] = None]
       /\ hpc' = [x \in Handlers |->
                    IF x = h THEN next
                    ELSE IF x \in Woken(s) THEN "recheck"
                    ELSE hpc[x]]
       /\ Locals(h, next, hrt[h])
       /\ UNCHANGED <<phase, tables, dir, registry, runtimes>>

-----------------------------------------------------------------------------
(* SessionRuntime.submit_turn, all under the runtime's lock *)

Submit(h) ==
    LET r == hrt[h]
        s == rsess[r]
    IN /\ hpc[h] = "submit"
       /\ Accepting(r)
       /\ SessionActive(s)
       /\ \E t \in Turns :
             /\ turn[t] = "none"
             /\ turn' = [turn EXCEPT ![t] = "queued"]
             /\ turnSess' = [turnSess EXCEPT ![t] = s]
             /\ queue' = [queue EXCEPT ![r] = Append(@, t)]
       /\ pending' = [pending EXCEPT ![r] = @ + 1]
       /\ Goto(h, "idle")
       /\ UNCHANGED <<phase, sess, dir, reg,
                      rsess, closed, active, wpc>>

(* 409: closed, busy, or create_turn found the session not active. *)
SubmitRejected(h) ==
    LET r == hrt[h] IN
    /\ hpc[h] = "submit"
    /\ ~Accepting(r) \/ ~SessionActive(rsess[r]) \/ "db" \in Faults
    /\ Goto(h, "idle")
    /\ UNCHANGED <<phase, tables, dir, reg, runtimes>>

-----------------------------------------------------------------------------
(* DELETE: close the row, close the runtime, remove the directory. *)

CloseSession(h) ==
    LET s == hsess[h] IN
    /\ hpc[h] = "closeDb"
    /\ \/ /\ sess[s] # "deleted"
          /\ sess' = [sess EXCEPT ![s] = "closed"]
          /\ Goto(h, "pop")
       \/ /\ sess[s] = "deleted" \/ "db" \in Faults
          /\ Goto(h, "idle")
          /\ UNCHANGED sess
    /\ UNCHANGED <<phase, turn, turnSess, dir, reg, runtimes>>

PopRuntime(h) ==
    LET s == hsess[h] IN
    /\ hpc[h] = "pop"
    /\ registry' = [registry EXCEPT ![s] = None]
    /\ GotoWith(h, IF registry[s] = None THEN "rm" ELSE "close", registry[s])
    /\ UNCHANGED <<phase, tables, dir, initializing, runtimes>>

CloseRuntime(h) ==
    /\ hpc[h] = "close"
    /\ SignalStop(hrt[h])
    /\ Goto(h, "join")
    /\ UNCHANGED <<phase, tables, dir, reg,
                   rsess, pending, active, wpc>>

(* worker.join(timeout): the worker has ended, or the caller gives up. *)
Join(h) ==
    /\ hpc[h] = "join"
    /\ WorkerEnded(hrt[h]) \/ "joinTimeout" \in Faults
    /\ Goto(h, IF hop[h] = "delete" THEN "rm" ELSE "releaseFail")
    /\ UNCHANGED <<phase, tables, dir, reg, runtimes>>

(* memory_store.delete_session_memory: the whole session directory goes. *)
RemoveDir(h) ==
    /\ hpc[h] = "rm"
    /\ dir' = [dir EXCEPT ![hsess[h]] = FALSE]
    /\ Goto(h, "idle")
    /\ UNCHANGED <<phase, tables, reg, runtimes>>

(* create_session undoes its insert; a failure to do so is swallowed. *)
Rollback(h) ==
    LET s == hsess[h] IN
    /\ hpc[h] = "rollback"
    /\ \/ /\ sess' = [sess EXCEPT ![s] = "deleted"]
          /\ turn' = [t \in Turns |-> IF turnSess[t] = s THEN "deleted" ELSE turn[t]]
       \/ "db" \in Faults /\ UNCHANGED <<sess, turn>>
    /\ Goto(h, "rm")
    /\ UNCHANGED <<phase, turnSess, dir, reg, runtimes>>

-----------------------------------------------------------------------------
(* SessionRuntime._worker_loop and _run_turn *)

TakeTurn(r) ==
    /\ wpc[r] = "get"
    /\ queue[r] # <<>> /\ Head(queue[r]) # Stop
    /\ queue' = [queue EXCEPT ![r] = Tail(@)]
    /\ pending' = [pending EXCEPT ![r] = IF @ > 0 THEN @ - 1 ELSE 0]
    /\ active' = [active EXCEPT ![r] = Head(queue[r])]
    /\ Step(r, "start")
    /\ UNCHANGED <<phase, tables, dir, reg, handlers, rsess, closed>>

TakeStop(r) ==
    /\ wpc[r] = "get"
    /\ queue[r] # <<>> /\ Head(queue[r]) = Stop
    /\ queue' = [queue EXCEPT ![r] = Tail(@)]
    /\ Step(r, "exit")
    /\ UNCHANGED <<phase, tables, dir, reg, handlers,
                   rsess, closed, pending, active>>

(* UPDATE turns SET status = to WHERE id = t; no row is a KeyError. *)
UpdateTurn(r, to, done, failed) ==
    LET t == active[r] IN
    /\ \/ /\ turn[t] # "deleted"
          /\ turn' = [turn EXCEPT ![t] = to]
          /\ Step(r, done)
       \/ /\ turn[t] = "deleted" \/ "db" \in Faults
          /\ Step(r, failed)
          /\ UNCHANGED turn
    /\ UNCHANGED <<phase, sess, turnSess, dir, reg, handlers,
                   rsess, closed, queue, pending, active>>

SetTurnRunning(r)    == wpc[r] = "start"  /\ UpdateTurn(r, "running", "agent", "fail")
FinishTurnDone(r)    == wpc[r] = "finish" /\ UpdateTurn(r, "done", "cleanup", "fail")
FinishTurnSuccess(r) == wpc[r] = "finish" /\ UpdateTurn(r, "completed", "cleanup", "fail")
FinishTurnFailure(r) == wpc[r] = "fail"   /\ UpdateTurn(r, "failed", "cleanup", "abort")

(* The agent writes memory files and logs under the session's directory. *)
TouchDir(r) ==
    /\ wpc[r] = "agent"
    /\ dir' = [dir EXCEPT ![rsess[r]] = TRUE]
    /\ UNCHANGED <<phase, tables, reg, handlers, runtimes>>

(* agent.run_stream is exhausted, or raises. *)
RunAgent(r) ==
    /\ wpc[r] = "agent"
    /\ \E p \in {"persist", "fail"} : Step(r, p)
    /\ UNCHANGED <<phase, tables, dir, reg, handlers,
                   rsess, closed, queue, pending, active>>

(* _persist_completed_turn_snapshot updates the session row first. *)
PersistSnapshot(r) ==
    /\ wpc[r] = "persist"
    /\ \/ sess[rsess[r]] # "deleted" /\ Step(r, "finish")
       \/ sess[rsess[r]] = "deleted" /\ Step(r, "fail")
       \/ "db" \in Faults /\ Step(r, "fail")
    /\ UNCHANGED <<phase, tables, dir, reg, handlers,
                   rsess, closed, queue, pending, active>>

(* The inner finally; with an exception in flight the thread then ends. *)
Cleanup(r) ==
    /\ wpc[r] \in {"cleanup", "abort"}
    /\ active' = [active EXCEPT ![r] = None]
    /\ Step(r, IF wpc[r] = "cleanup" THEN "get" ELSE "exit")
    /\ UNCHANGED <<phase, tables, dir, reg, handlers,
                   rsess, closed, queue, pending>>

(* The outer finally closes the resources and the thread is dead. *)
WorkerExit(r) ==
    /\ wpc[r] = "exit"
    /\ Step(r, "stopped")
    /\ UNCHANGED <<phase, tables, dir, reg, handlers,
                   rsess, closed, queue, pending, active>>

-----------------------------------------------------------------------------
(* The process *)

(* mark_incomplete_turns_failed; the mutant narrows its WHERE. *)
FailRunning == turn' = [t \in Turns |-> IF turn[t] = "running" THEN "failed" ELSE turn[t]]
FailInFlight == turn' = [t \in Turns |-> IF InFlight(t) THEN "failed" ELSE turn[t]]

(* The lifespan's startup: mark_incomplete_turns_failed, then serve. *)
Startup ==
    /\ phase = "down"
    /\ phase' = "up"
    /\ FailInFlight
    /\ UNCHANGED <<sess, turnSess, dir, reg, handlers, runtimes>>

(* The lifespan's shutdown: close_all.  Requests are drained first, for   *)
(* timeout_graceful_shutdown seconds; threads past that keep running.     *)
Shutdown ==
    /\ phase = "up"
    /\ (\A h \in Handlers : hpc[h] = "idle") \/ "drainTimeout" \in Faults
    /\ phase' = "stopping"
    /\ LET loaded == {registry[s] : s \in Sessions} \ {None}
           stops  == {r \in loaded : ~closed[r]}
       IN /\ closed' = [r \in Runtimes |-> closed[r] \/ r \in loaded]
          /\ queue' = [r \in Runtimes |-> IF r \in stops THEN Append(queue[r], Stop)
                                                         ELSE queue[r]]
    /\ registry' = [s \in Sessions |-> None]
    /\ UNCHANGED <<tables, dir, initializing, handlers, rsess, pending, active, wpc>>

MemoryLost ==
    /\ phase' = "down"
    /\ registry' = OfSessions(None) /\ initializing' = OfSessions(None)
    /\ hpc' = OfHandlers("idle") /\ hop' = OfHandlers("none")
    /\ hsess' = OfHandlers(None) /\ hrt' = OfHandlers(None)
    /\ rsess' = OfRuntimes(None) /\ closed' = OfRuntimes(FALSE)
    /\ queue' = OfRuntimes(<<>>) /\ pending' = OfRuntimes(0)
    /\ active' = OfRuntimes(None) /\ wpc' = OfRuntimes("none")
    /\ UNCHANGED <<tables, dir>>

(* The interpreter exits after the joins; daemon workers die with it. *)
Exit == /\ phase = "stopping"
        /\ \/ \A r \in Runtimes : closed[r] => WorkerEnded(r)
           \/ "joinTimeout" \in Faults
        /\ MemoryLost

Crash == "crash" \in Faults /\ phase # "down" /\ MemoryLost

(* Another process opens the same database file and runs its startup. *)
RivalStartup == /\ "rival" \in Faults
                /\ FailInFlight
                /\ UNCHANGED <<phase, sess, turnSess, dir, reg, handlers, runtimes>>

-----------------------------------------------------------------------------
HandlerStep(h) ==
    \/ RequireActive(h) \/ Lookup(h) \/ Build(h) \/ BuildFails(h) \/ Confirm(h)
    \/ Install(h) \/ Release(h) \/ Submit(h) \/ SubmitRejected(h)
    \/ CloseSession(h) \/ PopRuntime(h) \/ CloseRuntime(h) \/ Join(h)
    \/ RemoveDir(h) \/ Rollback(h)

WorkerStep(r) ==
    \/ TakeTurn(r) \/ TakeStop(r) \/ SetTurnRunning(r) \/ RunAgent(r)
    \/ PersistSnapshot(r) \/ FinishTurnSuccess(r) \/ FinishTurnFailure(r)
    \/ Cleanup(r) \/ WorkerExit(r)

Request(h) == \E s \in Sessions :
    CreateSession(h, s) \/ CreateTurn(h, s) \/ DeleteSession(h, s)

Next == \/ \E h \in Handlers : Request(h) \/ HandlerStep(h)
        \/ \E r \in Runtimes : WorkerStep(r) \/ TouchDir(r)
        \/ Startup \/ Shutdown \/ Exit \/ Crash \/ RivalStartup

Spec == Init /\ [][Next]_vars

(* Threads of a live process are scheduled, agent runs end, and a process *)
(* whose joins are over exits.  Clients, faults and operators may not act. *)
Fairness == /\ \A h \in Handlers : WF_vars(HandlerStep(h))
            /\ \A r \in Runtimes : WF_vars(WorkerStep(r))
            /\ WF_vars(Exit)

FairSpec == Spec /\ Fairness

-----------------------------------------------------------------------------
(* Properties *)

HandlerSteps == {"idle", "check", "recheck", "lookup", "wait", "build", "confirm",
                 "install", "release", "releaseFail", "submit", "closeDb", "pop",
                 "close", "join", "rm", "rollback"}
WorkerSteps == {"none", "get", "start", "agent", "persist", "finish", "fail",
                "cleanup", "abort", "exit", "stopped"}
TurnStatus == {"none", "queued", "running", "completed", "failed", "deleted"}

TablesTyped == /\ phase \in {"down", "up", "stopping"}
               /\ sess \in [Sessions -> {"absent", "active", "closed", "deleted"}]
               /\ turn \in [Turns -> TurnStatus]
               /\ turnSess \in [Turns -> Sessions \cup {None}]
               /\ dir \in [Sessions -> BOOLEAN]

RegistryTyped == /\ registry \in [Sessions -> Runtimes \cup {None}]
                 /\ initializing \in [Sessions -> Handlers \cup {None}]

HandlersTyped == /\ hpc \in [Handlers -> HandlerSteps]
                 /\ hop \in [Handlers -> {"none", "create", "turn", "delete"}]
                 /\ hsess \in [Handlers -> Sessions \cup {None}]
                 /\ hrt \in [Handlers -> Runtimes \cup {None}]

RuntimesTyped == /\ rsess \in [Runtimes -> Sessions \cup {None}]
                 /\ closed \in [Runtimes -> BOOLEAN]
                 /\ queue \in [Runtimes -> Seq(Turns \cup {Stop})]
                 /\ pending \in [Runtimes -> Nat]
                 /\ active \in [Runtimes -> Turns \cup {None}]
                 /\ wpc \in [Runtimes -> WorkerSteps]

(* The type invariant: every variable keeps its shape, and a turn's row    *)
(* only ever has a status of the schema.                                   *)
TypeOK == TablesTyped /\ RegistryTyped /\ HandlersTyped /\ RuntimesTyped

(* Runtime r has turn t in its queue or in its worker's hands. *)
Queued(r, t) == \E i \in 1..Len(queue[r]) : queue[r][i] = t
Holds(r, t)  == Queued(r, t) \/ active[r] = t

(* Two workers never have work of the same session, and no worker has two  *)
(* turns: however ensure_runtime, DELETE, roll-back and shutdown interleave *)
(* one session's transcript is written by one thread at a time while the   *)
(* server is up.                                                           *)
OneTurnInHand ==
    phase = "up" =>
    \A r1, r2 \in Runtimes, t1, t2 \in Turns :
        (Holds(r1, t1) /\ Holds(r2, t2) /\ rsess[r1] = rsess[r2])
            => (r1 = r2 /\ t1 = t2)

(* A turn row is queued or running only while some worker will still work  *)
(* on it, or because that session's worker thread died with an exception:  *)
(* restarts and DELETE leave no turn in flight that nobody owns.           *)
NoAbandonedTurn ==
    \A t \in Turns : (phase # "down" /\ InFlight(t)) =>
        \E r \in Runtimes : /\ rsess[r] = turnSess[t]
                            /\ \/ Holds(r, t)
                               \/ wpc[r] \in {"exit", "stopped"}

(* submit_turn and close() share the runtime's lock: no accepted turn ever *)
(* sits in the queue behind the stop item, where no worker would reach it. *)
NothingBehindStop ==
    \A r \in Runtimes : \A i \in 1..Len(queue[r]) :
        queue[r][i] = Stop => i = Len(queue[r])

(* One thread at a time constructs a session's runtime, and while it does  *)
(* no other runtime of the session is in the registry.                     *)
ConstructionIsExclusive ==
    \A h1, h2 \in Handlers :
        LET building == {"build", "confirm", "install"} IN
        (hpc[h1] \in building /\ hpc[h2] \in building /\ hsess[h1] = hsess[h2])
            => (h1 = h2 /\ registry[hsess[h1]] = None)

(* A status reported as completed or failed never changes again, unless    *)
(* the row itself is rolled back: no late worker step, recovery or failure *)
(* path rewrites the outcome a client has already seen.                    *)
TerminalIsFinal ==
    [][\A t \in Turns : turn[t] \in {"completed", "failed"}
                            => turn'[t] \in {turn[t], "deleted"}]_vars

(* The tables only move as the ledger promises. *)
Ledger == INSTANCE TurnLedger
LedgerSpec == Ledger!Spec

(* Every accepted turn comes to rest: the stop item is queued behind it,   *)
(* so DELETE and shutdown drain the turn instead of losing it.             *)
TurnsFinish == \A t \in Turns : InFlight(t) ~> ~InFlight(t)

(* Every request returns: no builder forgets its waiters, no DELETE joins  *)
(* a worker that never sees the stop item.                                 *)
RequestsReturn == \A h \in Handlers : hpc[h] # "idle" ~> hpc[h] = "idle"

(* Once the requests on a closed session are over its directory is gone    *)
(* for good: no worker is left that could write it again.                  *)
Quiet(s) == \A h \in Handlers : hsess[h] # s
ClosedSessionHasNoDir ==
    \A s \in Sessions : (sess[s] = "closed" /\ Quiet(s)) => ~dir[s]

(* DELETE "releases its runtime resources": once the requests on a closed  *)
(* session are over, the registry holds no runtime for it.                 *)
ClosedSessionHasNoRuntime ==
    \A s \in Sessions : (sess[s] = "closed" /\ Quiet(s)) => registry[s] = None
=============================================================================
