------------------------- MODULE SessionServerProofs -------------------------
(***************************************************************************)
(* Proofs about SessionServer, for every set of sessions, turns, runtimes  *)
(* and request threads: its types, the stop item, one builder and one      *)
(* worker per session, who has a turn in flight, and the turns table.      *)
(***************************************************************************)
EXTENDS SessionServer, TLAPS, SequenceTheorems

(* A request past its first step knows its session, and from the step that *)
(* gave it a runtime on, that runtime, which is the session's own.         *)
WithRuntime == {"confirm", "install", "release", "submit", "close", "join"}

HandlersOK ==
    \A h \in Handlers :
        /\ hpc[h] # "idle" => hsess[h] \in Sessions
        /\ hpc[h] \in WithRuntime => /\ hrt[h] \in Runtimes
                                     /\ rsess[hrt[h]] = hsess[h]

RegistryOK ==
    \A s \in Sessions : registry[s] # None => /\ registry[s] \in Runtimes
                                              /\ rsess[registry[s]] = s

Working == {"start", "agent", "persist", "finish", "fail", "cleanup", "abort"}

(* A runtime not built yet holds nothing; a worker has a turn exactly while *)
(* it is between taking it and its cleanup.                                 *)
WorkersOK ==
    \A r \in Runtimes :
        /\ wpc[r] \in Working <=> active[r] \in Turns
        /\ rsess[r] = None => /\ wpc[r] = "none" /\ ~closed[r]
                              /\ queue[r] = <<>> /\ pending[r] = 0
        /\ rsess[r] # None => wpc[r] # "none"

(* What a queue can look like: at most one turn, then the stop item of a   *)
(* closed runtime, and no turn at all while the worker has one.            *)
QueueShape(r) ==
    \/ queue[r] = <<>> /\ pending[r] = 0
    \/ queue[r] = <<Stop>> /\ pending[r] = 0 /\ closed[r]
    \/ \E t \in Turns : /\ queue[r] = <<t>> \/ (queue[r] = <<t, Stop>> /\ closed[r])
                        /\ pending[r] = 1
                        /\ active[r] = None

QueuesOK == \A r \in Runtimes : QueueShape(r)

-----------------------------------------------------------------------------
(* Typing *)

Typed == TypeOK /\ HandlersOK /\ RegistryOK /\ WorkersOK

(* In the initial state nothing is loaded, so every typing fact holds. *)
LEMMA InitTyped == Init => Typed
<1> SUFFICES ASSUME Init PROVE Typed
  OBVIOUS
<1> USE ConstantsAssumption DEF Init, OfHandlers, OfRuntimes, OfSessions
<1>1. TypeOK
  BY DEF TypeOK, TablesTyped, RegistryTyped, HandlersTyped, RuntimesTyped,
         HandlerSteps, WorkerSteps, TurnStatus
<1>2. HandlersOK /\ RegistryOK /\ WorkersOK
  BY DEF HandlersOK, RegistryOK, WorkersOK, WithRuntime, Working
<1> QED
  BY <1>1, <1>2 DEF Typed

(* One handler moves to step p with runtime r, and no built runtime changes *)
(* its session: the handlers stay typed when p suits what h knows.          *)
LEMMA OneHandlerMoves ==
    ASSUME HandlersTyped, HandlersOK, NEW h \in Handlers, NEW p \in HandlerSteps,
           NEW r \in Runtimes \cup {None}, GotoWith(h, p, r),
           p # "idle" => hsess[h] \in Sessions,
           p \in WithRuntime => r \in Runtimes /\ rsess'[r] = hsess[h],
           \A q \in Runtimes : rsess[q] \in Sessions => rsess'[q] = rsess[q]
    PROVE  HandlersTyped' /\ HandlersOK'
<1>1. HandlersTyped'
  BY DEF HandlersTyped, GotoWith, Locals
<1>2. ASSUME NEW x \in Handlers, hpc'[x] # "idle"  PROVE hsess'[x] \in Sessions
  BY <1>2 DEF HandlersTyped, HandlersOK, GotoWith, Locals, HandlerSteps
<1>3. ASSUME NEW x \in Handlers, hpc'[x] \in WithRuntime
      PROVE  hrt'[x] \in Runtimes /\ rsess'[hrt'[x]] = hsess'[x]
  BY <1>3 DEF HandlersTyped, HandlersOK, GotoWith, Locals, HandlerSteps, WithRuntime
<1> QED
  BY <1>1, <1>2, <1>3 DEF HandlersOK

(* Every step of ensure_runtime, submit_turn and DELETE keeps the handlers  *)
(* typed.                                                                   *)
LEMMA HandlerStepTypesHandlers ==
    ASSUME Typed, NEW h \in Handlers, HandlerStep(h)
    PROVE  HandlersTyped' /\ HandlersOK'
<1> USE ConstantsAssumption
    DEF Typed, TypeOK, HandlersTyped, HandlersOK, HandlerSteps, WithRuntime, runtimes
<1>1. CASE RequireActive(h)
  BY <1>1, OneHandlerMoves DEF RequireActive, Goto, Raised
<1>2. CASE Lookup(h)
  BY <1>2, OneHandlerMoves DEF Lookup, Goto, Returned, RegistryTyped, RegistryOK
<1>3. CASE Build(h)
  BY <1>3, OneHandlerMoves DEF Build, RuntimesTyped
<1>4. CASE BuildFails(h)
  BY <1>4, OneHandlerMoves DEF BuildFails, Goto
<1>5. CASE Confirm(h)
  BY <1>5, OneHandlerMoves DEF Confirm, Goto
<1>6. CASE Install(h)
  BY <1>6, OneHandlerMoves DEF Install, Goto, RegistryTyped, RegistryOK
<1>7. CASE Release(h)
  BY <1>7 DEF Release, Locals, Woken, Returned, Raised
<1>8. CASE Submit(h) \/ SubmitRejected(h)
  BY <1>8, OneHandlerMoves DEF Submit, SubmitRejected, Goto
<1>9. CASE CloseSession(h)
  BY <1>9, OneHandlerMoves DEF CloseSession, Goto
<1>10. CASE PopRuntime(h)
  BY <1>10, OneHandlerMoves DEF PopRuntime, RegistryTyped, RegistryOK
<1>11. CASE CloseRuntime(h)
  BY <1>11, OneHandlerMoves DEF CloseRuntime, Goto
<1>12. CASE Join(h)
  BY <1>12, OneHandlerMoves DEF Join, Goto
<1>13. CASE RemoveDir(h)
  BY <1>13, OneHandlerMoves DEF RemoveDir, Goto
<1>14. CASE Rollback(h)
  BY <1>14, OneHandlerMoves DEF Rollback, Goto
<1> QED
  BY HandlerStep(h), <1>1, <1>2, <1>3, <1>4, <1>5, <1>6, <1>7, <1>8, <1>9, <1>10,
     <1>11, <1>12, <1>13, <1>14 DEF HandlerStep

(* A handler step leaves the registry holding runtimes of their sessions.   *)
LEMMA HandlerStepTypesRegistry ==
    ASSUME Typed, NEW h \in Handlers, HandlerStep(h)
    PROVE  RegistryTyped' /\ RegistryOK'
<1> USE ConstantsAssumption
    DEF Typed, TypeOK, RegistryTyped, RegistryOK, reg, runtimes
<1>1. CASE Lookup(h) \/ Release(h) \/ PopRuntime(h)
  BY <1>1 DEF Lookup, Release, PopRuntime
<1>2. CASE Build(h)
  BY <1>2 DEF Build, RuntimesTyped
<1>3. CASE Install(h)
  BY <1>3 DEF Install, HandlersOK, WithRuntime
<1>4. CASE Submit(h)
  BY <1>4 DEF Submit
<1>5. CASE CloseRuntime(h)
  BY <1>5 DEF CloseRuntime
<1>6. CASE UNCHANGED <<reg, runtimes>>
  BY <1>6
<1> QED
  BY HandlerStep(h), <1>1, <1>2, <1>3, <1>4, <1>5, <1>6
     DEF HandlerStep, RequireActive, BuildFails, Confirm, SubmitRejected, CloseSession,
         Join, RemoveDir, Rollback

(* A handler step writes only queue items, flags and counters of their type, *)
(* and never touches what a worker has in hand.                              *)
LEMMA HandlerStepTypesRuntimes ==
    ASSUME Typed, NEW h \in Handlers, HandlerStep(h)
    PROVE  RuntimesTyped' /\ WorkersOK'
<1> USE ConstantsAssumption DEF Typed, TypeOK
<1>1. CASE Build(h)
  <2>1. PICK r \in Runtimes : /\ rsess[r] = None
                              /\ rsess' = [rsess EXCEPT ![r] = hsess[h]]
                              /\ wpc' = [wpc EXCEPT ![r] = "get"]
    BY <1>1 DEF Build, Step
  <2>2. UNCHANGED <<closed, queue, pending, active>> /\ hsess[h] \in Sessions
    BY <1>1 DEF Build, HandlersOK
  <2>3. RuntimesTyped'
    BY <2>1, <2>2 DEF RuntimesTyped, WorkerSteps
  <2>4. WorkersOK'
    BY <2>1, <2>2 DEF RuntimesTyped, WorkersOK, Working
  <2> QED
    BY <2>3, <2>4
<1>2. ASSUME hpc[h] \in {"install", "close"}, SignalStop(hrt[h]),
             UNCHANGED <<rsess, pending, active, wpc>>
      PROVE  RuntimesTyped' /\ WorkersOK'
  <2>1. hrt[h] \in Runtimes /\ rsess[hrt[h]] # None
    BY <1>2 DEF HandlersOK, WithRuntime
  <2>2. RuntimesTyped'
    BY <1>2, <2>1 DEF SignalStop, RuntimesTyped
  <2>3. WorkersOK'
    BY <1>2, <2>1 DEF SignalStop, RuntimesTyped, WorkersOK
  <2> QED
    BY <2>2, <2>3
<1>3. CASE Submit(h)
  <2>1. hrt[h] \in Runtimes /\ rsess[hrt[h]] # None
    BY <1>3 DEF Submit, HandlersOK, WithRuntime
  <2>2. RuntimesTyped'
    BY <1>3, <2>1 DEF Submit, RuntimesTyped
  <2>3. WorkersOK'
    BY <1>3, <2>1 DEF Submit, RuntimesTyped, WorkersOK
  <2> QED
    BY <2>2, <2>3
<1>4. CASE UNCHANGED runtimes
  BY <1>4 DEF runtimes, RuntimesTyped, WorkersOK
<1> QED
  BY HandlerStep(h), <1>1, <1>2, <1>3, <1>4
     DEF HandlerStep, RequireActive, Lookup, BuildFails, Confirm, Install, Release,
         SubmitRejected, CloseSession, PopRuntime, CloseRuntime, Join, RemoveDir, Rollback,
         runtimes

(* A handler step writes only statuses of the schema. *)
LEMMA HandlerStepTypesTables ==
    ASSUME Typed, NEW h \in Handlers, HandlerStep(h)
    PROVE  TablesTyped'
<1> USE DEF Typed, TypeOK, TablesTyped, TurnStatus, tables
<1>1. CASE Submit(h)
  BY <1>1 DEF Submit, HandlersOK, WithRuntime
<1>2. CASE CloseSession(h) \/ RemoveDir(h) \/ Rollback(h)
  BY <1>2 DEF CloseSession, RemoveDir, Rollback
<1>3. CASE UNCHANGED <<phase, tables, dir>>
  BY <1>3
<1> QED
  BY HandlerStep(h), <1>1, <1>2, <1>3
     DEF HandlerStep, RequireActive, Lookup, Build, BuildFails, Confirm, Install, Release,
         SubmitRejected, PopRuntime, CloseRuntime, Join

(* A worker step, a log line or a memory write keeps everything typed. *)
LEMMA WorkerStepTyped ==
    ASSUME Typed, NEW r \in Runtimes, WorkerStep(r) \/ TouchDir(r)
    PROVE  Typed'
<1> USE ConstantsAssumption DEF Typed, TypeOK, tables, reg, handlers, runtimes
<1>1. UNCHANGED <<phase, reg, handlers, rsess>>
  BY DEF WorkerStep, TouchDir, TakeTurn, TakeStop, SetTurnRunning, RunAgent, PersistSnapshot,
         FinishTurnSuccess, FinishTurnFailure, UpdateTurn, Cleanup, WorkerExit
<1>2. RegistryTyped' /\ RegistryOK' /\ HandlersTyped' /\ HandlersOK'
  BY <1>1 DEF RegistryTyped, RegistryOK, HandlersTyped, HandlersOK
<1>3. TablesTyped'
  <2>1. CASE SetTurnRunning(r) \/ FinishTurnSuccess(r) \/ FinishTurnFailure(r)
    BY <2>1 DEF SetTurnRunning, FinishTurnSuccess, FinishTurnFailure, UpdateTurn,
                TablesTyped, TurnStatus
  <2>2. CASE TouchDir(r)
    BY <2>2 DEF TouchDir, TablesTyped
  <2>3. CASE UNCHANGED <<phase, tables, dir>>
    BY <2>3 DEF TablesTyped
  <2> QED
    BY <2>1, <2>2, <2>3 DEF WorkerStep, TakeTurn, TakeStop, RunAgent, PersistSnapshot,
                            Cleanup, WorkerExit
<1>4. RuntimesTyped' /\ WorkersOK'
  <2>1. CASE TakeTurn(r)
    <3>1. Head(queue[r]) \in Turns /\ Tail(queue[r]) \in Seq(Turns \cup {Stop})
      BY <2>1 DEF TakeTurn, RuntimesTyped
    <3>2. RuntimesTyped'
      BY <2>1, <3>1 DEF TakeTurn, Step, RuntimesTyped, WorkerSteps
    <3>3. WorkersOK'
      BY <2>1, <3>1 DEF TakeTurn, Step, RuntimesTyped, WorkersOK, Working
    <3> QED
      BY <3>2, <3>3
  <2>2. CASE TakeStop(r)
    <3>1. Tail(queue[r]) \in Seq(Turns \cup {Stop})
      BY <2>2 DEF TakeStop, RuntimesTyped
    <3>2. RuntimesTyped'
      BY <2>2, <3>1 DEF TakeStop, Step, RuntimesTyped, WorkerSteps
    <3>3. WorkersOK'
      BY <2>2, <3>1 DEF TakeStop, Step, RuntimesTyped, WorkersOK, Working
    <3> QED
      BY <3>2, <3>3
  <2>3. CASE Cleanup(r)
    <3>1. RuntimesTyped'
      BY <2>3 DEF Cleanup, Step, RuntimesTyped, WorkerSteps
    <3>2. WorkersOK'
      BY <2>3 DEF Cleanup, Step, RuntimesTyped, WorkersOK, Working
    <3> QED
      BY <3>1, <3>2
  <2>4. ASSUME UNCHANGED <<rsess, closed, queue, pending, active>>,
               NEW p \in WorkerSteps, Step(r, p), wpc[r] # "none", p # "none",
               wpc[r] \in Working <=> p \in Working
        PROVE  RuntimesTyped' /\ WorkersOK'
    BY <2>4 DEF Step, RuntimesTyped, WorkersOK
  <2>5. CASE SetTurnRunning(r) \/ FinishTurnSuccess(r) \/ FinishTurnFailure(r)
    BY <2>4, <2>5 DEF SetTurnRunning, FinishTurnSuccess, FinishTurnFailure, UpdateTurn,
                      WorkerSteps, Working
  <2>6. CASE RunAgent(r) \/ PersistSnapshot(r) \/ WorkerExit(r)
    BY <2>4, <2>6 DEF RunAgent, PersistSnapshot, WorkerExit, WorkerSteps, Working
  <2>7. CASE TouchDir(r)
    BY <2>7 DEF TouchDir, RuntimesTyped, WorkersOK
  <2> QED
    BY <2>1, <2>2, <2>3, <2>5, <2>6, <2>7 DEF WorkerStep
<1> QED
  BY <1>2, <1>3, <1>4

(* A process starting, draining, ending or dying keeps everything typed. *)
LEMMA ProcessTyped ==
    ASSUME Typed, Startup \/ RivalStartup \/ Shutdown \/ Exit \/ Crash
    PROVE  Typed'
<1> USE ConstantsAssumption DEF Typed, TypeOK, tables, reg, handlers, runtimes
<1>1. CASE Startup \/ RivalStartup
  <2>1. TablesTyped'
    BY <1>1 DEF Startup, RivalStartup, FailInFlight, TablesTyped, TurnStatus
  <2> QED
    BY <1>1, <2>1 DEF Startup, RivalStartup, RegistryTyped, HandlersTyped, RuntimesTyped,
                      HandlersOK, RegistryOK, WorkersOK
<1>2. CASE Shutdown
  <2>1. TablesTyped' /\ RegistryTyped' /\ HandlersTyped' /\ HandlersOK' /\ RegistryOK'
    BY <1>2 DEF Shutdown, TablesTyped, RegistryTyped, HandlersTyped, HandlersOK, RegistryOK
  <2>2. RuntimesTyped'
    BY <1>2 DEF Shutdown, RuntimesTyped
  <2>3. ASSUME NEW r \in Runtimes, rsess[r] = None
        PROVE  ~closed'[r] /\ queue'[r] = queue[r]
    BY <1>2, <2>3 DEF Shutdown, RegistryTyped, RegistryOK, WorkersOK, RuntimesTyped
  <2>4. WorkersOK'
    BY <1>2, <2>3 DEF Shutdown, RuntimesTyped, WorkersOK
  <2> QED
    BY <2>1, <2>2, <2>4
<1>3. CASE Exit \/ Crash
  <2> USE DEF MemoryLost, OfHandlers, OfRuntimes, OfSessions
  <2>1. MemoryLost
    BY <1>3 DEF Exit, Crash
  <2>2. TablesTyped' /\ RegistryTyped'
    BY <2>1 DEF TablesTyped, RegistryTyped
  <2>3. HandlersTyped' /\ RuntimesTyped'
    BY <2>1 DEF HandlersTyped, RuntimesTyped, HandlerSteps, WorkerSteps
  <2>4. HandlersOK' /\ RegistryOK' /\ WorkersOK'
    BY <2>1 DEF HandlersOK, RegistryOK, WorkersOK, WithRuntime, Working
  <2> QED
    BY <2>2, <2>3, <2>4
<1> QED
  BY <1>1, <1>2, <1>3

(* No step of the server breaks typing. *)
LEMMA NextTyped == Typed /\ [Next]_vars => Typed'
<1> SUFFICES ASSUME Typed, [Next]_vars PROVE Typed'
  OBVIOUS
<1>1. ASSUME NEW h \in Handlers, Request(h) PROVE Typed'
  <2> USE DEF Typed, TypeOK
  <2>1. PICK s \in Sessions, op \in {"create", "turn", "delete"}, pc \in {"check", "closeDb"} :
             /\ sess' \in {sess, [sess EXCEPT ![s] = "active"]}
             /\ Begin(h, op, s, pc)
    BY <1>1 DEF Request, CreateSession, CreateTurn, DeleteSession
  <2>2. TablesTyped'
    BY <2>1 DEF Begin, TablesTyped
  <2>3. HandlersTyped' /\ HandlersOK'
    BY <2>1 DEF Begin, HandlersTyped, HandlersOK, HandlerSteps, WithRuntime, runtimes
  <2>4. RegistryTyped' /\ RuntimesTyped' /\ RegistryOK' /\ WorkersOK'
    BY <2>1 DEF Begin, RegistryTyped, RuntimesTyped, RegistryOK, WorkersOK, reg, runtimes
  <2> QED
    BY <2>2, <2>3, <2>4
<1>2. ASSUME NEW h \in Handlers, HandlerStep(h) PROVE Typed'
  BY <1>2, HandlerStepTypesHandlers, HandlerStepTypesRegistry, HandlerStepTypesRuntimes,
     HandlerStepTypesTables DEF Typed, TypeOK
<1>3. CASE UNCHANGED vars
  BY <1>3 DEF Typed, TypeOK, TablesTyped, RegistryTyped, HandlersTyped, RuntimesTyped,
              HandlersOK, RegistryOK, WorkersOK, vars, tables, reg, handlers, runtimes
<1> QED
  BY <1>1, <1>2, <1>3, WorkerStepTyped, ProcessTyped DEF Next

(* Type correctness of the server: whatever threads, restarts and failures  *)
(* do, every variable keeps its type, the registry maps a session to a      *)
(* runtime of that session, and a worker has a turn exactly while it works. *)
THEOREM TypeCorrect == Spec => []TypeOK
<1>1. Typed => TypeOK
  BY DEF Typed
<1> QED
  BY InitTyped, NextTyped, <1>1, PTL DEF Spec

(* The typing invariant itself, for the proofs that build on it. *)
THEOREM AlwaysTyped == Spec => []Typed
BY InitTyped, NextTyped, PTL DEF Spec

-----------------------------------------------------------------------------
(* Queues *)

(* A queue of one item becomes a queue of two. *)
LEMMA AppendToOne == ASSUME NEW t, NEW u PROVE Append(<<t>>, u) = <<t, u>>
<1> DEFINE S == {t, u}
           a == Append(<<t>>, u)
           b == <<t, u>>
<1>1. <<t>> \in Seq(S) /\ Len(<<t>>) = 1
  OBVIOUS
<1>2. a \in Seq(S) /\ Len(a) = 2 /\ a[1] = t /\ a[2] = u
  BY <1>1, AppendProperties
<1>3. b \in Seq(S) /\ Len(b) = 2 /\ b[1] = t /\ b[2] = u
  OBVIOUS
<1> HIDE DEF a, b
<1>4. \A i \in 1..Len(a) : a[i] = b[i]
  BY <1>2, <1>3
<1>5. a = b
  BY <1>2, <1>3, <1>4, SeqEqual
<1> QED
  BY <1>5 DEF a, b

(* The two shapes of a queue that holds a turn, taken apart. *)
LEMMA TurnThenStop ==
    ASSUME NEW t, NEW u
    PROVE  /\ Tail(<<t>>) = <<>> /\ Tail(<<t, u>>) = <<u>>
           /\ Len(<<t>>) = 1 /\ <<t>>[1] = t
           /\ Len(<<t, u>>) = 2 /\ <<t, u>>[1] = t /\ <<t, u>>[2] = u
OBVIOUS

(* close() called on a runtime leaves its queue in shape. *)
LEMMA StopShapes ==
    ASSUME Typed, NEW r \in Runtimes, QueueShape(r),
           closed'[r] = TRUE, UNCHANGED <<pending, active>>,
           queue'[r] = IF closed[r] THEN queue[r] ELSE Append(queue[r], Stop)
    PROVE  QueueShape(r)'
<1>1. CASE closed[r]
  BY <1>1 DEF QueueShape
<1>2. CASE ~closed[r] /\ queue[r] = <<>>
  BY <1>2 DEF QueueShape
<1>3. CASE ~closed[r] /\ queue[r] # <<>>
  <2>1. PICK t \in Turns : queue[r] = <<t>> /\ pending[r] = 1 /\ active[r] = None
    BY <1>3 DEF QueueShape
  <2>2. queue'[r] = Append(<<t>>, Stop)
    BY <1>3, <2>1
  <2>3. queue'[r] = <<t, Stop>>
    BY <2>2, AppendToOne
  <2> QED
    BY <2>1, <2>3 DEF QueueShape
<1> QED
  BY <1>1, <1>2, <1>3

(* No step gives a queue two turns, or anything behind the stop item. *)
LEMMA NextQueues == Typed /\ QueuesOK /\ [Next]_vars => QueuesOK'
<1> SUFFICES ASSUME Typed, QueuesOK, [Next]_vars, NEW r \in Runtimes
             PROVE  QueueShape(r)'
  BY DEF QueuesOK
<1> USE ConstantsAssumption
<1>1. RuntimesTyped /\ QueueShape(r)
  BY DEF Typed, TypeOK, QueuesOK
<1>2. CASE closed'[r] = closed[r] /\ queue'[r] = queue[r] /\ UNCHANGED <<pending, active>>
  BY <1>1, <1>2 DEF QueueShape
<1>3. ASSUME NEW q \in Runtimes, SignalStop(q), UNCHANGED <<pending, active>>
      PROVE  QueueShape(r)'
  BY <1>1, <1>2, <1>3, StopShapes DEF SignalStop, RuntimesTyped
<1>4. ASSUME NEW h \in Handlers, Submit(h) PROVE QueueShape(r)'
  <2>1. hrt[h] \in Runtimes
    BY <1>4 DEF Submit, Typed, HandlersOK, WithRuntime
  <2>2. CASE hrt[h] # r
    BY <1>1, <1>4, <2>1, <2>2 DEF Submit, QueueShape, RuntimesTyped
  <2>3. CASE hrt[h] = r
    <3>1. queue[r] = <<>> /\ active[r] = None /\ pending[r] = 0
      BY <1>1, <1>4, <2>3 DEF Submit, Accepting, Busy, QueueShape, RuntimesTyped
    <3>2. PICK t \in Turns : queue'[r] = Append(queue[r], t)
      BY <1>1, <1>4, <2>3 DEF Submit, RuntimesTyped
    <3>3. pending'[r] = 1 /\ active'[r] = None /\ queue'[r] = <<t>>
      BY <1>1, <1>4, <2>3, <3>1, <3>2 DEF Submit, RuntimesTyped
    <3> QED
      BY <3>3 DEF QueueShape
  <2> QED
    BY <2>2, <2>3
<1>5. ASSUME NEW h \in Handlers, HandlerStep(h), ~Submit(h) PROVE QueueShape(r)'
  <2>1. CASE Install(h) \/ CloseRuntime(h)
    <3>1. hrt[h] \in Runtimes
      BY <2>1 DEF Install, CloseRuntime, Typed, HandlersOK, WithRuntime
    <3> QED
      BY <1>2, <1>3, <2>1, <3>1 DEF Install, CloseRuntime
  <2> QED
    BY <1>2, <1>5, <2>1
       DEF HandlerStep, RequireActive, Lookup, Build, BuildFails, Confirm, Release,
           SubmitRejected, CloseSession, PopRuntime, Join, RemoveDir, Rollback, runtimes
<1>6. ASSUME NEW q \in Runtimes, WorkerStep(q) \/ TouchDir(q) PROVE QueueShape(r)'
  <2>1. CASE TakeTurn(q)
    <3>1. CASE q # r
      BY <1>1, <2>1, <3>1 DEF TakeTurn, QueueShape, RuntimesTyped
    <3>2. CASE q = r
      <4>1. PICK t \in Turns : /\ queue[r] = <<t>> \/ (queue[r] = <<t, Stop>> /\ closed[r])
                               /\ pending[r] = 1
        BY <1>1, <2>1, <3>2 DEF TakeTurn, QueueShape
      <4>2. pending'[r] = 0 /\ closed'[r] = closed[r]
        BY <1>1, <2>1, <3>2, <4>1 DEF TakeTurn, RuntimesTyped
      <4>3. queue'[r] = Tail(queue[r])
        BY <1>1, <2>1, <3>2 DEF TakeTurn, RuntimesTyped
      <4>4. queue'[r] = <<>> \/ (queue'[r] = <<Stop>> /\ closed[r])
        <5>1. Tail(<<t>>) = <<>> /\ Tail(<<t, Stop>>) = <<Stop>>
          BY TurnThenStop
        <5> QED
          BY <4>1, <4>3, <5>1, Zenon
      <4> QED
        BY <4>2, <4>4 DEF QueueShape
    <3> QED
      BY <3>1, <3>2
  <2>2. CASE TakeStop(q)
    <3>1. CASE q # r
      BY <1>1, <2>2, <3>1 DEF TakeStop, QueueShape, RuntimesTyped
    <3>2. CASE q = r
      <4>1. queue[r] = <<Stop>> /\ pending[r] = 0
        BY <1>1, <2>2, <3>2 DEF TakeStop, QueueShape
      <4>2. queue'[r] = <<>> /\ pending'[r] = 0
        BY <1>1, <2>2, <3>2, <4>1 DEF TakeStop, RuntimesTyped
      <4> QED
        BY <4>2 DEF QueueShape
    <3> QED
      BY <3>1, <3>2
  <2>3. CASE Cleanup(q)
    BY <1>1, <2>3 DEF Cleanup, QueueShape, RuntimesTyped
  <2> QED
    BY <1>2, <1>6, <2>1, <2>2, <2>3
       DEF WorkerStep, TouchDir, SetTurnRunning, RunAgent, PersistSnapshot, FinishTurnSuccess,
           FinishTurnFailure, UpdateTurn, WorkerExit, runtimes
<1>7. CASE Shutdown
  <2>1. CASE closed'[r] = closed[r] /\ queue'[r] = queue[r]
    BY <1>2, <1>7, <2>1 DEF Shutdown
  <2>2. CASE /\ closed'[r] = TRUE
             /\ queue'[r] = IF closed[r] THEN queue[r] ELSE Append(queue[r], Stop)
    BY <1>1, <1>7, <2>2, StopShapes DEF Shutdown
  <2> QED
    BY <1>1, <1>7, <2>1, <2>2 DEF Shutdown, RuntimesTyped
<1>8. CASE Exit \/ Crash
  BY <1>8 DEF Exit, Crash, MemoryLost, OfRuntimes, QueueShape
<1>9. CASE Startup \/ RivalStartup \/ UNCHANGED vars \/ \E h \in Handlers : Request(h)
  BY <1>2, <1>9 DEF Startup, RivalStartup, vars, Request, CreateSession, CreateTurn,
                    DeleteSession, Begin, runtimes
<1> QED
  BY <1>4, <1>5, <1>6, <1>7, <1>8, <1>9 DEF Next

(* No accepted turn is ever queued behind the stop item, for any number of  *)
(* threads and whatever failures: submit_turn and close() exclude each other. *)
THEOREM StopIsLast == Spec => []NothingBehindStop
<1>1. Init => QueuesOK
  BY DEF Init, QueuesOK, QueueShape, OfRuntimes
<1>2. Typed /\ QueuesOK => NothingBehindStop
  <2> SUFFICES ASSUME Typed, QueuesOK, NEW r \in Runtimes, NEW i \in 1..Len(queue[r]),
                      queue[r][i] = Stop
               PROVE  i = Len(queue[r])
    BY DEF NothingBehindStop
  <2>1. CASE queue[r] = <<>>
    BY <2>1
  <2>2. CASE queue[r] = <<Stop>>
    BY <2>2
  <2>3. ASSUME NEW t \in Turns, queue[r] = <<t>> \/ queue[r] = <<t, Stop>>
        PROVE  i = Len(queue[r])
    <3>1. t # Stop
      BY ConstantsAssumption
    <3>2. CASE queue[r] = <<t>>
      BY <3>2, TurnThenStop
    <3>3. CASE queue[r] = <<t, Stop>>
      <4>1. Len(queue[r]) = 2 /\ queue[r][1] = t
        BY <3>3, TurnThenStop
      <4> QED
        BY <3>1, <4>1
    <3> QED
      BY <2>3, <3>2, <3>3
  <2> QED
    BY <2>1, <2>2, <2>3 DEF QueuesOK, QueueShape
<1> QED
  BY InitTyped, NextTyped, NextQueues, <1>1, <1>2, PTL DEF Spec

-----------------------------------------------------------------------------
(* Mutual exclusion: one builder per session, and one worker with work per *)
(* session while the server is up.                                         *)

(* The steps of ensure_runtime and of what follows it. *)
EnsureSteps == {"check", "recheck", "lookup", "wait", "build", "confirm", "install",
                "release", "releaseFail", "submit", "rollback"}

(* A request's step tells whether it is a DELETE. *)
OpOK == \A h \in Handlers : /\ hpc[h] \in EnsureSteps => hop[h] # "delete"
                            /\ hpc[h] \in {"closeDb", "pop"} => hop[h] = "delete"

(* A request between claiming a session and its finally block ... *)
Owning(h) == \/ hpc[h] \in {"build", "confirm", "install", "release", "releaseFail"}
             \/ hpc[h] \in {"close", "join"} /\ hop[h] # "delete"

(* ... is the one the session's Event belongs to, *)
EventOwned == \A h \in Handlers : Owning(h) => initializing[hsess[h]] = h

(* and the registry stays empty until it installs the runtime. *)
Unloaded == \A h \in Handlers :
                hpc[h] \in {"build", "confirm", "install"} => registry[hsess[h]] = None

Claims == OpOK /\ EventOwned /\ Unloaded

(* Requests and runtimes are of sessions that were created, and a runtime  *)
(* is taken down only for a session that is not active.                    *)
Created == /\ \A h \in Handlers : hpc[h] # "idle" => sess[hsess[h]] # "absent"
           /\ \A r \in Runtimes : rsess[r] # None => sess[rsess[r]] # "absent"
           /\ \A h \in Handlers : hpc[h] \in {"pop", "close", "join"}
                                      => sess[hsess[h]] # "active"

(* A process that is down has no threads and no objects. *)
DownClean == phase = "down" => /\ \A h \in Handlers : hpc[h] = "idle"
                               /\ \A r \in Runtimes : rsess[r] = None

(* A request is about to use r, or r has work. *)
InUse(r) == \/ Busy(r)
            \/ \E h \in Handlers : hpc[h] \in {"release", "submit"} /\ hrt[h] = r

(* While the server is up a runtime in use of an active session is the one *)
(* in the registry, so a second one of that session has no work.           *)
Installed == phase = "up" =>
    \A r \in Runtimes : (InUse(r) /\ rsess[r] # None /\ sess[rsess[r]] = "active")
                            => registry[rsess[r]] = r

SingleBusy == phase = "up" =>
    \A r1, r2 \in Runtimes :
        (Busy(r1) /\ Busy(r2) /\ rsess[r1] = rsess[r2]) => r1 = r2

-----------------------------------------------------------------------------
(* Construction *)

(* A handler step moves its own request and at most wakes waiting ones.    *)
LEMMA OthersStay ==
    ASSUME Typed, NEW h \in Handlers, HandlerStep(h)
    PROVE  /\ \A x \in Handlers : x # h =>
                  /\ hpc'[x] = hpc[x] \/ (hpc[x] = "wait" /\ hpc'[x] = "recheck")
                  /\ hop'[x] = hop[x] /\ hsess'[x] = hsess[x] /\ hrt'[x] = hrt[x]
           /\ hpc'[h] # "idle" => hop'[h] = hop[h] /\ hsess'[h] = hsess[h]
<1> USE DEF Typed, TypeOK, HandlersTyped
<1>1. ASSUME NEW p, NEW r, GotoWith(h, p, r)
      PROVE  /\ \A x \in Handlers : x # h =>
                    /\ hpc'[x] = hpc[x]
                    /\ hop'[x] = hop[x] /\ hsess'[x] = hsess[x] /\ hrt'[x] = hrt[x]
             /\ hpc'[h] # "idle" => hop'[h] = hop[h] /\ hsess'[h] = hsess[h]
  BY <1>1 DEF GotoWith, Locals
<1>2. CASE Release(h)
  BY <1>2 DEF Release, Locals, Woken
<1>3. CASE ~Release(h)
  <2>1. \E p, r : GotoWith(h, p, r)
    BY HandlerStep(h), <1>3
       DEF HandlerStep, RequireActive, Lookup, Build, BuildFails, Confirm, Install, Submit,
           SubmitRejected, CloseSession, PopRuntime, CloseRuntime, Join, RemoveDir, Rollback,
           Goto
  <2> QED
    BY <1>1, <2>1
<1> QED
  BY <1>2, <1>3

(* A handler step touches the registry and the Event of its own session    *)
(* only: it takes an Event nobody has or drops its own, and publishes a    *)
(* runtime only while it owns the Event.                                   *)
LEMMA OwnSessionOnly ==
    ASSUME Typed, Claims, NEW h \in Handlers, HandlerStep(h), NEW s \in Sessions
    PROVE  /\ \/ initializing'[s] = initializing[s]
              \/ s = hsess[h] /\ initializing[s] \in {None, h}
           /\ \/ registry'[s] \in {registry[s], None}
              \/ s = hsess[h] /\ initializing[s] = h
<1> USE DEF Typed, TypeOK, RegistryTyped
<1>1. CASE Lookup(h)
  BY <1>1 DEF Lookup, Claimable
<1>2. CASE Install(h)
  BY <1>2 DEF Install, Claims, EventOwned, Owning
<1>3. CASE Release(h)
  BY <1>3 DEF Release, Claims, EventOwned, Owning
<1>4. CASE PopRuntime(h)
  BY <1>4 DEF PopRuntime
<1>5. CASE UNCHANGED reg
  BY <1>5 DEF reg
<1> QED
  BY HandlerStep(h), <1>1, <1>2, <1>3, <1>4, <1>5
     DEF HandlerStep, RequireActive, Build, BuildFails, Confirm, Submit, SubmitRejected,
         CloseSession, CloseRuntime, Join, RemoveDir, Rollback, reg

(* The request that moves keeps its own claim. *)
LEMMA OwnClaim ==
    ASSUME Typed, Claims, NEW h \in Handlers, HandlerStep(h)
    PROVE  /\ hpc'[h] \in EnsureSteps => hop[h] # "delete"
           /\ hpc'[h] \in {"closeDb", "pop"} => hop[h] = "delete"
           /\ Owning(h)' => initializing'[hsess[h]] = h
           /\ hpc'[h] \in {"build", "confirm", "install"} => registry'[hsess[h]] = None
<1> USE ConstantsAssumption
    DEF Typed, TypeOK, HandlersTyped, RegistryTyped, HandlersOK, Claims, OpOK, EventOwned,
        Unloaded, Owning, EnsureSteps, GotoWith, Goto, Locals, reg
<1>1. CASE RequireActive(h)
  BY <1>1 DEF RequireActive, Raised
<1>2. CASE Lookup(h)
  BY <1>2 DEF Lookup, Returned, Claimable
<1>3. CASE Build(h)
  BY <1>3 DEF Build
<1>4. CASE BuildFails(h)
  BY <1>4 DEF BuildFails
<1>5. CASE Confirm(h)
  BY <1>5 DEF Confirm
<1>6. CASE Install(h)
  BY <1>6 DEF Install
<1>7. CASE Release(h)
  BY <1>7 DEF Release, Returned, Raised
<1>8. CASE Submit(h) \/ SubmitRejected(h)
  BY <1>8 DEF Submit, SubmitRejected
<1>9. CASE CloseSession(h)
  BY <1>9 DEF CloseSession
<1>10. CASE PopRuntime(h)
  BY <1>10 DEF PopRuntime
<1>11. CASE CloseRuntime(h)
  BY <1>11 DEF CloseRuntime
<1>12. CASE Join(h)
  BY <1>12 DEF Join
<1>13. CASE RemoveDir(h)
  BY <1>13 DEF RemoveDir
<1>14. CASE Rollback(h)
  BY <1>14 DEF Rollback
<1> QED
  BY HandlerStep(h), <1>1, <1>2, <1>3, <1>4, <1>5, <1>6, <1>7, <1>8, <1>9, <1>10,
     <1>11, <1>12, <1>13, <1>14 DEF HandlerStep

(* No step of the server lets two requests claim one session. *)
LEMMA NextClaims == Typed /\ Claims /\ [Next]_vars => Claims'
<1> SUFFICES ASSUME Typed, Claims, [Next]_vars PROVE Claims'
  OBVIOUS
<1>1. ASSUME NEW h \in Handlers, HandlerStep(h) PROVE Claims'
  <2>1. ASSUME NEW x \in Handlers, x # h
        PROVE  /\ hpc'[x] = hpc[x] \/ (hpc[x] = "wait" /\ hpc'[x] = "recheck")
               /\ hop'[x] = hop[x] /\ hsess'[x] = hsess[x]
    BY <1>1, <2>1, OthersStay
  <2>2. OpOK'
    <3>1. ASSUME NEW x \in Handlers, x # h
          PROVE  /\ hpc'[x] \in EnsureSteps => hop'[x] # "delete"
                 /\ hpc'[x] \in {"closeDb", "pop"} => hop'[x] = "delete"
      BY <2>1, <3>1 DEF Claims, OpOK, EnsureSteps
    <3>2. /\ hpc'[h] \in EnsureSteps => hop'[h] # "delete"
          /\ hpc'[h] \in {"closeDb", "pop"} => hop'[h] = "delete"
      BY <1>1, OthersStay, OwnClaim DEF EnsureSteps
    <3> QED
      BY <3>1, <3>2 DEF OpOK
  <2>3. ASSUME NEW x \in Handlers, Owning(x)' PROVE initializing'[hsess'[x]] = x
    <3>1. CASE x = h
      BY <1>1, <2>3, <3>1, OthersStay, OwnClaim DEF Owning
    <3>2. CASE x # h
      <4>1. Owning(x) /\ hsess[x] \in Sessions /\ initializing[hsess[x]] = x
        BY <2>1, <2>3, <3>2 DEF Owning, Claims, EventOwned, Typed, HandlersOK
      <4>2. initializing'[hsess[x]] = initializing[hsess[x]]
        BY <1>1, <3>2, <4>1, OwnSessionOnly, ConstantsAssumption
      <4> QED
        BY <2>1, <3>2, <4>1, <4>2
    <3> QED
      BY <3>1, <3>2
  <2>4. ASSUME NEW x \in Handlers, hpc'[x] \in {"build", "confirm", "install"}
        PROVE  registry'[hsess'[x]] = None
    <3>1. CASE x = h
      BY <1>1, <2>4, <3>1, OthersStay, OwnClaim
    <3>2. CASE x # h
      <4>1. Owning(x) /\ hsess[x] \in Sessions /\ initializing[hsess[x]] = x
            /\ registry[hsess[x]] = None
        BY <2>1, <2>4, <3>2 DEF Owning, Claims, EventOwned, Unloaded, Typed, HandlersOK
      <4>2. registry'[hsess[x]] = None
        BY <1>1, <3>2, <4>1, OwnSessionOnly
      <4> QED
        BY <2>1, <3>2, <4>2
    <3> QED
      BY <3>1, <3>2
  <2> QED
    BY <2>2, <2>3, <2>4 DEF Claims, EventOwned, Unloaded
<1>2. ASSUME NEW h \in Handlers, Request(h) PROVE Claims'
  <2>1. PICK s \in Sessions : \/ Begin(h, "create", s, "check")
                              \/ Begin(h, "turn", s, "check")
                              \/ Begin(h, "delete", s, "closeDb")
    BY <1>2 DEF Request, CreateSession, CreateTurn, DeleteSession
  <2>2. ASSUME NEW x \in Handlers, x # h
        PROVE  hpc'[x] = hpc[x] /\ hop'[x] = hop[x] /\ hsess'[x] = hsess[x]
    BY <2>1, <2>2 DEF Begin, Typed, TypeOK, HandlersTyped
  <2>3. /\ \/ hpc'[h] = "check" /\ hop'[h] \in {"create", "turn"}
           \/ hpc'[h] = "closeDb" /\ hop'[h] = "delete"
        /\ UNCHANGED <<registry, initializing>>
    BY <2>1 DEF Begin, Typed, TypeOK, HandlersTyped, reg
  <2>4. OpOK'
    <3>1. ASSUME NEW x \in Handlers, x # h
          PROVE  /\ hpc'[x] \in EnsureSteps => hop'[x] # "delete"
                 /\ hpc'[x] \in {"closeDb", "pop"} => hop'[x] = "delete"
      BY <2>2, <3>1 DEF Claims, OpOK
    <3>2. /\ hpc'[h] \in EnsureSteps => hop'[h] # "delete"
          /\ hpc'[h] \in {"closeDb", "pop"} => hop'[h] = "delete"
      BY <2>3 DEF EnsureSteps
    <3> QED
      BY <3>1, <3>2 DEF OpOK
  <2>5. EventOwned' /\ Unloaded'
    BY <2>2, <2>3 DEF Claims, EventOwned, Unloaded, Owning
  <2> QED
    BY <2>4, <2>5 DEF Claims
<1>3. CASE Shutdown
  BY <1>3 DEF Shutdown, Claims, OpOK, EventOwned, Unloaded, Owning, handlers, Typed, HandlersOK
<1>4. CASE Exit \/ Crash
  BY <1>4 DEF Exit, Crash, MemoryLost, OfHandlers, OfSessions, Claims, OpOK, EventOwned,
              Unloaded, Owning, EnsureSteps
<1>5. CASE UNCHANGED <<handlers, reg>>
  BY <1>5 DEF handlers, reg, Claims, OpOK, EventOwned, Unloaded, Owning
<1>6. ASSUME NEW r \in Runtimes, WorkerStep(r) \/ TouchDir(r) PROVE Claims'
  BY <1>5, <1>6 DEF WorkerStep, TouchDir, TakeTurn, TakeStop, SetTurnRunning, RunAgent,
                    PersistSnapshot, FinishTurnSuccess, FinishTurnFailure, UpdateTurn,
                    Cleanup, WorkerExit
<1>7. CASE Startup \/ RivalStartup \/ UNCHANGED vars
  BY <1>5, <1>7 DEF Startup, RivalStartup, vars
<1> QED
  BY <1>1, <1>2, <1>3, <1>4, <1>6, <1>7 DEF Next

(* However many requests race for a session, the Event protocol lets one   *)
(* construct its runtime at a time, and never beside an installed one.     *)
THEOREM OneBuilder == Spec => []ConstructionIsExclusive
<1>1. Init => Claims
  BY DEF Init, OfHandlers, OfSessions, Claims, OpOK, EventOwned, Unloaded, Owning, EnsureSteps
<1>2. Typed /\ Claims => ConstructionIsExclusive
  BY DEF Typed, Claims, EventOwned, Unloaded, Owning, ConstructionIsExclusive
<1> QED
  BY InitTyped, NextTyped, NextClaims, <1>1, <1>2, PTL DEF Spec

-----------------------------------------------------------------------------
(* Work *)

(* Sessions only move on: a row once created stays, and one that is not    *)
(* active never becomes active.                                            *)
LEMMA SessionsMoveOn ==
    ASSUME Typed, [Next]_vars, NEW s \in Sessions
    PROVE  /\ sess[s] # "absent" => sess'[s] # "absent"
           /\ sess'[s] = "active" => sess[s] \in {"absent", "active"}
<1> USE DEF Typed, TypeOK, TablesTyped
<1>1. ASSUME NEW h \in Handlers, Request(h)
      PROVE  sess' = sess \/ \E z \in Sessions : sess[z] = "absent"
                                                 /\ sess' = [sess EXCEPT ![z] = "active"]
  BY <1>1 DEF Request, CreateSession, CreateTurn, DeleteSession
<1>2. ASSUME NEW h \in Handlers, HandlerStep(h)
      PROVE  sess' = sess \/ \E to \in {"closed", "deleted"} :
                                    sess' = [sess EXCEPT ![hsess[h]] = to]
  BY <1>2 DEF HandlerStep, RequireActive, Lookup, Build, BuildFails, Confirm, Install, Release,
              Submit, SubmitRejected, CloseSession, PopRuntime, CloseRuntime, Join, RemoveDir,
              Rollback, tables
<1>3. ASSUME NEW r \in Runtimes, WorkerStep(r) \/ TouchDir(r) PROVE sess' = sess
  BY <1>3 DEF WorkerStep, TouchDir, TakeTurn, TakeStop, SetTurnRunning, RunAgent,
              PersistSnapshot, FinishTurnSuccess, FinishTurnFailure, UpdateTurn, Cleanup,
              WorkerExit, tables
<1>4. CASE Startup \/ Shutdown \/ Exit \/ Crash \/ RivalStartup \/ UNCHANGED vars
  BY <1>4 DEF Startup, Shutdown, Exit, Crash, MemoryLost, RivalStartup, vars, tables
<1>5. CASE \E h \in Handlers : Request(h)
  BY <1>1, <1>5
<1>6. CASE \E h \in Handlers : HandlerStep(h)
  BY <1>2, <1>6
<1> QED
  BY <1>3, <1>4, <1>5, <1>6 DEF Next

(* A runtime that is not built has no work. *)
LEMMA UnbuiltIsIdle ==
    ASSUME Typed, NEW r \in Runtimes, rsess[r] = None PROVE ~Busy(r)
<1>1. wpc[r] \notin Working /\ pending[r] = 0
  BY DEF Typed, WorkersOK, Working
<1>2. active[r] \notin Turns
  BY <1>1 DEF Typed, WorkersOK
<1>3. active[r] = None
  BY <1>2 DEF Typed, TypeOK, RuntimesTyped
<1> QED
  BY <1>1, <1>3 DEF Busy

(* The effects of a handler step on runtimes: only Build gives one a       *)
(* session, only Submit gives one work.                                    *)
LEMMA WorkComesFromSubmit ==
    ASSUME Typed, NEW h \in Handlers, HandlerStep(h)
    PROVE  /\ phase' = phase
           /\ ~Build(h) => rsess' = rsess
           /\ ~Submit(h) => UNCHANGED <<pending, active>>
BY DEF HandlerStep, RequireActive, Lookup, Build, BuildFails, Confirm, Install, Release,
       Submit, SubmitRejected, CloseSession, PopRuntime, CloseRuntime, Join, RemoveDir,
       Rollback, runtimes

(* A worker step touches no request, and takes work only from its queue.   *)
LEMMA WorkerKeepsWork ==
    ASSUME Typed, QueuesOK, NEW r \in Runtimes, WorkerStep(r) \/ TouchDir(r)
    PROVE  /\ UNCHANGED <<phase, reg, handlers, rsess>>
           /\ \A q \in Runtimes : Busy(q)' => Busy(q)
<1>1. UNCHANGED <<phase, reg, handlers, rsess>>
  BY DEF WorkerStep, TouchDir, TakeTurn, TakeStop, SetTurnRunning, RunAgent, PersistSnapshot,
         FinishTurnSuccess, FinishTurnFailure, UpdateTurn, Cleanup, WorkerExit, runtimes
<1>2. CASE TakeTurn(r)
  <2>1. pending[r] = 1
    BY <1>2 DEF TakeTurn, QueuesOK, QueueShape
  <2> QED
    BY <1>2, <2>1 DEF TakeTurn, Busy, Typed, TypeOK, RuntimesTyped
<1>3. CASE Cleanup(r)
  BY <1>3 DEF Cleanup, Busy, Typed, TypeOK, RuntimesTyped
<1>4. CASE ~TakeTurn(r) /\ ~Cleanup(r)
  <2>1. UNCHANGED <<pending, active>>
    BY <1>4 DEF WorkerStep, TouchDir, TakeStop, SetTurnRunning, RunAgent, PersistSnapshot,
                FinishTurnSuccess, FinishTurnFailure, UpdateTurn, WorkerExit, runtimes
  <2> QED
    BY <1>1, <2>1 DEF Busy
<1> QED
  BY <1>1, <1>2, <1>3, <1>4

(* Threads and runtimes of a session exist only after its row does, and    *)
(* close() is reached only once the row is closed or gone.                 *)
LEMMA NextCreated == Typed /\ Claims /\ Created /\ [Next]_vars => Created'
<1> SUFFICES ASSUME Typed, Claims, Created, [Next]_vars PROVE Created'
  OBVIOUS
<1> DEFINE HandlersCreated ==
               \A h \in Handlers : /\ hpc[h] # "idle" => sess[hsess[h]] # "absent"
                                   /\ hpc[h] \in {"pop", "close", "join"}
                                         => sess[hsess[h]] # "active"
           RuntimesCreated ==
               \A r \in Runtimes : rsess[r] # None => sess[rsess[r]] # "absent"
<1>1. Created <=> HandlersCreated /\ RuntimesCreated
  BY DEF Created
<1>2. Created' <=> HandlersCreated' /\ RuntimesCreated'
  BY DEF Created
<1>3. ASSUME NEW x \in Handlers, hpc[x] # "idle", hsess'[x] = hsess[x]
      PROVE  /\ hsess[x] \in Sessions
             /\ sess'[hsess'[x]] # "absent"
             /\ sess[hsess[x]] # "active" => sess'[hsess'[x]] # "active"
  BY <1>1, <1>3, SessionsMoveOn DEF Typed, HandlersOK
<1>4. ASSUME rsess' = rsess PROVE RuntimesCreated'
  BY <1>1, <1>4, SessionsMoveOn DEF Typed, TypeOK, RuntimesTyped
<1> HIDE DEF HandlersCreated, RuntimesCreated
<1>5. ASSUME handlers' = handlers PROVE HandlersCreated'
  BY <1>1, <1>3, <1>5 DEF HandlersCreated, handlers
<1>6. ASSUME NEW h \in Handlers, HandlerStep(h) PROVE Created'
  <2>1. hpc[h] # "idle" /\ hsess[h] \in Sessions
    BY <1>6 DEF HandlerStep, RequireActive, Lookup, Build, BuildFails, Confirm, Install,
                Release, Submit, SubmitRejected, CloseSession, PopRuntime, CloseRuntime, Join,
                RemoveDir, Rollback, Typed, HandlersOK
  <2>2. ASSUME hpc'[h] \in {"pop", "close", "join"} PROVE sess'[hsess[h]] # "active"
    <3> USE DEF Typed, TypeOK, HandlersTyped, TablesTyped, tables
    <3>1. CASE Confirm(h)
      BY <2>1, <3>1, <2>2 DEF Confirm, Goto, GotoWith, SessionActive
    <3>2. CASE CloseSession(h)
      BY <2>1, <3>2, <2>2 DEF CloseSession, Goto, GotoWith
    <3>3. CASE PopRuntime(h) \/ CloseRuntime(h)
      BY <1>1, <3>3 DEF PopRuntime, CloseRuntime, HandlersCreated
    <3>4. CASE RequireActive(h) \/ Lookup(h) \/ Submit(h) \/ SubmitRejected(h)
      BY <2>2, <3>4 DEF RequireActive, Lookup, Submit, SubmitRejected, Goto, GotoWith,
                        Raised, Returned
    <3>5. CASE Build(h) \/ BuildFails(h) \/ Install(h) \/ Release(h)
      BY <2>2, <3>5 DEF Build, BuildFails, Install, Release, Goto, GotoWith, Raised, Returned
    <3>6. CASE Join(h) \/ RemoveDir(h) \/ Rollback(h)
      BY <2>2, <3>6 DEF Join, RemoveDir, Rollback, Goto, GotoWith
    <3> QED
      BY <1>6, <3>1, <3>2, <3>3, <3>4, <3>5, <3>6 DEF HandlerStep
  <2>3. ASSUME NEW x \in Handlers, hpc'[x] # "idle"
        PROVE  /\ hpc[x] # "idle" /\ hsess'[x] = hsess[x]
               /\ x # h => hpc'[x] = hpc[x] \/ hpc'[x] = "recheck"
    BY <1>6, <2>1, <2>3, OthersStay
  <2>4. HandlersCreated'
    BY <1>1, <1>3, <2>2, <2>3 DEF HandlersCreated
  <2>5. RuntimesCreated'
    <3>1. CASE Build(h)
      BY <1>1, <1>3, <2>1, <3>1 DEF Build, tables, RuntimesCreated, HandlersCreated,
                                    Typed, TypeOK, RuntimesTyped
    <3> QED
      BY <1>4, <1>6, <3>1, WorkComesFromSubmit
  <2> QED
    BY <1>2, <2>4, <2>5
<1>7. ASSUME NEW h \in Handlers, Request(h) PROVE Created'
  <2>1. PICK s \in Sessions, pc \in {"check", "closeDb"} :
             /\ sess'[s] # "absent" /\ hpc[h] = "idle"
             /\ hpc' = [hpc EXCEPT ![h] = pc] /\ hsess' = [hsess EXCEPT ![h] = s]
             /\ rsess' = rsess
    BY <1>7 DEF Request, CreateSession, CreateTurn, DeleteSession, Begin, runtimes,
                Typed, TypeOK, TablesTyped
  <2>2. HandlersCreated'
    BY <1>1, <1>3, <2>1 DEF HandlersCreated, Typed, TypeOK, HandlersTyped
  <2> QED
    BY <1>2, <1>4, <2>1, <2>2
<1>8. ASSUME NEW r \in Runtimes, WorkerStep(r) \/ TouchDir(r) PROVE Created'
  <2>1. UNCHANGED <<handlers, rsess>>
    BY <1>8 DEF WorkerStep, TouchDir, TakeTurn, TakeStop, SetTurnRunning, RunAgent,
                PersistSnapshot, FinishTurnSuccess, FinishTurnFailure, UpdateTurn, Cleanup,
                WorkerExit, runtimes
  <2> QED
    BY <1>2, <1>4, <1>5, <2>1
<1>9. CASE Exit \/ Crash
  BY <1>9 DEF Exit, Crash, MemoryLost, OfHandlers, OfRuntimes, Created
<1>10. CASE Startup \/ Shutdown \/ RivalStartup \/ UNCHANGED vars
  BY <1>2, <1>4, <1>5, <1>10 DEF Startup, Shutdown, RivalStartup, vars, runtimes
<1> QED
  BY <1>6, <1>7, <1>8, <1>9, <1>10 DEF Next

(* A process that is down stays empty until it starts. *)
LEMMA NextDownClean == Typed /\ DownClean /\ [Next]_vars => DownClean'
<1> SUFFICES ASSUME Typed, DownClean, [Next]_vars, phase' = "down" PROVE DownClean'
  BY DEF DownClean
<1>1. CASE Exit \/ Crash
  BY <1>1 DEF Exit, Crash, MemoryLost, OfHandlers, OfRuntimes, DownClean
<1>2. CASE RivalStartup \/ UNCHANGED vars
  BY <1>2 DEF RivalStartup, vars, handlers, runtimes, DownClean
<1>3. CASE Startup \/ Shutdown
  BY <1>3 DEF Startup, Shutdown
<1>4. ASSUME NEW h \in Handlers, Request(h) PROVE FALSE
  BY <1>4 DEF Request, CreateSession, CreateTurn, DeleteSession, Begin
<1>5. ASSUME NEW h \in Handlers, HandlerStep(h) PROVE FALSE
  <2>1. hpc[h] = "idle"
    BY <1>5, WorkComesFromSubmit DEF DownClean
  <2> QED
    BY <1>5, <2>1 DEF HandlerStep, RequireActive, Lookup, Build, BuildFails, Confirm, Install,
                      Release, Submit, SubmitRejected, CloseSession, PopRuntime, CloseRuntime,
                      Join, RemoveDir, Rollback
<1>6. ASSUME NEW r \in Runtimes, WorkerStep(r) \/ TouchDir(r) PROVE DownClean'
  BY <1>6 DEF WorkerStep, TouchDir, TakeTurn, TakeStop, SetTurnRunning, RunAgent,
              PersistSnapshot, FinishTurnSuccess, FinishTurnFailure, UpdateTurn, Cleanup,
              WorkerExit, runtimes, handlers, DownClean
<1> QED
  BY <1>1, <1>2, <1>3, <1>4, <1>5, <1>6 DEF Next

(* A handler step that leaves r in use found it in use, or took it from     *)
(* the registry, or put it there.                                           *)
LEMMA UseComesFromRegistry ==
    ASSUME Typed, Claims, NEW h \in Handlers, HandlerStep(h), NEW r \in Runtimes,
           InUse(r)', rsess'[r] # None
    PROVE  /\ rsess'[r] = rsess[r]
           /\ \/ InUse(r)
              \/ registry'[rsess[r]] = r
<1> USE ConstantsAssumption DEF Typed, TypeOK, HandlersTyped
<1>1. ASSUME NEW x \in Handlers, x # h, hpc'[x] \in {"release", "submit"}, hrt'[x] = r
      PROVE  InUse(r) /\ rsess[r] # None
  <2>1. hpc[x] \in {"release", "submit"} /\ hrt[x] = r
    BY <1>1, OthersStay
  <2> QED
    BY <2>1 DEF InUse, HandlersOK, WithRuntime
<1>2. CASE Build(h)
  <2>1. hpc'[h] = "confirm" /\ UNCHANGED <<pending, active>>
    BY <1>2 DEF Build, GotoWith
  <2>2. InUse(r)
    BY <1>1, <2>1 DEF InUse, Busy
  <2>3. rsess[r] # None
    <3>1. CASE Busy(r)
      BY <3>1, UnbuiltIsIdle
    <3>2. CASE \E x \in Handlers : hpc[x] \in {"release", "submit"} /\ hrt[x] = r
      BY <3>2 DEF HandlersOK, WithRuntime
    <3> QED
      BY <2>2, <3>1, <3>2 DEF InUse
  <2> QED
    BY <1>2, <2>2, <2>3 DEF Build, RuntimesTyped
<1>3. CASE Submit(h)
  <2>1. InUse(hrt[h]) /\ hpc'[h] = "idle" /\ rsess' = rsess
    BY <1>3 DEF Submit, InUse, Goto, GotoWith
  <2>2. CASE Busy(r)'
    <3>1. r = hrt[h] \/ Busy(r)
      BY <1>3, <2>2 DEF Submit, Busy, RuntimesTyped
    <3> QED
      BY <2>1, <3>1 DEF InUse
  <2> QED
    BY <1>1, <2>1, <2>2 DEF InUse
<1>4. CASE ~Build(h) /\ ~Submit(h)
  <2>1. UNCHANGED <<rsess, pending, active>>
    BY <1>4, WorkComesFromSubmit
  <2>2. CASE hpc'[h] \in {"release", "submit"} /\ hrt'[h] = r
    <3>1. CASE Lookup(h)
      <4>1. hsess[h] \in Sessions /\ registry' = registry
        BY <3>1 DEF Lookup, HandlersOK
      <4>2. \/ registry[hsess[h]] # None /\ GotoWith(h, Returned(h), registry[hsess[h]])
            \/ Goto(h, "wait") \/ Goto(h, "build")
        BY <3>1 DEF Lookup
      <4>3. registry[hsess[h]] = r /\ r # None
        BY <2>2, <4>2 DEF Goto, GotoWith, Locals
      <4> QED
        BY <2>1, <4>1, <4>3 DEF RegistryOK
    <3>2. CASE Install(h)
      <4>1. hsess[h] \in Sessions /\ registry[hsess[h]] = None /\ rsess[hrt[h]] = hsess[h]
        BY <3>2 DEF Install, HandlersOK, WithRuntime, Claims, Unloaded
      <4>2. /\ registry' = [registry EXCEPT ![hsess[h]] = hrt[h]]
            /\ Goto(h, "release")
        BY <3>2, <4>1 DEF Install
      <4>3. hrt'[h] = hrt[h]
        BY <4>2 DEF Goto, GotoWith, Locals
      <4> QED
        BY <2>1, <2>2, <4>1, <4>2, <4>3 DEF RegistryTyped
    <3>3. CASE Release(h)
      <4>1. hpc'[h] = (IF hpc[h] = "release" THEN Returned(h) ELSE Raised(h))
            /\ Locals(h, hpc'[h], hrt[h])
        BY <3>3 DEF Release
      <4>2. hpc[h] = "release"
        BY <2>2, <4>1 DEF Raised
      <4>3. hrt[h] = r
        BY <2>2, <4>1 DEF Locals
      <4> QED
        BY <2>1, <4>2, <4>3 DEF InUse
    <3>4. CASE ~Lookup(h) /\ ~Install(h) /\ ~Release(h)
      <4>1. \E p, q : GotoWith(h, p, q) /\ p \notin {"release", "submit"}
        BY <1>4, <3>4 DEF HandlerStep, RequireActive, BuildFails, Confirm, SubmitRejected,
                          CloseSession, PopRuntime, CloseRuntime, Join, RemoveDir, Rollback,
                          Goto, Raised
      <4> QED
        BY <2>2, <4>1 DEF GotoWith
    <3> QED
      BY <2>1, <3>1, <3>2, <3>3, <3>4
  <2>3. CASE ~(hpc'[h] \in {"release", "submit"} /\ hrt'[h] = r)
    BY <1>1, <2>1, <2>3 DEF InUse, Busy
  <2> QED
    BY <2>1, <2>2, <2>3
<1> QED
  BY <1>2, <1>3, <1>4

Exclusion == Claims /\ Created /\ DownClean /\ Installed /\ SingleBusy

(* A runtime in use of an active session stays the registered one: only    *)
(* DELETE takes it out, after the row is closed, and nothing is installed  *)
(* over it.                                                                *)
LEMMA NextInstalled == Typed /\ QueuesOK /\ Exclusion /\ [Next]_vars => Installed'
<1> SUFFICES ASSUME Typed, QueuesOK, Exclusion, [Next]_vars, phase' = "up",
                    NEW r \in Runtimes, InUse(r)', rsess'[r] # None,
                    sess'[rsess'[r]] = "active"
             PROVE  registry'[rsess'[r]] = r
  BY DEF Installed
<1>1. ASSUME rsess'[r] = rsess[r]
      PROVE  rsess[r] \in Sessions /\ sess[rsess[r]] = "active"
  <2>1. rsess[r] \in Sessions /\ sess[rsess[r]] # "absent"
    BY <1>1 DEF Typed, TypeOK, RuntimesTyped, Exclusion, Created
  <2> QED
    BY <1>1, <2>1, SessionsMoveOn
<1>2. ASSUME phase = "up", InUse(r), rsess'[r] = rsess[r], registry' = registry
      PROVE  registry'[rsess'[r]] = r
  BY <1>1, <1>2 DEF Exclusion, Installed
<1>3. ASSUME NEW h \in Handlers, HandlerStep(h) PROVE registry'[rsess'[r]] = r
  <2>1. phase = "up"
    BY <1>3, WorkComesFromSubmit
  <2>2. rsess'[r] = rsess[r] /\ (InUse(r) \/ registry'[rsess[r]] = r)
    BY <1>3, UseComesFromRegistry DEF Exclusion
  <2>3. CASE InUse(r)
    <3>1. registry[rsess[r]] = r /\ rsess[r] \in Sessions /\ sess[rsess[r]] = "active"
      BY <1>1, <2>1, <2>2, <2>3 DEF Exclusion, Installed
    <3>2. CASE PopRuntime(h)
      <4>1. hsess[h] # rsess[r]
        BY <3>1, <3>2 DEF PopRuntime, Exclusion, Created
      <4> QED
        BY <2>2, <3>1, <3>2, <4>1 DEF PopRuntime, Typed, TypeOK, RegistryTyped
    <3>3. CASE Install(h)
      <4>1. registry[hsess[h]] = None
        BY <3>3 DEF Install, Exclusion, Claims, Unloaded
      <4>2. hsess[h] # rsess[r]
        BY <3>1, <4>1, ConstantsAssumption
      <4> QED
        BY <2>2, <3>1, <3>3, <4>2 DEF Install, Typed, TypeOK, RegistryTyped
    <3>4. CASE ~PopRuntime(h) /\ ~Install(h)
      <4>1. registry' = registry
        BY <1>3, <3>4
           DEF HandlerStep, RequireActive, Lookup, Build, BuildFails, Confirm, Release, Submit,
               SubmitRejected, CloseSession, CloseRuntime, Join, RemoveDir, Rollback, reg
      <4> QED
        BY <2>2, <3>1, <4>1
    <3> QED
      BY <3>2, <3>3, <3>4
  <2> QED
    BY <2>2, <2>3
<1>4. ASSUME NEW h \in Handlers, Request(h) PROVE registry'[rsess'[r]] = r
  <2>1. UNCHANGED <<phase, reg, runtimes, hrt>>
    BY <1>4 DEF Request, CreateSession, CreateTurn, DeleteSession, Begin
  <2>2. InUse(r)
    BY <1>4, <2>1 DEF Request, CreateSession, CreateTurn, DeleteSession, Begin, InUse, Busy,
                      runtimes, Typed, TypeOK, HandlersTyped
  <2> QED
    BY <1>2, <2>1, <2>2 DEF reg, runtimes
<1>5. ASSUME NEW q \in Runtimes, WorkerStep(q) \/ TouchDir(q)
      PROVE  registry'[rsess'[r]] = r
  <2>1. UNCHANGED <<phase, reg, handlers, rsess>> /\ (Busy(r)' => Busy(r))
    BY <1>5, WorkerKeepsWork
  <2>2. InUse(r)
    BY <2>1 DEF InUse, handlers
  <2> QED
    BY <1>2, <2>1, <2>2 DEF reg
<1>6. CASE Startup
  BY <1>6 DEF Startup, Exclusion, DownClean, runtimes
<1>7. CASE Shutdown \/ Exit \/ Crash
  BY <1>7 DEF Shutdown, Exit, Crash, MemoryLost
<1>8. CASE RivalStartup \/ UNCHANGED vars
  <2>1. UNCHANGED <<phase, reg, handlers, runtimes>>
    BY <1>8 DEF RivalStartup, vars
  <2>2. InUse(r)
    BY <2>1 DEF InUse, Busy, handlers, runtimes
  <2> QED
    BY <1>2, <2>1, <2>2 DEF reg, runtimes
<1> QED
  BY <1>3, <1>4, <1>5, <1>6, <1>7, <1>8 DEF Next

(* Only submit_turn gives a runtime work, and only to the registered one.  *)
LEMMA NextSingleBusy == Typed /\ QueuesOK /\ Exclusion /\ [Next]_vars => SingleBusy'
<1> SUFFICES ASSUME Typed, QueuesOK, Exclusion, [Next]_vars, phase' = "up"
             PROVE  \A r1, r2 \in Runtimes :
                        (Busy(r1)' /\ Busy(r2)' /\ rsess'[r1] = rsess'[r2]) => r1 = r2
  BY DEF SingleBusy
<1>1. ASSUME phase = "up", \A r \in Runtimes : Busy(r)' => Busy(r) /\ rsess'[r] = rsess[r]
      PROVE  \A r1, r2 \in Runtimes :
                 (Busy(r1)' /\ Busy(r2)' /\ rsess'[r1] = rsess'[r2]) => r1 = r2
  BY <1>1 DEF Exclusion, SingleBusy
<1>2. ASSUME NEW h \in Handlers, HandlerStep(h)
      PROVE  \A r1, r2 \in Runtimes :
                 (Busy(r1)' /\ Busy(r2)' /\ rsess'[r1] = rsess'[r2]) => r1 = r2
  <2>1. phase = "up"
    BY <1>2, WorkComesFromSubmit
  <2>2. CASE Submit(h)
    <3>1. hrt[h] \in Runtimes /\ rsess[hrt[h]] # None /\ sess[rsess[hrt[h]]] = "active"
          /\ InUse(hrt[h]) /\ rsess' = rsess
      BY <2>2, ConstantsAssumption
         DEF Submit, SessionActive, Typed, HandlersOK, WithRuntime, InUse
    <3>2. registry[rsess[hrt[h]]] = hrt[h]
      BY <2>1, <3>1 DEF Exclusion, Installed
    <3>3. ASSUME NEW r \in Runtimes, Busy(r)' PROVE r = hrt[h] \/ Busy(r)
      BY <2>2, <3>3 DEF Submit, Busy, Typed, TypeOK, RuntimesTyped
    <3>4. ASSUME NEW r \in Runtimes, Busy(r), rsess[r] = rsess[hrt[h]] PROVE r = hrt[h]
      BY <2>1, <3>1, <3>2, <3>4 DEF Exclusion, Installed, InUse
    <3> QED
      BY <2>1, <3>1, <3>3, <3>4 DEF Exclusion, SingleBusy
  <2>3. CASE Build(h)
    <3>1. UNCHANGED <<pending, active>>
      BY <2>3 DEF Build
    <3>2. ASSUME NEW r \in Runtimes, Busy(r)' PROVE Busy(r) /\ rsess'[r] = rsess[r]
      <4>1. Busy(r) /\ rsess[r] # None
        BY <3>1, <3>2, UnbuiltIsIdle DEF Busy
      <4> QED
        BY <2>3, <4>1 DEF Build, Typed, TypeOK, RuntimesTyped
    <3> QED
      BY <1>1, <2>1, <3>2
  <2>4. CASE ~Submit(h) /\ ~Build(h)
    <3>1. UNCHANGED <<rsess, pending, active>>
      BY <1>2, <2>4, WorkComesFromSubmit
    <3> QED
      BY <1>1, <2>1, <3>1 DEF Busy
  <2> QED
    BY <2>2, <2>3, <2>4
<1>3. ASSUME NEW q \in Runtimes, WorkerStep(q) \/ TouchDir(q)
      PROVE  \A r1, r2 \in Runtimes :
                 (Busy(r1)' /\ Busy(r2)' /\ rsess'[r1] = rsess'[r2]) => r1 = r2
  BY <1>1, <1>3, WorkerKeepsWork
<1>4. CASE Startup
  BY <1>4, UnbuiltIsIdle DEF Startup, Exclusion, DownClean, Busy, runtimes
<1>5. CASE Shutdown \/ Exit \/ Crash
  BY <1>5 DEF Shutdown, Exit, Crash, MemoryLost
<1>6. CASE RivalStartup \/ UNCHANGED vars \/ \E h \in Handlers : Request(h)
  <2>1. UNCHANGED <<phase, runtimes>>
    BY <1>6 DEF RivalStartup, vars, Request, CreateSession, CreateTurn, DeleteSession, Begin
  <2> QED
    BY <1>1, <2>1 DEF Busy, runtimes
<1> QED
  BY <1>2, <1>3, <1>4, <1>5, <1>6 DEF Next

(* What a runtime holds makes it busy, and it holds one turn.              *)
LEMMA HoldsOne ==
    ASSUME Typed, QueuesOK, NEW r \in Runtimes, NEW t \in Turns, Holds(r, t)
    PROVE  /\ Busy(r)
           /\ \A u \in Turns : Holds(r, u) => u = t
<1> USE ConstantsAssumption
<1>1. CASE queue[r] = <<>> \/ queue[r] = <<Stop>>
  <2>1. \A u \in Turns : ~Queued(r, u)
    BY <1>1 DEF Queued
  <2> QED
    BY <2>1 DEF Holds, Busy
<1>2. ASSUME NEW v \in Turns, pending[r] = 1, active[r] = None,
             queue[r] = <<v>> \/ queue[r] = <<v, Stop>>
      PROVE  Busy(r) /\ \A u \in Turns : Holds(r, u) => u = v
  <2>1. \A u \in Turns : Queued(r, u) => u = v
    <3>1. CASE queue[r] = <<v>>
      BY <3>1 DEF Queued
    <3>2. CASE queue[r] = <<v, Stop>>
      <4>1. Len(queue[r]) = 2 /\ queue[r][1] = v /\ queue[r][2] = Stop
        BY <3>2, TurnThenStop
      <4>2. \A i \in 1..Len(queue[r]) : i = 1 \/ i = 2
        BY <4>1
      <4> QED
        BY <4>1, <4>2 DEF Queued
    <3> QED
      BY <1>2, <3>1, <3>2
  <2> QED
    BY <1>2, <2>1 DEF Holds, Busy
<1> QED
  BY <1>1, <1>2 DEF QueuesOK, QueueShape

(* While the server is up, one session's work is in one worker's hands, one *)
(* turn at a time: whatever requests, deletions, roll-backs and worker      *)
(* failures interleave, and for any number of threads.                      *)
THEOREM OneWorker == Spec => []OneTurnInHand
<1>1. Init => QueuesOK /\ Exclusion
  BY DEF Init, QueuesOK, QueueShape, OfRuntimes, OfHandlers, OfSessions, Exclusion, Claims,
         OpOK, EventOwned, Unloaded, Owning, EnsureSteps, Created, DownClean, Installed,
         SingleBusy
<1>2. Typed /\ QueuesOK /\ Exclusion /\ [Next]_vars => Exclusion'
  BY NextClaims, NextCreated, NextDownClean, NextInstalled, NextSingleBusy DEF Exclusion
<1>3. Typed /\ QueuesOK /\ Exclusion => OneTurnInHand
  BY HoldsOne DEF Exclusion, SingleBusy, OneTurnInHand
<1> QED
  BY InitTyped, NextTyped, NextQueues, <1>1, <1>2, <1>3, PTL DEF Spec

-----------------------------------------------------------------------------
(* The turns table against the threads that work on it: no turn in flight  *)
(* is left without a worker, the tables move as TurnLedger promises, and   *)
(* DELETE leaves no directory.                                             *)

(* A turn in a queue or in a worker's hands was accepted for that runtime's *)
(* session, and no other runtime has it.                                    *)
HeldOK ==
    \A r \in Runtimes, t \in Turns :
        Holds(r, t) => /\ turn[t] # "none" /\ turnSess[t] = rsess[r]
                       /\ \A q \in Runtimes : Holds(q, t) => q = r

(* A worker about to let its turn go has written an outcome for it; when   *)
(* that write raised the worker is on its way out.                         *)
SettledOK ==
    \A r \in Runtimes :
        (wpc[r] = "cleanup" \/ (wpc[r] = "abort" /\ "db" \notin Faults))
            => ~InFlight(active[r])

(* A turn in flight is held by a runtime of its session; only a database   *)
(* that refuses a write ends a worker with the row still in flight.        *)
OwnedOK ==
    phase # "down" =>
    \A t \in Turns : InFlight(t) =>
        \E r \in Runtimes : /\ rsess[r] = turnSess[t]
                            /\ \/ Holds(r, t)
                               \/ "db" \in Faults /\ wpc[r] \in {"exit", "stopped"}

Ownership == HeldOK /\ SettledOK /\ OwnedOK

(* Mutual exclusion holds before anything is loaded. *)
LEMMA InitExclusion == Init => QueuesOK /\ Exclusion
BY DEF Init, QueuesOK, QueueShape, OfRuntimes, OfHandlers, OfSessions, Exclusion, Claims,
       OpOK, EventOwned, Unloaded, Owning, EnsureSteps, Created, DownClean, Installed,
       SingleBusy

(* Every step keeps the exclusion. *)
LEMMA NextExclusion == Typed /\ QueuesOK /\ Exclusion /\ [Next]_vars => Exclusion'
BY NextClaims, NextCreated, NextDownClean, NextInstalled, NextSingleBusy DEF Exclusion

-----------------------------------------------------------------------------
(* What a step does to the work in hand *)

(* Appending an item queues that item and keeps the others. *)
LEMMA AppendQueues ==
    ASSUME Typed, NEW r \in Runtimes, NEW e \in Turns \cup {Stop}, NEW t \in Turns,
           queue'[r] = Append(queue[r], e)
    PROVE  Queued(r, t)' <=> Queued(r, t) \/ t = e
<1> DEFINE q == queue[r]
<1>1. q \in Seq(Turns \cup {Stop})
  BY DEF Typed, TypeOK, RuntimesTyped
<1>2. /\ Len(Append(q, e)) = Len(q) + 1 /\ Len(q) \in Nat
      /\ \A i \in 1..Len(q) : Append(q, e)[i] = q[i]
      /\ Append(q, e)[Len(q) + 1] = e
  BY <1>1
<1> HIDE DEF q
<1>3. (\E i \in 1..Len(Append(q, e)) : Append(q, e)[i] = t)
         <=> (\E i \in 1..Len(q) : q[i] = t) \/ t = e
  BY <1>2
<1> QED
  BY <1>3 DEF q, Queued

(* The stop item is no turn, so close() changes nobody's work. *)
LEMMA StopKeepsQueued ==
    ASSUME Typed, NEW q \in Runtimes, SignalStop(q), NEW r \in Runtimes, NEW t \in Turns
    PROVE  Queued(r, t)' <=> Queued(r, t)
<1>1. CASE queue'[r] = queue[r]
  BY <1>1 DEF Queued
<1>2. CASE queue'[r] = Append(queue[r], Stop)
  BY <1>2, AppendQueues, ConstantsAssumption
<1> QED
  BY <1>1, <1>2 DEF SignalStop, Typed, TypeOK, RuntimesTyped

(* The worker's get() moves a turn from the queue to its hands. *)
LEMMA TakeKeepsHeld ==
    ASSUME Typed, QueuesOK, NEW q \in Runtimes, TakeTurn(q) \/ TakeStop(q),
           NEW r \in Runtimes, NEW t \in Turns
    PROVE  Holds(r, t)' <=> Holds(r, t)
<1> USE ConstantsAssumption
<1>1. CASE r # q
  BY <1>1 DEF TakeTurn, TakeStop, Holds, Queued, Typed, TypeOK, RuntimesTyped
<1>2. CASE r = q /\ TakeTurn(q)
  <2>1. PICK u \in Turns : /\ queue[r] = <<u>> \/ queue[r] = <<u, Stop>>
                           /\ active[r] = None
    BY <1>2 DEF TakeTurn, QueuesOK, QueueShape
  <2>2. queue'[r] = Tail(queue[r]) /\ active'[r] = Head(queue[r])
    BY <1>2 DEF TakeTurn, Typed, TypeOK, RuntimesTyped
  <2>3. (queue'[r] = <<>> \/ queue'[r] = <<Stop>>) /\ active'[r] = u
    <3>1. /\ Head(<<u>>) = u /\ Head(<<u, Stop>>) = u
          /\ Tail(<<u>>) = <<>> /\ Tail(<<u, Stop>>) = <<Stop>>
      BY TurnThenStop
    <3> QED
      BY <2>1, <2>2, <3>1, Zenon
  <2>4. ~Queued(r, t)'
    BY <2>3 DEF Queued
  <2>5. Queued(r, t) <=> t = u
    <3>1. CASE queue[r] = <<u>>
      BY <3>1 DEF Queued
    <3>2. CASE queue[r] = <<u, Stop>>
      <4>1. Len(queue[r]) = 2 /\ queue[r][1] = u /\ queue[r][2] = Stop
        BY <3>2, TurnThenStop
      <4>2. \A i \in 1..Len(queue[r]) : i = 1 \/ i = 2
        BY <4>1
      <4> QED
        BY <4>1, <4>2 DEF Queued
    <3> QED
      BY <2>1, <3>1, <3>2
  <2> QED
    BY <2>1, <2>3, <2>4, <2>5 DEF Holds
<1>3. CASE r = q /\ TakeStop(q)
  <2>1. queue[r] = <<Stop>>
    BY <1>3 DEF TakeStop, QueuesOK, QueueShape
  <2>2. queue'[r] = <<>> /\ active'[r] = active[r]
    BY <1>3, <2>1 DEF TakeStop, Typed, TypeOK, RuntimesTyped
  <2>3. ~Queued(r, t)' /\ ~Queued(r, t)
    BY <2>1, <2>2 DEF Queued
  <2> QED
    BY <2>2, <2>3 DEF Holds
<1> QED
  BY <1>1, <1>2, <1>3

(* submit_turn queues one new turn of the runtime's session. *)
LEMMA SubmitGivesWork ==
    ASSUME Typed, NEW h \in Handlers, Submit(h)
    PROVE  /\ hrt[h] \in Runtimes /\ rsess[hrt[h]] \in Sessions
           /\ rsess[hrt[h]] = hsess[h]
           /\ rsess' = rsess /\ wpc' = wpc
           /\ \E u \in Turns :
                 /\ turn[u] = "none"
                 /\ turn' = [turn EXCEPT ![u] = "queued"]
                 /\ turnSess' = [turnSess EXCEPT ![u] = rsess[hrt[h]]]
                 /\ \A r \in Runtimes, t \in Turns :
                       Holds(r, t)' <=> Holds(r, t) \/ (r = hrt[h] /\ t = u)
<1>1. hrt[h] \in Runtimes /\ rsess[hrt[h]] \in Sessions /\ rsess[hrt[h]] = hsess[h]
  BY DEF Submit, Typed, HandlersOK, WithRuntime
<1>2. PICK u \in Turns : /\ turn[u] = "none"
                         /\ turn' = [turn EXCEPT ![u] = "queued"]
                         /\ turnSess' = [turnSess EXCEPT ![u] = rsess[hrt[h]]]
                         /\ queue' = [queue EXCEPT ![hrt[h]] = Append(@, u)]
  BY DEF Submit
<1>3. rsess' = rsess /\ wpc' = wpc /\ active' = active
  BY DEF Submit
<1>4. ASSUME NEW r \in Runtimes, NEW t \in Turns
      PROVE  Holds(r, t)' <=> Holds(r, t) \/ (r = hrt[h] /\ t = u)
  <2>1. CASE r = hrt[h]
    <3>1. queue'[r] = Append(queue[r], u)
      BY <1>2, <2>1 DEF Typed, TypeOK, RuntimesTyped
    <3> QED
      BY <1>3, <2>1, <3>1, AppendQueues DEF Holds
  <2>2. CASE r # hrt[h]
    <3>1. queue'[r] = queue[r]
      BY <1>2, <2>2 DEF Typed, TypeOK, RuntimesTyped
    <3> QED
      BY <1>3, <2>2, <3>1 DEF Holds, Queued
  <2> QED
    BY <2>1, <2>2
<1> QED
  BY <1>1, <1>2, <1>3, <1>4

(* No other request changes anybody's work. *)
LEMMA HandlerKeepsHeld ==
    ASSUME Typed, QueuesOK, NEW h \in Handlers, HandlerStep(h), ~Submit(h),
           NEW r \in Runtimes, NEW t \in Turns
    PROVE  /\ Holds(r, t)' <=> Holds(r, t)
           /\ Holds(r, t) => rsess'[r] = rsess[r]
<1>1. active' = active
  BY WorkComesFromSubmit
<1>2. Queued(r, t)' <=> Queued(r, t)
  <2>1. CASE queue' = queue
    BY <2>1 DEF Queued
  <2>2. CASE SignalStop(hrt[h]) /\ hrt[h] \in Runtimes
    BY <2>2, StopKeepsQueued
  <2>3. CASE Install(h) \/ CloseRuntime(h)
    <3>1. hrt[h] \in Runtimes
      BY <2>3 DEF Install, CloseRuntime, Typed, HandlersOK, WithRuntime
    <3> QED
      BY <2>1, <2>2, <2>3, <3>1 DEF Install, CloseRuntime
  <2> QED
    BY HandlerStep(h), ~Submit(h), <2>1, <2>3
       DEF HandlerStep, RequireActive, Lookup, Build, BuildFails, Confirm, Release,
           SubmitRejected, CloseSession, PopRuntime, Join, RemoveDir, Rollback, runtimes
<1>3. ASSUME Holds(r, t) PROVE rsess'[r] = rsess[r]
  <2>1. rsess[r] # None
    BY <1>3, HoldsOne, UnbuiltIsIdle
  <2>2. CASE Build(h)
    BY <2>1, <2>2 DEF Build, Typed, TypeOK, RuntimesTyped
  <2>3. CASE ~Build(h)
    BY <2>3, WorkComesFromSubmit
  <2> QED
    BY <2>2, <2>3
<1> QED
  BY <1>1, <1>2, <1>3 DEF Holds

(* A worker lets go of its own turn, in its cleanup, and of nothing else. *)
LEMMA WorkerKeepsHeld ==
    ASSUME Typed, QueuesOK, NEW q \in Runtimes, WorkerStep(q) \/ TouchDir(q),
           NEW r \in Runtimes, NEW t \in Turns
    PROVE  Holds(r, t)' <=> Holds(r, t) /\ ~(Cleanup(q) /\ r = q)
<1>1. CASE TakeTurn(q) \/ TakeStop(q)
  <2>1. ~Cleanup(q)
    BY <1>1 DEF TakeTurn, TakeStop, Cleanup
  <2> QED
    BY <1>1, <2>1, TakeKeepsHeld
<1>2. CASE Cleanup(q)
  <2>1. CASE r # q
    BY <1>2, <2>1 DEF Cleanup, Holds, Queued, Typed, TypeOK, RuntimesTyped
  <2>2. CASE r = q
    <3>1. active[r] # None
      BY <1>2, <2>2, ConstantsAssumption DEF Cleanup, Typed, WorkersOK, Working
    <3>2. queue[r] = <<>> \/ queue[r] = <<Stop>>
      BY <3>1 DEF QueuesOK, QueueShape
    <3>3. ~Queued(r, t)' /\ active'[r] = None
      BY <1>2, <2>2, <3>2, ConstantsAssumption
         DEF Cleanup, Queued, Typed, TypeOK, RuntimesTyped
    <3> QED
      BY <1>2, <2>2, <3>3, ConstantsAssumption DEF Holds
  <2> QED
    BY <2>1, <2>2
<1>3. CASE ~TakeTurn(q) /\ ~TakeStop(q) /\ ~Cleanup(q)
  <2>1. UNCHANGED <<queue, active>>
    BY <1>3 DEF WorkerStep, TouchDir, SetTurnRunning, RunAgent, PersistSnapshot,
                FinishTurnSuccess, FinishTurnFailure, UpdateTurn, WorkerExit, runtimes
  <2> QED
    BY <1>3, <2>1 DEF Holds, Queued
<1> QED
  BY <1>1, <1>2, <1>3

(* Startup and shutdown, new requests and rivals change nobody's work. *)
LEMMA ProcessKeepsHeld ==
    ASSUME Typed, \/ Startup \/ Shutdown \/ RivalStartup \/ UNCHANGED vars
                  \/ \E h \in Handlers : Request(h),
           NEW r \in Runtimes, NEW t \in Turns
    PROVE  /\ Holds(r, t)' <=> Holds(r, t)
           /\ rsess' = rsess /\ wpc' = wpc /\ active' = active
<1>1. CASE Shutdown
  <2>1. CASE queue'[r] = queue[r]
    BY <1>1, <2>1 DEF Shutdown, Holds, Queued
  <2>2. CASE queue'[r] = Append(queue[r], Stop)
    BY <1>1, <2>2, AppendQueues, ConstantsAssumption DEF Shutdown, Holds
  <2> QED
    BY <1>1, <2>1, <2>2 DEF Shutdown
<1>2. CASE UNCHANGED runtimes
  BY <1>2 DEF runtimes, Holds, Queued
<1> QED
  BY <1>1, <1>2 DEF Startup, RivalStartup, vars, Request, CreateSession, CreateTurn,
                    DeleteSession, Begin

(* A process that lost its memory holds nothing. *)
LEMMA LostHoldsNothing ==
    ASSUME MemoryLost, NEW r \in Runtimes, NEW t \in Turns
    PROVE  ~Holds(r, t)'
BY ConstantsAssumption DEF MemoryLost, OfRuntimes, Holds, Queued

-----------------------------------------------------------------------------
(* What a step does to the turns table *)

(* A worker writes no row but its own turn's. *)
LEMMA WorkerWritesOwn ==
    ASSUME Typed, NEW q \in Runtimes, WorkerStep(q) \/ TouchDir(q)
    PROVE  /\ UNCHANGED <<phase, sess, turnSess, rsess>>
           /\ turn' # turn => active[q] \in Turns /\ active'[q] = active[q]
           /\ \A t \in Turns : t # active[q] => turn'[t] = turn[t]
           /\ \A r \in Runtimes : r # q => wpc'[r] = wpc[r] /\ active'[r] = active[r]
<1> USE DEF Typed, TypeOK, TablesTyped, RuntimesTyped
<1>1. UNCHANGED <<phase, sess, turnSess, rsess>>
  BY DEF WorkerStep, TouchDir, TakeTurn, TakeStop, SetTurnRunning, RunAgent, PersistSnapshot,
         FinishTurnSuccess, FinishTurnFailure, UpdateTurn, Cleanup, WorkerExit, runtimes, tables
<1>2. \A r \in Runtimes : r # q => wpc'[r] = wpc[r] /\ active'[r] = active[r]
  BY DEF WorkerStep, TouchDir, TakeTurn, TakeStop, SetTurnRunning, RunAgent, PersistSnapshot,
         FinishTurnSuccess, FinishTurnFailure, UpdateTurn, Cleanup, WorkerExit, runtimes, Step
<1>3. CASE turn' = turn
  BY <1>1, <1>2, <1>3
<1>4. CASE turn' # turn
  <2>1. /\ wpc[q] \in Working /\ active' = active
        /\ \E to : turn' = [turn EXCEPT ![active[q]] = to]
    BY <1>4 DEF WorkerStep, TouchDir, TakeTurn, TakeStop, SetTurnRunning, RunAgent,
                PersistSnapshot, FinishTurnSuccess, FinishTurnFailure, UpdateTurn, Cleanup,
                WorkerExit, tables, Working
  <2> QED
    BY <1>1, <1>2, <2>1 DEF WorkersOK
<1> QED
  BY <1>3, <1>4

(* The rows a handler writes: one turn when it submits, its session's turns *)
(* when it rolls back.                                                      *)
LEMMA HandlerWrites ==
    ASSUME Typed, NEW h \in Handlers, HandlerStep(h), ~Submit(h)
    PROVE  /\ turnSess' = turnSess
           /\ \A t \in Turns : turn'[t] \in {turn[t], "deleted"}
           /\ ~Rollback(h) => turn' = turn
           /\ \A r \in Runtimes : rsess[r] # None => wpc'[r] = wpc[r]
           /\ active' = active
<1>1. turnSess' = turnSess /\ (~Rollback(h) => turn' = turn)
  BY DEF HandlerStep, RequireActive, Lookup, Build, BuildFails, Confirm, Install, Release,
         SubmitRejected, CloseSession, PopRuntime, CloseRuntime, Join, RemoveDir, Rollback,
         tables
<1>2. \A t \in Turns : turn'[t] \in {turn[t], "deleted"}
  BY <1>1 DEF Rollback, Typed, TypeOK, TablesTyped
<1>3. CASE Build(h)
  BY <1>1, <1>2, <1>3 DEF Build, Step, Typed, TypeOK, RuntimesTyped
<1>4. CASE ~Build(h)
  <2>1. wpc' = wpc /\ active' = active
    BY <1>4, HandlerStep(h), ~Submit(h)
       DEF HandlerStep, RequireActive, Lookup, BuildFails, Confirm, Install, Release,
           SubmitRejected, CloseSession, PopRuntime, CloseRuntime, Join, RemoveDir, Rollback,
           runtimes
  <2> QED
    BY <1>1, <1>2, <2>1
<1> QED
  BY <1>3, <1>4

(* The process writes only outcomes, when it starts. *)
LEMMA ProcessWrites ==
    ASSUME Typed, \/ Startup \/ Shutdown \/ RivalStartup \/ UNCHANGED vars \/ Exit \/ Crash
                  \/ \E h \in Handlers : Request(h)
    PROVE  /\ turnSess' = turnSess
           /\ \/ turn' = turn
              \/ /\ turn' = [t \in Turns |-> IF InFlight(t) THEN "failed" ELSE turn[t]]
                 /\ \A t \in Turns : ~InFlight(t)'
                 /\ Startup \/ RivalStartup
<1>1. CASE Startup \/ RivalStartup
  BY <1>1 DEF Startup, RivalStartup, FailInFlight, InFlight, Typed, TypeOK, TablesTyped
<1>2. CASE UNCHANGED <<turn, turnSess>>
  BY <1>2
<1> QED
  BY <1>1, <1>2 DEF Shutdown, vars, tables, Request, CreateSession, CreateTurn, DeleteSession,
                    Begin, Exit, Crash, MemoryLost

(* A turn once accepted stays, and stays of its session. *)
LEMMA TurnsStay ==
    ASSUME Typed, [Next]_vars, NEW t \in Turns, turn[t] # "none"
    PROVE  turn'[t] # "none" /\ turnSess'[t] = turnSess[t]
<1> USE DEF Typed, TypeOK, TablesTyped
<1>1. ASSUME NEW h \in Handlers, HandlerStep(h)
      PROVE  turn'[t] # "none" /\ turnSess'[t] = turnSess[t]
  <2>1. CASE Submit(h)
    BY <2>1, SubmitGivesWork
  <2>2. CASE ~Submit(h)
    BY <1>1, <2>2, HandlerWrites
  <2> QED
    BY <2>1, <2>2
<1>2. ASSUME NEW q \in Runtimes, WorkerStep(q) \/ TouchDir(q)
      PROVE  turn'[t] # "none" /\ turnSess'[t] = turnSess[t]
  <2>1. turnSess' = turnSess
    BY <1>2, WorkerWritesOwn
  <2>2. turn'[t] # "none"
    BY <1>2 DEF WorkerStep, TouchDir, TakeTurn, TakeStop, SetTurnRunning, RunAgent,
                PersistSnapshot, FinishTurnSuccess, FinishTurnFailure, UpdateTurn, Cleanup,
                WorkerExit, tables
  <2> QED
    BY <2>1, <2>2
<1>3. CASE \/ Startup \/ Shutdown \/ RivalStartup \/ UNCHANGED vars \/ Exit \/ Crash
           \/ \E h \in Handlers : Request(h)
  BY <1>3, ProcessWrites
<1> QED
  BY <1>1, <1>2, <1>3 DEF Next

-----------------------------------------------------------------------------
(* Ownership *)

(* No step hands a turn to a second runtime, or to one of another session. *)
LEMMA NextHeld == Typed /\ QueuesOK /\ HeldOK /\ [Next]_vars => HeldOK'
<1> SUFFICES ASSUME Typed, QueuesOK, HeldOK, [Next]_vars PROVE HeldOK'
  OBVIOUS
<1>1. ASSUME \A r \in Runtimes, t \in Turns :
                 Holds(r, t)' => Holds(r, t) /\ rsess'[r] = rsess[r]
      PROVE  HeldOK'
  BY <1>1, TurnsStay DEF HeldOK
<1>2. ASSUME NEW h \in Handlers, Submit(h) PROVE HeldOK'
  <2>1. PICK u \in Turns : /\ turn[u] = "none"
                           /\ turn' = [turn EXCEPT ![u] = "queued"]
                           /\ turnSess' = [turnSess EXCEPT ![u] = rsess[hrt[h]]]
                           /\ \A r \in Runtimes, t \in Turns :
                                 Holds(r, t)' <=> Holds(r, t) \/ (r = hrt[h] /\ t = u)
    BY <1>2, SubmitGivesWork
  <2>2. rsess' = rsess
    BY <1>2, SubmitGivesWork
  <2>3. \A r \in Runtimes : ~Holds(r, u)
    BY <2>1 DEF HeldOK
  <2>4. turn'[u] = "queued" /\ turnSess'[u] = rsess[hrt[h]]
    BY <2>1 DEF Typed, TypeOK, TablesTyped
  <2> QED
    BY <2>1, <2>2, <2>3, <2>4, TurnsStay DEF HeldOK
<1>3. ASSUME NEW h \in Handlers, HandlerStep(h), ~Submit(h) PROVE HeldOK'
  BY <1>1, <1>3, HandlerKeepsHeld
<1>4. ASSUME NEW q \in Runtimes, WorkerStep(q) \/ TouchDir(q) PROVE HeldOK'
  BY <1>1, <1>4, WorkerKeepsHeld, WorkerWritesOwn
<1>5. CASE Exit \/ Crash
  BY <1>1, <1>5, LostHoldsNothing DEF Exit, Crash
<1>6. CASE \/ Startup \/ Shutdown \/ RivalStartup \/ UNCHANGED vars
           \/ \E h \in Handlers : Request(h)
  BY <1>1, <1>6, ProcessKeepsHeld
<1> QED
  BY <1>2, <1>3, <1>4, <1>5, <1>6 DEF Next

(* A worker reaches its cleanup only over a written outcome. *)
LEMMA NextSettled == Typed /\ HeldOK /\ SettledOK /\ [Next]_vars => SettledOK'
<1> SUFFICES ASSUME Typed, HeldOK, SettledOK, [Next]_vars, NEW r \in Runtimes,
                    wpc'[r] = "cleanup" \/ (wpc'[r] = "abort" /\ "db" \notin Faults)
             PROVE  ~InFlight(active[r])'
  BY DEF SettledOK
<1>1. ASSUME wpc'[r] = wpc[r], active'[r] = active[r], active[r] \in Turns,
             InFlight(active[r])' => InFlight(active[r])
      PROVE  ~InFlight(active[r])'
  BY <1>1 DEF SettledOK, InFlight
<1>2. wpc[r] \in Working => active[r] \in Turns /\ Holds(r, active[r])
  BY DEF Typed, WorkersOK, Holds
<1>3. ASSUME NEW h \in Handlers, HandlerStep(h) PROVE ~InFlight(active[r])'
  <2>1. CASE Submit(h)
    <3>1. wpc'[r] = wpc[r] /\ active'[r] = active[r]
      BY <2>1 DEF Submit
    <3>2. active[r] \in Turns /\ turn[active[r]] # "none"
      BY <1>2, <3>1 DEF Working, HeldOK
    <3>3. turn'[active[r]] = turn[active[r]]
      BY <2>1, <3>2, SubmitGivesWork DEF Typed, TypeOK, TablesTyped
    <3> QED
      BY <1>1, <3>1, <3>2, <3>3 DEF InFlight
  <2>2. CASE ~Submit(h)
    <3>1. rsess[r] # None
      BY <1>3, <2>2 DEF HandlerStep, RequireActive, Lookup, Build, BuildFails, Confirm,
           Install, Release, SubmitRejected, CloseSession, PopRuntime, CloseRuntime, Join,
           RemoveDir, Rollback, runtimes, Typed, WorkersOK, TypeOK, RuntimesTyped, Step
    <3>2. wpc'[r] = wpc[r] /\ active' = active
      BY <1>3, <2>2, <3>1, HandlerWrites
    <3>3. active[r] \in Turns
      BY <1>2, <3>2 DEF Working
    <3> QED
      BY <1>1, <1>3, <2>2, <3>2, <3>3, HandlerWrites DEF InFlight
  <2> QED
    BY <2>1, <2>2
<1>4. ASSUME NEW q \in Runtimes, WorkerStep(q) \/ TouchDir(q) PROVE ~InFlight(active[r])'
  <2>1. CASE q # r
    <3>1. wpc'[r] = wpc[r] /\ active'[r] = active[r]
      BY <1>4, <2>1, WorkerWritesOwn
    <3>2. active[r] \in Turns /\ Holds(r, active[r])
      BY <1>2, <3>1 DEF Working
    <3>3. active[q] # active[r]
      BY <2>1, <3>2 DEF HeldOK, Holds
    <3> QED
      BY <1>1, <1>4, <3>1, <3>2, <3>3, WorkerWritesOwn DEF InFlight
  <2>2. CASE q = r
    <3>1. CASE FinishTurnSuccess(r) \/ FinishTurnFailure(r)
      <4>1. active[r] \in Turns /\ active'[r] = active[r]
        BY <1>2, <3>1 DEF FinishTurnSuccess, FinishTurnFailure, UpdateTurn, Working
      <4> QED
        BY <3>1, <4>1 DEF FinishTurnSuccess, FinishTurnFailure, UpdateTurn, Step, InFlight,
                          Typed, TypeOK, TablesTyped, RuntimesTyped
    <3>2. CASE TouchDir(r)
      BY <3>2 DEF TouchDir, runtimes, Typed, TypeOK, RuntimesTyped
    <3>3. CASE ~FinishTurnSuccess(r) /\ ~FinishTurnFailure(r) /\ ~TouchDir(r)
      BY <1>4, <2>2, <3>3
         DEF WorkerStep, TakeTurn, TakeStop, SetTurnRunning, RunAgent, PersistSnapshot,
             UpdateTurn, Cleanup, WorkerExit, Step, Typed, TypeOK, RuntimesTyped
    <3> QED
      BY <3>1, <3>2, <3>3
  <2> QED
    BY <2>1, <2>2
<1>5. CASE Exit \/ Crash
  BY <1>5 DEF Exit, Crash, MemoryLost, OfRuntimes
<1>6. CASE \/ Startup \/ Shutdown \/ RivalStartup \/ UNCHANGED vars
           \/ \E h \in Handlers : Request(h)
  <2>1. wpc'[r] = wpc[r] /\ active'[r] = active[r]
    BY <1>6, ProcessKeepsHeld, ConstantsAssumption DEF Shutdown, Startup, RivalStartup, vars,
       runtimes, Request, CreateSession, CreateTurn, DeleteSession, Begin
  <2>2. active[r] \in Turns
    BY <1>2, <2>1 DEF Working
  <2> QED
    BY <1>1, <1>6, <2>1, <2>2, ProcessWrites DEF InFlight
<1> QED
  BY <1>3, <1>4, <1>5, <1>6 DEF Next

(* No step leaves a turn in flight with nobody to work on it. *)
LEMMA NextOwned == Typed /\ QueuesOK /\ Ownership /\ [Next]_vars => OwnedOK'
<1> DEFINE Owner(r, t) == /\ rsess[r] = turnSess[t]
                          /\ \/ Holds(r, t)
                             \/ "db" \in Faults /\ wpc[r] \in {"exit", "stopped"}
<1> SUFFICES ASSUME Typed, QueuesOK, Ownership, [Next]_vars, phase' # "down",
                    NEW t \in Turns, InFlight(t)'
             PROVE  \E r \in Runtimes : Owner(r, t)'
  BY DEF OwnedOK
<1>1. ASSUME phase' = phase, InFlight(t)
      PROVE  \E r \in Runtimes : Owner(r, t)
  BY <1>1 DEF Ownership, OwnedOK
<1>2. InFlight(t) => turnSess'[t] = turnSess[t]
  BY TurnsStay DEF InFlight
<1>3. ASSUME NEW r \in Runtimes, wpc[r] \in {"exit", "stopped"} PROVE rsess[r] # None
  BY <1>3 DEF Typed, WorkersOK
<1>4. ASSUME NEW h \in Handlers, Submit(h) PROVE \E r \in Runtimes : Owner(r, t)'
  <2>1. PICK u \in Turns : /\ turn[u] = "none"
                           /\ turn' = [turn EXCEPT ![u] = "queued"]
                           /\ turnSess' = [turnSess EXCEPT ![u] = rsess[hrt[h]]]
                           /\ \A r \in Runtimes, v \in Turns :
                                 Holds(r, v)' <=> Holds(r, v) \/ (r = hrt[h] /\ v = u)
    BY <1>4, SubmitGivesWork
  <2>2. hrt[h] \in Runtimes /\ rsess' = rsess /\ wpc' = wpc /\ phase' = phase
    BY <1>4, SubmitGivesWork DEF Submit
  <2>3. CASE t = u
    <3>1. turnSess'[t] = rsess[hrt[h]]
      BY <2>1, <2>3 DEF Typed, TypeOK, TablesTyped
    <3> QED
      BY <2>1, <2>2, <2>3, <3>1
  <2>4. CASE t # u
    <3>1. InFlight(t)
      BY <2>1, <2>4 DEF InFlight, Typed, TypeOK, TablesTyped
    <3> QED
      BY <1>1, <1>2, <2>1, <2>2, <3>1
  <2> QED
    BY <2>3, <2>4
<1>5. ASSUME NEW h \in Handlers, HandlerStep(h), ~Submit(h)
      PROVE  \E r \in Runtimes : Owner(r, t)'
  <2>1. phase' = phase /\ InFlight(t)
    BY <1>5, HandlerWrites, WorkComesFromSubmit DEF InFlight
  <2>2. PICK r \in Runtimes : Owner(r, t)
    BY <1>1, <2>1
  <2>3. CASE Holds(r, t)
    BY <1>2, <1>5, <2>1, <2>2, <2>3, HandlerKeepsHeld
  <2>4. CASE "db" \in Faults /\ wpc[r] \in {"exit", "stopped"}
    <3>1. wpc'[r] = wpc[r]
      BY <1>3, <1>5, <2>4, HandlerWrites
    <3>2. rsess'[r] = rsess[r]
      <4>1. CASE Build(h)
        BY <1>3, <2>4, <4>1 DEF Build, Typed, TypeOK, RuntimesTyped
      <4>2. CASE ~Build(h)
        BY <1>5, <4>2, WorkComesFromSubmit
      <4> QED
        BY <4>1, <4>2
    <3> QED
      BY <1>2, <2>1, <2>2, <2>4, <3>1, <3>2
  <2> QED
    BY <2>2, <2>3, <2>4
<1>6. ASSUME NEW q \in Runtimes, WorkerStep(q) \/ TouchDir(q)
      PROVE  \E r \in Runtimes : Owner(r, t)'
  <2>1. UNCHANGED <<phase, turnSess, rsess>>
    BY <1>6, WorkerWritesOwn
  <2>2. CASE turn'[t] # turn[t]
    <3>1. t = active[q] /\ active'[q] = active[q]
      BY <1>6, <2>2, WorkerWritesOwn
    <3>2. Holds(q, t)' /\ turnSess[t] = rsess[q]
      BY <3>1 DEF Holds, Ownership, HeldOK
    <3> QED
      BY <2>1, <3>2
  <2>3. CASE turn'[t] = turn[t]
    <3>1. InFlight(t)
      BY <2>3 DEF InFlight
    <3>2. PICK r \in Runtimes : Owner(r, t)
      BY <1>1, <2>1, <3>1
    <3>3. CASE Holds(r, t) /\ ~(Cleanup(q) /\ r = q)
      BY <1>6, <2>1, <3>2, <3>3, WorkerKeepsHeld
    <3>4. CASE Holds(r, t) /\ Cleanup(q) /\ r = q
      <4>1. active[r] \in Turns /\ Holds(r, active[r])
        BY <3>4 DEF Cleanup, Typed, WorkersOK, Working, Holds
      <4>2. active[r] = t
        BY <3>4, <4>1, HoldsOne
      <4>3. wpc[r] = "abort" /\ "db" \in Faults
        BY <3>1, <3>4, <4>2 DEF Cleanup, Ownership, SettledOK
      <4>4. wpc'[r] = "exit"
        BY <3>4, <4>3 DEF Cleanup, Step, Typed, TypeOK, RuntimesTyped
      <4> QED
        BY <2>1, <3>2, <4>3, <4>4
    <3>5. CASE "db" \in Faults /\ wpc[r] \in {"exit", "stopped"}
      <4>1. wpc'[r] \in {"exit", "stopped"}
        <5>1. CASE r # q
          BY <1>6, <3>5, <5>1, WorkerWritesOwn
        <5>2. CASE r = q
          BY <1>6, <3>5, <5>2 DEF WorkerStep, TouchDir, TakeTurn, TakeStop, SetTurnRunning,
             RunAgent, PersistSnapshot, FinishTurnSuccess, FinishTurnFailure, Cleanup,
             WorkerExit, Step, Typed, TypeOK, RuntimesTyped
        <5> QED
          BY <5>1, <5>2
      <4> QED
        BY <2>1, <3>2, <3>5, <4>1
    <3> QED
      BY <3>2, <3>3, <3>4, <3>5
  <2> QED
    BY <2>2, <2>3
<1>7. CASE Exit \/ Crash
  BY <1>7 DEF Exit, Crash, MemoryLost
<1>8. CASE Startup \/ RivalStartup
  <2>1. \A u \in Turns : ~InFlight(u)'
    BY <1>8 DEF Startup, RivalStartup, FailInFlight, InFlight, Typed, TypeOK, TablesTyped
  <2> QED
    BY <2>1
<1>9. CASE Shutdown \/ UNCHANGED vars \/ \E h \in Handlers : Request(h)
  <2>1. UNCHANGED <<turn, turnSess>>
    BY <1>9 DEF Shutdown, vars, tables, Request, CreateSession, CreateTurn, DeleteSession, Begin
  <2>2. /\ phase # "down"
        /\ phase' # phase => Shutdown
    BY <1>9 DEF Shutdown, vars, Request, CreateSession, CreateTurn, DeleteSession, Begin
  <2>3. InFlight(t)
    BY <2>1 DEF InFlight
  <2>4. PICK r \in Runtimes : Owner(r, t)
    BY <2>2, <2>3 DEF Ownership, OwnedOK
  <2>5. Holds(r, t)' <=> Holds(r, t)
    BY <1>9, ProcessKeepsHeld
  <2>6. rsess' = rsess /\ wpc' = wpc
    BY <1>9, <2>4, ProcessKeepsHeld
  <2> QED
    BY <2>1, <2>4, <2>5, <2>6
<1> QED
  BY <1>4, <1>5, <1>6, <1>7, <1>8, <1>9 DEF Next

(* Ownership is kept by every step. *)
LEMMA NextOwnership == Typed /\ QueuesOK /\ Ownership /\ [Next]_vars => Ownership'
BY NextHeld, NextSettled, NextOwned DEF Ownership

(* Nothing is held or in flight before the first turn. *)
LEMMA InitOwnership == Init => Ownership
BY ConstantsAssumption
   DEF Init, OfRuntimes, Ownership, HeldOK, SettledOK, OwnedOK, Holds, Queued, InFlight

(* Whatever fails, a turn that is queued or running has a worker that will *)
(* end it, or is of a session whose worker thread died: DELETE, roll-back, *)
(* shutdown, restarts and rivals abandon none.                             *)
THEOREM NothingAbandoned == Spec => []NoAbandonedTurn
<1>1. Ownership => NoAbandonedTurn
  BY DEF Ownership, OwnedOK, NoAbandonedTurn
<1>2. Init => QueuesOK
  BY InitExclusion
<1> QED
  BY InitTyped, NextTyped, NextQueues, InitOwnership, NextOwnership, <1>1, <1>2, PTL DEF Spec

-----------------------------------------------------------------------------
(* The rows and the worker's step *)

(* What the row of a held turn says, as long as no other process fails the *)
(* rows of this one: it follows the worker, or went with its session.      *)
RowOK(r, t) ==
    /\ Queued(r, t) => turn[t] \in {"queued", "deleted"}
    /\ active[r] = t =>
          /\ wpc[r] = "start" => turn[t] \in {"queued", "deleted"}
          /\ wpc[r] \in {"agent", "persist", "finish"} => turn[t] \in {"running", "deleted"}
          /\ wpc[r] = "fail" => turn[t] \in {"queued", "running", "deleted"}

RowsOK == \A r \in Runtimes, t \in Turns : RowOK(r, t)

(* A worker's turn is held, and so nothing is queued beside it. *)
LEMMA WorkingHolds ==
    ASSUME Typed, QueuesOK, NEW r \in Runtimes, wpc[r] \in Working
    PROVE  /\ active[r] \in Turns /\ Holds(r, active[r])
           /\ \A t \in Turns : ~Queued(r, t)
<1>1. active[r] \in Turns
  BY DEF Typed, WorkersOK
<1>2. queue[r] = <<>> \/ queue[r] = <<Stop>>
  BY <1>1, ConstantsAssumption DEF QueuesOK, QueueShape
<1>3. \A t \in Turns : ~Queued(r, t)
  BY <1>2, ConstantsAssumption DEF Queued
<1> QED
  BY <1>1, <1>3 DEF Holds

(* No step of the server, short of a rival's start, lets a row and its     *)
(* worker disagree.                                                        *)
LEMMA NextRows ==
    ASSUME Typed, QueuesOK, HeldOK, DownClean, RowsOK, [Next]_vars, "rival" \notin Faults
    PROVE  RowsOK'
<1> SUFFICES ASSUME NEW r \in Runtimes, NEW t \in Turns PROVE RowOK(r, t)'
  BY DEF RowsOK
<1>1. RowOK(r, t)
  BY DEF RowsOK
<1>2. Queued(r, t)' => active'[r] = None
  <2>1. QueuesOK'
    BY NextQueues
  <2>2. CASE queue'[r] = <<>> \/ queue'[r] = <<Stop>>
    BY <2>2, ConstantsAssumption DEF Queued
  <2> QED
    BY <2>1, <2>2 DEF QueuesOK, QueueShape
<1>3. CASE ~Holds(r, t)'
  BY <1>3 DEF Holds, RowOK
<1>4. ASSUME wpc'[r] = wpc[r], active'[r] = active[r], Holds(r, t)' => Holds(r, t),
             turn'[t] \in {turn[t], "deleted"}
      PROVE  RowOK(r, t)'
  <2>1. Queued(r, t)' => Queued(r, t)
    BY <1>2, <1>4, ConstantsAssumption DEF Holds
  <2> QED
    BY <1>1, <1>4, <2>1 DEF RowOK
<1>5. ASSUME NEW h \in Handlers, Submit(h) PROVE RowOK(r, t)'
  <2>1. PICK u \in Turns : /\ turn[u] = "none"
                           /\ turn' = [turn EXCEPT ![u] = "queued"]
                           /\ \A q \in Runtimes, v \in Turns :
                                 Holds(q, v)' <=> Holds(q, v) \/ (q = hrt[h] /\ v = u)
    BY <1>5, SubmitGivesWork
  <2>2. wpc' = wpc /\ active' = active
    BY <1>5 DEF Submit
  <2>3. CASE Holds(r, t)
    <3>1. t # u
      BY <2>1, <2>3 DEF HeldOK
    <3>2. turn'[t] = turn[t]
      BY <2>1, <3>1 DEF Typed, TypeOK, TablesTyped
    <3> QED
      BY <1>4, <2>2, <2>3, <3>2
  <2>4. CASE r = hrt[h] /\ t = u
    <3>1. turn'[t] = "queued" /\ active'[r] = None
      BY <1>5, <2>1, <2>2, <2>4 DEF Submit, Accepting, Busy, Typed, TypeOK, TablesTyped
    <3> QED
      BY <3>1, ConstantsAssumption DEF RowOK
  <2> QED
    BY <1>3, <2>1, <2>3, <2>4
<1>6. ASSUME NEW h \in Handlers, HandlerStep(h), ~Submit(h) PROVE RowOK(r, t)'
  <2>1. CASE Holds(r, t)
    <3>1. rsess[r] # None
      BY <2>1, HoldsOne, UnbuiltIsIdle
    <3> QED
      BY <1>4, <1>6, <2>1, <3>1, HandlerWrites
  <2> QED
    BY <1>3, <1>6, <2>1, HandlerKeepsHeld
<1>7. ASSUME NEW q \in Runtimes, WorkerStep(q) \/ TouchDir(q), q # r PROVE RowOK(r, t)'
  <2>1. CASE Holds(r, t)
    <3>1. t # active[q]
      BY <1>7, <2>1 DEF HeldOK, Holds
    <3>2. turn'[t] = turn[t] /\ wpc'[r] = wpc[r] /\ active'[r] = active[r]
      BY <1>7, <3>1, WorkerWritesOwn
    <3> QED
      BY <1>4, <2>1, <3>2
  <2> QED
    BY <1>3, <1>7, <2>1, WorkerKeepsHeld
<1>8. CASE WorkerStep(r) \/ TouchDir(r)
  <2>1. CASE TakeTurn(r)
    <3>1. active[r] # t /\ active'[r] \in Turns
      <4>1. wpc[r] \notin Working /\ active'[r] = Head(queue[r])
        BY <2>1 DEF TakeTurn, Working, Typed, TypeOK, RuntimesTyped
      <4>2. Head(queue[r]) \in Turns
        BY <2>1 DEF TakeTurn, Typed, TypeOK, RuntimesTyped
      <4> QED
        BY <4>1, <4>2 DEF Typed, WorkersOK
    <3>2. ~Queued(r, t)'
      BY <1>2, <3>1, ConstantsAssumption
    <3>3. Holds(r, t)' => Queued(r, t)
      BY <2>1, <3>1, TakeKeepsHeld DEF Holds
    <3>4. turn' = turn /\ wpc'[r] = "start"
      BY <2>1 DEF TakeTurn, Step, tables, Typed, TypeOK, RuntimesTyped
    <3> QED
      BY <1>1, <1>3, <3>2, <3>3, <3>4 DEF RowOK
  <2>2. CASE TakeStop(r)
    <3>1. active[r] # t /\ active' = active /\ turn' = turn
      BY <2>2 DEF TakeStop, Typed, WorkersOK, Working, tables
    <3>2. Queued(r, t)' => Queued(r, t)
      BY <2>2, <3>1, TakeKeepsHeld DEF Holds
    <3> QED
      BY <1>1, <3>1, <3>2 DEF RowOK
  <2>3. CASE Cleanup(r)
    BY <1>3, <1>8, <2>3, WorkerKeepsHeld
  <2>4. CASE TouchDir(r) \/ WorkerExit(r)
    BY <1>1, <2>4 DEF TouchDir, WorkerExit, RowOK, Queued, Step, runtimes, tables,
                      Typed, TypeOK, RuntimesTyped
  <2>5. CASE /\ wpc[r] \in Working /\ UNCHANGED <<queue, active>>
             /\ \/ RunAgent(r) \/ PersistSnapshot(r) \/ SetTurnRunning(r)
                \/ FinishTurnSuccess(r) \/ FinishTurnFailure(r)
    <3>1. ~Queued(r, t)'
      BY <2>5, WorkingHolds DEF Queued
    <3>2. CASE active[r] # t
      BY <2>5, <3>1, <3>2 DEF RowOK
    <3>3. CASE active[r] = t /\ (RunAgent(r) \/ PersistSnapshot(r))
      BY <1>1, <3>1, <3>3 DEF RunAgent, PersistSnapshot, Step, RowOK, tables,
                              Typed, TypeOK, RuntimesTyped
    <3>4. CASE active[r] = t /\ SetTurnRunning(r)
      BY <1>1, <3>1, <3>4 DEF SetTurnRunning, UpdateTurn, Step, RowOK,
                              Typed, TypeOK, RuntimesTyped, TablesTyped
    <3>5. CASE active[r] = t /\ (FinishTurnSuccess(r) \/ FinishTurnFailure(r))
      BY <1>1, <3>1, <3>5 DEF FinishTurnSuccess, FinishTurnFailure, UpdateTurn, Step, RowOK,
                              Typed, TypeOK, RuntimesTyped, TablesTyped
    <3> QED
      BY <2>5, <3>2, <3>3, <3>4, <3>5
  <2> QED
    BY <1>8, <2>1, <2>2, <2>3, <2>4, <2>5
       DEF WorkerStep, SetTurnRunning, FinishTurnSuccess, FinishTurnFailure, UpdateTurn,
           RunAgent, PersistSnapshot, Working
<1>9. CASE Exit \/ Crash
  BY <1>3, <1>9, LostHoldsNothing DEF Exit, Crash
<1>10. CASE Startup
  <2>1. ~Busy(r)
    BY <1>10, UnbuiltIsIdle DEF Startup, DownClean
  <2>2. ~Holds(r, t)
    BY <2>1, HoldsOne
  <2> QED
    BY <1>3, <1>10, <2>2, ProcessKeepsHeld
<1>11. CASE Shutdown \/ UNCHANGED vars \/ \E h \in Handlers : Request(h)
  <2>1. turn' = turn
    BY <1>11 DEF Shutdown, vars, tables, Request, CreateSession, CreateTurn, DeleteSession,
                 Begin
  <2> QED
    BY <1>4, <1>11, <2>1, ProcessKeepsHeld
<1>12. ~RivalStartup
  BY DEF RivalStartup
<1> QED
  BY <1>5, <1>6, <1>7, <1>8, <1>9, <1>10, <1>11, <1>12 DEF Next

(* One process on one database: the server's own threads, restarts and     *)
(* roll-backs never rewrite an outcome that was written, whatever else     *)
(* fails.  A rival process can (run server_rival).                         *)
THEOREM OutcomesStay == ASSUME "rival" \notin Faults PROVE Spec => TerminalIsFinal
<1> DEFINE Inv == Typed /\ QueuesOK /\ Exclusion /\ HeldOK /\ RowsOK
<1>1. Init => Inv
  <2>1. Init => RowsOK
    BY ConstantsAssumption DEF Init, OfRuntimes, RowsOK, RowOK, Queued
  <2> QED
    BY <2>1, InitTyped, InitExclusion, InitOwnership DEF Ownership
<1>2. Inv /\ [Next]_vars => Inv'
  <2>1. Inv /\ [Next]_vars => RowsOK'
    BY NextRows DEF Exclusion
  <2> QED
    BY <2>1, NextTyped, NextQueues, NextExclusion, NextHeld
<1>3. ASSUME Inv, [Next]_vars, NEW t \in Turns, turn[t] \in {"completed", "failed"}
      PROVE  turn'[t] \in {turn[t], "deleted"}
  <2>1. ASSUME NEW h \in Handlers, Submit(h) PROVE turn'[t] = turn[t]
    BY <1>3, <2>1, SubmitGivesWork DEF Typed, TypeOK, TablesTyped
  <2>2. ASSUME NEW q \in Runtimes, WorkerStep(q) \/ TouchDir(q) PROVE turn'[t] = turn[t]
    <3>1. CASE t # active[q]
      BY <1>3, <2>2, <3>1, WorkerWritesOwn
    <3>2. CASE t = active[q]
      <4>1. RowOK(q, t) /\ turn[t] \notin {"queued", "running", "deleted"}
        BY <1>3 DEF RowsOK
      <4>2. wpc[q] \notin {"start", "finish", "fail"}
        BY <3>2, <4>1 DEF RowOK
      <4> QED
        BY <2>2, <4>2 DEF WorkerStep, TouchDir, TakeTurn, TakeStop, SetTurnRunning, RunAgent,
           PersistSnapshot, FinishTurnSuccess, FinishTurnFailure, Cleanup, WorkerExit, tables
    <3> QED
      BY <3>1, <3>2
  <2>3. CASE \/ Startup \/ Shutdown \/ RivalStartup \/ UNCHANGED vars \/ Exit \/ Crash
             \/ \E h \in Handlers : Request(h)
    <3>1. turn' = turn \/ turn' = [u \in Turns |-> IF InFlight(u) THEN "failed" ELSE turn[u]]
      BY <1>3, <2>3, ProcessWrites
    <3> QED
      BY <1>3, <3>1 DEF InFlight
  <2> QED
    BY <1>3, <2>1, <2>2, <2>3, HandlerWrites DEF Next
<1> HIDE DEF Inv
<1>4. Inv /\ [Next]_vars
         => [\A t \in Turns : turn[t] \in {"completed", "failed"}
                                  => turn'[t] \in {turn[t], "deleted"}]_vars
  BY <1>3
<1> QED
  BY <1>1, <1>2, <1>4, PTL DEF Spec, TerminalIsFinal

-----------------------------------------------------------------------------
(* The ledger *)

(* Requests are drained before shutdown unless its timeout runs out. *)
DrainedOK == phase = "stopping" => \A h \in Handlers : hpc[h] = "idle"

(* Only an idle thread outlives the drain. *)
LEMMA NextDrained ==
    ASSUME Typed, DrainedOK, [Next]_vars, "drainTimeout" \notin Faults
    PROVE  DrainedOK'
<1> SUFFICES ASSUME phase' = "stopping", NEW x \in Handlers PROVE hpc'[x] = "idle"
  BY DEF DrainedOK
<1>1. CASE Shutdown
  BY <1>1 DEF Shutdown, handlers
<1>2. CASE Startup \/ Exit \/ Crash
  BY <1>2 DEF Startup, Exit, Crash, MemoryLost
<1>3. CASE RivalStartup \/ UNCHANGED vars
  BY <1>3 DEF RivalStartup, vars, handlers, DrainedOK
<1>4. ASSUME NEW q \in Runtimes, WorkerStep(q) \/ TouchDir(q) PROVE hpc'[x] = "idle"
  BY <1>4 DEF WorkerStep, TouchDir, TakeTurn, TakeStop, SetTurnRunning, RunAgent,
     PersistSnapshot, FinishTurnSuccess, FinishTurnFailure, UpdateTurn, Cleanup, WorkerExit,
     handlers, DrainedOK
<1>5. ASSUME NEW h \in Handlers, Request(h) PROVE FALSE
  BY <1>5 DEF Request, CreateSession, CreateTurn, DeleteSession, Begin
<1>6. ASSUME NEW h \in Handlers, HandlerStep(h) PROVE FALSE
  <2>1. hpc[h] = "idle"
    BY <1>6, WorkComesFromSubmit DEF DrainedOK
  <2> QED
    BY <1>6, <2>1 DEF HandlerStep, RequireActive, Lookup, Build, BuildFails, Confirm, Install,
                      Release, Submit, SubmitRejected, CloseSession, PopRuntime, CloseRuntime,
                      Join, RemoveDir, Rollback
<1> QED
  BY <1>1, <1>2, <1>3, <1>4, <1>5, <1>6 DEF Next

(* A request that runs finds the server up. *)
LEMMA RunningMeansUp ==
    ASSUME Typed, DownClean, DrainedOK, NEW h \in Handlers, HandlerStep(h)
    PROVE  phase = "up"
<1>1. hpc[h] # "idle"
  BY DEF HandlerStep, RequireActive, Lookup, Build, BuildFails, Confirm, Install, Release,
         Submit, SubmitRejected, CloseSession, PopRuntime, CloseRuntime, Join, RemoveDir,
         Rollback
<1> QED
  BY <1>1 DEF DownClean, DrainedOK, Typed, TypeOK, TablesTyped

(* submit_turn accepts a turn only for a session with none in flight: the  *)
(* is_busy of the one registered runtime stands for the whole table.       *)
LEMMA SubmitFindsIdle ==
    ASSUME Typed, QueuesOK, Installed, OwnedOK, phase = "up", "db" \notin Faults,
           NEW h \in Handlers, Submit(h)
    PROVE  Ledger!Idle(rsess[hrt[h]])
<1> SUFFICES ASSUME NEW u \in Turns, turnSess[u] = rsess[hrt[h]], InFlight(u) PROVE FALSE
  BY DEF Ledger!Idle, Ledger!InFlight, InFlight
<1>1. hrt[h] \in Runtimes /\ rsess[hrt[h]] \in Sessions
  BY SubmitGivesWork
<1>2. registry[rsess[hrt[h]]] = hrt[h]
  <2>1. InUse(hrt[h]) /\ sess[rsess[hrt[h]]] = "active" /\ rsess[hrt[h]] # None
    BY <1>1, ConstantsAssumption DEF Submit, SessionActive, InUse
  <2> QED
    BY <1>1, <2>1 DEF Installed
<1>3. PICK r \in Runtimes : rsess[r] = rsess[hrt[h]] /\ Holds(r, u)
  BY DEF OwnedOK
<1>4. registry[rsess[r]] = r
  <2>1. InUse(r) /\ rsess[r] # None /\ sess[rsess[r]] = "active"
    BY <1>1, <1>3, HoldsOne, ConstantsAssumption DEF Submit, SessionActive, InUse
  <2> QED
    BY <2>1 DEF Installed
<1>5. ~Busy(hrt[h]) /\ Busy(r)
  BY <1>3, HoldsOne DEF Submit, Accepting
<1> QED
  BY <1>2, <1>3, <1>4, <1>5

(* Every step of the server, seen in its tables, is a step of the ledger.  *)
LEMMA StepInLedger ==
    ASSUME Typed, QueuesOK, Exclusion, Ownership, RowsOK, DrainedOK, [Next]_vars,
           Faults \cap {"db", "rival"} = {}
    PROVE  [Ledger!Next]_(Ledger!ledger)
<1> USE DEF Ledger!ledger
<1>1. ASSUME UNCHANGED tables PROVE [Ledger!Next]_(Ledger!ledger)
  BY <1>1 DEF tables
<1>2. ASSUME NEW h \in Handlers, Request(h) PROVE [Ledger!Next]_(Ledger!ledger)
  <2>1. PICK s \in Sessions : CreateSession(h, s) \/ CreateTurn(h, s) \/ DeleteSession(h, s)
    BY <1>2 DEF Request
  <2>2. CASE CreateSession(h, s)
    <3>1. Ledger!Open(s)
      BY <2>2 DEF CreateSession, Begin, Ledger!Open
    <3> QED
      BY <3>1 DEF Ledger!Next
  <2> QED
    BY <2>1, <2>2 DEF CreateTurn, DeleteSession, Begin
<1>3. ASSUME NEW h \in Handlers, HandlerStep(h) PROVE [Ledger!Next]_(Ledger!ledger)
  <2>1. phase = "up"
    BY <1>3, RunningMeansUp DEF Exclusion
  <2>2. hpc[h] # "idle" => hsess[h] \in Sessions /\ sess[hsess[h]] # "absent"
    BY DEF Typed, HandlersOK, Exclusion, Created
  <2>3. CASE Submit(h)
    <3>1. PICK u \in Turns : /\ turn[u] = "none"
                             /\ turn' = [turn EXCEPT ![u] = "queued"]
                             /\ turnSess' = [turnSess EXCEPT ![u] = rsess[hrt[h]]]
      BY <2>3, SubmitGivesWork
    <3>2. rsess[hrt[h]] \in Sessions
      BY <2>3, SubmitGivesWork
    <3>3. Ledger!Idle(rsess[hrt[h]])
      BY <2>1, <2>3, SubmitFindsIdle DEF Exclusion, Ownership
    <3>4. Ledger!Accept(u, rsess[hrt[h]])
      BY <2>3, <3>1, <3>3 DEF Submit, SessionActive, Ledger!Accept
    <3> QED
      BY <3>2, <3>4 DEF Ledger!Next
  <2>4. CASE CloseSession(h)
    <3>1. hsess[h] \in Sessions /\ sess[hsess[h]] \in {"active", "closed", "deleted"}
      BY <2>2, <2>4 DEF CloseSession, Typed, TypeOK, TablesTyped
    <3>2. CASE sess[hsess[h]] = "active" /\ sess' = [sess EXCEPT ![hsess[h]] = "closed"]
      <4>1. Ledger!Close(hsess[h])
        BY <2>4, <3>2 DEF CloseSession, Ledger!Close
      <4> QED
        BY <3>1, <4>1 DEF Ledger!Next
    <3>3. CASE sess[hsess[h]] = "closed" /\ sess' = [sess EXCEPT ![hsess[h]] = "closed"]
      <4>1. sess' = sess
        BY <3>1, <3>3 DEF Typed, TypeOK, TablesTyped
      <4> QED
        BY <2>4, <4>1 DEF CloseSession
    <3> QED
      BY <1>1, <2>4, <3>1, <3>2, <3>3 DEF CloseSession, tables
  <2>5. CASE Rollback(h)
    <3>1. Ledger!RollBack(hsess[h])
      BY <2>2, <2>5 DEF Rollback, Ledger!RollBack
    <3> QED
      BY <2>2, <2>5, <3>1 DEF Rollback, Ledger!Next
  <2>6. CASE ~Submit(h) /\ ~CloseSession(h) /\ ~Rollback(h)
    <3>1. UNCHANGED tables
      BY <1>3, <2>6 DEF HandlerStep, RequireActive, Lookup, Build, BuildFails, Confirm,
         Install, Release, SubmitRejected, PopRuntime, CloseRuntime, Join, RemoveDir, tables
    <3> QED
      BY <1>1, <3>1
  <2> QED
    BY <2>3, <2>4, <2>5, <2>6
<1>4. ASSUME NEW r \in Runtimes, WorkerStep(r) \/ TouchDir(r)
      PROVE  [Ledger!Next]_(Ledger!ledger)
  <2>1. ASSUME wpc[r] \in {"start", "finish", "fail"}
        PROVE  active[r] \in Turns /\ RowOK(r, active[r])
    BY <2>1 DEF Typed, WorkersOK, Working, RowsOK
  <2>2. CASE SetTurnRunning(r) /\ turn' # turn
    <3>1. /\ active[r] \in Turns /\ turn[active[r]] = "queued"
          /\ turn' = [turn EXCEPT ![active[r]] = "running"]
          /\ UNCHANGED <<sess, turnSess>>
      BY <2>1, <2>2 DEF SetTurnRunning, UpdateTurn, RowOK
    <3>2. Ledger!Begin(active[r])
      BY <3>1 DEF Ledger!Begin
    <3> QED
      BY <3>1, <3>2 DEF Ledger!Next
  <2>3. CASE FinishTurnSuccess(r) /\ turn' # turn
    <3>1. /\ active[r] \in Turns /\ turn[active[r]] = "running"
          /\ turn' = [turn EXCEPT ![active[r]] = "completed"]
          /\ UNCHANGED <<sess, turnSess>>
      BY <2>1, <2>3 DEF FinishTurnSuccess, UpdateTurn, RowOK
    <3>2. Ledger!Finish(active[r])
      BY <3>1 DEF Ledger!Finish
    <3> QED
      BY <3>1, <3>2 DEF Ledger!Next
  <2>4. CASE FinishTurnFailure(r) /\ turn' # turn
    <3>1. /\ active[r] \in Turns /\ turn[active[r]] \in {"queued", "running"}
          /\ turn' = [turn EXCEPT ![active[r]] = "failed"]
          /\ UNCHANGED <<sess, turnSess>>
      BY <2>1, <2>4 DEF FinishTurnFailure, UpdateTurn, RowOK
    <3>2. Ledger!Finish(active[r])
      BY <3>1 DEF Ledger!Finish, Ledger!InFlight
    <3> QED
      BY <3>1, <3>2 DEF Ledger!Next
  <2>5. CASE turn' = turn
    BY <1>1, <1>4, <2>5, WorkerWritesOwn DEF tables
  <2> QED
    BY <1>4, <2>2, <2>3, <2>4, <2>5
       DEF WorkerStep, TouchDir, TakeTurn, TakeStop, RunAgent, PersistSnapshot, Cleanup,
           WorkerExit, tables
<1>5. CASE Startup
  <2>1. Ledger!Recover
    BY <1>5 DEF Startup, FailInFlight, InFlight, Ledger!Recover, Ledger!InFlight
  <2> QED
    BY <2>1 DEF Ledger!Next
<1>6. ~RivalStartup
  BY DEF RivalStartup
<1>7. CASE Shutdown \/ Exit \/ Crash \/ UNCHANGED vars
  BY <1>1, <1>7 DEF Shutdown, Exit, Crash, MemoryLost, vars
<1> QED
  BY <1>2, <1>3, <1>4, <1>5, <1>6, <1>7 DEF Next

(* The server implements the ledger: with its threads, queues, joins that  *)
(* time out, failed builds and crashes at any point, the tables show a     *)
(* session with one turn in flight at a time that moves forward once.  The *)
(* three excluded failures each break it: a refused write leaves a row in  *)
(* flight beside the next turn, requests left running by the shutdown can  *)
(* install a second runtime, and a rival fails rows of live workers.       *)
THEOREM KeepsLedger ==
    ASSUME Faults \cap {"db", "drainTimeout", "rival"} = {}
    PROVE  Spec => LedgerSpec
<1> DEFINE Inv == Typed /\ QueuesOK /\ Exclusion /\ Ownership /\ RowsOK /\ DrainedOK
<1>1. Init => Inv
  <2>1. Init => RowsOK /\ DrainedOK
    BY ConstantsAssumption DEF Init, OfRuntimes, OfHandlers, RowsOK, RowOK, Queued, DrainedOK
  <2> QED
    BY <2>1, InitTyped, InitExclusion, InitOwnership
<1>2. Inv /\ [Next]_vars => Inv'
  <2>1. Inv /\ [Next]_vars => RowsOK' /\ DrainedOK'
    BY NextRows, NextDrained DEF Exclusion, Ownership
  <2> QED
    BY <2>1, NextTyped, NextQueues, NextExclusion, NextOwnership
<1>3. Init => Ledger!Init
  BY DEF Init, OfSessions, Ledger!Init
<1>4. Inv /\ [Next]_vars => [Ledger!Next]_(Ledger!ledger)
  BY StepInLedger
<1> HIDE DEF Inv
<1> QED
  BY <1>1, <1>2, <1>3, <1>4, PTL DEF Spec, LedgerSpec, Ledger!Spec

-----------------------------------------------------------------------------
(* DELETE and the session's directory *)

(* A DELETE request of session s has closed the row and not yet removed    *)
(* the directory; it takes r down when it will pop, close and join it.     *)
Deleting(h, s) == hop[h] = "delete" /\ hsess[h] = s
TakesDown(h, r) == /\ Deleting(h, rsess[r])
                   /\ \/ hpc[h] = "pop" /\ registry[rsess[r]] = r
                      \/ hpc[h] \in {"close", "join"} /\ hrt[h] = r

(* A runtime with work and a living worker. *)
Alive(r) == rsess[r] # None /\ Busy(r) /\ wpc[r] \notin {"exit", "stopped"}

(* A closed session's runtime that still works is being taken down, and a  *)
(* closed session's directory is about to be removed.                      *)
DrainingOK == \A r \in Runtimes : (Alive(r) /\ sess[rsess[r]] = "closed") =>
                  \E h \in Handlers : TakesDown(h, r)
ClearedOK == \A s \in Sessions : (sess[s] = "closed" /\ dir[s]) =>
                 \E h \in Handlers : /\ Deleting(h, s)
                                     /\ hpc[h] \in {"pop", "close", "join", "rm"}

(* Only DELETE closes a session, and it goes on to pop the runtime. *)
LEMMA ClosedByDelete ==
    ASSUME Typed, Claims, NEW h \in Handlers, HandlerStep(h), NEW s \in Sessions,
           sess'[s] = "closed", sess[s] # "closed"
    PROVE  CloseSession(h) /\ hsess[h] = s /\ hpc'[h] = "pop" /\ Deleting(h, s)'
           /\ UNCHANGED <<reg, runtimes>> /\ sess[s] \in {"absent", "active"}
<1>1. CloseSession(h)
  BY DEF HandlerStep, RequireActive, Lookup, Build, BuildFails, Confirm, Install, Release,
         Submit, SubmitRejected, PopRuntime, CloseRuntime, Join, RemoveDir, Rollback, tables,
         Typed, TypeOK, TablesTyped
<1>2. /\ sess[hsess[h]] # "deleted" /\ sess' = [sess EXCEPT ![hsess[h]] = "closed"]
      /\ Goto(h, "pop") /\ UNCHANGED <<reg, runtimes>>
  BY <1>1 DEF CloseSession
<1>3. hsess[h] = s /\ sess[s] \in {"absent", "active"}
  BY <1>2 DEF Typed, TypeOK, TablesTyped
<1>4. hpc'[h] = "pop" /\ hop'[h] = hop[h] /\ hsess'[h] = hsess[h]
  BY <1>2 DEF Goto, GotoWith, Locals, Typed, TypeOK, HandlersTyped
<1>5. hop[h] = "delete"
  BY <1>1 DEF CloseSession, Claims, OpOK
<1> QED
  BY <1>1, <1>2, <1>3, <1>4, <1>5 DEF Deleting

(* A request that takes a runtime down keeps at it, or another one has     *)
(* taken it over, until the worker has ended.                              *)
LEMMA TakeDownGoesOn ==
    ASSUME Typed, Claims, NEW h \in Handlers, HandlerStep(h), "joinTimeout" \notin Faults,
           NEW r \in Runtimes, rsess[r] # None, rsess'[r] = rsess[r], wpc[r] # "stopped",
           NEW g \in Handlers, TakesDown(g, r)
    PROVE  \E x \in Handlers : TakesDown(x, r)'
<1> USE ConstantsAssumption DEF Typed, TypeOK, HandlersTyped, RegistryTyped, TakesDown, Deleting
<1>1. rsess[r] \in Sessions
  BY DEF RuntimesTyped
<1>2. ASSUME g # h PROVE /\ hpc'[g] = hpc[g] /\ hop'[g] = hop[g]
                         /\ hsess'[g] = hsess[g] /\ hrt'[g] = hrt[g]
  <2>1. hpc[g] # "wait"
    OBVIOUS
  <2> QED
    BY <1>2, <2>1, OthersStay
<1>3. CASE PopRuntime(h)
  <2>1. CASE g # h /\ hsess[h] # rsess[r]
    BY <1>1, <1>2, <1>3, <2>1 DEF PopRuntime
  <2>2. CASE hpc[g] \in {"close", "join"} /\ g # h
    BY <1>2, <2>2
  <2>3. CASE hsess[h] = rsess[r] /\ registry[rsess[r]] = r
    <3>1. GotoWith(h, "close", r)
      BY <1>3, <2>3 DEF PopRuntime
    <3>2. hpc'[h] = "close" /\ hrt'[h] = r /\ hop'[h] = hop[h] /\ hsess'[h] = hsess[h]
      BY <3>1 DEF GotoWith, Locals
    <3>3. hop[h] = "delete"
      BY <1>3 DEF PopRuntime, Claims, OpOK
    <3> QED
      BY <2>3, <3>2, <3>3
  <2> QED
    BY <1>3, <2>1, <2>2, <2>3 DEF PopRuntime
<1>4. CASE ~PopRuntime(h) /\ g # h
  <2>1. CASE hpc[g] = "pop"
    <3>1. registry'[rsess[r]] = r
      <4>1. CASE Install(h)
        BY <1>1, <2>1, <4>1 DEF Install, Claims, Unloaded
      <4>2. CASE ~Install(h)
        BY <1>4, <2>1, <4>2 DEF HandlerStep, RequireActive, Lookup, Build, BuildFails, Confirm,
           Release, Submit, SubmitRejected, CloseSession, CloseRuntime, Join, RemoveDir,
           Rollback, reg
      <4> QED
        BY <4>1, <4>2
    <3> QED
      BY <1>2, <1>4, <2>1, <3>1
  <2> QED
    BY <1>2, <1>4, <2>1
<1>5. CASE ~PopRuntime(h) /\ g = h
  <2>1. CASE CloseRuntime(h)
    BY <1>5, <2>1 DEF CloseRuntime, Goto, GotoWith, Locals
  <2>2. CASE Join(h)
    BY <1>5, <2>2 DEF Join, WorkerEnded
  <2> QED
    BY <1>5, <2>1, <2>2 DEF HandlerStep, RequireActive, Lookup, Build, BuildFails, Confirm,
       Install, Release, Submit, SubmitRejected, CloseSession, RemoveDir, Rollback
<1> QED
  BY <1>3, <1>4, <1>5

(* No runtime of a closed session works on without a DELETE to join it. *)
LEMMA NextDraining ==
    ASSUME Typed, QueuesOK, Exclusion, DrainedOK, DrainingOK, [Next]_vars,
           Faults \cap {"joinTimeout", "drainTimeout", "crash"} = {}
    PROVE  DrainingOK'
<1> SUFFICES ASSUME NEW r \in Runtimes, Alive(r)', sess'[rsess'[r]] = "closed"
             PROVE  \E x \in Handlers : TakesDown(x, r)'
  BY DEF DrainingOK
<1>1. ASSUME NEW h \in Handlers, HandlerStep(h)
      PROVE  \E x \in Handlers : TakesDown(x, r)'
  <2>1. phase = "up"
    BY <1>1, RunningMeansUp DEF Exclusion
  <2>2. Alive(r) /\ rsess'[r] = rsess[r]
    <3>1. CASE Submit(h)
      <4>1. r # hrt[h]
        BY <3>1 DEF Submit, SessionActive
      <4> QED
        BY <3>1, <4>1 DEF Submit, Alive, Busy, Typed, TypeOK, RuntimesTyped
    <3>2. CASE Build(h)
      <4>1. rsess[r] # None
        BY <3>2, UnbuiltIsIdle DEF Build, Alive, Busy
      <4> QED
        BY <3>2, <4>1 DEF Build, Step, Alive, Busy, Typed, TypeOK, RuntimesTyped
    <3>3. CASE ~Submit(h) /\ ~Build(h)
      <4>1. UNCHANGED <<rsess, pending, active>>
        BY <1>1, <3>3, WorkComesFromSubmit
      <4>2. wpc'[r] = wpc[r]
        BY <1>1, <3>3, <4>1, HandlerWrites DEF Alive
      <4> QED
        BY <4>1, <4>2 DEF Alive, Busy
    <3> QED
      BY <3>1, <3>2, <3>3
  <2>3. rsess[r] \in Sessions
    BY <2>2, ConstantsAssumption DEF Alive, Typed, TypeOK, RuntimesTyped
  <2>4. CASE sess[rsess[r]] = "closed"
    <3>1. PICK g \in Handlers : TakesDown(g, r)
      BY <2>2, <2>4 DEF DrainingOK
    <3> QED
      BY <1>1, <2>2, <3>1, TakeDownGoesOn DEF Exclusion, Alive
  <2>5. CASE sess[rsess[r]] # "closed"
    <3>1. /\ hpc'[h] = "pop" /\ Deleting(h, rsess[r])' /\ UNCHANGED <<reg, runtimes>>
          /\ sess[rsess[r]] \in {"absent", "active"}
      BY <1>1, <2>2, <2>3, <2>5, ClosedByDelete DEF Exclusion
    <3>2. sess[rsess[r]] = "active"
      BY <2>2, <3>1 DEF Alive, Exclusion, Created
    <3>3. registry[rsess[r]] = r
      BY <2>1, <2>2, <3>2 DEF Exclusion, Installed, InUse, Alive
    <3> QED
      BY <2>2, <3>1, <3>3 DEF TakesDown, Deleting, reg
  <2> QED
    BY <2>4, <2>5
<1>2. ASSUME NEW h \in Handlers, Request(h)
      PROVE  \E x \in Handlers : TakesDown(x, r)'
  <2>1. /\ UNCHANGED <<reg, runtimes, hrt>> /\ hpc[h] = "idle"
        /\ \A x \in Handlers : x # h => hpc'[x] = hpc[x] /\ hop'[x] = hop[x]
                                        /\ hsess'[x] = hsess[x]
        /\ \A s \in Sessions : sess'[s] = "closed" => sess[s] = "closed"
    BY <1>2 DEF Request, CreateSession, CreateTurn, DeleteSession, Begin,
                Typed, TypeOK, HandlersTyped, TablesTyped
  <2>2. Alive(r) /\ rsess[r] \in Sessions /\ sess[rsess[r]] = "closed"
    BY <2>1, ConstantsAssumption DEF Alive, Busy, runtimes, Typed, TypeOK, RuntimesTyped
  <2>3. PICK g \in Handlers : TakesDown(g, r)
    BY <2>2 DEF DrainingOK
  <2>4. g # h
    BY <2>1, <2>3 DEF TakesDown
  <2> QED
    BY <2>1, <2>3, <2>4 DEF TakesDown, Deleting, reg, runtimes
<1>3. ASSUME UNCHANGED <<reg, handlers, rsess, sess>>, Busy(r), wpc[r] \notin {"exit", "stopped"}
      PROVE  \E x \in Handlers : TakesDown(x, r)'
  <2>1. PICK g \in Handlers : TakesDown(g, r)
    BY <1>3 DEF DrainingOK, Alive
  <2> QED
    BY <1>3, <2>1 DEF TakesDown, Deleting, reg, handlers
<1>4. ASSUME NEW q \in Runtimes, WorkerStep(q) \/ TouchDir(q)
      PROVE  \E x \in Handlers : TakesDown(x, r)'
  <2>1. UNCHANGED <<reg, handlers, rsess, sess>> /\ Busy(r)
    BY <1>4, WorkerKeepsWork, WorkerWritesOwn DEF Alive
  <2>2. wpc[r] \notin {"exit", "stopped"}
    <3>1. CASE q # r
      BY <1>4, <3>1, WorkerWritesOwn DEF Alive
    <3>2. CASE q = r
      BY <1>4, <3>2
         DEF WorkerStep, TouchDir, TakeTurn, TakeStop, SetTurnRunning, RunAgent,
             PersistSnapshot, FinishTurnSuccess, FinishTurnFailure, Cleanup, WorkerExit, Step,
             Alive, Typed, TypeOK, RuntimesTyped
    <3> QED
      BY <3>1, <3>2
  <2> QED
    BY <1>3, <2>1, <2>2
<1>5. CASE Startup
  BY <1>5 DEF Startup, runtimes, Exclusion, DownClean, Alive
<1>6. CASE Shutdown
  <2>1. Alive(r) /\ sess[rsess[r]] = "closed" /\ \A x \in Handlers : hpc[x] = "idle"
    BY <1>6 DEF Shutdown, tables, Alive, Busy
  <2> QED
    BY <2>1 DEF DrainingOK, TakesDown
<1>7. CASE Exit \/ Crash
  BY <1>7 DEF Exit, Crash, MemoryLost, OfRuntimes, Alive
<1>8. CASE RivalStartup \/ UNCHANGED vars
  BY <1>3, <1>8 DEF RivalStartup, vars, tables, runtimes, Alive, Busy
<1> QED
  BY <1>1, <1>2, <1>4, <1>5, <1>6, <1>7, <1>8 DEF Next

(* A closed session's directory has a DELETE that will still remove it. *)
LEMMA NextCleared ==
    ASSUME Typed, Exclusion, DrainedOK, DrainingOK, ClearedOK, [Next]_vars,
           Faults \cap {"joinTimeout", "drainTimeout", "crash"} = {}
    PROVE  ClearedOK'
<1> DEFINE Removes(h, s) == Deleting(h, s) /\ hpc[h] \in {"pop", "close", "join", "rm"}
<1> SUFFICES ASSUME NEW s \in Sessions, sess'[s] = "closed", dir'[s]
             PROVE  \E x \in Handlers : Removes(x, s)'
  BY DEF ClearedOK
<1>1. ASSUME sess[s] = "closed", dir[s] PROVE \E g \in Handlers : Removes(g, s)
  BY <1>1 DEF ClearedOK
<1>2. ASSUME handlers' = handlers, sess[s] = "closed", dir[s]
      PROVE  \E x \in Handlers : Removes(x, s)'
  BY <1>1, <1>2 DEF handlers, Deleting
<1>3. ASSUME NEW h \in Handlers, HandlerStep(h) PROVE \E x \in Handlers : Removes(x, s)'
  <2>1. CASE sess[s] # "closed"
    BY <1>3, <2>1, ClosedByDelete DEF Exclusion
  <2>2. CASE sess[s] = "closed"
    <3>1. dir[s] /\ (RemoveDir(h) => hsess[h] # s)
      BY <1>3 DEF HandlerStep, RequireActive, Lookup, Build, BuildFails, Confirm, Install,
         Release, Submit, SubmitRejected, CloseSession, PopRuntime, CloseRuntime, Join,
         RemoveDir, Rollback, Typed, TypeOK, TablesTyped
    <3>2. PICK g \in Handlers : Removes(g, s)
      BY <1>1, <2>2, <3>1
    <3>3. CASE g # h
      <4>1. hpc'[g] = hpc[g] /\ hop'[g] = hop[g] /\ hsess'[g] = hsess[g]
        BY <1>3, <3>2, <3>3, OthersStay
      <4> QED
        BY <3>2, <4>1 DEF Deleting
    <3>4. CASE g = h
      <4>1. hpc'[h] \in {"pop", "close", "join", "rm"}
        <5>1. CASE PopRuntime(h)
          BY <5>1 DEF PopRuntime, GotoWith, Typed, TypeOK, HandlersTyped
        <5>2. CASE CloseRuntime(h) \/ Join(h)
          BY <3>2, <3>4, <5>2 DEF CloseRuntime, Join, Goto, GotoWith, Deleting,
                                  Typed, TypeOK, HandlersTyped
        <5> QED
          BY <1>3, <3>1, <3>2, <3>4, <5>1, <5>2
             DEF HandlerStep, RequireActive, Lookup, Build, BuildFails, Confirm, Install,
                 Release, Submit, SubmitRejected, CloseSession, Rollback, Deleting, RemoveDir
      <4>2. hop'[h] = hop[h] /\ hsess'[h] = hsess[h]
        BY <1>3, <4>1, OthersStay
      <4> QED
        BY <3>2, <3>4, <4>1, <4>2 DEF Deleting
    <3> QED
      BY <3>3, <3>4
  <2> QED
    BY <2>1, <2>2
<1>4. ASSUME NEW h \in Handlers, Request(h) PROVE \E x \in Handlers : Removes(x, s)'
  <2>1. /\ dir' = dir /\ hpc[h] = "idle" /\ sess[s] = "closed"
        /\ \A x \in Handlers : x # h => hpc'[x] = hpc[x] /\ hop'[x] = hop[x]
                                        /\ hsess'[x] = hsess[x]
    BY <1>4 DEF Request, CreateSession, CreateTurn, DeleteSession, Begin,
                Typed, TypeOK, HandlersTyped, TablesTyped
  <2>2. PICK g \in Handlers : Removes(g, s)
    BY <1>1, <2>1
  <2>3. g # h
    BY <2>1, <2>2
  <2> QED
    BY <2>1, <2>2, <2>3 DEF Deleting
<1>5. ASSUME NEW q \in Runtimes, TouchDir(q) PROVE \E x \in Handlers : Removes(x, s)'
  <2>1. UNCHANGED <<handlers, sess>> /\ dir' = [dir EXCEPT ![rsess[q]] = TRUE]
    BY <1>5 DEF TouchDir, tables
  <2>2. CASE rsess[q] # s
    BY <1>2, <2>1, <2>2 DEF Typed, TypeOK, TablesTyped
  <2>3. CASE rsess[q] = s
    <3>1. Alive(q)
      BY <1>5, <2>3, ConstantsAssumption
         DEF TouchDir, Alive, Busy, Typed, WorkersOK, Working
    <3>2. PICK g \in Handlers : TakesDown(g, q)
      BY <2>1, <2>3, <3>1 DEF DrainingOK
    <3> QED
      BY <2>1, <2>3, <3>2 DEF TakesDown, Deleting, handlers
  <2> QED
    BY <2>2, <2>3
<1>6. ASSUME NEW q \in Runtimes, WorkerStep(q) PROVE \E x \in Handlers : Removes(x, s)'
  <2>1. UNCHANGED <<handlers, dir, sess>>
    BY <1>6 DEF WorkerStep, TakeTurn, TakeStop, SetTurnRunning, RunAgent, PersistSnapshot,
                FinishTurnSuccess, FinishTurnFailure, UpdateTurn, Cleanup, WorkerExit, tables
  <2> QED
    BY <1>2, <2>1
<1>7. CASE Startup \/ Shutdown \/ RivalStartup \/ UNCHANGED vars
  BY <1>2, <1>7 DEF Startup, Shutdown, RivalStartup, vars, tables
<1>8. CASE Exit
  <2>1. sess[s] = "closed" /\ dir[s] /\ \A x \in Handlers : hpc[x] = "idle"
    BY <1>8 DEF Exit, MemoryLost, tables, DrainedOK
  <2> QED
    BY <1>1, <2>1
<1>9. ~Crash
  BY DEF Crash
<1> QED
  BY <1>3, <1>4, <1>5, <1>6, <1>7, <1>8, <1>9 DEF Next

(* Once the requests on a closed session are over its directory is gone,   *)
(* with failed builds, refused writes and rivals: no worker is left that   *)
(* could write it again.  A join that times out, a request cut off by the  *)
(* shutdown and a crash each leave it behind.                              *)
THEOREM DeleteClears ==
    ASSUME Faults \cap {"joinTimeout", "drainTimeout", "crash"} = {}
    PROVE  Spec => []ClosedSessionHasNoDir
<1> DEFINE Inv == Typed /\ QueuesOK /\ Exclusion /\ DrainedOK /\ DrainingOK /\ ClearedOK
<1>1. Init => Inv
  <2>1. Init => DrainedOK /\ DrainingOK /\ ClearedOK
    BY DEF Init, OfRuntimes, OfSessions, OfHandlers, DrainedOK, DrainingOK, ClearedOK, Alive
  <2> QED
    BY <2>1, InitTyped, InitExclusion
<1>2. Inv /\ [Next]_vars => Inv'
  <2>1. Inv /\ [Next]_vars => DrainedOK' /\ DrainingOK' /\ ClearedOK'
    BY NextDrained, NextDraining, NextCleared
  <2> QED
    BY <2>1, NextTyped, NextQueues, NextExclusion
<1>3. Inv => ClosedSessionHasNoDir
  BY DEF ClearedOK, Deleting, ClosedSessionHasNoDir, Quiet
<1> HIDE DEF Inv
<1> QED
  BY <1>1, <1>2, <1>3, PTL DEF Spec
=============================================================================
