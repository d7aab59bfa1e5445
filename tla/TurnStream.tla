----------------------------- MODULE TurnStream -----------------------------
(***************************************************************************)
(* Live streaming of one session's turns: the worker that runs a turn and  *)
(* the thread that submitted it publish events to TurnEventBus, handlers   *)
(* of GET /turns/{id}/stream subscribe and read them, clients disconnect,  *)
(* and the signal handler closes every subscriber at shutdown.             *)
(*                                                                         *)
(* A step is one critical section of the runtime's lock, of the bus's lock *)
(* or of one subscriber queue, or one database transaction.  Heartbeats    *)
(* change nothing here and are left out.                                   *)
(***************************************************************************)
EXTENDS Naturals, Sequences, FiniteSets

CONSTANTS Turns,           \* turns of the session
          OtherTurns,      \* turns of other sessions on the same bus
          Readers,         \* stream connections; each is opened once
          QueueSize,       \* MAX_QUEUE_SIZE
          MaxSubscribers,  \* MAX_SUBSCRIBERS_PER_TURN
          MaxClosed,       \* MAX_CLOSED_TURN_IDS
          MaxSeq,          \* bound: no chunk is emitted past this number
          None

ASSUME StreamAssumption == /\ QueueSize \in Nat \ {0}
                           /\ {MaxSubscribers, MaxClosed, MaxSeq} \subseteq Nat
                           /\ None \notin Turns
                           /\ Turns \cap OtherTurns = {}

Publishers == {"worker", "submitter"} \X Turns
Worker(t)    == <<"worker", t>>
Submitter(t) == <<"submitter", t>>

Event(name, n) == [event |-> name, seq |-> n]
Sentinel == Event("sentinel", 0)
NoEvent  == Event("none", 0)

VARIABLES status,      \* turns.status
          eventSeq,    \* SessionRuntime._event_seq, 0 when there is no entry
          wpc,         \* step of the turn's worker
          pub,         \* publisher -> _emit_event and publish in progress
          subs,        \* TurnEventBus._subscribers
          closedOrder, \* _closed_turn_order; _closed_turns is its range
          toSignal,    \* queues a close still has to signal, by turn
          toSignalAll, \* the same for close_all
          stopping,    \* shutdown_requested
          queue,       \* reader -> its subscriber queue
          rpc, rturn,  \* reader -> step of its handler and its turn
          seen,        \* reader -> last worker's event sent to the client
          missed       \* history: readers that joined after the turn's end
                       \* or whose full queue lost an event

bus     == <<subs, closedOrder, toSignal, toSignalAll>>
workers == <<status, wpc, pub, eventSeq>>
readers == <<rpc, rturn, seen>>
vars    == <<workers, bus, stopping, queue, readers, missed>>

Final == {"completed", "failed"}
Idle == [step |-> "idle", event |-> NoEvent, to |-> {}]
Emits(name) == [step |-> "seq", event |-> Event(name, 0), to |-> {}]

Init == /\ status = [t \in Turns |-> "none"] /\ wpc = [t \in Turns |-> "none"]
        /\ eventSeq = [t \in Turns |-> 0]
        /\ pub = [p \in Publishers |-> Idle]
        /\ subs = [t \in Turns |-> {}] /\ closedOrder = <<>>
        /\ toSignal = [t \in Turns |-> {}] /\ toSignalAll = {}
        /\ stopping = FALSE
        /\ queue = [c \in Readers |-> <<>>]
        /\ rpc = [c \in Readers |-> "new"] /\ rturn = [c \in Readers |-> None]
        /\ seen = [c \in Readers |-> NoEvent]
        /\ missed = {}

-----------------------------------------------------------------------------
(* _emit_event: number the event, copy the subscribers, put it in each     *)
(* queue; three locks, so publishers of one turn interleave.               *)

(* The mutant forgets the increment. *)
SameSeq(t) == eventSeq[t]
NextSeq(t) == eventSeq[t] + 1

Number(p) ==
    LET t == p[2]
        n == NextSeq(t)
    IN /\ pub[p].step = "seq"
       /\ eventSeq' = [eventSeq EXCEPT ![t] = n]
       /\ pub' = [pub EXCEPT ![p].step = "copy", ![p].event.seq = n]
       /\ UNCHANGED <<status, wpc, bus, stopping, queue, readers, missed>>

CopySubscribers(p) ==
    /\ pub[p].step = "copy"
    /\ pub' = [pub EXCEPT ![p] = IF subs[p[2]] = {} THEN Idle
                                 ELSE [@ EXCEPT !.step = "put", !.to = subs[p[2]]]]
    /\ UNCHANGED <<status, wpc, eventSeq, bus, stopping, queue, readers, missed>>

(* put(block=False): a full queue loses the event, and the queue of a      *)
(* stream that is over is garbage.                                         *)
Over(c) == rpc[c] \in {"ended", "gone"}

Put(p, c) ==
    /\ pub[p].step = "put" /\ c \in pub[p].to
    /\ pub' = [pub EXCEPT ![p] = IF @.to = {c} THEN Idle ELSE [@ EXCEPT !.to = pub[p].to \ {c}]]
    /\ IF Over(c)
       THEN UNCHANGED <<queue, missed>>
       ELSE IF Len(queue[c]) < QueueSize
       THEN /\ queue' = [queue EXCEPT ![c] = Append(@, pub[p].event)]
            /\ UNCHANGED missed
       ELSE /\ missed' = missed \cup {c}
            /\ UNCHANGED queue
    /\ UNCHANGED <<status, wpc, eventSeq, bus, stopping, readers>>

Publish(p) == Number(p) \/ CopySubscribers(p) \/ \E c \in Readers : Put(p, c)

-----------------------------------------------------------------------------
(* SessionRuntime: submit_turn, _worker_loop and _run_turn of one turn     *)

(* The turn is queued under the lock, unless another one is pending or     *)
(* active; its event is emitted after the lock.                            *)
SubmitTurn(t) ==
    /\ wpc[t] = "none" /\ ~stopping
    /\ \A u \in Turns : wpc[u] \in {"none", "done"}
    /\ status' = [status EXCEPT ![t] = "queued"]
    /\ wpc' = [wpc EXCEPT ![t] = "start"]
    /\ pub' = [pub EXCEPT ![Submitter(t)] = Emits("queued")]
    /\ UNCHANGED <<eventSeq, bus, stopping, queue, readers, missed>>

Ready(t, pc) == wpc[t] = pc /\ pub[Worker(t)] = Idle

(* The worker writes the row and then announces it. *)
Announce(t, row, name, pc) ==
    /\ status' = [status EXCEPT ![t] = row]
    /\ pub' = [pub EXCEPT ![Worker(t)] = Emits(name)]
    /\ wpc' = [wpc EXCEPT ![t] = pc]
    /\ UNCHANGED <<eventSeq, bus, stopping, queue, readers, missed>>

SetTurnRunning(t) == Ready(t, "start") /\ Announce(t, "running", "running", "agent")

Chunk(t) == /\ Ready(t, "agent")
            /\ eventSeq[t] < MaxSeq
            /\ Announce(t, status[t], "chunk", "agent")

(* The row is written, then the event; each mutant forgets one of the two. *)
FinishUnsaved(t) == Ready(t, "agent") /\ Announce(t, status[t], "done", "close")
FinishUnannounced(t) == /\ Ready(t, "agent")
                        /\ status' = [status EXCEPT ![t] = "completed"]
                        /\ wpc' = [wpc EXCEPT ![t] = "close"]
                        /\ UNCHANGED <<pub, eventSeq, bus, stopping, queue, readers, missed>>
FinishTurnSuccess(t) == Ready(t, "agent") /\ Announce(t, "completed", "done", "close")

FinishTurnFailure(t) == /\ \/ Ready(t, "start") \/ Ready(t, "agent")
                        /\ Announce(t, "failed", "error", "close")

(* finish_turn_failure raises: no event, and the finally block still runs. *)
FinishRaises(t) == /\ \/ Ready(t, "start") \/ Ready(t, "agent")
                   /\ wpc' = [wpc EXCEPT ![t] = "close"]
                   /\ UNCHANGED <<status, pub, eventSeq, bus, stopping, queue,
                                  readers, missed>>

-----------------------------------------------------------------------------
(* TurnEventBus *)

Closed(t) == \E i \in 1..Len(closedOrder) : closedOrder[i] = t

(* Remember t as closed, forgetting the oldest beyond MaxClosed; the      *)
(* mutant never forgets.                                                   *)
RememberedAll(t) == IF Closed(t) THEN closedOrder ELSE Append(closedOrder, t)
Remembered(t) ==
    LET order == IF Closed(t) THEN closedOrder ELSE Append(closedOrder, t)
    IN IF Len(order) > MaxClosed THEN Tail(order) ELSE order

(* bus.close(turn), under the lock. *)
Close(t) ==
    /\ Ready(t, "close")
    /\ toSignal' = [toSignal EXCEPT ![t] = subs[t]]
    /\ subs' = [subs EXCEPT ![t] = {}]
    /\ closedOrder' = Remembered(t)
    /\ wpc' = [wpc EXCEPT ![t] = "signal"]
    /\ UNCHANGED <<status, pub, eventSeq, toSignalAll, stopping, queue, readers, missed>>

(* _signal_close: the sentinel drops the backlog of a full queue; the      *)
(* mutant gives up on one.                                                 *)
GaveUp(q) == IF Len(q) < QueueSize THEN Append(q, Sentinel) ELSE q
Signalled(q) == Append(IF Len(q) < QueueSize THEN q ELSE Tail(q), Sentinel)

SignalClose(c) ==
    IF Over(c) THEN UNCHANGED <<queue, missed>>
    ELSE /\ queue' = [queue EXCEPT ![c] = Signalled(@)]
         /\ missed' = IF Len(queue[c]) < QueueSize THEN missed ELSE missed \cup {c}

(* Another session's turn closes: all it does here is to be remembered. *)
CloseOther(o) ==
    /\ ~Closed(o)
    /\ closedOrder' = Remembered(o)
    /\ UNCHANGED <<workers, subs, toSignal, toSignalAll, stopping, queue, readers, missed>>

SignalOne(t) ==
    /\ wpc[t] = "signal"
    /\ \E c \in toSignal[t] : /\ SignalClose(c)
                              /\ toSignal' = [toSignal EXCEPT ![t] = @ \ {c}]
    /\ UNCHANGED <<workers, subs, closedOrder, toSignalAll, stopping, readers>>

(* _clear_turn_seq, once every subscriber is signalled. *)
ClearTurnSeq(t) ==
    /\ wpc[t] = "signal" /\ toSignal[t] = {}
    /\ eventSeq' = [eventSeq EXCEPT ![t] = 0]
    /\ wpc' = [wpc EXCEPT ![t] = "done"]
    /\ UNCHANGED <<status, pub, bus, stopping, queue, readers, missed>>

(* SIGINT or SIGTERM: _begin_http_shutdown calls close_all once. *)
CloseAll ==
    /\ ~stopping
    /\ stopping' = TRUE
    /\ toSignalAll' = UNION {subs[t] : t \in Turns}
    /\ subs' = [t \in Turns |-> {}]
    /\ UNCHANGED <<workers, closedOrder, toSignal, queue, readers, missed>>

SignalAll ==
    /\ \E c \in toSignalAll : /\ SignalClose(c)
                              /\ toSignalAll' = toSignalAll \ {c}
    /\ UNCHANGED <<workers, subs, closedOrder, toSignal, stopping, readers>>

-----------------------------------------------------------------------------
(* stream_turn and the generator it returns *)

Go(c, pc) == rpc' = [rpc EXCEPT ![c] = pc]

(* The row is read; a final turn is answered with its terminal event. *)
ReadRow(c, t) ==
    /\ rpc[c] = "new" /\ status[t] # "none" /\ ~stopping
    /\ rturn' = [rturn EXCEPT ![c] = t]
    /\ IF status[t] \in Final
       THEN /\ seen' = [seen EXCEPT ![c] =
                          Event(IF status[t] = "completed" THEN "done" ELSE "error", 0)]
            /\ Go(c, "ended")
       ELSE Go(c, "subscribe") /\ UNCHANGED seen
    /\ UNCHANGED <<workers, bus, stopping, queue, missed>>

(* Does subscribe() refuse; the mutant forgets the closed turns. *)
Full(t) == Cardinality(subs[t]) >= MaxSubscribers
Refused(t) == Closed(t) \/ Full(t)

Subscribe(c) ==
    LET t == rturn[c] IN
    /\ rpc[c] = "subscribe"
    /\ missed' = IF status[t] \in Final \/ Refused(t) THEN missed \cup {c} ELSE missed
    /\ IF Refused(t)
       THEN Go(c, "refused") /\ UNCHANGED subs
       ELSE Go(c, "status") /\ subs' = [subs EXCEPT ![t] = @ \cup {c}]
    /\ UNCHANGED <<workers, closedOrder, toSignal, toSignalAll, stopping, queue, rturn, seen>>

(* The status snapshot is sent; the live iterator is started, or is empty. *)
SendStatus(c) ==
    /\ rpc[c] \in {"status", "refused"}
    /\ Go(c, IF rpc[c] = "status" THEN "read" ELSE "ended")
    /\ UNCHANGED <<workers, bus, stopping, queue, rturn, seen, missed>>

ReadEvent(c) ==
    /\ rpc[c] = "read" /\ queue[c] # <<>>
    /\ LET item == Head(queue[c]) IN
       /\ queue' = [queue EXCEPT ![c] = Tail(@)]
       /\ seen' = IF item.event \in {"sentinel", "queued"} THEN seen
                  ELSE [seen EXCEPT ![c] = item]
       /\ IF item.event \in {"sentinel", "done", "error"} THEN Go(c, "leave")
                                                          ELSE UNCHANGED rpc
    /\ UNCHANGED <<workers, bus, stopping, rturn, missed>>

(* The iterator's finally block. *)
RemoveSubscriber(c) ==
    /\ rpc[c] \in {"leave", "drop"}
    /\ subs' = [subs EXCEPT ![rturn[c]] = @ \ {c}]
    /\ Go(c, IF rpc[c] = "leave" THEN "ended" ELSE "gone")
    /\ queue' = [queue EXCEPT ![c] = <<>>]
    /\ UNCHANGED <<workers, closedOrder, toSignal, toSignalAll, stopping,
                   rturn, seen, missed>>

(* The client goes away.  A generator that was never started runs no       *)
(* finally block, so its place in the list is not given back.              *)
Disconnect(c) ==
    /\ rpc[c] \in {"status", "refused", "read"}
    /\ Go(c, IF rpc[c] = "read" THEN "drop" ELSE "gone")
    /\ UNCHANGED <<workers, bus, stopping, queue, rturn, seen, missed>>

-----------------------------------------------------------------------------
WorkerStep(t) ==
    \/ SetTurnRunning(t) \/ Chunk(t) \/ FinishTurnSuccess(t) \/ FinishTurnFailure(t)
    \/ FinishRaises(t) \/ Close(t) \/ SignalOne(t) \/ ClearTurnSeq(t)

ReaderStep(c) == Subscribe(c) \/ SendStatus(c) \/ ReadEvent(c) \/ RemoveSubscriber(c)

Next == \/ \E t \in Turns : SubmitTurn(t) \/ WorkerStep(t)
        \/ \E p \in Publishers : Publish(p)
        \/ \E c \in Readers : ReaderStep(c) \/ Disconnect(c) \/ \E t \in Turns : ReadRow(c, t)
        \/ \E o \in OtherTurns : CloseOther(o)
        \/ CloseAll \/ SignalAll

Spec == Init /\ [][Next]_vars

(* Threads are scheduled and an agent run ends; clients and signals need   *)
(* not come.                                                               *)
Fairness == /\ \A t \in Turns : WF_vars(WorkerStep(t))
            /\ \A p \in Publishers : WF_vars(Publish(p))
            /\ \A c \in Readers : WF_vars(ReaderStep(c))
            /\ WF_vars(SignalAll)

FairSpec == Spec /\ Fairness

-----------------------------------------------------------------------------
(* Properties *)

Names == {"none", "queued", "running", "chunk", "done", "error", "sentinel"}
Events == [event : Names, seq : Nat]

(* The type invariant; a subscriber queue never grows past QueueSize and   *)
(* the closed ids never past MaxClosed.                                    *)
TypeOK ==
    /\ status \in [Turns -> {"none", "queued", "running"} \cup Final]
    /\ eventSeq \in [Turns -> Nat]
    /\ wpc \in [Turns -> {"none", "start", "agent", "close", "signal", "done"}]
    /\ pub \in [Publishers -> [step : {"idle", "seq", "copy", "put"}, event : Events,
                               to : SUBSET Readers]]
    /\ subs \in [Turns -> SUBSET Readers]
    /\ closedOrder \in Seq(Turns \cup OtherTurns) /\ Len(closedOrder) <= MaxClosed
    /\ toSignal \in [Turns -> SUBSET Readers] /\ toSignalAll \subseteq Readers
    /\ stopping \in BOOLEAN
    /\ queue \in [Readers -> Seq(Events)]
    /\ \A c \in Readers : Len(queue[c]) <= QueueSize
    /\ rpc \in [Readers -> {"new", "subscribe", "status", "refused", "read", "leave",
                            "drop", "ended", "gone"}]
    /\ rturn \in [Readers -> Turns \cup {None}]
    /\ seen \in [Readers -> Events]
    /\ missed \subseteq Readers

TerminalSeen(c) == seen[c].event \in {"done", "error"}

(* A client is told of an outcome only when the row already says so: the   *)
(* transaction that ends a turn precedes its event, and no event of one    *)
(* outcome is sent for the other.                                          *)
OutcomeIsRecorded ==
    \A c \in Readers :
        /\ seen[c].event = "done" => status[rturn[c]] = "completed"
        /\ seen[c].event = "error" => status[rturn[c]] = "failed"

(* Whoever waits on a queue is still in the subscriber list, or has the    *)
(* sentinel before it, or is about to get it: subscribe, close, close_all  *)
(* and full queues leave no reader waiting for a turn that is over.  A     *)
(* turn the bus remembers as closed has no subscribers and never gets one. *)
NoForgottenReader ==
    /\ \A t \in Turns : Closed(t) => subs[t] = {}
    /\ \A c \in Readers : rpc[c] \in {"status", "read"} =>
         \/ c \in subs[rturn[c]]
         \/ \E i \in 1..Len(queue[c]) : queue[c][i].event \in {"sentinel", "done", "error"}
         \/ c \in toSignal[rturn[c]] \cup toSignalAll

(* When a stream ends without done or error, it is because the client      *)
(* joined once the turn was over or was refused a place, its queue         *)
(* overflowed, the server is stopping, or the outcome could not be saved.  *)
SilentEndIsExplained ==
    \A c \in Readers : (rpc[c] = "ended" /\ ~TerminalSeen(c)) =>
        c \in missed \/ stopping \/ status[rturn[c]] \notin Final

(* The worker's events reach a client in the order they were numbered,     *)
(* with none twice, whatever is dropped and whenever the late "queued"     *)
(* event of the submitting thread comes.                                   *)
InOrder ==
    [][\A c \in Readers : (seen[c] # NoEvent /\ seen'[c] # seen[c])
                              => seen'[c].seq > seen[c].seq]_vars

(* A started stream ends, unless the turn's id was forgotten as closed     *)
(* before the client could subscribe.                                      *)
Forgotten(t) == wpc[t] = "done" /\ ~Closed(t)
StreamsEnd == \A c \in Readers, t \in Turns :
    (rpc[c] = "read" /\ rturn[c] = t) ~> (Over(c) \/ Forgotten(t))

(* "reconnect to active turn gets a status snapshot, then live tail        *)
(* events", "reconnect to terminal turn gets one terminal event": while    *)
(* the server runs, a stream that ends has delivered a recorded outcome.   *)
StreamEndsWithOutcome ==
    \A c \in Readers :
        (rpc[c] = "ended" /\ ~stopping /\ status[rturn[c]] \in Final) => TerminalSeen(c)
=============================================================================
