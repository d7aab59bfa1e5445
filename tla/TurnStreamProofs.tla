--------------------------- MODULE TurnStreamProofs ---------------------------
(***************************************************************************)
(* Proofs about TurnStream, for any number of turns, readers, subscribers  *)
(* and queue places: what a client is told is recorded, in order and not   *)
(* twice, nobody waits for a turn that is over, and whoever is not told    *)
(* the outcome has a reason.                                               *)
(***************************************************************************)
EXTENDS TurnStream, TLAPS, SequenceTheorems

(* The names of the events the worker emits, of those that tell an outcome *)
(* and of those that end a stream.                                         *)
Worked   == {"running", "chunk", "done", "error"}
Terminal == {"done", "error"}
Enders   == {"done", "error", "sentinel"}

(* Steps of a handler that waits for its queue, or is about to.            *)
Attached == {"status", "read"}
Unplaced == {"new", "subscribe"}

(* A connection is in the lists of its own turn only, once it subscribed;  *)
(* before, it has neither events nor sent any.                             *)
PlaceOK ==
    /\ \A t \in Turns, c \in Readers :
           c \in subs[t] \cup toSignal[t] => rturn[c] = t /\ rpc[c] \notin Unplaced
    /\ \A p \in Publishers : \A c \in pub[p].to : rturn[c] = p[2] /\ rpc[c] \notin Unplaced
    /\ \A c \in toSignalAll : rpc[c] \notin Unplaced
    /\ \A c \in Readers : rpc[c] \in Unplaced => queue[c] = <<>> /\ seen[c] = NoEvent
    /\ \A c \in Readers : rpc[c] # "new" => rturn[c] \in Turns

(* The worker announces one thing at a time and nothing after its close;   *)
(* a turn's row is final only once the worker has ended it.                *)
WorkerOK ==
    /\ \A t \in Turns :
         /\ wpc[t] \in {"none", "start", "agent"} => status[t] \notin Final
         /\ pub[Worker(t)] # Idle => wpc[t] \in {"agent", "close"}
         /\ pub[Worker(t)] # Idle => pub[Worker(t)].event.event \in Worked
         /\ pub[Submitter(t)] # Idle => pub[Submitter(t)].event.event = "queued"
         /\ toSignal[t] # {} => wpc[t] = "signal"
    /\ \A p \in Publishers : /\ pub[p].step = "idle" => pub[p] = Idle
                             /\ pub[p].step # "put" => pub[p].to = {}
    /\ toSignalAll # {} => stopping

(* An event that tells an outcome is sent when the row tells the same.     *)
Right(e, row) == /\ e.event = "done" => row = "completed"
                 /\ e.event = "error" => row = "failed"

EventsOK ==
    /\ \A p \in Publishers : Right(pub[p].event, status[p[2]])
    /\ \A c \in Readers : \A i \in 1..Len(queue[c]) :
           queue[c][i].event \in Worked \cup {"queued", "sentinel"}
    /\ \A c \in Readers : \A i \in 1..Len(queue[c]) : Right(queue[c][i], status[rturn[c]])
    /\ \A c \in Readers : Right(seen[c], status[rturn[c]])

(* Nobody gets a sentinel before the turn closes or the server stops.      *)
SentinelOK ==
    \A c \in Readers : \A i \in 1..Len(queue[c]) :
        queue[c][i].event = "sentinel" => stopping \/ wpc[rturn[c]] \in {"signal", "done"}

(* An outcome is in the queue; it is there ahead of any sentinel.          *)
HasOutcome(q) == \E i \in 1..Len(q) : q[i].event \in Terminal
Led(q) == \A j \in 1..Len(q) : q[j].event = "sentinel" =>
              \E i \in 1..Len(q) : i < j /\ q[i].event \in Terminal

(* The outcome of c's turn is still to be put in its queue.                *)
Coming(c) ==
    LET w == pub[Worker(rturn[c])] IN
    /\ w.event.event \in Terminal
    /\ \/ w.step \in {"seq", "copy"} /\ c \in subs[rturn[c]]
       \/ w.step = "put" /\ c \in w.to

(* Nothing excuses c from being told the outcome of its turn.              *)
Owed(c) == c \notin missed /\ ~stopping /\ status[rturn[c]] \in Final

(* While c waits for it the outcome is under way, ahead of any sentinel.   *)
DeliveryOK ==
    /\ \A c \in Readers : rpc[c] \in Attached /\ Owed(c) =>
         (HasOutcome(queue[c]) \/ Coming(c)) /\ Led(queue[c])
    /\ \A c \in Readers : rpc[c] = "refused" => c \in missed
    /\ \A c \in Readers : rpc[c] \in {"leave", "ended"} =>
         \/ TerminalSeen(c) \/ c \in missed \/ stopping
         \/ wpc[rturn[c]] \in {"signal", "done"} /\ status[rturn[c]] \notin Final

(* The worker's events in a queue are numbered in order, above the number  *)
(* that was seen last; all of them are below another number.               *)
Numbered(q, s) ==
    /\ \A i, j \in 1..Len(q) :
           i < j /\ q[i].event \in Worked /\ q[j].event \in Worked => q[i].seq < q[j].seq
    /\ \A i \in 1..Len(q) : q[i].event \in Worked => s < q[i].seq
Under(q, s, n) == s < n /\ \A i \in 1..Len(q) : q[i].event \in Worked => q[i].seq < n

(* What a client has or gets is below the event that it has yet to get.    *)
NumbersOK ==
    /\ \A c \in Readers : Numbered(queue[c], seen[c].seq)
    /\ \A t \in Turns : wpc[t] # "done" =>
         /\ \A c \in Readers : rturn[c] = t => Under(queue[c], seen[c].seq, eventSeq[t] + 1)
         /\ pub[Worker(t)].event.seq <= eventSeq[t]
         /\ pub[Worker(t)].step = "copy" =>
              /\ pub[Worker(t)].event.seq > 0
              /\ \A c \in Readers : rturn[c] = t =>
                     Under(queue[c], seen[c].seq, pub[Worker(t)].event.seq)
         /\ \A c \in pub[Worker(t)].to : Under(queue[c], seen[c].seq, pub[Worker(t)].event.seq)

(* Whoever waits is reached, and a closed turn has no subscribers.         *)
ReachOK == NoForgottenReader

Delivered == TypeOK /\ PlaceOK /\ WorkerOK /\ EventsOK /\ ReachOK /\ SentinelOK
                    /\ DeliveryOK /\ NumbersOK

-----------------------------------------------------------------------------
(* Queues *)

(* What is left of a queue whose first item was read. *)
LEMMA Dequeued ==
    ASSUME NEW q \in Seq(Events), q # <<>>
    PROVE  /\ Tail(q) \in Seq(Events) /\ Len(q) \in Nat /\ Len(q) > 0
           /\ Len(Tail(q)) = Len(q) - 1
           /\ \A i \in 1..Len(q) - 1 : Tail(q)[i] = q[i + 1]
           /\ Head(q) = q[1] /\ q[1] \in Events
BY HeadTailProperties, EmptySeq, ElementOfSeq

(* A queue that got an item at its end. *)
LEMMA Enqueued ==
    ASSUME NEW q \in Seq(Events), NEW e \in Events
    PROVE  /\ Append(q, e) \in Seq(Events) /\ Len(q) \in Nat
           /\ Len(Append(q, e)) = Len(q) + 1
           /\ \A i \in 1..Len(q) : Append(q, e)[i] = q[i]
           /\ Append(q, e)[Len(q) + 1] = e
BY AppendProperties

(* r is q with the sentinel at its end, without the first lost items.      *)
Closing(q, r, lost) ==
    /\ lost \in {0, 1} /\ (lost = 0 <=> Len(q) < QueueSize)
    /\ Len(r) = Len(q) + 1 - lost
    /\ \A i \in 1..(Len(q) - lost) : r[i] = q[i + lost]
    /\ r[Len(r)] = Sentinel

(* _signal_close always finds a place for the sentinel. *)
LEMMA SignalledQueue ==
    ASSUME NEW q \in Seq(Events), Len(q) <= QueueSize
    PROVE  /\ Signalled(q) \in Seq(Events) /\ Len(Signalled(q)) <= QueueSize
           /\ \E lost \in {0, 1} : Closing(q, Signalled(q), lost)
<1>1. Sentinel \in Events
  BY DEF Sentinel, Event, Events, Names
<1>2. Len(q) \in Nat /\ QueueSize \in Nat \ {0}
  BY StreamAssumption
<1>3. CASE Len(q) < QueueSize
  <2>1. Signalled(q) = Append(q, Sentinel)
    BY <1>3 DEF Signalled
  <2>2. Closing(q, Append(q, Sentinel), 0)
    BY <1>1, <1>2, <1>3, Enqueued DEF Closing
  <2> QED
    BY <1>1, <1>2, <1>3, <2>1, <2>2, Enqueued
<1>4. CASE ~(Len(q) < QueueSize)
  <2>1. q # <<>>
    BY <1>2, <1>4
  <2>2. PICK u \in Seq(Events) : u = Tail(q)
    BY <2>1, Dequeued
  <2>3. Len(u) = Len(q) - 1 /\ \A i \in 1..Len(q) - 1 : u[i] = q[i + 1]
    BY <2>1, <2>2, Dequeued
  <2>4. Signalled(q) = Append(u, Sentinel)
    BY <1>4, <2>2 DEF Signalled
  <2>5. Closing(q, Append(u, Sentinel), 1)
    BY <1>1, <1>2, <1>4, <2>3, Enqueued DEF Closing
  <2> QED
    BY <1>1, <1>2, <1>4, <2>3, <2>4, <2>5, Enqueued
<1> QED
  BY <1>3, <1>4

-----------------------------------------------------------------------------
(* Closed turns *)

(* A turn is remembered as closed because it was or because it is now.     *)
LEMMA RememberedTurns ==
    ASSUME closedOrder \in Seq(Turns \cup OtherTurns), Len(closedOrder) <= MaxClosed,
           NEW t \in Turns \cup OtherTurns
    PROVE  /\ Remembered(t) \in Seq(Turns \cup OtherTurns) /\ Len(Remembered(t)) <= MaxClosed
           /\ \A i \in 1..Len(Remembered(t)) : Remembered(t)[i] = t \/ Closed(Remembered(t)[i])
<1> DEFINE S == Turns \cup OtherTurns
<1>1. MaxClosed \in Nat /\ Len(closedOrder) \in Nat
  BY StreamAssumption
<1>2. PICK order \in Seq(S) : order = IF Closed(t) THEN closedOrder ELSE Append(closedOrder, t)
  BY AppendProperties
<1>3. /\ Len(order) <= MaxClosed + 1
      /\ \A i \in 1..Len(order) : order[i] = t \/ Closed(order[i])
  <2>1. CASE Closed(t)
    BY <1>1, <1>2, <2>1 DEF Closed
  <2>2. CASE ~Closed(t)
    <3>1. /\ Len(order) = Len(closedOrder) + 1
          /\ \A i \in 1..Len(closedOrder) : order[i] = closedOrder[i]
          /\ order[Len(closedOrder) + 1] = t
      BY <1>2, <2>2, AppendProperties
    <3> QED
      BY <1>1, <3>1 DEF Closed
  <2> QED
    BY <2>1, <2>2
<1>4. Remembered(t) = IF Len(order) > MaxClosed THEN Tail(order) ELSE order
  BY <1>2 DEF Remembered
<1>5. CASE Len(order) > MaxClosed
  <2>1. order # <<>>
    BY <1>1, <1>5
  <2>a. Tail(order) \in Seq(S)
    BY <2>1, HeadTailProperties
  <2>2. PICK u \in Seq(S) : u = Tail(order)
    BY <2>a, Zenon
  <2>3. Len(u) = Len(order) - 1 /\ \A i \in 1..Len(u) : u[i] = order[i + 1]
    BY <2>1, <2>2, HeadTailProperties
  <2>4. Remembered(t) = u
    BY <1>4, <1>5, <2>2
  <2>5. Len(order) \in Nat
    BY LenProperties
  <2>6. Len(u) <= MaxClosed
    BY <1>1, <1>3, <2>3, <2>5
  <2>7. \A i \in 1..Len(u) : u[i] = t \/ Closed(u[i])
    BY <1>3, <2>3, <2>5
  <2> QED
    BY <2>4, <2>6, <2>7
<1>6. CASE ~(Len(order) > MaxClosed)
  BY <1>1, <1>3, <1>4, <1>6
<1> QED
  BY <1>5, <1>6

(* Remembering one turn as closed closes no other. *)
LEMMA ClosesOne ==
    ASSUME TypeOK, NEW o \in Turns \cup OtherTurns, closedOrder' = Remembered(o),
           NEW t, Closed(t)'
    PROVE  t = o \/ Closed(t)
<1>1. PICK i \in 1..Len(closedOrder') : closedOrder'[i] = t
  BY DEF Closed
<1>2. i \in 1..Len(Remembered(o)) /\ Remembered(o)[i] = t
  BY <1>1
<1>3. closedOrder \in Seq(Turns \cup OtherTurns) /\ Len(closedOrder) <= MaxClosed
  BY DEF TypeOK
<1> QED
  BY <1>2, <1>3, RememberedTurns

-----------------------------------------------------------------------------
(* Types *)

(* The values of one publisher and of a reader's step. *)
Publications == [step : {"idle", "seq", "copy", "put"}, event : Events, to : SUBSET Readers]
ReaderSteps  == {"new", "subscribe", "status", "refused", "read", "leave", "drop", "ended", "gone"}

(* The constants and the records the values are made of. *)
LEMMA Shapes ==
    /\ Idle \in Publications
    /\ \A n \in Names : Event(n, 0) \in Events /\ Emits(n) \in Publications
    /\ Sentinel \in Events /\ NoEvent \in Events
BY DEF Idle, Emits, Event, NoEvent, Sentinel, Events, Names, Publications

(* A publisher is the worker or the submitter of one turn. *)
LEMMA WhoPublishes ==
    /\ \A t \in Turns : Worker(t) \in Publishers /\ Submitter(t) \in Publishers
    /\ \A p \in Publishers : p[2] \in Turns /\ (p = Worker(p[2]) \/ p = Submitter(p[2]))
    /\ \A t, u \in Turns : /\ Worker(t) # Submitter(u)
                           /\ Worker(t) = Worker(u) => t = u
                           /\ Submitter(t) = Submitter(u) => t = u
                           /\ Worker(t)[2] = t /\ Submitter(t)[2] = t
BY DEF Publishers, Worker, Submitter

(* What publishing changes in a publisher's value. *)
LEMMA PublicationUpdates ==
    ASSUME NEW e \in Publications, NEW n \in Nat, NEW r \in SUBSET Readers
    PROVE  /\ [e EXCEPT !.step = "copy", !.event.seq = n] \in Publications
           /\ [e EXCEPT !.step = "put", !.to = r] \in Publications
           /\ \A c : [e EXCEPT !.to = @ \ {c}] \in Publications
BY DEF Publications, Events

(* A publisher gets another value, a reader another step. *)
LEMMA PubKeepsTypes ==
    ASSUME TypeOK, NEW p \in Publishers, NEW e \in Publications, pub' = [pub EXCEPT ![p] = e]
    PROVE  pub' \in [Publishers -> Publications]
<1>1. pub \in [Publishers -> Publications]
  BY DEF TypeOK, Publications
<1> QED
  BY <1>1

(* A reader that goes on keeps the types. *)
LEMMA GoKeepsTypes ==
    ASSUME TypeOK, NEW c \in Readers, NEW step \in ReaderSteps, Go(c, step)
    PROVE  rpc' \in [Readers -> ReaderSteps]
<1>1. rpc \in [Readers -> ReaderSteps]
  BY DEF TypeOK, ReaderSteps
<1> QED
  BY <1>1 DEF Go

(* A publisher that begins to publish. *)
LEMMA EmitKeepsTypes ==
    ASSUME TypeOK, NEW p \in Publishers, NEW n \in Names, pub' = [pub EXCEPT ![p] = Emits(n)]
    PROVE  pub' \in [Publishers -> Publications]
BY Shapes, PubKeepsTypes

(* The queue of a reader who is signalled, or whose stream is over. *)
LEMMA SignalKeepsTypes ==
    ASSUME TypeOK, NEW c \in Readers, SignalClose(c)
    PROVE  /\ queue' \in [Readers -> Seq(Events)] /\ \A d \in Readers : Len(queue'[d]) <= QueueSize
           /\ missed' \subseteq Readers
<1>1. CASE Over(c)
  BY <1>1 DEF SignalClose, TypeOK
<1>2. CASE ~Over(c)
  <2>1. queue[c] \in Seq(Events) /\ Len(queue[c]) <= QueueSize
    BY DEF TypeOK
  <2>2. Signalled(queue[c]) \in Seq(Events) /\ Len(Signalled(queue[c])) <= QueueSize
    BY <2>1, SignalledQueue
  <2>3. queue' = [queue EXCEPT ![c] = Signalled(queue[c])]
    BY <1>2 DEF SignalClose
  <2>4. missed' \subseteq Readers
    BY <1>2 DEF SignalClose, TypeOK
  <2> QED
    BY <2>2, <2>3, <2>4 DEF TypeOK
<1> QED
  BY <1>1, <1>2

(* Every step keeps the types, and the bounds on queues and closed turns.  *)
LEMMA NextType == TypeOK /\ [Next]_vars => TypeOK'
<1> SUFFICES ASSUME TypeOK, [Next]_vars PROVE TypeOK'
  OBVIOUS
<1> USE DEF bus, workers, readers
<1>1. CASE UNCHANGED vars
  BY <1>1 DEF vars, TypeOK
<1>2. ASSUME NEW t \in Turns, SubmitTurn(t) PROVE TypeOK'
  <2>1. pub' \in [Publishers -> Publications]
    BY <1>2, EmitKeepsTypes, WhoPublishes DEF SubmitTurn, Names
  <2> QED
    BY <1>2, <2>1 DEF SubmitTurn, TypeOK, Publications
<1>3. ASSUME NEW t \in Turns, NEW row \in {"queued", "running"} \cup Final \cup {status[t]},
             NEW name \in Names, NEW pc \in {"agent", "close"}, Announce(t, row, name, pc)
      PROVE  TypeOK'
  <2>1. pub' \in [Publishers -> Publications]
    BY <1>3, EmitKeepsTypes, WhoPublishes DEF Announce
  <2> QED
    BY <1>3, <2>1 DEF Announce, TypeOK, Publications
<1>4. ASSUME NEW t \in Turns,
             SetTurnRunning(t) \/ Chunk(t) \/ FinishTurnSuccess(t) \/ FinishTurnFailure(t)
      PROVE  TypeOK'
  BY <1>3, <1>4 DEF SetTurnRunning, Chunk, FinishTurnSuccess, FinishTurnFailure, Names, Final
<1>5. ASSUME NEW t \in Turns, FinishRaises(t) \/ ClearTurnSeq(t) PROVE TypeOK'
  <2>1. wpc' \in [Turns -> {"none", "start", "agent", "close", "signal", "done"}]
    BY <1>5 DEF FinishRaises, ClearTurnSeq, TypeOK
  <2>2. eventSeq' = eventSeq \/ eventSeq' = [eventSeq EXCEPT ![t] = 0]
    BY <1>5 DEF FinishRaises, ClearTurnSeq
  <2>3. eventSeq' \in [Turns -> Nat]
    BY <2>2 DEF TypeOK
  <2> QED
    BY <1>5, <2>1, <2>3 DEF FinishRaises, ClearTurnSeq, TypeOK
<1>6. ASSUME NEW t \in Turns, Close(t) PROVE TypeOK'
  BY <1>6, RememberedTurns DEF Close, TypeOK
<1>7. ASSUME NEW t \in Turns, SignalOne(t) PROVE TypeOK'
  <2>1. PICK c \in toSignal[t] : SignalClose(c) /\ toSignal' = [toSignal EXCEPT ![t] = @ \ {c}]
    BY <1>7 DEF SignalOne
  <2>2. c \in Readers
    BY <2>1 DEF TypeOK
  <2>3. /\ queue' \in [Readers -> Seq(Events)] /\ \A d \in Readers : Len(queue'[d]) <= QueueSize
        /\ missed' \subseteq Readers
    BY <2>1, <2>2, SignalKeepsTypes
  <2> QED
    BY <1>7, <2>1, <2>3 DEF SignalOne, TypeOK
<1>8. ASSUME NEW p \in Publishers, Number(p) PROVE TypeOK'
  <2>1. p[2] \in Turns
    BY WhoPublishes
  <2>2. NextSeq(p[2]) \in Nat
    BY <2>1 DEF NextSeq, TypeOK
  <2>3. eventSeq' \in [Turns -> Nat]
    BY <1>8, <2>1, <2>2 DEF Number, TypeOK
  <2>4. pub' = [pub EXCEPT ![p].step = "copy", ![p].event.seq = NextSeq(p[2])]
    BY <1>8 DEF Number
  <2>5. PICK e \in Publications : pub' = [pub EXCEPT ![p] = e]
    <3>1. pub[p] \in Publications
      BY DEF TypeOK, Publications
    <3>2. [pub[p] EXCEPT !.step = "copy", !.event.seq = NextSeq(p[2])] \in Publications
      BY <2>2, <3>1, PublicationUpdates
    <3>3. pub' = [pub EXCEPT ![p] = [pub[p] EXCEPT !.step = "copy", !.event.seq = NextSeq(p[2])]]
      BY <2>4, Zenon
    <3> QED
      BY <3>2, <3>3, Zenon
  <2>6. pub' \in [Publishers -> Publications]
    BY <2>5, PubKeepsTypes
  <2> QED
    BY <1>8, <2>3, <2>6 DEF Number, TypeOK, Publications
<1>9. ASSUME NEW p \in Publishers, CopySubscribers(p) PROVE TypeOK'
  <2>1. subs[p[2]] \subseteq Readers
    BY WhoPublishes DEF TypeOK
  <2>2. pub' \in [Publishers -> Publications]
    <3>1. pub[p] \in Publications
      BY DEF TypeOK, Publications
    <3>2. [pub[p] EXCEPT !.step = "put", !.to = subs[p[2]]] \in Publications
      BY <2>1, <3>1, PublicationUpdates
    <3>3. PICK e \in Publications : pub' = [pub EXCEPT ![p] = e]
      <4>1. CASE subs[p[2]] = {}
        BY <1>9, <4>1, Shapes, Zenon DEF CopySubscribers
      <4>2. CASE subs[p[2]] # {}
        BY <1>9, <3>2, <4>2, Zenon DEF CopySubscribers
      <4> QED
        BY <4>1, <4>2
    <3> QED
      BY <3>3, PubKeepsTypes
  <2> QED
    BY <1>9, <2>2 DEF CopySubscribers, TypeOK, Publications
<1>10. ASSUME NEW p \in Publishers, NEW c \in Readers, Put(p, c) PROVE TypeOK'
  <2>1. queue[c] \in Seq(Events) /\ pub[p].event \in Events
    BY DEF TypeOK
  <2>2. /\ queue' \in [Readers -> Seq(Events)] /\ \A d \in Readers : Len(queue'[d]) <= QueueSize
        /\ missed' \subseteq Readers
    <3>1. CASE Over(c) \/ ~(Len(queue[c]) < QueueSize)
      BY <1>10, <3>1 DEF Put, TypeOK
    <3>2. CASE ~Over(c) /\ Len(queue[c]) < QueueSize
      <4>1. queue' = [queue EXCEPT ![c] = Append(queue[c], pub[p].event)] /\ missed' = missed
        BY <1>10, <3>2 DEF Put
      <4>2. /\ Append(queue[c], pub[p].event) \in Seq(Events)
            /\ Len(Append(queue[c], pub[p].event)) <= QueueSize
        BY <2>1, <3>2, Enqueued, StreamAssumption
      <4> QED
        BY <4>1, <4>2 DEF TypeOK
    <3> QED
      BY <3>1, <3>2
  <2>3. PICK e \in Publications : pub' = [pub EXCEPT ![p] = e]
    <3>1. pub[p] \in Publications
      BY DEF TypeOK, Publications
    <3>2. [pub[p] EXCEPT !.to = @ \ {c}] \in Publications
      BY <3>1, PublicationUpdates, StreamAssumption
    <3>3. pub' = [pub EXCEPT ![p] = IF pub[p].to = {c} THEN Idle
                                    ELSE [pub[p] EXCEPT !.to = pub[p].to \ {c}]]
      BY <1>10 DEF Put
    <3> QED
      BY <3>2, <3>3, Shapes
  <2>4. pub' \in [Publishers -> Publications]
    BY <2>3, PubKeepsTypes
  <2> QED
    BY <1>10, <2>2, <2>4 DEF Put, TypeOK, Publications
<1>11. ASSUME NEW c \in Readers, Subscribe(c) \/ SendStatus(c) \/ Disconnect(c) PROVE TypeOK'
  <2>1. PICK step \in ReaderSteps : Go(c, step)
    BY <1>11 DEF Subscribe, SendStatus, Disconnect, ReaderSteps
  <2>2. rpc' \in [Readers -> ReaderSteps]
    BY <2>1, GoKeepsTypes
  <2>3. subs' \in [Turns -> SUBSET Readers]
    BY <1>11 DEF Subscribe, SendStatus, Disconnect, TypeOK
  <2>4. missed' \subseteq Readers
    BY <1>11 DEF Subscribe, SendStatus, Disconnect, TypeOK
  <2> QED
    BY <1>11, <2>2, <2>3, <2>4 DEF Subscribe, SendStatus, Disconnect, TypeOK, ReaderSteps
<1>12. ASSUME NEW c \in Readers, ReadEvent(c) PROVE TypeOK'
  <2>1. queue[c] \in Seq(Events) /\ queue[c] # <<>> /\ Len(queue[c]) <= QueueSize
    BY <1>12 DEF TypeOK, ReadEvent
  <2>2. /\ Tail(queue[c]) \in Seq(Events) /\ Len(Tail(queue[c])) <= QueueSize
        /\ Head(queue[c]) \in Events
    BY <2>1, Dequeued, StreamAssumption
  <2>3. /\ queue' = [queue EXCEPT ![c] = Tail(queue[c])]
        /\ UNCHANGED <<workers, bus, stopping, rturn, missed>>
    BY <1>12 DEF ReadEvent
  <2>4. queue' \in [Readers -> Seq(Events)] /\ \A d \in Readers : Len(queue'[d]) <= QueueSize
    BY <2>2, <2>3 DEF TypeOK
  <2>5. seen' = seen \/ seen' = [seen EXCEPT ![c] = Head(queue[c])]
    BY <1>12 DEF ReadEvent
  <2>6. rpc' = rpc \/ rpc' = [rpc EXCEPT ![c] = "leave"]
    BY <1>12 DEF ReadEvent, Go
  <2>7. seen' \in [Readers -> Events]
    BY <2>2, <2>5 DEF TypeOK
  <2>8. rpc' \in [Readers -> ReaderSteps]
    BY <2>6 DEF TypeOK, ReaderSteps
  <2> QED
    BY <2>3, <2>4, <2>7, <2>8 DEF TypeOK, ReaderSteps
<1>13. ASSUME NEW c \in Readers, RemoveSubscriber(c) PROVE TypeOK'
  <2>1. queue' \in [Readers -> Seq(Events)] /\ \A d \in Readers : Len(queue'[d]) <= QueueSize
    BY <1>13, StreamAssumption DEF RemoveSubscriber, TypeOK
  <2>2. rpc' \in [Readers -> ReaderSteps]
    <3>1. PICK step \in ReaderSteps : Go(c, step)
      BY <1>13 DEF RemoveSubscriber, ReaderSteps
    <3> QED
      BY <3>1, GoKeepsTypes
  <2>3. subs' \in [Turns -> SUBSET Readers]
    BY <1>13 DEF RemoveSubscriber, TypeOK
  <2> QED
    BY <1>13, <2>1, <2>2, <2>3 DEF RemoveSubscriber, TypeOK, ReaderSteps
<1>14. ASSUME NEW c \in Readers, NEW t \in Turns, ReadRow(c, t) PROVE TypeOK'
  <2>1. Event("done", 0) \in Events /\ Event("error", 0) \in Events
    BY Shapes DEF Names
  <2>2. seen' \in [Readers -> Events]
    BY <1>14, <2>1 DEF ReadRow, TypeOK
  <2>3. PICK step \in ReaderSteps : Go(c, step)
    BY <1>14 DEF ReadRow, ReaderSteps
  <2>4. rpc' \in [Readers -> ReaderSteps]
    BY <2>3, GoKeepsTypes
  <2> QED
    BY <1>14, <2>2, <2>4 DEF ReadRow, TypeOK, ReaderSteps
<1>15. ASSUME NEW o \in OtherTurns, CloseOther(o) PROVE TypeOK'
  BY <1>15, RememberedTurns DEF CloseOther, TypeOK
<1>16. CASE CloseAll
  BY <1>16 DEF CloseAll, TypeOK
<1>17. CASE SignalAll
  <2>1. PICK c \in toSignalAll : SignalClose(c) /\ toSignalAll' = toSignalAll \ {c}
    BY <1>17 DEF SignalAll
  <2>2. /\ queue' \in [Readers -> Seq(Events)] /\ \A d \in Readers : Len(queue'[d]) <= QueueSize
        /\ missed' \subseteq Readers
    BY <2>1, SignalKeepsTypes DEF TypeOK
  <2> QED
    BY <1>17, <2>1, <2>2 DEF SignalAll, TypeOK
<1> QED
  BY <1>1, <1>2, <1>3, <1>4, <1>5, <1>6, <1>7, <1>8, <1>9, <1>10, <1>11, <1>12, <1>13, <1>14,
     <1>15, <1>16, <1>17 DEF Next, WorkerStep, ReaderStep, Publish

-----------------------------------------------------------------------------
(* Who is in which list *)

(* Steps of the worker, the publishers and the bus: lists only shrink, but *)
(* for copies of the subscribers, and only placed readers get anything.    *)
LEMMA ListsShrink ==
    ASSUME TypeOK, PlaceOK, UNCHANGED readers,
           \A t \in Turns : subs'[t] \subseteq subs[t] /\ toSignal'[t] \subseteq toSignal[t] \cup subs[t],
           \A p \in Publishers : pub'[p].to \subseteq pub[p].to \cup subs[p[2]],
           toSignalAll' \subseteq toSignalAll \cup UNION {subs[t] : t \in Turns},
           \A c \in Readers : rpc[c] \in Unplaced => queue'[c] = queue[c]
    PROVE  PlaceOK'
<1> USE DEF readers
<1>1. \A t \in Turns, c \in Readers :
          c \in (subs[t] \cup toSignal[t])' => rturn'[c] = t /\ rpc'[c] \notin Unplaced
  BY DEF PlaceOK
<1>2. \A p \in Publishers : \A c \in pub'[p].to : rturn'[c] = p[2] /\ rpc'[c] \notin Unplaced
  BY WhoPublishes DEF PlaceOK, TypeOK
<1>3. \A c \in toSignalAll' : rpc'[c] \notin Unplaced
  BY DEF PlaceOK, TypeOK
<1> QED
  BY <1>1, <1>2, <1>3 DEF PlaceOK

(* The sentinel goes to a reader of the list that is signalled.            *)
LEMMA SignalsPlaced ==
    ASSUME TypeOK, PlaceOK, NEW c \in Readers, rpc[c] \notin Unplaced, SignalClose(c)
    PROVE  \A d \in Readers : rpc[d] \in Unplaced => queue'[d] = queue[d]
BY DEF SignalClose, TypeOK

(* What publishing does to the recipients. *)
LEMMA RecipientsShrink ==
    ASSUME TypeOK, NEW p \in Publishers,
           \/ pub' = [pub EXCEPT ![p] = Idle]
           \/ \E n \in Names : pub' = [pub EXCEPT ![p] = Emits(n)]
           \/ Number(p) \/ CopySubscribers(p) \/ \E c \in Readers : Put(p, c)
    PROVE  \A q \in Publishers : pub'[q].to \subseteq pub[q].to \cup subs[q[2]]
<1>1. CASE pub' = [pub EXCEPT ![p] = Idle]
  BY <1>1 DEF TypeOK, Idle
<1>2. ASSUME NEW n \in Names, pub' = [pub EXCEPT ![p] = Emits(n)]
      PROVE  \A q \in Publishers : pub'[q].to \subseteq pub[q].to
  BY <1>2 DEF TypeOK, Emits
<1>3. CASE Number(p)
  BY <1>3 DEF TypeOK, Number
<1>4. CASE CopySubscribers(p)
  BY <1>4 DEF TypeOK, CopySubscribers, Idle
<1>5. ASSUME NEW c \in Readers, Put(p, c)
      PROVE  \A q \in Publishers : pub'[q].to \subseteq pub[q].to
  BY <1>5 DEF TypeOK, Put, Idle
<1> QED
  BY <1>1, <1>2, <1>3, <1>4, <1>5

(* Every step keeps every connection in the lists of its turn.             *)
LEMMA NextPlace ==
    ASSUME TypeOK, PlaceOK, [Next]_vars
    PROVE  PlaceOK'
<1> USE DEF bus, workers, readers
<1>1. CASE UNCHANGED vars
  BY <1>1, ListsShrink DEF vars
<1>2. ASSUME NEW t \in Turns, SubmitTurn(t) \/ SetTurnRunning(t) \/ Chunk(t)
                              \/ FinishTurnSuccess(t) \/ FinishTurnFailure(t)
      PROVE  PlaceOK'
  <2>1. PICK n \in Names, p \in Publishers : pub' = [pub EXCEPT ![p] = Emits(n)]
    BY <1>2, WhoPublishes DEF SubmitTurn, SetTurnRunning, Chunk, FinishTurnSuccess,
                              FinishTurnFailure, Announce, Names
  <2>2. UNCHANGED <<bus, queue, readers>>
    BY <1>2 DEF SubmitTurn, SetTurnRunning, Chunk, FinishTurnSuccess, FinishTurnFailure, Announce
  <2> QED
    BY <2>1, <2>2, RecipientsShrink, ListsShrink
<1>3. ASSUME NEW t \in Turns, FinishRaises(t) \/ ClearTurnSeq(t) PROVE PlaceOK'
  BY <1>3, ListsShrink DEF FinishRaises, ClearTurnSeq
<1>4. ASSUME NEW t \in Turns, Close(t) PROVE PlaceOK'
  <2>1. \A u \in Turns : subs'[u] \subseteq subs[u] /\ toSignal'[u] \subseteq toSignal[u] \cup subs[u]
    BY <1>4 DEF Close, TypeOK
  <2> QED
    BY <1>4, <2>1, ListsShrink DEF Close
<1>5. ASSUME NEW t \in Turns, SignalOne(t) PROVE PlaceOK'
  <2>1. PICK c \in toSignal[t] : SignalClose(c) /\ toSignal' = [toSignal EXCEPT ![t] = @ \ {c}]
    BY <1>5 DEF SignalOne
  <2>2. c \in Readers /\ rpc[c] \notin Unplaced
    BY <2>1 DEF TypeOK, PlaceOK
  <2>3. \A d \in Readers : rpc[d] \in Unplaced => queue'[d] = queue[d]
    BY <2>1, <2>2, SignalsPlaced
  <2>4. \A u \in Turns : subs'[u] \subseteq subs[u] /\ toSignal'[u] \subseteq toSignal[u] \cup subs[u]
    BY <1>5, <2>1 DEF SignalOne, TypeOK
  <2> QED
    BY <1>5, <2>3, <2>4, ListsShrink DEF SignalOne
<1>6. ASSUME NEW p \in Publishers, Number(p) \/ CopySubscribers(p) PROVE PlaceOK'
  <2>1. UNCHANGED <<bus, queue, readers>>
    BY <1>6 DEF Number, CopySubscribers
  <2> QED
    BY <1>6, <2>1, RecipientsShrink, ListsShrink
<1>7. ASSUME NEW p \in Publishers, NEW c \in Readers, Put(p, c) PROVE PlaceOK'
  <2>1. rpc[c] \notin Unplaced
    BY <1>7 DEF Put, PlaceOK
  <2>2. \A d \in Readers : rpc[d] \in Unplaced => queue'[d] = queue[d]
    BY <1>7, <2>1 DEF Put, TypeOK
  <2>3. UNCHANGED <<bus, readers>>
    BY <1>7 DEF Put
  <2>4. \A q \in Publishers : pub'[q].to \subseteq pub[q].to \cup subs[q[2]]
    BY <1>7, RecipientsShrink
  <2> QED
    BY <2>2, <2>3, <2>4, ListsShrink
<1>8. ASSUME NEW o \in OtherTurns, CloseOther(o) PROVE PlaceOK'
  BY <1>8, ListsShrink DEF CloseOther
<1>9. CASE CloseAll
  <2>1. \A u \in Turns : subs'[u] \subseteq subs[u] /\ toSignal'[u] \subseteq toSignal[u] \cup subs[u]
    BY <1>9 DEF CloseAll, TypeOK
  <2> QED
    BY <1>9, <2>1, ListsShrink DEF CloseAll
<1>10. CASE SignalAll
  <2>1. PICK c \in toSignalAll : SignalClose(c) /\ toSignalAll' = toSignalAll \ {c}
    BY <1>10 DEF SignalAll
  <2>2. c \in Readers /\ rpc[c] \notin Unplaced
    BY <2>1 DEF TypeOK, PlaceOK
  <2>3. \A d \in Readers : rpc[d] \in Unplaced => queue'[d] = queue[d]
    BY <2>1, <2>2, SignalsPlaced
  <2> QED
    BY <1>10, <2>1, <2>3, ListsShrink DEF SignalAll
<1>11. ASSUME NEW c \in Readers, ReaderStep(c) \/ Disconnect(c) PROVE PlaceOK'
  <2>1. CASE Subscribe(c)
    <3>1. rpc[c] = "subscribe" /\ UNCHANGED <<pub, toSignal, toSignalAll, queue, rturn, seen>>
      BY <2>1 DEF Subscribe
    <3>2. /\ \A u \in Turns : c \notin subs[u] \cup toSignal[u]
          /\ \A p \in Publishers : c \notin pub[p].to
          /\ c \notin toSignalAll /\ rturn[c] \in Turns
      BY <3>1 DEF PlaceOK, Unplaced
    <3>3. CASE Refused(rturn[c])
      <4>1. rpc' = [rpc EXCEPT ![c] = "refused"] /\ subs' = subs
        BY <2>1, <3>3 DEF Subscribe, Go
      <4> QED
        BY <3>1, <3>2, <4>1 DEF PlaceOK, TypeOK, Unplaced
    <3>4. CASE ~Refused(rturn[c])
      <4>1. rpc' = [rpc EXCEPT ![c] = "status"] /\ subs' = [subs EXCEPT ![rturn[c]] = @ \cup {c}]
        BY <2>1, <3>4 DEF Subscribe, Go
      <4>2. \A u \in Turns, d \in Readers : d \in subs'[u] => d \in subs[u] \/ (d = c /\ u = rturn[c])
        <5>1. subs \in [Turns -> SUBSET Readers]
          BY DEF TypeOK
        <5> QED
          BY <3>2, <4>1, <5>1
      <4> QED
        BY <3>1, <3>2, <4>1, <4>2 DEF PlaceOK, TypeOK, Unplaced
    <3> QED
      BY <3>3, <3>4
  <2>2. CASE SendStatus(c) \/ Disconnect(c)
    <3>1. rpc[c] \notin Unplaced /\ \A d \in Readers : rpc'[d] \in Unplaced <=> rpc[d] \in Unplaced
      BY <2>2 DEF SendStatus, Disconnect, Go, TypeOK, Unplaced
    <3>2. \A d \in Readers : rpc'[d] # "new" => rpc[d] # "new"
      BY <2>2 DEF SendStatus, Disconnect, Go, TypeOK
    <3>3. UNCHANGED <<pub, bus, queue, rturn, seen>>
      BY <2>2 DEF SendStatus, Disconnect
    <3> QED
      BY <3>1, <3>2, <3>3 DEF PlaceOK, TypeOK
  <2>3. CASE ReadEvent(c)
    <3>1. /\ rpc[c] = "read" /\ (rpc' = rpc \/ rpc' = [rpc EXCEPT ![c] = "leave"])
          /\ \A d \in Readers : d # c => queue'[d] = queue[d] /\ seen'[d] = seen[d]
      BY <2>3 DEF ReadEvent, Go, TypeOK
    <3>2. UNCHANGED <<pub, bus, rturn>>
      BY <2>3 DEF ReadEvent
    <3>3. /\ \A d \in Readers : rpc'[d] \in Unplaced <=> rpc[d] \in Unplaced
          /\ \A d \in Readers : rpc'[d] # "new" => rpc[d] # "new"
          /\ rpc[c] \notin Unplaced
      BY <3>1 DEF TypeOK, Unplaced
    <3> QED
      BY <3>1, <3>2, <3>3 DEF PlaceOK, TypeOK
  <2>4. CASE RemoveSubscriber(c)
    <3>1. /\ rpc[c] \in {"leave", "drop"} /\ (rpc' = [rpc EXCEPT ![c] = "gone"]
                                              \/ rpc' = [rpc EXCEPT ![c] = "ended"])
          /\ \A d \in Readers : d # c => queue'[d] = queue[d]
          /\ \A t \in Turns : subs'[t] \subseteq subs[t]
      BY <2>4 DEF RemoveSubscriber, Go, TypeOK
    <3>2. UNCHANGED <<pub, toSignal, toSignalAll, rturn, seen>>
      BY <2>4 DEF RemoveSubscriber
    <3>3. /\ \A d \in Readers : rpc'[d] \in Unplaced <=> rpc[d] \in Unplaced
          /\ \A d \in Readers : rpc'[d] # "new" => rpc[d] # "new"
          /\ rpc[c] \notin Unplaced
      BY <3>1 DEF TypeOK, Unplaced
    <3> QED
      BY <3>1, <3>2, <3>3 DEF PlaceOK, TypeOK
  <2> QED
    BY <1>11, <2>1, <2>2, <2>3, <2>4 DEF ReaderStep
<1>12. ASSUME NEW c \in Readers, NEW t \in Turns, ReadRow(c, t) PROVE PlaceOK'
  <2>1. /\ rpc[c] = "new" /\ rturn' = [rturn EXCEPT ![c] = t]
        /\ \/ rpc' = [rpc EXCEPT ![c] = "ended"]
           \/ rpc' = [rpc EXCEPT ![c] = "subscribe"] /\ UNCHANGED seen
        /\ \A d \in Readers : d # c => seen'[d] = seen[d]
        /\ UNCHANGED <<pub, bus, queue>>
    BY <1>12 DEF ReadRow, Go, TypeOK
  <2>2. /\ \A u \in Turns : c \notin subs[u] \cup toSignal[u]
        /\ \A p \in Publishers : c \notin pub[p].to
        /\ c \notin toSignalAll
    BY <2>1 DEF PlaceOK, Unplaced
  <2> QED
    BY <2>1, <2>2 DEF PlaceOK, TypeOK, Unplaced
<1> QED
  BY <1>1, <1>2, <1>3, <1>4, <1>5, <1>6, <1>7, <1>8, <1>9, <1>10, <1>11, <1>12
     DEF Next, WorkerStep, Publish

-----------------------------------------------------------------------------
(* The worker and its announcements *)

(* The values of a publisher that is idle, and of one that begins.         *)
LEMMA PublisherValues ==
    /\ Idle.step = "idle" /\ Idle.event = NoEvent /\ Idle.to = {}
    /\ NoEvent.event = "none" /\ NoEvent.seq = 0
    /\ \A n : /\ Emits(n) # Idle /\ Emits(n).step = "seq" /\ Emits(n).to = {}
              /\ Emits(n).event.event = n /\ Emits(n).event.seq = 0
BY DEF Idle, Emits, Event, NoEvent

(* What is so when one publisher gets another value. *)
LEMMA OnePublishes ==
    ASSUME TypeOK, NEW p \in Publishers, NEW e, pub' = [pub EXCEPT ![p] = e]
    PROVE  pub'[p] = e /\ \A q \in Publishers : q # p => pub'[q] = pub[q]
BY DEF TypeOK

(* The values of a publisher after each step of _emit_event. *)
LEMMA PublishSteps ==
    ASSUME TypeOK, NEW p \in Publishers
    PROVE  /\ Number(p) => /\ pub[p].step = "seq" /\ pub'[p].step = "copy" /\ pub'[p].to = pub[p].to
                           /\ pub'[p].event.event = pub[p].event.event
                           /\ pub'[p].event.seq = NextSeq(p[2])
                           /\ \A q \in Publishers : q # p => pub'[q] = pub[q]
           /\ CopySubscribers(p) =>
                  /\ pub[p].step = "copy"
                  /\ IF subs[p[2]] = {} THEN pub'[p] = Idle
                     ELSE /\ pub'[p].step = "put" /\ pub'[p].to = subs[p[2]]
                          /\ pub'[p].event = pub[p].event
                  /\ \A q \in Publishers : q # p => pub'[q] = pub[q]
           /\ \A c \in Readers : Put(p, c) =>
                  /\ pub[p].step = "put" /\ c \in pub[p].to
                  /\ IF pub[p].to = {c} THEN pub'[p] = Idle
                     ELSE /\ pub'[p].step = "put" /\ pub'[p].to = pub[p].to \ {c}
                          /\ pub'[p].event = pub[p].event
                  /\ \A q \in Publishers : q # p => pub'[q] = pub[q]
<1>1. pub \in [Publishers -> Publications]
  BY DEF TypeOK, Publications
<1>2. ASSUME Number(p)
      PROVE  /\ pub[p].step = "seq" /\ pub'[p].step = "copy" /\ pub'[p].to = pub[p].to
             /\ pub'[p].event.event = pub[p].event.event
             /\ pub'[p].event.seq = NextSeq(p[2])
             /\ \A q \in Publishers : q # p => pub'[q] = pub[q]
  <2>1. pub' = [pub EXCEPT ![p].step = "copy", ![p].event.seq = NextSeq(p[2])] /\ pub[p].step = "seq"
    BY <1>2 DEF Number
  <2> QED
    BY <1>1, <2>1 DEF Publications, Events
<1>3. ASSUME CopySubscribers(p)
      PROVE  /\ pub[p].step = "copy"
             /\ IF subs[p[2]] = {} THEN pub'[p] = Idle
                ELSE /\ pub'[p].step = "put" /\ pub'[p].to = subs[p[2]]
                     /\ pub'[p].event = pub[p].event
             /\ \A q \in Publishers : q # p => pub'[q] = pub[q]
  BY <1>1, <1>3 DEF CopySubscribers, Publications
<1>4. ASSUME NEW c \in Readers, Put(p, c)
      PROVE  /\ pub[p].step = "put" /\ c \in pub[p].to
             /\ IF pub[p].to = {c} THEN pub'[p] = Idle
                ELSE /\ pub'[p].step = "put" /\ pub'[p].to = pub[p].to \ {c}
                     /\ pub'[p].event = pub[p].event
             /\ \A q \in Publishers : q # p => pub'[q] = pub[q]
  <2>1. /\ pub[p].step = "put" /\ c \in pub[p].to
        /\ pub' = [pub EXCEPT ![p] = IF pub[p].to = {c} THEN Idle
                                     ELSE [pub[p] EXCEPT !.to = pub[p].to \ {c}]]
    BY <1>4 DEF Put
  <2> QED
    BY <1>1, <2>1 DEF Publications
<1> QED
  BY <1>2, <1>3, <1>4

(* A worker's announcement. *)
LEMMA AnnounceWorker ==
    ASSUME TypeOK, WorkerOK, NEW t \in Turns, NEW row, NEW name \in Worked,
           NEW pc \in {"agent", "close"}, pc = "agent" => row \notin Final,
           Ready(t, "start") \/ Ready(t, "agent"), Announce(t, row, name, pc)
    PROVE  WorkerOK'
<1> USE DEF bus, workers, readers
<1>1. /\ status' = [status EXCEPT ![t] = row] /\ wpc' = [wpc EXCEPT ![t] = pc]
      /\ UNCHANGED <<toSignal, toSignalAll, stopping>>
  BY DEF Announce
<1>2. pub'[Worker(t)] = Emits(name) /\ \A q \in Publishers : q # Worker(t) => pub'[q] = pub[q]
  BY OnePublishes, WhoPublishes DEF Announce
<1>3. toSignal[t] = {}
  BY DEF WorkerOK, Ready
<1>4. \A u \in Turns : u # t => pub'[Worker(u)] = pub[Worker(u)]
  BY <1>2, WhoPublishes
<1>5. \A u \in Turns : pub'[Submitter(u)] = pub[Submitter(u)]
  BY <1>2, WhoPublishes
<1>6. ASSUME NEW u \in Turns
      PROVE  /\ wpc'[u] \in {"none", "start", "agent"} => status'[u] \notin Final
             /\ pub'[Worker(u)] # Idle => wpc'[u] \in {"agent", "close"}
             /\ toSignal'[u] # {} => wpc'[u] = "signal"
  <2>1. CASE u = t
    <3>1. status'[t] = row /\ wpc'[t] = pc /\ toSignal'[t] = {}
      BY <1>1, <1>3 DEF TypeOK
    <3> QED
      BY <2>1, <3>1
  <2>2. CASE u # t
    <3>1. status'[u] = status[u] /\ wpc'[u] = wpc[u] /\ toSignal'[u] = toSignal[u]
      BY <1>1, <2>2 DEF TypeOK
    <3> QED
      BY <1>4, <2>2, <3>1 DEF WorkerOK
  <2> QED
    BY <2>1, <2>2
<1>7. \A u \in Turns : pub'[Worker(u)] # Idle => pub'[Worker(u)].event.event \in Worked
  BY <1>2, <1>4, PublisherValues DEF WorkerOK
<1>8. \A p \in Publishers : /\ pub'[p].step = "idle" => pub'[p] = Idle
                            /\ pub'[p].step # "put" => pub'[p].to = {}
  BY <1>2, PublisherValues DEF WorkerOK
<1> QED
  BY <1>1, <1>5, <1>6, <1>7, <1>8 DEF WorkerOK

(* Every step keeps what is said of the worker. *)
LEMMA NextWorker ==
    ASSUME TypeOK, WorkerOK, [Next]_vars
    PROVE  WorkerOK'
<1> USE DEF bus, workers, readers
<1>1. ASSUME UNCHANGED workers, \A u \in Turns : toSignal'[u] \subseteq toSignal[u],
             toSignalAll' # {} => stopping'
      PROVE  WorkerOK'
  BY <1>1 DEF WorkerOK
<1>2. CASE UNCHANGED vars
  BY <1>1, <1>2 DEF vars, WorkerOK
<1>3. ASSUME NEW t \in Turns, SubmitTurn(t) PROVE WorkerOK'
  <2>1. /\ wpc[t] = "none"
        /\ status' = [status EXCEPT ![t] = "queued"] /\ wpc' = [wpc EXCEPT ![t] = "start"]
        /\ UNCHANGED <<toSignal, toSignalAll, stopping>>
    BY <1>3 DEF SubmitTurn
  <2>2. /\ pub'[Submitter(t)] = Emits("queued")
        /\ \A q \in Publishers : q # Submitter(t) => pub'[q] = pub[q]
    <3>1. pub' = [pub EXCEPT ![Submitter(t)] = Emits("queued")]
      BY <1>3 DEF SubmitTurn
    <3>2. Submitter(t) \in Publishers
      BY WhoPublishes
    <3> QED
      BY <3>1, <3>2, OnePublishes
  <2>3. \A u \in Turns : pub'[Worker(u)] = pub[Worker(u)]
    BY <2>2, WhoPublishes
  <2>4. toSignal[t] = {} /\ pub[Worker(t)] = Idle
    BY <2>1 DEF WorkerOK
  <2>5. ASSUME NEW u \in Turns
        PROVE  /\ wpc'[u] \in {"none", "start", "agent"} => status'[u] \notin Final
               /\ pub'[Worker(u)] # Idle => wpc'[u] \in {"agent", "close"}
               /\ toSignal'[u] # {} => wpc'[u] = "signal"
    <3>1. CASE u = t
      <4>1. status'[t] = "queued" /\ wpc'[t] = "start" /\ toSignal'[t] = {}
        BY <2>1, <2>4 DEF TypeOK
      <4> QED
        BY <2>3, <2>4, <3>1, <4>1 DEF Final
    <3>2. CASE u # t
      <4>1. status'[u] = status[u] /\ wpc'[u] = wpc[u] /\ toSignal'[u] = toSignal[u]
        BY <2>1, <3>2 DEF TypeOK
      <4> QED
        BY <2>3, <4>1 DEF WorkerOK
    <3> QED
      BY <3>1, <3>2
  <2>6. \A u \in Turns : pub'[Submitter(u)] # Idle => pub'[Submitter(u)].event.event = "queued"
    BY <2>2, PublisherValues, WhoPublishes DEF WorkerOK
  <2>7. \A p \in Publishers : /\ pub'[p].step = "idle" => pub'[p] = Idle
                              /\ pub'[p].step # "put" => pub'[p].to = {}
    BY <2>2, PublisherValues DEF WorkerOK
  <2> QED
    BY <2>1, <2>3, <2>5, <2>6, <2>7 DEF WorkerOK
<1>4. ASSUME NEW t \in Turns, SetTurnRunning(t) \/ Chunk(t) \/ FinishTurnSuccess(t)
                              \/ FinishTurnFailure(t)
      PROVE  WorkerOK'
  <2>1. CASE SetTurnRunning(t)
    BY <2>1, AnnounceWorker DEF SetTurnRunning, Worked, Final
  <2>2. CASE Chunk(t)
    <3>1. status[t] \notin Final
      BY <2>2 DEF Chunk, Ready, WorkerOK
    <3> QED
      BY <2>2, <3>1, AnnounceWorker DEF Chunk, Worked
  <2>3. CASE FinishTurnSuccess(t)
    BY <2>3, AnnounceWorker DEF FinishTurnSuccess, Worked
  <2>4. CASE FinishTurnFailure(t)
    BY <2>4, AnnounceWorker DEF FinishTurnFailure, Worked
  <2> QED
    BY <1>4, <2>1, <2>2, <2>3, <2>4
<1>5. ASSUME NEW t \in Turns, FinishRaises(t) \/ ClearTurnSeq(t) PROVE WorkerOK'
  <2>1. /\ pub[Worker(t)] = Idle \/ ClearTurnSeq(t)
        /\ wpc[t] \in {"start", "agent", "signal"} /\ toSignal[t] = {}
        /\ wpc' = [wpc EXCEPT ![t] = "close"] \/ wpc' = [wpc EXCEPT ![t] = "done"]
    BY <1>5 DEF FinishRaises, ClearTurnSeq, Ready, WorkerOK
  <2>2. pub[Worker(t)] = Idle
    BY <1>5, <2>1 DEF ClearTurnSeq, WorkerOK
  <2>3. UNCHANGED <<status, pub, toSignal, toSignalAll, stopping>>
    BY <1>5 DEF FinishRaises, ClearTurnSeq
  <2> QED
    BY <2>1, <2>2, <2>3 DEF WorkerOK, TypeOK
<1>6. ASSUME NEW t \in Turns, Close(t) PROVE WorkerOK'
  <2>1. /\ pub[Worker(t)] = Idle /\ wpc' = [wpc EXCEPT ![t] = "signal"]
        /\ toSignal' = [toSignal EXCEPT ![t] = subs[t]]
        /\ UNCHANGED <<status, pub, toSignalAll, stopping>>
    BY <1>6 DEF Close, Ready
  <2> QED
    BY <2>1 DEF WorkerOK, TypeOK
<1>7. ASSUME NEW t \in Turns, SignalOne(t) PROVE WorkerOK'
  <2>1. PICK c \in toSignal[t] : toSignal' = [toSignal EXCEPT ![t] = @ \ {c}]
    BY <1>7 DEF SignalOne
  <2>2. \A u \in Turns : toSignal'[u] \subseteq toSignal[u]
    BY <2>1 DEF TypeOK
  <2> QED
    BY <1>1, <1>7, <2>2 DEF SignalOne, WorkerOK
<1>8. ASSUME NEW p \in Publishers, Publish(p) PROVE WorkerOK'
  <2>1. /\ \A q \in Publishers : q # p => pub'[q] = pub[q]
        /\ pub'[p].step = "idle" => pub'[p] = Idle
        /\ pub'[p].step # "put" => pub'[p].to = {}
        /\ pub[p] # Idle
        /\ pub'[p] = Idle \/ pub'[p].event.event = pub[p].event.event
    BY <1>8, PublishSteps, PublisherValues DEF Publish, WorkerOK
  <2>2. UNCHANGED <<status, wpc, toSignal, toSignalAll, stopping>>
    BY <1>8 DEF Publish, Number, CopySubscribers, Put
  <2>3. \A t \in Turns : /\ pub'[Worker(t)] # Idle => pub[Worker(t)] # Idle
                         /\ pub'[Worker(t)] # Idle => pub'[Worker(t)].event.event \in Worked
                         /\ pub'[Submitter(t)] # Idle => pub'[Submitter(t)].event.event = "queued"
    BY <2>1, WhoPublishes DEF WorkerOK
  <2> QED
    BY <2>1, <2>2, <2>3 DEF WorkerOK
<1>9. ASSUME NEW c \in Readers, ReaderStep(c) \/ Disconnect(c) \/ \E t \in Turns : ReadRow(c, t)
      PROVE  WorkerOK'
  BY <1>1, <1>9 DEF ReaderStep, Subscribe, SendStatus, ReadEvent, RemoveSubscriber, Disconnect,
                    ReadRow, WorkerOK
<1>10. ASSUME NEW o \in OtherTurns, CloseOther(o) PROVE WorkerOK'
  BY <1>1, <1>10 DEF CloseOther, WorkerOK
<1>11. CASE CloseAll \/ SignalAll
  BY <1>1, <1>11 DEF CloseAll, SignalAll, WorkerOK
<1> QED
  BY <1>2, <1>3, <1>4, <1>5, <1>6, <1>7, <1>8, <1>9, <1>10, <1>11 DEF Next, WorkerStep

-----------------------------------------------------------------------------
(* What a step does to one queue *)

(* What is final, closed, stopping or missed stays so. *)
LEMMA NextMonotone ==
    ASSUME TypeOK, WorkerOK, [Next]_vars
    PROVE  /\ \A t \in Turns : status[t] \in Final => status'[t] = status[t]
           /\ \A t \in Turns : wpc[t] \in {"signal", "done"} =>
                  wpc'[t] \in {"signal", "done"} /\ status'[t] = status[t]
           /\ stopping => stopping'
           /\ missed \subseteq missed'
<1> USE DEF bus, workers, readers
<1>1. ASSUME NEW t \in Turns, wpc[t] \in {"none", "start", "agent"},
             NEW row, NEW pc, status' = [status EXCEPT ![t] = row], wpc' = [wpc EXCEPT ![t] = pc]
      PROVE  /\ \A u \in Turns : status[u] \in Final => status'[u] = status[u]
             /\ \A u \in Turns : wpc[u] \in {"signal", "done"} =>
                    wpc'[u] \in {"signal", "done"} /\ status'[u] = status[u]
  BY <1>1 DEF WorkerOK, TypeOK
<1>2. ASSUME NEW t \in Turns, SubmitTurn(t) \/ SetTurnRunning(t) \/ Chunk(t)
                              \/ FinishTurnSuccess(t) \/ FinishTurnFailure(t)
      PROVE  /\ \A u \in Turns : status[u] \in Final => status'[u] = status[u]
             /\ \A u \in Turns : wpc[u] \in {"signal", "done"} =>
                    wpc'[u] \in {"signal", "done"} /\ status'[u] = status[u]
             /\ stopping' = stopping /\ missed' = missed
  <2>1. wpc[t] \in {"none", "start", "agent"} /\ stopping' = stopping /\ missed' = missed
    BY <1>2 DEF SubmitTurn, SetTurnRunning, Chunk, FinishTurnSuccess, FinishTurnFailure, Announce,
                Ready
  <2>2. \E row, pc : status' = [status EXCEPT ![t] = row] /\ wpc' = [wpc EXCEPT ![t] = pc]
    BY <1>2 DEF SubmitTurn, SetTurnRunning, Chunk, FinishTurnSuccess, FinishTurnFailure, Announce
  <2> QED
    BY <1>1, <2>1, <2>2
<1>3. ASSUME NEW t \in Turns, FinishRaises(t) \/ Close(t) \/ ClearTurnSeq(t)
      PROVE  /\ status' = status /\ stopping' = stopping /\ missed' = missed
             /\ \A u \in Turns : wpc[u] \in {"signal", "done"} => wpc'[u] \in {"signal", "done"}
  BY <1>3 DEF FinishRaises, Close, ClearTurnSeq, Ready, TypeOK
<1>4. ASSUME NEW t \in Turns, SignalOne(t)
      PROVE  UNCHANGED <<workers, stopping>> /\ missed \subseteq missed'
  BY <1>4 DEF SignalOne, SignalClose
<1>5. ASSUME NEW p \in Publishers, Publish(p)
      PROVE  UNCHANGED <<status, wpc, stopping>> /\ missed \subseteq missed'
  BY <1>5 DEF Publish, Number, CopySubscribers, Put
<1>6. ASSUME NEW c \in Readers, ReaderStep(c) \/ Disconnect(c) \/ \E t \in Turns : ReadRow(c, t)
      PROVE  UNCHANGED <<workers, stopping>> /\ missed \subseteq missed'
  BY <1>6 DEF ReaderStep, Subscribe, SendStatus, ReadEvent, RemoveSubscriber, Disconnect, ReadRow
<1>7. ASSUME (\E o \in OtherTurns : CloseOther(o)) \/ CloseAll \/ SignalAll \/ UNCHANGED vars
      PROVE  UNCHANGED workers /\ (stopping => stopping') /\ missed \subseteq missed'
  BY <1>7 DEF CloseOther, CloseAll, SignalAll, SignalClose, vars
<1> QED
  BY <1>2, <1>3, <1>4, <1>5, <1>6, <1>7 DEF Next, WorkerStep

(* A sentinel, put at the end of d's queue by a close or by the shutdown.  *)
Signals(d) ==
    /\ \E lost \in {0, 1} : Closing(queue[d], queue'[d], lost) /\ (lost = 1 => d \in missed')
    /\ stopping \/ (rturn[d] \in Turns /\ wpc[rturn[d]] = "signal")
    /\ rpc[d] \notin Unplaced /\ UNCHANGED <<workers, readers, stopping>>

(* A signalled reader other than d leaves d alone. *)
LEMMA SignalOther ==
    ASSUME TypeOK, NEW c \in Readers, SignalClose(c), NEW d \in Readers
    PROVE  \/ queue'[d] = queue[d] /\ (d # c \/ Over(d))
           \/ /\ d = c /\ ~Over(d)
              /\ \E lost \in {0, 1} : Closing(queue[d], queue'[d], lost) /\ (lost = 1 => d \in missed')
<1>1. queue[c] \in Seq(Events) /\ Len(queue[c]) <= QueueSize
  BY DEF TypeOK
<1>2. PICK lost \in {0, 1} : Closing(queue[c], Signalled(queue[c]), lost)
  BY <1>1, SignalledQueue
<1>3. CASE Over(c)
  BY <1>3 DEF SignalClose
<1>4. CASE ~Over(c)
  <2>1. /\ queue' = [queue EXCEPT ![c] = Signalled(queue[c])]
        /\ missed' = IF Len(queue[c]) < QueueSize THEN missed ELSE missed \cup {c}
    BY <1>4 DEF SignalClose
  <2>2. queue'[c] = Signalled(queue[c]) /\ (d # c => queue'[d] = queue[d])
    BY <2>1 DEF TypeOK
  <2>3. lost = 1 => c \in missed'
    BY <1>2, <2>1 DEF Closing
  <2> QED
    BY <1>2, <1>4, <2>2, <2>3
<1> QED
  BY <1>3, <1>4

(* A queue is left alone, or gets one item at its end, or loses its first. *)
LEMMA QueueSteps ==
    ASSUME TypeOK, PlaceOK, WorkerOK, [Next]_vars, NEW d \in Readers
    PROVE  \/ queue'[d] = queue[d]
           \/ /\ \E p \in Publishers : Put(p, d) /\ queue'[d] = Append(queue[d], pub[p].event)
              /\ UNCHANGED <<status, wpc, eventSeq, bus, stopping, readers, missed>>
           \/ Signals(d)
           \/ ReadEvent(d) /\ queue[d] # <<>> /\ queue'[d] = Tail(queue[d])
           \/ RemoveSubscriber(d) /\ queue'[d] = <<>>
<1>1. CASE UNCHANGED vars
  BY <1>1 DEF vars
<1>2. ASSUME NEW t \in Turns, SignalOne(t)
      PROVE  queue'[d] = queue[d] \/ Signals(d)
  <2>1. PICK c \in toSignal[t] : SignalClose(c)
    BY <1>2 DEF SignalOne
  <2>2. c \in Readers /\ rturn[c] = t /\ rpc[c] \notin Unplaced
    BY <2>1 DEF TypeOK, PlaceOK
  <2>3. UNCHANGED <<workers, readers, stopping>> /\ wpc[t] = "signal"
    BY <1>2 DEF SignalOne
  <2> QED
    BY <2>1, <2>2, <2>3, SignalOther DEF Signals
<1>3. CASE SignalAll
  <2>1. PICK c \in toSignalAll : SignalClose(c)
    BY <1>3 DEF SignalAll
  <2>2. c \in Readers /\ stopping /\ rpc[c] \notin Unplaced
    BY <2>1 DEF TypeOK, WorkerOK, PlaceOK
  <2>3. UNCHANGED <<workers, readers, stopping>>
    BY <1>3 DEF SignalAll
  <2> QED
    BY <2>1, <2>2, <2>3, SignalOther DEF Signals
<1>4. ASSUME NEW p \in Publishers, NEW c \in Readers, Put(p, c)
      PROVE  \/ queue'[d] = queue[d]
             \/ /\ Put(p, d) /\ queue'[d] = Append(queue[d], pub[p].event)
                /\ UNCHANGED <<status, wpc, eventSeq, bus, stopping, readers, missed>>
  <2>1. CASE queue' = queue
    BY <2>1
  <2>2. CASE queue' # queue
    <3>1. /\ queue' = [queue EXCEPT ![c] = Append(queue[c], pub[p].event)]
          /\ UNCHANGED <<status, wpc, eventSeq, bus, stopping, readers, missed>>
      BY <1>4, <2>2 DEF Put
    <3> QED
      BY <1>4, <3>1 DEF TypeOK
  <2> QED
    BY <2>1, <2>2
<1>5. ASSUME NEW c \in Readers, ReadEvent(c)
      PROVE  \/ queue'[d] = queue[d]
             \/ ReadEvent(d) /\ queue[d] # <<>> /\ queue'[d] = Tail(queue[d])
  <2>1. queue[c] # <<>> /\ queue' = [queue EXCEPT ![c] = Tail(queue[c])]
    BY <1>5 DEF ReadEvent
  <2> QED
    BY <1>5, <2>1 DEF TypeOK
<1>6. ASSUME NEW c \in Readers, RemoveSubscriber(c)
      PROVE  queue'[d] = queue[d] \/ (RemoveSubscriber(d) /\ queue'[d] = <<>>)
  <2>1. queue' = [queue EXCEPT ![c] = <<>>]
    BY <1>6 DEF RemoveSubscriber
  <2> QED
    BY <1>6, <2>1 DEF TypeOK
<1>7. ASSUME \/ CloseAll
             \/ \E o \in OtherTurns : CloseOther(o)
             \/ \E p \in Publishers : Number(p) \/ CopySubscribers(p)
             \/ \E c \in Readers : \/ Subscribe(c) \/ SendStatus(c) \/ Disconnect(c)
                                   \/ \E t \in Turns : ReadRow(c, t)
             \/ \E t \in Turns : \/ SubmitTurn(t) \/ SetTurnRunning(t) \/ Chunk(t)
                                 \/ FinishTurnSuccess(t) \/ FinishTurnFailure(t)
                                 \/ FinishRaises(t) \/ Close(t) \/ ClearTurnSeq(t)
      PROVE  queue' = queue
  BY <1>7 DEF CloseAll, CloseOther, Number, CopySubscribers, Subscribe, SendStatus, Disconnect,
     ReadRow, SubmitTurn, SetTurnRunning, Chunk, FinishTurnSuccess, FinishTurnFailure,
     FinishRaises, Close, ClearTurnSeq, Announce
<1> QED
  BY <1>1, <1>2, <1>3, <1>4, <1>5, <1>6, <1>7 DEF Next, WorkerStep, ReaderStep, Publish

(* What is in a queue was there before, or a publisher or a close put it.  *)
LEMMA QueueElements ==
    ASSUME TypeOK, PlaceOK, WorkerOK, [Next]_vars, NEW d \in Readers, NEW i \in 1..Len(queue'[d])
    PROVE  \/ \E j \in 1..Len(queue[d]) : queue'[d][i] = queue[d][j]
           \/ \E p \in Publishers : /\ pub[p].step = "put" /\ rturn[d] = p[2]
                                    /\ queue'[d][i] = pub[p].event
           \/ /\ queue'[d][i] = Sentinel
              /\ stopping \/ (rturn[d] \in Turns /\ wpc[rturn[d]] = "signal")
<1>1. queue[d] \in Seq(Events)
  BY DEF TypeOK
<1>2. CASE queue'[d] = queue[d]
  BY <1>2
<1>3. ASSUME NEW p \in Publishers, Put(p, d), queue'[d] = Append(queue[d], pub[p].event)
      PROVE  \/ \E j \in 1..Len(queue[d]) : queue'[d][i] = queue[d][j]
             \/ pub[p].step = "put" /\ rturn[d] = p[2] /\ queue'[d][i] = pub[p].event
  <2>1. pub[p].event \in Events /\ pub[p].step = "put" /\ rturn[d] = p[2]
    BY <1>3 DEF TypeOK, Put, PlaceOK
  <2> QED
    BY <1>1, <1>3, <2>1, Enqueued
<1>4. CASE Signals(d)
  <2>1. PICK lost \in {0, 1} : Closing(queue[d], queue'[d], lost)
    BY <1>4 DEF Signals
  <2>2. i \in 1..(Len(queue[d]) - lost) \/ i = Len(queue'[d])
    BY <1>1, <2>1 DEF Closing
  <2>3. CASE i \in 1..(Len(queue[d]) - lost)
    <3>1. i + lost \in 1..Len(queue[d]) /\ queue'[d][i] = queue[d][i + lost]
      BY <1>1, <2>1, <2>3 DEF Closing
    <3> QED
      BY <3>1
  <2> QED
    BY <1>4, <2>1, <2>2, <2>3 DEF Closing, Signals
<1>5. CASE queue[d] # <<>> /\ queue'[d] = Tail(queue[d])
  <2>1. i + 1 \in 1..Len(queue[d]) /\ queue'[d][i] = queue[d][i + 1]
    BY <1>1, <1>5, Dequeued
  <2> QED
    BY <2>1
<1>6. CASE queue'[d] = <<>>
  BY <1>6
<1> QED
  BY <1>2, <1>3, <1>4, <1>5, <1>6, QueueSteps

(* What the client of d was sent last, and the turn it asked for.          *)
LEMMA SeenSteps ==
    ASSUME TypeOK, [Next]_vars, NEW d \in Readers
    PROVE  \/ seen'[d] = seen[d] /\ rturn'[d] = rturn[d]
           \/ /\ ReadEvent(d) /\ rturn'[d] = rturn[d] /\ queue[d] # <<>>
              /\ seen'[d] = Head(queue[d]) /\ Head(queue[d]).event \notin {"sentinel", "queued"}
           \/ \E t \in Turns : ReadRow(d, t)
<1> USE DEF bus, workers, readers
<1>1. ASSUME NEW c \in Readers, ReadEvent(c)
      PROVE  \/ seen'[d] = seen[d] /\ rturn'[d] = rturn[d]
             \/ /\ ReadEvent(d) /\ rturn'[d] = rturn[d] /\ queue[d] # <<>>
                /\ seen'[d] = Head(queue[d]) /\ Head(queue[d]).event \notin {"sentinel", "queued"}
  <2>1. /\ rturn' = rturn /\ queue[c] # <<>>
        /\ \/ seen' = seen
           \/ /\ seen' = [seen EXCEPT ![c] = Head(queue[c])]
              /\ Head(queue[c]).event \notin {"sentinel", "queued"}
    BY <1>1 DEF ReadEvent
  <2> QED
    BY <1>1, <2>1 DEF TypeOK
<1>2. ASSUME NEW c \in Readers, NEW t \in Turns, ReadRow(c, t)
      PROVE  (seen'[d] = seen[d] /\ rturn'[d] = rturn[d]) \/ ReadRow(d, t)
  BY <1>2 DEF ReadRow, TypeOK
<1>3. ASSUME \/ UNCHANGED vars \/ CloseAll \/ SignalAll
             \/ \E o \in OtherTurns : CloseOther(o)
             \/ \E p \in Publishers : Publish(p)
             \/ \E c \in Readers : \/ Subscribe(c) \/ SendStatus(c) \/ Disconnect(c)
                                   \/ RemoveSubscriber(c)
             \/ \E t \in Turns : SubmitTurn(t) \/ WorkerStep(t)
      PROVE  UNCHANGED <<seen, rturn>>
  BY <1>3 DEF CloseAll, CloseOther, Publish, Number, CopySubscribers, Put, Subscribe, SendStatus,
     Disconnect, SubmitTurn, WorkerStep, SetTurnRunning, Chunk, FinishTurnSuccess, vars,
     FinishTurnFailure, FinishRaises, Close, ClearTurnSeq, Announce, SignalAll, SignalOne,
     RemoveSubscriber
<1> QED
  BY <1>1, <1>2, <1>3 DEF Next, ReaderStep

(* The turn of a queue that is not empty is settled.                       *)
LEMMA TurnStays ==
    ASSUME TypeOK, PlaceOK, WorkerOK, [Next]_vars, NEW d \in Readers, queue'[d] # <<>>
    PROVE  rpc[d] # "new" /\ rturn[d] \in Turns /\ rturn'[d] = rturn[d]
<1>1. rpc[d] # "new"
  <2>1. CASE rpc[d] = "new"
    <3>1. queue[d] = <<>>
      BY <2>1 DEF PlaceOK, Unplaced
    <3>2. \A p \in Publishers : ~Put(p, d)
      BY <2>1 DEF Put, PlaceOK, Unplaced
    <3>3. ~Signals(d) /\ ~RemoveSubscriber(d)
      BY <2>1 DEF Signals, Unplaced, RemoveSubscriber
    <3> QED
      BY <3>1, <3>2, <3>3, QueueSteps
  <2> QED
    BY <2>1
<1>2. \A t \in Turns : ~ReadRow(d, t)
  BY <1>1 DEF ReadRow
<1>3. rturn'[d] = rturn[d]
  BY <1>2, SeenSteps
<1> QED
  BY <1>1, <1>3 DEF PlaceOK

(* What was recorded stays so. *)
LEMMA StaysRight ==
    ASSUME TypeOK, WorkerOK, [Next]_vars, NEW t \in Turns, NEW e, Right(e, status[t])
    PROVE  Right(e, status'[t])
BY NextMonotone DEF Right, Final

(* A row's transaction comes before its event. *)
LEMMA AnnounceRight ==
    ASSUME TypeOK, NEW t \in Turns, NEW row, NEW name, NEW pc, Announce(t, row, name, pc),
           name = "done" => row = "completed", name = "error" => row = "failed"
    PROVE  /\ Right(pub'[Worker(t)].event, status'[t])
           /\ \A q \in Publishers : q # Worker(t) => pub'[q] = pub[q]
<1>1. pub'[Worker(t)] = Emits(name) /\ \A q \in Publishers : q # Worker(t) => pub'[q] = pub[q]
  BY OnePublishes, WhoPublishes DEF Announce
<1>2. status'[t] = row
  BY DEF Announce, TypeOK
<1> QED
  BY <1>1, <1>2, PublisherValues DEF Right

(* Every step keeps the events true to the rows. *)
LEMMA NextEvents ==
    ASSUME TypeOK, PlaceOK, WorkerOK, EventsOK, [Next]_vars
    PROVE  EventsOK'
<1> USE DEF bus, workers, readers
<1>1. ASSUME NEW q \in Publishers PROVE Right(pub'[q].event, status'[q[2]])
  <2>1. q[2] \in Turns /\ Right(pub[q].event, status[q[2]])
    BY WhoPublishes DEF EventsOK
  <2>2. CASE pub'[q].event.event = pub[q].event.event
    <3>1. Right(pub[q].event, status'[q[2]])
      BY <2>1, StaysRight
    <3> QED
      BY <2>2, <3>1 DEF Right
  <2>3. CASE pub'[q] = Idle \/ pub'[q] = Emits("queued")
    BY <2>3, PublisherValues DEF Right
  <2>4. ASSUME NEW t \in Turns, SetTurnRunning(t) \/ Chunk(t) \/ FinishTurnSuccess(t)
                                \/ FinishTurnFailure(t), pub'[q] # pub[q]
        PROVE  Right(pub'[q].event, status'[q[2]])
    <3>1. PICK row, name, pc : /\ Announce(t, row, name, pc)
                               /\ name = "done" => row = "completed"
                               /\ name = "error" => row = "failed"
      BY <2>4 DEF SetTurnRunning, Chunk, FinishTurnSuccess, FinishTurnFailure
    <3>2. Right(pub'[Worker(t)].event, status'[t]) /\ q = Worker(t)
      BY <2>4, <3>1, AnnounceRight
    <3> QED
      BY <3>2, WhoPublishes
  <2>5. ASSUME NEW t \in Turns, SubmitTurn(t)
        PROVE  pub'[q] = pub[q] \/ pub'[q] = Emits("queued")
    BY <2>5, OnePublishes, WhoPublishes DEF SubmitTurn
  <2>6. ASSUME NEW p \in Publishers, Publish(p)
        PROVE  pub'[q].event.event = pub[q].event.event \/ pub'[q] = Idle
    BY <2>6, PublishSteps DEF Publish
  <2>7. ASSUME \/ UNCHANGED vars \/ CloseAll \/ SignalAll
               \/ \E o \in OtherTurns : CloseOther(o)
               \/ \E c \in Readers : ReaderStep(c) \/ Disconnect(c) \/ \E t \in Turns : ReadRow(c, t)
               \/ \E t \in Turns : FinishRaises(t) \/ Close(t) \/ SignalOne(t) \/ ClearTurnSeq(t)
        PROVE  pub' = pub
    BY <2>7 DEF CloseAll, CloseOther, ReaderStep, Subscribe, SendStatus, ReadEvent, RemoveSubscriber,
       Disconnect, ReadRow, vars, FinishRaises, Close, ClearTurnSeq, SignalAll, SignalOne
  <2> QED
    BY <2>2, <2>3, <2>4, <2>5, <2>6, <2>7 DEF Next, WorkerStep
<1>2. ASSUME NEW d \in Readers, NEW i \in 1..Len(queue'[d])
      PROVE  /\ queue'[d][i].event \in Worked \cup {"queued", "sentinel"}
             /\ Right(queue'[d][i], status'[rturn[d]]) /\ rturn'[d] = rturn[d]
  <2>1. rturn[d] \in Turns /\ rturn'[d] = rturn[d]
    <3>1. queue'[d] # <<>>
      OBVIOUS
    <3> QED
      BY <3>1, TurnStays
  <2>2. CASE \E j \in 1..Len(queue[d]) : queue'[d][i] = queue[d][j]
    <3>1. PICK j \in 1..Len(queue[d]) : queue'[d][i] = queue[d][j]
      BY <2>2
    <3>2. Right(queue[d][j], status[rturn[d]]) /\ queue[d][j].event \in Worked \cup {"queued", "sentinel"}
      BY DEF EventsOK
    <3> QED
      BY <2>1, <3>1, <3>2, StaysRight
  <2>3. ASSUME NEW p \in Publishers, pub[p].step = "put", rturn[d] = p[2],
               queue'[d][i] = pub[p].event
        PROVE  /\ queue'[d][i].event \in Worked \cup {"queued", "sentinel"}
               /\ Right(queue'[d][i], status'[rturn[d]])
    <3>1. pub[p] # Idle
      BY <2>3, PublisherValues
    <3>2. pub[p].event.event \in Worked \cup {"queued"}
      BY <3>1, WhoPublishes DEF WorkerOK
    <3>3. Right(pub[p].event, status[rturn[d]])
      BY <2>3 DEF EventsOK
    <3> QED
      BY <2>1, <2>3, <3>2, <3>3, StaysRight
  <2>4. CASE queue'[d][i] = Sentinel
    BY <2>1, <2>4 DEF Right, Sentinel, Event
  <2> QED
    BY <2>1, <2>2, <2>3, <2>4, QueueElements
<1>3. ASSUME NEW d \in Readers PROVE Right(seen'[d], status'[rturn'[d]])
  <2>1. CASE seen'[d] = seen[d] /\ rturn'[d] = rturn[d]
    <3>1. Right(seen[d], status[rturn[d]])
      BY DEF EventsOK
    <3>2. CASE rpc[d] = "new"
      BY <2>1, <3>2, PublisherValues DEF PlaceOK, Unplaced, Right
    <3>3. CASE rpc[d] # "new"
      BY <2>1, <3>1, <3>3, StaysRight DEF PlaceOK
    <3> QED
      BY <3>2, <3>3
  <2>2. CASE ReadEvent(d) /\ rturn'[d] = rturn[d] /\ queue[d] # <<>> /\ seen'[d] = Head(queue[d])
    <3>1. queue[d] \in Seq(Events)
      BY DEF TypeOK
    <3>2. 1 \in 1..Len(queue[d]) /\ seen'[d] = queue[d][1]
      BY <2>2, <3>1, Dequeued
    <3>3. Right(queue[d][1], status[rturn[d]])
      BY <3>2 DEF EventsOK
    <3>4. rturn[d] \in Turns
      BY <2>2 DEF ReadEvent, PlaceOK
    <3> QED
      BY <2>2, <3>2, <3>3, <3>4, StaysRight
  <2>3. ASSUME NEW t \in Turns, ReadRow(d, t) PROVE Right(seen'[d], status'[rturn'[d]])
    <3>1. rturn'[d] = t /\ status' = status /\ rpc[d] = "new"
      BY <2>3 DEF ReadRow, TypeOK
    <3>2. CASE status[t] \in Final
      <4>1. seen'[d] = Event(IF status[t] = "completed" THEN "done" ELSE "error", 0)
        BY <2>3, <3>2 DEF ReadRow, TypeOK
      <4> QED
        BY <3>1, <3>2, <4>1 DEF Right, Event, Final
    <3>3. CASE status[t] \notin Final
      <4>1. seen'[d] = NoEvent
        BY <2>3, <3>1, <3>3 DEF ReadRow, PlaceOK, Unplaced
      <4> QED
        BY <4>1, PublisherValues DEF Right
    <3> QED
      BY <3>2, <3>3
  <2> QED
    BY <2>1, <2>2, <2>3, SeenSteps
<1>4. \A d \in Readers : \A i \in 1..Len(queue'[d]) : Right(queue'[d][i], status'[rturn'[d]])
  BY <1>2
<1> QED
  BY <1>1, <1>2, <1>3, <1>4 DEF EventsOK

(* Every step keeps sentinels for the end. *)
LEMMA NextSentinel ==
    ASSUME TypeOK, PlaceOK, WorkerOK, SentinelOK, [Next]_vars
    PROVE  SentinelOK'
<1> SUFFICES ASSUME NEW d \in Readers, NEW i \in 1..Len(queue'[d]), queue'[d][i].event = "sentinel"
             PROVE  stopping' \/ wpc'[rturn'[d]] \in {"signal", "done"}
  BY DEF SentinelOK
<1>1. rturn[d] \in Turns /\ rturn'[d] = rturn[d]
  <2>1. queue'[d] # <<>>
    OBVIOUS
  <2> QED
    BY <2>1, TurnStays
<1>2. stopping \/ wpc[rturn[d]] \in {"signal", "done"}
  <2>1. CASE \E j \in 1..Len(queue[d]) : queue'[d][i] = queue[d][j]
    BY <2>1 DEF SentinelOK
  <2>2. ASSUME NEW p \in Publishers, pub[p].step = "put", queue'[d][i] = pub[p].event
        PROVE  FALSE
    <3>1. pub[p] # Idle
      BY <2>2, PublisherValues
    <3>2. pub[p].event.event \in Worked \cup {"queued"}
      BY <3>1, WhoPublishes DEF WorkerOK
    <3> QED
      BY <2>2, <3>2 DEF Worked
  <2> QED
    BY <2>1, <2>2, QueueElements
<1> QED
  BY <1>1, <1>2, NextMonotone

-----------------------------------------------------------------------------
(* Whoever waits is reached *)

HasEnder(q) == \E i \in 1..Len(q) : q[i].event \in Enders

(* How a connection comes to wait for its queue. *)
LEMMA AttachedSteps ==
    ASSUME TypeOK, PlaceOK, [Next]_vars, NEW d \in Readers, rpc'[d] \in Attached
    PROVE  /\ rturn'[d] = rturn[d] /\ rturn[d] \in Turns
           /\ \/ rpc[d] \in Attached
              \/ Subscribe(d) /\ rpc[d] = "subscribe" /\ ~Refused(rturn[d])
<1> USE DEF bus, workers, readers
<1>1. ASSUME NEW c \in Readers, Subscribe(c)
      PROVE  \/ rpc'[d] = rpc[d]
             \/ Subscribe(d) /\ rpc[d] = "subscribe" /\ ~Refused(rturn[d])
  BY <1>1 DEF Subscribe, Go, TypeOK, Attached
<1>2. ASSUME NEW c \in Readers, SendStatus(c) PROVE rpc'[d] = rpc[d] \/ rpc[d] \in Attached
  BY <1>2 DEF SendStatus, Go, TypeOK, Attached
<1>3. ASSUME NEW c \in Readers, ReadEvent(c) \/ RemoveSubscriber(c) \/ Disconnect(c)
      PROVE  rpc'[d] = rpc[d]
  BY <1>3 DEF ReadEvent, RemoveSubscriber, Disconnect, Go, TypeOK, Attached
<1>4. ASSUME NEW c \in Readers, NEW t \in Turns, ReadRow(c, t) PROVE rpc'[d] = rpc[d]
  BY <1>4 DEF ReadRow, Go, TypeOK, Attached
<1>5. ASSUME \/ UNCHANGED vars \/ CloseAll \/ SignalAll
             \/ \E o \in OtherTurns : CloseOther(o)
             \/ \E p \in Publishers : Publish(p)
             \/ \E t \in Turns : SubmitTurn(t) \/ WorkerStep(t)
      PROVE  rpc' = rpc
  BY <1>5 DEF CloseAll, CloseOther, Publish, Number, CopySubscribers, Put, SubmitTurn, WorkerStep,
     SetTurnRunning, Chunk, FinishTurnSuccess, vars, FinishTurnFailure, FinishRaises, Close,
     ClearTurnSeq, Announce, SignalAll, SignalOne
<1>6. rpc[d] \in Attached \/ (Subscribe(d) /\ rpc[d] = "subscribe" /\ ~Refused(rturn[d]))
  BY <1>1, <1>2, <1>3, <1>4, <1>5 DEF Next, ReaderStep
<1>7. rpc[d] # "new" /\ \A t \in Turns : ~ReadRow(d, t)
  BY <1>6 DEF ReadRow, Attached
<1>8. rturn'[d] = rturn[d]
  BY <1>7, SeenSteps
<1> QED
  BY <1>6, <1>7, <1>8 DEF PlaceOK

(* What ends the stream stays in the queue until it is read.               *)
LEMMA EnderStays ==
    ASSUME TypeOK, PlaceOK, WorkerOK, [Next]_vars, NEW d \in Readers, rpc'[d] \in Attached,
           HasEnder(queue[d])
    PROVE  HasEnder(queue'[d])
<1>1. queue[d] \in Seq(Events)
  BY DEF TypeOK
<1>2. PICK i \in 1..Len(queue[d]) : queue[d][i].event \in Enders
  BY DEF HasEnder
<1>3. CASE queue'[d] = queue[d]
  BY <1>3
<1>4. ASSUME NEW p \in Publishers, queue'[d] = Append(queue[d], pub[p].event)
      PROVE  HasEnder(queue'[d])
  <2>1. pub[p].event \in Events
    BY DEF TypeOK
  <2>2. Len(queue'[d]) = Len(queue[d]) + 1 /\ queue'[d][i] = queue[d][i] /\ Len(queue[d]) \in Nat
    BY <1>1, <1>4, <2>1, Enqueued
  <2> QED
    BY <1>2, <2>2 DEF HasEnder
<1>5. CASE Signals(d)
  <2>1. PICK lost \in {0, 1} : Closing(queue[d], queue'[d], lost)
    BY <1>5 DEF Signals
  <2>2. Len(queue'[d]) \in 1..Len(queue'[d]) /\ queue'[d][Len(queue'[d])].event \in Enders
    BY <1>1, <1>2, <2>1 DEF Closing, Sentinel, Event, Enders
  <2> QED
    BY <2>2 DEF HasEnder
<1>6. CASE ReadEvent(d) /\ queue[d] # <<>> /\ queue'[d] = Tail(queue[d])
  <2>1. Head(queue[d]) = queue[d][1] /\ queue[d][1].event \notin Enders
    <3>1. CASE Head(queue[d]).event \in Enders
      <4>1. rpc'[d] = "leave"
        BY <1>6, <3>1 DEF ReadEvent, Go, TypeOK, Enders
      <4> QED
        BY <4>1 DEF Attached
    <3>2. Head(queue[d]) = queue[d][1]
      BY <1>1, <1>6, Dequeued
    <3> QED
      BY <3>1, <3>2
  <2>2. i # 1 /\ Len(queue[d]) \in Nat
    BY <1>1, <1>2, <2>1
  <2>3. i - 1 \in 1..Len(queue'[d]) /\ queue'[d][i - 1] = queue[d][i]
    BY <1>1, <1>6, <2>2, Dequeued
  <2> QED
    BY <1>2, <2>3 DEF HasEnder
<1>7. ~RemoveSubscriber(d)
  BY DEF RemoveSubscriber, Go, TypeOK, Attached
<1> QED
  BY <1>3, <1>4, <1>5, <1>6, <1>7, QueueSteps

(* Whoever waits stays in a list until the sentinel is put in its queue.   *)
LEMMA ListedStays ==
    ASSUME TypeOK, PlaceOK, WorkerOK, [Next]_vars, NEW d \in Readers, rpc[d] \in Attached,
           d \in subs[rturn[d]] \cup toSignal[rturn[d]] \cup toSignalAll
    PROVE  \/ d \in subs'[rturn[d]] \cup toSignal'[rturn[d]] \cup toSignalAll'
           \/ HasEnder(queue'[d])
<1> USE DEF bus, workers, readers
<1> DEFINE t == rturn[d]
<1>1. t \in Turns /\ ~Over(d)
  BY DEF PlaceOK, Attached, Over
<1>2. ASSUME NEW c \in Readers, SignalClose(c), d # c => d \in subs'[t] \cup toSignal'[t] \cup toSignalAll'
      PROVE  \/ d \in subs'[t] \cup toSignal'[t] \cup toSignalAll'
             \/ HasEnder(queue'[d])
  <2>1. CASE d # c
    BY <1>2, <2>1
  <2>2. CASE d = c
    <3>1. PICK lost \in {0, 1} : Closing(queue[d], queue'[d], lost)
      BY <1>1, <1>2, <2>2, SignalOther
    <3>2. queue[d] \in Seq(Events)
      BY DEF TypeOK
    <3>3. Len(queue'[d]) \in 1..Len(queue'[d]) /\ queue'[d][Len(queue'[d])].event \in Enders
      BY <3>1, <3>2, StreamAssumption DEF Closing, Sentinel, Event, Enders
    <3> QED
      BY <3>3 DEF HasEnder
  <2> QED
    BY <2>1, <2>2
<1>3. ASSUME NEW u \in Turns, SignalOne(u)
      PROVE  d \in subs'[t] \cup toSignal'[t] \cup toSignalAll' \/ HasEnder(queue'[d])
  <2>1. PICK c \in toSignal[u] : SignalClose(c) /\ toSignal' = [toSignal EXCEPT ![u] = @ \ {c}]
    BY <1>3 DEF SignalOne
  <2>2. c \in Readers /\ UNCHANGED <<subs, toSignalAll>>
    BY <1>3, <2>1 DEF TypeOK, SignalOne
  <2>3. d # c => d \in subs'[t] \cup toSignal'[t] \cup toSignalAll'
    BY <1>1, <2>1, <2>2 DEF TypeOK
  <2> QED
    BY <1>2, <2>1, <2>2, <2>3
<1>4. ASSUME SignalAll
      PROVE  d \in subs'[t] \cup toSignal'[t] \cup toSignalAll' \/ HasEnder(queue'[d])
  <2>1. PICK c \in toSignalAll : SignalClose(c) /\ toSignalAll' = toSignalAll \ {c}
    BY <1>4 DEF SignalAll
  <2>2. c \in Readers /\ UNCHANGED <<subs, toSignal>>
    BY <1>4, <2>1 DEF TypeOK, SignalAll
  <2>3. d # c => d \in subs'[t] \cup toSignal'[t] \cup toSignalAll'
    BY <2>1, <2>2
  <2> QED
    BY <1>2, <2>1, <2>2, <2>3
<1>5. ASSUME NEW u \in Turns, Close(u)
      PROVE  d \in subs'[t] \cup toSignal'[t] \cup toSignalAll'
  <2>1. /\ toSignal' = [toSignal EXCEPT ![u] = subs[u]] /\ subs' = [subs EXCEPT ![u] = {}]
        /\ toSignalAll' = toSignalAll /\ wpc[u] = "close"
    BY <1>5 DEF Close, Ready
  <2>2. toSignal[u] = {}
    BY <2>1 DEF WorkerOK
  <2> QED
    BY <1>1, <2>1, <2>2 DEF TypeOK
<1>6. ASSUME CloseAll PROVE d \in subs'[t] \cup toSignal'[t] \cup toSignalAll'
  <2>1. toSignalAll' = UNION {subs[u] : u \in Turns} /\ toSignal' = toSignal /\ toSignalAll = {}
    BY <1>6 DEF CloseAll, WorkerOK
  <2> QED
    BY <1>1, <2>1
<1>7. ASSUME NEW c \in Readers, Subscribe(c) \/ RemoveSubscriber(c)
      PROVE  d \in subs'[t] \cup toSignal'[t] \cup toSignalAll'
  <2>1. CASE Subscribe(c)
    <3>1. subs' = subs \/ subs' = [subs EXCEPT ![rturn[c]] = @ \cup {c}]
      BY <2>1 DEF Subscribe
    <3>a. subs' = subs => subs[t] \subseteq subs'[t]
      OBVIOUS
    <3>b. subs' = [subs EXCEPT ![rturn[c]] = @ \cup {c}] => subs[t] \subseteq subs'[t]
      BY DEF TypeOK
    <3>2. subs[t] \subseteq subs'[t]
      BY <3>1, <3>a, <3>b
    <3>3. UNCHANGED <<toSignal, toSignalAll>>
      BY <2>1 DEF Subscribe
    <3> QED
      BY <1>1, <3>2, <3>3
  <2>2. CASE RemoveSubscriber(c)
    <3>1. c # d
      BY <2>2 DEF RemoveSubscriber, Attached
    <3> QED
      BY <1>1, <2>2, <3>1 DEF RemoveSubscriber, TypeOK
  <2> QED
    BY <1>7, <2>1, <2>2
<1>8. ASSUME \/ UNCHANGED vars
             \/ \E o \in OtherTurns : CloseOther(o)
             \/ \E p \in Publishers : Publish(p)
             \/ \E c \in Readers : \/ SendStatus(c) \/ ReadEvent(c) \/ Disconnect(c)
                                   \/ \E u \in Turns : ReadRow(c, u)
             \/ \E u \in Turns : \/ SubmitTurn(u) \/ SetTurnRunning(u) \/ Chunk(u)
                                 \/ FinishTurnSuccess(u) \/ FinishTurnFailure(u)
                                 \/ FinishRaises(u) \/ ClearTurnSeq(u)
      PROVE  UNCHANGED <<subs, toSignal, toSignalAll>>
  BY <1>8 DEF CloseOther, Publish, Number, CopySubscribers, Put, SendStatus, ReadEvent, Disconnect,
     ReadRow, SubmitTurn, SetTurnRunning, Chunk, FinishTurnSuccess, vars, FinishTurnFailure,
     FinishRaises, ClearTurnSeq, Announce
<1> QED
  BY <1>3, <1>4, <1>5, <1>6, <1>7, <1>8 DEF Next, WorkerStep, ReaderStep

(* A closed turn gets no subscribers back. *)
LEMMA ClosedStays ==
    ASSUME TypeOK, PlaceOK, ReachOK, [Next]_vars, NEW t \in Turns, Closed(t)'
    PROVE  subs'[t] = {}
<1> USE DEF bus, workers, readers
<1>1. ASSUME NEW u \in Turns, Close(u) PROVE subs'[t] = {}
  <2>1. t = u \/ Closed(t)
    BY <1>1, ClosesOne DEF Close
  <2> QED
    BY <1>1, <2>1 DEF Close, TypeOK, ReachOK, NoForgottenReader
<1>2. ASSUME NEW o \in OtherTurns, CloseOther(o) PROVE subs'[t] = {}
  <2>1. t = o \/ Closed(t)
    BY <1>2, ClosesOne DEF CloseOther
  <2> QED
    BY <1>2, <2>1, StreamAssumption DEF CloseOther, ReachOK, NoForgottenReader
<1>3. ASSUME closedOrder' = closedOrder PROVE Closed(t) /\ subs[t] = {}
  BY <1>3 DEF Closed, ReachOK, NoForgottenReader
<1>4. ASSUME NEW c \in Readers, Subscribe(c) PROVE subs'[t] = {}
  <2>1. Closed(t) /\ subs[t] = {} /\ rturn[c] \in Turns
    BY <1>3, <1>4 DEF Subscribe, PlaceOK
  <2> QED
    BY <1>4, <2>1 DEF Subscribe, Refused, TypeOK
<1>5. ASSUME CloseAll \/ (\E c \in Readers : RemoveSubscriber(c)) PROVE subs'[t] = {}
  <2>1. subs[t] = {} /\ subs \in [Turns -> SUBSET Readers]
    BY <1>3, <1>5 DEF CloseAll, RemoveSubscriber, TypeOK
  <2>2. CASE CloseAll
    BY <2>2 DEF CloseAll
  <2>3. ASSUME NEW c \in Readers, RemoveSubscriber(c) PROVE subs'[t] = {}
    <3>1. subs' = [subs EXCEPT ![rturn[c]] = @ \ {c}]
      BY <2>3 DEF RemoveSubscriber
    <3> QED
      BY <2>1, <3>1
  <2> QED
    BY <1>5, <2>2, <2>3
<1>6. ASSUME \/ UNCHANGED vars \/ SignalAll
             \/ \E p \in Publishers : Publish(p)
             \/ \E c \in Readers : \/ SendStatus(c) \/ ReadEvent(c) \/ Disconnect(c)
                                   \/ \E u \in Turns : ReadRow(c, u)
             \/ \E u \in Turns : \/ SubmitTurn(u) \/ SetTurnRunning(u) \/ Chunk(u)
                                 \/ FinishTurnSuccess(u) \/ FinishTurnFailure(u)
                                 \/ FinishRaises(u) \/ ClearTurnSeq(u) \/ SignalOne(u)
      PROVE  UNCHANGED <<subs, closedOrder>>
  BY <1>6 DEF SignalAll, SignalOne, Publish, Number, CopySubscribers, Put, SendStatus, ReadEvent,
     Disconnect, ReadRow, SubmitTurn, SetTurnRunning, Chunk, FinishTurnSuccess, vars,
     FinishTurnFailure, FinishRaises, ClearTurnSeq, Announce
<1> QED
  BY <1>1, <1>2, <1>3, <1>4, <1>5, <1>6 DEF Next, WorkerStep, ReaderStep

(* Every step keeps everybody reached. *)
LEMMA NextReach ==
    ASSUME TypeOK, PlaceOK, WorkerOK, ReachOK, [Next]_vars
    PROVE  ReachOK'
<1>1. \A t \in Turns : Closed(t)' => subs'[t] = {}
  BY ClosedStays
<1>2. ASSUME NEW d \in Readers, rpc'[d] \in Attached
      PROVE  \/ d \in subs'[rturn'[d]]
             \/ HasEnder(queue'[d])
             \/ d \in toSignal'[rturn'[d]] \cup toSignalAll'
  <2>1. rturn'[d] = rturn[d] /\ rturn[d] \in Turns
    BY <1>2, AttachedSteps
  <2>2. CASE rpc[d] \in Attached
    <3>1. \/ d \in subs[rturn[d]] \cup toSignal[rturn[d]] \cup toSignalAll
          \/ HasEnder(queue[d])
      BY <2>2 DEF ReachOK, NoForgottenReader, Attached, HasEnder, Enders
    <3> QED
      BY <1>2, <2>1, <2>2, <3>1, EnderStays, ListedStays
  <2>3. CASE Subscribe(d) /\ ~Refused(rturn[d])
    BY <2>1, <2>3 DEF Subscribe, TypeOK
  <2> QED
    BY <1>2, <2>2, <2>3, AttachedSteps
<1> QED
  BY <1>1, <1>2 DEF ReachOK, NoForgottenReader, Attached, HasEnder, Enders

-----------------------------------------------------------------------------
(* Outcomes are delivered *)

(* Which handler took a step when one moved on. *)
LEMMA HandlerSteps ==
    ASSUME TypeOK, [Next]_vars, NEW d \in Readers
    PROVE  \/ rpc'[d] = rpc[d]
           \/ Subscribe(d) \/ SendStatus(d) \/ ReadEvent(d) \/ RemoveSubscriber(d) \/ Disconnect(d)
           \/ \E t \in Turns : ReadRow(d, t)
<1> USE DEF bus, workers, readers
<1>1. ASSUME NEW c \in Readers, NEW pc, Go(c, pc), c # d PROVE rpc'[d] = rpc[d]
  BY <1>1 DEF Go, TypeOK
<1>2. ASSUME NEW c \in Readers, c # d,
             \/ Subscribe(c) \/ SendStatus(c) \/ ReadEvent(c) \/ RemoveSubscriber(c) \/ Disconnect(c)
             \/ \E t \in Turns : ReadRow(c, t)
      PROVE  rpc'[d] = rpc[d]
  <2>1. rpc' = rpc \/ \E pc : Go(c, pc)
    BY <1>2 DEF Subscribe, SendStatus, ReadEvent, RemoveSubscriber, Disconnect, ReadRow
  <2> QED
    BY <1>1, <1>2, <2>1
<1>3. ASSUME \/ UNCHANGED vars \/ CloseAll \/ SignalAll
             \/ \E o \in OtherTurns : CloseOther(o)
             \/ \E p \in Publishers : Publish(p)
             \/ \E t \in Turns : SubmitTurn(t) \/ WorkerStep(t)
      PROVE  rpc' = rpc
  BY <1>3 DEF CloseAll, CloseOther, Publish, Number, CopySubscribers, Put, SubmitTurn, WorkerStep,
     SetTurnRunning, Chunk, FinishTurnSuccess, vars, FinishTurnFailure, FinishRaises, Close,
     ClearTurnSeq, Announce, SignalAll, SignalOne
<1> QED
  BY <1>2, <1>3 DEF Next, ReaderStep

(* How a turn becomes final. *)
LEMMA FinalSteps ==
    ASSUME TypeOK, WorkerOK, [Next]_vars, NEW t \in Turns, status[t] \notin Final, status'[t] \in Final
    PROVE  /\ wpc[t] \in {"start", "agent"} /\ pub'[Worker(t)].event.event \in Terminal
           /\ pub'[Worker(t)].step = "seq" /\ UNCHANGED <<bus, queue>>
<1> USE DEF bus, workers, readers
<1>1. ASSUME NEW u \in Turns, NEW row, status' = [status EXCEPT ![u] = row]
      PROVE  u = t /\ row \in Final
  BY <1>1 DEF TypeOK
<1>2. ASSUME NEW u \in Turns, SubmitTurn(u) \/ SetTurnRunning(u) \/ Chunk(u)
      PROVE  FALSE
  <2>1. \/ status' = [status EXCEPT ![u] = "queued"] \/ status' = [status EXCEPT ![u] = "running"]
        \/ status' = [status EXCEPT ![u] = status[u]]
    BY <1>2 DEF SubmitTurn, SetTurnRunning, Chunk, Announce
  <2> QED
    BY <1>1, <2>1 DEF Final
<1>3. ASSUME NEW u \in Turns, FinishTurnSuccess(u) \/ FinishTurnFailure(u)
      PROVE  /\ wpc[t] \in {"start", "agent"} /\ pub'[Worker(t)].event.event \in Terminal
             /\ pub'[Worker(t)].step = "seq" /\ UNCHANGED <<bus, queue>>
  <2>1. PICK row \in Final, name \in Terminal :
            Announce(u, row, name, "close") /\ (Ready(u, "start") \/ Ready(u, "agent"))
    BY <1>3 DEF FinishTurnSuccess, FinishTurnFailure, Terminal, Final
  <2>2. u = t
    BY <1>1, <2>1 DEF Announce
  <2>3. pub'[Worker(t)] = Emits(name)
    BY <2>1, <2>2, OnePublishes, WhoPublishes DEF Announce
  <2> QED
    BY <2>1, <2>2, <2>3, PublisherValues DEF Announce, Ready
<1>4. ASSUME \/ UNCHANGED vars \/ CloseAll \/ SignalAll
             \/ \E o \in OtherTurns : CloseOther(o)
             \/ \E p \in Publishers : Publish(p)
             \/ \E c \in Readers : ReaderStep(c) \/ Disconnect(c) \/ \E u \in Turns : ReadRow(c, u)
             \/ \E u \in Turns : FinishRaises(u) \/ Close(u) \/ ClearTurnSeq(u) \/ SignalOne(u)
      PROVE  status' = status
  BY <1>4 DEF CloseAll, CloseOther, Publish, Number, CopySubscribers, Put, ReaderStep, Subscribe,
     SendStatus, ReadEvent, RemoveSubscriber, Disconnect, ReadRow, vars, FinishRaises, Close,
     ClearTurnSeq, SignalAll, SignalOne
<1> QED
  BY <1>2, <1>3, <1>4 DEF Next, WorkerStep

(* An outcome that is announced stays under way until it is in the queue.  *)
LEMMA ComingStays ==
    ASSUME TypeOK, PlaceOK, WorkerOK, [Next]_vars, NEW d \in Readers, rpc[d] \in Attached,
           Coming(d), ~stopping', d \notin missed'
    PROVE  /\ wpc[rturn[d]] # "signal"
           /\ \/ /\ pub'[Worker(rturn[d])].event.event \in Terminal
                 /\ \/ pub'[Worker(rturn[d])].step \in {"seq", "copy"} /\ d \in subs'[rturn[d]]
                    \/ pub'[Worker(rturn[d])].step = "put" /\ d \in pub'[Worker(rturn[d])].to
              \/ Put(Worker(rturn[d]), d) /\ queue' = [queue EXCEPT ![d] = Append(@, pub[Worker(rturn[d])].event)]
<1> USE DEF bus, workers, readers
<1> DEFINE t == rturn[d]
           w == Worker(t)
           Stays == /\ pub'[w].event.event \in Terminal
                    /\ \/ pub'[w].step \in {"seq", "copy"} /\ d \in subs'[t]
                       \/ pub'[w].step = "put" /\ d \in pub'[w].to
<1>1. t \in Turns /\ w \in Publishers /\ w[2] = t /\ ~Over(d)
  BY WhoPublishes DEF PlaceOK, Attached, Over
<1>2. pub[w].event.event \in Terminal /\ pub[w] # Idle
  BY PublisherValues DEF Coming, Terminal
<1>3. wpc[t] \in {"agent", "close"} /\ ~Ready(t, "start") /\ ~Ready(t, "agent") /\ ~Ready(t, "close")
  BY <1>1, <1>2 DEF WorkerOK, Ready
<1>4. ASSUME pub'[w] = pub[w], d \in subs[t] => d \in subs'[t] PROVE Stays
  BY <1>4 DEF Coming
<1>5. ASSUME NEW u \in Turns, WorkerStep(u) PROVE Stays
  <2>1. CASE u = t
    <3>1. FALSE
      BY <1>3, <1>5, <2>1 DEF WorkerStep, SetTurnRunning, Chunk, FinishTurnSuccess, FinishTurnFailure,
                              FinishRaises, Close, SignalOne, ClearTurnSeq
    <3> QED
      BY <3>1
  <2>2. CASE u # t
    <3>1. subs' = subs \/ subs' = [subs EXCEPT ![u] = {}]
      BY <1>5 DEF WorkerStep, SetTurnRunning, Chunk, FinishTurnSuccess, FinishTurnFailure,
                  FinishRaises, Close, SignalOne, ClearTurnSeq, Announce
    <3>2. pub' = pub \/ \E n : pub' = [pub EXCEPT ![Worker(u)] = Emits(n)]
      BY <1>5 DEF WorkerStep, SetTurnRunning, Chunk, FinishTurnSuccess, FinishTurnFailure,
                  FinishRaises, Close, SignalOne, ClearTurnSeq, Announce
    <3>3. pub'[w] = pub[w]
      BY <1>1, <2>2, <3>2, OnePublishes, WhoPublishes
    <3> QED
      BY <1>1, <1>4, <2>2, <3>1, <3>3 DEF TypeOK
  <2> QED
    BY <2>1, <2>2
<1>6. ASSUME NEW u \in Turns, SubmitTurn(u) PROVE Stays
  <2>1. pub'[w] = pub[w] /\ subs' = subs
    BY <1>1, <1>6, OnePublishes, WhoPublishes DEF SubmitTurn
  <2> QED
    BY <1>4, <2>1
<1>7. ASSUME NEW p \in Publishers, Number(p) \/ CopySubscribers(p) PROVE Stays
  <2>1. subs' = subs
    BY <1>7 DEF Number, CopySubscribers
  <2>2. CASE p # w
    <3>1. pub'[w] = pub[w]
      BY <1>1, <1>7, <2>2, PublishSteps
    <3> QED
      BY <1>4, <2>1, <3>1
  <2>3. CASE p = w /\ Number(p)
    <3>1. /\ pub[w].step = "seq" /\ pub'[w].step = "copy"
          /\ pub'[w].event.event = pub[w].event.event
      BY <1>1, <2>3, PublishSteps
    <3> QED
      BY <1>2, <2>1, <3>1 DEF Coming
  <2>4. CASE p = w /\ CopySubscribers(p)
    <3>1. /\ pub[w].step = "copy"
          /\ IF subs[t] = {} THEN pub'[w] = Idle
             ELSE pub'[w].step = "put" /\ pub'[w].to = subs[t] /\ pub'[w].event = pub[w].event
      BY <1>1, <2>4, PublishSteps
    <3>2. d \in subs[t]
      BY <3>1 DEF Coming
    <3> QED
      BY <1>2, <3>1, <3>2
  <2> QED
    BY <1>7, <2>2, <2>3, <2>4
<1>8. ASSUME NEW p \in Publishers, NEW c \in Readers, Put(p, c)
      PROVE  Stays \/ (Put(w, d) /\ queue' = [queue EXCEPT ![d] = Append(@, pub[w].event)])
  <2>1. subs' = subs
    BY <1>8 DEF Put
  <2>2. CASE p # w
    <3>1. pub'[w] = pub[w]
      BY <1>1, <1>8, <2>2, PublishSteps
    <3> QED
      BY <1>4, <2>1, <3>1
  <2>3. CASE p = w /\ c # d
    <3>1. /\ pub[w].step = "put"
          /\ IF pub[w].to = {c} THEN pub'[w] = Idle
             ELSE pub'[w].step = "put" /\ pub'[w].to = pub[w].to \ {c} /\ pub'[w].event = pub[w].event
      BY <1>1, <1>8, <2>3, PublishSteps
    <3>2. d \in pub[w].to
      BY <3>1 DEF Coming
    <3> QED
      BY <1>2, <2>3, <3>1, <3>2
  <2>4. CASE p = w /\ c = d
    <3>1. queue' = [queue EXCEPT ![d] = Append(queue[d], pub[w].event)]
      BY <1>1, <1>8, <2>4 DEF Put
    <3> QED
      BY <1>8, <2>4, <3>1
  <2> QED
    BY <2>2, <2>3, <2>4
<1>9. ASSUME NEW c \in Readers, Subscribe(c) \/ RemoveSubscriber(c) PROVE Stays
  <2>1. pub' = pub
    BY <1>9 DEF Subscribe, RemoveSubscriber
  <2>2. RemoveSubscriber(c) => c # d
    BY DEF RemoveSubscriber, Attached
  <2>3. \/ subs' = subs \/ subs' = [subs EXCEPT ![rturn[c]] = @ \cup {c}]
        \/ c # d /\ subs' = [subs EXCEPT ![rturn[c]] = @ \ {c}]
    BY <1>9, <2>2 DEF Subscribe, RemoveSubscriber
  <2>4. d \in subs[t] => d \in subs'[t]
    <3>1. subs' = subs => (d \in subs[t] => d \in subs'[t])
      OBVIOUS
    <3>2. subs' = [subs EXCEPT ![rturn[c]] = @ \cup {c}] => (d \in subs[t] => d \in subs'[t])
      BY <1>1 DEF TypeOK
    <3>3. c # d /\ subs' = [subs EXCEPT ![rturn[c]] = @ \ {c}]
            => (d \in subs[t] => d \in subs'[t])
      BY <1>1 DEF TypeOK
    <3> QED
      BY <2>3, <3>1, <3>2, <3>3
  <2> QED
    BY <1>4, <2>1, <2>4
<1>10. ASSUME \/ UNCHANGED vars \/ SignalAll
              \/ \E o \in OtherTurns : CloseOther(o)
              \/ \E c \in Readers : \/ SendStatus(c) \/ ReadEvent(c) \/ Disconnect(c)
                                    \/ \E u \in Turns : ReadRow(c, u)
       PROVE  UNCHANGED <<pub, subs>>
  BY <1>10 DEF SignalAll, CloseOther, SendStatus, ReadEvent, Disconnect, ReadRow, vars
<1>11. ~CloseAll
  BY DEF CloseAll
<1>12. Stays \/ (Put(w, d) /\ queue' = [queue EXCEPT ![d] = Append(@, pub[w].event)])
  BY <1>4, <1>5, <1>6, <1>7, <1>8, <1>9, <1>10, <1>11 DEF Next, ReaderStep, Publish
<1> QED
  BY <1>3, <1>12

(* What one step does to a queue keeps an outcome in it and keeps it ahead *)
(* of the sentinel; the sentinel of a close finds the outcome there.       *)
LEMMA LedStays ==
    ASSUME TypeOK, PlaceOK, WorkerOK, [Next]_vars, NEW d \in Readers,
           rpc[d] \in Attached, rpc'[d] \in Attached, d \notin missed', ~stopping',
           HasOutcome(queue[d]) \/ Coming(d), Led(queue[d])
    PROVE  /\ HasOutcome(queue[d]) => HasOutcome(queue'[d])
           /\ Led(queue'[d])
<1>1. queue[d] \in Seq(Events) /\ Len(queue[d]) \in Nat
  BY DEF TypeOK
<1>2. CASE queue'[d] = queue[d]
  BY <1>2
<1>3. ASSUME NEW p \in Publishers, Put(p, d), queue'[d] = Append(queue[d], pub[p].event)
      PROVE  (HasOutcome(queue[d]) => HasOutcome(queue'[d])) /\ Led(queue'[d])
  <2>1. pub[p].event \in Events
    BY DEF TypeOK
  <2>2. /\ Len(queue'[d]) = Len(queue[d]) + 1
        /\ \A i \in 1..Len(queue[d]) : queue'[d][i] = queue[d][i]
        /\ queue'[d][Len(queue[d]) + 1] = pub[p].event
    BY <1>1, <1>3, <2>1, Enqueued
  <2>3. pub[p].event.event # "sentinel"
    <3>1. pub[p] # Idle
      BY <1>3, PublisherValues DEF Put
    <3> QED
      BY <3>1, WhoPublishes DEF WorkerOK, Worked
  <2>4. Led(queue'[d])
    <3> SUFFICES ASSUME NEW j \in 1..Len(queue'[d]), queue'[d][j].event = "sentinel"
                 PROVE  \E k \in 1..Len(queue'[d]) : k < j /\ queue'[d][k].event \in Terminal
      BY DEF Led
    <3>1. j # Len(queue[d]) + 1
      BY <2>2, <2>3
    <3>2. j \in 1..Len(queue[d])
      BY <1>1, <2>2, <3>1
    <3>3. queue[d][j].event = "sentinel"
      BY <2>2, <3>2
    <3>4. PICK k \in 1..Len(queue[d]) : k < j /\ queue[d][k].event \in Terminal
      BY <3>2, <3>3 DEF Led
    <3>5. k \in 1..Len(queue'[d]) /\ queue'[d][k] = queue[d][k]
      BY <1>1, <2>2
    <3> QED
      BY <3>4, <3>5
  <2> QED
    BY <1>1, <2>2, <2>4 DEF HasOutcome
<1>4. CASE Signals(d)
  <2>1. PICK lost \in {0, 1} : Closing(queue[d], queue'[d], lost) /\ (lost = 1 => d \in missed')
    BY <1>4 DEF Signals
  <2>2. /\ Len(queue'[d]) = Len(queue[d]) + 1
        /\ \A i \in 1..Len(queue[d]) : queue'[d][i] = queue[d][i]
    <3>1. Closing(queue[d], queue'[d], 0)
      BY <2>1
    <3> QED
      BY <1>1, <3>1 DEF Closing
  <2>3. ~Coming(d)
    <3>1. CASE Coming(d)
      BY <1>4, <3>1, ComingStays DEF Signals
    <3> QED
      BY <3>1
  <2>4. PICK i \in 1..Len(queue[d]) : queue[d][i].event \in Terminal
    BY <2>3 DEF HasOutcome
  <2>5. \A j \in 1..Len(queue'[d]) : j \in 1..Len(queue[d]) \/ i < j
    BY <1>1, <2>2
  <2>6. i \in 1..Len(queue'[d]) /\ queue'[d][i].event \in Terminal
    BY <1>1, <2>2, <2>4
  <2>7. Led(queue'[d])
    <3> SUFFICES ASSUME NEW j \in 1..Len(queue'[d]), queue'[d][j].event = "sentinel"
                 PROVE  \E k \in 1..Len(queue'[d]) : k < j /\ queue'[d][k].event \in Terminal
      BY DEF Led
    <3>1. CASE i < j
      BY <2>6, <3>1
    <3>2. CASE j \in 1..Len(queue[d])
      <4>1. PICK k \in 1..Len(queue[d]) : k < j /\ queue[d][k].event \in Terminal
        BY <2>2, <3>2 DEF Led
      <4> QED
        BY <1>1, <2>2, <4>1
    <3> QED
      BY <2>5, <3>1, <3>2
  <2> QED
    BY <2>6, <2>7 DEF HasOutcome
<1>5. CASE ReadEvent(d) /\ queue[d] # <<>> /\ queue'[d] = Tail(queue[d])
  <2>1. queue[d][1].event \notin Terminal
    <3>1. Head(queue[d]) = queue[d][1]
      BY <1>1, <1>5, Dequeued
    <3>2. CASE queue[d][1].event \in Terminal
      <4>1. rpc'[d] = "leave"
        BY <1>5, <3>1, <3>2 DEF ReadEvent, Go, TypeOK, Terminal
      <4> QED
        BY <4>1 DEF Attached
    <3> QED
      BY <3>2
  <2>2. /\ Len(queue'[d]) = Len(queue[d]) - 1
        /\ \A i \in 1..Len(queue[d]) - 1 : queue'[d][i] = queue[d][i + 1]
    BY <1>1, <1>5, Dequeued
  <2>3. \A i \in 1..Len(queue[d]) : queue[d][i].event \in Terminal =>
            i - 1 \in 1..Len(queue'[d]) /\ queue'[d][i - 1].event \in Terminal
    BY <1>1, <2>1, <2>2
  <2>4. Led(queue'[d])
    <3> SUFFICES ASSUME NEW j \in 1..Len(queue'[d]), queue'[d][j].event = "sentinel"
                 PROVE  \E k \in 1..Len(queue'[d]) : k < j /\ queue'[d][k].event \in Terminal
      BY DEF Led
    <3>1. j + 1 \in 1..Len(queue[d]) /\ queue[d][j + 1].event = "sentinel"
      BY <1>1, <2>2
    <3>2. PICK i \in 1..Len(queue[d]) : i < j + 1 /\ queue[d][i].event \in Terminal
      BY <3>1 DEF Led
    <3> QED
      BY <2>3, <3>2
  <2> QED
    BY <2>3, <2>4 DEF HasOutcome
<1>6. ~RemoveSubscriber(d)
  BY DEF RemoveSubscriber, Attached, Go, TypeOK
<1> QED
  BY <1>2, <1>3, <1>4, <1>5, <1>6, QueueSteps

(* Every step keeps the outcome on its way to whoever is owed it.          *)
LEMMA NextOwed ==
    ASSUME TypeOK, PlaceOK, WorkerOK, EventsOK, ReachOK, SentinelOK, DeliveryOK, [Next]_vars,
           NEW d \in Readers, rpc'[d] \in Attached, d \notin missed', ~stopping',
           status'[rturn'[d]] \in Final
    PROVE  (HasOutcome(queue'[d]) \/ Coming(d)') /\ Led(queue'[d])
<1> DEFINE t == rturn[d]
<1>1. rturn'[d] = t /\ t \in Turns /\ d \notin missed /\ ~stopping
  BY AttachedSteps, NextMonotone
<1>2. rpc[d] \in Attached
  <2>1. CASE Subscribe(d) /\ ~Refused(t)
    <3>1. status[t] \in Final
      BY <1>1, <2>1 DEF Subscribe, workers
    <3> QED
      BY <2>1, <3>1 DEF Subscribe
  <2> QED
    BY <2>1, AttachedSteps
<1>3. CASE status[t] \in Final
  <2>1. (HasOutcome(queue[d]) \/ Coming(d)) /\ Led(queue[d])
    BY <1>1, <1>2, <1>3 DEF DeliveryOK, Owed
  <2>2. (HasOutcome(queue[d]) => HasOutcome(queue'[d])) /\ Led(queue'[d])
    BY <1>2, <2>1, LedStays
  <2>3. CASE Coming(d)
    <3>1. CASE Put(Worker(t), d) /\ queue' = [queue EXCEPT ![d] = Append(@, pub[Worker(t)].event)]
      <4>1. queue[d] \in Seq(Events) /\ pub[Worker(t)].event \in Events
        BY <1>1, WhoPublishes DEF TypeOK
      <4>2. queue'[d] = Append(queue[d], pub[Worker(t)].event)
        BY <3>1 DEF TypeOK
      <4>3. /\ Len(queue[d]) + 1 \in 1..Len(queue'[d])
            /\ queue'[d][Len(queue[d]) + 1] = pub[Worker(t)].event
        BY <4>1, <4>2, Enqueued
      <4>4. HasOutcome(queue'[d])
        BY <2>3, <4>3 DEF Coming, HasOutcome
      <4> QED
        BY <2>2, <4>4
    <3>2. CASE ~(Put(Worker(t), d) /\ queue' = [queue EXCEPT ![d] = Append(@, pub[Worker(t)].event)])
      <4>1. Coming(d)'
        BY <1>1, <1>2, <2>3, <3>2, ComingStays DEF Coming
      <4> QED
        BY <2>2, <4>1
    <3> QED
      BY <3>1, <3>2
  <2> QED
    BY <2>1, <2>2, <2>3
<1>4. CASE status[t] \notin Final
  <2>1. /\ wpc[t] \in {"start", "agent"} /\ pub'[Worker(t)].event.event \in Terminal
        /\ pub'[Worker(t)].step = "seq" /\ UNCHANGED <<subs, queue>>
    BY <1>1, <1>4, FinalSteps DEF bus
  <2>2. ASSUME NEW i \in 1..Len(queue[d]) PROVE queue[d][i].event \notin Enders
    <3>1. Right(queue[d][i], status[t])
      BY DEF EventsOK
    <3>2. queue[d][i].event # "sentinel"
      BY <1>1, <2>1 DEF SentinelOK
    <3> QED
      BY <1>4, <3>1, <3>2 DEF Right, Final, Enders
  <2>3. toSignal[t] = {} /\ toSignalAll = {}
    BY <1>1, <2>1 DEF WorkerOK
  <2>4. d \in subs[t]
    BY <1>2, <2>2, <2>3 DEF ReachOK, NoForgottenReader, Attached, Enders
  <2>5. Coming(d)'
    BY <1>1, <2>1, <2>4 DEF Coming
  <2>6. Led(queue'[d])
    BY <2>1, <2>2 DEF Led, Enders
  <2> QED
    BY <2>5, <2>6
<1> QED
  BY <1>3, <1>4

(* Every step keeps the reason of a stream that is not told the outcome.   *)
LEMMA NextSilent ==
    ASSUME TypeOK, PlaceOK, WorkerOK, EventsOK, SentinelOK, DeliveryOK, [Next]_vars,
           NEW d \in Readers
    PROVE  /\ rpc'[d] = "refused" => d \in missed'
           /\ rpc'[d] \in {"leave", "ended"} =>
                 \/ seen'[d].event \in Terminal \/ d \in missed' \/ stopping'
                 \/ wpc'[rturn'[d]] \in {"signal", "done"} /\ status'[rturn'[d]] \notin Final
<1> USE DEF workers, readers
<1> DEFINE t == rturn[d]
<1>1. missed \subseteq missed' /\ (stopping => stopping')
  BY NextMonotone
<1>2. rpc'[d] = "refused" => d \in missed'
  <2>1. CASE rpc'[d] = rpc[d]
    BY <1>1, <2>1 DEF DeliveryOK
  <2>2. CASE Subscribe(d)
    BY <2>2 DEF Subscribe, Go, TypeOK
  <2>3. ASSUME \/ SendStatus(d) \/ ReadEvent(d) \/ RemoveSubscriber(d) \/ Disconnect(d)
               \/ \E u \in Turns : ReadRow(d, u)
        PROVE  rpc'[d] # "refused"
    BY <2>3 DEF SendStatus, ReadEvent, RemoveSubscriber, Disconnect, ReadRow, Go, TypeOK
  <2> QED
    BY <2>1, <2>2, <2>3, HandlerSteps
<1>3. ASSUME rpc[d] \in {"leave", "ended"}
      PROVE  \/ seen'[d].event \in Terminal \/ d \in missed' \/ stopping'
             \/ wpc'[rturn'[d]] \in {"signal", "done"} /\ status'[rturn'[d]] \notin Final
  <2>1. ~ReadEvent(d) /\ (\A u \in Turns : ~ReadRow(d, u)) /\ t \in Turns
    BY <1>3 DEF ReadEvent, ReadRow, PlaceOK
  <2>2. seen'[d] = seen[d] /\ rturn'[d] = t
    BY <2>1, SeenSteps
  <2>3. \/ seen[d].event \in Terminal \/ d \in missed \/ stopping
        \/ wpc[t] \in {"signal", "done"} /\ status[t] \notin Final
    BY <1>3 DEF DeliveryOK, TerminalSeen, Terminal
  <2> QED
    BY <1>1, <2>1, <2>2, <2>3, NextMonotone
<1>4. ASSUME ReadEvent(d), rpc'[d] = "leave"
      PROVE  \/ seen'[d].event \in Terminal \/ d \in missed' \/ stopping'
             \/ wpc'[rturn'[d]] \in {"signal", "done"} /\ status'[rturn'[d]] \notin Final
  <2>1. /\ rpc[d] = "read" /\ queue[d] # <<>> /\ UNCHANGED <<workers, stopping, missed, rturn>>
        /\ t \in Turns
    BY <1>4 DEF ReadEvent, PlaceOK
  <2>2. queue[d] \in Seq(Events)
    BY DEF TypeOK
  <2>3. Head(queue[d]) = queue[d][1] /\ 1 \in 1..Len(queue[d]) /\ Len(queue[d]) \in Nat
    BY <2>1, <2>2, Dequeued
  <2>4. Head(queue[d]).event \in Enders
    BY <1>4, <2>1 DEF ReadEvent, Go, TypeOK, Enders
  <2>5. CASE Head(queue[d]).event \in Terminal
    <3>1. seen'[d] = Head(queue[d])
      BY <1>4, <2>5 DEF ReadEvent, TypeOK, Terminal
    <3> QED
      BY <2>5, <3>1
  <2>6. CASE Head(queue[d]).event = "sentinel"
    <3>1. ~Led(queue[d])
      BY <2>3, <2>6 DEF Led
    <3>2. ~Owed(d)
      BY <2>1, <3>1 DEF DeliveryOK, Attached
    <3>3. stopping \/ wpc[t] \in {"signal", "done"}
      BY <2>3, <2>6 DEF SentinelOK
    <3> QED
      BY <2>1, <3>2, <3>3 DEF Owed
  <2> QED
    BY <2>4, <2>5, <2>6 DEF Enders, Terminal
<1>5. ASSUME NEW u \in Turns, ReadRow(d, u), rpc'[d] = "ended"
      PROVE  seen'[d].event \in Terminal
  <2>1. status[u] \in Final
    BY <1>5 DEF ReadRow, Go, TypeOK
  <2>2. seen'[d] = Event(IF status[u] = "completed" THEN "done" ELSE "error", 0)
    BY <1>5, <2>1 DEF ReadRow, TypeOK
  <2> QED
    BY <2>2 DEF Event, Terminal
<1>6. rpc'[d] \in {"leave", "ended"} =>
         \/ seen'[d].event \in Terminal \/ d \in missed' \/ stopping'
         \/ wpc'[rturn'[d]] \in {"signal", "done"} /\ status'[rturn'[d]] \notin Final
  <2>1. CASE rpc'[d] = rpc[d]
    BY <1>3, <2>1
  <2>2. CASE Subscribe(d) \/ Disconnect(d)
    BY <2>2 DEF Subscribe, Disconnect, Go, TypeOK
  <2>3. CASE ReadEvent(d)
    <3>1. rpc'[d] = rpc[d] \/ rpc'[d] = "leave"
      BY <2>3 DEF ReadEvent, Go, TypeOK
    <3> QED
      BY <1>4, <2>1, <2>3, <3>1
  <2>4. CASE SendStatus(d)
    <3>1. rpc'[d] = "ended" => rpc[d] = "refused"
      BY <2>4 DEF SendStatus, Go, TypeOK
    <3>2. rpc'[d] # "leave"
      BY <2>4 DEF SendStatus, Go, TypeOK
    <3> QED
      BY <1>1, <3>1, <3>2 DEF DeliveryOK
  <2>5. CASE RemoveSubscriber(d)
    <3>1. rpc'[d] \in {"leave", "ended"} => rpc[d] = "leave"
      BY <2>5 DEF RemoveSubscriber, Go, TypeOK
    <3> QED
      BY <1>3, <3>1
  <2>6. ASSUME NEW u \in Turns, ReadRow(d, u), rpc'[d] \in {"leave", "ended"}
        PROVE  seen'[d].event \in Terminal
    <3>1. rpc'[d] = "ended"
      BY <2>6 DEF ReadRow, Go, TypeOK
    <3> QED
      BY <1>5, <2>6, <3>1
  <2> QED
    BY <2>1, <2>2, <2>3, <2>4, <2>5, <2>6, HandlerSteps
<1> QED
  BY <1>2, <1>6

(* Every step keeps the deliveries. *)
LEMMA NextDelivery ==
    ASSUME TypeOK, PlaceOK, WorkerOK, EventsOK, ReachOK, SentinelOK, DeliveryOK, [Next]_vars
    PROVE  DeliveryOK'
<1>1. \A d \in Readers : rpc'[d] \in Attached /\ Owed(d)' =>
          (HasOutcome(queue'[d]) \/ Coming(d)') /\ Led(queue'[d])
  BY NextOwed DEF Owed
<1> QED
  BY <1>1, NextSilent DEF DeliveryOK, TerminalSeen, Terminal

-----------------------------------------------------------------------------
(* Numbers are in order *)

(* A queue that got an item that is not the worker's or has a new number.  *)
LEMMA AppendOrder ==
    ASSUME NEW q \in Seq(Events), NEW e \in Events, NEW s \in Nat, Numbered(q, s),
           e.event \notin Worked \/ Under(q, s, e.seq)
    PROVE  /\ Numbered(Append(q, e), s)
           /\ \A n \in Nat : Under(q, s, n) /\ (e.event \notin Worked \/ e.seq < n)
                                 => Under(Append(q, e), s, n)
<1>1. PICK r \in Seq(Events) : r = Append(q, e)
  BY Enqueued
<1>2. /\ Len(q) \in Nat /\ Len(r) = Len(q) + 1 /\ \A i \in 1..Len(q) : r[i] = q[i]
      /\ r[Len(q) + 1] = e
  BY <1>1, Enqueued
<1>3. \A i \in 1..Len(r) : i \in 1..Len(q) \/ i = Len(q) + 1
  BY <1>2
<1>4. Numbered(r, s)
  <2>1. ASSUME NEW i \in 1..Len(r), NEW j \in 1..Len(r), i < j, r[i].event \in Worked,
               r[j].event \in Worked
        PROVE  r[i].seq < r[j].seq
    <3>1. i \in 1..Len(q)
      BY <1>2, <2>1
    <3>2. CASE j \in 1..Len(q)
      BY <1>2, <2>1, <3>1, <3>2 DEF Numbered
    <3>3. CASE j = Len(q) + 1
      BY <1>2, <2>1, <3>1, <3>3 DEF Under
    <3> QED
      BY <1>3, <3>2, <3>3
  <2>2. ASSUME NEW i \in 1..Len(r), r[i].event \in Worked PROVE s < r[i].seq
    <3>1. CASE i \in 1..Len(q)
      BY <1>2, <2>2, <3>1 DEF Numbered
    <3>2. CASE i = Len(q) + 1
      BY <1>2, <2>2, <3>2 DEF Under
    <3> QED
      BY <1>3, <3>1, <3>2
  <2> QED
    BY <2>1, <2>2 DEF Numbered
<1>5. ASSUME NEW n \in Nat, Under(q, s, n), e.event \notin Worked \/ e.seq < n
      PROVE  Under(r, s, n)
  BY <1>2, <1>3, <1>5 DEF Under
<1> QED
  BY <1>1, <1>4, <1>5

(* A queue whose first item was read or dropped. *)
LEMMA TailOrder ==
    ASSUME NEW q \in Seq(Events), q # <<>>, NEW s \in Nat, Numbered(q, s)
    PROVE  /\ Numbered(Tail(q), s) /\ \A n \in Nat : Under(q, s, n) => Under(Tail(q), s, n)
           /\ Head(q).event \in Worked =>
                 /\ s < Head(q).seq /\ Numbered(Tail(q), Head(q).seq)
                 /\ \A n \in Nat : Under(q, s, n) => Under(Tail(q), Head(q).seq, n)
<1>1. PICK r \in Seq(Events) : r = Tail(q)
  BY Dequeued
<1>2. /\ Len(q) \in Nat /\ Len(q) > 0 /\ Len(r) = Len(q) - 1 /\ Head(q) = q[1]
      /\ \A i \in 1..Len(q) - 1 : r[i] = q[i + 1]
  BY <1>1, Dequeued
<1>3. \A i \in 1..Len(r) : i + 1 \in 1..Len(q) /\ r[i] = q[i + 1] /\ 1 < i + 1
  BY <1>2
<1>4. \A i, j \in 1..Len(r) :
          i < j /\ r[i].event \in Worked /\ r[j].event \in Worked => r[i].seq < r[j].seq
  <2> SUFFICES ASSUME NEW i \in 1..Len(r), NEW j \in 1..Len(r), i < j,
                      r[i].event \in Worked, r[j].event \in Worked
               PROVE  r[i].seq < r[j].seq
    OBVIOUS
  <2>1. i + 1 < j + 1
    BY <1>2
  <2> QED
    BY <1>3, <2>1 DEF Numbered
<1>5. Numbered(r, s) /\ \A n \in Nat : Under(q, s, n) => Under(r, s, n)
  BY <1>3, <1>4 DEF Numbered, Under
<1>6. ASSUME Head(q).event \in Worked
      PROVE  /\ s < Head(q).seq /\ Numbered(r, Head(q).seq)
             /\ \A n \in Nat : Under(q, s, n) => Under(r, Head(q).seq, n)
  <2>1. 1 \in 1..Len(q) /\ q[1].event \in Worked
    BY <1>2, <1>6
  <2>2. s < q[1].seq /\ \A n \in Nat : Under(q, s, n) => q[1].seq < n
    BY <2>1 DEF Numbered, Under
  <2>3. \A i \in 1..Len(r) : r[i].event \in Worked => q[1].seq < r[i].seq
    BY <1>3, <2>1 DEF Numbered
  <2> QED
    BY <1>2, <1>4, <1>5, <2>2, <2>3 DEF Numbered, Under
<1> QED
  BY <1>1, <1>5, <1>6

(* A queue that got the sentinel. *)
LEMMA ClosingOrder ==
    ASSUME NEW q \in Seq(Events), NEW r, NEW lost, Closing(q, r, lost), NEW s \in Nat, Numbered(q, s)
    PROVE  /\ Numbered(r, s) /\ \A n \in Nat : Under(q, s, n) => Under(r, s, n)
<1>1. Len(q) \in Nat /\ lost \in {0, 1} /\ Len(r) = Len(q) + 1 - lost
  BY DEF Closing
<1>2. \A i \in 1..Len(r) : r[i].event \in Worked =>
          i + lost \in 1..Len(q) /\ r[i] = q[i + lost]
  <2> SUFFICES ASSUME NEW i \in 1..Len(r), r[i].event \in Worked
               PROVE  i + lost \in 1..Len(q) /\ r[i] = q[i + lost]
    OBVIOUS
  <2>1. i # Len(r)
    BY DEF Closing, Sentinel, Event, Worked
  <2> QED
    BY <1>1, <2>1 DEF Closing
<1>3. \A i, j \in 1..Len(r) :
          i < j /\ r[i].event \in Worked /\ r[j].event \in Worked => r[i].seq < r[j].seq
  <2> SUFFICES ASSUME NEW i \in 1..Len(r), NEW j \in 1..Len(r), i < j,
                      r[i].event \in Worked, r[j].event \in Worked
               PROVE  r[i].seq < r[j].seq
    OBVIOUS
  <2>1. i + lost < j + lost
    BY <1>1
  <2> QED
    BY <1>2, <2>1 DEF Numbered
<1> QED
  BY <1>2, <1>3 DEF Numbered, Under

(* How the numbers that d has or is to get change: a step of anybody else  *)
(* leaves them in order, the worker adds one, or d asks for a turn.        *)
LEMMA NumberSteps ==
    ASSUME TypeOK, PlaceOK, WorkerOK, EventsOK, NumbersOK, [Next]_vars, NEW d \in Readers
    PROVE  /\ Numbered(queue'[d], seen'[d].seq)
           /\ \/ /\ rturn'[d] = rturn[d]
                 /\ \A n \in Nat : Under(queue[d], seen[d].seq, n) =>
                                       Under(queue'[d], seen'[d].seq, n)
              \/ /\ rturn'[d] = rturn[d] /\ rturn[d] \in Turns /\ Put(Worker(rturn[d]), d)
                 /\ \A n \in Nat : /\ Under(queue[d], seen[d].seq, n)
                                   /\ pub[Worker(rturn[d])].event.seq < n
                                  => Under(queue'[d], seen'[d].seq, n)
              \/ /\ rpc[d] = "new"
                 /\ \A n \in Nat : n > 0 => Under(queue'[d], seen'[d].seq, n)
<1> USE DEF readers
<1>1. queue[d] \in Seq(Events) /\ seen[d] \in Events /\ Numbered(queue[d], seen[d].seq)
  BY DEF TypeOK, NumbersOK
<1>2. seen[d].seq \in Nat
  BY <1>1 DEF Events
<1>3. CASE ReadEvent(d)
  <2>1. queue[d] # <<>> /\ queue'[d] = Tail(queue[d]) /\ rturn' = rturn
    BY <1>3 DEF ReadEvent, TypeOK
  <2>2. \/ seen'[d] = seen[d]
        \/ seen'[d] = Head(queue[d]) /\ Head(queue[d]).event \notin {"sentinel", "queued"}
    BY <1>3 DEF ReadEvent, TypeOK
  <2>3. Head(queue[d]).event \in Worked \cup {"queued", "sentinel"}
    <3>1. Head(queue[d]) = queue[d][1] /\ 1 \in 1..Len(queue[d])
      BY <1>1, <2>1, Dequeued
    <3> QED
      BY <3>1 DEF EventsOK
  <2> QED
    BY <1>1, <1>2, <2>1, <2>2, <2>3, TailOrder
<1>4. ASSUME NEW t \in Turns, ReadRow(d, t)
      PROVE  /\ rpc[d] = "new" /\ Numbered(queue'[d], seen'[d].seq)
             /\ \A n \in Nat : n > 0 => Under(queue'[d], seen'[d].seq, n)
  <2>1. rpc[d] = "new" /\ queue[d] = <<>> /\ queue' = queue /\ seen[d] = NoEvent
    BY <1>4 DEF ReadRow, PlaceOK, Unplaced
  <2>2. seen'[d].seq = 0
    <3>1. \/ seen' = seen
          \/ seen' = [seen EXCEPT ![d] = Event(IF status[t] = "completed" THEN "done" ELSE "error", 0)]
      BY <1>4 DEF ReadRow
    <3> QED
      BY <2>1, <3>1, PublisherValues DEF TypeOK, Event
  <2> QED
    BY <2>1, <2>2 DEF Numbered, Under
<1>5. ASSUME seen'[d] = seen[d], rturn'[d] = rturn[d], NEW p \in Publishers, Put(p, d),
             queue'[d] = Append(queue[d], pub[p].event)
      PROVE  /\ Numbered(queue'[d], seen'[d].seq)
             /\ \/ \A n \in Nat : Under(queue[d], seen[d].seq, n) =>
                                      Under(queue'[d], seen'[d].seq, n)
                \/ /\ p = Worker(rturn[d]) /\ rturn[d] \in Turns
                   /\ \A n \in Nat : Under(queue[d], seen[d].seq, n) /\ pub[p].event.seq < n
                                         => Under(queue'[d], seen'[d].seq, n)
  <2>1. /\ pub[p].event \in Events /\ d \in pub[p].to /\ pub[p].step = "put"
        /\ rturn[d] = p[2] /\ rturn[d] \in Turns
    BY <1>5, WhoPublishes DEF TypeOK, Put, PlaceOK
  <2>2. pub[p] # Idle
    BY <2>1, PublisherValues
  <2>3. CASE p = Submitter(rturn[d])
    <3>1. pub[p].event.event \notin Worked
      BY <2>1, <2>2, <2>3 DEF WorkerOK, Worked
    <3> QED
      BY <1>1, <1>2, <1>5, <2>1, <3>1, AppendOrder
  <2>4. CASE p = Worker(rturn[d])
    <3>1. Under(queue[d], seen[d].seq, pub[p].event.seq)
      BY <2>1, <2>2, <2>4 DEF WorkerOK, NumbersOK
    <3> QED
      BY <1>1, <1>2, <1>5, <2>1, <2>4, <3>1, AppendOrder
  <2> QED
    BY <2>1, <2>3, <2>4, WhoPublishes
<1>6. ASSUME seen'[d] = seen[d], Signals(d)
      PROVE  /\ Numbered(queue'[d], seen'[d].seq)
             /\ \A n \in Nat : Under(queue[d], seen[d].seq, n) => Under(queue'[d], seen'[d].seq, n)
  <2>1. PICK lost \in {0, 1} : Closing(queue[d], queue'[d], lost)
    BY <1>6 DEF Signals
  <2> QED
    BY <1>1, <1>2, <1>6, <2>1, ClosingOrder
<1>7. ASSUME seen'[d] = seen[d], queue'[d] = <<>>
      PROVE  /\ Numbered(queue'[d], seen'[d].seq)
             /\ \A n \in Nat : Under(queue[d], seen[d].seq, n) => Under(queue'[d], seen'[d].seq, n)
  BY <1>7 DEF Numbered, Under
<1>8. CASE ~ReadEvent(d) /\ \A t \in Turns : ~ReadRow(d, t)
  <2>1. seen'[d] = seen[d] /\ rturn'[d] = rturn[d]
    BY <1>8, SeenSteps
  <2>2. CASE queue'[d] = queue[d]
    BY <1>1, <2>1, <2>2
  <2> QED
    BY <1>5, <1>6, <1>7, <1>8, <2>1, <2>2, QueueSteps
<1> QED
  BY <1>3, <1>4, <1>8

(* What a step does to the counter of a turn that is not done and to the   *)
(* event that its worker publishes.                                        *)
LEMMA CounterSteps ==
    ASSUME TypeOK, PlaceOK, WorkerOK, [Next]_vars, NEW t \in Turns, wpc'[t] # "done"
    PROVE  /\ wpc[t] # "done" /\ eventSeq'[t] \in {eventSeq[t], eventSeq[t] + 1}
           /\ \/ pub'[Worker(t)] = pub[Worker(t)]
              \/ pub'[Worker(t)] = Idle
              \/ \E n : pub'[Worker(t)] = Emits(n)
              \/ /\ pub'[Worker(t)].step = "copy" /\ pub'[Worker(t)].to = {}
                 /\ pub'[Worker(t)].event.seq = eventSeq[t] + 1
                 /\ eventSeq'[t] = eventSeq[t] + 1 /\ UNCHANGED <<queue, readers>>
              \/ /\ pub[Worker(t)].step = "copy" /\ pub'[Worker(t)].step = "put"
                 /\ pub'[Worker(t)].event = pub[Worker(t)].event
                 /\ pub'[Worker(t)].to = subs[t]
              \/ /\ pub[Worker(t)].step = "put" /\ pub'[Worker(t)].step = "put"
                 /\ pub'[Worker(t)].event = pub[Worker(t)].event
                 /\ pub'[Worker(t)].to \subseteq pub[Worker(t)].to
                 /\ \A c \in pub'[Worker(t)].to : ~Put(Worker(t), c)
<1> USE DEF bus, workers, readers
<1> DEFINE w == Worker(t)
<1>1. w \in Publishers /\ w[2] = t
  BY WhoPublishes
<1>2. wpc[t] # "done"
  <2>1. ASSUME NEW u \in Turns, SubmitTurn(u) \/ WorkerStep(u) PROVE wpc[t] # "done"
    <3>1. CASE u = t
      BY <2>1, <3>1 DEF SubmitTurn, WorkerStep, SetTurnRunning, Chunk, FinishTurnSuccess,
         FinishTurnFailure, FinishRaises, Close, SignalOne, ClearTurnSeq, Ready
    <3>2. CASE u # t
      <4>1. wpc' = wpc \/ \E pc : wpc' = [wpc EXCEPT ![u] = pc]
        BY <2>1 DEF SubmitTurn, WorkerStep, SetTurnRunning, Chunk, FinishTurnSuccess,
           FinishTurnFailure, FinishRaises, Close, SignalOne, ClearTurnSeq, Announce
      <4> QED
        BY <3>2, <4>1 DEF TypeOK
    <3> QED
      BY <3>1, <3>2
  <2>2. ASSUME \/ UNCHANGED vars \/ CloseAll \/ SignalAll
               \/ \E o \in OtherTurns : CloseOther(o)
               \/ \E p \in Publishers : Publish(p)
               \/ \E c \in Readers : ReaderStep(c) \/ Disconnect(c) \/ \E u \in Turns : ReadRow(c, u)
        PROVE  wpc' = wpc
    BY <2>2 DEF CloseAll, SignalAll, CloseOther, Publish, Number, CopySubscribers, Put, ReaderStep,
       Subscribe, SendStatus, ReadEvent, RemoveSubscriber, Disconnect, ReadRow, vars
  <2> QED
    BY <2>1, <2>2 DEF Next
<1>3. ASSUME NEW u \in Turns, SubmitTurn(u) \/ WorkerStep(u)
      PROVE  /\ eventSeq'[t] = eventSeq[t]
             /\ pub'[w] = pub[w] \/ \E n : pub'[w] = Emits(n)
  <2>1. eventSeq' = eventSeq \/ (u # t /\ eventSeq' = [eventSeq EXCEPT ![u] = 0])
    <3>1. CASE ClearTurnSeq(u)
      BY <3>1 DEF ClearTurnSeq, TypeOK
    <3> QED
      BY <1>3, <3>1 DEF SubmitTurn, WorkerStep, SetTurnRunning, Chunk, FinishTurnSuccess,
         FinishTurnFailure, FinishRaises, Close, SignalOne, Announce
  <2>2. pub' = pub \/ \E n, q : q \in Publishers /\ pub' = [pub EXCEPT ![q] = Emits(n)]
    BY <1>3, WhoPublishes DEF SubmitTurn, WorkerStep, SetTurnRunning, Chunk, FinishTurnSuccess,
       FinishTurnFailure, FinishRaises, Close, SignalOne, ClearTurnSeq, Announce
  <2>3. eventSeq'[t] = eventSeq[t]
    BY <2>1 DEF TypeOK
  <2> QED
    BY <1>1, <2>2, <2>3, OnePublishes
<1>4. ASSUME NEW p \in Publishers, Number(p)
      PROVE  /\ eventSeq'[t] \in {eventSeq[t], eventSeq[t] + 1}
             /\ \/ pub'[w] = pub[w]
                \/ /\ pub'[w].step = "copy" /\ pub'[w].to = {}
                   /\ pub'[w].event.seq = eventSeq[t] + 1
                   /\ eventSeq'[t] = eventSeq[t] + 1 /\ UNCHANGED <<queue, readers>>
  <2>1. eventSeq' = [eventSeq EXCEPT ![p[2]] = eventSeq[p[2]] + 1] /\ UNCHANGED <<queue, readers>>
    BY <1>4 DEF Number, NextSeq
  <2>2. eventSeq'[t] = IF p[2] = t THEN eventSeq[t] + 1 ELSE eventSeq[t]
    BY <2>1 DEF TypeOK
  <2>3. CASE p # w
    BY <1>1, <1>4, <2>2, <2>3, PublishSteps
  <2>4. CASE p = w
    <3>1. /\ pub[w].step = "seq" /\ pub'[w].step = "copy" /\ pub'[w].to = pub[w].to
          /\ pub'[w].event.seq = NextSeq(t)
      BY <1>1, <1>4, <2>4, PublishSteps
    <3>2. pub[w].to = {}
      BY <1>1, <3>1 DEF WorkerOK
    <3> QED
      BY <1>1, <2>1, <2>2, <2>4, <3>1, <3>2 DEF NextSeq
  <2> QED
    BY <2>3, <2>4
<1>5. ASSUME NEW p \in Publishers, CopySubscribers(p)
      PROVE  /\ eventSeq'[t] = eventSeq[t]
             /\ \/ pub'[w] = pub[w] \/ pub'[w] = Idle
                \/ /\ pub[w].step = "copy" /\ pub'[w].step = "put" /\ pub'[w].event = pub[w].event
                   /\ pub'[w].to = subs[t]
  <2>1. eventSeq' = eventSeq
    BY <1>5 DEF CopySubscribers
  <2>2. CASE p # w
    BY <1>1, <1>5, <2>1, <2>2, PublishSteps
  <2>3. CASE p = w
    BY <1>1, <1>5, <2>1, <2>3, PublishSteps
  <2> QED
    BY <2>2, <2>3
<1>6. ASSUME NEW p \in Publishers, NEW c \in Readers, Put(p, c)
      PROVE  /\ eventSeq'[t] = eventSeq[t]
             /\ \/ pub'[w] = pub[w] \/ pub'[w] = Idle
                \/ /\ pub[w].step = "put" /\ pub'[w].step = "put" /\ pub'[w].event = pub[w].event
                   /\ pub'[w].to \subseteq pub[w].to
                   /\ \A d \in pub'[w].to : ~Put(w, d)
  <2>1. eventSeq' = eventSeq
    BY <1>6 DEF Put
  <2>2. CASE p # w
    BY <1>1, <1>6, <2>1, <2>2, PublishSteps
  <2>3. CASE p = w
    <3>1. /\ pub[w].step = "put"
          /\ \/ pub'[w] = Idle
             \/ /\ pub'[w].step = "put" /\ pub'[w].to = pub[w].to \ {c}
                /\ pub'[w].event = pub[w].event
      BY <1>1, <1>6, <2>3, PublishSteps
    <3>2. pub[w].to \subseteq Readers
      BY <1>1 DEF TypeOK
    <3>3. ASSUME NEW d \in pub'[w].to, pub'[w] # Idle PROVE ~Put(w, d)
      <4>1. pub'[w].to = pub[w].to \ {c} /\ d \in Readers
        BY <3>1, <3>2, <3>3
      <4>2. Put(w, d) => pub'[w].to = pub[w].to \ {d}
        BY <1>1, <3>3, <4>1, PublishSteps
      <4> QED
        BY <3>3, <4>1, <4>2
    <3> QED
      BY <2>1, <3>1, <3>3
  <2> QED
    BY <2>2, <2>3
<1>7. ASSUME \/ UNCHANGED vars \/ CloseAll \/ SignalAll
             \/ \E o \in OtherTurns : CloseOther(o)
             \/ \E c \in Readers : ReaderStep(c) \/ Disconnect(c) \/ \E u \in Turns : ReadRow(c, u)
      PROVE  UNCHANGED <<eventSeq, pub>>
  BY <1>7 DEF CloseAll, SignalAll, CloseOther, ReaderStep, Subscribe, SendStatus, ReadEvent,
     RemoveSubscriber, Disconnect, ReadRow, vars
<1> QED
  BY <1>2, <1>3, <1>4, <1>5, <1>6, <1>7 DEF Next, Publish

(* Every step keeps the numbers in order. *)
LEMMA NextNumbers ==
    ASSUME TypeOK, PlaceOK, WorkerOK, EventsOK, NumbersOK, [Next]_vars
    PROVE  NumbersOK'
<1>1. \A c \in Readers : Numbered(queue'[c], seen'[c].seq)
  BY NumberSteps
<1>2. ASSUME NEW t \in Turns, wpc'[t] # "done"
      PROVE  /\ \A c \in Readers : rturn'[c] = t =>
                     Under(queue'[c], seen'[c].seq, eventSeq'[t] + 1)
             /\ pub'[Worker(t)].event.seq <= eventSeq'[t]
             /\ pub'[Worker(t)].step = "copy" =>
                  /\ pub'[Worker(t)].event.seq > 0
                  /\ \A c \in Readers : rturn'[c] = t =>
                         Under(queue'[c], seen'[c].seq, pub'[Worker(t)].event.seq)
             /\ \A c \in pub'[Worker(t)].to :
                    Under(queue'[c], seen'[c].seq, pub'[Worker(t)].event.seq)
  <2> DEFINE w == Worker(t)
  <2>1. /\ wpc[t] # "done" /\ eventSeq'[t] \in {eventSeq[t], eventSeq[t] + 1}
        /\ eventSeq[t] \in Nat
    BY <1>2, CounterSteps DEF TypeOK
  <2>2. /\ \A c \in Readers : rturn[c] = t => Under(queue[c], seen[c].seq, eventSeq[t] + 1)
        /\ pub[w].event.seq <= eventSeq[t]
        /\ pub[w].step = "copy" =>
             /\ pub[w].event.seq > 0
             /\ \A c \in Readers : rturn[c] = t => Under(queue[c], seen[c].seq, pub[w].event.seq)
        /\ \A c \in pub[w].to : Under(queue[c], seen[c].seq, pub[w].event.seq)
    BY <2>1 DEF NumbersOK
  <2>3. /\ pub[w].event.seq \in Nat /\ pub[w].to \subseteq Readers
        /\ pub'[w].to \subseteq Readers
    <3>1. TypeOK' /\ w \in Publishers
      BY NextType, WhoPublishes
    <3> QED
      BY <3>1 DEF TypeOK, Events
  <2>4. \A c \in Readers : seen'[c].seq \in Nat /\ queue'[c] \in Seq(Events)
    BY NextType DEF TypeOK, Events
  <2>5. ASSUME NEW c \in Readers, rturn'[c] = t
        PROVE  Under(queue'[c], seen'[c].seq, eventSeq'[t] + 1)
    <3>1. Under(queue'[c], seen'[c].seq, eventSeq[t] + 1)
      <4>1. CASE /\ rturn'[c] = rturn[c]
                 /\ \A n \in Nat : Under(queue[c], seen[c].seq, n) =>
                                       Under(queue'[c], seen'[c].seq, n)
        BY <2>1, <2>2, <2>5, <4>1
      <4>2. CASE /\ rturn'[c] = rturn[c]
                 /\ \A n \in Nat : /\ Under(queue[c], seen[c].seq, n)
                                   /\ pub[Worker(rturn[c])].event.seq < n
                                  => Under(queue'[c], seen'[c].seq, n)
        BY <2>1, <2>2, <2>3, <2>5, <4>2
      <4>3. CASE \A n \in Nat : n > 0 => Under(queue'[c], seen'[c].seq, n)
        BY <2>1, <4>3
      <4> QED
        BY <4>1, <4>2, <4>3, NumberSteps
    <3>2. \A i \in 1..Len(queue'[c]) : queue'[c][i].seq \in Nat
      <4>1. \A i \in 1..Len(queue'[c]) : queue'[c][i] \in Events
        BY <2>4
      <4> QED
        BY <4>1 DEF Events
    <3> QED
      BY <2>1, <2>4, <3>1, <3>2 DEF Under
  <2>6. pub'[w].event.seq <= eventSeq'[t]
    BY <1>2, <2>1, <2>2, <2>3, CounterSteps, PublisherValues
  <2>7. ASSUME pub'[w].step = "copy"
        PROVE  /\ pub'[w].event.seq > 0
               /\ \A c \in Readers : rturn'[c] = t =>
                      Under(queue'[c], seen'[c].seq, pub'[w].event.seq)
    <3>1. CASE pub'[w] = pub[w]
      <4>1. pub[w].event.seq > 0
        BY <2>2, <2>7, <3>1
      <4>2. \A c \in Readers : ~Put(w, c)
        BY <2>7, <3>1 DEF Put
      <4>3. ASSUME NEW c \in Readers, rturn'[c] = t
            PROVE  Under(queue'[c], seen'[c].seq, pub[w].event.seq)
        <5>1. CASE /\ rturn'[c] = rturn[c]
                   /\ \A n \in Nat : Under(queue[c], seen[c].seq, n) =>
                                         Under(queue'[c], seen'[c].seq, n)
          BY <2>2, <2>3, <2>7, <3>1, <4>3, <5>1
        <5>2. CASE \A n \in Nat : n > 0 => Under(queue'[c], seen'[c].seq, n)
          BY <2>3, <4>1, <5>2
        <5> QED
          BY <4>2, <4>3, <5>1, <5>2, NumberSteps
      <4> QED
        BY <3>1, <4>1, <4>3
    <3>2. CASE pub'[w].event.seq = eventSeq[t] + 1 /\ UNCHANGED <<queue, readers>>
      BY <2>1, <2>2, <3>2 DEF readers
    <3> QED
      BY <1>2, <2>7, <3>1, <3>2, CounterSteps, PublisherValues
  <2>8. ASSUME NEW c \in pub'[w].to
        PROVE  Under(queue'[c], seen'[c].seq, pub'[w].event.seq)
    <3>1. /\ pub'[w].event.seq = pub[w].event.seq /\ ~Put(w, c)
          /\ c \in Readers /\ rturn[c] = t /\ rpc[c] # "new"
          /\ Under(queue[c], seen[c].seq, pub[w].event.seq)
      <4>1. CASE pub'[w] = pub[w]
        <5>1. c \in pub[w].to /\ c \in Readers /\ w \in Publishers /\ w[2] = t
          BY <2>3, <2>8, <4>1, WhoPublishes
        <5>2. rturn[c] = t /\ rpc[c] # "new"
          BY <5>1 DEF PlaceOK, Unplaced
        <5>3. Put(w, c) => pub'[w] # pub[w]
          BY <5>1, PublisherValues, PublishSteps
        <5> QED
          BY <2>2, <4>1, <5>1, <5>2, <5>3
      <4>2. CASE /\ pub[w].step = "copy" /\ pub'[w].event = pub[w].event /\ pub'[w].to = subs[t]
        <5>1. c \in Readers /\ c \in subs[t]
          BY <2>3, <2>8, <4>2
        <5>2. rturn[c] = t /\ rpc[c] # "new"
          BY <5>1 DEF PlaceOK, Unplaced
        <5> QED
          BY <2>2, <4>2, <5>1, <5>2 DEF Put
      <4>3. CASE /\ pub'[w].event = pub[w].event /\ pub'[w].to \subseteq pub[w].to
                 /\ \A d \in pub'[w].to : ~Put(w, d)
        <5>1. c \in pub[w].to /\ c \in Readers /\ w \in Publishers /\ w[2] = t
          BY <2>3, <2>8, <4>3, WhoPublishes
        <5>2. rturn[c] = t /\ rpc[c] # "new"
          BY <5>1 DEF PlaceOK, Unplaced
        <5> QED
          BY <2>2, <2>8, <4>3, <5>1, <5>2
      <4> QED
        BY <1>2, <2>8, <4>1, <4>2, <4>3, CounterSteps, PublisherValues
    <3> QED
      BY <2>3, <3>1, NumberSteps
  <2> QED
    BY <2>5, <2>6, <2>7, <2>8
<1> QED
  BY <1>1, <1>2 DEF NumbersOK

-----------------------------------------------------------------------------
(* The theorems *)

(* The server starts with nobody connected. *)
LEMMA InitDelivered == Init => Delivered
<1> SUFFICES ASSUME Init PROVE Delivered
  OBVIOUS
<1>1. TypeOK
  <2>1. closedOrder \in Seq(Turns \cup OtherTurns) /\ Len(closedOrder) <= MaxClosed
    BY StreamAssumption DEF Init
  <2>2. /\ queue \in [Readers -> Seq(Events)] /\ \A c \in Readers : Len(queue[c]) <= QueueSize
        /\ seen \in [Readers -> Events]
    BY StreamAssumption, Shapes DEF Init
  <2>3. pub \in [Publishers -> Publications]
    BY Shapes DEF Init
  <2> QED
    BY <2>1, <2>2, <2>3 DEF Init, TypeOK, Publications
<1>2. PlaceOK
  BY PublisherValues DEF Init, PlaceOK, Unplaced
<1>3. WorkerOK
  BY PublisherValues, WhoPublishes DEF Init, WorkerOK, Final
<1>4. EventsOK
  BY PublisherValues DEF Init, EventsOK, Right
<1>5. ReachOK /\ SentinelOK
  BY DEF Init, ReachOK, NoForgottenReader, SentinelOK
<1>6. DeliveryOK
  BY DEF Init, DeliveryOK, Attached
<1>7. NumbersOK
  BY PublisherValues, StreamAssumption, WhoPublishes DEF Init, NumbersOK, Numbered, Under
<1> QED
  BY <1>1, <1>2, <1>3, <1>4, <1>5, <1>6, <1>7 DEF Delivered

(* The inductive invariant holds, with no fairness and no bound on what    *)
(* the clients, the worker and the bus do.                                 *)
THEOREM AlwaysDelivered == Spec => []Delivered
<1>1. Delivered /\ [Next]_vars => Delivered'
  BY NextType, NextPlace, NextWorker, NextEvents, NextReach, NextSentinel, NextDelivery, NextNumbers
     DEF Delivered
<1> QED
  BY InitDelivered, <1>1, PTL DEF Spec

(* Subscriber queues stay within MAX_QUEUE_SIZE and the remembered closed  *)
(* turns within MAX_CLOSED_TURN_IDS, whatever is published and closed.     *)
THEOREM QueuesAreBounded == Spec => []TypeOK
BY AlwaysDelivered, PTL DEF Delivered

(* No client is told of an outcome that the row does not record: it is     *)
(* written before the event is numbered, and a final row never changes.    *)
THEOREM OnlyRecordedOutcomes == Spec => []OutcomeIsRecorded
<1>1. Delivered => OutcomeIsRecorded
  BY DEF Delivered, EventsOK, Right, OutcomeIsRecorded
<1> QED
  BY <1>1, AlwaysDelivered, PTL

(* Nobody waits for a turn that is over: a waiting handler is in the bus's *)
(* lists, in a list that a close is working through, or has its end in its *)
(* queue; full queues and the order of close and subscribe change nothing. *)
THEOREM NobodyIsForgotten == Spec => []NoForgottenReader
BY AlwaysDelivered, PTL DEF Delivered, ReachOK

(* A stream that ends without telling a recorded outcome has a reason: it  *)
(* came too late, was refused or overflowed, or the server is stopping.    *)
THEOREM SilenceHasAReason == Spec => []SilentEndIsExplained
<1>1. Delivered => SilentEndIsExplained
  BY DEF Delivered, DeliveryOK, SilentEndIsExplained
<1> QED
  BY <1>1, AlwaysDelivered, PTL

(* The worker's events reach a client in the order of their numbers and    *)
(* none twice, though three locks are taken between a number and the put,  *)
(* the submitter publishes at the same time and full queues lose events.   *)
THEOREM EventsComeInOrder == Spec => InOrder
<1>1. ASSUME Delivered, [Next]_vars
      PROVE  \A c \in Readers : (seen[c] # NoEvent /\ seen'[c] # seen[c]) => seen'[c].seq > seen[c].seq
  <2> SUFFICES ASSUME NEW c \in Readers, seen[c] # NoEvent, seen'[c] # seen[c]
               PROVE  seen'[c].seq > seen[c].seq
    OBVIOUS
  <2>1. TypeOK /\ PlaceOK /\ EventsOK /\ NumbersOK
    BY <1>1 DEF Delivered
  <2>2. \A t \in Turns : ~ReadRow(c, t)
    BY <2>1 DEF ReadRow, PlaceOK, Unplaced
  <2>3. /\ queue[c] # <<>> /\ seen'[c] = Head(queue[c])
        /\ Head(queue[c]).event \notin {"sentinel", "queued"}
    BY <1>1, <2>1, <2>2, SeenSteps
  <2>4. queue[c] \in Seq(Events) /\ seen[c] \in Events
    BY <2>1 DEF TypeOK
  <2>5. Head(queue[c]) = queue[c][1] /\ 1 \in 1..Len(queue[c]) /\ queue[c][1] \in Events
    BY <2>3, <2>4, Dequeued
  <2>6. queue[c][1].event \in Worked
    BY <2>1, <2>3, <2>5 DEF EventsOK
  <2>7. seen[c].seq < queue[c][1].seq
    BY <2>1, <2>5, <2>6 DEF NumbersOK, Numbered
  <2> QED
    BY <2>3, <2>4, <2>5, <2>7 DEF Events
<1> QED
  BY <1>1, AlwaysDelivered, PTL DEF Spec, InOrder
=============================================================================
