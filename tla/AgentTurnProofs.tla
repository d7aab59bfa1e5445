--------------------------- MODULE AgentTurnProofs ---------------------------
(***************************************************************************)
(* Proofs about AgentTurn, for every number of turns, iterations, calls,   *)
(* refreshes and children, and whichever faults occur; and about LogWriter,*)
(* which logs those turns, for any number of records and failing writes.   *)
(***************************************************************************)
EXTENDS AgentTurn, LogWriter, TLAPS, SequenceTheorems, FiniteSetTheorems

(* While the agent is between two turns the next turn has no trace, and a  *)
(* turn being taken has no outcome.  From FinishLog on the log has how it  *)
(* ends, and until AppendExchange the context lacks its exchange.          *)
EndOf(t) ==
    /\ t > turn => log[t] = "none" /\ outcome[t] = "none" /\ Occurrences(t) = 0
    /\ t = turn /\ pc # "idle" =>
         /\ outcome[t] = "none"
         /\ log[t] = IF pc = "announce" THEN ending ELSE "open"
         /\ Occurrences(t) = IF pc \in {"log", "announce"} THEN 1 ELSE 0

EndsOK ==
    /\ pc # "idle" => turn \in Turns
    /\ pc \in {"append", "log", "announce"} => ending \in {"completed", "error"}
    /\ \A t \in Turns : EndOf(t)

(* The answers so far are those of the calls before the next one. *)
CallsOK ==
    /\ next <= Len(calls) + 1 /\ Len(messages) = next - 1
    /\ pc = "model" => next = Len(calls) + 1
    /\ \A p \in 1..Len(messages) : messages[p].call = p

(* An answer that names a run has that run's report. *)
ReportsOK ==
    \A p \in 1..Len(messages) : messages[p].by > 0 =>
        /\ messages[p].by \in 1..Len(runs)
        /\ runs[messages[p].by].call = messages[p].call
        /\ runs[messages[p].by].turn = turn
        /\ runs[messages[p].by].status # "running"

(* The runs of the batch being collected are those of its valid requests,  *)
(* in their order, and those before the awaited one are settled.           *)
BatchOK ==
    /\ pc \in {"collect", "drain"} =>
         \A c \in Children : /\ runs[c].turn = turn
                             /\ runs[c].call \in Requests
                             /\ Rank(runs[c].call) = c - first + 1
    /\ \A c \in first..(awaited - 1) : runs[c].status # "running"

(* A manager's runs of a turn are within what it has counted for it.       *)
RunsOf(t, m) == {c \in 1..Len(runs) : runs[c].turn = t /\ runs[c].manager = m}

QuotaOK ==
    /\ \A c \in 1..Len(runs) : runs[c].turn <= turn /\ runs[c].manager <= manager
    /\ \A t \in Turns : Cardinality(RunsOf(t, manager)) <= counts[t]
    /\ \A t \in Turns, m \in 1..manager : Cardinality(RunsOf(t, m)) <= MaxPerTurn

(* One batch is of one turn, and a child that has not ended is of the      *)
(* batch being collected or of a turn dropped by Ctrl-C.                   *)
Working == {c \in Children : thread[c] = "running"}

PoolOK ==
    /\ \A c, d \in Children : runs[c].turn = runs[d].turn
    /\ Cardinality(Working) <= MaxParallel
    /\ \A c \in 1..Len(runs) : Live(c) =>
         \/ c \in Children /\ pc \in {"collect", "drain"}
         \/ outcome[runs[c].turn] = "dropped"
    /\ \A c \in 1..Len(runs) : thread[c] = "queued" => runs[c].status = "running"

(* The inductive invariant. *)
Orderly == /\ TypeOK /\ EndsOK /\ EndIsToldAlike
           /\ CallsOK /\ ReportsOK /\ BatchOK /\ QuotaOK /\ PoolOK

-----------------------------------------------------------------------------
(* Counting. *)

(* A set within a finite one is finite and no larger. *)
LEMMA Within ==
    ASSUME NEW S, IsFiniteSet(S), NEW T, T \subseteq S
    PROVE  IsFiniteSet(T) /\ Cardinality(T) \in Nat /\ Cardinality(T) <= Cardinality(S)
<1>1. T \in SUBSET S
  OBVIOUS
<1> QED
  BY <1>1, FS_Subset, FS_CardinalityType

(* A set of positions of a sequence is finite. *)
LEMMA Positions ==
    ASSUME NEW n \in Nat, NEW S, S \subseteq 1..n
    PROVE  IsFiniteSet(S) /\ Cardinality(S) \in Nat /\ Cardinality(S) <= n
<1>1. IsFiniteSet(1..n) /\ Cardinality(1..n) = IF 1 > n THEN 0 ELSE n - 1 + 1
  BY FS_Interval
<1>2. Cardinality(1..n) = n
  BY <1>1
<1> QED
  BY <1>1, <1>2, Within

(* One new element. *)
LEMMA OneMore ==
    ASSUME NEW S, IsFiniteSet(S), NEW x, x \notin S
    PROVE  IsFiniteSet(S \cup {x}) /\ Cardinality(S \cup {x}) = Cardinality(S) + 1
BY FS_AddElement

(* The place of p among the positions S (Rank, _reserve_turn_capacity). *)
Place(S, p) == Cardinality({q \in S : q <= p})

(* A position has a place, at most the last one. *)
LEMMA PlaceTyped ==
    ASSUME NEW n \in Nat, NEW S, S \subseteq 1..n, NEW p \in S
    PROVE  Place(S, p) \in 1..Cardinality(S)
<1> DEFINE T == {q \in S : q <= p}
<1>1. IsFiniteSet(S) /\ Cardinality(S) \in Nat
  BY Positions
<1>2. IsFiniteSet(T) /\ Cardinality(T) \in Nat /\ Cardinality(T) <= Cardinality(S)
  BY <1>1, Within
<1>3. p \in T
  OBVIOUS
<1>4. Cardinality(T) # 0
  BY <1>2, <1>3, FS_EmptySet
<1> QED
  BY <1>1, <1>2, <1>4 DEF Place

(* Two positions have different places, *)
LEMMA PlacesGrow ==
    ASSUME NEW n \in Nat, NEW S, S \subseteq 1..n, NEW p \in S, NEW q \in S, p < q
    PROVE  Place(S, p) < Place(S, q)
<1> DEFINE P == {r \in S : r <= p}
           Q == {r \in S : r <= q}
<1>1. IsFiniteSet(S)
  BY Positions
<1>2. IsFiniteSet(P) /\ Cardinality(P) \in Nat
  BY <1>1, Within
<1>3. IsFiniteSet(Q) /\ Cardinality(Q) \in Nat
  BY <1>1, Within
<1>4. q \notin P
  OBVIOUS
<1>5. P \cup {q} \subseteq Q
  <2>1. \A r \in P : r <= q
    OBVIOUS
  <2>2. q <= q
    OBVIOUS
  <2> QED
    BY <2>1, <2>2
<1>6. IsFiniteSet(P \cup {q}) /\ Cardinality(P \cup {q}) = Cardinality(P) + 1
  BY <1>2, <1>4, OneMore
<1>7. Cardinality(P \cup {q}) <= Cardinality(Q)
  BY <1>3, <1>5, Within
<1> QED
  BY <1>2, <1>3, <1>6, <1>7 DEF Place

(* and the same place is the same position; *)
LEMMA PlacesDiffer ==
    ASSUME NEW n \in Nat, NEW S, S \subseteq 1..n, NEW p \in S, NEW q \in S,
           Place(S, p) = Place(S, q)
    PROVE  p = q
<1>1. Cardinality(S) \in Nat
  BY Positions
<1>2. Place(S, p) \in 1..Cardinality(S)
  BY PlaceTyped
<1>3. Place(S, q) \in 1..Cardinality(S)
  BY PlaceTyped
<1>4. p < q \/ q < p \/ p = q
  OBVIOUS
<1>5. ~(p < q)
  <2>1. p < q => Place(S, p) < Place(S, q)
    BY PlacesGrow
  <2> QED
    BY <1>1, <1>2, <1>3, <2>1
<1>6. ~(q < p)
  <2>1. q < p => Place(S, q) < Place(S, p)
    BY PlacesGrow
  <2> QED
    BY <1>1, <1>2, <1>3, <2>1
<1> QED
  BY <1>4, <1>5, <1>6

(* and every place is taken. *)
LEMMA PlacesTaken ==
    ASSUME NEW n \in Nat, NEW S, S \subseteq 1..n, NEW k \in 1..Cardinality(S)
    PROVE  \E p \in S : Place(S, p) = k
<1> DEFINE f == [p \in S |-> Place(S, p)]
           T == 1..Cardinality(S)
<1>1. Cardinality(S) \in Nat
  BY Positions
<1>2. f \in [S -> T]
  BY PlaceTyped
<1>3. f \in Injection(S, T)
  BY <1>2, PlacesDiffer DEF Injection, IsInjective
<1>4. IsFiniteSet(T) /\ Cardinality(T) = Cardinality(S)
  <2>1. IsFiniteSet(T) /\ Cardinality(T) = IF 1 > Cardinality(S) THEN 0 ELSE Cardinality(S) - 1 + 1
    BY <1>1, FS_Interval, SMTT(30)
  <2> QED
    BY <1>1, <2>1
<1>5. f \in Surjection(S, T)
  BY <1>3, <1>4, FS_Injection
<1> QED
  BY <1>5 DEF Surjection

-----------------------------------------------------------------------------
(* Types. *)

(* TypeOK, one part per group of variables. *)
Run == [turn : Turns, manager : 1..(MaxRefreshes + 1), call : 1..MaxBatch,
        status : {"running", "reported", "timed_out"}]
Message == [call : 1..MaxBatch, by : Nat]
Future  == {"queued", "running", "reported", "cancelled", "over"}

LoopTyped ==
    /\ pc \in {"idle", "model", "tools", "collect", "drain", "append", "log", "announce"}
    /\ turn \in 0..MaxTurns /\ iteration \in 0..MaxIterations
    /\ schemas \in BOOLEAN /\ manager \in 1..(MaxRefreshes + 1)
    /\ ending \in {"none", "completed", "error", "raised", "dropped"}
    /\ log \in [Turns -> Statuses] /\ outcome \in [Turns -> Outcomes]
    /\ context \in Seq(Turns)
    /\ reload \in {"idle", "checked"}

BatchTyped ==
    /\ calls \in Batches \cup {<<>>} /\ next \in 1..(MaxBatch + 1)
    /\ messages \in Seq(Message)

PoolTyped ==
    /\ counts \in [Turns -> 0..MaxPerTurn]
    /\ runs \in Seq(Run)
    /\ thread \in Seq(Future) /\ Len(thread) = Len(runs)
    /\ first \in 1..(Len(runs) + 1) /\ awaited \in first..(Len(runs) + 1)

(* The parts are the type invariant, now *)
LEMMA TypeParts == TypeOK <=> LoopTyped /\ BatchTyped /\ PoolTyped
BY DEF TypeOK, LoopTyped, BatchTyped, PoolTyped, Run, Message, Future

(* and after a step. *)
LEMMA TypePartsNext == TypeOK' <=> LoopTyped' /\ BatchTyped' /\ PoolTyped'
BY DEF TypeOK, LoopTyped, BatchTyped, PoolTyped, Run, Message, Future

(* Intervals from 1 that are equal end alike. *)
LEMMA SameEnds ==
    ASSUME NEW m \in Nat, NEW n \in Nat, 1..m = 1..n
    PROVE  m = n
<1>1. m > n => m \in 1..m /\ m \notin 1..n
  OBVIOUS
<1>2. n > m => n \in 1..n /\ n \notin 1..m
  OBVIOUS
<1> QED
  BY <1>1, <1>2

(* A function on 1..n is a sequence of that length (lists built by a loop). *)
LEMMA FunctionIsSeq ==
    ASSUME NEW n \in Nat, NEW S, NEW f \in [1..n -> S]
    PROVE  f \in Seq(S) /\ Len(f) = n
<1>1. f \in Seq(S)
  BY SeqDef
<1>2. Len(f) \in Nat /\ DOMAIN f = 1..Len(f)
  BY <1>1, LenProperties
<1>3. 1..Len(f) = 1..n
  BY <1>2
<1>4. \A m \in Nat : 1..m = 1..n => m = n
  BY SameEnds
<1> QED
  BY <1>1, <1>2, <1>3, <1>4

(* The elements of two lists joined (list.extend). *)
LEMMA Joined ==
    ASSUME NEW S, NEW s \in Seq(S), NEW t \in Seq(S), NEW u, u = s \o t
    PROVE  /\ u \in Seq(S) /\ Len(u) = Len(s) + Len(t)
           /\ \A i \in 1..Len(s) : u[i] = s[i]
           /\ \A k \in 1..Len(t) : u[Len(s) + k] = t[k]
<1>1. Len(s) \in Nat /\ Len(t) \in Nat
  BY LenProperties
<1>2. /\ u \in Seq(S) /\ Len(u) = Len(s) + Len(t)
      /\ \A i \in 1..Len(s) + Len(t) : u[i] = IF i <= Len(s) THEN s[i] ELSE t[i - Len(s)]
  BY ConcatProperties
<1>3. ASSUME NEW i \in 1..Len(s)
      PROVE  u[i] = s[i]
  BY <1>1, <1>2
<1>4. ASSUME NEW k \in 1..Len(t)
      PROVE  u[Len(s) + k] = t[k]
  <2>1. /\ Len(s) + k \in 1..Len(s) + Len(t)
        /\ ~(Len(s) + k <= Len(s)) /\ Len(s) + k - Len(s) = k
    BY <1>1
  <2> QED
    BY <1>2, <2>1
<1> QED
  BY <1>2, <1>3, <1>4

(* The calls asked for, and those of the next batch of subagents. *)
LEMMA BatchFacts ==
    ASSUME BatchTyped
    PROVE  /\ Len(calls) \in 0..MaxBatch /\ MaxBatch \in Nat \ {0}
           /\ calls \in Seq(Kinds)
           /\ SubagentCalls \subseteq 1..Len(calls) /\ Requests \subseteq SubagentCalls
           /\ IsFiniteSet(SubagentCalls) /\ Cardinality(SubagentCalls) \in Nat
           /\ IsFiniteSet(Requests) /\ Cardinality(Requests) \in Nat
<1>1. MaxBatch \in Nat \ {0}
  BY AgentAssumption
<1>2. calls \in Seq(Kinds) /\ Len(calls) \in 0..MaxBatch
  <2>1. CASE calls = <<>>
    BY <1>1, <2>1, EmptySeq
  <2>2. CASE calls \in Batches
    <3>1. PICK n \in 1..MaxBatch : calls \in [1..n -> Kinds]
      BY <2>2 DEF Batches
    <3>2. calls \in Seq(Kinds) /\ Len(calls) = n
      BY <1>1, <3>1, FunctionIsSeq
    <3> QED
      BY <1>1, <3>2
  <2> QED
    BY <2>1, <2>2 DEF BatchTyped
<1>3. next \in Nat /\ next >= 1 /\ Len(calls) \in Nat
  BY <1>1, <1>2 DEF BatchTyped
<1>4. SubagentCalls \subseteq 1..Len(calls)
  BY <1>3 DEF SubagentCalls
<1>5. Requests \subseteq SubagentCalls
  BY DEF Requests
<1>6. IsFiniteSet(SubagentCalls) /\ Cardinality(SubagentCalls) \in Nat
  BY <1>3, <1>4, Positions
<1>7. IsFiniteSet(Requests) /\ Cardinality(Requests) \in Nat
  BY <1>5, <1>6, Within
<1> QED
  BY <1>1, <1>2, <1>4, <1>5, <1>6, <1>7

(* Rank numbers the valid requests, and Request finds the one of a number. *)
LEMMA RankIsPlace ==
    ASSUME NEW p \in SubagentCalls
    PROVE  Rank(p) = Place(Requests, p)
<1>1. {q \in SubagentCalls : q <= p /\ calls[q] = "subagent"} = {q \in Requests : q <= p}
  BY DEF Requests
<1> QED
  BY <1>1 DEF Rank, Place

(* The request of a number is a valid one and has that number. *)
LEMMA RequestFound ==
    ASSUME BatchTyped, NEW k \in 1..Cardinality(Requests)
    PROVE  Request(k) \in Requests /\ Rank(Request(k)) = k
<1>1. Len(calls) \in Nat /\ Requests \subseteq 1..Len(calls) /\ Requests \subseteq SubagentCalls
  BY BatchFacts
<1>2. \E p \in Requests : Place(Requests, p) = k
  BY <1>1, PlacesTaken
<1>3. \E p \in Requests : Cardinality({q \in Requests : q <= p}) = k
  BY <1>2 DEF Place
<1>4. Request(k) \in Requests /\ Cardinality({q \in Requests : q <= Request(k)}) = k
  BY <1>3 DEF Request
<1> QED
  BY <1>1, <1>4, RankIsPlace DEF Place

(* Two valid requests are not confused by their numbers. *)
LEMMA RankTellsCalls ==
    ASSUME BatchTyped, NEW p \in Requests, NEW q \in Requests, Rank(p) = Rank(q)
    PROVE  p = q
<1>1. Len(calls) \in Nat /\ Requests \subseteq 1..Len(calls) /\ Requests \subseteq SubagentCalls
  BY BatchFacts
<1>2. Place(Requests, p) = Place(Requests, q)
  BY <1>1, RankIsPlace
<1> QED
  BY <1>1, <1>2, PlacesDiffer

(* What a batch may start. *)
LEMMA AllowedFacts ==
    ASSUME BatchTyped, PoolTyped, turn \in Turns
    PROVE  /\ Allowed \in Nat /\ Allowed <= Cardinality(Requests)
           /\ counts[turn] \in Nat /\ counts[turn] + Allowed \in 0..MaxPerTurn
<1>1. Cardinality(Requests) \in Nat
  BY BatchFacts
<1>2. counts[turn] \in 0..MaxPerTurn /\ MaxPerTurn \in Nat
  BY AgentAssumption DEF PoolTyped
<1> QED
  BY <1>1, <1>2 DEF Allowed, Smaller

(* The runs of the batch are the last ones recorded. *)
LEMMA ChildrenFacts ==
    ASSUME PoolTyped
    PROVE  /\ Len(runs) \in Nat /\ first \in Nat \ {0} /\ awaited \in Nat
           /\ Children \subseteq 1..Len(runs) /\ IsFiniteSet(Children)
           /\ Cardinality(Children) = Len(runs) - first + 1
<1>1. Len(runs) \in Nat
  BY LenProperties DEF PoolTyped
<1>2. first \in 1..(Len(runs) + 1) /\ awaited \in first..(Len(runs) + 1)
  BY DEF PoolTyped
<1>3. first \in Nat \ {0} /\ awaited \in Nat
  BY <1>1, <1>2
<1>5. first \in Int /\ Len(runs) \in Int
  BY <1>1, <1>3
<1>4. /\ IsFiniteSet(first..Len(runs))
      /\ Cardinality(first..Len(runs)) = IF first > Len(runs) THEN 0 ELSE Len(runs) - first + 1
  BY <1>5, FS_Interval
<1> QED
  BY <1>1, <1>2, <1>3, <1>4 DEF Children

(* finish_turn writes a status. *)
LEMMA LoggedTyped ==
    ASSUME LoopTyped, NEW s \in Statuses
    PROVE  Logged(s) \in [Turns -> Statuses]
BY DEF LoopTyped, Logged, Statuses

(* Leaving the pool leaves a future for each child. *)
LEMMA SettledTyped ==
    ASSUME PoolTyped, Settled
    PROVE  thread' \in Seq(Future) /\ Len(thread') = Len(thread)
<1>1. Len(thread) \in Nat /\ thread \in [1..Len(thread) -> Future]
  BY LenProperties DEF PoolTyped
<1>2. thread' \in [1..Len(thread) -> Future]
  BY <1>1 DEF Settled, Future
<1> QED
  BY <1>1, <1>2, FunctionIsSeq

(* A turn that ends. *)
LEMMA OverTyped ==
    ASSUME LoopTyped, BatchTyped, PoolTyped, NEW how \in Outcomes, Over(how),
           log' \in [Turns -> Statuses],
           thread' \in Seq(Future), Len(thread') = Len(thread)
    PROVE  LoopTyped' /\ BatchTyped' /\ PoolTyped'
<1>1. MaxIterations \in Nat /\ MaxBatch \in Nat \ {0}
  BY AgentAssumption
<1>2. LoopTyped'
  <2>1. outcome' \in [Turns -> Outcomes]
    BY DEF LoopTyped, Over
  <2>2. pc' = "idle" /\ ending' = "none" /\ iteration' = 0
    BY DEF Over
  <2>3. 0 \in 0..MaxIterations
    BY <1>1
  <2> QED
    BY <2>1, <2>2, <2>3 DEF LoopTyped, Over, tools
<1>3. <<>> \in Seq(Message)
  BY EmptySeq
<1>4. BatchTyped'
  BY <1>1, <1>3 DEF BatchTyped, Over
<1>5. PoolTyped'
  BY DEF PoolTyped, Over, tools
<1> QED
  BY <1>2, <1>4, <1>5

(* So does a turn that ends with an exception. *)
LEMMA RaiseTyped ==
    ASSUME LoopTyped, BatchTyped, PoolTyped, Raise,
           thread' \in Seq(Future), Len(thread') = Len(thread)
    PROVE  LoopTyped' /\ BatchTyped' /\ PoolTyped'
<1>1. "error" \in Statuses /\ "raised" \in Outcomes
  BY DEF Statuses, Outcomes
<1>2. log' \in [Turns -> Statuses]
  BY <1>1, LoggedTyped DEF Raise
<1> QED
  BY <1>1, <1>2, OverTyped DEF Raise

(* A batch of subagents that begins. *)
LEMMA StartedRuns ==
    ASSUME BatchTyped, PoolTyped, LoopTyped, turn \in Turns, StartBatch
    PROVE  /\ runs' \in Seq(Run) /\ Len(runs') = Len(runs) + Allowed
           /\ thread' \in Seq(Future) /\ Len(thread') = Len(thread) + Allowed
           /\ \A c \in 1..Len(runs) : runs'[c] = runs[c] /\ thread'[c] = thread[c]
           /\ \A k \in 1..Allowed :
                /\ runs'[Len(runs) + k] = [turn |-> turn, manager |-> manager,
                                           call |-> Request(k), status |-> "running"]
                /\ thread'[Len(runs) + k] = "queued"
<1> DEFINE new == [k \in 1..Allowed |-> [turn |-> turn, manager |-> manager,
                                         call |-> Request(k), status |-> "running"]]
           put == [k \in 1..Allowed |-> "queued"]
<1>1. /\ Allowed \in Nat /\ Allowed <= Cardinality(Requests)
      /\ Cardinality(Requests) \in Nat
  BY AllowedFacts, BatchFacts
<1>2. Len(runs) \in Nat /\ runs \in Seq(Run) /\ thread \in Seq(Future) /\ Len(thread) = Len(runs)
  BY ChildrenFacts DEF PoolTyped
<1>3. \A k \in 1..Allowed : Request(k) \in 1..MaxBatch
  <2>1. \A k \in 1..Allowed : k \in 1..Cardinality(Requests)
    BY <1>1
  <2>2. Requests \subseteq 1..Len(calls) /\ Len(calls) \in 0..MaxBatch
    BY BatchFacts
  <2>3. 1..Len(calls) \subseteq 1..MaxBatch
    BY <2>2, AgentAssumption
  <2> QED
    BY <2>1, <2>2, <2>3, RequestFound
<1>4. new \in [1..Allowed -> Run]
  BY <1>3 DEF Run, LoopTyped
<1>5. new \in Seq(Run) /\ Len(new) = Allowed
  BY <1>1, <1>4, FunctionIsSeq
<1>6. put \in [1..Allowed -> Future]
  BY DEF Future
<1>7. put \in Seq(Future) /\ Len(put) = Allowed
  BY <1>1, <1>6, FunctionIsSeq
<1>8. runs' = runs \o new /\ thread' = thread \o put
  BY DEF StartBatch
<1> HIDE DEF new, put
<1>9. /\ runs' \in Seq(Run) /\ Len(runs') = Len(runs) + Allowed
      /\ \A c \in 1..Len(runs) : runs'[c] = runs[c]
      /\ \A k \in 1..Allowed : runs'[Len(runs) + k] = new[k]
  <2>1. /\ runs' \in Seq(Run) /\ Len(runs') = Len(runs) + Len(new)
        /\ \A c \in 1..Len(runs) : runs'[c] = runs[c]
        /\ \A k \in 1..Len(new) : runs'[Len(runs) + k] = new[k]
    <3>1. runs \in Seq(Run) /\ new \in Seq(Run) /\ runs' = runs \o new
      BY <1>2, <1>5, <1>8
    <3>2. \A u : u = runs \o new =>
             /\ u \in Seq(Run) /\ Len(u) = Len(runs) + Len(new)
             /\ \A i \in 1..Len(runs) : u[i] = runs[i]
             /\ \A k \in 1..Len(new) : u[Len(runs) + k] = new[k]
      BY <3>1, Joined
    <3> QED
      BY <3>1, <3>2
  <2> QED
    BY <2>1, <1>5
<1>10. /\ thread' \in Seq(Future) /\ Len(thread') = Len(thread) + Allowed
       /\ \A c \in 1..Len(thread) : thread'[c] = thread[c]
       /\ \A k \in 1..Allowed : thread'[Len(thread) + k] = put[k]
  <2>1. /\ thread' \in Seq(Future) /\ Len(thread') = Len(thread) + Len(put)
        /\ \A c \in 1..Len(thread) : thread'[c] = thread[c]
        /\ \A k \in 1..Len(put) : thread'[Len(thread) + k] = put[k]
    <3>1. thread \in Seq(Future) /\ put \in Seq(Future) /\ thread' = thread \o put
      BY <1>2, <1>7, <1>8
    <3>2. \A u : u = thread \o put =>
             /\ u \in Seq(Future) /\ Len(u) = Len(thread) + Len(put)
             /\ \A i \in 1..Len(thread) : u[i] = thread[i]
             /\ \A k \in 1..Len(put) : u[Len(thread) + k] = put[k]
      BY <3>1, Joined
    <3> QED
      BY <3>1, <3>2
  <2> QED
    BY <2>1, <1>7
<1> QED
  BY <1>2, <1>9, <1>10 DEF new, put

(* The answers of a batch. *)
LEMMA BatchAnswers ==
    ASSUME LoopTyped, BatchTyped, PoolTyped, FinishBatch
    PROVE  /\ messages' \in Seq(Message)
           /\ Len(messages') = Len(messages) + Cardinality(SubagentCalls)
           /\ \A p \in 1..Len(messages) : messages'[p] = messages[p]
           /\ \A k \in 1..Cardinality(SubagentCalls) :
                /\ next + k - 1 \in SubagentCalls
                /\ messages'[Len(messages) + k] = AnswerOf(next + k - 1)
<1> DEFINE n == Cardinality(SubagentCalls)
           new == [k \in 1..n |-> AnswerOf(next + k - 1)]
<1>1. /\ n \in Nat /\ SubagentCalls \subseteq 1..Len(calls) /\ Len(calls) \in 0..MaxBatch
      /\ MaxBatch \in Nat /\ Requests \subseteq SubagentCalls /\ IsFiniteSet(SubagentCalls)
  BY BatchFacts
<1>2. next \in Nat \ {0}
  BY <1>1 DEF BatchTyped
<1>3. messages \in Seq(Message) /\ Len(messages) \in Nat
  BY LenProperties DEF BatchTyped
<1> HIDE DEF n
<1>4. ASSUME NEW k \in 1..n
      PROVE  next + k - 1 \in SubagentCalls
  <2>1. SUFFICES ASSUME next + k - 1 \notin SubagentCalls
                 PROVE  FALSE
    OBVIOUS
  <2>2. ASSUME NEW p \in SubagentCalls, p >= next + k - 1
        PROVE  FALSE
    <3>1. p \in next..Len(calls) /\ \A q \in next..p : calls[q] \in {"subagent", "garbledSub"}
      BY <2>2 DEF SubagentCalls
    <3>2. next + k - 1 \in next..Len(calls)
      BY <1>1, <1>2, <2>2, <3>1
    <3>3. \A q \in next..(next + k - 1) : q \in next..p
      BY <1>1, <1>2, <2>2, <3>1
    <3> QED
      BY <2>1, <3>1, <3>2, <3>3 DEF SubagentCalls
  <2>3. SubagentCalls \subseteq next..(next + k - 2)
    <3>1. SUFFICES ASSUME NEW p \in SubagentCalls
                   PROVE  p \in next..(next + k - 2)
      OBVIOUS
    <3>2. p \in next..Len(calls)
      BY DEF SubagentCalls
    <3>3. ~(p >= next + k - 1)
      BY <2>2
    <3> QED
      BY <1>1, <1>2, <3>2, <3>3
  <2>4. next \in Int /\ next + k - 2 \in Int
    BY <1>2
  <2>5. /\ IsFiniteSet(next..(next + k - 2))
        /\ Cardinality(next..(next + k - 2))
             = IF next > next + k - 2 THEN 0 ELSE next + k - 2 - next + 1
    BY <2>4, FS_Interval
  <2>6. n <= Cardinality(next..(next + k - 2))
    BY <2>3, <2>5, Within DEF n
  <2> QED
    BY <1>1, <1>2, <2>5, <2>6
<1>5. ASSUME NEW k \in 1..n
      PROVE  AnswerOf(next + k - 1) \in Message
  <2> DEFINE p == next + k - 1
  <2>1. p \in SubagentCalls
    BY <1>4
  <2>2. p \in 1..MaxBatch
    <3>1. 1..Len(calls) \subseteq 1..MaxBatch
      BY <1>1
    <3> QED
      BY <1>1, <2>1, <3>1
  <2> HIDE DEF p
  <2>3. calls[p] = "subagent" => Rank(p) \in Nat \ {0}
    <3>1. SUFFICES ASSUME calls[p] = "subagent"
                   PROVE  Rank(p) \in Nat \ {0}
      OBVIOUS
    <3>2. p \in Requests
      BY <2>1, <3>1 DEF Requests
    <3>3. Requests \subseteq 1..Len(calls) /\ Len(calls) \in Nat /\ Cardinality(Requests) \in Nat
      BY BatchFacts
    <3>4. Place(Requests, p) \in 1..Cardinality(Requests)
      BY <3>2, <3>3, PlaceTyped
    <3> QED
      BY <2>1, <3>3, <3>4, RankIsPlace
  <2>4. first \in Nat \ {0}
    BY ChildrenFacts
  <2>5. (IF calls[p] = "subagent" /\ Rank(p) <= Cardinality(Children)
           THEN first + Rank(p) - 1 ELSE 0) \in Nat
    BY <2>3, <2>4
  <2>6. AnswerOf(p) \in Message
    BY <2>2, <2>5 DEF AnswerOf, Answer, Message
  <2> QED
    BY <2>6 DEF p
<1>6. new \in [1..n -> Message]
  BY <1>5
<1>7. new \in Seq(Message) /\ Len(new) = n
  BY <1>1, <1>6, FunctionIsSeq
<1>8. messages' = messages \o new
  BY DEF FinishBatch, n
<1>9. \A k \in 1..n : new[k] = AnswerOf(next + k - 1)
  OBVIOUS
<1> HIDE DEF new
<1>10. /\ messages' \in Seq(Message) /\ Len(messages') = Len(messages) + n
       /\ \A p \in 1..Len(messages) : messages'[p] = messages[p]
       /\ \A k \in 1..n : messages'[Len(messages) + k] = new[k]
  <2>1. /\ messages' \in Seq(Message) /\ Len(messages') = Len(messages) + Len(new)
        /\ \A c \in 1..Len(messages) : messages'[c] = messages[c]
        /\ \A k \in 1..Len(new) : messages'[Len(messages) + k] = new[k]
    <3>1. messages \in Seq(Message) /\ new \in Seq(Message) /\ messages' = messages \o new
      BY <1>3, <1>7, <1>8
    <3>2. \A u : u = messages \o new =>
             /\ u \in Seq(Message) /\ Len(u) = Len(messages) + Len(new)
             /\ \A i \in 1..Len(messages) : u[i] = messages[i]
             /\ \A k \in 1..Len(new) : u[Len(messages) + k] = new[k]
      BY <3>1, Joined
    <3> QED
      BY <3>1, <3>2
  <2> QED
    BY <2>1, <1>7
<1> QED
  BY <1>4, <1>9, <1>10 DEF n

(* Every step keeps the types. *)
TypedNext == LoopTyped' /\ BatchTyped' /\ PoolTyped'

(* Calling the model keeps the types, *)
LEMMA ModelStepTyped ==
    ASSUME LoopTyped, BatchTyped, PoolTyped, EndsOK,
           BeginTurn \/ Reply \/ ReplyRaises \/ IterationLimit
    PROVE  TypedNext
<1>1. MaxIterations \in Nat /\ MaxBatch \in Nat \ {0} /\ MaxTurns \in Nat
  BY AgentAssumption
<1>2. <<>> \in Seq(Message) /\ 1 \in 1..(MaxBatch + 1)
  BY <1>1, EmptySeq
<1>3. CASE BeginTurn
  <2>1. turn + 1 \in 0..MaxTurns /\ turn + 1 \in Turns /\ 0 \in 0..MaxIterations
    BY <1>1, <1>3 DEF BeginTurn, LoopTyped, Turns
  <2>2. log' \in [Turns -> Statuses]
    BY <1>3 DEF BeginTurn, LoopTyped, Statuses
  <2>3. /\ outcome' \in [Turns -> Outcomes] /\ schemas' \in BOOLEAN
        /\ pc' \in {"idle", "model"}
    BY <1>3, <2>1 DEF BeginTurn, LoopTyped, Outcomes
  <2>4. LoopTyped'
    BY <1>3, <2>1, <2>2, <2>3 DEF BeginTurn, LoopTyped
  <2>5. BatchTyped'
    BY <1>2, <1>3 DEF BeginTurn, BatchTyped
  <2>6. PoolTyped'
    BY <1>3 DEF BeginTurn, PoolTyped, pool
  <2> QED
    BY <2>4, <2>5, <2>6 DEF TypedNext
<1>4. CASE Reply
  <2>1. iteration + 1 \in 0..MaxIterations
    BY <1>1, <1>4 DEF Reply, Replied, LoopTyped
  <2>2. LoopTyped'
    BY <1>4, <2>1 DEF Reply, Replied, LoopTyped, tools, record
  <2>3. BatchTyped'
    BY <1>2, <1>4 DEF Reply, Replied, BatchTyped, batch
  <2>4. PoolTyped'
    BY <1>4 DEF Reply, Replied, PoolTyped, tools, pool
  <2> QED
    BY <2>2, <2>3, <2>4 DEF TypedNext
<1>5. CASE ReplyRaises
  <2>1. Raise /\ thread' \in Seq(Future) /\ Len(thread') = Len(thread)
    BY <1>5 DEF ReplyRaises, PoolTyped
  <2> QED
    BY <2>1, RaiseTyped DEF TypedNext
<1>6. CASE IterationLimit
  <2>1. LoopTyped'
    BY <1>6 DEF IterationLimit, LoopTyped, tools, record, loop
  <2>2. BatchTyped'
    BY <1>6 DEF IterationLimit, BatchTyped, batch
  <2>3. PoolTyped'
    BY <1>6 DEF IterationLimit, PoolTyped, tools, pool
  <2> QED
    BY <2>1, <2>2, <2>3 DEF TypedNext
<1> QED
  BY <1>3, <1>4, <1>5, <1>6

(* One call more is answered. *)
LEMMA AnswerTyped ==
    ASSUME BatchTyped, next <= Len(calls), AnswerCall
    PROVE  /\ next' \in 1..(MaxBatch + 1) /\ next' = next + 1
           /\ messages' \in Seq(Message) /\ Len(messages') = Len(messages) + 1
           /\ messages'[Len(messages) + 1] = Answer(next, 0)
           /\ \A p \in 1..Len(messages) : messages'[p] = messages[p]
<1>1. Len(calls) \in 0..MaxBatch /\ MaxBatch \in Nat
  BY BatchFacts
<1>2. next \in 1..MaxBatch
  BY <1>1 DEF BatchTyped
<1>3. Answer(next, 0) \in Message
  BY <1>2 DEF Answer, Message
<1>4. messages \in Seq(Message) /\ messages' = Append(messages, Answer(next, 0))
  BY DEF BatchTyped, AnswerCall
<1>5. /\ messages' \in Seq(Message) /\ Len(messages') = Len(messages) + 1
      /\ messages'[Len(messages) + 1] = Answer(next, 0)
      /\ \A p \in 1..Len(messages) : messages'[p] = messages[p]
  BY <1>3, <1>4, AppendProperties
<1> QED
  BY <1>1, <1>2, <1>5 DEF AnswerCall

(* The capabilities are replaced. *)
LEMMA RefreshedTyped ==
    ASSUME LoopTyped, PoolTyped, Refreshed
    PROVE  /\ schemas' \in BOOLEAN /\ manager' \in 1..(MaxRefreshes + 1)
           /\ counts' \in [Turns -> 0..MaxPerTurn] /\ manager' = manager + 1
<1>1. MaxRefreshes \in Nat /\ MaxPerTurn \in Nat
  BY AgentAssumption
<1>2. manager + 1 \in 1..(MaxRefreshes + 1)
  BY <1>1 DEF Refreshed, LoopTyped
<1>3. 0 \in 0..MaxPerTurn
  BY <1>1
<1> QED
  BY <1>2, <1>3 DEF Refreshed

(* answering a call does, *)
LEMMA ToolStepTyped ==
    ASSUME LoopTyped, BatchTyped, PoolTyped,
           CallTool \/ Refresh \/ SubmitPlan \/ CallsAnswered
    PROVE  TypedNext
<1>1. AnswerCall /\ next <= Len(calls) =>
        next' \in 1..(MaxBatch + 1) /\ messages' \in Seq(Message)
  BY AnswerTyped
<1>2. CASE CallTool
  <2>1. BatchTyped'
    BY <1>1, <1>2 DEF CallTool, NextIs, BatchTyped
  <2>2. LoopTyped'
    BY <1>2 DEF CallTool, LoopTyped, loop, tools, record
  <2>3. PoolTyped'
    BY <1>2 DEF CallTool, PoolTyped, tools, pool
  <2> QED
    BY <2>1, <2>2, <2>3 DEF TypedNext
<1>3. CASE Refresh
  <2>1. BatchTyped'
    BY <1>1, <1>3 DEF Refresh, NextIs, BatchTyped
  <2>2. /\ schemas' \in BOOLEAN /\ manager' \in 1..(MaxRefreshes + 1)
        /\ counts' \in [Turns -> 0..MaxPerTurn]
    <3>1. CASE Refreshed
      BY <3>1, RefreshedTyped
    <3>2. CASE UNCHANGED tools
      BY <3>2 DEF tools, LoopTyped, PoolTyped
    <3> QED
      BY <1>3, <3>1, <3>2 DEF Refresh
  <2>3. LoopTyped'
    BY <1>3, <2>2 DEF Refresh, LoopTyped, loop, record
  <2>4. PoolTyped'
    BY <1>3, <2>2 DEF Refresh, PoolTyped, pool
  <2> QED
    BY <2>1, <2>3, <2>4 DEF TypedNext
<1>4. CASE SubmitPlan
  <2>1. BatchTyped'
    BY <1>1, <1>4 DEF SubmitPlan, PlanAccepted, NextIs, BatchTyped, batch
  <2>2. LoopTyped'
    BY <1>4 DEF SubmitPlan, PlanAccepted, LoopTyped, loop, tools, record
  <2>3. PoolTyped'
    BY <1>4 DEF SubmitPlan, PoolTyped, tools, pool
  <2> QED
    BY <2>1, <2>2, <2>3 DEF TypedNext
<1>5. CASE CallsAnswered
  <2>1. BatchTyped'
    BY <1>5 DEF CallsAnswered, BatchTyped, batch
  <2>2. LoopTyped'
    BY <1>5 DEF CallsAnswered, LoopTyped, loop, tools, record
  <2>3. PoolTyped'
    BY <1>5 DEF CallsAnswered, PoolTyped, tools, pool
  <2> QED
    BY <2>1, <2>2, <2>3 DEF TypedNext
<1> QED
  BY <1>2, <1>3, <1>4, <1>5

(* The batch of subagents. *)
LEMMA StartBatchTyped ==
    ASSUME LoopTyped, BatchTyped, PoolTyped, turn \in Turns, StartBatch
    PROVE  TypedNext
<1>1. LoopTyped'
  BY DEF StartBatch, LoopTyped, loop, record
<1>2. BatchTyped'
  BY DEF StartBatch, BatchTyped, batch
<1>3. Allowed \in Nat /\ counts[turn] + Allowed \in 0..MaxPerTurn
  BY AllowedFacts
<1>4. counts' \in [Turns -> 0..MaxPerTurn]
  BY <1>3 DEF StartBatch, PoolTyped
<1>5. /\ runs' \in Seq(Run) /\ Len(runs') = Len(runs) + Allowed
      /\ thread' \in Seq(Future) /\ Len(thread') = Len(thread) + Allowed
  BY StartedRuns
<1>6. Len(runs) \in Nat /\ Len(thread) = Len(runs)
  BY ChildrenFacts DEF PoolTyped
<1>7. first' = Len(runs) + 1 /\ awaited' = Len(runs) + 1
  BY DEF StartBatch
<1>8. first' \in 1..(Len(runs') + 1) /\ awaited' \in first'..(Len(runs') + 1)
  BY <1>3, <1>5, <1>6, <1>7
<1>9. PoolTyped'
  BY <1>4, <1>5, <1>6, <1>8 DEF PoolTyped
<1> QED
  BY <1>1, <1>2, <1>9 DEF TypedNext

(* A child's thread starts or ends. *)
LEMMA ThreadTyped ==
    ASSUME PoolTyped, NEW c \in 1..Len(runs), NEW f \in Future,
           thread' = [thread EXCEPT ![c] = f]
    PROVE  /\ thread' \in Seq(Future) /\ Len(thread') = Len(thread)
           /\ thread'[c] = f
           /\ \A d \in 1..Len(runs) : d # c => thread'[d] = thread[d]
<1>1. thread \in Seq(Future) /\ c \in 1..Len(thread)
  BY DEF PoolTyped
<1> QED
  BY <1>1, ExceptSeq DEF PoolTyped

(* so that both steps of a child keep the types; *)
LEMMA ChildStepTyped ==
    ASSUME LoopTyped, BatchTyped, PoolTyped, NEW c \in 1..Len(runs),
           StartChild(c) \/ ChildEnds(c)
    PROVE  TypedNext
<1>1. "running" \in Future /\ "reported" \in Future
  BY DEF Future
<1>2. \/ thread' = [thread EXCEPT ![c] = "running"]
      \/ thread' = [thread EXCEPT ![c] = "reported"]
  BY DEF StartChild, Started, ChildEnds
<1>3. thread' \in Seq(Future) /\ Len(thread') = Len(thread)
  BY <1>1, <1>2, ThreadTyped
<1>4. UNCHANGED <<pc, loop, batch, tools, runs, first, awaited, ending, record, reload>>
  BY DEF StartChild, Started, ChildEnds
<1>5. LoopTyped'
  BY <1>4 DEF LoopTyped, loop, tools, record
<1>6. BatchTyped'
  BY <1>4 DEF BatchTyped, batch
<1>7. PoolTyped'
  BY <1>3, <1>4 DEF PoolTyped, tools
<1> QED
  BY <1>5, <1>6, <1>7 DEF TypedNext

(* A child is collected. *)
LEMMA FinalizeTyped ==
    ASSUME PoolTyped, awaited \in Children, NEW s \in {"reported", "timed_out"}, Finalize(s)
    PROVE  /\ runs' \in Seq(Run) /\ Len(runs') = Len(runs)
           /\ awaited \in 1..Len(runs)
           /\ runs'[awaited].status = s
           /\ \A c \in 1..Len(runs) :
                /\ c # awaited => runs'[c] = runs[c]
                /\ runs'[c].turn = runs[c].turn /\ runs'[c].manager = runs[c].manager
                /\ runs'[c].call = runs[c].call
           /\ awaited' = awaited + 1
<1>1. awaited \in 1..Len(runs) /\ runs \in Seq(Run) /\ runs[awaited] \in Run
  BY ChildrenFacts, ElementOfSeq DEF PoolTyped
<1> DEFINE r == [runs[awaited] EXCEPT !.status = s]
<1>2. /\ r \in Run /\ r.status = s /\ r.turn = runs[awaited].turn
      /\ r.manager = runs[awaited].manager /\ r.call = runs[awaited].call
  BY <1>1 DEF Run
<1>3. runs' = [runs EXCEPT ![awaited] = r]
  BY DEF Finalize
<1> HIDE DEF r
<1>4. /\ runs' \in Seq(Run) /\ Len(runs') = Len(runs) /\ runs'[awaited] = r
      /\ \A c \in 1..Len(runs) : c # awaited => runs'[c] = runs[c]
  BY <1>1, <1>2, <1>3, ExceptSeq
<1> QED
  BY <1>1, <1>2, <1>4 DEF Finalize

(* collecting one does, *)
LEMMA CollectTyped ==
    ASSUME LoopTyped, BatchTyped, PoolTyped, Collect \/ TimeOut
    PROVE  TypedNext
<1>1. awaited \in Children /\ (Finalize("reported") \/ Finalize("timed_out"))
  BY DEF Collect, TimeOut
<1>2. /\ runs' \in Seq(Run) /\ Len(runs') = Len(runs)
      /\ awaited \in 1..Len(runs) /\ awaited' = awaited + 1
  BY <1>1, FinalizeTyped
<1>3. thread' \in Seq(Future) /\ Len(thread') = Len(thread)
  <2>1. CASE Collect
    BY <2>1 DEF Collect, PoolTyped
  <2>2. CASE TimeOut
    <3>1. \/ thread' = [thread EXCEPT ![awaited] = "cancelled"]
          \/ thread' = [thread EXCEPT ![awaited] = thread[awaited]]
      BY <2>2 DEF TimeOut
    <3>2. thread[awaited] \in Future /\ "cancelled" \in Future
      BY <1>2, ElementOfSeq DEF PoolTyped, Future
    <3> QED
      BY <1>2, <3>1, <3>2, ThreadTyped
  <2> QED
    BY <2>1, <2>2
<1>4. UNCHANGED <<pc, loop, batch, tools, first, ending, record, reload>>
  BY DEF Collect, TimeOut
<1>5. LoopTyped'
  BY <1>4 DEF LoopTyped, loop, tools, record
<1>6. BatchTyped'
  BY <1>4 DEF BatchTyped, batch
<1>7. PoolTyped'
  <2>1. awaited' \in first..(Len(runs) + 1)
    BY <1>2, ChildrenFacts DEF PoolTyped
  <2> QED
    BY <1>2, <1>3, <1>4, <2>1 DEF PoolTyped, tools
<1> QED
  BY <1>5, <1>6, <1>7 DEF TypedNext

(* and the end of a batch, which answers no call beyond the last. *)
LEMMA FinishBatchTyped ==
    ASSUME LoopTyped, BatchTyped, PoolTyped, CallsOK, FinishBatch
    PROVE  TypedNext /\ next' \in next..(Len(calls) + 1)
<1>1. thread' \in Seq(Future) /\ Len(thread') = Len(thread)
  BY SettledTyped DEF FinishBatch
<1>2. LoopTyped'
  BY DEF FinishBatch, LoopTyped, loop, tools, record
<1>3. PoolTyped'
  BY <1>1 DEF FinishBatch, PoolTyped, tools
<1>4. /\ Cardinality(SubagentCalls) \in Nat /\ Len(calls) \in 0..MaxBatch
      /\ SubagentCalls \subseteq 1..Len(calls) /\ MaxBatch \in Nat
  BY BatchFacts
<1>5. next \in Nat \ {0} /\ next <= Len(calls) + 1
  BY <1>4 DEF BatchTyped, CallsOK
<1>6. next' = next + Cardinality(SubagentCalls)
  BY DEF FinishBatch
<1>7. next' \in next..(Len(calls) + 1)
  <2>1. CASE Cardinality(SubagentCalls) = 0
    BY <1>4, <1>5, <1>6, <2>1
  <2>2. CASE Cardinality(SubagentCalls) # 0
    <3>1. next + Cardinality(SubagentCalls) - 1 \in SubagentCalls
      BY <1>4, <2>2, BatchAnswers
    <3> QED
      BY <1>4, <1>5, <1>6, <3>1
  <2> QED
    BY <2>1, <2>2
<1>8. messages' \in Seq(Message) /\ calls' = calls
  BY BatchAnswers DEF FinishBatch
<1>9. BatchTyped'
  BY <1>4, <1>5, <1>7, <1>8 DEF BatchTyped
<1> QED
  BY <1>2, <1>3, <1>7, <1>9 DEF TypedNext

(* How a turn ends, and the reload route. *)
LEMMA DrainTyped ==
    ASSUME LoopTyped, BatchTyped, PoolTyped,
           AnnounceRaises \/ LeaveBatch \/ Drain \/ InterruptWait
    PROVE  TypedNext
<1>1. "dropped" \in Outcomes /\ log \in [Turns -> Statuses]
  BY DEF Outcomes, LoopTyped
<1>2. CASE AnnounceRaises
  <2>1. Len(thread) \in Nat /\ thread \in [1..Len(thread) -> Future]
    BY LenProperties DEF PoolTyped
  <2>2. thread' \in [1..Len(thread) -> Future]
    BY <1>2, <2>1 DEF AnnounceRaises, Future
  <2>3. thread' \in Seq(Future) /\ Len(thread') = Len(thread)
    BY <2>1, <2>2, FunctionIsSeq
  <2> QED
    BY <1>2, <2>3, RaiseTyped DEF AnnounceRaises, TypedNext
<1>3. CASE LeaveBatch
  <2>1. LoopTyped'
    BY <1>3 DEF LeaveBatch, LoopTyped, loop, tools, record
  <2>2. BatchTyped'
    BY <1>3 DEF LeaveBatch, BatchTyped, batch
  <2>3. PoolTyped'
    BY <1>3 DEF LeaveBatch, PoolTyped, tools, pool
  <2> QED
    BY <2>1, <2>2, <2>3 DEF TypedNext
<1>4. CASE Drain
  <2>1. thread' \in Seq(Future) /\ Len(thread') = Len(thread)
    BY <1>4, SettledTyped DEF Drain
  <2>2. CASE Raise
    BY <2>1, <2>2, RaiseTyped DEF TypedNext
  <2>3. CASE Over("dropped") /\ UNCHANGED log
    BY <1>1, <2>1, <2>3, OverTyped DEF TypedNext
  <2> QED
    BY <1>4, <2>2, <2>3 DEF Drain
<1>5. CASE InterruptWait
  <2>1. thread' \in Seq(Future) /\ Len(thread') = Len(thread)
    BY <1>5, SettledTyped DEF InterruptWait
  <2>2. Over("dropped") /\ UNCHANGED log
    BY <1>5 DEF InterruptWait
  <2> QED
    BY <1>1, <2>1, <2>2, OverTyped DEF TypedNext
<1> QED
  BY <1>2, <1>3, <1>4, <1>5

(* The end of a turn and the reload route keep the types. *)
LEMMA EndStepTyped ==
    ASSUME LoopTyped, BatchTyped, PoolTyped, EndsOK,
           \/ AppendExchange \/ FinishLog \/ Return \/ CallbackRaises \/ Interrupt
           \/ ReloadCheck \/ ReloadSwap
    PROVE  TypedNext
<1>1. "dropped" \in Outcomes /\ "returned" \in Outcomes /\ log \in [Turns -> Statuses]
  BY DEF Outcomes, LoopTyped
<1>2. CASE AppendExchange
  <2>1. turn \in Turns
    BY <1>2 DEF AppendExchange, EndsOK
  <2>2. context' \in Seq(Turns)
    BY <1>2, <2>1, AppendProperties DEF AppendExchange, LoopTyped
  <2>3. LoopTyped'
    BY <1>2, <2>2 DEF AppendExchange, LoopTyped, loop, tools
  <2>4. BatchTyped'
    BY <1>2 DEF AppendExchange, BatchTyped, batch
  <2>5. PoolTyped'
    BY <1>2 DEF AppendExchange, PoolTyped, tools, pool
  <2> QED
    BY <2>3, <2>4, <2>5 DEF TypedNext
<1>3. CASE FinishLog
  <2>1. ending \in Statuses
    BY <1>3 DEF FinishLog, EndsOK, Statuses
  <2>2. log' \in [Turns -> Statuses]
    BY <1>3, <2>1, LoggedTyped DEF FinishLog
  <2>3. LoopTyped'
    BY <1>3, <2>2 DEF FinishLog, LoopTyped, loop, tools
  <2>4. BatchTyped'
    BY <1>3 DEF FinishLog, BatchTyped, batch
  <2>5. PoolTyped'
    BY <1>3 DEF FinishLog, PoolTyped, tools, pool
  <2> QED
    BY <2>3, <2>4, <2>5 DEF TypedNext
<1>4. CASE Return \/ Interrupt
  <2>1. thread' \in Seq(Future) /\ Len(thread') = Len(thread)
    BY <1>4 DEF Return, Interrupt, PoolTyped
  <2>2. UNCHANGED log /\ (Over("dropped") \/ Over("returned"))
    BY <1>4 DEF Return, Interrupt
  <2> QED
    BY <1>1, <2>1, <2>2, OverTyped DEF TypedNext
<1>5. CASE CallbackRaises
  <2>1. Raise /\ thread' \in Seq(Future) /\ Len(thread') = Len(thread)
    BY <1>5 DEF CallbackRaises, PoolTyped
  <2> QED
    BY <2>1, RaiseTyped DEF TypedNext
<1>6. CASE ReloadCheck
  <2>1. LoopTyped'
    BY <1>6 DEF ReloadCheck, LoopTyped, loop, tools, record
  <2>2. BatchTyped'
    BY <1>6 DEF ReloadCheck, BatchTyped, batch
  <2>3. PoolTyped'
    BY <1>6 DEF ReloadCheck, PoolTyped, tools, pool
  <2> QED
    BY <2>1, <2>2, <2>3 DEF TypedNext
<1>7. CASE ReloadSwap
  <2>1. /\ schemas' \in BOOLEAN /\ manager' \in 1..(MaxRefreshes + 1)
        /\ counts' \in [Turns -> 0..MaxPerTurn]
    BY <1>7, RefreshedTyped DEF ReloadSwap
  <2>2. LoopTyped'
    BY <1>7, <2>1 DEF ReloadSwap, LoopTyped, loop, record
  <2>3. BatchTyped'
    BY <1>7 DEF ReloadSwap, BatchTyped, batch
  <2>4. PoolTyped'
    BY <1>7, <2>1 DEF ReloadSwap, PoolTyped, pool
  <2> QED
    BY <2>2, <2>3, <2>4 DEF TypedNext
<1> QED
  BY <1>2, <1>3, <1>4, <1>5, <1>6, <1>7

(* The steps, grouped. *)
ModelStep == BeginTurn \/ Reply \/ ReplyRaises \/ IterationLimit
ToolStep  == CallTool \/ Refresh \/ SubmitPlan \/ CallsAnswered
LeaveStep == AnnounceRaises \/ LeaveBatch \/ Drain \/ InterruptWait
EndStep   == \/ AppendExchange \/ FinishLog \/ Return \/ CallbackRaises \/ Interrupt
             \/ ReloadCheck \/ ReloadSwap

(* Every step is of one of these kinds. *)
LEMMA StepKinds ==
    ASSUME [Next]_vars
    PROVE  \/ ModelStep \/ ToolStep \/ StartBatch
           \/ \E c \in 1..Len(runs) : StartChild(c) \/ ChildEnds(c)
           \/ Collect \/ TimeOut \/ FinishBatch \/ LeaveStep \/ EndStep
           \/ UNCHANGED vars
BY DEF Next, AgentStep, ModelStep, ToolStep, LeaveStep, EndStep

(* Every step keeps the types. *)
LEMMA NextTyped ==
    ASSUME TypeOK, EndsOK, CallsOK, [Next]_vars
    PROVE  TypeOK'
<1>1. LoopTyped /\ BatchTyped /\ PoolTyped
  BY TypeParts
<1>2. CASE ModelStep
  BY <1>1, <1>2, ModelStepTyped, TypePartsNext DEF TypedNext, ModelStep
<1>3. CASE ToolStep
  BY <1>1, <1>3, ToolStepTyped, TypePartsNext DEF TypedNext, ToolStep
<1>4. CASE StartBatch
  <2>1. turn \in Turns
    BY <1>4 DEF StartBatch, NextIs, EndsOK
  <2> QED
    BY <1>1, <1>4, <2>1, StartBatchTyped, TypePartsNext DEF TypedNext
<1>5. CASE \E c \in 1..Len(runs) : StartChild(c) \/ ChildEnds(c)
  BY <1>1, <1>5, ChildStepTyped, TypePartsNext DEF TypedNext
<1>6. CASE Collect \/ TimeOut
  BY <1>1, <1>6, CollectTyped, TypePartsNext DEF TypedNext
<1>7. CASE FinishBatch
  BY <1>1, <1>7, FinishBatchTyped, TypePartsNext DEF TypedNext
<1>8. CASE LeaveStep
  BY <1>1, <1>8, DrainTyped, TypePartsNext DEF TypedNext, LeaveStep
<1>9. CASE EndStep
  BY <1>1, <1>9, EndStepTyped, TypePartsNext DEF TypedNext, EndStep
<1>10. CASE UNCHANGED vars
  BY <1>10 DEF vars, loop, batch, tools, pool, record, TypeOK
<1> QED
  BY <1>2, <1>3, <1>4, <1>5, <1>6, <1>7, <1>8, <1>9, <1>10, StepKinds

-----------------------------------------------------------------------------
(* How turns end. *)

(* The exchanges of a turn are finitely many. *)
LEMMA Counted ==
    ASSUME LoopTyped, NEW t
    PROVE  Occurrences(t) \in Nat
<1>1. Len(context) \in Nat
  BY LenProperties DEF LoopTyped
<1> QED
  BY <1>1, Positions DEF Occurrences

(* One exchange more in the context. *)
LEMMA ExchangeCounted ==
    ASSUME LoopTyped, turn \in Turns, turn' = turn, context' = Append(context, turn)
    PROVE  /\ Occurrences(turn)' = Occurrences(turn) + 1
           /\ \A t \in Turns : t # turn => Occurrences(t)' = Occurrences(t)
<1>1. Len(context) \in Nat /\ context \in Seq(Turns)
  BY LenProperties DEF LoopTyped
<1>2. /\ Len(context') = Len(context) + 1 /\ context'[Len(context) + 1] = turn
      /\ \A i \in 1..Len(context) : context'[i] = context[i]
  BY <1>1, AppendProperties
<1>3. \A i : i \in 1..Len(context') <=> i \in 1..Len(context) \/ i = Len(context) + 1
  BY <1>1, <1>2
<1> DEFINE Now(t)  == {i \in 1..Len(context) : context[i] = t}
           Then(t) == {i \in 1..Len(context') : context'[i] = t}
<1>4. Then(turn) = Now(turn) \cup {Len(context) + 1}
  BY <1>2, <1>3
<1>5. \A t \in Turns : t # turn => Then(t) = Now(t)
  BY <1>2, <1>3
<1>6. IsFiniteSet(Now(turn))
  BY <1>1, Positions
<1>7. Len(context) + 1 \notin Now(turn)
  BY <1>1
<1> HIDE DEF Now, Then
<1>8. Cardinality(Then(turn)) = Cardinality(Now(turn)) + 1
  BY <1>4, <1>6, <1>7, OneMore
<1> QED
  BY <1>5, <1>8 DEF Occurrences, Now, Then

(* A step that leaves the turn's record alone: the agent stays where it is *)
(* or goes on before the exchange is added.                                *)
Midway == {"model", "tools", "collect", "drain", "append"}

(* Such a step keeps the record. *)
LEMMA RecordKept ==
    ASSUME EndsOK, EndIsToldAlike, UNCHANGED <<turn, record>>,
           \/ UNCHANGED <<pc, ending>>
           \/ /\ pc \in Midway /\ pc' \in Midway
              /\ pc' = "append" => ending' \in {"completed", "error"}
    PROVE  EndsOK' /\ EndIsToldAlike'
<1>1. UNCHANGED <<turn, log, outcome, context>>
  BY DEF record
<1>2. \A t \in Turns : Occurrences(t)' = Occurrences(t)
  BY <1>1 DEF Occurrences
<1>3. EndIsToldAlike'
  BY <1>1, <1>2 DEF EndIsToldAlike
<1>4. \A t \in Turns : EndOf(t)'
  <2>1. SUFFICES ASSUME NEW t \in Turns
                 PROVE  EndOf(t)'
    OBVIOUS
  <2>2. EndOf(t) /\ Occurrences(t)' = Occurrences(t)
    BY <1>2 DEF EndsOK
  <2>3. CASE UNCHANGED <<pc, ending>>
    BY <1>1, <2>2, <2>3 DEF EndOf
  <2>4. CASE pc \in Midway /\ pc' \in Midway
    BY <1>1, <2>2, <2>4 DEF EndOf, Midway
  <2> QED
    BY <2>3, <2>4
<1> QED
  BY <1>1, <1>3, <1>4 DEF EndsOK, Midway

(* A turn that is over: what the caller saw, the log and the context tell  *)
(* of it agree.                                                            *)
LEMMA TurnOver ==
    ASSUME LoopTyped, EndsOK, EndIsToldAlike, pc # "idle", NEW how, Over(how),
           \/ how = "dropped" /\ UNCHANGED log
           \/ how = "returned" /\ pc = "announce" /\ UNCHANGED log
           \/ /\ how = "raised" /\ log' = Logged("error") /\ pc \notin {"append", "log"}
              /\ pc = "announce" => "callback" \in Faults
    PROVE  EndsOK' /\ EndIsToldAlike'
<1>1. /\ turn \in Turns /\ EndOf(turn)
      /\ pc = "announce" => ending \in {"completed", "error"}
  BY DEF EndsOK
<1>2. /\ pc' = "idle" /\ turn' = turn /\ context' = context
      /\ outcome' = [outcome EXCEPT ![turn] = how]
  BY DEF Over
<1>3. \A t \in Turns : Occurrences(t)' = Occurrences(t)
  BY <1>2 DEF Occurrences
<1>4. \A t \in Turns : t # turn => log'[t] = log[t]
  BY DEF Logged, LoopTyped
<1>5. /\ outcome'[turn] = how
      /\ \A t \in Turns : t # turn => outcome'[t] = outcome[t]
  BY <1>1, <1>2 DEF LoopTyped
<1>6. \A t \in Turns : EndOf(t)'
  <2>1. SUFFICES ASSUME NEW t \in Turns
                 PROVE  EndOf(t)'
    OBVIOUS
  <2>2. EndOf(t) /\ t > turn => t # turn
    BY DEF EndsOK, LoopTyped, Turns
  <2>3. EndOf(t) /\ Occurrences(t)' = Occurrences(t)
    BY <1>3 DEF EndsOK
  <2>4. t > turn => log'[t] = "none" /\ outcome'[t] = "none" /\ Occurrences(t)' = 0
    BY <1>4, <1>5, <2>2, <2>3 DEF EndOf
  <2> QED
    BY <1>2, <2>4 DEF EndOf
<1>7. EndIsToldAlike'
  <2> DEFINE Told(t) ==
        /\ outcome[t] = "returned" => /\ log[t] \in {"completed", "error"}
                                      /\ Occurrences(t) = 1
        /\ outcome[t] = "unprepared" => Occurrences(t) = 0
        /\ outcome[t] = "raised" =>
             /\ log[t] = "error" \/ ("callback" \in Faults /\ log[t] = "completed")
             /\ Occurrences(t) > 0 => "callback" \in Faults
  <2>1. ASSUME NEW t \in Turns, t # turn
        PROVE  Told(t)'
    BY <1>3, <1>4, <1>5, <2>1 DEF EndIsToldAlike
  <2>2. Told(turn)'
    <3>1. Occurrences(turn)' = Occurrences(turn)
      BY <1>1, <1>2, <1>3
    <3>2. CASE how = "dropped"
      BY <1>2, <1>5, <3>2
    <3>3. CASE how = "returned" /\ pc = "announce" /\ UNCHANGED log
      <4>1. log[turn] \in {"completed", "error"} /\ Occurrences(turn) = 1
        BY <1>1, <3>3 DEF EndOf
      <4> QED
        BY <1>2, <1>5, <3>1, <3>3, <4>1
    <3>4. CASE /\ how = "raised" /\ log' = Logged("error") /\ pc \notin {"append", "log"}
               /\ pc = "announce" => "callback" \in Faults
      <4>1. log'[turn] = IF log[turn] = "open" THEN "error" ELSE log[turn]
        BY <1>1, <3>4 DEF Logged, LoopTyped
      <4>2. log'[turn] = "error" \/ ("callback" \in Faults /\ log'[turn] = "completed")
        BY <1>1, <3>4, <4>1 DEF EndOf
      <4>3. Occurrences(turn) > 0 => "callback" \in Faults
        BY <1>1, <3>4 DEF EndOf
      <4> QED
        BY <1>2, <1>5, <3>1, <3>4, <4>2, <4>3
    <3> QED
      BY <3>2, <3>3, <3>4
  <2>3. \A t \in Turns : Told(t)'
    BY <1>2, <2>1, <2>2
  <2> QED
    BY <2>3 DEF EndIsToldAlike
<1> QED
  BY <1>2, <1>6, <1>7 DEF EndsOK

(* A new turn begins with no trace, prepared or not. *)
LEMMA EndsBegin ==
    ASSUME LoopTyped, EndsOK, EndIsToldAlike, BeginTurn
    PROVE  EndsOK' /\ EndIsToldAlike'
<1>1. /\ turn' = turn + 1 /\ context' = context /\ pc = "idle" /\ turn \in Nat
      /\ turn + 1 \in Turns
  BY AgentAssumption DEF BeginTurn, LoopTyped, Turns
<1>2. \A t \in Turns : Occurrences(t)' = Occurrences(t)
  BY <1>1 DEF Occurrences
<1>3. /\ log'[turn + 1] = "open"
      /\ \A t \in Turns : t # turn + 1 => log'[t] = log[t] /\ outcome'[t] = outcome[t]
      /\ \/ pc' = "model" /\ outcome'[turn + 1] = outcome[turn + 1]
         \/ pc' = "idle" /\ outcome'[turn + 1] = "unprepared"
  <2>1. log' = [log EXCEPT ![turn + 1] = "open"]
    BY DEF BeginTurn
  <2>2. \/ pc' = "model" /\ outcome' = outcome
        \/ pc' = "idle" /\ outcome' = [outcome EXCEPT ![turn + 1] = "unprepared"]
    BY DEF BeginTurn
  <2> QED
    BY <1>1, <2>1, <2>2 DEF LoopTyped
<1>4. outcome[turn + 1] = "none" /\ Occurrences(turn + 1) = 0
  <2>1. EndOf(turn + 1)
    BY <1>1 DEF EndsOK
  <2> QED
    BY <1>1, <2>1 DEF EndOf
<1>5. \A t \in Turns : EndOf(t)'
  <2>1. SUFFICES ASSUME NEW t \in Turns
                 PROVE  EndOf(t)'
    OBVIOUS
  <2>2. EndOf(t) /\ t \in Nat
    BY DEF EndsOK, Turns
  <2>3. CASE t = turn + 1
    <3>1. Occurrences(t)' = 0 /\ ~(t > turn')
      BY <1>1, <1>2, <1>4, <2>3
    <3> QED
      BY <1>1, <1>3, <1>4, <2>3, <3>1 DEF EndOf
  <2>4. CASE t # turn + 1
    <3>1. t # turn' /\ (t > turn' => t > turn)
      BY <1>1, <2>2, <2>4
    <3>2. t > turn' => log'[t] = "none" /\ outcome'[t] = "none" /\ Occurrences(t)' = 0
      BY <1>2, <1>3, <2>2, <2>4, <3>1 DEF EndOf
    <3> QED
      BY <3>1, <3>2 DEF EndOf
  <2> QED
    BY <2>3, <2>4
<1>6. EndIsToldAlike'
  <2>1. \A t \in Turns : t # turn + 1 => log'[t] = log[t] /\ outcome'[t] = outcome[t]
    BY <1>3
  <2>2. outcome'[turn + 1] \in {"none", "unprepared"}
    BY <1>3, <1>4
  <2> QED
    BY <1>2, <1>4, <2>1, <2>2 DEF EndIsToldAlike
<1>7. pc' \in {"model", "idle"}
  BY <1>3
<1> QED
  BY <1>1, <1>5, <1>6, <1>7 DEF EndsOK

(* The two steps that record how a turn ended. *)
LEMMA EndsAppend ==
    ASSUME LoopTyped, EndsOK, EndIsToldAlike, AppendExchange
    PROVE  EndsOK' /\ EndIsToldAlike'
<1>1. /\ turn \in Turns /\ turn' = turn /\ pc = "append" /\ pc' = "log"
      /\ UNCHANGED <<ending, log, outcome>>
      /\ context' = Append(context, turn)
  BY DEF AppendExchange, EndsOK, loop
<1>2. /\ Occurrences(turn)' = Occurrences(turn) + 1
      /\ \A t \in Turns : t # turn => Occurrences(t)' = Occurrences(t)
  BY <1>1, ExchangeCounted
<1>3. outcome[turn] = "none" /\ log[turn] = "open" /\ Occurrences(turn) = 0
  BY <1>1 DEF EndsOK, EndOf
<1>4. \A t \in Turns : EndOf(t)'
  <2>1. SUFFICES ASSUME NEW t \in Turns
                 PROVE  EndOf(t)'
    OBVIOUS
  <2>2. CASE t = turn
    <3>1. ~(t > turn) /\ Occurrences(t)' = 1
      BY <1>1, <1>2, <1>3, <2>2 DEF Turns
    <3> QED
      BY <1>1, <1>3, <2>2, <3>1 DEF EndOf
  <2>3. CASE t # turn
    <3>1. Occurrences(t)' = Occurrences(t) /\ EndOf(t)
      BY <1>2, <2>3 DEF EndsOK
    <3> QED
      BY <1>1, <2>3, <3>1 DEF EndOf
  <2> QED
    BY <2>2, <2>3
<1>5. EndIsToldAlike'
  BY <1>1, <1>2, <1>3 DEF EndIsToldAlike
<1> QED
  BY <1>1, <1>4, <1>5 DEF EndsOK

(* finish_turn, once the exchange is in the context. *)
LEMMA EndsLog ==
    ASSUME LoopTyped, EndsOK, EndIsToldAlike, FinishLog
    PROVE  EndsOK' /\ EndIsToldAlike'
<1>1. /\ turn \in Turns /\ turn' = turn /\ pc = "log" /\ pc' = "announce"
      /\ UNCHANGED <<ending, context, outcome>>
      /\ log' = Logged(ending)
  BY DEF FinishLog, EndsOK, loop
<1>2. \A t \in Turns : Occurrences(t)' = Occurrences(t)
  BY <1>1 DEF Occurrences
<1>3. outcome[turn] = "none" /\ log[turn] = "open" /\ Occurrences(turn) = 1
  BY <1>1 DEF EndsOK, EndOf
<1>4. log'[turn] = ending /\ \A t \in Turns : t # turn => log'[t] = log[t]
  BY <1>1, <1>3 DEF Logged, LoopTyped
<1>5. \A t \in Turns : EndOf(t)'
  <2>1. SUFFICES ASSUME NEW t \in Turns
                 PROVE  EndOf(t)'
    OBVIOUS
  <2>2. EndOf(t) /\ Occurrences(t)' = Occurrences(t)
    BY <1>2 DEF EndsOK
  <2>3. CASE t = turn
    <3>1. ~(t > turn)
      BY <1>1, <2>3 DEF Turns
    <3> QED
      BY <1>1, <1>3, <1>4, <2>2, <2>3, <3>1 DEF EndOf
  <2>4. CASE t # turn
    BY <1>1, <1>4, <2>2, <2>4 DEF EndOf
  <2> QED
    BY <2>3, <2>4
<1>6. EndIsToldAlike'
  BY <1>1, <1>2, <1>3, <1>4 DEF EndIsToldAlike
<1> QED
  BY <1>1, <1>5, <1>6 DEF EndsOK

(* Every step keeps what is told of the ends. *)
LEMMA EndsNext ==
    ASSUME LoopTyped, EndsOK, EndIsToldAlike, [Next]_vars
    PROVE  EndsOK' /\ EndIsToldAlike'
<1>1. CASE BeginTurn
  BY <1>1, EndsBegin
<1>2. CASE AppendExchange
  BY <1>2, EndsAppend
<1>3. CASE FinishLog
  BY <1>3, EndsLog
<1>4. CASE Reply \/ IterationLimit \/ CallTool \/ Refresh \/ SubmitPlan \/ CallsAnswered
  <2>1. UNCHANGED <<turn, record>> /\ pc \in Midway /\ pc' \in Midway
    BY <1>4 DEF Reply, Replied, IterationLimit, CallTool, Refresh, SubmitPlan, PlanAccepted,
                CallsAnswered, NextIs, Midway, loop
  <2>2. pc' = "append" => ending' \in {"completed", "error"}
    BY <1>4 DEF Reply, Replied, IterationLimit, CallTool, Refresh, SubmitPlan, PlanAccepted,
                CallsAnswered, NextIs
  <2> QED
    BY <2>1, <2>2, RecordKept
<1>5. CASE StartBatch \/ FinishBatch \/ LeaveBatch
  <2>1. UNCHANGED <<turn, record>> /\ pc \in Midway /\ pc' \in Midway /\ pc' # "append"
    BY <1>5 DEF StartBatch, FinishBatch, LeaveBatch, NextIs, Midway, loop
  <2> QED
    BY <2>1, RecordKept
<1>6. CASE \/ Collect \/ TimeOut \/ ReloadCheck \/ ReloadSwap
           \/ \E c \in 1..Len(runs) : StartChild(c) \/ ChildEnds(c)
  <2>1. UNCHANGED <<turn, record, pc, ending>>
    BY <1>6 DEF Collect, TimeOut, ReloadCheck, ReloadSwap, StartChild, Started, ChildEnds, loop
  <2> QED
    BY <2>1, RecordKept
<1>7. CASE ReplyRaises \/ AnnounceRaises
  <2>1. pc \in {"model", "collect"} /\ Raise
    BY <1>7 DEF ReplyRaises, AnnounceRaises
  <2> QED
    BY <2>1, TurnOver DEF Raise
<1>8. CASE CallbackRaises
  <2>1. pc \in {"tools", "announce"} /\ Raise /\ "callback" \in Faults
    BY <1>8 DEF CallbackRaises
  <2> QED
    BY <2>1, TurnOver DEF Raise
<1>9. CASE Drain
  <2>1. pc = "drain" /\ (Raise \/ (Over("dropped") /\ UNCHANGED log))
    BY <1>9 DEF Drain
  <2> QED
    BY <2>1, TurnOver DEF Raise
<1>10. CASE Return
  <2>1. pc = "announce" /\ Over("returned") /\ UNCHANGED log
    BY <1>10 DEF Return
  <2> QED
    BY <2>1, TurnOver
<1>11. CASE InterruptWait \/ Interrupt
  <2>1. pc # "idle" /\ Over("dropped") /\ UNCHANGED log
    BY <1>11 DEF InterruptWait, Interrupt
  <2> QED
    BY <2>1, TurnOver
<1>12. CASE UNCHANGED vars
  <2>1. UNCHANGED <<turn, record, pc, ending>>
    BY <1>12 DEF vars, loop
  <2> QED
    BY <2>1, RecordKept
<1> QED
  BY <1>1, <1>2, <1>3, <1>4, <1>5, <1>6, <1>7, <1>8, <1>9, <1>10, <1>11, <1>12 DEF Next, AgentStep

-----------------------------------------------------------------------------
(* How calls are answered. *)

(* A report that was given stays: the records are only added to, and a     *)
(* settled one is not opened again.                                        *)
RunsKept ==
    /\ Len(runs) \in Nat /\ Len(runs') \in Nat /\ Len(runs) <= Len(runs')
    /\ \A c \in 1..Len(runs) : /\ runs'[c].call = runs[c].call /\ runs'[c].turn = runs[c].turn
                               /\ runs'[c].manager = runs[c].manager
                               /\ runs[c].status # "running" => runs'[c].status # "running"

(* No step takes a report back. *)
LEMMA RunsNeverLost ==
    ASSUME TypeOK, EndsOK, [Next]_vars
    PROVE  RunsKept
<1>1. LoopTyped /\ BatchTyped /\ PoolTyped /\ Len(runs) \in Nat
  BY TypeParts, ChildrenFacts
<1>2. CASE StartBatch
  <2>1. turn \in Turns
    BY <1>2 DEF StartBatch, NextIs, EndsOK
  <2>2. Len(runs') = Len(runs) + Allowed /\ \A c \in 1..Len(runs) : runs'[c] = runs[c]
    BY <1>1, <1>2, <2>1, StartedRuns
  <2>3. Allowed \in Nat
    BY <1>1, <2>1, AllowedFacts
  <2> QED
    BY <1>1, <2>2, <2>3 DEF RunsKept
<1>3. CASE Collect \/ TimeOut
  <2>1. PICK s \in {"reported", "timed_out"} : Finalize(s) /\ awaited \in Children
    BY <1>3 DEF Collect, TimeOut
  <2>2. /\ Len(runs') = Len(runs) /\ runs'[awaited].status = s
        /\ \A c \in 1..Len(runs) :
             /\ c # awaited => runs'[c] = runs[c]
             /\ runs'[c].turn = runs[c].turn /\ runs'[c].manager = runs[c].manager
             /\ runs'[c].call = runs[c].call
    BY <1>1, <2>1, FinalizeTyped
  <2> QED
    BY <1>1, <2>2 DEF RunsKept
<1>4. CASE UNCHANGED runs
  BY <1>1, <1>4 DEF RunsKept
<1>5. CASE ModelStep
  BY <1>4, <1>5 DEF ModelStep, BeginTurn, Reply, Replied, ReplyRaises, IterationLimit, Raise,
                    Over, pool
<1>6. CASE ToolStep
  BY <1>4, <1>6 DEF ToolStep, CallTool, Refresh, SubmitPlan, CallsAnswered, pool
<1>7. CASE LeaveStep
  BY <1>4, <1>7 DEF LeaveStep, AnnounceRaises, LeaveBatch, Drain, InterruptWait, Raise, Over, pool
<1>8. CASE EndStep
  BY <1>4, <1>8 DEF EndStep, AppendExchange, FinishLog, Return, CallbackRaises, Interrupt,
                    ReloadCheck, ReloadSwap, Raise, Over, pool
<1>9. CASE \E c \in 1..Len(runs) : StartChild(c) \/ ChildEnds(c)
  BY <1>4, <1>9 DEF StartChild, Started, ChildEnds
<1>10. CASE FinishBatch \/ UNCHANGED vars
  BY <1>4, <1>10 DEF FinishBatch, vars, pool
<1> QED
  BY <1>2, <1>3, <1>5, <1>6, <1>7, <1>8, <1>9, <1>10, StepKinds

(* What a step does to the calls and their answers. *)
LEMMA CallsFresh ==
    ASSUME next' = 1, messages' = <<>>, Len(calls') \in Nat,
           pc' = "model" => Len(calls') = 0
    PROVE  CallsOK' /\ ReportsOK'
<1>1. Len(messages') = 0 /\ 1..Len(messages') = {}
  OBVIOUS
<1> QED
  BY <1>1 DEF CallsOK, ReportsOK

(* The calls and answers stay. *)
LEMMA CallsKept ==
    ASSUME TypeOK, EndsOK, CallsOK, ReportsOK, [Next]_vars,
           UNCHANGED <<turn, batch>>, pc' = "model" => pc = "model" \/ next > Len(calls)
    PROVE  CallsOK' /\ ReportsOK'
<1>1. RunsKept
  BY RunsNeverLost
<1>2. Len(calls) \in Nat /\ next \in Nat
  BY TypeParts, BatchFacts DEF TypeOK
<1>3. CallsOK'
  BY <1>2 DEF CallsOK, batch
<1>4. UNCHANGED <<messages, turn>>
  BY DEF batch
<1>5. ReportsOK'
  BY <1>1, <1>4 DEF ReportsOK, RunsKept
<1> QED
  BY <1>3, <1>5

(* The next call is answered, with no run. *)
LEMMA CallsAnswer ==
    ASSUME TypeOK, EndsOK, CallsOK, ReportsOK, [Next]_vars,
           turn' = turn, calls' = calls, next <= Len(calls), AnswerCall, pc' # "model"
    PROVE  CallsOK' /\ ReportsOK'
<1>1. RunsKept
  BY RunsNeverLost
<1>2. Len(calls) \in Nat /\ next \in Nat /\ Len(messages) \in Nat
  BY TypeParts, BatchFacts, LenProperties DEF TypeOK
<1>3. /\ next' = next + 1 /\ Len(messages') = Len(messages) + 1
      /\ messages'[Len(messages) + 1] = Answer(next, 0)
      /\ \A p \in 1..Len(messages) : messages'[p] = messages[p]
  BY TypeParts, AnswerTyped
<1>4. \A p \in 1..Len(messages') : p \in 1..Len(messages) \/ p = Len(messages) + 1
  BY <1>2, <1>3
<1>5. messages'[Len(messages) + 1].call = next /\ messages'[Len(messages) + 1].by = 0
  BY <1>3 DEF Answer
<1>6. CallsOK'
  <2>1. Len(messages) = next - 1 /\ \A p \in 1..Len(messages) : messages[p].call = p
    BY DEF CallsOK
  <2>2. next' <= Len(calls') + 1 /\ Len(messages') = next' - 1
    BY <1>2, <1>3, <2>1
  <2>3. \A p \in 1..Len(messages') : messages'[p].call = p
    BY <1>2, <1>3, <1>4, <1>5, <2>1
  <2> QED
    BY <2>2, <2>3 DEF CallsOK
<1>7. ReportsOK'
  <2>1. SUFFICES ASSUME NEW p \in 1..Len(messages'), messages'[p].by > 0
                 PROVE  /\ messages'[p].by \in 1..Len(runs')
                        /\ runs'[messages'[p].by].call = messages'[p].call
                        /\ runs'[messages'[p].by].turn = turn'
                        /\ runs'[messages'[p].by].status # "running"
    BY DEF ReportsOK
  <2>2. p \in 1..Len(messages)
    BY <1>4, <1>5, <2>1
  <2>3. PICK m : m = messages[p] /\ m = messages'[p]
    BY <1>3, <2>2
  <2>4. /\ m.by \in 1..Len(runs) /\ runs[m.by].call = m.call /\ runs[m.by].turn = turn
        /\ runs[m.by].status # "running"
    BY <2>1, <2>2, <2>3 DEF ReportsOK
  <2>5. /\ m.by \in 1..Len(runs') /\ runs'[m.by].call = m.call /\ runs'[m.by].turn = turn
        /\ runs'[m.by].status # "running"
    BY <1>1, <2>4 DEF RunsKept
  <2> QED
    BY <2>3, <2>5
<1> QED
  BY <1>6, <1>7

(* A batch that ends: the k-th report is that of the k-th valid request.   *)
LEMMA CallsFinish ==
    ASSUME TypeOK, EndsOK, CallsOK, ReportsOK, BatchOK, FinishBatch, turn' = turn
    PROVE  CallsOK' /\ ReportsOK'
<1>1. LoopTyped /\ BatchTyped /\ PoolTyped
  BY TypeParts
<1>2. /\ Len(calls) \in Nat /\ next \in Nat /\ Len(messages) \in Nat
      /\ Cardinality(SubagentCalls) \in Nat /\ Requests \subseteq SubagentCalls
      /\ SubagentCalls \subseteq 1..Len(calls)
  BY <1>1, BatchFacts, LenProperties DEF TypeOK
<1>3. /\ Len(messages') = Len(messages) + Cardinality(SubagentCalls)
      /\ \A p \in 1..Len(messages) : messages'[p] = messages[p]
      /\ \A k \in 1..Cardinality(SubagentCalls) :
           /\ next + k - 1 \in SubagentCalls
           /\ messages'[Len(messages) + k] = AnswerOf(next + k - 1)
  BY <1>1, BatchAnswers
<1>4. /\ next' = next + Cardinality(SubagentCalls) /\ calls' = calls /\ pc' = "tools"
      /\ runs' = runs /\ next' \in next..(Len(calls) + 1)
  BY <1>1, FinishBatchTyped DEF FinishBatch
<1>5. Len(messages) = next - 1
  BY DEF CallsOK
<1>6. ASSUME NEW p \in 1..Len(messages')
      PROVE  \/ p \in 1..Len(messages) /\ messages'[p] = messages[p]
             \/ p \in SubagentCalls /\ messages'[p] = AnswerOf(p)
  <2>1. CASE p <= Len(messages)
    BY <1>2, <1>3, <2>1
  <2>2. CASE p > Len(messages)
    <3>1. /\ p - Len(messages) \in 1..Cardinality(SubagentCalls)
          /\ next + (p - Len(messages)) - 1 = p /\ Len(messages) + (p - Len(messages)) = p
      BY <1>2, <1>3, <1>5, <2>2
    <3> QED
      BY <1>3, <3>1
  <2> QED
    BY <1>2, <1>3, <2>1, <2>2
<1>7. \A p \in SubagentCalls : AnswerOf(p).call = p
  BY DEF AnswerOf, Answer
<1>8. CallsOK'
  <2>1. next' <= Len(calls') + 1 /\ Len(messages') = next' - 1 /\ pc' # "model"
    BY <1>2, <1>3, <1>4, <1>5
  <2>2. \A p \in 1..Len(messages') : messages'[p].call = p
    BY <1>6, <1>7 DEF CallsOK
  <2> QED
    BY <2>1, <2>2 DEF CallsOK
<1>9. ASSUME NEW p \in SubagentCalls, AnswerOf(p).by > 0
      PROVE  /\ AnswerOf(p).by \in 1..Len(runs)
             /\ runs[AnswerOf(p).by].call = p /\ runs[AnswerOf(p).by].turn = turn
             /\ runs[AnswerOf(p).by].status # "running"
  <2> DEFINE c == first + Rank(p) - 1
  <2>1. /\ calls[p] = "subagent" /\ Rank(p) <= Cardinality(Children)
        /\ AnswerOf(p).by = c
    BY <1>9 DEF AnswerOf, Answer
  <2>2. p \in Requests
    BY <2>1 DEF Requests
  <2>3. Rank(p) \in Nat \ {0}
    <3>1. Requests \subseteq 1..Len(calls) /\ Cardinality(Requests) \in Nat
      BY <1>1, BatchFacts
    <3>2. Place(Requests, p) \in 1..Cardinality(Requests)
      BY <1>2, <2>2, <3>1, PlaceTyped
    <3> QED
      BY <3>1, <3>2, RankIsPlace
  <2>4. /\ Len(runs) \in Nat /\ first \in Nat \ {0} /\ awaited \in Nat
        /\ Children \subseteq 1..Len(runs)
        /\ Cardinality(Children) = Len(runs) - first + 1
        /\ Children = first..Len(runs)
    BY <1>1, ChildrenFacts DEF Children
  <2>5. c \in Children /\ c - first + 1 = Rank(p)
    BY <2>1, <2>3, <2>4
  <2> HIDE DEF c
  <2>6. /\ runs[c].turn = turn /\ runs[c].call \in Requests
        /\ Rank(runs[c].call) = Rank(p)
    BY <2>5 DEF BatchOK, FinishBatch
  <2>7. runs[c].call = p
    BY <1>1, <2>2, <2>6, RankTellsCalls
  <2>8. c \in first..(awaited - 1)
    <3>1. awaited \in first..(Len(runs) + 1) /\ awaited \notin Children
      BY <1>1 DEF PoolTyped, FinishBatch
    <3> QED
      BY <2>4, <2>5, <3>1
  <2>9. runs[c].status # "running"
    BY <2>8 DEF BatchOK
  <2> QED
    BY <2>1, <2>4, <2>5, <2>6, <2>7, <2>9
<1>10. ReportsOK'
  <2>1. SUFFICES ASSUME NEW p \in 1..Len(messages'), messages'[p].by > 0
                 PROVE  /\ messages'[p].by \in 1..Len(runs)
                        /\ runs[messages'[p].by].call = messages'[p].call
                        /\ runs[messages'[p].by].turn = turn
                        /\ runs[messages'[p].by].status # "running"
    BY <1>4 DEF ReportsOK
  <2>2. CASE p \in 1..Len(messages) /\ messages'[p] = messages[p]
    BY <2>1, <2>2 DEF ReportsOK
  <2>3. CASE p \in SubagentCalls /\ messages'[p] = AnswerOf(p)
    BY <1>7, <1>9, <2>1, <2>3
  <2> QED
    BY <1>6, <2>2, <2>3
<1> QED
  BY <1>8, <1>10

(* Every step keeps the answers and the reports in order. *)
LEMMA CallsNext ==
    ASSUME TypeOK, EndsOK, CallsOK, ReportsOK, BatchOK, [Next]_vars
    PROVE  CallsOK' /\ ReportsOK'
<1>1. LoopTyped /\ BatchTyped /\ PoolTyped
  BY TypeParts
<1>2. Len(<<>>) = 0
  OBVIOUS
<1>3. ASSUME NEW how, Over(how)
      PROVE  CallsOK' /\ ReportsOK'
  BY <1>2, <1>3, CallsFresh DEF Over
<1>4. CASE BeginTurn
  BY <1>2, <1>4, CallsFresh DEF BeginTurn
<1>5. CASE Reply
  <2>1. CASE UNCHANGED batch /\ pc' = "append"
    BY <1>5, <2>1, CallsKept DEF Reply, Replied
  <2>2. CASE calls' \in Batches /\ next' = 1 /\ messages' = <<>> /\ pc' = "tools"
    <3>1. PICK n \in 1..MaxBatch : calls' \in [1..n -> Kinds]
      BY <2>2 DEF Batches
    <3>2. n \in Nat
      BY <3>1, AgentAssumption
    <3>3. Len(calls') = n
      BY <3>1, <3>2, FunctionIsSeq
    <3> QED
      BY <2>2, <3>2, <3>3, CallsFresh
  <2> QED
    BY <1>5, <2>1, <2>2 DEF Reply, Replied
<1>6. CASE IterationLimit \/ LeaveBatch \/ AppendExchange \/ FinishLog
  <2>1. UNCHANGED <<turn, batch>> /\ pc' # "model"
    BY <1>6 DEF IterationLimit, LeaveBatch, AppendExchange, FinishLog, loop
  <2> QED
    BY <2>1, CallsKept
<1>7. CASE CallTool \/ Refresh
  <2>1. turn' = turn /\ calls' = calls /\ next <= Len(calls) /\ AnswerCall /\ pc' # "model"
    BY <1>7 DEF CallTool, Refresh, NextIs, loop
  <2> QED
    BY <2>1, CallsAnswer
<1>8. CASE SubmitPlan
  <2>1. CASE PlanAccepted
    <3>1. UNCHANGED <<turn, batch>> /\ pc' # "model"
      BY <1>8, <2>1 DEF SubmitPlan, PlanAccepted, loop
    <3> QED
      BY <3>1, CallsKept
  <2>2. CASE AnswerCall /\ UNCHANGED <<pc, calls, ending>>
    <3>1. turn' = turn /\ next <= Len(calls) /\ pc' # "model"
      BY <1>8, <2>2 DEF SubmitPlan, NextIs, loop
    <3> QED
      BY <2>2, <3>1, CallsAnswer
  <2> QED
    BY <1>8, <2>1, <2>2 DEF SubmitPlan
<1>9. CASE CallsAnswered
  <2>1. UNCHANGED <<turn, batch>> /\ next > Len(calls)
    BY <1>9 DEF CallsAnswered, loop
  <2> QED
    BY <2>1, CallsKept
<1>10. CASE StartBatch \/ Collect \/ TimeOut \/ ReloadCheck \/ ReloadSwap
            \/ \E c \in 1..Len(runs) : StartChild(c) \/ ChildEnds(c)
  <2>1. UNCHANGED <<turn, batch>> /\ (pc' = pc \/ pc' = "collect")
    BY <1>10 DEF StartBatch, Collect, TimeOut, ReloadCheck, ReloadSwap, StartChild, Started,
                 ChildEnds, loop
  <2> QED
    BY <2>1, CallsKept
<1>11. CASE FinishBatch
  <2>1. turn' = turn
    BY <1>11 DEF FinishBatch, loop
  <2> QED
    BY <1>11, <2>1, CallsFinish
<1>12. CASE \/ ReplyRaises \/ AnnounceRaises \/ CallbackRaises
            \/ Drain \/ Return \/ InterruptWait \/ Interrupt
  <2>1. \E how \in {"raised", "dropped", "returned"} : Over(how)
    BY <1>12 DEF ReplyRaises, AnnounceRaises, CallbackRaises, Drain, Return, InterruptWait,
                 Interrupt, Raise
  <2> QED
    BY <1>3, <2>1
<1>13. CASE UNCHANGED vars
  <2>1. UNCHANGED <<turn, batch, pc>>
    BY <1>13 DEF vars, loop
  <2> QED
    BY <2>1, CallsKept
<1> QED
  BY <1>4, <1>5, <1>6, <1>7, <1>8, <1>9, <1>10, <1>11, <1>12, <1>13 DEF Next, AgentStep

-----------------------------------------------------------------------------
(* The batch of subagents. *)

(* What Rank and Requests are told from. *)
LEMMA RequestsKept ==
    ASSUME UNCHANGED batch
    PROVE  Requests' = Requests /\ \A p : Rank(p)' = Rank(p)
<1>1. UNCHANGED <<calls, next>>
  BY DEF batch
<1>2. SubagentCalls' = SubagentCalls
  BY <1>1 DEF SubagentCalls
<1> QED
  BY <1>1, <1>2 DEF Requests, Rank

(* A step that stays with the batch, or leaves it, keeps it. *)
LEMMA BatchKept ==
    ASSUME TypeOK, EndsOK, BatchOK, [Next]_vars, UNCHANGED first,
           \/ UNCHANGED awaited
           \/ awaited' = awaited + 1 /\ awaited \in 1..Len(runs) /\ runs'[awaited].status # "running",
           pc' \in {"collect", "drain"} =>
             /\ pc \in {"collect", "drain"} /\ UNCHANGED <<turn, batch>>
             /\ Len(runs') = Len(runs)
    PROVE  BatchOK'
<1>1. RunsKept
  BY RunsNeverLost
<1>2. /\ Len(runs) \in Nat /\ first \in Nat \ {0} /\ awaited \in Nat
      /\ awaited \in first..(Len(runs) + 1)
  BY TypeParts, ChildrenFacts DEF PoolTyped
<1>3. \A c \in first..(awaited - 1) : c \in 1..Len(runs)
  BY <1>2
<1>4. \A c \in first..(awaited' - 1) : runs'[c].status # "running"
  <2>1. SUFFICES ASSUME NEW c \in first..(awaited' - 1)
                 PROVE  runs'[c].status # "running"
    OBVIOUS
  <2>2. CASE c \in first..(awaited - 1)
    BY <1>1, <1>3, <2>2 DEF BatchOK, RunsKept
  <2>3. CASE c \notin first..(awaited - 1)
    <3>1. awaited' = awaited + 1 /\ runs'[awaited].status # "running"
      BY <2>1, <2>3
    <3>2. c = awaited
      BY <1>2, <2>1, <2>3, <3>1
    <3> QED
      BY <3>1, <3>2
  <2> QED
    BY <2>2, <2>3
<1>5. ASSUME pc' \in {"collect", "drain"}, NEW c \in Children'
      PROVE  (runs[c].turn = turn /\ runs[c].call \in Requests /\ Rank(runs[c].call) = c - first + 1)'
  <2>1. /\ pc \in {"collect", "drain"} /\ UNCHANGED <<turn, batch>>
        /\ Len(runs') = Len(runs)
    BY <1>5
  <2>2. Requests' = Requests /\ \A p : Rank(p)' = Rank(p)
    BY <2>1, RequestsKept
  <2>3. c \in Children
    BY <1>5, <2>1 DEF Children
  <2>4. c \in 1..Len(runs)
    BY <1>2, <2>3 DEF Children
  <2>5. /\ runs[c].turn = turn /\ runs[c].call \in Requests /\ Rank(runs[c].call) = c - first + 1
    BY <2>1, <2>3 DEF BatchOK
  <2>6. runs'[c].turn = runs[c].turn /\ runs'[c].call = runs[c].call
    BY <1>1, <2>4 DEF RunsKept
  <2>7. Rank(runs[c].call)' = Rank(runs[c].call)
    <3>1. UNCHANGED <<calls, next, SubagentCalls>>
      BY <2>1 DEF batch, SubagentCalls
    <3> QED
      BY <2>6, <3>1 DEF Rank
  <2> QED
    BY <2>1, <2>2, <2>5, <2>6, <2>7
<1> QED
  BY <1>4, <1>5 DEF BatchOK

(* The runs of a new batch are those of its valid requests, in order. *)
LEMMA BatchStarted ==
    ASSUME TypeOK, EndsOK, StartBatch
    PROVE  BatchOK'
<1>1. LoopTyped /\ BatchTyped /\ PoolTyped /\ turn \in Turns
  BY TypeParts DEF StartBatch, NextIs, EndsOK
<1>2. /\ Len(runs') = Len(runs) + Allowed
      /\ \A k \in 1..Allowed :
           runs'[Len(runs) + k] = [turn |-> turn, manager |-> manager,
                                   call |-> Request(k), status |-> "running"]
  BY <1>1, StartedRuns
<1>3. /\ Len(runs) \in Nat /\ Allowed \in Nat /\ Allowed <= Cardinality(Requests)
      /\ Cardinality(Requests) \in Nat
  BY <1>1, ChildrenFacts, AllowedFacts, BatchFacts
<1>4. /\ first' = Len(runs) + 1 /\ awaited' = Len(runs) + 1 /\ turn' = turn
      /\ UNCHANGED <<batch, calls, next>>
  BY DEF StartBatch, loop, batch
<1>5. Requests' = Requests /\ SubagentCalls' = SubagentCalls
  BY <1>4, RequestsKept DEF SubagentCalls
<1>6. ASSUME NEW c \in Children'
      PROVE  (runs[c].turn = turn /\ runs[c].call \in Requests /\ Rank(runs[c].call) = c - first + 1)'
  <2>1. c - Len(runs) \in 1..Allowed /\ Len(runs) + (c - Len(runs)) = c
    BY <1>2, <1>3, <1>4 DEF Children
  <2>2. PICK k \in 1..Allowed : k = c - Len(runs)
    BY <2>1
  <2>3. runs'[c].turn = turn /\ runs'[c].call = Request(k)
    <3>1. c = Len(runs) + k
      BY <2>1, <2>2
    <3>2. runs'[Len(runs) + k] = [turn |-> turn, manager |-> manager,
                                  call |-> Request(k), status |-> "running"]
      BY <1>2
    <3>3. runs'[c] = [turn |-> turn, manager |-> manager,
                      call |-> Request(k), status |-> "running"]
      BY <3>1, <3>2, Zenon
    <3> QED
      BY <3>3
  <2>4. k \in 1..Cardinality(Requests)
    BY <1>3
  <2>5. Request(k) \in Requests /\ Rank(Request(k)) = k
    BY <1>1, <2>4, RequestFound
  <2>6. PICK p : p = Request(k)
    OBVIOUS
  <2>7. Rank(runs[c].call)' = Rank(p)
    BY <1>4, <1>5, <2>3, <2>6 DEF Rank
  <2>8. c - first' + 1 = k
    BY <1>3, <1>4, <2>1, <2>2
  <2> QED
    BY <1>4, <1>5, <2>3, <2>5, <2>6, <2>7, <2>8
<1>7. first'..(awaited' - 1) = {}
  BY <1>3, <1>4
<1> QED
  BY <1>6, <1>7 DEF BatchOK

(* Every step keeps the batch. *)
LEMMA BatchNext ==
    ASSUME TypeOK, EndsOK, BatchOK, [Next]_vars
    PROVE  BatchOK'
<1>1. LoopTyped /\ BatchTyped /\ PoolTyped
  BY TypeParts
<1>2. CASE StartBatch
  BY <1>2, BatchStarted
<1>3. CASE Collect \/ TimeOut
  <2>1. PICK s \in {"reported", "timed_out"} : Finalize(s) /\ awaited \in Children
    BY <1>3 DEF Collect, TimeOut
  <2>2. /\ Len(runs') = Len(runs) /\ awaited \in 1..Len(runs) /\ awaited' = awaited + 1
        /\ runs'[awaited].status = s
    BY <1>1, <2>1, FinalizeTyped
  <2>3. UNCHANGED <<turn, batch, first>> /\ pc \in {"collect", "drain"}
    BY <1>3 DEF Collect, TimeOut, loop
  <2> QED
    BY <2>2, <2>3, BatchKept
<1>4. CASE LeaveBatch
  <2>1. pc = "collect" /\ UNCHANGED <<turn, batch, runs, first, awaited>>
    BY <1>4 DEF LeaveBatch, loop, pool
  <2> QED
    BY <2>1, BatchKept
<1>5. CASE ReloadSwap \/ UNCHANGED vars \/ \E c \in 1..Len(runs) : StartChild(c) \/ ChildEnds(c)
  <2>1. UNCHANGED <<pc, turn, batch, runs, first, awaited>>
    BY <1>5 DEF ReloadSwap, StartChild, Started, ChildEnds, vars, loop, pool
  <2> QED
    BY <2>1, BatchKept
<1>6. CASE ModelStep
  <2>1. UNCHANGED <<runs, first, awaited>> /\ pc' \notin {"collect", "drain"}
    BY <1>6 DEF ModelStep, BeginTurn, Reply, Replied, ReplyRaises, IterationLimit, Raise, Over, pool
  <2> QED
    BY <2>1, BatchKept
<1>7. CASE ToolStep
  <2>1. UNCHANGED <<runs, first, awaited>> /\ pc' \notin {"collect", "drain"}
    BY <1>7 DEF ToolStep, CallTool, Refresh, SubmitPlan, PlanAccepted, CallsAnswered, NextIs, pool
  <2> QED
    BY <2>1, BatchKept
<1>8. CASE FinishBatch \/ AnnounceRaises \/ Drain \/ InterruptWait
  <2>1. UNCHANGED <<runs, first, awaited>> /\ pc' \notin {"collect", "drain"}
    BY <1>8 DEF FinishBatch, AnnounceRaises, Drain, InterruptWait, Raise, Over
  <2> QED
    BY <2>1, BatchKept
<1>9. CASE AppendExchange \/ FinishLog \/ Return \/ CallbackRaises \/ Interrupt \/ ReloadCheck
  <2>1. UNCHANGED <<runs, first, awaited>> /\ pc' \notin {"collect", "drain"}
    BY <1>9 DEF AppendExchange, FinishLog, Return, CallbackRaises, Interrupt, ReloadCheck,
                Raise, Over, pool
  <2> QED
    BY <2>1, BatchKept
<1> QED
  BY <1>2, <1>3, <1>4, <1>5, <1>6, <1>7, <1>8, <1>9, StepKinds DEF LeaveStep, EndStep

-----------------------------------------------------------------------------
(* What a manager has started for a turn. *)

(* The runs of a manager and turn are finitely many. *)
LEMMA RunsCounted ==
    ASSUME PoolTyped, NEW t, NEW m
    PROVE  IsFiniteSet(RunsOf(t, m)) /\ Cardinality(RunsOf(t, m)) \in Nat
<1>1. Len(runs) \in Nat
  BY ChildrenFacts
<1> QED
  BY <1>1, Positions DEF RunsOf

(* They do not change while no run is added. *)
LEMMA RunsSame ==
    ASSUME RunsKept, Len(runs') = Len(runs), NEW t, NEW m
    PROVE  RunsOf(t, m)' = RunsOf(t, m)
BY DEF RunsOf, RunsKept

(* A step that adds no run and keeps the manager keeps the quota. *)
LEMMA QuotaKept ==
    ASSUME TypeOK, EndsOK, QuotaOK, [Next]_vars,
           Len(runs') = Len(runs), UNCHANGED <<manager, counts>>,
           turn' = turn \/ turn' = turn + 1
    PROVE  QuotaOK'
<1>1. RunsKept
  BY RunsNeverLost
<1>2. \A t, m : RunsOf(t, m)' = RunsOf(t, m)
  BY <1>1, RunsSame
<1>3. \A c \in 1..Len(runs') : runs'[c].turn <= turn' /\ runs'[c].manager <= manager'
  <2>1. SUFFICES ASSUME NEW c \in 1..Len(runs)
                 PROVE  runs'[c].turn <= turn' /\ runs'[c].manager <= manager'
    OBVIOUS
  <2>2. runs[c] \in Run /\ turn \in Nat
    BY TypeParts, ElementOfSeq DEF PoolTyped, LoopTyped
  <2>3. runs[c].turn \in Nat
    BY <2>2 DEF Run, Turns
  <2>4. runs'[c].turn = runs[c].turn /\ runs'[c].manager = runs[c].manager
    BY <1>1 DEF RunsKept
  <2>5. runs[c].turn <= turn /\ runs[c].manager <= manager
    BY DEF QuotaOK
  <2> QED
    BY <2>2, <2>3, <2>4, <2>5
<1>4. \A t \in Turns : Cardinality(RunsOf(t, manager))' <= counts'[t]
  <2>1. \A t \in Turns : RunsOf(t, manager)' = RunsOf(t, manager)
    BY <1>1 DEF RunsOf, RunsKept
  <2> QED
    BY <2>1 DEF QuotaOK
<1>5. \A t \in Turns, m \in 1..manager' : Cardinality(RunsOf(t, m))' <= MaxPerTurn
  BY <1>2 DEF QuotaOK
<1> QED
  BY <1>3, <1>4, <1>5 DEF QuotaOK

(* A new manager has started none. *)
LEMMA QuotaRefreshed ==
    ASSUME TypeOK, EndsOK, QuotaOK, [Next]_vars, Refreshed, UNCHANGED <<turn, runs>>
    PROVE  QuotaOK'
<1>1. LoopTyped /\ PoolTyped /\ Len(runs) \in Nat
  BY TypeParts, ChildrenFacts
<1>2. manager \in Nat /\ manager' = manager + 1 /\ MaxPerTurn \in Nat
  BY <1>1, AgentAssumption DEF Refreshed, LoopTyped
<1>3. \A t, m : RunsOf(t, m)' = RunsOf(t, m)
  BY DEF RunsOf
<1>4. \A t : RunsOf(t, manager + 1) = {}
  <2>1. \A c \in 1..Len(runs) : runs[c].manager # manager + 1
    <3>1. SUFFICES ASSUME NEW c \in 1..Len(runs)
                   PROVE  runs[c].manager # manager + 1
      OBVIOUS
    <3>2. runs[c] \in Run
      BY <1>1, ElementOfSeq DEF PoolTyped
    <3>3. runs[c].manager \in Nat /\ runs[c].manager <= manager
      BY <3>2 DEF Run, QuotaOK
    <3> QED
      BY <1>2, <3>3
  <2> QED
    BY <2>1 DEF RunsOf
<1>5. Cardinality({}) = 0
  BY FS_EmptySet
<1>6. \A c \in 1..Len(runs') : runs'[c].turn <= turn' /\ runs'[c].manager <= manager'
  <2>1. SUFFICES ASSUME NEW c \in 1..Len(runs)
                 PROVE  runs[c].turn <= turn /\ runs[c].manager <= manager + 1
    BY <1>2
  <2>2. runs[c] \in Run
    BY <1>1, ElementOfSeq DEF PoolTyped
  <2>3. runs[c].manager \in Nat /\ runs[c].manager <= manager /\ runs[c].turn <= turn
    BY <2>2 DEF Run, QuotaOK
  <2> QED
    BY <1>2, <2>3
<1>7. \A t \in Turns : Cardinality(RunsOf(t, manager))' <= counts'[t]
  <2>1. SUFFICES ASSUME NEW t \in Turns
                 PROVE  Cardinality(RunsOf(t, manager))' <= counts'[t]
    OBVIOUS
  <2>2. RunsOf(t, manager)' = RunsOf(t, manager + 1)
    BY <1>2 DEF RunsOf
  <2>3. counts'[t] = 0
    BY DEF Refreshed
  <2> QED
    BY <1>4, <1>5, <2>2, <2>3
<1>8. \A t \in Turns, m \in 1..manager' : Cardinality(RunsOf(t, m))' <= MaxPerTurn
  <2>1. SUFFICES ASSUME NEW t \in Turns, NEW m \in 1..(manager + 1)
                 PROVE  Cardinality(RunsOf(t, m)) <= MaxPerTurn
    BY <1>2, <1>3
  <2>2. CASE m = manager + 1
    BY <1>2, <1>4, <1>5, <2>2
  <2>3. CASE m \in 1..manager
    BY <2>3 DEF QuotaOK
  <2> QED
    BY <1>2, <2>2, <2>3
<1> QED
  BY <1>6, <1>7, <1>8 DEF QuotaOK

(* A batch adds what its turn's allowance still has room for. *)
LEMMA QuotaStarted ==
    ASSUME TypeOK, EndsOK, QuotaOK, [Next]_vars, StartBatch
    PROVE  QuotaOK'
<1>1. LoopTyped /\ BatchTyped /\ PoolTyped /\ turn \in Turns
  BY TypeParts DEF StartBatch, NextIs, EndsOK
<1>2. /\ Len(runs') = Len(runs) + Allowed
      /\ \A c \in 1..Len(runs) : runs'[c] = runs[c]
      /\ \A k \in 1..Allowed :
           runs'[Len(runs) + k] = [turn |-> turn, manager |-> manager,
                                   call |-> Request(k), status |-> "running"]
  BY <1>1, StartedRuns
<1>3. /\ Len(runs) \in Nat /\ Allowed \in Nat
      /\ counts[turn] \in Nat /\ counts[turn] + Allowed \in 0..MaxPerTurn
  BY <1>1, ChildrenFacts, AllowedFacts
<1>4. /\ UNCHANGED <<turn, manager>> /\ counts' = [counts EXCEPT ![turn] = counts[turn] + Allowed]
  BY DEF StartBatch, loop
<1>5. /\ counts'[turn] = counts[turn] + Allowed
      /\ \A t \in Turns : t # turn => counts'[t] = counts[t]
  BY <1>1, <1>4 DEF PoolTyped
<1>6. turn \in Nat /\ manager \in Nat /\ manager \in 1..manager
  BY <1>1 DEF LoopTyped
<1> DEFINE new == (Len(runs) + 1)..(Len(runs) + Allowed)
<1>7. IsFiniteSet(new) /\ Cardinality(new) = Allowed
  <2>1. PICK a \in Int, b \in Int : a = Len(runs) + 1 /\ b = Len(runs) + Allowed
    BY <1>3
  <2>2. IsFiniteSet(a..b) /\ Cardinality(a..b) = IF a > b THEN 0 ELSE b - a + 1
    BY FS_Interval
  <2>3. new = a..b
    BY <2>1
  <2> HIDE DEF new
  <2> QED
    BY <1>3, <2>1, <2>2, <2>3
<1>8. \A c \in new : runs'[c].turn = turn /\ runs'[c].manager = manager
  <2>1. SUFFICES ASSUME NEW c \in new
                 PROVE  runs'[c].turn = turn /\ runs'[c].manager = manager
    OBVIOUS
  <2>2. PICK k \in 1..Allowed : c = Len(runs) + k
    <3>1. c - Len(runs) \in 1..Allowed /\ c = Len(runs) + (c - Len(runs))
      BY <1>3
    <3> QED
      BY <3>1
  <2>3. runs'[Len(runs) + k] = [turn |-> turn, manager |-> manager,
                                call |-> Request(k), status |-> "running"]
    BY <1>2
  <2>4. runs'[c] = [turn |-> turn, manager |-> manager,
                    call |-> Request(k), status |-> "running"]
    BY <2>2, <2>3, Zenon
  <2> QED
    BY <2>4
<1>9. \A c : c \in 1..Len(runs') <=> c \in 1..Len(runs) \/ c \in new
  BY <1>2, <1>3
<1> HIDE DEF new
<1>10. \A t, m : <<t, m>> # <<turn, manager>> => RunsOf(t, m)' = RunsOf(t, m)
  <2>1. SUFFICES ASSUME NEW t, NEW m, <<t, m>> # <<turn, manager>>
                 PROVE  RunsOf(t, m)' = RunsOf(t, m)
    OBVIOUS
  <2>2. t # turn \/ m # manager
    BY <2>1
  <2> QED
    BY <1>2, <1>8, <1>9, <2>2 DEF RunsOf
<1>11. RunsOf(turn, manager)' \subseteq RunsOf(turn, manager) \cup new
  BY <1>2, <1>4, <1>9 DEF RunsOf
<1>12. Cardinality(RunsOf(turn, manager))' <= counts[turn] + Allowed
  <2> DEFINE old == RunsOf(turn, manager)
  <2>1. IsFiniteSet(old) /\ Cardinality(old) \in Nat
    BY <1>1, RunsCounted
  <2>2. IsFiniteSet(old \cap new) /\ Cardinality(old \cap new) \in Nat
    BY <2>1, Within
  <2> HIDE DEF old
  <2>3. /\ IsFiniteSet(old \cup new)
        /\ Cardinality(old \cup new) = Cardinality(old) + Cardinality(new) - Cardinality(old \cap new)
    BY <1>7, <2>1, FS_Union
  <2>4. Cardinality(RunsOf(turn, manager)') <= Cardinality(old \cup new)
    BY <1>11, <2>3, Within DEF old
  <2>5. Cardinality(RunsOf(turn, manager)') \in Nat
    BY <1>11, <2>3, Within DEF old
  <2>6. Cardinality(old) <= counts[turn]
    BY <1>1 DEF QuotaOK, old
  <2> QED
    BY <1>3, <1>7, <2>1, <2>2, <2>3, <2>4, <2>5, <2>6
<1>13. \A t \in Turns : Cardinality(RunsOf(t, manager))' <= counts'[t]
  <2>1. SUFFICES ASSUME NEW t \in Turns
                 PROVE  Cardinality(RunsOf(t, manager))' <= counts'[t]
    OBVIOUS
  <2>2. CASE t = turn
    BY <1>4, <1>5, <1>12, <2>2 DEF RunsOf
  <2>3. CASE t # turn
    <3>1. RunsOf(t, manager)' = RunsOf(t, manager)
      BY <1>2, <1>4, <1>8, <1>9, <2>3 DEF RunsOf
    <3> QED
      BY <1>5, <2>3, <3>1 DEF QuotaOK
  <2> QED
    BY <2>2, <2>3
<1>14. \A t \in Turns, m \in 1..manager' : Cardinality(RunsOf(t, m))' <= MaxPerTurn
  <2>1. SUFFICES ASSUME NEW t \in Turns, NEW m \in 1..manager
                 PROVE  Cardinality(RunsOf(t, m))' <= MaxPerTurn
    BY <1>4
  <2>2. CASE t = turn /\ m = manager
    <3>1. RunsOf(t, m)' = RunsOf(turn, manager)'
      BY <1>4, <2>2 DEF RunsOf
    <3>2. IsFiniteSet(RunsOf(turn, manager)) /\ IsFiniteSet(RunsOf(turn, manager) \cup new)
      BY <1>1, <1>7, RunsCounted, FS_Union
    <3>3. Cardinality(RunsOf(turn, manager)') \in Nat
      BY <1>11, <3>2, Within
    <3>4. MaxPerTurn \in Nat
      BY AgentAssumption
    <3> QED
      BY <1>3, <1>12, <3>1, <3>3, <3>4
  <2>3. CASE t # turn \/ m # manager
    <3>1. RunsOf(t, m)' = RunsOf(t, m)
      BY <1>10, <2>3
    <3> QED
      BY <3>1 DEF QuotaOK
  <2> QED
    BY <2>2, <2>3
<1>15. \A c \in 1..Len(runs') : runs'[c].turn <= turn' /\ runs'[c].manager <= manager'
  <2>1. \A c \in 1..Len(runs) : runs'[c].turn <= turn /\ runs'[c].manager <= manager
    BY <1>2 DEF QuotaOK
  <2>2. \A c \in new : runs'[c].turn <= turn /\ runs'[c].manager <= manager
    BY <1>6, <1>8
  <2> QED
    BY <1>4, <1>9, <2>1, <2>2
<1> QED
  BY <1>13, <1>14, <1>15 DEF QuotaOK

(* Every step keeps the quota. *)
LEMMA QuotaNext ==
    ASSUME TypeOK, EndsOK, QuotaOK, [Next]_vars
    PROVE  QuotaOK'
<1>1. LoopTyped /\ BatchTyped /\ PoolTyped
  BY TypeParts
<1>2. CASE StartBatch
  BY <1>2, QuotaStarted
<1>3. CASE Refresh
  <2>1. UNCHANGED <<turn, runs>> /\ (Refreshed \/ UNCHANGED <<manager, counts>>)
    BY <1>3 DEF Refresh, loop, pool, tools
  <2> QED
    BY <2>1, QuotaRefreshed, QuotaKept
<1>4. CASE ReloadSwap
  <2>1. UNCHANGED <<turn, runs>> /\ Refreshed
    BY <1>4 DEF ReloadSwap, loop, pool
  <2> QED
    BY <2>1, QuotaRefreshed
<1>5. CASE Collect \/ TimeOut
  <2>1. PICK s \in {"reported", "timed_out"} : Finalize(s) /\ awaited \in Children
    BY <1>5 DEF Collect, TimeOut
  <2>2. Len(runs') = Len(runs)
    BY <1>1, <2>1, FinalizeTyped
  <2>3. UNCHANGED <<turn, manager, counts>>
    BY <1>5 DEF Collect, TimeOut, loop, tools
  <2> QED
    BY <2>2, <2>3, QuotaKept
<1>6. CASE ModelStep
  <2>1. UNCHANGED <<runs, manager, counts>> /\ (turn' = turn \/ turn' = turn + 1)
    BY <1>6 DEF ModelStep, BeginTurn, Reply, Replied, ReplyRaises, IterationLimit, Raise, Over,
                pool, tools, loop
  <2> QED
    BY <2>1, QuotaKept
<1>7. CASE CallTool \/ SubmitPlan \/ CallsAnswered \/ FinishBatch \/ LeaveStep
  <2>1. UNCHANGED <<turn, runs, manager, counts>>
    BY <1>7 DEF CallTool, SubmitPlan, CallsAnswered, FinishBatch, LeaveStep, AnnounceRaises,
                LeaveBatch, Drain, InterruptWait, Raise, Over, loop, pool, tools
  <2> QED
    BY <2>1, QuotaKept
<1>8. CASE AppendExchange \/ FinishLog \/ Return \/ CallbackRaises \/ Interrupt \/ ReloadCheck
  <2>1. UNCHANGED <<turn, runs, manager, counts>>
    BY <1>8 DEF AppendExchange, FinishLog, Return, CallbackRaises, Interrupt, ReloadCheck,
                Raise, Over, loop, pool, tools
  <2> QED
    BY <2>1, QuotaKept
<1>9. CASE UNCHANGED vars \/ \E c \in 1..Len(runs) : StartChild(c) \/ ChildEnds(c)
  <2>1. UNCHANGED <<turn, runs, manager, counts>>
    BY <1>9 DEF StartChild, Started, ChildEnds, vars, loop, pool, tools
  <2> QED
    BY <2>1, QuotaKept
<1> QED
  BY <1>2, <1>3, <1>4, <1>5, <1>6, <1>7, <1>8, <1>9, StepKinds DEF ToolStep, EndStep

-----------------------------------------------------------------------------
(* The pool of threads. *)

(* No child starts, and the children there are remain. *)
NoneStarts ==
    /\ Len(runs') = Len(runs) /\ Len(thread') = Len(thread) /\ UNCHANGED first
    /\ \A c \in 1..Len(runs) : /\ thread'[c] = "queued" => thread[c] = "queued"
                               /\ thread'[c] = "running" => thread[c] = "running"

(* Such a step keeps the pool. *)
LEMMA PoolKept ==
    ASSUME TypeOK, EndsOK, PoolOK, [Next]_vars, NoneStarts,
           \A c \in 1..Len(runs) :
             /\ thread'[c] = "queued" => runs'[c] = runs[c]
             /\ thread'[c] \in {"queued", "running"} =>
                  \/ c \in Children /\ pc' \in {"collect", "drain"}
                  \/ outcome'[runs[c].turn] = "dropped"
    PROVE  PoolOK'
<1>1. RunsKept
  BY RunsNeverLost
<1>2. Len(runs) \in Nat /\ Children \subseteq 1..Len(runs) /\ IsFiniteSet(Children)
  BY TypeParts, ChildrenFacts
<1>3. Children' = Children
  BY DEF Children, NoneStarts
<1>4. (\A c, d \in Children : runs[c].turn = runs[d].turn)'
  <2>1. \A c \in Children : runs'[c].turn = runs[c].turn
    BY <1>1, <1>2 DEF RunsKept
  <2> QED
    BY <1>3, <2>1 DEF PoolOK
<1>5. Cardinality(Working)' <= MaxParallel
  <2>1. IsFiniteSet(Working) /\ Cardinality(Working) \in Nat
    <3>1. Working \subseteq Children
      BY DEF Working
    <3> QED
      BY <1>2, <3>1, Within
  <2>2. Working' \subseteq Working
    BY <1>2, <1>3 DEF Working, NoneStarts
  <2>3. Cardinality(Working') <= Cardinality(Working) /\ Cardinality(Working') \in Nat
    BY <2>1, <2>2, Within
  <2>4. MaxParallel \in Nat
    BY AgentAssumption
  <2> QED
    BY <2>1, <2>3, <2>4 DEF PoolOK
<1>6. ASSUME NEW c \in 1..Len(runs), thread'[c] \in {"queued", "running"}
      PROVE  ((c \in Children /\ pc \in {"collect", "drain"}) \/ outcome[runs[c].turn] = "dropped")'
  <2>1. runs'[c].turn = runs[c].turn
    BY <1>1 DEF RunsKept
  <2> QED
    BY <1>3, <1>6, <2>1
<1>7. \A c \in 1..Len(runs') : thread'[c] = "queued" => runs'[c].status = "running"
  BY DEF NoneStarts, PoolOK
<1> QED
  BY <1>4, <1>5, <1>6, <1>7 DEF PoolOK, Live, NoneStarts

(* One child more runs: the pool has a free worker. *)
LEMMA PoolStarts ==
    ASSUME TypeOK, EndsOK, PoolOK, [Next]_vars, NEW c \in 1..Len(runs), Started(c)
    PROVE  PoolOK'
<1>1. PoolTyped /\ Len(runs) \in Nat /\ Children \subseteq 1..Len(runs) /\ IsFiniteSet(Children)
  BY TypeParts, ChildrenFacts
<1>2. /\ thread'[c] = "running" /\ thread[c] = "queued"
      /\ \A d \in 1..Len(runs) : d # c => thread'[d] = thread[d]
      /\ Len(thread') = Len(thread)
  <2>1. "running" \in Future /\ thread' = [thread EXCEPT ![c] = "running"]
    BY DEF Future, Started
  <2> QED
    BY <1>1, <2>1, ThreadTyped DEF Started
<1>3. UNCHANGED <<pc, runs, first, outcome>>
  BY DEF Started, record
<1>4. Children' = Children
  BY <1>3 DEF Children
<1>5. Cardinality(Working)' <= MaxParallel
  <2>1. IsFiniteSet(Working) /\ Cardinality(Working) \in Nat /\ MaxParallel \in Nat
    <3>1. Working \subseteq Children
      BY DEF Working
    <3> QED
      BY <1>1, <3>1, Within, AgentAssumption
  <2>2. CASE c \in Children
    <3> DEFINE used == {d \in Pool(c) : thread[d] = "running"}
    <3>1. Working \subseteq used
      <4>1. SUFFICES ASSUME NEW d \in Working
                     PROVE  d \in used
        OBVIOUS
      <4>2. d \in Children /\ thread[d] = "running"
        BY DEF Working
      <4>3. runs[d].turn = runs[c].turn /\ d \in 1..Len(runs)
        BY <1>1, <2>2, <4>2 DEF PoolOK
      <4> QED
        BY <4>2, <4>3 DEF Pool
    <3>2. IsFiniteSet(used) /\ Cardinality(used) \in Nat
      <4>1. used \subseteq 1..Len(runs)
        BY DEF Pool
      <4> QED
        BY <1>1, <4>1, Positions
    <3>3. Cardinality(used) < MaxParallel
      BY DEF Started
    <3> HIDE DEF used
    <3>4. Cardinality(Working) <= Cardinality(used)
      BY <3>1, <3>2, Within
    <3>5. Working' = Working \cup {c}
      BY <1>1, <1>2, <1>4, <2>2 DEF Working
    <3>6. c \notin Working
      BY <1>2 DEF Working
    <3>7. Cardinality(Working \cup {c}) = Cardinality(Working) + 1
      BY <2>1, <3>6, OneMore
    <3> QED
      BY <2>1, <3>2, <3>3, <3>4, <3>5, <3>7
  <2>3. CASE c \notin Children
    <3>1. Working' = Working
      BY <1>1, <1>2, <1>4, <2>3 DEF Working
    <3> QED
      BY <3>1 DEF PoolOK
  <2> QED
    BY <2>2, <2>3
<1>6. \A d \in 1..Len(runs) : thread'[d] = "queued" => thread[d] = "queued"
  BY <1>2
<1>7. \A d \in 1..Len(runs) : Live(d)' => Live(d)
  BY <1>2 DEF Live
<1> QED
  BY <1>3, <1>4, <1>5, <1>6, <1>7 DEF PoolOK

(* A batch starts: its children are queued, and those before them that go  *)
(* on are of dropped turns.                                                *)
LEMMA PoolBegins ==
    ASSUME TypeOK, EndsOK, PoolOK, [Next]_vars, StartBatch
    PROVE  PoolOK'
<1>1. LoopTyped /\ BatchTyped /\ PoolTyped /\ turn \in Turns
  BY TypeParts DEF StartBatch, NextIs, EndsOK
<1>2. /\ Len(runs') = Len(runs) + Allowed
      /\ Len(thread) = Len(runs)
      /\ \A c \in 1..Len(runs) : runs'[c] = runs[c] /\ thread'[c] = thread[c]
      /\ \A k \in 1..Allowed :
           /\ runs'[Len(runs) + k] = [turn |-> turn, manager |-> manager,
                                      call |-> Request(k), status |-> "running"]
           /\ thread'[Len(thread) + k] = "queued"
  <2>1. Len(thread) = Len(runs)
    BY <1>1 DEF PoolTyped
  <2> QED
    BY <1>1, <2>1, StartedRuns
<1>3. Len(runs) \in Nat /\ Allowed \in Nat
  BY <1>1, ChildrenFacts, AllowedFacts
<1>4. /\ first' = Len(runs) + 1 /\ pc' = "collect" /\ pc = "tools" /\ outcome' = outcome
  BY DEF StartBatch, NextIs, record
<1>5. ASSUME NEW c \in Children'
      PROVE  runs'[c].turn = turn /\ runs'[c].status = "running" /\ thread'[c] = "queued"
  <2>1. PICK k \in 1..Allowed : c = Len(runs) + k
    <3>1. c - Len(runs) \in 1..Allowed /\ c = Len(runs) + (c - Len(runs))
      BY <1>2, <1>3, <1>4 DEF Children
    <3> QED
      BY <3>1
  <2>2. /\ runs'[Len(runs) + k] = [turn |-> turn, manager |-> manager,
                                   call |-> Request(k), status |-> "running"]
        /\ thread'[Len(thread) + k] = "queued"
    BY <1>2
  <2>3. /\ runs'[c] = [turn |-> turn, manager |-> manager,
                       call |-> Request(k), status |-> "running"]
        /\ thread'[c] = "queued"
    BY <1>2, <2>1, <2>2, Zenon
  <2> QED
    BY <2>3
<1>6. \A c : c \in 1..Len(runs') <=> c \in 1..Len(runs) \/ c \in Children'
  BY <1>2, <1>3, <1>4 DEF Children
<1>7. (\A c, d \in Children : runs[c].turn = runs[d].turn)'
  BY <1>5
<1>8. Cardinality(Working)' <= MaxParallel
  <2>1. Working' = {}
    BY <1>5 DEF Working
  <2>2. Cardinality({}) = 0
    BY FS_EmptySet
  <2> QED
    BY <2>1, <2>2, AgentAssumption
<1>9. ASSUME NEW c \in 1..Len(runs), Live(c)'
      PROVE  outcome'[runs'[c].turn] = "dropped"
  <2>1. Live(c)
    BY <1>2, <1>9 DEF Live
  <2> QED
    BY <1>2, <1>4, <2>1 DEF PoolOK
<1>10. \A c \in 1..Len(runs) : thread'[c] = "queued" => runs'[c].status = "running"
  BY <1>2 DEF PoolOK
<1>11. (\A c \in 1..Len(runs) : Live(c) => \/ c \in Children /\ pc \in {"collect", "drain"}
                                           \/ outcome[runs[c].turn] = "dropped")'
  BY <1>4, <1>6, <1>9
<1>12. (\A c \in 1..Len(runs) : thread[c] = "queued" => runs[c].status = "running")'
  BY <1>5, <1>6, <1>10
<1> QED
  BY <1>7, <1>8, <1>11, <1>12 DEF PoolOK

(* A turn that is over leaves no child, but for one dropped by Ctrl-C.     *)
LEMMA PoolOver ==
    ASSUME TypeOK, EndsOK, PoolOK, [Next]_vars, pc # "idle", NEW how, Over(how),
           Len(thread') = Len(thread),
           \A c \in 1..Len(runs) :
             /\ thread'[c] \in {"queued", "running"} => thread'[c] = thread[c]
             /\ thread'[c] \in {"queued", "running"} /\ c \in Children =>
                  \/ pc \notin {"collect", "drain"}
                  \/ how = "dropped" /\ runs[c].turn = turn
    PROVE  PoolOK'
<1>1. /\ UNCHANGED <<runs, first>> /\ outcome' = [outcome EXCEPT ![turn] = how]
  BY DEF Over
<1>2. /\ turn \in Turns /\ outcome[turn] = "none" /\ runs \in Seq(Run)
      /\ Len(runs) \in Nat /\ outcome \in [Turns -> Outcomes]
  BY TypeParts, ChildrenFacts DEF EndsOK, EndOf, PoolTyped, LoopTyped
<1>3. NoneStarts
  BY <1>1 DEF NoneStarts
<1>4. ASSUME NEW c \in 1..Len(runs), thread'[c] \in {"queued", "running"}
      PROVE  outcome'[runs[c].turn] = "dropped"
  <2>1. Live(c) /\ runs[c] \in Run
    BY <1>2, <1>4, ElementOfSeq DEF Live
  <2>2. runs[c].turn \in Turns
    BY <2>1 DEF Run
  <2>3. CASE outcome[runs[c].turn] = "dropped"
    <3>1. runs[c].turn # turn
      BY <1>2, <2>3
    <3> QED
      BY <1>1, <1>2, <2>2, <2>3, <3>1
  <2>4. CASE c \in Children /\ pc \in {"collect", "drain"}
    <3>1. how = "dropped" /\ runs[c].turn = turn
      BY <1>4, <2>4
    <3> QED
      BY <1>1, <1>2, <3>1
  <2> QED
    BY <2>1, <2>3, <2>4 DEF PoolOK
<1> QED
  BY <1>1, <1>3, <1>4, PoolKept

(* The threads once the with block is left. *)
LEMMA SettledThreads ==
    ASSUME PoolTyped, Settled
    PROVE  /\ Len(thread') = Len(thread)
           /\ \A c \in 1..Len(runs) : /\ thread'[c] \in {"queued", "running"} => Live(c)
                                      /\ thread'[c] \in {"queued", "running"} => thread'[c] = thread[c]
<1>1. Len(thread') = Len(thread) /\ Len(thread) = Len(runs)
  BY SettledTyped DEF PoolTyped
<1>2. \A c \in 1..Len(runs) : thread'[c] = IF Live(c) THEN thread[c] ELSE "over"
  BY <1>1 DEF Settled
<1> QED
  BY <1>1, <1>2

(* Every step keeps the pool. *)
LEMMA PoolNext ==
    ASSUME TypeOK, EndsOK, BatchOK, PoolOK, [Next]_vars
    PROVE  PoolOK'
<1>1. LoopTyped /\ BatchTyped /\ PoolTyped /\ Len(runs) \in Nat /\ Len(thread) = Len(runs)
  BY TypeParts, ChildrenFacts DEF PoolTyped
<1>2. \A c \in 1..Len(runs) : thread[c] \in {"queued", "running"} <=> Live(c)
  BY DEF Live
<1>3. ASSUME UNCHANGED <<runs, thread, first, outcome>>,
             pc \in {"collect", "drain"} => pc' \in {"collect", "drain"}
      PROVE  PoolOK'
  <2>1. NoneStarts
    BY <1>3 DEF NoneStarts
  <2>2. \A c \in 1..Len(runs) : thread'[c] \in {"queued", "running"} =>
           \/ c \in Children /\ pc' \in {"collect", "drain"}
           \/ outcome'[runs[c].turn] = "dropped"
    BY <1>2, <1>3 DEF PoolOK
  <2> QED
    BY <1>3, <2>1, <2>2, PoolKept
<1>4. ASSUME NEW how, Over(how), UNCHANGED thread, pc \notin {"idle", "collect", "drain"}
      PROVE  PoolOK'
  BY <1>4, PoolOver
<1>5. CASE StartBatch
  BY <1>5, PoolBegins
<1>6. ASSUME NEW c \in 1..Len(runs), StartChild(c) PROVE PoolOK'
  BY <1>6, PoolStarts DEF StartChild
<1>7. ASSUME NEW c \in 1..Len(runs), ChildEnds(c) PROVE PoolOK'
  <2>1. /\ thread'[c] = "reported" /\ Len(thread') = Len(thread)
        /\ \A d \in 1..Len(runs) : d # c => thread'[d] = thread[d]
    <3>1. "reported" \in Future /\ thread' = [thread EXCEPT ![c] = "reported"]
      BY <1>7 DEF Future, ChildEnds
    <3> QED
      BY <1>1, <3>1, ThreadTyped DEF PoolTyped
  <2>2. UNCHANGED <<pc, runs, first, outcome>>
    BY <1>7 DEF ChildEnds, record
  <2>3. NoneStarts
    BY <2>1, <2>2 DEF NoneStarts
  <2>4. \A d \in 1..Len(runs) : thread'[d] \in {"queued", "running"} =>
           \/ d \in Children /\ pc' \in {"collect", "drain"}
           \/ outcome'[runs[d].turn] = "dropped"
    BY <1>2, <2>1, <2>2 DEF PoolOK
  <2> QED
    BY <2>2, <2>3, <2>4, PoolKept
<1>8. CASE Collect \/ TimeOut
  <2>1. PICK s \in {"reported", "timed_out"} : Finalize(s) /\ awaited \in Children
    BY <1>8 DEF Collect, TimeOut
  <2>2. /\ Len(runs') = Len(runs) /\ awaited \in 1..Len(runs)
        /\ \A c \in 1..Len(runs) : c # awaited => runs'[c] = runs[c]
    BY <1>1, <2>1, FinalizeTyped
  <2>3. UNCHANGED <<pc, first, outcome>> /\ pc \in {"collect", "drain"}
    BY <1>8 DEF Collect, TimeOut, record
  <2>4. /\ thread'[awaited] # "queued" /\ Len(thread') = Len(thread)
        /\ thread'[awaited] = "running" => thread[awaited] = "running"
        /\ \A d \in 1..Len(runs) : d # awaited => thread'[d] = thread[d]
    <3>1. CASE Collect
      BY <1>1, <3>1 DEF Collect, Live
    <3>2. CASE TimeOut
      <4>1. PICK f \in {"cancelled", thread[awaited]} :
              /\ thread' = [thread EXCEPT ![awaited] = f]
              /\ thread[awaited] = "queued" => f = "cancelled"
        BY <3>2 DEF TimeOut
      <4>2. f \in Future
        BY <1>1, <2>2, ElementOfSeq DEF PoolTyped, Future
      <4>3. /\ Len(thread') = Len(thread) /\ thread'[awaited] = f
            /\ \A d \in 1..Len(runs) : d # awaited => thread'[d] = thread[d]
        BY <1>1, <2>2, <4>1, <4>2, ThreadTyped
      <4> QED
        BY <4>1, <4>3
    <3> QED
      BY <1>8, <3>1, <3>2
  <2>5. NoneStarts
    BY <2>2, <2>3, <2>4 DEF NoneStarts
  <2>6. \A d \in 1..Len(runs) : thread'[d] = "queued" => runs'[d] = runs[d]
    BY <2>2, <2>4
  <2>7. \A d \in 1..Len(runs) : thread'[d] \in {"queued", "running"} =>
           \/ d \in Children /\ pc' \in {"collect", "drain"}
           \/ outcome'[runs[d].turn] = "dropped"
    <3>1. \A d \in 1..Len(runs) : thread'[d] \in {"queued", "running"} => Live(d)
      BY <2>4 DEF Live
    <3> QED
      BY <2>3, <3>1 DEF PoolOK
  <2> QED
    BY <2>5, <2>6, <2>7, PoolKept
<1>9. CASE FinishBatch
  <2>1. /\ Len(thread') = Len(thread)
        /\ \A c \in 1..Len(runs) :
             /\ thread'[c] \in {"queued", "running"} => Live(c)
             /\ thread'[c] \in {"queued", "running"} => thread'[c] = thread[c]
    BY <1>1, <1>9, SettledThreads DEF FinishBatch
  <2>2. UNCHANGED <<runs, first, outcome>> /\ \A c \in Children : ~Live(c)
    BY <1>9 DEF FinishBatch, Quiet, record
  <2>3. NoneStarts
    BY <2>1, <2>2 DEF NoneStarts
  <2>4. \A c \in 1..Len(runs) : thread'[c] \in {"queued", "running"} =>
           outcome'[runs[c].turn] = "dropped"
    BY <2>1, <2>2 DEF PoolOK
  <2> QED
    BY <2>2, <2>3, <2>4, PoolKept
<1>10. CASE Drain
  <2>1. /\ Len(thread') = Len(thread)
        /\ \A c \in 1..Len(runs) :
             /\ thread'[c] \in {"queued", "running"} => Live(c)
             /\ thread'[c] \in {"queued", "running"} => thread'[c] = thread[c]
    BY <1>1, <1>10, SettledThreads DEF Drain
  <2>2. /\ pc = "drain" /\ \A c \in Children : ~Live(c)
        /\ \E how \in {"raised", "dropped"} : Over(how)
    BY <1>10 DEF Drain, Quiet, Raise
  <2> QED
    BY <2>1, <2>2, PoolOver
<1>11. CASE InterruptWait
  <2>1. /\ Len(thread') = Len(thread)
        /\ \A c \in 1..Len(runs) :
             thread'[c] \in {"queued", "running"} => thread'[c] = thread[c]
    BY <1>1, <1>11, SettledThreads DEF InterruptWait
  <2>2. pc \in {"collect", "drain"} /\ Over("dropped")
    BY <1>11 DEF InterruptWait
  <2>3. \A c \in Children : runs[c].turn = turn
    BY <2>2 DEF BatchOK
  <2> QED
    BY <2>1, <2>2, <2>3, PoolOver
<1>12. CASE AnnounceRaises
  <2>1. /\ Len(thread') = Len(thread)
        /\ \A c \in 1..Len(runs) : thread'[c] = IF c \in Children THEN "over" ELSE thread[c]
    <3>1. thread' = [c \in 1..Len(thread) |-> IF c \in Children THEN "over" ELSE thread[c]]
      BY <1>12 DEF AnnounceRaises
    <3>2. Len(thread) \in Nat /\ thread \in [1..Len(thread) -> Future]
      BY <1>1, LenProperties DEF PoolTyped
    <3>3. thread' \in [1..Len(thread) -> Future]
      BY <3>1, <3>2 DEF Future
    <3>4. Len(thread') = Len(thread)
      BY <3>2, <3>3, FunctionIsSeq
    <3> QED
      BY <1>1, <3>1, <3>4
  <2>2. Over("raised") /\ pc = "collect"
    BY <1>12 DEF AnnounceRaises, Raise
  <2> QED
    BY <2>1, <2>2, PoolOver
<1>13. CASE BeginTurn
  <2>1. /\ UNCHANGED <<runs, thread, first>> /\ pc = "idle" /\ pc' \in {"idle", "model"}
        /\ \/ outcome' = outcome
           \/ outcome' = [outcome EXCEPT ![turn + 1] = "unprepared"]
    BY <1>13 DEF BeginTurn, pool
  <2>2. NoneStarts
    BY <2>1 DEF NoneStarts
  <2>3. turn + 1 \in Turns /\ outcome[turn + 1] = "none"
    <3>1. turn + 1 \in Turns /\ turn + 1 > turn
      BY <1>1, <1>13, AgentAssumption DEF BeginTurn, LoopTyped, Turns
    <3> QED
      BY <3>1 DEF EndsOK, EndOf
  <2>4. ASSUME NEW c \in 1..Len(runs), thread'[c] \in {"queued", "running"}
        PROVE  outcome'[runs[c].turn] = "dropped"
    <3>1. Live(c) /\ runs[c] \in Run
      BY <1>1, <2>1, <2>4, ElementOfSeq DEF Live, PoolTyped
    <3>2. outcome[runs[c].turn] = "dropped" /\ runs[c].turn \in Turns
      BY <2>1, <3>1 DEF PoolOK, Run
    <3>3. runs[c].turn # turn + 1
      BY <2>3, <3>2
    <3> QED
      BY <1>1, <2>1, <3>2, <3>3 DEF LoopTyped
  <2> QED
    BY <2>1, <2>2, <2>4, PoolKept
<1>14. CASE Reply \/ IterationLimit \/ ToolStep \/ LeaveBatch \/ AppendExchange \/ FinishLog
            \/ ReloadCheck \/ ReloadSwap \/ UNCHANGED vars
  <2>1. /\ UNCHANGED <<runs, thread, first, outcome>>
        /\ pc \in {"collect", "drain"} => pc' \in {"collect", "drain"}
    BY <1>14 DEF Reply, Replied, IterationLimit, ToolStep, CallTool, Refresh, SubmitPlan,
                 PlanAccepted, CallsAnswered, NextIs, LeaveBatch, AppendExchange, FinishLog,
                 ReloadCheck, ReloadSwap, vars, pool, record
  <2> QED
    BY <1>3, <2>1
<1>15. CASE ReplyRaises \/ Return \/ CallbackRaises \/ Interrupt
  <2>1. /\ UNCHANGED thread /\ pc \notin {"idle", "collect", "drain"}
        /\ \E how \in {"raised", "returned", "dropped"} : Over(how)
    BY <1>15 DEF ReplyRaises, Return, CallbackRaises, Interrupt, Raise
  <2> QED
    BY <1>4, <2>1
<1> QED
  BY <1>5, <1>6, <1>7, <1>8, <1>9, <1>10, <1>11, <1>12, <1>13, <1>14, <1>15, StepKinds
     DEF ModelStep, LeaveStep, EndStep

-----------------------------------------------------------------------------
(* The theorems. *)

(* Before the first turn all is orderly, *)
LEMMA InitOrderly ==
    Init => Orderly
<1> SUFFICES ASSUME Init PROVE Orderly
  OBVIOUS
<1> USE DEF Init
<1>1. /\ MaxTurns \in Nat /\ MaxIterations \in Nat \ {0} /\ MaxBatch \in Nat \ {0}
      /\ MaxRefreshes \in Nat /\ MaxParallel \in Nat \ {0} /\ MaxPerTurn \in Nat \ {0}
  BY AgentAssumption
<1>2. Len(runs) = 0 /\ Len(thread) = 0 /\ Len(messages) = 0 /\ Len(calls) = 0 /\ Len(context) = 0
  OBVIOUS
<1>3. <<>> \in Seq(Run) /\ <<>> \in Seq(Future) /\ <<>> \in Seq(Message) /\ <<>> \in Seq(Turns)
  BY EmptySeq
<1>4. LoopTyped
  <2>1. 0 \in 0..MaxTurns /\ 0 \in 0..MaxIterations /\ 1 \in 1..(MaxRefreshes + 1)
    BY <1>1
  <2>2. log \in [Turns -> Statuses] /\ outcome \in [Turns -> Outcomes]
    BY DEF Statuses, Outcomes
  <2> QED
    BY <1>3, <2>1, <2>2 DEF LoopTyped
<1>5. BatchTyped
  BY <1>1, <1>3 DEF BatchTyped
<1>6. PoolTyped
  <2>1. counts \in [Turns -> 0..MaxPerTurn]
    BY <1>1
  <2> QED
    BY <1>2, <1>3, <2>1 DEF PoolTyped
<1>7. TypeOK
  BY <1>4, <1>5, <1>6, TypeParts
<1>8. Cardinality({}) = 0
  BY FS_EmptySet
<1>9. \A t \in Turns : Occurrences(t) = 0
  BY <1>2, <1>8 DEF Occurrences
<1>10. EndsOK
  BY <1>9 DEF EndsOK, EndOf
<1>11. EndIsToldAlike
  BY DEF EndIsToldAlike
<1>12. CallsOK /\ ReportsOK
  BY <1>2 DEF CallsOK, ReportsOK
<1>13. BatchOK
  BY DEF BatchOK
<1>14. QuotaOK
  <2>1. \A t, m : RunsOf(t, m) = {}
    BY <1>2 DEF RunsOf
  <2>2. \A t, m : Cardinality(RunsOf(t, m)) = 0
    BY <1>8, <2>1
  <2>3. 1..Len(runs) = {} /\ \A t \in Turns : counts[t] = 0
    BY <1>2
  <2> QED
    BY <1>1, <2>2, <2>3 DEF QuotaOK
<1>15. PoolOK
  <2>1. Children = {} /\ Working = {}
    BY <1>2 DEF Children, Working
  <2> QED
    BY <1>1, <1>2, <1>8, <2>1 DEF PoolOK
<1> QED
  BY <1>7, <1>10, <1>11, <1>12, <1>13, <1>14, <1>15 DEF Orderly

(* and every step keeps it so. *)
LEMMA OrderlyStep ==
    Orderly /\ [Next]_vars => Orderly'
<1> SUFFICES ASSUME Orderly, [Next]_vars PROVE Orderly'
  OBVIOUS
<1>1. /\ TypeOK /\ EndsOK /\ EndIsToldAlike /\ CallsOK /\ ReportsOK /\ BatchOK
      /\ QuotaOK /\ PoolOK /\ LoopTyped
  BY TypeParts DEF Orderly
<1>2. TypeOK'
  BY <1>1, NextTyped
<1>3. EndsOK' /\ EndIsToldAlike'
  BY <1>1, EndsNext
<1>4. CallsOK' /\ ReportsOK'
  BY <1>1, CallsNext
<1>5. BatchOK'
  BY <1>1, BatchNext
<1>6. QuotaOK'
  BY <1>1, QuotaNext
<1>7. PoolOK'
  BY <1>1, PoolNext
<1> QED
  BY <1>2, <1>3, <1>4, <1>5, <1>6, <1>7 DEF Orderly

(* Every reachable state is orderly: the turn, its calls and answers, the  *)
(* batch of subagents and its pool agree (agent.py, subagents.py).         *)
THEOREM AlwaysOrderly == Spec => []Orderly
BY InitOrderly, OrderlyStep, PTL DEF Spec

(* When the model is called again each tool call has one answer, in order, *)
(* and the answer to a run_subagent call is the report of the child        *)
(* started for it (process_tool_calls, process_subagent_batch).            *)
THEOREM AnswersAreMatched == Spec => []AnswersMatchCalls
<1>1. Orderly => AnswersMatchCalls
  <2> SUFFICES ASSUME Orderly PROVE AnswersMatchCalls
    OBVIOUS
  <2>1. /\ TypeOK /\ CallsOK /\ ReportsOK /\ BatchTyped
    BY TypeParts DEF Orderly
  <2>2. Len(calls) \in Nat /\ next \in Nat /\ Len(messages) \in Nat
    BY <2>1, BatchFacts, LenProperties DEF TypeOK
  <2>3. pc = "model" => /\ Len(messages) = Len(calls)
                        /\ \A p \in 1..Len(calls) : messages[p].call = p
    BY <2>1, <2>2 DEF CallsOK
  <2> QED
    BY <2>1, <2>3 DEF AnswersMatchCalls, ReportsOK
<1> QED
  BY <1>1, AlwaysOrderly, PTL

(* One manager keeps to its allowance for a turn, no more children than    *)
(* max_parallel run, and none runs once its batch is left, but for a turn  *)
(* dropped by Ctrl-C (_reserve_turn_capacity, the executor's with block).  *)
THEOREM ChildrenAreContained == Spec => []ChildrenContained
<1>1. Orderly => ChildrenContained
  BY DEF Orderly, QuotaOK, PoolOK, ChildrenContained, RunsOf, Working
<1> QED
  BY <1>1, AlwaysOrderly, PTL

(* The log, the context and the caller tell the same of how a turn ended   *)
(* (finish_turn, _finish_turn_after_exception, _finish_successful_turn).   *)
THEOREM EndsAreToldAlike == Spec => []EndIsToldAlike
<1>1. Orderly => EndIsToldAlike
  BY DEF Orderly
<1> QED
  BY <1>1, AlwaysOrderly, PTL

(* A child whose request was answered with a timeout never starts: it was  *)
(* cancelled while it was queued (_run_prepared_subagents).                *)
THEOREM CancelledNeverStarts == Spec => GivenUpNeverStarts
<1>1. Orderly => \A c \in 1..Len(thread) :
                   thread[c] = "queued" /\ thread'[c] = "running" => runs[c].status = "running"
  <2> SUFFICES ASSUME Orderly, NEW c \in 1..Len(thread), thread[c] = "queued"
               PROVE  runs[c].status = "running"
    OBVIOUS
  <2>1. c \in 1..Len(runs)
    BY DEF Orderly, TypeOK
  <2> QED
    BY <2>1 DEF Orderly, PoolOK
<1> QED
  BY <1>1, AlwaysOrderly, PTL DEF GivenUpNeverStarts

-----------------------------------------------------------------------------
(* LogWriter: its inductive invariant                                      *)

Dos   == {"init", "create", "start", "step", "number", "event", "block", "footer",
          "manifest", "join", "ended"}
Calls == {"event", "exchange", "snapshot"} \X (Nat \ {0})
Rec   == Calls \cup {SessionStartRecord, SessionEndRecord, Manifest, FallbackRecord, Stop}
Items == Calls \cup {SessionEndRecord, Manifest, Stop}

(* The steps there are for a record. *)
Fits(x) ==
  /\ x \in Dos \X Rec
  /\ x[1] \in {"join", "ended"} <=> x[2] = Stop
  /\ x[1] \in {"create", "manifest"} => x[2] = Manifest
  /\ x[1] = "start" => x[2] = SessionStartRecord
  /\ x[1] = "footer" => x[2] = SessionEndRecord
  /\ x[1] = "init" => x[2] # SessionStartRecord

(* What follows a step in a program. *)
Follows(a, b) ==
  \/ a[1] = "init" /\ b[1] \in {"step", "manifest"}
  \/ a[1] = "create" /\ b[1] = "manifest"
  \/ a[1] = "manifest" /\ b[1] = "start"
  \/ a[1] \in {"start", "step"} /\ b[1] = "number" /\ b[2] = a[2]
  \/ a[1] = "step" /\ b[1] = "block" /\ b[2] = a[2]
  \/ a[1] = "number" /\ b[1] = "event" /\ b[2] = a[2]
  \/ a[1] = "event" /\ b[1] = "block" /\ b[2] = a[2]
  \/ a[1] = "block" /\ b[1] = "footer" /\ b[2] = a[2]
  \/ a[1] = "block" /\ b[1] \in {"step", "manifest"} /\ a[2] = SessionStartRecord
  \/ a[1] \in {"block", "footer"} /\ b[1] = "init"

(* The program of a thread: it serves one record and, besides it, nothing  *)
(* but the manifest and the start of the log, which comes first.           *)
Shaped(p) ==
  /\ p \in Seq(Dos \X Rec)
  /\ \A i \in 1..Len(p) : Fits(p[i])
  /\ \A i \in 1..Len(p) : i < Len(p) => Follows(p[i], p[i + 1])
  /\ \A i \in 1..Len(p) : p[i][1] = "number" => i < Len(p)
  /\ \A i, j \in 1..Len(p) : p[i] = p[j] => i = j \/ p[i][2] = Manifest
  /\ \A i, j \in 1..Len(p) : p[i][2] \in Calls /\ p[j][2] \in Calls => p[i][2] = p[j][2]
  /\ \A i, j \in 1..Len(p) : i < j /\ p[j][2] = SessionStartRecord =>
       p[i][2] = SessionStartRecord \/ p[i][1] \in {"create", "manifest"}

(* The first step of a program, and all of it but the checks. *)
FirstOf(p) == IF p = <<>> THEN "none" ELSE p[1][1]
AheadOf(p) == {p[i] : i \in {j \in 1..Len(p) : p[j][1] # "init"}}

First(t) == FirstOf(program[t])
Ahead(t) == AheadOf(program[t])

EventType == [rec : Rec, seq : Nat, step : Nat]
BlockType == [rec : Rec, step : Nat]

VariablesOK ==
  /\ mode \in {"off", "sync", "async"} /\ transport \in BOOLEAN /\ (transport => mode = "async")
  /\ initialized \in BOOLEAN /\ closed \in BOOLEAN /\ footer \in BOOLEAN
  /\ overlapped \in BOOLEAN
  /\ status \in {"open", "closed"}
  /\ records \in 0..MaxRecords /\ failures \in 0..MaxFailures
  /\ counted \in Nat /\ counted <= records /\ step \in Nat /\ seq \in Nat
  /\ queue \in Seq(Items) /\ events \in Seq(EventType) /\ blocks \in Seq(BlockType)
  /\ held \in [Threads -> [step : Nat, seq : Nat]]
  /\ DOMAIN program = Threads /\ \A t \in Threads : Shaped(program[t])
  /\ \A e \in early : e.rec \in Calls /\ e.rec[2] <= records
  /\ IsFiniteSet(early) /\ Cardinality(early) <= records

(* Numbers: a thread has one of its own from counting it to writing it. *)
Carrying(t) == First(t) \in {"number", "event", "block"}
One(t, do)  == IF First(t) = do THEN 1 ELSE 0
Count(do)   == One("agent", do) + One("admin", do) + One("writer", do)

StepsOK ==
  /\ \A t \in Threads : Carrying(t) => held[t].step \in 1..step
  /\ \A t, u \in Threads : t # u /\ Carrying(t) /\ Carrying(u) => held[t].step # held[u].step
  /\ \A i \in 1..Len(events) : /\ events[i].step \in 1..step
                               /\ \A t \in Threads : First(t) \in {"number", "event"} =>
                                    /\ events[i].step # held[t].step
                                    /\ ~overlapped => events[i].step < held[t].step
  /\ \A i \in 1..Len(blocks) : /\ blocks[i].step \in 1..step
                               /\ \A t \in Threads : Carrying(t) =>
                                    /\ blocks[i].step # held[t].step
                                    /\ ~overlapped => blocks[i].step < held[t].step
  /\ \A i, j \in 1..Len(events) : i < j => /\ events[i].step # events[j].step
                                           /\ ~overlapped => events[i].step < events[j].step
  /\ \A i, j \in 1..Len(blocks) : i < j => /\ blocks[i].step # blocks[j].step
                                           /\ ~overlapped => blocks[i].step < blocks[j].step

SeqsOK ==
  /\ seq + Count("number") <= step
  /\ Len(events) + Count("event") <= seq
  /\ \A t \in Threads : First(t) = "event" => /\ held[t].seq \in 1..seq
                                              /\ ~overlapped => held[t].seq = seq
  /\ \A t, u \in Threads : t # u /\ First(t) = "event" /\ First(u) = "event" =>
                             held[t].seq # held[u].seq
  /\ \A i \in 1..Len(events) : /\ events[i].seq \in 1..seq
                               /\ \A t \in Threads : First(t) = "event" =>
                                    events[i].seq # held[t].seq
  /\ \A i, j \in 1..Len(events) : i < j => events[i].seq # events[j].seq
  /\ ~overlapped /\ failures = 0 => /\ seq = Len(events) + Count("event")
                                    /\ \A i \in 1..Len(events) : events[i].seq = i

(* Records: each is in one place. *)
Elsewhere(file, do) ==
  \A i \in 1..Len(file) :
    /\ file[i].rec[2] <= records
    /\ file[i].rec[2] > 0 =>
         /\ \A j \in 1..Len(queue) : queue[j][2] # file[i].rec[2]
         /\ \A t \in Threads : \A x \in Ahead(t) : x[1] = do => x[2][2] # file[i].rec[2]
         /\ \A j \in 1..Len(file) : file[j].rec[2] = file[i].rec[2] => i = j

RecordsOK ==
  /\ \A i \in 1..Len(queue) : queue[i][2] <= records
  /\ \A i, j \in 1..Len(queue) : i < j /\ queue[i][2] > 0 /\ queue[j][2] > 0 =>
                                   queue[i][2] < queue[j][2]
  /\ \A t \in Threads : \A x \in Ahead(t) :
       /\ x[2][2] <= records
       /\ x[2][2] > 0 => /\ \A i \in 1..Len(queue) : queue[i][2] # x[2][2]
                         /\ \A u \in Threads : u # t => \A y \in Ahead(u) : y[2][2] # x[2][2]
  /\ Elsewhere(events, "event") /\ Elsewhere(blocks, "block")

(* Order, until threads meet: one works at a time, on what was logged      *)
(* before all that is in the queue and after all that is in the files.     *)
Before(file, do) ==
  \A i \in 1..Len(file) :
    /\ \A j \in 1..Len(queue) : queue[j][2] > 0 => file[i].rec[2] < queue[j][2]
    /\ \A t \in Threads : \A x \in Ahead(t) :
         x[1] = do /\ x[2][2] > 0 => file[i].rec[2] < x[2][2]
    /\ \A j \in 1..Len(file) :
         i < j /\ file[i].rec[2] > 0 /\ file[j].rec[2] > 0 => file[i].rec[2] < file[j].rec[2]

OrderOK ==
  ~overlapped =>
    /\ \A t, u \in Threads : t # u => ~(Writing(t) /\ Writing(u))
    /\ \A t \in Threads : \A x \in Ahead(t) : \A j \in 1..Len(queue) :
         x[2][2] > 0 /\ queue[j][2] > 0 => x[2][2] < queue[j][2]
    /\ Before(events, "event") /\ Before(blocks, "block")

(* The start of the log: nothing is written before the files exist. *)
StartsFile(file, do) ==
  ~overlapped => /\ \A i \in 1..Len(file) : file[i].rec = SessionStartRecord => i = 1
                 /\ \A t \in Threads : <<do, SessionStartRecord>> \in Ahead(t) => file = <<>>

StartOK ==
  /\ ~initialized => /\ events = <<>> /\ blocks = <<>>
                     /\ \A t \in Threads : First(t) \in {"none", "init", "create", "join", "ended"}
  /\ StartsFile(events, "event") /\ StartsFile(blocks, "block")

(* The end: once its record is begun, no call made before the close is     *)
(* still to be written.                                                    *)
Begun(r) == \/ \E t \in Threads : \E x \in Ahead(t) : x[2] = r
            \/ \E i \in 1..Len(events) : events[i].rec = r
            \/ \E i \in 1..Len(blocks) : blocks[i].rec = r

EndsFile(file) == ~overlapped =>
  \A i, j \in 1..Len(file) : i < j /\ file[i].rec = SessionEndRecord =>
    \A e \in early : e.rec # file[j].rec

Queued(r) == \E i \in 1..Len(queue) : queue[i] = r

EndOK ==
  /\ footer => closed
  /\ ~closed => \A r \in {SessionEndRecord, Stop} : ~Queued(r) /\ ~Begun(r)
  /\ \A i, j \in 1..Len(queue) : i < j /\ queue[i] \in {SessionEndRecord, Stop} =>
       \A e \in early : queue[j] # e.rec
  /\ <<"ended", Stop>> \in Ahead("writer") => \A e \in early : ~Queued(e.rec)
  /\ ~overlapped /\ Begun(SessionEndRecord) =>
       \A e \in early : ~Queued(e.rec) /\ \A t \in Threads : \A x \in Ahead(t) : x[2] # e.rec
  /\ EndsFile(events) /\ EndsFile(blocks)

(* Completeness: what was logged is queued, in somebody's hands or written. *)
InTurn(r) == \E i \in 1..Len(queue) : queue[i] = r /\ \A j \in 1..(i - 1) : queue[j] # Stop
Coming(x) == \E t \in Threads : x \in Ahead(t)

KeptOK ==
  /\ (\E e \in early : e.counts) => counted > 0
  /\ failures = 0 =>
       /\ \A e \in early :
            /\ "event" \in ToSet(Steps(e.rec[1])) =>
                 \/ Queued(e.rec) \/ Coming(<<"event", e.rec>>)
                 \/ \E i \in 1..Len(events) : events[i].rec = e.rec
            /\ "block" \in ToSet(Steps(e.rec[1])) =>
                 \/ Queued(e.rec) \/ Coming(<<"block", e.rec>>)
                 \/ \E i \in 1..Len(blocks) : blocks[i].rec = e.rec
       /\ (\E e \in early : e.counts) /\ Cardinality(early) = records =>
            \/ manifest = StatusNow \/ InTurn(Manifest) \/ Coming(<<"manifest", Manifest>>)
       /\ (\E e \in early : e.counts) /\ closed =>
            \/ InTurn(SessionEndRecord) \/ Coming(<<"block", SessionEndRecord>>)
            \/ \E i \in 1..Len(blocks) : blocks[i].rec = SessionEndRecord

Inv == /\ VariablesOK /\ StepsOK /\ SeqsOK /\ RecordsOK /\ OrderOK /\ StartOK /\ EndOK /\ KeptOK

-----------------------------------------------------------------------------
(* Records and their steps                                                 *)

(* The records have these names and numbers. *)
LEMMA Records ==
  /\ SessionStartRecord = <<"started", 0>> /\ SessionEndRecord = <<"ended", 0>>
  /\ Manifest = <<"manifest", 0>> /\ FallbackRecord = <<"trouble", 0>> /\ Stop = <<"stop", 0>>
BY DEF SessionStartRecord, SessionEndRecord, Manifest, FallbackRecord, Stop, Record

(* A call's record has a number, the others have none. *)
LEMMA RecordNumbers ==
    ASSUME NEW r \in Rec
    PROVE  /\ r[2] \in Nat /\ (r \in Calls <=> r[2] > 0)
           /\ r \in Calls => /\ r[1] \in {"event", "exchange", "snapshot"} /\ r = <<r[1], r[2]>>
                             /\ r \notin {SessionStartRecord, SessionEndRecord, Manifest,
                                          FallbackRecord, Stop}
<1>1. CASE r \in Calls
  BY <1>1, Records DEF Calls
<1>2. CASE r \in {SessionStartRecord, SessionEndRecord, Manifest, FallbackRecord, Stop}
  BY <1>2, Records DEF Calls
<1> QED
  BY <1>1, <1>2 DEF Rec

(* A list of steps, spelt out. *)
Spelt(s, w) == /\ DOMAIN s = 1..Len(w) /\ Len(s) = Len(w)
               /\ \A i \in 1..Len(w) : s[i] = w[i]

(* The steps of each record. *)
LEMMA StepLists ==
  /\ Spelt(Steps("event"), <<"init", "step", "number", "event", "block">>)
  /\ Spelt(Steps("exchange"), <<"init", "step", "block">>)
  /\ Spelt(Steps("snapshot"), <<"init">>)
  /\ Spelt(Steps("started"), <<"start", "number", "event", "block">>)
  /\ Spelt(Steps("ended"), <<"init", "step", "number", "event", "block", "footer">>)
  /\ Spelt(Steps("manifest"), <<"init", "manifest">>)
  /\ Spelt(Steps("trouble"), <<"init", "step", "number", "event">>)
<1>1. Spelt(Steps("event"), <<"init", "step", "number", "event", "block">>)
  <2>1. Steps("event") = <<"init">> \o Both
    BY DEF Steps
  <2> QED
    BY <2>1 DEF Both, Spelt
<1>2. Spelt(Steps("exchange"), <<"init", "step", "block">>)
  <2>1. Steps("exchange") = <<"init", "step", "block">>
    BY DEF Steps
  <2> QED
    BY <2>1 DEF Spelt
<1>3. Spelt(Steps("snapshot"), <<"init">>)
  <2>1. Steps("snapshot") = <<"init">>
    BY DEF Steps
  <2> QED
    BY <2>1 DEF Spelt
<1>4. Spelt(Steps("started"), <<"start", "number", "event", "block">>)
  <2>1. Steps("started") = <<"start", "number", "event", "block">>
    BY DEF Steps, RecordSessionStarted
  <2> QED
    BY <2>1 DEF Spelt
<1>5. Spelt(Steps("ended"), <<"init", "step", "number", "event", "block", "footer">>)
  <2>1. Steps("ended") = <<"init">> \o Both \o <<"footer">>
    BY DEF Steps, RecordSessionCompleted
  <2> QED
    BY <2>1 DEF Both, Spelt
<1>6. Spelt(Steps("manifest"), <<"init", "manifest">>)
  <2>1. Steps("manifest") = <<"init", "manifest">>
    BY DEF Steps, WriteSessionManifest
  <2> QED
    BY <2>1 DEF Spelt
<1>7. Spelt(Steps("trouble"), <<"init", "step", "number", "event">>)
  <2>1. Steps("trouble") = <<"init", "step", "number", "event">>
    BY DEF Steps, WriteFallbackError
  <2> QED
    BY <2>1 DEF Spelt
<1> QED
  BY <1>1, <1>2, <1>3, <1>4, <1>5, <1>6, <1>7

(* A program for a record: its steps, in order, each once. *)
LEMMA ProgramOf ==
    ASSUME NEW r \in Rec \ {Stop}
    PROVE  LET p == Program(r)
           IN  /\ Shaped(p) /\ p # <<>>
               /\ \A i \in 1..Len(p) : p[i] = <<Steps(r[1])[i], r>>
               /\ r # SessionStartRecord => p[1] = <<"init", r>>
               /\ \A do \in Dos : do \in ToSet(Steps(r[1])) <=> \E i \in 1..Len(p) : p[i] = <<do, r>>
               /\ r[1] # "snapshot" /\ r # Manifest /\ r # FallbackRecord =>
                    p[Len(p)][1] \in {"block", "footer"}
<1> DEFINE s == Steps(r[1])
           p == Program(r)
<1>1. ASSUME NEW n \in 1..6, DOMAIN s = 1..n, Len(s) = n, \A i \in 1..n : s[i] \in Dos
      PROVE  /\ p \in Seq(Dos \X Rec) /\ Len(p) = n /\ p # <<>>
             /\ \A i \in 1..n : p[i] = <<s[i], r>>
             /\ \A do \in Dos : do \in ToSet(s) <=> \E i \in 1..n : p[i] = <<do, r>>
  <2>1. p = [i \in 1..n |-> <<s[i], r>>]
    BY <1>1 DEF Program
  <2>2. \A i \in 1..n : <<s[i], r>> \in Dos \X Rec
    BY <1>1
  <2>3. p \in Seq(Dos \X Rec) /\ Len(p) = n
    BY <2>1, <2>2
  <2>4. \A i \in 1..n : p[i] = <<s[i], r>>
    BY <2>1
  <2>5. ToSet(s) = {s[i] : i \in 1..n}
    BY <1>1 DEF ToSet
  <2>6. ASSUME NEW do \in Dos PROVE do \in ToSet(s) <=> \E i \in 1..n : p[i] = <<do, r>>
    BY <2>4, <2>5
  <2> QED
    BY <2>3, <2>4, <2>6
<1>2. r \in Calls \/ r \in {SessionStartRecord, SessionEndRecord, Manifest, FallbackRecord}
  BY DEF Rec
<1> HIDE DEF s, p
<1>3. CASE r \in Calls /\ r[1] = "event"
  <2>1. r[1] = "event" /\ DOMAIN s = 1..5 /\ Len(s) = 5
    BY <1>3, StepLists, Records DEF Spelt, s
  <2>2. s[1] = "init" /\ s[2] = "step" /\ s[3] = "number" /\ s[4] = "event" /\ s[5] = "block"
    BY <2>1, StepLists DEF Spelt, s
  <2>3. \A i \in 1..5 : s[i] \in Dos
    BY <2>2 DEF Dos
  <2>4. /\ p \in Seq(Dos \X Rec) /\ Len(p) = 5 /\ p # <<>>
        /\ \A i \in 1..5 : p[i] = <<s[i], r>>
        /\ \A do \in Dos : do \in ToSet(s) <=> \E i \in 1..5 : p[i] = <<do, r>>
    BY <1>1, <2>1, <2>3
  <2>5. \A i \in 1..5 : Fits(p[i])
    <3>1. r # Stop
      BY <1>3, Records, RecordNumbers
    <3>2. \A i \in 1..5 : p[i] \in Dos \X Rec
      BY <2>3, <2>4
    <3>3. \A i \in 1..5 : p[i][1] = s[i] /\ p[i][2] = r
      BY <2>4
    <3>4. \A i \in 1..5 : s[i] \notin {"join", "ended"} /\ s[i] # "create" /\ s[i] # "manifest" /\ s[i] # "start" /\ s[i] # "footer"
      BY <2>2
    <3>5. r # SessionStartRecord
      BY <1>3, Records, RecordNumbers
    <3> QED
      BY <3>1, <3>2, <3>3, <3>4, <3>5 DEF Fits
  <2>6. \A i \in 1..5 : i < 5 => Follows(p[i], p[i + 1])
    BY <2>2, <2>4 DEF Follows
  <2>7. \A i, j \in 1..5 : p[i] = p[j] => i = j
    BY <2>2, <2>4
  <2>8. \A i \in 1..5 : p[i][2] = r
    BY <2>4
  <2>a. \A i \in 1..5 : p[i][1] = "number" => i < 5
    BY <2>2, <2>4
  <2>9. Shaped(p)
    BY <2>a, <2>4, <2>5, <2>6, <2>7, <2>8 DEF Shaped
  <2>10. r # SessionStartRecord => p[1] = <<"init", r>>
    BY <1>3, <2>2, <2>4
  <2>11. r[1] # "snapshot" /\ r # Manifest /\ r # FallbackRecord =>
           p[5][1] \in {"block", "footer"}
    BY <1>3, <2>1, <2>2, <2>4
  <2> QED
    BY <2>4, <2>9, <2>10, <2>11 DEF s, p
<1>4. CASE r \in Calls /\ r[1] = "exchange"
  <2>1. r[1] = "exchange" /\ DOMAIN s = 1..3 /\ Len(s) = 3
    BY <1>4, StepLists, Records DEF Spelt, s
  <2>2. s[1] = "init" /\ s[2] = "step" /\ s[3] = "block"
    BY <2>1, StepLists DEF Spelt, s
  <2>3. \A i \in 1..3 : s[i] \in Dos
    BY <2>2 DEF Dos
  <2>4. /\ p \in Seq(Dos \X Rec) /\ Len(p) = 3 /\ p # <<>>
        /\ \A i \in 1..3 : p[i] = <<s[i], r>>
        /\ \A do \in Dos : do \in ToSet(s) <=> \E i \in 1..3 : p[i] = <<do, r>>
    BY <1>1, <2>1, <2>3
  <2>5. \A i \in 1..3 : Fits(p[i])
    <3>1. r # Stop
      BY <1>4, Records, RecordNumbers
    <3>2. \A i \in 1..3 : p[i] \in Dos \X Rec
      BY <2>3, <2>4
    <3>3. \A i \in 1..3 : p[i][1] = s[i] /\ p[i][2] = r
      BY <2>4
    <3>4. \A i \in 1..3 : s[i] \notin {"join", "ended"} /\ s[i] # "create" /\ s[i] # "manifest" /\ s[i] # "start" /\ s[i] # "footer"
      BY <2>2
    <3>5. r # SessionStartRecord
      BY <1>4, Records, RecordNumbers
    <3> QED
      BY <3>1, <3>2, <3>3, <3>4, <3>5 DEF Fits
  <2>6. \A i \in 1..3 : i < 3 => Follows(p[i], p[i + 1])
    BY <2>2, <2>4 DEF Follows
  <2>7. \A i, j \in 1..3 : p[i] = p[j] => i = j
    BY <2>2, <2>4
  <2>8. \A i \in 1..3 : p[i][2] = r
    BY <2>4
  <2>a. \A i \in 1..3 : p[i][1] = "number" => i < 3
    BY <2>2, <2>4
  <2>9. Shaped(p)
    BY <2>a, <2>4, <2>5, <2>6, <2>7, <2>8 DEF Shaped
  <2>10. r # SessionStartRecord => p[1] = <<"init", r>>
    BY <1>4, <2>2, <2>4
  <2>11. r[1] # "snapshot" /\ r # Manifest /\ r # FallbackRecord =>
           p[3][1] \in {"block", "footer"}
    BY <1>4, <2>1, <2>2, <2>4
  <2> QED
    BY <2>4, <2>9, <2>10, <2>11 DEF s, p
<1>5. CASE r \in Calls /\ r[1] = "snapshot"
  <2>1. r[1] = "snapshot" /\ DOMAIN s = 1..1 /\ Len(s) = 1
    BY <1>5, StepLists, Records DEF Spelt, s
  <2>2. s[1] = "init"
    BY <2>1, StepLists DEF Spelt, s
  <2>3. \A i \in 1..1 : s[i] \in Dos
    BY <2>2 DEF Dos
  <2>4. /\ p \in Seq(Dos \X Rec) /\ Len(p) = 1 /\ p # <<>>
        /\ \A i \in 1..1 : p[i] = <<s[i], r>>
        /\ \A do \in Dos : do \in ToSet(s) <=> \E i \in 1..1 : p[i] = <<do, r>>
    BY <1>1, <2>1, <2>3
  <2>5. \A i \in 1..1 : Fits(p[i])
    <3>1. r # Stop
      BY <1>5, Records, RecordNumbers
    <3>2. \A i \in 1..1 : p[i] \in Dos \X Rec
      BY <2>3, <2>4
    <3>3. \A i \in 1..1 : p[i][1] = s[i] /\ p[i][2] = r
      BY <2>4
    <3>4. \A i \in 1..1 : s[i] \notin {"join", "ended"} /\ s[i] # "create" /\ s[i] # "manifest" /\ s[i] # "start" /\ s[i] # "footer"
      BY <2>2
    <3>5. r # SessionStartRecord
      BY <1>5, Records, RecordNumbers
    <3> QED
      BY <3>1, <3>2, <3>3, <3>4, <3>5 DEF Fits
  <2>6. \A i \in 1..1 : i < 1 => Follows(p[i], p[i + 1])
    BY <2>2, <2>4 DEF Follows
  <2>7. \A i, j \in 1..1 : p[i] = p[j] => i = j
    BY <2>2, <2>4
  <2>8. \A i \in 1..1 : p[i][2] = r
    BY <2>4
  <2>a. \A i \in 1..1 : p[i][1] = "number" => i < 1
    BY <2>2, <2>4
  <2>9. Shaped(p)
    BY <2>a, <2>4, <2>5, <2>6, <2>7, <2>8 DEF Shaped
  <2>10. r # SessionStartRecord => p[1] = <<"init", r>>
    BY <1>5, <2>2, <2>4
  <2>11. r[1] # "snapshot" /\ r # Manifest /\ r # FallbackRecord =>
           p[1][1] \in {"block", "footer"}
    BY <1>5, <2>1, <2>2, <2>4
  <2> QED
    BY <2>4, <2>9, <2>10, <2>11 DEF s, p
<1>6. CASE r = SessionStartRecord
  <2>1. r[1] = "started" /\ DOMAIN s = 1..4 /\ Len(s) = 4
    BY <1>6, StepLists, Records DEF Spelt, s
  <2>2. s[1] = "start" /\ s[2] = "number" /\ s[3] = "event" /\ s[4] = "block"
    BY <2>1, StepLists DEF Spelt, s
  <2>3. \A i \in 1..4 : s[i] \in Dos
    BY <2>2 DEF Dos
  <2>4. /\ p \in Seq(Dos \X Rec) /\ Len(p) = 4 /\ p # <<>>
        /\ \A i \in 1..4 : p[i] = <<s[i], r>>
        /\ \A do \in Dos : do \in ToSet(s) <=> \E i \in 1..4 : p[i] = <<do, r>>
    BY <1>1, <2>1, <2>3
  <2>5. \A i \in 1..4 : Fits(p[i])
    <3>1. r # Stop
      BY <1>6, Records, RecordNumbers
    <3>2. \A i \in 1..4 : p[i] \in Dos \X Rec
      BY <2>3, <2>4
    <3>3. \A i \in 1..4 : p[i][1] = s[i] /\ p[i][2] = r
      BY <2>4
    <3>4. \A i \in 1..4 : s[i] \notin {"join", "ended"} /\ s[i] # "create" /\ s[i] # "manifest" /\ s[i] # "footer" /\ s[i] # "init"
      BY <2>2
    <3>5. r = SessionStartRecord
      BY <1>6, Records, RecordNumbers
    <3> QED
      BY <3>1, <3>2, <3>3, <3>4, <3>5 DEF Fits
  <2>6. \A i \in 1..4 : i < 4 => Follows(p[i], p[i + 1])
    BY <2>2, <2>4 DEF Follows
  <2>7. \A i, j \in 1..4 : p[i] = p[j] => i = j
    BY <2>2, <2>4
  <2>8. \A i \in 1..4 : p[i][2] = r
    BY <2>4
  <2>a. \A i \in 1..4 : p[i][1] = "number" => i < 4
    BY <2>2, <2>4
  <2>9. Shaped(p)
    BY <2>a, <2>4, <2>5, <2>6, <2>7, <2>8 DEF Shaped
  <2>10. r # SessionStartRecord => p[1] = <<"init", r>>
    BY <1>6, <2>2, <2>4
  <2>11. r[1] # "snapshot" /\ r # Manifest /\ r # FallbackRecord =>
           p[4][1] \in {"block", "footer"}
    BY <1>6, <2>1, <2>2, <2>4
  <2> QED
    BY <2>4, <2>9, <2>10, <2>11 DEF s, p
<1>7. CASE r = SessionEndRecord
  <2>1. r[1] = "ended" /\ DOMAIN s = 1..6 /\ Len(s) = 6
    BY <1>7, StepLists, Records DEF Spelt, s
  <2>2. s[1] = "init" /\ s[2] = "step" /\ s[3] = "number" /\ s[4] = "event" /\ s[5] = "block" /\ s[6] = "footer"
    BY <2>1, StepLists DEF Spelt, s
  <2>3. \A i \in 1..6 : s[i] \in Dos
    BY <2>2 DEF Dos
  <2>4. /\ p \in Seq(Dos \X Rec) /\ Len(p) = 6 /\ p # <<>>
        /\ \A i \in 1..6 : p[i] = <<s[i], r>>
        /\ \A do \in Dos : do \in ToSet(s) <=> \E i \in 1..6 : p[i] = <<do, r>>
    BY <1>1, <2>1, <2>3
  <2>5. \A i \in 1..6 : Fits(p[i])
    <3>1. r # Stop
      BY <1>7, Records, RecordNumbers
    <3>2. \A i \in 1..6 : p[i] \in Dos \X Rec
      BY <2>3, <2>4
    <3>3. \A i \in 1..6 : p[i][1] = s[i] /\ p[i][2] = r
      BY <2>4
    <3>4. \A i \in 1..6 : s[i] \notin {"join", "ended"} /\ s[i] # "create" /\ s[i] # "manifest" /\ s[i] # "start"
      BY <2>2
    <3>5. r # SessionStartRecord /\ r = SessionEndRecord
      BY <1>7, Records, RecordNumbers
    <3> QED
      BY <3>1, <3>2, <3>3, <3>4, <3>5 DEF Fits
  <2>6. \A i \in 1..6 : i < 6 => Follows(p[i], p[i + 1])
    BY <2>2, <2>4 DEF Follows
  <2>7. \A i, j \in 1..6 : p[i] = p[j] => i = j
    BY <2>2, <2>4
  <2>8. \A i \in 1..6 : p[i][2] = r
    BY <2>4
  <2>a. \A i \in 1..6 : p[i][1] = "number" => i < 6
    BY <2>2, <2>4
  <2>9. Shaped(p)
    BY <2>a, <2>4, <2>5, <2>6, <2>7, <2>8 DEF Shaped
  <2>10. r # SessionStartRecord => p[1] = <<"init", r>>
    BY <1>7, <2>2, <2>4
  <2>11. r[1] # "snapshot" /\ r # Manifest /\ r # FallbackRecord =>
           p[6][1] \in {"block", "footer"}
    BY <1>7, <2>1, <2>2, <2>4
  <2> QED
    BY <2>4, <2>9, <2>10, <2>11 DEF s, p
<1>8. CASE r = Manifest
  <2>1. r[1] = "manifest" /\ DOMAIN s = 1..2 /\ Len(s) = 2
    BY <1>8, StepLists, Records DEF Spelt, s
  <2>2. s[1] = "init" /\ s[2] = "manifest"
    BY <2>1, StepLists DEF Spelt, s
  <2>3. \A i \in 1..2 : s[i] \in Dos
    BY <2>2 DEF Dos
  <2>4. /\ p \in Seq(Dos \X Rec) /\ Len(p) = 2 /\ p # <<>>
        /\ \A i \in 1..2 : p[i] = <<s[i], r>>
        /\ \A do \in Dos : do \in ToSet(s) <=> \E i \in 1..2 : p[i] = <<do, r>>
    BY <1>1, <2>1, <2>3
  <2>5. \A i \in 1..2 : Fits(p[i])
    <3>1. r # Stop
      BY <1>8, Records, RecordNumbers
    <3>2. \A i \in 1..2 : p[i] \in Dos \X Rec
      BY <2>3, <2>4
    <3>3. \A i \in 1..2 : p[i][1] = s[i] /\ p[i][2] = r
      BY <2>4
    <3>4. \A i \in 1..2 : s[i] \notin {"join", "ended"} /\ s[i] # "create" /\ s[i] # "start" /\ s[i] # "footer"
      BY <2>2
    <3>5. r # SessionStartRecord /\ r = Manifest
      BY <1>8, Records, RecordNumbers
    <3> QED
      BY <3>1, <3>2, <3>3, <3>4, <3>5 DEF Fits
  <2>6. \A i \in 1..2 : i < 2 => Follows(p[i], p[i + 1])
    BY <2>2, <2>4 DEF Follows
  <2>7. \A i, j \in 1..2 : p[i] = p[j] => i = j
    BY <2>2, <2>4
  <2>8. \A i \in 1..2 : p[i][2] = r
    BY <2>4
  <2>a. \A i \in 1..2 : p[i][1] = "number" => i < 2
    BY <2>2, <2>4
  <2>9. Shaped(p)
    BY <2>a, <2>4, <2>5, <2>6, <2>7, <2>8 DEF Shaped
  <2>10. r # SessionStartRecord => p[1] = <<"init", r>>
    BY <1>8, <2>2, <2>4
  <2>11. r[1] # "snapshot" /\ r # Manifest /\ r # FallbackRecord =>
           p[2][1] \in {"block", "footer"}
    BY <1>8, <2>1, <2>2, <2>4
  <2> QED
    BY <2>4, <2>9, <2>10, <2>11 DEF s, p
<1>9. CASE r = FallbackRecord
  <2>1. r[1] = "trouble" /\ DOMAIN s = 1..4 /\ Len(s) = 4
    BY <1>9, StepLists, Records DEF Spelt, s
  <2>2. s[1] = "init" /\ s[2] = "step" /\ s[3] = "number" /\ s[4] = "event"
    BY <2>1, StepLists DEF Spelt, s
  <2>3. \A i \in 1..4 : s[i] \in Dos
    BY <2>2 DEF Dos
  <2>4. /\ p \in Seq(Dos \X Rec) /\ Len(p) = 4 /\ p # <<>>
        /\ \A i \in 1..4 : p[i] = <<s[i], r>>
        /\ \A do \in Dos : do \in ToSet(s) <=> \E i \in 1..4 : p[i] = <<do, r>>
    BY <1>1, <2>1, <2>3
  <2>5. \A i \in 1..4 : Fits(p[i])
    <3>1. r # Stop
      BY <1>9, Records, RecordNumbers
    <3>2. \A i \in 1..4 : p[i] \in Dos \X Rec
      BY <2>3, <2>4
    <3>3. \A i \in 1..4 : p[i][1] = s[i] /\ p[i][2] = r
      BY <2>4
    <3>4. \A i \in 1..4 : s[i] \notin {"join", "ended"} /\ s[i] # "create" /\ s[i] # "manifest" /\ s[i] # "start" /\ s[i] # "footer"
      BY <2>2
    <3>5. r # SessionStartRecord
      BY <1>9, Records, RecordNumbers
    <3> QED
      BY <3>1, <3>2, <3>3, <3>4, <3>5 DEF Fits
  <2>6. \A i \in 1..4 : i < 4 => Follows(p[i], p[i + 1])
    BY <2>2, <2>4 DEF Follows
  <2>7. \A i, j \in 1..4 : p[i] = p[j] => i = j
    BY <2>2, <2>4
  <2>8. \A i \in 1..4 : p[i][2] = r
    BY <2>4
  <2>a. \A i \in 1..4 : p[i][1] = "number" => i < 4
    BY <2>2, <2>4
  <2>9. Shaped(p)
    BY <2>a, <2>4, <2>5, <2>6, <2>7, <2>8 DEF Shaped
  <2>10. r # SessionStartRecord => p[1] = <<"init", r>>
    BY <1>9, <2>2, <2>4
  <2>11. r[1] # "snapshot" /\ r # Manifest /\ r # FallbackRecord =>
           p[4][1] \in {"block", "footer"}
    BY <1>9, <2>1, <2>2, <2>4
  <2> QED
    BY <2>4, <2>9, <2>10, <2>11 DEF s, p
<1> QED
  BY <1>2, <1>3, <1>4, <1>5, <1>6, <1>7, <1>8, <1>9, RecordNumbers

(* A program is a sequence. *)
LEMMA Programs ==
    ASSUME NEW p, Shaped(p)
    PROVE  p \in Seq(Dos \X Rec) /\ Len(p) \in Nat
<1>1. p \in Seq(Dos \X Rec)
  BY DEF Shaped
<1> QED
  BY <1>1

(* The rest of a program is a program. *)
LEMMA Rest ==
    ASSUME NEW p, Shaped(p), NEW k \in 1..(Len(p) + 1)
    PROVE  LET q == SubSeq(p, k, Len(p))
           IN  /\ Shaped(q) /\ Len(q) = Len(p) + 1 - k
               /\ \A i \in 1..Len(q) : q[i] = p[i + k - 1]
<1> DEFINE q == SubSeq(p, k, Len(p))
<1>1. p \in Seq(Dos \X Rec) /\ Len(p) \in Nat
  BY DEF Shaped
<1>2. q \in Seq(Dos \X Rec) /\ Len(q) = Len(p) + 1 - k
  BY <1>1, SubSeqProperties
<1>3. \A i \in 1..Len(q) : q[i] = p[i + k - 1] /\ i + k - 1 \in 1..Len(p)
  BY <1>1, <1>2, SubSeqProperties
<1> HIDE DEF q
<1>4. \A i \in 1..Len(q) : Fits(q[i])
  BY <1>3 DEF Shaped
<1>5. ASSUME NEW i \in 1..Len(q), i < Len(q) PROVE Follows(q[i], q[i + 1])
  <2>1. q[i] = p[i + k - 1] /\ q[i + 1] = p[i + k]
    BY <1>1, <1>2, <1>3, <1>5, SMTT(30)
  <2>2. i + k - 1 \in 1..Len(p) /\ i + k - 1 < Len(p) /\ (i + k - 1) + 1 = i + k
    BY <1>1, <1>2, <1>5
  <2>3. Follows(p[i + k - 1], p[(i + k - 1) + 1])
    BY <2>2 DEF Shaped
  <2> QED
    BY <2>1, <2>2, <2>3
<1>6. ASSUME NEW i \in 1..Len(q), NEW j \in 1..Len(q), q[i] = q[j]
      PROVE  i = j \/ q[i][2] = Manifest
  <2>1. i + k - 1 = j + k - 1 \/ p[i + k - 1][2] = Manifest
    BY <1>3, <1>6 DEF Shaped
  <2> QED
    BY <1>1, <1>3, <2>1
<1>7. ASSUME NEW i \in 1..Len(q), NEW j \in 1..Len(q), q[i][2] \in Calls, q[j][2] \in Calls
      PROVE  q[i][2] = q[j][2]
  <2>1. p[i + k - 1][2] = p[j + k - 1][2]
    BY <1>3, <1>7 DEF Shaped
  <2> QED
    BY <1>3, <2>1
<1>8. ASSUME NEW i \in 1..Len(q), NEW j \in 1..Len(q), i < j, q[j][2] = SessionStartRecord
      PROVE  q[i][2] = SessionStartRecord \/ q[i][1] \in {"create", "manifest"}
  <2>1. i + k - 1 < j + k - 1
    BY <1>1, <1>8
  <2>2. \/ p[i + k - 1][2] = SessionStartRecord
        \/ p[i + k - 1][1] \in {"create", "manifest"}
    BY <1>3, <1>8, <2>1 DEF Shaped
  <2> QED
    BY <1>3, <2>2
<1>a. ASSUME NEW i \in 1..Len(q), q[i][1] = "number" PROVE i < Len(q)
  <2>1. i + k - 1 < Len(p)
    BY <1>3, <1>a DEF Shaped
  <2> QED
    BY <1>1, <1>2, <2>1
<1>9. Shaped(q)
  BY <1>2, <1>4, <1>5, <1>6, <1>7, <1>8, <1>a DEF Shaped
<1> QED
  BY <1>2, <1>3, <1>9 DEF q

(* A list of two or of none. *)
LEMMA Empty == Shaped(<<>>) /\ AheadOf(<<>>) = {} /\ FirstOf(<<>>) = "none"
BY DEF Shaped, AheadOf, FirstOf

(* The program that writes the manifest. *)
LEMMA ManifestProgram ==
    /\ Shaped(Program(Manifest)) /\ Len(Program(Manifest)) = 2
    /\ Program(Manifest)[1] = <<"init", Manifest>>
    /\ Program(Manifest)[2] = <<"manifest", Manifest>>
<1>1. Manifest \in Rec \ {Stop} /\ Manifest[1] = "manifest"
  BY Records DEF Rec
<1>2. Steps("manifest")[2] = "manifest" /\ DOMAIN Steps("manifest") = 1..2
  BY StepLists DEF Spelt
<1>3. Len(Program(Manifest)) = 2
  BY <1>1, <1>2 DEF Program
<1> QED
  BY <1>1, <1>2, <1>3, ProgramOf, Records

(* One list after the other. *)
LEMMA Concatenated ==
    ASSUME NEW S, NEW p \in Seq(S), NEW m \in Seq(S)
    PROVE  /\ p \o m \in Seq(S) /\ Len(p \o m) = Len(p) + Len(m)
           /\ \A i \in 1..Len(p) : (p \o m)[i] = p[i]
           /\ \A i \in 1..Len(m) : (p \o m)[Len(p) + i] = m[i]
<1>1. Len(p) \in Nat /\ Len(m) \in Nat
  OBVIOUS
<1>2. p \o m \in Seq(S) /\ Len(p \o m) = Len(p) + Len(m)
  OBVIOUS
<1>3. \A i \in 1..(Len(p) + Len(m)) : (p \o m)[i] = IF i <= Len(p) THEN p[i] ELSE m[i - Len(p)]
  BY ConcatProperties
<1> QED
  BY <1>1, <1>2, <1>3

(* Two programs, one after the other. *)
LEMMA Both2 ==
    ASSUME NEW p, Shaped(p), p # <<>>, p[Len(p)][1] \in {"block", "footer"}
    PROVE  LET q == p \o Program(Manifest)
           IN  /\ Shaped(q) /\ Len(q) = Len(p) + 2 /\ q # <<>>
               /\ \A i \in 1..Len(p) : q[i] = p[i]
               /\ q[Len(p) + 1] = <<"init", Manifest>> /\ q[Len(p) + 2] = <<"manifest", Manifest>>
<1> DEFINE m == Program(Manifest)
           q == p \o m
           n == Len(p)
<1>1. p \in Seq(Dos \X Rec) /\ m \in Seq(Dos \X Rec) /\ Len(m) = 2 /\ n \in Nat /\ n # 0
  BY ManifestProgram, EmptySeq DEF Shaped
<1>2. m[1] = <<"init", Manifest>> /\ m[2] = <<"manifest", Manifest>>
  BY ManifestProgram
<1> DEFINE S == Dos \X Rec
<1> HIDE DEF m, S
<1>a. p \in Seq(S) /\ m \in Seq(S)
  BY <1>1 DEF S
<1>b. /\ p \o m \in Seq(S) /\ Len(p \o m) = Len(p) + Len(m)
      /\ \A i \in 1..Len(p) : (p \o m)[i] = p[i]
      /\ \A i \in 1..Len(m) : (p \o m)[Len(p) + i] = m[i]
  BY <1>a, Concatenated
<1>3. q \in Seq(Dos \X Rec) /\ Len(q) = n + 2
  BY <1>1, <1>b DEF S
<1>4. (\A i \in 1..n : q[i] = p[i]) /\ q[n + 1] = m[1] /\ q[n + 2] = m[2]
  BY <1>1, <1>b
<1> HIDE DEF q
<1>5. q[n + 1] = <<"init", Manifest>> /\ q[n + 2] = <<"manifest", Manifest>>
  BY <1>2, <1>4
<1>6. \A i \in 1..Len(q) : i \in 1..n \/ i = n + 1 \/ i = n + 2
  BY <1>1, <1>3
<1>7. Fits(q[n + 1]) /\ Fits(q[n + 2])
  <2>1. \A i \in 1..2 : Fits(m[i])
    BY <1>1, ManifestProgram DEF Shaped, m
  <2> QED
    BY <1>4, <2>1
<1>8. \A i \in 1..Len(q) : Fits(q[i])
  <2>1. \A i \in 1..n : Fits(q[i])
    BY <1>4 DEF Shaped
  <2> QED
    BY <1>6, <1>7, <2>1
<1>9. ASSUME NEW i \in 1..Len(q), i < Len(q) PROVE Follows(q[i], q[i + 1])
  <2>1. CASE i < n
    BY <1>1, <1>4, <1>9, <2>1 DEF Shaped
  <2>2. CASE i = n
    BY <1>1, <1>4, <1>5, <2>2 DEF Follows
  <2>3. CASE i = n + 1
    <3>1. q[i + 1] = <<"manifest", Manifest>>
      BY <1>1, <1>5, <2>3
    <3> QED
      BY <1>5, <2>3, <3>1 DEF Follows
  <2> QED
    BY <1>1, <1>3, <1>9, <2>1, <2>2, <2>3
<1>10. \A i \in 1..Len(q) : i \notin 1..n => q[i][2] = Manifest
  BY <1>5, <1>6
<1>11. ASSUME NEW i \in 1..Len(q), NEW j \in 1..Len(q), q[i] = q[j]
       PROVE  i = j \/ q[i][2] = Manifest
  BY <1>4, <1>10, <1>11 DEF Shaped
<1>12. Manifest \notin Calls /\ Manifest # SessionStartRecord
  BY Records DEF Calls
<1>13. ASSUME NEW i \in 1..Len(q), NEW j \in 1..Len(q), q[i][2] \in Calls, q[j][2] \in Calls
       PROVE  q[i][2] = q[j][2]
  <2>1. i \in 1..n /\ j \in 1..n
    BY <1>10, <1>12, <1>13
  <2> QED
    BY <1>4, <1>13, <2>1, SMTT(30) DEF Shaped
<1>14. ASSUME NEW i \in 1..Len(q), NEW j \in 1..Len(q), i < j, q[j][2] = SessionStartRecord
       PROVE  q[i][2] = SessionStartRecord \/ q[i][1] \in {"create", "manifest"}
  <2>1. j \in 1..n
    BY <1>10, <1>12, <1>14
  <2>2. i \in 1..n
    BY <1>1, <1>14, <2>1
  <2> QED
    BY <1>4, <1>14, <2>1, <2>2 DEF Shaped
<1>c. ASSUME NEW i \in 1..Len(q), q[i][1] = "number" PROVE i < Len(q)
  <2>1. i \in 1..n
    BY <1>5, <1>6, <1>c
  <2> QED
    BY <1>1, <1>3, <2>1
<1>15. Shaped(q)
  BY <1>3, <1>8, <1>9, <1>c, <1>11, <1>13, <1>14 DEF Shaped
<1>16. q # <<>>
  BY <1>1, <1>3
<1> QED
  BY <1>3, <1>4, <1>5, <1>15, <1>16 DEF q, m

(* What a thread that creates the files does before its own record. *)
Opening == <<<<"create", Manifest>>>> \o Tail(Program(Manifest)) \o Program(SessionStartRecord)

(* It is spelt out. *)
LEMMA OpeningList ==
  /\ Opening \in Seq(Dos \X Rec) /\ Len(Opening) = 6
  /\ Opening[1] = <<"create", Manifest>> /\ Opening[2] = <<"manifest", Manifest>>
  /\ Opening[3] = <<"start", SessionStartRecord>> /\ Opening[4] = <<"number", SessionStartRecord>>
  /\ Opening[5] = <<"event", SessionStartRecord>> /\ Opening[6] = <<"block", SessionStartRecord>>
<1> DEFINE S == Dos \X Rec
           a == <<<<"create", Manifest>>>>
           b == Tail(Program(Manifest))
           c == Program(SessionStartRecord)
<1>1. a \in Seq(S) /\ Len(a) = 1 /\ a[1] = <<"create", Manifest>>
  <2>1. <<"create", Manifest>> \in S
    BY DEF Dos, Rec
  <2> QED
    BY <2>1
<1>2. b \in Seq(S) /\ Len(b) = 1 /\ b[1] = <<"manifest", Manifest>>
  <2>1. Program(Manifest) \in Seq(S) /\ Len(Program(Manifest)) = 2
        /\ Program(Manifest)[2] = <<"manifest", Manifest>>
    BY ManifestProgram DEF Shaped
  <2> QED
    BY <2>1
<1>3. c \in Seq(S) /\ Len(c) = 4 /\ \A i \in 1..4 : c[i] = <<Steps("started")[i], SessionStartRecord>>
  <2>1. SessionStartRecord \in Rec \ {Stop} /\ SessionStartRecord[1] = "started"
    BY Records DEF Rec
  <2>2. DOMAIN Steps("started") = 1..4
    BY StepLists DEF Spelt
  <2>3. c \in Seq(S) /\ \A i \in 1..Len(c) : c[i] = <<Steps("started")[i], SessionStartRecord>>
    BY <2>1, ProgramOf DEF Shaped
  <2>4. DOMAIN c = 1..4
    BY <2>1, <2>2 DEF Program
  <2>5. Len(c) = 4
    BY <2>3, <2>4
  <2> QED
    BY <2>3, <2>5
<1>4. /\ Steps("started")[1] = "start" /\ Steps("started")[2] = "number"
      /\ Steps("started")[3] = "event" /\ Steps("started")[4] = "block"
  BY StepLists DEF Spelt
<1>5. Opening = (a \o b) \o c
  BY DEF Opening
<1> HIDE DEF S, a, b, c
<1>6. a \o b \in Seq(S) /\ Len(a \o b) = 2 /\ (a \o b)[1] = a[1] /\ (a \o b)[2] = b[1]
  <2>1. /\ a \o b \in Seq(S) /\ Len(a \o b) = Len(a) + Len(b)
        /\ \A i \in 1..Len(a) : (a \o b)[i] = a[i]
        /\ \A i \in 1..Len(b) : (a \o b)[Len(a) + i] = b[i]
    BY <1>1, <1>2, Concatenated
  <2> QED
    BY <1>1, <1>2, <2>1
<1> DEFINE d == a \o b
<1> HIDE DEF d
<1>7. /\ d \o c \in Seq(S) /\ Len(d \o c) = Len(d) + Len(c)
      /\ \A i \in 1..Len(d) : (d \o c)[i] = d[i]
      /\ \A i \in 1..Len(c) : (d \o c)[Len(d) + i] = c[i]
  <2>1. d \in Seq(S) /\ c \in Seq(S)
    BY <1>3, <1>6 DEF d
  <2> QED
    BY <2>1, Concatenated
<1>8. Len(d) = 2 /\ d[1] = a[1] /\ d[2] = b[1] /\ Opening = d \o c
  BY <1>5, <1>6 DEF d
<1>9. /\ Opening \in Seq(S) /\ Len(Opening) = 6 /\ Opening[1] = a[1] /\ Opening[2] = b[1]
      /\ Opening[3] = c[1] /\ Opening[4] = c[2] /\ Opening[5] = c[3] /\ Opening[6] = c[4]
  BY <1>3, <1>7, <1>8
<1> QED
  BY <1>1, <1>2, <1>3, <1>4, <1>9 DEF S

(* With it, a program goes on behind the check that it began with. *)
LEMMA Opened ==
    ASSUME NEW p, Shaped(p), p # <<>>, p[1][1] = "init"
    PROVE  LET q == Opening \o Tail(p)
           IN  /\ Shaped(q) /\ Len(q) = Len(p) + 5 /\ q # <<>>
               /\ \A i \in 1..6 : q[i] = Opening[i]
               /\ \A i \in 2..Len(p) : q[i + 5] = p[i]
<1> DEFINE S == Dos \X Rec
           r == Tail(p)
           q == Opening \o r
           n == Len(p)
<1>1. p \in Seq(S) /\ n \in Nat /\ n > 0
  BY EmptySeq DEF Shaped
<1>2. r \in Seq(S) /\ Len(r) = n - 1 /\ \A i \in 1..(n - 1) : r[i] = p[i + 1]
  BY <1>1
<1>a. Opening \in Seq(S)
  BY OpeningList
<1> HIDE DEF S, r
<1>3. /\ q \in Seq(S) /\ Len(q) = Len(Opening) + Len(r)
      /\ \A i \in 1..Len(Opening) : q[i] = Opening[i]
      /\ \A i \in 1..Len(r) : q[Len(Opening) + i] = r[i]
  <2>1. /\ Opening \o r \in Seq(S) /\ Len(Opening \o r) = Len(Opening) + Len(r)
        /\ \A i \in 1..Len(Opening) : (Opening \o r)[i] = Opening[i]
        /\ \A i \in 1..Len(r) : (Opening \o r)[Len(Opening) + i] = r[i]
    <3>1. r \in Seq(S)
      BY <1>2
    <3> QED
      BY <3>1, <1>a, Concatenated
  <2> QED
    BY <2>1
<1> HIDE DEF q
<1>4. Len(q) = n + 5 /\ \A i \in 1..6 : q[i] = Opening[i]
  BY <1>1, <1>2, <1>3, OpeningList
<1>5. \A i \in 2..n : q[i + 5] = p[i]
  <2>1. ASSUME NEW i \in 2..n PROVE q[i + 5] = p[i]
    <3>1. q[6 + (i - 1)] = r[i - 1]
      BY <1>1, <1>2, <1>3, OpeningList
    <3>2. r[i - 1] = p[(i - 1) + 1] /\ (i - 1) + 1 = i /\ 6 + (i - 1) = i + 5
      BY <1>1, <1>2
    <3> QED
      BY <3>1, <3>2
  <2> QED
    BY <2>1
<1>6. /\ q[1] = <<"create", Manifest>> /\ q[2] = <<"manifest", Manifest>>
      /\ q[3] = <<"start", SessionStartRecord>> /\ q[4] = <<"number", SessionStartRecord>>
      /\ q[5] = <<"event", SessionStartRecord>> /\ q[6] = <<"block", SessionStartRecord>>
  BY <1>4, OpeningList
<1>7. \A i \in 1..Len(q) : i \in 1..6 \/ (i - 5 \in 2..n /\ q[i] = p[i - 5])
  <2>1. ASSUME NEW i \in 1..Len(q), i \notin 1..6 PROVE i - 5 \in 2..n /\ q[i] = p[i - 5]
    <3>1. i - 5 \in 2..n /\ (i - 5) + 5 = i
      BY <1>1, <1>4, <2>1
    <3>2. q[(i - 5) + 5] = p[i - 5]
      BY <1>5, <3>1
    <3> QED
      BY <3>1, <3>2
  <2> QED
    BY <2>1
<1>8. \A i \in 1..6 : Fits(q[i]) /\ q[i][2] \in {Manifest, SessionStartRecord}
                      /\ q[i][2] \notin Calls
  <2>1. q[1] \in Dos \X Rec /\ q[2] \in Dos \X Rec /\ q[3] \in Dos \X Rec /\ q[4] \in Dos \X Rec
        /\ q[5] \in Dos \X Rec /\ q[6] \in Dos \X Rec
    BY <1>6 DEF Dos, Rec
  <2>2. Manifest # Stop /\ SessionStartRecord # Stop /\ Manifest \notin Calls
        /\ SessionStartRecord \notin Calls
    BY Records DEF Calls
  <2>3. Fits(q[1]) /\ Fits(q[2])
    BY <1>6, <2>1, <2>2 DEF Fits
  <2>4. Fits(q[3]) /\ Fits(q[4])
    BY <1>6, <2>1, <2>2 DEF Fits
  <2>5. Fits(q[5]) /\ Fits(q[6])
    BY <1>6, <2>1, <2>2 DEF Fits
  <2>6. \A i \in 1..6 : i = 1 \/ i = 2 \/ i = 3 \/ i = 4 \/ i = 5 \/ i = 6
    OBVIOUS
  <2>7. \A i \in 1..6 : q[i][2] \in {Manifest, SessionStartRecord}
    BY <1>6, <2>6
  <2> QED
    BY <2>2, <2>3, <2>4, <2>5, <2>6, <2>7
<1>9. \A i \in 1..Len(q) : Fits(q[i])
  <2>1. \A i \in 1..n : Fits(p[i])
    BY DEF Shaped
  <2>2. \A i \in 2..n : i \in 1..n
    BY <1>1
  <2> QED
    BY <1>7, <1>8, <2>1, <2>2
<1>10. \A i \in 2..n : p[i][2] # SessionStartRecord
  <2>1. ASSUME NEW i \in 2..n, p[i][2] = SessionStartRecord PROVE FALSE
    <3>1. 1 \in 1..n /\ i \in 1..n /\ 1 < i
      BY <1>1
    <3>2. p[1][2] = SessionStartRecord \/ p[1][1] \in {"create", "manifest"}
      BY <2>1, <3>1 DEF Shaped
    <3>3. p[1][2] # SessionStartRecord
      BY <3>1 DEF Shaped, Fits
    <3> QED
      BY <3>2, <3>3
  <2> QED
    BY <2>1
<1>11. ASSUME NEW i \in 1..Len(q), i < Len(q) PROVE Follows(q[i], q[i + 1])
  <2>1. CASE i \in 1..5
    <3>1. i = 1 \/ i = 2 \/ i = 3 \/ i = 4 \/ i = 5
      BY <2>1
    <3>2. Follows(q[1], q[2]) /\ Follows(q[2], q[3]) /\ Follows(q[3], q[4])
      BY <1>6 DEF Follows
    <3>3. Follows(q[4], q[5]) /\ Follows(q[5], q[6])
      BY <1>6 DEF Follows
    <3> QED
      BY <3>1, <3>2, <3>3
  <2>2. CASE i = 6
    <3>1. 2 \in 2..n /\ 1 \in 1..n /\ 1 < n
      BY <1>1, <1>4, <1>11, <2>2
    <3>2. q[2 + 5] = p[2] /\ 2 + 5 = 7
      BY <1>5, <3>1
    <3>3. Follows(p[1], p[1 + 1]) /\ 1 + 1 = 2
      BY <3>1 DEF Shaped
    <3>4. p[2][1] \in {"step", "manifest"}
      BY <3>3 DEF Follows
    <3>5. q[i] = q[6] /\ q[i + 1] = p[2]
      BY <2>2, <3>2
    <3> QED
      BY <1>6, <3>4, <3>5 DEF Follows
  <2>3. CASE i > 6
    <3>1. i - 5 \in 2..n /\ (i - 5) + 1 \in 2..n /\ i - 5 \in 1..n /\ i - 5 < n
      BY <1>1, <1>4, <1>11, <2>3
    <3>2. (i - 5) + 5 = i /\ ((i - 5) + 1) + 5 = i + 1
      BY <1>1, <1>4
    <3>3. q[i] = p[i - 5] /\ q[i + 1] = p[(i - 5) + 1]
      BY <1>5, <3>1, <3>2
    <3>4. Follows(p[i - 5], p[(i - 5) + 1])
      BY <3>1 DEF Shaped
    <3> QED
      BY <3>3, <3>4
  <2> QED
    BY <1>1, <1>4, <2>1, <2>2, <2>3
<1>12. \A i \in 1..6, j \in 1..6 : q[i] = q[j] => i = j
  BY <1>6, Records
<1>13. ASSUME NEW i \in 1..Len(q), NEW j \in 1..Len(q), q[i] = q[j]
       PROVE  i = j \/ q[i][2] = Manifest
  <2>1. CASE i \in 1..6 /\ j \in 1..6
    BY <1>12, <1>13, <2>1
  <2>2. CASE i \in 1..6 /\ j \notin 1..6
    BY <1>7, <1>8, <1>10, <1>13, <2>2, SMTT(30)
  <2>3. CASE i \notin 1..6 /\ j \in 1..6
    BY <1>7, <1>8, <1>10, <1>13, <2>3
  <2>4. CASE i \notin 1..6 /\ j \notin 1..6
    <3>1. i - 5 \in 1..n /\ j - 5 \in 1..n /\ p[i - 5] = p[j - 5] /\ q[i] = p[i - 5]
      BY <1>1, <1>7, <1>13, <2>4, SMTT(30)
    <3>2. i - 5 = j - 5 \/ p[i - 5][2] = Manifest
      BY <3>1 DEF Shaped
    <3> QED
      BY <1>1, <1>4, <3>1, <3>2
  <2> QED
    BY <2>1, <2>2, <2>3, <2>4
<1>14. ASSUME NEW i \in 1..Len(q), NEW j \in 1..Len(q), q[i][2] \in Calls, q[j][2] \in Calls
       PROVE  q[i][2] = q[j][2]
  <2>1. i \notin 1..6 /\ j \notin 1..6
    BY <1>8, <1>14
  <2>2. i - 5 \in 1..n /\ j - 5 \in 1..n /\ q[i] = p[i - 5] /\ q[j] = p[j - 5]
    BY <1>1, <1>7, <2>1, SMTT(30)
  <2>3. p[i - 5][2] = p[j - 5][2]
    BY <1>14, <2>2 DEF Shaped
  <2> QED
    BY <2>2, <2>3
<1>15. ASSUME NEW i \in 1..Len(q), NEW j \in 1..Len(q), i < j, q[j][2] = SessionStartRecord
       PROVE  q[i][2] = SessionStartRecord \/ q[i][1] \in {"create", "manifest"}
  <2>1. j \in 1..6
    BY <1>7, <1>10, <1>15
  <2>2. i \in 1..5 /\ (i = 1 \/ i = 2 \/ i = 3 \/ i = 4 \/ i = 5)
    BY <1>15, <2>1
  <2> QED
    BY <1>6, <2>2
<1>b. ASSUME NEW i \in 1..Len(q), q[i][1] = "number" PROVE i < Len(q)
  <2>1. CASE i \in 1..6
    <3>1. i # 6
      BY <1>6, <1>b
    <3> QED
      BY <1>1, <1>4, <2>1, <3>1
  <2>2. CASE i \notin 1..6
    <3>1. i - 5 \in 1..n /\ p[i - 5][1] = "number"
      BY <1>1, <1>7, <1>b, <2>2
    <3>2. i - 5 < n
      BY <3>1 DEF Shaped
    <3> QED
      BY <1>1, <1>4, <3>2
  <2> QED
    BY <2>1, <2>2
<1>16. Shaped(q)
  BY <1>3, <1>9, <1>11, <1>13, <1>14, <1>15, <1>b DEF Shaped, S
<1>17. q # <<>>
  BY <1>1, <1>4
<1> QED
  BY <1>4, <1>5, <1>16, <1>17 DEF q, r

-----------------------------------------------------------------------------
(* Where a thread is in its program                                        *)

(* The steps that may come behind a step. *)
Behind(do) ==
  {"none"} \cup (IF do = "start" THEN {"number"} ELSE IF do = "step" THEN {"number", "block"}
                 ELSE IF do = "number" THEN {"event"} ELSE IF do = "event" THEN {"block"}
                 ELSE IF do = "block" THEN {"footer", "step", "manifest", "init"}
                 ELSE IF do = "footer" THEN {"init"} ELSE IF do = "create" THEN {"manifest"}
                 ELSE IF do = "manifest" THEN {"start"} ELSE IF do = "init" THEN {"step", "manifest"}
                 ELSE {})

(* A thread at a step: that step is the first of its program, or the       *)
(* second, behind a check that is none any more.                           *)
LEMMA AtStep ==
    ASSUME VariablesOK, NEW t \in Threads, NEW do, At(t, do)
    PROVE  \E k \in 1..Len(program[t]) :
             /\ Task(t) = program[t][k] /\ program[t][k][1] = do
             /\ Tail(Pending(t)) = SubSeq(program[t], k + 1, Len(program[t]))
             /\ \/ k = 1 /\ First(t) = do /\ (do = "init" => ~initialized)
                \/ k = 2 /\ First(t) = "init" /\ initialized /\ do \in {"step", "manifest"}
<1> DEFINE p == program[t]
<1>a. Shaped(p)
  BY DEF VariablesOK
<1>1. p \in Seq(Dos \X Rec) /\ Shaped(p)
  BY <1>a, Programs
<1>2. p # <<>>
  BY <1>1 DEF At, Idle, Pending
<1>3. Len(p) \in Nat /\ Len(p) > 0 /\ Head(p) = p[1]
  BY <1>1, <1>2, EmptySeq
<1>4. CASE initialized /\ p[1][1] = "init"
  <2>1. Pending(t) = Tail(p)
    BY <1>2, <1>3, <1>4 DEF Pending
  <2>2. Tail(p) # <<>>
    BY <2>1 DEF At, Idle
  <2>3. /\ Tail(p) \in Seq(Dos \X Rec) /\ Len(Tail(p)) = Len(p) - 1
        /\ \A i \in 1..(Len(p) - 1) : Tail(p)[i] = p[i + 1]
    BY <1>1, <1>2
  <2>4. Len(p) > 1
    BY <1>3, <2>2, <2>3, EmptySeq
  <2>5. Head(Tail(p)) = p[2]
    BY <2>2, <2>3, <2>4
  <2>6. Tail(Tail(p)) = SubSeq(p, 3, Len(p))
    <3>1. Tail(Tail(p)) \in Seq(Dos \X Rec) /\ Len(Tail(Tail(p))) = Len(p) - 2
          /\ \A i \in 1..(Len(p) - 2) : Tail(Tail(p))[i] = p[i + 2]
      BY <2>2, <2>3, <2>4
    <3>2. SubSeq(p, 3, Len(p)) \in Seq(Dos \X Rec) /\ Len(SubSeq(p, 3, Len(p))) = Len(p) - 2
          /\ \A i \in 1..(Len(p) - 2) : SubSeq(p, 3, Len(p))[i] = p[i + 2]
      BY <1>1, <1>3, <2>4
    <3> QED
      BY <3>1, <3>2, SeqEqual
  <2>7. Follows(p[1], p[2])
    <3>1. 1 \in 1..Len(p) /\ 1 < Len(p) /\ 1 + 1 = 2
      BY <1>3, <2>4
    <3> QED
      BY <1>1, <3>1 DEF Shaped
  <2>8. p[2][1] \in {"step", "manifest"}
    BY <1>4, <2>7 DEF Follows
  <2>9. Task(t) = p[2] /\ p[2][1] = do
    BY <2>1, <2>5 DEF At, Task
  <2>10. First(t) = "init"
    BY <1>2, <1>4 DEF First, FirstOf
  <2>11. 2 \in 1..Len(p) /\ 2 + 1 = 3
    BY <1>3, <2>4
  <2> QED
    BY <1>4, <2>1, <2>6, <2>8, <2>9, <2>10, <2>11
<1>5. CASE ~(initialized /\ p[1][1] = "init")
  <2>1. Pending(t) = p
    BY <1>3, <1>5 DEF Pending
  <2>2. Task(t) = p[1] /\ p[1][1] = do
    BY <1>3, <2>1 DEF At, Task
  <2>3. First(t) = do
    BY <1>2, <2>2 DEF First, FirstOf
  <2>4. Tail(p) = SubSeq(p, 2, Len(p))
    BY <1>1, <1>2, TailIsSubSeq
  <2>5. 1 \in 1..Len(p) /\ 1 + 1 = 2
    BY <1>3
  <2> QED
    BY <1>5, <2>1, <2>2, <2>3, <2>4, <2>5
<1> QED
  BY <1>4, <1>5

(* One step further: it is behind the thread, the others are still ahead,  *)
(* and nothing else is.                                                    *)
LEMMA Advanced ==
    ASSUME VariablesOK, NEW t \in Threads, NEW do, At(t, do), Advance(t)
    PROVE  /\ Fits(Task(t)) /\ Task(t)[1] = do /\ (do # "init" => Task(t) \in Ahead(t))
           /\ DOMAIN program' = Threads /\ Shaped(program'[t])
           /\ \A u \in Threads \ {t} : program'[u] = program[u]
           /\ AheadOf(program'[t]) \subseteq Ahead(t)
           /\ Ahead(t) \subseteq AheadOf(program'[t]) \cup {Task(t)}
           /\ Task(t)[2] # Manifest => Task(t) \notin AheadOf(program'[t])
           /\ FirstOf(program'[t]) \in Behind(do)
           /\ do = "number" => FirstOf(program'[t]) = "event"
           /\ First(t) = do \/ (First(t) = "init" /\ do \in {"step", "manifest"})
<1> DEFINE p == program[t]
           n == Len(p)
<1>1. PICK k \in 1..n : /\ Task(t) = p[k] /\ p[k][1] = do
                        /\ Tail(Pending(t)) = SubSeq(p, k + 1, n)
                        /\ \/ k = 1 /\ First(t) = do /\ (do = "init" => ~initialized)
                           \/ k = 2 /\ First(t) = "init" /\ initialized /\ do \in {"step", "manifest"}
  BY AtStep
<1> DEFINE q == SubSeq(p, k + 1, n)
<1>a. Shaped(p) /\ DOMAIN program = Threads
  BY DEF VariablesOK
<1>2. Shaped(p) /\ n \in Nat /\ DOMAIN program = Threads
  BY <1>a, Programs
<1>3. program' = [program EXCEPT ![t] = q]
  BY <1>1 DEF Advance, Goes
<1>4. program'[t] = q /\ DOMAIN program' = Threads
      /\ \A u \in Threads \ {t} : program'[u] = program[u]
  BY <1>2, <1>3
<1>5. k + 1 \in 1..(n + 1)
  BY <1>2
<1>6. Shaped(q) /\ Len(q) = n - k /\ \A i \in 1..Len(q) : q[i] = p[i + k]
  <2>1. Shaped(q) /\ Len(q) = n + 1 - (k + 1) /\ \A i \in 1..Len(q) : q[i] = p[i + (k + 1) - 1]
    BY <1>2, <1>5, Rest
  <2>2. Len(q) = n - k
    BY <1>2, <2>1
  <2>3. \A i \in 1..Len(q) : i + (k + 1) - 1 = i + k
    BY <1>2, <2>2
  <2> QED
    BY <2>1, <2>2, <2>3
<1> HIDE DEF q
<1>7. Fits(p[k])
  BY <1>2 DEF Shaped
<1>8. AheadOf(q) \subseteq AheadOf(p)
  <2>1. \A i \in 1..Len(q) : i + k \in 1..n
    BY <1>2, <1>6
  <2> QED
    BY <1>6, <2>1 DEF AheadOf
<1>9. ASSUME NEW x \in AheadOf(p), x # p[k] PROVE x \in AheadOf(q)
  <2>1. PICK i \in 1..n : x = p[i] /\ p[i][1] # "init"
    BY <1>9 DEF AheadOf
  <2>2. i > k
    <3>1. CASE k = 1
      BY <1>2, <1>9, <2>1, <3>1
    <3>2. CASE k = 2
      <4>1. p[1][1] = "init"
        BY <1>1, <1>2, <3>2, EmptySeq DEF First, FirstOf
      <4> QED
        BY <1>2, <1>9, <2>1, <3>2, <4>1
    <3> QED
      BY <1>1, <3>1, <3>2
  <2>3. i - k \in 1..Len(q) /\ (i - k) + k = i
    BY <1>2, <1>6, <2>2
  <2>4. q[i - k] = p[i]
    BY <1>6, <2>3
  <2> QED
    BY <2>1, <2>3, <2>4 DEF AheadOf
<1>10. ASSUME p[k] \in AheadOf(q) PROVE p[k][2] = Manifest
  <2>1. PICK i \in 1..Len(q) : p[k] = q[i]
    BY <1>10 DEF AheadOf
  <2>2. i + k \in 1..n /\ p[k] = p[i + k] /\ k # i + k
    BY <1>2, <1>6, <2>1
  <2> QED
    BY <1>2, <2>2 DEF Shaped
<1>11. FirstOf(q) \in Behind(do)
  <2>1. CASE q = <<>>
    BY <2>1 DEF FirstOf, Behind
  <2>2. CASE q # <<>>
    <3>1. q \in Seq(Dos \X Rec)
      BY <1>6 DEF Shaped
    <3>2. 1 \in 1..Len(q)
      BY <2>2, <3>1, EmptySeq
    <3>3. q[1] = p[1 + k] /\ k < n
      BY <1>2, <1>6, <3>2
    <3>4. Follows(p[k], p[k + 1])
      BY <1>2, <3>3 DEF Shaped
    <3>5. p[1 + k] = p[k + 1]
      BY <1>2
    <3>6. FirstOf(q) = q[1][1]
      BY <2>2 DEF FirstOf
    <3> QED
      BY <1>1, <3>3, <3>4, <3>5, <3>6 DEF Follows, Behind
  <2> QED
    BY <2>1, <2>2
<1>12. do # "init" => p[k] \in AheadOf(p)
  BY <1>1 DEF AheadOf
<1>13. ASSUME do = "number" PROVE FirstOf(q) = "event"
  <2>1. k < n
    BY <1>1, <1>2, <1>13 DEF Shaped
  <2>2. q # <<>>
    BY <1>2, <1>6, <2>1, EmptySeq
  <2>3. FirstOf(q) # "none"
    <3>1. FirstOf(q) = q[1][1] /\ 1 \in 1..Len(q)
      BY <1>2, <1>6, <2>1, <2>2 DEF FirstOf
    <3>2. q[1] \in Dos \X Rec
      BY <1>6, <3>1 DEF Shaped, Fits
    <3> QED
      BY <3>1, <3>2 DEF Dos
  <2> QED
    BY <1>11, <1>13, <2>3 DEF Behind
<1> QED
  BY <1>1, <1>4, <1>6, <1>7, <1>8, <1>9, <1>10, <1>11, <1>12, <1>13 DEF Ahead

(* The same of what is ahead. *)
LEMMA Moved ==
    ASSUME VariablesOK, NEW t \in Threads, NEW do, At(t, do), Advance(t)
    PROVE  /\ \A u \in Threads \ {t} : Ahead(u)' = Ahead(u) /\ First(u)' = First(u)
           /\ Ahead(t)' \subseteq Ahead(t) /\ Ahead(t) \subseteq Ahead(t)' \cup {Task(t)}
           /\ Task(t)[2] # Manifest => Task(t) \notin Ahead(t)'
           /\ First(t)' \in Behind(do)
           /\ do = "number" => First(t)' = "event"
           /\ \A u \in Threads : Shaped(program'[u])
           /\ DOMAIN program' = Threads
<1>1. \A u \in Threads : Shaped(program[u])
  BY DEF VariablesOK
<1> QED
  BY <1>1, Advanced DEF Ahead, First

(* What is ahead of a thread are steps, of one call at most. *)
LEMMA AheadFits ==
    ASSUME VariablesOK, NEW t \in Threads, NEW x \in Ahead(t)
    PROVE  /\ Fits(x) /\ x[1] # "init" /\ x \in Dos \X Rec /\ x = <<x[1], x[2]>> /\ x[2] \in Rec
           /\ \A y \in Ahead(t) : x[2] \in Calls /\ y[2] \in Calls => x[2] = y[2]
<1>1. Shaped(program[t])
  BY DEF VariablesOK
<1>2. PICK i \in 1..Len(program[t]) : x = program[t][i] /\ x[1] # "init"
  BY DEF Ahead, AheadOf
<1>3. Fits(x)
  BY <1>1, <1>2 DEF Shaped
<1>4. ASSUME NEW y \in Ahead(t), x[2] \in Calls, y[2] \in Calls PROVE x[2] = y[2]
  <2>1. PICK j \in 1..Len(program[t]) : y = program[t][j]
    BY DEF Ahead, AheadOf
  <2> QED
    BY <1>1, <1>2, <1>4, <2>1 DEF Shaped
<1> QED
  BY <1>2, <1>3, <1>4 DEF Fits

(* The start of the log comes before anything else but the manifest.       *)
LEMMA StartFirst ==
    ASSUME VariablesOK, NEW t \in Threads, NEW do, At(t, do),
           NEW x \in Ahead(t), x[2] = SessionStartRecord
    PROVE  Task(t)[2] = SessionStartRecord \/ do \in {"create", "manifest"}
<1> DEFINE p == program[t]
<1>1. PICK k \in 1..Len(p) : /\ Task(t) = p[k] /\ p[k][1] = do
                             /\ Tail(Pending(t)) = SubSeq(p, k + 1, Len(p))
                             /\ \/ k = 1 /\ First(t) = do /\ (do = "init" => ~initialized)
                                \/ k = 2 /\ First(t) = "init" /\ initialized /\ do \in {"step", "manifest"}
  BY AtStep
<1>a. Shaped(p)
  BY DEF VariablesOK
<1>2. Shaped(p) /\ Len(p) \in Nat
  BY <1>a, Programs
<1>3. PICK i \in 1..Len(p) : x = p[i]
  BY DEF Ahead, AheadOf
<1>4. k < i \/ k = i \/ i < k
  BY <1>1, <1>2, <1>3
<1>5. CASE k < i
  BY <1>1, <1>2, <1>3, <1>5 DEF Shaped
<1>6. CASE k = i
  BY <1>1, <1>3, <1>6
<1>7. CASE i < k
  <2>1. i = 1 /\ k = 2
    BY <1>1, <1>2, <1>3, <1>7
  <2>2. p[1][1] = "init"
    BY <1>1, <1>2, <2>1, EmptySeq DEF First, FirstOf
  <2>3. p[1][2] # SessionStartRecord
    BY <1>2, <1>3, <2>1, <2>2 DEF Shaped, Fits
  <2> QED
    BY <1>3, <2>1, <2>3
<1> QED
  BY <1>4, <1>5, <1>6, <1>7

(* Nothing is ahead of an idle thread. *)
LEMMA Nothing ==
    ASSUME VariablesOK, NEW t \in Threads, Idle(t)
    PROVE  Ahead(t) = {} /\ First(t) \in {"none", "init"} /\ ~Writing(t)
<1> DEFINE p == program[t]
<1>a. Shaped(p)
  BY DEF VariablesOK
<1>1. p \in Seq(Dos \X Rec)
  BY <1>a, Programs
<1>2. CASE p = <<>>
  BY <1>2, Empty DEF Ahead, First, Writing
<1>3. CASE p # <<>>
  <2>1. initialized /\ p[1][1] = "init" /\ Tail(p) = <<>>
    BY <1>1, <1>3 DEF Idle, Pending
  <2>2. Len(p) = 1
    <3>1. Len(Tail(p)) = Len(p) - 1 /\ Len(p) \in Nat
      BY <1>1, <1>3
    <3>2. Len(Tail(p)) = Len(<<>>)
      BY <2>1
    <3> QED
      BY <3>1, <3>2
  <2>3. \A i \in 1..Len(p) : p[i][1] = "init"
    BY <2>1, <2>2
  <2> QED
    BY <1>3, <2>1, <2>3 DEF Ahead, AheadOf, First, FirstOf, Writing
<1> QED
  BY <1>2, <1>3

(* A thread that does not work on the files has only an end ahead.         *)
LEMMA Resting ==
    ASSUME VariablesOK, NEW t \in Threads, ~Writing(t)
    PROVE  /\ \A x \in Ahead(t) : x[2] = Stop
           /\ First(t) \in {"none", "init", "join", "ended"}
<1>1. CASE Idle(t)
  BY <1>1, Nothing
<1>2. CASE \E do \in {"join", "ended"} : At(t, do)
  <2>1. PICK do \in {"join", "ended"} : At(t, do)
    BY <1>2
  <2> DEFINE p == program[t]
  <2>2. PICK k \in 1..Len(p) : /\ Task(t) = p[k] /\ p[k][1] = do
                               /\ Tail(Pending(t)) = SubSeq(p, k + 1, Len(p))
                               /\ \/ k = 1 /\ First(t) = do /\ (do = "init" => ~initialized)
                                  \/ k = 2 /\ First(t) = "init" /\ initialized /\ do \in {"step", "manifest"}
    BY <2>1, AtStep
  <2>a. Shaped(p)
    BY DEF VariablesOK
  <2>3. Shaped(p) /\ Len(p) \in Nat
    BY <2>a, Programs
  <2>4. k = 1 /\ First(t) = do /\ p[1][1] = do
    BY <2>1, <2>2
  <2>5. Len(p) = 1
    <3>1. ASSUME 1 < Len(p) PROVE FALSE
      <4>1. Follows(p[1], p[1 + 1])
        BY <2>2, <2>3, <2>4, <3>1 DEF Shaped
      <4> QED
        BY <2>1, <2>4, <4>1 DEF Follows
    <3> DEFINE n == Len(p)
    <3>2. n \in Nat /\ n >= 1
      BY <2>3, <2>4
    <3>3. ~(1 < n)
      BY <3>1
    <3> HIDE DEF n
    <3>4. n = 1
      BY <3>2, <3>3
    <3> QED
      BY <3>4 DEF n
  <2>6. p[1][2] = Stop
    BY <2>1, <2>2, <2>3, <2>4 DEF Shaped, Fits
  <2>7. \A i \in 1..Len(p) : p[i][2] = Stop
    BY <2>5, <2>6
  <2> QED
    BY <2>1, <2>4, <2>7 DEF Ahead, AheadOf
<1> QED
  BY <1>1, <1>2 DEF Writing

(* A thread at a step on the files works. *)
LEMMA Busies ==
    ASSUME NEW t \in Threads, NEW do, At(t, do), do \notin {"join", "ended"}
    PROVE  Writing(t)
BY DEF Writing, At, Idle

(* A thread does not begin to work by what another one does.               *)
LEMMA StillResting ==
    ASSUME NEW u, program'[u] = program[u], initialized \in BOOLEAN, initialized' \in BOOLEAN,
           initialized => initialized', program[u] \in Seq(Dos \X Rec), Writing(u)'
    PROVE  Writing(u)
<1> DEFINE p == program[u]
<1>1. CASE initialized' = initialized
  <2>1. Pending(u)' = Pending(u)
    BY <1>1 DEF Pending
  <2> QED
    BY <2>1 DEF Writing, At, Idle, Task
<1>2. CASE ~initialized /\ initialized'
  <2>1. Pending(u) = p
    BY <1>2 DEF Pending
  <2>2. CASE p # <<>> /\ Head(p)[1] = "init"
    BY <2>1, <2>2 DEF Writing, At, Idle, Task
  <2>3. CASE ~(p # <<>> /\ Head(p)[1] = "init")
    <3>1. Pending(u)' = p
      BY <2>3 DEF Pending
    <3>2. Pending(u)' = Pending(u)
      BY <2>1, <3>1
    <3> QED
      BY <3>2 DEF Writing, At, Idle, Task
  <2> QED
    BY <2>2, <2>3
<1> QED
  BY <1>1, <1>2

-----------------------------------------------------------------------------
(* What a step leaves alone                                                *)

Plain == {SessionStartRecord, Manifest, FallbackRecord}

(* The numbers of the steps, when none is counted and nothing is written. *)
LEMMA StepsStay ==
    ASSUME StepsOK, UNCHANGED <<step, events, blocks>>, ~overlapped' => ~overlapped,
           \A t \in Threads :
             /\ held'[t].step = held[t].step
             /\ First(t)' \in {"number", "event"} => First(t) \in {"number", "event"}
             /\ Carrying(t)' => Carrying(t)
    PROVE  StepsOK'
<1>1. \A t \in Threads : Carrying(t)' => held'[t].step \in 1..step'
  BY DEF StepsOK
<1>2. \A t, u \in Threads : t # u /\ Carrying(t)' /\ Carrying(u)' => held'[t].step # held'[u].step
  BY DEF StepsOK
<1>3. \A i \in 1..Len(events') : /\ events'[i].step \in 1..step'
                                 /\ \A t \in Threads : First(t)' \in {"number", "event"} =>
                                      /\ events'[i].step # held'[t].step
                                      /\ ~overlapped' => events'[i].step < held'[t].step
  BY DEF StepsOK
<1>4. \A i \in 1..Len(blocks') : /\ blocks'[i].step \in 1..step'
                                 /\ \A t \in Threads : Carrying(t)' =>
                                      /\ blocks'[i].step # held'[t].step
                                      /\ ~overlapped' => blocks'[i].step < held'[t].step
  BY DEF StepsOK
<1>5. \A i, j \in 1..Len(events') : i < j => /\ events'[i].step # events'[j].step
                                             /\ ~overlapped' => events'[i].step < events'[j].step
  BY DEF StepsOK
<1>6. \A i, j \in 1..Len(blocks') : i < j => /\ blocks'[i].step # blocks'[j].step
                                             /\ ~overlapped' => blocks'[i].step < blocks'[j].step
  BY DEF StepsOK
<1> QED
  BY <1>1, <1>2, <1>3, <1>4, <1>5, <1>6 DEF StepsOK

(* How many threads are at a step. *)
LEMMA CountTypes ==
    ASSUME NEW do
    PROVE  /\ \A t \in Threads : One(t, do) \in {0, 1} /\ (One(t, do) = 1 <=> First(t) = do)
           /\ Count(do) \in 0..3 /\ (Count(do) = 0 <=> \A t \in Threads : First(t) # do)
BY DEF One, Count, Threads

(* The same after a step. *)
LEMMA CountTypesNext ==
    ASSUME NEW do
    PROVE  /\ \A t \in Threads : One(t, do)' \in {0, 1} /\ (One(t, do)' = 1 <=> First(t)' = do)
           /\ Count(do)' \in 0..3 /\ (Count(do)' = 0 <=> \A t \in Threads : First(t)' # do)
BY DEF One, Count, Threads

(* A step of one thread changes the count by its own. *)
LEMMA CountMoves ==
    ASSUME NEW do, NEW t \in Threads, \A u \in Threads \ {t} : First(u)' = First(u)
    PROVE  Count(do)' + One(t, do) = Count(do) + One(t, do)'
<1>1. \A u \in Threads \ {t} : One(u, do)' = One(u, do)
  BY DEF One
<1>2. \A u \in Threads : One(u, do) \in {0, 1} /\ One(u, do)' \in {0, 1}
  BY DEF One
<1>3. /\ Count(do) = One("agent", do) + One("admin", do) + One("writer", do)
      /\ Count(do)' = One("agent", do)' + One("admin", do)' + One("writer", do)'
  BY DEF Count
<1>4. t = "agent" \/ t = "admin" \/ t = "writer"
  BY DEF Threads
<1>5. CASE t = "agent"
  <2>1. One("admin", do)' = One("admin", do) /\ One("writer", do)' = One("writer", do)
    BY <1>1, <1>5 DEF Threads
  <2> QED
    BY <1>2, <1>3, <1>5, <2>1 DEF Threads
<1>6. CASE t = "admin"
  <2>1. One("agent", do)' = One("agent", do) /\ One("writer", do)' = One("writer", do)
    BY <1>1, <1>6 DEF Threads
  <2> QED
    BY <1>2, <1>3, <1>6, <2>1 DEF Threads
<1>7. CASE t = "writer"
  <2>1. One("admin", do)' = One("admin", do) /\ One("agent", do)' = One("agent", do)
    BY <1>1, <1>7 DEF Threads
  <2> QED
    BY <1>2, <1>3, <1>7, <2>1 DEF Threads
<1> QED
  BY <1>4, <1>5, <1>6, <1>7

(* The numbers of the events. *)
LEMMA SeqsStay ==
    ASSUME VariablesOK, SeqsOK, UNCHANGED <<step, seq, events>>, ~overlapped' => ~overlapped,
           NEW t \in Threads, \A u \in Threads \ {t} : First(u)' = First(u),
           \A u \in Threads : held'[u].seq = held[u].seq,
           First(t)' \notin {"number", "event"},
           First(t) = "event" => failures' > 0, failures' = 0 => failures = 0
    PROVE  SeqsOK'
<1>1. \A u \in Threads : First(u)' \in {"number", "event"} => First(u)' = First(u)
  OBVIOUS
<1>2. /\ Count("number")' + One(t, "number") = Count("number") + One(t, "number")'
      /\ Count("event")' + One(t, "event") = Count("event") + One(t, "event")'
  BY CountMoves
<1>3. /\ One(t, "number")' = 0 /\ One(t, "event")' = 0
      /\ One(t, "number") \in {0, 1} /\ One(t, "event") \in {0, 1}
      /\ Count("number") \in 0..3 /\ Count("event") \in 0..3
      /\ Count("number")' \in 0..3 /\ Count("event")' \in 0..3
      /\ failures' = 0 => One(t, "event") = 0
  <2>1. /\ One(t, "number") \in {0, 1} /\ One(t, "event") \in {0, 1}
        /\ Count("number") \in 0..3 /\ Count("event") \in 0..3
        /\ One(t, "event") = 1 <=> First(t) = "event"
    BY CountTypes
  <2>2. /\ One(t, "number")' \in {0, 1} /\ One(t, "event")' \in {0, 1}
        /\ Count("number")' \in 0..3 /\ Count("event")' \in 0..3
        /\ (One(t, "event")' = 1 <=> First(t)' = "event")
        /\ (One(t, "number")' = 1 <=> First(t)' = "number")
    BY CountTypesNext
  <2> QED
    BY <2>1, <2>2
<1>4. Count("number")' <= Count("number") /\ Count("event")' <= Count("event")
      /\ (failures' = 0 => Count("event")' = Count("event"))
  BY <1>2, <1>3
<1>5. seq \in Nat /\ step \in Nat /\ Len(events) \in Nat
  BY DEF VariablesOK
<1>6. seq' + Count("number")' <= step' /\ Len(events') + Count("event")' <= seq'
  BY <1>3, <1>4, <1>5 DEF SeqsOK
<1>7. \A u \in Threads : First(u)' = "event" => /\ held'[u].seq \in 1..seq'
                                                /\ ~overlapped' => held'[u].seq = seq'
  BY <1>1 DEF SeqsOK
<1>8. \A u, v \in Threads : u # v /\ First(u)' = "event" /\ First(v)' = "event" =>
                             held'[u].seq # held'[v].seq
  BY <1>1 DEF SeqsOK
<1>9. \A i \in 1..Len(events') : /\ events'[i].seq \in 1..seq'
                                 /\ \A u \in Threads : First(u)' = "event" =>
                                      events'[i].seq # held'[u].seq
  BY <1>1 DEF SeqsOK
<1>10. \A i, j \in 1..Len(events') : i < j => events'[i].seq # events'[j].seq
  BY DEF SeqsOK
<1>11. ~overlapped' /\ failures' = 0 => /\ seq' = Len(events') + Count("event")'
                                        /\ \A i \in 1..Len(events') : events'[i].seq = i
  <2>1. ASSUME ~overlapped', failures' = 0 PROVE ~overlapped /\ failures = 0 /\ Count("event")' = Count("event")
    BY <1>4, <2>1
  <2>2. ASSUME ~overlapped', failures' = 0 PROVE seq' = Len(events') + Count("event")'
    BY <2>1, <2>2 DEF SeqsOK
  <2>3. ASSUME ~overlapped', failures' = 0 PROVE \A i \in 1..Len(events') : events'[i].seq = i
    BY <2>1, <2>3 DEF SeqsOK
  <2> QED
    BY <2>2, <2>3
<1> QED
  BY <1>6, <1>7, <1>8, <1>9, <1>10, <1>11 DEF SeqsOK

(* What a step brings: nothing that was logged. *)
Brings(t) == \A x \in Ahead(t)' : x \in Ahead(t) \/ x[2] \in Plain
Alone(t)  == \A u \in Threads \ {t} : program'[u] = program[u]

(* The plain records have no number. *)
LEMMA PlainRecords ==
    \A r \in Plain : r[2] = 0 /\ r \notin Calls /\ r \in Rec /\ r # SessionEndRecord /\ r # Stop
BY Records DEF Plain, Calls, Rec

(* The other threads have the same ahead of them. *)
LEMMA OthersStay ==
    ASSUME NEW t, Alone(t)
    PROVE  \A u \in Threads \ {t} : Ahead(u)' = Ahead(u) /\ First(u)' = First(u)
BY DEF Alone, Ahead, First

(* Each record stays where it is. *)
LEMMA RecordsStay ==
    ASSUME VariablesOK, RecordsOK, UNCHANGED <<queue, records, events, blocks>>,
           NEW t \in Threads, Alone(t), Brings(t)
    PROVE  RecordsOK'
<1>1. \A u \in Threads : \A x \in Ahead(u)' : x \in Ahead(u) \/ x[2][2] = 0
  BY OthersStay, PlainRecords DEF Brings
<1>2. records \in Nat
  BY DEF VariablesOK
<1>3. \A u \in Threads : \A x \in Ahead(u)' :
       /\ x[2][2] <= records'
       /\ x[2][2] > 0 => /\ \A i \in 1..Len(queue') : queue'[i][2] # x[2][2]
                         /\ \A v \in Threads : v # u => \A y \in Ahead(v)' : y[2][2] # x[2][2]
  <2> SUFFICES ASSUME NEW u \in Threads, NEW x \in Ahead(u)'
               PROVE  /\ x[2][2] <= records
                      /\ x[2][2] > 0 =>
                           /\ \A i \in 1..Len(queue) : queue[i][2] # x[2][2]
                           /\ \A v \in Threads : v # u => \A y \in Ahead(v)' : y[2][2] # x[2][2]
    OBVIOUS
  <2>1. CASE x[2][2] = 0
    BY <2>1, <1>2
  <2>2. CASE x \in Ahead(u)
    <3>1. /\ x[2][2] <= records
          /\ x[2][2] > 0 => /\ \A i \in 1..Len(queue) : queue[i][2] # x[2][2]
                            /\ \A v \in Threads : v # u => \A y \in Ahead(v) : y[2][2] # x[2][2]
      BY <2>2 DEF RecordsOK
    <3>2. ASSUME x[2][2] > 0, NEW v \in Threads, v # u, NEW y \in Ahead(v)' PROVE y[2][2] # x[2][2]
      BY <1>1, <3>1, <3>2
    <3> QED
      BY <3>1, <3>2
  <2> QED
    BY <1>1, <2>1, <2>2
<1>4. ASSUME Elsewhere(events, "event") PROVE Elsewhere(events, "event")'
  BY <1>1, <1>4 DEF Elsewhere
<1>5. ASSUME Elsewhere(blocks, "block") PROVE Elsewhere(blocks, "block")'
  BY <1>1, <1>5 DEF Elsewhere
<1>6. /\ \A i \in 1..Len(queue') : queue'[i][2] <= records'
      /\ \A i, j \in 1..Len(queue') : i < j /\ queue'[i][2] > 0 /\ queue'[j][2] > 0 =>
                                       queue'[i][2] < queue'[j][2]
  BY DEF RecordsOK
<1> QED
  BY <1>3, <1>4, <1>5, <1>6 DEF RecordsOK

(* As long as threads do not meet the order stays too. *)
LEMMA OrderStay ==
    ASSUME VariablesOK, OrderOK, UNCHANGED <<queue, records, events, blocks>>,
           ~overlapped' => ~overlapped,
           NEW t \in Threads, Alone(t), Brings(t),
           ~overlapped' => \A u, v \in Threads : u # v => ~(Writing(u)' /\ Writing(v)')
    PROVE  OrderOK'
<1> SUFFICES ASSUME ~overlapped' 
             PROVE  /\ \A u, v \in Threads : u # v => ~(Writing(u)' /\ Writing(v)')
                    /\ \A u \in Threads : \A x \in Ahead(u)' : \A j \in 1..Len(queue') :
                         x[2][2] > 0 /\ queue'[j][2] > 0 => x[2][2] < queue'[j][2]
                    /\ Before(events, "event")' /\ Before(blocks, "block")'
  BY DEF OrderOK
<1>1. \A u \in Threads : \A x \in Ahead(u)' : x \in Ahead(u) \/ ~(x[2][2] > 0)
  BY OthersStay, PlainRecords DEF Brings
<1>2. Before(events, "event") /\ Before(blocks, "block")
  BY DEF OrderOK
<1>3. \A u \in Threads : \A x \in Ahead(u)' : \A j \in 1..Len(queue') :
                         x[2][2] > 0 /\ queue'[j][2] > 0 => x[2][2] < queue'[j][2]
  BY <1>1 DEF OrderOK
<1>4. Before(events, "event")'
  BY <1>1, <1>2 DEF Before
<1>5. Before(blocks, "block")'
  BY <1>1, <1>2 DEF Before
<1> QED
  BY <1>3, <1>4, <1>5

(* The beginning of the files stays. *)
LEMMA StartStay ==
    ASSUME StartOK, UNCHANGED <<events, blocks>>, ~overlapped' => ~overlapped,
           NEW t \in Threads, Alone(t), initialized => initialized',
           ~initialized' => First(t)' \in {"none", "init", "create", "join", "ended"},
           \A do \in {"event", "block"} : <<do, SessionStartRecord>> \in Ahead(t)' =>
             <<do, SessionStartRecord>> \in Ahead(t) \/ ~initialized
    PROVE  StartOK'
<1>1. \A u \in Threads \ {t} : Ahead(u)' = Ahead(u) /\ First(u)' = First(u)
  BY OthersStay
<1>2. ~initialized' => /\ events' = <<>> /\ blocks' = <<>>
                       /\ \A u \in Threads : First(u)' \in {"none", "init", "create", "join", "ended"}
  BY <1>1 DEF StartOK
<1>3. StartsFile(events, "event")'
  <2>1. StartsFile(events, "event") /\ (~initialized => events = <<>>)
    BY DEF StartOK
  <2> QED
    BY <1>1, <2>1 DEF StartsFile
<1>4. StartsFile(blocks, "block")'
  <2>1. StartsFile(blocks, "block") /\ (~initialized => blocks = <<>>)
    BY DEF StartOK
  <2> QED
    BY <1>1, <2>1 DEF StartsFile
<1> QED
  BY <1>2, <1>3, <1>4 DEF StartOK

(* What concerns the end of the log stays. *)
LEMMA EndStay ==
    ASSUME VariablesOK, EndOK, UNCHANGED <<queue, events, blocks, early, closed>>,
           footer' => closed, ~overlapped' => ~overlapped,
           NEW t \in Threads, Alone(t), Brings(t)
    PROVE  EndOK'
<1>1. \A u \in Threads : \A x \in Ahead(u)' : x \in Ahead(u) \/ x[2] \in Plain
  BY OthersStay DEF Brings
<1>2. \A e \in early : e.rec \notin Plain
  BY PlainRecords DEF VariablesOK
<1>3. \A r \in {SessionEndRecord, Stop} : r \notin Plain /\ (Queued(r)' <=> Queued(r))
  BY PlainRecords DEF Queued
<1>4. \A r \in {SessionEndRecord, Stop} : Begun(r)' => Begun(r)
  BY <1>1, <1>3 DEF Begun
<1>5. \A e \in early : Queued(e.rec)' <=> Queued(e.rec)
  BY DEF Queued
<1>6. ~closed' => \A r \in {SessionEndRecord, Stop} : ~Queued(r)' /\ ~Begun(r)'
  BY <1>3, <1>4 DEF EndOK
<1>7. <<"ended", Stop>> \in Ahead("writer")' => \A e \in early' : ~Queued(e.rec)'
  <2>1. "writer" \in Threads /\ <<"ended", Stop>>[2] = Stop
    BY DEF Threads
  <2>2. Stop \notin Plain
    BY <1>3
  <2>3. <<"ended", Stop>> \in Ahead("writer")' => <<"ended", Stop>> \in Ahead("writer")
    BY <1>1, <2>1, <2>2
  <2> QED
    BY <1>5, <2>3 DEF EndOK
<1>8. ASSUME ~overlapped', Begun(SessionEndRecord)', NEW e \in early
      PROVE  ~Queued(e.rec)' /\ \A u \in Threads : \A x \in Ahead(u)' : x[2] # e.rec
  <2>1. ~overlapped /\ Begun(SessionEndRecord)
    BY <1>4, <1>8
  <2>2. ~Queued(e.rec) /\ \A u \in Threads : \A x \in Ahead(u) : x[2] # e.rec
    BY <2>1 DEF EndOK
  <2> QED
    BY <1>1, <1>2, <1>5, <2>2
<1>9. EndsFile(events)' /\ EndsFile(blocks)'
  BY DEF EndOK, EndsFile
<1>10. \A i, j \in 1..Len(queue') : i < j /\ queue'[i] \in {SessionEndRecord, Stop} =>
       \A e \in early' : queue'[j] # e.rec
  BY DEF EndOK
<1>11. footer' => closed'
  OBVIOUS
<1> QED
  BY <1>6, <1>7, <1>8, <1>9, <1>10, <1>11 DEF EndOK

(* A step that gives up nothing the logs and the manifest wait for. *)
Keeps(t) ==
  /\ \A x \in Ahead(t) : \/ x \in Ahead(t)' \/ x[2] = SessionStartRecord
                         \/ x[1] \notin {"event", "block"}
  /\ \/ manifest' = StatusNow'
     \/ manifest' = manifest /\ (<<"manifest", Manifest>> \in Ahead(t) =>
                                     <<"manifest", Manifest>> \in Ahead(t)')

(* What was logged stays where it is. *)
LEMMA KeptStay ==
    ASSUME VariablesOK, KeptOK,
           UNCHANGED <<queue, events, blocks, early, closed, records, counted, status>>,
           NEW t \in Threads, Alone(t), failures' = 0 => failures = 0 /\ Keeps(t)
    PROVE  KeptOK'
<1>1. ASSUME failures' = 0
      PROVE  /\ \A e \in early' :
                  /\ "event" \in ToSet(Steps(e.rec[1])) =>
                       \/ Queued(e.rec)' \/ Coming(<<"event", e.rec>>)'
                       \/ \E i \in 1..Len(events') : events'[i].rec = e.rec
                  /\ "block" \in ToSet(Steps(e.rec[1])) =>
                       \/ Queued(e.rec)' \/ Coming(<<"block", e.rec>>)'
                       \/ \E i \in 1..Len(blocks') : blocks'[i].rec = e.rec
             /\ (\E e \in early' : e.counts) /\ Cardinality(early') = records' =>
                  \/ manifest' = StatusNow' \/ InTurn(Manifest)' \/ Coming(<<"manifest", Manifest>>)'
             /\ (\E e \in early' : e.counts) /\ closed' =>
                  \/ InTurn(SessionEndRecord)' \/ Coming(<<"block", SessionEndRecord>>)'
                  \/ \E i \in 1..Len(blocks') : blocks'[i].rec = SessionEndRecord
  <2>1. failures = 0 /\ Keeps(t)
    BY <1>1
  <2>2. ASSUME NEW do \in {"event", "block"}, NEW r, r # SessionStartRecord,
               Coming(<<do, r>>)
        PROVE  Coming(<<do, r>>)'
    <3>1. PICK u \in Threads : <<do, r>> \in Ahead(u)
      BY <2>2 DEF Coming
    <3>2. <<do, r>> \in Ahead(u)'
      <4>1. CASE u # t
        BY <3>1, <4>1, OthersStay
      <4>2. CASE u = t
        BY <2>1, <2>2, <3>1, <4>2 DEF Keeps
      <4> QED
        BY <4>1, <4>2
    <3> QED
      BY <3>2 DEF Coming
  <2>3. \A r : (Queued(r)' <=> Queued(r)) /\ (InTurn(r)' <=> InTurn(r))
    BY DEF Queued, InTurn
  <2>4. StatusNow' = StatusNow
    BY DEF StatusNow
  <2>5. SessionEndRecord # SessionStartRecord /\ Manifest # SessionStartRecord
        /\ \A e \in early : e.rec # SessionStartRecord
    BY PlainRecords, Records DEF VariablesOK, Plain
  <2>6. ASSUME NEW e \in early, "event" \in ToSet(Steps(e.rec[1]))
        PROVE  \/ Queued(e.rec)' \/ Coming(<<"event", e.rec>>)'
               \/ \E i \in 1..Len(events') : events'[i].rec = e.rec
    <3>1. \/ Queued(e.rec) \/ Coming(<<"event", e.rec>>)
          \/ \E i \in 1..Len(events) : events[i].rec = e.rec
      BY <2>1, <2>6 DEF KeptOK
    <3> QED
      BY <2>2, <2>3, <2>5, <3>1
  <2>7. ASSUME NEW e \in early, "block" \in ToSet(Steps(e.rec[1]))
        PROVE  \/ Queued(e.rec)' \/ Coming(<<"block", e.rec>>)'
               \/ \E i \in 1..Len(blocks') : blocks'[i].rec = e.rec
    <3>1. \/ Queued(e.rec) \/ Coming(<<"block", e.rec>>)
          \/ \E i \in 1..Len(blocks) : blocks[i].rec = e.rec
      BY <2>1, <2>7 DEF KeptOK
    <3> QED
      BY <2>2, <2>3, <2>5, <3>1
  <2>8. ASSUME \E e \in early : e.counts, Cardinality(early) = records
        PROVE  \/ manifest' = StatusNow' \/ InTurn(Manifest)' \/ Coming(<<"manifest", Manifest>>)'
    <3>1. manifest = StatusNow \/ InTurn(Manifest) \/ Coming(<<"manifest", Manifest>>)
      BY <2>1, <2>8 DEF KeptOK
    <3>2. CASE manifest' = StatusNow'
      BY <3>2
    <3>3. CASE manifest' # StatusNow'
      <4>1. manifest' = manifest /\ (<<"manifest", Manifest>> \in Ahead(t) =>
                                        <<"manifest", Manifest>> \in Ahead(t)')
        BY <2>1, <3>3 DEF Keeps
      <4>2. Coming(<<"manifest", Manifest>>) => Coming(<<"manifest", Manifest>>)'
        BY <4>1, OthersStay DEF Coming
      <4> QED
        BY <2>3, <2>4, <3>1, <4>1, <4>2
    <3> QED
      BY <3>2, <3>3
  <2>9. ASSUME \E e \in early : e.counts, closed
        PROVE  \/ InTurn(SessionEndRecord)' \/ Coming(<<"block", SessionEndRecord>>)'
               \/ \E i \in 1..Len(blocks') : blocks'[i].rec = SessionEndRecord
    <3>1. \/ InTurn(SessionEndRecord) \/ Coming(<<"block", SessionEndRecord>>)
          \/ \E i \in 1..Len(blocks) : blocks[i].rec = SessionEndRecord
      BY <2>1, <2>9 DEF KeptOK
    <3> QED
      BY <2>2, <2>3, <2>5, <3>1
  <2> QED
    BY <2>6, <2>7, <2>8, <2>9
<1>2. (\E e \in early' : e.counts) => counted' > 0
  BY DEF KeptOK
<1> QED
  BY <1>1, <1>2 DEF KeptOK

(* No thread begins to work when only t makes a step. *)
LEMMA StillAlone ==
    ASSUME VariablesOK, OrderOK, ~overlapped' => ~overlapped,
           NEW t \in Threads, Alone(t), initialized => initialized', initialized' \in BOOLEAN,
           Writing(t)' => Writing(t)
    PROVE  ~overlapped' => \A u, v \in Threads : u # v => ~(Writing(u)' /\ Writing(v)')
<1>1. ASSUME NEW u \in Threads, Writing(u)' PROVE Writing(u)
  <2>1. CASE u = t
    BY <1>1, <2>1
  <2>2. CASE u # t
    <3>a. program'[u] = program[u] /\ Shaped(program[u]) /\ initialized \in BOOLEAN
      BY <2>2 DEF Alone, VariablesOK
    <3>1. program[u] \in Seq(Dos \X Rec)
      BY <3>a, Programs
    <3> QED
      BY <1>1, <3>a, <3>1, StillResting
  <2> QED
    BY <2>1, <2>2
<1> QED
  BY <1>1 DEF OrderOK

(* A thread that is at a step of a write: the files exist. *)
LEMMA FilesExist ==
    ASSUME VariablesOK, StartOK, NEW t \in Threads, NEW do, At(t, do)
    PROVE  do \in {"init", "create", "join", "ended"} \/ initialized
<1>1. \/ First(t) = do
      \/ First(t) = "init" /\ initialized
  BY AtStep
<1>2. do # "none"
  <2>1. PICK k \in 1..Len(program[t]) : program[t][k][1] = do
    BY AtStep
  <2>a. Shaped(program[t])
    BY DEF VariablesOK
  <2>2. program[t][k] \in Dos \X Rec
    BY <2>1, <2>a DEF Shaped, Fits
  <2> QED
    BY <2>1, <2>2 DEF Dos
<1> QED
  BY <1>1, <1>2 DEF StartOK

(* A step that writes nothing. *)
LEMMA Steady ==
    ASSUME Inv, NEW t \in Threads, NEW do, At(t, do), Advance(t),
           do \notin {"event", "block", "manifest", "init", "ended"},
           UNCHANGED <<queue, events, blocks, manifest, early, closed, records, counted,
                       status, overlapped, failures>>,
           initialized' = (initialized \/ do = "create"), footer' => closed
    PROVE  RecordsOK' /\ OrderOK' /\ StartOK' /\ EndOK' /\ KeptOK'
<1>1. /\ VariablesOK /\ RecordsOK /\ OrderOK /\ StartOK /\ EndOK /\ KeptOK
  BY DEF Inv
<1>2. Alone(t)
  BY <1>1, Advanced DEF Alone
<1>3. /\ Ahead(t)' \subseteq Ahead(t) /\ Ahead(t) \subseteq Ahead(t)' \cup {Task(t)}
      /\ First(t)' \in Behind(do) /\ Shaped(program'[t])
  BY <1>1, Moved
<1>4. Task(t)[1] = do
  BY DEF At
<1>5. Brings(t) /\ Keeps(t)
  <2>1. <<"manifest", Manifest>> \in Ahead(t) => <<"manifest", Manifest>> \in Ahead(t)'
    BY <1>3, <1>4
  <2> QED
    BY <1>3, <1>4, <2>1 DEF Brings, Keeps
<1>6. initialized \in BOOLEAN /\ initialized' \in BOOLEAN /\ (initialized => initialized')
  BY <1>1 DEF VariablesOK
<1>7. Writing(t)' => Writing(t)
  <2>1. CASE do = "join"
    <3>1. First(t)' = "none"
      BY <1>3, <2>1 DEF Behind
    <3>2. program'[t] = <<>>
      <4>1. ASSUME program'[t] # <<>> PROVE FALSE
        <5>1. program'[t][1][1] = "none"
          BY <3>1, <4>1 DEF First, FirstOf
        <5>2. 1 \in 1..Len(program'[t])
          BY <1>3, <4>1, EmptySeq DEF Shaped
        <5>3. program'[t][1] \in Dos \X Rec
          BY <1>3, <5>2 DEF Shaped, Fits
        <5> QED
          BY <5>1, <5>3 DEF Dos
      <4> QED
        BY <4>1
    <3> QED
      BY <3>2 DEF Writing, Idle, Pending
  <2>2. CASE do # "join"
    BY <2>2, Busies
  <2> QED
    BY <2>1, <2>2
<1>8. ~initialized' => First(t)' \in {"none", "init", "create", "join", "ended"}
  <2>1. do = "join" \/ initialized'
    BY <1>1, FilesExist
  <2> QED
    BY <1>3, <2>1 DEF Behind
<1>9. \A d \in {"event", "block"} : <<d, SessionStartRecord>> \in Ahead(t)' =>
        <<d, SessionStartRecord>> \in Ahead(t) \/ ~initialized
  BY <1>3
<1>10. ~overlapped' => \A u, v \in Threads : u # v => ~(Writing(u)' /\ Writing(v)')
  BY <1>1, <1>2, <1>6, <1>7, StillAlone
<1>11. RecordsOK'
  BY <1>1, <1>2, <1>5, RecordsStay
<1>12. OrderOK'
  BY <1>1, <1>2, <1>5, <1>10, OrderStay
<1>13. StartOK'
  BY <1>1, <1>2, <1>6, <1>8, <1>9, StartStay
<1>14. EndOK'
  BY <1>1, <1>2, <1>5, EndStay
<1>15. KeptOK'
  BY <1>1, <1>2, <1>5, KeptStay
<1> QED
  BY <1>11, <1>12, <1>13, <1>14, <1>15

-----------------------------------------------------------------------------
(* The steps of a write                                                    *)

(* A step of a thread that works leaves the types of what it leaves alone. *)
LEMMA VariablesStay ==
    ASSUME VariablesOK, UNCHANGED <<mode, closed, counted, status, queue, records, early>>,
           failures' \in 0..MaxFailures, overlapped' \in BOOLEAN,
           initialized' \in BOOLEAN, footer' \in BOOLEAN, transport' \in {transport, FALSE},
           step' \in Nat, seq' \in Nat, events' \in Seq(EventType), blocks' \in Seq(BlockType),
           held' \in [Threads -> [step : Nat, seq : Nat]],
           DOMAIN program' = Threads, \A u \in Threads : Shaped(program'[u])
    PROVE  VariablesOK'
<1>1. mode' \in {"off", "sync", "async"} /\ transport' \in BOOLEAN /\ (transport' => mode' = "async")
  <2>1. mode \in {"off", "sync", "async"} /\ transport \in BOOLEAN /\ (transport => mode = "async")
    BY DEF VariablesOK
  <2>2. CASE transport' = FALSE
    BY <2>1, <2>2
  <2>3. CASE transport' = transport
    BY <2>1, <2>3
  <2> QED
    BY <2>2, <2>3
<1>2. /\ initialized' \in BOOLEAN /\ closed' \in BOOLEAN /\ footer' \in BOOLEAN
      /\ overlapped' \in BOOLEAN
      /\ status' \in {"open", "closed"}
      /\ records' \in 0..MaxRecords /\ failures' \in 0..MaxFailures
      /\ counted' \in Nat /\ counted' <= records' /\ step' \in Nat /\ seq' \in Nat
  BY DEF VariablesOK
<1>3. queue' \in Seq(Items)
  BY DEF VariablesOK
<1>4. /\ \A e \in early' : e.rec \in Calls /\ e.rec[2] <= records'
      /\ IsFiniteSet(early') /\ Cardinality(early') <= records'
  BY DEF VariablesOK
<1> QED
  BY <1>1, <1>2, <1>3, <1>4 DEF VariablesOK

(* Nobody else is at work when threads do not meet. *)
LEMMA NobodyElse ==
    ASSUME VariablesOK, OrderOK, ~overlapped, NEW t \in Threads, Writing(t),
           NEW u \in Threads \ {t}
    PROVE  First(u) \in {"none", "init", "join", "ended"} /\ \A x \in Ahead(u) : x[2] = Stop
<1>1. ~Writing(u)
  BY DEF OrderOK
<1> QED
  BY <1>1, Resting

(* The files come to be. *)
LEMMA CreateInv == ASSUME Inv, NEW t \in Threads, Create(t) PROVE Inv'
<1>1. /\ VariablesOK /\ StepsOK /\ SeqsOK /\ StartOK /\ EndOK
  BY DEF Inv
<1>2. /\ At(t, "create") /\ Advance(t) /\ initialized' = TRUE
      /\ UNCHANGED <<mode, closed, transport, counted, status, queue, records, failures, early,
                     overlapped, footer, step, seq, events, blocks, manifest, held>>
  BY DEF Create, Undisturbed, history, files
<1>3. /\ \A u \in Threads \ {t} : Ahead(u)' = Ahead(u) /\ First(u)' = First(u)
      /\ First(t)' \in Behind("create")
      /\ \A u \in Threads : Shaped(program'[u])
      /\ DOMAIN program' = Threads
  BY <1>1, <1>2, Moved
<1>4. First(t)' \in {"none", "manifest"} /\ First(t) \in {"create", "init"}
  <2>1. First(t) = "create" \/ First(t) = "init"
    BY <1>1, <1>2, AtStep
  <2> QED
    BY <1>3, <2>1 DEF Behind
<1>5. VariablesOK'
  <2>1. /\ step \in Nat /\ seq \in Nat /\ events \in Seq(EventType) /\ blocks \in Seq(BlockType)
        /\ held \in [Threads -> [step : Nat, seq : Nat]] /\ failures \in 0..MaxFailures
        /\ overlapped \in BOOLEAN
        /\ footer \in BOOLEAN
    BY <1>1 DEF VariablesOK
  <2> QED
    BY <1>1, <1>2, <1>3, <2>1, VariablesStay
<1>6. StepsOK'
  <2>1. \A u \in Threads :
             /\ held'[u].step = held[u].step
             /\ First(u)' \in {"number", "event"} => First(u) \in {"number", "event"}
             /\ Carrying(u)' => Carrying(u)
    BY <1>2, <1>3, <1>4 DEF Carrying
  <2> QED
    BY <1>1, <1>2, <2>1, StepsStay
<1>7. SeqsOK'
  <2>1. \A u \in Threads : held'[u].seq = held[u].seq
    BY <1>2
  <2>2. First(t)' \notin {"number", "event"} /\ First(t) # "event"
    BY <1>4
  <2> QED
    BY <1>1, <1>2, <1>3, <2>1, <2>2, SeqsStay
<1>8. RecordsOK' /\ OrderOK' /\ StartOK' /\ EndOK' /\ KeptOK'
  <2>1. footer' => closed
    BY <1>1, <1>2 DEF EndOK
  <2> QED
    BY <1>2, <2>1, Steady
<1> QED
  BY <1>5, <1>6, <1>7, <1>8 DEF Inv

(* The log ends. *)
LEMMA FooterInv == ASSUME Inv, NEW t \in Threads, Footer(t) PROVE Inv'
<1>1. /\ VariablesOK /\ StepsOK /\ SeqsOK /\ StartOK /\ EndOK
  BY DEF Inv
<1>2. /\ At(t, "footer") /\ Advance(t) /\ footer' = TRUE
      /\ UNCHANGED <<mode, closed, transport, counted, status, queue, records, failures, early,
                     overlapped, initialized, step, seq, events, blocks, manifest, held>>
  BY DEF Footer, Undisturbed, history, files
<1>3. /\ \A u \in Threads \ {t} : Ahead(u)' = Ahead(u) /\ First(u)' = First(u)
      /\ First(t)' \in Behind("footer")
      /\ \A u \in Threads : Shaped(program'[u])
      /\ DOMAIN program' = Threads
  BY <1>1, <1>2, Moved
<1>4. First(t)' \in {"none", "init"} /\ First(t) \in {"footer", "init"}
  <2>1. First(t) = "footer" \/ First(t) = "init"
    BY <1>1, <1>2, AtStep
  <2> QED
    BY <1>3, <2>1 DEF Behind
<1>5. VariablesOK'
  <2>1. /\ step \in Nat /\ seq \in Nat /\ events \in Seq(EventType) /\ blocks \in Seq(BlockType)
        /\ held \in [Threads -> [step : Nat, seq : Nat]] /\ failures \in 0..MaxFailures
        /\ overlapped \in BOOLEAN
        /\ initialized \in BOOLEAN
    BY <1>1 DEF VariablesOK
  <2> QED
    BY <1>1, <1>2, <1>3, <2>1, VariablesStay
<1>6. StepsOK'
  <2>1. \A u \in Threads :
             /\ held'[u].step = held[u].step
             /\ First(u)' \in {"number", "event"} => First(u) \in {"number", "event"}
             /\ Carrying(u)' => Carrying(u)
    BY <1>2, <1>3, <1>4 DEF Carrying
  <2> QED
    BY <1>1, <1>2, <2>1, StepsStay
<1>7. SeqsOK'
  <2>1. \A u \in Threads : held'[u].seq = held[u].seq
    BY <1>2
  <2>2. First(t)' \notin {"number", "event"} /\ First(t) # "event"
    BY <1>4
  <2> QED
    BY <1>1, <1>2, <1>3, <2>1, <2>2, SeqsStay
<1>8. RecordsOK' /\ OrderOK' /\ StartOK' /\ EndOK' /\ KeptOK'
  <2>1. closed
    <3>1. Task(t) \in Ahead(t) /\ Fits(Task(t)) /\ Task(t)[1] = "footer"
      BY <1>1, <1>2, Advanced
    <3>2. Task(t)[2] = SessionEndRecord
      BY <3>1 DEF Fits
    <3>3. Begun(SessionEndRecord)
      BY <3>1, <3>2 DEF Begun
    <3> QED
      BY <1>1, <3>3 DEF EndOK
  <2>2. initialized' = (initialized \/ "footer" = "create")
    BY <1>1, <1>2 DEF VariablesOK
  <2> QED
    BY <1>2, <2>1, <2>2, Steady
<1> QED
  BY <1>5, <1>6, <1>7, <1>8 DEF Inv

(* The thread that closes stops waiting. *)
LEMMA JoinInv == ASSUME Inv, NEW t \in Threads, Join(t) PROVE Inv'
<1>1. /\ VariablesOK /\ StepsOK /\ SeqsOK /\ StartOK /\ EndOK
  BY DEF Inv
<1>2. /\ At(t, "join") /\ Advance(t) /\ transport' = FALSE
      /\ UNCHANGED <<mode, closed, footer, counted, status, queue, records, failures, early,
                     overlapped, initialized, step, seq, events, blocks, manifest, held>>
  BY DEF Join, numbers, files, history
<1>3. /\ \A u \in Threads \ {t} : Ahead(u)' = Ahead(u) /\ First(u)' = First(u)
      /\ First(t)' \in Behind("join")
      /\ \A u \in Threads : Shaped(program'[u])
      /\ DOMAIN program' = Threads
  BY <1>1, <1>2, Moved
<1>4. First(t)' = "none" /\ First(t) \in {"join", "init"}
  <2>1. First(t) = "join" \/ First(t) = "init"
    BY <1>1, <1>2, AtStep
  <2> QED
    BY <1>3, <2>1 DEF Behind
<1>5. VariablesOK'
  <2>1. /\ step \in Nat /\ seq \in Nat /\ events \in Seq(EventType) /\ blocks \in Seq(BlockType)
        /\ held \in [Threads -> [step : Nat, seq : Nat]] /\ failures \in 0..MaxFailures
        /\ overlapped \in BOOLEAN
        /\ initialized \in BOOLEAN /\ footer \in BOOLEAN
    BY <1>1 DEF VariablesOK
  <2> QED
    BY <1>1, <1>2, <1>3, <2>1, VariablesStay
<1>6. StepsOK'
  <2>1. \A u \in Threads :
             /\ held'[u].step = held[u].step
             /\ First(u)' \in {"number", "event"} => First(u) \in {"number", "event"}
             /\ Carrying(u)' => Carrying(u)
    BY <1>2, <1>3, <1>4 DEF Carrying
  <2> QED
    BY <1>1, <1>2, <2>1, StepsStay
<1>7. SeqsOK'
  <2>1. \A u \in Threads : held'[u].seq = held[u].seq
    BY <1>2
  <2>2. First(t)' \notin {"number", "event"} /\ First(t) # "event"
    BY <1>4
  <2> QED
    BY <1>1, <1>2, <1>3, <2>1, <2>2, SeqsStay
<1>8. RecordsOK' /\ OrderOK' /\ StartOK' /\ EndOK' /\ KeptOK'
  <2>1. footer' => closed
    BY <1>1, <1>2 DEF EndOK
  <2>2. initialized' = (initialized \/ "join" = "create")
    BY <1>1, <1>2 DEF VariablesOK
  <2> QED
    BY <1>2, <2>1, <2>2, Steady
<1> QED
  BY <1>5, <1>6, <1>7, <1>8 DEF Inv

(* The next number of a step. *)
LEMMA NextTimelineSeqInv == ASSUME Inv, NEW t \in Threads, NextTimelineSeq(t) PROVE Inv'
<1>1. /\ VariablesOK /\ StepsOK /\ SeqsOK /\ StartOK /\ EndOK
  BY DEF Inv
<1>2. PICK do \in {"step", "start"} : At(t, do)
  BY DEF NextTimelineSeq
<1>3. /\ Advance(t) /\ step' = step + 1 /\ held' = [held EXCEPT ![t].step = step + 1]
      /\ UNCHANGED <<mode, closed, transport, counted, status, queue, records, failures, early,
                     overlapped, initialized, footer, seq, events, blocks, manifest>>
  BY DEF NextTimelineSeq, Undisturbed, history, files
<1>4. /\ \A u \in Threads \ {t} : Ahead(u)' = Ahead(u) /\ First(u)' = First(u)
      /\ First(t)' \in Behind(do)
      /\ \A u \in Threads : Shaped(program'[u])
      /\ DOMAIN program' = Threads
  BY <1>1, <1>2, <1>3, Moved
<1>5. First(t)' \in {"none", "number", "block"} /\ First(t) \in {"step", "start", "init"}
  <2>1. First(t) = do \/ First(t) = "init"
    BY <1>1, <1>2, AtStep
  <2>2. CASE do = "step"
    BY <1>4, <2>1, <2>2 DEF Behind
  <2>3. CASE do = "start"
    BY <1>4, <2>1, <2>3 DEF Behind
  <2> QED
    BY <2>2, <2>3
<1>6. /\ step \in Nat /\ seq \in Nat /\ events \in Seq(EventType) /\ blocks \in Seq(BlockType)
      /\ held \in [Threads -> [step : Nat, seq : Nat]] /\ failures \in 0..MaxFailures
      /\ overlapped \in BOOLEAN /\ footer \in BOOLEAN /\ initialized \in BOOLEAN
  BY <1>1 DEF VariablesOK
<1>7. /\ held' \in [Threads -> [step : Nat, seq : Nat]]
      /\ held'[t].step = step + 1 /\ held'[t].seq = held[t].seq
      /\ \A u \in Threads \ {t} : held'[u] = held[u]
  <2>1. held[t] \in [step : Nat, seq : Nat] /\ step + 1 \in Nat
    BY <1>3, <1>6
  <2>2. [held[t] EXCEPT !.step = step + 1] \in [step : Nat, seq : Nat]
    BY <2>1
  <2>3. held'[t] = [held[t] EXCEPT !.step = step + 1] /\ DOMAIN held' = Threads
        /\ \A u \in Threads \ {t} : held'[u] = held[u]
    BY <1>3, <1>6
  <2>4. held' \in [Threads -> [step : Nat, seq : Nat]]
    BY <1>3, <1>6, <2>2
  <2> QED
    BY <2>1, <2>3, <2>4
<1>8. VariablesOK'
  <2>1. step' \in Nat
    BY <1>3, <1>6
  <2> QED
    BY <1>1, <1>3, <1>4, <1>6, <1>7, <2>1, VariablesStay
<1>9. StepsOK'
  <2>a. \A u \in Threads \ {t} : /\ First(u)' = First(u) /\ (Carrying(u)' <=> Carrying(u))
                                 /\ held'[u].step = held[u].step
    BY <1>4, <1>7 DEF Carrying
  <2>1. \A u \in Threads : Carrying(u)' => held'[u].step \in 1..step'
    <3>1. \A u \in Threads : Carrying(u) => held[u].step \in 1..step
      BY <1>1 DEF StepsOK
    <3>2. step' = step + 1 /\ 1..step \subseteq 1..step' /\ step + 1 \in 1..step'
      BY <1>3, <1>6
    <3> QED
      BY <1>7, <2>a, <3>1, <3>2
  <2>2. \A u, v \in Threads : u # v /\ Carrying(u)' /\ Carrying(v)' =>
          held'[u].step # held'[v].step
    <3>1. \A u \in Threads \ {t} : Carrying(u)' => held'[u].step < step + 1
      BY <1>1, <1>6, <2>a DEF StepsOK
    <3>2. \A u, v \in Threads \ {t} : u # v /\ Carrying(u)' /\ Carrying(v)' =>
            held'[u].step # held'[v].step
      BY <1>1, <2>a DEF StepsOK
    <3>3. \A u \in Threads \ {t} : Carrying(u)' => held'[u].step # held'[t].step
      BY <1>6, <1>7, <2>a, <3>1
    <3> QED
      BY <3>2, <3>3
  <2>3. \A i \in 1..Len(events') : /\ events'[i].step \in 1..step'
                                   /\ \A u \in Threads : First(u)' \in {"number", "event"} =>
                                        /\ events'[i].step # held'[u].step
                                        /\ ~overlapped' => events'[i].step < held'[u].step
    <3> TAKE i \in 1..Len(events')
    <3>1. events'[i] = events[i] /\ events[i].step \in 1..step
      BY <1>1, <1>3 DEF StepsOK
    <3>2. \A u \in Threads \ {t} : First(u)' \in {"number", "event"} =>
                                        /\ events'[i].step # held'[u].step
                                        /\ ~overlapped' => events'[i].step < held'[u].step
      BY <1>1, <1>3, <2>a DEF StepsOK
    <3>3. events'[i].step \in 1..step' /\ events'[i].step # held'[t].step
          /\ events'[i].step < held'[t].step
      BY <1>3, <1>6, <1>7, <3>1, SMTT(30)
    <3> QED
      BY <3>2, <3>3
  <2>4. \A i \in 1..Len(blocks') : /\ blocks'[i].step \in 1..step'
                                   /\ \A u \in Threads : Carrying(u)' =>
                                        /\ blocks'[i].step # held'[u].step
                                        /\ ~overlapped' => blocks'[i].step < held'[u].step
    <3> TAKE i \in 1..Len(blocks')
    <3>1. blocks'[i] = blocks[i] /\ blocks[i].step \in 1..step
      BY <1>1, <1>3 DEF StepsOK
    <3>2. \A u \in Threads \ {t} : Carrying(u)' =>
                                        /\ blocks'[i].step # held'[u].step
                                        /\ ~overlapped' => blocks'[i].step < held'[u].step
      BY <1>1, <1>3, <2>a DEF StepsOK
    <3>3. blocks'[i].step \in 1..step' /\ blocks'[i].step # held'[t].step
          /\ blocks'[i].step < held'[t].step
      BY <1>3, <1>6, <1>7, <3>1
    <3> QED
      BY <3>2, <3>3
  <2>5. \A i, j \in 1..Len(events') : i < j => /\ events'[i].step # events'[j].step
                                               /\ ~overlapped' => events'[i].step < events'[j].step
    BY <1>1, <1>3 DEF StepsOK
  <2>6. \A i, j \in 1..Len(blocks') : i < j => /\ blocks'[i].step # blocks'[j].step
                                               /\ ~overlapped' => blocks'[i].step < blocks'[j].step
    BY <1>1, <1>3 DEF StepsOK
  <2> QED
    BY <2>1, <2>2, <2>3, <2>4, <2>5, <2>6 DEF StepsOK
<1>10. SeqsOK'
  <2>1. \A u \in Threads : /\ First(u)' = "event" => First(u)' = First(u)
                           /\ held'[u].seq = held[u].seq
    BY <1>4, <1>5, <1>7
  <2>2. /\ Count("number")' + One(t, "number") = Count("number") + One(t, "number")'
        /\ Count("event")' + One(t, "event") = Count("event") + One(t, "event")'
    BY <1>4, CountMoves
  <2>3. /\ One(t, "number") = 0 /\ One(t, "event") = 0
        /\ Count("number") \in 0..3 /\ Count("event") \in 0..3
    <3>1. First(t) # "number" /\ First(t) # "event"
      BY <1>5
    <3> QED
      BY <3>1, CountTypes
  <2>4. /\ One(t, "number")' \in {0, 1} /\ One(t, "event")' = 0
        /\ Count("number")' \in 0..3 /\ Count("event")' \in 0..3
    <3>1. First(t)' # "event"
      BY <1>5
    <3> QED
      BY <3>1, CountTypesNext
  <2>5. Count("number")' <= Count("number") + 1 /\ Count("event")' = Count("event")
    BY <2>2, <2>3, <2>4
  <2>6. Len(events) \in Nat
    BY <1>6
  <2>a. seq + Count("number") <= step /\ Len(events) + Count("event") <= seq
    BY <1>1 DEF SeqsOK
  <2>b. seq' + Count("number")' <= step'
    BY <1>3, <1>6, <2>3, <2>4, <2>5, <2>a, SMTT(30)
  <2>c. Len(events') + Count("event")' <= seq'
    BY <1>3, <1>6, <2>3, <2>4, <2>5, <2>6, <2>a
  <2>7. seq' + Count("number")' <= step' /\ Len(events') + Count("event")' <= seq'
    BY <2>b, <2>c
  <2>8. \A u \in Threads : First(u)' = "event" => /\ held'[u].seq \in 1..seq'
                                                  /\ ~overlapped' => held'[u].seq = seq'
    BY <1>1, <1>3, <2>1 DEF SeqsOK
  <2>9. \A u, v \in Threads : u # v /\ First(u)' = "event" /\ First(v)' = "event" =>
                               held'[u].seq # held'[v].seq
    BY <1>1, <2>1 DEF SeqsOK
  <2>10. \A i \in 1..Len(events') : /\ events'[i].seq \in 1..seq'
                                    /\ \A u \in Threads : First(u)' = "event" =>
                                         events'[i].seq # held'[u].seq
    BY <1>1, <1>3, <2>1 DEF SeqsOK
  <2>11. \A i, j \in 1..Len(events') : i < j => events'[i].seq # events'[j].seq
    BY <1>1, <1>3 DEF SeqsOK
  <2>12. ~overlapped' /\ failures' = 0 => /\ seq' = Len(events') + Count("event")'
                                          /\ \A i \in 1..Len(events') : events'[i].seq = i
    BY <1>1, <1>3, <2>5 DEF SeqsOK
  <2> QED
    BY <2>7, <2>8, <2>9, <2>10, <2>11, <2>12 DEF SeqsOK
<1>11. RecordsOK' /\ OrderOK' /\ StartOK' /\ EndOK' /\ KeptOK'
  <2>1. footer' => closed
    BY <1>1, <1>3 DEF EndOK
  <2>2. initialized' = (initialized \/ do = "create")
    BY <1>2, <1>3, <1>6
  <2>3. do \notin {"event", "block", "manifest", "init", "ended"}
    BY <1>2
  <2> QED
    BY <1>2, <1>3, <2>1, <2>2, <2>3, Steady
<1> QED
  BY <1>8, <1>9, <1>10, <1>11 DEF Inv

(* The next number of an event. *)
LEMMA NumberInv == ASSUME Inv, NEW t \in Threads, Number(t) PROVE Inv'
<1>1. /\ VariablesOK /\ StepsOK /\ SeqsOK /\ OrderOK /\ StartOK /\ EndOK
  BY DEF Inv
<1>2. /\ At(t, "number") /\ Advance(t) /\ seq' = seq + 1
      /\ held' = [held EXCEPT ![t].seq = seq + 1]
      /\ UNCHANGED <<mode, closed, transport, counted, status, queue, records, failures, early,
                     overlapped, initialized, footer, step, events, blocks, manifest>>
  BY DEF Number, EventSeq, Undisturbed, history, files
<1>3. /\ \A u \in Threads \ {t} : Ahead(u)' = Ahead(u) /\ First(u)' = First(u)
      /\ First(t)' = "event"
      /\ \A u \in Threads : Shaped(program'[u])
      /\ DOMAIN program' = Threads
  BY <1>1, <1>2, Moved
<1>4. First(t) = "number"
  BY <1>1, <1>2, AtStep
<1>5. /\ step \in Nat /\ seq \in Nat /\ events \in Seq(EventType) /\ blocks \in Seq(BlockType)
      /\ held \in [Threads -> [step : Nat, seq : Nat]] /\ failures \in 0..MaxFailures
      /\ overlapped \in BOOLEAN /\ footer \in BOOLEAN /\ initialized \in BOOLEAN
  BY <1>1 DEF VariablesOK
<1>6. /\ held' \in [Threads -> [step : Nat, seq : Nat]]
      /\ held'[t].seq = seq + 1 /\ held'[t].step = held[t].step
      /\ \A u \in Threads \ {t} : held'[u] = held[u]
  <2>1. held[t] \in [step : Nat, seq : Nat] /\ seq + 1 \in Nat
    BY <1>2, <1>5
  <2>2. [held[t] EXCEPT !.seq = seq + 1] \in [step : Nat, seq : Nat]
    BY <2>1
  <2>3. held'[t] = [held[t] EXCEPT !.seq = seq + 1] /\ DOMAIN held' = Threads
        /\ \A u \in Threads \ {t} : held'[u] = held[u]
    BY <1>2, <1>5
  <2>4. held' \in [Threads -> [step : Nat, seq : Nat]]
    BY <1>2, <1>5, <2>2
  <2> QED
    BY <2>1, <2>3, <2>4
<1>7. VariablesOK'
  <2>1. seq' \in Nat
    BY <1>2, <1>5
  <2> QED
    BY <1>1, <1>2, <1>3, <1>5, <1>6, <2>1, VariablesStay
<1>8. StepsOK'
  <2>1. \A u \in Threads :
             /\ held'[u].step = held[u].step
             /\ First(u)' \in {"number", "event"} => First(u) \in {"number", "event"}
             /\ Carrying(u)' => Carrying(u)
    BY <1>3, <1>4, <1>6 DEF Carrying
  <2> QED
    BY <1>1, <1>2, <2>1, StepsStay
<1>9. SeqsOK'
  <2>1. \A u \in Threads \ {t} : First(u)' = First(u) /\ held'[u].seq = held[u].seq
    BY <1>3, <1>6
  <2>2. /\ Count("number")' + One(t, "number") = Count("number") + One(t, "number")'
        /\ Count("event")' + One(t, "event") = Count("event") + One(t, "event")'
    BY <1>3, CountMoves
  <2>3. /\ One(t, "number") = 1 /\ One(t, "event") = 0
        /\ Count("number") \in 0..3 /\ Count("event") \in 0..3
    <3>1. First(t) = "number" /\ First(t) # "event"
      BY <1>4
    <3> QED
      BY <3>1, CountTypes
  <2>4. /\ One(t, "number")' = 0 /\ One(t, "event")' = 1
        /\ Count("number")' \in 0..3 /\ Count("event")' \in 0..3
    <3>1. First(t)' = "event" /\ First(t)' # "number"
      BY <1>3
    <3> QED
      BY <3>1, CountTypesNext
  <2>5. Count("number")' = Count("number") - 1 /\ Count("event")' = Count("event") + 1
    BY <2>2, <2>3, <2>4
  <2>6. Len(events) \in Nat
    BY <1>5
  <2>a. seq + Count("number") <= step /\ Len(events) + Count("event") <= seq
    BY <1>1 DEF SeqsOK
  <2>b. seq' + Count("number")' <= step'
    BY <1>2, <1>5, <2>3, <2>5, <2>a
  <2>c. Len(events') + Count("event")' <= seq'
    BY <1>2, <1>5, <2>3, <2>5, <2>6, <2>a, SMTT(30)
  <2>7. seq' + Count("number")' <= step' /\ Len(events') + Count("event")' <= seq'
    BY <2>b, <2>c
  <2>8. \A u \in Threads : First(u)' = "event" => /\ held'[u].seq \in 1..seq'
                                                  /\ ~overlapped' => held'[u].seq = seq'
    <3>1. seq + 1 \in 1..(seq + 1) /\ 1..seq \subseteq 1..(seq + 1)
      BY <1>5
    <3>2. ASSUME NEW u \in Threads \ {t}, First(u)' = "event", ~overlapped PROVE FALSE
      <4>1. Writing(t)
        BY <1>2, Busies
      <4>2. First(u) \in {"none", "init", "join", "ended"}
        BY <1>1, <3>2, <4>1, NobodyElse
      <4> QED
        BY <2>1, <3>2, <4>2
    <3>3. \A u \in Threads \ {t} : First(u)' = "event" => held'[u].seq \in 1..seq
      BY <1>1, <2>1 DEF SeqsOK
    <3> QED
      BY <1>2, <1>6, <3>1, <3>2, <3>3
  <2>9. \A u, v \in Threads : u # v /\ First(u)' = "event" /\ First(v)' = "event" =>
                               held'[u].seq # held'[v].seq
    <3>1. \A u \in Threads \ {t} : First(u)' = "event" => held'[u].seq < seq + 1
      BY <1>1, <1>5, <2>1 DEF SeqsOK
    <3>2. \A u, v \in Threads \ {t} : u # v /\ First(u)' = "event" /\ First(v)' = "event" =>
                               held'[u].seq # held'[v].seq
      BY <1>1, <2>1 DEF SeqsOK
    <3>3. \A u \in Threads \ {t} : First(u)' = "event" => held'[u].seq # held'[t].seq
      BY <1>5, <1>6, <3>1
    <3> QED
      BY <3>2, <3>3
  <2>10. \A i \in 1..Len(events') : /\ events'[i].seq \in 1..seq'
                                    /\ \A u \in Threads : First(u)' = "event" =>
                                         events'[i].seq # held'[u].seq
    <3> TAKE i \in 1..Len(events')
    <3>1. events'[i] = events[i] /\ events[i].seq \in 1..seq
      BY <1>1, <1>2 DEF SeqsOK
    <3>2. events'[i].seq \in 1..seq' /\ events'[i].seq # held'[t].seq
      BY <1>2, <1>5, <1>6, <3>1
    <3>3. \A u \in Threads \ {t} : First(u)' = "event" => events'[i].seq # held'[u].seq
      BY <1>1, <1>2, <2>1 DEF SeqsOK
    <3> QED
      BY <3>2, <3>3
  <2>11. \A i, j \in 1..Len(events') : i < j => events'[i].seq # events'[j].seq
    BY <1>1, <1>2 DEF SeqsOK
  <2>12. ~overlapped' /\ failures' = 0 => /\ seq' = Len(events') + Count("event")'
                                          /\ \A i \in 1..Len(events') : events'[i].seq = i
    <3>1. ASSUME ~overlapped', failures' = 0
          PROVE  seq = Len(events) + Count("event") /\ \A i \in 1..Len(events) : events[i].seq = i
      BY <1>1, <1>2, <3>1 DEF SeqsOK
    <3> QED
      BY <1>2, <1>5, <2>3, <2>5, <2>6, <3>1
  <2> QED
    BY <2>7, <2>8, <2>9, <2>10, <2>11, <2>12 DEF SeqsOK
<1>10. RecordsOK' /\ OrderOK' /\ StartOK' /\ EndOK' /\ KeptOK'
  <2>1. footer' => closed
    BY <1>1, <1>2 DEF EndOK
  <2>2. initialized' = (initialized \/ "number" = "create")
    BY <1>2, <1>5
  <2> QED
    BY <1>2, <2>1, <2>2, Steady
<1> QED
  BY <1>7, <1>8, <1>9, <1>10 DEF Inv

(* A step that numbers nothing and writes nothing. *)
LEMMA Unwritten ==
    ASSUME Inv, NEW t \in Threads, Alone(t), Brings(t), Shaped(program'[t]), DOMAIN program' = Threads,
           UNCHANGED <<mode, closed, transport, counted, status, queue, records, early,
                       initialized, footer, step, seq, events, blocks, manifest, held>>,
           failures' \in 0..MaxFailures, failures' = 0 => failures = 0 /\ Keeps(t),
           First(t) = "event" => failures' > 0, First(t)' \notin {"number", "event", "block"},
           ~initialized => First(t)' \in {"none", "init", "create", "join", "ended"},
           \A do \in {"event", "block"} : <<do, SessionStartRecord>> \in Ahead(t)' =>
             <<do, SessionStartRecord>> \in Ahead(t) \/ ~initialized,
           overlapped' \in BOOLEAN, ~overlapped' => ~overlapped,
           ~overlapped' => \A u, v \in Threads : u # v => ~(Writing(u)' /\ Writing(v)')
    PROVE  Inv'
<1>1. /\ VariablesOK /\ StepsOK /\ SeqsOK /\ RecordsOK /\ OrderOK /\ StartOK /\ EndOK /\ KeptOK
  BY DEF Inv
<1>2. \A u \in Threads \ {t} : Ahead(u)' = Ahead(u) /\ First(u)' = First(u)
  BY OthersStay
<1>3. VariablesOK'
  <2>1. /\ step \in Nat /\ seq \in Nat /\ events \in Seq(EventType) /\ blocks \in Seq(BlockType)
        /\ held \in [Threads -> [step : Nat, seq : Nat]]
        /\ initialized \in BOOLEAN /\ footer \in BOOLEAN
    BY <1>1 DEF VariablesOK
  <2>2. \A u \in Threads : Shaped(program'[u])
    BY <1>1 DEF Alone, VariablesOK
  <2> QED
    BY <1>1, <2>1, <2>2, VariablesStay
<1>4. StepsOK'
  <2>1. \A u \in Threads :
             /\ held'[u].step = held[u].step
             /\ First(u)' \in {"number", "event"} => First(u) \in {"number", "event"}
             /\ Carrying(u)' => Carrying(u)
    BY <1>2 DEF Carrying
  <2> QED
    BY <1>1, <2>1, StepsStay
<1>5. SeqsOK'
  <2>1. \A u \in Threads : held'[u].seq = held[u].seq
    OBVIOUS
  <2> QED
    BY <1>1, <1>2, <2>1, SeqsStay
<1>6. RecordsOK'
  BY <1>1, RecordsStay
<1>7. OrderOK'
  BY <1>1, OrderStay
<1>8. StartOK'
  BY <1>1, StartStay
<1>9. EndOK'
  <2>1. footer' => closed
    BY <1>1 DEF EndOK
  <2> QED
    BY <1>1, <2>1, EndStay
<1>10. KeptOK'
  BY <1>1, KeptStay
<1> QED
  BY <1>3, <1>4, <1>5, <1>6, <1>7, <1>8, <1>9, <1>10 DEF Inv

(* What is ahead once the opening is: it, and what was ahead before.       *)
LEMMA OpenedAhead ==
    ASSUME NEW p, Shaped(p), p # <<>>, p[1][1] = "init"
    PROVE  LET q == Opening \o Tail(p)
           IN  /\ Shaped(q) /\ FirstOf(q) = "create" /\ AheadOf(p) \subseteq AheadOf(q)
               /\ \A x \in AheadOf(q) : x \in AheadOf(p) \/ x[2] \in Plain
<1> DEFINE q == Opening \o Tail(p)
<1>1. /\ Shaped(q) /\ Len(q) = Len(p) + 5 /\ q # <<>>
      /\ \A i \in 1..6 : q[i] = Opening[i]
      /\ \A i \in 2..Len(p) : q[i + 5] = p[i]
  BY Opened
<1>2. Len(p) \in Nat
  BY Programs
<1> HIDE DEF q
<1>3. FirstOf(q) = "create"
  BY <1>1, OpeningList DEF FirstOf
<1>4. ASSUME NEW x \in AheadOf(p) PROVE x \in AheadOf(q)
  <2>1. PICK i \in 1..Len(p) : x = p[i] /\ p[i][1] # "init"
    BY <1>4 DEF AheadOf
  <2>2. i \in 2..Len(p) /\ i + 5 \in 1..Len(q)
    BY <1>1, <1>2, <2>1
  <2>3. q[i + 5] = x
    BY <1>1, <2>1, <2>2
  <2> QED
    BY <2>1, <2>2, <2>3 DEF AheadOf
<1>5. ASSUME NEW x \in AheadOf(q) PROVE x \in AheadOf(p) \/ x[2] \in Plain
  <2>1. PICK i \in 1..Len(q) : x = q[i] /\ q[i][1] # "init"
    BY <1>5 DEF AheadOf
  <2>2. CASE i \in 1..6
    <3>1. i = 1 \/ i = 2 \/ i = 3 \/ i = 4 \/ i = 5 \/ i = 6
      BY <2>2
    <3>2. \A j \in 1..6 : q[j][2] \in {Manifest, SessionStartRecord}
      BY <1>1, OpeningList
    <3> QED
      BY <2>1, <2>2, <3>2 DEF Plain
  <2>3. CASE i \notin 1..6
    <3>1. i - 5 \in 2..Len(p) /\ (i - 5) + 5 = i
      BY <1>1, <1>2, <2>1, <2>3
    <3>2. x = p[i - 5] /\ i - 5 \in 1..Len(p)
      BY <1>1, <1>2, <2>1, <3>1
    <3> QED
      BY <2>1, <3>2 DEF AheadOf
  <2> QED
    BY <2>2, <2>3
<1> QED
  BY <1>1, <1>3, <1>4, <1>5 DEF q

(* The check of the files, and what it brings. *)
LEMMA EnsureInitializedInv == ASSUME Inv, NEW t \in Threads, EnsureInitialized(t) PROVE Inv'
<1> DEFINE p == program[t]
           q == Opening \o Tail(p)
<1>1. /\ VariablesOK /\ OrderOK /\ StartOK
  BY DEF Inv
<1>2. /\ At(t, "init") /\ Goes(t, q)
      /\ UNCHANGED <<mode, closed, transport, counted, status, queue, records, failures, early,
                     overlapped, initialized, footer, step, seq, events, blocks, manifest, held>>
  BY DEF EnsureInitialized, Undisturbed, history, files, Opening
<1>3. Shaped(p) /\ DOMAIN program = Threads /\ failures \in 0..MaxFailures /\ overlapped \in BOOLEAN
      /\ initialized \in BOOLEAN
  BY <1>1 DEF VariablesOK
<1>4. PICK k \in 1..Len(p) : /\ p[k][1] = "init"
                             /\ \/ k = 1 /\ First(t) = "init" /\ ("init" = "init" => ~initialized)
                                \/ k = 2 /\ First(t) = "init" /\ initialized /\ "init" \in {"step", "manifest"}
  BY <1>1, <1>2, AtStep
<1>5. p[1][1] = "init" /\ ~initialized /\ First(t) = "init"
  BY <1>4
<1>6. p # <<>>
  BY <1>5 DEF First, FirstOf
<1>7. /\ Shaped(q) /\ FirstOf(q) = "create" /\ AheadOf(p) \subseteq AheadOf(q)
      /\ \A x \in AheadOf(q) : x \in AheadOf(p) \/ x[2] \in Plain
  BY <1>3, <1>5, <1>6, OpenedAhead
<1> HIDE DEF q
<1>8. program'[t] = q /\ DOMAIN program' = Threads /\ Alone(t)
  BY <1>2, <1>3 DEF Goes, Alone
<1>9. /\ Ahead(t)' = AheadOf(q) /\ Ahead(t) = AheadOf(p) /\ First(t)' = "create"
  BY <1>7, <1>8 DEF Ahead, First
<1>10. Brings(t) /\ Keeps(t)
  <2>1. Brings(t)
    BY <1>7, <1>9 DEF Brings
  <2>2. Keeps(t)
    BY <1>2, <1>7, <1>9 DEF Keeps
  <2> QED
    BY <2>1, <2>2
<1>11. Writing(t)' => Writing(t)
  BY <1>2, Busies
<1>12. ~overlapped' => \A u, v \in Threads : u # v => ~(Writing(u)' /\ Writing(v)')
  BY <1>1, <1>2, <1>3, <1>8, <1>11, StillAlone
<1>13. /\ Shaped(program'[t]) /\ First(t) # "event" /\ First(t)' \notin {"number", "event", "block"}
       /\ First(t)' \in {"none", "init", "create", "join", "ended"}
  BY <1>5, <1>7, <1>8, <1>9
<1> QED
  BY <1>2, <1>3, <1>5, <1>8, <1>10, <1>12, <1>13, Unwritten

(* A log that has ended is not started again. *)
LEMMA SkipStartInv == ASSUME Inv, NEW t \in Threads, SkipStart(t) PROVE Inv'
<1> DEFINE p == program[t]
           n == Len(p)
           q == SubSeq(p, 5, n)
<1>1. /\ VariablesOK /\ OrderOK /\ StartOK
  BY DEF Inv
<1>a. 1 + Len(RecordSessionStarted) = 5
  BY DEF RecordSessionStarted
<1>2. /\ At(t, "start") /\ Goes(t, q)
      /\ UNCHANGED <<mode, closed, transport, counted, status, queue, records, failures, early,
                     overlapped, initialized, footer, step, seq, events, blocks, manifest, held>>
  BY <1>a DEF SkipStart, Undisturbed, history, files
<1>3. Shaped(p) /\ DOMAIN program = Threads /\ failures \in 0..MaxFailures /\ overlapped \in BOOLEAN
      /\ initialized \in BOOLEAN
  BY <1>1 DEF VariablesOK
<1>4. p \in Seq(Dos \X Rec) /\ n \in Nat
  BY <1>3, Programs
<1>5. PICK k \in 1..n : /\ p[k][1] = "start"
                        /\ \/ k = 1 /\ First(t) = "start" /\ ("start" = "init" => ~initialized)
                           \/ k = 2 /\ First(t) = "init" /\ initialized /\ "start" \in {"step", "manifest"}
  BY <1>1, <1>2, AtStep
<1>6. p[1][1] = "start" /\ First(t) = "start" /\ 1 \in 1..n
  BY <1>5
<1>7. initialized
  BY <1>1, <1>2, FilesExist
<1> HIDE DEF n
<1>8. /\ 1 <= n /\ p[1][2] = SessionStartRecord
      /\ 2 <= n => p[2][1] = "number" /\ p[2][2] = SessionStartRecord
      /\ 3 <= n => p[3][1] = "event" /\ p[3][2] = SessionStartRecord
      /\ 4 <= n => p[4][1] = "block" /\ p[4][2] = SessionStartRecord
      /\ 5 <= n => p[5][1] \notin {"number", "event", "block"}
  <2>1. /\ \A i \in 1..n : Fits(p[i])
        /\ \A i \in 1..n : i < n => Follows(p[i], p[i + 1])
    BY <1>3 DEF Shaped, n
  <2>2. p[1][2] = SessionStartRecord
    BY <1>6, <2>1 DEF Fits
  <2>3. ASSUME 2 <= n PROVE p[2][1] = "number" /\ p[2][2] = SessionStartRecord
    <3>1. Follows(p[1], p[1 + 1]) /\ 1 + 1 = 2
      BY <1>4, <2>1, <2>3
    <3> QED
      BY <1>6, <2>2, <3>1 DEF Follows
  <2>4. ASSUME 3 <= n PROVE p[3][1] = "event" /\ p[3][2] = SessionStartRecord
    <3>1. Follows(p[2], p[2 + 1]) /\ 2 + 1 = 3 /\ 2 <= n
      BY <1>4, <2>1, <2>4
    <3> QED
      BY <2>3, <3>1 DEF Follows
  <2>5. ASSUME 4 <= n PROVE p[4][1] = "block" /\ p[4][2] = SessionStartRecord
    <3>1. Follows(p[3], p[3 + 1]) /\ 3 + 1 = 4 /\ 3 <= n
      BY <1>4, <2>1, <2>5
    <3> QED
      BY <2>4, <3>1 DEF Follows
  <2>6. ASSUME 5 <= n PROVE p[5][1] \notin {"number", "event", "block"}
    <3>1. Follows(p[4], p[4 + 1]) /\ 4 + 1 = 5 /\ 4 <= n
      BY <1>4, <2>1, <2>6
    <3> QED
      BY <2>5, <3>1 DEF Follows
  <2>7. 1 <= n
    BY <1>4, <1>6
  <2> QED
    BY <2>2, <2>3, <2>4, <2>5, <2>6, <2>7
<1>9. /\ Shaped(q) /\ Len(q) \in Nat /\ \A i \in 1..Len(q) : q[i] = p[i + 4] /\ i + 4 \in 1..n
      /\ \A i \in 5..n : i - 4 \in 1..Len(q) /\ q[i - 4] = p[i]
  <2>1. CASE n < 4
    <3>1. q = <<>>
      BY <1>4, <2>1
    <3>2. Len(<<>>) = 0
      OBVIOUS
    <3>3. Shaped(q) /\ Len(q) = 0
      BY <3>1, <3>2, Empty
    <3>4. \A i \in 1..0 : FALSE
      OBVIOUS
    <3>5. \A i \in 5..n : FALSE
      BY <1>4, <2>1
    <3> HIDE DEF q
    <3> QED
      BY <3>3, <3>4, <3>5
  <2>2. CASE 4 <= n
    <3>1. 5 \in 1..(Len(p) + 1)
      BY <1>4, <2>2 DEF n
    <3>2. /\ Shaped(SubSeq(p, 5, Len(p))) /\ Len(SubSeq(p, 5, Len(p))) = Len(p) + 1 - 5
          /\ \A i \in 1..Len(SubSeq(p, 5, Len(p))) : SubSeq(p, 5, Len(p))[i] = p[i + 5 - 1]
      BY <1>3, <3>1, Rest
    <3>3. Shaped(q) /\ Len(q) = n - 4 /\ \A i \in 1..Len(q) : q[i] = p[i + 5 - 1]
      BY <1>4, <2>2, <3>2 DEF n
    <3> HIDE DEF q
    <3>4. \A i \in 1..Len(q) : i + 5 - 1 = i + 4 /\ i + 4 \in 1..n
      BY <1>4, <2>2, <3>3
    <3>5. \A i \in 5..n : i - 4 \in 1..Len(q) /\ (i - 4) + 5 - 1 = i
      BY <1>4, <2>2, <3>3
    <3> QED
      BY <1>4, <2>2, <3>3, <3>4, <3>5
  <2> QED
    BY <1>4, <2>1, <2>2
<1> HIDE DEF q
<1>10. program'[t] = q /\ DOMAIN program' = Threads /\ Alone(t)
  BY <1>2, <1>3 DEF Goes, Alone
<1>11. Ahead(t)' = AheadOf(q) /\ Ahead(t) = AheadOf(p) /\ First(t)' = FirstOf(q)
  BY <1>10 DEF Ahead, First
<1>12. AheadOf(q) \subseteq AheadOf(p)
  <2> SUFFICES ASSUME NEW i \in 1..Len(q), q[i][1] # "init" PROVE q[i] \in AheadOf(p)
    BY DEF AheadOf
  <2>1. q[i] = p[i + 4] /\ i + 4 \in 1..n
    BY <1>9
  <2> QED
    BY <2>1 DEF AheadOf, n
<1>13. \A x \in AheadOf(p) : x \in AheadOf(q) \/ x[2] = SessionStartRecord
  <2> SUFFICES ASSUME NEW i \in 1..n, p[i][1] # "init"
               PROVE  p[i] \in AheadOf(q) \/ p[i][2] = SessionStartRecord
    BY DEF AheadOf, n
  <2>1. CASE i \in 5..n
    <3>1. i - 4 \in 1..Len(q) /\ q[i - 4] = p[i]
      BY <1>9, <2>1
    <3> QED
      BY <2>1, <3>1 DEF AheadOf
  <2>2. CASE i \notin 5..n
    <3>1. i = 1 \/ i = 2 \/ i = 3 \/ i = 4
      BY <1>4, <2>2
    <3> QED
      BY <1>4, <1>8, <3>1
  <2> QED
    BY <2>1, <2>2
<1>14. FirstOf(q) \notin {"number", "event", "block"}
  <2>1. CASE q = <<>>
    BY <2>1, Empty
  <2>2. CASE q # <<>>
    <3>1. FirstOf(q) = q[1][1] /\ 1 \in 1..Len(q)
      <4>1. q \in Seq(Dos \X Rec) /\ Len(q) \in Nat
        BY <1>9, Programs
      <4> QED
        BY <2>2, <4>1, EmptySeq DEF FirstOf
    <3>2. q[1] = p[5] /\ 5 <= n
      BY <1>4, <1>9, <3>1
    <3> QED
      BY <1>8, <3>1, <3>2
  <2> QED
    BY <2>1, <2>2
<1>15. Brings(t)
  BY <1>11, <1>12 DEF Brings
<1>16. Keeps(t)
  <2>1. <<"manifest", Manifest>>[2] # SessionStartRecord
    BY Records
  <2> QED
    BY <1>2, <1>11, <1>13, <2>1 DEF Keeps
<1>17. Writing(t)' => Writing(t)
  BY <1>2, Busies
<1>18. ~overlapped' => \A u, v \in Threads : u # v => ~(Writing(u)' /\ Writing(v)')
  BY <1>1, <1>2, <1>3, <1>10, <1>17, StillAlone
<1>19. \A do \in {"event", "block"} : <<do, SessionStartRecord>> \in Ahead(t)' =>
         <<do, SessionStartRecord>> \in Ahead(t)
  BY <1>11, <1>12
<1>20. Shaped(program'[t]) /\ First(t) # "event" /\ First(t)' \notin {"number", "event", "block"}
  BY <1>6, <1>9, <1>10, <1>11, <1>14
<1> QED
  BY <1>2, <1>3, <1>7, <1>10, <1>15, <1>16, <1>18, <1>19, <1>20, Unwritten

(* A write fails. *)
LEMMA FailInv == ASSUME Inv, NEW t \in Threads, Fail(t) PROVE Inv'
<1>1. /\ VariablesOK /\ OrderOK /\ StartOK
  BY DEF Inv
<1>2. PICK do \in {"create", "event", "block", "manifest"} : At(t, do)
  BY DEF Fail
<1>3. /\ failures' = failures + 1 /\ failures < MaxFailures
      /\ UNCHANGED <<mode, closed, transport, counted, status, queue, records, early,
                     overlapped, initialized, footer, step, seq, events, blocks, manifest, held>>
  BY DEF Fail, flags, numbers, files, history
<1>4. PICK q \in {<<>>, Program(FallbackRecord)} : Goes(t, q)
  BY DEF Fail, AfterFailure
<1>5. DOMAIN program = Threads /\ failures \in 0..MaxFailures /\ overlapped \in BOOLEAN
      /\ initialized \in BOOLEAN
  BY <1>1 DEF VariablesOK
<1>6. Shaped(q) /\ FirstOf(q) \in {"none", "init"} /\ \A x \in AheadOf(q) : x[2] = FallbackRecord
  <2>1. CASE q = <<>>
    BY <2>1, Empty
  <2>2. CASE q = Program(FallbackRecord)
    <3>1. FallbackRecord \in Rec \ {Stop} /\ FallbackRecord # SessionStartRecord
      BY Records DEF Rec
    <3>2. /\ Shaped(q) /\ q # <<>>
          /\ \A i \in 1..Len(q) : q[i] = <<Steps(FallbackRecord[1])[i], FallbackRecord>>
          /\ q[1] = <<"init", FallbackRecord>>
      BY <2>2, <3>1, ProgramOf
    <3>3. FirstOf(q) = "init"
      BY <3>2 DEF FirstOf
    <3>4. \A i \in 1..Len(q) : q[i][2] = FallbackRecord
      BY <3>2
    <3> QED
      BY <3>2, <3>3, <3>4 DEF AheadOf
  <2> QED
    BY <2>1, <2>2
<1>7. program'[t] = q /\ DOMAIN program' = Threads /\ Alone(t)
  BY <1>4, <1>5 DEF Goes, Alone
<1>8. Ahead(t)' = AheadOf(q) /\ First(t)' = FirstOf(q)
  BY <1>7 DEF Ahead, First
<1>9. Brings(t)
  BY <1>6, <1>8 DEF Brings, Plain
<1>10. Writing(t)' => Writing(t)
  BY <1>2, Busies
<1>11. ~overlapped' => \A u, v \in Threads : u # v => ~(Writing(u)' /\ Writing(v)')
  BY <1>1, <1>3, <1>5, <1>7, <1>10, StillAlone
<1>12. /\ failures' \in 0..MaxFailures /\ failures' > 0 /\ failures' # 0
  <2>1. MaxFailures \in Nat
    BY LogAssumption
  <2> QED
    BY <1>3, <1>5, <2>1
<1>13. \A d \in {"event", "block"} : <<d, SessionStartRecord>> \in Ahead(t)' =>
         <<d, SessionStartRecord>> \in Ahead(t) \/ ~initialized
  <2>1. FallbackRecord # SessionStartRecord
    BY Records
  <2> QED
    BY <1>6, <1>8, <2>1
<1>14. /\ Shaped(program'[t]) /\ First(t)' \notin {"number", "event", "block"}
       /\ First(t)' \in {"none", "init", "create", "join", "ended"}
  BY <1>6, <1>7, <1>8
<1> QED
  BY <1>3, <1>5, <1>7, <1>9, <1>11, <1>12, <1>13, <1>14, Unwritten

(* The manifest is written. *)
LEMMA WriteManifestInv == ASSUME Inv, NEW t \in Threads, WriteManifest(t) PROVE Inv'
<1>1. /\ VariablesOK /\ StepsOK /\ SeqsOK /\ RecordsOK /\ OrderOK /\ StartOK /\ EndOK /\ KeptOK
  BY DEF Inv
<1>2. /\ At(t, "manifest") /\ Advance(t) /\ manifest' = StatusNow
      /\ UNCHANGED <<mode, closed, transport, counted, status, queue, records, failures, early,
                     overlapped, initialized, footer, step, seq, events, blocks, held>>
  BY DEF WriteManifest, Undisturbed, history
<1>3. /\ \A u \in Threads \ {t} : Ahead(u)' = Ahead(u) /\ First(u)' = First(u)
      /\ Ahead(t)' \subseteq Ahead(t) /\ Ahead(t) \subseteq Ahead(t)' \cup {Task(t)}
      /\ First(t)' \in Behind("manifest")
      /\ \A u \in Threads : Shaped(program'[u])
      /\ DOMAIN program' = Threads
  BY <1>1, <1>2, Moved
<1>4. First(t)' \in {"none", "start"} /\ First(t) \in {"manifest", "init"}
  <2>1. First(t) = "manifest" \/ First(t) = "init"
    BY <1>1, <1>2, AtStep
  <2> QED
    BY <1>3, <2>1 DEF Behind
<1>5. Alone(t)
  BY <1>1, <1>2, Advanced DEF Alone
<1>6. /\ step \in Nat /\ seq \in Nat /\ events \in Seq(EventType) /\ blocks \in Seq(BlockType)
      /\ held \in [Threads -> [step : Nat, seq : Nat]] /\ failures \in 0..MaxFailures
      /\ overlapped \in BOOLEAN /\ initialized \in BOOLEAN /\ footer \in BOOLEAN
  BY <1>1 DEF VariablesOK
<1>7. Task(t)[1] = "manifest"
  BY <1>2 DEF At
<1>8. Brings(t)
  BY <1>3 DEF Brings
<1>9. Keeps(t)
  <2>1. StatusNow' = StatusNow
    BY <1>2 DEF StatusNow
  <2> QED
    BY <1>2, <1>3, <1>7, <2>1 DEF Keeps
<1>10. VariablesOK'
  BY <1>1, <1>2, <1>3, <1>6, VariablesStay
<1>11. StepsOK'
  <2>1. \A u \in Threads :
             /\ held'[u].step = held[u].step
             /\ First(u)' \in {"number", "event"} => First(u) \in {"number", "event"}
             /\ Carrying(u)' => Carrying(u)
    BY <1>2, <1>3, <1>4 DEF Carrying
  <2> QED
    BY <1>1, <1>2, <2>1, StepsStay
<1>12. SeqsOK'
  <2>1. \A u \in Threads : held'[u].seq = held[u].seq
    BY <1>2
  <2>2. First(t)' \notin {"number", "event"} /\ First(t) # "event"
    BY <1>4
  <2> QED
    BY <1>1, <1>2, <1>3, <2>1, <2>2, SeqsStay
<1>13. RecordsOK'
  BY <1>1, <1>2, <1>5, <1>8, RecordsStay
<1>14. OrderOK'
  <2>1. Writing(t)
    BY <1>2, Busies
  <2>2. ~overlapped' => \A u, v \in Threads : u # v => ~(Writing(u)' /\ Writing(v)')
    BY <1>1, <1>2, <1>5, <1>6, <2>1, StillAlone
  <2> QED
    BY <1>1, <1>2, <1>5, <1>8, <2>2, OrderStay
<1>15. StartOK'
  <2>1. initialized
    BY <1>1, <1>2, FilesExist
  <2> QED
    BY <1>1, <1>2, <1>3, <1>5, <2>1, StartStay
<1>16. EndOK'
  <2>1. footer' => closed
    BY <1>1, <1>2 DEF EndOK
  <2> QED
    BY <1>1, <1>2, <1>5, <1>8, <2>1, EndStay
<1>17. KeptOK'
  BY <1>1, <1>2, <1>5, <1>9, KeptStay
<1> QED
  BY <1>10, <1>11, <1>12, <1>13, <1>14, <1>15, <1>16, <1>17 DEF Inv

(* When nobody else works, a thread may begin to. *)
LEMMA MayBegin ==
    ASSUME VariablesOK, NEW t \in Threads, Alone(t), UNCHANGED initialized,
           \A u \in Threads \ {t} : ~Writing(u)
    PROVE  /\ \A u \in Threads \ {t} : ~Writing(u)'
           /\ \A u, v \in Threads : u # v => ~(Writing(u)' /\ Writing(v)')
<1>1. ASSUME NEW u \in Threads \ {t}, Writing(u)' PROVE FALSE
  <2>1. program'[u] = program[u] /\ Shaped(program[u]) /\ initialized \in BOOLEAN
    BY DEF Alone, VariablesOK
  <2>2. program[u] \in Seq(Dos \X Rec)
    BY <2>1, Programs
  <2>3. Writing(u)
    BY <1>1, <2>1, <2>2, StillResting
  <2> QED
    BY <2>3
<1> QED
  BY <1>1

(* A check of the files by a thread that is idle. *)
LEMMA EnsureSessionDirInv == ASSUME Inv, NEW t \in Threads, EnsureSessionDir(t) PROVE Inv'
<1> DEFINE q == <<<<"init", Manifest>>>>
<1>1. /\ VariablesOK /\ OrderOK /\ StartOK
  BY DEF Inv
<1>2. /\ Idle(t) /\ ~initialized /\ Goes(t, q) /\ Meets(t)
      /\ UNCHANGED <<mode, closed, transport, counted, status, queue, records, failures, early,
                     initialized, footer, step, seq, events, blocks, manifest, held>>
  BY DEF EnsureSessionDir, flags, numbers, files
<1>3. DOMAIN program = Threads /\ failures \in 0..MaxFailures /\ overlapped \in BOOLEAN
  BY <1>1 DEF VariablesOK
<1>4. /\ overlapped' \in BOOLEAN
      /\ ~overlapped' => ~overlapped /\ \A u \in Threads \ {t} : ~Writing(u)
  BY <1>2, <1>3 DEF Meets
<1>5. Ahead(t) = {} /\ First(t) \in {"none", "init"}
  BY <1>1, <1>2, Nothing
<1>6. Len(q) = 1 /\ q[1] = <<"init", Manifest>> /\ q \in Seq(Dos \X Rec)
  <2>1. <<"init", Manifest>> \in Dos \X Rec
    BY DEF Dos, Rec
  <2> QED
    BY <2>1
<1>7. Shaped(q)
  <2>1. Fits(<<"init", Manifest>>)
    BY Records DEF Fits, Dos, Rec
  <2> HIDE DEF q
  <2> QED
    BY <1>6, <2>1, Records DEF Shaped
<1>8. program'[t] = q /\ DOMAIN program' = Threads /\ Alone(t)
  BY <1>2, <1>3 DEF Goes, Alone
<1>9. AheadOf(q) = {} /\ FirstOf(q) = "init"
  BY <1>6 DEF AheadOf, FirstOf
<1>10. Ahead(t)' = {} /\ First(t)' = "init" /\ Shaped(program'[t])
  BY <1>7, <1>8, <1>9 DEF Ahead, First
<1>11. Brings(t) /\ Keeps(t)
  BY <1>2, <1>5, <1>10 DEF Brings, Keeps
<1>12. ~overlapped' => \A u, v \in Threads : u # v => ~(Writing(u)' /\ Writing(v)')
  BY <1>1, <1>2, <1>4, <1>8, MayBegin
<1>13. First(t) # "event" /\ First(t)' \notin {"number", "event", "block"}
       /\ First(t)' \in {"none", "init", "create", "join", "ended"}
  BY <1>5, <1>10
<1> QED
  BY <1>2, <1>3, <1>4, <1>8, <1>10, <1>11, <1>12, <1>13, Unwritten

-----------------------------------------------------------------------------
(* Writing a record                                                        *)

(* A sequence and the same with one more. *)
LEMMA OneWritten ==
    ASSUME NEW S, NEW s \in Seq(S), NEW e \in S
    PROVE  /\ Append(s, e) \in Seq(S) /\ Len(s) \in Nat /\ Len(Append(s, e)) = Len(s) + 1
           /\ \A i \in 1..Len(s) : Append(s, e)[i] = s[i]
           /\ Append(s, e)[Len(s) + 1] = e
           /\ \A i \in 1..(Len(s) + 1) : i \in 1..Len(s) \/ i = Len(s) + 1
<1>1. Append(s, e) \in Seq(S) /\ Len(s) \in Nat /\ Len(Append(s, e)) = Len(s) + 1
  OBVIOUS
<1>2. (\A i \in 1..Len(s) : Append(s, e)[i] = s[i]) /\ Append(s, e)[Len(s) + 1] = e
  OBVIOUS
<1>3. \A i \in 1..(Len(s) + 1) : i \in 1..Len(s) \/ i = Len(s) + 1
  BY <1>1
<1> QED
  BY <1>1, <1>2, <1>3

(* A thread that writes has its step done once. *)
LEMMA Once ==
    ASSUME VariablesOK, NEW t \in Threads, NEW do \in {"event", "block"}, At(t, do), Advance(t)
    PROVE  /\ Task(t) = <<do, Task(t)[2]>> /\ Task(t) \in Ahead(t) /\ Task(t)[2] \in Rec
           /\ Task(t)[2] # Stop /\ Alone(t) /\ First(t) = do
           /\ \A u \in Threads \ {t} : Ahead(u)' = Ahead(u) /\ First(u)' = First(u)
           /\ Ahead(t)' \subseteq Ahead(t) /\ Ahead(t) \subseteq Ahead(t)' \cup {Task(t)}
           /\ \A x \in Ahead(t)' : x[1] = do /\ x[2][2] > 0 => Task(t)[2][2] = 0
           /\ <<do, SessionStartRecord>> \notin Ahead(t)'
           /\ First(t)' \in Behind(do)
           /\ DOMAIN program' = Threads /\ \A u \in Threads : Shaped(program'[u])
<1>1. /\ Fits(Task(t)) /\ Task(t)[1] = do /\ Task(t) \in Ahead(t)
      /\ \A u \in Threads \ {t} : program'[u] = program[u]
  BY Advanced
<1>2. /\ \A u \in Threads \ {t} : Ahead(u)' = Ahead(u) /\ First(u)' = First(u)
      /\ Ahead(t)' \subseteq Ahead(t) /\ Ahead(t) \subseteq Ahead(t)' \cup {Task(t)}
      /\ Task(t)[2] # Manifest => Task(t) \notin Ahead(t)'
      /\ First(t)' \in Behind(do)
      /\ \A u \in Threads : Shaped(program'[u])
      /\ DOMAIN program' = Threads
  BY Moved
<1>3. Task(t) = <<do, Task(t)[2]>> /\ Task(t)[2] \in Rec /\ Task(t)[2] # Stop
  BY <1>1 DEF Fits
<1>4. First(t) = do
  BY AtStep
<1>5. Manifest # SessionStartRecord /\ Manifest[2] = 0
  BY Records
<1>6. ASSUME NEW x \in Ahead(t)', x[1] = do, x[2][2] > 0 PROVE Task(t)[2][2] = 0
  <2>1. x \in Ahead(t) /\ x = <<x[1], x[2]>> /\ x[2] \in Rec
    BY <1>2, AheadFits
  <2>2. x[2] \in Calls
    BY <1>6, <2>1, RecordNumbers
  <2>3. CASE Task(t)[2] \in Calls
    <3>1. Task(t)[2] = x[2]
      BY <1>1, <2>1, <2>2, <2>3, AheadFits
    <3>2. Task(t) = x
      BY <1>3, <1>6, <2>1, <3>1
    <3>3. Task(t)[2] = Manifest
      BY <1>2, <3>2
    <3> QED
      BY <1>5, <3>3
  <2>4. CASE Task(t)[2] \notin Calls
    BY <1>3, <2>4, RecordNumbers
  <2> QED
    BY <2>3, <2>4
<1>7. ASSUME <<do, SessionStartRecord>> \in Ahead(t)' PROVE FALSE
  <2>1. <<do, SessionStartRecord>> \in Ahead(t) /\ <<do, SessionStartRecord>>[2] = SessionStartRecord
    BY <1>2, <1>7
  <2>2. Task(t)[2] = SessionStartRecord
    BY <2>1, StartFirst
  <2>3. Task(t) = <<do, SessionStartRecord>>
    BY <1>3, <2>2
  <2> QED
    BY <1>2, <1>5, <1>7, <2>2, <2>3
<1> QED
  BY <1>1, <1>2, <1>3, <1>4, <1>6, <1>7 DEF Alone

(* A record is written to the events. *)
LEMMA EventWritten ==
    ASSUME Inv, NEW t \in Threads, At(t, "event"), Advance(t), NEW new \in EventType, new.rec = Task(t)[2],
           events' = Append(events, new),
           UNCHANGED <<queue, blocks, manifest, early, closed, records, counted, status,
                       overlapped, failures, initialized, footer>>
    PROVE  RecordsOK' /\ OrderOK' /\ StartOK' /\ EndOK' /\ KeptOK'
<1> DEFINE n == Len(events)
           r == Task(t)[2]
<1>1. /\ VariablesOK /\ RecordsOK /\ OrderOK /\ StartOK /\ EndOK /\ KeptOK
  BY DEF Inv
<1>2. /\ Task(t) = <<"event", r>> /\ Task(t) \in Ahead(t) /\ r \in Rec /\ r # Stop /\ Alone(t)
      /\ \A u \in Threads \ {t} : Ahead(u)' = Ahead(u) /\ First(u)' = First(u)
      /\ Ahead(t)' \subseteq Ahead(t) /\ Ahead(t) \subseteq Ahead(t)' \cup {Task(t)}
      /\ \A x \in Ahead(t)' : x[1] = "event" /\ x[2][2] > 0 => r[2] = 0
      /\ <<"event", SessionStartRecord>> \notin Ahead(t)'
  BY <1>1, Once
<1>3. /\ events' \in Seq(EventType) /\ n \in Nat /\ Len(events') = n + 1
      /\ \A i \in 1..n : events'[i] = events[i]
      /\ events'[n + 1].rec = r
      /\ \A i \in 1..(n + 1) : i \in 1..n \/ i = n + 1
  <2>1. events \in Seq(EventType)
    BY <1>1 DEF VariablesOK
  <2>2. /\ Append(events, new) \in Seq(EventType) /\ n \in Nat /\ Len(Append(events, new)) = n + 1
        /\ \A i \in 1..n : Append(events, new)[i] = events[i]
        /\ Append(events, new)[n + 1] = new
        /\ \A i \in 1..(n + 1) : i \in 1..n \/ i = n + 1
    BY <2>1, OneWritten
  <2> QED
    BY <2>2
<1>4. \A u \in Threads : Ahead(u)' \subseteq Ahead(u)
  BY <1>2
<1>5. r[2] \in Nat /\ (r \in Calls <=> r[2] > 0)
  BY <1>2, RecordNumbers
<1>6. \A i \in 1..n : i < n + 1 /\ i # n + 1
  BY <1>3
<1> HIDE DEF n, r
<1>7. Elsewhere(events, "event")'
  <2> DEFINE Q(i) ==
        /\ events'[i].rec[2] <= records
        /\ events'[i].rec[2] > 0 =>
             /\ \A j \in 1..Len(queue) : queue[j][2] # events'[i].rec[2]
             /\ \A u \in Threads : \A x \in Ahead(u)' : x[1] = "event" => x[2][2] # events'[i].rec[2]
             /\ \A j \in 1..(n + 1) : events'[j].rec[2] = events'[i].rec[2] => i = j
  <2>1. Elsewhere(events, "event")
    BY <1>1 DEF RecordsOK
  <2>2. /\ r[2] <= records
        /\ r[2] > 0 => /\ \A i \in 1..Len(queue) : queue[i][2] # r[2]
                       /\ \A u \in Threads : u # t => \A y \in Ahead(u) : y[2][2] # r[2]
    <3>1. /\ Task(t)[2][2] <= records
          /\ Task(t)[2][2] > 0 => /\ \A i \in 1..Len(queue) : queue[i][2] # Task(t)[2][2]
                                  /\ \A u \in Threads : u # t => \A y \in Ahead(u) : y[2][2] # Task(t)[2][2]
      BY <1>1, <1>2 DEF RecordsOK
    <3> QED
      BY <3>1 DEF r
  <2>3. \A i \in 1..n : events[i].rec[2] > 0 => r[2] # events[i].rec[2]
    <3>1. <<"event", r>> \in Ahead(t) /\ <<"event", r>>[1] = "event" /\ <<"event", r>>[2][2] = r[2]
      BY <1>2
    <3> QED
      BY <2>1, <3>1 DEF Elsewhere, n
  <2>4. ASSUME NEW i \in 1..n PROVE Q(i)
    <3>1. /\ events'[i] = events[i] /\ events[i].rec[2] <= records
          /\ events[i].rec[2] > 0 =>
               /\ \A j \in 1..Len(queue) : queue[j][2] # events[i].rec[2]
               /\ \A u \in Threads : \A x \in Ahead(u) : x[1] = "event" => x[2][2] # events[i].rec[2]
               /\ \A j \in 1..n : events[j].rec[2] = events[i].rec[2] => i = j
      BY <1>3, <2>1 DEF Elsewhere, n
    <3>2. events[i].rec[2] > 0 => \A j \in 1..(n + 1) : events'[j].rec[2] = events'[i].rec[2] => i = j
      BY <1>3, <2>3, <3>1
    <3> QED
      BY <1>4, <3>1, <3>2
  <2>5. Q(n + 1)
    <3>1. ASSUME r[2] > 0, NEW u \in Threads, NEW x \in Ahead(u)', x[1] = "event" PROVE x[2][2] # r[2]
      <4>1. CASE u = t
        BY <1>2, <1>5, <3>1, <4>1
      <4>2. CASE u # t
        BY <1>2, <2>2, <3>1, <4>2
      <4> QED
        BY <4>1, <4>2
    <3>2. r[2] > 0 => \A j \in 1..(n + 1) : events'[j].rec[2] = r[2] => j = n + 1
      BY <1>3, <2>3
    <3> QED
      BY <1>3, <2>2, <3>1, <3>2
  <2>6. \A i \in 1..(n + 1) : Q(i)
    BY <1>3, <2>4, <2>5
  <2> QED
    BY <1>3, <2>6 DEF Elsewhere
<1>8. RecordsOK'
  <2>1. /\ \A i \in 1..Len(queue') : queue'[i][2] <= records'
        /\ \A i, j \in 1..Len(queue') : i < j /\ queue'[i][2] > 0 /\ queue'[j][2] > 0 =>
                                         queue'[i][2] < queue'[j][2]
    BY <1>1 DEF RecordsOK
  <2>2. \A u \in Threads : \A x \in Ahead(u)' :
         /\ x[2][2] <= records'
         /\ x[2][2] > 0 => /\ \A i \in 1..Len(queue') : queue'[i][2] # x[2][2]
                           /\ \A v \in Threads : v # u => \A y \in Ahead(v)' : y[2][2] # x[2][2]
    BY <1>1, <1>4 DEF RecordsOK
  <2>3. Elsewhere(blocks, "block")'
    <3>1. Elsewhere(blocks, "block")
      BY <1>1 DEF RecordsOK
    <3> QED
      BY <1>4, <3>1 DEF Elsewhere
  <2> QED
    BY <1>7, <2>1, <2>2, <2>3 DEF RecordsOK
<1>9. Writing(t)
  BY Busies
<1>10. ~overlapped => \A u \in Threads \ {t} : \A x \in Ahead(u)' : x[2] = Stop
  <2>1. ~overlapped => \A u \in Threads \ {t} : \A x \in Ahead(u) : x[2] = Stop
    BY <1>1, <1>9, NobodyElse
  <2> QED
    BY <1>2, <2>1
<1>11. OrderOK'
  <2> SUFFICES ASSUME ~overlapped
               PROVE  /\ \A u, v \in Threads : u # v => ~(Writing(u)' /\ Writing(v)')
                      /\ \A u \in Threads : \A x \in Ahead(u)' : \A j \in 1..Len(queue') :
                           x[2][2] > 0 /\ queue'[j][2] > 0 => x[2][2] < queue'[j][2]
                      /\ Before(events, "event")' /\ Before(blocks, "block")'
    BY DEF OrderOK
  <2>1. \A u, v \in Threads : u # v => ~(Writing(u)' /\ Writing(v)')
    <3>1. initialized \in BOOLEAN /\ initialized' \in BOOLEAN
      BY <1>1 DEF VariablesOK
    <3> QED
      BY <1>1, <1>2, <1>9, <3>1, StillAlone
  <2>2. \A u \in Threads : \A x \in Ahead(u)' : \A j \in 1..Len(queue') :
          x[2][2] > 0 /\ queue'[j][2] > 0 => x[2][2] < queue'[j][2]
    BY <1>1, <1>4 DEF OrderOK
  <2>3. Before(events, "event") /\ Before(blocks, "block")
    BY <1>1 DEF OrderOK
  <2>4. Before(blocks, "block")'
    BY <1>4, <2>3 DEF Before
  <2> DEFINE Q(i) ==
        /\ \A j \in 1..Len(queue) : queue[j][2] > 0 => events'[i].rec[2] < queue[j][2]
        /\ \A u \in Threads : \A x \in Ahead(u)' :
             x[1] = "event" /\ x[2][2] > 0 => events'[i].rec[2] < x[2][2]
        /\ \A j \in 1..(n + 1) :
             i < j /\ events'[i].rec[2] > 0 /\ events'[j].rec[2] > 0 => events'[i].rec[2] < events'[j].rec[2]
  <2>5. \A i \in 1..n : r[2] > 0 => events[i].rec[2] < r[2]
    <3>1. <<"event", r>> \in Ahead(t) /\ <<"event", r>>[1] = "event" /\ <<"event", r>>[2][2] = r[2]
      BY <1>2
    <3> QED
      BY <2>3, <3>1 DEF Before, n
  <2>6. ASSUME NEW i \in 1..n PROVE Q(i)
    <3>1. /\ events'[i] = events[i]
          /\ \A j \in 1..Len(queue) : queue[j][2] > 0 => events[i].rec[2] < queue[j][2]
          /\ \A u \in Threads : \A x \in Ahead(u) :
               x[1] = "event" /\ x[2][2] > 0 => events[i].rec[2] < x[2][2]
          /\ \A j \in 1..n :
               i < j /\ events[i].rec[2] > 0 /\ events[j].rec[2] > 0 => events[i].rec[2] < events[j].rec[2]
      BY <1>3, <2>3 DEF Before, n
    <3>2. \A j \in 1..(n + 1) :
             i < j /\ events'[i].rec[2] > 0 /\ events'[j].rec[2] > 0 => events'[i].rec[2] < events'[j].rec[2]
      BY <1>3, <2>5, <3>1
    <3> QED
      BY <1>4, <3>1, <3>2
  <2>7. Q(n + 1)
    <3>1. ASSUME NEW j \in 1..Len(queue), queue[j][2] > 0 PROVE r[2] < queue[j][2]
      <4>1. CASE r[2] > 0
        <5>1. Task(t)[2][2] > 0 /\ queue[j][2] > 0 => Task(t)[2][2] < queue[j][2]
          BY <1>1, <1>2 DEF OrderOK
        <5> QED
          BY <3>1, <4>1, <5>1 DEF r
      <4>2. CASE r[2] = 0
        BY <3>1, <4>2
      <4> QED
        BY <1>5, <4>1, <4>2
    <3>2. ASSUME NEW u \in Threads, NEW x \in Ahead(u)', x[1] = "event", x[2][2] > 0 PROVE r[2] < x[2][2]
      <4>1. CASE u = t
        BY <1>2, <3>2, <4>1
      <4>2. CASE u # t
        <5>1. x[2][2] = 0
          BY <1>10, <3>2, <4>2, Records
        <5> QED
          BY <3>2, <5>1
      <4> QED
        BY <4>1, <4>2
    <3>3. \A j \in 1..(n + 1) : ~(n + 1 < j)
      BY <1>3
    <3> QED
      BY <1>3, <3>1, <3>2, <3>3
  <2>8. \A i \in 1..(n + 1) : Q(i)
    BY <1>3, <2>6, <2>7
  <2>9. Before(events, "event")'
    BY <1>3, <2>8 DEF Before
  <2> QED
    BY <2>1, <2>2, <2>4, <2>9
<1>12. StartOK'
  <2>1. initialized
    BY <1>1, FilesExist
  <2>2. StartsFile(events, "event")'
    <3> SUFFICES ASSUME ~overlapped
                 PROVE  /\ \A i \in 1..(n + 1) : events'[i].rec = SessionStartRecord => i = 1
                        /\ \A u \in Threads : <<"event", SessionStartRecord>> \notin Ahead(u)'
      BY <1>3 DEF StartsFile
    <3>1. /\ \A i \in 1..n : events[i].rec = SessionStartRecord => i = 1
          /\ \A u \in Threads : <<"event", SessionStartRecord>> \in Ahead(u) => events = <<>>
      BY <1>1 DEF StartOK, StartsFile, n
    <3>2. ASSUME r = SessionStartRecord PROVE n + 1 = 1
      <4>1. events = <<>>
        BY <1>2, <3>1, <3>2
      <4>2. Len(<<>>) = 0
        OBVIOUS
      <4> QED
        BY <4>1, <4>2 DEF n
    <3>3. ASSUME NEW u \in Threads, <<"event", SessionStartRecord>> \in Ahead(u)' PROVE FALSE
      <4>1. CASE u = t
        BY <1>2, <3>3, <4>1
      <4>2. CASE u # t
        <5>1. <<"event", SessionStartRecord>>[2] = Stop
          BY <1>10, <3>3, <4>2
        <5> QED
          BY <5>1, Records
      <4> QED
        BY <4>1, <4>2
    <3> QED
      BY <1>3, <3>1, <3>2, <3>3
  <2>3. StartsFile(blocks, "block")'
    <3>1. StartsFile(blocks, "block")
      BY <1>1 DEF StartOK
    <3> QED
      BY <1>4, <3>1 DEF StartsFile
  <2> QED
    BY <2>1, <2>2, <2>3 DEF StartOK
<1>13. EndOK'
  <2>1. \A i \in 1..Len(events') : i \in 1..n \/ i = n + 1
    BY <1>3
  <2>2. ASSUME NEW z, Begun(z)' PROVE Begun(z)
    <3>1. ASSUME NEW i \in 1..Len(events'), events'[i].rec = z PROVE Begun(z)
      <4>1. CASE i \in 1..n
        BY <1>3, <3>1, <4>1 DEF Begun, n
      <4>2. CASE i = n + 1
        <5>1. Task(t)[2] = z
          BY <1>3, <3>1, <4>2 DEF r
        <5> QED
          BY <1>2, <5>1 DEF Begun
      <4> QED
        BY <2>1, <4>1, <4>2
    <3> QED
      BY <1>4, <2>2, <3>1 DEF Begun
  <2>3. \A z : Queued(z)' <=> Queued(z)
    BY DEF Queued
  <2>4. ~closed' => \A z \in {SessionEndRecord, Stop} : ~Queued(z)' /\ ~Begun(z)'
    BY <1>1, <2>2, <2>3 DEF EndOK
  <2>5. <<"ended", Stop>> \in Ahead("writer")' => \A e \in early' : ~Queued(e.rec)'
    <3>1. <<"ended", Stop>> \in Ahead("writer")' => <<"ended", Stop>> \in Ahead("writer")
      BY <1>4 DEF Threads
    <3> QED
      BY <1>1, <2>3, <3>1 DEF EndOK
  <2>6. ~overlapped' /\ Begun(SessionEndRecord)' =>
          \A e \in early' : ~Queued(e.rec)' /\ \A u \in Threads : \A x \in Ahead(u)' : x[2] # e.rec
    <3>1. ~overlapped /\ Begun(SessionEndRecord) =>
            \A e \in early : ~Queued(e.rec) /\ \A u \in Threads : \A x \in Ahead(u) : x[2] # e.rec
      BY <1>1 DEF EndOK
    <3> QED
      BY <1>4, <2>2, <2>3, <3>1
  <2>7. EndsFile(events)'
    <3> SUFFICES ASSUME ~overlapped, NEW i \in 1..(n + 1), NEW j \in 1..(n + 1), i < j,
                        events'[i].rec = SessionEndRecord, NEW e \in early
                 PROVE  e.rec # events'[j].rec
      BY <1>3 DEF EndsFile
    <3>1. i \in 1..n /\ events[i].rec = SessionEndRecord
      BY <1>3
    <3>2. CASE j \in 1..n
      BY <1>1, <1>3, <3>1, <3>2 DEF EndOK, EndsFile, n
    <3>3. CASE j = n + 1
      <4>1. Begun(SessionEndRecord)
        BY <3>1 DEF Begun, n
      <4>2. Task(t)[2] # e.rec
        BY <1>1, <1>2, <4>1 DEF EndOK
      <4> QED
        BY <1>3, <3>3, <4>2 DEF r
    <3> QED
      BY <1>3, <3>2, <3>3
  <2>8. EndsFile(blocks)'
    BY <1>1 DEF EndOK, EndsFile
  <2>9. /\ footer' => closed'
        /\ \A i, j \in 1..Len(queue') : i < j /\ queue'[i] \in {SessionEndRecord, Stop} =>
             \A e \in early' : queue'[j] # e.rec
    BY <1>1 DEF EndOK
  <2> QED
    BY <2>4, <2>5, <2>6, <2>7, <2>8, <2>9 DEF EndOK
<1>14. KeptOK'
  <2> SUFFICES ASSUME failures = 0
               PROVE  /\ \A e \in early :
                           /\ "event" \in ToSet(Steps(e.rec[1])) =>
                                \/ Queued(e.rec)' \/ Coming(<<"event", e.rec>>)'
                                \/ \E i \in 1..Len(events') : events'[i].rec = e.rec
                           /\ "block" \in ToSet(Steps(e.rec[1])) =>
                                \/ Queued(e.rec)' \/ Coming(<<"block", e.rec>>)'
                                \/ \E i \in 1..Len(blocks') : blocks'[i].rec = e.rec
                      /\ (\E e \in early : e.counts) /\ Cardinality(early) = records =>
                           \/ manifest' = StatusNow' \/ InTurn(Manifest)' \/ Coming(<<"manifest", Manifest>>)'
                      /\ (\E e \in early : e.counts) /\ closed =>
                           \/ InTurn(SessionEndRecord)' \/ Coming(<<"block", SessionEndRecord>>)'
                           \/ \E i \in 1..Len(blocks') : blocks'[i].rec = SessionEndRecord
    <3>1. (\E e \in early : e.counts) => counted > 0
      BY <1>1 DEF KeptOK
    <3> QED
      BY <3>1 DEF KeptOK
  <2>1. ASSUME NEW x, Coming(x), x # Task(t) PROVE Coming(x)'
    <3>1. PICK u \in Threads : x \in Ahead(u)
      BY <2>1 DEF Coming
    <3>2. x \in Ahead(u)'
      BY <1>2, <2>1, <3>1
    <3> QED
      BY <3>2 DEF Coming
  <2>2. \A z : (Queued(z)' <=> Queued(z)) /\ (InTurn(z)' <=> InTurn(z))
    BY DEF Queued, InTurn
  <2>3. StatusNow' = StatusNow
    BY DEF StatusNow
  <2>4. n + 1 \in 1..Len(events')
    BY <1>3
  <2>5. ASSUME NEW z, Coming(<<"event", z>>)
        PROVE  Coming(<<"event", z>>)' \/ \E i \in 1..Len(events') : events'[i].rec = z
    <3>1. CASE <<"event", z>> = Task(t)
      <4>1. r = z
        BY <3>1 DEF r
      <4> QED
        BY <1>3, <2>4, <4>1
    <3>2. CASE <<"event", z>> # Task(t)
      BY <2>1, <2>5, <3>2
    <3> QED
      BY <3>1, <3>2
  <2>6. ASSUME NEW z, \E i \in 1..Len(events) : events[i].rec = z
        PROVE  \E i \in 1..Len(events') : events'[i].rec = z
    <3>1. PICK i \in 1..n : events[i].rec = z
      BY <2>6 DEF n
    <3>2. i \in 1..Len(events') /\ events'[i].rec = z
      BY <1>3, <3>1
    <3> QED
      BY <3>2
  <2>7. ASSUME NEW d, NEW z, d # "event", Coming(<<d, z>>) PROVE Coming(<<d, z>>)'
    <3>1. <<d, z>> # Task(t)
      BY <1>2, <2>7
    <3> QED
      BY <2>1, <2>7, <3>1
  <2>8. ASSUME NEW e \in early, "event" \in ToSet(Steps(e.rec[1]))
        PROVE  \/ Queued(e.rec)' \/ Coming(<<"event", e.rec>>)'
               \/ \E i \in 1..Len(events') : events'[i].rec = e.rec
    <3>1. \/ Queued(e.rec) \/ Coming(<<"event", e.rec>>)
          \/ \E i \in 1..Len(events) : events[i].rec = e.rec
      BY <1>1, <2>8 DEF KeptOK
    <3> QED
      BY <2>2, <2>5, <2>6, <2>7, <3>1
  <2>9. ASSUME NEW e \in early, "block" \in ToSet(Steps(e.rec[1]))
        PROVE  \/ Queued(e.rec)' \/ Coming(<<"block", e.rec>>)'
               \/ \E i \in 1..Len(blocks') : blocks'[i].rec = e.rec
    <3>1. \/ Queued(e.rec) \/ Coming(<<"block", e.rec>>)
          \/ \E i \in 1..Len(blocks) : blocks[i].rec = e.rec
      BY <1>1, <2>9 DEF KeptOK
    <3> QED
      BY <2>2, <2>5, <2>6, <2>7, <3>1
  <2>10. ASSUME \E e \in early : e.counts, Cardinality(early) = records
         PROVE  \/ manifest' = StatusNow' \/ InTurn(Manifest)' \/ Coming(<<"manifest", Manifest>>)'
    <3>1. manifest = StatusNow \/ InTurn(Manifest) \/ Coming(<<"manifest", Manifest>>)
      BY <1>1, <2>10 DEF KeptOK
    <3> QED
      BY <2>2, <2>3, <2>7, <3>1
  <2>11. ASSUME \E e \in early : e.counts, closed
         PROVE  \/ InTurn(SessionEndRecord)' \/ Coming(<<"block", SessionEndRecord>>)'
                \/ \E i \in 1..Len(blocks') : blocks'[i].rec = SessionEndRecord
    <3>1. \/ InTurn(SessionEndRecord) \/ Coming(<<"block", SessionEndRecord>>)
          \/ \E i \in 1..Len(blocks) : blocks[i].rec = SessionEndRecord
      BY <1>1, <2>11 DEF KeptOK
    <3> QED
      BY <2>2, <2>5, <2>6, <2>7, <3>1
  <2> QED
    BY <2>8, <2>9, <2>10, <2>11
<1> QED
  BY <1>8, <1>11, <1>12, <1>13, <1>14

(* A record is written to llm.log. *)
LEMMA BlockWritten ==
    ASSUME Inv, NEW t \in Threads, At(t, "block"), Advance(t), NEW new \in BlockType, new.rec = Task(t)[2],
           blocks' = Append(blocks, new),
           UNCHANGED <<queue, events, manifest, early, closed, records, counted, status,
                       overlapped, failures, initialized, footer>>
    PROVE  RecordsOK' /\ OrderOK' /\ StartOK' /\ EndOK' /\ KeptOK'
<1> DEFINE n == Len(blocks)
           r == Task(t)[2]
<1>1. /\ VariablesOK /\ RecordsOK /\ OrderOK /\ StartOK /\ EndOK /\ KeptOK
  BY DEF Inv
<1>2. /\ Task(t) = <<"block", r>> /\ Task(t) \in Ahead(t) /\ r \in Rec /\ r # Stop /\ Alone(t)
      /\ \A u \in Threads \ {t} : Ahead(u)' = Ahead(u) /\ First(u)' = First(u)
      /\ Ahead(t)' \subseteq Ahead(t) /\ Ahead(t) \subseteq Ahead(t)' \cup {Task(t)}
      /\ \A x \in Ahead(t)' : x[1] = "block" /\ x[2][2] > 0 => r[2] = 0
      /\ <<"block", SessionStartRecord>> \notin Ahead(t)'
  BY <1>1, Once
<1>3. /\ blocks' \in Seq(BlockType) /\ n \in Nat /\ Len(blocks') = n + 1
      /\ \A i \in 1..n : blocks'[i] = blocks[i]
      /\ blocks'[n + 1].rec = r
      /\ \A i \in 1..(n + 1) : i \in 1..n \/ i = n + 1
  <2>1. blocks \in Seq(BlockType)
    BY <1>1 DEF VariablesOK
  <2>2. /\ Append(blocks, new) \in Seq(BlockType) /\ n \in Nat /\ Len(Append(blocks, new)) = n + 1
        /\ \A i \in 1..n : Append(blocks, new)[i] = blocks[i]
        /\ Append(blocks, new)[n + 1] = new
        /\ \A i \in 1..(n + 1) : i \in 1..n \/ i = n + 1
    BY <2>1, OneWritten
  <2> QED
    BY <2>2
<1>4. \A u \in Threads : Ahead(u)' \subseteq Ahead(u)
  BY <1>2
<1>5. r[2] \in Nat /\ (r \in Calls <=> r[2] > 0)
  BY <1>2, RecordNumbers
<1>6. \A i \in 1..n : i < n + 1 /\ i # n + 1
  BY <1>3
<1> HIDE DEF n, r
<1>7. Elsewhere(blocks, "block")'
  <2> DEFINE Q(i) ==
        /\ blocks'[i].rec[2] <= records
        /\ blocks'[i].rec[2] > 0 =>
             /\ \A j \in 1..Len(queue) : queue[j][2] # blocks'[i].rec[2]
             /\ \A u \in Threads : \A x \in Ahead(u)' : x[1] = "block" => x[2][2] # blocks'[i].rec[2]
             /\ \A j \in 1..(n + 1) : blocks'[j].rec[2] = blocks'[i].rec[2] => i = j
  <2>1. Elsewhere(blocks, "block")
    BY <1>1 DEF RecordsOK
  <2>2. /\ r[2] <= records
        /\ r[2] > 0 => /\ \A i \in 1..Len(queue) : queue[i][2] # r[2]
                       /\ \A u \in Threads : u # t => \A y \in Ahead(u) : y[2][2] # r[2]
    <3>1. /\ Task(t)[2][2] <= records
          /\ Task(t)[2][2] > 0 => /\ \A i \in 1..Len(queue) : queue[i][2] # Task(t)[2][2]
                                  /\ \A u \in Threads : u # t => \A y \in Ahead(u) : y[2][2] # Task(t)[2][2]
      BY <1>1, <1>2 DEF RecordsOK
    <3> QED
      BY <3>1 DEF r
  <2>3. \A i \in 1..n : blocks[i].rec[2] > 0 => r[2] # blocks[i].rec[2]
    <3>1. <<"block", r>> \in Ahead(t) /\ <<"block", r>>[1] = "block" /\ <<"block", r>>[2][2] = r[2]
      BY <1>2
    <3> QED
      BY <2>1, <3>1 DEF Elsewhere, n
  <2>4. ASSUME NEW i \in 1..n PROVE Q(i)
    <3>1. /\ blocks'[i] = blocks[i] /\ blocks[i].rec[2] <= records
          /\ blocks[i].rec[2] > 0 =>
               /\ \A j \in 1..Len(queue) : queue[j][2] # blocks[i].rec[2]
               /\ \A u \in Threads : \A x \in Ahead(u) : x[1] = "block" => x[2][2] # blocks[i].rec[2]
               /\ \A j \in 1..n : blocks[j].rec[2] = blocks[i].rec[2] => i = j
      BY <1>3, <2>1 DEF Elsewhere, n
    <3>2. blocks[i].rec[2] > 0 => \A j \in 1..(n + 1) : blocks'[j].rec[2] = blocks'[i].rec[2] => i = j
      BY <1>3, <2>3, <3>1
    <3> QED
      BY <1>4, <3>1, <3>2
  <2>5. Q(n + 1)
    <3>1. ASSUME r[2] > 0, NEW u \in Threads, NEW x \in Ahead(u)', x[1] = "block" PROVE x[2][2] # r[2]
      <4>1. CASE u = t
        BY <1>2, <1>5, <3>1, <4>1
      <4>2. CASE u # t
        BY <1>2, <2>2, <3>1, <4>2
      <4> QED
        BY <4>1, <4>2
    <3>2. r[2] > 0 => \A j \in 1..(n + 1) : blocks'[j].rec[2] = r[2] => j = n + 1
      BY <1>3, <2>3
    <3> QED
      BY <1>3, <2>2, <3>1, <3>2
  <2>6. \A i \in 1..(n + 1) : Q(i)
    BY <1>3, <2>4, <2>5
  <2> QED
    BY <1>3, <2>6 DEF Elsewhere
<1>8. RecordsOK'
  <2>1. /\ \A i \in 1..Len(queue') : queue'[i][2] <= records'
        /\ \A i, j \in 1..Len(queue') : i < j /\ queue'[i][2] > 0 /\ queue'[j][2] > 0 =>
                                         queue'[i][2] < queue'[j][2]
    BY <1>1 DEF RecordsOK
  <2>2. \A u \in Threads : \A x \in Ahead(u)' :
         /\ x[2][2] <= records'
         /\ x[2][2] > 0 => /\ \A i \in 1..Len(queue') : queue'[i][2] # x[2][2]
                           /\ \A v \in Threads : v # u => \A y \in Ahead(v)' : y[2][2] # x[2][2]
    BY <1>1, <1>4 DEF RecordsOK
  <2>3. Elsewhere(events, "event")'
    <3>1. Elsewhere(events, "event")
      BY <1>1 DEF RecordsOK
    <3> QED
      BY <1>4, <3>1 DEF Elsewhere
  <2> QED
    BY <1>7, <2>1, <2>2, <2>3 DEF RecordsOK
<1>9. Writing(t)
  BY Busies
<1>10. ~overlapped => \A u \in Threads \ {t} : \A x \in Ahead(u)' : x[2] = Stop
  <2>1. ~overlapped => \A u \in Threads \ {t} : \A x \in Ahead(u) : x[2] = Stop
    BY <1>1, <1>9, NobodyElse
  <2> QED
    BY <1>2, <2>1
<1>11. OrderOK'
  <2> SUFFICES ASSUME ~overlapped
               PROVE  /\ \A u, v \in Threads : u # v => ~(Writing(u)' /\ Writing(v)')
                      /\ \A u \in Threads : \A x \in Ahead(u)' : \A j \in 1..Len(queue') :
                           x[2][2] > 0 /\ queue'[j][2] > 0 => x[2][2] < queue'[j][2]
                      /\ Before(blocks, "block")' /\ Before(events, "event")'
    BY DEF OrderOK
  <2>1. \A u, v \in Threads : u # v => ~(Writing(u)' /\ Writing(v)')
    <3>1. initialized \in BOOLEAN /\ initialized' \in BOOLEAN
      BY <1>1 DEF VariablesOK
    <3> QED
      BY <1>1, <1>2, <1>9, <3>1, StillAlone
  <2>2. \A u \in Threads : \A x \in Ahead(u)' : \A j \in 1..Len(queue') :
          x[2][2] > 0 /\ queue'[j][2] > 0 => x[2][2] < queue'[j][2]
    BY <1>1, <1>4 DEF OrderOK
  <2>3. Before(blocks, "block") /\ Before(events, "event")
    BY <1>1 DEF OrderOK
  <2>4. Before(events, "event")'
    BY <1>4, <2>3 DEF Before
  <2> DEFINE Q(i) ==
        /\ \A j \in 1..Len(queue) : queue[j][2] > 0 => blocks'[i].rec[2] < queue[j][2]
        /\ \A u \in Threads : \A x \in Ahead(u)' :
             x[1] = "block" /\ x[2][2] > 0 => blocks'[i].rec[2] < x[2][2]
        /\ \A j \in 1..(n + 1) :
             i < j /\ blocks'[i].rec[2] > 0 /\ blocks'[j].rec[2] > 0 => blocks'[i].rec[2] < blocks'[j].rec[2]
  <2>5. \A i \in 1..n : r[2] > 0 => blocks[i].rec[2] < r[2]
    <3>1. <<"block", r>> \in Ahead(t) /\ <<"block", r>>[1] = "block" /\ <<"block", r>>[2][2] = r[2]
      BY <1>2
    <3> QED
      BY <2>3, <3>1 DEF Before, n
  <2>6. ASSUME NEW i \in 1..n PROVE Q(i)
    <3>1. /\ blocks'[i] = blocks[i]
          /\ \A j \in 1..Len(queue) : queue[j][2] > 0 => blocks[i].rec[2] < queue[j][2]
          /\ \A u \in Threads : \A x \in Ahead(u) :
               x[1] = "block" /\ x[2][2] > 0 => blocks[i].rec[2] < x[2][2]
          /\ \A j \in 1..n :
               i < j /\ blocks[i].rec[2] > 0 /\ blocks[j].rec[2] > 0 => blocks[i].rec[2] < blocks[j].rec[2]
      BY <1>3, <2>3 DEF Before, n
    <3>2. \A j \in 1..(n + 1) :
             i < j /\ blocks'[i].rec[2] > 0 /\ blocks'[j].rec[2] > 0 => blocks'[i].rec[2] < blocks'[j].rec[2]
      BY <1>3, <2>5, <3>1
    <3> QED
      BY <1>4, <3>1, <3>2
  <2>7. Q(n + 1)
    <3>1. ASSUME NEW j \in 1..Len(queue), queue[j][2] > 0 PROVE r[2] < queue[j][2]
      <4>1. CASE r[2] > 0
        <5>1. Task(t)[2][2] > 0 /\ queue[j][2] > 0 => Task(t)[2][2] < queue[j][2]
          BY <1>1, <1>2 DEF OrderOK
        <5> QED
          BY <3>1, <4>1, <5>1 DEF r
      <4>2. CASE r[2] = 0
        BY <3>1, <4>2
      <4> QED
        BY <1>5, <4>1, <4>2
    <3>2. ASSUME NEW u \in Threads, NEW x \in Ahead(u)', x[1] = "block", x[2][2] > 0 PROVE r[2] < x[2][2]
      <4>1. CASE u = t
        BY <1>2, <3>2, <4>1
      <4>2. CASE u # t
        <5>1. x[2][2] = 0
          BY <1>10, <3>2, <4>2, Records
        <5> QED
          BY <3>2, <5>1
      <4> QED
        BY <4>1, <4>2
    <3>3. \A j \in 1..(n + 1) : ~(n + 1 < j)
      BY <1>3
    <3> QED
      BY <1>3, <3>1, <3>2, <3>3
  <2>8. \A i \in 1..(n + 1) : Q(i)
    BY <1>3, <2>6, <2>7
  <2>9. Before(blocks, "block")'
    BY <1>3, <2>8 DEF Before
  <2> QED
    BY <2>1, <2>2, <2>4, <2>9
<1>12. StartOK'
  <2>1. initialized
    BY <1>1, FilesExist
  <2>2. StartsFile(blocks, "block")'
    <3> SUFFICES ASSUME ~overlapped
                 PROVE  /\ \A i \in 1..(n + 1) : blocks'[i].rec = SessionStartRecord => i = 1
                        /\ \A u \in Threads : <<"block", SessionStartRecord>> \notin Ahead(u)'
      BY <1>3 DEF StartsFile
    <3>1. /\ \A i \in 1..n : blocks[i].rec = SessionStartRecord => i = 1
          /\ \A u \in Threads : <<"block", SessionStartRecord>> \in Ahead(u) => blocks = <<>>
      BY <1>1 DEF StartOK, StartsFile, n
    <3>2. ASSUME r = SessionStartRecord PROVE n + 1 = 1
      <4>1. blocks = <<>>
        BY <1>2, <3>1, <3>2
      <4>2. Len(<<>>) = 0
        OBVIOUS
      <4> QED
        BY <4>1, <4>2 DEF n
    <3>3. ASSUME NEW u \in Threads, <<"block", SessionStartRecord>> \in Ahead(u)' PROVE FALSE
      <4>1. CASE u = t
        BY <1>2, <3>3, <4>1
      <4>2. CASE u # t
        <5>1. <<"block", SessionStartRecord>>[2] = Stop
          BY <1>10, <3>3, <4>2
        <5> QED
          BY <5>1, Records
      <4> QED
        BY <4>1, <4>2
    <3> QED
      BY <1>3, <3>1, <3>2, <3>3
  <2>3. StartsFile(events, "event")'
    <3>1. StartsFile(events, "event")
      BY <1>1 DEF StartOK
    <3> QED
      BY <1>4, <3>1 DEF StartsFile
  <2> QED
    BY <2>1, <2>2, <2>3 DEF StartOK
<1>13. EndOK'
  <2>1. \A i \in 1..Len(blocks') : i \in 1..n \/ i = n + 1
    BY <1>3
  <2>2. ASSUME NEW z, Begun(z)' PROVE Begun(z)
    <3>1. ASSUME NEW i \in 1..Len(blocks'), blocks'[i].rec = z PROVE Begun(z)
      <4>1. CASE i \in 1..n
        BY <1>3, <3>1, <4>1 DEF Begun, n
      <4>2. CASE i = n + 1
        <5>1. Task(t)[2] = z
          BY <1>3, <3>1, <4>2 DEF r
        <5> QED
          BY <1>2, <5>1 DEF Begun
      <4> QED
        BY <2>1, <4>1, <4>2
    <3> QED
      BY <1>4, <2>2, <3>1 DEF Begun
  <2>3. \A z : Queued(z)' <=> Queued(z)
    BY DEF Queued
  <2>4. ~closed' => \A z \in {SessionEndRecord, Stop} : ~Queued(z)' /\ ~Begun(z)'
    BY <1>1, <2>2, <2>3 DEF EndOK
  <2>5. <<"ended", Stop>> \in Ahead("writer")' => \A e \in early' : ~Queued(e.rec)'
    <3>1. <<"ended", Stop>> \in Ahead("writer")' => <<"ended", Stop>> \in Ahead("writer")
      BY <1>4 DEF Threads
    <3> QED
      BY <1>1, <2>3, <3>1 DEF EndOK
  <2>6. ~overlapped' /\ Begun(SessionEndRecord)' =>
          \A e \in early' : ~Queued(e.rec)' /\ \A u \in Threads : \A x \in Ahead(u)' : x[2] # e.rec
    <3>1. ~overlapped /\ Begun(SessionEndRecord) =>
            \A e \in early : ~Queued(e.rec) /\ \A u \in Threads : \A x \in Ahead(u) : x[2] # e.rec
      BY <1>1 DEF EndOK
    <3> QED
      BY <1>4, <2>2, <2>3, <3>1
  <2>7. EndsFile(blocks)'
    <3> SUFFICES ASSUME ~overlapped, NEW i \in 1..(n + 1), NEW j \in 1..(n + 1), i < j,
                        blocks'[i].rec = SessionEndRecord, NEW e \in early
                 PROVE  e.rec # blocks'[j].rec
      BY <1>3 DEF EndsFile
    <3>1. i \in 1..n /\ blocks[i].rec = SessionEndRecord
      BY <1>3
    <3>2. CASE j \in 1..n
      BY <1>1, <1>3, <3>1, <3>2 DEF EndOK, EndsFile, n
    <3>3. CASE j = n + 1
      <4>1. Begun(SessionEndRecord)
        BY <3>1 DEF Begun, n
      <4>2. Task(t)[2] # e.rec
        BY <1>1, <1>2, <4>1 DEF EndOK
      <4> QED
        BY <1>3, <3>3, <4>2 DEF r
    <3> QED
      BY <1>3, <3>2, <3>3
  <2>8. EndsFile(events)'
    BY <1>1 DEF EndOK, EndsFile
  <2>9. /\ footer' => closed'
        /\ \A i, j \in 1..Len(queue') : i < j /\ queue'[i] \in {SessionEndRecord, Stop} =>
             \A e \in early' : queue'[j] # e.rec
    BY <1>1 DEF EndOK
  <2> QED
    BY <2>4, <2>5, <2>6, <2>7, <2>8, <2>9 DEF EndOK
<1>14. KeptOK'
  <2> SUFFICES ASSUME failures = 0
               PROVE  /\ \A e \in early :
                           /\ "event" \in ToSet(Steps(e.rec[1])) =>
                                \/ Queued(e.rec)' \/ Coming(<<"event", e.rec>>)'
                                \/ \E i \in 1..Len(events') : events'[i].rec = e.rec
                           /\ "block" \in ToSet(Steps(e.rec[1])) =>
                                \/ Queued(e.rec)' \/ Coming(<<"block", e.rec>>)'
                                \/ \E i \in 1..Len(blocks') : blocks'[i].rec = e.rec
                      /\ (\E e \in early : e.counts) /\ Cardinality(early) = records =>
                           \/ manifest' = StatusNow' \/ InTurn(Manifest)' \/ Coming(<<"manifest", Manifest>>)'
                      /\ (\E e \in early : e.counts) /\ closed =>
                           \/ InTurn(SessionEndRecord)' \/ Coming(<<"block", SessionEndRecord>>)'
                           \/ \E i \in 1..Len(blocks') : blocks'[i].rec = SessionEndRecord
    <3>1. (\E e \in early : e.counts) => counted > 0
      BY <1>1 DEF KeptOK
    <3> QED
      BY <3>1 DEF KeptOK
  <2>1. ASSUME NEW x, Coming(x), x # Task(t) PROVE Coming(x)'
    <3>1. PICK u \in Threads : x \in Ahead(u)
      BY <2>1 DEF Coming
    <3>2. x \in Ahead(u)'
      BY <1>2, <2>1, <3>1
    <3> QED
      BY <3>2 DEF Coming
  <2>2. \A z : (Queued(z)' <=> Queued(z)) /\ (InTurn(z)' <=> InTurn(z))
    BY DEF Queued, InTurn
  <2>3. StatusNow' = StatusNow
    BY DEF StatusNow
  <2>4. n + 1 \in 1..Len(blocks')
    BY <1>3
  <2>5. ASSUME NEW z, Coming(<<"block", z>>)
        PROVE  Coming(<<"block", z>>)' \/ \E i \in 1..Len(blocks') : blocks'[i].rec = z
    <3>1. CASE <<"block", z>> = Task(t)
      <4>1. r = z
        BY <3>1 DEF r
      <4> QED
        BY <1>3, <2>4, <4>1
    <3>2. CASE <<"block", z>> # Task(t)
      BY <2>1, <2>5, <3>2
    <3> QED
      BY <3>1, <3>2
  <2>6. ASSUME NEW z, \E i \in 1..Len(blocks) : blocks[i].rec = z
        PROVE  \E i \in 1..Len(blocks') : blocks'[i].rec = z
    <3>1. PICK i \in 1..n : blocks[i].rec = z
      BY <2>6 DEF n
    <3>2. i \in 1..Len(blocks') /\ blocks'[i].rec = z
      BY <1>3, <3>1
    <3> QED
      BY <3>2
  <2>7. ASSUME NEW d, NEW z, d # "block", Coming(<<d, z>>) PROVE Coming(<<d, z>>)'
    <3>1. <<d, z>> # Task(t)
      BY <1>2, <2>7
    <3> QED
      BY <2>1, <2>7, <3>1
  <2>8. ASSUME NEW e \in early, "event" \in ToSet(Steps(e.rec[1]))
        PROVE  \/ Queued(e.rec)' \/ Coming(<<"event", e.rec>>)'
               \/ \E i \in 1..Len(events') : events'[i].rec = e.rec
    <3>1. \/ Queued(e.rec) \/ Coming(<<"event", e.rec>>)
          \/ \E i \in 1..Len(events) : events[i].rec = e.rec
      BY <1>1, <2>8 DEF KeptOK
    <3> QED
      BY <2>2, <2>5, <2>6, <2>7, <3>1
  <2>9. ASSUME NEW e \in early, "block" \in ToSet(Steps(e.rec[1]))
        PROVE  \/ Queued(e.rec)' \/ Coming(<<"block", e.rec>>)'
               \/ \E i \in 1..Len(blocks') : blocks'[i].rec = e.rec
    <3>1. \/ Queued(e.rec) \/ Coming(<<"block", e.rec>>)
          \/ \E i \in 1..Len(blocks) : blocks[i].rec = e.rec
      BY <1>1, <2>9 DEF KeptOK
    <3> QED
      BY <2>2, <2>5, <2>6, <2>7, <3>1
  <2>10. ASSUME \E e \in early : e.counts, Cardinality(early) = records
         PROVE  \/ manifest' = StatusNow' \/ InTurn(Manifest)' \/ Coming(<<"manifest", Manifest>>)'
    <3>1. manifest = StatusNow \/ InTurn(Manifest) \/ Coming(<<"manifest", Manifest>>)
      BY <1>1, <2>10 DEF KeptOK
    <3> QED
      BY <2>2, <2>3, <2>7, <3>1
  <2>11. ASSUME \E e \in early : e.counts, closed
         PROVE  \/ InTurn(SessionEndRecord)' \/ Coming(<<"block", SessionEndRecord>>)'
                \/ \E i \in 1..Len(blocks') : blocks'[i].rec = SessionEndRecord
    <3>1. \/ InTurn(SessionEndRecord) \/ Coming(<<"block", SessionEndRecord>>)
          \/ \E i \in 1..Len(blocks) : blocks[i].rec = SessionEndRecord
      BY <1>1, <2>11 DEF KeptOK
    <3> QED
      BY <2>2, <2>5, <2>6, <2>7, <3>1
  <2> QED
    BY <2>8, <2>9, <2>10, <2>11
<1> QED
  BY <1>8, <1>11, <1>12, <1>13, <1>14

(* An event is written. *)
LEMMA AppendEventInv == ASSUME Inv, NEW t \in Threads, AppendEvent(t) PROVE Inv'
<1> DEFINE n == Len(events)
           new == [rec |-> Task(t)[2], seq |-> held[t].seq, step |-> held[t].step]
<1>1. /\ VariablesOK /\ StepsOK /\ SeqsOK /\ OrderOK /\ EndOK
  BY DEF Inv
<1>2. /\ At(t, "event") /\ Advance(t) /\ events' = Append(events, new)
      /\ held' = [held EXCEPT ![t].seq = 0]
      /\ UNCHANGED <<mode, closed, transport, counted, status, queue, records, failures, early,
                     overlapped, initialized, footer, step, seq, blocks, manifest>>
  BY DEF AppendEvent, Undisturbed, history
<1>3. /\ Task(t)[2] \in Rec /\ First(t) = "event"
      /\ \A u \in Threads \ {t} : First(u)' = First(u)
      /\ First(t)' \in Behind("event")
      /\ DOMAIN program' = Threads /\ \A u \in Threads : Shaped(program'[u])
  BY <1>1, <1>2, Once
<1>4. First(t)' \in {"none", "block"}
  BY <1>3 DEF Behind
<1>5. /\ step \in Nat /\ seq \in Nat /\ events \in Seq(EventType) /\ blocks \in Seq(BlockType)
      /\ held \in [Threads -> [step : Nat, seq : Nat]] /\ failures \in 0..MaxFailures
      /\ overlapped \in BOOLEAN /\ initialized \in BOOLEAN /\ footer \in BOOLEAN
  BY <1>1 DEF VariablesOK
<1>6. new \in EventType /\ new.rec = Task(t)[2] /\ new.seq = held[t].seq /\ new.step = held[t].step
  BY <1>3, <1>5 DEF EventType
<1>7. /\ held' \in [Threads -> [step : Nat, seq : Nat]]
      /\ held'[t].step = held[t].step
      /\ \A u \in Threads \ {t} : held'[u] = held[u]
  <2>1. held[t] \in [step : Nat, seq : Nat]
    BY <1>5
  <2>2. [held[t] EXCEPT !.seq = 0] \in [step : Nat, seq : Nat]
    BY <2>1
  <2>3. held'[t] = [held[t] EXCEPT !.seq = 0] /\ \A u \in Threads \ {t} : held'[u] = held[u]
    BY <1>2, <1>5
  <2>4. held' \in [Threads -> [step : Nat, seq : Nat]]
    BY <1>2, <1>5, <2>2
  <2> QED
    BY <2>1, <2>3, <2>4
<1> HIDE DEF new
<1>8. /\ events' \in Seq(EventType) /\ n \in Nat /\ Len(events') = n + 1
      /\ \A i \in 1..n : events'[i] = events[i]
      /\ events'[n + 1] = new
      /\ \A i \in 1..(n + 1) : i \in 1..n \/ i = n + 1
  <2>1. /\ Append(events, new) \in Seq(EventType) /\ n \in Nat /\ Len(Append(events, new)) = n + 1
        /\ \A i \in 1..n : Append(events, new)[i] = events[i]
        /\ Append(events, new)[n + 1] = new
        /\ \A i \in 1..(n + 1) : i \in 1..n \/ i = n + 1
    BY <1>5, <1>6, OneWritten
  <2> QED
    BY <1>2, <2>1
<1>9. RecordsOK' /\ OrderOK' /\ StartOK' /\ EndOK' /\ KeptOK'
  BY <1>2, <1>6, EventWritten
<1>10. VariablesOK'
  BY <1>1, <1>2, <1>3, <1>5, <1>7, <1>8, VariablesStay
<1>a. \A i \in 1..n, j \in 1..(n + 1) : j < i => j \in 1..n
  BY <1>8
<1>b. \A j \in 1..(n + 1) : ~(n + 1 < j)
  BY <1>8
<1>c. ~overlapped => \A u \in Threads \ {t} : First(u) \in {"none", "init", "join", "ended"}
  <2>1. Writing(t)
    BY <1>2, Busies
  <2> QED
    BY <1>1, <2>1, NobodyElse
<1> HIDE DEF n
<1>11. StepsOK'
  <2>1. \A u \in Threads : /\ held'[u].step = held[u].step /\ (Carrying(u)' => Carrying(u))
                           /\ First(u)' \in {"number", "event"} =>
                                u # t /\ First(u) \in {"number", "event"} /\ Carrying(u)
    BY <1>3, <1>4, <1>7 DEF Carrying
  <2>2. Carrying(t)
    BY <1>3 DEF Carrying
  <2>3. \A u \in Threads : Carrying(u)' => held'[u].step \in 1..step'
    BY <1>1, <1>2, <2>1 DEF StepsOK
  <2>4. \A u, v \in Threads : u # v /\ Carrying(u)' /\ Carrying(v)' => held'[u].step # held'[v].step
    BY <1>1, <2>1 DEF StepsOK
  <2>5. \A i \in 1..n : /\ events[i].step \in 1..step
                        /\ \A u \in Threads : First(u) \in {"number", "event"} =>
                             /\ events[i].step # held[u].step
                             /\ ~overlapped => events[i].step < held[u].step
    BY <1>1 DEF StepsOK, n
  <2>6. \A i \in 1..(n + 1) : /\ events'[i].step \in 1..step'
                              /\ \A u \in Threads : First(u)' \in {"number", "event"} =>
                                   /\ events'[i].step # held'[u].step
                                   /\ ~overlapped' => events'[i].step < held'[u].step
    <3>1. ASSUME NEW i \in 1..n
          PROVE  /\ events'[i].step \in 1..step'
                 /\ \A u \in Threads : First(u)' \in {"number", "event"} =>
                      /\ events'[i].step # held'[u].step
                      /\ ~overlapped' => events'[i].step < held'[u].step
      BY <1>2, <1>8, <2>1, <2>5
    <3>2. events'[n + 1].step = held[t].step /\ held[t].step \in 1..step
      BY <1>1, <1>6, <1>8, <2>2 DEF StepsOK
    <3>3. ASSUME NEW u \in Threads, First(u)' \in {"number", "event"}
          PROVE  held[t].step # held'[u].step /\ overlapped
      <4>1. u # t /\ Carrying(u) /\ First(u) \in {"number", "event"} /\ held'[u].step = held[u].step
        BY <2>1, <3>3
      <4>2. overlapped
        BY <1>c, <4>1
      <4>3. held[t].step # held[u].step
        BY <1>1, <2>2, <4>1 DEF StepsOK
      <4> QED
        BY <4>1, <4>2, <4>3
    <3> QED
      BY <1>2, <1>8, <3>1, <3>2, <3>3
  <2>7. \A i \in 1..Len(blocks') : /\ blocks'[i].step \in 1..step'
                                   /\ \A u \in Threads : Carrying(u)' =>
                                        /\ blocks'[i].step # held'[u].step
                                        /\ ~overlapped' => blocks'[i].step < held'[u].step
    BY <1>1, <1>2, <2>1 DEF StepsOK
  <2>8. \A i, j \in 1..(n + 1) : i < j => /\ events'[i].step # events'[j].step
                                          /\ ~overlapped' => events'[i].step < events'[j].step
    <3> SUFFICES ASSUME NEW i \in 1..(n + 1), NEW j \in 1..(n + 1), i < j
                 PROVE  /\ events'[i].step # events'[j].step
                        /\ ~overlapped' => events'[i].step < events'[j].step
      OBVIOUS
    <3>1. i \in 1..n
      BY <1>8, <1>b
    <3>2. CASE j \in 1..n
      BY <1>1, <1>2, <1>8, <3>1, <3>2 DEF StepsOK, n
    <3>3. CASE j = n + 1
      <4>1. events[i].step # held[t].step /\ (~overlapped => events[i].step < held[t].step)
        BY <1>3, <2>5, <3>1
      <4> QED
        BY <1>2, <1>6, <1>8, <3>1, <3>3, <4>1
    <3> QED
      BY <1>8, <3>2, <3>3
  <2>9. \A i, j \in 1..Len(blocks') : i < j => /\ blocks'[i].step # blocks'[j].step
                                               /\ ~overlapped' => blocks'[i].step < blocks'[j].step
    BY <1>1, <1>2 DEF StepsOK
  <2> QED
    BY <1>8, <2>3, <2>4, <2>6, <2>7, <2>8, <2>9 DEF StepsOK
<1>12. SeqsOK'
  <2>1. \A u \in Threads : First(u)' = "event" => u # t /\ First(u) = "event" /\ held'[u] = held[u]
    BY <1>3, <1>4, <1>7
  <2>2. /\ Count("number")' + One(t, "number") = Count("number") + One(t, "number")'
        /\ Count("event")' + One(t, "event") = Count("event") + One(t, "event")'
    BY <1>3, CountMoves
  <2>3. /\ One(t, "number") = 0 /\ One(t, "event") = 1
        /\ Count("number") \in 0..3 /\ Count("event") \in 0..3
    <3>1. First(t) # "number" /\ First(t) = "event"
      BY <1>3
    <3> QED
      BY <3>1, CountTypes
  <2>4. /\ One(t, "number")' = 0 /\ One(t, "event")' = 0
        /\ Count("number")' \in 0..3 /\ Count("event")' \in 0..3
    <3>1. First(t)' # "event" /\ First(t)' # "number"
      BY <1>4
    <3> QED
      BY <3>1, CountTypesNext
  <2>5. Count("number")' = Count("number") /\ Count("event")' = Count("event") - 1
    BY <2>2, <2>3, <2>4
  <2>a. seq + Count("number") <= step /\ n + Count("event") <= seq
    BY <1>1 DEF SeqsOK, n
  <2>b. seq' + Count("number")' <= step'
    BY <1>2, <2>5, <2>a
  <2>c. Len(events') + Count("event")' <= seq'
    BY <1>2, <1>5, <1>8, <2>3, <2>5, <2>a, SMTT(30)
  <2>6. /\ held[t].seq \in 1..seq /\ (~overlapped => held[t].seq = seq)
        /\ \A u \in Threads : u # t /\ First(u) = "event" => held[t].seq # held[u].seq
    BY <1>1, <1>3 DEF SeqsOK
  <2>7. \A i \in 1..n : /\ events[i].seq \in 1..seq
                        /\ \A u \in Threads : First(u) = "event" => events[i].seq # held[u].seq
    BY <1>1 DEF SeqsOK, n
  <2>8. \A u \in Threads : First(u)' = "event" => /\ held'[u].seq \in 1..seq'
                                                  /\ ~overlapped' => held'[u].seq = seq'
    BY <1>1, <1>2, <2>1 DEF SeqsOK
  <2>9. \A u, v \in Threads : u # v /\ First(u)' = "event" /\ First(v)' = "event" =>
                               held'[u].seq # held'[v].seq
    BY <1>1, <2>1 DEF SeqsOK
  <2>10. \A i \in 1..(n + 1) : /\ events'[i].seq \in 1..seq'
                               /\ \A u \in Threads : First(u)' = "event" =>
                                    events'[i].seq # held'[u].seq
    <3>1. \A i \in 1..n : /\ events'[i].seq \in 1..seq'
                          /\ \A u \in Threads : First(u)' = "event" =>
                               events'[i].seq # held'[u].seq
      BY <1>2, <1>8, <2>1, <2>7
    <3>2. /\ events'[n + 1].seq \in 1..seq'
          /\ \A u \in Threads : First(u)' = "event" => events'[n + 1].seq # held'[u].seq
      BY <1>2, <1>6, <1>8, <2>1, <2>6
    <3> QED
      BY <1>8, <3>1, <3>2
  <2>11. \A i, j \in 1..(n + 1) : i < j => events'[i].seq # events'[j].seq
    <3> SUFFICES ASSUME NEW i \in 1..(n + 1), NEW j \in 1..(n + 1), i < j
                 PROVE  events'[i].seq # events'[j].seq
      OBVIOUS
    <3>1. i \in 1..n
      BY <1>8, <1>b
    <3>2. CASE j \in 1..n
      BY <1>1, <1>8, <3>1, <3>2 DEF SeqsOK, n
    <3>3. CASE j = n + 1
      <4>1. events[i].seq # held[t].seq
        BY <1>3, <2>7, <3>1
      <4> QED
        BY <1>6, <1>8, <3>1, <3>3, <4>1
    <3> QED
      BY <1>8, <3>2, <3>3
  <2>12. ASSUME ~overlapped, failures = 0
         PROVE  seq = n + 1 + Count("event")' /\ \A i \in 1..(n + 1) : events'[i].seq = i
    <3>1. seq = n + Count("event") /\ \A i \in 1..n : events[i].seq = i
      BY <1>1, <2>12 DEF SeqsOK, n
    <3>2. \A u \in Threads : First(u)' # "event"
      BY <1>c, <2>1, <2>12
    <3>3. Count("event")' = 0
      BY <3>2, CountTypesNext
    <3>4. seq = n + 1
      BY <1>5, <1>8, <2>3, <2>5, <3>1, <3>3
    <3>5. events'[n + 1].seq = n + 1
      BY <1>6, <1>8, <2>6, <2>12, <3>4
    <3> QED
      BY <1>5, <1>8, <3>1, <3>3, <3>4, <3>5, SMTT(30)
  <2> QED
    BY <1>2, <1>8, <2>b, <2>c, <2>8, <2>9, <2>10, <2>11, <2>12 DEF SeqsOK
<1> QED
  BY <1>9, <1>10, <1>11, <1>12 DEF Inv

(* A block is written to llm.log. *)
LEMMA AppendLlmLogInv == ASSUME Inv, NEW t \in Threads, AppendLlmLog(t) PROVE Inv'
<1> DEFINE n == Len(blocks)
           new == [rec |-> Task(t)[2], step |-> held[t].step]
<1>1. /\ VariablesOK /\ StepsOK /\ SeqsOK /\ OrderOK /\ EndOK
  BY DEF Inv
<1>2. /\ At(t, "block") /\ Advance(t) /\ blocks' = Append(blocks, new)
      /\ held' = [held EXCEPT ![t].step = 0]
      /\ UNCHANGED <<mode, closed, transport, counted, status, queue, records, failures, early,
                     overlapped, initialized, footer, step, seq, events, manifest>>
  BY DEF AppendLlmLog, Undisturbed, history
<1>3. /\ Task(t)[2] \in Rec /\ First(t) = "block"
      /\ \A u \in Threads \ {t} : First(u)' = First(u)
      /\ First(t)' \in Behind("block")
      /\ DOMAIN program' = Threads /\ \A u \in Threads : Shaped(program'[u])
  BY <1>1, <1>2, Once
<1>4. First(t)' \notin {"number", "event", "block"}
  BY <1>3 DEF Behind
<1>5. /\ step \in Nat /\ seq \in Nat /\ events \in Seq(EventType) /\ blocks \in Seq(BlockType)
      /\ held \in [Threads -> [step : Nat, seq : Nat]] /\ failures \in 0..MaxFailures
      /\ overlapped \in BOOLEAN /\ initialized \in BOOLEAN /\ footer \in BOOLEAN
  BY <1>1 DEF VariablesOK
<1>6. new \in BlockType /\ new.rec = Task(t)[2] /\ new.step = held[t].step
  BY <1>3, <1>5 DEF BlockType
<1>7. /\ held' \in [Threads -> [step : Nat, seq : Nat]]
      /\ held'[t].seq = held[t].seq
      /\ \A u \in Threads \ {t} : held'[u] = held[u]
  <2>1. held[t] \in [step : Nat, seq : Nat]
    BY <1>5
  <2>2. [held[t] EXCEPT !.step = 0] \in [step : Nat, seq : Nat]
    BY <2>1
  <2>3. held'[t] = [held[t] EXCEPT !.step = 0] /\ \A u \in Threads \ {t} : held'[u] = held[u]
    BY <1>2, <1>5
  <2>4. held' \in [Threads -> [step : Nat, seq : Nat]]
    BY <1>2, <1>5, <2>2
  <2> QED
    BY <2>1, <2>3, <2>4
<1> HIDE DEF new
<1>8. /\ blocks' \in Seq(BlockType) /\ n \in Nat /\ Len(blocks') = n + 1
      /\ \A i \in 1..n : blocks'[i] = blocks[i]
      /\ blocks'[n + 1] = new
      /\ \A i \in 1..(n + 1) : i \in 1..n \/ i = n + 1
  <2>1. /\ Append(blocks, new) \in Seq(BlockType) /\ n \in Nat /\ Len(Append(blocks, new)) = n + 1
        /\ \A i \in 1..n : Append(blocks, new)[i] = blocks[i]
        /\ Append(blocks, new)[n + 1] = new
        /\ \A i \in 1..(n + 1) : i \in 1..n \/ i = n + 1
    BY <1>5, <1>6, OneWritten
  <2> QED
    BY <1>2, <2>1
<1>9. RecordsOK' /\ OrderOK' /\ StartOK' /\ EndOK' /\ KeptOK'
  BY <1>2, <1>6, BlockWritten
<1>10. VariablesOK'
  BY <1>1, <1>2, <1>3, <1>5, <1>7, <1>8, VariablesStay
<1>b. \A j \in 1..(n + 1) : ~(n + 1 < j)
  BY <1>8
<1>c. ~overlapped => \A u \in Threads \ {t} : First(u) \in {"none", "init", "join", "ended"}
  <2>1. Writing(t)
    BY <1>2, Busies
  <2> QED
    BY <1>1, <2>1, NobodyElse
<1> HIDE DEF n
<1>11. StepsOK'
  <2>1. \A u \in Threads : /\ First(u)' \in {"number", "event"} =>
                                u # t /\ First(u) \in {"number", "event"} /\ held'[u] = held[u]
                           /\ Carrying(u)' => u # t /\ Carrying(u) /\ held'[u] = held[u]
                                              /\ First(u) \in {"number", "event", "block"}
    BY <1>3, <1>4, <1>7 DEF Carrying
  <2>2. Carrying(t)
    BY <1>3 DEF Carrying
  <2>3. \A u \in Threads : Carrying(u)' => held'[u].step \in 1..step'
    BY <1>1, <1>2, <2>1 DEF StepsOK
  <2>4. \A u, v \in Threads : u # v /\ Carrying(u)' /\ Carrying(v)' => held'[u].step # held'[v].step
    BY <1>1, <2>1 DEF StepsOK
  <2>5. \A i \in 1..n : /\ blocks[i].step \in 1..step
                        /\ \A u \in Threads : Carrying(u) =>
                             /\ blocks[i].step # held[u].step
                             /\ ~overlapped => blocks[i].step < held[u].step
    BY <1>1 DEF StepsOK, n
  <2>6. \A i \in 1..(n + 1) : /\ blocks'[i].step \in 1..step'
                              /\ \A u \in Threads : Carrying(u)' =>
                                   /\ blocks'[i].step # held'[u].step
                                   /\ ~overlapped' => blocks'[i].step < held'[u].step
    <3>1. ASSUME NEW i \in 1..n
          PROVE  /\ blocks'[i].step \in 1..step'
                 /\ \A u \in Threads : Carrying(u)' =>
                      /\ blocks'[i].step # held'[u].step
                      /\ ~overlapped' => blocks'[i].step < held'[u].step
      BY <1>2, <1>8, <2>1, <2>5
    <3>2. blocks'[n + 1].step = held[t].step /\ held[t].step \in 1..step
      BY <1>1, <1>6, <1>8, <2>2 DEF StepsOK
    <3>3. ASSUME NEW u \in Threads, Carrying(u)'
          PROVE  held[t].step # held'[u].step /\ overlapped
      <4>1. /\ u # t /\ Carrying(u) /\ First(u) \in {"number", "event", "block"}
            /\ held'[u].step = held[u].step
        BY <2>1, <3>3
      <4>2. overlapped
        BY <1>c, <4>1
      <4>3. held[t].step # held[u].step
        BY <1>1, <2>2, <4>1 DEF StepsOK
      <4> QED
        BY <4>1, <4>2, <4>3
    <3> QED
      BY <1>2, <1>8, <3>1, <3>2, <3>3
  <2>7. \A i \in 1..Len(events') : /\ events'[i].step \in 1..step'
                                   /\ \A u \in Threads : First(u)' \in {"number", "event"} =>
                                        /\ events'[i].step # held'[u].step
                                        /\ ~overlapped' => events'[i].step < held'[u].step
    BY <1>1, <1>2, <2>1 DEF StepsOK
  <2>8. \A i, j \in 1..(n + 1) : i < j => /\ blocks'[i].step # blocks'[j].step
                                          /\ ~overlapped' => blocks'[i].step < blocks'[j].step
    <3> SUFFICES ASSUME NEW i \in 1..(n + 1), NEW j \in 1..(n + 1), i < j
                 PROVE  /\ blocks'[i].step # blocks'[j].step
                        /\ ~overlapped' => blocks'[i].step < blocks'[j].step
      OBVIOUS
    <3>1. i \in 1..n
      BY <1>8, <1>b
    <3>2. CASE j \in 1..n
      BY <1>1, <1>2, <1>8, <3>1, <3>2 DEF StepsOK, n
    <3>3. CASE j = n + 1
      <4>1. blocks[i].step # held[t].step /\ (~overlapped => blocks[i].step < held[t].step)
        BY <2>2, <2>5, <3>1
      <4> QED
        BY <1>2, <1>6, <1>8, <3>1, <3>3, <4>1
    <3> QED
      BY <1>8, <3>2, <3>3
  <2>9. \A i, j \in 1..Len(events') : i < j => /\ events'[i].step # events'[j].step
                                               /\ ~overlapped' => events'[i].step < events'[j].step
    BY <1>1, <1>2 DEF StepsOK
  <2> QED
    BY <1>8, <2>3, <2>4, <2>6, <2>7, <2>8, <2>9 DEF StepsOK
<1>12. SeqsOK'
  <2>1. \A u \in Threads : held'[u].seq = held[u].seq
    BY <1>7
  <2>2. First(t)' \notin {"number", "event"} /\ First(t) # "event"
    BY <1>3, <1>4
  <2> QED
    BY <1>1, <1>2, <1>3, <2>1, <2>2, SeqsStay
<1> QED
  BY <1>9, <1>10, <1>11, <1>12 DEF Inv

-----------------------------------------------------------------------------
(* Logging, closing and the transport                                      *)

(* What can be queued. *)
LEMMA ItemsAre ==
    ASSUME NEW r \in Items
    PROVE  /\ r \in Rec /\ r # SessionStartRecord /\ r # FallbackRecord
           /\ r[2] \in Nat /\ (r \in Calls <=> r[2] > 0)
<1>1. r \in Rec
  BY DEF Items, Rec
<1>2. r # SessionStartRecord /\ r # FallbackRecord
  BY Records, RecordNumbers, <1>1 DEF Items
<1> QED
  BY <1>1, <1>2, RecordNumbers

(* The program for an item. *)
LEMMA OneProgram ==
    ASSUME NEW r \in Items \ {Stop}
    PROVE  LET q == Program(r)
           IN  /\ Shaped(q) /\ q # <<>> /\ FirstOf(q) = "init"
               /\ \A x \in AheadOf(q) : x[2] = r
               /\ \A do \in Dos : do # "init" /\ do \in ToSet(Steps(r[1])) => <<do, r>> \in AheadOf(q)
               /\ r \in Calls \cup {SessionEndRecord} /\ r[1] # "snapshot" =>
                    q[Len(q)][1] \in {"block", "footer"}
<1> DEFINE q == Program(r)
<1>1. r \in Rec \ {Stop} /\ r # SessionStartRecord /\ r # FallbackRecord
  BY ItemsAre
<1>2. /\ Shaped(q) /\ q # <<>>
      /\ \A i \in 1..Len(q) : q[i] = <<Steps(r[1])[i], r>>
      /\ r # SessionStartRecord => q[1] = <<"init", r>>
      /\ \A do \in Dos : do \in ToSet(Steps(r[1])) <=> \E i \in 1..Len(q) : q[i] = <<do, r>>
      /\ r[1] # "snapshot" /\ r # Manifest /\ r # FallbackRecord =>
           q[Len(q)][1] \in {"block", "footer"}
  BY <1>1, ProgramOf
<1> HIDE DEF q
<1>3. FirstOf(q) = "init"
  BY <1>1, <1>2 DEF FirstOf
<1>4. \A x \in AheadOf(q) : x[2] = r
  BY <1>2 DEF AheadOf
<1>5. ASSUME NEW do \in Dos, do # "init", do \in ToSet(Steps(r[1])) PROVE <<do, r>> \in AheadOf(q)
  <2>1. PICK i \in 1..Len(q) : q[i] = <<do, r>>
    BY <1>2, <1>5
  <2>2. q[i][1] # "init"
    BY <1>5, <2>1
  <2> QED
    BY <2>1, <2>2 DEF AheadOf
<1>6. r \in Calls \cup {SessionEndRecord} => r # Manifest
  BY Records, RecordNumbers, <1>1
<1> QED
  BY <1>1, <1>2, <1>3, <1>4, <1>5, <1>6 DEF q

(* The program for an item and the manifest. *)
LEMMA TwoPrograms ==
    ASSUME NEW r \in Calls \cup {SessionEndRecord}, r[1] # "snapshot"
    PROVE  LET q == Program(r) \o Program(Manifest)
           IN  /\ Shaped(q) /\ FirstOf(q) = "init"
               /\ \A x \in AheadOf(q) : x[2] \in {r, Manifest}
               /\ \A do \in Dos : do # "init" /\ do \in ToSet(Steps(r[1])) => <<do, r>> \in AheadOf(q)
               /\ <<"manifest", Manifest>> \in AheadOf(q)
<1> DEFINE p == Program(r)
           q == p \o Program(Manifest)
<1>1. r \in Items \ {Stop}
  BY Records, RecordNumbers DEF Items, Rec
<1>2. /\ Shaped(p) /\ p # <<>> /\ FirstOf(p) = "init"
      /\ \A x \in AheadOf(p) : x[2] = r
      /\ \A do \in Dos : do # "init" /\ do \in ToSet(Steps(r[1])) => <<do, r>> \in AheadOf(p)
      /\ p[Len(p)][1] \in {"block", "footer"}
  BY <1>1, OneProgram
<1>3. /\ Shaped(q) /\ Len(q) = Len(p) + 2 /\ q # <<>>
      /\ \A i \in 1..Len(p) : q[i] = p[i]
      /\ q[Len(p) + 1] = <<"init", Manifest>> /\ q[Len(p) + 2] = <<"manifest", Manifest>>
  BY <1>2, Both2
<1>4. p \in Seq(Dos \X Rec) /\ Len(p) \in Nat /\ Len(p) # 0
  <2>1. p \in Seq(Dos \X Rec) /\ Len(p) \in Nat
    BY <1>2, Programs
  <2> QED
    BY <1>2, <2>1, EmptySeq
<1> HIDE DEF q, p
<1>5. \A i \in 1..Len(q) : i \in 1..Len(p) \/ i = Len(p) + 1 \/ i = Len(p) + 2
  BY <1>3, <1>4
<1>6. FirstOf(q) = "init"
  <2>1. q[1] = p[1]
    BY <1>3, <1>4
  <2> QED
    BY <1>2, <1>3, <2>1 DEF FirstOf
<1>7. ASSUME NEW x \in AheadOf(q) PROVE x[2] \in {r, Manifest}
  <2>1. PICK i \in 1..Len(q) : x = q[i] /\ q[i][1] # "init"
    BY <1>7 DEF AheadOf
  <2>2. CASE i \in 1..Len(p)
    <3>1. x \in AheadOf(p)
      BY <1>3, <2>1, <2>2 DEF AheadOf
    <3> QED
      BY <1>2, <3>1
  <2>3. CASE i \notin 1..Len(p)
    BY <1>3, <1>5, <2>1, <2>3
  <2> QED
    BY <2>2, <2>3
<1>8. AheadOf(p) \subseteq AheadOf(q)
  <2>1. \A i \in 1..Len(p) : i \in 1..Len(q) /\ q[i] = p[i]
    BY <1>3, <1>4
  <2> QED
    BY <2>1 DEF AheadOf
<1>9. <<"manifest", Manifest>> \in AheadOf(q)
  <2>1. Len(p) + 2 \in 1..Len(q) /\ q[Len(p) + 2][1] # "init"
    BY <1>3, <1>4
  <2> QED
    BY <1>3, <2>1 DEF AheadOf
<1> QED
  BY <1>2, <1>3, <1>6, <1>7, <1>8, <1>9 DEF q, p

(* A queue that grows keeps what is in it. *)
Grown(more) ==
  /\ queue' \in Seq(Items) /\ Len(queue) \in Nat /\ Len(queue') = Len(queue) + Len(more)
  /\ \A i \in 1..Len(queue) : queue'[i] = queue[i]
  /\ \A i \in 1..Len(more) : queue'[Len(queue) + i] = more[i]
  /\ \A i \in 1..Len(queue') : i \in 1..Len(queue) \/ (i - Len(queue) \in 1..Len(more)
                                                       /\ queue'[i] = more[i - Len(queue)])

(* It does. *)
LEMMA Grows ==
    ASSUME queue \in Seq(Items), NEW more \in Seq(Items), queue' = queue \o more
    PROVE  Grown(more)
<1>1. /\ queue \o more \in Seq(Items) /\ Len(queue \o more) = Len(queue) + Len(more)
      /\ \A i \in 1..Len(queue) : (queue \o more)[i] = queue[i]
      /\ \A i \in 1..Len(more) : (queue \o more)[Len(queue) + i] = more[i]
  BY Concatenated
<1>2. Len(queue) \in Nat /\ Len(more) \in Nat
  OBVIOUS
<1>3. ASSUME NEW i \in 1..Len(queue'), i \notin 1..Len(queue)
      PROVE  i - Len(queue) \in 1..Len(more) /\ queue'[i] = more[i - Len(queue)]
  <2>1. i - Len(queue) \in 1..Len(more) /\ Len(queue) + (i - Len(queue)) = i
    BY <1>1, <1>2, <1>3
  <2>2. (queue \o more)[Len(queue) + (i - Len(queue))] = more[i - Len(queue)]
    BY <1>1, <2>1
  <2> QED
    BY <2>1, <2>2
<1> QED
  BY <1>1, <1>2, <1>3 DEF Grown

(* A thread that was idle takes up or queues what is in S. *)
Adds(t, S) ==
  /\ Alone(t) /\ Ahead(t) = {} /\ First(t) # "event"
  /\ First(t)' \in {"none", "init", "join"} /\ \A x \in Ahead(t)' : x[2] \in S
  /\ Len(queue) \in Nat /\ Len(queue') \in Nat /\ Len(queue) <= Len(queue')
  /\ \A i \in 1..Len(queue) : queue'[i] = queue[i]
  /\ \A i \in 1..Len(queue') : \/ i \in 1..Len(queue)
                               \/ queue'[i] \in S /\ (i = Len(queue) + 1 \/ queue'[i][2] = 0)
  /\ (\A x \in Ahead(t)' : x[2][2] = 0) \/ queue' = queue
  /\ ~overlapped' => /\ ~overlapped
                     /\ \A u, v \in Threads : u # v => ~(Writing(u)' /\ Writing(v)')
                     /\ (\A x \in Ahead(t)' : x[2][2] = 0) \/ queue' = <<>>

(* What was in the queue and ahead of threads still is. *)
LEMMA Lasts ==
    ASSUME NEW t \in Threads, NEW S, Adds(t, S)
    PROVE  /\ \A r : Queued(r) => Queued(r)'
           /\ \A r : InTurn(r) => InTurn(r)'
           /\ \A x : Coming(x) => Coming(x)'
           /\ \A r : Queued(r)' => Queued(r) \/ r \in S
           /\ \A u \in Threads : \A x \in Ahead(u)' : x \in Ahead(u) \/ (u = t /\ x[2] \in S)
           /\ \A u \in Threads : First(u)' \in {"number", "event", "block"} => First(u)' = First(u)
           /\ \A u \in Threads \ {t} : Ahead(u)' = Ahead(u) /\ First(u)' = First(u)
<1>1. \A u \in Threads \ {t} : Ahead(u)' = Ahead(u) /\ First(u)' = First(u)
  BY OthersStay DEF Adds
<1>2. /\ Len(queue) \in Nat /\ Len(queue') \in Nat /\ Len(queue) <= Len(queue')
      /\ \A i \in 1..Len(queue) : queue'[i] = queue[i]
  BY DEF Adds
<1>3. \A i \in 1..Len(queue) : i \in 1..Len(queue')
  BY <1>2
<1>4. \A r : Queued(r) => Queued(r)'
  BY <1>2, <1>3 DEF Queued
<1>5. ASSUME NEW r, InTurn(r) PROVE InTurn(r)'
  <2>1. PICK i \in 1..Len(queue) : queue[i] = r /\ \A j \in 1..(i - 1) : queue[j] # Stop
    BY <1>5 DEF InTurn
  <2>2. \A j \in 1..(i - 1) : j \in 1..Len(queue)
    BY <1>2, <2>1
  <2>3. queue'[i] = r /\ \A j \in 1..(i - 1) : queue'[j] # Stop
    BY <1>2, <2>1, <2>2
  <2> QED
    BY <1>3, <2>1, <2>3 DEF InTurn
<1>6. ASSUME NEW x, Coming(x) PROVE Coming(x)'
  <2>1. PICK u \in Threads : x \in Ahead(u)
    BY <1>6 DEF Coming
  <2>2. Ahead(t) = {}
    BY DEF Adds
  <2>3. x \in Ahead(u)'
    BY <1>1, <2>1, <2>2
  <2> QED
    BY <2>3 DEF Coming
<1>7. \A r : Queued(r)' => Queued(r) \/ r \in S
  BY <1>2 DEF Queued, Adds
<1>8. \A u \in Threads : \A x \in Ahead(u)' : x \in Ahead(u) \/ (u = t /\ x[2] \in S)
  BY <1>1 DEF Adds
<1>9. \A u \in Threads : First(u)' \in {"number", "event", "block"} => First(u)' = First(u)
  BY <1>1 DEF Adds
<1> QED
  BY <1>1, <1>4, <1>5, <1>6, <1>7, <1>8, <1>9

(* A number nobody has. *)
Newest(S) ==
  /\ records' \in {records, records + 1}
  /\ \A y \in S : y[2] \in Nat /\ (y[2] = 0 \/ (y[2] = records + 1 /\ records' = records + 1))

(* Each record stays in one place. *)
LEMMA RecordsAdded ==
    ASSUME VariablesOK, RecordsOK, NEW t \in Threads, NEW S, Adds(t, S), Newest(S),
           UNCHANGED <<events, blocks>>
    PROVE  RecordsOK'
<1>1. records \in Nat /\ records' \in Nat /\ records <= records' /\ queue \in Seq(Items)
  BY DEF VariablesOK, Newest
<1>2. /\ Len(queue) \in Nat /\ Len(queue') \in Nat /\ Len(queue) <= Len(queue')
      /\ \A i \in 1..Len(queue) : queue'[i] = queue[i]
      /\ \A i \in 1..Len(queue') : \/ i \in 1..Len(queue)
                                   \/ queue'[i] \in S /\ (i = Len(queue) + 1 \/ queue'[i][2] = 0)
      /\ (\A x \in Ahead(t)' : x[2][2] = 0) \/ queue' = queue
      /\ Ahead(t) = {} /\ \A x \in Ahead(t)' : x[2] \in S
  BY DEF Adds
<1>3. \A u \in Threads \ {t} : Ahead(u)' = Ahead(u)
  BY Lasts
<1>4. /\ \A i \in 1..Len(queue) : queue[i][2] \in Nat /\ queue[i][2] <= records
      /\ \A u \in Threads : \A x \in Ahead(u) : x[2][2] \in Nat /\ x[2][2] <= records
  <2>1. \A i \in 1..Len(queue) : queue[i] \in Items
    BY <1>1
  <2>2. \A u \in Threads : \A x \in Ahead(u) : x[2] \in Rec
    BY AheadFits
  <2>3. /\ \A i \in 1..Len(queue) : queue[i][2] \in Nat
        /\ \A u \in Threads : \A x \in Ahead(u) : x[2][2] \in Nat
    BY <2>1, <2>2, ItemsAre, RecordNumbers
  <2> QED
    BY <2>3 DEF RecordsOK
<1>5. /\ \A i \in 1..Len(queue') : /\ queue'[i][2] \in Nat /\ queue'[i][2] <= records'
                                   /\ i \notin 1..Len(queue) /\ queue'[i][2] > 0 =>
                                        i = Len(queue) + 1 /\ queue'[i][2] > records
      /\ \A x \in Ahead(t)' : /\ x[2][2] \in Nat /\ x[2][2] <= records'
                              /\ x[2][2] > 0 => x[2][2] > records /\ queue' = queue
  BY <1>1, <1>2, <1>4 DEF Newest
<1>6. \A i, j \in 1..Len(queue') : i < j /\ queue'[i][2] > 0 /\ queue'[j][2] > 0 =>
                                     queue'[i][2] < queue'[j][2]
  <2> SUFFICES ASSUME NEW i \in 1..Len(queue'), NEW j \in 1..Len(queue'), i < j,
                      queue'[i][2] > 0, queue'[j][2] > 0
               PROVE  queue'[i][2] < queue'[j][2]
    OBVIOUS
  <2>1. CASE j \in 1..Len(queue)
    <3>1. i \in 1..Len(queue)
      BY <1>2, <2>1
    <3> QED
      BY <1>2, <2>1, <3>1 DEF RecordsOK
  <2>2. CASE j \notin 1..Len(queue)
    <3>1. j = Len(queue) + 1 /\ queue'[j][2] > records
      BY <1>5, <2>2
    <3>2. i \in 1..Len(queue)
      BY <1>2, <3>1
    <3>3. queue'[i][2] \in Nat /\ queue'[i][2] <= records /\ queue'[j][2] \in Nat
      BY <1>2, <1>4, <1>5, <3>2
    <3> QED
      BY <1>1, <3>1, <3>3
  <2> QED
    BY <2>1, <2>2
<1>7. ASSUME NEW u \in Threads, NEW x \in Ahead(u)'
      PROVE  /\ x[2][2] <= records'
             /\ x[2][2] > 0 => /\ \A i \in 1..Len(queue') : queue'[i][2] # x[2][2]
                               /\ \A v \in Threads : v # u => \A y \in Ahead(v)' : y[2][2] # x[2][2]
  <2>1. CASE u = t
    <3>1. x[2][2] \in Nat /\ x[2][2] <= records' /\ (x[2][2] > 0 => x[2][2] > records /\ queue' = queue)
      BY <1>5, <1>7, <2>1
    <3>2. ASSUME x[2][2] > 0, NEW i \in 1..Len(queue') PROVE queue'[i][2] # x[2][2]
      BY <1>1, <1>4, <3>1, <3>2
    <3>3. ASSUME x[2][2] > 0, NEW v \in Threads, v # u, NEW y \in Ahead(v)' PROVE y[2][2] # x[2][2]
      <4>1. y \in Ahead(v)
        BY <1>3, <2>1, <3>3
      <4>2. y[2][2] \in Nat /\ y[2][2] <= records
        BY <1>4, <4>1
      <4> QED
        BY <1>1, <3>1, <3>3, <4>2
    <3> QED
      BY <3>1, <3>2, <3>3
  <2>2. CASE u # t
    <3>1. x \in Ahead(u)
      BY <1>3, <1>7, <2>2
    <3>2. x[2][2] \in Nat /\ x[2][2] <= records
      BY <1>4, <3>1
    <3>3. ASSUME x[2][2] > 0, NEW i \in 1..Len(queue') PROVE queue'[i][2] # x[2][2]
      <4>1. CASE i \in 1..Len(queue)
        BY <1>2, <3>1, <3>3, <4>1 DEF RecordsOK
      <4>2. CASE i \notin 1..Len(queue)
        <5>1. queue'[i][2] \in Nat /\ (queue'[i][2] > 0 => queue'[i][2] > records)
          BY <1>5, <4>2
        <5> QED
          BY <1>1, <3>2, <3>3, <5>1
      <4> QED
        BY <4>1, <4>2
    <3>4. ASSUME x[2][2] > 0, NEW v \in Threads, v # u, NEW y \in Ahead(v)' PROVE y[2][2] # x[2][2]
      <4>1. CASE v = t
        <5>1. y[2][2] \in Nat /\ (y[2][2] > 0 => y[2][2] > records)
          BY <1>5, <3>4, <4>1
        <5> QED
          BY <1>1, <3>2, <3>4, <5>1
      <4>2. CASE v # t
        <5>1. y \in Ahead(v)
          BY <1>3, <3>4, <4>2
        <5> QED
          BY <3>1, <3>4, <5>1 DEF RecordsOK
      <4> QED
        BY <4>1, <4>2
    <3> QED
      BY <1>1, <3>2, <3>3, <3>4
  <2> QED
    BY <2>1, <2>2
<1>8. ASSUME NEW file, NEW do, Elsewhere(file, do), NEW i \in 1..Len(file)
      PROVE  /\ file[i].rec[2] <= records
             /\ file[i].rec[2] > 0 =>
                  /\ \A j \in 1..Len(queue) : queue[j][2] # file[i].rec[2]
                  /\ \A u \in Threads : \A x \in Ahead(u) : x[1] = do => x[2][2] # file[i].rec[2]
                  /\ \A j \in 1..Len(file) : file[j].rec[2] = file[i].rec[2] => i = j
  BY <1>8 DEF Elsewhere
<1>9. ASSUME NEW file, NEW do, Elsewhere(file, do),
             \A i \in 1..Len(file) : file[i].rec \in Rec, NEW i \in 1..Len(file)
      PROVE  /\ file[i].rec[2] <= records'
             /\ file[i].rec[2] > 0 =>
                  /\ \A j \in 1..Len(queue') : queue'[j][2] # file[i].rec[2]
                  /\ \A u \in Threads : \A x \in Ahead(u)' : x[1] = do => x[2][2] # file[i].rec[2]
                  /\ \A j \in 1..Len(file) : file[j].rec[2] = file[i].rec[2] => i = j
  <2>1. file[i].rec[2] \in Nat /\ file[i].rec[2] <= records
    BY <1>8, <1>9, RecordNumbers
  <2>2. ASSUME file[i].rec[2] > 0, NEW j \in 1..Len(queue') PROVE queue'[j][2] # file[i].rec[2]
    <3>1. CASE j \in 1..Len(queue)
      BY <1>2, <1>8, <1>9, <2>2, <3>1
    <3>2. CASE j \notin 1..Len(queue)
      <4>1. queue'[j][2] \in Nat /\ (queue'[j][2] > 0 => queue'[j][2] > records)
        BY <1>5, <3>2
      <4> QED
        BY <1>1, <2>1, <2>2, <4>1
    <3> QED
      BY <3>1, <3>2
  <2>3. ASSUME file[i].rec[2] > 0, NEW u \in Threads, NEW x \in Ahead(u)', x[1] = do
        PROVE  x[2][2] # file[i].rec[2]
    <3>1. CASE u = t
      <4>1. x[2][2] \in Nat /\ (x[2][2] > 0 => x[2][2] > records)
        BY <1>5, <2>3, <3>1
      <4> QED
        BY <1>1, <2>1, <2>3, <4>1
    <3>2. CASE u # t
      <4>1. x \in Ahead(u)
        BY <1>3, <2>3, <3>2
      <4> QED
        BY <1>8, <1>9, <2>3, <4>1
    <3> QED
      BY <3>1, <3>2
  <2> QED
    BY <1>1, <1>8, <1>9, <2>1, <2>2, <2>3
<1>10. /\ \A i \in 1..Len(events) : events[i].rec \in Rec
       /\ \A i \in 1..Len(blocks) : blocks[i].rec \in Rec
  <2>1. events \in Seq(EventType) /\ blocks \in Seq(BlockType)
    BY DEF VariablesOK
  <2>2. /\ \A i \in 1..Len(events) : events[i] \in EventType
        /\ \A i \in 1..Len(blocks) : blocks[i] \in BlockType
    BY <2>1
  <2> QED
    BY <2>2 DEF EventType, BlockType
<1>11. Elsewhere(events, "event") /\ Elsewhere(blocks, "block")
  BY DEF RecordsOK
<1>12. Elsewhere(events, "event")'
  <2>1. ASSUME NEW i \in 1..Len(events)
        PROVE  /\ events[i].rec[2] <= records'
               /\ events[i].rec[2] > 0 =>
                    /\ \A j \in 1..Len(queue') : queue'[j][2] # events[i].rec[2]
                    /\ \A u \in Threads : \A x \in Ahead(u)' : x[1] = "event" =>
                         x[2][2] # events[i].rec[2]
                    /\ \A j \in 1..Len(events) : events[j].rec[2] = events[i].rec[2] => i = j
    BY <1>9, <1>10, <1>11
  <2> QED
    BY <2>1 DEF Elsewhere
<1>13. Elsewhere(blocks, "block")'
  <2>1. ASSUME NEW i \in 1..Len(blocks)
        PROVE  /\ blocks[i].rec[2] <= records'
               /\ blocks[i].rec[2] > 0 =>
                    /\ \A j \in 1..Len(queue') : queue'[j][2] # blocks[i].rec[2]
                    /\ \A u \in Threads : \A x \in Ahead(u)' : x[1] = "block" =>
                         x[2][2] # blocks[i].rec[2]
                    /\ \A j \in 1..Len(blocks) : blocks[j].rec[2] = blocks[i].rec[2] => i = j
    BY <1>9, <1>10, <1>11
  <2> QED
    BY <2>1 DEF Elsewhere
<1> QED
  BY <1>5, <1>6, <1>7, <1>12, <1>13 DEF RecordsOK

(* What is added comes after all there is. *)
LEMMA OrderAdded ==
    ASSUME VariablesOK, RecordsOK, OrderOK, NEW t \in Threads, NEW S, Adds(t, S), Newest(S),
           UNCHANGED <<events, blocks>>
    PROVE  OrderOK'
<1> SUFFICES ASSUME ~overlapped'
             PROVE  /\ \A u, v \in Threads : u # v => ~(Writing(u)' /\ Writing(v)')
                    /\ \A u \in Threads : \A x \in Ahead(u)' : \A j \in 1..Len(queue') :
                         x[2][2] > 0 /\ queue'[j][2] > 0 => x[2][2] < queue'[j][2]
                    /\ Before(events, "event")' /\ Before(blocks, "block")'
  BY DEF OrderOK
<1>1. /\ ~overlapped
      /\ \A u, v \in Threads : u # v => ~(Writing(u)' /\ Writing(v)')
      /\ (\A x \in Ahead(t)' : x[2][2] = 0) \/ queue' = <<>>
  BY DEF Adds
<1>2. records \in Nat /\ queue \in Seq(Items)
  BY DEF VariablesOK
<1>3. \A u \in Threads \ {t} : Ahead(u)' = Ahead(u)
  BY Lasts
<1>4. /\ Len(queue) \in Nat /\ Len(queue') \in Nat
      /\ \A i \in 1..Len(queue) : queue'[i] = queue[i]
      /\ \A i \in 1..Len(queue') : i \in 1..Len(queue) \/ queue'[i] \in S
      /\ \A x \in Ahead(t)' : x[2] \in S
  BY DEF Adds
<1>5. /\ \A i \in 1..Len(queue') : \/ i \in 1..Len(queue)
                                   \/ queue'[i][2] \in Nat /\ (queue'[i][2] > 0 => queue'[i][2] > records)
      /\ \A x \in Ahead(t)' : x[2][2] \in Nat /\ (x[2][2] > 0 => x[2][2] > records)
  BY <1>2, <1>4 DEF Newest
<1>6. \A u \in Threads : \A x \in Ahead(u) : x[2][2] \in Nat /\ x[2][2] <= records
  <2>1. \A u \in Threads : \A x \in Ahead(u) : x[2] \in Rec
    BY AheadFits
  <2>2. \A u \in Threads : \A x \in Ahead(u) : x[2][2] \in Nat
    BY <2>1, RecordNumbers
  <2> QED
    BY <2>2 DEF RecordsOK
<1>7. ASSUME NEW u \in Threads, NEW x \in Ahead(u)', NEW j \in 1..Len(queue'),
             x[2][2] > 0, queue'[j][2] > 0
      PROVE  x[2][2] < queue'[j][2]
  <2>1. CASE u = t
    <3>1. queue' = <<>> \/ x[2][2] = 0
      BY <1>1, <1>7, <2>1
    <3>2. CASE queue' = <<>>
      <4>1. Len(queue') = 0
        BY <3>2
      <4> QED
        BY <4>1
    <3>3. CASE x[2][2] = 0
      BY <1>7, <3>3
    <3> QED
      BY <3>1, <3>2, <3>3
  <2>2. CASE u # t
    <3>1. x \in Ahead(u)
      BY <1>3, <1>7, <2>2
    <3>2. CASE j \in 1..Len(queue)
      BY <1>1, <1>4, <1>7, <3>1, <3>2 DEF OrderOK
    <3>3. CASE j \notin 1..Len(queue)
      <4>1. queue'[j][2] \in Nat /\ queue'[j][2] > records
        BY <1>5, <1>7, <3>3
      <4>2. x[2][2] \in Nat /\ x[2][2] <= records
        BY <1>6, <3>1
      <4> QED
        BY <1>2, <4>1, <4>2
    <3> QED
      BY <3>2, <3>3
  <2> QED
    BY <2>1, <2>2
<1>8. ASSUME NEW file, NEW do, Before(file, do), NEW i \in 1..Len(file),
             file[i].rec[2] \in Nat, file[i].rec[2] <= records
      PROVE  /\ \A j \in 1..Len(queue') : queue'[j][2] > 0 => file[i].rec[2] < queue'[j][2]
             /\ \A u \in Threads : \A x \in Ahead(u)' :
                  x[1] = do /\ x[2][2] > 0 => file[i].rec[2] < x[2][2]
             /\ \A j \in 1..Len(file) :
                  i < j /\ file[i].rec[2] > 0 /\ file[j].rec[2] > 0 => file[i].rec[2] < file[j].rec[2]
  <2>1. /\ \A j \in 1..Len(queue) : queue[j][2] > 0 => file[i].rec[2] < queue[j][2]
        /\ \A u \in Threads : \A x \in Ahead(u) :
             x[1] = do /\ x[2][2] > 0 => file[i].rec[2] < x[2][2]
        /\ \A j \in 1..Len(file) :
             i < j /\ file[i].rec[2] > 0 /\ file[j].rec[2] > 0 => file[i].rec[2] < file[j].rec[2]
    BY <1>8 DEF Before
  <2>2. ASSUME NEW j \in 1..Len(queue'), queue'[j][2] > 0 PROVE file[i].rec[2] < queue'[j][2]
    <3>1. CASE j \in 1..Len(queue)
      BY <1>4, <2>1, <2>2, <3>1
    <3>2. CASE j \notin 1..Len(queue)
      <4>1. queue'[j][2] \in Nat /\ queue'[j][2] > records
        BY <1>5, <2>2, <3>2
      <4> QED
        BY <1>2, <1>8, <4>1
    <3> QED
      BY <3>1, <3>2
  <2>3. ASSUME NEW u \in Threads, NEW x \in Ahead(u)', x[1] = do, x[2][2] > 0
        PROVE  file[i].rec[2] < x[2][2]
    <3>1. CASE u = t
      <4>1. x[2][2] \in Nat /\ x[2][2] > records
        BY <1>5, <2>3, <3>1
      <4> QED
        BY <1>2, <1>8, <4>1
    <3>2. CASE u # t
      <4>1. x \in Ahead(u)
        BY <1>3, <2>3, <3>2
      <4> QED
        BY <2>1, <2>3, <4>1
    <3> QED
      BY <3>1, <3>2
  <2> QED
    BY <2>1, <2>2, <2>3
<1>9. /\ Before(events, "event") /\ Before(blocks, "block")
      /\ Elsewhere(events, "event") /\ Elsewhere(blocks, "block")
  BY <1>1 DEF OrderOK, RecordsOK
<1>10. /\ \A i \in 1..Len(events) : events[i].rec[2] \in Nat /\ events[i].rec[2] <= records
       /\ \A i \in 1..Len(blocks) : blocks[i].rec[2] \in Nat /\ blocks[i].rec[2] <= records
  <2>1. events \in Seq(EventType) /\ blocks \in Seq(BlockType)
    BY DEF VariablesOK
  <2>2. /\ \A i \in 1..Len(events) : events[i] \in EventType
        /\ \A i \in 1..Len(blocks) : blocks[i] \in BlockType
    BY <2>1
  <2>3. /\ \A i \in 1..Len(events) : events[i].rec \in Rec
        /\ \A i \in 1..Len(blocks) : blocks[i].rec \in Rec
    BY <2>2 DEF EventType, BlockType
  <2>4. /\ \A i \in 1..Len(events) : events[i].rec[2] \in Nat
        /\ \A i \in 1..Len(blocks) : blocks[i].rec[2] \in Nat
    BY <2>3, RecordNumbers
  <2> QED
    BY <1>9, <2>4 DEF Elsewhere
<1>11. Before(events, "event")'
  <2>1. ASSUME NEW i \in 1..Len(events)
        PROVE  /\ \A j \in 1..Len(queue') : queue'[j][2] > 0 => events[i].rec[2] < queue'[j][2]
               /\ \A u \in Threads : \A x \in Ahead(u)' :
                    x[1] = "event" /\ x[2][2] > 0 => events[i].rec[2] < x[2][2]
               /\ \A j \in 1..Len(events) :
                    i < j /\ events[i].rec[2] > 0 /\ events[j].rec[2] > 0 =>
                      events[i].rec[2] < events[j].rec[2]
    BY <1>8, <1>9, <1>10
  <2> QED
    BY <2>1 DEF Before
<1>12. Before(blocks, "block")'
  <2>1. ASSUME NEW i \in 1..Len(blocks)
        PROVE  /\ \A j \in 1..Len(queue') : queue'[j][2] > 0 => blocks[i].rec[2] < queue'[j][2]
               /\ \A u \in Threads : \A x \in Ahead(u)' :
                    x[1] = "block" /\ x[2][2] > 0 => blocks[i].rec[2] < x[2][2]
               /\ \A j \in 1..Len(blocks) :
                    i < j /\ blocks[i].rec[2] > 0 /\ blocks[j].rec[2] > 0 =>
                      blocks[i].rec[2] < blocks[j].rec[2]
    BY <1>8, <1>9, <1>10
  <2> QED
    BY <2>1 DEF Before
<1> QED
  BY <1>1, <1>7, <1>11, <1>12

(* Nothing is written by that, and nothing numbered. *)
LEMMA Added ==
    ASSUME Inv, NEW t \in Threads, NEW S, Adds(t, S), Newest(S), SessionStartRecord \notin S,
           UNCHANGED <<initialized, step, seq, events, blocks, held, failures>>
    PROVE  StepsOK' /\ SeqsOK' /\ RecordsOK' /\ OrderOK' /\ StartOK'
<1>1. VariablesOK /\ StepsOK /\ SeqsOK /\ RecordsOK /\ OrderOK /\ StartOK
  BY DEF Inv
<1>2. /\ \A u \in Threads : First(u)' \in {"number", "event", "block"} => First(u)' = First(u)
      /\ \A u \in Threads \ {t} : First(u)' = First(u)
  BY Lasts
<1>3. /\ Alone(t) /\ First(t) # "event" /\ First(t)' \in {"none", "init", "join"}
      /\ ~overlapped' => ~overlapped
      /\ Ahead(t) = {} /\ \A x \in Ahead(t)' : x[2] \in S
  BY DEF Adds
<1>4. StepsOK'
  <2>1. \A u \in Threads :
             /\ held'[u].step = held[u].step
             /\ First(u)' \in {"number", "event"} => First(u) \in {"number", "event"}
             /\ Carrying(u)' => Carrying(u)
    BY <1>2 DEF Carrying
  <2> QED
    BY <1>1, <1>3, <2>1, StepsStay
<1>5. SeqsOK'
  <2>1. \A u \in Threads : held'[u].seq = held[u].seq
    OBVIOUS
  <2>2. First(t)' \notin {"number", "event"} /\ (First(t) = "event" => failures' > 0)
        /\ (failures' = 0 => failures = 0)
    BY <1>3
  <2> QED
    BY <1>1, <1>2, <1>3, <2>1, <2>2, SeqsStay
<1>6. RecordsOK' /\ OrderOK'
  BY <1>1, RecordsAdded, OrderAdded
<1>7. StartOK'
  <2>1. \A do \in {"event", "block"} : <<do, SessionStartRecord>> \notin Ahead(t)'
    BY <1>3
  <2> QED
    BY <1>1, <1>3, <2>1, StartStay
<1> QED
  BY <1>4, <1>5, <1>6, <1>7

(* What a call of the logger leaves to be written. *)
LEMMA CallLogged ==
    ASSUME VariablesOK, OrderOK, EndOK, NEW name \in {"event", "exchange", "snapshot"},
           NEW tallied \in BOOLEAN, NEW refresh \in BOOLEAN, refresh => name # "snapshot",
           Log(name, tallied, refresh), NEW r, r = <<name, records + 1>>
    PROVE  /\ r \in Calls /\ Adds("agent", {r, Manifest}) /\ Newest({r, Manifest})
           /\ Shaped(program'["agent"]) /\ DOMAIN program' = Threads
           /\ queue' \in Seq(Items) /\ overlapped' \in BOOLEAN
           /\ \A do \in {"event", "block"} :
                do \in ToSet(Steps(name)) => Queued(r)' \/ Coming(<<do, r>>)'
           /\ refresh /\ ~closed => InTurn(Manifest)' \/ Coming(<<"manifest", Manifest>>)'
<1> DEFINE t == "agent"
           more == IF refresh THEN <<r, Manifest>> ELSE <<r>>
           q == IF refresh THEN Program(r) \o Program(Manifest) ELSE Program(r)
<1>1. /\ Idle(t) /\ ~overlapped /\ records' = records + 1
      /\ UNCHANGED initialized
      /\ Submit(t, r, refresh)
  BY DEF Log, Calm, Record, flags
<1>2. /\ records \in Nat /\ queue \in Seq(Items) /\ t \in Threads /\ initialized \in BOOLEAN
      /\ DOMAIN program = Threads /\ overlapped \in BOOLEAN /\ transport \in BOOLEAN
  <2>1. t \in Threads
    BY DEF Threads
  <2>2. records \in Nat
    BY DEF VariablesOK
  <2> QED
    BY <2>1, <2>2 DEF VariablesOK
<1>3. r \in Calls /\ r \in Items \ {Stop} /\ Manifest \in Items /\ r[1] = name /\ r[2] = records + 1
      /\ Manifest[2] = 0 /\ Manifest # Stop
  <2>1. r \in Calls /\ r[1] = name /\ r[2] = records + 1
    BY <1>2 DEF Calls
  <2>2. Manifest[2] = 0 /\ Stop[2] = 0 /\ Manifest # Stop
    BY Records
  <2>3. r # Stop
    BY <1>2, <2>1, <2>2
  <2> QED
    BY <2>1, <2>2, <2>3 DEF Items
<1>4. Newest({r, Manifest})
  BY <1>1, <1>2, <1>3 DEF Newest
<1>5. Ahead(t) = {} /\ First(t) \in {"none", "init"} /\ ~Writing(t)
  BY <1>1, <1>2, Nothing
<1>6. /\ transport => queue' = queue \o more /\ UNCHANGED <<program, overlapped>>
      /\ ~transport => Goes(t, q) /\ Meets(t) /\ UNCHANGED queue
  BY <1>1 DEF Submit
<1> HIDE DEF t, q
<1>7. CASE transport
  <2>1. more \in Seq(Items) /\ Len(more) \in {1, 2} /\ more[1] = r
        /\ (refresh => Len(more) = 2 /\ more[2] = Manifest)
        /\ (\A i \in 1..Len(more) : (more[i] = r /\ i = 1) \/ more[i] = Manifest)
    BY <1>3
  <2> HIDE DEF more
  <2>2. Grown(more)
    BY <1>2, <1>6, <1>7, <2>1, Grows
  <2>3. /\ queue' \in Seq(Items) /\ Len(queue) \in Nat /\ Len(queue') = Len(queue) + Len(more)
        /\ \A i \in 1..Len(queue) : queue'[i] = queue[i]
        /\ \A i \in 1..Len(more) : queue'[Len(queue) + i] = more[i]
        /\ \A i \in 1..Len(queue') : i \in 1..Len(queue) \/ (i - Len(queue) \in 1..Len(more)
                                                              /\ queue'[i] = more[i - Len(queue)])
    BY <2>2 DEF Grown
  <2>4. UNCHANGED program /\ UNCHANGED overlapped
    BY <1>6, <1>7
  <2>5. Alone(t) /\ Ahead(t)' = {} /\ First(t)' = First(t) /\ Shaped(program'[t])
        /\ DOMAIN program' = Threads
    <3>1. Alone(t)
      BY <2>4 DEF Alone
    <3>2. Ahead(t)' = {} /\ First(t)' = First(t)
      BY <1>5, <2>4 DEF Ahead, First
    <3>3. Shaped(program[t])
      BY <1>2 DEF VariablesOK
    <3> QED
      BY <1>2, <2>4, <3>1, <3>2, <3>3
  <2>6. \A u, v \in Threads : u # v => ~(Writing(u)' /\ Writing(v)')
    <3>1. Writing(t)' = Writing(t)
      BY <1>1, <2>4 DEF Writing, At, Idle, Task, Pending
    <3> QED
      BY <1>1, <1>2, <2>4, <2>5, <3>1, StillAlone
  <2>7. Adds(t, {r, Manifest})
    <3>1. \A i \in 1..Len(queue') : i \in 1..Len(queue) \/
             (queue'[i] \in {r, Manifest} /\ (i = Len(queue) + 1 \/ queue'[i][2] = 0))
      <4> SUFFICES ASSUME NEW i \in 1..Len(queue'), i \notin 1..Len(queue)
                   PROVE  queue'[i] \in {r, Manifest} /\ (i = Len(queue) + 1 \/ queue'[i][2] = 0)
        OBVIOUS
      <4>1. i - Len(queue) \in 1..Len(more) /\ queue'[i] = more[i - Len(queue)]
        BY <2>3
      <4>2. (queue'[i] = r /\ i - Len(queue) = 1) \/ queue'[i] = Manifest
        BY <2>1, <4>1
      <4>3. i \in Nat
        BY <2>1, <2>3
      <4> QED
        BY <1>3, <2>3, <4>2, <4>3
    <3>2. Len(queue') \in Nat /\ Len(queue) <= Len(queue')
      BY <2>1, <2>3
    <3> QED
      BY <1>1, <1>5, <2>3, <2>4, <2>5, <2>6, <3>1, <3>2 DEF Adds
  <2>8. Queued(r)'
    <3>1. Len(queue) + 1 \in 1..Len(queue') /\ 1 \in 1..Len(more)
      BY <2>1, <2>3
    <3>2. queue'[Len(queue) + 1] = r
      BY <2>1, <2>3, <3>1
    <3> QED
      BY <3>1, <3>2 DEF Queued
  <2>9. ASSUME refresh, ~closed PROVE InTurn(Manifest)'
    <3>1. Len(more) = 2 /\ more[2] = Manifest
      BY <2>1, <2>9
    <3>2. Len(queue) + 2 \in 1..Len(queue') /\ queue'[Len(queue) + 2] = Manifest
      BY <2>3, <3>1
    <3>3. ASSUME NEW j \in 1..(Len(queue) + 2 - 1) PROVE queue'[j] # Stop
      <4>1. j \in 1..Len(queue) \/ j = Len(queue) + 1
        BY <2>3
      <4>2. CASE j \in 1..Len(queue)
        <5>1. ~Queued(Stop)
          BY <2>9 DEF EndOK
        <5> QED
          BY <2>3, <4>2, <5>1 DEF Queued
      <4>3. CASE j = Len(queue) + 1
        BY <1>3, <2>1, <2>3, <4>3
      <4> QED
        BY <4>1, <4>2, <4>3
    <3> QED
      BY <3>2, <3>3 DEF InTurn
  <2> QED
    BY <1>2, <1>3, <1>4, <2>3, <2>4, <2>5, <2>7, <2>8, <2>9 DEF t
<1>8. CASE ~transport
  <2>1. /\ program'[t] = q /\ Alone(t) /\ DOMAIN program' = Threads /\ queue' = queue
        /\ overlapped' \in BOOLEAN
        /\ ~overlapped' => queue = <<>> /\ \A u \in Threads \ {t} : ~Writing(u)
    BY <1>2, <1>6, <1>8 DEF Goes, Alone, Meets
  <2>2. /\ Shaped(q) /\ FirstOf(q) = "init"
        /\ \A x \in AheadOf(q) : x[2] \in {r, Manifest}
        /\ \A do \in Dos : do # "init" /\ do \in ToSet(Steps(r[1])) => <<do, r>> \in AheadOf(q)
        /\ refresh => <<"manifest", Manifest>> \in AheadOf(q)
    <3>1. CASE refresh
      <4>1. q = Program(r) \o Program(Manifest)
        BY <3>1 DEF q
      <4>2. r \in Calls \cup {SessionEndRecord} /\ r[1] # "snapshot"
        BY <1>3, <3>1
      <4> QED
        BY <4>1, <4>2, TwoPrograms
    <3>2. CASE ~refresh
      <4>1. q = Program(r)
        BY <3>2 DEF q
      <4> QED
        BY <1>3, <3>2, <4>1, OneProgram
    <3> QED
      BY <3>1, <3>2
  <2>3. Ahead(t)' = AheadOf(q) /\ First(t)' = FirstOf(q)
    BY <2>1 DEF Ahead, First
  <2>4. ~overlapped' => \A u, v \in Threads : u # v => ~(Writing(u)' /\ Writing(v)')
    BY <1>1, <1>2, <2>1, MayBegin
  <2>5. Adds(t, {r, Manifest})
    <3>1. Len(queue) \in Nat
      BY <1>2
    <3> QED
      BY <1>1, <1>5, <2>1, <2>2, <2>3, <2>4, <3>1 DEF Adds
  <2>6. \A do \in {"event", "block"} : do \in ToSet(Steps(name)) => Coming(<<do, r>>)'
    <3> SUFFICES ASSUME NEW do \in {"event", "block"}, do \in ToSet(Steps(name))
                 PROVE  Coming(<<do, r>>)'
      OBVIOUS
    <3>1. do \in Dos /\ do # "init"
      BY DEF Dos
    <3>2. <<do, r>> \in Ahead(t)'
      BY <1>3, <2>2, <2>3, <3>1
    <3> QED
      BY <1>2, <3>2 DEF Coming
  <2>7. refresh => Coming(<<"manifest", Manifest>>)'
    BY <1>2, <2>2, <2>3 DEF Coming
  <2> QED
    BY <1>2, <1>3, <1>4, <2>1, <2>2, <2>5, <2>6, <2>7 DEF t
<1> QED
  BY <1>2, <1>7, <1>8

(* A call of the logger. *)
LEMMA LogInv ==
    ASSUME Inv, NEW name \in {"event", "exchange", "snapshot"}, NEW tallied \in BOOLEAN,
           NEW refresh \in BOOLEAN, tallied => refresh, refresh => name # "snapshot",
           Log(name, tallied, refresh)
    PROVE  Inv'
<1>1. /\ VariablesOK /\ StepsOK /\ SeqsOK /\ RecordsOK /\ OrderOK /\ StartOK /\ EndOK /\ KeptOK
  BY DEF Inv
<1>2. PICK r : r = <<name, records + 1>>
  OBVIOUS
<1> DEFINE t == "agent"
           S == {r, Manifest}
           new == [rec |-> r, counts |-> tallied]
<1>3. /\ r \in Calls /\ Adds(t, S) /\ Newest(S)
      /\ Shaped(program'[t]) /\ DOMAIN program' = Threads
      /\ queue' \in Seq(Items) /\ overlapped' \in BOOLEAN
      /\ \A do \in {"event", "block"} :
           do \in ToSet(Steps(name)) => Queued(r)' \/ Coming(<<do, r>>)'
      /\ refresh /\ ~closed => InTurn(Manifest)' \/ Coming(<<"manifest", Manifest>>)'
  BY <1>1, <1>2, CallLogged
<1>4. /\ records' = records + 1 /\ records < MaxRecords
      /\ counted' = IF tallied THEN counted + 1 ELSE counted
      /\ early' = IF closed THEN early ELSE early \cup {new}
      /\ UNCHANGED <<mode, closed, transport, status, failures, initialized, footer, step, seq,
                     events, blocks, manifest, held>>
  BY <1>2 DEF Log, Record, flags, files
<1>5. /\ t \in Threads /\ records \in Nat /\ r[1] = name /\ r[2] = records + 1 /\ r \in Rec
      /\ r \notin {SessionStartRecord, SessionEndRecord, Manifest, FallbackRecord, Stop}
      /\ closed \in BOOLEAN
  <2>1. t \in Threads
    BY DEF Threads
  <2>2. records \in Nat /\ closed \in BOOLEAN
    BY <1>1 DEF VariablesOK
  <2>3. r[1] = name /\ r[2] = records + 1 /\ r \in Rec
    BY <1>2, <1>3 DEF Rec
  <2> QED
    BY <1>3, <2>1, <2>2, <2>3, RecordNumbers
<1>6. /\ Manifest \notin {SessionStartRecord, SessionEndRecord, Stop} /\ Manifest[2] = 0
      /\ Manifest \notin Calls
  BY PlainRecords, Records DEF Plain
<1>7. /\ \A e \in early : e.rec \in Calls /\ e.rec[2] \in Nat /\ e.rec[2] <= records /\ e.rec \notin S
      /\ IsFiniteSet(early) /\ Cardinality(early) <= records /\ Cardinality(early) \in Nat
  <2>1. /\ \A e \in early : e.rec \in Calls /\ e.rec[2] <= records
        /\ IsFiniteSet(early) /\ Cardinality(early) <= records
    BY <1>1 DEF VariablesOK
  <2>2. \A e \in early : e.rec[2] \in Nat
    BY <2>1, RecordNumbers DEF Rec
  <2>3. \A e \in early : e.rec # r /\ e.rec # Manifest
    BY <1>5, <1>6, <2>1, <2>2
  <2>4. Cardinality(early) \in Nat
    BY <2>1, FS_CardinalityType
  <2> QED
    BY <2>1, <2>2, <2>3, <2>4
<1>8. /\ new.rec = r /\ new.counts = tallied
      /\ \A e \in early' : e \in early \/ (e = new /\ ~closed)
      /\ early \subseteq early'
  BY <1>4
<1>9. /\ IsFiniteSet(early') /\ Cardinality(early') \in Nat
      /\ Cardinality(early') <= Cardinality(early) + 1
      /\ closed => Cardinality(early') <= records
  <2>1. CASE closed
    BY <1>4, <1>7, <2>1
  <2>2. CASE ~closed
    <3>1. early' = early \cup {new}
      BY <1>4, <2>2
    <3>2. /\ IsFiniteSet(early \cup {new})
          /\ Cardinality(early \cup {new}) =
               IF new \in early THEN Cardinality(early) ELSE Cardinality(early) + 1
      BY <1>7, FS_AddElement
    <3> QED
      BY <1>7, <2>2, <3>1, <3>2
  <2> QED
    BY <2>1, <2>2
<1> HIDE DEF t, S, new
<1>10. /\ \A x : Queued(x) => Queued(x)'
       /\ \A x : InTurn(x) => InTurn(x)'
       /\ \A x : Coming(x) => Coming(x)'
       /\ \A x : Queued(x)' => Queued(x) \/ x \in S
       /\ \A u \in Threads : \A x \in Ahead(u)' : x \in Ahead(u) \/ (u = t /\ x[2] \in S)
  BY <1>3, <1>5, Lasts
<1>11. VariablesOK'
  <2>1. /\ mode' \in {"off", "sync", "async"} /\ transport' \in BOOLEAN
        /\ (transport' => mode' = "async")
        /\ initialized' \in BOOLEAN /\ closed' \in BOOLEAN /\ footer' \in BOOLEAN
        /\ status' \in {"open", "closed"}
        /\ failures' \in 0..MaxFailures /\ step' \in Nat /\ seq' \in Nat
        /\ events' \in Seq(EventType) /\ blocks' \in Seq(BlockType)
        /\ held' \in [Threads -> [step : Nat, seq : Nat]]
    BY <1>1, <1>4 DEF VariablesOK
  <2>2. records' \in 0..MaxRecords
    BY <1>4, <1>5, LogAssumption
  <2>3. counted' \in Nat /\ counted' <= records'
    <3>1. counted \in Nat /\ counted <= records
      BY <1>1 DEF VariablesOK
    <3> QED
      BY <1>4, <1>5, <3>1
  <2>4. \A u \in Threads : Shaped(program'[u])
    <3>1. \A u \in Threads \ {t} : program'[u] = program[u] /\ Shaped(program[u])
      BY <1>1, <1>3 DEF VariablesOK, Adds, Alone
    <3> QED
      BY <1>3, <3>1
  <2>5. \A e \in early' : e.rec \in Calls /\ e.rec[2] <= records'
    BY <1>3, <1>4, <1>5, <1>7, <1>8
  <2>6. Cardinality(early') <= records'
    BY <1>4, <1>5, <1>7, <1>9
  <2> QED
    BY <1>3, <1>9, <2>1, <2>2, <2>3, <2>4, <2>5, <2>6 DEF VariablesOK
<1>12. StepsOK' /\ SeqsOK' /\ RecordsOK' /\ OrderOK' /\ StartOK'
  <2>1. SessionStartRecord \notin S
    BY <1>5, <1>6 DEF S
  <2> QED
    BY <1>3, <1>4, <1>5, <2>1, Added
<1>13. EndOK'
  <2>1. \A x : Begun(x)' => Begun(x) \/ x \in S
    BY <1>4, <1>10 DEF Begun
  <2>2. SessionEndRecord \notin S /\ Stop \notin S
    BY <1>5, <1>6 DEF S
  <2>3. footer' => closed'
    BY <1>1, <1>4 DEF EndOK
  <2>4. ~closed' => \A x \in {SessionEndRecord, Stop} : ~Queued(x)' /\ ~Begun(x)'
    <3>1. ~closed => \A x \in {SessionEndRecord, Stop} : ~Queued(x) /\ ~Begun(x)
      BY <1>1 DEF EndOK
    <3> QED
      BY <1>4, <1>10, <2>1, <2>2, <3>1
  <2>5. closed => early' = early
    BY <1>4
  <2>6. ASSUME closed, NEW e \in early', Queued(e.rec)' PROVE e \in early /\ Queued(e.rec)
    <3>1. e \in early
      BY <2>5, <2>6
    <3> QED
      BY <1>7, <1>10, <2>6, <3>1
  <2>7. ASSUME NEW i \in 1..Len(queue'), NEW j \in 1..Len(queue'), i < j,
               queue'[i] \in {SessionEndRecord, Stop}, NEW e \in early'
        PROVE  queue'[j] # e.rec
    <3>1. \E x \in {SessionEndRecord, Stop} : Queued(x)'
      BY <2>7 DEF Queued
    <3>2. closed
      BY <1>4, <1>5, <2>4, <3>1
    <3>3. e \in early
      BY <2>5, <3>2
    <3>4. /\ \A k \in 1..Len(queue) : queue'[k] = queue[k]
          /\ \A k \in 1..Len(queue') : k \in 1..Len(queue) \/ queue'[k] \in S
          /\ Len(queue) \in Nat
      BY <1>3 DEF Adds
    <3>5. CASE j \in 1..Len(queue)
      <4>1. i \in 1..Len(queue)
        BY <2>7, <3>4, <3>5
      <4>2. queue'[i] = queue[i] /\ queue'[j] = queue[j]
        BY <3>4, <3>5, <4>1
      <4>3. queue[j] # e.rec
        BY <1>1, <2>7, <3>3, <3>5, <4>1, <4>2 DEF EndOK
      <4> QED
        BY <4>2, <4>3
    <3>6. CASE j \notin 1..Len(queue)
      BY <1>7, <3>3, <3>4, <3>6
    <3> QED
      BY <3>5, <3>6
  <2>8. ASSUME <<"ended", Stop>> \in Ahead("writer")', NEW e \in early' PROVE ~Queued(e.rec)'
    <3>1. "writer" \in Threads /\ <<"ended", Stop>>[2] = Stop
      BY DEF Threads
    <3>2. <<"ended", Stop>> \in Ahead("writer")
      BY <1>10, <2>2, <2>8, <3>1
    <3>3. Begun(Stop)
      BY <3>1, <3>2 DEF Begun
    <3>4. closed
      BY <1>1, <3>3 DEF EndOK
    <3>5. \A d \in early : ~Queued(d.rec)
      BY <1>1, <3>2 DEF EndOK
    <3> QED
      BY <2>6, <3>4, <3>5
  <2>9. ASSUME ~overlapped', Begun(SessionEndRecord)', NEW e \in early'
        PROVE  ~Queued(e.rec)' /\ \A u \in Threads : \A x \in Ahead(u)' : x[2] # e.rec
    <3>1. Begun(SessionEndRecord) /\ ~overlapped
      BY <1>3, <2>1, <2>2, <2>9 DEF Adds
    <3>2. closed
      BY <1>1, <3>1 DEF EndOK
    <3>3. e \in early
      BY <2>5, <3>2
    <3>4. ~Queued(e.rec) /\ \A u \in Threads : \A x \in Ahead(u) : x[2] # e.rec
      BY <1>1, <3>1, <3>3 DEF EndOK
    <3> QED
      BY <1>7, <1>10, <2>6, <3>2, <3>3, <3>4
  <2>10. EndsFile(events)' /\ EndsFile(blocks)'
    <3>1. Elsewhere(events, "event") /\ Elsewhere(blocks, "block")
      BY <1>1 DEF RecordsOK
    <3>2. /\ \A i \in 1..Len(events) : events[i].rec[2] <= records
          /\ \A i \in 1..Len(blocks) : blocks[i].rec[2] <= records
      BY <3>1 DEF Elsewhere
    <3>3. /\ \A i \in 1..Len(events) : events[i].rec # r
          /\ \A i \in 1..Len(blocks) : blocks[i].rec # r
      BY <1>5, <3>2, SMTT(30)
    <3>4. /\ \A e \in early' : e \in early \/ \A i \in 1..Len(events) : e.rec # events[i].rec
          /\ \A e \in early' : e \in early \/ \A i \in 1..Len(blocks) : e.rec # blocks[i].rec
      BY <1>8, <3>3
    <3>5. ~overlapped' => ~overlapped
      BY <1>3 DEF Adds
    <3>6. EndsFile(events) /\ EndsFile(blocks)
      BY <1>1 DEF EndOK
    <3> QED
      BY <1>4, <3>4, <3>5, <3>6 DEF EndsFile
  <2> QED
    BY <2>3, <2>4, <2>7, <2>8, <2>9, <2>10 DEF EndOK
<1>14. KeptOK'
  <2>1. ASSUME NEW e \in early', e.counts PROVE counted' > 0
    <3>1. counted \in Nat
      BY <1>1 DEF VariablesOK
    <3>2. CASE tallied
      BY <1>4, <3>1, <3>2
    <3>3. CASE ~tallied
      <4>1. e \in early
        BY <1>8, <2>1, <3>3
      <4> QED
        BY <1>1, <1>4, <2>1, <3>3, <4>1 DEF KeptOK
    <3> QED
      BY <3>2, <3>3
  <2>2. ASSUME failures' = 0, NEW e \in early'
        PROVE  /\ "event" \in ToSet(Steps(e.rec[1])) =>
                    \/ Queued(e.rec)' \/ Coming(<<"event", e.rec>>)'
                    \/ \E i \in 1..Len(events') : events'[i].rec = e.rec
               /\ "block" \in ToSet(Steps(e.rec[1])) =>
                    \/ Queued(e.rec)' \/ Coming(<<"block", e.rec>>)'
                    \/ \E i \in 1..Len(blocks') : blocks'[i].rec = e.rec
    <3>1. CASE e = new
      BY <1>3, <1>5, <1>8, <3>1
    <3>2. CASE e \in early
      <4>1. /\ "event" \in ToSet(Steps(e.rec[1])) =>
                 \/ Queued(e.rec) \/ Coming(<<"event", e.rec>>)
                 \/ \E i \in 1..Len(events) : events[i].rec = e.rec
            /\ "block" \in ToSet(Steps(e.rec[1])) =>
                 \/ Queued(e.rec) \/ Coming(<<"block", e.rec>>)
                 \/ \E i \in 1..Len(blocks) : blocks[i].rec = e.rec
        BY <1>1, <1>4, <2>2, <3>2 DEF KeptOK
      <4>2. /\ Queued(e.rec) => Queued(e.rec)'
            /\ Coming(<<"event", e.rec>>) => Coming(<<"event", e.rec>>)'
            /\ Coming(<<"block", e.rec>>) => Coming(<<"block", e.rec>>)'
        BY <1>10
      <4> QED
        BY <1>4, <4>1, <4>2
    <3> QED
      BY <1>8, <3>1, <3>2
  <2>3. ASSUME failures' = 0, \E e \in early' : e.counts, Cardinality(early') = records'
        PROVE  \/ manifest' = StatusNow' \/ InTurn(Manifest)' \/ Coming(<<"manifest", Manifest>>)'
    <3>1. ~closed
      BY <1>4, <1>5, <1>9, <2>3
    <3>2. CASE refresh
      BY <1>3, <3>1, <3>2
    <3>3. CASE ~refresh
      <4>1. tallied = FALSE /\ counted' = counted
        BY <1>4, <3>3
      <4>2. \E e \in early : e.counts
        BY <1>8, <2>3, <4>1
      <4>3. Cardinality(early) = records
        BY <1>4, <1>5, <1>7, <1>9, <2>3
      <4>4. StatusNow' = StatusNow
        BY <1>4, <4>1 DEF StatusNow
      <4>5. manifest = StatusNow \/ InTurn(Manifest) \/ Coming(<<"manifest", Manifest>>)
        BY <1>1, <1>4, <2>3, <4>2, <4>3 DEF KeptOK
      <4>6. /\ InTurn(Manifest) => InTurn(Manifest)'
            /\ Coming(<<"manifest", Manifest>>) => Coming(<<"manifest", Manifest>>)'
        BY <1>10
      <4> QED
        BY <1>4, <4>4, <4>5, <4>6
    <3> QED
      BY <3>2, <3>3
  <2>4. ASSUME failures' = 0, \E e \in early' : e.counts, closed'
        PROVE  \/ InTurn(SessionEndRecord)' \/ Coming(<<"block", SessionEndRecord>>)'
               \/ \E i \in 1..Len(blocks') : blocks'[i].rec = SessionEndRecord
    <3>1. early' = early /\ closed
      BY <1>4, <2>4
    <3>2. \/ InTurn(SessionEndRecord) \/ Coming(<<"block", SessionEndRecord>>)
          \/ \E i \in 1..Len(blocks) : blocks[i].rec = SessionEndRecord
      BY <1>1, <1>4, <2>4, <3>1 DEF KeptOK
    <3>3. /\ InTurn(SessionEndRecord) => InTurn(SessionEndRecord)'
          /\ Coming(<<"block", SessionEndRecord>>) => Coming(<<"block", SessionEndRecord>>)'
      BY <1>10
    <3> QED
      BY <1>4, <3>2, <3>3
  <2> QED
    BY <2>1, <2>2, <2>3, <2>4 DEF KeptOK
<1> QED
  BY <1>11, <1>12, <1>13, <1>14 DEF Inv

(* A program of one step for the stop item. *)
LEMMA Halt ==
    ASSUME NEW do \in {"join", "ended"}, NEW t \in Threads, DOMAIN program = Threads,
           Goes(t, <<<<do, Stop>>>>)
    PROVE  /\ Shaped(program'[t]) /\ Ahead(t)' = {<<do, Stop>>} /\ First(t)' = do
           /\ ~Writing(t)' /\ Alone(t) /\ DOMAIN program' = Threads
<1> DEFINE q == <<<<do, Stop>>>>
<1>1. program'[t] = q /\ DOMAIN program' = Threads /\ Alone(t)
  BY DEF Goes, Alone
<1>2. Len(q) = 1 /\ q[1] = <<do, Stop>> /\ q \in Seq(Dos \X Rec) /\ q # <<>> /\ Head(q) = <<do, Stop>>
  <2>1. <<do, Stop>> \in Dos \X Rec
    BY DEF Dos, Rec
  <2> QED
    BY <2>1
<1>3. Fits(<<do, Stop>>)
  BY Records DEF Fits, Dos, Rec
<1> HIDE DEF q
<1>4. Shaped(q)
  BY <1>2, <1>3, Records DEF Shaped
<1>5. AheadOf(q) = {<<do, Stop>>} /\ FirstOf(q) = do
  <2>1. FirstOf(q) = do
    BY <1>2 DEF FirstOf
  <2>2. \A i \in 1..Len(q) : q[i] = <<do, Stop>> /\ q[i][1] # "init"
    BY <1>2
  <2>3. 1 \in 1..Len(q)
    BY <1>2
  <2> QED
    BY <2>1, <2>2, <2>3 DEF AheadOf
<1>6. Pending(t)' = q
  BY <1>1, <1>2 DEF Pending
<1>7. ~Writing(t)'
  BY <1>2, <1>6 DEF Writing, At, Idle, Task
<1> QED
  BY <1>1, <1>4, <1>5, <1>7 DEF Ahead, First

(* What the closing leaves to be written. *)
LEMMA Closed ==
    ASSUME VariablesOK, OrderOK, EndOK, NEW t \in Threads, Close(t), NEW S,
           S = {SessionEndRecord, Manifest, Stop}
    PROVE  /\ Adds(t, S) /\ Shaped(program'[t]) /\ DOMAIN program' = Threads
           /\ queue' \in Seq(Items) /\ overlapped' \in BOOLEAN
           /\ Finalizes => /\ InTurn(SessionEndRecord)' \/ Coming(<<"block", SessionEndRecord>>)'
                           /\ InTurn(Manifest)' \/ Coming(<<"manifest", Manifest>>)'
           /\ ~overlapped' /\ (\E x \in Ahead(t)' : x[2] = SessionEndRecord) =>
                queue' = <<>> /\ \A u \in Threads : \A x \in Ahead(u) : x[2] = Stop
<1> DEFINE q == IF Finalizes THEN Program(SessionEndRecord) \o Program(Manifest) ELSE <<>>
<1>1. /\ Idle(t) /\ ~overlapped /\ ~closed /\ UNCHANGED initialized
      /\ transport => /\ queue' = queue \o Farewell /\ Goes(t, <<<<"join", Stop>>>>)
                      /\ UNCHANGED overlapped
      /\ ~transport => Goes(t, q) /\ Meets(t) /\ UNCHANGED queue
  BY DEF Close, Calm
<1>2. /\ queue \in Seq(Items) /\ initialized \in BOOLEAN
      /\ DOMAIN program = Threads /\ overlapped \in BOOLEAN /\ transport \in BOOLEAN
  BY DEF VariablesOK
<1>3. /\ SessionEndRecord \in Items \ {Stop} /\ Manifest \in Items \ {Stop} /\ Stop \in Items
      /\ \A y \in S : y[2] = 0
      /\ SessionEndRecord # Stop /\ Manifest # Stop /\ SessionEndRecord[1] # "snapshot"
      /\ SessionEndRecord[1] = "ended"
  BY Records DEF Items
<1>4. Ahead(t) = {} /\ First(t) \in {"none", "init"} /\ ~Writing(t)
  BY <1>1, Nothing
<1> HIDE DEF q
<1>5. CASE transport
  <2> DEFINE more == Farewell
  <2>1. /\ more \in Seq(Items) /\ Len(more) \in {1, 3}
        /\ \A i \in 1..Len(more) : more[i] \in S
        /\ Finalizes => Len(more) = 3 /\ more[1] = SessionEndRecord /\ more[2] = Manifest
    <3>1. CASE Finalizes
      <4>1. more = <<SessionEndRecord, Manifest>> \o <<Stop>>
        BY <3>1 DEF Farewell
      <4> DEFINE a == <<SessionEndRecord, Manifest>>
                 b == <<Stop>>
      <4>2. /\ a \in Seq(Items) /\ b \in Seq(Items) /\ Len(a) = 2 /\ Len(b) = 1
            /\ a[1] = SessionEndRecord /\ a[2] = Manifest /\ b[1] = Stop
        BY <1>3
      <4> HIDE DEF more, a, b
      <4>3. /\ a \o b \in Seq(Items) /\ Len(a \o b) = Len(a) + Len(b)
            /\ \A i \in 1..Len(a) : (a \o b)[i] = a[i]
            /\ \A i \in 1..Len(b) : (a \o b)[Len(a) + i] = b[i]
        <5>1. a \in Seq(Items) /\ b \in Seq(Items)
          BY <4>2
        <5> QED
          BY <5>1, Concatenated
      <4>4. more = a \o b
        BY <4>1 DEF a, b
      <4>5. more \in Seq(Items) /\ Len(more) = 3
        BY <4>2, <4>3, <4>4
      <4>6. more[1] = SessionEndRecord /\ more[2] = Manifest
        BY <4>2, <4>3, <4>4
      <4>7. more[3] = Stop
        <5>1. 1 \in 1..Len(b) /\ Len(a) + 1 = 3
          BY <4>2
        <5> QED
          BY <4>2, <4>3, <4>4, <5>1
      <4>8. \A i \in 1..3 : more[i] \in S
        BY <4>6, <4>7
      <4> QED
        BY <4>5, <4>6, <4>8
    <3>2. CASE ~Finalizes
      <4>1. more = <<>> \o <<Stop>>
        BY <3>2 DEF Farewell
      <4>2. <<>> \o <<Stop>> = <<Stop>>
        OBVIOUS
      <4>3. more = <<Stop>>
        BY <4>1, <4>2
      <4> HIDE DEF more
      <4> QED
        BY <1>3, <3>2, <4>3
    <3> QED
      BY <3>1, <3>2
  <2>2. queue' = queue \o more /\ overlapped' = overlapped
    BY <1>1, <1>5
  <2> HIDE DEF more
  <2>3. Grown(more)
    BY <1>2, <2>1, <2>2, Grows
  <2>4. /\ queue' \in Seq(Items) /\ Len(queue) \in Nat /\ Len(queue') = Len(queue) + Len(more)
        /\ \A i \in 1..Len(queue) : queue'[i] = queue[i]
        /\ \A i \in 1..Len(more) : queue'[Len(queue) + i] = more[i]
        /\ \A i \in 1..Len(queue') : i \in 1..Len(queue) \/ (i - Len(queue) \in 1..Len(more)
                                                              /\ queue'[i] = more[i - Len(queue)])
    BY <2>3 DEF Grown
  <2>5. /\ Shaped(program'[t]) /\ Ahead(t)' = {<<"join", Stop>>} /\ First(t)' = "join"
        /\ ~Writing(t)' /\ Alone(t) /\ DOMAIN program' = Threads
    BY <1>1, <1>2, <1>5, Halt
  <2>6. \A u, v \in Threads : u # v => ~(Writing(u)' /\ Writing(v)')
    BY <1>1, <1>2, <2>2, <2>5, StillAlone
  <2>7. Adds(t, S)
    <3>1. \A i \in 1..Len(queue') : i \in 1..Len(queue) \/ (queue'[i] \in S /\ queue'[i][2] = 0)
      BY <1>3, <2>1, <2>4
    <3>2. Len(queue') \in Nat /\ Len(queue) <= Len(queue')
      BY <2>1, <2>4
    <3>3. \A x \in Ahead(t)' : x[2] \in S /\ x[2][2] = 0
      BY <1>3, <2>5
    <3> QED
      BY <1>1, <1>4, <2>2, <2>4, <2>5, <2>6, <3>1, <3>2, <3>3 DEF Adds
  <2>8. \A i \in 1..Len(queue) : queue'[i] # Stop
    <3>1. ~Queued(Stop)
      BY <1>1 DEF EndOK
    <3> QED
      BY <2>4, <3>1 DEF Queued
  <2>9. ASSUME Finalizes PROVE InTurn(SessionEndRecord)' /\ InTurn(Manifest)'
    <3>1. Len(more) = 3 /\ more[1] = SessionEndRecord /\ more[2] = Manifest
      BY <2>1, <2>9
    <3>2. /\ Len(queue) + 1 \in 1..Len(queue') /\ queue'[Len(queue) + 1] = SessionEndRecord
          /\ Len(queue) + 2 \in 1..Len(queue') /\ queue'[Len(queue) + 2] = Manifest
      <4>1. 1 \in 1..Len(more) /\ 2 \in 1..Len(more)
        BY <3>1
      <4>2. Len(queue) + 1 \in 1..Len(queue') /\ Len(queue) + 2 \in 1..Len(queue')
        BY <2>4, <3>1
      <4> QED
        BY <2>4, <3>1, <4>1, <4>2
    <3>3. /\ \A j \in 1..(Len(queue) + 1 - 1) : j \in 1..Len(queue)
          /\ \A j \in 1..(Len(queue) + 2 - 1) : j \in 1..Len(queue) \/ j = Len(queue) + 1
      BY <2>4
    <3>4. /\ \A j \in 1..(Len(queue) + 1 - 1) : queue'[j] # Stop
          /\ \A j \in 1..(Len(queue) + 2 - 1) : queue'[j] # Stop
      BY <1>3, <2>8, <3>2, <3>3
    <3> QED
      BY <3>2, <3>4 DEF InTurn
  <2>10. ~\E x \in Ahead(t)' : x[2] = SessionEndRecord
    BY <1>3, <2>5
  <2> QED
    BY <1>2, <2>2, <2>4, <2>5, <2>7, <2>9, <2>10
<1>6. CASE ~transport
  <2>1. /\ program'[t] = q /\ Alone(t) /\ DOMAIN program' = Threads /\ queue' = queue
        /\ overlapped' \in BOOLEAN
        /\ ~overlapped' => queue = <<>> /\ \A u \in Threads \ {t} : ~Writing(u)
    BY <1>1, <1>2, <1>6 DEF Goes, Alone, Meets
  <2>2. /\ Shaped(q) /\ FirstOf(q) \in {"none", "init"}
        /\ \A x \in AheadOf(q) : x[2] \in {SessionEndRecord, Manifest}
        /\ Finalizes => /\ <<"block", SessionEndRecord>> \in AheadOf(q)
                        /\ <<"manifest", Manifest>> \in AheadOf(q)
    <3>1. CASE Finalizes
      <4>1. q = Program(SessionEndRecord) \o Program(Manifest)
        BY <3>1 DEF q
      <4>2. /\ Shaped(q) /\ FirstOf(q) = "init"
            /\ \A x \in AheadOf(q) : x[2] \in {SessionEndRecord, Manifest}
            /\ \A do \in Dos : do # "init" /\ do \in ToSet(Steps(SessionEndRecord[1])) =>
                 <<do, SessionEndRecord>> \in AheadOf(q)
            /\ <<"manifest", Manifest>> \in AheadOf(q)
        BY <1>3, <4>1, TwoPrograms
      <4>3. "block" \in ToSet(Steps("ended")) /\ "block" \in Dos
        <5>1. 5 \in DOMAIN Steps("ended") /\ Steps("ended")[5] = "block"
          BY StepLists DEF Spelt
        <5> QED
          BY <5>1 DEF ToSet, Dos
      <4> QED
        BY <1>3, <4>2, <4>3
    <3>2. CASE ~Finalizes
      <4>1. q = <<>>
        BY <3>2 DEF q
      <4> QED
        BY <3>2, <4>1, Empty
    <3> QED
      BY <3>1, <3>2
  <2>3. Ahead(t)' = AheadOf(q) /\ First(t)' = FirstOf(q)
    BY <2>1 DEF Ahead, First
  <2>4. ~overlapped' => \A u, v \in Threads : u # v => ~(Writing(u)' /\ Writing(v)')
    BY <1>1, <1>2, <2>1, MayBegin
  <2>5. Adds(t, S)
    <3>1. Len(queue) \in Nat
      BY <1>2
    <3>2. \A x \in Ahead(t)' : x[2] \in S /\ x[2][2] = 0
      BY <1>3, <2>2, <2>3
    <3> QED
      BY <1>1, <1>4, <2>1, <2>2, <2>3, <2>4, <3>1, <3>2 DEF Adds
  <2>6. Finalizes => Coming(<<"block", SessionEndRecord>>)' /\ Coming(<<"manifest", Manifest>>)'
    BY <2>2, <2>3 DEF Coming
  <2>7. ~overlapped' => queue' = <<>> /\ \A u \in Threads : \A x \in Ahead(u) : x[2] = Stop
    <3>1. ~overlapped' => \A u \in Threads \ {t} : \A x \in Ahead(u) : x[2] = Stop
      BY <2>1, Resting
    <3> QED
      BY <1>4, <2>1, <3>1
  <2>8. Shaped(program'[t]) /\ queue' \in Seq(Items)
    BY <1>2, <2>1, <2>2
  <2> QED
    BY <2>1, <2>5, <2>6, <2>7, <2>8
<1> QED
  BY <1>2, <1>5, <1>6

(* The logger is closed. *)
LEMMA CloseInv == ASSUME Inv, NEW t \in Threads, Close(t) PROVE Inv'
<1>1. /\ VariablesOK /\ StepsOK /\ SeqsOK /\ RecordsOK /\ OrderOK /\ StartOK /\ EndOK /\ KeptOK
  BY DEF Inv
<1> DEFINE S == {SessionEndRecord, Manifest, Stop}
<1>2. /\ Adds(t, S) /\ Shaped(program'[t]) /\ DOMAIN program' = Threads
      /\ queue' \in Seq(Items) /\ overlapped' \in BOOLEAN
      /\ Finalizes => /\ InTurn(SessionEndRecord)' \/ Coming(<<"block", SessionEndRecord>>)'
                      /\ InTurn(Manifest)' \/ Coming(<<"manifest", Manifest>>)'
      /\ ~overlapped' /\ (\E x \in Ahead(t)' : x[2] = SessionEndRecord) =>
           queue' = <<>> /\ \A u \in Threads : \A x \in Ahead(u) : x[2] = Stop
  BY <1>1, Closed
<1>3. /\ ~closed /\ closed' = TRUE /\ status' = "closed" /\ t # "writer"
      /\ UNCHANGED <<mode, initialized, footer, transport, counted, step, seq, events, blocks,
                     manifest, held, records, failures, early>>
  BY DEF Close, numbers, files
<1>4. /\ records \in Nat /\ SessionStartRecord \notin S
      /\ \A y \in S : y[2] = 0 /\ y \notin Calls
      /\ \A e \in early : e.rec \in Calls /\ e.rec \notin S
      /\ \A e \in early : e.rec # Stop
  <2>1. records \in Nat /\ \A e \in early : e.rec \in Calls
    BY <1>1 DEF VariablesOK
  <2>2. SessionStartRecord \notin S /\ \A y \in S : y[2] = 0 /\ y \notin Calls
    BY Records DEF Calls
  <2> QED
    BY <2>1, <2>2
<1>5. Newest(S)
  BY <1>3, <1>4 DEF Newest
<1>6. ~Queued(SessionEndRecord) /\ ~Queued(Stop) /\ ~Begun(SessionEndRecord) /\ ~Begun(Stop)
  BY <1>1, <1>3 DEF EndOK
<1> HIDE DEF S
<1>7. /\ \A x : Queued(x) => Queued(x)'
      /\ \A x : Coming(x) => Coming(x)'
      /\ \A x : Queued(x)' => Queued(x) \/ x \in S
      /\ \A u \in Threads : \A x \in Ahead(u)' : x \in Ahead(u) \/ (u = t /\ x[2] \in S)
      /\ \A u \in Threads \ {t} : Ahead(u)' = Ahead(u)
  BY <1>2, Lasts
<1>8. VariablesOK'
  <2>1. /\ mode' \in {"off", "sync", "async"} /\ transport' \in BOOLEAN
        /\ (transport' => mode' = "async")
        /\ initialized' \in BOOLEAN /\ closed' \in BOOLEAN /\ footer' \in BOOLEAN
        /\ status' \in {"open", "closed"}
        /\ records' \in 0..MaxRecords /\ failures' \in 0..MaxFailures
        /\ counted' \in Nat /\ counted' <= records' /\ step' \in Nat /\ seq' \in Nat
        /\ events' \in Seq(EventType) /\ blocks' \in Seq(BlockType)
        /\ held' \in [Threads -> [step : Nat, seq : Nat]]
    BY <1>1, <1>3 DEF VariablesOK
  <2>2. /\ \A e \in early' : e.rec \in Calls /\ e.rec[2] <= records'
        /\ IsFiniteSet(early') /\ Cardinality(early') <= records'
    BY <1>1, <1>3 DEF VariablesOK
  <2>3. \A u \in Threads : Shaped(program'[u])
    <3>1. \A u \in Threads \ {t} : program'[u] = program[u] /\ Shaped(program[u])
      BY <1>1, <1>2 DEF VariablesOK, Adds, Alone
    <3> QED
      BY <1>2, <3>1
  <2> QED
    BY <1>2, <2>1, <2>2, <2>3 DEF VariablesOK
<1>9. StepsOK' /\ SeqsOK' /\ RecordsOK' /\ OrderOK' /\ StartOK'
  BY <1>2, <1>3, <1>4, <1>5, Added
<1>10. EndOK'
  <2>1. ASSUME NEW i \in 1..Len(queue'), NEW j \in 1..Len(queue'), i < j,
               queue'[i] \in {SessionEndRecord, Stop}, NEW e \in early'
        PROVE  queue'[j] # e.rec
    <3>1. /\ \A k \in 1..Len(queue) : queue'[k] = queue[k]
          /\ \A k \in 1..Len(queue') : k \in 1..Len(queue) \/ queue'[k] \in S
          /\ Len(queue) \in Nat
      BY <1>2 DEF Adds
    <3>2. i \notin 1..Len(queue)
      BY <1>6, <2>1, <3>1 DEF Queued
    <3>3. j \notin 1..Len(queue)
      BY <2>1, <3>1, <3>2
    <3> QED
      BY <1>3, <1>4, <3>1, <3>3
  <2>2. <<"ended", Stop>> \notin Ahead("writer")'
    <3>1. "writer" \in Threads \ {t} /\ <<"ended", Stop>>[2] = Stop
      BY <1>3 DEF Threads
    <3> QED
      BY <1>6, <1>7, <3>1 DEF Begun
  <2>3. ASSUME ~overlapped', Begun(SessionEndRecord)', NEW e \in early'
        PROVE  ~Queued(e.rec)' /\ \A u \in Threads : \A x \in Ahead(u)' : x[2] # e.rec
    <3>1. \E u \in Threads : \E x \in Ahead(u)' : x[2] = SessionEndRecord
      BY <1>3, <1>6, <2>3 DEF Begun
    <3>2. \E x \in Ahead(t)' : x[2] = SessionEndRecord
      BY <1>6, <1>7, <3>1 DEF Begun
    <3>3. queue' = <<>> /\ \A u \in Threads : \A x \in Ahead(u) : x[2] = Stop
      BY <1>2, <2>3, <3>2
    <3>4. ~Queued(e.rec)'
      <4>1. Len(queue') = 0
        BY <3>3
      <4> QED
        BY <4>1 DEF Queued
    <3> QED
      BY <1>3, <1>4, <1>7, <3>3, <3>4
  <2>4. EndsFile(events)' /\ EndsFile(blocks)'
    BY <1>3, <1>6 DEF EndsFile, Begun
  <2> QED
    BY <1>3, <2>1, <2>2, <2>3, <2>4 DEF EndOK
<1>11. KeptOK'
  <2>1. (\E e \in early' : e.counts) => counted' > 0
    BY <1>1, <1>3 DEF KeptOK
  <2>2. (\E e \in early' : e.counts) => Finalizes
    BY <1>3, <2>1 DEF Finalizes
  <2>3. ASSUME failures' = 0, NEW e \in early'
        PROVE  /\ "event" \in ToSet(Steps(e.rec[1])) =>
                    \/ Queued(e.rec)' \/ Coming(<<"event", e.rec>>)'
                    \/ \E i \in 1..Len(events') : events'[i].rec = e.rec
               /\ "block" \in ToSet(Steps(e.rec[1])) =>
                    \/ Queued(e.rec)' \/ Coming(<<"block", e.rec>>)'
                    \/ \E i \in 1..Len(blocks') : blocks'[i].rec = e.rec
    <3>1. /\ "event" \in ToSet(Steps(e.rec[1])) =>
               \/ Queued(e.rec) \/ Coming(<<"event", e.rec>>)
               \/ \E i \in 1..Len(events) : events[i].rec = e.rec
          /\ "block" \in ToSet(Steps(e.rec[1])) =>
               \/ Queued(e.rec) \/ Coming(<<"block", e.rec>>)
               \/ \E i \in 1..Len(blocks) : blocks[i].rec = e.rec
      BY <1>1, <1>3, <2>3 DEF KeptOK
    <3>2. /\ Queued(e.rec) => Queued(e.rec)'
          /\ Coming(<<"event", e.rec>>) => Coming(<<"event", e.rec>>)'
          /\ Coming(<<"block", e.rec>>) => Coming(<<"block", e.rec>>)'
      BY <1>7
    <3> QED
      BY <1>3, <3>1, <3>2
  <2> QED
    BY <1>2, <2>1, <2>2, <2>3 DEF KeptOK
<1> QED
  BY <1>8, <1>9, <1>10, <1>11 DEF Inv

(* The queue without its first item. *)
LEMMA Shrinks ==
    ASSUME queue \in Seq(Items), queue # <<>>, queue' = Tail(queue), NEW r, r = Head(queue)
    PROVE  /\ r \in Items /\ r = queue[1] /\ Queued(r) /\ 1 \in 1..Len(queue)
           /\ queue' \in Seq(Items) /\ Len(queue) \in Nat /\ Len(queue') = Len(queue) - 1
           /\ \A i \in 1..Len(queue') : i + 1 \in 1..Len(queue) /\ queue'[i] = queue[i + 1]
           /\ \A x : Queued(x)' => Queued(x)
           /\ \A x : Queued(x) => Queued(x)' \/ x = r
           /\ \A x : InTurn(x) => InTurn(x)' \/ x = r
<1>1. /\ r \in Items /\ r = queue[1] /\ 1 \in 1..Len(queue)
      /\ queue' \in Seq(Items) /\ Len(queue) \in Nat /\ Len(queue') = Len(queue) - 1
  <2>1. Len(queue) \in Nat /\ Len(queue) # 0
    BY EmptySeq
  <2>2. 1 \in 1..Len(queue) /\ r = queue[1]
    BY <2>1
  <2>3. queue' \in Seq(Items) /\ Len(queue') = Len(queue) - 1
    BY <2>1
  <2> QED
    BY <2>1, <2>2, <2>3
<1>2. \A i \in 1..Len(queue') : i + 1 \in 1..Len(queue) /\ queue'[i] = queue[i + 1]
  <2>1. \A i \in 1..Len(queue') : i + 1 \in 1..Len(queue)
    BY <1>1
  <2>2. \A i \in 1..Len(queue') : queue'[i] = queue[i + 1]
    BY <1>1
  <2> QED
    BY <2>1, <2>2
<1>3. \A i \in 1..Len(queue) : i = 1 \/ (i - 1 \in 1..Len(queue') /\ queue'[i - 1] = queue[i])
  <2> SUFFICES ASSUME NEW i \in 1..Len(queue), i # 1
               PROVE  i - 1 \in 1..Len(queue') /\ queue'[i - 1] = queue[i]
    OBVIOUS
  <2>1. i - 1 \in 1..Len(queue') /\ (i - 1) + 1 = i
    BY <1>1
  <2> QED
    BY <1>2, <2>1
<1>4. \A x : Queued(x)' => Queued(x)
  BY <1>2 DEF Queued
<1>5. \A x : Queued(x) => Queued(x)' \/ x = r
  BY <1>1, <1>3 DEF Queued
<1>6. ASSUME NEW x, InTurn(x), x # r PROVE InTurn(x)'
  <2>1. PICK i \in 1..Len(queue) : queue[i] = x /\ \A j \in 1..(i - 1) : queue[j] # Stop
    BY <1>6 DEF InTurn
  <2>2. i - 1 \in 1..Len(queue') /\ queue'[i - 1] = x
    BY <1>1, <1>3, <1>6, <2>1
  <2>3. ASSUME NEW j \in 1..((i - 1) - 1) PROVE queue'[j] # Stop
    <3>1. j \in 1..Len(queue') /\ j + 1 \in 1..(i - 1)
      BY <1>1, <2>2
    <3> QED
      BY <1>2, <2>1, <3>1
  <2> QED
    BY <2>2, <2>3 DEF InTurn
<1>7. Queued(r)
  BY <1>1 DEF Queued
<1> QED
  BY <1>1, <1>2, <1>4, <1>5, <1>6, <1>7

(* What the transport's thread has then to do. *)
LEMMA Taken ==
    ASSUME VariablesOK, OrderOK, Take, NEW r, r = Head(queue)
    PROVE  /\ Alone("writer") /\ Ahead("writer") = {} /\ First("writer") # "event"
           /\ First("writer")' \in {"init", "ended"} /\ \A x \in Ahead("writer")' : x[2] = r
           /\ r # Stop => \A do \in Dos : do # "init" /\ do \in ToSet(Steps(r[1])) =>
                            <<do, r>> \in Ahead("writer")'
           /\ Shaped(program'["writer"]) /\ DOMAIN program' = Threads /\ overlapped' \in BOOLEAN
           /\ ~overlapped' => /\ ~overlapped
                              /\ \A u, v \in Threads : u # v => ~(Writing(u)' /\ Writing(v)')
                              /\ r # Stop => \A u \in Threads \ {"writer"} : \A x \in Ahead(u) :
                                               x[2] = Stop
<1> DEFINE t == "writer"
           q == Program(r)
<1>1. /\ Idle(t) /\ queue # <<>> /\ queue' = Tail(queue) /\ UNCHANGED initialized
      /\ r = Stop => Goes(t, <<<<"ended", Stop>>>>) /\ UNCHANGED overlapped
      /\ r # Stop => /\ Goes(t, q)
                     /\ overlapped' = (overlapped \/ \E u \in Threads \ {t} : Writing(u))
  BY DEF Take, flags
<1>2. /\ t \in Threads /\ queue \in Seq(Items) /\ DOMAIN program = Threads
      /\ overlapped \in BOOLEAN /\ initialized \in BOOLEAN
  <2>1. t \in Threads
    BY DEF Threads
  <2> QED
    BY <2>1 DEF VariablesOK
<1>3. r \in Items
  BY <1>1, <1>2, Shrinks
<1>4. Ahead(t) = {} /\ First(t) \in {"none", "init"} /\ ~Writing(t)
  BY <1>1, <1>2, Nothing
<1> HIDE DEF t, q
<1>5. CASE r = Stop
  <2>1. /\ Shaped(program'[t]) /\ Ahead(t)' = {<<"ended", Stop>>} /\ First(t)' = "ended"
        /\ ~Writing(t)' /\ Alone(t) /\ DOMAIN program' = Threads
    BY <1>1, <1>2, <1>5, Halt
  <2>2. overlapped' = overlapped
    BY <1>1, <1>5
  <2>3. ~overlapped' => \A u, v \in Threads : u # v => ~(Writing(u)' /\ Writing(v)')
    BY <1>1, <1>2, <2>1, <2>2, StillAlone
  <2> QED
    BY <1>2, <1>4, <1>5, <2>1, <2>2, <2>3 DEF t
<1>6. CASE r # Stop
  <2>1. /\ program'[t] = q /\ Alone(t) /\ DOMAIN program' = Threads
        /\ overlapped' \in BOOLEAN
        /\ ~overlapped' => ~overlapped /\ \A u \in Threads \ {t} : ~Writing(u)
    BY <1>1, <1>2, <1>6 DEF Goes, Alone
  <2>2. /\ Shaped(q) /\ FirstOf(q) = "init"
        /\ \A x \in AheadOf(q) : x[2] = r
        /\ \A do \in Dos : do # "init" /\ do \in ToSet(Steps(r[1])) => <<do, r>> \in AheadOf(q)
    BY <1>3, <1>6, OneProgram DEF q
  <2>3. Ahead(t)' = AheadOf(q) /\ First(t)' = FirstOf(q)
    BY <2>1 DEF Ahead, First
  <2>4. ~overlapped' => \A u, v \in Threads : u # v => ~(Writing(u)' /\ Writing(v)')
    BY <1>1, <1>2, <2>1, MayBegin
  <2>5. ~overlapped' => \A u \in Threads \ {t} : \A x \in Ahead(u) : x[2] = Stop
    BY <2>1, Resting
  <2> QED
    BY <1>4, <2>1, <2>2, <2>3, <2>4, <2>5 DEF t
<1> QED
  BY <1>5, <1>6

(* The transport's thread takes an item. *)
LEMMA TakeInv == ASSUME Inv, Take PROVE Inv'
<1>1. /\ VariablesOK /\ StepsOK /\ SeqsOK /\ RecordsOK /\ OrderOK /\ StartOK /\ EndOK /\ KeptOK
  BY DEF Inv
<1>2. PICK r : r = Head(queue)
  OBVIOUS
<1> DEFINE t == "writer"
<1>3. /\ Alone(t) /\ Ahead(t) = {} /\ First(t) # "event"
      /\ First(t)' \in {"init", "ended"} /\ \A x \in Ahead(t)' : x[2] = r
      /\ r # Stop => \A do \in Dos : do # "init" /\ do \in ToSet(Steps(r[1])) =>
                       <<do, r>> \in Ahead(t)'
      /\ Shaped(program'[t]) /\ DOMAIN program' = Threads /\ overlapped' \in BOOLEAN
      /\ ~overlapped' => /\ ~overlapped
                         /\ \A u, v \in Threads : u # v => ~(Writing(u)' /\ Writing(v)')
                         /\ r # Stop => \A u \in Threads \ {t} : \A x \in Ahead(u) : x[2] = Stop
  BY <1>1, <1>2, Taken
<1>4. /\ queue' = Tail(queue) /\ queue # <<>> /\ t \in Threads
      /\ UNCHANGED <<mode, initialized, closed, footer, transport, counted, step, seq, status,
                     events, blocks, manifest, held, records, failures, early>>
  BY DEF Take, flags, numbers, files, Threads
<1>5. queue \in Seq(Items) /\ records \in Nat
  BY <1>1 DEF VariablesOK
<1>6. /\ r \in Items /\ r = queue[1] /\ Queued(r) /\ 1 \in 1..Len(queue)
      /\ queue' \in Seq(Items) /\ Len(queue) \in Nat /\ Len(queue') = Len(queue) - 1
      /\ \A i \in 1..Len(queue') : i + 1 \in 1..Len(queue) /\ queue'[i] = queue[i + 1]
      /\ \A x : Queued(x)' => Queued(x)
      /\ \A x : Queued(x) => Queued(x)' \/ x = r
      /\ \A x : InTurn(x) => InTurn(x)' \/ x = r
  BY <1>2, <1>4, <1>5, Shrinks
<1> HIDE DEF t
<1>7. \A u \in Threads \ {t} : Ahead(u)' = Ahead(u) /\ First(u)' = First(u)
  BY <1>3, OthersStay
<1>8. \A u \in Threads : \A x \in Ahead(u)' : x \in Ahead(u) \/ (u = t /\ x[2] = r)
  BY <1>3, <1>7
<1>9. \A x : Coming(x) => Coming(x)'
  <2> SUFFICES ASSUME NEW x, Coming(x) PROVE Coming(x)'
    OBVIOUS
  <2>1. PICK u \in Threads : x \in Ahead(u)
    BY DEF Coming
  <2>2. x \in Ahead(u)'
    BY <1>3, <1>7, <2>1
  <2> QED
    BY <2>2 DEF Coming
<1>10. /\ r[2] \in Nat /\ r \in Rec /\ (r \in Calls <=> r[2] > 0)
       /\ r # SessionStartRecord /\ r # FallbackRecord
       /\ r[2] <= records
  <2>1. r[2] <= records
    BY <1>1, <1>6 DEF RecordsOK
  <2> QED
    BY <1>6, <2>1, ItemsAre
<1>11. /\ \A i \in 1..Len(queue) : queue[i][2] \in Nat
       /\ \A i \in 1..Len(queue') : queue'[i][2] \in Nat /\ (r[2] > 0 /\ queue'[i][2] > 0 =>
                                                              r[2] < queue'[i][2])
  <2>1. \A i \in 1..Len(queue) : queue[i] \in Items
    BY <1>5
  <2>2. \A i \in 1..Len(queue) : queue[i][2] \in Nat
    BY <2>1, ItemsAre
  <2>3. ASSUME NEW i \in 1..Len(queue'), r[2] > 0, queue'[i][2] > 0 PROVE r[2] < queue'[i][2]
    <3>1. i + 1 \in 1..Len(queue) /\ 1 < i + 1 /\ queue'[i] = queue[i + 1]
      BY <1>6
    <3> QED
      BY <1>1, <1>6, <2>3, <3>1 DEF RecordsOK
  <2> QED
    BY <1>6, <2>2, <2>3
<1>12. VariablesOK'
  <2>1. /\ mode' \in {"off", "sync", "async"} /\ transport' \in BOOLEAN
        /\ (transport' => mode' = "async")
        /\ initialized' \in BOOLEAN /\ closed' \in BOOLEAN /\ footer' \in BOOLEAN
        /\ status' \in {"open", "closed"}
        /\ records' \in 0..MaxRecords /\ failures' \in 0..MaxFailures
        /\ counted' \in Nat /\ counted' <= records' /\ step' \in Nat /\ seq' \in Nat
        /\ events' \in Seq(EventType) /\ blocks' \in Seq(BlockType)
        /\ held' \in [Threads -> [step : Nat, seq : Nat]]
    BY <1>1, <1>4 DEF VariablesOK
  <2>2. /\ \A e \in early' : e.rec \in Calls /\ e.rec[2] <= records'
        /\ IsFiniteSet(early') /\ Cardinality(early') <= records'
    BY <1>1, <1>4 DEF VariablesOK
  <2>3. \A u \in Threads : Shaped(program'[u])
    <3>1. \A u \in Threads \ {t} : program'[u] = program[u] /\ Shaped(program[u])
      BY <1>1, <1>3 DEF VariablesOK, Alone
    <3> QED
      BY <1>3, <3>1
  <2> QED
    BY <1>3, <1>6, <2>1, <2>2, <2>3 DEF VariablesOK
<1>13. StepsOK'
  <2>1. \A u \in Threads :
             /\ held'[u].step = held[u].step
             /\ First(u)' \in {"number", "event"} => First(u) \in {"number", "event"}
             /\ Carrying(u)' => Carrying(u)
    BY <1>3, <1>4, <1>7 DEF Carrying
  <2> QED
    BY <1>1, <1>3, <1>4, <2>1, StepsStay
<1>14. SeqsOK'
  <2>1. \A u \in Threads : held'[u].seq = held[u].seq
    BY <1>4
  <2>2. First(t)' \notin {"number", "event"} /\ (First(t) = "event" => failures' > 0)
        /\ (failures' = 0 => failures = 0)
    BY <1>3, <1>4
  <2> QED
    BY <1>1, <1>3, <1>4, <1>7, <2>1, <2>2, SeqsStay
<1>15. RecordsOK'
  <2>1. /\ \A i \in 1..Len(queue') : queue'[i][2] <= records'
        /\ \A i, j \in 1..Len(queue') : i < j /\ queue'[i][2] > 0 /\ queue'[j][2] > 0 =>
                                         queue'[i][2] < queue'[j][2]
    <3>1. \A i \in 1..Len(queue') : queue'[i][2] <= records'
      BY <1>1, <1>4, <1>6 DEF RecordsOK
    <3>2. ASSUME NEW i \in 1..Len(queue'), NEW j \in 1..Len(queue'), i < j,
                 queue'[i][2] > 0, queue'[j][2] > 0
          PROVE  queue'[i][2] < queue'[j][2]
      <4>1. /\ i + 1 \in 1..Len(queue) /\ queue'[i] = queue[i + 1]
            /\ j + 1 \in 1..Len(queue) /\ queue'[j] = queue[j + 1] /\ i + 1 < j + 1
        BY <1>6, <3>2
      <4> QED
        BY <1>1, <3>2, <4>1 DEF RecordsOK
    <3> QED
      BY <3>1, <3>2
  <2>2. ASSUME NEW u \in Threads, NEW x \in Ahead(u)'
        PROVE  /\ x[2][2] <= records'
               /\ x[2][2] > 0 => /\ \A i \in 1..Len(queue') : queue'[i][2] # x[2][2]
                                 /\ \A v \in Threads : v # u => \A y \in Ahead(v)' : y[2][2] # x[2][2]
    <3>1. CASE u = t
      <4>1. x[2] = r
        BY <1>3, <2>2, <3>1
      <4>2. ASSUME r[2] > 0, NEW i \in 1..Len(queue') PROVE queue'[i][2] # r[2]
        BY <1>10, <1>11, <4>2
      <4>3. ASSUME r[2] > 0, NEW v \in Threads, v # u, NEW y \in Ahead(v)' PROVE y[2][2] # r[2]
        <5>1. y \in Ahead(v)
          BY <1>7, <3>1, <4>3
        <5>2. y[2][2] > 0 => queue[1][2] # y[2][2]
          BY <1>1, <1>6, <5>1 DEF RecordsOK
        <5> QED
          BY <1>6, <4>3, <5>2
      <4> QED
        BY <1>4, <1>10, <4>1, <4>2, <4>3
    <3>2. CASE u # t
      <4>1. x \in Ahead(u)
        BY <1>7, <2>2, <3>2
      <4>2. /\ x[2][2] <= records
            /\ x[2][2] > 0 => /\ \A i \in 1..Len(queue) : queue[i][2] # x[2][2]
                              /\ \A v \in Threads : v # u => \A y \in Ahead(v) : y[2][2] # x[2][2]
        BY <1>1, <4>1 DEF RecordsOK
      <4>3. ASSUME x[2][2] > 0, NEW i \in 1..Len(queue') PROVE queue'[i][2] # x[2][2]
        BY <1>6, <4>2, <4>3
      <4>4. ASSUME x[2][2] > 0, NEW v \in Threads, v # u, NEW y \in Ahead(v)' PROVE y[2][2] # x[2][2]
        BY <1>6, <1>8, <4>2, <4>4
      <4> QED
        BY <1>4, <4>2, <4>3, <4>4
    <3> QED
      BY <3>1, <3>2
  <2>3. ASSUME NEW file, NEW do, Elsewhere(file, do), NEW i \in 1..Len(file)
        PROVE  /\ file[i].rec[2] <= records
               /\ file[i].rec[2] > 0 =>
                    /\ \A j \in 1..Len(queue') : queue'[j][2] # file[i].rec[2]
                    /\ \A u \in Threads : \A x \in Ahead(u)' : x[1] = do => x[2][2] # file[i].rec[2]
                    /\ \A j \in 1..Len(file) : file[j].rec[2] = file[i].rec[2] => i = j
    BY <1>6, <1>8, <2>3 DEF Elsewhere
  <2>4. Elsewhere(events, "event") /\ Elsewhere(blocks, "block")
    BY <1>1 DEF RecordsOK
  <2>5. Elsewhere(events, "event")'
    <3>1. ASSUME NEW i \in 1..Len(events)
          PROVE  /\ events[i].rec[2] <= records
                 /\ events[i].rec[2] > 0 =>
                      /\ \A j \in 1..Len(queue') : queue'[j][2] # events[i].rec[2]
                      /\ \A u \in Threads : \A x \in Ahead(u)' : x[1] = "event" =>
                           x[2][2] # events[i].rec[2]
                      /\ \A j \in 1..Len(events) : events[j].rec[2] = events[i].rec[2] => i = j
      BY <2>3, <2>4
    <3> QED
      BY <1>4, <3>1 DEF Elsewhere
  <2>6. Elsewhere(blocks, "block")'
    <3>1. ASSUME NEW i \in 1..Len(blocks)
          PROVE  /\ blocks[i].rec[2] <= records
                 /\ blocks[i].rec[2] > 0 =>
                      /\ \A j \in 1..Len(queue') : queue'[j][2] # blocks[i].rec[2]
                      /\ \A u \in Threads : \A x \in Ahead(u)' : x[1] = "block" =>
                           x[2][2] # blocks[i].rec[2]
                      /\ \A j \in 1..Len(blocks) : blocks[j].rec[2] = blocks[i].rec[2] => i = j
      BY <2>3, <2>4
    <3> QED
      BY <1>4, <3>1 DEF Elsewhere
  <2> QED
    BY <2>1, <2>2, <2>5, <2>6 DEF RecordsOK
<1>16. OrderOK'
  <2> SUFFICES ASSUME ~overlapped'
               PROVE  /\ \A u, v \in Threads : u # v => ~(Writing(u)' /\ Writing(v)')
                      /\ \A u \in Threads : \A x \in Ahead(u)' : \A j \in 1..Len(queue') :
                           x[2][2] > 0 /\ queue'[j][2] > 0 => x[2][2] < queue'[j][2]
                      /\ Before(events, "event")' /\ Before(blocks, "block")'
    BY DEF OrderOK
  <2>1. /\ \A u \in Threads : \A x \in Ahead(u) : \A j \in 1..Len(queue) :
             x[2][2] > 0 /\ queue[j][2] > 0 => x[2][2] < queue[j][2]
        /\ Before(events, "event") /\ Before(blocks, "block")
    BY <1>1, <1>3 DEF OrderOK
  <2>2. \A u \in Threads : \A x \in Ahead(u)' : \A j \in 1..Len(queue') :
             x[2][2] > 0 /\ queue'[j][2] > 0 => x[2][2] < queue'[j][2]
    <3> SUFFICES ASSUME NEW u \in Threads, NEW x \in Ahead(u)', NEW j \in 1..Len(queue'),
                        x[2][2] > 0, queue'[j][2] > 0
                 PROVE  x[2][2] < queue'[j][2]
      OBVIOUS
    <3>1. CASE x[2] = r
      BY <1>11, <3>1
    <3>2. CASE x \in Ahead(u)
      BY <1>6, <2>1, <3>2
    <3> QED
      BY <1>8, <3>1, <3>2
  <2>3. ASSUME NEW file, NEW do, Before(file, do), NEW i \in 1..Len(file)
        PROVE  /\ \A j \in 1..Len(queue') : queue'[j][2] > 0 => file[i].rec[2] < queue'[j][2]
               /\ \A u \in Threads : \A x \in Ahead(u)' :
                    x[1] = do /\ x[2][2] > 0 => file[i].rec[2] < x[2][2]
               /\ \A j \in 1..Len(file) :
                    i < j /\ file[i].rec[2] > 0 /\ file[j].rec[2] > 0 => file[i].rec[2] < file[j].rec[2]
    BY <1>6, <1>8, <2>3 DEF Before
  <2>4. Before(events, "event")'
    <3>1. ASSUME NEW i \in 1..Len(events)
          PROVE  /\ \A j \in 1..Len(queue') : queue'[j][2] > 0 => events[i].rec[2] < queue'[j][2]
                 /\ \A u \in Threads : \A x \in Ahead(u)' :
                      x[1] = "event" /\ x[2][2] > 0 => events[i].rec[2] < x[2][2]
                 /\ \A j \in 1..Len(events) :
                      i < j /\ events[i].rec[2] > 0 /\ events[j].rec[2] > 0 =>
                        events[i].rec[2] < events[j].rec[2]
      BY <2>1, <2>3
    <3> QED
      BY <1>4, <3>1 DEF Before
  <2>5. Before(blocks, "block")'
    <3>1. ASSUME NEW i \in 1..Len(blocks)
          PROVE  /\ \A j \in 1..Len(queue') : queue'[j][2] > 0 => blocks[i].rec[2] < queue'[j][2]
                 /\ \A u \in Threads : \A x \in Ahead(u)' :
                      x[1] = "block" /\ x[2][2] > 0 => blocks[i].rec[2] < x[2][2]
                 /\ \A j \in 1..Len(blocks) :
                      i < j /\ blocks[i].rec[2] > 0 /\ blocks[j].rec[2] > 0 =>
                        blocks[i].rec[2] < blocks[j].rec[2]
      BY <2>1, <2>3
    <3> QED
      BY <1>4, <3>1 DEF Before
  <2> QED
    BY <1>3, <2>2, <2>4, <2>5
<1>17. StartOK'
  <2>1. \A do \in {"event", "block"} : <<do, SessionStartRecord>> \notin Ahead(t)'
    BY <1>3, <1>10
  <2>2. First(t)' \in {"none", "init", "create", "join", "ended"} /\ (~overlapped' => ~overlapped)
    BY <1>3
  <2> QED
    BY <1>1, <1>3, <1>4, <2>1, <2>2, StartStay
<1>18. EndOK'
  <2>1. \A x : Begun(x)' => Begun(x) \/ x = r
    BY <1>4, <1>8 DEF Begun
  <2>2. \A e \in early : e.rec \in Calls /\ e.rec # Stop /\ e.rec # SessionEndRecord
    <3>1. \A e \in early : e.rec \in Calls
      BY <1>1 DEF VariablesOK
    <3> QED
      BY <3>1, Records DEF Calls
  <2>3. ~closed' => \A x \in {SessionEndRecord, Stop} : ~Queued(x)' /\ ~Begun(x)'
    BY <1>1, <1>4, <1>6, <2>1 DEF EndOK
  <2>4. ASSUME NEW i \in 1..Len(queue'), NEW j \in 1..Len(queue'), i < j,
               queue'[i] \in {SessionEndRecord, Stop}, NEW e \in early'
        PROVE  queue'[j] # e.rec
    <3>1. /\ i + 1 \in 1..Len(queue) /\ queue'[i] = queue[i + 1]
          /\ j + 1 \in 1..Len(queue) /\ queue'[j] = queue[j + 1] /\ i + 1 < j + 1
      BY <1>6, <2>4
    <3> QED
      BY <1>1, <1>4, <2>4, <3>1 DEF EndOK
  <2>5. ASSUME r \in {SessionEndRecord, Stop}, NEW e \in early PROVE ~Queued(e.rec)'
    <3>1. ASSUME NEW i \in 1..Len(queue') PROVE queue'[i] # e.rec
      <4>1. i + 1 \in 1..Len(queue) /\ 1 < i + 1 /\ queue'[i] = queue[i + 1]
        BY <1>6
      <4> QED
        BY <1>1, <1>6, <2>5, <4>1 DEF EndOK
    <3> QED
      BY <1>4, <3>1 DEF Queued
  <2>6. ASSUME <<"ended", Stop>> \in Ahead("writer")', NEW e \in early' PROVE ~Queued(e.rec)'
    <3>1. r = Stop
      BY <1>3, <2>6 DEF t
    <3> QED
      BY <1>4, <2>5, <2>6, <3>1
  <2>7. ASSUME ~overlapped', Begun(SessionEndRecord)', NEW e \in early'
        PROVE  ~Queued(e.rec)' /\ \A u \in Threads : \A x \in Ahead(u)' : x[2] # e.rec
    <3>1. CASE Begun(SessionEndRecord)
      <4>1. ~Queued(e.rec) /\ \A u \in Threads : \A x \in Ahead(u) : x[2] # e.rec
        BY <1>1, <1>3, <1>4, <2>7, <3>1 DEF EndOK
      <4> QED
        BY <1>6, <1>8, <4>1
    <3>2. CASE r = SessionEndRecord
      <4>1. r # Stop
        BY <3>2, Records
      <4>2. ~Queued(e.rec)'
        BY <1>4, <2>5, <2>7, <3>2
      <4>3. ASSUME NEW u \in Threads, NEW x \in Ahead(u)' PROVE x[2] # e.rec
        <5>1. e.rec # Stop /\ e.rec # SessionEndRecord
          BY <1>4, <2>2, <2>7
        <5>2. CASE u = t
          BY <1>3, <3>2, <4>3, <5>1, <5>2
        <5>3. CASE u # t
          BY <1>3, <1>7, <2>7, <4>1, <4>3, <5>1, <5>3
        <5> QED
          BY <5>2, <5>3
      <4> QED
        BY <4>2, <4>3
    <3> QED
      BY <2>1, <2>7, <3>1, <3>2
  <2>8. EndsFile(events)' /\ EndsFile(blocks)'
    BY <1>1, <1>3, <1>4, SMTT(30) DEF EndOK, EndsFile
  <2>9. footer' => closed'
    BY <1>1, <1>4 DEF EndOK
  <2> QED
    BY <2>3, <2>4, <2>6, <2>7, <2>8, <2>9 DEF EndOK
<1>19. KeptOK'
  <2>1. (\E e \in early' : e.counts) => counted' > 0
    BY <1>1, <1>4 DEF KeptOK
  <2>2. ASSUME NEW do \in Dos, do # "init", r # Stop, do \in ToSet(Steps(r[1])) PROVE Coming(<<do, r>>)'
    BY <1>3, <1>4, <2>2 DEF Coming
  <2>3. "event" \in Dos /\ "block" \in Dos /\ "manifest" \in Dos
    BY DEF Dos
  <2>4. ASSUME failures' = 0, NEW e \in early', NEW do \in {"event", "block"},
               do \in ToSet(Steps(e.rec[1])), Queued(e.rec)
        PROVE  Queued(e.rec)' \/ Coming(<<do, e.rec>>)'
    <3>1. CASE e.rec = r
      <4>1. r # Stop
        <5>1. r \in Calls
          BY <1>1, <1>4, <2>4, <3>1 DEF VariablesOK
        <5> QED
          BY <5>1, Records DEF Calls
      <4> QED
        BY <2>2, <2>3, <2>4, <3>1, <4>1
    <3>2. CASE e.rec # r
      BY <1>6, <2>4, <3>2
    <3> QED
      BY <3>1, <3>2
  <2>5. ASSUME failures' = 0, NEW e \in early', "event" \in ToSet(Steps(e.rec[1]))
        PROVE  \/ Queued(e.rec)' \/ Coming(<<"event", e.rec>>)'
               \/ \E i \in 1..Len(events') : events'[i].rec = e.rec
    <3>1. \/ Queued(e.rec) \/ Coming(<<"event", e.rec>>)
          \/ \E i \in 1..Len(events) : events[i].rec = e.rec
      BY <1>1, <1>4, <2>5 DEF KeptOK
    <3>2. Queued(e.rec) => Queued(e.rec)' \/ Coming(<<"event", e.rec>>)'
      BY <2>4, <2>5
    <3> QED
      BY <1>4, <1>9, <3>1, <3>2
  <2>6. ASSUME failures' = 0, NEW e \in early', "block" \in ToSet(Steps(e.rec[1]))
        PROVE  \/ Queued(e.rec)' \/ Coming(<<"block", e.rec>>)'
               \/ \E i \in 1..Len(blocks') : blocks'[i].rec = e.rec
    <3>1. \/ Queued(e.rec) \/ Coming(<<"block", e.rec>>)
          \/ \E i \in 1..Len(blocks) : blocks[i].rec = e.rec
      BY <1>1, <1>4, <2>6 DEF KeptOK
    <3>2. Queued(e.rec) => Queued(e.rec)' \/ Coming(<<"block", e.rec>>)'
      BY <2>4, <2>6
    <3> QED
      BY <1>4, <1>9, <3>1, <3>2
  <2>7. ASSUME failures' = 0, \E e \in early' : e.counts, Cardinality(early') = records'
        PROVE  \/ manifest' = StatusNow' \/ InTurn(Manifest)' \/ Coming(<<"manifest", Manifest>>)'
    <3>1. manifest = StatusNow \/ InTurn(Manifest) \/ Coming(<<"manifest", Manifest>>)
      BY <1>1, <1>4, <2>7 DEF KeptOK
    <3>2. StatusNow' = StatusNow
      BY <1>4 DEF StatusNow
    <3>3. r = Manifest => Coming(<<"manifest", Manifest>>)'
      <4>1. Manifest # Stop /\ Manifest[1] = "manifest"
        BY Records
      <4>2. "manifest" \in ToSet(Steps("manifest"))
        <5>1. 2 \in DOMAIN Steps("manifest") /\ Steps("manifest")[2] = "manifest"
          BY StepLists DEF Spelt
        <5> QED
          BY <5>1 DEF ToSet
      <4> QED
        BY <2>2, <2>3, <4>1, <4>2
    <3> QED
      BY <1>4, <1>6, <1>9, <3>1, <3>2, <3>3
  <2>8. ASSUME failures' = 0, \E e \in early' : e.counts, closed'
        PROVE  \/ InTurn(SessionEndRecord)' \/ Coming(<<"block", SessionEndRecord>>)'
               \/ \E i \in 1..Len(blocks') : blocks'[i].rec = SessionEndRecord
    <3>1. \/ InTurn(SessionEndRecord) \/ Coming(<<"block", SessionEndRecord>>)
          \/ \E i \in 1..Len(blocks) : blocks[i].rec = SessionEndRecord
      BY <1>1, <1>4, <2>8 DEF KeptOK
    <3>2. r = SessionEndRecord => Coming(<<"block", SessionEndRecord>>)'
      <4>1. SessionEndRecord # Stop /\ SessionEndRecord[1] = "ended"
        BY Records
      <4>2. "block" \in ToSet(Steps("ended"))
        <5>1. 5 \in DOMAIN Steps("ended") /\ Steps("ended")[5] = "block"
          BY StepLists DEF Spelt
        <5> QED
          BY <5>1 DEF ToSet
      <4> QED
        BY <2>2, <2>3, <4>1, <4>2
    <3> QED
      BY <1>4, <1>6, <1>9, <3>1, <3>2
  <2> QED
    BY <2>1, <2>5, <2>6, <2>7, <2>8 DEF KeptOK
<1> QED
  BY <1>12, <1>13, <1>14, <1>15, <1>16, <1>17, <1>18, <1>19 DEF Inv

-----------------------------------------------------------------------------
(* The theorems                                                            *)

(* The invariant holds before anything was logged. *)
LEMMA InitInv == LWInit => Inv
<1> SUFFICES ASSUME LWInit PROVE Inv
  OBVIOUS
<1>1. /\ mode \in {"off", "sync", "async"} /\ transport = (mode = "async")
      /\ initialized = FALSE /\ closed = FALSE /\ footer = FALSE /\ overlapped = FALSE
      /\ step = 0 /\ seq = 0 /\ counted = 0 /\ records = 0 /\ failures = 0 /\ status = "open"
      /\ queue = <<>> /\ events = <<>> /\ blocks = <<>> /\ early = {}
      /\ program = [t \in Threads |-> <<>>]
      /\ held = [t \in Threads |-> [step |-> 0, seq |-> 0]]
  BY DEF LWInit
<1>2. /\ Len(queue) = 0 /\ Len(events) = 0 /\ Len(blocks) = 0
      /\ queue \in Seq(Items) /\ events \in Seq(EventType) /\ blocks \in Seq(BlockType)
  BY <1>1
<1>3. \A t \in Threads : program[t] = <<>> /\ Ahead(t) = {} /\ First(t) = "none" /\ ~Writing(t)
                         /\ Shaped(program[t])
  <2> SUFFICES ASSUME NEW t \in Threads
               PROVE  program[t] = <<>> /\ Ahead(t) = {} /\ First(t) = "none" /\ ~Writing(t)
                      /\ Shaped(program[t])
    OBVIOUS
  <2>1. program[t] = <<>>
    BY <1>1
  <2> QED
    BY <2>1, Empty DEF Ahead, First, Writing, Idle, Pending
<1>4. VariablesOK
  <2>1. transport \in BOOLEAN /\ (transport => mode = "async")
    <3>1. CASE mode = "async"
      BY <1>1, <3>1
    <3>2. CASE mode # "async"
      BY <1>1, <3>2
    <3> QED
      BY <3>1, <3>2
  <2>2. MaxRecords \in Nat /\ MaxFailures \in Nat
    BY LogAssumption
  <2>3. held \in [Threads -> [step : Nat, seq : Nat]] /\ DOMAIN program = Threads
    BY <1>1
  <2>4. IsFiniteSet(early) /\ Cardinality(early) = 0 /\ early = {}
    BY <1>1, FS_EmptySet
  <2>5. /\ mode \in {"off", "sync", "async"}
        /\ initialized \in BOOLEAN /\ closed \in BOOLEAN /\ footer \in BOOLEAN
        /\ overlapped \in BOOLEAN /\ status \in {"open", "closed"}
    BY <1>1
  <2>6. /\ records \in 0..MaxRecords /\ failures \in 0..MaxFailures
        /\ counted \in Nat /\ counted <= records /\ step \in Nat /\ seq \in Nat
        /\ Cardinality(early) <= records
    BY <1>1, <2>2, <2>4
  <2>7. \A e \in early : e.rec \in Calls /\ e.rec[2] <= records
    BY <2>4
  <2>8. \A t \in Threads : Shaped(program[t])
    BY <1>3
  <2> QED
    BY <1>2, <2>1, <2>3, <2>4, <2>5, <2>6, <2>7, <2>8 DEF VariablesOK
<1>5. StepsOK
  BY <1>2, <1>3 DEF StepsOK, Carrying
<1>6. SeqsOK
  <2>1. Count("number") = 0 /\ Count("event") = 0
    BY <1>3, CountTypes
  <2> QED
    BY <1>1, <1>2, <1>3, <2>1 DEF SeqsOK
<1>7. RecordsOK
  BY <1>2, <1>3 DEF RecordsOK, Elsewhere
<1>8. OrderOK
  BY <1>2, <1>3 DEF OrderOK, Before
<1>9. StartOK
  BY <1>1, <1>2, <1>3 DEF StartOK, StartsFile
<1>10. EndOK
  <2>1. \A r : ~Queued(r) /\ ~Begun(r)
    BY <1>2, <1>3 DEF Queued, Begun
  <2> QED
    BY <1>1, <1>2, <2>1 DEF EndOK, EndsFile
<1>11. KeptOK
  BY <1>1 DEF KeptOK
<1> QED
  BY <1>4, <1>5, <1>6, <1>7, <1>8, <1>9, <1>10, <1>11 DEF Inv

(* When nothing changes it stays. *)
LEMMA StutterInv == ASSUME Inv, UNCHANGED lwVars PROVE Inv'
<1>1. UNCHANGED <<mode, initialized, closed, footer, transport, step, seq, counted, status, queue,
                  events, blocks, manifest, program, held, records, failures, early, overlapped>>
  BY DEF lwVars, flags, numbers, files, local, history
<1>2. /\ \A t : First(t)' = First(t) /\ Ahead(t)' = Ahead(t)
      /\ \A t : Writing(t)' = Writing(t)
  BY <1>1 DEF First, Ahead, Writing, At, Idle, Task, Pending
<1>3. \A r : Queued(r)' = Queued(r) /\ InTurn(r)' = InTurn(r)
  BY <1>1 DEF Queued, InTurn
<1>4. \A r : Begun(r)' = Begun(r) /\ Coming(r)' = Coming(r)
  BY <1>1, <1>2 DEF Begun, Coming
<1>5. VariablesOK'
  BY <1>1 DEF Inv, VariablesOK
<1>6. StepsOK'
  <2>1. \A t : Carrying(t)' = Carrying(t)
    BY <1>2 DEF Carrying
  <2> QED
    BY <1>1, <1>2, <2>1 DEF Inv, StepsOK
<1>7. SeqsOK'
  <2>1. Count("number")' = Count("number") /\ Count("event")' = Count("event")
    BY <1>2 DEF Count, One
  <2> QED
    BY <1>1, <1>2, <2>1 DEF Inv, SeqsOK
<1>8. RecordsOK'
  BY <1>1, <1>2 DEF Inv, RecordsOK, Elsewhere
<1>9. OrderOK'
  BY <1>1, <1>2 DEF Inv, OrderOK, Before
<1>10. StartOK'
  BY <1>1, <1>2 DEF Inv, StartOK, StartsFile
<1>11. EndOK'
  BY <1>1, <1>2, <1>3, <1>4 DEF Inv, EndOK, EndsFile
<1>12. KeptOK'
  <2>1. StatusNow' = StatusNow
    BY <1>1 DEF StatusNow
  <2> QED
    BY <1>1, <1>3, <1>4, <2>1 DEF Inv, KeptOK
<1> QED
  BY <1>5, <1>6, <1>7, <1>8, <1>9, <1>10, <1>11, <1>12 DEF Inv

(* Every step keeps it. *)
LEMMA NextInv == Inv /\ [LWNext]_lwVars => Inv'
<1> SUFFICES ASSUME Inv, [LWNext]_lwVars PROVE Inv'
  OBVIOUS
<1>1. CASE UNCHANGED lwVars
  BY <1>1, StutterInv
<1>2. CASE LogCall
  <2>1. PICK name \in {"event", "exchange", "snapshot"}, tallied \in BOOLEAN, refresh \in BOOLEAN :
          /\ Log(name, tallied, refresh) /\ (tallied => refresh)
          /\ (refresh => name # "snapshot")
    <3>1. CASE StartTurn
      BY <3>1 DEF StartTurn, RecordTurnStarted
    <3>2. CASE LogLlmRequest
      BY <3>2 DEF LogLlmRequest, RecordLlmRequest
    <3>3. CASE LogLlmResponse
      BY <3>3 DEF LogLlmResponse, RecordLlmResponse
    <3>4. CASE LogToolCall
      BY <3>4 DEF LogToolCall, RecordToolCall
    <3>5. CASE LogToolResult
      BY <3>5 DEF LogToolResult, RecordToolResult
    <3>6. CASE LogSkillEvent
      BY <3>6 DEF LogSkillEvent, RecordSkillEvent
    <3>7. CASE LogSubagentEvent
      BY <3>7 DEF LogSubagentEvent, RecordSubagentEvent
    <3>8. CASE LogPlanEvent
      BY <3>8 DEF LogPlanEvent, RecordPlanEvent
    <3>9. CASE LogMemoryEvent
      BY <3>9 DEF LogMemoryEvent, RecordMemoryEvent
    <3>10. CASE LogCompactionEvent
      BY <3>10 DEF LogCompactionEvent, RecordCompactionEvent
    <3>11. CASE CompactionSnapshot
      BY <3>11 DEF CompactionSnapshot, RecordCompactionSnapshot
    <3>12. CASE LogError
      BY <3>12 DEF LogError, RecordError
    <3>13. CASE FinishTurn
      BY <3>13 DEF FinishTurn, RecordTurnCompleted
    <3> QED
      BY <1>2, <3>1, <3>2, <3>3, <3>4, <3>5, <3>6, <3>7, <3>8, <3>9, <3>10, <3>11, <3>12, <3>13
         DEF LogCall
  <2> QED
    BY <2>1, LogInv
<1>3. CASE Take
  BY <1>3, TakeInv
<1>4. ASSUME NEW t \in Threads,
             EnsureSessionDir(t) \/ Close(t) \/ Join(t) \/ Write(t) \/ Fail(t)
      PROVE  Inv'
  <2>1. CASE EnsureSessionDir(t)
    BY <2>1, EnsureSessionDirInv
  <2>2. CASE Close(t)
    BY <2>2, CloseInv
  <2>3. CASE Join(t)
    BY <2>3, JoinInv
  <2>4. CASE Fail(t)
    BY <2>4, FailInv
  <2>5. CASE EnsureInitialized(t)
    BY <2>5, EnsureInitializedInv
  <2>6. CASE Create(t)
    BY <2>6, CreateInv
  <2>7. CASE SkipStart(t)
    BY <2>7, SkipStartInv
  <2>8. CASE NextTimelineSeq(t)
    BY <2>8, NextTimelineSeqInv
  <2>9. CASE Number(t)
    BY <2>9, NumberInv
  <2>10. CASE AppendEvent(t)
    BY <2>10, AppendEventInv
  <2>11. CASE AppendLlmLog(t)
    BY <2>11, AppendLlmLogInv
  <2>12. CASE Footer(t)
    BY <2>12, FooterInv
  <2>13. CASE WriteManifest(t)
    BY <2>13, WriteManifestInv
  <2> QED
    BY <1>4, <2>1, <2>2, <2>3, <2>4, <2>5, <2>6, <2>7, <2>8, <2>9, <2>10, <2>11, <2>12, <2>13
       DEF Write
<1> QED
  BY <1>1, <1>2, <1>3, <1>4 DEF LWNext

(* The invariant holds always. *)
LEMMA Invariant == LWSpec => []Inv
<1>1. LWInit => Inv
  BY InitInv
<1>2. Inv /\ [LWNext]_lwVars => Inv'
  BY NextInv
<1> QED
  BY <1>1, <1>2, PTL DEF LWSpec

(* What it says of the logs is their soundness. *)
LEMMA InvSound == Inv => TimelineIsSound
<1> SUFFICES ASSUME Inv PROVE TimelineIsSound
  OBVIOUS
<1>1. /\ VariablesOK /\ StepsOK /\ SeqsOK /\ RecordsOK /\ OrderOK /\ StartOK /\ EndOK
  BY DEF Inv
<1>2. /\ events \in Seq(EventType) /\ blocks \in Seq(BlockType)
      /\ DOMAIN events = 1..Len(events) /\ DOMAIN blocks = 1..Len(blocks)
      /\ Len(events) \in Nat /\ Len(blocks) \in Nat
  <2>1. events \in Seq(EventType) /\ blocks \in Seq(BlockType)
    BY <1>1 DEF VariablesOK
  <2> QED
    BY <2>1
<1>3. LWTypeOK
  <2>1. /\ mode \in {"off", "sync", "async"} /\ (transport => mode = "async")
        /\ status \in {"open", "closed"}
        /\ records \in 0..MaxRecords /\ failures \in 0..MaxFailures /\ counted <= records
        /\ step \in Nat /\ seq \in Nat
    BY <1>1 DEF VariablesOK
  <2>2. /\ seq + Count("number") <= step /\ Len(events) + Count("event") <= seq
    BY <1>1 DEF SeqsOK
  <2>3. Count("number") \in 0..3 /\ Count("event") \in 0..3
    BY CountTypes
  <2>4. step >= seq /\ seq >= Len(events)
    BY <1>2, <2>1, <2>2, <2>3
  <2>5. footer => closed
    BY <1>1 DEF EndOK
  <2> QED
    BY <2>1, <2>4, <2>5 DEF LWTypeOK
<1>4. ASSUME NEW i \in DOMAIN events, NEW j \in DOMAIN events, i # j
      PROVE  /\ events[i].step # events[j].step /\ events[i].seq # events[j].seq
             /\ events[i].rec[2] > 0 => events[i].rec # events[j].rec
  <2>1. i < j \/ j < i
    BY <1>2, <1>4
  <2>2. events[i].step # events[j].step
    BY <1>1, <1>2, <1>4, <2>1 DEF StepsOK
  <2>3. events[i].seq # events[j].seq
    BY <1>1, <1>2, <1>4, <2>1 DEF SeqsOK
  <2>4. Elsewhere(events, "event")
    BY <1>1 DEF RecordsOK
  <2>5. events[i].rec[2] > 0 => events[i].rec # events[j].rec
    BY <1>2, <1>4, <2>4 DEF Elsewhere
  <2> QED
    BY <2>2, <2>3, <2>5
<1>5. ASSUME NEW i \in DOMAIN blocks, NEW j \in DOMAIN blocks, i # j
      PROVE  /\ blocks[i].step # blocks[j].step
             /\ blocks[i].rec[2] > 0 => blocks[i].rec # blocks[j].rec
  <2>1. i < j \/ j < i
    BY <1>2, <1>5
  <2>2. blocks[i].step # blocks[j].step
    BY <1>1, <1>2, <1>5, <2>1 DEF StepsOK
  <2>4. Elsewhere(blocks, "block")
    BY <1>1 DEF RecordsOK
  <2>5. blocks[i].rec[2] > 0 => blocks[i].rec # blocks[j].rec
    BY <1>2, <1>5, <2>4 DEF Elsewhere
  <2> QED
    BY <2>2, <2>5
<1>6. ASSUME ~overlapped PROVE Sorted(events)
  <2>1. Before(events, "event") /\ StartsFile(events, "event") /\ EndsFile(events)
    BY <1>1, <1>6 DEF OrderOK, StartOK, EndOK
  <2> SUFFICES ASSUME NEW i \in 1..Len(events), NEW j \in 1..Len(events), i < j
               PROVE  /\ events[i].step < events[j].step
                      /\ events[i].rec[2] > 0 /\ events[j].rec[2] > 0 =>
                           events[i].rec[2] < events[j].rec[2]
                      /\ events[j].rec # SessionStartRecord
                      /\ events[i].rec = SessionEndRecord => \A e \in early : e.rec # events[j].rec
    BY <1>2 DEF Sorted
  <2>2. events[i].step < events[j].step
    BY <1>1, <1>6 DEF StepsOK
  <2>3. events[i].rec[2] > 0 /\ events[j].rec[2] > 0 => events[i].rec[2] < events[j].rec[2]
    BY <2>1 DEF Before
  <2>4. events[j].rec # SessionStartRecord
    <3>1. events[j].rec = SessionStartRecord => j = 1
      BY <1>6, <2>1 DEF StartsFile
    <3> QED
      BY <1>2, <3>1
  <2>5. events[i].rec = SessionEndRecord => \A e \in early : e.rec # events[j].rec
    BY <1>6, <2>1 DEF EndsFile
  <2> QED
    BY <2>2, <2>3, <2>4, <2>5
<1>7. ASSUME ~overlapped PROVE Sorted(blocks)
  <2>1. Before(blocks, "block") /\ StartsFile(blocks, "block") /\ EndsFile(blocks)
    BY <1>1, <1>7 DEF OrderOK, StartOK, EndOK
  <2> SUFFICES ASSUME NEW i \in 1..Len(blocks), NEW j \in 1..Len(blocks), i < j
               PROVE  /\ blocks[i].step < blocks[j].step
                      /\ blocks[i].rec[2] > 0 /\ blocks[j].rec[2] > 0 =>
                           blocks[i].rec[2] < blocks[j].rec[2]
                      /\ blocks[j].rec # SessionStartRecord
                      /\ blocks[i].rec = SessionEndRecord => \A e \in early : e.rec # blocks[j].rec
    BY <1>2 DEF Sorted
  <2>2. blocks[i].step < blocks[j].step
    BY <1>1, <1>7 DEF StepsOK
  <2>3. blocks[i].rec[2] > 0 /\ blocks[j].rec[2] > 0 => blocks[i].rec[2] < blocks[j].rec[2]
    BY <2>1 DEF Before
  <2>4. blocks[j].rec # SessionStartRecord
    <3>1. blocks[j].rec = SessionStartRecord => j = 1
      BY <1>7, <2>1 DEF StartsFile
    <3> QED
      BY <1>2, <3>1
  <2>5. blocks[i].rec = SessionEndRecord => \A e \in early : e.rec # blocks[j].rec
    BY <1>7, <2>1 DEF EndsFile
  <2> QED
    BY <2>2, <2>3, <2>4, <2>5
<1>8. ~overlapped /\ failures = 0 => \A i \in DOMAIN events : events[i].seq = i
  BY <1>1, <1>2 DEF SeqsOK
<1>9. Distinct(events) /\ Distinct(blocks)
  BY <1>4, <1>5 DEF Distinct
<1> QED
  BY <1>3, <1>4, <1>6, <1>7, <1>8, <1>9 DEF TimelineIsSound

(* And their completeness. *)
LEMMA InvComplete == Inv => LogIsComplete
<1> SUFFICES ASSUME Inv PROVE LogIsComplete
  OBVIOUS
<1>1. VariablesOK /\ EndOK /\ KeptOK
  BY DEF Inv
<1>2. /\ events \in Seq(EventType) /\ blocks \in Seq(BlockType) /\ queue \in Seq(Items)
      /\ DOMAIN events = 1..Len(events) /\ DOMAIN blocks = 1..Len(blocks)
      /\ DOMAIN queue = 1..Len(queue)
      /\ \A e \in early : e.rec \in Calls /\ e.rec # Stop
  <2>1. events \in Seq(EventType) /\ blocks \in Seq(BlockType) /\ queue \in Seq(Items)
    BY <1>1 DEF VariablesOK
  <2>2. \A e \in early : e.rec \in Calls /\ e.rec # Stop
    <3>1. \A e \in early : e.rec \in Calls
      BY <1>1 DEF VariablesOK
    <3> QED
      BY <3>1, Records DEF Calls
  <2> QED
    BY <2>1, <2>2
<1>3. ASSUME Stopped, NEW e \in early, NEW i \in DOMAIN queue PROVE queue[i] # e.rec
  <2> DEFINE p == program["writer"]
  <2>1. "writer" \in Threads /\ At("writer", "ended")
    BY <1>3 DEF Stopped, Threads
  <2>2. PICK k \in 1..Len(p) : Task("writer") = p[k] /\ p[k][1] = "ended"
    BY <1>1, <2>1, AtStep
  <2>3. Shaped(p)
    BY <1>1, <2>1 DEF VariablesOK
  <2>4. p[k] = <<"ended", Stop>>
    BY <2>2, <2>3 DEF Shaped, Fits
  <2>5. <<"ended", Stop>> \in Ahead("writer")
    BY <2>2, <2>4 DEF Ahead, AheadOf
  <2> QED
    BY <1>1, <1>2, <1>3, <2>5 DEF EndOK, Queued
<1>4. ASSUME ~Busy, failures = 0
      PROVE  /\ \A e \in early : InFiles(e.rec)
             /\ ~overlapped /\ (\E e \in early : e.counts) =>
                  /\ Cardinality(early) = records => manifest = StatusNow
                  /\ closed => Written(blocks, SessionEndRecord) # {}
  <2>1. queue = <<>> /\ \A t \in Threads : Idle(t) \/ (t = "writer" /\ Stopped)
    BY <1>4 DEF Busy
  <2>2. \A t \in Threads : ~Writing(t)
    BY <2>1 DEF Writing, Stopped
  <2>3. \A t \in Threads : \A x \in Ahead(t) : x[2] = Stop
    BY <1>1, <2>2, Resting
  <2>4. \A x : Coming(x) => x[2] = Stop
    BY <2>3 DEF Coming
  <2>5. \A r : ~Queued(r) /\ ~InTurn(r)
    <3>1. Len(queue) = 0
      BY <2>1
    <3> QED
      BY <3>1 DEF Queued, InTurn
  <2>6. ASSUME NEW e \in early PROVE InFiles(e.rec)
    <3>1. /\ "event" \in ToSet(Steps(e.rec[1])) =>
               \/ Queued(e.rec) \/ Coming(<<"event", e.rec>>)
               \/ \E i \in 1..Len(events) : events[i].rec = e.rec
          /\ "block" \in ToSet(Steps(e.rec[1])) =>
               \/ Queued(e.rec) \/ Coming(<<"block", e.rec>>)
               \/ \E i \in 1..Len(blocks) : blocks[i].rec = e.rec
      BY <1>1, <1>4 DEF KeptOK
    <3>2. ~Coming(<<"event", e.rec>>) /\ ~Coming(<<"block", e.rec>>)
      BY <1>2, <2>4
    <3> QED
      BY <1>2, <2>5, <3>1, <3>2 DEF InFiles, Written
  <2>7. ASSUME \E e \in early : e.counts, Cardinality(early) = records PROVE manifest = StatusNow
    <3>1. manifest = StatusNow \/ InTurn(Manifest) \/ Coming(<<"manifest", Manifest>>)
      BY <1>1, <1>4, <2>7 DEF KeptOK
    <3>2. Manifest # Stop
      BY Records
    <3> QED
      BY <2>4, <2>5, <3>1, <3>2
  <2>8. ASSUME \E e \in early : e.counts, closed PROVE Written(blocks, SessionEndRecord) # {}
    <3>1. \/ InTurn(SessionEndRecord) \/ Coming(<<"block", SessionEndRecord>>)
          \/ \E i \in 1..Len(blocks) : blocks[i].rec = SessionEndRecord
      BY <1>1, <1>4, <2>8 DEF KeptOK
    <3>2. SessionEndRecord # Stop
      BY Records
    <3>3. ~Coming(<<"block", SessionEndRecord>>) /\ ~InTurn(SessionEndRecord)
      BY <2>4, <2>5, <3>2
    <3>4. \E i \in DOMAIN blocks : blocks[i].rec = SessionEndRecord
      BY <1>2, <3>1, <3>3
    <3> QED
      BY <3>4 DEF Written
  <2> QED
    BY <2>6, <2>7, <2>8
<1> QED
  BY <1>3, <1>4 DEF LogIsComplete

(* SessionLogger: the two logs of a session tell one story, whichever      *)
(* threads log, write and close, and however many writes fail: no number   *)
(* and no record is in a log twice; and as long as threads do not meet the *)
(* events are in the order of the calls, between the session's start and   *)
(* its end.                                                                *)
THEOREM TimelineSound == LWSpec => []TimelineIsSound
<1>1. Inv => TimelineIsSound
  BY InvSound
<1> QED
  BY <1>1, Invariant, PTL

(* SessionLogger.close and the transport: when the writer ends nothing     *)
(* that was logged before the close is left in its queue, and when nothing *)
(* is left to do all of it is in the files, if no write failed.            *)
THEOREM LogComplete == LWSpec => []LogIsComplete
<1>1. Inv => LogIsComplete
  BY InvComplete
<1> QED
  BY <1>1, Invariant, PTL
================================================================================
