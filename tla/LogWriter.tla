------------------------------- MODULE LogWriter -------------------------------
(***************************************************************************)
(* SessionLogger and its AsyncWriteTransport: one session's events.jsonl,  *)
(* llm.log and session.json.  In async mode a writer thread takes the      *)
(* records from a queue, otherwise the thread that logs writes them.  The  *)
(* lock covers one file access; the step and sequence numbers, the flag    *)
(* that says the files exist, the counters and the closing are outside it. *)
(* An increment of a counter is one step, as it is in CPython.             *)
(*                                                                         *)
(* A thread's program is the sequence of the steps it still has to make,   *)
(* each for a record; the records are numbered in the order of the calls.  *)
(***************************************************************************)
EXTENDS Naturals, Sequences, FiniteSets, SequencesExt

CONSTANTS MaxRecords,  \* bound: records logged
          MaxFailures  \* bound: writes that fail

ASSUME LogAssumption == MaxRecords \in Nat /\ MaxFailures \in Nat

(* The thread of the turn, a request thread of the admin view or of a      *)
(* capability reload, and the transport's thread.                          *)
Threads == {"agent", "admin", "writer"}

VARIABLES mode,                     \* "off", "sync" or "async"
          initialized, closed, footer, transport,
          step, seq, counted,       \* _timeline_seq, _event_seq, the counters
          status,                   \* _session_status
          queue,                    \* the transport's
          events, blocks, manifest, \* the files
          program, held,            \* per thread: its steps, its local numbers
          records, failures,
          early, overlapped         \* history: logged before the close; threads met

flags   == <<mode, initialized, closed, footer, transport>>
numbers == <<step, seq, counted>>
files   == <<events, blocks, manifest>>
local   == <<program, held>>
history == <<early, overlapped>>
lwVars    == <<flags, numbers, status, queue, files, local, records, failures, history>>

NoManifest == [counted |-> 0, status |-> "none"]
Stop       == <<"stop", 0>>

LWInit == /\ mode \in {"off", "sync", "async"}
          /\ initialized = FALSE /\ closed = FALSE /\ footer = FALSE
          /\ transport = (mode = "async")
          /\ step = 0 /\ seq = 0 /\ counted = 0
          /\ status = "open"
          /\ queue = <<>>
          /\ events = <<>> /\ blocks = <<>> /\ manifest = NoManifest
          /\ program = [t \in Threads |-> <<>>]
          /\ held = [t \in Threads |-> [step |-> 0, seq |-> 0]]
          /\ records = 0 /\ failures = 0
          /\ early = {} /\ overlapped = FALSE

-----------------------------------------------------------------------------
(* The records: events go to both logs, exchanges with the model to        *)
(* llm.log, a compaction's snapshot to a file of its own, left out here.   *)
RecordTurnStarted        == "event"
RecordLlmRequest         == "exchange"
RecordLlmResponse        == "exchange"
RecordCompactionEvent    == "event"
RecordMemoryEvent        == "event"
RecordSubagentEvent      == "event"
RecordPlanEvent          == "event"
RecordSkillEvent         == "event"
RecordToolCall           == "event"
RecordToolResult         == "event"
RecordTurnCompleted      == "event"
RecordError              == "event"
RecordCompactionSnapshot == "snapshot"

(* What the write of a record is made of.  The end's number is taken before *)
(* the check, which shows only if creating the files had failed until then. *)
Both == <<"step", "number", "event", "block">>

RecordSessionStarted   == <<"start", "number", "event", "block">>
RecordSessionCompleted == <<"init">> \o Both \o <<"footer">>
WriteSessionManifest   == <<"init", "manifest">>

WriteFallbackError     == <<"init", "step", "number", "event">>

Steps(name) == CASE name = "event"    -> <<"init">> \o Both
                 [] name = "exchange" -> <<"init", "step", "block">>
                 [] name = "snapshot" -> <<"init">>
                 [] name = "started"  -> RecordSessionStarted
                 [] name = "ended"    -> RecordSessionCompleted
                 [] name = "manifest" -> WriteSessionManifest
                 [] name = "trouble"  -> WriteFallbackError

Record(name, id) == <<name, id>>

SessionStartRecord == Record("started", 0)
SessionEndRecord   == Record("ended", 0)
Manifest           == Record("manifest", 0)
FallbackRecord     == Record("trouble", 0)

(* A record's steps, as part of a program. *)
Program(r) == LET steps == Steps(r[1]) IN [i \in DOMAIN steps |-> <<steps[i], r>>]

(* Once the files exist, which they do for good, the check is no step.     *)
Pending(t) == IF initialized /\ program[t] # <<>> /\ Head(program[t])[1] = "init"
              THEN Tail(program[t]) ELSE program[t]

Idle(t)   == Pending(t) = <<>>
Task(t)   == Head(Pending(t))
At(t, do) == ~Idle(t) /\ Task(t)[1] = do

Goes(t, steps) == program' = [program EXCEPT ![t] = steps]
Advance(t)     == Goes(t, Tail(Pending(t)))

(* Two threads work on the files at a time. *)
Writing(t) == ~Idle(t) /\ ~At(t, "join") /\ ~At(t, "ended")

(* Bounds: they are never three; once they have met, no call begins and no *)
(* write fails, and once a write has failed they do not meet.              *)
Room(t) == /\ ~\A u \in Threads \ {t} : Writing(u)
           /\ failures > 0 => \A u \in Threads : ~Writing(u)
Calm(t) == Room(t) /\ ~overlapped

Meets(t) == overlapped' = (overlapped \/ queue # <<>> \/ \E u \in Threads \ {t} : Writing(u))

-----------------------------------------------------------------------------
(* _submit_write, for a record and the manifest that may follow it. *)
Submit(t, r, refresh) ==
    IF transport
    THEN /\ queue' = queue \o (IF refresh THEN <<r, Manifest>> ELSE <<r>>)
         /\ UNCHANGED <<program, overlapped>>
    ELSE /\ Goes(t, IF refresh THEN Program(r) \o Program(Manifest) ELSE Program(r))
         /\ Meets(t)
         /\ UNCHANGED queue

(* A call of log_...: some count something, some rewrite the manifest.     *)
(* Bound: one comes after the close.                                       *)
Log(name, counts, refresh) ==
    /\ mode # "off" /\ Idle("agent") /\ Calm("agent") /\ records < MaxRecords
    /\ closed => records = Cardinality(early)
    /\ records' = records + 1
    /\ counted' = IF counts THEN counted + 1 ELSE counted
    /\ early' = IF closed THEN early
                ELSE early \cup {[rec |-> Record(name, records + 1), counts |-> counts]}
    /\ Submit("agent", Record(name, records + 1), refresh)
    /\ UNCHANGED <<flags, step, seq, status, files, held, failures>>

StartTurn          == Log(RecordTurnStarted, TRUE, TRUE)
LogLlmRequest      == Log(RecordLlmRequest, TRUE, TRUE)
LogLlmResponse     == Log(RecordLlmResponse, FALSE, FALSE)
LogToolCall        == Log(RecordToolCall, TRUE, TRUE)
LogToolResult      == Log(RecordToolResult, FALSE, FALSE)
LogSkillEvent      == Log(RecordSkillEvent, TRUE, TRUE)
LogSubagentEvent   == Log(RecordSubagentEvent, FALSE, FALSE)
LogPlanEvent       == Log(RecordPlanEvent, FALSE, FALSE)
LogMemoryEvent     == Log(RecordMemoryEvent, FALSE, FALSE)
LogCompactionEvent == Log(RecordCompactionEvent, FALSE, FALSE)
CompactionSnapshot == Log(RecordCompactionSnapshot, FALSE, FALSE)
LogError           == Log(RecordError, TRUE, TRUE)
FinishTurn         == Log(RecordTurnCompleted, FALSE, TRUE)

(* ensure_session_dir before subagents start, get_session_snapshot for the *)
(* admin view.  The former works for a disabled logger too; for one that   *)
(* writes, the other thread's call stands for both.                        *)
EnsureSessionDir(t) ==
    /\ Idle(t) /\ Calm(t) /\ ~initialized
    /\ t = (IF mode = "off" THEN "agent" ELSE "admin")
    /\ Goes(t, <<<<"init", Manifest>>>>) /\ Meets(t)
    /\ UNCHANGED <<flags, numbers, status, queue, files, held, records, failures, early>>

(* close, by the thread of the turn or, when the resources are replaced,   *)
(* by another: once, and nothing is written for a session without events.  *)
Finalizes == initialized \/ counted > 0

Farewell == (IF Finalizes THEN <<SessionEndRecord, Manifest>> ELSE <<>>)
              \o <<Stop>>

Close(t) ==
    /\ t \in {"agent", "admin"} /\ Idle(t) /\ Calm(t) /\ mode # "off" /\ ~closed
    /\ closed' = TRUE /\ status' = "closed"
    /\ IF transport
       THEN /\ queue' = queue \o Farewell
            /\ Goes(t, <<<<"join", Stop>>>>)
            /\ UNCHANGED overlapped
       ELSE /\ Goes(t, IF Finalizes
                       THEN Program(SessionEndRecord) \o Program(Manifest)
                       ELSE <<>>)
            /\ Meets(t) /\ UNCHANGED queue
    /\ UNCHANGED <<mode, initialized, footer, transport, numbers, files, held,
                   records, failures, early>>

(* The writer has ended, or the join gives up after five seconds: from now *)
(* on a thread that logs writes for itself.  When threads have met, nobody *)
(* will log any more, and the first is taken.                              *)
Stopped == At("writer", "ended")

Join(t) == /\ At(t, "join") /\ (overlapped => Stopped)
           /\ transport' = FALSE
           /\ Advance(t)
           /\ UNCHANGED <<mode, initialized, closed, footer, numbers, status, queue,
                          files, held, records, failures, history>>

-----------------------------------------------------------------------------
(* The transport's thread.  Nothing behind the stop item is taken. *)
Take == /\ mode = "async" /\ Idle("writer") /\ Room("writer") /\ queue # <<>>
        /\ queue' = Tail(queue)
        /\ IF Head(queue) = Stop
           THEN Goes("writer", <<<<"ended", Stop>>>>) /\ UNCHANGED overlapped
           ELSE /\ Goes("writer", Program(Head(queue)))
                /\ overlapped' = (overlapped \/ \E u \in Threads \ {"writer"} :
                                                  Writing(u))
        /\ UNCHANGED <<flags, numbers, status, files, held, records, failures, early>>

-----------------------------------------------------------------------------
(* The steps of a write. *)
Undisturbed == UNCHANGED <<mode, closed, transport, counted, status, queue, records, failures,
                     history>>

(* _ensure_initialized: the check, and then the work, which starts the log. *)
EnsureInitialized(t) ==
    /\ At(t, "init")
    /\ Goes(t, <<<<"create", Manifest>>>> \o Tail(Program(Manifest))
                  \o Program(SessionStartRecord) \o Tail(program[t]))
    /\ UNCHANGED <<initialized, footer, step, seq, files, held>> /\ Undisturbed

Create(t) == /\ At(t, "create")
             /\ initialized' = TRUE
             /\ Advance(t)
             /\ UNCHANGED <<footer, step, seq, files, held>> /\ Undisturbed

(* A log that has ended is not started. *)
SkipStart(t) ==
    /\ At(t, "start") /\ footer
    /\ Goes(t, SubSeq(program[t], 1 + Len(RecordSessionStarted), Len(program[t])))
    /\ UNCHANGED <<initialized, footer, step, seq, files, held>> /\ Undisturbed

NextTimelineSeq(t) ==
    /\ At(t, "step") \/ (At(t, "start") /\ ~footer)
    /\ step' = step + 1 /\ held' = [held EXCEPT ![t].step = step + 1]
    /\ Advance(t)
    /\ UNCHANGED <<initialized, footer, seq, files>> /\ Undisturbed

(* The mutant reads the number before it is counted. *)
SeqBefore == seq

EventSeq == seq + 1

Number(t) == /\ At(t, "number")
             /\ seq' = seq + 1 /\ held' = [held EXCEPT ![t].seq = EventSeq]
             /\ Advance(t)
             /\ UNCHANGED <<initialized, footer, step, files>> /\ Undisturbed

AppendEvent(t) ==
    /\ At(t, "event")
    /\ events' = Append(events, [rec |-> Task(t)[2], seq |-> held[t].seq,
                                 step |-> held[t].step])
    /\ held' = [held EXCEPT ![t].seq = 0]
    /\ Advance(t)
    /\ UNCHANGED <<initialized, footer, step, seq, blocks, manifest>> /\ Undisturbed

AppendLlmLog(t) ==
    /\ At(t, "block")
    /\ blocks' = Append(blocks, [rec |-> Task(t)[2], step |-> held[t].step])
    /\ held' = [held EXCEPT ![t].step = 0]
    /\ Advance(t)
    /\ UNCHANGED <<initialized, footer, step, seq, events, manifest>> /\ Undisturbed

Footer(t) == /\ At(t, "footer")
             /\ footer' = TRUE
             /\ Advance(t)
             /\ UNCHANGED <<initialized, step, seq, files, held>> /\ Undisturbed

(* The manifest tells the counters and the status of the moment.  Put      *)
(* together outside the lock, an older one may win when threads meet, of   *)
(* which nothing is claimed here.                                          *)
StatusNow == [counted |-> counted, status |-> status]

WriteManifest(t) ==
    /\ At(t, "manifest")
    /\ manifest' = StatusNow
    /\ Advance(t)
    /\ UNCHANGED <<initialized, footer, step, seq, events, blocks, held>> /\ Undisturbed

(* A write fails.  The writer gives up the record, tries to say so and     *)
(* takes the next one; any other thread gets the exception.  The mutant's  *)
(* writer does not catch it.                                               *)
WriterDies == <<<<"ended", Stop>>>>

AfterFailure == Program(FallbackRecord)

Fail(t) ==
    /\ \E do \in {"create", "event", "block", "manifest"} : At(t, do)
    /\ failures < MaxFailures /\ ~overlapped
    /\ failures' = failures + 1
    /\ Goes(t, IF t = "writer" /\ Task(t)[2] # FallbackRecord THEN AfterFailure ELSE <<>>)
    /\ UNCHANGED <<flags, numbers, status, queue, files, held, records, history>>

Write(t) == \/ EnsureInitialized(t) \/ Create(t) \/ SkipStart(t) \/ NextTimelineSeq(t)
            \/ Number(t) \/ AppendEvent(t) \/ AppendLlmLog(t) \/ Footer(t)
            \/ WriteManifest(t)

LogCall == \/ StartTurn \/ LogLlmRequest \/ LogLlmResponse \/ LogToolCall \/ LogToolResult
           \/ LogSkillEvent \/ LogSubagentEvent \/ LogPlanEvent \/ LogMemoryEvent
           \/ LogCompactionEvent \/ CompactionSnapshot \/ LogError \/ FinishTurn

LWNext == \/ LogCall \/ Take
          \/ \E t \in Threads : \/ EnsureSessionDir(t) \/ Close(t) \/ Join(t)
                                \/ Write(t) \/ Fail(t)

LWSpec == LWInit /\ [][LWNext]_lwVars

-----------------------------------------------------------------------------
Written(file, r) == {i \in DOMAIN file : file[i].rec = r}
Busy == queue # <<>> \/ \E t \in Threads : ~Idle(t) /\ ~(t = "writer" /\ Stopped)

(* The values of the variables. *)
LWTypeOK == /\ mode \in {"off", "sync", "async"} /\ transport => mode = "async"
            /\ status \in {"open", "closed"}
            /\ records \in 0..MaxRecords /\ failures \in 0..MaxFailures
            /\ counted <= records /\ step >= seq /\ seq >= Len(events)
            /\ footer => closed

(* The two logs tell one story: no two events and no two blocks share a    *)
(* number and no record is written twice.  As long as threads do not meet  *)
(* and no write fails, the events are numbered without gaps, in the order  *)
(* of the calls; the session's start comes first and only once, and only   *)
(* calls made after the close follow its end.                              *)
Distinct(file) == \A i, j \in DOMAIN file :
    i # j => file[i].step # file[j].step /\ (file[i].rec[2] > 0 => file[i].rec # file[j].rec)

Sorted(file) == \A i, j \in DOMAIN file : i < j =>
    /\ file[i].step < file[j].step
    /\ file[i].rec[2] > 0 /\ file[j].rec[2] > 0 => file[i].rec[2] < file[j].rec[2]
    /\ file[j].rec # SessionStartRecord
    /\ file[i].rec = SessionEndRecord => \A e \in early : e.rec # file[j].rec

TimelineIsSound ==
    /\ LWTypeOK
    /\ Distinct(events) /\ Distinct(blocks)
    /\ \A i, j \in DOMAIN events : i # j => events[i].seq # events[j].seq
    /\ ~overlapped => Sorted(events) /\ Sorted(blocks)
    /\ ~overlapped /\ failures = 0 => \A i \in DOMAIN events : events[i].seq = i

(* The writer does not end before it took all that was logged before the   *)
(* close, however often writes fail and even if close gave up waiting.     *)
(* Whenever nothing is left to do, everything that was logged before the   *)
(* close is in the files, whichever thread wrote it, unless a write failed *)
(* for it; and, if threads did not meet, the manifest tells the counters   *)
(* and the status as they are, if no call came late, and the session's end *)
(* is there, if anything was counted before it.                            *)
InFiles(r) == /\ "event" \in ToSet(Steps(r[1])) => Written(events, r) # {}
              /\ "block" \in ToSet(Steps(r[1])) => Written(blocks, r) # {}

LogIsComplete ==
    /\ Stopped => \A e \in early : \A i \in DOMAIN queue : queue[i] # e.rec
    /\ ~Busy /\ failures = 0 =>
        /\ \A e \in early : InFiles(e.rec)
        /\ ~overlapped /\ (\E e \in early : e.counts) =>
             /\ Cardinality(early) = records =>
                  manifest = StatusNow
             /\ closed => Written(blocks, SessionEndRecord) # {}
================================================================================
