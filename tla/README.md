# BabyClaw: TLA+ models and proofs

BabyClaw is an agent that runs as a terminal program and as an HTTP service
(`src/src/main.py`, `src/src/cli/serve.py`). The service keeps many sessions: each has a
worker thread with its own agent, a conversation that survives restarts in SQLite, a memory
workspace of markdown files, a log, and clients that follow a turn over server-sent events.
The terminal program runs one session, with a plan mode, a key listener and Ctrl-C. Both
install extensions and talk to MCP servers. This directory models the parts that run
concurrently, fail and recover, checks them with TLC and proves most of their safety
properties, for every value of the constants, with TLAPS. Paths below are relative to the repository (`src/src/...` is the Python package
`src`, `src/docs` its documentation).

## The system

| Component | State | Operations | Talks to |
|---|---|---|---|
| HTTP routes (`server/routes.py`) | none; runs on a thread pool | create, delete session; create turn; stream turn; detail; memory; reload | registry, database, bus, memory |
| `SessionRegistry` | `_runtimes`, `_initializing` (an Event per session being built) | `ensure_runtime`, `close_runtime`, `close_all` | database, `SessionRuntime` |
| `SessionRuntime` | `_turn_queue`, `_pending_turn_count`, `_active_turn_id`, `_closed`, `_event_seq`, persisted counters, a worker thread | `submit_turn`, `close`, the worker loop, `reload_capabilities` | agent, database, bus |
| `SessionDatabase` | tables `sessions`, `turns`, `messages` | one transaction per method; a process-wide write lock | SQLite (WAL) |
| `TurnEventBus` | subscriber queues per turn, the last 4096 closed turn ids | `publish`, `subscribe`, `close`, `close_all` | stream handlers |
| `Context`, `ContextCompactionManager` | messages, rolling summary, last prompt size | append, compact, hydrate | agent, database |
| `Agent`, `ToolRuntime` | schema cache, request metrics | one turn: prepare, model call, tool calls, finish | LLM, tools, subagents, memory |
| `SubagentManager` | runs, per-turn capacity | batches on a thread pool with a timeout | child agents, logger |
| `SessionMemory` (`memory/`) | markdown files per session, settings, audit log | upsert, update, archive, supersede, delete, daily notes, write-back | routes, memory tools, `/memory`, agent |
| `MCPServer`, `MCPManager` (`mcp.py`) | MCP session id, initialised flag, cached tool lists | call with re-initialisation and one retry, discovery, health check | tools, admin view, runtime refresh |
| `SessionLogger`, `AsyncWriteTransport` | step and sequence numbers, counters, queue of log records, files | log, flush, close with timeout | agent, admin view, subagents |
| `ExtensionManager`, `SkillManager` | catalog cache, discovered extensions and skills; the user's extension root on disk | install, discover | runtime refresh, commands, admin route |
| `CapabilityRequestManager` | requests and their status, under a lock | record, dismiss, resolve, auto-resolve | tools, routes, runtime refresh |
| Runtime refresh (`runtime_refresh.py`) | none of its own: swaps the agent's managers and tools | build a bundle, swap, resolve requests | all of the above |
| Plan mode (`plan_mode.py`, `session_runtime.py`, `/plan`) | session mode, plan and its status, approval contract | start, write, submit, review, approve, execute, clear | tools, main loop |
| Terminal loop, turn controls | tool profile, terminal mode, key listener thread | prompt, switch mode, run a turn, stop it | agent, commands |

What is hard in it:

* **Threads.** Request threads, one worker per session, subagents, the log writer, the key
  listener, the signal handler and stream iterators interleave at lock boundaries, and
  several decisions are taken before a lock and used after it. The files of a session's
  memory and the user's extension root have no lock over a whole operation.
* **Failure.** A database write, a runtime's construction, a joined worker, an agent run, an
  MCP request, a log write or a copied file may fail at each step, the process may die
  between two of them, and Ctrl-C comes wherever the terminal's main thread waits.
* **Bounded resources.** Subscriber queues, subscriber places and remembered closed turns
  all have limits at which something is dropped.
* **Recovery.** After a restart the context and its counters come from rows that an append
  or a replacement wrote, perhaps just before the crash.

`PROJECT.json` lists every hazard with its line and the properties that cover it.

## Modules

| Module | Models | Checked by |
|---|---|---|
| `TurnLedger` | abstract: the tables' legal moves (open, close, roll back, accept, begin, finish, recover) | refined by `SessionServer` |
| `SessionServer` | registry, runtimes, workers, sessions and turns tables, startup, shutdown, crash | `MCSessionServer` |
| `SessionServerProofs` | types, stop item, one builder and one worker per session, turns and their workers, refinement of `TurnLedger`, what DELETE leaves | TLAPS |
| `TurnStream` | event numbering, bus, subscriber queues, stream handler, shutdown signal | `MCTurnStream` |
| `TurnStreamProofs` | limits, recorded outcomes, nobody forgotten, excused silence, order of events | TLAPS |
| `TranscriptLog` | abstract: an append-only log with a folded beginning | refined by `SessionTranscript` |
| `SessionTranscript` | context, compaction, append or replace, failed turns, hydration, detail reads | `MCSessionTranscript` |
| `SessionTranscriptProofs` | counters, no exchange lost, context continues, refinement of `TranscriptLog` | TLAPS |
| `AgentTurn` | the agent's loop, tool calls, subagent batches, capability refresh, exceptions and interrupts | `MCAgentTurn` |
| `AgentTurnProofs` | answers of tool calls, limits of subagents, how a turn's end is told; the logs of `LogWriter` | TLAPS |
| `CuratedMemory` | abstract: a set of entries and settings that change one request at a time | refined by `SessionMemory` |
| `SessionMemory` | one session's memory files, as several threads use them | `MCSessionMemory` |
| `SessionMemoryProofs` | write policies, daily log, refinement of `CuratedMemory` | TLAPS |
| `McpClient` | one MCP server object, its callers, and the server | `MCMcpClient` |
| `McpClientProofs` | a call runs once, sessions recover | TLAPS |
| `LogWriter` | the session log: numbering, writer thread, files, close | `MCLogWriter` |
| `ToolProfiles` | which tools a registry gets from a profile and a configuration | used by `TerminalSession` |
| `TerminalSession` | plan mode, tool registries, MCP managers, key listener, Ctrl-C | `MCTerminalSession` |
| `TerminalSessionProofs` | types, the contract's consent, the tools of the mode, the terminal handed back, one open manager | TLAPS |
| `ExtensionStore` | installing an extension into the shared root, discovery, cuts | extended by `Capabilities` |
| `Capabilities` | requests, skills, pins, and the refresh composed with installs | `MCCapabilities` |
| `CapabilitiesProofs` | installs stay whole, one request per need, what a refresh settles | TLAPS |

The state machines look at one program at several scales. `SessionServer` shows that
one thread at a time works on a session and one turn at a time is in flight; four others
start from that fact and model one session's worker in more detail: what it does in a turn
(`AgentTurn`, the one step `RunAgent` of `SessionServer`), what it saves
(`SessionTranscript`), what it announces (`TurnStream`) and what it logs (`LogWriter`), so
their products need not be explored together. `SessionMemory` and `McpClient` model the
objects that the worker shares with request threads and subagents; `Capabilities` the disk
that it shares with other processes; `TerminalSession` the other program, the terminal.

### SessionServer

Each handler `h` is a thread with a step `hpc[h]`, a request `hop[h]`, its session and the
runtime it holds. A step is one critical section of the code: `RequireActive` is a database
read, `Lookup` and `Install` hold the registry's lock, `Submit` the runtime's, `SignalStop`
is `close()` up to its join, `Release` is the `finally` block of `ensure_runtime`. A worker
`r` goes through `TakeTurn`, `SetTurnRunning`, `RunAgent`, `PersistSnapshot`,
`FinishTurnSuccess` or `FinishTurnFailure`, `Cleanup`, and back. `Shutdown` and `Exit` are
the two halves of the lifespan's end; `Crash` loses all memory at any moment; `Startup`
runs `mark_incomplete_turns_failed`.

`Faults` is a set of failure kinds, so that a run can say under which failures a property
holds: `"db"` a write raises, `"build"` construction raises, `"joinTimeout"` `close()` gives
up after 5 s, `"drainTimeout"` shutdown starts with requests still running, `"crash"`,
`"rival"` a second server starts on the same database. An agent run that raises is not a
fault: it is always possible.

Abstractions: session ids are never reused (they are random); the contents of turns, the
agent's run and the snapshot are one step each; the directory of a session is a Boolean
that any running agent may set.

### TurnStream

`pub[p]` is an `_emit_event` in progress: number the event under the runtime's lock, copy
the subscriber list under the bus's, put into each queue under its own. The submitting
thread and the worker are separate publishers of one turn. `Close` and `CloseAll` take the
subscribers out under the lock and signal them afterwards, queue by queue. A stream handler
reads the row, subscribes, sends the snapshot and reads events; `Disconnect` may come at any
await. `missed` is a history variable: the readers the code has a reason to leave without an
outcome.

### SessionTranscript

A turn's number stands for its exchange (the user and the assistant message are added and
saved together). The summary's text is abstracted to the sequence of exchanges it was made
from, which is what `covered_turn_count` counts. Whether compaction happens, and how many of
the evictable exchanges it takes, is any choice that `_build_plan` could make for some token
counts. A failed turn may leave its exchange in the context (`Raise` after `Answer`), and
`Restart` rebuilds context and counters from the rows. Readers of the session detail take
the two steps the code takes. `Saved` is the conversation the database remembers and
`Remembered` the one the context does; both are summary first, then messages.

### AgentTurn

`pc` is the step of the agent's thread: `model` before a request, `tools` between two tool
calls, `collect` while it waits for the results of a batch of subagents, `drain` while an
exception or an interrupt leaves the thread pool, then `append`, `log` and `announce` at the
end of a turn. A tool call is its position in the model's reply; its answer is the pair of
that position and the run (a `SubagentRun`) whose report it carries, 0 for any other result.
`thread[c]` is the future of run `c`. Children start in order on at most `MaxParallel`
workers, and end when they like; `TimeOut` gives up on one, which cancels it only if it is
still queued. `Refreshed` is the swap of tools and subagent manager, by the model's tool
call or by the reload route, whose busy check (`ReloadCheck`) and swap (`ReloadSwap`) are
two steps as in the code. `Interrupt` and `InterruptWait` are Ctrl-C in the terminal program
and a generator that its reader drops.

Abstractions: a tool other than `run_subagent`, `submit_plan` and
`refresh_runtime_capabilities` only answers; the announcement of a model call and the call
itself are one step, so a swap between the two is not seen; a child's own agent is not
expanded; preparation may fail at any point, with or without the schemas cached.

### SessionMemory

`_lock` covers each file access of a writer and nothing more, so an operation of an actor is
a list of steps (`Steps`), each a read, the opening that truncates, or the filling of one
file, and `at[a]` is where the actor is in it. The actors are the agent's thread (tools,
commands, the write-back at the end of a turn) and request threads of the service. A text is
the number of the operation that wrote it and a class, chosen when it is first looked at:
how the write policies judge it. `Crash` ends the process between any two steps and leaves a
truncated file; `trusted` says that no operation has yet written over what another one
changed after it was read. As long as it holds, the workspace refines `CuratedMemory`.

What the model leaves out of the code, and what reading it showed: a content with a line that
starts like an entry or section heading does not survive a round trip through the markdown;
an edited document that does not parse is answered with an error; reading the memory of a
closed session creates its directory again; retrieval scores, prompt selection and the
ranking of read policies only read.

### McpClient

A caller's stack of frames is the sequence `todo[c]` of requests it still has to make: a call
on a server without session puts `initialize` and `notify` before itself, a 404 resets the
shared session and puts the three on once more. The server hands out sessions, forgets them,
goes away, answers late (after the timeout, having run the tool or not) or not at all, and
may speak an older protocol version. Any number of callers share the object without a lock.
`disturbed`, `lost` and `overlapped` are history: who met another caller's reset.

When callers overlap, or `close` meets a call, the object can stay initialised without a
session, and every later call is refused until a refresh replaces it; `NotWedged` says that
nothing else leads there. The health check of a server that is already initialised answers
without contacting it.

### LogWriter

A thread's program is the list of steps it still has to make for the record it writes:
`EnsureInitialized` and `Create`, `NextTimelineSeq`, `EventSeq`, the writes to the two logs
and the manifest. In async mode the writer thread takes records from the queue; after the
close, and in sync mode, the logging thread writes them itself, and so do the admin view's
snapshot and the start of subagents with the directory and the manifest. `Join` is the five
seconds `close` waits, which may pass while the writer works on. A write may fail, and so may
the report of the failure.

Records submitted while `close` queues its last ones come behind the stop item and are lost,
and the two threads of the creation race may write a second header: the properties hold what
remains true then (`early`, `overlapped`). Artifacts of large payloads are not modelled; two
of the same tool in one iteration share a name.

### TerminalSession and ToolProfiles

`pc` is what the main thread does: the prompt, a mode switch (which may wait for MCP
servers), a reload, a turn, stopping the key listener, the review of a plan. A refresh `r`,
begun by the user, by the turn's refresh tool or by a subagent's, contacts servers, swaps the
registry and closes the manager it replaced. `mgr` remembers the MCP managers made and
closed. `tty` and `listener[t]` are the terminal's mode and the key listener of turn `t`:
blocked in a read, waiting, or gone. Ctrl-C (`SwitchCut`, `RefreshCut`, `StopCut`,
`InterruptBatch`, and the end of a turn) is taken where the main thread waits, not between
two assignments; the prompt turns it into an end of file. `ghost` is history: the user's last
word on the plan, a registry of the wrong mode, colliding refreshes, raced keys.

The plan's identity is constant in a session, so `ContractIsConsented` rests on every path
that makes a plan clearing the contract. The profiles for subagents that the code defines are
used by nothing: a child gets a copy of its parent's registry without some tools
(`ChildTools`), and keeps the refresh tool.

### ExtensionStore and Capabilities

`dirs` are the two directories of an install, the target and its staging directory; a bundle
has a manifest and the rest, and `file[p]` is the release a part came from. Installers are
processes without a lock: `Stage`, `Unstage`, `Make`, `Copy`, `Check`, `Clear`, `Replace` are
the file operations of `install_from_catalog`, one file at a time, and `Cut` is a failing
write or a kill between any two. `Discovered` is what discovery finds: the staging directory
as well, when the target has no manifest. `crossed` and `torn` are history: who wrote while
another did, and a target that a cut or crossed install left.

`Capabilities` adds one session in that world. `live` is its runtime: what its extension
manager knows, what its registry was built from, where its skill manager looks. A refresh
reads configuration and disk in four steps, swaps, and then resolves requests and stores the
managers (`RefreshBegin` to `RefreshStore`); in the server two may overlap, in the terminal
everything is one thread and `/extension install` uses the session's own manager.
`ReloadRequired` is what `find_capabilities` tells the model a reload would bring.

## Runs

| Run | Bounds | Shows |
|---|---|---|
| `server` | 1 session, 2 turns, 2 runtimes, 3 threads, all faults | `TypeOK`, `OneTurnInHand`, `NoAbandonedTurn`, `NothingBehindStop`, `ConstructionIsExclusive` |
| `server_live` | 1 session, 2 turns, 3 runtimes, 2 threads, no fault, fairness | `ClosedSessionHasNoDir`, refinement of `TurnLedger`, `TurnsFinish`, `RequestsReturn` |
| `stream` | 1 turn, 2 readers, queues of 2, 1 place, 2 chunks | `OutcomeIsRecorded`, `NoForgottenReader`, `SilentEndIsExplained` |
| `stream_live` | 1 turn, another session's turn, 1 reader, fairness | `TypeOK`, `InOrder`, `StreamsEnd` |
| `transcript` | 5 turns, 2 kept by compaction, 1 reader | `CountersMatchRows`, `NothingLost`, `ContextContinues`, refinement of `TranscriptLog` |
| `agent` | 1 turn, 2 iterations, 3 calls per reply, 1 refresh, 1 worker, 2 children per turn, fairness | `AnswersMatchCalls`, `ChildrenContained`, `EndIsToldAlike`, `GivenUpNeverStarts`, `TurnsEnd` |
| `memory` | the agent and 1 request thread, 2 titles, 3 operations (the first alone), a crash at any step | `PolicyHolds`, `DailyLogComplete`, refinement of `CuratedMemory` |
| `mcp` | 2 callers, 2 operations, 1 expiry of all sessions, 3 sessions, fairness | `CallRunsOnce`, `SessionRecovers`, `CallsReturn` |
| `logger` | 3 threads, 2 records, 1 failing write, the three modes | `TimelineIsSound`, `LogIsComplete` |
| `terminal` | 2 configurations, 2 turns, 3 runtimes (4 together where keys are listened to), 1 refreshing subagent | `ToolsFollowMode`, `ContractIsConsented`, `OneOpenManager`, `TerminalHandedBack` |
| `capabilities` | 2 installers, 2 releases, 2 refreshers, see below | `OneRequestPerNeed`, `RefreshSettles`, `ActiveFindsCode`, `InstallsAreWhole` |
| `agent_refresh` | 2 turns, no fault | violated: after a refresh the turn's next model call has no schemas |

In modules without a separate run for it, the type invariant is the first conjunct of one of
the invariants above. Five more configurations show disagreements described below:
`server_leaked_runtime.cfg` and `server_rival.cfg` (module `MCSessionServer`),
`stream_silent.cfg` (`MCTurnStream`), `transcript_torn.cfg` (`MCSessionTranscript`) and
`memory_revived.cfg` (`MCSessionMemory`). `tlc -config X.cfg M` runs any of them.

**Why the bounds are enough.** Sessions share only the registry's dictionaries, keyed by
session id, and the write lock, so one session with three threads has every interleaving of
two requests and a third that closes or creates; two runtimes are needed to see a second one
built after the first is popped, and three without faults to see one more after that. A
queue of two is the least that can be full with an event and the sentinel in play, one
subscriber place the least at which a second reader is refused, one remembered closed id the
least that can be evicted. Five turns with two kept raw allow two compactions with a failed
turn's leftover between them. In a turn of the agent, three calls are needed for a rejected
request between two valid ones and for a batch before or after another call, two iterations
for a batch that meets the capacity left by an earlier one, and one worker with two children
for one to time out while queued. One turn is enough: of a turn only the per-turn counts, keyed
by the turn, the schema cache and, after Ctrl-C, running children outlive it.

A lost update of the memory needs two operations, and one before them, which overlaps with
none, gives them something to meet on; two titles are needed for a replaced and a replacing entry. Two MCP callers
are the least that overlap on one object; two operations may fall to one of them, so that
one call meets the session another left; three sessions allow the retry of a retry that
expired. Two log records, one of them from a call after the close, meet the two of the
close itself, and never are three threads inside the logger at once: once two have met, no
further call begins and no write fails. In the terminal two turns give a listener that
outlives its turn another turn to disturb, and three runtimes allow two refreshes to overlap;
keys and refreshes meet only to a smaller depth.
One extension with one skill and one tool is enough for the store, whose directories are
keyed by the extension's name; the scenarios of `capabilities` are installs 1+1, 0+2, 1+2
and 1+0 by the session's process and another one, with up to three requests, two refreshes
and one edit of the configuration.

Deadlock is not checked: a service or a terminal with nothing left to do and a bounded supply
of turns, operations or records stops.

**Fairness.** `server_live` assumes weak fairness of each thread's steps and of the exit
after shutdown: they are operating-system threads that block only on the queue, on an
`Event` and on `join`, each of which the model has as a guard. That an agent run ends is
part of it (`RunAgent`): the code has no bound of its own beyond `max_iterations` and the
timeouts of the model client. Clients, faults, shutdown and restarts are not fair.
`stream_live` assumes the same of publishers, of handlers that have started to stream and
of the signal handler; a client need not connect or read. `agent` assumes it of the agent's
thread, of the pool's workers and of the children: a child's agent has an iteration limit
and its model client timeouts, and leaving the pool waits without one. `mcp` assumes it of
each caller's steps only: every request has a timeout, and what the server does in between
is up to it.

**What needs which failures absent.** `ClosedSessionHasNoDir` and the refinement of
`TurnLedger` are checked without faults and proved under the weaker conditions given with the
proofs. `CuratedSpec` promises nothing once `trusted` is lost, `RefreshSettles` nothing after
refreshes that overlapped until one has run alone, and the install properties bind the
installs that nobody crossed.

## Disagreements between code and documentation

1. `agent_refresh` – `refresh_runtime_capabilities` drops the cached schemas, and the next
   model call of the same turn takes their length (`agent.py:128-132`, `agent.py:322`);
   `docs/self-extension.md:669` says: "Reload config-backed tools and skills for the current
   session without restarting."
2. `server_leaked_runtime.cfg` (`ClosedSessionHasNoRuntime`) – `ensure_runtime` checks the
   session before it takes the lock; a DELETE in between leaves a runtime nobody closes
   (`session_registry.py:75-82`; `routes.py:353` promises its resources are released).
3. `server_rival.cfg` (`TerminalIsFinal`) – recovery fails the turns of every process that
   shares the default database, and a turn reported as failed becomes completed
   (`session_database.py:91-107`, `docs/design-overview.md:7`).
4. `stream_silent.cfg` (`StreamEndsWithOutcome`) – the row is read as active and the
   subscription refused as closed, so the stream ends without an outcome
   (`routes.py:840-859`, `event_bus.py:54`, `docs/design-overview.md:200-201`).
5. `transcript_torn.cfg` (`DetailIsWhole`) – a session's detail is read in two statements
   outside a transaction (`session_database.py:576-602`, `routes.py:217`).
6. `memory_revived.cfg` (`ReplacedIsRetired`) – an upsert revives the first entry of its
   title, even a superseded one, and the entry and its replacement are then both active
   (`session_memory.py:416`, `docs/memory.md:142`).

Some statements of the documentation have no code or less than they say, and need no run:
`docs/memory.md:932` calls concurrent writes thread-locked, but the lock covers a file access
and not the read before it; `docs/memory.md:938` promises defaults for damaged settings, but
a torn settings file is an error; `docs/memory.md:893` limits writes per turn, which nothing
does; `docs/tool-subsystem.md:70-73` describes profiles for subagents that nothing uses.

Two more properties are written down and not claimed. `ContractIsApprovedText`
(`TerminalSession`): `write_plan` after the approval leaves the contract standing, so the text
the agent executes is not the plan's current one (`context.py:136`). `ActiveMeansUsable`
(`Capabilities`): in the terminal `/extension install` teaches the session's own manager the
extension, `find_capabilities` then calls it active, and its tools come only with a reload or
a change of mode (`docs/self-extension.md:260`).

What the properties of `agent` had to leave open is also worth a reviewer's attention: a turn
dropped by Ctrl-C stays `open` in the log, and so does one whose preparation raised; a
callback that raises after the turn was logged as completed makes `run()` raise; Ctrl-C
while the pool waits leaves children at work beside the next turn; and a refresh within a
turn grants a second allowance of subagents.

## Proofs

| Theorem | Property | Module |
|---|---|---|
| `TypeCorrect`, `StopIsLast`, `OneBuilder`, `OneWorker` | `TypeOK`, `NothingBehindStop`, `ConstructionIsExclusive`, `OneTurnInHand` | `SessionServerProofs` |
| `NothingAbandoned`, `DeleteClears`, `KeepsLedger` | `NoAbandonedTurn`, `ClosedSessionHasNoDir`, refinement of `TurnLedger` | `SessionServerProofs` |
| `OutcomesStay` | a final status is final (`TerminalIsFinal`) when there is no rival | `SessionServerProofs` |
| `QueuesAreBounded`, `OnlyRecordedOutcomes`, `NobodyIsForgotten`, `SilenceHasAReason`, `EventsComeInOrder` | `TypeOK`, `OutcomeIsRecorded`, `NoForgottenReader`, `SilentEndIsExplained`, `InOrder` | `TurnStreamProofs` |
| `CountersAreRight`, `NoExchangeLost`, `MemoryContinuesSaved`, `SavesAppend` | `CountersMatchRows`, `NothingLost`, `ContextContinues`, refinement of `TranscriptLog` | `SessionTranscriptProofs` |
| `AnswersAreMatched`, `ChildrenAreContained`, `EndsAreToldAlike`, `CancelledNeverStarts` | `AnswersMatchCalls`, `ChildrenContained`, `EndIsToldAlike`, `GivenUpNeverStarts` | `AgentTurnProofs` |
| `TimelineSound`, `LogComplete` | `TimelineIsSound`, `LogIsComplete` of `LogWriter` | `AgentTurnProofs` |
| `TextsArePoliced`, `NotesAreKept`, `MemoryIsCurated` | `PolicyHolds`, `DailyLogComplete`, refinement of `CuratedMemory` | `SessionMemoryProofs` |
| `CallsRunOnce`, `SessionsRecover` | `CallRunsOnce`, `SessionRecovers` | `McpClientProofs` |
| `ContractConsented`, `ToolsFollow`, `TerminalReturned`, `OneManagerOpen` | `ContractIsConsented`, `ToolsFollowMode`, `TerminalHandedBack`, `OneOpenManager` | `TerminalSessionProofs` |
| `InstallsStayWhole`, `NeedsAreOne`, `RefreshesSettle`, `ActiveIsFound` | `InstallsAreWhole`, `OneRequestPerNeed`, `RefreshSettles`, `ActiveFindsCode` | `CapabilitiesProofs` |

All are about a `Spec` without fairness, and all but the three about faults below
assume only the named assumptions of the modules that declare the constants. Every inductive
invariant was first checked by TLC as an invariant of a run's instance: 13.6 million states
for `Delivered`, 13.2 million for `Sound`, over 5 million for `Orderly` (with two turns),
1.5 million for that of the memory, 1.8 million for that of `Capabilities` (and an instance with three installers), 944,389 for
the terminal's, 724,798 for that of `LogWriter` (and, of an instance with three records and two
failures, the first 3 million).

### SessionServer

`TypeOK` alone is not inductive: a handler in `install` must hold a runtime, a worker in
`start` a turn, and a queue must hold turns, the stop item or nothing. `Typed` adds
`HandlersOK`, `RegistryOK` and `WorkersOK`, and `QueuesOK` says that a queue has one of four
shapes (empty, a turn, the stop item, a turn and then the stop item, the last two only when
the runtime is closed), which is also why nothing is ever behind the stop item.

One builder: whoever is between `build` and `release` owns the session's Event (`Claims`),
and while there is an Event no runtime is registered by others (`Unloaded`). One worker: work
enters a queue only through a handler that found or built the session's registered runtime
while the session was active (`InUse`, `Installed`), a second runtime is built only once the
first was popped, which closes the session first, and a closed session accepts no work
(`SingleBusy`). `Exclusion` is the conjunction. These theorems hold under any set of faults.

For the turns table there is also who has a turn in flight: `Ownership` is `HeldOK` (a held turn was
accepted for that runtime's session and no other runtime has it), `SettledOK` (a worker lets
go of a turn only with an outcome written) and `OwnedOK` (every turn in flight is held, but
by a worker that the database stopped). `NothingAbandoned` needs no absence of a fault.
The other three state what they need:

| Theorem | Absent faults | Because otherwise |
|---|---|---|
| `OutcomesStay` | `rival` | recovery by a second server fails a turn that its worker then completes |
| `KeepsLedger` | `db`, `drainTimeout`, `rival` | a refused write leaves a row in flight beside the next turn, requests left running by the shutdown install a second runtime, a rival fails rows of live workers |
| `DeleteClears` | `joinTimeout`, `drainTimeout`, `crash` | a worker outlives its join and writes the directory again, or the shutdown or a crash cuts the request before it removed it |

TLC finds a counterexample to each of them as soon as any one of these faults is allowed, so
the hypotheses cannot be weakened.

### TurnStream

`Delivered` is the invariant. `PlaceOK` and `WorkerOK` say who may be in which list, and that
a worker announces one thing at a time and nothing after its close; `EventsOK` that an event
which tells an outcome tells that of the row; `ReachOK` and `SentinelOK` who still has a
sentinel to come and that nobody gets one before the turn closes or the server stops;
`DeliveryOK` that whoever is owed the outcome has it in the queue ahead of any sentinel, or
some publisher still has to put it there. `NumbersOK`, for `InOrder`, relates the two
publishers: the submitter has number 1, the worker the later ones, and whatever a queue holds
is below what is still to be published by the same thread.

### SessionTranscript

`Consistent` is `TypeOK`, `StatusOK`, `RowsOK`, `OrderOK`, `SyncOK` and `OutcomeOK`. The core
is `SyncOK`: the counters say what is saved, and either a compaction has happened since, so
that the next save replaces, or the context still ends in the saved rows plus what came after,
so that it may append. `OrderOK` makes exchanges ascend in the order of turns, which is why no
save repeats one; `RowsOK` lets the set of rows be read as a sequence. `SavesAppend` maps the
saved conversation to the log of `TranscriptLog` and shows that a save adds one exchange or
folds a beginning, and that every other step stutters.

### AgentTurn

`Orderly` adds to the types: `CallsOK` and `ReportsOK` (which calls are answered, what an
answer with a report refers to), `BatchOK` (the runs of the current batch are numbered by the
rank of their valid request among the batch's), `QuotaOK` (the runs a manager started in a
turn are within its count) and `PoolOK` (running children are at most the pool's workers; a
child outside the current batch lives only in a turn that Ctrl-C dropped). Lemmas about
counting carry the first theorem: the rank of a request is its place among the valid ones, and
is injective, so the report collected for a call is that of the run started for it, although
rejected requests take no run.

### SessionMemory

`Inv` follows each operation from the read of what it rewrites to the end of its write.
`OperationsOK` (`Sound`) says at which of its steps an operation is, and that its text passed
the policy once it is past the step that judges it; the lemma `Places` says where in each list
of `Steps` the document is read, opened and filled. `Tidy` is what the document is, and what an
actor holds of it between its read and its write: every entry has passed the policies, no two
have one text, and none has the text or the id of an operation that is still to write
(`Pending`), so that whatever overtakes, an entry can be added only once. `LoadedOK` adds that
what was read is still the document as long as nobody wrote since (`fresh`), and `LockOK` who is
between the two halves of a write. `DailyOK` is the daily log against the audit log.
`MemoryIsCurated` looks through the truncated file of a write in progress: what is shown then is
what the writer has read (`Shown`), so opening a file and filling it are one abstract step, which
the lemmas on `Changed` match to the abstract request. As the abstract specification, it promises
nothing about entries once an operation wrote over what another had changed since it read; the
first two theorems have no such limit. The proofs assume `MemoryAssumption`: a missing title or
id is no title, number or thread, no title is a number, and the agent is no request thread.

### McpClient

`Sound` is `TypesOK`, `CallersOK`, `AloneOK`, `OwnOK`, `HiddenOK` and `WedgeOK`. A caller's
stack has the request itself at its bottom and the opening of a session at its top only, and
its depth is bounded by the sessions handed out, since each expires once. A call's tool has run
exactly if its own request was answered. `OwnOK` and `AloneOK` say what a caller may rely on
while nobody else reset the session, and `WedgeOK` that an object without session is initialised
only after callers overlapped or one closed it.

### LogWriter

The proofs are in `AgentTurnProofs`, beside those about the turns that the logger records,
which is why the specification's names have a prefix (`LWInit`, `LWNext`, `LWSpec`). They assume
`LogAssumption`, that the two bounds are numbers, and hold for every number of records and of
failing writes. Neither property is inductive: both speak of what is in the files, and a write is
decided many steps before it happens. `Inv` says where a record is meanwhile:

* `VariablesOK`: a thread's program has one shape (`Shaped`), since it serves one record and
  besides it only the manifest and the start of the log.
* `StepsOK`, `SeqsOK`: the number that a thread carries from counting it to writing it is
  nobody else's and in no file; while threads have not met it is above all those written, and
  without failures the events' numbers have no gap.
* `RecordsOK`, `OrderOK`: a record is in the queue, in the program of one thread, or in a file,
  and in a file once; while threads have not met, what is in the files was logged before what a
  thread writes, and that before what is queued.
* `StartOK`, `EndOK`: no file has a line before the log exists, nor one before its start; and
  once the record of the end or the stop item was reached, nothing logged before the close is
  left behind it.
* `KeptOK`: as long as no write failed, whatever was logged is queued, coming in some program or
  written, and so are the last manifest and the end ahead of any stop item.

`Moved` says once what a step leaves of its thread's program, and one lemma for each action
(`CreateInv`, `FooterInv`, ...) that all parts of `Inv` still hold after it.

### TerminalSession

`Inv` adds to the types who may be refreshing when (`Scheduled`: a batch and a refresh of the
main thread exclude each other, and at a prompt only a subagent left behind can be refreshing)
and what such a refresh carries (`Following`: the profile of today's mode, unless it was left
behind), without which a swap could install yesterday's tools. `RegistryOK` keeps the registry
one that `build_tool_registry` makes of some configuration, and `PlanToolsOnlyRead` says that a
planning one has no mutating tool. `KeysOK` relates the terminal's mode to the listeners that
are alive and to what raced or was cut; `ManagersOK` says which managers are open (`OpenOK`),
that a refresh holds one of its own (`FreshOK`), and that each open one is in use or covered
by a refresh in progress or by a collision (`CoveredOK`). The proofs
assume `TerminalAssumption`, that no subagent is the main thread (`ThreadsAssumption`) and that
tool names do not collide (`NamesAssumption`): nothing in the code keeps an extension from
naming its tool like a built-in one, which the registry then replaces.

### ExtensionStore and Capabilities

`Inv` has a part for the disk, one for the requests and three for the session. Of the disk,
`CrossedOK` says that two installers past `Stage` have crossed each other, one about to
discover included, and that until a crossed one ends the target is not trusted (`torn`);
`ProgressOK` says what an install that nobody crossed knows at each step (`Expected`: the
staging directory is gone before `Make`, holds the files copied so far, is whole before
`Clear`, and the target is empty before `Replace`). An install that nobody crosses therefore
meets none of the conditions under which one fails. Of the requests, `MergedKey` is the lemma
that matters: a request keeps its key when an ask of the same key adds fields to it, for the
first field of the merged request was the first of one of the two. Of the session, `RefreshOK` follows a refresh: what it
has read so far is what is on disk as long as nothing changed there since it looked
(`touched`), and one that runs alone stores the very bundle that it swapped in; `LiveOK` is
what it leaves behind, and holds until the next one. The proofs assume `StoreAssumption` and
`CapabilitiesAssumption`, that a session has an installer of its own and requests are records
of strings.

### Model-checked only

* Liveness under fairness, which the prover does not handle: `TurnsFinish`, `RequestsReturn`,
  `StreamsEnd`, `TurnsEnd`, `CallsReturn`.
* The expected violations: a theorem says nothing about them.

Every invariant and every action property of the passing runs is a theorem, two of them
(`DeleteClears`, `KeepsLedger`) in the absence of the faults named above, as in their runs.

## Not modelled

* The LLM client (a remote service and the assembly of its stream), the tools that do I/O,
  and the process of an extension tool: they answer with a result or an error.
* The terminal's display and the commands that only print; admin views; configuration
  parsing; migrations, a linear script at startup; the browser clients.
* The token estimate that triggers compaction (`context_compaction.py:105` uses the size of
  the last prompt, which compaction does not reset): when to compact is any choice.
* The scoring of `find_capabilities`, skill formatting, repository-scoped bundles, memory
  retrieval scores, log artifacts.
* `close_all` in a signal handler (`cli/serve.py:23`) takes a lock that is not reentrant; the
  stream model has the handler's steps but not the interrupted main thread holding the lock.

## Plan

What is worth adding: the model client's assembly of streamed tool calls as a pure function,
and liveness of the logger (`close` returns after its five seconds whatever the writer does).
