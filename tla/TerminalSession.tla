-------------------------- MODULE TerminalSession --------------------------
(***************************************************************************)
(* The interactive terminal session (src/main.py): one main thread that     *)
(* reads a line, runs a slash command or an agent turn and comes back to    *)
(* the prompt, and what lives around it:                                    *)
(*  - the plan workflow (session_runtime.py, plan_mode.py, /plan, the plan   *)
(*    tools): the session's mode, its plan and the approval contract;        *)
(*  - the agent's tool registry, rebuilt when the mode changes and replaced   *)
(*    by a runtime refresh, from /runtime reload, from the turn's refresh     *)
(*    tool or from the same tool of a subagent's thread, with the MCP        *)
(*    managers a refresh opens and closes;                                  *)
(*  - the key listener of a running turn (turn_controls.py), the terminal's   *)
(*    mode, and Ctrl-C wherever the main thread waits.                       *)
(*                                                                         *)
(* Ctrl-C is taken where the main thread waits (for a model, a server or a   *)
(* thread), not between two assignments. The prompt turns it into an end of  *)
(* file.                                                                    *)
(***************************************************************************)
EXTENDS ToolProfiles, Naturals, FiniteSets

CONSTANTS
  Configs,      \* what the configuration file may say when it is read
  Children,     \* subagent threads of a turn
  MaxManagers,  \* bound: runtimes built, each with at most one MCP manager
  MaxTurns,     \* bound: turns run
  MaxKeyed      \* bound: turns and runtimes together, where keys are listened to

ASSUME TerminalAssumption ==
  /\ \A c \in Configs : c.plan \in BOOLEAN /\ c.mcp \in BOOLEAN
  /\ MaxManagers \in Nat \ {0} /\ MaxTurns \in Nat
  /\ MaxKeyed \in Nat

Main       == "main"
Refreshers == {Main} \cup Children

ASSUME ThreadsAssumption == Main \notin Children

\* Tool names do not collide: no web or extension tool is called as a mutating
\* one, no desktop tool as a planner's. (An extension chooses its tools' names,
\* and the registry keeps the last tool of a name.)
ASSUME NamesAssumption ==
  \A c, d \in Configs :
    /\ (c.web \cup c.extensions) \cap Mutating(d) = {}
    /\ c.macos \cap PlanNames = {}

Managers   == 1..MaxManagers
Turns      == 1..MaxTurns
Statuses   == {"none", "draft", "ready_for_review", "approved", "rejected",
               "executing"}

VARIABLES
  mode,      \* context.session_mode
  plan,      \* context.current_plan: its status, whether it has a text
  contract,  \* context.active_approved_plan_id is set
  file,      \* the plan file has a text
  cfg,       \* runtime_state["runtime_config"]
  tools,     \* the agent's registry: profile, tool names, MCP manager
  mcp,       \* runtime_state["mcp_manager"] (0: none)
  mgr,       \* managers: made, closed, and those with a cached tool list
  ref,       \* each refresher's refresh in progress
  batch,     \* the subagent threads: "none", "run", "drain" or "stray"
  pc,        \* what the main thread does
  turn,      \* turns begun, what follows the running one, whether it raised
  tty,       \* the terminal's mode, the mode a turn restores
  listener,  \* the key listener thread of each turn
  ghost      \* history, for the properties: the user's word on the plan, a
             \* registry of another mode, how refreshes and keys collided

vars == <<mode, plan, contract, file, cfg, tools, mcp, mgr, ref, batch, pc,
          turn, tty, listener, ghost>>
planVars == <<mode, plan, contract, file>>
toolVars == <<cfg, tools, mcp, mgr>>
ttyVars  == <<tty, listener>>

Idle == [phase |-> "idle"]

\* How a tool registry is described: the manager is that of its MCP tools.
Registry(p, c, m, answered) ==
  [profile |-> p, names |-> RegisteredTools(p, c, answered),
   mgr |-> IF PlannedMcp(p, c) /\ answered THEN m ELSE 0]

\* current_tool_profile
ProfileOf(m) == IF m = "plan" THEN "plan_main" ELSE "build"

\* MCPManager.register_tools asks the servers only while it has no cached
\* list; a closed client cannot be asked.
Asks(p, c, m)    ==
  PlannedMcp(p, c) /\ m # 0 /\ m \notin mgr.cached \cup mgr.closed
Answers(p, c, m) ==
  IF ~PlannedMcp(p, c) \/ m = 0 THEN {FALSE}
  ELSE IF m \in mgr.cached THEN {TRUE}
  ELSE IF m \in mgr.closed THEN {FALSE} ELSE BOOLEAN

Cache(p, c, m, answered) ==
  IF PlannedMcp(p, c) /\ answered THEN mgr.cached \cup {m} ELSE mgr.cached

Refreshing == \E r \in Refreshers : ref[r] # Idle

\* A registry rebuilt while a refresh is in progress.
Crossed == IF Refreshing THEN "crossed" ELSE ghost.refresh

TypeOK ==
  /\ mode \in {"build", "plan"}
  /\ plan \in [status: Statuses, content: BOOLEAN]
  /\ contract \in BOOLEAN /\ file \in BOOLEAN /\ cfg \in Configs
  /\ tools.profile \in Profiles /\ tools.mgr \in Managers \cup {0}
  /\ mcp \in Managers \cup {0}
  /\ mgr.made \in 0..MaxManagers
  /\ mgr.closed \subseteq 1..mgr.made /\ mgr.cached \subseteq 1..mgr.made
  /\ \A r \in Refreshers : ref[r].phase \in {"idle", "contact", "close"}
  /\ batch \in {"none", "run", "drain", "stray"}
  /\ pc.at \in {"prompt", "switch", "reload", "turn", "stop", "review", "done"}
  /\ turn \in [n: 0..MaxTurns, then: {"prompt", "review"}, raised: BOOLEAN]
  /\ tty \in [now: {"cooked", "cbreak"}, saved: {"cooked", "cbreak"},
              live: BOOLEAN]
  /\ listener \in [Turns -> {"none", "wait", "blocked", "gone"}]
  /\ ghost \in [word: {"none", "accepted", "outdated", "rejected"},
                torn: BOOLEAN, refresh: {"clean", "overlapped", "crossed"},
                keys: {"clean", "raced", "cut"}]

\* build_agent_runtime, on a terminal or not; the first registry is a build
\* one. Manager 1 is the one made here: without servers there is none, and
\* its number counts as closed.
Init ==
  /\ mode = "build" /\ contract = FALSE
  /\ plan = [status |-> "none", content |-> FALSE] /\ file = FALSE
  /\ cfg \in Configs
  /\ mcp = (IF cfg.mcp THEN 1 ELSE 0)
  /\ \E answered \in (IF cfg.mcp THEN BOOLEAN ELSE {FALSE}) :
       /\ tools = Registry("build", cfg, mcp, answered)
       /\ mgr = [made |-> 1, closed |-> IF cfg.mcp THEN {} ELSE {1},
                 cached |-> IF answered THEN {1} ELSE {}]
  /\ ref = [r \in Refreshers |-> Idle] /\ batch = "none"
  /\ pc = [at |-> "prompt"]
  /\ turn = [n |-> 0, then |-> "prompt", raised |-> FALSE]
  /\ \E live \in BOOLEAN :
       tty = [now |-> "cooked", saved |-> "cooked", live |-> live]
  /\ listener = [t \in Turns |-> "none"]
  /\ ghost = [word |-> "none", torn |-> FALSE, refresh |-> "clean",
              keys |-> "clean"]

-----------------------------------------------------------------------------
(* Turns and modes *)

\* The keys and the runtimes do not depend on each other: together they are
\* explored to a smaller depth.
WithinBound == tty.live => turn.n + mgr.made < MaxKeyed

\* Seeded bug: the mode to restore is read after setcbreak.
StartTurnLate(then) ==
  /\ turn.n < MaxTurns /\ WithinBound
  /\ turn' = [n |-> turn.n + 1, then |-> then, raised |-> FALSE]
  /\ pc' = [at |-> "turn"]
  /\ IF tty.live
     THEN /\ tty' = [tty EXCEPT !.saved = "cbreak", !.now = "cbreak"]
          /\ listener' = [listener EXCEPT ![turn.n + 1] = "wait"]
     ELSE UNCHANGED ttyVars

\* run_agent_turn: on a terminal the listener thread starts, after the
\* terminal's mode is saved and setcbreak.
StartTurn(then) ==
  /\ turn.n < MaxTurns /\ WithinBound
  /\ turn' = [n |-> turn.n + 1, then |-> then, raised |-> FALSE]
  /\ pc' = [at |-> "turn"]
  /\ IF tty.live
     THEN /\ tty' = [tty EXCEPT !.saved = tty.now, !.now = "cbreak"]
          /\ listener' = [listener EXCEPT ![turn.n + 1] = "wait"]
     ELSE UNCHANGED ttyVars

\* apply_tool_profile: the registry is rebuilt from the runtime's current
\* parts, and only then given to the agent.
ApplyProfile(p) ==
  \E answered \in Answers(p, cfg, mcp) :
    /\ tools' = Registry(p, cfg, mcp, answered)
    /\ mgr' = [mgr EXCEPT !.cached = Cache(p, cfg, mcp, answered)]
    /\ UNCHANGED <<cfg, mcp>>

\* Seeded bug: leaving plan mode keeps its tools.
ToBuildKeepsTools(then) ==
  /\ mode' = "build"
  /\ pc' = IF then = "execute" THEN [at |-> "switch", then |-> then]
                               ELSE [at |-> "prompt"]

\* activate_build_mode from a command: the mode is set before the registry
\* is rebuilt, and rebuilding may wait for the MCP servers.
ToBuild(then) == mode' = "build" /\ pc' = [at |-> "switch", then |-> then]

\* Seeded bug: a new plan inherits the old one's contract (the plan id is the
\* same for every plan of a session).
CreatePlanKeepsContract ==
  /\ plan' = [status |-> "draft", content |-> file]
  /\ ghost' = [ghost EXCEPT !.word = "none", !.torn = FALSE, !.refresh = Crossed]
  /\ UNCHANGED <<contract, file>>

\* create_session_plan: the plan is replaced, an existing file's text becomes
\* its content, and the contract ends.
CreatePlan ==
  /\ plan' = [status |-> "draft", content |-> file]
  /\ contract' = FALSE
  /\ ghost' = [ghost EXCEPT !.word = "none", !.torn = FALSE, !.refresh = Crossed]
  /\ UNCHANGED file

\* mark_plan_approved, mark_plan_executing
Approved == plan' = [plan EXCEPT !.status = "executing"] /\ contract' = TRUE

\* prepare_current_plan_for_execution: approved unless its contract is
\* active already, then executing.
Prepare ==
  /\ turn.n < MaxTurns /\ WithinBound
  /\ Approved
  /\ ghost' = [ghost EXCEPT !.word = "accepted"]
  /\ UNCHANGED file
  /\ ToBuild("execute")

Prompting == pc.at = "prompt"

\* /plan start <task>: start_planning, then the planning turn.
PlanStart ==
  /\ Prompting /\ cfg.plan
  /\ CreatePlan /\ mode' = "plan"
  /\ ApplyProfile("plan_main")
  /\ StartTurn("review")
  /\ UNCHANGED <<ref, batch>>

\* /plan apply: what has been submitted, approved or begun may be executed.
PlanApply ==
  /\ Prompting /\ cfg.plan
  /\ plan.status \in {"ready_for_review", "approved", "executing"}
  /\ Prepare
  /\ UNCHANGED <<toolVars, ref, batch, turn, ttyVars>>

\* /plan exit
PlanExit ==
  /\ Prompting /\ cfg.plan
  /\ ToBuild("prompt")
  /\ UNCHANGED <<plan, contract, file, toolVars, ref, batch, turn, ttyVars,
                 ghost>>

\* /plan clear ends the contract and leaves the plan as it is.
PlanClear ==
  /\ Prompting /\ cfg.plan
  /\ plan.status # "none" /\ contract
  /\ contract' = FALSE
  /\ UNCHANGED <<mode, plan, file, toolVars, ref, batch, pc, turn, ttyVars,
                 ghost>>

\* Shift-Tab at any prompt, the plan review's too: toggle_plan_mode. It is a
\* key, so nothing interrupts it. A missing plan is created.
ShiftTab ==
  /\ pc.at \in {"prompt", "review"} /\ cfg.plan
  /\ IF mode = "plan"
     THEN /\ mode' = "build" /\ ApplyProfile("build")
          /\ ghost' = [ghost EXCEPT !.torn = FALSE, !.refresh = Crossed]
          /\ UNCHANGED <<plan, contract, file>>
     ELSE /\ mode' = "plan" /\ ApplyProfile("plan_main")
          /\ IF plan.status = "none"
             THEN CreatePlan
             ELSE /\ ghost' = [ghost EXCEPT !.torn = FALSE, !.refresh = Crossed]
                  /\ UNCHANGED <<plan, contract, file>>
  /\ UNCHANGED <<ref, batch, pc, turn, ttyVars>>

\* A line that is not a command: execute_user_turn.
Ask ==
  /\ Prompting /\ StartTurn("prompt")
  /\ UNCHANGED <<planVars, toolVars, ref, batch, ghost>>

\* The end of a command's switch to build mode; an execution goes on with
\* the turn that executes the plan.
SwitchDone ==
  /\ pc.at = "switch"
  /\ ApplyProfile("build")
  /\ ghost' = [ghost EXCEPT !.torn = FALSE, !.refresh = Crossed]
  /\ IF pc.then = "execute"
     THEN StartTurn("prompt")
     ELSE pc' = [at |-> "prompt"] /\ UNCHANGED <<turn, ttyVars>>
  /\ UNCHANGED <<planVars, ref, batch>>

\* Ctrl-C while the switch waits for a server: the command is abandoned with
\* the new mode and the old registry.
SwitchCut ==
  /\ pc.at = "switch" /\ Asks("build", cfg, mcp)
  /\ pc' = [at |-> "prompt"]
  /\ ghost' = [ghost EXCEPT !.torn = TRUE]
  /\ UNCHANGED <<planVars, toolVars, ref, batch, turn, ttyVars>>

\* main's end closes the manager the runtime was built with.
Quit ==
  /\ Prompting
  /\ pc' = [at |-> "done"]
  /\ mgr' = [mgr EXCEPT !.closed = @ \cup {1}]
  /\ UNCHANGED <<planVars, cfg, tools, mcp, ref, batch, turn, ttyVars, ghost>>
-----------------------------------------------------------------------------
(* Inside a turn *)

\* The main thread is in the turn and not inside a refresh or a batch.
Acting == pc.at = "turn" /\ ref[Main] = Idle /\ batch \in {"none", "stray"}

\* WritePlanTool: the file, the plan's content, and draft again.
WritePlan ==
  /\ Acting /\ "write_plan" \in tools.names /\ plan.status # "none"
  /\ file' = TRUE
  /\ plan' = [status |-> "draft", content |-> TRUE]
  /\ ghost' = [ghost EXCEPT
                !.word = IF @ = "accepted" THEN "outdated" ELSE @]
  /\ UNCHANGED <<mode, contract, toolVars, ref, batch, pc, turn, ttyVars>>

\* SubmitPlanTool: a plan with a text becomes ready for review and its report
\* ends the turn.
SubmitPlan ==
  /\ Acting /\ "submit_plan" \in tools.names
  /\ plan.status # "none" /\ plan.content
  /\ plan' = [plan EXCEPT !.status = "ready_for_review"]
  /\ pc' = [at |-> "stop"]
  /\ UNCHANGED <<mode, contract, file, toolVars, ref, batch, turn, ttyVars,
                 ghost>>

\* run_subagent: the batch's threads run until all have answered.
RunSubagents ==
  /\ Acting /\ batch = "none" /\ "run_subagent" \in tools.names
  /\ batch' = "run"
  /\ UNCHANGED <<planVars, toolVars, ref, pc, turn, ttyVars, ghost>>

ChildrenIdle == \A c \in Children : ref[c] = Idle

\* The batch is over; an interrupted one raises once its threads are done.
SubagentsDone ==
  /\ batch \in {"run", "drain", "stray"} /\ ChildrenIdle
  /\ batch' = "none"
  /\ IF batch = "drain"
     THEN pc' = [at |-> "stop"] /\ turn' = [turn EXCEPT !.raised = TRUE]
     ELSE UNCHANGED <<pc, turn>>
  /\ UNCHANGED <<planVars, toolVars, ref, ttyVars, ghost>>

\* A subagent's refresh tool is its parent's: the clone keeps it.
CanRefresh(r) ==
  IF r = Main
  THEN Acting /\ "refresh_runtime_capabilities" \in tools.names
  ELSE batch # "none"
         /\ "refresh_runtime_capabilities" \in ChildTools(mode, tools.names)

\* refresh_live_runtime, to the end of build_runtime_capability_bundle's own
\* work: the configuration is read, the profile follows the mode, a manager
\* is made when servers are enabled.
BeginRefresh(r) ==
  \E c \in Configs :
    LET id  == mgr.made + 1
        new == IF c.mcp THEN id ELSE 0 IN
    /\ id <= MaxManagers /\ WithinBound
    /\ ref[r] = Idle
    /\ ref' = [ref EXCEPT ![r] = [phase |-> "contact", cfg |-> c, new |-> new,
                                  profile |-> ProfileOf(mode), old |-> mcp]]
    /\ mgr' = [mgr EXCEPT !.made = id,
                           !.closed = IF c.mcp THEN @ ELSE @ \cup {id}]
    /\ ghost' = [ghost EXCEPT
         !.refresh = IF @ = "clean" /\ Refreshing THEN "overlapped" ELSE @]
    /\ UNCHANGED <<planVars, cfg, tools, mcp, batch, turn, ttyVars>>

\* /runtime reload
Reload ==
  /\ Prompting /\ BeginRefresh(Main) /\ pc' = [at |-> "reload"]

\* RefreshRuntimeCapabilitiesTool, in the turn or in a subagent's thread
RefreshTool(r) ==
  /\ CanRefresh(r) /\ BeginRefresh(r) /\ UNCHANGED pc

\* The servers have answered or failed: the agent gets the new registry.
RefreshSwap(r) ==
  /\ ref[r].phase = "contact"
  /\ \E answered \in Answers(ref[r].profile, ref[r].cfg, ref[r].new) :
       /\ tools' = Registry(ref[r].profile, ref[r].cfg, ref[r].new, answered)
       /\ mgr' = [mgr EXCEPT
            !.cached = Cache(ref[r].profile, ref[r].cfg, ref[r].new, answered)]
  /\ ref' = [ref EXCEPT ![r].phase = "close"]
  /\ ghost' = [ghost EXCEPT !.torn = r # Main /\ batch = "stray"]
  /\ UNCHANGED <<planVars, cfg, mcp, batch, pc, turn, ttyVars>>

\* Seeded bug: the session's own references are not replaced.
RefreshDoneForgets(r) ==
  /\ ref[r].phase = "close"
  /\ mgr' = [mgr EXCEPT !.closed = @ \cup ({ref[r].old} \ {0})]
  /\ ref' = [ref EXCEPT ![r] = Idle]
  /\ pc' = IF r = Main /\ pc.at = "reload" THEN [at |-> "prompt"] ELSE pc
  /\ UNCHANGED <<planVars, cfg, mcp, tools, batch, turn, ttyVars, ghost>>

\* close_all on the manager the refresh replaces, then refresh_callback's
\* assignments: what later switches and refreshes use.
RefreshDone(r) ==
  /\ ref[r].phase = "close"
  /\ mgr' = [mgr EXCEPT !.closed = @ \cup ({ref[r].old} \ {0})]
  /\ mcp' = ref[r].new /\ cfg' = ref[r].cfg
  /\ ref' = [ref EXCEPT ![r] = Idle]
  /\ pc' = IF r = Main /\ pc.at = "reload" THEN [at |-> "prompt"] ELSE pc
  /\ UNCHANGED <<planVars, tools, batch, turn, ttyVars, ghost>>

\* Ctrl-C while the main thread's refresh waits for a server: before the swap
\* the new manager is dropped unclosed; in close_all the old one is closed
\* and the assignments do not happen. A turn ends with it.
RefreshCut ==
  /\ \/ /\ ref[Main].phase = "contact"
        /\ Asks(ref[Main].profile, ref[Main].cfg, ref[Main].new)
        /\ UNCHANGED mgr
     \/ /\ ref[Main].phase = "close" /\ ref[Main].old # 0
        /\ mgr' = [mgr EXCEPT !.closed = @ \cup {ref[Main].old}]
  /\ ref' = [ref EXCEPT ![Main] = Idle]
  /\ ghost' = [ghost EXCEPT !.refresh = "crossed"]
  /\ IF pc.at = "turn"
     THEN pc' = [at |-> "stop"] /\ turn' = [turn EXCEPT !.raised = TRUE]
     ELSE pc' = [at |-> "prompt"] /\ UNCHANGED turn
  /\ UNCHANGED <<planVars, cfg, tools, mcp, batch, ttyVars>>

\* The turn answers, or it raises: the model fails or Ctrl-C comes.
EndTurn ==
  /\ Acting
  /\ pc' = [at |-> "stop"]
  /\ \E raised \in BOOLEAN : turn' = [turn EXCEPT !.raised = raised]
  /\ UNCHANGED <<planVars, toolVars, ref, batch, ttyVars, ghost>>

\* Ctrl-C during a batch: leaving the executor waits for its threads; a
\* second one leaves them behind.
InterruptBatch ==
  /\ pc.at = "turn"
  /\ \/ /\ batch = "run" /\ batch' = "drain" /\ UNCHANGED <<pc, turn>>
     \/ /\ batch = "drain" /\ batch' = "stray"
        /\ pc' = [at |-> "stop"] /\ turn' = [turn EXCEPT !.raised = TRUE]
  /\ UNCHANGED <<planVars, toolVars, ref, ttyVars, ghost>>

-----------------------------------------------------------------------------
(* The key listener and the end of a turn *)

Alive(t)   == listener[t] \in {"wait", "blocked"}
Stopped(t) == t < turn.n \/ pc.at # "turn"

\* A thread's select has seen a key, and a command of the turn, which inherits
\* stdin, or another listener reads it first: os.read blocks until the next.
KeyRace(t) ==
  /\ pc.at = "turn" /\ listener[t] = "wait"
  /\ \/ Acting /\ "run_command" \in tools.names
     \/ \E s \in Turns \ {t} : Alive(s)
  /\ listener' = [listener EXCEPT ![t] = "blocked"]
  /\ ghost' = [ghost EXCEPT !.keys = IF @ = "clean" THEN "raced" ELSE @]
  /\ UNCHANGED <<planVars, toolVars, ref, batch, pc, turn, tty>>

\* The next key, typed in a turn or at a prompt, goes to the blocked thread;
\* then it tests the stop event. (A key read at once leaves no trace here.)
ReadKey(t) ==
  /\ listener[t] = "blocked" /\ pc.at \in {"turn", "prompt", "review"}
  /\ listener' = [listener EXCEPT ![t] = IF Stopped(t) THEN "gone" ELSE "wait"]
  /\ UNCHANGED <<planVars, toolVars, ref, batch, pc, turn, tty, ghost>>

\* select's 0.1 s pass, or a key is handled; the loop tests the stop event.
ListenerQuits(t) ==
  /\ listener[t] = "wait" /\ Stopped(t)
  /\ listener' = [listener EXCEPT ![t] = "gone"]
  /\ UNCHANGED <<planVars, toolVars, ref, batch, pc, turn, tty, ghost>>

\* What the caller of run_agent_turn does next: /plan start looks at the
\* plan, and without a terminal nobody decides: exit_plan_mode.
AfterTurn ==
  IF turn.raised \/ turn.then = "prompt" \/ plan.status # "ready_for_review"
  THEN pc' = [at |-> "prompt"] /\ UNCHANGED mode
  ELSE IF tty.live
       THEN pc' = [at |-> "review"] /\ UNCHANGED mode
       ELSE ToBuild("prompt")

\* live_controls.stop: the thread is joined (0.2 s; a select takes 0.1 s, so
\* only one blocked in os.read is left behind), then the terminal's mode is
\* restored.
StopControls ==
  /\ pc.at = "stop"
  /\ tty.live => listener[turn.n] \in {"blocked", "gone"}
  /\ tty' = [tty EXCEPT !.now = tty.saved]
  /\ AfterTurn
  /\ UNCHANGED <<plan, contract, file, toolVars, ref, batch, turn, listener,
                 ghost>>

\* Ctrl-C in the join: nothing is restored and the command is abandoned.
StopCut ==
  /\ pc.at = "stop" /\ tty.live /\ Alive(turn.n)
  /\ pc' = [at |-> "prompt"]
  /\ ghost' = [ghost EXCEPT !.keys = "cut"]
  /\ UNCHANGED <<planVars, toolVars, ref, batch, turn, tty, listener>>

-----------------------------------------------------------------------------
(* The plan review *)

Accept ==
  /\ pc.at = "review"
  /\ Prepare
  /\ UNCHANGED <<toolVars, ref, batch, turn, ttyVars>>

\* mark_plan_rejected and exit_plan_mode
Reject ==
  /\ pc.at = "review"
  /\ plan' = [plan EXCEPT !.status = "rejected"] /\ contract' = FALSE
  /\ ghost' = [ghost EXCEPT !.word = "rejected"]
  /\ ToBuild("prompt")
  /\ UNCHANGED <<file, toolVars, ref, batch, turn, ttyVars>>

\* Ctrl-C or end of file at the review: the command fails where it is.
Abandon ==
  /\ pc.at = "review" /\ pc' = [at |-> "prompt"]
  /\ UNCHANGED <<planVars, toolVars, ref, batch, turn, ttyVars, ghost>>

Next ==
  \/ PlanStart \/ PlanApply \/ PlanExit \/ PlanClear \/ ShiftTab \/ Ask
  \/ SwitchDone \/ SwitchCut \/ Quit
  \/ WritePlan \/ SubmitPlan \/ RunSubagents \/ SubagentsDone
  \/ Reload \/ RefreshCut \/ EndTurn \/ InterruptBatch
  \/ \E r \in Refreshers : RefreshTool(r) \/ RefreshSwap(r) \/ RefreshDone(r)
  \/ StopControls \/ StopCut
  \/ \E t \in Turns : KeyRace(t) \/ ReadKey(t) \/ ListenerQuits(t)
  \/ Accept \/ Reject \/ Abandon

Spec == Init /\ [][Next]_vars

-----------------------------------------------------------------------------
(* Properties *)

\* The agent has the tools of the session's mode whenever it works, and a
\* planning turn therefore nothing that changes the machine, whatever
\* toggles, reloads, refresh tools and interrupted commands came before; the
\* exceptions are a switch cut off by Ctrl-C until the next one, and a
\* subagent's refresh that outlives its turn (session_runtime.py:46-97,
\* main.py:538-580, 629-650).
ToolsFollowMode ==
  pc.at \in {"prompt", "review", "turn"} /\ ~ghost.torn =>
    /\ tools.profile = ProfileOf(mode)
    /\ mode = "plan" => \A c \in Configs : tools.names \cap Mutating(c) = {}

\* The execution contract is active only while the user's last word on this
\* plan, since it was made, is yes (plan_mode.py:22-40, 100-133).
ContractIsConsented ==
  /\ TypeOK
  /\ contract => ghost.word \in {"accepted", "outdated"}

\* The agent's MCP tools never talk to a closed manager, even when refreshes
\* overlap, and without an overlap no manager but the current one, and one a
\* refresh is about to install, is open. Not so after a refresh cut off by
\* Ctrl-C, or a switch while a subagent left behind refreshes
\* (runtime_refresh.py:206-214, main.py:559-579, 629-650).
OneOpenManager ==
  ghost.refresh # "crossed" =>
    /\ pc.at # "done" => tools.mgr \notin mgr.closed
    /\ ghost.refresh = "clean" =>
         1..mgr.made \subseteq
           mgr.closed \cup {mcp} \cup {ref[r].new : r \in {s \in Refreshers :
                                                        ref[s] # Idle}}

\* Back at a prompt the terminal has its own mode and no listener thread
\* competes for its keys, unless the join was cut or a command read a key a
\* listener had seen (turn_controls.py:22-63, 94-118).
TerminalHandedBack ==
  pc.at \in {"prompt", "review"} /\ ghost.keys # "cut" =>
    /\ tty.now = "cooked"
    /\ ghost.keys = "clean" => \A t \in Turns : ~Alive(t)

\* "Return the currently active approved plan contract" (context.py:136):
\* the text the build agent is told to execute is the text that was approved.
\* write_plan rewrites it in plan mode and leaves the contract standing.
ContractIsApprovedText == contract => ghost.word # "outdated"
=============================================================================
