----------------------- MODULE TerminalSessionProofs -----------------------
(***************************************************************************)
(* Proofs about the terminal session: its types, the consent an execution  *)
(* contract needs, the tools of its mode, the terminal handed back after a *)
(* turn and the one open MCP manager, for any configurations, any subagent *)
(* threads and any bounds.                                                 *)
(***************************************************************************)
EXTENDS TerminalSession, TLAPS

-----------------------------------------------------------------------------
(* The inductive invariant                                                 *)

\* The plan, and the user's word on it.
PlanOK ==
  /\ mode \in {"build", "plan"}
  /\ plan \in [status: Statuses, content: BOOLEAN]
  /\ contract \in BOOLEAN /\ file \in BOOLEAN
  /\ ghost \in [word: {"none", "accepted", "outdated", "rejected"},
                torn: BOOLEAN, refresh: {"clean", "overlapped", "crossed"},
                keys: {"clean", "raced", "cut"}]
  /\ contract => ghost.word \in {"accepted", "outdated"}

\* A refresh in progress holds a configuration and two managers made so far.
Refresh == [phase: {"contact", "close"}, cfg: Configs, new: 0..MaxManagers,
            profile: Profiles, old: 0..MaxManagers]

RefreshOK ==
  /\ cfg \in Configs /\ mcp \in 0..mgr.made
  /\ mgr \in [made: 1..MaxManagers, closed: SUBSET Managers,
              cached: SUBSET Managers]
  /\ mgr.closed \subseteq 1..mgr.made /\ mgr.cached \subseteq 1..mgr.made
  /\ ref \in [Refreshers -> Refresh \cup {Idle}]
  /\ \A r \in Refreshers : ref[r] # Idle =>
       ref[r].new \in 0..mgr.made /\ ref[r].old \in 0..mgr.made

\* The registry is what build_tool_registry makes of some configuration.
RegistryOK ==
  /\ tools.profile \in Profiles /\ tools.mgr \in Managers \cup {0}
  /\ \E c \in Configs, answered \in BOOLEAN :
       tools.names = RegisteredTools(tools.profile, c, answered)

\* The main thread, its turn, the terminal and the listeners.
TurnOK ==
  /\ batch \in {"none", "run", "drain", "stray"}
  /\ pc.at \in {"prompt", "switch", "reload", "turn", "stop", "review", "done"}
  /\ turn \in [n: 0..MaxTurns, then: {"prompt", "review"}, raised: BOOLEAN]
  /\ tty \in [now: {"cooked", "cbreak"}, saved: {"cooked", "cbreak"},
              live: BOOLEAN]
  /\ listener \in [Turns -> {"none", "wait", "blocked", "gone"}]

\* Who refreshes while the main thread is where: a batch keeps it in its
\* turn, and only in a turn or in /runtime reload does it refresh itself.
Scheduled ==
  /\ batch \in {"run", "drain"} => pc.at = "turn" /\ ref[Main] = Idle
  /\ pc.at \in {"prompt", "switch", "stop", "review", "done"} => ref[Main] = Idle
  /\ \A c \in Children : ref[c] # Idle => batch # "none"

\* A refresh that may still replace the tools was begun in today's mode,
\* unless it is that of a subagent left behind; and the tools follow the mode
\* everywhere but in the middle of a switch.
Following ==
  /\ \A r \in Refreshers :
       ref[r].phase = "contact" /\ (r = Main \/ batch # "stray")
         => ref[r].profile = ProfileOf(mode)
  /\ pc.at = "switch" => mode = "build"
  /\ pc.at # "switch" /\ ~ghost.torn => tools.profile = ProfileOf(mode)

Inv == PlanOK /\ RefreshOK /\ RegistryOK /\ TurnOK /\ Scheduled /\ Following

-----------------------------------------------------------------------------
(* Lemmas about the tools                                                  *)

\* Every registry built for a configuration is one, with a manager's tools
\* only if the servers of that manager answered (build_tool_registry).
LEMMA RegistryIsOne ==
  ASSUME NEW p \in Profiles, NEW c \in Configs, NEW m \in Managers \cup {0},
         NEW answered \in BOOLEAN
  PROVE  /\ Registry(p, c, m, answered).profile = p
         /\ Registry(p, c, m, answered).mgr \in Managers \cup {0}
         /\ Registry(p, c, m, answered).names = RegisteredTools(p, c, answered)
  BY DEF Registry

\* What the servers can answer is Boolean, and yes only from a manager.
LEMMA AnswersAreBoolean ==
  ASSUME NEW p, NEW c, NEW m, NEW answered \in Answers(p, c, m)
  PROVE  answered \in BOOLEAN /\ (answered => m # 0)
  <1>1. CASE ~PlannedMcp(p, c) \/ m = 0
    <2>1. Answers(p, c, m) = {FALSE}
      BY <1>1 DEF Answers
    <2> QED
      BY <2>1
  <1>2. CASE PlannedMcp(p, c) /\ m # 0
    <2>1. Answers(p, c, m) \subseteq BOOLEAN
      BY <1>2 DEF Answers
    <2> QED
      BY <1>2, <2>1
  <1> QED
    BY <1>1, <1>2

\* A manager that gets a cached listing was made (MCPManager.register_tools).
LEMMA CacheIsMade ==
  ASSUME NEW p, NEW c, NEW m \in 0..mgr.made, NEW answered \in Answers(p, c, m),
         RefreshOK
  PROVE  /\ Cache(p, c, m, answered) \subseteq 1..mgr.made
         /\ Cache(p, c, m, answered) \in SUBSET Managers
  <1>1. CASE PlannedMcp(p, c) /\ answered
    <2>1. m # 0
      BY <1>1, AnswersAreBoolean
    <2>2. mgr.made \in 1..MaxManagers
      BY DEF RefreshOK
    <2>3. m \in 1..mgr.made /\ m \in Managers
      BY <2>1, <2>2, TerminalAssumption DEF Managers
    <2>4. Cache(p, c, m, answered) = mgr.cached \cup {m}
      BY <1>1 DEF Cache
    <2> QED
      BY <2>3, <2>4 DEF RefreshOK
  <1>2. CASE ~(PlannedMcp(p, c) /\ answered)
    <2>1. Cache(p, c, m, answered) = mgr.cached
      BY <1>2 DEF Cache
    <2> QED
      BY <2>1 DEF RefreshOK
  <1> QED
    BY <1>1, <1>2

\* In plan mode no tool changes the machine or a remote service.
LEMMA PlanToolsOnlyRead ==
  ASSUME NEW c \in Configs, NEW d \in Configs, NEW answered \in BOOLEAN
  PROVE  RegisteredTools("plan_main", c, answered) \cap Mutating(d) = {}
  BY NamesAssumption
  DEF RegisteredTools, Mutating, PlannedMemory, PlannedMacos, PlannedMcp,
      PlannedSubagents, PlanTools, CapabilityTools, PlanNames

-----------------------------------------------------------------------------
(* The initial states                                                      *)

(* The program starts with the invariant. *)
LEMMA InitInv == Init => Inv
  <1> SUFFICES ASSUME Init PROVE Inv
    OBVIOUS
  <1>1. cfg \in Configs /\ cfg.mcp \in BOOLEAN
    BY TerminalAssumption DEF Init
  <1>2. 1 \in 1..MaxManagers
    BY TerminalAssumption
  <1>3. PlanOK
    BY DEF Init, PlanOK, Statuses
  <1>4. RefreshOK
    BY <1>1, <1>2 DEF Init, RefreshOK, Managers, Idle
  <1>5. RegistryOK
    <2>1. PICK answered \in BOOLEAN : tools = Registry("build", cfg, mcp, answered)
      BY DEF Init
    <2>2. mcp \in Managers \cup {0}
      BY <1>1, <1>2 DEF Init, Managers
    <2> QED
      <3>1. "build" \in Profiles
        BY DEF Profiles
      <3>2. /\ tools.profile = "build" /\ tools.mgr \in Managers \cup {0}
            /\ tools.names = RegisteredTools("build", cfg, answered)
        BY <1>1, <2>1, <2>2, <3>1, RegistryIsOne
      <3> QED
        BY <1>1, <3>1, <3>2 DEF RegistryOK
  <1>6. TurnOK
    BY TerminalAssumption DEF Init, TurnOK
  <1>7. Scheduled
    BY DEF Init, Scheduled, Refreshers
  <1>8. Following
    BY DEF Init, Following, Idle, ProfileOf, Registry
  <1> QED
    BY <1>3, <1>4, <1>5, <1>6, <1>7, <1>8 DEF Inv

-----------------------------------------------------------------------------
(* The plan and its contract                                               *)

\* What a step does to the plan: every way of the contract to begin is the
\* user's yes, and every new plan ends it (plan_mode.py:22-40, 100-133).
LEMMA PlanStep == ASSUME Inv, [Next]_vars PROVE PlanOK'
  <1> USE DEF Inv, PlanOK, planVars, Statuses
  <1>0. Crossed \in {"clean", "overlapped", "crossed"}
    BY DEF Crossed
  <1>1. CASE PlanStart
    BY <1>1, <1>0 DEF PlanStart, CreatePlan
  <1>2. CASE PlanApply
    BY <1>2 DEF PlanApply, Prepare, Approved, ToBuild
  <1>3. CASE PlanExit
    BY <1>3 DEF PlanExit, ToBuild
  <1>4. CASE PlanClear
    BY <1>4 DEF PlanClear
  <1>5. CASE ShiftTab
    <2>1. CASE CreatePlan /\ mode' = "plan"
      BY <2>1, <1>0 DEF CreatePlan
    <2>2. CASE /\ mode' \in {"build", "plan"}
               /\ ghost' = [ghost EXCEPT !.torn = FALSE, !.refresh = Crossed]
               /\ UNCHANGED <<plan, contract, file>>
      BY <2>2, <1>0
    <2> QED
      BY <1>5, <2>1, <2>2 DEF ShiftTab
  <1>6. CASE Ask \/ Quit \/ RunSubagents \/ SubagentsDone \/ EndTurn
             \/ InterruptBatch \/ Abandon
    BY <1>6 DEF Ask, Quit, RunSubagents, SubagentsDone, EndTurn,
                InterruptBatch, Abandon
  <1>7. CASE SwitchDone \/ SwitchCut
    <2>1. ghost' = [ghost EXCEPT !.torn = FALSE, !.refresh = Crossed]
            \/ ghost' = [ghost EXCEPT !.torn = TRUE]
      BY <1>7 DEF SwitchDone, SwitchCut
    <2>2. UNCHANGED <<mode, plan, contract, file>>
      BY <1>7 DEF SwitchDone, SwitchCut
    <2> QED
      BY <1>0, <2>1, <2>2
  <1>8. CASE WritePlan
    BY <1>8 DEF WritePlan
  <1>9. CASE SubmitPlan
    BY <1>9 DEF SubmitPlan
  <1>10. CASE Reload \/ \E r \in Refreshers : RefreshTool(r)
    <2>1. PICK r \in Refreshers : BeginRefresh(r)
      BY <1>10 DEF Reload, RefreshTool, Refreshers
    <2>2. ghost' = [ghost EXCEPT !.refresh = "overlapped"] \/ ghost' = [ghost EXCEPT !.refresh = @]
      BY <2>1 DEF BeginRefresh
    <2>3. UNCHANGED <<mode, plan, contract, file>>
      BY <2>1 DEF BeginRefresh
    <2> QED
      BY <2>2, <2>3
  <1>11. CASE RefreshCut
    BY <1>11 DEF RefreshCut
  <1>12. ASSUME NEW r \in Refreshers, RefreshSwap(r) PROVE PlanOK'
    BY <1>12 DEF RefreshSwap
  <1>13. ASSUME NEW r \in Refreshers, RefreshDone(r) PROVE PlanOK'
    BY <1>13 DEF RefreshDone
  <1>14. CASE StopControls
    BY <1>14 DEF StopControls, AfterTurn, ToBuild
  <1>15. CASE StopCut
    BY <1>15 DEF StopCut
  <1>16. CASE \E t \in Turns : KeyRace(t) \/ ReadKey(t) \/ ListenerQuits(t)
    BY <1>16 DEF KeyRace, ReadKey, ListenerQuits
  <1>17. CASE Accept
    BY <1>17 DEF Accept, Prepare, Approved, ToBuild
  <1>18. CASE Reject
    BY <1>18 DEF Reject, ToBuild
  <1>19. CASE UNCHANGED vars
    BY <1>19 DEF vars
  <1> QED
    BY <1>1, <1>2, <1>3, <1>4, <1>5, <1>6, <1>7, <1>8, <1>9, <1>10, <1>11,
       <1>12, <1>13, <1>14, <1>15, <1>16, <1>17, <1>18, <1>19 DEF Next

-----------------------------------------------------------------------------
(* Refreshes and managers                                                  *)

(* Who may be refreshing when, at every step. *)
LEMMA RefreshStep == ASSUME Inv, [Next]_vars PROVE RefreshOK'
  <1> USE DEF Inv
  <1>1. ASSUME NEW p, NEW c, NEW m \in 0..mgr.made,
               NEW answered \in Answers(p, c, m),
               mgr' = [mgr EXCEPT !.cached = Cache(p, c, m, answered)],
               UNCHANGED <<cfg, mcp, ref>>
        PROVE  RefreshOK'
    BY <1>1, CacheIsMade DEF RefreshOK
  <1>2. ASSUME NEW p, ApplyProfile(p), UNCHANGED ref PROVE RefreshOK'
    BY <1>2, <1>1 DEF ApplyProfile, RefreshOK
  <1>3. CASE PlanStart \/ ShiftTab \/ SwitchDone
    BY <1>3, <1>2 DEF PlanStart, ShiftTab, SwitchDone
  <1>4. CASE UNCHANGED <<cfg, mcp, mgr, ref>>
    BY <1>4 DEF RefreshOK
  <1>5. CASE Quit
    <2>1. /\ mgr' = [mgr EXCEPT !.closed = @ \cup {1}]
          /\ UNCHANGED <<cfg, mcp, ref>>
      BY <1>5 DEF Quit
    <2>2. mgr.made \in 1..MaxManagers
      BY DEF RefreshOK
    <2>3. 1 \in 1..mgr.made /\ 1 \in Managers
      BY <2>2, TerminalAssumption DEF Managers
    <2> QED
      BY <2>1, <2>3 DEF RefreshOK
  <1>6. ASSUME NEW r \in Refreshers, BeginRefresh(r) PROVE RefreshOK'
    <2>1. PICK c \in Configs :
            /\ mgr.made + 1 <= MaxManagers
            /\ ref' = [ref EXCEPT ![r] = [phase |-> "contact", cfg |-> c,
                         new |-> IF c.mcp THEN mgr.made + 1 ELSE 0,
                         profile |-> ProfileOf(mode), old |-> mcp]]
            /\ mgr' = [mgr EXCEPT !.made = mgr.made + 1,
                         !.closed = IF c.mcp THEN @ ELSE @ \cup {mgr.made + 1}]
            /\ UNCHANGED <<cfg, mcp>>
      BY <1>6 DEF BeginRefresh
    <2>2. mgr'.made = mgr.made + 1 /\ mgr'.made \in 1..MaxManagers
      BY <2>1, TerminalAssumption DEF RefreshOK
    <2>3. /\ mgr' \in [made: 1..MaxManagers, closed: SUBSET Managers,
                       cached: SUBSET Managers]
          /\ mgr'.closed \subseteq 1..mgr'.made /\ mgr'.cached \subseteq 1..mgr'.made
      <3>1. mgr.made + 1 \in Managers /\ mgr.made + 1 \in 1..(mgr.made + 1)
        BY <2>2, TerminalAssumption DEF RefreshOK, Managers
      <3>2. 1..mgr.made \subseteq 1..(mgr.made + 1)
        BY DEF RefreshOK
      <3>3. mgr'.closed = mgr.closed \/ mgr'.closed = mgr.closed \cup {mgr.made + 1}
        BY <2>1 DEF RefreshOK
      <3>4. mgr'.cached = mgr.cached /\ DOMAIN mgr' = DOMAIN mgr
        BY <2>1 DEF RefreshOK
      <3>5. mgr' = [made |-> mgr'.made, closed |-> mgr'.closed, cached |-> mgr'.cached]
        BY <2>1 DEF RefreshOK
      <3>6. mgr.closed \subseteq 1..mgr.made /\ mgr.cached \subseteq 1..mgr.made
            /\ mgr.closed \subseteq Managers /\ mgr.cached \subseteq Managers
        BY DEF RefreshOK
      <3> QED
        BY <2>2, <3>1, <3>2, <3>3, <3>4, <3>5, <3>6
    <2>4. ref'[r] \in Refresh /\ ref'[r].new \in 0..mgr'.made /\ ref'[r].old \in 0..mgr'.made
      BY <2>1, <2>2, TerminalAssumption DEF RefreshOK, Refresh, ProfileOf, Profiles
    <2>5. \A s \in Refreshers \ {r} : ref'[s] = ref[s]
      BY <2>1 DEF RefreshOK
    <2>6. ref' \in [Refreshers -> Refresh \cup {Idle}]
      BY <2>1, <2>4 DEF RefreshOK
    <2> QED
      BY <2>1, <2>2, <2>3, <2>4, <2>5, <2>6 DEF RefreshOK
  <1>7. ASSUME NEW r \in Refreshers, RefreshSwap(r) PROVE RefreshOK'
    <2>1. ref[r] # Idle /\ ref[r] \in Refresh
      BY <1>7 DEF RefreshSwap, RefreshOK, Idle
    <2>2. PICK answered \in Answers(ref[r].profile, ref[r].cfg, ref[r].new) :
            mgr' = [mgr EXCEPT
              !.cached = Cache(ref[r].profile, ref[r].cfg, ref[r].new, answered)]
      BY <1>7 DEF RefreshSwap
    <2>3. ref' = [ref EXCEPT ![r].phase = "close"] /\ UNCHANGED <<cfg, mcp>>
      BY <1>7 DEF RefreshSwap
    <2>4. ref'[r] \in Refresh /\ ref'[r].new = ref[r].new /\ ref'[r].old = ref[r].old
      BY <2>1, <2>3 DEF RefreshOK, Refresh
    <2>5. ref[r].new \in 0..mgr.made /\ ref[r].old \in 0..mgr.made
      BY <2>1 DEF RefreshOK
    <2>6. /\ mgr' \in [made: 1..MaxManagers, closed: SUBSET Managers,
                       cached: SUBSET Managers]
          /\ mgr'.made = mgr.made /\ mgr'.closed = mgr.closed
          /\ mgr'.cached \subseteq 1..mgr.made
      BY <2>2, <2>5, CacheIsMade DEF RefreshOK
    <2>7. ref' \in [Refreshers -> Refresh \cup {Idle}]
      BY <2>3, <2>4 DEF RefreshOK
    <2>8. \A s \in Refreshers \ {r} : ref'[s] = ref[s]
      BY <2>3 DEF RefreshOK
    <2> QED
      BY <2>3, <2>4, <2>5, <2>6, <2>7, <2>8 DEF RefreshOK
  <1>8. ASSUME NEW r \in Refreshers, ref' = [ref EXCEPT ![r] = Idle],
               NEW m \in 0..mgr.made,
               mgr' = [mgr EXCEPT !.closed = @ \cup ({m} \ {0})] \/ mgr' = mgr,
               cfg' \in Configs, mcp' \in 0..mgr.made
        PROVE  RefreshOK'
    <2>1. /\ mgr' \in [made: 1..MaxManagers, closed: SUBSET Managers,
                       cached: SUBSET Managers]
          /\ mgr'.made = mgr.made /\ mgr'.cached = mgr.cached
          /\ mgr'.closed \subseteq 1..mgr.made
      BY <1>8, TerminalAssumption DEF RefreshOK, Managers
    <2>2. ref' \in [Refreshers -> Refresh \cup {Idle}]
      BY <1>8 DEF RefreshOK
    <2>3. \A s \in Refreshers : ref'[s] # Idle => ref'[s] = ref[s]
      BY <1>8 DEF RefreshOK
    <2> QED
      BY <1>8, <2>1, <2>2, <2>3 DEF RefreshOK
  <1>9. ASSUME NEW r \in Refreshers, RefreshDone(r) PROVE RefreshOK'
    <2>1. ref[r] # Idle /\ ref[r] \in Refresh
      BY <1>9 DEF RefreshDone, RefreshOK, Idle
    <2>2. ref[r].new \in 0..mgr.made /\ ref[r].old \in 0..mgr.made /\ ref[r].cfg \in Configs
      BY <2>1 DEF RefreshOK, Refresh
    <2> QED
      BY <1>8, <1>9, <2>2 DEF RefreshDone
  <1>10. CASE RefreshCut
    <2>1. Main \in Refreshers
      BY DEF Refreshers
    <2>2. CASE ref[Main].phase = "contact" /\ UNCHANGED mgr
      BY <1>8, <1>10, <2>1, <2>2 DEF RefreshCut, RefreshOK
    <2>3. CASE /\ ref[Main].phase = "close" /\ ref[Main].old # 0
               /\ mgr' = [mgr EXCEPT !.closed = @ \cup {ref[Main].old}]
      <3>1. ref[Main].old \in 0..mgr.made
        BY <2>1, <2>3 DEF RefreshOK, Idle
      <3>2. {ref[Main].old} = {ref[Main].old} \ {0}
        BY <2>3
      <3> QED
        BY <1>8, <1>10, <2>1, <2>3, <3>1, <3>2 DEF RefreshCut, RefreshOK
    <2> QED
      BY <1>10, <2>2, <2>3 DEF RefreshCut
  <1> QED
    BY <1>3, <1>4, <1>5, <1>6, <1>7, <1>9, <1>10
    DEF Next, vars, toolVars, PlanApply, PlanExit, PlanClear, Ask, SwitchCut,
        WritePlan, SubmitPlan, RunSubagents, SubagentsDone, Reload, RefreshTool,
        EndTurn, InterruptBatch, StopControls, StopCut, KeyRace, ReadKey,
        ListenerQuits, Accept, Reject, Abandon, Refreshers

-----------------------------------------------------------------------------
(* The tools of the mode                                                   *)

\* Whoever builds a registry builds it for a configuration.
LEMMA RegistryStep == ASSUME Inv, [Next]_vars PROVE RegistryOK'
  <1> USE DEF Inv
  <1>1. ASSUME NEW p \in Profiles, NEW c \in Configs, NEW m \in 0..mgr.made,
               NEW answered \in Answers(p, c, m), tools' = Registry(p, c, m, answered)
        PROVE  RegistryOK'
    <2>1. answered \in BOOLEAN
      BY AnswersAreBoolean
    <2>2. m \in Managers \cup {0}
      BY TerminalAssumption DEF RefreshOK, Managers
    <2> QED
      <3>1. /\ tools'.profile = p /\ tools'.mgr \in Managers \cup {0}
            /\ tools'.names = RegisteredTools(p, c, answered)
        BY <1>1, <2>1, <2>2, RegistryIsOne
      <3> QED
        BY <1>1, <2>1, <3>1 DEF RegistryOK
  <1>2. ASSUME NEW p \in Profiles, ApplyProfile(p) PROVE RegistryOK'
    BY <1>1, <1>2 DEF ApplyProfile, RefreshOK
  <1>3. CASE PlanStart \/ ShiftTab \/ SwitchDone
    BY <1>2, <1>3 DEF PlanStart, ShiftTab, SwitchDone, Profiles
  <1>4. ASSUME NEW r \in Refreshers, RefreshSwap(r) PROVE RegistryOK'
    <2>1. ref[r] \in Refresh /\ ref[r].new \in 0..mgr.made
      BY <1>4 DEF RefreshSwap, RefreshOK, Idle
    <2>2. ref[r].profile \in Profiles /\ ref[r].cfg \in Configs
      BY <2>1 DEF Refresh
    <2> QED
      BY <1>1, <1>4, <2>1, <2>2 DEF RefreshSwap
  <1>5. CASE UNCHANGED tools
    BY <1>5 DEF RegistryOK
  <1> QED
    BY <1>3, <1>4, <1>5
    DEF Next, vars, toolVars, PlanApply, PlanExit, PlanClear, Ask, SwitchCut,
        Quit, WritePlan, SubmitPlan, RunSubagents, SubagentsDone, Reload,
        RefreshTool, BeginRefresh, RefreshDone, RefreshCut, EndTurn,
        InterruptBatch, StopControls, StopCut, KeyRace, ReadKey, ListenerQuits,
        Accept, Reject, Abandon

-----------------------------------------------------------------------------
(* The main thread, the turn and the keys                                  *)

\* The places of the main thread and the states of a turn.
LEMMA TurnStep == ASSUME Inv, [Next]_vars PROVE TurnOK'
  <1> USE DEF Inv, TurnOK, ttyVars
  <1>1. ASSUME NEW then \in {"prompt", "review"}, StartTurn(then), UNCHANGED batch
        PROVE  TurnOK'
    <2>1. turn' = [n |-> turn.n + 1, then |-> then, raised |-> FALSE]
          /\ pc' = [at |-> "turn"]
      BY <1>1 DEF StartTurn
    <2>2. turn.n + 1 \in 1..MaxTurns
      BY <1>1, TerminalAssumption DEF StartTurn
    <2>3. /\ tty' = tty \/ tty' = [tty EXCEPT !.saved = tty.now, !.now = "cbreak"]
          /\ listener' = listener \/ listener' = [listener EXCEPT ![turn.n + 1] = "wait"]
      BY <1>1 DEF StartTurn
    <2>4. turn' \in [n: 0..MaxTurns, then: {"prompt", "review"}, raised: BOOLEAN]
      BY <2>1, <2>2, TerminalAssumption
    <2>5. tty' \in [now: {"cooked", "cbreak"}, saved: {"cooked", "cbreak"},
                    live: BOOLEAN]
      BY <2>3
    <2>6. listener' \in [Turns -> {"none", "wait", "blocked", "gone"}]
      BY <2>3
    <2> QED
      BY <1>1, <2>1, <2>4, <2>5, <2>6
  <1>2. CASE PlanStart \/ Ask
    BY <1>1, <1>2 DEF PlanStart, Ask
  <1>3. CASE SwitchDone
    BY <1>1, <1>3 DEF SwitchDone
  <1>4. CASE PlanApply \/ PlanExit \/ Accept \/ Reject
    BY <1>4 DEF PlanApply, PlanExit, Accept, Reject, Prepare, ToBuild
  <1>5. CASE PlanClear \/ ShiftTab \/ SwitchCut \/ Quit \/ Abandon
    BY <1>5 DEF PlanClear, ShiftTab, SwitchCut, Quit, Abandon
  <1>6. ASSUME NEW raised \in BOOLEAN, UNCHANGED <<tty, listener>>,
                turn' = turn \/ turn' = [turn EXCEPT !.raised = raised],
                pc' = pc \/ pc' \in {[at |-> "stop"], [at |-> "prompt"], [at |-> "reload"]},
                batch' \in {"none", "run", "drain", "stray"}
         PROVE  TurnOK'
    <2>1. turn' \in [n: 0..MaxTurns, then: {"prompt", "review"}, raised: BOOLEAN]
      BY <1>6
    <2>2. pc'.at \in {"prompt", "switch", "reload", "turn", "stop", "review", "done"}
      BY <1>6
    <2> QED
      BY <1>6, <2>1, <2>2
  <1>7. CASE WritePlan \/ SubmitPlan \/ RunSubagents
    BY <1>7, <1>6 DEF WritePlan, SubmitPlan, RunSubagents
  <1>8. CASE SubagentsDone \/ InterruptBatch
    BY <1>8, <1>6 DEF SubagentsDone, InterruptBatch
  <1>9. CASE EndTurn
    BY <1>9, <1>6 DEF EndTurn
  <1>10. CASE Reload \/ RefreshCut
    BY <1>10, <1>6 DEF Reload, BeginRefresh, RefreshCut
  <1>11. ASSUME NEW r \in Refreshers, RefreshTool(r) \/ RefreshSwap(r) \/ RefreshDone(r)
        PROVE  TurnOK'
    BY <1>11, <1>6 DEF RefreshTool, BeginRefresh, RefreshSwap, RefreshDone
  <1>12. CASE StopControls
    BY <1>12 DEF StopControls, AfterTurn, ToBuild
  <1>13. CASE StopCut
    BY <1>13 DEF StopCut
  <1>14. ASSUME NEW t \in Turns, KeyRace(t) \/ ReadKey(t) \/ ListenerQuits(t)
         PROVE  TurnOK'
    BY <1>14 DEF KeyRace, ReadKey, ListenerQuits
  <1>15. CASE UNCHANGED vars
    BY <1>15 DEF vars
  <1> QED
    BY <1>2, <1>3, <1>4, <1>5, <1>7, <1>8, <1>9, <1>10, <1>11, <1>12, <1>13,
       <1>14, <1>15 DEF Next

-----------------------------------------------------------------------------
(* Who refreshes when                                                      *)

\* A batch and a refresh of the main thread exclude each other, and neither
\* survives into a prompt (Agent.run_turn and its tools are sequential).
LEMMA ScheduledStep == ASSUME Inv, [Next]_vars PROVE Scheduled'
  <1> USE DEF Inv, Scheduled
  <1>0. Main \in Refreshers /\ Main \notin Children /\ Children \subseteq Refreshers
    BY ThreadsAssumption DEF Refreshers
  <1>1. CASE PlanStart \/ Ask \/ SwitchDone
    BY <1>1 DEF PlanStart, Ask, SwitchDone, StartTurn, Prompting
  <1>2. CASE PlanApply \/ PlanExit \/ Accept \/ Reject
    BY <1>2 DEF PlanApply, PlanExit, Accept, Reject, Prepare, ToBuild, Prompting
  <1>3. CASE PlanClear \/ ShiftTab \/ SwitchCut \/ Quit \/ Abandon
    BY <1>3 DEF PlanClear, ShiftTab, SwitchCut, Quit, Abandon, Prompting
  <1>4. CASE WritePlan \/ SubmitPlan \/ RunSubagents \/ EndTurn
    BY <1>4 DEF WritePlan, SubmitPlan, RunSubagents, EndTurn, Acting
  <1>5. CASE SubagentsDone
    BY <1>5 DEF SubagentsDone, ChildrenIdle
  <1>6. CASE InterruptBatch
    BY <1>6 DEF InterruptBatch
  <1>7. CASE Reload
    BY <1>7, <1>0 DEF Reload, BeginRefresh, Prompting, RefreshOK
  <1>8. CASE RefreshTool(Main)
    BY <1>8, <1>0 DEF RefreshTool, CanRefresh, BeginRefresh, Acting, RefreshOK
  <1>9. ASSUME NEW r \in Children, RefreshTool(r) PROVE Scheduled'
    BY <1>9, <1>0 DEF RefreshTool, CanRefresh, BeginRefresh, RefreshOK
  <1>10. ASSUME NEW r \in Refreshers, RefreshSwap(r) PROVE Scheduled'
    <2>1. ref[r] # Idle
      BY <1>10 DEF RefreshSwap, Idle
    <2>2. \A s \in Refreshers : ref[s] = Idle => ref'[s] = Idle
      BY <1>10, <2>1 DEF RefreshSwap, RefreshOK
    <2> QED
      BY <1>10, <1>0, <2>2 DEF RefreshSwap
  <1>11. ASSUME NEW r \in Refreshers, RefreshDone(r) PROVE Scheduled'
    BY <1>11, <1>0 DEF RefreshDone, RefreshOK
  <1>12. CASE RefreshCut
    <2>1. ref' = [ref EXCEPT ![Main] = Idle] /\ ref[Main] # Idle
      BY <1>12 DEF RefreshCut, Idle
    <2>2. ref'[Main] = Idle /\ \A c \in Children : ref'[c] = ref[c]
      BY <2>1, <1>0 DEF RefreshOK
    <2> QED
      BY <1>12, <2>1, <2>2 DEF RefreshCut
  <1>13. CASE StopControls
    BY <1>13 DEF StopControls, AfterTurn, ToBuild
  <1>14. CASE StopCut
    BY <1>14 DEF StopCut
  <1>15. ASSUME NEW t \in Turns, KeyRace(t) \/ ReadKey(t) \/ ListenerQuits(t)
         PROVE  Scheduled'
    BY <1>15 DEF KeyRace, ReadKey, ListenerQuits
  <1>16. CASE UNCHANGED vars
    BY <1>16 DEF vars
  <1> QED
    BY <1>1, <1>2, <1>3, <1>4, <1>5, <1>6, <1>7, <1>8, <1>9, <1>10, <1>11,
       <1>12, <1>13, <1>14, <1>15, <1>16 DEF Next, Refreshers

-----------------------------------------------------------------------------
(* The tools follow the mode                                               *)

\* Rebuilding for a mode gives that mode's profile, whoever answers.
LEMMA AppliedProfile ==
  ASSUME NEW p, ApplyProfile(p) PROVE tools'.profile = p
  BY DEF ApplyProfile, Registry

\* Outside a turn only a subagent left behind can be refreshing.
LEMMA OnlyStraysRefresh ==
  ASSUME Scheduled, NEW r \in Refreshers, ref[r] # Idle,
         pc.at \in {"prompt", "switch", "stop", "review", "done"}, TurnOK
  PROVE  r # Main /\ batch = "stray"
  BY DEF Scheduled, TurnOK, Refreshers

(* A refresh carries the profile of today's mode, or was left behind. *)
LEMMA FollowingStep == ASSUME Inv, [Next]_vars PROVE Following'
  <1> USE DEF Inv, Following
  <1>0. /\ Main \in Refreshers /\ Main \notin Children /\ Children \subseteq Refreshers
        /\ \A r \in Refreshers : ref[r].phase = "contact" => ref[r] # Idle
    BY ThreadsAssumption DEF Refreshers, Idle
  <1>1. ASSUME pc.at \in {"prompt", "switch", "stop", "review", "done"},
               UNCHANGED <<ref, batch>>
        PROVE  \A r \in Refreshers :
                 ref'[r].phase = "contact" /\ (r = Main \/ batch' # "stray")
                   => ref'[r].profile = ProfileOf(mode')
    BY <1>1, <1>0, OnlyStraysRefresh
  <1>2. CASE PlanStart
    BY <1>1, <1>2, AppliedProfile DEF PlanStart, StartTurn, Prompting, ProfileOf
  <1>3. CASE PlanApply \/ PlanExit \/ Accept \/ Reject
    BY <1>1, <1>3
    DEF PlanApply, PlanExit, Accept, Reject, Prepare, ToBuild, Prompting
  <1>4. CASE ShiftTab
    BY <1>1, <1>4, AppliedProfile DEF ShiftTab, ProfileOf
  <1>5. CASE SwitchDone
    BY <1>1, <1>5, AppliedProfile DEF SwitchDone, StartTurn, ProfileOf, planVars
  <1>6. CASE PlanClear \/ Quit \/ Abandon
    BY <1>6 DEF PlanClear, Quit, Abandon, Prompting, planVars, toolVars
  <1>7. CASE Ask
    BY <1>7 DEF Ask, StartTurn, Prompting, planVars, toolVars
  <1>8. CASE SwitchCut
    BY <1>8 DEF SwitchCut, planVars, toolVars, PlanOK
  <1>9. CASE EndTurn
    BY <1>9 DEF EndTurn, Acting, planVars, toolVars
  <1>10. CASE WritePlan \/ SubmitPlan
    <2>1. /\ UNCHANGED <<mode, tools, ref, batch>> /\ ghost'.torn = ghost.torn
          /\ pc.at = "turn" /\ pc'.at # "switch"
      BY <1>10 DEF WritePlan, SubmitPlan, Acting, toolVars, PlanOK
    <2> QED
      BY <2>1 DEF ProfileOf
  <1>11. CASE RunSubagents
    BY <1>11 DEF RunSubagents, planVars, toolVars
  <1>12. CASE SubagentsDone
    <2>1. \A r \in Refreshers : ref'[r].phase = "contact" => r = Main
      BY <1>12, <1>0 DEF SubagentsDone, ChildrenIdle, Refreshers
    <2> QED
      BY <1>12, <2>1 DEF SubagentsDone, planVars, toolVars, Scheduled
  <1>13. CASE InterruptBatch
    BY <1>13 DEF InterruptBatch, planVars, toolVars
  <1>14. ASSUME NEW r \in Refreshers, BeginRefresh(r), pc' = pc \/ pc'.at = "reload",
                pc'.at = "reload" => pc.at # "switch"
         PROVE  Following'
    <2>1. ref'[r].profile = ProfileOf(mode) /\ \A s \in Refreshers \ {r} : ref'[s] = ref[s]
      BY <1>14 DEF BeginRefresh, RefreshOK
    <2>2. UNCHANGED <<mode, tools, batch>> /\ ghost'.torn = ghost.torn
      BY <1>14 DEF BeginRefresh, planVars, PlanOK
    <2> QED
      BY <1>14, <2>1, <2>2 DEF ProfileOf
  <1>15. CASE Reload
    BY <1>14, <1>15, <1>0 DEF Reload, Prompting
  <1>16. ASSUME NEW r \in Refreshers, RefreshTool(r) PROVE Following'
    BY <1>14, <1>16 DEF RefreshTool
  <1>17. ASSUME NEW r \in Refreshers, RefreshSwap(r) PROVE Following'
    <2>1. /\ ref[r].phase = "contact" /\ ref[r] # Idle
          /\ tools'.profile = ref[r].profile
      BY <1>17, <1>0 DEF RefreshSwap, Registry
    <2>2. /\ ref' = [ref EXCEPT ![r].phase = "close"]
          /\ UNCHANGED <<mode, batch, pc>>
          /\ ghost'.torn = (r # Main /\ batch = "stray")
      BY <1>17 DEF RefreshSwap, PlanOK, planVars
    <2>3. \A s \in Refreshers : ref'[s].phase = "contact" => ref'[s] = ref[s]
      BY <2>1, <2>2 DEF RefreshOK, Refresh
    <2> QED
      BY <2>1, <2>2, <2>3 DEF ProfileOf
  <1>18. ASSUME NEW r \in Refreshers, RefreshDone(r) PROVE Following'
    <2>1. \A s \in Refreshers : ref'[s].phase = "contact" => ref'[s] = ref[s]
      BY <1>18 DEF RefreshDone, RefreshOK, Idle
    <2> QED
      BY <1>18, <2>1 DEF RefreshDone, ProfileOf, planVars
  <1>19. CASE RefreshCut
    <2>1. \A s \in Refreshers : ref'[s].phase = "contact" => ref'[s] = ref[s]
      BY <1>19, <1>0 DEF RefreshCut, RefreshOK, Idle
    <2>2. pc.at # "switch" /\ pc'.at # "switch" /\ ghost'.torn = ghost.torn
      BY <1>19, <1>0 DEF RefreshCut, Scheduled, Idle, PlanOK
    <2> QED
      BY <1>19, <2>1, <2>2 DEF RefreshCut, ProfileOf, planVars
  <1>20. CASE StopControls
    BY <1>1, <1>20 DEF StopControls, AfterTurn, ToBuild, toolVars
  <1>21. CASE StopCut
    BY <1>21 DEF StopCut, planVars, toolVars, PlanOK
  <1>22. ASSUME NEW t \in Turns, KeyRace(t) \/ ReadKey(t) \/ ListenerQuits(t)
         PROVE  Following'
    BY <1>22 DEF KeyRace, ReadKey, ListenerQuits, planVars, toolVars, PlanOK
  <1>23. CASE UNCHANGED vars
    BY <1>23 DEF vars
  <1> QED
    BY <1>2, <1>3, <1>4, <1>5, <1>6, <1>7, <1>8, <1>9, <1>10, <1>11, <1>12,
       <1>13, <1>15, <1>16, <1>17, <1>18, <1>19, <1>20, <1>21, <1>22, <1>23 DEF Next

-----------------------------------------------------------------------------
(* The terminal and its keys                                               *)

\* A turn starts from the terminal's own mode and its end restores it; with
\* no key lost to a command or another thread, its listener has ended then.
KeysOK ==
  /\ ~tty.live => /\ tty.now = "cooked" /\ tty.saved = "cooked"
                  /\ \A t \in Turns : listener[t] = "none"
  /\ \A t \in Turns : t > turn.n => listener[t] = "none"
  /\ ghost.keys # "cut" =>
       tty.saved = "cooked" /\ (pc.at \notin {"turn", "stop"} => tty.now = "cooked")
  /\ ghost.keys = "clean" => \A t \in Turns :
       /\ listener[t] # "blocked"
       /\ t < turn.n \/ pc.at \notin {"turn", "stop"} => ~Alive(t)

\* A step of anything else, unless it leaves a turn.
LEMMA KeysKept ==
  ASSUME KeysOK, UNCHANGED <<tty, listener>>, turn'.n = turn.n,
         ghost'.keys = ghost.keys, pc.at \notin {"turn", "stop"} \/ pc'.at \in {"turn", "stop"}
  PROVE  KeysOK'
  BY DEF KeysOK, Alive

\* The start of a turn, which begins where no other one runs (run_agent_turn).
LEMMA KeysAtStart ==
  ASSUME TurnOK, KeysOK, NEW then, StartTurn(then), ghost'.keys = ghost.keys,
         pc.at \notin {"turn", "stop"}
  PROVE  KeysOK'
  <1>1. /\ turn'.n = turn.n + 1 /\ turn.n \in Nat /\ turn.n + 1 \in Turns /\ pc'.at = "turn"
    BY TerminalAssumption DEF StartTurn, TurnOK, Turns
  <1>2. CASE tty.live
    <2>1. /\ tty' = [tty EXCEPT !.saved = tty.now, !.now = "cbreak"]
          /\ listener' = [listener EXCEPT ![turn.n + 1] = "wait"]
      BY <1>2 DEF StartTurn
    <2>2. tty'.live /\ tty'.saved = tty.now
      BY <1>2, <2>1 DEF TurnOK
    <2>3. \A t \in Turns : listener'[t] = IF t = turn.n + 1 THEN "wait" ELSE listener[t]
      BY <2>1 DEF TurnOK
    <2>4. \A t \in Turns : t \in Nat
      BY TerminalAssumption DEF Turns
    <2> QED
      BY <1>1, <2>2, <2>3, <2>4 DEF KeysOK, Alive
  <1>3. CASE ~tty.live
    <2>1. tty' = tty /\ listener' = listener
      BY <1>3 DEF StartTurn, ttyVars
    <2>2. \A t \in Turns : t \in Nat
      BY TerminalAssumption DEF Turns
    <2> QED
      BY <1>1, <1>3, <2>1, <2>2 DEF KeysOK, Alive
  <1> QED
    BY <1>2, <1>3

\* A key thread that quits, blocks or wakes (turn_controls.py:22-63).
LEMMA KeysOfListener ==
  ASSUME Inv, KeysOK, NEW t \in Turns, KeyRace(t) \/ ReadKey(t) \/ ListenerQuits(t)
  PROVE  KeysOK'
  <1>1. /\ UNCHANGED <<pc, turn, tty>> /\ listener[t] \in {"wait", "blocked"}
        /\ listener' = [listener EXCEPT ![t] = listener'[t]]
    BY DEF KeyRace, ReadKey, ListenerQuits, Inv, TurnOK
  <1>2. \A s \in Turns \ {t} : listener'[s] = listener[s]
    BY <1>1 DEF Inv, TurnOK
  <1>3. tty.live /\ ~(t > turn.n)
    BY <1>1 DEF KeysOK, Inv, TurnOK
  <1>4. CASE KeyRace(t)
    <2>1. ghost'.keys # "clean" /\ (ghost'.keys # "cut" => ghost.keys # "cut")
      BY <1>4 DEF KeyRace, Inv, PlanOK
    <2> QED
      BY <1>1, <1>2, <1>3, <2>1 DEF KeysOK
  <1>5. CASE ReadKey(t)
    <2>1. ghost' = ghost /\ ghost.keys # "clean"
      BY <1>5 DEF ReadKey, KeysOK
    <2> QED
      BY <1>1, <1>2, <1>3, <2>1 DEF KeysOK
  <1>6. CASE ListenerQuits(t)
    <2>1. ghost' = ghost /\ listener'[t] = "gone"
      BY <1>6 DEF ListenerQuits, Inv, TurnOK
    <2> QED
      BY <1>1, <1>2, <1>3, <2>1 DEF KeysOK, Alive
  <1> QED
    BY <1>4, <1>5, <1>6

\* The end of a turn: the thread has ended, or is left behind in os.read,
\* and the mode is restored (live_controls.stop).
LEMMA KeysAtStop ==
  ASSUME Inv, KeysOK, StopControls
  PROVE  KeysOK'
  <1>1. /\ pc.at = "stop" /\ (tty.live => listener[turn.n] \in {"blocked", "gone"})
        /\ tty' = [tty EXCEPT !.now = tty.saved] /\ UNCHANGED <<turn, listener, ghost>>
    BY DEF StopControls
  <1>2. tty'.now = tty.saved /\ tty'.saved = tty.saved /\ tty'.live = tty.live
    BY <1>1 DEF Inv, TurnOK
  <1>3. ghost.keys = "clean" => \A t \in Turns : listener[t] # "blocked" /\ ~Alive(t)
    <2> SUFFICES ASSUME ghost.keys = "clean", NEW t \in Turns
                 PROVE  listener[t] # "blocked" /\ ~Alive(t)
      OBVIOUS
    <2>1. t \in Nat /\ turn.n \in Nat
      BY TerminalAssumption DEF Turns, Inv, TurnOK
    <2>2. listener[t] # "blocked" /\ (t < turn.n => ~Alive(t))
      BY DEF KeysOK
    <2>3. t > turn.n => listener[t] = "none"
      BY DEF KeysOK
    <2>4. t = turn.n => listener[t] \in {"none", "gone"}
      <3>1. CASE tty.live
        BY <1>1, <2>2, <3>1
      <3>2. CASE ~tty.live
        BY <3>2 DEF KeysOK
      <3> QED
        BY <3>1, <3>2
    <2> QED
      BY <2>1, <2>2, <2>3, <2>4 DEF Alive
  <1> QED
    BY <1>1, <1>2, <1>3 DEF KeysOK, Alive

\* Every step keeps the terminal's mode and its listeners.
LEMMA KeysStep == ASSUME Inv, KeysOK, [Next]_vars PROVE KeysOK'
  <1> USE DEF ttyVars
  <1>1. CASE PlanStart \/ Ask
    <2>1. PICK then : StartTurn(then)
      BY <1>1 DEF PlanStart, Ask
    <2>2. ghost'.keys = ghost.keys /\ pc.at = "prompt"
      BY <1>1 DEF PlanStart, Ask, CreatePlan, Prompting, Inv, PlanOK
    <2> QED
      BY <2>1, <2>2, KeysAtStart DEF Inv
  <1>2. CASE SwitchDone
    <2>1. ghost'.keys = ghost.keys /\ pc.at = "switch"
      BY <1>2 DEF SwitchDone, Inv, PlanOK
    <2>2. StartTurn("prompt") \/ UNCHANGED <<turn, tty, listener>>
      BY <1>2 DEF SwitchDone
    <2> QED
      BY <2>1, <2>2, KeysAtStart, KeysKept DEF Inv
  <1>3. CASE PlanApply \/ PlanExit \/ PlanClear \/ ShiftTab \/ SwitchCut \/ Quit \/ Accept \/ Reject
             \/ Abandon
    <2>1. /\ UNCHANGED <<turn, tty, listener>> /\ pc.at \in {"prompt", "review", "switch"}
      BY <1>3 DEF PlanApply, PlanExit, PlanClear, ShiftTab, SwitchCut, Quit, Accept, Reject, Abandon,
                  Prompting
    <2>2. ghost'.keys = ghost.keys
      BY <1>3 DEF PlanApply, PlanExit, PlanClear, ShiftTab, SwitchCut, Quit, Accept, Reject, Abandon,
                  Prepare, CreatePlan, Inv, PlanOK
    <2> QED
      BY <2>1, <2>2, KeysKept
  <1>4. CASE WritePlan \/ SubmitPlan \/ RunSubagents \/ SubagentsDone \/ EndTurn \/ InterruptBatch
    <2>1. /\ UNCHANGED <<tty, listener>> /\ turn'.n = turn.n
          /\ pc' = pc \/ pc' = [at |-> "stop"]
      BY <1>4 DEF WritePlan, SubmitPlan, RunSubagents, SubagentsDone, EndTurn, InterruptBatch,
                  Inv, TurnOK
    <2>2. ghost'.keys = ghost.keys
      BY <1>4 DEF WritePlan, SubmitPlan, RunSubagents, SubagentsDone, EndTurn, InterruptBatch,
                  Inv, PlanOK
    <2> QED
      BY <2>1, <2>2, KeysKept
  <1>5. ASSUME NEW r \in Refreshers, BeginRefresh(r) \/ RefreshSwap(r) \/ RefreshDone(r),
               pc' = pc \/ pc.at \notin {"turn", "stop"}
        PROVE  KeysOK'
    <2>1. UNCHANGED <<turn, tty, listener>> /\ ghost'.keys = ghost.keys
      BY <1>5 DEF BeginRefresh, RefreshSwap, RefreshDone, Inv, PlanOK
    <2> QED
      BY <1>5, <2>1, KeysKept
  <1>6. CASE Reload
    BY <1>5, <1>6, ThreadsAssumption DEF Reload, Prompting, Refreshers
  <1>7. ASSUME NEW r \in Refreshers, RefreshTool(r) \/ RefreshSwap(r) \/ RefreshDone(r)
        PROVE  KeysOK'
    BY <1>5, <1>7 DEF RefreshTool, RefreshSwap, RefreshDone
  <1>8. CASE RefreshCut
    <2>1. Main \in Refreshers /\ ref[Main] # Idle
      BY <1>8 DEF RefreshCut, Refreshers, Idle
    <2>2. pc.at \notin {"stop"} /\ (pc.at = "turn" => pc'.at = "stop")
      BY <1>8, <2>1 DEF RefreshCut, Inv, Scheduled
    <2>3. UNCHANGED <<tty, listener>> /\ turn'.n = turn.n /\ ghost'.keys = ghost.keys
      BY <1>8 DEF RefreshCut, Inv, TurnOK, PlanOK
    <2> QED
      BY <2>2, <2>3, KeysKept
  <1>9. CASE StopCut
    <2>1. UNCHANGED <<turn, tty, listener>> /\ ghost'.keys = "cut"
      BY <1>9 DEF StopCut, Inv, PlanOK
    <2> QED
      BY <2>1 DEF KeysOK
  <1>10. CASE UNCHANGED vars
    BY <1>10, KeysKept DEF vars
  <1> QED
    BY <1>1, <1>2, <1>3, <1>4, <1>6, <1>7, <1>8, <1>9, <1>10, KeysAtStop, KeysOfListener DEF Next

-----------------------------------------------------------------------------
(* The MCP managers                                                        *)

\* The manager of a refresh in progress is open and its own; one that has
\* swapped the tools closes another than theirs; and refreshes that do not
\* overlap replace one manager after the other.
InProgress(r) == ref[r] # Idle

FreshOK ==
  \A r \in Refreshers : InProgress(r) /\ ref[r].new # 0 =>
    /\ ref[r].new \notin mgr.closed \cup {1, mcp}
    /\ \A s \in Refreshers : InProgress(s) =>
         ref[s].old # ref[r].new /\ (ref[s].new = ref[r].new => s = r)

OpenOK ==
  ghost.refresh # "crossed" /\ pc.at # "done" =>
    /\ mcp \notin mgr.closed /\ tools.mgr \notin mgr.closed
    /\ \A r \in Refreshers : ref[r].phase = "close" =>
         tools.mgr = 0 \/ tools.mgr # ref[r].old

CoveredOK ==
  ghost.refresh = "clean" =>
    /\ \A r \in Refreshers : InProgress(r) =>
         ref[r].old = mcp /\ \A s \in Refreshers : InProgress(s) => s = r
    /\ \A m \in 1..mgr.made : m \in mgr.closed \/ m = mcp
         \/ \E r \in Refreshers : InProgress(r) /\ ref[r].new = m

ManagersOK == tools.mgr \in 0..mgr.made /\ FreshOK /\ OpenOK /\ CoveredOK

\* A registry's manager is the one it was built with, or none.
LEMMA ManagerOfRegistry ==
  ASSUME NEW p, NEW c, NEW m, NEW answered
  PROVE  Registry(p, c, m, answered).mgr \in {m, 0}
  BY DEF Registry

\* A step that leaves managers and refreshes alone.
LEMMA ManagersKept ==
  ASSUME ManagersOK, UNCHANGED <<mcp, tools, ref>>, mgr'.made = mgr.made, mgr'.closed = mgr.closed,
         ghost'.refresh = ghost.refresh, pc'.at # "done" => pc.at # "done"
  PROVE  ManagersOK'
  BY DEF ManagersOK, FreshOK, OpenOK, CoveredOK, InProgress

\* A registry rebuilt by the main thread: crossed if a refresh is in progress.
LEMMA ManagersAtSwitch ==
  ASSUME Inv, ManagersOK, NEW p, ApplyProfile(p), ref' = ref, ghost'.refresh = Crossed, pc.at # "done"
  PROVE  ManagersOK'
  <1>1. PICK answered : /\ tools' = Registry(p, cfg, mcp, answered) /\ mcp' = mcp
                        /\ mgr' = [mgr EXCEPT !.cached = Cache(p, cfg, mcp, answered)]
    BY DEF ApplyProfile
  <1>2. mgr'.made = mgr.made /\ mgr'.closed = mgr.closed
    BY <1>1 DEF Inv, RefreshOK
  <1>3. tools'.mgr \in {mcp, 0} /\ mcp \in 0..mgr.made /\ mgr.made \in Nat /\ mgr.closed \subseteq 1..mgr.made
    BY <1>1, ManagerOfRegistry DEF Inv, RefreshOK
  <1>4. FreshOK' /\ tools'.mgr \in 0..mgr'.made
    BY <1>1, <1>2, <1>3 DEF ManagersOK, FreshOK, InProgress
  <1>5. CASE Refreshing
    <2>1. ghost'.refresh = "crossed"
      BY <1>5 DEF Crossed
    <2> QED
      BY <1>4, <2>1 DEF ManagersOK, OpenOK, CoveredOK
  <1>6. CASE ~Refreshing
    <2>1. ghost'.refresh = ghost.refresh /\ \A r \in Refreshers : ref[r] = Idle
      BY <1>6 DEF Crossed, Refreshing
    <2>2. \A r \in Refreshers : ref'[r].phase # "close"
      BY <2>1 DEF Idle
    <2>3. OpenOK'
      BY <1>1, <1>2, <1>3, <2>1, <2>2 DEF ManagersOK, OpenOK
    <2>4. CoveredOK'
      BY <1>1, <1>2, <2>1 DEF ManagersOK, CoveredOK, InProgress
    <2> QED
      BY <1>4, <2>3, <2>4 DEF ManagersOK
  <1> QED
    BY <1>5, <1>6

\* A refresh begins: its manager is the next number (refresh_live_runtime).
LEMMA ManagersAtBegin ==
  ASSUME Inv, ManagersOK, NEW r \in Refreshers, BeginRefresh(r), pc'.at # "done" => pc.at # "done"
  PROVE  ManagersOK'
  <1> DEFINE id == mgr.made + 1
  <1>1. PICK c \in Configs :
          /\ ref[r] = Idle
          /\ ref' = [ref EXCEPT ![r] = [phase |-> "contact", cfg |-> c,
                       new |-> IF c.mcp THEN id ELSE 0,
                       profile |-> ProfileOf(mode), old |-> mcp]]
          /\ mgr' = [mgr EXCEPT !.made = id, !.closed = IF c.mcp THEN @ ELSE @ \cup {id}]
          /\ ghost' = [ghost EXCEPT !.refresh = IF @ = "clean" /\ Refreshing THEN "overlapped" ELSE @]
          /\ UNCHANGED <<mcp, tools>>
    BY DEF BeginRefresh
  <1>2. /\ mgr.made \in Nat /\ mgr.made >= 1 /\ mgr.closed \subseteq 1..mgr.made /\ mcp \in 0..mgr.made
        /\ tools.mgr \in 0..mgr.made
        /\ \A s \in Refreshers : InProgress(s) =>
             ref[s].new \in 0..mgr.made /\ ref[s].old \in 0..mgr.made
    BY DEF Inv, RefreshOK, ManagersOK, InProgress
  <1>3. /\ mgr'.made = id
        /\ IF c.mcp THEN mgr'.closed = mgr.closed ELSE mgr'.closed = mgr.closed \cup {id}
    BY <1>1 DEF Inv, RefreshOK
  <1>4. /\ ref'[r].new = (IF c.mcp THEN id ELSE 0) /\ ref'[r].old = mcp /\ ref'[r].phase = "contact"
        /\ \A s \in Refreshers \ {r} : ref'[s] = ref[s]
    BY <1>1 DEF Inv, RefreshOK
  <1>5. InProgress(r)' /\ \A s \in Refreshers \ {r} : InProgress(s)' = InProgress(s)
    BY <1>4 DEF InProgress, Idle
  <1>6. /\ ghost'.refresh = "crossed" <=> ghost.refresh = "crossed"
        /\ ghost'.refresh = "clean" => ghost.refresh = "clean" /\ ~Refreshing
    BY <1>1 DEF Inv, PlanOK
  <1>7. FreshOK'
    <2> SUFFICES ASSUME NEW s \in Refreshers, InProgress(s)', ref'[s].new # 0
                 PROVE  /\ ref'[s].new \notin mgr'.closed \cup {1, mcp'}
                        /\ \A u \in Refreshers : InProgress(u)' =>
                             ref'[u].old # ref'[s].new /\ (ref'[u].new = ref'[s].new => u = s)
      BY DEF FreshOK
    <2>1. CASE s = r
      <3>1. c.mcp /\ ref'[s].new = id
        BY <1>4, <2>1
      <3> QED
        BY <1>1, <1>2, <1>3, <1>4, <1>5, <2>1, <3>1
    <2>2. CASE s # r
      <3>1. /\ InProgress(s) /\ ref'[s] = ref[s] /\ ref[s].new \in 0..mgr.made
            /\ ref[s].new \notin mgr.closed \cup {1, mcp}
        BY <1>2, <1>4, <1>5, <2>2 DEF ManagersOK, FreshOK
      <3>2. ref'[s].new \notin mgr'.closed \cup {1, mcp'}
        BY <1>1, <1>2, <1>3, <3>1
      <3>3. ASSUME NEW u \in Refreshers, InProgress(u)'
            PROVE  ref'[u].old # ref'[s].new /\ (ref'[u].new = ref'[s].new => u = s)
        <4>1. CASE u = r
          BY <1>2, <1>4, <3>1, <4>1
        <4>2. CASE u # r
          BY <1>4, <1>5, <3>1, <3>3, <4>2 DEF ManagersOK, FreshOK
        <4> QED
          BY <4>1, <4>2
      <3> QED
        BY <3>2, <3>3
    <2> QED
      BY <2>1, <2>2
  <1>8. OpenOK'
    <2> SUFFICES ASSUME ghost'.refresh # "crossed", pc'.at # "done"
                 PROVE  /\ mcp' \notin mgr'.closed /\ tools'.mgr \notin mgr'.closed
                        /\ \A s \in Refreshers : ref'[s].phase = "close" =>
                             tools'.mgr = 0 \/ tools'.mgr # ref'[s].old
      BY DEF OpenOK
    <2>1. /\ mcp \notin mgr.closed /\ tools.mgr \notin mgr.closed
          /\ \A s \in Refreshers : ref[s].phase = "close" => tools.mgr = 0 \/ tools.mgr # ref[s].old
      BY <1>6 DEF ManagersOK, OpenOK
    <2>2. mcp' \notin mgr'.closed /\ tools'.mgr \notin mgr'.closed
      BY <1>1, <1>2, <1>3, <2>1
    <2> QED
      BY <1>1, <1>4, <2>1, <2>2
  <1>9. CoveredOK'
    <2> SUFFICES ASSUME ghost'.refresh = "clean"
                 PROVE  /\ \A s \in Refreshers : InProgress(s)' =>
                             ref'[s].old = mcp' /\ \A u \in Refreshers : InProgress(u)' => u = s
                        /\ \A m \in 1..mgr'.made : m \in mgr'.closed \/ m = mcp'
                             \/ \E s \in Refreshers : InProgress(s)' /\ ref'[s].new = m
      BY DEF CoveredOK
    <2>1. \A s \in Refreshers : InProgress(s)' => s = r
      BY <1>5, <1>6 DEF Refreshing, InProgress
    <2>2. \A m \in 1..mgr.made : m \in mgr.closed \/ m = mcp
      BY <1>6 DEF ManagersOK, CoveredOK, InProgress, Refreshing
    <2>3. id \in mgr'.closed \/ ref'[r].new = id
      BY <1>3, <1>4
    <2>4. mgr.closed \subseteq mgr'.closed /\ mcp' = mcp
      BY <1>1, <1>3
    <2>5. \A m \in 1..mgr'.made : m \in 1..mgr.made \/ m = id
      BY <1>2, <1>3
    <2> QED
      BY <1>4, <1>5, <2>1, <2>2, <2>3, <2>4, <2>5
  <1> QED
    BY <1>1, <1>2, <1>3, <1>7, <1>8, <1>9 DEF ManagersOK

\* The agent gets the registry of a refresh, whose manager is its own.
LEMMA ManagersAtSwap ==
  ASSUME Inv, ManagersOK, NEW r \in Refreshers, RefreshSwap(r)
  PROVE  ManagersOK'
  <1>1. /\ ref[r].phase = "contact" /\ ref' = [ref EXCEPT ![r].phase = "close"]
        /\ UNCHANGED <<mcp, pc>> /\ tools'.mgr \in {ref[r].new, 0}
        /\ mgr'.made = mgr.made /\ mgr'.closed = mgr.closed /\ ghost'.refresh = ghost.refresh
    BY ManagerOfRegistry DEF RefreshSwap, Inv, RefreshOK, PlanOK
  <1>2. InProgress(r)
    BY <1>1 DEF InProgress, Idle
  <1>3. /\ \A s \in Refreshers : ref'[s].new = ref[s].new /\ ref'[s].old = ref[s].old
        /\ \A s \in Refreshers : InProgress(s)' = InProgress(s)
        /\ \A s \in Refreshers \ {r} : ref'[s] = ref[s]
    BY <1>1, <1>2 DEF Inv, RefreshOK, Refresh, InProgress, Idle
  <1>4. ref[r].new \in 0..mgr.made /\ mgr.made \in Nat /\ mgr.closed \subseteq 1..mgr.made
    BY <1>2 DEF Inv, RefreshOK, InProgress
  <1>5. FreshOK'
    BY <1>1, <1>3 DEF ManagersOK, FreshOK
  <1>6. CoveredOK'
    BY <1>1, <1>3 DEF ManagersOK, CoveredOK
  <1>7. OpenOK'
    <2>1. tools'.mgr \notin mgr.closed
      BY <1>1, <1>2, <1>4 DEF ManagersOK, FreshOK
    <2>2. ASSUME NEW s \in Refreshers, ref'[s].phase = "close"
          PROVE  tools'.mgr = 0 \/ tools'.mgr # ref'[s].old
      <3>1. InProgress(s)
        BY <1>2, <1>3, <2>2 DEF InProgress, Idle
      <3> QED
        BY <1>1, <1>2, <1>3, <3>1 DEF ManagersOK, FreshOK
    <2> QED
      BY <1>1, <2>1, <2>2 DEF ManagersOK, OpenOK
  <1> QED
    BY <1>1, <1>4, <1>5, <1>6, <1>7 DEF ManagersOK

\* A refresh ends: the old manager is closed, the new one is the session's.
LEMMA ManagersAtDone ==
  ASSUME Inv, ManagersOK, NEW r \in Refreshers, RefreshDone(r)
  PROVE  ManagersOK'
  <1>1. /\ ref[r].phase = "close" /\ ref' = [ref EXCEPT ![r] = Idle] /\ mcp' = ref[r].new
        /\ mgr'.made = mgr.made /\ mgr'.closed = mgr.closed \cup ({ref[r].old} \ {0})
        /\ UNCHANGED <<tools, ghost>> /\ (pc'.at # "done" => pc.at # "done")
    BY DEF RefreshDone, Inv, RefreshOK
  <1>2. InProgress(r)
    BY <1>1 DEF InProgress, Idle
  <1>3. ref'[r] = Idle /\ \A s \in Refreshers \ {r} : ref'[s] = ref[s]
    BY <1>1 DEF Inv, RefreshOK
  <1>4. /\ ~InProgress(r)' /\ \A s \in Refreshers \ {r} : InProgress(s)' = InProgress(s)
        /\ ref'[r].phase # "close"
    BY <1>3 DEF InProgress, Idle
  <1>5. ref[r].new \in 0..mgr.made /\ mgr.made \in Nat /\ mgr.closed \subseteq 1..mgr.made
    BY <1>2 DEF Inv, RefreshOK, InProgress
  <1>6. FreshOK'
    BY <1>1, <1>2, <1>3, <1>4 DEF ManagersOK, FreshOK
  <1>7. OpenOK'
    <2>1. mcp' \notin mgr'.closed
      BY <1>1, <1>2, <1>5 DEF ManagersOK, FreshOK
    <2>2. ASSUME ghost'.refresh # "crossed", pc'.at # "done" PROVE tools'.mgr \notin mgr'.closed
      BY <1>1, <2>2 DEF ManagersOK, OpenOK
    <2> QED
      BY <1>1, <1>3, <1>4, <2>1, <2>2 DEF ManagersOK, OpenOK
  <1>8. CoveredOK'
    <2> SUFFICES ASSUME ghost.refresh = "clean"
                 PROVE  /\ \A s \in Refreshers : ~InProgress(s)'
                        /\ \A m \in 1..mgr.made : m \in mgr'.closed \/ m = mcp'
      BY <1>1 DEF CoveredOK
    <2>1. ref[r].old = mcp /\ \A s \in Refreshers : InProgress(s) => s = r
      BY <1>2 DEF ManagersOK, CoveredOK
    <2>2. \A m \in 1..mgr.made : m \in mgr.closed \/ m = mcp \/ m = ref[r].new
      BY <2>1 DEF ManagersOK, CoveredOK
    <2>3. \A m \in 1..mgr.made : m # 0
      BY <1>5
    <2> QED
      BY <1>1, <1>4, <2>1, <2>2, <2>3
  <1> QED
    BY <1>1, <1>6, <1>7, <1>8 DEF ManagersOK

\* A refresh cut off by Ctrl-C is crossed, and the others keep their own.
LEMMA ManagersAtCut ==
  ASSUME Inv, ManagersOK, RefreshCut
  PROVE  ManagersOK'
  <1>1. /\ ref[Main] # Idle /\ ref' = [ref EXCEPT ![Main] = Idle] /\ UNCHANGED <<mcp, tools>>
        /\ mgr'.made = mgr.made /\ ghost'.refresh = "crossed" /\ Main \in Refreshers
        /\ mgr'.closed = mgr.closed \/ mgr'.closed = mgr.closed \cup {ref[Main].old}
    BY DEF RefreshCut, Inv, RefreshOK, PlanOK, Idle, Refreshers
  <1>2. ref'[Main] = Idle /\ \A s \in Refreshers \ {Main} : ref'[s] = ref[s]
    BY <1>1 DEF Inv, RefreshOK
  <1>3. /\ ~InProgress(Main)' /\ \A s \in Refreshers \ {Main} : InProgress(s)' = InProgress(s)
        /\ InProgress(Main)
    BY <1>1, <1>2 DEF InProgress
  <1>4. FreshOK'
    BY <1>1, <1>2, <1>3 DEF ManagersOK, FreshOK
  <1> QED
    BY <1>1, <1>4 DEF ManagersOK, OpenOK, CoveredOK

\* Every step keeps the managers.
LEMMA ManagersStep == ASSUME Inv, ManagersOK, [Next]_vars PROVE ManagersOK'
  <1>1. ASSUME NEW p, ApplyProfile(p), PlanStart \/ ShiftTab \/ SwitchDone PROVE ManagersOK'
    <2>1. ref' = ref /\ pc.at # "done"
      BY <1>1 DEF PlanStart, ShiftTab, SwitchDone, Prompting
    <2>2. ghost'.refresh = Crossed
      BY <1>1 DEF PlanStart, ShiftTab, SwitchDone, CreatePlan, Inv, PlanOK
    <2> QED
      BY <1>1, <2>1, <2>2, ManagersAtSwitch
  <1>2. CASE PlanStart \/ ShiftTab \/ SwitchDone
    BY <1>1, <1>2 DEF PlanStart, ShiftTab, SwitchDone
  <1>3. CASE Quit
    <2>1. /\ UNCHANGED <<mcp, tools, ref, ghost>> /\ mgr'.made = mgr.made
          /\ mgr'.closed = mgr.closed \cup {1} /\ pc'.at = "done"
      BY <1>3 DEF Quit, Inv, RefreshOK
    <2>2. FreshOK'
      BY <2>1 DEF ManagersOK, FreshOK, InProgress
    <2>3. CoveredOK'
      BY <2>1 DEF ManagersOK, CoveredOK, InProgress
    <2> QED
      BY <2>1, <2>2, <2>3 DEF ManagersOK, OpenOK
  <1>4. CASE Reload
    BY <1>4, ManagersAtBegin DEF Reload, Refreshers, Prompting
  <1>5. ASSUME NEW r \in Refreshers, RefreshTool(r) \/ RefreshSwap(r) \/ RefreshDone(r)
        PROVE  ManagersOK'
    BY <1>5, ManagersAtBegin, ManagersAtSwap, ManagersAtDone DEF RefreshTool
  <1>6. ASSUME \/ PlanApply \/ PlanExit \/ PlanClear \/ Ask \/ SwitchCut \/ WritePlan \/ SubmitPlan
               \/ RunSubagents \/ SubagentsDone \/ EndTurn \/ InterruptBatch \/ StopControls \/ StopCut
               \/ Accept \/ Reject \/ Abandon \/ UNCHANGED vars
               \/ \E t \in Turns : KeyRace(t) \/ ReadKey(t) \/ ListenerQuits(t)
        PROVE  ManagersOK'
    <2>1. UNCHANGED <<mcp, tools, ref, mgr>>
      BY <1>6 DEF PlanApply, PlanExit, PlanClear, Ask, SwitchCut, WritePlan, SubmitPlan, RunSubagents,
         SubagentsDone, EndTurn, InterruptBatch, StopControls, StopCut, Accept, Reject, Abandon, vars,
         KeyRace, ReadKey, ListenerQuits, toolVars
    <2>2. ghost'.refresh = ghost.refresh
      BY <1>6 DEF PlanApply, PlanExit, PlanClear, Ask, SwitchCut, WritePlan, SubmitPlan, RunSubagents,
         SubagentsDone, EndTurn, InterruptBatch, StopControls, StopCut, Accept, Reject, Abandon, vars,
         KeyRace, ReadKey, ListenerQuits, Prepare, Inv, PlanOK
    <2>3. pc' = pc \/ pc.at # "done"
      BY <1>6 DEF PlanApply, PlanExit, PlanClear, Ask, SwitchCut, WritePlan, SubmitPlan, RunSubagents,
         SubagentsDone, EndTurn, InterruptBatch, StopControls, StopCut, Accept, Reject, Abandon, vars,
         KeyRace, ReadKey, ListenerQuits, Prompting, Acting, Inv, Scheduled
    <2> QED
      BY <2>1, <2>2, <2>3, ManagersKept
  <1> QED
    BY <1>2, <1>3, <1>4, <1>5, <1>6, ManagersAtCut DEF Next

\* At start the terminal is its own, and only the manager made then is open.
LEMMA InitKeys == Init => KeysOK
  BY DEF Init, KeysOK, Alive

\* Of the managers.
LEMMA InitManagers == Init => ManagersOK
  <1> SUFFICES ASSUME Init PROVE ManagersOK
    OBVIOUS
  <1>1. PICK answered \in BOOLEAN :
          /\ tools = Registry("build", cfg, mcp, answered)
          /\ mgr = [made |-> 1, closed |-> IF cfg.mcp THEN {} ELSE {1},
                    cached |-> IF answered THEN {1} ELSE {}]
    BY DEF Init
  <1>2. /\ mcp = (IF cfg.mcp THEN 1 ELSE 0) /\ tools.mgr \in {mcp, 0}
        /\ mgr.made = 1 /\ mgr.closed = IF cfg.mcp THEN {} ELSE {1}
    BY <1>1, ManagerOfRegistry DEF Init
  <1>3. \A r \in Refreshers : ref[r] = Idle /\ ref[r].phase # "close" /\ ~InProgress(r)
    BY DEF Init, Idle, InProgress
  <1>4. FreshOK
    BY <1>3 DEF FreshOK
  <1>5. OpenOK
    BY <1>2, <1>3 DEF OpenOK
  <1>6. CoveredOK
    BY <1>2, <1>3 DEF CoveredOK
  <1> QED
    BY <1>2, <1>4, <1>5, <1>6 DEF ManagersOK

-----------------------------------------------------------------------------
(* The theorems                                                            *)

(* The invariant of every behaviour. *)
LEMMA InvHolds == Spec => []Inv
  <1>1. Inv /\ [Next]_vars => Inv'
    BY PlanStep, RefreshStep, RegistryStep, TurnStep, ScheduledStep, FollowingStep
    DEF Inv
  <1> QED
    BY InitInv, <1>1, PTL DEF Spec

\* The types hold, and the execution contract is active only while the
\* user's last word on this plan, since it was made, is yes: a new plan, a
\* rejection and /plan clear end it, and nothing but an acceptance begins it
\* (plan_mode.py:22-40, 100-133).
THEOREM ContractConsented == Spec => []ContractIsConsented
  <1>1. Inv => ContractIsConsented
    <2> SUFFICES ASSUME Inv PROVE ContractIsConsented
      OBVIOUS
    <2>1. \A r \in Refreshers : ref[r].phase \in {"idle", "contact", "close"}
      BY DEF Inv, RefreshOK, Refresh, Idle
    <2>2. mcp \in Managers \cup {0}
      BY TerminalAssumption DEF Inv, RefreshOK, Managers
    <2> QED
      BY <2>1, <2>2
      DEF Inv, PlanOK, RefreshOK, RegistryOK, TurnOK, ContractIsConsented, TypeOK
  <1> QED
    BY InvHolds, <1>1, PTL

\* At a prompt and in a turn the agent has the tools of the session's mode,
\* a planning one none that changes the machine, whatever switches, reloads,
\* refresh tools and interrupts came before (session_runtime.py:46-97,
\* main.py:538-580, 629-650).
THEOREM ToolsFollow == Spec => []ToolsFollowMode
  <1>1. Inv => ToolsFollowMode
    <2> SUFFICES ASSUME Inv, pc.at \in {"prompt", "review", "turn"}, ~ghost.torn
                 PROVE  /\ tools.profile = ProfileOf(mode)
                        /\ mode = "plan" =>
                             \A c \in Configs : tools.names \cap Mutating(c) = {}
      BY DEF ToolsFollowMode
    <2>1. tools.profile = ProfileOf(mode)
      BY DEF Inv, Following
    <2>2. ASSUME mode = "plan", NEW c \in Configs
          PROVE  tools.names \cap Mutating(c) = {}
      BY <2>1, <2>2, PlanToolsOnlyRead DEF Inv, RegistryOK, ProfileOf
    <2> QED
      BY <2>1, <2>2
  <1> QED
    BY InvHolds, <1>1, PTL

\* Back at a prompt the terminal has its own mode, and no listener thread
\* competes for its keys, unless Ctrl-C cut the join or a command read a key a
\* listener had seen (turn_controls.py:22-63, 94-118).
THEOREM TerminalReturned == Spec => []TerminalHandedBack
  <1>1. Inv /\ KeysOK /\ [Next]_vars => KeysOK'
    BY KeysStep
  <1>2. Inv /\ KeysOK => TerminalHandedBack
    BY DEF Inv, KeysOK, TerminalHandedBack
  <1> QED
    BY InvHolds, InitKeys, <1>1, <1>2, PTL DEF Spec

\* The agent's MCP tools never talk to a closed manager, even when refreshes
\* overlap, and without an overlap every manager but the current one, and one
\* a refresh is about to install, is closed (runtime_refresh.py:206-214,
\* main.py:559-579, 629-650).
THEOREM OneManagerOpen == Spec => []OneOpenManager
  <1>1. Inv /\ ManagersOK /\ [Next]_vars => ManagersOK'
    BY ManagersStep
  <1>2. Inv /\ ManagersOK => OneOpenManager
    <2> SUFFICES ASSUME ManagersOK, ghost.refresh # "crossed"
                 PROVE  /\ pc.at # "done" => tools.mgr \notin mgr.closed
                        /\ ghost.refresh = "clean" =>
                             1..mgr.made \subseteq mgr.closed \cup {mcp}
                               \cup {ref[r].new : r \in {s \in Refreshers : ref[s] # Idle}}
      BY DEF OneOpenManager
    <2>1. pc.at # "done" => tools.mgr \notin mgr.closed
      BY DEF ManagersOK, OpenOK
    <2>2. ASSUME ghost.refresh = "clean", NEW m \in 1..mgr.made
          PROVE  m \in mgr.closed \cup {mcp}
                   \cup {ref[r].new : r \in {s \in Refreshers : ref[s] # Idle}}
      BY <2>2 DEF ManagersOK, CoveredOK, InProgress
    <2> QED
      BY <2>1, <2>2
  <1> QED
    BY InvHolds, InitManagers, <1>1, <1>2, PTL DEF Spec
=============================================================================
