---------------------------- MODULE ToolProfiles ----------------------------
(***************************************************************************)
(* Which tools an agent gets (src/tools/__init__.py): a registry is built   *)
(* from a profile and the runtime configuration; a subagent's registry is   *)
(* a clone of its parent's with some tools left out.                       *)
(*                                                                         *)
(* A configuration c is a record: plan, memory, subagents, planSubagents    *)
(* and mcp are BOOLEAN (mcp: some server is enabled); web, macos and         *)
(* extensions are the sets of tool names those groups contribute, empty     *)
(* when the group is switched off or the platform is another one.           *)
(* "mcp" stands for all the tools of the MCP servers.                       *)
(***************************************************************************)

Profiles == {"build", "plan_main"}

CapabilityTools == {"find_capabilities", "request_capability"}
MemoryTools     == {"memory_read", "memory_search", "memory_write"}
PlanTools       == {"write_plan", "submit_plan"}

\* The optional groups, as the registration plan decides them.
PlannedMemory(p, c)     == IF p = "build" /\ c.memory THEN MemoryTools ELSE {}
PlannedMacos(p, c)      == IF p = "build" THEN c.macos ELSE {}
PlannedMcp(p, c)        == p = "build" /\ c.mcp
PlannedSubagents(p, c)  ==
  IF c.subagents /\ (p = "plan_main" => c.planSubagents)
  THEN {"run_subagent"} ELSE {}

\* build_tool_registry: the core tools, those of the profile, the optional
\* groups and, attached by the caller, the refresh tool. answered: the MCP
\* servers gave their tool list (a server that does not is left out).
RegisteredTools(p, c, answered) ==
  {"read_file", "load_skill", "refresh_runtime_capabilities"}
    \cup (IF p = "build" THEN {"write_file", "run_command"}
                         ELSE {"run_readonly_command"} \cup PlanTools)
    \cup CapabilityTools \cup c.web \cup c.extensions
    \cup PlannedMemory(p, c) \cup PlannedMacos(p, c)
    \cup PlannedSubagents(p, c)
    \cup (IF PlannedMcp(p, c) /\ answered THEN {"mcp"} ELSE {})

\* _create_child_agent: what a subagent of an agent with these tools gets.
ChildTools(mode, tools) ==
  tools \ ({"run_subagent"} \cup MemoryTools
             \cup (IF mode = "plan" THEN PlanTools ELSE {}))

\* The fixed tools of a planning agent.
PlanNames == {"read_file", "load_skill", "refresh_runtime_capabilities",
              "run_readonly_command", "run_subagent"}
             \cup PlanTools \cup CapabilityTools

\* The tools that change the machine or a remote service.
Mutating(c) == {"write_file", "run_command", "mcp", "memory_write"} \cup c.macos
=============================================================================
