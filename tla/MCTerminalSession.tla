------------------------- MODULE MCTerminalSession -------------------------
EXTENDS TerminalSession, TLC

\* Two configurations the file may hold: one with MCP servers, extensions
\* and everything else, one without servers and subagents.
FullConfig ==
  [plan |-> TRUE, memory |-> TRUE, subagents |-> TRUE, planSubagents |-> TRUE,
   mcp |-> TRUE, web |-> {"fetch_url"}, macos |-> {"notes_action"},
   extensions |-> {"extension"}]
SmallConfig ==
  [FullConfig EXCEPT !.mcp = FALSE, !.subagents = FALSE, !.macos = {}]
MCConfigs == {FullConfig, SmallConfig}
=============================================================================
