--------------------------- MODULE MCCapabilities ---------------------------
(* A small instance of Capabilities.                                       *)
EXTENDS Capabilities, TLC

Ask(type, desired, package, extension, skill, tool) ==
  [type |-> type, desired |-> desired, package |-> package,
   extension |-> extension, skill |-> skill, tool |-> tool]

\* The same extension asked for in words and then by name (one key), by its
\* package (another key), its skill, and a generic wish for its tool.
MCAsks == {
  Ask("install_extension", "ext", "", "", "", ""),
  Ask("install_extension", "ext", "", "ext", "", ""),
  Ask("install_extension", "a fetcher", "cat:ext", "", "", ""),
  Ask("enable_config", "helper", "", "", "helper", ""),
  Ask("generic", "fetch", "", "", "", "fetch")}
\* Installs that cross while the session refreshes, and requests, answers and
\* crossing refreshes around the session's own install.
CONSTANTS own, other
Scenario(byOwn, byOther, rqs, rfs, eds) ==
  [conf |-> [ext |-> TRUE, flag |-> TRUE],
   installs |-> [i \in Installers |-> IF i = own THEN byOwn ELSE byOther],
   requests |-> rqs, refreshes |-> rfs, edits |-> eds]
MCScenarios == {Scenario(1, 1, 0, 1, 0), Scenario(0, 2, 0, 2, 0),
                Scenario(1, 2, 0, 0, 0), Scenario(1, 0, 1, 2, 0),
                Scenario(1, 0, 0, 2, 1), Scenario(0, 0, 3, 1, 0)}

Symmetry == Permutations(Refreshers)
=============================================================================
