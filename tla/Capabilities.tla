---------------------------- MODULE Capabilities ----------------------------
(***************************************************************************)
(* What a session can do and what it has asked for: the extension of        *)
(* ExtensionStore as one session discovers it, the skill that comes with    *)
(* it (src/skills.py), the pinned skills, the requests for missing           *)
(* capabilities (src/capabilities.py) and the refresh that rebuilds the      *)
(* session's runtime from the configuration and the disk                     *)
(* (src/runtime_refresh.py).                                                *)
(*                                                                         *)
(* The session lives in a terminal, where one thread runs the commands, or   *)
(* in the server, where any number of HTTP threads reload it and answer its  *)
(* requests while its worker runs a turn.  In the terminal /extension        *)
(* install uses the session's own extension manager (installer Own).         *)
(***************************************************************************)
EXTENDS ExtensionStore, Sequences, FiniteSetsExt

CONSTANTS Own,           \* the installer of this process
          Refreshers,    \* the threads that refresh the session
          Asks,          \* the requests the model makes
          Scenarios      \* bounds: how often what may happen, see below

\* A scenario: the configuration at first, the installs each installer begins,
\* the requests recorded, the refreshes begun, the edits of the configuration.
ASSUME CapabilitiesAssumption ==
  /\ Own \in Installers
  /\ Scenarios \subseteq [conf : [ext : BOOLEAN, flag : BOOLEAN],
                         installs : [Installers -> Nat], requests : Nat,
                         refreshes : Nat, edits : Nat]
  /\ Asks \subseteq [type : STRING, desired : STRING, package : STRING,
                     extension : STRING, skill : STRING, tool : STRING]

VARIABLES host,      \* "terminal" or "server"
          conf,      \* config.yaml: extensions on, what the skill requires
          live,      \* the session's runtime
          pinned,    \* the skill is pinned (SessionContext.active_skills)
          requests,  \* CapabilityRequestManager._requests, oldest first
          refr,      \* the refreshes in progress
          left,      \* requests, refreshes and edits still to come (bounds)
          mixed      \* history: since the last refresh that ran alone, two
                     \* overlapped

sessionVars == <<host, conf, live, pinned, requests, refr, left, mixed>>
vars == <<storeVars, sessionVars>>

Confs    == [ext : BOOLEAN, flag : BOOLEAN]
Specs    == [dir : Dirs \cup {"none"}, ver : Releases]
Skills   == {"missing", "ineligible", "eligible"}

\* A runtime, as build_runtime_capability_bundle makes it: known is what the
\* extension manager discovered, tools what the registry was built from, root
\* where the skill manager looks, ext and flag the configuration it was made
\* with. touched (history): the disk has changed
\* since the extension was discovered.
Runtime == [known : Specs, tools : Specs, root : Dirs \cup {"none"},
            skill : Skills, ext : BOOLEAN, flag : BOOLEAN, touched : BOOLEAN]
NoRuntime == [known |-> None, tools |-> None, root |-> "none",
              skill |-> "missing", ext |-> FALSE, flag |-> FALSE, touched |-> FALSE]

\* A request names what it wants by up to four fields ("" when absent).
Fields == <<"package", "extension", "skill", "tool">>
\* A recorded request has its ask, its status and settled (history): a refresh
\* has looked at it, and nothing has changed it or the runtime since.
Statuses == {"pending", "dismissed", "resolved"}

\* No refresh is in progress.
Quiet == \A r \in Refreshers : refr[r].pc = "idle"

TypeOK ==
  /\ StoreTypeOK
  /\ host \in {"terminal", "server"}
  /\ conf \in Confs /\ live \in Runtime
  /\ pinned \in BOOLEAN /\ mixed \in BOOLEAN
  /\ \A k \in DOMAIN requests : requests[k].status \in Statuses
  /\ refr \in [Refreshers ->
        [pc : {"idle", "scan", "read", "skills", "swap", "store"},
         seen : SUBSET Dirs, bundle : Runtime, alone : BOOLEAN]]
  /\ left \in [requests : Nat, refreshes : Nat, edits : Nat]

Init ==
  /\ \E s \in Scenarios :
       /\ StoreInit(s.installs) /\ conf = s.conf
       /\ left = [requests |-> s.requests, refreshes |-> s.refreshes,
                  edits |-> s.edits]
  /\ host \in {"terminal", "server"}
  /\ live = [NoRuntime EXCEPT !.ext = conf.ext, !.flag = conf.flag]
  /\ pinned = FALSE /\ mixed = FALSE
  /\ requests = <<>>
  /\ refr = [r \in Refreshers |-> [pc |-> "idle", seen |-> {}, bundle |-> NoRuntime,
                                   alone |-> TRUE]]

-----------------------------------------------------------------------------
(* Requests.                                                               *)

\* _build_request_key: the type and the first field there is, else the words
\* the model used.
Key(a) ==
  LET given == {i \in DOMAIN Fields : a[Fields[i]] # ""}
  IN <<a.type, IF given = {} THEN a.desired ELSE a[Fields[Min(given)]]>>

Pending(k) == requests[k].status = "pending"

\* The fields an update adds to the request it finds.
Merged(old, new) ==
  [new EXCEPT !.package   = IF old.package   # "" THEN old.package   ELSE @,
              !.extension = IF old.extension # "" THEN old.extension ELSE @,
              !.skill     = IF old.skill     # "" THEN old.skill     ELSE @,
              !.tool      = IF old.tool      # "" THEN old.tool      ELSE @]

\* Mutant: an update finds only a request that is the same field by field.
SameAsk(a) == {k \in DOMAIN requests : Pending(k) /\ requests[k].ask = a}

\* _find_pending_by_key: the oldest pending request of the same need.
SameNeed(a) == {k \in DOMAIN requests : Pending(k) /\ Key(requests[k].ask) = Key(a)}

\* The tool request_capability, under the manager's lock.
AskFor(a) ==
  /\ IF SameNeed(a) # {}
     THEN LET k == CHOOSE x \in SameNeed(a) : \A y \in SameNeed(a) : x <= y
          IN /\ requests' = [requests EXCEPT ![k].ask = Merged(@, a),
                                             ![k].settled = FALSE]
             /\ UNCHANGED left
     ELSE /\ left.requests > 0
          /\ left' = [left EXCEPT !.requests = @ - 1]
          /\ requests' = Append(requests,
               [ask |-> a, status |-> "pending", settled |-> FALSE])
  /\ UNCHANGED <<host, conf, live, pinned, refr, mixed>>

\* dismiss_request and resolve_request: by HTTP at any time, in the terminal
\* by a command. Neither looks at the status the request has.
Answer(k, status) ==
  /\ host = "terminal" => Quiet
  /\ requests' = [requests EXCEPT ![k].status = status]
  /\ UNCHANGED <<host, conf, live, pinned, refr, left, mixed>>

\* _request_is_satisfied, by the runtime b. The one package of the model is
\* the extension's, and the tool asked for is one of its tools.
Satisfied(a, b) ==
  /\ a.type # "generic"
  /\ \/ a.tool # "" /\ b.tools # None
     \/ a.skill # "" /\ b.skill = "eligible"
     \/ a.extension # "" /\ b.known # None
     \/ a.package # "" /\ b.known # None

\* Something but a refresh changed the runtime: nobody looks at the requests.
Unsettled == [k \in DOMAIN requests |-> [requests[k] EXCEPT !.settled = FALSE]]

-----------------------------------------------------------------------------
(* Skills.                                                                 *)

\* SkillManager.discover over the extension's root; the configuration the
\* manager was given decides who is eligible.
SkillAt(root, flag) ==
  IF root = "none" THEN "missing"
  ELSE IF ~Has(root, "rest") THEN "missing"
  ELSE IF flag THEN "eligible" ELSE "ineligible"

\* What a refresh and /skill reload leave pinned.
Pruned(skill) == pinned /\ skill = "eligible"

\* /skill use and /skill clear.
Pin ==
  /\ host = "terminal" /\ Quiet /\ ~pinned /\ live.skill = "eligible"
  /\ pinned' = TRUE
  /\ UNCHANGED <<host, conf, live, requests, refr, left, mixed>>

Unpin ==
  /\ host = "terminal" /\ Quiet /\ pinned
  /\ pinned' = FALSE
  /\ UNCHANGED <<host, conf, live, requests, refr, left, mixed>>

\* /skill reload scans again where the manager looked when it was made.
SkillReload ==
  /\ host = "terminal" /\ Quiet
  /\ LET s == SkillAt(live.root, live.flag)
     IN live' = [live EXCEPT !.skill = s] /\ pinned' = Pruned(s)
  /\ requests' = Unsettled
  /\ UNCHANGED <<host, conf, refr, left, mixed>>

\* A change of mode rebuilds the registry from the manager as it is now
\* (apply_tool_profile): an extension installed since becomes usable.
SwitchMode ==
  /\ host = "terminal" /\ Quiet
  /\ live' = [live EXCEPT !.tools = live.known]
  /\ requests' = Unsettled
  /\ UNCHANGED <<host, conf, pinned, refr, left, mixed>>

-----------------------------------------------------------------------------
(* The refresh (refresh_live_runtime).                                      *)

\* The user edits config.yaml.
Edit ==
  /\ left.edits > 0
  /\ conf' \in Confs \ {conf}
  /\ left' = [left EXCEPT !.edits = @ - 1]
  /\ UNCHANGED <<host, live, pinned, requests, refr, mixed>>

\* config_loader. In the server two requests may both find the session idle.
RefreshBegin(r) ==
  /\ refr[r].pc = "idle" /\ left.refreshes > 0
  /\ host = "terminal" => Quiet /\ inst[Own].pc = "idle"
  /\ refr' = [x \in Refreshers |->
       IF x = r THEN [refr[r] EXCEPT !.pc = "scan", !.alone = Quiet,
              !.bundle = [NoRuntime EXCEPT !.ext = conf.ext, !.flag = conf.flag]]
       ELSE [refr[x] EXCEPT !.alone = FALSE]]
  /\ mixed' = (mixed \/ ~Quiet)
  /\ left' = [left EXCEPT !.refreshes = @ - 1]
  /\ UNCHANGED <<host, conf, live, pinned, requests>>

\* ExtensionManager.discover lists the manifests of the root ...
RefreshScan(r) ==
  /\ refr[r].pc = "scan"
  /\ refr' = [refr EXCEPT
       ![r].pc = "read",
       ![r].seen = IF refr[r].bundle.ext THEN {d \in Dirs : Has(d, "manifest")} ELSE {},
       ![r].bundle.touched = FALSE]
  /\ UNCHANGED <<host, conf, live, pinned, requests, left, mixed>>

\* ... and reads them; the bundle's skills directory is looked for.
RefreshRead(r) ==
  /\ refr[r].pc = "read"
  /\ LET s == Discovered(refr[r].seen)
     IN refr' = [refr EXCEPT ![r].pc = "skills",
                             ![r].bundle.known = s, ![r].bundle.tools = s,
                             ![r].bundle.root =
                               IF s = None THEN "none"
                               ELSE IF Has(s.dir, "rest") THEN s.dir ELSE "none"]
  /\ UNCHANGED <<host, conf, live, pinned, requests, left, mixed>>

\* SkillManager.discover, and the registry (which may ask MCP servers).
RefreshSkills(r) ==
  /\ refr[r].pc = "skills"
  /\ LET b == refr[r].bundle
     IN refr' = [refr EXCEPT ![r].pc = "swap",
                             ![r].bundle.skill = SkillAt(b.root, b.flag)]
  /\ UNCHANGED <<host, conf, live, pinned, requests, left, mixed>>

\* The pinned skills that are not usable any more go, and the agent gets the
\* new managers and the new registry; the session's manager follows later.
RefreshSwap(r) ==
  /\ refr[r].pc = "swap"
  /\ pinned' = Pruned(refr[r].bundle.skill)
  /\ live' = [refr[r].bundle EXCEPT !.known = live.known]
  /\ refr' = [refr EXCEPT ![r].pc = "store"]
  /\ UNCHANGED <<host, conf, requests, left, mixed>>

\* Mutant: auto_resolve looks at the runtime before the refresh.
AutoResolvedStale(b) ==
  [k \in DOMAIN requests |->
     IF Pending(k) /\ Satisfied(requests[k].ask, live)
     THEN [requests[k] EXCEPT !.status = "resolved"]
     ELSE [requests[k] EXCEPT !.settled = TRUE]]

\* auto_resolve, with the new bundle and under the lock.
AutoResolved(b) ==
  [k \in DOMAIN requests |->
     IF Pending(k) /\ Satisfied(requests[k].ask, b)
     THEN [requests[k] EXCEPT !.status = "resolved"]
     ELSE [requests[k] EXCEPT !.settled = TRUE]]

\* auto_resolve, and the caller records the managers. Its process's installer
\* gets a new manager, except when the refresh is the model's, in the server.
RefreshStore(r) ==
  /\ refr[r].pc = "store"
  /\ requests' = AutoResolved(refr[r].bundle)
  /\ live' = [live EXCEPT !.known = refr[r].bundle.known]
  /\ \E renew \in {TRUE, host = "terminal"} :
       inst' = IF renew THEN [inst EXCEPT ![Own].read = FALSE, ![Own].cache = 0]
                        ELSE inst
  /\ mixed' = (mixed /\ ~refr[r].alone)
  /\ refr' = [refr EXCEPT ![r] = [pc |-> "idle", seen |-> {}, bundle |-> NoRuntime,
                                  alone |-> TRUE]]
  /\ UNCHANGED <<host, conf, pinned, left, release, dirs, torn>>

RefreshStep(r) ==
  RefreshBegin(r) \/ RefreshScan(r) \/ RefreshRead(r) \/ RefreshSkills(r) \/ RefreshSwap(r)

-----------------------------------------------------------------------------
(* Installs, seen from the session.                                        *)

\* A step of an installer changes the disk under every runtime discovered
\* before. Own, in the terminal, runs at the prompt, and what it discovers
\* at the end is what the session's manager knows from then on.
Install(i) ==
  /\ host = "terminal" /\ i = Own => Quiet
  /\ InstallStep(i)
  /\ LET moved == dirs' # dirs
         found == i = Own /\ host = "terminal"
                    /\ inst[i].pc = "discover" /\ inst'[i].end # "cut"
     IN /\ live' = [live EXCEPT !.touched = @ \/ moved,
                                !.known = IF found THEN Discovered(Dirs) ELSE @]
        /\ requests' = IF found THEN Unsettled ELSE requests
        /\ refr' = [r \in Refreshers |->
             [refr[r] EXCEPT !.bundle.touched = @ \/ (moved /\ refr[r].pc # "idle")]]
  /\ UNCHANGED <<host, conf, pinned, left, mixed>>

-----------------------------------------------------------------------------
(* What find_capabilities tells the model.                                  *)

\* CapabilityInventory._collect_discoverable_candidates scans the disk anew,
\* with the session's configuration, and tells what only a reload is missing.
ReloadRequired ==
  LET fresh == IF live.ext THEN Discovered(Dirs) ELSE None
      skill == IF fresh = None THEN "missing" ELSE SkillAt(fresh.dir, live.flag)
  IN (IF fresh # None /\ live.known = None THEN {"extension"} ELSE {})
       \cup (IF fresh # None /\ live.known = None /\ live.tools = None
             THEN {"tool"} ELSE {})
       \cup (IF skill = "eligible" /\ live.skill = "missing" THEN {"skill"} ELSE {})

-----------------------------------------------------------------------------
Next ==
  \/ Publish /\ UNCHANGED sessionVars
  \/ \E i \in Installers : Install(i)
  \/ /\ \/ \E a \in Asks : AskFor(a)
        \/ \E k \in DOMAIN requests, s \in {"dismissed", "resolved"} : Answer(k, s)
        \/ Pin \/ Unpin \/ SkillReload \/ SwitchMode \/ Edit
        \/ \E r \in Refreshers : RefreshStep(r)
     /\ UNCHANGED storeVars
  \/ \E r \in Refreshers : RefreshStore(r)

Spec == Init /\ [][Next]_vars

-----------------------------------------------------------------------------
(* Properties.                                                             *)

\* A need is recorded once: however requests, answers and refreshes interleave,
\* no two pending requests have the same key, and none changes its key when an
\* update adds fields to it.
OneRequestPerNeed ==
  /\ TypeOK
  /\ \A j, k \in DOMAIN requests :
       Pending(j) /\ Pending(k) /\ Key(requests[j].ask) = Key(requests[k].ask) => j = k

\* A pinned skill is one the session's skill manager offers: present and
\* eligible, through refreshes, /skill reload, edits of the configuration and
\* installs that take the skill's files away. And a refresh that ran alone
\* leaves no request open that its runtime satisfies, with the registry, the
\* skills and the manager all of that one refresh; until the disk changes the
\* model is not told to reload again.
RefreshSettles ==
  /\ pinned => live.skill = "eligible"
  /\ Quiet /\ ~mixed =>
       /\ \A k \in DOMAIN requests :
            Pending(k) /\ requests[k].settled => ~Satisfied(requests[k].ask, live)
       /\ host = "server" => live.known = live.tools
       /\ ~live.touched => ReloadRequired = {}

\* The command an extension's tool will run is the release its session
\* discovered, whole, as long as no install has changed the disk since and
\* none is removing the target, was cut while it did or crossed another; and the staging
\* directory of an install never hides an installed bundle.
ActiveFindsCode ==
  /\ Quiet /\ ~mixed /\ ~live.touched /\ live.tools # None
  /\ ~torn /\ \A i \in Installers : inst[i].pc # "clear"
  =>
    IF live.tools.dir = "target"
    THEN dirs["target"].file = Bundle(live.tools.ver)
    ELSE ~Has("target", "manifest")

\* The inventory calls an extension active when the session's manager knows
\* it; then its tools are there. (In the terminal an install teaches the
\* manager the extension at once, and its tools come with the next reload.)
ActiveMeansUsable == Quiet /\ ~mixed /\ live.known # None => live.tools # None
=============================================================================
