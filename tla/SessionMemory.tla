----------------------------- MODULE SessionMemory -----------------------------
(***************************************************************************)
(* One session's memory workspace: MEMORY.md, memory-settings.json, the    *)
(* daily log and the audit log, used by the agent's thread and, in the     *)
(* service, by request threads.  _lock covers each file access of a writer *)
(* and nothing more, so that an operation is a list of steps that others   *)
(* come between; readers take no lock.  write_text truncates the file and  *)
(* then writes it.                                                         *)
(*                                                                         *)
(* A text is the number of the operation that wrote it, of a class that    *)
(* says how the write policies judge it; a title stands for its kind too.  *)
(* The class of a text, and what a settings request asks for, are chosen   *)
(* in the step that first looks at them.                                   *)
(***************************************************************************)
EXTENDS Naturals, Sequences, FiniteSets, SequencesExt, FiniteSetsExt

CONSTANTS Agent,       \* the thread that runs the agent
          Clients,     \* request threads of the service
          Titles,      \* titles of entries, also the ids hand-written ones get
          Classes,     \* what texts are like, of AllClasses
          MaxOps,      \* bound: operations begun
          MaxEarlier,  \* bound: of these, begun before any overlap
          None

(* "unsafe": looks like a secret or a reasoning trace; "weak": short,      *)
(* generic or of low confidence.                                           *)
AllClasses == {"plain", "weak", "unsafe"}
Modes      == {"off", "manual_only", "auto"}
Policies   == {"curated_only", "search_all_ranked"}

ASSUME MemoryAssumption ==
    /\ MaxOps \in Nat /\ MaxEarlier \in Nat /\ Classes \subseteq AllClasses
    /\ Agent \notin Clients /\ None \notin Titles \cup Nat \cup Clients \cup {Agent}
    /\ Titles \cap Nat = {}

Actors == Clients \cup {Agent}

VARIABLES surface,             \* "terminal" or "service"
          session,             \* Session.state in the database
          present, doc,        \* MEMORY.md exists, its entries
          settings,            \* memory-settings.json, or Torn
          daily, audit,        \* the daily log's notes, those audited
          lock,                \* who is inside _lock, or None
          op, at, loaded,      \* per actor: its operation, step, what it read
          ops,                 \* operations begun
          fresh, trusted       \* history: reads still true, no overlap so far

files   == <<present, doc, settings, daily, audit>>
local   == <<op, at, loaded>>
history == <<fresh, trusted>>
vars    == <<surface, session, files, lock, local, ops, history>>

Torn     == [mode |-> "torn", policy |-> "torn"]
Settings == [mode : Modes, policy : Policies]
NoOp     == [do |-> "none"]

Init == /\ surface \in {"terminal", "service"} /\ session = "active"
        /\ present = FALSE /\ doc = <<>>
        /\ settings = [mode |-> "manual_only", policy |-> "search_all_ranked"]
        /\ daily = <<>> /\ audit = {}
        /\ lock = None
        /\ op = [a \in Actors |-> NoOp] /\ at = [a \in Actors |-> 1]
        /\ loaded = [a \in Actors |-> <<>>]
        /\ ops = 0
        /\ fresh = [a \in Actors |-> TRUE] /\ trusted = TRUE

-----------------------------------------------------------------------------
(* Entries and what the operations make of a list of them. *)
Entry(o, title, supersedes) ==
    [id |-> o.n, title |-> title, text |-> o.n, class |-> o.class, by |-> o.by,
     status |-> "active", supersedes |-> supersedes]

Ids(entries) == {entries[i].id : i \in DOMAIN entries}

(* The first entry with this id. *)
Position(entries, id) ==
    CHOOSE i \in DOMAIN entries :
      entries[i].id = id /\ \A j \in 1..i - 1 : entries[j].id # id

Titled(entries, title) == {i \in DOMAIN entries : entries[i].title = title}
FirstTitled(entries, title) == Min(Titled(entries, title))

(* The first entry of that title, whatever its status, takes the text and  *)
(* is active again.  The mutant adds an entry all the same.                *)
UpsertedTwice(entries, o) == Append(entries, Entry(o, o.title, 0))

Upserted(entries, o) ==
    IF Titled(entries, o.title) = {}
    THEN Append(entries, Entry(o, o.title, 0))
    ELSE [entries EXCEPT ![FirstTitled(entries, o.title)] =
            [@ EXCEPT !.text = o.n, !.class = o.class, !.by = o.by,
                      !.status = "active"]]

Updated(entries, o) ==
    LET i == Position(entries, o.id)
    IN  [entries EXCEPT ![i] =
           [@ EXCEPT !.title = IF o.title = None THEN entries[i].title ELSE o.title,
                     !.text = o.n, !.class = o.class, !.by = o.by]]

Archived(entries, o) ==
    [entries EXCEPT ![Position(entries, o.id)].status = "archived"]

(* The mutant leaves the replaced entry active. *)
SupersededBeside(entries, o) ==
    LET title == entries[Position(entries, o.id)].title
    IN  Append(entries, Entry(o, IF o.title = None THEN title ELSE o.title, o.id))

Superseded(entries, o) ==
    LET i == Position(entries, o.id)
    IN  Append([entries EXCEPT ![i].status = "superseded"],
               Entry(o, IF o.title = None THEN entries[i].title ELSE o.title, o.id))

(* The entry is named by its id, or by its title: then the first such.     *)
Target(entries, o) ==
    IF o.id = None THEN entries[FirstTitled(entries, o.title)].id ELSE o.id

(* The entries with another id, in their order.                            *)
Deleted(entries, o) ==
    LET kept   == {i \in DOMAIN entries : entries[i].id # Target(entries, o)}
        Nth(n) == CHOOSE i \in kept : Cardinality({j \in kept : j <= i}) = n
    IN  [n \in 1..Cardinality(kept) |-> entries[Nth(n)]]

(* A document edited by a person: an entry less, or one written by hand,   *)
(* without metadata, which parses with the id of its kind and title.       *)
Edited(entries, o) ==
    IF o.id # None
    THEN RemoveAt(entries, Position(entries, o.id))
    ELSE Append(entries, [Entry(o, o.title, 0) EXCEPT !.id = o.title])

Changed(entries, o) ==
    CASE o.do \in {"upsert", "writeback"} -> Upserted(entries, o)
      [] o.do = "update"    -> Updated(entries, o)
      [] o.do = "archive"   -> Archived(entries, o)
      [] o.do = "supersede" -> Superseded(entries, o)
      [] o.do = "delete"    -> Deleted(entries, o)
      [] o.do = "replace"   -> Edited(entries, o)

(* FileNotFoundError: no entry has the id or the title the operation names. *)
Unknown(entries, o) ==
    \/ o.id # None /\ o.id \notin Ids(entries)
    \/ o.do = "delete" /\ o.id = None /\ Titled(entries, o.title) = {}

-----------------------------------------------------------------------------
(* evaluate_manual_write and evaluate_autonomous_write. *)
ManualAccepts(class, mode) == mode # "off" /\ class # "unsafe"
AutoAccepts(class, mode)   == mode = "auto" /\ class = "plain"

(* _evaluate_write_candidate. *)
Accepts(by, class, mode) == IF by = "auto" THEN AutoAccepts(class, mode)
                                           ELSE ManualAccepts(class, mode)

(* _assert_write_allowed. *)
Allows(by, mode) == IF by = "auto" THEN mode = "auto" ELSE mode # "off"

(* The steps of an operation: "allow" and "judge" read the settings,       *)
(* "ensure" creates the document under the lock, "open" and "fill" are the *)
(* two halves of write_text.                                               *)
ReadDoc  == <<"ensure", "read">>
WriteDoc == <<"ensure", "open", "fill">>

UpsertSteps    == <<"allow", "judge">> \o ReadDoc \o WriteDoc \o <<"audit">>
UpdateSteps    == <<"allow">> \o ReadDoc \o <<"judge">> \o WriteDoc \o <<"audit">>
SupersedeSteps == <<"allow">> \o ReadDoc \o <<"judge">> \o WriteDoc \o <<"audit">>
ArchiveSteps   == <<"allow">> \o ReadDoc \o WriteDoc \o <<"audit">>
DeleteSteps    == <<"allow">> \o ReadDoc \o WriteDoc \o <<"audit">>

(* The mutant's document is taken as it comes. *)
ReplaceUnjudged == ReadDoc \o <<"allow">> \o WriteDoc \o <<"audit">>

ReplaceSteps   == ReadDoc \o <<"allow", "judge">> \o WriteDoc \o <<"audit">>

(* The mutant tells the audit log first. *)
DailyAuditFirst == <<"allow", "judge", "audit", "append">>

DailySteps     == <<"allow", "judge", "append", "audit">>
SettingsSteps  == <<"settings", "openSettings", "fillSettings", "audit">>
SearchSteps    == ReadDoc \o <<"audit">>
WritebackSteps == <<"auto">> \o UpsertSteps
ShowSteps      == ReadDoc

Steps(do) == CASE do = "upsert"    -> UpsertSteps
               [] do = "update"    -> UpdateSteps
               [] do = "supersede" -> SupersedeSteps
               [] do = "archive"   -> ArchiveSteps
               [] do = "delete"    -> DeleteSteps
               [] do = "replace"   -> ReplaceSteps
               [] do = "daily"     -> DailySteps
               [] do = "settings"  -> SettingsSteps
               [] do = "search"    -> SearchSteps
               [] do = "writeback" -> WritebackSteps
               [] do = "show"      -> ShowSteps

Idle(a)     == op[a] = NoOp
At(a, step) == ~Idle(a) /\ Steps(op[a].do)[at[a]] = step
Writing(a)  == lock = a /\ At(a, "fill")

(* The actor goes on to its operation's next step, or is done. *)
Done(a) == /\ op' = [op EXCEPT ![a] = NoOp] /\ at' = [at EXCEPT ![a] = 1]
           /\ loaded' = [loaded EXCEPT ![a] = <<>>]

Advance(a) == IF at[a] = Len(Steps(op[a].do))
              THEN Done(a)
              ELSE at' = [at EXCEPT ![a] = @ + 1] /\ UNCHANGED <<op, loaded>>

-----------------------------------------------------------------------------
(* Operations begin. *)
Request(do) == [do |-> do, by |-> "manual", n |-> ops + 1, id |-> None,
                title |-> None, class |-> "unread"]

Start(a, o) == /\ Idle(a) /\ ops < MaxOps
               /\ ops <= MaxEarlier => \A b \in Actors : Idle(b)
               /\ op' = [op EXCEPT ![a] = o]
               /\ fresh' = [fresh EXCEPT ![a] = TRUE]
               /\ ops' = ops + 1
               /\ UNCHANGED <<surface, session, files, lock, at, loaded, trusted>>

Upsert(a)  == \E t \in Titles : Start(a, [Request("upsert") EXCEPT !.title = t])
Update(a)  == \E id \in Ids(doc), t \in Titles \cup {None} :
    Start(a, [Request("update") EXCEPT !.id = id, !.title = t])
Supersede(a) == \E id \in Ids(doc), t \in Titles \cup {None} :
    Start(a, [Request("supersede") EXCEPT !.id = id, !.title = t])
Archive(a) == \E id \in Ids(doc) : Start(a, [Request("archive") EXCEPT !.id = id])
Delete(a)  == \E id \in Ids(doc) : Start(a, [Request("delete") EXCEPT !.id = id])
Forget(a)  == \E t \in Titles : Start(a, [Request("delete") EXCEPT !.title = t])
Note(a)    == Start(a, Request("daily"))
Set(a)     == Start(a, Request("settings"))
Search(a)  == Start(a, Request("search"))
Show(a)    == Start(a, Request("show"))

(* The tools of a turn, and the end of a turn.  A turn that outlives the   *)
(* wait for it goes on after the session was deleted.                      *)
MemoryWrite  == Upsert(Agent) \/ Update(Agent) \/ Supersede(Agent) \/ Archive(Agent)
                  \/ Delete(Agent) \/ Forget(Agent) \/ Note(Agent)
MemorySearch == Search(Agent)
MemoryRead   == Show(Agent)
Writeback    == \E t \in Titles :
    Start(Agent, [Request("writeback") EXCEPT !.by = "auto", !.title = t])

(* The terminal's /memory, between turns and on the same thread. *)
Command == /\ surface = "terminal"
           /\ \/ Upsert(Agent) \/ Note(Agent) \/ Forget(Agent) \/ Set(Agent)
              \/ Search(Agent) \/ Show(Agent)

(* The service's routes; those that change something want an active session. *)
Served(a) == surface = "service" /\ a \in Clients
Active(a) == Served(a) /\ session = "active"

CreateEntry(a)   == Active(a) /\ Upsert(a)
PatchEntry(a)    == Active(a) /\ (Update(a) \/ Archive(a) \/ Supersede(a))
DeleteEntry(a)   == Active(a) /\ Delete(a)
PatchSettings(a) == Active(a) /\ Set(a)
PostDaily(a)     == Active(a) /\ Note(a)
GetMemory(a)     == Served(a) /\ Show(a)
SearchMemory(a)  == Served(a) /\ Search(a)

(* A client reads the document, edits it and puts it back. *)
PutDocument(a) == /\ Active(a)
                  /\ \/ \E id \in Ids(doc) : Start(a, [Request("replace") EXCEPT !.id = id])
                     \/ \E t \in Titles :
                          Start(a, [Request("replace") EXCEPT !.title = t])

-----------------------------------------------------------------------------
(* The steps.  An exception ends the operation. *)
Others == <<surface, session, ops>>

Fails(a) == Done(a) /\ UNCHANGED <<files, lock, history>>

Allow(a) == /\ At(a, "allow")
            /\ IF settings # Torn /\ Allows(op[a].by, settings.mode)
               THEN Advance(a) /\ UNCHANGED <<files, lock, history>>
               ELSE Fails(a)
            /\ UNCHANGED Others

(* A policy looks at the text.  A refusal is audited; those lines of the   *)
(* audit log are left out here.  writeback_from_turn judges its candidates *)
(* before it upserts them, which judges them again.                        *)
Texts(a) == IF op[a].class = "unread" THEN Classes ELSE {op[a].class}

Judge(a) == /\ At(a, "judge") \/ At(a, "auto")
            /\ \/ /\ settings # Torn
                  /\ \E class \in Texts(a) : /\ Accepts(op[a].by, class, settings.mode)
                                            /\ op' = [op EXCEPT ![a].class = class]
                  /\ at' = [at EXCEPT ![a] = @ + 1]
                  /\ UNCHANGED <<loaded, files, lock, history>>
               \/ /\ \/ settings = Torn
                     \/ \E class \in Texts(a) : ~Accepts(op[a].by, class, settings.mode)
                  /\ Fails(a)
            /\ UNCHANGED Others

Ensure(a) == /\ At(a, "ensure") /\ lock = None
             /\ present' = TRUE
             /\ Advance(a)
             /\ UNCHANGED <<doc, settings, daily, audit, lock, history, Others>>

(* The read takes no lock: it may find a file just truncated. *)
Read(a) == /\ At(a, "read")
           /\ IF ~present \/ Unknown(doc, op[a]) \/ at[a] = Len(Steps(op[a].do))
              THEN Fails(a)
              ELSE /\ loaded' = [loaded EXCEPT ![a] = doc]
                   /\ at' = [at EXCEPT ![a] = @ + 1]
                   /\ fresh' = [fresh EXCEPT ![a] = \A b \in Actors : ~Writing(b)]
                   /\ UNCHANGED <<op, files, lock, trusted>>
           /\ UNCHANGED Others

(* What the other operations on that file have read is no longer so. *)
OnSettings(a) == op[a].do = "settings"

Overtaken(a) == /\ fresh' = [b \in Actors |-> fresh[b] /\ (b = a \/ Idle(b) \/ OnSettings(b) # OnSettings(a))]
                /\ trusted' = (trusted /\ fresh[a])

Open(a) == /\ At(a, "open") /\ lock = None
           /\ IF present
              THEN /\ lock' = a /\ doc' = <<>> /\ Advance(a) /\ Overtaken(a)
                   /\ UNCHANGED <<present, settings, daily, audit>>
              ELSE Fails(a)
           /\ UNCHANGED Others

Fill(a) == /\ At(a, "fill") /\ lock = a
           /\ doc' = Changed(loaded[a], op[a])
           /\ lock' = None /\ Advance(a)
           /\ UNCHANGED <<present, settings, daily, audit, history, Others>>

(* The daily log is created, with its heading, and appended to in one go. *)
AppendDaily(a) == /\ At(a, "append") /\ lock = None
                  /\ daily' = Append(daily, [n |-> op[a].n, class |-> op[a].class])
                  /\ Advance(a)
                  /\ UNCHANGED <<present, doc, settings, audit, lock, history, Others>>

(* The audit log's lines about notes are kept here. *)
Audit(a) == /\ At(a, "audit") /\ lock = None
            /\ audit' = IF op[a].do = "daily" THEN audit \cup {op[a].n} ELSE audit
            /\ Done(a)
            /\ UNCHANGED <<present, doc, settings, daily, lock, history, Others>>

(* update_settings: one field is given, the others are as they were read. *)
ReadSettings(a) == /\ At(a, "settings")
                   /\ IF settings = Torn
                      THEN Fails(a)
                      ELSE /\ loaded' = [loaded EXCEPT ![a] = <<settings>>]
                           /\ at' = [at EXCEPT ![a] = @ + 1]
                           /\ fresh' = [fresh EXCEPT ![a] = TRUE]
                           /\ UNCHANGED <<op, files, lock, trusted>>
                   /\ UNCHANGED Others

OpenSettings(a) == /\ At(a, "openSettings") /\ lock = None
                   /\ lock' = a /\ settings' = Torn /\ Advance(a) /\ Overtaken(a)
                   /\ UNCHANGED <<present, doc, daily, audit, Others>>

FillSettings(a) == /\ At(a, "fillSettings") /\ lock = a
                   /\ \/ \E mode \in Modes : settings' = [loaded[a][1] EXCEPT !.mode = mode]
                      \/ \E policy \in Policies :
                           settings' = [loaded[a][1] EXCEPT !.policy = policy]
                   /\ lock' = None /\ Advance(a)
                   /\ UNCHANGED <<present, doc, daily, audit, history, Others>>

-----------------------------------------------------------------------------
(* The session is deleted: first in the database, then, once its runtime   *)
(* was told to stop, its directory.                                        *)
CloseSession == /\ surface = "service" /\ session = "active"
                /\ session' = "closed"
                /\ UNCHANGED <<surface, files, lock, local, ops, history>>

DeleteSessionMemory ==
    /\ session = "closed" /\ lock = None
    /\ session' = "deleted"
    /\ present' = FALSE /\ doc' = <<>> /\ daily' = <<>> /\ audit' = {}
    /\ settings' = [mode |-> "manual_only", policy |-> "search_all_ranked"]
    /\ fresh' = [a \in Actors |-> Idle(a)]
    /\ UNCHANGED <<surface, lock, local, ops, trusted>>

(* The process is killed in the middle of something: a truncated file      *)
(* stays truncated.                                                        *)
Crash == /\ \E a \in Actors : ~Idle(a)
         /\ op' = [a \in Actors |-> NoOp] /\ at' = [a \in Actors |-> 1]
         /\ loaded' = [a \in Actors |-> <<>>]
         /\ lock' = None
         /\ fresh' = [a \in Actors |-> TRUE] /\ trusted' = (trusted /\ lock = None)
         /\ UNCHANGED <<surface, session, files, ops>>

Route(a) == \/ CreateEntry(a) \/ PatchEntry(a) \/ DeleteEntry(a) \/ PatchSettings(a)
               \/ PostDaily(a) \/ GetMemory(a) \/ SearchMemory(a) \/ PutDocument(a)

Step(a) == \/ Allow(a) \/ Judge(a) \/ Ensure(a) \/ Read(a) \/ Open(a)
           \/ Fill(a) \/ AppendDaily(a) \/ Audit(a) \/ ReadSettings(a)
           \/ OpenSettings(a) \/ FillSettings(a)

Next == \/ MemoryWrite \/ MemorySearch \/ MemoryRead \/ Writeback \/ Command
        \/ \E a \in Clients : Route(a)
        \/ \E a \in Actors : Step(a)
        \/ CloseSession \/ DeleteSessionMemory \/ Crash

Spec == Init /\ [][Next]_vars

-----------------------------------------------------------------------------
(* The values of the variables. *)
EntryType == [id : 1..MaxOps \cup Titles, title : Titles, text : 1..MaxOps,
              class : Classes, by : {"manual", "auto"},
              status : {"active", "archived", "superseded"},
              supersedes : 0..MaxOps \cup Titles]

TypeOK == /\ surface \in {"terminal", "service"}
          /\ session \in {"active", "closed", "deleted"}
          /\ present \in BOOLEAN /\ \A i \in DOMAIN doc : doc[i] \in EntryType
          /\ settings \in Settings \cup {Torn}
          /\ lock \in Actors \cup {None}
          /\ \A a \in Actors : Idle(a) \/ at[a] \in DOMAIN Steps(op[a].do)
          /\ ops \in 0..MaxOps

(* Whichever way a text came in, from a tool, a route, a command, an       *)
(* edited document or the end of a turn, a write policy has read it: the   *)
(* files hold nothing unread, nothing unsafe, and nothing weak that the    *)
(* agent saved unasked.                                                    *)
Policed(text) == text.class \notin {"unread", "unsafe"}

PolicyHolds == /\ TypeOK
               /\ \A i \in DOMAIN doc : /\ Policed(doc[i])
                                        /\ doc[i].by = "auto" => doc[i].class = "plain"
               /\ \A i \in DOMAIN daily : Policed(daily[i])

(* The daily log has every note the audit log tells of, once, whatever     *)
(* overlaps and whenever the process is killed.                            *)
DailyLogComplete ==
    session # "deleted" =>
      /\ \A n \in audit : \E i \in DOMAIN daily : daily[i].n = n
      /\ \A i, j \in DOMAIN daily : daily[i].n = daily[j].n => i = j

(* As long as no operation wrote over what another one had changed since   *)
(* it read, the workspace is the abstract memory: each operation takes     *)
(* effect at once, between its open and its fill nothing is lost, and an   *)
(* operation that fails changes nothing.                                   *)
EntriesNow  == ToSet(IF lock # None /\ At(lock, "fill") THEN loaded[lock] ELSE doc)
SettingsNow == IF lock # None /\ At(lock, "fillSettings") THEN loaded[lock][1] ELSE settings

Curated == INSTANCE CuratedMemory WITH entries <- EntriesNow, settings <- SettingsNow

CuratedSpec == Curated!MSpec

(* docs/memory.md: supersedes is the id of the entry that this one         *)
(* replaced, and retrieval takes the active entries.                       *)
ReplacedIsRetired ==
    \A i, j \in DOMAIN doc :
      doc[j].supersedes = doc[i].id => doc[i].status # "active"
================================================================================
