--------------------------- MODULE ExtensionStore ---------------------------
(***************************************************************************)
(* Installing one extension from a catalog (src/extensions.py) into the     *)
(* user's extension root, which every process of the user shares and no     *)
(* lock protects.  The bundle is copied to a staging directory beside its   *)
(* target, the old target is removed file by file, and the staging          *)
(* directory is renamed over it.                                           *)
(*                                                                         *)
(* Two directories of the root matter: "target" (<root>/<name>) and         *)
(* "staged" (<root>/.<name>.staged).  A bundle has two parts: its manifest, *)
(* and the rest (its command and its skills); a part is the release it came *)
(* from, 0 when it is not there.  Any process may be cut between two steps: *)
(* killed, or stopped by an exception of a failing write.                   *)
(***************************************************************************)
EXTENDS Naturals, FiniteSets

CONSTANTS Installers,    \* who installs: a session of the command line, the
                         \* server's admin route, other processes
          MaxRelease     \* the catalog's releases of the package

ASSUME StoreAssumption == MaxRelease \in Nat \ {0}

VARIABLES release,   \* what the catalog offers now
          dirs,      \* the two directories on disk
          inst,      \* the installers
          torn       \* history: since the last install that ran alone, one
                     \* was cut while removing the target, or two crossed

storeVars == <<release, dirs, inst, torn>>

Dirs     == {"staged", "target"}
Parts    == {"manifest", "rest"}
Releases == 0..MaxRelease
Empty    == [p \in Parts |-> 0]
Bundle(v) == [p \in Parts |-> v]
NoDir    == [there |-> FALSE, file |-> Empty]
Has(d, p) == dirs[d].file[p] # 0
Left(d)  == {p \in Parts : Has(d, p)}

\* One discovered extension (ExtensionSpec): where, and the release its
\* manifest told. None: no extension of that name.
None == [dir |-> "none", ver |-> 0]
Found(d) == [dir |-> d, ver |-> dirs[d].file["manifest"]]

\* Mutant: the first manifest of a name wins.
DiscoveredFirst(listed) ==
  LET readable == {d \in listed : Has(d, "manifest")}
  IN IF "staged" \in readable THEN Found("staged")
     ELSE IF "target" \in readable THEN Found("target") ELSE None

\* discover, over the manifests it listed: rglob sorts the dot directory
\* first, and a later manifest of the same name overrides an earlier one. A
\* manifest that is gone by the time it is read is skipped with a warning.
Discovered(listed) ==
  LET readable == {d \in listed : Has(d, "manifest")}
  IN IF "target" \in readable THEN Found("target")
     ELSE IF "staged" \in readable THEN Found("staged") ELSE None

\* pc: what the installer does next. want: the release it installs. todo: the
\* parts still to copy or to remove. bad: a copy went wrong. cache: the
\* catalog as its manager remembers it ("read" once asked; release 0 when the
\* catalog could not be read or lists no such package). end: how its last
\* install ended. crossed: another installer wrote while it did. left: the
\* installs it may still begin (a bound).
InstType == [pc: {"idle", "fetch", "stage", "unstage", "make", "copy",
                  "check", "clear", "replace", "discover"},
             want: Releases, todo: SUBSET Parts, bad: BOOLEAN,
             read: BOOLEAN, cache: Releases,
             end: {"none", "ok", "refused", "failed", "cut"},
             crossed: BOOLEAN, left: Nat]

Writing == {"stage", "unstage", "make", "copy", "check", "clear", "replace"}

StoreTypeOK ==
  /\ release \in 1..MaxRelease
  /\ dirs \in [Dirs -> [there: BOOLEAN, file: [Parts -> Releases]]]
  /\ inst \in [Installers -> InstType]
  /\ torn \in BOOLEAN

\* installs[i]: how many installs i may begin.
StoreInit(installs) ==
  /\ release = 1
  /\ dirs = [d \in Dirs |-> NoDir]
  /\ inst = [i \in Installers |->
               [pc |-> "idle", want |-> 0, todo |-> {}, bad |-> FALSE,
                read |-> FALSE, cache |-> 0, end |-> "none",
                crossed |-> FALSE, left |-> installs[i]]]
  /\ torn = FALSE

\* The curator publishes the next release.
Publish ==
  /\ release < MaxRelease
  /\ release' = release + 1
  /\ UNCHANGED <<dirs, inst, torn>>

End(i, how) == inst' = [inst EXCEPT ![i].pc = "idle", ![i].end = how,
                                    ![i].todo = {}, ![i].bad = FALSE]
Go(i, pc)   == inst' = [inst EXCEPT ![i].pc = pc]

\* list_catalog_packages, as its manager remembers it from now on: the first
\* answer is kept, a failure (0) as well as a list.
Listed(i, now) ==
  [inst[i] EXCEPT !.read = TRUE,
                  !.cache = IF inst[i].read THEN inst[i].cache ELSE now]

\* install_from_catalog begins: the package is looked up in the catalog.
Begin(i) ==
  /\ inst[i].pc = "idle" /\ inst[i].left > 0
  /\ \E now \in {0, release} :
       LET l == Listed(i, now)
           c == [l EXCEPT !.left = @ - 1, !.crossed = FALSE, !.end = "none"]
       IN inst' = [inst EXCEPT ![i] =
                     IF l.cache = 0 THEN [c EXCEPT !.end = "refused"]
                     ELSE [c EXCEPT !.pc = "fetch", !.want = l.cache]]
  /\ UNCHANGED <<release, dirs, torn>>

\* _download_archive, _verify_archive_hash, _extract_archive and the checks of
\* the extracted bundle, all in a temporary directory. The archive may be
\* unreachable, replaced by a later release's, or not what it should be.
Fetch(i) ==
  /\ inst[i].pc = "fetch"
  /\ \E got \in {0, inst[i].want, release} :
       IF got # inst[i].want THEN End(i, "refused") ELSE Go(i, "stage")
  /\ UNCHANGED <<release, dirs, torn>>

\* Whoever writes while another does has crossed it, and so has the other,
\* which may also be about to look for what it installed.
Crossing(i, next) ==
  LET others == {j \in Installers \ {i} : inst[j].pc \in Writing}
      late   == {j \in Installers \ {i} : inst[j].pc = "discover"}
  IN /\ inst' = [j \in Installers |->
          IF j = i THEN [next EXCEPT !.crossed = @ \/ others # {}]
          ELSE [inst[j] EXCEPT !.crossed = @ \/ j \in others \cup late]]
     /\ torn' = (torn \/ others # {})

\* Mutant: what an install that was cut left behind is not removed.
StageBlind(i) ==
  /\ inst[i].pc = "stage"
  /\ Crossing(i, [inst[i] EXCEPT !.pc = "make"])
  /\ UNCHANGED <<release, dirs>>

\* staged_path.exists(), and the listing rmtree starts from.
Stage(i) ==
  /\ inst[i].pc = "stage"
  /\ Crossing(i, IF dirs["staged"].there
                 THEN [inst[i] EXCEPT !.pc = "unstage", !.todo = Left("staged")]
                 ELSE [inst[i] EXCEPT !.pc = "make"])
  /\ UNCHANGED <<release, dirs>>

\* rmtree(staged, ignore_errors=True): one file, then the directory, which
\* stays when it is not empty.
Unstage(i) ==
  /\ inst[i].pc = "unstage"
  /\ \/ \E p \in inst[i].todo :
          /\ dirs' = [dirs EXCEPT !["staged"].file[p] = 0]
          /\ inst' = [inst EXCEPT ![i].todo = @ \ {p}]
     \/ /\ inst[i].todo = {}
        /\ dirs' = IF Left("staged") = {}
                   THEN [dirs EXCEPT !["staged"] = NoDir] ELSE dirs
        /\ Go(i, "make")
  /\ UNCHANGED <<release, torn>>

\* copytree creates the staging directory, which must not exist ...
Make(i) ==
  /\ inst[i].pc = "make"
  /\ IF dirs["staged"].there
     THEN End(i, "failed") /\ UNCHANGED dirs
     ELSE /\ dirs' = [dirs EXCEPT !["staged"].there = TRUE]
          /\ inst' = [inst EXCEPT ![i].pc = "copy", ![i].todo = Parts]
  /\ UNCHANGED <<release, torn>>

\* ... and copies the files in any order; it goes on after a file it could not
\* write and raises at the end.
Copy(i) ==
  /\ inst[i].pc = "copy"
  /\ \/ \E p \in inst[i].todo :
          /\ dirs' = IF dirs["staged"].there
                     THEN [dirs EXCEPT !["staged"].file[p] = inst[i].want]
                     ELSE dirs
          /\ inst' = [inst EXCEPT ![i].todo = @ \ {p},
                                  ![i].bad = @ \/ ~dirs["staged"].there]
     \/ /\ inst[i].todo = {}
        /\ IF inst[i].bad \/ ~dirs["staged"].there THEN End(i, "failed")
                                                   ELSE Go(i, "check")
        /\ UNCHANGED dirs
  /\ UNCHANGED <<release, torn>>

\* target_path.exists(), and the listing rmtree starts from.
Check(i) ==
  /\ inst[i].pc = "check"
  /\ inst' = [inst EXCEPT
       ![i].pc = IF dirs["target"].there THEN "clear" ELSE "replace",
       ![i].todo = Left("target")]
  /\ UNCHANGED <<release, dirs, torn>>

\* rmtree(target): one file, then the directory. A file that is gone already,
\* or a directory that has filled up again, ends the install.
Clear(i) ==
  /\ inst[i].pc = "clear"
  /\ \/ \E p \in inst[i].todo :
          IF Has("target", p)
          THEN /\ dirs' = [dirs EXCEPT !["target"].file[p] = 0]
               /\ inst' = [inst EXCEPT ![i].todo = @ \ {p}]
          ELSE End(i, "failed") /\ UNCHANGED dirs
     \/ /\ inst[i].todo = {}
        /\ IF dirs["target"].there /\ Left("target") = {}
           THEN dirs' = [dirs EXCEPT !["target"] = NoDir] /\ Go(i, "replace")
           ELSE End(i, "failed") /\ UNCHANGED dirs
  /\ UNCHANGED <<release, torn>>

\* os.replace(staged, target). An install nobody crossed leaves a whole
\* bundle, whatever was there before.
Replace(i) ==
  /\ inst[i].pc = "replace"
  /\ IF ~dirs["staged"].there \/ Left("target") # {}
     THEN End(i, "failed") /\ UNCHANGED <<dirs, torn>>
     ELSE /\ dirs' = [dirs EXCEPT !["target"] = dirs["staged"],
                                  !["staged"] = NoDir]
          /\ Go(i, "discover")
          /\ torn' = inst[i].crossed
  /\ UNCHANGED release

\* discover, and the extension must be found.
Discover(i) ==
  /\ inst[i].pc = "discover"
  /\ End(i, IF Discovered(Dirs) = None THEN "failed" ELSE "ok")
  /\ UNCHANGED <<release, dirs, torn>>

\* A write fails, or the process is killed; in the second case the next one
\* of that user has a manager that has not read the catalog.
Cut(i) ==
  /\ inst[i].pc \in Writing \cup {"discover"}
  /\ \E keeps \in BOOLEAN :
       inst' = [inst EXCEPT ![i].pc = "idle", ![i].end = "cut",
                            ![i].todo = {}, ![i].bad = FALSE,
                            ![i].read = keeps, ![i].cache = IF keeps THEN @ ELSE 0]
  /\ torn' = (torn \/ inst[i].pc = "clear")
  /\ UNCHANGED <<release, dirs>>

InstallStep(i) ==
  \/ Begin(i) \/ Fetch(i) \/ Stage(i) \/ Unstage(i) \/ Make(i) \/ Copy(i)
  \/ Check(i) \/ Clear(i) \/ Replace(i) \/ Discover(i) \/ Cut(i)

-----------------------------------------------------------------------------
(* What an install guarantees.                                             *)

\* An install that has downloaded a good archive and that no other install
\* crosses ends well, whatever an earlier one that was cut left on disk.
InstallRecovers ==
  \A i \in Installers : inst[i].end = "failed" => inst[i].crossed

\* The target is absent or one whole release at every moment, except while an
\* install removes the old one, or after one was cut or crossed while doing so.
TargetIsWhole ==
  \/ torn
  \/ \E i \in Installers : inst[i].pc = "clear"
  \/ \E v \in Releases : dirs["target"].file = Bundle(v)
                           /\ (v = 0 <=> ~dirs["target"].there)

\* The two together: installing recovers from any cut, and what lies under
\* the extension's own name is one release, whole.
InstallsAreWhole == InstallRecovers /\ TargetIsWhole
=============================================================================
