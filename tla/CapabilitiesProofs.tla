------------------------- MODULE CapabilitiesProofs -------------------------
(***************************************************************************)
(* Proofs about Capabilities and the extension store it uses, for any      *)
(* installers, refreshers, releases, requests and bounds: an install       *)
(* recovers from any cut, a need is recorded once, and a refresh that runs *)
(* alone leaves the session with what is on disk.                          *)
(***************************************************************************)
EXTENDS Capabilities, TLAPS, SequenceTheorems

-----------------------------------------------------------------------------
(* The inductive invariant                                                 *)

(* An installer that works on the two directories.                         *)
Past == Writing \ {"stage"}

(* A directory that is not there has no files.                             *)
DiskOK == \A d \in Dirs : ~dirs[d].there => dirs[d].file = Empty

(* Two that work on the directories have crossed each other, and one that  *)
(* has yet to look for what it installed was crossed too; until whoever    *)
(* crossed has ended, the target is not trusted.                           *)
CrossedOK ==
  /\ \A i, j \in Installers : i # j /\ inst[j].pc \in Past =>
       (inst[i].pc \in Past \cup {"discover"} => inst[i].crossed)
  /\ \A i \in Installers : inst[i].crossed /\ inst[i].pc \in Writing =>
       torn /\ \A j \in Installers : inst[j].pc \in Past => inst[j].crossed

(* What an install that nobody crossed knows of the disk at each step.     *)
Expected(i) ==
  LET me == inst[i] IN
  /\ me.pc = "unstage" => Left("staged") \subseteq me.todo
  /\ me.pc = "make" => ~dirs["staged"].there
  /\ me.pc = "copy" => /\ dirs["staged"].there
                       /\ \A p \in Parts \ me.todo : dirs["staged"].file[p] = me.want
  /\ me.pc \in {"check", "clear", "replace"} =>
       dirs["staged"] = [there |-> TRUE, file |-> Bundle(me.want)]
  /\ me.pc = "clear" => dirs["target"].there /\ Left("target") = me.todo
  /\ me.pc = "replace" => Left("target") = {}
  /\ me.pc = "discover" => dirs["target"].file = Bundle(me.want)

ProgressOK ==
  \A i \in Installers :
    /\ inst[i].pc # "idle" => inst[i].want # 0
    /\ inst[i].pc = "fetch" => ~inst[i].crossed
    /\ inst[i].bad => inst[i].pc = "copy" /\ inst[i].crossed
    /\ ~inst[i].crossed => Expected(i)

StoreOK == StoreTypeOK /\ DiskOK /\ CrossedOK /\ ProgressOK /\ InstallsAreWhole

(* Requests are records, and one need has one pending request.             *)
AskType == [type : STRING, desired : STRING, package : STRING,
            extension : STRING, skill : STRING, tool : STRING]
Request == [ask : AskType, status : Statuses, settled : BOOLEAN]
RequestsOK == requests \in Seq(Request) /\ OneRequestPerNeed

(* What a discovery with the configuration ext finds on disk now, and the  *)
(* root of the skills that come with it.                                   *)
Fresh(ext) == IF ext THEN Discovered(Dirs) ELSE None
RootOf(s) == IF s = None THEN "none" ELSE IF Has(s.dir, "rest") THEN s.dir ELSE "none"

(* As long as the disk does not change, a refresh has read what is there.  *)
BundleOK(r) ==
  LET b == refr[r].bundle IN
  /\ refr[r].pc \in {"skills", "swap", "store"} => b.known = b.tools
  /\ ~b.touched =>
       /\ refr[r].pc = "read" =>
            refr[r].seen = IF b.ext THEN {d \in Dirs : Has(d, "manifest")} ELSE {}
       /\ refr[r].pc \in {"skills", "swap", "store"} =>
            b.known = Fresh(b.ext) /\ b.root = RootOf(b.known)
       /\ refr[r].pc \in {"swap", "store"} => b.skill = SkillAt(b.root, b.flag)

(* A refresh that runs alone is the only one, and its runtime is the one   *)
(* it swapped in; the terminal does not refresh while it installs.         *)
RefreshOK ==
  /\ \A r \in Refreshers : BundleOK(r)
  /\ \A r, s \in Refreshers :
       r # s /\ refr[r].pc # "idle" /\ refr[r].alone => refr[s].pc = "idle"
  /\ \A r \in Refreshers : refr[r].pc # "idle" /\ ~mixed => refr[r].alone
  /\ \A r \in Refreshers : refr[r].pc = "store" /\ refr[r].alone =>
       live = [refr[r].bundle EXCEPT !.known = live.known]
  /\ host = "terminal" /\ inst[Own].pc # "idle" => Quiet
  /\ host = "terminal" /\ inst[Own].pc = "discover" => live.touched

(* What runtime b knows is what is on disk.                                *)
Current(b) == /\ b.known = Fresh(b.ext) /\ b.tools = b.known
              /\ b.root = RootOf(b.known) /\ b.skill = SkillAt(b.root, b.flag)

(* No request that a refresh left open is satisfied.                       *)
Answered == \A k \in DOMAIN requests :
              Pending(k) /\ requests[k].settled => ~Satisfied(requests[k].ask, live)

(* What a refresh that ran alone leaves holds until the next one.          *)
LiveOK ==
  Quiet /\ ~mixed =>
    /\ host = "server" => live.known = live.tools
    /\ ~live.touched => Current(live)
    /\ Answered

PinOK == pinned => live.skill = "eligible"

Inv == TypeOK /\ StoreOK /\ RequestsOK /\ RefreshOK /\ LiveOK /\ PinOK

-----------------------------------------------------------------------------
(* The disk                                                                *)

(* The types of the store, unfolded. *)
LEMMA StoreTypes ==
    ASSUME StoreTypeOK
    PROVE  /\ MaxRelease \in Nat \ {0} /\ release \in 1..MaxRelease
           /\ \A d \in Dirs : /\ dirs[d] \in [there: BOOLEAN, file: [Parts -> Releases]]
                              /\ dirs[d].there \in BOOLEAN
                              /\ dirs[d].file \in [Parts -> Releases]
                              /\ \A p \in Parts : dirs[d].file[p] \in Releases
           /\ dirs \in [Dirs -> [there: BOOLEAN, file: [Parts -> Releases]]]
           /\ inst \in [Installers -> InstType] /\ torn \in BOOLEAN
           /\ \A i \in Installers : /\ inst[i] \in InstType /\ inst[i].todo \subseteq Parts
                                    /\ inst[i].want \in Releases /\ inst[i].cache \in Releases
                                    /\ inst[i].left \in Nat
BY StoreAssumption DEF StoreTypeOK, InstType

(* Writing or removing one file of a directory. *)
LEMMA FileWritten ==
    ASSUME StoreTypeOK, NEW d \in Dirs, NEW p \in Parts, NEW v \in Releases,
           dirs' = [dirs EXCEPT ![d].file[p] = v]
    PROVE  /\ dirs' \in [Dirs -> [there: BOOLEAN, file: [Parts -> Releases]]]
           /\ dirs'[d].there = dirs[d].there
           /\ \A q \in Parts : dirs'[d].file[q] = IF q = p THEN v ELSE dirs[d].file[q]
           /\ \A e \in Dirs : e # d => dirs'[e] = dirs[e]
<1>1. dirs \in [Dirs -> [there: BOOLEAN, file: [Parts -> Releases]]]
  BY DEF StoreTypeOK
<1>2. dirs' = [dirs EXCEPT ![d] = [dirs[d] EXCEPT !.file = [dirs[d].file EXCEPT ![p] = v]]]
  OBVIOUS
<1> DEFINE f == [dirs[d].file EXCEPT ![p] = v]
<1>3. f \in [Parts -> Releases] /\ \A q \in Parts : f[q] = IF q = p THEN v ELSE dirs[d].file[q]
  BY <1>1
<1> HIDE DEF f
<1>4. [dirs[d] EXCEPT !.file = f] \in [there: BOOLEAN, file: [Parts -> Releases]]
  BY <1>1, <1>3
<1> QED
  BY <1>1, <1>2, <1>3, <1>4 DEF f

(* A file that is not there is not written: the directory it was in.       *)
LEMMA FileGone ==
    ASSUME StoreTypeOK, DiskOK, NEW d \in Dirs, NEW p \in Parts,
           dirs' = [dirs EXCEPT ![d].file[p] = 0]
    PROVE  /\ DiskOK' /\ Left(d)' = Left(d) \ {p}
           /\ dirs' \in [Dirs -> [there: BOOLEAN, file: [Parts -> Releases]]]
           /\ dirs'[d].there = dirs[d].there
           /\ \A e \in Dirs : e # d => dirs'[e] = dirs[e]
<1>1. 0 \in Releases
  BY StoreAssumption DEF Releases
<1>2. /\ dirs' \in [Dirs -> [there: BOOLEAN, file: [Parts -> Releases]]]
      /\ dirs'[d].there = dirs[d].there
      /\ \A q \in Parts : dirs'[d].file[q] = IF q = p THEN 0 ELSE dirs[d].file[q]
      /\ \A e \in Dirs : e # d => dirs'[e] = dirs[e]
  BY <1>1, FileWritten
<1>3. Left(d)' = Left(d) \ {p}
  BY <1>2 DEF Left, Has
<1>4. ASSUME ~dirs'[d].there PROVE dirs'[d].file = Empty
  <2>1. \A q \in Parts : dirs[d].file[q] = 0
    BY <1>2, <1>4 DEF DiskOK, Empty
  <2>2. dirs'[d].file \in [Parts -> Releases]
    BY <1>2
  <2> QED
    BY <1>2, <2>1, <2>2 DEF Empty
<1> QED
  BY <1>2, <1>3, <1>4 DEF DiskOK

(* No file is left in a directory that is not there. *)
LEMMA NothingLeft ==
    ASSUME DiskOK, NEW d \in Dirs, ~dirs[d].there
    PROVE  Left(d) = {}
BY DEF DiskOK, Left, Has, Empty

(* A directory without files. *)
LEMMA LeftNothing ==
    ASSUME StoreTypeOK, NEW d \in Dirs, Left(d) = {}
    PROVE  dirs[d].file = Empty
<1>1. dirs[d].file \in [Parts -> Releases] /\ \A p \in Parts : dirs[d].file[p] = 0
  BY StoreTypes DEF Left, Has
<1> QED
  BY <1>1 DEF Empty

-----------------------------------------------------------------------------
(* Steps of an installer                                                   *)

(* What every step of i but Stage does to who has crossed whom.            *)
Stepped(i) ==
  /\ \A j \in Installers : j # i => inst'[j] = inst[j]
  /\ inst[i].pc # "idle" => inst'[i].crossed = inst[i].crossed
  /\ inst'[i].pc \in Past => inst[i].pc \in Past
  /\ inst'[i].pc = "stage" => inst[i].pc = "fetch"
  /\ inst'[i].pc = "discover" => inst[i].pc \in Past
  /\ torn => torn' \/ (inst[i].pc \in Past /\ ~inst[i].crossed /\ inst'[i].pc = "discover")
  /\ dirs' = dirs \/ inst[i].pc \in Past

(* Then those who crossed are still known. *)
LEMMA CrossedKept ==
    ASSUME StoreOK, NEW i \in Installers, Stepped(i)
    PROVE  CrossedOK'
<1> USE DEF StoreOK, Stepped
<1>1. ASSUME NEW j \in Installers, NEW k \in Installers, j # k, inst'[k].pc \in Past,
             inst'[j].pc \in Past \cup {"discover"}
      PROVE  inst'[j].crossed
  <2>1. inst[k].pc \in Past
    BY <1>1
  <2>2. inst[j].pc \in Past \cup {"discover"} /\ inst'[j].crossed = inst[j].crossed
    BY <1>1 DEF Past, Writing
  <2> QED
    BY <1>1, <2>1, <2>2 DEF CrossedOK
<1>2. ASSUME NEW j \in Installers, inst'[j].crossed, inst'[j].pc \in Writing
      PROVE  torn' /\ \A k \in Installers : inst'[k].pc \in Past => inst'[k].crossed
  <2>1. inst'[j].pc \in Past \cup {"stage"}
    BY <1>2 DEF Past
  <2>2. inst[j].crossed /\ inst[j].pc \in Writing
    <3>1. CASE j = i
      BY <1>2, <2>1, <3>1 DEF Past, Writing, ProgressOK
    <3> QED
      BY <1>2, <3>1
  <2>3. torn /\ \A k \in Installers : inst[k].pc \in Past => inst[k].crossed
    BY <2>2 DEF CrossedOK
  <2>4. torn'
    BY <2>3
  <2>5. ASSUME NEW k \in Installers, inst'[k].pc \in Past PROVE inst'[k].crossed
    <3>1. inst[k].pc \in Past /\ inst'[k].crossed = inst[k].crossed
      BY <2>5 DEF Past, Writing
    <3> QED
      BY <2>3, <3>1
  <2> QED
    BY <2>4, <2>5
<1> QED
  BY <1>1, <1>2 DEF CrossedOK

(* What the others, if nobody crossed them, know of the disk stays true.   *)
LEMMA OthersExpect ==
    ASSUME StoreOK, NEW i \in Installers, Stepped(i), NEW j \in Installers, j # i,
           ~inst[j].crossed
    PROVE  Expected(j)'
<1> USE DEF StoreOK, Stepped
<1>1. CASE dirs' = dirs
  BY <1>1 DEF ProgressOK, Expected, Left, Has
<1>2. CASE inst[i].pc \in Past
  <2>1. inst[j].pc \notin Past \cup {"discover"}
    BY <1>2 DEF CrossedOK
  <2> QED
    BY <2>1 DEF Expected, Past, Writing
<1> QED
  BY <1>1, <1>2

(* Hence what remains to be shown of such a step is about i and the disk.  *)
LEMMA Advance ==
    ASSUME StoreOK, NEW i \in Installers, Stepped(i), StoreTypeOK', DiskOK',
           inst'[i].pc # "idle" => inst'[i].want # 0,
           inst'[i].pc = "fetch" => ~inst'[i].crossed,
           inst'[i].bad => inst'[i].pc = "copy" /\ inst'[i].crossed,
           ~inst'[i].crossed => Expected(i)',
           inst'[i].end = "failed" => inst'[i].crossed,
           TargetIsWhole'
    PROVE  StoreOK'
<1>1. CrossedOK'
  BY CrossedKept
<1>2. \A j \in Installers : j # i => inst'[j] = inst[j]
  BY DEF Stepped
<1>3. ProgressOK'
  <2>1. ASSUME NEW j \in Installers
        PROVE  /\ inst'[j].pc # "idle" => inst'[j].want # 0
               /\ inst'[j].pc = "fetch" => ~inst'[j].crossed
               /\ inst'[j].bad => inst'[j].pc = "copy" /\ inst'[j].crossed
               /\ ~inst'[j].crossed => Expected(j)'
    BY <1>2, <2>1, OthersExpect DEF StoreOK, ProgressOK
  <2> QED
    BY <2>1 DEF ProgressOK
<1>4. InstallsAreWhole'
  BY <1>2 DEF StoreOK, InstallsAreWhole, InstallRecovers
<1> QED
  BY <1>1, <1>3, <1>4 DEF StoreOK

(* A step that leaves the target alone, by one who was not removing it.    *)
LEMMA TargetKept ==
    ASSUME TargetIsWhole, NEW i \in Installers, dirs'["target"] = dirs["target"],
           \A j \in Installers : inst[j].pc = "clear" => inst'[j].pc = "clear",
           torn => torn'
    PROVE  TargetIsWhole'
BY DEF TargetIsWhole


(* How an installer's record changes when it ends. *)
LEMMA Ended ==
    ASSUME StoreTypeOK, NEW i \in Installers, NEW how \in {"ok", "refused", "failed"}, End(i, how)
    PROVE  /\ inst' \in [Installers -> InstType]
           /\ \A j \in Installers : j # i => inst'[j] = inst[j]
           /\ inst'[i].pc = "idle" /\ inst'[i].end = how /\ ~inst'[i].bad
           /\ inst'[i].crossed = inst[i].crossed
<1>1. inst \in [Installers -> InstType]
  BY DEF StoreTypeOK
<1>2. inst' = [inst EXCEPT ![i] = [inst[i] EXCEPT !.pc = "idle", !.end = how,
                                                  !.todo = {}, !.bad = FALSE]]
  BY DEF End
<1>3. [inst[i] EXCEPT !.pc = "idle", !.end = how, !.todo = {}, !.bad = FALSE] \in InstType
  <2>1. {} \in SUBSET Parts /\ inst[i] \in InstType
    BY <1>1
  <2> QED
    BY <2>1 DEF InstType
<1> QED
  BY <1>1, <1>2, <1>3 DEF InstType

(* And when it goes on. *)
LEMMA Gone ==
    ASSUME StoreTypeOK, NEW i \in Installers, Go(i, "discover") \/ Go(i, "check") \/ Go(i, "make")
                                              \/ Go(i, "stage") \/ Go(i, "replace")
    PROVE  /\ inst' \in [Installers -> InstType]
           /\ \A j \in Installers : j # i => inst'[j] = inst[j]
           /\ inst'[i].end = inst[i].end /\ inst'[i].bad = inst[i].bad
           /\ inst'[i].crossed = inst[i].crossed /\ inst'[i].want = inst[i].want
<1>1. inst \in [Installers -> InstType]
  BY DEF StoreTypeOK
<1>2. PICK p \in {"discover", "check", "make", "stage", "replace"} :
        inst' = [inst EXCEPT ![i] = [inst[i] EXCEPT !.pc = p]]
  BY DEF Go
<1>3. [inst[i] EXCEPT !.pc = p] \in InstType
  BY <1>1 DEF InstType
<1> QED
  BY <1>1, <1>2, <1>3 DEF InstType

(* install_from_catalog begins, or finds no such package. *)
LEMMA BeginStore == ASSUME StoreOK, NEW i \in Installers, Begin(i) PROVE StoreOK'
<1> USE DEF StoreOK
<1>1. PICK now \in {0, release} :
        LET l == Listed(i, now)
            c == [l EXCEPT !.left = @ - 1, !.crossed = FALSE, !.end = "none"]
        IN inst' = [inst EXCEPT ![i] =
                      IF l.cache = 0 THEN [c EXCEPT !.end = "refused"]
                      ELSE [c EXCEPT !.pc = "fetch", !.want = l.cache]]
  BY DEF Begin
<1> DEFINE l == Listed(i, now)
           c == [l EXCEPT !.left = @ - 1, !.crossed = FALSE, !.end = "none"]
           n == IF l.cache = 0 THEN [c EXCEPT !.end = "refused"]
                ELSE [c EXCEPT !.pc = "fetch", !.want = l.cache]
<1>2. inst[i].pc = "idle" /\ inst[i].left > 0 /\ UNCHANGED <<release, dirs, torn>>
  BY DEF Begin
<1>3. l \in InstType /\ l.left = inst[i].left /\ l.pc = "idle" /\ l.bad = inst[i].bad
  <2>1. now \in Releases /\ inst[i] \in InstType
    BY StoreTypes DEF Releases
  <2> QED
    BY <1>2, <2>1 DEF Listed, InstType
<1> HIDE DEF l
<1>4. /\ c \in InstType /\ c.end = "none" /\ ~c.crossed /\ c.pc = "idle"
      /\ c.bad = inst[i].bad
  <2>1. l.left - 1 \in Nat
    BY <1>2, <1>3 DEF InstType
  <2> QED
    BY <1>3, <2>1 DEF InstType
<1> HIDE DEF c
<1>5. /\ n \in InstType /\ ~n.crossed /\ n.end \in {"none", "refused"}
      /\ n.pc \in {"idle", "fetch"} /\ n.bad = inst[i].bad
      /\ n.pc = "fetch" => n.want # 0
  BY <1>3, <1>4 DEF InstType
<1> HIDE DEF n
<1>6. /\ inst' \in [Installers -> InstType] /\ inst'[i] = n
      /\ \A j \in Installers : j # i => inst'[j] = inst[j]
  BY <1>1, <1>5, StoreTypes DEF n, c, l
<1>7. Stepped(i)
  BY <1>2, <1>5, <1>6 DEF Stepped, Past, Writing
<1>8. StoreTypeOK' /\ DiskOK'
  BY <1>2, <1>6 DEF StoreTypeOK, DiskOK
<1>9. TargetIsWhole'
  BY <1>2, <1>5, <1>6, TargetKept DEF InstallsAreWhole
<1>10. ~inst'[i].bad
  BY <1>2, <1>5, <1>6 DEF ProgressOK
<1>11. Expected(i)'
  BY <1>5, <1>6 DEF Expected
<1> QED
  BY <1>5, <1>6, <1>7, <1>8, <1>9, <1>10, <1>11, Advance

(* The archive is good, or the install is refused. *)
LEMMA FetchStore == ASSUME StoreOK, NEW i \in Installers, Fetch(i) PROVE StoreOK'
<1> USE DEF StoreOK
<1>1. inst[i].pc = "fetch" /\ UNCHANGED <<release, dirs, torn>>
  BY DEF Fetch
<1>2. End(i, "refused") \/ Go(i, "stage")
  BY DEF Fetch
<1>3. /\ inst' \in [Installers -> InstType]
      /\ \A j \in Installers : j # i => inst'[j] = inst[j]
      /\ inst'[i].crossed = inst[i].crossed /\ inst'[i].pc \in {"idle", "stage"}
      /\ inst'[i].pc = "stage" => inst'[i].want = inst[i].want
      /\ inst'[i].end = "failed" => inst[i].end = "failed"
      /\ inst'[i].bad => inst[i].bad
  <2>1. CASE End(i, "refused")
    BY <2>1, Ended
  <2>2. CASE Go(i, "stage")
    <3>1. inst'[i].pc = "stage"
      BY <2>2, StoreTypes DEF Go, InstType
    <3> QED
      BY <2>2, <3>1, Gone
  <2> QED
    BY <1>2, <2>1, <2>2
<1>4. Stepped(i)
  BY <1>1, <1>3 DEF Stepped, Past, Writing
<1>5. StoreTypeOK' /\ DiskOK'
  BY <1>1, <1>3 DEF StoreTypeOK, DiskOK
<1>6. TargetIsWhole'
  BY <1>1, <1>3, TargetKept DEF InstallsAreWhole
<1>7. Expected(i)'
  BY <1>3 DEF Expected
<1>8. ~inst'[i].bad /\ (inst'[i].pc # "idle" => inst'[i].want # 0)
      /\ (inst'[i].end = "failed" => inst'[i].crossed)
  BY <1>1, <1>3 DEF ProgressOK, InstallsAreWhole, InstallRecovers
<1> QED
  BY <1>3, <1>4, <1>5, <1>6, <1>7, <1>8, Advance

(* Whoever begins to write crosses all who are at it, and is crossed. *)
LEMMA StageStore == ASSUME StoreOK, NEW i \in Installers, Stage(i) PROVE StoreOK'
<1> USE DEF StoreOK
<1> DEFINE n == IF dirs["staged"].there
                THEN [inst[i] EXCEPT !.pc = "unstage", !.todo = Left("staged")]
                ELSE [inst[i] EXCEPT !.pc = "make"]
           others == {j \in Installers \ {i} : inst[j].pc \in Writing}
           late   == {j \in Installers \ {i} : inst[j].pc = "discover"}
<1>1. inst[i].pc = "stage" /\ Crossing(i, n) /\ UNCHANGED <<release, dirs>>
  BY DEF Stage
<1>2. /\ n \in InstType /\ n.pc \in {"unstage", "make"} /\ n.crossed = inst[i].crossed
      /\ n.want = inst[i].want /\ n.end = inst[i].end /\ n.bad = inst[i].bad
      /\ n.pc = "unstage" => dirs["staged"].there /\ n.todo = Left("staged")
      /\ n.pc = "make" => ~dirs["staged"].there
  <2>1. inst[i] \in InstType /\ Left("staged") \in SUBSET Parts
    BY StoreTypes DEF Left
  <2>2. CASE dirs["staged"].there
    BY <2>1, <2>2 DEF InstType
  <2>3. CASE ~dirs["staged"].there
    BY <2>1, <2>3 DEF InstType
  <2> QED
    BY <2>2, <2>3
<1> HIDE DEF n
<1>3. /\ inst' = [j \in Installers |->
                    IF j = i THEN [n EXCEPT !.crossed = @ \/ others # {}]
                    ELSE [inst[j] EXCEPT !.crossed = @ \/ j \in others \cup late]]
      /\ torn' = (torn \/ others # {})
  BY <1>1 DEF Crossing
<1> HIDE DEF others, late
<1>4. /\ inst'[i] \in InstType
      /\ inst'[i].pc = n.pc /\ inst'[i].want = n.want /\ inst'[i].end = n.end
      /\ inst'[i].bad = n.bad /\ inst'[i].todo = n.todo
      /\ inst'[i].crossed = (inst[i].crossed \/ others # {})
  BY <1>2, <1>3 DEF InstType
<1>5. ASSUME NEW j \in Installers, j # i
      PROVE  /\ inst'[j] \in InstType
             /\ inst'[j].pc = inst[j].pc /\ inst'[j].want = inst[j].want
             /\ inst'[j].end = inst[j].end /\ inst'[j].bad = inst[j].bad
             /\ inst'[j].todo = inst[j].todo
             /\ inst'[j].crossed = (inst[j].crossed \/ j \in others \cup late)
  <2>1. inst[j] \in InstType
    BY StoreTypes
  <2>2. inst'[j] = [inst[j] EXCEPT !.crossed = @ \/ j \in others \cup late]
    BY <1>3, <1>5
  <2> QED
    BY <2>1, <2>2 DEF InstType
<1>6. StoreTypeOK'
  <2>1. inst' \in [Installers -> InstType]
    BY <1>3, <1>4, <1>5
  <2>2. torn' \in BOOLEAN
    BY <1>3
  <2> QED
    BY <1>1, <2>1, <2>2 DEF StoreTypeOK
<1>7. DiskOK'
  BY <1>1 DEF DiskOK
<1>8. CrossedOK'
  <2>1. ASSUME NEW j \in Installers, NEW k \in Installers, j # k, inst'[k].pc \in Past,
               inst'[j].pc \in Past \cup {"discover"}
        PROVE  inst'[j].crossed
    <3>1. CASE j = i
      BY <2>1, <3>1, <1>4, <1>5 DEF others, Past
    <3>2. CASE k = i
      BY <2>1, <3>2, <1>5 DEF others, late, Past
    <3> QED
      BY <2>1, <3>1, <3>2, <1>5 DEF CrossedOK
  <2>2. ASSUME NEW j \in Installers, inst'[j].crossed, inst'[j].pc \in Writing
        PROVE  torn' /\ \A k \in Installers : inst'[k].pc \in Past => inst'[k].crossed
    <3>1. CASE others = {}
      <4>1. j = i
        BY <2>2, <3>1, <1>5 DEF others
      <4>2. inst[i].crossed /\ inst[i].pc \in Writing
        BY <1>1, <1>4, <2>2, <3>1, <4>1 DEF Writing
      <4>3. torn /\ \A k \in Installers : inst[k].pc \in Past => inst[k].crossed
        BY <4>2 DEF CrossedOK
      <4>4. inst'[i].crossed /\ torn'
        BY <1>3, <1>4, <4>2, <4>3
      <4>5. ASSUME NEW k \in Installers, inst'[k].pc \in Past, k # i PROVE inst'[k].crossed
        BY <1>5, <4>3, <4>5
      <4> QED
        BY <4>4, <4>5
    <3>2. CASE others # {}
      <4>1. ASSUME NEW k \in Installers, inst'[k].pc \in Past PROVE inst'[k].crossed
        BY <1>4, <1>5, <3>2, <4>1 DEF others, Past
      <4> QED
        BY <1>3, <3>2, <4>1
    <3> QED
      BY <3>1, <3>2
  <2> QED
    BY <2>1, <2>2 DEF CrossedOK
<1>9. ProgressOK'
  <2>1. ASSUME NEW j \in Installers
        PROVE  /\ inst'[j].pc # "idle" => inst'[j].want # 0
               /\ inst'[j].pc = "fetch" => ~inst'[j].crossed
               /\ inst'[j].bad => inst'[j].pc = "copy" /\ inst'[j].crossed
               /\ ~inst'[j].crossed => Expected(j)'
    <3>1. CASE j = i
      BY <1>1, <1>2, <1>4, <3>1 DEF ProgressOK, Expected, Left, Has
    <3>2. CASE j # i
      <4>1. ASSUME ~inst'[j].crossed PROVE Expected(j)'
        <5>1. ~inst[j].crossed
          BY <1>5, <3>2, <4>1
        <5>2. Expected(j)
          BY <5>1 DEF ProgressOK
        <5>3. Left("staged")' = Left("staged") /\ Left("target")' = Left("target")
          BY <1>1 DEF Left, Has
        <5> QED
          BY <1>1, <1>5, <3>2, <5>2, <5>3 DEF Expected
      <4> QED
        BY <1>5, <3>2, <4>1 DEF ProgressOK, others, late, Writing
    <3> QED
      BY <3>1, <3>2
  <2> QED
    BY <2>1 DEF ProgressOK
<1>10. InstallsAreWhole'
  <2>1. InstallRecovers'
    BY <1>2, <1>4, <1>5 DEF InstallsAreWhole, InstallRecovers
  <2>2. TargetIsWhole'
    BY <1>1, <1>2, <1>3, <1>5, TargetKept DEF InstallsAreWhole
  <2> QED
    BY <2>1, <2>2 DEF InstallsAreWhole
<1> QED
  BY <1>6, <1>7, <1>8, <1>9, <1>10

(* The staging directory that was left behind goes, file by file. *)
LEMMA UnstageStore == ASSUME StoreOK, NEW i \in Installers, Unstage(i) PROVE StoreOK'
<1> USE DEF StoreOK
<1>1. inst[i].pc = "unstage" /\ UNCHANGED <<release, torn>> /\ inst[i] \in InstType
  BY StoreTypes DEF Unstage
<1>2. CASE \E p \in inst[i].todo : /\ dirs' = [dirs EXCEPT !["staged"].file[p] = 0]
                                   /\ inst' = [inst EXCEPT ![i].todo = @ \ {p}]
  <2>1. PICK p \in inst[i].todo : /\ dirs' = [dirs EXCEPT !["staged"].file[p] = 0]
                                  /\ inst' = [inst EXCEPT ![i].todo = @ \ {p}]
    BY <1>2
  <2>2. p \in Parts
    BY StoreTypes
  <2>3. /\ DiskOK' /\ Left("staged")' = Left("staged") \ {p}
        /\ dirs' \in [Dirs -> [there: BOOLEAN, file: [Parts -> Releases]]]
        /\ dirs'["target"] = dirs["target"]
    BY <2>1, <2>2, FileGone DEF Dirs
  <2>4. /\ inst' \in [Installers -> InstType]
        /\ \A j \in Installers : j # i => inst'[j] = inst[j]
        /\ inst'[i] = [inst[i] EXCEPT !.todo = @ \ {p}]
    <3>1. [inst[i] EXCEPT !.todo = @ \ {p}] \in InstType
      BY <1>1 DEF InstType
    <3> QED
      BY <2>1, <3>1, StoreTypes
  <2>5. /\ inst'[i].pc = "unstage" /\ inst'[i].crossed = inst[i].crossed
        /\ inst'[i].todo = inst[i].todo \ {p} /\ inst'[i].want = inst[i].want
        /\ inst'[i].bad = inst[i].bad /\ inst'[i].end = inst[i].end
    BY <1>1, <2>4 DEF InstType
  <2>6. Stepped(i)
    BY <1>1, <2>4, <2>5 DEF Stepped, Past, Writing
  <2>7. StoreTypeOK'
    BY <1>1, <2>3, <2>4 DEF StoreTypeOK
  <2>8. TargetIsWhole'
    BY <1>1, <2>3, <2>4, <2>5, TargetKept DEF InstallsAreWhole
  <2>9. ~inst'[i].crossed => Expected(i)'
    BY <1>1, <2>3, <2>5 DEF ProgressOK, Expected
  <2> QED
    BY <1>1, <2>3, <2>5, <2>6, <2>7, <2>8, <2>9, Advance
       DEF ProgressOK, InstallsAreWhole, InstallRecovers
<1>3. CASE /\ inst[i].todo = {}
           /\ dirs' = IF Left("staged") = {} THEN [dirs EXCEPT !["staged"] = NoDir] ELSE dirs
           /\ Go(i, "make")
  <2>1. /\ DiskOK' /\ dirs'["target"] = dirs["target"]
        /\ dirs' \in [Dirs -> [there: BOOLEAN, file: [Parts -> Releases]]]
        /\ Left("staged") = {} => ~dirs'["staged"].there
    <3>1. NoDir \in [there: BOOLEAN, file: [Parts -> Releases]]
      BY StoreAssumption DEF NoDir, Empty, Releases
    <3> QED
      BY <1>3, <3>1, StoreTypes DEF Dirs, DiskOK, NoDir
  <2>2. /\ inst' \in [Installers -> InstType]
        /\ \A j \in Installers : j # i => inst'[j] = inst[j]
        /\ inst'[i].end = inst[i].end /\ inst'[i].bad = inst[i].bad
        /\ inst'[i].crossed = inst[i].crossed /\ inst'[i].want = inst[i].want
    BY <1>3, Gone
  <2>3. inst'[i].pc = "make"
    BY <1>3, StoreTypes DEF Go, InstType
  <2>4. Stepped(i)
    BY <1>1, <2>2, <2>3 DEF Stepped, Past, Writing
  <2>5. StoreTypeOK'
    BY <1>1, <2>1, <2>2 DEF StoreTypeOK
  <2>6. TargetIsWhole'
    BY <1>1, <2>1, <2>2, TargetKept DEF InstallsAreWhole
  <2>7. ~inst'[i].crossed => Expected(i)'
    BY <1>1, <1>3, <2>1, <2>2, <2>3 DEF ProgressOK, Expected
  <2> QED
    BY <1>1, <2>1, <2>2, <2>3, <2>4, <2>5, <2>6, <2>7, Advance
       DEF ProgressOK, InstallsAreWhole, InstallRecovers
<1> QED
  BY <1>2, <1>3 DEF Unstage

(* An install that somebody crossed may fail at any point: the target is   *)
(* not trusted then.                                                       *)
LEMMA CrossedFails ==
    ASSUME StoreOK, NEW i \in Installers, inst[i].pc \in Past, inst[i].crossed,
           End(i, "failed"), UNCHANGED <<release, dirs, torn>>
    PROVE  StoreOK'
<1> USE DEF StoreOK
<1>1. /\ inst' \in [Installers -> InstType]
      /\ \A j \in Installers : j # i => inst'[j] = inst[j]
      /\ inst'[i].pc = "idle" /\ ~inst'[i].bad /\ inst'[i].crossed
  BY Ended
<1>2. Stepped(i)
  BY <1>1 DEF Stepped, Past, Writing
<1>3. StoreTypeOK' /\ DiskOK'
  BY <1>1 DEF StoreTypeOK, DiskOK
<1>4. TargetIsWhole'
  BY DEF CrossedOK, TargetIsWhole, Past
<1> QED
  BY <1>1, <1>2, <1>3, <1>4, Advance

(* copytree makes the staging directory, which somebody else may have made. *)
LEMMA MakeStore == ASSUME StoreOK, NEW i \in Installers, Make(i) PROVE StoreOK'
<1> USE DEF StoreOK
<1>1. inst[i].pc = "make" /\ UNCHANGED <<release, torn>> /\ inst[i] \in InstType
  BY StoreTypes DEF Make
<1>2. CASE dirs["staged"].there
  <2>1. End(i, "failed") /\ UNCHANGED dirs
    BY <1>2 DEF Make
  <2>2. inst[i].crossed
    BY <1>1, <1>2 DEF ProgressOK, Expected
  <2> QED
    BY <1>1, <2>1, <2>2, CrossedFails DEF Past, Writing
<1>3. CASE ~dirs["staged"].there
  <2>1. /\ dirs' = [dirs EXCEPT !["staged"].there = TRUE]
        /\ inst' = [inst EXCEPT ![i] = [inst[i] EXCEPT !.pc = "copy", !.todo = Parts]]
    BY <1>3 DEF Make
  <2>2. [inst[i] EXCEPT !.pc = "copy", !.todo = Parts] \in InstType
    BY <1>1 DEF InstType
  <2>3. /\ inst' \in [Installers -> InstType]
        /\ \A j \in Installers : j # i => inst'[j] = inst[j]
        /\ inst'[i].pc = "copy" /\ inst'[i].todo = Parts /\ inst'[i].bad = inst[i].bad
        /\ inst'[i].crossed = inst[i].crossed /\ inst'[i].want = inst[i].want
        /\ inst'[i].end = inst[i].end
    BY <1>1, <2>1, <2>2, StoreTypes DEF InstType
  <2>4. /\ dirs' \in [Dirs -> [there: BOOLEAN, file: [Parts -> Releases]]]
        /\ dirs'["staged"].there /\ dirs'["target"] = dirs["target"]
    BY <2>1, StoreTypes DEF Dirs
  <2>5. DiskOK'
    BY <2>4 DEF DiskOK, Dirs
  <2>6. Stepped(i)
    BY <1>1, <2>3 DEF Stepped, Past, Writing
  <2>7. StoreTypeOK'
    BY <1>1, <2>3, <2>4 DEF StoreTypeOK
  <2>8. TargetIsWhole'
    BY <1>1, <2>3, <2>4, TargetKept DEF InstallsAreWhole
  <2>9. Expected(i)'
    BY <2>3, <2>4 DEF Expected
  <2> QED
    BY <1>1, <2>3, <2>5, <2>6, <2>7, <2>8, <2>9, Advance
       DEF ProgressOK, InstallsAreWhole, InstallRecovers
<1> QED
  BY <1>2, <1>3

(* The files are copied; somebody else may remove the directory meanwhile. *)
LEMMA CopyStore == ASSUME StoreOK, NEW i \in Installers, Copy(i) PROVE StoreOK'
<1> USE DEF StoreOK
<1>1. inst[i].pc = "copy" /\ UNCHANGED <<release, torn>> /\ inst[i] \in InstType
  BY StoreTypes DEF Copy
<1>2. ASSUME NEW p \in inst[i].todo,
             dirs' = IF dirs["staged"].there
                     THEN [dirs EXCEPT !["staged"].file[p] = inst[i].want] ELSE dirs,
             inst' = [inst EXCEPT ![i].todo = @ \ {p},
                                  ![i].bad = @ \/ ~dirs["staged"].there]
      PROVE  StoreOK'
  <2>1. p \in Parts /\ inst[i].want \in Releases /\ "staged" \in Dirs
    BY StoreTypes DEF Dirs
  <2>2. [inst[i] EXCEPT !.todo = @ \ {p}, !.bad = @ \/ ~dirs["staged"].there] \in InstType
    BY <1>1, StoreTypes DEF InstType, Dirs
  <2>3. inst' = [inst EXCEPT ![i] = [inst[i] EXCEPT !.todo = @ \ {p},
                                                    !.bad = @ \/ ~dirs["staged"].there]]
    BY <1>2
  <2>4. /\ inst' \in [Installers -> InstType]
        /\ \A j \in Installers : j # i => inst'[j] = inst[j]
        /\ inst'[i].pc = "copy" /\ inst'[i].todo = inst[i].todo \ {p}
        /\ inst'[i].bad = (inst[i].bad \/ ~dirs["staged"].there)
        /\ inst'[i].crossed = inst[i].crossed /\ inst'[i].want = inst[i].want
        /\ inst'[i].end = inst[i].end
    BY <1>1, <2>2, <2>3, StoreTypes DEF InstType
  <2>5. /\ dirs' \in [Dirs -> [there: BOOLEAN, file: [Parts -> Releases]]]
        /\ dirs'["target"] = dirs["target"] /\ dirs'["staged"].there = dirs["staged"].there
        /\ dirs["staged"].there =>
             \A q \in Parts : dirs'["staged"].file[q] =
                                IF q = p THEN inst[i].want ELSE dirs["staged"].file[q]
        /\ ~dirs["staged"].there => dirs' = dirs
    <3>1. CASE dirs["staged"].there
      <4>1. dirs' = [dirs EXCEPT !["staged"].file[p] = inst[i].want]
        BY <1>2, <3>1
      <4>2. "target" \in Dirs /\ "target" # "staged"
        BY DEF Dirs
      <4>3. /\ dirs' \in [Dirs -> [there: BOOLEAN, file: [Parts -> Releases]]]
            /\ dirs'["staged"].there = dirs["staged"].there
            /\ \A q \in Parts : dirs'["staged"].file[q] =
                                IF q = p THEN inst[i].want ELSE dirs["staged"].file[q]
            /\ \A e \in Dirs : e # "staged" => dirs'[e] = dirs[e]
        BY <2>1, <4>1, FileWritten
      <4> QED
        BY <3>1, <4>2, <4>3
    <3>2. CASE ~dirs["staged"].there
      <4>1. dirs' = dirs
        BY <1>2, <3>2
      <4> QED
        BY <3>2, <4>1, StoreTypes
    <3> QED
      BY <3>1, <3>2
  <2>6. DiskOK'
    BY <2>5 DEF DiskOK, Dirs
  <2>7. Stepped(i)
    BY <1>1, <2>4 DEF Stepped, Past, Writing
  <2>8. StoreTypeOK'
    BY <1>1, <2>4, <2>5 DEF StoreTypeOK
  <2>9. TargetIsWhole'
    BY <1>1, <2>4, <2>5, TargetKept DEF InstallsAreWhole
  <2>10. ASSUME ~inst[i].crossed PROVE Expected(i)' /\ ~inst'[i].bad
    <3>1. Expected(i) /\ ~inst[i].bad
      BY <2>10 DEF ProgressOK
    <3>2. dirs["staged"].there
          /\ \A q \in Parts \ inst[i].todo : dirs["staged"].file[q] = inst[i].want
      BY <1>1, <3>1 DEF Expected
    <3>3. \A q \in Parts \ inst'[i].todo : dirs'["staged"].file[q] = inst'[i].want
      BY <2>4, <2>5, <3>2
    <3> QED
      BY <2>4, <2>5, <3>1, <3>2, <3>3 DEF Expected
  <2> QED
    BY <1>1, <2>4, <2>6, <2>7, <2>8, <2>9, <2>10, Advance
       DEF ProgressOK, InstallsAreWhole, InstallRecovers
<1>3. ASSUME inst[i].todo = {}, inst[i].bad \/ ~dirs["staged"].there,
             End(i, "failed"), UNCHANGED dirs
      PROVE  StoreOK'
  <2>1. inst[i].crossed
    BY <1>1, <1>3 DEF ProgressOK, Expected
  <2> QED
    BY <1>1, <1>3, <2>1, CrossedFails DEF Past, Writing
<1>4. ASSUME inst[i].todo = {}, ~inst[i].bad, dirs["staged"].there,
             Go(i, "check"), UNCHANGED dirs
      PROVE  StoreOK'
  <2>1. /\ inst' \in [Installers -> InstType]
        /\ \A j \in Installers : j # i => inst'[j] = inst[j]
        /\ inst'[i].end = inst[i].end /\ inst'[i].bad = inst[i].bad
        /\ inst'[i].crossed = inst[i].crossed /\ inst'[i].want = inst[i].want
    BY <1>4, Gone
  <2>2. inst'[i].pc = "check"
    BY <1>4, StoreTypes DEF Go, InstType
  <2>3. Stepped(i)
    BY <1>1, <1>4, <2>1, <2>2 DEF Stepped, Past, Writing
  <2>4. StoreTypeOK' /\ DiskOK'
    BY <1>1, <1>4, <2>1 DEF StoreTypeOK, DiskOK
  <2>5. TargetIsWhole'
    BY <1>1, <1>4, <2>1, TargetKept DEF InstallsAreWhole
  <2>6. ASSUME ~inst[i].crossed PROVE Expected(i)'
    <3>1. \A q \in Parts : dirs["staged"].file[q] = inst[i].want
      BY <1>1, <1>4, <2>6 DEF ProgressOK, Expected
    <3>2. dirs["staged"] \in [there: BOOLEAN, file: [Parts -> Releases]]
      BY StoreTypes DEF Dirs
    <3>3. dirs["staged"].file = Bundle(inst[i].want)
      BY <3>1, <3>2 DEF Bundle
    <3>4. dirs["staged"] = [there |-> TRUE, file |-> Bundle(inst[i].want)]
      BY <1>4, <3>2, <3>3
    <3> QED
      BY <1>4, <2>1, <2>2, <3>4 DEF Expected
  <2> QED
    BY <1>1, <1>4, <2>1, <2>2, <2>3, <2>4, <2>5, <2>6, Advance
       DEF ProgressOK, InstallsAreWhole, InstallRecovers
<1> QED
  BY <1>2, <1>3, <1>4 DEF Copy

(* What is left of the old target is listed. *)
LEMMA CheckStore == ASSUME StoreOK, NEW i \in Installers, Check(i) PROVE StoreOK'
<1> USE DEF StoreOK
<1>1. inst[i].pc = "check" /\ UNCHANGED <<release, dirs, torn>> /\ inst[i] \in InstType
  BY StoreTypes DEF Check
<1> DEFINE n == [inst[i] EXCEPT !.pc = IF dirs["target"].there THEN "clear" ELSE "replace",
                                !.todo = Left("target")]
<1>2. /\ n \in InstType /\ n.todo = Left("target") /\ n.bad = inst[i].bad
      /\ n.crossed = inst[i].crossed /\ n.want = inst[i].want /\ n.end = inst[i].end
      /\ n.pc = IF dirs["target"].there THEN "clear" ELSE "replace"
  BY <1>1 DEF InstType, Left
<1>3. inst' = [inst EXCEPT ![i] = n]
  BY DEF Check
<1> HIDE DEF n
<1>4. /\ inst' \in [Installers -> InstType] /\ inst'[i] = n
      /\ \A j \in Installers : j # i => inst'[j] = inst[j]
  BY <1>2, <1>3, StoreTypes
<1>5. Stepped(i)
  BY <1>1, <1>2, <1>4 DEF Stepped, Past, Writing
<1>6. StoreTypeOK' /\ DiskOK'
  BY <1>1, <1>4 DEF StoreTypeOK, DiskOK
<1>7. TargetIsWhole'
  BY <1>1, <1>4, TargetKept DEF InstallsAreWhole
<1>8. ASSUME ~inst[i].crossed PROVE Expected(i)'
  <2>1. dirs["staged"] = [there |-> TRUE, file |-> Bundle(inst[i].want)]
    BY <1>1, <1>8 DEF ProgressOK, Expected
  <2>2. Left("target")' = Left("target") /\ (~dirs["target"].there => Left("target") = {})
    BY <1>1, NothingLeft DEF Left, Has, Dirs
  <2> QED
    BY <1>1, <1>2, <1>4, <2>1, <2>2 DEF Expected
<1> QED
  BY <1>1, <1>2, <1>4, <1>5, <1>6, <1>7, <1>8, Advance
     DEF ProgressOK, InstallsAreWhole, InstallRecovers

(* The old target goes, file by file, then the directory. *)
LEMMA ClearStore == ASSUME StoreOK, NEW i \in Installers, Clear(i) PROVE StoreOK'
<1> USE DEF StoreOK
<1>1. inst[i].pc = "clear" /\ UNCHANGED <<release, torn>> /\ inst[i] \in InstType
  BY StoreTypes DEF Clear
<1>2. ASSUME NEW p \in inst[i].todo, Has("target", p),
             dirs' = [dirs EXCEPT !["target"].file[p] = 0],
             inst' = [inst EXCEPT ![i].todo = @ \ {p}]
      PROVE  StoreOK'
  <2>1. p \in Parts
    BY StoreTypes
  <2>2. /\ DiskOK' /\ Left("target")' = Left("target") \ {p}
        /\ dirs' \in [Dirs -> [there: BOOLEAN, file: [Parts -> Releases]]]
        /\ dirs'["target"].there = dirs["target"].there
        /\ dirs'["staged"] = dirs["staged"]
    BY <1>2, <2>1, FileGone DEF Dirs
  <2>3. [inst[i] EXCEPT !.todo = @ \ {p}] \in InstType
    BY <1>1 DEF InstType
  <2>4. /\ inst' \in [Installers -> InstType]
        /\ \A j \in Installers : j # i => inst'[j] = inst[j]
        /\ inst'[i].pc = "clear" /\ inst'[i].crossed = inst[i].crossed
        /\ inst'[i].todo = inst[i].todo \ {p} /\ inst'[i].want = inst[i].want
        /\ inst'[i].bad = inst[i].bad /\ inst'[i].end = inst[i].end
    BY <1>1, <1>2, <2>3, StoreTypes DEF InstType
  <2>5. Stepped(i)
    BY <1>1, <2>4 DEF Stepped, Past, Writing
  <2>6. StoreTypeOK'
    BY <1>1, <2>2, <2>4 DEF StoreTypeOK
  <2>7. TargetIsWhole'
    BY <2>4 DEF TargetIsWhole
  <2>8. ASSUME ~inst[i].crossed PROVE Expected(i)'
    <3>1. /\ dirs["staged"] = [there |-> TRUE, file |-> Bundle(inst[i].want)]
          /\ dirs["target"].there /\ Left("target") = inst[i].todo
      BY <1>1, <2>8 DEF ProgressOK, Expected
    <3> QED
      BY <2>2, <2>4, <3>1 DEF Expected
  <2> QED
    BY <1>1, <2>2, <2>4, <2>5, <2>6, <2>7, <2>8, Advance
       DEF ProgressOK, InstallsAreWhole, InstallRecovers
<1>3. ASSUME NEW p \in inst[i].todo, ~Has("target", p), End(i, "failed"), UNCHANGED dirs
      PROVE  StoreOK'
  <2>1. inst[i].crossed
    BY <1>1, <1>3 DEF ProgressOK, Expected, Left
  <2> QED
    BY <1>1, <1>3, <2>1, CrossedFails DEF Past, Writing
<1>4. ASSUME inst[i].todo = {}, dirs["target"].there, Left("target") = {},
             dirs' = [dirs EXCEPT !["target"] = NoDir], Go(i, "replace")
      PROVE  StoreOK'
  <2>1. /\ dirs' \in [Dirs -> [there: BOOLEAN, file: [Parts -> Releases]]]
        /\ dirs'["target"] = NoDir /\ dirs'["staged"] = dirs["staged"]
    <3>1. NoDir \in [there: BOOLEAN, file: [Parts -> Releases]]
      BY StoreAssumption DEF NoDir, Empty, Releases
    <3> QED
      BY <1>4, <3>1, StoreTypes DEF Dirs
  <2>2. DiskOK' /\ Left("target")' = {}
    BY <2>1 DEF DiskOK, Dirs, NoDir, Left, Has, Empty
  <2>3. /\ inst' \in [Installers -> InstType]
        /\ \A j \in Installers : j # i => inst'[j] = inst[j]
        /\ inst'[i].end = inst[i].end /\ inst'[i].bad = inst[i].bad
        /\ inst'[i].crossed = inst[i].crossed /\ inst'[i].want = inst[i].want
    BY <1>4, Gone
  <2>4. inst'[i].pc = "replace"
    BY <1>4, StoreTypes DEF Go, InstType
  <2>5. Stepped(i)
    BY <1>1, <2>3, <2>4 DEF Stepped, Past, Writing
  <2>6. StoreTypeOK'
    BY <1>1, <2>1, <2>3 DEF StoreTypeOK
  <2>7. TargetIsWhole'
    <3>1. 0 \in Releases /\ dirs'["target"].file = Bundle(0) /\ ~dirs'["target"].there
      BY <2>1, StoreAssumption DEF NoDir, Empty, Bundle, Releases
    <3> QED
      BY <3>1 DEF TargetIsWhole
  <2>8. ASSUME ~inst[i].crossed PROVE Expected(i)'
    <3>1. dirs["staged"] = [there |-> TRUE, file |-> Bundle(inst[i].want)]
      BY <1>1, <2>8 DEF ProgressOK, Expected
    <3> QED
      BY <2>1, <2>2, <2>3, <2>4, <3>1 DEF Expected
  <2> QED
    BY <1>1, <2>2, <2>3, <2>4, <2>5, <2>6, <2>7, <2>8, Advance
       DEF ProgressOK, InstallsAreWhole, InstallRecovers
<1>5. ASSUME inst[i].todo = {}, ~(dirs["target"].there /\ Left("target") = {}),
             End(i, "failed"), UNCHANGED dirs
      PROVE  StoreOK'
  <2>1. inst[i].crossed
    BY <1>1, <1>5 DEF ProgressOK, Expected
  <2> QED
    BY <1>1, <1>5, <2>1, CrossedFails DEF Past, Writing
<1>6. CASE inst[i].todo # {}
  <2>1. PICK p \in inst[i].todo :
          IF Has("target", p)
          THEN /\ dirs' = [dirs EXCEPT !["target"].file[p] = 0]
               /\ inst' = [inst EXCEPT ![i].todo = @ \ {p}]
          ELSE End(i, "failed") /\ UNCHANGED dirs
    BY <1>6 DEF Clear
  <2> QED
    BY <2>1, <1>2, <1>3
<1>7. CASE inst[i].todo = {}
  <2>1. IF dirs["target"].there /\ Left("target") = {}
        THEN dirs' = [dirs EXCEPT !["target"] = NoDir] /\ Go(i, "replace")
        ELSE End(i, "failed") /\ UNCHANGED dirs
    BY <1>7 DEF Clear
  <2> QED
    BY <1>7, <2>1, <1>4, <1>5
<1> QED
  BY <1>6, <1>7

(* os.replace: the staged bundle becomes the target. *)
LEMMA ReplaceStore == ASSUME StoreOK, NEW i \in Installers, Replace(i) PROVE StoreOK'
<1> USE DEF StoreOK
<1>1. inst[i].pc = "replace" /\ UNCHANGED release /\ inst[i] \in InstType
  BY StoreTypes DEF Replace
<1>2. CASE ~dirs["staged"].there \/ Left("target") # {}
  <2>1. End(i, "failed") /\ UNCHANGED <<dirs, torn>>
    BY <1>2 DEF Replace
  <2>2. ASSUME ~inst[i].crossed PROVE FALSE
    <3>1. Expected(i)
      BY <2>2 DEF ProgressOK
    <3>2. dirs["staged"] = [there |-> TRUE, file |-> Bundle(inst[i].want)]
          /\ Left("target") = {}
      BY <1>1, <3>1 DEF Expected
    <3>3. dirs["staged"].there
      BY <3>2
    <3> QED
      BY <1>2, <3>2, <3>3
  <2> QED
    BY <1>1, <2>1, <2>2, CrossedFails DEF Past, Writing
<1>3. CASE dirs["staged"].there /\ Left("target") = {}
  <2>1. /\ dirs' = [dirs EXCEPT !["target"] = dirs["staged"], !["staged"] = NoDir]
        /\ Go(i, "discover") /\ torn' = inst[i].crossed
    BY <1>3 DEF Replace
  <2>2. /\ dirs' \in [Dirs -> [there: BOOLEAN, file: [Parts -> Releases]]]
        /\ dirs'["target"] = dirs["staged"] /\ dirs'["staged"] = NoDir
    <3>1. NoDir \in [there: BOOLEAN, file: [Parts -> Releases]]
      BY StoreAssumption DEF NoDir, Empty, Releases
    <3> QED
      BY <2>1, <3>1, StoreTypes DEF Dirs
  <2>3. DiskOK'
    BY <1>3, <2>2 DEF DiskOK, Dirs, NoDir
  <2>4. /\ inst' \in [Installers -> InstType]
        /\ \A j \in Installers : j # i => inst'[j] = inst[j]
        /\ inst'[i].end = inst[i].end /\ inst'[i].bad = inst[i].bad
        /\ inst'[i].crossed = inst[i].crossed /\ inst'[i].want = inst[i].want
    BY <2>1, Gone
  <2>5. inst'[i].pc = "discover"
    BY <2>1, StoreTypes DEF Go, InstType
  <2>6. Stepped(i)
    BY <1>1, <2>1, <2>4, <2>5 DEF Stepped, Past, Writing
  <2>7. StoreTypeOK'
    BY <1>1, <2>1, <2>2, <2>4, StoreTypes DEF StoreTypeOK, InstType
  <2>8. ~inst[i].crossed => dirs'["target"] = [there |-> TRUE, file |-> Bundle(inst[i].want)]
    BY <1>1, <2>2 DEF ProgressOK, Expected
  <2>9. TargetIsWhole'
    <3>1. CASE inst[i].crossed
      BY <2>1, <3>1 DEF TargetIsWhole
    <3>2. CASE ~inst[i].crossed
      <4>1. inst[i].want \in Releases /\ inst[i].want # 0
        BY <1>1, StoreTypes DEF ProgressOK
      <4> QED
        BY <2>8, <3>2, <4>1 DEF TargetIsWhole
    <3> QED
      BY <3>1, <3>2
  <2>10. ~inst[i].crossed => Expected(i)'
    BY <2>4, <2>5, <2>8 DEF Expected
  <2> QED
    BY <1>1, <2>3, <2>4, <2>5, <2>6, <2>7, <2>9, <2>10, Advance
       DEF ProgressOK, InstallsAreWhole, InstallRecovers
<1> QED
  BY <1>2, <1>3

(* What was installed is looked for, and found unless somebody crossed it. *)
LEMMA DiscoverStore == ASSUME StoreOK, NEW i \in Installers, Discover(i) PROVE StoreOK'
<1> USE DEF StoreOK
<1> DEFINE how == IF Discovered(Dirs) = None THEN "failed" ELSE "ok"
<1>1. inst[i].pc = "discover" /\ UNCHANGED <<release, dirs, torn>> /\ End(i, how)
  BY DEF Discover
<1>2. /\ inst' \in [Installers -> InstType]
      /\ \A j \in Installers : j # i => inst'[j] = inst[j]
      /\ inst'[i].pc = "idle" /\ ~inst'[i].bad /\ inst'[i].end = how
      /\ inst'[i].crossed = inst[i].crossed
  BY <1>1, Ended
<1>3. Stepped(i)
  BY <1>1, <1>2 DEF Stepped, Past, Writing
<1>4. StoreTypeOK' /\ DiskOK'
  BY <1>1, <1>2 DEF StoreTypeOK, DiskOK
<1>5. TargetIsWhole'
  BY <1>1, <1>2, TargetKept DEF InstallsAreWhole
<1>6. ASSUME ~inst[i].crossed PROVE how = "ok"
  <2>1. dirs["target"].file = Bundle(inst[i].want) /\ inst[i].want # 0
    BY <1>1, <1>6 DEF ProgressOK, Expected
  <2>2. Has("target", "manifest")
    BY <2>1 DEF Has, Bundle, Parts
  <2>3. Discovered(Dirs) = Found("target")
    BY <2>2 DEF Discovered, Dirs
  <2> QED
    BY <2>3 DEF Found, None
<1>7. ~inst'[i].crossed => Expected(i)'
  BY <1>2 DEF Expected
<1> QED
  BY <1>2, <1>3, <1>4, <1>5, <1>6, <1>7, Advance

(* An install is cut between two steps. *)
LEMMA CutStore == ASSUME StoreOK, NEW i \in Installers, Cut(i) PROVE StoreOK'
<1> USE DEF StoreOK
<1>1. /\ inst[i].pc \in Writing \cup {"discover"} /\ UNCHANGED <<release, dirs>>
      /\ torn' = (torn \/ inst[i].pc = "clear")
  BY DEF Cut
<1>2. PICK keeps \in BOOLEAN :
        inst' = [inst EXCEPT ![i].pc = "idle", ![i].end = "cut",
                             ![i].todo = {}, ![i].bad = FALSE,
                             ![i].read = keeps, ![i].cache = IF keeps THEN @ ELSE 0]
  BY DEF Cut
<1> DEFINE n == [inst[i] EXCEPT !.pc = "idle", !.end = "cut", !.todo = {}, !.bad = FALSE,
                                !.read = keeps, !.cache = IF keeps THEN @ ELSE 0]
<1>3. /\ n \in InstType /\ n.pc = "idle" /\ n.end = "cut" /\ ~n.bad
      /\ n.crossed = inst[i].crossed
  <2>1. 0 \in Releases /\ inst[i] \in InstType
    BY StoreTypes DEF Releases
  <2> QED
    BY <2>1 DEF InstType
<1>4. inst' = [inst EXCEPT ![i] = n]
  BY <1>2
<1> HIDE DEF n
<1>5. /\ inst' \in [Installers -> InstType] /\ inst'[i] = n
      /\ \A j \in Installers : j # i => inst'[j] = inst[j]
  BY <1>3, <1>4, StoreTypes
<1>6. Stepped(i)
  BY <1>1, <1>3, <1>5 DEF Stepped, Past, Writing
<1>7. StoreTypeOK' /\ DiskOK'
  BY <1>1, <1>5, StoreTypes DEF StoreTypeOK, DiskOK
<1>8. TargetIsWhole'
  <2>1. CASE inst[i].pc = "clear"
    BY <1>1, <2>1 DEF TargetIsWhole
  <2>2. CASE inst[i].pc # "clear"
    BY <1>1, <1>5, <2>2, TargetKept DEF InstallsAreWhole
  <2> QED
    BY <2>1, <2>2
<1>9. Expected(i)'
  BY <1>3, <1>5 DEF Expected
<1> QED
  BY <1>3, <1>5, <1>6, <1>7, <1>8, <1>9, Advance

(* Every step of an installer keeps the store. *)
LEMMA StoreSteps == ASSUME StoreOK, NEW i \in Installers, InstallStep(i) PROVE StoreOK'
BY BeginStore, FetchStore, StageStore, UnstageStore, MakeStore, CopyStore, CheckStore,
   ClearStore, ReplaceStore, DiscoverStore, CutStore DEF InstallStep

(* A new manager of an installer forgets the catalog and nothing else. *)
LEMMA RenewStore ==
    ASSUME StoreOK, NEW i \in Installers,
           inst' = inst \/ inst' = [inst EXCEPT ![i].read = FALSE, ![i].cache = 0],
           UNCHANGED <<release, dirs, torn>>
    PROVE  StoreOK'
<1> USE DEF StoreOK
<1>1. /\ inst' \in [Installers -> InstType]
      /\ \A j \in Installers :
           /\ inst'[j].pc = inst[j].pc /\ inst'[j].want = inst[j].want
           /\ inst'[j].todo = inst[j].todo /\ inst'[j].bad = inst[j].bad
           /\ inst'[j].crossed = inst[j].crossed /\ inst'[j].end = inst[j].end
  <2>1. CASE inst' = inst
    BY <2>1, StoreTypes
  <2>2. CASE inst' = [inst EXCEPT ![i].read = FALSE, ![i].cache = 0]
    <3>1. 0 \in Releases /\ inst[i] \in InstType
      BY StoreTypes DEF Releases
    <3>2. [inst[i] EXCEPT !.read = FALSE, !.cache = 0] \in InstType
      BY <3>1 DEF InstType
    <3>3. inst' = [inst EXCEPT ![i] = [inst[i] EXCEPT !.read = FALSE, !.cache = 0]]
      BY <2>2
    <3> QED
      BY <3>2, <3>3, StoreTypes DEF InstType
  <2> QED
    BY <2>1, <2>2
<1>2. StoreTypeOK' /\ DiskOK'
  BY <1>1 DEF StoreTypeOK, DiskOK
<1>3. CrossedOK'
  BY <1>1 DEF CrossedOK
<1>4. ProgressOK'
  <2>1. ASSUME NEW j \in Installers, Expected(j) PROVE Expected(j)'
    <3>1. Left("staged")' = Left("staged") /\ Left("target")' = Left("target")
      BY DEF Left, Has
    <3>2. /\ inst'[j].pc = inst[j].pc /\ inst'[j].want = inst[j].want
          /\ inst'[j].todo = inst[j].todo
      BY <1>1
    <3>3. dirs' = dirs
      OBVIOUS
    <3> QED
      BY <2>1, <3>1, <3>2, <3>3 DEF Expected
  <2> QED
    BY <1>1, <2>1 DEF ProgressOK
<1>5. InstallsAreWhole'
  BY <1>1 DEF InstallsAreWhole, InstallRecovers, TargetIsWhole
<1> QED
  BY <1>2, <1>3, <1>4, <1>5

(* Nothing is installed at first. *)
LEMMA InitStore ==
    ASSUME NEW installs \in [Installers -> Nat], StoreInit(installs)
    PROVE  StoreOK
<1> USE DEF StoreInit
<1>1. StoreTypeOK
  <2>1. NoDir \in [there: BOOLEAN, file: [Parts -> Releases]] /\ 0 \in Releases
        /\ 1 \in 1..MaxRelease
    BY StoreAssumption DEF NoDir, Empty, Releases
  <2> QED
    BY <2>1 DEF StoreTypeOK, InstType
<1>2. DiskOK
  BY DEF DiskOK, NoDir
<1>3. CrossedOK /\ ProgressOK
  BY DEF CrossedOK, ProgressOK, Expected, Past, Writing
<1>4. InstallsAreWhole
  <2>1. dirs["target"].file = Bundle(0) /\ ~dirs["target"].there /\ 0 \in Releases
    BY StoreAssumption DEF Dirs, NoDir, Empty, Bundle, Releases
  <2> QED
    BY <2>1 DEF InstallsAreWhole, InstallRecovers, TargetIsWhole
<1> QED
  BY <1>1, <1>2, <1>3, <1>4 DEF StoreOK

-----------------------------------------------------------------------------
(* Requests                                                                *)

(* The name of what a request wants. *)
Name(a) == IF a.package # "" THEN a.package
           ELSE IF a.extension # "" THEN a.extension
           ELSE IF a.skill # "" THEN a.skill
           ELSE IF a.tool # "" THEN a.tool ELSE a.desired

(* The least of some numbers. *)
LEMMA Least == ASSUME NEW S \in SUBSET Int, NEW i \in S, \A j \in S : i <= j PROVE Min(S) = i
<1>1. Min(S) \in S /\ \A j \in S : Min(S) <= j
  BY DEF Min
<1>2. Min(S) \in Int /\ i \in Int /\ Min(S) <= i /\ i <= Min(S)
  BY <1>1
<1> QED
  BY <1>2

(* _build_request_key takes the first field there is. *)
LEMMA KeyNames == ASSUME NEW a \in AskType PROVE Key(a) = <<a.type, Name(a)>>
<1> DEFINE given == {i \in DOMAIN Fields : a[Fields[i]] # ""}
<1>1. /\ DOMAIN Fields = 1..4
      /\ Fields[1] = "package" /\ Fields[2] = "extension" /\ Fields[3] = "skill"
      /\ Fields[4] = "tool"
  BY DEF Fields
<1>2. /\ 1 \in given <=> a.package # ""
      /\ 2 \in given <=> a.extension # ""
      /\ 3 \in given <=> a.skill # ""
      /\ 4 \in given <=> a.tool # ""
      /\ given \subseteq {1, 2, 3, 4}
  <2>1. given = {i \in 1..4 : a[Fields[i]] # ""}
    BY <1>1
  <2>2. 1..4 = {1, 2, 3, 4}
    OBVIOUS
  <2>3. given = {i \in {1, 2, 3, 4} : a[Fields[i]] # ""}
    BY <2>1, <2>2
  <2> HIDE DEF given
  <2>4. /\ a[Fields[1]] = a.package /\ a[Fields[2]] = a.extension
        /\ a[Fields[3]] = a.skill /\ a[Fields[4]] = a.tool
    BY <1>1
  <2> QED
    BY <2>3, <2>4
<1>3. Key(a) = <<a.type, IF given = {} THEN a.desired ELSE a[Fields[Min(given)]]>>
  BY DEF Key
<1> HIDE DEF given
<1>4. given \in SUBSET Int
  <2>1. {1, 2, 3, 4} \subseteq Int
    OBVIOUS
  <2>2. given \subseteq {1, 2, 3, 4}
    BY <1>2
  <2> QED
    BY <2>1, <2>2
<1>5. CASE a.package # ""
  <2>1. 1 \in given /\ \A j \in given : j \in {1, 2, 3, 4}
    BY <1>2, <1>5
  <2>2. Min(given) = 1
    BY <1>4, <2>1, Least
  <2> QED
    BY <1>1, <1>3, <1>5, <2>1, <2>2 DEF Name
<1>6. CASE a.package = "" /\ a.extension # ""
  <2>1. 2 \in given /\ \A j \in given : j \in {2, 3, 4}
    BY <1>2, <1>6
  <2>2. Min(given) = 2
    BY <1>4, <2>1, Least
  <2> QED
    BY <1>1, <1>3, <1>6, <2>1, <2>2 DEF Name
<1>7. CASE a.package = "" /\ a.extension = "" /\ a.skill # ""
  <2>1. 3 \in given /\ \A j \in given : j \in {3, 4}
    BY <1>2, <1>7
  <2>2. Min(given) = 3
    BY <1>4, <2>1, Least
  <2> QED
    BY <1>1, <1>3, <1>7, <2>1, <2>2 DEF Name
<1>8. CASE a.package = "" /\ a.extension = "" /\ a.skill = "" /\ a.tool # ""
  <2>1. 4 \in given /\ \A j \in given : j \in {4}
    BY <1>2, <1>8
  <2>2. Min(given) = 4
    BY <1>4, <2>1, Least
  <2> QED
    BY <1>1, <1>3, <1>8, <2>1, <2>2 DEF Name
<1>9. CASE a.package = "" /\ a.extension = "" /\ a.skill = "" /\ a.tool = ""
  <2>1. given = {}
    BY <1>2, <1>9
  <2> QED
    BY <1>3, <1>9, <2>1 DEF Name
<1> QED
  BY <1>5, <1>6, <1>7, <1>8, <1>9

(* A request keeps its key when one of the same key adds fields to it. *)
LEMMA MergedKey ==
    ASSUME NEW old \in AskType, NEW new \in AskType, Key(old) = Key(new)
    PROVE  Merged(old, new) \in AskType /\ Key(Merged(old, new)) = Key(old)
<1> DEFINE m == Merged(old, new)
<1>1. /\ m \in AskType /\ m.type = new.type /\ m.desired = new.desired
      /\ m.package   = IF old.package # "" THEN old.package ELSE new.package
      /\ m.extension = IF old.extension # "" THEN old.extension ELSE new.extension
      /\ m.skill     = IF old.skill # "" THEN old.skill ELSE new.skill
      /\ m.tool      = IF old.tool # "" THEN old.tool ELSE new.tool
  BY DEF Merged, AskType
<1> HIDE DEF m
<1>2. old.type = new.type /\ Name(old) = Name(new)
  BY KeyNames
<1>3. Name(m) = Name(old)
  BY <1>1, <1>2 DEF Name
<1> QED
  BY <1>1, <1>2, <1>3, KeyNames DEF m

(* The requests are a sequence of records. *)
LEMMA RequestTypes ==
    ASSUME RequestsOK
    PROVE  /\ requests \in Seq(Request) /\ DOMAIN requests = 1..Len(requests)
           /\ Len(requests) \in Nat
           /\ \A k \in DOMAIN requests : requests[k] \in Request /\ requests[k].ask \in AskType
<1>1. requests \in Seq(Request)
  BY DEF RequestsOK
<1>2. /\ DOMAIN requests = 1..Len(requests) /\ Len(requests) \in Nat
      /\ \A k \in DOMAIN requests : requests[k] \in Request
  BY <1>1
<1>3. \A q \in Request : q.ask \in AskType
  BY DEF Request
<1> QED
  BY <1>1, <1>2, <1>3

(* Changing records one by one leaves a sequence of them. *)
LEMMA Remapped ==
    ASSUME NEW S, NEW s \in Seq(S), NEW t, t = [k \in DOMAIN s |-> t[k]],
           \A k \in DOMAIN s : t[k] \in S
    PROVE  t \in Seq(S) /\ DOMAIN t = DOMAIN s
BY SeqDef

(* No request is asked for anew: answers, and refreshes. *)
LEMMA RequestsAnswered ==
    ASSUME RequestsOK, TypeOK', requests' \in Seq(Request),
           DOMAIN requests' = DOMAIN requests,
           \A k \in DOMAIN requests : /\ requests'[k].ask = requests[k].ask
                                      /\ Pending(k)' => Pending(k)
    PROVE  RequestsOK'
BY DEF RequestsOK, OneRequestPerNeed

-----------------------------------------------------------------------------
(* The session                                                             *)

Refresh == [pc : {"idle", "scan", "read", "skills", "swap", "store"},
            seen : SUBSET Dirs, bundle : Runtime, alone : BOOLEAN]

(* The types of the session, unfolded. *)
LEMMA SessionTypes ==
    ASSUME TypeOK
    PROVE  /\ StoreTypeOK /\ host \in {"terminal", "server"} /\ conf \in Confs
           /\ live \in Runtime /\ pinned \in BOOLEAN /\ mixed \in BOOLEAN
           /\ refr \in [Refreshers -> Refresh]
           /\ \A r \in Refreshers : refr[r] \in Refresh /\ refr[r].bundle \in Runtime
           /\ left \in [requests : Nat, refreshes : Nat, edits : Nat]
           /\ left.requests \in Nat /\ left.refreshes \in Nat /\ left.edits \in Nat
           /\ conf.ext \in BOOLEAN /\ conf.flag \in BOOLEAN
BY DEF TypeOK, Refresh, Confs

(* The types again, for the primed state. *)
LEMMA TypesFolded ==
    ASSUME StoreTypeOK', host' \in {"terminal", "server"}, conf' \in Confs,
           live' \in Runtime, pinned' \in BOOLEAN, mixed' \in BOOLEAN,
           refr' \in [Refreshers -> Refresh],
           left' \in [requests : Nat, refreshes : Nat, edits : Nat],
           requests' \in Seq(Request)
    PROVE  TypeOK'
<1>1. \A k \in DOMAIN requests' : requests'[k].status \in Statuses
  <2>1. \A k \in DOMAIN requests' : requests'[k] \in Request
    OBVIOUS
  <2> QED
    BY <2>1 DEF Request
<1> QED
  BY <1>1 DEF TypeOK, Refresh

(* What is found on disk, and what it is worth, are of their types. *)
LEMMA FoundTypes ==
    ASSUME StoreTypeOK
    PROVE  /\ None \in Specs /\ NoRuntime \in Runtime
           /\ \A s \in SUBSET Dirs : Discovered(s) \in Specs
           /\ \A s \in Specs : RootOf(s) \in Dirs \cup {"none"}
           /\ \A r \in Dirs \cup {"none"}, f \in BOOLEAN : SkillAt(r, f) \in Skills
           /\ \A f \in BOOLEAN : SkillAt("none", f) = "missing"
<1>1. None \in Specs /\ NoRuntime \in Runtime
  BY StoreAssumption DEF None, Specs, NoRuntime, Runtime, Releases, Skills
<1>2. \A d \in Dirs : Found(d) \in Specs
  BY StoreTypes DEF Found, Specs, Parts
<1>3. \A s \in SUBSET Dirs : Discovered(s) \in Specs
  BY <1>1, <1>2 DEF Discovered, Dirs
<1>4. \A s \in Specs : RootOf(s) \in Dirs \cup {"none"}
  BY DEF RootOf, Specs, None
<1>5. \A r \in Dirs \cup {"none"}, f \in BOOLEAN : SkillAt(r, f) \in Skills
  BY DEF SkillAt, Skills
<1>6. \A f \in BOOLEAN : SkillAt("none", f) = "missing"
  BY DEF SkillAt
<1> QED
  BY <1>1, <1>3, <1>4, <1>5, <1>6

(* While the disk is the same, so is what is found on it. *)
LEMMA DiskSame ==
    ASSUME dirs' = dirs
    PROVE  /\ \A e : Fresh(e)' = Fresh(e)
           /\ \A s : RootOf(s)' = RootOf(s) /\ Discovered(s)' = Discovered(s)
           /\ \A r, f : SkillAt(r, f)' = SkillAt(r, f)
           /\ \A d, p : Has(d, p)' = Has(d, p)
BY DEF Fresh, RootOf, SkillAt, Has, Discovered, Found

(* A refresh that does not step is not disturbed while the disk is the same. *)
LEMMA BundleSame ==
    ASSUME NEW r \in Refreshers, BundleOK(r), dirs' = dirs,
           refr'[r].pc = refr[r].pc, refr'[r].seen = refr[r].seen,
           refr'[r].bundle = refr[r].bundle
    PROVE  BundleOK(r)'
BY DiskSame DEF BundleOK

(* Steps that no refresh sees: the runtime changes in a quiet terminal only. *)
LEMMA RefreshSame ==
    ASSUME RefreshOK, UNCHANGED <<host, dirs, inst, refr, mixed>>,
           live' = live \/ (Quiet /\ live'.touched = live.touched)
    PROVE  RefreshOK'
<1>1. \A r \in Refreshers : BundleOK(r)'
  BY BundleSame DEF RefreshOK
<1>2. \A r \in Refreshers : refr[r].pc = "store" => live' = live
  BY DEF Quiet
<1>3. (host = "terminal" /\ inst[Own].pc # "idle" => Quiet)'
  BY DEF RefreshOK, Quiet
<1>4. (host = "terminal" /\ inst[Own].pc = "discover" => live.touched)'
  BY DEF RefreshOK
<1> QED
  BY <1>1, <1>2, <1>3, <1>4 DEF RefreshOK

(* Steps that leave the runtime and the disk alone. *)
LEMMA LiveSame ==
    ASSUME LiveOK, UNCHANGED <<host, dirs, live, refr, mixed>>, Answered => Answered'
    PROVE  LiveOK'
BY DiskSame DEF LiveOK, Current, Quiet

(* The store's part of the invariant. *)
LEMMA StoreSame == ASSUME StoreOK, UNCHANGED storeVars PROVE StoreOK'
<1>1. \A i \in Installers : Expected(i)' <=> Expected(i)
  BY DEF Expected, Left, Has, storeVars
<1> QED
  BY <1>1 DEF StoreOK, storeVars, StoreTypeOK, DiskOK, CrossedOK, ProgressOK,
              InstallsAreWhole, InstallRecovers, TargetIsWhole

-----------------------------------------------------------------------------
(* Steps that no refresh makes                                             *)

(* The tool request_capability: the need has a request afterwards, one.    *)
LEMMA AskInv == ASSUME Inv, NEW a \in Asks, AskFor(a), UNCHANGED storeVars PROVE Inv'
<1>1. a \in AskType
  BY CapabilitiesAssumption DEF AskType
<1>2. /\ requests \in Seq(Request) /\ DOMAIN requests = 1..Len(requests)
      /\ Len(requests) \in Nat
      /\ \A k \in DOMAIN requests : requests[k] \in Request /\ requests[k].ask \in AskType
  BY RequestTypes DEF Inv
<1>3. \A j, k \in DOMAIN requests :
        Pending(j) /\ Pending(k) /\ Key(requests[j].ask) = Key(requests[k].ask) => j = k
  BY DEF Inv, RequestsOK, OneRequestPerNeed
<1>4. UNCHANGED <<host, conf, live, pinned, refr, mixed>>
  BY DEF AskFor
<1>5. /\ requests' \in Seq(Request) /\ left' \in [requests : Nat, refreshes : Nat, edits : Nat]
      /\ \A j, k \in DOMAIN requests' :
           (Pending(j) /\ Pending(k) /\ Key(requests[j].ask) = Key(requests[k].ask))' => j = k
      /\ \A k \in DOMAIN requests' : requests'[k].settled =>
           k \in DOMAIN requests /\ requests'[k] = requests[k]
  <2>1. CASE SameNeed(a) # {}
    <3> DEFINE k == CHOOSE x \in SameNeed(a) : \A y \in SameNeed(a) : x <= y
    <3>1. k \in SameNeed(a)
      <4>1. PICK x \in SameNeed(a) : TRUE
        BY <2>1
      <4>2. \A y \in SameNeed(a) : y = x
        BY <1>3 DEF SameNeed
      <4>3. x <= x
        BY <1>2 DEF SameNeed
      <4>4. \E z \in SameNeed(a) : \A y \in SameNeed(a) : z <= y
        BY <4>1, <4>2, <4>3
      <4> QED
        BY <4>4
    <3>2. /\ requests' = [requests EXCEPT ![k].ask = Merged(@, a), ![k].settled = FALSE]
          /\ left' = left
      BY <2>1 DEF AskFor
    <3> HIDE DEF k
    <3>3. k \in DOMAIN requests /\ Pending(k) /\ Key(requests[k].ask) = Key(a)
      BY <3>1 DEF SameNeed
    <3>4. /\ Merged(requests[k].ask, a) \in AskType
          /\ Key(Merged(requests[k].ask, a)) = Key(requests[k].ask)
      BY <1>1, <1>2, <3>3, MergedKey
    <3> DEFINE q == [requests[k] EXCEPT !.ask = Merged(requests[k].ask, a), !.settled = FALSE]
    <3>5. /\ q \in Request /\ q.ask = Merged(requests[k].ask, a)
          /\ q.status = requests[k].status /\ q.settled = FALSE
      BY <1>2, <3>3, <3>4 DEF Request
    <3>6. requests' = [requests EXCEPT ![k] = q]
      BY <3>2
    <3> HIDE DEF q
    <3>7. /\ requests' \in Seq(Request) /\ DOMAIN requests' = DOMAIN requests
          /\ requests'[k] = q /\ \A j \in DOMAIN requests : j # k => requests'[j] = requests[j]
      BY <1>2, <3>3, <3>5, <3>6
    <3>8. \A j \in DOMAIN requests : /\ Key(requests'[j].ask) = Key(requests[j].ask)
                                     /\ requests'[j].status = requests[j].status
      BY <3>4, <3>5, <3>7
    <3>9. left' \in [requests : Nat, refreshes : Nat, edits : Nat]
      BY <3>2, SessionTypes DEF Inv
    <3>10. \A j \in DOMAIN requests : Pending(j)' <=> Pending(j)
      BY <3>8 DEF Pending
    <3>11. \A i \in DOMAIN requests' : requests'[i].settled =>
             i \in DOMAIN requests /\ requests'[i] = requests[i]
      BY <3>5, <3>7
    <3> QED
      BY <1>3, <3>7, <3>8, <3>9, <3>10, <3>11
  <2>2. CASE SameNeed(a) = {}
    <3> DEFINE q == [ask |-> a, status |-> "pending", settled |-> FALSE]
    <3>1. /\ requests' = Append(requests, q) /\ left.requests > 0
          /\ left' = [left EXCEPT !.requests = @ - 1]
      BY <2>2 DEF AskFor
    <3>2. q \in Request /\ q.ask = a /\ q.settled = FALSE
      BY <1>1 DEF Request, Statuses
    <3> HIDE DEF q
    <3>3. /\ requests' \in Seq(Request) /\ DOMAIN requests' = 1..(Len(requests) + 1)
          /\ requests'[Len(requests) + 1] = q
          /\ \A j \in DOMAIN requests : requests'[j] = requests[j]
      BY <1>2, <3>1, <3>2
    <3>4. left' \in [requests : Nat, refreshes : Nat, edits : Nat]
      BY <3>1, SessionTypes DEF Inv
    <3>5. \A j \in DOMAIN requests : Pending(j) => Key(requests[j].ask) # Key(a)
      BY <2>2 DEF SameNeed
    <3>6. \A j \in DOMAIN requests' : j \in DOMAIN requests \/ j = Len(requests) + 1
      BY <1>2, <3>3
    <3>7. \A j \in DOMAIN requests : Pending(j)' <=> Pending(j)
      BY <3>3 DEF Pending
    <3>8. ASSUME NEW j \in DOMAIN requests', NEW k \in DOMAIN requests',
                 (Pending(j) /\ Pending(k) /\ Key(requests[j].ask) = Key(requests[k].ask))'
          PROVE  j = k
      <4>1. CASE j \in DOMAIN requests /\ k \in DOMAIN requests
        BY <1>3, <3>3, <3>7, <3>8, <4>1
      <4>2. CASE j \in DOMAIN requests /\ k = Len(requests) + 1
        BY <3>2, <3>3, <3>5, <3>7, <3>8, <4>2
      <4>3. CASE k \in DOMAIN requests /\ j = Len(requests) + 1
        BY <3>2, <3>3, <3>5, <3>7, <3>8, <4>3
      <4> QED
        BY <3>6, <4>1, <4>2, <4>3
    <3>9. \A i \in DOMAIN requests' : requests'[i].settled =>
            i \in DOMAIN requests /\ requests'[i] = requests[i]
      BY <3>2, <3>3, <3>6
    <3> QED
      BY <3>3, <3>4, <3>8, <3>9
  <2> QED
    BY <2>1, <2>2
<1>6. TypeOK'
  <2>1. StoreTypeOK'
    BY SessionTypes DEF Inv, storeVars, StoreTypeOK
  <2> QED
    BY <1>4, <1>5, <2>1, SessionTypes, TypesFolded DEF Inv
<1>7. RequestsOK'
  BY <1>5, <1>6 DEF RequestsOK, OneRequestPerNeed
<1>8. StoreOK' /\ RefreshOK'
  BY <1>4, StoreSame, RefreshSame DEF Inv, storeVars
<1>9. LiveOK'
  <2>1. Answered => Answered'
    <3>1. ASSUME Answered, NEW k \in DOMAIN requests', Pending(k)', requests'[k].settled
          PROVE  ~Satisfied(requests'[k].ask, live')
      <4>1. k \in DOMAIN requests /\ requests'[k] = requests[k]
        BY <1>5, <3>1
      <4>2. Pending(k) /\ ~Satisfied(requests[k].ask, live)
        BY <3>1, <4>1 DEF Answered, Pending
      <4> QED
        BY <1>4, <4>1, <4>2 DEF Satisfied
    <3> QED
      BY <3>1 DEF Answered
  <2> QED
    BY <1>4, <2>1, LiveSame DEF Inv, storeVars
<1> QED
  BY <1>4, <1>6, <1>7, <1>8, <1>9 DEF Inv, PinOK

(* A request is dismissed or resolved, whatever its status is. *)
LEMMA AnswerInv ==
    ASSUME Inv, NEW k \in DOMAIN requests, NEW s \in {"dismissed", "resolved"}, Answer(k, s),
           UNCHANGED storeVars
    PROVE  Inv'
<1>1. /\ requests \in Seq(Request) /\ DOMAIN requests = 1..Len(requests)
      /\ \A j \in DOMAIN requests : requests[j] \in Request
  BY RequestTypes DEF Inv
<1>2. UNCHANGED <<host, conf, live, pinned, refr, left, mixed>>
      /\ requests' = [requests EXCEPT ![k].status = s]
  BY DEF Answer
<1> DEFINE q == [requests[k] EXCEPT !.status = s]
<1>3. q \in Request /\ q.ask = requests[k].ask /\ q.status = s
  BY <1>1 DEF Request, Statuses
<1>4. requests' = [requests EXCEPT ![k] = q]
  BY <1>2
<1> HIDE DEF q
<1>5. /\ requests' \in Seq(Request) /\ DOMAIN requests' = DOMAIN requests
      /\ requests'[k] = q /\ \A j \in DOMAIN requests : j # k => requests'[j] = requests[j]
  BY <1>1, <1>3, <1>4
<1>6. \A j \in DOMAIN requests : /\ requests'[j].ask = requests[j].ask
                                 /\ Pending(j)' => requests'[j] = requests[j]
  BY <1>3, <1>5 DEF Pending
<1>7. TypeOK'
  <2>1. StoreTypeOK'
    BY SessionTypes DEF Inv, storeVars, StoreTypeOK
  <2> QED
    BY <1>2, <1>5, <2>1, SessionTypes, TypesFolded DEF Inv
<1>8. RequestsOK'
  <2>1. \A j \in DOMAIN requests : Pending(j)' => Pending(j)
    BY <1>6 DEF Pending
  <2> QED
    BY <1>5, <1>6, <1>7, <2>1, RequestsAnswered DEF Inv
<1>9. StoreOK' /\ RefreshOK'
  BY <1>2, StoreSame, RefreshSame DEF Inv, storeVars
<1>10. LiveOK'
  <2>1. Answered => Answered'
    <3>1. ASSUME Answered, NEW j \in DOMAIN requests', Pending(j)', requests'[j].settled
          PROVE  ~Satisfied(requests[j].ask, live)'
      <4>1. requests'[j] = requests[j] /\ j \in DOMAIN requests
        BY <1>5, <1>6, <3>1
      <4>2. ~Satisfied(requests[j].ask, live)
        BY <3>1, <4>1 DEF Answered, Pending
      <4> QED
        BY <1>2, <4>1, <4>2 DEF Satisfied
    <3> QED
      BY <3>1 DEF Answered
  <2> QED
    BY <1>2, <2>1, LiveSame DEF Inv, storeVars
<1> QED
  BY <1>2, <1>7, <1>8, <1>9, <1>10 DEF Inv, PinOK

(* Steps that change neither the runtime nor the requests nor a refresh: a *)
(* skill is pinned or not, the configuration is edited, the catalog grows. *)
LEMMA AsideInv ==
    ASSUME Inv, StoreOK', UNCHANGED <<host, live, requests, refr, mixed, dirs, inst>>,
           conf' \in Confs, left' \in [requests : Nat, refreshes : Nat, edits : Nat],
           pinned' \in BOOLEAN, pinned' => live.skill = "eligible"
    PROVE  Inv'
<1>1. requests \in Seq(Request)
  BY DEF Inv, RequestsOK
<1>2. TypeOK'
  BY <1>1, SessionTypes, TypesFolded DEF Inv, StoreOK
<1>3. RequestsOK'
  BY <1>1, <1>2, RequestsAnswered DEF Inv, Pending
<1>4. RefreshOK'
  BY RefreshSame DEF Inv
<1>5. LiveOK'
  <2>1. Answered => Answered'
    BY DEF Answered, Pending, Satisfied
  <2> QED
    BY <2>1, LiveSame DEF Inv
<1> QED
  BY <1>2, <1>3, <1>4, <1>5 DEF Inv, PinOK

(* /skill use, /skill clear, and an edit of config.yaml. *)
LEMMA PinInv == ASSUME Inv, Pin \/ Unpin \/ Edit, UNCHANGED storeVars PROVE Inv'
<1>1. StoreOK'
  BY StoreSame DEF Inv
<1>2. UNCHANGED <<host, live, requests, refr, mixed, dirs, inst>>
  BY DEF Pin, Unpin, Edit, storeVars
<1>3. pinned' \in BOOLEAN /\ (pinned' => live.skill = "eligible")
  <2>1. CASE Pin
    BY <2>1 DEF Pin
  <2>2. CASE Unpin
    BY <2>2 DEF Unpin
  <2>3. CASE Edit
    <3>1. pinned' = pinned
      BY <2>3 DEF Edit
    <3> QED
      BY <3>1, SessionTypes DEF Inv, PinOK
  <2> QED
    BY <2>1, <2>2, <2>3
<1>4. conf' \in Confs
  BY SessionTypes DEF Pin, Unpin, Edit, Inv
<1>5. left' \in [requests : Nat, refreshes : Nat, edits : Nat]
  <2>1. CASE left' = left
    BY <2>1, SessionTypes DEF Inv
  <2>2. CASE left.edits > 0 /\ left' = [left EXCEPT !.edits = @ - 1]
    BY <2>2, SessionTypes DEF Inv
  <2> QED
    BY <2>1, <2>2 DEF Pin, Unpin, Edit
<1> QED
  BY <1>1, <1>2, <1>3, <1>4, <1>5, AsideInv

(* The curator publishes a release: the store's types hold, and the disk   *)
(* is the same.                                                            *)
LEMMA PublishInv == ASSUME Inv, Publish, UNCHANGED sessionVars PROVE Inv'
<1>1. release' \in 1..MaxRelease /\ UNCHANGED <<dirs, inst, torn>>
  BY StoreTypes DEF Publish, Inv, StoreOK
<1>2. StoreOK'
  <2>1. \A i \in Installers : Expected(i)' <=> Expected(i)
    BY <1>1 DEF Expected, Left, Has
  <2> QED
    BY <1>1, <2>1 DEF Inv, StoreOK, StoreTypeOK, DiskOK, CrossedOK, ProgressOK,
                      InstallsAreWhole, InstallRecovers, TargetIsWhole
<1> QED
  BY <1>1, <1>2, AsideInv, SessionTypes DEF Inv, PinOK, sessionVars

(* A command of the terminal changed the runtime: no request is settled.   *)
LEMMA UnsettledInv ==
    ASSUME Inv, host = "terminal", Quiet, UNCHANGED <<storeVars, host, conf, refr, left, mixed>>,
           requests' = Unsettled, live' \in Runtime, live'.touched = live.touched,
           pinned' \in BOOLEAN, PinOK',
           ~live.touched /\ Current(live) => Current(live')
    PROVE  Inv'
<1>1. /\ requests \in Seq(Request)
      /\ \A k \in DOMAIN requests : requests[k] \in Request
  BY RequestTypes DEF Inv
<1>2. \A k \in DOMAIN requests : /\ requests'[k] \in Request
                                 /\ requests'[k].ask = requests[k].ask
                                 /\ requests'[k].status = requests[k].status
                                 /\ requests'[k].settled = FALSE
  BY <1>1 DEF Unsettled, Request
<1>3. requests' \in Seq(Request) /\ DOMAIN requests' = DOMAIN requests
  <2>1. requests' = [k \in DOMAIN requests |-> requests'[k]]
    BY DEF Unsettled
  <2> QED
    BY <1>1, <1>2, <2>1, Remapped
<1>4. StoreOK'
  BY StoreSame DEF Inv
<1>5. TypeOK'
  BY <1>3, <1>4, SessionTypes, TypesFolded DEF Inv, StoreOK
<1>6. RequestsOK'
  BY <1>2, <1>3, <1>5, RequestsAnswered DEF Inv, Pending
<1>7. RefreshOK'
  BY RefreshSame DEF Inv, storeVars
<1>8. LiveOK'
  <2>1. Answered'
    BY <1>2, <1>3 DEF Answered
  <2>2. Current(live') => Current(live)'
    BY DiskSame DEF Current, storeVars
  <2> QED
    BY <2>1, <2>2 DEF LiveOK, Inv, Quiet
<1> QED
  BY <1>4, <1>5, <1>6, <1>7, <1>8 DEF Inv

(* /skill reload. *)
LEMMA SkillReloadInv == ASSUME Inv, SkillReload, UNCHANGED storeVars PROVE Inv'
<1> DEFINE s == SkillAt(live.root, live.flag)
<1>1. /\ host = "terminal" /\ Quiet /\ UNCHANGED <<storeVars, host, conf, refr, left, mixed>>
      /\ live' = [live EXCEPT !.skill = s] /\ pinned' = Pruned(s) /\ requests' = Unsettled
  BY DEF SkillReload
<1>2. s \in Skills
  BY SessionTypes, FoundTypes DEF Inv, Runtime
<1>3. /\ live' \in Runtime /\ live'.touched = live.touched /\ live'.skill = s
      /\ live'.known = live.known /\ live'.tools = live.tools /\ live'.root = live.root
      /\ live'.ext = live.ext /\ live'.flag = live.flag
  BY <1>1, <1>2, SessionTypes DEF Inv, Runtime
<1>4. pinned' \in BOOLEAN /\ PinOK'
  BY <1>1, <1>3, SessionTypes DEF Inv, PinOK, Pruned
<1>5. Current(live) => Current(live')
  BY <1>3 DEF Current
<1> QED
  BY <1>1, <1>3, <1>4, <1>5, UnsettledInv

(* A change of mode. *)
LEMMA SwitchInv == ASSUME Inv, SwitchMode, UNCHANGED storeVars PROVE Inv'
<1>1. /\ host = "terminal" /\ Quiet
      /\ UNCHANGED <<storeVars, host, conf, refr, left, mixed>> /\ pinned' = pinned
      /\ live' = [live EXCEPT !.tools = live.known] /\ requests' = Unsettled
  BY DEF SwitchMode
<1>2. /\ live' \in Runtime /\ live'.touched = live.touched /\ live'.skill = live.skill
      /\ live'.known = live.known /\ live'.tools = live.known /\ live'.root = live.root
      /\ live'.ext = live.ext /\ live'.flag = live.flag
  BY <1>1, SessionTypes DEF Inv, Runtime
<1>3. pinned' \in BOOLEAN /\ PinOK'
  BY <1>1, <1>2, SessionTypes DEF Inv, PinOK
<1>4. Current(live) => Current(live')
  BY <1>2 DEF Current
<1> QED
  BY <1>1, <1>2, <1>3, <1>4, UnsettledInv

-----------------------------------------------------------------------------
(* Steps of a refresh                                                      *)

(* config_loader: the refresh is alone if no other is under way. *)
LEMMA RefreshBeginInv ==
    ASSUME Inv, NEW r \in Refreshers, RefreshBegin(r), UNCHANGED storeVars PROVE Inv'
<1> DEFINE n == [refr[r] EXCEPT !.pc = "scan", !.alone = Quiet,
                   !.bundle = [NoRuntime EXCEPT !.ext = conf.ext, !.flag = conf.flag]]
<1>1. /\ refr[r].pc = "idle" /\ left.refreshes > 0
      /\ host = "terminal" => Quiet /\ inst[Own].pc = "idle"
      /\ refr' = [x \in Refreshers |-> IF x = r THEN n ELSE [refr[x] EXCEPT !.alone = FALSE]]
      /\ mixed' = (mixed \/ ~Quiet) /\ left' = [left EXCEPT !.refreshes = @ - 1]
      /\ UNCHANGED <<host, conf, live, pinned, requests>>
  BY DEF RefreshBegin
<1>2. n \in Refresh /\ n.pc = "scan" /\ n.alone = Quiet
  <2>1. [NoRuntime EXCEPT !.ext = conf.ext, !.flag = conf.flag] \in Runtime
    BY SessionTypes, FoundTypes DEF Inv, Runtime
  <2>2. Quiet \in BOOLEAN /\ refr[r] \in Refresh
    BY SessionTypes DEF Quiet, Inv
  <2> QED
    BY <2>1, <2>2 DEF Refresh
<1> HIDE DEF n
<1>3. /\ refr' \in [Refreshers -> Refresh] /\ refr'[r] = n
      /\ \A x \in Refreshers : x # r =>
           /\ refr'[x].pc = refr[x].pc /\ refr'[x].seen = refr[x].seen
           /\ refr'[x].bundle = refr[x].bundle /\ refr'[x].alone = FALSE
  <2>1. \A x \in Refreshers : refr[x] \in Refresh
    BY SessionTypes DEF Inv
  <2>2. \A x \in Refreshers : [refr[x] EXCEPT !.alone = FALSE] \in Refresh
    BY <2>1 DEF Refresh
  <2> QED
    BY <1>1, <1>2, <2>1, <2>2 DEF Refresh
<1>4. StoreOK'
  BY StoreSame DEF Inv
<1>5. TypeOK'
  <2>1. left' \in [requests : Nat, refreshes : Nat, edits : Nat] /\ mixed' \in BOOLEAN
    BY <1>1, SessionTypes DEF Inv
  <2> QED
    BY <1>1, <1>3, <1>4, <2>1, RequestTypes, SessionTypes, TypesFolded DEF Inv, StoreOK
<1>6. RequestsOK'
  BY <1>1, <1>5, RequestTypes, RequestsAnswered DEF Inv, Pending
<1>7. RefreshOK'
  <2>1. ASSUME NEW x \in Refreshers PROVE BundleOK(x)'
    <3>1. CASE x = r
      BY <1>2, <1>3, <3>1 DEF BundleOK
    <3>2. CASE x # r
      BY <1>3, <3>2, BundleSame DEF Inv, RefreshOK, storeVars
    <3> QED
      BY <3>1, <3>2
  <2>2. Quiet => \A x \in Refreshers : x # r => refr'[x].pc = "idle"
    BY <1>3 DEF Quiet
  <2>3. ASSUME NEW x \in Refreshers, refr'[x].pc # "idle", ~mixed' PROVE refr'[x].alone
    BY <1>1, <1>2, <1>3, <2>2, <2>3
  <2>4. ASSUME NEW x \in Refreshers, NEW y \in Refreshers, x # y, refr'[x].alone
        PROVE  refr'[y].pc = "idle"
    BY <1>2, <1>3, <2>2, <2>4
  <2>5. \A x \in Refreshers : refr'[x].alone => refr'[x].pc # "store"
    BY <1>2, <1>3
  <2>6. (host = "terminal" => inst[Own].pc = "idle")'
    BY <1>1 DEF storeVars
  <2> QED
    BY <2>1, <2>3, <2>4, <2>5, <2>6 DEF RefreshOK
<1>8. LiveOK'
  BY <1>2, <1>3 DEF LiveOK, Quiet
<1> QED
  BY <1>1, <1>4, <1>5, <1>6, <1>7, <1>8 DEF Inv, PinOK

(* A step on the way: it is right about the disk, and the session is not   *)
(* quiet before and after it.                                              *)
LEMMA OnTheWay ==
    ASSUME Inv, NEW r \in Refreshers, NEW n \in Refresh, refr' = [refr EXCEPT ![r] = n],
           refr[r].pc # "idle", n.pc # "idle", n.alone = refr[r].alone, BundleOK(r)',
           UNCHANGED <<storeVars, host, conf, requests, left, mixed>>,
           live' \in Runtime, pinned' \in BOOLEAN, PinOK',
           live' = live \/ n.pc = "store",
           n.pc = "store" => live' = [n.bundle EXCEPT !.known = live'.known]
    PROVE  Inv'
<1>1. /\ refr' \in [Refreshers -> Refresh] /\ refr'[r] = n
      /\ \A x \in Refreshers : x # r => refr'[x] = refr[x]
  BY SessionTypes DEF Inv
<1>2. StoreOK'
  BY StoreSame DEF Inv
<1>3. TypeOK'
  BY <1>1, <1>2, RequestTypes, SessionTypes, TypesFolded DEF Inv, StoreOK
<1>4. RequestsOK'
  BY <1>3, RequestTypes, RequestsAnswered DEF Inv, Pending
<1>5. RefreshOK'
  <2>1. ASSUME NEW x \in Refreshers PROVE BundleOK(x)'
    BY <1>1, BundleSame DEF Inv, RefreshOK, storeVars
  <2>2. \A x \in Refreshers : /\ refr'[x].pc # "idle" <=> refr[x].pc # "idle"
                              /\ refr'[x].alone = refr[x].alone
    BY <1>1
  <2>3. \A x, y \in Refreshers : x # y /\ refr[x].pc # "idle" /\ refr[x].alone => refr[y].pc = "idle"
    BY DEF Inv, RefreshOK
  <2>4. ASSUME NEW x \in Refreshers, refr'[x].pc = "store", refr'[x].alone
        PROVE  live' = [refr'[x].bundle EXCEPT !.known = live'.known]
    <3>1. x = r
      BY <2>2, <2>3, <2>4
    <3> QED
      BY <1>1, <2>4, <3>1
  <2>5. host = "terminal" => inst[Own].pc = "idle"
    BY DEF Inv, RefreshOK, Quiet
  <2>6. (host = "terminal" => inst[Own].pc = "idle")'
    BY <2>5 DEF storeVars
  <2>7. \A x \in Refreshers : refr[x].pc # "idle" /\ ~mixed => refr[x].alone
    BY DEF Inv, RefreshOK
  <2> QED
    BY <2>1, <2>2, <2>3, <2>4, <2>6, <2>7 DEF RefreshOK
<1>6. LiveOK'
  BY <1>1 DEF LiveOK, Quiet
<1> QED
  BY <1>2, <1>3, <1>4, <1>5, <1>6 DEF Inv

(* The manifests of the root are listed. *)
LEMMA RefreshScanInv ==
    ASSUME Inv, NEW r \in Refreshers, RefreshScan(r), UNCHANGED storeVars PROVE Inv'
<1> DEFINE b == refr[r].bundle
           found == IF b.ext THEN {d \in Dirs : Has(d, "manifest")} ELSE {}
           n == [refr[r] EXCEPT !.pc = "read", !.seen = found,
                                !.bundle = [b EXCEPT !.touched = FALSE]]
<1>1. /\ refr[r].pc = "scan" /\ refr' = [refr EXCEPT ![r] = n]
      /\ UNCHANGED <<host, conf, live, pinned, requests, left, mixed>>
  <2>1. refr' = [refr EXCEPT ![r].pc = "read", ![r].seen = found,
                             ![r].bundle.touched = FALSE]
    BY DEF RefreshScan
  <2>2. refr' = [refr EXCEPT ![r] = n]
    BY <2>1
  <2> QED
    BY <2>2 DEF RefreshScan
<1>2. refr[r] \in Refresh /\ b \in Runtime
  BY SessionTypes DEF Inv
<1>3. found \subseteq Dirs
  OBVIOUS
<1>4. [b EXCEPT !.touched = FALSE] \in Runtime /\ [b EXCEPT !.touched = FALSE].ext = b.ext
  BY <1>2 DEF Runtime
<1>5. /\ n \in Refresh /\ n.pc = "read" /\ n.alone = refr[r].alone
      /\ n.seen = found /\ n.bundle.ext = b.ext
  BY <1>2, <1>3, <1>4 DEF Refresh
<1>6. refr'[r] = n
  BY <1>1, SessionTypes DEF Inv
<1> HIDE DEF n
<1>7. BundleOK(r)'
  <2>1. {d \in Dirs : Has(d, "manifest")}' = {d \in Dirs : Has(d, "manifest")}
    BY DEF Has, storeVars
  <2> QED
    BY <1>5, <1>6, <2>1 DEF BundleOK
<1> QED
  BY <1>1, <1>5, <1>6, <1>7, OnTheWay, SessionTypes DEF Inv, PinOK

(* They are read. *)
LEMMA RefreshReadInv ==
    ASSUME Inv, NEW r \in Refreshers, RefreshRead(r), UNCHANGED storeVars PROVE Inv'
<1> DEFINE b == refr[r].bundle
           s == Discovered(refr[r].seen)
           c == [b EXCEPT !.known = s, !.tools = s, !.root = RootOf(s)]
           n == [refr[r] EXCEPT !.pc = "skills", !.bundle = c]
<1>1. /\ refr[r].pc = "read" /\ refr' = [refr EXCEPT ![r] = n]
      /\ UNCHANGED <<host, conf, live, pinned, requests, left, mixed>>
  <2>1. s = Discovered(refr[r].seen) /\
        RootOf(s) = IF s = None THEN "none" ELSE IF Has(s.dir, "rest") THEN s.dir ELSE "none"
    BY DEF RootOf
  <2> HIDE DEF s
  <2>2. refr' = [refr EXCEPT ![r].pc = "skills", ![r].bundle.known = s,
                             ![r].bundle.tools = s, ![r].bundle.root = RootOf(s)]
    BY <2>1 DEF RefreshRead
  <2>3. refr' = [refr EXCEPT ![r] = n]
    BY <2>2
  <2> QED
    BY <2>3 DEF RefreshRead
<1>2. refr[r] \in Refresh /\ b \in Runtime /\ refr[r].seen \in SUBSET Dirs
  BY SessionTypes DEF Inv, Refresh
<1>3. s \in Specs /\ RootOf(s) \in Dirs \cup {"none"}
  BY <1>2, FoundTypes DEF Inv, TypeOK
<1>4. ~b.touched => s = Fresh(b.ext)
  <2>1. ASSUME ~b.touched
        PROVE  refr[r].seen = IF b.ext THEN {d \in Dirs : Has(d, "manifest")} ELSE {}
    BY <1>1, <2>1 DEF Inv, RefreshOK, BundleOK
  <2>2. Discovered({d \in Dirs : Has(d, "manifest")}) = Discovered(Dirs)
    BY DEF Discovered
  <2>3. Discovered({}) = None
    BY DEF Discovered
  <2> QED
    BY <2>1, <2>2, <2>3 DEF Fresh
<1> HIDE DEF s
<1>5. /\ c \in Runtime /\ c.ext = b.ext /\ c.touched = b.touched
      /\ c.known = s /\ c.tools = s /\ c.root = RootOf(s)
  BY <1>2, <1>3 DEF Runtime
<1> HIDE DEF c
<1>6. /\ n \in Refresh /\ n.pc = "skills" /\ n.alone = refr[r].alone /\ n.bundle = c
  BY <1>2, <1>5 DEF Refresh
<1>7. refr'[r] = n
  BY <1>1, SessionTypes DEF Inv
<1> HIDE DEF n
<1>8. BundleOK(r)'
  BY <1>4, <1>5, <1>6, <1>7, DiskSame DEF BundleOK, storeVars
<1> QED
  BY <1>1, <1>6, <1>7, <1>8, OnTheWay, SessionTypes DEF Inv, PinOK

(* The skills are discovered. *)
LEMMA RefreshSkillsInv ==
    ASSUME Inv, NEW r \in Refreshers, RefreshSkills(r), UNCHANGED storeVars PROVE Inv'
<1> DEFINE b == refr[r].bundle
           c == [b EXCEPT !.skill = SkillAt(b.root, b.flag)]
           n == [refr[r] EXCEPT !.pc = "swap", !.bundle = c]
<1>1. /\ refr[r].pc = "skills" /\ refr' = [refr EXCEPT ![r] = n]
      /\ UNCHANGED <<host, conf, live, pinned, requests, left, mixed>>
  BY DEF RefreshSkills
<1>2. refr[r] \in Refresh /\ b \in Runtime
  BY SessionTypes DEF Inv
<1>3. SkillAt(b.root, b.flag) \in Skills
  BY <1>2, FoundTypes DEF Inv, TypeOK, Runtime
<1>4. /\ c \in Runtime /\ c.ext = b.ext /\ c.touched = b.touched /\ c.flag = b.flag
      /\ c.known = b.known /\ c.tools = b.tools /\ c.root = b.root
      /\ c.skill = SkillAt(b.root, b.flag)
  BY <1>2, <1>3 DEF Runtime
<1> HIDE DEF c
<1>5. /\ n \in Refresh /\ n.pc = "swap" /\ n.alone = refr[r].alone /\ n.bundle = c
  BY <1>2, <1>4 DEF Refresh
<1>6. refr'[r] = n
  BY <1>1, SessionTypes DEF Inv
<1> HIDE DEF n
<1>7. /\ b.known = b.tools
      /\ ~b.touched => b.known = Fresh(b.ext) /\ b.root = RootOf(b.known)
  BY <1>1 DEF Inv, RefreshOK, BundleOK
<1>8. BundleOK(r)'
  BY <1>4, <1>5, <1>6, <1>7, DiskSame DEF BundleOK, storeVars
<1> QED
  BY <1>1, <1>5, <1>6, <1>8, OnTheWay, SessionTypes DEF Inv, PinOK

(* The agent gets the new managers and tools. *)
LEMMA RefreshSwapInv ==
    ASSUME Inv, NEW r \in Refreshers, RefreshSwap(r), UNCHANGED storeVars PROVE Inv'
<1> DEFINE b == refr[r].bundle
           n == [refr[r] EXCEPT !.pc = "store"]
<1>1. /\ refr[r].pc = "swap" /\ refr' = [refr EXCEPT ![r] = n]
      /\ pinned' = Pruned(b.skill) /\ live' = [b EXCEPT !.known = live.known]
      /\ UNCHANGED <<host, conf, requests, left, mixed>>
  BY DEF RefreshSwap
<1>2. refr[r] \in Refresh /\ b \in Runtime /\ live \in Runtime
  BY SessionTypes DEF Inv
<1>3. /\ live' \in Runtime /\ live'.skill = b.skill /\ live'.known = live.known
  BY <1>1, <1>2 DEF Runtime
<1>4. /\ n \in Refresh /\ n.pc = "store" /\ n.alone = refr[r].alone /\ n.bundle = b
  BY <1>2 DEF Refresh
<1>5. refr'[r] = n
  BY <1>1, SessionTypes DEF Inv
<1> HIDE DEF n
<1>6. BundleOK(r)'
  <2>1. BundleOK(r)
    BY DEF Inv, RefreshOK
  <2> QED
    BY <1>1, <1>4, <1>5, <2>1, DiskSame DEF BundleOK, storeVars
<1>7. pinned' \in BOOLEAN /\ PinOK'
  BY <1>1, <1>3, SessionTypes DEF Inv, PinOK, Pruned
<1>8. live' = [n.bundle EXCEPT !.known = live'.known]
  BY <1>1, <1>3, <1>4
<1> QED
  BY <1>1, <1>3, <1>4, <1>6, <1>7, <1>8, OnTheWay

(* The requests it satisfies are resolved, and it is over. *)
LEMMA RefreshStoreInv == ASSUME Inv, NEW r \in Refreshers, RefreshStore(r) PROVE Inv'
<1> DEFINE b == refr[r].bundle
           n == [pc |-> "idle", seen |-> {}, bundle |-> NoRuntime, alone |-> TRUE]
<1>1. /\ refr[r].pc = "store" /\ refr' = [refr EXCEPT ![r] = n]
      /\ requests' = AutoResolved(b) /\ live' = [live EXCEPT !.known = b.known]
      /\ mixed' = (mixed /\ ~refr[r].alone)
      /\ UNCHANGED <<host, conf, pinned, left, release, dirs, torn>>
  BY DEF RefreshStore
<1>2. inst' = inst \/ inst' = [inst EXCEPT ![Own].read = FALSE, ![Own].cache = 0]
  BY DEF RefreshStore
<1>3. StoreOK'
  BY <1>1, <1>2, RenewStore, CapabilitiesAssumption DEF Inv
<1>4. /\ refr' \in [Refreshers -> Refresh] /\ refr'[r].pc = "idle"
      /\ \A x \in Refreshers : x # r => refr'[x] = refr[x]
  <2>1. n \in Refresh
    BY FoundTypes DEF Inv, TypeOK, Refresh
  <2> QED
    BY <1>1, <2>1, SessionTypes DEF Inv
<1>5. refr[r] \in Refresh /\ b \in Runtime /\ live \in Runtime
  BY SessionTypes DEF Inv
<1>6. /\ live' \in Runtime /\ live'.known = b.known /\ live'.tools = live.tools
      /\ live'.root = live.root /\ live'.skill = live.skill /\ live'.ext = live.ext
      /\ live'.flag = live.flag /\ live'.touched = live.touched
  BY <1>1, <1>5 DEF Runtime
<1>7. /\ requests \in Seq(Request) /\ \A k \in DOMAIN requests : requests[k] \in Request
  BY RequestTypes DEF Inv
<1>8. ASSUME NEW k \in DOMAIN requests
      PROVE  /\ requests'[k] \in Request /\ requests'[k].ask = requests[k].ask
             /\ Pending(k)' => Pending(k) /\ ~Satisfied(requests[k].ask, b)
  <2>1. CASE Pending(k) /\ Satisfied(requests[k].ask, b)
    <3>1. requests'[k] = [requests[k] EXCEPT !.status = "resolved"]
      BY <1>1, <2>1 DEF AutoResolved
    <3> QED
      BY <1>7, <3>1 DEF Request, Statuses, Pending
  <2>2. CASE ~(Pending(k) /\ Satisfied(requests[k].ask, b))
    <3>1. requests'[k] = [requests[k] EXCEPT !.settled = TRUE]
      BY <1>1, <2>2 DEF AutoResolved
    <3>2. /\ requests'[k] \in Request /\ requests'[k].ask = requests[k].ask
          /\ requests'[k].status = requests[k].status
      BY <1>7, <3>1 DEF Request
    <3> QED
      BY <2>2, <3>2 DEF Pending
  <2> QED
    BY <2>1, <2>2
<1>9. requests' \in Seq(Request) /\ DOMAIN requests' = DOMAIN requests
  <2>1. requests' = [k \in DOMAIN requests |-> requests'[k]]
    BY <1>1 DEF AutoResolved
  <2> QED
    BY <1>7, <1>8, <2>1, Remapped
<1>10. TypeOK'
  <2>1. mixed' \in BOOLEAN
    BY <1>1, SessionTypes DEF Inv
  <2> QED
    BY <1>1, <1>3, <1>4, <1>6, <1>9, <2>1, SessionTypes, TypesFolded DEF Inv, StoreOK
<1>11. RequestsOK'
  BY <1>8, <1>9, <1>10, RequestsAnswered DEF Inv
<1>12. \A x \in Refreshers : x # r /\ refr[x].pc # "idle" => ~refr[x].alone /\ ~refr[r].alone
  BY <1>1 DEF Inv, RefreshOK
<1>13. ~mixed => refr[r].alone
  BY <1>1 DEF Inv, RefreshOK
<1>14. RefreshOK'
  <2>1. ASSUME NEW x \in Refreshers PROVE BundleOK(x)'
    <3>1. CASE x = r
      BY <1>4, <3>1 DEF BundleOK
    <3>2. CASE x # r
      BY <1>1, <1>4, <3>2, BundleSame DEF Inv, RefreshOK
    <3> QED
      BY <3>1, <3>2
  <2>2. \A x, y \in Refreshers :
          x # y /\ refr'[x].pc # "idle" /\ refr'[x].alone => refr'[y].pc = "idle"
    BY <1>4, <1>12
  <2>3. ASSUME NEW x \in Refreshers, refr'[x].pc # "idle", ~mixed' PROVE refr'[x].alone
    BY <1>1, <1>4, <1>12, <1>13, <2>3
  <2>4. \A x \in Refreshers : ~(refr'[x].pc = "store" /\ refr'[x].alone)
    BY <1>4, <1>12
  <2>5. host = "terminal" => inst[Own].pc = "idle"
    BY <1>1 DEF Inv, RefreshOK, Quiet
  <2>6. (host = "terminal" => inst[Own].pc = "idle")'
    <3>1. inst'[Own].pc = inst[Own].pc
      BY <1>2, CapabilitiesAssumption, StoreTypes DEF Inv, StoreOK, InstType
    <3> QED
      BY <1>1, <2>5, <3>1
  <2> QED
    BY <2>1, <2>2, <2>3, <2>4, <2>6 DEF RefreshOK
<1>15. ASSUME ~mixed'
       PROVE  /\ live'.known = live'.tools /\ (~live'.touched => Current(live)') /\ Answered'
  <2>1. refr[r].alone
    BY <1>1, <1>13, <1>15
  <2>2. live = [b EXCEPT !.known = live.known]
    BY <1>1, <2>1 DEF Inv, RefreshOK
  <2>3. /\ live.tools = b.tools /\ live.root = b.root /\ live.skill = b.skill
        /\ live.ext = b.ext /\ live.flag = b.flag /\ live.touched = b.touched
    BY <1>5, <2>2 DEF Runtime
  <2>4. BundleOK(r)
    BY DEF Inv, RefreshOK
  <2>5. /\ b.known = b.tools
        /\ ~b.touched => /\ b.known = Fresh(b.ext) /\ b.root = RootOf(b.known)
                         /\ b.skill = SkillAt(b.root, b.flag)
    BY <1>1, <2>4 DEF BundleOK
  <2>6. ~live'.touched => Current(live)'
    BY <1>1, <1>6, <2>3, <2>5, DiskSame DEF Current
  <2>7. Answered'
    <3>1. ASSUME NEW k \in DOMAIN requests', Pending(k)'
          PROVE  ~Satisfied(requests[k].ask, live)'
      <4>1. requests'[k].ask = requests[k].ask /\ ~Satisfied(requests[k].ask, b)
        BY <1>8, <1>9, <3>1
      <4> QED
        BY <1>6, <2>3, <4>1 DEF Satisfied
    <3> QED
      BY <3>1 DEF Answered
  <2> QED
    BY <1>6, <2>3, <2>5, <2>6, <2>7
<1>16. LiveOK'
  BY <1>15 DEF LiveOK
<1>17. PinOK'
  BY <1>1, <1>6 DEF Inv, PinOK
<1> QED
  BY <1>3, <1>10, <1>11, <1>14, <1>16, <1>17 DEF Inv

-----------------------------------------------------------------------------
(* Installs, seen from the session                                         *)

(* An installer moves itself only, and looks for what it installed after   *)
(* it has changed the disk.                                                *)
LEMMA InstallMoves ==
    ASSUME StoreOK, NEW i \in Installers, InstallStep(i)
    PROVE  /\ \A j \in Installers : j # i => inst'[j].pc = inst[j].pc
           /\ inst'[i].pc = "discover" => dirs' # dirs
<1> USE DEF StoreOK
<1> DEFINE Others == \A j \in Installers : j # i => inst'[j].pc = inst[j].pc
           After  == inst'[i].pc = "discover" => dirs' # dirs
<1>1. \A how \in {"ok", "refused", "failed"} : End(i, how) => Others /\ inst'[i].pc = "idle"
  BY Ended
<1>2. \A p : Go(i, p) => Others /\ inst'[i].pc = p
  BY StoreTypes DEF Go, InstType
<1>3. \A n : inst' = [inst EXCEPT ![i] = n] => Others /\ inst'[i] = n
  BY StoreTypes
<1> HIDE DEF Others
<1>4. CASE Begin(i)
  <2>1. PICK now \in {0, release} :
          LET l == Listed(i, now)
              c == [l EXCEPT !.left = @ - 1, !.crossed = FALSE, !.end = "none"]
          IN inst' = [inst EXCEPT ![i] =
                        IF l.cache = 0 THEN [c EXCEPT !.end = "refused"]
                        ELSE [c EXCEPT !.pc = "fetch", !.want = l.cache]]
    BY <1>4 DEF Begin
  <2> DEFINE l == Listed(i, now)
             c == [l EXCEPT !.left = @ - 1, !.crossed = FALSE, !.end = "none"]
             n == IF l.cache = 0 THEN [c EXCEPT !.end = "refused"]
                  ELSE [c EXCEPT !.pc = "fetch", !.want = l.cache]
  <2>2. n.pc # "discover"
    BY <1>4, StoreTypes DEF Begin, Listed, InstType
  <2> HIDE DEF n
  <2>3. inst' = [inst EXCEPT ![i] = n]
    BY <2>1 DEF n
  <2> QED
    BY <1>3, <2>2, <2>3 DEF Others
<1>5. CASE Fetch(i)
  BY <1>1, <1>2, <1>5 DEF Fetch, Others
<1>6. CASE Stage(i)
  <2> DEFINE n == IF dirs["staged"].there
                  THEN [inst[i] EXCEPT !.pc = "unstage", !.todo = Left("staged")]
                  ELSE [inst[i] EXCEPT !.pc = "make"]
             others == {j \in Installers \ {i} : inst[j].pc \in Writing}
             late   == {j \in Installers \ {i} : inst[j].pc = "discover"}
  <2>1. n \in InstType /\ n.pc \in {"unstage", "make"}
    <3>1. inst[i] \in InstType /\ Left("staged") \in SUBSET Parts
      BY StoreTypes DEF Left
    <3>2. CASE dirs["staged"].there
      BY <3>1, <3>2 DEF InstType
    <3>3. CASE ~dirs["staged"].there
      BY <3>1, <3>3 DEF InstType
    <3> QED
      BY <3>2, <3>3
  <2> HIDE DEF n
  <2>2. inst' = [j \in Installers |->
                   IF j = i THEN [n EXCEPT !.crossed = @ \/ others # {}]
                   ELSE [inst[j] EXCEPT !.crossed = @ \/ j \in others \cup late]]
    BY <1>6 DEF Stage, Crossing, n
  <2> HIDE DEF others, late
  <2>3. \A j \in Installers : inst[j] \in InstType
    BY StoreTypes
  <2>4. inst'[i].pc = n.pc
    BY <2>1, <2>2 DEF InstType
  <2>5. ASSUME NEW j \in Installers, j # i PROVE inst'[j].pc = inst[j].pc
    <3>1. inst'[j] = [inst[j] EXCEPT !.crossed = @ \/ j \in others \cup late]
      BY <2>2, <2>5
    <3> QED
      BY <2>3, <3>1 DEF InstType
  <2> QED
    BY <2>1, <2>4, <2>5
<1>7. CASE Unstage(i)
  <2>1. CASE Go(i, "make")
    BY <1>2, <2>1 DEF Others
  <2>2. CASE \E p \in inst[i].todo : inst' = [inst EXCEPT ![i].todo = @ \ {p}]
    <3>1. PICK p \in inst[i].todo :
            inst' = [inst EXCEPT ![i] = [inst[i] EXCEPT !.todo = @ \ {p}]]
      BY <2>2
    <3>2. [inst[i] EXCEPT !.todo = @ \ {p}].pc = "unstage"
      BY <1>7, StoreTypes DEF Unstage, InstType
    <3> QED
      BY <1>3, <3>1, <3>2 DEF Others
  <2> QED
    BY <1>7, <2>1, <2>2 DEF Unstage
<1>8. CASE Make(i)
  <2>1. CASE End(i, "failed")
    BY <1>1, <2>1 DEF Others
  <2>2. CASE inst' = [inst EXCEPT ![i].pc = "copy", ![i].todo = Parts]
    <3>1. inst' = [inst EXCEPT ![i] = [inst[i] EXCEPT !.pc = "copy", !.todo = Parts]]
      BY <2>2
    <3>2. [inst[i] EXCEPT !.pc = "copy", !.todo = Parts].pc = "copy"
      BY StoreTypes DEF InstType
    <3> QED
      BY <1>3, <3>1, <3>2 DEF Others
  <2> QED
    BY <1>8, <2>1, <2>2 DEF Make
<1>9. CASE Copy(i)
  <2>1. CASE End(i, "failed")
    BY <1>1, <2>1 DEF Others
  <2>2. CASE Go(i, "check")
    BY <1>2, <2>2 DEF Others
  <2>3. CASE \E p \in inst[i].todo :
               inst' = [inst EXCEPT ![i].todo = @ \ {p}, ![i].bad = @ \/ ~dirs["staged"].there]
    <3>1. PICK p \in inst[i].todo :
            inst' = [inst EXCEPT ![i] = [inst[i] EXCEPT !.todo = @ \ {p},
                                                        !.bad = @ \/ ~dirs["staged"].there]]
      BY <2>3
    <3>2. [inst[i] EXCEPT !.todo = @ \ {p}, !.bad = @ \/ ~dirs["staged"].there].pc = "copy"
      BY <1>9, StoreTypes DEF Copy, InstType
    <3> QED
      BY <1>3, <3>1, <3>2 DEF Others
  <2> QED
    BY <1>9, <2>1, <2>2, <2>3 DEF Copy
<1>10. CASE Check(i)
  <2> DEFINE n == [inst[i] EXCEPT !.pc = IF dirs["target"].there THEN "clear" ELSE "replace",
                                  !.todo = Left("target")]
  <2>1. n.pc # "discover"
    BY StoreTypes DEF InstType
  <2>2. inst' = [inst EXCEPT ![i] = n]
    BY <1>10 DEF Check
  <2> HIDE DEF n
  <2> QED
    BY <1>3, <2>1, <2>2 DEF Others
<1>11. CASE Clear(i)
  <2>1. CASE End(i, "failed")
    BY <1>1, <2>1 DEF Others
  <2>2. CASE Go(i, "replace")
    BY <1>2, <2>2 DEF Others
  <2>3. CASE \E p \in inst[i].todo : inst' = [inst EXCEPT ![i].todo = @ \ {p}]
    <3>1. PICK p \in inst[i].todo :
            inst' = [inst EXCEPT ![i] = [inst[i] EXCEPT !.todo = @ \ {p}]]
      BY <2>3
    <3>2. [inst[i] EXCEPT !.todo = @ \ {p}].pc = "clear"
      BY <1>11, StoreTypes DEF Clear, InstType
    <3> QED
      BY <1>3, <3>1, <3>2 DEF Others
  <2> QED
    BY <1>11, <2>1, <2>2, <2>3 DEF Clear
<1>12. CASE Replace(i)
  <2>1. CASE End(i, "failed")
    BY <1>1, <2>1 DEF Others
  <2>2. CASE /\ dirs["staged"].there /\ Go(i, "discover")
             /\ dirs' = [dirs EXCEPT !["target"] = dirs["staged"], !["staged"] = NoDir]
    <3>1. dirs'["staged"] = NoDir
      BY <2>2, StoreTypes DEF Dirs
    <3>2. dirs' # dirs
      <4>1. dirs["staged"].there /\ ~dirs'["staged"].there
        BY <2>2, <3>1 DEF NoDir
      <4> QED
        BY <4>1
    <3> QED
      BY <1>2, <2>2, <3>2 DEF Others
  <2> QED
    BY <1>12, <2>1, <2>2 DEF Replace
<1>13. CASE Discover(i)
  BY <1>1, <1>13 DEF Discover, Others
<1>14. CASE Cut(i)
  <2>1. PICK keeps \in BOOLEAN :
          inst' = [inst EXCEPT ![i] =
            [inst[i] EXCEPT !.pc = "idle", !.end = "cut", !.todo = {}, !.bad = FALSE,
                            !.read = keeps, !.cache = IF keeps THEN @ ELSE 0]]
    <3>1. PICK keeps \in BOOLEAN :
            inst' = [inst EXCEPT ![i].pc = "idle", ![i].end = "cut",
                                 ![i].todo = {}, ![i].bad = FALSE,
                                 ![i].read = keeps, ![i].cache = IF keeps THEN @ ELSE 0]
      BY <1>14 DEF Cut
    <3> QED
      BY <3>1
  <2>2. [inst[i] EXCEPT !.pc = "idle", !.end = "cut", !.todo = {}, !.bad = FALSE,
                        !.read = keeps, !.cache = IF keeps THEN @ ELSE 0].pc = "idle"
    BY StoreTypes DEF InstType
  <2> QED
    BY <1>3, <2>1, <2>2 DEF Others
<1> QED
  BY <1>4, <1>5, <1>6, <1>7, <1>8, <1>9, <1>10, <1>11, <1>12, <1>13, <1>14 DEF InstallStep

(* The session sees an installer's step in what it touched, and in what    *)
(* its own manager knows after its own install.                            *)
LEMMA InstallInv == ASSUME Inv, NEW i \in Installers, Install(i) PROVE Inv'
<1> DEFINE moved == dirs' # dirs
           found == /\ i = Own /\ host = "terminal"
                    /\ inst[i].pc = "discover" /\ inst'[i].end # "cut"
<1>1. /\ host = "terminal" /\ i = Own => Quiet
      /\ InstallStep(i)
      /\ live' = [live EXCEPT !.touched = @ \/ moved,
                              !.known = IF found THEN Discovered(Dirs) ELSE @]
      /\ requests' = IF found THEN Unsettled ELSE requests
      /\ refr' = [r \in Refreshers |->
           [refr[r] EXCEPT !.bundle.touched = @ \/ (moved /\ refr[r].pc # "idle")]]
      /\ UNCHANGED <<host, conf, pinned, left, mixed>>
  BY DEF Install
<1> HIDE DEF moved, found
<1>2. StoreOK'
  BY <1>1, StoreSteps DEF Inv
<1>3. /\ \A j \in Installers : j # i => inst'[j].pc = inst[j].pc
      /\ inst'[i].pc = "discover" => moved
  BY <1>1, InstallMoves DEF Inv, moved
<1>4. live \in Runtime /\ \A r \in Refreshers : refr[r] \in Refresh /\ refr[r].bundle \in Runtime
  BY SessionTypes DEF Inv
<1>5. moved \in BOOLEAN /\ found \in BOOLEAN
  BY DEF moved, found
<1>6. /\ live' \in Runtime /\ live'.tools = live.tools /\ live'.root = live.root
      /\ live'.skill = live.skill /\ live'.ext = live.ext /\ live'.flag = live.flag
      /\ live'.touched = (live.touched \/ moved)
      /\ live'.known = IF found THEN Discovered(Dirs) ELSE live.known
  <2>1. Discovered(Dirs) \in Specs
    BY FoundTypes DEF Inv, TypeOK
  <2> QED
    BY <1>1, <1>4, <1>5, <2>1 DEF Runtime
<1>7. ASSUME NEW r \in Refreshers
      PROVE  /\ refr'[r] \in Refresh /\ refr'[r].pc = refr[r].pc
             /\ refr'[r].alone = refr[r].alone /\ refr'[r].seen = refr[r].seen
             /\ refr'[r].bundle = [refr[r].bundle EXCEPT
                                     !.touched = @ \/ (moved /\ refr[r].pc # "idle")]
  <2> DEFINE b == [refr[r].bundle EXCEPT !.touched = @ \/ (moved /\ refr[r].pc # "idle")]
  <2>1. b \in Runtime
    BY <1>4, <1>5 DEF Runtime
  <2>2. refr'[r] = [refr[r] EXCEPT !.bundle = b]
    BY <1>1
  <2> HIDE DEF b
  <2>3. /\ refr'[r] \in Refresh /\ refr'[r].pc = refr[r].pc
        /\ refr'[r].alone = refr[r].alone /\ refr'[r].seen = refr[r].seen
        /\ refr'[r].bundle = b
    BY <1>4, <2>1, <2>2 DEF Refresh
  <2> QED
    BY <2>3 DEF b
<1>8. refr' \in [Refreshers -> Refresh]
  BY <1>1, <1>7
<1>9. /\ requests \in Seq(Request) /\ \A k \in DOMAIN requests : requests[k] \in Request
  BY RequestTypes DEF Inv
<1>10. ASSUME NEW k \in DOMAIN requests
       PROVE  /\ requests'[k] \in Request /\ requests'[k].ask = requests[k].ask
              /\ requests'[k].status = requests[k].status
              /\ requests'[k].settled => requests[k].settled /\ ~found
  <2>1. CASE found
    <3>1. requests'[k] = [requests[k] EXCEPT !.settled = FALSE]
      BY <1>1, <2>1 DEF Unsettled
    <3> QED
      BY <1>9, <3>1 DEF Request
  <2>2. CASE ~found
    BY <1>1, <1>9, <2>2
  <2> QED
    BY <2>1, <2>2
<1>11. requests' \in Seq(Request) /\ DOMAIN requests' = DOMAIN requests
  <2>1. CASE found
    <3>1. requests' = [k \in DOMAIN requests |-> requests'[k]]
      BY <1>1, <2>1 DEF Unsettled
    <3> QED
      BY <1>9, <1>10, <3>1, Remapped
  <2>2. CASE ~found
    BY <1>1, <1>9, <2>2
  <2> QED
    BY <2>1, <2>2
<1>12. TypeOK'
  BY <1>1, <1>2, <1>6, <1>8, <1>11, SessionTypes, TypesFolded DEF Inv, StoreOK
<1>13. RequestsOK'
  BY <1>10, <1>11, <1>12, RequestsAnswered DEF Inv, Pending
<1>14. ASSUME NEW r \in Refreshers PROVE BundleOK(r)'
  <2>1. BundleOK(r)
    BY DEF Inv, RefreshOK
  <2>2. CASE refr[r].pc = "idle"
    BY <1>7, <2>2 DEF BundleOK
  <2>3. CASE refr[r].pc # "idle" /\ moved
    <3>1. /\ refr'[r].bundle.touched
          /\ refr'[r].bundle.known = refr[r].bundle.known
          /\ refr'[r].bundle.tools = refr[r].bundle.tools
      BY <1>4, <1>7, <2>3 DEF Runtime
    <3> QED
      BY <1>7, <2>1, <3>1 DEF BundleOK
  <2>4. CASE ~moved
    <3>1. refr'[r].bundle = refr[r].bundle
      <4>1. (refr[r].bundle.touched \/ (moved /\ refr[r].pc # "idle")) = refr[r].bundle.touched
        BY <1>4, <2>4 DEF Runtime
      <4> QED
        BY <1>4, <1>7, <4>1 DEF Runtime
    <3> QED
      BY <1>7, <2>1, <2>4, <3>1, BundleSame DEF moved
  <2> QED
    BY <2>2, <2>3, <2>4
<1>15. host = "terminal" /\ inst[Own].pc # "idle" => Quiet
  BY DEF Inv, RefreshOK
<1>16. RefreshOK'
  <2>1. \A x, y \in Refreshers :
          x # y /\ refr'[x].pc # "idle" /\ refr'[x].alone => refr'[y].pc = "idle"
    BY <1>7 DEF Inv, RefreshOK
  <2>2. ASSUME NEW x \in Refreshers, refr'[x].pc # "idle", ~mixed' PROVE refr'[x].alone
    <3>1. refr[x].pc # "idle" /\ ~mixed
      BY <1>1, <1>7, <2>2
    <3>2. refr[x].alone
      BY <3>1 DEF Inv, RefreshOK
    <3> QED
      BY <1>7, <3>2
  <2>3. ASSUME NEW x \in Refreshers, refr'[x].pc = "store", refr'[x].alone
        PROVE  live' = [refr'[x].bundle EXCEPT !.known = live'.known]
    <3>1. refr[x].pc = "store" /\ live = [refr[x].bundle EXCEPT !.known = live.known]
      BY <1>7, <2>3 DEF Inv, RefreshOK
    <3>2. refr'[x].bundle = [refr[x].bundle EXCEPT !.touched = @ \/ moved]
      BY <1>7, <3>1
    <3>3. ~found
      BY <1>15, <3>1 DEF found, Quiet
    <3>4. live' = [live EXCEPT !.touched = @ \/ moved]
      BY <1>1, <1>4, <3>3 DEF Runtime
    <3> QED
      BY <1>4, <3>1, <3>2, <3>4 DEF Runtime
  <2>4. (host = "terminal" /\ inst[Own].pc # "idle" => Quiet)'
    <3>1. Quiet => Quiet'
      BY <1>7 DEF Quiet
    <3> QED
      BY <1>1, <1>3, <1>15, <3>1, CapabilitiesAssumption
  <2>5. (host = "terminal" /\ inst[Own].pc = "discover" => live.touched)'
    <3>1. host = "terminal" /\ inst[Own].pc = "discover" => live.touched
      BY DEF Inv, RefreshOK
    <3> QED
      BY <1>1, <1>3, <1>6, <3>1, CapabilitiesAssumption
  <2> QED
    BY <1>14, <2>1, <2>2, <2>3, <2>4, <2>5 DEF RefreshOK
<1>17. LiveOK'
  <2>1. ASSUME Quiet', ~mixed' PROVE Quiet /\ ~mixed
    BY <1>1, <1>7, <2>1 DEF Quiet
  <2>2. ASSUME Quiet, ~mixed, host' = "server" PROVE live'.known = live'.tools
    BY <1>1, <1>6, <2>2 DEF Inv, LiveOK, found
  <2>3. ASSUME Quiet, ~mixed, ~live'.touched PROVE Current(live)'
    <3>1. ~live.touched /\ ~moved
      BY <1>6, <2>3
    <3>2. ~found
      BY <3>1 DEF found, Inv, RefreshOK
    <3>3. Current(live)
      BY <2>3, <3>1 DEF Inv, LiveOK
    <3> QED
      BY <1>6, <3>1, <3>2, <3>3, DiskSame DEF Current, moved
  <2>4. ASSUME Quiet, ~mixed PROVE Answered'
    <3>1. ASSUME NEW k \in DOMAIN requests', Pending(k)', requests'[k].settled
          PROVE  ~Satisfied(requests[k].ask, live)'
      <4>1. /\ k \in DOMAIN requests /\ requests'[k].ask = requests[k].ask /\ Pending(k)
            /\ requests[k].settled /\ ~found
        BY <1>10, <1>11, <3>1 DEF Pending
      <4>2. ~Satisfied(requests[k].ask, live)
        BY <2>4, <4>1 DEF Inv, LiveOK, Answered
      <4> QED
        BY <1>6, <4>1, <4>2 DEF Satisfied
    <3> QED
      BY <3>1 DEF Answered
  <2> QED
    BY <2>1, <2>2, <2>3, <2>4 DEF LiveOK
<1>18. PinOK'
  BY <1>1, <1>6 DEF Inv, PinOK
<1> QED
  BY <1>2, <1>12, <1>13, <1>16, <1>17, <1>18 DEF Inv

-----------------------------------------------------------------------------
(* The theorems                                                            *)

(* A new session knows nothing, and nothing is installed. *)
LEMMA InitInv == Init => Inv
<1> SUFFICES ASSUME Init PROVE Inv
  OBVIOUS
<1>1. PICK s \in Scenarios :
        /\ StoreInit(s.installs) /\ conf = s.conf
        /\ left = [requests |-> s.requests, refreshes |-> s.refreshes, edits |-> s.edits]
  BY DEF Init
<1>2. /\ s.installs \in [Installers -> Nat] /\ conf \in Confs
      /\ left \in [requests : Nat, refreshes : Nat, edits : Nat]
  BY <1>1, CapabilitiesAssumption DEF Confs
<1>3. StoreOK
  BY <1>1, <1>2, InitStore
<1>4. /\ host \in {"terminal", "server"} /\ pinned = FALSE /\ mixed = FALSE /\ requests = <<>>
      /\ live = [NoRuntime EXCEPT !.ext = conf.ext, !.flag = conf.flag]
      /\ refr = [r \in Refreshers |->
                   [pc |-> "idle", seen |-> {}, bundle |-> NoRuntime, alone |-> TRUE]]
  BY DEF Init
<1>5. NoRuntime \in Runtime
  BY <1>3, FoundTypes DEF StoreOK
<1>6. /\ live \in Runtime /\ live.known = None /\ live.tools = None /\ live.root = "none"
      /\ live.skill = "missing" /\ live.touched = FALSE
  BY <1>2, <1>4, <1>5 DEF NoRuntime, Runtime, Confs
<1>7. refr \in [Refreshers -> Refresh] /\ Quiet /\ \A r \in Refreshers : refr[r].pc = "idle"
  BY <1>4, <1>5 DEF Refresh, Quiet
<1>8. requests \in Seq(Request) /\ DOMAIN requests = {}
  BY <1>4
<1>9. TypeOK
  BY <1>2, <1>3, <1>4, <1>6, <1>7, <1>8 DEF TypeOK, StoreOK, Refresh
<1>10. RequestsOK
  BY <1>8, <1>9 DEF RequestsOK, OneRequestPerNeed
<1>11. RefreshOK
  <2>1. inst[Own].pc = "idle"
    BY <1>1, CapabilitiesAssumption DEF StoreInit
  <2> QED
    BY <1>7, <2>1 DEF RefreshOK, BundleOK
<1>12. LiveOK
  <2>1. \A d \in Dirs : ~Has(d, "manifest")
    BY <1>1 DEF StoreInit, NoDir, Empty, Has, Parts
  <2>2. Discovered(Dirs) = None
    BY <2>1 DEF Discovered
  <2>3. Fresh(live.ext) = None /\ RootOf(None) = "none"
    BY <2>2 DEF Fresh, RootOf
  <2>4. SkillAt("none", live.flag) = "missing"
    BY DEF SkillAt
  <2> QED
    BY <1>6, <1>8, <2>3, <2>4 DEF LiveOK, Current, Answered
<1> QED
  BY <1>3, <1>4, <1>9, <1>10, <1>11, <1>12 DEF Inv, PinOK

(* Every step keeps the invariant. *)
LEMMA NextInv == Inv /\ [Next]_vars => Inv'
<1> SUFFICES ASSUME Inv, [Next]_vars PROVE Inv'
  OBVIOUS
<1>1. CASE UNCHANGED vars
  <2>1. UNCHANGED storeVars /\ UNCHANGED sessionVars
    BY <1>1 DEF vars
  <2> QED
    BY <2>1, StoreSame, AsideInv, SessionTypes DEF Inv, PinOK, storeVars, sessionVars
<1>2. CASE Publish /\ UNCHANGED sessionVars
  BY <1>2, PublishInv
<1>3. CASE \E i \in Installers : Install(i)
  BY <1>3, InstallInv
<1>4. CASE \E r \in Refreshers : RefreshStore(r)
  BY <1>4, RefreshStoreInv
<1>5. CASE UNCHANGED storeVars /\ \E a \in Asks : AskFor(a)
  BY <1>5, AskInv
<1>6. CASE UNCHANGED storeVars
           /\ \E k \in DOMAIN requests, s \in {"dismissed", "resolved"} : Answer(k, s)
  BY <1>6, AnswerInv
<1>7. CASE UNCHANGED storeVars /\ (Pin \/ Unpin \/ Edit)
  BY <1>7, PinInv
<1>8. CASE UNCHANGED storeVars /\ SkillReload
  BY <1>8, SkillReloadInv
<1>9. CASE UNCHANGED storeVars /\ SwitchMode
  BY <1>9, SwitchInv
<1>10. CASE UNCHANGED storeVars /\ \E r \in Refreshers : RefreshStep(r)
  BY <1>10, RefreshBeginInv, RefreshScanInv, RefreshReadInv, RefreshSkillsInv, RefreshSwapInv
     DEF RefreshStep
<1> QED
  BY <1>1, <1>2, <1>3, <1>4, <1>5, <1>6, <1>7, <1>8, <1>9, <1>10 DEF Next

(* The session and the extension root are always as Inv says. *)
THEOREM AlwaysInv == Spec => []Inv
BY InitInv, NextInv, PTL DEF Spec

(* Whatever was cut before, an install that nobody crosses ends well, and  *)
(* the extension's own directory holds one release, whole, unless it is    *)
(* being replaced or a cut or crossed install left it.                     *)
THEOREM InstallsStayWhole == Spec => []InstallsAreWhole
<1>1. Inv => InstallsAreWhole
  BY DEF Inv, StoreOK
<1> QED
  BY <1>1, AlwaysInv, PTL

(* However requests, answers and refreshes interleave, a need has one      *)
(* pending request, and adding fields to it keeps its key.                 *)
THEOREM NeedsAreOne == Spec => []OneRequestPerNeed
<1>1. Inv => OneRequestPerNeed
  BY DEF Inv, RequestsOK
<1> QED
  BY <1>1, AlwaysInv, PTL

(* A refresh that runs alone settles the requests, and what it made is     *)
(* what is on disk until the disk changes; a pinned skill stays usable.    *)
THEOREM RefreshesSettle == Spec => []RefreshSettles
<1>1. ASSUME Inv PROVE RefreshSettles
  <2>1. ASSUME Quiet, ~mixed
        PROVE  /\ \A k \in DOMAIN requests :
                    Pending(k) /\ requests[k].settled => ~Satisfied(requests[k].ask, live)
               /\ host = "server" => live.known = live.tools
               /\ ~live.touched => Current(live)
    BY <1>1, <2>1 DEF Inv, LiveOK, Answered
  <2>2. ASSUME Current(live) PROVE ReloadRequired = {}
    <3> DEFINE fresh == IF live.ext THEN Discovered(Dirs) ELSE None
               skill == IF fresh = None THEN "missing" ELSE SkillAt(fresh.dir, live.flag)
    <3>1. fresh = live.known
      BY <2>2 DEF Current, Fresh
    <3>2. skill = "eligible" => live.skill = "eligible"
      BY <2>2, <3>1 DEF Current, RootOf, SkillAt
    <3> QED
      BY <3>1, <3>2 DEF ReloadRequired
  <2> QED
    BY <1>1, <2>1, <2>2 DEF RefreshSettles, Inv, PinOK
<1> QED
  BY <1>1, AlwaysInv, PTL

(* An extension's command runs the release that its session discovered,    *)
(* whole, while nobody changes the disk; what a cut install left in the    *)
(* staging directory hides no installed release.                           *)
THEOREM ActiveIsFound == Spec => []ActiveFindsCode
<1>1. ASSUME Inv PROVE ActiveFindsCode
  <2>1. ASSUME Quiet, ~mixed, ~live.touched, live.tools # None, ~torn,
               \A i \in Installers : inst[i].pc # "clear"
        PROVE  IF live.tools.dir = "target"
               THEN dirs["target"].file = Bundle(live.tools.ver)
               ELSE ~Has("target", "manifest")
    <3>1. live.tools = Discovered(Dirs) /\ Discovered(Dirs) # None
      BY <1>1, <2>1 DEF Inv, LiveOK, Current, Fresh
    <3>2. CASE Has("target", "manifest")
      <4>1. live.tools = Found("target")
        BY <3>1, <3>2 DEF Discovered, Dirs
      <4>2. PICK v \in Releases : dirs["target"].file = Bundle(v)
        BY <1>1, <2>1 DEF Inv, StoreOK, InstallsAreWhole, TargetIsWhole
      <4>3. live.tools.dir = "target" /\ live.tools.ver = v
        BY <4>1, <4>2 DEF Found, Bundle, Parts
      <4> QED
        BY <4>2, <4>3
    <3>3. CASE ~Has("target", "manifest")
      <4>1. live.tools = Found("staged")
        BY <3>1, <3>3 DEF Discovered
      <4> QED
        BY <3>3, <4>1 DEF Found
    <3> QED
      BY <3>2, <3>3
  <2> QED
    BY <2>1 DEF ActiveFindsCode
<1> QED
  BY <1>1, AlwaysInv, PTL
=============================================================================
