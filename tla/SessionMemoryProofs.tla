-------------------------- MODULE SessionMemoryProofs --------------------------
(***************************************************************************)
(* Proofs about SessionMemory, for any request threads, titles, classes of *)
(* texts and number of operations: the write policies and the daily log    *)
(* hold whatever overlaps, is killed or is deleted, and as long as no      *)
(* operation overtakes another the workspace is CuratedMemory.             *)
(***************************************************************************)
EXTENDS SessionMemory, TLAPS, SequenceTheorems, FiniteSetTheorems

-----------------------------------------------------------------------------
(* The inductive invariant                                                 *)

(* The operations that rewrite the document, and those whose text a policy *)
(* judges.                                                                 *)
Writers == {"upsert", "update", "supersede", "archive", "delete", "replace", "writeback"}
Judged  == {"upsert", "update", "supersede", "replace", "daily", "writeback"}
Dos     == Writers \cup {"daily", "settings", "search", "show"}

(* The step at which an operation reads what it rewrites, the one that     *)
(* opens the file (the next one fills it), and the last that judges.       *)
ReadAt(do) == IF do = "settings" THEN 1 ELSE IF do = "replace" THEN 2
              ELSE IF do = "upsert" THEN 4 ELSE IF do = "writeback" THEN 5 ELSE 3
OpenAt(do) == IF do = "settings" THEN 2 ELSE IF do \in {"archive", "delete"} THEN 5
              ELSE IF do = "writeback" THEN 7 ELSE 6
JudgedAt(do) == IF do \in {"upsert", "daily"} THEN 2
                ELSE IF do = "writeback" THEN 3 ELSE 4

(* With operation o at its step k, an actor has yet to write, has read     *)
(* what it will write, is between the two halves of a write.               *)
Unwritten(o, k)       == o # NoOp /\ o.do \in Writers /\ k <= OpenAt(o.do) + 1
Holding(o, k)         == Unwritten(o, k) /\ k > ReadAt(o.do)
HoldingSettings(o, k) == o # NoOp /\ o.do = "settings" /\ k \in {2, 3}
Filling(o, k)         == o # NoOp /\ o.do \in Writers /\ k = OpenAt(o.do) + 1
FillingSettings(o, k) == o # NoOp /\ o.do = "settings" /\ k = 3

(* Operations. *)
Operation == [do : Dos, by : {"manual", "auto"}, n : 1..MaxOps,
              id : (1..MaxOps) \cup Titles \cup {None}, title : Titles \cup {None},
              class : Classes \cup {"unread"}]

Named(o) == /\ o.do \in {"update", "supersede", "archive"} => o.id # None
            /\ o.do \in {"upsert", "writeback"} => o.id = None
            /\ o.do \in Writers /\ o.id = None => o.title # None
            /\ o.by = "auto" <=> o.do = "writeback"

Passed(o) == /\ o.class \in Classes \ {"unsafe"}
             /\ o.by = "auto" => o.class = "plain"

(* Operation o at step k, when m operations have begun. *)
Sound(o, k, m) ==
  /\ o = NoOp => k = 1
  /\ o # NoOp => /\ o \in Operation /\ o.n <= m /\ Named(o)
                 /\ k \in DOMAIN Steps(o.do)
                 /\ o.do \in Judged /\ k > JudgedAt(o.do) => Passed(o)

OperationsOK ==
  /\ \A a \in Actors : Sound(op[a], at[a], ops)
  /\ \A a, b \in Actors : a # b /\ op[a] # NoOp /\ op[b] # NoOp => op[a].n # op[b].n

(* A list of entries that the policies let in: each with a text of its     *)
(* own, of the first m operations and not of those of N.                   *)
Tidy(s, m, N) ==
  /\ s \in Seq(EntryType)
  /\ \A i \in 1..Len(s) : /\ Policed(s[i])
                          /\ s[i].by = "auto" => s[i].class = "plain"
                          /\ s[i].text <= m
                          /\ s[i].id \in Nat => s[i].id <= m
                          /\ s[i].text \notin N /\ s[i].id \notin N
  /\ \A i, j \in 1..Len(s) : s[i].text = s[j].text => i = j

(* The operations that have yet to write. *)
Pending == {op[a].n : a \in {b \in Actors : Unwritten(op[b], at[b])}}

(* What was read is tidy and has the entry the operation names; it is      *)
(* still so, unless somebody wrote since.                                  *)
LoadedOK ==
  /\ \A a \in Actors : Holding(op[a], at[a]) =>
       /\ Tidy(loaded[a], ops, Pending) /\ ~Unknown(loaded[a], op[a])
       /\ fresh[a] /\ at[a] <= OpenAt(op[a].do) =>
            loaded[a] = doc /\ \A b \in Actors : ~Filling(op[b], at[b])
  /\ \A a \in Actors : HoldingSettings(op[a], at[a]) =>
       /\ loaded[a] \in Seq(Settings) /\ Len(loaded[a]) = 1
       /\ fresh[a] /\ at[a] = 2 => loaded[a][1] = settings

LockOK ==
  /\ \A a \in Actors : Filling(op[a], at[a]) \/ FillingSettings(op[a], at[a]) <=> lock = a
  /\ \A a \in Actors : FillingSettings(op[a], at[a]) => settings = Torn

(* The daily log and the audit log. *)
NoteType    == [n : 1..MaxOps, class : Classes \ {"unsafe"}]
Noted(d, n) == \E i \in 1..Len(d) : d[i].n = n

DailyOK ==
  /\ daily \in Seq(NoteType)
  /\ \A i \in 1..Len(daily) : daily[i].n <= ops
  /\ \A i, j \in 1..Len(daily) : daily[i].n = daily[j].n => i = j
  /\ \A a \in Actors : op[a] # NoOp /\ op[a].do = "daily" =>
       /\ at[a] <= 3 => ~Noted(daily, op[a].n)
       /\ at[a] = 4 /\ session # "deleted" => Noted(daily, op[a].n)
  /\ session # "deleted" => \A n \in audit : Noted(daily, n)

VariablesOK ==
  /\ surface \in {"terminal", "service"} /\ session \in {"active", "closed", "deleted"}
  /\ present \in BOOLEAN /\ settings \in Settings \cup {Torn}
  /\ lock \in Actors \cup {None} /\ ops \in 0..MaxOps
  /\ op \in [Actors -> Operation \cup {NoOp}] /\ at \in [Actors -> Nat]
  /\ loaded \in [Actors -> Seq(EntryType \cup Settings)]
  /\ fresh \in [Actors -> BOOLEAN] /\ trusted \in BOOLEAN

Inv == /\ VariablesOK /\ OperationsOK /\ Tidy(doc, ops, Pending)
       /\ LoadedOK /\ LockOK /\ DailyOK

-----------------------------------------------------------------------------
(* The steps of the operations                                             *)

(* A list of steps, spelt out. *)
Spelt(s, t) == /\ DOMAIN s = 1..Len(t) /\ Len(s) = Len(t)
               /\ \A i \in 1..Len(t) : s[i] = t[i]

(* Reading, judging and writing are spelt out. *)
LEMMA StepLists ==
  /\ Spelt(Steps("upsert"), <<"allow", "judge", "ensure", "read", "ensure", "open", "fill", "audit">>)
  /\ Spelt(Steps("update"), <<"allow", "ensure", "read", "judge", "ensure", "open", "fill", "audit">>)
  /\ Spelt(Steps("supersede"), <<"allow", "ensure", "read", "judge", "ensure", "open", "fill", "audit">>)
  /\ Spelt(Steps("archive"), <<"allow", "ensure", "read", "ensure", "open", "fill", "audit">>)
  /\ Spelt(Steps("delete"), <<"allow", "ensure", "read", "ensure", "open", "fill", "audit">>)
  /\ Spelt(Steps("replace"), <<"ensure", "read", "allow", "judge", "ensure", "open", "fill", "audit">>)
  /\ Spelt(Steps("daily"), <<"allow", "judge", "append", "audit">>)
  /\ Spelt(Steps("settings"), <<"settings", "openSettings", "fillSettings", "audit">>)
  /\ Spelt(Steps("search"), <<"ensure", "read", "audit">>)
  /\ Spelt(Steps("writeback"), <<"auto", "allow", "judge", "ensure", "read", "ensure", "open", "fill", "audit">>)
  /\ Spelt(Steps("show"), <<"ensure", "read">>)
<1>1. Spelt(Steps("upsert"), <<"allow", "judge", "ensure", "read", "ensure", "open", "fill", "audit">>)
  <2>1. Steps("upsert") = UpsertSteps
    BY DEF Steps
  <2>2. DOMAIN UpsertSteps = 1..8 /\ Len(UpsertSteps) = 8
    BY DEF UpsertSteps, ReadDoc, WriteDoc
  <2>3. UpsertSteps[1] = "allow" /\ UpsertSteps[2] = "judge" /\ UpsertSteps[3] = "ensure" /\ UpsertSteps[4] = "read"
        /\ UpsertSteps[5] = "ensure" /\ UpsertSteps[6] = "open" /\ UpsertSteps[7] = "fill" /\ UpsertSteps[8] = "audit"
    BY DEF UpsertSteps, ReadDoc, WriteDoc
  <2> QED
    BY <2>1, <2>2, <2>3 DEF Spelt
<1>2. Spelt(Steps("update"), <<"allow", "ensure", "read", "judge", "ensure", "open", "fill", "audit">>)
  <2>1. Steps("update") = UpdateSteps
    BY DEF Steps
  <2>2. DOMAIN UpdateSteps = 1..8 /\ Len(UpdateSteps) = 8
    BY DEF UpdateSteps, ReadDoc, WriteDoc
  <2>3. UpdateSteps[1] = "allow" /\ UpdateSteps[2] = "ensure" /\ UpdateSteps[3] = "read" /\ UpdateSteps[4] = "judge"
        /\ UpdateSteps[5] = "ensure" /\ UpdateSteps[6] = "open" /\ UpdateSteps[7] = "fill" /\ UpdateSteps[8] = "audit"
    BY DEF UpdateSteps, ReadDoc, WriteDoc
  <2> QED
    BY <2>1, <2>2, <2>3 DEF Spelt
<1>3. Spelt(Steps("supersede"), <<"allow", "ensure", "read", "judge", "ensure", "open", "fill", "audit">>)
  <2>1. Steps("supersede") = SupersedeSteps
    BY DEF Steps
  <2>2. DOMAIN SupersedeSteps = 1..8 /\ Len(SupersedeSteps) = 8
    BY DEF SupersedeSteps, ReadDoc, WriteDoc
  <2>3. SupersedeSteps[1] = "allow" /\ SupersedeSteps[2] = "ensure" /\ SupersedeSteps[3] = "read" /\ SupersedeSteps[4] = "judge"
        /\ SupersedeSteps[5] = "ensure" /\ SupersedeSteps[6] = "open" /\ SupersedeSteps[7] = "fill" /\ SupersedeSteps[8] = "audit"
    BY DEF SupersedeSteps, ReadDoc, WriteDoc
  <2> QED
    BY <2>1, <2>2, <2>3 DEF Spelt
<1>4. Spelt(Steps("archive"), <<"allow", "ensure", "read", "ensure", "open", "fill", "audit">>)
  <2>1. Steps("archive") = ArchiveSteps
    BY DEF Steps
  <2>2. DOMAIN ArchiveSteps = 1..7 /\ Len(ArchiveSteps) = 7
    BY DEF ArchiveSteps, ReadDoc, WriteDoc
  <2>3. ArchiveSteps[1] = "allow" /\ ArchiveSteps[2] = "ensure" /\ ArchiveSteps[3] = "read" /\ ArchiveSteps[4] = "ensure"
        /\ ArchiveSteps[5] = "open" /\ ArchiveSteps[6] = "fill" /\ ArchiveSteps[7] = "audit"
    BY DEF ArchiveSteps, ReadDoc, WriteDoc
  <2> QED
    BY <2>1, <2>2, <2>3 DEF Spelt
<1>5. Spelt(Steps("delete"), <<"allow", "ensure", "read", "ensure", "open", "fill", "audit">>)
  <2>1. Steps("delete") = DeleteSteps
    BY DEF Steps
  <2>2. DOMAIN DeleteSteps = 1..7 /\ Len(DeleteSteps) = 7
    BY DEF DeleteSteps, ReadDoc, WriteDoc
  <2>3. DeleteSteps[1] = "allow" /\ DeleteSteps[2] = "ensure" /\ DeleteSteps[3] = "read" /\ DeleteSteps[4] = "ensure"
        /\ DeleteSteps[5] = "open" /\ DeleteSteps[6] = "fill" /\ DeleteSteps[7] = "audit"
    BY DEF DeleteSteps, ReadDoc, WriteDoc
  <2> QED
    BY <2>1, <2>2, <2>3 DEF Spelt
<1>6. Spelt(Steps("replace"), <<"ensure", "read", "allow", "judge", "ensure", "open", "fill", "audit">>)
  <2>1. Steps("replace") = ReplaceSteps
    BY DEF Steps
  <2>2. DOMAIN ReplaceSteps = 1..8 /\ Len(ReplaceSteps) = 8
    BY DEF ReplaceSteps, ReadDoc, WriteDoc
  <2>3. ReplaceSteps[1] = "ensure" /\ ReplaceSteps[2] = "read" /\ ReplaceSteps[3] = "allow" /\ ReplaceSteps[4] = "judge"
        /\ ReplaceSteps[5] = "ensure" /\ ReplaceSteps[6] = "open" /\ ReplaceSteps[7] = "fill" /\ ReplaceSteps[8] = "audit"
    BY DEF ReplaceSteps, ReadDoc, WriteDoc
  <2> QED
    BY <2>1, <2>2, <2>3 DEF Spelt
<1>7. Spelt(Steps("daily"), <<"allow", "judge", "append", "audit">>)
  <2>1. Steps("daily") = DailySteps
    BY DEF Steps
  <2>2. DOMAIN DailySteps = 1..4 /\ Len(DailySteps) = 4
    BY DEF DailySteps
  <2>3. DailySteps[1] = "allow" /\ DailySteps[2] = "judge" /\ DailySteps[3] = "append" /\ DailySteps[4] = "audit"
    BY DEF DailySteps
  <2> QED
    BY <2>1, <2>2, <2>3 DEF Spelt
<1>8. Spelt(Steps("settings"), <<"settings", "openSettings", "fillSettings", "audit">>)
  <2>1. Steps("settings") = SettingsSteps
    BY DEF Steps
  <2>2. DOMAIN SettingsSteps = 1..4 /\ Len(SettingsSteps) = 4
    BY DEF SettingsSteps
  <2>3. SettingsSteps[1] = "settings" /\ SettingsSteps[2] = "openSettings" /\ SettingsSteps[3] = "fillSettings" /\ SettingsSteps[4] = "audit"
    BY DEF SettingsSteps
  <2> QED
    BY <2>1, <2>2, <2>3 DEF Spelt
<1>9. Spelt(Steps("search"), <<"ensure", "read", "audit">>)
  <2>1. Steps("search") = SearchSteps
    BY DEF Steps
  <2>2. DOMAIN SearchSteps = 1..3 /\ Len(SearchSteps) = 3
    BY DEF SearchSteps, ReadDoc, WriteDoc
  <2>3. SearchSteps[1] = "ensure" /\ SearchSteps[2] = "read" /\ SearchSteps[3] = "audit"
    BY DEF SearchSteps, ReadDoc, WriteDoc
  <2> QED
    BY <2>1, <2>2, <2>3 DEF Spelt
<1>10. Spelt(Steps("writeback"), <<"auto", "allow", "judge", "ensure", "read", "ensure", "open", "fill", "audit">>)
  <2>1. Steps("writeback") = WritebackSteps
    BY DEF Steps
  <2>2. DOMAIN WritebackSteps = 1..9 /\ Len(WritebackSteps) = 9
    BY DEF WritebackSteps, UpsertSteps, ReadDoc, WriteDoc
  <2>3. WritebackSteps[1] = "auto" /\ WritebackSteps[2] = "allow" /\ WritebackSteps[3] = "judge" /\ WritebackSteps[4] = "ensure"
        /\ WritebackSteps[5] = "read" /\ WritebackSteps[6] = "ensure" /\ WritebackSteps[7] = "open" /\ WritebackSteps[8] = "fill" /\ WritebackSteps[9] = "audit"
    BY DEF WritebackSteps, UpsertSteps, ReadDoc, WriteDoc
  <2> QED
    BY <2>1, <2>2, <2>3 DEF Spelt
<1>11. Spelt(Steps("show"), <<"ensure", "read">>)
  <2>1. Steps("show") = ShowSteps
    BY DEF Steps
  <2>2. DOMAIN ShowSteps = 1..2 /\ Len(ShowSteps) = 2
    BY DEF ShowSteps, ReadDoc, WriteDoc
  <2>3. ShowSteps[1] = "ensure" /\ ShowSteps[2] = "read"
    BY DEF ShowSteps, ReadDoc, WriteDoc
  <2> QED
    BY <2>1, <2>2, <2>3 DEF Spelt
<1> QED
  BY <1>1, <1>2, <1>3, <1>4, <1>5, <1>6, <1>7, <1>8, <1>9, <1>10, <1>11

(* Where an operation is, by its number, when it is at a step. *)
Located(do, k, step) ==
  /\ step = "read" => do \in Writers \cup {"search", "show"} /\ (do = "show" => k = Len(Steps(do)))
  /\ do \in Writers => (step = "read" <=> k = ReadAt(do))
  /\ step = "open" <=> do \in Writers /\ k = OpenAt(do)
  /\ step = "fill" <=> do \in Writers /\ k = OpenAt(do) + 1
  /\ step = "append" <=> do = "daily" /\ k = 3
  /\ step = "settings" <=> do = "settings" /\ k = 1
  /\ step = "openSettings" <=> do = "settings" /\ k = 2
  /\ step = "fillSettings" <=> do = "settings" /\ k = 3
  /\ step = "audit" => k = Len(Steps(do)) /\ (do \in Writers => k > OpenAt(do) + 1)
                       /\ (do = "daily" => k = 4)
  /\ step = "auto" => do = "writeback" /\ k = 1
  /\ step = "judge" => do \in Judged /\ k = JudgedAt(do)
  /\ do \in Judged /\ k = JudgedAt(do) => step = "judge"
  /\ step \in {"auto", "allow", "judge", "ensure"} =>
       /\ k # Len(Steps(do)) /\ do # "settings"
       /\ do \in Writers => k < OpenAt(do)
       /\ do = "daily" => k < 3
  /\ step # "audit" => (k = Len(Steps(do)) <=> do = "show" /\ k = 2)

(* The places are in order, and each list of steps is as they say. *)
LEMMA Places ==
  /\ \A do \in Writers : /\ ReadAt(do) \in Nat /\ OpenAt(do) \in Nat
                         /\ ReadAt(do) < OpenAt(do)
                         /\ Len(Steps(do)) = OpenAt(do) + 2
  /\ \A do \in Writers : do \in Judged => JudgedAt(do) < OpenAt(do)
  /\ \A do \in Judged : JudgedAt(do) \in Nat
  /\ \A do \in Dos : /\ Len(Steps(do)) \in Nat /\ DOMAIN Steps(do) = 1..Len(Steps(do))
                     /\ \A k \in DOMAIN Steps(do) : Located(do, k, Steps(do)[k])
<1>1. ASSUME NEW k \in DOMAIN Steps("upsert") PROVE Located("upsert", k, Steps("upsert")[k])
  <2>1. k \in 1..8 /\ Len(Steps("upsert")) = 8
    BY StepLists DEF Spelt
  <2>2. "upsert" \in Writers /\ "upsert" \in Judged
        /\ ReadAt("upsert") = 4
        /\ OpenAt("upsert") = 6
        /\ JudgedAt("upsert") = 2
    BY DEF Writers, Judged, ReadAt, OpenAt, JudgedAt
  <2>3. CASE k = 1
    <3>1. Steps("upsert")[1] = "allow"
      BY StepLists DEF Spelt
    <3>2. Located("upsert", 1, "allow")
      BY <2>1, <2>2 DEF Located
    <3> QED
      BY <2>3, <3>1, <3>2
  <2>4. CASE k = 2
    <3>1. Steps("upsert")[2] = "judge"
      BY StepLists DEF Spelt
    <3>2. Located("upsert", 2, "judge")
      BY <2>1, <2>2 DEF Located
    <3> QED
      BY <2>4, <3>1, <3>2
  <2>5. CASE k = 3
    <3>1. Steps("upsert")[3] = "ensure"
      BY StepLists DEF Spelt
    <3>2. Located("upsert", 3, "ensure")
      BY <2>1, <2>2 DEF Located
    <3> QED
      BY <2>5, <3>1, <3>2
  <2>6. CASE k = 4
    <3>1. Steps("upsert")[4] = "read"
      BY StepLists DEF Spelt
    <3>2. Located("upsert", 4, "read")
      BY <2>1, <2>2 DEF Located
    <3> QED
      BY <2>6, <3>1, <3>2
  <2>7. CASE k = 5
    <3>1. Steps("upsert")[5] = "ensure"
      BY StepLists DEF Spelt
    <3>2. Located("upsert", 5, "ensure")
      BY <2>1, <2>2 DEF Located
    <3> QED
      BY <2>7, <3>1, <3>2
  <2>8. CASE k = 6
    <3>1. Steps("upsert")[6] = "open"
      BY StepLists DEF Spelt
    <3>2. Located("upsert", 6, "open")
      BY <2>1, <2>2 DEF Located
    <3> QED
      BY <2>8, <3>1, <3>2
  <2>9. CASE k = 7
    <3>1. Steps("upsert")[7] = "fill"
      BY StepLists DEF Spelt
    <3>2. Located("upsert", 7, "fill")
      BY <2>1, <2>2 DEF Located
    <3> QED
      BY <2>9, <3>1, <3>2
  <2>10. CASE k = 8
    <3>1. Steps("upsert")[8] = "audit"
      BY StepLists DEF Spelt
    <3>2. Located("upsert", 8, "audit")
      BY <2>1, <2>2 DEF Located
    <3> QED
      BY <2>10, <3>1, <3>2
  <2> QED
    BY <2>1, <2>3, <2>4, <2>5, <2>6, <2>7, <2>8, <2>9, <2>10
<1>2. ASSUME NEW k \in DOMAIN Steps("update") PROVE Located("update", k, Steps("update")[k])
  <2>1. k \in 1..8 /\ Len(Steps("update")) = 8
    BY StepLists DEF Spelt
  <2>2. "update" \in Writers /\ "update" \in Judged
        /\ ReadAt("update") = 3
        /\ OpenAt("update") = 6
        /\ JudgedAt("update") = 4
    BY DEF Writers, Judged, ReadAt, OpenAt, JudgedAt
  <2>3. CASE k = 1
    <3>1. Steps("update")[1] = "allow"
      BY StepLists DEF Spelt
    <3>2. Located("update", 1, "allow")
      BY <2>1, <2>2 DEF Located
    <3> QED
      BY <2>3, <3>1, <3>2
  <2>4. CASE k = 2
    <3>1. Steps("update")[2] = "ensure"
      BY StepLists DEF Spelt
    <3>2. Located("update", 2, "ensure")
      BY <2>1, <2>2 DEF Located
    <3> QED
      BY <2>4, <3>1, <3>2
  <2>5. CASE k = 3
    <3>1. Steps("update")[3] = "read"
      BY StepLists DEF Spelt
    <3>2. Located("update", 3, "read")
      BY <2>1, <2>2 DEF Located
    <3> QED
      BY <2>5, <3>1, <3>2
  <2>6. CASE k = 4
    <3>1. Steps("update")[4] = "judge"
      BY StepLists DEF Spelt
    <3>2. Located("update", 4, "judge")
      BY <2>1, <2>2 DEF Located
    <3> QED
      BY <2>6, <3>1, <3>2
  <2>7. CASE k = 5
    <3>1. Steps("update")[5] = "ensure"
      BY StepLists DEF Spelt
    <3>2. Located("update", 5, "ensure")
      BY <2>1, <2>2 DEF Located
    <3> QED
      BY <2>7, <3>1, <3>2
  <2>8. CASE k = 6
    <3>1. Steps("update")[6] = "open"
      BY StepLists DEF Spelt
    <3>2. Located("update", 6, "open")
      BY <2>1, <2>2 DEF Located
    <3> QED
      BY <2>8, <3>1, <3>2
  <2>9. CASE k = 7
    <3>1. Steps("update")[7] = "fill"
      BY StepLists DEF Spelt
    <3>2. Located("update", 7, "fill")
      BY <2>1, <2>2 DEF Located
    <3> QED
      BY <2>9, <3>1, <3>2
  <2>10. CASE k = 8
    <3>1. Steps("update")[8] = "audit"
      BY StepLists DEF Spelt
    <3>2. Located("update", 8, "audit")
      BY <2>1, <2>2 DEF Located
    <3> QED
      BY <2>10, <3>1, <3>2
  <2> QED
    BY <2>1, <2>3, <2>4, <2>5, <2>6, <2>7, <2>8, <2>9, <2>10
<1>3. ASSUME NEW k \in DOMAIN Steps("supersede") PROVE Located("supersede", k, Steps("supersede")[k])
  <2>1. k \in 1..8 /\ Len(Steps("supersede")) = 8
    BY StepLists DEF Spelt
  <2>2. "supersede" \in Writers /\ "supersede" \in Judged
        /\ ReadAt("supersede") = 3
        /\ OpenAt("supersede") = 6
        /\ JudgedAt("supersede") = 4
    BY DEF Writers, Judged, ReadAt, OpenAt, JudgedAt
  <2>3. CASE k = 1
    <3>1. Steps("supersede")[1] = "allow"
      BY StepLists DEF Spelt
    <3>2. Located("supersede", 1, "allow")
      BY <2>1, <2>2 DEF Located
    <3> QED
      BY <2>3, <3>1, <3>2
  <2>4. CASE k = 2
    <3>1. Steps("supersede")[2] = "ensure"
      BY StepLists DEF Spelt
    <3>2. Located("supersede", 2, "ensure")
      BY <2>1, <2>2 DEF Located
    <3> QED
      BY <2>4, <3>1, <3>2
  <2>5. CASE k = 3
    <3>1. Steps("supersede")[3] = "read"
      BY StepLists DEF Spelt
    <3>2. Located("supersede", 3, "read")
      BY <2>1, <2>2 DEF Located
    <3> QED
      BY <2>5, <3>1, <3>2
  <2>6. CASE k = 4
    <3>1. Steps("supersede")[4] = "judge"
      BY StepLists DEF Spelt
    <3>2. Located("supersede", 4, "judge")
      BY <2>1, <2>2 DEF Located
    <3> QED
      BY <2>6, <3>1, <3>2
  <2>7. CASE k = 5
    <3>1. Steps("supersede")[5] = "ensure"
      BY StepLists DEF Spelt
    <3>2. Located("supersede", 5, "ensure")
      BY <2>1, <2>2 DEF Located
    <3> QED
      BY <2>7, <3>1, <3>2
  <2>8. CASE k = 6
    <3>1. Steps("supersede")[6] = "open"
      BY StepLists DEF Spelt
    <3>2. Located("supersede", 6, "open")
      BY <2>1, <2>2 DEF Located
    <3> QED
      BY <2>8, <3>1, <3>2
  <2>9. CASE k = 7
    <3>1. Steps("supersede")[7] = "fill"
      BY StepLists DEF Spelt
    <3>2. Located("supersede", 7, "fill")
      BY <2>1, <2>2 DEF Located
    <3> QED
      BY <2>9, <3>1, <3>2
  <2>10. CASE k = 8
    <3>1. Steps("supersede")[8] = "audit"
      BY StepLists DEF Spelt
    <3>2. Located("supersede", 8, "audit")
      BY <2>1, <2>2 DEF Located
    <3> QED
      BY <2>10, <3>1, <3>2
  <2> QED
    BY <2>1, <2>3, <2>4, <2>5, <2>6, <2>7, <2>8, <2>9, <2>10
<1>4. ASSUME NEW k \in DOMAIN Steps("archive") PROVE Located("archive", k, Steps("archive")[k])
  <2>1. k \in 1..7 /\ Len(Steps("archive")) = 7
    BY StepLists DEF Spelt
  <2>2. "archive" \in Writers /\ "archive" \notin Judged
        /\ ReadAt("archive") = 3
        /\ OpenAt("archive") = 5
    BY DEF Writers, Judged, ReadAt, OpenAt, JudgedAt
  <2>3. CASE k = 1
    <3>1. Steps("archive")[1] = "allow"
      BY StepLists DEF Spelt
    <3>2. Located("archive", 1, "allow")
      BY <2>1, <2>2 DEF Located
    <3> QED
      BY <2>3, <3>1, <3>2
  <2>4. CASE k = 2
    <3>1. Steps("archive")[2] = "ensure"
      BY StepLists DEF Spelt
    <3>2. Located("archive", 2, "ensure")
      BY <2>1, <2>2 DEF Located
    <3> QED
      BY <2>4, <3>1, <3>2
  <2>5. CASE k = 3
    <3>1. Steps("archive")[3] = "read"
      BY StepLists DEF Spelt
    <3>2. Located("archive", 3, "read")
      BY <2>1, <2>2 DEF Located
    <3> QED
      BY <2>5, <3>1, <3>2
  <2>6. CASE k = 4
    <3>1. Steps("archive")[4] = "ensure"
      BY StepLists DEF Spelt
    <3>2. Located("archive", 4, "ensure")
      BY <2>1, <2>2 DEF Located
    <3> QED
      BY <2>6, <3>1, <3>2
  <2>7. CASE k = 5
    <3>1. Steps("archive")[5] = "open"
      BY StepLists DEF Spelt
    <3>2. Located("archive", 5, "open")
      BY <2>1, <2>2 DEF Located
    <3> QED
      BY <2>7, <3>1, <3>2
  <2>8. CASE k = 6
    <3>1. Steps("archive")[6] = "fill"
      BY StepLists DEF Spelt
    <3>2. Located("archive", 6, "fill")
      BY <2>1, <2>2 DEF Located
    <3> QED
      BY <2>8, <3>1, <3>2
  <2>9. CASE k = 7
    <3>1. Steps("archive")[7] = "audit"
      BY StepLists DEF Spelt
    <3>2. Located("archive", 7, "audit")
      BY <2>1, <2>2 DEF Located
    <3> QED
      BY <2>9, <3>1, <3>2
  <2> QED
    BY <2>1, <2>3, <2>4, <2>5, <2>6, <2>7, <2>8, <2>9
<1>5. ASSUME NEW k \in DOMAIN Steps("delete") PROVE Located("delete", k, Steps("delete")[k])
  <2>1. k \in 1..7 /\ Len(Steps("delete")) = 7
    BY StepLists DEF Spelt
  <2>2. "delete" \in Writers /\ "delete" \notin Judged
        /\ ReadAt("delete") = 3
        /\ OpenAt("delete") = 5
    BY DEF Writers, Judged, ReadAt, OpenAt, JudgedAt
  <2>3. CASE k = 1
    <3>1. Steps("delete")[1] = "allow"
      BY StepLists DEF Spelt
    <3>2. Located("delete", 1, "allow")
      BY <2>1, <2>2 DEF Located
    <3> QED
      BY <2>3, <3>1, <3>2
  <2>4. CASE k = 2
    <3>1. Steps("delete")[2] = "ensure"
      BY StepLists DEF Spelt
    <3>2. Located("delete", 2, "ensure")
      BY <2>1, <2>2 DEF Located
    <3> QED
      BY <2>4, <3>1, <3>2
  <2>5. CASE k = 3
    <3>1. Steps("delete")[3] = "read"
      BY StepLists DEF Spelt
    <3>2. Located("delete", 3, "read")
      BY <2>1, <2>2 DEF Located
    <3> QED
      BY <2>5, <3>1, <3>2
  <2>6. CASE k = 4
    <3>1. Steps("delete")[4] = "ensure"
      BY StepLists DEF Spelt
    <3>2. Located("delete", 4, "ensure")
      BY <2>1, <2>2 DEF Located
    <3> QED
      BY <2>6, <3>1, <3>2
  <2>7. CASE k = 5
    <3>1. Steps("delete")[5] = "open"
      BY StepLists DEF Spelt
    <3>2. Located("delete", 5, "open")
      BY <2>1, <2>2 DEF Located
    <3> QED
      BY <2>7, <3>1, <3>2
  <2>8. CASE k = 6
    <3>1. Steps("delete")[6] = "fill"
      BY StepLists DEF Spelt
    <3>2. Located("delete", 6, "fill")
      BY <2>1, <2>2 DEF Located
    <3> QED
      BY <2>8, <3>1, <3>2
  <2>9. CASE k = 7
    <3>1. Steps("delete")[7] = "audit"
      BY StepLists DEF Spelt
    <3>2. Located("delete", 7, "audit")
      BY <2>1, <2>2 DEF Located
    <3> QED
      BY <2>9, <3>1, <3>2
  <2> QED
    BY <2>1, <2>3, <2>4, <2>5, <2>6, <2>7, <2>8, <2>9
<1>6. ASSUME NEW k \in DOMAIN Steps("replace") PROVE Located("replace", k, Steps("replace")[k])
  <2>1. k \in 1..8 /\ Len(Steps("replace")) = 8
    BY StepLists DEF Spelt
  <2>2. "replace" \in Writers /\ "replace" \in Judged
        /\ ReadAt("replace") = 2
        /\ OpenAt("replace") = 6
        /\ JudgedAt("replace") = 4
    BY DEF Writers, Judged, ReadAt, OpenAt, JudgedAt
  <2>3. CASE k = 1
    <3>1. Steps("replace")[1] = "ensure"
      BY StepLists DEF Spelt
    <3>2. Located("replace", 1, "ensure")
      BY <2>1, <2>2 DEF Located
    <3> QED
      BY <2>3, <3>1, <3>2
  <2>4. CASE k = 2
    <3>1. Steps("replace")[2] = "read"
      BY StepLists DEF Spelt
    <3>2. Located("replace", 2, "read")
      BY <2>1, <2>2 DEF Located
    <3> QED
      BY <2>4, <3>1, <3>2
  <2>5. CASE k = 3
    <3>1. Steps("replace")[3] = "allow"
      BY StepLists DEF Spelt
    <3>2. Located("replace", 3, "allow")
      BY <2>1, <2>2 DEF Located
    <3> QED
      BY <2>5, <3>1, <3>2
  <2>6. CASE k = 4
    <3>1. Steps("replace")[4] = "judge"
      BY StepLists DEF Spelt
    <3>2. Located("replace", 4, "judge")
      BY <2>1, <2>2 DEF Located
    <3> QED
      BY <2>6, <3>1, <3>2
  <2>7. CASE k = 5
    <3>1. Steps("replace")[5] = "ensure"
      BY StepLists DEF Spelt
    <3>2. Located("replace", 5, "ensure")
      BY <2>1, <2>2 DEF Located
    <3> QED
      BY <2>7, <3>1, <3>2
  <2>8. CASE k = 6
    <3>1. Steps("replace")[6] = "open"
      BY StepLists DEF Spelt
    <3>2. Located("replace", 6, "open")
      BY <2>1, <2>2 DEF Located
    <3> QED
      BY <2>8, <3>1, <3>2
  <2>9. CASE k = 7
    <3>1. Steps("replace")[7] = "fill"
      BY StepLists DEF Spelt
    <3>2. Located("replace", 7, "fill")
      BY <2>1, <2>2 DEF Located
    <3> QED
      BY <2>9, <3>1, <3>2
  <2>10. CASE k = 8
    <3>1. Steps("replace")[8] = "audit"
      BY StepLists DEF Spelt
    <3>2. Located("replace", 8, "audit")
      BY <2>1, <2>2 DEF Located
    <3> QED
      BY <2>10, <3>1, <3>2
  <2> QED
    BY <2>1, <2>3, <2>4, <2>5, <2>6, <2>7, <2>8, <2>9, <2>10
<1>7. ASSUME NEW k \in DOMAIN Steps("daily") PROVE Located("daily", k, Steps("daily")[k])
  <2>1. k \in 1..4 /\ Len(Steps("daily")) = 4
    BY StepLists DEF Spelt
  <2>2. "daily" \notin Writers /\ "daily" \in Judged
        /\ JudgedAt("daily") = 2
    BY DEF Writers, Judged, ReadAt, OpenAt, JudgedAt
  <2>3. CASE k = 1
    <3>1. Steps("daily")[1] = "allow"
      BY StepLists DEF Spelt
    <3>2. Located("daily", 1, "allow")
      BY <2>1, <2>2 DEF Located
    <3> QED
      BY <2>3, <3>1, <3>2
  <2>4. CASE k = 2
    <3>1. Steps("daily")[2] = "judge"
      BY StepLists DEF Spelt
    <3>2. Located("daily", 2, "judge")
      BY <2>1, <2>2 DEF Located
    <3> QED
      BY <2>4, <3>1, <3>2
  <2>5. CASE k = 3
    <3>1. Steps("daily")[3] = "append"
      BY StepLists DEF Spelt
    <3>2. Located("daily", 3, "append")
      BY <2>1, <2>2 DEF Located
    <3> QED
      BY <2>5, <3>1, <3>2
  <2>6. CASE k = 4
    <3>1. Steps("daily")[4] = "audit"
      BY StepLists DEF Spelt
    <3>2. Located("daily", 4, "audit")
      BY <2>1, <2>2 DEF Located
    <3> QED
      BY <2>6, <3>1, <3>2
  <2> QED
    BY <2>1, <2>3, <2>4, <2>5, <2>6
<1>8. ASSUME NEW k \in DOMAIN Steps("settings") PROVE Located("settings", k, Steps("settings")[k])
  <2>1. k \in 1..4 /\ Len(Steps("settings")) = 4
    BY StepLists DEF Spelt
  <2>2. "settings" \notin Writers /\ "settings" \notin Judged
    BY DEF Writers, Judged, ReadAt, OpenAt, JudgedAt
  <2>3. CASE k = 1
    <3>1. Steps("settings")[1] = "settings"
      BY StepLists DEF Spelt
    <3>2. Located("settings", 1, "settings")
      BY <2>1, <2>2 DEF Located
    <3> QED
      BY <2>3, <3>1, <3>2
  <2>4. CASE k = 2
    <3>1. Steps("settings")[2] = "openSettings"
      BY StepLists DEF Spelt
    <3>2. Located("settings", 2, "openSettings")
      BY <2>1, <2>2 DEF Located
    <3> QED
      BY <2>4, <3>1, <3>2
  <2>5. CASE k = 3
    <3>1. Steps("settings")[3] = "fillSettings"
      BY StepLists DEF Spelt
    <3>2. Located("settings", 3, "fillSettings")
      BY <2>1, <2>2 DEF Located
    <3> QED
      BY <2>5, <3>1, <3>2
  <2>6. CASE k = 4
    <3>1. Steps("settings")[4] = "audit"
      BY StepLists DEF Spelt
    <3>2. Located("settings", 4, "audit")
      BY <2>1, <2>2 DEF Located
    <3> QED
      BY <2>6, <3>1, <3>2
  <2> QED
    BY <2>1, <2>3, <2>4, <2>5, <2>6
<1>9. ASSUME NEW k \in DOMAIN Steps("search") PROVE Located("search", k, Steps("search")[k])
  <2>1. k \in 1..3 /\ Len(Steps("search")) = 3
    BY StepLists DEF Spelt
  <2>2. "search" \notin Writers /\ "search" \notin Judged
    BY DEF Writers, Judged, ReadAt, OpenAt, JudgedAt
  <2>3. CASE k = 1
    <3>1. Steps("search")[1] = "ensure"
      BY StepLists DEF Spelt
    <3>2. Located("search", 1, "ensure")
      BY <2>1, <2>2 DEF Located
    <3> QED
      BY <2>3, <3>1, <3>2
  <2>4. CASE k = 2
    <3>1. Steps("search")[2] = "read"
      BY StepLists DEF Spelt
    <3>2. Located("search", 2, "read")
      BY <2>1, <2>2 DEF Located
    <3> QED
      BY <2>4, <3>1, <3>2
  <2>5. CASE k = 3
    <3>1. Steps("search")[3] = "audit"
      BY StepLists DEF Spelt
    <3>2. Located("search", 3, "audit")
      BY <2>1, <2>2 DEF Located
    <3> QED
      BY <2>5, <3>1, <3>2
  <2> QED
    BY <2>1, <2>3, <2>4, <2>5
<1>10. ASSUME NEW k \in DOMAIN Steps("writeback") PROVE Located("writeback", k, Steps("writeback")[k])
  <2>1. k \in 1..9 /\ Len(Steps("writeback")) = 9
    BY StepLists DEF Spelt
  <2>2. "writeback" \in Writers /\ "writeback" \in Judged
        /\ ReadAt("writeback") = 5
        /\ OpenAt("writeback") = 7
        /\ JudgedAt("writeback") = 3
    BY DEF Writers, Judged, ReadAt, OpenAt, JudgedAt
  <2>3. CASE k = 1
    <3>1. Steps("writeback")[1] = "auto"
      BY StepLists DEF Spelt
    <3>2. Located("writeback", 1, "auto")
      BY <2>1, <2>2 DEF Located
    <3> QED
      BY <2>3, <3>1, <3>2
  <2>4. CASE k = 2
    <3>1. Steps("writeback")[2] = "allow"
      BY StepLists DEF Spelt
    <3>2. Located("writeback", 2, "allow")
      BY <2>1, <2>2 DEF Located
    <3> QED
      BY <2>4, <3>1, <3>2
  <2>5. CASE k = 3
    <3>1. Steps("writeback")[3] = "judge"
      BY StepLists DEF Spelt
    <3>2. Located("writeback", 3, "judge")
      BY <2>1, <2>2 DEF Located
    <3> QED
      BY <2>5, <3>1, <3>2
  <2>6. CASE k = 4
    <3>1. Steps("writeback")[4] = "ensure"
      BY StepLists DEF Spelt
    <3>2. Located("writeback", 4, "ensure")
      BY <2>1, <2>2 DEF Located
    <3> QED
      BY <2>6, <3>1, <3>2
  <2>7. CASE k = 5
    <3>1. Steps("writeback")[5] = "read"
      BY StepLists DEF Spelt
    <3>2. Located("writeback", 5, "read")
      BY <2>1, <2>2 DEF Located
    <3> QED
      BY <2>7, <3>1, <3>2
  <2>8. CASE k = 6
    <3>1. Steps("writeback")[6] = "ensure"
      BY StepLists DEF Spelt
    <3>2. Located("writeback", 6, "ensure")
      BY <2>1, <2>2 DEF Located
    <3> QED
      BY <2>8, <3>1, <3>2
  <2>9. CASE k = 7
    <3>1. Steps("writeback")[7] = "open"
      BY StepLists DEF Spelt
    <3>2. Located("writeback", 7, "open")
      BY <2>1, <2>2 DEF Located
    <3> QED
      BY <2>9, <3>1, <3>2
  <2>10. CASE k = 8
    <3>1. Steps("writeback")[8] = "fill"
      BY StepLists DEF Spelt
    <3>2. Located("writeback", 8, "fill")
      BY <2>1, <2>2 DEF Located
    <3> QED
      BY <2>10, <3>1, <3>2
  <2>11. CASE k = 9
    <3>1. Steps("writeback")[9] = "audit"
      BY StepLists DEF Spelt
    <3>2. Located("writeback", 9, "audit")
      BY <2>1, <2>2 DEF Located
    <3> QED
      BY <2>11, <3>1, <3>2
  <2> QED
    BY <2>1, <2>3, <2>4, <2>5, <2>6, <2>7, <2>8, <2>9, <2>10, <2>11
<1>11. ASSUME NEW k \in DOMAIN Steps("show") PROVE Located("show", k, Steps("show")[k])
  <2>1. k \in 1..2 /\ Len(Steps("show")) = 2
    BY StepLists DEF Spelt
  <2>2. "show" \notin Writers /\ "show" \notin Judged
    BY DEF Writers, Judged, ReadAt, OpenAt, JudgedAt
  <2>3. CASE k = 1
    <3>1. Steps("show")[1] = "ensure"
      BY StepLists DEF Spelt
    <3>2. Located("show", 1, "ensure")
      BY <2>1, <2>2 DEF Located
    <3> QED
      BY <2>3, <3>1, <3>2
  <2>4. CASE k = 2
    <3>1. Steps("show")[2] = "read"
      BY StepLists DEF Spelt
    <3>2. Located("show", 2, "read")
      BY <2>1, <2>2 DEF Located
    <3> QED
      BY <2>4, <3>1, <3>2
  <2> QED
    BY <2>1, <2>3, <2>4
<1>12. ASSUME NEW do \in Writers
       PROVE  /\ ReadAt(do) \in Nat /\ OpenAt(do) \in Nat /\ ReadAt(do) < OpenAt(do)
              /\ Len(Steps(do)) = OpenAt(do) + 2
              /\ do \in Judged => JudgedAt(do) < OpenAt(do)
  BY StepLists DEF Spelt, Writers, Judged, ReadAt, OpenAt, JudgedAt
<1>13. ASSUME NEW do \in Judged PROVE JudgedAt(do) \in Nat
  BY DEF JudgedAt
<1>14. ASSUME NEW do \in Dos PROVE Len(Steps(do)) \in Nat /\ DOMAIN Steps(do) = 1..Len(Steps(do))
  BY StepLists DEF Spelt, Dos, Writers
<1>15. ASSUME NEW do \in Dos, NEW k \in DOMAIN Steps(do) PROVE Located(do, k, Steps(do)[k])
  BY <1>1, <1>2, <1>3, <1>4, <1>5, <1>6, <1>7, <1>8, <1>9, <1>10, <1>11 DEF Dos, Writers
<1> QED
  <2>1. \A do \in Writers : /\ ReadAt(do) \in Nat /\ OpenAt(do) \in Nat
                             /\ ReadAt(do) < OpenAt(do)
                             /\ Len(Steps(do)) = OpenAt(do) + 2
    BY <1>12
  <2>2. \A do \in Writers : do \in Judged => JudgedAt(do) < OpenAt(do)
    BY <1>12
  <2>3. \A do \in Dos : /\ Len(Steps(do)) \in Nat /\ DOMAIN Steps(do) = 1..Len(Steps(do))
                         /\ \A k \in DOMAIN Steps(do) : Located(do, k, Steps(do)[k])
    BY <1>14, <1>15
  <2> QED
    BY <1>13, <2>1, <2>2, <2>3

-----------------------------------------------------------------------------
(* Positions in a list *)

(* A set within a finite one is finite and no larger. *)
LEMMA Within ==
    ASSUME NEW S, IsFiniteSet(S), NEW T, T \subseteq S
    PROVE  IsFiniteSet(T) /\ Cardinality(T) \in Nat /\ Cardinality(T) <= Cardinality(S)
<1>1. T \in SUBSET S
  OBVIOUS
<1> QED
  BY <1>1, FS_Subset, FS_CardinalityType

(* A set of positions of a sequence is finite. *)
LEMMA Positions ==
    ASSUME NEW n \in Nat, NEW S, S \subseteq 1..n
    PROVE  IsFiniteSet(S) /\ Cardinality(S) \in Nat /\ Cardinality(S) <= n
<1>1. IsFiniteSet(1..n) /\ Cardinality(1..n) = IF 1 > n THEN 0 ELSE n - 1 + 1
  BY FS_Interval
<1>2. Cardinality(1..n) = n
  BY <1>1
<1> QED
  BY <1>1, <1>2, Within

(* One new element. *)
LEMMA OneMore ==
    ASSUME NEW S, IsFiniteSet(S), NEW x, x \notin S
    PROVE  IsFiniteSet(S \cup {x}) /\ Cardinality(S \cup {x}) = Cardinality(S) + 1
BY FS_AddElement

(* The place of p among the positions S. *)
Place(S, p) == Cardinality({q \in S : q <= p})

(* A position has a place, at most the last one. *)
LEMMA PlaceTyped ==
    ASSUME NEW n \in Nat, NEW S, S \subseteq 1..n, NEW p \in S
    PROVE  Place(S, p) \in 1..Cardinality(S)
<1> DEFINE T == {q \in S : q <= p}
<1>1. IsFiniteSet(S) /\ Cardinality(S) \in Nat
  BY Positions
<1>2. IsFiniteSet(T) /\ Cardinality(T) \in Nat /\ Cardinality(T) <= Cardinality(S)
  BY <1>1, Within
<1>3. p \in T
  OBVIOUS
<1>4. Cardinality(T) # 0
  BY <1>2, <1>3, FS_EmptySet
<1> QED
  BY <1>1, <1>2, <1>4 DEF Place

(* Two positions have different places, *)
LEMMA PlacesGrow ==
    ASSUME NEW n \in Nat, NEW S, S \subseteq 1..n, NEW p \in S, NEW q \in S, p < q
    PROVE  Place(S, p) < Place(S, q)
<1> DEFINE P == {r \in S : r <= p}
           Q == {r \in S : r <= q}
<1>1. IsFiniteSet(S)
  BY Positions
<1>2. IsFiniteSet(P) /\ Cardinality(P) \in Nat
  BY <1>1, Within
<1>3. IsFiniteSet(Q) /\ Cardinality(Q) \in Nat
  BY <1>1, Within
<1>4. q \notin P
  OBVIOUS
<1>5. P \cup {q} \subseteq Q
  <2>1. \A r \in P : r <= q
    OBVIOUS
  <2>2. q <= q
    OBVIOUS
  <2> QED
    BY <2>1, <2>2
<1>6. IsFiniteSet(P \cup {q}) /\ Cardinality(P \cup {q}) = Cardinality(P) + 1
  BY <1>2, <1>4, OneMore
<1>7. Cardinality(P \cup {q}) <= Cardinality(Q)
  BY <1>3, <1>5, Within
<1> QED
  BY <1>2, <1>3, <1>6, <1>7 DEF Place

(* and the same place is the same position; *)
LEMMA PlacesDiffer ==
    ASSUME NEW n \in Nat, NEW S, S \subseteq 1..n, NEW p \in S, NEW q \in S,
           Place(S, p) = Place(S, q)
    PROVE  p = q
<1>1. Cardinality(S) \in Nat
  BY Positions
<1>2. Place(S, p) \in 1..Cardinality(S)
  BY PlaceTyped
<1>3. Place(S, q) \in 1..Cardinality(S)
  BY PlaceTyped
<1>4. p < q \/ q < p \/ p = q
  OBVIOUS
<1>5. ~(p < q)
  <2>1. p < q => Place(S, p) < Place(S, q)
    BY PlacesGrow
  <2> QED
    BY <1>1, <1>2, <1>3, <2>1
<1>6. ~(q < p)
  <2>1. q < p => Place(S, q) < Place(S, p)
    BY PlacesGrow
  <2> QED
    BY <1>1, <1>2, <1>3, <2>1
<1> QED
  BY <1>4, <1>5, <1>6

(* and every place is taken. *)
LEMMA PlacesTaken ==
    ASSUME NEW n \in Nat, NEW S, S \subseteq 1..n, NEW k \in 1..Cardinality(S)
    PROVE  \E p \in S : Place(S, p) = k
<1> DEFINE f == [p \in S |-> Place(S, p)]
           T == 1..Cardinality(S)
<1>1. Cardinality(S) \in Nat
  BY Positions
<1>2. f \in [S -> T]
  BY PlaceTyped
<1>3. f \in Injection(S, T)
  BY <1>2, PlacesDiffer DEF Injection, IsInjective
<1>4. IsFiniteSet(T) /\ Cardinality(T) = Cardinality(S)
  <2>1. IsFiniteSet(T) /\ Cardinality(T) = IF 1 > Cardinality(S) THEN 0 ELSE Cardinality(S) - 1 + 1
    BY <1>1, FS_Interval
  <2> QED
    BY <1>1, <2>1
<1>5. f \in Surjection(S, T)
  BY <1>3, <1>4, FS_Injection
<1> QED
  BY <1>5 DEF Surjection

(* A set of positions that is not empty has a first one. *)
LEMMA Least ==
    ASSUME NEW n \in Nat, NEW S, S \subseteq 1..n, S # {}
    PROVE  \E p \in S : \A q \in S : p <= q
<1>1. IsFiniteSet(S) /\ Cardinality(S) \in Nat
  BY Positions
<1>2. Cardinality(S) # 0
  BY <1>1, FS_EmptySet
<1>3. 1 \in 1..Cardinality(S)
  BY <1>1, <1>2
<1>4. PICK p \in S : Place(S, p) = 1
  BY <1>3, PlacesTaken
<1>5. ASSUME NEW q \in S, ~(p <= q) PROVE FALSE
  <2>1. q < p
    BY <1>5
  <2>2. Place(S, q) < Place(S, p)
    BY <2>1, PlacesGrow
  <2>3. Place(S, q) \in 1..Cardinality(S)
    BY PlaceTyped
  <2> QED
    BY <1>1, <1>4, <2>2, <2>3
<1> QED
  BY <1>5

(* A function on 1..n is a list of that length. *)
LEMMA FunctionIsSeq ==
    ASSUME NEW n \in Nat, NEW S, NEW f \in [1..n -> S]
    PROVE  f \in Seq(S) /\ Len(f) = n
<1>1. f \in Seq(S)
  BY SeqDef
<1>2. Len(f) \in Nat /\ DOMAIN f = 1..Len(f)
  BY <1>1, LenProperties
<1>3. \A m \in Nat : 1..m = 1..n => m = n
  <2>1. ASSUME NEW m \in Nat, 1..m = 1..n PROVE m = n
    <3>1. m > n => m \in 1..m /\ m \notin 1..n
      OBVIOUS
    <3>2. n > m => n \in 1..n /\ n \notin 1..m
      OBVIOUS
    <3> QED
      BY <2>1, <3>1, <3>2
  <2> QED
    BY <2>1
<1> QED
  BY <1>1, <1>2, <1>3

(* The elements of a list of entries. *)
LEMMA ListFacts ==
    ASSUME NEW S, NEW s \in Seq(S)
    PROVE  /\ Len(s) \in Nat /\ DOMAIN s = 1..Len(s) /\ s \in [1..Len(s) -> S]
           /\ \A i \in 1..Len(s) : s[i] \in S
           /\ ToSet(s) = {s[i] : i \in 1..Len(s)}
BY LenProperties, ElementOfSeq DEF ToSet

(* The first entry of a title. *)
LEMMA TitleFound ==
    ASSUME NEW s \in Seq(EntryType), NEW t, Titled(s, t) # {}
    PROVE  FirstTitled(s, t) \in 1..Len(s) /\ s[FirstTitled(s, t)].title = t
<1> DEFINE S == Titled(s, t)
<1>1. Len(s) \in Nat /\ S \subseteq 1..Len(s)
  BY ListFacts DEF Titled
<1>2. \E p \in S : \A q \in S : p <= q
  BY <1>1, Least
<1>3. FirstTitled(s, t) \in S
  BY <1>2 DEF FirstTitled, Min
<1> QED
  BY <1>1, <1>3 DEF Titled

(* The first entry with an id. *)
LEMMA IdFound ==
    ASSUME NEW s \in Seq(EntryType), NEW id \in Ids(s)
    PROVE  Position(s, id) \in 1..Len(s) /\ s[Position(s, id)].id = id
<1> DEFINE S == {i \in DOMAIN s : s[i].id = id}
<1>1. Len(s) \in Nat /\ DOMAIN s = 1..Len(s) /\ S \subseteq 1..Len(s)
  BY ListFacts
<1>2. S # {}
  BY DEF Ids
<1>3. PICK p \in S : \A q \in S : p <= q
  BY <1>1, <1>2, Least
<1>4. \A j \in 1..p - 1 : s[j].id # id
  <2>1. ASSUME NEW j \in 1..p - 1, s[j].id = id PROVE FALSE
    <3>1. j \in 1..Len(s) /\ j < p
      BY <1>1
    <3>2. j \in S
      BY <1>1, <2>1, <3>1
    <3> QED
      BY <1>1, <1>3, <3>1, <3>2
  <2> QED
    BY <2>1
<1>5. p \in DOMAIN s /\ s[p].id = id /\ \A j \in 1..p - 1 : s[j].id # id
  BY <1>3, <1>4
<1>6. Position(s, id) \in DOMAIN s /\ s[Position(s, id)].id = id
  BY <1>5 DEF Position
<1> QED
  BY <1>1, <1>6

-----------------------------------------------------------------------------
(* What the operations make of a list of entries                           *)

(* e is the operation's own text; or it is an entry whose text was there.  *)
Own(e, o)   == e.text = o.n /\ e.class = o.class /\ e.by = o.by /\ Passed(o)
Alike(e, d) == e.text = d.text /\ e.class = d.class /\ e.by = d.by /\ e.id = d.id

(* The list r has entries of s, each at most once, and perhaps one with    *)
(* the operation's text: f says where in s they were, or 0.                *)
Kept(r, s, o) ==
  /\ r \in Seq(EntryType)
  /\ \A k \in 1..Len(r) : r[k].id \in Ids(s) \cup Titles \cup {o.n}
  /\ \E f \in [1..Len(r) -> 0..Len(s)] :
       /\ \A k, l \in 1..Len(r) : f[k] = f[l] => k = l
       /\ \A k \in 1..Len(r) :
            /\ f[k] = 0 => Own(r[k], o)
            /\ f[k] # 0 => /\ r[k].text = s[f[k]].text
                           /\ r[k].class = s[f[k]].class /\ r[k].by = s[f[k]].by

(* The entry an operation makes. *)
LEMMA EntryTyped ==
    ASSUME NEW o \in Operation, Passed(o), NEW t \in Titles,
           NEW z \in 0..MaxOps \cup Titles
    PROVE  /\ Entry(o, t, z) \in EntryType /\ Own(Entry(o, t, z), o)
           /\ Entry(o, t, z).id = o.n /\ Entry(o, t, z).title = t
           /\ Entry(o, t, z).status = "active" /\ Entry(o, t, z).supersedes = z
<1>1. o.n \in 1..MaxOps /\ o.class \in Classes /\ o.by \in {"manual", "auto"}
  BY DEF Operation, Passed
<1> QED
  BY <1>1 DEF Entry, EntryType, Own

(* One entry is changed, *)
LEMMA KeptInPlace ==
    ASSUME NEW s \in Seq(EntryType), NEW i \in 1..Len(s), NEW e \in EntryType, NEW o,
           e.id = s[i].id, Own(e, o) \/ Alike(e, s[i])
    PROVE  Kept([s EXCEPT ![i] = e], s, o)
<1> DEFINE r == [s EXCEPT ![i] = e]
           f == [k \in 1..Len(s) |-> IF k = i /\ ~Alike(e, s[i]) THEN 0 ELSE k]
<1>1. /\ r \in Seq(EntryType) /\ Len(r) = Len(s)
      /\ \A k \in 1..Len(s) : r[k] = IF k = i THEN e ELSE s[k]
  BY ExceptSeq
<1>2. Len(s) \in Nat /\ DOMAIN s = 1..Len(s)
  BY ListFacts
<1> HIDE DEF r
<1>3. \A k \in 1..Len(r) : r[k].id \in Ids(s)
  BY <1>1, <1>2 DEF Ids
<1>4. f \in [1..Len(r) -> 0..Len(s)]
  BY <1>1, <1>2
<1>5. \A k, l \in 1..Len(r) : f[k] = f[l] => k = l
  BY <1>1, <1>2
<1>6. \A k \in 1..Len(r) :
        /\ f[k] = 0 => Own(r[k], o)
        /\ f[k] # 0 => /\ r[k].text = s[f[k]].text
                       /\ r[k].class = s[f[k]].class /\ r[k].by = s[f[k]].by
  BY <1>1, <1>2 DEF Alike
<1> HIDE DEF f
<1>7. Kept(r, s, o)
  BY <1>1, <1>3, <1>4, <1>5, <1>6 DEF Kept
<1> QED
  BY <1>7 DEF r

(* one is appended, *)
LEMMA KeptAppend ==
    ASSUME NEW s \in Seq(EntryType), NEW q \in Seq(EntryType), NEW e \in EntryType, NEW o,
           Len(q) = Len(s), \A k \in 1..Len(s) : Alike(q[k], s[k]),
           Own(e, o), e.id \in Titles \cup {o.n}
    PROVE  Kept(Append(q, e), s, o)
<1> DEFINE r == Append(q, e)
           f == [k \in 1..Len(s) + 1 |-> IF k = Len(s) + 1 THEN 0 ELSE k]
<1>1. /\ r \in Seq(EntryType) /\ Len(r) = Len(s) + 1
      /\ \A k \in 1..Len(s) : r[k] = q[k]
      /\ r[Len(s) + 1] = e
  BY AppendProperties
<1>2. Len(s) \in Nat /\ DOMAIN s = 1..Len(s)
  BY ListFacts
<1> HIDE DEF r
<1>3. \A k \in 1..Len(r) : r[k].id \in Ids(s) \cup Titles \cup {o.n}
  <2>1. ASSUME NEW k \in 1..Len(r) PROVE r[k].id \in Ids(s) \cup Titles \cup {o.n}
    <3>1. CASE k = Len(s) + 1
      BY <1>1, <3>1
    <3>2. CASE k # Len(s) + 1
      <4>1. k \in 1..Len(s)
        BY <1>1, <1>2, <3>2
      <4>2. r[k].id = s[k].id
        BY <1>1, <4>1 DEF Alike
      <4> QED
        BY <1>2, <4>1, <4>2 DEF Ids
    <3> QED
      BY <3>1, <3>2
  <2> QED
    BY <2>1
<1>4. f \in [1..Len(r) -> 0..Len(s)]
  BY <1>1, <1>2
<1>5. \A k, l \in 1..Len(r) : f[k] = f[l] => k = l
  BY <1>1, <1>2
<1>6. ASSUME NEW k \in 1..Len(r)
      PROVE  /\ f[k] = 0 => Own(r[k], o)
             /\ f[k] # 0 => /\ r[k].text = s[f[k]].text
                            /\ r[k].class = s[f[k]].class /\ r[k].by = s[f[k]].by
  <2>1. CASE k = Len(s) + 1
    BY <1>1, <2>1
  <2>2. CASE k # Len(s) + 1
    <3>1. k \in 1..Len(s) /\ k # 0
      BY <1>1, <1>2, <2>2
    <3>2. f[k] = k /\ r[k] = q[k]
      BY <1>1, <2>2, <3>1
    <3> QED
      BY <3>1, <3>2 DEF Alike
  <2> QED
    BY <2>1, <2>2
<1> HIDE DEF f
<1>7. Kept(r, s, o)
  BY <1>1, <1>3, <1>4, <1>5, <1>6 DEF Kept
<1> QED
  BY <1>7 DEF r

(* or some are left out. *)
LEMMA KeptFewer ==
    ASSUME NEW s \in Seq(EntryType), NEW r \in Seq(EntryType), NEW o,
           NEW f \in [1..Len(r) -> 1..Len(s)],
           \A k, l \in 1..Len(r) : f[k] = f[l] => k = l,
           \A k \in 1..Len(r) : r[k] = s[f[k]]
    PROVE  Kept(r, s, o)
<1>1. Len(s) \in Nat /\ DOMAIN s = 1..Len(s)
  BY ListFacts
<1>2. \A k \in 1..Len(r) : f[k] \in 1..Len(s) /\ f[k] # 0
  BY <1>1
<1>3. \A k \in 1..Len(r) : r[k].id \in Ids(s)
  BY <1>1, <1>2 DEF Ids
<1>4. f \in [1..Len(r) -> 0..Len(s)]
  BY <1>1
<1> QED
  BY <1>2, <1>3, <1>4 DEF Kept

(* The operations, one after the other: upsert, *)
LEMMA UpsertedKept ==
    ASSUME NEW s \in Seq(EntryType), NEW o \in Operation, Passed(o), o.title \in Titles
    PROVE  Kept(Upserted(s, o), s, o)
<1>1. o.n \in 1..MaxOps /\ o.class \in Classes /\ o.by \in {"manual", "auto"}
  BY DEF Operation, Passed
<1>2. CASE Titled(s, o.title) = {}
  <2>1. Entry(o, o.title, 0) \in EntryType /\ Own(Entry(o, o.title, 0), o) /\ Entry(o, o.title, 0).id = o.n
    <3>1. 0 \in 0..MaxOps \cup Titles
      BY MemoryAssumption
    <3> QED
      BY <3>1, EntryTyped
  <2>2. Kept(Append(s, Entry(o, o.title, 0)), s, o)
    BY <2>1, KeptAppend DEF Alike
  <2> QED
    BY <1>2, <2>2 DEF Upserted
<1>3. CASE Titled(s, o.title) # {}
  <2> DEFINE i == FirstTitled(s, o.title)
             e == [s[i] EXCEPT !.text = o.n, !.class = o.class, !.by = o.by, !.status = "active"]
  <2>1. i \in 1..Len(s)
    BY <1>3, TitleFound
  <2>2. s[i] \in EntryType
    BY <2>1, ListFacts
  <2> HIDE DEF i
  <2>3. e \in EntryType /\ e.id = s[i].id /\ Own(e, o)
    BY <1>1, <2>2 DEF EntryType, Own
  <2> HIDE DEF e
  <2>4. Kept([s EXCEPT ![i] = e], s, o)
    BY <2>1, <2>3, KeptInPlace
  <2>5. Upserted(s, o) = [s EXCEPT ![i] = e]
    BY <1>3 DEF Upserted, i, e
  <2> QED
    BY <2>4, <2>5
<1> QED
  BY <1>2, <1>3

(* update, *)
LEMMA UpdatedKept ==
    ASSUME NEW s \in Seq(EntryType), NEW o \in Operation, Passed(o), o.id \in Ids(s)
    PROVE  Kept(Updated(s, o), s, o)
<1> DEFINE i == Position(s, o.id)
           e == [s[i] EXCEPT !.title = IF o.title = None THEN s[i].title ELSE o.title,
                             !.text = o.n, !.class = o.class, !.by = o.by]
<1>1. /\ o.n \in 1..MaxOps /\ o.class \in Classes /\ o.by \in {"manual", "auto"}
      /\ o.title \in Titles \cup {None}
  BY DEF Operation, Passed
<1>2. i \in 1..Len(s)
  BY IdFound
<1>3. s[i] \in EntryType
  BY <1>2, ListFacts
<1> HIDE DEF i
<1>4. e \in EntryType /\ e.id = s[i].id /\ Own(e, o)
  BY <1>1, <1>3 DEF EntryType, Own
<1> HIDE DEF e
<1>5. Kept([s EXCEPT ![i] = e], s, o)
  BY <1>2, <1>4, KeptInPlace
<1>6. Updated(s, o) = [s EXCEPT ![i] = e]
  <2>1. CASE o.title = None
    BY <2>1 DEF Updated, i, e
  <2>2. CASE o.title # None
    BY <2>2 DEF Updated, i, e
  <2> QED
    BY <2>1, <2>2
<1> QED
  BY <1>5, <1>6

(* archive, *)
LEMMA ArchivedKept ==
    ASSUME NEW s \in Seq(EntryType), NEW o, o.id \in Ids(s)
    PROVE  Kept(Archived(s, o), s, o)
<1> DEFINE i == Position(s, o.id)
           e == [s[i] EXCEPT !.status = "archived"]
<1>1. i \in 1..Len(s)
  BY IdFound
<1>2. s[i] \in EntryType
  BY <1>1, ListFacts
<1> HIDE DEF i
<1>3. e \in EntryType /\ e.id = s[i].id /\ Alike(e, s[i])
  BY <1>2 DEF EntryType, Alike
<1> HIDE DEF e
<1>4. Kept([s EXCEPT ![i] = e], s, o)
  BY <1>1, <1>3, KeptInPlace
<1>5. Archived(s, o) = [s EXCEPT ![i] = e]
  BY DEF Archived, i, e
<1> QED
  BY <1>4, <1>5

(* supersede: the list before the new entry is appended to it, and after. *)
Retired(s, o) == [s EXCEPT ![Position(s, o.id)] = [@ EXCEPT !.status = "superseded"]]
Newer(s, o)   == Entry(o, IF o.title = None THEN s[Position(s, o.id)].title ELSE o.title, o.id)

(* What the two parts of a supersede are. *)
LEMMA SupersededParts ==
    ASSUME NEW s \in Seq(EntryType), NEW o \in Operation, Passed(o), o.id \in Ids(s), o.id # None
    PROVE  /\ Retired(s, o) \in Seq(EntryType) /\ Len(Retired(s, o)) = Len(s)
           /\ \A k \in 1..Len(s) : Retired(s, o)[k] = IF k = Position(s, o.id)
                                                     THEN [s[k] EXCEPT !.status = "superseded"]
                                                     ELSE s[k]
           /\ Newer(s, o) \in EntryType /\ Own(Newer(s, o), o) /\ Newer(s, o).id = o.n
           /\ Newer(s, o).status = "active" /\ Newer(s, o).supersedes = o.id
           /\ Superseded(s, o) = Append(Retired(s, o), Newer(s, o))
<1> DEFINE i == Position(s, o.id)
           e == [s[i] EXCEPT !.status = "superseded"]
           t == IF o.title = None THEN s[i].title ELSE o.title
<1>1. i \in 1..Len(s)
  BY IdFound
<1>2. s[i] \in EntryType
  BY <1>1, ListFacts
<1>3. o.title \in Titles \cup {None} /\ o.id \in 1..MaxOps \cup Titles
  BY DEF Operation
<1>4. Superseded(s, o) = Append(Retired(s, o), Newer(s, o))
  BY DEF Superseded, Retired, Newer
<1>5. Retired(s, o) = [s EXCEPT ![i] = e] /\ Newer(s, o) = Entry(o, t, o.id)
  BY DEF Retired, Newer
<1> HIDE DEF i
<1>6. e \in EntryType
  BY <1>2 DEF EntryType
<1>7. t \in Titles
  BY <1>2, <1>3 DEF EntryType
<1>8. o.id \in 0..MaxOps \cup Titles
  BY <1>3, MemoryAssumption
<1> HIDE DEF e, t
<1>9. /\ Entry(o, t, o.id) \in EntryType /\ Own(Entry(o, t, o.id), o) /\ Entry(o, t, o.id).id = o.n
      /\ Entry(o, t, o.id).status = "active" /\ Entry(o, t, o.id).supersedes = o.id
  <2>1. \A z \in 0..MaxOps \cup Titles :
          /\ Entry(o, t, z) \in EntryType /\ Own(Entry(o, t, z), o) /\ Entry(o, t, z).id = o.n
          /\ Entry(o, t, z).status = "active" /\ Entry(o, t, z).supersedes = z
    BY <1>7, EntryTyped
  <2> QED
    BY <1>8, <2>1
<1>10. /\ [s EXCEPT ![i] = e] \in Seq(EntryType) /\ Len([s EXCEPT ![i] = e]) = Len(s)
       /\ \A k \in 1..Len(s) : [s EXCEPT ![i] = e][k] = IF k = i THEN e ELSE s[k]
  BY <1>1, <1>6, ExceptSeq
<1>11. \A k \in 1..Len(s) : Retired(s, o)[k] = IF k = i THEN [s[k] EXCEPT !.status = "superseded"]
                                                        ELSE s[k]
  BY <1>5, <1>10 DEF e
<1> QED
  BY <1>4, <1>5, <1>9, <1>10, <1>11 DEF i

(* Only the new entry has a new text. *)
LEMMA SupersededKept ==
    ASSUME NEW s \in Seq(EntryType), NEW o \in Operation, Passed(o), o.id \in Ids(s), o.id # None
    PROVE  Kept(Superseded(s, o), s, o)
<1> DEFINE q == Retired(s, o)
           e == Newer(s, o)
<1>1. /\ q \in Seq(EntryType) /\ Len(q) = Len(s)
      /\ \A k \in 1..Len(s) : q[k] = IF k = Position(s, o.id)
                                     THEN [s[k] EXCEPT !.status = "superseded"] ELSE s[k]
      /\ e \in EntryType /\ Own(e, o) /\ e.id = o.n /\ Superseded(s, o) = Append(q, e)
  BY SupersededParts
<1> HIDE DEF q, e
<1>2. \A k \in 1..Len(s) : s[k] \in EntryType
  BY ListFacts
<1>3. \A k \in 1..Len(s) : Alike(q[k], s[k])
  <2>1. ASSUME NEW k \in 1..Len(s) PROVE Alike(q[k], s[k])
    <3>1. q[k] = [s[k] EXCEPT !.status = "superseded"] \/ q[k] = s[k]
      BY <1>1
    <3>2. Alike([s[k] EXCEPT !.status = "superseded"], s[k])
      BY <1>2 DEF Alike, EntryType
    <3>3. Alike(s[k], s[k])
      BY DEF Alike
    <3> QED
      BY <3>1, <3>2, <3>3
  <2> QED
    BY <2>1
<1>4. Kept(Append(q, e), s, o)
  BY <1>1, <1>3, KeptAppend
<1> QED
  BY <1>1, <1>4

(* A list without the positions outside S, which is what delete makes.     *)
Chosen(s, S) == LET Nth(n) == CHOOSE i \in S : Cardinality({j \in S : j <= i}) = n
                IN  [n \in 1..Cardinality(S) |-> s[Nth(n)]]

(* Each of its elements has a position of its own in S, and none is lost.  *)
LEMMA ChosenKept ==
    ASSUME NEW s \in Seq(EntryType), NEW S, S \subseteq 1..Len(s), NEW o
    PROVE  /\ Kept(Chosen(s, S), s, o)
           /\ ToSet(Chosen(s, S)) = {s[i] : i \in S}
<1> DEFINE m == Cardinality(S)
           f == [n \in 1..m |-> CHOOSE i \in S : Cardinality({j \in S : j <= i}) = n]
           r == Chosen(s, S)
<1>1. Len(s) \in Nat /\ \A i \in 1..Len(s) : s[i] \in EntryType
  BY ListFacts
<1>2. m \in Nat
  BY <1>1, Positions
<1>3. \A n \in 1..m : \E i \in S : Cardinality({j \in S : j <= i}) = n
  BY <1>1, PlacesTaken DEF Place
<1>4. \A n \in 1..m : f[n] \in S /\ Place(S, f[n]) = n
  BY <1>3 DEF Place
<1>5. r = [n \in 1..m |-> s[f[n]]]
  BY DEF Chosen
<1>6. f \in [1..m -> 1..Len(s)]
  BY <1>4
<1> HIDE DEF f, r, m
<1>7. \A n \in 1..m : r[n] = s[f[n]] /\ r[n] \in EntryType
  BY <1>1, <1>5, <1>6
<1>8. r \in [1..m -> EntryType]
  BY <1>5, <1>7
<1>9. r \in Seq(EntryType) /\ Len(r) = m
  BY <1>2, <1>8, FunctionIsSeq
<1>10. \A k, l \in 1..m : f[k] = f[l] => k = l
  BY <1>4
<1>11. Kept(r, s, o)
  BY <1>6, <1>7, <1>9, <1>10, KeptFewer
<1>12. ToSet(r) = {r[n] : n \in 1..m}
  BY <1>9, ListFacts
<1>13. \A i \in S : \E n \in 1..m : f[n] = i
  <2>1. ASSUME NEW i \in S PROVE \E n \in 1..m : f[n] = i
    <3>1. Place(S, i) \in 1..m
      BY <1>1, PlaceTyped DEF m
    <3>2. Place(S, f[Place(S, i)]) = Place(S, i) /\ f[Place(S, i)] \in S
      BY <1>4, <3>1
    <3>3. f[Place(S, i)] = i
      BY <1>1, <3>2, PlacesDiffer
    <3> QED
      BY <3>1, <3>3
  <2> QED
    BY <2>1
<1>14. ToSet(r) = {s[i] : i \in S}
  <2>1. \A n \in 1..m : \E i \in S : r[n] = s[i]
    BY <1>4, <1>7
  <2>2. \A i \in S : \E n \in 1..m : r[n] = s[i]
    BY <1>7, <1>13
  <2>3. ASSUME NEW x \in {r[n] : n \in 1..m} PROVE x \in {s[i] : i \in S}
    BY <2>1, <2>3
  <2>4. ASSUME NEW x \in {s[i] : i \in S} PROVE x \in {r[n] : n \in 1..m}
    BY <2>2, <2>4
  <2> QED
    BY <1>12, <2>3, <2>4
<1> QED
  BY <1>11, <1>14 DEF r

(* delete, *)
LEMMA DeletedKept ==
    ASSUME NEW s \in Seq(EntryType), NEW o
    PROVE  /\ Kept(Deleted(s, o), s, o)
           /\ ToSet(Deleted(s, o)) = {e \in ToSet(s) : e.id # Target(s, o)}
<1> DEFINE S == {i \in DOMAIN s : s[i].id # Target(s, o)}
<1>1. DOMAIN s = 1..Len(s) /\ ToSet(s) = {s[i] : i \in 1..Len(s)}
  BY ListFacts
<1>2. Deleted(s, o) = Chosen(s, S)
  BY DEF Deleted, Chosen
<1>3. S \subseteq 1..Len(s)
  BY <1>1
<1>4. {s[i] : i \in S} = {e \in ToSet(s) : e.id # Target(s, o)}
  BY <1>1
<1> HIDE DEF S
<1>5. Kept(Chosen(s, S), s, o) /\ ToSet(Chosen(s, S)) = {s[i] : i \in S}
  BY <1>3, ChosenKept
<1> QED
  BY <1>2, <1>4, <1>5

(* and an edited document: an entry less *)
LEMMA RemovedKept ==
    ASSUME NEW s \in Seq(EntryType), NEW p \in 1..Len(s), NEW o
    PROVE  /\ Kept(RemoveAt(s, p), s, o)
           /\ ToSet(RemoveAt(s, p)) = {s[i] : i \in 1..Len(s) \ {p}}
<1> DEFINE r == RemoveAt(s, p)
           m == Len(s) - 1
           s1 == SubSeq(s, 1, p - 1)
           s2 == SubSeq(s, p + 1, Len(s))
           f == [k \in 1..m |-> IF k < p THEN k ELSE k + 1]
<1>1. Len(s) \in Nat /\ \A i \in 1..Len(s) : s[i] \in EntryType
  BY ListFacts
<1>2. m \in Nat
  BY <1>1
<1>3. /\ s1 \in Seq(EntryType) /\ Len(s1) = p - 1
      /\ \A i \in 1..p - 1 : s1[i] = s[i]
  <2>1. \A i \in 1..p - 1 : s[i] \in EntryType
    BY <1>1
  <2>2. /\ s1 \in Seq(EntryType) /\ Len(s1) = IF 1 <= p - 1 THEN p - 1 - 1 + 1 ELSE 0
        /\ \A i \in 1..p - 1 - 1 + 1 : s1[i] = s[1 + i - 1]
    BY <2>1, SubSeqProperties
  <2> QED
    BY <1>1, <2>2
<1>4. /\ s2 \in Seq(EntryType) /\ Len(s2) = Len(s) - p
      /\ \A i \in 1..Len(s) - p : s2[i] = s[p + i]
  <2>1. \A i \in p + 1..Len(s) : s[i] \in EntryType
    BY <1>1
  <2>2. p + 1 \in Int /\ Len(s) \in Int
    BY <1>1
  <2>3. /\ s2 \in Seq(EntryType)
        /\ Len(s2) = IF p + 1 <= Len(s) THEN Len(s) - (p + 1) + 1 ELSE 0
        /\ \A i \in 1..Len(s) - (p + 1) + 1 : s2[i] = s[p + 1 + i - 1]
    BY <2>1, <2>2, SubSeqProperties
  <2> QED
    BY <1>1, <2>3
<1>5. r = s1 \o s2
  BY DEF RemoveAt
<1> HIDE DEF r, s1, s2
<1>6. /\ r \in Seq(EntryType) /\ Len(r) = m
      /\ \A i \in 1..m : r[i] = IF i <= p - 1 THEN s1[i] ELSE s2[i - (p - 1)]
  <2>1. /\ s1 \o s2 \in Seq(EntryType) /\ Len(s1 \o s2) = Len(s1) + Len(s2)
        /\ \A i \in 1..Len(s1) + Len(s2) :
             (s1 \o s2)[i] = IF i <= Len(s1) THEN s1[i] ELSE s2[i - Len(s1)]
    BY <1>3, <1>4, ConcatProperties
  <2>2. Len(s1) = p - 1 /\ Len(s1) + Len(s2) = m
    BY <1>1, <1>3, <1>4
  <2> QED
    BY <1>5, <2>1, <2>2
<1>7. f \in [1..m -> 1..Len(s)]
  BY <1>1
<1>8. \A k \in 1..m : r[k] = s[f[k]]
  <2>1. ASSUME NEW k \in 1..m PROVE r[k] = s[f[k]]
    <3>1. CASE k < p
      BY <1>1, <1>3, <1>6, <3>1
    <3>2. CASE ~(k < p)
      <4>1. k - (p - 1) \in 1..Len(s) - p /\ p + (k - (p - 1)) = k + 1 /\ ~(k <= p - 1)
        BY <1>1, <3>2
      <4>2. r[k] = s2[k - (p - 1)]
        BY <1>6, <4>1
      <4>3. s2[k - (p - 1)] = s[k + 1]
        BY <1>4, <4>1
      <4> QED
        BY <3>2, <4>2, <4>3
    <3> QED
      BY <3>1, <3>2
  <2> QED
    BY <2>1
<1>9. \A k, l \in 1..m : f[k] = f[l] => k = l
  BY <1>1
<1>10. \A i \in 1..Len(s) \ {p} : \E k \in 1..m : f[k] = i
  <2>1. ASSUME NEW i \in 1..Len(s), i # p PROVE \E k \in 1..m : f[k] = i
    <3>1. CASE i < p
      <4>1. i \in 1..m /\ f[i] = i
        BY <1>1, <3>1
      <4> QED
        BY <4>1
    <3>2. CASE i > p
      <4>1. i - 1 \in 1..m /\ f[i - 1] = i
        BY <1>1, <3>2
      <4> QED
        BY <4>1
    <3> QED
      BY <1>1, <2>1, <3>1, <3>2
  <2> QED
    BY <2>1
<1>11. \A k \in 1..m : f[k] # p /\ f[k] \in 1..Len(s)
  BY <1>1
<1> HIDE DEF f
<1>12. Kept(r, s, o)
  <2>1. f \in [1..Len(r) -> 1..Len(s)]
    BY <1>6, <1>7
  <2>2. \A k, l \in 1..Len(r) : f[k] = f[l] => k = l
    BY <1>6, <1>9
  <2>3. \A k \in 1..Len(r) : r[k] = s[f[k]]
    BY <1>6, <1>8
  <2> QED
    BY <1>6, <2>1, <2>2, <2>3, KeptFewer
<1>13. ToSet(r) = {r[k] : k \in 1..m}
  BY <1>6, ListFacts
<1>14. ToSet(r) = {s[i] : i \in 1..Len(s) \ {p}}
  <2>1. \A k \in 1..m : \E i \in 1..Len(s) \ {p} : r[k] = s[i]
    BY <1>8, <1>11
  <2>2. \A i \in 1..Len(s) \ {p} : \E k \in 1..m : r[k] = s[i]
    BY <1>8, <1>10
  <2> DEFINE S == 1..Len(s) \ {p}
  <2>3. ASSUME NEW x \in {r[k] : k \in 1..m} PROVE x \in {s[i] : i \in S}
    BY <2>1, <2>3
  <2>4. ASSUME NEW x \in {s[i] : i \in S} PROVE x \in {r[k] : k \in 1..m}
    BY <2>2, <2>4
  <2> QED
    BY <1>13, <2>3, <2>4
<1> QED
  BY <1>12, <1>14 DEF r

(* or more. *)
LEMMA EditedKept ==
    ASSUME NEW s \in Seq(EntryType), NEW o \in Operation, o.do = "replace", Named(o), Passed(o),
           ~Unknown(s, o)
    PROVE  Kept(Edited(s, o), s, o)
<1>1. CASE o.id # None
  <2>1. o.id \in Ids(s)
    BY <1>1 DEF Unknown
  <2>2. Position(s, o.id) \in 1..Len(s)
    BY <2>1, IdFound
  <2>3. Kept(RemoveAt(s, Position(s, o.id)), s, o)
    BY <2>2, RemovedKept
  <2> QED
    BY <1>1, <2>3 DEF Edited
<1>2. CASE o.id = None
  <2> DEFINE e == Entry(o, o.title, 0)
             d == [e EXCEPT !.id = o.title]
  <2>1. o.title \in Titles
    BY <1>2 DEF Operation, Named, Writers
  <2>2. 0 \in 0..MaxOps \cup Titles
    BY MemoryAssumption
  <2>3. e \in EntryType /\ Own(e, o)
    BY <2>1, <2>2, EntryTyped
  <2> HIDE DEF e
  <2>4. d \in EntryType /\ Own(d, o) /\ d.id = o.title
    BY <2>1, <2>3 DEF EntryType, Own
  <2> HIDE DEF d
  <2>5. \A k \in 1..Len(s) : Alike(s[k], s[k])
    BY DEF Alike
  <2>6. Kept(Append(s, d), s, o)
    BY <2>1, <2>4, <2>5, KeptAppend
  <2> QED
    BY <1>2, <2>6 DEF Edited, d, e
<1> QED
  BY <1>1, <1>2

(* In short: every operation that rewrites the document keeps texts so.    *)
LEMMA ChangedKept ==
    ASSUME NEW s \in Seq(EntryType), NEW o \in Operation, o.do \in Writers, Named(o),
           o.do \in Judged => Passed(o), ~Unknown(s, o)
    PROVE  Kept(Changed(s, o), s, o)
<1>1. o.id # None => o.id \in Ids(s)
  BY DEF Unknown
<1>2. o.title \in Titles \cup {None}
  BY DEF Operation
<1>3. CASE o.do \in {"upsert", "writeback"}
  <2>1. o.title \in Titles /\ Passed(o)
    BY <1>2, <1>3 DEF Named, Judged
  <2>2. Changed(s, o) = Upserted(s, o)
    BY <1>3 DEF Changed
  <2> QED
    BY <2>1, <2>2, UpsertedKept
<1>4. CASE o.do = "update"
  <2>1. o.id \in Ids(s) /\ Passed(o)
    BY <1>1, <1>4 DEF Named, Judged
  <2>2. Changed(s, o) = Updated(s, o)
    BY <1>4 DEF Changed
  <2> QED
    BY <2>1, <2>2, UpdatedKept
<1>5. CASE o.do = "archive"
  <2>1. o.id \in Ids(s)
    BY <1>1, <1>5 DEF Named
  <2>2. Changed(s, o) = Archived(s, o)
    BY <1>5 DEF Changed
  <2> QED
    BY <2>1, <2>2, ArchivedKept
<1>6. CASE o.do = "supersede"
  <2>1. o.id \in Ids(s) /\ o.id # None /\ Passed(o)
    BY <1>1, <1>6 DEF Named, Judged
  <2>2. Changed(s, o) = Superseded(s, o)
    BY <1>6 DEF Changed
  <2> QED
    BY <2>1, <2>2, SupersededKept
<1>7. CASE o.do = "delete"
  <2>1. Changed(s, o) = Deleted(s, o)
    BY <1>7 DEF Changed
  <2> QED
    BY <2>1, DeletedKept
<1>8. CASE o.do = "replace"
  <2>1. Passed(o)
    BY <1>8 DEF Judged
  <2>2. Changed(s, o) = Edited(s, o)
    BY <1>8 DEF Changed
  <2> QED
    BY <1>8, <2>1, <2>2, EditedKept
<1> QED
  BY <1>3, <1>4, <1>5, <1>6, <1>7, <1>8 DEF Writers

(* A tidy list stays so when operations begin or have written. *)
LEMMA TidyStays ==
    ASSUME NEW s, NEW m \in Nat, NEW N, NEW l \in Nat, NEW M, Tidy(s, m, N), m <= l,
           \A n \in M : n \in N \/ (n \in Nat /\ n > m)
    PROVE  Tidy(s, l, M)
<1>1. Len(s) \in Nat /\ \A i \in 1..Len(s) : s[i] \in EntryType
  BY ListFacts DEF Tidy
<1>2. ASSUME NEW i \in 1..Len(s)
      PROVE  /\ s[i].text <= l /\ s[i].text \notin M /\ s[i].id \notin M
             /\ s[i].id \in Nat => s[i].id <= l
  <2>1. /\ s[i].text \in Nat /\ s[i].text <= m /\ s[i].text \notin N /\ s[i].id \notin N
        /\ s[i].id \in Nat => s[i].id <= m
    BY <1>1 DEF Tidy, EntryType
  <2>2. \A n \in M : n # s[i].text
    BY <2>1
  <2>3. \A n \in M : n # s[i].id
    BY <2>1
  <2> QED
    BY <2>1, <2>2, <2>3
<1> QED
  BY <1>2 DEF Tidy

(* What a list that was tidy turns into is tidy, once its operation has    *)
(* written.                                                                *)
LEMMA TidyKept ==
    ASSUME NEW s, NEW m \in Nat, NEW N, Tidy(s, m, N), NEW o \in Operation, o.n \in N, o.n <= m,
           NEW r, Kept(r, s, o), NEW M, M \subseteq N, o.n \notin M, M \subseteq Nat
    PROVE  Tidy(r, m, M)
<1>1. /\ s \in Seq(EntryType) /\ Len(s) \in Nat /\ DOMAIN s = 1..Len(s)
      /\ \A i \in 1..Len(s) : s[i] \in EntryType
  BY ListFacts DEF Tidy
<1>2. r \in Seq(EntryType) /\ Len(r) \in Nat /\ \A k \in 1..Len(r) : r[k] \in EntryType
  BY ListFacts DEF Kept
<1>3. PICK f \in [1..Len(r) -> 0..Len(s)] :
        /\ \A k, l \in 1..Len(r) : f[k] = f[l] => k = l
        /\ \A k \in 1..Len(r) :
             /\ f[k] = 0 => Own(r[k], o)
             /\ f[k] # 0 => /\ r[k].text = s[f[k]].text
                            /\ r[k].class = s[f[k]].class /\ r[k].by = s[f[k]].by
  BY DEF Kept
<1>4. \A k \in 1..Len(r) : f[k] # 0 => f[k] \in 1..Len(s)
  BY <1>1
<1>5. ASSUME NEW k \in 1..Len(r)
      PROVE  /\ r[k].class \notin {"unread", "unsafe"}
             /\ r[k].text <= m /\ r[k].text \notin M
             /\ f[k] = 0 => r[k].text = o.n
             /\ f[k] # 0 => r[k].text = s[f[k]].text /\ r[k].text # o.n
  <2>1. CASE f[k] = 0
    <3>1. Own(r[k], o)
      BY <1>3, <2>1
    <3>2. o.class \in Classes \ {"unsafe"} /\ (o.by = "auto" => o.class = "plain")
      BY <3>1 DEF Own, Passed
    <3>3. o.class \notin {"unread", "unsafe"}
      BY <3>2, MemoryAssumption DEF AllClasses
    <3> QED
      BY <2>1, <3>1, <3>2, <3>3 DEF Own, Policed
  <2>2. CASE f[k] # 0
    <3>1. f[k] \in 1..Len(s)
      BY <1>4, <2>2
    <3>2. /\ Policed(s[f[k]]) /\ (s[f[k]].by = "auto" => s[f[k]].class = "plain")
          /\ s[f[k]].text <= m /\ s[f[k]].text \notin N
      BY <3>1 DEF Tidy
    <3>3. r[k].text = s[f[k]].text /\ r[k].class = s[f[k]].class /\ r[k].by = s[f[k]].by
      BY <1>3, <2>2
    <3> QED
      BY <2>2, <3>2, <3>3 DEF Policed
  <2> QED
    BY <2>1, <2>2
<1>6. ASSUME NEW k \in 1..Len(r)
      PROVE  r[k].id \notin M /\ (r[k].id \in Nat => r[k].id <= m)
  <2>1. r[k].id \in Ids(s) \cup Titles \cup {o.n}
    BY DEF Kept
  <2>2. CASE r[k].id \in Ids(s)
    <3>1. PICK i \in 1..Len(s) : s[i].id = r[k].id
      BY <1>1, <2>2 DEF Ids
    <3> QED
      BY <3>1 DEF Tidy
  <2>3. CASE r[k].id \in Titles
    BY <2>3, MemoryAssumption
  <2>4. CASE r[k].id = o.n
    BY <2>4
  <2> QED
    BY <2>1, <2>2, <2>3, <2>4
<1>7. ASSUME NEW k \in 1..Len(r), NEW l \in 1..Len(r), r[k].text = r[l].text
      PROVE  k = l
  <2>1. CASE f[k] = 0
    <3>1. f[l] = 0
      BY <1>5, <1>7, <2>1
    <3> QED
      BY <1>3, <2>1, <3>1
  <2>2. CASE f[k] # 0
    <3>1. f[l] # 0
      BY <1>5, <1>7, <2>2
    <3>2. s[f[k]].text = s[f[l]].text
      BY <1>5, <1>7, <2>2, <3>1
    <3>3. f[k] = f[l]
      BY <1>4, <2>2, <3>1, <3>2 DEF Tidy
    <3> QED
      BY <1>3, <3>3
  <2> QED
    BY <2>1, <2>2
<1>8. \A k \in 1..Len(r) : r[k].by = "auto" => r[k].class = "plain"
  <2>1. ASSUME NEW k \in 1..Len(r), r[k].by = "auto" PROVE r[k].class = "plain"
    <3>1. CASE f[k] = 0
      BY <1>3, <2>1, <3>1 DEF Own, Passed
    <3>2. CASE f[k] # 0
      <4>1. f[k] \in 1..Len(s) /\ r[k].by = s[f[k]].by /\ r[k].class = s[f[k]].class
        BY <1>3, <1>4, <3>2
      <4>2. s[f[k]].by = "auto" => s[f[k]].class = "plain"
        BY <4>1 DEF Tidy
      <4> QED
        BY <2>1, <4>1, <4>2
    <3> QED
      BY <3>1, <3>2
  <2> QED
    BY <2>1
<1>9. \A k \in 1..Len(r) : Policed(r[k])
  BY <1>5 DEF Policed
<1>10. \A k \in 1..Len(r) : r[k].text <= m /\ r[k].text \notin M
  BY <1>5
<1> QED
  BY <1>2, <1>6, <1>7, <1>8, <1>9, <1>10 DEF Tidy

-----------------------------------------------------------------------------
(* The steps preserve the invariant                                        *)

(* An operation under way. *)
LEMMA UnderWay ==
    ASSUME Inv, NEW a \in Actors, op[a] # NoOp
    PROVE  /\ op[a] \in Operation /\ op[a].do \in Dos /\ op[a].n \in Nat
           /\ op[a].n <= ops /\ Named(op[a]) /\ ops \in Nat
           /\ at[a] \in Nat /\ at[a] \in 1..Len(Steps(op[a].do))
           /\ Len(Steps(op[a].do)) \in Nat
           /\ op[a].do \in Writers => /\ ReadAt(op[a].do) \in Nat /\ OpenAt(op[a].do) \in Nat
                                      /\ ReadAt(op[a].do) < OpenAt(op[a].do)
           /\ op[a].do \in Judged => JudgedAt(op[a].do) \in Nat
<1>1. op[a] \in Operation /\ op[a].n <= ops /\ Named(op[a]) /\ at[a] \in DOMAIN Steps(op[a].do)
  BY DEF Inv, OperationsOK, Sound
<1>2. op[a].do \in Dos /\ op[a].n \in Nat
  BY <1>1, MemoryAssumption DEF Operation
<1>3. Len(Steps(op[a].do)) \in Nat /\ DOMAIN Steps(op[a].do) = 1..Len(Steps(op[a].do))
  BY <1>2, Places
<1>4. at[a] \in 1..Len(Steps(op[a].do)) /\ at[a] \in Nat
  BY <1>1, <1>3
<1>5. ops \in Nat
  BY MemoryAssumption DEF Inv, VariablesOK
<1> QED
  BY <1>1, <1>2, <1>3, <1>4, <1>5, Places

(* and the place its step has. *)
LEMMA Here ==
    ASSUME Inv, NEW a \in Actors, NEW step, At(a, step)
    PROVE  op[a] # NoOp /\ Located(op[a].do, at[a], step)
<1>1. op[a] # NoOp /\ Steps(op[a].do)[at[a]] = step
  BY DEF At, Idle
<1>2. op[a].do \in Dos /\ at[a] \in DOMAIN Steps(op[a].do)
  BY <1>1, UnderWay DEF Inv, OperationsOK, Sound
<1>3. Located(op[a].do, at[a], Steps(op[a].do)[at[a]])
  BY <1>2, Places
<1> QED
  BY <1>1, <1>3

(* Only this actor's variables change, and as their types allow. *)
Moves(a) == /\ op' \in [Actors -> Operation \cup {NoOp}] /\ at' \in [Actors -> Nat]
            /\ loaded' \in [Actors -> Seq(EntryType \cup Settings)]
            /\ \A b \in Actors : b # a => op'[b] = op[b] /\ at'[b] = at[b] /\ loaded'[b] = loaded[b]

(* An actor goes on to the next step, *)
LEMMA Forwarded ==
    ASSUME Inv, NEW a \in Actors, Advance(a), at[a] # Len(Steps(op[a].do))
    PROVE  /\ Moves(a) /\ op'[a] = op[a] /\ at'[a] = at[a] + 1 /\ loaded'[a] = loaded[a]
<1>1. at' = [at EXCEPT ![a] = at[a] + 1] /\ op' = op /\ loaded' = loaded
  BY DEF Advance
<1>2. /\ at \in [Actors -> Nat] /\ op \in [Actors -> Operation \cup {NoOp}]
      /\ loaded \in [Actors -> Seq(EntryType \cup Settings)]
  BY DEF Inv, VariablesOK
<1> QED
  BY <1>1, <1>2 DEF Moves

(* or is done. *)
LEMMA Finished ==
    ASSUME Inv, NEW a \in Actors, Done(a)
    PROVE  Moves(a) /\ op'[a] = NoOp /\ at'[a] = 1
<1>1. /\ op' = [op EXCEPT ![a] = NoOp] /\ at' = [at EXCEPT ![a] = 1]
      /\ loaded' = [loaded EXCEPT ![a] = <<>>]
  BY DEF Done
<1>2. /\ at \in [Actors -> Nat] /\ op \in [Actors -> Operation \cup {NoOp}]
      /\ loaded \in [Actors -> Seq(EntryType \cup Settings)]
  BY DEF Inv, VariablesOK
<1>3. <<>> \in Seq(EntryType \cup Settings)
  BY EmptySeq
<1> QED
  BY <1>1, <1>2, <1>3 DEF Moves

(* The operation stays, perhaps judged, or ends. *)
Keeps(a) == op[a] # NoOp /\ op'[a] # NoOp /\ op'[a].do = op[a].do /\ op'[a].n = op[a].n
              /\ op'[a].id = op[a].id /\ op'[a].title = op[a].title

(* The operations are sound and have numbers of their own still. *)
LEMMA OperationsStay ==
    ASSUME Inv, NEW a \in Actors, Moves(a), ops' = ops, Sound(op'[a], at'[a], ops),
           op'[a] = NoOp \/ Keeps(a)
    PROVE  OperationsOK'
<1>1. \A b \in Actors : Sound(op'[b], at'[b], ops')
  BY DEF Inv, OperationsOK, Moves
<1>2. \A b \in Actors : op'[b] # NoOp => op[b] # NoOp /\ op'[b].n = op[b].n
  BY DEF Moves, Keeps
<1>3. \A b, c \in Actors : b # c /\ op'[b] # NoOp /\ op'[c] # NoOp => op'[b].n # op'[c].n
  BY <1>2 DEF Inv, OperationsOK
<1> QED
  BY <1>1, <1>3 DEF OperationsOK

(* No operation has to write that had not. *)
LEMMA PendingStay ==
    ASSUME Inv, NEW a \in Actors, Moves(a),
           Unwritten(op'[a], at'[a]) => Unwritten(op[a], at[a]) /\ op'[a].n = op[a].n
    PROVE  Pending' \subseteq Pending
<1>1. \A b \in Actors : Unwritten(op'[b], at'[b]) => Unwritten(op[b], at[b]) /\ op'[b].n = op[b].n
  BY DEF Moves
<1>2. Pending' = {op'[b].n : b \in {c \in Actors : Unwritten(op'[c], at'[c])}}
  BY DEF Pending
<1> QED
  BY <1>1, <1>2 DEF Pending

(* The numbers of the operations that have yet to write. *)
LEMMA PendingTyped ==
    ASSUME Inv
    PROVE  /\ Pending \subseteq Nat /\ \A n \in Pending : n <= ops
           /\ \A a \in Actors : Unwritten(op[a], at[a]) => op[a].n \in Pending
<1>1. \A a \in Actors : Unwritten(op[a], at[a]) => op[a].n \in Nat /\ op[a].n <= ops
  BY UnderWay DEF Unwritten
<1> QED
  BY <1>1 DEF Pending

(* Tidy lists stay tidy while no operation begins. *)
LEMMA TidyFewer ==
    ASSUME Inv, ops' = ops, Pending' \subseteq Pending, NEW s, Tidy(s, ops, Pending)
    PROVE  Tidy(s, ops', Pending')
<1>1. ops \in Nat
  BY MemoryAssumption DEF Inv, VariablesOK
<1> QED
  BY <1>1, TidyStays

(* What the others have read is as good as it was, where nothing they have *)
(* read is written.                                                        *)
LEMMA LoadedStay ==
    ASSUME Inv, NEW a \in Actors, Moves(a), ops' = ops, Pending' \subseteq Pending,
           \A b \in Actors : b # a /\ fresh'[b] /\ Holding(op[b], at[b]) =>
             fresh[b] /\ (at[b] <= OpenAt(op[b].do) =>
                            doc' = doc /\ ~Filling(op'[a], at'[a])),
           \A b \in Actors : b # a /\ fresh'[b] /\ HoldingSettings(op[b], at[b]) /\ at[b] = 2 =>
             fresh[b] /\ loaded[b][1] = settings'
    PROVE  /\ \A b \in Actors : b # a /\ Holding(op'[b], at'[b]) =>
                /\ Tidy(loaded'[b], ops', Pending') /\ ~Unknown(loaded'[b], op'[b])
                /\ fresh'[b] /\ at'[b] <= OpenAt(op'[b].do) =>
                     loaded'[b] = doc' /\ \A c \in Actors : ~Filling(op'[c], at'[c])
           /\ \A b \in Actors : b # a /\ HoldingSettings(op'[b], at'[b]) =>
                /\ loaded'[b] \in Seq(Settings) /\ Len(loaded'[b]) = 1
                /\ fresh'[b] /\ at'[b] = 2 => loaded'[b][1] = settings'
<1>1. ASSUME NEW b \in Actors, b # a, Holding(op'[b], at'[b])
      PROVE  /\ Tidy(loaded'[b], ops', Pending') /\ ~Unknown(loaded'[b], op'[b])
             /\ fresh'[b] /\ at'[b] <= OpenAt(op'[b].do) =>
                  loaded'[b] = doc' /\ \A c \in Actors : ~Filling(op'[c], at'[c])
  <2>1. op'[b] = op[b] /\ at'[b] = at[b] /\ loaded'[b] = loaded[b]
    BY <1>1 DEF Moves
  <2>2. /\ Tidy(loaded[b], ops, Pending) /\ ~Unknown(loaded[b], op[b])
        /\ fresh[b] /\ at[b] <= OpenAt(op[b].do) =>
             loaded[b] = doc /\ \A c \in Actors : ~Filling(op[c], at[c])
    BY <1>1, <2>1 DEF Inv, LoadedOK
  <2>3. Tidy(loaded[b], ops', Pending')
    BY <2>2, TidyFewer
  <2>4. \A c \in Actors : c # a => op'[c] = op[c] /\ at'[c] = at[c]
    BY DEF Moves
  <2>5. ASSUME fresh'[b], at'[b] <= OpenAt(op'[b].do)
        PROVE  loaded'[b] = doc' /\ \A c \in Actors : ~Filling(op'[c], at'[c])
    <3>1. fresh[b] /\ doc' = doc /\ ~Filling(op'[a], at'[a])
      BY <1>1, <2>1, <2>5
    <3>2. loaded[b] = doc /\ \A c \in Actors : ~Filling(op[c], at[c])
      BY <2>1, <2>2, <2>5, <3>1
    <3> QED
      BY <2>1, <2>4, <3>1, <3>2
  <2> QED
    BY <2>1, <2>2, <2>3, <2>5
<1>2. ASSUME NEW b \in Actors, b # a, HoldingSettings(op'[b], at'[b])
      PROVE  /\ loaded'[b] \in Seq(Settings) /\ Len(loaded'[b]) = 1
             /\ fresh'[b] /\ at'[b] = 2 => loaded'[b][1] = settings'
  <2>1. op'[b] = op[b] /\ at'[b] = at[b] /\ loaded'[b] = loaded[b]
    BY <1>2 DEF Moves
  <2> QED
    BY <1>2, <2>1 DEF Inv, LoadedOK
<1> QED
  BY <1>1, <1>2

(* The notes are as they were. *)
LEMMA DailyStay ==
    ASSUME Inv, NEW a \in Actors, Moves(a), ops' = ops, daily' = daily, audit' = audit,
           session' = session,
           op'[a] # NoOp /\ op'[a].do = "daily" => Keeps(a) /\ at[a] < 3 /\ at'[a] = at[a] + 1
    PROVE  DailyOK'
<1>1. ASSUME NEW b \in Actors, op'[b] # NoOp, op'[b].do = "daily"
      PROVE  /\ at'[b] <= 3 => ~Noted(daily', op'[b].n)
             /\ at'[b] = 4 /\ session' # "deleted" => Noted(daily', op'[b].n)
  <2>1. CASE b = a
    <3>1. Keeps(a) /\ at[a] < 3 /\ at'[a] = at[a] + 1
      BY <1>1, <2>1
    <3>2. at[a] \in Nat /\ op[a] # NoOp /\ op[a].do = "daily" /\ op'[a].n = op[a].n
      BY <1>1, <2>1, <3>1, UnderWay DEF Keeps
    <3>3. ~Noted(daily, op[a].n)
      BY <3>1, <3>2 DEF Inv, DailyOK
    <3> QED
      BY <2>1, <3>1, <3>2, <3>3
  <2>2. CASE b # a
    <3>1. op'[b] = op[b] /\ at'[b] = at[b]
      BY <2>2 DEF Moves
    <3> QED
      BY <1>1, <3>1 DEF Inv, DailyOK
  <2> QED
    BY <2>1, <2>2
<1> QED
  BY <1>1 DEF Inv, DailyOK

(* A step of an operation that is not about to write or read a file, or    *)
(* its end: nothing but present may change beside.                         *)
LEMMA Quiet ==
    ASSUME Inv, NEW a \in Actors, Moves(a), op[a] # NoOp,
           UNCHANGED <<surface, session, doc, settings, daily, audit, lock, ops, fresh, trusted>>,
           present' \in BOOLEAN,
           ~Filling(op[a], at[a]), ~FillingSettings(op[a], at[a]),
           Sound(op'[a], at'[a], ops),
           \/ op'[a] = NoOp
           \/ /\ Keeps(a) /\ at'[a] = at[a] + 1 /\ loaded'[a] = loaded[a]
              /\ op[a].do # "settings"
              /\ op[a].do \in Writers => at[a] # ReadAt(op[a].do) /\ at[a] < OpenAt(op[a].do)
              /\ op[a].do = "daily" => at[a] < 3
    PROVE  Inv'
<1> USE DEF NoOp
<1>1. at[a] \in Nat /\ (op[a].do \in Writers => ReadAt(op[a].do) \in Nat /\ OpenAt(op[a].do) \in Nat)
  BY UnderWay
<1>2. VariablesOK'
  BY DEF Inv, VariablesOK, Moves
<1>3. OperationsOK'
  BY OperationsStay
<1>4. /\ Unwritten(op'[a], at'[a]) => Unwritten(op[a], at[a]) /\ op'[a].n = op[a].n
      /\ Holding(op'[a], at'[a]) =>
           Holding(op[a], at[a]) /\ (fresh[a] /\ at'[a] <= OpenAt(op'[a].do) => at[a] <= OpenAt(op[a].do))
      /\ ~HoldingSettings(op'[a], at'[a])
      /\ ~Filling(op'[a], at'[a]) /\ ~FillingSettings(op'[a], at'[a])
  <2>1. CASE op'[a] = NoOp
    BY <2>1 DEF Unwritten, Holding, HoldingSettings, Filling, FillingSettings
  <2>2. CASE op'[a] # NoOp
    BY <1>1, <2>2 DEF Keeps, Unwritten, Holding, HoldingSettings, Filling, FillingSettings
  <2> QED
    BY <2>1, <2>2
<1>5. Pending' \subseteq Pending
  BY <1>4, PendingStay
<1>6. Tidy(doc, ops', Pending')
  BY <1>5, TidyFewer DEF Inv
<1>7. /\ \A b \in Actors : b # a /\ Holding(op'[b], at'[b]) =>
           /\ Tidy(loaded'[b], ops', Pending') /\ ~Unknown(loaded'[b], op'[b])
           /\ fresh'[b] /\ at'[b] <= OpenAt(op'[b].do) =>
                loaded'[b] = doc' /\ \A c \in Actors : ~Filling(op'[c], at'[c])
      /\ \A b \in Actors : b # a /\ HoldingSettings(op'[b], at'[b]) =>
           /\ loaded'[b] \in Seq(Settings) /\ Len(loaded'[b]) = 1
           /\ fresh'[b] /\ at'[b] = 2 => loaded'[b][1] = settings'
  <2>1. \A b \in Actors : b # a /\ fresh'[b] /\ Holding(op[b], at[b]) =>
          fresh[b] /\ (at[b] <= OpenAt(op[b].do) => doc' = doc /\ ~Filling(op'[a], at'[a]))
    BY <1>4
  <2>2. \A b \in Actors : b # a /\ fresh'[b] /\ HoldingSettings(op[b], at[b]) /\ at[b] = 2 =>
          fresh[b] /\ loaded[b][1] = settings'
    BY DEF Inv, LoadedOK
  <2> QED
    BY <1>5, <2>1, <2>2, LoadedStay
<1>8. Holding(op'[a], at'[a]) =>
        /\ Tidy(loaded'[a], ops', Pending') /\ ~Unknown(loaded'[a], op'[a])
        /\ fresh'[a] /\ at'[a] <= OpenAt(op'[a].do) =>
             loaded'[a] = doc' /\ \A c \in Actors : ~Filling(op'[c], at'[c])
  <2>1. SUFFICES ASSUME Holding(op'[a], at'[a])
                 PROVE  /\ Tidy(loaded'[a], ops', Pending') /\ ~Unknown(loaded'[a], op'[a])
                        /\ fresh'[a] /\ at'[a] <= OpenAt(op'[a].do) =>
                             loaded'[a] = doc' /\ \A c \in Actors : ~Filling(op'[c], at'[c])
    OBVIOUS
  <2>2. op'[a] # NoOp
    BY <2>1 DEF Holding, Unwritten
  <2>3. Keeps(a) /\ loaded'[a] = loaded[a]
    BY <2>2
  <2>4. /\ Tidy(loaded[a], ops, Pending) /\ ~Unknown(loaded[a], op[a])
        /\ fresh[a] /\ at[a] <= OpenAt(op[a].do) =>
             loaded[a] = doc /\ \A c \in Actors : ~Filling(op[c], at[c])
    BY <1>4, <2>1 DEF Inv, LoadedOK
  <2>5. ~Unknown(loaded[a], op'[a])
    BY <2>3, <2>4 DEF Keeps, Unknown
  <2>6. Tidy(loaded[a], ops', Pending')
    BY <1>5, <2>4, TidyFewer
  <2>7. \A c \in Actors : c # a => op'[c] = op[c] /\ at'[c] = at[c]
    BY DEF Moves
  <2> QED
    BY <1>4, <2>1, <2>3, <2>4, <2>5, <2>6, <2>7
<1>9. LoadedOK'
  BY <1>4, <1>7, <1>8 DEF LoadedOK
<1>10. LockOK'
  <2>1. \A b \in Actors : Filling(op'[b], at'[b]) = Filling(op[b], at[b])
                          /\ FillingSettings(op'[b], at'[b]) = FillingSettings(op[b], at[b])
    <3>1. \A b \in Actors : b # a => op'[b] = op[b] /\ at'[b] = at[b]
      BY DEF Moves
    <3>2. Filling(op'[a], at'[a]) = Filling(op[a], at[a])
          /\ FillingSettings(op'[a], at'[a]) = FillingSettings(op[a], at[a])
      BY <1>4 DEF Filling, FillingSettings
    <3> QED
      BY <3>1, <3>2
  <2> QED
    BY <2>1 DEF Inv, LockOK
<1>11. DailyOK'
  <2>1. op'[a] # NoOp /\ op'[a].do = "daily" => Keeps(a) /\ at[a] < 3 /\ at'[a] = at[a] + 1
    BY DEF Keeps
  <2> QED
    BY <2>1, DailyStay
<1> QED
  BY <1>2, <1>3, <1>6, <1>9, <1>10, <1>11 DEF Inv

(* An operation that fails, unless in the middle of a write, *)
LEMMA FailsOK ==
    ASSUME Inv, NEW a \in Actors, NEW step, At(a, step), step \notin {"fill", "fillSettings"},
           Fails(a), UNCHANGED Others
    PROVE  Inv'
<1>1. op[a] # NoOp /\ Located(op[a].do, at[a], step)
  BY Here
<1>2. ~Filling(op[a], at[a]) /\ ~FillingSettings(op[a], at[a])
  BY <1>1 DEF Located, Filling, FillingSettings
<1>3. Moves(a) /\ op'[a] = NoOp /\ at'[a] = 1
  BY Finished DEF Fails
<1>4. Sound(op'[a], at'[a], ops)
  BY <1>3 DEF Sound
<1>5. UNCHANGED <<surface, session, doc, settings, daily, audit, lock, ops, fresh, trusted>>
      /\ present' = present
  BY DEF Fails, Others, files, history
<1>6. present' \in BOOLEAN
  BY <1>5 DEF Inv, VariablesOK
<1> QED
  BY <1>1, <1>2, <1>3, <1>4, <1>5, <1>6, Quiet

(* one that goes on to the next step, *)
LEMMA GoesOn ==
    ASSUME Inv, NEW a \in Actors, NEW step, At(a, step), step \in {"allow", "ensure"}, Advance(a),
           UNCHANGED <<surface, session, doc, settings, daily, audit, lock, ops, fresh, trusted>>,
           present' \in BOOLEAN
    PROVE  Inv'
<1>1. op[a] # NoOp /\ Located(op[a].do, at[a], step)
  BY Here
<1>2. /\ op[a] \in Operation /\ op[a].do \in Dos /\ op[a].n <= ops /\ Named(op[a])
      /\ at[a] \in Nat /\ at[a] \in 1..Len(Steps(op[a].do)) /\ Len(Steps(op[a].do)) \in Nat
      /\ op[a].do \in Writers => /\ ReadAt(op[a].do) \in Nat /\ OpenAt(op[a].do) \in Nat
                                 /\ ReadAt(op[a].do) < OpenAt(op[a].do)
      /\ op[a].do \in Judged => JudgedAt(op[a].do) \in Nat
  BY <1>1, UnderWay
<1>3. /\ at[a] # Len(Steps(op[a].do)) /\ op[a].do # "settings"
      /\ op[a].do \in Writers => at[a] # ReadAt(op[a].do) /\ at[a] < OpenAt(op[a].do)
      /\ op[a].do = "daily" => at[a] < 3
      /\ op[a].do \in Judged => at[a] # JudgedAt(op[a].do)
  BY <1>1 DEF Located
<1>4. ~Filling(op[a], at[a]) /\ ~FillingSettings(op[a], at[a])
  BY <1>1 DEF Located, Filling, FillingSettings
<1>5. Moves(a) /\ op'[a] = op[a] /\ at'[a] = at[a] + 1 /\ loaded'[a] = loaded[a]
  BY <1>3, Forwarded
<1>6. Sound(op'[a], at'[a], ops)
  <2>1. at[a] + 1 \in DOMAIN Steps(op[a].do)
    <3>1. DOMAIN Steps(op[a].do) = 1..Len(Steps(op[a].do))
      BY <1>2, Places
    <3> QED
      BY <1>2, <1>3, <3>1
  <2>2. ASSUME op[a].do \in Judged, at[a] + 1 > JudgedAt(op[a].do) PROVE Passed(op[a])
    <3>1. at[a] > JudgedAt(op[a].do)
      BY <1>2, <1>3, <2>2
    <3> QED
      BY <1>1, <2>2, <3>1 DEF Inv, OperationsOK, Sound
  <2> QED
    BY <1>1, <1>2, <1>5, <2>1, <2>2 DEF Sound
<1>7. Keeps(a)
  BY <1>1, <1>5 DEF Keeps
<1> QED
  BY <1>1, <1>3, <1>4, <1>5, <1>6, <1>7, Quiet

(* _assert_write_allowed, *)
LEMMA AllowOK ==
    ASSUME Inv, NEW a \in Actors, Allow(a)
    PROVE  Inv'
<1>1. At(a, "allow") /\ UNCHANGED Others
  BY DEF Allow
<1>2. CASE Fails(a)
  BY <1>1, <1>2, FailsOK
<1>3. CASE Advance(a) /\ UNCHANGED <<files, lock, history>>
  <2>1. UNCHANGED <<surface, session, doc, settings, daily, audit, lock, ops, fresh, trusted>>
        /\ present' = present
    BY <1>1, <1>3 DEF Others, files, history
  <2>2. present' \in BOOLEAN
    BY <2>1 DEF Inv, VariablesOK
  <2> QED
    BY <1>1, <1>3, <2>1, <2>2, GoesOn
<1> QED
  BY <1>2, <1>3 DEF Allow

(* the document made sure of, *)
LEMMA EnsureOK ==
    ASSUME Inv, NEW a \in Actors, Ensure(a)
    PROVE  Inv'
<1>1. At(a, "ensure") /\ Advance(a)
  BY DEF Ensure
<1>2. UNCHANGED <<surface, session, doc, settings, daily, audit, lock, ops, fresh, trusted>>
      /\ present' \in BOOLEAN
  BY DEF Ensure, Others, history
<1> QED
  BY <1>1, <1>2, GoesOn

(* a text judged. *)
LEMMA JudgeOK ==
    ASSUME Inv, NEW a \in Actors, Judge(a)
    PROVE  Inv'
<1>1. PICK step \in {"judge", "auto"} : At(a, step)
  BY DEF Judge
<1>2. UNCHANGED Others
  BY DEF Judge
<1>3. CASE Fails(a)
  BY <1>1, <1>2, <1>3, FailsOK
<1>4. ASSUME NEW class \in Texts(a), Accepts(op[a].by, class, settings.mode),
             op' = [op EXCEPT ![a].class = class], at' = [at EXCEPT ![a] = at[a] + 1],
             UNCHANGED <<loaded, files, lock, history>>
      PROVE  Inv'
  <2>1. op[a] # NoOp /\ Located(op[a].do, at[a], step)
    BY <1>1, Here
  <2>2. /\ op[a] \in Operation /\ op[a].do \in Dos /\ op[a].n <= ops /\ Named(op[a])
        /\ at[a] \in Nat /\ at[a] \in 1..Len(Steps(op[a].do)) /\ Len(Steps(op[a].do)) \in Nat
        /\ op[a].do \in Writers => /\ ReadAt(op[a].do) \in Nat /\ OpenAt(op[a].do) \in Nat
                                   /\ ReadAt(op[a].do) < OpenAt(op[a].do)
        /\ op[a].do \in Judged => JudgedAt(op[a].do) \in Nat
    BY <2>1, UnderWay
  <2>3. /\ at[a] # Len(Steps(op[a].do)) /\ op[a].do # "settings"
        /\ op[a].do \in Writers => at[a] # ReadAt(op[a].do) /\ at[a] < OpenAt(op[a].do)
        /\ op[a].do = "daily" => at[a] < 3
    BY <2>1 DEF Located
  <2>4. ~Filling(op[a], at[a]) /\ ~FillingSettings(op[a], at[a])
    BY <2>1 DEF Located, Filling, FillingSettings
  <2> DEFINE o == [op[a] EXCEPT !.class = class]
  <2>5. class \in Classes /\ (op[a].by = "auto" => class = "plain") /\ class # "unsafe"
    <3>1. class \in Classes \cup {"unread"}
      BY <2>2 DEF Texts, Operation
    <3>2. class \in Classes
      BY <2>2 DEF Texts, Operation
    <3> QED
      BY <1>4, <3>2 DEF Accepts, AutoAccepts, ManualAccepts
  <2>6. /\ o \in Operation /\ o.do = op[a].do /\ o.n = op[a].n /\ o.id = op[a].id
        /\ o.title = op[a].title /\ o.by = op[a].by /\ o.class = class
    BY <2>2, <2>5 DEF Operation
  <2>7. op' = [op EXCEPT ![a] = o] /\ op \in [Actors -> Operation \cup {NoOp}]
    BY <1>4 DEF Inv, VariablesOK
  <2> HIDE DEF o
  <2>8. op'[a] = o /\ \A b \in Actors : b # a => op'[b] = op[b]
    BY <2>7
  <2>9. op' \in [Actors -> Operation \cup {NoOp}]
    BY <2>6, <2>7
  <2>10. o # NoOp
    BY <2>2, <2>6 DEF NoOp, Dos, Writers
  <2>11. at'[a] = at[a] + 1 /\ Moves(a) /\ loaded'[a] = loaded[a]
    <3>1. at \in [Actors -> Nat] /\ loaded \in [Actors -> Seq(EntryType \cup Settings)]
      BY DEF Inv, VariablesOK
    <3>2. at' \in [Actors -> Nat] /\ at'[a] = at[a] + 1 /\ \A b \in Actors : b # a => at'[b] = at[b]
      BY <1>4, <3>1
    <3>3. loaded' = loaded
      BY <1>4
    <3> QED
      BY <2>8, <2>9, <3>1, <3>2, <3>3 DEF Moves
  <2>12. Sound(o, at[a] + 1, ops)
    <3>1. DOMAIN Steps(o.do) = 1..Len(Steps(o.do))
      BY <2>2, <2>6, Places
    <3>2. at[a] + 1 \in DOMAIN Steps(o.do)
      BY <2>2, <2>3, <2>6, <3>1
    <3>3. Named(o)
      BY <2>2, <2>6 DEF Named
    <3>4. Passed(o)
      BY <2>5, <2>6 DEF Passed
    <3> QED
      BY <2>2, <2>6, <2>10, <3>2, <3>3, <3>4 DEF Sound
  <2>13. Keeps(a)
    BY <2>1, <2>6, <2>8, <2>10 DEF Keeps
  <2>14. UNCHANGED <<surface, session, doc, settings, daily, audit, lock, ops, fresh, trusted>>
         /\ present' = present
    BY <1>2, <1>4 DEF Others, files, history
  <2>15. present' \in BOOLEAN
    BY <2>14 DEF Inv, VariablesOK
  <2> QED
    BY <2>1, <2>3, <2>4, <2>8, <2>11, <2>12, <2>13, <2>14, <2>15, Quiet
<1> QED
  BY <1>3, <1>4 DEF Judge

(* An operation that has a step more is sound there too. *)
LEMMA SoundNext ==
    ASSUME Inv, NEW a \in Actors, NEW step, At(a, step), step # "judge",
           at[a] # Len(Steps(op[a].do))
    PROVE  Sound(op[a], at[a] + 1, ops) /\ op[a] # NoOp /\ at[a] \in Nat
<1>1. op[a] # NoOp /\ Located(op[a].do, at[a], step)
  BY Here
<1>2. /\ op[a] \in Operation /\ op[a].do \in Dos /\ op[a].n <= ops /\ Named(op[a])
      /\ at[a] \in Nat /\ at[a] \in 1..Len(Steps(op[a].do)) /\ Len(Steps(op[a].do)) \in Nat
      /\ op[a].do \in Judged => JudgedAt(op[a].do) \in Nat
  BY <1>1, UnderWay
<1>3. op[a].do \in Judged => at[a] # JudgedAt(op[a].do)
  BY <1>1 DEF Located
<1>4. at[a] + 1 \in DOMAIN Steps(op[a].do)
  <2>1. DOMAIN Steps(op[a].do) = 1..Len(Steps(op[a].do))
    BY <1>2, Places
  <2> QED
    BY <1>2, <2>1
<1>5. ASSUME op[a].do \in Judged, at[a] + 1 > JudgedAt(op[a].do) PROVE Passed(op[a])
  <2>1. at[a] > JudgedAt(op[a].do)
    BY <1>2, <1>3, <1>5
  <2> QED
    BY <1>1, <1>5, <2>1 DEF Inv, OperationsOK, Sound
<1> QED
  BY <1>1, <1>2, <1>4, <1>5 DEF Sound

(* The two halves of a write, and an append, are not an operation's end. *)
LEMMA Written ==
    ASSUME Inv, NEW a \in Actors, NEW step, At(a, step), Advance(a),
           step \in {"open", "fill", "append", "openSettings", "fillSettings"}
    PROVE  /\ op[a] # NoOp /\ Located(op[a].do, at[a], step) /\ at[a] \in Nat
           /\ Moves(a) /\ Keeps(a) /\ Sound(op'[a], at'[a], ops)
           /\ op'[a] = op[a] /\ at'[a] = at[a] + 1 /\ loaded'[a] = loaded[a]
<1>1. op[a] # NoOp /\ Located(op[a].do, at[a], step)
  BY Here
<1>2. op[a].do # "show" /\ at[a] # Len(Steps(op[a].do))
  BY <1>1 DEF Located, Writers
<1>3. Moves(a) /\ op'[a] = op[a] /\ at'[a] = at[a] + 1 /\ loaded'[a] = loaded[a]
  BY <1>2, Forwarded
<1>4. Sound(op[a], at[a] + 1, ops) /\ at[a] \in Nat
  BY <1>2, SoundNext
<1> QED
  BY <1>1, <1>3, <1>4 DEF Keeps

(* What the places say of an actor as it goes on. *)
LEMMA NotWriting ==
    ASSUME Inv, lock = None
    PROVE  \A a \in Actors : ~Filling(op[a], at[a]) /\ ~FillingSettings(op[a], at[a])
BY MemoryAssumption DEF Inv, LockOK, Actors

(* The document read, *)
LEMMA ReadOK ==
    ASSUME Inv, NEW a \in Actors, Read(a)
    PROVE  Inv'
<1>1. At(a, "read") /\ UNCHANGED Others
  BY DEF Read
<1>2. CASE Fails(a)
  BY <1>1, <1>2, FailsOK
<1>3. CASE ~Fails(a)
  <2>1. /\ present /\ ~Unknown(doc, op[a]) /\ at[a] # Len(Steps(op[a].do))
        /\ loaded' = [loaded EXCEPT ![a] = doc] /\ at' = [at EXCEPT ![a] = at[a] + 1]
        /\ fresh' = [fresh EXCEPT ![a] = \A b \in Actors : ~Writing(b)]
        /\ UNCHANGED <<op, files, lock, trusted>>
    BY <1>3 DEF Read
  <2>2. /\ op[a] # NoOp /\ Located(op[a].do, at[a], "read") /\ at[a] \in Nat
        /\ Sound(op[a], at[a] + 1, ops)
    BY <1>1, <2>1, Here, SoundNext
  <2>3. /\ op[a].do \in Writers \cup {"search", "show"}
        /\ op[a].do \in Writers => at[a] = ReadAt(op[a].do)
    BY <2>2 DEF Located
  <2>4. op[a].do \in Writers => /\ ReadAt(op[a].do) \in Nat /\ OpenAt(op[a].do) \in Nat
                                /\ ReadAt(op[a].do) < OpenAt(op[a].do)
    BY <2>2, UnderWay
  <2>5. op[a].do # "settings" /\ op[a].do # "daily"
    BY <2>3 DEF Writers
  <2>6. doc \in Seq(EntryType \cup Settings)
    <3>1. doc \in Seq(EntryType)
      BY DEF Inv, Tidy
    <3>2. Len(doc) \in Nat /\ doc \in [1..Len(doc) -> EntryType]
      BY <3>1, ListFacts
    <3>3. doc \in [1..Len(doc) -> EntryType \cup Settings]
      BY <3>2
    <3> QED
      BY <3>2, <3>3, FunctionIsSeq
  <2>7. /\ op \in [Actors -> Operation \cup {NoOp}] /\ at \in [Actors -> Nat]
        /\ loaded \in [Actors -> Seq(EntryType \cup Settings)] /\ fresh \in [Actors -> BOOLEAN]
    BY DEF Inv, VariablesOK
  <2>8. Moves(a) /\ op'[a] = op[a] /\ at'[a] = at[a] + 1 /\ loaded'[a] = doc
    BY <2>1, <2>2, <2>6, <2>7 DEF Moves
  <2>9. /\ fresh' \in [Actors -> BOOLEAN] /\ \A b \in Actors : b # a => fresh'[b] = fresh[b]
        /\ fresh'[a] = \A b \in Actors : ~Writing(b)
    BY <2>1, <2>7
  <2>10. UNCHANGED <<surface, session, present, doc, settings, daily, audit, lock, ops, trusted>>
    BY <1>1, <2>1 DEF Others, files
  <2>11. VariablesOK'
    BY <2>8, <2>9, <2>10 DEF Inv, VariablesOK, Moves
  <2>12. Keeps(a)
    BY <2>2, <2>8 DEF Keeps
  <2>13. OperationsOK'
    BY <2>2, <2>8, <2>10, <2>12, OperationsStay
  <2>14. /\ Unwritten(op'[a], at'[a]) => Unwritten(op[a], at[a])
         /\ ~Filling(op[a], at[a]) /\ ~Filling(op'[a], at'[a])
         /\ ~FillingSettings(op[a], at[a]) /\ ~FillingSettings(op'[a], at'[a])
         /\ ~HoldingSettings(op'[a], at'[a])
    BY <2>2, <2>3, <2>4, <2>5, <2>8 DEF Unwritten, Filling, FillingSettings, HoldingSettings
  <2>15. Pending' \subseteq Pending
    BY <2>8, <2>14, PendingStay
  <2>16. Tidy(doc, ops', Pending')
    BY <2>10, <2>15, TidyFewer DEF Inv
  <2>17. /\ \A b \in Actors : b # a /\ Holding(op'[b], at'[b]) =>
              /\ Tidy(loaded'[b], ops', Pending') /\ ~Unknown(loaded'[b], op'[b])
              /\ fresh'[b] /\ at'[b] <= OpenAt(op'[b].do) =>
                   loaded'[b] = doc' /\ \A c \in Actors : ~Filling(op'[c], at'[c])
         /\ \A b \in Actors : b # a /\ HoldingSettings(op'[b], at'[b]) =>
              /\ loaded'[b] \in Seq(Settings) /\ Len(loaded'[b]) = 1
              /\ fresh'[b] /\ at'[b] = 2 => loaded'[b][1] = settings'
    <3>1. \A b \in Actors : b # a /\ fresh'[b] /\ Holding(op[b], at[b]) =>
            fresh[b] /\ (at[b] <= OpenAt(op[b].do) => doc' = doc /\ ~Filling(op'[a], at'[a]))
      BY <2>9, <2>10, <2>14
    <3>2. \A b \in Actors : b # a /\ fresh'[b] /\ HoldingSettings(op[b], at[b]) /\ at[b] = 2 =>
            fresh[b] /\ loaded[b][1] = settings'
      BY <2>9, <2>10 DEF Inv, LoadedOK
    <3> QED
      BY <2>8, <2>10, <2>15, <3>1, <3>2, LoadedStay
  <2>18. \A b \in Actors : Filling(op'[b], at'[b]) = Filling(op[b], at[b])
                           /\ FillingSettings(op'[b], at'[b]) = FillingSettings(op[b], at[b])
    <3>1. \A b \in Actors : b # a => op'[b] = op[b] /\ at'[b] = at[b]
      BY <2>8 DEF Moves
    <3>2. Filling(op'[a], at'[a]) = Filling(op[a], at[a])
          /\ FillingSettings(op'[a], at'[a]) = FillingSettings(op[a], at[a])
      BY <2>14 DEF Filling, FillingSettings
    <3> QED
      BY <3>1, <3>2
  <2>19. fresh'[a] => \A c \in Actors : ~Filling(op'[c], at'[c])
    <3>1. ASSUME fresh'[a], NEW c \in Actors, Filling(op[c], at[c]) PROVE FALSE
      <4>1. lock = c
        BY <3>1 DEF Inv, LockOK
      <4>2. op[c] # NoOp /\ op[c].do \in Dos /\ at[c] \in DOMAIN Steps(op[c].do)
        BY <3>1, UnderWay DEF Inv, OperationsOK, Sound, Filling
      <4>3. Located(op[c].do, at[c], Steps(op[c].do)[at[c]])
        BY <4>2, Places
      <4>4. Steps(op[c].do)[at[c]] = "fill"
        BY <3>1, <4>3 DEF Located, Filling
      <4>5. Writing(c)
        BY <4>1, <4>2, <4>4 DEF Writing, At, Idle
      <4> QED
        BY <2>9, <3>1, <4>5
    <3> QED
      BY <2>18, <3>1
  <2>20. LoadedOK'
    <3>1. Tidy(loaded'[a], ops', Pending') /\ ~Unknown(loaded'[a], op'[a])
      BY <2>1, <2>8, <2>16
    <3>2. fresh'[a] => loaded'[a] = doc' /\ \A c \in Actors : ~Filling(op'[c], at'[c])
      BY <2>8, <2>10, <2>19
    <3> QED
      BY <2>14, <2>17, <3>1, <3>2 DEF LoadedOK
  <2>21. LockOK'
    BY <2>10, <2>18 DEF Inv, LockOK
  <2>22. DailyOK'
    BY <2>5, <2>8, <2>10, DailyStay
  <2> QED
    BY <2>10, <2>11, <2>13, <2>16, <2>20, <2>21, <2>22 DEF Inv
<1> QED
  BY <1>2, <1>3

(* the file opened, which empties it and overtakes the others, *)
LEMMA OpenOK ==
    ASSUME Inv, NEW a \in Actors, Open(a)
    PROVE  Inv'
<1>1. At(a, "open") /\ lock = None /\ UNCHANGED Others
  BY DEF Open
<1>2. CASE Fails(a)
  BY <1>1, <1>2, FailsOK
<1>3. CASE ~Fails(a)
  <2>1. /\ lock' = a /\ doc' = <<>> /\ Advance(a) /\ Overtaken(a)
        /\ UNCHANGED <<present, settings, daily, audit>>
    BY <1>3 DEF Open
  <2>2. /\ op[a] # NoOp /\ Located(op[a].do, at[a], "open") /\ at[a] \in Nat
        /\ Moves(a) /\ Keeps(a) /\ Sound(op'[a], at'[a], ops)
        /\ op'[a] = op[a] /\ at'[a] = at[a] + 1 /\ loaded'[a] = loaded[a]
    BY <1>1, <2>1, Written
  <2>3. op[a].do \in Writers /\ at[a] = OpenAt(op[a].do)
    BY <2>2 DEF Located
  <2>4. ReadAt(op[a].do) \in Nat /\ OpenAt(op[a].do) \in Nat /\ ReadAt(op[a].do) < OpenAt(op[a].do)
    BY <2>2, <2>3, UnderWay
  <2>5. op[a].do # "settings" /\ op[a].do # "daily"
    BY <2>3 DEF Writers
  <2>6. /\ UNCHANGED <<surface, session, present, settings, daily, audit, ops>>
        /\ fresh' = [b \in Actors |-> fresh[b] /\ (b = a \/ Idle(b) \/ OnSettings(b) # OnSettings(a))]
        /\ trusted' = (trusted /\ fresh[a])
    BY <1>1, <2>1 DEF Others, Overtaken
  <2>7. VariablesOK'
    BY <2>1, <2>2, <2>6 DEF Inv, VariablesOK, Moves
  <2>8. OperationsOK'
    BY <2>2, <2>6, OperationsStay
  <2>9. /\ Unwritten(op'[a], at'[a]) /\ Unwritten(op[a], at[a]) /\ Holding(op[a], at[a])
        /\ ~FillingSettings(op'[a], at'[a]) /\ ~HoldingSettings(op'[a], at'[a])
        /\ Filling(op'[a], at'[a]) /\ at'[a] > OpenAt(op'[a].do)
    BY <2>2, <2>3, <2>4, <2>5 DEF Unwritten, Holding, Filling, FillingSettings, HoldingSettings
  <2>10. Pending' \subseteq Pending
    BY <2>2, <2>9, PendingStay
  <2>11. Tidy(doc', ops', Pending')
    <3>1. <<>> \in Seq(EntryType) /\ Len(<<>>) = 0
      BY EmptySeq
    <3> QED
      BY <2>1, <3>1 DEF Tidy
  <2>12. \A b \in Actors : b # a => /\ op'[b] = op[b] /\ at'[b] = at[b]
                                    /\ ~Filling(op[b], at[b]) /\ ~FillingSettings(op[b], at[b])
    BY <1>1, <2>2, NotWriting DEF Moves
  <2>13. /\ \A b \in Actors : b # a /\ Holding(op'[b], at'[b]) =>
              /\ Tidy(loaded'[b], ops', Pending') /\ ~Unknown(loaded'[b], op'[b])
              /\ fresh'[b] /\ at'[b] <= OpenAt(op'[b].do) =>
                   loaded'[b] = doc' /\ \A c \in Actors : ~Filling(op'[c], at'[c])
         /\ \A b \in Actors : b # a /\ HoldingSettings(op'[b], at'[b]) =>
              /\ loaded'[b] \in Seq(Settings) /\ Len(loaded'[b]) = 1
              /\ fresh'[b] /\ at'[b] = 2 => loaded'[b][1] = settings'
    <3>1. \A b \in Actors : b # a /\ Holding(op[b], at[b]) => ~fresh'[b]
      <4>1. \A b \in Actors : Holding(op[b], at[b]) => ~Idle(b) /\ OnSettings(b) = FALSE
        BY DEF Holding, Unwritten, Writers, Idle, OnSettings
      <4>2. OnSettings(a) = FALSE
        BY <2>5 DEF OnSettings
      <4> QED
        BY <2>6, <4>1, <4>2
    <3>2. \A b \in Actors : b # a /\ fresh'[b] /\ HoldingSettings(op[b], at[b]) /\ at[b] = 2 =>
            fresh[b] /\ loaded[b][1] = settings'
      <4>1. \A b \in Actors : fresh'[b] => fresh[b]
        BY <2>6
      <4> QED
        BY <2>6, <4>1 DEF Inv, LoadedOK
    <3>3. \A b \in Actors : b # a /\ fresh'[b] /\ Holding(op[b], at[b]) =>
            fresh[b] /\ (at[b] <= OpenAt(op[b].do) => doc' = doc /\ ~Filling(op'[a], at'[a]))
      BY <3>1
    <3> QED
      BY <2>2, <2>6, <2>10, <3>2, <3>3, LoadedStay
  <2>14. LoadedOK'
    <3>1. Tidy(loaded[a], ops, Pending) /\ ~Unknown(loaded[a], op[a])
      BY <2>9 DEF Inv, LoadedOK
    <3>2. Tidy(loaded[a], ops', Pending')
      BY <2>6, <2>10, <3>1, TidyFewer
    <3>3. ~(at'[a] <= OpenAt(op'[a].do))
      BY <2>2, <2>3, <2>4
    <3> QED
      BY <2>2, <2>9, <2>13, <3>1, <3>2, <3>3 DEF LoadedOK
  <2>15. LockOK'
    BY <2>1, <2>9, <2>12 DEF LockOK
  <2>16. DailyOK'
    BY <2>2, <2>5, <2>6, DailyStay
  <2> QED
    BY <2>7, <2>8, <2>11, <2>14, <2>15, <2>16 DEF Inv
<1> QED
  BY <1>2, <1>3

(* and filled. *)
LEMMA FillOK ==
    ASSUME Inv, NEW a \in Actors, Fill(a)
    PROVE  Inv'
<1>1. /\ At(a, "fill") /\ lock = a /\ doc' = Changed(loaded[a], op[a])
      /\ lock' = None /\ Advance(a)
      /\ UNCHANGED <<surface, session, present, settings, daily, audit, ops, fresh, trusted>>
  BY DEF Fill, Others, history
<1>2. /\ op[a] # NoOp /\ Located(op[a].do, at[a], "fill") /\ at[a] \in Nat
      /\ Moves(a) /\ Keeps(a) /\ Sound(op'[a], at'[a], ops)
      /\ op'[a] = op[a] /\ at'[a] = at[a] + 1 /\ loaded'[a] = loaded[a]
  BY <1>1, Written
<1>3. op[a].do \in Writers /\ at[a] = OpenAt(op[a].do) + 1
  BY <1>2 DEF Located
<1>4. /\ ReadAt(op[a].do) \in Nat /\ OpenAt(op[a].do) \in Nat /\ ReadAt(op[a].do) < OpenAt(op[a].do)
      /\ op[a] \in Operation /\ op[a].n <= ops /\ op[a].n \in Nat /\ Named(op[a]) /\ ops \in Nat
  BY <1>2, <1>3, UnderWay
<1>5. op[a].do # "settings" /\ op[a].do # "daily"
  BY <1>3 DEF Writers
<1>6. VariablesOK'
  BY <1>1, <1>2 DEF Inv, VariablesOK, Moves
<1>7. OperationsOK'
  BY <1>1, <1>2, OperationsStay
<1>8. /\ ~Unwritten(op'[a], at'[a]) /\ Unwritten(op[a], at[a]) /\ Holding(op[a], at[a])
      /\ ~FillingSettings(op'[a], at'[a]) /\ ~HoldingSettings(op'[a], at'[a])
      /\ Filling(op[a], at[a]) /\ ~Filling(op'[a], at'[a]) /\ ~Holding(op'[a], at'[a])
  BY <1>2, <1>3, <1>4, <1>5 DEF Unwritten, Holding, Filling, FillingSettings, HoldingSettings
<1>9. Pending' \subseteq Pending
  BY <1>2, <1>8, PendingStay
<1>10. Tidy(doc', ops', Pending')
  <2>1. Tidy(loaded[a], ops, Pending) /\ ~Unknown(loaded[a], op[a])
    BY <1>8 DEF Inv, LoadedOK
  <2>2. op[a].do \in Judged => Passed(op[a])
    <3>1. op[a].do \in Judged => JudgedAt(op[a].do) < OpenAt(op[a].do) /\ JudgedAt(op[a].do) \in Nat
      BY <1>3, Places
    <3>2. op[a].do \in Judged => at[a] > JudgedAt(op[a].do)
      BY <1>3, <1>4, <3>1
    <3> QED
      BY <1>2, <3>2 DEF Inv, OperationsOK, Sound
  <2>3. Kept(doc', loaded[a], op[a])
    BY <1>1, <1>3, <1>4, <2>1, <2>2, ChangedKept DEF Tidy
  <2>4. Pending \subseteq Nat /\ op[a].n \in Pending
    BY <1>8, PendingTyped
  <2>5. op[a].n \notin Pending'
    <3>1. \A b \in Actors : Unwritten(op'[b], at'[b]) => op'[b].n # op[a].n
      <4>1. \A b \in Actors : b # a /\ op'[b] # NoOp => op'[b].n # op[a].n
        BY <1>2 DEF Inv, OperationsOK, Moves
      <4>2. \A b \in Actors : Unwritten(op'[b], at'[b]) => b # a /\ op'[b] # NoOp
        BY <1>8 DEF Unwritten
      <4> QED
        BY <4>1, <4>2
    <3>2. Pending' = {op'[b].n : b \in {c \in Actors : Unwritten(op'[c], at'[c])}}
      BY DEF Pending
    <3> QED
      BY <3>1, <3>2
  <2>6. Pending' \subseteq Nat
    BY <1>9, <2>4
  <2>7. Tidy(doc', ops, Pending')
    BY <1>4, <1>9, <2>1, <2>3, <2>4, <2>5, <2>6, TidyKept
  <2> QED
    BY <1>1, <2>7
<1>11. \A b \in Actors : b # a => /\ op'[b] = op[b] /\ at'[b] = at[b]
                                  /\ ~Filling(op[b], at[b]) /\ ~FillingSettings(op[b], at[b])
  <2>1. \A b \in Actors : Filling(op[b], at[b]) \/ FillingSettings(op[b], at[b]) <=> lock = b
    BY DEF Inv, LockOK
  <2> QED
    BY <1>1, <1>2, <2>1 DEF Moves
<1>12. /\ \A b \in Actors : b # a /\ Holding(op'[b], at'[b]) =>
            /\ Tidy(loaded'[b], ops', Pending') /\ ~Unknown(loaded'[b], op'[b])
            /\ fresh'[b] /\ at'[b] <= OpenAt(op'[b].do) =>
                 loaded'[b] = doc' /\ \A c \in Actors : ~Filling(op'[c], at'[c])
       /\ \A b \in Actors : b # a /\ HoldingSettings(op'[b], at'[b]) =>
            /\ loaded'[b] \in Seq(Settings) /\ Len(loaded'[b]) = 1
            /\ fresh'[b] /\ at'[b] = 2 => loaded'[b][1] = settings'
  <2>1. \A b \in Actors : b # a /\ fresh'[b] /\ Holding(op[b], at[b]) =>
          fresh[b] /\ (at[b] <= OpenAt(op[b].do) => doc' = doc /\ ~Filling(op'[a], at'[a]))
    <3>1. \A b \in Actors : fresh[b] /\ Holding(op[b], at[b]) => ~(at[b] <= OpenAt(op[b].do))
      BY <1>8 DEF Inv, LoadedOK
    <3> QED
      BY <1>1, <3>1
  <2>2. \A b \in Actors : b # a /\ fresh'[b] /\ HoldingSettings(op[b], at[b]) /\ at[b] = 2 =>
          fresh[b] /\ loaded[b][1] = settings'
    BY <1>1 DEF Inv, LoadedOK
  <2> QED
    BY <1>1, <1>2, <1>9, <2>1, <2>2, LoadedStay
<1>13. LoadedOK'
  BY <1>8, <1>12 DEF LoadedOK
<1>14. LockOK'
  BY <1>1, <1>8, <1>11, MemoryAssumption DEF LockOK, Actors
<1>15. DailyOK'
  BY <1>1, <1>2, <1>5, DailyStay
<1> QED
  BY <1>6, <1>7, <1>10, <1>13, <1>14, <1>15 DEF Inv

(* A step that reads and writes neither the document nor the settings. *)
LEMMA Aside ==
    ASSUME Inv, NEW a \in Actors, Moves(a), UNCHANGED <<doc, settings, lock, ops, fresh>>,
           ~Unwritten(op'[a], at'[a]), ~HoldingSettings(op'[a], at'[a]),
           ~Filling(op[a], at[a]), ~FillingSettings(op[a], at[a])
    PROVE  Tidy(doc', ops', Pending') /\ LoadedOK' /\ LockOK'
<1>1. /\ ~Holding(op'[a], at'[a]) /\ ~FillingSettings(op'[a], at'[a])
      /\ ~Filling(op'[a], at'[a])
  <2>1. ASSUME Filling(op'[a], at'[a]) PROVE FALSE
    <3>1. op'[a].do \in Writers /\ at'[a] = OpenAt(op'[a].do) + 1 /\ op'[a] # NoOp
      BY <2>1 DEF Filling
    <3>2. OpenAt(op'[a].do) \in Nat
      BY <3>1, Places
    <3> QED
      BY <3>1, <3>2 DEF Unwritten
  <2> QED
    BY <2>1 DEF Holding, FillingSettings, HoldingSettings
<1>2. Pending' \subseteq Pending
  BY PendingStay
<1>3. Tidy(doc', ops', Pending')
  BY <1>2, TidyFewer DEF Inv
<1>4. \A b \in Actors : b # a => op'[b] = op[b] /\ at'[b] = at[b]
  BY DEF Moves
<1>5. /\ \A b \in Actors : b # a /\ Holding(op'[b], at'[b]) =>
           /\ Tidy(loaded'[b], ops', Pending') /\ ~Unknown(loaded'[b], op'[b])
           /\ fresh'[b] /\ at'[b] <= OpenAt(op'[b].do) =>
                loaded'[b] = doc' /\ \A c \in Actors : ~Filling(op'[c], at'[c])
      /\ \A b \in Actors : b # a /\ HoldingSettings(op'[b], at'[b]) =>
           /\ loaded'[b] \in Seq(Settings) /\ Len(loaded'[b]) = 1
           /\ fresh'[b] /\ at'[b] = 2 => loaded'[b][1] = settings'
  <2>1. \A b \in Actors : b # a /\ fresh'[b] /\ Holding(op[b], at[b]) =>
          fresh[b] /\ (at[b] <= OpenAt(op[b].do) => doc' = doc /\ ~Filling(op'[a], at'[a]))
    BY <1>1
  <2>2. \A b \in Actors : b # a /\ fresh'[b] /\ HoldingSettings(op[b], at[b]) /\ at[b] = 2 =>
          fresh[b] /\ loaded[b][1] = settings'
    BY DEF Inv, LoadedOK
  <2> QED
    BY <1>2, <2>1, <2>2, LoadedStay
<1>6. LoadedOK'
  BY <1>1, <1>5 DEF LoadedOK
<1>7. \A b \in Actors : Filling(op'[b], at'[b]) = Filling(op[b], at[b])
                        /\ FillingSettings(op'[b], at'[b]) = FillingSettings(op[b], at[b])
  <2>1. Filling(op'[a], at'[a]) = Filling(op[a], at[a])
        /\ FillingSettings(op'[a], at'[a]) = FillingSettings(op[a], at[a])
    BY <1>1 DEF Filling, FillingSettings
  <2> QED
    BY <1>4, <2>1
<1>8. LockOK'
  BY <1>7 DEF Inv, LockOK
<1> QED
  BY <1>3, <1>6, <1>8

(* The daily log grows by a note nobody wrote before. *)
LEMMA AppendDailyOK ==
    ASSUME Inv, NEW a \in Actors, AppendDaily(a)
    PROVE  Inv'
<1> DEFINE note == [n |-> op[a].n, class |-> op[a].class]
<1>1. /\ At(a, "append") /\ daily' = Append(daily, note) /\ Advance(a)
      /\ UNCHANGED <<surface, session, present, doc, settings, audit, lock, ops, fresh, trusted>>
  BY DEF AppendDaily, Others, history
<1>2. /\ op[a] # NoOp /\ Located(op[a].do, at[a], "append") /\ at[a] \in Nat
      /\ Moves(a) /\ Keeps(a) /\ Sound(op'[a], at'[a], ops)
      /\ op'[a] = op[a] /\ at'[a] = at[a] + 1 /\ loaded'[a] = loaded[a]
  BY <1>1, Written
<1>3. op[a].do = "daily" /\ at[a] = 3
  BY <1>2 DEF Located
<1>4. op[a] \in Operation /\ op[a].n <= ops /\ op[a].n \in Nat /\ ops \in Nat
  BY <1>2, UnderWay
<1>5. VariablesOK'
  BY <1>1, <1>2 DEF Inv, VariablesOK, Moves
<1>6. OperationsOK'
  BY <1>1, <1>2, OperationsStay
<1>7. /\ ~Unwritten(op'[a], at'[a]) /\ ~HoldingSettings(op'[a], at'[a])
      /\ ~Filling(op[a], at[a]) /\ ~FillingSettings(op[a], at[a])
  BY <1>2, <1>3 DEF Writers, Unwritten, HoldingSettings, Filling, FillingSettings
<1>8. Tidy(doc', ops', Pending') /\ LoadedOK' /\ LockOK'
  BY <1>1, <1>2, <1>7, Aside
<1>9. note \in NoteType
  <2>1. Passed(op[a])
    <3>1. op[a].do \in Judged /\ JudgedAt(op[a].do) = 2
      BY <1>3 DEF Judged, JudgedAt
    <3> QED
      BY <1>2, <1>3, <3>1 DEF Inv, OperationsOK, Sound
  <2> QED
    BY <1>4, <2>1 DEF NoteType, Operation, Passed
<1>10. note.n = op[a].n
  OBVIOUS
<1> HIDE DEF note
<1>11. daily \in Seq(NoteType) /\ Len(daily) \in Nat
  BY ListFacts DEF Inv, DailyOK
<1>12. /\ daily' \in Seq(NoteType) /\ Len(daily') = Len(daily) + 1
       /\ \A i \in 1..Len(daily) : daily'[i] = daily[i]
       /\ daily'[Len(daily) + 1] = note
  BY <1>1, <1>9, <1>11, AppendProperties
<1>13. ~Noted(daily, op[a].n)
  BY <1>2, <1>3 DEF Inv, DailyOK
<1>14. \A i \in 1..Len(daily') : i \in 1..Len(daily) \/ i = Len(daily) + 1
  BY <1>11, <1>12
<1>15. \A i \in 1..Len(daily') : daily'[i].n <= ops'
  BY <1>1, <1>4, <1>10, <1>12, <1>14 DEF Inv, DailyOK
<1>16. ASSUME NEW i \in 1..Len(daily'), NEW j \in 1..Len(daily'), daily'[i].n = daily'[j].n
       PROVE  i = j
  <2>1. \A k \in 1..Len(daily) : daily[k].n # op[a].n
    BY <1>13 DEF Noted
  <2>2. CASE i \in 1..Len(daily) /\ j \in 1..Len(daily)
    BY <1>12, <1>16, <2>2 DEF Inv, DailyOK
  <2>3. CASE i \in 1..Len(daily) /\ j = Len(daily) + 1
    BY <1>10, <1>12, <1>16, <2>1, <2>3
  <2>4. CASE i = Len(daily) + 1 /\ j \in 1..Len(daily)
    BY <1>10, <1>12, <1>16, <2>1, <2>4
  <2>5. CASE i = Len(daily) + 1 /\ j = Len(daily) + 1
    BY <2>5
  <2> QED
    BY <1>14, <2>2, <2>3, <2>4, <2>5
<1>17. \A n : Noted(daily', n) <=> Noted(daily, n) \/ n = op[a].n
  <2>1. ASSUME NEW n, Noted(daily, n) PROVE Noted(daily', n)
    <3>1. PICK i \in 1..Len(daily) : daily[i].n = n
      BY <2>1 DEF Noted
    <3>2. i \in 1..Len(daily') /\ daily'[i].n = n
      BY <1>11, <1>12, <3>1
    <3> QED
      BY <3>2 DEF Noted
  <2>2. Noted(daily', op[a].n)
    <3>1. Len(daily) + 1 \in 1..Len(daily')
      BY <1>11, <1>12
    <3> QED
      BY <1>10, <1>12, <3>1 DEF Noted
  <2>3. ASSUME NEW n, Noted(daily', n), n # op[a].n PROVE Noted(daily, n)
    <3>1. PICK i \in 1..Len(daily') : daily'[i].n = n
      BY <2>3 DEF Noted
    <3>2. i \in 1..Len(daily)
      BY <1>10, <1>12, <1>14, <2>3, <3>1
    <3> QED
      BY <1>12, <3>1, <3>2 DEF Noted
  <2> QED
    BY <2>1, <2>2, <2>3
<1>18. ASSUME NEW b \in Actors, op'[b] # NoOp, op'[b].do = "daily"
       PROVE  /\ at'[b] <= 3 => ~Noted(daily', op'[b].n)
              /\ at'[b] = 4 /\ session' # "deleted" => Noted(daily', op'[b].n)
  <2>1. CASE b = a
    <3>1. at'[b] = 4 /\ op'[b].n = op[a].n
      BY <1>2, <1>3, <2>1
    <3> QED
      BY <1>17, <3>1
  <2>2. CASE b # a
    <3>1. op'[b] = op[b] /\ at'[b] = at[b]
      BY <1>2, <2>2 DEF Moves
    <3>2. op[b].n # op[a].n
      BY <1>2, <1>18, <2>2, <3>1 DEF Inv, OperationsOK
    <3>3. /\ at[b] <= 3 => ~Noted(daily, op[b].n)
          /\ at[b] = 4 /\ session # "deleted" => Noted(daily, op[b].n)
      BY <1>18, <3>1 DEF Inv, DailyOK
    <3> QED
      BY <1>1, <1>17, <3>1, <3>2, <3>3
  <2> QED
    BY <2>1, <2>2
<1>19. session' # "deleted" => \A n \in audit' : Noted(daily', n)
  BY <1>1, <1>17 DEF Inv, DailyOK
<1>20. DailyOK'
  BY <1>12, <1>15, <1>16, <1>18, <1>19 DEF DailyOK
<1> QED
  BY <1>5, <1>6, <1>8, <1>20 DEF Inv

(* What is audited was written. *)
LEMMA AuditOK ==
    ASSUME Inv, NEW a \in Actors, Audit(a)
    PROVE  Inv'
<1>1. /\ At(a, "audit") /\ Done(a)
      /\ audit' = IF op[a].do = "daily" THEN audit \cup {op[a].n} ELSE audit
      /\ UNCHANGED <<surface, session, present, doc, settings, daily, lock, ops, fresh, trusted>>
  BY DEF Audit, Others, history
<1>2. op[a] # NoOp /\ Located(op[a].do, at[a], "audit")
  BY <1>1, Here
<1>3. Moves(a) /\ op'[a] = NoOp /\ at'[a] = 1
  BY <1>1, Finished
<1>4. VariablesOK'
  BY <1>1, <1>3 DEF Inv, VariablesOK, Moves
<1>5. OperationsOK'
  <2>1. Sound(op'[a], at'[a], ops)
    BY <1>3 DEF Sound
  <2> QED
    BY <1>1, <1>3, <2>1, OperationsStay
<1>6. /\ ~Unwritten(op'[a], at'[a]) /\ ~HoldingSettings(op'[a], at'[a])
      /\ ~Filling(op[a], at[a]) /\ ~FillingSettings(op[a], at[a])
  BY <1>2, <1>3 DEF Located, Unwritten, HoldingSettings, Filling, FillingSettings
<1>7. Tidy(doc', ops', Pending') /\ LoadedOK' /\ LockOK'
  BY <1>1, <1>3, <1>6, Aside
<1>8. ASSUME session # "deleted", NEW n \in audit' PROVE Noted(daily, n)
  <2>1. CASE n \in audit
    BY <1>8, <2>1 DEF Inv, DailyOK
  <2>2. CASE n \notin audit
    <3>1. op[a].do = "daily" /\ n = op[a].n
      BY <1>1, <1>8, <2>2
    <3>2. at[a] = 4
      BY <1>2, <3>1 DEF Located
    <3> QED
      BY <1>2, <1>8, <3>1, <3>2 DEF Inv, DailyOK
  <2> QED
    BY <2>1, <2>2
<1>9. \A b \in Actors : op'[b] # NoOp => op'[b] = op[b] /\ at'[b] = at[b]
  BY <1>3 DEF Moves
<1>10. DailyOK'
  BY <1>1, <1>8, <1>9 DEF Inv, DailyOK
<1> QED
  BY <1>4, <1>5, <1>7, <1>10 DEF Inv

(* The settings are what was read or what a write left. *)
LEMMA SettingsList ==
    ASSUME NEW x \in Settings
    PROVE  <<x>> \in Seq(Settings) /\ <<x>> \in Seq(EntryType \cup Settings)
           /\ Len(<<x>>) = 1 /\ <<x>>[1] = x
OBVIOUS

(* The settings read, *)
LEMMA ReadSettingsOK ==
    ASSUME Inv, NEW a \in Actors, ReadSettings(a)
    PROVE  Inv'
<1>1. At(a, "settings") /\ UNCHANGED Others
  BY DEF ReadSettings
<1>2. CASE Fails(a)
  BY <1>1, <1>2, FailsOK
<1>3. CASE ~Fails(a)
  <2>1. /\ settings # Torn
        /\ loaded' = [loaded EXCEPT ![a] = <<settings>>] /\ at' = [at EXCEPT ![a] = at[a] + 1]
        /\ fresh' = [fresh EXCEPT ![a] = TRUE]
        /\ UNCHANGED <<op, files, lock, trusted>>
    BY <1>3 DEF ReadSettings
  <2>2. op[a] # NoOp /\ Located(op[a].do, at[a], "settings")
    BY <1>1, Here
  <2>3. op[a].do = "settings" /\ at[a] = 1
    BY <2>2 DEF Located
  <2>4. Sound(op[a], at[a] + 1, ops)
    <3>1. Len(Steps("settings")) = 4
      BY StepLists DEF Spelt
    <3>2. at[a] # Len(Steps(op[a].do))
      BY <2>3, <3>1
    <3> QED
      BY <1>1, <3>2, SoundNext
  <2>5. settings \in Settings
    BY <2>1 DEF Inv, VariablesOK
  <2>6. /\ <<settings>> \in Seq(Settings) /\ <<settings>> \in Seq(EntryType \cup Settings)
        /\ Len(<<settings>>) = 1 /\ <<settings>>[1] = settings
    BY <2>5, SettingsList
  <2>7. /\ op \in [Actors -> Operation \cup {NoOp}] /\ at \in [Actors -> Nat]
        /\ loaded \in [Actors -> Seq(EntryType \cup Settings)] /\ fresh \in [Actors -> BOOLEAN]
    BY DEF Inv, VariablesOK
  <2>8. Moves(a) /\ op'[a] = op[a] /\ at'[a] = 2 /\ loaded'[a] = <<settings>>
    BY <2>1, <2>3, <2>6, <2>7 DEF Moves
  <2>9. fresh' \in [Actors -> BOOLEAN] /\ \A b \in Actors : b # a => fresh'[b] = fresh[b]
    BY <2>1, <2>7
  <2>10. UNCHANGED <<surface, session, present, doc, settings, daily, audit, lock, ops, trusted>>
    BY <1>1, <2>1 DEF Others, files
  <2>11. VariablesOK'
    BY <2>8, <2>9, <2>10 DEF Inv, VariablesOK, Moves
  <2>12. Keeps(a)
    BY <2>2, <2>8 DEF Keeps
  <2>13. OperationsOK'
    BY <2>3, <2>4, <2>8, <2>10, <2>12, OperationsStay
  <2>14. /\ ~Unwritten(op'[a], at'[a]) /\ ~Holding(op'[a], at'[a])
         /\ ~Filling(op[a], at[a]) /\ ~Filling(op'[a], at'[a])
         /\ ~FillingSettings(op[a], at[a]) /\ ~FillingSettings(op'[a], at'[a])
    BY <2>3, <2>8 DEF Writers, Unwritten, Holding, Filling, FillingSettings
  <2>15. Pending' \subseteq Pending
    BY <2>8, <2>14, PendingStay
  <2>16. Tidy(doc', ops', Pending')
    BY <2>10, <2>15, TidyFewer DEF Inv
  <2>17. /\ \A b \in Actors : b # a /\ Holding(op'[b], at'[b]) =>
              /\ Tidy(loaded'[b], ops', Pending') /\ ~Unknown(loaded'[b], op'[b])
              /\ fresh'[b] /\ at'[b] <= OpenAt(op'[b].do) =>
                   loaded'[b] = doc' /\ \A c \in Actors : ~Filling(op'[c], at'[c])
         /\ \A b \in Actors : b # a /\ HoldingSettings(op'[b], at'[b]) =>
              /\ loaded'[b] \in Seq(Settings) /\ Len(loaded'[b]) = 1
              /\ fresh'[b] /\ at'[b] = 2 => loaded'[b][1] = settings'
    <3>1. \A b \in Actors : b # a /\ fresh'[b] /\ Holding(op[b], at[b]) =>
            fresh[b] /\ (at[b] <= OpenAt(op[b].do) => doc' = doc /\ ~Filling(op'[a], at'[a]))
      BY <2>9, <2>10, <2>14
    <3>2. \A b \in Actors : b # a /\ fresh'[b] /\ HoldingSettings(op[b], at[b]) /\ at[b] = 2 =>
            fresh[b] /\ loaded[b][1] = settings'
      BY <2>9, <2>10 DEF Inv, LoadedOK
    <3> QED
      BY <2>8, <2>10, <2>15, <3>1, <3>2, LoadedStay
  <2>18. LoadedOK'
    <3>1. /\ loaded'[a] \in Seq(Settings) /\ Len(loaded'[a]) = 1
          /\ loaded'[a][1] = settings'
      BY <2>6, <2>8, <2>10
    <3> QED
      BY <2>14, <2>17, <3>1 DEF LoadedOK
  <2>19. \A b \in Actors : Filling(op'[b], at'[b]) = Filling(op[b], at[b])
                           /\ FillingSettings(op'[b], at'[b]) = FillingSettings(op[b], at[b])
    <3>1. \A b \in Actors : b # a => op'[b] = op[b] /\ at'[b] = at[b]
      BY <2>8 DEF Moves
    <3>2. Filling(op'[a], at'[a]) = Filling(op[a], at[a])
          /\ FillingSettings(op'[a], at'[a]) = FillingSettings(op[a], at[a])
      BY <2>14 DEF Filling, FillingSettings
    <3> QED
      BY <3>1, <3>2
  <2>20. LockOK'
    BY <2>10, <2>19 DEF Inv, LockOK
  <2>21. DailyOK'
    BY <2>3, <2>8, <2>10, DailyStay
  <2> QED
    BY <2>11, <2>13, <2>16, <2>18, <2>20, <2>21 DEF Inv
<1> QED
  BY <1>2, <1>3

(* their file opened, *)
LEMMA OpenSettingsOK ==
    ASSUME Inv, NEW a \in Actors, OpenSettings(a)
    PROVE  Inv'
<1>1. /\ At(a, "openSettings") /\ lock = None /\ lock' = a /\ settings' = Torn
      /\ Advance(a) /\ Overtaken(a)
      /\ UNCHANGED <<surface, session, present, doc, daily, audit, ops>>
  BY DEF OpenSettings, Others
<1>2. /\ op[a] # NoOp /\ Located(op[a].do, at[a], "openSettings") /\ at[a] \in Nat
      /\ Moves(a) /\ Keeps(a) /\ Sound(op'[a], at'[a], ops)
      /\ op'[a] = op[a] /\ at'[a] = at[a] + 1 /\ loaded'[a] = loaded[a]
  BY <1>1, Written
<1>3. op[a].do = "settings" /\ at[a] = 2
  BY <1>2 DEF Located
<1>4. /\ fresh' = [b \in Actors |-> fresh[b] /\ (b = a \/ Idle(b) \/ OnSettings(b) # OnSettings(a))]
      /\ trusted' = (trusted /\ fresh[a])
  BY <1>1 DEF Overtaken
<1>5. VariablesOK'
  BY <1>1, <1>2, <1>4 DEF Inv, VariablesOK, Moves
<1>6. OperationsOK'
  BY <1>1, <1>2, OperationsStay
<1>7. /\ ~Unwritten(op'[a], at'[a]) /\ ~Holding(op'[a], at'[a]) /\ HoldingSettings(op[a], at[a])
      /\ FillingSettings(op'[a], at'[a]) /\ ~Filling(op'[a], at'[a])
  BY <1>2, <1>3 DEF Writers, Unwritten, Holding, HoldingSettings, Filling, FillingSettings
<1>8. Pending' \subseteq Pending
  BY <1>2, <1>7, PendingStay
<1>9. Tidy(doc', ops', Pending')
  BY <1>1, <1>8, TidyFewer DEF Inv
<1>10. \A b \in Actors : b # a => /\ op'[b] = op[b] /\ at'[b] = at[b]
                                  /\ ~Filling(op[b], at[b]) /\ ~FillingSettings(op[b], at[b])
  BY <1>1, <1>2, NotWriting DEF Moves
<1>11. /\ \A b \in Actors : b # a /\ Holding(op'[b], at'[b]) =>
            /\ Tidy(loaded'[b], ops', Pending') /\ ~Unknown(loaded'[b], op'[b])
            /\ fresh'[b] /\ at'[b] <= OpenAt(op'[b].do) =>
                 loaded'[b] = doc' /\ \A c \in Actors : ~Filling(op'[c], at'[c])
       /\ \A b \in Actors : b # a /\ HoldingSettings(op'[b], at'[b]) =>
            /\ loaded'[b] \in Seq(Settings) /\ Len(loaded'[b]) = 1
            /\ fresh'[b] /\ at'[b] = 2 => loaded'[b][1] = settings'
  <2>1. \A b \in Actors : b # a /\ fresh'[b] /\ Holding(op[b], at[b]) =>
          fresh[b] /\ (at[b] <= OpenAt(op[b].do) => doc' = doc /\ ~Filling(op'[a], at'[a]))
    BY <1>1, <1>4, <1>7
  <2>2. \A b \in Actors : b # a /\ HoldingSettings(op[b], at[b]) => ~fresh'[b]
    <3>1. \A b \in Actors : HoldingSettings(op[b], at[b]) => ~Idle(b) /\ OnSettings(b) = TRUE
      BY DEF HoldingSettings, Idle, OnSettings
    <3>2. OnSettings(a) = TRUE
      BY <1>3 DEF OnSettings
    <3> QED
      BY <1>4, <3>1, <3>2
  <2>3. \A b \in Actors : b # a /\ fresh'[b] /\ HoldingSettings(op[b], at[b]) /\ at[b] = 2 =>
          fresh[b] /\ loaded[b][1] = settings'
    BY <2>2
  <2> QED
    BY <1>1, <1>2, <1>8, <2>1, <2>3, LoadedStay
<1>12. LoadedOK'
  <2>1. loaded[a] \in Seq(Settings) /\ Len(loaded[a]) = 1
    BY <1>7 DEF Inv, LoadedOK
  <2>2. at'[a] # 2
    BY <1>2, <1>3
  <2> QED
    BY <1>2, <1>7, <1>11, <2>1, <2>2 DEF LoadedOK
<1>13. LockOK'
  BY <1>1, <1>7, <1>10 DEF LockOK
<1>14. DailyOK'
  BY <1>1, <1>2, <1>3, DailyStay
<1> QED
  BY <1>5, <1>6, <1>9, <1>12, <1>13, <1>14 DEF Inv

(* and filled. *)
LEMMA FillSettingsOK ==
    ASSUME Inv, NEW a \in Actors, FillSettings(a)
    PROVE  Inv'
<1>1. /\ At(a, "fillSettings") /\ lock = a /\ lock' = None /\ Advance(a)
      /\ UNCHANGED <<surface, session, present, doc, daily, audit, ops, fresh, trusted>>
  BY DEF FillSettings, Others, history
<1>2. /\ op[a] # NoOp /\ Located(op[a].do, at[a], "fillSettings") /\ at[a] \in Nat
      /\ Moves(a) /\ Keeps(a) /\ Sound(op'[a], at'[a], ops)
      /\ op'[a] = op[a] /\ at'[a] = at[a] + 1 /\ loaded'[a] = loaded[a]
  BY <1>1, Written
<1>3. op[a].do = "settings" /\ at[a] = 3
  BY <1>2 DEF Located
<1>4. /\ ~Unwritten(op'[a], at'[a]) /\ ~Holding(op'[a], at'[a])
      /\ HoldingSettings(op[a], at[a]) /\ ~HoldingSettings(op'[a], at'[a])
      /\ FillingSettings(op[a], at[a]) /\ ~FillingSettings(op'[a], at'[a])
      /\ ~Filling(op'[a], at'[a])
  BY <1>2, <1>3 DEF Writers, Unwritten, Holding, HoldingSettings, Filling, FillingSettings
<1>5. settings = Torn /\ loaded[a] \in Seq(Settings) /\ Len(loaded[a]) = 1
  BY <1>4 DEF Inv, LockOK, LoadedOK
<1>6. settings' \in Settings
  <2>1. loaded[a][1] \in Settings
    BY <1>5, ListFacts
  <2>2. CASE \E mode \in Modes : settings' = [loaded[a][1] EXCEPT !.mode = mode]
    BY <2>1, <2>2 DEF Settings
  <2>3. CASE \E policy \in Policies : settings' = [loaded[a][1] EXCEPT !.policy = policy]
    BY <2>1, <2>3 DEF Settings
  <2> QED
    BY <2>2, <2>3 DEF FillSettings
<1>7. VariablesOK'
  BY <1>1, <1>2, <1>6 DEF Inv, VariablesOK, Moves
<1>8. OperationsOK'
  BY <1>1, <1>2, OperationsStay
<1>9. Pending' \subseteq Pending
  BY <1>2, <1>4, PendingStay
<1>10. Tidy(doc', ops', Pending')
  BY <1>1, <1>9, TidyFewer DEF Inv
<1>11. \A b \in Actors : b # a => /\ op'[b] = op[b] /\ at'[b] = at[b]
                                  /\ ~Filling(op[b], at[b]) /\ ~FillingSettings(op[b], at[b])
  <2>1. \A b \in Actors : Filling(op[b], at[b]) \/ FillingSettings(op[b], at[b]) <=> lock = b
    BY DEF Inv, LockOK
  <2> QED
    BY <1>1, <1>2, <2>1 DEF Moves
<1>12. /\ \A b \in Actors : b # a /\ Holding(op'[b], at'[b]) =>
            /\ Tidy(loaded'[b], ops', Pending') /\ ~Unknown(loaded'[b], op'[b])
            /\ fresh'[b] /\ at'[b] <= OpenAt(op'[b].do) =>
                 loaded'[b] = doc' /\ \A c \in Actors : ~Filling(op'[c], at'[c])
       /\ \A b \in Actors : b # a /\ HoldingSettings(op'[b], at'[b]) =>
            /\ loaded'[b] \in Seq(Settings) /\ Len(loaded'[b]) = 1
            /\ fresh'[b] /\ at'[b] = 2 => loaded'[b][1] = settings'
  <2>1. \A b \in Actors : b # a /\ fresh'[b] /\ Holding(op[b], at[b]) =>
          fresh[b] /\ (at[b] <= OpenAt(op[b].do) => doc' = doc /\ ~Filling(op'[a], at'[a]))
    BY <1>1, <1>4
  <2>2. ASSUME NEW b \in Actors, fresh[b], HoldingSettings(op[b], at[b]), at[b] = 2 PROVE FALSE
    <3>1. loaded[b] \in Seq(Settings) /\ Len(loaded[b]) = 1 /\ loaded[b][1] = settings
      BY <2>2 DEF Inv, LoadedOK
    <3>2. settings \in Settings
      BY <3>1, ListFacts
    <3> QED
      BY <1>5, <3>2 DEF Torn, Settings, Modes
  <2>3. \A b \in Actors : b # a /\ fresh'[b] /\ HoldingSettings(op[b], at[b]) /\ at[b] = 2 =>
          fresh[b] /\ loaded[b][1] = settings'
    BY <1>1, <2>2
  <2> QED
    BY <1>1, <1>2, <1>9, <2>1, <2>3, LoadedStay
<1>13. LoadedOK'
  BY <1>4, <1>12 DEF LoadedOK
<1>14. LockOK'
  BY <1>1, <1>4, <1>11, MemoryAssumption DEF LockOK, Actors
<1>15. DailyOK'
  BY <1>1, <1>2, <1>3, DailyStay
<1> QED
  BY <1>7, <1>8, <1>10, <1>13, <1>14, <1>15 DEF Inv

(* An operation begins, with a new number. *)
Begins(a) == \E o \in Operation : o.n = ops + 1 /\ Named(o) /\ Start(a, o)

(* It starts at its first step, which neither judges nor writes. *)
LEMMA FirstStep ==
  \A do \in Dos : /\ 1 \in DOMAIN Steps(do)
                  /\ do \in Judged => ~(1 > JudgedAt(do))
                  /\ do \in Writers => ~(1 > ReadAt(do)) /\ 1 # OpenAt(do) + 1
<1>1. ASSUME NEW do \in Dos PROVE 1 \in DOMAIN Steps(do)
  <2>1. DOMAIN Steps(do) = 1..Len(Steps(do)) /\ Len(Steps(do)) \in Nat
    BY Places
  <2>2. Len(Steps(do)) >= 1
    <3>1. CASE do \in Writers
      BY <3>1, Places
    <3>2. CASE do = "daily"
      BY <3>2, StepLists DEF Spelt
    <3>3. CASE do = "settings"
      BY <3>3, StepLists DEF Spelt
    <3>4. CASE do = "search"
      BY <3>4, StepLists DEF Spelt
    <3>5. CASE do = "show"
      BY <3>5, StepLists DEF Spelt
    <3> QED
      BY <3>1, <3>2, <3>3, <3>4, <3>5 DEF Dos
  <2> QED
    BY <2>1, <2>2
<1>2. \A do \in Judged : ~(1 > JudgedAt(do))
  BY DEF JudgedAt
<1>3. \A do \in Writers : ~(1 > ReadAt(do)) /\ 1 # OpenAt(do) + 1
  <2>1. ASSUME NEW do \in Writers PROVE ~(1 > ReadAt(do)) /\ 1 # OpenAt(do) + 1
    <3>1. ReadAt(do) \in {1, 2, 3, 4, 5} /\ OpenAt(do) \in {2, 5, 6, 7}
      BY DEF ReadAt, OpenAt
    <3> QED
      BY <3>1
  <2> QED
    BY <2>1
<1> QED
  BY <1>1, <1>2, <1>3

(* The beginning of an operation. *)
LEMMA BeginsOK ==
    ASSUME Inv, NEW a \in Actors, Begins(a)
    PROVE  Inv'
<1>1. PICK o \in Operation : o.n = ops + 1 /\ Named(o) /\ Start(a, o)
  BY DEF Begins
<1>2. /\ op[a] = NoOp /\ ops < MaxOps /\ op' = [op EXCEPT ![a] = o]
      /\ fresh' = [fresh EXCEPT ![a] = TRUE] /\ ops' = ops + 1
      /\ UNCHANGED <<surface, session, present, doc, settings, daily, audit, lock, at, loaded, trusted>>
  BY <1>1 DEF Start, Idle, files
<1>3. ops \in Nat /\ ops' \in Nat /\ ops <= ops' /\ ops' > ops /\ ops' \in 0..MaxOps
  BY <1>2, MemoryAssumption DEF Inv, VariablesOK
<1>4. o # NoOp /\ o.do \in Dos
  BY DEF Operation, Dos, Writers, NoOp
<1>5. /\ op'[a] = o /\ \A b \in Actors : b # a => op'[b] = op[b]
      /\ op' \in [Actors -> Operation \cup {NoOp}] /\ fresh' \in [Actors -> BOOLEAN]
      /\ \A b \in Actors : b # a => fresh'[b] = fresh[b]
  BY <1>2 DEF Inv, VariablesOK
<1>6. VariablesOK'
  BY <1>2, <1>3, <1>5 DEF Inv, VariablesOK
<1>7. at[a] = 1
  BY <1>2 DEF Inv, OperationsOK, Sound
<1>8. OperationsOK'
  <2>1. Sound(o, 1, ops')
    BY <1>1, <1>2, <1>4, FirstStep DEF Sound
  <2>2. \A b \in Actors : op[b] # NoOp => op[b].n \in Nat /\ op[b].n <= ops
    BY UnderWay
  <2>3. ASSUME NEW b \in Actors PROVE Sound(op'[b], at'[b], ops')
    <3>1. CASE b = a
      BY <1>2, <1>5, <1>7, <2>1, <3>1
    <3>2. CASE b # a
      <4>1. Sound(op[b], at[b], ops)
        BY DEF Inv, OperationsOK
      <4>2. op[b] # NoOp => op[b].n <= ops'
        BY <1>3, <2>2
      <4>3. Sound(op[b], at[b], ops')
        BY <4>1, <4>2 DEF Sound
      <4> QED
        BY <1>2, <1>5, <3>2, <4>3
    <3> QED
      BY <3>1, <3>2
  <2>4. \A b, c \in Actors : b # c /\ op'[b] # NoOp /\ op'[c] # NoOp => op'[b].n # op'[c].n
    <3>1. \A b \in Actors : b # a /\ op[b] # NoOp => op[b].n # o.n
      BY <1>1, <1>3, <2>2
    <3> QED
      BY <1>5, <3>1 DEF Inv, OperationsOK
  <2> QED
    BY <2>3, <2>4 DEF OperationsOK
<1>9. /\ ~Holding(op'[a], at'[a]) /\ ~HoldingSettings(op'[a], at'[a])
      /\ ~Filling(op'[a], at'[a]) /\ ~FillingSettings(op'[a], at'[a])
      /\ ~Filling(op[a], at[a]) /\ ~FillingSettings(op[a], at[a])
  <2>1. op'[a] = o /\ at'[a] = 1 /\ at[a] = 1 /\ op[a] = NoOp
    BY <1>2, <1>5, <1>7
  <2>2. o.do \in Writers => ~(1 > ReadAt(o.do)) /\ 1 # OpenAt(o.do) + 1
    BY <1>4, FirstStep
  <2>3. ~Holding(o, 1) /\ ~Filling(o, 1)
    BY <2>2 DEF Holding, Unwritten, Filling
  <2>4. ~HoldingSettings(o, 1) /\ ~FillingSettings(o, 1)
    BY DEF HoldingSettings, FillingSettings
  <2>5. ~Filling(NoOp, 1) /\ ~FillingSettings(NoOp, 1)
    BY DEF Filling, FillingSettings
  <2> QED
    BY <2>1, <2>3, <2>4, <2>5
<1>10. \A n \in Pending' : n \in Pending \/ (n \in Nat /\ n > ops)
  <2>1. ASSUME NEW b \in Actors, Unwritten(op'[b], at'[b])
        PROVE  op'[b].n \in Pending \/ (op'[b].n \in Nat /\ op'[b].n > ops)
    <3>1. CASE b = a
      BY <1>1, <1>3, <1>5, <3>1
    <3>2. CASE b # a
      BY <1>2, <1>5, <2>1, <3>2 DEF Pending
    <3> QED
      BY <3>1, <3>2
  <2>2. Pending' = {op'[b].n : b \in {c \in Actors : Unwritten(op'[c], at'[c])}}
    BY DEF Pending
  <2> QED
    BY <2>1, <2>2
<1>11. \A s : Tidy(s, ops, Pending) => Tidy(s, ops', Pending')
  <2>1. ASSUME NEW s, Tidy(s, ops, Pending) PROVE Tidy(s, ops', Pending')
    BY <1>3, <1>10, <2>1, TidyStays
  <2> QED
    BY <2>1
<1>12. Tidy(doc', ops', Pending')
  BY <1>2, <1>11 DEF Inv
<1>13. \A b \in Actors : Filling(op'[b], at'[b]) = Filling(op[b], at[b])
                         /\ FillingSettings(op'[b], at'[b]) = FillingSettings(op[b], at[b])
  <2>1. Filling(op'[a], at'[a]) = Filling(op[a], at[a])
        /\ FillingSettings(op'[a], at'[a]) = FillingSettings(op[a], at[a])
    BY <1>9 DEF Filling, FillingSettings
  <2> QED
    BY <1>2, <1>5, <2>1
<1>14. LoadedOK'
  <2>1. ASSUME NEW b \in Actors, Holding(op'[b], at'[b])
        PROVE  /\ Tidy(loaded'[b], ops', Pending') /\ ~Unknown(loaded'[b], op'[b])
               /\ fresh'[b] /\ at'[b] <= OpenAt(op'[b].do) =>
                    loaded'[b] = doc' /\ \A c \in Actors : ~Filling(op'[c], at'[c])
    <3>1. b # a /\ op'[b] = op[b] /\ at'[b] = at[b] /\ loaded'[b] = loaded[b] /\ fresh'[b] = fresh[b]
      BY <1>2, <1>5, <1>9, <2>1
    <3>2. /\ Tidy(loaded[b], ops, Pending) /\ ~Unknown(loaded[b], op[b])
          /\ fresh[b] /\ at[b] <= OpenAt(op[b].do) =>
               loaded[b] = doc /\ \A c \in Actors : ~Filling(op[c], at[c])
      BY <2>1, <3>1 DEF Inv, LoadedOK
    <3>3. Tidy(loaded[b], ops', Pending')
      BY <1>11, <3>2
    <3> QED
      BY <1>2, <1>13, <3>1, <3>2, <3>3
  <2>2. ASSUME NEW b \in Actors, HoldingSettings(op'[b], at'[b])
        PROVE  /\ loaded'[b] \in Seq(Settings) /\ Len(loaded'[b]) = 1
               /\ fresh'[b] /\ at'[b] = 2 => loaded'[b][1] = settings'
    <3>1. b # a /\ op'[b] = op[b] /\ at'[b] = at[b] /\ loaded'[b] = loaded[b] /\ fresh'[b] = fresh[b]
      BY <1>2, <1>5, <1>9, <2>2
    <3> QED
      BY <1>2, <2>2, <3>1 DEF Inv, LoadedOK
  <2> QED
    BY <2>1, <2>2 DEF LoadedOK
<1>15. LockOK'
  BY <1>2, <1>13 DEF Inv, LockOK
<1>16. DailyOK'
  <2>1. daily \in Seq(NoteType) /\ \A i \in 1..Len(daily) : daily[i].n \in Nat /\ daily[i].n <= ops
    <3>1. \A i \in 1..Len(daily) : daily[i] \in NoteType
      BY ListFacts DEF Inv, DailyOK
    <3>2. \A i \in 1..Len(daily) : daily[i].n \in Nat
      BY <3>1 DEF NoteType
    <3> QED
      BY <3>2 DEF Inv, DailyOK
  <2>2. \A i \in 1..Len(daily') : daily'[i].n <= ops'
    BY <1>2, <1>3, <2>1
  <2>3. ~Noted(daily, o.n)
    BY <1>1, <1>3, <2>1 DEF Noted
  <2>4. ASSUME NEW b \in Actors, op'[b] # NoOp, op'[b].do = "daily"
        PROVE  /\ at'[b] <= 3 => ~Noted(daily', op'[b].n)
               /\ at'[b] = 4 /\ session' # "deleted" => Noted(daily', op'[b].n)
    <3>1. CASE b = a
      BY <1>2, <1>5, <1>7, <2>3, <3>1
    <3>2. CASE b # a
      <4>1. op'[b] = op[b] /\ at'[b] = at[b]
        BY <1>2, <1>5, <3>2
      <4> QED
        BY <1>2, <2>4, <4>1 DEF Inv, DailyOK
    <3> QED
      BY <3>1, <3>2
  <2> QED
    BY <1>2, <2>2, <2>4 DEF Inv, DailyOK
<1> QED
  BY <1>6, <1>8, <1>12, <1>14, <1>15, <1>16 DEF Inv

(* What each client asks for. *)
LEMMA RequestsBegin ==
    ASSUME Inv, NEW a \in Actors
    PROVE  /\ Upsert(a) => Begins(a)
           /\ Update(a) => Begins(a)
           /\ Supersede(a) => Begins(a)
           /\ Archive(a) => Begins(a)
           /\ Delete(a) => Begins(a)
           /\ Forget(a) => Begins(a)
           /\ Note(a) => Begins(a)
           /\ Set(a) => Begins(a)
           /\ Search(a) => Begins(a)
           /\ Show(a) => Begins(a)
<1>1. ops \in 0..MaxOps /\ MaxOps \in Nat
  BY MemoryAssumption DEF Inv, VariablesOK
<1>2. ops < MaxOps => ops + 1 \in 1..MaxOps
  BY <1>1
<1>3. \A id \in Ids(doc) : id \in 1..MaxOps \cup Titles /\ id # None
  <2>1. \A i \in 1..Len(doc) : doc[i] \in EntryType /\ DOMAIN doc = 1..Len(doc)
    BY ListFacts DEF Inv, Tidy
  <2>2. Ids(doc) \subseteq 1..MaxOps \cup Titles
    BY <2>1 DEF Ids, EntryType
  <2> QED
    BY <2>2, MemoryAssumption
<1>4. \A t \in Titles : t # None
  BY MemoryAssumption
<1>5. ASSUME NEW o, Start(a, o), o \in Operation, o.n = ops + 1, Named(o) PROVE Begins(a)
  BY <1>5 DEF Begins
<1>6. \A o : Start(a, o) => ops + 1 \in 1..MaxOps
  BY <1>2 DEF Start
<1>7. Upsert(a) => Begins(a)
  <2>1. ASSUME NEW t \in Titles, Start(a, [Request("upsert") EXCEPT !.title = t]) PROVE Begins(a)
    <3> DEFINE o == [Request("upsert") EXCEPT !.title = t]
    <3>1. o \in Operation /\ o.n = ops + 1 /\ Named(o)
      BY <1>4, <1>6, <2>1 DEF Request, Operation, Named, Dos, Writers
    <3> QED
      BY <1>5, <2>1, <3>1
  <2> QED
    BY <2>1 DEF Upsert
<1>8. Update(a) => Begins(a)
  <2>1. ASSUME NEW id \in Ids(doc), NEW t \in Titles \cup {None},
               Start(a, [Request("update") EXCEPT !.id = id, !.title = t]) PROVE Begins(a)
    <3> DEFINE o == [Request("update") EXCEPT !.id = id, !.title = t]
    <3>1. o \in Operation /\ o.n = ops + 1 /\ Named(o)
      BY <1>3, <1>4, <1>6, <2>1 DEF Request, Operation, Named, Dos, Writers
    <3> QED
      BY <1>5, <2>1, <3>1
  <2> QED
    BY <2>1 DEF Update
<1>9. Supersede(a) => Begins(a)
  <2>1. ASSUME NEW id \in Ids(doc), NEW t \in Titles \cup {None},
               Start(a, [Request("supersede") EXCEPT !.id = id, !.title = t]) PROVE Begins(a)
    <3> DEFINE o == [Request("supersede") EXCEPT !.id = id, !.title = t]
    <3>1. o \in Operation /\ o.n = ops + 1 /\ Named(o)
      BY <1>3, <1>4, <1>6, <2>1 DEF Request, Operation, Named, Dos, Writers
    <3> QED
      BY <1>5, <2>1, <3>1
  <2> QED
    BY <2>1 DEF Supersede
<1>10. Archive(a) => Begins(a)
  <2>1. ASSUME NEW id \in Ids(doc), Start(a, [Request("archive") EXCEPT !.id = id]) PROVE Begins(a)
    <3> DEFINE o == [Request("archive") EXCEPT !.id = id]
    <3>1. o \in Operation /\ o.n = ops + 1 /\ Named(o)
      BY <1>3, <1>4, <1>6, <2>1 DEF Request, Operation, Named, Dos, Writers
    <3> QED
      BY <1>5, <2>1, <3>1
  <2> QED
    BY <2>1 DEF Archive
<1>11. Delete(a) => Begins(a)
  <2>1. ASSUME NEW id \in Ids(doc), Start(a, [Request("delete") EXCEPT !.id = id]) PROVE Begins(a)
    <3> DEFINE o == [Request("delete") EXCEPT !.id = id]
    <3>1. o \in Operation /\ o.n = ops + 1 /\ Named(o)
      BY <1>3, <1>4, <1>6, <2>1 DEF Request, Operation, Named, Dos, Writers
    <3> QED
      BY <1>5, <2>1, <3>1
  <2> QED
    BY <2>1 DEF Delete
<1>12. Forget(a) => Begins(a)
  <2>1. ASSUME NEW t \in Titles, Start(a, [Request("delete") EXCEPT !.title = t]) PROVE Begins(a)
    <3> DEFINE o == [Request("delete") EXCEPT !.title = t]
    <3>1. o \in Operation /\ o.n = ops + 1 /\ Named(o)
      BY <1>4, <1>6, <2>1 DEF Request, Operation, Named, Dos, Writers
    <3> QED
      BY <1>5, <2>1, <3>1
  <2> QED
    BY <2>1 DEF Forget
<1>13. \A do \in {"daily", "settings", "search", "show"} : Start(a, Request(do)) => Begins(a)
  <2>1. ASSUME NEW do \in {"daily", "settings", "search", "show"}, Start(a, Request(do))
        PROVE  Begins(a)
    <3>1. Request(do) \in Operation /\ Request(do).n = ops + 1 /\ Named(Request(do))
      BY <1>6, <2>1 DEF Request, Operation, Named, Dos, Writers
    <3> QED
      BY <1>5, <2>1, <3>1
  <2> QED
    BY <2>1
<1> QED
  BY <1>7, <1>8, <1>9, <1>10, <1>11, <1>12, <1>13 DEF Note, Set, Search, Show

(* and the other two kinds of them. *)
LEMMA WritebackBegins ==
    ASSUME Inv, Writeback
    PROVE  Begins(Agent)
<1>1. ops \in 0..MaxOps /\ MaxOps \in Nat
  BY MemoryAssumption DEF Inv, VariablesOK
<1>2. PICK t \in Titles : Start(Agent, [Request("writeback") EXCEPT !.by = "auto", !.title = t])
  BY DEF Writeback
<1> DEFINE o == [Request("writeback") EXCEPT !.by = "auto", !.title = t]
<1>3. ops + 1 \in 1..MaxOps /\ t # None
  BY <1>1, <1>2, MemoryAssumption DEF Start
<1>4. o \in Operation /\ o.n = ops + 1 /\ Named(o)
  BY <1>3 DEF Request, Operation, Named, Dos, Writers
<1> QED
  BY <1>2, <1>4 DEF Begins

(* An edited document is put back. *)
LEMMA PutDocumentBegins ==
    ASSUME Inv, NEW a \in Actors, PutDocument(a)
    PROVE  Begins(a)
<1>1. ops \in 0..MaxOps /\ MaxOps \in Nat
  BY MemoryAssumption DEF Inv, VariablesOK
<1>2. \A id \in Ids(doc) : id \in 1..MaxOps \cup Titles /\ id # None
  <2>1. \A i \in 1..Len(doc) : doc[i] \in EntryType /\ DOMAIN doc = 1..Len(doc)
    BY ListFacts DEF Inv, Tidy
  <2>2. Ids(doc) \subseteq 1..MaxOps \cup Titles
    BY <2>1 DEF Ids, EntryType
  <2> QED
    BY <2>2, MemoryAssumption
<1>3. ASSUME NEW id \in Ids(doc), Start(a, [Request("replace") EXCEPT !.id = id]) PROVE Begins(a)
  <2> DEFINE o == [Request("replace") EXCEPT !.id = id]
  <2>1. ops + 1 \in 1..MaxOps
    BY <1>1, <1>3 DEF Start
  <2>2. o \in Operation /\ o.n = ops + 1 /\ Named(o)
    BY <1>2, <2>1 DEF Request, Operation, Named, Dos, Writers
  <2> QED
    BY <1>3, <2>2 DEF Begins
<1>4. ASSUME NEW t \in Titles, Start(a, [Request("replace") EXCEPT !.title = t]) PROVE Begins(a)
  <2> DEFINE o == [Request("replace") EXCEPT !.title = t]
  <2>1. ops + 1 \in 1..MaxOps /\ t # None
    BY <1>1, <1>4, MemoryAssumption DEF Start
  <2>2. o \in Operation /\ o.n = ops + 1 /\ Named(o)
    BY <2>1 DEF Request, Operation, Named, Dos, Writers
  <2> QED
    BY <1>4, <2>2 DEF Begins
<1> QED
  BY <1>3, <1>4 DEF PutDocument

(* The session closed, its workspace deleted, the process killed. *)
LEMMA CloseOK ==
    ASSUME Inv, CloseSession
    PROVE  Inv'
<1>1. /\ session = "active" /\ session' = "closed"
      /\ UNCHANGED <<surface, present, doc, settings, daily, audit, lock, op, at, loaded, ops, fresh, trusted>>
  BY DEF CloseSession, files, local, history
<1>2. VariablesOK'
  BY <1>1 DEF Inv, VariablesOK
<1>3. OperationsOK'
  BY <1>1 DEF Inv, OperationsOK
<1>4. Pending' = Pending
  BY <1>1 DEF Pending
<1>5. Tidy(doc', ops', Pending')
  BY <1>1, <1>4 DEF Inv
<1>6. LoadedOK'
  BY <1>1, <1>4 DEF Inv, LoadedOK
<1>7. LockOK'
  BY <1>1 DEF Inv, LockOK
<1>8. DailyOK'
  BY <1>1 DEF Inv, DailyOK
<1> QED
  BY <1>2, <1>3, <1>5, <1>6, <1>7, <1>8 DEF Inv

(* Nothing is tidy, and noted nowhere. *)
LEMMA NothingYet ==
  /\ \A m, N : Tidy(<<>>, m, N)
  /\ <<>> \in Seq(NoteType) /\ Len(<<>>) = 0 /\ \A n : ~Noted(<<>>, n)
<1>1. <<>> \in Seq(EntryType) /\ <<>> \in Seq(NoteType) /\ Len(<<>>) = 0
  BY EmptySeq
<1> QED
  BY <1>1 DEF Tidy, Noted

(* The workspace's directory goes while operations are under way. *)
LEMMA DeleteOK ==
    ASSUME Inv, DeleteSessionMemory
    PROVE  Inv'
<1>1. /\ lock = None /\ session' = "deleted" /\ present' = FALSE /\ doc' = <<>>
      /\ daily' = <<>> /\ audit' = {}
      /\ settings' = [mode |-> "manual_only", policy |-> "search_all_ranked"]
      /\ fresh' = [a \in Actors |-> Idle(a)]
      /\ UNCHANGED <<surface, lock, op, at, loaded, ops, trusted>>
  BY DEF DeleteSessionMemory, local
<1>2. settings' \in Settings
  BY <1>1 DEF Settings, Modes, Policies
<1>3. fresh' \in [Actors -> BOOLEAN]
  BY <1>1 DEF Idle
<1>4. VariablesOK'
  BY <1>1, <1>2, <1>3 DEF Inv, VariablesOK
<1>5. OperationsOK'
  BY <1>1 DEF Inv, OperationsOK
<1>6. Pending' = Pending
  BY <1>1 DEF Pending
<1>7. Tidy(doc', ops', Pending')
  BY <1>1, NothingYet
<1>8. \A a \in Actors : Holding(op[a], at[a]) \/ HoldingSettings(op[a], at[a]) => ~fresh'[a]
  BY <1>1 DEF Holding, Unwritten, HoldingSettings, Idle
<1>9. LoadedOK'
  BY <1>1, <1>6, <1>8 DEF Inv, LoadedOK
<1>10. \A a \in Actors : ~Filling(op[a], at[a]) /\ ~FillingSettings(op[a], at[a])
  BY <1>1, NotWriting
<1>11. LockOK'
  BY <1>1, <1>10, MemoryAssumption DEF LockOK, Actors
<1>12. DailyOK'
  BY <1>1, NothingYet DEF DailyOK
<1> QED
  BY <1>4, <1>5, <1>7, <1>9, <1>11, <1>12 DEF Inv

(* Every operation is lost, what is in the files stays. *)
LEMMA CrashOK ==
    ASSUME Inv, Crash
    PROVE  Inv'
<1>1. /\ op' = [a \in Actors |-> NoOp] /\ at' = [a \in Actors |-> 1]
      /\ loaded' = [a \in Actors |-> <<>>] /\ lock' = None
      /\ fresh' = [a \in Actors |-> TRUE] /\ trusted' = (trusted /\ lock = None)
      /\ UNCHANGED <<surface, session, present, doc, settings, daily, audit, ops>>
  BY DEF Crash, files
<1>2. \A a \in Actors : op'[a] = NoOp /\ at'[a] = 1
  BY <1>1
<1>3. <<>> \in Seq(EntryType \cup Settings)
  BY EmptySeq
<1>4. VariablesOK'
  BY <1>1, <1>3 DEF Inv, VariablesOK
<1>5. OperationsOK'
  BY <1>2 DEF OperationsOK, Sound
<1>6. \A a \in Actors : /\ ~Unwritten(op'[a], at'[a]) /\ ~Holding(op'[a], at'[a])
                        /\ ~HoldingSettings(op'[a], at'[a])
                        /\ ~Filling(op'[a], at'[a]) /\ ~FillingSettings(op'[a], at'[a])
  BY <1>2 DEF Unwritten, Holding, HoldingSettings, Filling, FillingSettings
<1>7. Pending' \subseteq Pending
  <2>1. Pending' = {op'[b].n : b \in {c \in Actors : Unwritten(op'[c], at'[c])}}
    BY DEF Pending
  <2> QED
    BY <1>6, <2>1
<1>8. Tidy(doc', ops', Pending')
  BY <1>1, <1>7, TidyFewer DEF Inv
<1>9. LoadedOK' /\ LockOK'
  BY <1>1, <1>6, MemoryAssumption DEF LoadedOK, LockOK, Actors
<1>10. DailyOK'
  BY <1>1, <1>2 DEF Inv, DailyOK
<1> QED
  BY <1>4, <1>5, <1>8, <1>9, <1>10 DEF Inv

(* A workspace that nobody has used yet. *)
LEMMA InitOK == Init => Inv
<1> SUFFICES ASSUME Init PROVE Inv
  OBVIOUS
<1>1. /\ surface \in {"terminal", "service"} /\ session = "active"
      /\ present = FALSE /\ doc = <<>>
      /\ settings = [mode |-> "manual_only", policy |-> "search_all_ranked"]
      /\ daily = <<>> /\ audit = {} /\ lock = None
      /\ op = [a \in Actors |-> NoOp] /\ at = [a \in Actors |-> 1]
      /\ loaded = [a \in Actors |-> <<>>] /\ ops = 0
      /\ fresh = [a \in Actors |-> TRUE] /\ trusted = TRUE
  BY DEF Init
<1>2. settings \in Settings
  BY <1>1 DEF Settings, Modes, Policies
<1>3. <<>> \in Seq(EntryType \cup Settings)
  BY EmptySeq
<1>4. VariablesOK
  <2>1. /\ op \in [Actors -> Operation \cup {NoOp}] /\ at \in [Actors -> Nat]
        /\ fresh \in [Actors -> BOOLEAN] /\ trusted \in BOOLEAN
    BY <1>1
  <2>2. loaded \in [Actors -> Seq(EntryType \cup Settings)]
    BY <1>1, <1>3
  <2>3. ops \in 0..MaxOps
    BY <1>1, MemoryAssumption
  <2>4. lock \in Actors \cup {None} /\ present \in BOOLEAN
    BY <1>1
  <2>5. surface \in {"terminal", "service"} /\ session \in {"active", "closed", "deleted"}
    BY <1>1
  <2> QED
    BY <1>2, <2>1, <2>2, <2>3, <2>4, <2>5 DEF VariablesOK
<1>5. \A a \in Actors : op[a] = NoOp /\ at[a] = 1
  BY <1>1
<1>6. OperationsOK
  BY <1>5 DEF OperationsOK, Sound
<1>7. \A a \in Actors : /\ ~Holding(op[a], at[a]) /\ ~HoldingSettings(op[a], at[a])
                        /\ ~Filling(op[a], at[a]) /\ ~FillingSettings(op[a], at[a])
  BY <1>5 DEF Unwritten, Holding, HoldingSettings, Filling, FillingSettings
<1>8. LoadedOK /\ LockOK
  BY <1>1, <1>7, MemoryAssumption DEF LoadedOK, LockOK, Actors
<1>9. Tidy(doc, ops, Pending)
  BY <1>1, NothingYet
<1>10. DailyOK
  BY <1>1, <1>5, NothingYet DEF DailyOK
<1> QED
  BY <1>4, <1>6, <1>8, <1>9, <1>10 DEF Inv

(* No step changes anything else. *)
LEMMA StutterOK ==
    ASSUME Inv, UNCHANGED vars
    PROVE  Inv'
<1>1. UNCHANGED <<surface, session, present, doc, settings, daily, audit, lock, op, at, loaded,
                  ops, fresh, trusted>>
  BY DEF vars, files, local, history
<1>2. VariablesOK'
  BY <1>1 DEF Inv, VariablesOK
<1>3. OperationsOK'
  BY <1>1 DEF Inv, OperationsOK
<1>4. Pending' = Pending
  BY <1>1 DEF Pending
<1>5. Tidy(doc', ops', Pending')
  BY <1>1, <1>4 DEF Inv
<1>6. LoadedOK'
  BY <1>1, <1>4 DEF Inv, LoadedOK
<1>7. LockOK'
  BY <1>1 DEF Inv, LockOK
<1>8. DailyOK'
  BY <1>1 DEF Inv, DailyOK
<1> QED
  BY <1>2, <1>3, <1>5, <1>6, <1>7, <1>8 DEF Inv

(* An operation is begun by a tool, a command or a route, *)
LEMMA NextBegins ==
    ASSUME Inv, MemoryWrite \/ MemorySearch \/ MemoryRead \/ Writeback \/ Command
                \/ \E a \in Clients : Route(a)
    PROVE  \E a \in Actors : Begins(a)
<1>1. Agent \in Actors /\ Clients \subseteq Actors
  BY DEF Actors
<1>2. ASSUME NEW a \in Actors,
             Upsert(a) \/ Update(a) \/ Supersede(a) \/ Archive(a) \/ Delete(a) \/ Forget(a)
             \/ Note(a) \/ Set(a) \/ Search(a) \/ Show(a)
      PROVE  Begins(a)
  BY <1>2, RequestsBegin
<1>3. MemoryWrite \/ MemorySearch \/ MemoryRead \/ Command => Begins(Agent)
  BY <1>1, <1>2 DEF MemoryWrite, MemorySearch, MemoryRead, Command
<1>4. ASSUME NEW a \in Clients, Route(a) PROVE Begins(a)
  <2>1. a \in Actors
    BY <1>1
  <2>2. CASE PutDocument(a)
    BY <2>1, <2>2, PutDocumentBegins
  <2>3. CASE ~PutDocument(a)
    <3>1. Upsert(a) \/ Update(a) \/ Supersede(a) \/ Archive(a) \/ Delete(a) \/ Forget(a)
          \/ Note(a) \/ Set(a) \/ Search(a) \/ Show(a)
      BY <1>4, <2>3 DEF Route, CreateEntry, PatchEntry, DeleteEntry, PatchSettings, PostDaily,
                        GetMemory, SearchMemory
    <3> QED
      BY <1>2, <2>1, <3>1
  <2> QED
    BY <2>2, <2>3
<1>5. Writeback => Begins(Agent)
  BY WritebackBegins
<1> QED
  BY <1>1, <1>3, <1>4, <1>5

(* or goes on, or the session ends. *)
LEMMA NextOK ==
    ASSUME Inv, [Next]_vars
    PROVE  Inv'
<1>1. CASE MemoryWrite \/ MemorySearch \/ MemoryRead \/ Writeback \/ Command
           \/ \E a \in Clients : Route(a)
  BY <1>1, NextBegins, BeginsOK
<1>2. ASSUME NEW a \in Actors, Step(a) PROVE Inv'
  <2>1. CASE Allow(a)
    BY <2>1, AllowOK
  <2>2. CASE Judge(a)
    BY <2>2, JudgeOK
  <2>3. CASE Ensure(a)
    BY <2>3, EnsureOK
  <2>4. CASE Read(a)
    BY <2>4, ReadOK
  <2>5. CASE Open(a)
    BY <2>5, OpenOK
  <2>6. CASE Fill(a)
    BY <2>6, FillOK
  <2>7. CASE AppendDaily(a)
    BY <2>7, AppendDailyOK
  <2>8. CASE Audit(a)
    BY <2>8, AuditOK
  <2>9. CASE ReadSettings(a)
    BY <2>9, ReadSettingsOK
  <2>10. CASE OpenSettings(a)
    BY <2>10, OpenSettingsOK
  <2>11. CASE FillSettings(a)
    BY <2>11, FillSettingsOK
  <2> QED
    BY <1>2, <2>1, <2>2, <2>3, <2>4, <2>5, <2>6, <2>7, <2>8, <2>9, <2>10, <2>11 DEF Step
<1>3. CASE CloseSession
  BY <1>3, CloseOK
<1>4. CASE DeleteSessionMemory
  BY <1>4, DeleteOK
<1>5. CASE Crash
  BY <1>5, CrashOK
<1>6. CASE UNCHANGED vars
  BY <1>6, StutterOK
<1> QED
  BY <1>1, <1>2, <1>3, <1>4, <1>5, <1>6 DEF Next

(* So it holds throughout. *)
LEMMA InvHolds == Spec => []Inv
<1>1. Init => Inv
  BY InitOK
<1>2. Inv /\ [Next]_vars => Inv'
  BY NextOK
<1> QED
  BY <1>1, <1>2, PTL DEF Spec

(* Whatever brought a text into the document or the daily log, and however *)
(* the operations overlap, fail or are killed, a write policy has read it: *)
(* none is unread or unsafe, and none that the agent saved unasked is weak.*)
THEOREM TextsArePoliced == Spec => []PolicyHolds
<1>1. Inv => PolicyHolds
  <2> SUFFICES ASSUME Inv PROVE PolicyHolds
    OBVIOUS
  <2>1. /\ Len(doc) \in Nat /\ DOMAIN doc = 1..Len(doc)
        /\ \A i \in 1..Len(doc) : doc[i] \in EntryType
    BY ListFacts DEF Inv, Tidy
  <2>2. /\ DOMAIN daily = 1..Len(daily) /\ \A i \in 1..Len(daily) : daily[i] \in NoteType
    BY ListFacts DEF Inv, DailyOK
  <2>3. TypeOK
    <3>1. \A a \in Actors : Idle(a) \/ at[a] \in DOMAIN Steps(op[a].do)
      BY DEF Inv, OperationsOK, Sound, Idle
    <3> QED
      BY <2>1, <3>1 DEF Inv, VariablesOK, TypeOK
  <2>4. \A i \in DOMAIN doc : /\ Policed(doc[i])
                              /\ doc[i].by = "auto" => doc[i].class = "plain"
    BY <2>1 DEF Inv, Tidy
  <2>5. \A i \in DOMAIN daily : Policed(daily[i])
    BY <2>2, MemoryAssumption DEF NoteType, Policed, AllClasses
  <2> QED
    BY <2>3, <2>4, <2>5 DEF PolicyHolds
<1> QED
  BY <1>1, InvHolds, PTL

(* As long as the session's memory is not deleted, each note that was      *)
(* audited is in the daily log, and no note is in it twice.                *)
THEOREM NotesAreKept == Spec => []DailyLogComplete
<1>1. Inv => DailyLogComplete
  <2> SUFFICES ASSUME Inv PROVE DailyLogComplete
    OBVIOUS
  <2>1. DOMAIN daily = 1..Len(daily)
    BY ListFacts DEF Inv, DailyOK
  <2> QED
    BY <2>1 DEF Inv, DailyOK, Noted, DailyLogComplete
<1> QED
  BY <1>1, InvHolds, PTL

-----------------------------------------------------------------------------
(* The abstract memory                                                     *)

(* What the steps of CuratedMemory make of the entries: D becomes E. *)
Rewrites(D, E)     == \E old \in D, new \in E : new.id = old.id /\ E = (D \ {old}) \cup {new}
Remembers(D, E)    == \E new \in E : /\ \A e \in D : e.id # new.id /\ e.title # new.title
                                     /\ new.status = "active" /\ new.supersedes = 0
                                     /\ E = D \cup {new}
Supersedes(D, E)   == \E old \in D, new \in E :
                        /\ \A e \in D : e.id # new.id
                        /\ new.status = "active" /\ new.supersedes = old.id
                        /\ E = (D \ {old}) \cup {[old EXCEPT !.status = "superseded"], new}
Forgets(D, E)      == \E old \in D : E = {e \in D : e.id # old.id}
WritesByHand(D, E) == \E t \in Titles, new \in E :
                        /\ new.title = t /\ new.id = t /\ new.status = "active"
                        /\ E = D \cup {new}

(* As sets, entries with texts of their own: one is changed, *)
LEMMA SetInPlace ==
    ASSUME NEW s, NEW m, NEW N, Tidy(s, m, N), NEW i \in 1..Len(s), NEW e \in EntryType,
           e.id = s[i].id
    PROVE  /\ ToSet([s EXCEPT ![i] = e]) = (ToSet(s) \ {s[i]}) \cup {e}
           /\ Rewrites(ToSet(s), ToSet([s EXCEPT ![i] = e]))
<1> DEFINE r == [s EXCEPT ![i] = e]
<1>1. /\ s \in Seq(EntryType) /\ Len(s) \in Nat
      /\ ToSet(s) = {s[k] : k \in 1..Len(s)}
  BY ListFacts DEF Tidy
<1>2. /\ r \in Seq(EntryType) /\ Len(r) = Len(s)
      /\ \A k \in 1..Len(s) : r[k] = IF k = i THEN e ELSE s[k]
  BY <1>1, ExceptSeq
<1> HIDE DEF r
<1>3. ToSet(r) = {r[k] : k \in 1..Len(s)}
  BY <1>2, ListFacts
<1>4. \A k \in 1..Len(s) : k # i => s[k] # s[i]
  BY DEF Tidy
<1>5. ASSUME NEW x \in ToSet(r) PROVE x \in (ToSet(s) \ {s[i]}) \cup {e}
  <2>1. PICK k \in 1..Len(s) : x = r[k]
    BY <1>3, <1>5
  <2> QED
    BY <1>1, <1>2, <1>4, <2>1
<1>6. ASSUME NEW x \in (ToSet(s) \ {s[i]}) \cup {e} PROVE x \in ToSet(r)
  <2>1. CASE x = e
    BY <1>2, <1>3, <2>1
  <2>2. CASE x # e
    <3>1. PICK k \in 1..Len(s) : x = s[k]
      BY <1>1, <1>6, <2>2
    <3>2. k # i
      BY <1>6, <2>2, <3>1
    <3>3. r[k] = x
      BY <1>2, <3>1, <3>2
    <3> QED
      BY <1>3, <3>3
  <2> QED
    BY <2>1, <2>2
<1>7. ToSet(r) = (ToSet(s) \ {s[i]}) \cup {e}
  BY <1>5, <1>6
<1>8. s[i] \in ToSet(s) /\ e \in ToSet(r)
  BY <1>1, <1>7
<1>9. Rewrites(ToSet(s), ToSet(r))
  BY <1>7, <1>8 DEF Rewrites
<1> QED
  BY <1>7, <1>9 DEF r

(* one is appended. *)
LEMMA SetAppend ==
    ASSUME NEW s \in Seq(EntryType), NEW e \in EntryType
    PROVE  ToSet(Append(s, e)) = ToSet(s) \cup {e}
<1> DEFINE r == Append(s, e)
<1>1. Len(s) \in Nat /\ ToSet(s) = {s[k] : k \in 1..Len(s)}
  BY ListFacts
<1>2. /\ r \in Seq(EntryType) /\ Len(r) = Len(s) + 1
      /\ \A k \in 1..Len(s) : r[k] = s[k]
      /\ r[Len(s) + 1] = e
  BY AppendProperties
<1> HIDE DEF r
<1>3. ToSet(r) = {r[k] : k \in 1..Len(s) + 1}
  BY <1>2, ListFacts
<1>4. ASSUME NEW x \in ToSet(r) PROVE x \in ToSet(s) \cup {e}
  <2>1. PICK k \in 1..Len(s) + 1 : x = r[k]
    BY <1>3, <1>4
  <2>2. k \in 1..Len(s) \/ k = Len(s) + 1
    BY <1>1
  <2> QED
    BY <1>1, <1>2, <2>1, <2>2
<1>5. ASSUME NEW x \in ToSet(s) PROVE x \in ToSet(r)
  <2>1. PICK k \in 1..Len(s) : x = s[k]
    BY <1>1, <1>5
  <2>2. k \in 1..Len(s) + 1 /\ r[k] = x
    BY <1>1, <1>2, <2>1
  <2> QED
    BY <1>3, <2>2
<1>6. e \in ToSet(r)
  <2>1. Len(s) + 1 \in 1..Len(s) + 1
    BY <1>1
  <2> QED
    BY <1>2, <1>3, <2>1
<1>7. ToSet(r) = ToSet(s) \cup {e}
  BY <1>4, <1>5, <1>6
<1> QED
  BY <1>7 DEF r

(* The steps that the operations take: upsert and the writeback, *)
LEMMA UpsertedStep ==
    ASSUME NEW s, NEW m, NEW N, Tidy(s, m, N), NEW o \in Operation, o.n \in N, Passed(o),
           o.title \in Titles
    PROVE  Rewrites(ToSet(s), ToSet(Upserted(s, o))) \/ Remembers(ToSet(s), ToSet(Upserted(s, o)))
<1>1. /\ s \in Seq(EntryType) /\ Len(s) \in Nat /\ DOMAIN s = 1..Len(s)
      /\ ToSet(s) = {s[k] : k \in 1..Len(s)} /\ \A k \in 1..Len(s) : s[k] \in EntryType
  BY ListFacts DEF Tidy
<1>2. o.n \in 1..MaxOps /\ o.class \in Classes /\ o.by \in {"manual", "auto"}
  BY DEF Operation, Passed
<1>3. CASE Titled(s, o.title) = {}
  <2> DEFINE e == Entry(o, o.title, 0)
  <2>1. 0 \in 0..MaxOps \cup Titles
    BY MemoryAssumption
  <2>2. e \in EntryType /\ e.id = o.n /\ e.title = o.title /\ e.status = "active" /\ e.supersedes = 0
    BY <2>1, EntryTyped
  <2> HIDE DEF e
  <2>3. ToSet(Append(s, e)) = ToSet(s) \cup {e}
    BY <1>1, <2>2, SetAppend
  <2>4. \A k \in 1..Len(s) : s[k].id # e.id /\ s[k].title # e.title
    BY <1>1, <1>3, <2>2 DEF Tidy, Titled
  <2>5. \A d \in ToSet(s) : d.id # e.id /\ d.title # e.title
    BY <1>1, <2>4
  <2>6. e \in ToSet(Append(s, e))
    BY <2>3
  <2>7. Remembers(ToSet(s), ToSet(Append(s, e)))
    BY <2>2, <2>3, <2>5, <2>6 DEF Remembers
  <2>8. Upserted(s, o) = Append(s, e)
    BY <1>3 DEF Upserted, e
  <2> QED
    BY <2>7, <2>8
<1>4. CASE Titled(s, o.title) # {}
  <2> DEFINE i == FirstTitled(s, o.title)
             e == [s[i] EXCEPT !.text = o.n, !.class = o.class, !.by = o.by, !.status = "active"]
  <2>1. i \in 1..Len(s)
    BY <1>1, <1>4, TitleFound
  <2> HIDE DEF i
  <2>2. e \in EntryType /\ e.id = s[i].id
    BY <1>1, <1>2, <2>1 DEF EntryType
  <2> HIDE DEF e
  <2>3. Rewrites(ToSet(s), ToSet([s EXCEPT ![i] = e]))
    BY <2>1, <2>2, SetInPlace
  <2>4. Upserted(s, o) = [s EXCEPT ![i] = e]
    BY <1>4 DEF Upserted, i, e
  <2> QED
    BY <2>3, <2>4
<1> QED
  BY <1>3, <1>4

(* update and archive, *)
LEMMA UpdatedStep ==
    ASSUME NEW s, NEW m, NEW N, Tidy(s, m, N), NEW o \in Operation, Passed(o), o.id \in Ids(s)
    PROVE  Rewrites(ToSet(s), ToSet(Updated(s, o)))
<1> DEFINE i == Position(s, o.id)
           e == [s[i] EXCEPT !.title = IF o.title = None THEN s[i].title ELSE o.title,
                             !.text = o.n, !.class = o.class, !.by = o.by]
<1>1. /\ o.n \in 1..MaxOps /\ o.class \in Classes /\ o.by \in {"manual", "auto"}
      /\ o.title \in Titles \cup {None}
  BY DEF Operation, Passed
<1>2. s \in Seq(EntryType)
  BY DEF Tidy
<1>3. i \in 1..Len(s) /\ s[i] \in EntryType
  BY <1>2, IdFound, ListFacts
<1> HIDE DEF i
<1>4. e \in EntryType /\ e.id = s[i].id
  BY <1>1, <1>3 DEF EntryType
<1> HIDE DEF e
<1>5. Rewrites(ToSet(s), ToSet([s EXCEPT ![i] = e]))
  BY <1>3, <1>4, SetInPlace
<1>6. Updated(s, o) = [s EXCEPT ![i] = e]
  BY DEF Updated, i, e
<1> QED
  BY <1>5, <1>6

(* An entry archived keeps its id. *)
LEMMA ArchivedStep ==
    ASSUME NEW s, NEW m, NEW N, Tidy(s, m, N), NEW o, o.id \in Ids(s)
    PROVE  Rewrites(ToSet(s), ToSet(Archived(s, o)))
<1> DEFINE i == Position(s, o.id)
           e == [s[i] EXCEPT !.status = "archived"]
<1>1. s \in Seq(EntryType)
  BY DEF Tidy
<1>2. i \in 1..Len(s) /\ s[i] \in EntryType
  BY <1>1, IdFound, ListFacts
<1> HIDE DEF i
<1>3. e \in EntryType /\ e.id = s[i].id
  BY <1>2 DEF EntryType
<1> HIDE DEF e
<1>4. Rewrites(ToSet(s), ToSet([s EXCEPT ![i] = e]))
  BY <1>2, <1>3, SetInPlace
<1>5. Archived(s, o) = [s EXCEPT ![i] = e]
  BY DEF Archived, i, e
<1> QED
  BY <1>4, <1>5

(* supersede, *)
LEMMA SupersededStep ==
    ASSUME NEW s, NEW m, NEW N, Tidy(s, m, N), NEW o \in Operation, o.n \in N, Passed(o),
           o.id \in Ids(s), o.id # None
    PROVE  Supersedes(ToSet(s), ToSet(Superseded(s, o)))
<1> DEFINE i == Position(s, o.id)
           e == [s[i] EXCEPT !.status = "superseded"]
           q == Retired(s, o)
           new == Newer(s, o)
<1>1. /\ s \in Seq(EntryType) /\ Len(s) \in Nat
      /\ ToSet(s) = {s[k] : k \in 1..Len(s)} /\ \A k \in 1..Len(s) : s[k] \in EntryType
  BY ListFacts DEF Tidy
<1>2. i \in 1..Len(s) /\ s[i].id = o.id
  BY <1>1, IdFound
<1>3. /\ q \in Seq(EntryType) /\ new \in EntryType /\ new.id = o.n
      /\ new.status = "active" /\ new.supersedes = o.id
      /\ Superseded(s, o) = Append(q, new)
  BY <1>1, SupersededParts
<1>4. e \in EntryType /\ e.id = s[i].id
  BY <1>1, <1>2 DEF EntryType
<1>5. q = [s EXCEPT ![i] = e]
  BY DEF Retired
<1> HIDE DEF i, q, new, e
<1>6. ToSet(q) = (ToSet(s) \ {s[i]}) \cup {e}
  <2>1. ToSet([s EXCEPT ![i] = e]) = (ToSet(s) \ {s[i]}) \cup {e}
    BY <1>2, <1>4, SetInPlace
  <2> QED
    BY <1>5, <2>1
<1>7. ToSet(Append(q, new)) = ToSet(q) \cup {new}
  BY <1>3, SetAppend
<1>8. ToSet(Append(q, new)) = (ToSet(s) \ {s[i]}) \cup {e, new}
  BY <1>6, <1>7
<1>9. \A d \in ToSet(s) : d.id # new.id
  <2>1. \A k \in 1..Len(s) : s[k].id # o.n
    BY DEF Tidy
  <2> QED
    BY <1>1, <1>3, <2>1
<1>10. s[i] \in ToSet(s) /\ new \in ToSet(Append(q, new))
  BY <1>1, <1>2, <1>8
<1>11. e = [s[i] EXCEPT !.status = "superseded"]
  BY DEF e
<1>12. new.supersedes = s[i].id
  BY <1>2, <1>3
<1>13. ToSet(Append(q, new)) = (ToSet(s) \ {s[i]}) \cup {[s[i] EXCEPT !.status = "superseded"], new}
  BY <1>8, <1>11
<1>14. Supersedes(ToSet(s), ToSet(Append(q, new)))
  BY <1>3, <1>9, <1>10, <1>12, <1>13 DEF Supersedes
<1> QED
  BY <1>3, <1>14

(* delete, by id or by title, *)
LEMMA DeletedStep ==
    ASSUME NEW s \in Seq(EntryType), NEW o, o.do = "delete", ~Unknown(s, o)
    PROVE  Forgets(ToSet(s), ToSet(Deleted(s, o)))
<1>1. /\ DOMAIN s = 1..Len(s) /\ ToSet(s) = {s[k] : k \in 1..Len(s)}
  BY ListFacts
<1>2. PICK i \in 1..Len(s) : s[i].id = Target(s, o)
  <2>1. CASE o.id = None
    <3>1. FirstTitled(s, o.title) \in 1..Len(s)
      BY <2>1, TitleFound DEF Unknown
    <3> QED
      BY <2>1, <3>1 DEF Target
  <2>2. CASE o.id # None
    BY <1>1, <2>2 DEF Target, Unknown, Ids
  <2> QED
    BY <2>1, <2>2
<1>3. ToSet(Deleted(s, o)) = {e \in ToSet(s) : e.id # Target(s, o)}
  BY DeletedKept
<1>4. s[i] \in ToSet(s) /\ ToSet(Deleted(s, o)) = {e \in ToSet(s) : e.id # s[i].id}
  BY <1>1, <1>2, <1>3
<1> QED
  BY <1>4 DEF Forgets

(* and a document put back: a person took out an entry, of whose id there  *)
(* may be others, or wrote one.                                            *)
LEMMA EditedStep ==
    ASSUME NEW s, NEW m, NEW N, Tidy(s, m, N), NEW o \in Operation, o.do = "replace",
           Named(o), Passed(o), ~Unknown(s, o)
    PROVE  \/ Rewrites(ToSet(s), ToSet(Edited(s, o)))
           \/ Forgets(ToSet(s), ToSet(Edited(s, o)))
           \/ WritesByHand(ToSet(s), ToSet(Edited(s, o)))
<1>1. /\ s \in Seq(EntryType) /\ Len(s) \in Nat /\ DOMAIN s = 1..Len(s)
      /\ ToSet(s) = {s[k] : k \in 1..Len(s)}
  BY ListFacts DEF Tidy
<1>2. CASE o.id # None
  <2> DEFINE p == Position(s, o.id)
             E == ToSet(Edited(s, o))
  <2>1. p \in 1..Len(s)
    BY <1>1, <1>2, IdFound DEF Unknown
  <2>2. Edited(s, o) = RemoveAt(s, p)
    BY <1>2 DEF Edited
  <2> HIDE DEF p
  <2>3. ToSet(RemoveAt(s, p)) = {s[k] : k \in 1..Len(s) \ {p}}
    BY <1>1, <2>1, RemovedKept
  <2>4. \A k \in 1..Len(s) : k # p => s[k] # s[p]
    BY <2>1 DEF Tidy
  <2>5. E = ToSet(s) \ {s[p]}
    <3>1. E = {s[k] : k \in 1..Len(s) \ {p}}
      BY <2>2, <2>3
    <3> HIDE DEF E
    <3>2. ASSUME NEW x \in E PROVE x \in ToSet(s) \ {s[p]}
      BY <1>1, <2>4, <3>1, <3>2
    <3>3. ASSUME NEW x \in ToSet(s) \ {s[p]} PROVE x \in E
      BY <1>1, <3>1, <3>3
    <3> QED
      BY <3>2, <3>3
  <2> HIDE DEF E
  <2>6. s[p] \in ToSet(s)
    BY <1>1, <2>1
  <2>7. CASE \E new \in E : new.id = s[p].id
    <3>1. PICK new \in E : new.id = s[p].id
      BY <2>7
    <3>2. E = (ToSet(s) \ {s[p]}) \cup {new}
      BY <2>5, <3>1
    <3>3. Rewrites(ToSet(s), E)
      BY <2>6, <3>1, <3>2 DEF Rewrites
    <3> QED
      BY <3>3 DEF E
  <2>8. CASE \A new \in E : new.id # s[p].id
    <3>1. E = {e \in ToSet(s) : e.id # s[p].id}
      BY <2>5, <2>8
    <3>2. Forgets(ToSet(s), E)
      BY <2>6, <3>1 DEF Forgets
    <3> QED
      BY <3>2 DEF E
  <2> QED
    BY <2>7, <2>8
<1>3. CASE o.id = None
  <2> DEFINE e == Entry(o, o.title, 0)
             d == [e EXCEPT !.id = o.title]
  <2>1. o.title \in Titles
    BY <1>3 DEF Operation, Named, Writers
  <2>2. 0 \in 0..MaxOps \cup Titles
    BY MemoryAssumption
  <2>3. e \in EntryType /\ e.title = o.title /\ e.status = "active"
    BY <2>1, <2>2, EntryTyped
  <2>4. Edited(s, o) = Append(s, d)
    BY <1>3 DEF Edited
  <2> HIDE DEF e
  <2>5. d \in EntryType /\ d.id = o.title /\ d.title = o.title /\ d.status = "active"
    BY <2>1, <2>3 DEF EntryType
  <2> HIDE DEF d
  <2>6. ToSet(Append(s, d)) = ToSet(s) \cup {d}
    BY <1>1, <2>5, SetAppend
  <2>7. WritesByHand(ToSet(s), ToSet(Append(s, d)))
    BY <2>1, <2>5, <2>6 DEF WritesByHand
  <2> QED
    BY <2>4, <2>7
<1> QED
  BY <1>2, <1>3

(* In short: an operation is one step of the abstract memory. *)
LEMMA ChangedStep ==
    ASSUME NEW s, NEW m, NEW N, Tidy(s, m, N), NEW o \in Operation, o.n \in N, o.do \in Writers,
           Named(o), o.do \in Judged => Passed(o), ~Unknown(s, o)
    PROVE  \/ Rewrites(ToSet(s), ToSet(Changed(s, o)))
           \/ Remembers(ToSet(s), ToSet(Changed(s, o)))
           \/ Supersedes(ToSet(s), ToSet(Changed(s, o)))
           \/ Forgets(ToSet(s), ToSet(Changed(s, o)))
           \/ WritesByHand(ToSet(s), ToSet(Changed(s, o)))
<1>1. (o.id # None => o.id \in Ids(s)) /\ s \in Seq(EntryType)
  BY DEF Unknown, Tidy
<1>2. o.title \in Titles \cup {None}
  BY DEF Operation
<1>3. CASE o.do \in {"upsert", "writeback"}
  <2>1. o.title \in Titles /\ Passed(o)
    BY <1>2, <1>3 DEF Named, Judged
  <2>2. Changed(s, o) = Upserted(s, o)
    BY <1>3 DEF Changed
  <2>3. Rewrites(ToSet(s), ToSet(Upserted(s, o))) \/ Remembers(ToSet(s), ToSet(Upserted(s, o)))
    BY <2>1, UpsertedStep
  <2> QED
    BY <2>2, <2>3
<1>4. CASE o.do = "update"
  <2>1. o.id \in Ids(s) /\ Passed(o)
    BY <1>1, <1>4 DEF Named, Judged
  <2>2. Changed(s, o) = Updated(s, o)
    BY <1>4 DEF Changed
  <2>3. Rewrites(ToSet(s), ToSet(Updated(s, o)))
    BY <2>1, UpdatedStep
  <2> QED
    BY <2>2, <2>3
<1>5. CASE o.do = "archive"
  <2>1. o.id \in Ids(s)
    BY <1>1, <1>5 DEF Named
  <2>2. Changed(s, o) = Archived(s, o)
    BY <1>5 DEF Changed
  <2>3. Rewrites(ToSet(s), ToSet(Archived(s, o)))
    BY <2>1, ArchivedStep
  <2> QED
    BY <2>2, <2>3
<1>6. CASE o.do = "supersede"
  <2>1. o.id \in Ids(s) /\ o.id # None /\ Passed(o)
    BY <1>1, <1>6 DEF Named, Judged
  <2>2. Changed(s, o) = Superseded(s, o)
    BY <1>6 DEF Changed
  <2>3. Supersedes(ToSet(s), ToSet(Superseded(s, o)))
    BY <2>1, SupersededStep
  <2> QED
    BY <2>2, <2>3
<1>7. CASE o.do = "delete"
  <2>1. Changed(s, o) = Deleted(s, o)
    BY <1>7 DEF Changed
  <2>2. Forgets(ToSet(s), ToSet(Deleted(s, o)))
    BY <1>1, <1>7, DeletedStep
  <2> QED
    BY <2>1, <2>2
<1>8. CASE o.do = "replace"
  <2>1. Passed(o)
    BY <1>8 DEF Judged
  <2>2. Changed(s, o) = Edited(s, o)
    BY <1>8 DEF Changed
  <2>3. \/ Rewrites(ToSet(s), ToSet(Edited(s, o)))
        \/ Forgets(ToSet(s), ToSet(Edited(s, o)))
        \/ WritesByHand(ToSet(s), ToSet(Edited(s, o)))
    BY <1>8, <2>1, EditedStep
  <2> QED
    BY <2>2, <2>3
<1> QED
  BY <1>3, <1>4, <1>5, <1>6, <1>7, <1>8 DEF Writers

(* What the clients see of the files: during a write, what is written.     *)
Seen == /\ \A a \in Actors : Filling(op[a], at[a]) => EntriesNow = ToSet(loaded[a])
        /\ (\A a \in Actors : ~Filling(op[a], at[a])) => EntriesNow = ToSet(doc)
        /\ \A a \in Actors : FillingSettings(op[a], at[a]) => SettingsNow = loaded[a][1]
        /\ (\A a \in Actors : ~FillingSettings(op[a], at[a])) => SettingsNow = settings

(* It is what the refinement shows of them, *)
LEMMA Shown == Inv => Seen
<1> SUFFICES ASSUME Inv PROVE Seen
  OBVIOUS
<1>1. ASSUME NEW a \in Actors
      PROVE  /\ At(a, "fill") <=> Filling(op[a], at[a])
             /\ At(a, "fillSettings") <=> FillingSettings(op[a], at[a])
  <2>1. CASE op[a] = NoOp
    BY <2>1 DEF At, Idle, Filling, FillingSettings
  <2>2. CASE op[a] # NoOp
    <3>1. op[a].do \in Dos /\ at[a] \in DOMAIN Steps(op[a].do)
      BY <2>2, UnderWay DEF Inv, OperationsOK, Sound
    <3>2. Located(op[a].do, at[a], Steps(op[a].do)[at[a]])
      BY <3>1, Places
    <3> QED
      BY <2>2, <3>2 DEF Located, At, Idle, Filling, FillingSettings
  <2> QED
    BY <2>1, <2>2
<1>2. \A a \in Actors : a # None
  BY MemoryAssumption DEF Actors
<1>3. lock \in Actors \cup {None}
  BY DEF Inv, VariablesOK
<1>4. \A a \in Actors : Filling(op[a], at[a]) \/ FillingSettings(op[a], at[a]) => lock = a
  BY DEF Inv, LockOK
<1>5. \A a \in Actors : Filling(op[a], at[a]) => EntriesNow = ToSet(loaded[a])
  BY <1>1, <1>2, <1>4 DEF EntriesNow
<1>6. (\A a \in Actors : ~Filling(op[a], at[a])) => EntriesNow = ToSet(doc)
  BY <1>1, <1>3 DEF EntriesNow
<1>7. \A a \in Actors : FillingSettings(op[a], at[a]) => SettingsNow = loaded[a][1]
  BY <1>1, <1>2, <1>4 DEF SettingsNow
<1>8. (\A a \in Actors : ~FillingSettings(op[a], at[a])) => SettingsNow = settings
  BY <1>1, <1>3 DEF SettingsNow
<1> QED
  BY <1>5, <1>6, <1>7, <1>8 DEF Seen

(* after a step too. *)
LEMMA ShownNext == Inv' => Seen'
BY Shown, PTL

(* A step of an actor that is not writing, which leaves the files alone,   *)
(* shows nothing.                                                          *)
LEMMA SameView ==
    ASSUME Inv, NEW a \in Actors, UNCHANGED <<doc, settings, lock>>, lock # a,
           \A b \in Actors : b # a => op'[b] = op[b] /\ at'[b] = at[b] /\ loaded'[b] = loaded[b]
    PROVE  EntriesNow' = EntriesNow /\ SettingsNow' = SettingsNow
<1>1. lock = None \/ (lock \in Actors /\ op'[lock] = op[lock] /\ at'[lock] = at[lock]
                                      /\ loaded'[lock] = loaded[lock])
  BY DEF Inv, VariablesOK
<1> QED
  BY <1>1 DEF EntriesNow, SettingsNow, At, Idle

(* Only the writer has the lock. *)
LEMMA NotLocked ==
    ASSUME Inv, NEW a \in Actors, NEW step, At(a, step), step \notin {"fill", "fillSettings"}
    PROVE  lock # a
<1>1. op[a] # NoOp /\ Located(op[a].do, at[a], step)
  BY Here
<1>2. ~Filling(op[a], at[a]) /\ ~FillingSettings(op[a], at[a])
  BY <1>1 DEF Located, Filling, FillingSettings
<1> QED
  BY <1>2 DEF Inv, LockOK

(* What an actor does to its own variables leaves the others'. *)
LEMMA Elsewhere ==
    ASSUME Inv, NEW a \in Actors, Advance(a) \/ Done(a)
    PROVE  \A b \in Actors : b # a => op'[b] = op[b] /\ at'[b] = at[b] /\ loaded'[b] = loaded[b]
<1>1. /\ at \in [Actors -> Nat] /\ op \in [Actors -> Operation \cup {NoOp}]
      /\ loaded \in [Actors -> Seq(EntryType \cup Settings)]
  BY DEF Inv, VariablesOK
<1>2. CASE Done(a)
  BY <1>1, <1>2 DEF Done
<1>3. CASE ~Done(a)
  <2>1. at' = [at EXCEPT ![a] = at[a] + 1] /\ op' = op /\ loaded' = loaded
    BY <1>3 DEF Advance
  <2> QED
    BY <1>1, <2>1
<1> QED
  BY <1>2, <1>3

(* The steps that neither open nor fill a file. *)
LEMMA QuietSteps ==
    ASSUME Inv, NEW a \in Actors,
           \/ Allow(a) \/ Judge(a) \/ Ensure(a) \/ Read(a) \/ AppendDaily(a) \/ Audit(a)
           \/ ReadSettings(a) \/ (Fails(a) /\ At(a, "open"))
    PROVE  EntriesNow' = EntriesNow /\ SettingsNow' = SettingsNow /\ trusted' = trusted
<1>1. /\ at \in [Actors -> Nat] /\ op \in [Actors -> Operation \cup {NoOp}]
      /\ loaded \in [Actors -> Seq(EntryType \cup Settings)]
  BY DEF Inv, VariablesOK
<1>2. ASSUME NEW step, At(a, step), step \notin {"fill", "fillSettings"},
             Advance(a) \/ Done(a), UNCHANGED <<doc, settings, lock>>
      PROVE  EntriesNow' = EntriesNow /\ SettingsNow' = SettingsNow
  <2>1. lock # a
    BY <1>2, NotLocked
  <2>2. \A b \in Actors : b # a => op'[b] = op[b] /\ at'[b] = at[b] /\ loaded'[b] = loaded[b]
    BY <1>2, Elsewhere
  <2> QED
    BY <1>2, <2>1, <2>2, SameView
<1>3. ASSUME NEW step, At(a, step), step \notin {"fill", "fillSettings"}, Fails(a)
      PROVE  EntriesNow' = EntriesNow /\ SettingsNow' = SettingsNow /\ trusted' = trusted
  <2>1. Done(a) /\ UNCHANGED <<doc, settings, lock>> /\ trusted' = trusted
    BY <1>3 DEF Fails, files, history
  <2> QED
    BY <1>2, <1>3, <2>1
<1>4. CASE Allow(a)
  <2>1. At(a, "allow")
    BY <1>4 DEF Allow
  <2>2. CASE Fails(a)
    BY <1>3, <2>1, <2>2
  <2>3. CASE ~Fails(a)
    <3>1. Advance(a) /\ UNCHANGED <<doc, settings, lock>> /\ trusted' = trusted
      BY <1>4, <2>3 DEF Allow, files, history
    <3> QED
      BY <1>2, <2>1, <3>1
  <2> QED
    BY <2>2, <2>3
<1>5. CASE Judge(a)
  <2>1. PICK step \in {"judge", "auto"} : At(a, step)
    BY <1>5 DEF Judge
  <2>2. CASE Fails(a)
    BY <1>3, <2>1, <2>2
  <2>3. CASE ~Fails(a)
    <3>1. /\ \E class \in Texts(a) : op' = [op EXCEPT ![a].class = class]
          /\ at' = [at EXCEPT ![a] = at[a] + 1] /\ loaded' = loaded
          /\ UNCHANGED <<doc, settings, lock>> /\ trusted' = trusted
      BY <1>5, <2>3 DEF Judge, files, history
    <3>2. \A b \in Actors : b # a => op'[b] = op[b] /\ at'[b] = at[b] /\ loaded'[b] = loaded[b]
      BY <1>1, <3>1
    <3>3. lock # a
      BY <2>1, NotLocked
    <3> QED
      BY <3>1, <3>2, <3>3, SameView
  <2> QED
    BY <2>2, <2>3
<1>6. CASE Ensure(a)
  <2>1. At(a, "ensure") /\ Advance(a) /\ UNCHANGED <<doc, settings, lock>> /\ trusted' = trusted
    BY <1>6 DEF Ensure, history
  <2> QED
    BY <1>2, <2>1
<1>7. CASE Read(a)
  <2>1. At(a, "read")
    BY <1>7 DEF Read
  <2>2. CASE Fails(a)
    BY <1>3, <2>1, <2>2
  <2>3. CASE ~Fails(a)
    <3>1. /\ loaded' = [loaded EXCEPT ![a] = doc] /\ at' = [at EXCEPT ![a] = at[a] + 1]
          /\ op' = op /\ UNCHANGED <<doc, settings, lock>> /\ trusted' = trusted
      BY <1>7, <2>3 DEF Read, files
    <3>2. \A b \in Actors : b # a => op'[b] = op[b] /\ at'[b] = at[b] /\ loaded'[b] = loaded[b]
      BY <1>1, <3>1
    <3>3. lock # a
      BY <2>1, NotLocked
    <3> QED
      BY <3>1, <3>2, <3>3, SameView
  <2> QED
    BY <2>2, <2>3
<1>8. CASE AppendDaily(a)
  <2>1. At(a, "append") /\ Advance(a) /\ UNCHANGED <<doc, settings, lock>> /\ trusted' = trusted
    BY <1>8 DEF AppendDaily, history
  <2> QED
    BY <1>2, <2>1
<1>9. CASE Audit(a)
  <2>1. At(a, "audit") /\ Done(a) /\ UNCHANGED <<doc, settings, lock>> /\ trusted' = trusted
    BY <1>9 DEF Audit, history
  <2> QED
    BY <1>2, <2>1
<1>10. CASE ReadSettings(a)
  <2>1. At(a, "settings")
    BY <1>10 DEF ReadSettings
  <2>2. CASE Fails(a)
    BY <1>3, <2>1, <2>2
  <2>3. CASE ~Fails(a)
    <3>1. /\ loaded' = [loaded EXCEPT ![a] = <<settings>>] /\ at' = [at EXCEPT ![a] = at[a] + 1]
          /\ op' = op /\ UNCHANGED <<doc, settings, lock>> /\ trusted' = trusted
      BY <1>10, <2>3 DEF ReadSettings, files
    <3>2. \A b \in Actors : b # a => op'[b] = op[b] /\ at'[b] = at[b] /\ loaded'[b] = loaded[b]
      BY <1>1, <3>1
    <3>3. lock # a
      BY <2>1, NotLocked
    <3> QED
      BY <3>1, <3>2, <3>3, SameView
  <2> QED
    BY <2>2, <2>3
<1>11. CASE Fails(a) /\ At(a, "open")
  BY <1>3, <1>11
<1> QED
  BY <1>4, <1>5, <1>6, <1>7, <1>8, <1>9, <1>10, <1>11

(* A file opened on what is still so shows what was there; *)
LEMMA OpenView ==
    ASSUME Inv, Inv', NEW a \in Actors, Open(a) \/ OpenSettings(a), trusted'
    PROVE  EntriesNow' = EntriesNow /\ SettingsNow' = SettingsNow /\ trusted' = trusted
<1>1. Seen /\ Seen'
  BY Shown, ShownNext
<1>2. CASE Open(a)
  <2>1. CASE Fails(a)
    BY <1>2, <2>1, QuietSteps DEF Open
  <2>2. CASE ~Fails(a)
    <3>1. /\ At(a, "open") /\ lock = None /\ Advance(a) /\ Overtaken(a) /\ settings' = settings
      BY <1>2, <2>2 DEF Open
    <3>2. /\ op[a] # NoOp /\ Located(op[a].do, at[a], "open") /\ at[a] \in Nat
          /\ Moves(a) /\ op'[a] = op[a] /\ at'[a] = at[a] + 1 /\ loaded'[a] = loaded[a]
      BY <3>1, Written
    <3>3. op[a].do \in Writers /\ at[a] = OpenAt(op[a].do)
      BY <3>2 DEF Located
    <3>4. /\ ReadAt(op[a].do) \in Nat /\ OpenAt(op[a].do) \in Nat
          /\ ReadAt(op[a].do) < OpenAt(op[a].do) /\ op[a].do # "settings"
      BY <3>2, <3>3, UnderWay DEF Writers
    <3>5. fresh[a] /\ trusted' = trusted
      BY <3>1 DEF Overtaken, Inv, VariablesOK
    <3>6. loaded[a] = doc
      BY <3>2, <3>3, <3>4, <3>5 DEF Inv, LoadedOK, Holding, Unwritten
    <3>7. \A b \in Actors : ~Filling(op[b], at[b]) /\ ~FillingSettings(op[b], at[b])
      BY <3>1, NotWriting
    <3>8. Filling(op'[a], at'[a]) /\ ~FillingSettings(op'[a], at'[a])
      BY <3>2, <3>3, <3>4 DEF Filling, FillingSettings
    <3>9. \A b \in Actors : ~FillingSettings(op'[b], at'[b])
      BY <3>2, <3>7, <3>8 DEF Moves
    <3>10. EntriesNow = ToSet(doc) /\ EntriesNow' = ToSet(loaded'[a])
      BY <1>1, <3>7, <3>8 DEF Seen
    <3>11. SettingsNow = settings /\ SettingsNow' = settings'
      BY <1>1, <3>7, <3>9 DEF Seen
    <3> QED
      BY <3>1, <3>2, <3>5, <3>6, <3>10, <3>11
  <2> QED
    BY <2>1, <2>2
<1>3. CASE OpenSettings(a)
  <2>1. /\ At(a, "openSettings") /\ lock = None /\ Advance(a) /\ Overtaken(a) /\ doc' = doc
    BY <1>3 DEF OpenSettings
  <2>2. /\ op[a] # NoOp /\ Located(op[a].do, at[a], "openSettings") /\ at[a] \in Nat
        /\ Moves(a) /\ op'[a] = op[a] /\ at'[a] = at[a] + 1 /\ loaded'[a] = loaded[a]
    BY <2>1, Written
  <2>3. op[a].do = "settings" /\ at[a] = 2
    BY <2>2 DEF Located
  <2>4. fresh[a] /\ trusted' = trusted
    BY <2>1 DEF Overtaken, Inv, VariablesOK
  <2>5. loaded[a][1] = settings
    BY <2>2, <2>3, <2>4 DEF Inv, LoadedOK, HoldingSettings
  <2>6. \A b \in Actors : ~Filling(op[b], at[b]) /\ ~FillingSettings(op[b], at[b])
    BY <2>1, NotWriting
  <2>7. ~Filling(op'[a], at'[a]) /\ FillingSettings(op'[a], at'[a])
    BY <2>2, <2>3 DEF Filling, FillingSettings, Writers
  <2>8. \A b \in Actors : ~Filling(op'[b], at'[b])
    BY <2>2, <2>6, <2>7 DEF Moves
  <2>9. EntriesNow = ToSet(doc) /\ EntriesNow' = ToSet(doc')
    BY <1>1, <2>6, <2>8 DEF Seen
  <2>10. SettingsNow = settings /\ SettingsNow' = loaded'[a][1]
    BY <1>1, <2>6, <2>7 DEF Seen
  <2> QED
    BY <2>1, <2>2, <2>4, <2>5, <2>9, <2>10
<1> QED
  BY <1>2, <1>3

(* the document filled shows what its operation made of it: the step of    *)
(* the abstract memory; *)
LEMMA FillView ==
    ASSUME Inv, Inv', NEW a \in Actors, Fill(a)
    PROVE  /\ \/ Rewrites(EntriesNow, EntriesNow') \/ Remembers(EntriesNow, EntriesNow')
              \/ Supersedes(EntriesNow, EntriesNow') \/ Forgets(EntriesNow, EntriesNow')
              \/ WritesByHand(EntriesNow, EntriesNow')
           /\ SettingsNow' = SettingsNow /\ trusted' = trusted
<1>1. Seen /\ Seen'
  BY Shown, ShownNext
<1>2. /\ At(a, "fill") /\ lock = a /\ doc' = Changed(loaded[a], op[a]) /\ Advance(a)
      /\ settings' = settings /\ trusted' = trusted /\ lock' = None
  BY DEF Fill, history
<1>3. /\ op[a] # NoOp /\ Located(op[a].do, at[a], "fill") /\ at[a] \in Nat
      /\ Moves(a) /\ op'[a] = op[a] /\ at'[a] = at[a] + 1
  BY <1>2, Written
<1>4. op[a].do \in Writers /\ at[a] = OpenAt(op[a].do) + 1
  BY <1>3 DEF Located
<1>5. /\ ReadAt(op[a].do) \in Nat /\ OpenAt(op[a].do) \in Nat
      /\ ReadAt(op[a].do) < OpenAt(op[a].do) /\ op[a].do # "settings"
      /\ op[a] \in Operation /\ Named(op[a])
  BY <1>3, <1>4, UnderWay DEF Writers
<1>6. Holding(op[a], at[a]) /\ Unwritten(op[a], at[a]) /\ Filling(op[a], at[a])
  BY <1>3, <1>4, <1>5 DEF Holding, Unwritten, Filling
<1>7. Tidy(loaded[a], ops, Pending) /\ ~Unknown(loaded[a], op[a]) /\ op[a].n \in Pending
  BY <1>6, PendingTyped DEF Inv, LoadedOK
<1>8. op[a].do \in Judged => Passed(op[a])
  <2>1. op[a].do \in Judged => JudgedAt(op[a].do) < OpenAt(op[a].do) /\ JudgedAt(op[a].do) \in Nat
    BY <1>4, Places
  <2>2. op[a].do \in Judged => at[a] > JudgedAt(op[a].do)
    BY <1>4, <1>5, <2>1
  <2> QED
    BY <1>3, <2>2 DEF Inv, OperationsOK, Sound
<1> DEFINE D == ToSet(loaded[a])
           E == ToSet(Changed(loaded[a], op[a]))
<1>9. Rewrites(D, E) \/ Remembers(D, E) \/ Supersedes(D, E) \/ Forgets(D, E) \/ WritesByHand(D, E)
  BY <1>4, <1>5, <1>7, <1>8, ChangedStep
<1>10. \A b \in Actors : ~FillingSettings(op[b], at[b])
  <2>1. \A b \in Actors : FillingSettings(op[b], at[b]) => b = a
    BY <1>2 DEF Inv, LockOK
  <2>2. ~FillingSettings(op[a], at[a])
    BY <1>5 DEF FillingSettings
  <2> QED
    BY <2>1, <2>2
<1>11. \A b \in Actors : ~Filling(op'[b], at'[b]) /\ ~FillingSettings(op'[b], at'[b])
  BY <1>2, MemoryAssumption DEF Inv, LockOK, Actors
<1>12. EntriesNow = D /\ EntriesNow' = E
  BY <1>1, <1>2, <1>6, <1>11 DEF Seen
<1>13. SettingsNow = settings /\ SettingsNow' = settings'
  BY <1>1, <1>10, <1>11 DEF Seen
<1> QED
  BY <1>2, <1>9, <1>12, <1>13

(* the settings filled show one field changed. *)
LEMMA FillSettingsView ==
    ASSUME Inv, Inv', NEW a \in Actors, FillSettings(a)
    PROVE  /\ \E field \in {"mode", "policy"} : \A other \in {"mode", "policy"} \ {field} :
                SettingsNow'[other] = SettingsNow[other]
           /\ EntriesNow' = EntriesNow /\ trusted' = trusted
<1>1. Seen /\ Seen'
  BY Shown, ShownNext
<1>2. /\ At(a, "fillSettings") /\ lock = a /\ lock' = None /\ Advance(a)
      /\ doc' = doc /\ trusted' = trusted
  BY DEF FillSettings, history
<1>3. op[a] # NoOp /\ Located(op[a].do, at[a], "fillSettings")
  BY <1>2, Here
<1>4. op[a].do = "settings" /\ at[a] = 3
  BY <1>3 DEF Located
<1>5. FillingSettings(op[a], at[a]) /\ HoldingSettings(op[a], at[a]) /\ ~Filling(op[a], at[a])
  BY <1>3, <1>4 DEF FillingSettings, HoldingSettings, Filling, Writers
<1>6. \A b \in Actors : ~Filling(op[b], at[b])
  <2>1. \A b \in Actors : Filling(op[b], at[b]) => b = a
    BY <1>2 DEF Inv, LockOK
  <2> QED
    BY <1>5, <2>1
<1>7. \A b \in Actors : ~Filling(op'[b], at'[b]) /\ ~FillingSettings(op'[b], at'[b])
  BY <1>2, MemoryAssumption DEF Inv, LockOK, Actors
<1>8. EntriesNow = ToSet(doc) /\ EntriesNow' = ToSet(doc')
  BY <1>1, <1>6, <1>7 DEF Seen
<1>9. SettingsNow = loaded[a][1] /\ SettingsNow' = settings'
  BY <1>1, <1>5, <1>7 DEF Seen
<1>10. loaded[a][1] \in Settings
  <2>1. loaded[a] \in Seq(Settings) /\ Len(loaded[a]) = 1
    BY <1>5 DEF Inv, LoadedOK
  <2> QED
    BY <2>1, ListFacts
<1>11. CASE \E mode \in Modes : settings' = [loaded[a][1] EXCEPT !.mode = mode]
  <2>1. settings'["policy"] = loaded[a][1]["policy"]
    BY <1>10, <1>11 DEF Settings
  <2>2. \A other \in {"mode", "policy"} \ {"mode"} : SettingsNow'[other] = SettingsNow[other]
    BY <1>9, <2>1
  <2> QED
    BY <1>2, <1>8, <2>2
<1>12. CASE \E policy \in Policies : settings' = [loaded[a][1] EXCEPT !.policy = policy]
  <2>1. settings'["mode"] = loaded[a][1]["mode"]
    BY <1>10, <1>12 DEF Settings
  <2>2. \A other \in {"mode", "policy"} \ {"policy"} : SettingsNow'[other] = SettingsNow[other]
    BY <1>9, <2>1
  <2> QED
    BY <1>2, <1>8, <2>2
<1> QED
  BY <1>11, <1>12 DEF FillSettings

(* The rest: a beginning shows nothing, *)
LEMMA BeginsView ==
    ASSUME Inv, NEW a \in Actors, Begins(a)
    PROVE  EntriesNow' = EntriesNow /\ SettingsNow' = SettingsNow /\ trusted' = trusted
<1>1. PICK o \in Operation : Start(a, o)
  BY DEF Begins
<1>2. /\ op[a] = NoOp /\ op' = [op EXCEPT ![a] = o]
      /\ UNCHANGED <<doc, settings, lock, at, loaded>> /\ trusted' = trusted
  BY <1>1 DEF Start, Idle, files
<1>3. lock # a
  BY <1>2 DEF Inv, LockOK, Filling, FillingSettings
<1>4. \A b \in Actors : b # a => op'[b] = op[b] /\ at'[b] = at[b] /\ loaded'[b] = loaded[b]
  BY <1>2 DEF Inv, VariablesOK
<1> QED
  BY <1>2, <1>3, <1>4, SameView

(* and a crash shows what is in the files. *)
LEMMA CrashView ==
    ASSUME Inv, Crash, trusted'
    PROVE  EntriesNow' = EntriesNow /\ SettingsNow' = SettingsNow /\ trusted' = trusted
<1>1. /\ lock = None /\ lock' = None /\ doc' = doc /\ settings' = settings /\ trusted' = trusted
  BY DEF Crash, files, Inv, VariablesOK
<1> QED
  BY <1>1 DEF EntriesNow, SettingsNow

(* A document that is empty. *)
LEMMA NothingShown == ToSet(<<>>) = {}
BY DEF ToSet

(* Every step is one of the abstract memory, or shows nothing. *)
LEMMA NextView ==
    ASSUME Inv, Inv', [Next]_vars
    PROVE  [Curated!MNext]_(Curated!mvars)
<1> USE DEF Curated!mvars
<1>1. ASSUME EntriesNow' = EntriesNow /\ SettingsNow' = SettingsNow /\ trusted' = trusted
      PROVE  [Curated!MNext]_(Curated!mvars)
  BY <1>1
<1>2. CASE ~trusted'
  <2>1. trusted' = FALSE
    BY <1>2 DEF Inv, VariablesOK
  <2>2. Curated!MNext
    BY <2>1 DEF Curated!MNext
  <2> QED
    BY <2>2
<1>3. CASE trusted'
  <2>1. CASE MemoryWrite \/ MemorySearch \/ MemoryRead \/ Writeback \/ Command
             \/ \E a \in Clients : Route(a)
    <3>1. PICK a \in Actors : Begins(a)
      BY <2>1, NextBegins
    <3>2. EntriesNow' = EntriesNow /\ SettingsNow' = SettingsNow /\ trusted' = trusted
      BY <3>1, BeginsView
    <3> QED
      BY <1>1, <3>2
  <2>2. ASSUME NEW a \in Actors, Step(a) PROVE [Curated!MNext]_(Curated!mvars)
    <3>1. CASE \/ Allow(a) \/ Judge(a) \/ Ensure(a) \/ Read(a) \/ AppendDaily(a) \/ Audit(a)
               \/ ReadSettings(a)
      <4>1. \/ Allow(a) \/ Judge(a) \/ Ensure(a) \/ Read(a) \/ AppendDaily(a) \/ Audit(a)
            \/ ReadSettings(a) \/ (Fails(a) /\ At(a, "open"))
        BY <3>1
      <4>2. EntriesNow' = EntriesNow /\ SettingsNow' = SettingsNow /\ trusted' = trusted
        BY <4>1, QuietSteps
      <4> QED
        BY <1>1, <4>2
    <3>2. CASE Open(a) \/ OpenSettings(a)
      <4>1. EntriesNow' = EntriesNow /\ SettingsNow' = SettingsNow /\ trusted' = trusted
        BY <1>3, <3>2, OpenView
      <4> QED
        BY <1>1, <4>1
    <3>3. CASE Fill(a)
      <4>1. /\ \/ Rewrites(EntriesNow, EntriesNow') \/ Remembers(EntriesNow, EntriesNow')
               \/ Supersedes(EntriesNow, EntriesNow') \/ Forgets(EntriesNow, EntriesNow')
               \/ WritesByHand(EntriesNow, EntriesNow')
            /\ SettingsNow' = SettingsNow /\ trusted' = trusted
        BY <3>3, FillView
      <4>2. Rewrites(EntriesNow, EntriesNow') => Curated!Rewrite
        BY DEF Rewrites, Curated!Rewrite
      <4>3. Remembers(EntriesNow, EntriesNow') => Curated!Remember
        BY DEF Remembers, Curated!Remember
      <4>4. Supersedes(EntriesNow, EntriesNow') => Curated!Supersede
        BY DEF Supersedes, Curated!Supersede
      <4>5. Forgets(EntriesNow, EntriesNow') => Curated!Forget
        BY DEF Forgets, Curated!Forget
      <4>6. WritesByHand(EntriesNow, EntriesNow') => Curated!WriteByHand
        BY DEF WritesByHand, Curated!WriteByHand
      <4>7. Curated!MNext
        BY <4>1, <4>2, <4>3, <4>4, <4>5, <4>6 DEF Curated!MNext
      <4> QED
        BY <4>7
    <3>4. CASE FillSettings(a)
      <4>1. /\ \E field \in {"mode", "policy"} : \A other \in {"mode", "policy"} \ {field} :
                 SettingsNow'[other] = SettingsNow[other]
            /\ EntriesNow' = EntriesNow /\ trusted' = trusted
        BY <3>4, FillSettingsView
      <4>2. Curated!SetOneField
        BY <4>1 DEF Curated!SetOneField
      <4>3. Curated!MNext
        BY <4>1, <4>2 DEF Curated!MNext
      <4> QED
        BY <4>3
    <3> QED
      BY <2>2, <3>1, <3>2, <3>3, <3>4 DEF Step
  <2>3. CASE CloseSession
    <3>1. UNCHANGED <<doc, settings, lock, op, at, loaded, trusted>>
      BY <2>3 DEF CloseSession, files, local, history
    <3>2. EntriesNow' = EntriesNow
      BY <3>1 DEF EntriesNow, At, Idle
    <3>3. SettingsNow' = SettingsNow
      BY <3>1 DEF SettingsNow, At, Idle
    <3>4. trusted' = trusted
      BY <3>1
    <3> QED
      BY <1>1, <3>2, <3>3, <3>4
  <2>4. CASE DeleteSessionMemory
    <3>1. lock = None /\ lock' = None /\ doc' = <<>> /\ trusted' = trusted
      BY <2>4 DEF DeleteSessionMemory
    <3>2. EntriesNow' = {}
      BY <3>1, NothingShown DEF EntriesNow
    <3>3. Curated!MNext
      BY <3>1, <3>2 DEF Curated!MNext, Curated!Clear
    <3> QED
      BY <3>3
  <2>5. CASE Crash
    <3>1. EntriesNow' = EntriesNow /\ SettingsNow' = SettingsNow /\ trusted' = trusted
      BY <1>3, <2>5, CrashView
    <3> QED
      BY <1>1, <3>1
  <2>6. CASE UNCHANGED vars
    <3>1. UNCHANGED <<doc, settings, lock, op, at, loaded, trusted>>
      BY <2>6 DEF vars, files, local, history
    <3>2. EntriesNow' = EntriesNow
      BY <3>1 DEF EntriesNow, At, Idle
    <3>3. SettingsNow' = SettingsNow
      BY <3>1 DEF SettingsNow, At, Idle
    <3>4. trusted' = trusted
      BY <3>1
    <3> QED
      BY <1>1, <3>2, <3>3, <3>4
  <2> QED
    BY <2>1, <2>2, <2>3, <2>4, <2>5, <2>6 DEF Next
<1> QED
  BY <1>2, <1>3

(* As long as no operation has overtaken another, what the workspace shows *)
(* is the abstract memory: each operation takes effect at once, whatever   *)
(* is interleaved with it and wherever it fails or is killed.              *)
THEOREM MemoryIsCurated == Spec => CuratedSpec
<1>1. Init => Curated!MInit
  <2> SUFFICES ASSUME Init PROVE Curated!MInit
    OBVIOUS
  <2>1. lock = None /\ doc = <<>> /\ trusted = TRUE
    BY DEF Init
  <2> QED
    BY <2>1, NothingShown DEF Curated!MInit, EntriesNow
<1>2. Inv /\ Inv' /\ [Next]_vars => [Curated!MNext]_(Curated!mvars)
  BY NextView
<1> QED
  BY <1>1, <1>2, InvHolds, PTL DEF Spec, CuratedSpec, Curated!MSpec
================================================================================
