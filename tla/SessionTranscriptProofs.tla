----------------------- MODULE SessionTranscriptProofs -----------------------
(***************************************************************************)
(* Proofs about SessionTranscript, for any number of turns and any number  *)
(* of turns a compaction keeps: the rows and the context never part, no    *)
(* completed exchange is lost, and the saved conversation only grows.      *)
(***************************************************************************)
EXTENDS SessionTranscript, TLAPS, SequenceTheorems, FiniteSetTheorems, FunctionTheorems

(* t continues s. *)
Continues(s, t) == /\ Len(s) <= Len(t)
                   /\ \A i \in 1..Len(s) : t[i] = s[i]

(* The exchanges of s are in the order of the turns, without repetition;   *)
(* none is earlier than its place, which bounds how many there are.        *)
Ordered(s) == \A i \in 1..Len(s) : /\ i <= s[i]
                                   /\ \A j \in 1..Len(s) : i < j => s[i] < s[j]

(* The rows of table, numbered from 1, hold the sequence s. *)
Matches(table, s) ==
    /\ \A row \in table : row.seq \in 1..Len(s) /\ row.exchange = s[row.seq]
    /\ \A i \in 1..Len(s) : \E row \in table : row.seq = i
    /\ \A a, b \in table : a.seq = b.seq => a = b

(* Every exchange of s is of an accepted turn. *)
Accepted(s) == \A i \in 1..Len(s) : status[s[i]] # "none"

Working == {"start", "agent", "persist", "finish", "fail"}

(* Turns are accepted in the order of their numbers, and the worker's is   *)
(* one of them.                                                            *)
StatusOK ==
    /\ \A t, u \in Turns : (u < t /\ status[t] # "none") => status[u] # "none"
    /\ pc \in Working => current \in Turns /\ status[current] # "none"

(* The rows hold a sequence. *)
RowsOK == InOrder(rows) \in Seq(Turns) /\ Matches(rows, InOrder(rows))

(* The saved and the remembered conversation are in order, and before it   *)
(* is answered the worker's turn is later than all of them.                *)
OrderOK ==
    /\ Ordered(Saved) /\ Accepted(Saved)
    /\ pc # "off" => Ordered(Remembered) /\ Accepted(Remembered)
    /\ pc \in {"start", "agent"} => \A i \in 1..Len(Remembered) : Remembered[i] < current

(* The counters say what is saved; and either a compaction has happened    *)
(* since, or the context still ends in the saved rows and what came after. *)
SyncOK ==
    pc # "off" =>
    /\ persistedCount = Len(InOrder(rows))
    /\ persistedCompactions = dbSummary.count
    /\ Continues(Saved, Remembered)
    /\ Len(dbSummary.covered) <= Len(summary.covered)
    /\ \/ summary.count > persistedCompactions
       \/ summary = dbSummary /\ Continues(InOrder(rows), messages)

(* A turn that is completed, or about to be, is saved. *)
OutcomeOK ==
    /\ \A t \in Turns : status[t] = "completed" => \E i \in 1..Len(Saved) : Saved[i] = t
    /\ pc = "persist" => Len(messages) > 0 /\ messages[Len(messages)] = current
    /\ pc = "finish" => \E i \in 1..Len(Saved) : Saved[i] = current

Consistent == TypeOK /\ StatusOK /\ RowsOK /\ OrderOK /\ SyncOK /\ OutcomeOK

-----------------------------------------------------------------------------
(* Sequences *)

(* Appending to a sequence continues it. *)
LEMMA ContinuesAppend ==
    ASSUME NEW S, NEW s \in Seq(S), NEW t \in Seq(S), Continues(s, t), NEW e \in S
    PROVE  Continues(s, Append(t, e))
BY AppendProperties DEF Continues

(* A sequence continues itself, and continuing is transitive. *)
LEMMA ContinuesOrder ==
    ASSUME NEW S, NEW s \in Seq(S), NEW t \in Seq(S), NEW u \in Seq(S)
    PROVE  /\ Continues(s, s)
           /\ Continues(s, t) /\ Continues(t, u) => Continues(s, u)
BY DEF Continues

(* What continues the end continues the whole. *)
LEMMA ContinuesConcat ==
    ASSUME NEW S, NEW c \in Seq(S), NEW s \in Seq(S), NEW t \in Seq(S), Continues(s, t)
    PROVE  Continues(c \o s, c \o t)
BY ConcatProperties DEF Continues

(* Continuing is having the same beginning. *)
LEMMA ContinuesIsSubSeq ==
    ASSUME NEW S, NEW s \in Seq(S), NEW t \in Seq(S), Continues(s, t)
    PROVE  SubSeq(t, 1, Len(s)) = s
<1> DEFINE b == SubSeq(t, 1, Len(s))
<1>1. \A i \in 1..Len(s) : t[i] \in S
  BY DEF Continues
<1>2. /\ b \in Seq(S) /\ Len(b) = Len(s)
      /\ \A i \in 1..Len(s) : b[i] = s[i]
  BY <1>1, SubSeqProperties DEF Continues
<1> HIDE DEF b
<1>3. b = s
  BY <1>2, SeqEqual
<1> QED
  BY <1>3 DEF b

(* m is a, and then b. *)
Halves(m, a, b) == /\ Len(m) = Len(a) + Len(b)
                   /\ \A i \in 1..Len(a) : m[i] = a[i]
                   /\ \A i \in 1..Len(b) : m[Len(a) + i] = b[i]

(* Two halves of a sequence, behind another one. *)
LEMMA ConcatHalves ==
    ASSUME NEW S, NEW c \in Seq(S), NEW m \in Seq(S), NEW a \in Seq(S), NEW b \in Seq(S)
    PROVE  Halves(m, a, b) => (c \o a) \o b = c \o m
<1>1. /\ c \o a \in Seq(S) /\ Len(c \o a) = Len(c) + Len(a)
      /\ \A i \in 1..Len(c) + Len(a) :
            (c \o a)[i] = IF i <= Len(c) THEN c[i] ELSE a[i - Len(c)]
  BY ConcatProperties
<1>2. PICK x \in Seq(S) : x = c \o a
  BY <1>1
<1>3. /\ x \o b \in Seq(S) /\ Len(x \o b) = Len(x) + Len(b)
      /\ \A i \in 1..Len(x) + Len(b) :
            (x \o b)[i] = IF i <= Len(x) THEN x[i] ELSE b[i - Len(x)]
  BY ConcatProperties
<1>4. PICK y \in Seq(S) : y = x \o b
  BY <1>3
<1>5. /\ c \o m \in Seq(S) /\ Len(c \o m) = Len(c) + Len(m)
      /\ \A i \in 1..Len(c) + Len(m) :
            (c \o m)[i] = IF i <= Len(c) THEN c[i] ELSE m[i - Len(c)]
  BY ConcatProperties
<1>6. PICK z \in Seq(S) : z = c \o m
  BY <1>5
<1>7. Len(a) \in Nat /\ Len(b) \in Nat /\ Len(c) \in Nat
  OBVIOUS
<1>8. /\ Len(x) = Len(c) + Len(a)
      /\ \A i \in 1..Len(x) : x[i] = IF i <= Len(c) THEN c[i] ELSE a[i - Len(c)]
  BY <1>1, <1>2, Zenon
<1>9. /\ Len(y) = Len(x) + Len(b)
      /\ \A i \in 1..Len(y) : y[i] = IF i <= Len(x) THEN x[i] ELSE b[i - Len(x)]
  BY <1>3, <1>4, Zenon
<1>10. /\ Len(z) = Len(c) + Len(m)
       /\ \A i \in 1..Len(z) : z[i] = IF i <= Len(c) THEN c[i] ELSE m[i - Len(c)]
  BY <1>5, <1>6, Zenon
<1>11. ASSUME Len(m) = Len(a) + Len(b)
       PROVE  Len(y) = Len(z)
  BY <1>7, <1>8, <1>9, <1>10, <1>11
<1>12. ASSUME \A i \in 1..Len(a) : m[i] = a[i],
              \A i \in 1..Len(b) : m[Len(a) + i] = b[i],
              NEW i \in 1..Len(y)
       PROVE  Len(y) = Len(z) => y[i] = z[i]
  <2>1. CASE i <= Len(c)
    <3>1. i \in 1..Len(x)
      BY <1>7, <1>8, <2>1
    <3>2. y[i] = x[i]
      BY <1>9, <3>1
    <3>3. x[i] = c[i]
      BY <1>8, <2>1, <3>1
    <3> QED
      BY <1>10, <2>1, <3>2, <3>3
  <2>2. CASE Len(c) < i /\ i <= Len(x)
    <3>1. i - Len(c) \in 1..Len(a)
      BY <1>7, <1>8, <2>2
    <3>2. y[i] = a[i - Len(c)]
      BY <1>7, <1>8, <1>9, <2>2
    <3>3. m[i - Len(c)] = a[i - Len(c)]
      BY <1>12, <3>1
    <3> QED
      BY <1>7, <1>10, <2>2, <3>2, <3>3
  <2>3. CASE Len(x) < i
    <3>1. i - Len(x) \in 1..Len(b)
      BY <1>7, <1>8, <1>9, <2>3
    <3>2. Len(a) + (i - Len(x)) = i - Len(c)
      BY <1>7, <1>8
    <3>3. m[i - Len(c)] = b[i - Len(x)]
      BY <1>12, <3>1, <3>2
    <3>4. y[i] = b[i - Len(x)]
      BY <1>7, <1>8, <1>9, <2>3
    <3> QED
      BY <1>7, <1>8, <1>10, <2>3, <3>3, <3>4
  <2> QED
    BY <1>7, <1>8, <2>1, <2>2, <2>3
<1>13. ASSUME Len(y) = Len(z), \A i \in 1..Len(y) : y[i] = z[i] PROVE y = z
  BY <1>13, SeqEqual
<1>14. (/\ Len(m) = Len(a) + Len(b)
        /\ \A i \in 1..Len(a) : m[i] = a[i]
        /\ \A i \in 1..Len(b) : m[Len(a) + i] = b[i]) => y = z
  BY <1>11, <1>12, <1>13, Zenon
<1> QED
  BY <1>2, <1>4, <1>6, <1>14, Zenon DEF Halves

(* Folding the oldest messages into the summary changes nothing that is    *)
(* remembered (compact_with_details).                                      *)
Folded(c, m, k) == (c \o SubSeq(m, 1, k)) \o SubSeq(m, k + 1, Len(m))
Joined(c, m)    == c \o m

(* The summary and what is kept are together what there was before. *)
LEMMA FoldRemembers ==
    ASSUME NEW S, NEW c \in Seq(S), NEW m \in Seq(S), NEW k \in 1..Len(m)
    PROVE  /\ SubSeq(m, 1, k) \in Seq(S) /\ SubSeq(m, k + 1, Len(m)) \in Seq(S)
           /\ Len(SubSeq(m, 1, k)) = k
           /\ Folded(c, m, k) = Joined(c, m)
<1>a. SubSeq(m, 1, k) \in Seq(S) /\ SubSeq(m, k + 1, Len(m)) \in Seq(S)
  BY SubSeqProperties
<1>1. PICK a \in Seq(S) : a = SubSeq(m, 1, k)
  BY <1>a, Zenon
<1>2. PICK b \in Seq(S) : b = SubSeq(m, k + 1, Len(m))
  BY <1>a, Zenon
<1>3. Len(a) = k /\ \A i \in 1..k : a[i] = m[i]
  BY <1>1, SubSeqProperties
<1>4. Len(b) = Len(m) - k /\ \A i \in 1..Len(m) - k : b[i] = m[k + i]
  BY <1>2, SubSeqProperties
<1>5. Halves(m, a, b)
  BY <1>3, <1>4 DEF Halves
<1>6. (c \o a) \o b = c \o m
  BY <1>5, ConcatHalves, Z3T(30)
<1> QED
  BY <1>a, <1>1, <1>2, <1>3, <1>6, Zenon DEF Folded, Joined

(* An ordered sequence of turns is no longer than there are turns. *)
LEMMA OrderedIsBounded ==
    ASSUME NEW s \in Seq(Turns), Ordered(s)
    PROVE  Len(s) <= MaxTurns
<1>1. CASE Len(s) = 0
  BY <1>1, TranscriptAssumption
<1>2. CASE Len(s) > 0
  <2>1. Len(s) \in 1..Len(s)
    BY <1>2
  <2>2. Len(s) <= s[Len(s)]
    BY <2>1 DEF Ordered
  <2>3. s[Len(s)] \in 1..MaxTurns
    BY <2>1, ElementOfSeq DEF Turns
  <2> QED
    BY <2>2, <2>3, TranscriptAssumption
<1> QED
  BY <1>1, <1>2

(* What begins an ordered sequence is ordered; a later turn may follow it. *)
LEMMA OrderedGrows ==
    ASSUME NEW s \in Seq(Turns), Ordered(s), NEW t \in Turns,
           \A i \in 1..Len(s) : s[i] < t
    PROVE  Ordered(Append(s, t))
<1>1. /\ Len(Append(s, t)) = Len(s) + 1
      /\ \A i \in 1..Len(s) : Append(s, t)[i] = s[i]
      /\ Append(s, t)[Len(s) + 1] = t
  BY AppendProperties
<1>2. Len(s) < t
  <2>1. CASE Len(s) = 0
    BY <2>1, TranscriptAssumption DEF Turns
  <2>2. CASE Len(s) > 0
    <3>1. Len(s) \in 1..Len(s) /\ s[Len(s)] \in Turns
      BY <2>2, ElementOfSeq
    <3> QED
      BY <3>1, TranscriptAssumption DEF Ordered, Turns
  <2> QED
    BY <2>1, <2>2
<1>3. \A i \in 1..Len(s) : s[i] \in Nat
  BY TranscriptAssumption DEF Turns
<1> QED
  BY <1>1, <1>2, <1>3, TranscriptAssumption DEF Ordered, Turns

(* An element behind a concatenation is an element behind its end. *)
LEMMA ConcatAppend ==
    ASSUME NEW S, NEW c \in Seq(S), NEW m \in Seq(S), NEW e \in S
    PROVE  c \o Append(m, e) = Append(c \o m, e)
<1>1. PICK x \in Seq(S) : x = c \o m
  BY ConcatProperties
<1>2. PICK n \in Seq(S) : n = Append(m, e)
  BY AppendProperties
<1>3. PICK y \in Seq(S) : y = c \o n
  BY ConcatProperties
<1>4. PICK z \in Seq(S) : z = Append(x, e)
  BY AppendProperties
<1>5. /\ Len(n) = Len(m) + 1
      /\ \A i \in 1..Len(m) : n[i] = m[i]
      /\ n[Len(m) + 1] = e
  BY <1>2, AppendProperties
<1>6. /\ Len(x) = Len(c) + Len(m)
      /\ \A i \in 1..Len(x) : x[i] = IF i <= Len(c) THEN c[i] ELSE m[i - Len(c)]
  BY <1>1, ConcatProperties
<1>7. /\ Len(y) = Len(c) + Len(n)
      /\ \A i \in 1..Len(y) : y[i] = IF i <= Len(c) THEN c[i] ELSE n[i - Len(c)]
  BY <1>3, ConcatProperties
<1>8. /\ Len(z) = Len(x) + 1
      /\ \A i \in 1..Len(x) : z[i] = x[i]
      /\ z[Len(x) + 1] = e
  BY <1>4, AppendProperties
<1>9. Len(c) \in Nat /\ Len(m) \in Nat
  OBVIOUS
<1>10. Len(y) = Len(z)
  BY <1>5, <1>6, <1>7, <1>8, <1>9
<1>11. ASSUME NEW i \in 1..Len(y) PROVE y[i] = z[i]
  <2>1. CASE i = Len(x) + 1
    <3>1. y[i] = n[Len(m) + 1]
      BY <1>6, <1>7, <1>9, <2>1
    <3> QED
      BY <1>5, <1>8, <2>1, <3>1
  <2>2. CASE i \in 1..Len(x) /\ i <= Len(c)
    <3>1. y[i] = c[i]
      BY <1>7, <2>2
    <3>2. z[i] = x[i] /\ x[i] = c[i]
      BY <1>6, <1>8, <2>2
    <3> QED
      BY <3>1, <3>2
  <2>3. CASE i \in 1..Len(x) /\ Len(c) < i
    <3>1. i - Len(c) \in 1..Len(m)
      BY <1>6, <1>9, <2>3
    <3>2. y[i] = n[i - Len(c)]
      BY <1>7, <1>9, <2>3
    <3>3. z[i] = m[i - Len(c)]
      BY <1>6, <1>8, <1>9, <2>3
    <3> QED
      BY <1>5, <3>1, <3>2, <3>3
  <2>4. \/ i = Len(x) + 1
        \/ i \in 1..Len(x) /\ i <= Len(c)
        \/ i \in 1..Len(x) /\ Len(c) < i
    BY <1>5, <1>6, <1>7, <1>9
  <2> QED
    BY <2>1, <2>2, <2>3, <2>4
<1>12. y = z
  BY <1>10, <1>11, SeqEqual
<1> QED
  BY <1>1, <1>2, <1>3, <1>4, <1>12

(* The elements of a concatenation are those of its parts. *)
LEMMA ConcatElements ==
    ASSUME NEW S, NEW c \in Seq(S), NEW m \in Seq(S)
    PROVE  /\ c \o m \in Seq(S) /\ Len(c \o m) = Len(c) + Len(m)
           /\ \A i \in 1..Len(m) : Len(c) + i \in 1..Len(c \o m) /\ (c \o m)[Len(c) + i] = m[i]
BY ConcatProperties

-----------------------------------------------------------------------------
(* Rows *)

(* Rows that hold a sequence are as many as it is long, and are read back  *)
(* as that sequence.                                                       *)
LEMMA ReadsBack ==
    ASSUME NEW table, NEW s \in Seq(Turns), Matches(table, s)
    PROVE  Cardinality(table) = Len(s) /\ InOrder(table) = s
<1> DEFINE at(i) == CHOOSE row \in table : row.seq = i
           f == [i \in 1..Len(s) |-> at(i)]
<1>1. \A i \in 1..Len(s) : at(i) \in table /\ at(i).seq = i /\ at(i).exchange = s[i]
  BY DEF Matches
<1> HIDE DEF at
<1>2. f \in [1..Len(s) -> table]
  BY <1>1
<1>3. \A i, j \in 1..Len(s) : f[i] = f[j] => i = j
  BY <1>1
<1>4. \A row \in table : \E i \in 1..Len(s) : f[i] = row
  BY <1>1 DEF Matches
<1>5. ExistsBijection(1..Len(s), table)
  <2> HIDE DEF f
  <2>1. f \in Bijection(1..Len(s), table)
    BY <1>2, <1>3, <1>4, Fun_IsBij
  <2> QED
    BY <2>1, Fun_ExistsBij
<1>6. Cardinality(table) = Len(s)
  BY <1>5, FS_CountingElements
<1>7. InOrder(table) = [i \in 1..Len(s) |-> at(i).exchange]
  BY <1>6 DEF InOrder, at
<1>8. InOrder(table) = [i \in 1..Len(s) |-> s[i]]
  BY <1>1, <1>7
<1>9. s = [i \in 1..Len(s) |-> s[i]]
  OBVIOUS
<1> QED
  BY <1>6, <1>8, <1>9

(* The rows inserted for the messages from position first on.              *)
LEMMA RowsInserted ==
    ASSUME NEW m \in Seq(Turns), NEW first \in Nat, NEW t
    PROVE  /\ \A row \in Rows(m, first, t) : row.seq \in first..Len(m) /\ row.exchange = m[row.seq]
           /\ \A i \in first..Len(m) : \E row \in Rows(m, first, t) : row.seq = i
           /\ \A a, b \in Rows(m, first, t) : a.seq = b.seq => a = b
<1>1. ASSUME NEW i \in first..Len(m)
      PROVE  \E row \in Rows(m, first, t) : row.seq = i
  <2>1. [seq |-> i, exchange |-> m[i], turn |-> t] \in Rows(m, first, t)
    BY DEF Rows
  <2> QED
    BY <2>1
<1> QED
  BY <1>1 DEF Rows

(* replace_session_snapshot's rows hold the messages it is given. *)
LEMMA ReplacedMatch ==
    ASSUME NEW m \in Seq(Turns), NEW t
    PROVE  Matches(Rows(m, 1, t), m)
BY RowsInserted DEF Matches

(* append_session_snapshot_delta's rows, with those they are added to.     *)
LEMMA AppendedMatch ==
    ASSUME NEW table, NEW s \in Seq(Turns), Matches(table, s),
           NEW m \in Seq(Turns), Continues(s, m), NEW t
    PROVE  Matches(table \cup Rows(m, Len(s) + 1, t), m)
<1> DEFINE more == Rows(m, Len(s) + 1, t)
<1>1. \A row \in more : row.seq \in (Len(s) + 1)..Len(m) /\ row.exchange = m[row.seq]
  BY RowsInserted
<1>2. \A i \in (Len(s) + 1)..Len(m) : \E row \in more : row.seq = i
  BY RowsInserted
<1>3. \A a, b \in more : a.seq = b.seq => a = b
  BY RowsInserted
<1> HIDE DEF more
<1>4. \A row \in table : row.seq \in 1..Len(s) /\ row.exchange = m[row.seq]
  BY DEF Matches, Continues
<1>5. Len(s) \in Nat /\ Len(m) \in Nat /\ Len(s) <= Len(m)
  BY DEF Continues
<1>6. \A row \in table \cup more : row.seq \in 1..Len(m) /\ row.exchange = m[row.seq]
  BY <1>1, <1>4, <1>5
<1>7. \A i \in 1..Len(m) : \E row \in table \cup more : row.seq = i
  BY <1>2, <1>5 DEF Matches
<1>8. \A a, b \in table \cup more : a.seq = b.seq => a = b
  <2> SUFFICES ASSUME NEW a \in table \cup more, NEW b \in table \cup more, a.seq = b.seq
               PROVE  a = b
    OBVIOUS
  <2>1. CASE a \in table /\ b \in table
    BY <2>1 DEF Matches
  <2>2. CASE a \in more /\ b \in more
    BY <2>2, <1>3
  <2>3. \A x \in table, y \in more : x.seq # y.seq
    BY <1>1, <1>4, <1>5
  <2> QED
    BY <2>1, <2>2, <2>3
<1> QED
  BY <1>6, <1>7, <1>8 DEF Matches, more

-----------------------------------------------------------------------------
(* The inductive invariant *)

(* What the invariant says of the sequences the model is made of. *)
LEMMA Shapes ==
    ASSUME Consistent
    PROVE  /\ InOrder(rows) \in Seq(Turns) /\ Cardinality(rows) = Len(InOrder(rows))
           /\ dbSummary.covered \in Seq(Turns) /\ dbSummary.count \in Nat
           /\ summary.covered \in Seq(Turns) /\ summary.count \in Nat
           /\ messages \in Seq(Turns)
           /\ Saved \in Seq(Turns) /\ Remembered \in Seq(Turns)
<1>1. InOrder(rows) \in Seq(Turns) /\ Cardinality(rows) = Len(InOrder(rows))
  BY ReadsBack DEF Consistent, RowsOK
<1>2. /\ dbSummary.covered \in Seq(Turns) /\ dbSummary.count \in Nat
      /\ summary.covered \in Seq(Turns) /\ summary.count \in Nat
      /\ messages \in Seq(Turns)
  BY DEF Consistent, TypeOK, Summaries
<1>3. Saved \in Seq(Turns)
  BY <1>1, <1>2, ConcatProperties DEF Saved
<1>4. Remembered \in Seq(Turns)
  BY <1>2, ConcatProperties DEF Remembered
<1> QED
  BY <1>1, <1>2, <1>3, <1>4

(* It holds when the table is empty and nothing runs. *)
LEMMA InitConsistent == Init => Consistent
<1> SUFFICES ASSUME Init PROVE Consistent
  OBVIOUS
<1>1. TypeOK
  BY TranscriptAssumption DEF Init, TypeOK, NoSummary, NoDetail, Summaries
<1>2. Matches(rows, <<>>)
  BY DEF Init, Matches
<1>e. <<>> \in Seq(Turns)
  OBVIOUS
<1>3. InOrder(rows) = <<>>
  BY <1>2, <1>e, ReadsBack, Zenon
<1>4. Saved = <<>>
  BY <1>3 DEF Saved, Init, NoSummary
<1>5. StatusOK
  BY DEF Init, StatusOK, Working
<1>6. RowsOK
  BY <1>2, <1>3 DEF RowsOK
<1>7. OrderOK
  BY <1>4 DEF Init, OrderOK, Ordered, Accepted
<1>8. SyncOK
  BY DEF Init, SyncOK
<1>9. OutcomeOK
  BY DEF Init, OutcomeOK
<1> QED
  BY <1>1, <1>5, <1>6, <1>7, <1>8, <1>9 DEF Consistent

(* No more messages are kept than there are turns. *)
LEMMA MessagesAreBounded ==
    ASSUME Consistent, pc # "off"
    PROVE  Len(messages) <= MaxTurns
<1>1. Len(Remembered) <= MaxTurns
  BY Shapes, OrderedIsBounded DEF Consistent, OrderOK
<1>2. Len(Remembered) = Len(summary.covered) + Len(messages)
  BY Shapes, ConcatProperties DEF Remembered
<1>3. Len(summary.covered) \in Nat /\ Len(messages) \in Nat
  BY Shapes
<1> QED
  BY <1>1, <1>2, <1>3, TranscriptAssumption

(* Every step of the worker, the requests and the process keeps the types. *)
LEMMA NextType ==
    ASSUME Consistent, [Next]_vars
    PROVE  TypeOK'
<1> USE TranscriptAssumption
<1>t. TypeOK
  BY DEF Consistent
<1>1. CASE UNCHANGED vars
  BY <1>t, <1>1 DEF TypeOK, vars, context, counters, database, details
<1>2. CASE Hydrate
  BY <1>t, <1>2, Shapes DEF TypeOK, Hydrate, Hydrated, database, details, Summaries
<1>3. ASSUME NEW t \in Turns, Submit(t) PROVE TypeOK'
  BY <1>t, <1>3 DEF TypeOK, Submit, context, counters, database, details
<1>4. ASSUME NEW k \in Turns, Compact(k) PROVE TypeOK'
  <2>1. k \in 1..Len(messages)
    BY <1>t, <1>4 DEF Compact, CompactedTo, Evictable, TypeOK, Turns
  <2>2. /\ SubSeq(messages, 1, k) \in Seq(Turns)
        /\ SubSeq(messages, k + 1, Len(messages)) \in Seq(Turns)
    BY <2>1, Shapes, FoldRemembers
  <2>3. PICK covered \in Seq(Turns) : covered = summary.covered \o SubSeq(messages, 1, k)
    BY <2>2, Shapes, ConcatProperties
  <2>4. summary' = [count |-> summary.count + 1, covered |-> covered]
    BY <1>4, <2>3 DEF Compact, CompactedTo
  <2>5. summary' \in Summaries
    BY <2>4, Shapes DEF Summaries
  <2> QED
    BY <1>t, <1>4, <2>2, <2>5 DEF TypeOK, Compact, CompactedTo, counters, database, details
<1>5. CASE SkipCompaction \/ Raise \/ WorkerDies
  BY <1>t, <1>5 DEF TypeOK, SkipCompaction, Raise, WorkerDies, context, counters, database, details
<1>6. CASE Answer
  <2>1. current \in Turns
    BY <1>6 DEF Consistent, StatusOK, Working, Answer
  <2> QED
    BY <1>t, <1>6, <2>1, AppendProperties DEF TypeOK, Answer, counters, database, details
<1>7. CASE Persist
  <2>1. current \in Turns /\ Len(messages) <= MaxTurns
    BY <1>7, MessagesAreBounded DEF Consistent, StatusOK, Working, Persist
  <2>2. \A first \in Nat \ {0} :
            Rows(messages, first, current) \subseteq [seq : Turns, exchange : Turns, turn : Turns]
    BY <1>t, <2>1, ElementOfSeq DEF TypeOK, Rows, Turns
  <2>3. rows' \subseteq [seq : Turns, exchange : Turns, turn : Turns]
    BY <1>t, <1>7, <2>2 DEF TypeOK, Persist, Replaced, Appended
  <2> QED
    BY <1>t, <1>7, <2>3, Shapes DEF TypeOK, Persist, context, details
<1>8. CASE FinishTurnSuccess \/ FinishTurnFailure
  BY <1>t, <1>8 DEF TypeOK, FinishTurnSuccess, FinishTurnFailure, Settle, context, counters,
                    database, details
<1>9. CASE Restart
  BY <1>t, <1>9 DEF TypeOK, Restart, database, NoSummary, NoDetail, Summaries
<1>10. ASSUME NEW c \in Readers, ReadSession(c) \/ ReadMessages(c) PROVE TypeOK'
  <2>1. UNCHANGED <<status, pc, current, context, counters, database>>
    BY <1>10 DEF ReadSession, ReadMessages
  <2>2. /\ rpc' \in [Readers -> {"idle", "messages", "answered"}]
        /\ seen' \in [Readers -> [covered : Seq(Turns), messages : Seq(Turns)]]
        /\ asked' \in [Readers -> Seq(Turns)]
    <3>1. CASE ReadSession(c)
      BY <1>t, <3>1, Shapes DEF TypeOK, ReadSession
    <3>2. CASE ReadMessages(c)
      BY <1>t, <3>2, Shapes DEF TypeOK, ReadMessages
    <3> QED
      BY <1>10, <3>1, <3>2
  <2> QED
    BY <1>t, <2>1, <2>2 DEF TypeOK, context, counters, database
<1> QED
  BY <1>1, <1>2, <1>3, <1>4, <1>5, <1>6, <1>7, <1>8, <1>9, <1>10 DEF Next

(* Steps that touch neither the context, the counters nor the tables keep  *)
(* all that is said of them.                                               *)
LEMMA Untouched ==
    ASSUME Consistent, UNCHANGED <<context, counters, database>>
    PROVE  /\ RowsOK' /\ Saved' = Saved /\ Remembered' = Remembered
           /\ (pc' # "off" => pc # "off") => SyncOK'
<1>1. InOrder(rows)' = InOrder(rows)
  BY DEF InOrder, database
<1>2. RowsOK'
  BY <1>1 DEF Consistent, RowsOK, Matches, database
<1>3. Saved' = Saved /\ Remembered' = Remembered
  BY <1>1 DEF Saved, Remembered, context, database
<1>4. (pc' # "off" => pc # "off") => SyncOK'
  BY <1>1, <1>3 DEF Consistent, SyncOK, Continues, context, counters, database
<1> QED
  BY <1>2, <1>3, <1>4

(* A new runtime continues exactly the saved conversation. *)
LEMMA HydrateConsistent ==
    ASSUME Consistent, Hydrate
    PROVE  (StatusOK /\ RowsOK /\ OrderOK /\ SyncOK /\ OutcomeOK)'
<1> USE DEF Hydrate, Hydrated
<1>1. InOrder(rows)' = InOrder(rows) /\ Saved' = Saved
  BY DEF InOrder, Saved, database
<1>2. Remembered' = Saved
  BY DEF Remembered, Saved
<1>3. StatusOK'
  BY DEF Consistent, StatusOK, Working
<1>4. RowsOK'
  BY <1>1 DEF Consistent, RowsOK, Matches, database
<1>5. OrderOK'
  BY <1>1, <1>2 DEF Consistent, OrderOK, Ordered, Accepted
<1>6. Continues(Saved, Saved) /\ Continues(InOrder(rows), InOrder(rows))
  BY Shapes, ContinuesOrder
<1>7. SyncOK'
  <2>1. /\ persistedCount' = Len(InOrder(rows))
        /\ persistedCompactions' = dbSummary.count /\ dbSummary' = dbSummary
        /\ summary' = dbSummary /\ messages' = InOrder(rows)
    BY Shapes DEF database
  <2>2. Continues(Saved, Remembered)'
    BY <1>1, <1>2, <1>6 DEF Continues
  <2>3. Continues(InOrder(rows), messages)'
    BY <1>1, <1>6, <2>1 DEF Continues
  <2>4. Len(dbSummary.covered) <= Len(dbSummary.covered)
    BY Shapes
  <2> QED
    BY <1>1, <2>1, <2>2, <2>3, <2>4 DEF SyncOK
<1>8. OutcomeOK'
  BY <1>1 DEF Consistent, OutcomeOK
<1> QED
  BY <1>3, <1>4, <1>5, <1>7, <1>8

(* The turn that is accepted is later than everything remembered. *)
LEMMA SubmitConsistent ==
    ASSUME Consistent, NEW t \in Turns, Submit(t)
    PROVE  (StatusOK /\ RowsOK /\ OrderOK /\ SyncOK /\ OutcomeOK)'
<1> USE DEF Submit
<1>1. RowsOK' /\ SyncOK' /\ Saved' = Saved /\ Remembered' = Remembered
  BY Untouched
<1>2. /\ \A u \in Turns : status'[u] # "none" <=> (status[u] # "none" \/ u = t)
      /\ \A u \in Turns : status'[u] = "completed" => status[u] = "completed"
  BY DEF Consistent, TypeOK
<1>3. StatusOK'
  <2>1. ASSUME NEW v \in Turns, NEW u \in Turns, u < v, status'[v] # "none"
        PROVE  status'[u] # "none"
    <3>1. CASE v = t
      <4>1. u \in 1..(t - 1)
        BY <2>1, <3>1, TranscriptAssumption DEF Turns
      <4> QED
        BY <1>2, <4>1
    <3>2. CASE v # t
      BY <1>2, <2>1, <3>2 DEF Consistent, StatusOK
    <3> QED
      BY <3>1, <3>2
  <2> QED
    BY <1>2, <2>1 DEF StatusOK
<1>4. OrderOK'
  <2>1. ASSUME NEW s \in Seq(Turns), Accepted(s) PROVE Accepted(s)'
    BY <1>2, <2>1, ElementOfSeq DEF Accepted
  <2>2. ASSUME NEW i \in 1..Len(Remembered) PROVE Remembered[i] < t
    <3>1. Remembered[i] \in Turns
      BY Shapes, ElementOfSeq
    <3>2. status[Remembered[i]] # "none"
      BY DEF Consistent, OrderOK, Accepted
    <3>3. ~(t < Remembered[i])
      BY <3>1, <3>2 DEF Consistent, StatusOK
    <3>4. Remembered[i] # t
      BY <3>2
    <3> QED
      BY <3>1, <3>3, <3>4, TranscriptAssumption DEF Turns
  <2>3. Ordered(Saved)' /\ Ordered(Remembered)'
    BY <1>1 DEF Consistent, OrderOK, Ordered
  <2>4. Accepted(Saved)' /\ Accepted(Remembered)'
    <3>1. Accepted(Saved) /\ Accepted(Remembered)
      BY DEF Consistent, OrderOK
    <3> QED
      BY <1>1, <1>2, <3>1, Shapes, ElementOfSeq DEF Accepted
  <2> QED
    BY <1>1, <2>2, <2>3, <2>4 DEF OrderOK
<1>5. OutcomeOK'
  BY <1>1, <1>2 DEF Consistent, OutcomeOK
<1> QED
  BY <1>1, <1>3, <1>4, <1>5

(* Compaction changes nothing that is remembered, and is counted. *)
LEMMA CompactConsistent ==
    ASSUME Consistent, NEW k \in Turns, Compact(k)
    PROVE  (StatusOK /\ RowsOK /\ OrderOK /\ SyncOK /\ OutcomeOK)'
<1> USE DEF Compact, CompactedTo
<1>1. InOrder(rows)' = InOrder(rows) /\ Saved' = Saved
  BY DEF InOrder, Saved, database
<1>2. k \in 1..Len(messages)
  BY TranscriptAssumption DEF Consistent, TypeOK, Turns, Evictable
<1>3. Remembered' = Remembered
  <2>1. summary.covered \in Seq(Turns) /\ messages \in Seq(Turns)
    BY Shapes
  <2>2. Folded(summary.covered, messages, k) = Joined(summary.covered, messages)
    BY <1>2, <2>1, FoldRemembers
  <2>3. /\ summary'.covered = summary.covered \o SubSeq(messages, 1, k)
        /\ messages' = SubSeq(messages, k + 1, Len(messages))
    OBVIOUS
  <2> QED
    BY <2>2, <2>3, Zenon DEF Remembered, Folded, Joined
<1>4. StatusOK'
  BY DEF Consistent, StatusOK, Working
<1>5. RowsOK'
  BY <1>1 DEF Consistent, RowsOK, Matches, database
<1>6. OrderOK'
  BY <1>1, <1>3 DEF Consistent, OrderOK, Ordered, Accepted
<1>7. SyncOK'
  <2>1. UNCHANGED <<persistedCount, persistedCompactions, dbSummary>>
    BY DEF counters, database
  <2>2. persistedCompactions = dbSummary.count /\ persistedCompactions <= summary.count
    <3>1. dbSummary.count \in Nat /\ summary.count \in Nat
      BY Shapes
    <3>2. /\ persistedCompactions = dbSummary.count
          /\ summary.count > persistedCompactions \/ summary = dbSummary
      BY DEF Consistent, SyncOK
    <3> QED
      BY <3>1, <3>2
  <2>3. summary'.count > persistedCompactions
    <3>1. dbSummary.count \in Nat /\ summary.count \in Nat
      BY Shapes
    <3>2. summary'.count = summary.count + 1
      OBVIOUS
    <3> QED
      BY <2>2, <3>1, <3>2
  <2>4. PICK folded \in Seq(Turns) : folded = SubSeq(messages, 1, k)
    BY <1>2, Shapes, FoldRemembers
  <2>5. Len(dbSummary.covered) <= Len(summary'.covered)
    <3>1. Len(summary'.covered) = Len(summary.covered) + Len(folded)
      BY <2>4, Shapes, ConcatProperties
    <3>2. Len(dbSummary.covered) <= Len(summary.covered)
      BY DEF Consistent, SyncOK
    <3>3. /\ dbSummary.covered \in Seq(Turns) /\ summary.covered \in Seq(Turns)
          /\ folded \in Seq(Turns)
      BY Shapes
    <3> HIDE DEF Compact, CompactedTo
    <3>4. /\ Len(dbSummary.covered) \in Nat /\ Len(summary.covered) \in Nat
          /\ Len(folded) \in Nat
      BY <3>3, LenProperties
    <3> QED
      BY <3>1, <3>2, <3>4
  <2>6. Continues(Saved, Remembered)'
    BY <1>1, <1>3 DEF Consistent, SyncOK, Continues
  <2> QED
    BY <1>1, <2>1, <2>3, <2>5, <2>6 DEF Consistent, SyncOK
<1>8. OutcomeOK'
  BY <1>1 DEF Consistent, OutcomeOK
<1> QED
  BY <1>4, <1>5, <1>6, <1>7, <1>8

(* The answer goes to the end, where no later turn's can be yet. *)
LEMMA AnswerConsistent ==
    ASSUME Consistent, Answer
    PROVE  (StatusOK /\ RowsOK /\ OrderOK /\ SyncOK /\ OutcomeOK)'
<1> USE DEF Answer
<1>1. InOrder(rows)' = InOrder(rows) /\ Saved' = Saved
  BY DEF InOrder, Saved, database
<1>2. current \in Turns /\ status[current] # "none"
  BY DEF Consistent, StatusOK, Working
<1>3. Remembered' = Append(Remembered, current)
  <2>1. PICK c \in Seq(Turns), m \in Seq(Turns) : c = summary.covered /\ m = messages
    BY Shapes
  <2>2. c \o Append(m, current) = Append(c \o m, current)
    BY <1>2, ConcatAppend, Z3
  <2>3. summary' = summary /\ messages' = Append(messages, current)
    OBVIOUS
  <2> QED
    BY <2>1, <2>2, <2>3, Zenon DEF Remembered
<1>4. PICK r \in Seq(Turns) : r = Append(Remembered, current)
  BY <1>2, Shapes, AppendProperties
<1>5. /\ Len(r) = Len(Remembered) + 1
      /\ \A i \in 1..Len(Remembered) : r[i] = Remembered[i]
      /\ r[Len(Remembered) + 1] = current
  BY <1>2, <1>4, Shapes, AppendProperties
<1>6. StatusOK'
  BY DEF Consistent, StatusOK, Working
<1>7. RowsOK'
  BY <1>1 DEF Consistent, RowsOK, Matches, database
<1>8. Ordered(r)
  BY <1>2, <1>4, Shapes, OrderedGrows DEF Consistent, OrderOK
<1>9. OrderOK'
  <2>1. Accepted(r)
    <3>1. Len(Remembered) \in Nat
      BY Shapes
    <3>2. \A i \in 1..Len(Remembered) : status[Remembered[i]] # "none"
      BY DEF Consistent, OrderOK, Accepted
    <3>3. ASSUME NEW i \in 1..Len(r) PROVE status[r[i]] # "none"
      <4>1. i \in 1..Len(Remembered) \/ i = Len(Remembered) + 1
        BY <1>5, <3>1
      <4> QED
        BY <1>2, <1>5, <3>2, <4>1
    <3> QED
      BY <3>3 DEF Accepted
  <2>2. (Ordered(Saved) /\ Accepted(Saved))'
    BY <1>1 DEF Consistent, OrderOK, Ordered, Accepted
  <2>3. (Ordered(Remembered) /\ Accepted(Remembered))'
    BY <1>3, <1>4, <1>8, <2>1 DEF Ordered, Accepted
  <2> QED
    BY <2>2, <2>3 DEF OrderOK
<1>10. SyncOK'
  <2>1. Continues(Saved, r)
    BY <1>5, Shapes DEF Consistent, SyncOK, Continues
  <2>2. Continues(Saved, Remembered)'
    BY <1>1, <1>3, <1>4, <2>1 DEF Continues
  <2>3. Continues(InOrder(rows), messages) => Continues(InOrder(rows), messages')
    BY <1>2, Shapes, ContinuesAppend
  <2>4. Continues(InOrder(rows), messages)' <=> Continues(InOrder(rows), messages')
    BY <1>1 DEF Continues
  <2>5. UNCHANGED <<summary, persistedCount, persistedCompactions, dbSummary>>
    BY DEF counters, database
  <2> QED
    BY <1>1, <2>2, <2>3, <2>4, <2>5 DEF Consistent, SyncOK
<1>11. OutcomeOK'
  <2>1. Len(messages') > 0 /\ messages'[Len(messages')] = current
    BY <1>2, Shapes, AppendProperties
  <2> QED
    BY <1>1, <2>1 DEF Consistent, OutcomeOK
<1> QED
  BY <1>6, <1>7, <1>9, <1>10, <1>11

(* Whether it appends or replaces, _persist_completed_turn_snapshot leaves *)
(* in the database exactly what the context remembers.                     *)
LEMMA PersistSaves ==
    ASSUME Consistent, Persist
    PROVE  InOrder(rows)' = messages /\ Matches(rows', messages) /\ Saved' = Remembered
<1>1. Matches(rows', messages)
  <2>1. CASE ShouldReplace
    <3>1. rows' = Rows(messages, 1, current)
      BY <2>1 DEF Persist, Replaced
    <3> QED
      BY <3>1, Shapes, ReplacedMatch
  <2>2. CASE ~ShouldReplace
    <3>1. Continues(InOrder(rows), messages)
      BY <2>2, Shapes DEF ShouldReplace, Consistent, SyncOK, Persist
    <3>2. Matches(rows, InOrder(rows))
      BY DEF Consistent, RowsOK
    <3>3. Matches(rows \cup Rows(messages, Len(InOrder(rows)) + 1, current), messages)
      BY <3>1, <3>2, Shapes, AppendedMatch
    <3>4. rows' = rows \cup Rows(messages, Len(InOrder(rows)) + 1, current)
      BY <2>2 DEF Persist, Appended, Consistent, SyncOK
    <3> QED
      BY <3>3, <3>4
  <2> QED
    BY <2>1, <2>2
<1>2. InOrder(rows') = messages
  BY <1>1, Shapes, ReadsBack
<1>3. InOrder(rows)' = messages
  BY <1>2 DEF InOrder
<1>4. Saved' = Remembered
  BY <1>3 DEF Saved, Remembered, Persist
<1> QED
  BY <1>1, <1>3, <1>4

(* Saving makes the counters, the rows and the context agree. *)
LEMMA PersistConsistent ==
    ASSUME Consistent, Persist
    PROVE  (StatusOK /\ RowsOK /\ OrderOK /\ SyncOK /\ OutcomeOK)'
<1>1. InOrder(rows)' = messages /\ Matches(rows', messages) /\ Saved' = Remembered
  BY PersistSaves
<1>2. /\ pc = "persist" /\ pc' = "finish"
      /\ UNCHANGED <<status, current, messages, summary>>
      /\ dbSummary' = summary /\ persistedCount' = Len(messages)
      /\ persistedCompactions' = summary.count
  BY DEF Persist, context
<1>3. Remembered' = Remembered
  BY <1>2 DEF Remembered
<1>4. StatusOK'
  BY <1>2 DEF Consistent, StatusOK, Working
<1>5. RowsOK'
  BY <1>1, <1>2, Shapes DEF RowsOK, Matches
<1>6. OrderOK'
  BY <1>1, <1>2, <1>3 DEF Consistent, OrderOK, Ordered, Accepted
<1>7. SyncOK'
  <2>1. Continues(Remembered, Remembered) /\ Continues(messages, messages)
    BY Shapes, ContinuesOrder
  <2>2. Continues(Saved, Remembered)' /\ Continues(InOrder(rows), messages)'
    BY <1>1, <1>2, <1>3, <2>1 DEF Continues
  <2>3. Len(summary.covered) <= Len(summary.covered)
    BY Shapes
  <2> QED
    BY <1>1, <1>2, <2>2, <2>3 DEF SyncOK
<1>8. OutcomeOK'
  <2>1. ASSUME NEW t \in Turns, \E i \in 1..Len(Saved) : Saved[i] = t
        PROVE  \E i \in 1..Len(Remembered) : Remembered[i] = t
    BY <1>2, <2>1, Shapes DEF Consistent, SyncOK, Continues
  <2>2. \E i \in 1..Len(Remembered) : Remembered[i] = current
    <3>1. Len(messages) \in 1..Len(messages) /\ messages[Len(messages)] = current
      BY <1>2, Shapes DEF Consistent, OutcomeOK
    <3>2. /\ Len(summary.covered) + Len(messages) \in 1..Len(Remembered)
          /\ Remembered[Len(summary.covered) + Len(messages)] = current
      BY <3>1, Shapes, ConcatElements DEF Remembered
    <3> QED
      BY <3>2
  <2> QED
    BY <1>1, <1>2, <2>1, <2>2 DEF Consistent, OutcomeOK
<1> QED
  BY <1>4, <1>5, <1>6, <1>7, <1>8

(* A turn's end is not the first it is heard of, and a completed turn was  *)
(* saved before.                                                           *)
LEMMA SettleConsistent ==
    ASSUME Consistent, FinishTurnSuccess \/ FinishTurnFailure
    PROVE  (StatusOK /\ RowsOK /\ OrderOK /\ SyncOK /\ OutcomeOK)'
<1> USE DEF FinishTurnSuccess, FinishTurnFailure, Settle
<1>1. RowsOK' /\ SyncOK' /\ Saved' = Saved /\ Remembered' = Remembered
  BY Untouched
<1>2. current \in Turns /\ status[current] # "none" /\ pc # "off" /\ pc' = "idle"
  BY DEF Consistent, StatusOK, Working
<1>3. /\ \A u \in Turns : status'[u] # "none" <=> status[u] # "none"
      /\ \A u \in Turns : status'[u] = "completed" =>
             status[u] = "completed" \/ (u = current /\ pc = "finish")
  BY <1>2 DEF Consistent, TypeOK
<1>4. StatusOK'
  BY <1>2, <1>3 DEF Consistent, StatusOK, Working
<1>5. OrderOK'
  <2>1. Ordered(Saved) /\ Accepted(Saved) /\ Ordered(Remembered) /\ Accepted(Remembered)
    BY <1>2 DEF Consistent, OrderOK
  <2>2. Ordered(Saved)' /\ Ordered(Remembered)'
    BY <1>1, <2>1 DEF Ordered
  <2>3. Accepted(Saved)' /\ Accepted(Remembered)'
    BY <1>1, <1>3, <2>1, Shapes, ElementOfSeq DEF Accepted
  <2> QED
    BY <1>2, <2>1, <2>2, <2>3 DEF OrderOK
<1>6. OutcomeOK'
  BY <1>1, <1>2, <1>3 DEF Consistent, OutcomeOK
<1> QED
  BY <1>1, <1>4, <1>5, <1>6

(* A restart forgets the context and keeps the tables. *)
LEMMA RestartConsistent ==
    ASSUME Consistent, Restart
    PROVE  (StatusOK /\ RowsOK /\ OrderOK /\ SyncOK /\ OutcomeOK)'
<1>1. InOrder(rows)' = InOrder(rows) /\ Saved' = Saved /\ rows' = rows /\ pc' = "off"
  BY DEF InOrder, Saved, database, Restart
<1>2. /\ \A u \in Turns : status'[u] # "none" <=> status[u] # "none"
      /\ \A u \in Turns : status'[u] = "completed" => status[u] = "completed"
  BY DEF Consistent, TypeOK, Restart
<1>3. StatusOK'
  BY <1>1, <1>2 DEF Consistent, StatusOK, Working
<1>4. RowsOK'
  BY <1>1 DEF Consistent, RowsOK, Matches
<1>5. OrderOK'
  BY <1>1, <1>2, Shapes, ElementOfSeq DEF Consistent, OrderOK, Ordered, Accepted
<1>6. SyncOK' /\ OutcomeOK'
  BY <1>1, <1>2 DEF Consistent, SyncOK, OutcomeOK
<1> QED
  BY <1>3, <1>4, <1>5, <1>6

(* Steps that change only where the worker or a reader is. *)
LEMMA QuietConsistent ==
    ASSUME Consistent,
           \/ UNCHANGED vars \/ SkipCompaction \/ Raise \/ WorkerDies
           \/ \E c \in Readers : ReadSession(c) \/ ReadMessages(c)
    PROVE  (StatusOK /\ RowsOK /\ OrderOK /\ SyncOK /\ OutcomeOK)'
<1>1. /\ UNCHANGED <<status, current, context, counters, database>>
      /\ pc' # "off" => pc # "off"
      /\ pc' \in Working => pc \in Working
      /\ pc' \in {"start", "agent"} => pc \in {"start", "agent"}
      /\ pc' \in {"persist", "finish"} => pc' = pc
  BY DEF vars, SkipCompaction, Raise, WorkerDies, ReadSession, ReadMessages, Working
<1>2. RowsOK' /\ SyncOK' /\ Saved' = Saved /\ Remembered' = Remembered
  BY <1>1, Untouched
<1>3. StatusOK'
  BY <1>1 DEF Consistent, StatusOK
<1>4. OrderOK'
  BY <1>1, <1>2 DEF Consistent, OrderOK, Ordered, Accepted
<1>5. OutcomeOK'
  BY <1>1, <1>2 DEF Consistent, OutcomeOK, context
<1> QED
  BY <1>2, <1>3, <1>4, <1>5

(* Every step keeps the invariant. *)
LEMMA NextConsistent == Consistent /\ [Next]_vars => Consistent'
<1> SUFFICES ASSUME Consistent, [Next]_vars PROVE Consistent'
  OBVIOUS
<1>1. TypeOK'
  BY NextType
<1>2. (StatusOK /\ RowsOK /\ OrderOK /\ SyncOK /\ OutcomeOK)'
  <2>1. CASE Hydrate
    BY <2>1, HydrateConsistent
  <2>2. ASSUME NEW t \in Turns, Submit(t) \/ Compact(t)
        PROVE  (StatusOK /\ RowsOK /\ OrderOK /\ SyncOK /\ OutcomeOK)'
    BY <2>2, SubmitConsistent, CompactConsistent
  <2>3. CASE Answer
    BY <2>3, AnswerConsistent
  <2>4. CASE Persist
    BY <2>4, PersistConsistent
  <2>5. CASE FinishTurnSuccess \/ FinishTurnFailure
    BY <2>5, SettleConsistent
  <2>6. CASE Restart
    BY <2>6, RestartConsistent
  <2>7. CASE \/ UNCHANGED vars \/ SkipCompaction \/ Raise \/ WorkerDies
             \/ \E c \in Readers : ReadSession(c) \/ ReadMessages(c)
    BY <2>7, QuietConsistent
  <2> QED
    BY <2>1, <2>2, <2>3, <2>4, <2>5, <2>6, <2>7 DEF Next
<1> QED
  BY <1>1, <1>2 DEF Consistent

(* The invariant holds of every state the session can reach. *)
THEOREM AlwaysConsistent == Spec => []Consistent
<1> QED
  BY InitConsistent, NextConsistent, PTL DEF Spec

-----------------------------------------------------------------------------
(* What it gives *)

(* Rows that hold a sequence are numbered from 1 without gap. *)
LEMMA RowsAreNumbered ==
    ASSUME Consistent
    PROVE  {row.seq : row \in rows} = 1..Cardinality(rows)
<1>1. {row.seq : row \in rows} = 1..Len(InOrder(rows))
  BY DEF Consistent, RowsOK, Matches
<1> QED
  BY <1>1, Shapes

(* The worker's counters say what the tables hold, and the rows are        *)
(* numbered 1, 2, 3..., for any number of turns, compactions, failures and *)
(* restarts: _persist_completed_turn_snapshot's choice between appending   *)
(* and replacing is sound.                                                 *)
THEOREM CountersAreRight == Spec => []CountersMatchRows
<1>1. ASSUME Consistent PROVE CountersMatchRows
  BY <1>1, RowsAreNumbered, Shapes
     DEF Consistent, CountersMatchRows, SyncOK, RowsOK, Matches
<1> QED
  BY AlwaysConsistent, <1>1, PTL

(* The saved conversation is in order, repeats nothing and has every       *)
(* completed turn: no compaction, failed turn or restart loses one.        *)
THEOREM NoExchangeLost == Spec => []NothingLost
<1>1. ASSUME Consistent PROVE NothingLost
  BY <1>1 DEF Consistent, NothingLost, OrderOK, OutcomeOK, Ordered
<1> QED
  BY AlwaysConsistent, <1>1, PTL

(* What the agent remembers while the session runs begins with all that is *)
(* saved.                                                                  *)
THEOREM MemoryContinuesSaved == Spec => []ContextContinues
<1>1. ASSUME Consistent PROVE ContextContinues
  BY <1>1, Shapes, ContinuesIsSubSeq DEF Consistent, ContextContinues, SyncOK, Continues
<1> QED
  BY AlwaysConsistent, <1>1, PTL

(* A save extends the log and may fold its beginning. *)
LEMMA PersistExtends ==
    ASSUME Consistent, Persist
    PROVE  Log!Save
<1>1. Saved' = Remembered /\ Len(dbSummary'.covered) = Len(summary.covered)
  BY PersistSaves DEF Persist
<1>2. Continues(Saved, Remembered) /\ Len(dbSummary.covered) <= Len(summary.covered)
  BY DEF Consistent, SyncOK, Persist
<1>3. SubSeq(Remembered, 1, Len(Saved)) = Saved
  BY <1>2, Shapes, ContinuesIsSubSeq
<1>4. Log!Extends(Remembered, Saved)
  BY <1>2, <1>3 DEF Log!Extends, Continues
<1>5. /\ Len(Remembered) = Len(summary.covered) + Len(messages)
      /\ Len(messages) > 0
  BY Shapes, ConcatProperties DEF Remembered, Consistent, OutcomeOK, Persist
<1>6. Len(summary.covered) \in Len(dbSummary.covered)..(Len(Remembered) - 1)
  BY <1>2, <1>5, Shapes
<1> QED
  BY <1>1, <1>4, <1>6 DEF Log!Save

(* The detailed worker, with its context, counters, compactions and        *)
(* restarts, implements the log that only grows at its end: no save ever   *)
(* rewrites what an earlier one made durable.                              *)
THEOREM SavesAppend == Spec => LogSpec
<1>1. Init => Log!Init
  <2> SUFFICES ASSUME Init PROVE Log!Init
    OBVIOUS
  <2>1. Consistent
    BY InitConsistent
  <2>2. Cardinality(rows) = 0 /\ dbSummary.covered = <<>>
    BY FS_EmptySet DEF Init, NoSummary
  <2>3. InOrder(rows) = <<>>
    BY <2>1, <2>2, Shapes
  <2> QED
    BY <2>2, <2>3 DEF Log!Init, Saved
<1>2. Consistent /\ [Next]_vars => [Log!Save]_<<Saved, Len(dbSummary.covered)>>
  <2> SUFFICES ASSUME Consistent, [Next]_vars
               PROVE  [Log!Save]_<<Saved, Len(dbSummary.covered)>>
    OBVIOUS
  <2>1. CASE Persist
    BY <2>1, PersistExtends
  <2>2. CASE UNCHANGED database
    BY <2>2 DEF Saved, InOrder, database
  <2>3. Persist \/ UNCHANGED database
    BY DEF Next, vars, Hydrate, Hydrated, Submit, Compact, CompactedTo, SkipCompaction, Answer,
           Raise, FinishTurnSuccess, FinishTurnFailure, Settle, WorkerDies, Restart,
           ReadSession, ReadMessages
  <2> QED
    BY <2>1, <2>2, <2>3
<1> QED
  BY AlwaysConsistent, <1>1, <1>2, PTL DEF Spec, LogSpec, Log!Spec
=============================================================================
