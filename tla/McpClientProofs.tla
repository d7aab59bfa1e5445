--------------------------- MODULE McpClientProofs ---------------------------
(***************************************************************************)
(* Proofs about one MCP server and the callers that share its session: a    *)
(* tool call runs at most once and reports what happened, an expired        *)
(* session is replaced behind the caller's back, and the object does not    *)
(* stay initialized without a session; for any callers and any bounds.      *)
(***************************************************************************)
EXTENDS McpClient, TLAPS

-----------------------------------------------------------------------------
(* The inductive invariant                                                 *)

Tasks    == {"ensure", "initialize", "legacy", "notify", "renotify", "send",
             "resend"}
InSession == {"notify", "renotify", "send", "resend"}
Final    == {"send", "resend"}
Goals    == {"none", "call", "list", "health"}
Requests == [status : {"sent", "ok", "version", "400", "404"},
             session : 0..MaxSessions]

\* The values of the variables.
TypesOK ==
  /\ session \in 0..issued /\ initialized \in BOOLEAN /\ closed \in BOOLEAN
  /\ todo \in [Callers -> Seq(Tasks)]
  /\ request \in [Callers -> Requests \cup {Nothing}]
  /\ goal \in [Callers -> Goals] /\ outcome \in [Callers -> Outcomes]
  /\ executed \in [Callers -> Nat]
  /\ issued \in 0..MaxSessions /\ live \subseteq 1..issued
  /\ disturbed \in [Callers -> BOOLEAN] /\ lost \in [Callers -> 0..2]
  /\ overlapped \in BOOLEAN

\* A caller's stack: the session is ensured and opened at its top only, and
\* the request itself, which a call always has, is at its bottom.
Stack(s, g) ==
  /\ \A i \in 1..Len(s) : i > 1 => s[i] \in InSession
  /\ \A i \in 1..Len(s) : i < Len(s) => s[i] \notin Final
  /\ Len(s) > 0 /\ s[1] = "ensure" => s = <<"ensure">> \/ s = <<"ensure", "send">>
  /\ Len(s) > 0 /\ g = "call" => s[Len(s)] \in Final

\* Some request of the stack is repeated because its session had expired.
Retried(s) == \E i \in 1..Len(s) : s[i] \in {"renotify", "resend"}

\* How deep it is: an expired session adds a request, and every session the
\* server handed out expires once.
Depth(task, status) ==
  IF task = "ensure" THEN 2
  ELSE IF task \in {"initialize", "legacy"}
       THEN IF status = "ok" THEN 2 + issued ELSE 3 + issued
       ELSE 1 + issued

StackOK(c) == /\ Stack(todo[c], goal[c])
              /\ Busy(c) => Len(todo[c]) <= Depth(Task(c), request[c].status)

\* A request under way or answered, and what its answer says of its session.
RequestOK(c) ==
  request[c] # Nothing =>
    /\ Busy(c) /\ Task(c) # "ensure" /\ request[c].session <= issued
    /\ request[c].status = "version" => Opening(c)
    /\ request[c].status \in {"400", "404"} =>
         ~Opening(c) /\ request[c].session \notin live
    /\ request[c].status = "400" => request[c].session = NoSession
    /\ request[c].status = "ok" /\ Opening(c) => request[c].session # NoSession

\* A call's tool has run if its request was answered, and the outcome tells.
RunOK(c) ==
  goal[c] = "call" =>
    IF Busy(c)
    THEN executed[c] = IF request[c].status = "ok" /\ Task(c) \in Final THEN 1 ELSE 0
    ELSE /\ executed[c] \in {0, 1}
         /\ outcome[c] = "ok" => executed[c] = 1
         /\ outcome[c] \in {"refused", "version", "unreachable"} => executed[c] = 0

CallerOK(c) == StackOK(c) /\ RequestOK(c) /\ RunOK(c) /\ (Busy(c) => outcome[c] = "none")

CallersOK == \A c \in Callers : CallerOK(c)

\* While a caller's session is undisturbed, no other caller has touched it:
\* the others have not opened a session, nor are about to reuse one.
Untouching(c) == \/ Task(c) \in {"ensure", "send"}
                 \/ Task(c) = "initialize" /\ request[c] = Nothing

AloneOK == \A c, d \in Callers :
  c # d /\ Busy(c) /\ Busy(d) /\ ~disturbed[c] => Untouching(d)

\* The undisturbed caller works in a session that is alive, or one that was
\* lost and may still be replaced; it is replaced once.
Usable(c, id) == id \in live \/ (lost[c] >= 1 /\ ~Retried(todo[c]))

Own(c) ==
  Busy(c) /\ ~disturbed[c] /\ lost[c] < 2 =>
    /\ Retried(todo[c]) => lost[c] >= 1
    /\ Task(c) = "ensure" /\ initialized => session # NoSession /\ Usable(c, session)
    /\ Task(c) \in InSession =>
         /\ session # NoSession /\ Usable(c, session)
         /\ request[c] # Nothing => request[c].session = session
    /\ Opening(c) /\ request[c].status = "ok" => Usable(c, request[c].session)

OwnOK == \A c \in Callers : Own(c)

HiddenOK == \A c \in Callers : outcome[c] = "refused" => disturbed[c] \/ lost[c] >= 2

\* Without overlapping callers the object is never initialized without a
\* session, nor about to be.
WedgeOK ==
  ~closed /\ ~overlapped =>
    /\ initialized => session # NoSession
    /\ \A c \in Callers : Busy(c) /\ Task(c) \in {"notify", "renotify"} => session # NoSession

Sound == TypesOK /\ CallersOK /\ AloneOK /\ OwnOK /\ HiddenOK /\ WedgeOK

-----------------------------------------------------------------------------
(* Stacks                                                                  *)

\* The first task of a stack, and what is left below it.
LEMMA Below ==
  ASSUME NEW s \in Seq(Tasks), Len(s) > 0
  PROVE  /\ Head(s) = s[1] /\ s[1] \in Tasks
         /\ Tail(s) \in Seq(Tasks) /\ Len(Tail(s)) = Len(s) - 1
         /\ \A i \in 1..Len(Tail(s)) : Tail(s)[i] = s[i + 1]
  OBVIOUS

\* A stack with something on it has one task or several.
LEMMA OneOrMore == \A n \in Nat : n > 0 => n = 1 \/ n > 1
  OBVIOUS

\* A request is done: the rest is a stack, of requests in a session.
LEMMA StackBelow ==
  ASSUME NEW s \in Seq(Tasks), NEW g, Stack(s, g), Len(s) > 1
  PROVE  /\ Stack(Tail(s), g) /\ Tail(s)[1] \in InSession /\ s[1] \notin Final
         /\ Retried(Tail(s)) => Retried(s)
  <1>1. /\ Len(s) \in Nat /\ Len(Tail(s)) = Len(s) - 1
        /\ \A i \in 1..Len(Tail(s)) : Tail(s)[i] = s[i + 1] /\ i + 1 \in 1..Len(s) /\ i + 1 > 1
    BY Below
  <1>2. \A i \in 1..Len(Tail(s)) : Tail(s)[i] \in InSession
    BY <1>1 DEF Stack
  <1>3. \A i \in 1..Len(Tail(s)) : i < Len(Tail(s)) => Tail(s)[i] \notin Final
    BY <1>1 DEF Stack
  <1>4. g = "call" => Tail(s)[Len(Tail(s))] \in Final
    BY <1>1 DEF Stack
  <1>5. Len(Tail(s)) > 0 /\ Tail(s)[1] \in InSession
    BY <1>1, <1>2
  <1>6. s[1] \notin Final
    BY <1>1 DEF Stack
  <1>7. Retried(Tail(s)) => Retried(s)
    BY <1>1 DEF Retried
  <1> QED
    BY <1>2, <1>3, <1>4, <1>5, <1>6, <1>7 DEF Stack, InSession

\* A session is opened first (_ensure_initialized).
LEMMA StackOpened ==
  ASSUME NEW s \in Seq(Tasks), NEW g, Stack(s, g), Len(s) > 0, s[1] = "ensure"
  PROVE  LET t == <<"initialize", "notify">> \o Tail(s) IN
         /\ t \in Seq(Tasks) /\ Stack(t, g) /\ Len(t) <= 3 /\ Len(t) > 0 /\ t[1] = "initialize"
         /\ ~Retried(t)
  <1> DEFINE t == <<"initialize", "notify">> \o Tail(s)
  <1>1. Len(s) \in 1..2 /\ (Len(s) = 2 => s[2] = "send")
    BY DEF Stack
  <1>2. /\ t \in Seq(Tasks) /\ Len(t) = Len(s) + 1 /\ t[1] = "initialize" /\ t[2] = "notify"
        /\ \A i \in 1..Len(t) : i > 2 => t[i] = s[i - 1]
    BY <1>1, Below DEF Tasks
  <1> HIDE DEF t
  <1>3. \A i \in 1..Len(t) : i = 1 \/ i = 2 \/ (i = 3 /\ Len(s) = 2 /\ t[3] = "send")
    BY <1>1, <1>2
  <1>4. g = "call" => Len(s) = 2
    BY <1>1 DEF Stack, Final
  <1>5. Stack(t, g)
    BY <1>1, <1>2, <1>3, <1>4 DEF Stack, InSession, Final
  <1>6. ~Retried(t)
    BY <1>2, <1>3 DEF Retried
  <1> QED
    BY <1>1, <1>2, <1>5, <1>6 DEF t

\* The other protocol version is tried instead.
LEMMA StackLegacy ==
  ASSUME NEW s \in Seq(Tasks), NEW g, Stack(s, g), Len(s) > 0, s[1] = "initialize"
  PROVE  LET t == <<"legacy">> \o Tail(s) IN
         /\ t \in Seq(Tasks) /\ Stack(t, g) /\ Len(t) = Len(s) /\ t[1] = "legacy"
         /\ Retried(t) => Retried(s)
  <1> DEFINE t == <<"legacy">> \o Tail(s)
  <1>1. /\ t \in Seq(Tasks) /\ Len(t) = Len(s) /\ t[1] = "legacy" /\ Len(s) \in Nat
        /\ \A i \in 1..Len(s) : i > 1 => t[i] = s[i]
    BY Below DEF Tasks
  <1> HIDE DEF t
  <1>2. Stack(t, g)
    BY <1>1 DEF Stack, InSession, Final
  <1>3. Retried(t) => Retried(s)
    BY <1>1 DEF Retried
  <1> QED
    BY <1>1, <1>2, <1>3 DEF t

\* The session had expired: it is opened anew and the request repeated.
LEMMA StackRepeated ==
  ASSUME NEW s \in Seq(Tasks), NEW g, Stack(s, g), Len(s) > 0, s[1] \in {"notify", "send"},
         NEW again, again = IF s[1] = "notify" THEN "renotify" ELSE "resend"
  PROVE  LET t == <<"initialize", "notify", again>> \o Tail(s) IN
         /\ t \in Seq(Tasks) /\ Stack(t, g) /\ Len(t) = Len(s) + 2 /\ t[1] = "initialize"
  <1> DEFINE t == <<"initialize", "notify", again>> \o Tail(s)
  <1>1. again \in Tasks
    BY DEF Tasks
  <1>2. /\ t \in Seq(Tasks) /\ Len(t) = Len(s) + 2 /\ Len(s) \in Nat
        /\ t[1] = "initialize" /\ t[2] = "notify" /\ t[3] = again
        /\ \A i \in 1..Len(t) : i > 3 => t[i] = s[i - 2] /\ i - 2 \in 1..Len(s) /\ i - 2 > 1
    BY <1>1, Below DEF Tasks
  <1> HIDE DEF t
  <1>3. \A i \in 1..Len(t) : i > 1 => t[i] \in InSession
    <2> SUFFICES ASSUME NEW i \in 1..Len(t), i > 1 PROVE t[i] \in InSession
      OBVIOUS
    <2>1. i = 2 \/ i = 3 \/ i > 3
      BY <1>2
    <2> QED
      BY <1>2, <2>1 DEF Stack, InSession
  <1>4. \A i \in 1..Len(t) : i < Len(t) => t[i] \notin Final
    <2> SUFFICES ASSUME NEW i \in 1..Len(t), i < Len(t) PROVE t[i] \notin Final
      OBVIOUS
    <2>1. i = 1 \/ i = 2 \/ i = 3 \/ i > 3
      BY <1>2
    <2>2. CASE i = 1 \/ i = 2
      BY <1>2, <2>2 DEF Final
    <2>3. CASE i = 3
      <3>1. Len(s) > 1
        BY <1>2, <2>3
      <3>2. s[1] \notin Final
        BY <1>2, <3>1 DEF Stack
      <3>3. again = "renotify"
        BY <3>2 DEF Final
      <3> QED
        BY <1>2, <2>3, <3>3 DEF Final
    <2>4. CASE i > 3
      <3>1. t[i] = s[i - 2] /\ i - 2 \in 1..Len(s) /\ i - 2 < Len(s)
        BY <1>2, <2>4
      <3> QED
        BY <3>1 DEF Stack
    <2> QED
      BY <2>1, <2>2, <2>3, <2>4
  <1>5. g = "call" => t[Len(t)] \in Final
    <2> SUFFICES ASSUME g = "call" PROVE t[Len(t)] \in Final
      OBVIOUS
    <2>1. CASE Len(s) = 1
      BY <1>2, <2>1 DEF Stack, Final
    <2>2. CASE Len(s) > 1
      BY <1>2, <2>2 DEF Stack
    <2>3. Len(s) = 1 \/ Len(s) > 1
      BY <1>2, OneOrMore, Zenon
    <2> QED
      BY <2>1, <2>2, <2>3
  <1> QED
    BY <1>2, <1>3, <1>4, <1>5 DEF Stack, t

-----------------------------------------------------------------------------
(* One caller's step                                                       *)

\* Nothing of another caller changes.
Others(c) ==
  \A d \in Callers \ {c} :
    /\ todo'[d] = todo[d] /\ request'[d] = request[d] /\ goal'[d] = goal[d]
    /\ outcome'[d] = outcome[d] /\ executed'[d] = executed[d]

\* The server knows new sessions only, by new numbers.
Numbered == issued' >= issued /\ live' \subseteq live \cup {issued + 1}

\* An operation ends (a return or an exception).
LEMMA Ends ==
  ASSUME TypesOK, NEW c \in Callers, NEW how \in Outcomes, End(c, how)
  PROVE  /\ todo'[c] = <<>> /\ request'[c] = Nothing /\ outcome'[c] = how
         /\ UNCHANGED <<goal, closed>> /\ ~Busy(c)'
         /\ \A d \in Callers \ {c} : /\ todo'[d] = todo[d] /\ request'[d] = request[d]
                                     /\ outcome'[d] = outcome[d]
         /\ todo' \in [Callers -> Seq(Tasks)] /\ outcome' \in [Callers -> Outcomes]
         /\ request' \in [Callers -> Requests \cup {Nothing}]
  BY DEF TypesOK, End, Busy

\* The next frame is entered.
LEMMA Thens ==
  ASSUME TypesOK, NEW c \in Callers, NEW tasks \in Seq(Tasks), Then(c, tasks)
  PROVE  /\ todo'[c] = tasks /\ request'[c] = Nothing
         /\ UNCHANGED <<goal, outcome, closed>>
         /\ \A d \in Callers \ {c} : todo'[d] = todo[d] /\ request'[d] = request[d]
         /\ todo' \in [Callers -> Seq(Tasks)] /\ request' \in [Callers -> Requests \cup {Nothing}]
  BY DEF TypesOK, Then

\* An answer, or the sending, of a request.
LEMMA Asks ==
  ASSUME TypesOK, NEW c \in Callers, NEW r \in Requests, request' = [request EXCEPT ![c] = r]
  PROVE  /\ request'[c] = r /\ \A d \in Callers \ {c} : request'[d] = request[d]
         /\ request' \in [Callers -> Requests \cup {Nothing}]
  BY DEF TypesOK

\* Only the caller that steps has to be looked at.
LEMMA CallersStep ==
  ASSUME TypesOK, CallersOK, NEW c \in Callers, Others(c), Numbered, issued' \in Nat, CallerOK(c)'
  PROVE  CallersOK'
  <1> SUFFICES ASSUME NEW d \in Callers, d # c PROVE CallerOK(d)'
    BY DEF CallersOK
  <1>1. /\ todo'[d] = todo[d] /\ request'[d] = request[d] /\ goal'[d] = goal[d]
        /\ outcome'[d] = outcome[d] /\ executed'[d] = executed[d]
    BY DEF Others
  <1>2. CallerOK(d) /\ issued \in Nat /\ issued' >= issued /\ live \subseteq 1..issued
    BY DEF CallersOK, TypesOK, Numbered
  <1>3. StackOK(d)'
    <2>1. Len(todo[d]) \in Nat
      BY DEF TypesOK
    <2> QED
      BY <1>1, <1>2, <2>1 DEF CallerOK, StackOK, Busy, Task, Depth
  <1>4. RequestOK(d)'
    <2> SUFFICES ASSUME request[d] # Nothing PROVE RequestOK(d)'
      BY <1>1 DEF RequestOK
    <2>1. /\ request[d].session \in Nat /\ request[d].session <= issued
      BY <1>2 DEF CallerOK, RequestOK, TypesOK, Requests
    <2>2. request[d].session \notin live => request[d].session \notin live'
      BY <1>2, <2>1 DEF Numbered
    <2>3. request[d].session <= issued'
      BY <1>2, <2>1
    <2> QED
      BY <1>1, <1>2, <2>2, <2>3 DEF CallerOK, RequestOK, Busy, Task, Opening
  <1>5. RunOK(d)'
    BY <1>1, <1>2 DEF CallerOK, RunOK, Busy, Task
  <1> QED
    BY <1>1, <1>2, <1>3, <1>4, <1>5 DEF CallerOK, Busy

\* The invariant of a caller whose operation has ended.
LEMMA CallerEnds ==
  ASSUME TypesOK, CallersOK, NEW c \in Callers, NEW how \in Outcomes, End(c, how),
         goal[c] = "call" => /\ executed'[c] \in {0, 1}
                             /\ how = "ok" => executed'[c] = 1
                             /\ how \in {"refused", "version", "unreachable"} => executed'[c] = 0
  PROVE  CallerOK(c)'
  <1>1. /\ todo'[c] = <<>> /\ request'[c] = Nothing /\ outcome'[c] = how
        /\ goal' = goal /\ ~Busy(c)'
    BY Ends
  <1>2. StackOK(c)'
    BY <1>1 DEF StackOK, Stack
  <1> QED
    BY <1>1, <1>2 DEF CallerOK, RequestOK, RunOK

\* The invariant of a caller that goes on with other frames.
LEMMA CallerThen ==
  ASSUME TypesOK, CallersOK, NEW c \in Callers, NEW tasks \in Seq(Tasks), Then(c, tasks),
         Busy(c), Stack(tasks, goal[c]), Len(tasks) > 0, issued' = issued, executed' = executed,
         Len(tasks) <= Depth(tasks[1], "none"),
         ~(request[c].status = "ok" /\ Task(c) \in Final)
  PROVE  CallerOK(c)'
  <1>1. /\ todo'[c] = tasks /\ request'[c] = Nothing /\ goal' = goal /\ outcome' = outcome
    BY Thens
  <1>2. CallerOK(c) /\ Task(c)' = tasks[1]
    BY <1>1, Below DEF CallersOK, Task
  <1>3. StackOK(c)'
    BY <1>1, <1>2 DEF StackOK, Nothing, Depth
  <1>4. RunOK(c)'
    BY <1>1, <1>2 DEF CallerOK, RunOK, Nothing, Busy
  <1> QED
    BY <1>1, <1>2, <1>3, <1>4 DEF CallerOK, RequestOK

\* The caller's request is done.
LEMMA CallerProceeds ==
  ASSUME TypesOK, CallersOK, NEW c \in Callers, Proceed(c), Busy(c), issued' = issued, executed' = executed,
         Task(c) = "ensure" \/ request[c].status = "ok", Task(c) = "ensure" => initialized
  PROVE  CallerOK(c)'
  <1>1. CallerOK(c) /\ todo[c] \in Seq(Tasks) /\ Len(todo[c]) > 0 /\ Len(todo[c]) \in Nat
    BY DEF CallersOK, TypesOK, Busy
  <1>2. Task(c) = todo[c][1]
    BY <1>1, Below DEF Task
  <1>3. CASE Len(todo[c]) = 1
    <2>1. End(c, "ok")
      BY <1>3 DEF Proceed
    <2>2. goal[c] = "call" => Task(c) \in Final
      BY <1>1, <1>2, <1>3 DEF CallerOK, StackOK, Stack
    <2>3. goal[c] = "call" => executed[c] = 1
      BY <1>1, <2>2 DEF CallerOK, RunOK, Final
    <2> QED
      BY <2>1, <2>3, CallerEnds DEF Outcomes
  <1>4. CASE Len(todo[c]) # 1
    <2> DEFINE rest == Tail(todo[c])
    <2>1. Then(c, rest) /\ Len(todo[c]) > 1
      BY <1>1, <1>4, OneOrMore, Zenon DEF Proceed
    <2>2. /\ rest \in Seq(Tasks) /\ Len(rest) = Len(todo[c]) - 1 /\ Len(rest) > 0
          /\ Stack(rest, goal[c]) /\ rest[1] \in InSession /\ Task(c) \notin Final
      BY <1>1, <1>2, <2>1, Below, StackBelow DEF CallerOK, StackOK
    <2>3. Len(todo[c]) <= 2 + issued
      BY <1>1 DEF CallerOK, StackOK, Depth, TypesOK
    <2>4. Len(rest) <= Depth(rest[1], "none")
      BY <1>1, <2>2, <2>3 DEF Depth, InSession, TypesOK
    <2> HIDE DEF rest
    <2> QED
      BY <2>1, <2>2, <2>4, CallerThen
  <1> QED
    BY <1>3, <1>4

-----------------------------------------------------------------------------
(* Every step keeps the types and the callers                              *)

\* An operation begins (call_tool, register_tools, the health check).
LEMMA CallersAtBegin ==
  ASSUME TypesOK, CallersOK, NEW c \in Callers, CallTool(c) \/ RegisterTools(c) \/ HealthCheck(c)
  PROVE  TypesOK' /\ CallersOK'
  <1>1. PICK what \in Goals \ {"none"}, tasks \in {<<"ensure", "send">>, <<"ensure">>} :
          Begin(c, what, tasks) /\ (what = "call" => tasks = <<"ensure", "send">>)
    BY DEF CallTool, RegisterTools, HealthCheck, Goals
  <1>2. tasks \in Seq(Tasks) /\ 0 < Len(tasks) /\ Len(tasks) <= 2 /\ tasks[1] = "ensure"
    <2>1. CASE tasks = <<"ensure", "send">>
      BY <2>1 DEF Tasks
    <2>2. CASE tasks = <<"ensure">>
      BY <2>2 DEF Tasks
    <2> QED
      BY <1>1, <2>1, <2>2
  <1>3. /\ todo'[c] = tasks /\ request' = request /\ goal'[c] = what
        /\ outcome'[c] = "none" /\ executed'[c] = 0 /\ ~Busy(c)
        /\ UNCHANGED <<session, initialized, closed, live, issued, overlapped>>
        /\ Others(c)
    BY <1>1 DEF Begin, object, server, TypesOK, Others
  <1>4. request[c] = Nothing
    BY <1>3 DEF CallersOK, CallerOK, RequestOK
  <1>5. TypesOK'
    <2>1. /\ todo' \in [Callers -> Seq(Tasks)] /\ goal' \in [Callers -> Goals]
          /\ outcome' \in [Callers -> Outcomes] /\ executed' \in [Callers -> Nat]
      BY <1>1, <1>2 DEF Begin, TypesOK, Outcomes
    <2>2. disturbed' \in [Callers -> BOOLEAN] /\ lost' \in [Callers -> 0..2]
      BY <1>1 DEF Begin, TypesOK
    <2> QED
      BY <1>3, <2>1, <2>2 DEF TypesOK
  <1>6. CallerOK(c)'
    <2>1. Stack(tasks, what)
      <3>1. CASE tasks = <<"ensure", "send">>
        BY <1>1, <3>1 DEF Stack, InSession, Final
      <3>2. CASE tasks = <<"ensure">>
        BY <1>1, <3>2 DEF Stack, InSession, Final
      <3> QED
        BY <1>1, <3>1, <3>2
    <2>2. Task(c)' = "ensure"
      BY <1>2, <1>3, Below DEF Task
    <2>3. StackOK(c)'
      <3>1. Depth(Task(c), request[c].status)' = 2
        BY <2>2 DEF Depth
      <3> QED
        BY <1>2, <1>3, <2>1, <3>1, Zenon DEF StackOK
    <2>4. RunOK(c)'
      BY <1>3, <1>4, <2>2 DEF RunOK, Nothing
    <2> QED
      BY <1>3, <1>4, <2>3, <2>4 DEF CallerOK, RequestOK
  <1>7. Numbered /\ issued' \in Nat
    BY <1>3 DEF Numbered, TypesOK
  <1> QED
    BY <1>3, <1>5, <1>6, <1>7, CallersStep

\* The types of a step that only changes callers and the shared object.
LEMMA TypesKept ==
  ASSUME TypesOK, session' \in 0..issued, initialized' \in BOOLEAN, UNCHANGED <<closed, goal>>,
         UNCHANGED server, UNCHANGED lost,
         todo' \in [Callers -> Seq(Tasks)], request' \in [Callers -> Requests \cup {Nothing}],
         outcome' \in [Callers -> Outcomes], executed' \in [Callers -> Nat],
         (\E c \in Callers : Disturb(c)) \/ Undisturbed
  PROVE  TypesOK' /\ Numbered /\ issued' \in Nat
  <1>1. disturbed' \in [Callers -> BOOLEAN] /\ overlapped' \in BOOLEAN
    BY DEF TypesOK, Disturb, Undisturbed
  <1> QED
    BY <1>1 DEF TypesOK, server, Numbered

\* What a step may do to the shared object and the history.
Sharing == /\ session' \in 0..issued /\ initialized' \in BOOLEAN
           /\ UNCHANGED server /\ UNCHANGED lost
           /\ (\E c \in Callers : Disturb(c)) \/ Undisturbed

\* A step that ends its caller's operation.
LEMMA AtEnd ==
  ASSUME TypesOK, CallersOK, NEW c \in Callers, NEW how \in Outcomes, End(c, how), Sharing,
         executed' \in [Callers -> Nat], \A d \in Callers \ {c} : executed'[d] = executed[d],
         goal[c] = "call" => /\ executed'[c] \in {0, 1}
                             /\ how = "ok" => executed'[c] = 1
                             /\ how \in {"refused", "version", "unreachable"} => executed'[c] = 0
  PROVE  TypesOK' /\ CallersOK'
  <1>1. CallerOK(c)'
    BY CallerEnds
  <1>2. Others(c)
    BY Ends DEF Others
  <1>3. TypesOK' /\ Numbered /\ issued' \in Nat
    BY Ends, TypesKept DEF Sharing
  <1> QED
    BY <1>1, <1>2, <1>3, CallersStep

\* A step after which its caller goes on with other frames.
LEMMA AtThen ==
  ASSUME TypesOK, CallersOK, NEW c \in Callers, NEW tasks \in Seq(Tasks), Then(c, tasks), Sharing,
         Busy(c), Stack(tasks, goal[c]), Len(tasks) > 0, executed' = executed,
         Len(tasks) <= Depth(tasks[1], "none"),
         ~(request[c].status = "ok" /\ Task(c) \in Final)
  PROVE  TypesOK' /\ CallersOK'
  <1>1. CallerOK(c)'
    BY CallerThen DEF Sharing, server
  <1>2. Others(c)
    BY Thens DEF Others
  <1>3. TypesOK' /\ Numbered /\ issued' \in Nat
    BY Thens, TypesKept DEF Sharing, TypesOK
  <1> QED
    BY <1>1, <1>2, <1>3, CallersStep

\* A step that pops a frame, the last of which ends the operation.
LEMMA AtProceed ==
  ASSUME TypesOK, CallersOK, NEW c \in Callers, Proceed(c), Busy(c), Sharing, executed' = executed,
         Task(c) = "ensure" \/ request[c].status = "ok", Task(c) = "ensure" => initialized
  PROVE  TypesOK' /\ CallersOK'
  <1>1. CallerOK(c)'
    BY CallerProceeds DEF Sharing, server
  <1>2. todo[c] \in Seq(Tasks) /\ Len(todo[c]) > 0
    BY DEF TypesOK, Busy
  <1>3. End(c, "ok") \/ (Then(c, Tail(todo[c])) /\ Tail(todo[c]) \in Seq(Tasks))
    BY <1>2, Below DEF Proceed
  <1>4. /\ Others(c) /\ UNCHANGED <<goal, closed>>
        /\ todo' \in [Callers -> Seq(Tasks)] /\ request' \in [Callers -> Requests \cup {Nothing}]
        /\ outcome' \in [Callers -> Outcomes]
    <2>1. CASE End(c, "ok")
      BY <2>1, Ends DEF Others, Outcomes
    <2>2. CASE Then(c, Tail(todo[c])) /\ Tail(todo[c]) \in Seq(Tasks)
      BY <2>2, Thens DEF Others, TypesOK
    <2> QED
      BY <1>3, <2>1, <2>2
  <1>5. TypesOK' /\ Numbered /\ issued' \in Nat
    BY <1>4, TypesKept DEF Sharing, TypesOK
  <1> QED
    BY <1>1, <1>4, <1>5, CallersStep

\* A busy caller's stack, request and outcome, unfolded.
LEMMA BusyCaller ==
  ASSUME TypesOK, CallersOK, NEW c \in Callers, Busy(c)
  PROVE  /\ todo[c] \in Seq(Tasks) /\ Len(todo[c]) > 0 /\ Task(c) = todo[c][1] /\ Task(c) \in Tasks
         /\ Stack(todo[c], goal[c]) /\ Len(todo[c]) <= Depth(Task(c), request[c].status)
         /\ outcome[c] = "none" /\ (Task(c) \in Final => Len(todo[c]) = 1)
         /\ goal[c] = "call" =>
              executed[c] = IF request[c].status = "ok" /\ Task(c) \in Final THEN 1 ELSE 0
  <1>1. CallerOK(c) /\ todo[c] \in Seq(Tasks) /\ Len(todo[c]) > 0 /\ Len(todo[c]) \in Nat
    BY DEF CallersOK, TypesOK, Busy
  <1>2. Task(c) = todo[c][1] /\ Task(c) \in Tasks
    BY <1>1, Below DEF Task
  <1>3. Task(c) \in Final => Len(todo[c]) = 1
    <2>1. Len(todo[c]) = 1 \/ Len(todo[c]) > 1
      BY <1>1, OneOrMore, Zenon
    <2> QED
      BY <1>1, <1>2, <2>1, StackBelow DEF CallerOK, StackOK
  <1> QED
    BY <1>1, <1>2, <1>3 DEF CallerOK, StackOK, RunOK

\* _ensure_initialized
LEMMA CallersAtEnsure ==
  ASSUME TypesOK, CallersOK, NEW c \in Callers, EnsureInitialized(c)
  PROVE  TypesOK' /\ CallersOK'
  <1>1. Busy(c) /\ Task(c) = "ensure" /\ executed' = executed /\ Sharing
    BY DEF EnsureInitialized, Sharing, object, history, Undisturbed, TypesOK
  <1>2. CASE initialized
    BY <1>1, <1>2, AtProceed DEF EnsureInitialized
  <1>3. CASE ~initialized
    <2> DEFINE t == <<"initialize", "notify">> \o Tail(todo[c])
    <2>1. Then(c, t)
      BY <1>3 DEF EnsureInitialized
    <2>2. /\ t \in Seq(Tasks) /\ Stack(t, goal[c]) /\ Len(t) <= 3 /\ Len(t) > 0 /\ t[1] = "initialize"
      BY <1>1, BusyCaller, StackOpened
    <2>3. Len(t) <= Depth(t[1], "none")
      BY <2>2 DEF Depth, TypesOK
    <2> HIDE DEF t
    <2> QED
      BY <1>1, <2>1, <2>2, <2>3, AtThen DEF Final
  <1> QED
    BY <1>2, <1>3

\* A request is posted, or the attempt fails (_post).
LEMMA CallersAtPost ==
  ASSUME TypesOK, CallersOK, NEW c \in Callers, Post(c)
  PROVE  TypesOK' /\ CallersOK'
  <1>1. Busy(c) /\ Task(c) # "ensure" /\ request[c] = Nothing /\ executed' = executed
    BY DEF Post, Posting
  <1>2. Sharing
    <2>1. UNCHANGED server /\ UNCHANGED lost
      BY DEF Post
    <2>2. CASE Opening(c)
      <3>1. session' = 0 /\ initialized' = FALSE /\ Disturb(c)
        BY <2>2 DEF Post, ResetSession, NoSession
      <3>2. session' \in 0..issued
        BY <3>1 DEF TypesOK
      <3> QED
        BY <2>1, <3>1, <3>2 DEF Sharing
    <2>3. CASE ~Opening(c)
      BY <2>1, <2>3 DEF Post, Sharing, TypesOK, object
    <2> QED
      BY <2>2, <2>3
  <1>3. goal[c] = "call" => executed[c] = 0
    BY <1>1, BusyCaller DEF Nothing
  <1>4. ASSUME NEW how \in {"closed", "unreachable"}, End(c, how)
        PROVE  TypesOK' /\ CallersOK'
    BY <1>1, <1>2, <1>3, <1>4, AtEnd DEF Outcomes, TypesOK
  <1>5. CASE request' = [request EXCEPT ![c] =
               [status |-> "sent", session |-> IF Opening(c) THEN NoSession ELSE session]]
             /\ UNCHANGED <<todo, goal, outcome, calls, closed>>
    <2> DEFINE r == [status |-> "sent", session |-> IF Opening(c) THEN NoSession ELSE session]
    <2>1. r \in Requests /\ r.status = "sent" /\ r.session <= issued
      <3>1. r.session \in 0..issued /\ issued \in 0..MaxSessions /\ MaxSessions \in Nat
        BY McpAssumption DEF NoSession, TypesOK
      <3> QED
        BY <3>1 DEF Requests
    <2>2. request' = [request EXCEPT ![c] = r]
      BY <1>5
    <2> HIDE DEF r
    <2>3. /\ request'[c] = r /\ \A d \in Callers \ {c} : request'[d] = request[d]
          /\ request' \in [Callers -> Requests \cup {Nothing}]
      BY <2>1, <2>2, Asks
    <2>4. Others(c)
      BY <1>1, <1>5, <2>3 DEF Others
    <2>5. TypesOK' /\ Numbered /\ issued' \in Nat
      BY <1>1, <1>2, <1>5, <2>3, TypesKept DEF Sharing, TypesOK
    <2>6. UNCHANGED <<todo, goal, outcome, executed, issued, live>> /\ Busy(c)' /\ Task(c)' = Task(c)
      BY <1>1, <1>2, <1>5 DEF Busy, Task, Sharing, server
    <2>7. StackOK(c)'
      BY <1>1, <2>1, <2>3, <2>6, BusyCaller DEF StackOK, Depth, Nothing
    <2>8. RunOK(c)'
      BY <1>3, <2>1, <2>3, <2>6 DEF RunOK
    <2>9. RequestOK(c)'
      BY <1>1, <2>1, <2>3, <2>6 DEF RequestOK
    <2>10. CallerOK(c)'
      BY <1>1, <2>6, <2>7, <2>8, <2>9, BusyCaller DEF CallerOK
    <2> QED
      BY <2>4, <2>5, <2>10, CallersStep
  <1> QED
    BY <1>4, <1>5 DEF Post

\* The server answers a request that opens a session.
LEMMA CallersAtGrant ==
  ASSUME TypesOK, CallersOK, NEW c \in Callers, Grant(c)
  PROVE  TypesOK' /\ CallersOK'
  <1>1. /\ request[c].status = "sent" /\ Opening(c) /\ issued < MaxSessions /\ request[c] # Nothing
        /\ UNCHANGED <<session, initialized, closed, todo, goal, outcome, executed>>
        /\ UNCHANGED history
    BY DEF Grant, Sent, object, Nothing
  <1>2. /\ request[c] \in Requests /\ request[c].session <= issued /\ Busy(c)
        /\ issued \in Nat /\ MaxSessions \in Nat
    BY <1>1, McpAssumption DEF CallersOK, CallerOK, RequestOK, TypesOK
  <1>3. PICK r \in Requests :
          /\ request' = [request EXCEPT ![c] = r] /\ r.session <= issued'
          /\ \/ r.status = "ok" /\ r.session # NoSession /\ issued' = issued + 1
                  /\ live' = live \cup {issued + 1}
             \/ r.status = "version" /\ UNCHANGED <<issued, live>>
    <2>1. CASE Version(c) \in Speaks
      <3> DEFINE r == [status |-> "ok", session |-> issued + 1]
      <3>1. r \in Requests /\ r.session # NoSession /\ r.status = "ok" /\ r.session <= issued + 1
        BY <1>1, <1>2 DEF Requests, NoSession
      <3> QED
        BY <2>1, <3>1 DEF Grant
    <2>2. CASE Version(c) \notin Speaks
      <3> DEFINE r == [request[c] EXCEPT !.status = "version"]
      <3>1. r \in Requests /\ r.session = request[c].session /\ r.status = "version"
        BY <1>2 DEF Requests
      <3>2. request' = [request EXCEPT ![c] = r] /\ UNCHANGED <<issued, live>>
        BY <2>2 DEF Grant, Answered
      <3> QED
        BY <1>2, <3>1, <3>2
    <2> QED
      BY <2>1, <2>2
  <1>4. /\ request'[c] = r /\ \A d \in Callers \ {c} : request'[d] = request[d]
        /\ request' \in [Callers -> Requests \cup {Nothing}]
    BY <1>3, Asks
  <1>5. Others(c)
    BY <1>1, <1>4 DEF Others
  <1>6. Numbered /\ issued' \in 0..MaxSessions /\ live' \subseteq 1..issued' /\ issued' >= issued
    <2>1. live \subseteq 1..issued
      BY DEF TypesOK
    <2>2. CASE UNCHANGED <<issued, live>>
      BY <1>2, <2>1, <2>2 DEF Numbered, TypesOK
    <2>3. CASE issued' = issued + 1 /\ live' = live \cup {issued + 1}
      BY <1>1, <1>2, <2>1, <2>3 DEF Numbered
    <2> QED
      BY <1>3, <2>2, <2>3
  <1>7. TypesOK'
    BY <1>1, <1>2, <1>4, <1>6 DEF TypesOK, history
  <1>8. Busy(c)' /\ Task(c)' = Task(c) /\ Task(c) \in {"initialize", "legacy"}
    BY <1>1, <1>2 DEF Busy, Task, Opening
  <1>9. StackOK(c)'
    BY <1>1, <1>2, <1>3, <1>4, <1>8, BusyCaller DEF StackOK, Depth
  <1>10. RequestOK(c)'
    BY <1>1, <1>3, <1>4, <1>8 DEF RequestOK, Opening
  <1>11. RunOK(c)'
    BY <1>1, <1>2, <1>8, BusyCaller DEF RunOK, Final
  <1>12. CallerOK(c)'
    BY <1>1, <1>2, <1>8, <1>9, <1>10, <1>11, BusyCaller DEF CallerOK
  <1> QED
    BY <1>5, <1>6, <1>7, <1>12, CallersStep

\* The server answers a request in a session.
LEMMA CallersAtServe ==
  ASSUME TypesOK, CallersOK, NEW c \in Callers, Serve(c)
  PROVE  TypesOK' /\ CallersOK'
  <1>1. /\ request[c].status = "sent" /\ ~Opening(c) /\ request[c] # Nothing
        /\ UNCHANGED <<closed, todo, goal, outcome>>
        /\ UNCHANGED object /\ UNCHANGED server /\ UNCHANGED history
    BY DEF Serve, Sent, Nothing
  <1>2. /\ request[c] \in Requests /\ request[c].session <= issued /\ Busy(c) /\ Task(c) # "ensure"
    BY <1>1 DEF CallersOK, CallerOK, RequestOK, TypesOK
  <1>3. PICK status \in {"ok", "400", "404"} :
          /\ request' = [request EXCEPT ![c] = [request[c] EXCEPT !.status = status]]
          /\ status = "ok" => executed' = Runs(c)
          /\ status # "ok" => request[c].session \notin live /\ executed' = executed
          /\ status = "400" => request[c].session = NoSession
    BY DEF Serve, Answered
  <1> DEFINE r == [request[c] EXCEPT !.status = status]
  <1>4. r \in Requests /\ r.status = status /\ r.session = request[c].session
    BY <1>2 DEF Requests
  <1>5. request' = [request EXCEPT ![c] = r]
    BY <1>3
  <1> HIDE DEF r
  <1>6. /\ request'[c] = r /\ \A d \in Callers \ {c} : request'[d] = request[d]
        /\ request' \in [Callers -> Requests \cup {Nothing}]
    BY <1>4, <1>5, Asks
  <1>7. /\ executed' \in [Callers -> Nat] /\ \A d \in Callers \ {c} : executed'[d] = executed[d]
        /\ executed'[c] = IF status = "ok" /\ goal[c] = "call" /\ Task(c) \in Final
                          THEN executed[c] + 1 ELSE executed[c]
    <2>1. CASE executed' = executed /\ ~(status = "ok" /\ goal[c] = "call" /\ Task(c) \in Final)
      BY <2>1 DEF TypesOK
    <2>2. CASE /\ status = "ok" /\ goal[c] = "call" /\ Task(c) \in Final
               /\ executed' = [executed EXCEPT ![c] = executed[c] + 1]
      BY <2>2 DEF TypesOK
    <2> QED
      BY <1>3, <2>1, <2>2 DEF Runs, Final
  <1>8. Others(c)
    BY <1>1, <1>6, <1>7 DEF Others
  <1>9. TypesOK' /\ Numbered /\ issued' \in Nat
    BY <1>1, <1>6, <1>7, TypesKept DEF TypesOK, object, history, Undisturbed
  <1>10. /\ Busy(c)' /\ Task(c)' = Task(c) /\ Task(c) \notin {"ensure", "initialize", "legacy"}
         /\ UNCHANGED <<issued, live>>
    BY <1>1, <1>2 DEF Busy, Task, Opening, server
  <1>11. StackOK(c)'
    BY <1>1, <1>10, BusyCaller, <1>2 DEF StackOK, Depth
  <1>12. RequestOK(c)'
    BY <1>1, <1>2, <1>3, <1>4, <1>6, <1>10 DEF RequestOK, Opening
  <1>13. RunOK(c)'
    <2>1. goal[c] = "call" => executed[c] = 0
      BY <1>1, <1>2, BusyCaller
    <2> QED
      BY <1>1, <1>4, <1>6, <1>7, <1>10, <2>1 DEF RunOK
  <1>14. CallerOK(c)'
    BY <1>1, <1>2, <1>10, <1>11, <1>12, <1>13, BusyCaller DEF CallerOK
  <1> QED
    BY <1>8, <1>9, <1>14, CallersStep

\* A busy caller's answer (what Status implies).
LEMMA Answerable ==
  ASSUME TypesOK, CallersOK, NEW c \in Callers,
         request[c].status \in {"sent", "ok", "version", "400", "404"}
  PROVE  /\ request[c] # Nothing /\ request[c] \in Requests /\ Busy(c) /\ Task(c) # "ensure"
         /\ RequestOK(c)
  BY DEF Nothing, CallersOK, CallerOK, RequestOK, TypesOK

\* The answer to a request arrives (_post, _initialize).
LEMMA CallersAtReceive ==
  ASSUME TypesOK, CallersOK, NEW c \in Callers, Receive(c)
  PROVE  TypesOK' /\ CallersOK'
  <1>1. request[c].status = "ok" /\ Proceed(c) /\ executed' = executed
    BY DEF Receive, Status
  <1>2. /\ request[c].session \in 0..issued /\ Busy(c) /\ Task(c) # "ensure"
    BY <1>1, Answerable DEF RequestOK, TypesOK, Requests
  <1>3. Sharing
    <2>1. UNCHANGED server /\ UNCHANGED lost
      BY DEF Receive
    <2>2. CASE Opening(c)
      BY <1>2, <2>1, <2>2 DEF Receive, Sharing, TypesOK, Opening
    <2>3. CASE ~Opening(c) /\ Task(c) \in {"notify", "renotify"}
      BY <2>1, <2>3 DEF Receive, Sharing, TypesOK, Opening
    <2>4. CASE ~Opening(c) /\ Task(c) \notin {"notify", "renotify"}
      BY <2>1, <2>4 DEF Receive, Sharing, TypesOK, Opening, object
    <2> QED
      BY <2>2, <2>3, <2>4
  <1> QED
    BY <1>1, <1>2, <1>3, AtProceed

\* The other version, or none.
LEMMA CallersAtVersion ==
  ASSUME TypesOK, CallersOK, NEW c \in Callers, ReceiveVersion(c)
  PROVE  TypesOK' /\ CallersOK'
  <1>1. request[c].status = "version" /\ executed' = executed /\ Sharing
    BY DEF ReceiveVersion, Status, Sharing, TypesOK, object, history, Undisturbed
  <1>2. Busy(c) /\ Task(c) \in {"initialize", "legacy"}
    BY <1>1, Answerable DEF RequestOK, Opening
  <1>3. CASE Task(c) = "initialize"
    <2> DEFINE t == <<"legacy">> \o Tail(todo[c])
    <2>1. Then(c, t)
      BY <1>3 DEF ReceiveVersion
    <2>2. /\ t \in Seq(Tasks) /\ Stack(t, goal[c]) /\ Len(t) = Len(todo[c]) /\ t[1] = "legacy"
          /\ Len(todo[c]) > 0 /\ Len(todo[c]) <= Depth(Task(c), request[c].status)
      BY <1>2, <1>3, BusyCaller, StackLegacy
    <2> HIDE DEF t
    <2>3. Len(t) <= Depth(t[1], "none") /\ Len(t) > 0
      BY <1>1, <1>3, <2>2 DEF Depth, TypesOK
    <2> QED
      BY <1>1, <1>2, <1>3, <2>1, <2>2, <2>3, AtThen DEF Final
  <1>4. CASE Task(c) # "initialize"
    <2>1. End(c, "version")
      BY <1>4 DEF ReceiveVersion
    <2>2. goal[c] = "call" => executed[c] = 0
      BY <1>1, <1>2, BusyCaller
    <2> QED
      BY <1>1, <2>1, <2>2, AtEnd DEF Outcomes, TypesOK
  <1> QED
    BY <1>3, <1>4

\* The session had expired: once, the request is repeated in a new one.
LEMMA CallersAtExpired ==
  ASSUME TypesOK, CallersOK, NEW c \in Callers, Expired(c)
  PROVE  TypesOK' /\ CallersOK'
  <1>1. request[c].status = "404" /\ executed' = executed /\ UNCHANGED server /\ UNCHANGED lost
    BY DEF Expired, Status
  <1>2. Busy(c) /\ Task(c) \notin {"ensure", "initialize", "legacy"}
    BY <1>1, Answerable DEF RequestOK, Opening
  <1>3. CASE Repeat(c)
    <2> DEFINE t == <<"initialize", "notify", Again(Task(c))>> \o Tail(todo[c])
    <2>1. Then(c, t) /\ session' = 0 /\ initialized' = FALSE /\ Disturb(c)
      BY <1>3 DEF Expired, Anew, ResetSession, NoSession
    <2>2. Sharing
      <3>1. session' \in 0..issued
        BY <2>1 DEF TypesOK
      <3> QED
        BY <1>1, <2>1, <3>1 DEF Sharing
    <2>3. /\ t \in Seq(Tasks) /\ Stack(t, goal[c]) /\ Len(t) = Len(todo[c]) + 2 /\ t[1] = "initialize"
          /\ Len(todo[c]) > 0 /\ Len(todo[c]) <= Depth(Task(c), request[c].status)
      BY <1>2, <1>3, BusyCaller, StackRepeated DEF Again, Repeat
    <2> HIDE DEF t
    <2>4. Len(todo[c]) \in Nat /\ Len(todo[c]) <= 1 + issued /\ issued \in Nat
      BY <1>2, <2>3, BusyCaller DEF Depth, TypesOK
    <2>5. Len(t) <= Depth(t[1], "none") /\ Len(t) > 0
      BY <2>3, <2>4 DEF Depth
    <2> QED
      BY <1>1, <1>2, <2>1, <2>2, <2>3, <2>5, AtThen
  <1>4. CASE ~Repeat(c)
    <2>1. End(c, "refused") /\ Sharing
      BY <1>1, <1>4 DEF Expired, Sharing, TypesOK, object
    <2>2. goal[c] = "call" => executed[c] = 0
      BY <1>1, <1>2, BusyCaller
    <2> QED
      BY <1>1, <2>1, <2>2, AtEnd DEF Outcomes, TypesOK
  <1> QED
    BY <1>3, <1>4

\* A refusal, a timeout or a dropped connection ends the operation.
LEMMA CallersAtFailure ==
  ASSUME TypesOK, CallersOK, NEW c \in Callers, Refused(c) \/ Timeout(c) \/ Dropped(c)
  PROVE  TypesOK' /\ CallersOK'
  <1>1. Sharing
    BY DEF Refused, Timeout, Dropped, Sharing, TypesOK, object, history, Undisturbed
  <1>2. CASE Refused(c)
    <2>1. End(c, "refused") /\ executed' = executed /\ request[c].status = "400"
      BY <1>2 DEF Refused, Status
    <2>2. goal[c] = "call" => executed[c] = 0
      BY <2>1, Answerable, BusyCaller
    <2> QED
      BY <1>1, <2>1, <2>2, AtEnd DEF Outcomes, TypesOK
  <1>3. CASE Timeout(c)
    <2>1. /\ End(c, "timeout") /\ request[c].status = "sent"
          /\ executed' = executed \/ executed' = [executed EXCEPT ![c] = executed[c] + 1]
      BY <1>3 DEF Timeout, Sent, Runs
    <2>2. goal[c] = "call" => executed[c] = 0
      BY <2>1, Answerable, BusyCaller
    <2>3. /\ executed' \in [Callers -> Nat] /\ executed'[c] \in {executed[c], executed[c] + 1}
          /\ \A d \in Callers \ {c} : executed'[d] = executed[d]
      <3>1. executed \in [Callers -> Nat]
        BY DEF TypesOK
      <3>2. CASE executed' = executed
        BY <3>1, <3>2
      <3>3. CASE executed' = [executed EXCEPT ![c] = executed[c] + 1]
        BY <3>1, <3>3
      <3> QED
        BY <2>1, <3>2, <3>3
    <2>4. goal[c] = "call" => executed'[c] \in {0, 1}
      BY <2>2, <2>3
    <2> QED
      BY <1>1, <2>1, <2>3, <2>4, AtEnd DEF Outcomes
  <1>4. CASE Dropped(c)
    <2>1. End(c, "closed") /\ executed' = executed /\ request[c] # Nothing
      BY <1>4 DEF Dropped
    <2>2. Busy(c)
      BY <2>1 DEF CallersOK, CallerOK, RequestOK
    <2>3. goal[c] = "call" => executed[c] \in {0, 1}
      BY <2>2, BusyCaller
    <2> QED
      BY <1>1, <2>1, <2>3, AtEnd DEF Outcomes, TypesOK
  <1> QED
    BY <1>2, <1>3, <1>4

\* close_all, and a server that forgets its sessions.
LEMMA CallersAside ==
  ASSUME TypesOK, CallersOK, CloseAll \/ Expire \/ UNCHANGED vars
  PROVE  TypesOK' /\ CallersOK'
  <1>1. /\ UNCHANGED <<todo, request, goal, outcome, executed, issued>> /\ live' \subseteq live
    BY DEF CloseAll, Expire, vars, caller, server
  <1>2. TypesOK'
    <2>1. CASE CloseAll
      <3>1. /\ session' = 0 /\ initialized' = FALSE /\ closed' = TRUE
            /\ UNCHANGED <<lost, overlapped>> /\ disturbed' = [c \in Callers |-> TRUE]
        BY <2>1 DEF CloseAll, ResetSession, NoSession
      <3>2. session' \in 0..issued'
        BY <1>1, <3>1 DEF TypesOK
      <3> QED
        BY <1>1, <3>1, <3>2 DEF TypesOK
    <2>2. CASE Expire
      <3>1. lost' \in [Callers -> 0..2]
        BY <2>2 DEF Expire, TypesOK
      <3> QED
        BY <1>1, <2>2, <3>1 DEF Expire, TypesOK, object
    <2>3. CASE UNCHANGED vars
      BY <2>3 DEF vars, TypesOK, object, caller, server, history
    <2> QED
      BY <2>1, <2>2, <2>3
  <1>3. ASSUME NEW c \in Callers PROVE CallerOK(c)'
    <2>1. CallerOK(c)
      BY DEF CallersOK
    <2> QED
      BY <1>1, <2>1 DEF CallerOK, StackOK, RequestOK, RunOK, Depth, Busy, Task, Opening
  <1> QED
    BY <1>2, <1>3 DEF CallersOK

\* Every step keeps each caller's stack, run and outcome.
LEMMA CallersNext ==
  ASSUME TypesOK, CallersOK, [Next]_vars
  PROVE  TypesOK' /\ CallersOK'
  BY CallersAtBegin, CallersAtEnsure, CallersAtPost, CallersAtGrant, CallersAtServe,
     CallersAtReceive, CallersAtVersion, CallersAtExpired, CallersAtFailure, CallersAside
  DEF Next, Step, Answer

-----------------------------------------------------------------------------
(* The shared session                                                      *)

\* A step of a caller, or of the server for it.
Moves(c) == Step(c) \/ Grant(c) \/ Serve(c)

\* A caller that goes on has begun its next task or ended.
LEMMA Proceeds ==
  ASSUME TypesOK, CallersOK, NEW c \in Callers, Proceed(c), Busy(c)
  PROVE  \/ End(c, "ok")
         \/ /\ Then(c, Tail(todo[c])) /\ Tail(todo[c]) \in Seq(Tasks) /\ Len(Tail(todo[c])) > 0
            /\ Tail(todo[c])[1] \in InSession /\ Task(c) \notin Final
            /\ Retried(Tail(todo[c])) => Retried(todo[c])
  <1>1. /\ todo[c] \in Seq(Tasks) /\ Len(todo[c]) > 0 /\ Len(todo[c]) \in Nat
        /\ Stack(todo[c], goal[c]) /\ Task(c) = todo[c][1]
    BY BusyCaller
  <1>2. CASE Len(todo[c]) = 1
    BY <1>2 DEF Proceed
  <1>3. CASE Len(todo[c]) > 1
    <2>1. Then(c, Tail(todo[c]))
      BY <1>1, <1>3, \A n \in Nat : n > 1 => n # 1, Zenon DEF Proceed
    <2>2. Tail(todo[c]) \in Seq(Tasks) /\ Len(Tail(todo[c])) > 0
      BY <1>1, <1>3
    <2> QED
      BY <1>1, <1>3, <2>1, <2>2, StackBelow
  <1> QED
    BY <1>1, <1>2, <1>3, OneOrMore, Zenon

\* What such a step leaves alone, and when it disturbs the other callers.
LEMMA MoveOfOne ==
  ASSUME TypesOK, CallersOK, NEW c \in Callers, Moves(c)
  PROVE  /\ Busy(c) /\ Others(c) /\ goal' = goal /\ lost' = lost /\ closed' = closed
         /\ live \subseteq live' /\ issued' >= issued
         /\ \/ Disturb(c)
            \/ /\ Undisturbed /\ session' = session
               /\ initialized' = initialized
                    \/ (Task(c) \in {"notify", "renotify"} /\ initialized' = TRUE)
  <1>1. CASE EnsureInitialized(c)
    <2>1. Busy(c) /\ UNCHANGED <<session, initialized, lost, live, issued, executed>> /\ Undisturbed
      BY <1>1 DEF EnsureInitialized, object, server, history, Undisturbed
    <2>2. CASE initialized
      <3>1. Proceed(c)
        BY <1>1, <2>2 DEF EnsureInitialized
      <3>2. End(c, "ok") \/ (Then(c, Tail(todo[c])) /\ Tail(todo[c]) \in Seq(Tasks))
        BY <2>1, <3>1, Proceeds
      <3>3. Others(c) /\ UNCHANGED <<goal, closed>>
        BY <2>1, <3>2, Ends, Thens DEF Others, TypesOK, Outcomes
      <3> QED
        BY <2>1, <3>3 DEF TypesOK
    <2>3. CASE ~initialized
      <3>1. /\ Then(c, <<"initialize", "notify">> \o Tail(todo[c]))
            /\ <<"initialize", "notify">> \o Tail(todo[c]) \in Seq(Tasks)
        BY <1>1, <2>3, BusyCaller, StackOpened DEF EnsureInitialized
      <3>2. Others(c) /\ UNCHANGED <<goal, closed>>
        BY <2>1, <3>1, Thens DEF Others, TypesOK
      <3> QED
        BY <2>1, <3>2 DEF TypesOK
    <2> QED
      BY <2>2, <2>3
  <1>2. CASE Post(c)
    <2>1. /\ Busy(c) /\ UNCHANGED <<lost, live, issued, executed>>
          /\ Disturb(c) \/ (Undisturbed /\ session' = session /\ initialized' = initialized)
      BY <1>2 DEF Post, Posting, server, object
    <2>2. Others(c) /\ UNCHANGED <<goal, closed>>
      <3>1. ASSUME NEW how \in {"closed", "unreachable"}, End(c, how)
            PROVE  Others(c) /\ UNCHANGED <<goal, closed>>
        BY <2>1, <3>1, Ends DEF Others, Outcomes
      <3>2. CASE request' = [request EXCEPT ![c] =
                   [status |-> "sent", session |-> IF Opening(c) THEN NoSession ELSE session]]
                 /\ UNCHANGED <<todo, goal, outcome, calls, closed>>
        BY <2>1, <3>2 DEF Others, TypesOK
      <3> QED
        BY <1>2, <3>1, <3>2 DEF Post
    <2> QED
      BY <2>1, <2>2 DEF TypesOK
  <1>3. CASE Grant(c) \/ Serve(c)
    <2>1. /\ Undisturbed /\ UNCHANGED <<session, initialized, lost, closed, todo, goal, outcome>>
          /\ live \subseteq live' /\ issued' >= issued /\ request[c].status = "sent"
      BY <1>3 DEF Grant, Serve, object, server, history, Undisturbed, Sent, Answered, TypesOK
    <2>2. Busy(c)
      BY <2>1, Answerable
    <2>3. \A d \in Callers \ {c} : request'[d] = request[d] /\ executed'[d] = executed[d]
      BY <1>3 DEF Grant, Serve, Answered, Runs, TypesOK
    <2> QED
      BY <2>1, <2>2, <2>3 DEF Others
  <1>4. CASE Receive(c)
    <2>1. /\ request[c].status = "ok" /\ Proceed(c) /\ UNCHANGED <<lost, live, issued, executed>>
      BY <1>4 DEF Receive, Status, server
    <2>2. Busy(c)
      BY <2>1, Answerable
    <2>3. \/ Disturb(c)
          \/ /\ Undisturbed /\ session' = session
             /\ initialized' = initialized
                  \/ (Task(c) \in {"notify", "renotify"} /\ initialized' = TRUE)
      BY <1>4 DEF Receive, object
    <2>4. End(c, "ok") \/ (Then(c, Tail(todo[c])) /\ Tail(todo[c]) \in Seq(Tasks))
      BY <2>1, <2>2, Proceeds
    <2>5. CASE End(c, "ok")
      <3>1. Others(c) /\ UNCHANGED <<goal, closed>>
        BY <2>1, <2>5, Ends DEF Others, TypesOK, Outcomes
      <3> QED
        BY <2>1, <2>2, <2>3, <3>1 DEF TypesOK
    <2>6. CASE Then(c, Tail(todo[c])) /\ Tail(todo[c]) \in Seq(Tasks)
      <3>1. Others(c) /\ UNCHANGED <<goal, closed>>
        BY <2>1, <2>6, Thens DEF Others, TypesOK
      <3> QED
        BY <2>1, <2>2, <2>3, <3>1 DEF TypesOK
    <2> QED
      BY <2>4, <2>5, <2>6
  <1>5. CASE ReceiveVersion(c)
    <2>1. /\ request[c].status = "version" /\ UNCHANGED <<session, initialized, lost, live, issued, executed>>
          /\ Undisturbed
      BY <1>5 DEF ReceiveVersion, Status, object, server, history, Undisturbed
    <2>2. Busy(c)
      BY <2>1, Answerable
    <2>3. \/ End(c, "version")
          \/ /\ Then(c, <<"legacy">> \o Tail(todo[c]))
             /\ <<"legacy">> \o Tail(todo[c]) \in Seq(Tasks)
      BY <1>5, <2>2, BusyCaller, StackLegacy DEF ReceiveVersion
    <2>4. Others(c) /\ UNCHANGED <<goal, closed>>
      <3>1. CASE End(c, "version")
        BY <2>1, <3>1, Ends DEF Others, TypesOK, Outcomes
      <3>2. ASSUME NEW tasks \in Seq(Tasks), Then(c, tasks)
            PROVE  Others(c) /\ UNCHANGED <<goal, closed>>
        BY <2>1, <3>2, Thens DEF Others, TypesOK
      <3> QED
        BY <2>3, <3>1, <3>2
    <2> QED
      BY <2>1, <2>2, <2>4 DEF TypesOK
  <1>6. CASE Expired(c)
    <2>1. /\ request[c].status = "404" /\ UNCHANGED <<lost, live, issued, executed>>
          /\ Disturb(c) \/ (Undisturbed /\ session' = session /\ initialized' = initialized)
      BY <1>6 DEF Expired, Status, server, object
    <2>2. Busy(c)
      BY <2>1, Answerable
    <2>3. \/ End(c, "refused")
          \/ Then(c, Anew(c)) /\ Anew(c) \in Seq(Tasks)
      BY <1>6, <2>2, BusyCaller, StackRepeated DEF Expired, Repeat, Anew, Again
    <2>4. Others(c) /\ UNCHANGED <<goal, closed>>
      <3>1. CASE End(c, "refused")
        BY <2>1, <3>1, Ends DEF Others, TypesOK, Outcomes
      <3>2. ASSUME NEW tasks \in Seq(Tasks), Then(c, tasks)
            PROVE  Others(c) /\ UNCHANGED <<goal, closed>>
        BY <2>1, <3>2, Thens DEF Others, TypesOK
      <3> QED
        BY <2>3, <3>1, <3>2
    <2> QED
      BY <2>1, <2>2, <2>4 DEF TypesOK
  <1>7. CASE Refused(c) \/ Timeout(c) \/ Dropped(c)
    <2>1. /\ UNCHANGED <<session, initialized, lost, live, issued>> /\ Undisturbed
          /\ \E how \in Outcomes : End(c, how)
      BY <1>7 DEF Refused, Timeout, Dropped, object, server, history, Undisturbed, Outcomes
    <2>2. Busy(c)
      <3>1. Refused(c) \/ Timeout(c) => request[c].status \in {"400", "sent"}
        BY DEF Refused, Timeout, Status, Sent
      <3>2. Dropped(c) => request[c] # Nothing
        BY DEF Dropped
      <3> QED
        BY <1>7, <3>1, <3>2, Answerable DEF CallersOK, CallerOK, RequestOK
    <2>3. \A d \in Callers \ {c} : executed'[d] = executed[d]
      BY <1>7 DEF Refused, Timeout, Dropped, Runs, TypesOK
    <2> QED
      BY <2>1, <2>2, <2>3, Ends DEF Others, TypesOK
  <1> QED
    BY <1>1, <1>2, <1>3, <1>4, <1>5, <1>6, <1>7 DEF Moves, Step, Answer

\* What the caller's step has to leave: it does not begin to touch the
\* session unless it tells the others, its own session is still its own, it
\* is refused for a reason, and the object is not left without a session.
Healthy == ~closed /\ ~overlapped => (initialized => session # NoSession)

After(c) ==
  /\ ~Disturb(c) /\ Untouching(c) /\ Busy(c)' => Untouching(c)'
  /\ Own(c)'
  /\ outcome'[c] = "refused" => disturbed[c] \/ lost[c] >= 2
  /\ Healthy'
  /\ ~closed' /\ ~overlapped' /\ Busy(c)' /\ Task(c)' \in {"notify", "renotify"} =>
       session' # NoSession

\* A step of one caller.
LEMMA SharedMove ==
  ASSUME Sound, NEW c \in Callers, Moves(c), After(c)
  PROVE  AloneOK' /\ OwnOK' /\ HiddenOK' /\ WedgeOK'
  <1>1. /\ Busy(c) /\ Others(c) /\ lost' = lost /\ closed' = closed /\ live \subseteq live'
        /\ \/ Disturb(c)
           \/ /\ Undisturbed /\ session' = session
              /\ initialized' = initialized
                   \/ (Task(c) \in {"notify", "renotify"} /\ initialized' = TRUE)
    BY MoveOfOne DEF Sound
  <1>2. \A d \in Callers \ {c} :
          /\ Busy(d)' = Busy(d) /\ Task(d)' = Task(d) /\ Untouching(d)' = Untouching(d)
          /\ todo'[d] = todo[d] /\ request'[d] = request[d] /\ outcome'[d] = outcome[d]
    BY <1>1 DEF Others, Busy, Task, Untouching
  <1>3. CASE Disturb(c)
    <2>1. /\ disturbed'[c] = disturbed[c] /\ \A d \in Callers \ {c} : disturbed'[d] = TRUE
          /\ ~overlapped' => ~overlapped /\ \A d \in Callers \ {c} : ~Busy(d)
      BY <1>3 DEF Disturb, Sound, TypesOK
    <2>2. AloneOK'
      <3> SUFFICES ASSUME NEW x \in Callers, NEW y \in Callers, x # y, Busy(x)', Busy(y)', ~disturbed'[x]
                   PROVE  Untouching(y)'
        BY DEF AloneOK
      <3>1. x = c /\ y # c /\ Busy(y) /\ ~disturbed[c]
        BY <1>2, <2>1
      <3> QED
        BY <1>1, <1>2, <3>1 DEF Sound, AloneOK
    <2>3. OwnOK'
      BY <2>1 DEF After, OwnOK, Own
    <2>4. HiddenOK'
      BY <1>1, <1>2, <2>1 DEF After, HiddenOK
    <2>5. WedgeOK'
      BY <1>2, <2>1 DEF After, Healthy, WedgeOK
    <2> QED
      BY <2>2, <2>3, <2>4, <2>5
  <1>4. CASE ~Disturb(c) /\ Undisturbed /\ session' = session
             /\ (initialized' = initialized \/ (Task(c) \in {"notify", "renotify"} /\ initialized' = TRUE))
    <2>1. disturbed' = disturbed /\ overlapped' = overlapped
      BY <1>4 DEF Undisturbed
    <2>2. AloneOK'
      <3> SUFFICES ASSUME NEW x \in Callers, NEW y \in Callers, x # y, Busy(x)', Busy(y)', ~disturbed[x]
                   PROVE  Untouching(y)'
        BY <2>1 DEF AloneOK
      <3>1. Busy(x) /\ Busy(y)
        BY <1>1, <1>2
      <3>2. Untouching(y)
        BY <3>1 DEF Sound, AloneOK
      <3> QED
        BY <1>2, <1>4, <3>2 DEF After
    <2>3. ASSUME NEW d \in Callers, d # c PROVE Own(d)'
      <3> SUFFICES ASSUME Busy(d), ~disturbed[d], lost[d] < 2 PROVE Own(d)'
        BY <1>1, <1>2, <2>1, <2>3 DEF Own
      <3>1. Own(d) /\ Untouching(c)
        BY <1>1, <2>3 DEF Sound, OwnOK, AloneOK
      <3>2. initialized' = initialized
        BY <1>4, <3>1 DEF Untouching
      <3>3. \A id : Usable(d, id) => Usable(d, id)'
        BY <1>1, <1>2, <2>3 DEF Usable
      <3> QED
        BY <1>1, <1>2, <1>4, <2>1, <2>3, <3>1, <3>2, <3>3 DEF Own, Opening
    <2>4. OwnOK'
      BY <2>3 DEF After, OwnOK
    <2>5. HiddenOK'
      BY <1>1, <1>2, <2>1 DEF After, HiddenOK, Sound
    <2>6. WedgeOK'
      BY <1>1, <1>2, <1>4, <2>1 DEF After, Healthy, WedgeOK, Sound
    <2> QED
      BY <2>2, <2>4, <2>5, <2>6
  <1> QED
    BY <1>1, <1>3, <1>4

\* The end of an operation.
LEMMA AfterEnd ==
  ASSUME Sound, NEW c \in Callers, NEW how \in Outcomes, End(c, how), Healthy',
         how = "refused" => disturbed[c] \/ lost[c] >= 2
  PROVE  After(c)
  <1>1. ~Busy(c)' /\ outcome'[c] = how
    BY Ends DEF Sound
  <1> QED
    BY <1>1 DEF After, Own

\* The object is as healthy as it was.
LEMMA HealthKept ==
  ASSUME Sound, UNCHANGED <<session, initialized, closed>>, Undisturbed
  PROVE  Healthy'
  BY DEF Sound, WedgeOK, Healthy, Undisturbed

\* _ensure_initialized: the object is left as it was, or one task is added.
LEMMA AfterEnsure ==
  ASSUME Sound, NEW c \in Callers, EnsureInitialized(c)
  PROVE  After(c)
  <1>1. /\ Busy(c) /\ Task(c) = "ensure" /\ UNCHANGED <<session, initialized, lost, live, disturbed, overlapped>>
        /\ Undisturbed /\ closed' = closed
    BY MoveOfOne DEF EnsureInitialized, object, server, history, Undisturbed, Moves, Step, Sound
  <1>2. Healthy' /\ Own(c) /\ TypesOK /\ CallersOK
    BY <1>1, HealthKept DEF Sound, OwnOK
  <1>3. CASE initialized
    <2>1. Proceed(c)
      BY <1>1, <1>3 DEF EnsureInitialized
    <2>2. CASE End(c, "ok")
      BY <1>2, <2>2, AfterEnd DEF Outcomes
    <2>3. CASE /\ Then(c, Tail(todo[c])) /\ Tail(todo[c]) \in Seq(Tasks) /\ Len(Tail(todo[c])) > 0
               /\ Tail(todo[c])[1] \in InSession
               /\ Retried(Tail(todo[c])) => Retried(todo[c])
      <3>1. Tail(todo[c])[1] = "send"
        <4>1. /\ todo[c] \in Seq(Tasks) /\ Len(todo[c]) > 0
              /\ todo[c] = <<"ensure">> \/ todo[c] = <<"ensure", "send">>
          BY <1>1, <1>2, BusyCaller DEF Stack
        <4>2. Len(todo[c]) = Len(Tail(todo[c])) + 1 /\ Tail(todo[c])[1] = todo[c][2]
          BY <2>3, <4>1, Below
        <4>3. todo[c] # <<"ensure">>
          BY <2>3, <4>2
        <4> QED
          BY <4>1, <4>2, <4>3
      <3>2. /\ todo'[c] = Tail(todo[c]) /\ request'[c] = Nothing /\ outcome' = outcome
        BY <1>2, <2>3, Thens
      <3>3. Task(c)' = "send"
        BY <2>3, <3>1, <3>2, Below DEF Task
      <3>4. outcome'[c] = "none"
        BY <1>1, <1>2, <3>2, BusyCaller
      <3>5. \A id : Usable(c, id) => Usable(c, id)'
        BY <1>1, <2>3, <3>2 DEF Usable
      <3>6. Own(c)'
        BY <1>1, <1>2, <1>3, <2>3, <3>2, <3>3, <3>5 DEF Own, Opening
      <3> QED
        BY <1>2, <3>3, <3>4, <3>6 DEF After, Untouching
    <2> QED
      BY <1>1, <1>2, <2>1, <2>2, <2>3, Proceeds
  <1>4. CASE ~initialized
    <2> DEFINE t == <<"initialize", "notify">> \o Tail(todo[c])
    <2>1. Then(c, t)
      BY <1>1, <1>4 DEF EnsureInitialized
    <2>2. t \in Seq(Tasks) /\ Len(t) > 0 /\ t[1] = "initialize" /\ ~Retried(t)
      BY <1>1, <1>2, BusyCaller, StackOpened
    <2> HIDE DEF t
    <2>3. /\ todo'[c] = t /\ request'[c] = Nothing /\ outcome' = outcome
      BY <1>2, <2>1, <2>2, Thens
    <2>4. Task(c)' = "initialize" /\ outcome'[c] = "none"
      BY <1>1, <1>2, <2>2, <2>3, Below, BusyCaller DEF Task
    <2>5. Own(c)'
      BY <2>2, <2>3, <2>4 DEF Own, InSession, Nothing
    <2> QED
      BY <1>2, <2>3, <2>4, <2>5 DEF After, Untouching
  <1> QED
    BY <1>3, <1>4

\* _post: initialize forgets the session first, every other request carries it.
LEMMA AfterPost ==
  ASSUME Sound, NEW c \in Callers, Post(c)
  PROVE  After(c)
  <1>1. /\ Busy(c) /\ Task(c) # "ensure" /\ request[c] = Nothing /\ UNCHANGED <<lost, live>>
        /\ TypesOK /\ CallersOK /\ Own(c) /\ Task(c) \in Tasks /\ outcome[c] = "none"
    BY BusyCaller DEF Post, Posting, server, Sound, OwnOK
  <1>2. closed' = closed
    BY MoveOfOne DEF Sound, Moves, Step
  <1>3. /\ Opening(c) => session' = NoSession /\ initialized' = FALSE /\ Disturb(c)
        /\ ~Opening(c) => session' = session /\ initialized' = initialized /\ Undisturbed
    BY DEF Post, ResetSession, object
  <1>4. Healthy'
    <2>1. CASE Opening(c)
      BY <1>3, <2>1 DEF Healthy
    <2>2. CASE ~Opening(c)
      BY <1>2, <1>3, <2>2, HealthKept
    <2> QED
      BY <2>1, <2>2
  <1>5. ASSUME NEW how \in {"closed", "unreachable"}, End(c, how)
        PROVE  After(c)
    BY <1>4, <1>5, AfterEnd DEF Outcomes
  <1>6. CASE request' = [request EXCEPT ![c] =
               [status |-> "sent", session |-> IF Opening(c) THEN NoSession ELSE session]]
             /\ UNCHANGED <<todo, goal, outcome, calls, closed>>
    <2>1. /\ request'[c].status = "sent"
          /\ ~Opening(c) => request'[c].session = session
      BY <1>1, <1>6 DEF TypesOK
    <2>2. /\ Busy(c)' = Busy(c) /\ Task(c)' = Task(c) /\ todo' = todo /\ outcome' = outcome
          /\ disturbed'[c] = disturbed[c]
      BY <1>1, <1>3, <1>6 DEF Busy, Task, Disturb, Undisturbed
    <2>3. ~Disturb(c) /\ Untouching(c) => Untouching(c)'
      BY <1>1, <1>3, <2>2 DEF Untouching, Opening
    <2>4. \A id : Usable(c, id) => Usable(c, id)'
      BY <1>1, <2>2 DEF Usable
    <2>5. Own(c)'
      <3>1. CASE Opening(c)
        BY <1>1, <2>1, <2>2, <3>1 DEF Own, Opening, InSession
      <3>2. CASE ~Opening(c)
        BY <1>1, <1>3, <2>1, <2>2, <2>4, <3>2 DEF Own, Opening, InSession
      <3> QED
        BY <3>1, <3>2
    <2>6. ASSUME ~closed', ~overlapped', Task(c) \in {"notify", "renotify"}
          PROVE  session' # NoSession
      BY <1>1, <1>2, <1>3, <2>6 DEF Sound, WedgeOK, Opening, Undisturbed
    <2> QED
      BY <1>1, <1>4, <2>2, <2>3, <2>5, <2>6 DEF After
  <1> QED
    BY <1>5, <1>6 DEF Post

\* The server's answers.
LEMMA AfterAnswer ==
  ASSUME Sound, NEW c \in Callers, Grant(c) \/ Serve(c)
  PROVE  After(c)
  <1>1. /\ request[c].status = "sent" /\ Undisturbed /\ request[c] # Nothing
        /\ UNCHANGED <<session, initialized, closed, todo, goal, outcome, lost>>
    BY DEF Grant, Serve, object, server, history, Undisturbed, Sent, Nothing
  <1>2. /\ TypesOK /\ CallersOK /\ Own(c) /\ Busy(c) /\ Task(c) # "ensure"
        /\ request[c] \in Requests /\ outcome[c] = "none" /\ live \subseteq live'
    BY <1>1, Answerable, BusyCaller, MoveOfOne DEF Sound, OwnOK, Moves
  <1>3. Busy(c)' /\ Task(c)' = Task(c) /\ disturbed' = disturbed /\ overlapped' = overlapped
    BY <1>1, <1>2 DEF Busy, Task, Undisturbed
  <1>4. Healthy'
    BY <1>1, HealthKept
  <1>5. Untouching(c) => Untouching(c)'
    BY <1>1, <1>3 DEF Untouching
  <1>6. \A id : Usable(c, id) => Usable(c, id)'
    BY <1>1, <1>2 DEF Usable
  <1>7. Own(c)'
    <2>1. CASE Opening(c)
      <3>1. request'[c].status = "ok" => Usable(c, request[c].session)'
        <4>1. CASE Version(c) \in Speaks
          <5>1. /\ request'[c].session = issued + 1 /\ live' = live \cup {issued + 1}
            BY <2>1, <4>1, <1>2 DEF Grant, Serve, TypesOK
          <5> QED
            BY <5>1 DEF Usable
        <4>2. CASE Version(c) \notin Speaks
          <5>1. request'[c].status = "version"
            BY <2>1, <4>2, <1>2 DEF Grant, Serve, Answered, TypesOK, Requests
          <5> QED
            BY <5>1
        <4> QED
          BY <4>1, <4>2
      <3> QED
        BY <1>1, <1>2, <1>3, <2>1, <3>1 DEF Own, Opening, InSession
    <2>2. CASE ~Opening(c)
      <3>1. request'[c].session = request[c].session
        <4>1. PICK status : request' = [request EXCEPT ![c].status = status]
          BY <2>2 DEF Grant, Serve, Answered
        <4> QED
          BY <1>2, <4>1 DEF TypesOK, Requests
      <3> QED
        BY <1>1, <1>2, <1>3, <1>6, <2>2, <3>1 DEF Own, Opening
    <2> QED
      BY <2>1, <2>2
  <1>8. ASSUME ~closed', ~overlapped', Task(c) \in {"notify", "renotify"}
        PROVE  session' # NoSession
    BY <1>1, <1>2, <1>3, <1>8 DEF Sound, WedgeOK
  <1> QED
    BY <1>1, <1>2, <1>3, <1>4, <1>5, <1>7, <1>8 DEF After

\* The caller gets its answer: an opened session is its own.
LEMMA AfterReceive ==
  ASSUME Sound, NEW c \in Callers, Receive(c)
  PROVE  After(c)
  <1>1. /\ request[c].status = "ok" /\ Proceed(c) /\ UNCHANGED <<lost, live, closed>>
        /\ TypesOK /\ CallersOK /\ Own(c)
    BY MoveOfOne DEF Receive, Status, server, Sound, OwnOK, Moves, Step, Answer
  <1>2. /\ Busy(c) /\ Task(c) # "ensure" /\ RequestOK(c) /\ request[c] # Nothing
        /\ Task(c) \in Tasks /\ outcome[c] = "none" /\ request[c] \in Requests
    BY <1>1, Answerable, BusyCaller
  <1>3. /\ Opening(c) => /\ session' = request[c].session /\ session' # NoSession
                         /\ initialized' = initialized /\ Disturb(c)
        /\ ~Opening(c) => /\ session' = session /\ Undisturbed
                          /\ \/ initialized' = initialized
                             \/ Task(c) \in {"notify", "renotify"}
    <2>1. CASE Opening(c)
      <3>1. session' = request[c].session /\ initialized' = initialized /\ Disturb(c)
        BY <2>1 DEF Receive, Opening
      <3>2. request[c].session # NoSession
        BY <1>1, <1>2, <2>1 DEF RequestOK
      <3> QED
        BY <2>1, <3>1, <3>2
    <2>2. CASE ~Opening(c) /\ Task(c) \in {"notify", "renotify"}
      BY <2>2 DEF Receive
    <2>3. CASE ~Opening(c) /\ Task(c) \notin {"notify", "renotify"}
      BY <2>3 DEF Receive, object
    <2> QED
      BY <2>1, <2>2, <2>3
  <1>4. Healthy'
    <2>1. CASE Opening(c)
      <3>1. session' # NoSession
        BY <1>3, <2>1
      <3> QED
        BY <3>1 DEF Healthy
    <2>2. CASE ~Opening(c)
      <3> SUFFICES ASSUME ~closed, ~overlapped PROVE session # NoSession \/ ~initialized'
        BY <1>1, <1>3, <2>2 DEF Healthy, Undisturbed
      <3>1. /\ initialized => session # NoSession
            /\ Task(c) \in {"notify", "renotify"} => session # NoSession
        BY <1>2 DEF Sound, WedgeOK
      <3> QED
        BY <1>3, <2>2, <3>1
    <2> QED
      BY <2>1, <2>2
  <1>5. CASE End(c, "ok")
    BY <1>4, <1>5, AfterEnd DEF Outcomes
  <1>6. CASE /\ Then(c, Tail(todo[c])) /\ Tail(todo[c]) \in Seq(Tasks) /\ Len(Tail(todo[c])) > 0
             /\ Tail(todo[c])[1] \in InSession /\ Task(c) \notin Final
             /\ Retried(Tail(todo[c])) => Retried(todo[c])
    <2>1. /\ todo'[c] = Tail(todo[c]) /\ request'[c] = Nothing /\ outcome' = outcome
      BY <1>1, <1>6, Thens
    <2>2. Task(c)' \in InSession
      BY <1>6, <2>1, Below DEF Task
    <2>3. \A id : Usable(c, id) => Usable(c, id)'
      BY <1>1, <1>6, <2>1 DEF Usable
    <2>4. disturbed'[c] = disturbed[c]
      BY <1>1, <1>3 DEF Disturb, Undisturbed, TypesOK
    <2>5. ASSUME ~disturbed[c], lost[c] < 2
          PROVE  session' # NoSession /\ Usable(c, session')
      <3>1. CASE Opening(c)
        BY <1>1, <1>2, <1>3, <2>5, <3>1 DEF Own
      <3>2. CASE ~Opening(c)
        <4>1. Task(c) \in InSession
          BY <1>2, <3>2 DEF Opening, InSession, Tasks
        <4> QED
          BY <1>1, <1>2, <1>3, <2>5, <3>2, <4>1 DEF Own
      <3> QED
        BY <3>1, <3>2
    <2>6. Own(c)'
      <3> SUFFICES ASSUME ~disturbed[c], lost[c] < 2 PROVE Own(c)'
        BY <1>1, <2>4 DEF Own
      <3>1. Usable(c, session)'
        BY <1>1, <1>6, <2>1, <2>5 DEF Usable
      <3> QED
        BY <1>1, <1>2, <1>6, <2>1, <2>2, <2>5, <3>1 DEF Own, Opening, InSession
    <2>7. ~Disturb(c) /\ Untouching(c) => Untouching(c)'
      BY <1>2, <1>3, <1>6 DEF Untouching, Opening, Final
    <2>8. ASSUME ~closed', ~overlapped', Task(c)' \in {"notify", "renotify"}
          PROVE  session' # NoSession
      <3>1. CASE Opening(c)
        BY <1>3, <3>1
      <3>2. CASE ~Opening(c)
        <4>1. Task(c) \in {"notify", "renotify"}
          BY <1>2, <1>6, <3>2 DEF Opening, Final, Tasks
        <4> QED
          BY <1>1, <1>2, <1>3, <2>8, <3>2, <4>1 DEF Sound, WedgeOK, Undisturbed
      <3> QED
        BY <3>1, <3>2
    <2> QED
      BY <1>2, <1>4, <2>1, <2>6, <2>7, <2>8 DEF After
  <1> QED
    BY <1>1, <1>2, <1>5, <1>6, Proceeds

\* A server that wants the older protocol: its session is not the object's yet.
LEMMA AfterVersion ==
  ASSUME Sound, NEW c \in Callers, ReceiveVersion(c)
  PROVE  After(c)
  <1>1. /\ request[c].status = "version" /\ UNCHANGED <<session, initialized, lost, live, disturbed>>
        /\ Undisturbed /\ closed' = closed /\ TypesOK /\ CallersOK /\ Own(c)
    BY MoveOfOne DEF ReceiveVersion, Status, object, server, history, Undisturbed, Sound, OwnOK,
       Moves, Step, Answer
  <1>2. /\ Busy(c) /\ request[c] # Nothing /\ Opening(c) /\ outcome[c] = "none"
    BY <1>1, Answerable, BusyCaller DEF RequestOK
  <1>3. Healthy'
    BY <1>1, HealthKept
  <1>4. CASE Task(c) = "initialize"
    <2> DEFINE t == <<"legacy">> \o Tail(todo[c])
    <2>1. Then(c, t)
      BY <1>4 DEF ReceiveVersion
    <2>2. t \in Seq(Tasks) /\ Len(t) > 0 /\ t[1] = "legacy" /\ (Retried(t) => Retried(todo[c]))
      BY <1>1, <1>2, <1>4, BusyCaller, StackLegacy
    <2> HIDE DEF t
    <2>3. /\ todo'[c] = t /\ request'[c] = Nothing /\ outcome' = outcome
      BY <1>1, <2>1, <2>2, Thens
    <2>4. Task(c)' = "legacy"
      BY <2>2, <2>3, Below DEF Task
    <2>5. Own(c)'
      BY <1>1, <1>2, <2>2, <2>3, <2>4 DEF Own, InSession, Nothing
    <2> QED
      BY <1>2, <1>3, <1>4, <2>3, <2>4, <2>5 DEF After, Untouching
  <1>5. CASE Task(c) # "initialize"
    BY <1>3, <1>5, AfterEnd DEF ReceiveVersion, Outcomes
  <1> QED
    BY <1>4, <1>5

\* A request whose session had expired: an undisturbed caller's is repeated,
\* unless it was repeated before, when the server has forgotten two sessions.
LEMMA AfterExpired ==
  ASSUME Sound, NEW c \in Callers, Expired(c)
  PROVE  After(c)
  <1>1. /\ request[c].status = "404" /\ UNCHANGED <<lost, live, closed>>
        /\ TypesOK /\ CallersOK /\ Own(c)
    BY MoveOfOne DEF Expired, Status, server, Sound, OwnOK, Moves, Step, Answer
  <1>2. /\ Busy(c) /\ request[c] # Nothing /\ ~Opening(c) /\ Task(c) # "ensure"
        /\ request[c].session \notin live /\ Task(c) \in Tasks /\ outcome[c] = "none"
    BY <1>1, Answerable, BusyCaller DEF RequestOK
  <1>3. Task(c) \in InSession
    BY <1>2 DEF Opening, InSession, Tasks
  <1>4. ~disturbed[c] /\ lost[c] < 2 =>
          session # NoSession /\ lost[c] >= 1 /\ ~Retried(todo[c])
    BY <1>1, <1>2, <1>3 DEF Own, Usable
  <1>5. CASE Repeat(c)
    <2> DEFINE t == <<"initialize", "notify", Again(Task(c))>> \o Tail(todo[c])
    <2>1. Then(c, t) /\ session' = NoSession /\ initialized' = FALSE /\ Disturb(c)
      BY <1>5 DEF Expired, Anew, ResetSession
    <2>2. t \in Seq(Tasks) /\ Len(t) > 0 /\ t[1] = "initialize"
      <3>1. /\ todo[c] \in Seq(Tasks) /\ Len(todo[c]) > 0 /\ Stack(todo[c], goal[c])
            /\ Task(c) = todo[c][1]
        BY <1>1, <1>2, BusyCaller
      <3>2. t \in Seq(Tasks) /\ Len(t) = Len(todo[c]) + 2 /\ t[1] = "initialize"
        BY <1>5, <3>1, StackRepeated DEF Again, Repeat
      <3> HIDE DEF t
      <3> QED
        BY <3>1, <3>2
    <2> HIDE DEF t
    <2>3. /\ todo'[c] = t /\ request'[c] = Nothing /\ outcome' = outcome
      BY <1>1, <2>1, <2>2, Thens
    <2>4. Task(c)' = "initialize" /\ disturbed'[c] = disturbed[c]
      BY <1>1, <2>1, <2>2, <2>3, Below DEF Task, Disturb
    <2>5. Own(c)'
      BY <1>1, <1>4, <2>3, <2>4 DEF Own, InSession, Nothing
    <2>6. Healthy'
      BY <2>1 DEF Healthy
    <2> QED
      BY <1>2, <2>1, <2>3, <2>4, <2>5, <2>6 DEF After
  <1>6. CASE ~Repeat(c)
    <2>1. End(c, "refused") /\ UNCHANGED <<session, initialized>> /\ Undisturbed
      BY <1>6 DEF Expired, object
    <2>2. Retried(todo[c]) \/ session = NoSession
      <3>1. Task(c) \in {"renotify", "resend"} => Retried(todo[c])
        <4>1. todo[c] \in Seq(Tasks) /\ Len(todo[c]) > 0 /\ Task(c) = todo[c][1]
          BY <1>1, <1>2, BusyCaller
        <4>2. 1 \in 1..Len(todo[c])
          BY <4>1
        <4> QED
          BY <4>1, <4>2 DEF Retried
      <3> QED
        BY <1>3, <1>6, <3>1 DEF Repeat, InSession
    <2>3. disturbed[c] \/ lost[c] >= 2
      <3>1. lost[c] \in 0..2 /\ (lost[c] < 2 \/ lost[c] >= 2)
        BY <1>1 DEF TypesOK
      <3> QED
        BY <1>4, <2>2, <3>1
    <2>4. Healthy'
      BY <1>1, <2>1, HealthKept
    <2> QED
      BY <2>1, <2>3, <2>4, AfterEnd DEF Outcomes
  <1> QED
    BY <1>5, <1>6

\* A refusal, a timeout or a lost reply ends the caller's request.
LEMMA AfterFailure ==
  ASSUME Sound, NEW c \in Callers, Refused(c) \/ Timeout(c) \/ Dropped(c)
  PROVE  After(c)
  <1>1. /\ UNCHANGED <<session, initialized, closed>> /\ Undisturbed /\ TypesOK /\ CallersOK /\ Own(c)
    BY MoveOfOne DEF Refused, Timeout, Dropped, object, history, Undisturbed, Sound, OwnOK,
       Moves, Step, Answer
  <1>2. Healthy'
    BY <1>1, HealthKept
  <1>3. CASE Refused(c)
    <2>1. request[c].status = "400" /\ End(c, "refused")
      BY <1>3 DEF Refused, Status
    <2>2. /\ Busy(c) /\ request[c] # Nothing /\ ~Opening(c) /\ Task(c) # "ensure"
          /\ request[c].session = NoSession /\ Task(c) \in Tasks
      BY <1>1, <2>1, Answerable, BusyCaller DEF RequestOK
    <2>3. Task(c) \in InSession
      BY <2>2 DEF Opening, InSession, Tasks
    <2>4. disturbed[c] \/ lost[c] >= 2
      <3>1. lost[c] \in 0..2 /\ (lost[c] < 2 \/ lost[c] >= 2)
        BY <1>1 DEF TypesOK
      <3> QED
        BY <1>1, <2>2, <2>3, <3>1 DEF Own
    <2> QED
      BY <1>2, <2>1, <2>4, AfterEnd DEF Outcomes
  <1>4. CASE Timeout(c) \/ Dropped(c)
    BY <1>2, <1>4, AfterEnd DEF Timeout, Dropped, Outcomes
  <1> QED
    BY <1>3, <1>4

\* An operation begins: it is undisturbed only when nobody else is at work,
\* and the session it finds dead counts as lost.
LEMMA SharedBegin ==
  ASSUME Sound, NEW c \in Callers, CallTool(c) \/ RegisterTools(c) \/ HealthCheck(c)
  PROVE  AloneOK' /\ OwnOK' /\ HiddenOK' /\ WedgeOK'
  <1>1. PICK what \in Goals, tasks \in {<<"ensure", "send">>, <<"ensure">>} : Begin(c, what, tasks)
    BY DEF CallTool, RegisterTools, HealthCheck, Goals
  <1>2. /\ ~Busy(c) /\ todo'[c] = tasks /\ outcome'[c] = "none"
        /\ UNCHANGED <<session, initialized, closed, live, request, overlapped>>
        /\ disturbed'[c] = \E d \in Callers : d # c /\ Busy(d)
        /\ lost'[c] = IF session \in live THEN 0 ELSE IF session # NoSession THEN 1
                      ELSE IF initialized THEN 2 ELSE 0
    BY <1>1 DEF Begin, object, server, Sound, TypesOK
  <1>3. \A d \in Callers \ {c} :
          /\ todo'[d] = todo[d] /\ outcome'[d] = outcome[d] /\ disturbed'[d] = disturbed[d]
          /\ lost'[d] = lost[d]
    BY <1>1 DEF Begin, Sound, TypesOK
  <1>4. Task(c)' = "ensure" /\ ~Retried(tasks)
    <2>1. CASE tasks = <<"ensure", "send">>
      BY <1>2, <2>1 DEF Task, Retried
    <2>2. CASE tasks = <<"ensure">>
      BY <1>2, <2>2 DEF Task, Retried
    <2> QED
      BY <1>1, <2>1, <2>2
  <1>5. \A d \in Callers \ {c} :
          Busy(d)' = Busy(d) /\ Task(d)' = Task(d) /\ Untouching(d)' = Untouching(d) /\ Own(d)' = Own(d)
    BY <1>2, <1>3 DEF Busy, Task, Untouching, Own, Usable, Opening
  <1>6. AloneOK'
    <2> SUFFICES ASSUME NEW x \in Callers, NEW y \in Callers, x # y, Busy(x)', Busy(y)', ~disturbed'[x]
                 PROVE  Untouching(y)'
      BY DEF AloneOK
    <2>1. x # c
      BY <1>2, <1>5
    <2>2. CASE y = c
      BY <1>4, <2>2 DEF Untouching
    <2>3. CASE y # c
      BY <1>3, <1>5, <2>1, <2>3 DEF Sound, AloneOK
    <2> QED
      BY <2>2, <2>3
  <1>7. Own(c)'
    <2>1. lost'[c] < 2 /\ initialized => session # NoSession /\ (session \in live \/ lost'[c] >= 1)
      <3>1. CASE session \in live
        BY <3>1 DEF Sound, TypesOK, NoSession
      <3>2. CASE session \notin live /\ session # NoSession
        <4>1. lost'[c] = 1
          BY <1>2, <3>2
        <4> QED
          BY <3>2, <4>1
      <3>3. CASE session \notin live /\ session = NoSession
        BY <1>2, <3>3
      <3> QED
        BY <3>1, <3>2, <3>3
    <2> QED
      BY <1>2, <1>4, <2>1 DEF Own, Usable, InSession, Opening
  <1>8. OwnOK'
    BY <1>5, <1>7 DEF Sound, OwnOK
  <1>9. HiddenOK'
    BY <1>2, <1>3 DEF Sound, HiddenOK
  <1>10. WedgeOK'
    BY <1>2, <1>4, <1>5 DEF Sound, WedgeOK
  <1> QED
    BY <1>6, <1>8, <1>9, <1>10

\* The client is closed, or the server forgets its sessions.
LEMMA SharedAside ==
  ASSUME Sound, CloseAll \/ Expire \/ UNCHANGED vars
  PROVE  AloneOK' /\ OwnOK' /\ HiddenOK' /\ WedgeOK'
  <1>1. CASE CloseAll
    <2>1. closed' = TRUE /\ \A c \in Callers : disturbed'[c] = TRUE
      BY <1>1 DEF CloseAll
    <2> QED
      BY <2>1 DEF AloneOK, OwnOK, Own, HiddenOK, WedgeOK
  <1>2. CASE Expire
    <2>1. /\ UNCHANGED <<session, initialized, closed, todo, request, outcome, disturbed, overlapped>>
          /\ live' = {}
      BY <1>2 DEF Expire, object, caller
    <2>2. \A c \in Callers : /\ Busy(c)' = Busy(c) /\ Task(c)' = Task(c) /\ Opening(c)' = Opening(c)
                             /\ Untouching(c)' = Untouching(c)
      BY <2>1 DEF Busy, Task, Opening, Untouching
    <2>3. \A c \in Callers :
            lost'[c] >= lost[c] /\ lost[c] \in 0..2 /\ lost'[c] \in 0..2 /\ (Busy(c) /\ lost'[c] < 2 => lost[c] = 0 /\ lost'[c] = 1)
      BY <1>2 DEF Expire, Sound, TypesOK
    <2>4. ASSUME NEW c \in Callers PROVE Own(c)'
      <3> SUFFICES ASSUME Busy(c), ~disturbed[c], lost'[c] < 2 PROVE Own(c)'
        BY <2>1, <2>2 DEF Own
      <3>1. Own(c) /\ lost[c] = 0 /\ lost'[c] = 1
        BY <2>3 DEF Sound, OwnOK
      <3>2. ~Retried(todo[c])
        BY <3>1 DEF Own
      <3>3. \A id : Usable(c, id)'
        BY <2>1, <3>1, <3>2 DEF Usable
      <3> QED
        BY <2>1, <2>2, <3>1, <3>2, <3>3 DEF Own
    <2>5. HiddenOK'
      BY <2>1, <2>3 DEF Sound, HiddenOK
    <2> QED
      BY <2>1, <2>2, <2>4, <2>5 DEF Sound, AloneOK, OwnOK, WedgeOK
  <1>3. CASE UNCHANGED vars
    <2>1. UNCHANGED <<session, initialized, closed, todo, request, outcome, disturbed, lost, overlapped, live>>
      BY <1>3 DEF vars, object, caller, server, history
    <2> QED
      BY <2>1 DEF Sound, AloneOK, OwnOK, HiddenOK, WedgeOK, Own, Busy, Task, Opening, Untouching, Usable
  <1> QED
    BY <1>1, <1>2, <1>3

-----------------------------------------------------------------------------
(* The theorems                                                            *)

\* Before the first call there is neither a caller nor a session,
LEMMA InitSound == Init => Sound
  <1> SUFFICES ASSUME Init PROVE Sound
    OBVIOUS
  <1>1. \A c \in Callers : ~Busy(c) /\ request[c] = Nothing /\ outcome[c] = "none" /\ goal[c] = "none"
                           /\ todo[c] = <<>>
    BY DEF Init, Busy
  <1>2. TypesOK
    <2>1. session \in 0..issued /\ initialized \in BOOLEAN /\ issued \in 0..MaxSessions /\ live \subseteq 1..issued
      <3>1. CASE session = NoSession /\ initialized = FALSE /\ live = {} /\ issued = 0
        <4>1. 0 \in 0..0 /\ 0 \in 0..MaxSessions
          BY McpAssumption
        <4> QED
          BY <3>1, <4>1 DEF NoSession
      <3>2. CASE session = 1 /\ initialized = TRUE /\ live \in {{}, {1}} /\ issued = 1
        <4>1. 1 \in 0..1 /\ 1 \in 0..MaxSessions /\ {1} \subseteq 1..1
          BY McpAssumption
        <4> QED
          BY <3>2, <4>1
      <3> QED
        BY <3>1, <3>2 DEF Init
    <2>2. todo \in [Callers -> Seq(Tasks)] /\ request \in [Callers -> Requests \cup {Nothing}]
      BY DEF Init
    <2>3. goal \in [Callers -> Goals] /\ outcome \in [Callers -> Outcomes]
      BY DEF Init, Goals, Outcomes
    <2>4. executed \in [Callers -> Nat] /\ disturbed \in [Callers -> BOOLEAN] /\ lost \in [Callers -> 0..2]
      BY DEF Init
    <2>5. closed \in BOOLEAN /\ overlapped \in BOOLEAN
      BY DEF Init
    <2> QED
      BY <2>1, <2>2, <2>3, <2>4, <2>5 DEF TypesOK
  <1>3. CallersOK
    BY <1>1 DEF CallersOK, CallerOK, StackOK, Stack, RequestOK, RunOK
  <1>4. WedgeOK
    BY <1>1 DEF WedgeOK, Init, NoSession
  <1> QED
    BY <1>1, <1>2, <1>3, <1>4 DEF Sound, AloneOK, OwnOK, Own, HiddenOK

\* and every step keeps what is known of them.
LEMMA SoundStep == Sound /\ [Next]_vars => Sound'
  <1> SUFFICES ASSUME Sound, [Next]_vars PROVE Sound'
    OBVIOUS
  <1>1. TypesOK' /\ CallersOK'
    BY CallersNext DEF Sound
  <1>2. AloneOK' /\ OwnOK' /\ HiddenOK' /\ WedgeOK'
    <2>1. ASSUME NEW c \in Callers, Moves(c)
          PROVE  AloneOK' /\ OwnOK' /\ HiddenOK' /\ WedgeOK'
      <3>1. After(c)
        BY <2>1, AfterEnsure, AfterPost, AfterAnswer, AfterReceive, AfterVersion, AfterExpired, AfterFailure
        DEF Moves, Step, Answer
      <3> QED
        BY <2>1, <3>1, SharedMove
    <2> QED
      BY <2>1, SharedBegin, SharedAside DEF Next, Moves
  <1> QED
    BY <1>1, <1>2 DEF Sound

\* The types, the callers' stacks, runs and outcomes, and whose session it
\* is, in every state.
THEOREM AlwaysSound == Spec => []Sound
  BY InitSound, SoundStep, PTL DEF Spec

\* What a tool call reports is what the server did: an answer means that the
\* tool ran once, a refusal that it did not run, and even a call that ran out
\* of time, or was sent again after its session had expired, ran at most once
\* (mcp.py, MCPServer.call_tool and the retry of an expired session).
THEOREM CallsRunOnce == Spec => []CallRunsOnce
  <1>1. Sound => CallRunsOnce
    <2> SUFFICES ASSUME Sound, NEW c \in Callers, goal[c] = "call"
                 PROVE  /\ executed[c] <= 1
                        /\ outcome[c] = "ok" => executed[c] = 1
                        /\ outcome[c] \in {"refused", "version", "unreachable"} => executed[c] = 0
      BY DEF CallRunsOnce
    <2>1. CallerOK(c)
      BY DEF Sound, CallersOK
    <2>2. CASE Busy(c)
      BY <2>1, <2>2 DEF CallerOK, RunOK
    <2>3. CASE ~Busy(c)
      BY <2>1, <2>3 DEF CallerOK, RunOK
    <2> QED
      BY <2>2, <2>3
  <1> QED
    BY AlwaysSound, <1>1, PTL

\* An expired session is replaced behind the caller's back, the recursion
\* that replaces it is bounded by the sessions handed out, and the object is
\* not left initialized without a session, unless callers overlapped or the
\* client was closed (mcp.py, _post, _initialize and _reset_session).
THEOREM SessionsRecover == Spec => []SessionRecovers
  <1>1. Sound => SessionRecovers
    <2> SUFFICES ASSUME Sound PROVE SessionRecovers
      OBVIOUS
    <2>1. TypeOK
      <3>1. ASSUME NEW c \in Callers PROVE Len(todo[c]) <= 3 + MaxSessions
        <4>1. CallerOK(c) /\ issued \in 0..MaxSessions /\ MaxSessions \in Nat
          BY McpAssumption DEF Sound, CallersOK, TypesOK
        <4>2. CASE Busy(c)
          <5>1. Depth(Task(c), request[c].status) <= 3 + MaxSessions
            BY <4>1 DEF Depth
          <5>2. Len(todo[c]) \in Nat /\ Len(todo[c]) <= Depth(Task(c), request[c].status)
            BY <4>1, <4>2 DEF CallerOK, StackOK, Sound, TypesOK
          <5> QED
            BY <4>1, <5>1, <5>2 DEF Depth
        <4>3. CASE ~Busy(c)
          BY <4>1, <4>3 DEF Busy
        <4> QED
          BY <4>2, <4>3
      <3>2. session \in 0..MaxSessions /\ issued <= MaxSessions
        BY McpAssumption DEF Sound, TypesOK
      <3> QED
        BY <3>1, <3>2 DEF TypeOK, Sound, TypesOK
    <2>2. ExpiryIsHidden
      BY DEF Sound, HiddenOK, ExpiryIsHidden
    <2>3. NotWedged
      BY DEF Sound, WedgeOK, NotWedged
    <2> QED
      BY <2>1, <2>2, <2>3 DEF SessionRecovers
  <1> QED
    BY AlwaysSound, <1>1, PTL
=============================================================================
