------------------------------- MODULE McpClient -------------------------------
(***************************************************************************)
(* One MCP server as the agent's threads use it: an MCPServer object whose *)
(* session several callers share without a lock, tool calls, listings and  *)
(* health checks that initialize it on first use, and a server that        *)
(* forgets its sessions, goes away, answers late or not at all.            *)
(*                                                                         *)
(* A caller's stack of Python frames is the sequence of the requests it    *)
(* still has to make.                                                      *)
(***************************************************************************)
EXTENDS Naturals, Sequences, FiniteSets

CONSTANTS Callers,      \* threads: the worker, parallel subagents, the admin view
          MaxCalls,     \* bound: operations begun
          MaxExpiries,  \* bound: times the server forgets its sessions
          MaxSessions,  \* bound: sessions the server hands out
          Speaks        \* protocol versions the server may speak

ASSUME McpAssumption ==
    /\ MaxCalls \in Nat /\ MaxExpiries \in Nat /\ MaxSessions \in Nat \ {0}
    /\ Speaks \subseteq {"2025-06-18", "2025-03-26"}

VARIABLES session, initialized, closed,         \* MCPServer, its HTTP client
          todo, request, goal, outcome,         \* per caller
          executed,                             \* per caller: runs of its tool
          calls,                                \* operations begun
          live, issued, expiries,               \* the server
          disturbed, lost,                      \* history, per caller
          overlapped                            \* history: one reset under another

object  == <<session, initialized>>
caller  == <<todo, request, goal, outcome, calls>>
server  == <<live, issued, expiries>>
history == <<disturbed, lost, overlapped>>
vars    == <<object, closed, caller, executed, server, history>>

NoSession == 0
Nothing   == [status |-> "none"]

(* The object is new, or an earlier operation has initialized it in a      *)
(* session that the server may have forgotten.                             *)
Init == /\ \/ session = NoSession /\ initialized = FALSE /\ live = {} /\ issued = 0
           \/ session = 1 /\ initialized = TRUE /\ live \in {{}, {1}} /\ issued = 1
        /\ closed = FALSE
        /\ todo = [c \in Callers |-> <<>>] /\ request = [c \in Callers |-> Nothing]
        /\ goal = [c \in Callers |-> "none"] /\ outcome = [c \in Callers |-> "none"]
        /\ calls = 0 /\ executed = [c \in Callers |-> 0]
        /\ expiries = 0
        /\ disturbed = [c \in Callers |-> FALSE] /\ lost = [c \in Callers |-> 0]
        /\ overlapped = FALSE

Busy(c) == todo[c] # <<>>
Task(c) == Head(todo[c])

-----------------------------------------------------------------------------
(* The shared object changes under the other callers. *)
Disturb(c) == /\ disturbed' = [d \in Callers |-> IF d = c THEN disturbed[d] ELSE TRUE]
              /\ overlapped' = (overlapped \/ \E d \in Callers \ {c} : Busy(d))

Undisturbed == UNCHANGED <<disturbed, overlapped>>

(* _reset_session.  The mutant forgets the flag. *)
ResetSessionOnly == session' = NoSession /\ UNCHANGED initialized

ResetSession == session' = NoSession /\ initialized' = FALSE

(* An operation ends. *)
End(c, how) == /\ todo' = [todo EXCEPT ![c] = <<>>]
               /\ request' = [request EXCEPT ![c] = Nothing]
               /\ outcome' = [outcome EXCEPT ![c] = how]
               /\ UNCHANGED <<goal, calls, closed>>

Then(c, tasks) == /\ todo' = [todo EXCEPT ![c] = tasks]
                  /\ request' = [request EXCEPT ![c] = Nothing]
                  /\ UNCHANGED <<goal, outcome, calls, closed>>

(* The next request, or the operation's end. *)
Proceed(c) == IF Len(todo[c]) = 1 THEN End(c, "ok") ELSE Then(c, Tail(todo[c]))

-----------------------------------------------------------------------------
(* Operations begin.  A session that the server has forgotten counts as    *)
(* lost once, a flag without a session twice; register_tools contacts the  *)
(* server when the manager has no listing cached.                          *)
Begin(c, what, tasks) ==
    /\ ~Busy(c) /\ calls < MaxCalls
    /\ calls' = calls + 1
    /\ goal' = [goal EXCEPT ![c] = what]
    /\ todo' = [todo EXCEPT ![c] = tasks]
    /\ outcome' = [outcome EXCEPT ![c] = "none"]
    /\ executed' = [executed EXCEPT ![c] = 0]
    /\ disturbed' = [disturbed EXCEPT ![c] = \E d \in Callers : d # c /\ Busy(d)]
    /\ lost' = [lost EXCEPT ![c] = IF session \in live THEN 0
                                         ELSE IF session # NoSession THEN 1
                                         ELSE IF initialized THEN 2 ELSE 0]
    /\ UNCHANGED overlapped
    /\ UNCHANGED <<object, closed, request, server>>

CallTool(c)      == Begin(c, "call", <<"ensure", "send">>)
RegisterTools(c) == Begin(c, "list", <<"ensure", "send">>)
HealthCheck(c)   == Begin(c, "health", <<"ensure">>)

(* close_all: the session is dropped with a DELETE that may not arrive,    *)
(* and the HTTP client is closed, whoever is waiting on it.                *)
CloseAll == /\ ~closed /\ closed' = TRUE
            /\ live' \in {live, live \ {session}}
            /\ ResetSession
            /\ disturbed' = [c \in Callers |-> TRUE]
            /\ UNCHANGED <<caller, executed, issued, expiries, lost, overlapped>>

-----------------------------------------------------------------------------
(* _ensure_initialized. *)
EnsureInitialized(c) ==
    /\ Busy(c) /\ Task(c) = "ensure"
    /\ IF initialized THEN Proceed(c)
       ELSE Then(c, <<"initialize", "notify">> \o Tail(todo[c]))
    /\ UNCHANGED <<object, executed, server, history>>

(* A request is posted with the session of that moment; initialize forgets *)
(* the session first and sends none.                                       *)
Posting(c) == Busy(c) /\ Task(c) # "ensure" /\ request[c] = Nothing
Opening(c) == Task(c) \in {"initialize", "legacy"}

Post(c) ==
    /\ Posting(c)
    /\ IF Opening(c) THEN ResetSession /\ Disturb(c) ELSE (UNCHANGED object /\ Undisturbed)
    /\ IF closed THEN End(c, "closed")
       ELSE \/ End(c, "unreachable")
            \/ /\ request' = [request EXCEPT ![c] =
                 [status |-> "sent", session |-> IF Opening(c) THEN NoSession ELSE session]]
               /\ UNCHANGED <<todo, goal, outcome, calls, closed>>
    /\ UNCHANGED <<executed, server, lost>>

Sent(c) == request[c].status = "sent"

(* The server answers: a session for initialize, 404 for a session it does *)
(* not know, 400 for none.                                                 *)
Version(c) == IF Task(c) = "legacy" THEN "2025-03-26" ELSE "2025-06-18"

Answered(c, status) == request' = [request EXCEPT ![c].status = status]

Grant(c) == /\ Sent(c) /\ Opening(c) /\ issued < MaxSessions
            /\ IF Version(c) \in Speaks
               THEN /\ issued' = issued + 1 /\ live' = live \cup {issued + 1}
                    /\ request' = [request EXCEPT ![c] = [status |-> "ok", session |-> issued + 1]]
               ELSE Answered(c, "version") /\ UNCHANGED <<issued, live>>
            /\ UNCHANGED <<object, closed, todo, goal, outcome, calls, executed, expiries,
                           history>>

Runs(c) == IF goal[c] = "call" /\ Task(c) \in {"send", "resend"} THEN [executed EXCEPT ![c] = @ + 1] ELSE executed

Serve(c) == /\ Sent(c) /\ ~Opening(c)
            /\ IF request[c].session \in live
               THEN Answered(c, "ok") /\ executed' = Runs(c)
               ELSE /\ Answered(c, IF request[c].session = NoSession THEN "400" ELSE "404")
                    /\ UNCHANGED executed
            /\ UNCHANGED <<object, closed, todo, goal, outcome, calls, server, history>>

-----------------------------------------------------------------------------
(* The caller gets its answer. *)
Status(c, status) == Busy(c) /\ request[c].status = status

(* The session id of an answer is kept; the notification's answer ends     *)
(* _initialize.  The pages of a listing count as one request.              *)
Receive(c) ==
    /\ Status(c, "ok")
    /\ CASE Opening(c) -> session' = request[c].session /\ UNCHANGED initialized /\ Disturb(c)
         [] Task(c) \in {"notify", "renotify"} -> initialized' = TRUE /\ UNCHANGED session /\ Undisturbed
         [] OTHER -> UNCHANGED object /\ Undisturbed
    /\ Proceed(c)
    /\ UNCHANGED <<executed, server, lost>>

(* The next protocol version is tried, if there is one. *)
ReceiveVersion(c) ==
    /\ Status(c, "version")
    /\ IF Task(c) = "initialize" THEN Then(c, <<"legacy">> \o Tail(todo[c]))
                                 ELSE End(c, "version")
    /\ UNCHANGED <<object, executed, server, history>>

(* 404: once per request, and if there is a session to replace, the client *)
(* initializes anew and repeats the request; the mutant repeats it in the  *)
(* session it has.                                                         *)
Again(task) == IF task = "notify" THEN "renotify" ELSE "resend"

Repeat(c) == Task(c) \in {"notify", "send"} /\ session # NoSession

ExpiredSameSession(c) ==
    /\ Status(c, "404")
    /\ IF Repeat(c) THEN Then(c, todo[c]) ELSE End(c, "refused")
    /\ UNCHANGED <<object, executed, server, history>>

Anew(c) == <<"initialize", "notify", Again(Task(c))>> \o Tail(todo[c])

Expired(c) ==
    /\ Status(c, "404")
    /\ IF Repeat(c)
       THEN /\ ResetSession /\ Disturb(c)
            /\ Then(c, Anew(c))
       ELSE End(c, "refused") /\ UNCHANGED object /\ Undisturbed
    /\ UNCHANGED <<executed, server, lost>>

Refused(c) == /\ Status(c, "400") /\ End(c, "refused")
              /\ UNCHANGED <<object, executed, server, history>>

(* No answer in time: the server may have done its part, or do it later.   *)
(* A mutant repeats the request.                                           *)
TimeoutRepeated(c) == /\ Sent(c)
                      /\ Then(c, todo[c])
                      /\ executed' \in {executed, Runs(c)}
                      /\ UNCHANGED <<object, server, history>>

Timeout(c) == /\ Sent(c)
              /\ End(c, "timeout")
              /\ executed' \in {executed, IF request[c].session \in live /\ ~Opening(c)
                                          THEN Runs(c) ELSE executed}
              /\ UNCHANGED <<object, server, history>>

(* The HTTP client was closed meanwhile. *)
Dropped(c) == /\ closed /\ request[c] # Nothing
              /\ End(c, "closed")
              /\ UNCHANGED <<object, executed, server, history>>

-----------------------------------------------------------------------------
(* The server forgets its sessions. *)
Expire == /\ expiries < MaxExpiries /\ live # {}
          /\ expiries' = expiries + 1 /\ live' = {}
          /\ lost' = [c \in Callers |-> IF Busy(c) /\ lost[c] < 2 THEN lost[c] + 1 ELSE lost[c]]
          /\ UNCHANGED <<object, closed, caller, executed, issued, disturbed, overlapped>>

Answer(c) == \/ Receive(c) \/ ReceiveVersion(c) \/ Expired(c) \/ Refused(c)
Step(c)   == EnsureInitialized(c) \/ Post(c) \/ Answer(c) \/ Timeout(c) \/ Dropped(c)

Next == \/ \E c \in Callers : \/ CallTool(c) \/ RegisterTools(c) \/ HealthCheck(c)
                              \/ Step(c) \/ Grant(c) \/ Serve(c)
        \/ CloseAll \/ Expire

(* A request is answered or times out: httpx was given a timeout. *)
Spec == Init /\ [][Next]_vars /\ \A c \in Callers : WF_vars(Step(c))

-----------------------------------------------------------------------------
(* The values of the variables.  A caller's stack grows with every session *)
(* that dies under it, and no faster: that is all that bounds it.          *)
Outcomes == {"none", "ok", "refused", "version", "timeout", "unreachable", "closed"}

TypeOK == /\ session \in 0..MaxSessions /\ initialized \in BOOLEAN
          /\ \A c \in Callers : Len(todo[c]) <= 3 + MaxSessions /\ outcome[c] \in Outcomes
          /\ live \subseteq 1..issued /\ issued <= MaxSessions

(* What a tool call reports is what the server did: an answer means that   *)
(* the tool ran once, a refusal that it did not run, and even a call that  *)
(* ran out of time, or that was sent again after its session had expired,  *)
(* ran at most once.                                                       *)
CallRunsOnce ==
    \A c \in Callers :
      goal[c] = "call" =>
        /\ executed[c] <= 1
        /\ outcome[c] = "ok" => executed[c] = 1
        /\ outcome[c] \in {"refused", "version", "unreachable"} => executed[c] = 0

ExpiryIsHidden ==
    \A c \in Callers :
      outcome[c] = "refused" => disturbed[c] \/ lost[c] >= 2

NotWedged ==
    \/ closed \/ overlapped \/ \E c \in Callers : Busy(c)
    \/ initialized => session # NoSession

(* An expired session is replaced behind the caller's back: a call is      *)
(* refused only if another caller, or a refresh, changed the shared        *)
(* session meanwhile, or if the server forgot its sessions twice.  And     *)
(* while nobody uses the object it is not in the state that no call gets   *)
(* out of, initialized and without a session, unless callers overlapped or *)
(* the client was closed.                                                  *)
SessionRecovers == TypeOK /\ ExpiryIsHidden /\ NotWedged

(* Every operation ends, however often the server is away or forgets.      *)
CallsReturn == \A c \in Callers : []<>~Busy(c)
================================================================================
