--------------------------- MODULE CodexTransport ---------------------------
(***************************************************************************)
(* engine/codex_transport.go: the JSON-RPC connection to a codex           *)
(* app-server.  Senders call and wait for the reply with their call's id;  *)
(* one read loop takes what the server says, in order: replies, the        *)
(* beginnings and ends of turns, requests for approval.  The server is     *)
(* external: it answers, asks, ends its turn and dies as it likes.         *)
(***************************************************************************)
EXTENDS Integers, Sequences, FiniteSets

CONSTANTS
  Senders,        \* goroutines that send input; one of them sends the first
  Deciders,       \* goroutines that answer a request for approval
  MaxCalls,       \* bound: calls
  MaxAsked        \* bound: requests for approval

ASSUME CodexAssumption == MaxCalls \in Nat /\ MaxAsked \in Nat

VARIABLES
  app,            \* the session: "none", "starting", "ready", "failed"
  server,         \* the process: "none", "up", "dead"
  reader,         \* the read loop: "off", "on", "ended"
  readErr,        \* readErr is set
  called,         \* nextID
  pending,        \* the ids of pending
  reply,          \* reply[n]: what call n's channel holds: "none", "ok", "error"
  turnOf,         \* turnOf[n]: the turn that call n's reply names, or 0
  at,             \* at[s]: "idle", "call", "write", "wait"
  id,             \* id[s]: the call s makes, or 0
  method,         \* method[n]: "initialize", "thread", "start", "steer"
  inbox,          \* requests the server has not answered
  out,            \* what the server has written and the loop not read
  turn,           \* activeTurnID, 0 for none
  live,           \* the server's turn, 0 for none
  turns,          \* turns the server has started
  asked,          \* requests for approval the server has made
  seen,           \* the newest one the loop has read, 0 for none
  slot,           \* pendingApproval, 0 for none
  holds,          \* holds[d]: the request decider d has read, or 0
  answered        \* requests answered

callVars == <<app, called, pending, readErr, reply, turnOf, at, id, method>>
serverVars == <<server, inbox, live, turns, asked>>
approvalVars == <<seen, slot, holds, answered>>
codexVars == <<callVars, serverVars, approvalVars, reader, out, turn>>

Calls == 1 .. MaxCalls

CodexInit ==
  /\ app = "none" /\ server = "none" /\ reader = "off" /\ readErr = FALSE
  /\ called = 0 /\ pending = {} /\ inbox = {} /\ out = <<>>
  /\ reply = [n \in Calls |-> "none"]
  /\ turnOf = [n \in Calls |-> 0]
  /\ method = [n \in Calls |-> "none"]
  /\ at = [s \in Senders |-> "idle"]
  /\ id = [s \in Senders |-> 0]
  /\ turn = 0 /\ live = 0 /\ turns = 0
  /\ asked = 0 /\ seen = 0 /\ slot = 0 /\ answered = {}
  /\ holds = [d \in Deciders |-> 0]

-----------------------------------------------------------------------------
(* Calls.                                                                  *)

\* call, as far as its critical section: registered in pending; readErr fails
\* it, and the entry stays.
Register(s, m) ==
  /\ called < MaxCalls
  /\ called' = called + 1
  /\ pending' = pending \cup {called'}
  /\ method' = [method EXCEPT ![called'] = m]
  /\ IF readErr
       THEN /\ at' = [at EXCEPT ![s] = "idle"] /\ UNCHANGED id
            /\ app' = IF app = "starting" THEN "failed" ELSE app
       ELSE /\ at' = [at EXCEPT ![s] = "write"] /\ id' = [id EXCEPT ![s] = called']
            /\ UNCHANGED app

\* newCodexAppSession starts the process, and initialize is its first call.
StartApp(s) ==
  /\ app = "none"
  /\ app' = "starting"
  /\ server' = "up"
  /\ reader' = "on"
  /\ at' = [at EXCEPT ![s] = "call"]
  /\ UNCHANGED <<called, pending, readErr, reply, turnOf, id, method, inbox, live, turns, asked,
                 approvalVars, out, turn>>

\* SendUserInput reads the active turn and steers it, or starts one.
SendUserInput(s) ==
  /\ at[s] = "idle"
  /\ app = "ready"
  /\ Register(s, IF turn = 0 THEN "start" ELSE "steer")
  /\ turnOf' = [turnOf EXCEPT ![called'] = turn]
  /\ UNCHANGED <<readErr, reply, serverVars, approvalVars, reader, out, turn>>

\* initialize, then thread/start or thread/resume.
StartCalls(s) ==
  /\ at[s] = "call"
  /\ Register(s, IF called = 0 THEN "initialize" ELSE "thread")
  /\ UNCHANGED <<readErr, reply, turnOf, serverVars, approvalVars, reader, out, turn>>

\* The call of s is over; a failed first call fails the session and kills it.
Fails(s) ==
  /\ at' = [at EXCEPT ![s] = "idle"]
  /\ id' = [id EXCEPT ![s] = 0]
  /\ app' = IF app = "starting" THEN "failed" ELSE app
  /\ server' = IF app = "starting" THEN "dead" ELSE server

\* writeMessage; a pipe nobody reads any more refuses it.
WriteCall(s) ==
  /\ at[s] = "write"
  /\ IF server = "up"
       THEN /\ inbox' = inbox \cup {id[s]}
            /\ at' = [at EXCEPT ![s] = "wait"]
            /\ UNCHANGED <<pending, app, server, id>>
       ELSE /\ pending' = pending \ {id[s]}
            /\ Fails(s)
            /\ UNCHANGED inbox
  /\ UNCHANGED <<called, readErr, reply, turnOf, method, live, turns, asked, approvalVars, reader,
                 out, turn>>

\* The caller's context ends: that of the first input, all others have none.
CallCancelled(s) ==
  /\ at[s] = "wait"
  /\ app = "starting"
  /\ pending' = pending \ {id[s]}
  /\ Fails(s)
  /\ UNCHANGED <<called, readErr, reply, turnOf, method, inbox, live, turns, asked, approvalVars,
                 reader, out, turn>>

\* The sender takes its reply; a turn's reply sets activeTurnID, whatever the
\* loop has read since.
CallReturns(s) ==
  /\ at[s] = "wait"
  /\ reply[id[s]] # "none"
  /\ IF reply[id[s]] = "error"
       THEN Fails(s) /\ UNCHANGED turn
       ELSE /\ turn' = IF method[id[s]] \in {"start", "steer"} THEN turnOf[id[s]] ELSE turn
            /\ app' = IF method[id[s]] = "thread" THEN "ready" ELSE app
            /\ at' = [at EXCEPT ![s] = IF method[id[s]] = "initialize" THEN "call" ELSE "idle"]
            /\ id' = [id EXCEPT ![s] = 0]
            /\ UNCHANGED server
  /\ UNCHANGED <<called, pending, readErr, reply, turnOf, method, inbox, live, turns, asked,
                 approvalVars, reader, out>>

-----------------------------------------------------------------------------
(* The read loop.                                                          *)

Message(k) == out # <<>> /\ reader = "on" /\ Head(out).kind = k /\ out' = Tail(out)

\* resolvePending: a reply nobody waits for is dropped.
ReadReply ==
  /\ Message("reply")
  /\ LET m == Head(out)
     IN IF m.n \in pending
          THEN /\ pending' = pending \ {m.n}
               /\ reply' = [reply EXCEPT ![m.n] = IF m.ok THEN "ok" ELSE "error"]
               /\ turnOf' = [turnOf EXCEPT ![m.n] = m.turn]
          ELSE UNCHANGED <<pending, reply, turnOf>>
  /\ UNCHANGED <<app, called, readErr, at, id, method, serverVars, approvalVars, reader, turn>>

\* turn/started, and turn/completed, which clears the turn it names.
ReadTurn ==
  /\ \/ Message("started") /\ turn' = Head(out).n
     \/ Message("completed") /\ turn' = IF turn = Head(out).n THEN 0 ELSE turn
  /\ UNCHANGED <<callVars, serverVars, approvalVars, reader>>

\* handleServerRequest: one slot, the newest request takes it.
ReadApproval ==
  /\ Message("approval")
  /\ slot' = Head(out).n
  /\ seen' = Head(out).n
  /\ UNCHANGED <<callVars, serverVars, holds, answered, reader, turn>>

\* failPending.
FailPending ==
  /\ readErr' = TRUE
  /\ pending' = {}
  /\ reply' = [n \in Calls |-> IF n \in pending THEN "error" ELSE reply[n]]

\* Fault: the end of the stream is no error and fails nobody.
ReaderEndsQuietly ==
  /\ reader = "on" /\ server = "dead" /\ out = <<>>
  /\ reader' = "ended"
  /\ UNCHANGED <<callVars, serverVars, approvalVars, out, turn>>

\* The stream ends: the calls that wait are failed.
ReaderEnds ==
  /\ reader = "on" /\ server = "dead" /\ out = <<>>
  /\ reader' = "ended"
  /\ FailPending
  /\ UNCHANGED <<app, called, turnOf, at, id, method, serverVars, approvalVars, out, turn>>

\* codexAppSession.Close, when the runner is closed or its first input failed:
\* the calls are failed first, the process is killed after.
CloseApp ==
  /\ server = "up"
  /\ app = "ready"
  /\ server' = "dead"
  /\ FailPending
  /\ UNCHANGED <<app, called, turnOf, at, id, method, inbox, live, turns, asked, approvalVars, reader,
                 out, turn>>

-----------------------------------------------------------------------------
(* Approvals.                                                              *)

\* WritePermissionResponse reads the slot,
DecideLook(d) ==
  /\ holds[d] = 0
  /\ slot # 0
  /\ holds' = [holds EXCEPT ![d] = slot]
  /\ UNCHANGED <<callVars, serverVars, seen, slot, answered, reader, out, turn>>

\* answers the request it has read,
Respond(d) ==
  /\ holds[d] # 0
  /\ holds[d] \notin answered
  /\ server = "up"
  /\ answered' = answered \cup {holds[d]}
  /\ UNCHANGED <<callVars, serverVars, seen, slot, holds, reader, out, turn>>

\* Fault: the slot is cleared whatever it holds.
ClearAnyApproval(d) ==
  /\ holds[d] \in answered
  /\ slot' = 0
  /\ holds' = [holds EXCEPT ![d] = 0]
  /\ UNCHANGED <<callVars, serverVars, seen, answered, reader, out, turn>>

\* and clears it, unless the slot has changed.
ClearPendingApproval(d) ==
  /\ holds[d] \in answered
  /\ slot' = IF slot = holds[d] THEN 0 ELSE slot
  /\ holds' = [holds EXCEPT ![d] = 0]
  /\ UNCHANGED <<callVars, serverVars, seen, answered, reader, out, turn>>

-----------------------------------------------------------------------------
(* The server (external).                                                  *)

Says(k, n, ok, t) == [kind |-> k, n |-> n, ok |-> ok, turn |-> t]

\* A turn is started when there is none, and steered when it is the one named.
ServerReplies(n) ==
  /\ server = "up" /\ n \in inbox
  /\ inbox' = inbox \ {n}
  /\ CASE method[n] = "start" /\ live = 0 ->
            /\ turns' = turns + 1
            /\ live' = turns'
            /\ out' = out \o <<Says("reply", n, TRUE, live'), Says("started", live', TRUE, 0)>>
       [] method[n] = "start" /\ live # 0 ->
            /\ out' = Append(out, Says("reply", n, FALSE, 0))
            /\ UNCHANGED <<turns, live>>
       [] method[n] = "steer" ->
            /\ out' = Append(out, Says("reply", n, live = turnOf[n], turnOf[n]))
            /\ UNCHANGED <<turns, live>>
       [] OTHER ->
            /\ out' = Append(out, Says("reply", n, TRUE, 0))
            /\ UNCHANGED <<turns, live>>
  /\ UNCHANGED <<callVars, server, asked, approvalVars, reader, turn>>

ServerCompletes ==
  /\ server = "up" /\ live # 0
  /\ out' = Append(out, Says("completed", live, TRUE, 0))
  /\ live' = 0
  /\ UNCHANGED <<callVars, server, inbox, turns, asked, approvalVars, reader, turn>>

ServerAsks ==
  /\ server = "up" /\ live # 0 /\ asked < MaxAsked
  /\ asked' = asked + 1
  /\ out' = Append(out, Says("approval", asked', TRUE, 0))
  /\ UNCHANGED <<callVars, server, inbox, live, turns, approvalVars, reader, turn>>

ServerDies ==
  /\ server = "up"
  /\ server' = "dead"
  /\ UNCHANGED <<callVars, inbox, live, turns, asked, approvalVars, reader, out, turn>>

-----------------------------------------------------------------------------

CodexNext ==
  \/ \E s \in Senders : \/ StartApp(s) \/ SendUserInput(s) \/ StartCalls(s) \/ WriteCall(s)
                        \/ CallCancelled(s) \/ CallReturns(s)
  \/ ReadReply \/ ReadTurn \/ ReadApproval \/ ReaderEnds \/ CloseApp
  \/ \E d \in Deciders : DecideLook(d) \/ Respond(d) \/ ClearPendingApproval(d)
  \/ \E n \in Calls : ServerReplies(n)
  \/ ServerCompletes \/ ServerAsks \/ ServerDies

CodexSpec == CodexInit /\ [][CodexNext]_codexVars

-----------------------------------------------------------------------------
(* Properties.                                                             *)

\* The ranges of what the read loop and the senders share.
CodexTypeOK ==
  /\ app \in {"none", "starting", "ready", "failed"}
  /\ server \in {"none", "up", "dead"} /\ reader \in {"off", "on", "ended"}
  /\ pending \subseteq 1 .. called
  /\ turn \in 0 .. turns
  /\ slot \in 0 .. seen /\ seen \in 0 .. asked /\ answered \subseteq 1 .. seen

\* Nobody waits for a reply that cannot come: when the server is gone and the
\* read loop has ended, every call that waits has an answer.  call registers
\* before it writes, and the loop fails what is registered when it ends.
NoCallLeftBehind ==
  \A s \in Senders : at[s] = "wait" /\ reader = "ended" => reply[id[s]] # "none"

\* The newest request for approval can be answered until it is: the answer to
\* an earlier one, still on its way, does not take it out of the slot.
NewestApprovalPending == seen # 0 /\ seen \notin answered => slot = seen
=============================================================================
