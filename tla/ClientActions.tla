---------------------------- MODULE ClientActions ----------------------------
(***************************************************************************)
(* What gateway/gateway.go does with a client's actions that carry an id:  *)
(* exec, input, ai_turn and the slash commands that run a skill.  A client *)
(* repeats an action until it gets the acknowledgement, over the same      *)
(* connection or the next one, while the goroutine of the connection it    *)
(* has left may still be at work on it; kernel/registry.go remembers the   *)
(* ids per session.  Taken is an action once its text is at a runner: as   *)
(* the input of the active one, of one resumed for it, or as the command   *)
(* or first input of a new one.                                            *)
(*                                                                         *)
(* An ai_turn without a text and an input that is a command do what exec   *)
(* does.  Of the runner only what the answers of session.Service depend on *)
(* is kept (SessionService has the rest).                                  *)
(***************************************************************************)
EXTENDS Integers, Sequences, FiniteSets

CONSTANTS
  MaxActions,    \* bound: actions of the client, fewer than the ids that are kept
  MaxConns       \* bound: connections of the client, one after the other

VARIABLES
  kindOf,        \* kindOf[i]: "none", "exec", "input", "turn", "skill"
  conn,          \* the client's connection
  up,            \* it has one
  inboxOf,       \* inboxOf[c]: what connection c has not read
  hand,          \* hand[c]: the action that c's goroutine works on, and its step
  acked,         \* actions whose acknowledgement the client has
  marks,         \* clientActions of the runtime session
  forgotten,     \* history: ids dropped from it
  runnerIs,      \* "none", "starting", "ready"
  taken,         \* taken[i]: how often a runner has got it
  recorded,      \* recorded[i]: how often it was added to the log
  refused        \* actions for which an error was sent

actionVars == <<kindOf, conn, up, inboxOf, hand, acked, marks, forgotten, runnerIs, taken, recorded, refused>>
clientSide == <<kindOf, conn, up, inboxOf, acked>>

Actions == 1 .. MaxActions
Conns == 1 .. MaxConns
Free == [i |-> 0, step |-> "read"]

ActionsInit ==
  /\ kindOf = [i \in Actions |-> "none"] /\ conn = 1 /\ up = TRUE
  /\ inboxOf = [c \in Conns |-> <<>>] /\ hand = [c \in Conns |-> Free]
  /\ acked = {} /\ marks = {} /\ forgotten = {}
  /\ runnerIs = "none"
  /\ taken = [i \in Actions |-> 0] /\ recorded = [i \in Actions |-> 0] /\ refused = {}

-----------------------------------------------------------------------------
(* The client.                                                             *)

Sends(i) ==
  /\ up /\ i \notin acked /\ i \notin forgotten /\ inboxOf[conn] = <<>>
  /\ \A j \in 1 .. i - 1 : kindOf[j] # "none"
  /\ kindOf' \in IF kindOf[i] # "none" THEN {kindOf}
                 ELSE {[kindOf EXCEPT ![i] = k] : k \in {"exec", "input", "turn", "skill"}}
  /\ inboxOf' = [inboxOf EXCEPT ![conn] = <<i>>]
  /\ UNCHANGED <<conn, up, hand, acked, marks, forgotten, runnerIs, taken, recorded, refused>>

\* What was not read may still be, or is gone.
Disconnects ==
  /\ up
  /\ up' = FALSE
  /\ inboxOf' \in {inboxOf, [inboxOf EXCEPT ![conn] = <<>>]}
  /\ UNCHANGED <<kindOf, conn, hand, acked, marks, forgotten, runnerIs, taken, recorded, refused>>

Connects ==
  /\ ~up /\ conn < MaxConns
  /\ up' = TRUE /\ conn' = conn + 1
  /\ UNCHANGED <<kindOf, inboxOf, hand, acked, marks, forgotten, runnerIs, taken, recorded, refused>>

-----------------------------------------------------------------------------
(* A connection's goroutine.                                               *)

At(c, step) == hand[c].step = step
Moves(c, step) == hand' = [hand EXCEPT ![c].step = step]
Leaves(c) == hand' = [hand EXCEPT ![c] = Free]

ReadMessage(c) ==
  /\ At(c, "read") /\ inboxOf[c] # <<>>
  /\ inboxOf' = [inboxOf EXCEPT ![c] = Tail(@)]
  /\ hand' = [hand EXCEPT ![c] = [i |-> Head(inboxOf[c]), step |-> "mark"]]
  /\ UNCHANGED <<kindOf, conn, up, acked, marks, forgotten, runnerIs, taken, recorded, refused>>

\* Fault: an id counts from when its action is done.
AcceptedUnlessDone(c, i) == taken[i] = 0 /\ i \notin refused

\* MarkClientAction says that the id is new.
Accepted(c, i) == i \notin marks

\* A slash command that is executed is an exec that is not added to the log.
FirstSteps(k) ==
  CASE k = "exec" -> {"record", "execute"} [] k = "input" -> {"check"} [] OTHER -> {"send"}

\* ackClientAction: the id is remembered before the action is done; the
\* acknowledgement of a repeated one says so. It is lost on a connection that the client has left.
AckClientAction(c) ==
  LET i == hand[c].i
  IN /\ At(c, "mark")
     /\ acked' = IF up /\ c = conn THEN acked \cup {i} ELSE acked
     /\ marks' = marks \cup {i}
     /\ IF ~Accepted(c, i) THEN Leaves(c) ELSE \E step \in FirstSteps(kindOf[i]) : Moves(c, step)
     /\ UNCHANGED <<kindOf, conn, up, inboxOf, forgotten, runnerIs, taken, recorded, refused>>

\* appendUserProjectionEntry: a command before it is executed, a text after a
\* runner has got it.
AppendUserEntry(c) ==
  /\ At(c, "record")
  /\ recorded' = [recorded EXCEPT ![hand[c].i] = @ + 1]
  /\ IF kindOf[hand[c].i] = "exec" THEN Moves(c, "execute") ELSE Leaves(c)
  /\ UNCHANGED <<clientSide, marks, forgotten, runnerIs, taken, refused>>

\* Refuses(c), Takes(c): the action ends in an error, or at a runner.
Refuses(c) == refused' = refused \cup {hand[c].i} /\ Leaves(c) /\ UNCHANGED <<taken, runnerIs>>

\* An error of SendInputOrResume: for a skill it is looked once more at the runner.
ActionFails(c) ==
  IF kindOf[hand[c].i] = "skill" THEN Moves(c, "otherwise") /\ UNCHANGED <<refused, taken, runnerIs>>
  ELSE Refuses(c)

Takes(c) ==
  LET i == hand[c].i
  IN /\ taken' = [taken EXCEPT ![i] = @ + 1]
     /\ IF kindOf[i] \in {"input", "turn"} THEN Moves(c, "record") ELSE Leaves(c)
     /\ UNCHANGED refused

\* Service.Execute: with the action as the command or as its first input.
ExecuteNew(c) ==
  IF runnerIs # "none" THEN Refuses(c) ELSE runnerIs' = "starting" /\ Takes(c)

Executes(c) ==
  /\ At(c, "execute")
  /\ ExecuteNew(c)
  /\ UNCHANGED <<clientSide, marks, forgotten, recorded>>

\* ShouldBlockInputForPendingPermission: an input waits for no answer to a
\* permission, it is refused.
InputChecks(c) ==
  /\ At(c, "check")
  /\ \/ runnerIs = "ready" /\ Refuses(c)
     \/ Moves(c, "send") /\ UNCHANGED <<refused, taken, runnerIs>>
  /\ UNCHANGED <<clientSide, marks, forgotten, recorded>>

\* SendInputOrResume, its first SendInput: without a runner the session is
\* resumed, if it can be.
SendInputFirst(c) ==
  /\ At(c, "send")
  /\ CASE runnerIs = "ready" -> (Takes(c) /\ UNCHANGED runnerIs) \/ ActionFails(c)
       [] runnerIs = "starting" -> ActionFails(c)
       [] OTHER -> (Moves(c, "resume") \/ Moves(c, "otherwise")) /\ UNCHANGED <<refused, taken, runnerIs>>
  /\ UNCHANGED <<clientSide, marks, forgotten, recorded>>

ResumeExecutes(c) ==
  /\ At(c, "resume")
  /\ IF runnerIs # "none" THEN ActionFails(c)
     ELSE runnerIs' = "starting" /\ Moves(c, "wait") /\ UNCHANGED <<refused, taken>>
  /\ UNCHANGED <<clientSide, marks, forgotten, recorded>>

\* waitForRunnerStart, sendInputWhenRunnerReady: whichever runner is there when
\* one is ready gets the input; or the time is over.
InputWhenReady(c) ==
  /\ At(c, "wait")
  /\ \/ runnerIs = "ready" /\ Takes(c) /\ UNCHANGED runnerIs
     \/ runnerIs = "starting" /\ ActionFails(c)
     \/ runnerIs = "none" /\ Moves(c, "otherwise") /\ UNCHANGED <<refused, taken, runnerIs>>
  /\ UNCHANGED <<clientSide, marks, forgotten, recorded>>

\* There is no runner to be had: an input is refused, an ai_turn and a skill
\* begin a new one.
Otherwise(c) ==
  /\ At(c, "otherwise")
  /\ IF kindOf[hand[c].i] = "input" THEN Refuses(c) ELSE ExecuteNew(c)
  /\ UNCHANGED <<clientSide, marks, forgotten, recorded>>

-----------------------------------------------------------------------------
(* The runner, and the registry.                                           *)

RunnerActs ==
  /\ runnerIs # "none"
  /\ runnerIs' \in {"ready", "none"} \ {runnerIs}
  /\ UNCHANGED <<clientSide, hand, marks, forgotten, taken, recorded, refused>>

\* A session that nobody is connected to is cleaned up after a time; an id that
\* it has forgotten would be new, and is not followed any further.
SessionForgets ==
  /\ ~up /\ \A c \in Conns : hand[c] = Free /\ inboxOf[c] = <<>>
  /\ runnerIs = "none" /\ marks # {}
  /\ marks' = {} /\ forgotten' = forgotten \cup marks
  /\ UNCHANGED <<clientSide, hand, runnerIs, taken, recorded, refused>>

ActionsNext ==
  \/ \E i \in Actions : Sends(i)
  \/ Disconnects \/ Connects \/ RunnerActs \/ SessionForgets
  \/ \E c \in Conns :
       \/ ReadMessage(c) \/ AckClientAction(c) \/ AppendUserEntry(c) \/ Executes(c) \/ InputChecks(c)
       \/ SendInputFirst(c) \/ ResumeExecutes(c) \/ InputWhenReady(c) \/ Otherwise(c)

ActionsSpec == ActionsInit /\ [][ActionsNext]_actionVars

-----------------------------------------------------------------------------
(* Properties.                                                             *)

ActionsTypeOK ==
  /\ acked \cup marks \cup forgotten \cup refused \subseteq Actions
  /\ \A c \in Conns : hand[c].i \in Actions \cup {0}
  /\ \A i \in Actions : taken[i] \in Nat /\ recorded[i] \in Nat

\* However often a client repeats an action, over however many connections that
\* work on it at a time: it comes to one runner at most, and once it has been
\* dealt with it has come to a runner or the client's connection was sent an
\* error, never both; a text that a runner got stands in the log once.
ActionTakenOnce ==
  \A i \in Actions : i \in marks =>
    /\ taken[i] <= 1 /\ recorded[i] <= 1
    /\ taken[i] = 1 => i \notin refused
    /\ (\A c \in Conns : hand[c].i # i) =>
         /\ taken[i] = 1 \/ i \in refused
         /\ kindOf[i] \in {"input", "turn"} => recorded[i] = taken[i]
=============================================================================
