---------------------------- MODULE AgentStatus -----------------------------
(***************************************************************************)
(* What a client is told of an AI command's state: the controller of       *)
(* session/session.go, moved by the service and by the runner's events;    *)
(* the events on their way through the sink, or processed at once by the   *)
(* connection's goroutine; AIStatusEventForBackendEvent, which turns each  *)
(* into the status ball; and the state restored when a client comes back.  *)
(*                                                                         *)
(* The status of an event is computed when it is processed, from the       *)
(* controller of that moment.  A runner's event goes into the sink, then   *)
(* to the controller, then what the controller says of it into the sink;   *)
(* between these steps the runner's other reader, the end of the run or a  *)
(* request may come in.  A runner that was stopped emits until its process *)
(* has gone, and its events reach the controller.                          *)
(***************************************************************************)
EXTENDS Integers, SequencesExt

CONSTANTS
  Messages,     \* messages of prompts and steps
  MaxEmitted    \* bound: commands, inputs and events of runners

VARIABLES
  running,      \* the manager has an active runner
  leaving,      \* a stopped runner's process has not gone yet
  hands,        \* events on their way through the manager: to the controller, or
                \* what it said to the sink
  ctl,          \* the controller: state, lastPromptMsg, lastStepMsg, lastStepStatus, resumable
  sinkQueue,    \* events in the sink
  direct,       \* events the connection's goroutine is about to process
  ball,         \* the client's status ball
  agentState,   \* the state the client shows
  restored,     \* history: nothing but the restored state has come since the load
  late,         \* history: a stopped runner's event has moved the controller
  crossed,      \* history: two goroutines had events on their way at a time
  emitted       \* events so far

statusVars == <<running, leaving, hands, ctl, sinkQueue, direct, ball, agentState, restored, late, crossed, emitted>>

Busy(s) == s \in {"THINKING", "RUNNING_TOOL"}
State(s) == [kind |-> "state", state |-> s]
Other(k) == [kind |-> k, state |-> "none"]

Readers == {"stdout", "stderr"}
StepStatuses == {"running", "info", "done"}

\* A step's status is "done" for all of isTerminalStepStatus.
Hand(r, b, e, m, st) == [reader |-> r, stopped |-> b, event |-> e, message |-> m, status |-> st]

StatusInit ==
  /\ running = FALSE /\ leaving = FALSE /\ hands = <<>>
  /\ ctl = [state |-> "IDLE", lastPromptMsg |-> "none", lastStepMsg |-> "none", lastStepStatus |-> "none",
            resumable |-> FALSE]
  /\ sinkQueue = <<>> /\ direct = <<>>
  /\ ball = FALSE /\ agentState = "IDLE" /\ restored = FALSE
  /\ late = FALSE /\ crossed = FALSE /\ emitted = 0

Counts == emitted < MaxEmitted /\ emitted' = emitted + 1

Met(q, d, h) == crossed' = (crossed \/ (d # <<>> /\ (q # <<>> \/ h # <<>>)) \/ Len(h) > 1)

-----------------------------------------------------------------------------
(* The controller.                                                         *)

\* OnCommandFinished: who waited for input goes on waiting, for a resume.
CommandFinished ==
  IF ctl.state = "WAIT_INPUT"
    THEN ctl
    ELSE [ctl EXCEPT !.state = "IDLE", !.lastPromptMsg = "none", !.lastStepMsg = "none", !.lastStepStatus = "none"]

\* Execute and OnExecStart, which forgets neither the last prompt nor the last step.
Execute ==
  /\ ~running /\ direct = <<>>
  /\ Counts
  /\ running' = TRUE
  /\ \E r \in BOOLEAN : ctl' = [ctl EXCEPT !.state = "THINKING", !.resumable = r]
  /\ late' = FALSE
  /\ direct' = <<State("THINKING")>>
  /\ Met(sinkQueue, direct', hands)
  /\ UNCHANGED <<leaving, hands, sinkQueue, ball, agentState, restored>>

\* SendInput and OnInputSent; a denied permission leaves the turn to the user.
InputSent(kind) ==
  /\ running /\ direct = <<>>
  /\ Counts
  /\ ctl' = [ctl EXCEPT !.state = IF kind = "deny" THEN "WAIT_INPUT" ELSE "THINKING"]
  /\ direct' = <<State(ctl'.state)>>
  /\ Met(sinkQueue, direct', hands)
  /\ UNCHANGED <<running, leaving, hands, sinkQueue, ball, agentState, restored, late>>

\* StopActive: the runner is let go at once, its process ends later.  The client is
\* told that it stopped before the controller hears that the command has finished.
StopActive ==
  /\ running /\ direct = <<>>
  /\ running' = FALSE /\ leaving' = TRUE
  /\ hands' = [i \in DOMAIN hands |-> [hands[i] EXCEPT !.stopped = TRUE]]
  /\ direct' = <<Other("session"), Other("finished")>>
  /\ Met(sinkQueue, direct', hands)
  /\ UNCHANGED <<ctl, sinkQueue, ball, agentState, restored, late, emitted>>

StopFinishes ==
  /\ direct # <<>> /\ Head(direct).kind = "finished"
  /\ ctl' = CommandFinished
  /\ direct' = <<State(ctl'.state)>>
  /\ UNCHANGED <<running, leaving, hands, sinkQueue, ball, agentState, restored, late, crossed, emitted>>

\* stderr goes through the generic parser, which finds steps, diffs and log lines.
EmittedBy(r) == {"diff", "step", "line"} \cup IF r = "stdout" THEN {"reply", "session", "prompt"} ELSE {}

\* A runner's reader emits an event: the sink has it before the controller.
RunnerEmits(r, b) ==
  /\ IF b THEN leaving ELSE running
  /\ \A i \in DOMAIN hands : ~(hands[i].reader = r /\ hands[i].stopped = b)
  /\ Counts
  /\ \E k \in EmittedBy(r) :
     \E m \in IF k \in {"prompt", "step"} THEN Messages ELSE {"none"},
        st \in IF k = "step" THEN StepStatuses ELSE {"none"} :
       /\ hands' = Append(hands, Hand(r, b, Other(k), m, st))
       /\ sinkQueue' = Append(sinkQueue, Other(k))
  /\ Met(sinkQueue', direct, hands')
  /\ UNCHANGED <<running, leaving, ctl, direct, ball, agentState, restored, late>>

RepeatedPrompt(h) == h.message = ctl.lastPromptMsg /\ ctl.state = "WAIT_INPUT"
RepeatedStep(h) == h.message = ctl.lastStepMsg /\ h.status \in {ctl.lastStepStatus, ""}

\* OnRunnerEvent, and OnCommandFinished when the run has ended; a log line may be
\* the prompt of an AI that was thinking.
Heard(h) ==
  CASE h.event.kind = "session" -> [ctl EXCEPT !.resumable = TRUE]
    [] h.event.kind = "diff" -> [ctl EXCEPT !.state = "RUNNING_TOOL"]
    [] h.event.kind = "prompt" -> [ctl EXCEPT !.state = "WAIT_INPUT", !.lastPromptMsg = h.message]
    [] h.event.kind = "step" ->
         IF RepeatedStep(h) THEN ctl
         ELSE [ctl EXCEPT !.lastStepMsg = h.message, !.lastStepStatus = h.status,
                          !.state = IF h.status = "done" THEN @ ELSE "RUNNING_TOOL"]
    [] h.event.kind = "line" -> [ctl EXCEPT !.state = IF @ = "THINKING" THEN "WAIT_INPUT" ELSE @]
    [] h.event.kind = "finished" -> CommandFinished
    [] OTHER -> ctl

\* What is said of it: nothing of a repeated prompt and a repeated or finished step.
Tells(h) ==
  \/ h.event.kind \in {"diff", "finished"}
  \/ h.event.kind = "prompt" /\ ~RepeatedPrompt(h)
  \/ h.event.kind = "step" /\ ~RepeatedStep(h) /\ h.status # "done"
  \/ h.event.kind = "line" /\ ctl.state = "THINKING"

ControllerHears(i) ==
  /\ hands[i].event.kind # "state"
  /\ ctl' = Heard(hands[i])
  /\ hands' = IF Tells(hands[i])
                THEN [hands EXCEPT ![i] = Hand(@.reader, @.stopped, State(ctl'.state), "none", "none")]
                ELSE RemoveAt(hands, i)
  /\ late' = (late \/ hands[i].stopped)
  /\ UNCHANGED <<running, leaving, sinkQueue, direct, ball, agentState, restored, crossed, emitted>>

\* What the controller said goes into the sink.
RunnerTells(i) ==
  /\ hands[i].event.kind = "state"
  /\ sinkQueue' = Append(sinkQueue, hands[i].event)
  /\ hands' = RemoveAt(hands, i)
  /\ Met(sinkQueue', direct, hands')
  /\ UNCHANGED <<running, leaving, ctl, direct, ball, agentState, restored, late, emitted>>

\* Run returns when its readers have: finishIfCurrent, and OnCommandFinished after it.
RunEnds ==
  /\ running
  /\ \A i \in DOMAIN hands : hands[i].stopped \/ hands[i].reader \notin Readers
  /\ running' = FALSE
  /\ hands' = Append(hands, Hand("run", FALSE, Other("finished"), "none", "none"))
  /\ Met(sinkQueue, direct, hands')
  /\ UNCHANGED <<leaving, ctl, sinkQueue, direct, ball, agentState, restored, late, emitted>>

\* It was not current any more.
StoppedRunEnds ==
  /\ leaving
  /\ \A i \in DOMAIN hands : ~hands[i].stopped \/ hands[i].reader \notin Readers
  /\ leaving' = FALSE
  /\ UNCHANGED <<running, hands, ctl, sinkQueue, direct, ball, agentState, restored, late, crossed, emitted>>

-----------------------------------------------------------------------------
(* The processor.                                                          *)

\* Fault: a visible reply settles the status whatever the controller does.
AIStatusReplySettles(e) ==
  CASE e.kind = "state" -> Busy(e.state)
    [] e.kind \in {"prompt", "reply"} -> FALSE
    [] e.kind = "session" -> Busy(ctl.state)
    [] OTHER -> ball

\* AIStatusEventForBackendEvent, with what it leaves unsaid.
AIStatus(e) ==
  CASE e.kind = "state" -> Busy(e.state)
    [] e.kind = "prompt" -> FALSE
    [] e.kind = "reply" -> IF Busy(ctl.state) THEN ball ELSE FALSE
    [] e.kind = "session" -> Busy(ctl.state)
    [] OTHER -> ball

Process(e) ==
  /\ ball' = AIStatus(e)
  /\ agentState' = IF e.kind = "state" THEN e.state ELSE agentState
  /\ restored' = FALSE
  /\ UNCHANGED <<running, leaving, hands, ctl, late, crossed, emitted>>

SinkProcesses == sinkQueue # <<>> /\ Process(Head(sinkQueue)) /\ sinkQueue' = Tail(sinkQueue) /\ UNCHANGED direct
ConnProcesses ==
  /\ direct # <<>> /\ Head(direct).kind # "finished"
  /\ Process(Head(direct)) /\ direct' = Tail(direct) /\ UNCHANGED sinkQueue

\* RestoredAgentStateEventFromRecord, the record's controller being the live
\* one: without a runner nothing is busy, and a conversation can be taken up.
RestoredState ==
  IF Busy(ctl.state) /\ ~running
    THEN IF ctl.resumable THEN "WAIT_INPUT" ELSE "IDLE"
    ELSE ctl.state

\* session_load.  Of a session that is idle and cannot be taken up nothing is said.
SessionLoad ==
  /\ direct = <<>>
  /\ IF RestoredState = "IDLE" /\ ~ctl.resumable
       THEN UNCHANGED <<agentState, ball, restored>>
       ELSE agentState' = RestoredState /\ ball' = Busy(RestoredState) /\ restored' = TRUE
  /\ UNCHANGED <<running, leaving, hands, ctl, sinkQueue, direct, late, crossed, emitted>>

StatusNext ==
  \/ Execute \/ StopActive \/ StopFinishes \/ RunEnds \/ StoppedRunEnds
  \/ \E k \in {"input", "allow", "deny"} : InputSent(k)
  \/ \E r \in Readers, b \in BOOLEAN : RunnerEmits(r, b)
  \/ \E i \in DOMAIN hands : ControllerHears(i) \/ RunnerTells(i)
  \/ SinkProcesses \/ ConnProcesses \/ SessionLoad

StatusSpec == StatusInit /\ [][StatusNext]_statusVars

-----------------------------------------------------------------------------
(* Properties.                                                             *)

StatusTypeOK ==
  /\ running \in BOOLEAN /\ leaving \in BOOLEAN /\ ball \in BOOLEAN
  /\ {ctl.state, agentState} \subseteq {"IDLE", "THINKING", "WAIT_INPUT", "RUNNING_TOOL"}
  /\ {ctl.lastPromptMsg, ctl.lastStepMsg} \subseteq Messages \cup {"none"}

\* Once everything emitted has been processed, the ball is lit exactly while the
\* controller is busy, which it is for a running command only: no reply that
\* streams puts it out, no repeated prompt or step leaves it lit, no stop and no
\* load of the session disturbs it.  What breaks it is an event of a stopped runner,
\* and an event that one goroutine carried past another's: the connection's, either
\* reader's and that of the run's end.  And a client that came back and has been told
\* nothing since is not shown a command at work when there is none and no event is on
\* its way that says so: not even one that a stopped runner's event has brought back
\* to life.
BallFollowsCommand ==
  /\ (hands = <<>> /\ sinkQueue = <<>> /\ direct = <<>> /\ ~crossed /\ ~late) =>
       ball = Busy(ctl.state) /\ (Busy(ctl.state) => running)
  /\ (restored /\ Busy(agentState)) => running \/ hands # <<>> \/ sinkQueue # <<>> \/ direct # <<>>
=============================================================================
