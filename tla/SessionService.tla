--------------------------- MODULE SessionService ---------------------------
(***************************************************************************)
(* session/manager.go: a session's service, which has at most one active   *)
(* runner and is called by several goroutines at once (the connection that *)
(* is attached, the one before it, push-delivered decisions, the registry  *)
(* that cleans the session up).  The runners are those of PtyRunner.       *)
(*                                                                         *)
(* Only Execute and Cleanup take execMu; StopActive and the input path     *)
(* look the runner up and use it later.                                    *)
(***************************************************************************)
EXTENDS PtyRunner

CONSTANTS
  Callers,      \* goroutines that execute and send input
  Stoppers      \* goroutines that stop the runner or clean the session up

ASSUME ServiceAssumption == 0 \notin Callers \cup Stoppers

Clients == Callers \cup Stoppers

VARIABLES
  active,   \* manager.activeRunner: a run, or 0
  execMu,   \* who holds execMu: a client, or 0
  wg,       \* execWG: the runs counted
  pc,       \* pc[c]: where client c is
  got,      \* got[c]: the runner c has looked up or taken, or 0
  before    \* history: before[c]: the runs c's Cleanup found not yet done

svcVars == <<active, execMu, wg, pc, got, before>>
vars == <<runnerVars, svcVars>>

ServiceInit ==
  /\ RunnerInit
  /\ active = 0 /\ execMu = 0 /\ wg = {}
  /\ pc = [c \in Clients |-> "idle"]
  /\ got = [c \in Clients |-> 0]
  /\ before = [c \in Clients |-> {}]

Unused == {r \in Runs : kind[r] = "none"}
Undone == {r \in Runs : run[r] \notin {"none", "done"}}

\* c's next place and the runner it carries there.
Moves(c, place, r) ==
  /\ pc' = [pc EXCEPT ![c] = place]
  /\ got' = [got EXCEPT ![c] = r]

-----------------------------------------------------------------------------
(* Execute.                                                                *)

\* execMu, and manager.start: refused while a runner is active.
Registers(c, k) ==
  /\ execMu = 0
  /\ active = 0
  /\ Unused # {}
  /\ LET r == CHOOSE u \in Unused : \A v \in Unused : u <= v
     IN /\ kind' = [kind EXCEPT ![r] = k]
        /\ run' = [run EXCEPT ![r] = "registered"]
        /\ active' = r
        /\ Moves(c, "launch", r)
  /\ execMu' = c
  /\ UNCHANGED <<eng, proc, flagVars, wd, wg, before>>

\* What prepareExecuteRequest makes of a request.  Bound: a behaviour executes
\* commands of one kind, and resumes.
Prepared == {k \in Kinds : \A r \in Runs : kind[r] \in {"none", k, "resume"}}

Execute(c) == pc[c] = "idle" /\ \E k \in Prepared : Registers(c, k)

\* AI sessions that have run and left the id they can be resumed by.
AIRuns == {r \in Runs : kind[r] \notin {"none", "exec"}}

\* buildDetachedResumeRequest: a claude gets --resume, and --print where it is
\* missing; a codex is resumed by the command it had, prompt included.
ResumedKinds ==
  {IF kind[r] \in {"lazy", "codex"} THEN kind[r] ELSE "resume" : r \in AIRuns}

\* SendInputOrResume, once SendInput has found no runner: an AI session that
\* ran before is resumed.  Its input is then sent again and again (InputLook)
\* until the new runner is ready.
Resume(c) ==
  /\ pc[c] = "idle"
  /\ \E k \in ResumedKinds : Registers(c, k)

\* execWG.Add and go; execMu is released.
Launch(c) ==
  /\ pc[c] = "launch"
  /\ wg' = wg \cup {got[c]}
  /\ run' = [run EXCEPT ![got[c]] = "go"]
  /\ execMu' = 0
  /\ Moves(c, "idle", 0)
  /\ UNCHANGED <<kind, eng, proc, flagVars, wd, active, before>>

\* Fault: the runner that ends takes whatever is active with it.
FinishAny(r) ==
  /\ run[r] = "returned"
  /\ run' = [run EXCEPT ![r] = "finished"]
  /\ active' = 0
  /\ UNCHANGED <<kind, eng, proc, flagVars, wd, execMu, wg, pc, got, before>>

\* Run has returned: finishIfCurrent.
Finish(r) ==
  /\ run[r] = "returned"
  /\ run' = [run EXCEPT ![r] = "finished"]
  /\ active' = IF active = r THEN 0 ELSE active
  /\ UNCHANGED <<kind, eng, proc, flagVars, wd, execMu, wg, pc, got, before>>

\* execWG.Done.
Done(r) ==
  /\ run[r] = "finished"
  /\ run' = [run EXCEPT ![r] = "done"]
  /\ wg' = wg \ {r}
  /\ UNCHANGED <<kind, eng, proc, flagVars, wd, active, execMu, pc, got, before>>

-----------------------------------------------------------------------------
(* StopActive and Cleanup.                                                 *)

\* StopActive reads the runner; what it stops is whatever is active later.
StopLook(c) ==
  /\ pc[c] = "idle"
  /\ active # 0
  /\ Moves(c, "stop", 0)
  /\ UNCHANGED <<runnerVars, active, execMu, wg, before>>

\* closeActive's critical section.
StopTake(c) ==
  /\ pc[c] = "stop"
  /\ active' = 0
  /\ IF active = 0 THEN Moves(c, "idle", 0) ELSE Moves(c, "kill", active)
  /\ UNCHANGED <<runnerVars, execMu, wg, before>>

\* Fault: Close without the cancel.
CloseOnly(r) ==
  /\ cancelled' = cancelled
  /\ closed' = closed \cup {r}
  /\ proc' = [proc EXCEPT ![r] = ClosedProc(r)]

\* cancel and Close, after the lock is released.
CancelAndClose(r) ==
  /\ cancelled' = cancelled \cup {r}
  /\ closed' = closed \cup {r}
  /\ proc' = [proc EXCEPT ![r] = ClosedProc(r)]

Kill(c) ==
  /\ pc[c] = "kill"
  /\ CancelAndClose(got[c])
  /\ Moves(c, "idle", 0)
  /\ UNCHANGED <<kind, run, eng, interactive, attached, unclaimed, forgotten, unbound, wd,
                 active, execMu, wg, before>>

\* Fault: closeActiveAndWait, which takes no execution lock.
CleanupUnlocked(c) ==
  /\ pc[c] = "idle"
  /\ execMu' = execMu
  /\ active' = 0
  /\ before' = [before EXCEPT ![c] = Undone]
  /\ IF active = 0 THEN Moves(c, "wait", 0) ELSE Moves(c, "close", active)
  /\ UNCHANGED <<runnerVars, wg>>

\* Cleanup, under execMu, as far as closeActive's critical section.
Cleanup(c) ==
  /\ pc[c] = "idle"
  /\ execMu = 0
  /\ active' = 0
  /\ before' = [before EXCEPT ![c] = Undone]
  /\ IF active = 0
       THEN Moves(c, "wait", 0) /\ execMu' = 0
       ELSE Moves(c, "close", active) /\ execMu' = c
  /\ UNCHANGED <<runnerVars, wg>>

CleanupCloses(c) ==
  /\ pc[c] = "close"
  /\ CancelAndClose(got[c])
  /\ execMu' = IF execMu = c THEN 0 ELSE execMu
  /\ Moves(c, "wait", 0)
  /\ UNCHANGED <<kind, run, eng, interactive, attached, unclaimed, forgotten, unbound, wd,
                 active, wg, before>>

\* execWG.Wait returns.
CleanupReturns(c) ==
  /\ pc[c] = "wait"
  /\ wg = {}
  /\ Moves(c, "idle", 0)
  /\ before' = [before EXCEPT ![c] = {}]
  /\ UNCHANGED <<runnerVars, active, execMu, wg>>

-----------------------------------------------------------------------------
(* SendInput, the decisions that are sent as input, SendInputOrResume.     *)

\* The runner is looked up; an input to one whose process runs, or that takes no
\* input, is passed on and changes nothing here.
InputLook(c) ==
  /\ pc[c] = "idle"
  /\ active # 0
  /\ kind[active] = "lazy"
  /\ Moves(c, "write", active)
  /\ UNCHANGED <<runnerVars, active, execMu, wg, before>>

\* Write to a runner that may have ended by now: the first input of a lazy one
\* starts its process; any other finds a session, or none.
Write(c) ==
  /\ pc[c] = "write"
  /\ IF got[c] \in unclaimed
       THEN ClaimFirst(got[c]) /\ Moves(c, "first", got[c])
       ELSE UNCHANGED runnerVars /\ Moves(c, "idle", 0)
  /\ UNCHANGED <<active, execMu, wg, before>>

FirstInput(c) ==
  /\ pc[c] = "first"
  /\ \/ FirstStarts(got[c]) /\ Moves(c, "bind", got[c])
     \/ FirstStartFails(got[c]) /\ Moves(c, "idle", 0)
  /\ UNCHANGED <<active, execMu, wg, before>>

FirstBinds(c) ==
  /\ pc[c] = "bind"
  /\ \/ FirstAttaches(got[c])
     \/ ~HandshakeWaits(got[c]) /\ FirstHandshakeFails(got[c])
  /\ Moves(c, "idle", 0)
  /\ UNCHANGED <<active, execMu, wg, before>>

\* The sender goes away while its codex is silent in the handshake.
SenderLeaves(c) ==
  /\ pc[c] = "bind"
  /\ HandshakeWaits(got[c])
  /\ FirstHandshakeFails(got[c])
  /\ Moves(c, "idle", 0)
  /\ UNCHANGED <<active, execMu, wg, before>>

-----------------------------------------------------------------------------

ClientProceeds(c) ==
  \/ Launch(c) \/ StopTake(c) \/ Kill(c) \/ CleanupCloses(c) \/ CleanupReturns(c)
  \/ Write(c) \/ FirstInput(c) \/ FirstBinds(c)


RunGoes(r) == RunStep(r) /\ UNCHANGED svcVars
EngineGoes(r) == EngineStep(r) /\ UNCHANGED svcVars
ContextGoes(r) == ContextKills(r) /\ UNCHANGED svcVars
WatchdogGoes(r) == WatchdogStep(r) /\ UNCHANGED svcVars
ProcessGoes(r) == ProcessActs(r) /\ UNCHANGED svcVars
Panic(r) == RunPanics(r) /\ UNCHANGED svcVars
Ending(r) == Finish(r) \/ Done(r)

\* Everything of a run but the process's own doings.
RunProceeds(r) ==
  RunGoes(r) \/ EngineGoes(r) \/ Ending(r) \/ ContextGoes(r) \/ WatchdogGoes(r)

Next ==
  \/ \E c \in Callers : Execute(c) \/ Resume(c) \/ InputLook(c) \/ SenderLeaves(c)
  \/ \E c \in Stoppers : StopLook(c) \/ Cleanup(c)
  \/ \E c \in Clients : ClientProceeds(c)
  \/ \E r \in Runs : RunProceeds(r) \/ ProcessGoes(r) \/ Panic(r)

\* Goroutines proceed; nobody is obliged to call or to leave, no run to panic and
\* no process to speak.  A
\* run takes finitely many steps of its own, so one condition per run is enough.
Fairness ==
  /\ \A c \in Clients : WF_vars(ClientProceeds(c))
  /\ \A r \in Runs : WF_vars(RunProceeds(r))

FairSpec == ServiceInit /\ [][Next]_vars /\ Fairness

-----------------------------------------------------------------------------
(* Properties.                                                             *)

\* The states the variables range over; execWG counts the goroutines of Execute.
ServiceTypeOK ==
  /\ RunnerTypeOK
  /\ active \in Runs \cup {0}
  /\ execMu \in Clients \cup {0}
  /\ wg = {r \in Runs : run[r] \in {"go", "serve", "own", "returned", "finished"}}
  /\ pc \in [Clients -> {"idle", "launch", "stop", "kill", "close", "wait", "write", "first",
                         "bind"}]
  /\ got \in [Clients -> Runs \cup {0}]
  /\ before \in [Clients -> SUBSET Runs]

\* A process that runs belongs to the active runner, or somebody is about to
\* kill it, or its context has ended: manager.start admits one runner at a time
\* and closeActive takes a runner away only to stop it.  Two cases are left out:
\* a codex that its first input starts, which can start after its run was stopped
\* (pty_engine.go:940), and a process that a panic of its run has set adrift, for
\* the recovery (manager.go:289-301) gives up the runner and stops nothing.
NoOrphanProcess ==
  \A r \in Runs : Live(r) /\ kind[r] # "lazy" =>
    \/ active = r
    \/ r \in cancelled
    \/ \E c \in Clients : got[c] = r /\ pc[c] \in {"kill", "close"}

\* When Cleanup returns, every run registered before it is over, so that the
\* registry may drop the session: execMu keeps it out of the window between
\* manager.start and execWG.Add.
CleanupWaits ==
  [][\A c \in Clients : pc[c] = "wait" /\ pc'[c] = "idle" =>
       \A r \in before[c] : run[r] = "done"]_vars

\* A stopped run comes to its end, process and goroutine, wherever the stop
\* found it: before Run began, while the process starts, while it serves.
StopTakesEffect ==
  \A r \in Runs : (r \in cancelled) ~> (run[r] = "done" /\ (Alive(r) => r \in unbound))

\* A watched process that falls silent speaks again, dies, or its watchdog
\* ends it.  The watchdog starts when the process is known to the runner: a codex
\* that is silent in its handshake has none yet, and a process set adrift may have
\* none any more.
HungEngineAborted ==
  \A r \in Runs :
    (proc[r] = "silent" /\ kind[r] \in Watched /\ r \in attached)
      ~> (proc[r] # "silent")

\* pty_engine.go:34: an engine, Claude or Codex, that gives no output for 120 s
\* is closed, however it was started, while it is the active runner's.
AnyHungEngineAborted ==
  \A r \in Runs :
    (proc[r] = "silent" /\ kind[r] # "exec" /\ r \in attached)
      ~> (proc[r] # "silent" \/ active # r)
=============================================================================
