----------------------------- MODULE PtyRunner ------------------------------
(***************************************************************************)
(* The runners of engine/pty_engine.go and engine/exec_engine.go: how a    *)
(* run's child process comes to life, is watched and is stopped.           *)
(*                                                                         *)
(* Which goroutine starts the process depends on the command (Kinds):      *)
(*   "exec"    Run itself; nothing watches its silence (also a shell       *)
(*             command on a terminal)                                      *)
(*   "resume"  Run itself (claude --resume --print)                        *)
(*   "tty"     Run itself, interactive at once (claude --resume)           *)
(*   "codex"   Run itself (codex with a prompt)                            *)
(*   "stream"  a goroutine of Run's, Run waits until it is interactive     *)
(*   "lazy"    whoever sends the first input (codex without a prompt)      *)
(* A codex is not known to Close, nor watched, before it has answered the  *)
(* handshake (newCodexAppSession).  Close is called by the session service *)
(* and by the stall watchdog; the run's context is cancelled by the        *)
(* service alone.                                                          *)
(***************************************************************************)
EXTENDS Integers, FiniteSets

CONSTANTS
  Kinds,      \* subset of {"exec", "resume", "tty", "codex", "stream", "lazy"}
  MaxRuns     \* bound: runs started

ASSUME RunnerAssumption ==
  /\ Kinds \subseteq {"exec", "resume", "tty", "codex", "stream", "lazy"}
  /\ MaxRuns \in Nat

Runs == 1 .. MaxRuns

VARIABLES
  kind,         \* kind[r]: the command's kind, "none" before it is executed
  run,          \* run[r]: where the goroutine of Service.Execute is
  eng,          \* eng[r]: where the goroutine that owns the process is
  proc,         \* proc[r]: the process: "none", "talking", "silent", "adrift", "dead"
  cancelled,    \* runs whose runCtx is cancelled
  closed,       \* runs with closed set
  interactive,  \* runs with interactive set
  attached,     \* runs whose cmd, writer and closer are set
  unclaimed,    \* lazy runs with lazyStart set
  forgotten,    \* runs whose clearGeneration has taken runCtx away
  unbound,      \* runs whose process was started under context.Background()
  wd            \* wd[r]: the stall watchdog: "off", "on", "abort"

flagVars == <<cancelled, closed, interactive, attached, unclaimed, forgotten, unbound>>
runnerVars == <<kind, run, eng, proc, flagVars, wd>>

Live(r) == proc[r] \in {"talking", "silent"}
Alive(r) == Live(r) \/ proc[r] = "adrift"
Watched == {"resume", "tty", "codex", "stream"}
OnRunGoroutine == {"exec", "resume", "tty", "codex"}

RunnerInit ==
  /\ kind = [r \in Runs |-> "none"]
  /\ run = [r \in Runs |-> "none"]
  /\ eng = [r \in Runs |-> "none"]
  /\ proc = [r \in Runs |-> "none"]
  /\ cancelled = {} /\ closed = {} /\ interactive = {} /\ attached = {}
  /\ unclaimed = {} /\ forgotten = {} /\ unbound = {}
  /\ wd = [r \in Runs |-> "off"]

-----------------------------------------------------------------------------
(* Run.                                                                    *)

\* Run as far as its wait (until it is ready for input, then until the process
\* ends); a Close that came before is forgotten.
RunEnters(r) ==
  /\ run[r] = "go"
  /\ closed' = closed \ {r}
  /\ run' = [run EXCEPT ![r] = IF kind[r] \in OnRunGoroutine THEN "own" ELSE "serve"]
  /\ eng' = IF kind[r] = "lazy" THEN eng ELSE [eng EXCEPT ![r] = "start"]
  /\ unclaimed' = IF kind[r] = "lazy" THEN unclaimed \cup {r} ELSE unclaimed
  /\ UNCHANGED <<kind, proc, cancelled, interactive, attached, forgotten, unbound, wd>>

\* clearGeneration.
Clear(r) ==
  /\ closed' = closed \cup {r}
  /\ interactive' = interactive \ {r}
  /\ attached' = attached \ {r}
  /\ unclaimed' = unclaimed \ {r}
  /\ forgotten' = forgotten \cup {r}
  /\ wd' = [wd EXCEPT ![r] = "off"]

\* Fault: Run waits for its process alone.
RunReturnsLate(r) ==
  /\ run[r] = "serve"
  /\ eng[r] = "ended"
  /\ run' = [run EXCEPT ![r] = "returned"]
  /\ Clear(r)
  /\ UNCHANGED <<kind, eng, proc, cancelled, unbound>>

\* The context ends, or processDone is closed.  Run's own generation is over
\* once the process goroutine has taken the next one, and its clear is void.
RunReturns(r) ==
  /\ run[r] = "serve"
  /\ r \in cancelled \/ eng[r] = "ended"
  /\ run' = [run EXCEPT ![r] = "returned"]
  /\ IF kind[r] = "lazy" \/ eng[r] = "start"
       THEN Clear(r)
       ELSE UNCHANGED <<closed, interactive, attached, unclaimed, forgotten, wd>>
  /\ UNCHANGED <<kind, eng, proc, cancelled, unbound>>

\* A panic on the goroutine of Service.Execute, which recovers from it: Run's
\* deferred clear is all that still happens to the runner.  The context is not
\* cancelled: a process that runs is set adrift.  (Run only waits while a
\* stream comes up, and once a lazy run has announced that it is ready.)
RunPanics(r) ==
  /\ run[r] \in {"serve", "own"}
  /\ kind[r] = "stream" => eng[r] = "wait"
  /\ kind[r] = "lazy" => eng[r] = "none"
  /\ run' = [run EXCEPT ![r] = "returned"]
  /\ eng' = IF run[r] = "own" THEN [eng EXCEPT ![r] = "ended"] ELSE eng
  /\ IF \/ run[r] = "own" /\ eng[r] \notin {"start", "attach"}
        \/ kind[r] = "lazy"
       THEN Clear(r)
       ELSE UNCHANGED <<closed, interactive, attached, unclaimed, forgotten, wd>>
  /\ proc' = [proc EXCEPT ![r] = IF Live(r) /\ kind[r] # "lazy" THEN "adrift" ELSE @]
  /\ UNCHANGED <<kind, cancelled, unbound>>

-----------------------------------------------------------------------------
(* The goroutine that owns the process.                                    *)

\* Where the goroutine is Run's, Run returns with it; else processDone closes.
Ends(r) ==
  /\ eng' = [eng EXCEPT ![r] = "ended"]
  /\ run' = IF kind[r] \in OnRunGoroutine THEN [run EXCEPT ![r] = "returned"] ELSE run

\* exec.Cmd.Start refuses a context that has ended, and may fail otherwise.
EngineStarts(r) ==
  /\ eng[r] = "start"
  /\ r \notin cancelled
  /\ proc' = [proc EXCEPT ![r] = "talking"]
  /\ eng' = [eng EXCEPT ![r] = "attach"]
  /\ UNCHANGED <<kind, run, flagVars, wd>>

EngineStartFails(r) ==
  /\ eng[r] = "start"
  /\ Ends(r)
  /\ UNCHANGED <<kind, proc, flagVars, wd>>

\* A codex that says nothing is still waited for: initialize, thread/start.
HandshakeWaits(r) == kind[r] \in {"codex", "lazy"} /\ proc[r] = "silent"

\* Fault: the watchdog is started for streams only.
EngineAttachesUnwatched(r) ==
  /\ eng[r] = "attach"
  /\ ~HandshakeWaits(r)
  /\ attached' = attached \cup {r}
  /\ closed' = closed \ {r}
  /\ interactive' = IF kind[r] \in {"tty", "codex"} THEN interactive \cup {r} ELSE interactive
  /\ eng' = [eng EXCEPT ![r] = IF kind[r] \in {"stream", "resume"} THEN "settle" ELSE "wait"]
  /\ wd' = [wd EXCEPT ![r] = IF kind[r] = "stream" THEN "on" ELSE "off"]
  /\ UNCHANGED <<kind, run, proc, cancelled, unclaimed, forgotten, unbound>>

\* cmd, writer and closer become known to Close; closed is reset again, and
\* the watchdog starts.
EngineAttaches(r) ==
  /\ eng[r] = "attach"
  /\ ~HandshakeWaits(r)
  /\ attached' = attached \cup {r}
  /\ closed' = closed \ {r}
  /\ interactive' = IF kind[r] \in {"tty", "codex"} THEN interactive \cup {r} ELSE interactive
  /\ eng' = [eng EXCEPT ![r] = IF kind[r] \in {"stream", "resume"} THEN "settle" ELSE "wait"]
  /\ wd' = [wd EXCEPT ![r] = IF kind[r] \in Watched THEN "on" ELSE "off"]
  /\ UNCHANGED <<kind, run, proc, cancelled, unclaimed, forgotten, unbound>>

\* initialize or thread/start fails, is answered with an error, or its context
\* ends: the process is killed.
HandshakeFails(r) ==
  /\ eng[r] = "attach"
  /\ kind[r] = "codex"
  /\ ~HandshakeWaits(r) \/ r \in cancelled
  /\ proc' = [proc EXCEPT ![r] = "dead"]
  /\ Ends(r)
  /\ UNCHANGED <<kind, flagVars, wd>>

\* The 50 ms after the start: only the context is looked at, for cmdAlive
\* cannot see an exit before Wait.
EngineSettles(r) ==
  /\ eng[r] = "settle"
  /\ interactive' = interactive \cup {r}
  /\ eng' = [eng EXCEPT ![r] = "wait"]
  /\ UNCHANGED <<kind, run, proc, cancelled, closed, attached, unclaimed, forgotten, unbound, wd>>

EngineGivesUp(r) ==
  /\ eng[r] = "settle"
  /\ r \in cancelled
  /\ Ends(r)
  /\ Clear(r)
  /\ UNCHANGED <<kind, proc, cancelled, unbound>>

\* Wait returns.  finishLazyProcess closes processDone and leaves the rest to
\* Run.
EngineReaps(r) ==
  /\ eng[r] = "wait"
  /\ proc[r] = "dead"
  /\ Ends(r)
  /\ IF kind[r] = "lazy"
       THEN UNCHANGED <<closed, interactive, attached, unclaimed, forgotten, wd>>
       ELSE Clear(r)
  /\ UNCHANGED <<kind, proc, cancelled, unbound>>

-----------------------------------------------------------------------------
(* The first input of a lazy run, on the sender's goroutine.               *)

\* One writer takes lazyStart; the others find the runner not interactive.
ClaimFirst(r) ==
  /\ r \in unclaimed
  /\ unclaimed' = unclaimed \ {r}
  /\ UNCHANGED <<kind, run, eng, proc, cancelled, closed, interactive, attached, forgotten, unbound, wd>>

\* commandContext is context.Background() once Run has been cleared.
FirstStarts(r) ==
  /\ r \in forgotten \/ r \notin cancelled
  /\ proc' = [proc EXCEPT ![r] = "talking"]
  /\ unbound' = IF r \in forgotten THEN unbound \cup {r} ELSE unbound
  /\ UNCHANGED <<kind, run, eng, cancelled, closed, interactive, attached, unclaimed, forgotten, wd>>

FirstStartFails(r) ==
  /\ eng' = [eng EXCEPT ![r] = "ended"]
  /\ UNCHANGED <<kind, run, proc, flagVars, wd>>

FirstAttaches(r) ==
  /\ ~HandshakeWaits(r)
  /\ attached' = attached \cup {r}
  /\ closed' = closed \ {r}
  /\ interactive' = interactive \cup {r}
  /\ eng' = [eng EXCEPT ![r] = "wait"]
  /\ UNCHANGED <<kind, run, proc, cancelled, unclaimed, forgotten, unbound, wd>>

\* The handshake ends with an error, or the sender's context does.
FirstHandshakeFails(r) ==
  /\ proc' = [proc EXCEPT ![r] = "dead"]
  /\ eng' = [eng EXCEPT ![r] = "ended"]
  /\ UNCHANGED <<kind, run, flagVars, wd>>

-----------------------------------------------------------------------------
(* Close, the context and the watchdog.                                    *)

\* The process Close reaches, if it is known by then.
ClosedProc(r) == IF r \in attached /\ Alive(r) THEN "dead" ELSE proc[r]

\* os/exec kills the process of a context that has ended.
ContextKills(r) ==
  /\ Alive(r)
  /\ r \in cancelled \ unbound
  /\ proc' = [proc EXCEPT ![r] = "dead"]
  /\ UNCHANGED <<kind, run, eng, flagVars, wd>>

\* No output for stallWatchdogAbort, whoever is expected to speak; a watchdog
\* that finds its run closed or its context ended sees nothing any more.
WatchdogSees(r) ==
  /\ wd[r] = "on"
  /\ proc[r] \in {"silent", "adrift"}
  /\ r \notin closed \cup cancelled
  /\ wd' = [wd EXCEPT ![r] = "abort"]
  /\ UNCHANGED <<kind, run, eng, proc, flagVars>>

WatchdogAborts(r) ==
  /\ wd[r] = "abort"
  /\ closed' = closed \cup {r}
  /\ proc' = [proc EXCEPT ![r] = ClosedProc(r)]
  /\ wd' = [wd EXCEPT ![r] = "off"]
  /\ UNCHANGED <<kind, run, eng, cancelled, interactive, attached, unclaimed, forgotten, unbound>>

\* The process exits as it likes, and falls silent (it hangs, or waits for its
\* user) and speaks again; that is followed from its start, for a codex from its
\* handshake, to its stop or to a panic of its run.
ProcessActs(r) ==
  /\ Alive(r)
  /\ \/ proc' = [proc EXCEPT ![r] = "dead"]
     \/ /\ Live(r) /\ kind[r] # "exec" /\ r \notin cancelled
        /\ r \in attached \/ (kind[r] \in {"codex", "lazy"} /\ eng[r] \notin {"wait", "ended"})
        /\ proc' = [proc EXCEPT ![r] = IF proc[r] = "talking" THEN "silent" ELSE "talking"]
  /\ UNCHANGED <<kind, run, eng, flagVars, wd>>

-----------------------------------------------------------------------------

EngineStep(r) ==
  \/ EngineStarts(r) \/ EngineStartFails(r) \/ EngineAttaches(r) \/ HandshakeFails(r)
  \/ EngineSettles(r) \/ EngineGivesUp(r) \/ EngineReaps(r)

RunStep(r) == RunEnters(r) \/ RunReturns(r)

WatchdogStep(r) == WatchdogSees(r) \/ WatchdogAborts(r)

RunnerTypeOK ==
  /\ kind \in [Runs -> Kinds \cup {"none", "resume"}]
  /\ run \in [Runs -> {"none", "registered", "go", "serve", "own", "returned", "finished", "done"}]
  /\ eng \in [Runs -> {"none", "start", "attach", "settle", "wait", "ended"}]
  /\ proc \in [Runs -> {"none", "talking", "silent", "adrift", "dead"}]
  /\ \A S \in {cancelled, closed, interactive, attached, unclaimed, forgotten, unbound} : S \subseteq Runs
  /\ wd \in [Runs -> {"off", "on", "abort"}]
=============================================================================
