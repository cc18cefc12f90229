------------------------ MODULE SessionServiceProofs ------------------------
(***************************************************************************)
(* A session's service and its runners, for any number of callers,         *)
(* stoppers and runs: no process outlives its place in the service without *)
(* a kill on its way, and Cleanup returns when what it found is over.      *)
(***************************************************************************)
EXTENDS SessionService, WellFoundedInduction, TLAPS

Working == {"start", "attach", "settle", "wait"}

\* Where a run, its process goroutine and its process can be, together.
RunOK(r) ==
  /\ r \in unclaimed => kind[r] = "lazy"
  /\ kind[r] = "none" => run[r] = "none"
  /\ kind[r] # "lazy" /\ run[r] \in {"none", "registered", "go"} => eng[r] = "none"
  /\ kind[r] \in OnRunGoroutine /\ eng[r] \in Working => run[r] = "own"
  /\ kind[r] = "stream" /\ eng[r] \in Working =>
       run[r] = "serve" \/ r \in cancelled \/ (eng[r] = "wait" /\ ~Live(r))
  /\ kind[r] # "lazy" /\ Live(r) => eng[r] \in Working \ {"start"} \/ r \in cancelled

RunnersOK == RunnerTypeOK /\ \A r \in Runs : RunOK(r)

\* A run is active, or is cancelled, or somebody has taken it to kill it.
Owned(r) ==
  \/ active = r
  \/ r \in cancelled
  \/ \E c \in Clients : got[c] = r /\ pc[c] \in {"kill", "close"}

RunsOwned == \A r \in Runs : run[r] \in {"registered", "go", "serve", "own", "returned"} => Owned(r)

\* What a client in the middle of a call holds.
ClientsOK ==
  \A c \in Clients :
    /\ pc[c] \in {"launch", "kill", "close", "write", "first", "bind"} => got[c] \in Runs
    /\ pc[c] \in {"write", "first", "bind"} => kind[got[c]] = "lazy"
    /\ pc[c] = "launch" => execMu = c /\ run[got[c]] = "registered"

\* execMu covers the window between manager.start and execWG.Add, so that a
\* Cleanup that begins finds no run in it.
WindowCovered ==
  /\ \A r \in Runs : run[r] = "registered" => \E c \in Clients : pc[c] = "launch" /\ got[c] = r
  /\ \A c \in Clients : \A r \in before[c] : run[r] \notin {"none", "registered"}

ServiceInv == RunnersOK /\ ServiceTypeOK /\ RunsOwned /\ ClientsOK /\ WindowCovered

LEMMA KindsKnown ==
  ASSUME RunnerTypeOK, NEW r \in Runs
  PROVE  kind[r] \in OnRunGoroutine \cup {"stream", "lazy", "none"}
BY RunnerAssumption DEF RunnerTypeOK, OnRunGoroutine

LEMMA NoClientZero == 0 \notin Clients
BY ServiceAssumption DEF Clients

LEMMA NoRunZero == 0 \notin Runs
BY RunnerAssumption DEF Runs

LEMMA InitServiceInv == ServiceInit => ServiceInv
<1> SUFFICES ASSUME ServiceInit PROVE ServiceInv
  OBVIOUS
<1> USE DEF ServiceInit, RunnerInit
<1>1. RunnerTypeOK
  BY DEF RunnerTypeOK
<1>2. \A r \in Runs : RunOK(r)
  BY DEF RunOK, Live, OnRunGoroutine
<1>3. ServiceTypeOK
  BY <1>1 DEF ServiceTypeOK
<1>4. RunsOwned /\ ClientsOK /\ WindowCovered
  BY DEF RunsOwned, ClientsOK, WindowCovered
<1> QED  BY <1>1, <1>2, <1>3, <1>4 DEF ServiceInv, RunnersOK

-----------------------------------------------------------------------------
(* The steps of a run.                                                     *)

\* A run goes forward, from the goroutine's start to Run's return.
Forward ==
  /\ kind' = kind /\ cancelled' = cancelled
  /\ \A q \in Runs : \/ run'[q] = run[q]
                     \/ run[q] \in {"go", "serve", "own"} /\ run'[q] \in {"serve", "own", "returned"}

\* The other runs are as they were.
Apart(r) ==
  \A q \in Runs : q # r =>
    /\ kind'[q] = kind[q] /\ run'[q] = run[q] /\ eng'[q] = eng[q] /\ proc'[q] = proc[q]
    /\ (q \in cancelled <=> q \in cancelled') /\ (q \in unclaimed <=> q \in unclaimed')

LEMMA ApartOK ==
  ASSUME NEW r \in Runs, \A q \in Runs : RunOK(q), Apart(r), RunOK(r)'
  PROVE  \A q \in Runs : RunOK(q)'
BY DEF Apart, RunOK, Live

LEMMA RunSteps ==
  ASSUME RunnersOK, NEW r \in Runs, RunStep(r)
  PROVE  RunnersOK' /\ Forward
<1> USE DEF RunnersOK
<1>1. CASE RunEnters(r)
  <2>1. /\ run[r] = "go" /\ run' = [run EXCEPT ![r] = IF kind[r] \in OnRunGoroutine THEN "own" ELSE "serve"]
        /\ eng' = IF kind[r] = "lazy" THEN eng ELSE [eng EXCEPT ![r] = "start"]
        /\ closed' = closed \ {r}
        /\ unclaimed' = IF kind[r] = "lazy" THEN unclaimed \cup {r} ELSE unclaimed
        /\ UNCHANGED <<kind, proc, cancelled, interactive, attached, forgotten, unbound, wd>>
    BY <1>1 DEF RunEnters
  <2>2. RunnerTypeOK'
    BY <2>1 DEF RunnerTypeOK
  <2>3. RunOK(r)'
    BY <2>1, KindsKnown DEF RunOK, RunnerTypeOK, Live, OnRunGoroutine, Working
  <2>4. Apart(r)
    BY <2>1 DEF Apart, RunnerTypeOK
  <2>5. Forward
    BY <2>1 DEF Forward, RunnerTypeOK
  <2> QED  BY <2>2, <2>3, <2>4, <2>5, ApartOK
<1>2. CASE RunReturns(r)
  <2>1. /\ run[r] = "serve"
        /\ r \in cancelled \/ eng[r] = "ended"
        /\ run' = [run EXCEPT ![r] = "returned"]
        /\ unclaimed' \in {unclaimed, unclaimed \ {r}}
        /\ UNCHANGED <<kind, eng, proc, cancelled, unbound>>
    BY <1>2 DEF RunReturns, Clear
  <2>2. RunnerTypeOK'
    <3>1. /\ closed' \subseteq closed \cup {r} /\ interactive' \subseteq interactive
          /\ attached' \subseteq attached /\ unclaimed' \subseteq unclaimed
          /\ forgotten' \subseteq forgotten \cup {r} /\ wd' \in {wd, [wd EXCEPT ![r] = "off"]}
      BY <1>2 DEF RunReturns, Clear
    <3> QED  BY <2>1, <3>1 DEF RunnerTypeOK
  <2>3. RunOK(r)'
    BY <1>2, <2>1, KindsKnown DEF RunReturns, RunOK, RunnerTypeOK, Live, OnRunGoroutine, Working
  <2>4. Apart(r)
    BY <2>1 DEF Apart, RunnerTypeOK
  <2>5. Forward
    BY <1>2, <2>1 DEF RunReturns, Forward, RunnerTypeOK
  <2> QED  BY <2>2, <2>3, <2>4, <2>5, ApartOK
<1> QED  BY <1>1, <1>2 DEF RunStep

LEMMA PanicStep ==
  ASSUME RunnersOK, NEW r \in Runs, RunPanics(r)
  PROVE  RunnersOK' /\ Forward
<1> USE DEF RunnersOK
<1>1. /\ run[r] \in {"serve", "own"} /\ (kind[r] = "stream" => eng[r] = "wait")
      /\ run' = [run EXCEPT ![r] = "returned"]
      /\ eng' = IF run[r] = "own" THEN [eng EXCEPT ![r] = "ended"] ELSE eng
      /\ proc' = [proc EXCEPT ![r] = IF Live(r) /\ kind[r] # "lazy" THEN "adrift" ELSE proc[r]]
      /\ closed' \subseteq closed \cup {r} /\ interactive' \subseteq interactive
      /\ attached' \subseteq attached /\ unclaimed' \in {unclaimed, unclaimed \ {r}}
      /\ forgotten' \subseteq forgotten \cup {r} /\ wd' \in {wd, [wd EXCEPT ![r] = "off"]}
      /\ UNCHANGED <<kind, cancelled, unbound>>
  BY DEF RunPanics, Clear
<1>2. RunnerTypeOK'
  BY <1>1 DEF RunnerTypeOK
<1>3. RunOK(r)'
  BY <1>1, KindsKnown DEF RunOK, RunnerTypeOK, Live, OnRunGoroutine, Working
<1>4. Apart(r) /\ Forward
  BY <1>1 DEF Apart, Forward, RunnerTypeOK
<1> QED  BY <1>2, <1>3, <1>4, ApartOK

LEMMA EngineSteps ==
  ASSUME RunnersOK, NEW r \in Runs, EngineStep(r)
  PROVE  RunnersOK' /\ Forward
<1> USE DEF RunnersOK
<1>1. CASE EngineStarts(r)
  <2>1. /\ eng[r] = "start" /\ r \notin cancelled
        /\ proc' = [proc EXCEPT ![r] = "talking"] /\ eng' = [eng EXCEPT ![r] = "attach"]
        /\ UNCHANGED <<kind, run, flagVars, wd>>
    BY <1>1 DEF EngineStarts
  <2>2. RunnerTypeOK'
    BY <2>1 DEF RunnerTypeOK, flagVars
  <2>3. RunOK(r)'
    BY <2>1, KindsKnown DEF RunOK, RunnerTypeOK, Live, OnRunGoroutine, Working, flagVars
  <2>4. Apart(r) /\ Forward
    BY <2>1 DEF Apart, Forward, RunnerTypeOK, flagVars
  <2> QED  BY <2>2, <2>3, <2>4, ApartOK
<1>2. CASE EngineAttaches(r) \/ EngineSettles(r)
  <2>1. /\ eng[r] \in {"attach", "settle"}
        /\ \E n \in {"settle", "wait"} : eng' = [eng EXCEPT ![r] = n]
        /\ closed' \subseteq closed /\ attached' \subseteq attached \cup {r}
        /\ interactive' \subseteq interactive \cup {r}
        /\ \E w \in {"on", "off", wd[r]} : wd' = [wd EXCEPT ![r] = w]
        /\ UNCHANGED <<kind, run, proc, cancelled, unclaimed, forgotten, unbound>>
    BY <1>2 DEF EngineAttaches, EngineSettles, RunnerTypeOK
  <2>2. RunnerTypeOK'
    BY <2>1 DEF RunnerTypeOK
  <2>3. RunOK(r)'
    BY <2>1, KindsKnown DEF RunOK, RunnerTypeOK, Live, OnRunGoroutine, Working
  <2>4. Apart(r) /\ Forward
    BY <2>1 DEF Apart, Forward, RunnerTypeOK
  <2> QED  BY <2>2, <2>3, <2>4, ApartOK
<1>3. CASE EngineStartFails(r) \/ EngineGivesUp(r) \/ EngineReaps(r)
  <2>1. /\ eng[r] = "start" \/ r \in cancelled \/ proc[r] = "dead"
        /\ eng[r] \in Working
        /\ eng' = [eng EXCEPT ![r] = "ended"]
        /\ run' = IF kind[r] \in OnRunGoroutine THEN [run EXCEPT ![r] = "returned"] ELSE run
        /\ unclaimed' \in {unclaimed, unclaimed \ {r}}
        /\ closed' \subseteq closed \cup {r} /\ interactive' \subseteq interactive
        /\ attached' \subseteq attached /\ forgotten' \subseteq forgotten \cup {r}
        /\ wd' \in {wd, [wd EXCEPT ![r] = "off"]}
        /\ UNCHANGED <<kind, proc, cancelled, unbound>>
    BY <1>3 DEF EngineStartFails, EngineGivesUp, EngineReaps, Ends, Clear, Working, flagVars
  <2>2. RunnerTypeOK'
    BY <2>1 DEF RunnerTypeOK
  <2>3. RunOK(r)'
    BY <2>1, KindsKnown DEF RunOK, RunnerTypeOK, Live, OnRunGoroutine, Working
  <2>4. Apart(r)
    BY <2>1 DEF Apart, RunnerTypeOK
  <2>5. Forward
    BY <2>1 DEF RunOK, Forward, RunnerTypeOK
  <2> QED  BY <2>2, <2>3, <2>4, <2>5, ApartOK
<1>4. CASE HandshakeFails(r)
  <2>1. /\ eng[r] = "attach" /\ kind[r] = "codex"
        /\ proc' = [proc EXCEPT ![r] = "dead"]
        /\ eng' = [eng EXCEPT ![r] = "ended"]
        /\ run' = [run EXCEPT ![r] = "returned"]
        /\ UNCHANGED <<kind, flagVars, wd>>
    BY <1>4 DEF HandshakeFails, Ends, OnRunGoroutine
  <2>2. RunnerTypeOK'
    BY <2>1 DEF RunnerTypeOK, flagVars
  <2>3. RunOK(r)'
    BY <2>1 DEF RunOK, RunnerTypeOK, Live, OnRunGoroutine, Working, flagVars
  <2>4. Apart(r) /\ Forward
    BY <2>1 DEF RunOK, Apart, Forward, RunnerTypeOK, OnRunGoroutine, Working, flagVars
  <2> QED  BY <2>2, <2>3, <2>4, ApartOK
<1> QED  BY <1>1, <1>2, <1>3, <1>4 DEF EngineStep

LEMMA ProcessSteps ==
  ASSUME RunnersOK, NEW r \in Runs, ContextKills(r) \/ WatchdogStep(r) \/ ProcessActs(r)
  PROVE  RunnersOK' /\ Forward
<1> USE DEF RunnersOK
<1>1. /\ \E p \in {"talking", "silent", "dead", proc[r]} :
           proc' = [proc EXCEPT ![r] = p] /\ (p \in {"talking", "silent"} => Live(r))
      /\ closed' \subseteq closed \cup {r}
      /\ \E w \in {"on", "off", "abort", wd[r]} : wd' = [wd EXCEPT ![r] = w]
      /\ UNCHANGED <<kind, run, eng, cancelled, interactive, attached, unclaimed, forgotten, unbound>>
  <2>1. CASE ContextKills(r)
    BY <2>1 DEF ContextKills, flagVars, RunnerTypeOK, Alive
  <2>2. CASE WatchdogSees(r)
    BY <2>2 DEF WatchdogSees, flagVars, RunnerTypeOK, Live
  <2>3. CASE WatchdogAborts(r)
    BY <2>3 DEF WatchdogAborts, ClosedProc, RunnerTypeOK, Live, Alive
  <2>4. CASE ProcessActs(r)
    BY <2>4 DEF ProcessActs, flagVars, RunnerTypeOK
  <2> QED  BY <2>1, <2>2, <2>3, <2>4 DEF WatchdogStep
<1>2. RunnerTypeOK'
  BY <1>1 DEF RunnerTypeOK
<1>3. RunOK(r)'
  BY <1>1 DEF RunOK, RunnerTypeOK, Live
<1>4. Apart(r) /\ Forward
  BY <1>1 DEF Apart, Forward, RunnerTypeOK
<1> QED  BY <1>2, <1>3, <1>4, ApartOK

\* Where a run goes forward, the service keeps its invariant.
LEMMA ForwardKeeps ==
  ASSUME ServiceInv, RunnersOK', Forward, UNCHANGED svcVars
  PROVE  ServiceInv'
<1> USE DEF ServiceInv, svcVars
<1>1. ServiceTypeOK'
  BY DEF ServiceTypeOK, RunnersOK, Forward
<1>2. RunsOwned'
  <2>1. \A r \in Runs : Owned(r) => Owned(r)'
    BY DEF Owned, Forward
  <2> QED  BY <2>1 DEF RunsOwned, Forward
<1>3. ClientsOK'
  BY DEF ClientsOK, Forward
<1>4. WindowCovered'
  BY DEF WindowCovered, Forward, ServiceTypeOK
<1> QED  BY <1>1, <1>2, <1>3, <1>4
-----------------------------------------------------------------------------
(* The service's calls.                                                    *)

Below == {p \in Nat \X Nat : p[1] < p[2]}

\* A set of runs that is not empty has a first one.
LEMMA FirstRun ==
  ASSUME NEW T \in SUBSET Nat, T # {}
  PROVE  \E x \in T : \A y \in T : x <= y
<1>1. IsWellFoundedOn(Below, Nat)
  BY NatLessThanWellFounded DEF Below, OpToRel
<1>2. PICK x \in T : \A y \in T : ~ (<<y, x>> \in Below)
  BY <1>1, WFMin
<1>3. \A y \in T : y < x => <<y, x>> \in Below
  <2> SUFFICES ASSUME NEW y \in T, y < x PROVE <<y, x>> \in Below
    OBVIOUS
  <2>1. <<y, x>> \in Nat \X Nat
    OBVIOUS
  <2> QED  BY <2>1 DEF Below
<1>4. \A y \in T : x \in Int /\ y \in Int
  OBVIOUS
<1>5. \A y \in T : ~ (y < x)
  BY <1>2, <1>3
<1>6. \A y \in T : x <= y
  BY <1>4, <1>5
<1> QED  BY <1>6

LEMMA RegistersStep ==
  ASSUME ServiceInv, NEW c \in Clients, pc[c] = "idle", NEW k \in Kinds \cup {"resume"}, Registers(c, k)
  PROVE  ServiceInv'
<1> USE DEF ServiceInv, RunnersOK
<1> DEFINE first == CHOOSE u \in Unused : \A v \in Unused : u <= v
<1>1. PICK r \in Runs : r = first /\ kind[r] = "none"
  <2>1. Unused \in SUBSET Nat /\ Unused # {}
    BY RunnerAssumption DEF Registers, Unused, Runs
  <2>2. \E u \in Unused : \A v \in Unused : u <= v
    BY <2>1, FirstRun
  <2>3. first \in Unused
    BY <2>2
  <2> HIDE DEF first
  <2> QED  BY <2>3 DEF Unused
<1>2. /\ execMu = 0 /\ active = 0
      /\ kind' = [kind EXCEPT ![r] = k]
      /\ run' = [run EXCEPT ![r] = "registered"]
      /\ active' = r
      /\ pc' = [pc EXCEPT ![c] = "launch"]
      /\ got' = [got EXCEPT ![c] = r]
      /\ execMu' = c
      /\ UNCHANGED <<eng, proc, flagVars, wd, wg, before>>
  BY <1>1 DEF Registers, Moves
<1> HIDE DEF first
<1>3. run[r] = "none" /\ r \in Runs
  BY <1>1 DEF RunOK
<1>4. RunnerTypeOK'
  BY <1>1, <1>2 DEF RunnerTypeOK, flagVars
<1>5. RunOK(r)'
  <2>1. eng[r] = "none" /\ r \notin unclaimed /\ kind'[r] = k /\ k # "none"
    BY <1>1, <1>2, <1>3, RunnerAssumption DEF RunOK, RunnerTypeOK
  <2>2. Live(r) => r \in cancelled
    BY <1>1, <2>1 DEF RunOK, Working
  <2> QED  BY <1>2, <1>3, <2>1, <2>2 DEF RunOK, Live, Working, RunnerTypeOK, flagVars
<1>6. Apart(r)
  BY <1>2 DEF Apart, RunnerTypeOK, flagVars
<1>7. RunnersOK'
  BY <1>1, <1>4, <1>5, <1>6, ApartOK
<1>8. ServiceTypeOK'
  <2>1. wg' = {q \in Runs : run'[q] \in {"go", "serve", "own", "returned", "finished"}}
    BY <1>2, <1>3 DEF ServiceTypeOK, RunnerTypeOK
  <2> QED  BY <1>2, <1>3, <1>4, <2>1 DEF ServiceTypeOK
<1>9. \A d \in Clients : d # c => pc'[d] = pc[d] /\ got'[d] = got[d]
  BY <1>2 DEF ServiceTypeOK
<1>10. pc'[c] = "launch" /\ got'[c] = r
  BY <1>2 DEF ServiceTypeOK
<1>11. RunsOwned'
  <2> SUFFICES ASSUME NEW q \in Runs, run'[q] \in {"registered", "go", "serve", "own", "returned"}
               PROVE  Owned(q)'
    BY DEF RunsOwned
  <2>1. CASE q = r
    BY <1>2, <2>1 DEF Owned
  <2>2. CASE q # r
    <3>1. Owned(q)
      BY <1>2, <2>2 DEF RunsOwned, RunnerTypeOK
    <3> QED  BY <1>2, <1>9, <3>1, NoRunZero DEF Owned, flagVars
  <2> QED  BY <2>1, <2>2
<1>12. ClientsOK'
  <2>1. \A d \in Clients : pc[d] # "launch"
    BY <1>2, NoClientZero DEF ClientsOK
  <2>2. \A q \in Runs : kind[q] = "lazy" => kind'[q] = "lazy"
    BY <1>1, <1>2 DEF RunnerTypeOK
  <2>3. run'[r] = "registered"
    BY <1>2, <1>3 DEF RunnerTypeOK
  <2> QED  BY <1>2, <1>3, <1>9, <1>10, <2>1, <2>2, <2>3 DEF ClientsOK
<1>13. WindowCovered'
  <2>1. \A d \in Clients : \A q \in before'[d] : q \in Runs /\ q # r /\ run'[q] = run[q]
    BY <1>2, <1>3 DEF WindowCovered, ServiceTypeOK, RunnerTypeOK
  <2>2. \A q \in Runs : run'[q] = "registered" => q = r \/ run[q] = "registered"
    BY <1>2 DEF RunnerTypeOK
  <2>3. \A q \in Runs : run[q] # "registered"
    BY <1>2, NoClientZero DEF WindowCovered, ClientsOK
  <2> QED  BY <1>2, <1>10, <2>1, <2>2, <2>3 DEF WindowCovered
<1> QED  BY <1>7, <1>8, <1>11, <1>12, <1>13

LEMMA LaunchStep ==
  ASSUME ServiceInv, NEW c \in Clients, Launch(c)
  PROVE  ServiceInv'
<1> USE DEF ServiceInv, RunnersOK
<1>0. PICK r \in Runs : r = got[c]
  BY DEF Launch, ClientsOK
<1>1. /\ pc[c] = "launch"
      /\ wg' = wg \cup {r}
      /\ run' = [run EXCEPT ![r] = "go"]
      /\ execMu' = 0
      /\ pc' = [pc EXCEPT ![c] = "idle"]
      /\ got' = [got EXCEPT ![c] = 0]
      /\ UNCHANGED <<kind, eng, proc, flagVars, wd, active, before>>
  BY <1>0 DEF Launch, Moves
<1>2. r \in Runs /\ run[r] = "registered" /\ execMu = c
  BY <1>0, <1>1 DEF ClientsOK
<1>3. RunnerTypeOK'
  BY <1>1 DEF RunnerTypeOK, flagVars
<1>4. RunOK(r)'
  BY <1>1, <1>2 DEF RunOK, Live, Working, RunnerTypeOK, flagVars
<1>5. Apart(r)
  BY <1>1 DEF Apart, RunnerTypeOK, flagVars
<1>6. RunnersOK'
  BY <1>2, <1>3, <1>4, <1>5, ApartOK
<1>7. ServiceTypeOK'
  <2>1. wg' = {q \in Runs : run'[q] \in {"go", "serve", "own", "returned", "finished"}}
    BY <1>1, <1>2 DEF ServiceTypeOK, RunnerTypeOK
  <2> QED  BY <1>1, <1>3, <2>1 DEF ServiceTypeOK
<1>8. /\ \A d \in Clients : d # c => pc'[d] = pc[d] /\ got'[d] = got[d]
      /\ pc'[c] = "idle"
  BY <1>1 DEF ServiceTypeOK
<1>9. RunsOwned'
  <2>1. \A q \in Runs : Owned(q) => Owned(q)'
    BY <1>1, <1>8 DEF Owned, flagVars
  <2>2. \A q \in Runs : run'[q] # run[q] => q = r
    BY <1>1 DEF RunnerTypeOK
  <2> QED  BY <1>2, <2>1, <2>2 DEF RunsOwned
<1>10. \A d \in Clients : pc[d] = "launch" => d = c
  BY <1>2 DEF ClientsOK
<1>11. ClientsOK'
  BY <1>1, <1>8, <1>10 DEF ClientsOK
<1>12. WindowCovered'
  <2>1. \A q \in Runs : run'[q] = IF q = r THEN "go" ELSE run[q]
    BY <1>1 DEF RunnerTypeOK
  <2>2. \A q \in Runs : run'[q] # "registered"
    BY <1>0, <1>10, <2>1 DEF WindowCovered
  <2> QED  BY <1>1, <2>1, <2>2 DEF WindowCovered, ServiceTypeOK
<1> QED  BY <1>6, <1>7, <1>9, <1>11, <1>12

LEMMA EndingSteps ==
  ASSUME ServiceInv, NEW r \in Runs, Ending(r)
  PROVE  ServiceInv'
<1> USE DEF ServiceInv, RunnersOK
<1>1. /\ \/ run[r] = "returned" /\ run' = [run EXCEPT ![r] = "finished"] /\ wg' = wg
         \/ run[r] = "finished" /\ run' = [run EXCEPT ![r] = "done"] /\ wg' = wg \ {r}
      /\ active' = active \/ (active = r /\ active' = 0 /\ run[r] = "returned")
      /\ UNCHANGED <<kind, eng, proc, flagVars, wd, execMu, pc, got, before>>
  BY DEF Ending, Finish, Done
<1>2. RunnerTypeOK'
  BY <1>1 DEF RunnerTypeOK, flagVars
<1>3. RunOK(r)'
  BY <1>1, KindsKnown DEF RunOK, Live, RunnerTypeOK, flagVars
<1>4. Apart(r)
  BY <1>1 DEF Apart, RunnerTypeOK, flagVars
<1>5. RunnersOK'
  BY <1>2, <1>3, <1>4, ApartOK
<1>6. ServiceTypeOK'
  <2>1. wg' = {q \in Runs : run'[q] \in {"go", "serve", "own", "returned", "finished"}}
    BY <1>1 DEF ServiceTypeOK, RunnerTypeOK
  <2> QED  BY <1>1, <1>2, <2>1 DEF ServiceTypeOK
<1>7. \A q \in Runs : run'[q] = run[q] \/ (q = r /\ run'[q] \in {"finished", "done"})
  BY <1>1 DEF RunnerTypeOK
<1>8. RunsOwned'
  <2>1. \A q \in Runs : Owned(q) => Owned(q)' \/ q = r
    BY <1>1 DEF Owned, flagVars
  <2>2. run'[r] \in {"finished", "done"}
    BY <1>1 DEF RunnerTypeOK
  <2> QED  BY <1>7, <2>1, <2>2 DEF RunsOwned
<1>9. ClientsOK'
  BY <1>1, <1>7 DEF ClientsOK
<1>10. WindowCovered'
  BY <1>1, <1>7 DEF WindowCovered, ServiceTypeOK
<1> QED  BY <1>5, <1>6, <1>8, <1>9, <1>10

\* A step in which a client c moves on and runs only gain a cancellation.
LEMMA ClientMoves ==
  ASSUME ServiceInv, RunnersOK', NEW c \in Clients, pc[c] \notin {"launch"},
         NEW place \in {"idle", "stop", "kill", "close", "wait", "write", "first", "bind"},
         NEW r \in Runs \cup {0}, Moves(c, place, r),
         place \in {"kill", "close", "write", "first", "bind"} => r \in Runs,
         place \in {"write", "first", "bind"} => kind[r] = "lazy",
         UNCHANGED <<kind, run, wg>>,
         cancelled \subseteq cancelled',
         active' = active \/ (active' = 0 /\ (active = 0 \/ (place \in {"kill", "close"} /\ r = active))),
         pc[c] \in {"kill", "close"} => got[c] \in cancelled',
         execMu' = execMu \/ (execMu = 0 /\ execMu' = c) \/ (execMu = c /\ execMu' = 0),
         before' \in [Clients -> SUBSET Runs],
         \A d \in Clients : \A q \in before'[d] : run[q] \notin {"none", "registered"}
  PROVE  ServiceInv'
<1> USE DEF ServiceInv
<1>1. /\ \A d \in Clients : d # c => pc'[d] = pc[d] /\ got'[d] = got[d]
      /\ pc'[c] = place /\ got'[c] = r
  BY DEF Moves, ServiceTypeOK
<1>2. ServiceTypeOK'
  <2>1. pc' \in [Clients -> {"idle", "launch", "stop", "kill", "close", "wait", "write", "first", "bind"}]
    BY DEF Moves, ServiceTypeOK
  <2>2. got' \in [Clients -> Runs \cup {0}]
    BY DEF Moves, ServiceTypeOK
  <2> QED  BY <2>1, <2>2 DEF ServiceTypeOK, RunnersOK
<1>3. RunsOwned'
  <2>1. \A q \in Runs : Owned(q) => Owned(q)'
    <3> SUFFICES ASSUME NEW q \in Runs, Owned(q) PROVE Owned(q)'
      OBVIOUS
    <3>1. CASE active = q
      BY <1>1, <3>1, NoRunZero DEF Owned
    <3>2. CASE q \in cancelled
      BY <3>2 DEF Owned
    <3>3. ASSUME NEW d \in Clients, got[d] = q, pc[d] \in {"kill", "close"} PROVE Owned(q)'
      BY <1>1, <3>3 DEF Owned
    <3> QED  BY <3>1, <3>2, <3>3 DEF Owned
  <2> QED  BY <2>1 DEF RunsOwned
<1>4. ClientsOK'
  <2>1. \A d \in Clients : pc[d] = "launch" => d # c /\ execMu' = execMu
    BY NoClientZero DEF ClientsOK
  <2> QED  BY <1>1, <2>1 DEF ClientsOK
<1>5. WindowCovered'
  BY <1>1 DEF WindowCovered
<1> QED  BY <1>2, <1>3, <1>4, <1>5

LEMMA RunnersUntouched ==
  ASSUME RunnersOK, UNCHANGED runnerVars
  PROVE  RunnersOK'
BY DEF RunnersOK, RunnerTypeOK, RunOK, Live, runnerVars, flagVars

\* Cancel and Close of a run, whatever it has become.
LEMMA CancelKeepsRunners ==
  ASSUME RunnersOK, NEW r \in Runs, CancelAndClose(r),
         UNCHANGED <<kind, run, eng, interactive, attached, unclaimed, forgotten, unbound, wd>>
  PROVE  RunnersOK' /\ cancelled' = cancelled \cup {r}
<1> USE DEF RunnersOK
<1>1. /\ cancelled' = cancelled \cup {r} /\ closed' = closed \cup {r}
      /\ \E p \in {"dead", proc[r]} : proc' = [proc EXCEPT ![r] = p]
  BY DEF CancelAndClose, ClosedProc
<1>2. RunnerTypeOK'
  BY <1>1 DEF RunnerTypeOK
<1>3. RunOK(r)'
  BY <1>1 DEF RunOK, Live, RunnerTypeOK
<1>4. Apart(r)
  BY <1>1 DEF Apart, RunnerTypeOK
<1> QED  BY <1>1, <1>2, <1>3, <1>4, ApartOK

LEMMA StopperSteps ==
  ASSUME ServiceInv, NEW c \in Clients,
         StopLook(c) \/ StopTake(c) \/ Kill(c) \/ Cleanup(c) \/ CleanupCloses(c) \/ CleanupReturns(c)
  PROVE  ServiceInv'
<1> USE DEF ServiceInv
<1>0. /\ active \in Runs \cup {0} /\ before \in [Clients -> SUBSET Runs]
      /\ \A d \in Clients : \A q \in before[d] : run[q] \notin {"none", "registered"}
      /\ UNCHANGED runnerVars => RunnersOK'
      /\ 0 \notin Runs
  BY RunnersUntouched, NoRunZero DEF ServiceTypeOK, WindowCovered
<1>1. CASE StopLook(c)
  BY <1>0, <1>1, ClientMoves DEF StopLook, runnerVars, flagVars
<1>2. CASE StopTake(c)
  <2>1. CASE active = 0
    BY <1>0, <1>2, <2>1, ClientMoves DEF StopTake, runnerVars, flagVars
  <2>2. CASE active # 0
    BY <1>0, <1>2, <2>2, ClientMoves DEF StopTake, runnerVars, flagVars
  <2> QED  BY <2>1, <2>2
<1>3. CASE Kill(c)
  <2>1. got[c] \in Runs
    BY <1>3 DEF Kill, ClientsOK
  <2>2. RunnersOK' /\ cancelled' = cancelled \cup {got[c]}
    BY <1>3, <2>1, CancelKeepsRunners DEF Kill
  <2> QED  BY <1>0, <1>3, <2>2, ClientMoves DEF Kill
<1>4. CASE Cleanup(c)
  \* Nobody is in the window while execMu is free.
  <2>1. \A q \in Runs : run[q] # "registered"
    BY <1>4, NoClientZero DEF Cleanup, WindowCovered, ClientsOK
  <2>2. before' = [before EXCEPT ![c] = Undone]
    BY <1>4 DEF Cleanup
  <2>3. \A q \in Undone : q \in Runs /\ run[q] \notin {"none", "registered"}
    BY <2>1 DEF Undone
  <2>4. before' \in [Clients -> SUBSET Runs]
    BY <1>0, <2>2, <2>3
  <2>5. \A d \in Clients : \A q \in before'[d] : run[q] \notin {"none", "registered"}
    BY <1>0, <2>2, <2>3
  <2>6. CASE active = 0
    BY <1>0, <1>4, <2>4, <2>5, <2>6, ClientMoves DEF Cleanup, runnerVars, flagVars
  <2>7. CASE active # 0
    BY <1>0, <1>4, <2>4, <2>5, <2>7, ClientMoves DEF Cleanup, runnerVars, flagVars
  <2> QED  BY <2>6, <2>7
<1>5. CASE CleanupCloses(c)
  <2>1. got[c] \in Runs
    BY <1>5 DEF CleanupCloses, ClientsOK
  <2>2. RunnersOK' /\ cancelled' = cancelled \cup {got[c]}
    BY <1>5, <2>1, CancelKeepsRunners DEF CleanupCloses
  <2> QED  BY <1>0, <1>5, <2>2, ClientMoves DEF CleanupCloses
<1>6. CASE CleanupReturns(c)
  <2>1. before' = [before EXCEPT ![c] = {}]
    BY <1>6 DEF CleanupReturns
  <2>2. /\ before' \in [Clients -> SUBSET Runs]
        /\ \A d \in Clients : \A q \in before'[d] : run[q] \notin {"none", "registered"}
    BY <1>0, <2>1
  <2> QED  BY <1>0, <1>6, <2>2, ClientMoves DEF CleanupReturns, runnerVars, flagVars
<1> QED  BY <1>1, <1>2, <1>3, <1>4, <1>5, <1>6

LEMMA InputSteps ==
  ASSUME ServiceInv, NEW c \in Clients,
         InputLook(c) \/ Write(c) \/ FirstInput(c) \/ FirstBinds(c) \/ SenderLeaves(c)
  PROVE  ServiceInv'
<1> USE DEF ServiceInv
<1>0. /\ active \in Runs \cup {0} /\ before \in [Clients -> SUBSET Runs]
      /\ \A d \in Clients : \A q \in before[d] : run[q] \notin {"none", "registered"}
      /\ UNCHANGED runnerVars => RunnersOK'
      /\ 0 \notin Runs
  BY RunnersUntouched, NoRunZero DEF ServiceTypeOK, WindowCovered
<1>1. CASE InputLook(c)
  BY <1>0, <1>1, ClientMoves DEF InputLook, runnerVars, flagVars
<1>2. ASSUME pc[c] \in {"write", "first", "bind"}
      PROVE  got[c] \in Runs /\ kind[got[c]] = "lazy"
  BY <1>2 DEF ClientsOK
\* The process of a lazy run is nobody's concern here but its own.
<1>3. ASSUME NEW r \in Runs, kind[r] = "lazy",
             ClaimFirst(r) \/ FirstStarts(r) \/ FirstStartFails(r) \/ FirstAttaches(r)
               \/ FirstHandshakeFails(r)
      PROVE  RunnersOK' /\ UNCHANGED <<kind, run, cancelled>>
  <2>1. /\ UNCHANGED <<kind, run, cancelled, forgotten>>
        /\ \E e \in {"ended", "wait", eng[r]} : eng' = [eng EXCEPT ![r] = e]
        /\ \E p \in {"talking", "dead", proc[r]} : proc' = [proc EXCEPT ![r] = p]
        /\ unclaimed' \subseteq unclaimed /\ \A q \in Runs : q # r => (q \in unclaimed <=> q \in unclaimed')
        /\ closed' \subseteq closed /\ interactive' \subseteq interactive \cup {r}
        /\ attached' \subseteq attached \cup {r} /\ unbound' \subseteq unbound \cup {r}
        /\ wd' = wd
    BY <1>3 DEF ClaimFirst, FirstStarts, FirstStartFails, FirstAttaches, FirstHandshakeFails, flagVars,
              RunnersOK, RunnerTypeOK
  <2>2. RunnerTypeOK'
    BY <2>1 DEF RunnersOK, RunnerTypeOK
  <2>3. RunOK(r)'
    BY <1>3, <2>1 DEF RunOK, RunnersOK, RunnerTypeOK, OnRunGoroutine
  <2>4. Apart(r)
    BY <2>1 DEF Apart, RunnersOK, RunnerTypeOK
  <2> QED  BY <2>1, <2>2, <2>3, <2>4, ApartOK DEF RunnersOK
<1>4. CASE Write(c)
  <2>1. got[c] \in Runs /\ kind[got[c]] = "lazy" /\ pc[c] = "write"
    BY <1>2, <1>4 DEF Write
  <2>2. CASE got[c] \in unclaimed
    <3>1. RunnersOK' /\ UNCHANGED <<kind, run, cancelled>>
      BY <1>3, <1>4, <2>1, <2>2 DEF Write
    <3> QED  BY <1>0, <1>4, <2>1, <2>2, <3>1, ClientMoves DEF Write
  <2>3. CASE got[c] \notin unclaimed
    BY <1>0, <1>4, <2>1, <2>3, ClientMoves DEF Write, runnerVars, flagVars
  <2> QED  BY <2>2, <2>3
<1>5. CASE FirstInput(c)
  <2>1. got[c] \in Runs /\ kind[got[c]] = "lazy" /\ pc[c] = "first"
    BY <1>2, <1>5 DEF FirstInput
  <2>2. RunnersOK' /\ UNCHANGED <<kind, run, cancelled>>
    BY <1>3, <1>5, <2>1 DEF FirstInput
  <2> QED  BY <1>0, <1>5, <2>1, <2>2, ClientMoves DEF FirstInput
<1>6. CASE FirstBinds(c) \/ SenderLeaves(c)
  <2>1. got[c] \in Runs /\ kind[got[c]] = "lazy" /\ pc[c] = "bind"
    BY <1>2, <1>6 DEF FirstBinds, SenderLeaves
  <2>2. RunnersOK' /\ UNCHANGED <<kind, run, cancelled>>
    BY <1>3, <1>6, <2>1 DEF FirstBinds, SenderLeaves
  <2> QED  BY <1>0, <1>6, <2>1, <2>2, ClientMoves DEF FirstBinds, SenderLeaves
<1> QED  BY <1>1, <1>4, <1>5, <1>6

LEMMA NextServiceInv == ServiceInv /\ [Next]_vars => ServiceInv'
<1> SUFFICES ASSUME ServiceInv, [Next]_vars PROVE ServiceInv'
  OBVIOUS
<1>1. CASE UNCHANGED vars
  <2>1. RunnersOK'
    BY <1>1, RunnersUntouched DEF ServiceInv, vars
  <2> QED  BY <1>1, <2>1, ForwardKeeps DEF vars, runnerVars, flagVars, Forward
<1>2. ASSUME NEW c \in Callers, Execute(c) \/ Resume(c) PROVE ServiceInv'
  <2>1. c \in Clients /\ pc[c] = "idle"
    BY <1>2 DEF Clients, Execute, Resume
  <2>2. \E k \in Kinds \cup {"resume"} : Registers(c, k)
    <3>1. \A r \in Runs : kind[r] \in Kinds \cup {"none", "resume"}
      BY DEF ServiceInv, RunnersOK, RunnerTypeOK
    <3>2. ResumedKinds \subseteq Kinds \cup {"resume"}
      BY <3>1 DEF ResumedKinds, AIRuns
    <3> QED  BY <1>2, <3>2 DEF Execute, Resume, Prepared
  <2> QED  BY <2>1, <2>2, RegistersStep
<1>3. ASSUME NEW c \in Callers, InputLook(c) \/ SenderLeaves(c) PROVE ServiceInv'
  BY <1>3, InputSteps DEF Clients
<1>4. ASSUME NEW c \in Stoppers, StopLook(c) \/ Cleanup(c) PROVE ServiceInv'
  BY <1>4, StopperSteps DEF Clients
<1>5. ASSUME NEW c \in Clients, ClientProceeds(c) PROVE ServiceInv'
  BY <1>5, LaunchStep, StopperSteps, InputSteps DEF ClientProceeds
<1>6. ASSUME NEW r \in Runs, RunProceeds(r) \/ ProcessGoes(r) \/ Panic(r) PROVE ServiceInv'
  <2>1. CASE Ending(r)
    BY <2>1, EndingSteps
  <2>2. CASE RunGoes(r) \/ EngineGoes(r) \/ ContextGoes(r) \/ WatchdogGoes(r) \/ ProcessGoes(r) \/ Panic(r)
    <3>1. RunnersOK' /\ Forward /\ UNCHANGED svcVars
      BY <2>2, RunSteps, PanicStep, EngineSteps, ProcessSteps
      DEF ServiceInv, RunGoes, EngineGoes, ContextGoes, WatchdogGoes, ProcessGoes, Panic
    <3> QED  BY <3>1, ForwardKeeps
  <2> QED  BY <1>6, <2>1, <2>2 DEF RunProceeds
<1> QED  BY <1>1, <1>2, <1>3, <1>4, <1>5, <1>6 DEF Next

\* What manager.go and the PTY runner keep of runs, runners and execWG between any
\* two steps of the callers and the runs' goroutines.
THEOREM ServiceInvariance == FairSpec => []ServiceInv
<1>1. ServiceInit => ServiceInv
  BY InitServiceInv
<1>2. ServiceInv /\ [Next]_vars => ServiceInv'
  BY NextServiceInv
<1> QED  BY <1>1, <1>2, PTL DEF FairSpec

\* execWG counts the runs whose goroutine has been started and has not called
\* Done: the WaitGroup of manager.go is never ahead of or behind them.
THEOREM ServiceTypeCorrect == FairSpec => []ServiceTypeOK
<1>1. ServiceInv => ServiceTypeOK
  BY DEF ServiceInv
<1> QED  BY <1>1, ServiceInvariance, PTL

\* manager.start admits one runner at a time and closeActive takes one away to
\* cancel and close it: no process runs that the service has lost sight of, but
\* for a codex started by a late first input and the process of a run that panicked.
THEOREM NoProcessLost == FairSpec => []NoOrphanProcess
<1>1. ServiceInv => NoOrphanProcess
  <2> SUFFICES ASSUME ServiceInv, NEW r \in Runs, Live(r), kind[r] # "lazy"
               PROVE  Owned(r)
    BY DEF NoOrphanProcess, Owned
  <2>1. RunOK(r) /\ RunnerTypeOK
    BY DEF ServiceInv, RunnersOK
  <2>2. r \in cancelled \/ run[r] \in {"serve", "own"}
    BY <2>1, KindsKnown DEF RunOK, Working, RunnerTypeOK, Live
  <2> QED  BY <2>2 DEF ServiceInv, RunsOwned, Owned
<1> QED  BY <1>1, ServiceInvariance, PTL

\* Cleanup holds execMu until it has closed the active runner and then waits
\* for execWG: what was registered before it is done when it returns, so
\* EntryRegistry may call onCleanup and forget the session.
THEOREM CleanupIsComplete == FairSpec => CleanupWaits
<1>1. ServiceInv /\ [Next]_vars =>
        [\A c \in Clients : pc[c] = "wait" /\ pc'[c] = "idle" => \A r \in before[c] : run[r] = "done"]_vars
  <2> SUFFICES ASSUME ServiceInv, Next, NEW c \in Clients, pc[c] = "wait", pc'[c] = "idle"
               PROVE  \A r \in before[c] : run[r] = "done"
    OBVIOUS
  <2>1. pc \in [Clients -> {"idle", "launch", "stop", "kill", "close", "wait", "write", "first", "bind"}]
    BY DEF ServiceInv, ServiceTypeOK
  <2>3. CleanupReturns(c)
    <3>1. pc' # pc
      OBVIOUS
    <3>2. ASSUME NEW d \in Callers, Execute(d) \/ Resume(d) \/ InputLook(d) \/ SenderLeaves(d) PROVE FALSE
      BY <2>1, <3>2 DEF Execute, Resume, InputLook, SenderLeaves, Registers, Moves, Clients
    <3>3. ASSUME NEW d \in Stoppers, StopLook(d) \/ Cleanup(d) PROVE FALSE
      BY <2>1, <3>3 DEF StopLook, Cleanup, Moves, Clients
    <3>4. ASSUME NEW d \in Clients, ClientProceeds(d) PROVE CleanupReturns(c)
      BY <2>1, <3>4 DEF ClientProceeds, Launch, StopTake, Kill, CleanupCloses, CleanupReturns, Write,
                        FirstInput, FirstBinds, Moves
    <3>5. ASSUME NEW r \in Runs, RunProceeds(r) \/ ProcessGoes(r) \/ Panic(r) PROVE FALSE
      BY <3>1, <3>5 DEF RunProceeds, ProcessGoes, Panic, RunGoes, EngineGoes, ContextGoes, WatchdogGoes,
                        Ending, Finish, Done, svcVars
    <3> QED  BY <3>2, <3>3, <3>4, <3>5 DEF Next
  <2>4. wg = {}
    BY <2>3 DEF CleanupReturns
  <2> SUFFICES ASSUME NEW r \in before[c] PROVE run[r] = "done"
    OBVIOUS
  <2>5. r \in Runs /\ run[r] \notin {"none", "registered"}
    BY DEF ServiceInv, WindowCovered, ServiceTypeOK
  <2>6. run[r] \notin {"go", "serve", "own", "returned", "finished"}
    BY <2>4, <2>5 DEF ServiceInv, ServiceTypeOK
  <2> QED  BY <2>5, <2>6 DEF ServiceInv, RunnersOK, RunnerTypeOK
<1> QED  BY <1>1, ServiceInvariance, PTL DEF FairSpec, CleanupWaits

=============================================================================
