-------------------------- MODULE SessionRegistry --------------------------
(***************************************************************************)
(* kernel/registry.go with the connections of gateway/gateway.go that use  *)
(* it.  A session has at most one registered runtime entry (its Service,   *)
(* sink and listeners).  A connection is attached to one session at a      *)
(* time.  Switching away from a session cleans its entry up on the         *)
(* connection's own goroutine when nobody else listens; a connection that  *)
(* drops arms a release timer instead.  Cleanups run outside the           *)
(* registry's mutex, next to new attachments and to the deletion of the    *)
(* session's record.                                                       *)
(***************************************************************************)
EXTENDS Integers, FiniteSets

CONSTANTS
  Conns,        \* websocket connections; a reconnection is another one
  Sessions,     \* session ids, created as the clients ask for them
  MaxEntries    \* bound: runtime entries ever made

ASSUME RegistryAssumption ==
  /\ IsFiniteSet(Conns) /\ IsFiniteSet(Sessions)
  /\ "no connection" \notin Conns /\ "no session" \notin Sessions
  /\ MaxEntries \in Nat
  /\ MaxEntries >= Cardinality(Conns)

VARIABLES
  registry,   \* registry[s]: the registered entry of s, 0 if none
  made,       \* entries made so far, numbered from 1
  sessionOf,  \* sessionOf[e]: the session e was made for
  listeners,  \* listeners[e]: connections that receive e's events
  timer,      \* the release timer is armed
  callbacks,  \* callbacks of e's release timers that have started, not run
  runner,     \* e's Service: "none", "running", "closing" (its context cancelled)
  sink,       \* the buffered sink: "none" until e is "open", "shut"
  sinkFn,     \* the connection whose closure processes e's events
  cleaning,   \* "no", then "sink", "service", "wait", "get", "put", "done"
  at,         \* connection: "ready", "leaving", "moving", "gone"
  selected,   \* selectedSessionID
  active,     \* activeRuntimeSession
  target,     \* the session a switch goes to
  task,       \* the entry whose cleanup the connection runs
  record      \* the session store: "absent", "stored", "deleted"

regVars == <<registry, made, sessionOf>>
lifeVars == <<listeners, timer, callbacks>>
svcVars == <<runner, sink, sinkFn>>
connVars == <<at, selected, active, target, task>>
registryVars == <<regVars, lifeVars, svcVars, cleaning, connVars, record>>

Entries == 1 .. MaxEntries
NoEntry == 0
NoSession == "no session"
NoConn == "no connection"

RegistryInit ==
  /\ registry = [s \in Sessions |-> NoEntry]
  /\ made = 0
  /\ sessionOf = [e \in Entries |-> NoSession]
  /\ listeners = [e \in Entries |-> {}]
  /\ timer = [e \in Entries |-> FALSE]
  /\ callbacks = [e \in Entries |-> 0]
  /\ runner = [e \in Entries |-> "none"]
  /\ sink = [e \in Entries |-> "none"]
  /\ sinkFn = [e \in Entries |-> NoConn]
  /\ cleaning = [e \in Entries |-> "no"]
  /\ at = [c \in Conns |-> "ready"]
  /\ selected = [c \in Conns |-> NoSession]
  /\ active = [c \in Conns |-> NoEntry]
  /\ target = [c \in Conns |-> NoSession]
  /\ task = [c \in Conns |-> NoEntry]
  /\ record = [s \in Sessions |-> "absent"]

Registered(e) == \E s \in Sessions : registry[s] = e

\* Bound: an entry is left for every switch under way.
Spare == Cardinality({c \in Conns : at[c] \in {"leaving", "moving"}}) < MaxEntries - made

\* ensureLocked: the entry of s, made if there is none.
EntryFor(s) == IF registry[s] = NoEntry THEN made + 1 ELSE registry[s]

Ensure(s) ==
  IF registry[s] # NoEntry
    THEN UNCHANGED regVars
    ELSE /\ made' = made + 1
         /\ registry' = [registry EXCEPT ![s] = made + 1]
         /\ sessionOf' = [sessionOf EXCEPT ![made + 1] = s]

-----------------------------------------------------------------------------
(* The handlers of a connection, one at a time on its goroutine.           *)

\* switchRuntimeSession to another session begins.
Depart(c, s) ==
  /\ Spare
  /\ at' = [at EXCEPT ![c] = "leaving"]
  /\ target' = [target EXCEPT ![c] = s]
  /\ UNCHANGED <<selected, active, task>>

\* session_create, under an id not used before.
Create(c) ==
  LET fresh == {s \in Sessions : record[s] = "absent"}
      s == CHOOSE x \in fresh : TRUE
  IN  /\ at[c] = "ready"
      /\ fresh # {}
      /\ record' = [record EXCEPT ![s] = "stored"]
      /\ Depart(c, s)
      /\ UNCHANGED <<regVars, lifeVars, svcVars, cleaning>>

\* session_load, session_delta_get and session_resume switch to a session whose
\* record is stored; exec, ai_turn, input, slash_command and permission_decision
\* to whichever session the client names.
Request(c, s) ==
  /\ at[c] = "ready"
  /\ record[s] # "absent"
  /\ s # selected[c]
  /\ Depart(c, s)
  /\ UNCHANGED <<regVars, lifeVars, svcVars, cleaning, record>>

\* session_delete: when it is the current one, the first of those left that the
\* list's filter shows is selected, or none.
Delete(c, s) ==
  /\ at[c] = "ready"
  /\ record[s] = "stored"
  /\ record' = [record EXCEPT ![s] = "deleted"]
  /\ IF s = selected[c]
       THEN LET left == {x \in Sessions \ {s} : record[x] = "stored"}
            IN  \E f \in left \cup {NoSession} : Depart(c, f)
       ELSE UNCHANGED connVars
  /\ UNCHANGED <<regVars, lifeVars, svcVars, cleaning>>

\* session_resume of the current session: its closure becomes the processor
\* of what an earlier command left or still sends (exec sets its own).
Resume(c) ==
  /\ at[c] = "ready"
  /\ selected[c] # NoSession
  /\ record[selected[c]] = "stored"
  /\ sinkFn[active[c]] # NoConn
  /\ sinkFn' = [sinkFn EXCEPT ![active[c]] = c]
  /\ UNCHANGED <<regVars, lifeVars, runner, sink, cleaning, connVars, record>>

\* exec, ai_turn: SetSink, then Execute, which fails while a command is running.
Exec(c) ==
  /\ at[c] = "ready"
  /\ selected[c] # NoSession
  /\ sinkFn' = [sinkFn EXCEPT ![active[c]] = IF sink[active[c]] = "open" THEN c ELSE @]
  /\ runner' = [runner EXCEPT ![active[c]] = IF @ = "none" THEN "running" ELSE @]
  /\ UNCHANGED <<regVars, lifeVars, sink, cleaning, connVars, record>>

\* Fault: Release starts the cleanup and drops the entry from the map later.
LeaveKeepsEntry(c) ==
  LET s == selected[c]
      e == IF s = NoSession THEN NoEntry ELSE registry[s]
      last == e # NoEntry /\ listeners[e] \subseteq {c}
  IN  /\ at[c] = "leaving"
      /\ at' = [at EXCEPT ![c] = "moving"]
      /\ listeners' = [x \in Entries |-> IF x = e THEN listeners[x] \ {c} ELSE listeners[x]]
      /\ cleaning' = [x \in Entries |-> IF last /\ x = e THEN "service" ELSE cleaning[x]]
      /\ task' = [task EXCEPT ![c] = IF last THEN e ELSE NoEntry]
      /\ UNCHANGED <<regVars, timer, callbacks, svcVars, selected, active, target, record>>

\* Release(previous, connection, true): the last listener takes the entry out
\* of the map, stops its timer, and goes on to Service.Cleanup.
Leave(c) ==
  LET s == selected[c]
      e == IF s = NoSession THEN NoEntry ELSE registry[s]
      last == e # NoEntry /\ listeners[e] \subseteq {c}
  IN  /\ at[c] = "leaving"
      /\ at' = [at EXCEPT ![c] = "moving"]
      /\ listeners' = [x \in Entries |-> IF x = e THEN listeners[x] \ {c} ELSE listeners[x]]
      /\ IF last
           THEN /\ registry' = [registry EXCEPT ![s] = NoEntry]
                /\ timer' = [timer EXCEPT ![e] = FALSE]
                /\ cleaning' = [cleaning EXCEPT ![e] = "service"]
                /\ task' = [task EXCEPT ![c] = e]
           ELSE UNCHANGED <<registry, timer, cleaning, task>>
      /\ UNCHANGED <<made, sessionOf, callbacks, svcVars, selected, active, target, record>>

\* The rest of switchRuntimeSession, once the cleanup it ran has returned.
Attach(c, s) ==
  LET e == EntryFor(s)
  IN  /\ Ensure(s)
      /\ listeners' = [listeners EXCEPT ![e] = @ \cup {c}]
      /\ sink' = [sink EXCEPT ![e] = IF @ = "none" THEN "open" ELSE @]
      /\ timer' = [timer EXCEPT ![e] = FALSE]
      /\ active' = [active EXCEPT ![c] = e]

Arrive(c) ==
  /\ at[c] = "moving"
  /\ task[c] # NoEntry => cleaning[task[c]] = "done"
  /\ at' = [at EXCEPT ![c] = "ready"]
  /\ selected' = [selected EXCEPT ![c] = target[c]]
  /\ target' = [target EXCEPT ![c] = NoSession]
  /\ task' = [task EXCEPT ![c] = NoEntry]
  /\ IF target[c] = NoSession
       THEN /\ active' = [active EXCEPT ![c] = NoEntry]
            /\ UNCHANGED <<regVars, listeners, sink, timer>>
       ELSE Attach(c, target[c])
  /\ UNCHANGED <<callbacks, runner, sinkFn, cleaning, record>>

\* Fault: Release counts the listeners before it removes this one.
CloseCountsItself(c) ==
  LET e == IF selected[c] = NoSession THEN NoEntry ELSE registry[selected[c]]
  IN  /\ at[c] = "ready"
      /\ at' = [at EXCEPT ![c] = "gone"]
      /\ listeners' = [x \in Entries |-> IF x = e THEN listeners[x] \ {c} ELSE listeners[x]]
      /\ timer' = [x \in Entries |-> timer[x] \/ (x = e /\ listeners[e] = {})]
      /\ UNCHANGED <<regVars, callbacks, svcVars, cleaning, selected, active, target, task, record>>

\* The deferred Release(selected, connection, false) of a dropped connection.
\* Its closure keeps selected and active as they were.
Close(c) ==
  LET e == IF selected[c] = NoSession THEN NoEntry ELSE registry[selected[c]]
  IN  /\ at[c] = "ready"
      /\ at' = [at EXCEPT ![c] = "gone"]
      /\ listeners' = [x \in Entries |-> IF x = e THEN listeners[x] \ {c} ELSE listeners[x]]
      /\ timer' = [x \in Entries |-> timer[x] \/ (x = e /\ listeners[e] \subseteq {c})]
      /\ UNCHANGED <<regVars, callbacks, svcVars, cleaning, selected, active, target, task, record>>

-----------------------------------------------------------------------------
(* The release timer and the cleanup it runs on its own goroutine.         *)

TimerFires(e) ==
  /\ timer[e]
  /\ timer' = [timer EXCEPT ![e] = FALSE]
  /\ callbacks' = [callbacks EXCEPT ![e] = @ + 1]
  /\ UNCHANGED <<regVars, listeners, svcVars, cleaning, connVars, record>>

\* Fault: cleanupIfOrphaned without its check of the listeners.
CleanupAnyway(e) ==
  LET s == sessionOf[e]
  IN  /\ callbacks[e] > 0
      /\ callbacks' = [callbacks EXCEPT ![e] = @ - 1]
      /\ IF registry[s] = e
           THEN /\ registry' = [registry EXCEPT ![s] = NoEntry]
                /\ cleaning' = [cleaning EXCEPT ![e] = "sink"]
           ELSE UNCHANGED <<registry, cleaning>>
      /\ UNCHANGED <<made, sessionOf, listeners, timer, svcVars, connVars, record>>

\* Fault: cleanupIfOrphaned spares an entry whose command is running.
CleanupUnlessRunning(e) ==
  LET s == sessionOf[e]
  IN  /\ callbacks[e] > 0
      /\ callbacks' = [callbacks EXCEPT ![e] = @ - 1]
      /\ IF registry[s] = e /\ listeners[e] = {} /\ runner[e] = "none"
           THEN /\ registry' = [registry EXCEPT ![s] = NoEntry]
                /\ cleaning' = [cleaning EXCEPT ![e] = "sink"]
           ELSE UNCHANGED <<registry, cleaning>>
      /\ UNCHANGED <<made, sessionOf, listeners, timer, svcVars, connVars, record>>

\* cleanupIfOrphaned forgets the field releaseTimer without stopping what it
\* holds: an armed timer still fires.
CleanupIfOrphaned(e) ==
  LET s == sessionOf[e]
  IN  /\ callbacks[e] > 0
      /\ callbacks' = [callbacks EXCEPT ![e] = @ - 1]
      /\ IF registry[s] = e /\ listeners[e] = {}
           THEN /\ registry' = [registry EXCEPT ![s] = NoEntry]
                /\ cleaning' = [cleaning EXCEPT ![e] = "sink"]
           ELSE UNCHANGED <<registry, cleaning>>
      /\ UNCHANGED <<made, sessionOf, listeners, timer, svcVars, connVars, record>>

\* What waits in the channel is thrown away by the worker.
ShutdownSink(e) ==
  /\ cleaning[e] = "sink"
  /\ cleaning' = [cleaning EXCEPT ![e] = "service"]
  /\ sink' = [sink EXCEPT ![e] = "shut"]
  /\ sinkFn' = [sinkFn EXCEPT ![e] = NoConn]
  /\ UNCHANGED <<regVars, lifeVars, runner, connVars, record>>

\* Fault: Service.Cleanup waits without closing the active runner.
ServiceCleanupNoClose(e) ==
  /\ cleaning[e] = "service"
  /\ cleaning' = [cleaning EXCEPT ![e] = "wait"]
  /\ UNCHANGED <<regVars, lifeVars, svcVars, connVars, record>>

\* Service.Cleanup: closeActive ...
ServiceCleanup(e) ==
  /\ cleaning[e] = "service"
  /\ cleaning' = [cleaning EXCEPT ![e] = "wait"]
  /\ runner' = [runner EXCEPT ![e] = IF @ = "running" THEN "closing" ELSE @]
  /\ UNCHANGED <<regVars, lifeVars, sink, sinkFn, connVars, record>>

\* Fault: it returns without waiting.
CleanupReturnsAtOnce(e) ==
  /\ cleaning[e] = "wait"
  /\ cleaning' = [cleaning EXCEPT ![e] = "get"]
  /\ UNCHANGED <<regVars, lifeVars, svcVars, connVars, record>>

\* ... then it waits for the runner's goroutine.
CleanupReturns(e) ==
  /\ cleaning[e] = "wait"
  /\ runner[e] = "none"
  /\ cleaning' = [cleaning EXCEPT ![e] = "get"]
  /\ UNCHANGED <<regVars, lifeVars, svcVars, connVars, record>>

\* onCleanup reads the record, and in a second call writes it back with
\* ExecutionActive cleared; UpsertSession inserts it if it is missing.
OnCleanupGet(e) ==
  /\ cleaning[e] = "get"
  /\ cleaning' = [cleaning EXCEPT ![e] = IF record[sessionOf[e]] = "stored" THEN "put" ELSE "done"]
  /\ UNCHANGED <<regVars, lifeVars, svcVars, connVars, record>>

OnCleanupPut(e) ==
  /\ cleaning[e] = "put"
  /\ cleaning' = [cleaning EXCEPT ![e] = "done"]
  /\ record' = [record EXCEPT ![sessionOf[e]] = "stored"]
  /\ UNCHANGED <<regVars, lifeVars, svcVars, connVars>>

-----------------------------------------------------------------------------
(* A running command and its permission prompts.                           *)

RunnerEnds(e) ==
  /\ runner[e] # "none"
  /\ runner' = [runner EXCEPT ![e] = "none"]
  /\ UNCHANGED <<regVars, lifeVars, sink, sinkFn, cleaning, connVars, record>>

\* The processor looks its session's runtime up again (runtimeForSession)
\* before it tries the permission rules: the connection's own, or an ensured one.
ProcessPrompt(e) ==
  LET c == sinkFn[e]
      s == sessionOf[e]
  IN  IF (selected[c] = s /\ active[c] # NoEntry) \/ registry[s] # NoEntry
        THEN UNCHANGED regVars
        ELSE Spare /\ Ensure(s)

\* The sink: on the producer's goroutine when nobody listens, else through a
\* channel of 1024 events, where a prompt may wait beyond the command's end.  A
\* sink that was shut down swallows it.
Prompt(e) ==
  /\ sinkFn[e] # NoConn
  /\ sink[e] = "open"
  /\ ProcessPrompt(e)
  /\ UNCHANGED <<lifeVars, svcVars, cleaning, connVars, record>>

-----------------------------------------------------------------------------

Handle(c) ==
  \/ Create(c) \/ Resume(c) \/ Exec(c) \/ Leave(c) \/ Arrive(c) \/ Close(c)
  \/ \E s \in Sessions : Request(c, s) \/ Delete(c, s)

CleanupStep(e) ==
  \/ CleanupIfOrphaned(e) \/ ShutdownSink(e) \/ ServiceCleanup(e) \/ CleanupReturns(e)
  \/ OnCleanupGet(e) \/ OnCleanupPut(e)

RegistryNext ==
  \/ \E c \in Conns : Handle(c)
  \/ \E e \in Entries : TimerFires(e) \/ CleanupStep(e) \/ RunnerEnds(e) \/ Prompt(e)

RegistrySpec == RegistryInit /\ [][RegistryNext]_registryVars

\* Timers fire, goroutines run, a runner whose context is cancelled ends; a
\* running command may run for ever and a client may never ask for anything.
RegistryFairness ==
  /\ \A c \in Conns : WF_registryVars(Leave(c)) /\ WF_registryVars(Arrive(c))
  /\ \A e \in Entries :
       /\ WF_registryVars(TimerFires(e))
       /\ WF_registryVars(CleanupStep(e))
       /\ WF_registryVars(runner[e] = "closing" /\ RunnerEnds(e))

RegistryFairSpec == RegistrySpec /\ RegistryFairness

-----------------------------------------------------------------------------
(* Properties.                                                             *)

\* The variables keep their types; only entries made so far are in use.
RegistryTypeOK ==
  /\ made \in 0 .. MaxEntries
  /\ registry \in [Sessions -> 0 .. made]
  /\ sessionOf \in [Entries -> Sessions \cup {NoSession}]
  /\ \A s \in Sessions : registry[s] # NoEntry => sessionOf[registry[s]] = s
  /\ listeners \in [Entries -> SUBSET Conns]
  /\ timer \in [Entries -> BOOLEAN]
  /\ callbacks \in [Entries -> Nat]
  /\ runner \in [Entries -> {"none", "running", "closing"}]
  /\ sink \in [Entries -> {"none", "open", "shut"}]
  /\ sinkFn \in [Entries -> Conns \cup {NoConn}]
  /\ cleaning \in [Entries -> {"no", "sink", "service", "wait", "get", "put", "done"}]
  /\ at \in [Conns -> {"ready", "leaving", "moving", "gone"}]
  /\ selected \in [Conns -> Sessions \cup {NoSession}]
  /\ target \in [Conns -> Sessions \cup {NoSession}]
  /\ active \in [Conns -> 0 .. made]
  /\ task \in [Conns -> 0 .. made]
  /\ record \in [Sessions -> {"absent", "stored", "deleted"}]

\* A connection at rest in a session holds the very entry the registry has for
\* it and listens to it: whatever timers and cleanups were on their way, its
\* commands never go to a Service that is being torn down.
AttachedEntryLive ==
  \A c \in Conns : (at[c] \in {"ready", "leaving"} /\ selected[c] # NoSession) =>
    /\ active[c] = registry[selected[c]]
    /\ active[c] # NoEntry
    /\ c \in listeners[active[c]]
    /\ cleaning[active[c]] = "no"
    /\ sink[active[c]] = "open"

\* An entry in cleanup is out of the map and has no listener, and by the time
\* onCleanup is called no goroutine of its commands is left: nobody can run
\* anything on it again.
CleanedEntryUnused ==
  \A e \in Entries : cleaning[e] # "no" =>
    /\ ~Registered(e)
    /\ listeners[e] = {}
    /\ cleaning[e] \in {"get", "put", "done"} => runner[e] = "none"

\* A session that was attached and has no listener left is guarded by its
\* release timer or by a callback of it: connections that come and go while
\* callbacks are late never leave one registered for ever.
ReleasedEntryGuarded ==
  \A e \in Entries : (Registered(e) /\ sink[e] # "none" /\ listeners[e] = {}) => timer[e] \/ callbacks[e] > 0

\* The runtime of a session all connections dropped from is eventually cleaned
\* up, unless one comes back to it.
LeftSessionIsCleaned ==
  \A e \in Entries : (Registered(e) /\ sink[e] # "none" /\ listeners[e] = {})
                       ~> (listeners[e] # {} \/ cleaning[e] = "done")

\* A switch ends, though it tears the previous session's command down first.
SwitchCompletes == \A c \in Conns : (at[c] = "leaving") ~> (at[c] = "ready")
=============================================================================
