# VCOS / MobileVC: a TLA+ verification project

VCOS runs AI coding agents (Claude, Codex, shells) on a workstation and lets phones and desktops drive
them over a websocket. This directory holds TLA+ modules of its concurrent core and of the parts that keep
state beside it, the TLC configurations that check them on small instances, and proofs checked by TLAPS.
Paths below are relative to `src/`.

## 1. The system

```
 client ==ws==> gateway connection --Execute, SendInput, decisions--> session.Service --> engine.Runner --> process
   ^                 |  attach / release                               |  controller            | events
   |                 v                                                 v                        v
   +--- listeners -- kernel.RuntimeSessionRegistry: RuntimeSession {Service, buffered sink, pending events}
                     |  read, apply, save
                     v
                data.FileStore (records, index, catalogs)

 kernel: scheduler --Acquire--> lockmgr <--ForceRelease-- watchdog <--subscribe-- eventbus <-- WrapSink(engine)
```

### 1.1 Inventory

| component | state | operations | hard behaviour | what makes it correct |
|---|---|---|---|---|
| `kernel/lockmgr` | entries (owner, depth, expiry), a timer per key, channel of expiries | Acquire, Release, ForceRelease, Holder, Active, Close, expire | a callback that started cannot be recalled; renewals; Close against callbacks | never two owners; an owner that stops renewing loses the key; a renewed lease does not end early |
| `kernel/watchdog` | item per execution: key, timeout, deadline, timer | Watch, Heartbeat, Settle, Close, onTimeout | callback races a heartbeat; force-release and report after the unlock | only an idle execution is timed out, and a hung one is |
| `kernel/scheduler` | none of its own | Decide, Release | admission and the question who holds the lock are two critical sections | a deferred execution names a rival |
| `kernel/eventbus` | cursor, inbox, subscriptions with channel, stop and goroutine | Publish, Subscribe, Close (both) | stamp and send are two steps; full channels; hung handlers; Close against delivery | order, each envelope delivered or counted as dropped, silence after Close, a dispatcher nobody stalls |
| `kernel/registry` | session to entry; per entry listeners, release timer, sink, pending events, cursors | Ensure, Attach, Release (with or without cleanup), cleanupIfOrphaned, CleanupAll; sink, AppendPending, PendingSince, MarkPersisted | cleanups run outside the mutex, beside attachments, timers and deletions | one live entry per attached client; none used while cleaned up; none left to run for nobody; no gap in what a client is sent |
| gateway connection | selected session, active entry, write channel, action ids | about fifty websocket actions; switch; close | a blocking handler; closures that outlive a switch; two connections of one user; a client that repeats an action | a switch completes; what is shown belongs to the session; an action is done once |
| permission traffic | pending request and the one before it; rule sets | permission_decision, auto-apply, refresh, Guard, WritePermissionResponse | check, read, write and clear are separate steps of several actors | the newest request can be answered; nothing is shown of a round that is over; an answer goes to the request it names |
| `session.Service` | active runner, its cancel and metadata, resume id; sink | Execute, SendInput, SendInputOrResume, StopActive, Cleanup, SendPermissionDecision, UpdatePermissionMode | Stop against start; late events of an old runner; detached resume | one runner at a time; a stop takes effect wherever it finds the runner; a cleanup returns when the runs are over |
| `session.Controller` | state, last command, step, diff | OnExecStart, OnRunnerEvent, OnInputSent, OnCommandFinished | events in another order than the calls | the state follows the runner that is active, and the client's ball the state |
| `session` projection | the snapshot: logs, diffs, review groups, steps | ApplyEventToProjection, Build, Normalize | applied twice, out of order, onto an older snapshot | what waits for review is shown; a client's deltas make the log |
| `engine` pty runner | process, writer, generation, pending requests, stall timer | Run, Write, Close, SetPermissionMode, stall watchdog | lazy start, exit against Close, a restarted generation | no process without an owner; a hung engine is ended |
| `engine` codex transport | JSON-RPC calls under way, thread, the turn, one pending approval | start, call, readLoop, failAll, approvals | replies and notifications on two goroutines, a dead process, approvals that overlap | every call ends; the newest approval can be answered |
| `data` file store | record files, index file, catalogs, tokens | Create, Upsert, SaveProjection, Get, List, Delete, catalogs | record and index are written apart; read-modify-write of callers | the index and the records agree after a crash |
| `data/claudesync`, `codexsync` | the CLIs' own history files | list, load, append | files written by others, at the same time; counts of entries that are compared with texts | an entry is written to the file once; a mirror loses no message; a conversation is listed once |
| `data/skills` | registry of skills, launcher | look-up, launch requests | none | pure |
| `memory`, `moe`, `semantic` | entries with scope and expiry; weights; index | Upsert, Get, Query, QuerySimilar, PurgeExpired | two stores of one interface | both implement one abstract store |
| `cognition`, `evolution` | intake and vibe rules; shadow workspaces; suggestions and decisions on them | compile, Evaluate in a workspace, Propose, Decide | two callers decide at once; a process that ends in the middle; a workspace left behind | a suggestion is decided once and the memory agrees; workspaces are accounted for |
| `protocol` | none | constructors, cursors and metadata of events | none | pure |
| gateway services, `support`, `cmd`, `desktop` | ADB screen (WebRTC peer or preview), push tokens, TTS, configuration, wizard stages and cursor | start/stop screen, keyframes, push, wizard stages | a screen's callbacks and goroutines outlive it; two submissions at once | one screen at a time, which somebody owns; a completed stage has its product |

`PROJECT.json` lists each of them with its sources and whether it is modelled, and the hazards by line.

### 1.2 Interactions that decide the design

- One goroutine per connection handles its actions in order; it blocks in a switch (which waits for the
  left session's command to end) and in `emit` (a bounded channel). Another writes to the socket.
- A runner's events enter the session's *buffered sink*. One worker goroutine per entry processes them with
  the closure of the connection that called `SetSink` or resumed last, which may be gone or elsewhere. When
  nobody listens the runner's goroutine processes the event itself.
- A connection that closes does not end its session: `Release` arms a timer (15 minutes by default); its
  callback re-checks under the registry's mutex and cleans up outside of it.
- The kernel's services are joined by the bus: engine events are heartbeats, and the watchdog's verdict
  takes the lock away from an execution that may no longer be the one that holds it.

## 2. The modules

| module | models | composed of |
|---|---|---|
| `LeaseLock` | abstract: what a lease on a key promises | |
| `LockMgr` | `kernel/lockmgr` | implements `LeaseLock` |
| `Watchdog` | `kernel/watchdog` | |
| `KernelP1` | `kernel/scheduler`, `Kernel.New` and `Stop`: executions under lock manager and watchdog | extends `LockMgr`, instance of `Watchdog` |
| `EventBus` | `kernel/eventbus` | |
| `SessionRegistry` | `kernel/registry.go` with the connections' switches, closes and deletions | |
| `SessionStream` | one entry's sink, processors, pending events, store and resuming clients | |
| `Permission` | pending control requests, decisions, rules | |
| `PtyRunner` | `engine/pty_engine.go`, `exec_engine.go`: how a run's process starts, is watched, stopped and waited for | |
| `SessionService` | `session/manager.go`: callers and stoppers of one service | extends `PtyRunner` |
| `CodexTransport` | `engine/codex_transport.go`: calls, read loop, turns, approvals | |
| `FileStore` | `data/file_store.go`: records and index with crashes and failed writes | |
| `Projection` | `session/projection_*.go`, `projector.go`: log, diffs, reviews; `session_delta_get` | |
| `AgentStatus` | `session/session.go`'s controller and what a client is told of it | |
| `ClaudeSync` | `data/claudesync/session_sync.go`, `jsonl_writer.go` and their users in the gateway | |
| `Mirrors` | `data/codexsync`, `data/claudesync` as mirror sessions and as rows of the merged list | |
| `AdbScreen` | `gateway/adb.go` and the screen preview of `gateway.go` | |
| `ClientActions` | actions with an id: `ackClientAction`, exec, input, ai_turn, skills | |
| `Wizard` | `cmd/agentui`, `desktop/wizard`, `cognition/intake`, `cognition/vibe` on the memory store | |
| `Learning` | `evolution/shadow`, `evolve`, `feedback` with agentd's commands and the dashboard | |
| `MCComponents` | the ten components from `CodexTransport` on, one per behaviour | extends the ten |
| `Selection` | entries of a sequence kept in their order, by counting | used by `Projection`, `ClaudeSync`, `Mirrors` |
| `KernelProofs` | theorems about `LockMgr`, about `KernelP1` with `Watchdog`, and about `EventBus` | extends `KernelP1`, `EventBus` |
| `SessionRegistryProofs`, `SessionStreamProofs`, `SessionServiceProofs`, `PermissionProofs` | theorems about the module each is named for | each extends its module |
| `GatewayProofs` | theorems about `ClientActions`, `AdbScreen`, `CodexTransport`, `AgentStatus` | extends the four |
| `StoreProofs` | theorems about `FileStore`, `Learning`, `Wizard` | extends the three |
| `LogProofs` | theorems about `Projection`, `Mirrors`, `ClaudeSync` | extends the three |

`MCX` instantiates `X` for TLC. Every action stands for one stretch of code between two points at which
another goroutine can run: a critical section, a channel operation, a call to the store. Operators named
as *Fault* are not part of a next-state relation: each is a definition as a plausible bug would have it,
used to see that a property can fail. "Bound" in a comment marks a limit that exists for TLC only;
"history" marks a variable that the code does not have and that records what has happened for a property.

### How state and actions correspond to the code

**LockMgr.** `entries[k]` is `entry` (`lockmgr.go:44`); `timer[k]` its `time.Timer`; `callbacks[k][o]`
counts `time.AfterFunc` callbacks that have started for a lease of `o` and not reached the mutex: `Stop`
does not recall them. `expire` is three actions: it finds nothing, ends the lease and sends (the send is
after the unlock: `sending`), or is too late for the closed channel. `NotifyAfterClose` and
`AcquireAfterClose` are the panics of a closed manager; the model marks them and stops.

**Watchdog, KernelP1.** `items`, and three places of `onTimeout`: before the mutex (`due`), between its
unlock and `ForceRelease` (`forcing`), before the report (`publishing`). `orphans` are the timers that
`onTimeout` arms again and no item refers to. An execution of `KernelP1` decides, runs under `Watch`, emits
events, settles and returns the lock, or hangs; Decide is `DecideAdmit` or `DecideConflict` then
`DecideDefer`, the two critical sections of the code, or `DecideAdmitUnlocked` for a request that names
nothing to lock. `StartWatch` has no caller in the sources outside the
integration tests and is mapped to one.

**EventBus.** `Stamp` and `Send` are `Publish`; the dispatcher's goroutine is `disp`; a subscription is its
channel, stop channel and goroutine. `deliver`'s two selects are `DeliverSend`, `DeliverWait`,
`DeliverDrop`, `DeliverAbort`. Handlers may never return.

**SessionRegistry.** An entry is a number, so that an entry made again for the same session is another one.
`at` is where a connection's goroutine is: in `switchRuntimeSession`'s release, about to attach, or in its
loop. `cleaning` walks the cleanup: sink, service, wait for the runner, and `onCleanup`'s read and write of
the session record. `Exec` stands for exec, ai_turn and input, which set the sink and start a command; skill
and slash executions do not set the sink and add no other step. `Prompt` is a runner's prompt processed by
whatever closure is in place. A torn read of `selectedSessionID` and `activeRuntimeSession` (they are
written one after the other without a lock) is read as one.

**SessionStream.** Three processors run `emitAndPersistFor`: the worker, a handler, and the runner when
nobody listens. Its steps are separate actions: append to pending, count listeners, emit, read the
projection, save it, append and emit the AI status event that may follow (`ProcStatus`, `ProcTell`), mark.
A status event has a cursor of its own and is not saved, so the last cursor is three times `MaxEvents`. A
projection is the set of events applied to it. Clients attach, read the cursor, ask for the current
request, replay, and close. What a client says it saw last is any cursor of `Seen`: the entry may have been
made anew since, with fewer. Sink shutdown is in SessionRegistry, automatic
answers are in Permission; both are left out here.

**Permission.** `cur` and `prev` are `pendingControlRequestID` and `...Prev`. An actor is a connection or
the sink's worker; `pc` says whether it is before `CurrentPermissionRequestID`'s comparison in the handler
("check"), before `SendPermissionDecision`'s ("guard"), before `WritePermissionResponse`'s read ("read"),
its write ("write"), its clear ("clear"). `late` are the writers whose context ended. A round ends with
what is pending cleared (`RoundEnds`) or, after a result with an error, with nothing cleared (`RoundFails`):
then an answered request may stay pending, and `NothingPendingAfterRound` speaks of the other ends. Left out: the pseudo
request of a text prompt, decisions without a request id, and the time between `Close` and the
runner's `clearGeneration` in which decisions fail. A deny that finds its request gone is sent as an input
instead of refreshed, as `executePermissionDecision` does.

**PtyRunner, SessionService.** A run is a number. `kind[r]` is which of the six ways its process starts;
`run[r]` is where Execute's goroutine is, `eng[r]` where the goroutine that owns the process is, and
`proc[r]` is the process, which is external: it talks, falls silent and dies as it likes. `cancelled` is
`runCancel`, `closed` the runner's flag, `wd[r]` the stall watchdog. A client of the service holds what it has looked
up in `got[c]` between a look-up and its use; `execMu` and `execWG` are `execMu` and `wg`. A codex is silent
or answers in its handshake before the runner has attached it and before it has a watchdog (`HandshakeWaits`,
`HandshakeFails`); the sender whose input started it may give up (`SenderLeaves`). A detached resume runs a
claude with `--resume` and a codex the way it was run (`ResumedKinds`). A panic of a run's goroutine
(`RunPanics`) is recovered by Execute: the runner is given up and its process is "adrift", running and
nobody's. The ready prompt and the pending control requests of a run are in `Permission`, the metadata is left out.

**CodexTransport.** `pending` and `reply` are the map of calls and their channels, `reader` the read loop,
`out` the pipe from the server; `slot` is `pendingApproval`, and a decider `holds` what it read of it before
it writes the answer and clears. `CallRegister`, the write and the wait are separate steps.

**FileStore.** A call holds the mutex as `op`, and each of its writes is two steps, the truncation and the
write, so that a crash leaves "cut" files, as `os.WriteFile` does. `stale`, `listed`, `emptied` and `halfDeleted` are
histories. The stores of rules, catalogs and tokens are single files and left out.

**Projection.** An entry of the log is the set of events it shows and its kind; a diff is its path, its
execution and whether it is pending. The worker and the connection's goroutine both read the stored
projection, change it and save it whole. A step or phase event enters as a reply or a diff
does and only adds to the log, so the two kinds are not separate here.

**AgentStatus.** The controller's state, last prompt and last step are `ctl`; neither of the last two is
forgotten by a new command. A runner's event is in the sink, then with the controller, then what the
controller says of it goes into the sink; `hands` are the events between these steps, one of each reader
(stdout, stderr) and that of the run's end. An event waits in `sinkQueue` or `direct` until its status is
computed from the controller of that moment (`AIStatus`). `StopActive` sends the "stopped" session event
and tells the controller afterwards (`StopFinishes`).

**ClaudeSync, Mirrors.** A log and a file are sequences of entries with kind and text; `from` and `by` say
who wrote an entry and are seen by the property only. `count` is `JSONLSyncEntryCount`. A load reads the
record whether or not a runner is active, as session_resume does. `Mirrors` has one
conversation per tool, its stored record, and sessions that resume it.

**AdbScreen.** A peer and a preview are both a screen, a number; `current` holds the fields `b.peer` and
`adbCancel`. Whoever stops a screen takes it under the lock (`takenOff`) and closes it afterwards.

**ClientActions.** `hand[c]` is the action a connection's goroutine works on and how far it is; a client
leaves and comes back while it is at work. `marks` is `clientActions` of the runtime session.

**Wizard, Learning.** A call of the desktop application is a window's goroutine; each read and each write of
the memory store is a step. In `Learning` the command line runs one command at a time beside the dashboard,
whose handlers run concurrently; `ProcessEnds` keeps what is on the disk and in git and loses the memory.

**MCComponents.** Its variable `scene` is chosen in the first state and names the component that acts; the
nine others stay as they begin. The components share no variable, so the run is ten runs in one, and each
property is about the component it is stated in.

## 3. What the runs check

All runs use two workers and finish within three minutes.

| run | instance | shows |
|---|---|---|
| `lockmgr` | 1 key, 2 owners, leases of 1 and 2 ticks, 4 ticks, depth 2 | `TimerTracksLease`: a held key always has a timer or a callback; `ImplementsLease`: refinement of `LeaseLock`; `OverdueIsReclaimed`; the types |
| `kernel_p1` | 2 executions, 1 key, 1 watched | `WatchGuarded`: a watched execution always has a timer or a callback; `HungExecutionLosesLock` |
| `eventbus` | 2 publishers, 2 subscribers, one-slot channels, 2 envelopes | `DispatchOrderKept`, `EveryEnvelopeAccounted`, `QuietAfterClose`, `DispatcherNeverStalls` |
| `eventbus_cursors` | 1 subscriber, two-slot channels | violation: a subscriber is given a lower cursor after a higher one, against `p0-eventbus.md` |
| `registry` | 2 connections, 2 sessions, 3 entries | `AttachedEntryLive`, `CleanedEntryUnused`, `ReleasedEntryGuarded`, `LeftSessionIsCleaned`, `SwitchCompletes` |
| `session_stream` | 1 client, which says it saw 0 or 2, 1 handler, a sink of 1, 2 pending events kept, 2 events | `NoGapAfterResume`, `PromptReachesClient`, `RunnerNeverStalls` |
| `stream_persisted` | same | violation: the persisted cursor passes an event that was not saved |
| `permission` | 1 connection and the rules, 3 requests, 2 unanswered at a time | `NewestRequestPending`, `NothingPendingAfterRound`, `NewestRequestAnswered` |
| `permission_deny` | same with 2 requests | violation: a deny is written for a request other than the one it names |
| `session_service` | 2 runs of any of the six kinds, 1 caller, 1 stopper | `NoOrphanProcess`; `CleanupWaits` (action property); `StopTakesEffect`; `HungEngineAborted` |
| `hung_engine` | 1 run of the lazy kind | violation: a codex started by its first input is never aborted when it falls silent |
| `components` | see below | fifteen properties of ten components |

The run `components`, by component:

| component | instance | properties |
|---|---|---|
| `CodexTransport` | 2 senders, 1 decider, 4 calls, 2 approvals | `NoCallLeftBehind`, `NewestApprovalPending` |
| `FileStore` | 2 sessions | `IndexFollowsRecords` |
| `Projection` | 2 files, 2 executions, 3 events, 1 decision | `OpenReviewShown`, `DeltasMakeTheLog` |
| `AgentStatus` | 1 message, 3 commands, inputs and events | `BallFollowsCommand` |
| `ClaudeSync` | 1 text, 3 entries | `SyncedExactlyOnce` |
| `Mirrors` | 2 sessions, 2 messages | `MirrorComplete`, `ListedOnce` |
| `AdbScreen` | 2 screens | `ScreenHasOneOwner`, `KeyframeReachesStream` |
| `ClientActions` | 2 actions, 2 connections | `ActionTakenOnce` |
| `Wizard` | 2 windows, 3 submissions | `WizardFollowsSubmits` |
| `Learning` | command line and dashboard, 2 workspaces, 1 suggestion, 2 learnings | `VerdictOnce`, `ShadowsAccounted` |

Several of these properties name the cases in which the code does not keep them (`DeltasMakeTheLog`,
`BallFollowsCommand`, `SyncedExactlyOnce`, `MirrorComplete`, `KeyframeReachesStream`,
`WizardFollowsSubmits`, `ShadowsAccounted`): the condition is a history variable that is set by that
case, so that the property says what is true and its comment says where it ends; section 4 lists the cases.
A hazard of `PROJECT.json` counts as covered by such a property only for what the property would catch; a
case that is excused is in the hazard's note, or, where it is the whole hazard, the hazard has no property:

| case the models take and no property forbids | at | excused by |
|---|---|---|
| the lock of an execution admitted in between is taken away | `watchdog.go:197` | |
| a second `Close` of a subscription returns early | `bus.go:195` | the property is about the `Close` that detached it |
| a runner that ignores its context freezes the switch | `registry.go:452` | fairness |
| events in another order, or twice, after a resume | `gateway.go:898` | |
| the older of two unanswered requests is pushed out | `pty_engine.go:2150` | the property is about the newest |
| a process set adrift by a panic; a silent codex in its handshake | `manager.go:289`, `codex_transport.go:229` | "adrift"; `attached` |
| an event saved between the delta's projection and its cursor | `gateway.go:868` | `overtaken` |
| the save of a stale projection loses the other's entries | `gateway.go:1901` | |
| statuses overtake each other | `gateway.go:612` | `crossed` |
| a stopped runner's events reach the controller | `manager.go:317` | `late` |
| a save of claude's file that meets another step, or fails | `gateway.go:4181` | `met`, `failed` |
| a reply replaced under the count; a load that counts the whole log | `gateway.go:4166` | `replaced`, `passed` |
| two entries of one second, prompts before the rollout | `gateway.go:3970` | `excused` |
| a goroutine with a token that was given again | `adb.go:512` | `latecomer` |
| two submissions, two changes of the preference at a time | `cursor.go:62`, `vibe.go:104` | `cursorRaced`, `vibeRaced` |
| workspaces of killed processes stay | `shadow.go:183` | they are accounted for, not removed |

The definitions `...TypeOK` describe each module's variables. `TypeOK` of `LockMgr` is a property of a run;
those of `LockMgr`, `KernelP1`, `Permission` and `SessionService` are theorems, the proofs of the other
modules state the types they need in their invariants, and each was satisfied when TLC checked it.

**Why the bounds are enough.** Each is the smallest at which the hazard it is for can happen. Two owners
and a renewal make a callback late; four ticks let a lease run out after one. One-slot channels are full
after one envelope. Three entries let a session be cleaned up, made again and left again while another is
in use; two connections are a client and its reconnection. Two events and a list of two make the list
forget once notices are appended. Three requests overflow the two slots. Two runs are an old runner and the
one that follows it. Four calls are the two of the start and one of each sender; two approvals overlap. Two
screens are a stale one and its successor. Two actions on two connections let one be repeated while another
occupies the runner. Three submissions in two windows overlap after a first one is complete. Two workspaces
are one that is left and the next one. Three commands, inputs and events of a runner are a command and an
event of each reader, or the events of a stopped one beside a new command.

**Deadlock** is not checked: clients may stop at any time, and the bounds on counters stop the models.

**Fairness.** Weak fairness of the steps that a goroutine or a timer takes on its own: Go schedules a
runnable goroutine, timers fire, the sink's select has a timeout. Nothing is assumed of handlers, clients,
publishers and, except for its promise to end when cancelled (`SwitchCompletes`, see the hazard at
`registry.go:452`), of runners. `NewestRequestAnswered` assumes a user who approves again and again (strong
fairness: between a decision and the next the action is disabled) and a process that reads its input.
`session_service` assumes that a process that was killed dies, and that clients finish the calls they have
begun, but not that a sender gives up (`SenderLeaves`) or a run panics; nothing of a process that is not killed. The components of `MCComponents` state safety only.

## 4. Findings

1. `eventbus_cursors`: `Publish` takes the cursor before, not with, its place in the inbox.
2. `stream_persisted`: `MarkPersisted` is called whether or not the save succeeded.
3. `permission_deny`: the request that is checked is not the one that is answered.
4. `hung_engine`: `startCodexAppServerOnFirstInput` starts no stall watchdog.

`PROJECT.json` quotes the statement of the repository that each contradicts. What follows was met while
modelling and no document rules it out; the models take these steps, and the properties either hold in spite
of them or except them by name:

- *Kernel.* `onTimeout` deletes the item, unlocks, and calls `ForceRelease(key)`, which does not look at the
  owner: an execution admitted in between loses the lock (`watchdog.go:197`).
- *Registry and gateway.* A deleted session comes back when its cleanup writes the record it has read before
  (`gateway.go:83`). `session_delta_get` reads the cursor after the projection (`gateway.go:868`). Ids of
  actions are remembered before the action is done, so an action whose connection is cut between the two is
  not repeated; above 2048 they are forgotten in no particular order. `skill_exec` and `plan_decision` have no id.
- *Runner and service.* A lazy codex can start after its run was stopped (`pty_engine.go:940`). The stall watchdog
  also ends a run that waits for its user for 120 s. `cmd.Wait` is called before the readers of the pipes
  are done. `StopActive` takes no execution lock (`manager.go:249`). Events of a stopped runner
  reach the controller (`manager.go:317`). A panic on a run's goroutine leaves its process running (`manager.go:289`).
  A result with an error clears no pending request (`pty_engine.go:2318`).
- *Codex.* The reply to turn/start sets a turn that may be over by then (`codex_transport.go:332`): every
  later input steers it and fails.
- *Files.* A half-written index makes `List`, `Create`, `Upsert` and `Delete` fail until it is removed by
  hand; a delete that is cut leaves a row without a record.
- *Mirrors.* A reply that replaces its first part in the log is not counted by `JSONLSyncEntryCount`: the file
  keeps the part and the next load brings it back. A codex mirror's stored controller state overrides the thread's.
- *Screen.* A stale callback or goroutine stops the next peer (`adb.go:185`, `548`); `Stop` resets
  `streamToken` to 0, so that tokens repeat (`adb.go:512`).
- *Wizard and learning.* Two submissions that load the same cursor lose a stage (`cursor.go:62`). `vibe.Get` takes the
  newest long-term entry about dialogue, whoever wrote it. A decision of the dashboard is whatever the request
  says. Workspaces of a killed process stay.

## 5. What is proved

The theorems hold for every value of the constants; each has an inductive invariant that the proof module
states as a conjunction of named parts, and that TLC checked on the run's instance before it was proved.

The assumptions on the constants are those of the modules: bounds are natural numbers, filters are sets of
publishers, and sentinels (`RegistryAssumption`, `ServiceAssumption`, `StreamAssumption`,
`MirrorsAssumption`) are not names of connections, handlers or sessions. `RegistryAssumption` also asks for
an entry per connection, since a connection that has left its session must find one to make (`RoomLeft`):
the bound is the model's, not the code's.

**The kernel.**

- *LockMgr*: `TypeCorrect`, `LeaseNeverForgotten` (`[]TimerTracksLease`), and `LeaseImplemented`: `Spec`
  implements `LeaseLock`. The inductive invariant `LockInv` is `TypeOK /\ TimerTracksLease /\ FreeWhenUnowned`.
  The last part is needed for the refinement: a key without an owner must be the free record itself.
  `TimerTracksLease` is needed for types, since a timer that fires must have an owner to fire for.
- *KernelP1*: `KernelUsesLock` shows that every step of the composition is one of `LockMgr` or leaves the
  lock alone, so `KernelSpec` implies its `Spec` and `KernelKeepsLease` follows from the theorems about
  `LockMgr`. It needs `AskedForKey` (a caller that met a conflict knows its key) and that the scheduler's lease
  length is one of `TTLs`. `KernelTypeCorrect` and `NobodyForgotten` (`[]WatchGuarded`) go by one lemma per
  kind of watchdog step; the case that matters is `Reschedule`: the callback that gives up its turn finds
  the deadline ahead, and then the item's own timer must still be armed.
- *EventBus*: `OrderKept`, `NothingLostUncounted`, `CloseIsQuiet` (the three invariants of the run), from `BusInv`. What makes
  them inductive is `Unserved`, the subscriptions the dispatcher may still give its envelope to: it shrinks
  in `deliver`, and who is not in it has the last envelope in its stream, among its drops, or filtered
  (`Accounted`); who is in it has nothing of it yet (`StreamsDispatched`), so that what `deliver` appends comes last.
  `NeverTwice` adds what no run checks: a stream holds no envelope twice, since no two publishers hold one cursor
  (`CursorsOnce`).

**Sessions.**

- *SessionRegistry*: `AttachedStaysLive`, `CleanupIsAlone`, `LeftHasTimer`. The three properties hold each
  other up and are proved in one invariant, `RegInv`: a cleanup starts at an entry that nobody listens to and that
  has left the registry, so no attachment finds it; a timer's callback that comes too late sees a listener or another
  timer. `Fresh`, `UsedAreMade` and `ShutIsCleaned` say what entries look like before they are made and after
  their sink is shut.
- *SessionStream*: `NothingBetween` (`[]NoGapAfterResume`) rests on `PendingNewest` (the pending list is the
  newest `Limit` cursors, whoever appends) and `ResumesInTime` (a client listens before it reads the
  cursor, and resumes no further than it has seen or has been persisted). `PromptNeverLost`
  (`[]PromptReachesClient`) adds where the current prompt is (`OnItsWay`) for every client that is live or is past
  the question for the current request.
- *SessionService*: `ServiceTypeCorrect`, `NoProcessLost` (`[]NoOrphanProcess`), and the action property
  `CleanupWaits` (`CleanupIsComplete`), of `FairSpec`; the fairness is not used. `RunOK` relates the three goroutines
  of a run, `RunsOwned` says that a run is active, is cancelled or is in the hands of a stopper, and
  `WindowCovered` that `execMu` covers the window between `manager.start` and `execWG.Add`: without it a
  cleanup could return before a run it has not counted.
- *Permission*: `PermTypeCorrect`, `NewestNeverLost` and `NoCardAfterRound`. The inductive invariant adds that a
  request about to be cleared has been answered (`ClearedIsAnswered`) and that the worker at a prompt holds it
  (`WorkerHoldsPrompt`). The step that matters is `Clear`: the request it compares with has been answered, so
  either another is newest and stays, or the newest is answered; after a round both slots are empty and no
  answered request matches.

**The gateway and the engine.**

- *CodexTransport*: `EveryCallEnds` (`[]NoCallLeftBehind`) and `NewestApprovalKept` (`[]NewestApprovalPending`).
  For the first: a call that waits is registered or has its reply, a registered id belongs to one sender, and the
  end of the read loop leaves nothing registered without an answer. For the second: what a decider holds is never newer
  than what the loop has seen, and what it clears it has answered.
- *ClientActions*: `ActionNeverTwice` (`[]ActionTakenOnce`). No two connections are at work on one action
  (`WorkersApart`), what has become of an action follows from the step of the one that is (`WorkersOK`), and an
  action that is marked and in nobody's hand is finished (`MarkedOK`). The repeated action ends at
  `AckClientAction`, where the id is found marked.
- *AdbScreen*: `RecordedScreenOwned` (`[]ScreenHasOneOwner`) and `KeyframeRestartsStream`
  (`[]KeyframeReachesStream`). `PlanKept` says which fields the connection's goroutine has emptied at each point of
  its plan: others only take screens off, so a field it has emptied is still empty when it starts a screen.
  `ScreensOwned` and `WatchedOneWay` are the property's halves. For the second, a plan that
  ends in an answer has room for the screen it answers for (`PlanRoom`).
- *AgentStatus*: `BallIsRight` (`[]BallFollowsCommand`). What is to be shown when nothing is on its way is the
  last word of the queue that is not empty, or of the hand that carries an event to the controller: `WillAgree`
  says that it will be right. `OneWayAtATime`: unless events have crossed (the history `crossed`) one of the two ways
  is in use and one hand at most. `RunsWhenBusy`: a busy controller has a runner, or is about to hear that it
  has none (`StopPending`, `EndPending`). `HandsRun` says whose events the hands are, and `RestoredRuns` what a load has shown.

**State that is kept.**

- *Projection*: `OpenShown` (`[]OpenReviewShown`). `DiffsInv`: every stored or copied diff is well formed, in
  particular pending exactly when its status is pending or revised. That the code finds an open diff then rests on
  lemmas about its choices: a group is the first place of its execution, a file the last of its path, and a
  nonempty set of places has a least and a greatest one (`WellFoundedInduction`).
  `DeltasComplete` (`[]DeltasMakeTheLog`) adds what every holder of a log has: the stored log, the copies about to be
  saved and the delta about to be sent all begin with what the client holds (`ClientHasBeginning`), and a client
  with the latest cursor holds all of it (`ClientHasAll`), unless an entry was changed in place or saved under a
  cursor it had.
- *Mirrors*: `ConversationListedOnce` (`[]ListedOnce`). The invariant is small (`RuntimesOK`: a
  runtime without a tool is in no conversation); the work is in the rows: a conversation that a session is in has
  no row of its own (`RowsOf`, `SessionsTrack`), and of the rows of the codex thread one is left (`Listed`).
  `MirrorsComplete` (`[]MirrorComplete`) needs to know of every entry of a mirror which form it has (`CodexLogOK`: the
  thread's line with the first second, or this program's own), for `mergeSnapshotLogEntries` tells entries apart by
  their whole content: two forms of one message would both be kept. `DistinctEntries` and `MergedEntries` say what the
  two loops return for any sequences: each entry once, none lost, none added.
- *ClaudeSync*: `WrittenOnce` (`[]SyncedExactlyOnce`). What the file has of the session is what the first `count`
  entries of the log say (`FileOK`; between the write and the mark, what all of them say), and beyond the count there is only what was
  said here (`CountOK`). The worker's and the load's copies are the log itself or extend it by what is from
  the file (`WorkerOK`, `LoadOK`). The step that matters is the write: the lines it appends correspond one to one
  to the entries beyond the count that have the same key (`WriteKeepsSync`, by the bijection that `EntriesAtPlaces` gives).
- *FileStore*: `IndexSurvives` (`[]IndexFollowsRecords`). Not only what the index file says must follow the records
  (`IndexOK`) but, while the file is open and empty, what it is about to say (`NextIndexOK`); sessions listed with
  content have a record, readable or cut (`ListedKept`); and a call is at a step of its own kind (`OpOK`).
- *Wizard*: `WizardAgrees` (`[]WizardFollowsSubmits`). `CursorTold`: unless two submissions
  have loaded one cursor, the stored one has the stage of each that has returned. `VibeTurns`: unless two have read one
  preference, one call at most is past its read, and the prompt tells of what it says.
- *Learning*: `ShadowsKept` (`[]ShadowsAccounted`) from `ShadowInv`: a workspace on the disk is the one the
  command works on, the one the process remembers, or was lost with a process. `DecidedOnce` (`[]VerdictOnce`) from the second
  invariant: a suggestion that is not outlived is in exactly one place (proposed, in a reviewer's hand, decided:
  `OnePlace`, `SomePlace`), and what a reviewer applies is what was recorded.

Two choices of the models serve the proofs. `GroupStatus`, `ApplyToLog` and `VideoClears` are IFs in the code's order
and not CASEs: their guards overlap, and CASE leaves open which of two true guards is taken. The loops that keep
some entries of a log are `EntriesAt` of `Selection`, which finds the i-th place kept by counting, and not `SelectSeq` or
`SetToSortSeq`, whose recursion or CHOOSE among sequences the provers cannot expand; `PlacesRanked` and
`EntriesAtPlaces` prove that it is the sequence of the entries at those places in ascending order.

**Only model-checked**, and why:

- every liveness property (out of the prover's reach, as is ENABLED);
- the violations of section 4, which are counterexamples.

## 6. Not modelled, and the plan

- *Within modelled components.* The connection's writer goroutine and its full channel; plan decisions; merging of
  run metadata; what an approval rule matches and how rule sets are stored; terminal executions and
  the merge of two snapshots in the projection; how codex notifications become log events.
- *Not modelled.* `data/skills` (catalog look-ups and prompt texts, no state between two calls);
  `SQLiteStore` (constructed in tests only); `moe` and `semantic` (numeric work on query results); parsers, shell
  quoting and terminal sequences (text); TTS, WebRTC negotiation and push (external services); the user interface.

Every safety invariant that a run checks is a theorem. Next, in this order: an abstract
specification of `SessionService` (at most one command, which ends) and its refinement; the writer goroutine
and its channel under `SessionStream`; the read-modify-write of rule sets over `FileStore`.
