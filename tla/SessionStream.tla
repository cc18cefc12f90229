--------------------------- MODULE SessionStream ---------------------------
(***************************************************************************)
(* The event stream of one runtime session: kernel/registry.go's buffered  *)
(* sink, pending events and cursors, with the processor emitAndPersistFor  *)
(* and the handler of session_resume in gateway/gateway.go.                *)
(*                                                                         *)
(* The runner's goroutine hands each event to a channel, or processes it   *)
(* itself when nobody listens; a worker processes what is in the channel;  *)
(* handlers of connections process events of their own.  Processing gives  *)
(* the event a cursor, keeps it as pending, emits it to the listeners,     *)
(* saves it and, when it changes the indicator, keeps and emits an AI      *)
(* status event of its own.  A client that comes back is attached first    *)
(* and then sent the stored history, the pending events it may lack and,   *)
(* if the runner still waits for a permission, the prompt for it.          *)
(***************************************************************************)
EXTENDS Integers, Sequences, FiniteSets

CONSTANTS
  Conns,        \* connections that attach, resume and drop
  Handlers,     \* connections' goroutines that emit events themselves
  Seen,         \* cursors a client may say it saw last
  SinkCap,      \* DefaultSinkBufferSize, 1024
  Limit,        \* DefaultPendingLimit, 512
  MaxEvents     \* bound: events produced; the n-th is also the n-th request's id

ASSUME StreamAssumption ==
  /\ Seen \subseteq Nat
  /\ SinkCap \in Nat \ {0} /\ Limit \in Nat \ {0} /\ MaxEvents \in Nat
  /\ "runner" \notin Handlers /\ "worker" \notin Handlers

VARIABLES
  produced,   \* events produced so far
  asking,     \* the permission request the runner waits for, 0 if none
  runner,     \* the runner in the sink: "idle", "count", "send"
  queue,      \* sinkCh
  dropped,    \* history: requests whose prompt the full channel shed
  pc,         \* pc[p]: where processor p is
  ev,         \* ev[p]: the event it works on
  copy,       \* copy[p]: the projection it has read
  ai,         \* ai[p]: cursor of the AI status event it is about to emit, 0 if none
  cursor,     \* pendingCursor
  pending,    \* pendingEvents
  store,      \* cursors of the events in the stored projection
  persisted,  \* persistedCursor
  high,       \* history: the greatest value persisted has had
  emitted,    \* history: cursors of events emitted
  listeners,  \* connections attached
  conn,       \* "off", "attached", "cursor", "replay", "live"
  lastSeen,   \* LastSeenEventCursor of the request
  from,       \* effectiveCursor
  need,       \* currentPermissionID, 0 if none
  sent,       \* sent[c]: cursors of the events enqueued for c
  prompts     \* prompts[c]: requests whose prompt was enqueued for c

runVars == <<produced, asking, runner, dropped>>
procVars == <<pc, ev, copy, ai>>
pendVars == <<cursor, pending>>
storeVars == <<store, persisted, high>>
connVars == <<conn, lastSeen, from, need>>
outVars == <<sent, prompts>>
streamVars == <<runVars, queue, procVars, pendVars, storeVars, emitted, listeners, connVars, outVars>>

Procs == {"runner", "worker"} \cup Handlers
Kinds == {"reply", "prompt", "status", "notice"}
LastCursor == 3 * MaxEvents    \* each event with a notice and an AI status
Events == [kind : Kinds, id : 0 .. MaxEvents, cursor : 0 .. LastCursor]
NoEvent == [kind |-> "status", id |-> 0, cursor |-> 0]
Event(k) == [kind |-> k, id |-> IF k = "prompt" THEN produced + 1 ELSE 0, cursor |-> 0]

StreamInit ==
  /\ produced = 0 /\ asking = 0 /\ runner = "idle" /\ queue = <<>> /\ dropped = {}
  /\ pc = [p \in Procs |-> "idle"]
  /\ ev = [p \in Procs |-> NoEvent]
  /\ copy = [p \in Procs |-> {}]
  /\ ai = [p \in Procs |-> 0]
  /\ cursor = 0 /\ pending = <<>>
  /\ store = {} /\ persisted = 0 /\ high = 0 /\ emitted = {}
  /\ listeners = {}
  /\ conn = [c \in Conns |-> "off"]
  /\ lastSeen = [c \in Conns |-> 0]
  /\ from = [c \in Conns |-> 0]
  /\ need = [c \in Conns |-> 0]
  /\ sent = [c \in Conns |-> {}]
  /\ prompts = [c \in Conns |-> {}]

-----------------------------------------------------------------------------
(* The runner and the sink it was given.                                   *)

\* A runner that asks for a permission notes the request before it sends the
\* prompt; it asks one thing at a time.
Produce(k) ==
  /\ runner = "idle" /\ pc["runner"] = "idle"
  /\ produced < MaxEvents
  /\ k = "prompt" => asking = 0
  /\ produced' = produced + 1
  /\ ev' = [ev EXCEPT !["runner"] = Event(k)]
  /\ asking' = IF k = "prompt" THEN produced + 1 ELSE asking
  /\ runner' = "count"
  /\ UNCHANGED <<queue, dropped, pc, copy, ai, pendVars, storeVars, emitted, listeners, connVars, outVars>>

\* A decision, or the end of the command.
Answered ==
  /\ asking # 0
  /\ asking' = 0
  /\ UNCHANGED <<produced, runner, queue, dropped, procVars, pendVars, storeVars, emitted, listeners, connVars, outVars>>

\* ListenerCount() = 0: the processor runs on the runner's goroutine.
CountListeners ==
  /\ runner = "count"
  /\ IF listeners = {}
       THEN /\ runner' = "idle"
            /\ pc' = [pc EXCEPT !["runner"] = "append"]
       ELSE /\ runner' = "send"
            /\ UNCHANGED pc
  /\ UNCHANGED <<produced, asking, queue, dropped, ev, copy, ai, pendVars, storeVars, emitted, listeners, connVars, outVars>>

SinkSend ==
  /\ runner = "send"
  /\ Len(queue) < SinkCap
  /\ queue' = Append(queue, ev["runner"])
  /\ runner' = "idle"
  /\ ev' = [ev EXCEPT !["runner"] = NoEvent]
  /\ UNCHANGED <<produced, asking, dropped, pc, copy, ai, pendVars, storeVars, emitted, listeners, connVars, outVars>>

\* Fault: the send waits for room without a time limit.
SinkWait ==
  /\ runner = "send"
  /\ FALSE
  /\ UNCHANGED streamVars

\* The channel has had no room for two seconds.
SinkTimeout ==
  /\ runner = "send"
  /\ Len(queue) = SinkCap
  /\ runner' = "idle"
  /\ dropped' = dropped \cup ({ev["runner"].id} \ {0})
  /\ ev' = [ev EXCEPT !["runner"] = NoEvent]
  /\ UNCHANGED <<produced, asking, queue, pc, copy, ai, pendVars, storeVars, emitted, listeners, connVars, outVars>>

WorkerTake ==
  /\ pc["worker"] = "idle"
  /\ queue # <<>>
  /\ ev' = [ev EXCEPT !["worker"] = Head(queue)]
  /\ queue' = Tail(queue)
  /\ pc' = [pc EXCEPT !["worker"] = "append"]
  /\ UNCHANGED <<runVars, copy, ai, pendVars, storeVars, emitted, listeners, connVars, outVars>>

\* A handler (stop, set_permission_mode, the start of a command) calls the
\* processor directly.
HandlerEmits(h) ==
  /\ pc[h] = "idle"
  /\ produced < MaxEvents
  /\ produced' = produced + 1
  /\ ev' = [ev EXCEPT ![h] = Event("reply")]
  /\ pc' = [pc EXCEPT ![h] = "append"]
  /\ UNCHANGED <<asking, runner, dropped, queue, copy, ai, pendVars, storeVars, emitted, listeners, connVars, outVars>>

-----------------------------------------------------------------------------
(* The processor emitAndPersistFor, run by any of Procs; the permission    *)
(* rules it tries first on a prompt are not part of this module.           *)

LastOf(s, n) == SubSeq(s, IF Len(s) > n THEN Len(s) - n + 1 ELSE 1, Len(s))

AppendPending(e) ==
  /\ cursor' = cursor + 1
  /\ pending' = LastOf(Append(pending, [e EXCEPT !.cursor = cursor + 1]), Limit)

ProcAppend(p) ==
  /\ pc[p] = "append"
  /\ AppendPending(ev[p])
  /\ ev' = [ev EXCEPT ![p].cursor = cursor + 1]
  /\ pc' = [pc EXCEPT ![p] = "count"]
  /\ UNCHANGED <<runVars, queue, copy, ai, storeVars, emitted, listeners, connVars, outVars>>

\* An assistant reply that nobody hears is followed by a resume notice.
ProcCount(p) ==
  /\ pc[p] = "count"
  /\ pc' = [pc EXCEPT ![p] = IF listeners = {} /\ ev[p].kind = "reply" THEN "notice" ELSE "emit"]
  /\ UNCHANGED <<runVars, queue, ev, copy, ai, pendVars, storeVars, emitted, listeners, connVars, outVars>>

ProcNotice(p) ==
  /\ pc[p] = "notice"
  /\ AppendPending([ev[p] EXCEPT !.kind = "notice"])
  /\ pc' = [pc EXCEPT ![p] = "emit"]
  /\ UNCHANGED <<runVars, queue, ev, copy, ai, storeVars, emitted, listeners, connVars, outVars>>

\* Emit: the event with cursor n goes to whoever listens.
EmitCursor(n) ==
  /\ emitted' = emitted \cup {n}
  /\ sent' = [c \in Conns |-> IF c \in listeners THEN sent[c] \cup {n} ELSE sent[c]]

\* A prompt is followed by an AI status event, any other event may be.
MaySkipStatus(p) == ev[p].kind # "prompt"

Done(p) ==
  /\ pc' = [pc EXCEPT ![p] = "idle"]
  /\ ev' = [ev EXCEPT ![p] = NoEvent]

\* Status events do not change the projection and are not saved.
ProcEmit(p) ==
  /\ pc[p] = "emit"
  /\ EmitCursor(ev[p].cursor)
  /\ prompts' = [c \in Conns |-> IF c \in listeners /\ ev[p].kind = "prompt"
                                   THEN prompts[c] \cup {ev[p].id} ELSE prompts[c]]
  /\ \/ ev[p].kind = "status" /\ Done(p)
     \/ /\ pc' = [pc EXCEPT ![p] = IF ev[p].kind = "status" THEN "status" ELSE "read"]
        /\ UNCHANGED ev
  /\ UNCHANGED <<runVars, queue, copy, ai, pendVars, storeVars, listeners, connVars>>

ProcRead(p) ==
  /\ pc[p] = "read"
  /\ copy' = [copy EXCEPT ![p] = store]
  /\ pc' = [pc EXCEPT ![p] = "save"]
  /\ UNCHANGED <<runVars, queue, ev, ai, pendVars, storeVars, emitted, listeners, connVars, outVars>>

\* SaveProjection replaces the projection by the one read, with the event
\* applied to it; its error is logged and forgotten.
ProcSave(p) ==
  /\ pc[p] = "save"
  /\ \/ store' = copy[p] \cup {ev[p].cursor}
     \/ store' = store
  /\ copy' = [copy EXCEPT ![p] = {}]
  /\ \/ pc' = [pc EXCEPT ![p] = "status"]
     \/ MaySkipStatus(p) /\ pc' = [pc EXCEPT ![p] = "mark"]
  /\ UNCHANGED <<runVars, queue, ev, ai, pendVars, persisted, high, emitted, listeners, connVars, outVars>>

\* emitAIStatusEvent: an event of its own, with the next cursor ...
ProcStatus(p) ==
  /\ pc[p] = "status"
  /\ AppendPending([NoEvent EXCEPT !.kind = "status"])
  /\ ai' = [ai EXCEPT ![p] = cursor + 1]
  /\ pc' = [pc EXCEPT ![p] = "tell"]
  /\ UNCHANGED <<runVars, queue, ev, copy, storeVars, emitted, listeners, connVars, outVars>>

\* ... emitted after that, and before the event it follows is marked.
ProcTell(p) ==
  /\ pc[p] = "tell"
  /\ EmitCursor(ai[p])
  /\ ai' = [ai EXCEPT ![p] = 0]
  /\ IF ev[p].kind = "status"
       THEN Done(p)
       ELSE pc' = [pc EXCEPT ![p] = "mark"] /\ UNCHANGED ev
  /\ UNCHANGED <<runVars, queue, copy, pendVars, storeVars, listeners, connVars, prompts>>

ProcMark(p) ==
  /\ pc[p] = "mark"
  /\ persisted' = ev[p].cursor
  /\ high' = IF ev[p].cursor > high THEN ev[p].cursor ELSE high
  /\ Done(p)
  /\ UNCHANGED <<runVars, queue, copy, ai, pendVars, store, emitted, listeners, connVars, outVars>>

-----------------------------------------------------------------------------
(* session_resume, on the connection's goroutine: switchRuntimeSession has *)
(* attached it before anything is read.                                    *)

\* The client names the cursor it saw last; the entry may have been made anew
\* since, and that cursor may be one it has yet to reach.
Attach(c) ==
  /\ conn[c] = "off"
  /\ conn' = [conn EXCEPT ![c] = "attached"]
  /\ listeners' = listeners \cup {c}
  /\ lastSeen' \in {[lastSeen EXCEPT ![c] = k] : k \in Seen}
  /\ UNCHANGED <<runVars, queue, procVars, pendVars, storeVars, emitted, from, need, outVars>>

\* Fault: the resume starts from the newest cursor.
ResumeFromLatest(c) ==
  /\ conn[c] = "attached"
  /\ from' = [from EXCEPT ![c] = cursor]
  /\ conn' = [conn EXCEPT ![c] = "cursor"]
  /\ UNCHANGED <<runVars, queue, procVars, pendVars, storeVars, emitted, listeners, lastSeen, need, outVars>>

\* effectiveCursor: what the client saw, or what is persisted.
ResumeCursor(c) ==
  /\ conn[c] = "attached"
  /\ from' = [from EXCEPT ![c] = IF persisted > lastSeen[c] THEN persisted ELSE lastSeen[c]]
  /\ conn' = [conn EXCEPT ![c] = "cursor"]
  /\ UNCHANGED <<runVars, queue, procVars, pendVars, storeVars, emitted, listeners, lastSeen, need, outVars>>

CurrentPermission(c) ==
  /\ conn[c] = "cursor"
  /\ need' = [need EXCEPT ![c] = asking]
  /\ conn' = [conn EXCEPT ![c] = "replay"]
  /\ UNCHANGED <<runVars, queue, procVars, pendVars, storeVars, emitted, listeners, lastSeen, from, outVars>>

PendingSince(k) == {pending[i] : i \in {j \in 1 .. Len(pending) : pending[j].cursor > k}}

Replay(c, refreshed) ==
  LET events == PendingSince(from[c])
  IN  /\ conn[c] = "replay"
      /\ sent' = [sent EXCEPT ![c] = @ \cup {e.cursor : e \in events}]
      /\ prompts' = [prompts EXCEPT ![c] = @ \cup {e.id : e \in {x \in events : x.kind = "prompt"}} \cup refreshed]
      /\ conn' = [conn EXCEPT ![c] = "live"]
      /\ UNCHANGED <<runVars, queue, procVars, pendVars, storeVars, emitted, listeners, lastSeen, from, need>>

\* Fault: the prompt is left to the replay.
ReplayOnly(c) == Replay(c, {})

\* The replay, and the prompt of the current request if it was not part of it:
\* the latest pending one, or one made anew from the runtime's meta.
ReplayAndRefresh(c) == Replay(c, {need[c]} \ {0})

Close(c) ==
  /\ conn[c] # "off"
  /\ conn' = [conn EXCEPT ![c] = "off"]
  /\ listeners' = listeners \ {c}
  /\ lastSeen' = [lastSeen EXCEPT ![c] = 0]
  /\ from' = [from EXCEPT ![c] = 0]
  /\ need' = [need EXCEPT ![c] = 0]
  /\ sent' = [sent EXCEPT ![c] = {}]
  /\ prompts' = [prompts EXCEPT ![c] = {}]
  /\ UNCHANGED <<runVars, queue, procVars, pendVars, storeVars, emitted>>

-----------------------------------------------------------------------------

RunnerSink == CountListeners \/ SinkSend \/ SinkTimeout

Process(p) ==
  \/ ProcAppend(p) \/ ProcCount(p) \/ ProcNotice(p) \/ ProcEmit(p)
  \/ ProcRead(p) \/ ProcSave(p) \/ ProcStatus(p) \/ ProcTell(p) \/ ProcMark(p)

Serve(c) == Attach(c) \/ ResumeCursor(c) \/ CurrentPermission(c) \/ ReplayAndRefresh(c) \/ Close(c)

StreamNext ==
  \/ \E k \in {"reply", "prompt", "status"} : Produce(k)
  \/ Answered \/ RunnerSink \/ WorkerTake
  \/ \E h \in Handlers : HandlerEmits(h)
  \/ \E p \in Procs : Process(p)
  \/ \E c \in Conns : Serve(c)

StreamSpec == StreamInit /\ [][StreamNext]_streamVars

\* Goroutines run and the two-second timer fires; a worker may be held up in a
\* listener for ever, so nothing is assumed of it.
StreamFairSpec == StreamSpec /\ WF_streamVars(RunnerSink)

-----------------------------------------------------------------------------
(* Properties.                                                             *)

\* The variables keep their types.
StreamTypeOK ==
  /\ produced \in 0 .. MaxEvents /\ asking \in 0 .. produced
  /\ runner \in {"idle", "count", "send"}
  /\ Len(queue) <= SinkCap /\ \A i \in 1 .. Len(queue) : queue[i] \in Events
  /\ dropped \subseteq 1 .. produced
  /\ pc \in [Procs -> {"idle", "append", "count", "notice", "emit", "read", "save", "status", "tell", "mark"}]
  /\ ev \in [Procs -> Events]
  /\ cursor \in 0 .. LastCursor
  /\ ai \in [Procs -> 0 .. cursor]
  /\ \A p \in Procs : copy[p] \subseteq 1 .. cursor
  /\ store \cup emitted \subseteq 1 .. cursor
  /\ persisted \in 0 .. high /\ high \in 0 .. cursor
  /\ listeners \subseteq Conns
  /\ conn \in [Conns -> {"off", "attached", "cursor", "replay", "live"}]
  /\ lastSeen \in [Conns -> Seen \cup {0}] /\ from \in [Conns -> Seen \cup 0 .. cursor]
  /\ need \in [Conns -> 0 .. produced]
  /\ sent \in [Conns -> SUBSET (1 .. cursor)] /\ prompts \in [Conns -> SUBSET (1 .. produced)]

\* A resumed client has been given, live or by the replay, every emitted event
\* later than the cursor it says it saw (which the entry may have yet to reach),
\* that has never been taken for persisted and that was not cut off by the limit:
\* nothing falls between the replay and the stream (gateway.go:898-941).
NoGapAfterResume ==
  \A c \in Conns : conn[c] = "live" =>
    \A e \in emitted : (e > lastSeen[c] /\ e > high /\ e > cursor - Limit) => e \in sent[c]

\* While the runner waits for a permission, a resumed client has its prompt as
\* soon as it has gone through the sink, even if the prompt is persisted, cut
\* off or seen before: the request can be answered.
PromptReachesClient ==
  \A c \in Conns : (conn[c] = "live" /\ asking # 0 /\ asking \notin prompts[c]) =>
    \/ asking \in dropped
    \/ runner # "idle" /\ ev["runner"].id = asking
    \/ \E i \in 1 .. Len(queue) : queue[i].id = asking
    \/ \E p \in Procs : ev[p].id = asking /\ pc[p] \in {"append", "count", "notice", "emit"}

\* A worker that is stuck in a listener with a full channel does not stop the
\* runner: each event costs it two seconds at most.
RunnerNeverStalls == (runner = "send") ~> (runner = "idle")

\* PersistedCursor is the cursor of an event that is in the stored projection.
PersistedIsStored == persisted # 0 => persisted \in store
=============================================================================
