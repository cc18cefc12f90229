----------------------------- MODULE Projection -----------------------------
(***************************************************************************)
(* session/projection_apply.go, projection_events.go and projector.go with *)
(* the handlers of gateway/gateway.go that use them: the projection of one *)
(* session, its log and its diffs under review, folded from the events of  *)
(* the run; the client's decisions on the diffs; and session_delta_get,    *)
(* which sends a client what it lacks of the log by count and cursor.      *)
(*                                                                         *)
(* Text is abstracted: an entry is the set of the events it shows.  The    *)
(* sink's worker and the connection's goroutine both read the stored       *)
(* projection, change it and save it whole.                                *)
(***************************************************************************)
EXTENDS Integers, Sequences, FiniteSets, FiniteSetsExt, Selection

CONSTANTS
  Paths,        \* files with changes to review
  Execs,        \* executions: the groups of a review
  MaxHappened,  \* bound: events
  MaxDecided    \* bound: decisions, and changes to the mode that accepts all

VARIABLES
  stored,       \* the stored projection: its log and diffs
  happened,     \* events so far: LatestCursor
  begun,        \* executions and files that have had an event
  worker,       \* the sink's worker: the event it works on, the projection it has read
  decided,      \* decisions so far
  handler,      \* the connection's goroutine: decision, projection read
  autoAccept,   \* the permission mode accepts changes
  fetch,        \* session_delta_get: the projection read
  client,       \* what the client has: log, cursor (of its latest delta)
  rewritten,    \* history: an entry that the client has was changed in place
  overtaken,    \* history: an event was saved after the read of the delta whose
                \* cursor covers it
  lost          \* history: a delta has left the client without the log it was made
                \* from, and neither of the two explains it

excuses == <<rewritten, overtaken>>
projectionVars == <<stored, happened, begun, worker, decided, handler, autoAccept, fetch, client, excuses, lost>>

EmptyProjection == [log |-> <<>>, diffs |-> <<>>]
NoHappening == [kind |-> "none", n |-> 0, exec |-> "", path |-> "", covers |-> {}]
NoDecision == [kind |-> "none", path |-> ""]

ProjectionInit ==
  /\ stored = EmptyProjection /\ happened = 0 /\ begun = {}
  /\ worker = [step |-> "idle", e |-> NoHappening, copy |-> EmptyProjection]
  /\ decided = 0 /\ handler = [step |-> "idle", d |-> NoDecision, copy |-> EmptyProjection]
  /\ autoAccept = FALSE
  /\ fetch = [step |-> "idle", copy |-> EmptyProjection]
  /\ client = [log |-> <<>>, cursor |-> 0]
  /\ rewritten = FALSE /\ overtaken = FALSE /\ lost = FALSE

-----------------------------------------------------------------------------
(* ApplyEventToProjection.                                                 *)

\* removeSupersededAssistantLogEntry: from the end, the run of entries of the
\* execution whose text the reply repeats; entries of other executions, and
\* other kinds of entries, are passed over until the first one is found.
Superseded(log, e) ==
  LET relevant(i) == log[i].kind \in {"terminal", "markdown"} /\ log[i].exec = e.exec
      repeated(i) == relevant(i) /\ log[i].of \subseteq e.covers
  IN {i \in DOMAIN log :
        /\ repeated(i)
        /\ \A j \in i + 1 .. Len(log) :
             /\ relevant(j) => repeated(j)
             /\ relevant(j) \/ ~\E k \in j + 1 .. Len(log) : repeated(k)}

Without(log, S) == EntriesAt(log, DOMAIN log \ S)

\* Terminal output grows the last entry when that is terminal output of the
\* same execution; a reply replaces what it repeats; the rest is appended.  The
\* beginning and end of an execution are entered as a reply that repeats nothing
\* is, a step or an error as a diff is.
ApplyToLog(log, e) ==
  LET entry(kind) == [kind |-> kind, exec |-> e.exec, of |-> {e.n} \cup e.covers]
      last == Len(log)
      grows == last > 0 /\ log[last].kind = "terminal" /\ log[last].exec = e.exec
  IN CASE e.kind = "line" -> IF grows THEN [log EXCEPT ![last].of = @ \cup {e.n}]
                                      ELSE Append(log, entry("terminal"))
       [] e.kind = "reply" -> Append(Without(log, Superseded(log, e)), entry("markdown"))
       [] OTHER -> Append(log, entry(e.kind))

\* upsertSnapshotDiff: the file's entry is replaced where it stands.
UpsertDiff(diffs, diff) ==
  IF \E i \in DOMAIN diffs : diffs[i].path = diff.path
    THEN [i \in DOMAIN diffs |-> IF diffs[i].path = diff.path THEN diff ELSE diffs[i]]
    ELSE Append(diffs, diff)

Apply(p, e) ==
  [log |-> ApplyToLog(p.log, e),
   diffs |-> IF e.kind # "diff" THEN p.diffs
             ELSE UpsertDiff(p.diffs, [path |-> e.path, exec |-> e.exec, pending |-> ~autoAccept,
                                       status |-> IF autoAccept THEN "accepted" ELSE "pending"])]

\* ApplyReviewDecisionToProjection: a change that is to be revised stays pending.
ApplyReview(p, d) ==
  LET status == [accept |-> "accepted", revert |-> "reverted", revise |-> "revised"][d.kind]
  IN [p EXCEPT !.diffs = [i \in DOMAIN @ |->
        IF @[i].path = d.path THEN [@[i] EXCEPT !.pending = (d.kind = "revise"), !.status = status] ELSE @[i]]]

ApplyAutoAcceptance(p) ==
  [p EXCEPT !.diffs = [i \in DOMAIN @ |->
        IF @[i].pending THEN [@[i] EXCEPT !.pending = FALSE, !.status = "accepted"] ELSE @[i]]]

-----------------------------------------------------------------------------
(* RebuildReviewGroups and the choices of what is shown for review.        *)

\* Where the groups begin, in the order of their first diff.
Groups(diffs) == {i \in DOMAIN diffs : \A j \in 1 .. i - 1 : diffs[j].exec # diffs[i].exec}
Members(diffs, g) == {i \in DOMAIN diffs : diffs[i].exec = diffs[g].exec}
GroupPending(diffs, g) == \E i \in Members(diffs, g) : diffs[i].pending

GroupStatus(diffs, g) ==
  LET members == Members(diffs, g)
  IN IF \A i \in members : diffs[i].pending
     THEN "pending"
     ELSE IF \E s \in {"accepted", "reverted", "revised"} : \A i \in members : diffs[i].status = s
          THEN diffs[g].status
          ELSE "mixed"

\* Fault: the newest group is shown whatever its state.
NewestReviewGroup(diffs) == Max(Groups(diffs))

\* The latest group with a change to review, or the latest.
PickActiveReviewGroup(diffs) ==
  LET open == {g \in Groups(diffs) : GroupPending(diffs, g)}
  IN Max(IF open # {} THEN open ELSE Groups(diffs))

\* The group's first file to review, or its last.
PickActiveReviewFile(diffs, g) ==
  LET open == {i \in Members(diffs, g) : diffs[i].pending}
  IN IF open # {} THEN Min(open) ELSE Max(Members(diffs, g))

\* The latest diff to review, or the latest.
PickActiveSnapshotDiff(diffs) ==
  LET open == {i \in DOMAIN diffs : diffs[i].pending}
  IN IF open # {} THEN Max(open) ELSE Len(diffs)

-----------------------------------------------------------------------------
(* The worker of the sink: emitAndPersistFor.                              *)

\* Executions and files without an event are alike: one of them stands for all.
Known(S) == (S \cap begun) \cup (IF S \subseteq begun THEN {} ELSE {CHOOSE x \in S \ begun : TRUE})

Happenings ==
  [kind : {"line"}, n : {happened + 1}, exec : Known(Execs), path : {""}, covers : {{}}]
    \cup [kind : {"reply"}, n : {happened + 1}, exec : Known(Execs), path : {""},
          covers : {{}, 1 .. happened}]
    \cup [kind : {"diff"}, n : {happened + 1}, exec : Known(Execs), path : Known(Paths), covers : {{}}]

\* AppendPending has given the event the next cursor.
WorkerStarts ==
  /\ worker.step = "idle"
  /\ happened < MaxHappened
  /\ happened' = happened + 1
  /\ \E e \in Happenings :
       /\ worker' = [worker EXCEPT !.step = "read", !.e = e]
       /\ begun' = begun \cup {e.exec} \cup (IF e.path = "" THEN {} ELSE {e.path})
  /\ UNCHANGED <<stored, decided, handler, autoAccept, fetch, client, excuses, lost>>

WorkerReads ==
  /\ worker.step = "read"
  /\ worker' = [worker EXCEPT !.step = "save", !.copy = stored]
  /\ UNCHANGED <<stored, happened, begun, decided, handler, autoAccept, fetch, client, excuses, lost>>

Saves(p) ==
  /\ stored' = p
  /\ rewritten' = (rewritten \/ \E i \in DOMAIN client.log : i <= Len(p.log) /\ p.log[i] # stored.log[i])

WorkerSaves ==
  /\ worker.step = "save"
  /\ Saves(Apply(worker.copy, worker.e))
  /\ overtaken' = (overtaken \/ worker.e.n <= client.cursor)
  /\ worker' = [step |-> "idle", e |-> NoHappening, copy |-> EmptyProjection]
  /\ UNCHANGED <<happened, begun, decided, handler, autoAccept, fetch, client, lost>>

-----------------------------------------------------------------------------
(* The connection's goroutine: review_decision and set_permission_mode.    *)

\* The projection is read before the service sends the decision to the runner.
ReviewDecision(d) ==
  /\ handler.step = "idle" /\ fetch.step = "idle" /\ decided < MaxDecided
  /\ \E i \in DOMAIN stored.diffs : stored.diffs[i].path = d.path
  /\ decided' = decided + 1
  /\ handler' = [step |-> "save", d |-> d, copy |-> stored]
  /\ UNCHANGED <<stored, happened, begun, worker, autoAccept, fetch, client, excuses, lost>>

SetPermissionMode(accepting) ==
  /\ handler.step = "idle" /\ fetch.step = "idle"
  /\ autoAccept' = accepting
  /\ IF accepting
       THEN /\ decided < MaxDecided /\ decided' = decided + 1
            /\ handler' = [handler EXCEPT !.step = "read"]
       ELSE UNCHANGED <<decided, handler>>
  /\ UNCHANGED <<stored, happened, begun, worker, fetch, client, excuses, lost>>

HandlerReads ==
  /\ handler.step = "read"
  /\ handler' = [handler EXCEPT !.step = "save", !.copy = stored]
  /\ UNCHANGED <<stored, happened, begun, worker, decided, autoAccept, fetch, client, excuses, lost>>

HandlerSaves ==
  /\ handler.step = "save"
  /\ Saves(IF handler.d = NoDecision THEN ApplyAutoAcceptance(handler.copy) ELSE ApplyReview(handler.copy, handler.d))
  /\ handler' = [step |-> "idle", d |-> NoDecision, copy |-> EmptyProjection]
  /\ UNCHANGED <<happened, begun, worker, decided, autoAccept, fetch, client, overtaken, lost>>

\* The service could not send the decision: nothing is saved.
DecisionFails ==
  /\ handler.step = "save" /\ handler.d # NoDecision
  /\ handler' = [step |-> "idle", d |-> NoDecision, copy |-> EmptyProjection]
  /\ UNCHANGED <<stored, happened, begun, worker, decided, autoAccept, fetch, client, excuses, lost>>

-----------------------------------------------------------------------------
(* session_delta_get, on the same goroutine: the projection is read first, *)
(* LatestCursor next.                                                      *)

DeltaReads ==
  /\ handler.step = "idle" /\ fetch.step = "idle"
  /\ fetch' = [step |-> "send", copy |-> stored]
  /\ UNCHANGED <<stored, happened, begun, worker, decided, handler, autoAccept, client, excuses, lost>>

\* Fault: a client that has more entries than there are is not started over.
DeltaStartTrusting(log) ==
  IF happened > 0 /\ client.cursor >= happened THEN Len(log) ELSE Len(client.log)

\* How many entries of the log the client is taken to have: all of them when it
\* has the latest cursor, none when it claims more than there are.
DeltaStart(log) ==
  LET start == IF happened > 0 /\ client.cursor >= happened THEN Len(log) ELSE Len(client.log)
  IN IF start > Len(log) THEN 0 ELSE start

\* SessionDeltaEventFromRecord; a client that is told to sync in full takes the
\* log it is sent for the whole.
DeltaSends ==
  LET log == fetch.copy.log
      start == DeltaStart(log)
      added == SubSeq(log, start + 1, Len(log))
      full == start = 0 /\ Len(client.log) > 0
  IN /\ fetch.step = "send"
     /\ client' = [log |-> IF full THEN added ELSE client.log \o added, cursor |-> happened]
     /\ lost' = \/ lost
                \/ /\ client'.log # log
                   /\ ~overtaken
                   /\ ~(rewritten /\ Len(client.log) <= Len(log))
     /\ overtaken' = ((overtaken /\ ~full) \/ log # stored.log)
     /\ rewritten' = (rewritten /\ ~full)
     /\ fetch' = [step |-> "idle", copy |-> EmptyProjection]
     /\ UNCHANGED <<stored, happened, begun, worker, decided, handler, autoAccept>>

ProjectionNext ==
  \/ WorkerStarts \/ WorkerReads \/ WorkerSaves
  \/ \E k \in {"accept", "revert", "revise"}, f \in Paths : ReviewDecision([kind |-> k, path |-> f])
  \/ \E b \in BOOLEAN : SetPermissionMode(b)
  \/ HandlerReads \/ HandlerSaves \/ DecisionFails \/ DeltaReads \/ DeltaSends

ProjectionSpec == ProjectionInit /\ [][ProjectionNext]_projectionVars

-----------------------------------------------------------------------------
(* Properties.                                                             *)

ProjectionTypeOK ==
  /\ happened \in 0 .. MaxHappened /\ decided \in 0 .. MaxDecided
  /\ \A p \in {stored, worker.copy, handler.copy, fetch.copy} :
       /\ \A i \in DOMAIN p.log : p.log[i].kind \in {"terminal", "markdown", "diff"} /\ p.log[i].of \subseteq 1 .. happened
       /\ \A i \in DOMAIN p.diffs : p.diffs[i].path \in Paths /\ p.diffs[i].exec \in Execs
  /\ client.cursor \in 0 .. happened

\* As long as a change waits for review, whatever has been decided, replaced or
\* overwritten by a stale save, what is shown for review is such a change: the
\* active group, its current file and the current diff are open ones; and the
\* group's status says so unless its files differ.
OpenReviewShown ==
  LET diffs == stored.diffs
      g == PickActiveReviewGroup(diffs)
  IN (\E i \in DOMAIN diffs : diffs[i].pending) =>
       /\ diffs[PickActiveReviewFile(diffs, g)].pending
       /\ diffs[PickActiveSnapshotDiff(diffs)].pending
       /\ GroupStatus(diffs, g) \in {"pending", "mixed"}

\* What a client puts together from deltas is the log they were made from. What
\* it may miss is what was changed in place under its count, and what was saved
\* when the cursor it had been given covered it; a log that has become shorter
\* than the client's is always sent anew.
DeltasMakeTheLog == ~lost
=============================================================================
