------------------------------- MODULE Wizard -------------------------------
(***************************************************************************)
(* The wizard of the desktop application: cmd/agentui/app.go, the entries  *)
(* that desktop/wizard keeps in memory/memstore.go, and the preferences of *)
(* cognition/intake and cognition/vibe, which are entries of the same      *)
(* store.  The user's window calls the application's methods, each on a    *)
(* goroutine of its own; a stage can be submitted again, and nothing keeps *)
(* two calls apart.                                                        *)
(*                                                                         *)
(* An entry of the store is replaced by its id under a lock and none of    *)
(* these expires.  A product is the submission it comes from, of which the *)
(* decision style and the role that intake infers are kept.  The stages    *)
(* that only write their product are one stage here, user_intent.          *)
(***************************************************************************)
EXTENDS Integers, Sequences

CONSTANTS
  Windows,        \* calls of the application that can be running at a time
  MaxSubmits      \* bound: submissions

Stages == {"user_intent", "project_intent", "ui_spec", "decision_style"}
Roles == {"developer", "reviewer"}
Moods == {"passive", "balanced", "active"}

VARIABLES
  product,        \* product[st]: the submission whose product is stored, or 0
  cursor,         \* the cursor's entry: current stage, completed stages
  newest,         \* the newest long-term entry about dialogue: whose it is
  inferred,       \* the role in the intake's entry
  vibeStored,     \* the state in the vibe's entry
  vibeCache,      \* Controller.cache for the session: <<>> or <<state>>
  callOf,         \* callOf[w]: the stage submitted, its number, what it says, its step,
                  \* the vibe state or the cursor it has read
  submits,        \* the submissions so far: their stages
  returned,       \* submissions that have returned
  styleSaid,      \* the decision style's product
  cursorRaced,    \* history: a cursor was saved over one that it had not been read from
  vibeRaced       \* history: two calls were changing the vibe state at a time

wizardVars == <<product, cursor, newest, inferred, vibeStored, vibeCache, callOf, submits,
                returned, styleSaid, cursorRaced, vibeRaced>>

\* defaultState. The style is set nowhere but here and by intake: it goes as the role does.
DefaultVibe == [role |-> "developer", mood |-> "balanced"]
NoCursor == [at |-> "user_intent", done |-> {}]
NoCall == [stage |-> "none", n |-> 0, says |-> "", step |-> "free", vibe |-> DefaultVibe, cur |-> NoCursor]

\* StartSession has saved the cursor; one that was never saved is read the same.
WizardInit ==
  /\ product = [st \in Stages |-> 0] /\ cursor = NoCursor
  /\ newest = "none" /\ inferred = "developer" /\ vibeStored = DefaultVibe /\ vibeCache = <<>>
  /\ callOf = [w \in Windows |-> NoCall] /\ submits = <<>> /\ returned = {}
  /\ styleSaid = "none" /\ cursorRaced = FALSE /\ vibeRaced = FALSE

StepIs(w, steps) == callOf[w].step \in steps
CallGoes(w, step) == callOf' = [callOf EXCEPT ![w].step = step]

-----------------------------------------------------------------------------
(* A call.                                                                 *)

\* What the next of a stage is; user_intent stands for the plain ones.
NextStage(st) ==
  CASE st = "user_intent" -> "project_intent" [] st = "project_intent" -> "ui_spec"
    [] st = "ui_spec" -> "interaction_logic" [] OTHER -> "executing"

Saying(st) == CASE st = "project_intent" -> Roles [] st = "decision_style" -> Moods [] OTHER -> {""}

\* SubmitUserIntent, SubmitProjectIntent, SubmitUISpec, ..., SubmitDecisionStyle.
\* Calls that are not running are alike: one of them stands for all.
Submit(w) ==
  /\ StepIs(w, {"free"}) /\ w = CHOOSE x \in Windows : StepIs(x, {"free"})
  /\ Len(submits) < MaxSubmits
  /\ \E st \in Stages : \E x \in Saying(st) :
       /\ submits' = Append(submits, st)
       /\ callOf' = [callOf EXCEPT ![w] =
            [NoCall EXCEPT !.stage = st, !.n = Len(submits'), !.says = x,
                           !.step = IF st = "project_intent" THEN "intake" ELSE "write"]]
  /\ UNCHANGED <<product, cursor, newest, inferred, vibeStored, vibeCache, returned, styleSaid, cursorRaced, vibeRaced>>

\* SessionIntake.Run: of its three entries the preference is a long-term one about dialogue.
IntakeRuns(w) ==
  /\ StepIs(w, {"intake"})
  /\ inferred' = callOf[w].says /\ newest' = "intake"
  /\ CallGoes(w, "write")
  /\ UNCHANGED <<product, cursor, vibeStored, vibeCache, submits, returned, styleSaid, cursorRaced, vibeRaced>>

\* WriteUserIntent, WriteProjectIntent, WriteUIPrompt, ..., WriteDecisionStyle.
WriteProduct(w) ==
  LET st == callOf[w].stage
  IN /\ StepIs(w, {"write"})
     /\ product' = [product EXCEPT ![st] = callOf[w].n]
     /\ newest' = IF st \in {"user_intent", "decision_style"} THEN st ELSE newest
     /\ styleSaid' = IF st = "decision_style" THEN callOf[w].says ELSE styleSaid
     /\ CallGoes(w, IF st = "decision_style" THEN "get" ELSE "load")
     /\ UNCHANGED <<cursor, inferred, vibeStored, vibeCache, submits, returned, cursorRaced, vibeRaced>>

-----------------------------------------------------------------------------
(* vibe.Controller: UpdateProactivity, that is Get and Set.                *)

\* parseVibeContent: what is no key=value is passed over, and what an entry does
\* not say is the default.
Parsed(owner) ==
  CASE owner = "vibe" -> vibeStored
    [] owner = "intake" -> [DefaultVibe EXCEPT !.role = inferred]
    [] OTHER -> DefaultVibe

\* MemStore.Query for one long-term entry about dialogue: the newest, whoever wrote it.
ParseNewest == Parsed(newest)

VibeCalls == {w \in Windows : callOf[w].step \in {"get", "fill", "set", "keep"}}

VibeGet(w) ==
  /\ StepIs(w, {"get"})
  /\ callOf' = [callOf EXCEPT ![w].vibe = IF vibeCache # <<>> THEN Head(vibeCache) ELSE ParseNewest,
                              ![w].step = IF vibeCache # <<>> THEN "set" ELSE "fill"]
  /\ vibeRaced' = (vibeRaced \/ VibeCalls # {w})
  /\ UNCHANGED <<product, cursor, newest, inferred, vibeStored, vibeCache, submits, returned, styleSaid, cursorRaced>>

\* What was read is put in the cache, over what may be there by now.
VibeFill(w) ==
  /\ StepIs(w, {"fill"})
  /\ vibeCache' = <<callOf[w].vibe>>
  /\ CallGoes(w, "set")
  /\ UNCHANGED <<product, cursor, newest, inferred, vibeStored, submits, returned, styleSaid, cursorRaced, vibeRaced>>

VibeSet(w) ==
  LET state == [callOf[w].vibe EXCEPT !.mood = callOf[w].says]
  IN /\ StepIs(w, {"set"})
     /\ vibeCache' = <<state>>
     /\ callOf' = [callOf EXCEPT ![w].vibe = state, ![w].step = "keep"]
     /\ UNCHANGED <<product, cursor, newest, inferred, vibeStored, submits, returned, styleSaid, cursorRaced, vibeRaced>>

VibeKeep(w) ==
  /\ StepIs(w, {"keep"})
  /\ vibeStored' = callOf[w].vibe /\ newest' = "vibe"
  /\ CallGoes(w, "load")
  /\ UNCHANGED <<product, cursor, inferred, vibeCache, submits, returned, styleSaid, cursorRaced, vibeRaced>>

-----------------------------------------------------------------------------
(* wizard.Advance: LoadCursor and SaveCursor.                              *)

\* Fault: where the user goes next replaces what is done.
AdvancedAnew(cur, st) == [at |-> NextStage(st), done |-> {st}]

Advanced(cur, st) == [at |-> NextStage(st), done |-> cur.done \cup {st}]

LoadCursor(w) ==
  /\ StepIs(w, {"load"})
  /\ callOf' = [callOf EXCEPT ![w].cur = cursor, ![w].step = "save"]
  /\ UNCHANGED <<product, cursor, newest, inferred, vibeStored, vibeCache, submits, returned, styleSaid, cursorRaced, vibeRaced>>

SaveCursor(w) ==
  /\ StepIs(w, {"save"})
  /\ cursor' = Advanced(callOf[w].cur, callOf[w].stage)
  /\ cursorRaced' = (cursorRaced \/ callOf[w].cur # cursor)
  /\ returned' = returned \cup {callOf[w].n}
  /\ callOf' = [callOf EXCEPT ![w] = NoCall]
  /\ UNCHANGED <<product, newest, inferred, vibeStored, vibeCache, submits, styleSaid, vibeRaced>>

WizardNext ==
  \E w \in Windows :
    \/ Submit(w) \/ IntakeRuns(w) \/ WriteProduct(w)
    \/ VibeGet(w) \/ VibeFill(w) \/ VibeSet(w) \/ VibeKeep(w)
    \/ LoadCursor(w) \/ SaveCursor(w)

WizardSpec == WizardInit /\ [][WizardNext]_wizardVars

-----------------------------------------------------------------------------
(* StartExecution, LoadSnapshot, Tags: what is made of the entries.        *)

\* LoadSnapshot: the products that are stored.
Snapshot == {st \in Stages : product[st] # 0}

\* composeExecutionPrompt tells the decision style of the snapshot.
PromptTold == IF "decision_style" \in Snapshot THEN styleSaid ELSE "none"

\* Tags, which the scheduler's rule adds to an intent.
VibeTold == IF vibeCache # <<>> THEN Head(vibeCache) ELSE ParseNewest

\* A stage counts as completed only with its product in the store, also when
\* calls got into each other's way, and none that was submitted is lost, unless
\* two calls had read the same cursor. The two places that tell an agent how much
\* to do by itself agree as long as no two calls were changing the preference.
WizardFollowsSubmits ==
  /\ cursor.done \subseteq Snapshot
  /\ ~cursorRaced => \A n \in returned : submits[n] \in cursor.done
  /\ (~vibeRaced /\ VibeCalls = {} /\ PromptTold # "none") => VibeTold.mood = PromptTold
=============================================================================
