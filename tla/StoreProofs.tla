---------------------------- MODULE StoreProofs -----------------------------
(***************************************************************************)
(* What is proved of the parts that keep something, each for itself: the    *)
(* record files and their index, what agentd learns, and the wizard.        *)
(***************************************************************************)
EXTENDS FileStore, Learning, Wizard, FiniteSetTheorems, TLAPS

-----------------------------------------------------------------------------
(* What the index says of the records survives every crash outside of a     *)
(* write of the index itself, for any set of sessions.                      *)

StoreCalls == {"create", "upsert", "save", "delete", "list"}
StoreSteps == {"record", "fill", "index", "open", "write"}

\* A call under way.
StoreOps == [kind : StoreCalls, s : Stored \cup {"none"}, step : StoreSteps, to : SUBSET Stored]

StoreTypes ==
  /\ rec \in [Stored -> {"none", "blank", "kept", "cut"}]
  /\ indexFile \in {"fine", "empty", "cut"} /\ emptied \in BOOLEAN
  /\ op = Idle \/ op \in StoreOps

\* A call is at a step of its own kind, and works on a session that there is.
OpOK ==
  op # Idle =>
    /\ op.kind # "list" => op.s \in Stored
    /\ op.kind = "list" => op.step \in {"open", "write"}
    /\ op.kind = "delete" => op.step \in {"index", "open", "write"} /\ rec[op.s] = "none" /\ op.s \in halfDeleted
    /\ op.kind \in {"create", "upsert", "save"} /\ op.step \in {"index", "open", "write"} => rec[op.s] # "none"
    /\ op.kind \in {"create", "upsert", "save"} /\ op.step = "fill" => rec[op.s] = "cut"

\* Of the sessions in S, those without a record are half deleted, and the ones
\* with content are all there unless the index was cut short.
Follows(S) ==
  /\ \A s \in S : s \in Stored /\ (rec[s] = "none" => s \in halfDeleted)
  /\ ~emptied => listed \subseteq S

\* What is listed has a record with content, readable or not.
ListedKept == \A s \in listed : s \in Stored /\ rec[s] \in {"kept", "cut"}

IndexOK == op.step # "write" => Follows(Indexed)

NextIndexOK ==
  op.step \in {"open", "write"} =>
    /\ Follows(op.to)
    /\ op.kind = "delete" => op.s \notin op.to
    /\ op.kind \in {"create", "upsert", "save"} => op.s \in op.to

\* The inductive invariant: what the file says follows the records, and while
\* the file is being replaced, what it is to say does.
StoreInv == StoreTypes /\ OpOK /\ ListedKept /\ IndexOK /\ NextIndexOK /\ (indexFile = "cut" => index = {})

LEMMA IdleIsNone == Idle.kind = "none" /\ Idle.step = "none" /\ Idle.s = "none"
  BY DEF Idle

LEMMA StoreBegins == StoreInit => StoreInv
  BY IdleIsNone DEF StoreInit, StoreInv, StoreTypes, OpOK, ListedKept, IndexOK, NextIndexOK, Follows, Indexed, Idle, StoreOps

\* A call begins, and nothing is written yet.
LEMMA BeginKeepsStore ==
  ASSUME StoreInv, NEW s \in Stored, CreateSession(s) \/ UpsertSession(s) \/ SaveProjection(s)
  PROVE  StoreInv'
<1>1. PICK k \in {"create", "upsert", "save"} : Begins(k, s, "record")
  BY DEF CreateSession, UpsertSession, SaveProjection
<1>2. UNCHANGED <<rec, index, indexFile, stale, listed, emptied, halfDeleted>> /\ op = Idle
  BY <1>1 DEF CreateSession, UpsertSession, SaveProjection, Begins
<1>3. /\ op' \in StoreOps
      /\ op'.step = "record" /\ op'.s = s /\ op'.kind = k
  BY <1>1 DEF Begins, StoreCalls, StoreSteps, StoreOps
<1> QED  BY <1>1, <1>2, <1>3, IdleIsNone
            DEF StoreInv, StoreTypes, OpOK, ListedKept, IndexOK, NextIndexOK, Follows, Indexed

LEMMA DeleteKeepsStore ==
  ASSUME StoreInv, NEW s \in Stored, DeleteSession(s)
  PROVE  StoreInv'
<1>1. /\ op = Idle /\ op' = [kind |-> "delete", s |-> s, step |-> "index", to |-> {}]
      /\ rec' = [rec EXCEPT ![s] = "none"] /\ listed' = listed \ {s}
      /\ halfDeleted' = halfDeleted \cup {s} /\ UNCHANGED <<index, indexFile, emptied>>
  BY DEF DeleteSession, Begins
<1>2. /\ op' \in StoreOps
      /\ op'.step = "index" /\ op'.s = s /\ op'.kind = "delete"
  BY <1>1 DEF StoreCalls, StoreSteps, StoreOps
<1>3. /\ rec' \in [Stored -> {"none", "blank", "kept", "cut"}] /\ rec'[s] = "none"
      /\ \A x \in Stored : x # s => rec'[x] = rec[x]
  BY <1>1 DEF StoreInv, StoreTypes
<1>4. StoreTypes' /\ OpOK'
  BY <1>1, <1>2, <1>3 DEF StoreInv, StoreTypes, OpOK
<1>5. Follows(Indexed)'
  BY <1>1, <1>3, IdleIsNone DEF StoreInv, IndexOK, Follows, Indexed
<1>6. ListedKept'
  BY <1>1, <1>3 DEF StoreInv, ListedKept
<1> QED  BY <1>1, <1>2, <1>4, <1>5, <1>6 DEF StoreInv, IndexOK, NextIndexOK

\* Only untouched sessions are hidden.
LEMMA HidesUntouched ==
  ASSUME NEW S, NEW V \in Visible(S)
  PROVE  V \subseteq S /\ \A s \in S \ V : rec[s] = "blank"
<1>1. CASE Untouched(S) # S
  BY <1>1 DEF Visible, Untouched
<1>2. CASE Untouched(S) = S
  <2>1. \A s \in S : rec[s] = "blank"
    BY <1>2 DEF Untouched
  <2>2. V = S \/ \E s \in S : V = {s}
    BY <1>2 DEF Visible
  <2> QED  BY <2>1, <2>2
<1> QED  BY <1>1, <1>2

LEMMA ListKeepsStore ==
  ASSUME StoreInv, ListSessions
  PROVE  StoreInv'
<1>1. PICK V \in Visible(Indexed) :
        /\ op = Idle /\ op' = [kind |-> "list", s |-> "none", step |-> "open", to |-> V]
        /\ UNCHANGED <<rec, index, indexFile, stale, listed, emptied, halfDeleted>>
  BY DEF ListSessions
<1>2. Follows(Indexed) /\ ListedKept
  BY <1>1, IdleIsNone DEF StoreInv, IndexOK
<1>3. Follows(V)
  BY <1>2, HidesUntouched DEF Follows, ListedKept
<1>4. /\ op' \in StoreOps
      /\ op'.step = "open" /\ op'.kind = "list" /\ op'.to = V
  BY <1>1, <1>3 DEF StoreCalls, StoreSteps, StoreOps, Follows
<1>5. Follows(V)' /\ Follows(Indexed)'
  BY <1>1, <1>2, <1>3 DEF Follows, Indexed
<1> QED  BY <1>1, <1>4, <1>5 DEF StoreInv, StoreTypes, OpOK, ListedKept, IndexOK, NextIndexOK

LEMMA GoesInType ==
  ASSUME StoreInv, op # Idle, NEW step \in StoreSteps, Goes(step)
  PROVE  op' \in StoreOps /\ op'.step = step /\ op'.kind = op.kind /\ op'.s = op.s /\ op'.to = op.to
  BY DEF StoreInv, StoreTypes, StoreOps, Goes

LEMMA RecordKeepsStore ==
  ASSUME StoreInv, OpensRecord \/ WritesRecord
  PROVE  StoreInv'
<1> USE DEF StoreInv
<1>1. op # Idle /\ op.kind \in {"create", "upsert", "save"} /\ op.s \in Stored /\ op \in StoreOps
  BY IdleIsNone DEF OpensRecord, WritesRecord, NextFile, OpOK, StoreTypes, StoreOps, StoreCalls
<1>2. PICK v \in {"blank", "kept", "cut"}, step \in {"fill", "index"} :
        /\ rec' = [rec EXCEPT ![op.s] = v] /\ Goes(step)
        /\ (v = "blank" /\ listed' = listed \ {op.s}) \/ (v # "blank" /\ listed' = listed)
        /\ step = "fill" => v = "cut"
        /\ UNCHANGED <<index, indexFile, emptied, halfDeleted>>
        /\ op.step \in {"record", "fill"}
  BY <1>1 DEF OpensRecord, WritesRecord, NextFile
<1>3. op' \in StoreOps /\ op'.step = step /\ op'.kind = op.kind /\ op'.s = op.s /\ op' # Idle
  BY <1>1, <1>2, GoesInType, IdleIsNone DEF StoreSteps
<1>4. /\ rec' \in [Stored -> {"none", "blank", "kept", "cut"}] /\ rec'[op.s] = v
      /\ \A x \in Stored : x # op.s => rec'[x] = rec[x]
  BY <1>1, <1>2 DEF StoreTypes
<1>5. StoreTypes' /\ OpOK'
  BY <1>1, <1>2, <1>3, <1>4 DEF StoreTypes, OpOK, StoreOps
<1>6. ListedKept'
  BY <1>2, <1>4 DEF ListedKept
<1>7. IndexOK'
  BY <1>2, <1>3, <1>4 DEF IndexOK, Follows, Indexed
<1>8. NextIndexOK' /\ (indexFile = "cut" => index = {})'
  BY <1>2, <1>3 DEF NextIndexOK
<1> QED  BY <1>5, <1>6, <1>7, <1>8

LEMMA ReadsKeepsStore ==
  ASSUME StoreInv, ReadsIndex
  PROVE  StoreInv'
<1> USE DEF StoreInv
<1>1. op # Idle /\ op \in StoreOps /\ op.step = "index" /\ op.s \in Stored
      /\ op.kind \in {"create", "upsert", "save", "delete"}
      /\ UNCHANGED <<rec, index, indexFile, listed, emptied, halfDeleted>>
  BY DEF ReadsIndex, NextFile, OpOK, StoreTypes, StoreOps, StoreCalls
<1>2. Follows(Indexed) /\ Follows(Indexed)'
  BY <1>1 DEF IndexOK, Follows, Indexed
<1>3. CASE indexFile = "cut"
  <2>1. op' = Idle
    BY <1>3 DEF ReadsIndex, Ends
  <2> QED  BY <1>1, <1>2, <2>1, IdleIsNone DEF StoreTypes, OpOK, ListedKept, IndexOK, NextIndexOK
<1>4. CASE indexFile # "cut"
  <2> DEFINE to == IF op.kind = "delete" THEN Indexed \ {op.s} ELSE Indexed \cup {op.s}
  <2>1. op' = [op EXCEPT !.step = "open", !.to = to]
    BY <1>4 DEF ReadsIndex
  <2>2. to \in SUBSET Stored
    BY <1>1, <1>2 DEF Follows
  <2>3. op' \in StoreOps /\ op'.step = "open" /\ op'.kind = op.kind /\ op'.s = op.s /\ op'.to = to
    BY <1>1, <2>1, <2>2 DEF StoreOps, StoreSteps
  <2>4. /\ \A s \in to : s \in Stored /\ (rec[s] = "none" => s \in halfDeleted)
        /\ ~emptied => listed \subseteq to
    <3>1. op.kind = "delete" => op.s \notin listed
      BY <1>1 DEF OpOK, ListedKept
    <3>2. op.kind # "delete" => rec[op.s] # "none"
      BY <1>1 DEF OpOK
    <3> QED  BY <1>1, <1>2, <3>1, <3>2 DEF Follows
  <2>5. Follows(op.to)'
    BY <1>1, <2>3, <2>4 DEF Follows
  <2>6. /\ op.kind = "delete" => op.s \notin to
        /\ op.kind # "delete" => op.s \in to
    OBVIOUS
  <2> HIDE DEF to
  <2>7. op' # Idle
    BY <2>3, IdleIsNone
  <2>8. StoreTypes' /\ OpOK'
    BY <1>1, <2>3, <2>7 DEF StoreTypes, OpOK, StoreOps
  <2>9. IndexOK' /\ NextIndexOK' /\ ListedKept' /\ (indexFile = "cut" => index = {})'
    BY <1>1, <1>2, <2>3, <2>5, <2>6 DEF IndexOK, NextIndexOK, ListedKept
  <2> QED  BY <2>8, <2>9
<1> QED  BY <1>3, <1>4

\* The file is emptied first; what it is to say does not change.
LEMMA OpensKeepsStore ==
  ASSUME StoreInv, OpensIndex
  PROVE  StoreInv'
<1>1. op # Idle /\ op.step = "open" /\ Goes("write") /\ indexFile' = "empty"
      /\ UNCHANGED <<rec, index, listed, emptied, halfDeleted>>
  BY IdleIsNone DEF OpensIndex
<1>2. op' \in StoreOps /\ op'.step = "write" /\ op'.kind = op.kind /\ op'.s = op.s /\ op'.to = op.to
  BY <1>1, GoesInType DEF StoreSteps
<1>3. op' # Idle
  BY <1>2, IdleIsNone
<1> QED  BY <1>1, <1>2, <1>3
            DEF StoreInv, StoreTypes, StoreOps, OpOK, ListedKept, IndexOK, NextIndexOK, Follows

LEMMA WritesKeepsStore ==
  ASSUME StoreInv, WritesIndex
  PROVE  StoreInv'
<1> USE DEF StoreInv
<1>1. /\ op.step = "write" /\ op' = Idle /\ index' = op.to /\ indexFile' = "fine" /\ UNCHANGED <<rec, emptied>>
      /\ listed' = IF op.kind \in {"upsert", "save"} /\ rec[op.s] = "kept" THEN listed \cup {op.s} ELSE listed
      /\ halfDeleted' = IF op.kind = "delete" THEN halfDeleted \ {op.s} ELSE halfDeleted
  BY DEF WritesIndex, Ends
<1>2. op # Idle /\ Follows(op.to) /\ (op.kind = "delete" => op.s \notin op.to)
      /\ (op.kind \in {"create", "upsert", "save"} => op.s \in op.to /\ op.s \in Stored)
  BY <1>1, IdleIsNone DEF NextIndexOK, OpOK
<1>3. Indexed' = op.to
  BY <1>1 DEF Indexed
<1>4. Follows(Indexed)'
  BY <1>1, <1>2, <1>3 DEF Follows
<1>5. ListedKept'
  BY <1>1, <1>2 DEF ListedKept
<1> QED  BY <1>1, <1>4, <1>5, IdleIsNone DEF StoreTypes, OpOK, IndexOK, NextIndexOK

LEMMA CrashKeepsStore ==
  ASSUME StoreInv, Crash
  PROVE  StoreInv'
<1> USE DEF StoreInv
<1>1. op' = Idle /\ UNCHANGED <<rec, listed, halfDeleted>>
  BY DEF Crash, Ends
<1>2. CASE op.step = "write"
  <2>1. emptied' = TRUE /\ index' = {} /\ indexFile' \in {"empty", "cut"}
    BY <1>2 DEF Crash
  <2> QED  BY <1>1, <2>1, IdleIsNone DEF StoreTypes, OpOK, ListedKept, IndexOK, NextIndexOK, Follows, Indexed
<1>3. CASE op.step # "write"
  <2>1. UNCHANGED <<index, indexFile, emptied>>
    BY <1>3 DEF Crash
  <2> QED  BY <1>1, <1>3, <2>1, IdleIsNone DEF StoreTypes, OpOK, ListedKept, IndexOK, NextIndexOK, Follows, Indexed
<1> QED  BY <1>2, <1>3

LEMMA StoreGoesOn == StoreInv /\ [StoreNext]_storeVars => StoreInv'
<1> SUFFICES ASSUME StoreInv, [StoreNext]_storeVars PROVE StoreInv'
  OBVIOUS
<1>1. CASE UNCHANGED storeVars
  BY <1>1 DEF storeVars, StoreInv, StoreTypes, OpOK, ListedKept, IndexOK, NextIndexOK, Follows, Indexed
<1>2. ASSUME NEW s \in Stored, CreateSession(s) \/ UpsertSession(s) \/ SaveProjection(s) PROVE StoreInv'
  BY <1>2, BeginKeepsStore
<1>3. ASSUME NEW s \in Stored, DeleteSession(s) PROVE StoreInv'
  BY <1>3, DeleteKeepsStore
<1>4. CASE ListSessions \/ OpensRecord \/ WritesRecord \/ ReadsIndex \/ OpensIndex \/ WritesIndex \/ Crash
  BY <1>4, ListKeepsStore, RecordKeepsStore, ReadsKeepsStore, OpensKeepsStore, WritesKeepsStore, CrashKeepsStore
<1> QED  BY <1>1, <1>2, <1>3, <1>4 DEF StoreNext

\* The order of FileStore's writes (a record before the index on the way in,
\* the record first on the way out) keeps the index right of what is kept,
\* wherever the process dies, but in the middle of the index.
THEOREM IndexSurvives == StoreSpec => []IndexFollowsRecords
<1>1. StoreInv => IndexFollowsRecords
  BY IdleIsNone DEF StoreInv, IndexOK, Follows, IndexFollowsRecords
<1> QED  BY <1>1, StoreBegins, StoreGoesOn, PTL DEF StoreSpec

-----------------------------------------------------------------------------
(* What agentd learns, for any number of workspaces, suggestions, learnings *)
(* and callers: no decision is taken twice or applied in part, and no       *)
(* workspace is left behind by a process that lives.                        *)

(* Workspaces.                                                             *)

AgentSteps == {"idle", "check", "prune", "remove", "ended"}
AfterCleanup == {"idle", "dropped", "exit", "propose", "failed"}
Commands == [step : AgentSteps, ws : Nat, outcome : Outcomes \cup {"none"}, then : AfterCleanup]

ShadowTypes ==
  /\ agent \in Commands /\ shadowWS \in Nat /\ shadows \in Nat
  /\ dirs \subseteq 1 .. shadows /\ registered \subseteq 1 .. shadows /\ unmade \subseteq 1 .. shadows

\* /shadow drop works on the user's workspace; when a command returns, what it worked
\* on is gone from the disk or given up.
CommandOK ==
  /\ agent.step = "idle" => agent = NoCommand
  /\ agent.then = "dropped" => agent.ws = shadowWS
  /\ agent.step = "ended" => agent.ws \notin dirs \ lostProcess

InUse == dirs \subseteq lostProcess \cup {shadowWS, agent.ws}

\* After the prune nothing that lacks its directory is registered; the removal that
\* follows leaves one.
PrunedFirst ==
  /\ agent.step = "remove" => registered \subseteq dirs
  /\ \E x \in Nat : (registered \ dirs) \ unmade \subseteq {x}

ShadowInv == ShadowTypes /\ CommandOK /\ InUse /\ PrunedFirst

LEMMA NoCommandIs ==
  /\ NoCommand.step = "idle" /\ NoCommand.ws = 0 /\ NoCommand.outcome = "none" /\ NoCommand.then = "idle"
  /\ NoCommand \in Commands
  BY DEF NoCommand, Commands, AgentSteps, AfterCleanup

LEMMA ShadowInitOK == LearningInit => ShadowInv
  BY NoCommandIs DEF LearningInit, ShadowInv, ShadowTypes, CommandOK, InUse, PrunedFirst

\* A workspace that is made has a directory of its own and an owner.
LEMMA CreateKeeps ==
  ASSUME ShadowInv, agent.step = "idle", NEW begun \in BOOLEAN, NEW known \in BOOLEAN,
         CreateWorkspace(shadows + 1, begun, known),
         agent' \in Commands, shadowWS' \in Nat,
         begun => shadows + 1 \in {shadowWS', agent'.ws},
         shadowWS # 0 => shadowWS' = shadowWS,
         agent'.step \notin {"remove", "ended"}, CommandOK'
  PROVE  ShadowInv'
<1> USE DEF ShadowInv, ShadowTypes
<1>1. /\ shadows' = shadows + 1 /\ lostProcess' = lostProcess
      /\ dirs' = (IF begun THEN dirs \cup {shadows + 1} ELSE dirs)
      /\ registered' = (IF known THEN registered \cup {shadows + 1} ELSE registered)
      /\ unmade' = (IF begun THEN unmade ELSE unmade \cup {shadows + 1})
  BY DEF CreateWorkspace
<1>2. ShadowTypes'
  <2>1. 1 .. shadows \subseteq 1 .. shadows + 1 /\ shadows + 1 \in 1 .. shadows + 1
    OBVIOUS
  <2> QED  BY <1>1, <2>1
<1>3. InUse'
  <2>1. agent.ws = 0 /\ 0 \notin dirs
    BY NoCommandIs DEF CommandOK
  <2>2. dirs \subseteq lostProcess \cup {shadowWS} /\ (shadowWS = 0 => dirs \subseteq lostProcess)
    BY <2>1 DEF InUse
  <2> QED  BY <1>1, <2>2 DEF InUse
<1>4. PrunedFirst'
  <2>1. PICK x \in Nat : (registered \ dirs) \ unmade \subseteq {x}
    BY DEF PrunedFirst
  <2>2. ((registered \ dirs) \ unmade)' \subseteq {x}
    BY <1>1, <2>1
  <2> QED  BY <2>2 DEF PrunedFirst
<1> QED  BY <1>2, <1>3, <1>4

LEMMA ShadowNewKeeps == ASSUME ShadowInv, ShadowNew PROVE ShadowInv'
<1>1. PICK begun \in BOOLEAN, known \in BOOLEAN :
        /\ CreateWorkspace(shadows + 1, begun, known)
        /\ shadowWS' = (IF begun THEN shadows + 1 ELSE 0)
        /\ shadowWS = 0 /\ agent.step = "idle" /\ agent' = agent
  BY DEF ShadowNew, CommandLineFree
<1>2. agent = NoCommand
  BY <1>1 DEF ShadowInv, CommandOK
<1>3. CommandOK' /\ agent' \in Commands /\ shadowWS' \in Nat /\ agent'.step \notin {"remove", "ended"}
  BY <1>1, <1>2, NoCommandIs DEF CommandOK, ShadowInv, ShadowTypes
<1> QED  BY <1>1, <1>3, CreateKeeps

LEMMA EvolveKeeps == ASSUME ShadowInv, Evolve PROVE ShadowInv'
<1>1. PICK begun \in BOOLEAN, known \in BOOLEAN, applied \in BOOLEAN :
        /\ CreateWorkspace(shadows + 1, begun, known)
        /\ agent' = IF ~begun THEN NoCommand
                    ELSE [NoCommand EXCEPT !.ws = shadows + 1, !.then = IF applied THEN "propose" ELSE "failed",
                                           !.step = IF applied THEN "check" ELSE "prune"]
        /\ agent.step = "idle" /\ shadowWS' = shadowWS
  BY DEF Evolve, CommandLineFree, reviewVars
<1>2. CASE ~begun
  <2>1. agent' = NoCommand
    BY <1>1, <1>2
  <2>2. CommandOK' /\ agent' \in Commands /\ shadowWS' \in Nat /\ agent'.step \notin {"remove", "ended"}
    BY <1>1, <2>1, NoCommandIs DEF CommandOK, ShadowInv, ShadowTypes
  <2> QED  BY <1>1, <1>2, <2>2, CreateKeeps
<1>3. CASE begun
  <2>1. /\ agent' \in Commands /\ agent'.ws = shadows + 1 /\ agent'.step \in {"check", "prune"}
        /\ agent'.then \in {"propose", "failed"}
    <3>1. PICK then \in {"propose", "failed"}, step \in {"check", "prune"} :
            agent' = [NoCommand EXCEPT !.ws = shadows + 1, !.then = then, !.step = step]
      BY <1>1, <1>3
    <3>2. shadows + 1 \in Nat
      BY DEF ShadowInv, ShadowTypes
    <3> QED  BY <3>1, <3>2 DEF NoCommand, Commands, AgentSteps, AfterCleanup
  <2>2. shadowWS' \in Nat
    BY <1>1 DEF ShadowInv, ShadowTypes
  <2>3. CommandOK'
    BY <1>1, <2>1 DEF CommandOK
  <2> QED  BY <1>1, <2>1, <2>2, <2>3, <1>3, CreateKeeps
<1> QED  BY <1>2, <1>3

\* A command that goes from step to step, or returns, keeps what is on the disk.
LEMMA CommandGoes ==
  ASSUME ShadowInv, UNCHANGED <<dirs, shadows, lostProcess, unmade>>,
         agent' \in Commands, CommandOK', InUse',
         shadowWS' \in Nat, registered' = registered \/ registered' = registered \cap dirs,
         agent'.step = "remove" => registered' \subseteq dirs
  PROVE  ShadowInv'
<1>1. ShadowTypes'
  BY DEF ShadowInv, ShadowTypes
<1>2. PICK x \in Nat : (registered \ dirs) \ unmade \subseteq {x}
  BY DEF ShadowInv, PrunedFirst
<1>3. ((registered \ dirs) \ unmade)' \subseteq {x}
  BY <1>2
<1>4. PrunedFirst'
  BY <1>3 DEF PrunedFirst
<1> QED  BY <1>1, <1>4 DEF ShadowInv

LEMMA ShadowDropKeeps == ASSUME ShadowInv, ShadowDrop PROVE ShadowInv'
<1>1. PICK after \in {"dropped", "exit"} :
        /\ agent.step = "idle" /\ (after = "dropped" => shadowWS # 0)
        /\ agent' = [NoCommand EXCEPT !.ws = shadowWS, !.then = after,
                                      !.step = IF shadowWS = 0 THEN "ended" ELSE "prune"]
        /\ UNCHANGED shadowVars
  BY DEF ShadowDrop, CommandLineFree
<1>2. PICK step \in {"ended", "prune"} :
        /\ agent' = [NoCommand EXCEPT !.ws = shadowWS, !.then = after, !.step = step]
        /\ step = "ended" => shadowWS = 0
  BY <1>1
<1>3. /\ agent' \in Commands /\ agent'.ws = shadowWS /\ agent'.then = after /\ agent'.step = step
  BY <1>2 DEF NoCommand, Commands, AgentSteps, AfterCleanup, ShadowInv, ShadowTypes
<1>4. agent.ws = 0 /\ 0 \notin dirs
  BY <1>1, NoCommandIs DEF ShadowInv, CommandOK, ShadowTypes
<1>5. CommandOK' /\ InUse' /\ shadowWS' \in Nat
  BY <1>1, <1>2, <1>3, <1>4 DEF ShadowInv, ShadowTypes, CommandOK, InUse, shadowVars
<1> QED  BY <1>1, <1>3, <1>5, CommandGoes DEF shadowVars

LEMMA PruneKeeps == ASSUME ShadowInv, Prune PROVE ShadowInv'
<1>1. /\ agent.step = "prune" /\ registered' = registered \cap dirs
      /\ agent' = [agent EXCEPT !.step = "remove"]
      /\ UNCHANGED <<shadowWS, dirs, shadows, lostProcess, unmade>>
  BY DEF Prune, KnownToGit
<1>2. /\ agent' \in Commands /\ agent'.ws = agent.ws /\ agent'.then = agent.then /\ agent'.step = "remove"
  BY <1>1 DEF Commands, AgentSteps, ShadowInv, ShadowTypes
<1>3. CommandOK' /\ InUse' /\ shadowWS' \in Nat
  BY <1>1, <1>2 DEF ShadowInv, ShadowTypes, CommandOK, InUse
<1> QED  BY <1>1, <1>2, <1>3, CommandGoes

LEMMA RemoveKeeps == ASSUME ShadowInv, RemoveWorkspace PROVE ShadowInv'
<1>1. PICK removed \in BOOLEAN :
        /\ agent.step = "remove" /\ agent' = [agent EXCEPT !.step = "ended"]
        /\ dirs' = (IF removed THEN dirs \ {agent.ws} ELSE dirs)
        /\ lostProcess' = (IF removed THEN lostProcess ELSE lostProcess \cup {agent.ws})
        /\ UNCHANGED <<shadowWS, registered, shadows, unmade>>
  BY DEF RemoveWorkspace
<1>2. /\ agent' \in Commands /\ agent'.ws = agent.ws /\ agent'.then = agent.then /\ agent'.step = "ended"
      /\ agent.ws \in Nat
  BY <1>1 DEF Commands, AgentSteps, ShadowInv, ShadowTypes
<1>3. ShadowTypes' /\ InUse'
  BY <1>1, <1>2 DEF ShadowInv, ShadowTypes, InUse
<1>4. CommandOK'
  BY <1>1, <1>2 DEF ShadowInv, CommandOK
<1>5. registered \subseteq dirs
  BY <1>1 DEF ShadowInv, PrunedFirst
<1>6. ((registered \ dirs) \ unmade)' \subseteq {agent.ws}
  BY <1>1, <1>5
<1>7. PrunedFirst'
  BY <1>2, <1>6 DEF PrunedFirst
<1> QED  BY <1>3, <1>4, <1>7 DEF ShadowInv

LEMMA ReturnKeeps == ASSUME ShadowInv, Dropped \/ ProposeOrFail PROVE ShadowInv'
<1>1. /\ agent.step = "ended" /\ agent' = NoCommand
      /\ UNCHANGED <<dirs, registered, shadows, lostProcess, unmade>>
      /\ shadowWS' = shadowWS \/ (agent.then = "dropped" /\ shadowWS' = 0)
  BY DEF Dropped, ProposeOrFail, shadowVars
<1>2. CommandOK'
  BY <1>1, NoCommandIs DEF CommandOK
<1>3. InUse'
  BY <1>1 DEF ShadowInv, CommandOK, InUse
<1> QED  BY <1>1, <1>2, <1>3, NoCommandIs, CommandGoes DEF ShadowInv, ShadowTypes

LEMMA CheckKeeps == ASSUME ShadowInv, Check PROVE ShadowInv'
<1>1. PICK outcome \in Outcomes :
        /\ agent.step = "check" /\ agent' = [agent EXCEPT !.outcome = outcome, !.step = "prune"]
        /\ UNCHANGED shadowVars
  BY DEF Check
<1>2. /\ agent' \in Commands /\ agent'.ws = agent.ws /\ agent'.then = agent.then /\ agent'.step = "prune"
  BY <1>1 DEF Commands, AgentSteps, ShadowInv, ShadowTypes
<1>3. CommandOK' /\ InUse' /\ shadowWS' \in Nat
  BY <1>1, <1>2 DEF ShadowInv, ShadowTypes, CommandOK, InUse, shadowVars
<1> QED  BY <1>1, <1>2, <1>3, CommandGoes DEF shadowVars

\* What the process leaves is what it is not there any more to clean up.
LEMMA EndKeepsShadows == ASSUME ShadowInv, ProcessEnds PROVE ShadowInv'
<1>1. /\ agent' = NoCommand /\ shadowWS' = 0 /\ lostProcess' = lostProcess \cup dirs
      /\ UNCHANGED <<dirs, registered, shadows, unmade>>
  BY DEF ProcessEnds
<1>2. ShadowTypes' /\ CommandOK' /\ InUse'
  BY <1>1, NoCommandIs DEF ShadowInv, ShadowTypes, CommandOK, InUse
<1>3. PrunedFirst'
  BY <1>1, NoCommandIs DEF ShadowInv, PrunedFirst
<1> QED  BY <1>2, <1>3 DEF ShadowInv

LEMMA ShadowNext == ShadowInv /\ [LearningNext]_learningVars => ShadowInv'
<1> SUFFICES ASSUME ShadowInv, [LearningNext]_learningVars PROVE ShadowInv'
  OBVIOUS
<1>1. CASE UNCHANGED <<agent, shadowVars>>
  BY <1>1 DEF ShadowInv, ShadowTypes, CommandOK, InUse, PrunedFirst, shadowVars
<1>2. CASE UNCHANGED learningVars
  BY <1>1, <1>2 DEF learningVars, shadowVars
<1>3. CASE ShadowNew \/ ShadowDrop \/ Prune \/ RemoveWorkspace \/ Dropped \/ ProcessEnds \/ Evolve
           \/ Check \/ ProposeOrFail
  BY <1>3, ShadowNewKeeps, ShadowDropKeeps, PruneKeeps, RemoveKeeps, ReturnKeeps, EndKeepsShadows,
     EvolveKeeps, CheckKeeps
<1>4. CASE EditMemory \/ \E r \in Reviewers : DecideTakes(r) \/ DecideRecords(r) \/ ApplyDecision(r)
  BY <1>1, <1>4 DEF EditMemory, DecideTakes, DecideRecords, ApplyDecision
<1> QED  BY <1>2, <1>3, <1>4 DEF LearningNext

\* For any number of workspaces, worktrees or copies, whichever step of a cleanup
\* fails and whenever the process dies: evolution/shadow leaves nothing on the disk
\* that nobody is to remove, and git at most one registration whose directory is gone.
THEOREM ShadowsKept == LearningSpec => []ShadowsAccounted
<1>1. ShadowInv => ShadowsAccounted
  <2> SUFFICES ASSUME ShadowInv PROVE ShadowsAccounted
    OBVIOUS
  <2>1. dirs \subseteq lostProcess \cup ({shadowWS} \cup {agent.ws})
    BY DEF ShadowInv, InUse
  <2>2. PICK x \in Nat : (registered \ dirs) \ unmade \subseteq {x}
    BY DEF ShadowInv, PrunedFirst
  <2>3. IsFiniteSet({x}) /\ Cardinality({x}) = 1
    BY FS_Singleton
  <2>4. Cardinality((registered \ dirs) \ unmade) <= 1
    BY <2>2, <2>3, FS_Subset
  <2> QED  BY <2>1, <2>4 DEF ShadowsAccounted
<1> QED  BY <1>1, ShadowInitOK, ShadowNext, PTL DEF LearningSpec

-----------------------------------------------------------------------------
(* Decisions.                                                              *)

Decisions == Verdicts \cup {"unknown"}
Said == Verdicts \cup {"none", "edited"}
Reviews == [n : Nat, verdict : Decisions \cup {"none"}, step : {"free", "record", "apply"}, next : 1 .. MaxLearned]

\* The suggestions of this process.
Current == DOMAIN proposed \ outlived

ReviewTypes ==
  /\ proposed \in Seq(Outcomes \cup {"none"}) /\ Len(proposed) <= MaxProposed
  /\ agent.then = "propose" => Len(proposed) < MaxProposed
  /\ suggested \subseteq Current /\ outlived \subseteq DOMAIN proposed
  /\ history \in Seq([n : Current, verdict : Decisions])
  /\ verdictOf \in [Learnings -> Said]
  /\ deciding \in [Reviewers -> Reviews]

Decides(r) == deciding[r].step # "free"

\* A suggestion is at one place: pending, at one caller, or in the history.
OnePlace ==
  /\ \A r \in Reviewers : Decides(r) => deciding[r].n \in Current \ suggested
  /\ \A r \in Reviewers : ~Decides(r) => deciding[r] = NoReview
  /\ \A r, q \in Reviewers : Decides(r) /\ Decides(q) /\ deciding[r].n = deciding[q].n => r = q
  /\ \A i \in DOMAIN history : history[i].n \notin suggested
  /\ \A i, j \in DOMAIN history : history[i].n = history[j].n => i = j
  /\ \A r \in Reviewers : deciding[r].step = "record" =>
       \A i \in DOMAIN history : history[i].n # deciding[r].n

SomePlace ==
  \A n \in Current :
    \/ n \in suggested
    \/ \E r \in Reviewers : deciding[r].step = "record" /\ deciding[r].n = n
    \/ \E i \in DOMAIN history : history[i].n = n

\* What is being applied is what was recorded.
AppliesRecord ==
  \A r \in Reviewers : deciding[r].step = "apply" =>
    /\ deciding[r].verdict \in Decisions
    /\ \E i \in DOMAIN history : history[i] = [n |-> deciding[r].n, verdict |-> deciding[r].verdict]

\* What was recorded is said by every learning that its caller has passed.
PassedSays ==
  \A i \in DOMAIN history : history[i].verdict \in Verdicts =>
    \A k \in 1 .. MaxLearned :
      \/ verdictOf[<<history[i].n, k>>] \in {history[i].verdict, "edited"}
      \/ \E r \in Reviewers : deciding[r].step = "apply" /\ deciding[r].n = history[i].n /\ deciding[r].next <= k

\* A caller that has not recorded its decision yet has one.
RecordsDecision == \A r \in Reviewers : deciding[r].step = "record" => deciding[r].verdict \in Decisions /\ deciding[r].next = 1

ReviewInv == ReviewTypes /\ OnePlace /\ SomePlace /\ AppliesRecord /\ PassedSays /\ RecordsDecision

LEMMA WiderSeq == ASSUME NEW S, NEW T, S \subseteq T, NEW s \in Seq(S) PROVE s \in Seq(T)
<1>1. Len(s) \in Nat /\ s = [i \in 1 .. Len(s) |-> s[i]] /\ \A i \in 1 .. Len(s) : s[i] \in S
  OBVIOUS
<1>2. \A i \in 1 .. Len(s) : s[i] \in T
  BY <1>1
<1>3. \A n \in Nat : \A f \in [1 .. n -> T] : f \in Seq(T)
  OBVIOUS
<1> QED  BY <1>1, <1>2, <1>3

LEMMA OfSeq == ASSUME NEW S, NEW s \in Seq(S) PROVE \A i \in DOMAIN s : s[i] \in S
  OBVIOUS

LEMMA NoReviewIs ==
  /\ NoReview.n = 0 /\ NoReview.step = "free" /\ NoReview.next = 1 /\ NoReview.verdict = "none"
  /\ NoReview \in Reviews
  BY LearningAssumption DEF NoReview, Reviews

LEMMA ReviewInitOK == LearningInit => ReviewInv
<1> SUFFICES ASSUME LearningInit PROVE ReviewInv
  OBVIOUS
<1>1. /\ proposed = <<>> /\ suggested = {} /\ history = <<>> /\ outlived = {} /\ agent.then = "idle"
      /\ verdictOf = [l \in Learnings |-> "none"] /\ deciding = [r \in Reviewers |-> NoReview]
  BY NoCommandIs DEF LearningInit
<1>2. Current = {} /\ DOMAIN history = {} /\ \A r \in Reviewers : deciding[r] = NoReview
  BY <1>1 DEF Current
<1>3. ReviewTypes
  <2>1. verdictOf \in [Learnings -> Said] /\ deciding \in [Reviewers -> Reviews]
    BY <1>1, NoReviewIs DEF Said
  <2>2. proposed \in Seq(Outcomes \cup {"none"}) /\ Len(proposed) <= MaxProposed
    BY <1>1, LearningAssumption
  <2>3. history \in Seq([n : Current, verdict : Decisions])
    BY <1>1
  <2> QED  BY <1>1, <1>2, <2>1, <2>2, <2>3 DEF ReviewTypes
<1> QED  BY <1>2, <1>3, <1>1, NoReviewIs
            DEF ReviewInv, OnePlace, SomePlace, AppliesRecord, PassedSays, RecordsDecision, Decides

\* The next process begins with nothing of this one's.
LEMMA EndKeepsReviews == ASSUME ReviewInv, ProcessEnds PROVE ReviewInv'
<1>1. /\ proposed' = proposed /\ suggested' = {} /\ history' = <<>> /\ outlived' = DOMAIN proposed
      /\ verdictOf' = [l \in Learnings |-> "none"] /\ deciding' = [r \in Reviewers |-> NoReview]
      /\ agent'.then = "idle"
  BY NoCommandIs DEF ProcessEnds
<1>2. Current' = {} /\ DOMAIN history' = {} /\ \A r \in Reviewers : deciding'[r] = NoReview
  BY <1>1 DEF Current
<1>3. ReviewTypes'
  <2>1. verdictOf' \in [Learnings -> Said] /\ deciding' \in [Reviewers -> Reviews]
    BY <1>1, NoReviewIs DEF Said
  <2>2. proposed' \in Seq(Outcomes \cup {"none"}) /\ Len(proposed') <= MaxProposed
    BY <1>1 DEF ReviewInv, ReviewTypes
  <2>3. history' \in Seq([n : Current', verdict : Decisions])
    BY <1>1
  <2> QED  BY <1>1, <1>2, <2>1, <2>2, <2>3 DEF ReviewTypes
<1> QED  BY <1>2, <1>3, <1>1, NoReviewIs
            DEF ReviewInv, OnePlace, SomePlace, AppliesRecord, PassedSays, RecordsDecision, Decides

\* A suggestion that is made is pending, and nobody has heard of it.
LEMMA ProposeKeeps == ASSUME ReviewInv, agent \in Commands, ProposeOrFail PROVE ReviewInv'
<1>1. /\ agent' = NoCommand /\ UNCHANGED <<history, verdictOf, deciding, outlived>>
  BY DEF ProposeOrFail
<1>2. CASE agent.then # "propose"
  <2>1. UNCHANGED <<proposed, suggested>>
    BY <1>2 DEF ProposeOrFail
  <2>2. Current' = Current
    BY <1>1, <2>1 DEF Current
  <2>3. ReviewTypes'
    BY <1>1, <2>1, <2>2, NoCommandIs DEF ReviewInv, ReviewTypes
  <2> QED  BY <1>1, <2>1, <2>2, <2>3
              DEF ReviewInv, OnePlace, SomePlace, AppliesRecord, PassedSays, RecordsDecision, Decides
<1>3. CASE agent.then = "propose"
  <2>1. /\ proposed' = Append(proposed, agent.outcome)
        /\ suggested' = suggested \cup {Len(proposed')} /\ agent.outcome \in Outcomes \cup {"none"}
    BY <1>3 DEF ProposeOrFail, Commands
  <2>2. /\ proposed' \in Seq(Outcomes \cup {"none"}) /\ Len(proposed') = Len(proposed) + 1
        /\ DOMAIN proposed' = DOMAIN proposed \cup {Len(proposed')} /\ Len(proposed') \notin DOMAIN proposed
    BY <2>1 DEF ReviewInv, ReviewTypes
  <2>3. /\ Current' = Current \cup {Len(proposed')} /\ Len(proposed') \notin Current
        /\ outlived' \subseteq DOMAIN proposed'
    BY <1>1, <2>2 DEF Current, ReviewInv, ReviewTypes
  <2>4. ReviewTypes'
    <3>1. Len(proposed') <= MaxProposed
      BY <1>3, <2>2, LearningAssumption DEF ReviewInv, ReviewTypes
    <3>2. history' \in Seq([n : Current', verdict : Decisions])
      <4>1. [n : Current, verdict : Decisions] \subseteq [n : Current', verdict : Decisions]
        BY <2>3
      <4>2. history \in Seq([n : Current, verdict : Decisions])
        BY DEF ReviewInv, ReviewTypes
      <4>3. history \in Seq([n : Current', verdict : Decisions])
        BY <4>1, <4>2, WiderSeq
      <4> QED  BY <1>1, <4>3
    <3>3. suggested' \subseteq Current'
      BY <2>1, <2>3 DEF ReviewInv, ReviewTypes
    <3> QED  BY <1>1, <2>2, <2>3, <3>1, <3>2, <3>3, NoCommandIs DEF ReviewInv, ReviewTypes
  <2>5. \A i \in DOMAIN history : history[i].n \in Current
    <3>1. \A i \in DOMAIN history : history[i] \in [n : Current, verdict : Decisions]
      BY OfSeq DEF ReviewInv, ReviewTypes
    <3> QED  BY <3>1
  <2>6. OnePlace'
    BY <1>1, <2>1, <2>3, <2>5 DEF ReviewInv, OnePlace, Decides
  <2>7. SomePlace'
    BY <1>1, <2>1, <2>3 DEF ReviewInv, SomePlace
  <2> QED  BY <1>1, <2>4, <2>6, <2>7 DEF ReviewInv, AppliesRecord, PassedSays, RecordsDecision
<1> QED  BY <1>2, <1>3

\* A command that suggests nothing.
LEMMA CommandLeavesReviews ==
  ASSUME ReviewInv, UNCHANGED <<proposed, suggested, history, verdictOf, deciding, outlived>>,
         agent'.then = "propose" => agent.then = "propose" \/ Len(proposed) < MaxProposed
  PROVE  ReviewInv'
<1>1. Current' = Current
  BY DEF Current
<1>2. ReviewTypes'
  BY <1>1 DEF ReviewInv, ReviewTypes
<1> QED  BY <1>1, <1>2 DEF ReviewInv, OnePlace, SomePlace, AppliesRecord, PassedSays, RecordsDecision, Decides

\* The suggestion is taken off the pending ones by the caller that is to decide it.
LEMMA TakeKeeps == ASSUME ReviewInv, NEW r \in Reviewers, DecideTakes(r) PROVE ReviewInv'
<1>1. PICK n \in suggested, v \in Decisions :
        /\ ~Decides(r)
        /\ deciding' = [deciding EXCEPT ![r] = [n |-> n, verdict |-> v, step |-> "record", next |-> 1]]
        /\ suggested' = suggested \ {n}
        /\ UNCHANGED <<agent, proposed, history, verdictOf, outlived>>
  BY DEF DecideTakes, Taken, Decides, Decisions
<1>2. n \in Current /\ n \in Nat /\ Current' = Current
  BY <1>1 DEF ReviewInv, ReviewTypes, Current
<1>3. deciding \in [Reviewers -> Reviews]
  BY DEF ReviewInv, ReviewTypes
<1>4. /\ deciding'[r] = [n |-> n, verdict |-> v, step |-> "record", next |-> 1]
      /\ \A q \in Reviewers : q # r => deciding'[q] = deciding[q]
  BY <1>1, <1>3
<1>5. [n |-> n, verdict |-> v, step |-> "record", next |-> 1] \in Reviews
  BY <1>1, <1>2, LearningAssumption DEF Reviews
<1>6. ReviewTypes'
  <2>1. deciding' \in [Reviewers -> Reviews]
    BY <1>1, <1>3, <1>5
  <2> QED  BY <1>1, <1>2, <2>1 DEF ReviewInv, ReviewTypes
<1>7. OnePlace'
  BY <1>1, <1>2, <1>4 DEF ReviewInv, OnePlace, Decides
<1>8. SomePlace'
  <2> SUFFICES ASSUME NEW m \in Current
               PROVE  \/ m \in suggested'
                      \/ \E q \in Reviewers : deciding'[q].step = "record" /\ deciding'[q].n = m
                      \/ \E i \in DOMAIN history' : history'[i].n = m
    BY <1>2 DEF SomePlace
  <2>1. CASE m = n
    BY <1>4, <2>1
  <2>2. CASE m # n /\ m \in suggested
    BY <1>1, <2>2
  <2>3. CASE \E q \in Reviewers : deciding[q].step = "record" /\ deciding[q].n = m
    <3>1. PICK q \in Reviewers : deciding[q].step = "record" /\ deciding[q].n = m
      BY <2>3
    <3>2. q # r
      BY <1>1, <3>1 DEF Decides
    <3> QED  BY <1>4, <3>1, <3>2
  <2>4. CASE \E i \in DOMAIN history : history[i].n = m
    BY <1>1, <2>4
  <2> QED  BY <2>1, <2>2, <2>3, <2>4 DEF ReviewInv, SomePlace
<1>9. AppliesRecord' /\ RecordsDecision'
  BY <1>1, <1>4 DEF ReviewInv, AppliesRecord, RecordsDecision
<1>10. PassedSays'
  BY <1>1, <1>4 DEF ReviewInv, PassedSays, Decides
<1> QED  BY <1>6, <1>7, <1>8, <1>9, <1>10 DEF ReviewInv

\* It goes to the history, where it was not.
LEMMA RecordKeeps == ASSUME ReviewInv, NEW r \in Reviewers, DecideRecords(r) PROVE ReviewInv'
<1> DEFINE d == deciding[r]
<1>1. /\ d.step = "record" /\ deciding' = [deciding EXCEPT ![r].step = "apply"]
      /\ history' = Append(history, [n |-> d.n, verdict |-> d.verdict])
      /\ UNCHANGED <<agent, proposed, suggested, verdictOf, outlived>>
  BY DEF DecideRecords
<1>2. /\ deciding \in [Reviewers -> Reviews] /\ history \in Seq([n : Current, verdict : Decisions])
  BY DEF ReviewInv, ReviewTypes
<1>3. /\ deciding' \in [Reviewers -> Reviews]
      /\ deciding'[r].step = "apply" /\ deciding'[r].n = d.n /\ deciding'[r].verdict = d.verdict
      /\ deciding'[r].next = 1
      /\ \A q \in Reviewers : q # r => deciding'[q] = deciding[q]
  BY <1>1, <1>2 DEF Reviews, ReviewInv, RecordsDecision
<1>4. d.n \in Current \ suggested /\ d.verdict \in Decisions /\ Current' = Current
  BY <1>1 DEF ReviewInv, OnePlace, RecordsDecision, Decides, Current
<1>5. /\ history' \in Seq([n : Current, verdict : Decisions])
      /\ Len(history') = Len(history) + 1
      /\ \A i \in 1 .. Len(history) : history'[i] = history[i]
      /\ history'[Len(history) + 1] = [n |-> d.n, verdict |-> d.verdict]
      /\ DOMAIN history = 1 .. Len(history) /\ DOMAIN history' = 1 .. (Len(history) + 1)
  <2>1. [n |-> d.n, verdict |-> d.verdict] \in [n : Current, verdict : Decisions]
    BY <1>4
  <2> QED  BY <1>1, <1>2, <2>1
<1>6. \A i \in DOMAIN history' : i \in DOMAIN history \/ i = Len(history) + 1
  BY <1>2, <1>5
<1>7. ReviewTypes'
  BY <1>1, <1>3, <1>4, <1>5 DEF ReviewInv, ReviewTypes
<1>8. OnePlace'
  <2>1. \A i \in DOMAIN history : history[i].n # d.n
    BY <1>1 DEF ReviewInv, OnePlace
  <2>2. \A i \in DOMAIN history' : history'[i].n \notin suggested
    BY <1>4, <1>5, <1>6 DEF ReviewInv, OnePlace
  <2>3. \A i, j \in DOMAIN history' : history'[i].n = history'[j].n => i = j
    BY <2>1, <1>5, <1>6 DEF ReviewInv, OnePlace
  <2>4. \A q \in Reviewers : deciding'[q].step = "record" => \A i \in DOMAIN history' : history'[i].n # deciding'[q].n
    <3> SUFFICES ASSUME NEW q \in Reviewers, deciding'[q].step = "record", NEW i \in DOMAIN history'
                 PROVE  history'[i].n # deciding'[q].n
      OBVIOUS
    <3>1. q # r /\ deciding'[q] = deciding[q] /\ deciding[q].n # d.n
      BY <1>1, <1>3 DEF ReviewInv, OnePlace, Decides
    <3> QED  BY <3>1, <1>5, <1>6 DEF ReviewInv, OnePlace
  <2>5. /\ \A q \in Reviewers : Decides(q)' => deciding'[q].n \in Current \ suggested
        /\ \A q \in Reviewers : ~Decides(q)' => deciding'[q] = NoReview
        /\ \A p, q \in Reviewers : Decides(p)' /\ Decides(q)' /\ deciding'[p].n = deciding'[q].n => p = q
    BY <1>1, <1>3, <1>4 DEF ReviewInv, OnePlace, Decides
  <2> QED  BY <1>1, <1>4, <2>2, <2>3, <2>4, <2>5 DEF OnePlace
<1>9. SomePlace'
  <2> SUFFICES ASSUME NEW n \in Current, n \notin suggested
               PROVE  \/ \E q \in Reviewers : deciding'[q].step = "record" /\ deciding'[q].n = n
                      \/ \E i \in DOMAIN history' : history'[i].n = n
    BY <1>1, <1>4 DEF SomePlace
  <2>1. CASE n = d.n
    BY <2>1, <1>2, <1>5
  <2>2. CASE n # d.n
    BY <2>2, <1>3, <1>5 DEF ReviewInv, SomePlace
  <2> QED  BY <2>1, <2>2
<1>10. AppliesRecord'
  <2> SUFFICES ASSUME NEW q \in Reviewers, deciding'[q].step = "apply"
               PROVE  /\ deciding'[q].verdict \in Decisions
                      /\ \E i \in DOMAIN history' : history'[i] = [n |-> deciding'[q].n, verdict |-> deciding'[q].verdict]
    BY DEF AppliesRecord
  <2>1. CASE q = r
    BY <2>1, <1>2, <1>3, <1>4, <1>5
  <2>2. CASE q # r
    BY <2>2, <1>2, <1>3, <1>5 DEF ReviewInv, AppliesRecord
  <2> QED  BY <2>1, <2>2
<1>11. PassedSays'
  <2> SUFFICES ASSUME NEW i \in DOMAIN history', history'[i].verdict \in Verdicts, NEW k \in 1 .. MaxLearned
               PROVE  \/ verdictOf[<<history'[i].n, k>>] \in {history'[i].verdict, "edited"}
                      \/ \E q \in Reviewers : deciding'[q].step = "apply" /\ deciding'[q].n = history'[i].n /\ deciding'[q].next <= k
    BY <1>1 DEF PassedSays
  <2>1. CASE i \in DOMAIN history
    <3>1. history'[i] = history[i]
      BY <2>1, <1>5
    <3>2. CASE \E q \in Reviewers : deciding[q].step = "apply" /\ deciding[q].n = history[i].n /\ deciding[q].next <= k
      BY <3>1, <3>2, <1>1, <1>3
    <3>3. CASE verdictOf[<<history[i].n, k>>] \in {history[i].verdict, "edited"}
      BY <3>1, <3>3
    <3> QED  BY <2>1, <3>1, <3>2, <3>3 DEF ReviewInv, PassedSays
  <2>2. CASE i = Len(history) + 1
    <3>1. history'[i].n = d.n /\ deciding'[r].next <= k
      BY <2>2, <1>3, <1>5, LearningAssumption
    <3> QED  BY <3>1, <1>3
  <2> QED  BY <1>6, <2>1, <2>2
<1>12. RecordsDecision'
  BY <1>3 DEF ReviewInv, RecordsDecision
<1> QED  BY <1>7, <1>8, <1>9, <1>10, <1>11, <1>12 DEF ReviewInv

\* The next learning says what was decided, or nothing when that is unknown.
LEMMA ApplyKeeps == ASSUME ReviewInv, NEW r \in Reviewers, ApplyDecision(r) PROVE ReviewInv'
<1> DEFINE d == deciding[r]
           written == IF d.verdict \in Verdicts THEN d.verdict ELSE verdictOf[<<d.n, d.next>>]
<1>1. /\ d.step = "apply" /\ verdictOf' = [verdictOf EXCEPT ![<<d.n, d.next>>] = written]
      /\ deciding' = [deciding EXCEPT ![r] = IF d.next = MaxLearned THEN NoReview ELSE [d EXCEPT !.next = @ + 1]]
      /\ UNCHANGED <<agent, proposed, suggested, history, outlived>>
  BY DEF ApplyDecision
<1>2. /\ deciding \in [Reviewers -> Reviews] /\ d \in Reviews /\ verdictOf \in [Learnings -> Said]
      /\ Current' = Current
  BY <1>1 DEF ReviewInv, ReviewTypes, Current
<1>3. d.n \in Current /\ <<d.n, d.next>> \in Learnings
  <2>1. d.n \in Current
    BY <1>1 DEF ReviewInv, OnePlace, Decides
  <2>2. d.n \in 1 .. MaxProposed
    BY <2>1, LearningAssumption DEF ReviewInv, ReviewTypes, Current
  <2> QED  BY <1>2, <2>1, <2>2 DEF Learnings, Reviews
<1>4. /\ verdictOf' \in [Learnings -> Said] /\ verdictOf'[<<d.n, d.next>>] = written
      /\ \A l \in Learnings : l # <<d.n, d.next>> => verdictOf'[l] = verdictOf[l]
  <2>1. written \in Said
    BY <1>2, <1>3 DEF Said
  <2> HIDE DEF written
  <2> QED  BY <1>1, <1>2, <1>3, <2>1
<1>5. /\ deciding' \in [Reviewers -> Reviews]
      /\ \A q \in Reviewers : q # r => deciding'[q] = deciding[q]
      /\ \/ d.next = MaxLearned /\ deciding'[r] = NoReview
         \/ /\ d.next < MaxLearned /\ deciding'[r].step = "apply" /\ deciding'[r].n = d.n
            /\ deciding'[r].verdict = d.verdict /\ deciding'[r].next = d.next + 1
  <2>1. CASE d.next = MaxLearned
    BY <2>1, <1>1, <1>2, NoReviewIs
  <2>2. CASE d.next # MaxLearned
    <3>1. d.next + 1 \in 1 .. MaxLearned /\ d.next < MaxLearned
      BY <2>2, <1>2, LearningAssumption DEF Reviews
    <3>2. PICK e : e = [d EXCEPT !.next = @ + 1]
      OBVIOUS
    <3>3. e \in Reviews /\ e.step = d.step /\ e.n = d.n /\ e.verdict = d.verdict /\ e.next = d.next + 1
      BY <3>1, <3>2, <1>2 DEF Reviews
    <3>4. deciding' = [deciding EXCEPT ![r] = e]
      BY <2>2, <3>2, <1>1
    <3> QED  BY <3>1, <3>3, <3>4, <1>1, <1>2
  <2> QED  BY <2>1, <2>2
<1> HIDE DEF written
<1>6. ReviewTypes'
  BY <1>1, <1>2, <1>4, <1>5 DEF ReviewInv, ReviewTypes
<1>7. OnePlace'
  BY <1>1, <1>2, <1>5, NoReviewIs DEF ReviewInv, OnePlace, Decides
<1>8. SomePlace'
  BY <1>1, <1>2, <1>5 DEF ReviewInv, SomePlace
<1>9. AppliesRecord' /\ RecordsDecision'
  BY <1>1, <1>5, NoReviewIs DEF ReviewInv, AppliesRecord, RecordsDecision
<1>10. PassedSays'
  <2> SUFFICES ASSUME NEW i \in DOMAIN history, history[i].verdict \in Verdicts, NEW k \in 1 .. MaxLearned
               PROVE  \/ verdictOf'[<<history[i].n, k>>] \in {history[i].verdict, "edited"}
                      \/ \E q \in Reviewers : deciding'[q].step = "apply" /\ deciding'[q].n = history[i].n /\ deciding'[q].next <= k
    BY <1>1 DEF PassedSays
  <2>1. /\ history[i] \in [n : Current, verdict : Decisions] /\ history[i].n \in Nat
        /\ <<history[i].n, k>> \in Learnings
    <3>1. history[i] \in [n : Current, verdict : Decisions]
      BY OfSeq DEF ReviewInv, ReviewTypes
    <3>2. history[i].n \in Current
      BY <3>1
    <3>3. history[i].n \in 1 .. MaxProposed
      BY <3>2, LearningAssumption DEF ReviewInv, ReviewTypes, Current
    <3> QED  BY <3>1, <3>3 DEF Learnings
  <2>2. CASE history[i].n = d.n
    <3>1. PICK j \in DOMAIN history : history[j] = [n |-> d.n, verdict |-> d.verdict]
      BY <1>1 DEF ReviewInv, AppliesRecord
    <3>2. d.verdict = history[i].verdict
      BY <2>2, <3>1 DEF ReviewInv, OnePlace
    <3>3. written = history[i].verdict
      BY <3>2 DEF written
    <3>4. CASE k = d.next
      BY <2>2, <3>3, <3>4, <1>4
    <3>5. CASE k < d.next
      <4>1. \A q \in Reviewers : deciding[q].step = "apply" /\ deciding[q].n = history[i].n => q = r
        BY <1>1, <2>2 DEF ReviewInv, OnePlace, Decides
      <4>2. verdictOf[<<history[i].n, k>>] \in {history[i].verdict, "edited"}
        BY <1>2, <3>5, <4>1 DEF ReviewInv, PassedSays, Reviews
      <4>3. <<history[i].n, k>> # <<d.n, d.next>>
        BY <1>2, <3>5 DEF Reviews
      <4> QED  BY <2>1, <4>2, <4>3, <1>4
    <3>6. CASE k > d.next
      BY <2>2, <3>6, <1>2, <1>5 DEF Reviews
    <3> QED  BY <1>2, <3>4, <3>5, <3>6 DEF Reviews
  <2>3. CASE history[i].n # d.n
    <3>1. verdictOf'[<<history[i].n, k>>] = verdictOf[<<history[i].n, k>>]
      BY <2>1, <2>3, <1>4
    <3>2. CASE \E q \in Reviewers : deciding[q].step = "apply" /\ deciding[q].n = history[i].n /\ deciding[q].next <= k
      BY <2>3, <3>2, <1>5
    <3> QED  BY <3>1, <3>2 DEF ReviewInv, PassedSays
  <2> QED  BY <2>2, <2>3
<1> QED  BY <1>6, <1>7, <1>8, <1>9, <1>10 DEF ReviewInv

LEMMA EditKeeps == ASSUME ReviewInv, EditMemory PROVE ReviewInv'
<1>1. PICK l \in Learnings : verdictOf' = [verdictOf EXCEPT ![l] = "edited"]
  BY DEF EditMemory
<1>2. UNCHANGED <<agent, proposed, suggested, history, deciding, outlived>> /\ Current' = Current
  BY DEF EditMemory, Current
<1>3. /\ verdictOf' \in [Learnings -> Said] /\ verdictOf'[l] = "edited"
      /\ \A x \in Learnings : x # l => verdictOf'[x] = verdictOf[x]
  BY <1>1 DEF ReviewInv, ReviewTypes, Said
<1>4. ReviewTypes'
  BY <1>2, <1>3 DEF ReviewInv, ReviewTypes
<1>5. \A i \in DOMAIN history, k \in 1 .. MaxLearned : <<history[i].n, k>> \in Learnings
  <2>1. \A i \in DOMAIN history : history[i] \in [n : Current, verdict : Decisions]
    BY OfSeq DEF ReviewInv, ReviewTypes
  <2>2. \A i \in DOMAIN history : history[i].n \in 1 .. MaxProposed
    BY <2>1, LearningAssumption DEF ReviewInv, ReviewTypes, Current
  <2> QED  BY <2>2 DEF Learnings
<1>6. PassedSays'
  BY <1>2, <1>3, <1>5 DEF ReviewInv, PassedSays
<1>7. OnePlace' /\ SomePlace'
  BY <1>2 DEF ReviewInv, OnePlace, SomePlace, Decides
<1>8. AppliesRecord' /\ RecordsDecision'
  BY <1>2 DEF ReviewInv, AppliesRecord, RecordsDecision
<1> QED  BY <1>4, <1>6, <1>7, <1>8 DEF ReviewInv

LEMMA ReviewNext == ReviewInv /\ agent \in Commands /\ [LearningNext]_learningVars => ReviewInv'
<1> SUFFICES ASSUME ReviewInv, agent \in Commands, [LearningNext]_learningVars PROVE ReviewInv'
  OBVIOUS
<1>1. CASE UNCHANGED learningVars
  BY <1>1, CommandLeavesReviews DEF learningVars
<1>2. CASE ShadowNew \/ Prune \/ RemoveWorkspace \/ Check
  <2>1. agent'.then = agent.then
    BY <1>2 DEF ShadowNew, Prune, RemoveWorkspace, Check, Commands
  <2>2. UNCHANGED <<proposed, suggested, history, verdictOf, deciding, outlived>>
    BY <1>2 DEF ShadowNew, Prune, RemoveWorkspace, Check, reviewVars
  <2> QED  BY <2>1, <2>2, CommandLeavesReviews
<1>3. CASE ShadowDrop \/ Dropped
  <2>1. agent'.then # "propose"
    <3>1. CASE Dropped
      BY <3>1, NoCommandIs DEF Dropped
    <3>2. CASE ShadowDrop
      <4>1. PICK after \in {"dropped", "exit"}, step \in {"ended", "prune"} :
              agent' = [NoCommand EXCEPT !.ws = shadowWS, !.then = after, !.step = step]
        BY <3>2 DEF ShadowDrop
      <4> QED  BY <4>1 DEF NoCommand
    <3> QED  BY <1>3, <3>1, <3>2
  <2>2. UNCHANGED <<proposed, suggested, history, verdictOf, deciding, outlived>>
    BY <1>3 DEF ShadowDrop, Dropped, reviewVars
  <2> QED  BY <2>1, <2>2, CommandLeavesReviews
<1>4. CASE Evolve
  BY <1>4, CommandLeavesReviews DEF Evolve, reviewVars
<1>5. CASE ProcessEnds \/ ProposeOrFail \/ EditMemory
  BY <1>5, EndKeepsReviews, ProposeKeeps, EditKeeps
<1>6. ASSUME NEW r \in Reviewers, DecideTakes(r) \/ DecideRecords(r) \/ ApplyDecision(r) PROVE ReviewInv'
  BY <1>6, TakeKeeps, RecordKeeps, ApplyKeeps
<1> QED  BY <1>1, <1>2, <1>3, <1>4, <1>5, <1>6 DEF LearningNext

LEMMA AtMostOne ==
  ASSUME NEW S, \A x, y \in S : x = y
  PROVE  Cardinality(S) = IF S = {} THEN 0 ELSE 1
<1>1. CASE S = {}
  BY <1>1, FS_EmptySet
<1>2. CASE S # {}
  <2>1. PICK x : S = {x}
    BY <1>2
  <2> QED  BY <1>2, <2>1, FS_Singleton
<1> QED  BY <1>1, <1>2

\* For any callers of evolution/feedback's Decide, the command line and any number
\* of requests of the dashboard: a suggestion is decided by one of them and once,
\* and what was decided gets into the memory whole.
THEOREM DecidedOnce == LearningSpec => []VerdictOnce
<1>1. ReviewInv => VerdictOnce
  <2> SUFFICES ASSUME ReviewInv, NEW n \in Current
               PROVE  /\ Cardinality({r \in DecidingOn(n) : deciding[r].step = "record"})
                           + Cardinality(RecordsOf(n)) + (IF n \in suggested THEN 1 ELSE 0) = 1
                      /\ \A i \in RecordsOf(n) : (DecidingOn(n) = {} /\ history[i].verdict \in Verdicts) =>
                           \A k \in 1 .. MaxLearned : verdictOf[<<n, k>>] \in {history[i].verdict, "edited"}
    BY DEF VerdictOnce, Current
  <2> DEFINE R == {r \in DecidingOn(n) : deciding[r].step = "record"}
             H == RecordsOf(n)
  <2>1. \A r, q \in R : r = q
    BY DEF DecidingOn, ReviewInv, OnePlace, Decides
  <2>2. \A i, j \in H : i = j
    BY DEF RecordsOf, ReviewInv, OnePlace
  <2>3. R = {} \/ H = {}
    BY DEF RecordsOf, DecidingOn, ReviewInv, OnePlace
  <2>4. n \in suggested => R = {} /\ H = {}
    BY DEF RecordsOf, DecidingOn, ReviewInv, OnePlace, Decides
  <2>5. n \in suggested \/ R # {} \/ H # {}
    BY DEF RecordsOf, DecidingOn, ReviewInv, SomePlace
  <2>6. \A i \in H : (DecidingOn(n) = {} /\ history[i].verdict \in Verdicts) =>
           \A k \in 1 .. MaxLearned : verdictOf[<<n, k>>] \in {history[i].verdict, "edited"}
    BY DEF RecordsOf, DecidingOn, ReviewInv, PassedSays
  <2> HIDE DEF R, H
  <2>7. /\ Cardinality(R) = (IF R = {} THEN 0 ELSE 1)
        /\ Cardinality(H) = (IF H = {} THEN 0 ELSE 1)
    BY <2>1, <2>2, AtMostOne
  <2>8. Cardinality(R) + Cardinality(H) + (IF n \in suggested THEN 1 ELSE 0) = 1
    BY <2>3, <2>4, <2>5, <2>7
  <2> QED  BY <2>6, <2>8 DEF R, H
<1>2. ShadowInv => agent \in Commands
  BY DEF ShadowInv, ShadowTypes
<1> QED  BY <1>1, <1>2, ShadowInitOK, ShadowNext, ReviewInitOK, ReviewNext, PTL DEF LearningSpec

-----------------------------------------------------------------------------
(* The wizard for any number of calls at a time and of submissions: what it *)
(* counts as done is in the store, and the two places that tell how much an *)
(* agent may do by itself agree.                                            *)

Sayings == Roles \cup Moods \cup {""}
Vibes == [role : Sayings, mood : Sayings]
Places == Stages \cup {"interaction_logic", "executing"}
Cursors == [at : Places, done : SUBSET Stages]
WizardCallSteps == {"free", "intake", "write", "get", "fill", "set", "keep", "load", "save"}
WizardCalls == [stage : Stages \cup {"none"}, n : Nat, says : Sayings, step : WizardCallSteps, vibe : Vibes, cur : Cursors]

PastWriting == {w \in Windows : callOf[w].step \in {"fill", "set", "keep"}}
Getting == {w \in Windows : callOf[w].step = "get"}

WizardTypes ==
  /\ product \in [Stages -> Nat] /\ cursor \in Cursors
  /\ inferred \in Sayings /\ vibeStored \in Vibes
  /\ vibeCache = <<>> \/ \E v \in Vibes : vibeCache = <<v>>
  /\ callOf \in [Windows -> WizardCalls]
  /\ submits \in Seq(Stages) /\ returned \subseteq DOMAIN submits

\* A call is about a submission, and goes on with what it has written.
CallsOK ==
  \A w \in Windows :
    /\ callOf[w].step # "free" =>
         /\ callOf[w].n \in DOMAIN submits /\ callOf[w].stage = submits[callOf[w].n]
         /\ callOf[w].stage \in Stages
    /\ callOf[w].step \in {"get", "fill", "set", "keep", "load", "save"} => product[callOf[w].stage] # 0
    /\ callOf[w].cur.done \subseteq Snapshot

CursorTold ==
  /\ cursor.done \subseteq Snapshot
  /\ ~cursorRaced => \A n \in returned : submits[n] \in cursor.done

\* Of the calls that change the preference one at most is past its read. Unless
\* others are about to read, it is the one that the prompt tells of; a call that
\* is about to read alone is that one.
VibeTurns ==
  ~vibeRaced =>
    /\ \A w, v \in PastWriting : w = v
    /\ \A w \in PastWriting : Getting = {} => styleSaid = callOf[w].says
    /\ \A w \in Getting : Getting = {w} => styleSaid = callOf[w].says
    /\ \A w \in PastWriting : callOf[w].step = "keep" =>
         vibeCache # <<>> /\ Head(vibeCache).mood = callOf[w].says
    /\ (PastWriting = {} /\ Getting = {} /\ styleSaid # "none") =>
         vibeCache # <<>> /\ Head(vibeCache).mood = styleSaid

WizardInv == WizardTypes /\ CallsOK /\ CursorTold /\ VibeTurns

LEMMA DefaultVibeIs == DefaultVibe \in Vibes
  BY DEF DefaultVibe, Vibes, Sayings, Roles, Moods

LEMMA NoCursorIs == NoCursor \in Cursors /\ NoCursor.done = {}
  BY DEF NoCursor, Cursors, Places, Stages

LEMMA NoCallIs ==
  /\ NoCall \in WizardCalls /\ NoCall.step = "free" /\ NoCall.cur.done = {}
  BY DefaultVibeIs, NoCursorIs DEF NoCall, WizardCalls, WizardCallSteps, Sayings

LEMMA WizardInitOK == WizardInit => WizardInv
<1> SUFFICES ASSUME WizardInit PROVE WizardInv
  OBVIOUS
<1>1. /\ product = [st \in Stages |-> 0] /\ cursor = NoCursor /\ inferred = "developer"
      /\ vibeStored = DefaultVibe /\ vibeCache = <<>> /\ callOf = [w \in Windows |-> NoCall]
      /\ submits = <<>> /\ returned = {} /\ styleSaid = "none"
  BY DEF WizardInit
<1>2. WizardTypes
  BY <1>1, DefaultVibeIs, NoCursorIs, NoCallIs DEF WizardTypes, Sayings, Roles
<1>3. \A w \in Windows : callOf[w] = NoCall
  BY <1>1
<1>4. CallsOK
  BY <1>3, NoCallIs DEF CallsOK
<1>5. CursorTold
  BY <1>1, NoCursorIs DEF CursorTold
<1>6. PastWriting = {} /\ Getting = {}
  BY <1>3, NoCallIs DEF PastWriting, Getting
<1>7. VibeTurns
  BY <1>1, <1>6 DEF VibeTurns
<1> QED  BY <1>2, <1>4, <1>5, <1>7 DEF WizardInv

\* A call that takes a step of its own: the calls after it, and who is where.
LEMMA CallSteps1 ==
  ASSUME WizardTypes, NEW w \in Windows, NEW c \in WizardCalls, callOf' = [callOf EXCEPT ![w] = c]
  PROVE  /\ callOf' \in [Windows -> WizardCalls] /\ callOf'[w] = c
         /\ \A v \in Windows : v # w => callOf'[v] = callOf[v]
         /\ PastWriting' = (IF c.step \in {"fill", "set", "keep"} THEN PastWriting \cup {w} ELSE PastWriting \ {w})
         /\ Getting' = (IF c.step = "get" THEN Getting \cup {w} ELSE Getting \ {w})
<1>1. /\ callOf' \in [Windows -> WizardCalls] /\ callOf'[w] = c
      /\ \A v \in Windows : v # w => callOf'[v] = callOf[v]
  BY DEF WizardTypes
<1> QED  BY <1>1 DEF PastWriting, Getting

\* A step of a call that stays out of the preference.
LEMMA OutsideVibe ==
  ASSUME VibeTurns, NEW w \in Windows, \A v \in Windows : v # w => callOf'[v] = callOf[v],
         callOf[w].step \notin {"get", "fill", "set", "keep"}, callOf'[w].step \notin {"get", "fill", "set", "keep"},
         UNCHANGED <<vibeCache, styleSaid, vibeRaced>>
  PROVE  VibeTurns'
<1>1. PastWriting' = PastWriting /\ Getting' = Getting /\ w \notin PastWriting /\ w \notin Getting
  BY DEF PastWriting, Getting
<1>2. \A v \in PastWriting \cup Getting : callOf'[v] = callOf[v]
  BY <1>1 DEF PastWriting, Getting
<1> QED  BY <1>1, <1>2 DEF VibeTurns

LEMMA SubmitKeeps == ASSUME WizardInv, NEW w \in Windows, Submit(w) PROVE WizardInv'
<1>1. PICK st \in Stages, x \in Sayings, step \in {"intake", "write"} :
        /\ callOf[w].step = "free" /\ submits' = Append(submits, st)
        /\ callOf' = [callOf EXCEPT ![w] = [NoCall EXCEPT !.stage = st, !.n = Len(submits'), !.says = x, !.step = step]]
        /\ UNCHANGED <<product, cursor, inferred, vibeStored, vibeCache, returned, styleSaid, cursorRaced, vibeRaced>>
  BY DEF Submit, StepIs, Saying, Sayings, Roles, Moods
<1>2. /\ submits \in Seq(Stages) /\ submits' \in Seq(Stages) /\ Len(submits') = Len(submits) + 1
      /\ submits'[Len(submits')] = st /\ DOMAIN submits' = 1 .. Len(submits')
      /\ \A n \in DOMAIN submits : n \in DOMAIN submits' /\ submits'[n] = submits[n]
  BY <1>1 DEF WizardInv, WizardTypes
<1>3. PICK n \in Nat : n = Len(submits')
  BY <1>2
<1>4. PICK c : c = [NoCall EXCEPT !.stage = st, !.n = n, !.says = x, !.step = step]
  OBVIOUS
<1>5. c \in WizardCalls /\ c.step = step /\ c.n = n /\ c.stage = st /\ c.cur.done = {}
  <2>1. NoCall \in WizardCalls /\ NoCall.cur.done = {} /\ step \in WizardCallSteps
    BY NoCallIs DEF WizardCallSteps
  <2>2. c \in WizardCalls /\ c.step = step /\ c.n = n /\ c.stage = st /\ c.cur = NoCall.cur
    BY <1>4, <2>1 DEF WizardCalls
  <2> QED  BY <2>1, <2>2
<1>6. /\ callOf' \in [Windows -> WizardCalls] /\ callOf'[w] = c /\ \A v \in Windows : v # w => callOf'[v] = callOf[v]
  BY <1>1, <1>3, <1>4, <1>5, CallSteps1 DEF WizardInv
<1>7. Snapshot' = Snapshot
  BY <1>1 DEF Snapshot
<1>8. WizardTypes'
  BY <1>1, <1>2, <1>6 DEF WizardInv, WizardTypes
<1>9. CallsOK'
  <2> SUFFICES ASSUME NEW v \in Windows
               PROVE  /\ callOf'[v].step # "free" =>
                           /\ callOf'[v].n \in DOMAIN submits' /\ callOf'[v].stage = submits'[callOf'[v].n]
                           /\ callOf'[v].stage \in Stages
                      /\ callOf'[v].step \in {"get", "fill", "set", "keep", "load", "save"} => product'[callOf'[v].stage] # 0
                      /\ callOf'[v].cur.done \subseteq Snapshot'
    BY DEF CallsOK
  <2>1. CASE v = w
    <3>1. Len(submits') \in DOMAIN submits'
      BY <1>2
    <3>2. callOf'[v] = c
      BY <2>1, <1>6
    <3>3. c.n \in DOMAIN submits' /\ submits'[c.n] = st /\ c.step \in {"intake", "write"}
      BY <3>1, <1>1, <1>2, <1>3, <1>5
    <3> QED  BY <3>2, <3>3, <1>5
  <2>2. CASE v # w
    BY <2>2, <1>1, <1>2, <1>6, <1>7 DEF WizardInv, CallsOK
  <2> QED  BY <2>1, <2>2
<1>10. CursorTold'
  BY <1>1, <1>2, <1>7 DEF WizardInv, WizardTypes, CursorTold
<1>11. VibeTurns'
  BY <1>1, <1>6, <1>5, OutsideVibe DEF WizardInv
<1> QED  BY <1>8, <1>9, <1>10, <1>11 DEF WizardInv

\* A call that goes on, on the same submission.
LEMMA CallGoesOn ==
  ASSUME WizardInv, NEW w \in Windows, callOf[w].step # "free", NEW c \in WizardCalls, callOf' = [callOf EXCEPT ![w] = c],
         c.stage = callOf[w].stage, c.n = callOf[w].n, c.cur \in {callOf[w].cur, cursor},
         c.step \in {"get", "fill", "set", "keep", "load", "save"} => product[c.stage] # 0,
         UNCHANGED <<product, cursor, submits, returned, cursorRaced>>,
         inferred' \in Sayings, vibeStored' \in Vibes, vibeCache' = <<>> \/ \E v \in Vibes : vibeCache' = <<v>>
  PROVE  WizardTypes' /\ CallsOK' /\ CursorTold'
<1>1. /\ callOf' \in [Windows -> WizardCalls] /\ callOf'[w] = c /\ \A v \in Windows : v # w => callOf'[v] = callOf[v]
  BY CallSteps1 DEF WizardInv
<1>2. WizardTypes'
  BY <1>1 DEF WizardInv, WizardTypes
<1>3. Snapshot' = Snapshot
  BY DEF Snapshot
<1>4. CallsOK'
  BY <1>1, <1>3 DEF WizardInv, CallsOK, CursorTold
<1>5. CursorTold'
  BY <1>3 DEF WizardInv, CursorTold
<1> QED  BY <1>2, <1>4, <1>5

LEMMA StepOnly ==
  ASSUME NEW d \in WizardCalls, NEW step \in WizardCallSteps
  PROVE  LET c == [d EXCEPT !.step = step]
         IN c \in WizardCalls /\ c.step = step /\ c.stage = d.stage /\ c.n = d.n /\ c.says = d.says /\ c.vibe = d.vibe /\ c.cur = d.cur
  BY DEF WizardCalls

LEMMA IntakeKeeps == ASSUME WizardInv, NEW w \in Windows, IntakeRuns(w) PROVE WizardInv'
<1>1. /\ callOf[w].step = "intake" /\ inferred' = callOf[w].says
      /\ callOf' = [callOf EXCEPT ![w].step = "write"]
      /\ UNCHANGED <<product, cursor, vibeStored, vibeCache, submits, returned, styleSaid, cursorRaced, vibeRaced>>
  BY DEF IntakeRuns, StepIs, CallGoes
<1>2. callOf[w] \in WizardCalls /\ callOf[w].says \in Sayings /\ "write" \in WizardCallSteps
  BY DEF WizardInv, WizardTypes, WizardCalls, WizardCallSteps
<1>3. PICK c : c = [callOf[w] EXCEPT !.step = "write"]
  OBVIOUS
<1>4. c \in WizardCalls /\ c.step = "write" /\ c.stage = callOf[w].stage /\ c.n = callOf[w].n /\ c.cur = callOf[w].cur
  BY <1>2, <1>3, StepOnly
<1>5. callOf' = [callOf EXCEPT ![w] = c]
  BY <1>1, <1>3
<1>6. WizardTypes' /\ CallsOK' /\ CursorTold'
  BY <1>1, <1>2, <1>4, <1>5, CallGoesOn DEF WizardInv, WizardTypes
<1>7. /\ callOf'[w] = c /\ \A v \in Windows : v # w => callOf'[v] = callOf[v]
  BY <1>4, <1>5, CallSteps1 DEF WizardInv
<1>8. VibeTurns'
  BY <1>1, <1>4, <1>7, OutsideVibe DEF WizardInv
<1> QED  BY <1>6, <1>8 DEF WizardInv

\* The product is stored before anything else is made of the submission.
LEMMA WriteKeeps == ASSUME WizardInv, NEW w \in Windows, WriteProduct(w) PROVE WizardInv'
<1> DEFINE d == callOf[w]
<1>1. /\ d.step = "write" /\ product' = [product EXCEPT ![d.stage] = d.n]
      /\ styleSaid' = (IF d.stage = "decision_style" THEN d.says ELSE styleSaid)
      /\ UNCHANGED <<cursor, inferred, vibeStored, vibeCache, submits, returned, cursorRaced, vibeRaced>>
  BY DEF WriteProduct, StepIs
<1>2. PICK step \in {"get", "load"} :
        /\ step = "get" <=> d.stage = "decision_style"
        /\ callOf' = [callOf EXCEPT ![w].step = step]
  BY DEF WriteProduct, CallGoes
<1>3. d \in WizardCalls /\ step \in WizardCallSteps
  BY DEF WizardInv, WizardTypes, WizardCallSteps
<1>4. PICK c : c = [d EXCEPT !.step = step]
  OBVIOUS
<1>5. /\ c \in WizardCalls /\ c.step = step /\ c.stage = d.stage /\ c.n = d.n /\ c.cur = d.cur /\ c.says = d.says
      /\ callOf' = [callOf EXCEPT ![w] = c]
  BY <1>2, <1>3, <1>4, StepOnly
<1>6. /\ callOf' \in [Windows -> WizardCalls] /\ callOf'[w] = c /\ \A v \in Windows : v # w => callOf'[v] = callOf[v]
      /\ PastWriting' = PastWriting \ {w} /\ Getting' = (IF step = "get" THEN Getting \cup {w} ELSE Getting \ {w})
  BY <1>2, <1>5, CallSteps1 DEF WizardInv
<1>7. d.stage \in Stages /\ d.n \in DOMAIN submits /\ d.n \in Nat /\ d.n # 0
  BY <1>1 DEF WizardInv, WizardTypes, CallsOK
<1>8. /\ product' \in [Stages -> Nat] /\ product'[d.stage] # 0
      /\ \A st \in Stages : product[st] # 0 => product'[st] # 0
  BY <1>1, <1>7 DEF WizardInv, WizardTypes
<1>9. Snapshot \subseteq Snapshot'
  BY <1>8 DEF Snapshot
<1>10. WizardTypes'
  BY <1>1, <1>6, <1>8 DEF WizardInv, WizardTypes
<1>11. CallsOK'
  BY <1>1, <1>5, <1>6, <1>7, <1>8, <1>9 DEF WizardInv, CallsOK
<1>12. CursorTold'
  BY <1>1, <1>9 DEF WizardInv, CursorTold
<1>13. VibeTurns'
  <2>1. CASE step = "load"
    <3>1. UNCHANGED <<vibeCache, styleSaid, vibeRaced>>
      BY <2>1, <1>1, <1>2
    <3> QED  BY <2>1, <3>1, <1>1, <1>5, <1>6, OutsideVibe DEF WizardInv
  <2>2. CASE step = "get"
    <3>1. w \notin PastWriting /\ w \notin Getting
      BY <1>1 DEF PastWriting, Getting
    <3>2. PastWriting' = PastWriting /\ Getting' = Getting \cup {w} /\ styleSaid' = c.says
      BY <2>2, <3>1, <1>1, <1>2, <1>5, <1>6
    <3>3. \A v \in PastWriting : callOf'[v] = callOf[v]
      BY <3>1, <1>6 DEF PastWriting
    <3> QED  BY <3>2, <3>3, <1>1, <1>6 DEF WizardInv, VibeTurns
  <2> QED  BY <2>1, <2>2
<1> QED  BY <1>10, <1>11, <1>12, <1>13 DEF WizardInv

LEMMA ParsedIsVibe == WizardTypes => ParseNewest \in Vibes
  BY DefaultVibeIs DEF WizardTypes, ParseNewest, Parsed, Vibes

\* It reads: when it is alone, its own is the newest submission of a style.
LEMMA GetKeeps == ASSUME WizardInv, NEW w \in Windows, VibeGet(w) PROVE WizardInv'
<1> DEFINE d == callOf[w]
<1>1. /\ d.step = "get" /\ vibeRaced' = (vibeRaced \/ VibeCalls # {w})
      /\ UNCHANGED <<product, cursor, inferred, vibeStored, vibeCache, submits, returned, styleSaid, cursorRaced>>
  BY DEF VibeGet, StepIs
<1>2. PICK v \in Vibes, step \in {"set", "fill"} : callOf' = [callOf EXCEPT ![w].vibe = v, ![w].step = step]
  <2>1. vibeCache # <<>> => Head(vibeCache) \in Vibes
    BY DEF WizardInv, WizardTypes
  <2> QED  BY <2>1, ParsedIsVibe DEF VibeGet, WizardInv
<1>3. d \in WizardCalls /\ step \in WizardCallSteps
  BY DEF WizardInv, WizardTypes, WizardCallSteps
<1>4. PICK c : c = [d EXCEPT !.vibe = v, !.step = step]
  OBVIOUS
<1>5. /\ c \in WizardCalls /\ c.step = step /\ c.stage = d.stage /\ c.n = d.n /\ c.cur = d.cur /\ c.says = d.says
  BY <1>3, <1>4 DEF WizardCalls
<1>6. callOf' = [callOf EXCEPT ![w] = c]
  BY <1>2, <1>3, <1>4 DEF WizardInv, WizardTypes
<1>7. WizardTypes' /\ CallsOK' /\ CursorTold'
  BY <1>1, <1>5, <1>6, CallGoesOn DEF WizardInv, WizardTypes, CallsOK
<1>8. callOf'[w] = c /\ PastWriting' = PastWriting \cup {w} /\ Getting' = Getting \ {w}
  BY <1>2, <1>5, <1>6, CallSteps1 DEF WizardInv
<1>9. VibeTurns'
  <2> SUFFICES ASSUME ~vibeRaced' PROVE VibeTurns'
    BY DEF VibeTurns
  <2>1. ~vibeRaced /\ VibeCalls = {w}
    BY <1>1
  <2>2. PastWriting = {} /\ Getting = {w}
    BY <2>1, <1>1 DEF VibeCalls, PastWriting, Getting
  <2>3. styleSaid' = callOf'[w].says /\ callOf'[w].step # "keep"
    BY <2>1, <2>2, <1>1, <1>2, <1>5, <1>8 DEF WizardInv, VibeTurns
  <2>4. PastWriting' = {w} /\ Getting' = {}
    BY <2>2, <1>8
  <2> QED  BY <2>3, <2>4 DEF VibeTurns
<1> QED  BY <1>7, <1>9 DEF WizardInv

\* What it does with what it has read, before it has stored it.
LEMMA FillKeeps == ASSUME WizardInv, NEW w \in Windows, VibeFill(w) \/ VibeSet(w) PROVE WizardInv'
<1> DEFINE d == callOf[w]
<1>1. /\ d.step \in {"fill", "set"}
      /\ UNCHANGED <<product, cursor, inferred, vibeStored, submits, returned, styleSaid, cursorRaced, vibeRaced>>
  BY DEF VibeFill, VibeSet, StepIs
<1>2. d \in WizardCalls
  BY DEF WizardInv, WizardTypes
<1>3. PICK v \in Vibes, step \in {"set", "keep"} :
        /\ callOf' = [callOf EXCEPT ![w].vibe = v, ![w].step = step]
        /\ vibeCache' = <<v>> /\ (step = "keep" => v.mood = d.says)
  <2>1. CASE VibeFill(w)
    <3>1. d.vibe \in Vibes /\ [callOf EXCEPT ![w].step = "set"] = [callOf EXCEPT ![w].vibe = d.vibe, ![w].step = "set"]
      BY <1>2 DEF WizardInv, WizardTypes, WizardCalls
    <3> QED  BY <2>1, <3>1 DEF VibeFill, CallGoes
  <2>2. CASE VibeSet(w)
    <3>1. PICK v : v = [d.vibe EXCEPT !.mood = d.says]
      OBVIOUS
    <3>2. v \in Vibes /\ v.mood = d.says
      BY <1>2, <3>1 DEF WizardCalls, Vibes
    <3>3. callOf' = [callOf EXCEPT ![w].vibe = v, ![w].step = "keep"] /\ vibeCache' = <<v>>
      BY <2>2, <3>1 DEF VibeSet
    <3> QED  BY <3>2, <3>3
  <2> QED  BY <2>1, <2>2
<1>4. PICK c : c = [d EXCEPT !.vibe = v, !.step = step]
  OBVIOUS
<1>5. step \in WizardCallSteps
  BY DEF WizardCallSteps
<1>6. /\ c \in WizardCalls /\ c.step = step /\ c.stage = d.stage /\ c.n = d.n /\ c.cur = d.cur /\ c.says = d.says
  BY <1>2, <1>4, <1>5 DEF WizardCalls
<1>7. callOf' = [callOf EXCEPT ![w] = c]
  BY <1>2, <1>3, <1>4 DEF WizardInv, WizardTypes
<1>8. WizardTypes' /\ CallsOK' /\ CursorTold'
  <2>1. product[c.stage] # 0
    BY <1>1, <1>6 DEF WizardInv, CallsOK
  <2>2. inferred' \in Sayings /\ vibeStored' \in Vibes
    BY <1>1 DEF WizardInv, WizardTypes
  <2>3. UNCHANGED <<product, cursor, submits, returned, cursorRaced>> /\ d.step # "free"
    BY <1>1
  <2> QED  BY <1>3, <1>6, <1>7, <2>1, <2>2, <2>3, CallGoesOn
<1>9. w \in PastWriting /\ w \notin Getting
  BY <1>1 DEF PastWriting, Getting
<1>10. /\ callOf'[w] = c /\ PastWriting' = PastWriting /\ Getting' = Getting
       /\ \A u \in Windows : u # w => callOf'[u] = callOf[u]
  <2>1. /\ callOf'[w] = c /\ \A u \in Windows : u # w => callOf'[u] = callOf[u]
        /\ PastWriting' = (IF c.step \in {"fill", "set", "keep"} THEN PastWriting \cup {w} ELSE PastWriting \ {w})
        /\ Getting' = (IF c.step = "get" THEN Getting \cup {w} ELSE Getting \ {w})
    BY <1>6, <1>7, CallSteps1 DEF WizardInv
  <2>2. c.step \in {"fill", "set", "keep"} /\ c.step # "get"
    BY <1>6
  <2> QED  BY <1>9, <2>1, <2>2
<1>11. VibeTurns'
  <2>1. \A u \in PastWriting \cup Getting : callOf'[u].says = callOf[u].says
    BY <1>6, <1>10 DEF PastWriting, Getting
  <2>2. Head(vibeCache') = v /\ vibeCache' # <<>>
    BY <1>3
  <2> QED  BY <2>1, <2>2, <1>1, <1>3, <1>6, <1>9, <1>10 DEF WizardInv, VibeTurns
<1> QED  BY <1>8, <1>11 DEF WizardInv

\* The last step: what the cache has is what it said.
LEMMA KeepKeeps == ASSUME WizardInv, NEW w \in Windows, VibeKeep(w) PROVE WizardInv'
<1> DEFINE d == callOf[w]
<1>1. /\ d.step = "keep" /\ vibeStored' = d.vibe /\ callOf' = [callOf EXCEPT ![w].step = "load"]
      /\ UNCHANGED <<product, cursor, inferred, vibeCache, submits, returned, styleSaid, cursorRaced, vibeRaced>>
  BY DEF VibeKeep, StepIs, CallGoes
<1>2. d \in WizardCalls /\ d.vibe \in Vibes /\ "load" \in WizardCallSteps
  BY DEF WizardInv, WizardTypes, WizardCallSteps, WizardCalls
<1>3. PICK c : c = [d EXCEPT !.step = "load"]
  OBVIOUS
<1>4. /\ c \in WizardCalls /\ c.step = "load" /\ c.stage = d.stage /\ c.n = d.n /\ c.cur = d.cur
      /\ callOf' = [callOf EXCEPT ![w] = c]
  BY <1>1, <1>2, <1>3, StepOnly
<1>5. WizardTypes' /\ CallsOK' /\ CursorTold'
  <2>1. product[c.stage] # 0
    BY <1>1, <1>4 DEF WizardInv, CallsOK
  <2>2. inferred' \in Sayings /\ vibeStored' \in Vibes /\ (vibeCache' = <<>> \/ \E v \in Vibes : vibeCache' = <<v>>)
    BY <1>1, <1>2 DEF WizardInv, WizardTypes
  <2>3. UNCHANGED <<product, cursor, submits, returned, cursorRaced>> /\ d.step # "free"
    BY <1>1
  <2> QED  BY <1>4, <2>1, <2>2, <2>3, CallGoesOn
<1>6. w \in PastWriting /\ w \notin Getting
  BY <1>1 DEF PastWriting, Getting
<1>7. /\ PastWriting' = PastWriting \ {w} /\ Getting' = Getting /\ \A u \in Windows : u # w => callOf'[u] = callOf[u]
  <2>1. /\ callOf'[w] = c /\ \A u \in Windows : u # w => callOf'[u] = callOf[u]
        /\ PastWriting' = (IF c.step \in {"fill", "set", "keep"} THEN PastWriting \cup {w} ELSE PastWriting \ {w})
        /\ Getting' = (IF c.step = "get" THEN Getting \cup {w} ELSE Getting \ {w})
    BY <1>4, CallSteps1 DEF WizardInv
  <2>2. c.step \notin {"fill", "set", "keep"} /\ c.step # "get"
    BY <1>4
  <2> QED  BY <1>6, <2>1, <2>2
<1>8. VibeTurns'
  <2> SUFFICES ASSUME ~vibeRaced PROVE VibeTurns'
    BY <1>1 DEF VibeTurns
  <2>1. PastWriting = {w} /\ vibeCache # <<>> /\ Head(vibeCache).mood = d.says /\ (Getting = {} => styleSaid = d.says)
    BY <1>1, <1>6 DEF WizardInv, VibeTurns
  <2>2. PastWriting' = {}
    BY <2>1, <1>7
  <2>3. \A u \in Getting : callOf'[u] = callOf[u]
    BY <1>6, <1>7 DEF Getting
  <2> QED  BY <2>1, <2>2, <2>3, <1>1, <1>7 DEF WizardInv, VibeTurns
<1> QED  BY <1>5, <1>8 DEF WizardInv

LEMMA LoadKeeps == ASSUME WizardInv, NEW w \in Windows, LoadCursor(w) PROVE WizardInv'
<1> DEFINE d == callOf[w]
<1>1. /\ d.step = "load" /\ callOf' = [callOf EXCEPT ![w].cur = cursor, ![w].step = "save"]
      /\ UNCHANGED <<product, cursor, inferred, vibeStored, vibeCache, submits, returned, styleSaid, cursorRaced, vibeRaced>>
  BY DEF LoadCursor, StepIs
<1>2. d \in WizardCalls /\ cursor \in Cursors /\ "save" \in WizardCallSteps
  BY DEF WizardInv, WizardTypes, WizardCallSteps
<1>3. PICK c : c = [d EXCEPT !.cur = cursor, !.step = "save"]
  OBVIOUS
<1>4. c \in WizardCalls /\ c.step = "save" /\ c.stage = d.stage /\ c.n = d.n /\ c.cur = cursor
  BY <1>2, <1>3 DEF WizardCalls
<1>5. callOf' = [callOf EXCEPT ![w] = c]
  BY <1>1, <1>2, <1>3 DEF WizardInv, WizardTypes
<1>6. WizardTypes' /\ CallsOK' /\ CursorTold'
  <2>1. product[c.stage] # 0
    BY <1>1, <1>4 DEF WizardInv, CallsOK
  <2>2. /\ inferred' \in Sayings /\ vibeStored' \in Vibes
        /\ vibeCache' = <<>> \/ \E v \in Vibes : vibeCache' = <<v>>
    BY <1>1 DEF WizardInv, WizardTypes
  <2>3. UNCHANGED <<product, cursor, submits, returned, cursorRaced>> /\ d.step # "free"
    BY <1>1
  <2> QED  BY <1>4, <1>5, <2>1, <2>2, <2>3, CallGoesOn
<1>7. /\ callOf'[w] = c /\ \A v \in Windows : v # w => callOf'[v] = callOf[v]
  BY <1>4, <1>5, CallSteps1 DEF WizardInv
<1>8. VibeTurns'
  BY <1>1, <1>4, <1>7, OutsideVibe DEF WizardInv
<1> QED  BY <1>6, <1>8 DEF WizardInv

\* The cursor that is saved counts what the one that was read did, and this stage.
LEMMA SaveKeeps == ASSUME WizardInv, NEW w \in Windows, SaveCursor(w) PROVE WizardInv'
<1> DEFINE d == callOf[w]
<1>1. /\ d.step = "save" /\ cursor' = [at |-> NextStage(d.stage), done |-> d.cur.done \cup {d.stage}]
      /\ cursorRaced' = (cursorRaced \/ d.cur # cursor)
      /\ returned' = returned \cup {d.n} /\ callOf' = [callOf EXCEPT ![w] = NoCall]
      /\ UNCHANGED <<product, inferred, vibeStored, vibeCache, submits, styleSaid, vibeRaced>>
  BY DEF SaveCursor, StepIs, Advanced
<1>2. /\ d.stage \in Stages /\ d.n \in DOMAIN submits /\ d.stage = submits[d.n] /\ product[d.stage] # 0
      /\ d.cur.done \subseteq Snapshot /\ d \in WizardCalls
  BY <1>1 DEF WizardInv, CallsOK, WizardTypes
<1>3. /\ callOf' \in [Windows -> WizardCalls] /\ callOf'[w] = NoCall
      /\ \A v \in Windows : v # w => callOf'[v] = callOf[v]
  BY <1>1, NoCallIs, CallSteps1 DEF WizardInv
<1>4. NextStage(d.stage) \in Places
  BY <1>2 DEF NextStage, Places, Stages
<1>5. cursor'.done = d.cur.done \cup {d.stage} /\ cursor' \in Cursors
  BY <1>1, <1>2, <1>4 DEF Cursors, WizardCalls
<1>6. Snapshot' = Snapshot /\ d.stage \in Snapshot
  BY <1>1, <1>2 DEF Snapshot
<1>7. WizardTypes'
  BY <1>1, <1>2, <1>3, <1>5 DEF WizardInv, WizardTypes
<1>8. CallsOK'
  BY <1>1, <1>3, <1>6, NoCallIs DEF WizardInv, CallsOK
<1>9. CursorTold'
  <2>1. cursor'.done \subseteq Snapshot'
    BY <1>2, <1>5, <1>6
  <2>2. ASSUME ~cursorRaced', NEW n \in returned' PROVE submits[n] \in cursor'.done
    <3>1. ~cursorRaced /\ d.cur = cursor
      BY <1>1, <2>2
    <3>2. CASE n = d.n
      BY <3>2, <1>2, <1>5
    <3>3. CASE n # d.n
      <4>1. submits[n] \in cursor.done
        BY <1>1, <2>2, <3>1, <3>3 DEF WizardInv, CursorTold
      <4> QED  BY <4>1, <3>1, <1>5
    <3> QED  BY <3>2, <3>3
  <2> QED  BY <2>1, <2>2, <1>1 DEF CursorTold
<1>10. VibeTurns'
  BY <1>1, <1>3, NoCallIs, OutsideVibe DEF WizardInv
<1> QED  BY <1>7, <1>8, <1>9, <1>10 DEF WizardInv

LEMMA WizardStep == WizardInv /\ [WizardNext]_wizardVars => WizardInv'
<1> SUFFICES ASSUME WizardInv, [WizardNext]_wizardVars PROVE WizardInv'
  OBVIOUS
<1>1. CASE UNCHANGED wizardVars
  <2>1. UNCHANGED <<product, cursor, inferred, vibeStored, vibeCache, callOf, submits, returned, styleSaid, cursorRaced, vibeRaced>>
    BY <1>1 DEF wizardVars
  <2>2. Snapshot' = Snapshot /\ PastWriting' = PastWriting /\ Getting' = Getting
    BY <2>1 DEF Snapshot, PastWriting, Getting
  <2> QED  BY <2>1, <2>2 DEF WizardInv, WizardTypes, CallsOK, CursorTold, VibeTurns
<1>2. ASSUME NEW w \in Windows,
             \/ Submit(w) \/ IntakeRuns(w) \/ WriteProduct(w)
             \/ VibeGet(w) \/ VibeFill(w) \/ VibeSet(w) \/ VibeKeep(w)
             \/ LoadCursor(w) \/ SaveCursor(w)
      PROVE  WizardInv'
  BY <1>2, SubmitKeeps, IntakeKeeps, WriteKeeps, GetKeeps, FillKeeps, KeepKeeps, LoadKeeps, SaveKeeps
<1> QED  BY <1>1, <1>2 DEF WizardNext

\* For any number of calls of the desktop application at a time, repeated stages
\* included: wizard.Advance counts a stage only with its product in the memory and
\* forgets none unless two calls had read the same cursor, and what the vibe
\* controller tells of the preference is what the prompt does unless two calls
\* were changing it.
THEOREM WizardAgrees == WizardSpec => []WizardFollowsSubmits
<1>1. WizardInv => WizardFollowsSubmits
  <2> SUFFICES ASSUME WizardInv PROVE WizardFollowsSubmits
    OBVIOUS
  <2>1. VibeCalls = {} => PastWriting = {} /\ Getting = {}
    BY DEF VibeCalls, PastWriting, Getting
  <2>2. (~vibeRaced /\ VibeCalls = {} /\ PromptTold # "none") => VibeTold.mood = PromptTold
    BY <2>1 DEF WizardInv, VibeTurns, VibeTold, PromptTold
  <2> QED  BY <2>2 DEF WizardInv, CursorTold, WizardFollowsSubmits
<1> QED  BY <1>1, WizardInitOK, WizardStep, PTL DEF WizardSpec
=============================================================================
