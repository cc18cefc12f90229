------------------------------ MODULE Learning ------------------------------
(***************************************************************************)
(* What agentd learns: evolution/shadow's workspaces, the evaluation of    *)
(* evolution/evolve in one of them, the suggestions of evolution/feedback  *)
(* and the decisions about them, which arrive from the command line        *)
(* (cmd/agentd/commands.go) and, each on a goroutine of its own, from the  *)
(* dashboard (cognition/dashboard), whose memory editor changes the same   *)
(* entries.                                                                *)
(*                                                                         *)
(* The command line runs one command at a time. The project is a git       *)
(* repository: a workspace is a worktree registered there, or a copy when  *)
(* git failed. The memory is in the process; the workspaces and git's      *)
(* registrations outlive it. Git's prune is taken to succeed.              *)
(***************************************************************************)
EXTENDS Integers, Sequences, FiniteSets

CONSTANTS
  Reviewers,      \* callers of Decide at a time: "cli" and the dashboard's
  MaxShadows,     \* bound: workspaces
  MaxProposed,    \* bound: suggestions
  MaxLearned      \* learnings of a suggestion: one per check

ASSUME LearningAssumption == MaxShadows \in Nat /\ MaxProposed \in Nat /\ MaxLearned \in Nat \ {0}

Verdicts == {"accept", "reject", "adjust"}
Outcomes == {"passed", "failed"}

VARIABLES
  agent,          \* the command that is running: its step, workspace, outcome, what follows the cleanup
  shadowWS,       \* cliState.shadowWS, or 0
  dirs,           \* workspaces on the disk
  registered,     \* worktrees the repository knows
  shadows,        \* the workspaces created
  proposed,       \* proposed[n]: the outcome that suggestion n is about
  evolved,        \* outcomes with an entry of the evaluation in the memory
  suggested,      \* Controller.pending
  history,        \* Controller.history
  verdictOf,      \* verdictOf[<<n, i>>]: what the memory says of learning i, or "none"
  deciding,       \* deciding[r]: the suggestion, the decision, the step, the next learning
  lostProcess,    \* history: workspaces whose process has died or whose removal failed
  unmade,         \* history: workspaces that could not be made
  outlived       \* history: suggestions of an earlier process

learningVars == <<agent, shadowWS, dirs, registered, shadows, proposed, evolved, suggested, history,
                  verdictOf, deciding, lostProcess, unmade, outlived>>

NoCommand == [step |-> "idle", ws |-> 0, outcome |-> "none", then |-> "idle"]
NoReview == [n |-> 0, verdict |-> "none", step |-> "free", next |-> 1]
Learnings == (1..MaxProposed) \X (1..MaxLearned)

LearningInit ==
  /\ agent = NoCommand /\ shadowWS = 0 /\ dirs = {} /\ registered = {} /\ shadows = 0
  /\ proposed = <<>> /\ evolved = {} /\ suggested = {} /\ history = <<>>
  /\ verdictOf = [l \in Learnings |-> "none"]
  /\ deciding = [r \in Reviewers |-> NoReview]
  /\ lostProcess = {} /\ unmade = {} /\ outlived = {}

CommandLineFree == agent.step = "idle" /\ ("cli" \in Reviewers => deciding["cli"].step = "free")

shadowVars == <<shadowWS, dirs, registered, shadows, lostProcess, unmade>>
reviewVars == <<proposed, evolved, suggested, history, verdictOf, deciding, outlived>>

-----------------------------------------------------------------------------
(* Workspaces.                                                             *)

\* CreateWorkspace: a worktree; a copy, where git had failed before it registered
\* one or after; nothing when the copy fails as well and its directory is removed.
CreateWorkspace(ws, made, known) ==
  /\ ws = shadows + 1 /\ shadows < MaxShadows
  /\ shadows' = ws
  /\ dirs' = IF made THEN dirs \cup {ws} ELSE dirs
  /\ registered' = IF known THEN registered \cup {ws} ELSE registered
  /\ unmade' = IF made THEN unmade ELSE unmade \cup {ws}
  /\ UNCHANGED lostProcess

\* /shadow new
ShadowNew ==
  /\ CommandLineFree /\ shadowWS = 0
  /\ \E made, known \in BOOLEAN :
       /\ CreateWorkspace(shadows + 1, made, known)
       /\ shadowWS' = IF made THEN shadows + 1 ELSE 0
  /\ UNCHANGED <<agent, reviewVars>>

\* /shadow drop, and cliState.shutdown on /exit
ShadowDrop ==
  /\ CommandLineFree
  /\ \E after \in {"dropped", "exit"} :
       /\ after = "dropped" => shadowWS # 0
       /\ agent' = [NoCommand EXCEPT !.ws = shadowWS, !.then = after,
                                !.step = IF shadowWS = 0 THEN "ended" ELSE "prune"]
  /\ UNCHANGED <<shadowVars, reviewVars>>

\* Fault: git is not told that directories are gone.
EverKnownToGit == registered

KnownToGit == registered \cap dirs

\* Workspace.Cleanup first: what has lost its directory is outlived by git.
Prune ==
  /\ agent.step = "prune"
  /\ registered' = KnownToGit
  /\ agent' = [agent EXCEPT !.step = "remove"]
  /\ UNCHANGED <<shadowWS, dirs, shadows, lostProcess, unmade, reviewVars>>

\* Its own directory goes after that, and is not tried again when that fails.
RemoveWorkspace ==
  /\ agent.step = "remove"
  /\ \E removed \in BOOLEAN :
       /\ dirs' = IF removed THEN dirs \ {agent.ws} ELSE dirs
       /\ lostProcess' = IF removed THEN lostProcess ELSE lostProcess \cup {agent.ws}
  /\ agent' = [agent EXCEPT !.step = "ended"]
  /\ UNCHANGED <<shadowWS, registered, shadows, unmade, reviewVars>>

\* The command returns; Evaluate's result is proposed only now.
Dropped ==
  /\ agent.step = "ended" /\ agent.then = "dropped"
  /\ agent' = NoCommand /\ shadowWS' = 0
  /\ UNCHANGED <<dirs, registered, shadows, lostProcess, unmade, reviewVars>>

\* The process is gone: after /exit, or killed at any time.
ProcessEnds ==
  /\ agent' = NoCommand /\ shadowWS' = 0
  /\ lostProcess' = lostProcess \cup dirs
  /\ suggested' = {} /\ history' = <<>> /\ evolved' = {}
  /\ verdictOf' = [l \in Learnings |-> "none"]
  /\ deciding' = [r \in Reviewers |-> NoReview]
  /\ outlived' = DOMAIN proposed
  /\ UNCHANGED <<dirs, registered, shadows, proposed, unmade>>

-----------------------------------------------------------------------------
(* Evaluate.                                                               *)

\* /evolve: CreateWorkspace and, with changes, ApplyDiff.
Evolve ==
  /\ CommandLineFree /\ Len(proposed) < MaxProposed
  /\ \E made, known, applied \in BOOLEAN :
       /\ CreateWorkspace(shadows + 1, made, known)
       /\ agent' = IF ~made THEN NoCommand
                   ELSE [NoCommand EXCEPT !.ws = shadows + 1, !.then = IF applied THEN "propose" ELSE "failed",
                                     !.step = IF applied THEN "check" ELSE "prune"]
  /\ UNCHANGED <<shadowWS, reviewVars>>

\* runCheck, extractLearnings: a check that was cut short has failed as well. The
\* entries are written before the workspace is cleaned up.
Check ==
  /\ agent.step = "check"
  /\ \E outcome \in Outcomes :
       /\ agent' = [agent EXCEPT !.outcome = outcome, !.step = "prune"]
       /\ evolved' = evolved \cup {outcome}
  /\ UNCHANGED <<shadowVars, proposed, suggested, history, verdictOf, deciding, outlived>>

ProposeOrFail ==
  /\ agent.step = "ended" /\ agent.then \in {"propose", "failed"}
  /\ agent' = NoCommand
  /\ IF agent.then = "propose"
     THEN /\ proposed' = Append(proposed, agent.outcome)
          /\ suggested' = suggested \cup {Len(proposed')}
     ELSE UNCHANGED <<proposed, suggested>>
  /\ UNCHANGED <<shadowVars, evolved, history, verdictOf, deciding, outlived>>

-----------------------------------------------------------------------------
(* Decide.                                                                 *)

\* Fault: a suggestion that is being decided can be decided again.
TakenByMany(n) == suggested

Taken(n) == suggested \ {n}

\* The decision of the dashboard is whatever its request says.
DecideTakes(r) ==
  /\ deciding[r].step = "free" /\ (r = "cli" => agent.step = "idle")
  /\ \E n \in suggested : \E v \in Verdicts \cup (IF r = "cli" THEN {} ELSE {"unknown"}) :
       /\ deciding' = [deciding EXCEPT ![r] = [n |-> n, verdict |-> v, step |-> "record", next |-> 1]]
       /\ suggested' = Taken(n)
  /\ UNCHANGED <<agent, shadowVars, proposed, evolved, history, verdictOf, outlived>>

DecideRecords(r) ==
  /\ deciding[r].step = "record"
  /\ history' = Append(history, [n |-> deciding[r].n, verdict |-> deciding[r].verdict])
  /\ deciding' = [deciding EXCEPT ![r].step = "apply"]
  /\ UNCHANGED <<agent, shadowVars, proposed, evolved, suggested, verdictOf, outlived>>

\* applyDecision: one learning after the other; an unknown decision writes nothing.
ApplyDecision(r) ==
  LET d == deciding[r]
      written == IF d.verdict \in Verdicts THEN d.verdict ELSE verdictOf[<<d.n, d.next>>]
  IN /\ d.step = "apply"
     /\ verdictOf' = [verdictOf EXCEPT ![<<d.n, d.next>>] = written]
     /\ deciding' = [deciding EXCEPT ![r] = IF d.next = MaxLearned THEN NoReview ELSE [d EXCEPT !.next = @ + 1]]
     /\ UNCHANGED <<agent, shadowVars, proposed, evolved, suggested, history, outlived>>

\* The user rewrites or deletes an entry the memory has: the dashboard's
\* handleMemory, and /mem rm.
EditMemory ==
  /\ \E l \in Learnings : verdictOf[l] \in Verdicts /\ verdictOf' = [verdictOf EXCEPT ![l] = "edited"]
  /\ UNCHANGED <<agent, shadowVars, proposed, evolved, suggested, history, deciding, outlived>>

LearningNext ==
  \/ ShadowNew \/ ShadowDrop \/ Prune \/ RemoveWorkspace \/ Dropped \/ ProcessEnds
  \/ Evolve \/ Check \/ ProposeOrFail \/ EditMemory
  \/ \E r \in Reviewers : DecideTakes(r) \/ DecideRecords(r) \/ ApplyDecision(r)

LearningSpec == LearningInit /\ [][LearningNext]_learningVars

-----------------------------------------------------------------------------
DecidingOn(n) == {r \in Reviewers : deciding[r].n = n}
RecordsOf(n) == {i \in DOMAIN history : history[i].n = n}

\* A suggestion of this process is pending, being decided or decided, by one
\* caller and once, and once nobody works on it the memory says of each of its
\* learnings what was decided, unless the user has edited that entry.
VerdictOnce ==
  \A n \in DOMAIN proposed \ outlived :
    /\ Cardinality({r \in DecidingOn(n) : deciding[r].step = "record"})
         + Cardinality(RecordsOf(n)) + (IF n \in suggested THEN 1 ELSE 0) = 1
    /\ \A i \in RecordsOf(n) : (DecidingOn(n) = {} /\ history[i].verdict \in Verdicts) =>
         \A k \in 1..MaxLearned : verdictOf[<<n, k>>] \in {history[i].verdict, "edited"}

\* A workspace on the disk is in use, or its process was killed or could not remove
\* it; of the workspaces that were made, git is left with at most one registration
\* whose directory is gone.
ShadowsAccounted ==
  /\ dirs \subseteq lostProcess \cup ({shadowWS} \cup {agent.ws})
  /\ Cardinality((registered \ dirs) \ unmade) <= 1
=============================================================================
