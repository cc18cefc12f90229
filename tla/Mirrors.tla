------------------------------ MODULE Mirrors -------------------------------
(***************************************************************************)
(* data/codexsync/threads.go and data/claudesync/threads.go with their     *)
(* users in gateway/gateway.go: conversations that codex and claude keep   *)
(* of their own, shown as mirror sessions.  One conversation of each       *)
(* tool; what a load makes of it and of the record stored before; and the  *)
(* list of sessions, in which a conversation may be present as itself, as  *)
(* a stored mirror and as sessions that resumed it.  Of the record there   *)
(* is the log; the rest the stored one decides, of a codex mirror, or the  *)
(* file, of a claude mirror.                                               *)
(***************************************************************************)
EXTENDS Integers, Sequences, FiniteSets, Selection

CONSTANTS
  Resumers,     \* sessions of this program that may resume a conversation
  MaxMirrored   \* bound: messages and local entries, of both tools

\* A session has a name of its own.
ASSUME MirrorsAssumption == Resumers \cap {"codex", "claude", "none"} = {}

VARIABLES
  native,       \* tool -> the conversation: lines, readable, found
  mirror,       \* tool -> the stored record and its log
  own,          \* session -> what its runtime says: tool, conversation; whether
                \* claude has run in it under the name the session was given
  made,         \* tool -> messages and entries so far
  fresh,        \* history: tool -> loaded since its last message
  excused       \* history: tool -> a message was written in two seconds, or shown
                \* from the prompts, while the rollout could not be read

mirrorVars == <<native, mirror, own, made, fresh, excused>>

Tools == {"codex", "claude"}
NoMirror == [stored |-> FALSE, log |-> <<>>]
LineOf(n, second, from) == [n |-> n, second |-> second, from |-> from]

MirrorsInit ==
  /\ native = [t \in Tools |-> [lines |-> <<>>, readable |-> TRUE, found |-> TRUE]]
  /\ mirror = [t \in Tools |-> NoMirror]
  /\ own = [s \in Resumers |-> [tool |-> "none", conversation |-> "none", named |-> FALSE]]
  /\ made = [t \in Tools |-> 0]
  /\ fresh = [t \in Tools |-> FALSE] /\ excused = [t \in Tools |-> FALSE]

-----------------------------------------------------------------------------
(* Loading: loadRollout, parseSessionFromFile, MirrorRecord.               *)

Distinct(s) == EntriesAt(s, {i \in DOMAIN s : \A j \in 1 .. i - 1 : s[j] # s[i]})

\* Codex writes a message as an event and as an item of the response: they are
\* one by text and second.
RolloutLog == Distinct(native["codex"].lines)

\* The prompts of codex's history have a second of their own.
PromptLog ==
  LET prompts == Distinct([i \in DOMAIN native["codex"].lines |-> [n |-> native["codex"].lines[i].n]])
  IN [i \in DOMAIN prompts |-> LineOf(prompts[i].n, 0, "prompts")]

\* MirrorRecord: the prompts stand in for a rollout that has nothing.
CodexLog == IF native["codex"].readable /\ RolloutLog # <<>> THEN RolloutLog ELSE PromptLog

\* parseSessionFromFile, of the latest of the session's files.
ClaudeFileLog == native["claude"].lines

\* mergeSnapshotLogEntries.
MergeLog(base, overlay) ==
  LET seen(j) == \/ \E i \in DOMAIN base : base[i] = overlay[j]
                 \/ \E i \in 1 .. j - 1 : overlay[i] = overlay[j]
  IN IF base = <<>> THEN overlay
                    ELSE base \o EntriesAt(overlay, {j \in DOMAIN overlay : ~seen(j)})

\* A claude mirror has the longer log.
ClaudeLog(log, old) == IF Len(old) > Len(log) THEN old ELSE log

\* mergeCodexMirrorProjection: the thread's log, and what else is stored.
MergedCodexLog(log, old) == MergeLog(log, old)

\* loadSessionRecord; a conversation that is not found is shown as it is stored.
LoadMirror(t) ==
  /\ native[t].found \/ mirror[t].stored
  /\ IF native[t].found
       THEN /\ mirror' = [mirror EXCEPT ![t] =
                 [stored |-> TRUE, log |-> IF t = "codex" THEN MergedCodexLog(CodexLog, @.log)
                                                          ELSE ClaudeLog(ClaudeFileLog, @.log)]]
            /\ fresh' = [fresh EXCEPT ![t] = TRUE]
            /\ excused' = [excused EXCEPT ![t] = @ \/ ~native[t].readable]
       ELSE UNCHANGED <<mirror, fresh, excused>>
  /\ UNCHANGED <<native, own, made>>

-----------------------------------------------------------------------------
(* The tools.                                                              *)

\* A message, and that it is written a second time in another second.
NativeSays(t, split) ==
  LET n == made[t] + 1
      line == LineOf(n, 1, "native")
  IN /\ made["codex"] + made["claude"] < MaxMirrored
     /\ made' = [made EXCEPT ![t] = n]
     /\ native' = [native EXCEPT ![t].lines = @ \o
          (IF t = "claude" THEN <<line>> ELSE <<line, IF split THEN LineOf(n, 2, "native") ELSE line>>)]
     /\ fresh' = [fresh EXCEPT ![t] = FALSE]
     /\ excused' = [excused EXCEPT ![t] = @ \/ split]
     /\ UNCHANGED <<mirror, own>>

\* The files come and go.
NativeChanges(t) ==
  /\ \E r, f \in BOOLEAN :
       /\ t = "claude" => r
       /\ native' = [native EXCEPT ![t].readable = r, ![t].found = f]
  /\ UNCHANGED <<mirror, own, made, fresh, excused>>

-----------------------------------------------------------------------------
(* This program.                                                           *)

\* A run in the mirror adds entries of its own to the stored log.
LocalEntry(t) ==
  /\ mirror[t].stored /\ made["codex"] + made["claude"] < MaxMirrored
  /\ made' = [made EXCEPT ![t] = @ + 1]
  /\ mirror' = [mirror EXCEPT ![t].log = Append(@, LineOf(made'[t], 1, "local"))]
  /\ UNCHANGED <<native, own, fresh, excused>>

\* A session runs a tool: in the conversation that is mirrored, or, for claude,
\* under the session's own name (ClaudeSessionUUID); its runtime tells the last.
\* Sessions that have run nothing are alike: one of them stands for all.
RunsTool(s, t, named) ==
  /\ own[s].tool = "none" => s = CHOOSE x \in Resumers : own[x].tool = "none"
  /\ own' = [own EXCEPT ![s] = [tool |-> t, conversation |-> IF named THEN s ELSE t, named |-> @.named \/ named]]
  /\ UNCHANGED <<native, mirror, made, fresh, excused>>

-----------------------------------------------------------------------------
(* mergeSessionSummaries, for the directory where all of them are: the     *)
(* conversations are named by their tool, or by the session that named it. *)

\* Fault: what is tracked of a session is what its runtime says.
TrackedByRuntime == {own[s].conversation : s \in {x \in Resumers : own[x].tool # "none"}}

\* trackedMobileVCCodexThreads, trackedMobileVCClaudeSessions.
Tracked ==
  {own[s].conversation : s \in {x \in Resumers : own[x].tool # "none"}} \cup Resumers

\* The rows: sessions, mirrors that are stored, conversations.
Rows ==
  [row : {"session"}, of : Resumers]
    \cup [row : {"mirror"}, of : {t \in Tools : mirror[t].stored} \ Tracked]
    \cup [row : {"native"}, of : ({t \in Tools : native[t].found /\ ~mirror[t].stored}
                                   \cup {s \in Resumers : own[s].named}) \ Tracked]

RowConversation(r) ==
  IF r.row = "session" THEN own[r.of].conversation ELSE r.of

\* dedupeCodexThreadSummaries: of the rows of a codex thread one is left, a
\* session rather than a mirror.
ListedRows ==
  LET thread == {r \in Rows : RowConversation(r) = "codex"}
      sessions == {r \in thread : r.row = "session"}
  IN (Rows \ thread)
       \cup (IF thread = {} THEN {} ELSE {CHOOSE r \in thread : sessions # {} => r \in sessions})

MirrorsNext ==
  \E t \in Tools :
    \/ LoadMirror(t)
    \/ \E b \in BOOLEAN : NativeSays(t, b /\ t = "codex")
    \/ NativeChanges(t) \/ LocalEntry(t)
    \/ \E s \in Resumers, b \in BOOLEAN : RunsTool(s, t, b /\ t = "claude")

MirrorsSpec == MirrorsInit /\ [][MirrorsNext]_mirrorVars

-----------------------------------------------------------------------------
(* Properties.                                                             *)

MirrorsTypeOK ==
  \A t \in Tools :
    /\ made[t] \in 0 .. MaxMirrored
    /\ \A i \in DOMAIN mirror[t].log : mirror[t].log[i].n \in 1 .. made[t]
  /\ \A s \in Resumers : own[s].tool \in Tools \cup {"none"} /\ own[s].conversation \in Tools \cup Resumers \cup {"none"}

\* What this program recorded in a codex mirror outlives every load, whatever
\* became of the thread and in whatever order the two grew; what the thread has
\* is shown, and shown once unless it was written in two seconds or first shown
\* from the prompts; and a claude mirror that is not longer than the file is the file.
MirrorComplete ==
  /\ \A n \in 1 .. made["codex"] :
       LET shown == Cardinality({i \in DOMAIN mirror["codex"].log : mirror["codex"].log[i].n = n})
           ofThread == \E i \in DOMAIN native["codex"].lines : native["codex"].lines[i].n = n
       IN /\ ~ofThread => shown = 1
          /\ (ofThread /\ fresh["codex"]) => shown >= 1 /\ (shown = 1 \/ excused["codex"])
  /\ fresh["claude"] => \/ mirror["claude"].log = native["claude"].lines
                        \/ Len(mirror["claude"].log) > Len(native["claude"].lines)

\* A conversation has one row: that of the session it was named for or that is
\* in it now, whatever else the session has run, and no other than sessions'
\* rows beside it; and none is without.
ListedOnce ==
  \A c \in Tools \cup {s \in Resumers : own[s].named} :
    LET rows == {r \in ListedRows : RowConversation(r) = c}
        sessions == {r \in rows : r.row = "session"}
    IN /\ c \in Resumers => rows \ sessions = {}
       /\ sessions # {} => rows = sessions
       /\ Cardinality(rows \ sessions) <= 1
       /\ c = "codex" => Cardinality(rows) <= 1
       /\ (c \in Tools /\ (native[c].found \/ mirror[c].stored)) => rows # {}
=============================================================================
