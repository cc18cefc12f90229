----------------------------- MODULE ClaudeSync -----------------------------
(***************************************************************************)
(* data/claudesync/session_sync.go and jsonl_writer.go with the functions  *)
(* of gateway/gateway.go that use them: a session and the file in which    *)
(* the Claude command keeps the same conversation.  After each save of the *)
(* projection what is new in the log is appended to the file; a load of    *)
(* the session appends to the log what is new in the file.                 *)
(*                                                                         *)
(* How much of the log the file has is remembered as a number of entries;  *)
(* what of the file the log has is found by comparing texts.  A review     *)
(* decision saves and syncs too, from the connection's goroutine, without  *)
(* adding to the log: that is left out.                                    *)
(***************************************************************************)
EXTENDS Integers, Sequences, FiniteSets, SequencesExt, Selection

CONSTANTS
  Texts,       \* what the user and the command say in full
  MaxSaid      \* bound: entries the session and the command write

VARIABLES
  log,         \* the stored log; "from" tells what a load has brought
  count,       \* JSONLSyncEntryCount
  file,        \* the command's file; "by" tells who wrote the line
  managed,     \* the session's own runner is active
  sync,        \* the sink's worker after a save: step, log saved, count read
  merge,       \* a load or a resume: step, the record it has read
  said,        \* entries so far
  met,         \* history: two of the worker, a load and an input overlapped
  failed,      \* history: a crash or a failed write
  replaced,    \* history: a reply has replaced a part of itself in the log
  passed       \* history: a load has counted entries that no save had synced

claudeSyncVars == <<log, count, file, managed, sync, merge, said, met, failed, replaced, passed>>

Part == "part"          \* a reply of which more is to come
NoSync == [step |-> "idle", snap |-> <<>>, count |-> 0]
NoMerge == [step |-> "idle", log |-> <<>>, count |-> 0]

ClaudeSyncInit ==
  /\ log = <<>> /\ count = 0 /\ file = <<>> /\ managed = FALSE
  /\ sync = NoSync /\ merge = NoMerge
  /\ said = 0 /\ met = FALSE /\ failed = FALSE /\ replaced = FALSE /\ passed = FALSE

\* entryDedupKey.
DedupKey(e) == <<e.kind, e.text>>
Keys(s) == {DedupKey(s[i]) : i \in DOMAIN s}

Meet(s, m) == met' = (met \/ (s.step # "idle" /\ m.step # "idle"))

-----------------------------------------------------------------------------
(* The worker: persistProjectionFor, syncSessionEntriesToClaudeJSONL.      *)

\* What a run adds to the log (Projection has the rules in full): the whole of
\* a reply replaces the part that stands at the end.
Logged(e) ==
  IF e.kind = "markdown" /\ log # <<>> /\ Last(log).kind = "markdown" /\ Last(log).text = Part
    THEN Append(Front(log), e)
    ELSE Append(log, e)

SyncSaves(e) ==
  /\ managed /\ sync.step = "idle" /\ said < MaxSaid
  /\ said' = said + 1
  /\ log' = Logged(e)
  /\ replaced' = (replaced \/ Len(log') = Len(log))
  /\ sync' = [step |-> "read", snap |-> log', count |-> 0]
  /\ Meet(sync', merge)
  /\ UNCHANGED <<count, file, managed, merge, failed, passed>>

\* appendUserProjectionEntry: the connection's goroutine, once the input has been
\* sent; the entry goes to the file with the next save of the worker, whose mark
\* it may be lost to.
UserSays(e) ==
  /\ said < MaxSaid
  /\ said' = said + 1
  /\ log' = Append(log, e)
  /\ met' = (met \/ sync.step # "idle" \/ merge.step # "idle")
  /\ UNCHANGED <<count, file, managed, sync, merge, failed, replaced, passed>>

SyncReads ==
  /\ sync.step = "read"
  /\ sync' = [sync EXCEPT !.step = "write", !.count = count]
  /\ UNCHANGED <<log, count, file, managed, merge, said, met, failed, replaced, passed>>

\* ExtractJSONLEvents.
ExtractJSONLEvents(entries, start) ==
  EntriesAt(entries, {i \in start + 1 .. Len(entries) : entries[i].kind \in {"user", "markdown"}})

Line(e, who) == [kind |-> e.kind, text |-> e.text, by |-> who]
Lines(entries) == [i \in DOMAIN entries |-> Line(entries[i], "sync")]

\* WriteSessionToJSONL; without an event there is nothing to write or to count.
SyncWrites ==
  LET events == ExtractJSONLEvents(sync.snap, sync.count)
  IN /\ sync.step = "write"
     /\ file' = file \o Lines(events)
     /\ sync' = IF events = <<>> THEN NoSync ELSE [sync EXCEPT !.step = "mark"]
     /\ UNCHANGED <<log, count, managed, merge, said, met, failed, replaced, passed>>

\* A line that cannot be written: those before it stay, nothing is counted.
SyncWriteFails ==
  LET events == ExtractJSONLEvents(sync.snap, sync.count)
  IN /\ sync.step = "write"
     /\ \E n \in 0 .. Len(events) - 1 : file' = file \o Lines(SubSeq(events, 1, n))
     /\ sync' = NoSync /\ failed' = TRUE
     /\ UNCHANGED <<log, count, managed, merge, said, met, replaced, passed>>

\* The record is saved with the count and with the log of the save.
SyncMarks ==
  /\ sync.step = "mark"
  /\ log' = sync.snap /\ count' = Len(sync.snap)
  /\ sync' = NoSync
  /\ UNCHANGED <<file, managed, merge, said, met, failed, replaced, passed>>

-----------------------------------------------------------------------------
(* A load: mergeClaudeJSONLToRecord.                                       *)

\* session_load merges only without an active runner, session_resume with one too:
\* between them a record is read whatever the runner does.
LoadReads ==
  /\ merge.step = "idle"
  /\ merge' = [step |-> "merge", log |-> log, count |-> 0]
  /\ Meet(sync, merge')
  /\ UNCHANGED <<log, count, file, managed, sync, said, failed, replaced, passed>>

\* augmentLocalClaudeRecordFromNative: a log that has no reply is shown as the
\* file has it, and is then not found to lack anything.
ShownAsFile(entries) ==
  /\ \E i \in DOMAIN entries : entries[i].kind = "user"
  /\ ~\E i \in DOMAIN entries : entries[i].kind = "markdown"

\* MergeJSONLToSession: each text of the file that the log does not have, once.
NewInFile(entries) ==
  LET new == {i \in DOMAIN file : DedupKey(file[i]) \notin Keys(entries)
                /\ ~\E j \in 1 .. i - 1 : DedupKey(file[j]) = DedupKey(file[i])}
      shown(line) == [kind |-> line.kind, text |-> line.text, from |-> "file"]
  IN EntriesAt([i \in DOMAIN file |-> shown(file[i])], new)

\* Fault: the count is that of the entries the load has brought.
MergedCountOfNew(entries) == Len(NewInFile(entries))

MergedCount(entries) == Len(entries) + Len(NewInFile(entries))

LoadMerges ==
  /\ merge.step = "merge"
  /\ merge' = IF ShownAsFile(merge.log) \/ NewInFile(merge.log) = <<>> THEN NoMerge
              ELSE [step |-> "save", log |-> merge.log \o NewInFile(merge.log), count |-> MergedCount(merge.log)]
  /\ UNCHANGED <<log, count, file, managed, sync, said, met, failed, replaced, passed>>

LoadSaves ==
  /\ merge.step = "save"
  /\ log' = merge.log /\ count' = merge.count
  /\ merge' = NoMerge
  /\ passed' = (passed \/ ExtractJSONLEvents(log, count) # <<>>)
  /\ UNCHANGED <<file, managed, sync, said, met, failed, replaced>>

-----------------------------------------------------------------------------
(* What the rest of the system does.                                       *)

\* The Claude command, the session's own or one at the desk, writes its file.
CommandWrites(e) ==
  /\ said < MaxSaid
  /\ said' = said + 1
  /\ file' = Append(file, Line(e, "command"))
  /\ UNCHANGED <<log, count, managed, sync, merge, met, failed, replaced, passed>>

RunnerChanges ==
  /\ managed' = ~managed
  /\ UNCHANGED <<log, count, file, sync, merge, said, met, failed, replaced, passed>>

\* Crash and restart.
SyncCrash ==
  /\ sync.step # "idle" \/ merge.step # "idle"
  /\ managed' = FALSE /\ sync' = NoSync /\ merge' = NoMerge
  /\ failed' = TRUE
  /\ UNCHANGED <<log, count, file, said, met, replaced, passed>>

Entries == [kind : {"user"}, text : Texts, from : {"here"}]
  \cup [kind : {"markdown"}, text : Texts \cup {Part}, from : {"here"}]
  \cup {[kind |-> "terminal", text |-> Part, from |-> "here"]}

ClaudeSyncNext ==
  \/ \E e \in Entries : IF e.kind = "user" THEN UserSays(e) ELSE SyncSaves(e)
  \/ SyncReads \/ SyncWrites \/ SyncWriteFails \/ SyncMarks
  \/ LoadReads \/ LoadMerges \/ LoadSaves
  \/ \E e \in {x \in Entries : x.kind # "terminal" /\ x.text # Part} : CommandWrites(e)
  \/ RunnerChanges \/ SyncCrash

ClaudeSyncSpec == ClaudeSyncInit /\ [][ClaudeSyncNext]_claudeSyncVars

-----------------------------------------------------------------------------
(* Properties.                                                             *)

ClaudeSyncTypeOK ==
  /\ \A i \in DOMAIN log : log[i] \in Entries \/ [log[i] EXCEPT !.from = "here"] \in Entries
  /\ \A i \in DOMAIN file : file[i].by \in {"sync", "command"} /\ file[i].kind # "terminal"
  /\ count \in 0 .. 2 * MaxSaid /\ said \in 0 .. MaxSaid

\* What the count covers the file has got from the session exactly once: however
\* often the session is loaded and continued, nothing a load has brought is
\* written back and nothing that was said is written twice or passed over.  The
\* exceptions: a load or an input beside a save, a crash or failed write between
\* the file and the count, a reply that replaced a part of itself under the count,
\* and an input that no save had synced when a load counted the whole log.
SyncedExactlyOnce ==
  (~met /\ ~failed /\ ~replaced /\ ~passed /\ sync.step # "mark") =>
    \A k \in Keys(log) \cup Keys(file) :
      Cardinality({i \in DOMAIN file : file[i].by = "sync" /\ DedupKey(file[i]) = k})
        = Cardinality({i \in 1 .. count : log[i].from = "here" /\ DedupKey(log[i]) = k
                                            /\ log[i].kind # "terminal"})
=============================================================================
