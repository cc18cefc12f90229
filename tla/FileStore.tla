------------------------------ MODULE FileStore -----------------------------
(***************************************************************************)
(* data/file_store.go: one file per session record and one index of the    *)
(* summaries.  A mutex makes the calls sequential; os.WriteFile truncates  *)
(* and then writes, so that a crash (or a full disk) between two steps of  *)
(* a call leaves a file empty, half written, or the other file behind.     *)
(***************************************************************************)
EXTENDS Integers, FiniteSets

CONSTANTS Stored      \* sessions

VARIABLES
  rec,        \* rec[s]: "none", "blank" (untouched), "kept", "cut" (cannot be decoded)
  index,      \* the sessions of index.json
  indexFile,  \* "fine", "empty" (read as no sessions), "cut" (cannot be decoded)
  op,         \* the call that holds the mutex: its kind, session, step and data
  stale,      \* the sessions whose summary in the index is older than their record
  listed,     \* history: sessions saved with content, without error, and not emptied since
  emptied,    \* history: a write of the index was cut short
  halfDeleted \* history: sessions whose deletion was cut short after the record's removal

storeVars == <<rec, index, indexFile, op, stale, listed, emptied, halfDeleted>>

Idle == [kind |-> "none", s |-> "none", step |-> "none", to |-> {}]

StoreInit ==
  /\ rec = [s \in Stored |-> "none"]
  /\ index = {} /\ indexFile = "fine"
  /\ op = Idle
  /\ stale = {} /\ listed = {} /\ emptied = FALSE /\ halfDeleted = {}

\* What readIndexLocked finds.
Indexed == IF indexFile = "empty" THEN {} ELSE index

Begins(k, s, step) == op = Idle /\ op' = [kind |-> k, s |-> s, step |-> step, to |-> {}]

Goes(step) == op' = [op EXCEPT !.step = step]

\* The call gives up with an error, or is over.
Ends == op' = Idle

-----------------------------------------------------------------------------
(* The calls, as far as their first write.                                 *)

\* A new session's id is fresh.
CreateSession(s) ==
  /\ rec[s] = "none" /\ s \notin index \cup halfDeleted
  /\ indexFile # "cut"
  /\ Begins("create", s, "record")
  /\ UNCHANGED <<rec, index, indexFile, stale, listed, emptied, halfDeleted>>

\* Inserts a record that is missing, too.
UpsertSession(s) ==
  /\ indexFile # "cut"
  /\ Begins("upsert", s, "record")
  /\ UNCHANGED <<rec, index, indexFile, stale, listed, emptied, halfDeleted>>

SaveProjection(s) ==
  /\ rec[s] \in {"blank", "kept"}
  /\ Begins("save", s, "record")
  /\ UNCHANGED <<rec, index, indexFile, stale, listed, emptied, halfDeleted>>

\* The record goes first.
DeleteSession(s) ==
  /\ rec[s] \in {"blank", "kept"}
  /\ Begins("delete", s, "index")
  /\ rec' = [rec EXCEPT ![s] = "none"]
  /\ listed' = listed \ {s}
  /\ halfDeleted' = halfDeleted \cup {s}
  /\ UNCHANGED <<index, indexFile, stale, emptied>>

\* Untouched sessions are hidden while there are others, and all but the newest
\* of them otherwise; a session whose record cannot be read stays.
Untouched(S) == {s \in S : rec[s] = "blank"}

\* Fault: a session whose record cannot be read is dropped.
VisibleIfReadable(S) ==
  LET readable == {s \in S : rec[s] \in {"blank", "kept"}}
  IN IF Untouched(readable) # readable
       THEN {readable \ Untouched(readable)}
       ELSE IF Cardinality(readable) <= 1 THEN {readable} ELSE {{s} : s \in readable}

Visible(S) ==
  IF Untouched(S) # S
    THEN {S \ Untouched(S)}
    ELSE IF Cardinality(S) <= 1 THEN {S} ELSE {{s} : s \in S}

\* ListSessions, which writes the index when reconcileIndexLocked changes a
\* summary or hides a session.
ListSessions ==
  /\ indexFile # "cut"
  /\ \E V \in Visible(Indexed) :
       /\ V # Indexed \/ \E s \in stale \cap Indexed : rec[s] \in {"blank", "kept"}
       /\ op = Idle
       /\ op' = [kind |-> "list", s |-> "none", step |-> "open", to |-> V]
  /\ UNCHANGED <<rec, index, indexFile, stale, listed, emptied, halfDeleted>>

-----------------------------------------------------------------------------
(* The writes.                                                             *)

\* Fault: the index is written before the record.
NextFileSwapped == IF op.step = "record" /\ op.kind = "create" /\ op.s \notin Indexed THEN "index" ELSE op.step

\* The file the call writes next.
NextFile == op.step

\* writeSessionLocked: the file is truncated, then written.
OpensRecord ==
  /\ op # Idle /\ NextFile = "record"
  /\ rec' = [rec EXCEPT ![op.s] = "cut"]
  /\ Goes("fill")
  /\ UNCHANGED <<index, indexFile, stale, listed, emptied, halfDeleted>>

\* A created session is untouched; saving and inserting bring content along,
\* or leave it untouched.
WritesRecord ==
  /\ op.step = "fill"
  /\ \E v \in IF op.kind = "create" THEN {"blank"} ELSE {"blank", "kept"} :
       /\ rec' = [rec EXCEPT ![op.s] = v]
       /\ listed' = IF v = "blank" THEN listed \ {op.s} ELSE listed
  /\ stale' = stale \cup {op.s}
  /\ Goes("index")
  /\ UNCHANGED <<index, indexFile, emptied, halfDeleted>>

\* The index is read (SaveProjection and DeleteSession read it only now, and
\* fail with the record written or removed) and its next contents made.
ReadsIndex ==
  /\ op # Idle /\ NextFile = "index"
  /\ IF indexFile = "cut"
       THEN Ends
       ELSE op' = [op EXCEPT !.step = "open",
                             !.to = IF op.kind = "delete" THEN Indexed \ {op.s} ELSE Indexed \cup {op.s}]
  /\ UNCHANGED <<rec, index, indexFile, stale, listed, emptied, halfDeleted>>

OpensIndex ==
  /\ op.step = "open"
  /\ indexFile' = "empty"
  /\ Goes("write")
  /\ UNCHANGED <<rec, index, stale, listed, emptied, halfDeleted>>

WritesIndex ==
  /\ op.step = "write"
  /\ index' = op.to
  /\ indexFile' = "fine"
  /\ stale' = IF op.kind = "list" THEN {s \in stale : rec[s] = "cut"} ELSE stale \ {op.s}
  /\ listed' = IF op.kind \in {"upsert", "save"} /\ rec[op.s] = "kept" THEN listed \cup {op.s} ELSE listed
  /\ halfDeleted' = IF op.kind = "delete" THEN halfDeleted \ {op.s} ELSE halfDeleted
  /\ Ends
  /\ UNCHANGED <<rec, emptied>>

\* The process dies, or the disk is full: what was written of the index may be
\* nothing or half a document.
Crash ==
  /\ op # Idle
  /\ Ends
  /\ IF op.step = "write"
       THEN /\ emptied' = TRUE
            /\ index' = {}
            /\ indexFile' \in {"empty", "cut"}
       ELSE UNCHANGED <<index, indexFile, emptied>>
  /\ UNCHANGED <<rec, stale, listed, halfDeleted>>

StoreNext ==
  \/ \E s \in Stored : CreateSession(s) \/ UpsertSession(s) \/ SaveProjection(s) \/ DeleteSession(s)
  \/ ListSessions
  \/ OpensRecord \/ WritesRecord \/ ReadsIndex \/ OpensIndex \/ WritesIndex \/ Crash

StoreSpec == StoreInit /\ [][StoreNext]_storeVars

-----------------------------------------------------------------------------
(* Properties.                                                             *)

StoreTypeOK ==
  /\ rec \in [Stored -> {"none", "blank", "kept", "cut"}]
  /\ index \subseteq Stored /\ indexFile \in {"fine", "empty", "cut"}
  /\ stale \cup listed \subseteq Stored /\ halfDeleted \subseteq Stored

\* What a crash leaves of the index: a listed session without a record is one
\* whose deletion was cut short, for records are written before they are listed;
\* and a session that was saved with content stays listed, its record readable
\* or not, unless a write of the index itself was cut.
IndexFollowsRecords ==
  op = Idle =>
    /\ \A s \in Indexed : rec[s] = "none" => s \in halfDeleted
    /\ ~emptied => \A s \in listed : rec[s] \in {"kept", "cut"} => s \in Indexed
=============================================================================
