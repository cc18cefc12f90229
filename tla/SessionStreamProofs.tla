------------------------- MODULE SessionStreamProofs ------------------------
(***************************************************************************)
(* The stream of a session, for any number of connections, handlers and    *)
(* events: nothing falls between the replay and what a resumed client is   *)
(* sent live, and the prompt the runner waits for is never lost on it.     *)
(***************************************************************************)
EXTENDS SessionStream, SequenceTheorems, TLAPS

EventType == [kind : Kinds, id : Nat, cursor : Nat]
Working == {"append", "count", "notice", "emit"}
Numbered == {"count", "notice", "emit", "read", "save", "status", "tell", "mark"}

\* The types the proof needs, without the bound on the cursors.
StreamTypes ==
  /\ produced \in Nat /\ asking \in Nat
  /\ runner \in {"idle", "count", "send"}
  /\ queue \in Seq(EventType)
  /\ pc \in [Procs -> Working \cup {"idle", "read", "save", "status", "tell", "mark"}]
  /\ ev \in [Procs -> EventType] /\ ai \in [Procs -> Nat]
  /\ cursor \in Nat /\ persisted \in Nat /\ high \in Nat /\ persisted <= high
  /\ conn \in [Conns -> {"off", "attached", "cursor", "replay", "live"}]
  /\ lastSeen \in [Conns -> Nat] /\ from \in [Conns -> Nat] /\ need \in [Conns -> Nat]
  /\ sent \in [Conns -> SUBSET Nat] /\ prompts \in [Conns -> SUBSET Nat]

\* The pending events are the newest ones, all of them up to the limit.
PendingNewest ==
  /\ pending \in Seq(EventType)
  /\ Len(pending) = IF cursor > Limit THEN Limit ELSE cursor
  /\ \A i \in 1 .. Len(pending) : pending[i].cursor = cursor - Len(pending) + i

\* A cursor is given before the event goes anywhere.
CursorsGiven ==
  /\ emitted \subseteq 1 .. cursor
  /\ \A p \in Procs : pc[p] \in Numbered => ev[p].cursor \in 1 .. cursor
  /\ \A p \in Procs : pc[p] = "tell" => ai[p] \in 1 .. cursor

\* A client listens from its attachment on, and resumes no further than it has
\* seen or than has been persisted.
ResumesInTime ==
  \A c \in Conns :
    /\ conn[c] # "off" => c \in listeners
    /\ conn[c] \in {"cursor", "replay", "live"} => from[c] <= lastSeen[c] \/ from[c] <= high

\* The runner does not hold an event while its goroutine processes one.
RunnerApart == runner # "idle" => pc["runner"] = "idle"

GapInv ==
  StreamTypes /\ RunnerApart /\ PendingNewest /\ CursorsGiven /\ ResumesInTime /\ NoGapAfterResume

-----------------------------------------------------------------------------
(* The pending list.                                                       *)

LEMMA Bounds == SinkCap \in Nat /\ Limit \in Nat /\ Limit > 0
BY StreamAssumption

LEMMA Names == "runner" \in Procs /\ "worker" \in Procs /\ Handlers \subseteq Procs
               /\ \A h \in Handlers : h # "runner" /\ h # "worker"
BY StreamAssumption DEF Procs

LEMMA LastOfProperties ==
  ASSUME NEW S, NEW s \in Seq(S), NEW n \in Nat, n > 0
  PROVE  /\ LastOf(s, n) \in Seq(S)
         /\ Len(LastOf(s, n)) = IF Len(s) > n THEN n ELSE Len(s)
         /\ \A i \in 1 .. Len(LastOf(s, n)) : LastOf(s, n)[i] = s[Len(s) - Len(LastOf(s, n)) + i]
<1> DEFINE first == IF Len(s) > n THEN Len(s) - n + 1 ELSE 1
<1>1. Len(s) \in Nat
  BY LenProperties
<1>2. first \in 1 .. Len(s) + 1 /\ Len(s) \in first - 1 .. Len(s)
  BY <1>1
<1> HIDE DEF first
<1>3. /\ SubSeq(s, first, Len(s)) \in Seq(S)
      /\ Len(SubSeq(s, first, Len(s))) = Len(s) - first + 1
      /\ \A i \in 1 .. Len(s) - first + 1 : SubSeq(s, first, Len(s))[i] = s[first + i - 1]
  <2>1. \A i \in first .. Len(s) : s[i] \in S
    BY <1>1, <1>2, ElementOfSeq
  <2>2. first \in Int /\ Len(s) \in Int /\ (first <= Len(s) \/ Len(s) - first + 1 = 0)
    BY <1>1, <1>2
  <2>3. /\ SubSeq(s, first, Len(s)) \in Seq(S)
        /\ Len(SubSeq(s, first, Len(s))) = IF first <= Len(s) THEN Len(s) - first + 1 ELSE 0
        /\ \A i \in 1 .. Len(s) - first + 1 : SubSeq(s, first, Len(s))[i] = s[first + i - 1]
    BY <2>1, <2>2, SubSeqProperties
  <2> QED  BY <2>2, <2>3
<1>4. Len(s) - first + 1 = IF Len(s) > n THEN n ELSE Len(s)
  BY <1>1 DEF first
<1>5. \A i \in Nat : first + i - 1 = Len(s) - (Len(s) - first + 1) + i
  BY <1>1, <1>2
<1>6. LastOf(s, n) = SubSeq(s, first, Len(s))
  BY DEF LastOf, first
<1>7. LastOf(s, n) \in Seq(S) /\ Len(LastOf(s, n)) = IF Len(s) > n THEN n ELSE Len(s)
  BY <1>3, <1>4, <1>6
<1>8. \A i \in 1 .. Len(LastOf(s, n)) : LastOf(s, n)[i] = s[Len(s) - Len(LastOf(s, n)) + i]
  <2>1. Len(LastOf(s, n)) = Len(s) - first + 1
    BY <1>3, <1>6
  <2> SUFFICES ASSUME NEW i \in 1 .. Len(s) - first + 1
               PROVE  LastOf(s, n)[i] = s[Len(s) - (Len(s) - first + 1) + i]
    BY <2>1
  <2>2. LastOf(s, n)[i] = s[first + i - 1]
    BY <1>3, <1>6
  <2> QED  BY <1>5, <2>2
<1> QED  BY <1>7, <1>8

LEMMA PendingGrows ==
  ASSUME cursor \in Nat, PendingNewest, NEW e \in EventType, AppendPending(e)
  PROVE  cursor' = cursor + 1 /\ PendingNewest'
<1> DEFINE x == [e EXCEPT !.cursor = cursor + 1]
           all == Append(pending, x)
<1>1. cursor' = cursor + 1 /\ pending' = LastOf(all, Limit)
  BY DEF AppendPending
<1>2. x \in EventType /\ x.cursor = cursor + 1
  BY DEF EventType
<1> HIDE DEF x
<1>3. pending \in Seq(EventType) /\ Len(pending) \in Nat
  BY LenProperties DEF PendingNewest
<1>4. /\ all \in Seq(EventType) /\ Len(all) = Len(pending) + 1
      /\ \A i \in 1 .. Len(pending) : all[i] = pending[i]
      /\ all[Len(pending) + 1] = x
  BY <1>2, <1>3, AppendProperties
<1> HIDE DEF all
<1>5. \A i \in 1 .. Len(all) : all[i].cursor = cursor + 1 - Len(all) + i
  <2> SUFFICES ASSUME NEW i \in 1 .. Len(all) PROVE all[i].cursor = cursor + 1 - Len(all) + i
    OBVIOUS
  <2>1. CASE i \in 1 .. Len(pending)
    BY <1>3, <1>4, <2>1 DEF PendingNewest
  <2>2. CASE i = Len(pending) + 1
    BY <1>2, <1>3, <1>4, <2>2
  <2> QED  BY <1>3, <1>4, <2>1, <2>2
<1>6. /\ pending' \in Seq(EventType)
      /\ Len(pending') = IF Len(all) > Limit THEN Limit ELSE Len(all)
      /\ \A i \in 1 .. Len(pending') : pending'[i] = all[Len(all) - Len(pending') + i]
  <2>1. \A s \in Seq(EventType) :
          /\ LastOf(s, Limit) \in Seq(EventType)
          /\ Len(LastOf(s, Limit)) = IF Len(s) > Limit THEN Limit ELSE Len(s)
          /\ \A i \in 1 .. Len(LastOf(s, Limit)) : LastOf(s, Limit)[i] = s[Len(s) - Len(LastOf(s, Limit)) + i]
    BY Bounds, LastOfProperties
  <2> QED  BY <1>1, <1>4, <2>1
<1>7. Len(pending') = IF cursor' > Limit THEN Limit ELSE cursor'
  BY <1>1, <1>3, <1>4, <1>6, Bounds DEF PendingNewest
<1>8. \A i \in 1 .. Len(pending') : pending'[i].cursor = cursor' - Len(pending') + i
  <2> SUFFICES ASSUME NEW i \in 1 .. Len(pending') PROVE pending'[i].cursor = cursor' - Len(pending') + i
    OBVIOUS
  <2>1. Len(all) \in Nat /\ Len(pending') \in Nat /\ Len(pending') <= Len(all)
    BY <1>3, <1>4, <1>6, Bounds
  <2> DEFINE j == Len(all) - Len(pending') + i
  <2>2. j \in 1 .. Len(all) /\ cursor + 1 - Len(all) + j = cursor' - Len(pending') + i
    BY <1>1, <2>1
  <2>3. pending'[i] = all[j]
    BY <1>6
  <2> HIDE DEF j
  <2>4. all[j].cursor = cursor + 1 - Len(all) + j
    BY <1>5, <2>2
  <2> QED  BY <2>2, <2>3, <2>4
<1> QED  BY <1>1, <1>6, <1>7, <1>8 DEF PendingNewest

\* The replay sends every pending event after the given cursor.
LEMMA ReplaySends ==
  ASSUME cursor \in Nat, PendingNewest, NEW k \in Nat, NEW e \in 1 .. cursor, e > k, e > cursor - Limit
  PROVE  e \in {x.cursor : x \in PendingSince(k)}
<1> DEFINE i == e - cursor + Len(pending)
<1>1. Len(pending) \in Nat /\ i \in 1 .. Len(pending)
  BY Bounds, LenProperties DEF PendingNewest
<1>2. pending[i].cursor = e
  BY <1>1 DEF PendingNewest
<1> HIDE DEF i
<1>3. pending[i] \in PendingSince(k)
  BY <1>1, <1>2 DEF PendingSince
<1> QED  BY <1>2, <1>3

LEMMA ReplayTypes ==
  ASSUME PendingNewest, NEW k \in Nat
  PROVE  PendingSince(k) \subseteq EventType
<1>1. \A i \in 1 .. Len(pending) : pending[i] \in EventType
  BY ElementOfSeq DEF PendingNewest
<1> QED  BY <1>1 DEF PendingSince
-----------------------------------------------------------------------------
(* Nothing falls between the replay and the stream.                        *)

LEMMA InitGapInv == StreamInit => GapInv
<1> SUFFICES ASSUME StreamInit PROVE GapInv
  OBVIOUS
<1> USE DEF StreamInit
<1>1. NoEvent \in EventType
  BY DEF NoEvent, EventType, Kinds
<1>2. <<>> \in Seq(EventType) /\ Len(<<>>) = 0
  BY EmptySeq
<1>3. StreamTypes
  BY <1>1, <1>2 DEF StreamTypes
<1>4. PendingNewest
  BY <1>2, Bounds DEF PendingNewest
<1>5. CursorsGiven /\ ResumesInTime /\ NoGapAfterResume /\ RunnerApart
  BY Names DEF CursorsGiven, ResumesInTime, NoGapAfterResume, RunnerApart, Numbered
<1> QED  BY <1>3, <1>4, <1>5 DEF GapInv

\* A step on the runner's side of the processor.
LEMMA SinkSide ==
  ASSUME GapInv, StreamTypes', RunnerApart',
         UNCHANGED <<ai, pendVars, storeVars, emitted, listeners, connVars, outVars>>,
         \A p \in Procs : pc'[p] \in Numbered => pc'[p] = pc[p] /\ ev'[p] = ev[p]
  PROVE  GapInv'
<1> USE DEF GapInv, pendVars, storeVars, connVars, outVars
<1>1. PendingNewest' /\ ResumesInTime' /\ NoGapAfterResume'
  BY DEF PendingNewest, ResumesInTime, NoGapAfterResume
<1>2. CursorsGiven'
  BY DEF CursorsGiven, Numbered
<1> QED  BY <1>1, <1>2

LEMMA EventTyped ==
  ASSUME StreamTypes
  PROVE  /\ \A k \in {"reply", "prompt", "status"} : Event(k) \in EventType
         /\ NoEvent \in EventType
BY DEF StreamTypes, Event, NoEvent, EventType, Kinds

LEMMA RunnerSteps ==
  ASSUME GapInv, (\E k \in {"reply", "prompt", "status"} : Produce(k)) \/ Answered \/ RunnerSink
  PROVE  GapInv'
<1> USE DEF GapInv
<1>1. ASSUME NEW k \in {"reply", "prompt", "status"}, Produce(k) PROVE GapInv'
  <2>1. /\ runner = "idle" /\ pc["runner"] = "idle" /\ runner' = "count"
        /\ produced' = produced + 1 /\ asking' \in {asking, produced + 1}
        /\ ev' = [ev EXCEPT !["runner"] = Event(k)]
        /\ UNCHANGED <<queue, pc, ai, pendVars, storeVars, emitted, listeners, connVars, outVars>>
    BY <1>1 DEF Produce
  <2>2. StreamTypes'
    <3>1. ev' \in [Procs -> EventType]
      BY <2>1, EventTyped DEF StreamTypes
    <3>2. produced' \in Nat /\ asking' \in Nat
      BY <2>1 DEF StreamTypes
    <3> QED  BY <2>1, <3>1, <3>2 DEF StreamTypes, pendVars, storeVars, connVars, outVars
  <2>3. \A p \in Procs : pc'[p] \in Numbered => pc'[p] = pc[p] /\ ev'[p] = ev[p]
    BY <2>1 DEF Numbered, StreamTypes
  <2> QED  BY <2>1, <2>2, <2>3, SinkSide DEF RunnerApart
<1>2. CASE Answered
  BY <1>2, SinkSide
  DEF Answered, StreamTypes, RunnerApart, pendVars, storeVars, connVars, outVars, procVars
<1>3. CASE CountListeners
  <2>1. /\ runner # "idle" /\ UNCHANGED <<produced, asking, queue, ev, ai, pendVars, storeVars, emitted, listeners, connVars, outVars>>
        /\ \/ runner' = "idle" /\ pc' = [pc EXCEPT !["runner"] = "append"]
           \/ runner' = "send" /\ pc' = pc
    BY <1>3 DEF CountListeners
  <2>2. StreamTypes'
    BY <2>1 DEF StreamTypes, Working, pendVars, storeVars, connVars, outVars
  <2>3. \A p \in Procs : pc'[p] \in Numbered => pc'[p] = pc[p] /\ ev'[p] = ev[p]
    BY <2>1 DEF Numbered, StreamTypes
  <2> QED  BY <2>1, <2>2, <2>3, SinkSide DEF RunnerApart
<1>4. CASE SinkSend \/ SinkTimeout
  <2>1. /\ runner = "send" /\ runner' = "idle" /\ ev' = [ev EXCEPT !["runner"] = NoEvent]
        /\ queue' \in {queue, Append(queue, ev["runner"])}
        /\ UNCHANGED <<produced, asking, pc, ai, pendVars, storeVars, emitted, listeners, connVars, outVars>>
    BY <1>4 DEF SinkSend, SinkTimeout
  <2>2. queue' \in Seq(EventType)
    <3>1. Append(queue, ev["runner"]) \in Seq(EventType)
      BY Names, AppendProperties DEF StreamTypes
    <3> QED  BY <2>1, <3>1 DEF StreamTypes
  <2>3. ev' \in [Procs -> EventType]
    BY <2>1, EventTyped DEF StreamTypes
  <2>4. StreamTypes'
    BY <2>1, <2>2, <2>3 DEF StreamTypes, pendVars, storeVars, connVars, outVars
  <2>5. \A p \in Procs : pc'[p] \in Numbered => pc'[p] = pc[p] /\ ev'[p] = ev[p]
    BY <2>1 DEF Numbered, StreamTypes, RunnerApart
  <2> QED  BY <2>1, <2>4, <2>5, SinkSide DEF RunnerApart
<1> QED  BY <1>1, <1>2, <1>3, <1>4 DEF RunnerSink

LEMMA TakeAndEmitSteps ==
  ASSUME GapInv, WorkerTake \/ \E h \in Handlers : HandlerEmits(h)
  PROVE  GapInv'
<1> USE DEF GapInv
<1>1. CASE WorkerTake
  <2>1. /\ pc["worker"] = "idle" /\ queue # <<>>
        /\ ev' = [ev EXCEPT !["worker"] = Head(queue)] /\ queue' = Tail(queue)
        /\ pc' = [pc EXCEPT !["worker"] = "append"]
        /\ UNCHANGED <<runVars, ai, pendVars, storeVars, emitted, listeners, connVars, outVars>>
    BY <1>1 DEF WorkerTake
  <2>2. Head(queue) \in EventType /\ Tail(queue) \in Seq(EventType)
    BY <2>1, HeadTailProperties DEF StreamTypes
  <2>3. StreamTypes'
    BY <2>1, <2>2 DEF StreamTypes, Working, pendVars, storeVars, connVars, outVars, runVars
  <2>4. \A p \in Procs : pc'[p] \in Numbered => pc'[p] = pc[p] /\ ev'[p] = ev[p]
    BY <2>1 DEF Numbered, StreamTypes
  <2>5. RunnerApart'
    BY <2>1, Names DEF RunnerApart, StreamTypes, runVars
  <2> QED  BY <2>1, <2>3, <2>4, <2>5, SinkSide
<1>2. ASSUME NEW h \in Handlers, HandlerEmits(h) PROVE GapInv'
  <2>1. /\ pc[h] = "idle" /\ produced' = produced + 1
        /\ ev' = [ev EXCEPT ![h] = Event("reply")]
        /\ pc' = [pc EXCEPT ![h] = "append"]
        /\ UNCHANGED <<asking, runner, queue, ai, pendVars, storeVars, emitted, listeners, connVars, outVars>>
    BY <1>2 DEF HandlerEmits
  <2>2. StreamTypes'
    <3>1. ev' \in [Procs -> EventType]
      BY <2>1, EventTyped DEF StreamTypes
    <3>2. produced' \in Nat
      BY <2>1 DEF StreamTypes
    <3> QED  BY <2>1, <3>1, <3>2 DEF StreamTypes, Working, pendVars, storeVars, connVars, outVars
  <2>3. \A p \in Procs : pc'[p] \in Numbered => pc'[p] = pc[p] /\ ev'[p] = ev[p]
    BY <2>1 DEF Numbered, StreamTypes
  <2>4. RunnerApart'
    BY <2>1, Names DEF RunnerApart, StreamTypes
  <2> QED  BY <2>1, <2>2, <2>3, <2>4, SinkSide
<1> QED  BY <1>1, <1>2

LEMMA AppendSteps ==
  ASSUME GapInv, NEW p \in Procs, ProcAppend(p) \/ ProcNotice(p) \/ ProcStatus(p)
  PROVE  GapInv'
<1> USE DEF GapInv
<1>1. PICK e \in EventType : AppendPending(e)
  <2>1. ev[p] \in EventType /\ NoEvent \in EventType
    BY EventTyped DEF StreamTypes
  <2>2. [ev[p] EXCEPT !.kind = "notice"] \in EventType /\ [NoEvent EXCEPT !.kind = "status"] \in EventType
    BY <2>1 DEF EventType, Kinds
  <2> QED  BY <2>1, <2>2 DEF ProcAppend, ProcNotice, ProcStatus
<1>2. cursor' = cursor + 1 /\ PendingNewest' /\ cursor \in Nat
  BY <1>1, PendingGrows DEF StreamTypes
<1>3. /\ pc[p] # "idle"
      /\ \/ /\ ev' = [ev EXCEPT ![p].cursor = cursor + 1] /\ ai' = ai
            /\ pc' = [pc EXCEPT ![p] = "count"]
         \/ /\ ev' = ev /\ ai' = ai
            /\ pc[p] = "notice" /\ pc' = [pc EXCEPT ![p] = "emit"]
         \/ /\ ev' = ev /\ ai' = [ai EXCEPT ![p] = cursor + 1]
            /\ pc[p] = "status" /\ pc' = [pc EXCEPT ![p] = "tell"]
      /\ UNCHANGED <<runVars, queue, storeVars, emitted, listeners, connVars, outVars>>
  BY DEF ProcAppend, ProcNotice, ProcStatus
<1>4. /\ ev' \in [Procs -> EventType] /\ ai' \in [Procs -> Nat]
      /\ \A q \in Procs : q # p => ev'[q] = ev[q] /\ ai'[q] = ai[q] /\ pc'[q] = pc[q]
  <2>1. PICK x \in EventType : x = [ev[p] EXCEPT !.cursor = cursor + 1]
    <3>1. ev[p] \in EventType /\ cursor + 1 \in Nat
      BY <1>2 DEF StreamTypes
    <3>2. [ev[p] EXCEPT !.cursor = cursor + 1] \in EventType
      BY <3>1 DEF EventType
    <3> QED  BY <3>2
  <2>2. ev' = [ev EXCEPT ![p] = x] \/ ev' = ev
    BY <1>3, <2>1
  <2>3. ai \in [Procs -> Nat] /\ cursor + 1 \in Nat /\ (ai' = ai \/ ai' = [ai EXCEPT ![p] = cursor + 1])
    BY <1>2, <1>3 DEF StreamTypes
  <2>4. ai' \in [Procs -> Nat] /\ \A q \in Procs : q # p => ai'[q] = ai[q]
    BY <2>3
  <2>5. ev' \in [Procs -> EventType] /\ \A q \in Procs : q # p => ev'[q] = ev[q]
    BY <2>1, <2>2 DEF StreamTypes
  <2>6. \A q \in Procs : q # p => pc'[q] = pc[q]
    BY <1>3 DEF StreamTypes
  <2> QED  BY <2>4, <2>5, <2>6
<1>5. StreamTypes'
  <2>1. pc' \in [Procs -> Working \cup {"idle", "read", "save", "status", "tell", "mark"}]
    BY <1>3 DEF StreamTypes, Working
  <2> QED  BY <1>2, <1>3, <1>4, <2>1 DEF StreamTypes, runVars, storeVars, connVars, outVars
<1>6. RunnerApart'
  BY <1>3, <1>4, Names DEF RunnerApart, runVars
<1>7. CursorsGiven'
  <2>1. emitted' \subseteq 1 .. cursor'
    BY <1>2, <1>3 DEF CursorsGiven
  <2>2. ev'[p].cursor \in 1 .. cursor'
    BY <1>2, <1>3 DEF CursorsGiven, Numbered, StreamTypes, EventType
  <2>3. \A q \in Procs \ {p} : pc'[q] \in Numbered => ev'[q].cursor \in 1 .. cursor'
    BY <1>2, <1>4 DEF CursorsGiven
  <2>4. pc'[p] = "tell" => ai'[p] \in 1 .. cursor'
    BY <1>2, <1>3 DEF StreamTypes
  <2>5. \A q \in Procs \ {p} : pc'[q] = "tell" => ai'[q] \in 1 .. cursor'
    BY <1>2, <1>4 DEF CursorsGiven
  <2> QED  BY <2>1, <2>2, <2>3, <2>4, <2>5 DEF CursorsGiven
<1>8. ResumesInTime'
  BY <1>3 DEF ResumesInTime, connVars, storeVars
<1>9. NoGapAfterResume'
  <2>1. \A c \in emitted : c > cursor' - Limit => c > cursor - Limit
    <3> SUFFICES ASSUME NEW c \in emitted, c > cursor' - Limit PROVE c > cursor - Limit
      OBVIOUS
    <3>1. c \in Nat
      BY DEF CursorsGiven
    <3> HIDE DEF GapInv
    <3> QED  BY <1>2, <3>1, Bounds
  <2>2. UNCHANGED <<emitted, high, conn, lastSeen, sent>>
    BY <1>3 DEF connVars, storeVars, outVars
  <2> QED  BY <2>1, <2>2 DEF NoGapAfterResume
<1> QED  BY <1>2, <1>5, <1>6, <1>7, <1>8, <1>9

\* What an emission of the cursor n leaves: the event has been given one, and
\* every connection that will be live listens.
LEMMA EmitStep ==
  ASSUME GapInv, NEW p \in Procs, ProcEmit(p) \/ ProcTell(p)
  PROVE  GapInv'
<1> USE DEF GapInv
<1>1. PICK n \in 1 .. cursor : EmitCursor(n)
  <2>1. CASE ProcEmit(p)
    <3>1. pc[p] = "emit" /\ EmitCursor(ev[p].cursor)
      BY <2>1 DEF ProcEmit
    <3>2. ev[p].cursor \in 1 .. cursor
      BY <3>1 DEF CursorsGiven, Numbered
    <3> QED  BY <3>1, <3>2
  <2>2. CASE ProcTell(p)
    <3>1. pc[p] = "tell" /\ EmitCursor(ai[p])
      BY <2>2 DEF ProcTell
    <3>2. ai[p] \in 1 .. cursor
      BY <3>1 DEF CursorsGiven
    <3> QED  BY <3>1, <3>2
  <2> QED  BY <2>1, <2>2
<1>2. /\ pc[p] \in {"emit", "tell"}
      /\ \/ prompts' = prompts
         \/ prompts' = [c \in Conns |-> IF c \in listeners /\ ev[p].kind = "prompt"
                                          THEN prompts[c] \cup {ev[p].id} ELSE prompts[c]]
      /\ ai' = ai \/ ai' = [ai EXCEPT ![p] = 0]
      /\ \/ pc' = [pc EXCEPT ![p] = "idle"] /\ ev' = [ev EXCEPT ![p] = NoEvent]
         \/ (\E m \in {"status", "read", "mark"} : pc' = [pc EXCEPT ![p] = m]) /\ ev' = ev
      /\ UNCHANGED <<runVars, queue, pendVars, storeVars, listeners, connVars>>
  BY DEF ProcEmit, ProcTell, Done
<1>3. StreamTypes'
  <2>1. sent' \in [Conns -> SUBSET Nat] /\ prompts' \in [Conns -> SUBSET Nat]
    <3>1. sent \in [Conns -> SUBSET Nat] /\ prompts \in [Conns -> SUBSET Nat]
          /\ n \in Nat /\ ev[p].id \in Nat
      BY DEF StreamTypes, EventType
    <3>2. \A c \in Conns : sent[c] \cup {n} \in SUBSET Nat
      BY <3>1
    <3>3. \A c \in Conns : prompts[c] \cup {ev[p].id} \in SUBSET Nat
      BY <3>1
    <3> QED  BY <1>1, <1>2, <3>1, <3>2, <3>3 DEF EmitCursor
  <2>2. ev' \in [Procs -> EventType] /\ ai' \in [Procs -> Nat]
    <3>1. ev' \in [Procs -> EventType]
      BY <1>2, EventTyped DEF StreamTypes
    <3>2. ai \in [Procs -> Nat] /\ (ai' = ai \/ ai' = [ai EXCEPT ![p] = 0])
      BY <1>2 DEF StreamTypes
    <3> QED  BY <3>1, <3>2
  <2>3. pc' \in [Procs -> Working \cup {"idle", "read", "save", "status", "tell", "mark"}]
    BY <1>2 DEF StreamTypes
  <2>4. UNCHANGED <<produced, asking, runner, queue, cursor, persisted, high, conn, lastSeen, from, need>>
    BY <1>2 DEF runVars, pendVars, storeVars, connVars
  <2> QED  BY <2>1, <2>2, <2>3, <2>4 DEF StreamTypes
<1>4. RunnerApart' /\ PendingNewest' /\ ResumesInTime'
  <2>1. RunnerApart'
    <3>1. pc'["runner"] = pc["runner"] \/ p = "runner"
      BY <1>2, Names DEF StreamTypes
    <3> QED  BY <1>2, <3>1 DEF RunnerApart, runVars
  <2>2. PendingNewest'
    BY <1>2 DEF PendingNewest, pendVars
  <2>3. ResumesInTime'
    BY <1>2 DEF ResumesInTime, storeVars, connVars
  <2> QED  BY <2>1, <2>2, <2>3
<1>5. CursorsGiven'
  <2>1. \A q \in Procs : pc'[q] \in Numbered => pc[q] \in Numbered /\ ev'[q] = ev[q]
    BY <1>2 DEF StreamTypes, Numbered
  <2>2. \A q \in Procs : pc'[q] = "tell" => pc[q] = "tell" /\ ai'[q] = ai[q]
    BY <1>2 DEF StreamTypes
  <2>3. emitted' \subseteq 1 .. cursor' /\ cursor' = cursor
    BY <1>1, <1>2 DEF CursorsGiven, pendVars, EmitCursor
  <2> QED  BY <2>1, <2>2, <2>3 DEF CursorsGiven
<1>6. NoGapAfterResume'
  <2>1. /\ emitted' = emitted \cup {n}
        /\ \A c \in Conns : sent[c] \subseteq sent'[c] /\ (c \in listeners => n \in sent'[c])
    BY <1>1 DEF EmitCursor
  <2> QED  BY <1>2, <2>1 DEF NoGapAfterResume, ResumesInTime, connVars, storeVars, pendVars
<1> QED  BY <1>3, <1>4, <1>5, <1>6

LEMMA OtherProcSteps ==
  ASSUME GapInv, NEW p \in Procs, ProcCount(p) \/ ProcRead(p) \/ ProcSave(p) \/ ProcMark(p)
  PROVE  GapInv'
<1> USE DEF GapInv
<1>1. CASE ProcMark(p)
  <2>1. /\ pc[p] = "mark" /\ persisted' = ev[p].cursor
        /\ high' = IF ev[p].cursor > high THEN ev[p].cursor ELSE high
        /\ ev' = [ev EXCEPT ![p] = NoEvent] /\ pc' = [pc EXCEPT ![p] = "idle"]
        /\ UNCHANGED <<runVars, queue, ai, pendVars, emitted, listeners, connVars, outVars>>
    BY <1>1 DEF ProcMark, Done
  <2>2. ev[p].cursor \in Nat /\ high \in Nat
    BY DEF StreamTypes, EventType
  <2>3. high' \in Nat /\ persisted' \in Nat /\ persisted' <= high' /\ high <= high'
    BY <2>1, <2>2
  <2>4. ev' \in [Procs -> EventType] /\ pc' \in [Procs -> Working \cup {"idle", "read", "save", "status", "tell", "mark"}]
    BY <2>1, EventTyped DEF StreamTypes
  <2>5. StreamTypes'
    BY <2>1, <2>3, <2>4 DEF StreamTypes, runVars, pendVars, connVars, outVars
  <2>6. RunnerApart' /\ PendingNewest'
    BY <2>1 DEF RunnerApart, PendingNewest, StreamTypes, runVars, pendVars
  <2>7. ResumesInTime'
    <3>1. \A c \in Conns : from[c] <= high => from[c] <= high'
      BY <2>2, <2>3 DEF StreamTypes
    <3> QED  BY <2>1, <3>1 DEF ResumesInTime, connVars
  <2>8. CursorsGiven'
    <3>1. \A q \in Procs : pc'[q] \in Numbered => pc[q] \in Numbered /\ ev'[q] = ev[q]
      BY <2>1 DEF StreamTypes, Numbered
    <3>2. \A q \in Procs : pc'[q] = "tell" => pc[q] = "tell"
      BY <2>1 DEF StreamTypes
    <3> QED  BY <2>1, <3>1, <3>2 DEF CursorsGiven, pendVars
  <2>9. NoGapAfterResume'
    <3>1. \A e \in emitted : e > high' => e > high
      BY <2>2, <2>3 DEF CursorsGiven, StreamTypes
    <3> QED  BY <2>1, <3>1 DEF NoGapAfterResume, connVars, pendVars, outVars
  <2> QED  BY <2>5, <2>6, <2>7, <2>8, <2>9
<1>2. CASE ProcCount(p) \/ ProcRead(p) \/ ProcSave(p)
  <2>1. /\ pc[p] \in Numbered
        /\ \E n \in {"notice", "emit", "save", "status", "mark"} : pc' = [pc EXCEPT ![p] = n]
        /\ UNCHANGED <<runVars, queue, ev, ai, pendVars, persisted, high, emitted, listeners, connVars, outVars>>
    BY <1>2 DEF ProcCount, ProcRead, ProcSave, Numbered, storeVars
  <2>2. StreamTypes'
    BY <2>1 DEF StreamTypes, Working, runVars, pendVars, connVars, outVars
  <2>3. RunnerApart' /\ PendingNewest' /\ ResumesInTime' /\ NoGapAfterResume'
    BY <2>1 DEF RunnerApart, PendingNewest, ResumesInTime, NoGapAfterResume, StreamTypes,
                Numbered, runVars, pendVars, connVars, outVars
  <2>4. CursorsGiven'
    <3>1. \A q \in Procs : pc'[q] \in Numbered => pc[q] \in Numbered
      BY <2>1 DEF StreamTypes
    <3>2. \A q \in Procs : pc'[q] = "tell" => pc[q] = "tell"
      BY <2>1 DEF StreamTypes
    <3> QED  BY <2>1, <3>1, <3>2 DEF CursorsGiven, pendVars
  <2> QED  BY <2>2, <2>3, <2>4
<1> QED  BY <1>1, <1>2

\* A step of a connection's goroutine leaves the others' side alone.
LEMMA ClientSide ==
  ASSUME GapInv, StreamTypes', ResumesInTime', NoGapAfterResume',
         UNCHANGED <<runVars, queue, procVars, pendVars, storeVars, emitted>>
  PROVE  GapInv'
<1> USE DEF GapInv, runVars, procVars, pendVars, storeVars
<1>1. PendingNewest' /\ CursorsGiven'
  BY DEF PendingNewest, CursorsGiven
<1>2. RunnerApart'
  BY DEF RunnerApart
<1> QED  BY <1>1, <1>2

LEMMA AttachAndCloseSteps ==
  ASSUME GapInv, NEW c \in Conns, Attach(c) \/ Close(c)
  PROVE  GapInv'
<1> USE DEF GapInv
<1>1. CASE Attach(c)
  <2>1. /\ conn' = [conn EXCEPT ![c] = "attached"] /\ listeners' = listeners \cup {c}
        /\ \E k \in Seen : lastSeen' = [lastSeen EXCEPT ![c] = k]
        /\ UNCHANGED <<runVars, queue, procVars, pendVars, storeVars, emitted, from, need, outVars>>
    BY <1>1 DEF Attach
  <2>2. StreamTypes'
    <3>1. lastSeen' \in [Conns -> Nat]
      BY <2>1, StreamAssumption DEF StreamTypes
    <3> QED  BY <2>1, <3>1 DEF StreamTypes, runVars, procVars, pendVars, storeVars, outVars
  <2>3. /\ conn'[c] = "attached"
        /\ \A d \in Conns : d # c => conn'[d] = conn[d] /\ lastSeen'[d] = lastSeen[d]
    BY <2>1 DEF StreamTypes
  <2>4. ResumesInTime'
    BY <2>1, <2>3 DEF ResumesInTime, storeVars
  <2>5. NoGapAfterResume'
    BY <2>1, <2>3 DEF NoGapAfterResume, storeVars, pendVars, outVars
  <2> QED  BY <2>1, <2>2, <2>4, <2>5, ClientSide
<1>2. CASE Close(c)
  <2>1. /\ conn' = [conn EXCEPT ![c] = "off"] /\ listeners' = listeners \ {c}
        /\ lastSeen' = [lastSeen EXCEPT ![c] = 0] /\ from' = [from EXCEPT ![c] = 0]
        /\ need' = [need EXCEPT ![c] = 0]
        /\ sent' = [sent EXCEPT ![c] = {}] /\ prompts' = [prompts EXCEPT ![c] = {}]
        /\ UNCHANGED <<runVars, queue, procVars, pendVars, storeVars, emitted>>
    BY <1>2 DEF Close
  <2>2. StreamTypes'
    BY <2>1 DEF StreamTypes, runVars, procVars, pendVars, storeVars
  <2>3. /\ conn'[c] = "off"
        /\ \A d \in Conns : d # c =>
             conn'[d] = conn[d] /\ lastSeen'[d] = lastSeen[d] /\ from'[d] = from[d] /\ sent'[d] = sent[d]
    BY <2>1 DEF StreamTypes
  <2>4. ResumesInTime'
    BY <2>1, <2>3 DEF ResumesInTime, storeVars
  <2>5. NoGapAfterResume'
    BY <2>1, <2>3 DEF NoGapAfterResume, storeVars, pendVars
  <2> QED  BY <2>1, <2>2, <2>4, <2>5, ClientSide
<1> QED  BY <1>1, <1>2

LEMMA ResumeSteps ==
  ASSUME GapInv, NEW c \in Conns, ResumeCursor(c) \/ CurrentPermission(c) \/ ReplayAndRefresh(c)
  PROVE  GapInv'
<1> USE DEF GapInv
<1>1. CASE ResumeCursor(c)
  <2> DEFINE k == IF persisted > lastSeen[c] THEN persisted ELSE lastSeen[c]
  <2>1. /\ conn[c] = "attached" /\ conn' = [conn EXCEPT ![c] = "cursor"]
        /\ from' = [from EXCEPT ![c] = k]
        /\ UNCHANGED <<runVars, queue, procVars, pendVars, storeVars, emitted, listeners, lastSeen, need, outVars>>
    BY <1>1 DEF ResumeCursor
  <2>2. k \in Nat /\ (k <= lastSeen[c] \/ k <= high)
    BY DEF StreamTypes
  <2> HIDE DEF k
  <2>3. StreamTypes'
    BY <2>1, <2>2 DEF StreamTypes, runVars, procVars, pendVars, storeVars, outVars
  <2>4. /\ conn'[c] = "cursor" /\ from'[c] = k
        /\ \A d \in Conns : d # c => conn'[d] = conn[d] /\ from'[d] = from[d]
    BY <2>1 DEF StreamTypes
  <2>5. ResumesInTime'
    BY <2>1, <2>2, <2>4 DEF ResumesInTime, storeVars
  <2>6. NoGapAfterResume'
    BY <2>1, <2>4 DEF NoGapAfterResume, storeVars, pendVars, outVars
  <2> QED  BY <2>1, <2>3, <2>5, <2>6, ClientSide
<1>2. CASE CurrentPermission(c)
  <2>1. /\ conn[c] = "cursor" /\ conn' = [conn EXCEPT ![c] = "replay"]
        /\ need' = [need EXCEPT ![c] = asking]
        /\ UNCHANGED <<runVars, queue, procVars, pendVars, storeVars, emitted, listeners, lastSeen, from, outVars>>
    BY <1>2 DEF CurrentPermission
  <2>2. StreamTypes'
    BY <2>1 DEF StreamTypes, runVars, procVars, pendVars, storeVars, outVars
  <2>3. conn'[c] = "replay" /\ \A d \in Conns : d # c => conn'[d] = conn[d]
    BY <2>1 DEF StreamTypes
  <2>4. ResumesInTime'
    BY <2>1, <2>3 DEF ResumesInTime, storeVars
  <2>5. NoGapAfterResume'
    BY <2>1, <2>3 DEF NoGapAfterResume, storeVars, pendVars, outVars
  <2> QED  BY <2>1, <2>2, <2>4, <2>5, ClientSide
<1>3. CASE ReplayAndRefresh(c)
  <2> DEFINE events == PendingSince(from[c])
             cursors == {e.cursor : e \in events}
             ids == {e.id : e \in {x \in events : x.kind = "prompt"}}
  <2>1. /\ conn[c] = "replay" /\ conn' = [conn EXCEPT ![c] = "live"]
        /\ sent' = [sent EXCEPT ![c] = @ \cup cursors]
        /\ prompts' = [prompts EXCEPT ![c] = @ \cup ids \cup ({need[c]} \ {0})]
        /\ UNCHANGED <<runVars, queue, procVars, pendVars, storeVars, emitted, listeners, lastSeen, from, need>>
    BY <1>3 DEF ReplayAndRefresh, Replay
  <2>2. events \subseteq EventType
    BY ReplayTypes DEF StreamTypes
  <2>3. cursors \subseteq Nat /\ ids \subseteq Nat
    BY <2>2 DEF EventType
  <2>4. \A e \in 1 .. cursor : (e > from[c] /\ e > cursor - Limit) => e \in cursors
    BY ReplaySends DEF StreamTypes
  <2> HIDE DEF cursors, ids
  <2>5. StreamTypes'
    <3>1. sent' \in [Conns -> SUBSET Nat]
      BY <2>1, <2>3 DEF StreamTypes
    <3>2. prompts' \in [Conns -> SUBSET Nat]
      BY <2>1, <2>3 DEF StreamTypes
    <3> QED  BY <2>1, <3>1, <3>2 DEF StreamTypes, runVars, procVars, pendVars, storeVars
  <2>6. /\ conn'[c] = "live" /\ cursors \subseteq sent'[c]
        /\ \A d \in Conns : d # c => conn'[d] = conn[d] /\ sent'[d] = sent[d]
    BY <2>1 DEF StreamTypes
  <2>7. ResumesInTime'
    BY <2>1, <2>6 DEF ResumesInTime, storeVars
  <2>8. \A e \in emitted : (e > lastSeen[c] /\ e > high /\ e > cursor - Limit) => e \in cursors
    <3> SUFFICES ASSUME NEW e \in emitted, e > lastSeen[c], e > high, e > cursor - Limit
                 PROVE  e \in cursors
      OBVIOUS
    <3>1. e \in 1 .. cursor
      BY DEF CursorsGiven
    <3>2. from[c] <= lastSeen[c] \/ from[c] <= high
      BY <2>1 DEF ResumesInTime
    <3>3. e > from[c]
      BY <3>1, <3>2 DEF StreamTypes
    <3> QED  BY <2>4, <3>1, <3>3
  <2>9. NoGapAfterResume'
    BY <2>1, <2>6, <2>8 DEF NoGapAfterResume, storeVars, pendVars
  <2> QED  BY <2>1, <2>5, <2>7, <2>9, ClientSide
<1> QED  BY <1>1, <1>2, <1>3

LEMMA NextGapInv == GapInv /\ [StreamNext]_streamVars => GapInv'
<1> SUFFICES ASSUME GapInv, [StreamNext]_streamVars PROVE GapInv'
  OBVIOUS
<1>1. CASE UNCHANGED streamVars
  BY <1>1, SinkSide
  DEF streamVars, GapInv, StreamTypes, RunnerApart, runVars, procVars, pendVars, storeVars, connVars, outVars
<1>2. ASSUME NEW p \in Procs, Process(p) PROVE GapInv'
  BY <1>2, AppendSteps, EmitStep, OtherProcSteps DEF Process
<1>3. ASSUME NEW c \in Conns, Serve(c) PROVE GapInv'
  BY <1>3, AttachAndCloseSteps, ResumeSteps DEF Serve
<1> QED  BY <1>1, <1>2, <1>3, RunnerSteps, TakeAndEmitSteps DEF StreamNext

\* What the sink, the log of pending events and a resuming client's goroutine keep
\* between any two of their steps: what lies before, behind and under way.
THEOREM StreamInvariance == StreamSpec => []GapInv
<1>1. StreamInit => GapInv
  BY InitGapInv
<1>2. GapInv /\ [StreamNext]_streamVars => GapInv'
  BY NextGapInv
<1> QED  BY <1>1, <1>2, PTL DEF StreamSpec

\* What session_resume promises, against every interleaving of the handler
\* with the runner, the worker and other processors: what is emitted is live,
\* replayed, seen or taken for persisted, unless the pending limit cut it off.
THEOREM NothingBetween == StreamSpec => []NoGapAfterResume
<1>1. GapInv => NoGapAfterResume
  BY DEF GapInv
<1> QED  BY <1>1, StreamInvariance, PTL

-----------------------------------------------------------------------------
(* The prompt the runner waits for.                                        *)

\* Only a prompt has a request's id.
PromptsHaveIds ==
  /\ \A p \in Procs : ev[p].id # 0 => ev[p].kind = "prompt"
  /\ \A i \in 1 .. Len(queue) : queue[i].id # 0 => queue[i].kind = "prompt"

\* The prompt of the current request is between the runner and the listeners,
\* or was shed.
OnItsWay ==
  \/ asking \in dropped
  \/ runner # "idle" /\ ev["runner"].id = asking
  \/ \E i \in 1 .. Len(queue) : queue[i].id = asking
  \/ \E p \in Procs : ev[p].id = asking /\ pc[p] \in Working

\* Clients that have read the current request, or need not, have its prompt.
PromptKept ==
  \A c \in Conns :
    (asking # 0 /\ (conn[c] = "live" \/ (conn[c] = "replay" /\ need[c] # asking)))
      => asking \in prompts[c] \/ OnItsWay

PromptInv == PromptsHaveIds /\ PromptKept

LEMMA InitPromptInv == StreamInit => PromptInv
<1> SUFFICES ASSUME StreamInit PROVE PromptInv
  OBVIOUS
<1>1. \A p \in Procs : ev[p].id = 0
  BY DEF StreamInit, NoEvent
<1>2. queue = <<>> /\ Len(queue) = 0
  BY EmptySeq DEF StreamInit
<1>3. asking = 0
  BY DEF StreamInit
<1> QED  BY <1>1, <1>2, <1>3 DEF PromptInv, PromptsHaveIds, PromptKept

\* While nobody is given or refused a prompt, it is enough that it stays on its way.
LEMMA WayKept ==
  ASSUME PromptInv, PromptsHaveIds', UNCHANGED <<conn, need, prompts>>,
         asking' # 0 => asking' = asking \/ OnItsWay',
         asking' # 0 /\ OnItsWay => OnItsWay'
  PROVE  PromptInv'
BY DEF PromptInv, PromptKept

LEMMA ProduceKeepsPrompt ==
  ASSUME GapInv, PromptInv, NEW k \in {"reply", "prompt", "status"}, Produce(k)
  PROVE  PromptInv'
<1> USE DEF GapInv, PromptInv
<1>1. /\ runner = "idle" /\ pc["runner"] = "idle" /\ runner' = "count"
      /\ (k = "prompt" => asking' = produced + 1) /\ (k # "prompt" => asking' = asking)
      /\ ev' = [ev EXCEPT !["runner"] = Event(k)]
      /\ UNCHANGED <<queue, dropped, pc, conn, need, prompts>>
  BY DEF Produce, connVars, outVars
<1>2. /\ ev'["runner"] = Event(k) /\ \A p \in Procs : p # "runner" => ev'[p] = ev[p]
      /\ (k = "prompt" => Event(k).id = produced + 1) /\ (k # "prompt" => Event(k).id = 0)
      /\ Event(k).kind = k
  BY <1>1, Names DEF StreamTypes, Event
<1>3. PromptsHaveIds'
  BY <1>1, <1>2 DEF PromptsHaveIds
<1>4. k = "prompt" => OnItsWay'
  BY <1>1, <1>2 DEF OnItsWay
<1>5. k # "prompt" /\ OnItsWay => OnItsWay'
  BY <1>1, <1>2 DEF OnItsWay, Working
<1> QED  BY <1>1, <1>3, <1>4, <1>5, WayKept

LEMMA SinkKeepsPrompt ==
  ASSUME GapInv, PromptInv, RunnerSink
  PROVE  PromptInv'
<1> USE DEF GapInv, PromptInv
<1>1. CASE CountListeners
  <2>1. /\ runner # "idle" /\ UNCHANGED <<asking, dropped, queue, ev, conn, need, prompts>>
        /\ \/ runner' = "idle" /\ pc' = [pc EXCEPT !["runner"] = "append"]
           \/ runner' = "send" /\ pc' = pc
    BY <1>1 DEF CountListeners, connVars, outVars
  <2>2. /\ \A p \in Procs : pc'[p] = pc[p] \/ pc'[p] = "append"
        /\ runner' = "idle" => pc'["runner"] = "append"
    BY <2>1, Names DEF StreamTypes
  <2>3. OnItsWay => OnItsWay'
    BY <2>1, <2>2, Names DEF OnItsWay, Working
  <2> QED  BY <2>1, <2>3, WayKept DEF PromptsHaveIds
<1>2. CASE SinkSend
  <2>1. /\ runner = "send" /\ runner' = "idle" /\ ev' = [ev EXCEPT !["runner"] = NoEvent]
        /\ queue' = Append(queue, ev["runner"])
        /\ UNCHANGED <<asking, dropped, pc, conn, need, prompts>>
    BY <1>2 DEF SinkSend, connVars, outVars
  <2>2. /\ Len(queue') = Len(queue) + 1 /\ Len(queue) \in Nat
        /\ \A i \in 1 .. Len(queue) : queue'[i] = queue[i]
        /\ queue'[Len(queue) + 1] = ev["runner"]
    BY <2>1, Names, AppendProperties, LenProperties DEF StreamTypes
  <2>3. ev'["runner"].id = 0 /\ \A p \in Procs : p # "runner" => ev'[p] = ev[p]
    BY <2>1, Names DEF StreamTypes, NoEvent
  <2>4. PromptsHaveIds'
    <3>1. \A p \in Procs : ev'[p].id # 0 => ev'[p].kind = "prompt"
      BY <2>3 DEF PromptsHaveIds
    <3>2. \A i \in 1 .. Len(queue') : queue'[i].id # 0 => queue'[i].kind = "prompt"
      <4>1. \A i \in 1 .. Len(queue') : i \in 1 .. Len(queue) \/ i = Len(queue) + 1
        BY <2>2
      <4> QED  BY <2>2, <4>1, Names DEF PromptsHaveIds
    <3> QED  BY <3>1, <3>2 DEF PromptsHaveIds
  <2>5. OnItsWay => OnItsWay'
    <3>1. CASE asking \in dropped
      BY <2>1, <3>1 DEF OnItsWay
    <3>2. CASE runner # "idle" /\ ev["runner"].id = asking
      <4>1. Len(queue) + 1 \in 1 .. Len(queue')
        BY <2>2
      <4> QED  BY <2>1, <2>2, <3>2, <4>1 DEF OnItsWay
    <3>3. CASE \E i \in 1 .. Len(queue) : queue[i].id = asking
      <4>1. \A i \in 1 .. Len(queue) : i \in 1 .. Len(queue')
        BY <2>2
      <4> QED  BY <2>1, <2>2, <3>3, <4>1 DEF OnItsWay
    <3>4. CASE \E p \in Procs : ev[p].id = asking /\ pc[p] \in Working
      BY <2>1, <2>3, <3>4 DEF OnItsWay, RunnerApart, Working
    <3> QED  BY <3>1, <3>2, <3>3, <3>4 DEF OnItsWay
  <2> QED  BY <2>1, <2>4, <2>5, WayKept
<1>3. CASE SinkTimeout
  <2>1. /\ runner = "send" /\ runner' = "idle" /\ ev' = [ev EXCEPT !["runner"] = NoEvent]
        /\ dropped' = dropped \cup ({ev["runner"].id} \ {0})
        /\ UNCHANGED <<asking, queue, pc, conn, need, prompts>>
    BY <1>3 DEF SinkTimeout, connVars, outVars
  <2>2. ev'["runner"].id = 0 /\ \A p \in Procs : p # "runner" => ev'[p] = ev[p]
    BY <2>1, Names DEF StreamTypes, NoEvent
  <2>3. PromptsHaveIds'
    BY <2>1, <2>2 DEF PromptsHaveIds
  <2>4. asking # 0 /\ OnItsWay => OnItsWay'
    BY <2>1, <2>2 DEF OnItsWay, RunnerApart, Working
  <2> QED  BY <2>1, <2>3, <2>4, WayKept
<1> QED  BY <1>1, <1>2, <1>3 DEF RunnerSink

LEMMA TakesKeepPrompt ==
  ASSUME GapInv, PromptInv, WorkerTake \/ \E h \in Handlers : HandlerEmits(h)
  PROVE  PromptInv'
<1> USE DEF GapInv, PromptInv
<1>1. CASE WorkerTake
  <2>1. /\ pc["worker"] = "idle" /\ queue # <<>>
        /\ ev' = [ev EXCEPT !["worker"] = Head(queue)] /\ queue' = Tail(queue)
        /\ pc' = [pc EXCEPT !["worker"] = "append"]
        /\ UNCHANGED <<asking, runner, dropped, conn, need, prompts>>
    BY <1>1 DEF WorkerTake, runVars, connVars, outVars
  <2>2. /\ Len(queue) \in Nat /\ Len(queue) # 0 /\ Head(queue) = queue[1]
        /\ Len(queue') = Len(queue) - 1
        /\ \A i \in 1 .. Len(queue') : queue'[i] = queue[i + 1]
    BY <2>1, HeadTailProperties, LenProperties, EmptySeq DEF StreamTypes
  <2>3. /\ ev'["worker"] = queue[1] /\ pc'["worker"] = "append"
        /\ \A p \in Procs : p # "worker" => ev'[p] = ev[p] /\ pc'[p] = pc[p]
    BY <2>1, <2>2, Names DEF StreamTypes
  <2>4. 1 \in 1 .. Len(queue) /\ \A i \in 1 .. Len(queue') : i + 1 \in 1 .. Len(queue)
    BY <2>2
  <2>5. PromptsHaveIds'
    BY <2>2, <2>3, <2>4 DEF PromptsHaveIds
  <2>6. OnItsWay => OnItsWay'
    <3>1. CASE asking \in dropped
      BY <2>1, <3>1 DEF OnItsWay
    <3>2. CASE runner # "idle" /\ ev["runner"].id = asking
      BY <2>1, <2>3, <3>2, Names DEF OnItsWay
    <3>3. ASSUME NEW i \in 1 .. Len(queue), queue[i].id = asking PROVE OnItsWay'
      <4>1. CASE i = 1
        BY <2>1, <2>3, <3>3, <4>1, Names DEF OnItsWay, Working
      <4>2. CASE i # 1
        <5>1. i - 1 \in 1 .. Len(queue') /\ (i - 1) + 1 = i
          BY <2>2, <4>2
        <5>2. queue'[i - 1] = queue[i]
          BY <2>2, <5>1
        <5> QED  BY <2>1, <3>3, <5>1, <5>2 DEF OnItsWay
      <4> QED  BY <4>1, <4>2
    <3>4. CASE \E p \in Procs : ev[p].id = asking /\ pc[p] \in Working
      BY <2>1, <2>3, <3>4 DEF OnItsWay, Working
    <3> QED  BY <3>1, <3>2, <3>3, <3>4 DEF OnItsWay
  <2> QED  BY <2>1, <2>5, <2>6, WayKept
<1>2. ASSUME NEW h \in Handlers, HandlerEmits(h) PROVE PromptInv'
  <2>1. /\ pc[h] = "idle" /\ ev' = [ev EXCEPT ![h] = Event("reply")]
        /\ pc' = [pc EXCEPT ![h] = "append"]
        /\ UNCHANGED <<asking, runner, dropped, queue, conn, need, prompts>>
    BY <1>2 DEF HandlerEmits, connVars, outVars
  <2>2. /\ ev'[h].id = 0 /\ h # "runner"
        /\ \A p \in Procs : p # h => ev'[p] = ev[p] /\ pc'[p] = pc[p]
    BY <2>1, Names DEF StreamTypes, Event
  <2>3. PromptsHaveIds'
    BY <2>1, <2>2 DEF PromptsHaveIds
  <2>4. OnItsWay => OnItsWay'
    BY <2>1, <2>2, Names DEF OnItsWay, Working
  <2> QED  BY <2>1, <2>3, <2>4, WayKept
<1> QED  BY <1>1, <1>2

LEMMA ProcessKeepsPrompt ==
  ASSUME GapInv, PromptInv, NEW p \in Procs, Process(p)
  PROVE  PromptInv'
<1> USE DEF GapInv, PromptInv
<1>1. CASE ProcEmit(p)
  <2>1. /\ pc[p] = "emit"
        /\ prompts' = [c \in Conns |-> IF c \in listeners /\ ev[p].kind = "prompt"
                                         THEN prompts[c] \cup {ev[p].id} ELSE prompts[c]]
        /\ \/ pc' = [pc EXCEPT ![p] = "idle"] /\ ev' = [ev EXCEPT ![p] = NoEvent]
           \/ (\E n \in {"status", "read"} : pc' = [pc EXCEPT ![p] = n]) /\ ev' = ev
        /\ UNCHANGED <<asking, runner, dropped, queue, listeners, conn, need>>
    BY <1>1 DEF ProcEmit, Done, runVars, connVars
  <2>2. /\ \A q \in Procs : q # p => ev'[q] = ev[q] /\ pc'[q] = pc[q]
        /\ ev'[p].id # 0 => ev'[p] = ev[p]
    BY <2>1 DEF StreamTypes, NoEvent
  <2>3. PromptsHaveIds'
    BY <2>1, <2>2 DEF PromptsHaveIds
  <2>4. CASE ev[p].id # asking
    <3>1. OnItsWay => OnItsWay'
      <4>1. "runner" = p \/ ev'["runner"] = ev["runner"]
        BY <2>2, Names
      <4>2. runner # "idle" => p # "runner"
        BY <2>1 DEF RunnerApart
      <4> QED  BY <2>1, <2>2, <2>4, <4>1, <4>2 DEF OnItsWay
    <3>2. \A c \in Conns : prompts[c] \subseteq prompts'[c]
      BY <2>1
    <3> QED  BY <2>1, <2>3, <3>1, <3>2 DEF PromptKept
  <2>5. CASE ev[p].id = asking /\ asking # 0
    <3>1. \A c \in Conns : conn[c] # "off" => asking \in prompts'[c]
      BY <2>1, <2>5 DEF ResumesInTime, PromptsHaveIds
    <3> QED  BY <2>1, <2>3, <3>1 DEF PromptKept
  <2>6. CASE asking = 0
    BY <2>1, <2>3, <2>6 DEF PromptKept
  <2> QED  BY <2>4, <2>5, <2>6
<1>2. CASE ProcAppend(p) \/ ProcNotice(p) \/ ProcCount(p)
  <2>1. /\ \E n \in Working : pc' = [pc EXCEPT ![p] = n]
        /\ \/ ev' = [ev EXCEPT ![p].cursor = cursor + 1]
           \/ ev' = ev
        /\ UNCHANGED <<asking, runner, dropped, queue, conn, need, prompts>>
    BY <1>2 DEF ProcAppend, ProcNotice, ProcCount, Working, runVars, connVars, outVars
  <2>2. \A q \in Procs : ev'[q].id = ev[q].id /\ ev'[q].kind = ev[q].kind
    <3>1. ev \in [Procs -> EventType]
      BY DEF StreamTypes
    <3>2. PICK x : x = [ev[p] EXCEPT !.cursor = cursor + 1]
      OBVIOUS
    <3>3. x.id = ev[p].id /\ x.kind = ev[p].kind
      BY <3>1, <3>2 DEF EventType
    <3>4. ev' = ev \/ ev' = [ev EXCEPT ![p] = x]
      BY <2>1, <3>2
    <3> QED  BY <3>1, <3>3, <3>4
  <2>3. \A q \in Procs : pc[q] \in Working => pc'[q] \in Working
    BY <2>1 DEF StreamTypes
  <2>4. PromptsHaveIds'
    BY <2>1, <2>2 DEF PromptsHaveIds
  <2>5. OnItsWay => OnItsWay'
    BY <2>1, <2>2, <2>3, Names DEF OnItsWay
  <2> QED  BY <2>1, <2>4, <2>5, WayKept
<1>3. CASE ProcRead(p) \/ ProcSave(p) \/ ProcStatus(p) \/ ProcTell(p) \/ ProcMark(p)
  <2>1. /\ pc[p] \in {"read", "save", "status", "tell", "mark"}
        /\ \E n \in {"save", "status", "tell", "mark", "idle"} : pc' = [pc EXCEPT ![p] = n]
        /\ ev' = ev \/ ev' = [ev EXCEPT ![p] = NoEvent]
        /\ UNCHANGED <<asking, runner, dropped, queue, conn, need, prompts>>
    BY <1>3 DEF ProcRead, ProcSave, ProcStatus, ProcTell, ProcMark, Done, runVars, connVars, outVars
  <2>2. /\ \A q \in Procs : q # p => ev'[q] = ev[q] /\ pc'[q] = pc[q]
        /\ ev'[p].id # 0 => ev'[p] = ev[p]
        /\ pc[p] \notin Working
    BY <2>1 DEF StreamTypes, NoEvent, Working
  <2>3. PromptsHaveIds'
    BY <2>1, <2>2 DEF PromptsHaveIds
  <2>4. OnItsWay => OnItsWay'
    <3>1. runner # "idle" => p # "runner"
      BY <2>1 DEF RunnerApart
    <3> QED  BY <2>1, <2>2, <3>1, Names DEF OnItsWay
  <2> QED  BY <2>1, <2>3, <2>4, WayKept
<1> QED  BY <1>1, <1>2, <1>3 DEF Process

LEMMA ServeKeepsPrompt ==
  ASSUME GapInv, PromptInv, NEW c \in Conns, Serve(c)
  PROVE  PromptInv'
<1> USE DEF GapInv, PromptInv
<1>1. UNCHANGED <<asking, runner, dropped, queue, ev, pc>>
  BY DEF Serve, Attach, ResumeCursor, CurrentPermission, ReplayAndRefresh, Replay, Close, runVars, procVars
<1>2. PromptsHaveIds' /\ (OnItsWay => OnItsWay')
  BY <1>1 DEF PromptsHaveIds, OnItsWay
<1>3. \A d \in Conns : d # c => conn'[d] = conn[d] /\ need'[d] = need[d] /\ prompts'[d] = prompts[d]
  BY DEF Serve, Attach, ResumeCursor, CurrentPermission, ReplayAndRefresh, Replay, Close, outVars, StreamTypes
<1>4. CASE Attach(c) \/ ResumeCursor(c) \/ Close(c)
  <2>1. conn'[c] \in {"attached", "cursor", "off"}
    BY <1>4 DEF Attach, ResumeCursor, Close, StreamTypes
  <2> QED  BY <1>1, <1>2, <1>3, <2>1 DEF PromptKept
<1>5. CASE CurrentPermission(c)
  <2>1. conn'[c] = "replay" /\ need'[c] = asking
    BY <1>5 DEF CurrentPermission, StreamTypes
  <2> QED  BY <1>1, <1>2, <1>3, <2>1 DEF PromptKept
<1>6. CASE ReplayAndRefresh(c)
  <2>1. conn[c] = "replay" /\ prompts[c] \cup ({need[c]} \ {0}) \subseteq prompts'[c]
    BY <1>6 DEF ReplayAndRefresh, Replay, StreamTypes
  <2>2. asking # 0 => asking \in prompts'[c] \/ OnItsWay'
    BY <1>2, <2>1 DEF PromptKept
  <2> QED  BY <1>1, <1>2, <1>3, <2>2 DEF PromptKept
<1> QED  BY <1>4, <1>5, <1>6 DEF Serve

LEMMA NextPromptInv == GapInv /\ PromptInv /\ [StreamNext]_streamVars => PromptInv'
<1> SUFFICES ASSUME GapInv, PromptInv, [StreamNext]_streamVars PROVE PromptInv'
  OBVIOUS
<1>1. CASE UNCHANGED streamVars
  BY <1>1
  DEF streamVars, PromptInv, PromptsHaveIds, PromptKept, OnItsWay, runVars, procVars, connVars, outVars
<1>2. CASE Answered
  BY <1>2 DEF Answered, PromptInv, PromptsHaveIds, PromptKept, procVars
<1> QED  BY <1>1, <1>2, ProduceKeepsPrompt, SinkKeepsPrompt, TakesKeepPrompt, ProcessKeepsPrompt, ServeKeepsPrompt
         DEF StreamNext

\* PromptReachesClient: while the runner blocks on a permission, a client that
\* has resumed holds its prompt as soon as it is through the sink, whenever it
\* attached and whatever was persisted, cut off or answered in between.
THEOREM PromptNeverLost == StreamSpec => []PromptReachesClient
<1>1. StreamInit => PromptInv
  BY InitPromptInv
<1>2. GapInv /\ PromptInv /\ [StreamNext]_streamVars => PromptInv'
  BY NextPromptInv
<1>3. PromptInv => PromptReachesClient
  BY DEF PromptInv, PromptKept, PromptReachesClient, OnItsWay, Working
<1> QED  BY <1>1, <1>2, <1>3, StreamInvariance, PTL DEF StreamSpec

=============================================================================
