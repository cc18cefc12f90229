-------------------------- MODULE PermissionProofs --------------------------
(***************************************************************************)
(* The two slots of pending requests never lose the newest request, and    *)
(* none survives its round, for any connections, any number of requests    *)
(* and any number of them unanswered at a time.                            *)
(***************************************************************************)
EXTENDS Permission, TLAPS

\* A request that is about to be cleared has had its response.
ClearedIsAnswered == \A p \in Actors : pc[p] = "clear" => got[p] \in answered

\* The worker at a prompt has the prompt's request, so that it can forward it.
WorkerHoldsPrompt == pc["worker"] # "idle" => id["worker"] # 0

\* The inductive invariant.
IInv ==
  /\ PermTypeOK
  /\ ClearedIsAnswered
  /\ WorkerHoldsPrompt
  /\ NewestRequestPending
  /\ NothingPendingAfterRound

\* A sequence of requests stays one when a request is added.
LEMMA MoreRequests ==
  ASSUME NEW n \in Nat, NEW s \in Seq(1 .. n)
  PROVE  s \in Seq(1 .. n + 1)
<1>1. /\ Len(s) \in Nat
      /\ s \in [1 .. Len(s) -> 1 .. n]
  OBVIOUS
<1>2. \A i \in 1 .. Len(s) : s[i] \in 1 .. n + 1
  BY <1>1
<1>3. s \in [1 .. Len(s) -> 1 .. n + 1]
  BY <1>1, <1>2
<1> QED  BY <1>1, <1>3

\* An actor that goes idle keeps the types of its variables.
LEMMA FinishType ==
  ASSUME PermTypeOK, NEW p \in Actors, Finish(p)
  PROVE  /\ pc' \in [Actors -> {"idle", "check", "guard", "read", "write", "clear"}]
         /\ id' \in [Actors -> 0 .. asked]
         /\ decision' \in [Actors -> {"approve", "deny"}]
         /\ got' \in [Actors -> 0 .. asked]
         /\ \A q \in Actors : pc'[q] \in {"write", "clear"} => got'[q] # 0
         /\ \A q \in Actors : pc'[q] = "clear" => q # p /\ pc[q] = "clear" /\ got'[q] = got[q]
  BY DEF Finish, PermTypeOK

\* A prompt is shown for a request that was asked.
LEMMA RefreshType ==
  ASSUME PermTypeOK, Refresh
  PROVE  shown' \in SUBSET Requests
<1>1. {CurrentID} \ {0} \subseteq Requests
  BY DEF PermTypeOK, CurrentID, Requests
<1> QED  BY <1>1 DEF Refresh, PermTypeOK

LEMMA FailedType ==
  ASSUME PermTypeOK, WorkerHoldsPrompt, NEW p \in Actors, pc[p] # "idle", Failed(p)
  PROVE  shown' \in SUBSET Requests
<1>1. p = "worker" => id[p] \in Requests
  BY DEF PermTypeOK, WorkerHoldsPrompt, Requests
<1> QED  BY <1>1 DEF Failed, PermTypeOK

LEMMA ExpiredType ==
  ASSUME PermTypeOK, WorkerHoldsPrompt, NEW p \in Actors, pc[p] # "idle", Expired(p)
  PROVE  Finish(p) /\ shown' \in SUBSET Requests
  BY RefreshType, FailedType DEF Expired, Failed

LEMMA InitIInv == PermInit => IInv
<1> SUFFICES ASSUME PermInit PROVE IInv
  OBVIOUS
<1>1. PermTypeOK
  BY DEF PermInit, PermTypeOK, Requests
<1> QED  BY <1>1 DEF PermInit, IInv, ClearedIsAnswered, WorkerHoldsPrompt,
              NewestRequestPending, NothingPendingAfterRound, HasPending, Actors

\* The process and the reader of its output.
LEMMA ProcessKeepsIInv ==
  ASSUME IInv, Ask \/ RoundEnds \/ RoundFails \/ RunnerCloses
  PROVE  IInv'
<1> USE DEF IInv, PermTypeOK, ClearedIsAnswered, WorkerHoldsPrompt, NewestRequestPending,
            NothingPendingAfterRound, HasPending, actVars, showVars
<1>1. CASE Ask
  <2>1. asked' = asked + 1 /\ Requests \subseteq Requests' /\ asked' \in Requests'
    BY <1>1 DEF Ask, Requests
  <2>2. queue' \in Seq(Requests')
    <3>1. queue \in Seq(1 .. asked + 1)
      BY MoreRequests DEF Requests
    <3> QED  BY <1>1, <2>1, <3>1 DEF Ask, Requests
  <2>3. /\ answered' \in SUBSET Requests' /\ shown' \in SUBSET Requests'
        /\ late' \in SUBSET Requests'
    BY <1>1, <2>1 DEF Ask
  <2>4. id' \in [Actors -> 0 .. asked'] /\ got' \in [Actors -> 0 .. asked']
    <3>1. 0 .. asked \subseteq 0 .. asked'
      BY <2>1
    <3>2. id' = id /\ got' = got
      BY <1>1 DEF Ask
    <3> QED  BY <3>1, <3>2
  <2>5. asked' \in Nat /\ cur' \in 0 .. asked' /\ prev' \in 0 .. asked'
    BY <1>1, <2>1 DEF Ask
  <2>6. cur' = asked' /\ phase' = "busy" /\ UNCHANGED <<answered, pc, id, decision, got>>
    BY <1>1 DEF Ask
  <2> QED  BY <2>2, <2>3, <2>4, <2>5, <2>6
<1>2. CASE RoundEnds
  <2>1. Requests' = Requests
    BY <1>2 DEF RoundEnds, Requests
  <2> QED  BY <1>2, <2>1 DEF RoundEnds
<1>3. CASE RunnerCloses
  <2>1. Requests' = Requests
    BY <1>3 DEF RunnerCloses, Requests
  <2> QED  BY <1>3, <2>1 DEF RunnerCloses
<1>4. CASE RoundFails
  <2>1. Requests' = Requests /\ UNCHANGED pendVars
    BY <1>4 DEF RoundFails, Requests
  <2> QED  BY <1>4, <2>1 DEF RoundFails, pendVars
<1> QED  BY <1>1, <1>2, <1>3, <1>4

\* A step that neither asks nor answers nor clears keeps what is pending.
LEMMA PendingKept ==
  ASSUME IInv, UNCHANGED <<cliVars, pendVars>>
  PROVE  NewestRequestPending' /\ NothingPendingAfterRound' /\ Requests' = Requests
  BY DEF IInv, cliVars, pendVars, NewestRequestPending, NothingPendingAfterRound,
         HasPending, Requests

\* An actor that goes idle, whatever it shows, keeps the invariant.
LEMMA IdleKeepsIInv ==
  ASSUME IInv, UNCHANGED <<cliVars, pendVars, queue>>,
         NEW p \in Actors, Finish(p), shown' \in SUBSET Requests, late' \in SUBSET Requests
  PROVE  IInv'
<1>1. NewestRequestPending' /\ NothingPendingAfterRound' /\ Requests' = Requests
  BY PendingKept
<1>2. UNCHANGED <<asked, answered, phase, cur, prev, queue>>
  BY DEF cliVars, pendVars
<1>3. PermTypeOK'
  BY <1>1, <1>2, FinishType DEF PermTypeOK, IInv
<1>4. ClearedIsAnswered'
  BY <1>2, FinishType DEF ClearedIsAnswered, IInv
<1>5. WorkerHoldsPrompt'
  BY DEF Finish, WorkerHoldsPrompt, IInv, PermTypeOK
<1> QED  BY <1>1, <1>3, <1>4, <1>5 DEF IInv

LEMMA WorkerTakeKeepsIInv ==
  ASSUME IInv, WorkerTake
  PROVE  IInv'
<1> USE DEF IInv
<1>1. Head(queue) \in Requests /\ Tail(queue) \in Seq(Requests)
  BY DEF WorkerTake, PermTypeOK
<1>2. /\ UNCHANGED <<asked, answered, phase, cur, prev, late, decision, got>>
      /\ NewestRequestPending' /\ NothingPendingAfterRound' /\ Requests' = Requests
      /\ queue' = Tail(queue)
  BY PendingKept DEF WorkerTake, cliVars, pendVars, actVars
<1>3. CASE shown' = shown \cup {Head(queue)} /\ UNCHANGED actVars
  <2>1. PermTypeOK'
    BY <1>1, <1>2, <1>3 DEF PermTypeOK, actVars
  <2> QED  BY <1>2, <1>3, <2>1 DEF ClearedIsAnswered, WorkerHoldsPrompt, actVars
<1>4. CASE /\ pc' = [pc EXCEPT !["worker"] = "guard"]
           /\ id' = [id EXCEPT !["worker"] = Head(queue)]
           /\ shown' = shown
  <2>1. Head(queue) \in 0 .. asked /\ Head(queue) # 0
    BY <1>1 DEF Requests, PermTypeOK
  <2>2. PermTypeOK'
    BY <1>1, <1>2, <1>4, <2>1 DEF PermTypeOK
  <2>3. ClearedIsAnswered' /\ WorkerHoldsPrompt'
    BY <1>2, <1>4, <2>1 DEF ClearedIsAnswered, WorkerHoldsPrompt, PermTypeOK
  <2> QED  BY <1>2, <2>2, <2>3
<1> QED  BY <1>3, <1>4 DEF WorkerTake

\* The steps of a handler before the service looks at the request.
LEMMA HandlerKeepsIInv ==
  ASSUME IInv, NEW c \in Conns, Approve(c) \/ Deny(c) \/ Check(c)
  PROVE  IInv'
<1> USE DEF IInv
<1>1. c \in Actors /\ c # "worker"
  BY PermissionAssumption DEF Actors
<1>2. ASSUME NEW d \in {"approve", "deny"}, NEW r \in shown, Decide(c, d, r)
      PROVE  IInv'
  <2>1. /\ UNCHANGED <<asked, answered, phase, cur, prev, queue, shown, got, late>>
        /\ NewestRequestPending' /\ NothingPendingAfterRound' /\ Requests' = Requests
    BY <1>2, PendingKept DEF Decide, cliVars, pendVars, showVars
  <2>2. r \in 0 .. asked
    BY DEF PermTypeOK, Requests
  <2>3. PermTypeOK'
    BY <1>2, <2>1, <2>2 DEF Decide, PermTypeOK
  <2>4. ClearedIsAnswered' /\ WorkerHoldsPrompt'
    BY <1>1, <1>2, <2>1 DEF Decide, ClearedIsAnswered, WorkerHoldsPrompt, PermTypeOK
  <2> QED  BY <2>1, <2>3, <2>4
<1>3. CASE Check(c)
  <2>1. /\ UNCHANGED <<asked, answered, phase, cur, prev, queue, late>>
        /\ NewestRequestPending' /\ NothingPendingAfterRound' /\ Requests' = Requests
    BY <1>3, PendingKept DEF Check, cliVars, pendVars
  <2>2. CASE Finish(c) /\ Refresh
    <3>1. shown' \in SUBSET Requests /\ late' \in SUBSET Requests
      BY <2>1, <2>2, RefreshType DEF PermTypeOK
    <3> QED  BY <1>1, <2>1, <2>2, <3>1, IdleKeepsIInv DEF cliVars, pendVars
  <2>3. CASE /\ pc' = [pc EXCEPT ![c] = "guard"]
             /\ id' \in {id, [id EXCEPT ![c] = CurrentID]}
             /\ UNCHANGED <<decision, got, shown>>
    <3>1. CurrentID \in 0 .. asked
      BY DEF CurrentID, PermTypeOK
    <3>2. id' \in [Actors -> 0 .. asked] /\ id'["worker"] = id["worker"]
      <4>1. id \in [Actors -> 0 .. asked] /\ "worker" \in Actors
        BY DEF PermTypeOK, Actors
      <4>2. CASE id' = id
        BY <4>1, <4>2
      <4>3. CASE id' = [id EXCEPT ![c] = CurrentID]
        BY <1>1, <3>1, <4>1, <4>3
      <4> QED  BY <2>3, <4>2, <4>3
    <3>3. PermTypeOK'
      BY <2>1, <2>3, <3>2 DEF PermTypeOK
    <3>4. ClearedIsAnswered' /\ WorkerHoldsPrompt'
      BY <1>1, <2>1, <2>3, <3>2 DEF ClearedIsAnswered, WorkerHoldsPrompt, PermTypeOK, Actors
    <3> QED  BY <2>1, <3>3, <3>4
  <2> QED  BY <1>3, <2>2, <2>3 DEF Check
<1> QED  BY <1>2, <1>3 DEF Approve, Deny

\* The steps of SendPermissionDecision and WritePermissionResponse.
LEMMA AdvanceKeepsIInv ==
  ASSUME IInv, NEW p \in Actors, Advance(p)
  PROVE  IInv'
<1> USE DEF IInv
<1>1. CASE Guard(p) /\ pc' = [pc EXCEPT ![p] = "read"] /\ UNCHANGED <<id, decision, got, shown>>
  <2>1. /\ UNCHANGED <<asked, answered, phase, cur, prev, queue, late>>
        /\ NewestRequestPending' /\ NothingPendingAfterRound' /\ Requests' = Requests
    BY <1>1, PendingKept DEF Guard, cliVars, pendVars
  <2>2. PermTypeOK'
    BY <1>1, <2>1 DEF PermTypeOK
  <2>3. ClearedIsAnswered' /\ WorkerHoldsPrompt'
    BY <1>1, <2>1 DEF Guard, ClearedIsAnswered, WorkerHoldsPrompt, PermTypeOK
  <2> QED  BY <2>1, <2>2, <2>3
<1>2. CASE (Guard(p) \/ Read(p)) /\ Expired(p)
  <2>1. Finish(p) /\ shown' \in SUBSET Requests
    BY <1>2, ExpiredType DEF Guard, Read
  <2> QED  BY <1>2, <2>1, IdleKeepsIInv DEF Guard, Read, PermTypeOK
<1>3. CASE Read(p) /\ cur # 0 /\ pc' = [pc EXCEPT ![p] = "write"]
                   /\ got' = [got EXCEPT ![p] = cur] /\ UNCHANGED <<id, decision, shown>>
  <2>1. /\ UNCHANGED <<asked, answered, phase, cur, prev, queue, late>>
        /\ NewestRequestPending' /\ NothingPendingAfterRound' /\ Requests' = Requests
    BY <1>3, PendingKept DEF Read, cliVars, pendVars
  <2>2. PermTypeOK'
    BY <1>3, <2>1 DEF PermTypeOK
  <2>3. ClearedIsAnswered' /\ WorkerHoldsPrompt'
    BY <1>3, <2>1 DEF Read, ClearedIsAnswered, WorkerHoldsPrompt, PermTypeOK
  <2> QED  BY <2>1, <2>2, <2>3
<1>4. CASE Write(p)
  <2>1. got[p] \in Requests
    BY <1>4 DEF Write, PermTypeOK, Requests
  <2>2. /\ UNCHANGED <<asked, phase, cur, prev, queue, shown, id, decision, got, late>>
        /\ Requests' = Requests
    BY <1>4 DEF Write, pendVars, showVars, Requests
  <2>3. PermTypeOK'
    BY <1>4, <2>1, <2>2 DEF Write, PermTypeOK
  <2>4. ClearedIsAnswered' /\ WorkerHoldsPrompt'
    BY <1>4, <2>2 DEF Write, ClearedIsAnswered, WorkerHoldsPrompt, PermTypeOK
  <2>5. NewestRequestPending' /\ NothingPendingAfterRound'
    BY <1>4, <2>2 DEF Write, NewestRequestPending, NothingPendingAfterRound, HasPending
  <2> QED  BY <2>3, <2>4, <2>5
<1>5. CASE WriteFails(p)
  <2>1. Finish(p) /\ shown' \in SUBSET Requests
    BY <1>5, FailedType DEF WriteFails, Failed
  <2> QED  BY <1>5, <2>1, IdleKeepsIInv DEF WriteFails, PermTypeOK
<1>6. CASE WriteGivenUp(p)
  <2>1. Finish(p) /\ shown' \in SUBSET Requests
    BY <1>6, FailedType DEF WriteGivenUp, Failed
  <2>2. got[p] \in Requests
    BY <1>6 DEF WriteGivenUp, PermTypeOK, Requests
  <2>3. late' \in SUBSET Requests
    BY <1>6, <2>2 DEF WriteGivenUp, PermTypeOK
  <2> QED  BY <1>6, <2>1, <2>3, IdleKeepsIInv DEF WriteGivenUp
\* The heart of the argument: the request that is cleared is answered, so it is
\* not the newest unanswered one; and after a round no request is left to match.
<1>7. CASE Clear(p)
  <2>1. /\ UNCHANGED <<asked, answered, phase, queue, shown, late>>
        /\ Requests' = Requests
    BY <1>7 DEF Clear, cliVars, showVars, Requests
  <2>2. PermTypeOK'
    <3>1. cur' \in 0 .. asked /\ prev' \in 0 .. asked
      BY <1>7 DEF Clear, pendVars, PermTypeOK
    <3> QED  BY <1>7, <2>1, <3>1, FinishType DEF Clear, PermTypeOK
  <2>3. ClearedIsAnswered'
    BY <1>7, <2>1, FinishType DEF Clear, ClearedIsAnswered
  <2>4. WorkerHoldsPrompt'
    BY <1>7 DEF Clear, Finish, WorkerHoldsPrompt, PermTypeOK
  <2>5. got[p] \in answered /\ got[p] # 0
    BY <1>7 DEF Clear, ClearedIsAnswered, PermTypeOK
  <2>6. NewestRequestPending'
    BY <1>7, <2>1, <2>5 DEF Clear, NewestRequestPending, pendVars
  <2>7. NothingPendingAfterRound'
    BY <1>7, <2>1, <2>5 DEF Clear, NothingPendingAfterRound, HasPending, pendVars
  <2> QED  BY <2>2, <2>3, <2>4, <2>6, <2>7
<1> QED  BY <1>1, <1>2, <1>3, <1>4, <1>5, <1>6, <1>7 DEF Advance, Guard, Read

\* A writer that was given up answers late.
LEMMA LateWriteKeepsIInv ==
  ASSUME IInv, NEW r \in late, LateWrite(r)
  PROVE  IInv'
<1> USE DEF IInv
<1>1. /\ UNCHANGED <<asked, phase, cur, prev, queue, shown, pc, id, decision, got>>
      /\ Requests' = Requests
      /\ late' \in SUBSET Requests
      /\ answered' \in SUBSET Requests /\ answered \subseteq answered'
  BY DEF LateWrite, pendVars, showVars, actVars, Requests, PermTypeOK
<1>2. PermTypeOK'
  BY <1>1 DEF PermTypeOK
<1> QED  BY <1>1, <1>2 DEF ClearedIsAnswered, WorkerHoldsPrompt, NewestRequestPending,
              NothingPendingAfterRound, HasPending

\* Every step of the permission traffic keeps the inductive invariant.
THEOREM PermInvariance == PermSpec => []IInv
<1>1. PermInit => IInv
  BY InitIInv
<1>2. IInv /\ [PermNext]_permVars => IInv'
  <2> SUFFICES ASSUME IInv, [PermNext]_permVars PROVE IInv'
    OBVIOUS
  <2>1. CASE UNCHANGED permVars
    BY <2>1 DEF permVars, cliVars, pendVars, showVars, actVars, IInv, PermTypeOK, Requests,
         ClearedIsAnswered, WorkerHoldsPrompt, NewestRequestPending,
         NothingPendingAfterRound, HasPending
  <2>2. CASE PermNext
    BY <2>2, ProcessKeepsIInv, WorkerTakeKeepsIInv, HandlerKeepsIInv, AdvanceKeepsIInv,
       LateWriteKeepsIInv DEF PermNext
  <2> QED  BY <2>1, <2>2
<1> QED  BY <1>1, <1>2, PTL DEF PermSpec

\* Type correctness: no actor writes a response for the empty request, and
\* every number a slot or a writer has is a request the process has asked.
THEOREM PermTypeCorrect == PermSpec => []PermTypeOK
<1>1. IInv => PermTypeOK
  BY DEF IInv
<1> QED  BY <1>1, PermInvariance, PTL

\* WritePermissionResponse's compare-and-clear never pushes the newest request
\* out before its response is written, however answers interleave.
THEOREM NewestNeverLost == PermSpec => []NewestRequestPending
<1>1. IInv => NewestRequestPending
  BY DEF IInv
<1> QED  BY <1>1, PermInvariance, PTL

\* The end of a round without an error and the close of the runner leave no request pending, and
\* no answer that was under way brings one back.
THEOREM NoCardAfterRound == PermSpec => []NothingPendingAfterRound
<1>1. IInv => NothingPendingAfterRound
  BY DEF IInv
<1> QED  BY <1>1, PermInvariance, PTL
=============================================================================
