------------------------------ MODULE LogProofs ------------------------------
(***************************************************************************)
(* What is proved of the logs of sessions: the projection with its deltas   *)
(* and the review of changes, the mirrors of conversations that codex and   *)
(* claude keep, and the file that a session shares with claude; for any     *)
(* number of events, entries, saves and loads.                              *)
(***************************************************************************)
EXTENDS Projection, Mirrors, ClaudeSync, SequenceTheorems, FiniteSetTheorems, WellFoundedInduction, TLAPS

-----------------------------------------------------------------------------
(* Some of the places of a sequence, and the entries at them.               *)

\* EntriesAt(s, K) is the sequence of the entries of s at the places K, each
\* once and in the order of s: ranks number the places from 1.
LEMMA PlacesRanked ==
  ASSUME NEW n \in Nat, NEW K \in SUBSET (1 .. n)
  PROVE  /\ IsFiniteSet(K) /\ Cardinality(K) \in Nat
         /\ \A m \in K : Rank(K, m) \in 1 .. Cardinality(K)
         /\ \A m, k \in K : m < k => Rank(K, m) < Rank(K, k)
         /\ \A i \in 1 .. Cardinality(K) : \E m \in K : Rank(K, m) = i
<1> DEFINE upTo(m) == {k \in K : k <= m}
           rank == [m \in K |-> Rank(K, m)]
<1>1. IsFiniteSet(K)
  <2>1. IsFiniteSet(1 .. n)
    BY FS_Interval
  <2> QED  BY <2>1, FS_Subset
<1>2. Cardinality(K) \in Nat
  BY <1>1, FS_CardinalityType
<1>3. ASSUME NEW m \in K
      PROVE  IsFiniteSet(upTo(m)) /\ Cardinality(upTo(m)) \in Nat /\ Cardinality(upTo(m)) <= Cardinality(K)
  <2>1. upTo(m) \in SUBSET K
    OBVIOUS
  <2> HIDE DEF upTo
  <2> QED  BY <1>1, <2>1, FS_Subset, FS_CardinalityType
<1>4. ASSUME NEW m \in K PROVE Rank(K, m) \in 1 .. Cardinality(K)
  <2>1. upTo(m) # {}
    OBVIOUS
  <2> HIDE DEF upTo
  <2>2. Cardinality(upTo(m)) # 0
    BY <1>3, <2>1, FS_EmptySet
  <2>3. Rank(K, m) = Cardinality(upTo(m))
    BY DEF Rank, upTo
  <2> QED  BY <1>2, <1>3, <2>2, <2>3
<1>5. ASSUME NEW m \in K, NEW k \in K, m < k PROVE Rank(K, m) < Rank(K, k)
  <2>1. upTo(m) \in SUBSET upTo(k) /\ k \in upTo(k) \ upTo(m)
    <3>1. \A x \in K : x \in Int
      OBVIOUS
    <3>2. (\A x \in K : x <= m => x <= k) /\ k <= k /\ ~(k <= m)
      BY <1>5, <3>1
    <3> QED  BY <3>2
  <2>2. Rank(K, m) = Cardinality(upTo(m)) /\ Rank(K, k) = Cardinality(upTo(k))
    BY DEF Rank
  <2>3. upTo(m) # upTo(k)
    BY <2>1
  <2> HIDE DEF upTo
  <2>4. Cardinality(upTo(m)) <= Cardinality(upTo(k)) /\ Cardinality(upTo(m)) # Cardinality(upTo(k))
    BY <1>3, <2>1, <2>3, FS_Subset
  <2> QED  BY <1>3, <2>2, <2>4
<1>6. rank \in Injection(K, 1 .. Cardinality(K))
  <2>1. rank \in [K -> 1 .. Cardinality(K)]
    BY <1>4
  <2>2. ASSUME NEW m \in K, NEW k \in K, rank[m] = rank[k] PROVE m = k
    <3>1. m \in Int /\ k \in Int /\ Rank(K, m) \in Int /\ Rank(K, k) \in Int
      BY <1>2, <1>4
    <3>2. ~(m < k) /\ ~(k < m)
      BY <1>5, <2>2, <3>1
    <3> QED  BY <3>1, <3>2
  <2> QED  BY <2>1, <2>2 DEF Injection, IsInjective
<1>7. IsFiniteSet(1 .. Cardinality(K)) /\ Cardinality(1 .. Cardinality(K)) = Cardinality(K)
  BY <1>2, FS_Interval
<1>8. rank \in Surjection(K, 1 .. Cardinality(K))
  BY <1>6, <1>7, FS_Injection
<1> QED  BY <1>1, <1>2, <1>4, <1>5, <1>8 DEF Surjection

LEMMA EntriesAtPlaces ==
  ASSUME NEW S, NEW s \in Seq(S), NEW K \in SUBSET (1 .. Len(s))
  PROVE  /\ EntriesAt(s, K) \in Seq(S)
         /\ Len(EntriesAt(s, K)) = Cardinality(K)
         /\ IsFiniteSet(K)
         /\ \E f \in Bijection(1 .. Cardinality(K), K) :
              /\ \A i \in 1 .. Cardinality(K) : EntriesAt(s, K)[i] = s[f[i]]
              /\ \A i, j \in 1 .. Cardinality(K) : i < j => f[i] < f[j]
<1> DEFINE c == Cardinality(K)
           f == [i \in 1 .. c |-> CHOOSE m \in K : Rank(K, m) = i]
<1>1. /\ IsFiniteSet(K) /\ c \in Nat
      /\ \A m \in K : Rank(K, m) \in 1 .. c
      /\ \A m, k \in K : m < k => Rank(K, m) < Rank(K, k)
      /\ \A i \in 1 .. c : \E m \in K : Rank(K, m) = i
  BY PlacesRanked, LenProperties
<1>2. \A i \in 1 .. c : f[i] \in K /\ Rank(K, f[i]) = i
  BY <1>1
<1> HIDE DEF c
<1>3. f \in [1 .. c -> K]
  BY <1>2
<1>4. \A i \in 1 .. c : EntriesAt(s, K)[i] = s[f[i]]
  BY DEF EntriesAt, c
<1>5. EntriesAt(s, K) \in [1 .. c -> S]
  <2>1. \A i \in 1 .. c : s[f[i]] \in S
    BY <1>2, ElementOfSeq
  <2>2. EntriesAt(s, K) = [i \in 1 .. c |-> s[f[i]]]
    BY DEF EntriesAt, c
  <2> HIDE DEF f
  <2> QED  BY <2>1, <2>2
<1> HIDE DEF f
<1>6. EntriesAt(s, K) \in Seq(S) /\ Len(EntriesAt(s, K)) = c
  BY <1>1, <1>5, IsASeq, LenProperties
<1>7. \A m, k \in K : Rank(K, m) = Rank(K, k) => m = k
  <2> SUFFICES ASSUME NEW m \in K, NEW k \in K, Rank(K, m) = Rank(K, k) PROVE m = k
    OBVIOUS
  <2>1. ~(m < k) /\ ~(k < m) /\ m \in Int /\ k \in Int /\ Rank(K, m) \in Int
    BY <1>1
  <2> QED  BY <2>1
<1>8. f \in Bijection(1 .. c, K)
  <2>1. \A i, j \in 1 .. c : f[i] = f[j] => i = j
    BY <1>2
  <2>2. \A m \in K : \E i \in 1 .. c : f[i] = m
    BY <1>1, <1>2, <1>7
  <2> QED  BY <1>3, <2>1, <2>2 DEF Bijection, Injection, Surjection, IsInjective
<1>9. \A i, j \in 1 .. c : i < j => f[i] < f[j]
  <2> SUFFICES ASSUME NEW i \in 1 .. c, NEW j \in 1 .. c, i < j PROVE f[i] < f[j]
    OBVIOUS
  <2>1. f[i] \in K /\ f[j] \in K /\ Rank(K, f[i]) = i /\ Rank(K, f[j]) = j
    BY <1>2
  <2>2. f[i] \in Int /\ f[j] \in Int /\ i \in Int /\ j \in Int /\ f[i] # f[j]
    <3>1. i \in Int /\ j \in Int /\ i # j
      BY <1>1
    <3>2. \A m \in K : m \in Int
      OBVIOUS
    <3> QED  BY <2>1, <3>1, <3>2
  <2>3. ~(f[j] < f[i])
    BY <1>1, <2>1, <2>2
  <2> QED  BY <2>2, <2>3
<1> QED  BY <1>1, <1>4, <1>6, <1>8, <1>9 DEF c

\* A function on the first numbers is a sequence.
LEMMA FunctionIsSeq ==
  ASSUME NEW S, NEW n \in Nat, NEW s \in [1 .. n -> S]
  PROVE  s \in Seq(S) /\ Len(s) = n
<1>1. s \in Seq(S)
  BY IsASeq
<1> QED  BY <1>1, LenProperties

-----------------------------------------------------------------------------
(* The least and the greatest of the places in a sequence.                 *)

Below == OpToRel(<, Nat)

LEMMA LeastIs ==
  ASSUME NEW T \in SUBSET Nat, T # {}
  PROVE  \E x \in T : \A y \in T : x <= y
<1>1. IsWellFoundedOn(Below, Nat)
  BY NatLessThanWellFounded DEF Below, OpToRel
<1>2. PICK x \in T : \A y \in T : ~ (<<y, x>> \in Below)
  BY <1>1, WFMin
<1>3. \A y \in T : y < x => <<y, x>> \in Below
  <2> SUFFICES ASSUME NEW y \in T, y < x PROVE <<y, x>> \in Below
    OBVIOUS
  <2>1. <<y, x>> \in Nat \X Nat
    OBVIOUS
  <2> QED  BY <2>1 DEF Below, OpToRel
<1>4. \A y \in T : x \in Int /\ y \in Int
  OBVIOUS
<1>5. \A y \in T : ~ (y < x)
  BY <1>2, <1>3
<1> QED  BY <1>4, <1>5

LEMMA MinIs ==
  ASSUME NEW T \in SUBSET Nat, T # {}
  PROVE  Min(T) \in T
<1>1. \E x \in T : \A y \in T : x =< y
  BY LeastIs
<1> QED  BY <1>1 DEF Min

LEMMA MaxIs ==
  ASSUME NEW n \in Nat, NEW T \in SUBSET (1 .. n), T # {}
  PROVE  Max(T) \in T
<1> DEFINE D == {n - x : x \in T}
<1>1. D \in SUBSET Nat /\ D # {}
  <2>1. \A x \in T : n - x \in Nat
    OBVIOUS
  <2>2. PICK x \in T : TRUE
    OBVIOUS
  <2>3. n - x \in D
    OBVIOUS
  <2> QED  BY <2>1, <2>3
<1>2. PICK d \in D : \A y \in D : d <= y
  BY <1>1, LeastIs
<1>3. PICK x \in T : d = n - x
  OBVIOUS
<1>4. \A y \in T : x >= y
  <2> SUFFICES ASSUME NEW y \in T PROVE x >= y
    OBVIOUS
  <2>1. n - x <= n - y
    BY <1>2, <1>3
  <2>2. x \in Int /\ y \in Int
    OBVIOUS
  <2> QED  BY <2>1, <2>2
<1> QED  BY <1>4 DEF Max

-----------------------------------------------------------------------------
(* What is shown for review is open as long as something is, for any files  *)
(* and executions and however many events and decisions.                    *)

Statuses == {"pending", "accepted", "reverted", "revised"}
Diffs == [path : Paths, exec : Execs, pending : BOOLEAN, status : Statuses]
DecisionKinds == {"accept", "revert", "revise"}

\* A diff is open exactly while nobody has accepted or reverted it.
DiffsOK(diffs) ==
  /\ diffs \in Seq(Diffs)
  /\ \A i \in DOMAIN diffs : diffs[i].pending <=> diffs[i].status \in {"pending", "revised"}

\* A projection as it is stored, or as somebody has read it.
ReadableOK(p) == p = [log |-> p.log, diffs |-> p.diffs] /\ DiffsOK(p.diffs)

\* The event the worker has taken up, when it is one of a diff.
EventOK(e) == e.kind = "diff" => e.path \in Paths /\ e.exec \in Execs

DiffsInv ==
  /\ ReadableOK(stored)
  /\ worker = [step |-> worker.step, e |-> worker.e, copy |-> worker.copy]
  /\ ReadableOK(worker.copy) /\ EventOK(worker.e)
  /\ handler = [step |-> handler.step, d |-> handler.d, copy |-> handler.copy]
  /\ ReadableOK(handler.copy)
  /\ handler.d \in [kind : DecisionKinds, path : Paths] \cup {NoDecision}
  /\ autoAccept \in BOOLEAN

-----------------------------------------------------------------------------
(* What an event or a decision makes of the diffs.                         *)

LEMMA NewDiff ==
  ASSUME NEW diffs, DiffsOK(diffs), NEW x \in Diffs,
         x.pending <=> x.status \in {"pending", "revised"}
  PROVE  DiffsOK(UpsertDiff(diffs, x))
<1>1. CASE \E i \in DOMAIN diffs : diffs[i].path = x.path
  <2> DEFINE new == [i \in DOMAIN diffs |-> IF diffs[i].path = x.path THEN x ELSE diffs[i]]
  <2>1. UpsertDiff(diffs, x) = new
    BY <1>1 DEF UpsertDiff
  <2>2. DOMAIN diffs = 1 .. Len(diffs) /\ Len(diffs) \in Nat /\ \A i \in DOMAIN diffs : diffs[i] \in Diffs
    BY DEF DiffsOK
  <2>3. new \in [1 .. Len(diffs) -> Diffs]
    BY <2>2
  <2>4. new \in Seq(Diffs)
    BY <2>2, <2>3, IsASeq
  <2>5. \A i \in DOMAIN new : new[i].pending <=> new[i].status \in {"pending", "revised"}
    BY DEF DiffsOK
  <2> QED  BY <2>1, <2>4, <2>5 DEF DiffsOK
<1>2. CASE ~\E i \in DOMAIN diffs : diffs[i].path = x.path
  <2>1. UpsertDiff(diffs, x) = Append(diffs, x)
    BY <1>2 DEF UpsertDiff
  <2> QED  BY <2>1 DEF DiffsOK
<1> QED  BY <1>1, <1>2

\* Every diff is replaced by one of its own that is open exactly as it says.
LEMMA EachDiff ==
  ASSUME NEW diffs, DiffsOK(diffs), NEW new, DOMAIN new = DOMAIN diffs, new = [i \in DOMAIN diffs |-> new[i]],
         \A i \in DOMAIN diffs :
           new[i] \in Diffs /\ (new[i].pending <=> new[i].status \in {"pending", "revised"})
  PROVE  DiffsOK(new)
<1>1. DOMAIN diffs = 1 .. Len(diffs) /\ Len(diffs) \in Nat
  BY DEF DiffsOK
<1>2. new \in [1 .. Len(diffs) -> Diffs]
  BY <1>1
<1>3. new \in Seq(Diffs)
  BY <1>1, <1>2, IsASeq
<1> QED  BY <1>3 DEF DiffsOK

LEMMA AppliedOK ==
  ASSUME NEW p, ReadableOK(p), NEW e, EventOK(e), autoAccept \in BOOLEAN
  PROVE  ReadableOK(Apply(p, e))
<1> DEFINE x == [path |-> e.path, exec |-> e.exec, pending |-> ~autoAccept,
                 status |-> IF autoAccept THEN "accepted" ELSE "pending"]
<1>1. CASE e.kind # "diff"
  BY <1>1 DEF Apply, ReadableOK
<1>2. CASE e.kind = "diff"
  <2>1. e.path \in Paths /\ e.exec \in Execs
    BY <1>2 DEF EventOK
  <2>2. x \in Diffs
    BY <2>1 DEF Diffs, Statuses
  <2>3. x.pending <=> x.status \in {"pending", "revised"}
    OBVIOUS
  <2>4. DiffsOK(UpsertDiff(p.diffs, x))
    BY <2>2, <2>3, NewDiff DEF ReadableOK
  <2>5. Apply(p, e) = [log |-> ApplyToLog(p.log, e), diffs |-> UpsertDiff(p.diffs, x)]
    BY <1>2 DEF Apply
  <2> QED  BY <2>4, <2>5 DEF ReadableOK
<1> QED  BY <1>1, <1>2

LEMMA ReviewedOK ==
  ASSUME NEW p, ReadableOK(p), NEW d \in [kind : DecisionKinds, path : Paths]
  PROVE  ReadableOK(ApplyReview(p, d))
<1> DEFINE status == [accept |-> "accepted", revert |-> "reverted", revise |-> "revised"][d.kind]
           new == [i \in DOMAIN p.diffs |->
                     IF p.diffs[i].path = d.path
                       THEN [p.diffs[i] EXCEPT !.pending = (d.kind = "revise"), !.status = status]
                       ELSE p.diffs[i]]
<1>1. status \in Statuses /\ (d.kind = "revise" <=> status \in {"pending", "revised"})
  BY DEF Statuses, DecisionKinds
<1>2. \A i \in DOMAIN p.diffs : p.diffs[i] \in Diffs
  BY DEF ReadableOK, DiffsOK
<1>3. \A i \in DOMAIN p.diffs : new[i] \in Diffs
  <2> HIDE DEF status
  <2> QED  BY <1>1, <1>2 DEF Diffs
<1>4. \A i \in DOMAIN p.diffs : new[i].pending <=> new[i].status \in {"pending", "revised"}
  <2> HIDE DEF status
  <2> QED  BY <1>1, <1>2 DEF Diffs, ReadableOK, DiffsOK
<1>5. DiffsOK(new)
  <2> HIDE DEF status
  <2> QED  BY <1>3, <1>4, EachDiff DEF ReadableOK
<1>6. ApplyReview(p, d) = [p EXCEPT !.diffs = new]
  BY DEF ApplyReview
<1> HIDE DEF new
<1>7. [p EXCEPT !.diffs = new] = [log |-> p.log, diffs |-> new]
  BY DEF ReadableOK
<1> QED  BY <1>5, <1>6, <1>7 DEF ReadableOK

LEMMA AcceptedOK ==
  ASSUME NEW p, ReadableOK(p)
  PROVE  ReadableOK(ApplyAutoAcceptance(p))
<1> DEFINE new == [i \in DOMAIN p.diffs |->
                     IF p.diffs[i].pending THEN [p.diffs[i] EXCEPT !.pending = FALSE, !.status = "accepted"]
                                           ELSE p.diffs[i]]
<1>1. \A i \in DOMAIN p.diffs : p.diffs[i] \in Diffs
  BY DEF ReadableOK, DiffsOK
<1>2. \A i \in DOMAIN p.diffs : new[i] \in Diffs
  BY <1>1 DEF Diffs, Statuses
<1>3. \A i \in DOMAIN p.diffs : new[i].pending <=> new[i].status \in {"pending", "revised"}
  BY <1>1 DEF Diffs, ReadableOK, DiffsOK
<1>4. DiffsOK(new)
  BY <1>2, <1>3, EachDiff DEF ReadableOK
<1>5. ApplyAutoAcceptance(p) = [p EXCEPT !.diffs = new]
  BY DEF ApplyAutoAcceptance
<1> HIDE DEF new
<1>6. [p EXCEPT !.diffs = new] = [log |-> p.log, diffs |-> new]
  BY DEF ReadableOK
<1> QED  BY <1>4, <1>5, <1>6 DEF ReadableOK

LEMMA EmptyOK == ReadableOK(EmptyProjection) /\ EventOK(NoHappening)
<1>1. << >> \in Seq(Diffs) /\ DOMAIN << >> = {}
  OBVIOUS
<1> QED  BY <1>1 DEF ReadableOK, EmptyProjection, DiffsOK, EventOK, NoHappening

-----------------------------------------------------------------------------
(* The invariant.                                                          *)

LEMMA HappeningOK ==
  ASSUME NEW e \in Happenings
  PROVE  EventOK(e)
<1>1. ASSUME NEW S PROVE Known(S) \subseteq S
  BY DEF Known
<1>2. e.kind = "diff" => e.exec \in Known(Execs) /\ e.path \in Known(Paths)
  BY DEF Happenings
<1> QED  BY <1>1, <1>2 DEF EventOK

LEMMA DiffsBegin == ProjectionInit => DiffsInv
<1> SUFFICES ASSUME ProjectionInit PROVE DiffsInv
  OBVIOUS
<1>1. stored = EmptyProjection /\ autoAccept = FALSE
  BY DEF ProjectionInit
<1>2. worker = [step |-> "idle", e |-> NoHappening, copy |-> EmptyProjection]
  BY DEF ProjectionInit
<1>3. handler = [step |-> "idle", d |-> NoDecision, copy |-> EmptyProjection]
  BY DEF ProjectionInit
<1> QED  BY <1>1, <1>2, <1>3, EmptyOK DEF DiffsInv

LEMMA DiffsGoOn == DiffsInv /\ [ProjectionNext]_projectionVars => DiffsInv'
<1> SUFFICES ASSUME DiffsInv, [ProjectionNext]_projectionVars PROVE DiffsInv'
  OBVIOUS
<1> USE DEF DiffsInv
<1>1. CASE WorkerStarts
  <2>1. PICK e \in Happenings : worker' = [worker EXCEPT !.step = "read", !.e = e]
    BY <1>1 DEF WorkerStarts
  <2>2. EventOK(e)
    BY HappeningOK
  <2>3. worker' = [step |-> "read", e |-> e, copy |-> worker.copy]
    BY <2>1
  <2>4. stored' = stored /\ handler' = handler /\ autoAccept' = autoAccept
    BY <1>1 DEF WorkerStarts
  <2> QED  BY <2>2, <2>3, <2>4 DEF ReadableOK, DiffsOK, EventOK
<1>2. CASE WorkerReads
  <2>1. worker' = [step |-> "save", e |-> worker.e, copy |-> stored]
    BY <1>2 DEF WorkerReads
  <2>2. stored' = stored /\ handler' = handler /\ autoAccept' = autoAccept
    BY <1>2 DEF WorkerReads
  <2> QED  BY <2>1, <2>2 DEF ReadableOK, DiffsOK, EventOK
<1>3. CASE WorkerSaves
  <2>1. stored' = Apply(worker.copy, worker.e)
    BY <1>3 DEF WorkerSaves, Saves
  <2>2. ReadableOK(stored')
    BY <2>1, AppliedOK
  <2>3. worker' = [step |-> "idle", e |-> NoHappening, copy |-> EmptyProjection]
    BY <1>3 DEF WorkerSaves
  <2>4. handler' = handler /\ autoAccept' = autoAccept
    BY <1>3 DEF WorkerSaves
  <2> QED  BY <2>2, <2>3, <2>4, EmptyOK
<1>4. ASSUME NEW k \in DecisionKinds, NEW f \in Paths, ReviewDecision([kind |-> k, path |-> f]) PROVE DiffsInv'
  <2>1. handler' = [step |-> "save", d |-> [kind |-> k, path |-> f], copy |-> stored]
    BY <1>4 DEF ReviewDecision
  <2>2. stored' = stored /\ worker' = worker /\ autoAccept' = autoAccept
    BY <1>4 DEF ReviewDecision
  <2> QED  BY <2>1, <2>2
<1>5. ASSUME NEW b \in BOOLEAN, SetPermissionMode(b) PROVE DiffsInv'
  <2>1. stored' = stored /\ worker' = worker /\ autoAccept' = b
    BY <1>5 DEF SetPermissionMode
  <2>2. handler' = [step |-> "read", d |-> handler.d, copy |-> handler.copy] \/ handler' = handler
    BY <1>5 DEF SetPermissionMode
  <2> QED  BY <2>1, <2>2
<1>6. CASE HandlerReads
  <2>1. handler' = [step |-> "save", d |-> handler.d, copy |-> stored]
    BY <1>6 DEF HandlerReads
  <2>2. stored' = stored /\ worker' = worker /\ autoAccept' = autoAccept
    BY <1>6 DEF HandlerReads
  <2> QED  BY <2>1, <2>2
<1>7. CASE HandlerSaves
  <2>1. ReadableOK(stored')
    <3>1. CASE handler.d = NoDecision
      BY <1>7, <3>1, AcceptedOK DEF HandlerSaves, Saves
    <3>2. CASE handler.d # NoDecision
      BY <1>7, <3>2, ReviewedOK DEF HandlerSaves, Saves
    <3> QED  BY <3>1, <3>2
  <2>2. handler' = [step |-> "idle", d |-> NoDecision, copy |-> EmptyProjection]
    BY <1>7 DEF HandlerSaves
  <2>3. worker' = worker /\ autoAccept' = autoAccept
    BY <1>7 DEF HandlerSaves
  <2> QED  BY <2>1, <2>2, <2>3, EmptyOK
<1>8. CASE DecisionFails
  <2>1. handler' = [step |-> "idle", d |-> NoDecision, copy |-> EmptyProjection]
    BY <1>8 DEF DecisionFails
  <2>2. stored' = stored /\ worker' = worker /\ autoAccept' = autoAccept
    BY <1>8 DEF DecisionFails
  <2> QED  BY <2>1, <2>2, EmptyOK
<1>9. CASE DeltaReads \/ DeltaSends \/ UNCHANGED projectionVars
  <2>1. stored' = stored /\ worker' = worker /\ handler' = handler /\ autoAccept' = autoAccept
    BY <1>9 DEF DeltaReads, DeltaSends, projectionVars
  <2> QED  BY <2>1
<1> QED
  BY <1>1, <1>2, <1>3, <1>4, <1>5, <1>6, <1>7, <1>8, <1>9 DEF ProjectionNext, DecisionKinds

\* The file shown, the diff shown and the group's status, for the diffs of any
\* session with something to review.
LEMMA OpenIsShown ==
  ASSUME NEW diffs, DiffsOK(diffs), NEW o \in DOMAIN diffs, diffs[o].pending
  PROVE  LET g == PickActiveReviewGroup(diffs)
         IN /\ diffs[PickActiveReviewFile(diffs, g)].pending
            /\ diffs[PickActiveSnapshotDiff(diffs)].pending
            /\ GroupStatus(diffs, g) \in {"pending", "mixed"}
<1> DEFINE n == Len(diffs)
           alike == {i \in DOMAIN diffs : diffs[i].exec = diffs[o].exec}
           open == {g \in Groups(diffs) : GroupPending(diffs, g)}
           g == PickActiveReviewGroup(diffs)
<1>1. n \in Nat /\ DOMAIN diffs = 1 .. n
  BY DEF DiffsOK
<1>2. PICK f \in alike : \A y \in alike : f <= y
  <2>1. alike \in SUBSET Nat /\ o \in alike
    BY <1>1
  <2> QED  BY <2>1, LeastIs
<1>3. f \in Groups(diffs)
  <2>1. f \in 1 .. n
    BY <1>1
  <2>2. ASSUME NEW j \in 1 .. f - 1 PROVE diffs[j].exec # diffs[f].exec
    <3>1. j \in DOMAIN diffs /\ ~(f <= j)
      BY <1>1, <2>1
    <3>2. j \notin alike
      BY <1>2, <3>1
    <3> QED  BY <3>1, <3>2
  <2> QED  BY <2>1, <2>2, <1>1 DEF Groups
<1>4. f \in open
  BY <1>3 DEF GroupPending, Members
<1>5. g \in open
  <2>1. open \in SUBSET (1 .. n)
    BY <1>1 DEF Groups
  <2>2. open # {} /\ Max(open) \in open
    BY <1>1, <1>4, <2>1, MaxIs
  <2>3. g = Max(open)
    BY <2>2 DEF PickActiveReviewGroup
  <2> QED  BY <2>2, <2>3
<1> HIDE DEF g
<1>6. PICK m \in Members(diffs, g) : diffs[m].pending
  BY <1>5 DEF GroupPending
<1>7. diffs[PickActiveReviewFile(diffs, g)].pending
  <2> DEFINE shown == {i \in Members(diffs, g) : diffs[i].pending}
  <2>1. shown \in SUBSET Nat /\ shown # {}
    BY <1>1, <1>6 DEF Members
  <2>2. Min(shown) \in shown
    BY <2>1, MinIs
  <2>3. PickActiveReviewFile(diffs, g) = Min(shown)
    BY <2>1 DEF PickActiveReviewFile
  <2> QED  BY <2>2, <2>3
<1>8. diffs[PickActiveSnapshotDiff(diffs)].pending
  <2> DEFINE shown == {i \in DOMAIN diffs : diffs[i].pending}
  <2>1. shown \in SUBSET (1 .. n) /\ shown # {}
    BY <1>1
  <2>2. Max(shown) \in shown
    BY <1>1, <2>1, MaxIs
  <2>3. PickActiveSnapshotDiff(diffs) = Max(shown)
    BY <2>1 DEF PickActiveSnapshotDiff
  <2> QED  BY <2>2, <2>3
<1>9. GroupStatus(diffs, g) \in {"pending", "mixed"}
  <2>1. CASE \A i \in Members(diffs, g) : diffs[i].pending
    BY <2>1 DEF GroupStatus
  <2>2. CASE ~\A i \in Members(diffs, g) : diffs[i].pending
    <3>1. PICK i \in Members(diffs, g) : ~diffs[i].pending
      BY <2>2
    <3>2. diffs[i].status \notin {"pending", "revised"}
      BY <3>1 DEF DiffsOK, Members
    <3>3. diffs[m].status \notin {"accepted", "reverted"}
      BY <1>6 DEF DiffsOK, Members
    <3>4. ~\E s \in {"accepted", "reverted", "revised"} : \A j \in Members(diffs, g) : diffs[j].status = s
      BY <3>1, <3>2, <3>3, <1>6
    <3> QED  BY <2>2, <3>4 DEF GroupStatus
  <2> QED  BY <2>1, <2>2
<1> QED  BY <1>7, <1>8, <1>9 DEF g

\* Whatever is decided, replaced by a newer change, accepted by the mode or
\* overwritten by a save of something read before, RebuildReviewGroups and the
\* Pick functions show what is still to be reviewed as long as there is any.
THEOREM OpenShown == ProjectionSpec => []OpenReviewShown
<1>1. DiffsInv => OpenReviewShown
  BY OpenIsShown DEF DiffsInv, ReadableOK, OpenReviewShown
<1> QED  BY <1>1, DiffsBegin, DiffsGoOn, PTL DEF ProjectionSpec

-----------------------------------------------------------------------------
(* What deltas make is the log, for any number of events, deltas and        *)
(* overlapping saves.                                                       *)

\* Entries that show events up to the nth, and the last event that is saved.
EntriesUpTo(n) == [kind : {"terminal", "markdown", "diff"}, exec : Execs, of : SUBSET (1 .. n)]
SavedUpTo == IF worker.step = "idle" THEN happened ELSE happened - 1

\* The event the worker has taken up is the latest.
LatestOK(e, n) ==
  /\ e.n = n /\ n > 0
  /\ e.kind \in {"line", "reply", "diff"} /\ e.exec \in Execs /\ e.covers \subseteq 1 .. n - 1

LogTypes ==
  /\ happened \in Nat /\ client.cursor \in 0 .. happened
  /\ worker.step \in {"idle", "read", "save"}
  /\ worker.step # "idle" => LatestOK(worker.e, happened)
  /\ stored.log \in Seq(EntriesUpTo(SavedUpTo)) /\ worker.copy.log \in Seq(EntriesUpTo(SavedUpTo))
  /\ handler.copy.log \in Seq(EntriesUpTo(SavedUpTo)) /\ fetch.copy.log \in Seq(EntriesUpTo(SavedUpTo))
  /\ client.log \in Seq(EntriesUpTo(SavedUpTo))
  /\ rewritten \in BOOLEAN /\ overtaken \in BOOLEAN

\* A delta is read and sent by the goroutine that decides and saves.
OneGoroutine == fetch.step = "send" => handler.step = "idle"

\* The log goes on where the client's ends.
GoesOn(entries) ==
  Len(client.log) <= Len(entries) /\ \A i \in 1 .. Len(client.log) : client.log[i] = entries[i]

\* A client that missed nothing and saw nothing rewritten has the beginning of
\* the log, and of what is about to be saved or sent.
ClientHasBeginning ==
  (~rewritten /\ ~overtaken) =>
    /\ GoesOn(stored.log)
    /\ handler.step = "save" => GoesOn(handler.copy.log)
    /\ fetch.step = "send" => GoesOn(fetch.copy.log)

\* One that has the latest cursor has as many entries.
ClientHasAll ==
  (~overtaken /\ happened > 0 /\ client.cursor = happened) =>
    /\ Len(client.log) = Len(stored.log)
    /\ handler.step = "save" => Len(client.log) = Len(handler.copy.log)
    /\ fetch.step = "send" => Len(client.log) = Len(fetch.copy.log)

LogInv == DiffsInv /\ LogTypes /\ OneGoroutine /\ ClientHasBeginning /\ ClientHasAll /\ DeltasMakeTheLog

-----------------------------------------------------------------------------
(* The log that an event makes.                                            *)

LEMMA MoreEntries ==
  ASSUME NEW m \in Int, NEW n \in Int, m <= n, NEW entries \in Seq(EntriesUpTo(m))
  PROVE  entries \in Seq(EntriesUpTo(n))
<1>1. (1 .. m) \subseteq 1 .. n
  OBVIOUS
<1>2. EntriesUpTo(m) \subseteq EntriesUpTo(n)
  BY <1>1 DEF EntriesUpTo
<1> QED  BY <1>2

\* The event is shown by the last entry.
LEMMA EventLogged ==
  ASSUME NEW n \in Int, NEW e, LatestOK(e, n), NEW entries \in Seq(EntriesUpTo(n - 1))
  PROVE  /\ ApplyToLog(entries, e) \in Seq(EntriesUpTo(n))
         /\ Len(ApplyToLog(entries, e)) > 0
         /\ n \in ApplyToLog(entries, e)[Len(ApplyToLog(entries, e))].of
<1> DEFINE entry(kind) == [kind |-> kind, exec |-> e.exec, of |-> {e.n} \cup e.covers]
           last == Len(entries)
           grows == last > 0 /\ entries[last].kind = "terminal" /\ entries[last].exec = e.exec
<1>1. n > 0 /\ n \in 1 .. n /\ n - 1 <= n /\ n - 1 \in Int
  BY DEF LatestOK
<1>2. entries \in Seq(EntriesUpTo(n))
  BY <1>1, MoreEntries
<1>3. ASSUME NEW k \in {"terminal", "markdown", "diff"}
      PROVE  entry(k) \in EntriesUpTo(n) /\ n \in entry(k).of
  <2>1. {e.n} \cup e.covers \subseteq 1 .. n
    BY <1>1 DEF LatestOK
  <2> QED  BY <2>1, <1>1 DEF EntriesUpTo, LatestOK
<1>4. ASSUME NEW l \in Seq(EntriesUpTo(n)), NEW k \in {"terminal", "markdown", "diff"},
             ApplyToLog(entries, e) = Append(l, entry(k))
      PROVE  /\ ApplyToLog(entries, e) \in Seq(EntriesUpTo(n))
             /\ Len(ApplyToLog(entries, e)) > 0
             /\ n \in ApplyToLog(entries, e)[Len(ApplyToLog(entries, e))].of
  <2>1. entry(k) \in EntriesUpTo(n) /\ n \in entry(k).of
    BY <1>3
  <2> HIDE DEF entry
  <2>2. /\ Append(l, entry(k)) \in Seq(EntriesUpTo(n))
        /\ Len(Append(l, entry(k))) = Len(l) + 1
        /\ Append(l, entry(k))[Len(l) + 1] = entry(k)
    BY <2>1, AppendProperties
  <2>3. Len(l) \in Nat
    BY LenProperties
  <2> QED  BY <1>4, <2>1, <2>2, <2>3
<1>5. CASE e.kind = "line" /\ grows
  <2> DEFINE new == [entries EXCEPT ![last].of = @ \cup {e.n}]
  <2>1. ApplyToLog(entries, e) = new
    BY <1>5 DEF ApplyToLog
  <2>2. last \in Nat /\ last > 0 /\ entries \in [1 .. last -> EntriesUpTo(n)]
    BY <1>2, <1>5, LenProperties
  <2>3. [entries[last] EXCEPT !.of = @ \cup {e.n}] \in EntriesUpTo(n) /\ n \in [entries[last] EXCEPT !.of = @ \cup {e.n}].of
    <3>1. entries[last] \in EntriesUpTo(n)
      BY <2>2
    <3> QED  BY <3>1, <1>1 DEF EntriesUpTo, LatestOK
  <2>4. new \in [1 .. last -> EntriesUpTo(n)] /\ n \in new[last].of
    BY <2>2, <2>3
  <2>5. new \in Seq(EntriesUpTo(n)) /\ Len(new) = last
    BY <2>2, <2>4, IsASeq, LenProperties
  <2> QED  BY <2>1, <2>2, <2>4, <2>5
<1>6. CASE e.kind = "line" /\ ~grows
  <2>1. ApplyToLog(entries, e) = Append(entries, entry("terminal"))
    BY <1>6 DEF ApplyToLog
  <2> QED  BY <1>2, <1>4, <2>1
<1>7. CASE e.kind = "reply"
  <2>1. ApplyToLog(entries, e) = Append(Without(entries, Superseded(entries, e)), entry("markdown"))
    BY <1>7 DEF ApplyToLog
  <2>2. DOMAIN entries \ Superseded(entries, e) \in SUBSET (1 .. Len(entries))
    BY <1>2, LenProperties
  <2>3. Without(entries, Superseded(entries, e)) \in Seq(EntriesUpTo(n))
    BY <1>2, <2>2, EntriesAtPlaces DEF Without
  <2> QED  BY <1>4, <2>1, <2>3
<1>8. CASE e.kind = "diff"
  <2>1. ApplyToLog(entries, e) = Append(entries, entry("diff"))
    BY <1>8 DEF ApplyToLog
  <2> QED  BY <1>2, <1>4, <2>1
<1> QED  BY <1>5, <1>6, <1>7, <1>8 DEF LatestOK

-----------------------------------------------------------------------------
(* The steps.                                                              *)

LEMMA LogBegins == ProjectionInit => LogInv
<1> SUFFICES ASSUME ProjectionInit PROVE LogInv
  OBVIOUS
<1>1. DiffsInv
  BY DiffsBegin
<1>2. /\ happened = 0 /\ worker.step = "idle" /\ handler.step = "idle" /\ fetch.step = "idle"
      /\ stored.log = << >> /\ worker.copy.log = << >> /\ handler.copy.log = << >> /\ fetch.copy.log = << >>
      /\ client.log = << >> /\ client.cursor = 0 /\ rewritten = FALSE /\ overtaken = FALSE /\ lost = FALSE
  BY DEF ProjectionInit, EmptyProjection
<1>3. Len(<< >>) = 0 /\ << >> \in Seq(EntriesUpTo(SavedUpTo))
  BY EmptySeq
<1>4. LogTypes
  <2>1. happened \in Nat /\ client.cursor \in 0 .. happened
    BY <1>2
  <2>2. /\ stored.log \in Seq(EntriesUpTo(SavedUpTo)) /\ worker.copy.log \in Seq(EntriesUpTo(SavedUpTo))
        /\ handler.copy.log \in Seq(EntriesUpTo(SavedUpTo)) /\ fetch.copy.log \in Seq(EntriesUpTo(SavedUpTo))
        /\ client.log \in Seq(EntriesUpTo(SavedUpTo))
    BY <1>2, <1>3
  <2> QED  BY <1>2, <2>1, <2>2 DEF LogTypes
<1>5. GoesOn(stored.log)
  BY <1>2, <1>3 DEF GoesOn
<1> QED  BY <1>1, <1>2, <1>4, <1>5 DEF LogInv, OneGoroutine, ClientHasBeginning, ClientHasAll, DeltasMakeTheLog

\* Every step but those that start an event, save or send leaves stored log and
\* client alone and reads the stored projection at most.
LEMMA ReadingKeeps ==
  ASSUME LogInv, LogTypes', OneGoroutine',
         UNCHANGED <<happened, client, excuses, lost>>, stored'.log = stored.log,
         handler'.step = "save" => handler'.copy.log = stored.log
                                   \/ (handler.step = "save" /\ handler'.copy.log = handler.copy.log),
         fetch'.step = "send" => fetch'.copy.log = stored.log
                                   \/ (fetch.step = "send" /\ fetch'.copy.log = fetch.copy.log)
  PROVE  (ClientHasBeginning /\ ClientHasAll /\ DeltasMakeTheLog)'
<1> USE DEF LogInv, excuses
<1>1. \A entries : GoesOn(entries)' <=> GoesOn(entries)
  BY DEF GoesOn
<1>2. ClientHasBeginning'
  BY <1>1 DEF ClientHasBeginning
<1>3. ClientHasAll'
  BY DEF ClientHasAll
<1> QED  BY <1>2, <1>3 DEF DeltasMakeTheLog

LEMMA StartKeeps ==
  ASSUME LogInv, WorkerStarts
  PROVE  (LogTypes /\ OneGoroutine /\ ClientHasBeginning /\ ClientHasAll /\ DeltasMakeTheLog)'
<1> USE DEF LogInv
<1>1. PICK e \in Happenings : worker' = [worker EXCEPT !.step = "read", !.e = e]
  BY DEF WorkerStarts
<1>2. /\ worker.step = "idle" /\ happened' = happened + 1 /\ happened \in Nat
      /\ UNCHANGED <<stored, handler, fetch, client, excuses, lost>>
  BY DEF WorkerStarts, LogTypes
<1>3. worker' = [step |-> "read", e |-> e, copy |-> worker.copy]
  BY <1>1 DEF DiffsInv
<1>4. SavedUpTo' = SavedUpTo
  BY <1>2, <1>3 DEF SavedUpTo
<1>5. LatestOK(e, happened + 1)
  <2>1. Known(Execs) \subseteq Execs
    BY DEF Known
  <2>2. e.n = happened + 1 /\ e.exec \in Execs /\ e.kind \in {"line", "reply", "diff"}
    BY <2>1 DEF Happenings
  <2>3. e.covers = {} \/ e.covers = 1 .. happened
    BY DEF Happenings
  <2>4. happened + 1 > 0 /\ (happened + 1) - 1 = happened
    BY <1>2
  <2> QED  BY <2>2, <2>3, <2>4 DEF LatestOK
<1>6. LogTypes'
  <2>1. client'.cursor \in 0 .. happened'
    BY <1>2 DEF LogTypes
  <2>2. worker'.step = "read" /\ worker'.copy = worker.copy /\ LatestOK(worker'.e, happened')
    BY <1>2, <1>3, <1>5
  <2>3. \A n \in {SavedUpTo} : EntriesUpTo(n)' = EntriesUpTo(n)
    BY DEF EntriesUpTo
  <2> QED  BY <1>2, <1>4, <2>1, <2>2, <2>3 DEF LogTypes, excuses
<1>7. ClientHasBeginning'
  BY <1>2 DEF ClientHasBeginning, GoesOn, excuses
<1>8. ClientHasAll'
  BY <1>2 DEF ClientHasAll, LogTypes
<1> QED  BY <1>2, <1>6, <1>7, <1>8 DEF OneGoroutine, DeltasMakeTheLog

LEMMA SaveKeeps ==
  ASSUME LogInv, WorkerSaves
  PROVE  (LogTypes /\ OneGoroutine /\ ClientHasBeginning /\ ClientHasAll /\ DeltasMakeTheLog)'
<1> USE DEF LogInv
<1> DEFINE new == ApplyToLog(worker.copy.log, worker.e)
<1>1. /\ worker.step = "save" /\ UNCHANGED <<happened, handler, fetch, client, lost>>
      /\ worker' = [step |-> "idle", e |-> NoHappening, copy |-> EmptyProjection]
      /\ overtaken' = (overtaken \/ worker.e.n <= client.cursor)
      /\ stored' = Apply(worker.copy, worker.e)
      /\ rewritten' = (rewritten \/ \E i \in DOMAIN client.log :
                         i <= Len(stored'.log) /\ stored'.log[i] # stored.log[i])
  BY DEF WorkerSaves, Saves
<1>2. stored'.log = new
  BY <1>1 DEF Apply
<1>3. /\ happened \in Nat /\ LatestOK(worker.e, happened) /\ worker.e.n = happened /\ happened > 0
      /\ SavedUpTo = happened - 1 /\ SavedUpTo' = happened
      /\ worker'.step = "idle" /\ worker'.copy.log = << >>
  BY <1>1 DEF LogTypes, LatestOK, SavedUpTo, EmptyProjection
<1>4. new \in Seq(EntriesUpTo(happened)) /\ Len(new) > 0 /\ happened \in new[Len(new)].of
  <2>1. worker.copy.log \in Seq(EntriesUpTo(happened - 1)) /\ happened \in Int
    BY <1>3 DEF LogTypes
  <2> QED  BY <1>3, <2>1, EventLogged
<1> HIDE DEF new
<1>5. \A entries : entries \in Seq(EntriesUpTo(SavedUpTo)) => entries \in Seq(EntriesUpTo(happened))
  <2>1. happened - 1 \in Int /\ happened \in Int /\ happened - 1 <= happened
    BY <1>3
  <2> QED  BY <1>3, <2>1, MoreEntries
<1>6. LogTypes'
  <2>1. \A n \in {happened} : EntriesUpTo(n)' = EntriesUpTo(n)
    BY DEF EntriesUpTo
  <2>2. << >> \in Seq(EntriesUpTo(happened))
    BY EmptySeq
  <2>3. overtaken' \in BOOLEAN /\ rewritten' \in BOOLEAN
    BY <1>1
  <2>4. client'.cursor \in 0 .. happened'
    BY <1>1 DEF LogTypes
  <2> QED  BY <1>1, <1>2, <1>3, <1>4, <1>5, <2>1, <2>2, <2>3, <2>4 DEF LogTypes
<1>7. ASSUME ~rewritten', ~overtaken' PROVE GoesOn(new)
  <2>1. GoesOn(stored.log) /\ client.log \in Seq(EntriesUpTo(SavedUpTo)) /\ stored.log \in Seq(EntriesUpTo(SavedUpTo))
    BY <1>1, <1>7 DEF ClientHasBeginning, LogTypes
  <2>2. /\ Len(client.log) \in Nat /\ Len(stored.log) \in Nat /\ Len(new) \in Nat
        /\ DOMAIN client.log = 1 .. Len(client.log)
    BY <2>1, <1>4, LenProperties
  <2>3. \A i \in 1 .. Len(client.log) : i <= Len(new) => new[i] = client.log[i]
    BY <1>1, <1>2, <1>7, <2>1, <2>2 DEF GoesOn
  <2>4. Len(client.log) <= Len(new)
    <3> SUFFICES ASSUME Len(new) < Len(client.log) PROVE FALSE
      BY <2>2
    <3>1. Len(new) \in 1 .. Len(client.log) /\ Len(new) <= Len(new)
      BY <1>4, <2>2
    <3>2. new[Len(new)] = client.log[Len(new)]
      BY <2>3, <3>1
    <3>3. client.log[Len(new)] \in EntriesUpTo(happened - 1)
      BY <1>3, <2>1, <3>1, ElementOfSeq
    <3>4. happened \in 1 .. happened - 1
      BY <1>4, <3>2, <3>3 DEF EntriesUpTo
    <3> QED  BY <1>3, <3>4
  <2> QED  BY <2>3, <2>4 DEF GoesOn
<1>8. ClientHasBeginning'
  <2>1. \A entries : GoesOn(entries)' <=> GoesOn(entries)
    BY <1>1 DEF GoesOn
  <2> SUFFICES ASSUME ~rewritten', ~overtaken'
               PROVE  /\ GoesOn(stored.log)'
                      /\ handler'.step = "save" => GoesOn(handler.copy.log)'
                      /\ fetch'.step = "send" => GoesOn(fetch.copy.log)'
    BY DEF ClientHasBeginning
  <2>2. GoesOn(stored.log)'
    BY <1>1, <1>2, <1>7 DEF GoesOn
  <2>3. ~rewritten /\ ~overtaken
    BY <1>1
  <2> QED  BY <1>1, <2>1, <2>2, <2>3 DEF ClientHasBeginning
<1>9. ClientHasAll'
  <2>1. ~overtaken' => client'.cursor # happened'
    <3>1. client.cursor \in 0 .. happened
      BY DEF LogTypes
    <3>2. ~overtaken' => ~(happened <= client.cursor)
      BY <1>1, <1>3
    <3> QED  BY <1>1, <1>3, <3>1, <3>2
  <2> QED  BY <2>1 DEF ClientHasAll
<1> QED  BY <1>1, <1>6, <1>8, <1>9 DEF OneGoroutine, DeltasMakeTheLog

LEMMA HandlerSaveKeeps ==
  ASSUME LogInv, HandlerSaves
  PROVE  (LogTypes /\ OneGoroutine /\ ClientHasBeginning /\ ClientHasAll /\ DeltasMakeTheLog)'
<1> USE DEF LogInv
<1>1. /\ handler.step = "save" /\ UNCHANGED <<happened, worker, fetch, client, overtaken, lost>>
      /\ handler' = [step |-> "idle", d |-> NoDecision, copy |-> EmptyProjection]
      /\ rewritten' = (rewritten \/ \E i \in DOMAIN client.log :
                         i <= Len(stored'.log) /\ stored'.log[i] # stored.log[i])
  BY DEF HandlerSaves, Saves
<1>2. stored'.log = handler.copy.log
  <2>1. /\ ApplyAutoAcceptance(handler.copy).log = handler.copy.log
        /\ ApplyReview(handler.copy, handler.d).log = handler.copy.log
    BY DEF ApplyAutoAcceptance, ApplyReview, DiffsInv, ReadableOK
  <2> QED  BY <2>1 DEF HandlerSaves, Saves
<1>3. fetch.step # "send"
  BY <1>1 DEF OneGoroutine
<1>4. LogTypes'
  <2>1. SavedUpTo' = SavedUpTo
    BY <1>1 DEF SavedUpTo
  <2>2. \A n \in {SavedUpTo} : EntriesUpTo(n)' = EntriesUpTo(n)
    BY DEF EntriesUpTo
  <2>3. << >> \in Seq(EntriesUpTo(SavedUpTo))
    BY EmptySeq
  <2>4. rewritten' \in BOOLEAN /\ handler'.copy.log = << >>
    BY <1>1 DEF EmptyProjection
  <2> QED  BY <1>1, <1>2, <2>1, <2>2, <2>3, <2>4 DEF LogTypes
<1>5. ClientHasBeginning'
  <2>1. \A entries : GoesOn(entries)' <=> GoesOn(entries)
    BY <1>1 DEF GoesOn
  <2> QED  BY <1>1, <1>2, <1>3, <2>1 DEF ClientHasBeginning
<1>6. ClientHasAll'
  BY <1>1, <1>2, <1>3 DEF ClientHasAll
<1> QED  BY <1>1, <1>3, <1>4, <1>5, <1>6 DEF OneGoroutine, DeltasMakeTheLog

\* The delta of a client that has the beginning of the log is the rest of it.
LEMMA RestOfLog ==
  ASSUME NEW S, NEW entries \in Seq(S), NEW has \in Seq(S), NEW start \in 0 .. Len(entries), Len(has) = start,
         \A i \in 1 .. start : has[i] = entries[i]
  PROVE  has \o SubSeq(entries, start + 1, Len(entries)) = entries
<1>1. Len(entries) \in Nat /\ start \in Nat /\ start <= Len(entries)
  BY LenProperties
<1> DEFINE rest == SubSeq(entries, start + 1, Len(entries))
<1>2. /\ rest \in Seq(S) /\ Len(rest) = Len(entries) - start
      /\ \A i \in 1 .. Len(entries) - start : rest[i] = entries[start + i]
  <2>1. \A i \in start + 1 .. Len(entries) : entries[i] \in S
    BY <1>1, ElementOfSeq
  <2>2. start + 1 \in Int /\ Len(entries) \in Int
    BY <1>1
  <2>3. /\ rest \in Seq(S)
        /\ Len(rest) = IF start + 1 <= Len(entries) THEN Len(entries) - (start + 1) + 1 ELSE 0
        /\ \A i \in 1 .. Len(entries) - (start + 1) + 1 : rest[i] = entries[(start + 1) + i - 1]
    BY <2>1, <2>2, SubSeqProperties
  <2>4. Len(entries) - (start + 1) + 1 = Len(entries) - start
    BY <1>1
  <2>5. \A i \in 1 .. Len(entries) - start : (start + 1) + i - 1 = start + i
    BY <1>1
  <2>6. Len(rest) = Len(entries) - start
    BY <1>1, <2>3
  <2> QED  BY <2>3, <2>4, <2>5, <2>6
<1> HIDE DEF rest
<1>3. /\ has \o rest \in Seq(S) /\ Len(has \o rest) = Len(entries)
      /\ \A i \in 1 .. Len(entries) : (has \o rest)[i] = IF i <= start THEN has[i] ELSE rest[i - start]
  <2>1. Len(has) + Len(rest) = Len(entries)
    BY <1>1, <1>2
  <2> QED  BY <1>2, <2>1, ConcatProperties
<1>4. \A i \in 1 .. Len(entries) : (has \o rest)[i] = entries[i]
  <2> SUFFICES ASSUME NEW i \in 1 .. Len(entries) PROVE (has \o rest)[i] = entries[i]
    OBVIOUS
  <2>1. CASE i <= start
    BY <1>1, <1>3, <2>1
  <2>2. CASE ~(i <= start)
    <3>1. i - start \in 1 .. Len(entries) - start /\ start + (i - start) = i
      BY <1>1, <2>2
    <3> QED  BY <1>2, <1>3, <2>2, <3>1
  <2> QED  BY <2>1, <2>2
<1>5. has \o rest = entries
  BY <1>3, <1>4, SeqEqual
<1> QED  BY <1>5 DEF rest

LEMMA DeltaKeeps ==
  ASSUME LogInv, DeltaSends
  PROVE  (LogTypes /\ OneGoroutine /\ ClientHasBeginning /\ ClientHasAll /\ DeltasMakeTheLog)'
<1> USE DEF LogInv
<1> DEFINE entries == fetch.copy.log
           start == DeltaStart(entries)
           added == SubSeq(entries, start + 1, Len(entries))
           full == start = 0 /\ Len(client.log) > 0
           caught == happened > 0 /\ client.cursor = happened
           S == EntriesUpTo(SavedUpTo)
<1>1. /\ fetch.step = "send"
      /\ client' = [log |-> IF full THEN added ELSE client.log \o added, cursor |-> happened]
      /\ lost' = \/ lost
                 \/ /\ client'.log # entries
                    /\ ~overtaken
                    /\ ~(rewritten /\ Len(client.log) <= Len(entries))
      /\ overtaken' = ((overtaken /\ ~full) \/ entries # stored.log)
      /\ rewritten' = (rewritten /\ ~full)
      /\ fetch' = [step |-> "idle", copy |-> EmptyProjection]
      /\ UNCHANGED <<stored, happened, worker, handler>>
  BY DEF DeltaSends
<1>2. /\ entries \in Seq(S) /\ client.log \in Seq(S) /\ Len(entries) \in Nat /\ Len(client.log) \in Nat
      /\ happened \in Nat /\ client.cursor \in 0 .. happened
  BY LenProperties DEF LogTypes
<1>3. start = IF caught THEN Len(entries) ELSE IF Len(client.log) > Len(entries) THEN 0 ELSE Len(client.log)
  BY <1>2 DEF DeltaStart
<1> HIDE DEF start, S
<1>4. start \in 0 .. Len(entries)
  BY <1>2, <1>3
<1>5. start = 0 => added = entries
  <2>1. SubSeq(entries, 1, Len(entries)) = entries
    <3>1. << >> \in Seq(S) /\ Len(<< >>) = 0 /\ 0 \in 0 .. Len(entries) /\ 0 + 1 = 1
      BY <1>2, EmptySeq
    <3>2. << >> \o SubSeq(entries, 1, Len(entries)) = entries
      BY <1>2, <3>1, RestOfLog
    <3>3. SubSeq(entries, 1, Len(entries)) \in Seq(S)
      BY <1>2, SubSeqProperties, ElementOfSeq
    <3> QED  BY <3>2, <3>3, ConcatEmptySeq
  <2> QED  BY <1>4, <2>1
<1>6. full => client'.log = entries
  BY <1>1, <1>5
<1>7. (~overtaken /\ ~rewritten) => client'.log = entries
  <2> SUFFICES ASSUME ~overtaken, ~rewritten, ~full PROVE client'.log = entries
    BY <1>6
  <2>1. GoesOn(entries)
    BY <1>1 DEF ClientHasBeginning
  <2>2. Len(client.log) = start
    BY <1>1, <1>2, <1>3, <2>1 DEF ClientHasAll, GoesOn
  <2>3. client.log \o added = entries
    BY <1>2, <1>4, <2>1, <2>2, RestOfLog DEF GoesOn
  <2> QED  BY <1>1, <2>3
<1>8. ASSUME ~overtaken, ~full PROVE start = Len(client.log) /\ Len(client.log) <= Len(entries)
  <2>1. caught => Len(client.log) = Len(entries)
    BY <1>1, <1>8 DEF ClientHasAll
  <2> QED  BY <1>2, <1>3, <1>8, <2>1
<1>9. added \in Seq(S) /\ Len(added) = Len(entries) - start
  <2>1. \A i \in start + 1 .. Len(entries) : entries[i] \in S
    BY <1>2, <1>4, ElementOfSeq
  <2>2. start + 1 \in Int /\ Len(entries) \in Int
    BY <1>2, <1>4
  <2>3. /\ added \in Seq(S)
        /\ Len(added) = IF start + 1 <= Len(entries) THEN Len(entries) - (start + 1) + 1 ELSE 0
    BY <2>1, <2>2, SubSeqProperties
  <2> QED  BY <1>2, <1>4, <2>3
<1>10. client'.log \in Seq(S) /\ (~full => Len(client'.log) = Len(client.log) + (Len(entries) - start))
  BY <1>1, <1>2, <1>9, ConcatProperties
<1>11. handler.step = "idle" /\ handler'.step = "idle" /\ fetch'.step = "idle"
  BY <1>1 DEF OneGoroutine
<1>12. LogTypes'
  <2>1. SavedUpTo' = SavedUpTo
    BY <1>1 DEF SavedUpTo
  <2>2. \A n \in {SavedUpTo} : EntriesUpTo(n)' = EntriesUpTo(n)
    BY DEF EntriesUpTo
  <2>3. << >> \in Seq(EntriesUpTo(SavedUpTo)) /\ fetch'.copy.log = << >>
    BY <1>1, EmptySeq DEF EmptyProjection
  <2>4. client'.log \in Seq(EntriesUpTo(SavedUpTo)) /\ client'.cursor = happened
    BY <1>1, <1>10 DEF S
  <2>5. rewritten' \in BOOLEAN /\ overtaken' \in BOOLEAN
    BY <1>1
  <2>6. client'.cursor \in 0 .. happened'
    BY <1>1, <1>2, <2>4
  <2> QED  BY <1>1, <2>1, <2>2, <2>3, <2>4, <2>5, <2>6 DEF LogTypes
<1>13. ClientHasBeginning'
  <2> SUFFICES ASSUME ~rewritten', ~overtaken' PROVE GoesOn(stored.log)'
    BY <1>11 DEF ClientHasBeginning
  <2>1. entries = stored.log /\ (full \/ (~overtaken /\ ~rewritten))
    BY <1>1
  <2>2. client'.log = entries
    BY <1>6, <1>7, <2>1
  <2>3. client'.log = stored'.log /\ Len(stored'.log) \in Nat
    BY <1>1, <1>2, <2>1, <2>2
  <2> QED  BY <2>3 DEF GoesOn
<1>14. ClientHasAll'
  <2> SUFFICES ASSUME ~overtaken' PROVE Len(client'.log) = Len(stored'.log)
    BY <1>11 DEF ClientHasAll
  <2>1. entries = stored'.log /\ (full \/ ~overtaken)
    BY <1>1
  <2>2. CASE full
    BY <1>6, <2>1, <2>2
  <2>3. CASE ~full
    <3>1. Len(client'.log) = Len(client.log) + (Len(entries) - Len(client.log))
      BY <1>8, <1>10, <2>1, <2>3
    <3> QED  BY <1>2, <2>1, <3>1
  <2> QED  BY <2>2, <2>3
<1>15. DeltasMakeTheLog'
  <2> SUFFICES ASSUME client'.log # entries, ~overtaken PROVE rewritten /\ Len(client.log) <= Len(entries)
    BY <1>1 DEF DeltasMakeTheLog
  <2> QED  BY <1>6, <1>7, <1>8 DEF LogTypes
<1> QED  BY <1>11, <1>12, <1>13, <1>14, <1>15 DEF OneGoroutine

LEMMA LogGoesOn == LogInv /\ [ProjectionNext]_projectionVars => LogInv'
<1> SUFFICES ASSUME LogInv, [ProjectionNext]_projectionVars
             PROVE  (LogTypes /\ OneGoroutine /\ ClientHasBeginning /\ ClientHasAll /\ DeltasMakeTheLog)'
  BY DiffsGoOn DEF LogInv
<1> USE DEF LogInv
<1>2. CASE WorkerReads
  <2>1. /\ worker.step = "read" /\ worker' = [step |-> "save", e |-> worker.e, copy |-> stored]
        /\ UNCHANGED <<stored, happened, handler, fetch, client, excuses, lost>>
    BY <1>2 DEF WorkerReads, DiffsInv
  <2>2. SavedUpTo' = SavedUpTo
    BY <2>1 DEF SavedUpTo
  <2>3. LogTypes'
    BY <2>1, <2>2 DEF LogTypes, EntriesUpTo, excuses
  <2>4. OneGoroutine'
    BY <2>1 DEF OneGoroutine
  <2> QED  BY <2>1, <2>3, <2>4, ReadingKeeps
<1>3. ASSUME UNCHANGED <<stored, happened, worker, client, excuses, lost>>,
             handler'.copy.log \in {handler.copy.log, stored.log, << >>},
             fetch'.copy.log \in {fetch.copy.log, stored.log},
             fetch'.step = "send" => handler'.step = "idle",
             handler'.step = "save" => handler'.copy.log = stored.log \/ (handler.step = "save" /\ handler'.copy.log = handler.copy.log),
             fetch'.step = "send" => fetch'.copy.log = stored.log \/ (fetch.step = "send" /\ fetch'.copy.log = fetch.copy.log)
      PROVE  (LogTypes /\ OneGoroutine /\ ClientHasBeginning /\ ClientHasAll /\ DeltasMakeTheLog)'
  <2>1. SavedUpTo' = SavedUpTo
    BY <1>3 DEF SavedUpTo
  <2>2. << >> \in Seq(EntriesUpTo(SavedUpTo))
    BY EmptySeq
  <2>3. LogTypes'
    BY <1>3, <2>1, <2>2 DEF LogTypes, EntriesUpTo, excuses
  <2>4. OneGoroutine'
    BY <1>3 DEF OneGoroutine
  <2> QED  BY <1>3, <2>3, <2>4, ReadingKeeps
<1>4. ASSUME NEW k \in DecisionKinds, NEW f \in Paths, ReviewDecision([kind |-> k, path |-> f])
      PROVE  (LogTypes /\ OneGoroutine /\ ClientHasBeginning /\ ClientHasAll /\ DeltasMakeTheLog)'
  <2>1. /\ handler' = [step |-> "save", d |-> [kind |-> k, path |-> f], copy |-> stored] /\ fetch.step = "idle"
        /\ UNCHANGED <<stored, happened, worker, fetch, client, excuses, lost>>
    BY <1>4 DEF ReviewDecision
  <2> QED  BY <1>3, <2>1
<1>5. ASSUME NEW b \in BOOLEAN, SetPermissionMode(b)
      PROVE  (LogTypes /\ OneGoroutine /\ ClientHasBeginning /\ ClientHasAll /\ DeltasMakeTheLog)'
  <2>1. /\ handler.step = "idle" /\ fetch.step = "idle"
        /\ handler' = [step |-> "read", d |-> handler.d, copy |-> handler.copy] \/ handler' = handler
        /\ UNCHANGED <<stored, happened, worker, fetch, client, excuses, lost>>
    BY <1>5 DEF SetPermissionMode, DiffsInv
  <2> QED  BY <1>3, <2>1
<1>6. CASE HandlerReads
  <2>1. /\ handler.step = "read" /\ handler' = [step |-> "save", d |-> handler.d, copy |-> stored]
        /\ UNCHANGED <<stored, happened, worker, fetch, client, excuses, lost>>
    BY <1>6 DEF HandlerReads, DiffsInv
  <2> QED  BY <1>3, <2>1 DEF OneGoroutine
<1>7. CASE DecisionFails
  <2>1. /\ handler' = [step |-> "idle", d |-> NoDecision, copy |-> EmptyProjection]
        /\ UNCHANGED <<stored, happened, worker, fetch, client, excuses, lost>>
    BY <1>7 DEF DecisionFails
  <2>2. handler'.step = "idle" /\ handler'.copy.log = << >>
    BY <2>1 DEF EmptyProjection
  <2> QED  BY <1>3, <2>1, <2>2
<1>8. CASE DeltaReads
  <2>1. /\ handler.step = "idle" /\ fetch' = [step |-> "send", copy |-> stored]
        /\ UNCHANGED <<stored, happened, worker, handler, client, excuses, lost>>
    BY <1>8 DEF DeltaReads
  <2> QED  BY <1>3, <2>1
<1>9. CASE UNCHANGED projectionVars
  BY <1>3, <1>9 DEF projectionVars, OneGoroutine
<1> QED
  BY <1>2, <1>4, <1>5, <1>6, <1>7, <1>8, <1>9, StartKeeps, SaveKeeps, HandlerSaveKeeps, DeltaKeeps
     DEF ProjectionNext, DecisionKinds

\* session_delta_get: whatever is saved, overwritten or decided between the read
\* of a projection and that of its cursor, and whatever the client had, it ends
\* with the log its delta was made from, unless an entry was rewritten under its
\* count or an event saved under the cursor it had been given.
THEOREM DeltasComplete == ProjectionSpec => []DeltasMakeTheLog
<1>1. LogInv => DeltasMakeTheLog
  BY DEF LogInv
<1> QED  BY <1>1, LogBegins, LogGoesOn, PTL DEF ProjectionSpec

-----------------------------------------------------------------------------
(* A conversation that another tool keeps has one row in the list, for any  *)
(* sessions that run in it or under a name of their own.                    *)

\* What a session's runtime says: nothing before it has run a tool.
Runtimes == [tool : Tools \cup {"none"}, conversation : Tools \cup Resumers \cup {"none"}, named : BOOLEAN]

RuntimesOK ==
  /\ own \in [Resumers -> Runtimes]
  /\ \A s \in Resumers : own[s].tool = "none" => own[s].conversation = "none"

LEMMA RuntimesBegin == MirrorsInit => RuntimesOK
<1> SUFFICES ASSUME MirrorsInit PROVE RuntimesOK
  OBVIOUS
<1>1. PICK r \in Runtimes : r = [tool |-> "none", conversation |-> "none", named |-> FALSE]
  BY DEF Runtimes
<1>2. own = [s \in Resumers |-> r]
  BY <1>1 DEF MirrorsInit
<1> QED  BY <1>1, <1>2 DEF RuntimesOK

LEMMA RuntimesGoOn == RuntimesOK /\ [MirrorsNext]_mirrorVars => RuntimesOK'
<1> SUFFICES ASSUME RuntimesOK, [MirrorsNext]_mirrorVars PROVE RuntimesOK'
  OBVIOUS
<1>1. CASE own' = own
  BY <1>1 DEF RuntimesOK
<1>2. ASSUME NEW t \in Tools, NEW s \in Resumers, NEW b \in BOOLEAN, RunsTool(s, t, b) PROVE RuntimesOK'
  <2>1. own[s] \in Runtimes
    BY DEF RuntimesOK
  <2>2. PICK r \in Runtimes : r = [tool |-> t, conversation |-> IF b THEN s ELSE t, named |-> own[s].named \/ b]
    BY <2>1 DEF Runtimes
  <2>3. own' = [own EXCEPT ![s] = r]
    BY <1>2, <2>2 DEF RunsTool
  <2>4. r.tool # "none"
    BY <2>2 DEF Tools
  <2> QED  BY <2>3, <2>4 DEF RuntimesOK
<1>3. ASSUME NEW t \in Tools,
             LoadMirror(t) \/ (\E b \in BOOLEAN : NativeSays(t, b /\ t = "codex")) \/ NativeChanges(t) \/ LocalEntry(t)
      PROVE  RuntimesOK'
  BY <1>1, <1>3 DEF LoadMirror, NativeSays, NativeChanges, LocalEntry
<1>4. CASE UNCHANGED mirrorVars
  BY <1>1, <1>4 DEF mirrorVars
<1>5. ASSUME NEW t \in Tools, NEW b \in BOOLEAN PROVE (b /\ t = "claude") \in BOOLEAN
  OBVIOUS
<1> QED  BY <1>2, <1>3, <1>4, <1>5 DEF MirrorsNext

LEMMA OneAtMost ==
  ASSUME NEW S, NEW x, S \subseteq {x}
  PROVE  Cardinality(S) <= 1
<1>1. S = {} \/ S = {x}
  OBVIOUS
<1>2. Cardinality({}) = 0
  BY FS_EmptySet
<1>3. Cardinality({x}) = 1
  BY FS_Singleton
<1>4. Cardinality(S) = 0 \/ Cardinality(S) = 1
  BY <1>1, <1>2, <1>3, Zenon
<1> QED  BY <1>4

\* A conversation that a session is in, or has been named for, has no row of
\* its own; one that is found or stored and that no session is in has one, as a
\* mirror or as itself.
LEMMA RowsOf ==
  ASSUME RuntimesOK, NEW c, NEW r \in Rows, r.row # "session", RowConversation(r) = c
  PROVE  /\ c \notin Tracked
         /\ c \in Tools => r = IF mirror[c].stored THEN [row |-> "mirror", of |-> c] ELSE [row |-> "native", of |-> c]
<1>1. r.of = c
  BY DEF RowConversation
<1>2. CASE r \in [row : {"mirror"}, of : {t \in Tools : mirror[t].stored} \ Tracked]
  BY <1>1, <1>2
<1>3. CASE r \in [row : {"native"}, of : ({t \in Tools : native[t].found /\ ~mirror[t].stored}
                                           \cup {s \in Resumers : own[s].named}) \ Tracked]
  <2>1. c \in Tools => c \notin Resumers
    BY MirrorsAssumption DEF Tools
  <2>2. r = [row |-> "native", of |-> c] /\ c \notin Tracked
        /\ c \in {t \in Tools : native[t].found /\ ~mirror[t].stored} \cup {s \in Resumers : own[s].named}
    BY <1>1, <1>3
  <2> QED  BY <2>1, <2>2
<1> QED  BY <1>2, <1>3 DEF Rows

LEMMA SessionsTrack ==
  ASSUME RuntimesOK, NEW c \in Tools \cup Resumers, NEW r \in Rows, r.row = "session", RowConversation(r) = c
  PROVE  c \in Tracked
<1>1. r.of \in Resumers
  BY DEF Rows
<1>2. own[r.of].conversation = c
  BY DEF RowConversation
<1>3. c # "none"
  BY MirrorsAssumption DEF Tools
<1>4. own[r.of].tool # "none"
  BY <1>1, <1>2, <1>3 DEF RuntimesOK
<1> QED  BY <1>1, <1>2, <1>4 DEF Tracked

\* dedupeCodexThreadSummaries leaves one row of a codex thread, and the others
\* as they are.
LEMMA Listed ==
  /\ ListedRows \subseteq Rows
  /\ \A r \in Rows : RowConversation(r) # "codex" => r \in ListedRows
  /\ \A r, q \in ListedRows : RowConversation(r) = "codex" /\ RowConversation(q) = "codex" => r = q
  /\ \A r \in Rows : RowConversation(r) = "codex" => \E q \in ListedRows : RowConversation(q) = "codex"
<1> DEFINE thread == {r \in Rows : RowConversation(r) = "codex"}
           sessions == {r \in thread : r.row = "session"}
           left == CHOOSE r \in thread : sessions # {} => r \in sessions
<1>1. thread # {} => left \in thread
  <2>1. thread # {} => \E r \in thread : sessions # {} => r \in sessions
    OBVIOUS
  <2> QED  BY <2>1
<1>2. ListedRows = (Rows \ thread) \cup (IF thread = {} THEN {} ELSE {left})
  BY DEF ListedRows
<1> HIDE DEF left
<1> QED  BY <1>1, <1>2

LEMMA RowsListedOnce == RuntimesOK => ListedOnce
<1> SUFFICES ASSUME RuntimesOK, NEW c \in Tools \cup {s \in Resumers : own[s].named}
             PROVE  LET rows == {r \in ListedRows : RowConversation(r) = c}
                        sessions == {r \in rows : r.row = "session"}
                    IN /\ c \in Resumers => rows \ sessions = {}
                       /\ sessions # {} => rows = sessions
                       /\ Cardinality(rows \ sessions) <= 1
                       /\ c = "codex" => Cardinality(rows) <= 1
                       /\ (c \in Tools /\ (native[c].found \/ mirror[c].stored)) => rows # {}
  BY DEF ListedOnce
<1> DEFINE rows == {r \in ListedRows : RowConversation(r) = c}
           sessions == {r \in rows : r.row = "session"}
           other == IF mirror[c].stored THEN [row |-> "mirror", of |-> c] ELSE [row |-> "native", of |-> c]
<1>1. ASSUME NEW r \in rows \ sessions PROVE c \notin Tracked /\ (c \in Tools => r = other)
  <2>1. r \in Rows /\ r.row # "session" /\ RowConversation(r) = c
    BY Listed
  <2> QED  BY <2>1, RowsOf
<1>2. ASSUME NEW r \in sessions PROVE c \in Tracked
  BY Listed, SessionsTrack
<1>3. c \in Resumers => c \in Tracked
  BY DEF Tracked
<1>4. c \in Resumers => rows \ sessions = {}
  BY <1>1, <1>3
<1>5. sessions # {} => rows = sessions
  BY <1>1, <1>2
<1>6. Cardinality(rows \ sessions) <= 1
  <2>1. rows \ sessions \subseteq {other}
    BY <1>1, <1>4
  <2> HIDE DEF rows, sessions, other
  <2> QED  BY <2>1, OneAtMost
<1>7. c = "codex" => Cardinality(rows) <= 1
  <2> SUFFICES ASSUME c = "codex" PROVE Cardinality(rows) <= 1
    OBVIOUS
  <2>1. \E x : rows \subseteq {x}
    <3>1. CASE rows = {}
      BY <3>1
    <3>2. CASE rows # {}
      <4>1. PICK x \in rows : TRUE
        BY <3>2
      <4>2. rows \subseteq {x}
        BY <4>1, Listed
      <4> QED  BY <4>2
    <3> QED  BY <3>1, <3>2
  <2> HIDE DEF rows
  <2> QED  BY <2>1, OneAtMost
<1>8. ASSUME c \in Tools, native[c].found \/ mirror[c].stored PROVE rows # {}
  <2>1. PICK r \in Rows : RowConversation(r) = c
    <3>1. CASE c \in Tracked
      <4>1. c \notin Resumers
        BY <1>8, MirrorsAssumption DEF Tools
      <4>2. PICK s \in Resumers : own[s].conversation = c
        BY <3>1, <4>1 DEF Tracked
      <4>3. [row |-> "session", of |-> s] \in Rows
        BY DEF Rows
      <4> QED  BY <4>2, <4>3 DEF RowConversation
    <3>2. CASE c \notin Tracked /\ mirror[c].stored
      <4>1. [row |-> "mirror", of |-> c] \in Rows
        BY <1>8, <3>2 DEF Rows
      <4> QED  BY <4>1 DEF RowConversation
    <3>3. CASE c \notin Tracked /\ ~mirror[c].stored
      <4>1. [row |-> "native", of |-> c] \in Rows
        BY <1>8, <3>3 DEF Rows
      <4> QED  BY <4>1 DEF RowConversation
    <3> QED  BY <3>1, <3>2, <3>3
  <2>2. CASE c = "codex"
    BY <2>1, <2>2, Listed
  <2>3. CASE c # "codex"
    BY <2>1, <2>3, Listed
  <2> QED  BY <2>2, <2>3
<1> QED  BY <1>4, <1>5, <1>6, <1>7, <1>8

\* mergeSessionSummaries and dedupeCodexThreadSummaries give a conversation one
\* row, whatever was resumed, named, stored or lost in whatever order.
THEOREM ConversationListedOnce == MirrorsSpec => []ListedOnce
<1> QED  BY RuntimesBegin, RuntimesGoOn, RowsListedOnce, PTL DEF MirrorsSpec

-----------------------------------------------------------------------------
(* The logs of mirrors: what loads keep and show, for any number of         *)
(* messages, entries and loads.                                             *)

\* e is an entry of s; no entry of s is there twice.
Has(s, e) == \E i \in 1 .. Len(s) : s[i] = e
Once(s) == \A i, j \in 1 .. Len(s) : s[i] = s[j] => i = j

\* The first places of a sequence's entries give each of them once.
LEMMA DistinctEntries ==
  ASSUME NEW S, NEW s \in Seq(S)
  PROVE  /\ Distinct(s) \in Seq(S) /\ Once(Distinct(s))
         /\ \A e : Has(Distinct(s), e) <=> Has(s, e)
<1> DEFINE first == {i \in DOMAIN s : \A j \in 1 .. i - 1 : s[j] # s[i]}
           t == Distinct(s)
           c == Cardinality(first)
<1>1. DOMAIN s = 1 .. Len(s) /\ Len(s) \in Nat
  BY LenProperties
<1>2. first \in SUBSET (1 .. Len(s)) /\ t = EntriesAt(s, first)
  BY <1>1 DEF Distinct
<1>3. \A m, k \in first : s[m] = s[k] => m = k
  <2> SUFFICES ASSUME NEW m \in first, NEW k \in first, s[m] = s[k] PROVE m = k
    OBVIOUS
  <2>1. m \in 1 .. Len(s) /\ k \in 1 .. Len(s)
    BY <1>2
  <2>2. ~(m < k) /\ ~(k < m)
    <3>1. m < k => m \in 1 .. k - 1
      BY <1>1, <2>1
    <3>2. k < m => k \in 1 .. m - 1
      BY <1>1, <2>1
    <3> QED  BY <3>1, <3>2
  <2> QED  BY <1>1, <2>1, <2>2
<1>4. ASSUME NEW e, Has(s, e) PROVE \E m \in first : s[m] = e
  <2> DEFINE places == {i \in 1 .. Len(s) : s[i] = e}
  <2>1. places \in SUBSET Nat /\ places # {}
    BY <1>4 DEF Has
  <2>2. PICK m \in places : \A y \in places : m <= y
    BY <2>1, LeastIs
  <2>3. \A j \in 1 .. m - 1 : s[j] # s[m]
    <3> SUFFICES ASSUME NEW j \in 1 .. m - 1, s[j] = s[m] PROVE FALSE
      OBVIOUS
    <3>1. j \in 1 .. Len(s) /\ ~(m <= j)
      BY <1>1, <2>2
    <3> QED  BY <2>2, <3>1
  <2> QED  BY <1>1, <2>3
<1> HIDE DEF first, t
<1>5. /\ t \in Seq(S) /\ Len(t) = c /\ IsFiniteSet(first)
      /\ \E f \in Bijection(1 .. c, first) : \A i \in 1 .. c : t[i] = s[f[i]]
  BY <1>2, EntriesAtPlaces
<1> HIDE DEF c
<1>6. PICK f \in Bijection(1 .. c, first) : \A i \in 1 .. c : t[i] = s[f[i]]
  BY <1>5
<1>7. /\ \A i \in 1 .. c : f[i] \in first
      /\ \A i, j \in 1 .. c : f[i] = f[j] => i = j
      /\ \A m \in first : \E i \in 1 .. c : f[i] = m
  BY DEF Bijection, Injection, Surjection, IsInjective
<1>8. Once(t)
  BY <1>3, <1>5, <1>6, <1>7 DEF Once
<1>9. ASSUME NEW e PROVE Has(t, e) <=> Has(s, e)
  <2>1. ASSUME Has(s, e) PROVE Has(t, e)
    <3>1. PICK m \in first : s[m] = e
      BY <1>4, <2>1
    <3>2. PICK i \in 1 .. c : f[i] = m
      BY <1>7
    <3> QED  BY <1>5, <1>6, <3>1, <3>2 DEF Has
  <2>2. ASSUME Has(t, e) PROVE Has(s, e)
    <3>1. PICK i \in 1 .. c : t[i] = e
      BY <1>5, <2>2 DEF Has
    <3>2. f[i] \in 1 .. Len(s)
      BY <1>2, <1>7
    <3> QED  BY <1>6, <3>1, <3>2 DEF Has
  <2> QED  BY <2>1, <2>2
<1> QED  BY <1>5, <1>8, <1>9 DEF t

\* mergeSnapshotLogEntries loses no entry and repeats none.
LEMMA MergedEntries ==
  ASSUME NEW S, NEW base \in Seq(S), NEW overlay \in Seq(S), Once(base), Once(overlay)
  PROVE  /\ MergeLog(base, overlay) \in Seq(S) /\ Once(MergeLog(base, overlay))
         /\ \A e : Has(MergeLog(base, overlay), e) <=> Has(base, e) \/ Has(overlay, e)
<1>1. CASE base = << >>
  <2>1. MergeLog(base, overlay) = overlay
    BY <1>1 DEF MergeLog
  <2>2. Len(base) = 0
    BY <1>1, EmptySeq
  <2>3. \A e : ~Has(base, e)
    BY <2>2 DEF Has
  <2> QED  BY <2>1, <2>3
<1>2. CASE base # << >>
  <2> DEFINE new == {j \in DOMAIN overlay : ~(\/ \E i \in DOMAIN base : base[i] = overlay[j]
                                             \/ \E i \in 1 .. j - 1 : overlay[i] = overlay[j])}
             t == EntriesAt(overlay, new)
             c == Cardinality(new)
             b == Len(base)
             all == base \o t
  <2>1. MergeLog(base, overlay) = all
    BY <1>2 DEF MergeLog
  <2>2. DOMAIN base = 1 .. b /\ b \in Nat /\ DOMAIN overlay = 1 .. Len(overlay) /\ Len(overlay) \in Nat
    BY LenProperties
  <2>3. new \in SUBSET (1 .. Len(overlay))
    BY <2>2
  <2>4. \A j \in new : ~Has(base, overlay[j])
    BY <2>2 DEF Has
  <2>5. \A j \in 1 .. Len(overlay) : Has(base, overlay[j]) \/ j \in new
    <3> SUFFICES ASSUME NEW j \in 1 .. Len(overlay), ~Has(base, overlay[j]) PROVE j \in new
      OBVIOUS
    <3>1. \A i \in 1 .. j - 1 : overlay[i] # overlay[j]
      <4> SUFFICES ASSUME NEW i \in 1 .. j - 1, overlay[i] = overlay[j] PROVE FALSE
        OBVIOUS
      <4>1. i \in 1 .. Len(overlay) /\ i # j
        BY <2>2
      <4> QED  BY <4>1 DEF Once
    <3> QED  BY <2>2, <3>1 DEF Has
  <2> HIDE DEF new, t
  <2>6. /\ t \in Seq(S) /\ Len(t) = c /\ IsFiniteSet(new)
        /\ \E f \in Bijection(1 .. c, new) : \A i \in 1 .. c : t[i] = overlay[f[i]]
    BY <2>3, EntriesAtPlaces DEF t
  <2>7. c \in Nat
    BY <2>6, LenProperties
  <2> HIDE DEF c
  <2>8. PICK f \in Bijection(1 .. c, new) : \A i \in 1 .. c : t[i] = overlay[f[i]]
    BY <2>6
  <2>9. /\ \A i \in 1 .. c : f[i] \in new
        /\ \A i, j \in 1 .. c : f[i] = f[j] => i = j
        /\ \A m \in new : \E i \in 1 .. c : f[i] = m
    BY DEF Bijection, Injection, Surjection, IsInjective
  <2>10. /\ all \in Seq(S) /\ Len(all) = b + c
         /\ \A i \in 1 .. b + c : all[i] = IF i <= b THEN base[i] ELSE t[i - b]
    BY <2>6, ConcatProperties
  <2> HIDE DEF all, b
  <2>11. \A i \in 1 .. b : i \in 1 .. b + c /\ all[i] = base[i]
    BY <2>2, <2>7, <2>10
  <2>12. \A i \in 1 .. c : b + i \in 1 .. b + c /\ all[b + i] = overlay[f[i]]
    <3> SUFFICES ASSUME NEW i \in 1 .. c PROVE b + i \in 1 .. b + c /\ all[b + i] = overlay[f[i]]
      OBVIOUS
    <3>1. b + i \in 1 .. b + c /\ ~(b + i <= b) /\ (b + i) - b = i
      BY <2>2, <2>7
    <3> QED  BY <2>8, <2>10, <3>1
  <2>13. \A i \in 1 .. b + c : i \in 1 .. b \/ \E k \in 1 .. c : i = b + k
    <3> SUFFICES ASSUME NEW i \in 1 .. b + c, i \notin 1 .. b PROVE \E k \in 1 .. c : i = b + k
      OBVIOUS
    <3>1. i - b \in 1 .. c /\ i = b + (i - b)
      BY <2>2, <2>7
    <3> QED  BY <3>1
  <2>14. Once(all)
    <3> SUFFICES ASSUME NEW i \in 1 .. b + c, NEW j \in 1 .. b + c, all[i] = all[j] PROVE i = j
      BY <2>10 DEF Once
    <3>1. CASE i \in 1 .. b /\ j \in 1 .. b
      BY <2>11, <3>1 DEF Once, b
    <3>2. ASSUME NEW k \in 1 .. c, NEW m \in 1 .. b PROVE all[b + k] # all[m]
      BY <2>4, <2>9, <2>11, <2>12 DEF Has, b
    <3>3. CASE \E k \in 1 .. c : i = b + k
      <4>1. PICK k \in 1 .. c : i = b + k
        BY <3>3
      <4>2. PICK m \in 1 .. c : j = b + m
        BY <2>13, <3>2, <4>1
      <4>3. f[k] \in 1 .. Len(overlay) /\ f[m] \in 1 .. Len(overlay) /\ overlay[f[k]] = overlay[f[m]]
        BY <2>3, <2>9, <2>12, <4>1, <4>2
      <4> QED  BY <2>9, <4>1, <4>2, <4>3 DEF Once
    <3> QED  BY <2>13, <3>1, <3>2, <3>3
  <2>15. ASSUME NEW e PROVE Has(all, e) <=> Has(base, e) \/ Has(overlay, e)
    <3>1. Has(base, e) => Has(all, e)
      BY <2>10, <2>11 DEF Has, b
    <3>2. Has(overlay, e) => Has(base, e) \/ Has(all, e)
      <4> SUFFICES ASSUME NEW j \in 1 .. Len(overlay), overlay[j] = e, ~Has(base, e) PROVE Has(all, e)
        BY DEF Has
      <4>1. PICK k \in 1 .. c : f[k] = j
        BY <2>5, <2>9
      <4> QED  BY <2>10, <2>12, <4>1 DEF Has
    <3>3. Has(all, e) => Has(base, e) \/ Has(overlay, e)
      <4> SUFFICES ASSUME NEW i \in 1 .. b + c, all[i] = e PROVE Has(base, e) \/ Has(overlay, e)
        BY <2>10 DEF Has
      <4>1. CASE i \in 1 .. b
        BY <2>11, <4>1 DEF Has, b
      <4>2. CASE i \notin 1 .. b
        <5>1. PICK k \in 1 .. c : i = b + k
          BY <2>13, <4>2
        <5> QED  BY <2>3, <2>9, <2>12, <5>1 DEF Has
      <4> QED  BY <4>1, <4>2
    <3> QED  BY <3>1, <3>2, <3>3
  <2> QED  BY <2>1, <2>10, <2>14, <2>15
<1> QED  BY <1>1, <1>2

-----------------------------------------------------------------------------
(* The invariant.                                                          *)

MirrorEntries == [n : Nat, second : 0 .. 2, from : {"native", "prompts", "local"}]
OfThread(n) == \E i \in 1 .. Len(native["codex"].lines) : native["codex"].lines[i].n = n

MirrorTypes ==
  /\ native \in [Tools -> [lines : Seq(MirrorEntries), readable : BOOLEAN, found : BOOLEAN]]
  /\ mirror \in [Tools -> [stored : BOOLEAN, log : Seq(MirrorEntries)]]
  /\ made \in [Tools -> Nat] /\ fresh \in [Tools -> BOOLEAN] /\ excused \in [Tools -> BOOLEAN]

\* Codex's lines; unless excused, a message has one second.
ThreadOK ==
  \A i \in 1 .. Len(native["codex"].lines) :
    LET e == native["codex"].lines[i]
    IN /\ e.n \in 1 .. made["codex"] /\ e.from = "native"
       /\ ~excused["codex"] => e = LineOf(e.n, 1, "native")

\* An entry of the codex mirror is of the thread or of this program, and alone
\* with its number unless excused.
CodexLogOK ==
  LET entries == mirror["codex"].log
  IN /\ Once(entries)
     /\ \A i \in 1 .. Len(entries) :
          /\ entries[i].n \in 1 .. made["codex"]
          /\ (OfThread(entries[i].n) /\ ~excused["codex"]) => entries[i] = LineOf(entries[i].n, 1, "native")
          /\ ~OfThread(entries[i].n) => entries[i] = LineOf(entries[i].n, 1, "local")

LocalKept ==
  \A n \in 1 .. made["codex"] : ~OfThread(n) => Has(mirror["codex"].log, LineOf(n, 1, "local"))

ThreadShown ==
  fresh["codex"] => \A n \in 1 .. made["codex"] : OfThread(n) =>
                      \E i \in 1 .. Len(mirror["codex"].log) : mirror["codex"].log[i].n = n

ClaudeWhole ==
  fresh["claude"] => \/ mirror["claude"].log = native["claude"].lines
                     \/ Len(mirror["claude"].log) > Len(native["claude"].lines)

MirrorInv == MirrorTypes /\ ThreadOK /\ CodexLogOK /\ LocalKept /\ ThreadShown /\ ClaudeWhole

\* What a load takes for the thread has each message, and nothing else.
LEMMA ThreadTaken ==
  ASSUME MirrorInv
  PROVE  /\ CodexLog \in Seq(MirrorEntries) /\ Once(CodexLog)
         /\ \A n : OfThread(n) => \E i \in 1 .. Len(CodexLog) : CodexLog[i].n = n
         /\ \A i \in 1 .. Len(CodexLog) :
              /\ CodexLog[i].n \in 1 .. made["codex"] /\ OfThread(CodexLog[i].n)
              /\ (native["codex"].readable /\ ~excused["codex"]) => CodexLog[i] = LineOf(CodexLog[i].n, 1, "native")
<1> USE DEF MirrorInv
<1> DEFINE L == native["codex"].lines
           numbers == [i \in DOMAIN L |-> [n |-> L[i].n]]
           prompts == Distinct(numbers)
<1>1. L \in Seq(MirrorEntries) /\ DOMAIN L = 1 .. Len(L) /\ Len(L) \in Nat
  <2>1. "codex" \in Tools
    BY DEF Tools
  <2> QED  BY <2>1, LenProperties DEF MirrorTypes
<1>2. /\ RolloutLog \in Seq(MirrorEntries) /\ Once(RolloutLog)
      /\ \A e : Has(RolloutLog, e) <=> Has(L, e)
  BY <1>1, DistinctEntries DEF RolloutLog
<1>3. \A n : OfThread(n) <=> \E i \in 1 .. Len(L) : L[i].n = n
  BY DEF OfThread
<1>4. CASE CodexLog = RolloutLog
  <2>1. ASSUME NEW n, OfThread(n) PROVE \E i \in 1 .. Len(RolloutLog) : RolloutLog[i].n = n
    <3>1. PICK i \in 1 .. Len(L) : L[i].n = n
      BY <1>3, <2>1
    <3>2. Has(RolloutLog, L[i])
      BY <1>2 DEF Has
    <3> QED  BY <3>1, <3>2 DEF Has
  <2>2. ASSUME NEW i \in 1 .. Len(RolloutLog)
        PROVE  /\ RolloutLog[i].n \in 1 .. made["codex"] /\ OfThread(RolloutLog[i].n)
               /\ ~excused["codex"] => RolloutLog[i] = LineOf(RolloutLog[i].n, 1, "native")
    <3>1. Has(RolloutLog, RolloutLog[i])
      BY DEF Has
    <3>2. PICK k \in 1 .. Len(L) : L[k] = RolloutLog[i]
      BY <1>2, <3>1 DEF Has
    <3> QED  BY <1>3, <3>2 DEF ThreadOK
  <2> QED  BY <1>2, <1>4, <2>1, <2>2
<1>5. CASE CodexLog = PromptLog /\ CodexLog # RolloutLog
  <2>1. numbers \in Seq([n : Nat]) /\ Len(numbers) = Len(L)
    <3>1. \A i \in 1 .. Len(L) : L[i].n \in Nat
      <4>1. \A i \in 1 .. Len(L) : L[i] \in MirrorEntries
        BY <1>1, ElementOfSeq
      <4> QED  BY <4>1 DEF MirrorEntries
    <3>2. numbers \in [1 .. Len(L) -> [n : Nat]]
      BY <1>1, <3>1
    <3> HIDE DEF numbers, L
    <3> QED  BY <1>1, <3>2, FunctionIsSeq
  <2>2. /\ prompts \in Seq([n : Nat]) /\ Once(prompts)
        /\ \A e : Has(prompts, e) <=> Has(numbers, e)
    BY <2>1, DistinctEntries
  <2>3. \A i \in 1 .. Len(L) : numbers[i] = [n |-> L[i].n]
    BY <1>1
  <2>4. PromptLog = [i \in DOMAIN prompts |-> LineOf(prompts[i].n, 0, "prompts")]
    BY DEF PromptLog
  <2> HIDE DEF prompts, numbers
  <2>5. /\ DOMAIN prompts = 1 .. Len(prompts) /\ Len(prompts) \in Nat
        /\ \A i \in 1 .. Len(prompts) : prompts[i] \in [n : Nat]
    BY <2>2, LenProperties, ElementOfSeq
  <2>6. PromptLog \in [1 .. Len(prompts) -> MirrorEntries]
    <3>1. \A i \in 1 .. Len(prompts) : LineOf(prompts[i].n, 0, "prompts") \in MirrorEntries
      BY <2>5 DEF LineOf, MirrorEntries
    <3> QED  BY <2>4, <2>5, <3>1
  <2>7. PromptLog \in Seq(MirrorEntries) /\ Len(PromptLog) = Len(prompts)
    BY <2>5, <2>6, FunctionIsSeq
  <2>8. \A i \in 1 .. Len(prompts) : PromptLog[i] = LineOf(prompts[i].n, 0, "prompts") /\ PromptLog[i].n = prompts[i].n
    BY <2>4, <2>5 DEF LineOf
  <2>9. Once(PromptLog)
    <3> SUFFICES ASSUME NEW i \in 1 .. Len(prompts), NEW j \in 1 .. Len(prompts), PromptLog[i] = PromptLog[j]
                 PROVE  i = j
      BY <2>7 DEF Once
    <3>1. prompts[i].n = prompts[j].n
      BY <2>8
    <3>2. prompts[i] = prompts[j]
      BY <2>5, <3>1
    <3> QED  BY <2>2, <3>2 DEF Once
  <2>10. ASSUME NEW n, OfThread(n) PROVE \E i \in 1 .. Len(PromptLog) : PromptLog[i].n = n
    <3>1. PICK i \in 1 .. Len(L) : L[i].n = n
      BY <1>3, <2>10
    <3>2. Has(numbers, [n |-> n])
      BY <2>1, <2>3, <3>1 DEF Has
    <3>3. PICK k \in 1 .. Len(prompts) : prompts[k] = [n |-> n]
      BY <2>2, <3>2 DEF Has
    <3> QED  BY <2>7, <2>8, <3>3
  <2>11. ASSUME NEW i \in 1 .. Len(PromptLog)
         PROVE  PromptLog[i].n \in 1 .. made["codex"] /\ OfThread(PromptLog[i].n)
    <3>1. Has(prompts, prompts[i])
      BY <2>7 DEF Has
    <3>2. PICK k \in 1 .. Len(L) : numbers[k] = prompts[i]
      BY <2>1, <2>2, <3>1 DEF Has
    <3>3. prompts[i].n = L[k].n
      <4>1. prompts[i] = [n |-> L[k].n]
        BY <2>3, <3>2
      <4> HIDE DEF L
      <4> QED  BY <4>1
    <3>4. L[k].n = PromptLog[i].n
      BY <2>7, <2>8, <3>3
    <3> QED  BY <1>3, <3>4 DEF ThreadOK
  <2>12. ~native["codex"].readable \/ Len(PromptLog) = 0
    <3>1. native["codex"].readable => RolloutLog = << >>
      BY <1>5 DEF CodexLog
    <3>2. native["codex"].readable => \A e : ~Has(L, e)
      BY <1>2, <3>1, EmptySeq DEF Has
    <3>3. native["codex"].readable => ~(1 \in 1 .. Len(PromptLog))
      <4> SUFFICES ASSUME native["codex"].readable, 1 \in 1 .. Len(PromptLog) PROVE FALSE
        OBVIOUS
      <4>1. PICK k \in 1 .. Len(L) : L[k].n = PromptLog[1].n
        BY <2>11, <1>3
      <4>2. Has(L, L[k])
        BY DEF Has
      <4> QED  BY <3>2, <4>2
    <3> QED  BY <2>5, <2>7, <3>3
  <2>13. \A i \in 1 .. Len(PromptLog) :
           (native["codex"].readable /\ ~excused["codex"]) => PromptLog[i] = LineOf(PromptLog[i].n, 1, "native")
    BY <2>5, <2>7, <2>12
  <2> QED  BY <1>5, <2>7, <2>9, <2>10, <2>11, <2>13
<1> QED  BY <1>4, <1>5 DEF CodexLog

LEMMA MirrorsBegin == MirrorsInit => MirrorInv
<1> SUFFICES ASSUME MirrorsInit PROVE MirrorInv
  OBVIOUS
<1>1. << >> \in Seq(MirrorEntries) /\ Len(<< >>) = 0 /\ "codex" \in Tools /\ "claude" \in Tools
  BY EmptySeq DEF Tools
<1>2. MirrorTypes
  BY <1>1 DEF MirrorsInit, MirrorTypes, NoMirror
<1>3. /\ native["codex"].lines = << >> /\ mirror["codex"].log = << >> /\ made["codex"] = 0
      /\ fresh["codex"] = FALSE /\ fresh["claude"] = FALSE
  BY <1>1 DEF MirrorsInit, NoMirror
<1> QED
  BY <1>1, <1>2, <1>3 DEF MirrorInv, ThreadOK, CodexLogOK, LocalKept, ThreadShown, ClaudeWhole, Once

\* What the mirrors show, of what the invariant says.
LEMMA MirrorShows == MirrorInv => MirrorComplete
<1> SUFFICES ASSUME MirrorInv PROVE MirrorComplete
  OBVIOUS
<1> USE DEF MirrorInv
<1> DEFINE G == mirror["codex"].log
           places(n) == {i \in DOMAIN G : G[i].n = n}
<1>1. /\ G \in Seq(MirrorEntries) /\ DOMAIN G = 1 .. Len(G) /\ Len(G) \in Nat
      /\ native["codex"].lines \in Seq(MirrorEntries)
      /\ DOMAIN native["codex"].lines = 1 .. Len(native["codex"].lines)
  <2>1. "codex" \in Tools
    BY DEF Tools
  <2> QED  BY <2>1, LenProperties DEF MirrorTypes
<1>2. ASSUME NEW n PROVE IsFiniteSet(places(n)) /\ Cardinality(places(n)) \in Nat
  <2>1. IsFiniteSet(1 .. Len(G))
    BY <1>1, FS_Interval
  <2>2. places(n) \in SUBSET (1 .. Len(G))
    BY <1>1
  <2> HIDE DEF places
  <2> QED  BY <2>1, <2>2, FS_Subset, FS_CardinalityType
<1>3. ASSUME NEW n, \E i \in 1 .. Len(G) : G[i].n = n PROVE Cardinality(places(n)) >= 1
  <2>1. places(n) # {}
    BY <1>1, <1>3
  <2> HIDE DEF places
  <2>2. Cardinality(places(n)) # 0
    BY <1>2, <2>1, FS_EmptySet
  <2> QED  BY <1>2, <2>2
<1>4. ASSUME NEW n, NEW e, \E i \in 1 .. Len(G) : G[i].n = n, \A i \in 1 .. Len(G) : G[i].n = n => G[i] = e
      PROVE  Cardinality(places(n)) = 1
  <2>1. PICK i \in 1 .. Len(G) : G[i].n = n
    BY <1>4
  <2>2. \A j \in 1 .. Len(G) : G[j].n = n => j = i
    BY <1>4, <2>1 DEF CodexLogOK, Once
  <2>3. places(n) = {i}
    BY <1>1, <2>1, <2>2
  <2> HIDE DEF places
  <2> QED  BY <2>3, FS_Singleton
<1>5. ASSUME NEW n \in 1 .. made["codex"]
      PROVE  LET shown == Cardinality(places(n))
             IN /\ ~OfThread(n) => shown = 1
                /\ (OfThread(n) /\ fresh["codex"]) => shown >= 1 /\ (shown = 1 \/ excused["codex"])
  <2>1. ASSUME ~OfThread(n) PROVE Cardinality(places(n)) = 1
    <3>1. \E i \in 1 .. Len(G) : G[i].n = n
      <4>1. PICK i \in 1 .. Len(G) : G[i] = LineOf(n, 1, "local")
        BY <1>5, <2>1 DEF LocalKept, Has
      <4> QED  BY <4>1 DEF LineOf
    <3>2. \A i \in 1 .. Len(G) : G[i].n = n => G[i] = LineOf(n, 1, "local")
      BY <2>1 DEF CodexLogOK
    <3> HIDE DEF places, G
    <3> QED  BY <1>4, <3>1, <3>2
  <2>2. ASSUME OfThread(n), fresh["codex"]
        PROVE  Cardinality(places(n)) >= 1 /\ (Cardinality(places(n)) = 1 \/ excused["codex"])
    <3>1. \E i \in 1 .. Len(G) : G[i].n = n
      BY <2>2 DEF ThreadShown
    <3>2. ~excused["codex"] => \A i \in 1 .. Len(G) : G[i].n = n => G[i] = LineOf(n, 1, "native")
      BY <2>2 DEF CodexLogOK
    <3> HIDE DEF places, G
    <3> QED  BY <1>3, <1>4, <3>1, <3>2
  <2> QED  BY <2>1, <2>2
<1>6. \A n : OfThread(n) <=> \E i \in DOMAIN native["codex"].lines : native["codex"].lines[i].n = n
  BY <1>1 DEF OfThread
<1> QED  BY <1>5, <1>6 DEF MirrorComplete, ClaudeWhole

-----------------------------------------------------------------------------
(* The steps.                                                              *)

LEMMA TwoTools == "codex" \in Tools /\ "claude" \in Tools /\ \A t \in Tools : t # "codex" => t = "claude"
BY DEF Tools

\* The sessions' runtimes do not matter to the logs.
LEMMA MirrorFrame ==
  ASSUME MirrorInv, UNCHANGED <<native, mirror, made, fresh, excused>>
  PROVE  MirrorInv'
<1> USE DEF MirrorInv
<1>1. MirrorTypes'
  BY DEF MirrorTypes
<1>2. \A n : OfThread(n)' <=> OfThread(n)
  BY DEF OfThread
<1>3. ThreadOK' /\ LocalKept' /\ ThreadShown' /\ ClaudeWhole'
  BY <1>2 DEF ThreadOK, LocalKept, ThreadShown, ClaudeWhole
<1>4. CodexLogOK'
  BY <1>2 DEF CodexLogOK
<1> QED  BY <1>1, <1>3, <1>4

LEMMA LoadKeepsMirror ==
  ASSUME MirrorInv, NEW t \in Tools, LoadMirror(t)
  PROVE  MirrorInv'
<1> USE TwoTools DEF MirrorInv
<1>1. UNCHANGED <<native, made>>
  BY DEF LoadMirror
<1>2. CASE ~native[t].found
  <2>1. UNCHANGED <<mirror, fresh, excused>>
    BY <1>2 DEF LoadMirror
  <2> QED
    BY <1>1, <2>1, MirrorFrame
<1>3. CASE native[t].found
  <2> DEFINE new == IF t = "codex" THEN MergedCodexLog(CodexLog, mirror[t].log) ELSE ClaudeLog(ClaudeFileLog, mirror[t].log)
  <2>1. /\ mirror' = [mirror EXCEPT ![t] = [stored |-> TRUE, log |-> new]]
        /\ fresh' = [fresh EXCEPT ![t] = TRUE]
        /\ excused' = [excused EXCEPT ![t] = excused[t] \/ ~native[t].readable]
    BY <1>3 DEF LoadMirror
  <2>2. native[t] \in [lines : Seq(MirrorEntries), readable : BOOLEAN, found : BOOLEAN] /\ mirror[t].log \in Seq(MirrorEntries)
    BY DEF MirrorTypes
  <2>3. \A n : OfThread(n)' <=> OfThread(n)
    BY <1>1 DEF OfThread
  <2>4. CASE t = "claude"
    <3>1. \/ new = native["claude"].lines
          \/ new = mirror["claude"].log /\ Len(new) > Len(native["claude"].lines)
      <4>1. new = ClaudeLog(native["claude"].lines, mirror["claude"].log)
        BY <2>4 DEF ClaudeFileLog
      <4>2. Len(native["claude"].lines) \in Nat /\ Len(mirror["claude"].log) \in Nat
        BY <2>2, <2>4, LenProperties
      <4> QED  BY <4>1, <4>2 DEF ClaudeLog
    <3> HIDE DEF new
    <3>2. new \in Seq(MirrorEntries)
      BY <2>2, <2>4, <3>1
    <3>3. /\ mirror'["codex"] = mirror["codex"] /\ fresh'["codex"] = fresh["codex"] /\ excused'["codex"] = excused["codex"]
          /\ mirror'["claude"].log = new
      BY <2>1, <2>4 DEF MirrorTypes
    <3>4. MirrorTypes'
      BY <1>1, <2>1, <3>2 DEF MirrorTypes
    <3>5. ThreadOK' /\ CodexLogOK' /\ LocalKept' /\ ThreadShown'
      BY <1>1, <2>3, <3>3 DEF ThreadOK, CodexLogOK, LocalKept, ThreadShown
    <3>6. ClaudeWhole'
      BY <1>1, <3>1, <3>3 DEF ClaudeWhole
    <3> QED  BY <3>4, <3>5, <3>6
  <2>5. CASE t = "codex"
    <3> DEFINE G == mirror["codex"].log
    <3>1. /\ CodexLog \in Seq(MirrorEntries) /\ Once(CodexLog)
          /\ \A n : OfThread(n) => \E i \in 1 .. Len(CodexLog) : CodexLog[i].n = n
          /\ \A i \in 1 .. Len(CodexLog) :
               /\ CodexLog[i].n \in 1 .. made["codex"] /\ OfThread(CodexLog[i].n)
               /\ (native["codex"].readable /\ ~excused["codex"]) => CodexLog[i] = LineOf(CodexLog[i].n, 1, "native")
      BY ThreadTaken
    <3>2. new = MergeLog(CodexLog, G) /\ G \in Seq(MirrorEntries) /\ Once(G)
      BY <2>2, <2>5 DEF MergedCodexLog, CodexLogOK
    <3> HIDE DEF new
    <3>3. /\ new \in Seq(MirrorEntries) /\ Once(new)
          /\ \A e : Has(new, e) <=> Has(CodexLog, e) \/ Has(G, e)
      BY <3>1, <3>2, MergedEntries
    <3>4. /\ mirror'["codex"].log = new /\ mirror'["claude"] = mirror["claude"] /\ fresh'["claude"] = fresh["claude"]
          /\ (~excused'["codex"] => native["codex"].readable /\ ~excused["codex"])
      BY <2>1, <2>5 DEF MirrorTypes
    <3>5. MirrorTypes'
      BY <1>1, <2>1, <3>3 DEF MirrorTypes
    <3>6. ThreadOK'
      BY <1>1, <3>4 DEF ThreadOK
    <3>7. CodexLogOK'
      <4> SUFFICES ASSUME NEW i \in 1 .. Len(new)
                   PROVE  /\ new[i].n \in 1 .. made["codex"]
                          /\ (OfThread(new[i].n) /\ ~excused'["codex"]) => new[i] = LineOf(new[i].n, 1, "native")
                          /\ ~OfThread(new[i].n) => new[i] = LineOf(new[i].n, 1, "local")
        BY <1>1, <2>3, <3>3, <3>4 DEF CodexLogOK
      <4>1. Has(CodexLog, new[i]) \/ Has(G, new[i])
        BY <3>3 DEF Has
      <4>2. CASE Has(CodexLog, new[i])
        <5>1. PICK k \in 1 .. Len(CodexLog) : CodexLog[k] = new[i]
          BY <4>2 DEF Has
        <5> QED  BY <3>1, <3>4, <5>1
      <4>3. CASE Has(G, new[i])
        <5>1. PICK k \in 1 .. Len(G) : G[k] = new[i]
          BY <4>3 DEF Has
        <5> QED  BY <3>4, <5>1 DEF CodexLogOK
      <4> QED  BY <4>1, <4>2, <4>3
    <3>8. LocalKept'
      BY <1>1, <2>3, <3>3, <3>4 DEF LocalKept
    <3>9. ThreadShown'
      <4> SUFFICES ASSUME NEW n, OfThread(n) PROVE \E i \in 1 .. Len(new) : new[i].n = n
        BY <2>3, <3>4 DEF ThreadShown
      <4>1. PICK k \in 1 .. Len(CodexLog) : CodexLog[k].n = n
        BY <3>1
      <4>2. Has(new, CodexLog[k])
        BY <3>3 DEF Has
      <4> QED  BY <4>1, <4>2 DEF Has
    <3>10. ClaudeWhole'
      BY <1>1, <3>4 DEF ClaudeWhole
    <3> QED  BY <3>5, <3>6, <3>7, <3>8, <3>9, <3>10
  <2> QED  BY <2>4, <2>5
<1> QED  BY <1>2, <1>3

LEMMA MessageKeepsMirror ==
  ASSUME MirrorInv, NEW t \in Tools, NEW split \in BOOLEAN, split => t = "codex", NativeSays(t, split)
  PROVE  MirrorInv'
<1> USE TwoTools DEF MirrorInv
<1> DEFINE n == made[t] + 1
           line == LineOf(n, 1, "native")
           added == IF t = "claude" THEN <<line>> ELSE <<line, IF split THEN LineOf(n, 2, "native") ELSE line>>
           L == native["codex"].lines
           all == native[t].lines \o added
<1>1. /\ made' = [made EXCEPT ![t] = n]
      /\ native' = [native EXCEPT ![t].lines = all]
      /\ fresh' = [fresh EXCEPT ![t] = FALSE]
      /\ excused' = [excused EXCEPT ![t] = excused[t] \/ split]
      /\ mirror' = mirror
  BY DEF NativeSays
<1>2. native[t] \in [lines : Seq(MirrorEntries), readable : BOOLEAN, found : BOOLEAN] /\ n \in Nat /\ n > 0 /\ made[t] \in Nat
  BY DEF MirrorTypes
<1>3. /\ added \in Seq(MirrorEntries)
      /\ \A i \in 1 .. Len(added) :
           added[i].n = n /\ added[i].from = "native" /\ (~split => added[i] = LineOf(added[i].n, 1, "native"))
      /\ Len(added) \in Nat /\ Len(added) > 0
  <2>1. \A e \in 1 .. 2 : LineOf(n, e, "native") \in MirrorEntries
    BY <1>2 DEF LineOf, MirrorEntries
  <2> HIDE DEF n
  <2>2. line \in MirrorEntries /\ LineOf(n, 2, "native") \in MirrorEntries
    BY <2>1
  <2>3. \A k : LineOf(n, k, "native").n = n /\ LineOf(n, k, "native").from = "native"
    BY DEF LineOf
  <2>4. CASE t = "claude"
    BY <2>2, <2>3, <2>4
  <2>5. CASE t # "claude"
    <3> DEFINE second == IF split THEN LineOf(n, 2, "native") ELSE line
    <3>1. added = <<line, second>> /\ second \in MirrorEntries /\ second.n = n /\ second.from = "native"
          /\ (~split => second = line)
      BY <2>2, <2>3, <2>5
    <3> HIDE DEF second
    <3> QED  BY <2>2, <2>3, <3>1
  <2> QED  BY <2>4, <2>5
<1> HIDE DEF added
<1>4. /\ all \in Seq(MirrorEntries) /\ Len(all) = Len(native[t].lines) + Len(added) /\ Len(native[t].lines) \in Nat
      /\ \A i \in 1 .. Len(native[t].lines) + Len(added) :
           all[i] = IF i <= Len(native[t].lines) THEN native[t].lines[i] ELSE added[i - Len(native[t].lines)]
  BY <1>2, <1>3, ConcatProperties, LenProperties
<1> HIDE DEF all, n
<1>5. MirrorTypes'
  <2>1. native' \in [Tools -> [lines : Seq(MirrorEntries), readable : BOOLEAN, found : BOOLEAN]]
    BY <1>1, <1>4 DEF MirrorTypes
  <2> QED  BY <1>1, <1>2, <2>1 DEF MirrorTypes
<1>6. native'[t].lines = all /\ \A u \in Tools : u # t => native'[u] = native[u]
  BY <1>1 DEF MirrorTypes
<1>7. CASE t = "claude"
  <2>1. /\ native'["codex"] = native["codex"] /\ made'["codex"] = made["codex"] /\ fresh'["codex"] = fresh["codex"]
        /\ excused'["codex"] = excused["codex"] /\ ~fresh'["claude"]
    BY <1>1, <1>6, <1>7 DEF MirrorTypes
  <2>2. \A m : OfThread(m)' <=> OfThread(m)
    BY <2>1 DEF OfThread
  <2>3. ThreadOK' /\ LocalKept' /\ ThreadShown' /\ ClaudeWhole'
    BY <1>1, <2>1, <2>2 DEF ThreadOK, LocalKept, ThreadShown, ClaudeWhole
  <2>4. CodexLogOK'
    BY <1>1, <2>1, <2>2 DEF CodexLogOK
  <2> QED  BY <1>5, <2>3, <2>4
<1>8. CASE t = "codex"
  <2>1. /\ native'["codex"].lines = all /\ native'["claude"] = native["claude"] /\ made'["codex"] = n
        /\ ~fresh'["codex"] /\ fresh'["claude"] = fresh["claude"]
        /\ (~excused'["codex"] => ~excused["codex"] /\ ~split)
    BY <1>1, <1>6, <1>8 DEF MirrorTypes
  <2>2. made["codex"] \in Nat /\ n = made["codex"] + 1
    BY <1>2, <1>8 DEF n
  <2>3. \A i \in 1 .. Len(all) : (i \in 1 .. Len(L) /\ all[i] = L[i])
                                  \/ \E k \in 1 .. Len(added) : all[i] = added[k]
    <3> SUFFICES ASSUME NEW i \in 1 .. Len(all), i \notin 1 .. Len(L) PROVE \E k \in 1 .. Len(added) : all[i] = added[k]
      <4>1. \A i \in 1 .. Len(L) : i \in 1 .. Len(all) => all[i] = L[i]
        BY <1>4, <1>8
      <4> QED  BY <4>1
    <3>1. i - Len(L) \in 1 .. Len(added) /\ ~(i <= Len(L))
      BY <1>3, <1>4, <1>8
    <3> QED  BY <1>4, <1>8, <3>1
  <2>4. \A m : OfThread(m)' <=> OfThread(m) \/ m = n
    <3>1. ASSUME NEW m, OfThread(m)' PROVE OfThread(m) \/ m = n
      <4>1. PICK i \in 1 .. Len(all) : all[i].n = m
        BY <2>1, <3>1 DEF OfThread
      <4> QED  BY <1>3, <2>3, <4>1 DEF OfThread
    <3>2. ASSUME NEW m, OfThread(m) PROVE OfThread(m)'
      <4>1. PICK i \in 1 .. Len(L) : L[i].n = m
        BY <3>2 DEF OfThread
      <4>2. i \in 1 .. Len(all) /\ all[i] = L[i]
        BY <1>3, <1>4, <1>8
      <4> QED  BY <2>1, <4>1, <4>2 DEF OfThread
    <3>3. ASSUME NEW m, m = n PROVE OfThread(m)'
      <4>1. Len(L) + 1 \in 1 .. Len(all) /\ ~(Len(L) + 1 <= Len(L)) /\ (Len(L) + 1) - Len(L) = 1 /\ 1 \in 1 .. Len(added)
        BY <1>3, <1>4, <1>8
      <4>2. all[Len(L) + 1] = added[1] /\ added[1].n = n
        BY <1>3, <1>4, <1>8, <4>1
      <4> QED  BY <2>1, <3>3, <4>1, <4>2 DEF OfThread
    <3> QED  BY <3>1, <3>2, <3>3
  <2>5. ThreadOK'
    <3> SUFFICES ASSUME NEW i \in 1 .. Len(all)
                 PROVE  /\ all[i].n \in 1 .. n /\ all[i].from = "native"
                        /\ ~excused'["codex"] => all[i] = LineOf(all[i].n, 1, "native")
      BY <2>1 DEF ThreadOK
    <3>1. CASE i \in 1 .. Len(L) /\ all[i] = L[i]
      BY <2>1, <2>2, <3>1 DEF ThreadOK
    <3>2. CASE \E k \in 1 .. Len(added) : all[i] = added[k]
      BY <1>2, <1>3, <2>1, <3>2
    <3> QED  BY <2>3, <3>1, <3>2
  <2>6. \A i \in 1 .. made["codex"] : i \in 1 .. n /\ i # n
    BY <2>2
  <2>7. CodexLogOK'
    BY <1>1, <2>1, <2>4, <2>6 DEF CodexLogOK
  <2>8. LocalKept'
    <3>1. \A i \in 1 .. n : i \in 1 .. made["codex"] \/ i = n
      BY <2>2
    <3> QED  BY <1>1, <2>1, <2>4, <3>1 DEF LocalKept
  <2>9. ThreadShown' /\ ClaudeWhole'
    BY <1>1, <2>1 DEF ThreadShown, ClaudeWhole
  <2> QED  BY <1>5, <2>5, <2>7, <2>8, <2>9
<1> QED  BY <1>7, <1>8

LEMMA FilesKeepMirror ==
  ASSUME MirrorInv, NEW t \in Tools, NativeChanges(t)
  PROVE  MirrorInv'
<1> USE TwoTools DEF MirrorInv
<1>1. PICK r \in BOOLEAN, f \in BOOLEAN : native' = [native EXCEPT ![t].readable = r, ![t].found = f]
  BY DEF NativeChanges
<1>2. UNCHANGED <<mirror, made, fresh, excused>>
  BY DEF NativeChanges
<1>3. MirrorTypes'
  BY <1>1, <1>2 DEF MirrorTypes
<1>4. \A u \in Tools : native'[u].lines = native[u].lines
  BY <1>1 DEF MirrorTypes
<1>5. native'["codex"].lines = native["codex"].lines /\ native'["claude"].lines = native["claude"].lines
  BY <1>4
<1>6. \A n : OfThread(n)' <=> OfThread(n)
  BY <1>5 DEF OfThread
<1>7. ThreadOK' /\ LocalKept' /\ ThreadShown' /\ ClaudeWhole'
  BY <1>2, <1>5, <1>6 DEF ThreadOK, LocalKept, ThreadShown, ClaudeWhole
<1>8. CodexLogOK'
  BY <1>2, <1>6 DEF CodexLogOK
<1> QED  BY <1>3, <1>7, <1>8

LEMMA EntryKeepsMirror ==
  ASSUME MirrorInv, NEW t \in Tools, LocalEntry(t)
  PROVE  MirrorInv'
<1> USE TwoTools DEF MirrorInv
<1> DEFINE n == made[t] + 1
           entry == LineOf(n, 1, "local")
           G == mirror[t].log
           all == Append(G, entry)
<1>1. UNCHANGED <<native, fresh, excused>> /\ made' = [made EXCEPT ![t] = n]
  BY DEF LocalEntry
<1>2. made'[t] = n /\ made[t] \in Nat /\ n \in Nat /\ G \in Seq(MirrorEntries)
  BY <1>1 DEF MirrorTypes
<1>3. mirror' = [mirror EXCEPT ![t].log = all]
  BY <1>2 DEF LocalEntry
<1>4. entry \in MirrorEntries /\ entry.n = n
  BY <1>2 DEF LineOf, MirrorEntries
<1> HIDE DEF entry
<1>5. /\ all \in Seq(MirrorEntries) /\ Len(all) = Len(G) + 1 /\ Len(G) \in Nat
      /\ \A i \in 1 .. Len(G) : all[i] = G[i]
      /\ all[Len(G) + 1] = entry
  BY <1>2, <1>4, AppendProperties, LenProperties
<1> HIDE DEF all
<1>6. \A i \in 1 .. Len(all) : (i \in 1 .. Len(G) /\ all[i] = G[i]) \/ (i = Len(G) + 1 /\ all[i] = entry)
  BY <1>5
<1>7. \A i \in 1 .. Len(G) : i \in 1 .. Len(all)
  BY <1>5
<1>8. Len(G) + 1 \in 1 .. Len(all)
  BY <1>5
<1>9. MirrorTypes'
  <2>1. mirror' \in [Tools -> [stored : BOOLEAN, log : Seq(MirrorEntries)]]
    BY <1>3, <1>5 DEF MirrorTypes
  <2> QED  BY <1>1, <1>2, <2>1 DEF MirrorTypes
<1>10. \A m : OfThread(m)' <=> OfThread(m)
  BY <1>1 DEF OfThread
<1>11. mirror'[t].log = all /\ \A u \in Tools : u # t => mirror'[u] = mirror[u] /\ made'[u] = made[u]
  BY <1>1, <1>3 DEF MirrorTypes
<1>12. CASE t = "claude"
  <2>1. mirror'["codex"] = mirror["codex"] /\ made'["codex"] = made["codex"] /\ mirror'["claude"].log = all
    BY <1>11, <1>12
  <2>2. ThreadOK' /\ LocalKept' /\ ThreadShown'
    BY <1>1, <1>10, <2>1 DEF ThreadOK, LocalKept, ThreadShown
  <2>3. CodexLogOK'
    BY <1>1, <1>10, <2>1 DEF CodexLogOK
  <2>4. ClaudeWhole'
    <3>1. Len(native["claude"].lines) \in Nat
      BY LenProperties DEF MirrorTypes
    <3> QED  BY <1>1, <1>5, <1>12, <2>1, <3>1 DEF ClaudeWhole
  <2> QED  BY <1>9, <2>2, <2>3, <2>4
<1>13. CASE t = "codex"
  <2>1. mirror'["claude"] = mirror["claude"] /\ made'["codex"] = n /\ mirror'["codex"].log = all
    BY <1>2, <1>11, <1>13
  <2>2. /\ made["codex"] \in Nat /\ n = made["codex"] + 1 /\ n \in 1 .. n /\ n \notin 1 .. made["codex"]
        /\ \A m \in 1 .. made["codex"] : m \in 1 .. n
        /\ \A m \in 1 .. n : m \in 1 .. made["codex"] \/ m = n
    BY <1>2, <1>13
  <2> HIDE DEF n
  <2>3. ~OfThread(n)
    BY <2>2 DEF OfThread, ThreadOK
  <2>4. \A i \in 1 .. Len(G) : G[i].n # n
    BY <1>13, <2>2 DEF CodexLogOK
  <2>5. ThreadOK'
    BY <1>1, <2>1, <2>2 DEF ThreadOK
  <2>6. Once(all)
    <3> SUFFICES ASSUME NEW i \in 1 .. Len(all), NEW j \in 1 .. Len(all), all[i] = all[j] PROVE i = j
      BY DEF Once
    <3>1. Once(G)
      BY <1>13 DEF CodexLogOK
    <3> QED  BY <1>4, <1>6, <2>4, <3>1 DEF Once
  <2>7. \A i \in 1 .. Len(all) :
          /\ all[i].n \in 1 .. n
          /\ (OfThread(all[i].n) /\ ~excused["codex"]) => all[i] = LineOf(all[i].n, 1, "native")
          /\ ~OfThread(all[i].n) => all[i] = LineOf(all[i].n, 1, "local")
    <3> SUFFICES ASSUME NEW i \in 1 .. Len(all)
                 PROVE  /\ all[i].n \in 1 .. n
                        /\ (OfThread(all[i].n) /\ ~excused["codex"]) => all[i] = LineOf(all[i].n, 1, "native")
                        /\ ~OfThread(all[i].n) => all[i] = LineOf(all[i].n, 1, "local")
      OBVIOUS
    <3>1. CASE i \in 1 .. Len(G) /\ all[i] = G[i]
      BY <1>13, <2>2, <3>1 DEF CodexLogOK
    <3>2. CASE all[i] = entry
      <4>1. all[i].n = n /\ all[i] = LineOf(n, 1, "local")
        BY <1>4, <3>2 DEF entry
      <4> QED  BY <2>2, <2>3, <4>1
    <3> QED  BY <1>6, <3>1, <3>2
  <2>8. CodexLogOK'
    BY <1>1, <1>10, <2>1, <2>6, <2>7 DEF CodexLogOK
  <2>9. LocalKept'
    <3>1. \A e : Has(G, e) => Has(all, e)
      BY <1>6, <1>5, <1>7 DEF Has
    <3>2. Has(all, LineOf(n, 1, "local"))
      BY <1>5, <1>8 DEF Has, entry
    <3>3. \A m \in 1 .. n : ~OfThread(m) => Has(all, LineOf(m, 1, "local"))
      BY <1>13, <2>2, <3>1, <3>2 DEF LocalKept
    <3> QED  BY <1>10, <2>1, <3>3 DEF LocalKept
  <2>10. ThreadShown'
    <3> SUFFICES ASSUME NEW m \in 1 .. n, fresh["codex"], OfThread(m) PROVE \E i \in 1 .. Len(all) : all[i].n = m
      BY <1>1, <1>10, <2>1 DEF ThreadShown
    <3>1. PICK i \in 1 .. Len(G) : G[i].n = m
      BY <1>13, <2>2, <2>3 DEF ThreadShown
    <3> QED  BY <1>5, <1>7, <3>1
  <2>11. ClaudeWhole'
    BY <1>1, <2>1 DEF ClaudeWhole
  <2> QED  BY <1>9, <2>5, <2>8, <2>9, <2>10, <2>11
<1> QED  BY <1>12, <1>13

LEMMA MirrorGoesOn == MirrorInv /\ [MirrorsNext]_mirrorVars => MirrorInv'
<1> SUFFICES ASSUME MirrorInv, [MirrorsNext]_mirrorVars PROVE MirrorInv'
  OBVIOUS
<1>1. CASE UNCHANGED mirrorVars
  BY <1>1, MirrorFrame DEF mirrorVars
<1>2. ASSUME NEW t \in Tools, LoadMirror(t) PROVE MirrorInv'
  BY <1>2, LoadKeepsMirror
<1>3. ASSUME NEW t \in Tools, NEW b \in BOOLEAN, NativeSays(t, b /\ t = "codex") PROVE MirrorInv'
  <2>1. (b /\ t = "codex") \in BOOLEAN
    OBVIOUS
  <2> QED  BY <1>3, <2>1, MessageKeepsMirror
<1>4. ASSUME NEW t \in Tools, NativeChanges(t) PROVE MirrorInv'
  BY <1>4, FilesKeepMirror
<1>5. ASSUME NEW t \in Tools, LocalEntry(t) PROVE MirrorInv'
  BY <1>5, EntryKeepsMirror
<1>6. ASSUME NEW t \in Tools, NEW s \in Resumers, NEW b \in BOOLEAN, RunsTool(s, t, b /\ t = "claude") PROVE MirrorInv'
  BY <1>6, MirrorFrame DEF RunsTool
<1> QED  BY <1>1, <1>2, <1>3, <1>4, <1>5, <1>6 DEF MirrorsNext

\* What this program recorded in a codex mirror outlives every load, what the
\* thread has is shown once, and a claude mirror is its file or has more entries:
\* loadSessionRecord with mergeSnapshotLogEntries, in whatever order the
\* two grow and the files come and go.
THEOREM MirrorsComplete == MirrorsSpec => []MirrorComplete
<1>1. MirrorsSpec => []MirrorInv
  BY MirrorsBegin, MirrorGoesOn, PTL DEF MirrorsSpec
<1> QED  BY <1>1, MirrorShows, PTL

-----------------------------------------------------------------------------
(* The file of the Claude command: what of the log it gets, for any texts   *)
(* and any number of entries, saves and loads.                              *)


LogEntries == [kind : {"user", "markdown", "terminal"}, text : Texts \cup {Part}, from : {"here", "file"}]
FileLines == [kind : {"user", "markdown"}, text : Texts \cup {Part}, by : {"sync", "command"}]

SyncTypes ==
  /\ log \in Seq(LogEntries) /\ count \in Nat /\ file \in Seq(FileLines)
  /\ sync \in [step : {"idle", "read", "write", "mark"}, snap : Seq(LogEntries), count : Nat]
  /\ merge \in [step : {"idle", "merge", "save"}, log : Seq(LogEntries), count : Nat]
  /\ met \in BOOLEAN /\ failed \in BOOLEAN /\ replaced \in BOOLEAN /\ passed \in BOOLEAN

\* Of the lines with the key k, those that a sync has written; of the first c
\* entries of the log, those said here that it writes.
Written(k) == {i \in 1 .. Len(file) : file[i].by = "sync" /\ DedupKey(file[i]) = k}
Said(k, c) == {i \in 1 .. c : log[i].from = "here" /\ DedupKey(log[i]) = k /\ log[i].kind # "terminal"}
FileHas(c) == \A k : Cardinality(Written(k)) = Cardinality(Said(k, c))

\* While nothing of what the property leaves out has happened.
Undisturbed == ~met /\ ~failed /\ ~replaced /\ ~passed

\* What is beyond the count was said here.
CountOK == count <= Len(log) /\ \A i \in 1 .. Len(log) : count < i => log[i].from = "here"

WorkerOK ==
  sync.step # "idle" =>
    /\ merge.step = "idle" /\ sync.snap = log
    /\ sync.step = "write" => sync.count = count

LoadOK ==
  /\ merge.step = "merge" => merge.log = log
  /\ merge.step = "save" =>
       /\ merge.count = Len(merge.log) /\ Len(log) <= Len(merge.log)
       /\ \A i \in 1 .. Len(log) : merge.log[i] = log[i]
       /\ \A i \in 1 .. Len(merge.log) : Len(log) < i => merge.log[i].from = "file"

FileOK == IF sync.step = "mark" THEN FileHas(Len(log)) ELSE FileHas(count)

SyncInv == SyncTypes /\ (Undisturbed => CountOK /\ WorkerOK /\ LoadOK /\ FileOK)

LEMMA SyncBegins == ClaudeSyncInit => SyncInv
<1> SUFFICES ASSUME ClaudeSyncInit PROVE SyncInv
  OBVIOUS
<1> USE DEF ClaudeSyncInit, NoSync, NoMerge
<1>1. << >> \in Seq(LogEntries) /\ << >> \in Seq(FileLines) /\ Len(<< >>) = 0
  BY EmptySeq
<1>2. SyncTypes
  BY <1>1 DEF SyncTypes
<1>3. \A k : Written(k) = {} /\ Said(k, 0) = {}
  BY <1>1 DEF Written, Said
<1>4. FileOK
  BY <1>3 DEF FileOK, FileHas
<1> QED  BY <1>1, <1>2, <1>4 DEF SyncInv, CountOK, WorkerOK, LoadOK

LEMMA SyncShows == SyncInv => SyncedExactlyOnce
<1> SUFFICES ASSUME SyncInv, Undisturbed, sync.step # "mark", NEW k
             PROVE  Cardinality({i \in DOMAIN file : file[i].by = "sync" /\ DedupKey(file[i]) = k})
                      = Cardinality({i \in 1 .. count : log[i].from = "here" /\ DedupKey(log[i]) = k
                                                          /\ log[i].kind # "terminal"})
  BY DEF SyncedExactlyOnce, Undisturbed
<1>1. DOMAIN file = 1 .. Len(file)
  BY LenProperties DEF SyncInv, SyncTypes
<1>2. FileHas(count)
  BY DEF SyncInv, FileOK
<1> QED  BY <1>1, <1>2 DEF FileHas, Written, Said

-----------------------------------------------------------------------------
(* The steps.                                                              *)

\* What is to be written is well formed.
LEMMA ExtractedTypes ==
  ASSUME NEW entries \in Seq(LogEntries), NEW start \in Nat
  PROVE  LET events == ExtractJSONLEvents(entries, start)
         IN /\ events \in Seq(LogEntries) /\ Len(events) \in Nat
            /\ \A i \in 1 .. Len(events) : events[i].kind \in {"user", "markdown"}
<1> DEFINE K == {i \in start + 1 .. Len(entries) : entries[i].kind \in {"user", "markdown"}}
           c == Cardinality(K)
           events == EntriesAt(entries, K)
<1>1. Len(entries) \in Nat
  BY LenProperties
<1>2. K \in SUBSET (1 .. Len(entries))
  BY <1>1
<1>3. \A i \in K : entries[i].kind \in {"user", "markdown"}
  OBVIOUS
<1>4. ExtractJSONLEvents(entries, start) = events
  BY DEF ExtractJSONLEvents
<1> HIDE DEF K, events
<1>5. /\ events \in Seq(LogEntries) /\ Len(events) = c
      /\ \E f \in Bijection(1 .. c, K) : \A i \in 1 .. c : events[i] = entries[f[i]]
  BY <1>2, EntriesAtPlaces DEF events
<1> HIDE DEF c
<1>6. PICK f \in Bijection(1 .. c, K) : \A i \in 1 .. c : events[i] = entries[f[i]]
  BY <1>5
<1>7. \A i \in 1 .. c : f[i] \in K
  BY DEF Bijection, Injection
<1>8. Len(events) \in Nat
  BY <1>5, LenProperties
<1> QED  BY <1>3, <1>4, <1>5, <1>6, <1>7, <1>8

LEMMA LinesTypes ==
  ASSUME NEW n \in Nat, NEW entries \in [1 .. n -> LogEntries],
         \A i \in 1 .. n : entries[i].kind \in {"user", "markdown"}
  PROVE  /\ Lines(entries) \in Seq(FileLines) /\ Len(Lines(entries)) = n
         /\ \A i \in 1 .. n : Lines(entries)[i].by = "sync" /\ DedupKey(Lines(entries)[i]) = DedupKey(entries[i])
<1>1. \A i \in 1 .. n : Lines(entries)[i] = Line(entries[i], "sync")
  BY DEF Lines
<1>2. \A i \in 1 .. n : Line(entries[i], "sync") \in FileLines
  BY DEF Line, LogEntries, FileLines
<1>3. Lines(entries) \in [1 .. n -> FileLines]
  <2>1. DOMAIN entries = 1 .. n
    OBVIOUS
  <2> QED  BY <1>2, <2>1 DEF Lines
<1>4. Lines(entries) \in Seq(FileLines) /\ Len(Lines(entries)) = n
  BY <1>3, FunctionIsSeq
<1>5. \A i \in 1 .. n : Lines(entries)[i].by = "sync" /\ Lines(entries)[i].kind = entries[i].kind
                            /\ Lines(entries)[i].text = entries[i].text
  <2> SUFFICES ASSUME NEW i \in 1 .. n
               PROVE  Lines(entries)[i].by = "sync" /\ Lines(entries)[i].kind = entries[i].kind
                        /\ Lines(entries)[i].text = entries[i].text
    OBVIOUS
  <2>1. Lines(entries)[i] = Line(entries[i], "sync")
    BY <1>1
  <2> QED  BY <2>1 DEF Line
<1> QED  BY <1>4, <1>5 DEF DedupKey

LEMMA SeqIsFunction ==
  ASSUME NEW S, NEW s \in Seq(S)
  PROVE  s \in [1 .. Len(s) -> S] /\ Len(s) \in Nat
BY LenProperties

\* WriteSessionToJSONL: the file gets each entry beyond the count that was said
\* here and is not the terminal's.
LEMMA WriteKeepsSync ==
  ASSUME SyncInv, SyncWrites
  PROVE  SyncInv'
<1> USE DEF SyncInv
<1> DEFINE events == ExtractJSONLEvents(sync.snap, sync.count)
<1>1. /\ sync.step = "write" /\ file' = file \o Lines(events)
      /\ sync' = (IF events = << >> THEN NoSync ELSE [sync EXCEPT !.step = "mark"])
      /\ UNCHANGED <<log, count, managed, merge, said, met, failed, replaced, passed>>
  BY DEF SyncWrites
<1>2. sync.snap \in Seq(LogEntries) /\ sync.count \in Nat /\ Len(file) \in Nat /\ file \in Seq(FileLines)
  BY LenProperties DEF SyncTypes
<1>3. /\ events \in Seq(LogEntries) /\ Len(events) \in Nat
      /\ \A i \in 1 .. Len(events) : events[i].kind \in {"user", "markdown"}
  BY <1>2, ExtractedTypes
<1> HIDE DEF events
<1>4. /\ Lines(events) \in Seq(FileLines) /\ Len(Lines(events)) = Len(events)
      /\ \A i \in 1 .. Len(events) : Lines(events)[i].by = "sync" /\ DedupKey(Lines(events)[i]) = DedupKey(events[i])
  BY <1>3, SeqIsFunction, LinesTypes
<1>5. /\ file' \in Seq(FileLines) /\ Len(file') = Len(file) + Len(events)
      /\ \A i \in 1 .. Len(file) + Len(events) :
           file'[i] = IF i <= Len(file) THEN file[i] ELSE Lines(events)[i - Len(file)]
  <2> DEFINE lines == Lines(events)
  <2>1. lines \in Seq(FileLines) /\ Len(lines) = Len(events) /\ file' = file \o lines
    BY <1>1, <1>4
  <2> HIDE DEF lines
  <2>2. /\ file \o lines \in Seq(FileLines) /\ Len(file \o lines) = Len(file) + Len(lines)
        /\ \A i \in 1 .. Len(file) + Len(lines) :
             (file \o lines)[i] = IF i <= Len(file) THEN file[i] ELSE lines[i - Len(file)]
    BY <1>2, <2>1, ConcatProperties
  <2> QED  BY <2>1, <2>2 DEF lines
<1>6. SyncTypes'
  <2>1. sync' \in [step : {"idle", "read", "write", "mark"}, snap : Seq(LogEntries), count : Nat]
    <3>1. << >> \in Seq(LogEntries)
      BY EmptySeq
    <3> QED  BY <1>1, <3>1 DEF SyncTypes, NoSync
  <2> QED  BY <1>1, <1>5, <2>1 DEF SyncTypes
<1>7. ASSUME Undisturbed' PROVE CountOK' /\ WorkerOK' /\ LoadOK' /\ FileOK'
  <2>1. CountOK /\ WorkerOK /\ LoadOK /\ FileOK
    BY <1>1, <1>7 DEF Undisturbed
  <2>2. sync.snap = log /\ sync.count = count /\ merge.step = "idle" /\ FileHas(count)
    BY <1>1, <2>1 DEF WorkerOK, FileOK
  <2>3. CountOK' /\ LoadOK'
    BY <1>1, <2>1 DEF CountOK, LoadOK
  <2>4. WorkerOK'
    <3>1. sync'.step = "idle" \/ (sync'.step = "mark" /\ sync'.snap = log)
      BY <1>1, <2>2 DEF NoSync, SyncTypes
    <3> QED  BY <1>1, <2>2, <3>1 DEF WorkerOK
  <2> DEFINE K == {i \in count + 1 .. Len(log) : log[i].kind \in {"user", "markdown"}}
             c == Cardinality(K)
  <2>5. log \in Seq(LogEntries) /\ Len(log) \in Nat /\ count \in Nat /\ count <= Len(log)
        /\ \A i \in 1 .. Len(log) : log[i].kind \in {"user", "markdown", "terminal"}
    <3>1. log \in Seq(LogEntries) /\ Len(log) \in Nat /\ count \in Nat /\ count <= Len(log)
      BY <2>1, LenProperties DEF CountOK, SyncTypes
    <3>2. \A i \in 1 .. Len(log) : log[i] \in LogEntries
      BY <3>1, ElementOfSeq
    <3> QED  BY <3>1, <3>2 DEF LogEntries
  <2>6. K \in SUBSET (1 .. Len(log)) /\ events = EntriesAt(log, K)
    BY <2>2, <2>5 DEF events, ExtractJSONLEvents
  <2>7. \A i \in K : i \in 1 .. Len(log) /\ count < i /\ log[i].kind # "terminal" /\ log[i].from = "here"
    BY <2>1, <2>5 DEF CountOK
  <2>8. \A i \in 1 .. Len(log) : count < i /\ log[i].kind # "terminal" => i \in K
    BY <2>5
  <2> HIDE DEF K
  <2>9. /\ Len(events) = c /\ IsFiniteSet(K)
        /\ \E f \in Bijection(1 .. c, K) : \A i \in 1 .. c : events[i] = log[f[i]]
    BY <2>5, <2>6, EntriesAtPlaces
  <2>10. c \in Nat
    BY <1>3, <2>9
  <2> HIDE DEF c
  <2>11. PICK f \in Bijection(1 .. c, K) : \A i \in 1 .. c : events[i] = log[f[i]]
    BY <2>9
  <2>12. /\ \A i \in 1 .. c : f[i] \in K
         /\ \A i, j \in 1 .. c : f[i] = f[j] => i = j
         /\ \A m \in K : \E i \in 1 .. c : f[i] = m
    BY DEF Bijection, Injection, Surjection, IsInjective
  <2> DEFINE b == Len(file)
  <2>13. ASSUME NEW k
         PROVE  Cardinality(Written(k))' = Cardinality(Said(k, Len(log)))
    <3> DEFINE more == {m \in K : DedupKey(log[m]) = k}
               lines == {i \in b + 1 .. b + c : DedupKey(file'[i]) = k}
               g == [i \in lines |-> f[i - b]]
    <3>1. \A i \in 1 .. c : /\ b + i \in b + 1 .. b + c
                             /\ file'[b + i].by = "sync" /\ DedupKey(file'[b + i]) = DedupKey(log[f[i]])
      <4> SUFFICES ASSUME NEW i \in 1 .. c
                   PROVE  /\ b + i \in b + 1 .. b + c
                          /\ file'[b + i].by = "sync" /\ DedupKey(file'[b + i]) = DedupKey(log[f[i]])
        OBVIOUS
      <4>1. b + i \in 1 .. b + c /\ b + i \in b + 1 .. b + c /\ ~(b + i <= b) /\ (b + i) - b = i
        BY <1>2, <2>10
      <4>2. file'[b + i] = Lines(events)[i]
        BY <1>5, <2>9, <4>1
      <4> QED  BY <1>4, <2>9, <2>11, <4>1, <4>2
    <3>2. \A i \in b + 1 .. b + c : i - b \in 1 .. c /\ i = b + (i - b) /\ i \in 1 .. b + c /\ i \notin 1 .. b
      BY <1>2, <2>10
    <3>3. \A i \in 1 .. b + c : i \in 1 .. b \/ i \in b + 1 .. b + c
      BY <1>2, <2>10
    <3>4. \A i \in 1 .. b : i \in 1 .. b + c /\ file'[i] = file[i]
      <4>1. \A i \in 1 .. b : i \in 1 .. b + c /\ i <= b
        BY <1>2, <2>10
      <4> QED  BY <1>5, <2>9, <4>1
    <3>5. \A i \in b + 1 .. b + c : file'[i].by = "sync" /\ DedupKey(file'[i]) = DedupKey(log[f[i - b]])
      BY <3>1, <3>2
    <3>6. Written(k)' = Written(k) \cup lines /\ Written(k) \cap lines = {}
      <4>1. Len(file') = b + c
        BY <1>5, <2>9
      <4>2. \A i : i \in Written(k)' <=> i \in 1 .. b + c /\ file'[i].by = "sync" /\ DedupKey(file'[i]) = k
        BY <4>1 DEF Written, DedupKey
      <4>3. \A i : i \in Written(k) <=> i \in 1 .. b /\ file[i].by = "sync" /\ DedupKey(file[i]) = k
        BY DEF Written
      <4>4. \A i : i \in lines <=> i \in b + 1 .. b + c /\ DedupKey(file'[i]) = k
        OBVIOUS
      <4> HIDE DEF lines, b
      <4>5. \A i : i \in Written(k)' <=> i \in Written(k) \cup lines
        BY <3>2, <3>3, <3>4, <3>5, <4>2, <4>3, <4>4
      <4>6. \A i : ~(i \in Written(k) /\ i \in lines)
        BY <3>2, <4>3, <4>4
      <4> QED  BY <4>5, <4>6
    <3>7. Said(k, Len(log)) = Said(k, count) \cup more /\ Said(k, count) \cap more = {}
      <4>1. \A i \in 1 .. Len(log) : i \in 1 .. count \/ (count < i /\ i \notin 1 .. count)
        BY <2>5
      <4>2. \A i \in 1 .. count : i \in 1 .. Len(log) /\ ~(count < i)
        BY <2>5
      <4> QED  BY <2>7, <2>8, <4>1, <4>2 DEF Said
    <3>8. /\ IsFiniteSet(Written(k)) /\ IsFiniteSet(Said(k, count)) /\ IsFiniteSet(lines) /\ IsFiniteSet(more)
      <4>1. IsFiniteSet(1 .. b) /\ IsFiniteSet(1 .. count) /\ IsFiniteSet(b + 1 .. b + c)
        <5>1. b \in Int /\ count \in Int /\ b + 1 \in Int /\ b + c \in Int /\ 1 \in Int
          BY <1>2, <2>5, <2>10
        <5> HIDE DEF b
        <5> QED  BY <5>1, FS_Interval
      <4>2. Written(k) \in SUBSET (1 .. b) /\ Said(k, count) \in SUBSET (1 .. count)
        BY DEF Written, Said
      <4>3. lines \in SUBSET (b + 1 .. b + c) /\ more \in SUBSET K
        OBVIOUS
      <4> HIDE DEF lines, more, b
      <4> QED  BY <2>9, <4>1, <4>2, <4>3, FS_Subset
    <3>9. g \in Bijection(lines, more)
      <4>1. \A i \in lines : i - b \in 1 .. c /\ DedupKey(log[f[i - b]]) = k /\ i = b + (i - b)
        BY <3>2, <3>5
      <4>2. \A i \in lines : f[i - b] \in more
        BY <2>12, <4>1
      <4>3. \A i, j \in lines : f[i - b] = f[j - b] => i = j
        <5> HIDE DEF lines, b
        <5> SUFFICES ASSUME NEW i \in lines, NEW j \in lines, f[i - b] = f[j - b] PROVE i = j
          OBVIOUS
        <5>1. i - b = j - b
          BY <2>12, <4>1
        <5> QED  BY <4>1, <5>1
      <4>4. \A m \in more : \E i \in lines : f[i - b] = m
        <5> SUFFICES ASSUME NEW m \in more PROVE \E i \in lines : f[i - b] = m
          OBVIOUS
        <5>1. m \in K /\ DedupKey(log[m]) = k
          OBVIOUS
        <5>2. PICK i \in 1 .. c : f[i] = m
          BY <2>12, <5>1
        <5>3. b + i \in lines /\ (b + i) - b = i
          BY <1>2, <2>10, <3>1, <5>1, <5>2
        <5> QED  BY <5>2, <5>3
      <4> HIDE DEF lines, more
      <4> QED  BY <4>2, <4>3, <4>4 DEF Bijection, Injection, Surjection, IsInjective
    <3> HIDE DEF lines, more, g
    <3>10. Cardinality(lines) = Cardinality(more)
      BY <3>8, <3>9, FS_Bijection DEF ExistsBijection
    <3>11. /\ Cardinality(Written(k) \cup lines) = Cardinality(Written(k)) + Cardinality(lines)
           /\ Cardinality(Said(k, count) \cup more) = Cardinality(Said(k, count)) + Cardinality(more)
      <4>1. \A S, T : IsFiniteSet(S) /\ IsFiniteSet(T) /\ S \cap T = {}
                        => Cardinality(S \cup T) = Cardinality(S) + Cardinality(T)
        <5> SUFFICES ASSUME NEW S, NEW T, IsFiniteSet(S), IsFiniteSet(T), S \cap T = {}
                     PROVE  Cardinality(S \cup T) = Cardinality(S) + Cardinality(T)
          OBVIOUS
        <5>1. Cardinality(S) \in Nat /\ Cardinality(T) \in Nat /\ Cardinality({}) = 0
          BY FS_CardinalityType, FS_EmptySet
        <5>2. Cardinality(S \cup T) = Cardinality(S) + Cardinality(T) - Cardinality(S \cap T)
          BY FS_Union
        <5>3. Cardinality(S \cap T) = 0
          BY <5>1
        <5> QED  BY <5>1, <5>2, <5>3
      <4> QED  BY <3>6, <3>7, <3>8, <4>1
    <3>12. Cardinality(Written(k)) = Cardinality(Said(k, count))
      BY <2>2 DEF FileHas
    <3>13. Cardinality(Written(k)') = Cardinality(Written(k) \cup lines)
      BY <3>6
    <3> QED  BY <3>7, <3>10, <3>11, <3>12, <3>13
  <2>14. CASE events # << >>
    <3>1. sync'.step = "mark"
      BY <1>1, <2>14 DEF SyncTypes
    <3>2. FileHas(Len(log))'
      BY <1>1, <2>13 DEF FileHas, Said
    <3> QED  BY <2>3, <2>4, <3>1, <3>2 DEF FileOK
  <2>15. CASE events = << >>
    <3>1. sync'.step = "idle"
      BY <1>1, <2>15 DEF NoSync
    <3>2. Len(events) = 0
      BY <2>15, EmptySeq
    <3>3. Len(file') = Len(file) /\ \A i \in 1 .. Len(file) : file'[i] = file[i]
      BY <1>2, <1>5, <3>2
    <3>4. \A k : Written(k)' = Written(k)
      BY <3>3 DEF Written, DedupKey
    <3>5. FileHas(count)'
      BY <1>1, <2>2, <3>4 DEF FileHas, Said
    <3> QED  BY <2>3, <2>4, <3>1, <3>5 DEF FileOK
  <2> QED  BY <2>14, <2>15
<1> QED  BY <1>6, <1>7

\* An entry at the end of the log changes nothing of what is counted.
LEMMA EntryIsBeyond ==
  ASSUME SyncInv, Undisturbed, NEW e \in LogEntries, e.from = "here", log' = Append(log, e), UNCHANGED <<count, file>>
  PROVE  /\ CountOK'
         /\ (FileHas(count) => FileHas(count)')
<1> USE DEF SyncInv
<1>1. log \in Seq(LogEntries) /\ Len(log) \in Nat /\ count \in Nat
  BY LenProperties DEF SyncTypes
<1>2. Len(log') = Len(log) + 1 /\ log'[Len(log) + 1] = e /\ \A i \in 1 .. Len(log) : log'[i] = log[i]
  BY <1>1, AppendProperties
<1>3. \A i \in 1 .. Len(log') : i \in 1 .. Len(log) \/ i = Len(log) + 1
  BY <1>1, <1>2
<1>4. CountOK'
  BY <1>1, <1>2, <1>3 DEF CountOK
<1>5. \A i \in 1 .. count : log'[i] = log[i]
  BY <1>1, <1>2 DEF CountOK
<1>6. \A k : Said(k, count)' = Said(k, count) /\ Written(k)' = Written(k)
  BY <1>5 DEF Said, Written
<1> QED  BY <1>4, <1>6 DEF FileHas

LEMMA EntriesAreLogged == \A e \in Entries : e \in LogEntries /\ e.from = "here"
BY DEF Entries, LogEntries

LEMMA LoggedTypes ==
  ASSUME SyncTypes, NEW e \in Entries
  PROVE  Logged(e) \in Seq(LogEntries) /\ (Len(Logged(e)) # Len(log) => Logged(e) = Append(log, e))
<1>1. e \in LogEntries /\ log \in Seq(LogEntries) /\ Len(log) \in Nat
  BY EntriesAreLogged, LenProperties DEF SyncTypes
<1>2. CASE Logged(e) = Append(log, e)
  BY <1>1, <1>2, AppendProperties
<1>3. CASE log # << >> /\ Logged(e) = Append(Front(log), e)
  <2>1. Len(log) >= 1
    BY <1>1, <1>3, EmptySeq
  <2>2. \A i \in 1 .. Len(log) - 1 : log[i] \in LogEntries
    BY <1>1, <2>1, ElementOfSeq
  <2>3. Front(log) \in Seq(LogEntries) /\ Len(Front(log)) = Len(log) - 1
    <3>1. 1 \in Int /\ Len(log) - 1 \in Int
      BY <1>1
    <3>2. /\ SubSeq(log, 1, Len(log) - 1) \in Seq(LogEntries)
          /\ Len(SubSeq(log, 1, Len(log) - 1)) = IF 1 <= Len(log) - 1 THEN Len(log) - 1 - 1 + 1 ELSE 0
      BY <2>2, <3>1, SubSeqProperties
    <3> DEFINE part == SubSeq(log, 1, Len(log) - 1)
    <3>3. Front(log) = part
      BY DEF Front
    <3> HIDE DEF part
    <3>4. part \in Seq(LogEntries) /\ Len(part) = IF 1 <= Len(log) - 1 THEN Len(log) - 1 - 1 + 1 ELSE 0
      BY <3>2 DEF part
    <3> QED  BY <1>1, <2>1, <3>3, <3>4
  <2>4. Append(Front(log), e) \in Seq(LogEntries) /\ Len(Append(Front(log), e)) = Len(Front(log)) + 1
    BY <1>1, <2>3, AppendProperties
  <2> QED  BY <1>1, <1>3, <2>3, <2>4
<1> QED  BY <1>2, <1>3 DEF Logged

LEMMA SaveKeepsSync ==
  ASSUME SyncInv, NEW e \in Entries, SyncSaves(e)
  PROVE  SyncInv'
<1> USE DEF SyncInv
<1>1. /\ sync.step = "idle" /\ log' = Logged(e) /\ UNCHANGED <<count, file, merge, failed, passed>>
      /\ replaced' = (replaced \/ Len(log') = Len(log))
      /\ sync' = [step |-> "read", snap |-> log', count |-> 0]
      /\ met' = (met \/ merge.step # "idle")
  BY DEF SyncSaves, Meet
<1>2. log' \in Seq(LogEntries) /\ (Len(log') # Len(log) => log' = Append(log, e)) /\ e \in LogEntries /\ e.from = "here"
  BY <1>1, LoggedTypes, EntriesAreLogged
<1>3. SyncTypes'
  BY <1>1, <1>2 DEF SyncTypes
<1>4. ASSUME Undisturbed' PROVE CountOK' /\ WorkerOK' /\ LoadOK' /\ FileOK'
  <2>1. Undisturbed /\ log' = Append(log, e) /\ merge.step = "idle"
    BY <1>1, <1>2, <1>4 DEF Undisturbed
  <2>2. CountOK' /\ FileHas(count)'
    BY <1>1, <1>2, <2>1, EntryIsBeyond DEF FileOK
  <2>3. WorkerOK' /\ LoadOK'
    BY <1>1, <2>1 DEF WorkerOK, LoadOK
  <2> QED  BY <1>1, <2>2, <2>3 DEF FileOK
<1> QED  BY <1>3, <1>4

LEMMA InputKeepsSync ==
  ASSUME SyncInv, NEW e \in Entries, UserSays(e)
  PROVE  SyncInv'
<1> USE DEF SyncInv
<1>1. /\ log' = Append(log, e) /\ UNCHANGED <<count, file, sync, merge, failed, replaced, passed>>
      /\ met' = (met \/ sync.step # "idle" \/ merge.step # "idle")
  BY DEF UserSays
<1>2. log' \in Seq(LogEntries) /\ e \in LogEntries /\ e.from = "here"
  BY <1>1, EntriesAreLogged, AppendProperties DEF SyncTypes
<1>3. SyncTypes'
  BY <1>1, <1>2 DEF SyncTypes
<1>4. ASSUME Undisturbed' PROVE CountOK' /\ WorkerOK' /\ LoadOK' /\ FileOK'
  <2>1. Undisturbed /\ sync.step = "idle" /\ merge.step = "idle"
    BY <1>1, <1>4 DEF Undisturbed
  <2>2. CountOK' /\ FileHas(count)'
    BY <1>1, <1>2, <2>1, EntryIsBeyond DEF FileOK
  <2> QED  BY <1>1, <2>1, <2>2 DEF FileOK, WorkerOK, LoadOK
<1> QED  BY <1>3, <1>4

LEMMA ReadKeepsSync == SyncInv /\ SyncReads => SyncInv'
<1> SUFFICES ASSUME SyncInv, SyncReads PROVE SyncInv'
  OBVIOUS
<1> USE DEF SyncInv
<1>1. /\ sync.step = "read" /\ sync' = [sync EXCEPT !.step = "write", !.count = count]
      /\ UNCHANGED <<log, count, file, merge, met, failed, replaced, passed>>
  BY DEF SyncReads
<1>2. sync'.step = "write" /\ sync'.snap = sync.snap /\ sync'.count = count
  BY <1>1 DEF SyncTypes
<1>3. SyncTypes'
  BY <1>1 DEF SyncTypes
<1>4. CountOK' = CountOK /\ LoadOK' = LoadOK /\ Undisturbed' = Undisturbed
  BY <1>1 DEF CountOK, LoadOK, Undisturbed
<1>5. WorkerOK => WorkerOK'
  BY <1>1, <1>2 DEF WorkerOK
<1>6. FileOK => FileOK'
  <2>1. \A k : Written(k)' = Written(k) /\ Said(k, count)' = Said(k, count)
    BY <1>1 DEF Written, Said
  <2>2. FileHas(count)' <=> FileHas(count)
    BY <2>1 DEF FileHas
  <2> QED  BY <1>1, <1>2, <2>2 DEF FileOK
<1> QED  BY <1>3, <1>4, <1>5, <1>6

LEMMA FailKeepsSync == SyncInv /\ (SyncWriteFails \/ SyncCrash) => SyncInv'
<1> SUFFICES ASSUME SyncInv, SyncWriteFails \/ SyncCrash PROVE SyncInv'
  OBVIOUS
<1> USE DEF SyncInv
<1>1. failed' = TRUE /\ ~Undisturbed'
  BY DEF SyncWriteFails, SyncCrash, Undisturbed
<1>2. NoSync \in [step : {"idle", "read", "write", "mark"}, snap : Seq(LogEntries), count : Nat]
  BY EmptySeq DEF NoSync
<1>3. NoMerge \in [step : {"idle", "merge", "save"}, log : Seq(LogEntries), count : Nat]
  BY EmptySeq DEF NoMerge
<1>4. CASE SyncCrash
  <2>1. SyncTypes'
    BY <1>1, <1>2, <1>3, <1>4 DEF SyncCrash, SyncTypes
  <2> QED  BY <1>1, <2>1
<1>5. CASE SyncWriteFails
  <2> DEFINE events == ExtractJSONLEvents(sync.snap, sync.count)
  <2>1. /\ events \in Seq(LogEntries) /\ Len(events) \in Nat
        /\ \A i \in 1 .. Len(events) : events[i].kind \in {"user", "markdown"}
    BY ExtractedTypes DEF SyncTypes
  <2>2. /\ \E n \in 0 .. Len(events) - 1 : file' = file \o Lines(SubSeq(events, 1, n))
        /\ sync' = NoSync /\ UNCHANGED <<log, count, merge, met, replaced, passed>>
    BY <1>5 DEF SyncWriteFails
  <2> HIDE DEF events
  <2>3. PICK n \in 0 .. Len(events) - 1 : file' = file \o Lines(SubSeq(events, 1, n))
    BY <2>2
  <2> DEFINE part == SubSeq(events, 1, n)
  <2>4. n \in Nat /\ \A i \in 1 .. n : i \in 1 .. Len(events) /\ events[i] \in LogEntries
    BY <2>1, ElementOfSeq
  <2>5. part \in Seq(LogEntries) /\ Len(part) = n /\ \A i \in 1 .. n : part[i] = events[i]
    <3>1. /\ part \in Seq(LogEntries) /\ Len(part) = IF 1 <= n THEN n - 1 + 1 ELSE 0
          /\ \A i \in 1 .. n - 1 + 1 : part[i] = events[1 + i - 1]
      BY <2>4, SubSeqProperties
    <3> HIDE DEF part
    <3>2. n - 1 + 1 = n /\ (n = 0 \/ 1 <= n) /\ \A i \in 1 .. n : 1 + i - 1 = i
      BY <2>4
    <3> QED  BY <3>1, <3>2
  <2> HIDE DEF part
  <2>6. part \in [1 .. n -> LogEntries] /\ \A i \in 1 .. n : part[i].kind \in {"user", "markdown"}
    BY <2>1, <2>4, <2>5, SeqIsFunction
  <2>7. Lines(part) \in Seq(FileLines)
    BY <2>4, <2>6, LinesTypes
  <2>8. file' = file \o Lines(part)
    BY <2>3 DEF part
  <2>9. file' \in Seq(FileLines)
    BY <2>7, <2>8, ConcatProperties DEF SyncTypes
  <2>10. SyncTypes'
    BY <1>1, <1>2, <2>2, <2>9 DEF SyncTypes
  <2> QED  BY <1>1, <2>10
<1> QED  BY <1>4, <1>5

\* The count takes in the log that was written.
LEMMA MarkKeepsSync == SyncInv /\ SyncMarks => SyncInv'
<1> SUFFICES ASSUME SyncInv, SyncMarks PROVE SyncInv'
  OBVIOUS
<1> USE DEF SyncInv
<1>1. /\ sync.step = "mark" /\ log' = sync.snap /\ count' = Len(sync.snap) /\ sync' = NoSync
      /\ UNCHANGED <<file, merge, met, failed, replaced, passed>>
  BY DEF SyncMarks
<1>2. sync'.step = "idle" /\ NoSync \in [step : {"idle", "read", "write", "mark"}, snap : Seq(LogEntries), count : Nat]
  BY <1>1, EmptySeq DEF NoSync
<1>3. SyncTypes'
  BY <1>1, <1>2, LenProperties DEF SyncTypes
<1>4. ASSUME Undisturbed' PROVE CountOK' /\ WorkerOK' /\ LoadOK' /\ FileOK'
  <2>1. Undisturbed
    BY <1>1, <1>4 DEF Undisturbed
  <2>2. log' = log /\ count' = Len(log) /\ merge.step = "idle" /\ FileHas(Len(log)) /\ Len(log) \in Nat
    BY <1>1, <2>1, LenProperties DEF WorkerOK, FileOK, SyncTypes
  <2>3. FileHas(count)'
    <3>1. \A k : Written(k)' = Written(k) /\ Said(k, count)' = Said(k, Len(log))
      BY <1>1, <2>2 DEF Written, Said
    <3> QED  BY <2>2, <3>1 DEF FileHas
  <2>4. CountOK'
    BY <2>2 DEF CountOK
  <2> QED  BY <1>1, <1>2, <2>2, <2>3, <2>4 DEF FileOK, WorkerOK, LoadOK
<1> QED  BY <1>3, <1>4

\* What a load brings comes from the file.
LEMMA NewTypes ==
  ASSUME file \in Seq(FileLines), NEW entries
  PROVE  LET new == NewInFile(entries)
         IN /\ new \in Seq(LogEntries) /\ Len(new) \in Nat
            /\ \A i \in 1 .. Len(new) : new[i].from = "file"
<1> DEFINE shown == [i \in DOMAIN file |-> [kind |-> file[i].kind, text |-> file[i].text, from |-> "file"]]
           K == {i \in DOMAIN file : DedupKey(file[i]) \notin Keys(entries)
                   /\ ~\E j \in 1 .. i - 1 : DedupKey(file[j]) = DedupKey(file[i])}
           FromFile == {e \in LogEntries : e.from = "file"}
           new == EntriesAt(shown, K)
<1>1. DOMAIN file = 1 .. Len(file) /\ Len(file) \in Nat
  BY LenProperties
<1>2. \A i \in 1 .. Len(file) : [kind |-> file[i].kind, text |-> file[i].text, from |-> "file"] \in FromFile
  <2>1. \A i \in 1 .. Len(file) : file[i] \in FileLines
    BY ElementOfSeq
  <2> QED  BY <2>1 DEF FileLines, LogEntries
<1>3. shown \in [1 .. Len(file) -> FromFile]
  BY <1>1, <1>2
<1>4. NewInFile(entries) = new
  BY DEF NewInFile
<1>5. K \in SUBSET (1 .. Len(file))
  BY <1>1
<1> HIDE DEF shown, K, FromFile
<1>6. shown \in Seq(FromFile) /\ Len(shown) = Len(file)
  BY <1>1, <1>3, FunctionIsSeq
<1>7. new \in Seq(FromFile)
  BY <1>5, <1>6, EntriesAtPlaces
<1> HIDE DEF new
<1>8. Len(new) \in Nat /\ \A i \in 1 .. Len(new) : new[i] \in FromFile
  BY <1>7, LenProperties, ElementOfSeq
<1>9. new \in [1 .. Len(new) -> LogEntries] /\ \A i \in 1 .. Len(new) : new[i].from = "file"
  BY <1>7, <1>8, SeqIsFunction DEF FromFile
<1>10. new \in Seq(LogEntries)
  BY <1>8, <1>9, FunctionIsSeq
<1> QED  BY <1>4, <1>8, <1>9, <1>10

LEMMA LoadReadKeepsSync == SyncInv /\ LoadReads => SyncInv'
<1> SUFFICES ASSUME SyncInv, LoadReads PROVE SyncInv'
  OBVIOUS
<1> USE DEF SyncInv
<1>1. /\ merge' = [step |-> "merge", log |-> log, count |-> 0] /\ met' = (met \/ sync.step # "idle")
      /\ UNCHANGED <<log, count, file, sync, failed, replaced, passed>>
  BY DEF LoadReads, Meet
<1>2. SyncTypes'
  BY <1>1 DEF SyncTypes
<1>3. ASSUME Undisturbed' PROVE CountOK' /\ WorkerOK' /\ LoadOK' /\ FileOK'
  <2>1. Undisturbed /\ sync.step = "idle"
    BY <1>1, <1>3 DEF Undisturbed
  <2>2. \A k : Written(k)' = Written(k) /\ Said(k, count)' = Said(k, count)
    BY <1>1 DEF Written, Said
  <2>3. FileOK'
    BY <1>1, <2>1, <2>2 DEF FileOK, FileHas
  <2>4. CountOK' /\ WorkerOK'
    BY <1>1, <2>1 DEF CountOK, WorkerOK
  <2>5. LoadOK'
    BY <1>1 DEF LoadOK
  <2> QED  BY <2>3, <2>4, <2>5
<1> QED  BY <1>2, <1>3

\* MergeJSONLToSession brings the file's after the log's.
LEMMA MergeKeepsSync == SyncInv /\ LoadMerges => SyncInv'
<1> SUFFICES ASSUME SyncInv, LoadMerges PROVE SyncInv'
  OBVIOUS
<1> USE DEF SyncInv
<1> DEFINE new == NewInFile(merge.log)
           all == merge.log \o new
<1>1. /\ merge.step = "merge" /\ UNCHANGED <<log, count, file, sync, met, failed, replaced, passed>>
      /\ \/ merge' = NoMerge
         \/ merge' = [step |-> "save", log |-> all, count |-> Len(merge.log) + Len(new)]
  BY DEF LoadMerges, MergedCount
<1>2. new \in Seq(LogEntries) /\ Len(new) \in Nat /\ \A i \in 1 .. Len(new) : new[i].from = "file"
  BY NewTypes DEF SyncTypes
<1> HIDE DEF new
<1>3. merge.log \in Seq(LogEntries) /\ Len(merge.log) \in Nat
  BY LenProperties DEF SyncTypes
<1>4. /\ all \in Seq(LogEntries) /\ Len(all) = Len(merge.log) + Len(new)
      /\ \A i \in 1 .. Len(merge.log) + Len(new) :
           all[i] = IF i <= Len(merge.log) THEN merge.log[i] ELSE new[i - Len(merge.log)]
  BY <1>2, <1>3, ConcatProperties
<1> HIDE DEF all
<1>5. \A i \in 1 .. Len(merge.log) : all[i] = merge.log[i]
  BY <1>2, <1>3, <1>4
<1>6. \A i \in 1 .. Len(all) : Len(merge.log) < i => all[i].from = "file"
  <2> SUFFICES ASSUME NEW i \in 1 .. Len(all), Len(merge.log) < i PROVE all[i].from = "file"
    OBVIOUS
  <2>1. i - Len(merge.log) \in 1 .. Len(new) /\ ~(i <= Len(merge.log))
    BY <1>2, <1>3, <1>4
  <2> QED  BY <1>2, <1>4, <2>1
<1>7. SyncTypes'
  <2>1. NoMerge \in [step : {"idle", "merge", "save"}, log : Seq(LogEntries), count : Nat]
    BY EmptySeq DEF NoMerge
  <2> QED  BY <1>1, <1>2, <1>3, <1>4, <2>1 DEF SyncTypes
<1>8. ASSUME Undisturbed' PROVE CountOK' /\ WorkerOK' /\ LoadOK' /\ FileOK'
  <2>1. Undisturbed
    BY <1>1, <1>8 DEF Undisturbed
  <2>2. merge.log = log
    BY <1>1, <2>1 DEF LoadOK
  <2>3. sync.step = "idle"
    BY <1>1, <2>1 DEF WorkerOK
  <2>4. \A k : Written(k)' = Written(k) /\ Said(k, count)' = Said(k, count)
    BY <1>1 DEF Written, Said
  <2>5. FileOK'
    BY <1>1, <2>1, <2>3, <2>4 DEF FileOK, FileHas
  <2>6. CountOK' /\ WorkerOK'
    BY <1>1, <2>1, <2>3 DEF CountOK, WorkerOK
  <2>7. CASE merge' = NoMerge
    BY <2>5, <2>6, <2>7 DEF LoadOK, NoMerge
  <2>8. CASE merge' = [step |-> "save", log |-> all, count |-> Len(merge.log) + Len(new)]
    <3>1. merge'.step = "save" /\ merge'.log = all /\ merge'.count = Len(all)
      BY <1>4, <2>8
    <3>2. Len(log) <= Len(all)
      BY <1>2, <1>3, <1>4, <2>2
    <3>3. LoadOK'
      BY <1>1, <1>5, <1>6, <2>2, <3>1, <3>2 DEF LoadOK
    <3> QED  BY <2>5, <2>6, <3>3
  <2> QED  BY <1>1, <2>7, <2>8
<1> QED  BY <1>7, <1>8

\* Nothing that is to be written is beyond the count when a load saves.
LEMMA NothingToExtract ==
  ASSUME NEW s \in Seq(LogEntries), NEW c \in Nat, ExtractJSONLEvents(s, c) = << >>
  PROVE  \A i \in 1 .. Len(s) : c < i => s[i].kind \notin {"user", "markdown"}
<1> DEFINE K == {i \in c + 1 .. Len(s) : s[i].kind \in {"user", "markdown"}}
<1>1. Len(s) \in Nat
  BY LenProperties
<1>2. K \in SUBSET (1 .. Len(s)) /\ \A i \in 1 .. Len(s) : c < i /\ s[i].kind \in {"user", "markdown"} => i \in K
  BY <1>1
<1>3. EntriesAt(s, K) = << >>
  BY DEF ExtractJSONLEvents
<1> HIDE DEF K
<1>4. Len(EntriesAt(s, K)) = Cardinality(K) /\ IsFiniteSet(K)
  BY <1>2, EntriesAtPlaces
<1>5. Cardinality(K) = 0
  BY <1>3, <1>4, EmptySeq
<1>6. K = {}
  BY <1>4, <1>5, FS_EmptySet
<1> QED  BY <1>2, <1>6

LEMMA LoadSaveKeepsSync == SyncInv /\ LoadSaves => SyncInv'
<1> SUFFICES ASSUME SyncInv, LoadSaves PROVE SyncInv'
  OBVIOUS
<1> USE DEF SyncInv
<1>1. /\ merge.step = "save" /\ log' = merge.log /\ count' = merge.count /\ merge' = NoMerge
      /\ passed' = (passed \/ ExtractJSONLEvents(log, count) # << >>)
      /\ UNCHANGED <<file, sync, met, failed, replaced>>
  BY DEF LoadSaves
<1>2. SyncTypes'
  <2>1. NoMerge \in [step : {"idle", "merge", "save"}, log : Seq(LogEntries), count : Nat]
    BY EmptySeq DEF NoMerge
  <2> QED  BY <1>1, <2>1 DEF SyncTypes
<1>3. ASSUME Undisturbed' PROVE CountOK' /\ WorkerOK' /\ LoadOK' /\ FileOK'
  <2>1. Undisturbed /\ ExtractJSONLEvents(log, count) = << >>
    BY <1>1, <1>3 DEF Undisturbed
  <2>2. log \in Seq(LogEntries) /\ Len(log) \in Nat /\ count \in Nat /\ count <= Len(log) /\ Len(merge.log) \in Nat
    BY <2>1, LenProperties DEF SyncTypes, CountOK
  <2>3. \A i \in 1 .. Len(log) : count < i => log[i].kind = "terminal"
    <3>1. \A i \in 1 .. Len(log) : count < i => log[i].kind \notin {"user", "markdown"}
      BY <2>1, <2>2, NothingToExtract
    <3>2. \A i \in 1 .. Len(log) : log[i] \in LogEntries
      BY <2>2, ElementOfSeq
    <3>3. \A e \in LogEntries : e.kind \in {"user", "markdown", "terminal"}
      BY DEF LogEntries
    <3> QED  BY <3>1, <3>2, <3>3
  <2>4. /\ merge.count = Len(merge.log) /\ Len(log) <= Len(merge.log)
        /\ \A i \in 1 .. Len(log) : merge.log[i] = log[i]
        /\ \A i \in 1 .. Len(merge.log) : Len(log) < i => merge.log[i].from = "file"
    BY <1>1, <2>1 DEF LoadOK
  <2>5. sync.step = "idle" /\ FileHas(count)
    BY <1>1, <2>1 DEF WorkerOK, FileOK
  <2>6. ASSUME NEW k PROVE Said(k, count)' = Said(k, count)
    <3>1. \A i \in 1 .. count : i \in 1 .. Len(merge.log) /\ log'[i] = log[i]
      BY <1>1, <2>2, <2>4
    <3>2. \A i \in 1 .. Len(merge.log) :
            i \in 1 .. count \/ (i \in 1 .. Len(log) /\ count < i) \/ Len(log) < i
      BY <2>2
    <3>3. \A i \in 1 .. Len(merge.log) : i \in 1 .. count \/ log'[i].from = "file" \/ log'[i].kind = "terminal"
      BY <1>1, <2>3, <2>4, <3>2
    <3>4. \A i : i \in Said(k, count)' <=>
                   i \in 1 .. Len(merge.log) /\ log'[i].from = "here" /\ DedupKey(log'[i]) = k /\ log'[i].kind # "terminal"
      BY <1>1, <2>4 DEF Said, DedupKey
    <3>5. \A i : i \in Said(k, count) <=>
                   i \in 1 .. count /\ log[i].from = "here" /\ DedupKey(log[i]) = k /\ log[i].kind # "terminal"
      BY DEF Said
    <3>6. \A i : i \in Said(k, count)' <=> i \in Said(k, count)
      BY <3>1, <3>3, <3>4, <3>5
    <3> QED  BY <3>6
  <2>7. \A k : Written(k)' = Written(k)
    BY <1>1 DEF Written
  <2>8. FileHas(count)'
    BY <2>5, <2>6, <2>7 DEF FileHas
  <2>9. CountOK'
    BY <1>1, <2>2, <2>4 DEF CountOK
  <2> QED  BY <1>1, <2>5, <2>8, <2>9 DEF FileOK, WorkerOK, LoadOK, NoMerge
<1> QED  BY <1>2, <1>3

\* The command writes lines of its own.
LEMMA CommandKeepsSync ==
  ASSUME SyncInv, NEW e \in Entries, e.kind # "terminal", CommandWrites(e)
  PROVE  SyncInv'
<1> USE DEF SyncInv
<1> DEFINE line == Line(e, "command")
<1>1. file' = Append(file, line) /\ UNCHANGED <<log, count, sync, merge, met, failed, replaced, passed>>
  BY DEF CommandWrites
<1>2. line \in FileLines /\ line.by # "sync"
  BY DEF Line, Entries, FileLines
<1> HIDE DEF line
<1>3. file \in Seq(FileLines) /\ Len(file) \in Nat
  BY LenProperties DEF SyncTypes
<1>4. /\ file' \in Seq(FileLines) /\ Len(file') = Len(file) + 1
      /\ \A i \in 1 .. Len(file) : file'[i] = file[i]
      /\ file'[Len(file) + 1].by # "sync"
  BY <1>1, <1>2, <1>3, AppendProperties
<1>5. SyncTypes'
  BY <1>1, <1>4 DEF SyncTypes
<1>6. \A k : Written(k)' = Written(k)
  <2>1. \A i \in 1 .. Len(file') : i \in 1 .. Len(file) \/ i = Len(file) + 1
    BY <1>3, <1>4
  <2>2. \A i \in 1 .. Len(file) : i \in 1 .. Len(file')
    BY <1>3, <1>4
  <2>3. ASSUME NEW k, NEW i PROVE i \in Written(k)' <=> i \in Written(k)
    BY <1>4, <2>1, <2>2 DEF Written, DedupKey
  <2> QED  BY <2>3
<1>7. \A k, c : Said(k, c)' = Said(k, c)
  BY <1>1 DEF Said
<1>8. CountOK' = CountOK /\ WorkerOK' = WorkerOK /\ LoadOK' = LoadOK /\ Undisturbed' = Undisturbed
  BY <1>1 DEF CountOK, WorkerOK, LoadOK, Undisturbed
<1>9. FileOK => FileOK'
  BY <1>1, <1>6, <1>7 DEF FileOK, FileHas
<1> QED  BY <1>5, <1>8, <1>9

LEMMA SyncFrame ==
  ASSUME SyncInv, UNCHANGED <<log, count, file, sync, merge, met, failed, replaced, passed>>
  PROVE  SyncInv'
<1>1. \A k : Written(k)' = Written(k)
  BY DEF Written
<1>2. \A k, c : Said(k, c)' = Said(k, c)
  BY DEF Said
<1>3. FileOK => FileOK'
  BY <1>1, <1>2 DEF FileOK, FileHas
<1>4. SyncTypes => SyncTypes'
  BY DEF SyncTypes
<1>5. CountOK' = CountOK /\ WorkerOK' = WorkerOK /\ LoadOK' = LoadOK /\ Undisturbed' = Undisturbed
  BY DEF CountOK, WorkerOK, LoadOK, Undisturbed
<1> QED  BY <1>3, <1>4, <1>5 DEF SyncInv

LEMMA SyncGoesOn == SyncInv /\ [ClaudeSyncNext]_claudeSyncVars => SyncInv'
<1> SUFFICES ASSUME SyncInv, [ClaudeSyncNext]_claudeSyncVars PROVE SyncInv'
  OBVIOUS
<1>1. CASE UNCHANGED claudeSyncVars
  BY <1>1, SyncFrame DEF claudeSyncVars
<1>2. ASSUME NEW e \in Entries, UserSays(e) PROVE SyncInv'
  BY <1>2, InputKeepsSync
<1>3. ASSUME NEW e \in Entries, SyncSaves(e) PROVE SyncInv'
  BY <1>3, SaveKeepsSync
<1>4. CASE SyncReads
  BY <1>4, ReadKeepsSync
<1>5. CASE SyncWrites
  BY <1>5, WriteKeepsSync
<1>6. CASE SyncWriteFails \/ SyncCrash
  BY <1>6, FailKeepsSync
<1>7. CASE SyncMarks
  BY <1>7, MarkKeepsSync
<1>8. CASE LoadReads
  BY <1>8, LoadReadKeepsSync
<1>9. CASE LoadMerges
  BY <1>9, MergeKeepsSync
<1>10. CASE LoadSaves
  BY <1>10, LoadSaveKeepsSync
<1>11. ASSUME NEW e \in Entries, e.kind # "terminal", CommandWrites(e) PROVE SyncInv'
  BY <1>11, CommandKeepsSync
<1>12. CASE RunnerChanges
  BY <1>12, SyncFrame DEF RunnerChanges
<1> QED
  BY <1>1, <1>2, <1>3, <1>4, <1>5, <1>6, <1>7, <1>8, <1>9, <1>10, <1>11, <1>12 DEF ClaudeSyncNext

\* What the count covers the command's file has got exactly once, however often
\* the session is loaded and continued: syncSessionEntriesToClaudeJSONL beside
\* mergeClaudeJSONLToRecord.
THEOREM WrittenOnce == ClaudeSyncSpec => []SyncedExactlyOnce
<1>1. ClaudeSyncSpec => []SyncInv
  BY SyncBegins, SyncGoesOn, PTL DEF ClaudeSyncSpec
<1> QED  BY <1>1, SyncShows, PTL
=============================================================================
