----------------------------- MODULE Permission -----------------------------
(***************************************************************************)
(* The permission requests of a Claude process and their answers.          *)
(* engine/pty_engine.go caches the current control request and the one     *)
(* before it, and writes a response for whichever is current at that time. *)
(* Two kinds of actors answer: the connections' permission_decision        *)
(* handlers (gateway/gateway.go) and the sink's worker, which applies the  *)
(* user's permission rules to a prompt before it forwards it               *)
(* (gateway/permission_rules.go).  Both go through                         *)
(* executePermissionDecision and Service.SendPermissionDecision, which     *)
(* look at the current request without holding it.  A request is a number, *)
(* in the order they are asked.                                            *)
(***************************************************************************)
EXTENDS Integers, Sequences, FiniteSets

CONSTANTS
  Conns,       \* connections that decide
  Parallel,    \* requests the process has unanswered at most
  MaxAsked     \* bound: requests asked

ASSUME PermissionAssumption ==
  /\ "worker" \notin Conns
  /\ Parallel \in Nat \ {0}
  /\ MaxAsked \in Nat

VARIABLES
  asked,      \* requests asked so far; the newest one
  answered,   \* requests the process has had a response for
  phase,      \* "ready" (its round is over), "failed" (over, with an error), "busy", "closed"
  cur,        \* pendingControlRequestID, 0 if none
  prev,       \* pendingControlRequestIDPrev, 0 if none
  queue,      \* prompts on their way to the sink's worker
  shown,      \* requests whose prompt the clients have
  pc,         \* actor: "idle", "check", "guard", "read", "write", "clear"
  id,         \* PermissionRequestID of the decision in hand
  decision,   \* "approve", "deny"
  got,        \* the request WritePermissionResponse writes for
  late        \* responses whose writer was given up but still writes

cliVars == <<asked, answered, phase>>
pendVars == <<cur, prev>>
showVars == <<queue, shown>>
actVars == <<pc, id, decision, got>>
permVars == <<cliVars, pendVars, showVars, actVars, late>>

Actors == Conns \cup {"worker"}
Requests == 1 .. asked

PermInit ==
  /\ asked = 0 /\ answered = {} /\ phase = "ready"
  /\ cur = 0 /\ prev = 0
  /\ queue = <<>> /\ shown = {}
  /\ pc = [p \in Actors |-> "idle"]
  /\ id = [p \in Actors |-> 0]
  /\ decision = [p \in Actors |-> "approve"]
  /\ got = [p \in Actors |-> 0]
  /\ late = {}

HasPending == cur # 0 \/ prev # 0
CurrentID == IF cur # 0 THEN cur ELSE prev

-----------------------------------------------------------------------------
(* The process, and the reader of its output.                              *)

\* control_request: cached, the current one moved behind it; then the prompt.
Ask ==
  /\ phase # "closed"
  /\ asked < MaxAsked
  /\ Cardinality(Requests \ answered) < Parallel
  /\ asked' = asked + 1
  /\ phase' = "busy"
  /\ prev' = IF cur # 0 THEN cur ELSE prev
  /\ cur' = asked + 1
  /\ queue' = Append(queue, asked + 1)
  /\ UNCHANGED <<answered, shown, actVars, late>>

\* Fault: the end of a round forgets the current request only.
RoundEndsKeepsPrev ==
  /\ phase \in {"busy", "failed"}
  /\ Requests \subseteq answered
  /\ phase' = "ready"
  /\ cur' = 0
  /\ UNCHANGED <<asked, answered, prev, showVars, actVars, late>>

\* The process has what it asked for and ends its round; a round after a failed
\* one may have asked nothing.
RoundEnds ==
  /\ phase \in {"busy", "failed"}
  /\ Requests \subseteq answered
  /\ phase' = "ready"
  /\ cur' = 0 /\ prev' = 0
  /\ UNCHANGED <<asked, answered, showVars, actVars, late>>

\* A result with subtype "error": the round is over, what is pending stays.
RoundFails ==
  /\ phase = "busy"
  /\ Requests \subseteq answered
  /\ phase' = "failed"
  /\ UNCHANGED <<asked, answered, pendVars, showVars, actVars, late>>

RunnerCloses ==
  /\ phase # "closed"
  /\ phase' = "closed"
  /\ cur' = 0 /\ prev' = 0
  /\ UNCHANGED <<asked, answered, showVars, actVars, late>>

-----------------------------------------------------------------------------
(* Answering.                                                              *)

Finish(p) ==
  /\ pc' = [pc EXCEPT ![p] = "idle"]
  /\ id' = [id EXCEPT ![p] = 0]
  /\ decision' = [decision EXCEPT ![p] = "approve"]
  /\ got' = [got EXCEPT ![p] = 0]

\* An error ends the decision: the worker forwards the prompt it could not
\* answer, a handler reports the error.
Failed(p) ==
  /\ Finish(p)
  /\ shown' = shown \cup IF p = "worker" THEN {id[p]} ELSE {}

Refresh == shown' = shown \cup ({CurrentID} \ {0})

\* The request is no longer pending: a handler sends the prompt of the current
\* one after an approve, and the refusal as an input after a deny.
Expired(p) ==
  IF p # "worker" /\ decision[p] = "approve"
    THEN Finish(p) /\ Refresh
    ELSE Failed(p)

\* The worker takes a prompt; a rule matches it or not.
WorkerTake ==
  /\ pc["worker"] = "idle"
  /\ queue # <<>>
  /\ queue' = Tail(queue)
  /\ \/ /\ shown' = shown \cup {Head(queue)}
        /\ UNCHANGED actVars
     \/ /\ pc' = [pc EXCEPT !["worker"] = "guard"]
        /\ id' = [id EXCEPT !["worker"] = Head(queue)]
        /\ UNCHANGED <<shown, decision, got>>
  /\ UNCHANGED <<cliVars, pendVars, late>>

\* permission_decision, on any prompt the client has.
Decide(c, d, r) ==
  /\ pc[c] = "idle"
  /\ r \in shown
  /\ pc' = [pc EXCEPT ![c] = "check"]
  /\ id' = [id EXCEPT ![c] = r]
  /\ decision' = [decision EXCEPT ![c] = d]
  /\ UNCHANGED <<cliVars, pendVars, showVars, got, late>>

\* Fault: a stale approve is dropped like a stale deny, without the prompt of
\* the current request.
CheckRefreshesAll(c) ==
  /\ pc[c] = "check"
  /\ IF CurrentID \in {0, id[c]}
       THEN pc' = [pc EXCEPT ![c] = "guard"]
       ELSE pc' = [pc EXCEPT ![c] = "idle"]
  /\ UNCHANGED <<id, decision, got, cliVars, pendVars, showVars, late>>

\* A stale approve is taken for the request that is current; a stale deny is
\* answered with the current request's prompt.
Check(c) ==
  /\ pc[c] = "check"
  /\ IF CurrentID \in {0, id[c]}
       THEN /\ pc' = [pc EXCEPT ![c] = "guard"]
            /\ UNCHANGED <<id, decision, got, shown>>
       ELSE IF decision[c] = "approve"
         THEN /\ pc' = [pc EXCEPT ![c] = "guard"]
              /\ id' = [id EXCEPT ![c] = CurrentID]
              /\ UNCHANGED <<decision, got, shown>>
         ELSE Finish(c) /\ Refresh
  /\ UNCHANGED <<cliVars, pendVars, queue, late>>

\* SendPermissionDecision: is the request still the current one?
Guard(p) ==
  /\ pc[p] = "guard"
  /\ IF HasPending /\ CurrentID = id[p]
       THEN pc' = [pc EXCEPT ![p] = "read"] /\ UNCHANGED <<id, decision, got, shown>>
       ELSE Expired(p)
  /\ UNCHANGED <<cliVars, pendVars, queue, late>>

\* WritePermissionResponse reads the current request anew.
Read(p) ==
  /\ pc[p] = "read"
  /\ IF cur # 0
       THEN /\ pc' = [pc EXCEPT ![p] = "write"]
            /\ got' = [got EXCEPT ![p] = cur]
            /\ UNCHANGED <<id, decision, shown>>
       ELSE Expired(p)
  /\ UNCHANGED <<cliVars, pendVars, queue, late>>

Write(p) ==
  /\ pc[p] = "write"
  /\ phase # "closed"
  /\ answered' = answered \cup {got[p]}
  /\ pc' = [pc EXCEPT ![p] = "clear"]
  /\ UNCHANGED <<asked, phase, pendVars, showVars, id, decision, got, late>>

\* The pipe of a process that is gone.
WriteFails(p) ==
  /\ pc[p] = "write"
  /\ phase = "closed"
  /\ Failed(p)
  /\ UNCHANGED <<cliVars, pendVars, queue, late>>

\* The context ends first; the goroutine that writes is left to itself.
WriteGivenUp(p) ==
  /\ pc[p] = "write"
  /\ phase # "closed"
  /\ late' = late \cup {got[p]}
  /\ Failed(p)
  /\ UNCHANGED <<cliVars, pendVars, queue>>

LateWrite(r) ==
  /\ r \in late
  /\ late' = late \ {r}
  /\ answered' = IF phase = "closed" THEN answered ELSE answered \cup {r}
  /\ UNCHANGED <<asked, phase, pendVars, showVars, actVars>>

\* Fault: the pending request is dropped without a look at which it is.
ClearAny(p) ==
  /\ pc[p] = "clear"
  /\ cur' = prev
  /\ prev' = 0
  /\ Finish(p)
  /\ UNCHANGED <<cliVars, showVars, late>>

\* The answered request gives way to the one before it, unless a newer one has
\* taken its place.
Clear(p) ==
  /\ pc[p] = "clear"
  /\ IF cur = got[p]
       THEN cur' = prev /\ prev' = 0
       ELSE UNCHANGED pendVars
  /\ Finish(p)
  /\ UNCHANGED <<cliVars, showVars, late>>

-----------------------------------------------------------------------------

Approve(c) == \E r \in shown : Decide(c, "approve", r)
Deny(c) == \E r \in shown : Decide(c, "deny", r)
Advance(p) == Guard(p) \/ Read(p) \/ Write(p) \/ WriteFails(p) \/ WriteGivenUp(p) \/ Clear(p)

PermNext ==
  \/ Ask \/ RoundEnds \/ RoundFails \/ RunnerCloses \/ WorkerTake
  \/ \E c \in Conns : Approve(c) \/ Deny(c) \/ Check(c)
  \/ \E p \in Actors : Advance(p)
  \/ \E r \in late : LateWrite(r)

PermSpec == PermInit /\ [][PermNext]_permVars

\* Goroutines run, and one user does not tire of approving.
PermFairness ==
  /\ WF_permVars(WorkerTake)
  /\ \A c \in Conns : SF_permVars(Approve(c)) /\ WF_permVars(Check(c))
  /\ \A p \in Actors : WF_permVars(Advance(p))
  /\ WF_permVars(\E r \in late : LateWrite(r))

PermFairSpec == PermSpec /\ PermFairness

-----------------------------------------------------------------------------
(* Properties.                                                             *)

\* The variables keep their types.
PermTypeOK ==
  /\ asked \in Nat
  /\ answered \in SUBSET Requests
  /\ phase \in {"ready", "failed", "busy", "closed"}
  /\ cur \in 0 .. asked /\ prev \in 0 .. asked
  /\ queue \in Seq(Requests)
  /\ shown \in SUBSET Requests
  /\ pc \in [Actors -> {"idle", "check", "guard", "read", "write", "clear"}]
  /\ id \in [Actors -> 0 .. asked]
  /\ decision \in [Actors -> {"approve", "deny"}]
  /\ got \in [Actors -> 0 .. asked]
  /\ \A p \in Actors : pc[p] \in {"write", "clear"} => got[p] # 0
  /\ late \in SUBSET Requests

\* The request the process asked last is the pending one until it has had its
\* response: late writers, answers to older requests and restored ones never
\* push it out, so that it can be answered.
NewestRequestPending == (phase = "busy" /\ asked \notin answered) => cur = asked

\* When a round is over nothing is pending, whatever answers were under way: no
\* client is shown a card for a request that is over.  A round that ends with an
\* error is left out: pty_engine.go:2318 clears nothing then, and an answer that
\* was written and not yet cleared, or an older request, stays pending.
NothingPendingAfterRound == phase \in {"ready", "closed"} => ~HasPending

\* A user who keeps approving, with whatever stale card, gets the newest request
\* answered, unless a newer one follows or the round is over.
NewestRequestAnswered ==
  \A r \in 1 .. MaxAsked : (asked = r /\ phase = "busy") ~> (r \in answered \/ asked > r \/ phase # "busy")

\* A deny answers the request it was given for and no other.
DenyAnswersItsRequest == \A c \in Conns : (pc[c] = "write" /\ decision[c] = "deny") => got[c] = id[c]
=============================================================================
