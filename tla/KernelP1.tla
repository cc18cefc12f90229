------------------------------ MODULE KernelP1 ------------------------------
(***************************************************************************)
(* The kernel's scheduling trio at work: kernel/scheduler admits an        *)
(* execution by taking its session's lock in kernel/lockmgr (module        *)
(* LockMgr), kernel/watchdog (module Watchdog) watches it through the      *)
(* events the bus delivers and force-releases the lock when it goes idle.  *)
(*                                                                         *)
(* The executions follow the sequence of docs/design/p1-scheduling.md and  *)
(* kernel/p1_integration_test.go: Decide, Watch, events, Settle, Release.  *)
(* Scheduler and watchdog are advisory (§1): some executions are not       *)
(* watched at all.  Any of them may go silent and never return.            *)
(***************************************************************************)
EXTENDS LockMgr

CONSTANTS
  Watchers,          \* executions whose caller puts them under the watchdog
  NoKey, MinIdle, DefaultIdle, Horizon,  \* as in Watchdog
  DefaultLockTTL,    \* the scheduler's lease length, one of those callers ask for
  RequestedTimeouts, \* timeouts asked of Watch
  MaxInFlight        \* bound: undelivered events per execution

ASSUME KernelP1Assumption ==
  /\ Watchers \subseteq Owners
  /\ NoKey \notin Keys
  /\ MinIdle \in Nat \ {0}
  /\ DefaultIdle \in Nat \ {0}
  /\ Horizon \in Nat
  /\ DefaultLockTTL \in TTLs
  /\ RequestedTimeouts \subseteq Nat
  /\ MaxInFlight \in Nat

VARIABLES
  items, orphans, due, forcing, publishing, watching,  \* as in Watchdog
  pc,          \* pc[e]: where execution e's caller is
  keyOf,       \* keyOf[e]: the session whose lock e asked for
  conflict,    \* conflict[e]: Decision.Conflict of e's last deferral
  inFlight     \* inFlight[e]: events about e published, not yet delivered

W == INSTANCE Watchdog WITH Execs <- Watchers

clientVars == <<pc, keyOf, conflict, inFlight>>
watchVars == <<items, orphans, due, forcing, publishing, watching>>
allVars == <<vars, watchVars, clientVars>>

KernelInit ==
  /\ Init
  /\ W!WatchdogInit
  /\ pc = [e \in Owners |-> "idle"]
  /\ keyOf = [e \in Owners |-> NoKey]
  /\ conflict = [e \in Owners |-> NoOwner]
  /\ inFlight = [e \in Watchers |-> 0]

-----------------------------------------------------------------------------
(* Scheduler.Decide: the rules, then the lock, then on a conflict a second *)
(* critical section that asks who holds it.                                *)

\* A rule of the chain answers deny, defer or need_confirm: no lock is taken.
DecideByRule(e) ==
  /\ pc[e] = "idle"
  /\ pc' = [pc EXCEPT ![e] = "refused"]
  /\ UNCHANGED <<vars, watchVars, keyOf, conflict, inFlight>>

DecideAdmit(e, k) ==
  /\ pc[e] \in {"idle", "refused"}
  /\ Acquire(k, e, DefaultLockTTL)
  /\ pc' = [pc EXCEPT ![e] = "admitted"]
  /\ keyOf' = [keyOf EXCEPT ![e] = k]
  /\ conflict' = [conflict EXCEPT ![e] = NoOwner]
  /\ UNCHANGED <<watchVars, inFlight>>

\* A request with neither ResourceKey nor SessionID: there is nothing to lock,
\* and what is admitted has no key.
DecideAdmitUnlocked(e) ==
  /\ pc[e] \in {"idle", "refused"}
  /\ pc' = [pc EXCEPT ![e] = "admitted"]
  /\ keyOf' = [keyOf EXCEPT ![e] = NoKey]
  /\ conflict' = [conflict EXCEPT ![e] = NoOwner]
  /\ UNCHANGED <<vars, watchVars, inFlight>>

\* Acquire answers ErrConflict.
DecideConflict(e, k) ==
  /\ pc[e] \in {"idle", "refused"}
  /\ status = "open"
  /\ entries[k].owner \notin {NoOwner, e}
  /\ pc' = [pc EXCEPT ![e] = "conflict"]
  /\ keyOf' = [keyOf EXCEPT ![e] = k]
  /\ conflict' = [conflict EXCEPT ![e] = NoOwner]
  /\ UNCHANGED <<vars, watchVars, inFlight>>

\* Holder(key), and the Defer decision that names it.
DecideDefer(e) ==
  /\ pc[e] = "conflict"
  /\ conflict' = [conflict EXCEPT ![e] = entries[keyOf[e]].owner]
  /\ pc' = [pc EXCEPT ![e] = "refused"]
  /\ UNCHANGED <<vars, watchVars, keyOf, inFlight>>

-----------------------------------------------------------------------------
(* The admitted execution.                                                 *)

StartWatch(e, requested) ==
  /\ pc[e] = "admitted"
  /\ status = "open"
  /\ W!Watch(e, keyOf[e], requested)
  /\ pc' = [pc EXCEPT ![e] = "watched"]
  /\ UNCHANGED <<vars, keyOf, conflict, inFlight>>

\* A session or kernel event that carries e's execution id is published.
Emit(e) ==
  /\ pc[e] = "watched"
  /\ inFlight[e] < MaxInFlight
  /\ inFlight' = [inFlight EXCEPT ![e] = inFlight[e] + 1]
  /\ UNCHANGED <<vars, watchVars, pc, keyOf, conflict>>

SettleWatch(e) ==
  /\ pc[e] = "watched"
  /\ W!Settle(e)
  /\ pc' = [pc EXCEPT ![e] = "settled"]
  /\ UNCHANGED <<vars, keyOf, conflict, inFlight>>

\* Scheduler.Release drops the error: an execution that lost its lease to
\* the TTL or to the watchdog returns it in vain, one without a key nothing.
Return(e) ==
  /\ pc[e] = IF e \in Watchers THEN "settled" ELSE "admitted"
  /\ IF keyOf[e] = NoKey
       THEN UNCHANGED vars
       ELSE \/ Release(keyOf[e], e)
            \/ entries[keyOf[e]].owner # e /\ UNCHANGED vars
  /\ pc' = [pc EXCEPT ![e] = "idle"]
  /\ UNCHANGED <<watchVars, keyOf, conflict, inFlight>>

-----------------------------------------------------------------------------
(* The bus and the watchdog.                                               *)

\* The watchdog's subscription handler gets an event about e.
Deliver(e) ==
  /\ inFlight[e] > 0
  /\ inFlight' = [inFlight EXCEPT ![e] = inFlight[e] - 1]
  /\ IF watching THEN W!Heartbeat(e) ELSE UNCHANGED watchVars
  /\ UNCHANGED <<vars, pc, keyOf, conflict>>

WatchTimer(e) ==
  /\ \/ W!ItemTimerFires(e)
     \/ \E t \in 0 .. Horizon : W!OrphanFires(e, t)
  /\ UNCHANGED <<vars, clientVars>>

OnTimeout(e) ==
  /\ W!TimeoutOfNothing(e) \/ W!Reschedule(e) \/ W!TimeOut(e)
  /\ UNCHANGED <<vars, clientVars>>

\* The force-release takes the lock of the key, whoever holds it by now.
OnTimeoutForce(e, k) ==
  /\ W!Forced(e, k)
  /\ ForceRelease(k) \/ (~Held(k) /\ UNCHANGED vars)
  /\ UNCHANGED clientVars

\* The timeout event is itself an event about e.
OnTimeoutPublish(e) ==
  /\ W!PublishTimeout(e)
  /\ inFlight' = [inFlight EXCEPT ![e] =
                    IF inFlight[e] < MaxInFlight THEN inFlight[e] + 1 ELSE inFlight[e]]
  /\ UNCHANGED <<vars, pc, keyOf, conflict>>

\* Kernel.Stop: the watchdog first, then the lock manager; the process ends
\* then, and MCLockMgr looks at what callers and timers meet after a Close.
StopKernel ==
  \/ W!CloseWatchdog /\ UNCHANGED <<vars, clientVars>>
  \/ ~watching /\ Close /\ UNCHANGED <<watchVars, clientVars>>

LockTimers ==
  /\ \/ \E k \in Keys : TimerFires(k)
     \/ \E k \in Keys, o \in Owners : Expire(k, o) \/ NotifyExpired(k, o)
  /\ UNCHANGED <<watchVars, clientVars>>

Clock == Tick /\ UNCHANGED <<watchVars, clientVars>>

KernelNext ==
  \/ \E e \in Owners : DecideByRule(e) \/ DecideAdmitUnlocked(e) \/ DecideDefer(e) \/ Return(e)
  \/ \E e \in Owners, k \in Keys : DecideAdmit(e, k) \/ DecideConflict(e, k)
  \/ \E e \in Watchers : Emit(e) \/ SettleWatch(e) \/ Deliver(e) \/ WatchTimer(e)
                         \/ OnTimeout(e) \/ OnTimeoutPublish(e)
  \/ \E e \in Watchers, k \in Keys : OnTimeoutForce(e, k)
  \/ \E e \in Watchers, r \in RequestedTimeouts : StartWatch(e, r)
  \/ LockTimers
  \/ StopKernel
  \/ Clock

KernelSpec == KernelInit /\ [][KernelNext]_allVars

\* The bus delivers, timers fire and their goroutines run; executions and
\* their callers may hang anywhere.
KernelFairSpec ==
  /\ KernelSpec
  /\ \A e \in Watchers : /\ WF_allVars(Deliver(e))
                         /\ WF_allVars(WatchTimer(e))
                         /\ WF_allVars(OnTimeout(e))
                         /\ \A k \in Keys : WF_allVars(OnTimeoutForce(e, k))

-----------------------------------------------------------------------------

KernelTypeOK ==
  /\ TypeOK
  /\ W!WatchdogTypeOK
  /\ pc \in [Owners -> {"idle", "refused", "admitted", "conflict", "watched", "settled"}]
  /\ keyOf \in [Owners -> Keys \cup {NoKey}]
  /\ conflict \in [Owners -> Owners \cup {NoOwner}]
  /\ inFlight \in [Watchers -> 0 .. MaxInFlight]

\* No watched execution is left without a timer or a callback, whichever way
\* heartbeats, re-watches and late callbacks interleave.
WatchGuarded == W!WatchGuarded

\* An execution that hangs while watched does not keep its session locked:
\* once its deadline has passed it loses the lock, unless an event about it
\* arrives after all, its caller settles it or the kernel is being stopped.
HungExecutionLosesLock ==
  \A e \in Watchers, k \in Keys :
    (W!Idle(e) /\ items[e].key = k /\ entries[k].owner = e)
      ~> (entries[k].owner # e \/ (W!Watched(e) /\ ~W!Idle(e))
          \/ pc[e] # "watched" \/ ~watching)
=============================================================================
