---------------------------- MODULE KernelProofs ----------------------------
(***************************************************************************)
(* Proofs about the kernel. Of the lock manager alone: its timers never lose*)
(* a lease, and it implements the lease it promises, for any keys, owners,  *)
(* lease lengths and bounds. Of the composition in KernelP1, where the parts*)
(* share their variables: whatever the scheduler, the watchdog and the      *)
(* executions do to the lock is something the lock manager offers, so that  *)
(* what is proved of it holds here; and no watched execution is left without*)
(* a timer or a callback.  Of the event bus: what its subscribers can rely  *)
(* on.                                                                      *)
(***************************************************************************)
EXTENDS KernelP1, EventBus, SequenceTheorems, TLAPS

-----------------------------------------------------------------------------
(* The lock manager's timers never lose a lease, and it implements the lease*)
(* it promises, for any keys, owners, lease lengths and bounds.             *)

\* A held key and a free key, apart by the owner field alone.
FreeWhenUnowned == \A k \in Keys : ~Held(k) => entries[k] = Free

\* The inductive invariant.
LockInv == TypeOK /\ TimerTracksLease /\ FreeWhenUnowned

\* One callback or notification less is still a count.
LEMMA OneLess ==
  ASSUME NEW f \in [Keys -> [Owners -> Nat]], NEW k \in Keys, NEW o \in Owners,
         f[k][o] > 0
  PROVE  [f EXCEPT ![k][o] = f[k][o] - 1] \in [Keys -> [Owners -> Nat]]
<1>1. f[k][o] - 1 \in Nat
  OBVIOUS
<1> QED  BY <1>1

LEMMA LockBegins == Init => LockInv
<1> SUFFICES ASSUME Init PROVE LockInv
  OBVIOUS
<1>1. TypeOK
  BY LockMgrAssumption DEF Init, TypeOK, Free
<1>2. TimerTracksLease /\ FreeWhenUnowned
  BY DEF Init, TimerTracksLease, FreeWhenUnowned, Held, Overdue, Free
<1> QED  BY <1>1, <1>2 DEF LockInv

\* Type correctness: depths never go negative, callbacks and sends are never
\* taken twice.
LEMMA StepType ==
  ASSUME LockInv, [Next]_vars
  PROVE  TypeOK'
<1> USE DEF LockInv, TypeOK
<1>1. ASSUME NEW k \in Keys, NEW o \in Owners, NEW ttl \in TTLs, Acquire(k, o, ttl)
      PROVE  TypeOK'
  BY <1>1, LockMgrAssumption DEF Acquire
<1>2. ASSUME NEW k \in Keys, NEW o \in Owners, Release(k, o)
      PROVE  TypeOK'
  <2>1. CASE entries[k].depth <= 1
    <3>1. /\ entries' = [entries EXCEPT ![k] = Free]
          /\ timer' = [timer EXCEPT ![k] = "none"]
          /\ UNCHANGED <<callbacks, sending, expiredCh, status, now>>
      BY <1>2, <2>1, Zenon DEF Release
    <3> QED  BY <3>1 DEF Free
  <2>2. CASE ~(entries[k].depth <= 1)
    <3>1. entries[k].depth \in Nat /\ entries[k].depth - 1 \in Nat
      BY <2>2
    <3>2. [entries[k] EXCEPT !.depth = entries[k].depth - 1]
            \in [owner : Owners \cup {NoOwner}, depth : Nat, expireAt : Nat]
      BY <3>1
    <3> QED  BY <1>2, <2>2, <3>2 DEF Release
  <2> QED  BY <2>1, <2>2
<1>3. ASSUME NEW k \in Keys, ForceRelease(k)
      PROVE  TypeOK'
  BY <1>3 DEF ForceRelease, Free
<1>4. ASSUME NEW k \in Keys, TimerFires(k)
      PROVE  TypeOK'
  BY <1>4 DEF TimerFires, TimerTracksLease, Held
<1>5. ASSUME NEW k \in Keys, NEW o \in Owners, ExpireNothing(k, o)
      PROVE  TypeOK'
  BY <1>5, OneLess DEF ExpireNothing
<1>6. ASSUME NEW k \in Keys, NEW o \in Owners, ExpireLease(k, o)
      PROVE  TypeOK'
  <2>1. callbacks' \in [Keys -> [Owners -> Nat]]
    <3>1. CASE timer[k] = "armed"
      <4>1. callbacks' = callbacks
        BY <1>6, <3>1 DEF ExpireLease
      <4> QED  BY <4>1
    <3>2. CASE timer[k] # "armed"
      BY <1>6, <3>2, OneLess DEF ExpireLease
    <3> QED  BY <3>1, <3>2
  <2>2. sending' \in [Keys -> [Owners -> Nat]]
    BY <1>6 DEF ExpireLease
  <2> QED  BY <1>6, <2>1, <2>2 DEF ExpireLease, Free
<1>7. ASSUME NEW k \in Keys, NEW o \in Owners, NotifyExpired(k, o)
      PROVE  TypeOK'
  BY <1>7, OneLess DEF NotifyExpired
<1>8. ASSUME NEW k \in Keys, NEW o \in Owners, NotifyAfterClose(k, o)
      PROVE  TypeOK'
  <2>1. CASE sending' = [sending EXCEPT ![k][o] = sending[k][o] - 1] /\ UNCHANGED status
    BY <1>8, <2>1, OneLess DEF NotifyAfterClose
  <2>2. CASE status' = "crashed" /\ UNCHANGED sending
    BY <1>8, <2>2 DEF NotifyAfterClose
  <2> QED  BY <1>8, <2>1, <2>2 DEF NotifyAfterClose
<1>9. CASE AcquireAfterClose
  BY <1>9 DEF AcquireAfterClose
<1>10. CASE Close
  BY <1>10 DEF Close, Free
<1>11. CASE Drain
  BY <1>11 DEF Drain
<1>12. CASE Tick
  BY <1>12 DEF Tick, lockVars
<1>13. CASE UNCHANGED vars
  BY <1>13 DEF vars, lockVars
<1> QED
  BY <1>1, <1>2, <1>3, <1>4, <1>5, <1>6, <1>7, <1>8, <1>9, <1>10, <1>11, <1>12, <1>13
  DEF Next, Expire

\* The timers track the leases.
LEMMA StepTracks ==
  ASSUME LockInv, [Next]_vars
  PROVE  TimerTracksLease' /\ FreeWhenUnowned'
<1> USE DEF LockInv, TypeOK, TimerTracksLease, FreeWhenUnowned, Held, Overdue, Free
<1>1. ASSUME NEW k \in Keys, NEW o \in Owners, NEW ttl \in TTLs, Acquire(k, o, ttl)
      PROVE  TimerTracksLease' /\ FreeWhenUnowned'
  BY <1>1, LockMgrAssumption DEF Acquire
<1>2. ASSUME NEW k \in Keys, NEW o \in Owners, Release(k, o)
      PROVE  TimerTracksLease' /\ FreeWhenUnowned'
  <2>1. CASE entries[k].depth <= 1
    <3>1. /\ entries' = [entries EXCEPT ![k] = Free]
          /\ timer' = [timer EXCEPT ![k] = "none"]
          /\ UNCHANGED <<callbacks, sending, expiredCh, status, now>>
      BY <1>2, <2>1, Zenon DEF Release
    <3> QED  BY <3>1
  <2>2. CASE ~(entries[k].depth <= 1)
    <3>1. /\ entries' = [entries EXCEPT ![k] =
                           [entries[k] EXCEPT !.depth = entries[k].depth - 1]]
          /\ UNCHANGED timer
          /\ UNCHANGED <<callbacks, sending, expiredCh, status, now>>
      BY <1>2, <2>2, Zenon DEF Release
    <3>2. entries[k].depth - 1 \in Nat /\ entries[k].depth - 1 > 0
      BY <2>2
    <3>3. entries'[k] = [entries[k] EXCEPT !.depth = entries[k].depth - 1]
      BY <3>1
    <3>4. /\ entries'[k].owner = entries[k].owner
          /\ entries'[k].expireAt = entries[k].expireAt
          /\ entries'[k].depth > 0
          /\ Held(k)
      BY <1>2, <3>2, <3>3, LockMgrAssumption
    <3> QED  BY <3>1, <3>4
  <2> QED  BY <2>1, <2>2
<1>3. ASSUME NEW k \in Keys, ForceRelease(k)
      PROVE  TimerTracksLease' /\ FreeWhenUnowned'
  BY <1>3 DEF ForceRelease
<1>4. ASSUME NEW k \in Keys, TimerFires(k)
      PROVE  TimerTracksLease' /\ FreeWhenUnowned'
  BY <1>4 DEF TimerFires
<1>5. ASSUME NEW k \in Keys, NEW o \in Owners, ExpireNothing(k, o)
      PROVE  TimerTracksLease' /\ FreeWhenUnowned'
  BY <1>5 DEF ExpireNothing
<1>6. ASSUME NEW k \in Keys, NEW o \in Owners, ExpireLease(k, o)
      PROVE  TimerTracksLease' /\ FreeWhenUnowned'
  BY <1>6 DEF ExpireLease
<1>7. ASSUME NEW k \in Keys, NEW o \in Owners, NotifyExpired(k, o)
      PROVE  TimerTracksLease' /\ FreeWhenUnowned'
  BY <1>7 DEF NotifyExpired
<1>8. ASSUME NEW k \in Keys, NEW o \in Owners, NotifyAfterClose(k, o)
      PROVE  TimerTracksLease' /\ FreeWhenUnowned'
  BY <1>8 DEF NotifyAfterClose
<1>9. CASE AcquireAfterClose
  BY <1>9 DEF AcquireAfterClose
<1>10. CASE Close
  BY <1>10 DEF Close
<1>11. CASE Drain
  BY <1>11 DEF Drain
<1>12. CASE Tick
  BY <1>12 DEF Tick, lockVars
<1>13. CASE UNCHANGED vars
  BY <1>13 DEF vars, lockVars
<1> QED
  BY <1>1, <1>2, <1>3, <1>4, <1>5, <1>6, <1>7, <1>8, <1>9, <1>10, <1>11, <1>12, <1>13
  DEF Next, Expire

\* The inductive invariant holds of every reachable state.
THEOREM Invariance == Spec => []LockInv
<1>1. LockInv /\ [Next]_vars => LockInv'
  BY StepType, StepTracks DEF LockInv
<1> QED  BY LockBegins, <1>1, PTL DEF Spec

\* lockmgr.go keeps its map, depths and channel well formed.
THEOREM TypeCorrect == Spec => []TypeOK
<1>1. LockInv => TypeOK
  BY DEF LockInv
<1> QED  BY Invariance, <1>1, PTL

\* No lease is forgotten by its timers: Acquire, Release and expire hand the
\* duty to free an overdue key over to a timer or to a started callback.
THEOREM LeaseNeverForgotten == Spec => []TimerTracksLease
<1>1. LockInv => TimerTracksLease
  BY DEF LockInv
<1> QED  BY Invariance, <1>1, PTL

-----------------------------------------------------------------------------

\* Every step of the lock manager is a step of the promised lease, or leaves
\* the lease alone.
LEMMA StepImplements ==
  ASSUME LockInv, [Next]_vars
  PROVE  [Lease!LeaseNext]_(Lease!leaseVars)
<1> USE DEF LockInv, TypeOK, Lease!LeaseNext, Lease!leaseVars, Free, Lease!FreeLease
<1>1. ASSUME NEW k \in Keys, NEW o \in Owners, NEW ttl \in TTLs, Acquire(k, o, ttl)
      PROVE  Lease!Grant(k, o, ttl)
  BY <1>1 DEF Acquire, Lease!Grant
<1>2. ASSUME NEW k \in Keys, NEW o \in Owners, Release(k, o)
      PROVE  Lease!Return(k)
  BY <1>2, LockMgrAssumption DEF Release, Lease!Return, Lease!Leased
<1>3. ASSUME NEW k \in Keys, ForceRelease(k)
      PROVE  Lease!Revoke(k)
  BY <1>3 DEF ForceRelease, Lease!Revoke, Lease!Leased, Held
<1>4. ASSUME NEW k \in Keys, NEW o \in Owners, ExpireLease(k, o)
      PROVE  Lease!Lapse(k)
  BY <1>4, LockMgrAssumption DEF ExpireLease, Lease!Lapse, Lease!Leased
<1>5. CASE Close
  BY <1>5 DEF Close, Lease!Shutdown
<1>6. CASE Tick
  BY <1>6 DEF Tick, lockVars, Lease!Pass
<1>7. ASSUME UNCHANGED <<entries, sending, now>>
      PROVE  UNCHANGED Lease!leaseVars
  BY <1>7
<1>8. ASSUME NEW k \in Keys, TimerFires(k)
      PROVE  UNCHANGED <<entries, sending, now>>
  BY <1>8 DEF TimerFires
<1>9. ASSUME NEW k \in Keys, NEW o \in Owners,
             NotifyExpired(k, o) \/ NotifyAfterClose(k, o)
      PROVE  Lease!Report(k, o) \/ UNCHANGED <<entries, sending, now>>
  BY <1>9 DEF NotifyExpired, NotifyAfterClose, Lease!Report
<1>11. ASSUME NEW k \in Keys, NEW o \in Owners, ExpireNothing(k, o)
       PROVE  UNCHANGED <<entries, sending, now>>
  BY <1>11 DEF ExpireNothing
<1>10. ASSUME AcquireAfterClose \/ Drain \/ UNCHANGED vars
       PROVE  UNCHANGED <<entries, sending, now>>
  BY <1>10 DEF AcquireAfterClose, Drain, vars, lockVars
<1> QED
  BY <1>1, <1>2, <1>3, <1>4, <1>5, <1>6, <1>7, <1>8, <1>9, <1>10, <1>11 DEF Next, Expire

\* lockmgr.go implements the lease of module LeaseLock: exclusive, reentrant,
\* and never lapsing early.
THEOREM LeaseImplemented == Spec => ImplementsLease
<1>1. Init => Lease!LeaseInit
  BY DEF Init, Lease!LeaseInit, Free, Lease!FreeLease
<1>2. LockInv /\ [Next]_vars => [Lease!LeaseNext]_(Lease!leaseVars)
  BY StepImplements
<1> QED  BY Invariance, <1>1, <1>2, PTL DEF Spec, ImplementsLease, Lease!LeaseSpec

-----------------------------------------------------------------------------
(* Proofs about KernelP1.  The kernel's parts share their variables, so two *)
(* things are shown of the composition: whatever the scheduler, the watchdog*)
(* and the executions do to the lock is something the lock manager offers,  *)
(* and hence what is proved of LockMgr holds here; and no watched execution *)
(* is left without a timer or a callback.                                   *)

ItemsOK == items \in [Watchers -> W!ItemType] /\ due \in [Watchers -> Nat]

CountsOK ==
  /\ orphans \in [Watchers -> [0 .. Horizon -> Nat]]
  /\ forcing \in [Watchers -> [Keys -> Nat]]
  /\ publishing \in [Watchers -> Nat]
  /\ watching \in BOOLEAN

ClientsOK ==
  /\ pc \in [Owners -> {"idle", "refused", "admitted", "conflict", "watched", "settled"}]
  /\ keyOf \in [Owners -> Keys \cup {NoKey}]
  /\ conflict \in [Owners -> Owners \cup {NoOwner}]
  /\ inFlight \in [Watchers -> 0 .. MaxInFlight]

\* A caller that the lock manager has refused knows which key it asked for.
AskedForKey ==
  \A e \in Owners : pc[e] = "conflict" => keyOf[e] \in Keys

KInv == ItemsOK /\ CountsOK /\ ClientsOK /\ AskedForKey /\ WatchGuarded

-----------------------------------------------------------------------------
(* The lock as the composition uses it.                                    *)

LEMMA TicksOnly ==
  ASSUME [Next]_vars, LockInv
  PROVE  now' \in Nat /\ now <= now'
<1> USE DEF LockInv, TypeOK
<1>1. CASE Tick
  BY <1>1 DEF Tick
<1>2. CASE now' = now
  BY <1>2
<1>3. Tick \/ now' = now
  BY DEF Next, vars, Acquire, Release, ForceRelease, TimerFires, Expire, ExpireNothing,
         ExpireLease, NotifyExpired, NotifyAfterClose, AcquireAfterClose, Close, Drain
<1> QED  BY <1>1, <1>2, <1>3

LEMMA LockStep ==
  ASSUME KInv, [KernelNext]_allVars
  PROVE  [Next]_vars
<1> USE KernelP1Assumption DEF KInv, ClientsOK, AskedForKey
<1>1. ASSUME NEW e \in Owners, DecideByRule(e) \/ DecideAdmitUnlocked(e) \/ DecideDefer(e)
      PROVE  UNCHANGED vars
  BY <1>1 DEF DecideByRule, DecideAdmitUnlocked, DecideDefer
<1>2. ASSUME NEW e \in Owners, Return(e)
      PROVE  [Next]_vars
  <2>1. keyOf[e] \in Keys \/ keyOf[e] = NoKey
    OBVIOUS
  <2>2. CASE keyOf[e] # NoKey /\ Release(keyOf[e], e)
    BY <2>1, <2>2 DEF Next
  <2>3. CASE UNCHANGED vars
    BY <2>3
  <2> QED  BY <1>2, <2>2, <2>3 DEF Return
<1>3. ASSUME NEW e \in Owners, NEW k \in Keys, DecideAdmit(e, k)
      PROVE  Next
  <2>1. Acquire(k, e, DefaultLockTTL)
    BY <1>3 DEF DecideAdmit
  <2> QED  BY <2>1 DEF Next
<1>4. ASSUME NEW e \in Owners, NEW k \in Keys, DecideConflict(e, k)
      PROVE  UNCHANGED vars
  BY <1>4 DEF DecideConflict
<1>5. ASSUME NEW e \in Watchers,
             \/ Emit(e) \/ SettleWatch(e) \/ Deliver(e) \/ WatchTimer(e)
             \/ OnTimeout(e) \/ OnTimeoutPublish(e)
      PROVE  UNCHANGED vars
  BY <1>5 DEF Emit, SettleWatch, Deliver, WatchTimer, OnTimeout, OnTimeoutPublish
<1>6. ASSUME NEW e \in Watchers, NEW k \in Keys, OnTimeoutForce(e, k)
      PROVE  [Next]_vars
  <2>1. ForceRelease(k) \/ UNCHANGED vars
    BY <1>6 DEF OnTimeoutForce
  <2> QED  BY <2>1 DEF Next
<1>7. ASSUME NEW e \in Watchers, NEW r \in RequestedTimeouts, StartWatch(e, r)
      PROVE  UNCHANGED vars
  BY <1>7 DEF StartWatch
<1>8. CASE LockTimers
  BY <1>8 DEF LockTimers, Next
<1>9. CASE StopKernel
  BY <1>9 DEF StopKernel, Next
<1>10. CASE Clock
  BY <1>10 DEF Clock, Next
<1>11. CASE UNCHANGED allVars
  BY <1>11 DEF allVars
<1> QED
  BY <1>1, <1>2, <1>3, <1>4, <1>5, <1>6, <1>7, <1>8, <1>9, <1>10, <1>11 DEF KernelNext

-----------------------------------------------------------------------------
(* The watchdog's steps, and then those of the composition.                *)

LEMMA InitKInv == KernelInit => KInv
<1> SUFFICES ASSUME KernelInit PROVE KInv
  OBVIOUS
<1> USE KernelP1Assumption DEF KernelInit, W!WatchdogInit
<1>1. ItemsOK /\ CountsOK
  BY DEF ItemsOK, CountsOK, W!NoItem, W!ItemType
<1>2. ClientsOK /\ AskedForKey
  BY DEF ClientsOK, AskedForKey
<1>3. WatchGuarded
  BY DEF WatchGuarded, W!WatchGuarded, W!Watched, W!NoItem
<1> QED  BY <1>1, <1>2, <1>3 DEF KInv

\* Nothing about the watchdog changes, except that time may pass.
LEMMA WatchQuiet ==
  ASSUME ItemsOK, CountsOK, WatchGuarded, UNCHANGED watchVars,
         now \in Nat, now' \in Nat, now <= now'
  PROVE  ItemsOK' /\ CountsOK' /\ WatchGuarded'
<1>1. ItemsOK' /\ CountsOK'
  BY DEF ItemsOK, CountsOK, watchVars
<1>2. WatchGuarded'
  BY DEF ItemsOK, WatchGuarded, W!WatchGuarded, W!Watched, W!Idle, W!ItemType, watchVars
<1> QED  BY <1>1, <1>2

LEMMA CountUp ==
  ASSUME NEW S, NEW f \in [S -> Nat], NEW s
  PROVE  [f EXCEPT ![s] = f[s] + 1] \in [S -> Nat]
<1>1. ASSUME NEW x \in S
      PROVE  [f EXCEPT ![s] = f[s] + 1][x] \in Nat
  <2>1. f[x] \in Nat /\ f[x] + 1 \in Nat
    OBVIOUS
  <2> QED  BY <2>1
<1> QED  BY <1>1

LEMMA CountDown ==
  ASSUME NEW S, NEW f \in [S -> Nat], NEW s \in S, f[s] > 0
  PROVE  [f EXCEPT ![s] = f[s] - 1] \in [S -> Nat]
<1>1. f[s] - 1 \in Nat
  OBVIOUS
<1> QED  BY <1>1

\* Watch and Heartbeat arm the timer; Settle and Close drop the item.
LEMMA CallsGuard ==
  ASSUME ItemsOK, CountsOK, WatchGuarded, now \in Nat, now' = now, NEW e \in Watchers,
         \/ W!Heartbeat(e) \/ W!Settle(e) \/ W!CloseWatchdog
         \/ \E k \in Keys \cup {NoKey}, r \in RequestedTimeouts : W!Watch(e, k, r)
  PROVE  ItemsOK' /\ CountsOK' /\ WatchGuarded'
<1> USE KernelP1Assumption
        DEF ItemsOK, CountsOK, W!ItemType, WatchGuarded, W!WatchGuarded, W!Watched, W!Idle, W!NoItem
<1>1. CASE W!Heartbeat(e)
  <2>1. CASE UNCHANGED items
    BY <1>1, <2>1 DEF W!Heartbeat
  <2>2. ASSUME items' = [items EXCEPT ![e].deadline = now + items[e].timeout, ![e].timer = "armed"]
        PROVE  ItemsOK' /\ CountsOK' /\ WatchGuarded'
    <3>1. items[e] \in W!ItemType /\ now + items[e].timeout \in Nat
      OBVIOUS
    <3>2. items'[e] = [items[e] EXCEPT !.deadline = now + items[e].timeout, !.timer = "armed"]
      BY <2>2
    <3>3. items'[e] \in W!ItemType /\ items'[e].timer = "armed"
      BY <3>1, <3>2
    <3>4. items' \in [Watchers -> W!ItemType]
      BY <2>2, <3>3
    <3> QED  BY <1>1, <2>2, <3>3, <3>4 DEF W!Heartbeat
  <2> QED  BY <1>1, <2>1, <2>2 DEF W!Heartbeat
<1>2. CASE W!Settle(e)
  BY <1>2 DEF W!Settle
<1>3. CASE W!CloseWatchdog
  BY <1>3 DEF W!CloseWatchdog
<1>4. ASSUME NEW k \in Keys \cup {NoKey}, NEW r \in RequestedTimeouts, W!Watch(e, k, r)
      PROVE  ItemsOK' /\ CountsOK' /\ WatchGuarded'
  <2>1. W!IdleTimeout(r) \in Nat /\ now + W!IdleTimeout(r) \in Nat
    BY DEF W!IdleTimeout
  <2> QED  BY <1>4, <2>1 DEF W!Watch
<1> QED  BY <1>1, <1>2, <1>3, <1>4

\* A timer that fires starts a callback; a callback that finds the item still
\* in time leaves it with an armed timer, and one that does not removes it.
LEMMA TimersGuard ==
  ASSUME ItemsOK, CountsOK, WatchGuarded, now \in Nat, now' = now, NEW e \in Watchers,
         \/ W!ItemTimerFires(e)
         \/ \E t \in 0 .. Horizon : W!OrphanFires(e, t)
         \/ W!TimeoutOfNothing(e) \/ W!Reschedule(e) \/ W!TimeOut(e)
  PROVE  ItemsOK' /\ CountsOK' /\ WatchGuarded'
<1> USE DEF ItemsOK, W!ItemType, WatchGuarded, W!WatchGuarded, W!Watched, W!Idle
<1>1. CASE W!ItemTimerFires(e)
  <2>1. [items[e] EXCEPT !.timer = "fired"] \in W!ItemType
    BY <1>1
  <2>2. items' \in [Watchers -> W!ItemType] /\ items'[e].deadline = items[e].deadline
    BY <1>1, <2>1 DEF W!ItemTimerFires
  <2>3. due' \in [Watchers -> Nat] /\ due'[e] > 0
    BY <1>1 DEF W!ItemTimerFires
  <2>4. CountsOK'
    BY <1>1 DEF W!ItemTimerFires, CountsOK
  <2>5. \A x \in Watchers : x # e => items'[x] = items[x] /\ due'[x] = due[x]
    BY <1>1 DEF W!ItemTimerFires
  <2>6. items[e].deadline <= now
    BY <1>1 DEF W!ItemTimerFires
  <2> QED  BY <2>2, <2>3, <2>4, <2>5, <2>6
<1>2. ASSUME NEW t \in 0 .. Horizon, W!OrphanFires(e, t)
      PROVE  ItemsOK' /\ CountsOK' /\ WatchGuarded'
  <2>1. [orphans[e] EXCEPT ![t] = orphans[e][t] - 1] \in [0 .. Horizon -> Nat]
    BY <1>2, CountDown DEF W!OrphanFires, CountsOK
  <2>2. CountsOK'
    BY <1>2, <2>1 DEF W!OrphanFires, CountsOK
  <2> QED  BY <1>2, <2>2 DEF W!OrphanFires
<1>3. CASE W!TimeoutOfNothing(e)
  BY <1>3 DEF W!TimeoutOfNothing, CountsOK
<1>4. CASE W!Reschedule(e)
  <2>1. [orphans[e] EXCEPT ![items[e].deadline] = orphans[e][items[e].deadline] + 1]
          \in [0 .. Horizon -> Nat]
    BY CountUp DEF CountsOK
  <2>2. CountsOK'
    BY <1>4, <2>1 DEF W!Reschedule, CountsOK
  <2>3. items[e].timer = "armed"
    BY <1>4 DEF W!Reschedule
  <2> QED  BY <1>4, <2>2, <2>3 DEF W!Reschedule
<1>5. CASE W!TimeOut(e)
  <2>1. CountsOK'
    <3>1. CASE items[e].key \in Keys
      <4>1. [forcing[e] EXCEPT ![items[e].key] = forcing[e][items[e].key] + 1] \in [Keys -> Nat]
        BY CountUp DEF CountsOK
      <4>2. forcing' \in [Watchers -> [Keys -> Nat]]
        BY <1>5, <3>1, <4>1 DEF W!TimeOut, CountsOK
      <4> QED  BY <1>5, <3>1, <4>2 DEF W!TimeOut, CountsOK
    <3>2. CASE items[e].key \notin Keys
      <4>1. publishing' \in [Watchers -> Nat]
        <5>1. publishing' = [publishing EXCEPT ![e] = publishing[e] + 1]
          BY <1>5, <3>2 DEF W!TimeOut
        <5>2. publishing \in [Watchers -> Nat]
          BY DEF CountsOK
        <5> QED  BY <5>1, <5>2, CountUp
      <4> QED  BY <1>5, <3>2, <4>1 DEF W!TimeOut, CountsOK
    <3> QED  BY <3>1, <3>2
  <2>2. ItemsOK'
    BY <1>5, KernelP1Assumption DEF W!TimeOut, W!NoItem
  <2>3. WatchGuarded'
    BY <1>5 DEF W!TimeOut, W!NoItem
  <2> QED  BY <2>1, <2>2, <2>3
<1> QED  BY <1>1, <1>2, <1>3, <1>4, <1>5

\* What a callback does after it has let go of the mutex.
LEMMA CallbackTail ==
  ASSUME ItemsOK, CountsOK, WatchGuarded, now \in Nat, now' \in Nat, now <= now',
         NEW e \in Watchers,
         W!PublishTimeout(e) \/ \E k \in Keys : W!Forced(e, k)
  PROVE  ItemsOK' /\ CountsOK' /\ WatchGuarded'
<1>1. UNCHANGED <<items, due>>
  BY DEF W!PublishTimeout, W!Forced
<1>2. ItemsOK' /\ WatchGuarded'
  BY <1>1 DEF ItemsOK, WatchGuarded, W!WatchGuarded, W!Watched, W!Idle, W!ItemType
<1>3. CASE W!PublishTimeout(e)
  BY <1>2, <1>3 DEF W!PublishTimeout, CountsOK
<1>4. ASSUME NEW k \in Keys, W!Forced(e, k)
      PROVE  CountsOK'
  <2>1. [forcing[e] EXCEPT ![k] = forcing[e][k] - 1] \in [Keys -> Nat]
    BY <1>4, CountDown DEF W!Forced, CountsOK
  <2> QED  BY <1>4, <2>1 DEF W!Forced, CountsOK
<1> QED  BY <1>2, <1>3, <1>4

LEMMA WatchStep ==
  ASSUME KInv, LockInv, [KernelNext]_allVars
  PROVE  ItemsOK' /\ CountsOK' /\ WatchGuarded'
<1>1. now \in Nat /\ now' \in Nat /\ now <= now'
  BY LockStep, TicksOnly DEF LockInv, TypeOK
<1> USE <1>1 DEF KInv
<1>2. CASE UNCHANGED watchVars
  BY <1>2, WatchQuiet
<1>3. ASSUME NEW e \in Watchers, NEW r \in RequestedTimeouts, StartWatch(e, r)
      PROVE  ItemsOK' /\ CountsOK' /\ WatchGuarded'
  <2>1. keyOf[e] \in Keys \cup {NoKey} /\ now' = now /\ W!Watch(e, keyOf[e], r)
    BY <1>3, KernelP1Assumption DEF StartWatch, ClientsOK, vars
  <2> QED  BY <2>1, CallsGuard
<1>4. ASSUME NEW e \in Watchers, SettleWatch(e)
      PROVE  ItemsOK' /\ CountsOK' /\ WatchGuarded'
  BY <1>4, CallsGuard DEF SettleWatch, vars
<1>5. ASSUME NEW e \in Watchers, Deliver(e)
      PROVE  ItemsOK' /\ CountsOK' /\ WatchGuarded'
  <2>1. now' = now /\ (W!Heartbeat(e) \/ UNCHANGED watchVars)
    BY <1>5 DEF Deliver, vars
  <2> QED  BY <1>2, <2>1, CallsGuard
<1>6. ASSUME NEW e \in Watchers, WatchTimer(e) \/ OnTimeout(e)
      PROVE  ItemsOK' /\ CountsOK' /\ WatchGuarded'
  BY <1>6, TimersGuard DEF WatchTimer, OnTimeout, vars
<1>7. ASSUME NEW e \in Watchers, OnTimeoutPublish(e) \/ \E k \in Keys : OnTimeoutForce(e, k)
      PROVE  ItemsOK' /\ CountsOK' /\ WatchGuarded'
  BY <1>7, CallbackTail DEF OnTimeoutPublish, OnTimeoutForce
<1>8. CASE StopKernel
  <2>1. CASE W!CloseWatchdog /\ UNCHANGED vars
    <3>1. CASE Watchers = {}
      BY <2>1, <3>1 DEF W!CloseWatchdog, ItemsOK, CountsOK, WatchGuarded, W!WatchGuarded
    <3>2. CASE Watchers # {}
      BY <2>1, <3>2, CallsGuard DEF vars
    <3> QED  BY <3>1, <3>2
  <2> QED  BY <1>2, <1>8, <2>1 DEF StopKernel
<1>9. ASSUME NEW e \in Owners, NEW k \in Keys, DecideAdmit(e, k) \/ DecideConflict(e, k)
      PROVE  UNCHANGED watchVars
  BY <1>9 DEF DecideAdmit, DecideConflict
<1>10. ASSUME NEW e \in Owners, DecideByRule(e) \/ DecideAdmitUnlocked(e) \/ DecideDefer(e) \/ Return(e)
       PROVE  UNCHANGED watchVars
  BY <1>10 DEF DecideByRule, DecideAdmitUnlocked, DecideDefer, Return
<1>11. ASSUME NEW e \in Watchers, Emit(e)
       PROVE  UNCHANGED watchVars
  BY <1>11 DEF Emit
<1>12. LockTimers \/ Clock \/ UNCHANGED allVars => UNCHANGED watchVars
  BY DEF LockTimers, Clock, allVars
<1> QED
  BY <1>2, <1>3, <1>4, <1>5, <1>6, <1>7, <1>8, <1>9, <1>10, <1>11, <1>12 DEF KernelNext

LEMMA ClientStep ==
  ASSUME KInv, LockInv, [KernelNext]_allVars
  PROVE  ClientsOK' /\ AskedForKey'
<1> USE KernelP1Assumption, LockMgrAssumption DEF KInv, ClientsOK, AskedForKey
<1>1. ASSUME NEW e \in Owners, DecideByRule(e) \/ DecideAdmitUnlocked(e)
      PROVE  ClientsOK' /\ AskedForKey'
  BY <1>1 DEF DecideByRule, DecideAdmitUnlocked
<1>2. ASSUME NEW e \in Owners, DecideDefer(e)
      PROVE  ClientsOK' /\ AskedForKey'
  <2>1. entries[keyOf[e]].owner \in Owners \cup {NoOwner}
    BY <1>2 DEF DecideDefer, LockInv, TypeOK
  <2> QED  BY <1>2, <2>1 DEF DecideDefer
<1>3. ASSUME NEW e \in Owners, Return(e)
      PROVE  ClientsOK' /\ AskedForKey'
  BY <1>3 DEF Return
<1>4. ASSUME NEW e \in Owners, NEW k \in Keys, DecideAdmit(e, k)
      PROVE  ClientsOK' /\ AskedForKey'
  BY <1>4 DEF DecideAdmit
<1>5. ASSUME NEW e \in Owners, NEW k \in Keys, DecideConflict(e, k)
      PROVE  ClientsOK' /\ AskedForKey'
  BY <1>5 DEF DecideConflict
<1>6. ASSUME NEW e \in Watchers, Emit(e)
      PROVE  ClientsOK' /\ AskedForKey'
  BY <1>6 DEF Emit
<1>7. ASSUME NEW e \in Watchers, SettleWatch(e)
      PROVE  ClientsOK' /\ AskedForKey'
  BY <1>7 DEF SettleWatch
<1>8. ASSUME NEW e \in Watchers, Deliver(e)
      PROVE  ClientsOK' /\ AskedForKey'
  BY <1>8 DEF Deliver
<1>9. ASSUME NEW e \in Watchers, WatchTimer(e) \/ OnTimeout(e)
      PROVE  UNCHANGED clientVars
  BY <1>9 DEF WatchTimer, OnTimeout
<1>10. ASSUME NEW e \in Watchers, OnTimeoutPublish(e)
       PROVE  ClientsOK' /\ AskedForKey'
  BY <1>10 DEF OnTimeoutPublish
<1>11. ASSUME NEW e \in Watchers, NEW k \in Keys, OnTimeoutForce(e, k)
       PROVE  UNCHANGED clientVars
  BY <1>11 DEF OnTimeoutForce
<1>12. ASSUME NEW e \in Watchers, NEW r \in RequestedTimeouts, StartWatch(e, r)
       PROVE  ClientsOK' /\ AskedForKey'
  BY <1>12 DEF StartWatch
<1>13. LockTimers \/ StopKernel \/ Clock \/ UNCHANGED allVars => UNCHANGED clientVars
  BY DEF LockTimers, StopKernel, Clock, allVars
<1>14. UNCHANGED clientVars => ClientsOK' /\ AskedForKey'
  BY DEF clientVars
<1> QED
  BY <1>1, <1>2, <1>3, <1>4, <1>5, <1>6, <1>7, <1>8, <1>9, <1>10, <1>11, <1>12, <1>13, <1>14
     DEF KernelNext

-----------------------------------------------------------------------------

LEMMA Together == KernelSpec => [](LockInv /\ KInv)
<1>1. KernelInit => LockInv /\ KInv
  BY LockBegins, InitKInv DEF KernelInit
<1>2. LockInv /\ KInv /\ [KernelNext]_allVars => LockInv'
  BY LockStep, StepType, StepTracks DEF LockInv
<1>3. LockInv /\ KInv /\ [KernelNext]_allVars => KInv'
  BY WatchStep, ClientStep DEF KInv
<1> QED  BY <1>1, <1>2, <1>3, PTL DEF KernelSpec

\* Whatever scheduler, watchdog and executions do to the lock, and however
\* their steps interleave, is a behaviour of the lock manager: all that is
\* proved of LockMgr holds in the kernel.
THEOREM KernelUsesLock == KernelSpec => Spec
<1>1. KernelInit => Init
  BY DEF KernelInit
<1>2. LockInv /\ KInv /\ [KernelNext]_allVars => [Next]_vars
  BY LockStep
<1> QED  BY Together, <1>1, <1>2, PTL DEF KernelSpec, Spec

\* The lease the lock manager promises is kept in the kernel, force-releases
\* of the watchdog and renewals included.
THEOREM KernelKeepsLease == KernelSpec => ImplementsLease /\ []TimerTracksLease
<1> QED  BY KernelUsesLock, LeaseImplemented, LeaseNeverForgotten, PTL

\* scheduler.go and watchdog.go keep maps and counters well formed.
THEOREM KernelTypeCorrect == KernelSpec => []KernelTypeOK
<1>1. LockInv /\ KInv => KernelTypeOK
  BY DEF LockInv, KInv, KernelTypeOK, W!WatchdogTypeOK, ItemsOK, CountsOK, ClientsOK
<1> QED  BY Together, <1>1, PTL

\* watchdog.go never loses a watched execution: Watch, Heartbeat and the
\* callbacks hand the duty to notice silence over to a timer or a callback.
THEOREM NobodyForgotten == KernelSpec => []WatchGuarded
<1>1. LockInv /\ KInv => WatchGuarded
  BY DEF KInv
<1> QED  BY Together, <1>1, PTL

-----------------------------------------------------------------------------
(* What the bus promises its subscribers, for any number of publishers,    *)
(* subscriptions and envelopes and any capacity of its channels: the       *)
(* dispatcher's order, nothing twice, nothing lost without being counted,  *)
(* and silence after a Close that has returned.                            *)

BusInvTypeOK ==
  /\ cursor \in 0 .. MaxCursor
  /\ stamped \in [Publishers -> 0 .. MaxCursor]
  /\ inbox \in Seq(Envelopes)
  /\ env \in Envelopes \cup {NoEnv}
  /\ todo \subseteq Subs /\ subs \subseteq Subs /\ toClose \subseteq Subs
  /\ ch \in [Subs -> Seq(Envelopes)]
  /\ stop \in [Subs -> BOOLEAN]
  /\ runner \in [Subs -> {"none", "select", "handling", "done"}]
  /\ closer \in [Subs -> {"none", "waiting", "returned"}]
  /\ order \in Seq(Envelopes)
  /\ since \in [Subs -> Nat]
  /\ handled \in [Subs -> Seq(Envelopes)]
  /\ dropped \in [Subs -> SUBSET Envelopes]

\* The dispatcher works on the envelope it took last, and, in deliver, for a
\* subscription that it has struck off its list.
DispatcherOK ==
  /\ disp \in {"snapshot", "offer", "try", "wait"} => order # <<>> /\ env = order[Len(order)]
  /\ disp \in {"try", "wait"} => cur \in Subs \ todo

\* Subscriptions that the dispatcher may still give its envelope to.
Unserved == IF disp = "snapshot" THEN Subs
            ELSE IF disp = "offer" THEN todo
            ELSE IF disp \in {"try", "wait"} THEN todo \cup {cur}
            ELSE {}

\* Everything in s's stream is among the first n envelopes dispatched.
Before(s, n) ==
  \A i \in 1 .. Len(Stream(s)) : \E m \in 1 .. n : order[m] = Stream(s)[i]

StreamsDispatched ==
  \A s \in Subs : /\ Before(s, Len(order))
                  /\ s \in Unserved => Before(s, Len(order) - 1)

\* EveryEnvelopeAccounted, and who still has to get the last envelope.
Accounted ==
  \A s \in Subs : (s \in subs /\ ~stop[s]) =>
    \A i \in since[s] + 1 .. Len(order) :
      \/ i = Len(order) /\ s \in Unserved
      \/ order[i].source \notin Filter[s]
      \/ order[i] \in dropped[s]
      \/ \E j \in 1 .. Len(Stream(s)) : Stream(s)[j] = order[i]

\* The inductive invariant of the subscribers' side.
BusInv == BusInvTypeOK /\ DispatcherOK /\ StreamsDispatched /\ DispatchOrderKept /\ Accounted /\ QuietAfterClose

-----------------------------------------------------------------------------
(* A subscription's stream.                                                *)

\* The goroutine of a subscription moves an envelope from the channel to its
\* handler: the stream stays what it is.
LEMMA TakeKeepsStream ==
  ASSUME NEW S, NEW h \in Seq(S), NEW c \in Seq(S), c # <<>>
  PROVE  Append(h, Head(c)) \o Tail(c) = h \o c
<1> DEFINE new == Append(h, Head(c)) \o Tail(c)
           old == h \o c
<1>1. /\ Head(c) \in S /\ Tail(c) \in Seq(S)
      /\ Len(Tail(c)) = Len(c) - 1
      /\ \A i \in 1 .. Len(Tail(c)) : Tail(c)[i] = c[i + 1]
  BY HeadTailProperties
<1>2. /\ Append(h, Head(c)) \in Seq(S)
      /\ Len(Append(h, Head(c))) = Len(h) + 1
      /\ \A i \in 1 .. Len(h) : Append(h, Head(c))[i] = h[i]
      /\ Append(h, Head(c))[Len(h) + 1] = Head(c)
  BY <1>1, AppendProperties
<1>3. /\ new \in Seq(S)
      /\ Len(new) = Len(h) + 1 + Len(Tail(c))
      /\ \A i \in 1 .. Len(h) + 1 + Len(Tail(c)) :
           new[i] = IF i <= Len(h) + 1 THEN Append(h, Head(c))[i] ELSE Tail(c)[i - (Len(h) + 1)]
  BY <1>1, <1>2, ConcatProperties
<1>4. /\ old \in Seq(S)
      /\ Len(old) = Len(h) + Len(c)
      /\ \A i \in 1 .. Len(h) + Len(c) : old[i] = IF i <= Len(h) THEN h[i] ELSE c[i - Len(h)]
  BY ConcatProperties
<1>5. Len(c) \in Nat \ {0} /\ Len(h) \in Nat /\ Head(c) = c[1]
  OBVIOUS
<1>6. Len(new) = Len(old)
  BY <1>1, <1>3, <1>4, <1>5
<1>7. ASSUME NEW i \in 1 .. Len(new)
      PROVE  new[i] = old[i]
  <2>1. CASE i <= Len(h)
    BY <1>1, <1>2, <1>3, <1>4, <1>5, <2>1
  <2>2. CASE i = Len(h) + 1
    BY <1>1, <1>2, <1>3, <1>4, <1>5, <2>2
  <2>3. CASE i > Len(h) + 1
    BY <1>1, <1>2, <1>3, <1>4, <1>5, <2>3
  <2> QED  BY <1>1, <1>3, <1>5, <2>1, <2>2, <2>3
<1> HIDE DEF new, old
<1> QED  BY <1>3, <1>4, <1>6, <1>7, SeqEqual DEF new, old

LEMMA SendGrowsStream ==
  ASSUME NEW S, NEW h \in Seq(S), NEW c \in Seq(S), NEW x \in S
  PROVE  /\ h \o Append(c, x) \in Seq(S)
         /\ Len(h \o Append(c, x)) = Len(h \o c) + 1
         /\ \A i \in 1 .. Len(h \o c) : (h \o Append(c, x))[i] = (h \o c)[i]
         /\ (h \o Append(c, x))[Len(h \o c) + 1] = x
<1>1. Append(c, x) \in Seq(S) /\ Len(Append(c, x)) = Len(c) + 1
  BY AppendProperties
<1>2. /\ h \o Append(c, x) \in Seq(S)
      /\ Len(h \o Append(c, x)) = Len(h) + Len(c) + 1
      /\ \A i \in 1 .. Len(h) + Len(c) + 1 :
           (h \o Append(c, x))[i] = IF i <= Len(h) THEN h[i] ELSE Append(c, x)[i - Len(h)]
  BY <1>1, ConcatProperties
<1>3. /\ Len(h \o c) = Len(h) + Len(c)
      /\ \A i \in 1 .. Len(h) + Len(c) : (h \o c)[i] = IF i <= Len(h) THEN h[i] ELSE c[i - Len(h)]
  BY ConcatProperties
<1>4. /\ \A i \in 1 .. Len(c) : Append(c, x)[i] = c[i]
      /\ Append(c, x)[Len(c) + 1] = x
  BY AppendProperties
<1> QED  BY <1>1, <1>2, <1>3, <1>4

LEMMA StreamType ==
  ASSUME BusInvTypeOK, NEW s \in Subs
  PROVE  Stream(s) \in Seq(Envelopes) /\ Len(Stream(s)) \in Nat
BY ConcatProperties DEF BusInvTypeOK, Stream

-----------------------------------------------------------------------------

LEMMA InitBusInv == BusInit => BusInv
<1> SUFFICES ASSUME BusInit PROVE BusInv
  OBVIOUS
<1>1. BusInvTypeOK
  BY EventBusAssumption DEF BusInit, BusInvTypeOK
<1>2. \A s \in Subs : Stream(s) = <<>>
  BY ConcatEmptySeq DEF BusInit, Stream
<1>3. DispatcherOK /\ QuietAfterClose
  BY DEF BusInit, DispatcherOK, QuietAfterClose
<1>4. \A s \in Subs : 1 .. Len(Stream(s)) = {}
  BY <1>2
<1>5. StreamsDispatched /\ DispatchOrderKept
  BY <1>4 DEF StreamsDispatched, Before, DispatchOrderKept
<1>6. Accounted
  BY DEF BusInit, Accounted
<1> QED  BY <1>1, <1>3, <1>5, <1>6 DEF BusInv

\* A step that leaves the dispatcher's order and the streams alone, and owes
\* the last envelope to no one it did not owe it to.
LEMMA StreamsUntouched ==
  ASSUME BusInv, UNCHANGED order, \A s \in Subs : Stream(s)' = Stream(s),
         Unserved' \cap Subs \subseteq Unserved
  PROVE  StreamsDispatched' /\ DispatchOrderKept'
<1>1. \A s \in Subs : Before(s, Len(order)) => Before(s, Len(order))'
  BY DEF Before
<1>2. StreamsDispatched'
  <2>1. \A s \in Subs : Before(s, Len(order) - 1) => Before(s, Len(order) - 1)'
    BY DEF Before
  <2>2. \A s \in Subs : (s \in Unserved)' => s \in Unserved
    OBVIOUS
  <2> SUFFICES ASSUME NEW s \in Subs
               PROVE  Before(s, Len(order))' /\ ((s \in Unserved)' => Before(s, Len(order) - 1)')
    BY DEF StreamsDispatched
  <2>3. Before(s, Len(order)) /\ (s \in Unserved => Before(s, Len(order) - 1))
    BY DEF BusInv, StreamsDispatched
  <2>4. Before(s, Len(order))'
    BY <1>1, <2>3
  <2>5. (s \in Unserved)' => Before(s, Len(order) - 1)'
    BY <2>1, <2>2, <2>3
  <2> QED  BY <2>4, <2>5
<1>3. DispatchOrderKept'
  <2> SUFFICES ASSUME NEW s \in Subs, NEW i \in 1 .. Len(Stream(s)), NEW j \in 1 .. Len(Stream(s)), i < j
               PROVE  \E m, n \in 1 .. Len(order) :
                        m < n /\ order[m] = Stream(s)[i] /\ order[n] = Stream(s)[j]
    BY DEF DispatchOrderKept
  <2> QED  BY DEF BusInv, DispatchOrderKept
<1> QED  BY <1>2, <1>3

LEMMA AccountsUntouched ==
  ASSUME BusInv, UNCHANGED <<order, since, dropped>>, \A s \in Subs : Stream(s)' = Stream(s),
         \A s \in Subs : s \in subs' /\ ~stop'[s] => s \in subs /\ ~stop[s],
         \A s \in Subs : s \in subs' /\ ~stop'[s] /\ s \in Unserved =>
            s \in Unserved' \/ order[Len(order)].source \notin Filter[s]
  PROVE  Accounted'
<1> SUFFICES ASSUME NEW s \in Subs, s \in subs', ~stop'[s], NEW i \in since[s] + 1 .. Len(order)
             PROVE  \/ i = Len(order) /\ s \in Unserved'
                    \/ order[i].source \notin Filter[s]
                    \/ order[i] \in dropped[s]
                    \/ \E j \in 1 .. Len(Stream(s)) : Stream(s)[j] = order[i]
  BY DEF Accounted
<1>1. \/ i = Len(order) /\ s \in Unserved
      \/ order[i].source \notin Filter[s]
      \/ order[i] \in dropped[s]
      \/ \E j \in 1 .. Len(Stream(s)) : Stream(s)[j] = order[i]
  BY DEF BusInv, Accounted
<1> QED  BY <1>1

\* Stamp, Send, the goroutines of closed subscriptions, Bus.Close: nothing the
\* dispatcher or a stream is made of changes.
LEMMA BusyElsewhere ==
  ASSUME BusInv, UNCHANGED <<dispVars, ch, order, since, handled, dropped>>,
         \A s \in Subs : s \in subs' /\ ~stop'[s] => s \in subs /\ ~stop[s]
  PROVE  StreamsDispatched' /\ DispatchOrderKept' /\ Accounted' /\ DispatcherOK'
<1>1. \A s \in Subs : Stream(s)' = Stream(s)
  BY DEF Stream
<1>2. Unserved' = Unserved
  BY DEF Unserved, dispVars
<1>3. DispatcherOK'
  BY DEF BusInv, DispatcherOK, dispVars
<1> QED  BY <1>1, <1>2, <1>3, StreamsUntouched, AccountsUntouched

-----------------------------------------------------------------------------
(* Types, and Close's promise.                                             *)

LEMMA NextBusType ==
  ASSUME BusInvTypeOK, QuietAfterClose, DispatcherOK, [BusNext]_busVars
  PROVE  BusInvTypeOK' /\ QuietAfterClose'
<1> USE EventBusAssumption DEF BusInvTypeOK, QuietAfterClose
<1>1. ASSUME NEW p \in Publishers, Stamp(p)
      PROVE  BusInvTypeOK' /\ QuietAfterClose'
  BY <1>1 DEF Stamp, dispVars, subVars, closeVars, histVars
<1>2. ASSUME NEW p \in Publishers, Send(p)
      PROVE  BusInvTypeOK' /\ QuietAfterClose'
  <2>1. [cursor |-> stamped[p], source |-> p] \in Envelopes
    BY <1>2 DEF Send, Envelopes
  <2>2. Append(inbox, [cursor |-> stamped[p], source |-> p]) \in Seq(Envelopes)
    BY <2>1, AppendProperties
  <2>4. inbox' \in Seq(Envelopes)
    BY <1>2, <2>2 DEF Send
  <2>3. stamped' \in [Publishers -> 0 .. MaxCursor]
    BY <1>2 DEF Send
  <2> QED  BY <1>2, <2>3, <2>4 DEF Send, dispVars, subVars, closeVars, histVars
<1>3. CASE DispatchTake
  <2>1. /\ Head(inbox) \in Envelopes /\ Tail(inbox) \in Seq(Envelopes)
        /\ Append(order, Head(inbox)) \in Seq(Envelopes)
    BY <1>3, HeadTailProperties, AppendProperties DEF DispatchTake
  <2> QED  BY <1>3, <2>1 DEF DispatchTake, subVars, closeVars
<1>4. CASE DispatchExit \/ DispatchSnapshot \/ DispatchDone \/ DeliverWait \/ DeliverAbort
  BY <1>4 DEF DispatchExit, DispatchSnapshot, DispatchDone, DeliverWait, DeliverAbort,
              pubVars, subVars, closeVars, histVars
<1>5. ASSUME NEW s \in Subs, DispatchNext(s)
      PROVE  BusInvTypeOK' /\ QuietAfterClose'
  BY <1>5 DEF DispatchNext, pubVars, subVars, closeVars, histVars
<1>6. CASE DeliverSend
  <2>1. cur \in Subs /\ env \in Envelopes
    BY <1>6, ElementOfSeq, LenProperties, EmptySeq DEF DeliverSend, DispatcherOK
  <2>2. ch' \in [Subs -> Seq(Envelopes)]
    BY <1>6, <2>1, AppendProperties DEF DeliverSend
  <2> QED  BY <1>6, <2>2 DEF DeliverSend, pubVars, closeVars, histVars
<1>7. CASE DeliverDrop
  <2>1. cur \in Subs /\ env \in Envelopes
    BY <1>7, ElementOfSeq, LenProperties, EmptySeq DEF DeliverDrop, DispatcherOK
  <2> QED  BY <1>7, <2>1 DEF DeliverDrop, pubVars, subVars, closeVars
<1>8. ASSUME NEW s \in Subs, Subscribe(s)
      PROVE  BusInvTypeOK' /\ QuietAfterClose'
  <2>1. Len(order) \in Nat
    BY LenProperties
  <2> QED  BY <1>8, <2>1 DEF Subscribe, pubVars, dispVars, closeVars
<1>9. ASSUME NEW s \in Subs, RunTake(s)
      PROVE  BusInvTypeOK' /\ QuietAfterClose'
  <2>1. /\ Head(ch[s]) \in Envelopes /\ Tail(ch[s]) \in Seq(Envelopes)
        /\ Append(handled[s], Head(ch[s])) \in Seq(Envelopes)
    BY <1>9, HeadTailProperties, AppendProperties DEF RunTake
  <2>2. ch' \in [Subs -> Seq(Envelopes)] /\ handled' \in [Subs -> Seq(Envelopes)]
    BY <1>9, <2>1 DEF RunTake
  <2> QED  BY <1>9, <2>2 DEF RunTake, pubVars, dispVars, closeVars
<1>10. ASSUME NEW s \in Subs, RunHandled(s) \/ RunExit(s) \/ CloseSub(s) \/ CloseSubReturns(s)
       PROVE  BusInvTypeOK' /\ QuietAfterClose'
  BY <1>10 DEF RunHandled, RunExit, CloseSub, CloseSubReturns, pubVars, dispVars, closeVars, histVars
<1>11. ASSUME NEW s \in Subs, CloseBusShutdown(s) \/ CloseBusDone(s)
       PROVE  BusInvTypeOK' /\ QuietAfterClose'
  BY <1>11 DEF CloseBusShutdown, CloseBusDone, pubVars, dispVars, subVars, closeVars, histVars
<1>12. CASE CloseBusStop \/ CloseBusSwap \/ CloseBusReturns
  BY <1>12 DEF CloseBusStop, CloseBusSwap, CloseBusReturns, pubVars, dispVars, subVars, histVars
<1>13. CASE UNCHANGED busVars
  BY <1>13 DEF busVars, pubVars, dispVars, subVars, closeVars, histVars
<1> QED
  BY <1>1, <1>2, <1>3, <1>4, <1>5, <1>6, <1>7, <1>8, <1>9, <1>10, <1>11, <1>12, <1>13
     DEF BusNext, Dispatch

-----------------------------------------------------------------------------
(* The dispatcher's steps, one by one.                                     *)

\* A new last envelope: no stream has it yet, and everybody may get it.
LEMMA TakeStep ==
  ASSUME BusInv, DispatchTake
  PROVE  DispatcherOK' /\ StreamsDispatched' /\ DispatchOrderKept' /\ Accounted'
<1> USE DEF BusInv
<1>1. \A s \in Subs : Stream(s)' = Stream(s)
  BY DEF DispatchTake, Stream, subVars
<1>2. /\ order \in Seq(Envelopes) /\ Len(order) \in Nat
      /\ order' \in Seq(Envelopes)
      /\ Len(order') = Len(order) + 1
      /\ \A i \in 1 .. Len(order) : order'[i] = order[i]
      /\ order'[Len(order')] = env'
      /\ Head(inbox) \in Envelopes
  BY HeadTailProperties, AppendProperties, LenProperties DEF DispatchTake, BusInvTypeOK
<1>3. DispatcherOK'
  BY <1>2 DEF DispatchTake, DispatcherOK
<1>4. \A s \in Subs : \A i \in 1 .. Len(Stream(s)) :
        \E m \in 1 .. Len(order) : order'[m] = Stream(s)[i]
  BY <1>2 DEF StreamsDispatched, Before
<1>5. ASSUME NEW s \in Subs, NEW n \in Nat, n >= Len(order)
      PROVE  Before(s, n)'
  <2>1. \A m \in 1 .. Len(order) : m \in 1 .. n
    BY <1>2, <1>5
  <2> QED  BY <1>1, <1>4, <2>1 DEF Before
<1>6. StreamsDispatched'
  BY <1>2, <1>5 DEF StreamsDispatched
<1>7. DispatchOrderKept'
  BY <1>1, <1>2 DEF DispatchOrderKept
<1>8. ASSUME NEW s \in Subs, s \in subs', ~stop'[s], NEW i \in since'[s] + 1 .. Len(order')
      PROVE  \/ i = Len(order') /\ s \in Unserved'
             \/ order'[i].source \notin Filter[s]
             \/ order'[i] \in dropped'[s]
             \/ \E j \in 1 .. Len(Stream(s)') : Stream(s)'[j] = order'[i]
  <2>1. UNCHANGED <<subs, stop, since, dropped>> /\ Unserved' = Subs /\ Unserved = {}
    BY DEF DispatchTake, subVars, Unserved
  <2>2. CASE i = Len(order')
    BY <2>1, <2>2
  <2>3. CASE i # Len(order')
    <3>1. i \in since[s] + 1 .. Len(order) /\ order'[i] = order[i]
      BY <1>2, <1>8, <2>1, <2>3 DEF BusInvTypeOK
    <3> QED  BY <1>1, <1>8, <2>1, <3>1 DEF Accounted
  <2> QED  BY <2>2, <2>3
<1>9. Accounted'
  BY <1>8 DEF Accounted
<1> QED  BY <1>3, <1>6, <1>7, <1>9

\* The envelope goes to those the snapshot finds, and to none of the others.
LEMMA OfferSteps ==
  ASSUME BusInv, DispatchSnapshot \/ DispatchDone \/ DispatchExit \/ DeliverWait \/ DeliverAbort
                 \/ \E s \in Subs : DispatchNext(s)
  PROVE  DispatcherOK' /\ StreamsDispatched' /\ DispatchOrderKept' /\ Accounted'
<1> USE DEF BusInv
<1>1. UNCHANGED <<subs, stop, order, since, dropped>> /\ \A s \in Subs : Stream(s)' = Stream(s)
  BY DEF DispatchSnapshot, DispatchDone, DispatchExit, DeliverWait, DeliverAbort, DispatchNext,
         Stream, subVars, histVars
<1>2. CASE DispatchSnapshot
  <2>1. Unserved' = todo' /\ Unserved = Subs /\ todo' = {s \in subs : env.source \in Filter[s]}
    BY <1>2 DEF DispatchSnapshot, Unserved
  <2>2. env = order[Len(order)] /\ todo' \subseteq Subs
    BY <1>2, <2>1 DEF DispatchSnapshot, DispatcherOK, BusInvTypeOK
  <2>3. DispatcherOK'
    BY <1>1, <1>2 DEF DispatchSnapshot, DispatcherOK
  <2> QED  BY <1>1, <2>1, <2>2, <2>3, StreamsUntouched, AccountsUntouched
<1>3. CASE DispatchDone \/ DispatchExit \/ DeliverWait
  <2>1. Unserved' = Unserved
    BY <1>3 DEF DispatchDone, DispatchExit, DeliverWait, Unserved
  <2>2. DispatcherOK'
    BY <1>1, <1>3 DEF DispatchDone, DispatchExit, DeliverWait, DispatcherOK
  <2> QED  BY <1>1, <2>1, <2>2, StreamsUntouched, AccountsUntouched
<1>4. CASE DeliverAbort
  <2>1. Unserved = todo \cup {cur} /\ Unserved' = todo /\ stop[cur]
    BY <1>4 DEF DeliverAbort, Unserved
  <2>2. DispatcherOK'
    BY <1>1, <1>4 DEF DeliverAbort, DispatcherOK
  <2> QED  BY <1>1, <2>1, <2>2, StreamsUntouched, AccountsUntouched
<1>5. ASSUME NEW s \in Subs, DispatchNext(s)
      PROVE  DispatcherOK' /\ StreamsDispatched' /\ DispatchOrderKept' /\ Accounted'
  <2>1. Unserved = todo
    BY <1>5 DEF DispatchNext, Unserved
  <2>2. IF stop[s] THEN Unserved' = todo \ {s} ELSE Unserved' = todo
    BY <1>5 DEF DispatchNext, Unserved
  <2>3. DispatcherOK'
    BY <1>1, <1>5 DEF DispatchNext, DispatcherOK
  <2> QED  BY <1>1, <2>1, <2>2, <2>3, StreamsUntouched, AccountsUntouched
<1> QED  BY <1>2, <1>3, <1>4, <1>5

\* A full channel sheds the envelope, and the subscription's count says so.
LEMMA DropStep ==
  ASSUME BusInv, DeliverDrop
  PROVE  DispatcherOK' /\ StreamsDispatched' /\ DispatchOrderKept' /\ Accounted'
<1> USE DEF BusInv
<1>1. UNCHANGED <<subs, stop, order, since>> /\ \A s \in Subs : Stream(s)' = Stream(s)
  BY DEF DeliverDrop, Stream, subVars
<1>2. Unserved = todo \cup {cur} /\ Unserved' = todo /\ cur \in Subs /\ env = order[Len(order)]
  BY DEF DeliverDrop, Unserved, DispatcherOK
<1>3. DispatcherOK'
  BY <1>1 DEF DeliverDrop, DispatcherOK
<1>4. env \in dropped'[cur] /\ \A s \in Subs : dropped[s] \subseteq dropped'[s]
  BY <1>2 DEF DeliverDrop, BusInvTypeOK
<1>5. ASSUME NEW s \in Subs, s \in subs, ~stop[s], NEW i \in since[s] + 1 .. Len(order)
      PROVE  \/ i = Len(order) /\ s \in Unserved'
             \/ order[i].source \notin Filter[s]
             \/ order[i] \in dropped'[s]
             \/ \E j \in 1 .. Len(Stream(s)) : Stream(s)[j] = order[i]
  BY <1>2, <1>4, <1>5 DEF Accounted
<1>6. Accounted'
  BY <1>1, <1>5 DEF Accounted
<1> QED  BY <1>1, <1>2, <1>3, <1>6, StreamsUntouched

\* The channel has room: the last envelope becomes the last of the stream.
LEMMA SendStep ==
  ASSUME BusInv, DeliverSend
  PROVE  DispatcherOK' /\ StreamsDispatched' /\ DispatchOrderKept' /\ Accounted'
<1> USE DEF BusInv
<1>1. /\ UNCHANGED <<subs, stop, order, since, dropped, handled, env, todo>>
      /\ cur \in Subs /\ cur \notin todo /\ env = order[Len(order)] /\ order # <<>>
      /\ Unserved = todo \cup {cur} /\ Unserved' = todo
  BY DEF DeliverSend, DispatcherOK, Unserved, histVars
<1>2. Len(order) \in Nat \ {0} /\ env \in Envelopes
  <2>1. order \in Seq(Envelopes) /\ Len(order) \in Nat \ {0}
    BY <1>1, EmptySeq DEF BusInvTypeOK
  <2>2. Len(order) \in 1 .. Len(order)
    BY <2>1
  <2> QED  BY <1>1, <2>1, <2>2, ElementOfSeq
<1>3. \A s \in Subs : s # cur => Stream(s)' = Stream(s)
  BY <1>1 DEF DeliverSend, Stream, BusInvTypeOK
<1>4. Stream(cur) \in Seq(Envelopes) /\ Len(Stream(cur)) \in Nat
  BY <1>1, StreamType
<1> DEFINE old == Stream(cur)
           new == handled[cur] \o Append(ch[cur], env)
<1>5. /\ Len(new) = Len(old) + 1
      /\ \A i \in 1 .. Len(old) : new[i] = old[i]
      /\ new[Len(old) + 1] = env
  BY <1>1, <1>2, SendGrowsStream DEF BusInvTypeOK, Stream
<1>6. ch'[cur] = Append(ch[cur], env)
  BY <1>1 DEF DeliverSend, BusInvTypeOK
<1>7. ASSUME NEW s \in Subs, s = cur
      PROVE  Stream(s)' = new
  BY <1>1, <1>6, <1>7 DEF Stream
<1> HIDE DEF new, old
<1>8. \A i \in 1 .. Len(old) : \E m \in 1 .. Len(order) - 1 : order[m] = old[i]
  BY <1>1 DEF old, StreamsDispatched, Before
<1>9. \A i \in 1 .. Len(new) : \E m \in 1 .. Len(order) : order[m] = new[i]
  <2> SUFFICES ASSUME NEW i \in 1 .. Len(new)
               PROVE  \E m \in 1 .. Len(order) : order[m] = new[i]
    OBVIOUS
  <2>1. CASE i \in 1 .. Len(old)
    <3>1. PICK m \in 1 .. Len(order) - 1 : order[m] = old[i]
      BY <1>8, <2>1
    <3> QED  BY <1>2, <1>5, <2>1, <3>1
  <2>2. CASE i = Len(old) + 1
    BY <1>1, <1>2, <1>5, <2>2
  <2> QED  BY <1>4, <1>5, <2>1, <2>2 DEF old
<1>10. \A i, j \in 1 .. Len(new) : i < j =>
          \E m, n \in 1 .. Len(order) : m < n /\ order[m] = new[i] /\ order[n] = new[j]
  <2> SUFFICES ASSUME NEW i \in 1 .. Len(new), NEW j \in 1 .. Len(new), i < j
               PROVE  \E m, n \in 1 .. Len(order) : m < n /\ order[m] = new[i] /\ order[n] = new[j]
    OBVIOUS
  <2>1. CASE j <= Len(old)
    <3>1. i \in 1 .. Len(old) /\ j \in 1 .. Len(old)
      BY <1>4, <1>5, <2>1 DEF old
    <3>2. \E m, n \in 1 .. Len(order) : m < n /\ order[m] = old[i] /\ order[n] = old[j]
      BY <1>1, <3>1 DEF DispatchOrderKept, old
    <3> QED  BY <1>5, <3>1, <3>2
  <2>2. CASE j = Len(old) + 1
    <3>1. i \in 1 .. Len(old)
      BY <1>4, <2>2 DEF old
    <3>2. PICK m \in 1 .. Len(order) - 1 : order[m] = new[i]
      BY <1>5, <1>8, <3>1
    <3>3. m \in 1 .. Len(order) /\ Len(order) \in 1 .. Len(order) /\ m < Len(order)
      BY <1>2
    <3>4. order[Len(order)] = new[j]
      BY <1>1, <1>5, <2>2
    <3> QED  BY <3>2, <3>3, <3>4
  <2> QED  BY <1>4, <1>5, <2>1, <2>2 DEF old
<1>11. StreamsDispatched'
  <2>1. ASSUME NEW s \in Subs
        PROVE  Before(s, Len(order))' /\ (s \in todo => Before(s, Len(order) - 1)')
    <3>1. CASE s = cur
      BY <1>1, <1>7, <1>9, <3>1 DEF Before
    <3>2. CASE s # cur
      BY <1>1, <1>3, <3>2 DEF StreamsDispatched, Before
    <3> QED  BY <3>1, <3>2
  <2> QED  BY <1>1, <2>1 DEF StreamsDispatched
<1>12. DispatchOrderKept'
  <2>1. ASSUME NEW s \in Subs, NEW i \in 1 .. Len(Stream(s)'), NEW j \in 1 .. Len(Stream(s)'), i < j
        PROVE  \E m, n \in 1 .. Len(order) :
                 m < n /\ order[m] = Stream(s)'[i] /\ order[n] = Stream(s)'[j]
    <3>1. CASE s = cur
      BY <1>7, <1>10, <2>1, <3>1
    <3>2. CASE s # cur
      BY <1>3, <2>1, <3>2 DEF DispatchOrderKept
    <3> QED  BY <3>1, <3>2
  <2> QED  BY <1>1, <2>1 DEF DispatchOrderKept
<1>13. Accounted'
  <2>1. ASSUME NEW s \in Subs, s \in subs, ~stop[s], NEW i \in since[s] + 1 .. Len(order)
        PROVE  \/ i = Len(order) /\ s \in todo
               \/ order[i].source \notin Filter[s]
               \/ order[i] \in dropped[s]
               \/ \E j \in 1 .. Len(Stream(s)') : Stream(s)'[j] = order[i]
    <3>1. \/ i = Len(order) /\ s \in Unserved
          \/ order[i].source \notin Filter[s]
          \/ order[i] \in dropped[s]
          \/ \E j \in 1 .. Len(Stream(s)) : Stream(s)[j] = order[i]
      BY <2>1 DEF Accounted
    <3>2. CASE s # cur
      BY <1>1, <1>3, <3>1, <3>2
    <3>3. CASE s = cur
      <4>1. \A j \in 1 .. Len(old) : j \in 1 .. Len(new)
        BY <1>4, <1>5 DEF old
      <4>2. Len(old) + 1 \in 1 .. Len(new)
        BY <1>4, <1>5 DEF old
      <4>3. CASE i = Len(order)
        BY <1>1, <1>5, <1>7, <3>3, <4>2, <4>3
      <4>4. CASE \E j \in 1 .. Len(Stream(s)) : Stream(s)[j] = order[i]
        <5>1. PICK j \in 1 .. Len(old) : old[j] = order[i]
          BY <3>3, <4>4 DEF old
        <5>2. j \in 1 .. Len(new) /\ new[j] = order[i]
          BY <1>5, <4>1, <5>1
        <5> QED  BY <1>7, <3>3, <5>2
      <4> QED  BY <3>1, <4>3, <4>4
    <3> QED  BY <3>2, <3>3
  <2> QED  BY <1>1, <2>1 DEF Accounted
<1>14. DispatcherOK'
  BY <1>1 DEF DeliverSend, DispatcherOK
<1> QED  BY <1>11, <1>12, <1>13, <1>14

-----------------------------------------------------------------------------
(* Subscriptions, publishers and Bus.Close.                                *)

LEMMA RunTakeStep ==
  ASSUME BusInv, NEW s \in Subs, RunTake(s)
  PROVE  DispatcherOK' /\ StreamsDispatched' /\ DispatchOrderKept' /\ Accounted'
<1> USE DEF BusInv
<1>1. ASSUME NEW t \in Subs
      PROVE  Stream(t)' = Stream(t)
  <2>1. CASE t = s
    <3>1. ch'[t] = Tail(ch[s]) /\ handled'[t] = Append(handled[s], Head(ch[s])) /\ ch[s] # <<>>
      BY <2>1 DEF RunTake, BusInvTypeOK
    <3>2. ch[s] \in Seq(Envelopes) /\ handled[s] \in Seq(Envelopes)
      BY DEF BusInvTypeOK
    <3>3. Append(handled[s], Head(ch[s])) \o Tail(ch[s]) = handled[s] \o ch[s]
      BY <3>1, <3>2, TakeKeepsStream
    <3> QED  BY <2>1, <3>1, <3>3 DEF Stream
  <2>2. CASE t # s
    BY <2>2 DEF RunTake, BusInvTypeOK, Stream
  <2> QED  BY <2>1, <2>2
<1>2. Unserved' = Unserved /\ DispatcherOK'
  BY DEF RunTake, dispVars, Unserved, DispatcherOK
<1>3. UNCHANGED <<subs, stop, order, since, dropped>>
  BY DEF RunTake
<1> QED  BY <1>1, <1>2, <1>3, StreamsUntouched, AccountsUntouched

\* A subscription owes nothing to what was dispatched before it was made.
LEMMA SubscribeStep ==
  ASSUME BusInv, NEW s \in Subs, Subscribe(s)
  PROVE  DispatcherOK' /\ StreamsDispatched' /\ DispatchOrderKept' /\ Accounted'
<1> USE DEF BusInv
<1>1. UNCHANGED <<order, dropped, stop>> /\ (\A t \in Subs : Stream(t)' = Stream(t))
      /\ Unserved' = Unserved /\ DispatcherOK'
  BY DEF Subscribe, dispVars, Stream, Unserved, DispatcherOK
<1>2. Len(order) \in Nat /\ since'[s] = Len(order)
      /\ \A t \in Subs : t # s => since'[t] = since[t] /\ (t \in subs' => t \in subs)
  BY LenProperties DEF Subscribe, BusInvTypeOK
<1>3. ASSUME NEW t \in Subs, t \in subs', ~stop[t], NEW i \in since'[t] + 1 .. Len(order)
      PROVE  \/ i = Len(order) /\ t \in Unserved
             \/ order[i].source \notin Filter[t]
             \/ order[i] \in dropped[t]
             \/ \E j \in 1 .. Len(Stream(t)) : Stream(t)[j] = order[i]
  <2>1. t # s
    BY <1>2, <1>3
  <2> QED  BY <1>2, <1>3, <2>1 DEF Accounted
<1>4. Accounted'
  BY <1>1, <1>3 DEF Accounted
<1> QED  BY <1>1, <1>4, StreamsUntouched

LEMMA NextBusInv ==
  ASSUME BusInv, [BusNext]_busVars
  PROVE  BusInv'
<1>1. ASSUME NEW p \in Publishers, Stamp(p) \/ Send(p)
      PROVE  UNCHANGED <<dispVars, ch, order, since, handled, dropped, subs, stop>>
  BY <1>1 DEF Stamp, Send, dispVars, subVars, histVars
<1>2. ASSUME NEW s \in Subs, RunHandled(s) \/ RunExit(s) \/ CloseSubReturns(s) \/ CloseBusDone(s)
      PROVE  UNCHANGED <<dispVars, ch, order, since, handled, dropped, subs, stop>>
  BY <1>2 DEF RunHandled, RunExit, CloseSubReturns, CloseBusDone, dispVars, subVars, histVars
<1>3. ASSUME NEW s \in Subs, CloseSub(s) \/ CloseBusShutdown(s)
      PROVE  /\ UNCHANGED <<dispVars, ch, order, since, handled, dropped>>
             /\ \A t \in Subs : t \in subs' /\ ~stop'[t] => t \in subs /\ ~stop[t]
  BY <1>3 DEF CloseSub, CloseBusShutdown, dispVars, histVars, BusInv, BusInvTypeOK
<1>4. CloseBusStop \/ CloseBusReturns \/ UNCHANGED busVars
        => UNCHANGED <<dispVars, ch, order, since, handled, dropped, subs, stop>>
  BY DEF CloseBusStop, CloseBusReturns, busVars, dispVars, subVars, histVars
<1>5. CloseBusSwap => UNCHANGED <<dispVars, ch, order, since, handled, dropped>> /\ subs' = {}
  BY DEF CloseBusSwap, dispVars, histVars
<1>6. StreamsDispatched' /\ DispatchOrderKept' /\ Accounted' /\ DispatcherOK'
  BY <1>1, <1>2, <1>3, <1>4, <1>5, BusyElsewhere, TakeStep, OfferSteps, DropStep, SendStep,
     RunTakeStep, SubscribeStep DEF BusNext, Dispatch
<1> QED  BY <1>6, NextBusType DEF BusInv

\* What bus.go keeps of its queues, cursors and counters between any two steps of
\* publishers, dispatcher, handlers and of those that subscribe and close.
THEOREM BusInvariance == BusSpec => []BusInv
<1> QED  BY InitBusInv, NextBusInv, PTL DEF BusSpec

\* bus.go: each subscriber sees the dispatcher's order, whatever was dropped
\* for it and whoever subscribes, closes or hangs meanwhile.
THEOREM OrderKept == BusSpec => []DispatchOrderKept
<1>1. BusInv => DispatchOrderKept
  BY DEF BusInv
<1> QED  BY BusInvariance, <1>1, PTL

\* bus.go loses no envelope silently: deliver either sends, or counts, or
\* stops for a subscription that is being closed.
THEOREM NothingLostUncounted == BusSpec => []EveryEnvelopeAccounted
<1>1. BusInv => EveryEnvelopeAccounted
  BY DEF BusInv, Accounted, EveryEnvelopeAccounted, Unserved
<1> QED  BY BusInvariance, <1>1, PTL

\* Subscription.Close returns when the handler's goroutine has ended, for good.
THEOREM CloseIsQuiet == BusSpec => []QuietAfterClose
<1>1. BusInv => QuietAfterClose
  BY DEF BusInv
<1> QED  BY BusInvariance, <1>1, PTL
-----------------------------------------------------------------------------
(* No envelope twice.                                                      *)

\* The envelopes that were put into the inbox, in that order.
Sent == order \o inbox

\* A cursor is given out once: to an envelope about to be sent, or to one
\* that was.
CursorsOnce ==
  /\ \A p \in Publishers : stamped[p] <= cursor
  /\ \A p, q \in Publishers : p # q /\ stamped[p] # 0 => stamped[p] # stamped[q]
  /\ \A i \in 1 .. Len(Sent) :
       /\ Sent[i].cursor <= cursor
       /\ \A p \in Publishers : Sent[i].cursor # stamped[p]
  /\ \A i, j \in 1 .. Len(Sent) : i < j => Sent[i].cursor # Sent[j].cursor

\* What a subscriber is given, and has waiting, are different envelopes.
NothingTwice ==
  \A s \in Subs : \A i, j \in 1 .. Len(Stream(s)) : i < j => Stream(s)[i] # Stream(s)[j]

LEMMA SentType ==
  ASSUME BusInvTypeOK
  PROVE  /\ Sent \in Seq(Envelopes) /\ Len(Sent) = Len(order) + Len(inbox)
         /\ Len(order) \in Nat /\ Len(inbox) \in Nat
         /\ \A i \in 1 .. Len(order) : Sent[i] = order[i]
         /\ \A i \in 1 .. Len(Sent) : Sent[i].cursor \in Nat \ {0}
<1>1. order \in Seq(Envelopes) /\ inbox \in Seq(Envelopes)
  BY DEF BusInvTypeOK
<1>2. /\ Sent \in Seq(Envelopes) /\ Len(Sent) = Len(order) + Len(inbox)
      /\ Len(order) \in Nat /\ Len(inbox) \in Nat
      /\ \A i \in 1 .. Len(order) : Sent[i] = order[i]
  BY <1>1, ConcatProperties, LenProperties DEF Sent
<1>3. ASSUME NEW i \in 1 .. Len(Sent)
      PROVE  Sent[i].cursor \in Nat \ {0}
  <2>1. Sent[i] \in Envelopes
    BY <1>2, ElementOfSeq
  <2>2. \A x \in Envelopes : x.cursor \in 1 .. MaxCursor
    BY DEF Envelopes
  <2> QED  BY <2>1, <2>2, EventBusAssumption
<1> QED  BY <1>2, <1>3

LEMMA InitCursorsOnce == BusInit => CursorsOnce
<1> SUFFICES ASSUME BusInit PROVE CursorsOnce
  OBVIOUS
<1>1. Sent = <<>>
  BY ConcatEmptySeq DEF BusInit, Sent
<1>2. 1 .. Len(Sent) = {}
  BY <1>1
<1> QED  BY <1>2 DEF BusInit, CursorsOnce

LEMMA NextCursorsOnce ==
  ASSUME BusInvTypeOK, CursorsOnce, [BusNext]_busVars
  PROVE  CursorsOnce'
<1> USE DEF BusInvTypeOK
<1>1. ASSUME Sent' = Sent, UNCHANGED <<cursor, stamped>>
      PROVE  CursorsOnce'
  BY <1>1 DEF CursorsOnce
<1>2. ASSUME NEW p \in Publishers, Stamp(p)
      PROVE  CursorsOnce'
  <2>1. Sent' = Sent
    BY <1>2 DEF Stamp, histVars, Sent
  <2>2. cursor' = cursor + 1 /\ stamped' = [stamped EXCEPT ![p] = cursor + 1]
    BY <1>2 DEF Stamp
  <2>3. \A i \in 1 .. Len(Sent) : Sent[i].cursor \in Nat
    BY SentType
  <2> QED  BY <2>1, <2>2, <2>3 DEF CursorsOnce
<1>3. ASSUME NEW p \in Publishers, Send(p)
      PROVE  CursorsOnce'
  <2>1. UNCHANGED <<cursor, order>> /\ stamped' = [stamped EXCEPT ![p] = 0] /\ stamped[p] # 0
    BY <1>3 DEF Send, histVars
  <2>2. \A i \in 1 .. Len(Sent) : Sent[i].cursor \in Nat \ {0}
    BY SentType
  <2>3. CASE UNCHANGED inbox
    <3>1. Sent' = Sent
      BY <2>1, <2>3 DEF Sent
    <3>2. \A q \in Publishers : stamped'[q] = IF q = p THEN 0 ELSE stamped[q]
      BY <2>1
    <3>3. \A i \in 1 .. Len(Sent) : Sent[i].cursor # 0
      BY <2>2
    <3>4. \A q, r \in Publishers : q # r /\ stamped'[q] # 0 => stamped'[q] # stamped'[r]
      BY <3>2 DEF CursorsOnce
    <3>6. \A q \in Publishers : stamped'[q] <= cursor
      <4>1. \A q \in Publishers : stamped[q] <= cursor /\ 0 <= cursor
        BY DEF CursorsOnce
      <4> QED  BY <3>2, <4>1
    <3>5. \A i \in 1 .. Len(Sent) : \A q \in Publishers : Sent[i].cursor # stamped'[q]
      BY <3>2, <3>3 DEF CursorsOnce
    <3> QED  BY <2>1, <3>1, <3>4, <3>5, <3>6 DEF CursorsOnce
  <2>4. CASE inbox' = Append(inbox, [cursor |-> stamped[p], source |-> p])
    <3>1. PICK x : x = [cursor |-> stamped[p], source |-> p]
      OBVIOUS
    <3>2. x \in Envelopes /\ x.cursor = stamped[p]
      BY <2>1, <3>1 DEF Envelopes
    <3>3. Sent' = order \o Append(inbox, x)
      BY <2>1, <2>4, <3>1 DEF Sent
    <3>4. /\ Len(Sent') = Len(Sent) + 1
          /\ \A i \in 1 .. Len(Sent) : Sent'[i] = Sent[i]
          /\ Sent'[Len(Sent) + 1] = x
      BY <3>2, <3>3, SendGrowsStream DEF Sent
    <3>5. Len(Sent) \in Nat
      BY SentType
    <3>6. \A i \in 1 .. Len(Sent') : i \in 1 .. Len(Sent) \/ i = Len(Sent) + 1
      BY <3>4, <3>5
    <3>7. \A i, j \in 1 .. Len(Sent') : i < j => Sent'[i].cursor # Sent'[j].cursor
      <4> SUFFICES ASSUME NEW i \in 1 .. Len(Sent'), NEW j \in 1 .. Len(Sent'), i < j
                   PROVE  Sent'[i].cursor # Sent'[j].cursor
        OBVIOUS
      <4>1. i \in 1 .. Len(Sent) /\ Sent'[i] = Sent[i]
        BY <3>4, <3>5, <3>6
      <4>2. CASE j \in 1 .. Len(Sent)
        BY <3>4, <4>1, <4>2 DEF CursorsOnce
      <4>3. CASE j = Len(Sent) + 1
        BY <3>2, <3>4, <4>1, <4>3 DEF CursorsOnce
      <4> QED  BY <3>6, <4>2, <4>3
    <3>8. \A i \in 1 .. Len(Sent') :
            Sent'[i].cursor <= cursor /\ \A q \in Publishers : Sent'[i].cursor # stamped'[q]
      BY <2>1, <2>2, <3>2, <3>4, <3>6 DEF CursorsOnce
    <3>9. /\ \A q \in Publishers : stamped'[q] <= cursor
          /\ \A q, r \in Publishers : q # r /\ stamped'[q] # 0 => stamped'[q] # stamped'[r]
      BY <2>1, EventBusAssumption DEF CursorsOnce
    <3> QED  BY <2>1, <3>7, <3>8, <3>9 DEF CursorsOnce
  <2> QED  BY <1>3, <2>3, <2>4 DEF Send
<1>4. CASE DispatchTake
  <2>1. order' = Append(order, Head(inbox)) /\ inbox' = Tail(inbox) /\ inbox # <<>>
        /\ UNCHANGED <<cursor, stamped>>
    BY <1>4 DEF DispatchTake
  <2>2. Append(order, Head(inbox)) \o Tail(inbox) = order \o inbox
    BY <2>1, TakeKeepsStream
  <2> QED  BY <1>1, <2>1, <2>2 DEF Sent
<1>5. CASE UNCHANGED <<cursor, stamped, inbox, order>>
  BY <1>1, <1>5 DEF Sent
<1>6. ASSUME NEW s \in Subs,
             \/ DispatchNext(s) \/ Subscribe(s) \/ RunTake(s) \/ RunHandled(s) \/ RunExit(s)
             \/ CloseSub(s) \/ CloseSubReturns(s) \/ CloseBusShutdown(s) \/ CloseBusDone(s)
      PROVE  UNCHANGED <<cursor, stamped, inbox, order>>
  BY <1>6 DEF DispatchNext, Subscribe, RunTake, RunHandled, RunExit, CloseSub, CloseSubReturns,
              CloseBusShutdown, CloseBusDone, pubVars, histVars
<1>7. \/ DispatchExit \/ DispatchSnapshot \/ DispatchDone \/ DeliverSend \/ DeliverWait
      \/ DeliverDrop \/ DeliverAbort \/ CloseBusStop \/ CloseBusSwap \/ CloseBusReturns
      \/ UNCHANGED busVars
      => UNCHANGED <<cursor, stamped, inbox, order>>
  BY DEF DispatchExit, DispatchSnapshot, DispatchDone, DeliverSend, DeliverWait, DeliverDrop,
         DeliverAbort, CloseBusStop, CloseBusSwap, CloseBusReturns, busVars, pubVars, histVars
<1> QED  BY <1>2, <1>3, <1>4, <1>5, <1>6, <1>7 DEF BusNext, Dispatch

\* bus.go: Publish stamps each envelope with a cursor of its own, and the
\* dispatcher offers it to a subscription once.
THEOREM NeverTwice == BusSpec => []NothingTwice
<1>1. BusInv /\ CursorsOnce => NothingTwice
  <2> SUFFICES ASSUME BusInv, CursorsOnce, NEW s \in Subs,
                      NEW i \in 1 .. Len(Stream(s)), NEW j \in 1 .. Len(Stream(s)), i < j
               PROVE  Stream(s)[i] # Stream(s)[j]
    BY DEF NothingTwice
  <2>1. PICK m \in 1 .. Len(order), n \in 1 .. Len(order) :
          m < n /\ order[m] = Stream(s)[i] /\ order[n] = Stream(s)[j]
    BY DEF BusInv, DispatchOrderKept
  <2>2. order[m] = Sent[m] /\ order[n] = Sent[n] /\ m \in 1 .. Len(Sent) /\ n \in 1 .. Len(Sent)
    BY SentType DEF BusInv
  <2> QED  BY <2>1, <2>2 DEF CursorsOnce
<1>2. BusInv /\ CursorsOnce /\ [BusNext]_busVars => CursorsOnce'
  BY NextCursorsOnce DEF BusInv
<1> QED  BY BusInvariance, InitCursorsOnce, <1>1, <1>2, PTL DEF BusSpec
=============================================================================
