------------------------------- MODULE LockMgr -------------------------------
(***************************************************************************)
(* kernel/lockmgr: the string-keyed, TTL-bounded, reentrant lock manager.  *)
(* Each held key has a timer (time.AfterFunc) whose callback `expire` runs *)
(* on a goroutine of its own: Timer.Stop does not recall a callback that   *)
(* has already started, so callbacks of earlier leases are still about     *)
(* when the key has been renewed, released or granted again, and the       *)
(* notification an expiry sends leaves the mutex first.                    *)
(*                                                                         *)
(* The deadline of a key's timer is the expireAt of its lease: Acquire     *)
(* computes both from the same instant and the same ttl.                   *)
(***************************************************************************)
EXTENDS Integers, Sequences

CONSTANTS
  Keys,       \* resources: session ids, files, services
  Owners,     \* execution or connection ids
  NoOwner,    \* owner field of a key with no entry
  TTLs,       \* lease lengths callers ask for, after the ttl <= 0 default
  ExpiredCap, \* capacity of expiredCh, 64 in the code
  MaxTime,    \* bound: the clock stops here
  MaxDepth    \* bound: deepest reentrant acquisition explored

ASSUME LockMgrAssumption ==
  /\ NoOwner \notin Owners
  /\ TTLs \subseteq Nat \ {0}
  /\ ExpiredCap \in Nat
  /\ MaxTime \in Nat
  /\ MaxDepth \in Nat

VARIABLES
  entries,    \* the map: key -> owner, depth, expireAt (Free: no entry)
  timer,      \* the entry's timer: "none", "armed", "fired"
  callbacks,  \* callbacks[k][o]: expire(k, o) started, mutex not taken yet
  sending,    \* sending[k][o]: expire(k, o) past its unlock, before its select
  expiredCh,  \* leases waiting in the Expired() channel
  status,     \* "open", "closed" (after Close), "crashed" (a Go panic)
  now         \* the clock, in ticks

lockVars == <<entries, timer, callbacks, sending, expiredCh, status>>
vars == <<lockVars, now>>

Free == [owner |-> NoOwner, depth |-> 0, expireAt |-> 0]

Held(k) == entries[k].owner # NoOwner

Overdue(k) == Held(k) /\ entries[k].expireAt <= now

Init ==
  /\ entries = [k \in Keys |-> Free]
  /\ timer = [k \in Keys |-> "none"]
  /\ callbacks = [k \in Keys |-> [o \in Owners |-> 0]]
  /\ sending = [k \in Keys |-> [o \in Owners |-> 0]]
  /\ expiredCh = <<>>
  /\ status = "open"
  /\ now = 0

-----------------------------------------------------------------------------
(* The exported operations, each one critical section.                     *)

\* Fault: a renewal that leaves the running timer in place.
AcquireKeepsTimer(k, o, ttl) ==
  /\ status = "open"
  /\ entries[k].owner \in {NoOwner, o}
  /\ entries[k].depth < MaxDepth
  /\ entries' = [entries EXCEPT ![k] =
                   [owner |-> o, depth |-> entries[k].depth + 1, expireAt |-> now + ttl]]
  /\ timer' = [timer EXCEPT ![k] = IF Held(k) THEN timer[k] ELSE "armed"]
  /\ UNCHANGED <<callbacks, sending, expiredCh, status, now>>

\* A new entry, or a reentrant hold that restarts the lease whatever was
\* left of it.  Another owner's entry, overdue or not, is ErrConflict, which
\* changes nothing.
Acquire(k, o, ttl) ==
  /\ status = "open"
  /\ entries[k].owner \in {NoOwner, o}
  /\ entries[k].depth < MaxDepth
  /\ entries' = [entries EXCEPT ![k] =
                   [owner |-> o, depth |-> entries[k].depth + 1, expireAt |-> now + ttl]]
  /\ timer' = [timer EXCEPT ![k] = "armed"]
  /\ UNCHANGED <<callbacks, sending, expiredCh, status, now>>

\* Close sets the map to nil: a later Acquire writes to a nil map.
AcquireAfterClose ==
  /\ status = "closed"
  /\ status' = "crashed"
  /\ UNCHANGED <<entries, timer, callbacks, sending, expiredCh, now>>

\* Fault: a release that never frees the key.
ReleaseKeepsEntry(k, o) ==
  /\ status = "open"
  /\ entries[k].owner = o
  /\ entries' = [entries EXCEPT ![k].depth = entries[k].depth - 1]
  /\ UNCHANGED <<timer, callbacks, sending, expiredCh, status, now>>

\* One level off; the last one stops the timer and deletes the entry.  A
\* caller that is not the holder gets ErrNotHeld, which changes nothing.
Release(k, o) ==
  /\ status = "open"
  /\ entries[k].owner = o
  /\ IF entries[k].depth <= 1
     THEN /\ entries' = [entries EXCEPT ![k] = Free]
          /\ timer' = [timer EXCEPT ![k] = "none"]
     ELSE /\ entries' = [entries EXCEPT ![k] =
                           [entries[k] EXCEPT !.depth = entries[k].depth - 1]]
          /\ UNCHANGED timer
  /\ UNCHANGED <<callbacks, sending, expiredCh, status, now>>

\* Drops the entry whoever owns it.
ForceRelease(k) ==
  /\ status = "open"
  /\ Held(k)
  /\ entries' = [entries EXCEPT ![k] = Free]
  /\ timer' = [timer EXCEPT ![k] = "none"]
  /\ UNCHANGED <<callbacks, sending, expiredCh, status, now>>

\* Stops the timers, drops the map, closes both channels; started callbacks
\* and sends are not waited for.
Close ==
  /\ status = "open"
  /\ status' = "closed"
  /\ entries' = [k \in Keys |-> Free]
  /\ timer' = [k \in Keys |-> "none"]
  /\ UNCHANGED <<callbacks, sending, expiredCh, now>>

-----------------------------------------------------------------------------
(* The timer goroutines.                                                   *)

\* The runtime starts the callback of a due timer, at or after the deadline.
TimerFires(k) ==
  /\ status = "open"
  /\ timer[k] = "armed"
  /\ entries[k].expireAt <= now
  /\ timer' = [timer EXCEPT ![k] = "fired"]
  /\ callbacks' = [callbacks EXCEPT ![k][entries[k].owner] = callbacks[k][entries[k].owner] + 1]
  /\ UNCHANGED <<entries, sending, expiredCh, status, now>>

\* expire's early returns: the key is gone, another owner's, or renewed.
ExpireNothing(k, o) ==
  /\ status # "crashed"
  /\ callbacks[k][o] > 0
  /\ entries[k].owner # o \/ entries[k].expireAt > now
  /\ callbacks' = [callbacks EXCEPT ![k][o] = callbacks[k][o] - 1]
  /\ UNCHANGED <<entries, timer, sending, expiredCh, status, now>>

\* Fault: expire trusts its timer and does not look at expireAt.
ExpireRenewedLease(k, o) ==
  /\ status = "open"
  /\ callbacks[k][o] > 0
  /\ entries[k].owner = o
  /\ entries' = [entries EXCEPT ![k] = Free]
  /\ timer' = [timer EXCEPT ![k] = "none"]
  /\ callbacks' = [callbacks EXCEPT ![k][o] = callbacks[k][o] - 1]
  /\ sending' = [sending EXCEPT ![k][o] = sending[k][o] + 1]
  /\ UNCHANGED <<expiredCh, status, now>>

\* expire deletes the overdue entry.  It does not stop the entry's timer: if
\* the callback is an earlier lease's, that timer is due as well and its own
\* callback is still to come.
ExpireLease(k, o) ==
  /\ status = "open"
  /\ callbacks[k][o] > 0
  /\ entries[k].owner = o
  /\ entries[k].expireAt <= now
  /\ entries' = [entries EXCEPT ![k] = Free]
  /\ timer' = [timer EXCEPT ![k] = "none"]
  /\ callbacks' = [callbacks EXCEPT ![k][o] =
                     IF timer[k] = "armed" THEN callbacks[k][o] ELSE callbacks[k][o] - 1]
  /\ sending' = [sending EXCEPT ![k][o] = sending[k][o] + 1]
  /\ UNCHANGED <<expiredCh, status, now>>

\* The select after the unlock: a full channel drops the lease.
NotifyExpired(k, o) ==
  /\ status = "open"
  /\ sending[k][o] > 0
  /\ sending' = [sending EXCEPT ![k][o] = sending[k][o] - 1]
  /\ expiredCh' = IF Len(expiredCh) < ExpiredCap THEN Append(expiredCh, <<k, o>>) ELSE expiredCh
  /\ UNCHANGED <<entries, timer, callbacks, status, now>>

\* After Close both cases of the select are ready, and the one that sends on
\* the closed channel panics.
NotifyAfterClose(k, o) ==
  /\ status = "closed"
  /\ sending[k][o] > 0
  /\ \/ /\ sending' = [sending EXCEPT ![k][o] = sending[k][o] - 1]
        /\ UNCHANGED status
     \/ /\ status' = "crashed"
        /\ UNCHANGED sending
  /\ UNCHANGED <<entries, timer, callbacks, expiredCh, now>>

-----------------------------------------------------------------------------

\* Whoever reads Expired().
Drain ==
  /\ expiredCh # <<>>
  /\ expiredCh' = Tail(expiredCh)
  /\ UNCHANGED <<entries, timer, callbacks, sending, status, now>>

Tick ==
  /\ now < MaxTime
  /\ now' = now + 1
  /\ UNCHANGED lockVars

Expire(k, o) == ExpireNothing(k, o) \/ ExpireLease(k, o)

Next ==
  \/ \E k \in Keys, o \in Owners, ttl \in TTLs : Acquire(k, o, ttl)
  \/ \E k \in Keys, o \in Owners : Release(k, o)
  \/ \E k \in Keys : ForceRelease(k) \/ TimerFires(k)
  \/ \E k \in Keys, o \in Owners : Expire(k, o)
  \/ \E k \in Keys, o \in Owners : NotifyExpired(k, o) \/ NotifyAfterClose(k, o)
  \/ AcquireAfterClose \/ Close \/ Drain \/ Tick

Spec == Init /\ [][Next]_vars

\* The Go runtime fires due timers and runs their goroutines; callers and
\* readers of Expired() promise nothing, and neither does the clock.
FairSpec ==
  /\ Spec
  /\ \A k \in Keys : WF_vars(TimerFires(k))
  /\ \A k \in Keys, o \in Owners : WF_vars(Expire(k, o))

-----------------------------------------------------------------------------

\* Type invariant.
TypeOK ==
  /\ entries \in [Keys -> [owner : Owners \cup {NoOwner}, depth : Nat, expireAt : Nat]]
  /\ timer \in [Keys -> {"none", "armed", "fired"}]
  /\ callbacks \in [Keys -> [Owners -> Nat]]
  /\ sending \in [Keys -> [Owners -> Nat]]
  /\ expiredCh \in Seq(Keys \X Owners)
  /\ status \in {"open", "closed", "crashed"}
  /\ now \in Nat

\* A held key is never forgotten: its timer is still to fire, or has fired
\* because the lease is overdue and the owner's callback is still to run.
\* Renewals, stale callbacks and re-grants to the same owner all pass through
\* here; only a renewal moves expireAt, and a renewal re-arms.
TimerTracksLease ==
  \A k \in Keys :
    /\ Held(k) <=> timer[k] # "none"
    /\ Held(k) <=> entries[k].depth > 0
    /\ timer[k] = "fired" => /\ Overdue(k)
                             /\ callbacks[k][entries[k].owner] > 0

\* The lock manager implements the lease it promises (module LeaseLock): no
\* key passes to a second owner unless it was freed first, and only overdue
\* leases lapse, each reported once, whatever callbacks are in flight.
Lease == INSTANCE LeaseLock WITH lease <- entries, notices <- sending
ImplementsLease == Lease!LeaseSpec

\* An overdue lease does not stay: it expires, or its owner renews it, or it
\* is given up.
OverdueIsReclaimed == \A k \in Keys : Overdue(k) ~> ~Overdue(k)
=============================================================================
