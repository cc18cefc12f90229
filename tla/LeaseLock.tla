------------------------------ MODULE LeaseLock ------------------------------
(***************************************************************************)
(* What the lock manager promises its callers, without timers, callbacks   *)
(* or notifications: a reentrant lease per key.  A free key is granted to  *)
(* anyone, a held key only to its owner, who thereby renews it; a lease    *)
(* ends when its owner has returned it as often as it was granted, when it *)
(* is revoked, when the manager shuts down, or when it lapses.  Only an    *)
(* overdue lease lapses, and exactly the lapses are reported.              *)
(***************************************************************************)
EXTENDS Integers

CONSTANTS
  Keys,     \* lockable resources
  Owners,   \* lock owners
  NoOwner,  \* owner field of a free key
  TTLs      \* lease lengths that callers ask for

VARIABLES
  lease,    \* lease[k]: who holds k, how often, and until when
  notices,  \* notices[k][o]: lapses of o's leases of k still to be reported
  now       \* the clock

leaseVars == <<lease, notices, now>>

FreeLease == [owner |-> NoOwner, depth |-> 0, expireAt |-> 0]

Leased(k) == lease[k].owner # NoOwner

LeaseInit ==
  /\ lease = [k \in Keys |-> FreeLease]
  /\ notices = [k \in Keys |-> [o \in Owners |-> 0]]
  /\ now = 0

Grant(k, o, ttl) ==
  /\ lease[k].owner \in {NoOwner, o}
  /\ lease' = [lease EXCEPT ![k] =
                 [owner |-> o, depth |-> lease[k].depth + 1, expireAt |-> now + ttl]]
  /\ UNCHANGED <<notices, now>>

\* The owner gives one of its grants back; the last one frees the key.
Return(k) ==
  /\ Leased(k)
  /\ lease' = [lease EXCEPT ![k] = IF lease[k].depth <= 1 THEN FreeLease
                                   ELSE [lease[k] EXCEPT !.depth = lease[k].depth - 1]]
  /\ UNCHANGED <<notices, now>>

\* Only an overdue lease lapses, and the lapse is reported.
Lapse(k) ==
  /\ Leased(k)
  /\ lease[k].expireAt <= now
  /\ lease' = [lease EXCEPT ![k] = FreeLease]
  /\ notices' = [notices EXCEPT ![k][lease[k].owner] = notices[k][lease[k].owner] + 1]
  /\ UNCHANGED now

Report(k, o) ==
  /\ notices[k][o] > 0
  /\ notices' = [notices EXCEPT ![k][o] = notices[k][o] - 1]
  /\ UNCHANGED <<lease, now>>

Revoke(k) ==
  /\ Leased(k)
  /\ lease' = [lease EXCEPT ![k] = FreeLease]
  /\ UNCHANGED <<notices, now>>

Shutdown ==
  /\ lease' = [k \in Keys |-> FreeLease]
  /\ UNCHANGED <<notices, now>>

Pass ==
  /\ now' = now + 1
  /\ UNCHANGED <<lease, notices>>

LeaseNext ==
  \/ \E k \in Keys, o \in Owners, ttl \in TTLs : Grant(k, o, ttl)
  \/ \E k \in Keys : Return(k) \/ Lapse(k) \/ Revoke(k)
  \/ \E k \in Keys, o \in Owners : Report(k, o)
  \/ Shutdown
  \/ Pass

LeaseSpec == LeaseInit /\ [][LeaseNext]_leaseVars
=============================================================================
