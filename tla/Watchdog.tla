------------------------------ MODULE Watchdog ------------------------------
(***************************************************************************)
(* kernel/watchdog: one idle timer per watched execution, pushed back by   *)
(* every event the bus delivers for it.  onTimeout runs on the timer's     *)
(* goroutine, so a callback that has started survives Stop; the callback   *)
(* that finds the deadline moved re-arms and forgets the timer the         *)
(* heartbeat had armed, which then is an orphan nobody can stop; and the   *)
(* lock is force-released, then the timeout published, outside the mutex.  *)
(*                                                                         *)
(* The item's timer is due at the item's deadline: both are computed from  *)
(* the same instant and the same timeout.                                  *)
(***************************************************************************)
EXTENDS Integers

CONSTANTS
  Execs,          \* execution ids
  Keys,           \* lock keys
  NoKey,          \* LockKey = ""
  MinIdle,        \* Config.MinIdleTimeout
  DefaultIdle,    \* DefaultIdleTimeout
  Horizon         \* bound: latest deadline explored

VARIABLES
  items,        \* the map: execution -> lock key, timeout, deadline, timer
  orphans,      \* orphans[e][t]: armed timers of e due at t that no item refers to
  due,          \* due[e]: onTimeout(e) started, mutex not taken yet
  forcing,      \* forcing[e][k]: onTimeout(e) between its unlock and ForceRelease(k)
  publishing,   \* publishing[e]: onTimeout(e) about to publish watchdog_timeout
  watching,     \* FALSE once Close has dropped the map
  now

watchdogVars == <<items, orphans, due, forcing, publishing, watching>>

NoItem == [key |-> NoKey, timeout |-> 0, deadline |-> 0, timer |-> "none"]

Watched(e) == items[e].timer # "none"

Idle(e) == Watched(e) /\ items[e].deadline <= now

\* Watch's floor and default for the requested timeout.
IdleTimeout(requested) ==
  IF requested >= MinIdle THEN requested
  ELSE IF requested > 0 THEN MinIdle ELSE DefaultIdle

WatchdogInit ==
  /\ items = [e \in Execs |-> NoItem]
  /\ orphans = [e \in Execs |-> [t \in 0 .. Horizon |-> 0]]
  /\ due = [e \in Execs |-> 0]
  /\ forcing = [e \in Execs |-> [k \in Keys |-> 0]]
  /\ publishing = [e \in Execs |-> 0]
  /\ watching = TRUE

-----------------------------------------------------------------------------

\* A new item replaces the old one, whose timer is stopped.
Watch(e, k, requested) ==
  LET timeout == IdleTimeout(requested) IN
  /\ watching
  /\ now + timeout <= Horizon
  /\ items' = [items EXCEPT ![e] =
                 [key |-> k, timeout |-> timeout, deadline |-> now + timeout, timer |-> "armed"]]
  /\ UNCHANGED <<orphans, due, forcing, publishing, watching>>

\* Fault: a heartbeat that does not re-arm a timer that has fired.
HeartbeatKeepsTimer(e) ==
  /\ IF Watched(e) /\ now + items[e].timeout <= Horizon
     THEN items' = [items EXCEPT ![e].deadline = now + items[e].timeout]
     ELSE UNCHANGED items
  /\ UNCHANGED <<orphans, due, forcing, publishing, watching>>

\* An event about e: the deadline moves, the timer is stopped and re-armed.
Heartbeat(e) ==
  /\ IF Watched(e) /\ now + items[e].timeout <= Horizon
     THEN items' = [items EXCEPT ![e].deadline = now + items[e].timeout, ![e].timer = "armed"]
     ELSE UNCHANGED items
  /\ UNCHANGED <<orphans, due, forcing, publishing, watching>>

Settle(e) ==
  /\ items' = [items EXCEPT ![e] = NoItem]
  /\ UNCHANGED <<orphans, due, forcing, publishing, watching>>

\* Detaches from the bus (no callback of the subscription runs any more),
\* then stops the items' timers and drops the map.
CloseWatchdog ==
  /\ watching
  /\ watching' = FALSE
  /\ items' = [e \in Execs |-> NoItem]
  /\ UNCHANGED <<orphans, due, forcing, publishing>>

-----------------------------------------------------------------------------
(* Timers and their goroutines.                                            *)

ItemTimerFires(e) ==
  /\ items[e].timer = "armed"
  /\ items[e].deadline <= now
  /\ items' = [items EXCEPT ![e].timer = "fired"]
  /\ due' = [due EXCEPT ![e] = due[e] + 1]
  /\ UNCHANGED <<orphans, forcing, publishing, watching>>

OrphanFires(e, t) ==
  /\ orphans[e][t] > 0
  /\ t <= now
  /\ orphans' = [orphans EXCEPT ![e][t] = orphans[e][t] - 1]
  /\ due' = [due EXCEPT ![e] = due[e] + 1]
  /\ UNCHANGED <<items, forcing, publishing, watching>>

\* onTimeout for an execution that is no longer watched.
TimeoutOfNothing(e) ==
  /\ due[e] > 0
  /\ ~Watched(e)
  /\ due' = [due EXCEPT ![e] = due[e] - 1]
  /\ UNCHANGED <<items, orphans, forcing, publishing, watching>>

\* "A heartbeat raced with the timer; reschedule": a second timer for the
\* same deadline, and the item forgets the first.
Reschedule(e) ==
  /\ due[e] > 0
  /\ Watched(e)
  /\ now < items[e].deadline
  /\ due' = [due EXCEPT ![e] = due[e] - 1]
  /\ orphans' = [orphans EXCEPT ![e][items[e].deadline] = orphans[e][items[e].deadline] + 1]
  /\ UNCHANGED <<items, forcing, publishing, watching>>

\* Fault: a timeout that only warns.
TimeOutWarnsOnly(e) ==
  /\ due[e] > 0
  /\ Idle(e)
  /\ items' = [items EXCEPT ![e] = NoItem]
  /\ due' = [due EXCEPT ![e] = IF items[e].timer = "armed" THEN due[e] ELSE due[e] - 1]
  /\ publishing' = [publishing EXCEPT ![e] = publishing[e] + 1]
  /\ UNCHANGED <<orphans, forcing, watching>>

\* The execution has been idle: onTimeout deletes the item and unlocks.  The
\* item's timer is not stopped; if it has not fired yet it is due as well,
\* and its callback is still to come.
TimeOut(e) ==
  /\ due[e] > 0
  /\ Idle(e)
  /\ items' = [items EXCEPT ![e] = NoItem]
  /\ due' = [due EXCEPT ![e] = IF items[e].timer = "armed" THEN due[e] ELSE due[e] - 1]
  /\ IF items[e].key \in Keys
     THEN /\ forcing' = [forcing EXCEPT ![e][items[e].key] = forcing[e][items[e].key] + 1]
          /\ UNCHANGED publishing
     ELSE /\ publishing' = [publishing EXCEPT ![e] = publishing[e] + 1]
          /\ UNCHANGED forcing
  /\ UNCHANGED <<orphans, watching>>

\* The call of ForceRelease is made; what it does to the lock is the lock
\* manager's affair.
Forced(e, k) ==
  /\ forcing[e][k] > 0
  /\ forcing' = [forcing EXCEPT ![e][k] = forcing[e][k] - 1]
  /\ publishing' = [publishing EXCEPT ![e] = publishing[e] + 1]
  /\ UNCHANGED <<items, orphans, due, watching>>

\* The ErrorEvent with code watchdog_timeout goes onto the bus.
PublishTimeout(e) ==
  /\ publishing[e] > 0
  /\ publishing' = [publishing EXCEPT ![e] = publishing[e] - 1]
  /\ UNCHANGED <<items, orphans, due, forcing, watching>>

-----------------------------------------------------------------------------

ItemType == [key : Keys \cup {NoKey}, timeout : Nat, deadline : Nat,
             timer : {"none", "armed", "fired"}]

WatchdogTypeOK ==
  /\ items \in [Execs -> ItemType]
  /\ orphans \in [Execs -> [0 .. Horizon -> Nat]]
  /\ due \in [Execs -> Nat]
  /\ forcing \in [Execs -> [Keys -> Nat]]
  /\ publishing \in [Execs -> Nat]
  /\ watching \in BOOLEAN

\* A watched execution is never forgotten: its timer is armed, or its
\* deadline has passed and a callback is on its way.
WatchGuarded ==
  \A e \in Execs :
    Watched(e) => \/ items[e].timer = "armed"
                  \/ Idle(e) /\ due[e] > 0
=============================================================================
