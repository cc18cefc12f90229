------------------------------ MODULE MCLockMgr ------------------------------
(***************************************************************************)
(* LockMgr for TLC: two owners compete for one key with a short and a long *)
(* lease, two levels of reentrancy and a notification channel of one slot. *)
(***************************************************************************)
EXTENDS LockMgr
=============================================================================
