---------------------------- MODULE MCPermission ----------------------------
(***************************************************************************)
(* Permission for TLC: a connection and the rules answer a process with up *)
(* to two unanswered requests at a time.                                   *)
(***************************************************************************)
EXTENDS Permission

CONSTANTS c1

MCConns == {c1}
=============================================================================
