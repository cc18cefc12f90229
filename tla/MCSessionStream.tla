-------------------------- MODULE MCSessionStream --------------------------
(***************************************************************************)
(* SessionStream for TLC: one client that comes and goes and says it saw   *)
(* nothing or cursor 2 (which the entry may not have reached), two events  *)
(* with their notices and AI status events, a channel of one slot and two  *)
(* pending events, so that the channel sheds and the pending list is cut.  *)
(* The processors are the worker, the runner and one handler.              *)
(***************************************************************************)
EXTENDS SessionStream

CONSTANTS c1, h1

MCConns == {c1}
MCHandlers == {h1}
=============================================================================
