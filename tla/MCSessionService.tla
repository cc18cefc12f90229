-------------------------- MODULE MCSessionService --------------------------
(* One goroutine executes and sends, another stops and cleans up. *)
EXTENDS SessionService
CONSTANTS c1, c2
MCCallers == {c1}
MCStoppers == {c2}
=============================================================================
