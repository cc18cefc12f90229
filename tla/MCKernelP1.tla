----------------------------- MODULE MCKernelP1 -----------------------------
(***************************************************************************)
(* KernelP1 for TLC: two executions of one session.                        *)
(***************************************************************************)
EXTENDS KernelP1
=============================================================================
