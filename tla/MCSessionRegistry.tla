------------------------- MODULE MCSessionRegistry -------------------------
(***************************************************************************)
(* SessionRegistry for TLC: two connections that meet in two sessions, and *)
(* three runtime entries, so that a session gets a second entry while its  *)
(* first is being cleaned up.                                              *)
(***************************************************************************)
EXTENDS SessionRegistry

CONSTANTS c1, c2, s1, s2

MCConns == {c1, c2}
MCSessions == {s1, s2}
=============================================================================
