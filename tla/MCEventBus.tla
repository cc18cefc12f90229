----------------------------- MODULE MCEventBus -----------------------------
(***************************************************************************)
(* EventBus for TLC: two publishers, channels of one slot, a subscriber of *)
(* everything and one whose filter admits a single publisher.  Two         *)
(* envelopes are enough for a full channel and a drop.                     *)
(***************************************************************************)
EXTENDS EventBus

CONSTANTS p1, p2, s1, s2

MCPublishers == {p1, p2}
MCSubs == {s1, s2}
MCFilter == [s \in {s1, s2} |-> IF s = s1 THEN {p1, p2} ELSE {p1}]

\* One subscriber of everything.
OneSub == {s1}
OneFilter == [s \in {s1} |-> {p1, p2}]
=============================================================================
