----------------------------- MODULE Selection ------------------------------
(***************************************************************************)
(* Some entries of a sequence, in its order: what the loops over a log do  *)
(* that keep those entries that pass a test.                               *)
(***************************************************************************)
EXTENDS Integers, FiniteSets

\* How many of the places K come up to n.
Rank(K, n) == Cardinality({m \in K : m <= n})

\* The entries of s at the places K.
EntriesAt(s, K) == [i \in 1 .. Cardinality(K) |-> s[CHOOSE n \in K : Rank(K, n) = i]]
=============================================================================
