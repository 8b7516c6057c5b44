------------------------------ MODULE Counting ------------------------------
(***************************************************************************)
(* How many threads are at one of a set of locations.                      *)
(***************************************************************************)
EXTENDS Integers, FiniteSets

CountAt(T, f, A) == Cardinality({t \in T : f[t] \in A})

Positive(n) == IF n > 0 THEN n ELSE 0
=============================================================================
