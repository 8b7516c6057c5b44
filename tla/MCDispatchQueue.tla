-------------------------- MODULE MCDispatchQueue --------------------------
(* Model-checking instance of DispatchQueue: clients, workers and          *)
(* continuations are interchangeable.                                      *)
EXTENDS DispatchQueue

Symmetry == Permutations(Clients) \cup Permutations(Workers)
              \cup Permutations(Works)
=============================================================================
