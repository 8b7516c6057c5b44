--------------------------- MODULE MCObjcRefcount ---------------------------
EXTENDS ObjcRefcount, TLC

CONSTANTS o1, o2

\* nil has the first side table, the objects one each.
MCStripe == NULL :> 0 @@ o1 :> 1 @@ o2 :> 2

MCSymmetry == Permutations(Threads) \cup Permutations(Refs)

=============================================================================
