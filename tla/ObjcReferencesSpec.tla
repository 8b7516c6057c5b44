------------------------- MODULE ObjcReferencesSpec -------------------------
(***************************************************************************)
(* What retain, release and __weak variables promise: an object lives as   *)
(* long as there is a strong reference to it, and with the last of them    *)
(* every weak variable that holds it becomes nil, in one step.             *)
(***************************************************************************)
CONSTANTS Objects, Refs, Slots, NULL

VARIABLES strong, weak, heap

referenceVars == <<strong, weak, heap>>

Init == /\ strong = [r \in Refs |-> NULL]
        /\ weak = [w \in Slots |-> NULL]
        /\ heap = [o \in Objects |-> "freed"]

Held(o) == \E r \in Refs : strong[r] = o

New(o, r) == /\ heap[o] = "freed" /\ strong[r] = NULL
             /\ heap' = [heap EXCEPT ![o] = "live"]
             /\ strong' = [strong EXCEPT ![r] = o]
             /\ UNCHANGED weak

\* From another strong reference or from a weak variable.
Copy(o, r) == /\ strong[r] = NULL
              /\ Held(o) \/ \E w \in Slots : weak[w] = o
              /\ strong' = [strong EXCEPT ![r] = o]
              /\ UNCHANGED <<weak, heap>>

Drop(r) == /\ strong[r] # NULL
           /\ strong' = [strong EXCEPT ![r] = NULL]
           /\ weak' = [w \in Slots |->
                         IF \E q \in Refs \ {r} : strong[q] = weak[w]
                         THEN weak[w] ELSE NULL]
           /\ UNCHANGED heap

Assign(w, o) == /\ o = NULL \/ Held(o)
                /\ weak' = [weak EXCEPT ![w] = o]
                /\ UNCHANGED <<strong, heap>>

Reclaim(o) == /\ heap[o] = "live" /\ ~Held(o)
              /\ heap' = [heap EXCEPT ![o] = "freed"]
              /\ UNCHANGED <<strong, weak>>

Next == \/ \E o \in Objects, r \in Refs : New(o, r) \/ Copy(o, r)
        \/ \E r \in Refs : Drop(r)
        \/ \E w \in Slots, o \in Objects \cup {NULL} : Assign(w, o)
        \/ \E o \in Objects : Reclaim(o)

Spec == Init /\ [][Next]_referenceVars

=============================================================================
