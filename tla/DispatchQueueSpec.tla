------------------------- MODULE DispatchQueueSpec -------------------------
(***************************************************************************)
(* What a serial queue promises: items run one at a time, those that are   *)
(* queued in the order in which they were.  A synchronous caller that      *)
(* finds the queue free may run its block without queueing it.             *)
(***************************************************************************)
EXTENDS Sequences

CONSTANTS Items, Callers   \* what may be queued, what may run without

VARIABLES fifo,     \* the items queued
          active    \* the item whose turn it is

specVars == <<fifo, active>>

Init == fifo = <<>> /\ active = {}

Submit(i) == /\ \A k \in DOMAIN fifo : fifo[k] # i
             /\ i \notin active
             /\ fifo' = Append(fifo, i)
             /\ UNCHANGED active

StartNext == /\ active = {}
             /\ fifo # <<>>
             /\ active' = {Head(fifo)}
             /\ fifo' = Tail(fifo)

StartDirectly(i) == /\ active = {}
                    /\ active' = {i}
                    /\ UNCHANGED fifo

Finish == /\ active # {}
          /\ active' = {}
          /\ UNCHANGED fifo

Next == \/ \E i \in Items : Submit(i)
        \/ StartNext
        \/ \E i \in Callers : StartDirectly(i)
        \/ Finish

Spec == Init /\ [][Next]_specVars
=============================================================================
