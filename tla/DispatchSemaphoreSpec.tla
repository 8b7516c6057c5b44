------------------------ MODULE DispatchSemaphoreSpec ------------------------
(***************************************************************************)
(* What dispatch/semaphore.h promises: a counting semaphore.  "count" is   *)
(* the number of waits that may still return zero, "waiting" the threads   *)
(* inside dispatch_semaphore_wait().                                       *)
(***************************************************************************)
EXTENDS Naturals

CONSTANTS Threads, Orig

VARIABLES count, waiting

specVars == <<count, waiting>>

Init == count = Orig /\ waiting = {}

Signal == count' = count + 1 /\ UNCHANGED waiting

\* A call that finds the count positive need not be seen waiting.
AcquireAtOnce(t) == /\ t \notin waiting
                    /\ count > 0
                    /\ count' = count - 1
                    /\ UNCHANGED waiting

Enter(t) == t \notin waiting /\ waiting' = waiting \cup {t} /\ UNCHANGED count

Acquire(t) == /\ t \in waiting
              /\ count > 0
              /\ count' = count - 1
              /\ waiting' = waiting \ {t}

\* The timeout occurred: the call returns non-zero and takes nothing.
GiveUp(t) == t \in waiting /\ waiting' = waiting \ {t} /\ UNCHANGED count

Next == \/ Signal
        \/ \E t \in Threads : AcquireAtOnce(t) \/ Enter(t) \/ Acquire(t)
                                \/ GiveUp(t)

Spec == Init /\ [][Next]_specVars
=============================================================================
