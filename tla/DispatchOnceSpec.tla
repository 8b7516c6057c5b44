-------------------------- MODULE DispatchOnceSpec --------------------------
(***************************************************************************)
(* What dispatch_once() promises its callers (libdispatch dispatch/once.h: *)
(* "Execute a block once and only once", "Always call dispatch_once()      *)
(* before using or testing any variables that are initialized by the       *)
(* block"): the function runs once, and no call returns before it has      *)
(* completed.  DispatchOnce is shown to implement this module.             *)
(***************************************************************************)
EXTENDS Naturals

CONSTANT Threads       \* the threads that may call dispatch_once

VARIABLES begun,       \* how often the function was called
          completed,   \* how often it has returned
          inCall       \* the threads inside dispatch_once_f

specVars == <<begun, completed, inCall>>

Init == /\ begun = 0
        /\ completed = 0
        /\ inCall = {}

Enter(t) == /\ t \notin inCall
            /\ inCall' = inCall \cup {t}
            /\ UNCHANGED <<begun, completed>>

\* The first caller to get there runs the function.  Nobody does so again.
Begin(t) == /\ t \in inCall
            /\ begun = 0
            /\ begun' = 1
            /\ UNCHANGED <<completed, inCall>>

Complete(t) == /\ t \in inCall
               /\ begun = 1
               /\ completed = 0
               /\ completed' = 1
               /\ UNCHANGED <<begun, inCall>>

Leave(t) == /\ t \in inCall
            /\ completed = 1
            /\ inCall' = inCall \ {t}
            /\ UNCHANGED <<begun, completed>>

Next == \E t \in Threads : Enter(t) \/ Begin(t) \/ Complete(t) \/ Leave(t)

Spec == Init /\ [][Next]_specVars
=============================================================================
