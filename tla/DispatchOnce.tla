---------------------------- MODULE DispatchOnce ----------------------------
(***************************************************************************)
(* dispatch_once_f() of libdispatch (src/once.c) and the inline wrapper    *)
(* that guards it (dispatch/once.h), one action per access to shared       *)
(* memory.                                                                 *)
(*                                                                         *)
(* The predicate word holds 0, ~0 (done) or the address of the newest      *)
(* element of a list of waiter records.  A record lives on the stack of    *)
(* the thread that pushed it, so a thread names its own record here.  The  *)
(* oldest record is the one of the thread that runs the function: when it  *)
(* is finished it swaps ~0 into the predicate and walks the list it        *)
(* detached, waking each waiter through that waiter's per-thread           *)
(* semaphore.  The semaphore is cached by the thread and used again by the *)
(* next blocking call the thread makes (src/semaphore.c).                  *)
(***************************************************************************)
EXTENDS Naturals

CONSTANTS Threads,   \* the threads that may call dispatch_once
          NULL,      \* the zero word
          DONE       \* DISPATCH_ONCE_DONE, the word ~0

ASSUME OnceAssumption ==
    /\ NULL \notin Threads
    /\ DONE \notin Threads
    /\ NULL # DONE

VARIABLES
    vval,      \* the predicate word: NULL, DONE or the newest record
    dowNext,   \* dow_next of each thread's record
    sema,      \* count of each thread's cached semaphore
    tmp,       \* local variable "tmp" of each call
    wakee,     \* local variable "sema" of the waking loop: whose semaphore
    pc,        \* where each thread is
    runs,      \* history: how often the function was called
    returns    \* history: how often it has returned

onceVars == <<vval, dowNext, sema, tmp, wakee, pc, runs, returns>>

Goto(t, to) == pc' = [pc EXCEPT ![t] = to]

Locations == {"idle", "claim", "callout", "finish", "wake", "signal",
              "load", "push", "link", "wait"}

Init == /\ vval = NULL
        /\ dowNext = [t \in Threads |-> NULL]
        /\ sema = [t \in Threads |-> 0]
        /\ tmp = [t \in Threads |-> NULL]
        /\ wakee = [t \in Threads |-> NULL]
        /\ pc = [t \in Threads |-> "idle"]
        /\ runs = 0
        /\ returns = 0

-----------------------------------------------------------------------------
(* The wrapper reads the predicate once and calls the function only when   *)
(* it is not ~0; when it is, the call is over (CallDone).                  *)
Call(t) == /\ pc[t] = "idle"
           /\ vval # DONE
           /\ Goto(t, "claim")
           /\ dowNext' = [dowNext EXCEPT ![t] = NULL]
           /\ UNCHANGED <<vval, sema, tmp, wakee, runs, returns>>

CallDone(t) == /\ pc[t] = "idle"
               /\ vval = DONE
               /\ UNCHANGED onceVars

\* Faulty variant: a store in place of the compare-and-swap, after the test of
\* the wrapper: whoever found the predicate unset calls the function.
Claim_Store(t) == /\ pc[t] = "claim"
                  /\ vval' = t
                  /\ runs' = runs + 1
                  /\ Goto(t, "callout")
                  /\ UNCHANGED <<dowNext, sema, tmp, wakee, returns>>

\* cmpxchg(vval, NULL, &dow), and the call of the function on success.
Claim(t) == /\ pc[t] = "claim"
            /\ IF vval = NULL
               THEN /\ vval' = t
                    /\ runs' = runs + 1
                    /\ Goto(t, "callout")
               ELSE /\ Goto(t, "load")
                    /\ UNCHANGED <<vval, runs>>
            /\ UNCHANGED <<dowNext, sema, tmp, wakee, returns>>

Callout(t) == /\ pc[t] = "callout"
              /\ returns' = returns + 1
              /\ Goto(t, "finish")
              /\ UNCHANGED <<vval, dowNext, sema, tmp, wakee, runs>>

\* xchg(vval, DISPATCH_ONCE_DONE) detaches the list of waiters.
Finish(t) == /\ pc[t] = "finish"
             /\ tmp' = [tmp EXCEPT ![t] = vval]
             /\ vval' = DONE
             /\ Goto(t, "wake")
             /\ UNCHANGED <<dowNext, sema, wakee, runs, returns>>

\* Faulty variant: the walker does not wait for dow_next to be written.
WakeNext_NoSpin(t) ==
    /\ pc[t] = "wake"
    /\ tmp[t] # t
    /\ wakee' = [wakee EXCEPT ![t] = tmp[t]]
    /\ tmp' = [tmp EXCEPT ![t] = dowNext[tmp[t]]]
    /\ Goto(t, "signal")
    /\ UNCHANGED <<vval, dowNext, sema, runs, returns>>

\* One turn of the loop up to the signal: wait until the record is linked,
\* then copy what is needed out of it, for it dies with its thread's frame.
WakeNext(t) == LET node == tmp[t] IN
    /\ pc[t] = "wake"
    /\ node # t
    /\ dowNext[node] # NULL
    /\ wakee' = [wakee EXCEPT ![t] = node]
    /\ tmp' = [tmp EXCEPT ![t] = dowNext[node]]
    /\ Goto(t, "signal")
    /\ UNCHANGED <<vval, dowNext, sema, runs, returns>>

\* Faulty variant: only the newest waiter is woken.
Signal_OnlyFirst(t) ==
    /\ pc[t] = "signal"
    /\ sema' = [sema EXCEPT ![wakee[t]] = @ + 1]
    /\ Goto(t, "idle")
    /\ UNCHANGED <<vval, dowNext, tmp, wakee, runs, returns>>

Signal(t) == /\ pc[t] = "signal"
             /\ sema' = [sema EXCEPT ![wakee[t]] = @ + 1]
             /\ Goto(t, "wake")
             /\ UNCHANGED <<vval, dowNext, tmp, wakee, runs, returns>>

\* The loop ends at the caller's own record, the oldest of the list.
WakeEnd(t) == /\ pc[t] = "wake"
              /\ tmp[t] = t
              /\ Goto(t, "idle")
              /\ UNCHANGED <<vval, dowNext, sema, tmp, wakee, runs, returns>>

\* tmp = *vval: leave when the function is done.
Load(t) == /\ pc[t] = "load"
           /\ tmp' = [tmp EXCEPT ![t] = vval]
           /\ Goto(t, IF vval = DONE THEN "idle" ELSE "push")
           /\ UNCHANGED <<vval, dowNext, sema, wakee, runs, returns>>

\* Faulty variant: a plain store in place of the compare-and-swap.
Push_Store(t) ==
    /\ pc[t] = "push"
    /\ vval' = t
    /\ Goto(t, "link")
    /\ UNCHANGED <<dowNext, sema, tmp, wakee, runs, returns>>

\* cmpxchg(vval, tmp, &dow): push this thread's record or read again.
Push(t) == /\ pc[t] = "push"
           /\ IF vval = tmp[t]
              THEN vval' = t /\ Goto(t, "link")
              ELSE Goto(t, "load") /\ UNCHANGED vval
           /\ UNCHANGED <<dowNext, sema, tmp, wakee, runs, returns>>

\* Faulty variant: a waiter that finds the function done goes without waiting.
Link_LeavesEarly(t) ==
    /\ pc[t] = "link"
    /\ dowNext' = [dowNext EXCEPT ![t] = tmp[t]]
    /\ Goto(t, IF vval = DONE THEN "idle" ELSE "wait")
    /\ UNCHANGED <<vval, sema, tmp, wakee, runs, returns>>

Link(t) == /\ pc[t] = "link"
           /\ dowNext' = [dowNext EXCEPT ![t] = tmp[t]]
           /\ Goto(t, "wait")
           /\ UNCHANGED <<vval, sema, tmp, wakee, runs, returns>>

\* Faulty variant: an aborted semaphore_wait is not retried.
Wait_Aborted(t) ==
    /\ pc[t] = "wait"
    /\ sema' = [sema EXCEPT ![t] = IF @ > 0 THEN @ - 1 ELSE 0]
    /\ Goto(t, "load")
    /\ UNCHANGED <<vval, dowNext, tmp, wakee, runs, returns>>

Wait(t) == /\ pc[t] = "wait"
           /\ sema[t] > 0
           /\ sema' = [sema EXCEPT ![t] = @ - 1]
           /\ Goto(t, "load")
           /\ UNCHANGED <<vval, dowNext, tmp, wakee, runs, returns>>

\* What a thread that is inside dispatch_once_f does next.
Step(t) == \/ Claim(t) \/ Callout(t) \/ Finish(t)
           \/ WakeNext(t) \/ Signal(t) \/ WakeEnd(t)
           \/ Load(t) \/ Push(t) \/ Link(t) \/ Wait(t)

Next == \E t \in Threads : Call(t) \/ CallDone(t) \/ Step(t)

Spec == Init /\ [][Next]_onceVars

\* The scheduler runs every thread that is able to run, and the function
\* returns.  Nobody is obliged to call.
FairSpec == Spec /\ \A t \in Threads : WF_onceVars(Step(t))

-----------------------------------------------------------------------------
TypeOK == /\ vval \in Threads \cup {NULL, DONE}
          /\ dowNext \in [Threads -> Threads \cup {NULL}]
          /\ sema \in [Threads -> Nat]
          /\ tmp \in [Threads -> Threads \cup {NULL, DONE}]
          /\ wakee \in [Threads -> Threads \cup {NULL}]
          /\ pc \in [Threads -> Locations]
          /\ runs \in Nat
          /\ returns \in Nat
          /\ \A t \in Threads :
               /\ pc[t] \in {"push", "link", "wake", "signal"} =>
                    tmp[t] \in Threads
               /\ pc[t] = "signal" => wakee[t] \in Threads

\* The record of a thread is in use from the moment the thread published it
\* until the walker has copied it.
Listed(t) == pc[t] \in {"link", "wait"} /\ sema[t] = 0

\* The walker never looks into the record of a thread whose call may already
\* have returned: the record it stands on belongs to a thread that is still
\* blocked (or about to block) and that nobody has signalled yet.  This is
\* why the loop reads dow_sema and dow_next before it signals.
WalkerReadsLiveRecords ==
    \A t \in Threads :
        /\ pc[t] = "wake" /\ tmp[t] # t => tmp[t] \in Threads /\ Listed(tmp[t])
        /\ pc[t] = "signal" => wakee[t] \in Threads /\ Listed(wakee[t])

\* The thread semaphore goes back to the per-thread cache with a count of
\* zero.  A count left over would let the thread's next dispatch_once or
\* dispatch_sync continue before it was granted.
SemaphoreReturnedEmpty ==
    \A t \in Threads : pc[t] \notin {"link", "wait"} => sema[t] = 0

\* Once the walk is over nobody is left asleep: whoever is still inside the
\* list part of the call has its wake-up pending or its walker at work.
NobodyLeftBehind ==
    vval = DONE /\ (\A t \in Threads : pc[t] \notin {"wake", "signal"})
        => \A t \in Threads : pc[t] = "wait" => sema[t] > 0

\* dispatch_once_f implements the promise of dispatch/once.h: the function
\* is called once, returns once, and no caller leaves before that.  The counts
\* of its calls and returns are those of the abstract module, where a second
\* call is no step.
Once == INSTANCE DispatchOnceSpec WITH
            begun <- runs, completed <- returns,
            inCall <- {t \in Threads : pc[t] # "idle"}

ImplementsOnce == Once!Spec

\* Every caller comes back: no waiter sleeps for ever, whatever the moment
\* at which it pushed its record relative to the swap of the finisher.
EveryCallReturns == \A t \in Threads : pc[t] = "claim" ~> pc[t] = "idle"
=============================================================================
