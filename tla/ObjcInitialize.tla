--------------------------- MODULE ObjcInitialize ---------------------------
(***************************************************************************)
(* The sending of +initialize (objc-initialize.mm).  The first message to  *)
(* a class initializes it: its superclass first, then one thread sends     *)
(* +initialize while the others wait.  The method may itself send messages *)
(* to classes.  When it was sent from the +initialize of the superclass,   *)
(* the class is done only after the superclass is, and waits in a map.     *)
(* Each class's state is read without the lock and changed with it.        *)
(***************************************************************************)
EXTENDS Naturals, Sequences

CONSTANTS Threads, Classes,
          Super,       \* of each class: its superclass or NULL
          Messaged,    \* by the +initialize of each class: a set of classes
          NULL

ASSUME HierarchyAssumption ==
    /\ NULL \notin Threads \cup Classes
    /\ Super \in [Classes -> Classes \cup {NULL}]
    /\ Messaged \in [Classes -> SUBSET Classes]

VARIABLES
    state,      \* of each class: RW_INITIALIZING and RW_INITIALIZED
    mine,       \* of each thread: initializingClasses
    pending,    \* of each class: its entry in pendingInitializeMap
    lock,       \* the owner of classInitLock
    asleep,     \* threads that wait for its condition
    calls,      \* of each thread: its calls of _class_initialize, innermost last
    finishing   \* classes that the owner of the lock is about to mark

initializeVars == <<state, mine, pending, lock, asleep, calls, finishing>>

Initialized(c) == state[c] = "initialized"
RootOrAfter(c) == Super[c] # NULL => Initialized(Super[c])

Depth(t) == Len(calls[t])
Running(t) == calls[t] # <<>>
Top(t) == calls[t][Depth(t)]
At(t, place) == Running(t) /\ Top(t).at = place

Call(c) == [cls |-> c, at |-> "super", todo |-> {}]
Goto(t, place) == calls' = [calls EXCEPT ![t][Depth(t)].at = place]
Keep(t, k) == calls' = [calls EXCEPT ![t] = SubSeq(calls[t], 1, k)]
Return(t) == Keep(t, Depth(t) - 1)

\* An exception passes the calls up to the next method, which may catch it.
Throw(t) ==
    \E k \in 0 .. Depth(t) - 1 :
       /\ k > 0 => calls[t][k].at = "method"
       /\ \A j \in k + 1 .. Depth(t) - 1 : calls[t][j].at # "method"
       /\ Keep(t, k)

Init ==
    /\ state = [c \in Classes |-> "untouched"]
    /\ mine = [t \in Threads |-> {}]
    /\ pending = [c \in Classes |-> {}]
    /\ lock = NULL /\ asleep = {} /\ finishing = {}
    /\ calls = [t \in Threads |-> <<>>]

-----------------------------------------------------------------------------
\* A client's message to a class that is not initialized yet.
Send(t, c) ==
    /\ ~Running(t) /\ ~Initialized(c)
    /\ calls' = [calls EXCEPT ![t] = <<Call(c)>>]
    /\ UNCHANGED <<state, mine, pending, lock, asleep, finishing>>

\* One of the messages that the +initialize method sends.
SendFromInitialize(t, c) ==
    /\ At(t, "method") /\ c \in Top(t).todo
    /\ LET rest == [calls[t] EXCEPT ![Depth(t)].todo = @ \ {c}]
       IN calls' = [calls EXCEPT ![t] = IF Initialized(c) THEN rest ELSE Append(rest, Call(c))]
    /\ UNCHANGED <<state, mine, pending, lock, asleep, finishing>>

\* Faulty variant: the superclass is left to initialize itself some time.
InitializeSuper_Skips(t) ==
    /\ At(t, "super")
    /\ Goto(t, "try")
    /\ UNCHANGED <<state, mine, pending, lock, asleep, finishing>>

InitializeSuper(t) ==
    /\ At(t, "super")
    /\ LET c == Top(t).cls
           next == [calls[t] EXCEPT ![Depth(t)].at = "try"]
       IN calls' = [calls EXCEPT ![t] = IF RootOrAfter(c) THEN next
                                        ELSE Append(next, Call(Super[c]))]
    /\ UNCHANGED <<state, mine, pending, lock, asleep, finishing>>

\* The test and set of RW_INITIALIZING.  +initialize is itself a message to the
\* class, the first one.
Try(t) ==
    /\ At(t, "try") /\ lock = NULL
    /\ LET c == Top(t).cls IN
       \/ /\ state[c] = "untouched"
          /\ state' = [state EXCEPT ![c] = "initializing"]
          /\ mine' = [mine EXCEPT ![t] = @ \cup {c}]
          /\ calls' = [calls EXCEPT ![t][Depth(t)] =
                          [cls |-> c, at |-> "method", todo |-> Messaged[c] \cup {c}]]
       \/ state[c] # "untouched" /\ Goto(t, "lost") /\ UNCHANGED <<state, mine>>
    /\ UNCHANGED <<pending, lock, asleep, finishing>>

\* Faulty variant: the class is done when its method is.
Finish_Eager(t) ==
    /\ At(t, "method") /\ lock = NULL
    /\ lock' = t /\ finishing' = {Top(t).cls} /\ Goto(t, "finishing")
    /\ UNCHANGED <<state, mine, pending, asleep>>

\* The method has returned or thrown, whatever it has sent: the class is done,
\* or it is after its superclass.
Finish(t) ==
    /\ At(t, "method") /\ lock = NULL
    /\ LET c == Top(t).cls IN
       \/ /\ RootOrAfter(c)
          /\ lock' = t /\ finishing' = {c} /\ Goto(t, "finishing")
          /\ UNCHANGED pending
       \/ /\ ~RootOrAfter(c)
          /\ pending' = [pending EXCEPT ![Super[c]] = @ \cup {c}]
          /\ (Return(t) \/ Throw(t)) /\ UNCHANGED <<lock, finishing>>
    /\ UNCHANGED <<state, mine, asleep>>

\* Faulty variant: only the class itself is marked.
FinishInitializing_One(t) ==
    /\ At(t, "finishing")
    /\ \E c \in finishing :
          /\ state' = [state EXCEPT ![c] = "initialized"]
          /\ mine' = [mine EXCEPT ![t] = @ \ {c}]
          /\ finishing' = finishing \ {c}
    /\ asleep' = {}
    /\ UNCHANGED <<pending, lock, calls>>

\* One call of _finishInitializing(); the subclasses that were waiting follow.
FinishInitializing(t) ==
    /\ At(t, "finishing")
    /\ \E c \in finishing :
          /\ state' = [state EXCEPT ![c] = "initialized"]
          /\ mine' = [mine EXCEPT ![t] = @ \ {c}]
          /\ finishing' = (finishing \ {c}) \cup pending[c]
          /\ pending' = [pending EXCEPT ![c] = {}]
    /\ asleep' = {}
    /\ UNCHANGED <<lock, calls>>
Finished(t) ==
    /\ At(t, "finishing") /\ finishing = {}
    /\ lock' = NULL /\ (Return(t) \/ Throw(t))
    /\ UNCHANGED <<state, mine, pending, asleep, finishing>>

\* Faulty variant: whoever finds the class being initialized goes on.
Lost_AnyThread(t) ==
    /\ At(t, "lost")
    /\ LET c == Top(t).cls IN
       \/ state[c] = "initializing" /\ Return(t)
       \/ state[c] # "initializing" /\ Goto(t, "check")
    /\ UNCHANGED <<state, mine, pending, lock, asleep, finishing>>

\* Somebody set RW_INITIALIZING before; if it was this thread it goes on.
Lost(t) ==
    /\ At(t, "lost")
    /\ LET c == Top(t).cls IN
       \/ state[c] = "initializing" /\ c \in mine[t] /\ Return(t)
       \/ state[c] = "initializing" /\ c \notin mine[t] /\ Goto(t, "waiting")
       \/ state[c] # "initializing" /\ Goto(t, "check")
    /\ UNCHANGED <<state, mine, pending, lock, asleep, finishing>>

\* waitForInitializeToComplete()
Wait(t) ==
    /\ At(t, "waiting") /\ lock = NULL /\ t \notin asleep
    /\ \/ Initialized(Top(t).cls) /\ Return(t) /\ UNCHANGED asleep
       \/ ~Initialized(Top(t).cls) /\ asleep' = asleep \cup {t} /\ UNCHANGED calls
    /\ UNCHANGED <<state, mine, pending, lock, finishing>>

\* Otherwise the runtime aborts.
Check(t) ==
    /\ At(t, "check") /\ Initialized(Top(t).cls)
    /\ Return(t)
    /\ UNCHANGED <<state, mine, pending, lock, asleep, finishing>>

-----------------------------------------------------------------------------
Step(t) ==
    \/ InitializeSuper(t) \/ Try(t) \/ Finish(t) \/ FinishInitializing(t) \/ Finished(t)
    \/ Lost(t) \/ Wait(t) \/ Check(t)
    \/ \E c \in Classes : SendFromInitialize(t, c)

Next == \E t \in Threads : Step(t) \/ \E c \in Classes : Send(t, c)

Spec == Init /\ [][Next]_initializeVars

\* Threads are scheduled and get the lock in the end; +initialize methods
\* return.  Nobody has to send a message.
FairSpec == Spec /\ \A t \in Threads : WF_initializeVars(Step(t))

-----------------------------------------------------------------------------
\* The thread may run methods of the class.
Usable(t, c) == Initialized(c) \/ c \in mine[t]

Places == {"super", "try", "method", "finishing", "lost", "waiting", "check"}
Frames == [cls : Classes, todo : SUBSET Classes, at : Places]

TypeOK ==
    /\ state \in [Classes -> {"untouched", "initializing", "initialized"}]
    /\ mine \in [Threads -> SUBSET Classes]
    /\ pending \in [Classes -> SUBSET Classes]
    /\ lock \in Threads \cup {NULL}
    /\ asleep \subseteq Threads /\ finishing \subseteq Classes
    /\ calls \in [Threads -> Seq(Frames)]

\* "The initializing+initialized part of the class hierarchy will be a
\* contiguous subtree starting at the root" (objc-initialize.mm:88), and so is
\* the part of it that a thread may use: whoever may run a method of a class
\* may run those of its superclass, and the class is not done before that is.
Contiguous ==
    \A c \in Classes : Super[c] # NULL =>
        /\ Initialized(c) => Initialized(Super[c])
        /\ \A t \in Threads : Usable(t, c) => Usable(t, Super[c])

\* None of the runtime's assertions fails: who did not set RW_INITIALIZING
\* finds the class initialized if it no longer is being initialized
\* (objc-initialize.mm:472), the superclass of a class that is marked is
\* initialized (:280) and the thread that marks it initialized it (:258).
NeverAborts ==
    /\ \A t \in Threads : At(t, "check") => Initialized(Top(t).cls)
    /\ \A c \in finishing : RootOrAfter(c) /\ lock # NULL /\ c \in mine[lock]

\* Whoever returns from _class_initialize() may run methods of the class:
\* they are initialized, or being initialized by this very thread.
NobodyRunsEarly ==
    [][\A t \in Threads : \A c \in Classes :
         Running(t) /\ Depth(t)' < Depth(t) /\ c = Top(t).cls => Usable(t, c)'
      ]_initializeVars

\* Every message to a class is delivered in the end, even if the +initialize of
\* a superclass and of its subclass message each other: "we won't get stuck
\* while a superclass waits for its subclass which waits for the superclass"
\* (objc-initialize.mm:90).
EveryMessageDelivered == \A t \in Threads : Running(t) ~> ~Running(t)

=============================================================================
