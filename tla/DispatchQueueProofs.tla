------------------------ MODULE DispatchQueueProofs ------------------------
(***************************************************************************)
(* Proofs about DispatchQueue, for any number of clients, workers and      *)
(* items and any bound on suspensions.  First what needs little: a queue   *)
(* is on the list of its target queue once, whatever its width, and a      *)
(* queue of width 1 runs one block at a time.  Then the invariant of a     *)
(* queue of any width, QueueInv, and what follows from it: items are taken *)
(* in the order in which they entered the list, and a barrier runs alone;  *)
(* a queue of width 1 implements a serial queue.  Last the suspensions and *)
(* the references, CountsInv, and who looks after what is left on the      *)
(* list, AttendedInv: a queue at rest has its counts back, a queue never   *)
(* stalls unless an asynchronous reader backs out of it, and is not        *)
(* disposed of while it is in use.                                         *)
(***************************************************************************)
EXTENDS DispatchQueue, Counting, FiniteSetTheorems, TLAPS

(* How a count of threads changes                                          *)

\* How much a thread that is at x adds to the count of those at A.
Weight(x, A) == IF x \in A THEN 1 ELSE 0

\* A count is a natural number, and positive as soon as one thread is there.
LEMMA CountType ==
  ASSUME NEW T, IsFiniteSet(T), NEW f, NEW A
  PROVE  /\ CountAt(T, f, A) \in Nat
         /\ \A t \in T : f[t] \in A => CountAt(T, f, A) > 0
         /\ CountAt(T, f, A) > 0 => \E t \in T : f[t] \in A
<1> DEFINE S == {t \in T : f[t] \in A}
<1>1. IsFiniteSet(S) /\ Cardinality(S) \in Nat
    BY FS_Subset, FS_CardinalityType
<1>2. Cardinality(S) = 0 <=> S = {}
    BY <1>1, FS_EmptySet
<1>3. QED
    BY <1>1, <1>2 DEF CountAt

\* Moving one thread changes the count by where it comes from and goes to.
LEMMA CountStep ==
  ASSUME NEW T, NEW f, NEW g, NEW t, NEW x, NEW A,
         IsFiniteSet(T), t \in T,
         \A u \in T : g[u] = IF u = t THEN x ELSE f[u]
  PROVE  CountAt(T, g, A) = CountAt(T, f, A) - Weight(f[t], A) + Weight(x, A)
<1> DEFINE S == {u \in T : f[u] \in A}
           R == {u \in T : g[u] \in A}
           Others == {u \in T : u # t /\ f[u] \in A}
<1>1. IsFiniteSet(Others) /\ Cardinality(Others) \in Nat
    BY FS_Subset, FS_CardinalityType
<1>2. /\ t \notin Others
      /\ g[t] = x
      /\ \A u \in T : u # t => g[u] = f[u]
    OBVIOUS
<1>3. Cardinality(S) = Cardinality(Others) + Weight(f[t], A)
  <2>1. CASE f[t] \in A
    <3>1. S = Others \cup {t}  BY <2>1
    <3>2. QED  BY <2>1, <3>1, <1>1, <1>2, FS_AddElement DEF Weight
  <2>2. CASE f[t] \notin A
    <3>1. S = Others  BY <2>2
    <3>2. Cardinality(S) = Cardinality(Others)  BY <3>1
    <3>3. Weight(f[t], A) = 0  BY <2>2 DEF Weight
    <3> HIDE DEF S, R, Others
    <3>4. QED  BY <3>2, <3>3, <1>1
  <2>3. QED  BY <2>1, <2>2
<1>4. Cardinality(R) = Cardinality(Others) + Weight(x, A)
  <2>1. CASE x \in A
    <3>1. R = Others \cup {t}  BY <2>1, <1>2
    <3>2. QED  BY <2>1, <3>1, <1>1, <1>2, FS_AddElement DEF Weight
  <2>2. CASE x \notin A
    <3>1. R = Others  BY <2>2, <1>2
    <3>2. Cardinality(R) = Cardinality(Others)  BY <3>1
    <3>3. Weight(x, A) = 0  BY <2>2 DEF Weight
    <3> HIDE DEF S, R, Others
    <3>4. QED  BY <3>2, <3>3, <1>1
  <2>3. QED  BY <2>1, <2>2
<1>5. Weight(x, A) \in {0, 1} /\ Weight(f[t], A) \in {0, 1}
    BY DEF Weight
<1>6. QED
    BY <1>1, <1>3, <1>4, <1>5 DEF CountAt

-----------------------------------------------------------------------------

Locs    == ClientLocs \cup WorkerLocs
Returns == {"idle", "release", "swap", "bdec", "ssub"}

\* Where a thread holds an item in "obj".
ItemLocs == {"dnext", "dcas", "dspin", "dsusp", "dpop", "runitem", "xsusp",
             "xrun", "signal", "redirect", "out", "outspin", "puthead",
             "onecas", "onespin"}

\* What a thread's location says of the thread and of its local variables.
Place(t) ==
    /\ t \in Clients => pc[t] \in ClientLocs
    /\ t \in Workers => pc[t] \in WorkerLocs
    /\ pc[t] \in WakeupLocs => ret[t] \in {"idle", "release", "swap"}
    /\ t \in Workers /\ pc[t] \in WakeupLocs => ret[t] = "release"
    /\ pc[t] \in OneLocs => ret[t] \in {"bdec", "ssub"}
    /\ pc[t] \in {"oneadd", "oneinc"} => ret[t] = "bdec"
    /\ pc[t] \in ItemLocs => obj[t] # NULL
    /\ pc[t] \in AsyncLocs \cup {"redirect", "runbeside"} => obj[t] \in Works

Pointers ==
    /\ head \in Items \cup {NULL} /\ tail \in Items \cup {NULL}
    /\ next \in [Items -> Items \cup {NULL}]
    /\ obj \in [Threads -> Items \cup {NULL}]
    /\ link \in [Threads -> Items \cup {NULL}]
    /\ redirected \subseteq Works

Shape == /\ pc \in [Threads -> Locs]
         /\ ret \in [Threads -> Returns]
         /\ Pointers
         /\ \A t \in Threads : Place(t)

\* The list of the target queue: the low bit of do_suspend_cnt counts the
\* places where the queue is, or is about to be, on that list.
Pushing  == CountAt(Threads, pc, {"wpush"})
Invoking == CountAt(Threads, pc, InvokeLocs)

RootInv == /\ susp \in Int /\ onRoot \in Nat
           /\ susp % 2 = onRoot + Pushing + Invoking

-----------------------------------------------------------------------------
(* Width 1.  One unit of dq_running belongs to a caller on the fast path   *)
(* or to the drainer, two belong to a granted barrier: to the thread that  *)
(* grants it, to the semaphore that was signalled, to the caller that was  *)
(* woken, in turn.                                                         *)

Fast(t) == \/ pc[t] \in {"brun", "bcheck", "fsusp", "bdec"}
           \/ pc[t] \in OneLocs \ {"onesig"} /\ ret[t] = "bdec"

Alone(t) == Fast(t) \/ pc[t] \in {"runitem", "xsusp", "xrun"}

Holds(t) == Fast(t) \/ pc[t] \in DrainLocs

Grants(t) == \/ pc[t] \in SlowLocs
             \/ pc[t] \in {"onesig", "signal", "redirect", "runbeside", "rsub"}
             \/ pc[t] \in OneLocs /\ ret[t] = "ssub"

InFlight(i) == (i \in Clients /\ sema[i] # 0) \/ i \in redirected

Locked ==
    /\ running \in 0 .. 3
    /\ \A t \in Threads : /\ Holds(t) => running \in {1, 3}
                          /\ Alone(t) => running = 1
                          /\ Grants(t) => running \in {2, 3}
    /\ \A s, t \in Threads : /\ Holds(s) /\ Holds(t) => s = t
                             /\ Grants(s) /\ Grants(t) => s = t

Granted ==
    /\ sema \in [Clients -> {0, 1}]
    /\ \A i \in Items : InFlight(i) =>
         /\ running \in {2, 3}
         /\ \A t \in Threads : ~Grants(t)
         /\ \A j \in Items : InFlight(j) => i = j

\* Every item is a barrier and nobody takes a path for readers.
NoReaders ==
    /\ kind \in [Items -> {"none", "barrier", "barriersync"}]
    /\ \A c \in Clients : kind[c] # "barrier"
    /\ \A t \in Threads : pc[t] \notin AsyncLocs \cup (SyncLocs \ {"wait"})

\* Which thread runs a block that is running.
Runners ==
    /\ DOMAIN state = Items
    /\ \A c \in Clients : state[c] = "running" => pc[c] \in {"brun", "srun"}
    /\ \A w \in Works : state[w] = "running" =>
         \E t \in Workers : pc[t] \in {"runitem", "runbeside"} /\ obj[t] = w

SerialInv == Locked /\ Granted /\ NoReaders /\ Runners

-----------------------------------------------------------------------------
(* The steps, by the function of src/queue.c they belong to                *)

WakeupStep(t) == WakeupSuspended(t) \/ WakeupTail(t) \/ WakeupLock(t) \/
                 WakeupPush(t) \/ ReleaseInternal(t)
CallStep(t) == Async(t) \/ BarrierAsync(t) \/ Sync(t) \/ BarrierSync(t) \/
               Suspend(t) \/ Resume(t)
PushStep(t) == Swap(t) \/ Link(t) \/ SetHead(t)
AsyncStep(t) == AsyncTail(t) \/ AsyncSuspended(t) \/ AsyncAdd(t) \/
                AsyncOver(t) \/ AsyncOdd(t) \/ AsyncRedirect(t)
SyncStep(t) == SyncTail(t) \/ SyncSuspended(t) \/ SyncAdd(t) \/ SyncBack(t) \/
               SyncRun(t) \/ SyncSub(t) \/ Wait(t)
BarrierStep(t) == BarrierTail(t) \/ BarrierSuspended(t) \/ BarrierLock(t) \/
                  BarrierRun(t) \/ BarrierCheck(t) \/ TransferSuspended(t) \/
                  BarrierUnlock(t)
SlowStep(t) == SlowRun(t) \/ SlowTest(t) \/ SlowSpin(t) \/ SlowResume(t) \/
               SlowUnlock(t)
HandOverStep(t) == OneHead(t) \/ OneTail(t) \/ OneSpin(t) \/
                   TransferSuspend(t) \/ TransferRunning(t) \/
                   TransferSignal(t)
InvokeStep(t) == TakeQueue(t) \/ InvokeSuspended(t) \/ InvokeLock(t) \/
                 InvokeLeave(t) \/ InvokeUnlock(t) \/ InvokeProbe(t)
RedirectStep(t) == TakeRedirected(t) \/ RunBeside(t) \/ RedirectSub(t)
DrainStep(t) == DrainTail(t) \/ DrainHead(t) \/ DrainNext(t) \/ DrainLast(t)
                \/ DrainSpin(t) \/ DrainSuspended(t) \/ DrainPop(t)
PopStep(t) == RunItem(t) \/ GrantSuspend(t) \/ GrantRunning(t) \/
              GrantSignal(t) \/ DrainRedirect(t)
PutBackStep(t) == PutBackTail(t) \/ PutBackSpin(t) \/ PutBackHead(t)

\* Every step but the client's release belongs to one of these functions.
LEMMA NextCases ==
  ASSUME Next
  PROVE  \/ Release
         \/ \E t \in Threads : WakeupStep(t)
         \/ \E t \in Clients :
              \/ CallStep(t) \/ PushStep(t) \/ AsyncStep(t) \/ SyncStep(t)
              \/ BarrierStep(t) \/ SlowStep(t) \/ HandOverStep(t)
         \/ \E t \in Workers :
              \/ InvokeStep(t) \/ RedirectStep(t) \/ DrainStep(t) \/ PopStep(t)
              \/ PutBackStep(t)
  BY DEF Next, ClientCall, Step, ClientStep, WorkerStep, WakeupStep, CallStep,
         PushStep, AsyncStep, SyncStep, BarrierStep, SlowStep, HandOverStep,
         InvokeStep, RedirectStep, DrainStep, PopStep, PutBackStep

-----------------------------------------------------------------------------
LEMMA InitShape == Init => Shape
  BY QueueAssumption
     DEF Init, Shape, Pointers, Place, Threads, Items, Locs, Returns,
         ClientLocs, WorkerLocs, ItemLocs, PushLocs, WakeupLocs, AsyncLocs,
         OneLocs, DrainLocs

\* Every step leaves every thread at a location of its kind, with the local
\* variables that location relies on.
LEMMA StepShape == Shape /\ [Next]_queueVars => Shape'
<1> SUFFICES ASSUME Shape, [Next]_queueVars  PROVE Shape'
    OBVIOUS
<1> USE QueueAssumption DEF Threads, Items, Locs, Returns, ClientLocs,
        WorkerLocs, ItemLocs, PushLocs, WakeupLocs, AsyncLocs, SyncLocs,
        FastLocs, SlowLocs, OneLocs, DrainLocs, InvokeLocs
<1> USE DEF queueVars, wordVars, lockVars, otherVars, outerVars, itemVars,
            listVars, worldVars, objectVars, rootVars, localVars, orderVars
<1> USE DEF Set, Goto, At, MayCall, Test, Add, TryEmpty, Finish, CallWakeup,
            Return, WakeupTest, DropRunning, DropReference, Pushed, Submit,
            Call, Enter, Run, Take, Dequeued, Pop, Proceed
<1> USE DEF Shape, Pointers, Place
<1>1. ASSUME Release  PROVE Shape'
    BY <1>1 DEF Release
<1>2. ASSUME NEW t \in Threads, WakeupStep(t)  PROVE Shape'
    BY <1>2 DEF WakeupStep, WakeupSuspended, WakeupTail, WakeupLock,
           WakeupPush, ReleaseInternal
<1>3. ASSUME NEW t \in Clients, CallStep(t)  PROVE Shape'
    BY <1>3 DEF CallStep, Async, BarrierAsync, Sync, BarrierSync, Suspend,
           Resume
<1>4. ASSUME NEW t \in Clients, PushStep(t)  PROVE Shape'
    BY <1>4 DEF PushStep, Swap, Link, SetHead
<1>5. ASSUME NEW t \in Clients, AsyncStep(t)  PROVE Shape'
    BY <1>5 DEF AsyncStep, AsyncTail, AsyncSuspended, AsyncAdd, AsyncOver,
           AsyncOdd, AsyncRedirect
<1>6. ASSUME NEW t \in Clients, SyncStep(t)  PROVE Shape'
    BY <1>6 DEF SyncStep, SyncTail, SyncSuspended, SyncAdd, SyncBack, SyncRun,
           SyncSub, Wait
<1>7. ASSUME NEW t \in Clients, BarrierStep(t)  PROVE Shape'
    BY <1>7 DEF BarrierStep, BarrierTail, BarrierSuspended, BarrierLock,
           BarrierRun, BarrierCheck, TransferSuspended, BarrierUnlock
<1>8. ASSUME NEW t \in Clients, SlowStep(t)  PROVE Shape'
    BY <1>8 DEF SlowStep, SlowRun, SlowTest, SlowSpin, SlowResume, SlowUnlock
<1>9. ASSUME NEW t \in Clients, HandOverStep(t)  PROVE Shape'
    BY <1>9 DEF HandOverStep, OneHead, OneTail, OneSpin, TransferSuspend,
           TransferRunning, TransferSignal
<1>10. ASSUME NEW t \in Workers, InvokeStep(t)  PROVE Shape'
    BY <1>10 DEF InvokeStep, TakeQueue, InvokeSuspended, InvokeLock,
           InvokeLeave, InvokeUnlock, InvokeProbe
<1>11. ASSUME NEW t \in Workers, RedirectStep(t)  PROVE Shape'
    BY <1>11 DEF RedirectStep, TakeRedirected, RunBeside, RedirectSub
<1>12. ASSUME NEW t \in Workers, DrainStep(t)  PROVE Shape'
    BY <1>12 DEF DrainStep, DrainTail, DrainHead, DrainNext, DrainLast,
           DrainSpin, DrainSuspended, DrainPop
<1>13. ASSUME NEW t \in Workers, PopStep(t)  PROVE Shape'
    BY <1>13 DEF PopStep, RunItem, GrantSuspend, GrantRunning, GrantSignal,
           DrainRedirect
<1>14. ASSUME NEW t \in Workers, PutBackStep(t)  PROVE Shape'
    BY <1>14 DEF PutBackStep, PutBackTail, PutBackSpin, PutBackHead
<1>15. ASSUME UNCHANGED queueVars  PROVE Shape'
    BY <1>15
<1>16. QED  BY <1>1, <1>2, <1>3, <1>4, <1>5, <1>6, <1>7, <1>8, <1>9, <1>10,
           <1>11, <1>12, <1>13, <1>14, <1>15, NextCases

\* Threads stay within the code of their kind and the locals hold items where
\* the code uses them as such.
THEOREM QueueShape == Spec => []Shape
  BY InitShape, StepShape, PTL DEF Spec

-----------------------------------------------------------------------------
(* What a step does with the link on the target queue's list               *)

Keeps(t) == /\ UNCHANGED onRoot
            /\ susp' \in {susp, susp + INTERVAL, susp - INTERVAL}
            /\ pc'[t] = "wpush" <=> pc[t] = "wpush"
            /\ pc'[t] \in InvokeLocs <=> pc[t] \in InvokeLocs

Locks(t) == /\ UNCHANGED onRoot
            /\ susp = 0 /\ susp' = LOCK
            /\ pc[t] = "wlock" /\ pc'[t] = "wpush"

Hangs(t) == /\ UNCHANGED susp
            /\ onRoot' = onRoot + 1
            /\ pc[t] = "wpush" /\ pc'[t] \notin {"wpush"} \cup InvokeLocs

Takes(t) == /\ UNCHANGED susp
            /\ onRoot > 0 /\ onRoot' = onRoot - 1
            /\ pc[t] = "idle" /\ pc'[t] = "isusp"

Unlocks(t) == /\ UNCHANGED onRoot
              /\ susp' = susp - LOCK
              /\ pc[t] = "unlock" /\ pc'[t] \in {"probe", "release"}

RootMove(t) == /\ \A u \in Threads : u # t => pc'[u] = pc[u]
               /\ Keeps(t) \/ Locks(t) \/ Hangs(t) \/ Takes(t) \/ Unlocks(t)

\* Every step is one of these moves of the thread that takes it.
LEMMA StepMoves ==
  ASSUME Shape, RootInv, Next
  PROVE  \/ \E t \in Threads : RootMove(t)
         \/ UNCHANGED <<pc, susp, onRoot>>
<1> USE QueueAssumption DEF Threads, Items, Locs, Returns, ClientLocs,
        WorkerLocs, ItemLocs, PushLocs, WakeupLocs, AsyncLocs, SyncLocs,
        FastLocs, SlowLocs, OneLocs, DrainLocs, InvokeLocs
<1> USE DEF queueVars, wordVars, lockVars, otherVars, outerVars, itemVars,
            listVars, worldVars, objectVars, rootVars, localVars, orderVars
<1> USE DEF Set, Goto, At, MayCall, Test, Add, TryEmpty, Finish, CallWakeup,
            Return, WakeupTest, DropRunning, DropReference, Pushed, Submit,
            Call, Enter, Run, Take, Dequeued, Pop, Proceed
<1> USE DEF Shape, Place, RootInv, RootMove, Keeps, Locks, Hangs, Takes,
            Unlocks, INTERVAL, LOCK
<1>1. ASSUME Release  PROVE UNCHANGED <<pc, susp, onRoot>>
    BY <1>1 DEF Release
<1>2. ASSUME NEW t \in Threads, WakeupStep(t)  PROVE RootMove(t)
    BY <1>2 DEF WakeupStep, WakeupSuspended, WakeupTail, WakeupLock,
           WakeupPush, ReleaseInternal
<1>3. ASSUME NEW t \in Clients, CallStep(t)  PROVE RootMove(t)
    BY <1>3 DEF CallStep, Async, BarrierAsync, Sync, BarrierSync, Suspend,
           Resume
<1>4. ASSUME NEW t \in Clients, PushStep(t)  PROVE RootMove(t)
    BY <1>4 DEF PushStep, Swap, Link, SetHead
<1>5. ASSUME NEW t \in Clients, AsyncStep(t)  PROVE RootMove(t)
    BY <1>5 DEF AsyncStep, AsyncTail, AsyncSuspended, AsyncAdd, AsyncOver,
           AsyncOdd, AsyncRedirect
<1>6. ASSUME NEW t \in Clients, SyncStep(t)  PROVE RootMove(t)
    BY <1>6 DEF SyncStep, SyncTail, SyncSuspended, SyncAdd, SyncBack, SyncRun,
           SyncSub, Wait
<1>7. ASSUME NEW t \in Clients, BarrierStep(t)  PROVE RootMove(t)
    BY <1>7 DEF BarrierStep, BarrierTail, BarrierSuspended, BarrierLock,
           BarrierRun, BarrierCheck, TransferSuspended, BarrierUnlock
<1>8. ASSUME NEW t \in Clients, SlowStep(t)  PROVE RootMove(t)
    BY <1>8 DEF SlowStep, SlowRun, SlowTest, SlowSpin, SlowResume, SlowUnlock
<1>9. ASSUME NEW t \in Clients, HandOverStep(t)  PROVE RootMove(t)
    BY <1>9 DEF HandOverStep, OneHead, OneTail, OneSpin, TransferSuspend,
           TransferRunning, TransferSignal
<1>10. ASSUME NEW t \in Workers, InvokeStep(t)  PROVE RootMove(t)
    BY <1>10 DEF InvokeStep, TakeQueue, InvokeSuspended, InvokeLock,
           InvokeLeave, InvokeUnlock, InvokeProbe
<1>11. ASSUME NEW t \in Workers, RedirectStep(t)  PROVE RootMove(t)
    BY <1>11 DEF RedirectStep, TakeRedirected, RunBeside, RedirectSub
<1>12. ASSUME NEW t \in Workers, DrainStep(t)  PROVE RootMove(t)
    BY <1>12 DEF DrainStep, DrainTail, DrainHead, DrainNext, DrainLast,
           DrainSpin, DrainSuspended, DrainPop
<1>13. ASSUME NEW t \in Workers, PopStep(t)  PROVE RootMove(t)
    BY <1>13 DEF PopStep, RunItem, GrantSuspend, GrantRunning, GrantSignal,
           DrainRedirect
<1>14. ASSUME NEW t \in Workers, PutBackStep(t)  PROVE RootMove(t)
    BY <1>14 DEF PutBackStep, PutBackTail, PutBackSpin, PutBackHead
<1>15. QED  BY <1>1, <1>2, <1>3, <1>4, <1>5, <1>6, <1>7, <1>8, <1>9, <1>10,
           <1>11, <1>12, <1>13, <1>14, NextCases

\* Each of these moves keeps the low bit equal to the count of its places.
LEMMA MoveRoot ==
  ASSUME Shape, Shape', RootInv, NEW t \in Threads, RootMove(t)
  PROVE  RootInv'
<1> USE QueueAssumption DEF RootMove
<1>1. /\ Pushing \in Nat
      /\ Invoking \in Nat
      /\ pc[t] \in InvokeLocs => Invoking > 0
    BY CountType DEF Pushing, Invoking
<1>2. \A u \in Threads : pc'[u] = IF u = t THEN pc'[t] ELSE pc[u]
    OBVIOUS
<1>3. Pushing' = Pushing - Weight(pc[t], {"wpush"}) + Weight(pc'[t], {"wpush"})
  <2>1. CountAt(Threads, pc', {"wpush"})
          = CountAt(Threads, pc, {"wpush"})
              - Weight(pc[t], {"wpush"}) + Weight(pc'[t], {"wpush"})
      BY <1>2, CountStep
  <2>2. QED  BY <2>1 DEF Pushing, CountAt
<1>4. Invoking' = Invoking - Weight(pc[t], InvokeLocs)
                           + Weight(pc'[t], InvokeLocs)
  <2>1. CountAt(Threads, pc', InvokeLocs)
          = CountAt(Threads, pc, InvokeLocs)
              - Weight(pc[t], InvokeLocs) + Weight(pc'[t], InvokeLocs)
      BY <1>2, CountStep
  <2>2. QED  BY <2>1 DEF Invoking, CountAt
<1> USE DEF RootInv, Weight, INTERVAL, LOCK
<1>5. CASE Keeps(t)
  <2>1. Pushing' = Pushing /\ Invoking' = Invoking
      BY <1>1, <1>3, <1>4, <1>5 DEF Keeps
  <2>2. susp' % 2 = susp % 2
      BY <1>5 DEF Keeps
  <2>3. QED
      BY <2>1, <2>2, <1>5 DEF Keeps
<1>6. CASE Locks(t)
    BY <1>1, <1>3, <1>4, <1>6 DEF Locks, InvokeLocs, DrainLocs
<1>7. CASE Hangs(t)
    BY <1>1, <1>3, <1>4, <1>7 DEF Hangs, InvokeLocs, DrainLocs
<1>8. CASE Takes(t)
    BY <1>1, <1>3, <1>4, <1>8 DEF Takes, InvokeLocs, DrainLocs
<1>9. CASE Unlocks(t)
    BY <1>1, <1>3, <1>4, <1>9 DEF Unlocks, InvokeLocs, DrainLocs
<1>10. QED
    BY <1>5, <1>6, <1>7, <1>8, <1>9

\* Nobody has the queue on the list of its target queue at the start.
LEMMA InitRoot == Init => RootInv
<1> SUFFICES ASSUME Init  PROVE RootInv
    OBVIOUS
<1>1. \A t \in Threads : pc[t] = "idle"
    BY DEF Init
<1>2. Pushing = 0
    BY <1>1, QueueAssumption, CountType DEF Pushing
<1>3. Invoking = 0
    BY <1>1, QueueAssumption, CountType DEF Invoking, InvokeLocs, DrainLocs
<1>4. QED
    BY <1>2, <1>3 DEF Init, RootInv

\* Every step keeps the low bit equal to the count of its places.
LEMMA StepRoot == Shape /\ Shape' /\ RootInv /\ [Next]_queueVars => RootInv'
<1> SUFFICES ASSUME Shape, Shape', RootInv, [Next]_queueVars
             PROVE  RootInv'
    OBVIOUS
<1>1. CASE \E t \in Threads : RootMove(t)
    BY <1>1, MoveRoot
<1>2. CASE UNCHANGED <<pc, susp, onRoot>>
    BY <1>2 DEF RootInv, Pushing, Invoking, CountAt
<1>3. CASE UNCHANGED queueVars
    BY <1>3, <1>2 DEF queueVars, wordVars, lockVars, otherVars, worldVars,
                      rootVars
<1>4. QED
    BY <1>1, <1>2, <1>3, StepMoves

\* The list of the target queue, whose link the queue has once: the low bit
\* of do_suspend_cnt says whether it is there, with a thread about to put it
\* there or with a worker, and never two of these.
THEOREM QueueOnRootOnce == Spec => []OnRootOnce
<1>1. Shape /\ RootInv => OnRootOnce
  <2> SUFFICES ASSUME Shape, RootInv  PROVE OnRootOnce
      OBVIOUS
  <2>1. {t \in Threads : pc[t] \in {"wpush"}}
          = {t \in Threads : pc[t] = "wpush"}
      OBVIOUS
  <2>2. {t \in Threads : pc[t] \in InvokeLocs}
          = {t \in Workers : pc[t] \in InvokeLocs}
      BY DEF Shape, Place, Threads, InvokeLocs, DrainLocs, ClientLocs,
             PushLocs, WakeupLocs, AsyncLocs, SyncLocs, FastLocs, SlowLocs,
             OneLocs
  <2>3. /\ Pushing = Cardinality({t \in Threads : pc[t] = "wpush"})
        /\ Invoking = Cardinality({t \in Workers : pc[t] \in InvokeLocs})
      BY <2>1, <2>2 DEF Pushing, Invoking, CountAt
  <2>4. QED
      BY <2>3 DEF RootInv, OnRootOnce
<1>2. QED
    BY <1>1, InitShape, StepShape, InitRoot, StepRoot, PTL DEF Spec

-----------------------------------------------------------------------------
(* A queue of width 1                                                      *)

\* A new queue of width 1 is in use by nobody.
LEMMA InitSerial == Init => SerialInv
  BY QueueAssumption
     DEF Init, SerialInv, Locked, Granted, NoReaders, Runners, InFlight,
         Grants, Fast, Alone, Holds, Threads, Items, AsyncLocs, SyncLocs,
         SlowLocs, OneLocs, DrainLocs

\* Nobody but the owner of the one unit grants the two, and nobody takes the
\* one unit unless neither is in use.
LEMMA StepLocked ==
  Width = 1 /\ Shape /\ SerialInv /\ [Next]_queueVars => Locked' /\ Granted'
<1> SUFFICES ASSUME Width = 1, Shape, SerialInv, [Next]_queueVars
             PROVE  Locked' /\ Granted'
    OBVIOUS
<1> USE QueueAssumption DEF Threads, Items, Locs, Returns, ClientLocs,
        WorkerLocs, ItemLocs, PushLocs, WakeupLocs, AsyncLocs, SyncLocs,
        FastLocs, SlowLocs, OneLocs, DrainLocs, InvokeLocs
<1> USE DEF queueVars, wordVars, lockVars, otherVars, outerVars, itemVars,
            listVars, worldVars, objectVars, rootVars, localVars, orderVars
<1> USE DEF Set, Goto, At, MayCall, Test, Add, TryEmpty, Finish, CallWakeup,
            Return, WakeupTest, DropRunning, DropReference, Pushed, Submit,
            Call, Enter, Run, Take, Dequeued, Pop, Proceed
<1> USE DEF Shape, Pointers, Place, SerialInv, NoReaders, Locked, Granted,
            InFlight, Grants, Fast, Alone, Holds
<1>1. ASSUME Release  PROVE Locked' /\ Granted'
    BY <1>1 DEF Release
<1>2. ASSUME NEW t \in Threads, WakeupStep(t)  PROVE Locked' /\ Granted'
    BY <1>2 DEF WakeupStep, WakeupSuspended, WakeupTail, WakeupLock,
           WakeupPush, ReleaseInternal
<1>3. ASSUME NEW t \in Clients, CallStep(t)  PROVE Locked' /\ Granted'
    BY <1>3 DEF CallStep, Async, BarrierAsync, Sync, BarrierSync, Suspend,
           Resume
<1>4. ASSUME NEW t \in Clients, PushStep(t)  PROVE Locked' /\ Granted'
    BY <1>4 DEF PushStep, Swap, Link, SetHead
<1>5. ASSUME NEW t \in Clients, AsyncStep(t)  PROVE Locked' /\ Granted'
    BY <1>5 DEF AsyncStep, AsyncTail, AsyncSuspended, AsyncAdd, AsyncOver,
           AsyncOdd, AsyncRedirect
<1>6. ASSUME NEW t \in Clients, SyncStep(t)  PROVE Locked' /\ Granted'
  <2>1. CASE SyncTail(t)
      BY <1>6, <2>1 DEF SyncTail
  <2>2. CASE SyncSuspended(t)
      BY <1>6, <2>2 DEF SyncSuspended
  <2>3. CASE SyncAdd(t)
      BY <1>6, <2>3 DEF SyncAdd
  <2>4. CASE SyncBack(t)
      BY <1>6, <2>4 DEF SyncBack
  <2>5. CASE SyncRun(t)
      BY <1>6, <2>5 DEF SyncRun
  <2>6. CASE SyncSub(t)
      BY <1>6, <2>6 DEF SyncSub
  <2>7. CASE Wait(t)
      BY <1>6, <2>7 DEF Wait
  <2>8. QED
      BY <1>6, <2>1, <2>2, <2>3, <2>4, <2>5, <2>6, <2>7, Zenon
         DEF SyncStep
<1>7. ASSUME NEW t \in Clients, BarrierStep(t)  PROVE Locked' /\ Granted'
    BY <1>7 DEF BarrierStep, BarrierTail, BarrierSuspended, BarrierLock,
           BarrierRun, BarrierCheck, TransferSuspended, BarrierUnlock
<1>8. ASSUME NEW t \in Clients, SlowStep(t)  PROVE Locked' /\ Granted'
    BY <1>8 DEF SlowStep, SlowRun, SlowTest, SlowSpin, SlowResume, SlowUnlock
<1>9. ASSUME NEW t \in Clients, HandOverStep(t)  PROVE Locked' /\ Granted'
  <2>1. CASE OneHead(t)
      BY <1>9, <2>1 DEF OneHead
  <2>2. CASE OneTail(t)
      BY <1>9, <2>2 DEF OneTail
  <2>3. CASE OneSpin(t)
      BY <1>9, <2>3 DEF OneSpin
  <2>4. CASE TransferSuspend(t)
      BY <1>9, <2>4 DEF TransferSuspend
  <2>5. CASE TransferRunning(t)
      BY <1>9, <2>5 DEF TransferRunning
  <2>6. CASE TransferSignal(t)
    <3>1. Grants(t) /\ ~Holds(t) /\ pc[t] = "onesig" /\ t \in Threads
        BY <1>9, <2>6 DEF TransferSignal
    <3>2. /\ \A u \in Threads : u # t => pc'[u] = pc[u] /\ ret'[u] = ret[u]
          /\ pc'[t] = "idle" /\ running' = running
          /\ redirected' = redirected
          /\ sema' = [sema EXCEPT ![obj[t]] = @ + 1]
        BY <1>9, <2>6 DEF TransferSignal
    <3>3. \A u \in Threads : /\ Holds(u)' => Holds(u)
                             /\ Alone(u)' => Alone(u)
                             /\ Grants(u)' => Grants(u) /\ u # t
        BY <3>2
    <3>4. \A u \in Threads : ~Grants(u)'
        BY <3>1, <3>3
    <3>5. \A i \in Items : ~InFlight(i)
        BY <3>1
    <3>6. sema \in [Clients -> {0, 1}] /\ \A c \in Clients : sema[c] = 0
        BY <3>5
    <3>7. \A c \in Clients : sema'[c] = IF c = obj[t] THEN 1 ELSE 0
        BY <3>2, <3>6
    <3>8. sema' \in [Clients -> {0, 1}]
      <4> HIDE DEF Shape, Pointers, Place, SerialInv, NoReaders, Locked,
               Granted, InFlight, Grants, Fast, Alone, Holds
      <4>1. sema' = [c \in Clients |-> sema'[c]]
          BY <3>2, <3>6
      <4>2. QED
          BY <3>7, <4>1
    <3>9. \A i \in Items : InFlight(i)' => i = obj[t]
        BY <3>2, <3>5, <3>7
    <3>10. Locked'
        BY <3>2, <3>3
    <3>11. Granted'
        BY <3>1, <3>2, <3>4, <3>8, <3>9
    <3>12. QED
        BY <3>10, <3>11
  <2>7. QED
      BY <1>9, <2>1, <2>2, <2>3, <2>4, <2>5, <2>6, Zenon DEF HandOverStep
<1>10. ASSUME NEW t \in Workers, InvokeStep(t)  PROVE Locked' /\ Granted'
    BY <1>10 DEF InvokeStep, TakeQueue, InvokeSuspended, InvokeLock,
           InvokeLeave, InvokeUnlock, InvokeProbe
<1>11. ASSUME NEW t \in Workers, RedirectStep(t)  PROVE Locked' /\ Granted'
    BY <1>11 DEF RedirectStep, TakeRedirected, RunBeside, RedirectSub
<1>12. ASSUME NEW t \in Workers, DrainStep(t)  PROVE Locked' /\ Granted'
    BY <1>12 DEF DrainStep, DrainTail, DrainHead, DrainNext, DrainLast,
           DrainSpin, DrainSuspended, DrainPop
<1>13. ASSUME NEW t \in Workers, PopStep(t)  PROVE Locked' /\ Granted'
    BY <1>13, SMTT(60) DEF PopStep, RunItem, GrantSuspend, GrantRunning,
           GrantSignal, DrainRedirect
<1>14. ASSUME NEW t \in Workers, PutBackStep(t)  PROVE Locked' /\ Granted'
    BY <1>14 DEF PutBackStep, PutBackTail, PutBackSpin, PutBackHead
<1>15. ASSUME UNCHANGED queueVars  PROVE Locked' /\ Granted'
    BY <1>15
<1>16. QED  BY <1>1, <1>2, <1>3, <1>4, <1>5, <1>6, <1>7, <1>8, <1>9, <1>10,
           <1>11, <1>12, <1>13, <1>14, <1>15, NextCases

\* A block starts to run only on the thread that has the queue.
LEMMA StepRunners ==
  Width = 1 /\ Shape /\ SerialInv /\ [Next]_queueVars => NoReaders' /\ Runners'
<1> SUFFICES ASSUME Width = 1, Shape, SerialInv, [Next]_queueVars
             PROVE  NoReaders' /\ Runners'
    OBVIOUS
<1> USE QueueAssumption DEF Threads, Items, Locs, Returns, ClientLocs,
        WorkerLocs, ItemLocs, PushLocs, WakeupLocs, AsyncLocs, SyncLocs,
        FastLocs, SlowLocs, OneLocs, DrainLocs, InvokeLocs
<1> USE DEF queueVars, wordVars, lockVars, otherVars, outerVars, itemVars,
            listVars, worldVars, objectVars, rootVars, localVars, orderVars
<1> USE DEF Set, Goto, At, MayCall, Test, Add, TryEmpty, Finish, CallWakeup,
            Return, WakeupTest, DropRunning, DropReference, Pushed, Submit,
            Call, Enter, Run, Take, Dequeued, Pop, Proceed
<1> USE DEF Shape, Pointers, Place, SerialInv, NoReaders, Runners
<1>1. ASSUME Release  PROVE NoReaders' /\ Runners'
    BY <1>1 DEF Release
<1>2. ASSUME NEW t \in Threads, WakeupStep(t)  PROVE NoReaders' /\ Runners'
    BY <1>2 DEF WakeupStep, WakeupSuspended, WakeupTail, WakeupLock,
           WakeupPush, ReleaseInternal
<1>3. ASSUME NEW t \in Clients, CallStep(t)  PROVE NoReaders' /\ Runners'
    BY <1>3 DEF CallStep, Async, BarrierAsync, Sync, BarrierSync, Suspend,
           Resume
<1>4. ASSUME NEW t \in Clients, PushStep(t)  PROVE NoReaders' /\ Runners'
    BY <1>4 DEF PushStep, Swap, Link, SetHead
<1>5. ASSUME NEW t \in Clients, AsyncStep(t)  PROVE NoReaders' /\ Runners'
    BY <1>5 DEF AsyncStep, AsyncTail, AsyncSuspended, AsyncAdd, AsyncOver,
           AsyncOdd, AsyncRedirect
<1>6. ASSUME NEW t \in Clients, SyncStep(t)  PROVE NoReaders' /\ Runners'
    BY <1>6 DEF SyncStep, SyncTail, SyncSuspended, SyncAdd, SyncBack, SyncRun,
           SyncSub, Wait
<1>7. ASSUME NEW t \in Clients, BarrierStep(t)  PROVE NoReaders' /\ Runners'
    BY <1>7 DEF BarrierStep, BarrierTail, BarrierSuspended, BarrierLock,
           BarrierRun, BarrierCheck, TransferSuspended, BarrierUnlock
<1>8. ASSUME NEW t \in Clients, SlowStep(t)  PROVE NoReaders' /\ Runners'
    BY <1>8 DEF SlowStep, SlowRun, SlowTest, SlowSpin, SlowResume, SlowUnlock
<1>9. ASSUME NEW t \in Clients, HandOverStep(t)  PROVE NoReaders' /\ Runners'
    BY <1>9 DEF HandOverStep, OneHead, OneTail, OneSpin, TransferSuspend,
           TransferRunning, TransferSignal
<1>10. ASSUME NEW t \in Workers, InvokeStep(t)  PROVE NoReaders' /\ Runners'
    BY <1>10 DEF InvokeStep, TakeQueue, InvokeSuspended, InvokeLock,
           InvokeLeave, InvokeUnlock, InvokeProbe
<1>11. ASSUME NEW t \in Workers, RedirectStep(t)  PROVE NoReaders' /\ Runners'
    BY <1>11 DEF RedirectStep, TakeRedirected, RunBeside, RedirectSub
<1>12. ASSUME NEW t \in Workers, DrainStep(t)  PROVE NoReaders' /\ Runners'
    BY <1>12 DEF DrainStep, DrainTail, DrainHead, DrainNext, DrainLast,
           DrainSpin, DrainSuspended, DrainPop
<1>13. ASSUME NEW t \in Workers, PopStep(t)  PROVE NoReaders' /\ Runners'
    BY <1>13 DEF PopStep, RunItem, GrantSuspend, GrantRunning, GrantSignal,
           DrainRedirect
<1>14. ASSUME NEW t \in Workers, PutBackStep(t)  PROVE NoReaders' /\ Runners'
    BY <1>14 DEF PutBackStep, PutBackTail, PutBackSpin, PutBackHead
<1>15. ASSUME UNCHANGED queueVars  PROVE NoReaders' /\ Runners'
    BY <1>15
<1>16. QED  BY <1>1, <1>2, <1>3, <1>4, <1>5, <1>6, <1>7, <1>8, <1>9, <1>10,
           <1>11, <1>12, <1>13, <1>14, <1>15, NextCases

\* The runners of two blocks would both own the unit, or both the two, or one
\* the unit alone and one the two.
LEMMA RunAlone ==
  ASSUME Shape, SerialInv, NEW i \in Running, NEW j \in Running
  PROVE  i = j
<1> USE QueueAssumption DEF Threads, Items
<1> DEFINE At1(k, t) == /\ t \in Threads
                        /\ t \in Clients => k = t
                        /\ t \in Workers => k = obj[t]
                        /\ (Holds(t) /\ Alone(t)) \/ Grants(t)
<1>1. \A k \in Running : \E t \in Threads : At1(k, t)
    BY DEF Running, SerialInv, Runners, Holds, Alone, Fast, Grants, SlowLocs,
           DrainLocs
<1>2. PICK s \in Threads : At1(i, s)
    BY <1>1
<1>3. PICK t \in Threads : At1(j, t)
    BY <1>1
<1>4. s = t
    BY <1>2, <1>3 DEF SerialInv, Locked
<1>5. QED
    BY <1>2, <1>3, <1>4

\* On a serial queue no block runs beside another, for any number of threads
\* that submit, of workers and of items.
THEOREM SerialQueueExclusion ==
  ASSUME Width = 1
  PROVE  Spec => []BarriersRunAlone
<1>1. Shape /\ SerialInv /\ [Next]_queueVars => SerialInv'
    BY StepLocked, StepRunners DEF SerialInv
<1>2. Shape /\ SerialInv => BarriersRunAlone
    BY RunAlone DEF BarriersRunAlone
<1>3. QED
    BY <1>1, <1>2, InitShape, StepShape, InitSerial, PTL DEF Spec

-----------------------------------------------------------------------------
(* Any width.  The invariant of a queue: what became of its items,         *)
(* dq_running, who has the queue to itself, and the list.                  *)

\* A caller whose record was pushed and who has still to be told to run.
Waiting(c) == /\ obj[c] = c
              /\ \/ pc[c] \in {"release", "wait"}
                 \/ pc[c] \in WakeupLocs /\ ret[c] = "release"

\* Who is about to tell the caller whose record it has taken.
Granting(t) == pc[t] \in {"xsusp", "xrun", "signal", "onecas", "onespin",
                          "oneadd", "oneinc", "onesig"}

\* A caller, by the way of its own call ...
CallerOK(c) ==
    /\ obj[c] = c =>
         /\ kind[c] \in {"sync", "barriersync"}
         /\ pc[c] \in {"ytail", "ysusp", "yadd", "yback", "yrun"} =>
              kind[c] = "sync"
         /\ pc[c] \in {"btail", "bsusp", "bcas", "brun", "srun"} =>
              kind[c] = "barriersync"
         /\ pc[c] \in {"ytail", "ysusp", "yadd", "yback", "btail", "bsusp",
                       "bcas", "swap"} => state[c] = "free"
         /\ pc[c] \in WakeupLocs /\ ret[c] = "swap" => state[c] = "free"
         /\ pc[c] \in WakeupLocs => ret[c] \in {"swap", "release"}
         /\ pc[c] \in {"yrun", "brun", "srun"} => state[c] = "running"
         /\ pc[c] \in {"link", "sethead"} => state[c] = "queued"
         /\ Waiting(c) => state[c] \in {"queued", "taken"}
         /\ pc[c] \in SyncLocs \cup FastLocs \cup SlowLocs \cup PushLocs
                        \cup WakeupLocs
    /\ obj[c] # c => state[c] = "free"
    /\ sema[c] # 0 => sema[c] = 1 /\ Waiting(c) /\ state[c] = "taken"
    /\ pc[c] \in {"ytail", "ysusp", "yadd", "yback", "yrun", "btail", "bsusp",
                  "bcas", "brun", "srun", "wait"} => obj[c] = c
    /\ pc[c] \in {"idle", "ysub", "bcheck", "fsusp", "bdec", "stest", "sspin",
                  "ssub", "sdec", "one"} => obj[c] = NULL
    /\ pc[c] \in WakeupLocs /\ ret[c] = "idle" => obj[c] = NULL
    /\ pc[c] \in {"swap", "link", "sethead"} => obj[c] = c \/ obj[c] \in Works
    /\ pc[c] \in WakeupLocs /\ ret[c] = "swap" =>
         obj[c] = c \/ obj[c] \in Works
    /\ (/\ obj[c] \in Works
        /\ \/ pc[c] \in AsyncLocs \cup {"swap", "link", "sethead"}
           \/ pc[c] \in WakeupLocs /\ ret[c] = "swap") =>
         /\ by[obj[c]] = c
         /\ pc[c] \in AsyncLocs => kind[obj[c]] = "async"
         /\ kind[obj[c]] \in {"async", "barrier"}
         /\ state[obj[c]] = IF pc[c] = "apush" THEN "taken"
                            ELSE IF pc[c] \in {"link", "sethead"} THEN "queued"
                            ELSE "free"

\* ... and by that of a thread that has taken its record.
GrantsOK ==
    \A t \in Threads : Granting(t) =>
      /\ obj[t] \in Clients =>
           /\ Waiting(obj[t]) /\ state[obj[t]] = "taken" /\ sema[obj[t]] = 0
           /\ \A u \in Threads : Granting(u) /\ obj[u] = obj[t] => u = t
      /\ pc[t] = "signal" => obj[t] \in Clients
      /\ t \in Clients => obj[t] \in Clients
      /\ t \in Clients \/ pc[t] = "xsusp" =>
           obj[t] \in Clients /\ kind[obj[t]] = "barriersync"

\* Where a thread has an asynchronous item to run or to send on.
Bears(t) == pc[t] \in {"apush", "runitem", "xrun", "redirect", "runbeside"}

\* An asynchronous item by what became of it and by who has it.
WorksOK ==
    /\ \A w \in Works :
         /\ kind[w] \in {"none", "async", "barrier"}
         /\ by[w] = NULL => state[w] = "free"
         /\ state[w] \in {"queued", "taken", "running"} => kind[w] # "none"
         /\ state[w] = "running" =>
              \E t \in Workers :
                  pc[t] \in {"runitem", "runbeside"} /\ obj[t] = w
         /\ w \in redirected =>
              /\ state[w] = "taken" /\ kind[w] = "async"
              /\ \A t \in Threads : Bears(t) => obj[t] # w
    /\ \A t \in Threads : Bears(t) /\ obj[t] \in Works =>
         /\ state[obj[t]] = IF pc[t] \in {"runitem", "runbeside"}
                            THEN "running" ELSE "taken"
         /\ kind[obj[t]] = IF pc[t] = "runitem" THEN "barrier" ELSE "async"
         /\ \A u \in Threads : Bears(u) /\ obj[u] = obj[t] => u = t
    /\ \A t \in Workers : pc[t] \in {"runitem", "redirect", "runbeside"} =>
         obj[t] \in Works

\* The values that what became of an item can have.
History ==
    /\ state \in [Items -> {"free", "queued", "taken", "running", "done"}]
    /\ kind \in [Items -> {"none", "async", "barrier", "sync", "barriersync"}]
    /\ by \in [Works -> Clients \cup {NULL}]
    /\ sema \in [Clients -> Nat]
    /\ \A c \in Clients : kind[c] \in {"none", "sync", "barriersync"}

ItemsInv == /\ History /\ GrantsOK /\ WorksOK
            /\ \A c \in Clients : CallerOK(c)

-----------------------------------------------------------------------------
\* dq_running: two for each reader, granted barrier or attempt, one for the
\* thread that holds the queue.
HandsOver(t) == pc[t] \in OneLocs /\ ret[t] = "ssub"
Entered(t) == \/ pc[t] \in {"apush", "runbeside", "rsub", "yrun", "ysub",
                            "signal", "redirect", "onesig"} \cup SlowLocs
              \/ HandsOver(t)
Trying(t) == pc[t] \in {"aover", "aodd", "yback"}
Twos(t) == Entered(t) \/ Trying(t)

One(b) == IF b THEN 1 ELSE 0
Shares == [t \in Threads |-> One(Twos(t))]
Doubles == CountAt(Threads, Shares, {1}) + Cardinality(redirected)
             + CountAt(Clients, sema, {1})

Owner == [t \in Threads |-> One(Holds(t))]
Held == \E t \in Threads : Holds(t)
Single == IF Held THEN 1 ELSE 0

\* dq_running counts them, and one thread at a time holds the queue.
RunInv ==
    /\ IsFiniteSet(redirected)
    /\ running = 2 * Doubles + Single
    /\ \A s, t \in Threads : Holds(s) /\ Holds(t) => s = t

\* A thread that has the queue to itself.
Sole(t) == \/ Fast(t) \/ pc[t] \in {"runitem", "xsusp"}
           \/ pc[t] = "xrun" /\ kind[obj[t]] = "barriersync"

\* A barrier that was granted, or the thread that is about to grant it.
Barrier(t) == \/ pc[t] \in SlowLocs \cup {"onesig"} \/ HandsOver(t)
              \/ pc[t] = "signal" /\ kind[obj[t]] = "barriersync"
Told(c) == sema[c] # 0 /\ kind[c] = "barriersync"

\* Nobody entered beside a thread that has the queue to itself; nobody holds
\* the queue while it is handed over; and one barrier at a time is granted,
\* whether on its way to the caller, with the caller, or told by the
\* semaphore.
SoleAlone ==
    \A t \in Threads : Sole(t) =>
      /\ \A u \in Threads : ~Entered(u)
      /\ redirected = {} /\ \A c \in Clients : sema[c] = 0
NoHolder ==
    \A t \in Threads : HandsOver(t) /\ pc[t] # "onesig" =>
      \A u \in Threads : ~Holds(u)
OneBarrier == \A s, t \in Threads : Barrier(s) /\ Barrier(t) => s = t
OneTold ==
    \A c \in Clients : Told(c) =>
      /\ \A t \in Threads : ~Barrier(t)
      /\ \A d \in Clients : Told(d) => d = c

ExclInv == SoleAlone /\ NoHolder /\ OneBarrier /\ OneTold

-----------------------------------------------------------------------------
\* A thread that has the items behind its own for itself: dq_items_head is not
\* for others to use.
Detached(t) == \/ pc[t] \in {"dnext", "dcas", "dspin", "puthead"}
               \/ /\ pc[t] \in {"dsusp", "dpop", "out", "runitem", "xsusp",
                                "xrun", "signal", "redirect"}
                  /\ link[t] # NULL
               \/ pc[t] \in {"onecas", "onespin"}
\* A drain whose item at hand was the last when it took the list: what others
\* push after it makes a list of its own, from the second item on.
Cut(t) == pc[t] \in {"dsusp", "dpop", "out", "outspin"} /\ link[t] = NULL
Gapped == \E t \in Threads : Cut(t)
\* A thread that hands over an item which dq_items_tail may still point to.
Ghost(t) == pc[t] \in {"onecas", "onespin"}
First == IF Gapped THEN 2 ELSE 1

ListLocs == {"link", "sethead", "dtail", "dhead", "dnext", "dcas", "dspin",
             "dsusp", "dpop", "runitem", "xsusp", "xrun", "signal", "redirect",
             "out", "outspin", "puthead", "onecas", "onespin"}

\* The items on the list, in order: those that are queued, once each.
Sequence ==
    /\ fifo \in Seq(Items)
    /\ \A j, k \in 1 .. Len(fifo) : fifo[j] = fifo[k] => j = k
    /\ \A i \in Items :
         state[i] = "queued" <=> \E k \in 1 .. Len(fifo) : fifo[k] = i

\* A link leads to the next item, or from an item that was taken last to the
\* first that is left.
Links ==
    /\ \A k \in 1 .. Len(fifo) : next[fifo[k]] # NULL =>
         k < Len(fifo) /\ next[fifo[k]] = fifo[k + 1] /\ First <= k
    /\ \A t \in Threads : Ghost(t) /\ next[obj[t]] # NULL =>
         Len(fifo) > 0 /\ next[obj[t]] = fifo[1]

\* A caller on its way to link its item to the one that was last before it.
Linking(c) ==
    /\ link[c] \in Items /\ next[link[c]] = NULL
    /\ \/ \E k \in First .. Len(fifo) - 1 :
            link[c] = fifo[k] /\ obj[c] = fifo[k + 1]
       \/ /\ Len(fifo) > 0 /\ obj[c] = fifo[1]
          /\ \E t \in Threads : Ghost(t) /\ link[c] = obj[t]

Linkers == \A c \in Clients : pc[c] = "link" => Linking(c)

\* dq_items_tail is the last item, if the list or the thread that is about to
\* empty it has one; dq_items_head is the first, and NULL while the list is
\* off the queue or the first push is not over.
TailLast ==
    /\ tail # NULL =>
         \/ Len(fifo) >= First /\ tail = fifo[Len(fifo)]
         \/ fifo = <<>> /\ \E t \in Threads : Ghost(t) /\ tail = obj[t]
    /\ tail = NULL => Len(fifo) < First /\ \A t \in Threads : ~Ghost(t)

HeadFirst ==
    head # NULL =>
      \/ \E t \in Threads : pc[t] = "puthead"
      \/ /\ Len(fifo) >= First /\ head = fifo[First]
         /\ \A t \in Threads : ~Detached(t)

HeadLate ==
    \A c \in Clients : pc[c] = "sethead" =>
      /\ Len(fifo) >= First /\ obj[c] = fifo[First] /\ head = NULL
      /\ \A t \in Threads : ~Detached(t)

Ends == TailLast /\ HeadFirst /\ HeadLate

\* The item at hand of a drain is the first on the list until it is popped,
\* and the one it knows to come after it, the next.
Fronts ==
    \A t \in Threads :
      /\ pc[t] \in {"dnext", "dcas", "dspin", "dsusp", "dpop", "out",
                    "outspin", "puthead"} => Len(fifo) > 0 /\ obj[t] = fifo[1]
      /\ pc[t] \notin ListLocs \ {"dtail", "dhead", "dcas"} /\ t \in Workers
           => link[t] = NULL
      /\ pc[t] = "outspin" => Len(fifo) > 1 /\ link[t] = NULL
      /\ pc[t] \in {"dsusp", "dpop", "out"} /\ link[t] # NULL =>
           Len(fifo) > 1 /\ link[t] = fifo[2] /\ next[obj[t]] = link[t]
      /\ pc[t] \in {"runitem", "xsusp", "xrun", "signal", "redirect"}
           /\ link[t] # NULL => Len(fifo) > 0 /\ link[t] = fifo[1]

ListInv == Sequence /\ Links /\ Linkers /\ Ends /\ Fronts

-----------------------------------------------------------------------------
(* dq_running: what one step changes of it                                 *)

\* A step that leaves alone what was granted, that sends a continuation to
\* the root queue or tells a caller to run, or that takes either up.
Same == UNCHANGED <<redirected, sema>>
Sends(w) == /\ UNCHANGED sema
            /\ w \notin redirected /\ redirected' = redirected \cup {w}
Fetches(w) == /\ UNCHANGED sema
              /\ w \in redirected /\ redirected' = redirected \ {w}
Tells(c) == /\ UNCHANGED redirected
            /\ c \in Clients /\ sema[c] = 0 /\ sema'[c] = 1
            /\ \A d \in Clients : d # c => sema'[d] = sema[d]
Hears(c) == /\ UNCHANGED redirected
            /\ c \in Clients /\ sema[c] = 1 /\ sema'[c] = 0
            /\ \A d \in Clients : d # c => sema'[d] = sema[d]

Grows   == (\E w \in Works : Sends(w)) \/ \E c \in Clients : Tells(c)
Shrinks == (\E w \in Works : Fetches(w)) \/ \E c \in Clients : Hears(c)

\* The step changes dq_running by what it changes of the shares of thread t
\* and by n shares that are granted to nobody in particular.
Moved(t, n) ==
   running' = running + 2 * (Shares'[t] - Shares[t] + n) + Owner'[t] - Owner[t]

RunMove(t) ==
   /\ \A u \in Threads : u # t => pc'[u] = pc[u] /\ ret'[u] = ret[u]
   /\ Holds(t)' /\ ~Holds(t) => running = 0
   /\ \/ Same /\ Moved(t, 0)
      \/ Grows /\ Moved(t, 1)
      \/ Shrinks /\ Moved(t, -1)

\* The parts of dq_running: threads, told callers, redirected items.
Callers == CountAt(Threads, Shares, {1})
Tokens  == CountAt(Clients, sema, {1})
Sent    == Cardinality(redirected)

\* The parts of dq_running are numbers, and what is granted is their sum.
LEMMA CountsType ==
  ASSUME RunInv
  PROVE  /\ Callers \in Nat /\ Tokens \in Nat /\ Sent \in Nat
         /\ Doubles = Callers + Sent + Tokens
<1>0. IsFiniteSet(Threads) /\ IsFiniteSet(Clients)
    BY QueueAssumption, FS_Subset DEF Threads
<1>1. Callers \in Nat /\ Tokens \in Nat
    BY <1>0, CountType DEF Callers, Tokens
<1>2. Sent \in Nat
    BY FS_CardinalityType DEF RunInv, Sent
<1>3. QED BY <1>1, <1>2 DEF Doubles, Callers, Tokens, Sent

\* What dq_running says.
LEMMA RunFacts ==
  ASSUME RunInv, NEW t \in Threads
  PROVE  /\ running \in Nat
         /\ Held <=> running % 2 = 1
         /\ Holds(t) => Held
         /\ Twos(t) => running >= 2 /\ (running <= 2 => ~Held)
         /\ running <= 1 => /\ ~Twos(t)
                           /\ redirected = {} /\ \A c \in Clients : sema[c] # 1
         /\ running = 0 => ~Held
<1>0. IsFiniteSet(Threads) /\ IsFiniteSet(Clients)
    BY QueueAssumption, FS_Subset DEF Threads
<1>1. /\ Callers \in Nat /\ Tokens \in Nat /\ Sent \in Nat
      /\ Doubles = Callers + Sent + Tokens
    BY CountsType
<1>2. Twos(t) => Callers > 0
  <2>1. Twos(t) => Shares[t] \in {1}
      BY DEF Shares, One
  <2>2. QED BY <2>1, <1>0, CountType DEF Callers
<1>3. Sent = 0 => redirected = {}
    BY FS_EmptySet DEF Sent, RunInv
<1>4. Tokens = 0 => \A c \in Clients : sema[c] # 1
    BY <1>0, CountType DEF Tokens
<1>5. running = 2 * Doubles + (IF Held THEN 1 ELSE 0)
    BY DEF RunInv, Single
<1> HIDE DEF Callers, Tokens, Sent, Doubles, RunInv, Held, Twos
<1>6. Holds(t) => Held
    BY DEF Held
<1>7. QED
    BY <1>1, <1>2, <1>3, <1>4, <1>5, <1>6

\* A step that moves dq_running by what it moves of one thread's shares keeps
\* what dq_running counts, and one holder at most.
LEMMA MoveRun ==
  ASSUME RunInv, NEW t \in Threads, RunMove(t)
  PROVE  RunInv'
<1>0. IsFiniteSet(Threads) /\ IsFiniteSet(Clients)
    BY QueueAssumption, FS_Subset DEF Threads
<1>1. Callers \in Nat /\ Tokens \in Nat /\ Sent \in Nat
    BY CountsType
<1>2. \A u \in Threads : u # t =>
          Shares'[u] = Shares[u] /\ Owner'[u] = Owner[u]
    BY DEF RunMove, Shares, Owner, One, Twos, Holds, Fast, Entered, Trying,
           HandsOver
<1>3. \A u \in Threads : /\ Shares[u] \in {0, 1} /\ Shares'[u] \in {0, 1}
                         /\ Owner[u] \in {0, 1} /\ Owner'[u] \in {0, 1}
    BY DEF Shares, Owner, One
<1>4. Callers' = Callers + Shares'[t] - Shares[t]
  <2>1. \A u \in Threads : Shares'[u] = IF u = t THEN Shares'[t] ELSE Shares[u]
      BY <1>2
  <2>2. CountAt(Threads, Shares', {1})
          = CountAt(Threads, Shares, {1})
              - Weight(Shares[t], {1}) + Weight(Shares'[t], {1})
      BY <1>0, <2>1, CountStep
  <2>3. /\ Weight(Shares[t], {1}) = Shares[t]
        /\ Weight(Shares'[t], {1}) = Shares'[t]
      BY <1>3 DEF Weight
  <2>4. Callers' = CountAt(Threads, Shares', {1})
      BY DEF Callers, CountAt
  <2>5. QED BY <2>2, <2>3, <2>4, <1>3, <1>1 DEF Callers
<1>5. ASSUME NEW w \in Works, Sends(w)
      PROVE  Sent' = Sent + 1 /\ Tokens' = Tokens /\ IsFiniteSet(redirected')
    BY <1>5, FS_AddElement DEF Sends, Sent, Tokens, CountAt, RunInv
<1>6. ASSUME NEW w \in Works, Fetches(w)
      PROVE  Sent' = Sent - 1 /\ Tokens' = Tokens /\ IsFiniteSet(redirected')
    BY <1>6, FS_RemoveElement DEF Fetches, Sent, Tokens, CountAt, RunInv
<1>7. ASSUME NEW c \in Clients,
             \A d \in Clients : d # c => sema'[d] = sema[d]
      PROVE  Tokens' = Tokens - Weight(sema[c], {1}) + Weight(sema'[c], {1})
  <2>1. \A d \in Clients : sema'[d] = IF d = c THEN sema'[c] ELSE sema[d]
      BY <1>7
  <2>2. CountAt(Clients, sema', {1})
          = CountAt(Clients, sema, {1})
              - Weight(sema[c], {1}) + Weight(sema'[c], {1})
      BY <1>0, <2>1, CountStep
  <2>3. QED  BY <2>2 DEF Tokens, CountAt
<1>8. ASSUME NEW c \in Clients, Tells(c)
      PROVE  Sent' = Sent /\ Tokens' = Tokens + 1 /\ IsFiniteSet(redirected')
  <2>1. Sent' = Sent /\ IsFiniteSet(redirected')
      BY <1>8 DEF Tells, Sent, RunInv
  <2>2. Tokens' = Tokens + 1
      BY <1>1, <1>7, <1>8 DEF Tells, Weight
  <2>3. QED  BY <2>1, <2>2
<1>9. ASSUME NEW c \in Clients, Hears(c)
      PROVE  Sent' = Sent /\ Tokens' = Tokens - 1 /\ IsFiniteSet(redirected')
  <2>1. Sent' = Sent /\ IsFiniteSet(redirected')
      BY <1>9 DEF Hears, Sent, RunInv
  <2>2. Tokens' = Tokens - 1
      BY <1>1, <1>7, <1>9 DEF Hears, Weight
  <2>3. QED  BY <2>1, <2>2
<1>10. /\ running' = running + 2 * (Shares'[t] - Shares[t]
                                      + (Sent' - Sent) + (Tokens' - Tokens))
                            + Owner'[t] - Owner[t]
       /\ Sent' \in Int /\ Tokens' \in Int /\ IsFiniteSet(redirected')
  <2> DEFINE G == running' = running + 2 * (Shares'[t] - Shares[t]
                                      + (Sent' - Sent) + (Tokens' - Tokens))
                            + Owner'[t] - Owner[t]
             F == Sent' \in Int /\ Tokens' \in Int /\ IsFiniteSet(redirected')
  <2>0. /\ Shares[t] \in Int /\ Shares'[t] \in Int
        /\ Owner[t] \in Int /\ Owner'[t] \in Int
      BY <1>3
  <2>1. ASSUME Same, Moved(t, 0)  PROVE G /\ F
    <3>1. Sent' = Sent /\ Tokens' = Tokens /\ IsFiniteSet(redirected')
        BY <2>1 DEF Same, Sent, Tokens, CountAt, RunInv
    <3>2. running' = running + 2 * (Shares'[t] - Shares[t] + 0)
                        + Owner'[t] - Owner[t]
        BY <2>1 DEF Moved
    <3> HIDE DEF Shares, Owner, Sent, Tokens
    <3>3. QED  BY <3>1, <3>2, <2>0, <1>1
  <2>2. ASSUME Moved(t, 1), Grows  PROVE G /\ F
    <3>1. \E n, m \in Int :
              /\ Sent' = Sent + n /\ Tokens' = Tokens + m /\ n + m = 1
              /\ IsFiniteSet(redirected')
      <4>1. 0 \in Int /\ 1 \in Int /\ 0 + 1 = 1 /\ 1 + 0 = 1
          OBVIOUS
      <4>2. Tokens = Tokens + 0 /\ Sent = Sent + 0
          BY <1>1
      <4>3. QED  BY <4>1, <4>2, <2>2, <1>5, <1>8, <1>1 DEF Grows
    <3>2. PICK n \in Int, m \in Int :
              /\ Sent' = Sent + n /\ Tokens' = Tokens + m /\ n + m = 1
              /\ IsFiniteSet(redirected')
        BY <3>1
    <3>3. running' = running + 2 * (Shares'[t] - Shares[t] + 1)
                        + Owner'[t] - Owner[t]
        BY <2>2 DEF Moved
    <3> HIDE DEF Shares, Owner, Sent, Tokens
    <3>4. Shares'[t] - Shares[t] + 1
            = Shares'[t] - Shares[t] + (Sent' - Sent) + (Tokens' - Tokens)
        BY <3>2, <2>0, <1>1
    <3>5. Sent' \in Int /\ Tokens' \in Int
        BY <3>2, <1>1
    <3>6. QED  BY <3>2, <3>3, <3>4, <3>5
  <2>3. ASSUME Moved(t, -1), Shrinks  PROVE G /\ F
    <3>1. \E n, m \in Int :
              /\ Sent' = Sent + n /\ Tokens' = Tokens + m /\ n + m = -1
              /\ IsFiniteSet(redirected')
      <4>1. 0 \in Int /\ -1 \in Int /\ 0 + (-1) = -1 /\ (-1) + 0 = -1
          OBVIOUS
      <4>2. Tokens = Tokens + 0 /\ Sent = Sent + 0
          BY <1>1
      <4>3. QED  BY <4>1, <4>2, <2>3, <1>6, <1>9, <1>1 DEF Shrinks
    <3>2. PICK n \in Int, m \in Int :
              /\ Sent' = Sent + n /\ Tokens' = Tokens + m /\ n + m = -1
              /\ IsFiniteSet(redirected')
        BY <3>1
    <3>3. running' = running + 2 * (Shares'[t] - Shares[t] + (-1))
                        + Owner'[t] - Owner[t]
        BY <2>3 DEF Moved
    <3> HIDE DEF Shares, Owner, Sent, Tokens
    <3>4. Shares'[t] - Shares[t] + (-1)
            = Shares'[t] - Shares[t] + (Sent' - Sent) + (Tokens' - Tokens)
        BY <3>2, <2>0, <1>1
    <3>5. Sent' \in Int /\ Tokens' \in Int
        BY <3>2, <1>1
    <3>6. QED  BY <3>2, <3>3, <3>4, <3>5
  <2> HIDE DEF G, F
  <2>4. \/ Same /\ Moved(t, 0)
        \/ Grows /\ Moved(t, 1)
        \/ Shrinks /\ Moved(t, -1)
      BY DEF RunMove
  <2>5. G /\ F  BY <2>1, <2>2, <2>3, <2>4, Zenon
  <2>6. QED  BY <2>5 DEF G, F
<1>11. Single' = Single + Owner'[t] - Owner[t]
  <2>1. Held <=> \E u \in Threads : Owner[u] = 1
      BY DEF Held, Owner, One
  <2>2. Held' <=> \E u \in Threads : Owner'[u] = 1
      BY DEF Held, Owner, One, Holds, Fast
  <2>3. Owner'[t] = 1 /\ Owner[t] = 0 => ~Held
      BY RunFacts DEF RunMove, Owner, One
  <2>4. Owner[t] = 1 => \A u \in Threads : u # t => Owner[u] # 1
      BY DEF RunInv, Owner, One
  <2> HIDE DEF Held, Owner
  <2>5. QED
      BY <2>1, <2>2, <2>3, <2>4, <1>2, <1>3 DEF Single
<1>12. \A r, s \in Threads : Owner'[r] = 1 /\ Owner'[s] = 1 => r = s
  <2>1. Owner'[t] = 1 /\ Owner[t] = 0 => \A u \in Threads : Owner[u] # 1
      BY RunFacts DEF RunMove, Owner, One, Held
  <2>2. \A r, s \in Threads : Owner[r] = 1 /\ Owner[s] = 1 => r = s
      BY DEF RunInv, Owner, One
  <2> HIDE DEF Owner
  <2>3. QED  BY <1>2, <1>3, <2>1, <2>2
<1>13. QED
  <2>1. /\ running = 2 * (Callers + Sent + Tokens) + Single
        /\ running \in Int /\ Single \in Int
      BY CountsType, RunFacts DEF RunInv, Single
  <2>2. /\ Shares[t] \in Int /\ Shares'[t] \in Int
        /\ Owner[t] \in Int /\ Owner'[t] \in Int
      BY <1>3
  <2> HIDE DEF Callers, Sent, Tokens, Shares, Owner, Single
  <2>3. running' = 2 * (Callers' + Sent' + Tokens') + Single'
    <3>1. PICK s \in Int : s = Shares'[t] - Shares[t]
        BY <2>2
    <3>2. PICK o \in Int : o = Owner'[t] - Owner[t]
        BY <2>2
    <3>3. Callers' = Callers + s
        BY <3>1, <2>2, <1>1, <1>4
    <3>4. Single' = Single + o
        BY <3>2, <2>1, <2>2, <1>11
    <3>5. running' = running
                       + 2 * (s + (Sent' - Sent) + (Tokens' - Tokens)) + o
        BY <3>1, <3>2, <2>1, <2>2, <1>1, <1>10
    <3>6. Sent' \in Int /\ Tokens' \in Int
        BY <1>10
    <3>7. QED  BY <3>3, <3>4, <3>5, <3>6, <2>1, <1>1
  <2>4. Doubles' = Callers' + Sent' + Tokens'
      BY DEF Doubles, Callers, Sent, Tokens
  <2>5. running' = 2 * Doubles' + Single'
      BY <2>3, <2>4
  <2>6. \A r, s \in Threads : Holds(r)' /\ Holds(s)' => r = s
      BY <1>12 DEF Owner, One, Holds, Fast
  <2>7. QED
      BY <2>5, <2>6, <1>10 DEF RunInv, Holds, Fast

-----------------------------------------------------------------------------
(* The list: nobody works on it but the thread that holds the queue or     *)
(* hands it over, while others push.                                       *)

\* Where a thread has the head of the list for itself.
Grip == DrainLocs \cup {"onecas", "onespin"}
OneGrip == \A u, v \in Threads : pc[u] \in Grip /\ pc[v] \in Grip => u = v

\* A step leaves the local variables of the other threads alone.
Others(t) == \A u \in Threads : u # t => /\ pc'[u] = pc[u] /\ obj'[u] = obj[u]
                                         /\ link'[u] = link[u]

\* With an empty list nobody has taken it off the queue.
LEMMA NoTail ==
  ASSUME ListInv, OneGrip, tail = NULL
  PROVE  /\ \A u \in Threads : ~Detached(u)
         /\ head = NULL /\ Len(fifo) = First - 1
<1>1. Len(fifo) < First /\ Len(fifo) \in Nat
    BY DEF ListInv, Ends, TailLast, HeadFirst, HeadLate, Sequence
<1>2. Len(fifo) = First - 1
    BY <1>1 DEF First, Gapped, Cut, ListInv, Fronts
<1>3. ASSUME NEW u \in Threads, Detached(u)  PROVE FALSE
  <2>1. ~Ghost(u) /\ pc[u] \in Grip /\ ~Cut(u)
      BY <1>3
         DEF ListInv, Ends, TailLast, HeadFirst, HeadLate, Detached, Cut,
             Ghost, Grip, DrainLocs
  <2>2. ~Gapped
      BY <2>1 DEF OneGrip, Gapped, Cut, Grip, DrainLocs
  <2>3. Len(fifo) > 0
      BY <1>3, <2>1, <1>1 DEF ListInv, Fronts, Detached, Ghost
  <2>4. QED  BY <2>2, <2>3, <1>2 DEF First
<1>4. ASSUME NEW u \in Threads, pc[u] = "puthead"  PROVE FALSE
  <2>1. Detached(u)  BY <1>4 DEF Detached
  <2>2. QED  BY <2>1, <1>3
<1>5. head = NULL
  <2>1. First \in {1, 2}  BY DEF First
  <2>2. QED
      BY <2>1, <1>1, <1>4 DEF ListInv, Ends, TailLast, HeadFirst, HeadLate
<1>6. QED  BY <1>2, <1>3, <1>5

\* _dispatch_queue_push: the swap of dq_items_tail puts the item last, and
\* the caller has still to hang it on the item before it, or to make it the
\* head of an empty list.
LEMMA SwapList ==
  ASSUME Shape, Shape', ItemsInv, ListInv, OneGrip, NEW t \in Clients, Swap(t)
  PROVE  ListInv'
<1> USE QueueAssumption
<1> DEFINE i == obj[t]  n == Len(fifo)
<1>0. Clients \subseteq Threads /\ t \in Threads
    BY DEF Threads
<1>1. i \in Items /\ i # NULL /\ state[i] = "free" /\ pc[t] = "swap"
    BY DEF Swap, At, ItemsInv, CallerOK, Items, Threads
<1>2. /\ fifo \in Seq(Items) /\ n \in Nat
      /\ \A k \in 1 .. n : fifo[k] # i /\ fifo[k] \in Items
    BY <1>1 DEF ListInv, Sequence
<1>3. /\ fifo' = Append(fifo, i) /\ tail' = i /\ head' = head
      /\ \A j \in Items : next'[j] = IF j = i THEN NULL ELSE next[j]
      /\ \A j \in Items : state'[j] = IF j = i THEN "queued" ELSE state[j]
      /\ pc'[t] = IF tail # NULL THEN "link" ELSE "sethead"
      /\ obj'[t] = i /\ link'[t] = tail
      /\ Others(t)
    BY <1>0, <1>1 DEF Swap, Set, Goto, At, Shape, Pointers, Others, ItemsInv,
           History, wordVars, lockVars, worldVars
<1>4. /\ fifo' \in Seq(Items) /\ Len(fifo') = n + 1
      /\ \A k \in 1 .. n : fifo'[k] = fifo[k]
      /\ fifo'[n + 1] = i
    BY <1>1, <1>2, <1>3
<1>5. Gapped' <=> Gapped
    BY <1>1, <1>3 DEF Gapped, Cut, Others
<1>6. First' = First
    BY <1>5 DEF First
<1>7. First \in {1, 2} /\ First <= n + 1
    BY <1>2 DEF First, Gapped, Cut, ListInv, Fronts
<1>8. \A u \in Threads : Ghost(u) => obj[u] # i /\ obj[u] \in Items /\ u # t
  <2>1. \A u \in Threads : Ghost(u) => Granting(u) /\ u \in Clients
      BY DEF Ghost, Granting, Shape, Place, Threads, WorkerLocs, WakeupLocs,
             InvokeLocs, DrainLocs
  <2>2. QED  BY <2>1, <1>1 DEF ItemsInv, GrantsOK, Items, Ghost
<1>9. \A u \in Threads : pc'[u] \in {"onecas", "onespin"} =>
          Ghost(u) /\ obj'[u] = obj[u]
    BY <1>3 DEF Ghost, Others
<1>10. Sequence'
    BY <1>1, <1>2, <1>3, <1>4 DEF ListInv, Sequence
<1>11. Links'
  <2>1. ASSUME NEW k \in 1 .. Len(fifo'), next'[fifo'[k]] # NULL
        PROVE  k < Len(fifo') /\ next'[fifo'[k]] = fifo'[k + 1] /\ First' <= k
      BY <2>1, <1>2, <1>3, <1>4, <1>6 DEF ListInv, Links
  <2>2. ASSUME NEW u \in Threads, pc'[u] \in {"onecas", "onespin"},
               next'[obj'[u]] # NULL
        PROVE  Len(fifo') > 0 /\ next'[obj'[u]] = fifo'[1]
      BY <2>2, <1>2, <1>3, <1>4, <1>8, <1>9 DEF ListInv, Links
  <2>3. QED  BY <2>1, <2>2 DEF Links, Ghost
<1>12. ASSUME NEW c \in Clients, pc'[c] = "link"  PROVE Linking(c)'
  <2>1. CASE c # t
    <3>1. /\ pc[c] = "link" /\ obj'[c] = obj[c] /\ link'[c] = link[c]
          /\ Linking(c)
        BY <1>12, <2>1, <1>0, <1>3 DEF ListInv, Linkers, Others
    <3>2. link'[c] \in Items /\ next'[link'[c]] = NULL
        BY <3>1, <1>3 DEF Linking
    <3>3. CASE \E k \in First .. n - 1 :
                  link[c] = fifo[k] /\ obj[c] = fifo[k + 1]
        BY <3>1, <3>2, <3>3, <1>2, <1>4, <1>6, <1>7 DEF Linking
    <3>4. CASE /\ n > 0 /\ obj[c] = fifo[1]
               /\ \E u \in Threads : Ghost(u) /\ link[c] = obj[u]
        BY <3>1, <3>2, <3>4, <1>2, <1>3, <1>4, <1>8 DEF Linking, Ghost, Others
    <3>5. QED  BY <3>1, <3>3, <3>4 DEF Linking
  <2>2. CASE c = t
    <3>1. tail # NULL /\ link'[c] = tail /\ obj'[c] = i
        BY <1>12, <2>2, <1>3
    <3>2. CASE n >= First /\ tail = fifo[n]
      <4>1. next[tail] = NULL /\ tail \in Items
          BY <3>1, <3>2, <1>2, <1>7 DEF ListInv, Links
      <4>2. n \in First .. Len(fifo') - 1 /\ tail = fifo'[n]
            /\ i = fifo'[n + 1]
          BY <3>2, <1>2, <1>4, <1>7
      <4>3. QED  BY <4>1, <4>2, <3>1, <1>3, <1>6 DEF Linking
    <3>3. CASE fifo = <<>> /\ \E u \in Threads : Ghost(u) /\ tail = obj[u]
      <4>1. PICK u \in Threads : Ghost(u) /\ tail = obj[u]
          BY <3>3
      <4>2. next[tail] = NULL /\ tail \in Items /\ u # t
          BY <3>3, <4>1, <1>8 DEF ListInv, Links
      <4>3. pc'[u] \in {"onecas", "onespin"} /\ obj'[u] = tail
          BY <4>1, <4>2, <1>3 DEF Ghost, Others
      <4>4. n = 0
          BY <3>3
      <4>5. Len(fifo') > 0 /\ fifo'[1] = i
          BY <4>4, <1>4
      <4>6. next'[tail] = NULL
          BY <4>2, <1>3
      <4>7. QED
          BY <4>2, <4>3, <4>5, <4>6, <3>1 DEF Linking, Ghost
    <3>4. QED
        BY <3>1, <3>2, <3>3 DEF ListInv, Ends, TailLast, HeadFirst, HeadLate
  <2>3. QED  BY <2>1, <2>2
<1>13. Ends'
  <2>1. Len(fifo') >= First' /\ tail' = fifo'[Len(fifo')] /\ tail' # NULL
      BY <1>1, <1>2, <1>3, <1>4, <1>6, <1>7
  <2>2. (\A u \in Threads : ~Detached(u)) => \A u \in Threads : ~Detached(u)'
      BY <1>1, <1>3 DEF Detached, Others
  <2>3. head' # NULL =>
         \/ \E u \in Threads : pc'[u] = "puthead"
         \/ /\ Len(fifo') >= First' /\ head' = fifo'[First']
            /\ \A u \in Threads : ~Detached(u)
      BY <2>1, <1>1, <1>2, <1>3, <1>4, <1>6, <1>7
         DEF ListInv, Ends, TailLast, HeadFirst, HeadLate, Others
  <2>4. \A c \in Clients : pc'[c] = "sethead" =>
         /\ Len(fifo') >= First' /\ obj'[c] = fifo'[First'] /\ head' = NULL
         /\ \A u \in Threads : ~Detached(u)
    <3>1. ASSUME NEW c \in Clients, pc'[c] = "sethead", c # t
          PROVE  /\ Len(fifo') >= First' /\ obj'[c] = fifo'[First']
                 /\ head' = NULL /\ \A u \in Threads : ~Detached(u)
        BY <3>1, <2>1, <1>0, <1>2, <1>3, <1>4, <1>6, <1>7
           DEF ListInv, Ends, TailLast, HeadFirst, HeadLate, Others
    <3>2. ASSUME pc'[t] = "sethead"
          PROVE  /\ Len(fifo') >= First' /\ obj'[t] = fifo'[First']
                 /\ head' = NULL /\ \A u \in Threads : ~Detached(u)
        BY <3>2, <2>1, <1>2, <1>3, <1>4, <1>6, <1>7, NoTail
    <3>3. QED  BY <3>1, <3>2
  <2>5. QED
      BY <2>1, <2>2, <2>3, <2>4
         DEF Ends, TailLast, HeadFirst, HeadLate, Detached
<1>14. Fronts'
  <2>1. \A u \in Threads : u # t => pc'[u] = pc[u] /\ obj'[u] = obj[u]
                                     /\ link'[u] = link[u]
      BY <1>3 DEF Others
  <2>2. n > 0 => fifo'[1] = fifo[1] /\ fifo[1] # i
      BY <1>2, <1>4
  <2>3. n > 1 => fifo'[2] = fifo[2]
      BY <1>2, <1>4
  <2>4. pc'[t] \in {"link", "sethead"} /\ t \notin Workers
      BY <1>3
  <2>5. \A u \in Threads : pc[u] \in {"dsusp", "dpop", "out"} =>
            obj[u] \in Items
      BY DEF Shape, Place, ItemLocs, Pointers
  <2>6. QED
      BY <2>1, <2>2, <2>3, <2>4, <2>5, <1>2, <1>3, <1>4
         DEF ListInv, Fronts, ListLocs
<1>15. QED
    BY <1>10, <1>11, <1>12, <1>13, <1>14 DEF ListInv, Linkers

\* Nobody but t works on the list.
Only(t) == \A u \in Threads : u # t => pc[u] \notin Grip

\* Taking the first item off a sequence leaves the tail: by its place ...
LEMMA RemoveAtHead ==
  ASSUME NEW S, NEW s \in Seq(S), s # <<>>
  PROVE  RemoveAt(s, 1) = Tail(s)
  BY DEF RemoveAt

\* ... and by its name.
LEMMA RemoveHead ==
  ASSUME NEW S, NEW s \in Seq(S), s # <<>>
  PROVE  RemoveFirst(s, s[1]) = Tail(s)
<1> DEFINE I == {k \in 1 .. Len(s) : s[k] = s[1]}
<1>1. 1 \in I /\ \A k \in I : 1 <= k /\ k \in Int
    OBVIOUS
<1>2. Min(I) = 1
    BY <1>1 DEF Min
<1>3. RemoveFirst(s, s[1]) = RemoveAt(s, Min(I))
    BY <1>1 DEF RemoveFirst, SelectInSeq
<1>4. QED
    BY <1>2, <1>3, RemoveAtHead

\* What is left of a sequence without its first item, place by place.
LEMMA Shorter ==
  ASSUME NEW S, NEW s \in Seq(S), NEW r, Len(s) > 0, r = RemoveFirst(s, s[1])
  PROVE  /\ r \in Seq(S) /\ Len(r) = Len(s) - 1
         /\ \A k \in 1 .. Len(s) - 1 : r[k] = s[k + 1]
<1>1. s # <<>>
    OBVIOUS
<1>2. r = Tail(s)
    BY <1>1, RemoveHead
<1>3. QED
    BY <1>1, <1>2

\* An item that is handed over is off the list.
LEMMA GhostTaken ==
  ASSUME Shape, ItemsInv, ListInv
  PROVE  \A u \in Threads : Ghost(u) =>
           /\ u \in Clients /\ obj[u] \in Items
           /\ \A k \in 1 .. Len(fifo) : fifo[k] # obj[u]
<1> USE QueueAssumption
<1>1. \A u \in Threads : Ghost(u) => Granting(u) /\ u \in Clients
    BY DEF Ghost, Granting, Shape, Place, Threads, WorkerLocs, WakeupLocs,
           InvokeLocs, DrainLocs
<1>2. \A u \in Threads : Ghost(u) =>
          obj[u] \in Items /\ state[obj[u]] = "taken"
    BY <1>1 DEF ItemsInv, GrantsOK, Items, Ghost
<1>3. QED  BY <1>1, <1>2 DEF ListInv, Sequence

\* No two callers push one item.
LEMMA Distinct ==
  ASSUME ItemsInv, NEW c \in Clients, NEW d \in Clients, c # d,
         pc[c] \in {"swap", "link", "sethead"},
         pc[d] \in {"swap", "link", "sethead"}
  PROVE  obj[c] # obj[d]
  BY QueueAssumption DEF ItemsInv, CallerOK, Threads

\* The caller that stores do_next of the item before its own completes the
\* one link that was missing there, be that item still on the list or just
\* taken off it.
LEMMA LinkList ==
  ASSUME Shape, Shape', ItemsInv, ListInv, NEW t \in Clients, Link(t)
  PROVE  ListInv'
<1> USE QueueAssumption
<1> DEFINE x == obj[t]  p == link[t]  n == Len(fifo)
<1>0. Clients \subseteq Threads /\ t \in Threads /\ t \notin Workers
    BY DEF Threads
<1>1. pc[t] = "link" /\ Linking(t) /\ p \in Items /\ next[p] = NULL
    BY DEF Link, At, ListInv, Linkers, Linking
<1>2. /\ UNCHANGED <<fifo, state, tail, head>>
      /\ \A i \in Items : next'[i] = IF i = p THEN x ELSE next[i]
      /\ pc'[t] \in {"wait", "idle"}
      /\ Others(t)
    BY <1>0 DEF Link, Pushed, Set, Goto, At, Shape, Pointers, Others,
                outerVars, orderVars
<1>3. /\ fifo \in Seq(Items) /\ n \in Nat
      /\ \A j, k \in 1 .. n : fifo[j] = fifo[k] => j = k
      /\ \A k \in 1 .. n : fifo[k] \in Items
    BY DEF ListInv, Sequence
<1>4. Gapped' <=> Gapped
    BY <1>1, <1>2 DEF Gapped, Cut, Others
<1>5. First' = First
    BY <1>4 DEF First
<1>6. First \in {1, 2}
    BY DEF First
<1>7. \A u \in Threads : Ghost(u) => /\ u # t /\ obj[u] \in Items
                                     /\ \A k \in 1 .. n : fifo[k] # obj[u]
    BY <1>1, GhostTaken DEF Ghost
<1>8. \A u \in Threads : pc'[u] \in {"onecas", "onespin"}
                            => Ghost(u) /\ obj'[u] = obj[u]
    BY <1>2 DEF Ghost, Others
<1>9. \A u \in Threads : Ghost(u) => /\ pc'[u] \in {"onecas", "onespin"}
                                     /\ obj'[u] = obj[u]
    BY <1>1, <1>2 DEF Ghost, Others
<1>10. Sequence'
    BY <1>2 DEF ListInv, Sequence
<1>11. \/ \E k \in First .. n - 1 : p = fifo[k] /\ x = fifo[k + 1]
       \/ n > 0 /\ x = fifo[1] /\ \E u \in Threads : Ghost(u) /\ p = obj[u]
    BY <1>1 DEF Linking
<1>12. Links'
  <2>1. ASSUME NEW k \in 1 .. n, next'[fifo[k]] # NULL
        PROVE  k < n /\ next'[fifo[k]] = fifo[k + 1] /\ First <= k
    <3>1. CASE fifo[k] = p
      <4>1. \A u \in Threads : ~(Ghost(u) /\ p = obj[u])
          BY <3>1, <1>7
      <4>2. PICK j \in First .. n - 1 : p = fifo[j] /\ x = fifo[j + 1]
          BY <4>1, <1>11
      <4>3. j \in 1 .. n
          BY <4>2, <1>3, <1>6
      <4>4. j = k
          BY <4>2, <4>3, <3>1, <1>3
      <4>5. QED  BY <4>2, <4>4, <3>1, <1>2, <1>3, <1>6
    <3>2. CASE fifo[k] # p
        BY <3>2, <2>1, <1>2, <1>3 DEF ListInv, Links
    <3>3. QED  BY <3>1, <3>2
  <2>2. ASSUME NEW u \in Threads, Ghost(u), next'[obj[u]] # NULL
        PROVE  n > 0 /\ next'[obj[u]] = fifo[1]
    <3>1. CASE obj[u] = p
      <4>1. ~ \E k \in First .. n - 1 : p = fifo[k] /\ x = fifo[k + 1]
          BY <3>1, <2>2, <1>3, <1>6, <1>7
      <4>2. n > 0 /\ x = fifo[1]
          BY <4>1, <1>11
      <4>3. QED  BY <4>2, <3>1, <1>1, <1>2
    <3>2. CASE obj[u] # p
        BY <3>2, <2>2, <1>2, <1>7 DEF ListInv, Links
    <3>3. QED  BY <3>1, <3>2
  <2>3. QED  BY <2>1, <2>2, <1>2, <1>5, <1>8 DEF Links, Ghost
<1>13. ASSUME NEW c \in Clients, pc'[c] = "link"  PROVE Linking(c)'
  <2>1. /\ c # t /\ pc[c] = "link" /\ obj'[c] = obj[c] /\ link'[c] = link[c]
        /\ Linking(c)
      BY <1>13, <1>0, <1>2 DEF ListInv, Linkers, Others
  <2>2. \/ \E k \in First .. n - 1 : link[c] = fifo[k] /\ obj[c] = fifo[k + 1]
        \/ /\ n > 0 /\ obj[c] = fifo[1]
           /\ \E u \in Threads : Ghost(u) /\ link[c] = obj[u]
      BY <2>1 DEF Linking
  <2>3. obj[c] # obj[t]
      BY <2>1, <1>1, Distinct
  <2>4. link[c] # p
    <3>1. ASSUME link[c] = p, NEW j \in First .. n - 1, p = fifo[j],
                 x = fifo[j + 1]
          PROVE  FALSE
      <4>1. j \in 1 .. n
          BY <3>1, <1>3, <1>6
      <4>2. \A u \in Threads : ~(Ghost(u) /\ p = obj[u])
          BY <3>1, <4>1, <1>7
      <4>3. PICK k \in First .. n - 1 : p = fifo[k] /\ obj[c] = fifo[k + 1]
          BY <4>2, <3>1, <2>2
      <4>4. k \in 1 .. n
          BY <4>3, <1>3, <1>6
      <4>5. j = k
          BY <4>1, <4>3, <4>4, <3>1, <1>3
      <4>6. QED  BY <4>3, <4>5, <3>1, <2>3
    <3>2. ASSUME link[c] = p, n > 0, x = fifo[1], NEW u \in Threads, Ghost(u),
                 p = obj[u]
          PROVE  FALSE
      <4>1. ~ \E k \in First .. n - 1 : link[c] = fifo[k]
                                          /\ obj[c] = fifo[k + 1]
          BY <3>2, <1>3, <1>6, <1>7
      <4>2. QED  BY <4>1, <3>2, <2>2, <2>3
    <3>3. QED  BY <3>1, <3>2, <1>11
  <2>5. link'[c] \in Items /\ next'[link'[c]] = NULL
      BY <2>1, <2>4, <1>2 DEF Linking
  <2>6. (\E u \in Threads : Ghost(u) /\ link[c] = obj[u]) =>
           \E u \in Threads : Ghost(u)' /\ link'[c] = obj'[u]
      BY <2>1, <1>9 DEF Ghost
  <2>7. QED
      BY <2>1, <2>2, <2>5, <2>6, <1>2, <1>5 DEF Linking
<1>14. Ends'
  <2>1. TailLast'
      BY <1>2, <1>5, <1>8, <1>9 DEF ListInv, Ends, TailLast, Ghost
  <2>2. (\A u \in Threads : ~Detached(u)) => \A u \in Threads : ~Detached(u)'
      BY <1>1, <1>2 DEF Detached, Others
  <2>3. HeadFirst'
      BY <2>2, <1>0, <1>1, <1>2, <1>5 DEF ListInv, Ends, HeadFirst, Detached,
                                          Others
  <2>4. HeadLate'
      BY <2>2, <1>0, <1>1, <1>2, <1>5 DEF ListInv, Ends, HeadLate, Detached,
                                          Others
  <2>5. QED  BY <2>1, <2>3, <2>4 DEF Ends
<1>15. Fronts'
  <2>1. ASSUME NEW u \in Threads, u # t,
               pc[u] \in {"dsusp", "dpop", "out"}, link[u] # NULL
        PROVE  next'[obj[u]] = link[u]
    <3>1. next[obj[u]] = link[u] /\ obj[u] \in Items
        BY <2>1, <1>3 DEF ListInv, Fronts
    <3>2. QED  BY <3>1, <2>1, <1>1, <1>2
  <2>2. QED
      BY <2>1, <1>0, <1>2 DEF ListInv, Fronts, ListLocs, Others
<1>16. QED
    BY <1>10, <1>12, <1>13, <1>14, <1>15 DEF ListInv, Linkers

\* The caller that found the list empty makes its item the head, whatever was
\* pushed after it.
LEMMA SetHeadList ==
  ASSUME Shape, Shape', ItemsInv, ListInv, NEW t \in Clients, SetHead(t)
  PROVE  ListInv'
<1> USE QueueAssumption
<1>0. Clients \subseteq Threads /\ t \in Threads /\ t \notin Workers
    BY DEF Threads
<1>1. /\ pc[t] = "sethead" /\ head' = obj[t] /\ pc'[t] = "wsusp"
      /\ UNCHANGED <<fifo, state, tail, next, obj, link>>
      /\ \A u \in Threads : u # t => pc'[u] = pc[u]
    BY <1>0 DEF SetHead, CallWakeup, Set, Goto, At, Shape, localVars, orderVars
<1>2. /\ Len(fifo) >= First /\ obj[t] = fifo[First] /\ head = NULL
      /\ \A u \in Threads : ~Detached(u)
    BY <1>1 DEF ListInv, Ends, HeadLate
<1>3. Gapped' <=> Gapped
    BY <1>1 DEF Gapped, Cut
<1>4. First' = First
    BY <1>3 DEF First
<1>5. \A u \in Threads : Ghost(u) <=> pc'[u] \in {"onecas", "onespin"}
    BY <1>1 DEF Ghost
<1>6. Sequence'
    BY <1>1 DEF ListInv, Sequence
<1>7. Links'
    BY <1>1, <1>4, <1>5 DEF ListInv, Links, Ghost
<1>8. ASSUME NEW c \in Clients, pc'[c] = "link"  PROVE Linking(c)'
  <2>1. c # t /\ pc[c] = "link" /\ Linking(c)
      BY <1>8, <1>0, <1>1 DEF ListInv, Linkers
  <2>2. QED  BY <2>1, <1>1, <1>4, <1>5 DEF Linking, Ghost
<1>9. Ends'
  <2>1. TailLast'
      BY <1>1, <1>4, <1>5 DEF ListInv, Ends, TailLast, Ghost
  <2>2. \A u \in Threads : ~Detached(u)'
      BY <1>1, <1>2 DEF Detached
  <2>3. HeadFirst'
      BY <2>2, <1>1, <1>2, <1>4 DEF HeadFirst, Detached
  <2>4. ASSUME NEW c \in Clients, pc'[c] = "sethead"  PROVE FALSE
    <3>1. c # t /\ pc[c] = "sethead"
        BY <2>4, <1>0, <1>1
    <3>2. obj[c] = fifo[First]
        BY <3>1 DEF ListInv, Ends, HeadLate
    <3>3. QED  BY <3>1, <3>2, <1>1, <1>2, Distinct
  <2>5. HeadLate'
      BY <2>4 DEF HeadLate
  <2>6. QED  BY <2>1, <2>3, <2>5 DEF Ends
<1>10. Fronts'
    BY <1>0, <1>1 DEF ListInv, Fronts, ListLocs
<1>11. QED  BY <1>6, <1>7, <1>8, <1>9, <1>10 DEF ListInv, Linkers

\* _dispatch_barrier_sync_f_pop takes the barrier at the head off the list,
\* whose next item, if any, becomes the head.
LEMMA OneHeadList ==
  ASSUME Shape, Shape', ItemsInv, ListInv, NEW t \in Clients, OneHead(t),
         Only(t), head # NULL, kind[head] = "barriersync"
  PROVE  ListInv'
<1> USE QueueAssumption
<1> DEFINE n == Len(fifo)
<1>0. t \in Threads /\ t \notin Workers /\ Clients \subseteq Threads
      /\ pc[t] = "one"
      /\ \A u \in Threads : u # t => pc[u] \notin Grip
    BY DEF Threads, OneHead, At, Only
<1>1. First = 1 /\ \A u \in Threads : ~Ghost(u) /\ pc[u] # "puthead"
    BY <1>0 DEF First, Gapped, Cut, Grip, DrainLocs, Ghost
<1>2. /\ n > 0 /\ n \in Nat /\ fifo \in Seq(Items) /\ head = fifo[1]
      /\ \A u \in Threads : ~Detached(u)
      /\ \A j, k \in 1 .. n : fifo[j] = fifo[k] => j = k
    BY <1>1 DEF ListInv, Sequence, Ends, HeadFirst
<1>3. /\ fifo' = RemoveFirst(fifo, head)
      /\ head' = next[head] /\ obj'[t] = head /\ UNCHANGED <<tail, next, link>>
      /\ pc'[t] = IF next[head] = NULL THEN "onecas" ELSE Dequeued(t)
      /\ \A i \in Items : state'[i] = IF i = head THEN "taken" ELSE state[i]
      /\ \A u \in Threads : u # t => pc'[u] = pc[u] /\ obj'[u] = obj[u]
    BY <1>0, <1>2 DEF OneHead, Take, Set, Goto, Shape, Pointers, ItemsInv,
                      History
<1>4. Dequeued(t) \in {"oneadd", "onesig"}
    BY DEF Dequeued
<1>5. /\ fifo' \in Seq(Items) /\ Len(fifo') = n - 1
      /\ \A k \in 1 .. n - 1 : fifo'[k] = fifo[k + 1]
  <2>1. /\ fifo \in Seq(Items) /\ Len(fifo) > 0
        /\ fifo' = RemoveFirst(fifo, fifo[1])
      BY <1>2, <1>3
  <2>2. QED  BY <2>1, Shorter
<1>6. First' = 1
    BY <1>0, <1>3, <1>4 DEF First, Gapped, Cut, Grip, DrainLocs
<1>7. next[head] # NULL => n > 1 /\ next[head] = fifo[2]
    BY <1>2 DEF ListInv, Links
<1>8. \A u \in Threads : pc'[u] \in {"onecas", "onespin"} <=>
                           u = t /\ next[head] = NULL
    BY <1>0, <1>3, <1>4 DEF Grip
<1>9. Sequence'
  <2>1. \A j, k \in 1 .. Len(fifo') : fifo'[j] = fifo'[k] => j = k
    <3>1. SUFFICES ASSUME NEW j \in 1 .. n - 1, NEW k \in 1 .. n - 1,
                          fifo[j + 1] = fifo[k + 1]
                   PROVE  j = k
        BY <1>5
    <3>2. j + 1 \in 1 .. n /\ k + 1 \in 1 .. n
        BY <1>2
    <3>3. j + 1 = k + 1
        BY <3>1, <3>2, <1>2
    <3>4. QED  BY <3>3
  <2>2. ASSUME NEW j \in Items
        PROVE  state'[j] = "queued" <=> \E k \in 1 .. Len(fifo') : fifo'[k] = j
    <3>1. state[j] = "queued" <=> \E k \in 1 .. n : fifo[k] = j
        BY DEF ListInv, Sequence
    <3>2. ASSUME state'[j] = "queued"
          PROVE  \E k \in 1 .. Len(fifo') : fifo'[k] = j
      <4>1. PICK k \in 1 .. n : fifo[k] = j
          BY <3>1, <3>2, <1>3
      <4>2. k # 1
          BY <4>1, <3>2, <1>2, <1>3
      <4>3. k - 1 \in 1 .. Len(fifo') /\ fifo'[k - 1] = j
          BY <4>1, <4>2, <1>2, <1>5
      <4>4. QED  BY <4>3
    <3>3. ASSUME NEW k \in 1 .. Len(fifo'), fifo'[k] = j
          PROVE  state'[j] = "queued"
      <4>1. /\ k + 1 \in 1 .. n /\ fifo[k + 1] = j
            /\ k + 1 # 1 /\ 1 \in 1 .. n
          BY <3>3, <1>2, <1>5
      <4>2. QED  BY <4>1, <3>1, <1>2, <1>3
    <3>4. QED  BY <3>2, <3>3
  <2>3. QED  BY <2>1, <2>2, <1>5 DEF Sequence
<1>10. Links'
  <2>1. ASSUME NEW k \in 1 .. Len(fifo'), next[fifo'[k]] # NULL
        PROVE  k < Len(fifo') /\ next[fifo'[k]] = fifo'[k + 1] /\ 1 <= k
    <3>1. k + 1 \in 1 .. n /\ fifo'[k] = fifo[k + 1]
        BY <1>2, <1>5
    <3>2. k + 1 < n /\ next[fifo[k + 1]] = fifo[k + 1 + 1]
        BY <2>1, <3>1 DEF ListInv, Links
    <3>3. QED  BY <3>1, <3>2, <1>2, <1>5
  <2>2. QED  BY <2>1, <1>3, <1>6, <1>8 DEF Links, Ghost
<1>11. ASSUME NEW c \in Clients, pc'[c] = "link"  PROVE Linking(c)'
  <2>1. /\ c # t /\ pc[c] = "link" /\ obj'[c] = obj[c] /\ link'[c] = link[c]
        /\ Linking(c)
      BY <1>11, <1>0, <1>3, <1>4 DEF ListInv, Linkers
  <2>2. PICK k \in 1 .. n - 1 : link[c] = fifo[k] /\ obj[c] = fifo[k + 1]
      BY <2>1, <1>1 DEF Linking
  <2>3. next[link[c]] = NULL /\ link[c] \in Items
      BY <2>1 DEF Linking
  <2>4. CASE k = 1
    <3>1. link[c] = head /\ next[head] = NULL
        BY <2>2, <2>3, <2>4, <1>2
    <3>2. pc'[t] \in {"onecas", "onespin"} /\ link'[c] = obj'[t]
        BY <3>1, <1>3, <2>1
    <3>3. Len(fifo') > 0 /\ obj'[c] = fifo'[1]
        BY <2>1, <2>2, <2>4, <1>2, <1>5
    <3>4. QED
        BY <3>2, <3>3, <2>1, <2>3, <1>0, <1>3 DEF Linking, Ghost
  <2>5. CASE k # 1
    <3>1. /\ k - 1 \in 1 .. Len(fifo') - 1 /\ fifo'[k - 1] = fifo[k]
          /\ fifo'[k - 1 + 1] = fifo[k + 1]
        BY <2>2, <2>5, <1>2, <1>5
    <3>2. QED  BY <3>1, <2>1, <2>2, <2>3, <1>3, <1>6 DEF Linking
  <2>6. QED  BY <2>4, <2>5
<1>12. Ends'
  <2>1. tail = fifo[n] /\ tail # NULL
      BY <1>1, <1>2 DEF ListInv, Ends, TailLast
  <2>2. CASE n = 1
    <3>a. tail' = obj'[t]
        BY <2>1, <2>2, <1>2, <1>3
    <3>b. next[head] = NULL
        BY <2>2, <1>7
    <3>c. Len(fifo') = 0
        BY <2>2, <1>5
    <3>1. tail' = obj'[t] /\ next[head] = NULL /\ Len(fifo') = 0
        BY <3>a, <3>b, <3>c
    <3>2. fifo' = <<>>
        BY <3>1, <1>5
    <3>3. pc'[t] \in {"onecas", "onespin"} /\ tail' # NULL /\ head' = NULL
        BY <3>1, <2>1, <1>3
    <3>4. TailLast'
        BY <3>1, <3>2, <3>3, <1>0 DEF TailLast, Ghost
    <3>5. HeadFirst'
        BY <3>3 DEF HeadFirst
    <3>6. QED
        BY <3>4, <3>5, <1>0, <1>2, <1>3, <1>4 DEF Ends, HeadLate, ListInv
  <2>3. CASE n # 1
    <3>a. n - 1 \in 1 .. n - 1
      <4>1. PICK m \in Nat : m = n
          BY <1>2
      <4>2. QED  BY <2>3, <1>2, <4>1
    <3>b. fifo'[n - 1] = fifo[n - 1 + 1] /\ n - 1 + 1 = n
        BY <3>a, <1>2, <1>5
    <3>1. Len(fifo') >= 1 /\ tail' = fifo'[Len(fifo')] /\ tail' # NULL
        BY <3>a, <3>b, <2>1, <1>3, <1>5
    <3>2. TailLast'
        BY <3>1, <1>6 DEF TailLast
    <3>3. head' # NULL => head' = fifo'[1]
        BY <2>3, <1>2, <1>3, <1>5, <1>7
    <3>4. head' # NULL => \A u \in Threads : ~Detached(u)'
        BY <1>0, <1>2, <1>3, <1>4 DEF Detached
    <3>5. HeadFirst'
        BY <3>1, <3>3, <3>4, <1>6 DEF HeadFirst
    <3>6. QED
        BY <3>2, <3>5, <1>0, <1>2, <1>3, <1>4 DEF Ends, HeadLate, ListInv
  <2>4. QED  BY <2>2, <2>3
<1>13. Fronts'
    BY <1>0, <1>3, <1>4 DEF ListInv, Fronts, ListLocs, Grip, DrainLocs
<1>14. QED  BY <1>9, <1>10, <1>11, <1>12, <1>13 DEF ListInv, Linkers

\* A drainer that is done with an item goes on with the next item, which is
\* then the first on the list, or looks at the tail again.
LEMMA ProceedList ==
  ASSUME Shape, Shape', ItemsInv, ListInv, NEW t \in Workers, Only(t),
         RunItem(t) \/ GrantSignal(t) \/ DrainRedirect(t)
  PROVE  ListInv'
<1> USE QueueAssumption
<1>1. /\ t \in Threads /\ t \notin Clients /\ Clients \subseteq Threads
      /\ pc[t] \in {"runitem", "signal", "redirect"} /\ obj[t] \in Items
      /\ \A u \in Threads : u # t => /\ pc'[u] = pc[u] /\ obj'[u] = obj[u]
                                     /\ link'[u] = link[u]
                                     /\ pc[u] \notin Grip
      /\ pc'[t] = IF link[t] = NULL THEN "dtail" ELSE "dnext"
      /\ obj'[t] = link[t] /\ link'[t] = NULL
      /\ UNCHANGED <<tail, head, fifo>>
    BY DEF Threads, RunItem, GrantSignal, DrainRedirect, Proceed, Set, Goto,
           At,
           Shape, Place, ItemLocs, Pointers, itemVars, orderVars, listVars,
           Only
<1>2. \A i \in Items : next'[i] # NULL => next'[i] = next[i]
    BY <1>1 DEF RunItem, GrantSignal, DrainRedirect, Finish, Set, itemVars,
                listVars, Shape, Pointers
<1>3. /\ next \in [Items -> Items \cup {NULL}]
      /\ next' \in [Items -> Items \cup {NULL}]
    BY DEF Shape, Pointers
<1>4. \A i \in Items : state'[i] = "queued" <=> state[i] = "queued"
  <2>1. CASE RunItem(t)
    <3>1. state[obj[t]] = "running"
        BY <2>1, <1>1 DEF RunItem, At, ItemsInv, WorksOK, Bears
    <3>2. state' = [state EXCEPT ![obj[t]] = "done"]
        BY <2>1 DEF RunItem, Finish, Set
    <3>3. QED  BY <3>1, <3>2, <1>1 DEF ItemsInv, History
  <2>2. CASE GrantSignal(t) \/ DrainRedirect(t)
      BY <2>2 DEF GrantSignal, DrainRedirect, itemVars
  <2>3. QED  BY <2>1, <2>2
<1> USE <1>1 DEF Grip, DrainLocs
<1>5. First = 1 /\ First' = 1
    BY DEF First, Gapped, Cut
<1>6. \A u \in Threads : ~Ghost(u) /\ pc'[u] \notin {"onecas", "onespin"}
    BY DEF Ghost
<1>7. Len(fifo) \in Nat /\ \A k \in 1 .. Len(fifo) : fifo[k] \in Items
    BY DEF ListInv, Sequence
<1>8. link[t] # NULL => Len(fifo) > 0 /\ link[t] = fifo[1]
    BY DEF ListInv, Fronts
<1>9. Sequence'
    BY <1>4 DEF ListInv, Sequence
<1>10. Links'
  <2>1. ASSUME NEW k \in 1 .. Len(fifo), next'[fifo[k]] # NULL
        PROVE  k < Len(fifo) /\ next'[fifo[k]] = fifo[k + 1] /\ 1 <= k
      BY <2>1, <1>2, <1>5, <1>7 DEF ListInv, Links
  <2>2. QED  BY <2>1, <1>5, <1>6 DEF Links, Ghost
<1>11. ASSUME NEW c \in Clients, pc'[c] = "link"  PROVE Linking(c)'
  <2>1. /\ c # t /\ c \in Threads /\ pc[c] = "link" /\ Linking(c)
      BY <1>11 DEF ListInv, Linkers
  <2>2. link[c] \in Items /\ next'[link[c]] = NULL
      BY <2>1, <1>2 DEF Linking
  <2>3. \E k \in 1 .. Len(fifo) - 1 : link[c] = fifo[k] /\ obj[c] = fifo[k + 1]
      BY <2>1, <1>5, <1>6 DEF Linking
  <2>4. QED  BY <2>1, <2>2, <2>3, <1>5 DEF Linking
<1>12. Ends'
  <2>1. TailLast'
      BY <1>5, <1>6 DEF ListInv, Ends, TailLast, Ghost
  <2>2. (\A u \in Threads : ~Detached(u)) => \A u \in Threads : ~Detached(u)'
      BY DEF Detached
  <2>3. \A u \in Threads : pc[u] # "puthead"
      OBVIOUS
  <2>4. HeadFirst'
      BY <2>2, <2>3, <1>5 DEF ListInv, Ends, HeadFirst, Detached
  <2>5. HeadLate'
      BY <2>2, <1>5 DEF ListInv, Ends, HeadLate, Detached
  <2>6. QED  BY <2>1, <2>4, <2>5 DEF Ends
<1>13. Fronts'
    BY <1>8 DEF ListInv, Fronts, ListLocs
<1>14. QED  BY <1>9, <1>10, <1>11, <1>12, <1>13 DEF ListInv, Linkers

\* A drain that stops puts back what it had taken: with nothing behind the
\* item at hand it makes that item the tail again, unless one was pushed
\* meanwhile ...
LEMMA PutBackTailList ==
  ASSUME Shape, Shape', ListInv, NEW t \in Workers, PutBackTail(t), Only(t)
  PROVE  ListInv'
<1> USE QueueAssumption
<1> DEFINE n == Len(fifo)
<1>1. /\ t \in Threads /\ t \notin Clients /\ Clients \subseteq Threads
      /\ pc[t] = "out"
      /\ \A u \in Threads : u # t => pc'[u] = pc[u] /\ pc[u] \notin Grip
      /\ tail' = IF link[t] = NULL /\ tail = NULL THEN obj[t] ELSE tail
      /\ pc'[t] = IF link[t] = NULL /\ tail # NULL
                  THEN "outspin" ELSE "puthead"
      /\ UNCHANGED <<head, next, state, fifo, obj, link>>
    BY DEF Threads, PutBackTail, Set, Goto, At, Shape, localVars, outerVars,
           orderVars, Only
<1> USE <1>1 DEF Grip, DrainLocs
<1>2. n > 0 /\ obj[t] = fifo[1] /\ (link[t] # NULL => n > 1)
    BY DEF ListInv, Fronts
<1>3. fifo \in Seq(Items) /\ n \in Nat /\ obj[t] # NULL /\ fifo # <<>>
    BY <1>2 DEF ListInv, Sequence, Shape, Place, ItemLocs
<1>4. /\ First = IF link[t] = NULL THEN 2 ELSE 1
      /\ First' = IF link[t] = NULL /\ tail # NULL THEN 2 ELSE 1
    BY DEF First, Gapped, Cut
<1>5. \A u \in Threads : ~Ghost(u) /\ pc'[u] \notin {"onecas", "onespin"}
    BY DEF Ghost
<1>6. /\ tail # NULL => n >= First /\ tail = fifo[n]
      /\ tail = NULL => n < First
    BY <1>3, <1>5 DEF ListInv, Ends, TailLast
<1>7. tail = NULL => link[t] = NULL /\ n = 1
  <2>0. PICK m \in Nat : n = m
      BY <1>3
  <2>1. ~(n < 1) /\ (n < 2 => n = 1)
    <3>1. m > 0
        BY <2>0, <1>2
    <3>2. ~(m < 1) /\ (m < 2 => m = 1)
        BY <3>1
    <3>3. QED  BY <2>0, <3>2
  <2>2. link[t] # NULL => First = 1
      BY <1>4
  <2>3. link[t] = NULL => First = 2
      BY <1>4
  <2>4. tail = NULL => n < First
      BY <1>6
  <2>5. QED  BY <2>1, <2>2, <2>3, <2>4
<1>8. First' # First => tail = NULL /\ First = 2 /\ First' = 1 /\ n = 1
    BY <1>4, <1>7
<1>9. Sequence'
    BY DEF ListInv, Sequence
<1>10. Links'
  <2>1. ASSUME NEW k \in 1 .. n, next[fifo[k]] # NULL
        PROVE  k < n /\ next[fifo[k]] = fifo[k + 1] /\ First' <= k
      BY <2>1, <1>3, <1>4, <1>8 DEF ListInv, Links
  <2>2. QED  BY <2>1, <1>5 DEF Links, Ghost
<1>11. ASSUME NEW c \in Clients, pc'[c] = "link"  PROVE Linking(c)'
  <2>1. /\ c # t /\ c \in Threads /\ pc[c] = "link" /\ Linking(c)
      BY <1>11 DEF ListInv, Linkers
  <2>2. PICK k \in First .. n - 1 : link[c] = fifo[k] /\ obj[c] = fifo[k + 1]
      BY <2>1, <1>5 DEF Linking
  <2>3. k \in First' .. n - 1
      BY <2>2, <1>3, <1>4, <1>8
  <2>4. QED  BY <2>1, <2>2, <2>3 DEF Linking
<1>12. Ends'
  <2>1. tail' # NULL /\ n >= First' /\ tail' = fifo[n]
    <3>1. CASE tail = NULL
      <4>1. n = 1 /\ tail' = obj[t] /\ First' = 1
          BY <3>1, <1>4, <1>7
      <4>2. QED  BY <4>1, <1>2, <1>3
    <3>2. CASE tail # NULL
        BY <3>2, <1>3, <1>4, <1>6
    <3>3. QED  BY <3>1, <3>2
  <2>2. TailLast'
      BY <2>1 DEF TailLast
  <2>3. CASE pc'[t] = "puthead"
    <3>1. HeadFirst'
        BY <2>3 DEF HeadFirst
    <3>2. ASSUME NEW c \in Clients, pc'[c] = "sethead"  PROVE FALSE
      <4>1. pc[c] = "sethead" /\ n >= First /\ ~Detached(t)
          BY <3>2 DEF ListInv, Ends, HeadLate
      <4>2. link[t] = NULL /\ tail = NULL /\ First = 2 /\ n = 1
          BY <4>1, <2>3, <1>4, <1>7 DEF Detached
      <4>3. QED  BY <4>1, <4>2
    <3>3. QED  BY <2>2, <3>1, <3>2 DEF Ends, HeadLate
  <2>4. CASE pc'[t] = "outspin"
    <3>1. First' = First /\ link[t] = NULL
        BY <2>4, <1>4
    <3>2. (\A u \in Threads : ~Detached(u)) => \A u \in Threads : ~Detached(u)'
        BY <2>4 DEF Detached
    <3>3. HeadFirst'
        BY <3>1, <3>2 DEF ListInv, Ends, HeadFirst, Detached
    <3>4. HeadLate'
        BY <3>1, <3>2 DEF ListInv, Ends, HeadLate, Detached
    <3>5. QED  BY <2>2, <3>3, <3>4 DEF Ends
  <2>5. QED  BY <2>3, <2>4
<1>13. Fronts'
    BY <1>2, <1>3, <1>4, <1>6 DEF ListInv, Fronts, ListLocs
<1>14. QED  BY <1>9, <1>10, <1>11, <1>12, <1>13 DEF ListInv, Linkers

\* ... in which case it waits for that push and links its item to the one
\* pushed ...
LEMMA PutBackSpinList ==
  ASSUME Shape, Shape', ListInv, NEW t \in Workers, PutBackSpin(t), Only(t)
  PROVE  ListInv'
<1> USE QueueAssumption
<1> DEFINE n == Len(fifo)
<1>1. /\ t \in Threads /\ t \notin Clients /\ Clients \subseteq Threads
      /\ pc[t] = "outspin" /\ head # NULL /\ pc'[t] = "puthead"
      /\ \A u \in Threads : u # t => pc'[u] = pc[u] /\ pc[u] \notin Grip
      /\ \A i \in Items : next'[i] = IF i = obj[t] THEN head ELSE next[i]
      /\ UNCHANGED <<head, tail, state, fifo, obj, link>>
    BY DEF Threads, PutBackSpin, Set, Goto, At, Shape, Pointers, localVars,
           outerVars, orderVars, Only
<1> USE <1>1 DEF Grip, DrainLocs
<1>2. n > 1 /\ obj[t] = fifo[1]
    BY DEF ListInv, Fronts
<1>3. /\ fifo \in Seq(Items) /\ n \in Nat
      /\ \A j, k \in 1 .. n : fifo[j] = fifo[k] => j = k
      /\ \A k \in 1 .. n : fifo[k] \in Items
    BY DEF ListInv, Sequence
<1>4. First = IF link[t] = NULL THEN 2 ELSE 1
    BY DEF First, Gapped, Cut
<1>5. First' = 1
    BY DEF First, Gapped, Cut
<1>6. \A u \in Threads : ~Ghost(u) /\ pc'[u] \notin {"onecas", "onespin"}
    BY DEF Ghost
<1>7. head = fifo[First]
    BY DEF ListInv, Ends, HeadFirst
<1>8. \A k \in 2 .. n : next'[fifo[k]] = next[fifo[k]]
  <2>1. \A k \in 2 .. n : k \in 1 .. n /\ 1 \in 1 .. n /\ k # 1
      BY <1>3
  <2>2. QED  BY <2>1, <1>2, <1>3
<1>9. Sequence'
    BY DEF ListInv, Sequence
<1>10. link[t] = NULL
    BY DEF ListInv, Fronts
<1>11. Links'
  <2>1. ASSUME NEW k \in 2 .. n, next'[fifo[k]] # NULL
        PROVE  k < n /\ next'[fifo[k]] = fifo[k + 1]
      BY <2>1, <1>3, <1>8 DEF ListInv, Links
  <2>2. 1 < n /\ next'[fifo[1]] = fifo[2]
      BY <1>2, <1>3, <1>4, <1>7, <1>10
  <2>3. \A k \in 1 .. n : k = 1 \/ k \in 2 .. n
      BY <1>3
  <2>4. QED  BY <2>1, <2>2, <2>3, <1>5, <1>6 DEF Links, Ghost
<1>12. ASSUME NEW c \in Clients, pc'[c] = "link"  PROVE Linking(c)'
  <2>1. /\ c # t /\ c \in Threads /\ pc[c] = "link" /\ Linking(c)
      BY <1>12 DEF ListInv, Linkers
  <2>2. PICK k \in 2 .. n - 1 : link[c] = fifo[k] /\ obj[c] = fifo[k + 1]
      BY <2>1, <1>4, <1>6, <1>10 DEF Linking
  <2>3. k \in 1 .. n - 1 /\ k \in 2 .. n
      BY <2>2, <1>3
  <2>4. link[c] \in Items /\ next'[link[c]] = NULL
      BY <2>1, <2>2, <2>3, <1>8 DEF Linking
  <2>5. QED  BY <2>1, <2>2, <2>3, <2>4, <1>5 DEF Linking
<1>13. Ends'
  <2>1. tail # NULL /\ tail = fifo[n]
      BY <1>2, <1>3, <1>4, <1>6, <1>10 DEF ListInv, Ends, TailLast
  <2>2. TailLast'
      BY <2>1, <1>2, <1>3, <1>5 DEF TailLast
  <2>3. HeadFirst'
      BY DEF HeadFirst
  <2>4. HeadLate'
      BY DEF ListInv, Ends, HeadLate
  <2>5. QED  BY <2>2, <2>3, <2>4 DEF Ends
<1>14. Fronts'
    BY <1>2, <1>10 DEF ListInv, Fronts, ListLocs
<1>15. QED  BY <1>9, <1>11, <1>12, <1>13, <1>14 DEF ListInv, Linkers

\* ... and the item at hand is the head of the list again.
LEMMA PutBackHeadList ==
  ASSUME Shape, Shape', ListInv, NEW t \in Workers, PutBackHead(t), Only(t)
  PROVE  ListInv'
<1> USE QueueAssumption
<1> DEFINE n == Len(fifo)
<1>1. /\ t \in Threads /\ t \notin Clients /\ Clients \subseteq Threads
      /\ pc[t] = "puthead" /\ pc'[t] = "leave" /\ head' = obj[t]
      /\ link'[t] = NULL
      /\ \A u \in Threads : u # t => /\ pc'[u] = pc[u] /\ obj'[u] = obj[u]
                                     /\ link'[u] = link[u]
                                     /\ pc[u] \notin Grip
      /\ UNCHANGED <<tail, next, state, fifo>>
    BY DEF Threads, PutBackHead, Set, Goto, At, Shape, Pointers, outerVars,
           orderVars, Only
<1> USE <1>1 DEF Grip, DrainLocs
<1>2. n > 0 /\ obj[t] = fifo[1] /\ n \in Nat
    BY DEF ListInv, Fronts, Sequence
<1>3. First = 1 /\ First' = 1
    BY DEF First, Gapped, Cut
<1>4. \A u \in Threads : ~Ghost(u) /\ pc'[u] \notin {"onecas", "onespin"}
    BY DEF Ghost
<1>5. Sequence'
    BY DEF ListInv, Sequence
<1>6. Links'
    BY <1>3, <1>4 DEF ListInv, Links, Ghost
<1>7. ASSUME NEW c \in Clients, pc'[c] = "link"  PROVE Linking(c)'
  <2>1. c # t /\ c \in Threads /\ pc[c] = "link" /\ Linking(c)
      BY <1>7 DEF ListInv, Linkers
  <2>2. QED  BY <2>1, <1>3, <1>4 DEF Linking
<1>8. Ends'
  <2>1. TailLast'
      BY <1>3, <1>4 DEF ListInv, Ends, TailLast, Ghost
  <2>2. \A u \in Threads : ~Detached(u)'
      BY DEF Detached
  <2>3. HeadFirst'
      BY <2>2, <1>2, <1>3 DEF HeadFirst, Detached
  <2>4. \A c \in Clients : pc'[c] # "sethead"
      BY DEF ListInv, Ends, HeadLate, Detached
  <2>5. QED  BY <2>1, <2>3, <2>4 DEF Ends, HeadLate
<1>9. Fronts'
    BY DEF ListInv, Fronts, ListLocs
<1>10. QED  BY <1>5, <1>6, <1>7, <1>8, <1>9 DEF ListInv, Linkers

\* The thread that hands the queue over has waited for the push that came
\* after the barrier it took: the pushed item becomes the head.
LEMMA OneSpinList ==
  ASSUME Shape, Shape', ListInv, NEW t \in Clients, OneSpin(t),
         Only(t)
  PROVE  ListInv'
<1> USE QueueAssumption
<1>1. /\ t \in Threads /\ t \notin Workers /\ Clients \subseteq Threads
      /\ pc[t] = "onespin" /\ next[obj[t]] # NULL
      /\ \A u \in Threads : u # t => /\ pc'[u] = pc[u] /\ obj'[u] = obj[u]
                                     /\ link'[u] = link[u]
                                     /\ pc[u] \notin Grip
      /\ pc'[t] \in {"oneadd", "onesig"} /\ link'[t] = link[t]
      /\ head' = next[obj[t]]
      /\ UNCHANGED <<tail, next, state, fifo>>
    BY DEF Threads, OneSpin, Dequeued, Set, Goto, At, Shape, Pointers,
           localVars, outerVars, orderVars, Only
<1> USE <1>1 DEF Grip, DrainLocs
<1>2. First = 1 /\ First' = 1
    BY DEF First, Gapped, Cut
<1>3. Ghost(t) /\ Detached(t) /\ ~Detached(t)'
    BY DEF Ghost, Detached
<1>4. Len(fifo) > 0 /\ next[obj[t]] = fifo[1]
    BY <1>3 DEF ListInv, Links
<1>5. Sequence'
    BY DEF ListInv, Sequence
<1>6. Links'
    BY <1>2 DEF ListInv, Links, Ghost
<1>7. ASSUME NEW c \in Clients, pc'[c] = "link"  PROVE Linking(c)'
  <2>1. c # t /\ c \in Threads /\ pc[c] = "link" /\ Linking(c)
      BY <1>7 DEF ListInv, Linkers
  <2>2. next[link[c]] = NULL /\ link[c] \in Items
      BY <2>1 DEF Linking
  <2>3. ASSUME NEW u \in Threads, Ghost(u), link[c] = obj[u]  PROVE FALSE
      BY <2>2, <2>3 DEF Ghost
  <2>4. \E k \in 1 .. Len(fifo) - 1 : link[c] = fifo[k] /\ obj[c] = fifo[k + 1]
      BY <2>1, <2>3, <1>2 DEF Linking
  <2>5. QED  BY <2>1, <2>2, <2>4, <1>2 DEF Linking
<1>8. Ends'
  <2>1. tail = fifo[Len(fifo)] /\ tail # NULL
      BY <1>2, <1>3, <1>4 DEF ListInv, Ends, TailLast, HeadFirst, HeadLate
  <2>2. \A c \in Clients : pc'[c] # "sethead"
      BY <1>3 DEF ListInv, Ends, TailLast, HeadFirst, HeadLate
  <2>3. Len(fifo) \in Nat
      BY DEF ListInv, Sequence
  <2>4. \A u \in Threads : ~Detached(u)'
      BY DEF Detached
  <2>5. TailLast'  BY <1>2, <1>4, <2>1, <2>3 DEF TailLast
  <2>6. HeadFirst'  BY <1>2, <1>4, <2>3, <2>4 DEF HeadFirst, Detached
  <2>7. HeadLate'  BY <2>2 DEF HeadLate
  <2>8. QED  BY <2>5, <2>6, <2>7 DEF Ends
<1>9. Fronts'
    BY DEF ListInv, Fronts, ListLocs
<1>10. QED  BY <1>5, <1>6, <1>7, <1>8, <1>9 DEF ListInv, Linkers

\* The barrier handed over was the last item: the list is empty, unless a
\* push replaced the tail before the compare-and-swap.
LEMMA OneTailList ==
  ASSUME Shape, Shape', ListInv, NEW t \in Clients, OneTail(t), Only(t),
         \A k \in 1 .. Len(fifo) : fifo[k] # obj[t]
  PROVE  ListInv'
<1> USE QueueAssumption
<1>1. /\ t \in Threads /\ t \notin Workers /\ Clients \subseteq Threads
      /\ pc[t] = "onecas"
      /\ \A u \in Threads : u # t => /\ pc'[u] = pc[u] /\ obj'[u] = obj[u]
                                     /\ link'[u] = link[u]
                                     /\ pc[u] \notin Grip
      /\ tail' = IF tail = obj[t] THEN NULL ELSE tail
      /\ IF tail = obj[t] THEN pc'[t] \in {"oneadd", "onesig"}
                          ELSE pc'[t] = "onespin"
      /\ UNCHANGED <<head, next, state, fifo, obj, link>>
    BY DEF Threads, OneTail, TryEmpty, Dequeued, Set, Goto, At, Shape,
           Pointers, localVars, outerVars, orderVars, Only
<1> USE <1>1 DEF Grip, DrainLocs
<1>2. First = 1 /\ First' = 1
    BY DEF First, Gapped, Cut
<1>3. Ghost(t) /\ Detached(t) /\ tail # NULL
    BY DEF Ghost, Detached, ListInv, Ends, TailLast
<1>4. Len(fifo) \in Nat
    BY DEF ListInv, Sequence
<1>5. tail = obj[t] => fifo = <<>>
    BY <1>2, <1>3, <1>4 DEF ListInv, Ends, TailLast
<1>6. tail # obj[t] => Len(fifo) > 0 /\ tail = fifo[Len(fifo)]
    BY <1>2, <1>3, <1>4 DEF ListInv, Ends, TailLast, Ghost
<1>7. Sequence'
    BY DEF ListInv, Sequence
<1>8. Links'
    BY <1>2 DEF ListInv, Links, Ghost
<1>9. Linkers'
    BY <1>2, <1>3, <1>4, <1>5 DEF ListInv, Linkers, Linking, Ghost
<1>10. Ends'
  <2>1. head = NULL /\ \A c \in Clients : pc'[c] # "sethead"
      BY <1>3 DEF ListInv, Ends, HeadFirst, HeadLate
  <2>2. TailLast'
      BY <1>2, <1>3, <1>4, <1>5, <1>6 DEF TailLast, Ghost
  <2>3. QED  BY <2>1, <2>2 DEF Ends, HeadFirst, HeadLate
<1>11. Fronts'
    BY DEF ListInv, Fronts, ListLocs
<1>12. QED  BY <1>7, <1>8, <1>9, <1>10, <1>11 DEF ListInv

\* A drain takes the list off the queue: dq_items_head becomes NULL.
LEMMA DrainHeadList ==
  ASSUME Shape, Shape', ListInv, NEW t \in Workers, DrainHead(t), Only(t)
  PROVE  ListInv'
<1> USE QueueAssumption
<1>1. /\ t \in Threads /\ t \notin Clients /\ Clients \subseteq Threads
      /\ pc[t] = "dhead" /\ head # NULL
      /\ \A u \in Threads : u # t => /\ pc'[u] = pc[u] /\ obj'[u] = obj[u]
                                     /\ link'[u] = link[u]
                                     /\ pc[u] \notin Grip
      /\ pc'[t] = "dnext" /\ obj'[t] = head /\ head' = NULL
      /\ UNCHANGED <<tail, next, state, fifo, link>>
    BY DEF Threads, DrainHead, Set, Goto, At, Shape,
           Pointers, localVars, outerVars, orderVars, Only
<1> USE <1>1 DEF Grip, DrainLocs
<1>2. First = 1 /\ First' = 1
    BY DEF First, Gapped, Cut
<1>3. Len(fifo) \in Nat
    BY DEF ListInv, Sequence
<1>4. Len(fifo) > 0 /\ head = fifo[1]
    BY <1>2, <1>3 DEF ListInv, Ends, HeadFirst
<1>5. \A c \in Clients : pc'[c] # "sethead"
    BY DEF ListInv, Ends, HeadLate
<1>7. Sequence'
    BY DEF ListInv, Sequence
<1>8. Links'
    BY <1>2 DEF ListInv, Links, Ghost
<1>9. Linkers'
    BY <1>2 DEF ListInv, Linkers, Linking, Ghost
<1>10. Ends'
  <2>2. TailLast'
      BY <1>2 DEF ListInv, Ends, TailLast, Ghost
  <2>3. QED  BY <1>5, <2>2 DEF Ends, HeadFirst, HeadLate
<1>11. Fronts'
    BY <1>4 DEF ListInv, Fronts, ListLocs
<1>12. QED  BY <1>7, <1>8, <1>9, <1>10, <1>11 DEF ListInv

\* A drain reads the link of the item at hand, or has waited for it.
LEMMA DrainNextList ==
  ASSUME Shape, Shape', ListInv, NEW t \in Workers,
         DrainNext(t) \/ DrainSpin(t), Only(t)
  PROVE  ListInv'
<1> USE QueueAssumption
<1>1. /\ t \in Threads /\ t \notin Clients /\ Clients \subseteq Threads
      /\ pc[t] \in {"dnext", "dspin"}
      /\ \A u \in Threads : u # t => /\ pc'[u] = pc[u] /\ obj'[u] = obj[u]
                                     /\ link'[u] = link[u]
                                     /\ pc[u] \notin Grip
      /\ link'[t] = next[obj[t]] /\ obj'[t] = obj[t]
      /\ pc'[t] = IF next[obj[t]] = NULL THEN "dcas" ELSE "dsusp"
      /\ UNCHANGED <<tail, head, next, state, fifo>>
    BY DEF Threads, DrainNext, DrainSpin, Set, Goto, At, Shape,
           Pointers, localVars, outerVars, orderVars, itemVars, listVars, Only
<1> USE <1>1 DEF Grip, DrainLocs
<1>2. First = 1 /\ First' = 1
    BY DEF First, Gapped, Cut
<1>3. Len(fifo) \in Nat
    BY DEF ListInv, Sequence
<1>4. Len(fifo) > 0 /\ obj[t] = fifo[1]
    BY DEF ListInv, Fronts
<1>5. next[obj[t]] # NULL => Len(fifo) > 1 /\ next[obj[t]] = fifo[2]
    BY <1>3, <1>4 DEF ListInv, Links
<1>6. Detached(t) /\ Detached(t)'
    BY DEF Detached
<1>7. Sequence'
    BY DEF ListInv, Sequence
<1>8. Links'
    BY <1>2 DEF ListInv, Links, Ghost
<1>9. Linkers'
    BY <1>2 DEF ListInv, Linkers, Linking, Ghost
<1>10. Ends'
  <2>1. head = NULL /\ \A c \in Clients : pc'[c] # "sethead"
      BY <1>6 DEF ListInv, Ends, HeadFirst, HeadLate
  <2>2. TailLast'
      BY <1>2 DEF ListInv, Ends, TailLast, Ghost
  <2>3. QED  BY <2>1, <2>2 DEF Ends, HeadFirst, HeadLate
<1>11. Fronts'
    BY <1>4, <1>5 DEF ListInv, Fronts, ListLocs
<1>12. QED  BY <1>7, <1>8, <1>9, <1>10, <1>11 DEF ListInv

\* The item at hand was the last: the drain empties the queue by a compare-
\* and-swap of dq_items_tail, or waits for the push that came first.
LEMMA DrainLastList ==
  ASSUME Shape, Shape', ListInv, NEW t \in Workers, DrainLast(t), Only(t)
  PROVE  ListInv'
<1> USE QueueAssumption
<1>1. /\ t \in Threads /\ t \notin Clients /\ Clients \subseteq Threads
      /\ pc[t] = "dcas"
      /\ \A u \in Threads : u # t => /\ pc'[u] = pc[u] /\ obj'[u] = obj[u]
                                     /\ link'[u] = link[u]
                                     /\ pc[u] \notin Grip
      /\ tail' = IF tail = obj[t] THEN NULL ELSE tail
      /\ pc'[t] = IF tail = obj[t] THEN "dsusp" ELSE "dspin"
      /\ UNCHANGED <<head, next, state, fifo, obj, link>>
    BY DEF Threads, DrainLast, TryEmpty, Set, Goto, At, Shape,
           Pointers, localVars, outerVars, orderVars, Only
<1> USE <1>1 DEF Grip, DrainLocs
<1>2. /\ link[t] = NULL /\ Len(fifo) > 0 /\ obj[t] = fifo[1]
    BY DEF ListInv, Fronts
<1>3. First = 1 /\ First' = IF tail = obj[t] THEN 2 ELSE 1
    BY <1>2 DEF First, Gapped, Cut
<1>4. /\ Len(fifo) \in Nat
      /\ \A j, k \in 1 .. Len(fifo) : fifo[j] = fifo[k] => j = k
    BY DEF ListInv, Sequence
<1>5. tail # NULL /\ tail = fifo[Len(fifo)]
    BY <1>2, <1>3, <1>4 DEF ListInv, Ends, TailLast, Ghost
<1>6. tail = obj[t] => Len(fifo) = 1
  <2>1. 1 \in 1 .. Len(fifo) /\ Len(fifo) \in 1 .. Len(fifo)
      BY <1>2, <1>4
  <2>2. QED  BY <2>1, <1>2, <1>4, <1>5
<1>7. Sequence'
    BY DEF ListInv, Sequence
<1>8. Links'
    BY <1>3, <1>4, <1>6 DEF ListInv, Links, Ghost
<1>9. Linkers'
    BY <1>3, <1>4, <1>6 DEF ListInv, Linkers, Linking, Ghost
<1>10. Ends'
  <2>1. head = NULL /\ \A c \in Clients : pc'[c] # "sethead"
      BY DEF ListInv, Ends, HeadFirst, HeadLate, Detached
  <2>2. CASE tail = obj[t]
    <3>1. tail' = NULL /\ Len(fifo) = 1 /\ First' = 2 /\ fifo' = fifo
        BY <2>2, <1>3, <1>6
    <3>2. \A u \in Threads : pc'[u] \notin {"onecas", "onespin"}
        BY <2>2
    <3>3. TailLast'  BY <3>1, <3>2 DEF TailLast, Ghost
    <3>4. QED  BY <2>1, <3>3 DEF Ends, HeadFirst, HeadLate
  <2>4. CASE tail # obj[t]
    <3>1. tail' = tail /\ First' = 1 /\ fifo' = fifo
        BY <2>4, <1>3
    <3>3. TailLast'  BY <3>1, <1>2, <1>4, <1>5 DEF TailLast, Ghost
    <3>4. QED  BY <2>1, <3>3 DEF Ends, HeadFirst, HeadLate
  <2>5. QED  BY <2>2, <2>4
<1>11. Fronts'
    BY <1>2 DEF ListInv, Fronts, ListLocs
<1>12. QED  BY <1>7, <1>8, <1>9, <1>10, <1>11 DEF ListInv

\* The item at hand leaves the list.
LEMMA PopList ==
  ASSUME Shape, Shape', ItemsInv, ListInv, NEW t \in Workers,
         pc[t] = "dpop", Pop(t), Only(t),
         UNCHANGED <<tail, head, next, obj, link>>
  PROVE  ListInv'
<1> USE QueueAssumption
<1> DEFINE i == obj[t]  n == Len(fifo)
<1>0. /\ i \in Items /\ n > 0 /\ i = fifo[1]
      /\ n \in Nat /\ fifo \in Seq(Items)
      /\ \A j, k \in 1 .. n : fifo[j] = fifo[k] => j = k
    BY DEF ListInv, Fronts, Sequence, Threads
<1>1. /\ t \in Threads /\ t \notin Clients /\ Clients \subseteq Threads
      /\ \A u \in Threads : u # t => pc'[u] = pc[u] /\ pc[u] \notin Grip
      /\ pc'[t] \in {"runitem", "xsusp", "xrun"}
      /\ fifo' = RemoveFirst(fifo, fifo[1])
      /\ \A j \in Items : state'[j] = "queued" <=> j # i /\ state[j] = "queued"
    BY <1>0
       DEF Threads, Pop, Take, Set, Goto, At, Shape, Only, ItemsInv, History
<1>2. /\ fifo' \in Seq(Items) /\ Len(fifo') = n - 1
      /\ \A k \in 1 .. n - 1 : fifo'[k] = fifo[k + 1]
  <2>1. /\ fifo \in Seq(Items) /\ Len(fifo) > 0
        /\ fifo' = RemoveFirst(fifo, fifo[1])
      BY <1>0, <1>1
  <2>2. QED  BY <2>1, Shorter
<1>3. First = (IF link[t] = NULL THEN 2 ELSE 1) /\ First' = 1
    BY <1>1 DEF First, Gapped, Cut, Grip, DrainLocs
<1>4. link[t] # NULL => n > 1 /\ link[t] = fifo[2] /\ next[i] = link[t]
    BY DEF ListInv, Fronts, Threads
<1>5. \A u \in Threads : ~Ghost(u) /\ pc'[u] \notin {"onecas", "onespin"}
    BY <1>1 DEF Ghost, Grip, DrainLocs
<1>6. \A u \in Threads : pc[u] # "puthead" /\ pc'[u] # "puthead"
    BY <1>1 DEF Grip, DrainLocs
<1>7. Sequence'
  <2>1. \A j, k \in 1 .. Len(fifo') : fifo'[j] = fifo'[k] => j = k
      BY <1>0, <1>2
  <2>2. ASSUME NEW j \in Items
        PROVE  state'[j] = "queued" <=> \E k \in 1 .. Len(fifo') : fifo'[k] = j
    <3>1. state[j] = "queued" <=> \E k \in 1 .. n : fifo[k] = j
        BY DEF ListInv, Sequence
    <3>2. ASSUME state'[j] = "queued"
          PROVE \E k \in 1 .. Len(fifo') : fifo'[k] = j
      <4>1. PICK k \in 1 .. n : fifo[k] = j
          BY <3>1, <3>2, <1>1
      <4>2. k # 1 
          BY <4>1, <3>2, <1>0, <1>1
      <4>3. k - 1 \in 1 .. Len(fifo') /\ fifo'[k - 1] = j
          BY <4>1, <4>2, <1>0, <1>2
      <4>4. QED  BY <4>3
    <3>3. ASSUME NEW k \in 1 .. Len(fifo'), fifo'[k] = j
          PROVE state'[j] = "queued"
      <4>1. k + 1 \in 1 .. n /\ fifo[k + 1] = j /\ k + 1 # 1 /\ 1 \in 1 .. n
          BY <3>3, <1>0, <1>2
      <4>2. QED  BY <4>1, <3>1, <1>0, <1>1
    <3>4. QED  BY <3>2, <3>3
  <2>3. QED  BY <2>1, <2>2, <1>2 DEF Sequence
<1>8. Links'
  <2>1. ASSUME NEW k \in 1 .. Len(fifo'), next[fifo'[k]] # NULL
        PROVE  k < Len(fifo') /\ next[fifo'[k]] = fifo'[k + 1] /\ 1 <= k
    <3>1. k + 1 \in 1 .. n /\ fifo'[k] = fifo[k + 1]
        BY <1>0, <1>2
    <3>2. k + 1 < n /\ next[fifo[k + 1]] = fifo[k + 1 + 1]
        BY <2>1, <3>1 DEF ListInv, Links
    <3>3. QED  BY <3>1, <3>2, <1>0, <1>2
  <2>2. QED  BY <2>1, <1>3, <1>5 DEF Links, Ghost
<1>9. ASSUME NEW c \in Clients, pc'[c] = "link"  PROVE Linking(c)'
  <2>1. pc[c] = "link" /\ Linking(c)
      BY <1>9, <1>1 DEF ListInv, Linkers
  <2>2. PICK k \in First .. n - 1 : link[c] = fifo[k] /\ obj[c] = fifo[k + 1]
      BY <2>1, <1>5 DEF Linking
  <2>3. next[link[c]] = NULL /\ link[c] \in Items
      BY <2>1 DEF Linking
  <2>4. k # 1
      BY <2>2, <2>3, <1>0, <1>3, <1>4
  <2>5. k \in 2 .. n - 1
      BY <2>2, <2>4, <1>0, <1>3
  <2>6. /\ k - 1 \in 1 .. Len(fifo') - 1 /\ fifo'[k - 1] = fifo[k]
        /\ fifo'[k - 1 + 1] = fifo[k + 1]
      BY <2>5, <1>0, <1>2
  <2>7. QED  BY <2>2, <2>3, <2>6, <1>3 DEF Linking
<1>10. Ends'
  <2>1. First <= n => /\ tail = fifo[n] /\ tail # NULL /\ n - 1 >= 1
                      /\ fifo[n] = fifo'[n - 1]
      BY <1>0, <1>2, <1>3, <1>4, <1>5 DEF ListInv, Ends, TailLast
  <2>0. fifo # <<>>
    <3>1. fifo = <<>> => n = 0  OBVIOUS
    <3>2. QED  BY <3>1, <1>0
  <2>2. First > n => tail = NULL /\ n = 1
    <3>0. \E f \in {1, 2} : First = f
        BY <1>3
    <3>1. First > n => n = 1
      <4>1. PICK f \in {1, 2} : First = f
          BY <3>0
      <4>2. PICK m \in Nat : Len(fifo) = m
          BY <1>0
      <4>3. m > 0
          BY <1>0, <4>2
      <4>4. f > m => m = 1
          BY <4>3
      <4>5. QED  BY <4>1, <4>2, <4>4
    <3>2. First > n => ~(n >= First)
        BY <3>0
    <3>3. tail # NULL => n >= First
        BY <2>0, <1>5 DEF ListInv, Ends, TailLast
    <3>4. QED  BY <3>1, <3>2, <3>3
  <2>3. TailLast'
      BY <2>1, <2>2, <1>0, <1>2, <1>3, <1>5 DEF TailLast, Ghost
  <2>4. Detached(t)' <=> link[t] # NULL
      BY <1>1 DEF Detached
  <2>4a. \A u \in Threads : u # t => ~Detached(u)'
      BY <1>1 DEF Detached, Grip, DrainLocs
  <2>5. Detached(t) <=> link[t] # NULL
      BY DEF Detached
  <2>6. head # NULL => link[t] = NULL /\ n >= 2 /\ head = fifo'[1]
      BY <2>5, <1>0, <1>1, <1>2, <1>3, <1>6 DEF ListInv, Ends, HeadFirst
  <2>7. HeadFirst'
      BY <2>4, <2>4a, <2>6, <1>1, <1>2, <1>3 DEF HeadFirst, Detached
  <2>8. ASSUME NEW c \in Clients, pc'[c] = "sethead"
        PROVE  link[t] = NULL /\ n >= 2 /\ obj[c] = fifo'[1] /\ head = NULL
      BY <2>5, <2>8, <1>0, <1>1, <1>2, <1>3 DEF ListInv, Ends, HeadLate
  <2>9. HeadLate'
      BY <2>4, <2>4a, <2>8, <1>1, <1>2, <1>3 DEF HeadLate, Detached
  <2>10. QED  BY <2>3, <2>7, <2>9 DEF Ends
<1>11. Fronts'
    BY <1>0, <1>1, <1>2, <1>4 DEF ListInv, Fronts, ListLocs, Grip, DrainLocs
<1>12. QED  BY <1>7, <1>8, <1>9, <1>10, <1>11 DEF ListInv, Linkers

\* A step that leaves the list alone: the links of items that are off it may
\* be reset, and the thread stays away from the list or moves on within a drain
\* that has taken it off the queue, or not.
Near(t) ==
    \/ /\ pc[t] \notin ListLocs /\ pc'[t] \notin ListLocs
       /\ link'[t] \in {link[t], NULL}
    \/ /\ UNCHANGED <<obj, link>>
       /\ \/ pc[t] \in {"dsusp", "dpop"} /\ pc'[t] \in {"dpop", "out"}
          \/ /\ pc[t] \in {"xsusp", "xrun"}
             /\ pc'[t] \in {"xrun", "signal", "redirect"}
          \/ /\ pc[t] \in {"icas", "dtail"}
             /\ pc'[t] \in {"dtail", "dhead", "leave", "unlock"}

\* The whole of such a step.
Quiet(t) ==
    /\ UNCHANGED <<tail, head, fifo>>
    /\ \A i \in Items : state'[i] = "queued" <=> state[i] = "queued"
    /\ \A i \in Items : next'[i] # next[i] =>
         /\ next'[i] = NULL /\ state[i] # "queued"
         /\ \A u \in Threads : Ghost(u) => obj[u] # i
    /\ \A u \in Threads : u # t => /\ pc'[u] = pc[u] /\ obj'[u] = obj[u]
                                   /\ link'[u] = link[u]
    /\ Near(t)

\* The steps that leave the list alone.
QuietStep(t) ==
    \/ WakeupSuspended(t) \/ WakeupTail(t) \/ WakeupLock(t) \/ WakeupPush(t)
       \/ ReleaseInternal(t)
    \/ /\ t \in Clients
       /\ \/ Async(t) \/ BarrierAsync(t) \/ Sync(t) \/ BarrierSync(t) \/
             Suspend(t) \/ Resume(t) \/ AsyncTail(t) \/ AsyncSuspended(t) \/
             AsyncAdd(t) \/ AsyncOver(t) \/ AsyncOdd(t) \/ AsyncRedirect(t) \/
             SyncTail(t) \/ SyncSuspended(t) \/ SyncAdd(t) \/ SyncBack(t) \/
             SyncRun(t) \/ SyncSub(t) \/ Wait(t) \/ BarrierTail(t) \/
             BarrierSuspended(t) \/ BarrierLock(t) \/ BarrierRun(t) \/
             BarrierCheck(t) \/ TransferSuspended(t) \/ BarrierUnlock(t) \/
             SlowRun(t) \/ SlowTest(t) \/ SlowSpin(t) \/ SlowResume(t) \/
             SlowUnlock(t) \/ TransferSuspend(t) \/ TransferRunning(t) \/
             TransferSignal(t)
    \/ /\ t \in Workers
       /\ \/ TakeQueue(t) \/ InvokeSuspended(t) \/ InvokeLock(t) \/
             InvokeLeave(t) \/ InvokeUnlock(t) \/ InvokeProbe(t) \/
             TakeRedirected(t) \/ RunBeside(t) \/ RedirectSub(t) \/
             DrainTail(t) \/ DrainSuspended(t) \/ GrantSuspend(t) \/
             GrantRunning(t)

\* Each of these steps leaves the list alone in the sense of Quiet ...
LEMMA QuietSteps ==
  ASSUME Shape, Shape', ItemsInv, NEW t \in Threads, QuietStep(t)
  PROVE  Quiet(t)
<1> USE QueueAssumption
    DEF Threads, Items, Locs, Returns, ClientLocs, WorkerLocs, ItemLocs,
        PushLocs, WakeupLocs, AsyncLocs, SyncLocs, FastLocs, SlowLocs, OneLocs,
        DrainLocs, InvokeLocs, queueVars, wordVars, lockVars, otherVars,
        outerVars, itemVars, listVars, worldVars, objectVars, rootVars,
        localVars, orderVars, Set, Goto, At, MayCall, Test, Add, TryEmpty,
        Finish, CallWakeup, Return, WakeupTest, DropRunning, DropReference,
        Pushed, Submit, Call, Enter, Run, Take, Dequeued, Pop, Proceed
<1> USE DEF Shape, Pointers, Place, Quiet, Near, ListLocs, Ghost, ItemsInv,
        History, GrantsOK, WorksOK, CallerOK, Waiting, Granting, Bears
<1>1. ASSUME WakeupSuspended(t)  PROVE Quiet(t)
    BY <1>1 DEF WakeupSuspended
<1>2. ASSUME WakeupTail(t)  PROVE Quiet(t)
    BY <1>2 DEF WakeupTail
<1>3. ASSUME WakeupLock(t)  PROVE Quiet(t)
    BY <1>3 DEF WakeupLock
<1>4. ASSUME WakeupPush(t)  PROVE Quiet(t)
    BY <1>4 DEF WakeupPush
<1>5. ASSUME ReleaseInternal(t)  PROVE Quiet(t)
    BY <1>5 DEF ReleaseInternal
<1>6. ASSUME Async(t), t \in Clients  PROVE Quiet(t)
    BY <1>6 DEF Async
<1>7. ASSUME BarrierAsync(t), t \in Clients  PROVE Quiet(t)
    BY <1>7 DEF BarrierAsync
<1>8. ASSUME Sync(t), t \in Clients  PROVE Quiet(t)
    BY <1>8 DEF Sync
<1>9. ASSUME BarrierSync(t), t \in Clients  PROVE Quiet(t)
    BY <1>9 DEF BarrierSync
<1>10. ASSUME Suspend(t), t \in Clients  PROVE Quiet(t)
    BY <1>10 DEF Suspend
<1>11. ASSUME Resume(t), t \in Clients  PROVE Quiet(t)
    BY <1>11 DEF Resume
<1>12. ASSUME AsyncTail(t), t \in Clients  PROVE Quiet(t)
    BY <1>12 DEF AsyncTail
<1>13. ASSUME AsyncSuspended(t), t \in Clients  PROVE Quiet(t)
    BY <1>13 DEF AsyncSuspended
<1>14. ASSUME AsyncAdd(t), t \in Clients  PROVE Quiet(t)
    BY <1>14 DEF AsyncAdd
<1>15. ASSUME AsyncOver(t), t \in Clients  PROVE Quiet(t)
    BY <1>15 DEF AsyncOver
<1>16. ASSUME AsyncOdd(t), t \in Clients  PROVE Quiet(t)
    BY <1>16 DEF AsyncOdd
<1>17. ASSUME AsyncRedirect(t), t \in Clients  PROVE Quiet(t)
    BY <1>17 DEF AsyncRedirect
<1>18. ASSUME SyncTail(t), t \in Clients  PROVE Quiet(t)
    BY <1>18 DEF SyncTail
<1>19. ASSUME SyncSuspended(t), t \in Clients  PROVE Quiet(t)
    BY <1>19 DEF SyncSuspended
<1>20. ASSUME SyncAdd(t), t \in Clients  PROVE Quiet(t)
    BY <1>20 DEF SyncAdd
<1>21. ASSUME SyncBack(t), t \in Clients  PROVE Quiet(t)
    BY <1>21 DEF SyncBack
<1>22. ASSUME SyncRun(t), t \in Clients  PROVE Quiet(t)
    BY <1>22 DEF SyncRun
<1>23. ASSUME SyncSub(t), t \in Clients  PROVE Quiet(t)
    BY <1>23 DEF SyncSub
<1>24. ASSUME Wait(t), t \in Clients  PROVE Quiet(t)
    BY <1>24 DEF Wait
<1>25. ASSUME BarrierTail(t), t \in Clients  PROVE Quiet(t)
    BY <1>25 DEF BarrierTail
<1>26. ASSUME BarrierSuspended(t), t \in Clients  PROVE Quiet(t)
    BY <1>26 DEF BarrierSuspended
<1>27. ASSUME BarrierLock(t), t \in Clients  PROVE Quiet(t)
    BY <1>27 DEF BarrierLock
<1>28. ASSUME BarrierRun(t), t \in Clients  PROVE Quiet(t)
    BY <1>28 DEF BarrierRun
<1>29. ASSUME BarrierCheck(t), t \in Clients  PROVE Quiet(t)
    BY <1>29 DEF BarrierCheck
<1>30. ASSUME TransferSuspended(t), t \in Clients  PROVE Quiet(t)
    BY <1>30 DEF TransferSuspended
<1>31. ASSUME BarrierUnlock(t), t \in Clients  PROVE Quiet(t)
    BY <1>31 DEF BarrierUnlock
<1>32. ASSUME SlowRun(t), t \in Clients  PROVE Quiet(t)
    BY <1>32 DEF SlowRun
<1>33. ASSUME SlowTest(t), t \in Clients  PROVE Quiet(t)
    BY <1>33 DEF SlowTest
<1>34. ASSUME SlowSpin(t), t \in Clients  PROVE Quiet(t)
    BY <1>34 DEF SlowSpin
<1>35. ASSUME SlowResume(t), t \in Clients  PROVE Quiet(t)
    BY <1>35 DEF SlowResume
<1>36. ASSUME SlowUnlock(t), t \in Clients  PROVE Quiet(t)
    BY <1>36 DEF SlowUnlock
<1>37. ASSUME TransferSuspend(t), t \in Clients  PROVE Quiet(t)
    BY <1>37 DEF TransferSuspend
<1>38. ASSUME TransferRunning(t), t \in Clients  PROVE Quiet(t)
    BY <1>38 DEF TransferRunning
<1>39. ASSUME TransferSignal(t), t \in Clients  PROVE Quiet(t)
    BY <1>39 DEF TransferSignal
<1>40. ASSUME TakeQueue(t), t \in Workers  PROVE Quiet(t)
    BY <1>40 DEF TakeQueue
<1>41. ASSUME InvokeSuspended(t), t \in Workers  PROVE Quiet(t)
    BY <1>41 DEF InvokeSuspended
<1>42. ASSUME InvokeLock(t), t \in Workers  PROVE Quiet(t)
    BY <1>42 DEF InvokeLock
<1>43. ASSUME InvokeLeave(t), t \in Workers  PROVE Quiet(t)
    BY <1>43 DEF InvokeLeave
<1>44. ASSUME InvokeUnlock(t), t \in Workers  PROVE Quiet(t)
    BY <1>44 DEF InvokeUnlock
<1>45. ASSUME InvokeProbe(t), t \in Workers  PROVE Quiet(t)
    BY <1>45 DEF InvokeProbe
<1>46. ASSUME TakeRedirected(t), t \in Workers  PROVE Quiet(t)
    BY <1>46 DEF TakeRedirected
<1>47. ASSUME RunBeside(t), t \in Workers  PROVE Quiet(t)
    BY <1>47 DEF RunBeside
<1>48. ASSUME RedirectSub(t), t \in Workers  PROVE Quiet(t)
    BY <1>48 DEF RedirectSub
<1>49. ASSUME DrainTail(t), t \in Workers  PROVE Quiet(t)
    BY <1>49 DEF DrainTail
<1>50. ASSUME DrainSuspended(t), t \in Workers  PROVE Quiet(t)
    BY <1>50 DEF DrainSuspended
<1>51. ASSUME GrantSuspend(t), t \in Workers  PROVE Quiet(t)
    BY <1>51 DEF GrantSuspend
<1>52. ASSUME GrantRunning(t), t \in Workers  PROVE Quiet(t)
    BY <1>52 DEF GrantRunning
<1>53. QED
    BY <1>1, <1>2, <1>3, <1>4, <1>5, <1>6, <1>7, <1>8, <1>9, <1>10, <1>11,
       <1>12, <1>13, <1>14, <1>15, <1>16, <1>17, <1>18, <1>19, <1>20, <1>21,
       <1>22, <1>23, <1>24, <1>25, <1>26, <1>27, <1>28, <1>29, <1>30, <1>31,
       <1>32, <1>33, <1>34, <1>35, <1>36, <1>37, <1>38, <1>39, <1>40, <1>41,
       <1>42, <1>43, <1>44, <1>45, <1>46, <1>47, <1>48, <1>49, <1>50, <1>51,
       <1>52, Zenon DEF QuietStep

\* ... and such a step keeps the list.
LEMMA QuietList ==
  ASSUME Shape, Shape', ListInv, NEW t \in Threads, Quiet(t), Len(fifo) \in Nat
  PROVE ListInv'
<1>1. /\ \A u \in Threads : u # t => pc'[u] = pc[u] /\ obj'[u] = obj[u]
                                     /\ link'[u] = link[u]
      /\ Near(t)
      /\ fifo' = fifo /\ tail' = tail /\ head' = head
      /\ \A i \in Items : next'[i] # NULL => next'[i] = next[i]
      /\ Clients \subseteq Threads
  BY DEF Quiet, Threads
<1>2. \A k \in 1 .. Len(fifo) : fifo[k] \in Items
  BY DEF ListInv, Sequence
<1>3. Gapped' <=> Gapped
  BY <1>1 DEF Gapped, Cut, Near, ListLocs
<1>4. First' = First  BY <1>3 DEF First
<1>5. Sequence'  
  BY <1>1 DEF ListInv, Sequence, Quiet
<1>6. \A u \in Threads : Ghost(u) =>
          pc'[u] = pc[u] /\ obj'[u] = obj[u] /\ obj[u] \in Items
  BY <1>1 DEF Ghost, Near, ListLocs, Shape, Place, Pointers, ItemLocs
<1>7. \A u \in Threads : pc'[u] \in {"onecas", "onespin"} => Ghost(u)
  BY <1>1 DEF Ghost, Near, ListLocs
<1>8. Links'
  <2>1. ASSUME NEW k \in 1 .. Len(fifo'), next'[fifo'[k]] # NULL
        PROVE  k < Len(fifo') /\ next'[fifo'[k]] = fifo'[k + 1] /\ First' <= k
    BY <2>1, <1>1, <1>2, <1>4 DEF ListInv, Links
  <2>2. ASSUME NEW u \in Threads, pc'[u] \in {"onecas", "onespin"},
            next'[obj'[u]] # NULL
        PROVE  Len(fifo') > 0 /\ next'[obj'[u]] = fifo'[1]
    BY <2>2, <1>1, <1>6, <1>7 DEF ListInv, Links
  <2>3. QED BY <2>1, <2>2 DEF Links, Ghost
<1>9. Ends'
  <2>1. \A u \in Threads : Detached(u)' <=> Detached(u)
    BY <1>1 DEF Detached, Near, ListLocs
  <2>2. (\A u \in Threads : ~Detached(u)) => \A u \in Threads : ~Detached(u)'
    BY <1>1 DEF Detached, Near, ListLocs
  <2>3. \A c \in Clients : pc'[c] = "sethead" =>
            pc[c] = "sethead" /\ obj'[c] = obj[c]
    BY <1>1 DEF Near, ListLocs
  <2>4. \A u \in Threads : pc[u] = "puthead" => pc'[u] = "puthead"
    BY <1>1 DEF Near, ListLocs
  <2>5. tail # NULL =>
         \/ Len(fifo) >= First /\ tail = fifo[Len(fifo)]
         \/ /\ fifo = <<>>
            /\ \E u \in Threads :
                 pc'[u] \in {"onecas", "onespin"} /\ tail = obj'[u]
    BY <1>6 DEF ListInv, Ends, TailLast, HeadFirst, HeadLate, Ghost
  <2>6. tail = NULL =>
          /\ Len(fifo) < First
          /\ \A u \in Threads : pc'[u] \notin {"onecas", "onespin"}
    BY <1>7 DEF ListInv, Ends, TailLast, HeadFirst, HeadLate
  <2>7. head # NULL =>
         \/ \E u \in Threads : pc'[u] = "puthead"
         \/ /\ Len(fifo) >= First /\ head = fifo[First]
            /\ \A u \in Threads : ~Detached(u)
    BY <2>4 DEF ListInv, Ends, TailLast, HeadFirst, HeadLate
  <2>8. \A c \in Clients : pc'[c] = "sethead" =>
         /\ Len(fifo) >= First /\ obj'[c] = fifo[First] /\ head = NULL
         /\ \A u \in Threads : ~Detached(u)
    BY <2>3 DEF ListInv, Ends, TailLast, HeadFirst, HeadLate
  <2>9. QED
      BY <1>1, <1>4, <2>2, <2>5, <2>6, <2>7, <2>8
         DEF Ends, TailLast, HeadFirst, HeadLate, Ghost, Detached
<1>10. Fronts'
    BY <1>1 DEF ListInv, Sequence, Fronts, Near, ListLocs, Quiet, Shape
<1>11. ASSUME NEW c \in Clients, pc'[c] = "link" PROVE Linking(c)'
  <2>1. /\ pc[c] = "link" /\ obj'[c] = obj[c] /\ link'[c] = link[c]
        /\ Linking(c)
     BY <1>11, <1>1 DEF ListInv, Linkers, Near, ListLocs
  <2>2. link'[c] \in Items /\ next'[link'[c]] = NULL
     BY <2>1, <1>1 DEF Linking
  <2>3. CASE \E k \in First .. Len(fifo) - 1 :
            link[c] = fifo[k] /\ obj[c] = fifo[k + 1]
     BY <2>1, <2>2, <2>3, <1>1, <1>4 DEF Linking
  <2>4. CASE /\ Len(fifo) > 0 /\ obj[c] = fifo[1]
             /\ \E u \in Threads : Ghost(u) /\ link[c] = obj[u]
     BY <2>1, <2>2, <2>4, <1>1, <1>6 DEF Linking, Ghost
  <2>5. QED BY <2>1, <2>3, <2>4 DEF Linking
<1>12. QED BY <1>5, <1>8, <1>9, <1>10, <1>11 DEF ListInv, Linkers

\* The one thread that takes items off the list.
LEMMA OnlyOne ==
  ASSUME Shape, RunInv, ExclInv, NEW t \in Threads, pc[t] \in Grip \cup {"one"}
  PROVE  Only(t)
<1> DEFINE MayTake(u) == Holds(u) \/ (HandsOver(u) /\ pc[u] # "onesig")
<1>1. ASSUME NEW u \in Threads, pc[u] \in Grip \cup {"one"}  PROVE MayTake(u)
    BY <1>1 DEF Shape, Place, Grip, Holds, Fast, HandsOver, OneLocs
<1>2. ASSUME NEW u \in Threads, NEW v \in Threads, MayTake(u), MayTake(v)
      PROVE  u = v
    BY <1>2 DEF RunInv, ExclInv, NoHolder, OneBarrier, Barrier
<1>3. QED  BY <1>1, <1>2 DEF Only

\* One thread at a time has the head of the list for itself.
LEMMA Gripped ==
  ASSUME Shape, RunInv, ExclInv
  PROVE  OneGrip
  BY OnlyOne DEF OneGrip, Only

\* An item whose push is over: its caller, if it is the record of a call,
\* waits.
Ripe(i) == /\ i \in Items /\ state[i] = "queued"
           /\ \A c \in Clients : pc[c] \in {"link", "sethead"} => obj[c] # i
           /\ i \in Clients => Waiting(i)

\* What a thread finds that is about to take an item.
Finds(t) == /\ pc[t] = "one" /\ head # NULL => Ripe(head)
            /\ pc[t] = "dpop" => Ripe(obj[t])

\* A caller whose record is on the list and whose push is over waits.
LEMMA RipeWaits ==
  ASSUME ItemsInv, NEW c \in Clients, state[c] = "queued",
         pc[c] \in {"link", "sethead"} => obj[c] # c
  PROVE  Waiting(c)
  BY QueueAssumption
     DEF Threads, ItemsInv, CallerOK, Waiting, PushLocs, WakeupLocs, SyncLocs,
         FastLocs, SlowLocs

\* The head, and the item a drain is about to pop, were pushed completely:
\* the code runs or grants them without looking again.
LEMMA FindsRipe ==
  ASSUME Shape, ItemsInv, ListInv, NEW t \in Threads, Only(t)
  PROVE  Finds(t)
<1> USE QueueAssumption
<1>0. /\ Clients \subseteq Threads
      /\ fifo \in Seq(Items) /\ Len(fifo) \in Nat
      /\ \A k \in 1 .. Len(fifo) :
             fifo[k] \in Items /\ state[fifo[k]] = "queued"
      /\ \A j, k \in 1 .. Len(fifo) : fifo[j] = fifo[k] => j = k
    BY DEF ListInv, Sequence, Threads
<1>1. ASSUME pc[t] \in {"one", "dpop"}, Len(fifo) > 0,
             NEW c \in Clients, pc[c] = "link"
      PROVE  obj[c] # fifo[1]
  <2>1. \A u \in Threads : ~Ghost(u)
      BY <1>1 DEF Only, Ghost, Grip
  <2>2. PICK k \in First .. Len(fifo) - 1 : obj[c] = fifo[k + 1]
      BY <1>1, <2>1 DEF ListInv, Linkers, Linking
  <2>3. k \in Nat /\ k >= 1 /\ k + 1 <= Len(fifo)
      BY <2>2, <1>0 DEF First
  <2>4. k + 1 \in 1 .. Len(fifo) /\ 1 \in 1 .. Len(fifo) /\ k + 1 # 1
      BY <2>3, <1>0
  <2>5. QED  BY <2>2, <2>4, <1>0
<1>2. ASSUME pc[t] = "one", head # NULL  PROVE Ripe(head)
  <2>1. First = 1 /\ \A u \in Threads : pc[u] # "puthead"
      BY <1>2 DEF First, Gapped, Cut, Only, Grip, DrainLocs
  <2>2. Len(fifo) > 0 /\ head = fifo[1]
      BY <1>2, <2>1, <1>0 DEF ListInv, Ends, HeadFirst
  <2>3. 1 \in 1 .. Len(fifo)
      BY <2>2, <1>0
  <2>4. \A c \in Clients : pc[c] # "sethead"
      BY <1>2 DEF ListInv, Ends, HeadLate
  <2>5. QED  BY <2>2, <2>3, <2>4, <1>0, <1>1, <1>2, RipeWaits DEF Ripe
<1>3. ASSUME pc[t] = "dpop"  PROVE Ripe(obj[t])
  <2>1. Len(fifo) > 0 /\ obj[t] = fifo[1]
      BY <1>3 DEF ListInv, Fronts
  <2>2. 1 \in 1 .. Len(fifo)
      BY <2>1, <1>0
  <2>3. ASSUME NEW c \in Clients, pc[c] = "sethead"  PROVE obj[c] # fifo[1]
    <3>1. ~Detached(t) /\ Len(fifo) >= First /\ obj[c] = fifo[First]
        BY <2>3 DEF ListInv, Ends, HeadLate
    <3>2. First = 2
        BY <3>1, <1>3 DEF Detached, First, Gapped, Cut
    <3>3. 2 \in 1 .. Len(fifo)
        BY <3>1, <3>2, <1>0
    <3>4. QED  BY <3>1, <3>2, <3>3, <2>2, <1>0
  <2>4. QED  BY <2>1, <2>2, <2>3, <1>0, <1>1, <1>3, RipeWaits DEF Ripe
<1>4. QED  BY <1>2, <1>3 DEF Finds

\* Every step keeps the list.
LEMMA StepList ==
  ASSUME Shape, Shape', ItemsInv, RunInv, ExclInv, ListInv, [Next]_queueVars
  PROVE  ListInv'
<1>0. /\ Len(fifo) \in Nat
      /\ Clients \subseteq Threads /\ Workers \subseteq Threads
    BY DEF ListInv, Sequence, Threads
<1>1. ASSUME Release \/ UNCHANGED queueVars  PROVE ListInv'
  <2>1. UNCHANGED <<tail, head, next, state, fifo, pc, obj, link>>
      BY <1>1 DEF Release, queueVars, wordVars, otherVars, itemVars, listVars,
                  localVars, orderVars
  <2>2. QED
      BY <2>1 DEF ListInv, Sequence, Links, Linkers, Linking, Ends, TailLast,
                  HeadFirst, HeadLate, Fronts, First, Gapped, Cut, Ghost,
                  Detached
<1>2. ASSUME NEW t \in Threads, QuietStep(t)  PROVE ListInv'
    BY <1>0, <1>2, QuietSteps, QuietList
<1>3. ASSUME NEW t \in Threads, WakeupStep(t)  PROVE ListInv'
    BY <1>0, <1>2, <1>3, Zenon DEF QuietStep, WakeupStep
<1>4. ASSUME NEW t \in Clients, CallStep(t)  PROVE ListInv'
    BY <1>0, <1>2, <1>4, Zenon DEF QuietStep, CallStep
<1>5. ASSUME NEW t \in Clients, PushStep(t)  PROVE ListInv'
  <2>1. CASE Swap(t)
      BY <2>1, SwapList, Gripped
  <2>2. CASE Link(t)
      BY <2>2, LinkList
  <2>3. CASE SetHead(t)
      BY <2>3, SetHeadList
  <2>4. QED
      BY <1>5, <2>1, <2>2, <2>3, <1>0, Zenon DEF PushStep
<1>6. ASSUME NEW t \in Clients, AsyncStep(t)  PROVE ListInv'
    BY <1>0, <1>2, <1>6, Zenon DEF QuietStep, AsyncStep
<1>7. ASSUME NEW t \in Clients, SyncStep(t)  PROVE ListInv'
    BY <1>0, <1>2, <1>7, Zenon DEF QuietStep, SyncStep
<1>8. ASSUME NEW t \in Clients, BarrierStep(t)  PROVE ListInv'
    BY <1>0, <1>2, <1>8, Zenon DEF QuietStep, BarrierStep
<1>9. ASSUME NEW t \in Clients, SlowStep(t)  PROVE ListInv'
    BY <1>0, <1>2, <1>9, Zenon DEF QuietStep, SlowStep
<1>10. ASSUME NEW t \in Clients, HandOverStep(t)  PROVE ListInv'
  <2>1. CASE QuietStep(t)
      BY <1>0, <1>2, <2>1
  <2>2. CASE OneHead(t)
    <3>1. Only(t)
        BY <2>2, <1>0, OnlyOne DEF OneHead, At
    <3>2. CASE head # NULL /\ kind[head] = "barriersync"
        BY <2>2, <3>1, <3>2, OneHeadList
    <3>3. CASE ~(head # NULL /\ kind[head] = "barriersync")
      <4>1. /\ pc[t] = "one" /\ pc' = [pc EXCEPT ![t] = ret[t]]
            /\ UNCHANGED <<tail, head, next, state, fifo, obj, link>>
          BY <2>2, <3>3 DEF OneHead, At, Return, Goto, Set, orderVars
      <4>2. pc'[t] \in {"bdec", "ssub"}
          BY <4>1, <1>0 DEF Shape, Place, OneLocs
      <4>3. \A u \in Threads : u # t => pc'[u] = pc[u]
          BY <4>1, <1>0 DEF Shape
      <4>4. Quiet(t)
          BY <4>1, <4>2, <4>3 DEF Quiet, Near, ListLocs
      <4>5. QED  BY <4>4, <1>0, QuietList
    <3>4. QED  BY <3>2, <3>3
  <2>3. CASE OneTail(t)
    <3>1. Only(t) /\ Ghost(t)
        BY <2>3, <1>0, OnlyOne DEF OneTail, TryEmpty, At, Grip, Ghost
    <3>2. \A k \in 1 .. Len(fifo) : fifo[k] # obj[t]
        BY <3>1, <1>0, GhostTaken
    <3>3. QED  BY <2>3, <3>1, <3>2, OneTailList
  <2>4. CASE OneSpin(t)
    <3>1. Only(t)
        BY <2>4, <1>0, OnlyOne DEF OneSpin, At, Grip, DrainLocs
    <3>2. QED  BY <2>4, <3>1, OneSpinList
  <2>5. QED
      BY <1>10, <2>1, <2>2, <2>3, <2>4, <1>0, Zenon
         DEF HandOverStep, QuietStep
<1>11. ASSUME NEW t \in Workers, InvokeStep(t)  PROVE ListInv'
    BY <1>0, <1>2, <1>11, Zenon DEF QuietStep, InvokeStep
<1>12. ASSUME NEW t \in Workers, RedirectStep(t)  PROVE ListInv'
    BY <1>0, <1>2, <1>12, Zenon DEF QuietStep, RedirectStep
<1>13. ASSUME NEW t \in Workers, DrainStep(t)  PROVE ListInv'
  <2>1. CASE QuietStep(t)
      BY <1>0, <1>2, <2>1
  <2>2. CASE DrainHead(t)
    <3>1. Only(t)
        BY <2>2, <1>0, OnlyOne DEF DrainHead, At, Grip, DrainLocs
    <3>2. QED  BY <2>2, <3>1, DrainHeadList
  <2>3. CASE DrainNext(t)
    <3>1. Only(t)
        BY <2>3, <1>0, OnlyOne DEF DrainNext, At, Grip, DrainLocs
    <3>2. QED  BY <2>3, <3>1, DrainNextList
  <2>4. CASE DrainLast(t)
    <3>1. Only(t)
        BY <2>4, <1>0, OnlyOne DEF DrainLast, TryEmpty, At, Grip, DrainLocs
    <3>2. QED  BY <2>4, <3>1, DrainLastList
  <2>5. CASE DrainSpin(t)
    <3>1. Only(t)
        BY <2>5, <1>0, OnlyOne DEF DrainSpin, At, Grip, DrainLocs
    <3>2. QED  BY <2>5, <3>1, DrainNextList
  <2>6. CASE DrainPop(t)
    <3>1. /\ Only(t) /\ pc[t] = "dpop"
          /\ UNCHANGED <<tail, head, next, obj, link>>
        BY <2>6, <1>0, OnlyOne
           DEF DrainPop, At, Grip, DrainLocs, listVars, localVars
    <3>2. CASE Pop(t)
        BY <3>1, <3>2, PopList
    <3>3. CASE ~Pop(t)
      <4>1. /\ pc' = [pc EXCEPT ![t] = "out"]
            /\ UNCHANGED <<state, fifo>>
          BY <2>6, <3>3 DEF DrainPop, Goto, Set, orderVars
      <4>2. pc'[t] = "out" /\ \A u \in Threads : u # t => pc'[u] = pc[u]
          BY <4>1, <1>0 DEF Shape
      <4>3. Quiet(t)
          BY <3>1, <4>1, <4>2 DEF Quiet, Near
      <4>4. QED  BY <4>3, <1>0, QuietList
    <3>4. QED  BY <3>2, <3>3
  <2>7. QED
      BY <1>13, <2>1, <2>2, <2>3, <2>4, <2>5, <2>6, <1>0, Zenon
         DEF DrainStep, QuietStep
<1>14. ASSUME NEW t \in Workers, PopStep(t)  PROVE ListInv'
  <2>1. CASE QuietStep(t)
      BY <1>0, <1>2, <2>1
  <2>2. CASE RunItem(t)
    <3>1. Only(t)
        BY <2>2, <1>0, OnlyOne DEF RunItem, At, Grip, DrainLocs
    <3>2. QED  BY <2>2, <3>1, ProceedList
  <2>3. CASE GrantSignal(t)
    <3>1. Only(t)
        BY <2>3, <1>0, OnlyOne DEF GrantSignal, At, Grip, DrainLocs
    <3>2. QED  BY <2>3, <3>1, ProceedList
  <2>4. CASE DrainRedirect(t)
    <3>1. Only(t)
        BY <2>4, <1>0, OnlyOne DEF DrainRedirect, At, Grip, DrainLocs
    <3>2. QED  BY <2>4, <3>1, ProceedList
  <2>5. QED
      BY <1>14, <2>1, <2>2, <2>3, <2>4, <1>0, Zenon DEF PopStep, QuietStep
<1>15. ASSUME NEW t \in Workers, PutBackStep(t)  PROVE ListInv'
  <2>1. CASE PutBackTail(t)
    <3>1. Only(t)
        BY <2>1, <1>0, OnlyOne DEF PutBackTail, At, Grip, DrainLocs
    <3>2. QED  BY <2>1, <3>1, PutBackTailList
  <2>2. CASE PutBackSpin(t)
    <3>1. Only(t)
        BY <2>2, <1>0, OnlyOne DEF PutBackSpin, At, Grip, DrainLocs
    <3>2. QED  BY <2>2, <3>1, PutBackSpinList
  <2>3. CASE PutBackHead(t)
    <3>1. Only(t)
        BY <2>3, <1>0, OnlyOne DEF PutBackHead, At, Grip, DrainLocs
    <3>2. QED  BY <2>3, <3>1, PutBackHeadList
  <2>4. QED
      BY <1>15, <2>1, <2>2, <2>3, <1>0, Zenon DEF PutBackStep
<1>16. QED
    BY <1>1, <1>2, <1>3, <1>4, <1>5, <1>6, <1>7, <1>8, <1>9, <1>10, <1>11,
       <1>12, <1>13, <1>14, <1>15, NextCases

-----------------------------------------------------------------------------
(* What became of the items                                                *)

\* What became of an item, who submitted it, and the semaphores.
LEMMA StepHistory ==
  ASSUME Shape, ItemsInv, \A t \in Threads : Finds(t), [Next]_queueVars
  PROVE  History'
<1> USE QueueAssumption
    DEF Threads, Items, Locs, Returns, ClientLocs, WorkerLocs, ItemLocs,
        PushLocs, WakeupLocs, AsyncLocs, SyncLocs, FastLocs, SlowLocs, OneLocs,
        DrainLocs, InvokeLocs, queueVars, wordVars, lockVars, otherVars,
        outerVars, itemVars, listVars, worldVars, objectVars, rootVars,
        localVars, orderVars, Set, Goto, At, MayCall, Test, Add, TryEmpty,
        Finish, CallWakeup, Return, WakeupTest, DropRunning, DropReference,
        Pushed, Submit, Call, Enter, Run, Take, Dequeued, Pop, Proceed
<1> USE DEF Shape, Pointers, Place, ItemsInv, History, WorksOK, Bears,
        Finds, Ripe
<1>1. ASSUME UNCHANGED queueVars  PROVE History'
    BY <1>1
<1>2. ASSUME Release  PROVE History'
    BY <1>2 DEF Release
<1>3. ASSUME NEW t \in Threads, WakeupStep(t)  PROVE History'
    BY <1>3
       DEF WakeupStep, WakeupSuspended, WakeupTail, WakeupLock, WakeupPush,
           ReleaseInternal
<1>4. ASSUME NEW t \in Clients, CallStep(t)  PROVE History'
  <2>1. CASE Async(t)
      <3>1. PICK w \in Works, k \in {"async", "barrier"} :
              /\ by[w] = NULL /\ kind' = [kind EXCEPT ![w] = k]
              /\ obj' = [obj EXCEPT ![t] = w] /\ by' = [by EXCEPT ![w] = t]
          BY <2>1 DEF Async
      <3>2. UNCHANGED <<state, sema>>
          BY <2>1 DEF Async
      <3>3. /\ kind' \in [Items -> {"none", "async", "barrier", "sync",
                              "barriersync"}]
            /\ by' \in [Works -> Clients \cup {NULL}]
            /\ \A c \in Clients : kind'[c] = kind[c]
          BY <3>1
      <3>4. QED  BY <3>2, <3>3
  <2>2. CASE BarrierAsync(t)
      <3>1. PICK w \in Works, k \in {"async", "barrier"} :
              /\ by[w] = NULL /\ kind' = [kind EXCEPT ![w] = k]
              /\ obj' = [obj EXCEPT ![t] = w] /\ by' = [by EXCEPT ![w] = t]
          BY <2>2 DEF BarrierAsync
      <3>2. UNCHANGED <<state, sema>>
          BY <2>2 DEF BarrierAsync
      <3>3. /\ kind' \in [Items -> {"none", "async", "barrier", "sync",
                              "barriersync"}]
            /\ by' \in [Works -> Clients \cup {NULL}]
            /\ \A c \in Clients : kind'[c] = kind[c]
          BY <3>1
      <3>4. QED  BY <3>2, <3>3
  <2>3. CASE Sync(t)
      BY <2>3 DEF Sync
  <2>4. CASE BarrierSync(t)
      BY <2>4 DEF BarrierSync
  <2>5. CASE Suspend(t)
      BY <2>5 DEF Suspend
  <2>6. CASE Resume(t)
      BY <2>6 DEF Resume
  <2>7. QED
      BY <1>4, <2>1, <2>2, <2>3, <2>4, <2>5, <2>6 DEF CallStep
<1>5. ASSUME NEW t \in Clients, PushStep(t)  PROVE History'
  <2>1. CASE Swap(t)
      BY <2>1 DEF Swap
  <2>2. CASE Link(t)
      BY <2>2 DEF Link
  <2>3. CASE SetHead(t)
      BY <2>3 DEF SetHead
  <2>4. QED
      BY <1>5, <2>1, <2>2, <2>3 DEF PushStep
<1>6. ASSUME NEW t \in Clients, AsyncStep(t)  PROVE History'
    BY <1>6
       DEF AsyncStep, AsyncTail, AsyncSuspended, AsyncAdd, AsyncOver,
           AsyncOdd, AsyncRedirect
<1>7. ASSUME NEW t \in Clients, SyncStep(t)  PROVE History'
  <2>1. CASE SyncTail(t)
      BY <1>7, <2>1 DEF SyncTail
  <2>2. CASE SyncSuspended(t)
      BY <1>7, <2>2 DEF SyncSuspended
  <2>3. CASE SyncAdd(t)
      BY <1>7, <2>3 DEF SyncAdd
  <2>4. CASE SyncBack(t)
      BY <1>7, <2>4 DEF SyncBack
  <2>5. CASE SyncRun(t)
      BY <1>7, <2>5 DEF SyncRun
  <2>6. CASE SyncSub(t)
      BY <1>7, <2>6 DEF SyncSub
  <2>7. CASE Wait(t)
      BY <1>7, <2>7 DEF Wait
  <2>8. QED
      BY <1>7, <2>1, <2>2, <2>3, <2>4, <2>5, <2>6, <2>7, Zenon DEF SyncStep
<1>8. ASSUME NEW t \in Clients, BarrierStep(t)  PROVE History'
    BY <1>8
       DEF BarrierStep, BarrierTail, BarrierSuspended, BarrierLock,
           BarrierRun, BarrierCheck, TransferSuspended, BarrierUnlock
<1>9. ASSUME NEW t \in Clients, SlowStep(t)  PROVE History'
    BY <1>9 DEF SlowStep, SlowRun, SlowTest, SlowSpin, SlowResume, SlowUnlock
<1>10. ASSUME NEW t \in Clients, HandOverStep(t)  PROVE History'
    BY <1>10
       DEF HandOverStep, OneHead, OneTail, OneSpin, TransferSuspend,
           TransferRunning, TransferSignal
<1>11. ASSUME NEW t \in Workers, InvokeStep(t)  PROVE History'
    BY <1>11
       DEF InvokeStep, TakeQueue, InvokeSuspended, InvokeLock, InvokeLeave,
           InvokeUnlock, InvokeProbe
<1>12. ASSUME NEW t \in Workers, RedirectStep(t)  PROVE History'
  <2>1. CASE TakeRedirected(t)
      BY <2>1 DEF TakeRedirected
  <2>2. CASE RunBeside(t)
      BY <2>2 DEF RunBeside
  <2>3. CASE RedirectSub(t)
      BY <2>3 DEF RedirectSub
  <2>4. QED
      BY <1>12, <2>1, <2>2, <2>3 DEF RedirectStep
<1>13. ASSUME NEW t \in Workers, DrainStep(t)  PROVE History'
    BY <1>13
       DEF DrainStep, DrainTail, DrainHead, DrainNext, DrainLast, DrainSpin,
           DrainSuspended, DrainPop
<1>14. ASSUME NEW t \in Workers, PopStep(t)  PROVE History'
  <2>1. CASE RunItem(t)
      BY <1>14, <2>1 DEF RunItem
  <2>2. CASE GrantSuspend(t)
      BY <1>14, <2>2 DEF GrantSuspend
  <2>3. CASE GrantRunning(t)
      BY <1>14, <2>3 DEF GrantRunning
  <2>4. CASE GrantSignal(t)
    <3>1. /\ UNCHANGED <<state, kind, by>> /\ sema \in [Clients -> Nat]
          /\ sema' = [sema EXCEPT ![obj[t]] = sema[obj[t]] + 1]
        BY <1>14, <2>4 DEF GrantSignal
    <3>2. obj[t] \in Clients
        BY <1>14, <2>4 DEF GrantSignal, GrantsOK, Granting
    <3>3. sema[obj[t]] + 1 \in Nat
        BY <3>1, <3>2
    <3>4. sema' \in [Clients -> Nat]
        BY <3>1, <3>3, Zenon
    <3>5. QED
        BY <3>1, <3>4
  <2>5. CASE DrainRedirect(t)
      BY <1>14, <2>5 DEF DrainRedirect
  <2>6. QED
      BY <1>14, <2>1, <2>2, <2>3, <2>4, <2>5, Zenon
         DEF PopStep
<1>15. ASSUME NEW t \in Workers, PutBackStep(t)  PROVE History'
    BY <1>15 DEF PutBackStep, PutBackTail, PutBackSpin, PutBackHead
<1>16. QED
    BY <1>1, <1>2, <1>3, <1>4, <1>5, <1>6, <1>7, <1>8, <1>9, <1>10, <1>11,
       <1>12, <1>13, <1>14, <1>15, NextCases

\* A thread that has taken the record of a call has it alone.
LEMMA StepGrants ==
  ASSUME Shape, ItemsInv, \A t \in Threads : Finds(t), [Next]_queueVars
  PROVE  GrantsOK'
<1> USE QueueAssumption
    DEF Threads, Items, Locs, Returns, ClientLocs, WorkerLocs, ItemLocs,
        PushLocs, WakeupLocs, AsyncLocs, SyncLocs, FastLocs, SlowLocs, OneLocs,
        DrainLocs, InvokeLocs, queueVars, wordVars, lockVars, otherVars,
        outerVars, itemVars, listVars, worldVars, objectVars, rootVars,
        localVars, orderVars, Set, Goto, At, MayCall, Test, Add, TryEmpty,
        Finish, CallWakeup, Return, WakeupTest, DropRunning, DropReference,
        Pushed, Submit, Call, Enter, Run, Take, Dequeued, Pop, Proceed
<1> USE DEF Shape, Pointers, Place, ItemsInv, History, GrantsOK, WorksOK,
        CallerOK, Finds, Ripe, Waiting, Granting, Bears
<1>1. ASSUME UNCHANGED queueVars  PROVE GrantsOK'
    BY <1>1
<1>2. ASSUME Release  PROVE GrantsOK'
    BY <1>2 DEF Release
<1>3. ASSUME NEW t \in Threads, WakeupStep(t)  PROVE GrantsOK'
    BY <1>3
       DEF WakeupStep, WakeupSuspended, WakeupTail, WakeupLock, WakeupPush,
           ReleaseInternal
<1>4. ASSUME NEW t \in Clients, CallStep(t)  PROVE GrantsOK'
  <2>1. CASE Async(t)
      BY <1>4, <2>1 DEF Async
  <2>2. CASE BarrierAsync(t)
      BY <1>4, <2>2 DEF BarrierAsync
  <2>3. CASE Sync(t)
      BY <1>4, <2>3 DEF Sync
  <2>4. CASE BarrierSync(t)
      BY <1>4, <2>4 DEF BarrierSync
  <2>5. CASE Suspend(t)
      BY <1>4, <2>5 DEF Suspend
  <2>6. CASE Resume(t)
      BY <1>4, <2>6 DEF Resume
  <2>7. QED
      BY <1>4, <2>1, <2>2, <2>3, <2>4, <2>5, <2>6, Zenon DEF CallStep
<1>5. ASSUME NEW t \in Clients, PushStep(t)  PROVE GrantsOK'
    BY <1>5 DEF PushStep, Swap, Link, SetHead
<1>6. ASSUME NEW t \in Clients, AsyncStep(t)  PROVE GrantsOK'
    BY <1>6
       DEF AsyncStep, AsyncTail, AsyncSuspended, AsyncAdd, AsyncOver,
           AsyncOdd, AsyncRedirect
<1>7. ASSUME NEW t \in Clients, SyncStep(t)  PROVE GrantsOK'
    BY <1>7
       DEF SyncStep, SyncTail, SyncSuspended, SyncAdd, SyncBack, SyncRun,
           SyncSub, Wait
<1>8. ASSUME NEW t \in Clients, BarrierStep(t)  PROVE GrantsOK'
    BY <1>8
       DEF BarrierStep, BarrierTail, BarrierSuspended, BarrierLock,
           BarrierRun, BarrierCheck, TransferSuspended, BarrierUnlock
<1>9. ASSUME NEW t \in Clients, SlowStep(t)  PROVE GrantsOK'
    BY <1>9 DEF SlowStep, SlowRun, SlowTest, SlowSpin, SlowResume, SlowUnlock
<1>10. ASSUME NEW t \in Clients, HandOverStep(t)  PROVE GrantsOK'
    BY <1>10
       DEF HandOverStep, OneHead, OneTail, OneSpin, TransferSuspend,
           TransferRunning, TransferSignal
<1>11. ASSUME NEW t \in Workers, InvokeStep(t)  PROVE GrantsOK'
    BY <1>11
       DEF InvokeStep, TakeQueue, InvokeSuspended, InvokeLock, InvokeLeave,
           InvokeUnlock, InvokeProbe
<1>12. ASSUME NEW t \in Workers, RedirectStep(t)  PROVE GrantsOK'
    BY <1>12 DEF RedirectStep, TakeRedirected, RunBeside, RedirectSub
<1>13. ASSUME NEW t \in Workers, DrainStep(t)  PROVE GrantsOK'
    BY <1>13
       DEF DrainStep, DrainTail, DrainHead, DrainNext, DrainLast, DrainSpin,
           DrainSuspended, DrainPop
<1>14. ASSUME NEW t \in Workers, PopStep(t)  PROVE GrantsOK'
    BY <1>14
       DEF PopStep, RunItem, GrantSuspend, GrantRunning, GrantSignal,
           DrainRedirect
<1>15. ASSUME NEW t \in Workers, PutBackStep(t)  PROVE GrantsOK'
    BY <1>15 DEF PutBackStep, PutBackTail, PutBackSpin, PutBackHead
<1>16. QED
    BY <1>1, <1>2, <1>3, <1>4, <1>5, <1>6, <1>7, <1>8, <1>9, <1>10, <1>11,
       <1>12, <1>13, <1>14, <1>15, NextCases

\* A continuation that was taken is with one thread, or redirected.
LEMMA StepWorks ==
  ASSUME Shape, ItemsInv, \A t \in Threads : Finds(t), [Next]_queueVars
  PROVE  WorksOK'
<1> USE QueueAssumption
    DEF Threads, Items, Locs, Returns, ClientLocs, WorkerLocs, ItemLocs,
        PushLocs, WakeupLocs, AsyncLocs, SyncLocs, FastLocs, SlowLocs, OneLocs,
        DrainLocs, InvokeLocs, queueVars, wordVars, lockVars, otherVars,
        outerVars, itemVars, listVars, worldVars, objectVars, rootVars,
        localVars, orderVars, Set, Goto, At, MayCall, Test, Add, TryEmpty,
        Finish, CallWakeup, Return, WakeupTest, DropRunning, DropReference,
        Pushed, Submit, Call, Enter, Run, Take, Dequeued, Pop, Proceed
<1> USE DEF Shape, Pointers, Place, ItemsInv, History, GrantsOK, WorksOK,
        CallerOK, Finds, Ripe, Waiting, Granting, Bears
<1>1. ASSUME UNCHANGED queueVars  PROVE WorksOK'
    BY <1>1
<1>2. ASSUME Release  PROVE WorksOK'
    BY <1>2 DEF Release
<1>3. ASSUME NEW t \in Threads, WakeupStep(t)  PROVE WorksOK'
    BY <1>3
       DEF WakeupStep, WakeupSuspended, WakeupTail, WakeupLock, WakeupPush,
           ReleaseInternal
<1>4. ASSUME NEW t \in Clients, CallStep(t)  PROVE WorksOK'
  <2>1. CASE Async(t)
      <3>1. PICK w \in Works, k \in {"async", "barrier"} :
              /\ by[w] = NULL /\ kind' = [kind EXCEPT ![w] = k]
              /\ obj' = [obj EXCEPT ![t] = w] /\ by' = [by EXCEPT ![w] = t]
          BY <2>1 DEF Async
      <3>2. /\ pc'[t] \in {"swap", "atail"} /\ t \notin Workers
            /\ \A u \in Threads : u # t => pc'[u] = pc[u] /\ obj'[u] = obj[u]
            /\ UNCHANGED <<state, redirected>>
          BY <2>1 DEF Async
      <3>3. state[w] = "free" /\ w \notin redirected
            /\ \A u \in Threads : Bears(u) => obj[u] # w
          BY <3>1
      <3>4. /\ \A v \in Works : kind'[v] = IF v = w THEN k ELSE kind[v]
            /\ \A v \in Works : by'[v] = NULL => by[v] = NULL
          BY <3>1
      <3>5. \A u \in Threads : Bears(u)' =>
                u # t /\ Bears(u) /\ obj'[u] = obj[u]
          BY <3>2
      <3>6. QED  BY <3>2, <3>3, <3>4, <3>5
  <2>2. CASE BarrierAsync(t)
      <3>1. PICK w \in Works, k \in {"async", "barrier"} :
              /\ by[w] = NULL /\ kind' = [kind EXCEPT ![w] = k]
              /\ obj' = [obj EXCEPT ![t] = w] /\ by' = [by EXCEPT ![w] = t]
          BY <2>2 DEF BarrierAsync
      <3>2. /\ pc'[t] \in {"swap", "atail"} /\ t \notin Workers
            /\ \A u \in Threads : u # t => pc'[u] = pc[u] /\ obj'[u] = obj[u]
            /\ UNCHANGED <<state, redirected>>
          BY <2>2 DEF BarrierAsync
      <3>3. state[w] = "free" /\ w \notin redirected
            /\ \A u \in Threads : Bears(u) => obj[u] # w
          BY <3>1
      <3>4. /\ \A v \in Works : kind'[v] = IF v = w THEN k ELSE kind[v]
            /\ \A v \in Works : by'[v] = NULL => by[v] = NULL
          BY <3>1
      <3>5. \A u \in Threads : Bears(u)' =>
                u # t /\ Bears(u) /\ obj'[u] = obj[u]
          BY <3>2
      <3>6. QED  BY <3>2, <3>3, <3>4, <3>5
  <2>3. CASE Sync(t)
      BY <2>3 DEF Sync
  <2>4. CASE BarrierSync(t)
      BY <2>4 DEF BarrierSync
  <2>5. CASE Suspend(t)
      BY <2>5 DEF Suspend
  <2>6. CASE Resume(t)
      BY <2>6 DEF Resume
  <2>7. QED
      BY <1>4, <2>1, <2>2, <2>3, <2>4, <2>5, <2>6 DEF CallStep
<1>5. ASSUME NEW t \in Clients, PushStep(t)  PROVE WorksOK'
  <2>1. CASE Swap(t)
      BY <2>1 DEF Swap
  <2>2. CASE Link(t)
      BY <2>2 DEF Link
  <2>3. CASE SetHead(t)
      BY <2>3 DEF SetHead
  <2>4. QED
      BY <1>5, <2>1, <2>2, <2>3 DEF PushStep
<1>6. ASSUME NEW t \in Clients, AsyncStep(t)  PROVE WorksOK'
  <2>1. CASE AsyncTail(t)
      BY <1>6, <2>1 DEF AsyncTail
  <2>2. CASE AsyncSuspended(t)
      BY <1>6, <2>2 DEF AsyncSuspended
  <2>3. CASE AsyncAdd(t)
      BY <1>6, <2>3 DEF AsyncAdd
  <2>4. CASE AsyncOver(t)
      BY <1>6, <2>4 DEF AsyncOver
  <2>5. CASE AsyncOdd(t)
      BY <1>6, <2>5 DEF AsyncOdd
  <2>6. CASE AsyncRedirect(t)
      BY <1>6, <2>6 DEF AsyncRedirect
  <2>7. QED
      BY <1>6, <2>1, <2>2, <2>3, <2>4, <2>5, <2>6, Zenon DEF AsyncStep
<1>7. ASSUME NEW t \in Clients, SyncStep(t)  PROVE WorksOK'
    BY <1>7
       DEF SyncStep, SyncTail, SyncSuspended, SyncAdd, SyncBack, SyncRun,
           SyncSub, Wait
<1>8. ASSUME NEW t \in Clients, BarrierStep(t)  PROVE WorksOK'
    BY <1>8
       DEF BarrierStep, BarrierTail, BarrierSuspended, BarrierLock,
           BarrierRun, BarrierCheck, TransferSuspended, BarrierUnlock
<1>9. ASSUME NEW t \in Clients, SlowStep(t)  PROVE WorksOK'
    BY <1>9 DEF SlowStep, SlowRun, SlowTest, SlowSpin, SlowResume, SlowUnlock
<1>10. ASSUME NEW t \in Clients, HandOverStep(t)  PROVE WorksOK'
  <2>1. CASE OneHead(t)
    <3>1. CASE head # NULL /\ kind[head] = "barriersync"
        BY <1>10, <2>1, <3>1, SMTT(30) DEF OneHead
    <3>2. CASE ~(head # NULL /\ kind[head] = "barriersync")
        BY <1>10, <2>1, <3>2, SMTT(30) DEF OneHead
    <3>3. QED
        BY <3>1, <3>2
  <2>2. CASE OneTail(t)
      BY <1>10, <2>2 DEF OneTail
  <2>3. CASE OneSpin(t)
      BY <1>10, <2>3 DEF OneSpin
  <2>4. CASE TransferSuspend(t)
      BY <1>10, <2>4 DEF TransferSuspend
  <2>5. CASE TransferRunning(t)
      BY <1>10, <2>5 DEF TransferRunning
  <2>6. CASE TransferSignal(t)
      BY <1>10, <2>6 DEF TransferSignal
  <2>7. QED
      BY <1>10, <2>1, <2>2, <2>3, <2>4, <2>5, <2>6, Zenon DEF HandOverStep
<1>11. ASSUME NEW t \in Workers, InvokeStep(t)  PROVE WorksOK'
    BY <1>11
       DEF InvokeStep, TakeQueue, InvokeSuspended, InvokeLock, InvokeLeave,
           InvokeUnlock, InvokeProbe
<1>12. ASSUME NEW t \in Workers, RedirectStep(t)  PROVE WorksOK'
  <2>1. CASE TakeRedirected(t)
      BY <2>1 DEF TakeRedirected
  <2>2. CASE RunBeside(t)
      BY <2>2 DEF RunBeside
  <2>3. CASE RedirectSub(t)
      BY <2>3 DEF RedirectSub
  <2>4. QED
      BY <1>12, <2>1, <2>2, <2>3 DEF RedirectStep
<1>13. ASSUME NEW t \in Workers, DrainStep(t)  PROVE WorksOK'
  <2>1. CASE DrainTail(t)
      BY <2>1 DEF DrainTail
  <2>2. CASE DrainHead(t)
      BY <2>2 DEF DrainHead
  <2>3. CASE DrainNext(t)
      BY <2>3 DEF DrainNext
  <2>4. CASE DrainLast(t)
      BY <2>4 DEF DrainLast
  <2>5. CASE DrainSpin(t)
      BY <2>5 DEF DrainSpin
  <2>6. CASE DrainSuspended(t)
      BY <2>6 DEF DrainSuspended
  <2>7. CASE DrainPop(t)
      BY <2>7 DEF DrainPop
  <2>8. QED
      BY <1>13, <2>1, <2>2, <2>3, <2>4, <2>5, <2>6, <2>7 DEF DrainStep
<1>14. ASSUME NEW t \in Workers, PopStep(t)  PROVE WorksOK'
  <2>1. CASE RunItem(t)
      BY <1>14, <2>1 DEF RunItem
  <2>2. CASE GrantSuspend(t)
      BY <1>14, <2>2 DEF GrantSuspend
  <2>3. CASE GrantRunning(t)
      BY <1>14, <2>3 DEF GrantRunning
  <2>4. CASE GrantSignal(t)
      BY <1>14, <2>4 DEF GrantSignal
  <2>5. CASE DrainRedirect(t)
      BY <1>14, <2>5 DEF DrainRedirect
  <2>6. QED
      BY <1>14, <2>1, <2>2, <2>3, <2>4, <2>5, Zenon DEF PopStep
<1>15. ASSUME NEW t \in Workers, PutBackStep(t)  PROVE WorksOK'
    BY <1>15 DEF PutBackStep, PutBackTail, PutBackSpin, PutBackHead
<1>16. QED
    BY <1>1, <1>2, <1>3, <1>4, <1>5, <1>6, <1>7, <1>8, <1>9, <1>10, <1>11,
       <1>12, <1>13, <1>14, <1>15, NextCases

\* A caller is where the state of its record says.
LEMMA StepCaller ==
  ASSUME Shape, ItemsInv, \A t \in Threads : Finds(t), NEW c \in Clients,
         [Next]_queueVars
  PROVE  CallerOK(c)'
<1> USE QueueAssumption
    DEF Threads, Items, Locs, Returns, ClientLocs, WorkerLocs, ItemLocs,
        PushLocs, WakeupLocs, AsyncLocs, SyncLocs, FastLocs, SlowLocs, OneLocs,
        DrainLocs, InvokeLocs, queueVars, wordVars, lockVars, otherVars,
        outerVars, itemVars, listVars, worldVars, objectVars, rootVars,
        localVars, orderVars, Set, Goto, At, MayCall, Test, Add, TryEmpty,
        Finish, CallWakeup, Return, WakeupTest, DropRunning, DropReference,
        Pushed, Submit, Call, Enter, Run, Take, Dequeued, Pop, Proceed
<1> USE DEF Shape, Pointers, Place, ItemsInv, History, GrantsOK, WorksOK,
        CallerOK, Finds, Ripe, Waiting, Granting, Bears
<1>1. ASSUME UNCHANGED queueVars  PROVE CallerOK(c)'
    BY <1>1
<1>2. ASSUME Release  PROVE CallerOK(c)'
    BY <1>2 DEF Release
<1>3. ASSUME NEW t \in Threads, WakeupStep(t)  PROVE CallerOK(c)'
    BY <1>3
       DEF WakeupStep, WakeupSuspended, WakeupTail, WakeupLock, WakeupPush,
           ReleaseInternal
<1>4. ASSUME NEW t \in Clients, CallStep(t)  PROVE CallerOK(c)'
    BY <1>4
       DEF CallStep, Async, BarrierAsync, Sync, BarrierSync, Suspend, Resume
<1>5. ASSUME NEW t \in Clients, PushStep(t)  PROVE CallerOK(c)'
    BY <1>5 DEF PushStep, Swap, Link, SetHead
<1>6. ASSUME NEW t \in Clients, AsyncStep(t)  PROVE CallerOK(c)'
    BY <1>6
       DEF AsyncStep, AsyncTail, AsyncSuspended, AsyncAdd, AsyncOver,
           AsyncOdd, AsyncRedirect
<1>7. ASSUME NEW t \in Clients, SyncStep(t)  PROVE CallerOK(c)'
    BY <1>7
       DEF SyncStep, SyncTail, SyncSuspended, SyncAdd, SyncBack, SyncRun,
           SyncSub, Wait
<1>8. ASSUME NEW t \in Clients, BarrierStep(t)  PROVE CallerOK(c)'
    BY <1>8
       DEF BarrierStep, BarrierTail, BarrierSuspended, BarrierLock,
           BarrierRun, BarrierCheck, TransferSuspended, BarrierUnlock
<1>9. ASSUME NEW t \in Clients, SlowStep(t)  PROVE CallerOK(c)'
    BY <1>9 DEF SlowStep, SlowRun, SlowTest, SlowSpin, SlowResume, SlowUnlock
<1>10. ASSUME NEW t \in Clients, HandOverStep(t)  PROVE CallerOK(c)'
    BY <1>10
       DEF HandOverStep, OneHead, OneTail, OneSpin, TransferSuspend,
           TransferRunning, TransferSignal
<1>11. ASSUME NEW t \in Workers, InvokeStep(t)  PROVE CallerOK(c)'
    BY <1>11
       DEF InvokeStep, TakeQueue, InvokeSuspended, InvokeLock, InvokeLeave,
           InvokeUnlock, InvokeProbe
<1>12. ASSUME NEW t \in Workers, RedirectStep(t)  PROVE CallerOK(c)'
    BY <1>12 DEF RedirectStep, TakeRedirected, RunBeside, RedirectSub
<1>13. ASSUME NEW t \in Workers, DrainStep(t)  PROVE CallerOK(c)'
  <2>1. CASE DrainTail(t)
      BY <2>1 DEF DrainTail
  <2>2. CASE DrainHead(t)
      BY <2>2 DEF DrainHead
  <2>3. CASE DrainNext(t)
      BY <2>3 DEF DrainNext
  <2>4. CASE DrainLast(t)
      BY <2>4 DEF DrainLast
  <2>5. CASE DrainSpin(t)
      BY <2>5 DEF DrainSpin
  <2>6. CASE DrainSuspended(t)
      BY <2>6 DEF DrainSuspended
  <2>7. CASE DrainPop(t)
      BY <2>7 DEF DrainPop
  <2>8. QED
      BY <1>13, <2>1, <2>2, <2>3, <2>4, <2>5, <2>6, <2>7 DEF DrainStep
<1>14. ASSUME NEW t \in Workers, PopStep(t)  PROVE CallerOK(c)'
    BY <1>14
       DEF PopStep, RunItem, GrantSuspend, GrantRunning, GrantSignal,
           DrainRedirect
<1>15. ASSUME NEW t \in Workers, PutBackStep(t)  PROVE CallerOK(c)'
    BY <1>15 DEF PutBackStep, PutBackTail, PutBackSpin, PutBackHead
<1>16. QED
    BY <1>1, <1>2, <1>3, <1>4, <1>5, <1>6, <1>7, <1>8, <1>9, <1>10, <1>11,
       <1>12, <1>13, <1>14, <1>15, NextCases

-----------------------------------------------------------------------------
(* The steps on dq_running                                                 *)

\* Every step moves dq_running by the shares it moves.
LEMMA StepRun ==
  ASSUME Shape, Shape', ItemsInv, RunInv, [Next]_queueVars
  PROVE  RunInv'
<1> USE QueueAssumption
    DEF Threads, Items, Locs, Returns, ClientLocs, WorkerLocs, ItemLocs,
        PushLocs, WakeupLocs, AsyncLocs, SyncLocs, FastLocs, SlowLocs, OneLocs,
        DrainLocs, InvokeLocs, queueVars, wordVars, lockVars, otherVars,
        outerVars, itemVars, listVars, worldVars, objectVars, rootVars,
        localVars, orderVars, Set, Goto, At, MayCall, Test, Add, TryEmpty,
        Finish, CallWakeup, Return, WakeupTest, DropRunning, DropReference,
        Pushed, Submit, Call, Enter, Run, Take, Dequeued, Pop, Proceed
<1> DEFINE Stays(t) == \A u \in Threads : u # t => pc'[u] = pc[u]
                                                  /\ ret'[u] = ret[u]
           Locking(t) == Holds(t)' /\ ~Holds(t) => running = 0
           Shifts(t) == \/ Same /\ Moved(t, 0)
                        \/ Grows /\ Moved(t, 1)
                        \/ Shrinks /\ Moved(t, -1)
<1>0. running \in Nat
    BY CountsType DEF RunInv, Single
<1>1. ASSUME NEW t \in Threads, WakeupStep(t)  PROVE RunMove(t)
  <2>1. Stays(t)
      BY <1>1
         DEF Shape, Place, Pointers, WakeupStep, WakeupSuspended, WakeupTail,
             WakeupLock, WakeupPush, ReleaseInternal
  <2>2. Locking(t)
      BY <1>1
         DEF Shape, Place, Holds, Fast, WakeupStep, WakeupSuspended,
             WakeupTail, WakeupLock, WakeupPush, ReleaseInternal
  <2>3. Shifts(t)
    <3>1. CASE WakeupSuspended(t)
        BY <3>1, <1>0
           DEF WakeupSuspended, Shape, Pointers, Place, Moved, Shares, Owner,
               One, Twos, Holds, Fast, Entered, Trying, HandsOver, Same
    <3>2. CASE WakeupTail(t)
        BY <3>2, <1>0
           DEF WakeupTail, Shape, Pointers, Place, Moved, Shares, Owner, One,
               Twos, Holds, Fast, Entered, Trying, HandsOver, Same
    <3>3. CASE WakeupLock(t)
        BY <3>3, <1>0
           DEF WakeupLock, Shape, Pointers, Place, Moved, Shares, Owner, One,
               Twos, Holds, Fast, Entered, Trying, HandsOver, Same
    <3>4. CASE WakeupPush(t)
        BY <3>4, <1>0
           DEF WakeupPush, Shape, Pointers, Place, Moved, Shares, Owner, One,
               Twos, Holds, Fast, Entered, Trying, HandsOver, Same
    <3>5. CASE ReleaseInternal(t)
        BY <3>5, <1>0
           DEF ReleaseInternal, Shape, Pointers, Place, Moved, Shares, Owner,
               One, Twos, Holds, Fast, Entered, Trying, HandsOver, Same
    <3>6. QED
        BY <1>1, <3>1, <3>2, <3>3, <3>4, <3>5 DEF WakeupStep
  <2>4. t \in Threads
      OBVIOUS
  <2>5. QED
      BY <2>1, <2>2, <2>3, Zenon DEF RunMove
<1>2. ASSUME NEW t \in Clients, CallStep(t)  PROVE RunMove(t)
  <2>1. Stays(t)
      BY <1>2
         DEF Shape, Place, Pointers, CallStep, Async, BarrierAsync, Sync,
             BarrierSync, Suspend, Resume
  <2>2. Locking(t)
      BY <1>2
         DEF Shape, Place, Holds, Fast, CallStep, Async, BarrierAsync, Sync,
             BarrierSync, Suspend, Resume
  <2>3. Shifts(t)
    <3>1. CASE Async(t)
      <4>1. /\ pc[t] = "idle" /\ pc'[t] \in {"swap", "atail"}
            /\ UNCHANGED <<running, redirected, sema>>
          BY <3>1 DEF Async, Shape
      <4>2. QED
          BY <4>1, <1>0
             DEF Shape, Pointers, Place, Moved, Shares, Owner, One, Twos,
                 Holds, Fast, Entered, Trying, HandsOver, Same
    <3>2. CASE BarrierAsync(t)
      <4>1. /\ pc[t] = "idle" /\ pc'[t] \in {"swap", "atail"}
            /\ UNCHANGED <<running, redirected, sema>>
          BY <3>2 DEF BarrierAsync, Shape
      <4>2. QED
          BY <4>1, <1>0
             DEF Shape, Pointers, Place, Moved, Shares, Owner, One, Twos,
                 Holds, Fast, Entered, Trying, HandsOver, Same
    <3>3. CASE Sync(t)
        BY <3>3, <1>0
           DEF Sync, Shape, Pointers, Place, Moved, Shares, Owner, One, Twos,
               Holds, Fast, Entered, Trying, HandsOver, Same
    <3>4. CASE BarrierSync(t)
        BY <3>4, <1>0
           DEF BarrierSync, Shape, Pointers, Place, Moved, Shares, Owner, One,
               Twos, Holds, Fast, Entered, Trying, HandsOver, Same
    <3>5. CASE Suspend(t)
        BY <3>5, <1>0
           DEF Suspend, Shape, Pointers, Place, Moved, Shares, Owner, One,
               Twos, Holds, Fast, Entered, Trying, HandsOver, Same
    <3>6. CASE Resume(t)
        BY <3>6, <1>0
           DEF Resume, Shape, Pointers, Place, Moved, Shares, Owner, One,
               Twos, Holds, Fast, Entered, Trying, HandsOver, Same
    <3>7. QED
        BY <1>2, <3>1, <3>2, <3>3, <3>4, <3>5, <3>6 DEF CallStep
  <2>4. t \in Threads
      OBVIOUS
  <2>5. QED
      BY <2>1, <2>2, <2>3, Zenon DEF RunMove
<1>3. ASSUME NEW t \in Clients, PushStep(t)  PROVE RunMove(t)
  <2>1. Stays(t)
      BY <1>3 DEF Shape, Place, Pointers, PushStep, Swap, Link, SetHead
  <2>2. Locking(t)
      BY <1>3 DEF Shape, Place, Holds, Fast, PushStep, Swap, Link, SetHead
  <2>3. Same /\ Moved(t, 0)
      BY <1>3, <1>0
         DEF PushStep, Swap, Link, SetHead, Shape, Pointers, Place, Moved,
             Shares, Owner, One, Twos, Holds, Fast, Entered, Trying,
             HandsOver, Same
  <2>4. t \in Threads
      OBVIOUS
  <2>5. QED
      BY <2>1, <2>2, <2>3, Zenon DEF RunMove
<1>4. ASSUME NEW t \in Clients, AsyncStep(t)  PROVE RunMove(t)
  <2>1. Stays(t)
      BY <1>4
         DEF Shape, Place, Pointers, AsyncStep, AsyncTail, AsyncSuspended,
             AsyncAdd, AsyncOver, AsyncOdd, AsyncRedirect
  <2>2. Locking(t)
      BY <1>4
         DEF Shape, Place, Holds, Fast, AsyncStep, AsyncTail, AsyncSuspended,
             AsyncAdd, AsyncOver, AsyncOdd, AsyncRedirect
  <2>3. Shifts(t)
    <3>1. CASE AsyncTail(t)
        BY <3>1, <1>0
           DEF AsyncTail, Shape, Pointers, Place, Moved, Shares, Owner, One,
               Twos, Holds, Fast, Entered, Trying, HandsOver, Same
    <3>2. CASE AsyncSuspended(t)
        BY <3>2, <1>0
           DEF AsyncSuspended, Shape, Pointers, Place, Moved, Shares, Owner,
               One, Twos, Holds, Fast, Entered, Trying, HandsOver, Same
    <3>3. CASE AsyncAdd(t)
        BY <3>3, <1>0
           DEF AsyncAdd, Shape, Pointers, Place, Moved, Shares, Owner, One,
               Twos, Holds, Fast, Entered, Trying, HandsOver, Same
    <3>4. CASE AsyncOver(t)
        BY <3>4, <1>0
           DEF AsyncOver, Shape, Pointers, Place, Moved, Shares, Owner, One,
               Twos, Holds, Fast, Entered, Trying, HandsOver, Same
    <3>5. CASE AsyncOdd(t)
        BY <3>5, <1>0
           DEF AsyncOdd, Shape, Pointers, Place, Moved, Shares, Owner, One,
               Twos, Holds, Fast, Entered, Trying, HandsOver, Same
    <3>6. CASE AsyncRedirect(t)
      <4>1. Moved(t, 1)
          BY <3>6, <1>0
             DEF AsyncRedirect, Shape, Pointers, Place, Moved, Shares, Owner,
                 One, Twos, Holds, Fast, Entered, Trying, HandsOver
      <4>2. obj[t] \in Works
          BY <3>6 DEF AsyncRedirect, Shape, Place
      <4>3. Sends(obj[t])
          BY <3>6, <4>2 DEF AsyncRedirect, Sends, ItemsInv, WorksOK, Bears
      <4>4. QED
          BY <4>1, <4>2, <4>3 DEF Grows
    <3>7. QED
        BY <1>4, <3>1, <3>2, <3>3, <3>4, <3>5, <3>6 DEF AsyncStep
  <2>4. t \in Threads
      OBVIOUS
  <2>5. QED
      BY <2>1, <2>2, <2>3, Zenon DEF RunMove
<1>5. ASSUME NEW t \in Clients, SyncStep(t)  PROVE RunMove(t)
  <2>1. Stays(t)
      BY <1>5
         DEF Shape, Place, Pointers, SyncStep, SyncTail, SyncSuspended,
             SyncAdd, SyncBack, SyncRun, SyncSub, Wait
  <2>2. Locking(t)
      BY <1>5
         DEF Shape, Place, Holds, Fast, SyncStep, SyncTail, SyncSuspended,
             SyncAdd, SyncBack, SyncRun, SyncSub, Wait
  <2>3. Shifts(t)
    <3>1. CASE SyncTail(t)
        BY <3>1, <1>0
           DEF SyncTail, Shape, Pointers, Place, Moved, Shares, Owner, One,
               Twos, Holds, Fast, Entered, Trying, HandsOver, Same
    <3>2. CASE SyncSuspended(t)
        BY <3>2, <1>0
           DEF SyncSuspended, Shape, Pointers, Place, Moved, Shares, Owner,
               One, Twos, Holds, Fast, Entered, Trying, HandsOver, Same
    <3>3. CASE SyncAdd(t)
        BY <3>3, <1>0
           DEF SyncAdd, Shape, Pointers, Place, Moved, Shares, Owner, One,
               Twos, Holds, Fast, Entered, Trying, HandsOver, Same
    <3>4. CASE SyncBack(t)
        BY <3>4, <1>0
           DEF SyncBack, Shape, Pointers, Place, Moved, Shares, Owner, One,
               Twos, Holds, Fast, Entered, Trying, HandsOver, Same
    <3>5. CASE SyncRun(t)
        BY <3>5, <1>0
           DEF SyncRun, Shape, Pointers, Place, Moved, Shares, Owner, One,
               Twos, Holds, Fast, Entered, Trying, HandsOver, Same
    <3>6. CASE SyncSub(t)
        BY <3>6, <1>0
           DEF SyncSub, Shape, Pointers, Place, Moved, Shares, Owner, One,
               Twos, Holds, Fast, Entered, Trying, HandsOver, Same
    <3>7. CASE Wait(t)
      <4>1. Moved(t, -1)
          BY <3>7, <1>0
             DEF Wait, Shape, Pointers, Place, Moved, Shares, Owner, One,
                 Twos, Holds, Fast, Entered, Trying, HandsOver
      <4>2. sema[t] = 1
          BY <3>7 DEF Wait, ItemsInv, CallerOK
      <4>3. Hears(t)
          BY <3>7, <4>2 DEF Wait, Hears, ItemsInv, History
      <4>4. QED
          BY <4>1, <4>2, <4>3 DEF Shrinks
    <3>8. QED
        BY <1>5, <3>1, <3>2, <3>3, <3>4, <3>5, <3>6, <3>7 DEF SyncStep
  <2>4. t \in Threads
      OBVIOUS
  <2>5. QED
      BY <2>1, <2>2, <2>3, Zenon DEF RunMove
<1>6. ASSUME NEW t \in Clients, BarrierStep(t)  PROVE RunMove(t)
  <2>1. Stays(t)
      BY <1>6
         DEF Shape, Place, Pointers, BarrierStep, BarrierTail,
             BarrierSuspended, BarrierLock, BarrierRun, BarrierCheck,
             TransferSuspended, BarrierUnlock
  <2>2. Locking(t)
      BY <1>6
         DEF Shape, Place, Holds, Fast, BarrierStep, BarrierTail,
             BarrierSuspended, BarrierLock, BarrierRun, BarrierCheck,
             TransferSuspended, BarrierUnlock
  <2>3. Shifts(t)
    <3>1. CASE BarrierTail(t)
        BY <3>1, <1>0
           DEF BarrierTail, Shape, Pointers, Place, Moved, Shares, Owner, One,
               Twos, Holds, Fast, Entered, Trying, HandsOver, Same
    <3>2. CASE BarrierSuspended(t)
        BY <3>2, <1>0
           DEF BarrierSuspended, Shape, Pointers, Place, Moved, Shares, Owner,
               One, Twos, Holds, Fast, Entered, Trying, HandsOver, Same
    <3>3. CASE BarrierLock(t)
        BY <3>3, <1>0
           DEF BarrierLock, Shape, Pointers, Place, Moved, Shares, Owner, One,
               Twos, Holds, Fast, Entered, Trying, HandsOver, Same
    <3>4. CASE BarrierRun(t)
        BY <3>4, <1>0
           DEF BarrierRun, Shape, Pointers, Place, Moved, Shares, Owner, One,
               Twos, Holds, Fast, Entered, Trying, HandsOver, Same
    <3>5. CASE BarrierCheck(t)
        BY <3>5, <1>0
           DEF BarrierCheck, Shape, Pointers, Place, Moved, Shares, Owner,
               One, Twos, Holds, Fast, Entered, Trying, HandsOver, Same
    <3>6. CASE TransferSuspended(t)
        BY <3>6, <1>0
           DEF TransferSuspended, Shape, Pointers, Place, Moved, Shares,
               Owner, One, Twos, Holds, Fast, Entered, Trying, HandsOver, Same
    <3>7. CASE BarrierUnlock(t)
        BY <3>7, <1>0
           DEF BarrierUnlock, Shape, Pointers, Place, Moved, Shares, Owner,
               One, Twos, Holds, Fast, Entered, Trying, HandsOver, Same
    <3>8. QED
        BY <1>6, <3>1, <3>2, <3>3, <3>4, <3>5, <3>6, <3>7 DEF BarrierStep
  <2>4. t \in Threads
      OBVIOUS
  <2>5. QED
      BY <2>1, <2>2, <2>3, Zenon DEF RunMove
<1>7. ASSUME NEW t \in Clients, SlowStep(t)  PROVE RunMove(t)
  <2>1. Stays(t)
      BY <1>7
         DEF Shape, Place, Pointers, SlowStep, SlowRun, SlowTest, SlowSpin,
             SlowResume, SlowUnlock
  <2>2. Locking(t)
      BY <1>7
         DEF Shape, Place, Holds, Fast, SlowStep, SlowRun, SlowTest, SlowSpin,
             SlowResume, SlowUnlock
  <2>3. Shifts(t)
    <3>1. CASE SlowRun(t)
        BY <3>1, <1>0
           DEF SlowRun, Shape, Pointers, Place, Moved, Shares, Owner, One,
               Twos, Holds, Fast, Entered, Trying, HandsOver, Same
    <3>2. CASE SlowTest(t)
        BY <3>2, <1>0
           DEF SlowTest, Shape, Pointers, Place, Moved, Shares, Owner, One,
               Twos, Holds, Fast, Entered, Trying, HandsOver, Same
    <3>3. CASE SlowSpin(t)
        BY <3>3, <1>0
           DEF SlowSpin, Shape, Pointers, Place, Moved, Shares, Owner, One,
               Twos, Holds, Fast, Entered, Trying, HandsOver, Same
    <3>4. CASE SlowResume(t)
        BY <3>4, <1>0
           DEF SlowResume, Shape, Pointers, Place, Moved, Shares, Owner, One,
               Twos, Holds, Fast, Entered, Trying, HandsOver, Same
    <3>5. CASE SlowUnlock(t)
        BY <3>5, <1>0
           DEF SlowUnlock, Shape, Pointers, Place, Moved, Shares, Owner, One,
               Twos, Holds, Fast, Entered, Trying, HandsOver, Same
    <3>6. QED
        BY <1>7, <3>1, <3>2, <3>3, <3>4, <3>5 DEF SlowStep
  <2>4. t \in Threads
      OBVIOUS
  <2>5. QED
      BY <2>1, <2>2, <2>3, Zenon DEF RunMove
<1>8. ASSUME NEW t \in Clients, HandOverStep(t)  PROVE RunMove(t)
  <2>1. Stays(t)
      BY <1>8
         DEF Shape, Place, Pointers, HandOverStep, OneHead, OneTail, OneSpin,
             TransferSuspend, TransferRunning, TransferSignal
  <2>2. Locking(t)
      BY <1>8
         DEF Shape, Place, Holds, Fast, HandOverStep, OneHead, OneTail,
             OneSpin, TransferSuspend, TransferRunning, TransferSignal
  <2>3. Shifts(t)
    <3>1. CASE OneHead(t)
        BY <3>1, <1>0
           DEF OneHead, Shape, Pointers, Place, Moved, Shares, Owner, One,
               Twos, Holds, Fast, Entered, Trying, HandsOver, Same
    <3>2. CASE OneTail(t)
        BY <3>2, <1>0
           DEF OneTail, Shape, Pointers, Place, Moved, Shares, Owner, One,
               Twos, Holds, Fast, Entered, Trying, HandsOver, Same
    <3>3. CASE OneSpin(t)
        BY <3>3, <1>0
           DEF OneSpin, Shape, Pointers, Place, Moved, Shares, Owner, One,
               Twos, Holds, Fast, Entered, Trying, HandsOver, Same
    <3>4. CASE TransferSuspend(t)
        BY <3>4, <1>0
           DEF TransferSuspend, Shape, Pointers, Place, Moved, Shares, Owner,
               One, Twos, Holds, Fast, Entered, Trying, HandsOver, Same
    <3>5. CASE TransferRunning(t)
        BY <3>5, <1>0
           DEF TransferRunning, Shape, Pointers, Place, Moved, Shares, Owner,
               One, Twos, Holds, Fast, Entered, Trying, HandsOver, Same
    <3>6. CASE TransferSignal(t)
      <4>1. Moved(t, 1)
          BY <3>6, <1>0
             DEF TransferSignal, Shape, Pointers, Place, Moved, Shares, Owner,
                 One, Twos, Holds, Fast, Entered, Trying, HandsOver
      <4>2. obj[t] \in Clients /\ sema[obj[t]] = 0
          BY <3>6
             DEF TransferSignal, ItemsInv, GrantsOK, Granting, Shape, Place,
                 Pointers
      <4>3. Tells(obj[t])
          BY <3>6, <4>2 DEF TransferSignal, Tells, ItemsInv, History
      <4>4. QED
          BY <4>1, <4>2, <4>3 DEF Grows
    <3>7. QED
        BY <1>8, <3>1, <3>2, <3>3, <3>4, <3>5, <3>6 DEF HandOverStep
  <2>4. t \in Threads
      OBVIOUS
  <2>5. QED
      BY <2>1, <2>2, <2>3, Zenon DEF RunMove
<1>9. ASSUME NEW t \in Workers, InvokeStep(t)  PROVE RunMove(t)
  <2>1. Stays(t)
      BY <1>9
         DEF Shape, Place, Pointers, InvokeStep, TakeQueue, InvokeSuspended,
             InvokeLock, InvokeLeave, InvokeUnlock, InvokeProbe
  <2>2. Locking(t)
      BY <1>9
         DEF Shape, Place, Holds, Fast, InvokeStep, TakeQueue,
             InvokeSuspended, InvokeLock, InvokeLeave, InvokeUnlock,
             InvokeProbe
  <2>3. Same /\ Moved(t, 0)
    <3>1. CASE TakeQueue(t)
        BY <1>9, <1>0, <3>1
           DEF TakeQueue, Shape, Pointers, Place, Moved, Shares, Owner, One,
               Twos, Holds, Fast, Entered, Trying, HandsOver, Same
    <3>2. CASE InvokeSuspended(t)
        BY <1>9, <1>0, <3>2
           DEF InvokeSuspended, Shape, Pointers, Place, Moved, Shares, Owner,
               One, Twos, Holds, Fast, Entered, Trying, HandsOver, Same
    <3>3. CASE InvokeLock(t)
        BY <1>9, <1>0, <3>3
           DEF InvokeLock, Shape, Pointers, Place, Moved, Shares, Owner, One,
               Twos, Holds, Fast, Entered, Trying, HandsOver, Same
    <3>4. CASE InvokeLeave(t)
        BY <1>9, <1>0, <3>4
           DEF InvokeLeave, Shape, Pointers, Place, Moved, Shares, Owner, One,
               Twos, Holds, Fast, Entered, Trying, HandsOver, Same
    <3>5. CASE InvokeUnlock(t)
        BY <1>9, <1>0, <3>5
           DEF InvokeUnlock, Shape, Pointers, Place, Moved, Shares, Owner, One,
               Twos, Holds, Fast, Entered, Trying, HandsOver, Same
    <3>6. CASE InvokeProbe(t)
        BY <1>9, <1>0, <3>6
           DEF InvokeProbe, Shape, Pointers, Place, Moved, Shares, Owner, One,
               Twos, Holds, Fast, Entered, Trying, HandsOver, Same
    <3>7. QED
        BY <1>9, <3>1, <3>2, <3>3, <3>4, <3>5, <3>6, Zenon DEF InvokeStep
  <2>4. t \in Threads
      OBVIOUS
  <2>5. QED
      BY <2>1, <2>2, <2>3, Zenon DEF RunMove
<1>10. ASSUME NEW t \in Workers, RedirectStep(t)  PROVE RunMove(t)
  <2>1. Stays(t)
      BY <1>10
         DEF Shape, Place, Pointers, RedirectStep, TakeRedirected, RunBeside,
             RedirectSub
  <2>2. Locking(t)
      BY <1>10
         DEF Shape, Place, Holds, Fast, RedirectStep, TakeRedirected,
             RunBeside, RedirectSub
  <2>3. Shifts(t)
    <3>1. CASE TakeRedirected(t)
      <4>1. Moved(t, -1)
          BY <3>1, <1>0
             DEF TakeRedirected, Shape, Pointers, Place, Moved, Shares, Owner,
                 One, Twos, Holds, Fast, Entered, Trying, HandsOver
      <4>2. \E w \in Works : Fetches(w)
          BY <3>1 DEF TakeRedirected, Fetches, Shape, Pointers
      <4>3. QED
          BY <4>1, <4>2 DEF Shrinks
    <3>2. CASE RunBeside(t)
        BY <3>2, <1>0
           DEF RunBeside, Shape, Pointers, Place, Moved, Shares, Owner, One,
               Twos, Holds, Fast, Entered, Trying, HandsOver, Same
    <3>3. CASE RedirectSub(t)
        BY <3>3, <1>0
           DEF RedirectSub, Shape, Pointers, Place, Moved, Shares, Owner, One,
               Twos, Holds, Fast, Entered, Trying, HandsOver, Same
    <3>4. QED
        BY <1>10, <3>1, <3>2, <3>3 DEF RedirectStep
  <2>4. t \in Threads
      OBVIOUS
  <2>5. QED
      BY <2>1, <2>2, <2>3, Zenon DEF RunMove
<1>11. ASSUME NEW t \in Workers, DrainStep(t)  PROVE RunMove(t)
  <2>1. Stays(t)
      BY <1>11
         DEF Shape, Place, Pointers, DrainStep, DrainTail, DrainHead,
             DrainNext, DrainLast, DrainSpin, DrainSuspended, DrainPop
  <2>2. Locking(t)
      BY <1>11
         DEF Shape, Place, Holds, Fast, DrainStep, DrainTail, DrainHead,
             DrainNext, DrainLast, DrainSpin, DrainSuspended, DrainPop
  <2>3. Same /\ Moved(t, 0)
      BY <1>11, <1>0
         DEF DrainStep, DrainTail, DrainHead, DrainNext, DrainLast, DrainSpin,
             DrainSuspended, DrainPop, Shape, Pointers, Place, Moved, Shares,
             Owner, One, Twos, Holds, Fast, Entered, Trying, HandsOver, Same
  <2>4. t \in Threads
      OBVIOUS
  <2>5. QED
      BY <2>1, <2>2, <2>3, Zenon DEF RunMove
<1>12. ASSUME NEW t \in Workers, PopStep(t)  PROVE RunMove(t)
  <2>1. Stays(t)
      BY <1>12
         DEF Shape, Place, Pointers, PopStep, RunItem, GrantSuspend,
             GrantRunning, GrantSignal, DrainRedirect
  <2>2. Locking(t)
      BY <1>12
         DEF Shape, Place, Holds, Fast, PopStep, RunItem, GrantSuspend,
             GrantRunning, GrantSignal, DrainRedirect
  <2>3. Shifts(t)
    <3>1. CASE RunItem(t)
        BY <3>1, <1>0
           DEF RunItem, Shape, Pointers, Place, Moved, Shares, Owner, One,
               Twos, Holds, Fast, Entered, Trying, HandsOver, Same
    <3>2. CASE GrantSuspend(t)
        BY <3>2, <1>0
           DEF GrantSuspend, Shape, Pointers, Place, Moved, Shares, Owner,
               One, Twos, Holds, Fast, Entered, Trying, HandsOver, Same
    <3>3. CASE GrantRunning(t)
        BY <3>3, <1>0
           DEF GrantRunning, Shape, Pointers, Place, Moved, Shares, Owner,
               One, Twos, Holds, Fast, Entered, Trying, HandsOver, Same
    <3>4. CASE GrantSignal(t)
      <4>1. Moved(t, 1)
          BY <3>4, <1>0
             DEF GrantSignal, Shape, Pointers, Place, Moved, Shares, Owner,
                 One, Twos, Holds, Fast, Entered, Trying, HandsOver
      <4>2. obj[t] \in Clients /\ sema[obj[t]] = 0
          BY <3>4
             DEF GrantSignal, ItemsInv, GrantsOK, Granting, Shape, Place,
                 Pointers
      <4>3. Tells(obj[t])
          BY <3>4, <4>2 DEF GrantSignal, Tells, ItemsInv, History
      <4>4. QED
          BY <4>1, <4>2, <4>3 DEF Grows
    <3>5. CASE DrainRedirect(t)
      <4>1. Moved(t, 1)
          BY <3>5, <1>0
             DEF DrainRedirect, Shape, Pointers, Place, Moved, Shares, Owner,
                 One, Twos, Holds, Fast, Entered, Trying, HandsOver
      <4>2. obj[t] \in Works
          BY <3>5 DEF DrainRedirect, Shape, Place
      <4>3. Sends(obj[t])
          BY <3>5, <4>2 DEF DrainRedirect, Sends, ItemsInv, WorksOK, Bears
      <4>4. QED
          BY <4>1, <4>2, <4>3 DEF Grows
    <3>6. QED
        BY <1>12, <3>1, <3>2, <3>3, <3>4, <3>5 DEF PopStep
  <2>4. t \in Threads
      OBVIOUS
  <2>5. QED
      BY <2>1, <2>2, <2>3, Zenon DEF RunMove
<1>13. ASSUME NEW t \in Workers, PutBackStep(t)  PROVE RunMove(t)
  <2>1. Stays(t)
      BY <1>13
         DEF Shape, Place, Pointers, PutBackStep, PutBackTail, PutBackSpin,
             PutBackHead
  <2>2. Locking(t)
      BY <1>13
         DEF Shape, Place, Holds, Fast, PutBackStep, PutBackTail, PutBackSpin,
             PutBackHead
  <2>3. Shifts(t)
    <3>1. CASE PutBackTail(t)
        BY <3>1, <1>0
           DEF PutBackTail, Shape, Pointers, Place, Moved, Shares, Owner, One,
               Twos, Holds, Fast, Entered, Trying, HandsOver, Same
    <3>2. CASE PutBackSpin(t)
        BY <3>2, <1>0
           DEF PutBackSpin, Shape, Pointers, Place, Moved, Shares, Owner, One,
               Twos, Holds, Fast, Entered, Trying, HandsOver, Same
    <3>3. CASE PutBackHead(t)
        BY <3>3, <1>0
           DEF PutBackHead, Shape, Pointers, Place, Moved, Shares, Owner, One,
               Twos, Holds, Fast, Entered, Trying, HandsOver, Same
    <3>4. QED
        BY <1>13, <3>1, <3>2, <3>3 DEF PutBackStep
  <2>4. t \in Threads
      OBVIOUS
  <2>5. QED
      BY <2>1, <2>2, <2>3, Zenon DEF RunMove
<1>14. ASSUME NEW t \in Threads, RunMove(t)  PROVE RunInv'
    BY <1>14, MoveRun
<1>15. ASSUME Release \/ UNCHANGED queueVars  PROVE RunInv'
  <2>1. UNCHANGED <<pc, ret, running, redirected, sema>>
      BY <1>15 DEF Release
  <2>2. /\ Doubles' = Doubles /\ Single' = Single
        /\ \A u \in Threads : Holds(u)' <=> Holds(u)
      BY <2>1 DEF Doubles, Single, Held, Shares, CountAt, One, Twos, Entered,
                  Trying, HandsOver, Holds, Fast
  <2>3. QED  BY <2>1, <2>2 DEF RunInv, Holds, Fast
<1>16. QED
    BY <1>1, <1>2, <1>3, <1>4, <1>5, <1>6, <1>7, <1>8, <1>9, <1>10, <1>11,
       <1>12, <1>13, <1>14, <1>15, NextCases

-----------------------------------------------------------------------------
(* Who has the queue to itself                                             *)

\* What dq_running tells of a thread.
RunSays(t) ==
    /\ Holds(t) => running % 2 = 1
    /\ HandsOver(t) => running >= 2
    /\ pc[t] = "sspin" /\ running <= 2 => \A u \in Threads : ~Holds(u)
    /\ running <= 1 => /\ ~Entered(t) /\ redirected = {}
                       /\ \A c \in Clients : sema[c] = 0

\* What dq_running tells of a thread follows from what it counts.
LEMMA RunSpeaks ==
  ASSUME ItemsInv, RunInv, NEW t \in Threads
  PROVE  RunSays(t) /\ running \in Nat
<1>1. \A c \in Clients : sema[c] = 0 \/ sema[c] = 1
    BY DEF ItemsInv, CallerOK
<1>2. HandsOver(t) => Twos(t)
    BY DEF Twos, Entered
<1>3. pc[t] = "sspin" => Twos(t)
    BY DEF Twos, Entered, SlowLocs
<1>4. Entered(t) => Twos(t)
    BY DEF Twos
<1>5. ~Held => \A u \in Threads : ~Holds(u)
    BY DEF Held
<1> HIDE DEF Held, Twos, Entered, HandsOver, Holds, RunInv
<1>6. QED
    BY <1>1, <1>2, <1>3, <1>4, <1>5, RunFacts DEF RunSays

\* Who has the queue to itself stays alone: nobody enters beside it.
LEMMA StepSoleAlone ==
  ASSUME Shape, Shape', ItemsInv, ExclInv, [Next]_queueVars,
         \A s, t \in Threads : Holds(s) /\ Holds(t) => s = t,
         \A t \in Threads : RunSays(t), running \in Nat
  PROVE  SoleAlone'
<1> USE QueueAssumption
    DEF Threads, Items, Locs, Returns, ClientLocs, WorkerLocs, ItemLocs,
        PushLocs, WakeupLocs, AsyncLocs, SyncLocs, FastLocs, SlowLocs, OneLocs,
        DrainLocs, InvokeLocs, queueVars, wordVars, lockVars, otherVars,
        outerVars, itemVars, listVars, worldVars, objectVars, rootVars,
        localVars, orderVars, Set, Goto, At, MayCall, Test, Add, TryEmpty,
        Finish, CallWakeup, Return, WakeupTest, DropRunning, DropReference,
        Pushed, Submit, Call, Enter, Run, Take, Dequeued, Pop, Proceed
<1> USE DEF Shape, Pointers, Place, ItemsInv, History, CallerOK, GrantsOK,
        Waiting, Granting, RunSays, ExclInv, SoleAlone, NoHolder, OneBarrier,
        OneTold, Sole, Told, Barrier, Entered, HandsOver, Holds, Fast
<1>1. ASSUME UNCHANGED queueVars  PROVE SoleAlone'
    BY <1>1
<1>2. ASSUME Release  PROVE SoleAlone'
    BY <1>2 DEF Release
<1>3. ASSUME NEW t \in Threads, WakeupStep(t)  PROVE SoleAlone'
    BY <1>3
       DEF WakeupStep, WakeupSuspended, WakeupTail, WakeupLock, WakeupPush,
           ReleaseInternal
<1>4. ASSUME NEW t \in Clients, CallStep(t)  PROVE SoleAlone'
    BY <1>4
       DEF CallStep, Async, BarrierAsync, Sync, BarrierSync, Suspend, Resume
<1>5. ASSUME NEW t \in Clients, PushStep(t)  PROVE SoleAlone'
    BY <1>5 DEF PushStep, Swap, Link, SetHead
<1>6. ASSUME NEW t \in Clients, AsyncStep(t)  PROVE SoleAlone'
    BY <1>6
       DEF AsyncStep, AsyncTail, AsyncSuspended, AsyncAdd, AsyncOver,
           AsyncOdd, AsyncRedirect
<1>7. ASSUME NEW t \in Clients, SyncStep(t)  PROVE SoleAlone'
    BY <1>7
       DEF SyncStep, SyncTail, SyncSuspended, SyncAdd, SyncBack, SyncRun,
           SyncSub, Wait
<1>8. ASSUME NEW t \in Clients, BarrierStep(t)  PROVE SoleAlone'
    BY <1>8
       DEF BarrierStep, BarrierTail, BarrierSuspended, BarrierLock,
           BarrierRun, BarrierCheck, TransferSuspended, BarrierUnlock
<1>9. ASSUME NEW t \in Clients, SlowStep(t)  PROVE SoleAlone'
    BY <1>9 DEF SlowStep, SlowRun, SlowTest, SlowSpin, SlowResume, SlowUnlock
<1>10. ASSUME NEW t \in Clients, HandOverStep(t)  PROVE SoleAlone'
  <2>1. CASE OneHead(t)
      BY <1>10, <2>1 DEF OneHead
  <2>2. CASE OneTail(t) \/ OneSpin(t)
      BY <1>10, <2>2 DEF OneTail, OneSpin
  <2>3. CASE TransferSuspend(t) \/ TransferRunning(t)
      BY <1>10, <2>3 DEF TransferSuspend, TransferRunning
  <2>4. CASE TransferSignal(t)
      BY <1>10, <2>4, SMTT(30) DEF TransferSignal
  <2>5. QED
      BY <1>10, <2>1, <2>2, <2>3, <2>4, Zenon DEF HandOverStep
<1>11. ASSUME NEW t \in Workers, InvokeStep(t)  PROVE SoleAlone'
    BY <1>11
       DEF InvokeStep, TakeQueue, InvokeSuspended, InvokeLock, InvokeLeave,
           InvokeUnlock, InvokeProbe
<1>12. ASSUME NEW t \in Workers, RedirectStep(t)  PROVE SoleAlone'
  <2>1. CASE TakeRedirected(t)
      BY <1>12, <2>1 DEF TakeRedirected
  <2>2. CASE RunBeside(t)
      BY <1>12, <2>2 DEF RunBeside
  <2>3. CASE RedirectSub(t)
      BY <1>12, <2>3 DEF RedirectSub
  <2>4. QED
      BY <1>12, <2>1, <2>2, <2>3, Zenon DEF RedirectStep
<1>13. ASSUME NEW t \in Workers, DrainStep(t)  PROVE SoleAlone'
    BY <1>13
       DEF DrainStep, DrainTail, DrainHead, DrainNext, DrainLast, DrainSpin,
           DrainSuspended, DrainPop
<1>14. ASSUME NEW t \in Workers, PopStep(t)  PROVE SoleAlone'
    BY <1>14
       DEF PopStep, RunItem, GrantSuspend, GrantRunning, GrantSignal,
           DrainRedirect
<1>15. ASSUME NEW t \in Workers, PutBackStep(t)  PROVE SoleAlone'
    BY <1>15 DEF PutBackStep, PutBackTail, PutBackSpin, PutBackHead
<1>16. QED
    BY <1>1, <1>2, <1>3, <1>4, <1>5, <1>6, <1>7, <1>8, <1>9, <1>10, <1>11,
       <1>12, <1>13, <1>14, <1>15, NextCases

\* Nobody holds the queue while a granted barrier hands it over.
LEMMA StepNoHolder ==
  ASSUME Shape, Shape', ItemsInv, ExclInv, [Next]_queueVars,
         \A s, t \in Threads : Holds(s) /\ Holds(t) => s = t,
         \A t \in Threads : RunSays(t), running \in Nat
  PROVE  NoHolder'
<1> USE QueueAssumption
    DEF Threads, Items, Locs, Returns, ClientLocs, WorkerLocs, ItemLocs,
        PushLocs, WakeupLocs, AsyncLocs, SyncLocs, FastLocs, SlowLocs, OneLocs,
        DrainLocs, InvokeLocs, queueVars, wordVars, lockVars, otherVars,
        outerVars, itemVars, listVars, worldVars, objectVars, rootVars,
        localVars, orderVars, Set, Goto, At, MayCall, Test, Add, TryEmpty,
        Finish, CallWakeup, Return, WakeupTest, DropRunning, DropReference,
        Pushed, Submit, Call, Enter, Run, Take, Dequeued, Pop, Proceed
<1> USE DEF Shape, Pointers, Place, ItemsInv, History, CallerOK, GrantsOK,
        Waiting, Granting, RunSays, ExclInv, SoleAlone, NoHolder, OneBarrier,
        OneTold, Sole, Told, Barrier, Entered, HandsOver, Holds, Fast
<1>1. ASSUME UNCHANGED queueVars  PROVE NoHolder'
    BY <1>1
<1>2. ASSUME Release  PROVE NoHolder'
    BY <1>2 DEF Release
<1>3. ASSUME NEW t \in Threads, WakeupStep(t)  PROVE NoHolder'
    BY <1>3
       DEF WakeupStep, WakeupSuspended, WakeupTail, WakeupLock, WakeupPush,
           ReleaseInternal
<1>4. ASSUME NEW t \in Clients, CallStep(t)  PROVE NoHolder'
    BY <1>4
       DEF CallStep, Async, BarrierAsync, Sync, BarrierSync, Suspend, Resume
<1>5. ASSUME NEW t \in Clients, PushStep(t)  PROVE NoHolder'
    BY <1>5 DEF PushStep, Swap, Link, SetHead
<1>6. ASSUME NEW t \in Clients, AsyncStep(t)  PROVE NoHolder'
    BY <1>6
       DEF AsyncStep, AsyncTail, AsyncSuspended, AsyncAdd, AsyncOver,
           AsyncOdd, AsyncRedirect
<1>7. ASSUME NEW t \in Clients, SyncStep(t)  PROVE NoHolder'
    BY <1>7
       DEF SyncStep, SyncTail, SyncSuspended, SyncAdd, SyncBack, SyncRun,
           SyncSub, Wait
<1>8. ASSUME NEW t \in Clients, BarrierStep(t)  PROVE NoHolder'
    BY <1>8
       DEF BarrierStep, BarrierTail, BarrierSuspended, BarrierLock,
           BarrierRun, BarrierCheck, TransferSuspended, BarrierUnlock
<1>9. ASSUME NEW t \in Clients, SlowStep(t)  PROVE NoHolder'
    BY <1>9 DEF SlowStep, SlowRun, SlowTest, SlowSpin, SlowResume, SlowUnlock
<1>10. ASSUME NEW t \in Clients, HandOverStep(t)  PROVE NoHolder'
  <2>1. CASE OneHead(t)
      BY <1>10, <2>1 DEF OneHead
  <2>2. CASE OneTail(t) \/ OneSpin(t)
      BY <1>10, <2>2 DEF OneTail, OneSpin
  <2>3. CASE TransferSuspend(t) \/ TransferRunning(t)
      BY <1>10, <2>3 DEF TransferSuspend, TransferRunning
  <2>4. CASE TransferSignal(t)
      BY <1>10, <2>4, SMTT(60) DEF TransferSignal
  <2>5. QED
      BY <1>10, <2>1, <2>2, <2>3, <2>4, Zenon DEF HandOverStep
<1>11. ASSUME NEW t \in Workers, InvokeStep(t)  PROVE NoHolder'
    BY <1>11
       DEF InvokeStep, TakeQueue, InvokeSuspended, InvokeLock, InvokeLeave,
           InvokeUnlock, InvokeProbe
<1>12. ASSUME NEW t \in Workers, RedirectStep(t)  PROVE NoHolder'
    BY <1>12 DEF RedirectStep, TakeRedirected, RunBeside, RedirectSub
<1>13. ASSUME NEW t \in Workers, DrainStep(t)  PROVE NoHolder'
    BY <1>13
       DEF DrainStep, DrainTail, DrainHead, DrainNext, DrainLast, DrainSpin,
           DrainSuspended, DrainPop
<1>14. ASSUME NEW t \in Workers, PopStep(t)  PROVE NoHolder'
    BY <1>14
       DEF PopStep, RunItem, GrantSuspend, GrantRunning, GrantSignal,
           DrainRedirect
<1>15. ASSUME NEW t \in Workers, PutBackStep(t)  PROVE NoHolder'
    BY <1>15 DEF PutBackStep, PutBackTail, PutBackSpin, PutBackHead
<1>16. QED
    BY <1>1, <1>2, <1>3, <1>4, <1>5, <1>6, <1>7, <1>8, <1>9, <1>10, <1>11,
       <1>12, <1>13, <1>14, <1>15, NextCases

\* One thread at a time has a granted barrier.
LEMMA StepOneBarrier ==
  ASSUME Shape, Shape', ItemsInv, ExclInv, [Next]_queueVars,
         \A s, t \in Threads : Holds(s) /\ Holds(t) => s = t,
         \A t \in Threads : RunSays(t), running \in Nat
  PROVE  OneBarrier'
<1> USE QueueAssumption
    DEF Threads, Items, Locs, Returns, ClientLocs, WorkerLocs, ItemLocs,
        PushLocs, WakeupLocs, AsyncLocs, SyncLocs, FastLocs, SlowLocs, OneLocs,
        DrainLocs, InvokeLocs, queueVars, wordVars, lockVars, otherVars,
        outerVars, itemVars, listVars, worldVars, objectVars, rootVars,
        localVars, orderVars, Set, Goto, At, MayCall, Test, Add, TryEmpty,
        Finish, CallWakeup, Return, WakeupTest, DropRunning, DropReference,
        Pushed, Submit, Call, Enter, Run, Take, Dequeued, Pop, Proceed
<1> USE DEF Shape, Pointers, Place, ItemsInv, History, CallerOK, GrantsOK,
        Waiting, Granting, RunSays, ExclInv, SoleAlone, NoHolder, OneBarrier,
        OneTold, Sole, Told, Barrier, Entered, HandsOver, Holds, Fast
<1>1. ASSUME UNCHANGED queueVars  PROVE OneBarrier'
    BY <1>1
<1>2. ASSUME Release  PROVE OneBarrier'
    BY <1>2 DEF Release
<1>3. ASSUME NEW t \in Threads, WakeupStep(t)  PROVE OneBarrier'
    BY <1>3
       DEF WakeupStep, WakeupSuspended, WakeupTail, WakeupLock, WakeupPush,
           ReleaseInternal
<1>4. ASSUME NEW t \in Clients, CallStep(t)  PROVE OneBarrier'
    BY <1>4
       DEF CallStep, Async, BarrierAsync, Sync, BarrierSync, Suspend, Resume
<1>5. ASSUME NEW t \in Clients, PushStep(t)  PROVE OneBarrier'
    BY <1>5 DEF PushStep, Swap, Link, SetHead
<1>6. ASSUME NEW t \in Clients, AsyncStep(t)  PROVE OneBarrier'
    BY <1>6
       DEF AsyncStep, AsyncTail, AsyncSuspended, AsyncAdd, AsyncOver,
           AsyncOdd, AsyncRedirect
<1>7. ASSUME NEW t \in Clients, SyncStep(t)  PROVE OneBarrier'
    BY <1>7
       DEF SyncStep, SyncTail, SyncSuspended, SyncAdd, SyncBack, SyncRun,
           SyncSub, Wait
<1>8. ASSUME NEW t \in Clients, BarrierStep(t)  PROVE OneBarrier'
    BY <1>8
       DEF BarrierStep, BarrierTail, BarrierSuspended, BarrierLock,
           BarrierRun, BarrierCheck, TransferSuspended, BarrierUnlock
<1>9. ASSUME NEW t \in Clients, SlowStep(t)  PROVE OneBarrier'
    BY <1>9 DEF SlowStep, SlowRun, SlowTest, SlowSpin, SlowResume, SlowUnlock
<1>10. ASSUME NEW t \in Clients, HandOverStep(t)  PROVE OneBarrier'
  <2>1. CASE OneHead(t)
      BY <1>10, <2>1 DEF OneHead
  <2>2. CASE OneTail(t) \/ OneSpin(t)
      BY <1>10, <2>2 DEF OneTail, OneSpin
  <2>3. CASE TransferSuspend(t) \/ TransferRunning(t)
      BY <1>10, <2>3 DEF TransferSuspend, TransferRunning
  <2>4. CASE TransferSignal(t)
      BY <1>10, <2>4, SMTT(30) DEF TransferSignal
  <2>5. QED
      BY <1>10, <2>1, <2>2, <2>3, <2>4, Zenon DEF HandOverStep
<1>11. ASSUME NEW t \in Workers, InvokeStep(t)  PROVE OneBarrier'
    BY <1>11
       DEF InvokeStep, TakeQueue, InvokeSuspended, InvokeLock, InvokeLeave,
           InvokeUnlock, InvokeProbe
<1>12. ASSUME NEW t \in Workers, RedirectStep(t)  PROVE OneBarrier'
    BY <1>12 DEF RedirectStep, TakeRedirected, RunBeside, RedirectSub
<1>13. ASSUME NEW t \in Workers, DrainStep(t)  PROVE OneBarrier'
    BY <1>13
       DEF DrainStep, DrainTail, DrainHead, DrainNext, DrainLast, DrainSpin,
           DrainSuspended, DrainPop
<1>14. ASSUME NEW t \in Workers, PopStep(t)  PROVE OneBarrier'
    BY <1>14
       DEF PopStep, RunItem, GrantSuspend, GrantRunning, GrantSignal,
           DrainRedirect
<1>15. ASSUME NEW t \in Workers, PutBackStep(t)  PROVE OneBarrier'
    BY <1>15 DEF PutBackStep, PutBackTail, PutBackSpin, PutBackHead
<1>16. QED
    BY <1>1, <1>2, <1>3, <1>4, <1>5, <1>6, <1>7, <1>8, <1>9, <1>10, <1>11,
       <1>12, <1>13, <1>14, <1>15, NextCases

\* A caller that is told to run its barrier is the only one.
LEMMA StepOneTold ==
  ASSUME Shape, Shape', ItemsInv, ExclInv, [Next]_queueVars,
         \A s, t \in Threads : Holds(s) /\ Holds(t) => s = t,
         \A t \in Threads : RunSays(t), running \in Nat
  PROVE  OneTold'
<1> USE QueueAssumption
    DEF Threads, Items, Locs, Returns, ClientLocs, WorkerLocs, ItemLocs,
        PushLocs, WakeupLocs, AsyncLocs, SyncLocs, FastLocs, SlowLocs, OneLocs,
        DrainLocs, InvokeLocs, queueVars, wordVars, lockVars, otherVars,
        outerVars, itemVars, listVars, worldVars, objectVars, rootVars,
        localVars, orderVars, Set, Goto, At, MayCall, Test, Add, TryEmpty,
        Finish, CallWakeup, Return, WakeupTest, DropRunning, DropReference,
        Pushed, Submit, Call, Enter, Run, Take, Dequeued, Pop, Proceed
<1> USE DEF Shape, Pointers, Place, ItemsInv, History, CallerOK, GrantsOK,
        Waiting, Granting, RunSays, ExclInv, SoleAlone, NoHolder, OneBarrier,
        OneTold, Sole, Told, Barrier, Entered, HandsOver, Holds, Fast
<1>1. ASSUME UNCHANGED queueVars  PROVE OneTold'
    BY <1>1
<1>2. ASSUME Release  PROVE OneTold'
    BY <1>2 DEF Release
<1>3. ASSUME NEW t \in Threads, WakeupStep(t)  PROVE OneTold'
    BY <1>3
       DEF WakeupStep, WakeupSuspended, WakeupTail, WakeupLock, WakeupPush,
           ReleaseInternal
<1>4. ASSUME NEW t \in Clients, CallStep(t)  PROVE OneTold'
    BY <1>4
       DEF CallStep, Async, BarrierAsync, Sync, BarrierSync, Suspend, Resume
<1>5. ASSUME NEW t \in Clients, PushStep(t)  PROVE OneTold'
    BY <1>5 DEF PushStep, Swap, Link, SetHead
<1>6. ASSUME NEW t \in Clients, AsyncStep(t)  PROVE OneTold'
    BY <1>6
       DEF AsyncStep, AsyncTail, AsyncSuspended, AsyncAdd, AsyncOver,
           AsyncOdd, AsyncRedirect
<1>7. ASSUME NEW t \in Clients, SyncStep(t)  PROVE OneTold'
    BY <1>7
       DEF SyncStep, SyncTail, SyncSuspended, SyncAdd, SyncBack, SyncRun,
           SyncSub, Wait
<1>8. ASSUME NEW t \in Clients, BarrierStep(t)  PROVE OneTold'
    BY <1>8
       DEF BarrierStep, BarrierTail, BarrierSuspended, BarrierLock,
           BarrierRun, BarrierCheck, TransferSuspended, BarrierUnlock
<1>9. ASSUME NEW t \in Clients, SlowStep(t)  PROVE OneTold'
    BY <1>9 DEF SlowStep, SlowRun, SlowTest, SlowSpin, SlowResume, SlowUnlock
<1>10. ASSUME NEW t \in Clients, HandOverStep(t)  PROVE OneTold'
  <2>1. CASE OneHead(t)
      BY <1>10, <2>1 DEF OneHead
  <2>2. CASE OneTail(t) \/ OneSpin(t)
      BY <1>10, <2>2 DEF OneTail, OneSpin
  <2>3. CASE TransferSuspend(t) \/ TransferRunning(t)
      BY <1>10, <2>3 DEF TransferSuspend, TransferRunning
  <2>4. CASE TransferSignal(t)
      BY <1>10, <2>4 DEF TransferSignal
  <2>5. QED
      BY <1>10, <2>1, <2>2, <2>3, <2>4, Zenon DEF HandOverStep
<1>11. ASSUME NEW t \in Workers, InvokeStep(t)  PROVE OneTold'
    BY <1>11
       DEF InvokeStep, TakeQueue, InvokeSuspended, InvokeLock, InvokeLeave,
           InvokeUnlock, InvokeProbe
<1>12. ASSUME NEW t \in Workers, RedirectStep(t)  PROVE OneTold'
    BY <1>12 DEF RedirectStep, TakeRedirected, RunBeside, RedirectSub
<1>13. ASSUME NEW t \in Workers, DrainStep(t)  PROVE OneTold'
    BY <1>13
       DEF DrainStep, DrainTail, DrainHead, DrainNext, DrainLast, DrainSpin,
           DrainSuspended, DrainPop
<1>14. ASSUME NEW t \in Workers, PopStep(t)  PROVE OneTold'
  <2>1. CASE RunItem(t)
      BY <1>14, <2>1 DEF RunItem
  <2>2. CASE GrantSuspend(t)
      BY <1>14, <2>2 DEF GrantSuspend
  <2>3. CASE GrantRunning(t)
      BY <1>14, <2>3 DEF GrantRunning
  <2>4. CASE GrantSignal(t)
      BY <1>14, <2>4 DEF GrantSignal
  <2>5. CASE DrainRedirect(t)
      BY <1>14, <2>5 DEF DrainRedirect
  <2>6. QED
      BY <1>14, <2>1, <2>2, <2>3, <2>4, <2>5, Zenon DEF PopStep
<1>15. ASSUME NEW t \in Workers, PutBackStep(t)  PROVE OneTold'
    BY <1>15 DEF PutBackStep, PutBackTail, PutBackSpin, PutBackHead
<1>16. QED
    BY <1>1, <1>2, <1>3, <1>4, <1>5, <1>6, <1>7, <1>8, <1>9, <1>10, <1>11,
       <1>12, <1>13, <1>14, <1>15, NextCases

-----------------------------------------------------------------------------
(* The invariant of the queue                                              *)

QueueInv == Shape /\ ItemsInv /\ RunInv /\ ExclInv /\ ListInv

\* A new queue is empty and in use by nobody.
LEMMA InitQueue == Init => QueueInv
<1> SUFFICES ASSUME Init  PROVE QueueInv
    OBVIOUS
<1> USE QueueAssumption
<1>1. /\ \A t \in Threads : pc[t] = "idle" /\ obj[t] = NULL /\ link[t] = NULL
                              /\ ret[t] = "idle"
      /\ \A i \in Items :
             next[i] = NULL /\ kind[i] = "none" /\ state[i] = "free"
      /\ \A c \in Clients : sema[c] = 0
      /\ \A w \in Works : by[w] = NULL
      /\ redirected = {} /\ fifo = <<>> /\ tail = NULL /\ head = NULL
      /\ running = 0 /\ Clients \subseteq Threads /\ Workers \subseteq Threads
      /\ Clients \subseteq Items /\ Works \subseteq Items
    BY DEF Init, Threads, Items
<1>2. History
    BY DEF Init, History, Items
<1>3. GrantsOK
    BY <1>1 DEF GrantsOK, Granting
<1>4. WorksOK
    BY <1>1 DEF WorksOK, Bears
<1>5. \A c \in Clients : CallerOK(c)
    BY <1>1 DEF CallerOK, Waiting, Threads, Items, SyncLocs, FastLocs,
                SlowLocs, PushLocs, WakeupLocs, AsyncLocs
<1>6. \A t \in Threads : ~Holds(t) /\ ~Twos(t) /\ ~Sole(t) /\ ~Barrier(t)
                           /\ ~HandsOver(t)
    BY <1>1 DEF Holds, Fast, Twos, Entered, Trying, HandsOver, Sole, Barrier,
                OneLocs, DrainLocs, SlowLocs
<1>7. RunInv
  <2>1. IsFiniteSet(Threads) /\ IsFiniteSet(Clients)
      BY FS_Subset DEF Threads
  <2>2. \A t \in Threads : Shares[t] \notin {1}
      BY <1>6 DEF Shares, One
  <2>3. CountAt(Threads, Shares, {1}) = 0
      BY <2>1, <2>2, CountType
  <2>4. CountAt(Clients, sema, {1}) = 0
      BY <2>1, <1>1, CountType
  <2>5. Cardinality(redirected) = 0 /\ IsFiniteSet(redirected)
      BY <1>1, FS_EmptySet
  <2>6. Single = 0
      BY <1>6 DEF Single, Held
  <2>7. running = 2 * Doubles + Single
      BY <2>3, <2>4, <2>5, <2>6, <1>1 DEF Doubles
  <2>8. QED  BY <2>5, <2>7, <1>6 DEF RunInv
<1>8. ExclInv
    BY <1>1, <1>6 DEF ExclInv, SoleAlone, NoHolder, OneBarrier, OneTold, Told
<1>9. ListInv
  <2>1. \A t \in Threads : ~Ghost(t) /\ ~Cut(t) /\ ~Detached(t)
      BY <1>1 DEF Ghost, Cut, Detached
  <2>2. First = 1 /\ Len(fifo) = 0 /\ fifo \in Seq(Items)
      BY <2>1, <1>1 DEF First, Gapped
  <2>3. Sequence
      BY <2>2, <1>1 DEF Sequence
  <2>4. Links
      BY <2>1, <2>2 DEF Links
  <2>5. Linkers
      BY <1>1 DEF Linkers
  <2>6. Ends
      BY <2>1, <2>2, <1>1 DEF Ends, TailLast, HeadFirst, HeadLate
  <2>7. Fronts
      BY <1>1 DEF Fronts
  <2>8. QED  BY <2>3, <2>4, <2>5, <2>6, <2>7 DEF ListInv
<1>10. QED
    BY <1>2, <1>3, <1>4, <1>5, <1>7, <1>8, <1>9, InitShape
       DEF QueueInv, ItemsInv

\* Whoever is about to take an item finds one whose push is over.
LEMMA QueueFinds ==
  ASSUME QueueInv
  PROVE  \A t \in Threads : Finds(t)
<1>1. ASSUME NEW t \in Threads, pc[t] \in {"one", "dpop"}  PROVE Finds(t)
    BY <1>1, OnlyOne, FindsRipe DEF QueueInv, Grip, DrainLocs
<1>2. QED  BY <1>1 DEF Finds

\* Every step keeps the invariant: the parts one after the other, each from
\* the whole of it before the step.
LEMMA StepQueue == QueueInv /\ [Next]_queueVars => QueueInv'
<1> SUFFICES ASSUME QueueInv, [Next]_queueVars  PROVE QueueInv'
    OBVIOUS
<1>1. Shape'
    BY StepShape DEF QueueInv
<1>2. \A t \in Threads : Finds(t)
    BY QueueFinds
<1>3. ItemsInv'
  <2>1. History'
      BY <1>2, StepHistory DEF QueueInv
  <2>2. GrantsOK'
      BY <1>2, StepGrants DEF QueueInv
  <2>3. WorksOK'
      BY <1>2, StepWorks DEF QueueInv
  <2>4. \A c \in Clients : CallerOK(c)'
      BY <1>2, StepCaller DEF QueueInv
  <2>5. QED  BY <2>1, <2>2, <2>3, <2>4 DEF ItemsInv
<1>4. RunInv'
    BY <1>1, StepRun DEF QueueInv
<1>5. ExclInv'
  <2>1. \A t \in Threads : RunSays(t)
      BY RunSpeaks DEF QueueInv
  <2>2. running \in Nat
      BY CountsType DEF QueueInv, RunInv, Single
  <2>3. \A s, t \in Threads : Holds(s) /\ Holds(t) => s = t
      BY DEF QueueInv, RunInv
  <2>4. SoleAlone'
      BY <1>1, <2>1, <2>2, <2>3, StepSoleAlone DEF QueueInv
  <2>5. NoHolder'
      BY <1>1, <2>1, <2>2, <2>3, StepNoHolder DEF QueueInv
  <2>6. OneBarrier'
      BY <1>1, <2>1, <2>2, <2>3, StepOneBarrier DEF QueueInv
  <2>7. OneTold'
      BY <1>1, <2>1, <2>2, <2>3, StepOneTold DEF QueueInv
  <2>8. QED  BY <2>4, <2>5, <2>6, <2>7 DEF ExclInv
<1>6. ListInv'
    BY <1>1, StepList DEF QueueInv
<1>7. QED  BY <1>1, <1>3, <1>4, <1>5, <1>6 DEF QueueInv

\* Whatever the width of the queue, the words that lock it, its list and what
\* became of every item stay consistent.
THEOREM QueueInvariant == Spec => []QueueInv
<1>1. Init => QueueInv
    BY InitQueue
<1>2. QueueInv /\ [Next]_queueVars => QueueInv'
    BY StepQueue
<1>3. QED
    BY <1>1, <1>2, PTL DEF Spec

-----------------------------------------------------------------------------
(* The order in which items are taken                                      *)

\* An item that leaves the list was the first on it.
InOrder == \A i \in Items : state[i] = "queued" /\ state'[i] # "queued"
                              => i = Head(fifo)

\* An item that a step takes off the list was the first on it.
LEMMA StepOrder ==
  ASSUME QueueInv, QueueInv', [Next]_queueVars
  PROVE  InOrder
<1> USE QueueAssumption
<1>0. /\ Clients \subseteq Threads /\ Workers \subseteq Threads
      /\ fifo \in Seq(Items) /\ state \in [Items -> {"free", "queued", "taken",
                                                     "running", "done"}]
    BY DEF QueueInv, ListInv, Sequence, ItemsInv, History, Threads
<1>1. ASSUME UNCHANGED state  PROVE InOrder
    BY <1>1 DEF InOrder
<1>2. ASSUME NEW t \in Threads, QuietStep(t)  PROVE InOrder
    BY <1>2, QuietSteps DEF InOrder, Quiet, QueueInv
<1>3. ASSUME NEW i, NEW s, state' = [state EXCEPT ![i] = s],
             Len(fifo) > 0 /\ i = fifo[1]
      PROVE  InOrder
  <2>1. i = Head(fifo)
      BY <1>0, <1>3
  <2>2. \A j \in Items : j # i => state'[j] = state[j]
      BY <1>0, <1>3
  <2>3. QED  BY <2>1, <2>2 DEF InOrder
<1>4. ASSUME Release  PROVE InOrder
    BY <1>4, <1>1 DEF Release, itemVars
<1>5. ASSUME NEW t \in Threads, WakeupStep(t)  PROVE InOrder
    BY <1>0, <1>2, <1>5, Zenon DEF QuietStep, WakeupStep
<1>6. ASSUME NEW t \in Clients, CallStep(t)  PROVE InOrder
    BY <1>0, <1>2, <1>6, Zenon DEF QuietStep, CallStep
<1>7. ASSUME NEW t \in Clients, PushStep(t)  PROVE InOrder
  <2>1. CASE Link(t) \/ SetHead(t)
      BY <1>1, <2>1 DEF Link, SetHead, TryEmpty, Proceed, itemVars, outerVars
  <2>2. CASE Swap(t)
      BY <2>2, <1>0 DEF Swap, Set, InOrder
  <2>3. QED
      BY <1>7, <2>1, <2>2, <1>0, Zenon DEF PushStep
<1>8. ASSUME NEW t \in Clients, AsyncStep(t)  PROVE InOrder
    BY <1>0, <1>2, <1>8, Zenon DEF QuietStep, AsyncStep
<1>9. ASSUME NEW t \in Clients, SyncStep(t)  PROVE InOrder
    BY <1>0, <1>2, <1>9, Zenon DEF QuietStep, SyncStep
<1>10. ASSUME NEW t \in Clients, BarrierStep(t)  PROVE InOrder
    BY <1>0, <1>2, <1>10, Zenon DEF QuietStep, BarrierStep
<1>11. ASSUME NEW t \in Clients, SlowStep(t)  PROVE InOrder
    BY <1>0, <1>2, <1>11, Zenon DEF QuietStep, SlowStep
<1>12. ASSUME NEW t \in Clients, HandOverStep(t)  PROVE InOrder
  <2>1. CASE QuietStep(t)
      BY <1>0, <1>2, <2>1
  <2>2. CASE OneTail(t) \/ OneSpin(t)
      BY <1>1, <2>2
         DEF OneTail, OneSpin, TryEmpty, Proceed, itemVars, outerVars
  <2>3. CASE OneHead(t)
    <3>1. CASE UNCHANGED state
        BY <3>1, <1>1
    <3>2. CASE head # NULL /\ state' = [state EXCEPT ![head] = "taken"]
      <4>1. Only(t) /\ pc[t] = "one"
          BY <2>3, <1>0, OnlyOne DEF OneHead, At, QueueInv
      <4>2. First = 1 /\ \A u \in Threads : pc[u] # "puthead"
          BY <4>1 DEF Only, First, Gapped, Cut, Grip, DrainLocs
      <4>3. HeadFirst
          BY <1>0 DEF QueueInv, ListInv, Ends
      <4>4. Len(fifo) >= First /\ head = fifo[First]
          BY <3>2, <4>2, <4>3 DEF HeadFirst
      <4>5. Len(fifo) >= 1 /\ head = fifo[1]
          BY <4>2, <4>4
      <4>6. Len(fifo) > 0
          BY <4>5, <1>0
      <4>7. QED  BY <3>2, <4>5, <4>6, <1>3, Zenon
    <3>3. QED  BY <2>3, <3>1, <3>2 DEF OneHead, Take, Set
  <2>4. QED
      BY <1>12, <2>1, <2>2, <2>3, <1>0, Zenon DEF HandOverStep, QuietStep
<1>13. ASSUME NEW t \in Workers, InvokeStep(t)  PROVE InOrder
    BY <1>0, <1>2, <1>13, Zenon DEF QuietStep, InvokeStep
<1>14. ASSUME NEW t \in Workers, RedirectStep(t)  PROVE InOrder
    BY <1>0, <1>2, <1>14, Zenon DEF QuietStep, RedirectStep
<1>15. ASSUME NEW t \in Workers, DrainStep(t)  PROVE InOrder
  <2>1. CASE QuietStep(t)
      BY <1>0, <1>2, <2>1
  <2>2. CASE DrainHead(t) \/ DrainNext(t) \/ DrainLast(t) \/ DrainSpin(t)
      BY <1>1, <2>2
         DEF DrainHead, DrainNext, DrainLast, DrainSpin, TryEmpty, Proceed,
             itemVars, outerVars
  <2>3. CASE DrainPop(t)
    <3>1. CASE UNCHANGED state
        BY <3>1, <1>1
    <3>2. CASE Pop(t)
      <4>1. Len(fifo) > 0 /\ obj[t] = fifo[1]
          BY <2>3, <1>0 DEF DrainPop, At, QueueInv, ListInv, Fronts
      <4>2. \E s \in {"running", "taken"} :
                  state' = [state EXCEPT ![obj[t]] = s]
          BY <3>2 DEF Pop, Take, Set
      <4>3. QED  BY <4>1, <4>2, <1>3
    <3>3. QED  BY <2>3, <3>1, <3>2 DEF DrainPop
  <2>4. QED
      BY <1>15, <2>1, <2>2, <2>3, <1>0, Zenon DEF DrainStep, QuietStep
<1>16. ASSUME NEW t \in Workers, PopStep(t)  PROVE InOrder
  <2>1. CASE QuietStep(t)
      BY <1>0, <1>2, <2>1
  <2>2. CASE GrantSignal(t) \/ DrainRedirect(t)
      BY <1>1, <2>2
         DEF GrantSignal, DrainRedirect, TryEmpty, Proceed, itemVars,
             outerVars
  <2>3. CASE RunItem(t)
    <3>1. /\ state[obj[t]] = "running"
          /\ state' = [state EXCEPT ![obj[t]] = "done"]
        BY <2>3, <1>0
           DEF RunItem, At, Finish, Set, QueueInv, ItemsInv, WorksOK,
                     Bears
    <3>2. QED  BY <3>1, <1>0 DEF InOrder
  <2>4. QED
      BY <1>16, <2>1, <2>2, <2>3, <1>0, Zenon DEF PopStep, QuietStep
<1>17. ASSUME NEW t \in Workers, PutBackStep(t)  PROVE InOrder
  <2>1. CASE PutBackTail(t) \/ PutBackSpin(t) \/ PutBackHead(t)
      BY <1>1, <2>1
         DEF PutBackTail, PutBackSpin, PutBackHead, TryEmpty, Proceed,
             itemVars, outerVars
  <2>2. QED
      BY <1>17, <2>1, <1>0, Zenon DEF PutBackStep
<1>18. ASSUME UNCHANGED queueVars  PROVE InOrder
    BY <1>18, <1>1 DEF queueVars, otherVars
<1>19. QED
    BY <1>4, <1>5, <1>6, <1>7, <1>8, <1>9, <1>10, <1>11, <1>12, <1>13, <1>14,
       <1>15, <1>16, <1>17, <1>18, NextCases

\* Items leave the list of a queue of any width in the order in which they
\* entered it, whoever takes them: a drainer that pops them, a caller that
\* hands the queue over to the next barrier, with drains that put back what
\* they had taken in between.
THEOREM QueueTakenInOrder == Spec => TakenInOrder
<1>1. QueueInv /\ QueueInv' /\ [Next]_queueVars =>
        [\A i \in Items : state[i] = "queued" /\ state'[i] # "queued"
                            => i = Head(fifo)]_queueVars
    BY StepOrder DEF InOrder
<1>2. QED
    BY <1>1, QueueInvariant, PTL DEF Spec, TakenInOrder

-----------------------------------------------------------------------------
(* Barriers                                                                *)

\* Where the block of an item that is running runs.
LEMMA CallerRuns ==
  ASSUME QueueInv, NEW c \in Clients, state[c] = "running"
  PROVE  \/ pc[c] = "yrun" /\ kind[c] = "sync"
         \/ pc[c] \in {"brun", "srun"} /\ kind[c] = "barriersync"
<1>1. /\ obj[c] = c /\ CallerOK(c) /\ c # NULL
    BY QueueAssumption DEF Threads, QueueInv, ItemsInv, CallerOK
<1>2. QED
    BY <1>1 DEF CallerOK, Waiting, SyncLocs, FastLocs, SlowLocs, PushLocs,
                WakeupLocs

\* The same for an item that was submitted asynchronously.
LEMMA WorkRuns ==
  ASSUME QueueInv, NEW w \in Works, state[w] = "running"
  PROVE  \E t \in Workers :
           /\ obj[t] = w
           /\ \/ pc[t] = "runitem" /\ kind[w] = "barrier"
              \/ pc[t] = "runbeside" /\ kind[w] = "async"
<1>1. PICK t \in Workers : pc[t] \in {"runitem", "runbeside"} /\ obj[t] = w
    BY DEF QueueInv, ItemsInv, WorksOK
<1>2. t \in Threads
    BY DEF Threads
<1>3. kind[w] = IF pc[t] = "runitem" THEN "barrier" ELSE "async"
    BY <1>1, <1>2 DEF QueueInv, ItemsInv, WorksOK, Bears
<1>4. QED  BY <1>1, <1>3

\* A thread that runs an item's block, and what it says of dq_running.
RunsAlone(i) == \E t \in Threads :
                  /\ \/ t = i /\ pc[t] = "brun"
                     \/ obj[t] = i /\ pc[t] = "runitem"
                  /\ Sole(t) /\ Holds(t)
RunsBeside(i) == \E t \in Threads :
                   /\ Entered(t)
                   /\ pc[t] \in {"yrun", "srun", "runbeside"}

\* An item that runs has the queue to itself, or runs beside others: then it
\* is no barrier, or one that was granted to a caller that waited.
LEMMA Runs ==
  ASSUME QueueInv, NEW i \in Items, state[i] = "running"
  PROVE  \/ RunsAlone(i)
         \/ RunsBeside(i) /\ ~IsBarrier(i)
         \/ RunsBeside(i) /\ i \in Clients /\ pc[i] = "srun"
<1>1. CASE i \in Clients
  <2>1. i \in Threads
      BY <1>1 DEF Threads
  <2>2. QED
      BY <1>1, <2>1, CallerRuns DEF RunsAlone, RunsBeside, IsBarrier, Sole,
         Holds, Fast, Entered, SlowLocs
<1>2. CASE i \in Works
  <2>1. PICK t \in Workers : /\ obj[t] = i
                             /\ \/ pc[t] = "runitem" /\ kind[i] = "barrier"
                                \/ pc[t] = "runbeside" /\ kind[i] = "async"
      BY <1>2, WorkRuns
  <2>2. t \in Threads
      BY DEF Threads
  <2>3. QED
      BY <2>1, <2>2 DEF RunsAlone, RunsBeside, IsBarrier, Sole, Holds, Fast,
         Entered, DrainLocs
<1>3. QED  BY <1>1, <1>2 DEF Items

\* The threads that run two items cannot both be where the invariant allows
\* only one, or nobody beside it.
LEMMA ExcludeBarriers == QueueInv => BarriersExclude
<1> SUFFICES ASSUME QueueInv, NEW i \in Running, NEW j \in Running,
                    i # j, IsBarrier(i)
             PROVE  ~IsBarrier(j) /\ i \in Clients /\ pc[i] = "srun"
    BY DEF BarriersExclude
<1> USE QueueAssumption
<1>1. /\ i \in Items /\ state[i] = "running"
      /\ j \in Items /\ state[j] = "running"
    BY DEF Running
<1>2. ~(RunsAlone(i) /\ RunsBeside(j)) /\ ~(RunsAlone(j) /\ RunsBeside(i))
    BY DEF RunsAlone, RunsBeside, QueueInv, ExclInv, SoleAlone
<1>3. ~(RunsAlone(i) /\ RunsAlone(j))
    BY DEF RunsAlone, QueueInv, RunInv
<1>4. ~(i \in Clients /\ j \in Clients /\ pc[i] = "srun" /\ pc[j] = "srun")
    BY DEF QueueInv, ExclInv, OneBarrier, Barrier, SlowLocs, Threads
<1>5. \/ RunsAlone(i)
      \/ RunsBeside(i) /\ i \in Clients /\ pc[i] = "srun"
    BY <1>1, Runs
<1>6. \/ RunsAlone(j)
      \/ RunsBeside(j) /\ ~IsBarrier(j)
      \/ RunsBeside(j) /\ j \in Clients /\ pc[j] = "srun"
    BY <1>1, Runs
<1>7. QED  BY <1>2, <1>3, <1>4, <1>5, <1>6

\* On a queue of any width two barriers never run together, and a barrier runs
\* beside a reader only if it was granted to a caller that waited for it.
THEOREM QueueBarriersExclude == Spec => []BarriersExclude
  BY QueueInvariant, ExcludeBarriers, PTL
-----------------------------------------------------------------------------
(* What was taken off the list                                             *)

\* An item that was taken off the list is on its way to run: told to its
\* caller, sent to the root queue, or in the hands of a thread.
Handed ==
    \A i \in Items : state[i] = "taken" =>
      \/ i \in Clients /\ sema[i] # 0
      \/ i \in redirected
      \/ \E t \in Threads : obj[t] = i /\ (Granting(t) \/ Bears(t))

\* No step loses an item on the way.
LEMMA StepHanded ==
  ASSUME Shape, ItemsInv, \A t \in Threads : Finds(t), Handed,
         [Next]_queueVars
  PROVE  Handed'
<1> USE QueueAssumption
    DEF Threads, Items, Locs, Returns, ClientLocs, WorkerLocs, ItemLocs,
        PushLocs, WakeupLocs, AsyncLocs, SyncLocs, FastLocs, SlowLocs, OneLocs,
        DrainLocs, InvokeLocs, queueVars, wordVars, lockVars, otherVars,
        outerVars, itemVars, listVars, worldVars, objectVars, rootVars,
        localVars, orderVars, Set, Goto, At, MayCall, Test, Add, TryEmpty,
        Finish, CallWakeup, Return, WakeupTest, DropRunning, DropReference,
        Pushed, Submit, Call, Enter, Run, Take, Dequeued, Pop, Proceed
<1> USE DEF Shape, Pointers, Place, ItemsInv, History, GrantsOK, WorksOK,
        CallerOK, Finds, Ripe, Waiting, Granting, Bears, Handed
<1>1. ASSUME NEW t \in Threads, WakeupStep(t)  PROVE Handed'
    BY <1>1 DEF WakeupStep, WakeupSuspended, WakeupTail, WakeupLock,
       WakeupPush, ReleaseInternal
<1>2. ASSUME NEW t \in Clients, CallStep(t)  PROVE Handed'
    BY <1>2 DEF CallStep, Async, BarrierAsync, Sync, BarrierSync, Suspend,
       Resume
<1>3. ASSUME NEW t \in Clients, PushStep(t)  PROVE Handed'
    BY <1>3 DEF PushStep, Swap, Link, SetHead
<1>4. ASSUME NEW t \in Clients, AsyncStep(t)  PROVE Handed'
    BY <1>4 DEF AsyncStep, AsyncTail, AsyncSuspended, AsyncAdd, AsyncOver,
       AsyncOdd, AsyncRedirect
<1>5. ASSUME NEW t \in Clients, SyncStep(t)  PROVE Handed'
  <2>1. CASE SyncTail(t)
      BY <1>5, <2>1 DEF SyncTail
  <2>2. CASE SyncSuspended(t)
      BY <1>5, <2>2 DEF SyncSuspended
  <2>3. CASE SyncAdd(t)
      BY <1>5, <2>3 DEF SyncAdd
  <2>4. CASE SyncBack(t)
      BY <1>5, <2>4 DEF SyncBack
  <2>5. CASE SyncRun(t)
      BY <1>5, <2>5 DEF SyncRun
  <2>6. CASE SyncSub(t)
      BY <1>5, <2>6 DEF SyncSub
  <2>7. CASE Wait(t)
      BY <1>5, <2>7 DEF Wait
  <2>8. QED
      BY <1>5, <2>1, <2>2, <2>3, <2>4, <2>5, <2>6, <2>7, Zenon DEF SyncStep
<1>6. ASSUME NEW t \in Clients, BarrierStep(t)  PROVE Handed'
    BY <1>6 DEF BarrierStep, BarrierTail, BarrierSuspended, BarrierLock,
       BarrierRun, BarrierCheck, TransferSuspended, BarrierUnlock
<1>7. ASSUME NEW t \in Clients, SlowStep(t)  PROVE Handed'
    BY <1>7 DEF SlowStep, SlowRun, SlowTest, SlowSpin, SlowResume, SlowUnlock
<1>8. ASSUME NEW t \in Clients, HandOverStep(t)  PROVE Handed'
  <2>1. CASE OneHead(t)
      BY <1>8, <2>1 DEF OneHead
  <2>2. CASE OneTail(t)
      BY <1>8, <2>2 DEF OneTail
  <2>3. CASE OneSpin(t)
      BY <1>8, <2>3 DEF OneSpin
  <2>4. CASE TransferSuspend(t)
      BY <1>8, <2>4 DEF TransferSuspend
  <2>5. CASE TransferRunning(t)
      BY <1>8, <2>5 DEF TransferRunning
  <2>6. CASE TransferSignal(t)
      BY <1>8, <2>6 DEF TransferSignal
  <2>7. QED
      BY <1>8, <2>1, <2>2, <2>3, <2>4, <2>5, <2>6, Zenon DEF HandOverStep
<1>9. ASSUME NEW t \in Workers, InvokeStep(t)  PROVE Handed'
    BY <1>9 DEF InvokeStep, TakeQueue, InvokeSuspended, InvokeLock,
       InvokeLeave, InvokeUnlock, InvokeProbe
<1>10. ASSUME NEW t \in Workers, RedirectStep(t)  PROVE Handed'
  <2>1. CASE TakeRedirected(t)
      BY <1>10, <2>1 DEF TakeRedirected
  <2>2. CASE RunBeside(t)
      BY <1>10, <2>2 DEF RunBeside
  <2>3. CASE RedirectSub(t)
      BY <1>10, <2>3 DEF RedirectSub
  <2>4. QED
      BY <1>10, <2>1, <2>2, <2>3, Zenon DEF RedirectStep
<1>11. ASSUME NEW t \in Workers, DrainStep(t)  PROVE Handed'
  <2>1. CASE DrainTail(t)
      BY <1>11, <2>1 DEF DrainTail
  <2>2. CASE DrainHead(t)
      BY <1>11, <2>2 DEF DrainHead
  <2>3. CASE DrainNext(t)
      BY <1>11, <2>3 DEF DrainNext
  <2>4. CASE DrainLast(t)
      BY <1>11, <2>4 DEF DrainLast
  <2>5. CASE DrainSpin(t)
      BY <1>11, <2>5 DEF DrainSpin
  <2>6. CASE DrainSuspended(t)
      BY <1>11, <2>6 DEF DrainSuspended
  <2>7. CASE DrainPop(t)
      BY <1>11, <2>7 DEF DrainPop
  <2>8. QED
      BY <1>11, <2>1, <2>2, <2>3, <2>4, <2>5, <2>6, <2>7, Zenon DEF DrainStep
<1>12. ASSUME NEW t \in Workers, PopStep(t)  PROVE Handed'
  <2>1. CASE RunItem(t)
      BY <1>12, <2>1 DEF RunItem
  <2>2. CASE GrantSuspend(t)
      BY <1>12, <2>2 DEF GrantSuspend
  <2>3. CASE GrantRunning(t)
      BY <1>12, <2>3 DEF GrantRunning
  <2>4. CASE GrantSignal(t)
      BY <1>12, <2>4 DEF GrantSignal
  <2>5. CASE DrainRedirect(t)
      BY <1>12, <2>5 DEF DrainRedirect
  <2>6. QED
      BY <1>12, <2>1, <2>2, <2>3, <2>4, <2>5, Zenon DEF PopStep
<1>13. ASSUME NEW t \in Workers, PutBackStep(t)  PROVE Handed'
  <2>1. CASE PutBackTail(t)
      BY <1>13, <2>1 DEF PutBackTail
  <2>2. CASE PutBackSpin(t)
      BY <1>13, <2>2 DEF PutBackSpin
  <2>3. CASE PutBackHead(t)
      BY <1>13, <2>3 DEF PutBackHead
  <2>4. QED
      BY <1>13, <2>1, <2>2, <2>3, Zenon DEF PutBackStep
<1>14. ASSUME Release  PROVE Handed'
    BY <1>14 DEF Release
<1>15. ASSUME UNCHANGED queueVars  PROVE Handed'
    BY <1>15
<1>16. QED
    BY <1>1, <1>2, <1>3, <1>4, <1>5, <1>6, <1>7, <1>8, <1>9, <1>10, <1>11,
       <1>12, <1>13, <1>14, <1>15, NextCases

\* What was taken off the list is on its way to run, on a queue of any width.
THEOREM QueueHanded == Spec => []Handed
<1>1. Init => Handed
    BY DEF Init, Handed
<1>2. QueueInv /\ Handed /\ [Next]_queueVars => Handed'
    BY QueueFinds, StepHanded DEF QueueInv
<1>3. QED
    BY <1>1, <1>2, QueueInvariant, PTL DEF Spec

-----------------------------------------------------------------------------
(* The refinement of a serial queue                                        *)

\* The items whose turn it is, and a thread that has the turn of item i.
Turn == {i \in Items : state[i] \in {"taken", "running"}}
Bearer(t, i) == obj[t] = i /\ ((Sole(t) /\ Holds(t)) \/ Barrier(t))

\* On a serial queue every item whose turn it is was told so or is with a
\* thread that has the queue to itself.
LEMMA TurnHas ==
  ASSUME QueueInv, NoReaders, Handed, NEW i \in Turn
  PROVE  \/ i \in Clients /\ Told(i)
         \/ \E t \in Threads : Bearer(t, i)
<1> USE QueueAssumption
<1>0. /\ Clients \subseteq Threads /\ Workers \subseteq Threads
      /\ i \in Items /\ state[i] \in {"taken", "running"}
      /\ kind[i] \in {"none", "barrier", "barriersync"}
      /\ i \in Clients => kind[i] # "barrier"
    BY DEF Threads, Turn, NoReaders
<1>1. ASSUME i \in Clients, state[i] = "running"
      PROVE  \E t \in Threads : Bearer(t, i)
  <2>1. obj[i] = i
      BY <1>1 DEF QueueInv, ItemsInv, CallerOK
  <2>2. pc[i] \in {"brun", "srun"}
      BY <1>0, <1>1, CallerRuns
  <2>3. QED
      BY <1>0, <1>1, <2>1, <2>2
         DEF Bearer, Sole, Holds, Fast, Barrier, SlowLocs
<1>2. ASSUME i \in Works, state[i] = "running"
      PROVE  \E t \in Threads : Bearer(t, i)
  <2>1. PICK t \in Workers : obj[t] = i /\ pc[t] = "runitem"
      BY <1>0, <1>2, WorkRuns
  <2>2. QED
      BY <1>0, <2>1 DEF Bearer, Sole, Holds, DrainLocs
<1>3. ASSUME i \in Clients, sema[i] # 0  PROVE Told(i)
  <2>1. obj[i] = i
      BY <1>3 DEF QueueInv, ItemsInv, CallerOK, Waiting
  <2>2. kind[i] = "barriersync"
      BY <1>0, <1>3, <2>1 DEF QueueInv, ItemsInv, CallerOK
  <2>3. QED
      BY <1>3, <2>2 DEF Told
<1>4. i \notin redirected
  <2>1. ASSUME i \in redirected  PROVE i \in Works /\ kind[i] = "async"
      BY <2>1 DEF QueueInv, Shape, Pointers, ItemsInv, WorksOK
  <2>2. QED
      BY <1>0, <2>1
<1>5. ASSUME NEW t \in Threads, obj[t] = i, Bears(t), i \in Works,
             state[i] = "taken"
      PROVE  FALSE
    BY <1>0, <1>5 DEF QueueInv, ItemsInv, WorksOK
<1>6. ASSUME NEW t \in Threads, obj[t] = i, Bears(t), i \in Clients
      PROVE  Granting(t)
  <2>1. pc[t] # "apush"
      BY <1>6 DEF QueueInv, Shape, Place, AsyncLocs, Threads, Items
  <2>2. t \in Workers => pc[t] \notin {"runitem", "redirect", "runbeside"}
      BY <1>6 DEF QueueInv, ItemsInv, WorksOK, Threads
  <2>3. t \in Clients => pc[t] \notin {"runitem", "redirect", "runbeside"}
      BY <1>6
         DEF QueueInv, Shape, Place, ClientLocs, PushLocs, WakeupLocs,
             AsyncLocs, SyncLocs, FastLocs, SlowLocs, OneLocs
  <2>4. QED
      BY <1>6, <2>1, <2>2, <2>3 DEF Bears, Granting, Threads
<1>7. ASSUME NEW t \in Threads, obj[t] = i, Granting(t), i \in Clients
      PROVE  Bearer(t, i)
  <2>1. kind[i] = "barriersync"
    <3>1. Waiting(i) /\ CallerOK(i)
        BY <1>7 DEF QueueInv, ItemsInv, GrantsOK
    <3>2. kind[i] \in {"sync", "barriersync"}
        BY <3>1 DEF Waiting, CallerOK
    <3>3. QED
        BY <1>0, <3>2
  <2>2. pc[t] \in {"onecas", "onespin", "oneadd", "oneinc"} =>
          ret[t] \in {"bdec", "ssub"}
      BY DEF QueueInv, Shape, Place, OneLocs
  <2>3. QED
      BY <1>7, <2>1, <2>2
         DEF Granting, Bearer, Sole, Holds, Fast, Barrier, HandsOver, OneLocs,
             DrainLocs, SlowLocs
<1>8. ASSUME NEW t \in Threads, obj[t] = i, Granting(t), i \in Works
      PROVE  Bears(t)
  <2>1. t \in Clients \/ pc[t] \in {"xsusp", "signal"} => obj[t] \in Clients
      BY <1>8 DEF QueueInv, ItemsInv, GrantsOK
  <2>2. t \in Workers => pc[t] \in WorkerLocs
      BY DEF QueueInv, Shape, Place
  <2>3. QED
      BY <1>8, <2>1, <2>2
         DEF Granting, Bears, Threads, WorkerLocs, WakeupLocs, InvokeLocs,
             DrainLocs
<1>9. CASE state[i] = "taken"
    BY <1>0, <1>3, <1>4, <1>5, <1>6, <1>7, <1>8, <1>9 DEF Handed, Items
<1>10. QED
    BY <1>0, <1>1, <1>2, <1>9 DEF Items

\* A thread that is about to take the turn, or that has seen that nobody is in
\* the queue.
Ready(t) == \/ pc[t] = "one"
            \/ pc[t] = "dpop" /\ running <= 1
            \/ running = 0

\* On a serial queue it is one item's turn at a time.
LEMMA OneTurn ==
  ASSUME QueueInv, NoReaders, Handed
  PROVE  /\ \A i, j \in Turn : i = j
         /\ \A t \in Threads : Ready(t) => Turn = {}
<1>1. \A t \in Threads : RunSays(t)
    BY RunSpeaks DEF QueueInv
<1>2. \A s, t \in Threads : Holds(s) /\ Holds(t) => s = t
    BY DEF QueueInv, RunInv
<1>3. \A t \in Threads : Barrier(t) => Entered(t)
    BY DEF Barrier, Entered, SlowLocs
<1>4. SoleAlone /\ OneBarrier /\ OneTold
    BY DEF QueueInv, ExclInv
<1>5. \A i \in Turn : \/ i \in Clients /\ Told(i)
                      \/ \E t \in Threads : Bearer(t, i)
    BY TurnHas
<1>6. ASSUME NEW s \in Threads, NEW t \in Threads, NEW i, NEW j,
             Bearer(s, i), Bearer(t, j)
      PROVE  i = j
    BY <1>2, <1>3, <1>4, <1>6 DEF Bearer, SoleAlone, OneBarrier
<1>7. ASSUME NEW c \in Clients, NEW t \in Threads, NEW i,
             Told(c), Bearer(t, i)
      PROVE  FALSE
    BY <1>4, <1>7 DEF Bearer, SoleAlone, OneTold, Told
<1>8. \A i, j \in Turn : i = j
    BY <1>4, <1>5, <1>6, <1>7 DEF OneTold
<1>9. ASSUME NEW t \in Threads, Ready(t), NEW c \in Clients, Told(c)
      PROVE  FALSE
  <2>1. CASE pc[t] = "one"
    <3>1. Sole(t) \/ Barrier(t)
        BY <2>1 DEF QueueInv, Shape, Place, Sole, Fast, Barrier, HandsOver,
                    OneLocs
    <3>2. QED
        BY <1>4, <1>9, <3>1 DEF SoleAlone, OneTold, Told
  <2>2. CASE running <= 1
      BY <1>1, <1>9, <2>2 DEF RunSays, Told
  <2>3. running = 0 => running <= 1
      OBVIOUS
  <2>4. QED
      BY <1>9, <2>1, <2>2, <2>3 DEF Ready
<1>10. ASSUME NEW t \in Threads, Ready(t), NEW u \in Threads, NEW i \in Items,
              Bearer(u, i)
       PROVE  FALSE
  <2>1. CASE pc[t] = "one"
    <3>1. \/ Sole(t) /\ Holds(t)
          \/ Barrier(t)
        BY <2>1 DEF QueueInv, Shape, Place, Sole, Holds, Fast, Barrier,
                    HandsOver, OneLocs
    <3>2. u = t
        BY <1>2, <1>3, <1>4, <1>10, <3>1 DEF Bearer, SoleAlone, OneBarrier
    <3>3. t \in Clients
        BY <2>1 DEF QueueInv, Shape, Place, Threads, WorkerLocs, WakeupLocs,
                    InvokeLocs, DrainLocs
    <3>4. obj[t] = NULL
        BY <2>1, <3>3 DEF QueueInv, ItemsInv, CallerOK
    <3>5. QED
        BY <1>10, <3>2, <3>4, QueueAssumption DEF Bearer, Threads, Items
  <2>2. CASE pc[t] = "dpop" /\ running <= 1
    <3>1. Holds(t) /\ ~Sole(t)
        BY <2>2 DEF Holds, Sole, Fast, DrainLocs, OneLocs
    <3>2. ~Entered(u)
        BY <1>1, <2>2 DEF RunSays
    <3>3. QED
        BY <1>2, <1>3, <1>10, <3>1, <3>2 DEF Bearer
  <2>3. CASE running = 0
    <3>1. ~Entered(u) /\ ~Holds(u)
        BY <1>1, <2>3 DEF RunSays
    <3>2. QED
        BY <1>3, <1>10, <3>1 DEF Bearer
  <2>4. QED
      BY <1>10, <2>1, <2>2, <2>3 DEF Ready
<1>11. ASSUME NEW t \in Threads, Ready(t)  PROVE Turn = {}
  <2>1. \A i \in Turn : i \in Items
      BY DEF Turn
  <2>2. QED
      BY <1>5, <1>9, <1>10, <1>11, <2>1
<1>12. QED
    BY <1>8, <1>11

\* Every step of a serial queue of libdispatch is one of the serial queue of
\* the specification, or none.
LEMMA StepSerial ==
  ASSUME QueueInv, NoReaders, Handed, [Next]_queueVars
  PROVE  [Serial!Next]_Serial!specVars
<1> DEFINE Steps == [Serial!Next]_Serial!specVars
<1>0. /\ Clients \subseteq Threads /\ Workers \subseteq Threads
      /\ QueueInv /\ NoReaders /\ Handed
      /\ fifo \in Seq(Items) /\ running \in Nat
      /\ state \in [Items -> {"free", "queued", "taken", "running", "done"}]
    BY RunSpeaks, CountsType
       DEF QueueInv, ListInv, Sequence, ItemsInv, History, Threads, RunInv,
           Single
<1>b. UNCHANGED <<state, fifo>> => Steps
    BY DEF Serial!specVars
<1>c. ASSUME NEW i \in Items, NEW s \in {"free", "done"}, state[i] = "running",
             state' = [state EXCEPT ![i] = s], UNCHANGED fifo
      PROVE  Steps
  <2>1. Turn = {i}
      BY <1>0, <1>c, OneTurn DEF Turn
  <2>2. Turn' = {}
      BY <1>0, <1>c, <2>1 DEF Turn
  <2>3. QED
      BY <1>c, <2>1, <2>2 DEF Serial!Next, Serial!Finish, Turn
<1>d. ASSUME NEW i \in Items, NEW s \in {"running", "taken"},
             state[i] = "queued", Turn = {},
             state' = [state EXCEPT ![i] = s],
             fifo' = RemoveFirst(fifo, i)
      PROVE  Steps
  <2>1. i = Head(fifo)
    <3>1. state'[i] # "queued"
        BY <1>0, <1>d
    <3>2. InOrder
        BY StepQueue, StepOrder
    <3>3. QED
        BY <1>d, <3>1, <3>2 DEF InOrder
  <2>2. fifo # <<>>
      BY <1>0, <1>d DEF QueueInv, ListInv, Sequence
  <2>3. fifo' = Tail(fifo)
      BY <1>0, <1>d, <2>1, <2>2, RemoveHead
  <2>4. Turn' = {i}
      BY <1>0, <1>d DEF Turn
  <2>5. QED
      BY <1>d, <2>1, <2>2, <2>3, <2>4
         DEF Serial!Next, Serial!StartNext, Turn
<1> HIDE DEF Steps
<1>1. ASSUME NEW t \in Threads, WakeupStep(t)  PROVE Steps
    BY <1>1, <1>b DEF WakeupStep, WakeupSuspended, WakeupTail, WakeupLock,
       WakeupPush, ReleaseInternal, Test, Add, TryEmpty, WakeupTest,
       DropRunning, Call, Submit, otherVars, outerVars, itemVars, orderVars
<1>2. ASSUME NEW t \in Clients, CallStep(t)  PROVE Steps
    BY <1>2, <1>b DEF CallStep, Async, BarrierAsync, Sync, BarrierSync,
       Suspend, Resume, Test, Add, TryEmpty, WakeupTest, DropRunning, Call,
       Submit, otherVars, outerVars, itemVars, orderVars
<1>3. ASSUME NEW t \in Clients, PushStep(t)  PROVE Steps
  <2>1. CASE Link(t) \/ SetHead(t)
      BY <1>3, <2>1, <1>b DEF Link, SetHead, Test, Add, TryEmpty, WakeupTest,
         DropRunning, Call, Submit, otherVars, outerVars, itemVars, orderVars
  <2>2. CASE Swap(t)
    <3>1. state[obj[t]] = "free" /\ obj[t] \in Items
        BY <1>0, <1>3, <2>2
           DEF Swap, At, QueueInv, ItemsInv, CallerOK, Threads, Items
    <3>2. /\ fifo' = Append(fifo, obj[t])
          /\ state' = [state EXCEPT ![obj[t]] = "queued"]
        BY <2>2 DEF Swap, Set
    <3>3. Turn' = Turn
        BY <1>0, <3>1, <3>2 DEF Turn
    <3>4. \A k \in DOMAIN fifo : fifo[k] # obj[t]
        BY <1>0, <3>1 DEF QueueInv, ListInv, Sequence
    <3>5. obj[t] \notin Turn
        BY <3>1 DEF Turn
    <3>6. QED
        BY <3>1, <3>2, <3>3, <3>4, <3>5 DEF Serial!Next, Serial!Submit, Turn,
            Steps
  <2>3. QED
      BY <1>3, <2>1, <2>2, Zenon DEF PushStep
<1>4. ASSUME NEW t \in Clients, AsyncStep(t)  PROVE Steps
  <2>1. CASE AsyncTail(t) \/ AsyncSuspended(t) \/ AsyncOver(t) \/ AsyncOdd(t)
            \/ AsyncRedirect(t)
      BY <1>4, <2>1, <1>b DEF AsyncTail, AsyncSuspended, AsyncOver, AsyncOdd,
         AsyncRedirect, Test, Add, TryEmpty, WakeupTest, DropRunning, Call,
         Submit, otherVars, outerVars, itemVars, orderVars
  <2>2. CASE AsyncAdd(t)
      BY <1>0, <1>4, <2>2 DEF AsyncAdd, At, At, NoReaders, AsyncLocs
  <2>3. QED
      BY <1>4, <2>1, <2>2, Zenon DEF AsyncStep
<1>5. ASSUME NEW t \in Clients, SyncStep(t)  PROVE Steps
  <2>1. CASE SyncTail(t) \/ SyncSuspended(t) \/ SyncBack(t) \/ SyncSub(t)
      BY <1>5, <2>1, <1>b DEF SyncTail, SyncSuspended, SyncBack, SyncSub, Test,
         Add, TryEmpty, WakeupTest, DropRunning, Call, Submit, otherVars,
         outerVars, itemVars, orderVars
  <2>2. CASE SyncAdd(t)
      BY <1>0, <1>5, <2>2 DEF SyncAdd, Enter, At, NoReaders, SyncLocs
  <2>3. CASE SyncRun(t)
      BY <1>0, <1>5, <2>3 DEF SyncRun, Run, At, NoReaders, SyncLocs
  <2>4. CASE Wait(t)
    <3>1. /\ state[t] = "taken" /\ UNCHANGED fifo
          /\ state' = [state EXCEPT ![t] = "running"]
        BY <1>0, <1>5, <2>4
           DEF Wait, At, Set, orderVars, QueueInv, ItemsInv, History, CallerOK
    <3>2. Turn' = Turn
        BY <1>0, <1>5, <3>1 DEF Turn
    <3>3. QED
        BY <3>1, <3>2 DEF Serial!specVars, Turn, Steps
  <2>5. QED
      BY <1>5, <2>1, <2>2, <2>3, <2>4, Zenon DEF SyncStep
<1>6. ASSUME NEW t \in Clients, BarrierStep(t)  PROVE Steps
  <2>1. CASE BarrierTail(t) \/ BarrierSuspended(t) \/ BarrierCheck(t) \/
            TransferSuspended(t) \/ BarrierUnlock(t)
      BY <1>6, <2>1, <1>b DEF BarrierTail, BarrierSuspended, BarrierCheck,
         TransferSuspended, BarrierUnlock, Test, Add, TryEmpty, WakeupTest,
         DropRunning, Call, Submit, otherVars, outerVars, itemVars, orderVars
  <2>2. CASE BarrierLock(t)
    <3>1. CASE running = 0
      <4>1. state[t] = "free" /\ state' = [state EXCEPT ![t] = "running"]
            /\ UNCHANGED fifo
          BY <1>0, <1>6, <2>2, <3>1
             DEF BarrierLock, Enter, At, Set, orderVars, QueueInv, ItemsInv,
                 CallerOK
      <4>2. Turn = {}
          BY <1>0, <1>6, <3>1, OneTurn DEF Ready
      <4>3. Turn' = {t}
          BY <1>0, <1>6, <4>1, <4>2 DEF Turn, Items
      <4>4. QED
          BY <1>6, <4>1, <4>2, <4>3 DEF Serial!Next, Serial!StartDirectly,
             Turn,
                             Steps
    <3>2. CASE running # 0
        BY <1>b, <2>2, <3>2 DEF BarrierLock, Enter, orderVars
    <3>3. QED
        BY <3>1, <3>2
  <2>3. CASE BarrierRun(t)
    <3>1. /\ state[t] = "running" /\ UNCHANGED fifo
          /\ state' = [state EXCEPT ![t] = "free"]
        BY <1>0, <1>6, <2>3
           DEF BarrierRun, Run, At, Finish, Set, orderVars, QueueInv, ItemsInv,
               CallerOK
    <3>2. QED
        BY <1>0, <1>c, <1>6, <3>1 DEF Items
  <2>4. QED
      BY <1>6, <2>1, <2>2, <2>3, Zenon DEF BarrierStep
<1>7. ASSUME NEW t \in Clients, SlowStep(t)  PROVE Steps
  <2>1. CASE SlowTest(t) \/ SlowSpin(t) \/ SlowResume(t) \/ SlowUnlock(t)
      BY <1>7, <2>1, <1>b DEF SlowTest, SlowSpin, SlowResume, SlowUnlock, Test,
         Add, TryEmpty, WakeupTest, DropRunning, Call, Submit, otherVars,
         outerVars, itemVars, orderVars
  <2>2. CASE SlowRun(t)
    <3>1. /\ state[t] = "running" /\ UNCHANGED fifo
          /\ state' = [state EXCEPT ![t] = "free"]
        BY <1>0, <1>7, <2>2
           DEF SlowRun, Run, At, Finish, Set, orderVars, QueueInv, ItemsInv,
               CallerOK
    <3>2. QED
        BY <1>0, <1>c, <1>7, <3>1 DEF Items
  <2>3. QED
      BY <1>7, <2>1, <2>2, Zenon DEF SlowStep
<1>8. ASSUME NEW t \in Clients, HandOverStep(t)  PROVE Steps
  <2>1. CASE OneTail(t) \/ OneSpin(t) \/ TransferSuspend(t) \/
            TransferRunning(t) \/ TransferSignal(t)
      BY <1>8, <2>1, <1>b DEF OneTail, OneSpin, TransferSuspend,
         TransferRunning, TransferSignal, Test, Add, TryEmpty, WakeupTest,
         DropRunning, Call, Submit, otherVars, outerVars, itemVars, orderVars
  <2>2. CASE OneHead(t)
    <3>1. CASE UNCHANGED <<state, fifo>>
        BY <1>b, <3>1
    <3>2. CASE head # NULL /\ Take(head, "taken")
      <4>1. pc[t] = "one"
          BY <2>2 DEF OneHead, At
      <4>2. Turn = {}
          BY <1>0, <1>8, <4>1, OneTurn DEF Ready
      <4>3. state[head] = "queued" /\ head \in Items
          BY <1>0, <1>8, <3>2, <4>1, QueueFinds
             DEF Finds, Ripe, QueueInv, Shape, Pointers
      <4>4. /\ state' = [state EXCEPT ![head] = "taken"]
            /\ fifo' = RemoveFirst(fifo, head)
          BY <3>2 DEF Take, Set
      <4>5. QED
          BY <1>d, <4>2, <4>3, <4>4
    <3>3. QED
        BY <2>2, <3>1, <3>2 DEF OneHead, orderVars
  <2>3. QED
      BY <1>8, <2>1, <2>2, Zenon DEF HandOverStep
<1>9. ASSUME NEW t \in Workers, InvokeStep(t)  PROVE Steps
    BY <1>9, <1>b DEF InvokeStep, TakeQueue, InvokeSuspended, InvokeLock,
       InvokeLeave, InvokeUnlock, InvokeProbe, Test, Add, TryEmpty, WakeupTest,
       DropRunning, Call, Submit, otherVars, outerVars, itemVars, orderVars
<1>10. ASSUME NEW t \in Workers, RedirectStep(t)  PROVE Steps
  <2>1. CASE RedirectSub(t)
      BY <1>10, <2>1, <1>b DEF RedirectSub, Test, Add, TryEmpty, WakeupTest,
         DropRunning, Call, Submit, otherVars, outerVars, itemVars, orderVars
  <2>2. CASE TakeRedirected(t)
      BY <1>0, <2>2
         DEF TakeRedirected, NoReaders, QueueInv, ItemsInv, WorksOK, Shape,
             Pointers, Items
  <2>3. CASE RunBeside(t)
    <3>1. obj[t] \in Works /\ kind[obj[t]] = "async"
        BY <1>0, <1>10, <2>3
           DEF RunBeside, At, QueueInv, ItemsInv, WorksOK, Bears
    <3>2. QED
        BY <1>0, <3>1 DEF NoReaders, Items
  <2>4. QED
      BY <1>10, <2>1, <2>2, <2>3, Zenon DEF RedirectStep
<1>11. ASSUME NEW t \in Workers, DrainStep(t)  PROVE Steps
  <2>1. CASE DrainTail(t) \/ DrainHead(t) \/ DrainNext(t) \/ DrainLast(t) \/
            DrainSpin(t) \/ DrainSuspended(t)
      BY <1>11, <2>1, <1>b DEF DrainTail, DrainHead, DrainNext, DrainLast,
         DrainSpin, DrainSuspended, Test, Add, TryEmpty, WakeupTest,
         DropRunning, Call, Submit, otherVars, outerVars, itemVars, orderVars
  <2>2. CASE DrainPop(t)
    <3>1. CASE UNCHANGED <<state, fifo>>
        BY <1>b, <3>1
    <3>2. CASE running <= 1 /\ Pop(t)
      <4>1. pc[t] = "dpop"
          BY <2>2 DEF DrainPop, At
      <4>2. Turn = {}
          BY <1>0, <1>11, <3>2, <4>1, OneTurn DEF Ready
      <4>3. state[obj[t]] = "queued" /\ obj[t] \in Items
          BY <1>0, <1>11, <4>1, QueueFinds
             DEF Finds, Ripe, QueueInv, ListInv, Sequence, Fronts
      <4>4. PICK s \in {"running", "taken"} :
              /\ state' = [state EXCEPT ![obj[t]] = s]
              /\ fifo' = RemoveFirst(fifo, obj[t])
          BY <3>2 DEF Pop, Take, Set
      <4>5. QED
          BY <1>d, <4>2, <4>3, <4>4
    <3>3. CASE running > 1
      <4>1. state[obj[t]] = "queued" /\ obj[t] \in Items
          BY <1>0, <1>11, <2>2, QueueFinds
             DEF DrainPop, At, Finds, Ripe, QueueInv, ListInv, Sequence, Fronts
      <4>2. kind[obj[t]] \in {"barrier", "barriersync"}
        <5>1. kind[obj[t]] \in {"none", "barrier", "barriersync"}
            BY <1>0, <4>1 DEF NoReaders
        <5>2. kind[obj[t]] # "none"
            BY <1>0, <4>1
               DEF QueueInv, ItemsInv, WorksOK, CallerOK, Items
        <5>3. QED
            BY <5>1, <5>2
      <4>3. UNCHANGED <<state, orderVars>>
          BY <2>2, <4>2, <3>3 DEF DrainPop
      <4>4. QED
          BY <1>b, <4>3 DEF orderVars
    <3>4. QED
        BY <1>0, <2>2, <3>1, <3>2, <3>3 DEF DrainPop, orderVars
  <2>3. QED
      BY <1>11, <2>1, <2>2, Zenon DEF DrainStep
<1>12. ASSUME NEW t \in Workers, PopStep(t)  PROVE Steps
  <2>1. CASE GrantSuspend(t) \/ GrantRunning(t) \/ GrantSignal(t) \/
            DrainRedirect(t)
      BY <1>12, <2>1, <1>b DEF GrantSuspend, GrantRunning, GrantSignal,
         DrainRedirect, Test, Add, TryEmpty, WakeupTest, DropRunning, Call,
         Submit, otherVars, outerVars, itemVars, orderVars
  <2>2. CASE RunItem(t)
    <3>1. /\ state[obj[t]] = "running" /\ UNCHANGED fifo /\ obj[t] \in Items
          /\ state' = [state EXCEPT ![obj[t]] = "done"]
        BY <1>0, <1>12, <2>2
           DEF RunItem, At, Finish, Set, orderVars, QueueInv, ItemsInv,
               WorksOK, Bears, Items
    <3>2. QED
        BY <1>0, <1>c, <3>1
  <2>3. QED
      BY <1>12, <2>1, <2>2, Zenon DEF PopStep
<1>13. ASSUME NEW t \in Workers, PutBackStep(t)  PROVE Steps
    BY <1>13, <1>b DEF PutBackStep, PutBackTail, PutBackSpin, PutBackHead,
       Test, Add, TryEmpty, WakeupTest, DropRunning, Call, Submit, otherVars,
       outerVars, itemVars, orderVars
<1>14. ASSUME Release  PROVE Steps
    BY <1>b, <1>14 DEF Release, itemVars, orderVars
<1>15. ASSUME UNCHANGED queueVars  PROVE Steps
    BY <1>b, <1>15 DEF queueVars, otherVars, orderVars
<1>16. QED
    BY <1>1, <1>2, <1>3, <1>4, <1>5, <1>6, <1>7, <1>8, <1>9, <1>10, <1>11,
       <1>12, <1>13, <1>14, <1>15, NextCases DEF Steps

\* A queue of width 1 implements a serial queue: its items take their turns one
\* at a time and in the order in which they were queued, except for callers
\* that find nobody in the queue and do not queue.
THEOREM SerialQueueImplemented ==
  ASSUME Width = 1
  PROVE  Spec => ImplementsSerialQueue
<1>1. Init => Serial!Init
    BY QueueAssumption DEF Init, Serial!Init
<1>2. Shape /\ SerialInv /\ [Next]_queueVars => SerialInv'
    BY StepLocked, StepRunners DEF SerialInv
<1>3. QueueInv => Shape
    BY DEF QueueInv
<1>4. QueueInv /\ Handed /\ SerialInv /\ [Next]_queueVars
        => [Serial!Next]_Serial!specVars
    BY StepSerial DEF SerialInv
<1>5. QED
    BY <1>1, <1>2, <1>3, <1>4, InitSerial, QueueInvariant, QueueHanded, PTL
       DEF Spec, ImplementsSerialQueue, Serial!Spec

-----------------------------------------------------------------------------
(* do_suspend_cnt                                                          *)

\* A thread with a barrier that was granted and that keeps the queue suspended,
\* from the moment the suspension is added until it is taken back.
Suspends(t) ==
    \/ pc[t] \in {"srun", "stest", "sspin", "ssub", "oneinc", "onesig"}
    \/ HandsOver(t)
    \/ pc[t] \in {"xrun", "signal"} /\ kind[obj[t]] = "barriersync"

\* There is one such barrier at most.
Guarded == (\E t \in Threads : Suspends(t)) \/ \E c \in Clients : Told(c)

\* do_suspend_cnt is what the clients suspended, the suspension of a granted
\* barrier and the low bit.
SuspInv == \E b \in {0, 1} : susp = 2 * (suspended + One(Guarded)) + b

\* What a step changes of do_suspend_cnt, and of the threads that have it
\* suspended: nothing of either; the suspensions of the clients or the low bit;
\* a suspension for a barrier that is granted, or its end; or the thread that
\* has it.
Kept == /\ \A u \in Threads : Suspends(u)' <=> Suspends(u)
        /\ \A c \in Clients : Told(c)' <=> Told(c)
Counts == \/ UNCHANGED <<susp, suspended>>
          \/ \E d \in {-1, 1} : /\ suspended' = suspended + d
                                /\ susp' = susp + 2 * d
          \/ /\ UNCHANGED suspended
             /\ \/ susp = 0 /\ susp' = 1
                \/ susp % 2 = 1 /\ susp' = susp - 1
Begins == /\ ~Guarded /\ susp' = susp + 2 /\ UNCHANGED suspended
          /\ \E t \in Threads : Suspends(t)'
Quits == /\ susp' = susp - 2 /\ UNCHANGED suspended
         /\ \E t \in Threads : Suspends(t)
         /\ \A t \in Threads : ~Suspends(t)'
         /\ \A c \in Clients : ~Told(c)'
Passes == UNCHANGED <<susp, suspended>> /\ (Guarded' <=> Guarded)
SuspStep == (Kept /\ Counts) \/ Begins \/ Quits \/ Passes

\* One barrier at a time is granted, so that one has the queue suspended.
LEMMA OneSuspends ==
  ASSUME Shape, ItemsInv, RunInv, ExclInv, NEW t \in Threads, Suspends(t)
  PROVE  /\ \A u \in Threads : Suspends(u) => u = t
         /\ \A c \in Clients : ~Told(c)
<1> DEFINE Mine(u) == (Sole(u) /\ Holds(u)) \/ Barrier(u)
<1>1. \A u \in Threads : Suspends(u) => Mine(u)
    BY DEF Suspends, Shape, Place, Sole, Holds, Fast, Barrier, HandsOver,
           SlowLocs, OneLocs, DrainLocs
<1>2. \A u \in Threads : Barrier(u) => Entered(u)
    BY DEF Barrier, Entered, SlowLocs
<1>3. \A u, v \in Threads : Mine(u) /\ Mine(v) => u = v
    BY <1>2 DEF RunInv, ExclInv, SoleAlone, OneBarrier
<1>4. \A u \in Threads : Mine(u) => \A c \in Clients : ~Told(c)
    BY DEF ExclInv, SoleAlone, OneTold, Told
<1>5. QED
    BY <1>1, <1>3, <1>4

\* Nobody has it suspended when a thread that has the queue to itself grants a
\* barrier.
LEMMA NobodySuspends ==
  ASSUME Shape, ItemsInv, RunInv, ExclInv, NEW t \in Threads,
         pc[t] \in {"xsusp", "oneadd"}
  PROVE  ~Guarded
<1> DEFINE Mine(u) == (Sole(u) /\ Holds(u)) \/ Barrier(u)
<1>1. \A u \in Threads : Suspends(u) => Mine(u)
    BY DEF Suspends, Shape, Place, Sole, Holds, Fast, Barrier, HandsOver,
           SlowLocs, OneLocs, DrainLocs
<1>2. \A u \in Threads : Barrier(u) => Entered(u)
    BY DEF Barrier, Entered, SlowLocs
<1>3. Sole(t) /\ Holds(t) /\ ~Suspends(t)
    BY DEF Suspends, Shape, Place, Sole, Holds, Fast, HandsOver, OneLocs,
           DrainLocs
<1>4. \A u \in Threads : Mine(u) => u = t
    BY <1>2, <1>3 DEF RunInv, ExclInv, SoleAlone
<1>5. \A c \in Clients : ~Told(c)
    BY <1>3 DEF ExclInv, SoleAlone, Told
<1>6. QED
    BY <1>1, <1>3, <1>4, <1>5 DEF Guarded

\* The low bit is set while a worker has the queue.
LEMMA RootOdd ==
  ASSUME RootInv, NEW t \in Threads, pc[t] \in InvokeLocs
  PROVE  susp % 2 = 1
<1>1. /\ Pushing \in Nat /\ Invoking \in Nat /\ Invoking > 0
    BY QueueAssumption, CountType DEF Pushing, Invoking
<1> HIDE DEF Pushing, Invoking
<1>2. QED
    BY <1>1 DEF RootInv

\* Every step changes do_suspend_cnt together with what it counts.
LEMMA StepSusp ==
  ASSUME Shape, RootInv, ItemsInv, RunInv, ExclInv, suspended \in Nat,
         \A t \in Threads : Finds(t), [Next]_queueVars
  PROVE  SuspStep
<1> USE QueueAssumption
    DEF Threads, Items, Locs, Returns, ClientLocs, WorkerLocs, ItemLocs,
        PushLocs, WakeupLocs, AsyncLocs, SyncLocs, FastLocs, SlowLocs, OneLocs,
        DrainLocs, InvokeLocs, queueVars, wordVars, lockVars, otherVars,
        outerVars, itemVars, listVars, worldVars, objectVars, rootVars,
        localVars, orderVars, Set, Goto, At, MayCall, Test, Add, TryEmpty,
        Finish, CallWakeup, Return, WakeupTest, DropRunning, DropReference,
        Pushed, Submit, Call, Enter, Run, Take, Dequeued, Pop, Proceed
<1> USE DEF Shape, Pointers, Place, ItemsInv, History, GrantsOK, WorksOK,
        CallerOK, Finds, Ripe, Waiting, Granting, Bears, Suspends, HandsOver,
        Told, SuspStep, Kept, Counts, INTERVAL, LOCK
<1>0. Clients \subseteq Threads /\ Workers \subseteq Threads /\ susp \in Int
      /\ suspended \in Nat
    BY DEF RootInv
<1> HIDE DEF RootInv, RunInv, ExclInv
<1>1. ASSUME NEW t \in Threads, WakeupStep(t)  PROVE SuspStep
  <2>1. CASE WakeupSuspended(t) \/ WakeupTail(t) \/ WakeupPush(t) \/
            ReleaseInternal(t)
      BY <1>1, <2>1, <1>0 DEF WakeupSuspended, WakeupTail, WakeupPush,
         ReleaseInternal
  <2>2. CASE WakeupLock(t)
      BY <1>1, <2>2, <1>0 DEF WakeupLock
  <2>3. QED
      BY <1>1, <2>1, <2>2, Zenon DEF WakeupStep
<1>2. ASSUME NEW t \in Clients, CallStep(t)  PROVE SuspStep
  <2>1. CASE Async(t)
    <3>1. UNCHANGED <<susp, suspended>>
        BY <2>1 DEF Async
    <3>2. Kept
        BY <1>2, <2>1, <1>0 DEF Async
    <3>3. QED
        BY <3>1, <3>2
  <2>2. CASE BarrierAsync(t)
      BY <1>2, <2>2, <1>0 DEF BarrierAsync
  <2>3. CASE Sync(t)
      BY <1>2, <2>3, <1>0 DEF Sync
  <2>4. CASE BarrierSync(t)
      BY <1>2, <2>4, <1>0 DEF BarrierSync
  <2>5. CASE Suspend(t)
      BY <1>2, <2>5, <1>0 DEF Suspend
  <2>6. CASE Resume(t)
    <3>1. suspended' = suspended + (-1) /\ susp' = susp + 2 * (-1)
        BY <2>6, <1>0 DEF Resume
    <3>2. Kept
        BY <1>2, <2>6 DEF Resume
    <3>3. QED
        BY <3>1, <3>2
  <2>7. QED
      BY <1>2, <2>1, <2>2, <2>3, <2>4, <2>5, <2>6, Zenon DEF CallStep
<1>3. ASSUME NEW t \in Clients, PushStep(t)  PROVE SuspStep
  <2>1. CASE Swap(t)
      BY <1>3, <2>1, <1>0 DEF Swap
  <2>2. CASE Link(t)
      BY <1>3, <2>2, <1>0 DEF Link
  <2>3. CASE SetHead(t)
      BY <1>3, <2>3, <1>0 DEF SetHead
  <2>4. QED
      BY <1>3, <2>1, <2>2, <2>3, Zenon DEF PushStep
<1>4. ASSUME NEW t \in Clients, AsyncStep(t)  PROVE SuspStep
  <2>1. CASE AsyncTail(t)
      BY <1>4, <2>1, <1>0 DEF AsyncTail
  <2>2. CASE AsyncSuspended(t)
      BY <1>4, <2>2, <1>0 DEF AsyncSuspended
  <2>3. CASE AsyncAdd(t)
      BY <1>4, <2>3, <1>0 DEF AsyncAdd
  <2>4. CASE AsyncOver(t)
      BY <1>4, <2>4, <1>0 DEF AsyncOver
  <2>5. CASE AsyncOdd(t)
      BY <1>4, <2>5, <1>0 DEF AsyncOdd
  <2>6. CASE AsyncRedirect(t)
      BY <1>4, <2>6, <1>0 DEF AsyncRedirect
  <2>7. QED
      BY <1>4, <2>1, <2>2, <2>3, <2>4, <2>5, <2>6, Zenon DEF AsyncStep
<1>5. ASSUME NEW t \in Clients, SyncStep(t)  PROVE SuspStep
  <2>1. CASE SyncTail(t)
      BY <1>5, <2>1, <1>0 DEF SyncTail
  <2>2. CASE SyncSuspended(t)
      BY <1>5, <2>2, <1>0 DEF SyncSuspended
  <2>3. CASE SyncAdd(t)
      BY <1>5, <2>3, <1>0 DEF SyncAdd
  <2>4. CASE SyncBack(t)
      BY <1>5, <2>4, <1>0 DEF SyncBack
  <2>5. CASE SyncRun(t)
      BY <1>5, <2>5, <1>0 DEF SyncRun
  <2>6. CASE SyncSub(t)
      BY <1>5, <2>6, <1>0 DEF SyncSub
  <2>7. CASE Wait(t)
    <3>1. /\ UNCHANGED <<susp, suspended>>
          /\ sema[t] = 1 /\ sema'[t] = 0 /\ ~Suspends(t)
          /\ \A u \in Threads : u # t => (Suspends(u)' <=> Suspends(u))
          /\ \A c \in Clients : c # t => (Told(c)' <=> Told(c))
        BY <1>5, <2>7 DEF Wait
    <3>2. Told(t) <=> kind[t] = "barriersync"
        BY <1>5, <3>1
    <3>3. Suspends(t)' <=> kind[t] = "barriersync"
      <4>1. kind[t] \in {"sync", "barriersync"}
          BY <1>5, <2>7 DEF Wait
      <4>2. QED
          BY <1>5, <2>7, <4>1 DEF Wait
    <3>4. ~Told(t)'
        BY <1>5, <3>1
    <3>5. QED
        BY <1>5, <3>1, <3>2, <3>3, <3>4 DEF Passes, Guarded
  <2>8. QED
      BY <1>5, <2>1, <2>2, <2>3, <2>4, <2>5, <2>6, <2>7, Zenon DEF SyncStep
<1>6. ASSUME NEW t \in Clients, BarrierStep(t)  PROVE SuspStep
    BY <1>6, <1>0 DEF BarrierStep, BarrierTail, BarrierSuspended, BarrierLock,
       BarrierRun, BarrierCheck, TransferSuspended, BarrierUnlock
<1>7. ASSUME NEW t \in Clients, SlowStep(t)  PROVE SuspStep
  <2>1. CASE SlowRun(t)
      BY <1>7, <2>1, <1>0 DEF SlowRun
  <2>2. CASE SlowTest(t)
      BY <1>7, <2>2, <1>0 DEF SlowTest
  <2>3. CASE SlowSpin(t)
      BY <1>7, <2>3, <1>0 DEF SlowSpin
  <2>4. CASE SlowUnlock(t)
      BY <1>7, <2>4, <1>0 DEF SlowUnlock
  <2>5. CASE SlowResume(t)
    <3>1. /\ pc[t] = "ssub" /\ ~Suspends(t)' /\ susp' = susp - 2
          /\ UNCHANGED suspended
          /\ \A u \in Threads : u # t => (Suspends(u)' <=> Suspends(u))
          /\ \A c \in Clients : Told(c)' <=> Told(c)
      <4>1. pc[t] = "ssub" /\ susp' = susp - 2 /\ UNCHANGED suspended
          BY <1>7, <2>5 DEF SlowResume
      <4>2. ~Suspends(t)'
          BY <1>7, <2>5 DEF SlowResume
      <4>3. \A u \in Threads : u # t => (Suspends(u)' <=> Suspends(u))
          BY <1>7, <2>5 DEF SlowResume
      <4>4. \A c \in Clients : Told(c)' <=> Told(c)
          BY <1>7, <2>5 DEF SlowResume
      <4>5. QED
          BY <4>1, <4>2, <4>3, <4>4
    <3>2. /\ Suspends(t) /\ \A u \in Threads : u # t => ~Suspends(u)
          /\ \A c \in Clients : ~Told(c)
        BY <1>7, <3>1, OneSuspends
    <3>3. QED
        BY <1>7, <3>1, <3>2 DEF Quits
  <2>6. QED
      BY <1>7, <2>1, <2>2, <2>3, <2>4, <2>5, Zenon DEF SlowStep
<1>8. ASSUME NEW t \in Clients, HandOverStep(t)  PROVE SuspStep
  <2>1. CASE OneHead(t)
      BY <1>8, <2>1, <1>0 DEF OneHead
  <2>2. CASE OneTail(t)
      BY <1>8, <2>2, <1>0 DEF OneTail
  <2>3. CASE OneSpin(t)
      BY <1>8, <2>3, <1>0 DEF OneSpin
  <2>4. CASE TransferRunning(t)
      BY <1>8, <2>4, <1>0 DEF TransferRunning
  <2>5. CASE TransferSuspend(t)
    <3>1. /\ pc[t] = "oneadd" /\ Suspends(t)' /\ susp' = susp + 2
          /\ UNCHANGED suspended
        BY <1>8, <2>5 DEF TransferSuspend
    <3>2. QED
        BY <1>8, <3>1, NobodySuspends DEF Begins
  <2>6. CASE TransferSignal(t)
    <3>1. /\ UNCHANGED <<susp, suspended>> /\ obj[t] \in Clients
          /\ pc[t] = "onesig" /\ kind[obj[t]] = "barriersync"
          /\ \A u \in Threads : u # t => (Suspends(u)' <=> Suspends(u))
          /\ ~Suspends(t)'
          /\ \A c \in Clients : Told(c)' <=> Told(c) \/ c = obj[t]
        BY <1>8, <2>6 DEF TransferSignal
    <3>2. Suspends(t)
        BY <3>1
    <3>3. QED
        BY <1>8, <3>1, <3>2 DEF Passes, Guarded
  <2>7. QED
      BY <1>8, <2>1, <2>2, <2>3, <2>4, <2>5, <2>6, Zenon DEF HandOverStep
<1>9. ASSUME NEW t \in Workers, InvokeStep(t)  PROVE SuspStep
  <2>1. CASE TakeQueue(t) \/ InvokeSuspended(t) \/ InvokeLock(t) \/
            InvokeLeave(t) \/ InvokeProbe(t)
      BY <1>9, <2>1, <1>0 DEF TakeQueue, InvokeSuspended, InvokeLock,
         InvokeLeave, InvokeProbe
  <2>2. CASE InvokeUnlock(t)
    <3>1. pc[t] \in InvokeLocs /\ susp' = susp - 1
        BY <2>2 DEF InvokeUnlock
    <3>2. susp % 2 = 1
        BY <1>9, <3>1, RootOdd
    <3>3. /\ UNCHANGED <<kind, obj, ret, sema, suspended>>
          /\ pc' = [pc EXCEPT ![t] = IF susp = LOCK THEN "probe"
                                                    ELSE "release"]
        BY <2>2 DEF InvokeUnlock
    <3>4. Kept
        BY <1>9, <2>2, <3>3 DEF InvokeUnlock
    <3>5. QED
        BY <3>1, <3>2, <3>3, <3>4
  <2>3. QED
      BY <1>9, <2>1, <2>2, Zenon DEF InvokeStep
<1>10. ASSUME NEW t \in Workers, RedirectStep(t)  PROVE SuspStep
    BY <1>10, <1>0 DEF RedirectStep, TakeRedirected, RunBeside, RedirectSub
<1>11. ASSUME NEW t \in Workers, DrainStep(t)  PROVE SuspStep
  <2>1. CASE DrainTail(t)
      BY <1>11, <2>1, <1>0 DEF DrainTail
  <2>2. CASE DrainHead(t)
      BY <1>11, <2>2, <1>0 DEF DrainHead
  <2>3. CASE DrainNext(t)
      BY <1>11, <2>3, <1>0 DEF DrainNext
  <2>4. CASE DrainLast(t)
      BY <1>11, <2>4, <1>0 DEF DrainLast
  <2>5. CASE DrainSpin(t)
      BY <1>11, <2>5, <1>0 DEF DrainSpin
  <2>6. CASE DrainSuspended(t)
      BY <1>11, <2>6, <1>0 DEF DrainSuspended
  <2>7. CASE DrainPop(t)
      BY <1>11, <2>7, <1>0 DEF DrainPop
  <2>8. QED
      BY <1>11, <2>1, <2>2, <2>3, <2>4, <2>5, <2>6, <2>7, Zenon DEF DrainStep
<1>12. ASSUME NEW t \in Workers, PopStep(t)  PROVE SuspStep
  <2>1. CASE RunItem(t)
      BY <1>12, <2>1, <1>0 DEF RunItem
  <2>2. CASE GrantRunning(t)
      BY <1>12, <2>2, <1>0 DEF GrantRunning
  <2>3. CASE DrainRedirect(t)
      BY <1>12, <2>3, <1>0 DEF DrainRedirect
  <2>4. CASE GrantSuspend(t)
    <3>1. /\ pc[t] = "xsusp" /\ Suspends(t)' /\ susp' = susp + 2
          /\ UNCHANGED suspended
        BY <1>12, <2>4 DEF GrantSuspend
    <3>2. QED
        BY <1>12, <3>1, NobodySuspends DEF Begins
  <2>5. CASE GrantSignal(t)
    <3>1. /\ UNCHANGED <<susp, suspended>> /\ obj[t] \in Clients
          /\ pc[t] = "signal"
          /\ \A u \in Threads : u # t => (Suspends(u)' <=> Suspends(u))
          /\ ~Suspends(t)'
          /\ \A c \in Clients :
               Told(c)' <=> Told(c) \/ (c = obj[t] /\ kind[c] = "barriersync")
        BY <1>12, <2>5 DEF GrantSignal
    <3>2. Suspends(t) <=> kind[obj[t]] = "barriersync"
        BY <1>12, <3>1
    <3>3. QED
        BY <1>12, <3>1, <3>2 DEF Passes, Guarded
  <2>6. QED
      BY <1>12, <2>1, <2>2, <2>3, <2>4, <2>5, Zenon DEF PopStep
<1>13. ASSUME NEW t \in Workers, PutBackStep(t)  PROVE SuspStep
  <2>1. CASE PutBackTail(t)
      BY <1>13, <2>1, <1>0 DEF PutBackTail
  <2>2. CASE PutBackSpin(t)
      BY <1>13, <2>2, <1>0 DEF PutBackSpin
  <2>3. CASE PutBackHead(t)
      BY <1>13, <2>3, <1>0 DEF PutBackHead
  <2>4. QED
      BY <1>13, <2>1, <2>2, <2>3, Zenon DEF PutBackStep
<1>14. ASSUME Release  PROVE SuspStep
    BY <1>14 DEF Release
<1>15. ASSUME UNCHANGED queueVars  PROVE SuspStep
    BY <1>15
<1>16. QED
    BY <1>1, <1>2, <1>3, <1>4, <1>5, <1>6, <1>7, <1>8, <1>9, <1>10, <1>11,
       <1>12, <1>13, <1>14, <1>15, NextCases

\* So what it says of the suspensions stays true.
LEMMA MoveSusp ==
  ASSUME SuspInv, suspended \in Nat, suspended' \in Nat, SuspStep
  PROVE  SuspInv'
<1>1. PICK b \in {0, 1} : susp = 2 * (suspended + One(Guarded)) + b
    BY DEF SuspInv
<1>2. One(Guarded) \in {0, 1}
    BY DEF One
<1>3. CASE Kept /\ Counts
  <2>1. Guarded' <=> Guarded
      BY <1>3 DEF Kept, Guarded
  <2>2. One(Guarded)' = One(Guarded)
      BY <2>1 DEF One
  <2>3. \E c \in {0, 1} : susp' = 2 * (suspended' + One(Guarded)) + c
      <3> HIDE DEF One, Guarded
      <3>1. CASE UNCHANGED <<susp, suspended>>
          BY <1>1, <3>1
      <3>2. ASSUME NEW d \in {-1, 1}, suspended' = suspended + d,
                   susp' = susp + 2 * d
            PROVE  \E c \in {0, 1} :
                      susp' = 2 * (suspended' + One(Guarded)) + c
          BY <1>1, <1>2, <3>2
      <3>3. CASE UNCHANGED suspended /\ susp = 0 /\ susp' = 1
          BY <1>1, <1>2, <3>3
      <3>4. CASE UNCHANGED suspended /\ susp % 2 = 1 /\ susp' = susp - 1
          BY <1>1, <1>2, <3>4
      <3>5. QED
          BY <1>3, <3>1, <3>2, <3>3, <3>4 DEF Counts
  <2>4. QED
      BY <2>2, <2>3 DEF SuspInv
<1>4. CASE Begins
  <2>1. One(Guarded) = 0 /\ One(Guarded)' = 1
      BY <1>4 DEF Begins, Guarded, One
  <2>2. QED
      BY <1>1, <1>4, <2>1 DEF Begins, SuspInv
<1>5. CASE Quits
  <2>1. One(Guarded) = 1 /\ One(Guarded)' = 0
      BY <1>5 DEF Quits, Guarded, One
  <2>2. QED
      BY <1>1, <1>5, <2>1 DEF Quits, SuspInv
<1>6. CASE Passes
  <2>1. One(Guarded)' = One(Guarded)
      BY <1>6 DEF Passes, One
  <2>2. QED
      BY <1>1, <1>6, <2>1 DEF Passes, SuspInv
<1>7. QED
    BY <1>3, <1>4, <1>5, <1>6 DEF SuspStep

-----------------------------------------------------------------------------
(* References                                                              *)

\* A thread that owns a reference: it gives it back at the end of its call.
Refers(t) == \/ pc[t] \in {"release", "probe", "runbeside", "rsub"}
                             \cup InvokeLocs
             \/ pc[t] \in WakeupLocs /\ ret[t] = "release"
Refs      == [t \in Threads |-> One(Refers(t))]
Referrers == CountAt(Threads, Refs, {1})

\* The references: the client's own, one for each suspension, for the place on
\* the target queue's list, for each redirected item, and those of threads.
RefInv == fate # "suspended" =>
            refcnt = (1 - released) + suspended + onRoot + Sent + Referrers

\* The values of the words that no other part of the invariant speaks of.
Words == /\ suspended \in Nat /\ released \in {0, 1} /\ refcnt \in Int
         /\ fate \in {"live", "disposed", "items_enqueued", "suspended"}

\* A step changes the count by what it changes of the owners: of its thread,
\* of the clients' suspensions, of the list and of n redirected items.
RefBy(t, n) ==
    refcnt' = refcnt + (suspended' - suspended) + (onRoot' - onRoot) + n
                + (Refs'[t] - Refs[t])

RefMove(t) ==
    /\ \A u \in Threads : u # t => pc'[u] = pc[u] /\ ret'[u] = ret[u]
    /\ UNCHANGED released /\ fate # "suspended"
    /\ \/ UNCHANGED redirected /\ RefBy(t, 0)
       \/ /\ \E w \in Works : w \notin redirected
                              /\ redirected' = redirected \cup {w}
          /\ RefBy(t, 1)
       \/ /\ \E w \in Works : w \in redirected
                              /\ redirected' = redirected \ {w}
          /\ RefBy(t, -1)

\* Every step but the client's release changes the count in this way.
LEMMA StepRefs ==
  ASSUME Shape, Shape', ItemsInv, Words, onRoot \in Nat, Next
  PROVE  Release \/ \E t \in Threads : RefMove(t)
<1> USE QueueAssumption
    DEF Threads, Items, Locs, Returns, ClientLocs, WorkerLocs, ItemLocs,
        PushLocs, WakeupLocs, AsyncLocs, SyncLocs, FastLocs, SlowLocs, OneLocs,
        DrainLocs, InvokeLocs, queueVars, wordVars, lockVars, otherVars,
        outerVars, itemVars, listVars, worldVars, objectVars, rootVars,
        localVars, orderVars, Set, Goto, At, MayCall, Test, Add, TryEmpty,
        Finish, CallWakeup, Return, WakeupTest, DropRunning, DropReference,
        Pushed, Submit, Call, Enter, Run, Take, Dequeued, Pop, Proceed
<1>0. /\ Clients \subseteq Threads /\ Workers \subseteq Threads
      /\ suspended \in Nat /\ refcnt \in Int /\ onRoot \in Nat
    BY DEF Words
<1>1. ASSUME NEW t \in Threads, WakeupStep(t)  PROVE RefMove(t)
  <2>1. CASE WakeupSuspended(t)
      BY <1>1, <2>1, <1>0 DEF WakeupSuspended, Shape, Pointers, Place, RefMove,
         RefBy, Refs, One, Refers
  <2>2. CASE WakeupTail(t)
      BY <1>1, <2>2, <1>0 DEF WakeupTail, Shape, Pointers, Place, RefMove,
         RefBy, Refs, One, Refers
  <2>3. CASE WakeupLock(t)
      BY <1>1, <2>3, <1>0 DEF WakeupLock, Shape, Pointers, Place, RefMove,
         RefBy, Refs, One, Refers
  <2>4. CASE WakeupPush(t)
      BY <1>1, <2>4, <1>0 DEF WakeupPush, Shape, Pointers, Place, RefMove,
         RefBy, Refs, One, Refers
  <2>5. CASE ReleaseInternal(t)
      BY <1>1, <2>5, <1>0 DEF ReleaseInternal, Shape, Pointers, Place, RefMove,
         RefBy, Refs, One, Refers
  <2>6. QED
      BY <1>1, <2>1, <2>2, <2>3, <2>4, <2>5, Zenon DEF WakeupStep
<1>2. ASSUME NEW t \in Clients, CallStep(t)  PROVE RefMove(t)
  <2>1. CASE Async(t)
      BY <1>2, <2>1, <1>0 DEF Async, Shape, Pointers, Place, RefMove, RefBy,
         Refs, One, Refers
  <2>2. CASE BarrierAsync(t)
      BY <1>2, <2>2, <1>0 DEF BarrierAsync, Shape, Pointers, Place, RefMove,
         RefBy, Refs, One, Refers
  <2>3. CASE Sync(t)
      BY <1>2, <2>3, <1>0 DEF Sync, Shape, Pointers, Place, RefMove, RefBy,
         Refs, One, Refers
  <2>4. CASE BarrierSync(t)
      BY <1>2, <2>4, <1>0 DEF BarrierSync, Shape, Pointers, Place, RefMove,
         RefBy, Refs, One, Refers
  <2>5. CASE Suspend(t)
      BY <1>2, <2>5, <1>0 DEF Suspend, Shape, Pointers, Place, RefMove, RefBy,
         Refs, One, Refers
  <2>6. CASE Resume(t)
      BY <1>2, <2>6, <1>0 DEF Resume, Shape, Pointers, Place, RefMove, RefBy,
         Refs, One, Refers
  <2>7. QED
      BY <1>2, <2>1, <2>2, <2>3, <2>4, <2>5, <2>6, Zenon DEF CallStep
<1>3. ASSUME NEW t \in Clients, PushStep(t)  PROVE RefMove(t)
  <2>1. CASE Swap(t)
      BY <1>3, <2>1, <1>0 DEF Swap, Shape, Pointers, Place, RefMove, RefBy,
         Refs, One, Refers
  <2>2. CASE Link(t)
      BY <1>3, <2>2, <1>0 DEF Link, Shape, Pointers, Place, RefMove, RefBy,
         Refs, One, Refers
  <2>3. CASE SetHead(t)
      BY <1>3, <2>3, <1>0 DEF SetHead, Shape, Pointers, Place, RefMove, RefBy,
         Refs, One, Refers
  <2>4. QED
      BY <1>3, <2>1, <2>2, <2>3, Zenon DEF PushStep
<1>4. ASSUME NEW t \in Clients, AsyncStep(t)  PROVE RefMove(t)
  <2>1. CASE AsyncTail(t)
      BY <1>4, <2>1, <1>0 DEF AsyncTail, Shape, Pointers, Place, RefMove,
         RefBy, Refs, One, Refers
  <2>2. CASE AsyncSuspended(t)
      BY <1>4, <2>2, <1>0 DEF AsyncSuspended, Shape, Pointers, Place, RefMove,
         RefBy, Refs, One, Refers
  <2>3. CASE AsyncAdd(t)
      BY <1>4, <2>3, <1>0 DEF AsyncAdd, Shape, Pointers, Place, RefMove, RefBy,
         Refs, One, Refers
  <2>4. CASE AsyncOver(t)
      BY <1>4, <2>4, <1>0 DEF AsyncOver, Shape, Pointers, Place, RefMove,
         RefBy, Refs, One, Refers
  <2>5. CASE AsyncOdd(t)
      BY <1>4, <2>5, <1>0 DEF AsyncOdd, Shape, Pointers, Place, RefMove, RefBy,
         Refs, One, Refers
  <2>6. CASE AsyncRedirect(t)
    <3>1. obj[t] \in Works /\ obj[t] \notin redirected
        BY <1>0, <1>4, <2>6
           DEF AsyncRedirect, Shape, Place, ItemsInv, WorksOK, Bears
    <3>2. QED
        BY <1>0, <1>4, <2>6, <3>1 DEF AsyncRedirect, Shape, Pointers, Place,
           RefMove, RefBy, Refs, One, Refers
  <2>7. QED
      BY <1>4, <2>1, <2>2, <2>3, <2>4, <2>5, <2>6, Zenon DEF AsyncStep
<1>5. ASSUME NEW t \in Clients, SyncStep(t)  PROVE RefMove(t)
  <2>1. CASE SyncTail(t)
      BY <1>5, <2>1, <1>0 DEF SyncTail, Shape, Pointers, Place, RefMove, RefBy,
         Refs, One, Refers
  <2>2. CASE SyncSuspended(t)
      BY <1>5, <2>2, <1>0 DEF SyncSuspended, Shape, Pointers, Place, RefMove,
         RefBy, Refs, One, Refers
  <2>3. CASE SyncAdd(t)
      BY <1>5, <2>3, <1>0 DEF SyncAdd, Shape, Pointers, Place, RefMove, RefBy,
         Refs, One, Refers
  <2>4. CASE SyncBack(t)
      BY <1>5, <2>4, <1>0 DEF SyncBack, Shape, Pointers, Place, RefMove, RefBy,
         Refs, One, Refers
  <2>5. CASE SyncRun(t)
      BY <1>5, <2>5, <1>0 DEF SyncRun, Shape, Pointers, Place, RefMove, RefBy,
         Refs, One, Refers
  <2>6. CASE SyncSub(t)
      BY <1>5, <2>6, <1>0 DEF SyncSub, Shape, Pointers, Place, RefMove, RefBy,
         Refs, One, Refers
  <2>7. CASE Wait(t)
      BY <1>5, <2>7, <1>0 DEF Wait, Shape, Pointers, Place, RefMove, RefBy,
         Refs, One, Refers
  <2>8. QED
      BY <1>5, <2>1, <2>2, <2>3, <2>4, <2>5, <2>6, <2>7, Zenon DEF SyncStep
<1>6. ASSUME NEW t \in Clients, BarrierStep(t)  PROVE RefMove(t)
  <2>1. CASE BarrierTail(t)
      BY <1>6, <2>1, <1>0 DEF BarrierTail, Shape, Pointers, Place, RefMove,
         RefBy, Refs, One, Refers
  <2>2. CASE BarrierSuspended(t)
      BY <1>6, <2>2, <1>0 DEF BarrierSuspended, Shape, Pointers, Place,
         RefMove, RefBy, Refs, One, Refers
  <2>3. CASE BarrierLock(t)
      BY <1>6, <2>3, <1>0 DEF BarrierLock, Shape, Pointers, Place, RefMove,
         RefBy, Refs, One, Refers
  <2>4. CASE BarrierRun(t)
      BY <1>6, <2>4, <1>0 DEF BarrierRun, Shape, Pointers, Place, RefMove,
         RefBy, Refs, One, Refers
  <2>5. CASE BarrierCheck(t)
      BY <1>6, <2>5, <1>0 DEF BarrierCheck, Shape, Pointers, Place, RefMove,
         RefBy, Refs, One, Refers
  <2>6. CASE TransferSuspended(t)
      BY <1>6, <2>6, <1>0 DEF TransferSuspended, Shape, Pointers, Place,
         RefMove, RefBy, Refs, One, Refers
  <2>7. CASE BarrierUnlock(t)
      BY <1>6, <2>7, <1>0 DEF BarrierUnlock, Shape, Pointers, Place, RefMove,
         RefBy, Refs, One, Refers
  <2>8. QED
      BY <1>6, <2>1, <2>2, <2>3, <2>4, <2>5, <2>6, <2>7, Zenon DEF BarrierStep
<1>7. ASSUME NEW t \in Clients, SlowStep(t)  PROVE RefMove(t)
  <2>1. CASE SlowRun(t)
      BY <1>7, <2>1, <1>0 DEF SlowRun, Shape, Pointers, Place, RefMove, RefBy,
         Refs, One, Refers
  <2>2. CASE SlowTest(t)
      BY <1>7, <2>2, <1>0 DEF SlowTest, Shape, Pointers, Place, RefMove, RefBy,
         Refs, One, Refers
  <2>3. CASE SlowSpin(t)
      BY <1>7, <2>3, <1>0 DEF SlowSpin, Shape, Pointers, Place, RefMove, RefBy,
         Refs, One, Refers
  <2>4. CASE SlowResume(t)
      BY <1>7, <2>4, <1>0 DEF SlowResume, Shape, Pointers, Place, RefMove,
         RefBy, Refs, One, Refers
  <2>5. CASE SlowUnlock(t)
      BY <1>7, <2>5, <1>0 DEF SlowUnlock, Shape, Pointers, Place, RefMove,
         RefBy, Refs, One, Refers
  <2>6. QED
      BY <1>7, <2>1, <2>2, <2>3, <2>4, <2>5, Zenon DEF SlowStep
<1>8. ASSUME NEW t \in Clients, HandOverStep(t)  PROVE RefMove(t)
  <2>1. CASE OneHead(t)
      BY <1>8, <2>1, <1>0 DEF OneHead, Shape, Pointers, Place, RefMove, RefBy,
         Refs, One, Refers
  <2>2. CASE OneTail(t)
      BY <1>8, <2>2, <1>0 DEF OneTail, Shape, Pointers, Place, RefMove, RefBy,
         Refs, One, Refers
  <2>3. CASE OneSpin(t)
      BY <1>8, <2>3, <1>0 DEF OneSpin, Shape, Pointers, Place, RefMove, RefBy,
         Refs, One, Refers
  <2>4. CASE TransferSuspend(t)
      BY <1>8, <2>4, <1>0 DEF TransferSuspend, Shape, Pointers, Place, RefMove,
         RefBy, Refs, One, Refers
  <2>5. CASE TransferRunning(t)
      BY <1>8, <2>5, <1>0 DEF TransferRunning, Shape, Pointers, Place, RefMove,
         RefBy, Refs, One, Refers
  <2>6. CASE TransferSignal(t)
      BY <1>8, <2>6, <1>0 DEF TransferSignal, Shape, Pointers, Place, RefMove,
         RefBy, Refs, One, Refers
  <2>7. QED
      BY <1>8, <2>1, <2>2, <2>3, <2>4, <2>5, <2>6, Zenon DEF HandOverStep
<1>9. ASSUME NEW t \in Workers, InvokeStep(t)  PROVE RefMove(t)
  <2>1. CASE TakeQueue(t)
      BY <1>9, <2>1, <1>0 DEF TakeQueue, Shape, Pointers, Place, RefMove,
         RefBy, Refs, One, Refers
  <2>2. CASE InvokeSuspended(t)
      BY <1>9, <2>2, <1>0 DEF InvokeSuspended, Shape, Pointers, Place, RefMove,
         RefBy, Refs, One, Refers
  <2>3. CASE InvokeLock(t)
      BY <1>9, <2>3, <1>0 DEF InvokeLock, Shape, Pointers, Place, RefMove,
         RefBy, Refs, One, Refers
  <2>4. CASE InvokeLeave(t)
      BY <1>9, <2>4, <1>0 DEF InvokeLeave, Shape, Pointers, Place, RefMove,
         RefBy, Refs, One, Refers
  <2>5. CASE InvokeUnlock(t)
      BY <1>9, <2>5, <1>0 DEF InvokeUnlock, Shape, Pointers, Place, RefMove,
         RefBy, Refs, One, Refers
  <2>6. CASE InvokeProbe(t)
      BY <1>9, <2>6, <1>0 DEF InvokeProbe, Shape, Pointers, Place, RefMove,
         RefBy, Refs, One, Refers
  <2>7. QED
      BY <1>9, <2>1, <2>2, <2>3, <2>4, <2>5, <2>6, Zenon DEF InvokeStep
<1>10. ASSUME NEW t \in Workers, RedirectStep(t)  PROVE RefMove(t)
  <2>1. CASE TakeRedirected(t)
      BY <1>10, <2>1, <1>0 DEF TakeRedirected, Shape, Pointers, Place, RefMove,
         RefBy, Refs, One, Refers
  <2>2. CASE RunBeside(t)
      BY <1>10, <2>2, <1>0 DEF RunBeside, Shape, Pointers, Place, RefMove,
         RefBy, Refs, One, Refers
  <2>3. CASE RedirectSub(t)
      BY <1>10, <2>3, <1>0 DEF RedirectSub, Shape, Pointers, Place, RefMove,
         RefBy, Refs, One, Refers
  <2>4. QED
      BY <1>10, <2>1, <2>2, <2>3, Zenon DEF RedirectStep
<1>11. ASSUME NEW t \in Workers, DrainStep(t)  PROVE RefMove(t)
  <2>1. CASE DrainTail(t)
      BY <1>11, <2>1, <1>0 DEF DrainTail, Shape, Pointers, Place, RefMove,
         RefBy, Refs, One, Refers
  <2>2. CASE DrainHead(t)
      BY <1>11, <2>2, <1>0 DEF DrainHead, Shape, Pointers, Place, RefMove,
         RefBy, Refs, One, Refers
  <2>3. CASE DrainNext(t)
      BY <1>11, <2>3, <1>0 DEF DrainNext, Shape, Pointers, Place, RefMove,
         RefBy, Refs, One, Refers
  <2>4. CASE DrainLast(t)
      BY <1>11, <2>4, <1>0 DEF DrainLast, Shape, Pointers, Place, RefMove,
         RefBy, Refs, One, Refers
  <2>5. CASE DrainSpin(t)
      BY <1>11, <2>5, <1>0 DEF DrainSpin, Shape, Pointers, Place, RefMove,
         RefBy, Refs, One, Refers
  <2>6. CASE DrainSuspended(t)
      BY <1>11, <2>6, <1>0 DEF DrainSuspended, Shape, Pointers, Place, RefMove,
         RefBy, Refs, One, Refers
  <2>7. CASE DrainPop(t)
      BY <1>11, <2>7, <1>0 DEF DrainPop, Shape, Pointers, Place, RefMove,
         RefBy, Refs, One, Refers
  <2>8. QED
      BY <1>11, <2>1, <2>2, <2>3, <2>4, <2>5, <2>6, <2>7, Zenon DEF DrainStep
<1>12. ASSUME NEW t \in Workers, PopStep(t)  PROVE RefMove(t)
  <2>1. CASE RunItem(t)
      BY <1>12, <2>1, <1>0 DEF RunItem, Shape, Pointers, Place, RefMove, RefBy,
         Refs, One, Refers
  <2>2. CASE GrantSuspend(t)
      BY <1>12, <2>2, <1>0 DEF GrantSuspend, Shape, Pointers, Place, RefMove,
         RefBy, Refs, One, Refers
  <2>3. CASE GrantRunning(t)
      BY <1>12, <2>3, <1>0 DEF GrantRunning, Shape, Pointers, Place, RefMove,
         RefBy, Refs, One, Refers
  <2>4. CASE GrantSignal(t)
      BY <1>12, <2>4, <1>0 DEF GrantSignal, Shape, Pointers, Place, RefMove,
         RefBy, Refs, One, Refers
  <2>5. CASE DrainRedirect(t)
    <3>1. obj[t] \in Works /\ obj[t] \notin redirected
        BY <1>0, <1>12, <2>5
           DEF DrainRedirect, Shape, Place, ItemsInv, WorksOK, Bears
    <3>2. QED
        BY <1>0, <1>12, <2>5, <3>1 DEF DrainRedirect, Shape, Pointers, Place,
           RefMove, RefBy, Refs, One, Refers
  <2>6. QED
      BY <1>12, <2>1, <2>2, <2>3, <2>4, <2>5, Zenon DEF PopStep
<1>13. ASSUME NEW t \in Workers, PutBackStep(t)  PROVE RefMove(t)
  <2>1. CASE PutBackTail(t)
      BY <1>13, <2>1, <1>0 DEF PutBackTail, Shape, Pointers, Place, RefMove,
         RefBy, Refs, One, Refers
  <2>2. CASE PutBackSpin(t)
      BY <1>13, <2>2, <1>0 DEF PutBackSpin, Shape, Pointers, Place, RefMove,
         RefBy, Refs, One, Refers
  <2>3. CASE PutBackHead(t)
      BY <1>13, <2>3, <1>0 DEF PutBackHead, Shape, Pointers, Place, RefMove,
         RefBy, Refs, One, Refers
  <2>4. QED
      BY <1>13, <2>1, <2>2, <2>3, Zenon DEF PutBackStep
<1>14. QED
    BY <1>0, <1>1, <1>2, <1>3, <1>4, <1>5, <1>6, <1>7, <1>8, <1>9, <1>10,
       <1>11, <1>12, <1>13, NextCases

\* So the count stays the number of owners.
LEMMA MoveRefs ==
  ASSUME Words, Words', IsFiniteSet(redirected), onRoot \in Nat,
         onRoot' \in Nat, RefInv, NEW t \in Threads, RefMove(t)
  PROVE  RefInv'
<1>1. Referrers \in Nat
    BY QueueAssumption, CountType DEF Referrers
<1>2. Sent \in Nat
    BY FS_CardinalityType DEF Sent
<1>3. \A u \in Threads : u # t => Refs'[u] = Refs[u]
    BY DEF RefMove, Refs, Refers, One
<1>4. Refs[t] \in {0, 1} /\ Refs'[t] \in {0, 1}
    BY DEF Refs, One
<1>5. Referrers' = Referrers - Refs[t] + Refs'[t]
  <2>1. \A u \in Threads : Refs'[u] = IF u = t THEN Refs'[t] ELSE Refs[u]
      BY <1>3
  <2>2. CountAt(Threads, Refs', {1})
          = CountAt(Threads, Refs, {1})
              - Weight(Refs[t], {1}) + Weight(Refs'[t], {1})
      BY QueueAssumption, <2>1, CountStep
  <2>3. Weight(Refs[t], {1}) = Refs[t] /\ Weight(Refs'[t], {1}) = Refs'[t]
      BY <1>4 DEF Weight
  <2>4. Referrers' = CountAt(Threads, Refs', {1})
      BY DEF Referrers, CountAt
  <2>5. QED
      BY <2>2, <2>3, <2>4 DEF Referrers
<1>6. \E n \in {-1, 0, 1} : RefBy(t, n) /\ Sent' = Sent + n
  <2>1. CASE UNCHANGED redirected /\ RefBy(t, 0)
    <3>1. Sent' = Sent + 0
        BY <1>2, <2>1 DEF Sent
    <3>2. QED
        BY <2>1, <3>1
  <2>2. ASSUME NEW w \in Works, w \notin redirected,
               redirected' = redirected \cup {w}, RefBy(t, 1)
        PROVE  \E n \in {-1, 0, 1} : RefBy(t, n) /\ Sent' = Sent + n
    <3>1. Sent' = Sent + 1
        BY <2>2, FS_AddElement DEF Sent
    <3>2. QED
        BY <2>2, <3>1
  <2>3. ASSUME NEW w \in Works, w \in redirected,
               redirected' = redirected \ {w}, RefBy(t, -1)
        PROVE  \E n \in {-1, 0, 1} : RefBy(t, n) /\ Sent' = Sent + n
    <3>1. Sent' = Sent + (-1)
        BY <2>3, <1>2, FS_RemoveElement DEF Sent
    <3>2. QED
        BY <2>3, <3>1
  <2>4. QED
      BY <2>1, <2>2, <2>3 DEF RefMove
<1>7. PICK n \in {-1, 0, 1} : RefBy(t, n) /\ Sent' = Sent + n
    BY <1>6
<1>8. refcnt = (1 - released) + suspended + onRoot + Sent + Referrers
    BY DEF RefMove, RefInv
<1>9. released' = released
    BY DEF RefMove
<1>10. refcnt' = refcnt + (suspended' - suspended) + (onRoot' - onRoot) + n
                   + (Refs'[t] - Refs[t])
    BY <1>7 DEF RefBy
<1>11. /\ suspended \in Nat /\ suspended' \in Nat /\ released \in {0, 1}
       /\ refcnt \in Int
    BY DEF Words
<1> HIDE DEF Referrers, Sent, Refs
<1>12. refcnt' = (1 - released') + suspended' + onRoot' + Sent' + Referrers'
    BY <1>1, <1>2, <1>4, <1>5, <1>7, <1>8, <1>9, <1>10, <1>11
<1>13. QED
    BY <1>12 DEF RefInv

-----------------------------------------------------------------------------
(* The client's release, and what it leaves to do                          *)

\* The words keep to their values.
LEMMA StepWords ==
  ASSUME Words, [Next]_queueVars
  PROVE  Words'
<1> USE QueueAssumption
    DEF Threads, Items, Locs, Returns, ClientLocs, WorkerLocs, ItemLocs,
        PushLocs, WakeupLocs, AsyncLocs, SyncLocs, FastLocs, SlowLocs, OneLocs,
        DrainLocs, InvokeLocs, queueVars, wordVars, lockVars, otherVars,
        outerVars, itemVars, listVars, worldVars, objectVars, rootVars,
        localVars, orderVars, Set, Goto, At, MayCall, Test, Add, TryEmpty,
        Finish, CallWakeup, Return, WakeupTest, DropRunning, DropReference,
        Pushed, Submit, Call, Enter, Run, Take, Dequeued, Pop, Proceed
<1> USE DEF Words
<1>0. Clients \subseteq Threads /\ Workers \subseteq Threads
    OBVIOUS
<1>1. ASSUME NEW t \in Threads, WakeupStep(t)  PROVE Words'
    BY <1>1, <1>0 DEF WakeupStep, WakeupSuspended, WakeupTail, WakeupLock,
       WakeupPush, ReleaseInternal
<1>2. ASSUME NEW t \in Clients, CallStep(t)  PROVE Words'
    BY <1>2, <1>0 DEF CallStep, Async, BarrierAsync, Sync, BarrierSync,
       Suspend, Resume
<1>3. ASSUME NEW t \in Clients, PushStep(t)  PROVE Words'
    BY <1>3, <1>0 DEF PushStep, Swap, Link, SetHead
<1>4. ASSUME NEW t \in Clients, AsyncStep(t)  PROVE Words'
    BY <1>4, <1>0 DEF AsyncStep, AsyncTail, AsyncSuspended, AsyncAdd,
       AsyncOver, AsyncOdd, AsyncRedirect
<1>5. ASSUME NEW t \in Clients, SyncStep(t)  PROVE Words'
    BY <1>5, <1>0 DEF SyncStep, SyncTail, SyncSuspended, SyncAdd, SyncBack,
       SyncRun, SyncSub, Wait
<1>6. ASSUME NEW t \in Clients, BarrierStep(t)  PROVE Words'
    BY <1>6, <1>0 DEF BarrierStep, BarrierTail, BarrierSuspended, BarrierLock,
       BarrierRun, BarrierCheck, TransferSuspended, BarrierUnlock
<1>7. ASSUME NEW t \in Clients, SlowStep(t)  PROVE Words'
    BY <1>7, <1>0 DEF SlowStep, SlowRun, SlowTest, SlowSpin, SlowResume,
       SlowUnlock
<1>8. ASSUME NEW t \in Clients, HandOverStep(t)  PROVE Words'
    BY <1>8, <1>0 DEF HandOverStep, OneHead, OneTail, OneSpin, TransferSuspend,
       TransferRunning, TransferSignal
<1>9. ASSUME NEW t \in Workers, InvokeStep(t)  PROVE Words'
    BY <1>9, <1>0 DEF InvokeStep, TakeQueue, InvokeSuspended, InvokeLock,
       InvokeLeave, InvokeUnlock, InvokeProbe
<1>10. ASSUME NEW t \in Workers, RedirectStep(t)  PROVE Words'
    BY <1>10, <1>0 DEF RedirectStep, TakeRedirected, RunBeside, RedirectSub
<1>11. ASSUME NEW t \in Workers, DrainStep(t)  PROVE Words'
    BY <1>11, <1>0 DEF DrainStep, DrainTail, DrainHead, DrainNext, DrainLast,
       DrainSpin, DrainSuspended, DrainPop
<1>12. ASSUME NEW t \in Workers, PopStep(t)  PROVE Words'
    BY <1>12, <1>0 DEF PopStep, RunItem, GrantSuspend, GrantRunning,
       GrantSignal, DrainRedirect
<1>13. ASSUME NEW t \in Workers, PutBackStep(t)  PROVE Words'
    BY <1>13, <1>0 DEF PutBackStep, PutBackTail, PutBackSpin, PutBackHead
<1>14. ASSUME Release  PROVE Words'
    BY <1>14 DEF Release
<1>15. ASSUME UNCHANGED queueVars  PROVE Words'
    BY <1>15
<1>16. QED
    BY <1>1, <1>2, <1>3, <1>4, <1>5, <1>6, <1>7, <1>8, <1>9, <1>10, <1>11,
       <1>12, <1>13, <1>14, <1>15, NextCases

\* No client is inside a call that uses the queue, but for those whose push
\* holds a reference.
Gone == \A c \in Clients : pc[c] = "idle" \/ (Refers(c) /\ obj[c] # c)
Quiesced == released = 1 => Gone

\* A client releases the queue when the calls it makes are over, as far as
\* they use the queue.
LEMMA ReleaseGone ==
  ASSUME Shape, ItemsInv, Release
  PROVE  Gone
<1> USE QueueAssumption DEF Threads, Items
<1>1. ASSUME NEW c \in Clients, pc[c] # "idle"
      PROVE  Refers(c) /\ obj[c] # c
  <2>1. obj[c] \in Works /\ state[obj[c]] \in {"running", "done"}
      BY <1>1 DEF Release
  <2>2. CallerOK(c)
      BY DEF ItemsInv
  <2>3. pc[c] \in ClientLocs /\ obj[c] # c /\ obj[c] # NULL
      BY <2>1 DEF Shape, Place
  <2>4. ~Granting(c)
      BY <2>1 DEF ItemsInv, GrantsOK
  <2>5. pc[c] \notin AsyncLocs \cup {"swap", "link", "sethead"}
      BY <2>1, <2>2 DEF CallerOK, AsyncLocs
  <2>6. pc[c] \in WakeupLocs => ret[c] = "release"
      BY <2>1, <2>2, <2>3 DEF CallerOK, Shape, Place
  <2>7. pc[c] \notin SyncLocs \cup FastLocs \cup SlowLocs \cup OneLocs
      BY <2>2, <2>3, <2>4
         DEF CallerOK, Granting, SyncLocs, FastLocs, SlowLocs, OneLocs
  <2>8. QED
      BY <1>1, <2>3, <2>5, <2>6, <2>7 DEF Refers, ClientLocs, PushLocs
<1>2. QED
    BY <1>1 DEF Gone

\* Nobody enters a queue that its client has released.
LEMMA StepQuiesced ==
  ASSUME Shape, ItemsInv, Words, Quiesced, [Next]_queueVars
  PROVE  Quiesced'
<1> USE QueueAssumption
    DEF Threads, Items, Locs, Returns, ClientLocs, WorkerLocs, ItemLocs,
        PushLocs, WakeupLocs, AsyncLocs, SyncLocs, FastLocs, SlowLocs, OneLocs,
        DrainLocs, InvokeLocs, queueVars, wordVars, lockVars, otherVars,
        outerVars, itemVars, listVars, worldVars, objectVars, rootVars,
        localVars, orderVars, Set, Goto, At, MayCall, Test, Add, TryEmpty,
        Finish, CallWakeup, Return, WakeupTest, DropRunning, DropReference,
        Pushed, Submit, Call, Enter, Run, Take, Dequeued, Pop, Proceed
<1> USE DEF Quiesced, Gone, Refers, Shape, Place, Words
<1>1. ASSUME NEW t \in Threads, WakeupStep(t)  PROVE Quiesced'
  <2>1. CASE WakeupSuspended(t)
      BY <1>1, <2>1 DEF WakeupSuspended
  <2>2. CASE WakeupTail(t)
      BY <1>1, <2>2 DEF WakeupTail
  <2>3. CASE WakeupLock(t)
      BY <1>1, <2>3 DEF WakeupLock
  <2>4. CASE WakeupPush(t)
      BY <1>1, <2>4 DEF WakeupPush
  <2>5. CASE ReleaseInternal(t)
      BY <1>1, <2>5 DEF ReleaseInternal
  <2>6. QED
      BY <1>1, <2>1, <2>2, <2>3, <2>4, <2>5, Zenon DEF WakeupStep
<1>2. ASSUME NEW t \in Clients, CallStep(t)  PROVE Quiesced'
  <2>1. CASE Async(t)
      BY <1>2, <2>1 DEF Async
  <2>2. CASE BarrierAsync(t)
      BY <1>2, <2>2 DEF BarrierAsync
  <2>3. CASE Sync(t)
      BY <1>2, <2>3 DEF Sync
  <2>4. CASE BarrierSync(t)
      BY <1>2, <2>4 DEF BarrierSync
  <2>5. CASE Suspend(t)
      BY <1>2, <2>5 DEF Suspend
  <2>6. CASE Resume(t)
      BY <1>2, <2>6 DEF Resume
  <2>7. QED
      BY <1>2, <2>1, <2>2, <2>3, <2>4, <2>5, <2>6, Zenon DEF CallStep
<1>3. ASSUME NEW t \in Clients, PushStep(t)  PROVE Quiesced'
  <2>1. CASE Swap(t)
      BY <1>3, <2>1 DEF Swap
  <2>2. CASE Link(t)
      BY <1>3, <2>2 DEF Link
  <2>3. CASE SetHead(t)
      BY <1>3, <2>3 DEF SetHead
  <2>4. QED
      BY <1>3, <2>1, <2>2, <2>3, Zenon DEF PushStep
<1>4. ASSUME NEW t \in Clients, AsyncStep(t)  PROVE Quiesced'
    BY <1>4 DEF AsyncStep, AsyncTail, AsyncSuspended, AsyncAdd, AsyncOver,
       AsyncOdd, AsyncRedirect
<1>5. ASSUME NEW t \in Clients, SyncStep(t)  PROVE Quiesced'
  <2>1. CASE SyncTail(t)
      BY <1>5, <2>1 DEF SyncTail
  <2>2. CASE SyncSuspended(t)
      BY <1>5, <2>2 DEF SyncSuspended
  <2>3. CASE SyncAdd(t)
      BY <1>5, <2>3 DEF SyncAdd
  <2>4. CASE SyncBack(t)
      BY <1>5, <2>4 DEF SyncBack
  <2>5. CASE SyncRun(t)
      BY <1>5, <2>5 DEF SyncRun
  <2>6. CASE SyncSub(t)
      BY <1>5, <2>6 DEF SyncSub
  <2>7. CASE Wait(t)
      BY <1>5, <2>7 DEF Wait
  <2>8. QED
      BY <1>5, <2>1, <2>2, <2>3, <2>4, <2>5, <2>6, <2>7, Zenon DEF SyncStep
<1>6. ASSUME NEW t \in Clients, BarrierStep(t)  PROVE Quiesced'
    BY <1>6 DEF BarrierStep, BarrierTail, BarrierSuspended, BarrierLock,
       BarrierRun, BarrierCheck, TransferSuspended, BarrierUnlock
<1>7. ASSUME NEW t \in Clients, SlowStep(t)  PROVE Quiesced'
    BY <1>7 DEF SlowStep, SlowRun, SlowTest, SlowSpin, SlowResume, SlowUnlock
<1>8. ASSUME NEW t \in Clients, HandOverStep(t)  PROVE Quiesced'
  <2>1. CASE OneHead(t)
      BY <1>8, <2>1 DEF OneHead
  <2>2. CASE OneTail(t)
      BY <1>8, <2>2 DEF OneTail
  <2>3. CASE OneSpin(t)
      BY <1>8, <2>3 DEF OneSpin
  <2>4. CASE TransferSuspend(t)
      BY <1>8, <2>4 DEF TransferSuspend
  <2>5. CASE TransferRunning(t)
      BY <1>8, <2>5 DEF TransferRunning
  <2>6. CASE TransferSignal(t)
      BY <1>8, <2>6 DEF TransferSignal
  <2>7. QED
      BY <1>8, <2>1, <2>2, <2>3, <2>4, <2>5, <2>6, Zenon DEF HandOverStep
<1>9. ASSUME NEW t \in Workers, InvokeStep(t)  PROVE Quiesced'
  <2>1. CASE TakeQueue(t)
      BY <1>9, <2>1 DEF TakeQueue
  <2>2. CASE InvokeSuspended(t)
      BY <1>9, <2>2 DEF InvokeSuspended
  <2>3. CASE InvokeLock(t)
      BY <1>9, <2>3 DEF InvokeLock
  <2>4. CASE InvokeLeave(t)
      BY <1>9, <2>4 DEF InvokeLeave
  <2>5. CASE InvokeUnlock(t)
      BY <1>9, <2>5 DEF InvokeUnlock
  <2>6. CASE InvokeProbe(t)
      BY <1>9, <2>6 DEF InvokeProbe
  <2>7. QED
      BY <1>9, <2>1, <2>2, <2>3, <2>4, <2>5, <2>6, Zenon DEF InvokeStep
<1>10. ASSUME NEW t \in Workers, RedirectStep(t)  PROVE Quiesced'
  <2>1. CASE TakeRedirected(t)
      BY <1>10, <2>1 DEF TakeRedirected
  <2>2. CASE RunBeside(t)
      BY <1>10, <2>2 DEF RunBeside
  <2>3. CASE RedirectSub(t)
      BY <1>10, <2>3 DEF RedirectSub
  <2>4. QED
      BY <1>10, <2>1, <2>2, <2>3, Zenon DEF RedirectStep
<1>11. ASSUME NEW t \in Workers, DrainStep(t)  PROVE Quiesced'
  <2>1. CASE DrainTail(t)
      BY <1>11, <2>1 DEF DrainTail
  <2>2. CASE DrainHead(t)
      BY <1>11, <2>2 DEF DrainHead
  <2>3. CASE DrainNext(t)
      BY <1>11, <2>3 DEF DrainNext
  <2>4. CASE DrainLast(t)
      BY <1>11, <2>4 DEF DrainLast
  <2>5. CASE DrainSpin(t)
      BY <1>11, <2>5 DEF DrainSpin
  <2>6. CASE DrainSuspended(t)
      BY <1>11, <2>6 DEF DrainSuspended
  <2>7. CASE DrainPop(t)
      BY <1>11, <2>7 DEF DrainPop
  <2>8. QED
      BY <1>11, <2>1, <2>2, <2>3, <2>4, <2>5, <2>6, <2>7, Zenon DEF DrainStep
<1>12. ASSUME NEW t \in Workers, PopStep(t)  PROVE Quiesced'
  <2>1. CASE RunItem(t)
      BY <1>12, <2>1 DEF RunItem
  <2>2. CASE GrantSuspend(t)
      BY <1>12, <2>2 DEF GrantSuspend
  <2>3. CASE GrantRunning(t)
      BY <1>12, <2>3 DEF GrantRunning
  <2>4. CASE GrantSignal(t)
      BY <1>12, <2>4 DEF GrantSignal
  <2>5. CASE DrainRedirect(t)
      BY <1>12, <2>5 DEF DrainRedirect
  <2>6. QED
      BY <1>12, <2>1, <2>2, <2>3, <2>4, <2>5, Zenon DEF PopStep
<1>13. ASSUME NEW t \in Workers, PutBackStep(t)  PROVE Quiesced'
  <2>1. CASE PutBackTail(t)
      BY <1>13, <2>1 DEF PutBackTail
  <2>2. CASE PutBackSpin(t)
      BY <1>13, <2>2 DEF PutBackSpin
  <2>3. CASE PutBackHead(t)
      BY <1>13, <2>3 DEF PutBackHead
  <2>4. QED
      BY <1>13, <2>1, <2>2, <2>3, Zenon DEF PutBackStep
<1>14. ASSUME Release  PROVE Quiesced'
  <2>1. Gone
      BY <1>14, ReleaseGone
  <2>2. QED
      BY <1>14, <2>1 DEF Release
<1>15. ASSUME UNCHANGED queueVars  PROVE Quiesced'
    BY <1>15
<1>16. QED
    BY <1>1, <1>2, <1>3, <1>4, <1>5, <1>6, <1>7, <1>8, <1>9, <1>10, <1>11,
       <1>12, <1>13, <1>14, <1>15, NextCases

-----------------------------------------------------------------------------
(* Calls that wake the queue up                                            *)

\* A queue that takes no asynchronous readers: it is serial, or dispatch_async
\* is not among the calls.
Sparing == Width = 1 \/ "async" \notin Calls
Apart == \A t \in Threads : pc[t] \notin AsyncLocs

\* Nobody is on the path of such readers then.
LEMMA StepApart ==
  ASSUME Sparing, Shape, Apart, [Next]_queueVars
  PROVE  Apart'
<1> USE QueueAssumption
    DEF Threads, Items, Locs, Returns, ClientLocs, WorkerLocs, ItemLocs,
        PushLocs, WakeupLocs, AsyncLocs, SyncLocs, FastLocs, SlowLocs, OneLocs,
        DrainLocs, InvokeLocs, queueVars, wordVars, lockVars, otherVars,
        outerVars, itemVars, listVars, worldVars, objectVars, rootVars,
        localVars, orderVars, Set, Goto, At, MayCall, Test, Add, TryEmpty,
        Finish, CallWakeup, Return, WakeupTest, DropRunning, DropReference,
        Pushed, Submit, Call, Enter, Run, Take, Dequeued, Pop, Proceed
<1> USE DEF Sparing, Shape, Place, Apart
<1>1. ASSUME NEW t \in Threads, WakeupStep(t)  PROVE Apart'
    BY <1>1 DEF WakeupStep, WakeupSuspended, WakeupTail, WakeupLock,
       WakeupPush, ReleaseInternal
<1>2. ASSUME NEW t \in Clients, CallStep(t)  PROVE Apart'
    BY <1>2 DEF CallStep, Async, BarrierAsync, Sync, BarrierSync, Suspend,
       Resume
<1>3. ASSUME NEW t \in Clients, PushStep(t)  PROVE Apart'
    BY <1>3 DEF PushStep, Swap, Link, SetHead
<1>4. ASSUME NEW t \in Clients, AsyncStep(t)  PROVE Apart'
    BY <1>4 DEF AsyncStep, AsyncTail, AsyncSuspended, AsyncAdd, AsyncOver,
       AsyncOdd, AsyncRedirect
<1>5. ASSUME NEW t \in Clients, SyncStep(t)  PROVE Apart'
    BY <1>5 DEF SyncStep, SyncTail, SyncSuspended, SyncAdd, SyncBack, SyncRun,
       SyncSub, Wait
<1>6. ASSUME NEW t \in Clients, BarrierStep(t)  PROVE Apart'
    BY <1>6 DEF BarrierStep, BarrierTail, BarrierSuspended, BarrierLock,
       BarrierRun, BarrierCheck, TransferSuspended, BarrierUnlock
<1>7. ASSUME NEW t \in Clients, SlowStep(t)  PROVE Apart'
    BY <1>7 DEF SlowStep, SlowRun, SlowTest, SlowSpin, SlowResume, SlowUnlock
<1>8. ASSUME NEW t \in Clients, HandOverStep(t)  PROVE Apart'
    BY <1>8 DEF HandOverStep, OneHead, OneTail, OneSpin, TransferSuspend,
       TransferRunning, TransferSignal
<1>9. ASSUME NEW t \in Workers, InvokeStep(t)  PROVE Apart'
    BY <1>9 DEF InvokeStep, TakeQueue, InvokeSuspended, InvokeLock,
       InvokeLeave, InvokeUnlock, InvokeProbe
<1>10. ASSUME NEW t \in Workers, RedirectStep(t)  PROVE Apart'
    BY <1>10 DEF RedirectStep, TakeRedirected, RunBeside, RedirectSub
<1>11. ASSUME NEW t \in Workers, DrainStep(t)  PROVE Apart'
    BY <1>11 DEF DrainStep, DrainTail, DrainHead, DrainNext, DrainLast,
       DrainSpin, DrainSuspended, DrainPop
<1>12. ASSUME NEW t \in Workers, PopStep(t)  PROVE Apart'
    BY <1>12 DEF PopStep, RunItem, GrantSuspend, GrantRunning, GrantSignal,
       DrainRedirect
<1>13. ASSUME NEW t \in Workers, PutBackStep(t)  PROVE Apart'
    BY <1>13 DEF PutBackStep, PutBackTail, PutBackSpin, PutBackHead
<1>14. ASSUME Release  PROVE Apart'
    BY <1>14 DEF Release
<1>15. ASSUME UNCHANGED queueVars  PROVE Apart'
    BY <1>15
<1>16. QED
    BY <1>1, <1>2, <1>3, <1>4, <1>5, <1>6, <1>7, <1>8, <1>9, <1>10, <1>11,
       <1>12, <1>13, <1>14, <1>15, NextCases

\* A thread that will see to it that the queue gets a worker if it needs one.
Alert(t) == pc[t] \in {"sethead", "isusp", "icas", "unlock", "probe"}
                        \cup WakeupLocs

\* Items are left only while the queue is suspended, in use, on the target
\* queue's list, or while somebody will look after them.
Watched == tail # NULL => \/ suspended > 0 \/ running # 0 \/ onRoot > 0
                          \/ \E t \in Threads : Alert(t)

Watching(t) == pc[t] \in {"wpush", "isusp", "icas", "unlock"}

\* A suspension that is not the clients' belongs to a barrier that is granted,
\* and the low bit to whoever has the queue on the target queue's list.
LEMMA SuspSays ==
  ASSUME Shape, RootInv, ItemsInv, RunInv, SuspInv, suspended \in Nat
  PROVE  /\ susp \in Nat
         /\ susp >= 2 * suspended + 2 => running # 0
         /\ susp # 2 * suspended =>
              running # 0 \/ onRoot > 0 \/ \E t \in Threads : Watching(t)
<1>1. \A t \in Threads : RunSays(t) /\ running \in Nat
    BY RunSpeaks
<1>2. ASSUME NEW t \in Threads, Suspends(t)  PROVE running # 0
  <2>1. Holds(t) \/ Entered(t)
      BY <1>2 DEF Suspends, Shape, Place, Holds, Fast, Entered, HandsOver,
                  SlowLocs, OneLocs, DrainLocs
  <2>2. QED
      BY <1>1, <2>1 DEF RunSays
<1>3. ASSUME NEW c \in Clients, Told(c)  PROVE running # 0
  <2>1. c \in Threads /\ sema[c] # 0
      BY <1>3 DEF Threads, Told
  <2>2. QED
      BY <1>1, <2>1 DEF RunSays
<1>4. Guarded => running # 0
    BY <1>2, <1>3 DEF Guarded
<1>5. PICK b \in {0, 1} : susp = 2 * (suspended + One(Guarded)) + b
    BY DEF SuspInv
<1>6. One(Guarded) \in {0, 1} /\ (One(Guarded) = 1 => running # 0)
    BY <1>4 DEF One
<1>7. susp \in Nat /\ (susp >= 2 * suspended + 2 => running # 0)
  <2> HIDE DEF One, Guarded
  <2>1. QED
      BY <1>5, <1>6
<1>8. ASSUME b = 1
      PROVE  running # 0 \/ onRoot > 0 \/ \E t \in Threads : Watching(t)
  <2>1. susp % 2 = 1
    <3> HIDE DEF One, Guarded
    <3>1. QED
        BY <1>5, <1>6, <1>8
  <2>2. Pushing \in Nat /\ Invoking \in Nat
      BY QueueAssumption, CountType DEF Pushing, Invoking
  <2>3. onRoot > 0 \/ Pushing > 0 \/ Invoking > 0
    <3> HIDE DEF Pushing, Invoking
    <3>1. QED
        BY <2>1, <2>2 DEF RootInv
  <2>4. ASSUME Pushing > 0  PROVE \E t \in Threads : Watching(t)
      BY <2>4, QueueAssumption, CountType DEF Pushing, Watching
  <2>5. ASSUME Invoking > 0
        PROVE  running # 0 \/ \E t \in Threads : Watching(t)
    <3>1. PICK t \in Threads : pc[t] \in InvokeLocs
        BY <2>5, QueueAssumption, CountType DEF Invoking
    <3>2. pc[t] \in DrainLocs => Holds(t)
        BY DEF Holds
    <3>3. QED
        BY <1>1, <3>1, <3>2 DEF RunSays, Watching, InvokeLocs
  <2>6. QED
      BY <2>3, <2>4, <2>5
<1>9. b = 0 /\ susp # 2 * suspended => running # 0
  <2> HIDE DEF One, Guarded
  <2>1. QED
      BY <1>5, <1>6
<1>10. QED
    BY <1>7, <1>8, <1>9

\* Whoever stops looking after the items of the queue has seen that somebody
\* else does.
LEMMA StepWatched ==
  ASSUME Shape, RootInv, ItemsInv, RunInv, SuspInv, Words, Apart, Watched,
         [Next]_queueVars
  PROVE  Watched'
<1> USE QueueAssumption
    DEF Threads, Items, Locs, Returns, ClientLocs, WorkerLocs, ItemLocs,
        PushLocs, WakeupLocs, AsyncLocs, SyncLocs, FastLocs, SlowLocs, OneLocs,
        DrainLocs, InvokeLocs, queueVars, wordVars, lockVars, otherVars,
        outerVars, itemVars, listVars, worldVars, objectVars, rootVars,
        localVars, orderVars, Set, Goto, At, MayCall, Test, Add, TryEmpty,
        Finish, CallWakeup, Return, WakeupTest, DropRunning, DropReference,
        Pushed, Submit, Call, Enter, Run, Take, Dequeued, Pop, Proceed
<1>0. /\ Clients \subseteq Threads /\ Workers \subseteq Threads
      /\ suspended \in Nat /\ running \in Nat /\ onRoot \in Nat /\ susp \in Nat
      /\ susp >= 2 * suspended + 2 => running # 0
      /\ susp # 2 * suspended =>
           running # 0 \/ onRoot > 0 \/ \E t \in Threads : Watching(t)
      /\ \A t \in Threads : /\ Holds(t) => running # 0
                            /\ Entered(t) => running # 0
      /\ pc \in [Threads -> Locs]
  <2>1. \A t \in Threads : RunSays(t)
      BY RunSpeaks
  <2>2. running \in Nat
      BY CountsType DEF RunInv, Single
  <2>3. \A t \in Threads : /\ Holds(t) => running # 0
                           /\ Entered(t) => running # 0
      BY <2>1, <2>2 DEF RunSays
  <2>4. QED
      BY <2>2, <2>3, SuspSays DEF Words, RootInv, Shape
<1>1. ASSUME NEW t \in Threads, WakeupStep(t)  PROVE Watched'
  <2>1. CASE ReleaseInternal(t)
      BY <1>1, <2>1, <1>0 DEF ReleaseInternal, Watched, Alert
  <2>2. CASE WakeupSuspended(t)
    <3>1. /\ UNCHANGED <<susp, running, tail, suspended, onRoot>>
          /\ pc[t] = "wsusp"
          /\ ~Suspended => pc'[t] = "wtail"
        BY <1>1, <2>2, <1>0 DEF WakeupSuspended
    <3>2. CASE ~Suspended
        BY <1>1, <3>1, <3>2 DEF Watched, Alert
    <3>3. CASE Suspended
        BY <1>0, <3>1, <3>3 DEF Watched, Suspended, INTERVAL
    <3>4. QED
        BY <3>2, <3>3
  <2>3. CASE WakeupTail(t)
    <3>1. /\ UNCHANGED tail
          /\ tail # NULL => pc'[t] = "wlock"
        BY <1>1, <2>3, <1>0 DEF WakeupTail
    <3>2. QED
        BY <1>1, <3>1 DEF Watched, Alert
  <2>4. CASE WakeupLock(t)
    <3>1. /\ UNCHANGED <<running, tail, suspended, onRoot>>
          /\ pc[t] = "wlock"
          /\ susp = 0 => pc'[t] = "wpush"
          /\ \A u \in Threads : u # t => pc'[u] = pc[u]
        BY <1>1, <2>4, <1>0 DEF WakeupLock, LOCK
    <3>2. CASE susp = 0
        BY <1>1, <3>1, <3>2 DEF Watched, Alert
    <3>3. CASE susp # 0 /\ suspended = 0
      <4>1. susp # 2 * suspended
          BY <1>0, <3>3
      <4>2. running # 0 \/ onRoot > 0 \/ \E u \in Threads : Watching(u)
          BY <1>0, <4>1
      <4>3. CASE \E u \in Threads : Watching(u)
        <5>1. PICK u \in Threads : Watching(u)
            BY <4>3
        <5>2. u # t /\ pc'[u] = pc[u]
            BY <3>1, <5>1 DEF Watching
        <5>3. Alert(u)'
            BY <5>1, <5>2 DEF Watching, Alert
        <5>4. QED
            BY <5>3 DEF Watched
      <4>4. QED
          BY <3>1, <4>2, <4>3 DEF Watched
    <3>4. CASE suspended > 0
        BY <3>1, <3>4 DEF Watched
    <3>5. QED
        BY <1>0, <3>2, <3>3, <3>4
  <2>5. CASE WakeupPush(t)
    <3>1. onRoot' = onRoot + 1
        BY <2>5 DEF WakeupPush
    <3>2. QED
        BY <1>0, <3>1 DEF Watched
  <2>6. QED
      BY <1>1, <2>1, <2>2, <2>3, <2>4, <2>5, Zenon DEF WakeupStep
<1>2. ASSUME NEW t \in Clients, CallStep(t)  PROVE Watched'
  <2>1. CASE Async(t)
      BY <1>2, <2>1, <1>0 DEF Async, Watched, Alert
  <2>2. CASE BarrierAsync(t)
      BY <1>2, <2>2, <1>0 DEF BarrierAsync, Watched, Alert
  <2>3. CASE Sync(t)
      BY <1>2, <2>3, <1>0 DEF Sync, Watched, Alert
  <2>4. CASE BarrierSync(t)
      BY <1>2, <2>4, <1>0 DEF BarrierSync, Watched, Alert
  <2>5. CASE Suspend(t)
      BY <1>2, <2>5, <1>0 DEF Suspend, Watched, Alert
  <2>6. CASE Resume(t)
    <3>1. /\ UNCHANGED <<running, tail, onRoot>> /\ pc[t] = "idle"
          /\ suspended > 0 /\ suspended' = suspended - 1
          /\ susp = 2 => pc'[t] = "wsusp"
          /\ \A u \in Threads : u # t => pc'[u] = pc[u]
        BY <1>2, <2>6, <1>0 DEF Resume, INTERVAL
    <3>2. CASE susp = 2
        BY <1>2, <1>0, <3>1, <3>2 DEF Watched, Alert
    <3>3. CASE susp # 2 /\ suspended = 1
      <4>1. susp # 2 * suspended
          BY <3>3
      <4>2. running # 0 \/ onRoot > 0 \/ \E u \in Threads : Watching(u)
          BY <1>0, <4>1
      <4>3. CASE \E u \in Threads : Watching(u)
        <5>1. PICK u \in Threads : Watching(u)
            BY <4>3
        <5>2. u # t /\ pc'[u] = pc[u]
            BY <3>1, <5>1 DEF Watching
        <5>3. Alert(u)'
            BY <5>1, <5>2 DEF Watching, Alert
        <5>4. QED
            BY <5>3 DEF Watched
      <4>4. QED
          BY <3>1, <4>2, <4>3 DEF Watched
    <3>4. CASE suspended > 1
        BY <1>0, <3>1, <3>4 DEF Watched
    <3>5. QED
        BY <1>0, <3>1, <3>2, <3>3, <3>4
  <2>7. QED
      BY <1>2, <2>1, <2>2, <2>3, <2>4, <2>5, <2>6, Zenon DEF CallStep
<1>3. ASSUME NEW t \in Clients, PushStep(t)  PROVE Watched'
  <2>1. CASE Swap(t)
      BY <1>3, <2>1, <1>0 DEF Swap, Watched, Alert
  <2>2. CASE Link(t)
      BY <1>3, <2>2, <1>0 DEF Link, Watched, Alert
  <2>3. CASE SetHead(t)
      BY <1>3, <2>3, <1>0 DEF SetHead, Watched, Alert
  <2>4. QED
      BY <1>3, <2>1, <2>2, <2>3, Zenon DEF PushStep
<1>4. ASSUME NEW t \in Clients, AsyncStep(t)  PROVE Watched'
  <2>1. CASE AsyncTail(t)
      BY <1>4, <2>1, <1>0 DEF AsyncTail, Watched, Alert
  <2>2. CASE AsyncSuspended(t)
      BY <1>4, <2>2, <1>0 DEF AsyncSuspended, Watched, Alert
  <2>3. CASE AsyncAdd(t)
      BY <1>4, <2>3, <1>0 DEF AsyncAdd, Watched, Alert
  <2>4. CASE AsyncOver(t)
      BY <1>4, <2>4, <1>0 DEF AsyncOver, Watched, Alert
  <2>5. CASE AsyncRedirect(t)
      BY <1>4, <2>5, <1>0 DEF AsyncRedirect, Watched, Alert
  <2>6. CASE AsyncOdd(t)
      BY <1>4, <2>6 DEF AsyncOdd, Apart
  <2>7. QED
      BY <1>4, <2>1, <2>2, <2>3, <2>4, <2>5, <2>6, Zenon DEF AsyncStep
<1>5. ASSUME NEW t \in Clients, SyncStep(t)  PROVE Watched'
  <2>1. CASE SyncTail(t)
      BY <1>5, <2>1, <1>0 DEF SyncTail, Watched, Alert
  <2>2. CASE SyncSuspended(t)
      BY <1>5, <2>2, <1>0 DEF SyncSuspended, Watched, Alert
  <2>3. CASE SyncAdd(t)
      BY <1>5, <2>3, <1>0 DEF SyncAdd, Watched, Alert
  <2>4. CASE SyncBack(t)
      BY <1>5, <2>4, <1>0 DEF SyncBack, Watched, Alert
  <2>5. CASE SyncRun(t)
      BY <1>5, <2>5, <1>0 DEF SyncRun, Watched, Alert
  <2>6. CASE SyncSub(t)
      BY <1>5, <2>6, <1>0 DEF SyncSub, Watched, Alert
  <2>7. CASE Wait(t)
      BY <1>5, <2>7, <1>0 DEF Wait, Watched, Alert
  <2>8. QED
      BY <1>5, <2>1, <2>2, <2>3, <2>4, <2>5, <2>6, <2>7, Zenon DEF SyncStep
<1>6. ASSUME NEW t \in Clients, BarrierStep(t)  PROVE Watched'
  <2>1. CASE BarrierTail(t)
      BY <1>6, <2>1, <1>0 DEF BarrierTail, Watched, Alert
  <2>2. CASE BarrierSuspended(t)
      BY <1>6, <2>2, <1>0 DEF BarrierSuspended, Watched, Alert
  <2>3. CASE BarrierLock(t)
      BY <1>6, <2>3, <1>0 DEF BarrierLock, Watched, Alert
  <2>4. CASE BarrierRun(t)
      BY <1>6, <2>4, <1>0 DEF BarrierRun, Watched, Alert
  <2>5. CASE BarrierCheck(t)
      BY <1>6, <2>5, <1>0 DEF BarrierCheck, Watched, Alert
  <2>6. CASE TransferSuspended(t)
      BY <1>6, <2>6, <1>0 DEF TransferSuspended, Watched, Alert
  <2>7. CASE BarrierUnlock(t)
      BY <1>6, <2>7, <1>0 DEF BarrierUnlock, Watched, Alert
  <2>8. QED
      BY <1>6, <2>1, <2>2, <2>3, <2>4, <2>5, <2>6, <2>7, Zenon DEF BarrierStep
<1>7. ASSUME NEW t \in Clients, SlowStep(t)  PROVE Watched'
  <2>1. CASE SlowRun(t)
      BY <1>7, <2>1, <1>0 DEF SlowRun, Watched, Alert
  <2>2. CASE SlowTest(t)
      BY <1>7, <2>2, <1>0 DEF SlowTest, Watched, Alert
  <2>3. CASE SlowSpin(t)
      BY <1>7, <2>3, <1>0 DEF SlowSpin, Watched, Alert
  <2>4. CASE SlowResume(t)
      BY <1>7, <2>4, <1>0 DEF SlowResume, Watched, Alert
  <2>5. CASE SlowUnlock(t)
      BY <1>7, <2>5, <1>0 DEF SlowUnlock, Watched, Alert
  <2>6. QED
      BY <1>7, <2>1, <2>2, <2>3, <2>4, <2>5, Zenon DEF SlowStep
<1>8. ASSUME NEW t \in Clients, HandOverStep(t)  PROVE Watched'
  <2>1. CASE OneHead(t)
      BY <1>8, <2>1, <1>0 DEF OneHead, Watched, Alert
  <2>2. CASE OneTail(t)
      BY <1>8, <2>2, <1>0 DEF OneTail, Watched, Alert
  <2>3. CASE OneSpin(t)
      BY <1>8, <2>3, <1>0 DEF OneSpin, Watched, Alert
  <2>4. CASE TransferSuspend(t)
      BY <1>8, <2>4, <1>0 DEF TransferSuspend, Watched, Alert
  <2>5. CASE TransferRunning(t)
      BY <1>8, <2>5, <1>0 DEF TransferRunning, Watched, Alert
  <2>6. CASE TransferSignal(t)
      BY <1>8, <2>6, <1>0 DEF TransferSignal, Watched, Alert
  <2>7. QED
      BY <1>8, <2>1, <2>2, <2>3, <2>4, <2>5, <2>6, Zenon DEF HandOverStep
<1>9. ASSUME NEW t \in Workers, InvokeStep(t)  PROVE Watched'
  <2>1. CASE TakeQueue(t)
      BY <1>9, <2>1, <1>0 DEF TakeQueue, Watched, Alert
  <2>2. CASE InvokeSuspended(t)
      BY <1>9, <2>2, <1>0 DEF InvokeSuspended, Watched, Alert
  <2>3. CASE InvokeLock(t)
      BY <1>9, <2>3, <1>0 DEF InvokeLock, Watched, Alert
  <2>4. CASE InvokeLeave(t)
      BY <1>9, <2>4, <1>0 DEF InvokeLeave, Watched, Alert
  <2>5. CASE InvokeProbe(t)
      BY <1>9, <2>5, <1>0 DEF InvokeProbe, Watched, Alert
  <2>6. CASE InvokeUnlock(t)
    <3>1. /\ pc[t] = "unlock" /\ susp' = susp - 1 /\ running' = running
          /\ pc' = [pc EXCEPT ![t] = IF susp = 1 THEN "probe" ELSE "release"]
          /\ UNCHANGED <<tail, suspended, onRoot>>
        BY <1>9, <2>6, <1>0 DEF InvokeUnlock, LOCK
    <3>2. susp % 2 = 1
        BY <1>9, <3>1, RootOdd
    <3>3. CASE susp = 1
        BY <1>9, <1>0, <3>1, <3>3 DEF Watched, Alert
    <3>4. CASE susp # 1 /\ suspended = 0
      <4>1. susp >= 2 * suspended + 2
          BY <1>0, <3>2, <3>4
      <4>2. QED
          BY <4>1, <3>1, <1>0 DEF Watched
    <3>5. CASE suspended > 0
        BY <3>1, <3>5 DEF Watched
    <3>6. QED
        BY <1>0, <3>3, <3>4, <3>5
  <2>7. QED
      BY <1>9, <2>1, <2>2, <2>3, <2>4, <2>5, <2>6, Zenon DEF InvokeStep
<1>10. ASSUME NEW t \in Workers, RedirectStep(t)  PROVE Watched'
  <2>1. CASE TakeRedirected(t)
      BY <1>10, <2>1, <1>0 DEF TakeRedirected, Watched, Alert
  <2>2. CASE RunBeside(t)
      BY <1>10, <2>2, <1>0 DEF RunBeside, Watched, Alert
  <2>3. CASE RedirectSub(t)
      BY <1>10, <2>3, <1>0 DEF RedirectSub, Watched, Alert
  <2>4. QED
      BY <1>10, <2>1, <2>2, <2>3, Zenon DEF RedirectStep
<1>11. ASSUME NEW t \in Workers, DrainStep(t)  PROVE Watched'
  <2>1. CASE DrainHead(t)
      BY <1>11, <2>1, <1>0 DEF DrainHead, Watched, Alert
  <2>2. CASE DrainNext(t)
      BY <1>11, <2>2, <1>0 DEF DrainNext, Watched, Alert
  <2>3. CASE DrainLast(t)
      BY <1>11, <2>3, <1>0 DEF DrainLast, Watched, Alert
  <2>4. CASE DrainSpin(t)
      BY <1>11, <2>4, <1>0 DEF DrainSpin, Watched, Alert
  <2>5. CASE DrainSuspended(t)
      BY <1>11, <2>5, <1>0 DEF DrainSuspended, Watched, Alert
  <2>6. CASE DrainPop(t)
      BY <1>11, <2>6, <1>0 DEF DrainPop, Watched, Alert
  <2>7. CASE DrainTail(t)
      BY <1>11, <2>7, <1>0 DEF DrainTail, Watched, Alert, Holds
  <2>8. QED
      BY <1>11, <2>1, <2>2, <2>3, <2>4, <2>5, <2>6, <2>7, Zenon DEF DrainStep
<1>12. ASSUME NEW t \in Workers, PopStep(t)  PROVE Watched'
  <2>1. CASE RunItem(t)
      BY <1>12, <2>1, <1>0 DEF RunItem, Watched, Alert
  <2>2. CASE GrantSuspend(t)
      BY <1>12, <2>2, <1>0 DEF GrantSuspend, Watched, Alert
  <2>3. CASE GrantRunning(t)
      BY <1>12, <2>3, <1>0 DEF GrantRunning, Watched, Alert
  <2>4. CASE GrantSignal(t)
      BY <1>12, <2>4, <1>0 DEF GrantSignal, Watched, Alert
  <2>5. CASE DrainRedirect(t)
      BY <1>12, <2>5, <1>0 DEF DrainRedirect, Watched, Alert
  <2>6. QED
      BY <1>12, <2>1, <2>2, <2>3, <2>4, <2>5, Zenon DEF PopStep
<1>13. ASSUME NEW t \in Workers, PutBackStep(t)  PROVE Watched'
  <2>1. CASE PutBackSpin(t)
      BY <1>13, <2>1, <1>0 DEF PutBackSpin, Watched, Alert
  <2>2. CASE PutBackHead(t)
      BY <1>13, <2>2, <1>0 DEF PutBackHead, Watched, Alert
  <2>3. CASE PutBackTail(t)
      BY <1>13, <2>3, <1>0 DEF PutBackTail, Watched, Alert, Holds
  <2>4. QED
      BY <1>13, <2>1, <2>2, <2>3, Zenon DEF PutBackStep
<1>14. ASSUME Release  PROVE Watched'
    BY <1>14 DEF Release, Watched, Alert
<1>15. ASSUME UNCHANGED queueVars  PROVE Watched'
    BY <1>15 DEF Watched, Alert
<1>16. QED
    BY <1>1, <1>2, <1>3, <1>4, <1>5, <1>6, <1>7, <1>8, <1>9, <1>10, <1>11,
       <1>12, <1>13, <1>14, <1>15, NextCases

-----------------------------------------------------------------------------
(* The count of references, and the end of the queue                       *)

\* With the client's release, the count of references is right after every
\* step.
LEMMA StepCounted ==
  ASSUME Shape, Shape', RootInv, RootInv', ItemsInv, RunInv, Words, Words',
         RefInv, [Next]_queueVars
  PROVE  RefInv'
<1>1. IsFiniteSet(redirected) /\ onRoot \in Nat /\ onRoot' \in Nat
    BY DEF RunInv, RootInv
<1>2. ASSUME NEW t \in Threads, RefMove(t)  PROVE RefInv'
    BY <1>1, <1>2, MoveRefs
<1>3. ASSUME UNCHANGED <<pc, ret, onRoot, redirected, suspended>>
      PROVE  /\ Referrers' = Referrers /\ Sent' = Sent
             /\ onRoot' = onRoot /\ suspended' = suspended
  <2>1. Refs' = Refs
      BY <1>3 DEF Refs, One, Refers
  <2>2. QED
      BY <1>3, <2>1 DEF Referrers, Sent, CountAt
<1>4. ASSUME Release  PROVE RefInv'
  <2>1. /\ UNCHANGED <<pc, ret, onRoot, redirected, suspended>>
        /\ released = 0 /\ released' = 1 /\ fate = "live"
        /\ Suspended => fate' = "suspended"
        /\ ~Suspended => refcnt' = refcnt - 1
      BY <1>4 DEF Release, DropReference, wordVars, itemVars, orderVars,
                  rootVars
  <2>2. refcnt = (1 - released) + suspended + onRoot + Sent + Referrers
      BY <2>1 DEF RefInv
  <2>3. Sent \in Nat /\ Referrers \in Nat /\ suspended \in Nat
      BY <1>1, FS_CardinalityType, QueueAssumption, CountType
         DEF Sent, Referrers, Words
  <2>4. Referrers' = Referrers /\ Sent' = Sent
      BY <1>3, <2>1
  <2> HIDE DEF Referrers, Sent
  <2>5. ~Suspended =>
          refcnt' = (1 - released') + suspended' + onRoot' + Sent' + Referrers'
      BY <1>1, <2>1, <2>2, <2>3, <2>4
  <2>6. QED
      BY <2>1, <2>5 DEF RefInv
<1>5. ASSUME UNCHANGED queueVars  PROVE RefInv'
  <2>1. UNCHANGED <<pc, ret, onRoot, redirected, suspended, refcnt, released,
                    fate>>
      BY <1>5 DEF queueVars, wordVars, otherVars, worldVars, objectVars,
                  rootVars, orderVars
  <2>2. QED
      BY <1>3, <2>1 DEF RefInv
<1>6. QED
    BY <1>1, <1>2, <1>4, <1>5, StepRefs

\* Nothing runs and nothing was granted: dq_running is zero.
LEMMA NothingRuns ==
  ASSUME RunInv, redirected = {}, \A c \in Clients : sema[c] = 0,
         \A t \in Threads : ~Twos(t) /\ ~Holds(t)
  PROVE  running = 0
<1>1. IsFiniteSet(Threads) /\ IsFiniteSet(Clients)
    BY QueueAssumption, FS_Subset DEF Threads
<1>2. Callers = 0
  <2>1. \A t \in Threads : Shares[t] \notin {1}
      BY DEF Shares, One
  <2>2. QED
      BY <1>1, <2>1, CountType DEF Callers
<1>3. Tokens = 0
    BY <1>1, CountType DEF Tokens
<1>4. Sent = 0
    BY FS_EmptySet DEF Sent
<1>5. Single = 0
    BY DEF Single, Held
<1>6. Doubles = 0
    BY <1>2, <1>3, <1>4, CountsType
<1>7. QED
    BY <1>5, <1>6 DEF RunInv

\* Where threads are when they need neither a reference nor the queue.
Done(t) == pc[t] = "idle" \/ pc[t] = "release"

\* When every thread is done with a queue, nobody suspended it and it is on no
\* list, it is empty.
LEMMA DoneEmpty ==
  ASSUME Shape, ItemsInv, RunInv, Watched, Gone, suspended = 0, onRoot = 0,
         redirected = {}, \A t \in Threads : Refers(t) => pc[t] = "release"
  PROVE  tail = NULL
<1>1. \A t \in Threads : Done(t)
  <2>1. \A c \in Clients : pc[c] = "idle" \/ Refers(c)
      BY DEF Gone
  <2>2. \A t \in Workers : pc[t] = "idle" \/ Refers(t)
      BY DEF Shape, Place, Threads, Refers, WorkerLocs
  <2>3. QED
      BY <2>1, <2>2 DEF Threads, Done
<1>2. \A c \in Clients : sema[c] = 0
  <2>1. ASSUME NEW c \in Clients  PROVE ~Waiting(c)
    <3>1. pc[c] = "idle" \/ obj[c] # c
        BY DEF Gone
    <3>2. QED
        BY <3>1 DEF Waiting, WakeupLocs
  <2>2. QED
      BY <2>1 DEF ItemsInv, CallerOK
<1>3. \A t \in Threads : ~Twos(t) /\ ~Holds(t) /\ ~Alert(t)
    BY <1>1 DEF Done, Twos, Entered, Trying, HandsOver, Holds, Fast, Alert,
                SlowLocs, OneLocs, DrainLocs, WakeupLocs
<1>4. running = 0
    BY <1>2, <1>3, NothingRuns
<1>5. QED
    BY <1>3, <1>4 DEF Watched

\* When there is one reference left, it is the client's or that of the thread
\* that gives it back.
LEMMA LastReference ==
  ASSUME RootInv, RunInv, Words, RefInv, fate = "live", refcnt = 1
  PROVE  /\ released = 0 => /\ suspended = 0 /\ onRoot = 0 /\ redirected = {}
                            /\ \A t \in Threads : ~Refers(t)
         /\ \A t \in Threads : Refers(t) =>
              /\ released = 1
              /\ suspended = 0 /\ onRoot = 0 /\ redirected = {}
              /\ \A u \in Threads : Refers(u) => u = t
<1>1. Sent \in Nat /\ (Sent = 0 => redirected = {})
    BY FS_CardinalityType, FS_EmptySet DEF RunInv, Sent
<1>2. /\ Referrers \in Nat
      /\ Referrers = 0 => \A t \in Threads : ~Refers(t)
      /\ \A t \in Threads : Refers(t) => Referrers > 0
  <2>1. \A t \in Threads : Refers(t) <=> Refs[t] \in {1}
      BY DEF Refs, One
  <2>2. QED
      BY <2>1, QueueAssumption, CountType DEF Referrers
<1>3. Referrers <= 1 =>
        \A t, u \in Threads : Refers(t) /\ Refers(u) => u = t
  <2>1. IsFiniteSet({t \in Threads : Refs[t] \in {1}})
      BY QueueAssumption, FS_Subset
  <2>2. SUFFICES ASSUME Referrers <= 1, NEW t \in Threads, NEW u \in Threads,
                        Refers(t), Refers(u), u # t
                 PROVE  FALSE
      OBVIOUS
  <2>3. {t, u} \subseteq {x \in Threads : Refs[x] \in {1}}
      BY <2>2 DEF Refs, One
  <2>4. Cardinality({t, u}) = 2
    <3>1. IsFiniteSet({t}) /\ Cardinality({t}) = 1
        BY FS_Singleton
    <3>2. {t, u} = {t} \cup {u} /\ u \notin {t}
        BY <2>2
    <3>3. QED
        BY <3>1, <3>2, FS_AddElement
  <2>5. Cardinality({t, u}) <= Cardinality({x \in Threads : Refs[x] \in {1}})
      BY <2>1, <2>3, FS_Subset
  <2>6. QED
      BY <1>2, <2>2, <2>4, <2>5 DEF Referrers, CountAt
<1>4. 1 = (1 - released) + suspended + onRoot + Sent + Referrers
    BY DEF RefInv
<1>5. suspended \in Nat /\ released \in {0, 1} /\ onRoot \in Nat
    BY DEF Words, RootInv
<1> HIDE DEF Sent, Referrers, Refers
<1>6. ASSUME released = 0
      PROVE  suspended = 0 /\ onRoot = 0 /\ Sent = 0 /\ Referrers = 0
    BY <1>1, <1>2, <1>4, <1>5, <1>6
<1>7. ASSUME Referrers > 0
      PROVE  /\ suspended = 0 /\ onRoot = 0 /\ Sent = 0 /\ released = 1
             /\ Referrers <= 1
    BY <1>1, <1>2, <1>4, <1>5, <1>7
<1>8. QED
    BY <1>1, <1>2, <1>3, <1>6, <1>7

\* The queue is live until its last reference is gone.
Ending == fate \in {"live", "disposed"} /\ (fate = "disposed" => refcnt = 0)

\* When the client releases a queue that it has not suspended, no barrier that
\* was granted has it suspended either.
LEMMA ReleaseResumed ==
  ASSUME Shape, RootInv, ItemsInv, SuspInv, Release
  PROVE  ~Suspended
<1> USE QueueAssumption DEF Threads, Items
<1>1. Gone /\ suspended = 0
    BY ReleaseGone DEF Release
<1>2. \A c \in Clients : obj[c] = c => pc[c] = "idle"
    BY <1>1 DEF Gone
<1>3. \A c \in Clients : ~Waiting(c)
    BY <1>2 DEF Waiting, WakeupLocs
<1>4. \A c \in Clients : ~Told(c)
    BY <1>3 DEF Told, ItemsInv, CallerOK
<1>5. ASSUME NEW c \in Clients  PROVE ~Suspends(c)
  <2>1. pc[c] \in {"idle", "release"} \cup WakeupLocs
      BY <1>1 DEF Gone, Refers, Shape, Place, ClientLocs, PushLocs,
              WakeupLocs, AsyncLocs, SyncLocs, FastLocs, SlowLocs, OneLocs,
              InvokeLocs, DrainLocs
  <2>2. QED
      BY <2>1 DEF Suspends, HandsOver, OneLocs, WakeupLocs
<1>6. ASSUME NEW t \in Workers, Suspends(t)  PROVE FALSE
  <2>1. /\ pc[t] \in {"xrun", "signal"} /\ kind[obj[t]] = "barriersync"
      BY <1>6 DEF Suspends, HandsOver, Shape, Place, OneLocs, WorkerLocs,
                  WakeupLocs, InvokeLocs, DrainLocs
  <2>2. obj[t] \in Items
      BY <2>1 DEF Shape, Pointers, Place, ItemLocs
  <2>3. obj[t] \in Clients
      BY <2>1, <2>2 DEF ItemsInv, WorksOK
  <2>4. Waiting(obj[t])
      BY <2>1, <2>3 DEF ItemsInv, GrantsOK, Granting
  <2>5. QED
      BY <1>3, <2>3, <2>4
<1>7. ~Guarded
    BY <1>4, <1>5, <1>6 DEF Guarded
<1>8. One(Guarded) = 0
    BY <1>7 DEF One
<1> HIDE DEF One, Guarded
<1>9. QED
    BY <1>1, <1>8 DEF SuspInv, Suspended, INTERVAL

\* Only the last reference disposes of the queue, and then it is empty.
LEMMA StepEnding ==
  ASSUME Shape, RootInv, ItemsInv, RunInv, SuspInv, Words, RefInv, Watched,
         Quiesced, Ending, [Next]_queueVars
  PROVE  Ending'
<1>1. ASSUME UNCHANGED <<fate>>, fate = "live"  PROVE Ending'
    BY <1>1 DEF Ending
<1>2. ASSUME DropReference, fate = "live",
             refcnt = 1 => tail = NULL
      PROVE  Ending'
    BY <1>2 DEF DropReference, Ending, Words
<1>3. ASSUME Release  PROVE Ending'
  <2>1. fate = "live" /\ released = 0 /\ Gone
      BY <1>3, ReleaseGone DEF Release
  <2>2. refcnt = 1 => tail = NULL
      BY <2>1, LastReference, DoneEmpty
  <2>3. DropReference
      BY <1>3, ReleaseResumed DEF Release
  <2>4. QED
      BY <1>2, <2>1, <2>2, <2>3
<1>4. ASSUME NEW t \in Threads, ReleaseInternal(t)  PROVE Ending'
  <2>1. fate = "live" /\ pc[t] = "release" /\ DropReference
      BY <1>4 DEF ReleaseInternal, At
  <2>2. Refers(t)
      BY <2>1 DEF Refers
  <2>3. ASSUME refcnt = 1  PROVE tail = NULL
    <3>1. /\ released = 1 /\ suspended = 0 /\ onRoot = 0 /\ redirected = {}
          /\ \A u \in Threads : Refers(u) => u = t
        BY <2>1, <2>2, <2>3, LastReference
    <3>2. Gone
        BY <3>1 DEF Quiesced
    <3>3. QED
        BY <2>1, <3>1, <3>2, DoneEmpty
  <2>4. QED
      BY <1>2, <2>1, <2>3
<1>5. ASSUME UNCHANGED queueVars  PROVE Ending'
    BY <1>5 DEF Ending, queueVars, otherVars, worldVars, objectVars
<1>6. CASE Next
  <2>1. \/ Release
        \/ \E t \in Threads : ReleaseInternal(t)
        \/ UNCHANGED fate /\ fate = "live"
    <3> USE DEF Threads
    <3>1. ASSUME NEW t \in Threads, WakeupStep(t)
          PROVE  ReleaseInternal(t) \/ (UNCHANGED fate /\ fate = "live")
        BY <3>1 DEF WakeupStep, WakeupSuspended, WakeupTail, WakeupLock,
           WakeupPush, Test, Add, WakeupTest, At, otherVars, worldVars,
           objectVars
    <3>2. ASSUME NEW t \in Clients, CallStep(t)
          PROVE  UNCHANGED fate /\ fate = "live"
        BY <3>2 DEF CallStep, Async, BarrierAsync, Sync, BarrierSync, Suspend,
           Resume, MayCall, Submit, Call, Enter, Run, Test, Add, TryEmpty,
           DropRunning, At, outerVars, otherVars, worldVars, objectVars
    <3>3. ASSUME NEW t \in Clients, PushStep(t)
          PROVE  UNCHANGED fate /\ fate = "live"
        BY <3>3 DEF PushStep, Swap, Link, SetHead, MayCall, Submit, Call,
           Enter, Run, Test, Add, TryEmpty, DropRunning, At, outerVars,
           otherVars, worldVars, objectVars
    <3>4. ASSUME NEW t \in Clients, AsyncStep(t)
          PROVE  UNCHANGED fate /\ fate = "live"
        BY <3>4 DEF AsyncStep, AsyncTail, AsyncSuspended, AsyncAdd, AsyncOver,
           AsyncOdd, AsyncRedirect, MayCall, Submit, Call, Enter, Run, Test,
           Add, TryEmpty, DropRunning, At, outerVars, otherVars, worldVars,
           objectVars
    <3>5. ASSUME NEW t \in Clients, SyncStep(t)
          PROVE  UNCHANGED fate /\ fate = "live"
        BY <3>5 DEF SyncStep, SyncTail, SyncSuspended, SyncAdd, SyncBack,
           SyncRun, SyncSub, Wait, MayCall, Submit, Call, Enter, Run, Test,
           Add, TryEmpty, DropRunning, At, outerVars, otherVars, worldVars,
           objectVars
    <3>6. ASSUME NEW t \in Clients, BarrierStep(t)
          PROVE  UNCHANGED fate /\ fate = "live"
        BY <3>6 DEF BarrierStep, BarrierTail, BarrierSuspended, BarrierLock,
           BarrierRun, BarrierCheck, TransferSuspended, BarrierUnlock, MayCall,
           Submit, Call, Enter, Run, Test, Add, TryEmpty, DropRunning, At,
           outerVars, otherVars, worldVars, objectVars
    <3>7. ASSUME NEW t \in Clients, SlowStep(t)
          PROVE  UNCHANGED fate /\ fate = "live"
        BY <3>7 DEF SlowStep, SlowRun, SlowTest, SlowSpin, SlowResume,
           SlowUnlock, MayCall, Submit, Call, Enter, Run, Test, Add, TryEmpty,
           DropRunning, At, outerVars, otherVars, worldVars, objectVars
    <3>8. ASSUME NEW t \in Clients, HandOverStep(t)
          PROVE  UNCHANGED fate /\ fate = "live"
        BY <3>8 DEF HandOverStep, OneHead, OneTail, OneSpin, TransferSuspend,
           TransferRunning, TransferSignal, MayCall, Submit, Call, Enter, Run,
           Test, Add, TryEmpty, DropRunning, At, outerVars, otherVars,
           worldVars, objectVars
    <3>9. ASSUME NEW t \in Workers, InvokeStep(t)
          PROVE  UNCHANGED fate /\ fate = "live"
        BY <3>9 DEF InvokeStep, TakeQueue, InvokeSuspended, InvokeLock,
           InvokeLeave, InvokeUnlock, InvokeProbe, MayCall, Submit, Call,
           Enter, Run, Test, Add, TryEmpty, DropRunning, At, outerVars,
           otherVars, worldVars, objectVars
    <3>10. ASSUME NEW t \in Workers, RedirectStep(t)
          PROVE  UNCHANGED fate /\ fate = "live"
        BY <3>10 DEF RedirectStep, TakeRedirected, RunBeside, RedirectSub,
           MayCall, Submit, Call, Enter, Run, Test, Add, TryEmpty, DropRunning,
           At, outerVars, otherVars, worldVars, objectVars
    <3>11. ASSUME NEW t \in Workers, DrainStep(t)
          PROVE  UNCHANGED fate /\ fate = "live"
        BY <3>11 DEF DrainStep, DrainTail, DrainHead, DrainNext, DrainLast,
           DrainSpin, DrainSuspended, DrainPop, MayCall, Submit, Call, Enter,
           Run, Test, Add, TryEmpty, DropRunning, At, outerVars, otherVars,
           worldVars, objectVars
    <3>12. ASSUME NEW t \in Workers, PopStep(t)
          PROVE  UNCHANGED fate /\ fate = "live"
        BY <3>12 DEF PopStep, RunItem, GrantSuspend, GrantRunning, GrantSignal,
           DrainRedirect, MayCall, Submit, Call, Enter, Run, Test, Add,
           TryEmpty, DropRunning, At, outerVars, otherVars, worldVars,
           objectVars
    <3>13. ASSUME NEW t \in Workers, PutBackStep(t)
          PROVE  UNCHANGED fate /\ fate = "live"
        BY <3>13 DEF PutBackStep, PutBackTail, PutBackSpin, PutBackHead,
           MayCall, Submit, Call, Enter, Run, Test, Add, TryEmpty, DropRunning,
           At, outerVars, otherVars, worldVars, objectVars
    <3>14. QED
        BY <1>6, <3>1, <3>2, <3>3, <3>4, <3>5, <3>6, <3>7, <3>8, <3>9,
           <3>10, <3>11, <3>12, <3>13, NextCases
  <2>2. QED
      BY <1>1, <1>3, <1>4, <2>1
<1>7. QED
    BY <1>5, <1>6

-----------------------------------------------------------------------------
(* At rest                                                                 *)

CountsInv == Words /\ SuspInv /\ RefInv

\* A new queue has one reference and nobody suspended it.
LEMMA InitCounts == Init => CountsInv
<1> SUFFICES ASSUME Init  PROVE CountsInv
    OBVIOUS
<1>1. /\ \A t \in Threads : pc[t] = "idle"
      /\ \A c \in Clients : sema[c] = 0
    BY DEF Init
<1>2. Words
    BY DEF Init, Words
<1>3. SuspInv
  <2>1. ~Guarded
      BY <1>1 DEF Guarded, Suspends, HandsOver, Told, OneLocs
  <2>2. One(Guarded) = 0
      BY <2>1 DEF One
  <2> HIDE DEF One, Guarded
  <2>3. susp = 2 * (suspended + One(Guarded)) + 0
      BY <2>2 DEF Init
  <2>4. QED
      BY <2>3 DEF SuspInv
<1>4. RefInv
  <2>1. \A t \in Threads : Refs[t] \notin {1}
      BY <1>1 DEF Refs, One, Refers, InvokeLocs, DrainLocs, WakeupLocs
  <2>2. Referrers = 0
      BY <2>1, QueueAssumption, CountType DEF Referrers
  <2>3. Sent = 0
      BY FS_EmptySet DEF Init, Sent
  <2>4. QED
      BY <2>2, <2>3 DEF Init, RefInv
<1>5. QED
    BY <1>2, <1>3, <1>4 DEF CountsInv

\* Every step keeps the counts right.
LEMMA StepCounts ==
  QueueInv /\ QueueInv' /\ RootInv /\ RootInv' /\ CountsInv /\ [Next]_queueVars
    => CountsInv'
<1> SUFFICES ASSUME QueueInv, QueueInv', RootInv, RootInv', CountsInv,
                    [Next]_queueVars
             PROVE  CountsInv'
    OBVIOUS
<1>1. Words'
    BY StepWords DEF CountsInv
<1>2. SuspStep
    BY QueueFinds, StepSusp DEF QueueInv, CountsInv, Words
<1>3. SuspInv'
    BY <1>1, <1>2, MoveSusp DEF CountsInv, Words
<1>4. RefInv'
    BY <1>1, StepCounted DEF QueueInv, CountsInv
<1>5. QED
    BY <1>1, <1>3, <1>4 DEF CountsInv

\* The counts of suspensions and references, whatever the width of the queue.
THEOREM QueueCounts == Spec => []CountsInv
<1>1. QueueInv => Shape
    BY DEF QueueInv
<1>2. QED
    BY <1>1, InitCounts, StepCounts, InitRoot, StepRoot, QueueInvariant, PTL
       DEF Spec

\* When nobody is inside a call, nothing has entered the queue.
LEMMA RestsEmpty ==
  ASSUME ItemsInv, RunInv, redirected = {},
         \A t \in Threads : pc[t] \in {"idle", "wait"},
         \A c \in Clients : sema[c] = 0
  PROVE  running = 0
<1>1. \A t \in Threads : ~Twos(t) /\ ~Holds(t)
    BY DEF Twos, Entered, Trying, HandsOver, Holds, Fast, SlowLocs, OneLocs,
           DrainLocs
<1>2. QED
    BY <1>1, NothingRuns

\* The counts of a queue at rest are where the calls made so far leave them,
\* whatever its width and however its barriers were handed over.
THEOREM QueueBalanced == Spec => []BalancedAtRest
<1>1. QueueInv /\ RootInv /\ CountsInv => BalancedAtRest
  <2> SUFFICES ASSUME QueueInv, RootInv, CountsInv, fate = "live",
                      \A t \in Clients : pc[t] \in {"idle"},
                      \A t \in Workers : pc[t] \in {"idle"},
                      onRoot = 0, redirected = {}
               PROVE  /\ running = 0
                      /\ susp = INTERVAL * suspended
                      /\ refcnt = (1 - released) + suspended
                      /\ \A t \in Clients : sema[t] = 0
      BY DEF BalancedAtRest, AllAt
  <2>1. \A t \in Threads : pc[t] = "idle"
      BY DEF Threads
  <2>2. \A c \in Clients : sema[c] = 0
    <3>1. \A c \in Clients : ~Waiting(c)
        BY DEF Waiting, WakeupLocs
    <3>2. QED
        BY <3>1 DEF QueueInv, ItemsInv, CallerOK
  <2>3. running = 0
      BY <2>1, <2>2, RestsEmpty DEF QueueInv
  <2>4. susp % 2 = 0
    <3>1. Pushing = 0
        BY <2>1, QueueAssumption, CountType DEF Pushing
    <3>2. Invoking = 0
        BY <2>1, QueueAssumption, CountType DEF Invoking, InvokeLocs, DrainLocs
    <3>3. QED
        BY <3>1, <3>2 DEF RootInv
  <2>5. susp = INTERVAL * suspended
    <3>1. ~Guarded
        BY <2>1, <2>2 DEF Guarded, Suspends, HandsOver, Told, OneLocs
    <3>2. One(Guarded) = 0
        BY <3>1 DEF One
    <3>3. suspended \in Nat
        BY DEF CountsInv, Words
    <3>4. PICK b \in {0, 1} : susp = 2 * (suspended + One(Guarded)) + b
        BY DEF CountsInv, SuspInv
    <3> HIDE DEF One, Guarded
    <3>5. QED
        BY <2>4, <3>2, <3>3, <3>4 DEF INTERVAL
  <2>6. refcnt = (1 - released) + suspended
    <3>1. \A t \in Threads : Refs[t] \notin {1}
        BY <2>1 DEF Refs, One, Refers, InvokeLocs, DrainLocs, WakeupLocs
    <3>2. Referrers = 0
        BY <3>1, QueueAssumption, CountType DEF Referrers
    <3>3. Sent = 0
        BY FS_EmptySet DEF Sent
    <3>4. QED
        BY <3>2, <3>3 DEF CountsInv, RefInv, Words
  <2>7. QED
      BY <2>2, <2>3, <2>5, <2>6
<1>2. QueueInv => Shape
    BY DEF QueueInv
<1>3. QED
    BY <1>1, <1>2, InitRoot, StepRoot, QueueInvariant, QueueCounts, PTL
       DEF Spec

-----------------------------------------------------------------------------
(* A queue that nobody leaves unattended                                   *)

AttendedInv == Apart /\ Watched /\ Quiesced /\ Ending

\* A new queue is empty and live.
LEMMA InitAttended == Init => AttendedInv
<1> SUFFICES ASSUME Init  PROVE AttendedInv
    OBVIOUS
<1>1. Apart
    BY DEF Init, Apart, AsyncLocs
<1>2. Watched /\ Quiesced /\ Ending
    BY DEF Init, Watched, Quiesced, Ending
<1>3. QED
    BY <1>1, <1>2 DEF AttendedInv

\* Every step leaves it attended, if no asynchronous reader backs out of it.
LEMMA StepAttended ==
  Sparing /\ QueueInv /\ RootInv /\ CountsInv /\ AttendedInv
      /\ [Next]_queueVars
    => AttendedInv'
<1> SUFFICES ASSUME Sparing, QueueInv, RootInv, CountsInv, AttendedInv,
                    [Next]_queueVars
             PROVE  AttendedInv'
    OBVIOUS
<1>1. Apart'
    BY StepApart DEF AttendedInv, QueueInv
<1>2. Watched'
    BY StepWatched DEF AttendedInv, QueueInv, CountsInv
<1>3. Quiesced'
    BY StepQuiesced DEF AttendedInv, QueueInv, CountsInv
<1>4. Ending'
    BY StepEnding DEF AttendedInv, QueueInv, CountsInv
<1>5. QED
    BY <1>1, <1>2, <1>3, <1>4 DEF AttendedInv

\* A serial queue, or one that dispatch_async is not called on, has somebody
\* who will look after its items as long as there are any.
THEOREM QueueAttended ==
  ASSUME Width = 1 \/ "async" \notin Calls
  PROVE  Spec => []AttendedInv
<1>1. QueueInv => Shape
    BY DEF QueueInv
<1>2. QueueInv /\ RootInv /\ CountsInv /\ AttendedInv /\ [Next]_queueVars
        => AttendedInv'
    BY StepAttended DEF Sparing
<1>3. QED
    BY <1>1, <1>2, InitAttended, InitRoot, StepRoot, QueueInvariant,
       QueueCounts, PTL DEF Spec

\* When nobody is at work on such a queue, nothing is left on it and no caller
\* waits for it.  On a queue of more than one reader with dispatch_async() this
\* is false: its reader takes its share of dq_running back without a wakeup.
THEOREM QueueNeverStalls ==
  ASSUME Width = 1 \/ "async" \notin Calls
  PROVE  Spec => []NeverStalls
<1>1. QueueInv /\ AttendedInv /\ Handed => NeverStalls
  <2> SUFFICES ASSUME QueueInv, AttendedInv, Handed,
                      \A t \in Clients : pc[t] \in {"idle", "wait"},
                      \A t \in Workers : pc[t] \in {"idle"},
                      onRoot = 0, redirected = {}, suspended = 0,
                      \A c \in Clients : sema[c] = 0
               PROVE  tail = NULL /\ \A c \in Clients : pc[c] = "idle"
      BY DEF NeverStalls, AllAt
  <2>1. \A t \in Threads : pc[t] \in {"idle", "wait"}
      BY DEF Threads
  <2>2. running = 0
      BY <2>1, RestsEmpty DEF QueueInv
  <2>3. tail = NULL
    <3>1. \A t \in Threads : ~Alert(t)
        BY <2>1 DEF Alert, WakeupLocs
    <3>2. QED
        BY <2>2, <3>1 DEF AttendedInv, Watched
  <2>4. \A i \in Items : state[i] # "queued"
    <3>1. \A t \in Threads : ~Cut(t)
        BY <2>1 DEF Cut
    <3>2. First = 1
        BY <3>1 DEF First, Gapped
    <3>3. fifo \in Seq(Items) /\ Len(fifo) < 1
        BY <2>3, <3>2 DEF QueueInv, ListInv, Ends, TailLast, Sequence
    <3>4. Len(fifo) \in Nat
        BY <3>3
    <3>5. QED
        BY <3>3, <3>4 DEF QueueInv, ListInv, Sequence
  <2>5. \A i \in Items : state[i] # "taken"
    <3>1. \A t \in Threads : ~Granting(t) /\ ~Bears(t)
        BY <2>1 DEF Granting, Bears
    <3>2. QED
        BY <3>1 DEF Handed
  <2>6. ASSUME NEW c \in Clients, pc[c] = "wait"  PROVE FALSE
    <3>1. Waiting(c)
        BY <2>6 DEF QueueInv, ItemsInv, CallerOK, Waiting
    <3>2. state[c] \in {"queued", "taken"}
        BY <3>1 DEF QueueInv, ItemsInv, CallerOK, Waiting
    <3>3. QED
        BY <2>4, <2>5, <3>2 DEF Items
  <2>7. QED
      BY <2>3, <2>6
<1>2. QED
    BY <1>1, QueueInvariant, QueueAttended, QueueHanded, PTL

\* Such a queue is never disposed of with items on it, released while it is
\* suspended, or used once it is disposed of.
THEOREM QueueNeverDisposedInUse ==
  ASSUME Width = 1 \/ "async" \notin Calls
  PROVE  Spec => []NeverDisposedInUse
<1>1. QueueInv /\ RootInv /\ CountsInv /\ AttendedInv => NeverDisposedInUse
  <2> SUFFICES ASSUME QueueInv, RootInv, CountsInv, AttendedInv,
                      fate = "disposed"
               PROVE  /\ \A t \in Threads : pc[t] = "idle"
                      /\ redirected = {} /\ onRoot = 0
      BY DEF NeverDisposedInUse, AttendedInv, Ending
  <2>1. Sent \in Nat /\ (Sent = 0 => redirected = {})
      BY FS_CardinalityType, FS_EmptySet DEF QueueInv, RunInv, Sent
  <2>2. Referrers \in Nat /\ (Referrers = 0 => \A t \in Threads : ~Refers(t))
    <3>1. \A t \in Threads : Refers(t) <=> Refs[t] \in {1}
        BY DEF Refs, One
    <3>2. QED
        BY <3>1, QueueAssumption, CountType DEF Referrers
  <2>3. /\ 0 = (1 - released) + suspended + onRoot + Sent + Referrers
        /\ suspended \in Nat /\ released \in {0, 1} /\ onRoot \in Nat
      BY DEF AttendedInv, Ending, CountsInv, RefInv, Words, RootInv
  <2>4. released = 1 /\ onRoot = 0 /\ Sent = 0 /\ Referrers = 0
    <3> HIDE DEF Sent, Referrers
    <3>1. QED
        BY <2>1, <2>2, <2>3
  <2>5. \A t \in Threads : ~Refers(t)
      BY <2>2, <2>4
  <2>6. \A c \in Clients : pc[c] = "idle"
      BY <2>4, <2>5 DEF AttendedInv, Quiesced, Gone, Threads
  <2>7. \A t \in Workers : pc[t] = "idle"
      BY <2>5 DEF QueueInv, Shape, Place, Threads, Refers, WorkerLocs
  <2>8. QED
      BY <2>1, <2>4, <2>6, <2>7 DEF Threads
<1>2. QueueInv => Shape
    BY DEF QueueInv
<1>3. QED
    BY <1>1, <1>2, InitRoot, StepRoot, QueueInvariant, QueueCounts,
       QueueAttended, PTL DEF Spec
=============================================================================
