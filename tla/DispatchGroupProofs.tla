------------------------ MODULE DispatchGroupProofs ------------------------
(***************************************************************************)
(* Proofs about DispatchGroup, for any finite set of threads, any set of   *)
(* notification records and any original value: the references of a group  *)
(* balance and it is never disposed of in use, a record is submitted once  *)
(* and nobody touches a freed one, and no notification and no wakeup is    *)
(* lost.                                                                   *)
(***************************************************************************)
EXTENDS DispatchGroup, Counting, FiniteSetTheorems, WellFoundedInduction, TLAPS

(* How a count of threads changes                                          *)

\* How much a thread that is at x adds to the count of those at A.
Weight(x, A) == IF x \in A THEN 1 ELSE 0

\* A count is a natural number, and positive as soon as one thread is there.
LEMMA CountType ==
  ASSUME NEW T, IsFiniteSet(T), NEW f, NEW A
  PROVE  /\ CountAt(T, f, A) \in Nat
         /\ \A t \in T : f[t] \in A => CountAt(T, f, A) > 0
         /\ CountAt(T, f, A) > 0 => \E t \in T : f[t] \in A
<1> DEFINE S == {t \in T : f[t] \in A}
<1>1. IsFiniteSet(S) /\ Cardinality(S) \in Nat
    BY FS_Subset, FS_CardinalityType
<1>2. Cardinality(S) = 0 <=> S = {}
    BY <1>1, FS_EmptySet
<1>3. QED
    BY <1>1, <1>2 DEF CountAt

\* Moving one thread changes the count by where it comes from and goes to.
LEMMA CountStep ==
  ASSUME NEW T, NEW f, NEW g, NEW t, NEW x, NEW A,
         IsFiniteSet(T), t \in T,
         \A u \in T : g[u] = IF u = t THEN x ELSE f[u]
  PROVE  CountAt(T, g, A) = CountAt(T, f, A) - Weight(f[t], A) + Weight(x, A)
<1> DEFINE S == {u \in T : f[u] \in A}
           R == {u \in T : g[u] \in A}
           Others == {u \in T : u # t /\ f[u] \in A}
<1>1. IsFiniteSet(Others) /\ Cardinality(Others) \in Nat
    BY FS_Subset, FS_CardinalityType
<1>2. /\ t \notin Others
      /\ g[t] = x
      /\ \A u \in T : u # t => g[u] = f[u]
    OBVIOUS
<1>3. Cardinality(S) = Cardinality(Others) + Weight(f[t], A)
  <2>1. CASE f[t] \in A
    <3>1. S = Others \cup {t}  BY <2>1
    <3>2. QED  BY <2>1, <3>1, <1>1, <1>2, FS_AddElement DEF Weight
  <2>2. CASE f[t] \notin A
    <3>1. S = Others  BY <2>2
    <3>2. Cardinality(S) = Cardinality(Others)  BY <3>1
    <3>3. Weight(f[t], A) = 0  BY <2>2 DEF Weight
    <3> HIDE DEF S, R, Others
    <3>4. QED  BY <3>2, <3>3, <1>1
  <2>3. QED  BY <2>1, <2>2
<1>4. Cardinality(R) = Cardinality(Others) + Weight(x, A)
  <2>1. CASE x \in A
    <3>1. R = Others \cup {t}  BY <2>1, <1>2
    <3>2. QED  BY <2>1, <3>1, <1>1, <1>2, FS_AddElement DEF Weight
  <2>2. CASE x \notin A
    <3>1. R = Others  BY <2>2, <1>2
    <3>2. Cardinality(R) = Cardinality(Others)  BY <3>1
    <3>3. Weight(x, A) = 0  BY <2>2 DEF Weight
    <3> HIDE DEF S, R, Others
    <3>4. QED  BY <3>2, <3>3, <1>1
  <2>3. QED  BY <2>1, <2>2
<1>5. Weight(x, A) \in {0, 1} /\ Weight(f[t], A) \in {0, 1}
    BY DEF Weight
<1>6. QED
    BY <1>1, <1>3, <1>4, <1>5 DEF CountAt

\* In every set of things that are ranked there is one of the lowest rank.
LEMMA LowestRank ==
  ASSUME NEW S, S # {}, NEW rank, \A x \in S : rank[x] \in Nat
  PROVE  \E x \in S : \A y \in S : ~(rank[y] < rank[x])
<1> DEFINE Ranks == {rank[x] : x \in S}
<1>1. Ranks \subseteq Nat /\ Ranks # {}
    OBVIOUS
<1>2. \E m \in Ranks : \A n \in Ranks : <<n, m>> \notin OpToRel(<, Nat)
    BY <1>1, NatLessThanWellFounded, WFMin, Zenon
<1>3. \A m, n \in Nat : n < m => <<n, m>> \in OpToRel(<, Nat)
    BY DEF OpToRel
<1>4. PICK m \in Ranks : \A n \in Ranks : ~(n < m)
    BY <1>1, <1>2, <1>3
<1>5. QED
    BY <1>4

-----------------------------------------------------------------------------

\* What a thread's location says of its local variables.
Place(t) ==
    /\ pc[t] \in {"idle", "enter"} \cup LeaveLocs \cup WaitLocs
                   \cup NotifyLocs => after[t] = "idle"
    /\ pc[t] = "release" => after[t] = "release"
    /\ list[t] # NULL =>
         pc[t] \in {"taketail", "takewaiters", "post", "submit", "advance"}
    /\ pc[t] \in {"taketail", "submit", "advance"} => list[t] # NULL
    /\ pc[t] \in {"swap", "link", "retain", "sethead"} => rec[t] # NULL
    /\ pc[t] = "post" => rval[t] > 0

Shape ==
    /\ value \in Int /\ waiters \in Nat /\ ksem \in Nat
    /\ head \in Records \cup {NULL} /\ tail \in Records \cup {NULL}
    /\ next \in [Records -> Records \cup {NULL}]
    /\ memory \in [Records -> {"unused", "pending", "submitted", "freed"}]
    /\ refcnt \in Int /\ released \in {0, 1}
    /\ fate \in {"running", "in_use", "touched", "unbalanced"}
    /\ bare \in Nat /\ early \in BOOLEAN
    /\ pc \in [Threads -> Locations]
    /\ after \in [Threads -> {"idle", "release"}]
    /\ list \in [Threads -> Records \cup {NULL}]
    /\ last \in [Threads -> Records \cup {NULL}]
    /\ rval \in [Threads -> Nat]
    /\ rec \in [Threads -> Records \cup {NULL}]
    /\ prev \in [Threads -> Records \cup {NULL}]
    /\ \A t \in Threads : Place(t)

\* How many threads stand where they own a reference or the list.
Entering == CountAt(Threads, pc, {"enter"})       \* about to enter a block
Leaving  == CountAt(Threads, after, {"release"})  \* at the end of a block
Starting == CountAt(Threads, pc, {"retain"})      \* pushed onto an empty list
Hanging  == CountAt(Threads, pc, {"sethead"})     \* and retained the group
Taking   == CountAt(Threads, pc, {"taketail"})    \* took the head of the list
Serving  == CountAt(Threads, list, Records)       \* have a list to serve
Dropping == CountAt(Threads, pc, {"drop"})        \* have served it

CountsOK == /\ Entering \in Nat /\ Leaving \in Nat /\ Starting \in Nat
            /\ Hanging \in Nat /\ Taking \in Nat /\ Serving \in Nat
            /\ Dropping \in Nat

One(x) == IF x = NULL THEN 0 ELSE 1

\* References: the client's, one per block and one per list.  The list that is
\* growing has one owner of its far end: the thread that began it, its head,
\* or the thread that took its head.
Owners ==
    /\ value + bare <= Orig
    /\ refcnt = (1 - released) + (Orig - value - bare) + Entering + Leaving
                  + One(head) + Hanging + Serving + Dropping
    /\ One(tail) = One(head) + Starting + Hanging + Taking

\* What relies on the client's reference is over when that is gone, unless it
\* went too early; and a group that nobody refers to is at rest.
Reliance ==
    /\ released = 1 /\ ~early =>
         bare = 0 /\ \A t \in Threads : ~OnClientsReference(t)
    /\ refcnt > 0 \/ (value = Orig /\ \A t \in Threads : pc[t] = "idle")

Accounts == Alive => Owners /\ Reliance

\* How a group ends that is disposed of in use.
Endings == /\ fate \in {"in_use", "touched"} => early
           /\ fate = "in_use" => value + bare = Orig

GroupInv == Shape /\ Accounts /\ Endings

-----------------------------------------------------------------------------
(* The steps, by the function they belong to                               *)

BlockStep(t) == AsyncRetain(t) \/ Enter(t) \/ Leave(t) \/ LeaveUnbalanced(t)
                \/ LeaveRelease(t) \/ ClientEnter(t) \/ ClientLeave(t)
                \/ LeaveTest(t)
WakeStep(t) == TakeHead(t) \/ TakeTail(t) \/ TakeWaiters(t) \/ PostWaiter(t)
               \/ Submit(t) \/ Advance(t) \/ DropList(t)
WaitStep(t) == Wait(t) \/ Check(t) \/ Join(t) \/ Recheck(t) \/ Woken(t) \/
               SpuriousWakeup(t) \/ TimedOut(t) \/ Undo(t)
NotifyStep(t) == Notify(t) \/ Swap(t) \/ Link(t) \/ Retain(t) \/ SetHead(t) \/
                 Test(t)

\* The steps of Next, sorted by the function they belong to.
LEMMA NextCases ==
  ASSUME Next
  PROVE  \/ Release
         \/ \E t \in Threads :
              BlockStep(t) \/ WakeStep(t) \/ WaitStep(t) \/ NotifyStep(t)
  BY DEF Next, ClientCall, Step, BlockStep, WakeStep, WaitStep, NotifyStep

\* The record that a notification gets was not used before.
LEMMA Fresh ==
  ASSUME NEW t \in Threads, Notify(t)
  PROVE  \E n \in Records : /\ memory[n] = "unused"
                            /\ memory' = [memory EXCEPT ![n] = "pending"]
                            /\ rec' = [rec EXCEPT ![t] = n]
<1>1. NewRecord \in Records /\ memory[NewRecord] = "unused"
    BY DEF Notify, NewRecord
<1>2. QED
    BY <1>1 DEF Notify

\* A step of one thread leaves the others where they are.
Follows(t) ==
    /\ \A u \in Threads : u # t => /\ pc'[u] = pc[u]
                                   /\ after'[u] = after[u]
                                   /\ list'[u] = list[u]

\* The shape holds at first ...
LEMMA InitShape == Init => Shape
<1> SUFFICES ASSUME Init  PROVE Shape
    OBVIOUS
<1>1. early \in BOOLEAN
    BY Zenon DEF Init
<1>2. QED
    BY <1>1, GroupAssumption DEF Init, Shape, Place, Locations, LeaveLocs,
       WakeLocs, WaitLocs, NotifyLocs

\* ... and every step keeps it: types and what a location says of the locals.
LEMMA StepShape == Shape /\ [Next]_groupVars => Shape'
<1> SUFFICES ASSUME Shape, [Next]_groupVars  PROVE Shape'
    OBVIOUS
<1> USE GroupAssumption DEF Shape, Place, Locations, LeaveLocs, WakeLocs,
        WaitLocs, NotifyLocs, Goto, WakeIfEmpty, Empty, Alive, Usable,
        DropReference, Served, groupVars, valueVars, notifyVars, objectVars,
        clientVars, localVars
<1>1. ASSUME Release  PROVE Shape'
    BY <1>1 DEF Release
<1>2. ASSUME NEW t \in Threads, BlockStep(t)  PROVE Shape'
    BY <1>2 DEF BlockStep, AsyncRetain, Enter, Leave, LeaveUnbalanced,
           LeaveRelease, ClientEnter, ClientLeave, LeaveTest
<1>3. ASSUME NEW t \in Threads, WakeStep(t)  PROVE Shape'
    BY <1>3 DEF WakeStep, TakeHead, TakeTail, TakeWaiters, PostWaiter, Submit,
           Advance, DropList
<1>4. ASSUME NEW t \in Threads, WaitStep(t)  PROVE Shape'
    BY <1>4 DEF WaitStep, Wait, Check, Join, Recheck, Woken, SpuriousWakeup,
           TimedOut, Undo
<1>5. ASSUME NEW t \in Threads, NotifyStep(t)  PROVE Shape'
    BY <1>5, Fresh DEF NotifyStep, Notify, Swap, Link, Retain, SetHead, Test
<1>6. ASSUME UNCHANGED groupVars  PROVE Shape'
    BY <1>6
<1>7. QED
    BY <1>1, <1>2, <1>3, <1>4, <1>5, <1>6, NextCases

\* Every action moves its own thread alone.
LEMMA StepFollows ==
  ASSUME Shape, NEW t \in Threads,
         BlockStep(t) \/ WakeStep(t) \/ WaitStep(t) \/ NotifyStep(t)
  PROVE  Follows(t)
<1> USE DEF Shape, Follows, Goto, WakeIfEmpty, Served, valueVars, notifyVars,
            objectVars, clientVars, localVars
<1>1. CASE BlockStep(t)
    BY <1>1 DEF BlockStep, AsyncRetain, Enter, Leave, LeaveUnbalanced,
           LeaveRelease, ClientEnter, ClientLeave, LeaveTest
<1>2. CASE WakeStep(t)
    BY <1>2 DEF WakeStep, TakeHead, TakeTail, TakeWaiters, PostWaiter, Submit,
           Advance, DropList
<1>3. CASE WaitStep(t)
    BY <1>3 DEF WaitStep, Wait, Check, Join, Recheck, Woken, SpuriousWakeup,
           TimedOut, Undo
<1>4. CASE NotifyStep(t)
    BY <1>4 DEF NotifyStep, Notify, Swap, Link, Retain, SetHead, Test
<1>5. QED
    BY <1>1, <1>2, <1>3, <1>4

-----------------------------------------------------------------------------
(* Counting                                                                *)

\* The counts are natural numbers, in every state.
LEMMA Counts == CountsOK
  BY GroupAssumption, CountType
     DEF CountsOK, Entering, Leaving, Starting, Hanging, Taking, Serving,
         Dropping

\* The counts follow the thread that takes a step.
Shift(t) ==
    /\ Entering' = Entering - Weight(pc[t], {"enter"})
                            + Weight(pc'[t], {"enter"})
    /\ Leaving' = Leaving - Weight(after[t], {"release"})
                          + Weight(after'[t], {"release"})
    /\ Starting' = Starting - Weight(pc[t], {"retain"})
                            + Weight(pc'[t], {"retain"})
    /\ Hanging' = Hanging - Weight(pc[t], {"sethead"})
                          + Weight(pc'[t], {"sethead"})
    /\ Taking' = Taking - Weight(pc[t], {"taketail"})
                        + Weight(pc'[t], {"taketail"})
    /\ Serving' = Serving - Weight(list[t], Records)
                          + Weight(list'[t], Records)
    /\ Dropping' = Dropping - Weight(pc[t], {"drop"})
                            + Weight(pc'[t], {"drop"})

\* A step of one thread moves that thread alone between the counts.
LEMMA Shifts ==
  ASSUME NEW t \in Threads, Follows(t)
  PROVE  Shift(t)
<1> USE GroupAssumption
<1>1. /\ \A u \in Threads : pc'[u] = IF u = t THEN pc'[t] ELSE pc[u]
      /\ \A u \in Threads : after'[u] = IF u = t THEN after'[t] ELSE after[u]
      /\ \A u \in Threads : list'[u] = IF u = t THEN list'[t] ELSE list[u]
    BY DEF Follows
<1>2. \A A : CountAt(Threads, pc', A)
               = CountAt(Threads, pc, A) - Weight(pc[t], A) + Weight(pc'[t], A)
    BY <1>1, CountStep
<1>3. CountAt(Threads, after', {"release"})
        = CountAt(Threads, after, {"release"})
            - Weight(after[t], {"release"}) + Weight(after'[t], {"release"})
    BY <1>1, CountStep
<1>4. CountAt(Threads, list', Records)
        = CountAt(Threads, list, Records)
            - Weight(list[t], Records) + Weight(list'[t], Records)
    BY <1>1, CountStep
<1>5. QED
    BY <1>2, <1>3, <1>4
       DEF Shift, Entering, Leaving, Starting, Hanging, Taking, Serving,
           Dropping, CountAt

\* A step that moves nobody leaves the counts alone.
LEMMA Stays ==
  ASSUME UNCHANGED <<pc, after, list>>
  PROVE  /\ Entering' = Entering /\ Leaving' = Leaving
         /\ Starting' = Starting /\ Hanging' = Hanging /\ Taking' = Taking
         /\ Serving' = Serving /\ Dropping' = Dropping
  BY DEF Entering, Leaving, Starting, Hanging, Taking, Serving, Dropping,
         CountAt

\* A thread is counted where it is.
LEMMA Present ==
  ASSUME NEW t \in Threads
  PROVE  /\ pc[t] = "enter" => Entering > 0
         /\ after[t] = "release" => Leaving > 0
         /\ pc[t] = "sethead" => Hanging > 0
         /\ pc[t] = "taketail" => Taking > 0
         /\ list[t] \in Records => Serving > 0
         /\ pc[t] = "drop" => Dropping > 0
  BY GroupAssumption, CountType
     DEF Entering, Leaving, Hanging, Taking, Serving, Dropping

-----------------------------------------------------------------------------
\* A new group has one reference, its client's, and no list.
LEMMA InitGroup == Init => GroupInv
<1> SUFFICES ASSUME Init  PROVE GroupInv
    OBVIOUS
<1>1. \A t \in Threads : pc[t] = "idle" /\ after[t] = "idle" /\ list[t] = NULL
    BY DEF Init
<1>2. /\ Entering = 0 /\ Leaving = 0 /\ Starting = 0 /\ Hanging = 0
      /\ Taking = 0 /\ Serving = 0 /\ Dropping = 0
    BY <1>1, GroupAssumption, CountType
       DEF Entering, Leaving, Starting, Hanging, Taking, Serving, Dropping
<1>3. QED
    BY <1>1, <1>2, InitShape, GroupAssumption
       DEF Init, GroupInv, Accounts, Owners, Reliance, Endings, One

\* Every step moves references and the list between owners.
LEMMA StepOwners ==
  ASSUME GroupInv, [Next]_groupVars
  PROVE  Alive' => Owners'
<1> DEFINE Goal == Alive' => Owners'
<1>a. \/ UNCHANGED groupVars
      \/ Release
      \/ \E t \in Threads :
           BlockStep(t) \/ WakeStep(t) \/ WaitStep(t) \/ NotifyStep(t)
    BY NextCases
<1>b. Shape /\ Shape' /\ CountsOK /\ CountsOK'
    BY Counts, StepShape, PTL DEF GroupInv
<1> USE GroupAssumption DEF GroupInv, Shape, Place, Locations, LeaveLocs,
        WakeLocs, WaitLocs, NotifyLocs, Goto, WakeIfEmpty, Empty, Alive, Usable,
        DropReference, Served, Accounts, Owners, One, CountsOK, Weight,
        groupVars, valueVars, notifyVars, objectVars, clientVars, localVars
<1>1. ASSUME Release  PROVE Goal
  <2>1. UNCHANGED <<pc, after, list>>
      BY <1>1 DEF Release
  <2>2. QED
      BY <1>b, <1>1, <2>1, Stays DEF Release
<1>2. ASSUME NEW t \in Threads, BlockStep(t)  PROVE Goal
  <2>1. Shift(t)
      BY <1>2, StepFollows, Shifts
  <2>2. CASE AsyncRetain(t)
      BY <1>b, <2>1, <2>2, Present DEF Shift, AsyncRetain
  <2>3. CASE Enter(t)
      BY <1>b, <2>1, <2>3, Present DEF Shift, Enter
  <2>4. CASE Leave(t)
      BY <1>b, <2>1, <2>4, Present DEF Shift, Leave
  <2>5. CASE LeaveUnbalanced(t)
      BY <1>b, <2>1, <2>5, Present DEF Shift, LeaveUnbalanced
  <2>6. CASE LeaveRelease(t)
      BY <1>b, <2>1, <2>6, Present DEF Shift, LeaveRelease
  <2>7. CASE ClientEnter(t)
      BY <1>b, <2>1, <2>7, Present DEF Shift, ClientEnter
  <2>8. CASE ClientLeave(t)
      BY <1>b, <2>1, <2>8, Present DEF Shift, ClientLeave
  <2>9. CASE LeaveTest(t)
      BY <1>b, <2>1, <2>9, Present DEF Shift, LeaveTest
  <2>10. QED
      BY <1>2, <2>2, <2>3, <2>4, <2>5, <2>6, <2>7, <2>8, <2>9 DEF BlockStep
<1>3. ASSUME NEW t \in Threads, WakeStep(t)  PROVE Goal
  <2>1. Shift(t)
      BY <1>3, StepFollows, Shifts
  <2>2. CASE TakeHead(t)
      BY <1>b, <2>1, <2>2, Present DEF Shift, TakeHead
  <2>3. CASE TakeTail(t)
      BY <1>b, <2>1, <2>3, Present DEF Shift, TakeTail
  <2>4. CASE TakeWaiters(t)
      BY <1>b, <2>1, <2>4, Present DEF Shift, TakeWaiters
  <2>5. CASE PostWaiter(t)
      BY <1>b, <2>1, <2>5, Present DEF Shift, PostWaiter
  <2>6. CASE Submit(t)
      BY <1>b, <2>1, <2>6, Present DEF Shift, Submit
  <2>7. CASE Advance(t)
      BY <1>b, <2>1, <2>7, Present DEF Shift, Advance
  <2>8. CASE DropList(t)
    <3>1. CASE after[t] = "idle"
        BY <1>b, <2>1, <2>8, <3>1 DEF Shift, DropList
    <3>2. CASE after[t] = "release"
        BY <1>b, <2>1, <2>8, <3>2 DEF Shift, DropList
    <3>3. QED
        BY <3>1, <3>2
  <2>9. QED
      BY <1>3, <2>2, <2>3, <2>4, <2>5, <2>6, <2>7, <2>8 DEF WakeStep
<1>4. ASSUME NEW t \in Threads, WaitStep(t)  PROVE Goal
  <2>1. Shift(t)
      BY <1>4, StepFollows, Shifts
  <2>2. CASE Wait(t)
      BY <1>b, <2>1, <2>2, Present DEF Shift, Wait
  <2>3. CASE Check(t)
      BY <1>b, <2>1, <2>3, Present DEF Shift, Check
  <2>4. CASE Join(t)
      BY <1>b, <2>1, <2>4, Present DEF Shift, Join
  <2>5. CASE Recheck(t)
      BY <1>b, <2>1, <2>5, Present DEF Shift, Recheck
  <2>6. CASE Woken(t)
      BY <1>b, <2>1, <2>6, Present DEF Shift, Woken
  <2>7. CASE SpuriousWakeup(t)
      BY <1>b, <2>1, <2>7, Present DEF Shift, SpuriousWakeup
  <2>8. CASE TimedOut(t)
      BY <1>b, <2>1, <2>8, Present DEF Shift, TimedOut
  <2>9. CASE Undo(t)
      BY <1>b, <2>1, <2>9, Present DEF Shift, Undo
  <2>10. QED
      BY <1>4, <2>2, <2>3, <2>4, <2>5, <2>6, <2>7, <2>8, <2>9 DEF WaitStep
<1>5. ASSUME NEW t \in Threads, NotifyStep(t)  PROVE Goal
  <2>1. Shift(t)
      BY <1>5, StepFollows, Shifts
  <2>2. CASE Notify(t)
      BY <1>b, <2>1, <2>2, Present DEF Shift, Notify
  <2>3. CASE Swap(t)
    <3>1. CASE tail = NULL
        BY <1>b, <2>1, <2>3, <3>1 DEF Shift, Swap
    <3>2. CASE tail # NULL
        BY <1>b, <2>1, <2>3, <3>2 DEF Shift, Swap
    <3>3. QED
        BY <3>1, <3>2
  <2>4. CASE Link(t)
      BY <1>b, <2>1, <2>4, Present DEF Shift, Link
  <2>5. CASE Retain(t)
      BY <1>b, <2>1, <2>5, Present DEF Shift, Retain
  <2>6. CASE SetHead(t)
      BY <1>b, <2>1, <2>6, Present DEF Shift, SetHead
  <2>7. CASE Test(t)
      BY <1>b, <2>1, <2>7, Present DEF Shift, Test
  <2>8. QED
      BY <1>5, <2>2, <2>3, <2>4, <2>5, <2>6, <2>7 DEF NotifyStep
<1>6. ASSUME UNCHANGED groupVars  PROVE Goal
    BY <1>b, <1>6, Stays
<1> HIDE DEF Goal
<1>7. Goal
    BY ONLY <1>1, <1>2, <1>3, <1>4, <1>5, <1>6, <1>a
<1>8. QED
    BY ONLY <1>7 DEF Goal

\* Whoever takes a step at a group that is in order finds a reference to it.
LEMMA Referenced ==
  ASSUME GroupInv, NEW t \in Threads, Alive,
         \/ pc[t] # "idle"
         \/ Usable(t)
         \/ value + bare < Orig
         \/ bare > 0
  PROVE  refcnt > 0
<1>1. /\ Owners /\ Reliance /\ CountsOK
      /\ value \in Int /\ bare \in Nat /\ refcnt \in Int /\ released \in {0, 1}
      /\ Orig \in Nat /\ One(head) \in {0, 1}
    BY Counts, GroupAssumption DEF GroupInv, Accounts, Shape, One
<1>2. CASE Usable(t)
    BY <1>1, <1>2 DEF Owners, CountsOK, Usable
<1>3. CASE value + bare < Orig
    BY <1>1, <1>3 DEF Owners, CountsOK
<1>4. CASE pc[t] # "idle" \/ bare > 0
    BY <1>1, <1>4 DEF Owners, Reliance
<1>5. QED
    BY <1>2, <1>3, <1>4

\* A thread that drops the last reference leaves nobody behind who had one, and
\* unless the client was early nobody who relied on the client's.
LEMMA LastReference ==
  ASSUME GroupInv, Alive, refcnt = 1, NEW t \in Threads,
         LeaveRelease(t) \/ DropList(t)
  PROVE  /\ value + bare = Orig /\ released = 1
         /\ \A u \in Threads : u # t => after[u] # "release"
         /\ pc[t] = "drop" => after[t] # "release"
<1>1. /\ Owners /\ CountsOK
      /\ value \in Int /\ bare \in Nat /\ refcnt \in Int /\ released \in {0, 1}
      /\ Orig \in Nat /\ One(head) \in {0, 1}
    BY Counts, GroupAssumption DEF GroupInv, Accounts, Shape, One
<1>2. CASE LeaveRelease(t)
  <2>1. pc[t] = "release" /\ after[t] = "release"
      BY <1>2 DEF LeaveRelease, GroupInv, Shape, Place
  <2>2. ASSUME NEW u \in Threads, u # t, after[u] = "release"  PROVE Leaving > 1
    <3> DEFINE gone == [after EXCEPT ![t] = "idle"]
    <3>1. \A v \in Threads : gone[v] = IF v = t THEN "idle" ELSE after[v]
        BY DEF GroupInv, Shape
    <3>2. gone[u] \in {"release"}
        BY <2>2, <3>1
    <3> HIDE DEF gone
    <3>3. CountAt(Threads, gone, {"release"})
            = CountAt(Threads, after, {"release"})
                - Weight(after[t], {"release"}) + Weight("idle", {"release"})
        BY <3>1, CountStep, GroupAssumption
    <3>4. CountAt(Threads, gone, {"release"}) > 0
        BY <3>2, CountType, GroupAssumption
    <3>5. Weight(after[t], {"release"}) = 1 /\ Weight("idle", {"release"}) = 0
        BY <2>1 DEF Weight
    <3>6. QED
        BY <1>1, <3>3, <3>4, <3>5 DEF Leaving, CountsOK
  <2>3. Leaving > 0
      BY <2>1, Present
  <2>4. value + bare = Orig /\ released = 1 /\ Leaving = 1
      BY <1>1, <2>3 DEF Owners, CountsOK
  <2>5. QED
      BY <2>1, <2>2, <2>4
<1>3. CASE DropList(t)
  <2>1. pc[t] = "drop" /\ Dropping > 0
      BY <1>3, Present DEF DropList
  <2>2. ASSUME NEW u \in Threads, after[u] = "release"  PROVE Leaving > 0
      BY <2>2, Present
  <2>3. QED
      BY <1>1, <2>1, <2>2 DEF Owners, CountsOK
<1>4. QED
    BY <1>2, <1>3

\* Every step keeps what relies on the client's reference ...
LEMMA StepReliance ==
  ASSUME GroupInv, [Next]_groupVars
  PROVE  (Alive' => Reliance') /\ Endings'
<1> DEFINE Goal == (Alive' => Reliance') /\ Endings'
<1>a. \/ UNCHANGED groupVars
      \/ Release
      \/ \E t \in Threads :
           BlockStep(t) \/ WakeStep(t) \/ WaitStep(t) \/ NotifyStep(t)
    BY NextCases
<1>b. Shape /\ Shape' /\ Endings /\ (Alive => Reliance /\ Owners)
    BY StepShape DEF GroupInv, Accounts
<1>1. ASSUME Release  PROVE Goal
  <2>1. /\ Alive /\ released = 0 /\ released' = 1 /\ Owners /\ CountsOK
        /\ UNCHANGED <<value, bare, pc, after>>
        /\ refcnt' = refcnt - 1
        /\ value \in Int /\ bare \in Nat /\ refcnt \in Int /\ Orig \in Nat
        /\ One(head) \in {0, 1}
      BY <1>1, <1>b, Counts, GroupAssumption
         DEF Release, DropReference, valueVars, Shape, One
  <2>2. refcnt = 1 => value + bare = Orig /\ Leaving = 0
      BY <2>1 DEF Owners, CountsOK
  <2>3. refcnt = 1 => \A t \in Threads : after[t] = "idle"
      BY <2>1, <2>2, <1>b, Present DEF Shape, CountsOK
  <2>4. fate' # fate => /\ refcnt = 1
                        /\ fate' = "in_use" => value < Orig
                        /\ fate' = "touched" =>
                             \E t \in Threads : pc[t] # "idle"
                        /\ fate' \in {"in_use", "touched"}
      BY <1>1 DEF Release, DropReference
  <2>a. early' \/ (~(bare > 0) /\ \A t \in Threads : ~OnClientsReference(t))
      BY <1>1, Zenon DEF Release
  <2>b. ~early' => bare = 0 /\ \A t \in Threads : ~OnClientsReference(t)
      BY <2>1, <2>a
  <2>5. Endings'
    <3>1. fate' = fate => fate' \notin {"in_use", "touched"}
        BY <2>1 DEF Alive
    <3>2. fate' = "in_use" => value + bare = Orig /\ early'
        BY <2>1, <2>2, <2>4, <2>b, <3>1
    <3>3. fate' = "touched" => early'
        BY <2>2, <2>3, <2>4, <2>b, <3>1 DEF OnClientsReference
    <3>4. QED
        BY <2>1, <3>2, <3>3 DEF Endings
  <2>6. ASSUME Alive'  PROVE Reliance'
    <3>1. refcnt = 1 => value = Orig /\ \A t \in Threads : pc[t] = "idle"
        BY <1>1, <2>1, <2>2, <2>6 DEF Release, DropReference, Alive
    <3>2. refcnt > 0
        BY <2>1 DEF Owners, CountsOK
    <3>3. refcnt' > 0 \/ refcnt = 1
        BY <2>1, <3>2
    <3>4. ~early' => bare' = 0 /\ \A t \in Threads : ~OnClientsReference(t)'
        BY <2>1, <2>b DEF OnClientsReference
    <3>5. refcnt' > 0 \/ (value' = Orig /\ \A t \in Threads : pc'[t] = "idle")
        BY <2>1, <3>1, <3>3
    <3>6. QED
        BY <3>4, <3>5 DEF Reliance
  <2>7. QED
      BY <2>5, <2>6
<1>2. ASSUME NEW t \in Threads, LeaveRelease(t) \/ DropList(t)  PROVE Goal
  <2>1. /\ Alive /\ Reliance /\ Owners /\ pc[t] \in {"release", "drop"}
        /\ refcnt' = refcnt - 1 /\ refcnt \in Int /\ refcnt > 0
        /\ UNCHANGED <<value, bare, early, released>>
        /\ pc' = [pc EXCEPT ![t] = pc'[t]] /\ pc'[t] \in {"idle", after[t]}
        /\ after' = [after EXCEPT ![t] = after'[t]]
        /\ pc'[t] = "idle" \/ after'[t] = after[t]
        /\ pc'[t] = "idle" \/ pc[t] = "drop"
        /\ early \in BOOLEAN /\ released \in {0, 1}
        /\ value \in Int /\ bare \in Nat /\ Orig \in Nat
    <3>1. Alive /\ pc[t] \in {"release", "drop"}
        BY <1>2 DEF LeaveRelease, DropList
    <3>2. refcnt > 0
        BY <3>1, Referenced
    <3>3. QED
        BY <1>2, <1>b, <3>1, <3>2, GroupAssumption
           DEF LeaveRelease, DropList, DropReference, valueVars, clientVars,
               Shape, Goto
  <2>2. refcnt = 1 => /\ value + bare = Orig /\ released = 1
                      /\ \A u \in Threads : u # t => after[u] # "release"
                      /\ pc[t] = "drop" => after[t] # "release"
      BY <1>2, <2>1, LastReference
  <2>3. fate' # fate => /\ refcnt = 1
                        /\ fate' = "in_use" => value < Orig
                        /\ fate' = "touched" =>
                             \E u \in Threads : u # t /\ pc[u] # "idle"
                        /\ fate' \in {"in_use", "touched"}
      BY <1>2 DEF LeaveRelease, DropList, DropReference
  <2>4. Endings'
    <3>1. refcnt = 1 /\ ~early =>
             bare = 0 /\ \A u \in Threads : ~OnClientsReference(u)
        BY <2>1, <2>2 DEF Reliance
    <3>2. refcnt = 1 /\ ~early => \A u \in Threads : u # t => pc[u] = "idle"
        BY <3>1, <2>2, <1>b DEF OnClientsReference, Shape
    <3>3. QED
        BY <1>b, <2>1, <2>2, <2>3, <3>1, <3>2 DEF Endings, Alive
  <2>5. ASSUME Alive'  PROVE Reliance'
    <3>1. refcnt = 1 => /\ value = Orig
                        /\ \A u \in Threads : u # t => pc[u] = "idle"
      <4>1. refcnt = 1 => /\ ~(value < Orig)
                          /\ ~\E u \in Threads \ {t} : pc[u] # "idle"
          BY <1>2, <2>1, <2>5
             DEF LeaveRelease, DropList, DropReference, Alive
      <4>2. QED
          BY <2>1, <2>2, <4>1
    <3>2. refcnt = 1 => pc'[t] = "idle"
        BY <2>1, <2>2, <1>b DEF Shape
    <3>3. refcnt' > 0 \/ refcnt = 1
        BY <2>1
    <3>4. released' = 1 /\ ~early' =>
             bare' = 0 /\ \A u \in Threads : ~OnClientsReference(u)'
        BY <2>1, <1>b DEF Reliance, OnClientsReference, Shape
    <3>5. refcnt' > 0 \/ (value' = Orig /\ \A u \in Threads : pc'[u] = "idle")
        BY <2>1, <3>1, <3>2, <3>3, <1>b DEF Shape
    <3>6. QED
        BY <3>4, <3>5 DEF Reliance
  <2>6. QED
      BY <2>4, <2>5
<1>3. ASSUME NEW t \in Threads,
             \/ BlockStep(t) \/ WakeStep(t) \/ WaitStep(t) \/ NotifyStep(t),
             ~LeaveRelease(t), ~DropList(t)
      PROVE  Goal
  <2>1. /\ Alive
        /\ pc[t] # "idle" \/ Usable(t) \/ value + bare < Orig \/ bare > 0
    <3>1. CASE BlockStep(t)
        BY <1>3, <3>1 DEF BlockStep, AsyncRetain, Enter, Leave, LeaveUnbalanced,
               ClientEnter, ClientLeave, LeaveTest, LeaveLocs, Usable
    <3>2. CASE WakeStep(t)
        BY <1>3, <3>2 DEF WakeStep, TakeHead, TakeTail, TakeWaiters, PostWaiter,
               Submit, Advance
    <3>3. CASE WaitStep(t)
        BY <3>3 DEF WaitStep, Wait, Check, Join, Recheck, Woken, SpuriousWakeup,
               TimedOut, Undo, Usable
    <3>4. CASE NotifyStep(t)
        BY <3>4 DEF NotifyStep, Notify, Swap, Link, Retain, SetHead, Test,
               Usable
    <3>5. QED
        BY <1>3, <3>1, <3>2, <3>3, <3>4
  <2>2. /\ refcnt > 0 /\ refcnt \in Int
        /\ Reliance
      BY <2>1, <1>b, Referenced DEF Shape
  <2>3. CASE LeaveUnbalanced(t)
    <3>1. fate' = "unbalanced"
        BY <2>3 DEF LeaveUnbalanced
    <3>2. QED
        BY <3>1 DEF Alive, Endings
  <2>4. CASE ~LeaveUnbalanced(t)
    <3>1. /\ UNCHANGED <<fate, released, early>>
          /\ refcnt' = refcnt \/ refcnt' = refcnt + 1
          /\ bare' = bare \/ released = 0 \/ bare > 0
          /\ after' = [after EXCEPT ![t] = after'[t]]
          /\ pc' = [pc EXCEPT ![t] = pc'[t]]
          /\ \/ released = 0
             \/ bare > 0
             \/ after'[t] = "release"
             \/ OnClientsReference(t)
      <4>1. CASE BlockStep(t)
          BY <1>3, <1>b, <2>4, <4>1
             DEF BlockStep, AsyncRetain, Enter, Leave, ClientEnter, ClientLeave,
                 LeaveTest, LeaveLocs, Goto, Usable, OnClientsReference, Shape,
                 Place, objectVars, clientVars
      <4>2. CASE WakeStep(t)
          BY <1>3, <1>b, <4>2
             DEF WakeStep, TakeHead, TakeTail, TakeWaiters, PostWaiter, Submit,
                 Advance, Goto, OnClientsReference, Shape, Place, objectVars,
                 clientVars
      <4>3. CASE WaitStep(t)
          BY <1>3, <1>b, <4>3
             DEF WaitStep, Wait, Check, Join, Recheck, Woken, SpuriousWakeup,
                 TimedOut, Undo, Goto, WakeIfEmpty, WaitLocs, Usable,
                 OnClientsReference, Shape, Place, objectVars, clientVars
      <4>4. CASE NotifyStep(t)
          BY <1>3, <1>b, <4>4
             DEF NotifyStep, Notify, Swap, Link, Retain, SetHead, Test, Goto,
                 WakeIfEmpty, NotifyLocs, Usable, OnClientsReference, Shape,
                 Place, objectVars, clientVars
      <4>5. QED
          BY <1>3, <4>1, <4>2, <4>3, <4>4
    <3>2. Endings'
        BY <1>b, <2>1, <3>1 DEF Endings, Alive
    <3>3. released' = 1 /\ ~early' =>
             bare' = 0 /\ \A u \in Threads : ~OnClientsReference(u)'
        BY <1>b, <2>2, <3>1 DEF Reliance, OnClientsReference, Shape
    <3>4. refcnt' > 0
        BY <2>2, <3>1
    <3>5. QED
        BY <3>2, <3>3, <3>4 DEF Reliance
  <2>5. QED
      BY <2>3, <2>4
<1>4. ASSUME UNCHANGED groupVars  PROVE Goal
    BY <1>4, <1>b DEF groupVars, valueVars, objectVars, clientVars, Alive,
           Reliance, Endings, OnClientsReference
<1> HIDE DEF Goal
<1>5. Goal
  <2>1. ASSUME NEW t \in Threads,
               BlockStep(t) \/ WakeStep(t) \/ WaitStep(t) \/ NotifyStep(t)
        PROVE  Goal
      BY <2>1, <1>2, <1>3
  <2>2. QED
      BY <2>1, <1>1, <1>4, <1>a
<1>6. QED
    BY <1>5 DEF Goal

\* The inductive step: the shape and the accounts.
LEMMA StepGroup == GroupInv /\ [Next]_groupVars => GroupInv'
  BY StepOwners, StepReliance, StepShape DEF GroupInv, Accounts

\* Blocks and lists keep the group alive: it is disposed of under a thread that
\* is inside a call, or with an entry outstanding, only if the client was early
\* with its reference, and with a block outstanding never.
THEOREM GroupStaysAlive == Spec => []NeverDisposedInUse
<1>1. GroupInv => NeverDisposedInUse
  <2> SUFFICES ASSUME GroupInv  PROVE NeverDisposedInUse
      OBVIOUS
  <2>1. \A t \in Threads : Alive /\ pc[t] # "idle" => refcnt > 0
      BY Referenced
  <2>2. QED
      BY <2>1 DEF GroupInv, Endings, NeverDisposedInUse
<1>2. QED
    BY <1>1, InitGroup, StepGroup, PTL DEF Spec

\* With nobody inside a call but sleepers, a group has one reference for its
\* client, one per outstanding block and one for a list that is not empty.
THEOREM GroupReferences == Spec => []ReferencesBalanced
<1>1. GroupInv => ReferencesBalanced
  <2> SUFFICES ASSUME GroupInv, Calm
               PROVE  refcnt = (1 - released) + (Orig - value - bare)
                                 + (IF tail = NULL THEN 0 ELSE 1)
      BY DEF ReferencesBalanced
  <2>1. \A t \in Threads : pc[t] \in {"idle", "timed", "forever"}
                            /\ after[t] = "idle" /\ list[t] \notin Records
      BY GroupAssumption DEF Calm, GroupInv, Shape, Place, WaitLocs
  <2>2. /\ Entering = 0 /\ Leaving = 0 /\ Starting = 0 /\ Hanging = 0
        /\ Taking = 0 /\ Serving = 0 /\ Dropping = 0
      BY <2>1, GroupAssumption, CountType
         DEF Entering, Leaving, Starting, Hanging, Taking, Serving, Dropping
  <2>3. QED
      BY <2>2, GroupAssumption
         DEF Calm, GroupInv, Shape, Accounts, Owners, One
<1>2. QED
    BY <1>1, InitGroup, StepGroup, PTL DEF Spec

-----------------------------------------------------------------------------
(* The records of the notification list                                    *)

\* The records that were allocated and not yet freed.
Used == {n \in Records : memory[n] \in {"pending", "submitted"}}

\* What a thread has in its hands: a record to add, or the list it serves.
Adding(t) == pc[t] \in {"swap", "link", "retain", "sethead"}
Holding(t) == Adding(t) \/ list[t] # NULL
Held(t) == IF Adding(t) THEN rec[t] ELSE list[t]

\* Every way to a record leads to one that is still to be submitted.
Pending ==
    /\ tail # NULL => tail \in Used /\ next[tail] = NULL
    /\ head # NULL => memory[head] = "pending"
    /\ \A n \in Records :
         /\ n \in Used /\ next[n] # NULL => memory[next[n]] = "pending"
         /\ memory[n] = "unused" => next[n] = NULL
    /\ \A t \in Threads : Holding(t) =>
         memory[Held(t)] = IF pc[t] = "advance" THEN "submitted" ELSE "pending"

\* A link is written once, to a record that no server takes for its last one.
Ends ==
    /\ \A t \in Threads :
         /\ last[t] # NULL => memory[last[t]] # "unused" /\ last[t] # tail
         /\ pc[t] = "swap" => next[rec[t]] = NULL /\ rec[t] # tail
         /\ pc[t] = "link" => /\ prev[t] \in Used /\ next[prev[t]] = NULL
                              /\ prev[t] # tail
    /\ \A t, u \in Threads :
         /\ pc[t] = "link" => prev[t] # last[u]
         /\ pc[t] = "swap" => rec[t] # last[u]
         /\ pc[t] = "swap" /\ pc[u] = "link" => rec[t] # prev[u]
         /\ pc[t] = "link" /\ pc[u] = "link" /\ prev[t] = prev[u] => t = u

\* A record is reached in one way only.
OneWay ==
    /\ \A t, u \in Threads :
         Holding(t) /\ Holding(u) /\ Held(t) = Held(u) => t = u
    /\ \A t \in Threads : Holding(t) =>
         Held(t) # head /\ \A n \in Used : next[n] # Held(t)
    /\ \A n \in Used : next[n] # NULL =>
         next[n] # head /\ \A m \in Used : next[m] = next[n] => m = n

\* Every record is reached, and each link leads to a later one.
Reached(rank) ==
    /\ \A n \in Used :
         \/ n = head
         \/ \E t \in Threads : Holding(t) /\ Held(t) = n
         \/ \E m \in Used : next[m] = n /\ rank[m] < rank[n]
    /\ \A t \in Threads : pc[t] = "link" => rank[prev[t]] < rank[rec[t]]

\* Somebody is about to wake an empty group that has a list or a waiter.
Owed ==
    /\ \A t, u \in Threads : pc[t] \in WaitLocs /\ pc[u] \in WaitLocs => t = u
    /\ Empty /\ head # NULL =>
         \E t \in Threads : pc[t] \in {"test", "leftlast", "takehead"}
    /\ \A t \in Threads :
         /\ pc[t] \in {"recheck", "timed", "forever", "undo"} =>
              waiters > 0 \/ ksem > 0 \/ \E u \in Threads : pc[u] = "post"
         /\ pc[t] \in {"timed", "forever"} /\ waiters > 0 /\ Empty =>
              \E u \in Threads : pc[u] \in {"leftlast", "takehead", "taketail",
                                         "takewaiters"}

OrderInv == /\ Pending /\ Ends /\ OneWay
            /\ Alive => Owed
            /\ \E rank \in [Records -> Nat] : Reached(rank)

\* The steps that touch the list of records.
ListStep(t) == Notify(t) \/ Swap(t) \/ Link(t) \/ SetHead(t) \/ TakeHead(t)
               \/ TakeTail(t) \/ Submit(t) \/ Advance(t)

\* What the proofs below need of the shape.
Lists ==
    /\ head \in Records \cup {NULL} /\ tail \in Records \cup {NULL}
    /\ next \in [Records -> Records \cup {NULL}]
    /\ memory \in [Records -> {"unused", "pending", "submitted", "freed"}]
    /\ pc \in [Threads -> Locations]
    /\ list \in [Threads -> Records \cup {NULL}]
    /\ last \in [Threads -> Records \cup {NULL}]
    /\ rec \in [Threads -> Records \cup {NULL}]
    /\ prev \in [Threads -> Records \cup {NULL}]
    /\ \A t \in Threads :
         /\ list[t] # NULL =>
              pc[t] \in {"taketail", "takewaiters", "post", "submit", "advance"}
         /\ pc[t] \in {"taketail", "submit", "advance"} => list[t] # NULL
         /\ pc[t] \in {"swap", "link", "retain", "sethead"} => rec[t] # NULL

\* The shape says so.
LEMMA ShapeLists == Shape => Lists
  BY DEF Shape, Lists, Place

\* The list, the threads' ways to it and what they are about to do to it.
Untouched ==
    /\ UNCHANGED <<head, tail, next, memory, list, last, rec, prev>>
    /\ \A t \in Threads : /\ Adding(t)' <=> Adding(t)
                          /\ Holding(t)' <=> Holding(t)
                          /\ Held(t)' = Held(t)
                          /\ \A at \in {"swap", "link", "advance"} :
                               pc'[t] = at <=> pc[t] = at

\* Every other step leaves the list alone.
LEMMA StepUntouched ==
  ASSUME Shape, [Next]_groupVars
  PROVE  Untouched \/ \E t \in Threads : ListStep(t)
<1> USE DEF Shape, Goto, WakeIfEmpty, Served, DropReference, Locations,
            LeaveLocs, WakeLocs, WaitLocs, NotifyLocs, Adding, Holding, Held,
            Untouched, groupVars, valueVars, notifyVars, objectVars, clientVars,
            localVars
<1>1. ASSUME Release \/ UNCHANGED groupVars  PROVE Untouched
    BY <1>1 DEF Release
<1>2. ASSUME NEW t \in Threads, BlockStep(t)  PROVE Untouched
    BY <1>2 DEF BlockStep, AsyncRetain, Enter, Leave, LeaveUnbalanced,
           LeaveRelease, ClientEnter, ClientLeave, LeaveTest, Usable
<1>3. ASSUME NEW t \in Threads, WakeStep(t), ~ListStep(t)  PROVE Untouched
    BY <1>3 DEF WakeStep, ListStep, TakeWaiters, PostWaiter, DropList
<1>4. ASSUME NEW t \in Threads, WaitStep(t)  PROVE Untouched
    BY <1>4 DEF WaitStep, Wait, Check, Join, Recheck, Woken, SpuriousWakeup,
           TimedOut, Undo, Usable
<1>5. ASSUME NEW t \in Threads, NotifyStep(t), ~ListStep(t)  PROVE Untouched
    BY <1>5 DEF NotifyStep, ListStep, Retain, Test
<1> HIDE DEF Untouched, Shape
<1>6. \/ UNCHANGED groupVars \/ Release
      \/ \E t \in Threads :
           BlockStep(t) \/ WakeStep(t) \/ WaitStep(t) \/ NotifyStep(t)
    BY NextCases
<1>7. QED
    BY ONLY <1>1, <1>2, <1>3, <1>4, <1>5, <1>6

\* ... and so what is said of it.
LEMMA StayOrdered ==
  ASSUME Untouched
  PROVE  /\ Pending => Pending'
         /\ Ends => Ends'
         /\ OneWay => OneWay'
         /\ \A rank : Reached(rank) => Reached(rank)'
<1>1. Used' = Used
    BY DEF Untouched, Used
<1>2. \A t \in Threads : /\ Holding(t)' <=> Holding(t)
                         /\ Held(t)' = Held(t)
                         /\ pc'[t] = "advance" <=> pc[t] = "advance"
                         /\ pc'[t] = "swap" <=> pc[t] = "swap"
                         /\ pc'[t] = "link" <=> pc[t] = "link"
    BY DEF Untouched
<1>3. UNCHANGED <<head, tail, next, memory, list, last, rec, prev>>
    BY DEF Untouched
<1>4. Pending => Pending'
    BY <1>1, <1>2, <1>3 DEF Pending
<1>5. Ends => Ends'
    BY <1>1, <1>2, <1>3 DEF Ends
<1>6. OneWay => OneWay'
    BY <1>1, <1>2, <1>3 DEF OneWay
<1>7. ASSUME NEW rank, Reached(rank)  PROVE Reached(rank)'
    BY <1>1, <1>2, <1>3, <1>7 DEF Reached
<1>8. QED
    BY <1>4, <1>5, <1>6, <1>7

\* Every step at the list keeps the ways to it on records still to submit ...
LEMMA StepPending ==
  ASSUME Lists, Pending, Ends, OneWay,
         NEW t \in Threads, ListStep(t)
  PROVE  Pending'
<1> USE GroupAssumption DEF Lists, Goto, Locations, LeaveLocs, WakeLocs,
        WaitLocs, NotifyLocs, Pending, Used, Adding, Holding, Held
<1>1. CASE Notify(t)
  <2>1. PICK n \in Records : /\ memory[n] = "unused"
                             /\ memory' = [memory EXCEPT ![n] = "pending"]
                             /\ rec' = [rec EXCEPT ![t] = n]
      BY <1>1, Fresh
  <2>2. /\ pc[t] = "idle" /\ pc' = [pc EXCEPT ![t] = "swap"]
        /\ UNCHANGED <<head, tail, next, list, last, prev>>
      BY <1>1 DEF Notify, Usable, localVars
  <2>3. QED
      BY <2>1, <2>2
<1>2. CASE Swap(t)
  <2>1. /\ pc[t] = "swap" /\ tail' = rec[t] /\ rec[t] \in Records
        /\ pc' = [pc EXCEPT ![t] = IF tail # NULL THEN "link" ELSE "retain"]
        /\ UNCHANGED <<head, next, memory, list, rec>>
      BY <1>2 DEF Swap
  <2>2. \A u \in Threads : /\ Adding(u)' <=> Adding(u)
                           /\ Holding(u)' <=> Holding(u)
                           /\ Held(u)' = Held(u)
                           /\ pc'[u] = "advance" <=> pc[u] = "advance"
      BY <2>1
  <2>3. rec[t] \in Used /\ next[rec[t]] = NULL
      BY <2>1 DEF Ends, Pending
  <2>4. Used' = Used
      BY <2>1
  <2> HIDE DEF Adding, Holding, Held, Used
  <2>5. QED
      BY <2>1, <2>2, <2>3, <2>4 DEF Pending
<1>3. CASE Link(t)
  <2>1. /\ pc[t] = "link" /\ rec[t] \in Records /\ memory[rec[t]] = "pending"
        /\ prev[t] \in Used /\ prev[t] # tail
        /\ next' = [next EXCEPT ![prev[t]] = rec[t]]
        /\ pc' = [pc EXCEPT ![t] = "idle"]
        /\ rec' = [rec EXCEPT ![t] = NULL]
        /\ UNCHANGED <<head, tail, memory, list>>
      BY <1>3 DEF Link, Ends, Pending
  <2>2. \A u \in Threads : /\ Holding(u)' => Holding(u) /\ Held(u)' = Held(u)
                           /\ pc'[u] = "advance" <=> pc[u] = "advance"
      BY <2>1
  <2>3. Used' = Used
      BY <2>1
  <2>4. \A n \in Records : next'[n] = IF n = prev[t] THEN rec[t] ELSE next[n]
      BY <2>1
  <2>5. \A n \in Used : n \in Records /\ memory[n] # "unused"
      BY <2>1
  <2> HIDE DEF Adding, Holding, Held, Used
  <2>6. QED
      BY <2>1, <2>2, <2>3, <2>4, <2>5 DEF Pending
<1>4. CASE SetHead(t)
    BY <1>4 DEF SetHead
<1>5. CASE TakeHead(t)
    BY <1>5 DEF TakeHead
<1>6. CASE TakeTail(t)
    BY <1>6 DEF TakeTail
<1>7. CASE Submit(t)
  <2>1. /\ pc[t] = "submit" /\ list[t] \in Records
        /\ memory[list[t]] = "pending"
        /\ memory' = [memory EXCEPT ![list[t]] = "submitted"]
        /\ pc' = [pc EXCEPT ![t] = "advance"]
        /\ UNCHANGED <<head, tail, next, list, last, rec, prev>>
      BY <1>7 DEF Submit, localVars
  <2>2. Used' = Used
      BY <2>1
  <2>3. \A u \in Threads : /\ Adding(u)' <=> Adding(u)
                           /\ Holding(u)' <=> Holding(u)
                           /\ Held(u)' = Held(u)
                           /\ Holding(u) => Held(u) \in Records
                           /\ pc'[u] \in {"swap", "link"} => pc'[u] = pc[u]
                           /\ u # t => pc'[u] = pc[u]
      BY <2>1
  <2>4. /\ Holding(t) /\ Held(t) = list[t]
      BY <2>1
  <2>5. /\ list[t] # head
        /\ \A n \in Used : next[n] # list[t]
        /\ \A u \in Threads : u # t /\ Holding(u) => Held(u) # list[t]
      BY <2>4 DEF OneWay, Ends
  <2> HIDE DEF Adding, Holding, Held, Used
  <2>6. /\ memory'[list[t]] = "submitted" /\ pc'[t] = "advance"
        /\ \A n \in Records : n # list[t] => memory'[n] = memory[n]
      BY <2>1
  <2>7. \A u \in Threads : Holding(u)' =>
           memory'[Held(u)'] = IF pc'[u] = "advance" THEN "submitted"
                               ELSE "pending"
      BY <2>3, <2>4, <2>5, <2>6 DEF Pending
  <2>8. \A n \in Used : n \in Records /\ next[n] \in Records \cup {NULL}
      BY DEF Used
  <2>9. head' # NULL => memory'[head'] = "pending"
      BY <2>1, <2>5, <2>6 DEF Pending
  <2>10. \A n \in Used : next'[n] # NULL => memory'[next'[n]] = "pending"
      BY <2>1, <2>5, <2>6, <2>8 DEF Pending
  <2>11. \A n \in Records : memory'[n] = "unused" => next'[n] = NULL
      BY <2>1, <2>6 DEF Pending
  <2>12. tail' # NULL => tail' \in Used /\ next'[tail'] = NULL
      BY <2>1 DEF Pending
  <2>13. QED
      BY <2>2, <2>7, <2>9, <2>10, <2>11, <2>12 DEF Pending
<1>8. CASE Advance(t)
  <2> DEFINE p == list[t]
  <2>1. /\ pc[t] = "advance" /\ p \in Records /\ memory[p] = "submitted"
        /\ next[p] # NULL \/ p = last[t]
        /\ memory' = [memory EXCEPT ![p] = "freed"]
        /\ list' = [list EXCEPT ![t] = next[p]]
        /\ pc' = [pc EXCEPT ![t] = IF next[p] = NULL THEN "drop" ELSE "submit"]
        /\ UNCHANGED <<head, tail, next, rec>>
      BY <1>8 DEF Advance
  <2>2. /\ Used' = Used \ {p}
        /\ \A n \in Used : n \in Records /\ next[n] \in Records \cup {NULL}
      BY <2>1
  <2>3. \A u \in Threads : u # t =>
          /\ Holding(u)' <=> Holding(u)
          /\ Held(u)' = Held(u)
          /\ Holding(u) => Held(u) \in Records
          /\ pc'[u] = pc[u]
      BY <2>1
  <2>4. /\ Holding(t) /\ Held(t) = p /\ p \in Used
        /\ Holding(t)' <=> next[p] # NULL
        /\ Holding(t)' => Held(t)' = next[p]
        /\ pc'[t] # "advance"
      BY <2>1
  <2>5. /\ p # head /\ p # tail
        /\ \A n \in Used : next[n] # p
        /\ \A u \in Threads : u # t /\ Holding(u) => Held(u) # p
      BY <2>1, <2>4 DEF OneWay, Ends
  <2>6. \A n \in Records : memory'[n] = IF n = p THEN "freed" ELSE memory[n]
      BY <2>1
  <2>7. next[p] # NULL => memory[next[p]] = "pending"
      BY <2>1, <2>4 DEF Pending
  <2> HIDE DEF Adding, Holding, Held, Used, p
  <2>8. \A u \in Threads : Holding(u)' =>
           memory'[Held(u)'] = IF pc'[u] = "advance" THEN "submitted"
                               ELSE "pending"
    <3>1. ASSUME NEW u \in Threads, Holding(u)', u # t
          PROVE  memory'[Held(u)'] = IF pc'[u] = "advance" THEN "submitted"
                                     ELSE "pending"
        BY <3>1, <2>3, <2>5, <2>6 DEF Pending
    <3>2. Holding(t)' => memory'[Held(t)'] = "pending"
        BY <2>2, <2>4, <2>5, <2>6, <2>7
    <3>3. QED
        BY <3>1, <3>2, <2>4
  <2>9. head' # NULL => memory'[head'] = "pending"
      BY <2>1, <2>5, <2>6 DEF Pending
  <2>10. \A n \in Used' : next'[n] # NULL => memory'[next'[n]] = "pending"
      BY <2>1, <2>2, <2>5, <2>6 DEF Pending
  <2>11. \A n \in Records : memory'[n] = "unused" => next'[n] = NULL
      BY <2>1, <2>6 DEF Pending
  <2>12. tail' # NULL => tail' \in Used' /\ next'[tail'] = NULL
      BY <2>1, <2>2, <2>5 DEF Pending
  <2>13. QED
      BY <2>8, <2>9, <2>10, <2>11, <2>12 DEF Pending
<1>9. QED
    BY <1>1, <1>2, <1>3, <1>4, <1>5, <1>6, <1>7, <1>8 DEF ListStep

\* ... the links that are still to be written on records nobody passed ...
LEMMA StepEnds ==
  ASSUME Lists, Pending, Ends, OneWay,
         NEW t \in Threads, ListStep(t)
  PROVE  Ends'
<1> USE GroupAssumption DEF Lists, Goto, Locations, LeaveLocs, WakeLocs,
        WaitLocs, NotifyLocs, Pending, Ends, Used, Adding, Holding, Held, OneWay
<1>1. CASE Notify(t)
  <2>1. PICK n \in Records : /\ memory[n] = "unused"
                             /\ memory' = [memory EXCEPT ![n] = "pending"]
                             /\ rec' = [rec EXCEPT ![t] = n]
      BY <1>1, Fresh
  <2>2. /\ pc[t] = "idle" /\ pc' = [pc EXCEPT ![t] = "swap"]
        /\ UNCHANGED <<head, tail, next, list, last, prev>>
      BY <1>1 DEF Notify, Usable, localVars
  <2>3. QED
      BY <2>1, <2>2
<1>2. CASE Swap(t)
    BY <1>2 DEF Swap
<1>3. CASE Link(t)
    BY <1>3 DEF Link
<1>4. CASE SetHead(t)
    BY <1>4 DEF SetHead
<1>5. CASE TakeHead(t)
    BY <1>5 DEF TakeHead
<1>6. CASE TakeTail(t)
    BY <1>6 DEF TakeTail
<1>7. CASE Submit(t)
  <2>1. /\ pc[t] = "submit" /\ list[t] \in Records
        /\ memory[list[t]] = "pending"
        /\ memory' = [memory EXCEPT ![list[t]] = "submitted"]
        /\ pc' = [pc EXCEPT ![t] = "advance"]
        /\ UNCHANGED <<head, tail, next, list, last, rec, prev>>
      BY <1>7 DEF Submit, localVars
  <2>2. Used' = Used
      BY <2>1
  <2>3. \A u \in Threads : /\ Adding(u)' <=> Adding(u)
                           /\ Holding(u)' <=> Holding(u)
                           /\ Held(u)' = Held(u)
                           /\ Holding(u) => Held(u) \in Records
                           /\ pc'[u] \in {"swap", "link"} => pc'[u] = pc[u]
                           /\ u # t => pc'[u] = pc[u]
      BY <2>1
  <2> HIDE DEF Adding, Holding, Held, Used
  <2>4. QED
      BY <2>1, <2>2, <2>3 DEF Ends
<1>8. CASE Advance(t)
    BY <1>8 DEF Advance
<1>9. QED
    BY <1>1, <1>2, <1>3, <1>4, <1>5, <1>6, <1>7, <1>8 DEF ListStep

\* ... and the ways apart.
LEMMA StepOneWay ==
  ASSUME Lists, Pending, Ends, OneWay,
         NEW t \in Threads, ListStep(t)
  PROVE  OneWay'
<1> USE GroupAssumption DEF Lists, Goto, Locations, LeaveLocs, WakeLocs,
        WaitLocs, NotifyLocs, Pending, Ends, OneWay, Used, Adding, Holding, Held
<1>1. CASE Notify(t)
  <2>1. PICK n \in Records : /\ memory[n] = "unused"
                             /\ memory' = [memory EXCEPT ![n] = "pending"]
                             /\ rec' = [rec EXCEPT ![t] = n]
      BY <1>1, Fresh
  <2>2. /\ pc[t] = "idle" /\ pc' = [pc EXCEPT ![t] = "swap"]
        /\ UNCHANGED <<head, tail, next, list, last, prev>>
      BY <1>1 DEF Notify, Usable, localVars
  <2>3. QED
      BY <2>1, <2>2
<1>2. CASE Swap(t)
    BY <1>2 DEF Swap
<1>3. CASE Link(t)
    BY <1>3 DEF Link
<1>4. CASE SetHead(t)
    BY <1>4 DEF SetHead
<1>5. CASE TakeHead(t)
    BY <1>5 DEF TakeHead
<1>6. CASE TakeTail(t)
    BY <1>6 DEF TakeTail
<1>7. CASE Submit(t)
  <2>1. /\ pc[t] = "submit" /\ list[t] \in Records
        /\ memory[list[t]] = "pending"
        /\ memory' = [memory EXCEPT ![list[t]] = "submitted"]
        /\ pc' = [pc EXCEPT ![t] = "advance"]
        /\ UNCHANGED <<head, tail, next, list, last, rec, prev>>
      BY <1>7 DEF Submit, localVars
  <2>2. Used' = Used
      BY <2>1
  <2>3. \A u \in Threads : /\ Adding(u)' <=> Adding(u)
                           /\ Holding(u)' <=> Holding(u)
                           /\ Held(u)' = Held(u)
                           /\ Holding(u) => Held(u) \in Records
                           /\ pc'[u] \in {"swap", "link"} => pc'[u] = pc[u]
                           /\ u # t => pc'[u] = pc[u]
      BY <2>1
  <2> HIDE DEF Adding, Holding, Held, Used
  <2>4. QED
      BY <2>1, <2>2, <2>3 DEF OneWay
<1>8. CASE Advance(t)
    BY <1>8 DEF Advance
<1>9. QED
    BY <1>1, <1>2, <1>3, <1>4, <1>5, <1>6, <1>7, <1>8 DEF ListStep

\* A list is hung up where none is.
LEMMA HangsAlone ==
  ASSUME GroupInv, NEW t \in Threads, SetHead(t)
  PROVE  head = NULL
<1>1. Hanging > 0
    BY Present DEF SetHead
<1>2. QED
    BY <1>1, Counts, GroupAssumption
       DEF SetHead, GroupInv, Accounts, Owners, Shape, CountsOK, One

\* The order of the records is kept: a new one comes after the last.
LEMMA StepReached ==
  ASSUME Lists, Pending, Ends, OneWay,
         NEW rank \in [Records -> Nat], Reached(rank),
         NEW t \in Threads, ListStep(t), SetHead(t) => head = NULL
  PROVE  \E r \in [Records -> Nat] : Reached(r)'
<1> USE GroupAssumption DEF Lists, Goto
<1>1. CASE Notify(t)
  <2>1. PICK n \in Records :
          /\ memory[n] = "unused"
          /\ memory' = [memory EXCEPT ![n] = "pending"]
          /\ rec' = [rec EXCEPT ![t] = n]
      BY <1>1, Fresh DEF Notify
  <2>2. /\ pc[t] = "idle" /\ pc' = [pc EXCEPT ![t] = "swap"]
        /\ UNCHANGED <<head, tail, next, list, last, prev>>
      BY <1>1, Fresh DEF Notify, Usable, localVars
  <2>3. Used' = Used \cup {n}
      BY <2>1 DEF Used
  <2>4. \A u \in Threads : u # t => /\ Holding(u)' <=> Holding(u)
                                    /\ Held(u)' = Held(u)
                                    /\ pc'[u] = pc[u] /\ rec'[u] = rec[u]
      BY <2>1, <2>2 DEF Adding, Holding, Held
  <2>5. /\ ~Holding(t) /\ Holding(t)' /\ Held(t)' = n /\ pc'[t] = "swap"
      BY <2>1, <2>2 DEF Adding, Holding, Held
  <2>6. Reached(rank)'
      BY <2>2, <2>3, <2>4, <2>5 DEF Reached
  <2>7. QED
      BY <2>6
<1>2. CASE Swap(t)
  <2>1. /\ pc[t] = "swap" /\ rec[t] \in Records
        /\ prev' = [prev EXCEPT ![t] = tail]
        /\ pc' = [pc EXCEPT ![t] = IF tail # NULL THEN "link" ELSE "retain"]
        /\ UNCHANGED <<head, next, memory, list, rec>>
      BY <1>2 DEF Swap
  <2>2. /\ \A u \in Threads : /\ Holding(u)' <=> Holding(u)
                              /\ Held(u)' = Held(u)
        /\ \A u \in Threads : u # t => pc'[u] = pc[u] /\ prev'[u] = prev[u]
        /\ Holding(t) /\ Held(t) = rec[t]
        /\ pc'[t] = "link" => tail # NULL /\ prev'[t] = tail
      BY <2>1 DEF Adding, Holding, Held
  <2>3. Used' = Used /\ Used \subseteq Records
      BY <2>1 DEF Used
  <2>4. \E r \in [Records -> Nat] :
           /\ \A n \in Records : n # rec[t] => r[n] = rank[n]
           /\ tail # NULL => r[rec[t]] = rank[tail] + 1
      BY <2>1, [rank EXCEPT ![rec[t]] = IF tail = NULL THEN @
                                        ELSE rank[tail] + 1]
                 \in [Records -> Nat]
  <2>5. PICK r \in [Records -> Nat] :
           /\ \A n \in Records : n # rec[t] => r[n] = rank[n]
           /\ tail # NULL => r[rec[t]] = rank[tail] + 1
      BY <2>4
  <2>6. /\ next[rec[t]] = NULL /\ rec[t] # tail
        /\ \A n \in Used : next[n] # rec[t]
        /\ \A u \in Threads : pc[u] = "link" =>
             /\ prev[u] \in Used /\ prev[u] # rec[t]
             /\ rec[u] \in Records /\ rec[u] # rec[t]
    <3>1. \A u \in Threads : pc[u] = "link" =>
             /\ prev[u] \in Used /\ prev[u] # rec[t]
             /\ rec[u] \in Records /\ Holding(u) /\ Held(u) = rec[u] /\ u # t
        BY <2>1 DEF Ends, Adding, Holding, Held
    <3>2. QED
        BY <2>1, <2>2, <3>1 DEF Ends, OneWay
  <2>7. \A n \in Used : \/ n = head'
                        \/ \E u \in Threads : Holding(u)' /\ Held(u)' = n
                        \/ \E m \in Used : next'[m] = n /\ r[m] < r[n]
      BY <2>1, <2>2, <2>3, <2>5, <2>6 DEF Reached
  <2>8. ASSUME NEW u \in Threads, pc'[u] = "link"
        PROVE  r[prev'[u]] < r[rec'[u]]
    <3>1. CASE u = t
        BY <2>1, <2>2, <2>5, <2>6, <2>8, <3>1
    <3>2. CASE u # t
        BY <2>1, <2>2, <2>3, <2>5, <2>6, <2>8, <3>2 DEF Reached
    <3>3. QED
        BY <3>1, <3>2
  <2>9. Reached(r)'
      BY <2>3, <2>7, <2>8 DEF Reached
  <2>10. QED
      BY <2>9
<1>3. CASE Link(t)
  <2>1. /\ pc[t] = "link" /\ rec[t] \in Records
        /\ next' = [next EXCEPT ![prev[t]] = rec[t]]
        /\ pc' = [pc EXCEPT ![t] = "idle"]
        /\ rec' = [rec EXCEPT ![t] = NULL]
        /\ prev' = [prev EXCEPT ![t] = NULL]
        /\ UNCHANGED <<head, memory, list>>
      BY <1>3 DEF Link
  <2>2. /\ prev[t] \in Used /\ next[prev[t]] = NULL
        /\ rank[prev[t]] < rank[rec[t]]
      BY <2>1 DEF Ends, Reached
  <2>3. /\ \A u \in Threads : u # t => /\ Holding(u)' <=> Holding(u)
                                       /\ Held(u)' = Held(u)
                                       /\ pc'[u] = pc[u]
                                       /\ prev'[u] = prev[u]
                                       /\ rec'[u] = rec[u]
        /\ Held(t) = rec[t] /\ pc'[t] # "link"
      BY <2>1 DEF Adding, Holding, Held
  <2>4. Used' = Used /\ Used \subseteq Records
      BY <2>1 DEF Used
  <2>5. \A n \in Used : next'[n] = IF n = prev[t] THEN rec[t] ELSE next[n]
      BY <2>1, <2>4
  <2>6. \A n \in Used : \/ n = head'
                        \/ \E u \in Threads : Holding(u)' /\ Held(u)' = n
                        \/ \E m \in Used : next'[m] = n /\ rank[m] < rank[n]
      BY <2>1, <2>2, <2>3, <2>4, <2>5 DEF Reached
  <2>7. \A u \in Threads : pc'[u] = "link" => rank[prev'[u]] < rank[rec'[u]]
      BY <2>3 DEF Reached
  <2>8. Reached(rank)'
      BY <2>4, <2>6, <2>7 DEF Reached
  <2>9. QED
      BY <2>8
<1>4. CASE SetHead(t)
  <2>1. /\ pc[t] = "sethead" /\ head = NULL /\ head' = rec[t]
        /\ pc' = [pc EXCEPT ![t] = "test"]
        /\ rec' = [rec EXCEPT ![t] = NULL]
        /\ UNCHANGED <<next, memory, list, prev>>
      BY <1>4 DEF SetHead
  <2>2. /\ \A u \in Threads : u # t => /\ Holding(u)' <=> Holding(u)
                                       /\ Held(u)' = Held(u)
                                       /\ pc'[u] = pc[u]
                                       /\ rec'[u] = rec[u]
        /\ Held(t) = rec[t] /\ pc'[t] # "link"
      BY <2>1 DEF Adding, Holding, Held
  <2>3. Used' = Used /\ Used \subseteq Records
      BY <2>1 DEF Used
  <2>4. Reached(rank)'
      BY <2>1, <2>2, <2>3 DEF Reached
  <2>5. QED
      BY <2>4
<1>5. CASE TakeHead(t)
  <2>1. /\ pc[t] = "takehead" /\ head' = NULL
        /\ list' = [list EXCEPT ![t] = head]
        /\ pc' = [pc EXCEPT ![t] = IF head = NULL THEN "takewaiters"
                                   ELSE "taketail"]
        /\ UNCHANGED <<next, memory, rec, prev>>
      BY <1>5 DEF TakeHead
  <2>2. /\ \A u \in Threads : u # t => /\ Holding(u)' <=> Holding(u)
                                       /\ Held(u)' = Held(u)
                                       /\ pc'[u] = pc[u]
        /\ ~Holding(t) /\ pc'[t] # "link"
        /\ head # NULL => Holding(t)' /\ Held(t)' = head
      BY <2>1 DEF Adding, Holding, Held
  <2>3. Used' = Used /\ Used \subseteq Records
      BY <2>1 DEF Used
  <2>4. Reached(rank)'
      BY <2>1, <2>2, <2>3 DEF Reached
  <2>5. QED
      BY <2>4
<1>6. CASE TakeTail(t)
  <2>1. /\ pc[t] = "taketail"
        /\ pc' = [pc EXCEPT ![t] = "takewaiters"]
        /\ UNCHANGED <<head, next, memory, list, rec, prev>>
      BY <1>6 DEF TakeTail
  <2>2. \A u \in Threads : /\ Holding(u)' <=> Holding(u)
                           /\ Held(u)' = Held(u)
                           /\ pc'[u] = "link" => pc[u] = "link"
      BY <2>1 DEF Adding, Holding, Held
  <2>3. Used' = Used
      BY <2>1 DEF Used
  <2>4. Reached(rank)'
      BY <2>1, <2>2, <2>3 DEF Reached
  <2>5. QED
      BY <2>4
<1>7. CASE Submit(t)
  <2>1. /\ pc[t] = "submit" /\ list[t] \in Records
        /\ memory[list[t]] = "pending"
        /\ memory' = [memory EXCEPT ![list[t]] = "submitted"]
        /\ pc' = [pc EXCEPT ![t] = "advance"]
        /\ UNCHANGED <<head, next, list, rec, prev>>
      BY <1>7 DEF Submit, localVars, Pending, Adding, Holding, Held
  <2>2. \A u \in Threads : /\ Holding(u)' <=> Holding(u)
                           /\ Held(u)' = Held(u)
                           /\ pc'[u] = "link" => pc[u] = "link"
      BY <2>1 DEF Adding, Holding, Held
  <2>3. Used' = Used
      BY <2>1 DEF Used
  <2>4. Reached(rank)'
      BY <2>1, <2>2, <2>3 DEF Reached
  <2>5. QED
      BY <2>4
<1>8. CASE Advance(t)
  <2>1. /\ pc[t] = "advance" /\ list[t] \in Records
        /\ memory' = [memory EXCEPT ![list[t]] = "freed"]
        /\ list' = [list EXCEPT ![t] = next[list[t]]]
        /\ pc' = [pc EXCEPT ![t] = IF next[list[t]] = NULL THEN "drop"
                                   ELSE "submit"]
        /\ UNCHANGED <<head, next, rec, prev>>
      BY <1>8 DEF Advance
  <2>2. /\ \A u \in Threads : u # t => /\ Holding(u)' <=> Holding(u)
                                       /\ Held(u)' = Held(u)
                                       /\ pc'[u] = pc[u]
        /\ Held(t) = list[t] /\ pc'[t] # "link"
        /\ next[list[t]] # NULL => Holding(t)' /\ Held(t)' = next[list[t]]
      BY <2>1 DEF Adding, Holding, Held
  <2>3. Used' = Used \ {list[t]} /\ Used \subseteq Records
      BY <2>1 DEF Used
  <2>4. Reached(rank)'
      BY <2>1, <2>2, <2>3 DEF Reached
  <2>5. QED
      BY <2>4
<1>9. QED
    BY <1>1, <1>2, <1>3, <1>4, <1>5, <1>6, <1>7, <1>8 DEF ListStep

-----------------------------------------------------------------------------
\* Whoever empties the group, hangs up a list or leaves the waiters without a
\* post is on the way to wake it.
LEMMA StepOwed ==
  ASSUME GroupInv, Owed, [Next]_groupVars, Alive'
  PROVE  Owed'
<1> DEFINE Goal == Owed'
<1>a. \/ UNCHANGED groupVars
      \/ Release
      \/ \E t \in Threads :
           BlockStep(t) \/ WakeStep(t) \/ WaitStep(t) \/ NotifyStep(t)
    BY NextCases
<1> USE DEF GroupInv, Shape, Place, Accounts, Owners, Owed, Goto, WakeIfEmpty,
            Served, Empty, Alive, Usable, DropReference, Locations, LeaveLocs,
            WakeLocs, WaitLocs, NotifyLocs, groupVars, valueVars, notifyVars,
            objectVars, clientVars, localVars
<1>1. ASSUME Release \/ UNCHANGED groupVars  PROVE Goal
    BY <1>1 DEF Release
<1>2. ASSUME NEW t \in Threads, BlockStep(t)  PROVE Goal
  <2>1. CASE AsyncRetain(t)
      BY <2>1 DEF AsyncRetain
  <2>2. CASE Enter(t)
      BY <2>2 DEF Enter
  <2>3. CASE Leave(t)
      BY <2>3 DEF Leave
  <2>4. CASE LeaveUnbalanced(t)
      BY <2>4 DEF LeaveUnbalanced
  <2>5. CASE LeaveRelease(t)
      BY <2>5 DEF LeaveRelease
  <2>6. CASE ClientEnter(t)
      BY <2>6 DEF ClientEnter
  <2>7. CASE ClientLeave(t)
      BY <2>7 DEF ClientLeave
  <2>8. CASE LeaveTest(t)
      BY <2>8 DEF LeaveTest
  <2>9. QED
      BY <1>2, <2>1, <2>2, <2>3, <2>4, <2>5, <2>6, <2>7, <2>8 DEF BlockStep
<1>3. ASSUME NEW t \in Threads, WakeStep(t)  PROVE Goal
  <2>1. CASE TakeHead(t)
      BY <2>1 DEF TakeHead
  <2>2. CASE TakeTail(t)
      BY <2>2 DEF TakeTail
  <2>3. CASE TakeWaiters(t)
      BY <2>3 DEF TakeWaiters
  <2>4. CASE PostWaiter(t)
      BY <2>4 DEF PostWaiter
  <2>5. CASE Submit(t)
      BY <2>5 DEF Submit
  <2>6. CASE Advance(t)
      BY <2>6 DEF Advance
  <2>7. CASE DropList(t)
      BY <2>7 DEF DropList
  <2>8. QED
      BY <1>3, <2>1, <2>2, <2>3, <2>4, <2>5, <2>6, <2>7 DEF WakeStep
<1>4. ASSUME NEW t \in Threads, WaitStep(t)  PROVE Goal
  <2>1. CASE Wait(t)
      BY <2>1 DEF Wait
  <2>2. CASE Check(t)
      BY <2>2 DEF Check
  <2>3. CASE Join(t)
      BY <2>3 DEF Join
  <2>4. CASE Recheck(t)
      BY <2>4 DEF Recheck
  <2>5. CASE Woken(t)
      BY <2>5 DEF Woken
  <2>6. CASE SpuriousWakeup(t)
      BY <2>6 DEF SpuriousWakeup
  <2>7. CASE TimedOut(t)
      BY <2>7 DEF TimedOut
  <2>8. CASE Undo(t)
      BY <2>8 DEF Undo
  <2>9. QED
      BY <1>4, <2>1, <2>2, <2>3, <2>4, <2>5, <2>6, <2>7, <2>8 DEF WaitStep
<1>5. ASSUME NEW t \in Threads, NotifyStep(t)  PROVE Goal
  <2>1. CASE Notify(t)
      BY <2>1 DEF Notify
  <2>2. CASE Swap(t)
      BY <2>2 DEF Swap
  <2>3. CASE Link(t)
      BY <2>3 DEF Link
  <2>4. CASE Retain(t)
      BY <2>4 DEF Retain
  <2>5. CASE SetHead(t)
      BY <2>5 DEF SetHead
  <2>6. CASE Test(t)
      BY <2>6 DEF Test
  <2>7. QED
      BY <1>5, <2>1, <2>2, <2>3, <2>4, <2>5, <2>6 DEF NotifyStep
<1> HIDE DEF Goal
<1>6. Goal
    BY ONLY <1>1, <1>2, <1>3, <1>4, <1>5, <1>a
<1>7. QED
    BY ONLY <1>6 DEF Goal

\* A new group has no record on its way.
LEMMA InitOrder == Init => OrderInv
<1> SUFFICES ASSUME Init  PROVE OrderInv
    OBVIOUS
<1>1. /\ \A t \in Threads : ~Adding(t) /\ ~Holding(t)
      /\ \A t \in Threads : pc[t] = "idle" /\ last[t] = NULL
      /\ Used = {}
    BY DEF Init, Adding, Holding, Used
<1>2. Pending /\ Ends /\ OneWay /\ Owed
    BY <1>1 DEF Init, Pending, Ends, OneWay, Owed, WaitLocs
<1>3. [n \in Records |-> 0] \in [Records -> Nat]
    OBVIOUS
<1>4. Reached([n \in Records |-> 0])
    BY <1>1 DEF Reached
<1>5. QED
    BY <1>2, <1>3, <1>4 DEF OrderInv

\* The inductive step: the order of the records, and who owes a wake.
LEMMA StepOrder ==
  ASSUME GroupInv, OrderInv, [Next]_groupVars
  PROVE  OrderInv'
<1>1. Lists
    BY ShapeLists DEF GroupInv
<1>2. PICK rank \in [Records -> Nat] : Reached(rank)
    BY DEF OrderInv
<1>3. Alive' => Alive
    BY DEF Next, ClientCall, Step, AsyncRetain, Enter, Leave, LeaveUnbalanced,
           LeaveRelease, ClientEnter, ClientLeave, LeaveTest, TakeHead,
           TakeTail, TakeWaiters, PostWaiter, Submit, Advance, DropList, Wait,
           Check, Join, Recheck, Woken, TimedOut, Undo,
           SpuriousWakeup, Notify, Swap, Link, Retain, SetHead, Test, Release,
           Usable, groupVars, objectVars, Alive
<1>4. Alive' => Owed'
    BY <1>3, StepOwed DEF OrderInv
<1>5. CASE Untouched
  <2>1. Pending' /\ Ends' /\ OneWay' /\ Reached(rank)'
      BY <1>2, <1>5, StayOrdered DEF OrderInv
  <2>2. QED
      BY <1>4, <2>1 DEF OrderInv
<1>6. ASSUME NEW t \in Threads, ListStep(t)  PROVE OrderInv'
  <2>1. Pending' /\ Ends' /\ OneWay'
      BY <1>1, <1>6, StepPending, StepEnds, StepOneWay DEF OrderInv, ListStep
  <2>2. \E r \in [Records -> Nat] : Reached(r)'
      BY <1>1, <1>2, <1>6, HangsAlone, StepReached DEF OrderInv
  <2>3. QED
      BY <1>4, <2>1, <2>2 DEF OrderInv
<1>7. QED
    BY <1>5, <1>6, StepUntouched DEF GroupInv

\* A record is submitted once, by the one thread that took the list it is on,
\* and no link of a record that was freed is followed or written.
THEOREM GroupRecords == Spec => []RecordsInOrder
<1>1. GroupInv /\ OrderInv => RecordsInOrder
  <2> SUFFICES ASSUME GroupInv, OrderInv, NEW t \in Threads
               PROVE  /\ pc[t] = "submit" => memory[list[t]] = "pending"
                      /\ pc[t] = "advance" => memory[list[t]] = "submitted"
                      /\ pc[t] = "link" => memory[prev[t]] # "freed"
      BY DEF RecordsInOrder
  <2>1. pc[t] \in {"submit", "advance"} => Holding(t) /\ Held(t) = list[t]
      BY DEF GroupInv, Shape, Place, Holding, Held, Adding
  <2>2. QED
      BY <2>1 DEF OrderInv, Pending, Ends, Used
<1>2. QED
    BY <1>1, InitGroup, StepGroup, InitOrder, StepOrder, PTL DEF Spec

\* No lost notification and no lost wakeup: when the group is empty and every
\* thread is between calls or asleep with no post left, every record pushed
\* was submitted and nobody sleeps.
THEOREM GroupNobodyForgotten == Spec => []NobodyForgotten
<1>1. GroupInv /\ OrderInv => NobodyForgotten
  <2> SUFFICES ASSUME GroupInv, OrderInv, Calm, Empty, ksem = 0
               PROVE  /\ tail = NULL /\ head = NULL
                      /\ \A n \in Records : memory[n] \in {"unused", "freed"}
                      /\ \A t \in Threads : pc[t] = "idle"
      BY DEF NobodyForgotten
  <2>1. Owed
      BY DEF Calm, OrderInv
  <2>2. \A t \in Threads : pc[t] = "idle"
    <3> SUFFICES ASSUME NEW t \in Threads, pc[t] \in {"timed", "forever"}
                 PROVE  FALSE
        BY DEF Calm
    <3>1. waiters > 0
        BY <2>1 DEF Owed, Calm
    <3>2. QED
        BY <2>1, <3>1 DEF Owed, Calm
  <2>3. head = NULL
      BY <2>1, <2>2 DEF Owed
  <2>4. \A t \in Threads : ~Holding(t) /\ list[t] = NULL
      BY <2>2 DEF Holding, Adding, GroupInv, Shape, Place
  <2>5. Starting = 0 /\ Hanging = 0 /\ Taking = 0
      BY <2>2, GroupAssumption, CountType DEF Starting, Hanging, Taking
  <2>6. tail = NULL
      BY <2>3, <2>5 DEF Calm, GroupInv, Accounts, Owners, One
  <2>7. Used = {}
    <3> SUFFICES ASSUME Used # {}  PROVE FALSE
        OBVIOUS
    <3>1. PICK rank \in [Records -> Nat] : Reached(rank)
        BY DEF OrderInv
    <3>2. \A n \in Used : n \in Records /\ rank[n] \in Nat
        BY DEF Used
    <3>3. PICK n \in Used : \A m \in Used : ~(rank[m] < rank[n])
        BY <3>2, LowestRank
    <3>4. n # NULL
        BY <3>2, GroupAssumption
    <3>5. QED
        BY <2>3, <2>4, <3>1, <3>3, <3>4 DEF Reached
  <2>8. \A n \in Records : memory[n] \in {"unused", "freed"}
      BY <2>7 DEF Used, GroupInv, Shape
  <2>9. QED
      BY <2>2, <2>3, <2>6, <2>8
<1>2. QED
    BY <1>1, InitGroup, StepGroup, InitOrder, StepOrder, PTL DEF Spec
=============================================================================
