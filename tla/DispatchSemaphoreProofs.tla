---------------------- MODULE DispatchSemaphoreProofs ----------------------
(***************************************************************************)
(* Proofs about DispatchSemaphore, for any finite set of threads and any   *)
(* original value.  The argument counts threads: a thread that moves from  *)
(* one location to another changes each count by at most one, so every     *)
(* step is linear arithmetic over five counts.                             *)
(***************************************************************************)
EXTENDS DispatchSemaphore, FiniteSetTheorems, TLAPS

(* How a count of threads changes                                          *)

\* How much a thread that is at x adds to the count of those at A.
Weight(x, A) == IF x \in A THEN 1 ELSE 0

\* A count is a natural number, and positive as soon as one thread is there.
LEMMA CountType ==
  ASSUME NEW T, IsFiniteSet(T), NEW f, NEW A
  PROVE  /\ CountAt(T, f, A) \in Nat
         /\ \A t \in T : f[t] \in A => CountAt(T, f, A) > 0
         /\ CountAt(T, f, A) > 0 => \E t \in T : f[t] \in A
<1> DEFINE S == {t \in T : f[t] \in A}
<1>1. IsFiniteSet(S) /\ Cardinality(S) \in Nat
    BY FS_Subset, FS_CardinalityType
<1>2. Cardinality(S) = 0 <=> S = {}
    BY <1>1, FS_EmptySet
<1>3. QED
    BY <1>1, <1>2 DEF CountAt

\* Moving one thread changes the count by where it comes from and goes to.
LEMMA CountStep ==
  ASSUME NEW T, NEW f, NEW g, NEW t, NEW x, NEW A,
         IsFiniteSet(T), t \in T,
         \A u \in T : g[u] = IF u = t THEN x ELSE f[u]
  PROVE  CountAt(T, g, A) = CountAt(T, f, A) - Weight(f[t], A) + Weight(x, A)
<1> DEFINE S == {u \in T : f[u] \in A}
           R == {u \in T : g[u] \in A}
           Others == {u \in T : u # t /\ f[u] \in A}
<1>1. IsFiniteSet(Others) /\ Cardinality(Others) \in Nat
    BY FS_Subset, FS_CardinalityType
<1>2. /\ t \notin Others
      /\ g[t] = x
      /\ \A u \in T : u # t => g[u] = f[u]
    OBVIOUS
<1>3. Cardinality(S) = Cardinality(Others) + Weight(f[t], A)
  <2>1. CASE f[t] \in A
    <3>1. S = Others \cup {t}  BY <2>1
    <3>2. QED  BY <2>1, <3>1, <1>1, <1>2, FS_AddElement DEF Weight
  <2>2. CASE f[t] \notin A
    <3>1. S = Others  BY <2>2
    <3>2. Cardinality(S) = Cardinality(Others)  BY <3>1
    <3>3. Weight(f[t], A) = 0  BY <2>2 DEF Weight
    <3> HIDE DEF S, R, Others
    <3>4. QED  BY <3>2, <3>3, <1>1
  <2>3. QED  BY <2>1, <2>2
<1>4. Cardinality(R) = Cardinality(Others) + Weight(x, A)
  <2>1. CASE x \in A
    <3>1. R = Others \cup {t}  BY <2>1, <1>2
    <3>2. QED  BY <2>1, <3>1, <1>1, <1>2, FS_AddElement DEF Weight
  <2>2. CASE x \notin A
    <3>1. R = Others  BY <2>2, <1>2
    <3>2. Cardinality(R) = Cardinality(Others)  BY <3>1
    <3>3. Weight(x, A) = 0  BY <2>2 DEF Weight
    <3> HIDE DEF S, R, Others
    <3>4. QED  BY <3>2, <3>3, <1>1
  <2>3. QED  BY <2>1, <2>2
<1>5. Weight(x, A) \in {0, 1} /\ Weight(f[t], A) \in {0, 1}
    BY DEF Weight
<1>6. QED
    BY <1>1, <1>3, <1>4, <1>5 DEF CountAt

-----------------------------------------------------------------------------

Sleepers == At(WaitSlow)                       \* inside a slow wait
Owing    == At({"retain", "publish"})          \* owe a wakeup not published
Posting  == At({"post"})                       \* owe the kernel a post
Looking  == At({"check"})                      \* will look at "sent" next
Holding  == At({"publish", "post", "drop"})    \* own a reference

CountsOK == /\ Sleepers \in Nat /\ Owing \in Nat /\ Posting \in Nat
            /\ Looking \in Nat /\ Holding \in Nat

\* Wakeups and references in terms of the counts.
Accounts ==
    /\ fate # "unbalanced" => Sleepers = sent + Owing + Positive(-value)
    /\ refcnt = (1 - released) + Holding
    /\ released = 1 => Sleepers = 0

\* Every published wakeup has a post behind it, or a waiter about to see it.
PostsCover == Backend = "mach" => sent <= ksem + Posting + Looking

SemaInv == TypeOK /\ Accounts /\ PostsCover

\* The counts follow a thread that moves from one location to another.
Shift(from, to) ==
    /\ pc' \in [Threads -> Locations]
    /\ Sleepers' = Sleepers - Weight(from, WaitSlow) + Weight(to, WaitSlow)
    /\ Owing' = Owing - Weight(from, {"retain", "publish"})
                      + Weight(to, {"retain", "publish"})
    /\ Posting' = Posting - Weight(from, {"post"}) + Weight(to, {"post"})
    /\ Looking' = Looking - Weight(from, {"check"}) + Weight(to, {"check"})
    /\ Holding' = Holding - Weight(from, {"publish", "post", "drop"})
                          + Weight(to, {"publish", "post", "drop"})

-----------------------------------------------------------------------------
LEMMA Moved ==
  ASSUME TypeOK, NEW t \in Threads, NEW to \in Locations, Goto(t, to)
  PROVE  Shift(pc[t], to)
<1>1. \A A : At(A)' = At(A) - Weight(pc[t], A) + Weight(to, A)
  <2> TAKE A
  <2>1. \A u \in Threads : pc'[u] = IF u = t THEN to ELSE pc[u]
      BY DEF TypeOK, Goto
  <2>2. At(A)' = CountAt(Threads, pc', A) /\ At(A) = CountAt(Threads, pc, A)
      BY DEF At, CountAt
  <2>3. CountAt(Threads, pc', A)
          = CountAt(Threads, pc, A) - Weight(pc[t], A) + Weight(to, A)
      BY <2>1, SemaphoreAssumption, CountStep
  <2>4. QED
      BY <2>2, <2>3
<1>2. pc' \in [Threads -> Locations]
    BY DEF TypeOK, Goto
<1>3. QED
    BY <1>1, <1>2 DEF Shift, Sleepers, Owing, Posting, Looking, Holding

LEMMA Counts == CountsOK
  BY SemaphoreAssumption, CountType
     DEF CountsOK, Sleepers, Owing, Posting, Looking, Holding, At

\* A thread at a location is counted there.
LEMMA Present ==
  ASSUME NEW t \in Threads
  PROVE  /\ pc[t] \in WaitSlow => Sleepers > 0
         /\ pc[t] \in {"retain", "publish"} => Owing > 0
         /\ pc[t] = "post" => Posting > 0
         /\ pc[t] = "check" => Looking > 0
         /\ pc[t] \in {"publish", "post", "drop"} => Holding > 0
  BY SemaphoreAssumption, CountType
     DEF Sleepers, Owing, Posting, Looking, Holding, At

LEMMA Absent == (\A t \in Threads : pc[t] \notin WaitSlow) => Sleepers = 0
<1>1. CountAt(Threads, pc, WaitSlow) \in Nat
    BY SemaphoreAssumption, CountType
<1>2. CountAt(Threads, pc, WaitSlow) > 0 => \E t \in Threads : pc[t] \in WaitSlow
    BY SemaphoreAssumption, CountType
<1>3. QED
    BY <1>1, <1>2 DEF Sleepers, At

LEMMA Stays ==
  ASSUME UNCHANGED pc
  PROVE  /\ Sleepers' = Sleepers /\ Owing' = Owing /\ Posting' = Posting
         /\ Looking' = Looking /\ Holding' = Holding
  BY DEF Sleepers, Owing, Posting, Looking, Holding, At

LEMMA InitSema == Init => SemaInv
<1> SUFFICES ASSUME Init PROVE SemaInv
    OBVIOUS
<1>1. TypeOK
    BY SemaphoreAssumption DEF Init, TypeOK, Locations, Timeouts
<1>2. \A A : "idle" \notin A => At(A) = 0
    BY SemaphoreAssumption, CountType DEF Init, At
<1>3. Sleepers = 0 /\ Owing = 0 /\ Posting = 0 /\ Looking = 0 /\ Holding = 0
    BY <1>2 DEF Sleepers, Owing, Posting, Looking, Holding, WaitSlow
<1>4. QED
    BY <1>1, <1>3, SemaphoreAssumption
       DEF Init, SemaInv, Accounts, PostsCover, Positive

LEMMA StepSema == SemaInv /\ [Next]_semaVars => SemaInv'
<1> SUFFICES ASSUME SemaInv, [Next]_semaVars PROVE SemaInv'
    OBVIOUS
<1>0. CountsOK /\ CountsOK'
    BY Counts, PTL
<1> USE SemaphoreAssumption
        DEF SemaInv, TypeOK, Accounts, PostsCover, Positive, CountsOK, Weight,
            Locations, WaitSlow, SignalSlow, Timeouts, Usable
<1>1. ASSUME Release  PROVE SemaInv'
  <2>1. Sleepers = 0
      BY <1>1, Absent DEF Release
  <2>2. QED
      BY <2>1, <1>0, <1>1, Stays DEF Release, DropReference
<1>2. ASSUME NEW t \in Threads, Signal(t)  PROVE SemaInv'
  <2>1. CASE value + 1 > 0
      BY <2>1, <1>0, <1>2, Stays DEF Signal
  <2>2. CASE ~(value + 1 > 0)
    <3>1. Shift("idle", "retain")
        BY <2>2, <1>2, Moved DEF Signal
    <3>2. QED
        BY <3>1, <2>2, <1>0, <1>2 DEF Signal, Shift
  <2>3. QED  BY <2>1, <2>2
<1>3. ASSUME NEW t \in Threads, SignalUnbalanced(t)  PROVE SemaInv'
    BY <1>0, <1>3, Stays DEF SignalUnbalanced
<1>4. ASSUME NEW t \in Threads, Wait(t)  PROVE SemaInv'
  <2>1. CASE value - 1 >= 0
      BY <2>1, <1>0, <1>4, Stays DEF Wait
  <2>2. CASE ~(value - 1 >= 0)
    <3>1. Shift("idle", "check")
        BY <2>2, <1>4, Moved DEF Wait
    <3>2. QED
        BY <3>1, <2>2, <1>0, <1>4 DEF Wait, Shift
  <2>3. QED  BY <2>1, <2>2
<1>5. ASSUME NEW t \in Threads, Retain(t)  PROVE SemaInv'
  <2>1. Shift("retain", "publish")
      BY <1>5, Moved DEF Retain
  <2>2. QED
      BY <2>1, <1>0, <1>5 DEF Retain, Shift
<1>6. ASSUME NEW t \in Threads, Publish(t)  PROVE SemaInv'
  <2>1. Shift("publish", "post")
      BY <1>6, Moved DEF Publish
  <2>2. QED
      BY <2>1, <1>0, <1>6 DEF Publish, Shift
<1>7. ASSUME NEW t \in Threads, Post(t)  PROVE SemaInv'
  <2>1. Shift("post", "drop")
      BY <1>7, Moved DEF Post
  <2>2. QED
      BY <2>1, <1>0, <1>7 DEF Post, Shift
<1>8. ASSUME NEW t \in Threads, Drop(t)  PROVE SemaInv'
  <2>1. Shift("drop", "idle")
      BY <1>8, Moved DEF Drop
  <2>2. QED
      BY <2>1, <1>0, <1>8, Present DEF Drop, Shift, DropReference
<1>9. ASSUME NEW t \in Threads, Check(t)  PROVE SemaInv'
  <2>1. CASE sent > 0
    <3>1. Shift("check", "idle")
        BY <2>1, <1>9, Moved DEF Check
    <3>2. QED
        BY <3>1, <2>1, <1>0, <1>9 DEF Check, Shift
  <2>2. CASE ~(sent > 0)
    <3>1. Switch(t) \in {"undo", "timed", "drain"}
        BY DEF Switch
    <3>2. Shift("check", Switch(t))
        BY <3>1, <2>2, <1>9, Moved DEF Check
    <3>3. QED
        BY <3>1, <3>2, <2>2, <1>0, <1>9 DEF Check, Shift
  <2>3. QED  BY <2>1, <2>2
<1>10. ASSUME NEW t \in Threads, TimedWoken(t)  PROVE SemaInv'
  <2>1. CASE Backend = "mach"
    <3>1. Shift("timed", "check")
        BY <2>1, <1>10, Moved DEF TimedWoken
    <3>2. QED
        BY <3>1, <2>1, <1>0, <1>10 DEF TimedWoken, Shift
  <2>2. CASE Backend # "mach"
    <3>1. Shift("timed", "undo")
        BY <2>2, <1>10, Moved DEF TimedWoken
    <3>2. QED
        BY <3>1, <2>2, <1>0, <1>10 DEF TimedWoken, Shift
  <2>3. QED  BY <2>1, <2>2
<1>11. ASSUME NEW t \in Threads, TimedOut(t)  PROVE SemaInv'
  <2>1. Shift("timed", "undo")
      BY <1>11, Moved DEF TimedOut
  <2>2. QED
      BY <2>1, <1>0, <1>11 DEF TimedOut, Shift
<1>12. ASSUME NEW t \in Threads, Undo(t)  PROVE SemaInv'
  <2>1. CASE value < 0
    <3>1. Shift("undo", "idle")
        BY <2>1, <1>12, Moved DEF Undo
    <3>2. QED
        BY <3>1, <2>1, <1>0, <1>12 DEF Undo, Shift
  <2>2. CASE ~(value < 0)
    <3>1. Shift("undo", "drain")
        BY <2>2, <1>12, Moved DEF Undo
    <3>2. QED
        BY <3>1, <2>2, <1>0, <1>12 DEF Undo, Shift
  <2>3. QED  BY <2>1, <2>2
<1>13. ASSUME NEW t \in Threads, Drain(t)  PROVE SemaInv'
  <2>1. Shift("drain", "check")
      BY <1>13, Moved DEF Drain
  <2>2. QED
      BY <2>1, <1>0, <1>13 DEF Drain, Shift
<1>14. ASSUME NEW t \in Threads, SpuriousWakeup(t)  PROVE SemaInv'
  <2>1. Shift(pc[t], "check") /\ pc[t] \in {"timed", "drain"}
      BY <1>14, Moved DEF SpuriousWakeup
  <2>2. QED
      BY <2>1, <1>0, <1>14 DEF SpuriousWakeup, Shift
<1>15. ASSUME UNCHANGED semaVars  PROVE SemaInv'
    BY <1>0, <1>15, Stays DEF semaVars
<1>16. QED
    BY <1>1, <1>2, <1>3, <1>4, <1>5, <1>6, <1>7, <1>8, <1>9, <1>10, <1>11,
       <1>12, <1>13, <1>14, <1>15 DEF Next, ClientCall, Step

LEMMA SemaInvariant == Spec => []SemaInv
  BY InitSema, StepSema, PTL DEF Spec

-----------------------------------------------------------------------------
\* Every signal pays for one wait: a waiter in the slow path is either counted
\* by the negative value or owed one wakeup, published or about to be.
THEOREM SemaphoreAccounts == Spec => [](TypeOK /\ WakeupsAccounted)
<1>1. SemaInv => TypeOK /\ WakeupsAccounted
    BY DEF SemaInv, Accounts, WakeupsAccounted, Sleepers, Owing
<1>2. QED
    BY <1>1, SemaInvariant, PTL

\* A published wakeup never stays behind with every waiter asleep (on the
\* backend whose timed wait tells success from timeout).
THEOREM SemaphoreNoLostWakeup ==
  ASSUME Backend = "mach"
  PROVE  Spec => []NoLostWakeup
<1>1. SemaInv => NoLostWakeup
  <2> SUFFICES ASSUME SemaInv, ksem = 0, fate = "running",
                      At(SignalSlow \cup {"check", "undo"}) = 0
               PROVE  Sleepers = Positive(-value)
      BY DEF NoLostWakeup, Sleepers
  <2>1. \A t \in Threads : pc[t] \notin SignalSlow \cup {"check", "undo"}
      BY SemaphoreAssumption, CountType DEF At
  <2>2. Owing = 0 /\ Posting = 0 /\ Looking = 0
    <3>1. \A A \in SUBSET (SignalSlow \cup {"check", "undo"}) : At(A) = 0
        BY <2>1, SemaphoreAssumption, CountType DEF At
    <3>2. QED
        BY <3>1 DEF Owing, Posting, Looking, SignalSlow
  <2>3. QED
      BY <2>2, Counts DEF SemaInv, TypeOK, Accounts, PostsCover, CountsOK,
                          Positive
<1>2. QED
    BY <1>1, SemaInvariant, PTL

\* Nobody inside a call touches an object that has been disposed of: before
\* the wakeup is published the waiter it is for keeps the object alive.
THEOREM SemaphoreStaysAlive == Spec => []NoUseAfterDispose
<1>1. SemaInv => NoUseAfterDispose
  <2> SUFFICES ASSUME SemaInv, fate = "running",
                      NEW t \in Threads, pc[t] # "idle"
               PROVE  refcnt > 0
      BY DEF NoUseAfterDispose
  <2> USE DEF SemaInv, TypeOK, Accounts, CountsOK, Positive
  <2>1. CASE pc[t] \in {"publish", "post", "drop"}
      BY <2>1, Present, Counts
  <2>2. CASE pc[t] \in {"retain"} \cup WaitSlow
    <3>1. Sleepers > 0
        BY <2>2, Present, Counts
    <3>2. QED
        BY <3>1, Counts
  <2>3. QED
      BY <2>1, <2>2 DEF Locations, SignalSlow
<1>2. QED
    BY <1>1, SemaInvariant, PTL
-----------------------------------------------------------------------------
\* dispatch_semaphore_t implements the counting semaphore of the header.
THEOREM SemaphoreImplemented == Spec => ImplementsSemaphore
<1> DEFINE Same == UNCHANGED <<Count, Waiting>>
<1>1. Init => Promise!Init
  <2> SUFFICES ASSUME Init PROVE Promise!Init
      OBVIOUS
  <2>1. Sleepers = 0
      BY Absent DEF Init, WaitSlow
  <2>2. QED
      BY <2>1, SemaphoreAssumption
         DEF Init, Promise!Init, Count, Waiting, Sleepers, WaitSlow
<1>2. SemaInv /\ [Next]_semaVars
        => [fate' # "unbalanced" => Promise!Next]_<<Count, Waiting>>
  <2> SUFFICES ASSUME SemaInv, [Next]_semaVars, fate' # "unbalanced"
               PROVE  Promise!Next \/ Same
      OBVIOUS
  <2>0. CountsOK /\ CountsOK' /\ TypeOK
      BY Counts, PTL DEF SemaInv
  <2>a. Count = value + Sleepers /\ Count' = value' + Sleepers'
      BY DEF Count, Sleepers
  <2>b. ASSUME UNCHANGED <<pc, value>>  PROVE Same
      BY <2>b, Stays, <2>a DEF Waiting
  <2>c. ASSUME NEW t \in Threads, NEW from \in Locations, pc[t] = from,
               NEW to \in Locations, Goto(t, to)
        PROVE  /\ Shift(from, to)
               /\ from \notin WaitSlow /\ to \in WaitSlow =>
                    t \notin Waiting /\ Waiting' = Waiting \cup {t}
               /\ from \in WaitSlow /\ to \notin WaitSlow =>
                    t \in Waiting /\ Waiting' = Waiting \ {t}
               /\ (from \in WaitSlow <=> to \in WaitSlow) =>
                    Waiting' = Waiting
    <3>1. Shift(from, to)
        BY <2>c, <2>0, Moved
    <3>2. \A u \in Threads : pc'[u] = IF u = t THEN to ELSE pc[u]
        BY <2>c, <2>0 DEF TypeOK, Goto
    <3>3. QED
        BY <3>1, <3>2, <2>c DEF Waiting
  <2>d. ASSUME NEW t \in Threads, NEW from \in Locations, pc[t] = from,
               NEW to \in Locations, Goto(t, to), UNCHANGED value,
               from \in WaitSlow <=> to \in WaitSlow
        PROVE  Same
    <3>1. Waiting' = Waiting /\ Shift(from, to)
        BY <2>c, <2>d
    <3>2. Sleepers' = Sleepers
        BY <3>1, <2>d, <2>0 DEF Shift, Weight, CountsOK
    <3>3. QED
        BY <3>1, <3>2, <2>d, <2>a
  <2> USE <2>0 DEF CountsOK, TypeOK, Locations, WaitSlow, SignalSlow
  <2>1. ASSUME Release  PROVE Same
      BY <2>1, <2>b DEF Release
  <2>2. ASSUME NEW t \in Threads, Signal(t)  PROVE Promise!Signal
    <3>1. value' = value + 1 /\ Waiting' = Waiting /\ Sleepers' = Sleepers
      <4>1. CASE value + 1 > 0
          BY <2>2, <4>1, Stays DEF Signal, Waiting
      <4>2. CASE ~(value + 1 > 0)
        <5>1. pc[t] = "idle" /\ Goto(t, "retain") /\ value' = value + 1
            BY <2>2, <4>2 DEF Signal
        <5>2. Waiting' = Waiting /\ Shift("idle", "retain")
            BY <5>1, <2>c
        <5>3. QED
            BY <5>1, <5>2 DEF Shift, Weight
      <4>3. QED  BY <4>1, <4>2
    <3>2. QED
        BY <3>1, <2>a DEF Promise!Signal
  <2>3. ASSUME NEW t \in Threads, SignalUnbalanced(t)  PROVE FALSE
      BY <2>3 DEF SignalUnbalanced
  <2>4. ASSUME NEW t \in Threads, Wait(t)
        PROVE  Promise!AcquireAtOnce(t) \/ Promise!Enter(t)
    <3>1. CASE value - 1 >= 0
      <4>1. Waiting' = Waiting /\ Sleepers' = Sleepers /\ t \notin Waiting
          BY <2>4, <3>1, Stays DEF Wait, Waiting
      <4>2. QED
          BY <4>1, <2>4, <3>1, <2>a DEF Wait, Promise!AcquireAtOnce
    <3>2. CASE ~(value - 1 >= 0)
      <4>1. pc[t] = "idle" /\ Goto(t, "check") /\ value' = value - 1
          BY <2>4, <3>2 DEF Wait
      <4>2. t \notin Waiting /\ Waiting' = Waiting \cup {t}
              /\ Shift("idle", "check")
          BY <4>1, <2>c
      <4>3. Sleepers' = Sleepers + 1
          BY <4>2 DEF Shift, Weight
      <4>4. QED
          BY <4>1, <4>2, <4>3, <2>a DEF Promise!Enter
    <3>3. QED  BY <3>1, <3>2
  <2>5. ASSUME NEW t \in Threads,
               Retain(t) \/ Publish(t) \/ Post(t) \/ Drop(t)
        PROVE  Same
      BY <2>5, <2>d DEF Retain, Publish, Post, Drop
  <2>6. ASSUME NEW t \in Threads, Check(t)  PROVE Promise!Acquire(t) \/ Same
    <3>1. CASE sent > 0
      <4>1. pc[t] = "check" /\ Goto(t, "idle") /\ UNCHANGED value
          BY <2>6, <3>1 DEF Check
      <4>2. t \in Waiting /\ Waiting' = Waiting \ {t} /\ Shift("check", "idle")
          BY <4>1, <2>c
      <4>3. Sleepers' = Sleepers - 1
          BY <4>2 DEF Shift, Weight
      <4>4. Count > 0
          BY <3>1, <2>6, <2>a DEF Check, SemaInv, Accounts, Positive
      <4>5. QED
          BY <4>1, <4>2, <4>3, <4>4, <2>a DEF Promise!Acquire
    <3>2. CASE ~(sent > 0)
      <4>1. Switch(t) \in {"undo", "timed", "drain"}
          BY DEF Switch, Timeouts
      <4>2. pc[t] = "check" /\ Goto(t, Switch(t)) /\ UNCHANGED value
          BY <2>6, <3>2 DEF Check
      <4>3. QED
          BY <4>1, <4>2, <2>d
    <3>3. QED  BY <3>1, <3>2
  <2>7. ASSUME NEW t \in Threads, TimedWoken(t)  PROVE Same
    <3>1. pc[t] = "timed" /\ UNCHANGED value
            /\ (Goto(t, "check") \/ Goto(t, "undo"))
        BY <2>7 DEF TimedWoken
    <3>2. QED
        BY <3>1, <2>d
  <2>8. ASSUME NEW t \in Threads, Undo(t)  PROVE Promise!GiveUp(t) \/ Same
    <3>1. CASE value < 0
      <4>1. pc[t] = "undo" /\ Goto(t, "idle") /\ value' = value + 1
          BY <2>8, <3>1 DEF Undo
      <4>2. t \in Waiting /\ Waiting' = Waiting \ {t} /\ Shift("undo", "idle")
          BY <4>1, <2>c
      <4>3. Sleepers' = Sleepers - 1
          BY <4>2 DEF Shift, Weight
      <4>4. QED
          BY <4>1, <4>2, <4>3, <2>a DEF Promise!GiveUp
    <3>2. CASE ~(value < 0)
        BY <2>8, <3>2, <2>d DEF Undo
    <3>3. QED  BY <3>1, <3>2
  <2>9. ASSUME NEW t \in Threads,
               TimedOut(t) \/ Drain(t) \/ SpuriousWakeup(t)
        PROVE  Same
      BY <2>9, <2>d DEF TimedOut, Drain, SpuriousWakeup
  <2>10. ASSUME UNCHANGED semaVars  PROVE Same
      BY <2>10, <2>b DEF semaVars
  <2>11. QED
      BY <2>1, <2>2, <2>3, <2>4, <2>5, <2>6, <2>7, <2>8, <2>9, <2>10
         DEF Next, ClientCall, Step, Promise!Next
<1>3. QED
    BY <1>1, <1>2, SemaInvariant, PTL DEF Spec, ImplementsSemaphore
=============================================================================
