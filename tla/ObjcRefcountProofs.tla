---------------------- MODULE ObjcRefcountProofs -----------------------------
(***************************************************************************)
(* Proofs about ObjcRefcount, for any number of threads, objects,          *)
(* references and variables, any width of the inline count and any         *)
(* assignment of the side tables.                                          *)
(***************************************************************************)
EXTENDS ObjcRefcount, Counting, FiniteSetTheorems, TLAPS

(* How a count of threads changes                                          *)

\* How much a thread that is at x adds to the count of those at A.
Weight(x, A) == IF x \in A THEN 1 ELSE 0

\* A count is a natural number, and positive as soon as one thread is there.
LEMMA CountType ==
  ASSUME NEW T, IsFiniteSet(T), NEW f, NEW A
  PROVE  /\ CountAt(T, f, A) \in Nat
         /\ \A t \in T : f[t] \in A => CountAt(T, f, A) > 0
         /\ CountAt(T, f, A) > 0 => \E t \in T : f[t] \in A
<1> DEFINE S == {t \in T : f[t] \in A}
<1>1. IsFiniteSet(S) /\ Cardinality(S) \in Nat
    BY FS_Subset, FS_CardinalityType
<1>2. Cardinality(S) = 0 <=> S = {}
    BY <1>1, FS_EmptySet
<1>3. QED
    BY <1>1, <1>2 DEF CountAt

\* Moving one thread changes the count by where it comes from and goes to.
LEMMA CountStep ==
  ASSUME NEW T, NEW f, NEW g, NEW t, NEW x, NEW A,
         IsFiniteSet(T), t \in T,
         \A u \in T : g[u] = IF u = t THEN x ELSE f[u]
  PROVE  CountAt(T, g, A) = CountAt(T, f, A) - Weight(f[t], A) + Weight(x, A)
<1> DEFINE S == {u \in T : f[u] \in A}
           R == {u \in T : g[u] \in A}
           Others == {u \in T : u # t /\ f[u] \in A}
<1>1. IsFiniteSet(Others) /\ Cardinality(Others) \in Nat
    BY FS_Subset, FS_CardinalityType
<1>2. /\ t \notin Others
      /\ g[t] = x
      /\ \A u \in T : u # t => g[u] = f[u]
    OBVIOUS
<1>3. Cardinality(S) = Cardinality(Others) + Weight(f[t], A)
  <2>1. CASE f[t] \in A
    <3>1. S = Others \cup {t}  BY <2>1
    <3>2. QED  BY <2>1, <3>1, <1>1, <1>2, FS_AddElement DEF Weight
  <2>2. CASE f[t] \notin A
    <3>1. S = Others  BY <2>2
    <3>2. Cardinality(S) = Cardinality(Others)  BY <3>1
    <3>3. Weight(f[t], A) = 0  BY <2>2 DEF Weight
    <3> HIDE DEF S, R, Others
    <3>4. QED  BY <3>2, <3>3, <1>1
  <2>3. QED  BY <2>1, <2>2
<1>4. Cardinality(R) = Cardinality(Others) + Weight(x, A)
  <2>1. CASE x \in A
    <3>1. R = Others \cup {t}  BY <2>1, <1>2
    <3>2. QED  BY <2>1, <3>1, <1>1, <1>2, FS_AddElement DEF Weight
  <2>2. CASE x \notin A
    <3>1. R = Others  BY <2>2, <1>2
    <3>2. Cardinality(R) = Cardinality(Others)  BY <3>1
    <3>3. Weight(x, A) = 0  BY <2>2 DEF Weight
    <3> HIDE DEF S, R, Others
    <3>4. QED  BY <3>2, <3>3, <1>1
  <2>3. QED  BY <2>1, <2>2
<1>5. Weight(x, A) \in {0, 1} /\ Weight(f[t], A) \in {0, 1}
    BY DEF Weight
<1>6. QED
    BY <1>1, <1>3, <1>4, <1>5 DEF CountAt

-----------------------------------------------------------------------------

Words == [nonpointer : BOOLEAN, extra : 0 .. Most, sided : BOOLEAN,
          dealloc : BOOLEAN, weakly : BOOLEAN]

Entries == [rc : Nat, dealloc : BOOLEAN, weakly : BOOLEAN]

Retaining == {"overflow", "rawretain"}
Releasing == {"underflow", "again", "borrowed", "rawrelease"}
Storing   == {"lockold", "locknew", "store"}
Places    == {"idle", "addside", "move", "load", "free"} \cup Retaining
               \cup Releasing \cup Storing

WorldTypes == /\ lock \in [Stripes -> Threads \cup {NULL}]
              /\ memory \in [Objects -> {"live", "freed"}]
              /\ referrers \in [Objects -> SUBSET Slots]
              /\ slot \in [Slots -> Objects \cup {NULL}]
              /\ target \in [Refs -> Objects \cup {NULL}]

CallTypes == /\ pc \in [Threads -> Places]
             /\ obj \in [Threads -> Objects \cup {NULL}]
             /\ new \in [Threads -> Objects \cup {NULL}]
             /\ keep \in [Threads -> Refs \cup {NULL}]
             /\ ref \in [Threads -> Refs \cup {NULL}]
             /\ var \in [Threads -> Slots \cup {NULL}]
             /\ moved \in [Threads -> Words \cup {NULL}]
             /\ dying \in [Threads -> Objects \cup {NULL}]

WordTypes == isa \in [Objects -> Words] /\ side \in [Objects -> Entries]

\* A call works on an object that the client, or the call itself, refers to.
Calls ==
    \A t \in Threads :
        /\ pc[t] \in {"idle", "free"} => keep[t] = NULL /\ ref[t] = NULL
        /\ pc[t] \in Retaining \cup {"move"} =>
             obj[t] \in Objects /\ keep[t] \in Refs
               /\ target[keep[t]] = obj[t]
        /\ pc[t] \in Retaining \cup {"load"} =>
             obj[t] \in Objects /\ ref[t] \in Refs /\ target[ref[t]] = NULL
        /\ pc[t] \in Releasing \cup {"addside"} =>
             obj[t] \in Objects /\ ref[t] \in Refs /\ target[ref[t]] = obj[t]
        /\ pc[t] = "move" => moved[t] \in Words
        /\ pc[t] \in Storing => var[t] \in Slots /\ ref[t] = NULL
        /\ pc[t] = "load" => var[t] \in Slots
        /\ pc[t] \in Storing /\ new[t] # NULL =>
             \/ dying[t] = new[t]
             \/ keep[t] \in Refs /\ target[keep[t]] = new[t]
        /\ pc[t] = "free" => dying[t] # NULL
        /\ dying[t] # NULL => pc[t] \in {"idle", "free"} \cup Storing

\* A reference a call makes or drops is that call's alone.
Exclusive ==
    \A t, u \in Threads :
        ref[t] # NULL => ref[t] # keep[u] /\ (ref[u] = ref[t] => u = t)

Locked ==
    \A t \in Threads :
        /\ pc[t] \in {"addside", "borrowed", "again", "move"} =>
             lock[Stripe[obj[t]]] = t
        /\ pc[t] = "store" => \A s \in StoreStripes(t) : lock[s] = t
        /\ pc[t] = "locknew" => \E s \in StoreStripes(t) : lock[s] = t

Multiples == {n \in Nat : \E k \in Nat : n = k * Half}

\* What an isa word x and an entry y of the side table may hold together.
Fits(x, y) ==
    /\ ~x.nonpointer => x.extra = 0
    /\ x.nonpointer => y.rc \in Multiples /\ ~y.dealloc /\ ~y.weakly
    /\ x.nonpointer /\ ~x.sided => y.rc = 0

Consistent == \A o \in Objects : memory[o] = "live" => Fits(isa[o], side[o])

\* The kind of isa that a call found is still the kind of its object.
Followed ==
    \A t \in Threads :
        /\ pc[t] \in {"addside", "borrowed"} =>
             isa[obj[t]].nonpointer /\ isa[obj[t]].sided
        /\ pc[t] \in {"rawretain", "rawrelease", "move"} =>
             ~isa[obj[t]].nonpointer

\* Until the flags of the isa word have been moved the entry has none.
Moving == \A t \in Threads : pc[t] = "move" => ~side[obj[t]].weakly

Flagged(o) ==
    IF isa[o].nonpointer THEN isa[o].weakly
    ELSE \/ side[o].weakly
         \/ \E t \in Threads : pc[t] = "move" /\ obj[t] = o /\ moved[t].weakly

Registered ==
    /\ \A w \in Slots : slot[w] # NULL =>
         memory[slot[w]] = "live" /\ w \in referrers[slot[w]]
    /\ \A o \in Objects :
         /\ memory[o] = "freed" => side[o] = NoSide /\ referrers[o] = {}
         /\ \A w \in referrers[o] : slot[w] = o
         /\ referrers[o] # {} => Flagged(o)

Alive ==
    /\ \A r \in Refs : target[r] # NULL => memory[target[r]] = "live"
    /\ \A t \in Threads : dying[t] # NULL =>
         /\ memory[dying[t]] = "live"
         /\ \A r \in Refs : target[r] # dying[t]
         /\ \A u \in Threads : dying[u] = dying[t] => u = t
         /\ pc[t] # "free" => Deallocating(dying[t])
         /\ pc[t] = "free" =>
              side[dying[t]] = NoSide /\ referrers[dying[t]] = {}

IInv == /\ WorldTypes /\ CallTypes /\ WordTypes /\ Calls /\ Exclusive
        /\ Locked /\ Consistent /\ Followed /\ Moving /\ Registered
        /\ Alive /\ CountsAgree

-----------------------------------------------------------------------------

Higher(t) == CHOOSE x \in StoreStripes(t) : \A y \in StoreStripes(t) : x >= y

\* Of the two side tables of a store one has the higher address.
LEMMA HigherStripe ==
  ASSUME CallTypes, NEW t \in Threads
  PROVE  Higher(t) \in StoreStripes(t) /\ StoreStripes(t) \subseteq Stripes
<1>1. Stripe[obj[t]] \in Nat /\ Stripe[new[t]] \in Nat
    BY RefcountAssumption DEF CallTypes
<1>2. \E x \in StoreStripes(t) : \A y \in StoreStripes(t) : x >= y
    BY <1>1 DEF StoreStripes
<1>3. QED
    BY <1>2 DEF Higher, StoreStripes, Stripes, CallTypes

\* A store that takes one lock stays within one side table.
LEMMA OneStripe ==
  ASSUME NEW t \in Threads, Cardinality(StoreStripes(t)) = 1
  PROVE  Stripe[obj[t]] = Stripe[new[t]]
<1> DEFINE a == Stripe[obj[t]]
           b == Stripe[new[t]]
<1> SUFFICES ASSUME a # b  PROVE FALSE
    OBVIOUS
<1>1. IsFiniteSet({a}) /\ Cardinality({a}) = 1
    BY FS_Singleton
<1>2. b \notin {a} /\ 1 + 1 = 2
    OBVIOUS
<1> HIDE DEF a, b
<1>3. Cardinality({a} \cup {b}) = 2
    BY <1>1, <1>2, FS_AddElement
<1>4. StoreStripes(t) = {a} \cup {b}
    BY DEF StoreStripes, a, b
<1>5. QED
    BY <1>3, <1>4

\* What a thread locks for a store is free and one of the store's tables.
LEMMA LockStep ==
  ASSUME CallTypes, NEW t \in Threads, LockTwo(t)
  PROVE  \E s \in StoreStripes(t) \cap Stripes :
            lock[s] = NULL /\ lock' = [lock EXCEPT ![s] = t]
<1>1. CASE pc[t] = "lockold"
    BY <1>1, HigherStripe DEF LockTwo, Higher
<1>2. CASE pc[t] = "locknew"
    BY <1>2, HigherStripe DEF LockTwo
<1>3. QED
    BY <1>1, <1>2 DEF LockTwo

\* The registers of the calls keep their types.
LEMMA StepCallTypes == IInv /\ [Next]_objcVars => CallTypes'
<1> SUFFICES ASSUME IInv, [Next]_objcVars  PROVE CallTypes'
    OBVIOUS
<1> USE RefcountAssumption DEF IInv, WorldTypes, CallTypes, WordTypes, Calls,
      Places,
            Retaining, Releasing, Storing
<1> USE DEF Goto, GoOn, Return, MarkDead, objcVars, callVars
<1>1. ASSUME NEW t \in Threads, NEW o \in Objects, NEW r \in Refs,
               NEW np \in BOOLEAN, Alloc(t, o, r, np)
      PROVE  CallTypes'
    BY <1>1 DEF Alloc
<1>2. ASSUME NEW t \in Threads, NEW k \in Refs, NEW r \in Refs,
               Retain(t, k, r)
      PROVE  CallTypes'
    BY <1>2 DEF Retain
<1>3. ASSUME NEW t \in Threads, NEW r \in Refs, Release(t, r)
      PROVE  CallTypes'
    BY <1>3 DEF Release
<1>4. ASSUME NEW t \in Threads, NEW k \in Refs, MakeRaw(t, k)
      PROVE  CallTypes'
    BY <1>4 DEF MakeRaw
<1>5. ASSUME NEW t \in Threads, NEW w \in Slots,
        NEW o \in Objects \cup {NULL},
               NEW k \in Refs \cup {NULL}, StoreWeak(t, w, o, k)
      PROVE  CallTypes'
    BY <1>5 DEF StoreWeak
<1>6. ASSUME NEW t \in Threads, NEW w \in Slots, NEW r \in Refs,
               LoadWeak(t, w, r)
      PROVE  CallTypes'
    BY <1>6 DEF LoadWeak
<1>7. ASSUME NEW t \in Threads, RetainOverflow(t)
      PROVE  CallTypes'
  <2>1. obj[t] \in Objects /\ dying' = dying  BY <1>7 DEF RetainOverflow
  <2>2. CASE Goto(t, "rawretain") \/ Goto(t, "addside")  BY <2>1, <2>2
  <2>3. CASE Return(t)  BY <2>1, <2>3
  <2>4. QED  BY <1>7, <2>2, <2>3 DEF RetainOverflow
<1>8. ASSUME NEW t \in Threads, AddSide(t)
      PROVE  CallTypes'
    BY <1>8 DEF AddSide
<1>9. ASSUME NEW t \in Threads, RawRetain(t)
      PROVE  CallTypes'
    BY <1>9 DEF RawRetain
<1>10. ASSUME NEW t \in Threads, ReleaseUnderflow(t)
      PROVE  CallTypes'
  <2>1. \/ dying' = dying \/ dying' = [dying EXCEPT ![t] = obj[t]]
      BY <1>10 DEF ReleaseUnderflow
  <2>2. CASE Goto(t, "rawrelease") \/ Goto(t, "borrowed")  BY <2>1, <2>2
  <2>3. CASE Return(t)  BY <2>1, <2>3
  <2>4. QED  BY <1>10, <2>2, <2>3 DEF ReleaseUnderflow
<1>11. ASSUME NEW t \in Threads, Repay(t)
      PROVE  CallTypes'
    BY <1>11 DEF Repay
<1>12. ASSUME NEW t \in Threads, PutBack(t)
      PROVE  CallTypes'
    BY <1>12 DEF PutBack
<1>13. ASSUME NEW t \in Threads, RawRelease(t)
      PROVE  CallTypes'
    BY <1>13 DEF RawRelease
<1>14. ASSUME NEW t \in Threads, MoveExtra(t)
      PROVE  CallTypes'
    BY <1>14 DEF MoveExtra
<1>15. ASSUME NEW t \in Threads, LockTwo(t)
      PROVE  CallTypes'
    BY <1>15 DEF LockTwo
<1>16. ASSUME NEW t \in Threads, StoreRetry(t)
      PROVE  CallTypes'
    BY <1>16 DEF StoreRetry
<1>17. ASSUME NEW t \in Threads, StoreCommit(t)
      PROVE  CallTypes'
    BY <1>17 DEF StoreCommit
<1>18. ASSUME NEW t \in Threads, LoadAgain(t)
      PROVE  CallTypes'
  <2>1. slot[var[t]] \in Objects \cup {NULL} /\ dying' = dying
      BY <1>18 DEF LoadAgain
  <2>2. CASE GoOn(t, "load", slot[var[t]], keep[t], ref[t])  BY <2>1, <2>2
  <2>3. CASE Return(t)  BY <2>1, <2>3
  <2>4. QED  BY <1>18, <2>2, <2>3 DEF LoadAgain
<1>19. ASSUME NEW t \in Threads, TryRetain(t)
      PROVE  CallTypes'
  <2>1. dying' = dying  BY <1>19 DEF TryRetain
  <2>2. CASE Goto(t, "addside")  BY <2>1, <2>2
  <2>3. CASE Return(t)  BY <2>1, <2>3
  <2>4. QED  BY <1>19, <2>2, <2>3 DEF TryRetain
<1>20. ASSUME NEW t \in Threads, FastFree(t)
      PROVE  CallTypes'
    BY <1>20 DEF FastFree
<1>21. ASSUME NEW t \in Threads, ClearDeallocating(t)
      PROVE  CallTypes'
    BY <1>21 DEF ClearDeallocating
<1>22. ASSUME NEW t \in Threads, Free(t)
      PROVE  CallTypes'
    BY <1>22 DEF Free
<1>23. ASSUME UNCHANGED objcVars  PROVE CallTypes'
    BY <1>23
<1> HIDE DEF IInv, CallTypes
<1>24. QED
    BY <1>1, <1>2, <1>3, <1>4, <1>5, <1>6, <1>7, <1>8, <1>9, <1>10, <1>11,
       <1>12, <1>13, <1>14, <1>15, <1>16, <1>17, <1>18, <1>19, <1>20,
       <1>21, <1>22, <1>23 DEF Next, Begin, Continue

\* The locks, tables and references keep their types.
LEMMA StepWorldTypes == IInv /\ [Next]_objcVars => WorldTypes'
<1> SUFFICES ASSUME IInv, [Next]_objcVars  PROVE WorldTypes'
    OBVIOUS
<1> USE RefcountAssumption DEF IInv, WorldTypes, CallTypes, Calls, Stripes,
            Retaining, Releasing, Storing
<1> USE DEF Gain, Lose, Acquire, ReleaseLocks, WeakClear, objcVars, weakVars
<1>1. ASSUME NEW t \in Threads, NEW o \in Objects, NEW r \in Refs,
               NEW np \in BOOLEAN, Alloc(t, o, r, np)
      PROVE  WorldTypes'
    BY <1>1 DEF Alloc
<1>2. ASSUME NEW t \in Threads, NEW k \in Refs, NEW r \in Refs,
               Retain(t, k, r)
      PROVE  WorldTypes'
    BY <1>2 DEF Retain
<1>3. ASSUME NEW t \in Threads, NEW r \in Refs, Release(t, r)
      PROVE  WorldTypes'
    BY <1>3 DEF Release
<1>4. ASSUME NEW t \in Threads, NEW k \in Refs, MakeRaw(t, k)
      PROVE  WorldTypes'
    BY <1>4 DEF MakeRaw
<1>5. ASSUME NEW t \in Threads, NEW w \in Slots,
        NEW o \in Objects \cup {NULL},
               NEW k \in Refs \cup {NULL}, StoreWeak(t, w, o, k)
      PROVE  WorldTypes'
    BY <1>5 DEF StoreWeak
<1>6. ASSUME NEW t \in Threads, NEW w \in Slots, NEW r \in Refs,
               LoadWeak(t, w, r)
      PROVE  WorldTypes'
    BY <1>6 DEF LoadWeak
<1>7. ASSUME NEW t \in Threads, RetainOverflow(t)
      PROVE  WorldTypes'
    BY <1>7 DEF RetainOverflow
<1>8. ASSUME NEW t \in Threads, AddSide(t)
      PROVE  WorldTypes'
    BY <1>8 DEF AddSide
<1>9. ASSUME NEW t \in Threads, RawRetain(t)
      PROVE  WorldTypes'
    BY <1>9 DEF RawRetain
<1>10. ASSUME NEW t \in Threads, ReleaseUnderflow(t)
      PROVE  WorldTypes'
  <2>1. target' = target \/ Lose(ref[t])  BY <1>10 DEF ReleaseUnderflow
  <2>2. \/ ReleaseLocks(t)
        \/ Unlocked(obj[t]) /\ lock' = [lock EXCEPT ![Stripe[obj[t]]] = t]
        \/ lock' = [lock EXCEPT ![Stripe[obj[t]]] = t]
      BY <1>10 DEF ReleaseUnderflow
  <2>3. QED  BY <1>10, <2>1, <2>2 DEF ReleaseUnderflow
<1>11. ASSUME NEW t \in Threads, Repay(t)
      PROVE  WorldTypes'
    BY <1>11 DEF Repay
<1>12. ASSUME NEW t \in Threads, PutBack(t)
      PROVE  WorldTypes'
    BY <1>12 DEF PutBack
<1>13. ASSUME NEW t \in Threads, RawRelease(t)
      PROVE  WorldTypes'
    BY <1>13 DEF RawRelease
<1>14. ASSUME NEW t \in Threads, MoveExtra(t)
      PROVE  WorldTypes'
    BY <1>14 DEF MoveExtra
<1>15. ASSUME NEW t \in Threads, LockTwo(t)
      PROVE  WorldTypes'
  <2>1. PICK s \in Stripes : lock' = [lock EXCEPT ![s] = t]
      BY <1>15, LockStep
  <2>2. QED  BY <1>15, <2>1 DEF LockTwo
<1>16. ASSUME NEW t \in Threads, StoreRetry(t)
      PROVE  WorldTypes'
    BY <1>16 DEF StoreRetry
<1>17. ASSUME NEW t \in Threads, StoreCommit(t)
      PROVE  WorldTypes'
    BY <1>17 DEF StoreCommit
<1>18. ASSUME NEW t \in Threads, LoadAgain(t)
      PROVE  WorldTypes'
    BY <1>18 DEF LoadAgain
<1>19. ASSUME NEW t \in Threads, TryRetain(t)
      PROVE  WorldTypes'
    BY <1>19 DEF TryRetain
<1>20. ASSUME NEW t \in Threads, FastFree(t)
      PROVE  WorldTypes'
    BY <1>20 DEF FastFree
<1>21. ASSUME NEW t \in Threads, ClearDeallocating(t)
      PROVE  WorldTypes'
    BY <1>21 DEF ClearDeallocating
<1>22. ASSUME NEW t \in Threads, Free(t)
      PROVE  WorldTypes'
    BY <1>22 DEF Free
<1>23. ASSUME UNCHANGED objcVars  PROVE WorldTypes'
    BY <1>23
<1> HIDE DEF IInv, WorldTypes
<1>24. QED
    BY <1>1, <1>2, <1>3, <1>4, <1>5, <1>6, <1>7, <1>8, <1>9, <1>10, <1>11,
       <1>12, <1>13, <1>14, <1>15, <1>16, <1>17, <1>18, <1>19, <1>20,
       <1>21, <1>22, <1>23 DEF Next, Begin, Continue

\* A call goes on working on an object it refers to.
LEMMA StepCalls == IInv /\ [Next]_objcVars => Calls'
<1> SUFFICES ASSUME IInv, [Next]_objcVars  PROVE Calls'
    OBVIOUS
<1> USE RefcountAssumption DEF IInv, WorldTypes, CallTypes, Calls, Exclusive,
      Alive, Retaining,
            Releasing, Storing, Places
<1> USE DEF Goto, GoOn, Return, Gain, Lose, MarkDead, Idle, InUse, objcVars,
      callVars
<1>1. ASSUME NEW t \in Threads, NEW o \in Objects, NEW r \in Refs,
               NEW np \in BOOLEAN, Alloc(t, o, r, np)
      PROVE  Calls'
    BY <1>1 DEF Alloc
<1>2. ASSUME NEW t \in Threads, NEW k \in Refs, NEW r \in Refs,
               Retain(t, k, r)
      PROVE  Calls'
    BY <1>2 DEF Retain
<1>3. ASSUME NEW t \in Threads, NEW r \in Refs, Release(t, r)
      PROVE  Calls'
    BY <1>3 DEF Release
<1>4. ASSUME NEW t \in Threads, NEW k \in Refs, MakeRaw(t, k)
      PROVE  Calls'
    BY <1>4 DEF MakeRaw, WordTypes
<1>5. ASSUME NEW t \in Threads, NEW w \in Slots,
        NEW o \in Objects \cup {NULL},
               NEW k \in Refs \cup {NULL}, StoreWeak(t, w, o, k)
      PROVE  Calls'
    BY <1>5 DEF StoreWeak
<1>6. ASSUME NEW t \in Threads, NEW w \in Slots, NEW r \in Refs,
               LoadWeak(t, w, r)
      PROVE  Calls'
    BY <1>6 DEF LoadWeak
<1>7. ASSUME NEW t \in Threads, RetainOverflow(t)
      PROVE  Calls'
    BY <1>7 DEF RetainOverflow
<1>8. ASSUME NEW t \in Threads, AddSide(t)
      PROVE  Calls'
    BY <1>8 DEF AddSide
<1>9. ASSUME NEW t \in Threads, RawRetain(t)
      PROVE  Calls'
    BY <1>9 DEF RawRetain
<1>10. ASSUME NEW t \in Threads, ReleaseUnderflow(t)
      PROVE  Calls'
    BY <1>10 DEF ReleaseUnderflow
<1>11. ASSUME NEW t \in Threads, Repay(t)
      PROVE  Calls'
    BY <1>11 DEF Repay
<1>12. ASSUME NEW t \in Threads, PutBack(t)
      PROVE  Calls'
    BY <1>12 DEF PutBack
<1>13. ASSUME NEW t \in Threads, RawRelease(t)
      PROVE  Calls'
    BY <1>13 DEF RawRelease
<1>14. ASSUME NEW t \in Threads, MoveExtra(t)
      PROVE  Calls'
    BY <1>14 DEF MoveExtra
<1>15. ASSUME NEW t \in Threads, LockTwo(t)
      PROVE  Calls'
    BY <1>15 DEF LockTwo
<1>16. ASSUME NEW t \in Threads, StoreRetry(t)
      PROVE  Calls'
    BY <1>16 DEF StoreRetry
<1>17. ASSUME NEW t \in Threads, StoreCommit(t)
      PROVE  Calls'
    BY <1>17 DEF StoreCommit
<1>18. ASSUME NEW t \in Threads, LoadAgain(t)
      PROVE  Calls'
    BY <1>18 DEF LoadAgain
<1>19. ASSUME NEW t \in Threads, TryRetain(t)
      PROVE  Calls'
    BY <1>19 DEF TryRetain
<1>20. ASSUME NEW t \in Threads, FastFree(t)
      PROVE  Calls'
    BY <1>20 DEF FastFree
<1>21. ASSUME NEW t \in Threads, ClearDeallocating(t)
      PROVE  Calls'
    BY <1>21 DEF ClearDeallocating
<1>22. ASSUME NEW t \in Threads, Free(t)
      PROVE  Calls'
    BY <1>22 DEF Free
<1>23. ASSUME UNCHANGED objcVars  PROVE Calls'
    BY <1>23
<1> HIDE DEF IInv, Calls
<1>24. QED
    BY <1>1, <1>2, <1>3, <1>4, <1>5, <1>6, <1>7, <1>8, <1>9, <1>10, <1>11,
       <1>12, <1>13, <1>14, <1>15, <1>16, <1>17, <1>18, <1>19, <1>20,
       <1>21, <1>22, <1>23 DEF Next, Begin, Continue

\* No two calls make, drop or keep the same reference.
LEMMA StepExclusive == IInv /\ [Next]_objcVars => Exclusive'
<1> SUFFICES ASSUME IInv, [Next]_objcVars  PROVE Exclusive'
    OBVIOUS
<1> USE RefcountAssumption DEF IInv, WorldTypes, CallTypes, Calls, Exclusive,
      Retaining, Releasing, Storing
<1> USE DEF Goto, GoOn, Return, Idle, InUse, objcVars, callVars
<1>1. ASSUME NEW t \in Threads, NEW o \in Objects, NEW r \in Refs,
               NEW np \in BOOLEAN, Alloc(t, o, r, np)
      PROVE  Exclusive'
    BY <1>1 DEF Alloc
<1>2. ASSUME NEW t \in Threads, NEW k \in Refs, NEW r \in Refs,
               Retain(t, k, r)
      PROVE  Exclusive'
    BY <1>2 DEF Retain
<1>3. ASSUME NEW t \in Threads, NEW r \in Refs, Release(t, r)
      PROVE  Exclusive'
    BY <1>3 DEF Release
<1>4. ASSUME NEW t \in Threads, NEW k \in Refs, MakeRaw(t, k)
      PROVE  Exclusive'
    BY <1>4 DEF MakeRaw
<1>5. ASSUME NEW t \in Threads, NEW w \in Slots,
        NEW o \in Objects \cup {NULL},
               NEW k \in Refs \cup {NULL}, StoreWeak(t, w, o, k)
      PROVE  Exclusive'
    BY <1>5 DEF StoreWeak
<1>6. ASSUME NEW t \in Threads, NEW w \in Slots, NEW r \in Refs,
               LoadWeak(t, w, r)
      PROVE  Exclusive'
    BY <1>6 DEF LoadWeak
<1>7. ASSUME NEW t \in Threads, RetainOverflow(t)
      PROVE  Exclusive'
    BY <1>7 DEF RetainOverflow
<1>8. ASSUME NEW t \in Threads, AddSide(t)
      PROVE  Exclusive'
    BY <1>8 DEF AddSide
<1>9. ASSUME NEW t \in Threads, RawRetain(t)
      PROVE  Exclusive'
    BY <1>9 DEF RawRetain
<1>10. ASSUME NEW t \in Threads, ReleaseUnderflow(t)
      PROVE  Exclusive'
    BY <1>10 DEF ReleaseUnderflow
<1>11. ASSUME NEW t \in Threads, Repay(t)
      PROVE  Exclusive'
    BY <1>11 DEF Repay
<1>12. ASSUME NEW t \in Threads, PutBack(t)
      PROVE  Exclusive'
    BY <1>12 DEF PutBack
<1>13. ASSUME NEW t \in Threads, RawRelease(t)
      PROVE  Exclusive'
    BY <1>13 DEF RawRelease
<1>14. ASSUME NEW t \in Threads, MoveExtra(t)
      PROVE  Exclusive'
    BY <1>14 DEF MoveExtra
<1>15. ASSUME NEW t \in Threads, LockTwo(t)
      PROVE  Exclusive'
    BY <1>15 DEF LockTwo
<1>16. ASSUME NEW t \in Threads, StoreRetry(t)
      PROVE  Exclusive'
    BY <1>16 DEF StoreRetry
<1>17. ASSUME NEW t \in Threads, StoreCommit(t)
      PROVE  Exclusive'
    BY <1>17 DEF StoreCommit
<1>18. ASSUME NEW t \in Threads, LoadAgain(t)
      PROVE  Exclusive'
    BY <1>18 DEF LoadAgain
<1>19. ASSUME NEW t \in Threads, TryRetain(t)
      PROVE  Exclusive'
    BY <1>19 DEF TryRetain
<1>20. ASSUME NEW t \in Threads, FastFree(t)
      PROVE  Exclusive'
    BY <1>20 DEF FastFree
<1>21. ASSUME NEW t \in Threads, ClearDeallocating(t)
      PROVE  Exclusive'
    BY <1>21 DEF ClearDeallocating
<1>22. ASSUME NEW t \in Threads, Free(t)
      PROVE  Exclusive'
    BY <1>22 DEF Free
<1>23. ASSUME UNCHANGED objcVars  PROVE Exclusive'
    BY <1>23
<1> HIDE DEF IInv, Exclusive
<1>24. QED
    BY <1>1, <1>2, <1>3, <1>4, <1>5, <1>6, <1>7, <1>8, <1>9, <1>10, <1>11,
       <1>12, <1>13, <1>14, <1>15, <1>16, <1>17, <1>18, <1>19, <1>20,
       <1>21, <1>22, <1>23 DEF Next, Begin, Continue

\* Whole halves are moved at a time.
LEMMA MultiplesStep ==
  /\ 0 \in Multiples
  /\ \A n \in Multiples : n \in Nat /\ n + Half \in Multiples
  /\ \A n \in Multiples : n > 0 => n - Half \in Multiples
<1>1. 0 \in Multiples
  <2>1. 0 = 0 * Half  BY RefcountAssumption
  <2>2. QED  BY <2>1 DEF Multiples
<1>2. ASSUME NEW n \in Multiples  PROVE n \in Nat /\ n + Half \in Multiples
  <2>1. PICK k \in Nat : n = k * Half  BY DEF Multiples
  <2>2. n + Half = (k + 1) * Half  BY <2>1, RefcountAssumption
  <2>3. QED  BY <2>2, RefcountAssumption DEF Multiples
<1>3. ASSUME NEW n \in Multiples, n > 0  PROVE n - Half \in Multiples
  <2>1. PICK k \in Nat : n = k * Half  BY DEF Multiples
  <2>2. k > 0  BY <1>3, <2>1, RefcountAssumption
  <2>3. n - Half = (k - 1) * Half /\ k - 1 \in Nat
      BY <2>1, <2>2, RefcountAssumption
  <2>4. (k - 1) * Half \in Nat  BY <2>2, RefcountAssumption
  <2>5. QED  BY <2>3, <2>4 DEF Multiples
<1>4. QED  BY <1>1, <1>2, <1>3

\* Until a call lets go of a side table, no other call gets hold of it.
LEMMA StepLocked == IInv /\ [Next]_objcVars => Locked'
<1> SUFFICES ASSUME IInv, [Next]_objcVars  PROVE Locked'
    OBVIOUS
<1> USE RefcountAssumption DEF IInv, WorldTypes, CallTypes, Calls, Locked,
            Retaining, Releasing, Storing, StoreStripes, Stripes
<1> USE DEF Goto, GoOn, Return, Acquire, Unlocked, ReleaseLocks, Idle,
      objcVars, callVars
<1>1. ASSUME NEW t \in Threads, NEW o \in Objects, NEW r \in Refs,
               NEW np \in BOOLEAN, Alloc(t, o, r, np)
      PROVE  Locked'
    BY <1>1 DEF Alloc
<1>2. ASSUME NEW t \in Threads, NEW k \in Refs, NEW r \in Refs,
               Retain(t, k, r)
      PROVE  Locked'
    BY <1>2 DEF Retain
<1>3. ASSUME NEW t \in Threads, NEW r \in Refs, Release(t, r)
      PROVE  Locked'
    BY <1>3 DEF Release
<1>4. ASSUME NEW t \in Threads, NEW k \in Refs, MakeRaw(t, k)
      PROVE  Locked'
    BY <1>4 DEF MakeRaw
<1>5. ASSUME NEW t \in Threads, NEW w \in Slots,
        NEW o \in Objects \cup {NULL},
               NEW k \in Refs \cup {NULL}, StoreWeak(t, w, o, k)
      PROVE  Locked'
    BY <1>5 DEF StoreWeak
<1>6. ASSUME NEW t \in Threads, NEW w \in Slots, NEW r \in Refs,
               LoadWeak(t, w, r)
      PROVE  Locked'
    BY <1>6 DEF LoadWeak
<1>7. ASSUME NEW t \in Threads, RetainOverflow(t)
      PROVE  Locked'
    BY <1>7 DEF RetainOverflow
<1>8. ASSUME NEW t \in Threads, AddSide(t)
      PROVE  Locked'
    BY <1>8 DEF AddSide
<1>9. ASSUME NEW t \in Threads, RawRetain(t)
      PROVE  Locked'
    BY <1>9 DEF RawRetain
<1>10. ASSUME NEW t \in Threads, ReleaseUnderflow(t)
      PROVE  Locked'
    BY <1>10 DEF ReleaseUnderflow
<1>11. ASSUME NEW t \in Threads, Repay(t)
      PROVE  Locked'
    BY <1>11 DEF Repay
<1>12. ASSUME NEW t \in Threads, PutBack(t)
      PROVE  Locked'
    BY <1>12 DEF PutBack
<1>13. ASSUME NEW t \in Threads, RawRelease(t)
      PROVE  Locked'
    BY <1>13 DEF RawRelease
<1>14. ASSUME NEW t \in Threads, MoveExtra(t)
      PROVE  Locked'
    BY <1>14 DEF MoveExtra
<1>15. ASSUME NEW t \in Threads, LockTwo(t)
      PROVE  Locked'
  <2>1. PICK s \in StoreStripes(t) : lock[s] = NULL
               /\ lock' = [lock EXCEPT ![s] = t]
      BY <1>15, LockStep
  <2>2. CASE pc[t] = "locknew"  BY <1>15, <2>1, <2>2 DEF LockTwo
  <2>3. CASE pc[t] = "lockold"
    <3>1. CASE Cardinality(StoreStripes(t)) = 1
      <4>1. \A y \in StoreStripes(t) : y = s
          BY <3>1, <2>1, OneStripe
      <4>2. QED  BY <1>15, <2>1, <2>3, <3>1, <4>1 DEF LockTwo
    <3>2. CASE Cardinality(StoreStripes(t)) # 1
        BY <1>15, <2>1, <2>3, <3>2 DEF LockTwo
    <3>3. QED  BY <3>1, <3>2
  <2>4. QED  BY <1>15, <2>2, <2>3 DEF LockTwo
<1>16. ASSUME NEW t \in Threads, StoreRetry(t)
      PROVE  Locked'
    BY <1>16 DEF StoreRetry
<1>17. ASSUME NEW t \in Threads, StoreCommit(t)
      PROVE  Locked'
    BY <1>17 DEF StoreCommit
<1>18. ASSUME NEW t \in Threads, LoadAgain(t)
      PROVE  Locked'
    BY <1>18 DEF LoadAgain
<1>19. ASSUME NEW t \in Threads, TryRetain(t)
      PROVE  Locked'
    BY <1>19 DEF TryRetain
<1>20. ASSUME NEW t \in Threads, FastFree(t)
      PROVE  Locked'
    BY <1>20 DEF FastFree
<1>21. ASSUME NEW t \in Threads, ClearDeallocating(t)
      PROVE  Locked'
    BY <1>21 DEF ClearDeallocating
<1>22. ASSUME NEW t \in Threads, Free(t)
      PROVE  Locked'
    BY <1>22 DEF Free
<1>23. ASSUME UNCHANGED objcVars  PROVE Locked'
    BY <1>23
<1> HIDE DEF IInv, Locked
<1>24. QED
    BY <1>1, <1>2, <1>3, <1>4, <1>5, <1>6, <1>7, <1>8, <1>9, <1>10, <1>11,
       <1>12, <1>13, <1>14, <1>15, <1>16, <1>17, <1>18, <1>19, <1>20,
       <1>21, <1>22, <1>23 DEF Next, Begin, Continue

\* No isa turns from raw to nonpointer or forgets its side table.
KindKept ==
    \A o \in Objects : /\ isa'[o].nonpointer = isa[o].nonpointer
                       /\ isa[o].sided => isa'[o].sided

LEMMA KeepsKind ==
  ASSUME WordTypes, NEW o \in Objects
  PROVE  /\ \A n : Count(o, n) => KindKept
         /\ Spill(o) /\ isa[o].nonpointer =>
              KindKept /\ isa'[o].nonpointer /\ isa'[o].sided
         /\ \A t : MarkDead(t, o) => KindKept
         /\ SetWeakly(o) => KindKept
<1> USE DEF WordTypes, Words, KindKept
<1>1. ASSUME NEW n, Count(o, n)  PROVE KindKept
    BY <1>1 DEF Count
<1>2. ASSUME Spill(o), isa[o].nonpointer
      PROVE  KindKept /\ isa'[o].nonpointer /\ isa'[o].sided
    BY <1>2 DEF Spill
<1>3. ASSUME NEW t, MarkDead(t, o)  PROVE KindKept
    BY <1>3 DEF MarkDead
<1>4. ASSUME SetWeakly(o)  PROVE KindKept
    BY <1>4 DEF SetWeakly
<1>5. QED
    BY <1>1, <1>2, <1>3, <1>4

LEMMA UnchangedKeepsKind == UNCHANGED isa => KindKept
  BY DEF KindKept

\* The branch a call took on the kind of an isa stays the right one.
LEMMA StepFollowed == IInv /\ [Next]_objcVars => Followed'
<1> SUFFICES ASSUME IInv, [Next]_objcVars  PROVE Followed'
    OBVIOUS
<1> USE RefcountAssumption DEF IInv, WorldTypes, CallTypes, WordTypes,
            Calls, Locked, Followed, Alive, Retaining, Releasing, Storing
<1> USE DEF Goto, GoOn, Return, Acquire, Unlocked, Idle, FreshIsa, objcVars,
      isaVars, callVars
<1>1. ASSUME NEW t \in Threads, NEW o \in Objects, NEW r \in Refs,
               NEW np \in BOOLEAN, Alloc(t, o, r, np)
      PROVE  Followed'
    BY <1>1 DEF Alloc
<1>2. ASSUME NEW t \in Threads, NEW k \in Refs, NEW r \in Refs,
               Retain(t, k, r)
      PROVE  Followed'
  <2>1. KindKept  BY <1>2, KeepsKind, UnchangedKeepsKind DEF Retain
  <2>2. QED  BY <1>2, <2>1 DEF KindKept, Retain
<1>3. ASSUME NEW t \in Threads, NEW r \in Refs, Release(t, r)
      PROVE  Followed'
  <2>1. KindKept  BY <1>3, KeepsKind, UnchangedKeepsKind DEF Release
  <2>2. QED  BY <1>3, <2>1 DEF KindKept, Release
<1>4. ASSUME NEW t \in Threads, NEW k \in Refs, MakeRaw(t, k)
      PROVE  Followed'
    BY <1>4 DEF MakeRaw
<1>5. ASSUME NEW t \in Threads, NEW w \in Slots,
        NEW o \in Objects \cup {NULL},
               NEW k \in Refs \cup {NULL}, StoreWeak(t, w, o, k)
      PROVE  Followed'
    BY <1>5 DEF StoreWeak
<1>6. ASSUME NEW t \in Threads, NEW w \in Slots, NEW r \in Refs,
               LoadWeak(t, w, r)
      PROVE  Followed'
    BY <1>6 DEF LoadWeak
<1>7. ASSUME NEW t \in Threads, RetainOverflow(t)
      PROVE  Followed'
  <2>1. KindKept  BY <1>7, KeepsKind, UnchangedKeepsKind DEF RetainOverflow
  <2>2. pc'[t] = "addside" => isa'[obj[t]].nonpointer /\ isa'[obj[t]].sided
      BY <1>7, KeepsKind DEF RetainOverflow
  <2>3. QED  BY <1>7, <2>1, <2>2 DEF KindKept, RetainOverflow
<1>8. ASSUME NEW t \in Threads, AddSide(t)
      PROVE  Followed'
    BY <1>8 DEF AddSide
<1>9. ASSUME NEW t \in Threads, RawRetain(t)
      PROVE  Followed'
    BY <1>9 DEF RawRetain
<1>10. ASSUME NEW t \in Threads, ReleaseUnderflow(t)
      PROVE  Followed'
  <2>1. KindKept  BY <1>10, KeepsKind, UnchangedKeepsKind DEF ReleaseUnderflow
  <2>2. /\ pc'[t] = "rawrelease" => ~isa[obj[t]].nonpointer
        /\ pc'[t] = "borrowed" => isa[obj[t]].nonpointer /\ isa[obj[t]].sided
        /\ pc'[t] \notin {"addside", "rawretain", "move"}
        /\ obj'[t] = IF pc'[t] = "idle" THEN NULL ELSE obj[t]
      BY <1>10 DEF ReleaseUnderflow, Consistent, Fits
  <2>3. \A u \in Threads : u # t => pc'[u] = pc[u] /\ obj'[u] = obj[u]
      BY <1>10 DEF ReleaseUnderflow
  <2>4. \A u \in Threads : obj[u] \notin Objects => pc[u] \notin {"addside",
          "borrowed", "rawretain", "rawrelease", "move"}
      OBVIOUS
  <2>5. obj[t] \in Objects  BY <1>10 DEF ReleaseUnderflow
  <2>6. QED  BY <2>1, <2>2, <2>3, <2>4, <2>5 DEF KindKept
<1>11. ASSUME NEW t \in Threads, Repay(t)
      PROVE  Followed'
  <2>1. KindKept  BY <1>11, KeepsKind, UnchangedKeepsKind DEF Repay
  <2>2. QED  BY <1>11, <2>1 DEF KindKept, Repay
<1>12. ASSUME NEW t \in Threads, PutBack(t)
      PROVE  Followed'
    BY <1>12 DEF PutBack
<1>13. ASSUME NEW t \in Threads, RawRelease(t)
      PROVE  Followed'
    BY <1>13 DEF RawRelease
<1>14. ASSUME NEW t \in Threads, MoveExtra(t)
      PROVE  Followed'
    BY <1>14 DEF MoveExtra
<1>15. ASSUME NEW t \in Threads, LockTwo(t)
      PROVE  Followed'
    BY <1>15 DEF LockTwo
<1>16. ASSUME NEW t \in Threads, StoreRetry(t)
      PROVE  Followed'
    BY <1>16 DEF StoreRetry
<1>17. ASSUME NEW t \in Threads, StoreCommit(t)
      PROVE  Followed'
  <2>1. KindKept  BY <1>17, KeepsKind, UnchangedKeepsKind DEF StoreCommit
  <2>2. QED  BY <1>17, <2>1 DEF KindKept, StoreCommit
<1>18. ASSUME NEW t \in Threads, LoadAgain(t)
      PROVE  Followed'
    BY <1>18 DEF LoadAgain
<1>19. ASSUME NEW t \in Threads, TryRetain(t)
      PROVE  Followed'
  <2>1. KindKept  BY <1>19, KeepsKind, UnchangedKeepsKind DEF TryRetain
  <2>2. pc'[t] = "addside" => isa'[obj[t]].nonpointer /\ isa'[obj[t]].sided
    <3>1. SUFFICES ASSUME pc'[t] = "addside"
                   PROVE  isa'[obj[t]].nonpointer /\ isa'[obj[t]].sided
        OBVIOUS
    <3>2. obj[t] \in Objects /\ isa[obj[t]].nonpointer /\ Spill(obj[t])
        BY <1>19, <3>1 DEF TryRetain, Return
    <3>3. QED
        BY <3>2 DEF Spill, Words
  <2>3. QED  BY <1>19, <2>1, <2>2 DEF KindKept, TryRetain
<1>20. ASSUME NEW t \in Threads, FastFree(t)
      PROVE  Followed'
    BY <1>20 DEF FastFree
<1>21. ASSUME NEW t \in Threads, ClearDeallocating(t)
      PROVE  Followed'
    BY <1>21 DEF ClearDeallocating
<1>22. ASSUME NEW t \in Threads, Free(t)
      PROVE  Followed'
    BY <1>22 DEF Free
<1>23. ASSUME UNCHANGED objcVars  PROVE Followed'
    BY <1>23
<1> HIDE DEF IInv, Followed
<1>24. QED
    BY <1>1, <1>2, <1>3, <1>4, <1>5, <1>6, <1>7, <1>8, <1>9, <1>10, <1>11,
       <1>12, <1>13, <1>14, <1>15, <1>16, <1>17, <1>18, <1>19, <1>20,
       <1>21, <1>22, <1>23 DEF Next, Begin, Continue

-----------------------------------------------------------------------------
(* The isa words and the entries of the side tables                        *)

\* The isa word of o alone changes, to one with these fields.
IsaBecomes(o, nonpointer, extra, sided, dealloc, weakly) ==
    /\ isa' = [isa EXCEPT ![o] = isa'[o]] /\ isa'[o] \in Words
    /\ isa'[o].nonpointer = nonpointer /\ isa'[o].extra = extra
    /\ isa'[o].sided = sided /\ isa'[o].dealloc = dealloc
    /\ isa'[o].weakly = weakly

\* The same of the entry of o in the side table.
SideBecomes(o, rc, dealloc, weakly) ==
    /\ side' = [side EXCEPT ![o] = side'[o]] /\ side'[o] \in Entries
    /\ side'[o].rc = rc /\ side'[o].dealloc = dealloc
    /\ side'[o].weakly = weakly

IsaStays(o) == IsaBecomes(o, isa[o].nonpointer, isa[o].extra, isa[o].sided,
                          isa[o].dealloc, isa[o].weakly)
SideStays(o) == SideBecomes(o, side[o].rc, side[o].dealloc, side[o].weakly)

Counted(o, n) == IsaBecomes(o, isa[o].nonpointer, n, isa[o].sided,
                            isa[o].dealloc, isa[o].weakly)

\* The words of o are rewritten so that they fit together.
Rewrites(o) ==
    /\ isa' = [isa EXCEPT ![o] = isa'[o]] /\ isa'[o] \in Words
    /\ side' = [side EXCEPT ![o] = side'[o]] /\ side'[o] \in Entries
    /\ Fits(isa'[o], side'[o])

\* If the words of one object are rewritten, those of the others still fit.
LEMMA RewritesKeep ==
  ASSUME WordTypes, Consistent, NEW o \in Objects, Rewrites(o),
         \A p \in Objects \ {o} : memory'[p] = "live" => memory[p] = "live"
  PROVE  WordTypes' /\ Consistent'
<1>1. WordTypes'
    BY DEF WordTypes, Rewrites
<1>2. ASSUME NEW p \in Objects, memory'[p] = "live"
      PROVE  Fits(isa'[p], side'[p])
    BY <1>2 DEF WordTypes, Rewrites, Consistent
<1>3. QED
    BY <1>1, <1>2 DEF Consistent

LEMMA WordsStay ==
  ASSUME WordTypes, Consistent, UNCHANGED <<isa, side>>,
         \A p \in Objects : memory'[p] = "live" => memory[p] = "live"
  PROVE  WordTypes' /\ Consistent'
  BY DEF WordTypes, Consistent

\* What the operators of the model write.
LEMMA IsaWrites ==
  ASSUME WordTypes, NEW o \in Objects
  PROVE  /\ isa' = isa => IsaStays(o)
         /\ \A n \in 0 .. Most : Count(o, n) => Counted(o, n)
         /\ Spill(o) => IsaBecomes(o, isa[o].nonpointer, Half, TRUE,
                                   isa[o].dealloc, isa[o].weakly)
         /\ \A t : MarkDead(t, o) =>
              IsaBecomes(o, isa[o].nonpointer, isa[o].extra, isa[o].sided,
                         TRUE, isa[o].weakly)
         /\ isa' = [isa EXCEPT ![o].weakly = TRUE] =>
              IsaBecomes(o, isa[o].nonpointer, isa[o].extra, isa[o].sided,
                         isa[o].dealloc, TRUE)
         /\ \A np \in BOOLEAN : isa' = [isa EXCEPT ![o] = FreshIsa(np)] =>
              IsaBecomes(o, np, 0, FALSE, FALSE, FALSE)
<1> USE RefcountAssumption DEF WordTypes, Words, Most, IsaBecomes
<1>1. isa' = isa => IsaStays(o)
    BY DEF IsaStays
<1>2. ASSUME NEW n \in 0 .. Most, Count(o, n)  PROVE Counted(o, n)
    BY <1>2 DEF Count, Counted
<1>3. ASSUME Spill(o)
      PROVE  IsaBecomes(o, isa[o].nonpointer, Half, TRUE, isa[o].dealloc,
                        isa[o].weakly)
  <2>1. Half \in 0 .. Most
      OBVIOUS
  <2>2. isa' = [isa EXCEPT ![o] = [isa[o] EXCEPT !.extra = Half,
          !.sided = TRUE]]
      BY <1>3 DEF Spill
  <2>3. QED
      BY <2>1, <2>2
<1>4. ASSUME NEW t, MarkDead(t, o)
      PROVE  IsaBecomes(o, isa[o].nonpointer, isa[o].extra, isa[o].sided,
                        TRUE, isa[o].weakly)
    BY <1>4 DEF MarkDead
<1>5. ASSUME NEW np \in BOOLEAN, isa' = [isa EXCEPT ![o] = FreshIsa(np)]
      PROVE  IsaBecomes(o, np, 0, FALSE, FALSE, FALSE)
    BY <1>5 DEF FreshIsa
<1>6. ASSUME isa' = [isa EXCEPT ![o].weakly = TRUE]
      PROVE  IsaBecomes(o, isa[o].nonpointer, isa[o].extra, isa[o].sided,
                        isa[o].dealloc, TRUE)
    BY <1>6
<1> HIDE DEF WordTypes, Words, Most, IsaBecomes
<1>7. QED
    BY <1>1, <1>2, <1>3, <1>4, <1>5, <1>6

LEMMA SideWrites ==
  ASSUME WordTypes, NEW o \in Objects
  PROVE  /\ side' = side => SideStays(o)
         /\ \A n \in Nat : side' = [side EXCEPT ![o].rc = n] =>
              SideBecomes(o, n, side[o].dealloc, side[o].weakly)
         /\ side' = [side EXCEPT ![o].dealloc = TRUE] =>
              SideBecomes(o, side[o].rc, TRUE, side[o].weakly)
         /\ side' = [side EXCEPT ![o].weakly = TRUE] =>
              SideBecomes(o, side[o].rc, side[o].dealloc, TRUE)
         /\ side' = [side EXCEPT ![o] = NoSide] =>
              SideBecomes(o, 0, FALSE, FALSE)
<1> USE DEF WordTypes, Entries, SideBecomes
<1>1. side' = side => SideStays(o)
    BY DEF SideStays
<1>2. ASSUME NEW n \in Nat, side' = [side EXCEPT ![o].rc = n]
      PROVE  SideBecomes(o, n, side[o].dealloc, side[o].weakly)
    BY <1>2
<1>3. ASSUME side' = [side EXCEPT ![o].dealloc = TRUE]
      PROVE  SideBecomes(o, side[o].rc, TRUE, side[o].weakly)
    BY <1>3
<1>4. ASSUME side' = [side EXCEPT ![o].weakly = TRUE]
      PROVE  SideBecomes(o, side[o].rc, side[o].dealloc, TRUE)
    BY <1>4
<1>5. ASSUME side' = [side EXCEPT ![o] = NoSide]
      PROVE  SideBecomes(o, 0, FALSE, FALSE)
    BY <1>5 DEF NoSide
<1> HIDE DEF WordTypes, Entries, SideBecomes
<1>6. QED
    BY <1>1, <1>2, <1>3, <1>4, <1>5

\* The fields of the words are numbers of the width of theirs.
LEMMA FieldTypes ==
  ASSUME WordTypes
  PROVE  /\ \A o \in Objects : /\ isa[o].extra \in 0 .. Most
                               /\ side[o].rc \in Nat
         /\ Most \in Nat /\ Half \in 0 .. Most
  BY RefcountAssumption DEF WordTypes, Words, Entries, Most

\* The words keep fitting together if the count changes in a nonpointer isa,
\* whole halves go to and from the side table, and a raw isa stays one.
LEMMA RewriteCases ==
  ASSUME WordTypes, NEW o \in Objects, Fits(isa[o], side[o])
  PROVE  /\ IsaStays(o) /\ SideStays(o) => Rewrites(o)
         /\ \A n, s, d, w :
              isa[o].nonpointer /\ IsaBecomes(o, TRUE, n, s, d, w)
                /\ (isa[o].sided => s) /\ SideStays(o)
              => Rewrites(o)
         /\ \A d, w : IsaBecomes(o, FALSE, 0, FALSE, d, w) /\ SideStays(o)
                        => Rewrites(o)
         /\ \A n, d, w : ~isa[o].nonpointer /\ IsaStays(o) /\ SideBecomes(o,
              n, d, w)
                        => Rewrites(o)
         /\ \A n \in Multiples :
              isa[o].nonpointer /\ isa[o].sided /\ IsaStays(o)
                /\ SideBecomes(o, n, side[o].dealloc, side[o].weakly)
              => Rewrites(o)
         /\ IsaStays(o) /\ SideBecomes(o, 0, FALSE, FALSE) => Rewrites(o)
<1> USE MultiplesStep
        DEF IsaStays, SideStays, IsaBecomes, SideBecomes, Rewrites, Fits
<1>1. IsaStays(o) /\ SideStays(o) => Rewrites(o)
    OBVIOUS
<1>2. ASSUME NEW n, NEW s, NEW d, NEW w, isa[o].nonpointer,
             IsaBecomes(o, TRUE, n, s, d, w), isa[o].sided => s, SideStays(o)
      PROVE  Rewrites(o)
    BY <1>2
<1>3. ASSUME NEW d, NEW w, IsaBecomes(o, FALSE, 0, FALSE, d, w), SideStays(o)
      PROVE  Rewrites(o)
    BY <1>3
<1>4. ASSUME NEW n, NEW d, NEW w, ~isa[o].nonpointer, IsaStays(o),
             SideBecomes(o, n, d, w)
      PROVE  Rewrites(o)
    BY <1>4
<1>5. ASSUME NEW n \in Multiples, isa[o].nonpointer, isa[o].sided,
        IsaStays(o),
             SideBecomes(o, n, side[o].dealloc, side[o].weakly)
      PROVE  Rewrites(o)
    BY <1>5
<1>6. IsaStays(o) /\ SideBecomes(o, 0, FALSE, FALSE) => Rewrites(o)
    OBVIOUS
<1> HIDE DEF IsaStays, SideStays, IsaBecomes, SideBecomes, Rewrites, Fits
<1>7. QED
    BY <1>1, <1>2, <1>3, <1>4, <1>5, <1>6

\* The isa word and the side table of an object keep fitting together.
LEMMA StepConsistent == IInv /\ [Next]_objcVars => WordTypes' /\ Consistent'
<1> SUFFICES ASSUME IInv, [Next]_objcVars  PROVE WordTypes' /\ Consistent'
    OBVIOUS
<1> USE RefcountAssumption, MultiplesStep
<1> USE DEF IInv, WorldTypes, CallTypes, Retaining, Releasing, Storing,
      objcVars, isaVars
<1>1. ASSUME NEW t \in Threads, NEW o \in Objects, NEW r \in Refs,
               NEW np \in BOOLEAN, Alloc(t, o, r, np)
      PROVE  WordTypes' /\ Consistent'
  <2>1. side[o] = NoSide /\ side[o].rc = 0 /\ ~side[o].dealloc
          /\ ~side[o].weakly
        /\ side' = side /\ isa' = [isa EXCEPT ![o] = FreshIsa(np)]
      BY <1>1 DEF Alloc, Registered, NoSide
  <2>2. Rewrites(o)
      BY <2>1, IsaWrites, SideWrites, MultiplesStep
         DEF Rewrites, IsaBecomes, SideStays, SideBecomes, Fits
  <2>3. \A p \in Objects \ {o} : memory'[p] = "live" => memory[p] = "live"
      BY <1>1 DEF Alloc
  <2>4. QED  BY <2>2, <2>3, RewritesKeep
<1>2. ASSUME NEW t \in Threads, NEW k \in Refs, NEW r \in Refs,
               Retain(t, k, r)
      PROVE  WordTypes' /\ Consistent'
  <2>1. target[k] \in Objects /\ memory[target[k]] = "live"
          /\ memory' = memory
      BY <1>2 DEF Retain, Calls, Alive
  <2>2. /\ Fits(isa[target[k]], side[target[k]])
        /\ isa[target[k]].extra \in 0 .. Most /\ side[target[k]].rc \in Nat
      BY <2>1, FieldTypes DEF Consistent
  <2>3. ASSUME isa[target[k]].nonpointer,
          isa[target[k]].extra + 1 \in 0 .. Most,
               Count(target[k], isa[target[k]].extra + 1), side' = side
        PROVE  Rewrites(target[k])
      BY <2>1, <2>2, <2>3, IsaWrites, SideWrites, RewriteCases DEF Counted
  <2>4. ASSUME isa' = isa, side' = side
        PROVE  Rewrites(target[k])
      BY <2>1, <2>2, <2>4, IsaWrites, SideWrites, RewriteCases
  <2>5. Rewrites(target[k])
    <3>1. \/ isa[target[k]].nonpointer
               /\ isa[target[k]].extra + 1 \in 0 .. Most /\ Count(target[k],
               isa[target[k]].extra + 1) /\ side' = side
          \/ isa' = isa /\ side' = side
        BY <1>2, <2>1, <2>2 DEF Retain, Fits, Most
    <3>2. CASE isa[target[k]].nonpointer
                 /\ isa[target[k]].extra + 1 \in 0 .. Most
                 /\ Count(target[k], isa[target[k]].extra + 1) /\ side' = side
        BY <3>2, <2>3
    <3>3. CASE isa' = isa /\ side' = side
        BY <3>3, <2>4
    <3> QED  BY <3>1, <3>2, <3>3
  <2>6. QED  BY <2>1, <2>5, RewritesKeep
<1>3. ASSUME NEW t \in Threads, NEW r \in Refs, Release(t, r)
      PROVE  WordTypes' /\ Consistent'
  <2>1. target[r] \in Objects /\ memory[target[r]] = "live"
          /\ memory' = memory
      BY <1>3 DEF Release, Calls, Alive
  <2>2. /\ Fits(isa[target[r]], side[target[r]])
        /\ isa[target[r]].extra \in 0 .. Most /\ side[target[r]].rc \in Nat
      BY <2>1, FieldTypes DEF Consistent
  <2>3. ASSUME isa[target[r]].nonpointer,
          isa[target[r]].extra - 1 \in 0 .. Most,
               Count(target[r], isa[target[r]].extra - 1), side' = side
        PROVE  Rewrites(target[r])
      BY <2>1, <2>2, <2>3, IsaWrites, SideWrites, RewriteCases DEF Counted
  <2>4. ASSUME isa[target[r]].nonpointer, MarkDead(t, target[r]), side' = side
        PROVE  Rewrites(target[r])
    <3>1. IsaBecomes(target[r], TRUE, isa[target[r]].extra,
            isa[target[r]].sided, TRUE,
                     isa[target[r]].weakly)
        BY <2>1, <2>4, IsaWrites
    <3>2. SideStays(target[r])
        BY <2>1, <2>4, SideWrites
    <3>3. QED
        BY <2>2, <2>4, <3>1, <3>2
           DEF Rewrites, IsaBecomes, SideStays, SideBecomes, Fits
  <2>5. ASSUME isa' = isa, side' = side
        PROVE  Rewrites(target[r])
      BY <2>1, <2>2, <2>5, IsaWrites, SideWrites, RewriteCases
  <2>6. Rewrites(target[r])
    <3>1. \/ isa[target[r]].nonpointer
               /\ isa[target[r]].extra - 1 \in 0 .. Most /\ Count(target[r],
               isa[target[r]].extra - 1) /\ side' = side
          \/ isa[target[r]].nonpointer /\ MarkDead(t, target[r])
               /\ side' = side
          \/ isa' = isa /\ side' = side
        BY <1>3, <2>1, <2>2 DEF Release, Fits, Most
    <3>2. CASE isa[target[r]].nonpointer
                 /\ isa[target[r]].extra - 1 \in 0 .. Most
                 /\ Count(target[r], isa[target[r]].extra - 1) /\ side' = side
        BY <3>2, <2>3
    <3>3. CASE isa[target[r]].nonpointer /\ MarkDead(t, target[r])
                 /\ side' = side
        BY <3>3, <2>4
    <3>4. CASE isa' = isa /\ side' = side
        BY <3>4, <2>5
    <3> QED  BY <3>1, <3>2, <3>3, <3>4
  <2>7. QED  BY <2>1, <2>6, RewritesKeep
<1>4. ASSUME NEW t \in Threads, NEW k \in Refs, MakeRaw(t, k)
      PROVE  WordTypes' /\ Consistent'
  <2>1. target[k] \in Objects /\ memory[target[k]] = "live"
          /\ memory' = memory
      BY <1>4 DEF MakeRaw, Calls, Alive
  <2>2. /\ Fits(isa[target[k]], side[target[k]])
        /\ isa[target[k]].extra \in 0 .. Most /\ side[target[k]].rc \in Nat
      BY <2>1, FieldTypes DEF Consistent
  <2>3. ASSUME isa' = [isa EXCEPT ![target[k]] = FreshIsa(FALSE)],
          side' = side
        PROVE  Rewrites(target[k])
      BY <2>1, <2>2, <2>3, IsaWrites, SideWrites, RewriteCases
  <2>4. Rewrites(target[k])
      BY <1>4, <2>1, <2>2, <2>3 DEF MakeRaw, Fits
  <2>5. QED  BY <2>1, <2>4, RewritesKeep
<1>5. ASSUME NEW t \in Threads, NEW w \in Slots,
        NEW o \in Objects \cup {NULL},
               NEW k \in Refs \cup {NULL}, StoreWeak(t, w, o, k)
      PROVE  WordTypes' /\ Consistent'
    BY <1>5, WordsStay DEF StoreWeak
<1>6. ASSUME NEW t \in Threads, NEW w \in Slots, NEW r \in Refs,
               LoadWeak(t, w, r)
      PROVE  WordTypes' /\ Consistent'
    BY <1>6, WordsStay DEF LoadWeak
<1>7. ASSUME NEW t \in Threads, RetainOverflow(t)
      PROVE  WordTypes' /\ Consistent'
  <2>1. obj[t] \in Objects /\ memory[obj[t]] = "live" /\ memory' = memory
      BY <1>7 DEF RetainOverflow, Calls, Alive
  <2>2. /\ Fits(isa[obj[t]], side[obj[t]])
        /\ isa[obj[t]].extra \in 0 .. Most /\ side[obj[t]].rc \in Nat
      BY <2>1, FieldTypes DEF Consistent
  <2>3. ASSUME isa[obj[t]].nonpointer, isa[obj[t]].extra + 1 \in 0 .. Most,
               Count(obj[t], isa[obj[t]].extra + 1), side' = side
        PROVE  Rewrites(obj[t])
      BY <2>1, <2>2, <2>3, IsaWrites, SideWrites, RewriteCases DEF Counted
  <2>4. ASSUME isa[obj[t]].nonpointer, Spill(obj[t]), side' = side
        PROVE  Rewrites(obj[t])
      BY <2>1, <2>2, <2>4, IsaWrites, SideWrites, RewriteCases
  <2>5. ASSUME isa' = isa, side' = side
        PROVE  Rewrites(obj[t])
      BY <2>1, <2>2, <2>5, IsaWrites, SideWrites, RewriteCases
  <2>6. Rewrites(obj[t])
    <3>1. \/ isa[obj[t]].nonpointer /\ isa[obj[t]].extra + 1 \in 0 .. Most
               /\ Count(obj[t], isa[obj[t]].extra + 1) /\ side' = side
          \/ isa[obj[t]].nonpointer /\ Spill(obj[t]) /\ side' = side
          \/ isa' = isa /\ side' = side
        BY <1>7, <2>1, <2>2 DEF RetainOverflow, Fits, Most
    <3>2. CASE isa[obj[t]].nonpointer
                 /\ isa[obj[t]].extra + 1 \in 0 .. Most /\ Count(obj[t],
                 isa[obj[t]].extra + 1) /\ side' = side
        BY <3>2, <2>3
    <3>3. CASE isa[obj[t]].nonpointer /\ Spill(obj[t]) /\ side' = side
        BY <3>3, <2>4
    <3>4. CASE isa' = isa /\ side' = side
        BY <3>4, <2>5
    <3> QED  BY <3>1, <3>2, <3>3, <3>4
  <2>7. QED  BY <2>1, <2>6, RewritesKeep
<1>8. ASSUME NEW t \in Threads, AddSide(t)
      PROVE  WordTypes' /\ Consistent'
  <2>1. obj[t] \in Objects /\ memory[obj[t]] = "live" /\ memory' = memory
      BY <1>8 DEF AddSide, Calls, Alive
  <2>2. /\ Fits(isa[obj[t]], side[obj[t]])
        /\ isa[obj[t]].extra \in 0 .. Most /\ side[obj[t]].rc \in Nat
      BY <2>1, FieldTypes DEF Consistent
  <2>3. ASSUME isa[obj[t]].nonpointer, isa[obj[t]].sided, isa' = isa,
               side[obj[t]].rc + Half \in Multiples,
                 side' = [side EXCEPT ![obj[t]].rc = side[obj[t]].rc + Half]
        PROVE  Rewrites(obj[t])
      BY <2>1, <2>2, <2>3, IsaWrites, SideWrites, RewriteCases DEF Multiples
  <2>4. Rewrites(obj[t])
      BY <1>8, <2>1, <2>2, <2>3 DEF AddSide, Fits, Followed
  <2>5. QED  BY <2>1, <2>4, RewritesKeep
<1>9. ASSUME NEW t \in Threads, RawRetain(t)
      PROVE  WordTypes' /\ Consistent'
  <2>1. obj[t] \in Objects /\ memory[obj[t]] = "live" /\ memory' = memory
      BY <1>9 DEF RawRetain, Calls, Alive
  <2>2. /\ Fits(isa[obj[t]], side[obj[t]])
        /\ isa[obj[t]].extra \in 0 .. Most /\ side[obj[t]].rc \in Nat
      BY <2>1, FieldTypes DEF Consistent
  <2>3. ASSUME ~isa[obj[t]].nonpointer, side[obj[t]].rc + 1 \in Nat,
          isa' = isa,
               side' = [side EXCEPT ![obj[t]].rc = side[obj[t]].rc + 1]
        PROVE  Rewrites(obj[t])
      BY <2>1, <2>2, <2>3, IsaWrites, SideWrites, RewriteCases
  <2>4. Rewrites(obj[t])
      BY <1>9, <2>1, <2>2, <2>3 DEF RawRetain, Fits, Followed
  <2>5. QED  BY <2>1, <2>4, RewritesKeep
<1>10. ASSUME NEW t \in Threads, ReleaseUnderflow(t)
      PROVE  WordTypes' /\ Consistent'
  <2>1. obj[t] \in Objects /\ memory[obj[t]] = "live" /\ memory' = memory
      BY <1>10 DEF ReleaseUnderflow, Calls, Alive
  <2>2. /\ Fits(isa[obj[t]], side[obj[t]])
        /\ isa[obj[t]].extra \in 0 .. Most /\ side[obj[t]].rc \in Nat
      BY <2>1, FieldTypes DEF Consistent
  <2>3. ASSUME isa[obj[t]].nonpointer, isa[obj[t]].extra - 1 \in 0 .. Most,
               Count(obj[t], isa[obj[t]].extra - 1), side' = side
        PROVE  Rewrites(obj[t])
      BY <2>1, <2>2, <2>3, IsaWrites, SideWrites, RewriteCases DEF Counted
  <2>4. ASSUME isa[obj[t]].nonpointer, isa[obj[t]].sided, isa' = isa,
               side[obj[t]].rc - Half \in Multiples,
                 side' = [side EXCEPT ![obj[t]].rc = side[obj[t]].rc - Half]
        PROVE  Rewrites(obj[t])
      BY <2>1, <2>2, <2>4, IsaWrites, SideWrites, RewriteCases DEF Multiples
  <2>5. ASSUME isa[obj[t]].nonpointer, MarkDead(t, obj[t]), side' = side
        PROVE  Rewrites(obj[t])
    <3>1. IsaBecomes(obj[t], TRUE, isa[obj[t]].extra, isa[obj[t]].sided, TRUE,
                     isa[obj[t]].weakly)
        BY <2>1, <2>5, IsaWrites
    <3>2. SideStays(obj[t])
        BY <2>1, <2>5, SideWrites
    <3>3. QED
        BY <2>2, <2>5, <3>1, <3>2
           DEF Rewrites, IsaBecomes, SideStays, SideBecomes, Fits
  <2>6. ASSUME isa' = isa, side' = side
        PROVE  Rewrites(obj[t])
      BY <2>1, <2>2, <2>6, IsaWrites, SideWrites, RewriteCases
  <2>7. Rewrites(obj[t])
    <3>1. \/ isa[obj[t]].nonpointer /\ isa[obj[t]].extra - 1 \in 0 .. Most
               /\ Count(obj[t], isa[obj[t]].extra - 1) /\ side' = side
          \/ isa[obj[t]].nonpointer /\ isa[obj[t]].sided /\ isa' = isa
               /\ side[obj[t]].rc - Half \in Multiples
               /\ side' = [side EXCEPT ![obj[t]].rc = side[obj[t]].rc - Half]
          \/ isa[obj[t]].nonpointer /\ MarkDead(t, obj[t]) /\ side' = side
          \/ isa' = isa /\ side' = side
        BY <1>10, <2>1, <2>2 DEF ReleaseUnderflow, Fits, Most
    <3>2. CASE isa[obj[t]].nonpointer
                 /\ isa[obj[t]].extra - 1 \in 0 .. Most /\ Count(obj[t],
                 isa[obj[t]].extra - 1) /\ side' = side
        BY <3>2, <2>3
    <3>3. CASE isa[obj[t]].nonpointer /\ isa[obj[t]].sided /\ isa' = isa
                 /\ side[obj[t]].rc - Half \in Multiples
                 /\ side' = [side EXCEPT ![obj[t]].rc = side[obj[t]].rc - Half]
        BY <3>3, <2>4
    <3>4. CASE isa[obj[t]].nonpointer /\ MarkDead(t, obj[t]) /\ side' = side
        BY <3>4, <2>5
    <3>5. CASE isa' = isa /\ side' = side
        BY <3>5, <2>6
    <3> QED  BY <3>1, <3>2, <3>3, <3>4, <3>5
  <2>8. QED  BY <2>1, <2>7, RewritesKeep
<1>11. ASSUME NEW t \in Threads, Repay(t)
      PROVE  WordTypes' /\ Consistent'
  <2>1. obj[t] \in Objects /\ memory[obj[t]] = "live" /\ memory' = memory
      BY <1>11 DEF Repay, Calls, Alive
  <2>2. /\ Fits(isa[obj[t]], side[obj[t]])
        /\ isa[obj[t]].extra \in 0 .. Most /\ side[obj[t]].rc \in Nat
      BY <2>1, FieldTypes DEF Consistent
  <2>3. ASSUME isa[obj[t]].nonpointer,
          isa[obj[t]].extra + Half - 1 \in 0 .. Most,
               Count(obj[t], isa[obj[t]].extra + Half - 1), side' = side
        PROVE  Rewrites(obj[t])
      BY <2>1, <2>2, <2>3, IsaWrites, SideWrites, RewriteCases DEF Counted
  <2>4. Rewrites(obj[t])
      BY <1>11, <2>1, <2>2, <2>3 DEF Repay, Fits, Followed
  <2>5. QED  BY <2>1, <2>4, RewritesKeep
<1>12. ASSUME NEW t \in Threads, PutBack(t)
      PROVE  WordTypes' /\ Consistent'
  <2>1. obj[t] \in Objects /\ memory[obj[t]] = "live" /\ memory' = memory
      BY <1>12 DEF PutBack, Calls, Alive
  <2>2. /\ Fits(isa[obj[t]], side[obj[t]])
        /\ isa[obj[t]].extra \in 0 .. Most /\ side[obj[t]].rc \in Nat
      BY <2>1, FieldTypes DEF Consistent
  <2>3. ASSUME isa[obj[t]].nonpointer, isa[obj[t]].sided, isa' = isa,
               side[obj[t]].rc + Half \in Multiples,
                 side' = [side EXCEPT ![obj[t]].rc = side[obj[t]].rc + Half]
        PROVE  Rewrites(obj[t])
      BY <2>1, <2>2, <2>3, IsaWrites, SideWrites, RewriteCases DEF Multiples
  <2>4. Rewrites(obj[t])
      BY <1>12, <2>1, <2>2, <2>3 DEF PutBack, Fits, Followed
  <2>5. QED  BY <2>1, <2>4, RewritesKeep
<1>13. ASSUME NEW t \in Threads, RawRelease(t)
      PROVE  WordTypes' /\ Consistent'
  <2>1. obj[t] \in Objects /\ memory[obj[t]] = "live" /\ memory' = memory
      BY <1>13 DEF RawRelease, Calls, Alive
  <2>2. /\ Fits(isa[obj[t]], side[obj[t]])
        /\ isa[obj[t]].extra \in 0 .. Most /\ side[obj[t]].rc \in Nat
      BY <2>1, FieldTypes DEF Consistent
  <2>3. ASSUME ~isa[obj[t]].nonpointer, side[obj[t]].rc - 1 \in Nat,
          isa' = isa,
               side' = [side EXCEPT ![obj[t]].rc = side[obj[t]].rc - 1]
        PROVE  Rewrites(obj[t])
      BY <2>1, <2>2, <2>3, IsaWrites, SideWrites, RewriteCases
  <2>4. ASSUME ~isa[obj[t]].nonpointer, isa' = isa,
               side' = [side EXCEPT ![obj[t]].dealloc = TRUE]
        PROVE  Rewrites(obj[t])
      BY <2>1, <2>2, <2>4, IsaWrites, SideWrites, RewriteCases
  <2>5. Rewrites(obj[t])
      BY <1>13, <2>1, <2>2, <2>3, <2>4 DEF RawRelease, Fits, Followed
  <2>6. QED  BY <2>1, <2>5, RewritesKeep
<1>14. ASSUME NEW t \in Threads, MoveExtra(t)
      PROVE  WordTypes' /\ Consistent'
  <2>1. obj[t] \in Objects /\ memory' = memory /\ isa' = isa
          /\ ~isa[obj[t]].nonpointer
      BY <1>14 DEF MoveExtra, Calls, Followed
  <2>2. moved[t] \in Words /\ isa[obj[t]].extra = 0
      BY <1>14, <2>1 DEF MoveExtra, Calls, Consistent, Alive, Fits
  <2>3. moved[t].extra \in Nat /\ moved[t].dealloc \in BOOLEAN
        /\ moved[t].weakly \in BOOLEAN /\ side[obj[t]].rc \in Nat
      BY <2>1, <2>2, FieldTypes DEF Words, Most
  <2>4. Rewrites(obj[t])
      BY <1>14, <2>1, <2>2, <2>3, IsaWrites
         DEF MoveExtra, WordTypes, Entries, IsaStays, IsaBecomes, Rewrites,
             Fits
  <2>5. QED  BY <2>1, <2>4, RewritesKeep
<1>15. ASSUME NEW t \in Threads, LockTwo(t)
      PROVE  WordTypes' /\ Consistent'
    BY <1>15, WordsStay DEF LockTwo
<1>16. ASSUME NEW t \in Threads, StoreRetry(t)
      PROVE  WordTypes' /\ Consistent'
    BY <1>16, WordsStay DEF StoreRetry
<1>17. ASSUME NEW t \in Threads, StoreCommit(t)
      PROVE  WordTypes' /\ Consistent'
  <2> DEFINE n == IF new[t] # NULL
        /\ Deallocating(new[t]) THEN NULL ELSE new[t]
  <2>1. memory' = memory
        /\ IF n = NULL THEN UNCHANGED <<isa, side>> ELSE SetWeakly(n)
      BY <1>17 DEF StoreCommit
  <2>2. CASE n = NULL  BY <2>1, <2>2, WordsStay
  <2>3. CASE n # NULL
    <3>1. new[t] = n /\ n \in Objects /\ memory[n] = "live"
        BY <1>17, <2>3 DEF StoreCommit, Calls, Alive
    <3>2. Fits(isa[n], side[n])
        BY <3>1 DEF Consistent
    <3> HIDE DEF n
    <3>3. CASE isa[n].nonpointer
        BY <2>1, <2>3, <3>1, <3>2, <3>3, IsaWrites, SideWrites, RewriteCases,
           RewritesKeep
           DEF SetWeakly
    <3>4. CASE ~isa[n].nonpointer
        BY <2>1, <2>3, <3>1, <3>2, <3>4, IsaWrites, SideWrites, RewriteCases,
           RewritesKeep
           DEF SetWeakly
    <3>5. QED  BY <3>3, <3>4
  <2>4. QED  BY <2>2, <2>3
<1>18. ASSUME NEW t \in Threads, LoadAgain(t)
      PROVE  WordTypes' /\ Consistent'
    BY <1>18, WordsStay DEF LoadAgain
<1>19. ASSUME NEW t \in Threads, TryRetain(t)
      PROVE  WordTypes' /\ Consistent'
  <2>1. obj[t] \in Objects /\ memory[obj[t]] = "live" /\ memory' = memory
      BY <1>19 DEF TryRetain, Calls, Registered
  <2>2. /\ Fits(isa[obj[t]], side[obj[t]])
        /\ isa[obj[t]].extra \in 0 .. Most /\ side[obj[t]].rc \in Nat
      BY <2>1, FieldTypes DEF Consistent
  <2>3. ASSUME isa[obj[t]].nonpointer, isa[obj[t]].extra + 1 \in 0 .. Most,
               Count(obj[t], isa[obj[t]].extra + 1), side' = side
        PROVE  Rewrites(obj[t])
      BY <2>1, <2>2, <2>3, IsaWrites, SideWrites, RewriteCases DEF Counted
  <2>4. ASSUME isa[obj[t]].nonpointer, Spill(obj[t]), side' = side
        PROVE  Rewrites(obj[t])
      BY <2>1, <2>2, <2>4, IsaWrites, SideWrites, RewriteCases
  <2>5. ASSUME ~isa[obj[t]].nonpointer, side[obj[t]].rc + 1 \in Nat,
          isa' = isa,
               side' = [side EXCEPT ![obj[t]].rc = side[obj[t]].rc + 1]
        PROVE  Rewrites(obj[t])
      BY <2>1, <2>2, <2>5, IsaWrites, SideWrites, RewriteCases
  <2>6. ASSUME isa' = isa, side' = side
        PROVE  Rewrites(obj[t])
      BY <2>1, <2>2, <2>6, IsaWrites, SideWrites, RewriteCases
  <2>7. Rewrites(obj[t])
    <3>1. \/ isa[obj[t]].nonpointer /\ isa[obj[t]].extra + 1 \in 0 .. Most
               /\ Count(obj[t], isa[obj[t]].extra + 1) /\ side' = side
          \/ isa[obj[t]].nonpointer /\ Spill(obj[t]) /\ side' = side
          \/ ~isa[obj[t]].nonpointer /\ side[obj[t]].rc + 1 \in Nat
               /\ isa' = isa
               /\ side' = [side EXCEPT ![obj[t]].rc = side[obj[t]].rc + 1]
          \/ isa' = isa /\ side' = side
        BY <1>19, <2>1, <2>2 DEF TryRetain, Fits, Most
    <3>2. CASE isa[obj[t]].nonpointer
                 /\ isa[obj[t]].extra + 1 \in 0 .. Most /\ Count(obj[t],
                 isa[obj[t]].extra + 1) /\ side' = side
        BY <3>2, <2>3
    <3>3. CASE isa[obj[t]].nonpointer /\ Spill(obj[t]) /\ side' = side
        BY <3>3, <2>4
    <3>4. CASE ~isa[obj[t]].nonpointer /\ side[obj[t]].rc + 1 \in Nat
                 /\ isa' = isa
                 /\ side' = [side EXCEPT ![obj[t]].rc = side[obj[t]].rc + 1]
        BY <3>4, <2>5
    <3>5. CASE isa' = isa /\ side' = side
        BY <3>5, <2>6
    <3> QED  BY <3>1, <3>2, <3>3, <3>4, <3>5
  <2>8. QED  BY <2>1, <2>7, RewritesKeep
<1>20. ASSUME NEW t \in Threads, FastFree(t)
      PROVE  WordTypes' /\ Consistent'
    BY <1>20, WordsStay DEF FastFree
<1>21. ASSUME NEW t \in Threads, ClearDeallocating(t)
      PROVE  WordTypes' /\ Consistent'
  <2>1. dying[t] \in Objects /\ memory[dying[t]] = "live" /\ memory' = memory
        /\ isa' = isa
      BY <1>21 DEF ClearDeallocating, Alive
  <2>2. Fits(isa[dying[t]], side[dying[t]])
      BY <2>1 DEF Consistent
  <2>3. \/ side' = [side EXCEPT ![dying[t]] = NoSide]
        \/ side' = [side EXCEPT ![dying[t]] = @]
      BY <1>21 DEF ClearDeallocating
  <2>4. [side EXCEPT ![dying[t]] = @] = side
      BY <2>1 DEF WordTypes
  <2>5. Rewrites(dying[t])
      BY <2>1, <2>2, <2>3, <2>4, IsaWrites, SideWrites, RewriteCases
  <2>6. QED  BY <2>1, <2>5, RewritesKeep
<1>22. ASSUME NEW t \in Threads, Free(t)
      PROVE  WordTypes' /\ Consistent'
    BY <1>22, WordsStay DEF Free
<1>23. ASSUME UNCHANGED objcVars  PROVE WordTypes' /\ Consistent'
    BY <1>23, WordsStay
<1> HIDE DEF IInv
<1>24. QED
    BY <1>1, <1>2, <1>3, <1>4, <1>5, <1>6, <1>7, <1>8, <1>9, <1>10, <1>11,
       <1>12, <1>13, <1>14, <1>15, <1>16, <1>17, <1>18, <1>19, <1>20,
       <1>21, <1>22, <1>23 DEF Next, Begin, Continue

-----------------------------------------------------------------------------
(* The weak variables                                                      *)

\* A step that only counts leaves the flags alone, or marks an object as
\* deallocating; the side table of o alone may be written.
IsaFlags ==
    \A p \in Objects :
        /\ isa'[p].nonpointer = isa[p].nonpointer
        /\ isa'[p].weakly = isa[p].weakly
        /\ isa[p].dealloc => isa'[p].dealloc

SideFlags(o) ==
    \A p \in Objects :
        /\ side'[p].weakly = side[p].weakly
        /\ side[p].dealloc => side'[p].dealloc
        /\ p # o => side'[p] = side[p]

\* No thread begins or ends to move the flags of an isa.
MoversStay ==
    \A t \in Threads :
        /\ pc'[t] = "move" <=> pc[t] = "move"
        /\ pc[t] = "move" => obj'[t] = obj[t] /\ moved'[t] = moved[t]

\* The operators of the model that only count.
LEMMA IsaFlagsKept ==
  ASSUME WordTypes, NEW o \in Objects
  PROVE  /\ isa' = isa => IsaFlags
         /\ \A n : Count(o, n) => IsaFlags
         /\ Spill(o) => IsaFlags
         /\ \A t : MarkDead(t, o) => IsaFlags
<1> USE DEF WordTypes, Words, IsaFlags
<1>1. isa' = isa => IsaFlags
    OBVIOUS
<1>2. ASSUME NEW n, Count(o, n)  PROVE IsaFlags
    BY <1>2 DEF Count
<1>3. ASSUME Spill(o)  PROVE IsaFlags
    BY <1>3 DEF Spill
<1>4. ASSUME NEW t, MarkDead(t, o)  PROVE IsaFlags
    BY <1>4 DEF MarkDead
<1> HIDE DEF WordTypes, Words, IsaFlags
<1>5. QED
    BY <1>1, <1>2, <1>3, <1>4

LEMMA SideFlagsKept ==
  ASSUME WordTypes, NEW o \in Objects
  PROVE  /\ side' = side => SideFlags(o)
         /\ \A n : side' = [side EXCEPT ![o].rc = n] => SideFlags(o)
         /\ side' = [side EXCEPT ![o].dealloc = TRUE] => SideFlags(o)
<1> USE DEF WordTypes, Entries, SideFlags
<1>1. side' = side => SideFlags(o)
    OBVIOUS
<1>2. ASSUME NEW n, side' = [side EXCEPT ![o].rc = n]  PROVE SideFlags(o)
    BY <1>2
<1>3. ASSUME side' = [side EXCEPT ![o].dealloc = TRUE]  PROVE SideFlags(o)
    BY <1>3
<1> HIDE DEF WordTypes, Entries, SideFlags
<1>4. QED
    BY <1>1, <1>2, <1>3

\* The table of the weak variables is not affected by counting.
LEMMA RegisteredStays ==
  ASSUME Registered, UNCHANGED <<referrers, slot, memory>>, MoversStay,
         NEW o \in Objects, memory[o] = "live", IsaFlags, SideFlags(o)
  PROVE  Registered'
<1>1. ASSUME NEW p \in Objects, Flagged(p)  PROVE Flagged(p)'
    BY <1>1 DEF Flagged, IsaFlags, SideFlags, MoversStay
<1>2. ASSUME NEW p \in Objects, memory[p] = "freed"  PROVE side'[p] = side[p]
    BY <1>2 DEF SideFlags
<1> HIDE DEF Flagged
<1>3. QED
    BY <1>1, <1>2 DEF Registered, NoSide

LEMMA RegisteredUnchanged ==
  ASSUME Registered, UNCHANGED <<isa, side, referrers, slot, memory>>,
    MoversStay
  PROVE  Registered'
<1>1. ASSUME NEW p \in Objects, Flagged(p)  PROVE Flagged(p)'
    BY <1>1 DEF Flagged, MoversStay
<1> HIDE DEF Flagged
<1>2. QED
    BY <1>1 DEF Registered, NoSide

\* A filled weak variable stays registered with a live object, and the object
\* flagged, whatever is stored or deallocated in between.
LEMMA StepRegistered == IInv /\ [Next]_objcVars => Registered'
<1> SUFFICES ASSUME WorldTypes, CallTypes, WordTypes, Calls, Exclusive, Locked
             ,
                    Consistent, Followed, Moving, Registered, Alive,
                      CountsAgree,
                    [Next]_objcVars
             PROVE  Registered'
    BY DEF IInv
<1>1. ASSUME NEW t \in Threads, NEW o \in Objects, NEW r \in Refs,
               NEW np \in BOOLEAN, Alloc(t, o, r, np)
      PROVE  Registered'
  <2>1. /\ memory[o] = "freed" /\ memory' = [memory EXCEPT ![o] = "live"]
        /\ isa' = [isa EXCEPT ![o] = FreshIsa(np)]
        /\ UNCHANGED <<side, referrers, slot, pc, obj, moved>>
      BY <1>1 DEF Alloc, weakVars, callVars
  <2>2. referrers[o] = {} /\ \A p \in Objects \ {o} : isa'[p] = isa[p]
      BY <2>1 DEF WordTypes, Registered
  <2>3. ASSUME NEW p \in Objects \ {o}, Flagged(p)  PROVE Flagged(p)'
      BY <2>1, <2>2, <2>3 DEF Flagged
  <2> HIDE DEF Flagged
  <2>4. QED
      BY <2>1, <2>2, <2>3 DEF Registered, NoSide, WorldTypes
<1>2. ASSUME NEW t \in Threads, NEW k \in Refs, NEW r \in Refs,
               Retain(t, k, r)
      PROVE  Registered'
  <2>1. target[k] \in Objects /\ memory[target[k]] = "live"
      BY <1>2, RefcountAssumption
         DEF Retain, CallTypes, WorldTypes, Calls, Alive, Retaining, Releasing
  <2>2. IsaFlags
      BY <1>2, <2>1, IsaFlagsKept DEF Retain
  <2>3. SideFlags(target[k])
      BY <1>2, <2>1, SideFlagsKept DEF Retain
  <2>4. MoversStay /\ UNCHANGED <<referrers, slot, memory>>
      BY <1>2
         DEF Retain, MoversStay, CallTypes, Calls, weakVars, Idle, Return,
             Goto, GoOn, callVars, Places, Storing, Retaining, Releasing
  <2>5. QED
      BY <2>1, <2>2, <2>3, <2>4, RegisteredStays
<1>3. ASSUME NEW t \in Threads, NEW r \in Refs, Release(t, r)
      PROVE  Registered'
  <2>1. target[r] \in Objects /\ memory[target[r]] = "live"
      BY <1>3, RefcountAssumption
         DEF Release, CallTypes, WorldTypes, Calls, Alive, Retaining,
             Releasing
  <2>2. IsaFlags
      BY <1>3, <2>1, IsaFlagsKept DEF Release
  <2>3. SideFlags(target[r])
      BY <1>3, <2>1, SideFlagsKept DEF Release
  <2>4. MoversStay /\ UNCHANGED <<referrers, slot, memory>>
      BY <1>3
         DEF Release, MoversStay, CallTypes, Calls, weakVars, Idle, Return,
             Goto, GoOn, callVars, Places, Storing, Retaining, Releasing
  <2>5. QED
      BY <2>1, <2>2, <2>3, <2>4, RegisteredStays
<1>4. ASSUME NEW t \in Threads, NEW k \in Refs, MakeRaw(t, k)
      PROVE  Registered'
  <2> DEFINE o == target[k]
  <2>1. /\ o \in Objects /\ memory[o] = "live" /\ isa[o].nonpointer
        /\ UNCHANGED <<side, referrers, slot, memory>>
        /\ isa' = [isa EXCEPT ![o] = FreshIsa(FALSE)]
        /\ pc' = [pc EXCEPT ![t] = "move"] /\ obj' = [obj EXCEPT ![t] = o]
        /\ moved' = [moved EXCEPT ![t] = isa[o]]
        /\ pc[t] = "idle"
      BY <1>4 DEF MakeRaw, WorldTypes, Alive, weakVars, Idle
  <2> HIDE DEF o
  <2>2. ~isa'[o].nonpointer /\ \A p \in Objects \ {o} : isa'[p] = isa[p]
      BY <2>1 DEF WordTypes, FreshIsa
  <2>3. /\ pc'[t] = "move" /\ obj'[t] = o /\ moved'[t] = isa[o]
        /\ \A u \in Threads : u # t => /\ pc'[u] = pc[u] /\ obj'[u] = obj[u]
                                       /\ moved'[u] = moved[u]
      BY <2>1 DEF CallTypes
  <2>4. ASSUME NEW p \in Objects, Flagged(p)  PROVE Flagged(p)'
    <3>1. CASE p = o
        BY <2>1, <2>2, <2>3, <2>4, <3>1 DEF Flagged
    <3>2. CASE p # o
        BY <2>1, <2>2, <2>3, <2>4, <3>2 DEF Flagged
    <3>3. QED
        BY <3>1, <3>2
  <2> HIDE DEF Flagged
  <2>5. QED
      BY <2>1, <2>4 DEF Registered, NoSide
<1>5. ASSUME NEW t \in Threads, NEW w \in Slots,
        NEW o \in Objects \cup {NULL},
               NEW k \in Refs \cup {NULL}, StoreWeak(t, w, o, k)
      PROVE  Registered'
  <2>1. MoversStay /\ UNCHANGED <<isa, side, referrers, slot, memory>>
      BY <1>5
         DEF StoreWeak, MoversStay, CallTypes, Calls, weakVars, isaVars, Idle,
             Return, Goto, GoOn, callVars, Storing, Retaining, Releasing
  <2>2. QED
      BY <2>1, RegisteredUnchanged
<1>6. ASSUME NEW t \in Threads, NEW w \in Slots, NEW r \in Refs,
               LoadWeak(t, w, r)
      PROVE  Registered'
  <2>1. MoversStay /\ UNCHANGED <<isa, side, referrers, slot, memory>>
      BY <1>6
         DEF LoadWeak, MoversStay, CallTypes, Calls, weakVars, isaVars, Idle,
             Return, Goto, GoOn, callVars, Storing, Retaining, Releasing
  <2>2. QED
      BY <2>1, RegisteredUnchanged
<1>7. ASSUME NEW t \in Threads, RetainOverflow(t)
      PROVE  Registered'
  <2>1. obj[t] \in Objects /\ memory[obj[t]] = "live"
      BY <1>7, RefcountAssumption
         DEF RetainOverflow, CallTypes, WorldTypes, Calls, Alive, Retaining,
             Releasing
  <2>2. IsaFlags
      BY <1>7, <2>1, IsaFlagsKept DEF RetainOverflow
  <2>3. SideFlags(obj[t])
      BY <1>7, <2>1, SideFlagsKept DEF RetainOverflow
  <2>4. MoversStay /\ UNCHANGED <<referrers, slot, memory>>
      BY <1>7
         DEF RetainOverflow, MoversStay, CallTypes, Calls, weakVars, Idle,
             Return, Goto, GoOn, callVars, Places, Storing, Retaining,
             Releasing
  <2>5. QED
      BY <2>1, <2>2, <2>3, <2>4, RegisteredStays
<1>8. ASSUME NEW t \in Threads, AddSide(t)
      PROVE  Registered'
  <2>1. obj[t] \in Objects /\ memory[obj[t]] = "live"
      BY <1>8, RefcountAssumption
         DEF AddSide, CallTypes, WorldTypes, Calls, Alive, Retaining,
             Releasing
  <2>2. IsaFlags
      BY <1>8, <2>1, IsaFlagsKept DEF AddSide
  <2>3. SideFlags(obj[t])
      BY <1>8, <2>1, SideFlagsKept DEF AddSide
  <2>4. MoversStay /\ UNCHANGED <<referrers, slot, memory>>
      BY <1>8
         DEF AddSide, MoversStay, CallTypes, Calls, weakVars, Idle, Return,
             Goto, GoOn, callVars, Places, Storing, Retaining, Releasing
  <2>5. QED
      BY <2>1, <2>2, <2>3, <2>4, RegisteredStays
<1>9. ASSUME NEW t \in Threads, RawRetain(t)
      PROVE  Registered'
  <2>1. obj[t] \in Objects /\ memory[obj[t]] = "live"
      BY <1>9, RefcountAssumption
         DEF RawRetain, CallTypes, WorldTypes, Calls, Alive, Retaining,
             Releasing
  <2>2. IsaFlags
      BY <1>9, <2>1, IsaFlagsKept DEF RawRetain
  <2>3. SideFlags(obj[t])
      BY <1>9, <2>1, SideFlagsKept DEF RawRetain
  <2>4. MoversStay /\ UNCHANGED <<referrers, slot, memory>>
      BY <1>9
         DEF RawRetain, MoversStay, CallTypes, Calls, weakVars, Idle, Return,
             Goto, GoOn, callVars, Places, Storing, Retaining, Releasing
  <2>5. QED
      BY <2>1, <2>2, <2>3, <2>4, RegisteredStays
<1>10. ASSUME NEW t \in Threads, ReleaseUnderflow(t)
      PROVE  Registered'
  <2>1. obj[t] \in Objects /\ memory[obj[t]] = "live"
      BY <1>10, RefcountAssumption
         DEF ReleaseUnderflow, CallTypes, WorldTypes, Calls, Alive, Retaining,
             Releasing
  <2>2. IsaFlags
      BY <1>10, <2>1, IsaFlagsKept DEF ReleaseUnderflow
  <2>3. SideFlags(obj[t])
      BY <1>10, <2>1, SideFlagsKept DEF ReleaseUnderflow
  <2>4. MoversStay /\ UNCHANGED <<referrers, slot, memory>>
      BY <1>10
         DEF ReleaseUnderflow, MoversStay, CallTypes, Calls, weakVars, Idle,
             Return, Goto, GoOn, callVars, Places, Storing, Retaining,
             Releasing
  <2>5. QED
      BY <2>1, <2>2, <2>3, <2>4, RegisteredStays
<1>11. ASSUME NEW t \in Threads, Repay(t)
      PROVE  Registered'
  <2>1. obj[t] \in Objects /\ memory[obj[t]] = "live"
      BY <1>11, RefcountAssumption
         DEF Repay, CallTypes, WorldTypes, Calls, Alive, Retaining, Releasing
  <2>2. IsaFlags
      BY <1>11, <2>1, IsaFlagsKept DEF Repay
  <2>3. SideFlags(obj[t])
      BY <1>11, <2>1, SideFlagsKept DEF Repay
  <2>4. MoversStay /\ UNCHANGED <<referrers, slot, memory>>
      BY <1>11
         DEF Repay, MoversStay, CallTypes, Calls, weakVars, Idle, Return,
             Goto, GoOn, callVars, Places, Storing, Retaining, Releasing
  <2>5. QED
      BY <2>1, <2>2, <2>3, <2>4, RegisteredStays
<1>12. ASSUME NEW t \in Threads, PutBack(t)
      PROVE  Registered'
  <2>1. obj[t] \in Objects /\ memory[obj[t]] = "live"
      BY <1>12, RefcountAssumption
         DEF PutBack, CallTypes, WorldTypes, Calls, Alive, Retaining,
             Releasing
  <2>2. IsaFlags
      BY <1>12, <2>1, IsaFlagsKept DEF PutBack
  <2>3. SideFlags(obj[t])
      BY <1>12, <2>1, SideFlagsKept DEF PutBack
  <2>4. MoversStay /\ UNCHANGED <<referrers, slot, memory>>
      BY <1>12
         DEF PutBack, MoversStay, CallTypes, Calls, weakVars, Idle, Return,
             Goto, GoOn, callVars, Places, Storing, Retaining, Releasing
  <2>5. QED
      BY <2>1, <2>2, <2>3, <2>4, RegisteredStays
<1>13. ASSUME NEW t \in Threads, RawRelease(t)
      PROVE  Registered'
  <2>1. obj[t] \in Objects /\ memory[obj[t]] = "live"
      BY <1>13, RefcountAssumption
         DEF RawRelease, CallTypes, WorldTypes, Calls, Alive, Retaining,
             Releasing
  <2>2. IsaFlags
      BY <1>13, <2>1, IsaFlagsKept DEF RawRelease
  <2>3. SideFlags(obj[t])
      BY <1>13, <2>1, SideFlagsKept DEF RawRelease
  <2>4. MoversStay /\ UNCHANGED <<referrers, slot, memory>>
      BY <1>13
         DEF RawRelease, MoversStay, CallTypes, Calls, weakVars, Idle, Return,
             Goto, GoOn, callVars, Places, Storing, Retaining, Releasing
  <2>5. QED
      BY <2>1, <2>2, <2>3, <2>4, RegisteredStays
<1>14. ASSUME NEW t \in Threads, MoveExtra(t)
      PROVE  Registered'
  <2> DEFINE o == obj[t]
  <2>1. /\ o \in Objects /\ moved[t] \in Words /\ ~isa[o].nonpointer
        /\ memory[o] = "live" /\ ~side[o].weakly /\ pc[t] = "move"
        /\ UNCHANGED <<isa, referrers, slot, memory>>
      BY <1>14, RefcountAssumption
         DEF MoveExtra, Calls, Followed, Moving, Alive, weakVars
  <2>2. /\ side'[o].weakly = moved[t].weakly
        /\ \A p \in Objects \ {o} : side'[p] = side[p]
      BY <1>14, <2>1 DEF MoveExtra, WordTypes
  <2>3. \A u \in Threads : u # t => /\ pc'[u] = pc[u] /\ obj'[u] = obj[u]
                                    /\ moved'[u] = moved[u]
      BY <1>14 DEF MoveExtra, Return, CallTypes
  <2>4. \A u \in Threads : pc[u] = "move" /\ obj[u] = o => u = t
      BY <2>1 DEF Locked
  <2> HIDE DEF o
  <2>5. ASSUME NEW p \in Objects, Flagged(p)  PROVE Flagged(p)'
    <3>1. CASE p = o
        BY <2>1, <2>2, <2>4, <2>5, <3>1 DEF Flagged
    <3>2. CASE p # o
        BY <2>1, <2>2, <2>3, <2>5, <3>2 DEF Flagged, o
    <3>3. QED
        BY <3>1, <3>2
  <2> HIDE DEF Flagged
  <2>6. QED
      BY <2>1, <2>2, <2>5 DEF Registered, NoSide
<1>15. ASSUME NEW t \in Threads, LockTwo(t)
      PROVE  Registered'
  <2>1. MoversStay /\ UNCHANGED <<isa, side, referrers, slot, memory>>
      BY <1>15
         DEF LockTwo, MoversStay, CallTypes, Calls, weakVars, isaVars, Idle,
             Return, Goto, GoOn, callVars, Storing, Retaining, Releasing
  <2>2. QED
      BY <2>1, RegisteredUnchanged
<1>16. ASSUME NEW t \in Threads, StoreRetry(t)
      PROVE  Registered'
  <2>1. MoversStay /\ UNCHANGED <<isa, side, referrers, slot, memory>>
      BY <1>16
         DEF StoreRetry, MoversStay, CallTypes, Calls, weakVars, isaVars,
             Idle, Return, Goto, GoOn, callVars, Storing, Retaining, Releasing
  <2>2. QED
      BY <2>1, RegisteredUnchanged
<1>17. ASSUME NEW t \in Threads, StoreCommit(t)
      PROVE  Registered'
  <2> DEFINE w == var[t]
             old == obj[t]
             n == IF new[t] # NULL
               /\ Deallocating(new[t]) THEN NULL ELSE new[t]
  <2>1. /\ pc[t] = "store" /\ w \in Slots /\ slot[w] = old
        /\ referrers' = [o \in Objects |->
                           IF o = n THEN referrers[o] \cup {w}
                           ELSE IF o = old THEN referrers[o] \ {w}
                           ELSE referrers[o]]
        /\ IF n = NULL THEN UNCHANGED isaVars ELSE SetWeakly(n)
        /\ slot' = [slot EXCEPT ![w] = n]
        /\ UNCHANGED memory
      BY <1>17 DEF StoreCommit, Calls, Storing
  <2>2. n # NULL => n \in Objects /\ memory[n] = "live"
      BY <2>1 DEF Calls, CallTypes, Alive, Storing
  <2>3. MoversStay
      BY <1>17 DEF StoreCommit, MoversStay, Return, CallTypes
  <2>4. \A p \in Objects : isa'[p].nonpointer = isa[p].nonpointer
      BY <2>1, <2>2 DEF SetWeakly, WordTypes, Words, isaVars
  <2>5. \A p \in Objects : /\ isa[p].weakly => isa'[p].weakly
                           /\ side[p].weakly => side'[p].weakly
                           /\ p # n => side'[p] = side[p]
      BY <2>1, <2>2 DEF SetWeakly, WordTypes, Words, Entries, isaVars
  <2>6. n # NULL
          => IF isa[n].nonpointer THEN isa'[n].weakly ELSE side'[n].weakly
      BY <2>1, <2>2 DEF SetWeakly, WordTypes, Words, Entries
  <2>7. n = NULL \/ n \in Objects
      BY <2>2
  <2> HIDE DEF w, old, n
  <2>8. ASSUME NEW p \in Objects, Flagged(p) \/ p = n  PROVE Flagged(p)'
    <3>1. CASE p = n
        BY <2>4, <2>6, <3>1, RefcountAssumption DEF Flagged
    <3>2. CASE p # n
        BY <2>3, <2>4, <2>5, <2>8, <3>2 DEF Flagged, MoversStay
    <3>3. QED
        BY <3>1, <3>2
  <2>9. /\ \A o \in Objects : o = n => referrers'[o] = referrers[o] \cup {w}
        /\ \A o \in Objects : o # n /\ o = old
             => referrers'[o] = referrers[o] \ {w}
        /\ \A o \in Objects : o # n /\ o # old => referrers'[o] = referrers[o]
        /\ slot'[w] = n
        /\ \A v \in Slots : v # w => slot'[v] = slot[v]
      BY <2>1 DEF WorldTypes
  <2> HIDE DEF Flagged
  <2>10. \A v \in Slots : slot'[v] # NULL =>
           memory'[slot'[v]] = "live" /\ v \in referrers'[slot'[v]]
    <3> SUFFICES ASSUME NEW v \in Slots, slot'[v] # NULL
                 PROVE  memory'[slot'[v]] = "live"
                   /\ v \in referrers'[slot'[v]]
        OBVIOUS
    <3>1. CASE v = w
        BY <2>1, <2>2, <2>7, <2>9, <3>1
    <3>2. CASE v # w
      <4>1. slot'[v] = slot[v] /\ slot[v] \in Objects
          BY <2>9, <3>2 DEF WorldTypes
      <4>2. memory[slot[v]] = "live" /\ v \in referrers[slot[v]]
          BY <4>1 DEF Registered
      <4>3. QED
          BY <2>1, <2>9, <3>2, <4>1, <4>2
    <3>3. QED
        BY <3>1, <3>2
  <2>11. ASSUME NEW o \in Objects
         PROVE  \A v \in referrers'[o] : slot'[v] = o
    <3> SUFFICES ASSUME NEW v \in referrers'[o]  PROVE slot'[v] = o
        OBVIOUS
    <3>1. v = w => o = n
        BY <2>1, <2>9 DEF Registered
    <3>2. v # w => v \in referrers[o] /\ v \in Slots
        BY <2>9 DEF WorldTypes
    <3>3. QED
        BY <2>9, <3>1, <3>2 DEF Registered
  <2>12. ASSUME NEW o \in Objects, memory'[o] = "freed"
         PROVE  side'[o] = NoSide /\ referrers'[o] = {}
      BY <2>1, <2>2, <2>5, <2>7, <2>9, <2>12, RefcountAssumption
         DEF Registered
  <2>13. ASSUME NEW o \in Objects, referrers'[o] # {}  PROVE Flagged(o)'
      BY <2>8, <2>9, <2>13 DEF Registered
  <2>14. QED
      BY <2>10, <2>11, <2>12, <2>13 DEF Registered, NoSide
<1>18. ASSUME NEW t \in Threads, LoadAgain(t)
      PROVE  Registered'
  <2>1. MoversStay /\ UNCHANGED <<isa, side, referrers, slot, memory>>
      BY <1>18
         DEF LoadAgain, MoversStay, CallTypes, Calls, weakVars, isaVars, Idle,
             Return, Goto, GoOn, callVars, Storing, Retaining, Releasing
  <2>2. QED
      BY <2>1, RegisteredUnchanged
<1>19. ASSUME NEW t \in Threads, TryRetain(t)
      PROVE  Registered'
  <2>1. obj[t] \in Objects /\ memory[obj[t]] = "live"
      BY <1>19, RefcountAssumption
         DEF TryRetain, CallTypes, WorldTypes, Calls, Alive, Registered
  <2>2. IsaFlags
      BY <1>19, <2>1, IsaFlagsKept DEF TryRetain, isaVars
  <2>3. SideFlags(obj[t])
      BY <1>19, <2>1, SideFlagsKept DEF TryRetain, isaVars
  <2>4. MoversStay /\ UNCHANGED <<referrers, slot, memory>>
      BY <1>19
         DEF TryRetain, MoversStay, CallTypes, Calls, weakVars, Idle, Return,
             Goto, GoOn, callVars, Places, Storing, Retaining, Releasing
  <2>5. QED
      BY <2>1, <2>2, <2>3, <2>4, RegisteredStays
<1>20. ASSUME NEW t \in Threads, FastFree(t)
      PROVE  Registered'
  <2> DEFINE o == dying[t]
  <2>1. /\ o \in Objects /\ memory[o] = "live" /\ isa[o].nonpointer
        /\ ~isa[o].weakly /\ ~isa[o].sided
        /\ memory' = [memory EXCEPT ![o] = "freed"]
        /\ UNCHANGED <<isa, side, referrers, slot, pc, obj, moved>>
      BY <1>20 DEF FastFree, CallTypes, Alive, weakVars, isaVars, callVars
  <2> HIDE DEF o
  <2>2. referrers[o] = {}
      BY <2>1 DEF Registered, Flagged
  <2>3. side[o].rc = 0 /\ ~side[o].dealloc /\ ~side[o].weakly
      BY <2>1 DEF Consistent, Fits
  <2>4. side[o] = NoSide
      BY <2>1, <2>3 DEF NoSide, WordTypes, Entries
  <2>5. ASSUME NEW p \in Objects, Flagged(p)  PROVE Flagged(p)'
      BY <2>1, <2>5 DEF Flagged
  <2> HIDE DEF Flagged
  <2>6. QED
      BY <2>1, <2>2, <2>4, <2>5 DEF Registered, NoSide, WorldTypes
<1>21. ASSUME NEW t \in Threads, ClearDeallocating(t)
      PROVE  Registered'
  <2> DEFINE o == dying[t]
             flag == IF isa[o].nonpointer THEN isa[o].weakly ELSE side[o].weakly
  <2>1. /\ o \in Objects /\ memory[o] = "live"
        /\ WeakClear(o, flag)
        /\ \A p \in Objects \ {o} : side'[p] = side[p]
        /\ UNCHANGED <<isa, memory>>
      BY <1>21 DEF ClearDeallocating, CallTypes, Alive, WordTypes
  <2>2. MoversStay
      BY <1>21 DEF ClearDeallocating, MoversStay, Goto, GoOn, CallTypes
  <2>3. referrers[o] # {} => flag
      BY <1>21, <2>1, RefcountAssumption
         DEF ClearDeallocating, Registered, Flagged, Calls, Alive
  <2> HIDE DEF o, flag
  <2>4. \A v \in Slots : slot'[v] = IF flag /\ v \in referrers[o]
          /\ slot[v] = o
                                    THEN NULL ELSE slot[v]
      BY <2>1 DEF WeakClear
  <2>5. /\ referrers'[o] = {}
        /\ \A p \in Objects \ {o} : referrers'[p] = referrers[p]
      BY <2>1, <2>3 DEF WeakClear, WorldTypes
  <2>6. \A v \in Slots : /\ slot'[v] # o
                         /\ slot[v] # o => slot'[v] = slot[v]
                         /\ slot[v] = o => slot'[v] = NULL
      BY <2>1, <2>3, <2>4, RefcountAssumption DEF Registered
  <2>7. ASSUME NEW p \in Objects \ {o}, Flagged(p)  PROVE Flagged(p)'
      BY <2>1, <2>2, <2>7 DEF Flagged, MoversStay
  <2> HIDE DEF Flagged
  <2>8. \A v \in Slots : slot'[v] # NULL =>
          memory'[slot'[v]] = "live" /\ v \in referrers'[slot'[v]]
      BY <2>1, <2>5, <2>6 DEF Registered, WorldTypes
  <2>9. \A p \in Objects :
          /\ memory'[p] = "freed" => side'[p] = NoSide /\ referrers'[p] = {}
          /\ \A v \in referrers'[p] : slot'[v] = p
      BY <2>1, <2>5, <2>6 DEF Registered, WorldTypes
  <2>10. QED
      BY <2>5, <2>7, <2>8, <2>9 DEF Registered, NoSide
<1>22. ASSUME NEW t \in Threads, Free(t)
      PROVE  Registered'
  <2> DEFINE o == dying[t]
  <2>1. /\ o \in Objects /\ side[o] = NoSide /\ referrers[o] = {}
        /\ memory' = [memory EXCEPT ![o] = "freed"]
        /\ UNCHANGED <<isa, side, referrers, slot>>
      BY <1>22 DEF Free, CallTypes, Calls, Alive, weakVars, isaVars
  <2>2. MoversStay
      BY <1>22 DEF Free, MoversStay, Return, CallTypes
  <2> HIDE DEF o
  <2>3. ASSUME NEW p \in Objects, Flagged(p)  PROVE Flagged(p)'
      BY <2>1, <2>2, <2>3 DEF Flagged, MoversStay
  <2> HIDE DEF Flagged
  <2>4. QED
      BY <2>1, <2>3 DEF Registered, NoSide, WorldTypes
<1>23. ASSUME UNCHANGED objcVars  PROVE Registered'
  <2>1. MoversStay /\ UNCHANGED <<isa, side, referrers, slot, memory>>
      BY <1>23 DEF MoversStay, objcVars, isaVars, weakVars, callVars
  <2>2. QED
      BY <2>1, RegisteredUnchanged
<1> HIDE DEF Registered
<1>24. QED
    BY <1>1, <1>2, <1>3, <1>4, <1>5, <1>6, <1>7, <1>8, <1>9, <1>10, <1>11,
       <1>12, <1>13, <1>14, <1>15, <1>16, <1>17, <1>18, <1>19, <1>20,
       <1>21, <1>22, <1>23 DEF Next, Begin, Continue

LEMMA MovingStays ==
  ASSUME Calls, Moving, MoversStay,
         side' = side \/ \E o \in Objects : SideFlags(o)
  PROVE  Moving'
<1>1. \A p \in Objects : side'[p].weakly = side[p].weakly
    BY DEF SideFlags
<1>2. \A u \in Threads : pc[u] = "move" => obj[u] \in Objects
    BY DEF Calls
<1>3. QED
    BY <1>1, <1>2 DEF Moving, MoversStay

\* Nobody flags an entry while the flags of its isa are on their way to it.
LEMMA StepMoving == IInv /\ [Next]_objcVars => Moving'
<1> SUFFICES ASSUME WorldTypes, CallTypes, WordTypes, Calls, Exclusive, Locked
             ,
                    Consistent, Followed, Moving, Registered, Alive,
                      CountsAgree,
                    [Next]_objcVars
             PROVE  Moving'
    BY DEF IInv
<1>1. ASSUME NEW t \in Threads, NEW o \in Objects, NEW r \in Refs,
               NEW np \in BOOLEAN, Alloc(t, o, r, np)
      PROVE  Moving'
  <2>1. MoversStay /\ UNCHANGED side
      BY <1>1
         DEF Alloc, MoversStay, CallTypes, Calls, isaVars, Idle, Return, Goto,
             GoOn, callVars, Storing, Retaining, Releasing
  <2>2. QED
      BY <2>1, MovingStays
<1>2. ASSUME NEW t \in Threads, NEW k \in Refs, NEW r \in Refs,
               Retain(t, k, r)
      PROVE  Moving'
  <2>1. target[k] \in Objects
      BY <1>2, RefcountAssumption
         DEF Retain, CallTypes, WorldTypes, Calls, Retaining, Releasing
  <2>2. SideFlags(target[k])
      BY <1>2, <2>1, SideFlagsKept DEF Retain
  <2>3. MoversStay
      BY <1>2
         DEF Retain, MoversStay, CallTypes, Calls, Idle, Return, Goto, GoOn,
             callVars, Places, Storing, Retaining, Releasing
  <2>4. QED
      BY <2>1, <2>2, <2>3, MovingStays
<1>3. ASSUME NEW t \in Threads, NEW r \in Refs, Release(t, r)
      PROVE  Moving'
  <2>1. target[r] \in Objects
      BY <1>3, RefcountAssumption
         DEF Release, CallTypes, WorldTypes, Calls, Retaining, Releasing
  <2>2. SideFlags(target[r])
      BY <1>3, <2>1, SideFlagsKept DEF Release
  <2>3. MoversStay
      BY <1>3
         DEF Release, MoversStay, CallTypes, Calls, Idle, Return, Goto, GoOn,
             callVars, Places, Storing, Retaining, Releasing
  <2>4. QED
      BY <2>1, <2>2, <2>3, MovingStays
<1>4. ASSUME NEW t \in Threads, NEW k \in Refs, MakeRaw(t, k)
      PROVE  Moving'
  <2> DEFINE o == target[k]
  <2>1. /\ o \in Objects /\ memory[o] = "live" /\ isa[o].nonpointer
             /\ side' = side
        /\ obj' = [obj EXCEPT ![t] = o]
        /\ \A u \in Threads : u # t => pc'[u] = pc[u]
      BY <1>4 DEF MakeRaw, WorldTypes, Alive, CallTypes
  <2>2. ~side[o].weakly
      BY <2>1 DEF Consistent, Fits
  <2> HIDE DEF o
  <2>3. QED
      BY <2>1, <2>2 DEF Moving, CallTypes
<1>5. ASSUME NEW t \in Threads, NEW w \in Slots,
        NEW o \in Objects \cup {NULL},
               NEW k \in Refs \cup {NULL}, StoreWeak(t, w, o, k)
      PROVE  Moving'
  <2>1. MoversStay /\ UNCHANGED side
      BY <1>5
         DEF StoreWeak, MoversStay, CallTypes, Calls, isaVars, Idle, Return,
             Goto, GoOn, callVars, Storing, Retaining, Releasing
  <2>2. QED
      BY <2>1, MovingStays
<1>6. ASSUME NEW t \in Threads, NEW w \in Slots, NEW r \in Refs,
               LoadWeak(t, w, r)
      PROVE  Moving'
  <2>1. MoversStay /\ UNCHANGED side
      BY <1>6
         DEF LoadWeak, MoversStay, CallTypes, Calls, isaVars, Idle, Return,
             Goto, GoOn, callVars, Storing, Retaining, Releasing
  <2>2. QED
      BY <2>1, MovingStays
<1>7. ASSUME NEW t \in Threads, RetainOverflow(t)
      PROVE  Moving'
  <2>1. obj[t] \in Objects
      BY <1>7, RefcountAssumption
         DEF RetainOverflow, CallTypes, WorldTypes, Calls, Retaining,
             Releasing
  <2>2. SideFlags(obj[t])
      BY <1>7, <2>1, SideFlagsKept DEF RetainOverflow
  <2>3. MoversStay
      BY <1>7
         DEF RetainOverflow, MoversStay, CallTypes, Calls, Idle, Return, Goto,
             GoOn, callVars, Places, Storing, Retaining, Releasing
  <2>4. QED
      BY <2>1, <2>2, <2>3, MovingStays
<1>8. ASSUME NEW t \in Threads, AddSide(t)
      PROVE  Moving'
  <2>1. obj[t] \in Objects
      BY <1>8, RefcountAssumption
         DEF AddSide, CallTypes, WorldTypes, Calls, Retaining, Releasing
  <2>2. SideFlags(obj[t])
      BY <1>8, <2>1, SideFlagsKept DEF AddSide
  <2>3. MoversStay
      BY <1>8
         DEF AddSide, MoversStay, CallTypes, Calls, Idle, Return, Goto, GoOn,
             callVars, Places, Storing, Retaining, Releasing
  <2>4. QED
      BY <2>1, <2>2, <2>3, MovingStays
<1>9. ASSUME NEW t \in Threads, RawRetain(t)
      PROVE  Moving'
  <2>1. obj[t] \in Objects
      BY <1>9, RefcountAssumption
         DEF RawRetain, CallTypes, WorldTypes, Calls, Retaining, Releasing
  <2>2. SideFlags(obj[t])
      BY <1>9, <2>1, SideFlagsKept DEF RawRetain
  <2>3. MoversStay
      BY <1>9
         DEF RawRetain, MoversStay, CallTypes, Calls, Idle, Return, Goto,
             GoOn, callVars, Places, Storing, Retaining, Releasing
  <2>4. QED
      BY <2>1, <2>2, <2>3, MovingStays
<1>10. ASSUME NEW t \in Threads, ReleaseUnderflow(t)
      PROVE  Moving'
  <2>1. obj[t] \in Objects
      BY <1>10, RefcountAssumption
         DEF ReleaseUnderflow, CallTypes, WorldTypes, Calls, Retaining,
             Releasing
  <2>2. SideFlags(obj[t])
      BY <1>10, <2>1, SideFlagsKept DEF ReleaseUnderflow
  <2>3. MoversStay
      BY <1>10
         DEF ReleaseUnderflow, MoversStay, CallTypes, Calls, Idle, Return,
             Goto, GoOn, callVars, Places, Storing, Retaining, Releasing
  <2>4. QED
      BY <2>1, <2>2, <2>3, MovingStays
<1>11. ASSUME NEW t \in Threads, Repay(t)
      PROVE  Moving'
  <2>1. obj[t] \in Objects
      BY <1>11, RefcountAssumption
         DEF Repay, CallTypes, WorldTypes, Calls, Retaining, Releasing
  <2>2. SideFlags(obj[t])
      BY <1>11, <2>1, SideFlagsKept DEF Repay
  <2>3. MoversStay
      BY <1>11
         DEF Repay, MoversStay, CallTypes, Calls, Idle, Return, Goto, GoOn,
             callVars, Places, Storing, Retaining, Releasing
  <2>4. QED
      BY <2>1, <2>2, <2>3, MovingStays
<1>12. ASSUME NEW t \in Threads, PutBack(t)
      PROVE  Moving'
  <2>1. obj[t] \in Objects
      BY <1>12, RefcountAssumption
         DEF PutBack, CallTypes, WorldTypes, Calls, Retaining, Releasing
  <2>2. SideFlags(obj[t])
      BY <1>12, <2>1, SideFlagsKept DEF PutBack
  <2>3. MoversStay
      BY <1>12
         DEF PutBack, MoversStay, CallTypes, Calls, Idle, Return, Goto, GoOn,
             callVars, Places, Storing, Retaining, Releasing
  <2>4. QED
      BY <2>1, <2>2, <2>3, MovingStays
<1>13. ASSUME NEW t \in Threads, RawRelease(t)
      PROVE  Moving'
  <2>1. obj[t] \in Objects
      BY <1>13, RefcountAssumption
         DEF RawRelease, CallTypes, WorldTypes, Calls, Retaining, Releasing
  <2>2. SideFlags(obj[t])
      BY <1>13, <2>1, SideFlagsKept DEF RawRelease
  <2>3. MoversStay
      BY <1>13
         DEF RawRelease, MoversStay, CallTypes, Calls, Idle, Return, Goto,
             GoOn, callVars, Places, Storing, Retaining, Releasing
  <2>4. QED
      BY <2>1, <2>2, <2>3, MovingStays
<1>14. ASSUME NEW t \in Threads, MoveExtra(t)
      PROVE  Moving'
  <2>1. pc'[t] = "idle" /\ \A u \in Threads : u # t => pc'[u] = pc[u]
          /\ obj'[u] = obj[u]
      BY <1>14 DEF MoveExtra, Return, CallTypes
  <2>2. \A u \in Threads : u # t /\ pc[u] = "move" => obj[u] # obj[t]
          /\ obj[u] \in Objects
      BY <1>14 DEF MoveExtra, Locked, Calls
  <2>3. \A p \in Objects : p # obj[t] => side'[p] = side[p]
      BY <1>14 DEF MoveExtra, WordTypes
  <2>4. QED
      BY <2>1, <2>2, <2>3 DEF Moving
<1>15. ASSUME NEW t \in Threads, LockTwo(t)
      PROVE  Moving'
  <2>1. MoversStay /\ UNCHANGED side
      BY <1>15
         DEF LockTwo, MoversStay, CallTypes, Calls, isaVars, Idle, Return,
             Goto, GoOn, callVars, Storing, Retaining, Releasing
  <2>2. QED
      BY <2>1, MovingStays
<1>16. ASSUME NEW t \in Threads, StoreRetry(t)
      PROVE  Moving'
  <2>1. MoversStay /\ UNCHANGED side
      BY <1>16
         DEF StoreRetry, MoversStay, CallTypes, Calls, isaVars, Idle, Return,
             Goto, GoOn, callVars, Storing, Retaining, Releasing
  <2>2. QED
      BY <2>1, MovingStays
<1>17. ASSUME NEW t \in Threads, StoreCommit(t)
      PROVE  Moving'
  <2>1. MoversStay
      BY <1>17 DEF StoreCommit, MoversStay, Return, CallTypes
  <2>2. pc[t] = "store" /\ \A p \in Objects : p # new[t] => side'[p] = side[p]
      BY <1>17 DEF StoreCommit, SetWeakly, isaVars, WordTypes
  <2>3. \A u \in Threads : pc[u] = "move" => obj[u] # new[t]
          /\ obj[u] \in Objects
      BY <2>2 DEF Locked, StoreStripes, Calls
  <2>4. QED
      BY <2>1, <2>2, <2>3 DEF Moving, MoversStay
<1>18. ASSUME NEW t \in Threads, LoadAgain(t)
      PROVE  Moving'
  <2>1. MoversStay /\ UNCHANGED side
      BY <1>18
         DEF LoadAgain, MoversStay, CallTypes, Calls, isaVars, Idle, Return,
             Goto, GoOn, callVars, Storing, Retaining, Releasing
  <2>2. QED
      BY <2>1, MovingStays
<1>19. ASSUME NEW t \in Threads, TryRetain(t)
      PROVE  Moving'
  <2>1. obj[t] \in Objects
      BY <1>19, RefcountAssumption
         DEF TryRetain, CallTypes, WorldTypes, Calls, Registered
  <2>2. SideFlags(obj[t])
      BY <1>19, <2>1, SideFlagsKept DEF TryRetain, isaVars
  <2>3. MoversStay
      BY <1>19
         DEF TryRetain, MoversStay, CallTypes, Calls, Idle, Return, Goto,
             GoOn, callVars, Places, Storing, Retaining, Releasing
  <2>4. QED
      BY <2>1, <2>2, <2>3, MovingStays
<1>20. ASSUME NEW t \in Threads, FastFree(t)
      PROVE  Moving'
  <2>1. MoversStay /\ UNCHANGED side
      BY <1>20
         DEF FastFree, MoversStay, CallTypes, Calls, isaVars, Idle, Return,
             Goto, GoOn, callVars, Storing, Retaining, Releasing
  <2>2. QED
      BY <2>1, MovingStays
<1>21. ASSUME NEW t \in Threads, ClearDeallocating(t)
      PROVE  Moving'
  <2>1. MoversStay
      BY <1>21 DEF ClearDeallocating, MoversStay, Goto, GoOn, CallTypes
  <2>2. \A p \in Objects : side'[p] = side[p] \/ side'[p] = NoSide
      BY <1>21 DEF ClearDeallocating, WordTypes
  <2>3. \A u \in Threads : pc[u] = "move" => obj[u] \in Objects
      BY DEF Calls
  <2>4. ~NoSide.weakly
      BY DEF NoSide
  <2> HIDE DEF NoSide
  <2>5. QED
      BY <2>1, <2>2, <2>3, <2>4 DEF Moving, MoversStay
<1>22. ASSUME NEW t \in Threads, Free(t)
      PROVE  Moving'
  <2>1. MoversStay /\ UNCHANGED side
      BY <1>22
         DEF Free, MoversStay, CallTypes, Calls, isaVars, Idle, Return, Goto,
             GoOn, callVars, Storing, Retaining, Releasing
  <2>2. QED
      BY <2>1, MovingStays
<1>23. ASSUME UNCHANGED objcVars  PROVE Moving'
    BY <1>23 DEF Moving, objcVars, isaVars, callVars
<1> HIDE DEF Moving
<1>24. QED
    BY <1>1, <1>2, <1>3, <1>4, <1>5, <1>6, <1>7, <1>8, <1>9, <1>10, <1>11,
       <1>12, <1>13, <1>14, <1>15, <1>16, <1>17, <1>18, <1>19, <1>20,
       <1>21, <1>22, <1>23 DEF Next, Begin, Continue

-----------------------------------------------------------------------------
(* The last reference and the deallocation                                 *)

\* CountsAgree counts the references as CountAt does.
LEMMA CardinalityIsCount ==
  \A f, o : Cardinality({r \in Refs : f[r] = o}) = CountAt(Refs, f, {o})
<1> TAKE f, o
<1>1. {r \in Refs : f[r] = o} = {r \in Refs : f[r] \in {o}}
    OBVIOUS
<1>2. QED
    BY <1>1 DEF CountAt

\* What a thread that holds the lock has in its hands, if any does.
Transit(o) == IF Holder(o) = NULL THEN 0 ELSE InFlight(o, Holder(o))

\* The references to o.
RefsTo(o) == CountAt(Refs, target, {o})

LEMMA CountsAre ==
  ASSUME CountsAgree, NEW o \in Objects, memory[o] = "live"
  PROVE  IF \E t \in Threads : dying[t] = o THEN RefsTo(o) = 0
         ELSE RefsTo(o) = 1 + isa[o].extra + side[o].rc + Transit(o)
  BY CardinalityIsCount DEF CountsAgree, RefsTo, Transit

\* Nothing is in flight unless the words show that a half is.
LEMMA NoTransit ==
  ASSUME CallTypes, WorldTypes, Calls, Followed,
         NEW o \in Objects,
         \/ Unlocked(o)
         \/ isa[o].nonpointer /\ ~isa[o].sided
         \/ /\ Holder(o) \in Threads
            /\ pc[Holder(o)] \notin {"addside", "borrowed", "move"}
  PROVE  Transit(o) = 0
<1>1. CASE Unlocked(o)
    BY <1>1 DEF Transit, Holder, Unlocked
<1>2. CASE Holder(o) \in Threads /\ obj[Holder(o)] = o
    BY <1>2, RefcountAssumption
       DEF Transit, InFlight, Followed, Unlocked, Holder
<1>3. CASE Holder(o) \in Threads /\ obj[Holder(o)] # o
    BY <1>3 DEF Transit, InFlight
<1>4. Holder(o) \in Threads \cup {NULL}
    BY DEF Holder, WorldTypes, Stripes
<1>5. QED
    BY <1>1, <1>2, <1>3, <1>4 DEF Unlocked, Holder

\* An object whose count is zero everywhere loses its last reference.
LEMMA LastGone ==
  ASSUME WorldTypes, CountsAgree, NEW r \in Refs,
         target[r] \in Objects, memory[target[r]] = "live",
         isa[target[r]].extra = 0, side[target[r]].rc = 0,
         Transit(target[r]) = 0, Lose(r)
  PROVE  \A q \in Refs : target'[q] # target[r]
<1> DEFINE o == target[r]
<1>1. RefsTo(o) \in {0, 1}
    BY CountsAre
<1>2. \A q \in Refs : target'[q] = IF q = r THEN NULL ELSE target[q]
    BY RefcountAssumption DEF Lose, WorldTypes
<1>3. /\ CountAt(Refs, target', {o})
           = RefsTo(o) - Weight(target[r], {o}) + Weight(NULL, {o})
      /\ CountAt(Refs, target', {o}) \in Nat
      /\ \A q \in Refs : target'[q] \in {o} => CountAt(Refs, target', {o}) > 0
    BY <1>2, CountStep, CountType, RefcountAssumption DEF RefsTo
<1>4. Weight(target[r], {o}) = 1 /\ Weight(NULL, {o}) = 0
    BY RefcountAssumption DEF Weight
<1> HIDE DEF o
<1>5. CountAt(Refs, target', {o}) = 0
    BY <1>1, <1>3, <1>4
<1>6. ASSUME NEW q \in Refs, target'[q] = o  PROVE FALSE
  <2>1. target'[q] \in {o}
      BY <1>6
  <2>2. CountAt(Refs, target', {o}) > 0
      BY <1>3, <2>1
  <2>3. QED
      BY <1>5, <2>2
<1>7. QED
    BY <1>6 DEF o

\* Counting an object that is not being deallocated affects no deallocation.
AliveSteps(o) ==
    /\ IsaFlags /\ SideFlags(o)
    /\ UNCHANGED <<memory, referrers>>
    /\ \A u \in Threads : dying[u] # o
    /\ \A u \in Threads : pc'[u] = "free" <=> pc[u] = "free"
    /\ \A r \in Refs : \/ target'[r] \in {NULL, target[r]}
                       \/ target'[r] = o /\ memory[o] = "live"

LEMMA AliveStays ==
  ASSUME Alive, CallTypes, NEW o \in Objects, AliveSteps(o), dying' = dying
  PROVE  Alive'
<1> USE DEF Alive, AliveSteps
<1>1. \A r \in Refs : target'[r] # NULL => memory'[target'[r]] = "live"
    OBVIOUS
<1>2. ASSUME NEW t \in Threads, dying'[t] # NULL
      PROVE  /\ memory'[dying'[t]] = "live"
             /\ \A r \in Refs : target'[r] # dying'[t]
             /\ \A u \in Threads : dying'[u] = dying'[t] => u = t
    BY <1>2
<1>3. ASSUME NEW t \in Threads, dying'[t] # NULL
      PROVE  /\ pc'[t] # "free" => Deallocating(dying[t])'
             /\ pc'[t] = "free" =>
                  side'[dying'[t]] = NoSide /\ referrers'[dying'[t]] = {}
    BY <1>3 DEF Deallocating, IsaFlags, SideFlags, CallTypes
<1>4. QED
    BY <1>1, <1>2, <1>3

\* The step that begins the deallocation of o.
LEMMA DeathStep ==
  ASSUME Alive, CallTypes, NEW o \in Objects, AliveSteps(o),
         NEW t \in Threads, dying[t] = NULL, dying' = [dying EXCEPT ![t] = o],
         memory[o] = "live", pc'[t] # "free",
         IF isa'[o].nonpointer THEN isa'[o].dealloc ELSE side'[o].dealloc,
         \A r \in Refs : target'[r] # o
  PROVE  Alive'
<1> USE DEF Alive, AliveSteps
<1>1. \A r \in Refs : target'[r] # NULL => memory'[target'[r]] = "live"
    OBVIOUS
<1>2. dying'[t] = o /\ \A u \in Threads : u # t => dying'[u] = dying[u]
    BY DEF CallTypes
<1>3. ASSUME NEW u \in Threads, dying'[u] # NULL
      PROVE  /\ memory'[dying'[u]] = "live"
             /\ \A r \in Refs : target'[r] # dying'[u]
             /\ \A v \in Threads : dying'[v] = dying'[u] => v = u
    BY <1>2, <1>3
<1>4. ASSUME NEW u \in Threads, dying[u] # NULL, u # t
      PROVE  /\ pc'[u] # "free" => Deallocating(dying[u])'
             /\ pc'[u] = "free" =>
                  side'[dying[u]] = NoSide /\ referrers'[dying[u]] = {}
    BY <1>4 DEF Deallocating, IsaFlags, SideFlags, CallTypes
<1>5. QED
    BY <1>1, <1>2, <1>3, <1>4 DEF Deallocating

LEMMA AliveUnchanged ==
  ASSUME Alive, UNCHANGED <<isa, side, referrers, memory, target, dying>>,
         \A u \in Threads : pc'[u] = "free" <=> pc[u] = "free"
  PROVE  Alive'
  BY DEF Alive, Deallocating, NoSide

\* Nor does anything else that happens to such an object.
LEMMA AliveElsewhere ==
  ASSUME Alive, CallTypes, NEW o \in Objects, \A u \in Threads : dying[u] # o,
         UNCHANGED <<referrers, memory, target, dying>>,
         \A u \in Threads : pc'[u] = "free" <=> pc[u] = "free",
         \A p \in Objects \ {o} : /\ isa'[p] = isa[p]
                                  /\ side'[p] = side[p]
  PROVE  Alive'
<1>1. ASSUME NEW t \in Threads, dying'[t] # NULL
      PROVE  /\ pc'[t] # "free" => Deallocating(dying[t])'
             /\ pc'[t] = "free" =>
                  side'[dying'[t]] = NoSide /\ referrers'[dying'[t]] = {}
    BY <1>1 DEF Alive, Deallocating, CallTypes
<1>2. QED
    BY <1>1 DEF Alive

\* A deallocated object leaves nothing behind that is being deallocated.
LEMMA AliveAfterFree ==
  ASSUME Alive, WorldTypes, CallTypes, NEW t \in Threads, dying[t] # NULL,
         memory' = [memory EXCEPT ![dying[t]] = "freed"],
         dying' = [dying EXCEPT ![t] = NULL],
         UNCHANGED <<isa, side, referrers, target>>,
         \A u \in Threads : u # t => pc'[u] = pc[u]
  PROVE  Alive'
<1>1. \A r \in Refs : target'[r] # NULL => memory'[target'[r]] = "live"
    BY DEF Alive, WorldTypes
<1>2. dying'[t] = NULL /\ \A u \in Threads : u # t => dying'[u] = dying[u]
    BY DEF CallTypes
<1>3. ASSUME NEW u \in Threads, dying'[u] # NULL
      PROVE  u # t /\ dying'[u] # dying[t]
    BY <1>2, <1>3 DEF Alive
<1>4. \A p \in Objects : p # dying[t] => memory'[p] = memory[p]
    BY DEF WorldTypes
<1>5. QED
    BY <1>1, <1>2, <1>3, <1>4 DEF Alive, Deallocating, CallTypes, NoSide

\* Whoever holds a reference keeps the object alive, and one thread alone
\* deallocates an object, after its last reference has gone.
LEMMA StepAlive == IInv /\ [Next]_objcVars => Alive'
<1> SUFFICES ASSUME WorldTypes, CallTypes, WordTypes, Calls, Exclusive, Locked
             ,
                    Consistent, Followed, Moving, Registered, Alive,
                      CountsAgree,
                    [Next]_objcVars
             PROVE  Alive'
    BY DEF IInv
<1>1. ASSUME NEW t \in Threads, NEW o \in Objects, NEW r \in Refs,
               NEW np \in BOOLEAN, Alloc(t, o, r, np)
      PROVE  Alive'
  <2>1. /\ memory[o] = "freed" /\ memory' = [memory EXCEPT ![o] = "live"]
        /\ target' = [target EXCEPT ![r] = o]
        /\ isa' = [isa EXCEPT ![o] = FreshIsa(np)]
        /\ UNCHANGED <<side, referrers, pc, dying>>
      BY <1>1 DEF Alloc, weakVars, callVars
  <2>2. \A u \in Threads : dying[u] # NULL => dying[u] # o
          /\ dying[u] \in Objects
      BY <2>1 DEF Alive, CallTypes
  <2>3. ASSUME NEW u \in Threads, dying'[u] # NULL
        PROVE  /\ pc'[u] # "free" => Deallocating(dying[u])'
               /\ pc'[u] = "free" =>
                    side'[dying'[u]] = NoSide /\ referrers'[dying'[u]] = {}
      BY <2>1, <2>2, <2>3 DEF Alive, Deallocating, CallTypes, WordTypes
  <2>4. \A q \in Refs : target'[q] # NULL => memory'[target'[q]] = "live"
      BY <2>1 DEF Alive, WorldTypes
  <2>5. ASSUME NEW u \in Threads, dying'[u] # NULL
        PROVE  /\ memory'[dying'[u]] = "live"
               /\ \A q \in Refs : target'[q] # dying'[u]
               /\ \A v \in Threads : dying'[v] = dying'[u] => v = u
      BY <2>1, <2>2, <2>5 DEF Alive, WorldTypes
  <2>6. QED
      BY <2>1, <2>3, <2>4, <2>5 DEF Alive
<1>2. ASSUME NEW t \in Threads, NEW k \in Refs, NEW r \in Refs,
               Retain(t, k, r)
      PROVE  Alive'
  <2>1. target[k] \in Objects /\ memory[target[k]] = "live"
      BY <1>2, RefcountAssumption
         DEF Retain, CallTypes, WorldTypes, Calls, Alive, Registered,
             Retaining, Releasing
  <2>2. \A u \in Threads : dying[u] # target[k]
      BY <1>2, <2>1, RefcountAssumption
         DEF Retain, Alive, Calls, Retaining, Releasing
  <2>3. IsaFlags /\ SideFlags(target[k])
      BY <1>2, <2>1, IsaFlagsKept, SideFlagsKept DEF Retain
  <2>4. AliveSteps(target[k])
      BY <1>2, <2>1, <2>2, <2>3, RefcountAssumption
         DEF Retain, AliveSteps, Gain, Lose, WorldTypes, CallTypes, Calls,
             weakVars, Idle, Return, Goto, GoOn, callVars, Storing, Retaining,
             Releasing
  <2>5. QED
      BY <1>2, <2>1, <2>4, AliveStays DEF Retain
<1>3. ASSUME NEW t \in Threads, NEW r \in Refs, Release(t, r)
      PROVE  Alive'
  <2>1. target[r] \in Objects /\ memory[target[r]] = "live"
      BY <1>3, RefcountAssumption
         DEF Release, CallTypes, WorldTypes, Calls, Alive, Registered,
             Retaining, Releasing
  <2>2. \A u \in Threads : dying[u] # target[r]
      BY <1>3, <2>1, RefcountAssumption
         DEF Release, Alive, Calls, Retaining, Releasing
  <2>3. IsaFlags /\ SideFlags(target[r])
      BY <1>3, <2>1, IsaFlagsKept, SideFlagsKept DEF Release
  <2>4. AliveSteps(target[r])
      BY <1>3, <2>1, <2>2, <2>3, RefcountAssumption
         DEF Release, AliveSteps, Gain, Lose, WorldTypes, CallTypes, Calls,
             weakVars, Idle, Return, Goto, GoOn, callVars, Storing, Retaining,
             Releasing
  <2>5. CASE dying' = dying
      BY <2>1, <2>4, <2>5, AliveStays
  <2>6. CASE dying' # dying
    <3>1. /\ isa[target[r]].nonpointer /\ isa[target[r]].extra = 0
          /\ ~isa[target[r]].sided /\ MarkDead(t, target[r]) /\ Lose(r)
          /\ side' = side /\ pc' = pc /\ pc[t] = "idle" /\ dying[t] = NULL
        BY <1>3, <2>6 DEF Release, Idle, callVars
    <3>2. side[target[r]].rc = 0
        BY <2>1, <3>1 DEF Consistent, Fits
    <3>3. Transit(target[r]) = 0
        BY <2>1, <3>1, NoTransit, RefcountAssumption
    <3>4. \A q \in Refs : target'[q] # target[r]
        BY <2>1, <3>1, <3>2, <3>3, LastGone, RefcountAssumption
    <3>5. (IF isa'[target[r]].nonpointer THEN isa'[target[r]].dealloc ELSE side'[target[r]].dealloc)
        BY <2>1, <3>1 DEF MarkDead, WordTypes, Words
    <3>6. QED
        BY <2>1, <2>4, <3>1, <3>4, <3>5, DeathStep DEF MarkDead
  <2>7. QED
      BY <2>5, <2>6
<1>4. ASSUME NEW t \in Threads, NEW k \in Refs, MakeRaw(t, k)
      PROVE  Alive'
  <2> DEFINE o == target[k]
  <2>1. /\ o \in Objects /\ \A u \in Threads : dying[u] # o
        /\ UNCHANGED <<referrers, memory, target, dying>>
        /\ \A u \in Threads : pc'[u] = "free" <=> pc[u] = "free"
      BY <1>4, RefcountAssumption
         DEF MakeRaw, WorldTypes, CallTypes, Calls, Alive, weakVars, Idle,
             Return, Goto, GoOn, callVars, Storing, Retaining, Releasing
  <2>2. \A p \in Objects \ {o} : isa'[p] = isa[p] /\ side'[p] = side[p]
      BY <1>4, <2>1 DEF MakeRaw, WordTypes
  <2> HIDE DEF o
  <2>3. QED
      BY <2>1, <2>2, AliveElsewhere
<1>5. ASSUME NEW t \in Threads, NEW w \in Slots,
        NEW o \in Objects \cup {NULL},
               NEW k \in Refs \cup {NULL}, StoreWeak(t, w, o, k)
      PROVE  Alive'
  <2>1. /\ UNCHANGED <<isa, side, referrers, memory, target, dying>>
        /\ \A u \in Threads : pc'[u] = "free" <=> pc[u] = "free"
      BY <1>5
         DEF StoreWeak, CallTypes, Calls, isaVars, weakVars, Idle, Return,
             Goto, GoOn, callVars, Storing, Retaining, Releasing
  <2>2. QED
      BY <2>1, AliveUnchanged
<1>6. ASSUME NEW t \in Threads, NEW w \in Slots, NEW r \in Refs,
               LoadWeak(t, w, r)
      PROVE  Alive'
  <2>1. /\ UNCHANGED <<isa, side, referrers, memory, target, dying>>
        /\ \A u \in Threads : pc'[u] = "free" <=> pc[u] = "free"
      BY <1>6
         DEF LoadWeak, CallTypes, Calls, isaVars, weakVars, Idle, Return,
             Goto, GoOn, callVars, Storing, Retaining, Releasing
  <2>2. QED
      BY <2>1, AliveUnchanged
<1>7. ASSUME NEW t \in Threads, RetainOverflow(t)
      PROVE  Alive'
  <2>1. obj[t] \in Objects /\ memory[obj[t]] = "live"
      BY <1>7, RefcountAssumption
         DEF RetainOverflow, CallTypes, WorldTypes, Calls, Alive, Registered,
             Retaining, Releasing
  <2>2. \A u \in Threads : dying[u] # obj[t]
      BY <1>7, <2>1, RefcountAssumption
         DEF RetainOverflow, Alive, Calls, Retaining, Releasing
  <2>3. IsaFlags /\ SideFlags(obj[t])
      BY <1>7, <2>1, IsaFlagsKept, SideFlagsKept DEF RetainOverflow
  <2>4. AliveSteps(obj[t])
      BY <1>7, <2>1, <2>2, <2>3, RefcountAssumption
         DEF RetainOverflow, AliveSteps, Gain, Lose, WorldTypes, CallTypes,
             Calls, weakVars, Idle, Return, Goto, GoOn, callVars, Storing,
             Retaining, Releasing
  <2>5. QED
      BY <1>7, <2>1, <2>4, AliveStays DEF RetainOverflow
<1>8. ASSUME NEW t \in Threads, AddSide(t)
      PROVE  Alive'
  <2>1. obj[t] \in Objects /\ memory[obj[t]] = "live"
      BY <1>8, RefcountAssumption
         DEF AddSide, CallTypes, WorldTypes, Calls, Alive, Registered,
             Retaining, Releasing
  <2>2. \A u \in Threads : dying[u] # obj[t]
      BY <1>8, <2>1, RefcountAssumption
         DEF AddSide, Alive, Calls, Retaining, Releasing
  <2>3. IsaFlags /\ SideFlags(obj[t])
      BY <1>8, <2>1, IsaFlagsKept, SideFlagsKept DEF AddSide
  <2>4. AliveSteps(obj[t])
      BY <1>8, <2>1, <2>2, <2>3, RefcountAssumption
         DEF AddSide, AliveSteps, Gain, Lose, WorldTypes, CallTypes, Calls,
             weakVars, Idle, Return, Goto, GoOn, callVars, Storing, Retaining,
             Releasing
  <2>5. QED
      BY <1>8, <2>1, <2>4, AliveStays DEF AddSide
<1>9. ASSUME NEW t \in Threads, RawRetain(t)
      PROVE  Alive'
  <2>1. obj[t] \in Objects /\ memory[obj[t]] = "live"
      BY <1>9, RefcountAssumption
         DEF RawRetain, CallTypes, WorldTypes, Calls, Alive, Registered,
             Retaining, Releasing
  <2>2. \A u \in Threads : dying[u] # obj[t]
      BY <1>9, <2>1, RefcountAssumption
         DEF RawRetain, Alive, Calls, Retaining, Releasing
  <2>3. IsaFlags /\ SideFlags(obj[t])
      BY <1>9, <2>1, IsaFlagsKept, SideFlagsKept DEF RawRetain
  <2>4. AliveSteps(obj[t])
      BY <1>9, <2>1, <2>2, <2>3, RefcountAssumption
         DEF RawRetain, AliveSteps, Gain, Lose, WorldTypes, CallTypes, Calls,
             weakVars, Idle, Return, Goto, GoOn, callVars, Storing, Retaining,
             Releasing
  <2>5. QED
      BY <1>9, <2>1, <2>4, AliveStays DEF RawRetain
<1>10. ASSUME NEW t \in Threads, ReleaseUnderflow(t)
      PROVE  Alive'
  <2>1. obj[t] \in Objects /\ memory[obj[t]] = "live"
      BY <1>10, RefcountAssumption
         DEF ReleaseUnderflow, CallTypes, WorldTypes, Calls, Alive,
             Registered, Retaining, Releasing
  <2>2. \A u \in Threads : dying[u] # obj[t]
      BY <1>10, <2>1, RefcountAssumption
         DEF ReleaseUnderflow, Alive, Calls, Retaining, Releasing
  <2>3. IsaFlags /\ SideFlags(obj[t])
      BY <1>10, <2>1, IsaFlagsKept, SideFlagsKept DEF ReleaseUnderflow
  <2>4. AliveSteps(obj[t])
      BY <1>10, <2>1, <2>2, <2>3, RefcountAssumption
         DEF ReleaseUnderflow, AliveSteps, Gain, Lose, WorldTypes, CallTypes,
             Calls, weakVars, Idle, Return, Goto, GoOn, callVars, Storing,
             Retaining, Releasing
  <2>5. CASE dying' = dying
      BY <2>1, <2>4, <2>5, AliveStays
  <2>6. CASE dying' # dying
    <3>1. /\ isa[obj[t]].nonpointer /\ isa[obj[t]].extra = 0
          /\ side[obj[t]].rc = 0 /\ MarkDead(t, obj[t]) /\ Lose(ref[t])
          /\ side' = side /\ pc'[t] = "idle"
        BY <1>10, <2>6 DEF ReleaseUnderflow, Return, CallTypes
    <3>2. /\ ref[t] \in Refs /\ target[ref[t]] = obj[t] /\ dying[t] = NULL
          /\ pc[t] \in {"underflow", "again"}
        BY <1>10 DEF ReleaseUnderflow, Calls, Releasing, Storing
    <3>3. Unlocked(obj[t]) \/ Holder(obj[t]) = t
        BY <1>10 DEF ReleaseUnderflow, Locked, Holder
    <3>4. Transit(obj[t]) = 0
        BY <2>1, <3>2, <3>3, NoTransit, RefcountAssumption
    <3>5. \A q \in Refs : target'[q] # obj[t]
        BY <2>1, <3>1, <3>2, <3>4, LastGone, RefcountAssumption
    <3>6. (IF isa'[obj[t]].nonpointer THEN isa'[obj[t]].dealloc ELSE side'[obj[t]].dealloc)
        BY <2>1, <3>1 DEF MarkDead, WordTypes, Words
    <3>7. QED
        BY <2>1, <2>4, <3>1, <3>2, <3>5, <3>6, DeathStep
           DEF MarkDead
  <2>7. QED
      BY <2>5, <2>6
<1>11. ASSUME NEW t \in Threads, Repay(t)
      PROVE  Alive'
  <2>1. obj[t] \in Objects /\ memory[obj[t]] = "live"
      BY <1>11, RefcountAssumption
         DEF Repay, CallTypes, WorldTypes, Calls, Alive, Registered,
             Retaining, Releasing
  <2>2. \A u \in Threads : dying[u] # obj[t]
      BY <1>11, <2>1, RefcountAssumption
         DEF Repay, Alive, Calls, Retaining, Releasing
  <2>3. IsaFlags /\ SideFlags(obj[t])
      BY <1>11, <2>1, IsaFlagsKept, SideFlagsKept DEF Repay
  <2>4. AliveSteps(obj[t])
      BY <1>11, <2>1, <2>2, <2>3, RefcountAssumption
         DEF Repay, AliveSteps, Gain, Lose, WorldTypes, CallTypes, Calls,
             weakVars, Idle, Return, Goto, GoOn, callVars, Storing, Retaining,
             Releasing
  <2>5. QED
      BY <1>11, <2>1, <2>4, AliveStays DEF Repay
<1>12. ASSUME NEW t \in Threads, PutBack(t)
      PROVE  Alive'
  <2>1. obj[t] \in Objects /\ memory[obj[t]] = "live"
      BY <1>12, RefcountAssumption
         DEF PutBack, CallTypes, WorldTypes, Calls, Alive, Registered,
             Retaining, Releasing
  <2>2. \A u \in Threads : dying[u] # obj[t]
      BY <1>12, <2>1, RefcountAssumption
         DEF PutBack, Alive, Calls, Retaining, Releasing
  <2>3. IsaFlags /\ SideFlags(obj[t])
      BY <1>12, <2>1, IsaFlagsKept, SideFlagsKept DEF PutBack
  <2>4. AliveSteps(obj[t])
      BY <1>12, <2>1, <2>2, <2>3, RefcountAssumption
         DEF PutBack, AliveSteps, Gain, Lose, WorldTypes, CallTypes, Calls,
             weakVars, Idle, Return, Goto, GoOn, callVars, Storing, Retaining,
             Releasing
  <2>5. QED
      BY <1>12, <2>1, <2>4, AliveStays DEF PutBack
<1>13. ASSUME NEW t \in Threads, RawRelease(t)
      PROVE  Alive'
  <2>1. obj[t] \in Objects /\ memory[obj[t]] = "live"
      BY <1>13, RefcountAssumption
         DEF RawRelease, CallTypes, WorldTypes, Calls, Alive, Registered,
             Retaining, Releasing
  <2>2. \A u \in Threads : dying[u] # obj[t]
      BY <1>13, <2>1, RefcountAssumption
         DEF RawRelease, Alive, Calls, Retaining, Releasing
  <2>3. IsaFlags /\ SideFlags(obj[t])
      BY <1>13, <2>1, IsaFlagsKept, SideFlagsKept DEF RawRelease
  <2>4. AliveSteps(obj[t])
      BY <1>13, <2>1, <2>2, <2>3, RefcountAssumption
         DEF RawRelease, AliveSteps, Gain, Lose, WorldTypes, CallTypes, Calls,
             weakVars, Idle, Return, Goto, GoOn, callVars, Storing, Retaining,
             Releasing
  <2>5. CASE dying' = dying
      BY <2>1, <2>4, <2>5, AliveStays
  <2>6. CASE dying' # dying
    <3>1. /\ side[obj[t]].rc = 0
               /\ side' = [side EXCEPT ![obj[t]].dealloc = TRUE]
          /\ dying' = [dying EXCEPT ![t] = obj[t]] /\ Lose(ref[t])
          /\ isa' = isa /\ pc'[t] = "idle" /\ Unlocked(obj[t])
        BY <1>13, <2>6 DEF RawRelease, Return, CallTypes
    <3>2. /\ ref[t] \in Refs /\ target[ref[t]] = obj[t] /\ dying[t] = NULL
          /\ ~isa[obj[t]].nonpointer
        BY <1>13 DEF RawRelease, Calls, Followed, Releasing, Storing
    <3>3. Transit(obj[t]) = 0
        BY <2>1, <3>1, NoTransit, RefcountAssumption
    <3>4. isa[obj[t]].extra = 0
        BY <2>1, <3>2 DEF Consistent, Fits
    <3>5. \A q \in Refs : target'[q] # obj[t]
        BY <2>1, <3>1, <3>2, <3>3, <3>4, LastGone, RefcountAssumption
    <3>6. (IF isa'[obj[t]].nonpointer THEN isa'[obj[t]].dealloc ELSE side'[obj[t]].dealloc)
        BY <2>1, <3>1, <3>2 DEF WordTypes, Entries
    <3>7. QED
        BY <2>1, <2>4, <3>1, <3>2, <3>5, <3>6, DeathStep
  <2>7. QED
      BY <2>5, <2>6
<1>14. ASSUME NEW t \in Threads, MoveExtra(t)
      PROVE  Alive'
  <2> DEFINE o == obj[t]
  <2>1. /\ o \in Objects /\ \A u \in Threads : dying[u] # o
        /\ UNCHANGED <<referrers, memory, target, dying>>
        /\ \A u \in Threads : pc'[u] = "free" <=> pc[u] = "free"
      BY <1>14, RefcountAssumption
         DEF MoveExtra, WorldTypes, CallTypes, Calls, Alive, weakVars, Idle,
             Return, Goto, GoOn, callVars, Storing, Retaining, Releasing
  <2>2. \A p \in Objects \ {o} : isa'[p] = isa[p] /\ side'[p] = side[p]
      BY <1>14, <2>1 DEF MoveExtra, WordTypes
  <2> HIDE DEF o
  <2>3. QED
      BY <2>1, <2>2, AliveElsewhere
<1>15. ASSUME NEW t \in Threads, LockTwo(t)
      PROVE  Alive'
  <2>1. /\ UNCHANGED <<isa, side, referrers, memory, target, dying>>
        /\ \A u \in Threads : pc'[u] = "free" <=> pc[u] = "free"
      BY <1>15
         DEF LockTwo, CallTypes, Calls, isaVars, weakVars, Idle, Return, Goto,
             GoOn, callVars, Storing, Retaining, Releasing
  <2>2. QED
      BY <2>1, AliveUnchanged
<1>16. ASSUME NEW t \in Threads, StoreRetry(t)
      PROVE  Alive'
  <2>1. /\ UNCHANGED <<isa, side, referrers, memory, target, dying>>
        /\ \A u \in Threads : pc'[u] = "free" <=> pc[u] = "free"
      BY <1>16
         DEF StoreRetry, CallTypes, Calls, isaVars, weakVars, Idle, Return,
             Goto, GoOn, callVars, Storing, Retaining, Releasing
  <2>2. QED
      BY <2>1, AliveUnchanged
<1>17. ASSUME NEW t \in Threads, StoreCommit(t)
      PROVE  Alive'
  <2> DEFINE n == IF new[t] # NULL
        /\ Deallocating(new[t]) THEN NULL ELSE new[t]
  <2>1. /\ IF n = NULL THEN UNCHANGED isaVars ELSE SetWeakly(n)
        /\ pc[t] = "store"
        /\ UNCHANGED <<memory, target, dying>>
        /\ \A p \in Objects : p # n => referrers'[p] \subseteq referrers[p]
        /\ \A u \in Threads : pc'[u] = "free" <=> pc[u] = "free"
      BY <1>17 DEF StoreCommit, Return, CallTypes
  <2>2. n # NULL => n \in Objects /\ \A u \in Threads : dying[u] = n => u = t
      BY <2>1 DEF Calls, CallTypes, Alive, Storing
  <2>3. \A p \in Objects : /\ isa'[p].nonpointer = isa[p].nonpointer
                           /\ isa'[p].dealloc = isa[p].dealloc
                           /\ side'[p].dealloc = side[p].dealloc
                           /\ p # n => side'[p] = side[p]
      BY <2>1, <2>2 DEF SetWeakly, WordTypes, Words, Entries, isaVars
  <2> HIDE DEF n
  <2>4. ASSUME NEW u \in Threads, dying'[u] # NULL
        PROVE  /\ pc'[u] # "free" => Deallocating(dying[u])'
               /\ pc'[u] = "free" =>
                    side'[dying'[u]] = NoSide /\ referrers'[dying'[u]] = {}
    <3>1. dying[u] \in Objects /\ (pc[u] = "free" => dying[u] # n)
        BY <2>1, <2>2, <2>4 DEF CallTypes
    <3>2. QED
        BY <2>1, <2>3, <2>4, <3>1 DEF Alive, Deallocating
  <2>5. QED
      BY <2>1, <2>4 DEF Alive
<1>18. ASSUME NEW t \in Threads, LoadAgain(t)
      PROVE  Alive'
  <2>1. /\ UNCHANGED <<isa, side, referrers, memory, target, dying>>
        /\ \A u \in Threads : pc'[u] = "free" <=> pc[u] = "free"
      BY <1>18
         DEF LoadAgain, CallTypes, Calls, isaVars, weakVars, Idle, Return,
             Goto, GoOn, callVars, Storing, Retaining, Releasing
  <2>2. QED
      BY <2>1, AliveUnchanged
<1>19. ASSUME NEW t \in Threads, TryRetain(t)
      PROVE  Alive'
  <2>1. obj[t] \in Objects /\ memory[obj[t]] = "live"
      BY <1>19, RefcountAssumption
         DEF TryRetain, CallTypes, WorldTypes, Calls, Alive, Registered,
             Retaining, Releasing
  <2>2. ~Deallocating(obj[t]) => \A u \in Threads : dying[u] # obj[t]
      BY <1>19, <2>1, RefcountAssumption
         DEF TryRetain, Alive, Registered, Calls
  <2>3. CASE Deallocating(obj[t])
    <3>1. /\ UNCHANGED <<isa, side, referrers, memory, target, dying>>
          /\ \A u \in Threads : pc'[u] = "free" <=> pc[u] = "free"
        BY <1>19, <2>3 DEF TryRetain, isaVars, weakVars, Return, CallTypes
    <3>2. QED
        BY <3>1, AliveUnchanged
  <2>4. CASE ~Deallocating(obj[t])
    <3>1. IsaFlags /\ SideFlags(obj[t])
        BY <1>19, <2>1, IsaFlagsKept, SideFlagsKept DEF TryRetain, isaVars
    <3>2. AliveSteps(obj[t])
        BY <1>19, <2>1, <2>2, <2>4, <3>1, RefcountAssumption
           DEF TryRetain, AliveSteps, Gain, WorldTypes, CallTypes, weakVars,
               Idle, Return, Goto, GoOn, callVars, Storing, Retaining,
               Releasing
    <3>3. QED
        BY <1>19, <2>1, <3>2, AliveStays DEF TryRetain
  <2>5. QED
      BY <2>3, <2>4
<1>20. ASSUME NEW t \in Threads, FastFree(t)
      PROVE  Alive'
  <2>1. /\ dying[t] # NULL /\ memory' = [memory EXCEPT ![dying[t]] = "freed"]
        /\ dying' = [dying EXCEPT ![t] = NULL]
        /\ UNCHANGED <<isa, side, referrers, target, pc>>
      BY <1>20 DEF FastFree, isaVars, weakVars, callVars
  <2>2. QED
      BY <2>1, AliveAfterFree
<1>21. ASSUME NEW t \in Threads, ClearDeallocating(t)
      PROVE  Alive'
  <2> DEFINE o == dying[t]
             flag == IF isa[o].nonpointer THEN isa[o].weakly ELSE side[o].weakly
  <2>1. /\ o \in Objects /\ memory[o] = "live"
        /\ WeakClear(o, flag)
        /\ side' = [side EXCEPT ![o] = IF isa[o].nonpointer /\ ~isa[o].sided
                                       THEN @ ELSE NoSide]
        /\ UNCHANGED <<isa, memory, target, dying>>
        /\ \A u \in Threads : u # t => pc'[u] = pc[u]
        /\ pc'[t] = "free"
      BY <1>21 DEF ClearDeallocating, CallTypes, Alive, Goto, GoOn
  <2>2. referrers[o] # {} => flag
      BY <1>21, <2>1, RefcountAssumption
         DEF ClearDeallocating, Registered, Flagged, Calls, Alive
  <2> HIDE DEF flag
  <2>3. /\ referrers'[o] = {}
        /\ \A p \in Objects \ {o} : referrers'[p] = referrers[p]
      BY <2>1, <2>2 DEF WeakClear, WorldTypes
  <2>4. \A p \in Objects \ {o} : side'[p] = side[p]
      BY <2>1 DEF WordTypes
  <2>5. side'[o] = NoSide
    <3>1. CASE isa[o].nonpointer /\ ~isa[o].sided
      <4>1. side[o].rc = 0 /\ ~side[o].dealloc /\ ~side[o].weakly
          BY <2>1, <3>1 DEF Consistent, Fits
      <4>2. side[o] = NoSide
          BY <2>1, <4>1 DEF NoSide, WordTypes, Entries
      <4>3. QED
          BY <2>1, <3>1, <4>2 DEF WordTypes
    <3>2. CASE ~(isa[o].nonpointer /\ ~isa[o].sided)
        BY <2>1, <3>2 DEF WordTypes
    <3>3. QED
        BY <3>1, <3>2
  <2>6. ASSUME NEW u \in Threads, dying[u] # NULL, u # t
        PROVE  /\ pc'[u] # "free" => Deallocating(dying[u])'
               /\ pc'[u] = "free" =>
                    side'[dying[u]] = NoSide /\ referrers'[dying[u]] = {}
    <3>1. dying[u] \in Objects \ {o}
        BY <2>1, <2>6 DEF Alive, CallTypes
    <3> HIDE DEF o
    <3>2. QED
        BY <2>1, <2>3, <2>4, <2>6, <3>1 DEF Alive, Deallocating
  <2>7. QED
      BY <2>1, <2>3, <2>5, <2>6 DEF Alive
<1>22. ASSUME NEW t \in Threads, Free(t)
      PROVE  Alive'
  <2>1. /\ dying[t] # NULL /\ memory' = [memory EXCEPT ![dying[t]] = "freed"]
        /\ dying' = [dying EXCEPT ![t] = NULL]
        /\ UNCHANGED <<isa, side, referrers, target>>
        /\ \A u \in Threads : u # t => pc'[u] = pc[u]
      BY <1>22 DEF Free, Return, Calls, CallTypes, isaVars, weakVars
  <2>2. QED
      BY <2>1, AliveAfterFree
<1>23. ASSUME UNCHANGED objcVars  PROVE Alive'
    BY <1>23, AliveUnchanged DEF objcVars, isaVars, weakVars, callVars
<1> HIDE DEF Alive
<1>24. QED
    BY <1>1, <1>2, <1>3, <1>4, <1>5, <1>6, <1>7, <1>8, <1>9, <1>10, <1>11,
       <1>12, <1>13, <1>14, <1>15, <1>16, <1>17, <1>18, <1>19, <1>20,
       <1>21, <1>22, <1>23 DEF Next, Begin, Continue

-----------------------------------------------------------------------------
(* The counts                                                              *)

\* What a step of t may do to the locks and to the other calls.
LockMoves(t) ==
    \A s \in Stripes : \/ lock'[s] = lock[s]
                       \/ lock[s] \in {NULL, t} /\ lock'[s] \in {NULL, t}

OthersStay(t) == \A u \in Threads : u # t => /\ pc'[u] = pc[u]
                                             /\ obj'[u] = obj[u]
                                             /\ moved'[u] = moved[u]

\* The step of t counts no object but o.
CountsOnly(t, o) ==
    \A p \in Objects \ {o} :
        /\ memory'[p] = "live" => memory[p] = "live"
        /\ isa'[p].extra = isa[p].extra /\ side'[p].rc = side[p].rc
        /\ \A r \in Refs : target'[r] = p <=> target[r] = p
        /\ (\A u \in Threads : dying'[u] # p)
             => (\A u \in Threads : dying[u] # p)
        /\ InFlight(p, t) = 0 /\ InFlight(p, t)' = 0

\* What is in flight is a number.
LEMMA TransitType ==
  ASSUME WorldTypes, Calls, NEW o \in Objects
  PROVE  Transit(o) \in Nat
<1>1. Half \in Nat
    BY RefcountAssumption
<1>2. ASSUME NEW t \in Threads  PROVE InFlight(o, t) \in Nat
    BY <1>1 DEF InFlight, Calls, Words, Most
<1>3. Holder(o) \in Threads \cup {NULL}
    BY DEF Holder, WorldTypes, Stripes
<1>4. QED
    BY <1>2, <1>3 DEF Transit

\* A step of t on o takes nothing of another object into its hands.
LEMMA TransitStays ==
  ASSUME WorldTypes, NEW o \in Objects, NEW t \in Threads, LockMoves(t),
         OthersStay(t), InFlight(o, t) = 0, InFlight(o, t)' = 0
  PROVE  Transit(o)' = Transit(o)
<1>1. Stripe[o] \in Stripes /\ NULL \notin Threads
    BY RefcountAssumption DEF Stripes
<1>2. ASSUME NEW u \in Threads, u # t  PROVE InFlight(o, u)' = InFlight(o, u)
    BY <1>2 DEF InFlight, OthersStay
<1>3. CASE lock'[Stripe[o]] = lock[Stripe[o]]
  <2>1. CASE lock[Stripe[o]] \in {NULL, t}
      BY <1>1, <1>3, <2>1 DEF Transit, Holder
  <2>2. CASE lock[Stripe[o]] \in Threads \ {t}
      BY <1>1, <1>2, <1>3, <2>2 DEF Transit, Holder
  <2>3. QED
      BY <1>1, <2>1, <2>2 DEF WorldTypes
<1>4. CASE lock[Stripe[o]] \in {NULL, t} /\ lock'[Stripe[o]] \in {NULL, t}
    BY <1>1, <1>4 DEF Transit, Holder
<1>5. QED
    BY <1>1, <1>3, <1>4 DEF LockMoves

\* It remains to show that the count of o is right.
LEMMA OneCounted ==
  ASSUME WorldTypes, Alive', CountsAgree, NEW t \in Threads,
         NEW o \in Objects \cup {NULL},
         LockMoves(t), OthersStay(t), CountsOnly(t, o),
         o # NULL /\ memory'[o] = "live" /\ (\A u \in Threads : dying'[u] # o)
           => RefsTo(o)' = 1 + isa'[o].extra + side'[o].rc + Transit(o)'
  PROVE  CountsAgree'
<1>1. ASSUME NEW p \in Objects, memory'[p] = "live",
             NEW u \in Threads, dying'[u] = p
      PROVE  RefsTo(p)' = 0
  <2>1. \A r \in Refs : target'[r] \notin {p}
      BY <1>1, RefcountAssumption DEF Alive
  <2>2. QED
      BY <2>1, CountType, RefcountAssumption DEF RefsTo
<1>2. ASSUME NEW p \in Objects, memory'[p] = "live",
             \A u \in Threads : dying'[u] # p
      PROVE  RefsTo(p)' = 1 + isa'[p].extra + side'[p].rc + Transit(p)'
  <2>1. CASE p = o
      BY <1>2, <2>1, RefcountAssumption
  <2>2. CASE p # o
    <3>1. /\ memory[p] = "live" /\ \A u \in Threads : dying[u] # p
          /\ isa'[p].extra = isa[p].extra /\ side'[p].rc = side[p].rc
          /\ InFlight(p, t) = 0 /\ InFlight(p, t)' = 0
        BY <1>2, <2>2 DEF CountsOnly
    <3>2. RefsTo(p) = 1 + isa[p].extra + side[p].rc + Transit(p)
        BY <3>1, CountsAre
    <3>3. Transit(p)' = Transit(p)
        BY <3>1, TransitStays
    <3>4. {r \in Refs : target'[r] = p} = {r \in Refs : target[r] = p}
        BY <2>2 DEF CountsOnly
    <3>5. RefsTo(p)' = RefsTo(p)
        BY <3>4, CardinalityIsCount DEF RefsTo
    <3>6. QED
        BY <3>1, <3>2, <3>3, <3>5
  <2>3. QED
      BY <2>1, <2>2
<1>3. ASSUME NEW p \in Objects
      PROVE  Cardinality({r \in Refs : target'[r] = p}) = RefsTo(p)'
    BY CardinalityIsCount DEF RefsTo
<1>4. QED
    BY <1>1, <1>2, <1>3 DEF CountsAgree, Transit

\* The counts of o change by n, and those of the other objects stay.
RefsMove(o, n) ==
    /\ RefsTo(o)' = RefsTo(o) + n
    /\ \A p \in Objects \ {o}, q \in Refs : target'[q] = p <=> target[q] = p
ExtraMove(o, n) ==
    /\ isa'[o].extra = isa[o].extra + n
    /\ \A p \in Objects \ {o} : isa'[p].extra = isa[p].extra
RcMove(o, n) == /\ side'[o].rc = side[o].rc + n
                /\ \A p \in Objects \ {o} : side'[p].rc = side[p].rc
TransitMove(o, n) == Transit(o)' = Transit(o) + n

\* The references to an object after one of them changes.
LEMMA Recounted ==
  ASSUME NEW o, NEW r \in Refs, NEW x,
         \A q \in Refs : target'[q] = IF q = r THEN x ELSE target[q]
  PROVE  RefsTo(o)' = RefsTo(o) - Weight(target[r], {o}) + Weight(x, {o})
<1>1. IsFiniteSet(Refs)
    BY RefcountAssumption
<1>2. CountAt(Refs, target', {o})
        = CountAt(Refs, target, {o}) - Weight(target[r], {o}) + Weight(x, {o})
    BY <1>1, CountStep
<1>3. QED
    BY <1>2 DEF RefsTo

\* What the operators of the model count, place by place.
LEMMA RefsMoves ==
  ASSUME WorldTypes, NEW o \in Objects
  PROVE  /\ target' = target => RefsMove(o, 0)
         /\ \A r \in Refs : target[r] = NULL /\ Gain(r, o) => RefsMove(o, 1)
         /\ \A r \in Refs : target[r] = o /\ Lose(r) => RefsMove(o, -1)
<1>1. RefsTo(o) \in Nat
    BY CountType, RefcountAssumption DEF RefsTo
<1>2. ASSUME target' = target  PROVE RefsMove(o, 0)
  <2>1. RefsTo(o)' = RefsTo(o)
      BY <1>2 DEF RefsTo
  <2>2. QED
      BY <1>1, <1>2, <2>1 DEF RefsMove
<1>3. ASSUME NEW r \in Refs, target[r] = NULL, Gain(r, o)
      PROVE  RefsMove(o, 1)
  <2>1. \A q \in Refs : target'[q] = IF q = r THEN o ELSE target[q]
      BY <1>3 DEF Gain, WorldTypes
  <2>2. RefsTo(o)' = RefsTo(o) - Weight(target[r], {o}) + Weight(o, {o})
      BY <2>1, Recounted
  <2>3. Weight(target[r], {o}) = 0 /\ Weight(o, {o}) = 1
      BY <1>3, RefcountAssumption DEF Weight
  <2>4. RefsTo(o)' = RefsTo(o) + 1
      BY <1>1, <2>2, <2>3
  <2>5. QED
      BY <1>3, <2>1, <2>4, RefcountAssumption DEF RefsMove
<1>4. ASSUME NEW r \in Refs, target[r] = o, Lose(r)
      PROVE  RefsMove(o, -1)
  <2>1. \A q \in Refs : target'[q] = IF q = r THEN NULL ELSE target[q]
      BY <1>4 DEF Lose, WorldTypes
  <2>2. RefsTo(o)' = RefsTo(o) - Weight(target[r], {o}) + Weight(NULL, {o})
      BY <2>1, Recounted
  <2>3. Weight(target[r], {o}) = 1 /\ Weight(NULL, {o}) = 0
      BY <1>4, RefcountAssumption DEF Weight
  <2>4. RefsTo(o)' = RefsTo(o) + (-1)
      BY <1>1, <2>2, <2>3
  <2>5. QED
      BY <1>4, <2>1, <2>4, RefcountAssumption DEF RefsMove
<1>5. QED
    BY <1>2, <1>3, <1>4

LEMMA ExtraMoves ==
  ASSUME WordTypes, NEW o \in Objects
  PROVE  /\ isa' = isa => ExtraMove(o, 0)
         /\ Count(o, isa[o].extra + 1) => ExtraMove(o, 1)
         /\ Count(o, isa[o].extra - 1) => ExtraMove(o, -1)
         /\ Count(o, isa[o].extra + Half - 1) => ExtraMove(o, Half - 1)
         /\ Spill(o) /\ isa[o].extra = Most => ExtraMove(o, 1 - Half)
         /\ isa' = [isa EXCEPT ![o] = FreshIsa(FALSE)]
              => ExtraMove(o, 0 - isa[o].extra)
<1>1. isa[o].extra \in Nat /\ Half \in Nat
    BY FieldTypes
<1>2. ASSUME NEW n, Count(o, n)
      PROVE  /\ isa'[o].extra = n
             /\ \A p \in Objects \ {o} : isa'[p].extra = isa[p].extra
    BY <1>2 DEF Count, WordTypes, Words
<1>3. isa' = isa => ExtraMove(o, 0)
    BY <1>1 DEF ExtraMove
<1>4. Count(o, isa[o].extra + 1) => ExtraMove(o, 1)
    BY <1>2 DEF ExtraMove
<1>5. Count(o, isa[o].extra - 1) => ExtraMove(o, -1)
    BY <1>1, <1>2 DEF ExtraMove
<1>6. Count(o, isa[o].extra + Half - 1) => ExtraMove(o, Half - 1)
    BY <1>1, <1>2 DEF ExtraMove
<1>7. ASSUME Spill(o), isa[o].extra = Most  PROVE ExtraMove(o, 1 - Half)
  <2>1. /\ isa'[o].extra = Half
        /\ \A p \in Objects \ {o} : isa'[p].extra = isa[p].extra
      BY <1>7 DEF Spill, WordTypes, Words
  <2>2. QED
      BY <1>1, <1>7, <2>1 DEF ExtraMove, Most
<1>8. ASSUME isa' = [isa EXCEPT ![o] = FreshIsa(FALSE)]
      PROVE  ExtraMove(o, 0 - isa[o].extra)
  <2>1. /\ isa'[o].extra = 0
        /\ \A p \in Objects \ {o} : isa'[p].extra = isa[p].extra
      BY <1>8 DEF FreshIsa, WordTypes
  <2>2. QED
      BY <1>1, <2>1 DEF ExtraMove
<1>9. QED
    BY <1>3, <1>4, <1>5, <1>6, <1>7, <1>8

LEMMA RcMoves ==
  ASSUME WordTypes, NEW o \in Objects
  PROVE  /\ side' = side => RcMove(o, 0)
         /\ side' = [side EXCEPT ![o].rc = @ + 1] => RcMove(o, 1)
         /\ side' = [side EXCEPT ![o].rc = @ - 1] => RcMove(o, -1)
         /\ side' = [side EXCEPT ![o].rc = @ + Half] => RcMove(o, Half)
         /\ side' = [side EXCEPT ![o].rc = @ - Half] => RcMove(o, -Half)
<1>1. side[o].rc \in Nat /\ Half \in Nat
    BY FieldTypes
<1>2. ASSUME NEW n, side' = [side EXCEPT ![o].rc = n]
      PROVE  /\ side'[o].rc = n
             /\ \A p \in Objects \ {o} : side'[p].rc = side[p].rc
    BY <1>2 DEF WordTypes, Entries
<1>3. side' = side => RcMove(o, 0)
    BY <1>1 DEF RcMove
<1>4. side' = [side EXCEPT ![o].rc = side[o].rc + 1] => RcMove(o, 1)
    BY <1>2 DEF RcMove
<1>5. side' = [side EXCEPT ![o].rc = side[o].rc - 1] => RcMove(o, -1)
    BY <1>1, <1>2 DEF RcMove
<1>6. side' = [side EXCEPT ![o].rc = side[o].rc + Half] => RcMove(o, Half)
    BY <1>2 DEF RcMove
<1>7. side' = [side EXCEPT ![o].rc = side[o].rc - Half] => RcMove(o, -Half)
    BY <1>1, <1>2 DEF RcMove
<1>8. QED
    BY <1>3, <1>4, <1>5, <1>6, <1>7

\* What the step of t has nothing to do with, if it works on o.
Quiet(t, o) ==
    /\ memory' = memory
    /\ LockMoves(t) /\ OthersStay(t)
    /\ \A p \in Objects : dying[t] # p \/ dying'[t] = p
    /\ \A u \in Threads : u # t => dying'[u] = dying[u]
    /\ \A p \in Objects \ {o} : InFlight(p, t) = 0 /\ InFlight(p, t)' = 0

LEMMA TransitUnmoved ==
  ASSUME WorldTypes, Calls, NEW o \in Objects, NEW t \in Threads, Quiet(t, o),
         InFlight(o, t) = 0, InFlight(o, t)' = 0
  PROVE  TransitMove(o, 0)
  BY TransitStays, TransitType DEF TransitMove, Quiet

\* a references more, e of them inline and s in the side table: the rest is
\* what t takes into its hands.
LEMMA CountsBalance ==
  ASSUME WorldTypes, CallTypes, WordTypes, Calls, Alive', CountsAgree,
         NEW t \in Threads, NEW o \in Objects, memory[o] = "live",
         \A u \in Threads : dying[u] # o, Quiet(t, o),
         NEW a \in Int, NEW e \in Int, NEW s \in Int, NEW d \in Int,
         RefsMove(o, a), ExtraMove(o, e), RcMove(o, s), TransitMove(o, d),
         a = e + s + d
  PROVE  CountsAgree'
<1>1. RefsTo(o) = 1 + isa[o].extra + side[o].rc + Transit(o)
    BY CountsAre
<1>2. Transit(o) \in Nat /\ isa[o].extra \in Nat /\ side[o].rc \in Nat
    BY TransitType, FieldTypes
<1>3. RefsTo(o)' = 1 + isa'[o].extra + side'[o].rc + Transit(o)'
  <2>1. /\ isa'[o].extra = isa[o].extra + e /\ side'[o].rc = side[o].rc + s
        /\ RefsTo(o)' = RefsTo(o) + a /\ Transit(o)' = Transit(o) + d
      BY DEF ExtraMove, RcMove, RefsMove, TransitMove
  <2>2. QED
      BY <1>1, <1>2, <2>1
<1>4. CountsOnly(t, o)
    BY DEF CountsOnly, ExtraMove, RcMove, RefsMove, Quiet
<1>5. QED
    BY <1>3, <1>4, OneCounted DEF Quiet

\* A step that counts nothing.
LEMMA NothingCounted ==
  ASSUME WorldTypes, Alive', CountsAgree, NEW t \in Threads,
         LockMoves(t), OthersStay(t), UNCHANGED <<memory, target, dying>>,
         \A p \in Objects : isa'[p].extra = isa[p].extra
           /\ side'[p].rc = side[p].rc,
         pc[t] \notin {"addside", "borrowed", "move"},
         pc'[t] \notin {"addside", "borrowed", "move"}
  PROVE  CountsAgree'
<1>1. \A p \in Objects : InFlight(p, t) = 0 /\ InFlight(p, t)' = 0
    BY DEF InFlight
<1>2. CountsOnly(t, NULL)
    BY <1>1 DEF CountsOnly
<1>3. QED
    BY <1>2, OneCounted

\* Every step moves as much into one place as it takes out of the others.
LEMMA StepCounts == IInv /\ [Next]_objcVars => CountsAgree'
<1> SUFFICES ASSUME WorldTypes, CallTypes, WordTypes, Calls, Exclusive, Locked
             ,
                    Consistent, Followed, Moving, Registered, Alive,
                      CountsAgree,
                    [Next]_objcVars
             PROVE  CountsAgree'
    BY DEF IInv
<1>0. Alive'
    BY StepAlive DEF IInv
<1>1. ASSUME NEW t \in Threads, NEW o \in Objects, NEW r \in Refs,
               NEW np \in BOOLEAN, Alloc(t, o, r, np)
      PROVE  CountsAgree'
  <2>1. /\ memory[o] = "freed" /\ memory' = [memory EXCEPT ![o] = "live"]
        /\ isa' = [isa EXCEPT ![o] = FreshIsa(np)] /\ Gain(r, o)
        /\ target[r] = NULL /\ pc[t] = "idle"
        /\ UNCHANGED <<side, lock, pc, obj, moved, dying>>
      BY <1>1 DEF Alloc, Gain, Idle, callVars
  <2>2. LockMoves(t) /\ OthersStay(t)
      BY <2>1 DEF LockMoves, OthersStay
  <2>3. \A p \in Objects : InFlight(p, t) = 0 /\ InFlight(p, t)' = 0
      BY <2>1 DEF InFlight
  <2>4. /\ isa'[o].extra = 0 /\ side[o].rc = 0
        /\ \A p \in Objects \ {o} : isa'[p] = isa[p]
      BY <2>1 DEF FreshIsa, WordTypes, Registered, NoSide
  <2>5. RefsTo(o) = 0
    <3>1. \A q \in Refs : target[q] \notin {o}
        BY <2>1, RefcountAssumption DEF Alive
    <3>2. QED
        BY <3>1, CountType, RefcountAssumption DEF RefsTo
  <2>61. RefsMove(o, 1)
      BY <2>1, RefsMoves
  <2>6. RefsTo(o)' = 1
      BY <2>5, <2>61 DEF RefsMove
  <2>7. Transit(o) = 0
    <3>1. ASSUME NEW u \in Threads  PROVE InFlight(o, u) = 0
        BY <2>1, RefcountAssumption DEF InFlight, Calls, Alive, Releasing
    <3>2. QED
        BY <3>1 DEF Transit, Holder, WorldTypes, Stripes
  <2>8. Transit(o)' = 0
      BY <2>2, <2>3, <2>7, TransitStays
  <2>9. CountsOnly(t, o)
      BY <2>1, <2>3, <2>4, <2>61 DEF CountsOnly, RefsMove, WorldTypes
  <2>10. QED
      BY <2>1, <2>2, <2>4, <2>6, <2>8, <2>9, <1>0, OneCounted
<1>2. ASSUME NEW t \in Threads, NEW k \in Refs, NEW r \in Refs,
               Retain(t, k, r)
      PROVE  CountsAgree'
  <2>1. PICK o \in Objects : o = target[k] /\ memory[o] = "live"
      BY <1>2, RefcountAssumption
         DEF Retain, CallTypes, WorldTypes, Calls, Alive, Registered,
             Retaining, Releasing
  <2>2. \A u \in Threads : dying[u] # o
      BY <1>2, <2>1, RefcountAssumption
         DEF Retain, Alive, Calls, Retaining, Releasing
  <2>3. LockMoves(t) /\ OthersStay(t)
      BY <1>2, <2>1, RefcountAssumption
         DEF Retain, LockMoves, OthersStay, Acquire, ReleaseLocks, Unlocked,
             Stripes, WorldTypes, CallTypes, Idle, Return, Goto, GoOn,
             callVars, Storing, Retaining, Releasing, Locked
  <2>4. \A p \in Objects \ {o} : InFlight(p, t) = 0 /\ InFlight(p, t)' = 0
      BY <1>2, <2>1, RefcountAssumption
         DEF Retain, InFlight, CallTypes, Idle, Return, Goto, GoOn, callVars,
             Storing, Retaining, Releasing
  <2>5. CASE isa[o].nonpointer /\ isa[o].extra < Most
    <3>1. /\ Count(o, isa[o].extra + 1) /\ side' = side
          /\ r \in Refs /\ target[r] = NULL /\ Gain(r, o)
          /\ pc[t] = "idle" /\ UNCHANGED callVars
          /\ UNCHANGED <<memory, dying>>
        BY <1>2, <2>1, <2>5, RefcountAssumption
           DEF Retain, isaVars, Idle, Calls, Retaining, Releasing, Count,
               Gain, Lose
    <3>2. Quiet(t, o)
        BY <2>3, <2>4, <3>1 DEF Quiet
    <3>3. RefsMove(o, 1) /\ ExtraMove(o, 1) /\ RcMove(o, 0)
      <4>1. RefsMove(o, 1)
          BY <3>1, RefsMoves
      <4>2. ExtraMove(o, 1)
          BY <3>1, ExtraMoves
      <4>3. RcMove(o, 0)
          BY <3>1, RcMoves
      <4>4. QED
          BY <4>1, <4>2, <4>3
    <3>4. InFlight(o, t) = 0 /\ InFlight(o, t)' = 0
        BY <3>1 DEF InFlight, CallTypes, Return, callVars
    <3>5. TransitMove(o, 0)
        BY <3>2, <3>4, TransitUnmoved
    <3>6. 1 = 1 + 0 + 0 /\ {1, 1, 0, 0} \subseteq Int
        BY FieldTypes
    <3>7. QED
        BY <2>1, <2>2, <3>2, <3>3, <3>5, <3>6, <1>0, CountsBalance
  <2>6. CASE ~(isa[o].nonpointer /\ isa[o].extra < Most)
    <3>1. /\ pc[t] = "idle"
          /\ GoOn(t, IF isa[o].nonpointer THEN "overflow" ELSE "rawretain",
               o, k, r)
          /\ UNCHANGED <<isa, side, memory, target, dying>>
        BY <1>2, <2>1, <2>6, FieldTypes, RefcountAssumption
           DEF Retain, isaVars, Idle, MarkDead
    <3>2. pc[t] \notin {"addside", "borrowed", "move"}
            /\ pc'[t] \notin {"addside", "borrowed", "move"}
        BY <3>1 DEF Goto, GoOn, Return, CallTypes
    <3>3. QED
        BY <2>3, <3>1, <3>2, <1>0, NothingCounted
  <2>7. QED
      BY <2>5, <2>6
<1>3. ASSUME NEW t \in Threads, NEW r \in Refs, Release(t, r)
      PROVE  CountsAgree'
  <2>1. PICK o \in Objects : o = target[r] /\ memory[o] = "live"
      BY <1>3, RefcountAssumption
         DEF Release, CallTypes, WorldTypes, Calls, Alive, Registered,
             Retaining, Releasing
  <2>2. \A u \in Threads : dying[u] # o
      BY <1>3, <2>1, RefcountAssumption
         DEF Release, Alive, Calls, Retaining, Releasing
  <2>3. LockMoves(t) /\ OthersStay(t)
      BY <1>3, <2>1, RefcountAssumption
         DEF Release, LockMoves, OthersStay, Acquire, ReleaseLocks, Unlocked,
             Stripes, WorldTypes, CallTypes, Idle, Return, Goto, GoOn,
             callVars, Storing, Retaining, Releasing, Locked
  <2>4. \A p \in Objects \ {o} : InFlight(p, t) = 0 /\ InFlight(p, t)' = 0
      BY <1>3, <2>1, RefcountAssumption
         DEF Release, InFlight, CallTypes, Idle, Return, Goto, GoOn, callVars,
             Storing, Retaining, Releasing
  <2>5. CASE isa[o].nonpointer /\ isa[o].extra > 0
    <3>1. /\ Count(o, isa[o].extra - 1) /\ side' = side
          /\ r \in Refs /\ target[r] = o /\ Lose(r)
          /\ pc[t] = "idle" /\ UNCHANGED callVars
          /\ UNCHANGED <<memory, dying>>
        BY <1>3, <2>1, <2>5, RefcountAssumption
           DEF Release, isaVars, Idle, Calls, Retaining, Releasing, Count,
               Gain, Lose
    <3>2. Quiet(t, o)
        BY <2>3, <2>4, <3>1 DEF Quiet
    <3>3. RefsMove(o, -1) /\ ExtraMove(o, -1) /\ RcMove(o, 0)
      <4>1. RefsMove(o, -1)
          BY <3>1, RefsMoves
      <4>2. ExtraMove(o, -1)
          BY <3>1, ExtraMoves
      <4>3. RcMove(o, 0)
          BY <3>1, RcMoves
      <4>4. QED
          BY <4>1, <4>2, <4>3
    <3>4. InFlight(o, t) = 0 /\ InFlight(o, t)' = 0
        BY <3>1 DEF InFlight, CallTypes, Return, callVars
    <3>5. TransitMove(o, 0)
        BY <3>2, <3>4, TransitUnmoved
    <3>6. -1 = -1 + 0 + 0 /\ {-1, -1, 0, 0} \subseteq Int
        BY FieldTypes
    <3>7. QED
        BY <2>1, <2>2, <3>2, <3>3, <3>5, <3>6, <1>0, CountsBalance
  <2>6. CASE isa[o].nonpointer /\ isa[o].extra = 0 /\ ~isa[o].sided
    <3>1. /\ isa' = [isa EXCEPT ![o].dealloc = TRUE] /\ side' = side
          /\ r \in Refs /\ target[r] = o /\ Lose(r)
          /\ memory' = memory /\ dying[t] = NULL
               /\ dying' = [dying EXCEPT ![t] = o]
        BY <1>3, <2>1, <2>6, RefcountAssumption
           DEF Release, isaVars, Idle, MarkDead, Calls, Releasing, Storing,
               Count, Lose
    <3>2. dying'[t] = o /\ \A u \in Threads : u # t => dying'[u] = dying[u]
        BY <3>1 DEF CallTypes
    <3>3. \A p \in Objects \ {o} :
            /\ isa'[p].extra = isa[p].extra /\ side'[p].rc = side[p].rc
            /\ \A q \in Refs : target'[q] = p <=> target[q] = p
      <4>1. RefsMove(o, -1)
          BY <3>1, RefsMoves
      <4>2. QED
          BY <3>1, <4>1 DEF RefsMove, WordTypes
    <3>4. CountsOnly(t, o)
        BY <2>4, <3>1, <3>2, <3>3, RefcountAssumption DEF CountsOnly
    <3>5. QED
        BY <2>1, <2>3, <3>2, <3>4, <1>0, OneCounted
  <2>7. CASE ~isa[o].nonpointer \/ (isa[o].extra = 0 /\ isa[o].sided)
    <3>1. /\ pc[t] = "idle"
          /\ GoOn(t, IF isa[o].nonpointer THEN "underflow" ELSE "rawrelease",
               o, NULL, r)
          /\ UNCHANGED <<isa, side, memory, target, dying>>
        BY <1>3, <2>1, <2>7, FieldTypes, RefcountAssumption
           DEF Release, isaVars, Idle, MarkDead
    <3>2. pc[t] \notin {"addside", "borrowed", "move"}
            /\ pc'[t] \notin {"addside", "borrowed", "move"}
        BY <3>1 DEF Goto, GoOn, Return, CallTypes
    <3>3. QED
        BY <2>3, <3>1, <3>2, <1>0, NothingCounted
  <2>8. isa[o].extra > 0 \/ isa[o].extra = 0
      BY FieldTypes
  <2>9. QED
      BY <2>5, <2>6, <2>7, <2>8
<1>4. ASSUME NEW t \in Threads, NEW k \in Refs, MakeRaw(t, k)
      PROVE  CountsAgree'
  <2>1. PICK o \in Objects : o = target[k] /\ memory[o] = "live"
      BY <1>4, RefcountAssumption
         DEF MakeRaw, CallTypes, WorldTypes, Calls, Alive, Registered,
             Retaining, Releasing
  <2>2. \A u \in Threads : dying[u] # o
      BY <1>4, <2>1, RefcountAssumption
         DEF MakeRaw, Alive, Calls, Retaining, Releasing
  <2>3. LockMoves(t) /\ OthersStay(t)
      BY <1>4, <2>1, RefcountAssumption
         DEF MakeRaw, LockMoves, OthersStay, Acquire, ReleaseLocks, Unlocked,
             Stripes, WorldTypes, CallTypes, Idle, Return, Goto, GoOn,
             callVars, Storing, Retaining, Releasing, Locked
  <2>4. \A p \in Objects \ {o} : InFlight(p, t) = 0 /\ InFlight(p, t)' = 0
      BY <1>4, <2>1, RefcountAssumption
         DEF MakeRaw, InFlight, CallTypes, Idle, Return, Goto, GoOn, callVars,
             Storing, Retaining, Releasing
  <2>5. CountsAgree'
    <3>1. Quiet(t, o)
        BY <1>4, <2>3, <2>4 DEF MakeRaw, Quiet
    <3>2. RefsMove(o, 0)
        BY <1>4, <2>1, RefsMoves DEF MakeRaw, Calls, Retaining, Releasing
    <3>3. ExtraMove(o, 0 - isa[o].extra)
        BY <1>4, <2>1, ExtraMoves DEF MakeRaw, isaVars
    <3>4. RcMove(o, 0)
        BY <1>4, <2>1, RcMoves DEF MakeRaw, isaVars
    <3>5. Transit(o) = 0 /\ Transit(o)' = isa[o].extra
        BY <1>4, <2>1, RefcountAssumption
           DEF MakeRaw, Transit, Holder, InFlight, Acquire, Unlocked,
               WorldTypes, CallTypes, Stripes
    <3>6. TransitMove(o, isa[o].extra)
        BY <2>1, <3>5, FieldTypes DEF TransitMove
    <3>7. 0 = 0 - isa[o].extra + 0 + isa[o].extra /\ 0 \in Int
            /\ 0 - isa[o].extra \in Int /\ 0 \in Int
          /\ isa[o].extra \in Int
        BY <2>1, FieldTypes
    <3>8. QED
        BY <2>1, <2>2, <3>1, <3>2, <3>3, <3>4, <3>6, <3>7, <1>0, CountsBalance
  <2>6. QED
      BY <2>5
<1>5. ASSUME NEW t \in Threads, NEW w \in Slots,
        NEW o \in Objects \cup {NULL},
               NEW k \in Refs \cup {NULL}, StoreWeak(t, w, o, k)
      PROVE  CountsAgree'
  <2>1. LockMoves(t) /\ OthersStay(t)
      BY <1>5, RefcountAssumption
         DEF StoreWeak, LockMoves, OthersStay, Acquire, ReleaseLocks,
             Unlocked, Stripes, WorldTypes, CallTypes, Idle, Return, Goto,
             GoOn, callVars, Storing, Retaining, Releasing
  <2>2. /\ UNCHANGED <<isa, side, memory, target, dying>>
        /\ pc[t] \notin {"addside", "borrowed", "move"}
        /\ pc'[t] \notin {"addside", "borrowed", "move"}
      BY <1>5
         DEF StoreWeak, isaVars, CallTypes, Idle, Return, Goto, GoOn,
             callVars, Storing, Retaining, Releasing
  <2>3. QED
      BY <2>1, <2>2, <1>0, NothingCounted
<1>6. ASSUME NEW t \in Threads, NEW w \in Slots, NEW r \in Refs,
               LoadWeak(t, w, r)
      PROVE  CountsAgree'
  <2>1. LockMoves(t) /\ OthersStay(t)
      BY <1>6, RefcountAssumption
         DEF LoadWeak, LockMoves, OthersStay, Acquire, ReleaseLocks, Unlocked,
             Stripes, WorldTypes, CallTypes, Idle, Return, Goto, GoOn,
             callVars, Storing, Retaining, Releasing
  <2>2. /\ UNCHANGED <<isa, side, memory, target, dying>>
        /\ pc[t] \notin {"addside", "borrowed", "move"}
        /\ pc'[t] \notin {"addside", "borrowed", "move"}
      BY <1>6
         DEF LoadWeak, isaVars, CallTypes, Idle, Return, Goto, GoOn, callVars,
             Storing, Retaining, Releasing
  <2>3. QED
      BY <2>1, <2>2, <1>0, NothingCounted
<1>7. ASSUME NEW t \in Threads, RetainOverflow(t)
      PROVE  CountsAgree'
  <2>1. PICK o \in Objects : o = obj[t] /\ memory[o] = "live"
      BY <1>7, RefcountAssumption
         DEF RetainOverflow, CallTypes, WorldTypes, Calls, Alive, Registered,
             Retaining, Releasing
  <2>2. \A u \in Threads : dying[u] # o
      BY <1>7, <2>1, RefcountAssumption
         DEF RetainOverflow, Alive, Calls, Retaining, Releasing
  <2>3. LockMoves(t) /\ OthersStay(t)
      BY <1>7, <2>1, RefcountAssumption
         DEF RetainOverflow, LockMoves, OthersStay, Acquire, ReleaseLocks,
             Unlocked, Stripes, WorldTypes, CallTypes, Idle, Return, Goto,
             GoOn, callVars, Storing, Retaining, Releasing, Locked
  <2>4. \A p \in Objects \ {o} : InFlight(p, t) = 0 /\ InFlight(p, t)' = 0
      BY <1>7, <2>1, RefcountAssumption
         DEF RetainOverflow, InFlight, CallTypes, Idle, Return, Goto, GoOn,
             callVars, Storing, Retaining, Releasing
  <2>5. CASE ~isa[o].nonpointer
    <3>1. /\ pc[t] = "overflow" /\ Goto(t, "rawretain")
          /\ UNCHANGED <<isa, side, memory, target, dying>>
        BY <1>7, <2>1, <2>5, FieldTypes, RefcountAssumption
           DEF RetainOverflow, isaVars, Idle, MarkDead
    <3>2. pc[t] \notin {"addside", "borrowed", "move"}
            /\ pc'[t] \notin {"addside", "borrowed", "move"}
        BY <3>1 DEF Goto, GoOn, Return, CallTypes
    <3>3. QED
        BY <2>3, <3>1, <3>2, <1>0, NothingCounted
  <2>6. CASE isa[o].nonpointer /\ isa[o].extra < Most
    <3>1. /\ Count(o, isa[o].extra + 1) /\ side' = side
          /\ ref[t] \in Refs /\ target[ref[t]] = NULL /\ Gain(ref[t], o)
          /\ pc[t] = "overflow" /\ Return(t)
          /\ UNCHANGED <<memory, dying>>
        BY <1>7, <2>1, <2>6, RefcountAssumption, FieldTypes
           DEF RetainOverflow, isaVars, Idle, Calls, Retaining, Releasing,
               Count, Gain, Lose
    <3>2. Quiet(t, o)
        BY <2>3, <2>4, <3>1 DEF Quiet
    <3>3. RefsMove(o, 1) /\ ExtraMove(o, 1) /\ RcMove(o, 0)
      <4>1. RefsMove(o, 1)
          BY <3>1, RefsMoves
      <4>2. ExtraMove(o, 1)
          BY <3>1, ExtraMoves
      <4>3. RcMove(o, 0)
          BY <3>1, RcMoves
      <4>4. QED
          BY <4>1, <4>2, <4>3
    <3>4. InFlight(o, t) = 0 /\ InFlight(o, t)' = 0
        BY <3>1 DEF InFlight, CallTypes, Return, callVars
    <3>5. TransitMove(o, 0)
        BY <3>2, <3>4, TransitUnmoved
    <3>6. 1 = 1 + 0 + 0 /\ {1, 1, 0, 0} \subseteq Int
        BY FieldTypes
    <3>7. QED
        BY <2>1, <2>2, <3>2, <3>3, <3>5, <3>6, <1>0, CountsBalance
  <2>7. CASE isa[o].nonpointer /\ isa[o].extra = Most
    <3>1. /\ Spill(o) /\ isa[o].extra = Most /\ side' = side
          /\ ref[t] \in Refs /\ target[ref[t]] = NULL /\ Gain(ref[t], o)
          /\ Acquire(t, o) /\ Goto(t, "addside")
          /\ UNCHANGED <<memory, dying>>
        BY <1>7, <2>1, <2>7, RefcountAssumption, FieldTypes
           DEF RetainOverflow, isaVars, Idle, Calls, Retaining, Releasing,
               Count, Gain, Lose
    <3>2. Quiet(t, o)
        BY <2>3, <2>4, <3>1 DEF Quiet
    <3>3. RefsMove(o, 1) /\ ExtraMove(o, 1 - Half) /\ RcMove(o, 0)
      <4>1. RefsMove(o, 1)
          BY <3>1, RefsMoves
      <4>2. ExtraMove(o, 1 - Half)
          BY <3>1, ExtraMoves
      <4>3. RcMove(o, 0)
          BY <3>1, RcMoves
      <4>4. QED
          BY <4>1, <4>2, <4>3
    <3>4. Transit(o) = 0 /\ Transit(o)' = Half
      <4>1. lock[Stripe[o]] = NULL /\ lock'[Stripe[o]] = t
          BY <3>1, RefcountAssumption
             DEF Acquire, Unlocked, WorldTypes, Stripes
      <4>2. pc'[t] = "addside" /\ obj'[t] = o
          BY <2>1, <3>1 DEF Goto, GoOn, CallTypes
      <4>3. QED
          BY <4>1, <4>2, RefcountAssumption DEF Transit, Holder, InFlight
    <3>5. TransitMove(o, Half)
        BY <3>4, RefcountAssumption DEF TransitMove
    <3>6. 1 = 1 - Half + 0 + Half /\ {1, 1 - Half, 0, Half} \subseteq Int
        BY FieldTypes
    <3>7. QED
        BY <2>1, <2>2, <3>2, <3>3, <3>5, <3>6, <1>0, CountsBalance
  <2>8. QED
      BY <1>7, <2>1, <2>5, <2>6, <2>7 DEF RetainOverflow
<1>8. ASSUME NEW t \in Threads, AddSide(t)
      PROVE  CountsAgree'
  <2>1. PICK o \in Objects : o = obj[t] /\ memory[o] = "live"
      BY <1>8, RefcountAssumption
         DEF AddSide, CallTypes, WorldTypes, Calls, Alive, Registered,
             Retaining, Releasing
  <2>2. \A u \in Threads : dying[u] # o
      BY <1>8, <2>1, RefcountAssumption
         DEF AddSide, Alive, Calls, Retaining, Releasing
  <2>3. LockMoves(t) /\ OthersStay(t)
      BY <1>8, <2>1, RefcountAssumption
         DEF AddSide, LockMoves, OthersStay, Acquire, ReleaseLocks, Unlocked,
             Stripes, WorldTypes, CallTypes, Idle, Return, Goto, GoOn,
             callVars, Storing, Retaining, Releasing, Locked
  <2>4. \A p \in Objects \ {o} : InFlight(p, t) = 0 /\ InFlight(p, t)' = 0
      BY <1>8, <2>1, RefcountAssumption
         DEF AddSide, InFlight, CallTypes, Idle, Return, Goto, GoOn, callVars,
             Storing, Retaining, Releasing
  <2>5. CountsAgree'
    <3>1. Quiet(t, o)
        BY <1>8, <2>3, <2>4 DEF AddSide, Quiet
    <3>2. RefsMove(o, 0)
        BY <1>8, <2>1, RefsMoves DEF AddSide, Calls, Retaining, Releasing
    <3>3. ExtraMove(o, 0)
        BY <1>8, <2>1, ExtraMoves DEF AddSide, isaVars
    <3>4. RcMove(o, Half)
        BY <1>8, <2>1, RcMoves DEF AddSide, isaVars
    <3>5. Transit(o) = Half /\ Transit(o)' = 0
      <4>1. Transit(o) = Half
          BY <1>8, <2>1, RefcountAssumption
             DEF AddSide, Transit, Holder, InFlight, Locked
      <4>2. lock' = [s \in Stripes |-> IF lock[s] = t THEN NULL ELSE lock[s]]
          BY <1>8 DEF AddSide, ReleaseLocks
      <4>3. Holder(o) = t /\ Stripe[o] \in Stripes
          BY <1>8, <2>1, RefcountAssumption DEF AddSide, Holder, Locked, Stripes
      <4>4. Holder(o)' = NULL
          BY <4>2, <4>3 DEF Holder
      <4>5. QED
          BY <4>1, <4>4 DEF Transit
    <3>6. TransitMove(o, -Half)
        BY <3>5, RefcountAssumption DEF TransitMove
    <3>7. 0 = 0 + Half + -Half /\ 0 \in Int /\ 0 \in Int /\ Half \in Int
          /\ -Half \in Int
        BY <2>1, FieldTypes
    <3>8. QED
        BY <2>1, <2>2, <3>1, <3>2, <3>3, <3>4, <3>6, <3>7, <1>0, CountsBalance
  <2>6. QED
      BY <2>5
<1>9. ASSUME NEW t \in Threads, RawRetain(t)
      PROVE  CountsAgree'
  <2>1. PICK o \in Objects : o = obj[t] /\ memory[o] = "live"
      BY <1>9, RefcountAssumption
         DEF RawRetain, CallTypes, WorldTypes, Calls, Alive, Registered,
             Retaining, Releasing
  <2>2. \A u \in Threads : dying[u] # o
      BY <1>9, <2>1, RefcountAssumption
         DEF RawRetain, Alive, Calls, Retaining, Releasing
  <2>3. LockMoves(t) /\ OthersStay(t)
      BY <1>9, <2>1, RefcountAssumption
         DEF RawRetain, LockMoves, OthersStay, Acquire, ReleaseLocks,
             Unlocked, Stripes, WorldTypes, CallTypes, Idle, Return, Goto,
             GoOn, callVars, Storing, Retaining, Releasing, Locked
  <2>4. \A p \in Objects \ {o} : InFlight(p, t) = 0 /\ InFlight(p, t)' = 0
      BY <1>9, <2>1, RefcountAssumption
         DEF RawRetain, InFlight, CallTypes, Idle, Return, Goto, GoOn,
             callVars, Storing, Retaining, Releasing
  <2>5. CountsAgree'
    <3>1. Quiet(t, o)
        BY <1>9, <2>3, <2>4 DEF RawRetain, Quiet
    <3>2. RefsMove(o, 1)
        BY <1>9, <2>1, RefsMoves DEF RawRetain, Calls, Retaining, Releasing
    <3>3. ExtraMove(o, 0)
        BY <1>9, <2>1, ExtraMoves DEF RawRetain, isaVars
    <3>4. RcMove(o, 1)
        BY <1>9, <2>1, RcMoves DEF RawRetain, isaVars
    <3>5. InFlight(o, t) = 0 /\ InFlight(o, t)' = 0
        BY <1>9, <2>1
           DEF RawRetain, InFlight, CallTypes, Idle, Return, Goto, GoOn,
               callVars, Storing, Retaining, Releasing
    <3>6. TransitMove(o, 0)
        BY <2>1, <3>1, <3>5, TransitUnmoved
    <3>7. 1 = 0 + 1 + 0 /\ 1 \in Int /\ 0 \in Int /\ 1 \in Int
          /\ 0 \in Int
        BY <2>1, FieldTypes
    <3>8. QED
        BY <2>1, <2>2, <3>1, <3>2, <3>3, <3>4, <3>6, <3>7, <1>0, CountsBalance
  <2>6. QED
      BY <2>5
<1>10. ASSUME NEW t \in Threads, ReleaseUnderflow(t)
      PROVE  CountsAgree'
  <2>1. PICK o \in Objects : o = obj[t] /\ memory[o] = "live"
      BY <1>10, RefcountAssumption
         DEF ReleaseUnderflow, CallTypes, WorldTypes, Calls, Alive,
             Registered, Retaining, Releasing
  <2>2. \A u \in Threads : dying[u] # o
      BY <1>10, <2>1, RefcountAssumption
         DEF ReleaseUnderflow, Alive, Calls, Retaining, Releasing
  <2>3. LockMoves(t) /\ OthersStay(t)
      BY <1>10, <2>1, RefcountAssumption
         DEF ReleaseUnderflow, LockMoves, OthersStay, Acquire, ReleaseLocks,
             Unlocked, Stripes, WorldTypes, CallTypes, Idle, Return, Goto,
             GoOn, callVars, Storing, Retaining, Releasing, Locked
  <2>4. \A p \in Objects \ {o} : InFlight(p, t) = 0 /\ InFlight(p, t)' = 0
      BY <1>10, <2>1, RefcountAssumption
         DEF ReleaseUnderflow, InFlight, CallTypes, Idle, Return, Goto, GoOn,
             callVars, Storing, Retaining, Releasing
  <2>5. CASE ~isa[o].nonpointer
    <3>1. /\ pc[t] \in {"underflow", "again"} /\ Goto(t, "rawrelease")
          /\ UNCHANGED <<isa, side, memory, target, dying>>
        BY <1>10, <2>1, <2>5, FieldTypes, RefcountAssumption
           DEF ReleaseUnderflow, isaVars, Idle, MarkDead
    <3>2. pc[t] \notin {"addside", "borrowed", "move"}
            /\ pc'[t] \notin {"addside", "borrowed", "move"}
        BY <3>1 DEF Goto, GoOn, Return, CallTypes
    <3>3. QED
        BY <2>3, <3>1, <3>2, <1>0, NothingCounted
  <2>6. CASE isa[o].nonpointer /\ isa[o].extra > 0
    <3>1. /\ Count(o, isa[o].extra - 1) /\ side' = side
          /\ ref[t] \in Refs /\ target[ref[t]] = o /\ Lose(ref[t])
          /\ pc[t] \in {"underflow", "again"} /\ Return(t)
          /\ UNCHANGED <<memory, dying>>
        BY <1>10, <2>1, <2>6, RefcountAssumption
           DEF ReleaseUnderflow, isaVars, Idle, Calls, Retaining, Releasing,
               Count, Gain, Lose
    <3>2. Quiet(t, o)
        BY <2>3, <2>4, <3>1 DEF Quiet
    <3>3. RefsMove(o, -1) /\ ExtraMove(o, -1) /\ RcMove(o, 0)
      <4>1. RefsMove(o, -1)
          BY <3>1, RefsMoves
      <4>2. ExtraMove(o, -1)
          BY <3>1, ExtraMoves
      <4>3. RcMove(o, 0)
          BY <3>1, RcMoves
      <4>4. QED
          BY <4>1, <4>2, <4>3
    <3>4. InFlight(o, t) = 0 /\ InFlight(o, t)' = 0
        BY <3>1 DEF InFlight, CallTypes, Return, callVars
    <3>5. TransitMove(o, 0)
        BY <3>2, <3>4, TransitUnmoved
    <3>6. -1 = -1 + 0 + 0 /\ {-1, -1, 0, 0} \subseteq Int
        BY FieldTypes
    <3>7. QED
        BY <2>1, <2>2, <3>2, <3>3, <3>5, <3>6, <1>0, CountsBalance
  <2>7. CASE isa[o].nonpointer /\ isa[o].extra = 0 /\ side[o].rc > 0
    <3>1. /\ isa' = isa /\ target' = target
          /\ side' = [side EXCEPT ![o].rc = @ - Half]
          /\ pc[t] \in {"underflow", "again"} /\ (pc[t] = "underflow"
               => Unlocked(o))
          /\ lock' = [lock EXCEPT ![Stripe[o]] = t]
          /\ Goto(t, "borrowed")
          /\ UNCHANGED <<memory, dying>>
        BY <1>10, <2>1, <2>7, RefcountAssumption
           DEF ReleaseUnderflow, isaVars, Idle, Calls, Retaining, Releasing,
               Count, Gain, Lose
    <3>2. Quiet(t, o)
        BY <2>3, <2>4, <3>1 DEF Quiet
    <3>3. RefsMove(o, 0) /\ ExtraMove(o, 0) /\ RcMove(o, -Half)
      <4>1. RefsMove(o, 0)
          BY <3>1, RefsMoves
      <4>2. ExtraMove(o, 0)
          BY <3>1, ExtraMoves
      <4>3. RcMove(o, -Half)
          BY <3>1, RcMoves
      <4>4. QED
          BY <4>1, <4>2, <4>3
    <3>4. Transit(o) = 0 /\ Transit(o)' = Half
      <4>1. Unlocked(o) \/ Holder(o) = t
          BY <2>1, <3>1 DEF Locked, Holder
      <4>2. Transit(o) = 0
          BY <3>1, <4>1, NoTransit
      <4>3. lock'[Stripe[o]] = t
          BY <3>1 DEF WorldTypes, Stripes
      <4>4. pc'[t] = "borrowed" /\ obj'[t] = o
          BY <2>1, <3>1 DEF Goto, GoOn, CallTypes
      <4>5. QED
          BY <4>2, <4>3, <4>4, RefcountAssumption
             DEF Transit, Holder, InFlight
    <3>5. TransitMove(o, Half)
        BY <3>4, RefcountAssumption DEF TransitMove
    <3>6. 0 = 0 + -Half + Half /\ {0, 0, -Half, Half} \subseteq Int
        BY FieldTypes
    <3>7. QED
        BY <2>1, <2>2, <3>2, <3>3, <3>5, <3>6, <1>0, CountsBalance
  <2>8. CASE isa[o].nonpointer /\ isa[o].extra = 0 /\ side[o].rc = 0
    <3>1. /\ isa' = [isa EXCEPT ![o].dealloc = TRUE] /\ side' = side
          /\ ref[t] \in Refs /\ target[ref[t]] = o /\ Lose(ref[t])
          /\ memory' = memory /\ dying[t] = NULL
               /\ dying' = [dying EXCEPT ![t] = o]
        BY <1>10, <2>1, <2>8, RefcountAssumption
           DEF ReleaseUnderflow, isaVars, Idle, MarkDead, Calls, Releasing,
               Storing, Count, Lose
    <3>2. dying'[t] = o /\ \A u \in Threads : u # t => dying'[u] = dying[u]
        BY <3>1 DEF CallTypes
    <3>3. \A p \in Objects \ {o} :
            /\ isa'[p].extra = isa[p].extra /\ side'[p].rc = side[p].rc
            /\ \A q \in Refs : target'[q] = p <=> target[q] = p
      <4>1. RefsMove(o, -1)
          BY <3>1, RefsMoves
      <4>2. QED
          BY <3>1, <4>1 DEF RefsMove, WordTypes
    <3>4. CountsOnly(t, o)
        BY <2>4, <3>1, <3>2, <3>3, RefcountAssumption DEF CountsOnly
    <3>5. QED
        BY <2>1, <2>3, <3>2, <3>4, <1>0, OneCounted
  <2>9. QED
      BY <1>10, <2>1, <2>5, <2>6, <2>7, <2>8 DEF ReleaseUnderflow
<1>11. ASSUME NEW t \in Threads, Repay(t)
      PROVE  CountsAgree'
  <2>1. PICK o \in Objects : o = obj[t] /\ memory[o] = "live"
      BY <1>11, RefcountAssumption
         DEF Repay, CallTypes, WorldTypes, Calls, Alive, Registered,
             Retaining, Releasing
  <2>2. \A u \in Threads : dying[u] # o
      BY <1>11, <2>1, RefcountAssumption
         DEF Repay, Alive, Calls, Retaining, Releasing
  <2>3. LockMoves(t) /\ OthersStay(t)
      BY <1>11, <2>1, RefcountAssumption
         DEF Repay, LockMoves, OthersStay, Acquire, ReleaseLocks, Unlocked,
             Stripes, WorldTypes, CallTypes, Idle, Return, Goto, GoOn,
             callVars, Storing, Retaining, Releasing, Locked
  <2>4. \A p \in Objects \ {o} : InFlight(p, t) = 0 /\ InFlight(p, t)' = 0
      BY <1>11, <2>1, RefcountAssumption
         DEF Repay, InFlight, CallTypes, Idle, Return, Goto, GoOn, callVars,
             Storing, Retaining, Releasing
  <2>5. CountsAgree'
    <3>1. Quiet(t, o)
        BY <1>11, <2>3, <2>4 DEF Repay, Quiet
    <3>2. RefsMove(o, -1)
        BY <1>11, <2>1, RefsMoves DEF Repay, Calls, Retaining, Releasing
    <3>3. ExtraMove(o, Half - 1)
        BY <1>11, <2>1, ExtraMoves DEF Repay, isaVars
    <3>4. RcMove(o, 0)
        BY <1>11, <2>1, RcMoves DEF Repay, isaVars
    <3>5. Transit(o) = Half /\ Transit(o)' = 0
      <4>1. Transit(o) = Half
          BY <1>11, <2>1, RefcountAssumption
             DEF Repay, Transit, Holder, InFlight, Locked
      <4>2. lock' = [s \in Stripes |-> IF lock[s] = t THEN NULL ELSE lock[s]]
          BY <1>11 DEF Repay, ReleaseLocks
      <4>3. Holder(o) = t /\ Stripe[o] \in Stripes
          BY <1>11, <2>1, RefcountAssumption DEF Repay, Holder, Locked, Stripes
      <4>4. Holder(o)' = NULL
          BY <4>2, <4>3 DEF Holder
      <4>5. QED
          BY <4>1, <4>4 DEF Transit
    <3>6. TransitMove(o, -Half)
        BY <3>5, RefcountAssumption DEF TransitMove
    <3>7. -1 = Half - 1 + 0 + -Half /\ -1 \in Int /\ Half - 1 \in Int
            /\ 0 \in Int
          /\ -Half \in Int
        BY <2>1, FieldTypes
    <3>8. QED
        BY <2>1, <2>2, <3>1, <3>2, <3>3, <3>4, <3>6, <3>7, <1>0, CountsBalance
  <2>6. QED
      BY <2>5
<1>12. ASSUME NEW t \in Threads, PutBack(t)
      PROVE  CountsAgree'
  <2>1. PICK o \in Objects : o = obj[t] /\ memory[o] = "live"
      BY <1>12, RefcountAssumption
         DEF PutBack, CallTypes, WorldTypes, Calls, Alive, Registered,
             Retaining, Releasing
  <2>2. \A u \in Threads : dying[u] # o
      BY <1>12, <2>1, RefcountAssumption
         DEF PutBack, Alive, Calls, Retaining, Releasing
  <2>3. LockMoves(t) /\ OthersStay(t)
      BY <1>12, <2>1, RefcountAssumption
         DEF PutBack, LockMoves, OthersStay, Acquire, ReleaseLocks, Unlocked,
             Stripes, WorldTypes, CallTypes, Idle, Return, Goto, GoOn,
             callVars, Storing, Retaining, Releasing, Locked
  <2>4. \A p \in Objects \ {o} : InFlight(p, t) = 0 /\ InFlight(p, t)' = 0
      BY <1>12, <2>1, RefcountAssumption
         DEF PutBack, InFlight, CallTypes, Idle, Return, Goto, GoOn, callVars,
             Storing, Retaining, Releasing
  <2>5. CountsAgree'
    <3>1. Quiet(t, o)
        BY <1>12, <2>3, <2>4 DEF PutBack, Quiet
    <3>2. RefsMove(o, 0)
        BY <1>12, <2>1, RefsMoves DEF PutBack, Calls, Retaining, Releasing
    <3>3. ExtraMove(o, 0)
        BY <1>12, <2>1, ExtraMoves DEF PutBack, isaVars
    <3>4. RcMove(o, Half)
        BY <1>12, <2>1, RcMoves DEF PutBack, isaVars
    <3>5. Transit(o) = Half /\ Transit(o)' = 0
      <4>1. Transit(o) = Half
          BY <1>12, <2>1, RefcountAssumption
             DEF PutBack, Transit, Holder, InFlight, Locked
      <4>2. lock' = lock /\ pc'[t] = "again"
          BY <1>12 DEF PutBack, Goto, GoOn, CallTypes
      <4>3. Holder(o) = t
          BY <1>12, <2>1 DEF PutBack, Holder, Locked
      <4>4. Holder(o)' = t
          BY <4>2, <4>3 DEF Holder
      <4>5. InFlight(o, t)' = 0
          BY <4>2 DEF InFlight
      <4>6. QED
          BY <4>1, <4>4, <4>5 DEF Transit
    <3>6. TransitMove(o, -Half)
        BY <3>5, RefcountAssumption DEF TransitMove
    <3>7. 0 = 0 + Half + -Half /\ 0 \in Int /\ 0 \in Int /\ Half \in Int
          /\ -Half \in Int
        BY <2>1, FieldTypes
    <3>8. QED
        BY <2>1, <2>2, <3>1, <3>2, <3>3, <3>4, <3>6, <3>7, <1>0, CountsBalance
  <2>6. QED
      BY <2>5
<1>13. ASSUME NEW t \in Threads, RawRelease(t)
      PROVE  CountsAgree'
  <2>1. PICK o \in Objects : o = obj[t] /\ memory[o] = "live"
      BY <1>13, RefcountAssumption
         DEF RawRelease, CallTypes, WorldTypes, Calls, Alive, Registered,
             Retaining, Releasing
  <2>2. \A u \in Threads : dying[u] # o
      BY <1>13, <2>1, RefcountAssumption
         DEF RawRelease, Alive, Calls, Retaining, Releasing
  <2>3. LockMoves(t) /\ OthersStay(t)
      BY <1>13, <2>1, RefcountAssumption
         DEF RawRelease, LockMoves, OthersStay, Acquire, ReleaseLocks,
             Unlocked, Stripes, WorldTypes, CallTypes, Idle, Return, Goto,
             GoOn, callVars, Storing, Retaining, Releasing, Locked
  <2>4. \A p \in Objects \ {o} : InFlight(p, t) = 0 /\ InFlight(p, t)' = 0
      BY <1>13, <2>1, RefcountAssumption
         DEF RawRelease, InFlight, CallTypes, Idle, Return, Goto, GoOn,
             callVars, Storing, Retaining, Releasing
  <2>5. CASE side[o].rc # 0
    <3>1. /\ isa' = isa /\ side' = [side EXCEPT ![o].rc = @ - 1]
          /\ ref[t] \in Refs /\ target[ref[t]] = o /\ Lose(ref[t])
          /\ pc[t] = "rawrelease" /\ Return(t)
          /\ UNCHANGED <<memory, dying>>
        BY <1>13, <2>1, <2>5, RefcountAssumption
           DEF RawRelease, isaVars, Idle, Calls, Retaining, Releasing, Count,
               Gain, Lose
    <3>2. Quiet(t, o)
        BY <2>3, <2>4, <3>1 DEF Quiet
    <3>3. RefsMove(o, -1) /\ ExtraMove(o, 0) /\ RcMove(o, -1)
      <4>1. RefsMove(o, -1)
          BY <3>1, RefsMoves
      <4>2. ExtraMove(o, 0)
          BY <3>1, ExtraMoves
      <4>3. RcMove(o, -1)
          BY <3>1, RcMoves
      <4>4. QED
          BY <4>1, <4>2, <4>3
    <3>4. InFlight(o, t) = 0 /\ InFlight(o, t)' = 0
        BY <3>1 DEF InFlight, CallTypes, Return, callVars
    <3>5. TransitMove(o, 0)
        BY <3>2, <3>4, TransitUnmoved
    <3>6. -1 = 0 + -1 + 0 /\ {-1, 0, -1, 0} \subseteq Int
        BY FieldTypes
    <3>7. QED
        BY <2>1, <2>2, <3>2, <3>3, <3>5, <3>6, <1>0, CountsBalance
  <2>6. CASE side[o].rc = 0
    <3>1. /\ isa' = isa /\ side' = [side EXCEPT ![o].dealloc = TRUE]
          /\ ref[t] \in Refs /\ target[ref[t]] = o /\ Lose(ref[t])
          /\ memory' = memory /\ dying[t] = NULL
               /\ dying' = [dying EXCEPT ![t] = o]
        BY <1>13, <2>1, <2>6, RefcountAssumption
           DEF RawRelease, isaVars, Idle, MarkDead, Calls, Releasing, Storing,
               Count, Lose
    <3>2. dying'[t] = o /\ \A u \in Threads : u # t => dying'[u] = dying[u]
        BY <3>1 DEF CallTypes
    <3>3. \A p \in Objects \ {o} :
            /\ isa'[p].extra = isa[p].extra /\ side'[p].rc = side[p].rc
            /\ \A q \in Refs : target'[q] = p <=> target[q] = p
      <4>1. RefsMove(o, -1)
          BY <3>1, RefsMoves
      <4>2. QED
          BY <3>1, <4>1 DEF RefsMove, WordTypes, Entries
    <3>4. CountsOnly(t, o)
        BY <2>4, <3>1, <3>2, <3>3, RefcountAssumption DEF CountsOnly
    <3>5. QED
        BY <2>1, <2>3, <3>2, <3>4, <1>0, OneCounted
  <2>7. QED
      BY <2>5, <2>6
<1>14. ASSUME NEW t \in Threads, MoveExtra(t)
      PROVE  CountsAgree'
  <2>1. PICK o \in Objects : o = obj[t] /\ memory[o] = "live"
      BY <1>14, RefcountAssumption
         DEF MoveExtra, CallTypes, WorldTypes, Calls, Alive, Registered,
             Retaining, Releasing
  <2>2. \A u \in Threads : dying[u] # o
      BY <1>14, <2>1, RefcountAssumption
         DEF MoveExtra, Alive, Calls, Retaining, Releasing
  <2>3. LockMoves(t) /\ OthersStay(t)
      BY <1>14, <2>1, RefcountAssumption
         DEF MoveExtra, LockMoves, OthersStay, Acquire, ReleaseLocks,
             Unlocked, Stripes, WorldTypes, CallTypes, Idle, Return, Goto,
             GoOn, callVars, Storing, Retaining, Releasing, Locked
  <2>4. \A p \in Objects \ {o} : InFlight(p, t) = 0 /\ InFlight(p, t)' = 0
      BY <1>14, <2>1, RefcountAssumption
         DEF MoveExtra, InFlight, CallTypes, Idle, Return, Goto, GoOn,
             callVars, Storing, Retaining, Releasing
  <2>5. CountsAgree'
    <3>1. Quiet(t, o)
        BY <1>14, <2>3, <2>4 DEF MoveExtra, Quiet
    <3>2. RefsMove(o, 0)
        BY <1>14, <2>1, RefsMoves DEF MoveExtra, Calls, Retaining, Releasing
    <3>3. ExtraMove(o, 0)
        BY <1>14, <2>1, ExtraMoves DEF MoveExtra, isaVars
    <3>4. RcMove(o, moved[t].extra)
        BY <1>14, <2>1 DEF MoveExtra, RcMove, WordTypes
    <3>5. Transit(o) = moved[t].extra /\ Transit(o)' = 0
      <4>1. Transit(o) = moved[t].extra
          BY <1>14, <2>1, RefcountAssumption
             DEF MoveExtra, Transit, Holder, InFlight, Locked
      <4>2. lock' = [s \in Stripes |-> IF lock[s] = t THEN NULL ELSE lock[s]]
          BY <1>14 DEF MoveExtra, ReleaseLocks
      <4>3. Holder(o) = t /\ Stripe[o] \in Stripes
          BY <1>14, <2>1, RefcountAssumption DEF MoveExtra, Holder, Locked, Stripes
      <4>4. Holder(o)' = NULL
          BY <4>2, <4>3 DEF Holder
      <4>5. QED
          BY <4>1, <4>4 DEF Transit
    <3>51. moved[t].extra \in Nat
        BY <1>14, RefcountAssumption DEF MoveExtra, Calls, Words, Most
    <3>6. TransitMove(o, -moved[t].extra)
        BY <3>5, <3>51 DEF TransitMove
    <3>7. 0 = 0 + moved[t].extra + -moved[t].extra /\ 0 \in Int
            /\ 0 \in Int /\ moved[t].extra \in Int
          /\ -moved[t].extra \in Int
        BY <2>1, FieldTypes, <3>51
    <3>8. QED
        BY <2>1, <2>2, <3>1, <3>2, <3>3, <3>4, <3>6, <3>7, <1>0, CountsBalance
  <2>6. QED
      BY <2>5
<1>15. ASSUME NEW t \in Threads, LockTwo(t)
      PROVE  CountsAgree'
  <2>1. LockMoves(t) /\ OthersStay(t)
      BY <1>15, RefcountAssumption, LockStep
         DEF LockTwo, LockMoves, OthersStay, Acquire, ReleaseLocks, Unlocked,
             Stripes, WorldTypes, CallTypes, Idle, Return, Goto, GoOn,
             callVars, Storing, Retaining, Releasing
  <2>2. /\ UNCHANGED <<isa, side, memory, target, dying>>
        /\ pc[t] \notin {"addside", "borrowed", "move"}
        /\ pc'[t] \notin {"addside", "borrowed", "move"}
      BY <1>15
         DEF LockTwo, isaVars, CallTypes, Idle, Return, Goto, GoOn, callVars,
             Storing, Retaining, Releasing
  <2>3. QED
      BY <2>1, <2>2, <1>0, NothingCounted
<1>16. ASSUME NEW t \in Threads, StoreRetry(t)
      PROVE  CountsAgree'
  <2>1. LockMoves(t) /\ OthersStay(t)
      BY <1>16, RefcountAssumption
         DEF StoreRetry, LockMoves, OthersStay, Acquire, ReleaseLocks,
             Unlocked, Stripes, WorldTypes, CallTypes, Idle, Return, Goto,
             GoOn, callVars, Storing, Retaining, Releasing
  <2>2. /\ UNCHANGED <<isa, side, memory, target, dying>>
        /\ pc[t] \notin {"addside", "borrowed", "move"}
        /\ pc'[t] \notin {"addside", "borrowed", "move"}
      BY <1>16
         DEF StoreRetry, isaVars, CallTypes, Idle, Return, Goto, GoOn,
             callVars, Storing, Retaining, Releasing
  <2>3. QED
      BY <2>1, <2>2, <1>0, NothingCounted
<1>17. ASSUME NEW t \in Threads, StoreCommit(t)
      PROVE  CountsAgree'
  <2> DEFINE n == IF new[t] # NULL
        /\ Deallocating(new[t]) THEN NULL ELSE new[t]
  <2>1. LockMoves(t) /\ OthersStay(t)
      BY <1>17, RefcountAssumption
         DEF StoreCommit, LockMoves, OthersStay, Acquire, ReleaseLocks,
             Unlocked, Stripes, WorldTypes, CallTypes, Idle, Return, Goto,
             GoOn, callVars, Storing, Retaining, Releasing
  <2>2. /\ UNCHANGED <<memory, target, dying>>
        /\ pc[t] = "store" /\ pc'[t] = "idle"
        /\ IF n = NULL THEN UNCHANGED isaVars ELSE SetWeakly(n)
        /\ n # NULL => n \in Objects
      BY <1>17 DEF StoreCommit, Return, CallTypes
  <2> HIDE DEF n
  <2>3. \A p \in Objects : isa'[p].extra = isa[p].extra
          /\ side'[p].rc = side[p].rc
    <3>1. CASE UNCHANGED isaVars
        BY <3>1 DEF isaVars
    <3>2. CASE SetWeakly(n)
        BY <3>2 DEF SetWeakly, WordTypes, Words, Entries
    <3>3. QED
        BY <2>2, <3>1, <3>2
  <2>4. QED
      BY <2>1, <2>2, <2>3, <1>0, NothingCounted
<1>18. ASSUME NEW t \in Threads, LoadAgain(t)
      PROVE  CountsAgree'
  <2>1. LockMoves(t) /\ OthersStay(t)
      BY <1>18, RefcountAssumption
         DEF LoadAgain, LockMoves, OthersStay, Acquire, ReleaseLocks,
             Unlocked, Stripes, WorldTypes, CallTypes, Idle, Return, Goto,
             GoOn, callVars, Storing, Retaining, Releasing
  <2>2. /\ UNCHANGED <<isa, side, memory, target, dying>>
        /\ pc[t] \notin {"addside", "borrowed", "move"}
        /\ pc'[t] \notin {"addside", "borrowed", "move"}
      BY <1>18
         DEF LoadAgain, isaVars, CallTypes, Idle, Return, Goto, GoOn,
             callVars, Storing, Retaining, Releasing
  <2>3. QED
      BY <2>1, <2>2, <1>0, NothingCounted
<1>19. ASSUME NEW t \in Threads, TryRetain(t)
      PROVE  CountsAgree'
  <2>1. PICK o \in Objects : o = obj[t] /\ memory[o] = "live"
      BY <1>19, RefcountAssumption
         DEF TryRetain, CallTypes, WorldTypes, Calls, Alive, Registered,
             Retaining, Releasing
  <2>3. LockMoves(t) /\ OthersStay(t)
      BY <1>19, <2>1, RefcountAssumption
         DEF TryRetain, LockMoves, OthersStay, Acquire, ReleaseLocks,
             Unlocked, Stripes, WorldTypes, CallTypes, Idle, Return, Goto,
             GoOn, callVars, Storing, Retaining, Releasing, Locked
  <2>4. \A p \in Objects \ {o} : InFlight(p, t) = 0 /\ InFlight(p, t)' = 0
      BY <1>19, <2>1, RefcountAssumption
         DEF TryRetain, InFlight, CallTypes, Idle, Return, Goto, GoOn,
             callVars, Storing, Retaining, Releasing
  <2>5. CASE Deallocating(o)
    <3>1. /\ pc[t] = "load" /\ Return(t)
          /\ UNCHANGED <<isa, side, memory, target, dying>>
        BY <1>19, <2>1, <2>5, RefcountAssumption
           DEF TryRetain, isaVars, Idle, MarkDead
    <3>2. pc[t] \notin {"addside", "borrowed", "move"}
            /\ pc'[t] \notin {"addside", "borrowed", "move"}
        BY <3>1 DEF Goto, GoOn, Return, CallTypes
    <3>3. QED
        BY <2>3, <3>1, <3>2, <1>0, NothingCounted
  <2>6. ASSUME ~Deallocating(o)  PROVE \A u \in Threads : dying[u] # o
    <3>1. var[t] \in Slots /\ slot[var[t]] = o /\ o # NULL
        BY <1>19, <2>1, RefcountAssumption DEF TryRetain, Calls
    <3>2. referrers[o] # {}
        BY <3>1 DEF Registered
    <3>3. QED
        BY <2>1, <2>6, <3>1, <3>2 DEF Alive
  <2>7. CASE ~Deallocating(o) /\ ~isa[o].nonpointer
    <3>1. /\ isa' = isa /\ side' = [side EXCEPT ![o].rc = @ + 1]
          /\ ref[t] \in Refs /\ target[ref[t]] = NULL /\ Gain(ref[t], o)
          /\ pc[t] = "load" /\ Return(t)
          /\ UNCHANGED <<memory, dying>>
        BY <1>19, <2>1, <2>7, RefcountAssumption
           DEF TryRetain, isaVars, Idle, Calls, Retaining, Releasing, Count,
               Gain, Lose
    <3>2. Quiet(t, o)
        BY <2>3, <2>4, <3>1 DEF Quiet
    <3>3. RefsMove(o, 1) /\ ExtraMove(o, 0) /\ RcMove(o, 1)
      <4>1. RefsMove(o, 1)
          BY <3>1, RefsMoves
      <4>2. ExtraMove(o, 0)
          BY <3>1, ExtraMoves
      <4>3. RcMove(o, 1)
          BY <3>1, RcMoves
      <4>4. QED
          BY <4>1, <4>2, <4>3
    <3>4. InFlight(o, t) = 0 /\ InFlight(o, t)' = 0
        BY <3>1 DEF InFlight, CallTypes, Return, callVars
    <3>5. TransitMove(o, 0)
        BY <3>2, <3>4, TransitUnmoved
    <3>6. 1 = 0 + 1 + 0 /\ {1, 0, 1, 0} \subseteq Int
        BY FieldTypes
    <3>7. QED
        BY <2>1, <2>6, <2>7, <3>2, <3>3, <3>5, <3>6, <1>0, CountsBalance
  <2>8. CASE ~Deallocating(o) /\ isa[o].nonpointer /\ isa[o].extra < Most
    <3>1. /\ Count(o, isa[o].extra + 1) /\ side' = side
          /\ ref[t] \in Refs /\ target[ref[t]] = NULL /\ Gain(ref[t], o)
          /\ pc[t] = "load" /\ Return(t)
          /\ UNCHANGED <<memory, dying>>
        BY <1>19, <2>1, <2>8, RefcountAssumption, FieldTypes
           DEF TryRetain, isaVars, Idle, Calls, Retaining, Releasing, Count,
               Gain, Lose
    <3>2. Quiet(t, o)
        BY <2>3, <2>4, <3>1 DEF Quiet
    <3>3. RefsMove(o, 1) /\ ExtraMove(o, 1) /\ RcMove(o, 0)
      <4>1. RefsMove(o, 1)
          BY <3>1, RefsMoves
      <4>2. ExtraMove(o, 1)
          BY <3>1, ExtraMoves
      <4>3. RcMove(o, 0)
          BY <3>1, RcMoves
      <4>4. QED
          BY <4>1, <4>2, <4>3
    <3>4. InFlight(o, t) = 0 /\ InFlight(o, t)' = 0
        BY <3>1 DEF InFlight, CallTypes, Return, callVars
    <3>5. TransitMove(o, 0)
        BY <3>2, <3>4, TransitUnmoved
    <3>6. 1 = 1 + 0 + 0 /\ {1, 1, 0, 0} \subseteq Int
        BY FieldTypes
    <3>7. QED
        BY <2>1, <2>6, <2>8, <3>2, <3>3, <3>5, <3>6, <1>0, CountsBalance
  <2>9. CASE ~Deallocating(o) /\ isa[o].nonpointer /\ isa[o].extra = Most
    <3>1. /\ Spill(o) /\ isa[o].extra = Most /\ side' = side
          /\ ref[t] \in Refs /\ target[ref[t]] = NULL /\ Gain(ref[t], o)
          /\ Acquire(t, o) /\ Goto(t, "addside")
          /\ UNCHANGED <<memory, dying>>
        BY <1>19, <2>1, <2>9, RefcountAssumption, FieldTypes
           DEF TryRetain, isaVars, Idle, Calls, Retaining, Releasing, Count,
               Gain, Lose
    <3>2. Quiet(t, o)
        BY <2>3, <2>4, <3>1 DEF Quiet
    <3>3. RefsMove(o, 1) /\ ExtraMove(o, 1 - Half) /\ RcMove(o, 0)
      <4>1. RefsMove(o, 1)
          BY <3>1, RefsMoves
      <4>2. ExtraMove(o, 1 - Half)
          BY <3>1, ExtraMoves
      <4>3. RcMove(o, 0)
          BY <3>1, RcMoves
      <4>4. QED
          BY <4>1, <4>2, <4>3
    <3>4. Transit(o) = 0 /\ Transit(o)' = Half
      <4>1. lock[Stripe[o]] = NULL /\ lock'[Stripe[o]] = t
          BY <3>1, RefcountAssumption
             DEF Acquire, Unlocked, WorldTypes, Stripes
      <4>2. pc'[t] = "addside" /\ obj'[t] = o
          BY <2>1, <3>1 DEF Goto, GoOn, CallTypes
      <4>3. QED
          BY <4>1, <4>2, RefcountAssumption DEF Transit, Holder, InFlight
    <3>5. TransitMove(o, Half)
        BY <3>4, RefcountAssumption DEF TransitMove
    <3>6. 1 = 1 - Half + 0 + Half /\ {1, 1 - Half, 0, Half} \subseteq Int
        BY FieldTypes
    <3>7. QED
        BY <2>1, <2>6, <2>9, <3>2, <3>3, <3>5, <3>6, <1>0, CountsBalance
  <2>10. QED
      BY <1>19, <2>1, <2>5, <2>7, <2>8, <2>9 DEF TryRetain
<1>20. ASSUME NEW t \in Threads, FastFree(t)
      PROVE  CountsAgree'
  <2>1. LockMoves(t) /\ OthersStay(t)
      BY <1>20, RefcountAssumption
         DEF FastFree, LockMoves, OthersStay, Acquire, ReleaseLocks, Unlocked,
             Stripes, WorldTypes, CallTypes, Idle, Return, Goto, GoOn,
             callVars, Storing, Retaining, Releasing
  <2>2. /\ dying[t] \in Objects
        /\ \A p \in Objects \ {dying[t]} : /\ memory'[p] = memory[p]
                                          /\ isa'[p] = isa[p]
                                               /\ side'[p] = side[p]
        /\ target' = target
        /\ memory'[dying[t]] = "freed"
        /\ \A u \in Threads : u # t => dying'[u] = dying[u]
      BY <1>20, RefcountAssumption
         DEF FastFree, Calls, CallTypes, WorldTypes, WordTypes, isaVars
  <2>3. \A p \in Objects : InFlight(p, t) = 0 /\ InFlight(p, t)' = 0
      BY <1>20
         DEF FastFree, InFlight, CallTypes, Idle, Return, Goto, GoOn,
             callVars, Storing, Retaining, Releasing
  <2>4. CountsOnly(t, dying[t])
      BY <2>2, <2>3 DEF CountsOnly
  <2>5. QED
      BY <2>1, <2>2, <2>4, <1>0, OneCounted
<1>21. ASSUME NEW t \in Threads, ClearDeallocating(t)
      PROVE  CountsAgree'
  <2>1. LockMoves(t) /\ OthersStay(t)
      BY <1>21, RefcountAssumption
         DEF ClearDeallocating, LockMoves, OthersStay, Acquire, ReleaseLocks,
             Unlocked, Stripes, WorldTypes, CallTypes, Idle, Return, Goto,
             GoOn, callVars, Storing, Retaining, Releasing
  <2>2. /\ dying[t] \in Objects
        /\ \A p \in Objects \ {dying[t]} : /\ memory'[p] = memory[p]
                                          /\ isa'[p] = isa[p]
                                               /\ side'[p] = side[p]
        /\ target' = target
        /\ dying'[t] = dying[t]
        /\ \A u \in Threads : u # t => dying'[u] = dying[u]
      BY <1>21, RefcountAssumption
         DEF ClearDeallocating, Calls, CallTypes, WorldTypes, WordTypes,
             isaVars
  <2>3. \A p \in Objects : InFlight(p, t) = 0 /\ InFlight(p, t)' = 0
      BY <1>21
         DEF ClearDeallocating, InFlight, CallTypes, Idle, Return, Goto, GoOn,
             callVars, Storing, Retaining, Releasing
  <2>4. CountsOnly(t, dying[t])
      BY <2>2, <2>3 DEF CountsOnly
  <2>5. QED
      BY <2>1, <2>2, <2>4, <1>0, OneCounted
<1>22. ASSUME NEW t \in Threads, Free(t)
      PROVE  CountsAgree'
  <2>1. LockMoves(t) /\ OthersStay(t)
      BY <1>22, RefcountAssumption
         DEF Free, LockMoves, OthersStay, Acquire, ReleaseLocks, Unlocked,
             Stripes, WorldTypes, CallTypes, Idle, Return, Goto, GoOn,
             callVars, Storing, Retaining, Releasing
  <2>2. /\ dying[t] \in Objects
        /\ \A p \in Objects \ {dying[t]} : /\ memory'[p] = memory[p]
                                          /\ isa'[p] = isa[p]
                                               /\ side'[p] = side[p]
        /\ target' = target
        /\ memory'[dying[t]] = "freed"
        /\ \A u \in Threads : u # t => dying'[u] = dying[u]
      BY <1>22, RefcountAssumption
         DEF Free, Calls, CallTypes, WorldTypes, WordTypes, isaVars
  <2>3. \A p \in Objects : InFlight(p, t) = 0 /\ InFlight(p, t)' = 0
      BY <1>22
         DEF Free, InFlight, CallTypes, Idle, Return, Goto, GoOn, callVars,
             Storing, Retaining, Releasing
  <2>4. CountsOnly(t, dying[t])
      BY <2>2, <2>3 DEF CountsOnly
  <2>5. QED
      BY <2>1, <2>2, <2>4, <1>0, OneCounted
<1>23. ASSUME UNCHANGED objcVars  PROVE CountsAgree'
    BY <1>23 DEF CountsAgree, Holder, InFlight, objcVars, isaVars, callVars
<1> HIDE DEF CountsAgree
<1>24. QED
    BY <1>1, <1>2, <1>3, <1>4, <1>5, <1>6, <1>7, <1>8, <1>9, <1>10, <1>11,
       <1>12, <1>13, <1>14, <1>15, <1>16, <1>17, <1>18, <1>19, <1>20,
       <1>21, <1>22, <1>23 DEF Next, Begin, Continue

-----------------------------------------------------------------------------
(* The invariant and what follows from it                                  *)

LEMMA InitIInv == Init => IInv
<1> SUFFICES ASSUME Init  PROVE IInv
    OBVIOUS
<1> USE DEF Init
<1>1. WorldTypes /\ CallTypes
    BY DEF WorldTypes, CallTypes, Places
<1>2. WordTypes
  <2>1. FreshIsa(TRUE) \in Words
      BY RefcountAssumption DEF FreshIsa, Words, Most
  <2>2. NoSide \in Entries
      BY DEF NoSide, Entries
  <2>3. QED
      BY <2>1, <2>2 DEF WordTypes
<1>3. Calls /\ Exclusive /\ Locked /\ Followed /\ Moving
    BY DEF Calls, Exclusive, Locked, Followed, Moving, Retaining, Releasing,
           Storing
<1>4. Registered /\ Alive /\ Consistent /\ CountsAgree
    BY DEF Registered, Alive, Consistent, CountsAgree
<1>5. QED
    BY <1>1, <1>2, <1>3, <1>4 DEF IInv

\* The inductive invariant holds in every reachable state: whatever retain,
\* release, weak loads and stores and deallocations do between each other's
\* steps, the words of an object fit together, the side tables are locked by
\* the calls that rely on it, and every count is right.
THEOREM ObjcInvariant == Spec => []IInv
<1>1. IInv /\ [Next]_objcVars => IInv'
  <2>1. ASSUME IInv, [Next]_objcVars  PROVE IInv'
    <3>1. /\ WorldTypes' /\ CallTypes' /\ WordTypes' /\ Calls' /\ Exclusive'
          /\ Locked' /\ Consistent' /\ Followed' /\ Moving' /\ Registered'
          /\ Alive' /\ CountsAgree'
        BY <2>1, StepWorldTypes, StepCallTypes, StepConsistent, StepCalls,
           StepExclusive, StepLocked, StepFollowed, StepMoving,
           StepRegistered, StepAlive, StepCounts
    <3>2. QED
        BY <3>1 DEF IInv
  <2>2. QED
      BY <2>1
<1>2. QED
    BY InitIInv, <1>1, PTL DEF Spec

\* What is registered is flagged wherever no thread is moving the flags.
LEMMA IInvDangles == IInv => NothingDangles
<1> SUFFICES ASSUME IInv  PROVE NothingDangles
    OBVIOUS
<1>1. WorldTypes /\ Calls /\ Locked /\ Registered /\ Alive
    BY DEF IInv
<1>2. ASSUME NEW o \in Objects, referrers[o] # {}, Unlocked(o)
      PROVE  IF isa[o].nonpointer THEN isa[o].weakly ELSE side[o].weakly
  <2>1. ASSUME NEW t \in Threads, pc[t] = "move"  PROVE obj[t] # o
      BY <1>1, <1>2, <2>1, RefcountAssumption DEF Locked, Unlocked
  <2>2. Flagged(o)
      BY <1>1, <1>2 DEF Registered
  <2>3. QED
      BY <2>1, <2>2 DEF Flagged
<1>3. QED
    BY <1>1, <1>2 DEF NothingDangles, Registered, Alive

\* For any number of threads, objects and references and any width of the
\* inline count: the isa word, the side table and the half on its way between
\* them always add up to the references there are (rootRetain(),
\* rootRelease(), changeIsa()), and only an object without one is deallocated.
THEOREM CountsAlwaysAgree == Spec => []CountsAgree
<1>1. IInv => CountsAgree
    BY DEF IInv
<1>2. QED
    BY ObjcInvariant, <1>1, PTL

\* For any number of threads, objects and variables and any assignment of the
\* side tables: no strong reference, weak variable or table entry ever leads
\* to freed memory (storeWeak(), weak_clear_no_lock(), clearDeallocating()).
THEOREM NothingEverDangles == Spec => []NothingDangles
  BY ObjcInvariant, IInvDangles, PTL

\* The inline count always fits its field and no side table count ever goes
\* below zero.
THEOREM ObjcTypes == Spec => []TypeOK
<1>1. IInv => TypeOK
    BY DEF IInv, WorldTypes, CallTypes, WordTypes, TypeOK, Words, Entries
<1>2. QED
    BY ObjcInvariant, <1>1, PTL

-----------------------------------------------------------------------------
(* The references that are promised                                        *)

\* What the weak variables read as.
Weak == [w \in Slots |->
           IF \E r \in Refs : target[r] # NULL /\ target[r] = slot[w]
           THEN slot[w] ELSE NULL]

\* The abstract steps, by what they change.
LEMMA Stutters ==
  UNCHANGED <<target, slot, memory>> => UNCHANGED Arc!referenceVars
  BY DEF Arc!referenceVars

LEMMA Copies ==
  ASSUME WorldTypes, NEW o \in Objects, NEW r \in Refs, target[r] = NULL,
         \E q \in Refs : target[q] = o, Gain(r, o), UNCHANGED <<slot, memory>>
  PROVE  Arc!Next
<1>1. Weak' = Weak
  <2>1. \A q \in Refs : target'[q] = IF q = r THEN o ELSE target[q]
      BY DEF Gain, WorldTypes
  <2>2. \A x \in Objects : (\E q \in Refs : target'[q] = x)
                             <=> (\E q \in Refs : target[q] = x)
      BY <2>1, RefcountAssumption
  <2>3. \A w \in Slots : (\E q \in Refs : target'[q] # NULL
          /\ target'[q] = slot[w])
                    <=> (\E q \in Refs : target[q] # NULL
                      /\ target[q] = slot[w])
      BY <2>2, RefcountAssumption DEF WorldTypes
  <2>4. QED
      BY <2>3 DEF Weak
<1>2. Arc!Copy(o, r)
    BY <1>1 DEF Arc!Copy, Arc!Held, Gain, Weak
<1>3. QED
    BY <1>2 DEF Arc!Next

LEMMA Drops ==
  ASSUME WorldTypes, NEW r \in Refs, target[r] # NULL, Lose(r),
         UNCHANGED <<slot, memory>>
  PROVE  Arc!Next
<1>1. \A q \in Refs : target'[q] = IF q = r THEN NULL ELSE target[q]
    BY DEF Lose, WorldTypes
<1>2. Weak' = [w \in Slots |-> IF \E q \in Refs \ {r} : target[q] = Weak[w]
                               THEN Weak[w] ELSE NULL]
  <2>1. ASSUME NEW w \in Slots
        PROVE  Weak'[w] = IF \E q \in Refs \ {r} : target[q] = Weak[w]
                          THEN Weak[w] ELSE NULL
    <3>1. CASE slot[w] # NULL /\ \E q \in Refs \ {r} : target[q] = slot[w]
        BY <1>1, <3>1 DEF Weak
    <3>2. CASE ~(slot[w] # NULL /\ \E q \in Refs \ {r} : target[q] = slot[w])
      <4>1. ~ \E q \in Refs : target'[q] # NULL /\ target'[q] = slot'[w]
          BY <1>1, <3>2
      <4>2. Weak'[w] = NULL
          BY <4>1 DEF Weak
      <4>3. Weak[w] = slot[w] \/ Weak[w] = NULL
          BY DEF Weak
      <4>4. QED
          BY <3>2, <4>2, <4>3
    <3>3. QED
        BY <3>1, <3>2
  <2>2. Weak' = [w \in Slots |-> Weak'[w]]
      BY DEF Weak
  <2> HIDE DEF Weak
  <2>3. QED
      BY <2>1, <2>2
<1>3. Arc!Drop(r)
    BY <1>2 DEF Arc!Drop, Lose, Weak
<1>4. QED
    BY <1>3 DEF Arc!Next

LEMMA Reclaims ==
  ASSUME WorldTypes, NEW o \in Objects, memory[o] = "live",
         \A r \in Refs : target[r] # o,
         memory' = [memory EXCEPT ![o] = "freed"], UNCHANGED <<target, slot>>
  PROVE  Arc!Next
<1>1. Arc!Reclaim(o)
    BY DEF Arc!Reclaim, Arc!Held
<1>2. QED
    BY <1>1 DEF Arc!Next

\* Every step is a step of the references that are promised, or none.
LEMMA StepReferences == IInv /\ [Next]_objcVars
  => [Arc!Next]_(Arc!referenceVars)
<1> SUFFICES ASSUME WorldTypes, CallTypes, WordTypes, Calls, Exclusive, Locked
             ,
                    Consistent, Followed, Moving, Registered, Alive,
                      CountsAgree,
                    [Next]_objcVars
             PROVE  [Arc!Next]_(Arc!referenceVars)
    BY DEF IInv
<1>1. ASSUME NEW t \in Threads, NEW o \in Objects, NEW r \in Refs,
               NEW np \in BOOLEAN, Alloc(t, o, r, np)
      PROVE  [Arc!Next]_(Arc!referenceVars)
  <2>1. /\ memory[o] = "freed" /\ target[r] = NULL
        /\ memory' = [memory EXCEPT ![o] = "live"]
        /\ target' = [target EXCEPT ![r] = o] /\ slot' = slot
      BY <1>1 DEF Alloc, weakVars
  <2>2. \A q \in Refs : target'[q] = IF q = r THEN o ELSE target[q]
      BY <2>1 DEF WorldTypes
  <2>3. \A w \in Slots : slot[w] # o
      BY <2>1, RefcountAssumption DEF Registered
  <2>4. \A w \in Slots : (\E q \in Refs : target'[q] # NULL
          /\ target'[q] = slot[w])
                    <=> (\E q \in Refs : target[q] # NULL
                      /\ target[q] = slot[w])
      BY <2>1, <2>2, <2>3
  <2>5. Weak' = Weak
      BY <2>1, <2>4 DEF Weak
  <2>6. Arc!New(o, r)
      BY <2>1, <2>5 DEF Arc!New, Weak
  <2>7. QED
      BY <2>6 DEF Arc!Next
<1>2. ASSUME NEW t \in Threads, NEW k \in Refs, NEW r \in Refs,
               Retain(t, k, r)
      PROVE  [Arc!Next]_(Arc!referenceVars)
  <2>1. UNCHANGED <<slot, memory>>
      BY <1>2 DEF Retain, weakVars
  <2>2. /\ k \in Refs /\ target[k] \in Objects
        /\ r \in Refs /\ target[r] = NULL
      BY <1>2, RefcountAssumption DEF Retain, WorldTypes, Calls, Retaining
  <2>3. target' = target \/ Gain(r, target[k])
      BY <1>2 DEF Retain, Calls, Retaining, Gain
  <2>4. QED
      BY <2>1, <2>2, <2>3, Stutters, Copies
<1>3. ASSUME NEW t \in Threads, NEW r \in Refs, Release(t, r)
      PROVE  [Arc!Next]_(Arc!referenceVars)
  <2>1. UNCHANGED <<slot, memory>>
      BY <1>3 DEF Release, weakVars
  <2>2. r \in Refs /\ target[r] # NULL
      BY <1>3, RefcountAssumption DEF Release, Calls, Releasing
  <2>3. target' = target \/ Lose(r)
      BY <1>3 DEF Release
  <2>4. QED
      BY <2>1, <2>2, <2>3, Stutters, Drops
<1>4. ASSUME NEW t \in Threads, NEW k \in Refs, MakeRaw(t, k)
      PROVE  [Arc!Next]_(Arc!referenceVars)
    BY <1>4, Stutters DEF MakeRaw, isaVars, weakVars
<1>5. ASSUME NEW t \in Threads, NEW w \in Slots,
        NEW o \in Objects \cup {NULL},
               NEW k \in Refs \cup {NULL}, StoreWeak(t, w, o, k)
      PROVE  [Arc!Next]_(Arc!referenceVars)
    BY <1>5, Stutters DEF StoreWeak, isaVars, weakVars
<1>6. ASSUME NEW t \in Threads, NEW w \in Slots, NEW r \in Refs,
               LoadWeak(t, w, r)
      PROVE  [Arc!Next]_(Arc!referenceVars)
    BY <1>6, Stutters DEF LoadWeak, isaVars, weakVars
<1>7. ASSUME NEW t \in Threads, RetainOverflow(t)
      PROVE  [Arc!Next]_(Arc!referenceVars)
  <2>1. UNCHANGED <<slot, memory>>
      BY <1>7 DEF RetainOverflow, weakVars
  <2>2. /\ keep[t] \in Refs /\ target[keep[t]] \in Objects
        /\ ref[t] \in Refs /\ target[ref[t]] = NULL
      BY <1>7, RefcountAssumption
         DEF RetainOverflow, WorldTypes, Calls, Retaining
  <2>3. target' = target \/ Gain(ref[t], target[keep[t]])
      BY <1>7 DEF RetainOverflow, Calls, Retaining, Gain
  <2>4. QED
      BY <2>1, <2>2, <2>3, Stutters, Copies
<1>8. ASSUME NEW t \in Threads, AddSide(t)
      PROVE  [Arc!Next]_(Arc!referenceVars)
    BY <1>8, Stutters DEF AddSide, isaVars, weakVars
<1>9. ASSUME NEW t \in Threads, RawRetain(t)
      PROVE  [Arc!Next]_(Arc!referenceVars)
  <2>1. UNCHANGED <<slot, memory>>
      BY <1>9 DEF RawRetain, weakVars
  <2>2. /\ keep[t] \in Refs /\ target[keep[t]] \in Objects
        /\ ref[t] \in Refs /\ target[ref[t]] = NULL
      BY <1>9, RefcountAssumption DEF RawRetain, WorldTypes, Calls, Retaining
  <2>3. target' = target \/ Gain(ref[t], target[keep[t]])
      BY <1>9 DEF RawRetain, Calls, Retaining, Gain
  <2>4. QED
      BY <2>1, <2>2, <2>3, Stutters, Copies
<1>10. ASSUME NEW t \in Threads, ReleaseUnderflow(t)
      PROVE  [Arc!Next]_(Arc!referenceVars)
  <2>1. UNCHANGED <<slot, memory>>
      BY <1>10 DEF ReleaseUnderflow, weakVars
  <2>2. ref[t] \in Refs /\ target[ref[t]] # NULL
      BY <1>10, RefcountAssumption DEF ReleaseUnderflow, Calls, Releasing
  <2>3. target' = target \/ Lose(ref[t])
      BY <1>10 DEF ReleaseUnderflow
  <2>4. QED
      BY <2>1, <2>2, <2>3, Stutters, Drops
<1>11. ASSUME NEW t \in Threads, Repay(t)
      PROVE  [Arc!Next]_(Arc!referenceVars)
  <2>1. UNCHANGED <<slot, memory>>
      BY <1>11 DEF Repay, weakVars
  <2>2. ref[t] \in Refs /\ target[ref[t]] # NULL
      BY <1>11, RefcountAssumption DEF Repay, Calls, Releasing
  <2>3. target' = target \/ Lose(ref[t])
      BY <1>11 DEF Repay
  <2>4. QED
      BY <2>1, <2>2, <2>3, Stutters, Drops
<1>12. ASSUME NEW t \in Threads, PutBack(t)
      PROVE  [Arc!Next]_(Arc!referenceVars)
    BY <1>12, Stutters DEF PutBack, isaVars, weakVars
<1>13. ASSUME NEW t \in Threads, RawRelease(t)
      PROVE  [Arc!Next]_(Arc!referenceVars)
  <2>1. UNCHANGED <<slot, memory>>
      BY <1>13 DEF RawRelease, weakVars
  <2>2. ref[t] \in Refs /\ target[ref[t]] # NULL
      BY <1>13, RefcountAssumption DEF RawRelease, Calls, Releasing
  <2>3. target' = target \/ Lose(ref[t])
      BY <1>13 DEF RawRelease
  <2>4. QED
      BY <2>1, <2>2, <2>3, Stutters, Drops
<1>14. ASSUME NEW t \in Threads, MoveExtra(t)
      PROVE  [Arc!Next]_(Arc!referenceVars)
    BY <1>14, Stutters DEF MoveExtra, isaVars, weakVars
<1>15. ASSUME NEW t \in Threads, LockTwo(t)
      PROVE  [Arc!Next]_(Arc!referenceVars)
    BY <1>15, Stutters DEF LockTwo, isaVars, weakVars
<1>16. ASSUME NEW t \in Threads, StoreRetry(t)
      PROVE  [Arc!Next]_(Arc!referenceVars)
    BY <1>16, Stutters DEF StoreRetry, isaVars, weakVars
<1>17. ASSUME NEW t \in Threads, StoreCommit(t)
      PROVE  [Arc!Next]_(Arc!referenceVars)
  <2> DEFINE w == var[t]
             n == IF new[t] # NULL
               /\ Deallocating(new[t]) THEN NULL ELSE new[t]
  <2>1. /\ w \in Slots /\ slot' = [slot EXCEPT ![w] = n]
        /\ UNCHANGED <<target, memory>> /\ pc[t] = "store"
      BY <1>17 DEF StoreCommit, Calls, Storing
  <2>2. n # NULL => n \in Objects /\ \E q \in Refs : target[q] = n
      BY <2>1 DEF Calls, CallTypes, Alive, Storing
  <2> HIDE DEF w, n
  <2>3. Weak' = [Weak EXCEPT ![w] = n]
    <3>1. \A v \in Slots : slot'[v] = IF v = w THEN n ELSE slot[v]
        BY <2>1 DEF WorldTypes
    <3>2. ASSUME NEW v \in Slots
            PROVE Weak'[v] = IF v = w THEN n ELSE Weak[v]
        BY <2>1, <2>2, <3>1 DEF Weak
    <3>3. /\ Weak' = [v \in Slots |-> Weak'[v]]
          /\ Weak = [v \in Slots |-> Weak[v]]
        BY DEF Weak
    <3>4. QED
      <4> HIDE DEF Weak
      <4>1. QED
          BY <2>1, <3>2, <3>3
  <2>4. PICK x \in Slots, y \in Objects \cup {NULL} : x = w /\ y = n
      BY <2>1, <2>2
  <2>5. Weak' = [Weak EXCEPT ![x] = y]
      BY <2>3, <2>4
  <2>6. Arc!Assign(x, y)
      BY <2>1, <2>2, <2>4, <2>5 DEF Arc!Assign, Arc!Held, Weak
  <2>7. QED
      BY <2>6 DEF Arc!Next
<1>18. ASSUME NEW t \in Threads, LoadAgain(t)
      PROVE  [Arc!Next]_(Arc!referenceVars)
    BY <1>18, Stutters DEF LoadAgain, isaVars, weakVars
<1>19. ASSUME NEW t \in Threads, TryRetain(t)
      PROVE  [Arc!Next]_(Arc!referenceVars)
  <2>1. UNCHANGED <<slot, memory>>
      BY <1>19 DEF TryRetain, weakVars
  <2>2. PICK o \in Objects : o = obj[t] /\ memory[o] = "live"
      BY <1>19, RefcountAssumption DEF TryRetain, Calls, Registered
  <2>3. ref[t] \in Refs /\ target[ref[t]] = NULL
      BY <1>19 DEF TryRetain, Calls
  <2>4. target' = target \/ (~Deallocating(o) /\ Gain(ref[t], o))
      BY <1>19, <2>2 DEF TryRetain, Gain, Deallocating
  <2>5. ASSUME ~Deallocating(o)  PROVE \E q \in Refs : target[q] = o
    <3>1. \A u \in Threads : dying[u] # o
        BY <1>19, <2>2, <2>5, RefcountAssumption
           DEF TryRetain, Alive, Registered, Calls
    <3>2. RefsTo(o) = 1 + isa[o].extra + side[o].rc + Transit(o)
        BY <2>2, <3>1, CountsAre
    <3>3. isa[o].extra \in Nat /\ side[o].rc \in Nat /\ Transit(o) \in Nat
        BY FieldTypes, TransitType
    <3>4. RefsTo(o) > 0
        BY <3>2, <3>3
    <3>5. \E q \in Refs : target[q] \in {o}
        BY <3>4, CountType, RefcountAssumption DEF RefsTo
    <3>6. QED
        BY <3>5
  <2>6. QED
      BY <2>1, <2>3, <2>4, <2>5, Stutters, Copies
<1>20. ASSUME NEW t \in Threads, FastFree(t)
      PROVE  [Arc!Next]_(Arc!referenceVars)
  <2>1. dying[t] \in Objects /\ memory[dying[t]] = "live"
        /\ \A r \in Refs : target[r] # dying[t]
      BY <1>20 DEF FastFree, Calls, CallTypes, Alive
  <2>2. memory' = [memory EXCEPT ![dying[t]] = "freed"]
          /\ UNCHANGED <<target, slot>>
      BY <1>20 DEF FastFree, weakVars
  <2>3. QED
      BY <2>1, <2>2, Reclaims
<1>21. ASSUME NEW t \in Threads, ClearDeallocating(t)
      PROVE  [Arc!Next]_(Arc!referenceVars)
  <2>1. UNCHANGED <<target, memory>> /\ \A r \in Refs : target[r] # dying[t]
      BY <1>21 DEF ClearDeallocating, Alive
  <2>2. \A w \in Slots : slot'[w] = slot[w]
                           \/ (slot[w] = dying[t] /\ slot'[w] = NULL)
      BY <1>21 DEF ClearDeallocating, WeakClear
  <2>3. Weak' = Weak
      BY <2>1, <2>2 DEF Weak
  <2>4. QED
      BY <2>1, <2>3 DEF Arc!referenceVars, Weak
<1>22. ASSUME NEW t \in Threads, Free(t)
      PROVE  [Arc!Next]_(Arc!referenceVars)
  <2>1. dying[t] \in Objects /\ memory[dying[t]] = "live"
        /\ \A r \in Refs : target[r] # dying[t]
      BY <1>22 DEF Free, Calls, CallTypes, Alive
  <2>2. memory' = [memory EXCEPT ![dying[t]] = "freed"]
          /\ UNCHANGED <<target, slot>>
      BY <1>22 DEF Free, weakVars
  <2>3. QED
      BY <2>1, <2>2, Reclaims
<1>23. ASSUME UNCHANGED objcVars  PROVE [Arc!Next]_(Arc!referenceVars)
    BY <1>23, Stutters DEF objcVars, weakVars
<1> HIDE DEF IInv
<1>24. QED
    BY <1>1, <1>2, <1>3, <1>4, <1>5, <1>6, <1>7, <1>8, <1>9, <1>10, <1>11,
       <1>12, <1>13, <1>14, <1>15, <1>16, <1>17, <1>18, <1>19, <1>20,
       <1>21, <1>22, <1>23 DEF Next, Begin, Continue

\* For every value of the constants, the inline counts, side tables, striped
\* locks and two-phase deallocation implement plain strong references and weak
\* ones that are cleared with the last of them in one step.
THEOREM ReferencesImplemented == Spec => ImplementsReferences
<1>1. Init => Arc!Init
    BY DEF Init, Arc!Init
<1>2. QED
    BY <1>1, StepReferences, ObjcInvariant, PTL
       DEF Spec, ImplementsReferences, Arc!Spec

=============================================================================
