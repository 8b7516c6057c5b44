--------------------------- MODULE ObjcRefcount ---------------------------
(***************************************************************************)
(* Reference counts and weak variables of the Objective-C runtime          *)
(* (objc-object.h, NSObject.mm, objc-weak.mm of objc4-706).                *)
(*                                                                         *)
(* The count of an object with a nonpointer isa is kept in the isa word    *)
(* (extra_rc) and, once it has overflowed, half of it in a side table that *)
(* a striped lock protects; an object whose isa became a raw class pointer *)
(* keeps all of it there.  The compare-and-swap loops on the isa word are  *)
(* atomic steps; a step of its own begins wherever the code holds a lock   *)
(* while the isa word and the side table disagree.                         *)
(*                                                                         *)
(* The client is abstracted to strong references: it retains and stores    *)
(* weakly only what it holds a reference to, and releases a reference that *)
(* no call is using; its classes are initialized.  An address is used      *)
(* again after the object there was freed.                                 *)
(***************************************************************************)
EXTENDS Integers, FiniteSets

CONSTANTS Threads,
          Objects,    \* addresses
          Refs,       \* strong references of the client
          Slots,      \* __weak variables
          Half,       \* RC_HALF; extra_rc counts up to 2 * Half - 1
          Stripe,     \* the side table of an address, of nil too: lock order
          NULL

ASSUME RefcountAssumption ==
    /\ NULL \notin Objects \cup Refs \cup Slots \cup Threads
    /\ IsFiniteSet(Refs)
    /\ Half \in Nat \ {0}
    /\ Stripe \in [Objects \cup {NULL} -> Nat]

VARIABLES
    isa,        \* the isa word: nonpointer or raw, and the bits of the former
    side,       \* the side table's count and flags; zero if it has no entry
    referrers,  \* the weak table: the variables registered for an object
    slot,       \* what each weak variable holds
    lock,       \* who holds the lock of each side table
    memory,     \* "live" or "freed"
    target,     \* what each strong reference refers to
    pc,         \* where each thread is
    obj,        \* local: the object a call works on, the old value of a store
    new,        \* local "newObj" of storeWeak()
    keep,       \* the client's reference that keeps the object of the call
    ref,        \* the reference a call makes or drops
    var,        \* local "location"
    moved,      \* local "oldisa" of changeIsa()
    dying       \* the object whose -dealloc the thread runs

isaVars   == <<isa, side>>
weakVars  == <<referrers, slot>>
callVars  == <<pc, obj, new, keep, ref, var, moved>>
objcVars  == <<isaVars, weakVars, lock, memory, target, callVars, dying>>

Most == 2 * Half - 1

FreshIsa(np) == [nonpointer |-> np, extra |-> 0, sided |-> FALSE,
                 dealloc |-> FALSE, weakly |-> FALSE]
NoSide == [rc |-> 0, dealloc |-> FALSE, weakly |-> FALSE]

Deallocating(o) == IF isa[o].nonpointer THEN isa[o].dealloc ELSE side[o].dealloc

Stripes == {Stripe[a] : a \in Objects \cup {NULL}}
Unlocked(o) == lock[Stripe[o]] = NULL
Acquire(t, o) == Unlocked(o) /\ lock' = [lock EXCEPT ![Stripe[o]] = t]
ReleaseLocks(t) == lock' = [s \in Stripes |-> IF lock[s] = t THEN NULL ELSE lock[s]]

InUse(r) == \E t \in Threads : r \in {keep[t], ref[t]}

Idle(t) == pc[t] = "idle" /\ dying[t] = NULL

\* The call ends, or goes on at location loc with the locals given.
Return(t) == /\ pc' = [pc EXCEPT ![t] = "idle"]
             /\ obj' = [obj EXCEPT ![t] = NULL]
             /\ new' = [new EXCEPT ![t] = NULL]
             /\ keep' = [keep EXCEPT ![t] = NULL]
             /\ ref' = [ref EXCEPT ![t] = NULL]
             /\ var' = [var EXCEPT ![t] = NULL]
             /\ moved' = [moved EXCEPT ![t] = NULL]
GoOn(t, loc, o, k, r) == /\ pc' = [pc EXCEPT ![t] = loc]
                         /\ obj' = [obj EXCEPT ![t] = o]
                         /\ keep' = [keep EXCEPT ![t] = k]
                         /\ ref' = [ref EXCEPT ![t] = r]
                         /\ UNCHANGED <<new, var, moved>>
Goto(t, loc) == GoOn(t, loc, obj[t], keep[t], ref[t])

Init == /\ isa = [o \in Objects |-> FreshIsa(TRUE)]
        /\ side = [o \in Objects |-> NoSide]
        /\ referrers = [o \in Objects |-> {}]
        /\ slot = [w \in Slots |-> NULL]
        /\ lock = [s \in Stripes |-> NULL]
        /\ memory = [o \in Objects |-> "freed"]
        /\ target = [r \in Refs |-> NULL]
        /\ pc = [t \in Threads |-> "idle"]
        /\ obj = [t \in Threads |-> NULL]
        /\ new = [t \in Threads |-> NULL]
        /\ keep = [t \in Threads |-> NULL]
        /\ ref = [t \in Threads |-> NULL]
        /\ var = [t \in Threads |-> NULL]
        /\ moved = [t \in Threads |-> NULL]
        /\ dying = [t \in Threads |-> NULL]

\* A class may be excluded from nonpointer isas.
Alloc(t, o, r, np) ==
    /\ Idle(t) /\ memory[o] = "freed" /\ target[r] = NULL /\ ~InUse(r)
    /\ memory' = [memory EXCEPT ![o] = "live"]
    /\ isa' = [isa EXCEPT ![o] = FreshIsa(np)]
    /\ target' = [target EXCEPT ![r] = o]
    /\ UNCHANGED <<side, weakVars, lock, callVars, dying>>

-----------------------------------------------------------------------------
(* -retain                                                                 *)

Gain(r, o) == target' = [target EXCEPT ![r] = o]
Count(o, n) == isa' = [isa EXCEPT ![o].extra = n]

\* The frameless path of rootRetain(): the client holds k and wants r too.
Retain(t, k, r) ==
    LET o == target[k] IN
    /\ Idle(t) /\ o # NULL /\ target[r] = NULL /\ ~InUse(r)
    /\ \A u \in Threads : ref[u] # k
    /\ IF isa[o].nonpointer /\ isa[o].extra < Most
       THEN Count(o, isa[o].extra + 1) /\ Gain(r, o) /\ UNCHANGED callVars
       ELSE /\ GoOn(t, IF isa[o].nonpointer THEN "overflow" ELSE "rawretain", o, k, r)
            /\ UNCHANGED <<isa, target>>
    /\ UNCHANGED <<side, weakVars, lock, memory, dying>>

\* Half of the count stays inline, the other half is to go to the side table.
Spill(o) == isa' = [isa EXCEPT ![o].extra = Half, ![o].sided = TRUE]

\* rootRetain() with handleOverflow: the isa word changes under the lock.
RetainOverflow(t) ==
    LET o == obj[t] IN
    /\ pc[t] = "overflow" /\ Unlocked(o)
    /\ \/ /\ ~isa[o].nonpointer
          /\ Goto(t, "rawretain")
          /\ UNCHANGED <<isa, target, lock>>
       \/ /\ isa[o].nonpointer /\ isa[o].extra < Most
          /\ Count(o, isa[o].extra + 1) /\ Gain(ref[t], o) /\ Return(t)
          /\ UNCHANGED lock
       \/ /\ isa[o].nonpointer /\ isa[o].extra = Most
          /\ Spill(o) /\ Gain(ref[t], o)
          /\ Acquire(t, o) /\ Goto(t, "addside")
    /\ UNCHANGED <<side, weakVars, memory, dying>>

\* Faulty variant: all of the count is copied instead of the half.
AddSide_All(t) ==
    LET o == obj[t] IN
    /\ pc[t] = "addside"
    /\ side' = [side EXCEPT ![o].rc = @ + 2 * Half]
    /\ ReleaseLocks(t) /\ Return(t)
    /\ UNCHANGED <<isa, weakVars, memory, target, dying>>

\* sidetable_addExtraRC_nolock(RC_HALF)
AddSide(t) ==
    LET o == obj[t] IN
    /\ pc[t] = "addside"
    /\ side' = [side EXCEPT ![o].rc = @ + Half]
    /\ ReleaseLocks(t) /\ Return(t)
    /\ UNCHANGED <<isa, weakVars, memory, target, dying>>

\* sidetable_retain()
RawRetain(t) ==
    /\ pc[t] = "rawretain" /\ Unlocked(obj[t])
    /\ side' = [side EXCEPT ![obj[t]].rc = @ + 1]
    /\ Gain(ref[t], obj[t]) /\ Return(t)
    /\ UNCHANGED <<isa, weakVars, lock, memory, dying>>

-----------------------------------------------------------------------------
(* -release                                                                *)

Lose(r) == target' = [target EXCEPT ![r] = NULL]
MarkDead(t, o) == /\ isa' = [isa EXCEPT ![o].dealloc = TRUE]
                  /\ dying' = [dying EXCEPT ![t] = o]

\* The frameless path of rootRelease(); -dealloc follows the last release.
Release(t, r) ==
    LET o == target[r] IN
    /\ Idle(t) /\ o # NULL /\ ~InUse(r)
    /\ \/ /\ isa[o].nonpointer /\ isa[o].extra > 0
          /\ Count(o, isa[o].extra - 1) /\ Lose(r)
          /\ UNCHANGED <<callVars, dying>>
       \/ /\ isa[o].nonpointer /\ isa[o].extra = 0 /\ ~isa[o].sided
          /\ MarkDead(t, o) /\ Lose(r)
          /\ UNCHANGED callVars
       \/ /\ ~isa[o].nonpointer \/ (isa[o].extra = 0 /\ isa[o].sided)
          /\ GoOn(t, IF isa[o].nonpointer THEN "underflow" ELSE "rawrelease", o, NULL, r)
          /\ UNCHANGED <<isa, target, dying>>
    /\ UNCHANGED <<side, weakVars, lock, memory>>

\* rootRelease() with handleUnderflow, the lock taken and everything re-read:
\* another thread may have retained, changed the isa or emptied the table.
ReleaseUnderflow(t) ==
    LET o == obj[t] IN
    /\ pc[t] \in {"underflow", "again"}
    /\ pc[t] = "underflow" => Unlocked(o)
    /\ \/ /\ ~isa[o].nonpointer
          /\ ReleaseLocks(t) /\ Goto(t, "rawrelease")
          /\ UNCHANGED <<isa, side, target, dying>>
       \/ /\ isa[o].nonpointer /\ isa[o].extra > 0
          /\ Count(o, isa[o].extra - 1) /\ Lose(ref[t])
          /\ ReleaseLocks(t) /\ Return(t)
          /\ UNCHANGED <<side, dying>>
       \/ /\ isa[o].nonpointer /\ isa[o].extra = 0 /\ side[o].rc > 0
          /\ side' = [side EXCEPT ![o].rc = @ - Half]
          /\ lock' = [lock EXCEPT ![Stripe[o]] = t] /\ Goto(t, "borrowed")
          /\ UNCHANGED <<isa, target, dying>>
       \/ /\ isa[o].nonpointer /\ isa[o].extra = 0 /\ side[o].rc = 0
          /\ MarkDead(t, o) /\ Lose(ref[t])
          /\ ReleaseLocks(t) /\ Return(t)
          /\ UNCHANGED side
    /\ UNCHANGED <<weakVars, memory>>

\* The borrowed half is added inline, less the release itself; the second
\* attempt allows for retains made meanwhile.
Repay(t) ==
    LET o == obj[t] IN
    /\ pc[t] = "borrowed" /\ isa[o].extra + Half - 1 <= Most
    /\ Count(o, isa[o].extra + Half - 1) /\ Lose(ref[t])
    /\ ReleaseLocks(t) /\ Return(t)
    /\ UNCHANGED <<side, weakVars, memory, dying>>

\* Both attempts failed, on contention or for lack of room: put it back.
PutBack(t) ==
    /\ pc[t] = "borrowed"
    /\ side' = [side EXCEPT ![obj[t]].rc = @ + Half]
    /\ Goto(t, "again")
    /\ UNCHANGED <<isa, weakVars, lock, memory, target, dying>>

\* sidetable_release()
RawRelease(t) ==
    LET o == obj[t] IN
    /\ pc[t] = "rawrelease" /\ Unlocked(o)
    /\ Lose(ref[t]) /\ Return(t)
    /\ IF side[o].rc = 0
       THEN /\ side' = [side EXCEPT ![o].dealloc = TRUE]
            /\ dying' = [dying EXCEPT ![t] = o]
       ELSE /\ side' = [side EXCEPT ![o].rc = @ - 1]
            /\ UNCHANGED dying
    /\ UNCHANGED <<isa, weakVars, lock, memory>>

-----------------------------------------------------------------------------
(* changeIsa() to a class whose instances have raw isas                    *)

MakeRaw(t, k) ==
    LET o == target[k] IN
    /\ Idle(t) /\ o # NULL /\ isa[o].nonpointer
    /\ \A u \in Threads : ref[u] # k
    /\ Acquire(t, o)
    /\ isa' = [isa EXCEPT ![o] = FreshIsa(FALSE)]
    /\ pc' = [pc EXCEPT ![t] = "move"]
    /\ obj' = [obj EXCEPT ![t] = o]
    /\ keep' = [keep EXCEPT ![t] = k]
    /\ moved' = [moved EXCEPT ![t] = isa[o]]
    /\ UNCHANGED <<side, weakVars, memory, target, new, ref, var, dying>>

\* sidetable_moveExtraRC_nolock()
MoveExtra(t) ==
    LET o == obj[t] IN
    /\ pc[t] = "move"
    /\ side' = [side EXCEPT ![o] = [rc |-> side[o].rc + moved[t].extra,
                                    dealloc |-> moved[t].dealloc,
                                    weakly |-> moved[t].weakly]]
    /\ ReleaseLocks(t) /\ Return(t)
    /\ UNCHANGED <<isa, weakVars, memory, target, dying>>

-----------------------------------------------------------------------------
(* Weak variables                                                          *)

\* storeWeak() of o, nil or an object that k or a running -dealloc keeps:
\* the old value is read without a lock.
StoreWeak(t, w, o, k) ==
    /\ pc[t] = "idle"
    /\ \/ o = NULL /\ k = NULL /\ dying[t] = NULL
       \/ o # NULL /\ k = NULL /\ dying[t] = o
       \/ /\ o # NULL /\ k # NULL /\ dying[t] = NULL
          /\ target[k] = o /\ \A u \in Threads : ref[u] # k
    /\ pc' = [pc EXCEPT ![t] = "lockold"]
    /\ obj' = [obj EXCEPT ![t] = slot[w]]
    /\ new' = [new EXCEPT ![t] = o]
    /\ keep' = [keep EXCEPT ![t] = k]
    /\ var' = [var EXCEPT ![t] = w]
    /\ UNCHANGED <<isaVars, weakVars, lock, memory, target, ref, moved, dying>>

\* lockTwo(): the side table with the higher address first.
StoreStripes(t) == {Stripe[obj[t]], Stripe[new[t]]}
LockTwo(t) ==
    /\ \/ /\ pc[t] = "lockold"
          /\ LET s == CHOOSE x \in StoreStripes(t) : \A y \in StoreStripes(t) : x >= y
             IN lock[s] = NULL /\ lock' = [lock EXCEPT ![s] = t]
          /\ Goto(t, IF Cardinality(StoreStripes(t)) = 1 THEN "store" ELSE "locknew")
       \/ /\ pc[t] = "locknew"
          /\ \E s \in StoreStripes(t) :
                lock[s] = NULL /\ lock' = [lock EXCEPT ![s] = t]
          /\ Goto(t, "store")
    /\ UNCHANGED <<isaVars, weakVars, memory, target, dying>>

\* setWeaklyReferenced_nolock()
SetWeakly(o) ==
    IF isa[o].nonpointer
    THEN isa' = [isa EXCEPT ![o].weakly = TRUE] /\ UNCHANGED side
    ELSE side' = [side EXCEPT ![o].weakly = TRUE] /\ UNCHANGED isa

\* The variable is not what it was: start over, from the value it has now.
StoreRetry(t) ==
    /\ pc[t] = "store" /\ slot[var[t]] # obj[t]
    /\ ReleaseLocks(t)
    /\ GoOn(t, "lockold", slot[var[t]], keep[t], ref[t])
    /\ UNCHANGED <<isaVars, weakVars, memory, target, dying>>

\* weak_unregister_no_lock(), weak_register_no_lock() and the assignment;
\* the OrNil variant stores nil for an object being deallocated.
StoreCommit(t) ==
    LET w == var[t]
        n == IF new[t] # NULL /\ Deallocating(new[t]) THEN NULL ELSE new[t]
    IN /\ pc[t] = "store" /\ slot[w] = obj[t]
       /\ referrers' = [o \in Objects |->
                          IF o = n THEN referrers[o] \cup {w}
                          ELSE IF o = obj[t] THEN referrers[o] \ {w}
                          ELSE referrers[o]]
       /\ IF n = NULL THEN UNCHANGED isaVars ELSE SetWeakly(n)
       /\ slot' = [slot EXCEPT ![w] = n]
       /\ ReleaseLocks(t) /\ Return(t)
       /\ UNCHANGED <<memory, target, dying>>

\* objc_loadWeakRetained(), from the read without a lock.
LoadWeak(t, w, r) ==
    /\ Idle(t) /\ slot[w] # NULL /\ target[r] = NULL /\ ~InUse(r)
    /\ pc' = [pc EXCEPT ![t] = "load"]
    /\ obj' = [obj EXCEPT ![t] = slot[w]]
    /\ ref' = [ref EXCEPT ![t] = r]
    /\ var' = [var EXCEPT ![t] = w]
    /\ UNCHANGED <<isaVars, weakVars, lock, memory, target, new, keep, moved, dying>>

LoadAgain(t) ==
    /\ pc[t] = "load" /\ Unlocked(obj[t]) /\ slot[var[t]] # obj[t]
    /\ IF slot[var[t]] = NULL THEN Return(t)
       ELSE GoOn(t, "load", slot[var[t]], keep[t], ref[t])
    /\ UNCHANGED <<isaVars, weakVars, lock, memory, target, dying>>

\* Faulty variant: an object being deallocated is retained again.
TryRetain_Dying(t) ==
    LET o == obj[t] IN
    /\ pc[t] = "load" /\ Unlocked(o) /\ slot[var[t]] = o
    /\ \/ /\ ~isa[o].nonpointer
          /\ side' = [side EXCEPT ![o].rc = @ + 1]
          /\ Gain(ref[t], o) /\ Return(t) /\ UNCHANGED <<isa, lock>>
       \/ /\ isa[o].nonpointer /\ isa[o].extra < Most
          /\ Count(o, isa[o].extra + 1)
          /\ Gain(ref[t], o) /\ Return(t) /\ UNCHANGED <<side, lock>>
       \/ /\ isa[o].nonpointer /\ isa[o].extra = Most
          /\ Spill(o) /\ Gain(ref[t], o)
          /\ Acquire(t, o) /\ Goto(t, "addside") /\ UNCHANGED side
    /\ UNCHANGED <<weakVars, memory, dying>>

\* rootTryRetain() or sidetable_tryRetain() under the lock of the table.
TryRetain(t) ==
    LET o == obj[t] IN
    /\ pc[t] = "load" /\ Unlocked(o) /\ slot[var[t]] = o
    /\ \/ /\ Deallocating(o)
          /\ Return(t) /\ UNCHANGED <<isaVars, target, lock>>
       \/ /\ ~Deallocating(o) /\ ~isa[o].nonpointer
          /\ side' = [side EXCEPT ![o].rc = @ + 1]
          /\ Gain(ref[t], o) /\ Return(t) /\ UNCHANGED <<isa, lock>>
       \/ /\ ~Deallocating(o) /\ isa[o].nonpointer /\ isa[o].extra < Most
          /\ Count(o, isa[o].extra + 1)
          /\ Gain(ref[t], o) /\ Return(t) /\ UNCHANGED <<side, lock>>
       \/ /\ ~Deallocating(o) /\ isa[o].nonpointer /\ isa[o].extra = Most
          /\ Spill(o) /\ Gain(ref[t], o)
          /\ Acquire(t, o) /\ Goto(t, "addside") /\ UNCHANGED side
    /\ UNCHANGED <<weakVars, memory, dying>>

-----------------------------------------------------------------------------
(* -dealloc: rootDealloc() and object_dispose()                            *)

\* Neither weak references nor a side table entry: free() at once.
FastFree(t) ==
    LET o == dying[t] IN
    /\ pc[t] = "idle" /\ o # NULL
    /\ isa[o].nonpointer /\ ~isa[o].weakly /\ ~isa[o].sided
    /\ memory' = [memory EXCEPT ![o] = "freed"]
    /\ dying' = [dying EXCEPT ![t] = NULL]
    /\ UNCHANGED <<isaVars, weakVars, lock, target, callVars>>

\* weak_clear_no_lock()
WeakClear(o, weakly) ==
    /\ slot' = [w \in Slots |-> IF weakly /\ w \in referrers[o] /\ slot[w] = o
                                THEN NULL ELSE slot[w]]
    /\ referrers' = [referrers EXCEPT ![o] = IF weakly THEN {} ELSE @]

\* Faulty variant: the entry is erased only if its count is not zero.
ClearDeallocating_Kept(t) ==
    LET o == dying[t] IN
    /\ pc[t] = "idle" /\ o # NULL /\ Unlocked(o)
    /\ ~isa[o].nonpointer \/ isa[o].weakly \/ isa[o].sided
    /\ WeakClear(o, IF isa[o].nonpointer THEN isa[o].weakly ELSE side[o].weakly)
    /\ side' = [side EXCEPT ![o] = IF side[o].rc = 0 THEN @ ELSE NoSide]
    /\ Goto(t, "free")
    /\ UNCHANGED <<isa, lock, memory, target, dying>>

\* clearDeallocating(): clear the weak variables, erase the entry.
ClearDeallocating(t) ==
    LET o == dying[t] IN
    /\ pc[t] = "idle" /\ o # NULL /\ Unlocked(o)
    /\ ~isa[o].nonpointer \/ isa[o].weakly \/ isa[o].sided
    /\ WeakClear(o, IF isa[o].nonpointer THEN isa[o].weakly ELSE side[o].weakly)
    /\ side' = [side EXCEPT ![o] = IF isa[o].nonpointer /\ ~isa[o].sided
                                   THEN @ ELSE NoSide]
    /\ Goto(t, "free")
    /\ UNCHANGED <<isa, lock, memory, target, dying>>

Free(t) ==
    /\ pc[t] = "free"
    /\ memory' = [memory EXCEPT ![dying[t]] = "freed"]
    /\ dying' = [dying EXCEPT ![t] = NULL]
    /\ Return(t)
    /\ UNCHANGED <<isaVars, weakVars, lock, target>>

-----------------------------------------------------------------------------
Begin(t) ==
    \/ \E o \in Objects, r \in Refs, np \in BOOLEAN : Alloc(t, o, r, np)
    \/ \E k, r \in Refs : Retain(t, k, r)
    \/ \E r \in Refs : Release(t, r) \/ MakeRaw(t, r)
    \/ \E w \in Slots, o \in Objects \cup {NULL}, k \in Refs \cup {NULL} :
          StoreWeak(t, w, o, k)
    \/ \E w \in Slots, r \in Refs : LoadWeak(t, w, r)

Continue(t) ==
    \/ RetainOverflow(t) \/ AddSide(t) \/ RawRetain(t)
    \/ ReleaseUnderflow(t) \/ Repay(t) \/ PutBack(t) \/ RawRelease(t)
    \/ MoveExtra(t)
    \/ LockTwo(t) \/ StoreRetry(t) \/ StoreCommit(t)
    \/ LoadAgain(t) \/ TryRetain(t)
    \/ FastFree(t) \/ ClearDeallocating(t) \/ Free(t)

Next == \E t \in Threads : Begin(t) \/ Continue(t)

Spec == Init /\ [][Next]_objcVars

-----------------------------------------------------------------------------
\* The type invariant of the counts and of the words they are kept in.
TypeOK ==
    /\ isa \in [Objects -> [nonpointer : BOOLEAN, extra : 0 .. Most,
                            sided : BOOLEAN, dealloc : BOOLEAN, weakly : BOOLEAN]]
    /\ side \in [Objects -> [rc : Nat, dealloc : BOOLEAN, weakly : BOOLEAN]]
    /\ referrers \in [Objects -> SUBSET Slots]
    /\ slot \in [Slots -> Objects \cup {NULL}]
    /\ target \in [Refs -> Objects \cup {NULL}]
    /\ dying \in [Threads -> Objects \cup {NULL}]

\* What the thread that holds the lock has taken from one place and not yet
\* added to the other.
InFlight(o, t) ==
    IF obj[t] # o THEN 0
    ELSE CASE pc[t] \in {"addside", "borrowed"} -> Half
           [] pc[t] = "move" -> moved[t].extra
           [] OTHER -> 0

Holder(o) == lock[Stripe[o]]

\* Wherever the count of an object lies - in the isa word, in the side table,
\* in the hands of the thread that moves a half between them - it is the
\* number of references the client has to it, and an object is being
\* deallocated exactly when its last reference has gone (rootRetain(),
\* rootRelease(), changeIsa()).
CountsAgree ==
    \A o \in Objects : memory[o] = "live" =>
        LET refs == Cardinality({r \in Refs : target[r] = o}) IN
        IF \E t \in Threads : dying[t] = o
        THEN refs = 0
        ELSE refs = 1 + isa[o].extra + side[o].rc
                      + (IF Holder(o) = NULL THEN 0 ELSE InFlight(o, Holder(o)))

\* Nothing refers to a freed object: no strong reference, no weak variable, no
\* entry of a side table or weak table that the next object at the address
\* would inherit; and a filled weak variable is registered where the
\* deallocation will find it (storeWeak(), clearDeallocating(),
\* weak_clear_no_lock()).
NothingDangles ==
    /\ \A r \in Refs : target[r] # NULL => memory[target[r]] = "live"
    /\ \A w \in Slots : slot[w] # NULL =>
          memory[slot[w]] = "live" /\ w \in referrers[slot[w]]
    /\ \A o \in Objects :
          /\ memory[o] = "freed" => side[o] = NoSide /\ referrers[o] = {}
          /\ \A w \in referrers[o] : slot[w] = o
          /\ referrers[o] # {} /\ Unlocked(o) =>
                IF isa[o].nonpointer THEN isa[o].weakly ELSE side[o].weakly

-----------------------------------------------------------------------------
\* An object without references is as good as gone, and the weak variables
\* that still hold it read as nil.
Arc == INSTANCE ObjcReferencesSpec WITH
          strong <- target, heap <- memory,
          weak <- [w \in Slots |->
                     IF \E r \in Refs : target[r] # NULL /\ target[r] = slot[w]
                     THEN slot[w] ELSE NULL]

\* The inline counts, side tables, striped locks and the two-phase
\* deallocation together behave like strong references that keep an object
\* alive and weak ones that are cleared with the last of them, in one step.
ImplementsReferences == Arc!Spec

=============================================================================
