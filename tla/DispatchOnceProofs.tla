------------------------- MODULE DispatchOnceProofs -------------------------
(***************************************************************************)
(* Proofs about DispatchOnce, for any set of threads.                      *)
(***************************************************************************)
EXTENDS DispatchOnce, WellFoundedInduction, TLAPS

\* In every set of things that are ranked there is one of the lowest rank.
LEMMA LowestRank ==
  ASSUME NEW S, S # {}, NEW rank, \A x \in S : rank[x] \in Nat
  PROVE  \E x \in S : \A y \in S : ~(rank[y] < rank[x])
<1> DEFINE Ranks == {rank[x] : x \in S}
<1>1. Ranks \subseteq Nat /\ Ranks # {}
    OBVIOUS
<1>2. \E m \in Ranks : \A n \in Ranks : <<n, m>> \notin OpToRel(<, Nat)
    BY <1>1, NatLessThanWellFounded, WFMin, Zenon
<1>3. \A m, n \in Nat : n < m => <<n, m>> \in OpToRel(<, Nat)
    BY DEF OpToRel
<1>4. PICK m \in Ranks : \A n \in Ranks : ~(n < m)
    BY <1>1, <1>2, <1>3
<1>5. QED
    BY <1>4

-----------------------------------------------------------------------------

\* The thread that runs the function, until it has walked the whole list.
Runner(t) == pc[t] \in {"callout", "finish", "wake", "signal"}

\* How far the run of the function has got, in terms of the predicate word.
PhaseInv ==
    /\ runs \in {0, 1} /\ returns \in {0, 1}
    /\ vval = NULL <=> runs = 0
    /\ runs = 0 => returns = 0 /\ \A t \in Threads : pc[t] \in {"idle", "claim"}
    /\ vval = DONE => returns > 0
    /\ \A s, t \in Threads : Runner(s) /\ Runner(t) => s = t
    /\ \A t \in Threads :
         /\ pc[t] = "callout" => returns = 0 /\ vval # DONE
         /\ pc[t] = "finish" => returns > 0 /\ vval # DONE
         /\ pc[t] \in {"wake", "signal"} => vval = DONE

-----------------------------------------------------------------------------
LEMMA InitInvariant == Init => TypeOK /\ PhaseInv
  BY OnceAssumption DEF Init, TypeOK, PhaseInv, Locations, Runner

\* Every step keeps the types and the phase.
LEMMA StepInvariant ==
  TypeOK /\ PhaseInv /\ [Next]_onceVars => TypeOK' /\ PhaseInv'
<1> SUFFICES ASSUME TypeOK, PhaseInv, [Next]_onceVars
             PROVE  TypeOK' /\ PhaseInv'
    OBVIOUS
<1> USE OnceAssumption DEF TypeOK, PhaseInv, Runner, Locations, Goto
<1>1. ASSUME NEW t \in Threads, Call(t)    PROVE TypeOK' /\ PhaseInv'
    BY <1>1 DEF Call
<1>2. ASSUME NEW t \in Threads, Claim(t)   PROVE TypeOK' /\ PhaseInv'
    BY <1>2 DEF Claim
<1>3. ASSUME NEW t \in Threads, Callout(t) PROVE TypeOK' /\ PhaseInv'
    BY <1>3 DEF Callout
<1>4. ASSUME NEW t \in Threads, Finish(t)  PROVE TypeOK' /\ PhaseInv'
    BY <1>4 DEF Finish
<1>5. ASSUME NEW t \in Threads, WakeNext(t) PROVE TypeOK' /\ PhaseInv'
    BY <1>5 DEF WakeNext
<1>6. ASSUME NEW t \in Threads, Signal(t)  PROVE TypeOK' /\ PhaseInv'
    BY <1>6 DEF Signal
<1>7. ASSUME NEW t \in Threads, WakeEnd(t) PROVE TypeOK' /\ PhaseInv'
    BY <1>7 DEF WakeEnd
<1>8. ASSUME NEW t \in Threads, Load(t)    PROVE TypeOK' /\ PhaseInv'
  <2>1. vval # NULL  BY <1>8 DEF Load
  <2>2. CASE vval = DONE  BY <1>8, <2>2 DEF Load
  <2>3. CASE vval # DONE  BY <1>8, <2>1, <2>3 DEF Load
  <2>4. QED  BY <2>2, <2>3
<1>9. ASSUME NEW t \in Threads, Push(t)    PROVE TypeOK' /\ PhaseInv'
  <2>1. vval # NULL  BY <1>9 DEF Push
  <2>2. CASE vval = tmp[t]
    <3>1. t \notin {NULL, DONE}  OBVIOUS
    <3>2. QED  BY <1>9, <2>1, <2>2, <3>1 DEF Push
  <2>3. CASE vval # tmp[t]  BY <1>9, <2>1, <2>3 DEF Push
  <2>4. QED  BY <2>2, <2>3
<1>10. ASSUME NEW t \in Threads, Link(t)   PROVE TypeOK' /\ PhaseInv'
    BY <1>10 DEF Link
<1>11. ASSUME NEW t \in Threads, Wait(t)   PROVE TypeOK' /\ PhaseInv'
    BY <1>11 DEF Wait
<1>12. ASSUME UNCHANGED onceVars           PROVE TypeOK' /\ PhaseInv'
    BY <1>12 DEF onceVars
<1>13. QED
    BY <1>1, <1>2, <1>3, <1>4, <1>5, <1>6, <1>7, <1>8, <1>9, <1>10, <1>11,
       <1>12 DEF Next, Step, CallDone

\* The types, and the phase: one thread at most runs the function, the
\* predicate says how far it has got, and only a run that is over makes it ~0.
THEOREM OncePhase == Spec => [](TypeOK /\ PhaseInv)
  BY InitInvariant, StepInvariant, PTL DEF Spec

\* dispatch_once_f implements the interface promise: however many threads
\* call, the function is called once and no caller leaves before it returned.
THEOREM OnceImplemented == Spec => ImplementsOnce
<1>1. Init => Once!Init
    BY DEF Init, Once!Init
<1>2. TypeOK /\ PhaseInv /\ [Next]_onceVars => [Once!Next]_(Once!specVars)
  <2> SUFFICES ASSUME TypeOK, PhaseInv, [Next]_onceVars
               PROVE  [Once!Next]_(Once!specVars)
      OBVIOUS
  <2> USE OnceAssumption DEF TypeOK, PhaseInv, Runner, Locations, Goto,
          Once!specVars
  <2>1. ASSUME NEW t \in Threads, Call(t)     PROVE Once!Enter(t)
      BY <2>1 DEF Call, Once!Enter
  <2>2. ASSUME NEW t \in Threads, Claim(t)
        PROVE  Once!Begin(t) \/ UNCHANGED Once!specVars
      BY <2>2 DEF Claim, Once!Begin
  <2>3. ASSUME NEW t \in Threads, Callout(t)  PROVE Once!Complete(t)
      BY <2>3 DEF Callout, Once!Complete
  <2>4. ASSUME NEW t \in Threads, WakeEnd(t)  PROVE Once!Leave(t)
      BY <2>4 DEF WakeEnd, Once!Leave
  <2>5. ASSUME NEW t \in Threads, Load(t)
        PROVE  Once!Leave(t) \/ UNCHANGED Once!specVars
      BY <2>5 DEF Load, Once!Leave
  <2>6. ASSUME NEW t \in Threads,
               Finish(t) \/ WakeNext(t) \/ Signal(t) \/ Push(t) \/ Link(t)
                 \/ Wait(t)
        PROVE  UNCHANGED Once!specVars
      BY <2>6 DEF Finish, WakeNext, Signal, Push, Link, Wait
  <2>7. ASSUME UNCHANGED onceVars  PROVE UNCHANGED Once!specVars
      BY <2>7 DEF onceVars
  <2>8. QED
      BY <2>1, <2>2, <2>3, <2>4, <2>5, <2>6, <2>7
         DEF Next, Step, CallDone, Once!Next
<1>3. QED
    BY <1>1, <1>2, OncePhase, PTL DEF Spec, ImplementsOnce, Once!Spec
-----------------------------------------------------------------------------
(***************************************************************************)
(* The shape of the list.  No reachability is needed: it is enough that    *)
(* the links are injective, that they lead from listed records to listed   *)
(* records or to the runner's own, and that nothing links to the head.     *)
(* Walking past the head then leaves a list of the same shape.             *)
(***************************************************************************)

\* The record a listed record leads to, written to dow_next or about to be.
Successor(t) == IF pc[t] = "link" THEN tmp[t] ELSE dowNext[t]

\* The first record the runner has not woken yet.
HeadOf(r) == CASE pc[r] = "wake"   -> tmp[r]
               [] pc[r] = "signal" -> wakee[r]
               [] OTHER            -> vval

OnList(r, n) == n \in Threads /\ (n = r \/ Listed(n))

SemaInv ==
    \A t \in Threads :
        /\ sema[t] # 0 => pc[t] = "wait" /\ sema[t] = 1 /\ vval = DONE
        /\ pc[t] \in {"claim", "load", "push", "link"} =>
             dowNext[t] = NULL \/ vval = DONE
        /\ pc[t] = "link" => dowNext[t] = NULL
        /\ pc[t] = "wait" => dowNext[t] # NULL

ListInv ==
    \A r \in Threads : Runner(r) =>
        /\ OnList(r, HeadOf(r))
        /\ pc[r] = "signal" => /\ pc[wakee[r]] = "wait"
                               /\ sema[wakee[r]] = 0
                               /\ tmp[r] = dowNext[wakee[r]]
        /\ \A t \in Threads : Listed(t) => /\ OnList(r, Successor(t))
                                           /\ Successor(t) # HeadOf(r)
        /\ \A s, t \in Threads :
             Listed(s) /\ Listed(t) /\ Successor(s) = Successor(t) => s = t

ListSafe == TypeOK /\ PhaseInv /\ SemaInv /\ ListInv

LEMMA InitList == Init => ListSafe
  BY InitInvariant DEF Init, ListSafe, SemaInv, ListInv, Runner, Listed

LEMMA StepSema ==
  TypeOK /\ PhaseInv /\ SemaInv /\ ListInv /\ [Next]_onceVars => SemaInv'
<1> SUFFICES ASSUME TypeOK, PhaseInv, SemaInv, ListInv, [Next]_onceVars
             PROVE  SemaInv'
    OBVIOUS
<1> USE OnceAssumption DEF TypeOK, PhaseInv, SemaInv, Runner, Locations, Goto
<1>1. ASSUME NEW t \in Threads, Call(t)  PROVE SemaInv'
    BY <1>1 DEF Call
<1>2. ASSUME NEW t \in Threads, Claim(t)  PROVE SemaInv'
    BY <1>2 DEF Claim
<1>3. ASSUME NEW t \in Threads, Callout(t)  PROVE SemaInv'
    BY <1>3 DEF Callout
<1>4. ASSUME NEW t \in Threads, Finish(t)  PROVE SemaInv'
    BY <1>4 DEF Finish
<1>5. ASSUME NEW t \in Threads, WakeNext(t)  PROVE SemaInv'
    BY <1>5 DEF WakeNext
<1>6. ASSUME NEW t \in Threads, Signal(t)  PROVE SemaInv'
    BY <1>6 DEF Signal, ListInv
<1>7. ASSUME NEW t \in Threads, WakeEnd(t)  PROVE SemaInv'
    BY <1>7 DEF WakeEnd
<1>8. ASSUME NEW t \in Threads, Load(t)  PROVE SemaInv'
    BY <1>8 DEF Load
<1>9. ASSUME NEW t \in Threads, Push(t)  PROVE SemaInv'
    BY <1>9 DEF Push
<1>10. ASSUME NEW t \in Threads, Link(t)  PROVE SemaInv'
    BY <1>10 DEF Link
<1>11. ASSUME NEW t \in Threads, Wait(t)  PROVE SemaInv'
    BY <1>11 DEF Wait
<1>12. ASSUME UNCHANGED onceVars  PROVE SemaInv'
    BY <1>12 DEF onceVars
<1>13. QED
    BY <1>1, <1>2, <1>3, <1>4, <1>5, <1>6, <1>7, <1>8, <1>9, <1>10, <1>11,
       <1>12 DEF Next, Step, CallDone

LEMMA StepList ==
  TypeOK /\ PhaseInv /\ SemaInv /\ ListInv /\ [Next]_onceVars => ListInv'
<1> SUFFICES ASSUME TypeOK, PhaseInv, SemaInv, ListInv, [Next]_onceVars
             PROVE  ListInv'
    OBVIOUS
<1> USE OnceAssumption DEF TypeOK, PhaseInv, SemaInv, ListInv, Runner,
        Locations, Goto, Listed, Successor, HeadOf, OnList
<1>1. ASSUME NEW t \in Threads, Call(t)  PROVE ListInv'
    BY <1>1 DEF Call
<1>2. ASSUME NEW t \in Threads, Claim(t)  PROVE ListInv'
    BY <1>2 DEF Claim
<1>3. ASSUME NEW t \in Threads, Callout(t)  PROVE ListInv'
    BY <1>3 DEF Callout
<1>4. ASSUME NEW t \in Threads, Finish(t)  PROVE ListInv'
    BY <1>4 DEF Finish
<1>5. ASSUME NEW t \in Threads, WakeNext(t)  PROVE ListInv'
    BY <1>5 DEF WakeNext
<1>6. ASSUME NEW t \in Threads, Signal(t)  PROVE ListInv'
    BY <1>6 DEF Signal
<1>7. ASSUME NEW t \in Threads, WakeEnd(t)  PROVE ListInv'
    BY <1>7 DEF WakeEnd
<1>8. ASSUME NEW t \in Threads, Load(t)  PROVE ListInv'
    BY <1>8 DEF Load
<1>9. ASSUME NEW t \in Threads, Push(t)  PROVE ListInv'
  <2>1. tmp[t] \in Threads /\ tmp[t] # DONE /\ tmp[t] # NULL
      BY <1>9 DEF Push
  <2>2. CASE vval # tmp[t]
      BY <1>9, <2>2 DEF Push
  <2>3. CASE vval = tmp[t]
    <3> USE <1>9, <2>1, <2>3 DEF Push
    <3>1. vval' = t /\ pc' = [pc EXCEPT ![t] = "link"] /\ vval # DONE
          /\ UNCHANGED <<dowNext, sema, tmp, wakee>>
        OBVIOUS
    <3>2. sema[t] = 0 /\ ~Listed(t)  OBVIOUS
    <3> SUFFICES ASSUME NEW r \in Threads, Runner(r)'
                 PROVE  /\ OnList(r, HeadOf(r))'
                        /\ \A n \in Threads :
                             Listed(n)' => /\ OnList(r, Successor(n))'
                                           /\ (Successor(n) # HeadOf(r))'
                        /\ \A m, n \in Threads :
                             /\ Listed(m)' /\ Listed(n)'
                             /\ Successor(m)' = Successor(n)'
                             => m = n
        OBVIOUS
    <3>3. Runner(r) /\ r # t /\ pc[r] \in {"callout", "finish"}
          /\ HeadOf(r) = vval /\ HeadOf(r)' = t
        OBVIOUS
    <3>4. OnList(r, HeadOf(r))'
        BY <3>2
    <3>5. \A n \in Threads : n # t => /\ Listed(n)' <=> Listed(n)
                                      /\ Successor(n)' = Successor(n)
        OBVIOUS
    <3>6. Successor(t)' = vval
        OBVIOUS
    <3>7. ASSUME NEW n \in Threads, Listed(n)'
          PROVE  OnList(r, Successor(n))' /\ (Successor(n) # HeadOf(r))'
      <4>1. CASE n = t  BY <3>2, <3>3, <3>6, <4>1
      <4>2. CASE n # t  BY <3>2, <3>3, <3>5, <3>7, <4>2
      <4>3. QED  BY <4>1, <4>2
    <3>8. ASSUME NEW m \in Threads, NEW n \in Threads, Listed(m)', Listed(n)',
                 Successor(m)' = Successor(n)'
          PROVE  m = n
        BY <3>3, <3>5, <3>6, <3>8
    <3>9. QED  BY <3>4, <3>7, <3>8
  <2>4. QED  BY <2>2, <2>3
<1>10. ASSUME NEW t \in Threads, Link(t)  PROVE ListInv'
    BY <1>10 DEF Link
<1>11. ASSUME NEW t \in Threads, Wait(t)  PROVE ListInv'
    BY <1>11 DEF Wait
<1>12. ASSUME UNCHANGED onceVars  PROVE ListInv'
    BY <1>12 DEF onceVars
<1>13. QED
    BY <1>1, <1>2, <1>3, <1>4, <1>5, <1>6, <1>7, <1>8, <1>9, <1>10, <1>11,
       <1>12 DEF Next, Step, CallDone

LEMMA OnceListSafe == Spec => []ListSafe
<1>1. ListSafe /\ [Next]_onceVars => ListSafe'
    BY StepInvariant, StepSema, StepList DEF ListSafe
<1>2. QED
    BY InitList, <1>1, PTL DEF Spec

\* The walk never touches the record of a thread that may have returned.
THEOREM OnceWalkerSafe == Spec => []WalkerReadsLiveRecords
<1>1. ListSafe => WalkerReadsLiveRecords
    BY DEF ListSafe, TypeOK, ListInv, WalkerReadsLiveRecords, Runner, HeadOf,
           OnList, Listed, SemaInv, PhaseInv
<1>2. QED
    BY <1>1, OnceListSafe, PTL

\* The thread semaphore is back at zero whenever no wait of this call is due.
THEOREM OnceSemaphoreEmpty == Spec => []SemaphoreReturnedEmpty
<1>1. ListSafe => SemaphoreReturnedEmpty
    BY DEF ListSafe, SemaInv, SemaphoreReturnedEmpty
<1>2. QED
    BY <1>1, OnceListSafe, PTL

-----------------------------------------------------------------------------
(* The shape allows a ring of records that the walk would never get to.    *)
(* There is none: every record leads to one that was pushed before it.     *)

\* The order in which the records were pushed.
Ordered(rank) ==
    \A t \in Threads : Listed(t) => /\ Successor(t) \in Threads
                                   /\ rank[Successor(t)] < rank[t]

\* Whoever is listed has somebody to walk the list, now or later.
Attended == /\ vval \notin {NULL, DONE} => \E r \in Threads : Runner(r)
            /\ \A t \in Threads : Listed(t) => \E r \in Threads : Runner(r)

Awaited == Attended /\ \E rank \in [Threads -> Nat] : Ordered(rank)

LEMMA InitAwaited == Init => Awaited
<1> SUFFICES ASSUME Init  PROVE Awaited
    OBVIOUS
<1>1. \A t \in Threads : ~Listed(t)
    BY DEF Init, Listed
<1>2. [t \in Threads |-> 0] \in [Threads -> Nat]
    OBVIOUS
<1>3. QED
    BY <1>1, <1>2 DEF Awaited, Attended, Ordered, Init

\* A record that stays on the list, or leaves it, changes no order.
LEMMA OrderStays ==
  ASSUME \E rank \in [Threads -> Nat] : Ordered(rank),
         \A t \in Threads :
           Listed(t)' => Listed(t) /\ Successor(t)' = Successor(t)
  PROVE  \E rank \in [Threads -> Nat] : Ordered(rank)'
  BY DEF Ordered

\* When the walk is at the oldest record nobody is listed any more: the oldest
\* of those that were would lead to that one, which nothing leads to.
LEMMA WalkIsComplete ==
  ASSUME ListSafe, NEW rank \in [Threads -> Nat], Ordered(rank),
         NEW r \in Threads, pc[r] = "wake", tmp[r] = r
  PROVE  \A t \in Threads : ~Listed(t)
<1> SUFFICES ASSUME NEW t \in Threads, Listed(t)  PROVE FALSE
    OBVIOUS
<1>1. PICK u \in {v \in Threads : Listed(v)} :
         \A v \in Threads : Listed(v) => ~(rank[v] < rank[u])
  <2> DEFINE S == {v \in Threads : Listed(v)}
  <2>1. S # {} /\ \A v \in S : rank[v] \in Nat
      OBVIOUS
  <2> HIDE DEF S
  <2>2. \E u \in S : \A v \in S : ~(rank[v] < rank[u])
      BY <2>1, LowestRank
  <2>3. QED
      BY <2>2 DEF S
<1>2. /\ Runner(r) /\ HeadOf(r) = r /\ OnList(r, Successor(u))
      /\ Successor(u) # r
    BY <1>1 DEF ListSafe, ListInv, Runner, HeadOf
<1>3. QED
    BY <1>1, <1>2 DEF OnList, Ordered

\* Every step keeps the order, and ends no walk too early.
LEMMA StepAwaited ==
  ASSUME ListSafe, Awaited, [Next]_onceVars  PROVE Awaited'
<1> USE OnceAssumption DEF Locations, Goto
<1>0. /\ pc \in [Threads -> Locations]
      /\ \A t \in Threads : pc[t] = "push" => tmp[t] \in Threads
    BY DEF ListSafe, TypeOK
<1>a. PICK rank \in [Threads -> Nat] : Ordered(rank)
    BY DEF Awaited
<1>b. Attended
    BY DEF Awaited
<1>1. ASSUME NEW t \in Threads, Push(t), vval = tmp[t]  PROVE Awaited'
  <2>1. /\ pc[t] = "push" /\ vval' = t /\ pc' = [pc EXCEPT ![t] = "link"]
        /\ vval \in Threads /\ UNCHANGED <<dowNext, sema, tmp, wakee>>
      BY <1>0, <1>1 DEF Push
  <2>2. PICK r \in Threads : Runner(r)
      BY <1>b, <2>1 DEF Attended
  <2>3. Runner(r)' /\ r # t
      BY <1>0, <2>1, <2>2 DEF Runner
  <2>4. Attended'
      BY <2>3 DEF Attended
  <2>5. sema[t] = 0 /\ ~Listed(t)
      BY <2>1 DEF ListSafe, SemaInv, Listed
  <2> DEFINE new == [rank EXCEPT ![t] = rank[vval] + 1]
  <2>6. vval # t
      BY <2>1, <2>2, <2>3, <2>5 DEF ListSafe, ListInv, OnList, HeadOf, Runner,
                                    PhaseInv
  <2>7. ASSUME NEW u \in Threads, Listed(u)'
        PROVE  Successor(u)' \in Threads /\ new[Successor(u)'] < new[u]
    <3>1. CASE u = t
      <4>1. Successor(u)' = vval
          BY <1>0, <2>1, <3>1, <1>1 DEF Successor
      <4>2. QED
          BY <4>1, <2>1, <2>6, <3>1
    <3>2. CASE u # t
      <4>1. Listed(u) /\ Successor(u)' = Successor(u)
          BY <1>0, <2>1, <2>7, <3>2 DEF Listed, Successor
      <4>2. Successor(u) # t
          BY <2>2, <2>3, <2>5, <4>1 DEF ListSafe, ListInv, OnList
      <4>3. QED
          BY <1>a, <4>1, <4>2, <3>2 DEF Ordered
    <3>3. QED
        BY <3>1, <3>2
  <2>8. new \in [Threads -> Nat]
      BY <2>1
  <2> HIDE DEF new
  <2>9. QED
      BY <2>4, <2>7, <2>8 DEF Awaited, Ordered
<1>2. ASSUME NEW t \in Threads, WakeEnd(t)  PROVE Awaited'
  <2>1. \A u \in Threads : ~Listed(u)
      BY <1>2, <1>a, WalkIsComplete DEF WakeEnd
  <2>2. \A u \in Threads : ~Listed(u)'
      BY <1>0, <1>2, <2>1 DEF WakeEnd, Listed
  <2>3. vval' = DONE
      BY <1>2 DEF WakeEnd, ListSafe, PhaseInv
  <2>4. QED
      BY <1>a, <2>2, <2>3 DEF Awaited, Attended, Ordered
<1>3. ASSUME NEW t \in Threads, Link(t)  PROVE Awaited'
  <2>1. \A u \in Threads :
           /\ Listed(u)' => Listed(u) /\ Successor(u)' = Successor(u)
           /\ Runner(u) => Runner(u)'
      BY <1>0, <1>3 DEF Link, Listed, Successor, Runner, ListSafe, TypeOK
  <2>2. vval' = vval
      BY <1>3 DEF Link
  <2>3. QED
      BY <2>1, <2>2, <1>a, <1>b, OrderStays DEF Awaited, Attended
<1>4. ASSUME NEW t \in Threads,
             \/ Call(t) \/ Callout(t) \/ Finish(t) \/ Load(t) \/ Wait(t)
             \/ WakeNext(t) \/ Signal(t)
             \/ Push(t) /\ vval # tmp[t]
             \/ Claim(t) /\ vval # NULL
      PROVE  Awaited'
  <2>1. ASSUME NEW u \in Threads
        PROVE  /\ Listed(u)' => Listed(u) /\ Successor(u)' = Successor(u)
               /\ Runner(u) => Runner(u)'
      BY <1>0, <1>4 DEF Call, Callout, Finish, Load, Wait, WakeNext, Signal,
             Push, Claim, Listed, Successor, Runner, ListSafe, TypeOK, SemaInv
  <2>2. vval' \in {vval, DONE}
      BY <1>4 DEF Call, Callout, Finish, Load, Wait, WakeNext, Signal, Push,
             Claim
  <2>3. QED
      BY <2>1, <2>2, <1>a, <1>b, OrderStays DEF Awaited, Attended
<1>5. ASSUME NEW t \in Threads, Claim(t), vval = NULL  PROVE Awaited'
  <2>1. \A u \in Threads :
           Listed(u)' => Listed(u) /\ Successor(u)' = Successor(u)
      BY <1>0, <1>5 DEF Claim, Listed, Successor
  <2>2. Runner(t)'
      BY <1>0, <1>5 DEF Claim, Runner
  <2>3. QED
      BY <2>1, <2>2, <1>a, OrderStays DEF Awaited, Attended
<1>6. ASSUME UNCHANGED onceVars  PROVE Awaited'
    BY <1>6, <1>a, <1>b DEF onceVars, Awaited, Attended, Ordered, Listed,
           Successor, Runner
<1>7. ASSUME NEW t \in Threads, Call(t) \/ CallDone(t) \/ Step(t)
      PROVE  Awaited'
  <2>1. CASE Push(t)
    <3>1. CASE vval = tmp[t]
        BY <2>1, <3>1, <1>1
    <3>2. CASE vval # tmp[t]
      <4>1. Push(t) /\ vval # tmp[t]
          BY <2>1, <3>2
      <4>2. QED
          BY <4>1, <1>4
    <3>3. QED
        BY <3>1, <3>2
  <2>2. CASE Claim(t)
      BY <2>2, <1>4, <1>5
  <2>3. CASE CallDone(t)
      BY <2>3, <1>6 DEF CallDone
  <2>4. QED
      BY <1>7, <1>2, <1>3, <1>4, <2>1, <2>2, <2>3 DEF Step
<1>8. QED
    BY <1>6, <1>7 DEF Next

\* However many threads call and whenever they push their records, nobody is
\* asleep without a wake-up after the walk of the list.
THEOREM OnceNobodyLeft == Spec => []NobodyLeftBehind
<1>1. ListSafe /\ Awaited => NobodyLeftBehind
  <2> SUFFICES ASSUME ListSafe, Awaited, vval = DONE,
                      \A t \in Threads : pc[t] \notin {"wake", "signal"},
                      NEW t \in Threads, pc[t] = "wait"
               PROVE  sema[t] > 0
      BY DEF NobodyLeftBehind
  <2>1. \A r \in Threads : ~Runner(r)
      BY DEF Runner, ListSafe, PhaseInv
  <2>2. ~Listed(t)
      BY <2>1 DEF Awaited, Attended
  <2>3. QED
      BY <2>2 DEF Listed, ListSafe, TypeOK
<1>2. ListSafe /\ Awaited /\ [Next]_onceVars => Awaited'
    BY StepAwaited
<1>3. QED
    BY <1>1, <1>2, InitAwaited, OnceListSafe, PTL DEF Spec
=============================================================================
