------------------------ MODULE ObjcInitializeProofs ------------------------
(***************************************************************************)
(* +initialize, for any hierarchy of classes, whatever their methods send, *)
(* and any threads: the classes a thread may use reach up to the root, the *)
(* assertions of the runtime hold and nobody uses a class too early.       *)
(***************************************************************************)
EXTENDS ObjcInitialize, TLAPS

\* The call of the +initialize method of c is on the thread's stack.
Sending(t, c) == \E i \in 1 .. Depth(t) : calls[t][i].at = "method" /\ calls[t][i].cls = c

\* What a call knows where it is; the ones below the top wait for the class
\* above, or run a method.
CallOK(t, i) ==
    LET f == calls[t][i] IN
    /\ i < Depth(t) => f.at \in {"try", "method"}
    /\ f.at = "method" =>
          /\ f.cls \in mine[t]
          /\ \A j \in 1 .. Depth(t) :
                calls[t][j].at = "method" /\ calls[t][j].cls = f.cls => j = i
    /\ f.at = "try" =>
          IF i < Depth(t) THEN calls[t][i + 1].cls = Super[f.cls]
          ELSE Super[f.cls] # NULL => Usable(t, Super[f.cls])
    /\ f.at = "lost" => state[f.cls] # "untouched"
    /\ f.at = "check" => Initialized(f.cls)
    /\ f.at = "finishing" => lock = t /\ (f.cls \in finishing \/ Initialized(f.cls))

CallsOK == \A t \in Threads : \A i \in 1 .. Depth(t) : CallOK(t, i)

Owners == /\ \A t \in Threads : \A c \in mine[t] : state[c] = "initializing"
          /\ \A t, u \in Threads : t # u => mine[t] \cap mine[u] = {}

\* A class waits for its superclass only if the same thread initializes both.
WaitOK(s, c) == /\ Super[c] = s /\ c \notin finishing
                /\ \E t \in Threads : c \in mine[t] /\ s \in mine[t] /\ ~Sending(t, c)
PendingOK == \A s \in Classes : \A c \in pending[s] : WaitOK(s, c)

FinishingOK ==
    /\ lock = NULL => finishing = {}
    /\ \A c \in finishing : lock \in Threads /\ c \in mine[lock] /\ RootOrAfter(c)
                                             /\ ~Sending(lock, c)

InitializeInv == TypeOK /\ CallsOK /\ Owners /\ PendingOK /\ FinishingOK /\ Contiguous

-----------------------------------------------------------------------------
(***************************************************************************)
(* What a step does to the stack of its thread.                            *)
(***************************************************************************)

\* The stacks of a step of t: those of the other threads stay.
OnlyCallsOf(t) == /\ calls' \in [Threads -> Seq(Frames)]
                  /\ \A u \in Threads \ {t} : calls'[u] = calls[u]

\* The top call is at another place.
LEMMA GotoShape ==
    ASSUME TypeOK, NEW t \in Threads, Running(t), NEW place \in Places, Goto(t, place)
    PROVE  /\ OnlyCallsOf(t)
           /\ Depth(t) \in Nat \ {0} /\ Depth(t)' = Depth(t)
           /\ \A i \in 1 .. Depth(t) : calls[t][i] \in Frames
           /\ \A i \in 1 .. Depth(t) : i # Depth(t) => calls'[t][i] = calls[t][i]
           /\ calls'[t][Depth(t)] = [calls[t][Depth(t)] EXCEPT !.at = place]
<1>1. calls[t] \in Seq(Frames) /\ Depth(t) \in Nat \ {0}
  BY DEF TypeOK, Running, Depth
<1>2. \A i \in 1 .. Depth(t) : calls[t][i] \in Frames
  BY <1>1 DEF Depth
<1>3. [calls[t][Depth(t)] EXCEPT !.at = place] \in Frames
  BY <1>1, <1>2 DEF Frames
<1>4. calls' = [calls EXCEPT ![t] =
                  [calls[t] EXCEPT ![Depth(t)] = [calls[t][Depth(t)] EXCEPT !.at = place]]]
  BY DEF Goto
<1> QED  BY <1>1, <1>2, <1>3, <1>4 DEF OnlyCallsOf, TypeOK, Depth

\* A call is made from the top one.
LEMMA PushShape ==
    ASSUME TypeOK, NEW t \in Threads, Running(t), NEW f \in Frames, NEW c \in Classes,
           calls' = [calls EXCEPT ![t] = Append([calls[t] EXCEPT ![Depth(t)] = f], Call(c))]
    PROVE  /\ OnlyCallsOf(t)
           /\ Depth(t) \in Nat \ {0} /\ Depth(t)' = Depth(t) + 1
           /\ \A i \in 1 .. Depth(t) : i # Depth(t) => calls'[t][i] = calls[t][i]
           /\ calls'[t][Depth(t)] = f /\ calls'[t][Depth(t) + 1] = Call(c)
<1>1. calls[t] \in Seq(Frames) /\ Depth(t) \in Nat \ {0}
  BY DEF TypeOK, Running, Depth
<1>2. Call(c) \in Frames
  BY DEF Call, Frames, Places
<1> DEFINE s == [calls[t] EXCEPT ![Depth(t)] = f]
<1>3. /\ s \in Seq(Frames) /\ Len(s) = Depth(t) /\ s[Depth(t)] = f
      /\ \A i \in 1 .. Depth(t) : i # Depth(t) => s[i] = calls[t][i]
  BY <1>1 DEF Depth
<1>4. calls'[t] = Append(s, Call(c)) /\ OnlyCallsOf(t)
  BY <1>2, <1>3 DEF OnlyCallsOf, TypeOK
<1> HIDE DEF s
<1>5. /\ Len(Append(s, Call(c))) = Depth(t) + 1
      /\ Append(s, Call(c))[Depth(t) + 1] = Call(c)
      /\ \A i \in 1 .. Depth(t) : Append(s, Call(c))[i] = s[i]
  BY <1>1, <1>2, <1>3
<1> QED  BY <1>1, <1>3, <1>4, <1>5 DEF Depth

\* The calls above the kth are gone.
LEMMA KeepShape ==
    ASSUME TypeOK, NEW t \in Threads, NEW k \in 0 .. Depth(t) - 1, Keep(t, k)
    PROVE  /\ OnlyCallsOf(t)
           /\ Depth(t)' = k
           /\ \A i \in 1 .. k : calls'[t][i] = calls[t][i]
<1>1. calls[t] \in Seq(Frames) /\ Depth(t) \in Nat
  BY DEF TypeOK, Depth
<1>2. SubSeq(calls[t], 1, k) \in Seq(Frames) /\ Len(SubSeq(calls[t], 1, k)) = k
  BY <1>1 DEF Depth
<1>3. \A i \in 1 .. k : SubSeq(calls[t], 1, k)[i] = calls[t][i]
  BY <1>1 DEF Depth
<1> QED  BY <1>1, <1>2, <1>3 DEF OnlyCallsOf, TypeOK, Depth, Keep

\* Returning and throwing keep the calls below the top that do not end with
\* one of _class_initialize() that was waiting for it, unless they return.
LEMMA LeaveShape ==
    ASSUME TypeOK, NEW t \in Threads, Running(t), Return(t) \/ Throw(t)
    PROVE  \E k \in 0 .. Depth(t) - 1 :
              /\ Keep(t, k)
              /\ k = 0 \/ k = Depth(t) - 1 \/ calls[t][k].at = "method"
<1>1. Depth(t) \in Nat \ {0}
  BY DEF TypeOK, Running, Depth
<1>2. CASE Return(t)
  BY <1>1, <1>2 DEF Return
<1>3. CASE Throw(t)
  BY <1>1, <1>3 DEF Throw
<1> QED  BY <1>2, <1>3

-----------------------------------------------------------------------------
(***************************************************************************)
(* The calls and classes a step leaves alone.                              *)
(***************************************************************************)

\* The calls of another thread stay as they should be.
LEMMA OthersOK ==
    ASSUME InitializeInv, NEW t \in Threads, OnlyCallsOf(t),
           \A u \in Threads \ {t} : mine'[u] = mine[u],
           \A c \in Classes : /\ state[c] # "untouched" => state'[c] # "untouched"
                              /\ Initialized(c) => Initialized(c)',
           lock \in {t, NULL} \/ UNCHANGED <<lock, finishing>>,
           \A i \in 1 .. Depth(t)' : CallOK(t, i)'
    PROVE  CallsOK'
<1> SUFFICES ASSUME NEW u \in Threads \ {t}, NEW i \in 1 .. Depth(u)
             PROVE  CallOK(u, i)'
  BY DEF CallsOK, Depth, OnlyCallsOf
<1>1. CallOK(u, i) /\ calls'[u] = calls[u] /\ Depth(u)' = Depth(u) /\ mine'[u] = mine[u]
  BY DEF InitializeInv, CallsOK, OnlyCallsOf, Depth
<1>2. calls[u][i] \in Frames
  BY DEF InitializeInv, TypeOK, Depth
<1>3. \A c \in Classes : Usable(u, c) => Usable(u, c)'
  BY <1>1 DEF Usable
<1>4. calls[u][i].at = "finishing" => lock' = u /\ lock = u /\ finishing' = finishing
  BY <1>1, HierarchyAssumption DEF CallOK
<1>5. Super[calls[u][i].cls] # NULL => Super[calls[u][i].cls] \in Classes
  BY <1>2, HierarchyAssumption DEF Frames
<1> QED  BY <1>1, <1>2, <1>3, <1>4, <1>5 DEF CallOK, Frames

\* Leaving a call leaves the ones below as they should be, if what the one it
\* returns to has waited for may be used.
LEMMA LeaveOK ==
    ASSUME InitializeInv, NEW t \in Threads, NEW k \in 0 .. Depth(t) - 1, Keep(t, k),
           UNCHANGED <<state, mine>>,
           k = 0 \/ (k = Depth(t) - 1 /\ Usable(t, Top(t).cls)) \/ calls[t][k].at = "method"
    PROVE  \A i \in 1 .. Depth(t)' : CallOK(t, i)'
<1> SUFFICES ASSUME NEW i \in 1 .. k
             PROVE  CallOK(t, i)'
  BY KeepShape DEF InitializeInv
<1>1. Depth(t)' = k /\ \A j \in 1 .. k : calls'[t][j] = calls[t][j]
  BY KeepShape DEF InitializeInv
<1>2. Depth(t) \in Nat /\ k < Depth(t)
  BY DEF InitializeInv, TypeOK, Depth
<1>3. CallOK(t, i) /\ calls[t][i].at \in {"try", "method"}
  BY <1>2 DEF InitializeInv, CallsOK, CallOK
<1>4. \A c : Usable(t, c)' <=> Usable(t, c)
  BY DEF Usable, Initialized
<1>5. ASSUME calls[t][i].at = "method"
      PROVE  CallOK(t, i)'
  BY <1>1, <1>2, <1>3, <1>5 DEF CallOK
<1>6. ASSUME calls[t][i].at = "try", i < k
      PROVE  CallOK(t, i)'
  BY <1>1, <1>2, <1>3, <1>6 DEF CallOK
<1>7. ASSUME calls[t][i].at = "try", i = k
      PROVE  CallOK(t, i)'
  <2>1. k = Depth(t) - 1 /\ Usable(t, Top(t).cls)
    BY <1>7
  <2>2. Top(t).cls = Super[calls[t][i].cls]
    BY <1>2, <1>3, <1>7, <2>1 DEF CallOK, Top
  <2> QED  BY <1>1, <1>3, <1>4, <1>7, <2>1, <2>2 DEF CallOK
<1> QED  BY <1>3, <1>5, <1>6, <1>7

\* A step that changes only its thread's calls, and runs no other method.
LEMMA LocalStep ==
    ASSUME InitializeInv, NEW t \in Threads, OnlyCallsOf(t),
           UNCHANGED <<state, mine, pending, lock, finishing>>, (asleep \subseteq Threads)',
           \A c \in Classes : Sending(t, c)' => Sending(t, c),
           \A i \in 1 .. Depth(t)' : CallOK(t, i)'
    PROVE  InitializeInv'
<1>1. TypeOK'
  BY DEF InitializeInv, TypeOK, OnlyCallsOf
<1>2. CallsOK'
  BY OthersOK DEF Initialized
<1>3. Owners' /\ Contiguous'
  BY DEF InitializeInv, Owners, Contiguous, Usable, Initialized
<1>4. \A u \in Threads : \A c \in Classes : Sending(u, c)' => Sending(u, c)
  BY DEF Sending, OnlyCallsOf, Depth
<1>5. PendingOK'
  BY <1>4 DEF InitializeInv, TypeOK, PendingOK, WaitOK
<1>6. FinishingOK'
  BY <1>4 DEF InitializeInv, TypeOK, FinishingOK, RootOrAfter, Initialized
<1> QED  BY <1>1, <1>2, <1>3, <1>5, <1>6 DEF InitializeInv

-----------------------------------------------------------------------------
(***************************************************************************)
(* The invariant: one lemma for each action that changes the classes.      *)
(***************************************************************************)

LEMMA InitialStates == Init => InitializeInv
<1> SUFFICES ASSUME Init
             PROVE  InitializeInv
  OBVIOUS
<1>1. \A t \in Threads : calls[t] = <<>> /\ Depth(t) = 0
  BY DEF Init, Depth
<1>2. TypeOK
  BY DEF Init, TypeOK
<1>3. CallsOK
  BY <1>1 DEF CallsOK
<1>4. Owners /\ PendingOK /\ FinishingOK
  BY DEF Init, Owners, PendingOK, FinishingOK
<1>5. Contiguous
  BY DEF Init, Contiguous, Usable, Initialized
<1> QED  BY <1>2, <1>3, <1>4, <1>5 DEF InitializeInv

\* What the top call is.
LEMMA TopCall ==
    ASSUME InitializeInv, NEW t \in Threads, Running(t)
    PROVE  /\ Depth(t) \in Nat \ {0} /\ Top(t) = calls[t][Depth(t)]
           /\ Top(t) \in Frames /\ Top(t).cls \in Classes
           /\ CallOK(t, Depth(t))
<1>1. calls[t] \in Seq(Frames) /\ Depth(t) \in Nat \ {0}
  BY DEF InitializeInv, TypeOK, Running, Depth
<1>2. Top(t) = calls[t][Depth(t)] /\ Top(t) \in Frames
  BY <1>1 DEF Top, Depth
<1>3. Depth(t) \in 1 .. Depth(t)
  BY <1>1
<1>4. CallOK(t, Depth(t))
  BY <1>3 DEF InitializeInv, CallsOK
<1> QED  BY <1>1, <1>2, <1>4 DEF Frames

LEMMA SendStep ==
    ASSUME InitializeInv, NEW t \in Threads, NEW c \in Classes, Send(t, c)
    PROVE  InitializeInv'
<1>1. Call(c) \in Frames
  BY DEF Call, Frames, Places
<1>2. OnlyCallsOf(t) /\ Depth(t)' = 1 /\ calls'[t][1] = Call(c)
  BY <1>1 DEF Send, InitializeInv, TypeOK, OnlyCallsOf, Depth
<1>3. Depth(t) = 0
  BY DEF Send, Running, Depth
<1>4. \A i \in 1 .. Depth(t)' : CallOK(t, i)'
  BY <1>2 DEF CallOK, Call
<1>5. \A d \in Classes : Sending(t, d)' => Sending(t, d)
  BY <1>2 DEF Sending, Call
<1>6. UNCHANGED <<state, mine, pending, lock, finishing>> /\ (asleep \subseteq Threads)'
  BY DEF Send, InitializeInv, TypeOK
<1> QED  BY <1>2, <1>4, <1>5, <1>6, LocalStep

LEMMA SendFromInitializeStep ==
    ASSUME InitializeInv, NEW t \in Threads, NEW c \in Classes, SendFromInitialize(t, c)
    PROVE  InitializeInv'
<1> DEFINE f == [calls[t][Depth(t)] EXCEPT !.todo = @ \ {c}]
<1>1. Running(t) /\ Top(t).at = "method" /\ TypeOK
  BY DEF SendFromInitialize, At, InitializeInv
<1>2. /\ f \in Frames /\ f.at = "method" /\ f.cls = calls[t][Depth(t)].cls
      /\ calls[t][Depth(t)].at = "method"
  BY <1>1, TopCall DEF Frames
<1>3. UNCHANGED <<state, mine, pending, lock, finishing>> /\ (asleep \subseteq Threads)'
  BY DEF SendFromInitialize, InitializeInv, TypeOK
<1> HIDE DEF f
<1>4. CASE Initialized(c)
  <2>1. calls' = [calls EXCEPT ![t] = [calls[t] EXCEPT ![Depth(t)] = f]]
    BY <1>4 DEF SendFromInitialize, f
  <2>2. /\ OnlyCallsOf(t) /\ Depth(t) \in Nat \ {0} /\ Depth(t)' = Depth(t)
        /\ calls'[t][Depth(t)] = f
        /\ \A i \in 1 .. Depth(t) : i # Depth(t) => calls'[t][i] = calls[t][i]
    BY <1>1, <1>2, <2>1 DEF TypeOK, OnlyCallsOf, Depth, Running
  <2>3. \A i \in 1 .. Depth(t) : calls'[t][i].at = calls[t][i].at
                                 /\ calls'[t][i].cls = calls[t][i].cls
    BY <1>2, <2>2
  <2>4. \A i \in 1 .. Depth(t)' : CallOK(t, i)'
    <3> SUFFICES ASSUME NEW i \in 1 .. Depth(t)
                 PROVE  CallOK(t, i)'
      BY <2>2
    <3>1. CallOK(t, i)
      BY DEF InitializeInv, CallsOK
    <3> QED  BY <1>3, <2>2, <2>3, <3>1 DEF CallOK, Usable, Initialized
  <2>5. \A d \in Classes : Sending(t, d)' => Sending(t, d)
    BY <2>2, <2>3 DEF Sending
  <2> QED  BY <1>3, <2>2, <2>4, <2>5, LocalStep
<1>5. CASE ~Initialized(c)
  <2>1. calls' = [calls EXCEPT ![t] = Append([calls[t] EXCEPT ![Depth(t)] = f], Call(c))]
    BY <1>5 DEF SendFromInitialize, f
  <2>2. /\ OnlyCallsOf(t) /\ Depth(t) \in Nat \ {0} /\ Depth(t)' = Depth(t) + 1
        /\ calls'[t][Depth(t)] = f /\ calls'[t][Depth(t) + 1] = Call(c)
        /\ \A i \in 1 .. Depth(t) : i # Depth(t) => calls'[t][i] = calls[t][i]
    BY <1>1, <1>2, <2>1, PushShape
  <2>3. \A i \in 1 .. Depth(t) : calls'[t][i].at = calls[t][i].at
                                 /\ calls'[t][i].cls = calls[t][i].cls
    BY <1>2, <2>2
  <2>4. \A i \in 1 .. Depth(t)' : CallOK(t, i)'
    <3>1. ASSUME NEW i \in 1 .. Depth(t)
          PROVE  CallOK(t, i)'
      <4>1. CallOK(t, i)
        BY DEF InitializeInv, CallsOK
      <4>2. i = Depth(t) => calls[t][i].at = "method"
        BY <1>2
      <4> QED  BY <1>3, <2>2, <2>3, <4>1, <4>2 DEF CallOK, Usable, Initialized, Call
    <3>2. ASSUME NEW i \in 1 .. Depth(t)', i = Depth(t) + 1
          PROVE  CallOK(t, i)'
      BY <2>2, <3>2 DEF CallOK, Call
    <3> QED  BY <2>2, <3>1, <3>2
  <2>5. \A d \in Classes : Sending(t, d)' => Sending(t, d)
    BY <2>2, <2>3 DEF Sending, Call
  <2> QED  BY <1>3, <2>2, <2>4, <2>5, LocalStep
<1> QED  BY <1>4, <1>5

LEMMA InitializeSuperStep ==
    ASSUME InitializeInv, NEW t \in Threads, InitializeSuper(t)
    PROVE  InitializeInv'
<1>0. PICK c \in Classes : c = Top(t).cls
  BY TopCall DEF InitializeSuper, At
<1> DEFINE f == [calls[t][Depth(t)] EXCEPT !.at = "try"]
<1>1. Running(t) /\ Top(t).at = "super" /\ TypeOK
  BY DEF InitializeSuper, At, InitializeInv
<1>2. UNCHANGED <<state, mine, pending, lock, finishing>> /\ (asleep \subseteq Threads)'
  BY DEF InitializeSuper, InitializeInv, TypeOK
<1>3. f \in Frames /\ f.at = "try" /\ f.cls = c /\ c \in Classes /\ Top(t) = calls[t][Depth(t)]
  BY <1>0, <1>1, TopCall DEF Frames, Places
<1> HIDE DEF f
<1>4. CASE RootOrAfter(c)
  <2>1. Goto(t, "try")
    BY <1>0, <1>4 DEF InitializeSuper, Goto
  <2>2. /\ OnlyCallsOf(t) /\ Depth(t) \in Nat \ {0} /\ Depth(t)' = Depth(t)
        /\ \A i \in 1 .. Depth(t) : i # Depth(t) => calls'[t][i] = calls[t][i]
        /\ calls'[t][Depth(t)] = f
    BY <1>1, <2>1, GotoShape DEF Places, f
  <2>3. \A i \in 1 .. Depth(t) : /\ calls'[t][i].cls = calls[t][i].cls
                                 /\ calls'[t][i].at = "method" => calls[t][i].at = "method"
    BY <1>0, <1>3, <2>2
  <2>4. \A i \in 1 .. Depth(t)' : CallOK(t, i)'
    <3> SUFFICES ASSUME NEW i \in 1 .. Depth(t)
                 PROVE  CallOK(t, i)'
      BY <2>2
    <3>1. CASE i = Depth(t)
      <4>1. Super[c] # NULL => Usable(t, Super[c])'
        BY <1>2, <1>4 DEF RootOrAfter, Usable, Initialized
      <4> QED  BY <1>3, <2>2, <3>1, <4>1 DEF CallOK
    <3>2. CASE i # Depth(t)
      <4>1. CallOK(t, i) /\ calls'[t][i] = calls[t][i]
        BY <2>2, <3>2 DEF InitializeInv, CallsOK
      <4> QED  BY <1>2, <2>2, <2>3, <3>2, <4>1 DEF CallOK
    <3> QED  BY <3>1, <3>2
  <2>5. \A d \in Classes : Sending(t, d)' => Sending(t, d)
    BY <2>2, <2>3 DEF Sending
  <2> QED  BY <1>2, <2>2, <2>4, <2>5, LocalStep
<1>5. CASE ~RootOrAfter(c)
  <2>1. Super[c] \in Classes
    BY <1>3, <1>5, HierarchyAssumption DEF RootOrAfter
  <2>2. calls' = [calls EXCEPT ![t] = Append([calls[t] EXCEPT ![Depth(t)] = f], Call(Super[c]))]
    BY <1>0, <1>5 DEF InitializeSuper, f
  <2>3. /\ OnlyCallsOf(t) /\ Depth(t) \in Nat \ {0} /\ Depth(t)' = Depth(t) + 1
        /\ calls'[t][Depth(t)] = f /\ calls'[t][Depth(t) + 1] = Call(Super[c])
        /\ \A i \in 1 .. Depth(t) : i # Depth(t) => calls'[t][i] = calls[t][i]
    BY <1>1, <1>3, <2>1, <2>2, PushShape
  <2>4. \A i \in 1 .. Depth(t) : /\ calls'[t][i].cls = calls[t][i].cls
                                 /\ calls'[t][i].at = "method" => calls[t][i].at = "method"
    BY <1>0, <1>3, <2>3
  <2>5. ASSUME NEW i \in 1 .. Depth(t)'
        PROVE  CallOK(t, i)'
    <3>1. CASE i = Depth(t) + 1
      BY <2>3, <3>1 DEF CallOK, Call
    <3>2. CASE i = Depth(t)
      BY <1>3, <2>3, <3>2 DEF CallOK, Call
    <3>3. CASE i < Depth(t)
      <4>1. i \in 1 .. Depth(t) /\ CallOK(t, i) /\ calls'[t][i] = calls[t][i]
        BY <2>3, <3>3 DEF InitializeInv, CallsOK
      <4>2. calls'[t][i + 1].cls = calls[t][i + 1].cls
        BY <2>3, <2>4, <3>3
      <4>3. calls[t][i].at = "method" =>
              \A j \in 1 .. Depth(t)' :
                 calls'[t][j].at = "method" /\ calls'[t][j].cls = calls[t][i].cls => j = i
        BY <2>3, <2>4, <4>1 DEF CallOK, Call
      <4> QED  BY <1>2, <2>3, <3>3, <4>1, <4>2, <4>3 DEF CallOK
    <3> QED  BY <2>3, <3>1, <3>2, <3>3
  <2>6. \A d \in Classes : Sending(t, d)' => Sending(t, d)
    BY <2>3, <2>4 DEF Sending, Call
  <2> QED  BY <1>2, <2>3, <2>5, <2>6, LocalStep
<1> QED  BY <1>4, <1>5

\* The top call goes somewhere, and nothing else happens.
LEMMA GotoStep ==
    ASSUME InitializeInv, NEW t \in Threads, Running(t),
           NEW place \in Places \ {"method", "try", "finishing"}, Goto(t, place),
           UNCHANGED <<state, mine, pending, lock, asleep, finishing>>,
           place = "lost" => state[Top(t).cls] # "untouched",
           place = "check" => Initialized(Top(t).cls)
    PROVE  InitializeInv'
<1>1. /\ OnlyCallsOf(t) /\ Depth(t) \in Nat \ {0} /\ Depth(t)' = Depth(t)
      /\ \A i \in 1 .. Depth(t) : i # Depth(t) => calls'[t][i] = calls[t][i]
      /\ calls'[t][Depth(t)] = [calls[t][Depth(t)] EXCEPT !.at = place]
  BY GotoShape DEF InitializeInv
<1>2. Top(t) = calls[t][Depth(t)] /\ Top(t) \in Frames
  BY TopCall
<1>3. calls'[t][Depth(t)].cls = Top(t).cls /\ calls'[t][Depth(t)].at = place
  BY <1>1, <1>2 DEF Frames
<1>4. \A i \in 1 .. Depth(t) : /\ calls'[t][i].cls = calls[t][i].cls
                               /\ calls'[t][i].at = "method" => calls[t][i].at = "method"
  BY <1>1, <1>2, <1>3
<1>5. \A i \in 1 .. Depth(t)' : CallOK(t, i)'
  <2> SUFFICES ASSUME NEW i \in 1 .. Depth(t)
               PROVE  CallOK(t, i)'
    BY <1>1
  <2>1. CASE i = Depth(t)
    <3>1. calls'[t][i].cls = Top(t).cls /\ calls'[t][i].at = place /\ state' = state
      BY <1>3, <2>1
    <3> QED  BY <1>1, <2>1, <3>1 DEF CallOK, Initialized
  <2>2. CASE i # Depth(t)
    <3>1. CallOK(t, i) /\ calls'[t][i] = calls[t][i]
      BY <1>1, <2>2 DEF InitializeInv, CallsOK
    <3> QED  BY <1>1, <1>4, <2>2, <3>1 DEF CallOK
  <2> QED  BY <2>1, <2>2
<1>6. \A d \in Classes : Sending(t, d)' => Sending(t, d)
  BY <1>1, <1>4 DEF Sending
<1>7. (asleep \subseteq Threads)'
  BY DEF InitializeInv, TypeOK
<1> QED  BY <1>1, <1>5, <1>6, <1>7, LocalStep

\* The top call returns, its class may be used, and nothing else happens.
LEMMA ReturnStep ==
    ASSUME InitializeInv, NEW t \in Threads, Running(t), Return(t), Usable(t, Top(t).cls),
           UNCHANGED <<state, mine, pending, lock, asleep, finishing>>
    PROVE  InitializeInv'
<1>1. Depth(t) - 1 \in 0 .. Depth(t) - 1 /\ Keep(t, Depth(t) - 1)
  BY TopCall DEF Return
<1>2. \A i \in 1 .. Depth(t)' : CallOK(t, i)'
  BY <1>1, LeaveOK
<1>3. /\ OnlyCallsOf(t) /\ Depth(t)' = Depth(t) - 1
      /\ \A i \in 1 .. Depth(t) - 1 : calls'[t][i] = calls[t][i]
  BY <1>1, KeepShape DEF InitializeInv
<1>4. \A d \in Classes : Sending(t, d)' => Sending(t, d)
  BY <1>3, TopCall DEF Sending
<1>5. (asleep \subseteq Threads)'
  BY DEF InitializeInv, TypeOK
<1> QED  BY <1>2, <1>3, <1>4, <1>5, LocalStep

LEMMA LostStep ==
    ASSUME InitializeInv, NEW t \in Threads, Lost(t)
    PROVE  InitializeInv'
<1> DEFINE c == Top(t).cls
<1>1. /\ Running(t) /\ Top(t).at = "lost"
      /\ UNCHANGED <<state, mine, pending, lock, asleep, finishing>>
  BY DEF Lost, At
<1>2. c \in Classes /\ state[c] # "untouched"
  BY <1>1, TopCall DEF CallOK
<1>3. CASE c \in mine[t] /\ Return(t)
  BY <1>1, <1>3, ReturnStep DEF Usable
<1>4. CASE Goto(t, "waiting")
  BY <1>1, <1>4, GotoStep DEF Places
<1>5. CASE state[c] # "initializing" /\ Goto(t, "check")
  <2>1. Initialized(c)
    BY <1>2, <1>5 DEF InitializeInv, TypeOK, Initialized
  <2> QED  BY <1>1, <1>5, <2>1, GotoStep DEF Places
<1> QED  BY <1>3, <1>4, <1>5 DEF Lost

LEMMA CheckStep ==
    ASSUME InitializeInv, NEW t \in Threads, Check(t)
    PROVE  InitializeInv'
BY ReturnStep DEF Check, At, Usable

LEMMA WaitStep ==
    ASSUME InitializeInv, NEW t \in Threads, Wait(t)
    PROVE  InitializeInv'
<1>1. CASE Initialized(Top(t).cls)
  BY <1>1, ReturnStep DEF Wait, At, Usable
<1>2. CASE ~Initialized(Top(t).cls)
  <2>1. UNCHANGED <<state, mine, pending, lock, finishing, calls>> /\ asleep' = asleep \cup {t}
    BY <1>2 DEF Wait
  <2>2. OnlyCallsOf(t) /\ (asleep \subseteq Threads)'
    BY <2>1 DEF InitializeInv, TypeOK, OnlyCallsOf
  <2>3. \A i \in 1 .. Depth(t)' : CallOK(t, i)'
    BY <2>1 DEF InitializeInv, CallsOK, CallOK, Depth, Usable, Initialized
  <2>4. \A d \in Classes : Sending(t, d)' => Sending(t, d)
    BY <2>1 DEF Sending, Depth
  <2> QED  BY <2>1, <2>2, <2>3, <2>4, LocalStep
<1> QED  BY <1>1, <1>2

\* This thread initializes the class.
LEMMA TryStep ==
    ASSUME InitializeInv, NEW t \in Threads, Try(t)
    PROVE  InitializeInv'
<1>0. PICK c \in Classes : c = Top(t).cls
  BY TopCall DEF Try, At
<1>1. /\ Running(t) /\ Top(t).at = "try" /\ lock = NULL
      /\ UNCHANGED <<pending, lock, asleep, finishing>>
  BY DEF Try, At
<1>2. CASE state[c] # "untouched"
  BY <1>0, <1>1, <1>2, GotoStep DEF Try, Places
<1>3. CASE state[c] = "untouched"
  <2> DEFINE f == [cls |-> c, at |-> "method", todo |-> Messaged[c] \cup {c}]
  <2>1. /\ state' = [state EXCEPT ![c] = "initializing"]
        /\ mine' = [mine EXCEPT ![t] = mine[t] \cup {c}]
        /\ calls' = [calls EXCEPT ![t] = [calls[t] EXCEPT ![Depth(t)] = f]]
    BY <1>0, <1>3 DEF Try
  <2>2. f \in Frames /\ f.at = "method" /\ f.cls = c
    BY HierarchyAssumption DEF Frames, Places
  <2>3. finishing = {} /\ Depth(t) \in Nat \ {0}
    BY <1>1, TopCall DEF InitializeInv, FinishingOK
  <2> HIDE DEF f
  <2>4. /\ OnlyCallsOf(t) /\ Depth(t)' = Depth(t)
        /\ calls'[t][Depth(t)] = f
        /\ \A i \in 1 .. Depth(t) : i # Depth(t) => calls'[t][i] = calls[t][i]
    BY <2>1, <2>2, <2>3 DEF InitializeInv, TypeOK, OnlyCallsOf, Depth
  <2>5. state \in [Classes -> {"untouched", "initializing", "initialized"}]
        /\ mine \in [Threads -> SUBSET Classes]
    BY DEF InitializeInv, TypeOK
  <2>6. \A u \in Threads : c \notin mine[u]
    BY <1>3 DEF InitializeInv, Owners
  <2>16. \A u \in Threads, d \in Classes : /\ d \in mine[u] => d \in mine'[u]
                                           /\ d \in mine'[u] => d \in mine[u] \/ (u = t /\ d = c)
    BY <2>1, <2>5
  <2>17. \A d \in Classes : Initialized(d)' <=> Initialized(d)
    BY <1>3, <2>1, <2>5 DEF Initialized
  <2>7. /\ \A u \in Threads, d \in Classes : Usable(u, d) => Usable(u, d)'
        /\ \A u \in Threads, d \in Classes : Usable(u, d)' => Usable(u, d) \/ (u = t /\ d = c)
    BY <2>16, <2>17 DEF Usable
  <2>8. Super[c] # NULL => Usable(t, Super[c])
    BY <1>0, <1>1, TopCall DEF CallOK
  <2>9. \A u \in Threads, d \in Classes :
           Sending(u, d)' => Sending(u, d) \/ (u = t /\ d = c)
    BY <2>2, <2>4 DEF Sending, OnlyCallsOf, Depth
  <2>10. TypeOK'
    BY <1>1, <2>1, <2>4, <2>5 DEF InitializeInv, TypeOK, OnlyCallsOf
  <2>11. CallsOK'
    <3>1. ASSUME NEW i \in 1 .. Depth(t)'
          PROVE  CallOK(t, i)'
      <4>1. CASE i = Depth(t)
        <5>1. \A j \in 1 .. Depth(t) : calls'[t][j].at = "method" /\ calls'[t][j].cls = c => j = i
          <6> SUFFICES ASSUME NEW j \in 1 .. Depth(t), j # Depth(t),
                              calls[t][j].at = "method", calls[t][j].cls = c
                       PROVE  FALSE
            BY <2>4, <4>1
          <6>1. CallOK(t, j)
            BY DEF InitializeInv, CallsOK
          <6> QED  BY <2>6, <6>1 DEF CallOK
        <5> QED  BY <2>1, <2>2, <2>3, <2>4, <2>5, <4>1, <5>1 DEF CallOK
      <4>2. CASE i # Depth(t)
        <5>1. i \in 1 .. Depth(t) /\ i < Depth(t) /\ CallOK(t, i) /\ calls'[t][i] = calls[t][i]
          BY <2>3, <2>4, <4>2 DEF InitializeInv, CallsOK
        <5>2. calls[t][i].at = "method" => calls[t][i].cls # c
          BY <2>6, <5>1 DEF CallOK
        <5>3. calls[t][i].at = "try" => calls'[t][i + 1].cls = calls[t][i + 1].cls
          BY <1>0, <2>2, <2>3, <2>4, <5>1, TopCall, <1>1
        <5> QED  BY <2>1, <2>2, <2>3, <2>4, <2>5, <5>1, <5>2, <5>3 DEF CallOK
      <4> QED  BY <4>1, <4>2
    <3>2. \A u \in Threads \ {t} : mine'[u] = mine[u]
      BY <2>1, <2>5
    <3>3. \A d \in Classes : /\ state[d] # "untouched" => state'[d] # "untouched"
                             /\ Initialized(d) => Initialized(d)'
      BY <2>1, <2>5, <2>17
    <3> QED  BY <1>1, <2>4, <3>1, <3>2, <3>3, OthersOK
  <2>12. Owners'
    <3>1. \A u \in Threads : mine[u] \subseteq Classes /\ mine'[u] \subseteq Classes
      BY <2>1, <2>5
    <3>2. ASSUME NEW u \in Threads, NEW d \in mine'[u]
          PROVE  state'[d] = "initializing"
      BY <2>1, <2>5, <2>16, <3>1 DEF InitializeInv, Owners
    <3>3. ASSUME NEW u \in Threads, NEW v \in Threads, u # v
          PROVE  mine'[u] \cap mine'[v] = {}
      BY <2>6, <2>16, <3>1, <3>3 DEF InitializeInv, Owners
    <3> QED  BY <3>2, <3>3 DEF Owners
  <2>13. PendingOK'
    <3> SUFFICES ASSUME NEW s \in Classes, NEW d \in pending[s]
                 PROVE  WaitOK(s, d)'
      BY <1>1 DEF PendingOK
    <3>1. d \in Classes
      BY DEF InitializeInv, TypeOK
    <3>2. Super[d] = s /\ d \notin finishing
      BY DEF InitializeInv, PendingOK, WaitOK
    <3>3. PICK u \in Threads : d \in mine[u] /\ s \in mine[u] /\ ~Sending(u, d)
      BY DEF InitializeInv, PendingOK, WaitOK
    <3>4. d # c /\ ~Sending(u, d)'
      BY <2>6, <2>9, <3>1, <3>3
    <3>5. d \in mine'[u] /\ s \in mine'[u]
      BY <2>1, <2>5, <3>3
    <3> QED  BY <1>1, <3>2, <3>4, <3>5 DEF WaitOK
  <2>14. FinishingOK'
    BY <1>1, <2>3 DEF FinishingOK
  <2>15. Contiguous'
    <3> SUFFICES ASSUME NEW d \in Classes, Super[d] # NULL
                 PROVE  /\ Initialized(d)' => Initialized(Super[d])'
                        /\ \A u \in Threads : Usable(u, d)' => Usable(u, Super[d])'
      BY DEF Contiguous
    <3>1. Super[d] \in Classes
      BY HierarchyAssumption
    <3>2. /\ Initialized(d) => Initialized(Super[d])
          /\ \A u \in Threads : Usable(u, d) => Usable(u, Super[d])
      BY DEF InitializeInv, Contiguous
    <3> QED  BY <2>7, <2>8, <2>17, <3>1, <3>2
  <2> QED  BY <2>10, <2>11, <2>12, <2>13, <2>14, <2>15 DEF InitializeInv
<1> QED  BY <1>2, <1>3

\* The method is done and the class may be marked: its superclass is.
LEMMA FinishNow ==
    ASSUME InitializeInv, NEW t \in Threads, Finish(t), RootOrAfter(Top(t).cls)
    PROVE  InitializeInv'
<1>0. PICK c \in Classes : c = Top(t).cls
  BY TopCall DEF Finish, At
<1>1. /\ Running(t) /\ Top(t).at = "method" /\ lock = NULL /\ TypeOK
      /\ lock' = t /\ finishing' = {c} /\ Goto(t, "finishing")
      /\ UNCHANGED <<state, mine, pending, asleep>>
  BY <1>0 DEF Finish, At, InitializeInv
<1>2. /\ OnlyCallsOf(t) /\ Depth(t) \in Nat \ {0} /\ Depth(t)' = Depth(t)
      /\ \A i \in 1 .. Depth(t) : i # Depth(t) => calls'[t][i] = calls[t][i]
      /\ calls'[t][Depth(t)] = [calls[t][Depth(t)] EXCEPT !.at = "finishing"]
  BY <1>1, GotoShape DEF Places
<1>3. Top(t) = calls[t][Depth(t)] /\ Top(t) \in Frames /\ CallOK(t, Depth(t))
  BY <1>1, TopCall
<1>4. calls'[t][Depth(t)].cls = c /\ calls'[t][Depth(t)].at = "finishing"
  BY <1>0, <1>2, <1>3 DEF Frames
<1>5. \A i \in 1 .. Depth(t) : /\ calls'[t][i].cls = calls[t][i].cls
                               /\ calls'[t][i].at = "method" => calls[t][i].at = "method"
  BY <1>0, <1>2, <1>3, <1>4
<1>6. c \in mine[t]
  BY <1>0, <1>1, <1>3 DEF CallOK
<1>7. Sending(t, c) /\ ~Sending(t, c)'
  <2>1. Sending(t, c)
    BY <1>0, <1>1, <1>2, <1>3 DEF Sending
  <2>2. \A j \in 1 .. Depth(t) :
           j # Depth(t) => ~(calls[t][j].at = "method" /\ calls[t][j].cls = c)
    BY <1>0, <1>1, <1>3 DEF CallOK
  <2>3. \A j \in 1 .. Depth(t) : ~(calls'[t][j].at = "method" /\ calls'[t][j].cls = c)
    BY <1>2, <1>4, <2>2
  <2> QED  BY <1>2, <2>1, <2>3 DEF Sending
<1>8. \A u \in Threads, d \in Classes : Sending(u, d)' => Sending(u, d)
  BY <1>2, <1>5 DEF Sending, OnlyCallsOf, Depth
<1>9. TypeOK'
  BY <1>1, <1>2 DEF TypeOK, OnlyCallsOf
<1>10. CallsOK'
  <2>1. ASSUME NEW i \in 1 .. Depth(t)'
        PROVE  CallOK(t, i)'
    <3>1. CASE i = Depth(t)
      <4>1. calls'[t][i].cls = c /\ calls'[t][i].at = "finishing"
        BY <1>4, <3>1
      <4>2. ~(i < Depth(t)')
        BY <1>2, <3>1
      <4>3. lock' = t /\ calls'[t][i].cls \in finishing'
        BY <1>1, <4>1
      <4> QED  BY <4>1, <4>2, <4>3 DEF CallOK
    <3>2. CASE i # Depth(t)
      <4>1. i \in 1 .. Depth(t) /\ CallOK(t, i) /\ calls'[t][i] = calls[t][i] /\ i < Depth(t)
        BY <1>2, <3>2 DEF InitializeInv, CallsOK
      <4> QED  BY <1>1, <1>2, <1>5, <4>1 DEF CallOK
    <3> QED  BY <3>1, <3>2
  <2> QED  BY <1>1, <1>2, <2>1, OthersOK DEF Initialized
<1>11. Owners' /\ Contiguous'
  BY <1>1 DEF InitializeInv, Owners, Contiguous, Usable, Initialized
<1>12. PendingOK'
  <2> SUFFICES ASSUME NEW s \in Classes, NEW d \in pending[s]
               PROVE  WaitOK(s, d)'
    BY <1>1 DEF PendingOK
  <2>1. d \in Classes /\ Super[d] = s
    BY DEF InitializeInv, TypeOK, PendingOK, WaitOK
  <2>2. PICK u \in Threads : d \in mine[u] /\ s \in mine[u] /\ ~Sending(u, d)
    BY DEF InitializeInv, PendingOK, WaitOK
  <2>3. d # c
    BY <1>6, <1>7, <2>2 DEF InitializeInv, Owners
  <2> QED  BY <1>1, <1>8, <2>1, <2>2, <2>3 DEF WaitOK
<1>13. FinishingOK'
  BY <1>0, <1>1, <1>6, <1>7, HierarchyAssumption DEF FinishingOK, RootOrAfter, Initialized
<1> QED  BY <1>9, <1>10, <1>11, <1>12, <1>13 DEF InitializeInv

\* The method is done and the class waits for its superclass.
LEMMA FinishLater ==
    ASSUME InitializeInv, NEW t \in Threads, Finish(t), ~RootOrAfter(Top(t).cls)
    PROVE  InitializeInv'
<1>0. PICK c \in Classes : c = Top(t).cls
  BY TopCall DEF Finish, At
<1>1. /\ Running(t) /\ Top(t).at = "method" /\ lock = NULL /\ TypeOK
      /\ pending' = [pending EXCEPT ![Super[c]] = pending[Super[c]] \cup {c}]
      /\ Return(t) \/ Throw(t)
      /\ UNCHANGED <<state, mine, lock, asleep, finishing>>
  BY <1>0 DEF Finish, At, InitializeInv
<1>2. Top(t) = calls[t][Depth(t)] /\ CallOK(t, Depth(t)) /\ Depth(t) \in Nat \ {0}
  BY <1>1, TopCall
<1>3. c \in mine[t] /\ Super[c] \in Classes /\ ~Initialized(Super[c])
  BY <1>0, <1>1, <1>2, HierarchyAssumption DEF CallOK, RootOrAfter
<1>4. PICK k \in 0 .. Depth(t) - 1 :
         Keep(t, k) /\ (k = 0 \/ k = Depth(t) - 1 \/ calls[t][k].at = "method")
  BY <1>1, LeaveShape
<1>5. OnlyCallsOf(t) /\ Depth(t)' = k /\ \A i \in 1 .. k : calls'[t][i] = calls[t][i]
  BY <1>1, <1>4, KeepShape
<1>6. Sending(t, c) /\ ~Sending(t, c)'
  <2>1. Sending(t, c)
    BY <1>0, <1>1, <1>2 DEF Sending
  <2>2. \A j \in 1 .. k : ~(calls[t][j].at = "method" /\ calls[t][j].cls = c)
    BY <1>0, <1>1, <1>2, <1>4 DEF CallOK
  <2> QED  BY <1>5, <2>1, <2>2 DEF Sending
<1>7. \A u \in Threads, d \in Classes : Sending(u, d)' => Sending(u, d)
  BY <1>2, <1>4, <1>5 DEF Sending, OnlyCallsOf, Depth
<1>8. TypeOK'
  BY <1>1, <1>3, <1>5 DEF TypeOK, OnlyCallsOf
<1>9. CallsOK'
  <2>1. \A i \in 1 .. Depth(t)' : CallOK(t, i)'
    BY <1>0, <1>1, <1>3, <1>4, LeaveOK DEF Usable
  <2> QED  BY <1>1, <1>5, <2>1, OthersOK DEF Initialized
<1>10. Owners' /\ Contiguous'
  BY <1>1 DEF InitializeInv, Owners, Contiguous, Usable, Initialized
<1>11. finishing = {} /\ Super[c] \in mine[t]
  <2>1. Super[c] # NULL /\ Usable(t, c)
    BY <1>3, HierarchyAssumption DEF Usable
  <2>2. Usable(t, Super[c])
    BY <2>1 DEF InitializeInv, Contiguous
  <2> QED  BY <1>1, <1>3, <2>2 DEF InitializeInv, FinishingOK, Usable
<1>12. PendingOK'
  <2> SUFFICES ASSUME NEW s \in Classes, NEW d \in pending'[s]
               PROVE  WaitOK(s, d)'
    BY DEF PendingOK
  <2>1. CASE d \in pending[s]
    <3>1. d \in Classes /\ Super[d] = s
      BY <2>1 DEF InitializeInv, TypeOK, PendingOK, WaitOK
    <3>2. PICK u \in Threads : d \in mine[u] /\ s \in mine[u] /\ ~Sending(u, d)
      BY <2>1 DEF InitializeInv, PendingOK, WaitOK
    <3> QED  BY <1>1, <1>7, <1>11, <3>1, <3>2 DEF WaitOK
  <2>2. CASE d \notin pending[s]
    <3>1. d = c /\ s = Super[c]
      BY <1>1, <1>3, <2>2 DEF TypeOK
    <3> QED  BY <1>1, <1>3, <1>6, <1>11, <3>1 DEF WaitOK
  <2> QED  BY <2>1, <2>2
<1>13. FinishingOK'
  BY <1>1, <1>11 DEF FinishingOK
<1> QED  BY <1>8, <1>9, <1>10, <1>12, <1>13 DEF InitializeInv

\* A class is marked, and those that waited for it are next.
LEMMA FinishInitializingStep ==
    ASSUME InitializeInv, NEW t \in Threads, FinishInitializing(t)
    PROVE  InitializeInv'
<1>0. PICK c \in finishing :
         /\ state' = [state EXCEPT ![c] = "initialized"]
         /\ mine' = [mine EXCEPT ![t] = mine[t] \ {c}]
         /\ finishing' = (finishing \ {c}) \cup pending[c]
         /\ pending' = [pending EXCEPT ![c] = {}]
  BY DEF FinishInitializing
<1>1. Running(t) /\ Top(t).at = "finishing" /\ asleep' = {} /\ UNCHANGED <<lock, calls>>
  BY DEF FinishInitializing, At
<1>2. /\ state \in [Classes -> {"untouched", "initializing", "initialized"}]
      /\ mine \in [Threads -> SUBSET Classes] /\ pending \in [Classes -> SUBSET Classes]
      /\ c \in Classes /\ finishing \subseteq Classes
  BY DEF InitializeInv, TypeOK
<1>3. lock = t /\ c \in mine[t] /\ RootOrAfter(c) /\ ~Sending(t, c)
  BY <1>1, TopCall DEF CallOK, InitializeInv, FinishingOK
<1>4. /\ Initialized(c)'
      /\ \A d \in Classes : Initialized(d) => Initialized(d)'
      /\ \A d \in Classes : Initialized(d)' => Initialized(d) \/ d = c
  BY <1>0, <1>2 DEF Initialized
<1>5. \A u \in Threads, d \in Classes : /\ d \in mine'[u] => d \in mine[u]
                                        /\ d \in mine[u] /\ d # c => d \in mine'[u]
                                        /\ u # t => mine'[u] = mine[u]
  BY <1>0, <1>2
<1>6. /\ \A u \in Threads, d \in Classes : Usable(u, d) => Usable(u, d)'
      /\ \A u \in Threads, d \in Classes : Usable(u, d)' => Usable(u, d) \/ d = c
  BY <1>4, <1>5 DEF Usable
<1>7. \A u \in Threads : Depth(u)' = Depth(u) /\ \A d \in Classes : Sending(u, d)' <=> Sending(u, d)
  BY <1>1 DEF Depth, Sending
<1>8. \A u \in Threads : u # t => c \notin mine[u]
  BY <1>3 DEF InitializeInv, Owners
<1>9. TypeOK'
  BY <1>0, <1>1, <1>2 DEF InitializeInv, TypeOK
<1>10. CallsOK'
  <2>1. ASSUME NEW i \in 1 .. Depth(t)
        PROVE  CallOK(t, i)'
    <3>1. CallOK(t, i) /\ calls'[t] = calls[t] /\ Depth(t)' = Depth(t)
      BY <1>1, <1>7 DEF InitializeInv, CallsOK
    <3>6. calls[t][i] \in Frames
      BY DEF InitializeInv, TypeOK, Depth
    <3>2. calls[t][i].cls \in Classes
      BY <3>6 DEF Frames
    <3>3. Super[calls[t][i].cls] # NULL => Super[calls[t][i].cls] \in Classes
      BY <3>2, HierarchyAssumption
    <3>4. calls[t][i].at = "method" => calls[t][i].cls # c
      BY <1>3 DEF Sending
    <3>5. state[calls[t][i].cls] # "untouched" => state'[calls[t][i].cls] # "untouched"
      BY <1>0, <1>2, <3>2
    <3> QED  BY <1>0, <1>1, <1>4, <1>5, <1>6, <3>1, <3>2, <3>3, <3>4, <3>5 DEF CallOK
  <2>2. \A d \in Classes : state[d] # "untouched" => state'[d] # "untouched"
    BY <1>0, <1>2
  <2>3. OnlyCallsOf(t)
    BY <1>1 DEF InitializeInv, TypeOK, OnlyCallsOf
  <2>4. \A i \in 1 .. Depth(t)' : CallOK(t, i)'
    BY <1>7, <2>1
  <2>5. \A u \in Threads \ {t} : mine'[u] = mine[u]
    BY <1>0, <1>2
  <2> QED  BY <1>3, <1>4, <2>2, <2>3, <2>4, <2>5, OthersOK
<1>11. Owners'
  <2>1. \A u \in Threads : mine[u] \subseteq Classes /\ mine'[u] \subseteq Classes
    BY <1>0, <1>2
  <2>2. ASSUME NEW u \in Threads, NEW d \in mine'[u]
        PROVE  state'[d] = "initializing"
    <3>1. d # c
      BY <1>0, <1>2, <1>8
    <3> QED  BY <1>0, <1>2, <1>5, <2>1, <3>1 DEF InitializeInv, Owners
  <2>3. ASSUME NEW u \in Threads, NEW v \in Threads, u # v
        PROVE  mine'[u] \cap mine'[v] = {}
    BY <1>5, <2>1, <2>3 DEF InitializeInv, Owners
  <2> QED  BY <2>2, <2>3 DEF Owners
<1>12. PendingOK'
  <2> SUFFICES ASSUME NEW s \in Classes, NEW d \in pending'[s]
               PROVE  WaitOK(s, d)'
    BY DEF PendingOK
  <2>1. s # c /\ d \in pending[s] /\ d \in Classes
    BY <1>0, <1>2
  <2>2. Super[d] = s /\ d \notin finishing
    BY <2>1 DEF InitializeInv, PendingOK, WaitOK
  <2>3. PICK u \in Threads : d \in mine[u] /\ s \in mine[u] /\ ~Sending(u, d)
    BY <2>1 DEF InitializeInv, PendingOK, WaitOK
  <2>4. d \notin pending[c]
    BY <1>2, <2>1, <2>2 DEF InitializeInv, PendingOK, WaitOK
  <2>5. d # c /\ d \notin finishing'
    BY <1>0, <2>2, <2>4
  <2>6. d \in mine'[u] /\ s \in mine'[u] /\ ~Sending(u, d)'
    BY <1>5, <1>7, <2>1, <2>3, <2>5
  <2> QED  BY <2>2, <2>5, <2>6 DEF WaitOK
<1>13. FinishingOK'
  <2>1. lock' = t /\ t # NULL
    BY <1>1, <1>3, HierarchyAssumption
  <2>2. ASSUME NEW d \in finishing'
        PROVE  d \in mine'[t] /\ RootOrAfter(d)' /\ ~Sending(t, d)'
    <3>1. CASE d \in finishing /\ d # c
      <4>1. d \in Classes /\ d \in mine[t] /\ RootOrAfter(d) /\ ~Sending(t, d)
        BY <1>2, <1>3, <3>1 DEF InitializeInv, FinishingOK
      <4>2. Super[d] # NULL => Super[d] \in Classes
        BY <4>1, HierarchyAssumption
      <4> QED  BY <1>4, <1>5, <1>7, <3>1, <4>1, <4>2 DEF RootOrAfter
    <3>2. CASE d \in pending[c]
      <4>1. d \in Classes /\ Super[d] = c /\ d # c
        BY <1>2, <3>2 DEF InitializeInv, PendingOK, WaitOK
      <4>2. PICK u \in Threads : d \in mine[u] /\ c \in mine[u] /\ ~Sending(u, d)
        BY <1>2, <3>2 DEF InitializeInv, PendingOK, WaitOK
      <4>3. u = t
        BY <1>8, <4>2
      <4> QED  BY <1>4, <1>5, <1>7, <4>1, <4>2, <4>3 DEF RootOrAfter
    <3> QED  BY <1>0, <2>2, <3>1, <3>2
  <2> QED  BY <2>1, <2>2 DEF FinishingOK
<1>14. Contiguous'
  <2> SUFFICES ASSUME NEW d \in Classes, Super[d] # NULL
               PROVE  /\ Initialized(d)' => Initialized(Super[d])'
                      /\ \A u \in Threads : Usable(u, d)' => Usable(u, Super[d])'
    BY DEF Contiguous
  <2>1. Super[d] \in Classes
    BY HierarchyAssumption
  <2>2. /\ Initialized(d) => Initialized(Super[d])
        /\ \A u \in Threads : Usable(u, d) => Usable(u, Super[d])
    BY DEF InitializeInv, Contiguous
  <2>3. d = c => Initialized(Super[d])
    BY <1>3 DEF RootOrAfter
  <2>4. Initialized(Super[d]) => \A u \in Threads : Usable(u, Super[d])'
    BY <1>4, <2>1 DEF Usable
  <2> QED  BY <1>4, <1>6, <2>1, <2>2, <2>3, <2>4
<1> QED  BY <1>9, <1>10, <1>11, <1>12, <1>13, <1>14 DEF InitializeInv

\* The last of them is marked, and the lock is given back.
LEMMA FinishedStep ==
    ASSUME InitializeInv, NEW t \in Threads, Finished(t)
    PROVE  InitializeInv'
<1>1. /\ Running(t) /\ Top(t).at = "finishing" /\ finishing = {} /\ lock' = NULL
      /\ Return(t) \/ Throw(t)
      /\ UNCHANGED <<state, mine, pending, asleep, finishing>>
  BY DEF Finished, At
<1>2. /\ lock = t /\ Initialized(Top(t).cls)
      /\ Depth(t) \in Nat \ {0} /\ Top(t) = calls[t][Depth(t)]
  BY <1>1, TopCall DEF CallOK
<1>3. PICK k \in 0 .. Depth(t) - 1 :
         Keep(t, k) /\ (k = 0 \/ k = Depth(t) - 1 \/ calls[t][k].at = "method")
  BY <1>1, LeaveShape DEF InitializeInv
<1>4. OnlyCallsOf(t) /\ Depth(t)' = k /\ \A i \in 1 .. k : calls'[t][i] = calls[t][i]
  BY <1>3, KeepShape DEF InitializeInv
<1>5. \A u \in Threads, d \in Classes : Sending(u, d)' => Sending(u, d)
  BY <1>2, <1>3, <1>4 DEF Sending, OnlyCallsOf, Depth
<1>6. TypeOK'
  BY <1>1, <1>4 DEF InitializeInv, TypeOK, OnlyCallsOf
<1>7. CallsOK'
  <2>1. \A i \in 1 .. Depth(t)' : CallOK(t, i)'
    BY <1>1, <1>2, <1>3, LeaveOK DEF Usable
  <2> QED  BY <1>1, <1>2, <1>4, <2>1, OthersOK DEF Initialized
<1>8. Owners' /\ Contiguous'
  BY <1>1 DEF InitializeInv, Owners, Contiguous, Usable, Initialized
<1>9. PendingOK'
  BY <1>1, <1>5 DEF InitializeInv, TypeOK, PendingOK, WaitOK
<1>10. FinishingOK'
  BY <1>1 DEF FinishingOK
<1> QED  BY <1>6, <1>7, <1>8, <1>9, <1>10 DEF InitializeInv

LEMMA InductiveStep == InitializeInv /\ [Next]_initializeVars => InitializeInv'
<1> SUFFICES ASSUME InitializeInv, [Next]_initializeVars
             PROVE  InitializeInv'
  OBVIOUS
<1>1. ASSUME NEW t \in Threads, Step(t)
      PROVE  InitializeInv'
  <2>1. CASE Finish(t)
    BY <2>1, FinishNow, FinishLater
  <2> QED  BY <1>1, <2>1, InitializeSuperStep, TryStep, FinishInitializingStep, FinishedStep,
              LostStep, WaitStep, CheckStep, SendFromInitializeStep DEF Step
<1>2. ASSUME NEW t \in Threads, NEW c \in Classes, Send(t, c)
      PROVE  InitializeInv'
  BY <1>2, SendStep
<1>3. CASE UNCHANGED initializeVars
  <2>1. UNCHANGED <<state, mine, pending, lock, asleep, calls, finishing>>
    BY <1>3 DEF initializeVars
  <2>2. TypeOK' /\ Owners' /\ Contiguous'
    BY <2>1 DEF InitializeInv, TypeOK, Owners, Contiguous, Usable, Initialized
  <2>3. CallsOK'
    BY <2>1 DEF InitializeInv, CallsOK, CallOK, Depth, Usable, Initialized
  <2>4. PendingOK' /\ FinishingOK'
    BY <2>1 DEF InitializeInv, PendingOK, WaitOK, FinishingOK, RootOrAfter, Initialized,
                Sending, Depth
  <2> QED  BY <2>2, <2>3, <2>4 DEF InitializeInv
<1> QED  BY <1>1, <1>2, <1>3 DEF Next

-----------------------------------------------------------------------------
\* InitializeInv is an invariant of _class_initialize().
THEOREM Invariance == Spec => []InitializeInv
BY InitialStates, InductiveStep, PTL DEF Spec

\* The initialized part of the hierarchy, and the part each thread may use, is
\* a contiguous subtree starting at the root (objc-initialize.mm:88).
THEOREM Contiguity == Spec => []Contiguous
BY Invariance, PTL DEF InitializeInv

\* No assertion of the runtime fails: what it calls dying horribly
\* (objc-initialize.mm:466) cannot happen, nor is a class marked by another
\* thread than its own or before its superclass.
THEOREM NoAbort == Spec => []NeverAborts
<1>1. InitializeInv => NeverAborts
  <2> SUFFICES ASSUME InitializeInv
               PROVE  NeverAborts
    OBVIOUS
  <2>1. ASSUME NEW t \in Threads, At(t, "check")
        PROVE  Initialized(Top(t).cls)
    BY <2>1, TopCall DEF At, CallOK
  <2>2. ASSUME NEW c \in finishing
        PROVE  RootOrAfter(c) /\ lock # NULL /\ c \in mine[lock]
    BY DEF InitializeInv, FinishingOK
  <2> QED  BY <2>1, <2>2 DEF NeverAborts
<1> QED  BY <1>1, Invariance, PTL

\* A thread changes no calls but its own.
LEMMA OwnCalls ==
    ASSUME TypeOK, NEW u \in Threads, Step(u), NEW t \in Threads, t # u
    PROVE  calls'[t] = calls[t]
<1>1. ASSUME NEW k, Keep(u, k)
      PROVE  calls'[t] = calls[t]
  BY <1>1 DEF Keep, TypeOK
<1>2. ASSUME Return(u) \/ Throw(u)
      PROVE  calls'[t] = calls[t]
  BY <1>1, <1>2 DEF Return, Throw
<1>3. ASSUME NEW place, Goto(u, place)
      PROVE  calls'[t] = calls[t]
  BY <1>3 DEF Goto, TypeOK
<1>4. CASE InitializeSuper(u)
  BY <1>4 DEF InitializeSuper, TypeOK
<1>5. CASE \E d \in Classes : SendFromInitialize(u, d)
  BY <1>5 DEF SendFromInitialize, TypeOK
<1>6. CASE Try(u)
  BY <1>3, <1>6 DEF Try, TypeOK
<1>7. CASE Finish(u)
  BY <1>2, <1>3, <1>7 DEF Finish
<1>8. CASE FinishInitializing(u)
  BY <1>8 DEF FinishInitializing
<1>9. CASE Finished(u)
  BY <1>2, <1>9 DEF Finished
<1>10. CASE Lost(u)
  BY <1>2, <1>3, <1>10 DEF Lost
<1>11. CASE Wait(u) \/ Check(u)
  BY <1>2, <1>11 DEF Wait, Check
<1> QED  BY <1>4, <1>5, <1>6, <1>7, <1>8, <1>9, <1>10, <1>11 DEF Step

\* No call ends in a step that is about to call or to run a method.
LEMMA SuperDepth ==
    ASSUME InitializeInv, NEW t \in Threads,
           InitializeSuper(t) \/ Try(t) \/ \E d \in Classes : SendFromInitialize(t, d)
    PROVE  Depth(t)' = Depth(t) \/ Depth(t)' = Depth(t) + 1
<1>1. calls[t] \in Seq(Frames) /\ calls \in [Threads -> Seq(Frames)]
  BY DEF InitializeInv, TypeOK
<1>2. ASSUME NEW f
      PROVE  Len([calls[t] EXCEPT ![Depth(t)] = f]) = Len(calls[t])
  BY <1>1
<1>3. CASE Try(t)
  <2>1. \E f : calls' = [calls EXCEPT ![t] = [calls[t] EXCEPT ![Depth(t)] = f]]
    BY <1>3 DEF Try, Goto
  <2> QED  BY <1>1, <1>2, <2>1 DEF Depth
<1>4. CASE \E d \in Classes : SendFromInitialize(t, d)
  <2>1. \E f : \/ calls' = [calls EXCEPT ![t] = [calls[t] EXCEPT ![Depth(t)] = f]]
               \/ \E e : calls' = [calls EXCEPT ![t] = Append([calls[t] EXCEPT ![Depth(t)] = f], e)]
    BY <1>4 DEF SendFromInitialize
  <2> QED  BY <1>1, <1>2, <2>1 DEF Depth
<1>5. CASE InitializeSuper(t)
  <2>1. \E f : \/ calls' = [calls EXCEPT ![t] = [calls[t] EXCEPT ![Depth(t)] = f]]
               \/ \E e : calls' = [calls EXCEPT ![t] = Append([calls[t] EXCEPT ![Depth(t)] = f], e)]
    BY <1>5 DEF InitializeSuper
  <2> QED  BY <1>1, <1>2, <2>1 DEF Depth
<1> QED  BY <1>3, <1>4, <1>5

\* Whoever returns from _class_initialize() may run methods of the class.
THEOREM NobodyEarly == Spec => NobodyRunsEarly
<1> DEFINE Returns(t, c) == Running(t) /\ Depth(t)' < Depth(t) /\ c = Top(t).cls
           Safe == \A t \in Threads : \A c \in Classes : Returns(t, c) => Usable(t, c)'
<1>1. InitializeInv /\ [Next]_initializeVars => [Safe]_initializeVars
  <2> SUFFICES ASSUME InitializeInv, Next, NEW t \in Threads, NEW c \in Classes, Returns(t, c)
               PROVE  Usable(t, c)'
    BY DEF Safe
  <2>1. Depth(t) \in Nat \ {0} /\ c = Top(t).cls /\ CallOK(t, Depth(t)) /\ Top(t) = calls[t][Depth(t)]
    BY TopCall
  <2>2. ~(Depth(t)' = Depth(t)) /\ ~(Depth(t)' = Depth(t) + 1)
    BY <2>1
  <2>3. Step(t)
    <3>1. ASSUME NEW u \in Threads, Step(u), u # t
          PROVE  FALSE
      BY <2>2, <3>1, OwnCalls DEF InitializeInv, Depth
    <3>2. ASSUME NEW u \in Threads, NEW d \in Classes, Send(u, d)
          PROVE  FALSE
      <4>1. ~Running(u)
        BY <3>2 DEF Send
      <4>2. calls'[t] = calls[t]
        BY <3>2, <4>1 DEF Send, InitializeInv, TypeOK
      <4> QED  BY <2>2, <4>2 DEF Depth
    <3> QED  BY <3>1, <3>2 DEF Next
  <2>4. CASE InitializeSuper(t)
    BY <2>2, <2>4, SuperDepth
  <2>5. CASE \E d \in Classes : SendFromInitialize(t, d)
    BY <2>2, <2>5, SuperDepth
  <2>6. CASE Try(t)
    BY <2>2, <2>6, SuperDepth
  <2>7. CASE Finish(t)
    <3>1. CASE RootOrAfter(c)
      BY <2>1, <2>2, <2>7, <3>1, GotoShape DEF Finish, At, Places, InitializeInv
    <3>2. CASE ~RootOrAfter(c)
      BY <2>1, <2>7, <3>2 DEF Finish, At, CallOK, Usable
    <3> QED  BY <3>1, <3>2
  <2>8. CASE FinishInitializing(t)
    BY <2>2, <2>8 DEF FinishInitializing, Depth
  <2>9. CASE Finished(t)
    BY <2>1, <2>9 DEF Finished, At, CallOK, Usable, Initialized
  <2>10. CASE Lost(t)
    BY <2>1, <2>2, <2>10, GotoShape DEF Lost, At, Usable, Places, InitializeInv
  <2>11. CASE Wait(t)
    BY <2>1, <2>2, <2>11 DEF Wait, At, Usable, Depth, Initialized
  <2>12. CASE Check(t)
    BY <2>1, <2>12 DEF Check, At, Usable, Initialized
  <2> QED  BY <2>3, <2>4, <2>5, <2>6, <2>7, <2>8, <2>9, <2>10, <2>11, <2>12 DEF Step
<1> QED  BY <1>1, Invariance, PTL DEF Spec, NobodyRunsEarly

=============================================================================
