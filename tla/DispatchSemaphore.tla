------------------------- MODULE DispatchSemaphore -------------------------
(***************************************************************************)
(* dispatch_semaphore_t of libdispatch (src/semaphore.c), one action per   *)
(* access to shared memory or to the kernel semaphore.                     *)
(*                                                                         *)
(* The value is decremented by every wait and incremented by every signal  *)
(* without a lock.  A negative value says how many waiters are owed no     *)
(* wakeup yet; a signal that leaves it at or below zero owes one, which it *)
(* publishes in dsema_sent_ksignals and then posts to the kernel           *)
(* semaphore.  A waiter leaves by taking one of the published wakeups, or, *)
(* after a timeout, by taking back its own decrement.                      *)
(***************************************************************************)
EXTENDS Counting

CONSTANTS Threads,   \* the threads that use the semaphore
          Orig,      \* the value it was created with
          LongMax,   \* LONG_MAX; LONG_MIN is -LongMax - 1
          MaxPosts,  \* bound of the model: posts the kernel semaphore holds
          Backend    \* which kernel semaphore the build uses

ASSUME SemaphoreAssumption ==
    /\ IsFiniteSet(Threads)
    /\ LongMax \in Nat
    /\ Orig \in 0 .. LongMax
    /\ MaxPosts \in Nat
    /\ Backend \in {"mach", "posix"}

VARIABLES
    value,     \* dsema_value
    sent,      \* dsema_sent_ksignals
    ksem,      \* count of the kernel semaphore
    refcnt,    \* do_ref_cnt
    released,  \* 0, or 1 once the client dropped the last do_xref_cnt
    fate,      \* "running", or why the process was killed
    pc,        \* where each thread is
    timeout    \* argument of each thread's wait

semaVars == <<value, sent, ksem, refcnt, released, fate, pc, timeout>>

Timeouts == {"now", "timed", "forever"}

SignalSlow == {"retain", "publish", "post", "drop"}
WaitSlow == {"check", "timed", "undo", "drain"}
Locations == {"idle"} \cup SignalSlow \cup WaitSlow

Goto(t, to) == pc' = [pc EXCEPT ![t] = to]

At(A) == CountAt(Threads, pc, A)

Usable == fate = "running" /\ released = 0

\* A waiter that finds a published wakeup does not consume its post, so posts
\* pile up in the kernel; the model makes no further signal beyond MaxPosts.
RoomForPost == ksem + At({"retain", "publish", "post"}) < MaxPosts

Init == /\ value = Orig
        /\ sent = 0
        /\ ksem = 0
        /\ refcnt = 1
        /\ released = 0
        /\ fate = "running"
        /\ pc = [t \in Threads |-> "idle"]
        /\ timeout = [t \in Threads |-> "now"]

-----------------------------------------------------------------------------
(* References.  _dispatch_release() disposes of the object when it drops   *)
(* the last one, and dispose crashes when the value is below the original. *)

DropReference ==
    /\ refcnt' = refcnt - 1
    /\ fate' = IF refcnt = 1 /\ value < Orig THEN "in_use" ELSE fate

\* dispatch_release() by the client, which knows that its waits have
\* returned but not whether the signals that ended them have.
Release == /\ Usable
           /\ \A t \in Threads : pc[t] \notin WaitSlow
           /\ released' = 1
           /\ DropReference
           /\ UNCHANGED <<value, sent, ksem, pc, timeout>>

-----------------------------------------------------------------------------
(* dispatch_semaphore_signal()                                             *)

\* Faulty variant: a signal that leaves the value at zero takes the fast path.
Signal_OffByOne(t) ==
    /\ Usable
    /\ pc[t] = "idle"
    /\ value < LongMax
    /\ RoomForPost
    /\ value' = value + 1
    /\ IF value + 1 >= 0 THEN UNCHANGED pc ELSE Goto(t, "retain")
    /\ UNCHANGED <<sent, ksem, refcnt, released, fate, timeout>>

\* Faulty variant: the slow path runs without a reference of its own.
Signal_NoRetain(t) ==
    /\ Usable
    /\ pc[t] = "idle"
    /\ value < LongMax
    /\ RoomForPost
    /\ value' = value + 1
    /\ IF value + 1 > 0 THEN UNCHANGED pc ELSE Goto(t, "publish")
    /\ UNCHANGED <<sent, ksem, refcnt, released, fate, timeout>>

\* The atomic increment, and the fast path that returns at once.
Signal(t) == /\ Usable
             /\ pc[t] = "idle"
             /\ value < LongMax
             /\ RoomForPost
             /\ value' = value + 1
             /\ IF value + 1 > 0 THEN UNCHANGED pc ELSE Goto(t, "retain")
             /\ UNCHANGED <<sent, ksem, refcnt, released, fate, timeout>>

\* The increment wraps to LONG_MIN and the process is killed.
SignalUnbalanced(t) ==
    /\ Usable
    /\ pc[t] = "idle"
    /\ value = LongMax
    /\ value' = -LongMax - 1
    /\ fate' = "unbalanced"
    /\ UNCHANGED <<sent, ksem, refcnt, released, pc, timeout>>

\* _dispatch_semaphore_signal_slow(): _dispatch_retain(),
Retain(t) == /\ fate = "running"
             /\ pc[t] = "retain"
             /\ refcnt' = refcnt + 1
             /\ Goto(t, "publish")
             /\ UNCHANGED <<value, sent, ksem, released, fate, timeout>>

\* the increment of dsema_sent_ksignals,
Publish(t) == /\ fate = "running"
              /\ pc[t] = "publish"
              /\ sent' = sent + 1
              /\ Goto(t, "post")
              /\ UNCHANGED <<value, ksem, refcnt, released, fate, timeout>>

\* semaphore_signal() or sem_post(),
Post(t) == /\ fate = "running"
           /\ pc[t] = "post"
           /\ ksem' = ksem + 1
           /\ Goto(t, "drop")
           /\ UNCHANGED <<value, sent, refcnt, released, fate, timeout>>

\* and _dispatch_release().
Drop(t) == /\ fate = "running"
           /\ pc[t] = "drop"
           /\ DropReference
           /\ Goto(t, "idle")
           /\ UNCHANGED <<value, sent, ksem, released, timeout>>

-----------------------------------------------------------------------------
(* dispatch_semaphore_wait()                                               *)

\* Faulty variant: a wait that leaves the value at minus one returns too.
Wait_OffByOne(t) ==
    /\ Usable
    /\ pc[t] = "idle"
    /\ value' = value - 1
    /\ timeout' = [timeout EXCEPT ![t] = "forever"]
    /\ IF value - 1 >= -1 THEN UNCHANGED pc ELSE Goto(t, "check")
    /\ UNCHANGED <<sent, ksem, refcnt, released, fate>>

\* The atomic decrement, and the fast path that returns at once.
Wait(t) == /\ Usable
           /\ pc[t] = "idle"
           /\ value' = value - 1
           /\ \E when \in Timeouts : timeout' = [timeout EXCEPT ![t] = when]
           /\ IF value - 1 >= 0 THEN UNCHANGED pc ELSE Goto(t, "check")
           /\ UNCHANGED <<sent, ksem, refcnt, released, fate>>

\* Where the switch on the timeout leads.
Switch(t) == CASE timeout[t] = "now"     -> "undo"
               [] timeout[t] = "timed"   -> "timed"
               [] timeout[t] = "forever" -> "drain"

\* Take a published wakeup and return zero, or go to sleep.
Check(t) == /\ fate = "running"
            /\ pc[t] = "check"
            /\ IF sent > 0
               THEN sent' = sent - 1 /\ Goto(t, "idle")
               ELSE Goto(t, Switch(t)) /\ UNCHANGED sent
            /\ UNCHANGED <<value, ksem, refcnt, released, fate, timeout>>

\* Faulty variant: a successful timed wait is handled as a timeout.
TimedWoken_FallsThrough(t) ==
    /\ fate = "running"
    /\ pc[t] = "timed"
    /\ ksem > 0
    /\ ksem' = ksem - 1
    /\ Goto(t, "undo")
    /\ UNCHANGED <<value, sent, refcnt, released, fate, timeout>>

\* semaphore_timedwait() took a post: try again.  The test after
\* sem_timedwait() leaves the switch for errors only, so with that backend a
\* success falls through into the undoing of the fast path.
TimedWoken(t) == /\ fate = "running"
                 /\ pc[t] = "timed"
                 /\ ksem > 0
                 /\ ksem' = ksem - 1
                 /\ Goto(t, IF Backend = "mach" THEN "check" ELSE "undo")
                 /\ UNCHANGED <<value, sent, refcnt, released, fate, timeout>>

TimedOut(t) == /\ fate = "running"
               /\ pc[t] = "timed"
               /\ ksem = 0
               /\ Goto(t, "undo")
               /\ UNCHANGED <<value, sent, ksem, refcnt, released, fate,
                              timeout>>

\* Faulty variant: the decrement is taken back even when a signal paid for it.
Undo_Unconditional(t) ==
    /\ fate = "running"
    /\ pc[t] = "undo"
    /\ value' = value + 1
    /\ Goto(t, "idle")
    /\ UNCHANGED <<sent, ksem, refcnt, released, fate, timeout>>

\* While the value is negative the wait may take back its decrement and
\* return non-zero; otherwise a signal is on its way and must be drained.
Undo(t) == /\ fate = "running"
           /\ pc[t] = "undo"
           /\ IF value < 0
              THEN value' = value + 1 /\ Goto(t, "idle")
              ELSE Goto(t, "drain") /\ UNCHANGED value
           /\ UNCHANGED <<sent, ksem, refcnt, released, fate, timeout>>

\* semaphore_wait() or sem_wait()
Drain(t) == /\ fate = "running"
            /\ pc[t] = "drain"
            /\ ksem > 0
            /\ ksem' = ksem - 1
            /\ Goto(t, "check")
            /\ UNCHANGED <<value, sent, refcnt, released, fate, timeout>>

\* "Mach semaphores appear to sometimes spuriously wake up."
SpuriousWakeup(t) == /\ fate = "running"
                     /\ Backend = "mach"
                     /\ pc[t] \in {"timed", "drain"}
                     /\ Goto(t, "check")
                     /\ UNCHANGED <<value, sent, ksem, refcnt, released, fate,
                                    timeout>>

-----------------------------------------------------------------------------
ClientCall(t) == Signal(t) \/ SignalUnbalanced(t) \/ Wait(t)

Step(t) == \/ Retain(t) \/ Publish(t) \/ Post(t) \/ Drop(t)
           \/ Check(t) \/ TimedWoken(t) \/ TimedOut(t) \/ Undo(t) \/ Drain(t)

Next == \/ Release
        \/ \E t \in Threads : ClientCall(t) \/ Step(t) \/ SpuriousWakeup(t)

Spec == Init /\ [][Next]_semaVars

\* A thread inside a call is scheduled; nobody is obliged to call.
FairSpec == Spec /\ \A t \in Threads : WF_semaVars(Step(t))

-----------------------------------------------------------------------------
Waiting == {t \in Threads : pc[t] \in WaitSlow}

TypeOK == /\ value \in Int
          /\ sent \in Nat
          /\ ksem \in Nat
          /\ refcnt \in Nat
          /\ released \in {0, 1}
          /\ fate \in {"running", "in_use", "unbalanced"}
          /\ pc \in [Threads -> Locations]
          /\ timeout \in [Threads -> Timeouts]

\* Every thread in the slow path of a wait is either owed nothing and counted
\* by the negative value, or owed exactly one wakeup that was published or
\* that a signaller is about to publish: no signal pays for two waits and no
\* timeout takes back a decrement that a signal has paid for.
WakeupsAccounted ==
    fate # "unbalanced" =>
      At(WaitSlow) = sent + At({"retain", "publish"}) + Positive(-value)

\* No lost wakeup ("this function wakes a waiting thread", semaphore.h): when
\* no signaller is on its way and every waiter is asleep on an empty kernel
\* semaphore, the sleepers are those the negative value stands for.
NoLostWakeup ==
    (ksem = 0 /\ At(SignalSlow \cup {"check", "undo"}) = 0
       /\ fate = "running")
      => At(WaitSlow) = Positive(-value)

\* The comment in _dispatch_semaphore_signal_slow(): a signaller may touch the
\* object because a waiter holds it, until the wakeup is published, and
\* because of its own reference after that.
NoUseAfterDispose ==
    fate = "running" => \A t \in Threads : pc[t] # "idle" => refcnt > 0

\* The code implements the counting semaphore of the header: a wait returns
\* zero only for a signal, or unit of the original value, no other wait used.
Count == value + At(WaitSlow)

Promise == INSTANCE DispatchSemaphoreSpec
               WITH count <- Count, waiting <- Waiting

ImplementsSemaphore ==
    Promise!Init /\ [][fate' # "unbalanced" => Promise!Next]_<<Count, Waiting>>

\* Clients stop calling, and the kernel stops waking threads for no reason.
Quiet == <>[][\A t \in Threads : ~ClientCall(t) /\ ~SpuriousWakeup(t)]_semaVars

\* Once all is quiet, the waits that signals have paid for return and the
\* threads left waiting are those the negative value stands for.
Settles ==
    Quiet => <>[](fate # "running" \/ At(WaitSlow) = Positive(-value))
=============================================================================
