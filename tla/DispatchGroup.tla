--------------------------- MODULE DispatchGroup ---------------------------
(***************************************************************************)
(* dispatch_group_t of libdispatch (src/semaphore.c), with the references  *)
(* dispatch_group_async_f() takes (src/queue.c), one action per access to  *)
(* shared memory or to the kernel semaphore.                               *)
(*                                                                         *)
(* A group is a semaphore created with LONG_MAX: entering decrements the   *)
(* value, leaving increments it, and the group is empty when the value is  *)
(* the original one again.  The thread that finds it so wakes the group:   *)
(* it takes the whole list of notification records and the whole count of  *)
(* waiters, and serves what it took.                                       *)
(***************************************************************************)
EXTENDS Integers, FiniteSets, Functions

CONSTANTS Threads,   \* the threads that use the group
          Records,   \* the notification records, each allocated once
          NULL,
          Orig,      \* LONG_MAX: the value of an empty group
          MaxPosts   \* bound of the model: sleeping waiters plus posts

ASSUME GroupAssumption ==
    /\ NULL \notin Records
    /\ IsFiniteSet(Threads)
    /\ Orig \in Nat \ {0}
    /\ MaxPosts \in Nat

VARIABLES
    value,      \* dsema_value
    waiters,    \* dsema_group_waiters
    ksem,       \* count of the kernel semaphore the waiters sleep on
    head, tail, \* dsema_notify_head, dsema_notify_tail
    next,       \* dsn_next of each record
    memory,     \* what became of each record
    refcnt,     \* do_ref_cnt
    released,   \* 0, or 1 once the client dropped its reference
    fate,       \* "running", or how the process came to its end
    bare,       \* entries outstanding that the client made itself
    early,      \* history: the client dropped its reference too early
    pc,         \* where each thread is
    after,      \* "release" from the end of a block on, else "idle"
    list,       \* local "head": the next record to submit
    last,       \* local "tail": the last record taken
    rval,       \* local "rval": posts still to make
    rec, prev   \* locals "dsn" and "prev" of dispatch_group_notify_f()

valueVars  == <<value, waiters, ksem>>
notifyVars == <<head, tail, next, memory>>
objectVars == <<refcnt, released, fate>>
clientVars == <<bare, early>>
localVars  == <<list, last, rval, rec, prev>>
groupVars  == <<valueVars, notifyVars, objectVars, clientVars, pc, after,
                localVars>>

WakeLocs   == {"takehead", "taketail", "takewaiters", "post", "submit",
               "advance", "drop"}
WaitLocs   == {"check", "join", "recheck", "timed", "forever", "undo"}
NotifyLocs == {"swap", "link", "retain", "sethead", "test"}
LeaveLocs  == {"left", "leftlast"}
Locations  == {"idle", "enter", "release"} \cup LeaveLocs \cup WakeLocs
                \cup WaitLocs \cup NotifyLocs

Goto(t, to) == pc' = [pc EXCEPT ![t] = to]

\* Where an emptied group is woken and the call returns.
WakeIfEmpty(t, else) == Goto(t, IF value = Orig THEN "takehead" ELSE else)

Empty == value = Orig
Alive == fate = "running"

\* The client holds its reference and the thread is between two calls.
Usable(t) == Alive /\ released = 0 /\ pc[t] = "idle"

Init == /\ value = Orig
        /\ waiters = 0
        /\ ksem = 0
        /\ head = NULL
        /\ tail = NULL
        /\ next = [n \in Records |-> NULL]
        /\ memory = [n \in Records |-> "unused"]
        /\ refcnt = 1
        /\ released = 0
        /\ fate = "running"
        /\ bare = 0
        /\ early = FALSE
        /\ pc = [t \in Threads |-> "idle"]
        /\ after = [t \in Threads |-> "idle"]
        /\ list = [t \in Threads |-> NULL]
        /\ last = [t \in Threads |-> NULL]
        /\ rval = [t \in Threads |-> 0]
        /\ rec = [t \in Threads |-> NULL]
        /\ prev = [t \in Threads |-> NULL]

-----------------------------------------------------------------------------
(* References.  When the last one goes _dispatch_semaphore_dispose()       *)
(* crashes if the value is below the original one; a thread that is inside *)
(* a call then goes on in memory that was freed.  That is undefined, and   *)
(* the model ends there.                                                   *)

\* One of "others" is inside a call.
DropReference(others) ==
    /\ refcnt' = refcnt - 1
    /\ fate' = CASE refcnt = 1 /\ value < Orig -> "in_use"
                 [] refcnt = 1 /\ value >= Orig
                      /\ (\E u \in others : pc[u] # "idle") -> "touched"
                 [] OTHER -> fate

\* A call of the client that holds no reference of its own.
OnClientsReference(t) == pc[t] # "idle" /\ after[t] = "idle"

\* dispatch_release() by the client, outside its calls of dispatch_group_wait(),
\* _async() and _notify().  Blocks of the group may still be running: they hold
\* references.  It is too early as long as an entry that the client made itself
\* is outstanding, or the call that left the group or woke it has not returned,
\* of which the client is not told.
Release == /\ Alive /\ released = 0
           /\ \A t \in Threads : pc[t] \notin {"enter"} \cup WaitLocs
                                                \cup NotifyLocs
           /\ released' = 1
           /\ early' = (bare > 0 \/ \E t \in Threads : OnClientsReference(t))
           /\ DropReference(Threads)
           /\ UNCHANGED <<valueVars, notifyVars, bare, pc, after, localVars>>

-----------------------------------------------------------------------------
(* dispatch_group_enter() and dispatch_group_leave().  They take and drop  *)
(* no reference: dispatch_group_async_f() and the end of its block do, but *)
(* a client that calls them itself relies on its own.                      *)

\* dispatch_group_enter() takes the slow path of the semaphore when the value
\* is negative; LONG_MAX blocks are never outstanding.
RoomToEnter == Cardinality({t \in Threads : pc[t] = "enter"}) < value

\* Faulty variant: the block does not keep the group alive.
AsyncRetain_None(t) ==
    /\ Usable(t)
    /\ RoomToEnter
    /\ Goto(t, "enter")
    /\ UNCHANGED <<valueVars, notifyVars, objectVars, clientVars, after,
                   localVars>>

\* dispatch_group_async_f(): _dispatch_retain(), for the block.
AsyncRetain(t) == /\ Usable(t)
                  /\ RoomToEnter
                  /\ refcnt' = refcnt + 1
                  /\ Goto(t, "enter")
                  /\ UNCHANGED <<valueVars, notifyVars, released, fate,
                                 clientVars, after, localVars>>

\* and then dispatch_group_enter()
Enter(t) == /\ Alive /\ pc[t] = "enter"
            /\ value' = value - 1
            /\ Goto(t, "idle")
            /\ UNCHANGED <<waiters, ksem, notifyVars, objectVars, clientVars,
                           after, localVars>>

\* dispatch_group_enter() by the client
ClientEnter(t) == /\ Usable(t)
                  /\ RoomToEnter
                  /\ value' = value - 1
                  /\ bare' = bare + 1
                  /\ UNCHANGED <<waiters, ksem, notifyVars, objectVars, early,
                                 pc, after, localVars>>

\* dispatch_group_leave() by the thread that ran a block of the group.  It holds
\* a reference, so the comparison with dsema_orig, which never changes, is
\* merged with the increment.
Leave(t) == /\ Alive /\ pc[t] = "idle"
            /\ value + bare < Orig
            /\ value' = value + 1
            /\ Goto(t, IF value + 1 = Orig THEN "takehead" ELSE "release")
            /\ after' = [after EXCEPT ![t] = "release"]
            /\ UNCHANGED <<waiters, ksem, notifyVars, objectVars, clientVars,
                           localVars>>

\* dispatch_group_leave() by the client, up to the increment ...
ClientLeave(t) == /\ Alive /\ pc[t] = "idle"
                  /\ bare > 0
                  /\ value' = value + 1
                  /\ bare' = bare - 1
                  /\ Goto(t, IF value + 1 = Orig THEN "leftlast" ELSE "left")
                  /\ UNCHANGED <<waiters, ksem, notifyVars, objectVars, early,
                                 after, localVars>>

\* ... and the comparison of its result with dsema_orig: another look at a group
\* that nothing keeps alive for this thread.
LeaveTest(t) == /\ Alive /\ pc[t] \in LeaveLocs
                /\ Goto(t, IF pc[t] = "leftlast" THEN "takehead" ELSE "idle")
                /\ UNCHANGED <<valueVars, notifyVars, objectVars, clientVars,
                               after, localVars>>

\* A leave too many wraps the value to LONG_MIN and kills the process.
LeaveUnbalanced(t) ==
    /\ Usable(t)
    /\ value = Orig
    /\ value' = -Orig - 1
    /\ fate' = "unbalanced"
    /\ UNCHANGED <<waiters, ksem, notifyVars, refcnt, released, clientVars, pc,
                   after, localVars>>

\* _dispatch_release() after the block, in _dispatch_continuation_pop()
LeaveRelease(t) == /\ Alive /\ pc[t] = "release"
                   /\ DropReference(Threads \ {t})
                   /\ Goto(t, "idle")
                   /\ after' = [after EXCEPT ![t] = "idle"]
                   /\ UNCHANGED <<valueVars, notifyVars, released, clientVars,
                                  localVars>>

-----------------------------------------------------------------------------
(* _dispatch_group_wake()                                                  *)

TakeHead(t) == /\ Alive /\ pc[t] = "takehead"
               /\ list' = [list EXCEPT ![t] = head]
               /\ last' = [last EXCEPT ![t] = NULL]
               /\ head' = NULL
               /\ Goto(t, IF head = NULL THEN "takewaiters" ELSE "taketail")
               /\ UNCHANGED <<valueVars, tail, next, memory, objectVars,
                              clientVars, after, rval, rec, prev>>

\* Faulty variant: the tail is left in place.
TakeTail_Kept(t) ==
    /\ Alive /\ pc[t] = "taketail"
    /\ last' = [last EXCEPT ![t] = tail]
    /\ Goto(t, "takewaiters")
    /\ UNCHANGED <<valueVars, notifyVars, objectVars, clientVars, after, list,
                   rval, rec, prev>>

\* "snapshot before anything is notified/woken"
TakeTail(t) == /\ Alive /\ pc[t] = "taketail"
               /\ last' = [last EXCEPT ![t] = tail]
               /\ tail' = NULL
               /\ Goto(t, "takewaiters")
               /\ UNCHANGED <<valueVars, head, next, memory, objectVars,
                              clientVars, after, list, rval, rec, prev>>

\* Where a wake goes once it has made "n" posts too few.
Served(t, n) == IF n > 0 THEN "post"
                ELSE IF list[t] # NULL THEN "submit" ELSE after[t]

TakeWaiters(t) == /\ Alive /\ pc[t] = "takewaiters"
                  /\ rval' = [rval EXCEPT ![t] = waiters]
                  /\ waiters' = 0
                  /\ Goto(t, Served(t, waiters))
                  /\ UNCHANGED <<value, ksem, notifyVars, objectVars,
                                 clientVars, after, list, last, rec, prev>>

PostWaiter(t) == /\ Alive /\ pc[t] = "post"
                 /\ ksem' = ksem + 1
                 /\ rval' = [rval EXCEPT ![t] = @ - 1]
                 /\ Goto(t, Served(t, rval[t] - 1))
                 /\ UNCHANGED <<value, waiters, notifyVars, objectVars,
                                clientVars, after, list, last, rec, prev>>

\* dispatch_async_f() of the notification block
Submit(t) == /\ Alive /\ pc[t] = "submit"
             /\ memory' = [memory EXCEPT ![list[t]] = "submitted"]
             /\ Goto(t, "advance")
             /\ UNCHANGED <<valueVars, head, tail, next, objectVars, clientVars,
                            after, localVars>>

\* Faulty variant: a null link is taken for the end of the list.
Advance_NoSpin(t) ==
    /\ Alive /\ pc[t] = "advance"
    /\ memory' = [memory EXCEPT ![list[t]] = "freed"]
    /\ list' = [list EXCEPT ![t] = next[list[t]]]
    /\ Goto(t, IF next[list[t]] = NULL THEN "drop" ELSE "submit")
    /\ UNCHANGED <<valueVars, head, tail, next, objectVars, clientVars, after,
                   last, rval, rec, prev>>

\* Spin until the record is the last one or its successor is linked, and
\* free it.  (A local that is dead is reset, here and below.)
Advance(t) == /\ Alive /\ pc[t] = "advance"
              /\ next[list[t]] # NULL \/ list[t] = last[t]
              /\ memory' = [memory EXCEPT ![list[t]] = "freed"]
              /\ list' = [list EXCEPT ![t] = next[list[t]]]
              /\ Goto(t, IF next[list[t]] = NULL THEN "drop" ELSE "submit")
              /\ last' = [last EXCEPT ![t] = IF next[list[t]] = NULL
                                             THEN NULL ELSE @]
              /\ UNCHANGED <<valueVars, head, tail, next, objectVars,
                             clientVars, after, rval, rec, prev>>

\* _dispatch_release(), for the reference of the list
DropList(t) == /\ Alive /\ pc[t] = "drop"
               /\ DropReference(Threads \ {t})
               /\ Goto(t, after[t])
               /\ UNCHANGED <<valueVars, notifyVars, released, clientVars,
                              after, localVars>>

-----------------------------------------------------------------------------
(* dispatch_group_wait(), which one thread at a time may call              *)

\* Each turn of the waiting loop adds a waiter, and so a post that may outlive
\* the call; the model goes round no more than MaxPosts allows.
RoomForPost == waiters + SumFunction(rval) + ksem < MaxPosts

\* The calls that return at once, because the group is empty or because the
\* timeout is zero, change nothing; this is the call that goes on.
Wait(t) == /\ Usable(t)
           /\ \A u \in Threads : pc[u] \notin WaitLocs
           /\ RoomForPost
           /\ ~Empty
           /\ Goto(t, "check")
           /\ UNCHANGED <<valueVars, notifyVars, objectVars, clientVars, after,
                          localVars>>

\* "check before we cause another signal to be sent"
Check(t) == /\ Alive /\ pc[t] = "check"
            /\ WakeIfEmpty(t, "join")
            /\ UNCHANGED <<valueVars, notifyVars, objectVars, clientVars, after,
                           localVars>>

Join(t) == /\ Alive /\ pc[t] = "join"
           /\ waiters' = waiters + 1
           /\ Goto(t, "recheck")
           /\ UNCHANGED <<value, ksem, notifyVars, objectVars, clientVars,
                          after, localVars>>

\* Faulty variant: the waiter sleeps without looking at the value again.
Recheck_None(t) ==
    /\ Alive /\ pc[t] = "recheck"
    /\ \E to \in {"timed", "forever"} : Goto(t, to)
    /\ UNCHANGED <<valueVars, notifyVars, objectVars, clientVars, after,
                   localVars>>

\* "check the values again in case we need to wake any threads"; then the
\* switch on the timeout.
Recheck(t) == /\ Alive /\ pc[t] = "recheck"
              /\ \E sleep \in {"timed", "forever"} : WakeIfEmpty(t, sleep)
              /\ UNCHANGED <<valueVars, notifyVars, objectVars, clientVars,
                             after, localVars>>

\* semaphore_wait() or semaphore_timedwait() took a post: try again.
Woken(t) == /\ Alive /\ pc[t] \in {"timed", "forever"}
            /\ ksem > 0
            /\ ksem' = ksem - 1
            /\ Goto(t, "check")
            /\ UNCHANGED <<value, waiters, notifyVars, objectVars, clientVars,
                           after, localVars>>

SpuriousWakeup(t) ==
    /\ Alive /\ pc[t] \in {"timed", "forever"}
    /\ RoomForPost
    /\ Goto(t, "check")
    /\ UNCHANGED <<valueVars, notifyVars, objectVars, clientVars, after,
                   localVars>>

TimedOut(t) == /\ Alive /\ pc[t] = "timed"
               /\ ksem = 0
               /\ Goto(t, "undo")
               /\ UNCHANGED <<valueVars, notifyVars, objectVars, clientVars,
                              after, localVars>>

\* Take back the increment, or drain the post that is on its way for it.
Undo(t) == /\ Alive /\ pc[t] = "undo"
           /\ IF waiters > 0
              THEN waiters' = waiters - 1 /\ Goto(t, "idle")
              ELSE Goto(t, "forever") /\ UNCHANGED waiters
           /\ UNCHANGED <<value, ksem, notifyVars, objectVars, clientVars,
                          after, localVars>>

-----------------------------------------------------------------------------
(* dispatch_group_notify_f()                                               *)

\* calloc(): one record that was not used yet is as good as another.
NewRecord == CHOOSE n \in Records : memory[n] = "unused"

Notify(t) == /\ Usable(t)
             /\ \E n \in Records : memory[n] = "unused"
             /\ memory' = [memory EXCEPT ![NewRecord] = "pending"]
             /\ rec' = [rec EXCEPT ![t] = NewRecord]
             /\ Goto(t, "swap")
             /\ UNCHANGED <<valueVars, head, tail, next, objectVars, clientVars,
                            after, list, last, rval, prev>>

Swap(t) == /\ Alive /\ pc[t] = "swap"
           /\ prev' = [prev EXCEPT ![t] = tail]
           /\ tail' = rec[t]
           /\ Goto(t, IF tail # NULL THEN "link" ELSE "retain")
           /\ UNCHANGED <<valueVars, head, next, memory, objectVars, clientVars,
                          after, list, last, rval, rec>>

Link(t) == /\ Alive /\ pc[t] = "link"
           /\ next' = [next EXCEPT ![prev[t]] = rec[t]]
           /\ Goto(t, "idle")
           /\ rec' = [rec EXCEPT ![t] = NULL]
           /\ prev' = [prev EXCEPT ![t] = NULL]
           /\ UNCHANGED <<valueVars, head, tail, memory, objectVars, clientVars,
                          after, list, last, rval>>

\* Faulty variant: the list does not keep the group alive.
Retain_None(t) == /\ Alive /\ pc[t] = "retain"
                  /\ Goto(t, "sethead")
                  /\ UNCHANGED <<valueVars, notifyVars, objectVars, clientVars,
                                 after, localVars>>

Retain(t) == /\ Alive /\ pc[t] = "retain"
             /\ refcnt' = refcnt + 1
             /\ Goto(t, "sethead")
             /\ UNCHANGED <<valueVars, notifyVars, released, fate, clientVars,
                            after, localVars>>

SetHead(t) == /\ Alive /\ pc[t] = "sethead"
              /\ head' = rec[t]
              /\ Goto(t, "test")
              /\ rec' = [rec EXCEPT ![t] = NULL]
              /\ UNCHANGED <<valueVars, tail, next, memory, objectVars,
                             clientVars, after, list, last, rval, prev>>

Test(t) == /\ Alive /\ pc[t] = "test"
           /\ WakeIfEmpty(t, "idle")
           /\ UNCHANGED <<valueVars, notifyVars, objectVars, clientVars, after,
                          localVars>>

-----------------------------------------------------------------------------
ClientCall(t) == AsyncRetain(t) \/ Leave(t) \/ ClientEnter(t) \/ ClientLeave(t)
                   \/ LeaveUnbalanced(t) \/ Wait(t) \/ Notify(t)

Step(t) == \/ Enter(t) \/ LeaveTest(t) \/ LeaveRelease(t)
           \/ TakeHead(t) \/ TakeTail(t) \/ TakeWaiters(t) \/ PostWaiter(t)
           \/ Submit(t) \/ Advance(t) \/ DropList(t)
           \/ Check(t) \/ Join(t) \/ Recheck(t) \/ Woken(t) \/ TimedOut(t)
           \/ Undo(t)
           \/ Swap(t) \/ Link(t) \/ Retain(t) \/ SetHead(t) \/ Test(t)

Next == \/ Release
        \/ \E t \in Threads : ClientCall(t) \/ Step(t) \/ SpuriousWakeup(t)

Spec == Init /\ [][Next]_groupVars

\* A thread inside a call is scheduled; nobody is obliged to call.
FairSpec == Spec /\ \A t \in Threads : WF_groupVars(Step(t))

-----------------------------------------------------------------------------
TypeOK == /\ value \in Int
          /\ waiters \in Nat
          /\ ksem \in Nat
          /\ head \in Records \cup {NULL}
          /\ tail \in Records \cup {NULL}
          /\ next \in [Records -> Records \cup {NULL}]
          /\ memory \in [Records -> {"unused", "pending", "submitted", "freed"}]
          /\ refcnt \in Nat
          /\ released \in {0, 1}
          /\ fate \in {"running", "in_use", "touched", "unbalanced"}
          /\ bare \in Nat
          /\ early \in BOOLEAN
          /\ pc \in [Threads -> Locations]
          /\ after \in [Threads -> {"idle", "release"}]
          /\ list \in [Threads -> Records \cup {NULL}]
          /\ last \in [Threads -> Records \cup {NULL}]
          /\ rval \in [Threads -> Nat]
          /\ rec \in [Threads -> Records \cup {NULL}]
          /\ prev \in [Threads -> Records \cup {NULL}]

\* A record is submitted once, by one thread, and nobody follows or writes a
\* link of a record that was freed.
RecordsInOrder ==
    \A t \in Threads :
        /\ pc[t] = "submit" => memory[list[t]] = "pending"
        /\ pc[t] = "advance" => memory[list[t]] = "submitted"
        /\ pc[t] = "link" => memory[prev[t]] # "freed"

Calm == Alive /\ \A t \in Threads : pc[t] \in {"idle", "timed", "forever"}

\* No lost notification and no lost wakeup: when every thread is between calls
\* or asleep with no post left and the group is empty, every record pushed
\* was submitted and nobody sleeps.
NobodyForgotten ==
    (Calm /\ Empty /\ ksem = 0)
      => /\ tail = NULL /\ head = NULL
         /\ \A n \in Records : memory[n] \in {"unused", "freed"}
         /\ \A t \in Threads : pc[t] = "idle"

\* The references of blocks and of the list are enough: the group is disposed
\* of under a thread inside a call, or with an entry outstanding, only if the
\* client dropped its reference before a call of its own had returned or been
\* answered by a leave, and an outstanding block always prevents it.  (After
\* its increment dispatch_group_leave() still reads the group, and nothing keeps
\* that alive for a client that calls it itself.)
NeverDisposedInUse ==
    /\ fate \in {"in_use", "touched"} => early
    /\ fate = "in_use" => value + bare = Orig
    /\ Alive => \A t \in Threads : pc[t] # "idle" => refcnt > 0

\* When all is over the references are balanced: the client's own one, one per
\* outstanding block (an entry the client made itself has none) and one for a
\* list that is not empty.
ReferencesBalanced ==
    Calm => refcnt = (1 - released) + (Orig - value - bare)
                       + (IF tail = NULL THEN 0 ELSE 1)

Quiet == <>[][\A t \in Threads : ~ClientCall(t) /\ ~SpuriousWakeup(t)]_groupVars

\* If the group is empty when all goes quiet, every waiter returns and every
\* notification is submitted, and a wait with a timeout returns in any case.
Settles ==
    Quiet => <>[](Alive => /\ \A t \in Threads :
                                 pc[t] = "idle" \/ (~Empty /\ pc[t] = "forever")
                           /\ Empty => tail = NULL)
=============================================================================
