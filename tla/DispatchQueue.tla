--------------------------- MODULE DispatchQueue ---------------------------
(***************************************************************************)
(* A private dispatch_queue_t of libdispatch whose target is a root queue  *)
(* (src/queue.c, src/queue_internal.h, src/object.c): asynchronous and     *)
(* synchronous submission, barriers, draining, suspension and references,  *)
(* one action per access to shared memory.                                 *)
(*                                                                         *)
(* Items hang on a list whose tail is exchanged by pushers and whose head  *)
(* belongs to whoever holds the queue.  dq_running counts the readers in   *)
(* twos and has its low bit set while a drainer or a barrier holds the     *)
(* queue; do_suspend_cnt counts suspensions in twos and has its low bit    *)
(* set while the queue is on the list of its target queue.                 *)
(*                                                                         *)
(* Clients submit, workers are the threads of the root queue, which hands  *)
(* them what was pushed to it in any order.  The record of a synchronous   *)
(* call lies on the stack of the thread that made it and goes by the name  *)
(* of that thread.  An increment of the reference count is merged with the *)
(* access that follows it.                                                 *)
(***************************************************************************)
EXTENDS Integers, Sequences, FiniteSets, SequencesExt

CONSTANTS Clients,     \* threads that use the queue
          Workers,     \* threads of the root queue
          Works,       \* continuations, each submitted once
          NULL,
          Width,       \* dq_width: 1, or twice the number of readers
          Calls,       \* what the clients do
          MaxSuspend   \* bound of the model: suspensions outstanding

Threads == Clients \cup Workers
Items   == Clients \cup Works

ASSUME QueueAssumption ==
    /\ NULL \notin Threads \cup Works
    /\ IsFiniteSet(Threads)
    /\ Clients \cap Workers = {} /\ Threads \cap Works = {}
    /\ Width \in Nat \ {0}
    /\ Calls \subseteq {"async", "barrier_async", "sync", "barrier_sync",
                        "suspend"}
    /\ MaxSuspend \in Nat

VARIABLES
    tail, head,   \* dq_items_tail, dq_items_head
    next,         \* do_next of each item
    kind,         \* what the bits in do_vtable say of each item
    susp,         \* do_suspend_cnt
    running,      \* dq_running
    refcnt,       \* do_ref_cnt
    released,     \* 0, or 1 once the client dropped its reference
    fate,         \* "live", "disposed", or why the process was killed
    onRoot,       \* how often the queue is on the root queue's list
    redirected,   \* the continuations pushed to the root queue
    sema,         \* count of each client's thread semaphore
    pc,           \* where each thread is
    obj,          \* local "dc": the item being pushed, popped or run
    link,         \* local "prev" of a push, "next_dc" of a drain
    ret,          \* where a nested call returns to
    state,        \* history: what became of each item
    fifo,         \* history: the items pushed and not yet taken
    by,           \* history: which client submitted a continuation
    suspended     \* history: suspensions the clients have not resumed

listVars    == <<tail, head, next>>
objectVars  == <<refcnt, released, fate>>
rootVars    == <<onRoot, redirected>>
localVars   == <<obj, link>>
orderVars   == <<fifo, by, suspended>>
lockVars    == <<susp, running>>
wordVars    == <<lockVars, ret>>
worldVars   == <<objectVars, rootVars, sema>>
itemVars    == <<listVars, kind, state, orderVars>>
outerVars   == <<kind, worldVars, state, orderVars>>
otherVars   == <<listVars, kind, worldVars, localVars, state, orderVars>>
queueVars   == <<wordVars, pc, otherVars>>

LOCK == 1         \* DISPATCH_OBJECT_SUSPEND_LOCK
INTERVAL == 2     \* DISPATCH_OBJECT_SUSPEND_INTERVAL

Suspended == susp >= INTERVAL

Set(f, t, x) == [f EXCEPT ![t] = x]
Goto(t, to)  == pc' = Set(pc, t, to)
At(t, loc)   == pc[t] = loc /\ fate = "live"

\* A step that reads shared memory and branches.
Test(t, loc, condition, yes, no) ==
    /\ At(t, loc)
    /\ Goto(t, IF condition THEN yes ELSE no)
    /\ UNCHANGED <<wordVars, otherVars>>

\* A step that adds to the two words that lock the queue.
Add(t, loc, dSusp, dRunning, to) ==
    /\ At(t, loc)
    /\ susp' = susp + dSusp
    /\ running' = running + dRunning
    /\ Goto(t, to)
    /\ UNCHANGED <<ret, otherVars>>

\* cmpxchg(dq_items_tail, dc, NULL): was the item the last one?
TryEmpty(t, loc, yes, no) ==
    /\ At(t, loc)
    /\ tail' = IF tail = obj[t] THEN NULL ELSE tail
    /\ Goto(t, IF tail = obj[t] THEN yes ELSE no)
    /\ UNCHANGED <<wordVars, head, next, outerVars, localVars>>

\* The block of item i returns; nobody needs the fields of the item any more.
Finish(i, s) == /\ state' = Set(state, i, s)
                /\ kind' = Set(kind, i, "none")
                /\ next' = Set(next, i, NULL)

Init == /\ tail = NULL /\ head = NULL
        /\ next = [i \in Items |-> NULL]
        /\ kind = [i \in Items |-> "none"]
        /\ susp = 0 /\ running = 0
        /\ refcnt = 1 /\ released = 0 /\ fate = "live"
        /\ onRoot = 0 /\ redirected = {}
        /\ sema = [t \in Clients |-> 0]
        /\ pc = [t \in Threads |-> "idle"]
        /\ obj = [t \in Threads |-> NULL]
        /\ link = [t \in Threads |-> NULL]
        /\ ret = [t \in Threads |-> "idle"]
        /\ state = [i \in Items |-> "free"]
        /\ fifo = <<>>
        /\ by = [w \in Works |-> NULL]
        /\ suspended = 0

-----------------------------------------------------------------------------
(* _dispatch_wakeup(): put the queue on the root queue's list              *)

CallWakeup(t, back) == Goto(t, "wsusp") /\ ret' = Set(ret, t, back)
Return(t) == Goto(t, ret[t]) /\ ret' = Set(ret, t, "idle")

WakeupTest(t, loc, condition, to) ==
    /\ At(t, loc)
    /\ IF condition THEN Goto(t, to) /\ UNCHANGED ret ELSE Return(t)
    /\ UNCHANGED <<susp, running, otherVars>>

WakeupSuspended(t) == WakeupTest(t, "wsusp", ~Suspended, "wtail")
WakeupTail(t) == WakeupTest(t, "wtail", tail # NULL, "wlock")

\* Faulty variant: the lock bit is set although it may be set already.
WakeupLock_Blind(t) ==
    /\ At(t, "wlock")
    /\ susp' = IF susp % 2 = 0 THEN susp + LOCK ELSE susp
    /\ Goto(t, "wpush")
    /\ UNCHANGED <<running, ret, otherVars>>

WakeupLock(t) ==
    /\ At(t, "wlock")
    /\ IF susp = 0 THEN Goto(t, "wpush") /\ UNCHANGED ret ELSE Return(t)
    /\ susp' = IF susp = 0 THEN LOCK ELSE susp
    /\ UNCHANGED <<running, otherVars>>

WakeupPush(t) ==
    /\ At(t, "wpush")
    /\ refcnt' = refcnt + 1
    /\ onRoot' = onRoot + 1
    /\ Return(t)
    /\ UNCHANGED <<lockVars, itemVars, released, fate, redirected, sema,
                   localVars>>

\* Subtract from dq_running and wake the queue up when that leaves zero.
DropRunning(t, loc, n, back) ==
    /\ At(t, loc)
    /\ running' = running - n
    /\ IF running = n THEN CallWakeup(t, back)
                      ELSE Goto(t, back) /\ UNCHANGED ret
    /\ UNCHANGED <<susp, otherVars>>

-----------------------------------------------------------------------------
(* References and suspension                                               *)

\* The last reference disposes of the queue; a queue with items is a crash.
DropReference ==
    /\ refcnt' = refcnt - 1
    /\ fate' = IF refcnt # 1 THEN fate
               ELSE IF tail # NULL THEN "items_enqueued" ELSE "disposed"

\* A push of the record of a synchronous call goes on to wait.
Pushed(t) == /\ Goto(t, IF obj[t] = t THEN "wait" ELSE "idle")
             /\ obj' = Set(obj, t, IF obj[t] = t THEN t ELSE NULL)

\* _dispatch_release() at the end of a push, a drain or a resume
ReleaseInternal(t) ==
    /\ At(t, "release")
    /\ DropReference
    /\ Pushed(t)
    /\ UNCHANGED <<wordVars, itemVars, released, rootVars, sema, link>>

\* dispatch_release() by the client, which may happen in a block while the
\* dispatch_async() that submitted this block is still about to return.
Release ==
    /\ fate = "live" /\ released = 0 /\ suspended = 0
    /\ \A c \in Clients :
         \/ pc[c] = "idle"
         \/ obj[c] \in Works /\ state[obj[c]] \in {"running", "done"}
    /\ released' = 1
    /\ IF Suspended THEN fate' = "suspended" /\ UNCHANGED refcnt
                    ELSE DropReference
    /\ UNCHANGED <<wordVars, pc, itemVars, rootVars, sema, localVars>>

MayCall(t, call) == At(t, "idle") /\ released = 0 /\ call \in Calls

\* dispatch_suspend()
Suspend(t) ==
    /\ MayCall(t, "suspend")
    /\ suspended < MaxSuspend
    /\ susp' = susp + INTERVAL
    /\ refcnt' = refcnt + 1
    /\ suspended' = suspended + 1
    /\ UNCHANGED <<running, pc, ret, listVars, kind, released, fate, rootVars,
                   sema, localVars, state, fifo, by>>

\* dispatch_resume(): wake the queue up when this was the only suspension.
Resume(t) ==
    /\ MayCall(t, "suspend")
    /\ suspended > 0
    /\ susp' = susp - INTERVAL
    /\ suspended' = suspended - 1
    /\ IF susp = INTERVAL THEN CallWakeup(t, "release")
                          ELSE Goto(t, "release") /\ UNCHANGED ret
    /\ UNCHANGED <<running, listVars, kind, worldVars, localVars, state, fifo,
                   by>>

-----------------------------------------------------------------------------
(* _dispatch_queue_push()                                                  *)

Swap(t) ==
    /\ At(t, "swap")
    /\ next' = Set(next, obj[t], NULL)
    /\ link' = Set(link, t, tail)
    /\ tail' = obj[t]
    /\ state' = Set(state, obj[t], "queued")
    /\ fifo' = Append(fifo, obj[t])
    /\ Goto(t, IF tail # NULL THEN "link" ELSE "sethead")
    /\ UNCHANGED <<wordVars, head, kind, worldVars, obj, by, suspended>>

Link(t) ==
    /\ At(t, "link")
    /\ next' = Set(next, link[t], obj[t])
    /\ link' = Set(link, t, NULL)
    /\ Pushed(t)
    /\ UNCHANGED <<wordVars, tail, head, outerVars>>

\* Faulty variant: the queue is not retained before its head is written.
SetHead_NoRetain(t) ==
    /\ At(t, "sethead")
    /\ head' = obj[t]
    /\ CallWakeup(t, IF obj[t] = t THEN "wait" ELSE "idle")
    /\ UNCHANGED <<lockVars, tail, next, outerVars, localVars>>

\* _dispatch_queue_push_list_slow()
SetHead(t) ==
    /\ At(t, "sethead")
    /\ refcnt' = refcnt + 1
    /\ head' = obj[t]
    /\ CallWakeup(t, "release")
    /\ UNCHANGED <<lockVars, tail, next, kind, released, fate, rootVars, sema,
                   localVars, state, orderVars>>

-----------------------------------------------------------------------------
(* dispatch_async() and dispatch_barrier_async()                           *)

Submit(t, k, to) ==
    \E w \in Works :
        /\ by[w] = NULL
        /\ by' = Set(by, w, t)
        /\ kind' = Set(kind, w, k)
        /\ obj' = Set(obj, t, w)
        /\ Goto(t, to)
        /\ UNCHANGED <<wordVars, listVars, worldVars, link, state, fifo,
                       suspended>>

Async(t) == /\ MayCall(t, "async")
            /\ IF Width = 1 THEN Submit(t, "barrier", "swap")
                            ELSE Submit(t, "async", "atail")

BarrierAsync(t) == MayCall(t, "barrier_async") /\ Submit(t, "barrier", "swap")

\* _dispatch_async_f2(): run beside the queue if nothing is ahead.
AsyncTail(t) == Test(t, "atail", tail # NULL, "swap", "asusp")
AsyncSuspended(t) == Test(t, "asusp", Suspended, "swap", "aadd")

AsyncAdd(t) ==
    LET over == running + 2 > Width
        odd  == running % 2 = 1
    IN  /\ At(t, "aadd")
        /\ running' = running + 2
        /\ state' = IF over \/ odd THEN state ELSE Set(state, obj[t], "taken")
        /\ Goto(t, IF over THEN "aover" ELSE IF odd THEN "aodd" ELSE "apush")
        /\ UNCHANGED <<susp, ret, listVars, kind, worldVars, localVars,
                       orderVars>>

\* The width is used up: wake the queue up if need be, and push.
AsyncOver(t) == DropRunning(t, "aover", 2, "swap")

\* "We might get lucky and find that the barrier has ended by now"
AsyncOdd(t) ==
    Add(t, "aodd", 0, -2, IF running % 2 = 1 THEN "swap" ELSE "atail")

\* _dispatch_async_f_redirect(): the redirection holds a reference.
Redirect(w) == refcnt' = refcnt + 1 /\ redirected' = redirected \cup {w}

AsyncRedirect(t) ==
    /\ At(t, "apush")
    /\ refcnt' = refcnt + 1
    /\ redirected' = redirected \cup {obj[t]}
    /\ obj' = Set(obj, t, NULL)
    /\ Goto(t, "idle")
    /\ UNCHANGED <<wordVars, itemVars, released, fate, onRoot, sema, link>>

-----------------------------------------------------------------------------
(* dispatch_sync() and dispatch_barrier_sync(): the fast paths.  The slow  *)
(* ones push the record of the call and wait for it to be granted.         *)

Call(t, k, to) ==
    /\ kind' = Set(kind, t, k)
    /\ obj' = Set(obj, t, t)
    /\ Goto(t, to)
    /\ UNCHANGED <<wordVars, listVars, worldVars, link, state, orderVars>>

Sync(t) == /\ MayCall(t, "sync")
           /\ IF Width = 1 THEN Call(t, "barriersync", "btail")
                           ELSE Call(t, "sync", "ytail")

BarrierSync(t) == /\ MayCall(t, "barrier_sync")
                  /\ Call(t, "barriersync", "btail")

SyncTail(t) == Test(t, "ytail", tail # NULL, "swap", "ysusp")
SyncSuspended(t) == Test(t, "ysusp", Suspended, "swap", "yadd")

\* Enter(t, ...) when the queue lets the caller in.
Enter(t, loc, n, may, yes, no) ==
    /\ At(t, loc)
    /\ running' = running + n
    /\ state' = IF may THEN Set(state, t, "running") ELSE state
    /\ Goto(t, IF may THEN yes ELSE no)
    /\ UNCHANGED <<susp, ret, listVars, kind, worldVars, localVars, orderVars>>

\* Faulty variant: a reader does not look whether a barrier holds the queue.
SyncAdd_Blind(t) == Enter(t, "yadd", 2, TRUE, "yrun", "yback")

SyncAdd(t) == Enter(t, "yadd", 2, running % 2 = 0, "yrun", "yback")

\* _dispatch_sync_f_slow2()
SyncBack(t) == DropRunning(t, "yback", 2, "swap")
BarrierTail(t) == Test(t, "btail", tail # NULL, "swap", "bsusp")
BarrierSuspended(t) == Test(t, "bsusp", Suspended, "swap", "bcas")

\* Faulty variant: a transferred lock (running = 2) does not count as held.
BarrierLock_Even(t) ==
    Enter(t, "bcas", IF running % 2 = 0 THEN 1 ELSE 0, running % 2 = 0, "brun",
          "swap")

BarrierLock(t) ==
    Enter(t, "bcas", IF running = 0 THEN 1 ELSE 0, running = 0, "brun", "swap")

\* The slow path of either call: the thread semaphore says when to run.
Wait(t) ==
    /\ At(t, "wait")
    /\ sema[t] > 0
    /\ sema' = [sema EXCEPT ![t] = @ - 1]
    /\ state' = Set(state, t, "running")
    /\ Goto(t, IF kind[t] = "sync" THEN "yrun" ELSE "srun")
    /\ UNCHANGED <<wordVars, listVars, kind, objectVars, rootVars, localVars,
                   orderVars>>

\* The block of a synchronous call returns.
Run(t, loc, to) ==
    /\ At(t, loc)
    /\ Finish(t, "free")
    /\ obj' = Set(obj, t, NULL)
    /\ Goto(t, to)
    /\ UNCHANGED <<wordVars, tail, head, worldVars, link, orderVars>>

SyncRun(t) == Run(t, "yrun", "ysub")

\* Faulty variant: the last reader does not wake the queue up.
SyncSub_NoWakeup(t) == Add(t, "ysub", 0, -2, "idle")

SyncSub(t) == DropRunning(t, "ysub", 2, "idle")

-----------------------------------------------------------------------------
(* The end of a barrier: the queue is handed over to the next synchronous  *)
(* barrier, if that is the next item, or unlocked.                         *)

BarrierRun(t) == Run(t, "brun", "bcheck")
BarrierCheck(t) == Test(t, "bcheck", tail # NULL, "fsusp", "bdec")

\* _dispatch_barrier_sync_f2()
TransferSuspended(t) ==
    /\ At(t, "fsusp")
    /\ IF Suspended THEN Goto(t, "bdec") /\ UNCHANGED ret
                    ELSE Goto(t, "one") /\ ret' = Set(ret, t, "bdec")
    /\ UNCHANGED <<susp, running, otherVars>>

BarrierUnlock(t) == DropRunning(t, "bdec", 1, "idle")

\* The end of _dispatch_barrier_sync_f_slow()
SlowRun(t) == Run(t, "srun", "stest")
SlowTest(t) == Test(t, "stest", susp < 2 * INTERVAL, "sspin", "ssub")

\* "ensure drain of current barrier sync has finished"
SlowSpin(t) ==
    /\ At(t, "sspin")
    /\ running <= 2
    /\ Goto(t, "one")
    /\ ret' = Set(ret, t, "ssub")
    /\ UNCHANGED <<susp, running, otherVars>>

SlowResume(t) == Add(t, "ssub", -INTERVAL, 0, "sdec")

SlowUnlock(t) == DropRunning(t, "sdec", 2, "idle")

\* What becomes of item i when it is taken off the list.
Take(i, s) == /\ state' = Set(state, i, s)
              /\ fifo' = RemoveFirst(fifo, i)
              /\ UNCHANGED <<by, suspended>>

\* Where the holder goes with the barrier it dequeued: a fast one adds its
\* successor's share to the words first, a slow one leaves it its own.
Dequeued(t) == IF ret[t] = "bdec" THEN "oneadd" ELSE "onesig"

\* _dispatch_queue_drain_one_barrier_sync()
OneHead(t) ==
    LET may == head # NULL /\ kind[head] = "barriersync" IN
    /\ At(t, "one")
    /\ IF may
       THEN /\ obj' = Set(obj, t, head)
            /\ head' = next[head]
            /\ Take(head, "taken")
            /\ Goto(t, IF next[head] = NULL THEN "onecas" ELSE Dequeued(t))
            /\ UNCHANGED ret
       ELSE Return(t) /\ UNCHANGED <<obj, head, state, orderVars>>
    /\ UNCHANGED <<lockVars, tail, next, kind, worldVars, link>>

OneTail(t) == TryEmpty(t, "onecas", Dequeued(t), "onespin")

OneSpin(t) ==
    /\ At(t, "onespin")
    /\ next[obj[t]] # NULL
    /\ head' = next[obj[t]]
    /\ Goto(t, Dequeued(t))
    /\ UNCHANGED <<wordVars, tail, next, outerVars, localVars>>

\* _dispatch_barrier_sync_f2() when it found a successor
TransferSuspend(t) == Add(t, "oneadd", INTERVAL, 0, "oneinc")

\* "increment by 2 and decrement by 1"
TransferRunning(t) == Add(t, "oneinc", 0, 1, "onesig")

TransferSignal(t) ==
    /\ At(t, "onesig")
    /\ sema' = [sema EXCEPT ![obj[t]] = @ + 1]
    /\ obj' = Set(obj, t, NULL)
    /\ ret' = Set(ret, t, "idle")
    /\ Goto(t, "idle")
    /\ UNCHANGED <<lockVars, itemVars, objectVars, rootVars, link>>

-----------------------------------------------------------------------------
(* A worker and _dispatch_queue_invoke()                                   *)

TakeQueue(t) ==
    /\ At(t, "idle")
    /\ onRoot > 0
    /\ onRoot' = onRoot - 1
    /\ Goto(t, "isusp")
    /\ UNCHANGED <<wordVars, itemVars, objectVars, redirected, sema,
                   localVars>>

InvokeSuspended(t) == Test(t, "isusp", Suspended, "unlock", "icas")

InvokeLock(t) == IF running = 0 THEN Add(t, "icas", 0, 1, "dtail")
                 ELSE Add(t, "icas", 0, 0, "unlock")

InvokeLeave(t) == Add(t, "leave", 0, -1, "unlock")

InvokeUnlock(t) ==
    Add(t, "unlock", -LOCK, 0, IF susp = LOCK THEN "probe" ELSE "release")

\* Faulty variant: nobody verifies that the queue is idle.
InvokeProbe_None(t) == Test(t, "probe", TRUE, "release", "release")

\* "verify that the queue is idle"
InvokeProbe(t) ==
    /\ At(t, "probe")
    /\ IF running = 0 THEN CallWakeup(t, "release")
                      ELSE Goto(t, "release") /\ UNCHANGED ret
    /\ UNCHANGED <<susp, running, otherVars>>

\* _dispatch_async_f_redirect_invoke()
TakeRedirected(t) ==
    /\ At(t, "idle")
    /\ \E w \in redirected :
         /\ redirected' = redirected \ {w}
         /\ obj' = Set(obj, t, w)
         /\ state' = Set(state, w, "running")
    /\ Goto(t, "runbeside")
    /\ UNCHANGED <<wordVars, listVars, kind, objectVars, onRoot, sema, link,
                   orderVars>>

RunBeside(t) ==
    /\ At(t, "runbeside")
    /\ Finish(obj[t], "done")
    /\ obj' = Set(obj, t, NULL)
    /\ Goto(t, "rsub")
    /\ UNCHANGED <<wordVars, tail, head, worldVars, link, orderVars>>

RedirectSub(t) == DropRunning(t, "rsub", 2, "release")

-----------------------------------------------------------------------------
(* _dispatch_queue_drain()                                                 *)

DrainTail(t) == Test(t, "dtail", tail = NULL, "leave", "dhead")

\* Wait for the head to be written, then take the list off it.
DrainHead(t) ==
    /\ At(t, "dhead")
    /\ head # NULL
    /\ obj' = Set(obj, t, head)
    /\ head' = NULL
    /\ Goto(t, "dnext")
    /\ UNCHANGED <<wordVars, tail, next, outerVars, link>>

DrainNext(t) ==
    /\ At(t, "dnext")
    /\ link' = Set(link, t, next[obj[t]])
    /\ Goto(t, IF next[obj[t]] = NULL THEN "dcas" ELSE "dsusp")
    /\ UNCHANGED <<wordVars, itemVars, worldVars, obj>>

\* Faulty variant: an item without a successor is taken to be the last.
DrainLast_Blind(t) ==
    /\ At(t, "dcas")
    /\ tail' = NULL
    /\ Goto(t, "dsusp")
    /\ UNCHANGED <<wordVars, head, next, outerVars, localVars>>

DrainLast(t) == TryEmpty(t, "dcas", "dsusp", "dspin")

DrainSpin(t) ==
    /\ At(t, "dspin")
    /\ next[obj[t]] # NULL
    /\ link' = Set(link, t, next[obj[t]])
    /\ Goto(t, "dsusp")
    /\ UNCHANGED <<wordVars, itemVars, worldVars, obj>>

DrainSuspended(t) == Test(t, "dsusp", Suspended, "out", "dpop")

\* The three ways an item is popped.
Pop(t) == LET k == kind[obj[t]] IN
    /\ Take(obj[t], IF k = "barrier" THEN "running" ELSE "taken")
    /\ Goto(t, CASE k = "barrier"     -> "runitem"
                 [] k = "barriersync" -> "xsusp"
                 [] OTHER             -> "xrun")

\* The tests of dq_running
DrainPop(t) ==
    /\ At(t, "dpop")
    /\ IF \/ running > Width
          \/ running > 1 /\ kind[obj[t]] \in {"barrier", "barriersync"}
       THEN Goto(t, "out") /\ UNCHANGED <<state, orderVars>>
       ELSE Pop(t)
    /\ UNCHANGED <<wordVars, listVars, kind, worldVars, localVars>>

\* "while ((dc = next_dc))"
Proceed(t) == /\ obj' = Set(obj, t, link[t])
              /\ link' = Set(link, t, NULL)
              /\ Goto(t, IF link[t] = NULL THEN "dtail" ELSE "dnext")

RunItem(t) ==
    /\ At(t, "runitem")
    /\ Finish(obj[t], "done")
    /\ Proceed(t)
    /\ UNCHANGED <<wordVars, tail, head, worldVars, orderVars>>

\* _dispatch_barrier_sync_f_slow_invoke()
GrantSuspend(t) == Add(t, "xsusp", INTERVAL, 0, "xrun")

\* Faulty variant: only readers are counted.
GrantRunning_Readers(t) ==
    Add(t, "xrun", 0, IF kind[obj[t]] = "barriersync" THEN 0 ELSE 2,
        IF obj[t] \in Clients THEN "signal" ELSE "redirect")

\* dq_running + 2, for a barrier, a reader that waits or one to redirect
GrantRunning(t) ==
    Add(t, "xrun", 0, 2, IF obj[t] \in Clients THEN "signal" ELSE "redirect")

GrantSignal(t) ==
    /\ At(t, "signal")
    /\ sema' = [sema EXCEPT ![obj[t]] = @ + 1]
    /\ Proceed(t)
    /\ UNCHANGED <<wordVars, itemVars, objectVars, rootVars>>

DrainRedirect(t) ==
    /\ At(t, "redirect")
    /\ refcnt' = refcnt + 1
    /\ redirected' = redirected \cup {obj[t]}
    /\ Proceed(t)
    /\ UNCHANGED <<wordVars, itemVars, released, fate, onRoot, sema>>

\* "if this is not a complete drain, we must undo some things"
PutBackTail(t) ==
    /\ At(t, "out")
    /\ tail' = IF link[t] = NULL /\ tail = NULL THEN obj[t] ELSE tail
    /\ Goto(t, IF link[t] = NULL /\ tail # NULL THEN "outspin" ELSE "puthead")
    /\ UNCHANGED <<wordVars, head, next, outerVars, localVars>>

\* "wait for enqueue slow path to finish"
PutBackSpin(t) ==
    /\ At(t, "outspin")
    /\ head # NULL
    /\ next' = Set(next, obj[t], head)
    /\ Goto(t, "puthead")
    /\ UNCHANGED <<wordVars, tail, head, outerVars, localVars>>

PutBackHead(t) ==
    /\ At(t, "puthead")
    /\ head' = obj[t]
    /\ obj' = Set(obj, t, NULL)
    /\ link' = Set(link, t, NULL)
    /\ Goto(t, "leave")
    /\ UNCHANGED <<wordVars, tail, next, outerVars>>

-----------------------------------------------------------------------------
ClientCall(t) == Async(t) \/ BarrierAsync(t) \/ Sync(t) \/ BarrierSync(t)
                   \/ Suspend(t)

ClientStep(t) ==
    \/ Swap(t) \/ Link(t) \/ SetHead(t)
    \/ AsyncTail(t) \/ AsyncSuspended(t) \/ AsyncAdd(t) \/ AsyncOver(t)
    \/ AsyncOdd(t) \/ AsyncRedirect(t)
    \/ SyncTail(t) \/ SyncSuspended(t) \/ SyncAdd(t) \/ SyncBack(t)
    \/ SyncRun(t) \/ SyncSub(t) \/ Wait(t)
    \/ BarrierTail(t) \/ BarrierSuspended(t) \/ BarrierLock(t)
    \/ BarrierRun(t) \/ BarrierCheck(t) \/ TransferSuspended(t)
    \/ BarrierUnlock(t)
    \/ SlowRun(t) \/ SlowTest(t) \/ SlowSpin(t) \/ SlowResume(t)
    \/ SlowUnlock(t)
    \/ OneHead(t) \/ OneTail(t) \/ OneSpin(t) \/ TransferSuspend(t)
    \/ TransferRunning(t) \/ TransferSignal(t)

WorkerStep(t) ==
    \/ TakeQueue(t) \/ InvokeSuspended(t) \/ InvokeLock(t) \/ InvokeLeave(t)
    \/ InvokeUnlock(t) \/ InvokeProbe(t)
    \/ TakeRedirected(t) \/ RunBeside(t) \/ RedirectSub(t)
    \/ DrainTail(t) \/ DrainHead(t) \/ DrainNext(t) \/ DrainLast(t)
    \/ DrainSpin(t) \/ DrainSuspended(t) \/ DrainPop(t) \/ RunItem(t)
    \/ GrantSuspend(t) \/ GrantRunning(t) \/ GrantSignal(t)
    \/ DrainRedirect(t) \/ PutBackTail(t) \/ PutBackSpin(t)
    \/ PutBackHead(t)

Step(t) == \/ WakeupSuspended(t) \/ WakeupTail(t) \/ WakeupLock(t)
           \/ WakeupPush(t) \/ ReleaseInternal(t)
           \/ t \in Clients /\ ClientStep(t)
           \/ t \in Workers /\ WorkerStep(t)

Next == \/ Release
        \/ \E t \in Clients : ClientCall(t) \/ Resume(t)
        \/ \E t \in Threads : Step(t)

Spec == Init /\ [][Next]_queueVars

\* Threads inside a call and the workers are scheduled; blocks return.
FairSpec == Spec /\ \A t \in Threads : WF_queueVars(Step(t))

-----------------------------------------------------------------------------
PushLocs   == {"swap", "link", "sethead", "release"}
WakeupLocs == {"wsusp", "wtail", "wlock", "wpush"}
AsyncLocs  == {"atail", "asusp", "aadd", "aover", "aodd", "apush"}
SyncLocs   == {"ytail", "ysusp", "yadd", "yback", "yrun", "ysub", "wait"}
FastLocs   == {"btail", "bsusp", "bcas", "brun", "bcheck", "fsusp", "bdec"}
SlowLocs   == {"srun", "stest", "sspin", "ssub", "sdec"}
OneLocs    == {"one", "onecas", "onespin", "oneadd", "oneinc", "onesig"}
DrainLocs  == {"dtail", "dhead", "dnext", "dcas", "dspin", "dsusp", "dpop",
               "runitem", "xsusp", "xrun", "signal", "redirect", "out",
               "outspin", "puthead", "leave"}
InvokeLocs == {"isusp", "icas", "unlock"} \cup DrainLocs
ClientLocs == {"idle"} \cup PushLocs \cup WakeupLocs \cup AsyncLocs
                \cup SyncLocs \cup FastLocs \cup SlowLocs \cup OneLocs
WorkerLocs == {"idle", "probe", "release", "runbeside", "rsub"}
                \cup WakeupLocs \cup InvokeLocs

TypeOK == /\ {tail, head} \subseteq Items \cup {NULL}
          /\ next \in [Items -> Items \cup {NULL}]
          /\ kind \in [Items -> {"none", "async", "barrier", "sync",
                                 "barriersync"}]
          /\ susp \in Nat /\ running \in Nat
          /\ refcnt \in Nat /\ released \in {0, 1}
          /\ fate \in {"live", "disposed", "items_enqueued", "suspended"}
          /\ onRoot \in Nat
          /\ redirected \in SUBSET Works
          /\ sema \in [Clients -> Nat]
          /\ pc \in [Threads -> ClientLocs \cup WorkerLocs]
          /\ obj \in [Threads -> Items \cup {NULL}]
          /\ link \in [Threads -> Items \cup {NULL}]
          /\ ret \in [Threads -> {"idle", "release", "swap", "bdec", "ssub"}]
          /\ state \in [Items -> {"free", "queued", "taken", "running", "done"}]
          /\ fifo \in Seq(Items)
          /\ by \in [Works -> Clients \cup {NULL}]
          /\ suspended \in 0 .. MaxSuspend

Running == {i \in Items : state[i] = "running"}
IsBarrier(i) == kind[i] \in {"barrier", "barriersync"}

\* A barrier block never runs beside another block of the queue.  On a serial
\* queue, where every block is a barrier, blocks run one at a time.
BarriersRunAlone ==
    \A i, j \in Running : i # j => ~IsBarrier(i) /\ ~IsBarrier(j)

\* What holds of it on every queue: two barriers never run together, whether
\* drained, run on the fast path or handed over, and a reader is never beside
\* a barrier other than one that was granted to a caller that waited for it.
BarriersExclude ==
    \A i, j \in Running :
        i # j /\ IsBarrier(i) => /\ ~IsBarrier(j)
                                 /\ i \in Clients /\ pc[i] = "srun"

\* Items leave the list in the order in which they entered it, whoever takes
\* them, and whatever was put back meanwhile.
TakenInOrder ==
    [][\A i \in Items : state[i] = "queued" /\ state'[i] # "queued"
                           => i = Head(fifo)]_queueVars

AllAt(C, W) == /\ fate = "live"
               /\ \A t \in Clients : pc[t] \in C
               /\ \A t \in Workers : pc[t] \in W

\* The queue never stalls: when nobody is at work, items are left only while
\* it is suspended or on the root queue's list.
NeverStalls ==
    (/\ AllAt({"idle", "wait"}, {"idle"}) /\ onRoot = 0 /\ redirected = {}
     /\ suspended = 0 /\ \A t \in Clients : sema[t] = 0)
      => tail = NULL /\ \A t \in Clients : pc[t] = "idle"

\* The low bit of do_suspend_cnt is the lock on the link that holds the queue
\* on the root queue's list: it is there once, or with one worker.
OnRootOnce ==
    fate = "live" =>
      susp % 2 = onRoot + Cardinality({t \in Threads : pc[t] = "wpush"})
                   + Cardinality({t \in Workers : pc[t] \in InvokeLocs})

\* Nobody touches the queue once it is disposed of, and it is never disposed
\* of with items on it or released while a hand-over has it suspended.
NeverDisposedInUse ==
    /\ fate \in {"live", "disposed"}
    /\ fate = "disposed" =>
         /\ AllAt({"idle"}, {"idle"}) \/ \A t \in Threads : pc[t] = "idle"
         /\ redirected = {} /\ onRoot = 0

\* At rest every count is back where the calls made so far leave it.
BalancedAtRest ==
    AllAt({"idle"}, {"idle"}) /\ onRoot = 0 /\ redirected = {}
      => /\ running = 0
         /\ susp = INTERVAL * suspended
         /\ refcnt = (1 - released) + suspended
         /\ \A t \in Clients : sema[t] = 0

\* Every item submitted runs, unless the queue stays suspended for ever.
EveryItemRuns ==
    <>[](suspended = 0) =>
      \A i \in Items :
        state[i] \in {"queued", "taken"} ~> state[i] \notin {"queued", "taken"}

\* A queue of width 1 implements a serial queue.
Serial == INSTANCE DispatchQueueSpec
            WITH Callers <- Clients,
                 active <- {i \in Items : state[i] \in {"taken", "running"}}

ImplementsSerialQueue == Serial!Spec
=============================================================================
