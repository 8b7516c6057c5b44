# Verification of the runtime libraries in SourceCodeStorage

The repository stores the source of the libraries an Apple program runs on
(Grand Central Dispatch, the block runtime, the Objective-C runtime,
CFRunLoop), of two libraries built on top of them (SDWebImage, AFNetworking)
and of small applications that exercise them. This directory holds TLA+
models of that code, TLC runs that check them on small instances and TLAPS
proofs of theorems about them. It proceeds from the bottom up: libdispatch,
because everything else stands on its queues, semaphores and groups and because
its lock-free code is the hardest to test; then the parts of the Objective-C
runtime that threads share, and the run loop.

Paths below are relative to `src/Storage/`. `GCD` is
`libdispatch-187.10/src`, `ObjC` is `objc4-706/runtime`, `CF` is
`RunLoopTest/RunLoopTest/CF-1151.16`, `SD` and `AF` are
`SourceCode/SourceCode/libs/SDWebImage` and `.../AFNetwork`.

Contents:

1. Inventory of the system
2. The models and how they correspond to the code
3. What each run checks and shows
4. What is proved
5. Disagreements between the code and its documentation
6. Abstractions, bounds and fairness
7. What is not modelled, and the plan

## 1. Inventory of the system

### Grand Central Dispatch (`libdispatch-187.10`)

| Component | State | Operations | What is hard | What makes it correct |
|---|---|---|---|---|
| once (`once.c`, `once.h`) | predicate word, waiter records on the callers' stacks | `dispatch_once_f` | the finisher walks other threads' stacks while they push and leave | the function runs once, nobody returns before it has, nobody sleeps for ever |
| semaphore (`semaphore.c`) | value, published wakeups, kernel semaphore | signal, wait (poll, timed, for ever), release | a timeout undoes its decrement while a signal pays for it; spurious wakeups; disposal between publishing and posting | a wait returns zero only for a signal of its own; no wakeup is lost; no touch after disposal |
| group (`semaphore.c`, `queue.c`) | value, waiter count, notification list | enter, leave, `group_async`, wait, notify, release | the list is taken by two exchanges; the decision to wake is older than the list it serves | waiters and notifications are served once; blocks and lists keep the group alive |
| queue (`queue.c`, `queue_internal.h`, `object.c`) | item list, `dq_running`, `do_suspend_cnt`, references | async, sync, barriers, suspend, resume, release; drain, redirect, hand-over | three words that change separately; readers, barriers and drainers race; items are put back | items in FIFO order, barriers alone, no stall, one drainer, no use after disposal |
| root queue, thread pool (`queue.c`) | list with a mediator, pending count, pool size | push, drain one, spawn, idle time-out | contended pops of a one-element list; a worker that leaves while work arrives | every item handed out once; a worker exists while items do |
| target queues (`queue.c`) | target pointers, suspension passed down | `dispatch_set_target_queue`, width changes | retargeting while items are in flight | items of one serial target never overlap |
| main and manager queue (`queue.c`) | drain marker, wakeup port, kevent loop | drain from the run loop, `dispatch_after` | reentrancy of the drain | what was queued before the drain runs in it |
| apply (`apply.c`) | shared index, thread count, semaphore | `dispatch_apply` | the last thread out signals a frame on the caller's stack | each index once; the caller leaves last |
| source (`source.c`) | pending data, latch, kevent registration, timers, cancellation | merge, latch and call, suspend, cancel, timers | merges during a handler; cancellation against delivery; registration shared between sources | no merged data lost; nothing delivered after the cancel handler |
| io (`io.c`) | channels, disk and stream operation queues, fd entries | read, write, barrier, close, stop | partial transfers, stop against running operations | handlers see the data in order and one final call |
| data (`data.c`) | immutable ropes of buffers | concat, subrange, map, apply | offsets and lengths of records | contents equal those of the flat buffers |
| time (`time.c`) | none | `dispatch_time`, `dispatch_walltime` | saturation at the ends of 64 bits | never wraps |
| thread semaphores (`semaphore.c`) | one cached semaphore per thread | get, put, signal, wait | a count left behind | handed back empty |
| set-up (`init.c`, `benchmark.c`, shims) | constants | start-up | none | none modelled |

Components call one another downwards: sources, io, apply and group
notifications submit to queues; queues hand blocks to root queues; root
queues to the threads of the pool; once, synchronous calls and apply sleep on
the thread semaphores. All objects share `_dispatch_retain/_dispatch_release`
and the suspension word of `object.c`.

### Blocks and the Objective-C runtime

| Component | State | Operations | What is hard | What makes it correct |
|---|---|---|---|---|
| block runtime (`Block/libclosure-67/runtime.c`) | flags word with a latching reference count and a deallocating bit, `__block` forwarding | copy, release, assign and dispose helpers | two threads copy and release; a stack block's first copy; latching at the maximum | freed once, after the last release; forwarding leads to the live copy |
| reference counts (`ObjC/objc-object.h`, `NSObject.mm`) | `extra_rc` in the isa, side table with the overflow | retain, release, dealloc | half of the count moves between isa and table, under two kinds of lock | dealloc once, when all retains were released |
| weak references (`ObjC/objc-weak.mm`) | weak table per stripe | store, load, clear on dealloc | store against dealloc, lock order of two stripes | a load returns a live object or nil |
| autorelease pools (`ObjC/NSObject.mm`) | pages, hot page, boundary tokens | push, add, pop, return-value hand-off | nested pops, empty-page hysteresis | each object released once per autorelease, at the right boundary |
| `@synchronized` (`ObjC/objc-sync.mm`) | `SyncData` list, per-thread caches, thread counts | enter, exit | reuse of a record another thread is about to use | recursion and mutual exclusion per object |
| `+initialize`, `+load` (`ObjC/objc-initialize.mm`, `objc-loadmethod.mm`) | class state, per-thread list of initialising classes | initialise with superclasses, wait, finish later | two threads initialise a subclass and its superclass | superclass first, once, no deadlock |
| method cache (`ObjC/objc-cache.mm`) | buckets and mask, garbage list | lookup, fill, expand, flush | readers without locks; reclamation by looking at program counters | a reader never uses a freed or mismatched bucket |
| associated objects (`ObjC/objc-references.mm`) | map of maps under one lock | set, get, remove | releases outside the lock | retained while associated |
| classes, support (`ObjC/objc-runtime-*.mm`, others) | class tables under the runtime lock | image loading, realisation, lookup | size | not modelled |

### CFRunLoop, SDWebImage, AFNetworking, applications

| Component | State | Operations | What is hard | What makes it correct |
|---|---|---|---|---|
| run loop (`CF/CFRunLoop.c`) | modes, sources, timers, observers, wake-up port, stop flag | run, add, remove, signal, wake up, stop, perform block | callbacks that change the sets being walked; a wake-up before the sleep | a signalled source is served; no callback after invalidation |
| image manager, downloader, cache (`SD/*.m`) | running operations, failed URLs, tasks by URL, memory and disk cache | load, cancel, coalesce, store, clean | cancellation between the stages of a load; two requests share a task | each completion block once or cancelled; one download per URL |
| image downloader, cache (`AF/UIKit+AFNetworking`) | merged tasks, active count, queued tasks, cached size | download, cancel, purge | cancel while the response is delivered | bounded activity, no handler lost |
| session manager (`AF/AFNetworking/AFURLSessionManager.m`) | delegates keyed by task | create, complete, cancel | a task that completes before it is registered | one completion per task |
| codecs, serialisation, applications | none that interact | conversion | none | not modelled |

`PROJECT.json` lists every component with its sources and its status, and the
hazards of the modelled ones at the lines where they bite.

## 2. The models and how they correspond to the code

The models have the same form. A thread is at a location (`pc`, or the `at` of
the innermost call where calls nest); one action is one access to memory that
other threads share, together with the private computation up to the next such
access; local variables that survive from one access to another are functions
from threads. Where the code holds a lock throughout, what it does under the
lock is one action. An action is named for what the code does there, and the
`map` section of `PROJECT.json` gives its lines. An operator `X_Fault` beside
an action `X` is a faulty variant of it, used to see that a property notices
the fault; no specification refers to it.

| Module | Models | Abstract specification |
|---|---|---|
| `DispatchOnce` | `dispatch_once_f()` and its inline wrapper | `DispatchOnceSpec`: the function is run once, callers return after it |
| `DispatchSemaphore` | `dispatch_semaphore_t`, with Mach or POSIX kernel semaphores | `DispatchSemaphoreSpec`: a counting semaphore with time-outs |
| `DispatchGroup` | `dispatch_group_t`, with the references of `dispatch_group_async_f()` | properties only |
| `DispatchQueue` | a private queue that targets a root queue | `DispatchQueueSpec`: a serial FIFO queue, for width 1 |
| `DispatchRootQueue` | a global queue and its threads: the list with its mediator, the kernel's workqueue or the thread pool; actions without a specification of its own | |
| `DispatchApply` | `dispatch_apply_f()` on that queue, which `dispatch_async()` uses too; composes with `DispatchRootQueue` | properties only |
| `ObjcRefcount` | retain, release, deallocation and weak variables | `ObjcReferencesSpec`: strong references that keep an object, weak ones that are cleared with the last of them |
| `ObjcInitialize` | `_class_initialize()`: the sending of `+initialize` | properties only |
| `CFRunLoop` | a run loop: its modes, sources, blocks, ports, nested runs | properties only |
| `TimerLists` | the lists of timers and the bisection that finds a timer's place in one; `CFRunLoopTimers` extends it | |
| `CFRunLoopTimers` | the timers of a run loop's modes | properties only |
| `Counting` | counting threads at locations | |
| `MC...` | the constants of an instance, symmetry sets | |
| `...Proofs` | theorems and their proofs | |

**DispatchOnce.** `vval` is the predicate word. A record lives on the stack of
the thread that pushed it, so it goes by the name of that thread, and
`WalkerReadsLiveRecords` is the statement that no frame is read after its
thread has left. `sema` is the thread semaphore that the thread will use again
for its next blocking call, which is why it must go back empty.

**DispatchSemaphore.** `value`, `sent` and `ksem` are `dsema_value`,
`dsema_sent_ksignals` and the count inside the kernel. Signal and wait have a
fast path of one action; the slow paths are `Retain`, `Publish`, `Post`,
`Drop` and `Check`, `TimedWoken`, `TimedOut`, `Undo`, `Drain`. `Backend`
chooses between the two branches of the source. The reference count and
`fate` model disposal, including the crash of a semaphore that is released
below its original value and of one that is signalled past `LONG_MAX`.

**DispatchGroup.** The group is a semaphore created with `LONG_MAX`; `value`
falls with each block that enters. The notification list is modelled record
by record with its links, because the code takes it by two exchanges
(`TakeHead`, `TakeTail`) and walks it while it may be half linked. `memory`
says what became of each record, so that following a freed record is visible.
`AsyncRetain` and `LeaveRelease` are the references that
`dispatch_group_async_f()` takes and the end of its block gives back; `Enter`
and `Leave` are what it does between them. A client may also call
`dispatch_group_enter()` and `dispatch_group_leave()` itself (`ClientEnter`,
`ClientLeave`, `LeaveTest`): these take no reference, so the group lives
through them on the client's own. `bare` counts such entries, `early` remembers
that the client dropped its reference while it relied on it, and `fate` tells
the two ways in which that ends: disposal below the original value, which
crashes (`in_use`), and disposal under a thread that goes on in freed memory
(`touched`).

**DispatchQueue.** The largest model: about sixty actions. `tail`, `head` and
`next` are the list; `running` is `dq_running`, which counts readers in twos
with the low bit for a drainer or fast barrier; `susp` is `do_suspend_cnt`,
which counts suspensions in twos with the low bit set while the queue is on
the list of its target. Clients run `dispatch_async_f`,
`dispatch_barrier_async_f`, `dispatch_sync_f`, `dispatch_barrier_sync_f`,
`dispatch_suspend`, `dispatch_resume` and `dispatch_release`; workers run
`_dispatch_queue_invoke`, `_dispatch_queue_drain` and
`_dispatch_async_f_redirect_invoke`. The sections of the module follow the
functions: wakeup, references and suspension, push, asynchronous submission,
synchronous fast and slow paths, the hand-over at the end of a barrier
(`_dispatch_barrier_sync_f2`, `_dispatch_queue_drain_one_barrier_sync`),
invoke, drain with its three ways of popping an item and its way of putting
one back. `Width` is `dq_width` as the code stores it: 1 for a serial queue,
otherwise twice the number of readers. The history variables (`state`,
`fifo`, `by`, `suspended`) appear in no guard of the code's actions; they
serve the properties and say which calls a correct client may make.

The root queue is the environment of this model: `onRoot` and `redirected`
are what was pushed to it, and a worker may take any of it at any time.

**DispatchRootQueue, DispatchApply.** `tail`, `head` and `next` are again the
list, this time with several threads taking from it: one that exchanges the
head for the mediator holds it (`TakeHead`), finds a successor, empties the
tail or gives the head back (`Successor`, `TryTail`, `Advance`,
`UndoMediator`). `_dispatch_queue_wakeup_global()` is `Probe`,
`RequestThread`, `SignalMediator` and `CreateThread`; `kworkqueue` chooses at
the start between its two ways to get a thread. `Grant` is the kernel that
starts a thread it was asked for or makes one, `TimeOut` the end of a thread's
rest. `DispatchApply` says what the items are: continuations of
`dispatch_async()` and the records that `dispatch_apply()` keeps on its
caller's stack, so that `frame` says whether a record may still be touched.

**ObjcRefcount.** The compare-and-swap loops on the isa word are single steps;
a step of its own begins wherever a side table's lock is held while the two
halves of a count disagree (`AddSide`, `Repay`, `PutBack`, `MoveExtra`), and in
`storeWeak()` and `objc_loadWeakRetained()` between what they read and the lock
they take (`LockTwo`, `StoreRetry`, `LoadAgain`). `target` is the client: what
each of its strong references refers to. A freed address may be allocated
again, so a stale entry of a side table or weak table shows.

**ObjcInitialize.** `calls[t]` is the stack of `_class_initialize()` of a
thread: `Call` pushes one for a superclass or for a message that a
`+initialize` method sends, `Return` and `Throw` pop it; an exception takes
every call with it up to a method that may catch it. `mine` is
`initializingClasses`, `pending` the `pendingInitializeMap`, `finishing` the
classes that the recursion of `_finishInitializing()` has still to mark under
the lock. What the methods send is a constant, any set of classes for each.

**CFRunLoop.** `stack` holds the activations of `CFRunLoopRunSpecific()`, each
with its place in the pass (`at`), its mode and the flags of its
`_per_run_data`. The loop's lock is not a variable: `Unlocked` lists the places
where the thread of the loop has dropped it, and the calls of other threads
wait for them. A call of another thread changes the loop and then wakes it up;
messages wait in `ports`, whose queues hold one. Callouts of the kinds in
`Nesting` may run the loop again.

**CFRunLoopTimers.** Lists, dates, remembered deadlines and the kernel timer of
each mode (`timers`, `fire`, `deadlines`, `armed`, `rung`), what the loop does
with a message of the kernel timer and the callouts it makes, and the calls
that add, remove, reschedule and invalidate timers, from other threads or while
a callout runs. `InsertionIndex` in `TimerLists` is the bisection of
`__CFRunLoopInsertionIndexInTimerArray()`.

## 3. What each run checks and shows

| Run | Instance | Checked | Distinct states |
|---|---|---|---|
| `once` | 4 threads | `TypeOK`, `WalkerReadsLiveRecords`, `SemaphoreReturnedEmpty`, `NobodyLeftBehind`, refinement `ImplementsOnce`, liveness `EveryCallReturns` | 23 thousand |
| `semaphore` | 3 threads, original value 1, Mach | `WakeupsAccounted`, `NoLostWakeup`, `NoUseAfterDispose`, refinement `ImplementsSemaphore`, liveness `Settles` | 82 thousand |
| `group` | 3 threads, 2 notifications | `RecordsInOrder`, `NobodyForgotten`, `NeverDisposedInUse`, `ReferencesBalanced`, liveness `Settles` | 1.2 million |
| `queue_serial` | 2 clients, 2 workers, 2 asynchronous items, width 1, suspension | `BarriersRunAlone`, `NeverStalls`, `NeverDisposedInUse`, `BalancedAtRest`, refinement `ImplementsSerialQueue` | 1.2 million |
| `queue_concurrent` | 2 clients, 2 workers, 1 asynchronous item, width 4 | `BarriersExclude`, `OnRootOnce`, `TakenInOrder` | 1.4 million |
| `queue_live` | 2 clients, 1 worker, 1 asynchronous item, width 4 | liveness `EveryItemRuns` | 237 thousand |
| `apply` | 2 clients, one applies 3 indices with 3 processors, 2 threads, 1 block besides, pool of 1 or workqueue | `NothingLeftBehind`, `AppliedOnce`, liveness `EverythingRuns` | 134 thousand |
| `objc` | 2 threads, 2 objects, 3 references, 1 weak variable, half count 1 | `CountsAgree`, `NothingDangles`, refinement `ImplementsReferences`, no deadlock | 131 thousand |
| `initialize` | 2 threads, 4 classes in 2 branches whose methods message across | `Contiguous`, `NeverAborts`, action property `NobodyRunsEarly`, liveness `EveryMessageDelivered` | 104 thousand |
| `runloop` | 2 other threads, 2 modes, a source of each version, 2 blocks, 2 nested runs | `NeverSleepsThroughWork`, `BlocksKeptInOrder`, liveness `SignalsServed` | 511 thousand |
| `timers` | 3 timers, 2 modes, 1 other thread, 2 nested runs | `SortedByDate`, `ArmedForEarliest` | 410 thousand |

One more run, `queue_stall`, is expected to end in a violation; section 5
explains it.

What the properties mean:

- *once*. The walk over the waiters' records never leaves live stack frames;
  a semaphore goes back to its cache without a count; when the walk is over,
  whoever still sleeps has been signalled. The refinement
  counts the calls of the function and its returns, and says that each happens
  once and that no caller returns before both have; the liveness property that
  every caller returns.
- *semaphore*. `WakeupsAccounted` is the heart: threads inside a slow wait
  equal the wakeups published or about to be, plus the units by which the
  value is negative. Each of the races between a time-out, a signal and
  another waiter is a way to break that sum by one. `NoLostWakeup` adds the
  posts of the kernel semaphore: nobody sleeps on an empty kernel semaphore
  with a wakeup published for him.
- *group*. `RecordsInOrder` says the two-step removal of the list hands each
  record to exactly one thread, and that nobody follows a freed record;
  `NobodyForgotten` that nothing remains on the list, and nobody asleep, when
  all is calm and the group is empty. `NeverDisposedInUse` says that a block
  outstanding always prevents disposal, and that disposal under a thread inside
  a call, or with an entry of the client's own outstanding, has one cause: the
  client dropped its reference before its own leave was answered or its own
  call had returned (section 5). `ReferencesBalanced` says whose the references
  are when all is calm.
- *queue, serial*. The refinement against `DispatchQueueSpec` is FIFO order
  and mutual exclusion in one: an item starts only as the head of the queue
  or, for a synchronous caller, when nothing runs. `NeverStalls` says that a
  queue at rest with items is suspended or on its target's list, and
  `NeverDisposedInUse` that the references taken for pushes, wakeups and
  redirections always outlive the last access.
- *queue, concurrent*. `BarriersExclude` is the strongest exclusion that the
  code keeps (section 5 tells what it does not keep). `TakenInOrder` states
  that the list is a FIFO through exchanges of the tail by pushers, removal by
  drainers and by the hand-over, and items put back. `OnRootOnce` states
  that the single link of the queue is used once. `BalancedAtRest` states
  that after any number of readers, barriers and hand-overs both lock words
  are back at zero.

- *apply*. `AppliedOnce` is about memory as much as about indices: each index
  is passed once, and once the caller has returned no thread that pushed,
  took or links a record on its stack touches one, although the root queue
  reads an item again to find its successor. `NothingLeftBehind` says that the
  mediator and the blind store to the head leave a list that the next push
  finds in order, and that nothing rests on it when no thread is on its way;
  `EverythingRuns` adds that threads come when they are needed, through both
  ways of getting one.
- *objc*. `CountsAgree` finds every reference in the isa word, the side table or
  the hands of the one thread that moves half of the count. `NothingDangles`
  is what an object leaves behind: nothing. The refinement makes both into
  what a programmer relies on, including that a weak load and the release of
  the last reference never bring an object back.
- *initialize*. `Contiguous` is the argument of the comment at the head of
  `objc-initialize.mm`, for what is initialized and for what a thread may use;
  `NeverAborts` that the runtime's assertions and its fatal error cannot be
  reached, though the flags are read without the lock that guards them;
  `NobodyRunsEarly` that whoever returns may run methods of the class;
  `EveryMessageDelivered` that nobody waits for ever while a superclass and its
  subclass initialize each other. `NobodyRunsEarly` speaks of the call that
  ends, so that calls an exception passes through promise nothing.
- *runloop*. A sleeping run has nothing to do, whatever wake-ups were merged or
  taken by another run (`NeverSleepsThroughWork`); a source signalled while
  the outermost run serves its mode is performed after it
  (`SignalsServed`); and what is taken from the list of blocks, put back and
  added meanwhile keeps its order (`BlocksKeptInOrder`).
- *timers*. The lists stay sorted, which the bisection and the choice of
  deadlines rely on, and whenever the lock is free each mode's kernel timer is
  armed for no later than its first timer, or has gone off: with the calls of
  the instance, made by one other thread, a remembered deadline does not keep
  it from being armed (section 5 names calls with which it does).

Every property was seen to fail on a faulty variant of a mapped action; the
variants are named for the fault (`WakeupLock_Blind`, `Wait_OffByOne`, ...).

## 4. What is proved

TLAPS proves the following for every value of the constants that satisfies the
modules' named assumptions. These say no more than the code does: the sets a
model draws its values from are disjoint (a thread is not an item, and neither
is a null pointer), widths, counts and limits are numbers, and the threads are
finitely many wherever threads are counted. `RootAssumption` keeps the client
threads apart from those of the pool and items from the two pointer values that
are none, the null pointer and the mediator; `PoolAssumption` makes the pool
finite and not empty, as `MAX_THREAD_COUNT` and `dgq_thread_pool_size` do
(`GCD/queue.c:165`, `415`); `ApplyAssumption` says that a record of
`dispatch_apply()` is none of the items that come from elsewhere, since it is on
its caller's stack; `RefcountAssumption` that the inline half of a count is not
zero and that every address has a stripe; `TimersAssumption` that there are
finitely many timers, whose intervals and tolerances are not negative.

| Theorem | Statement |
|---|---|
| `DispatchOnceProofs!OncePhase` | types, and the phase of the run of the function as the predicate word shows it |
| `DispatchOnceProofs!OnceImplemented` | `Spec => ImplementsOnce` |
| `DispatchOnceProofs!OnceWalkerSafe` | `Spec => []WalkerReadsLiveRecords` |
| `DispatchOnceProofs!OnceSemaphoreEmpty` | `Spec => []SemaphoreReturnedEmpty` |
| `DispatchOnceProofs!OnceNobodyLeft` | `Spec => []NobodyLeftBehind` |
| `DispatchSemaphoreProofs!SemaphoreAccounts` | `Spec => [](TypeOK /\ WakeupsAccounted)` |
| `DispatchSemaphoreProofs!SemaphoreNoLostWakeup` | with Mach semaphores, `Spec => []NoLostWakeup` |
| `DispatchSemaphoreProofs!SemaphoreStaysAlive` | `Spec => []NoUseAfterDispose` |
| `DispatchSemaphoreProofs!SemaphoreImplemented` | `Spec => ImplementsSemaphore` |
| `DispatchGroupProofs!GroupStaysAlive` | `Spec => []NeverDisposedInUse` |
| `DispatchGroupProofs!GroupReferences` | `Spec => []ReferencesBalanced` |
| `DispatchGroupProofs!GroupRecords` | `Spec => []RecordsInOrder` |
| `DispatchGroupProofs!GroupNobodyForgotten` | `Spec => []NobodyForgotten` |
| `DispatchQueueProofs!QueueOnRootOnce` | `Spec => []OnRootOnce`, for any width |
| `DispatchQueueProofs!QueueInvariant` | `Spec => []QueueInv`, for any width: items, `dq_running`, exclusion and the list |
| `DispatchQueueProofs!QueueTakenInOrder` | `Spec => TakenInOrder`, for any width |
| `DispatchQueueProofs!QueueBarriersExclude` | `Spec => []BarriersExclude`, for any width |
| `DispatchQueueProofs!QueueCounts` | `Spec => []CountsInv`, for any width: suspensions and references |
| `DispatchQueueProofs!QueueBalanced` | `Spec => []BalancedAtRest`, for any width |
| `DispatchQueueProofs!SerialQueueExclusion` | for width 1, `Spec => []BarriersRunAlone` |
| `DispatchQueueProofs!SerialQueueImplemented` | for width 1, `Spec => ImplementsSerialQueue` |
| `DispatchQueueProofs!QueueNeverStalls` | for width 1, or any width without `dispatch_async`, `Spec => []NeverStalls` |
| `DispatchQueueProofs!QueueNeverDisposedInUse` | under the same condition, `Spec => []NeverDisposedInUse` |
| `DispatchApplyProofs!ApplyInvariant` | `Spec => []IInv`: the list of the root queue, and the counts of each call |
| `DispatchApplyProofs!ApplyAppliesOnce` | `Spec => []AppliedOnce` |
| `DispatchApplyProofs!RootNothingLeft` | `Spec => []NothingLeftBehind` |
| `ObjcRefcountProofs!ObjcInvariant` | `Spec => []IInv`: isa words, flags, side tables and what is under way between them |
| `ObjcRefcountProofs!ObjcTypes` | `Spec => []TypeOK` |
| `ObjcRefcountProofs!CountsAlwaysAgree` | `Spec => []CountsAgree` |
| `ObjcRefcountProofs!NothingEverDangles` | `Spec => []NothingDangles` |
| `ObjcRefcountProofs!ReferencesImplemented` | `Spec => ImplementsReferences` |
| `ObjcInitializeProofs!Invariance` | `Spec => []InitializeInv`, for any hierarchy and whatever the methods send |
| `ObjcInitializeProofs!Contiguity` | `Spec => []Contiguous` |
| `ObjcInitializeProofs!NoAbort` | `Spec => []NeverAborts` |
| `ObjcInitializeProofs!NobodyEarly` | `Spec => NobodyRunsEarly` |
| `CFRunLoopProofs!LoopTypeCorrect` | `Spec => []TypeInv` |
| `CFRunLoopProofs!BlocksInOrder` | `Spec => []BlocksKeptInOrder`, however runs are nested |
| `CFRunLoopProofs!NoWorkSleptThrough` | unless callouts of blocks or of observers run the loop, `Spec => []NeverSleepsThroughWork` |
| `CFRunLoopProofs!TimersInOrder` | unless clients both add and reschedule a timer, `SortedByDate` is an invariant of `CFRunLoopTimers` |

The arguments:

- **Once.** The invariant ties the word and the counts of calls and returns to
  the thread that runs the function: while the word is zero nothing has run,
  while a thread is in the function or about to swap the word is a record,
  afterwards it is done, and there is one such thread. So nobody calls the
  function when the count of calls is not zero, which the refinement asks for.
  For the walk the invariant describes the list without recursion: links lead
  from listed records to listed records or to the runner's own, no two lead to
  the same one, and none to the head. Walking past the head leaves a list of the
  same shape. That nobody is left behind needs one more fact, that whoever is
  listed will be walked over (`Attended`). The shape alone allows a ring of
  records that no walk gets to. `Ordered` excludes it: every record has a rank,
  and a record leads to one of a lower rank, because that was pushed before it.
  So when the walk is at the oldest record nobody is listed any more: the lowest
  of them (`LowestRank`) would lead to one that nothing leads to.
- **Semaphore.** A thread that moves between two locations changes each of
  five counts of threads by at most one (`CountStep`), so every step is linear
  arithmetic over `value`, `sent`, `ksem`, `refcnt` and the counts.
  `WakeupsAccounted` is inductive with the types. `NoLostWakeup` is not: it
  needs that the published wakeups never outnumber the posts made or to be made
  and the threads that are about to look (`PostsCover`), which is where the Mach
  back end comes in. For disposal the invariant equates the
  references with the signallers in the middle of their calls.
- **Group.** The invariant counts references by their owners (`Accounts`): the
  client, each outstanding block, each thread about to enter or at the end of a
  block, and each list. The references of lists need a second equation, because
  head and tail are written in two steps: the far end of the list that is
  growing has one owner, which is the thread that pushed onto the empty list,
  then the head, then the thread that took the head and is about to take the
  tail. `NeverDisposedInUse` needs two more facts. `Reliance` says that after a
  release that was not early no entry of the client's own is outstanding and
  every thread inside a call is at the end of a block, whose reference it holds;
  `Endings` says in what state the group can have ended. A thread that drops
  the last reference then finds all others idle (`LastReference`). For the
  records,
  `OrderInv` says that every way to a record leads to one that is still to be
  submitted (`Pending`), that a link is written once (`Ends`), and that a
  record is reached in one way only: from the head, from the thread that adds
  it or took the list, or by the one link that leads to it (`OneWay`). Every
  record of a list is reached in such a way; ranks exclude a ring again
  (`Reached`). `NobodyForgotten` follows with `Owed`: while an empty group has
  a list, or a waiter for whom there is no post, some thread is on its way to
  wake it.
- **Queue, any width.** `Shape` says where a thread may be and what its local
  variables hold there; it carries no meaning, but every other proof about
  the queue starts from it. `RootInv` says that the low bit of
  `do_suspend_cnt` is the number of places where the queue is on its target's
  list: on it, in the hands of a thread about to push it, or with a worker. A
  step leaves that sum alone or moves it by one together with the bit
  (`StepMoves`), so the sum is never two.
- **Queue, its items and its list.** `QueueInv` has five parts. `ItemsInv` says
  for each item what became of it and who has it: the list, a thread that takes
  it, a caller that was told, the root queue. `RunInv` reads `dq_running` as
  twice the number of threads that have added two plus the unit of the one who
  has the low bit. `ExclInv` says who may be beside whom: a caller that found
  the number at zero has the queue to itself, one barrier is granted at most,
  and nobody drains while it is being granted. `ListInv` describes the list
  while it is changed: the items pushed and not yet taken are a sequence whose
  neighbours are linked or about to be (`Sequence`, `Links`, `Linkers`), the
  tail is the last and the head the first, unless somebody holds the first or
  is about to write the head (`Ends`, `Fronts`). `Shape` is the fifth. Most
  steps leave the list as it is (`Quiet`); those that push, link, take the
  head, empty the tail or put an item back have a lemma each. `TakenInOrder`
  and `BarriersExclude` follow.
- **Queue, its counts.** `SuspInv` equates `do_suspend_cnt` with twice the
  clients' suspensions and that of the granted barrier, plus the low bit;
  `RefInv` equates the references with the client's own, one per suspension,
  one for the place on the target's list, one for each redirected item and those
  of the threads that are in the middle of a call. Every step but those that
  crash a client moves the count and its owners alike (`RefMove`). At rest no
  owner but the client and his suspensions is left, which is `BalancedAtRest`.
- **Queue, nobody forgotten.** `Watched`: a list that is not empty is
  suspended, in use, on the target's list, or some thread is at a place from
  where it will look at it again. The hard steps are those that give up the
  queue: each has tested the tail after a write that all pushers see, or wakes
  the queue up. One does neither, the reader of `dispatch_async` that takes its
  two units back (section 5), which is why the theorems exclude it: with a
  width above 1 and `dispatch_async` among the calls both are false, since a
  queue that stalls is also one whose last reference the client may drop with
  items on it. For disposal, `Quiesced` says that after the client's release no
  call is under way without a reference of its own, and `Ending` that the last
  reference is dropped with nothing on the list: if there were something, the
  thread that is to look after it would hold one.
- **Queue, width 1.** `BarriersRunAlone` is far from inductive: it speaks of
  blocks, the code of numbers in `dq_running`. `SerialInv` reads the number
  as property: one unit belongs to a fast caller or the drainer, two units to
  a granted barrier, which passes them from the thread that grants it through
  the semaphore to the caller that wakes up. A caller on the fast path and a
  drainer that pops an item own the unit alone (`Alone`), because they saw
  the number at one and only the owner of the unit can grant the two. Two
  blocks that run would need two owners of the same kind, or an owner that is
  alone beside one that is granted. `NoReaders` is needed because with any
  other width readers add to the number without owning it, and the theorem
  is false then. The refinement adds that an item that was taken is on its way
  to run (`Handed`), so that it starts as the head of the abstract queue and
  nothing else runs then (`OneTurn`): pushing is `Submit`, the beginning of an
  item `StartNext` or, on the fast path, `StartDirectly`, its end `Finish`, and
  every other step a stutter.
- **Root queue and apply.** The items of the list are those of a set `Listed`
  that is reached in one way only (`OneWay`): from the head, from the thread
  that holds the mediator, or by a link that is written or about to be. A
  record on a stack may be in it only while its call counts it: `Counted`
  equates the records and threads that have still to leave a call with its
  thread count, and `Drawn` the indices that were drawn with the shared index.
  So the last thread out is the last to touch the frame. `NothingLeftBehind`
  needs to know who is on the way. `RestInv` says that the head is the mediator
  only while a thread holds it that will replace it, that the permits and the
  threads alive make up the pool (`poolSize` and `Alive`), that no permit is
  left over while somebody rests, and that a list with items is attended: by a
  thread asked for, one that is awake, or one that is about to ask.
- **Reference counts.** `IInv` has three layers. The first says what each call
  keeps from one step to the next and which stripes it has locked (`Calls`,
  `Locked`, `Exclusive`). The second ties a word to its flags and side table:
  what fits inline, when there is a table entry, and which half of the count is
  on its way between them (`Consistent`, `Fits`, `Moving`). The third is about
  the client: references refer to objects that are alive (`Followed`, `Alive`),
  weak variables are registered in the table of their object (`Registered`),
  and the counts agree. None of them stands alone, since an entry that outlives
  its object would be found by the next one at the same address. The refinement
  maps a retain, a weak load that succeeds, a release and the clearing of weak
  variables to their abstract counterparts.

- **+initialize.** `Contiguous` alone is not inductive: a step must know what
  the calls below the top of its thread's stack have established. `CallsOK`
  says that of each call by its place: one that is about to set the flag has a
  usable superclass, one that runs a method owns the class and is the only call
  to do so, one that lost the race found the flag set, and all below the top
  either run a method or wait for the class above. `Owners` gives each class
  being initialized to one thread. `PendingOK` is the heart: a class waits in
  the map only for a class of the same thread, whose method has not returned,
  and its own has. Hence whoever marks the superclass may mark the subclass,
  and nobody is left whose assertion fails. The steps that change nothing but
  the stack share one lemma (`LocalStep`), and so do those that pop it
  (`LeaveOK`), where an exception differs from a return.

- **Run loop, blocks.** `BlocksKeptInOrder` speaks of what is on the list and in
  the hands of the runs. `OrderInv` says how: what has not run of the blocks
  submitted is what the runs hold, the outermost first, followed by the list.
  A run takes the list when it is innermost, so what it holds comes last of
  all that is held, and what it puts back goes in front of the list; while a run
  is nested in a callout its own blocks wait. The hands of the runs are joined
  by `FlattenSeq`, a recursion, so the lemmas begin with what that computes of
  the last sequence and those before it (`Joined`, `JoinsAgree`, `FlattenLast`),
  by the least index at which it would be otherwise.
- **Run loop, no sleep through work.** `WakeInv` is about the innermost run:
  either it will make another round before it sleeps (`Rounds`), or a wake-up is
  waiting in the port or about to be sent (`Coming`), or it has nothing to
  attend to but what lies ahead of it in its pass (`Attended`). Every call
  makes its change first and sends its message after, so `Coming` covers it;
  a run that takes the message makes a round. A run that returns hands the
  loop to the run around it, which may have lost its message to it, so all
  runs but the innermost have to be on a round. The callouts of sources, of
  the main queue and of version 1 sources are, since these handle something.
  Those of blocks before the sleep and of observers are not. The theorem
  therefore has as hypothesis that they do not run the loop, and is false
  without it (section 5). A wake-up is ignored only while a round is under way
  (`FrameInv`).

- **Timers, lists in order.** The bisection halves a step that begins as a power
  of two, the least above the count (`FirstStepIs`), so the recursion goes
  through powers of two only. From an index whose timer is not after the new
  date, and no further from the right place than twice the step, it ends at
  that place (`InsertionIndexIs`); the least step at which it would not is
  excluded, since its half would not either. So a timer inserted in a sorted
  list keeps it sorted (`Inserted`), and one removed does too. What is left is
  that a timer whose date changes is moved in every list it is on. Under the
  lock the code knows these; `CFRunLoopTimerSetNextFireDate()` knows those of
  earlier, and `ListInv` says that they are still all (`JobsOK`), which needs
  that no client adds the timer to a mode. The theorem has that as hypothesis
  and is false without it (section 5). `CFRunLoopProofs` has the module of the
  timers as the instance `T`, beside the module of the loop.

Model-checked only are liveness, which is beyond the proof system, and
`ArmedForEarliest`, which is not true of all calls (section 5): it depends on
how the dates that clients choose meet the deadlines that are remembered, and
no condition on the calls, short of those of the instance and its single
client thread, is known to exclude the failures.

## 5. Disagreements between the code and its documentation

One run shows that the code does not do what its own comment says:

- `queue_stall`: `dispatch_async` adds two and, seeing the low bit, takes two
  back; the barrier that ends in between sees a number that is not zero and
  leaves the wakeup to the other, which sends none (`GCD/queue.c:1243`). It
  then finds the tail set and pushes behind it, which wakes nobody either.
  The items stay until the next call; if that is the release of the queue, it is
  disposed of with items on it, which crashes the client.

The models show more interleavings of legal calls that a reader of the headers
and comments would not expect. The properties above are stated around them, or
the instances leave them out, as noted.

- *Queue.* A synchronous reader tests the tail and the suspension and then adds
  two to `dq_running`. A synchronous barrier granted meanwhile has added two
  as well, and when its drainer has left, the sum is even: the reader runs
  beside the barrier (`GCD/queue.c:1669`). `BarriersExclude` is what remains
  true: the barrier it may run beside is one granted by hand-over.
- *Queue.* An empty tail does not mean an empty queue, since the drainer may
  hold the last item and put it back. A synchronous call may run ahead of a
  block that its own thread submitted before, against the comment at
  `GCD/queue.c:1549`.
- *Semaphore.* With POSIX semaphores a success of `sem_timedwait()` is treated
  like a time-out (`GCD/semaphore.c:282`); a wakeup is lost. The model keeps
  both back ends (`Backend`); `NoLostWakeup` is proved for Mach and false for
  the other.
- *Semaphore.* A timed wait that lost the race to take back its decrement waits
  without a time-out for a post another waiter may take
  (`GCD/semaphore.c:262`).
- *Group.* `dispatch_group_enter()` and `dispatch_group_leave()` called by the
  client hold no reference, though the manual says of groups that have a
  notification pending that "it is valid to release the group after setting a
  notification block" (`man/dispatch_group_create.3:92`). A leave increments
  the value (`GCD/semaphore.c:388`) and then reads the group again (`392`) and
  wakes it (`344`). In between a waiter may see the group empty, return and
  release it, or another thread may serve the list and drop its reference, the
  last if the client has released the group; the leaver goes on in freed
  memory. `dispatch_semaphore_signal()` keeps a reference for just that time
  (`171`), and `dispatch_group_async()` one per block. In the model the end is
  the fate `touched`, and `NeverDisposedInUse` says that it takes a client whose
  own leave is under way or yet to come when it releases.
- *Group.* The decision to wake a group is older than the list that is then
  served, so a notification may be submitted though the group was never empty
  since it was requested (`GCD/semaphore.c:392`).
- *+initialize.* Two classes that do not inherit from one another and message
  each other from `+initialize` still wait for each other when two threads
  begin with one each. The comment promises nothing for them, and the
  instance has none; the theorems hold with them, since they are about safety.
- *Run loop.* A run nested in the callout of a block, or of an observer told of
  the sleep, takes the wake-up message meant for the run around it, which may
  then sleep through the work it was to be woken for (`CF/CFRunLoop.c:2530`,
  `3083`). `Nesting` of the run has the other kinds of callouts. A run whose
  mode becomes empty by its own block sleeps once before it notices.
- *Run loop.* `CFRunLoopAddSource()` and `CFRunLoopAddTimer()` look at the
  validity before they lock (`CF/CFRunLoop.c:3211`, `3546`): one invalidated in
  between is added. It is never performed.
- *Timers.* When a timer that is in several modes is given another date while it
  fires, only the mode it fires in is armed for it (`CF/CFRunLoop.c:2259`), so
  the others may be late or early. In the instance the timer in two modes is not
  rescheduled. `CFRunLoopTimerSetNextFireDate()` notes the modes before it
  locks (`4228`); the list of a mode the timer is added to in between is not
  sorted then until the timer moves again.
- *Timers.* The code that arms the kernel timer again after it went off early
  (`CF/CFRunLoop.c:2868`) leaves it as it is if the deadlines are the remembered
  ones, which they are then. Kernel timers of the model are never early. But a
  mode may lose its kernel timer by the same comparison: it goes off in a nested
  run, and the timer it was for is invalidated before the message is handled, so
  nothing is due and it is not armed; the timer that is firing in the run
  around, meanwhile given that same date, finds the deadlines unchanged when it
  has fired, and so does the removal of the other. It then waits with
  no kernel timer armed. In the instance the one timer that clients invalidate
  is the only repeating one that they reschedule. That is enough for one client
  thread, where TLC finds no failure with up to four calls. It is not for two:
  with a third call, one thread adds a timer of the same date (the deadlines are
  the remembered ones and nothing is armed) while the other is between making
  its timer invalid and removing it. `ArmedForEarliest` is therefore claimed for
  a run loop with one other thread at a time.

## 6. Abstractions, bounds and fairness

**Memory.** Every access is atomic and sequentially consistent. The code uses
full barriers around its atomic operations on the machines it supports; the
argument at the end of `once.c` about speculative reads of the predicate is
about the processor and not modelled.

**Data.** Blocks do nothing but take time: `RunItem`, `SyncRun`, `RunBeside`
are the moments when one returns. Allocation succeeds. A work item is
submitted once; the record of a synchronous call is reused by its thread.

**Merged steps.** An increment of a reference count or a retain is merged with
the access that follows it in `DispatchQueue`, since nobody reads the count
but to decrement it, and the thread holds a reference or the client's own at
that time. In `DispatchSemaphore` and `DispatchGroup`, where the window is the
question, it is a step of its own. The leave at the end of a block compares
with `dsema_orig` in the same step, since the block's reference keeps the group
and that field never changes; the client's own leave does so in a step of its
own (`LeaveTest`). `Notify` takes an unused record, and since these are alike
it does not matter which (`NewRecord`).

In `ObjcRefcount` a compare-and-swap loop is one step, which reads the isa word
and changes it; what is read before a lock is taken and used after it is kept
in a local variable. In `CFRunLoop` and `CFRunLoopTimers` the work of the loop's
thread between two places where it drops the lock is one step, and so is the
work of a call under the lock; signalling and invalidating a source, which
take its own lock only, interleave with it.

**Clients** keep the rules of the headers: no call on a released object, no
release of a suspended queue, resume after suspend, release of a semaphore or
group after their own waits returned. A client of a group may release it at any
moment at which no thread is in a call to wait, notify or submit a block, except
that it may already be waking the group; also when that is too early for its own
leaves (section 5), as the caller is not told when these have returned. A client
may release in a block that runs while the call that submitted it is about to
return, which is the case the comments in the source worry about. A client of
`ObjcRefcount` works with references: it retains and stores weakly what it
holds, and no two threads use one reference at a time. A client of a run loop
wakes it up after every call that is meant to change what it does, as the
documentation of the calls asks.

**Bounds.** `MaxPosts` bounds the kernel count (spurious wakeups would let it
grow without limit), `MaxSuspend` the suspensions outstanding. The numbers
of threads are chosen so that the interesting case happens: three waiters of
`once` need the list to be walked past a record; a semaphore needs a waiter
that times out, one that takes its wakeup and a signaller; a queue needs a
caller, one that it races with, a drainer and a second worker to take the
queue as soon as the lock bit is dropped. Two asynchronous items let one be
put back while another is pushed; with width 4, two readers fit and a third
does not. `apply` needs a caller that returns while the last of its records is
taken, another item behind that record, and a pool that is exhausted once; three
processors make two records, which is the shortest list that is pushed whole.
`objc` needs an overflow into the side table and back with another thread that
takes the last reference: with `Half` 1 the second extra reference overflows.
`group` has `Orig` 1, so that one entry is outstanding at a time and a leave
always empties the group. With `Orig` 2, where a leaver may find it in use
still, the four invariants hold as well (2.9 million states), but the graph is
too large to check `Settles` on; the theorems are for every `Orig`.
`initialize` needs a branch of three classes, the middle of which one thread
initializes while another is in the root, and a class outside that branch.
`MaxCalls`, `MaxDepth` and `MaxTime` bound what clients do to a run loop, nested
runs and the clock (for timers `Threads` is a bound as well, section 5): two
calls meet between any two steps of the loop, a nested run interrupts one of
them, and at time two a repeating timer has been due twice. `Orig` and `LongMax`
are small stand-ins for `LONG_MAX`, reached in the runs. The theorems do not
depend on any of these.

**Fairness** is weak fairness of each thread's next step inside a call and of
each worker. The code justifies it: threads are preemptively scheduled, the
workers belong to root queues that create threads while items wait, and
blocks, `+initialize` methods and callouts are assumed to return. `apply` drops
the assumption about root queues and replaces it by one about the kernel, which
starts the threads it was asked for. No fairness is assumed of callers, of
time-outs or of resumption: `Settles` supposes that calls stop,
`EveryItemRuns` that the queue does not stay suspended, `SignalsServed` that
the loop stays in a mode of the source. Weak fairness is enough because every
retry loop in this code waits for a step that another thread is bound to take,
and a lock is given back without waiting for another.
`CFRunLoopTimers` and `ObjcRefcount` state no liveness.

**Deadlock** is not an error in the runs where all clients may have stopped; the
progress properties replace it. In `once` and in `objc`, whose threads may
always begin another call, it is checked.

## 7. What is not modelled, and the plan

Not modelled and not planned: set-up and tracing, class loading and lookup,
codecs, serialisation and the applications (no state that interacts), the
collections of CoreFoundation, `dispatch_io`, which is mostly calls on the
queues modelled here. Of the components that are modelled:

- the queue: targets other than a root queue, retargeting, queue-specific data,
  and `dispatch_group_async` as a kind of item (its references are in
  `DispatchGroup`);
- the root queue: overcommit queues and priorities, which differ in the threads
  they get;
- reference counts: tagged pointers, pinned counts at the end of the side
  table's word, classes with a retain of their own; the weak table's
  open addressing, which is a set here;
- `+initialize`: the list of a thread that ends in the middle of it;
- the run loop: observers other than that they drop the lock, the Windows
  branches, `CFRunLoopWakeUp` of a loop whose thread ends; timers and sources
  are in two modules, since the kernel timer's port is only one more port to
  the run.

The image libraries have been studied and left out for now. `SDWebImage`
answers for much of its state only by convention: its completion handlers are
reset before the answer in `cancelInternal`, handlers added to a finished
operation are dropped, and the table of running operations changes outside the
queue that guards it. A model of it shows those races and few properties.

To come, in order:

1. A statement about kernel timers that holds for all calls, in place of
   `ArmedForEarliest`.
2. `ObjcSync`: the records that `@synchronized` shares and uses again, the
   per-thread caches and their counts of threads.
3. `DispatchSource`: merge, latch, suspension, cancellation and registration.
   Abstract specification: an accumulator whose content is delivered once.
4. `BlockRuntime`: latching count with the deallocating bit.
5. `AutoreleasePool`, `ObjcCache`, the order of `+load`.
6. Target queues, the main queue and `dispatch_after` on `DispatchQueue`.
7. `AFImageDownloader`: merged downloads with cancellation, and the session
   manager under it.
8. `dispatch_time` and the record arithmetic of `dispatch_data` as operators
   checked against a reference definition.
