------------------------- MODULE DispatchRootQueue -------------------------
(***************************************************************************)
(* A global root queue of libdispatch and its threads (src/queue.c,        *)
(* src/queue_internal.h): pushing, the drain of one item at a time whose   *)
(* mediator value in the head locks the list, and the two ways to get a    *)
(* thread: requests to the kernel's workqueue, one pending at a time, or a *)
(* pool of threads that rest on a semaphore and retire after a while.      *)
(*                                                                         *)
(* The steps are actions for the module that says what an item does.  The  *)
(* semaphore is what DispatchSemaphoreSpec promises.                       *)
(***************************************************************************)
EXTENDS Integers, Sequences, FiniteSets

CONSTANTS Clients, Workers, Items, NULL,
          Mediator,     \* the head of a list that a thread is draining
          PoolSize      \* dgq_thread_pool_size at first

ASSUME RootAssumption == /\ Clients \cap Workers = {}
                         /\ NULL # Mediator
                         /\ NULL \notin Items /\ Mediator \notin Items

ASSUME PoolAssumption == IsFiniteSet(Workers) /\ PoolSize \in Nat \ {0}

Agents == Clients \cup Workers

VARIABLES
    tail, head,    \* dq_items_tail, dq_items_head
    next,          \* do_next of each item
    kworkqueue,    \* whether the kernel gave the queue a workqueue
    pending,       \* dgq_pending
    requests,      \* work items the kernel has not started a thread for
    poolSize,      \* dgq_thread_pool_size: threads that may still be made
    permits,       \* count of dgq_thread_mediator
    pc,            \* where each thread is
    item,          \* local: the item taken, or the first one pushed
    link,          \* local "prev" of a push
    ret            \* where _dispatch_queue_wakeup_global() returns to

listVars   == <<tail, head, next>>
poolVars   == <<kworkqueue, pending, requests, poolSize, permits>>
rootVars   == <<listVars, poolVars, pc, item, link, ret>>

Goto(t, loc) == pc' = [pc EXCEPT ![t] = loc]
Call(t, back) == Goto(t, "probe") /\ ret' = [ret EXCEPT ![t] = back]

RootInit == /\ tail = NULL /\ head = NULL
            /\ next = [i \in Items |-> NULL]
            /\ kworkqueue \in BOOLEAN
            /\ pending = 0 /\ requests = 0
            /\ poolSize = PoolSize /\ permits = 0
            /\ pc = [t \in Agents |-> IF t \in Clients THEN "idle" ELSE "gone"]
            /\ item = [t \in Agents |-> NULL]
            /\ link = [t \in Agents |-> NULL]
            /\ ret = [t \in Agents |-> "idle"]

-----------------------------------------------------------------------------
(* Pushing                                                                 *)

\* Exchange the tail for the last of the items list, which hang together.
PushList(t, list, back) ==
    LET last == list[Len(list)] IN
    /\ next' = [i \in Items |->
                  IF \E n \in 1 .. Len(list) - 1 : list[n] = i
                  THEN list[1 + CHOOSE n \in 1 .. Len(list) - 1 : list[n] = i]
                  ELSE IF i = last THEN NULL ELSE next[i]]
    /\ tail' = last
    /\ item' = [item EXCEPT ![t] = list[1]]
    /\ link' = [link EXCEPT ![t] = tail]
    /\ ret' = [ret EXCEPT ![t] = back]
    /\ Goto(t, IF tail = NULL THEN "sethead" ELSE "link")
    /\ UNCHANGED <<head, poolVars>>

Link(t) ==
    /\ pc[t] = "link"
    /\ next' = [next EXCEPT ![link[t]] = item[t]]
    /\ Goto(t, ret[t])
    /\ UNCHANGED <<tail, head, poolVars, item, link, ret>>

\* Blindly: whoever emptied the list leaves its head alone.
SetHead(t) ==
    /\ pc[t] = "sethead"
    /\ head' = item[t]
    /\ Goto(t, "probe")
    /\ UNCHANGED <<tail, next, poolVars, item, link, ret>>

-----------------------------------------------------------------------------
(* _dispatch_queue_wakeup_global()                                         *)

Probe(t) ==
    /\ pc[t] = "probe"
    /\ Goto(t, IF tail = NULL THEN ret[t] ELSE "wake")
    /\ UNCHANGED <<listVars, poolVars, item, link, ret>>

RequestThread(t) ==
    /\ pc[t] = "wake" /\ kworkqueue
    /\ requests' = IF pending = 0 THEN requests + 1 ELSE requests
    /\ pending' = 1
    /\ Goto(t, ret[t])
    /\ UNCHANGED <<listVars, kworkqueue, poolSize, permits, item, link, ret>>

\* The kernel starts a thread for a request.
Grant(w) ==
    /\ pc[w] = "gone" /\ requests > 0
    /\ requests' = requests - 1
    /\ Goto(w, "start")
    /\ UNCHANGED <<listVars, kworkqueue, pending, poolSize, permits, item, link, ret>>

\* dispatch_semaphore_signal() of the mediator: true if a thread rested on it.
SignalMediator(t) ==
    /\ pc[t] = "wake" /\ ~kworkqueue
    /\ IF \E w \in Workers : pc[w] = "resting"
       THEN /\ \E w \in Workers : /\ pc[w] = "resting"
                                  /\ pc' = [pc EXCEPT ![w] = "start", ![t] = ret[t]]
            /\ UNCHANGED permits
       ELSE permits' = permits + 1 /\ Goto(t, "create")
    /\ UNCHANGED <<listVars, kworkqueue, pending, requests, poolSize, item, link, ret>>

\* A thread that retires may stand for the one it creates.
CreateThread(t) ==
    /\ pc[t] = "create"
    /\ \/ poolSize = 0 /\ Goto(t, ret[t]) /\ UNCHANGED poolSize
       \/ \E w \in Workers : /\ poolSize > 0
                             /\ pc[w] = "gone" \/ (w = t /\ ret[t] = "gone")
                             /\ poolSize' = poolSize - 1
                             /\ pc' = [pc EXCEPT ![t] = ret[t], ![w] = "start"]
    /\ UNCHANGED <<listVars, kworkqueue, pending, requests, permits, item, link, ret>>

-----------------------------------------------------------------------------
(* Worker threads                                                          *)

Start(w) ==
    /\ pc[w] = "start"
    /\ pending' = 0
    /\ Goto(w, "drain")
    /\ UNCHANGED <<listVars, kworkqueue, requests, poolSize, permits, item, link, ret>>

\* _dispatch_queue_concurrent_drain_one(): the mediator goes into the head.
TakeHead(w) ==
    /\ pc[w] = "drain"
    /\ head' = Mediator
    /\ \/ head = NULL /\ Goto(w, "undo") /\ UNCHANGED <<item, ret>>
       \/ head = Mediator /\ Call(w, "exit") /\ UNCHANGED item
       \/ /\ head \in Items
          /\ item' = [item EXCEPT ![w] = head]
          /\ Goto(w, "successor") /\ UNCHANGED ret
    /\ UNCHANGED <<tail, next, poolVars, link>>

\* Faulty variant: the head is emptied whatever it is meanwhile.
UndoMediator_Blind(w) ==
    /\ pc[w] = "undo"
    /\ head' = NULL
    /\ Goto(w, "exit")
    /\ UNCHANGED <<tail, next, poolVars, item, link, ret>>

UndoMediator(w) ==
    /\ pc[w] = "undo"
    /\ head' = IF head = Mediator THEN NULL ELSE head
    /\ Goto(w, "exit")
    /\ UNCHANGED <<tail, next, poolVars, item, link, ret>>

Successor(w) ==
    /\ pc[w] = "successor"
    /\ IF next[item[w]] # NULL
       THEN Goto(w, "advance") /\ UNCHANGED head
       ELSE head' = NULL /\ Goto(w, "trytail")
    /\ UNCHANGED <<tail, next, poolVars, item, link, ret>>

\* cmpxchg(dq_items_tail, head, NULL): was the item the last one?
TryTail(w) ==
    /\ pc[w] = "trytail"
    /\ tail' = IF tail = item[w] THEN NULL ELSE tail
    /\ Goto(w, IF tail = item[w] THEN "run" ELSE "advance")
    /\ UNCHANGED <<head, next, poolVars, item, link, ret>>

\* Once the successor is linked it becomes the head, and a further thread is
\* asked for before the item runs.
Advance(w) ==
    /\ pc[w] = "advance" /\ next[item[w]] # NULL
    /\ head' = next[item[w]]
    /\ Call(w, "run")
    /\ UNCHANGED <<tail, next, poolVars, item, link>>

\* The thread returns to the kernel, or rests until it is signalled.
Exit(w) ==
    /\ pc[w] = "exit"
    /\ IF kworkqueue THEN Goto(w, "gone") /\ UNCHANGED permits
       ELSE IF permits > 0 THEN permits' = permits - 1 /\ Goto(w, "start")
       ELSE Goto(w, "resting") /\ UNCHANGED permits
    /\ item' = [item EXCEPT ![w] = NULL]
    /\ UNCHANGED <<listVars, kworkqueue, pending, requests, poolSize, link, ret>>

\* 65 seconds passed.
TimeOut(w) ==
    /\ pc[w] = "resting"
    /\ Goto(w, "retire")
    /\ UNCHANGED <<listVars, poolVars, item, link, ret>>

\* Faulty variant: a thread that retires does not look at the list again.
Retire_Blind(w) ==
    /\ pc[w] = "retire"
    /\ poolSize' = poolSize + 1
    /\ Goto(w, "gone")
    /\ UNCHANGED <<listVars, kworkqueue, pending, requests, permits, item, link, ret>>

\* What was pushed while the pool was empty is looked for.
Retire(w) ==
    /\ pc[w] = "retire"
    /\ poolSize' = poolSize + 1
    /\ Call(w, "gone")
    /\ UNCHANGED <<listVars, kworkqueue, pending, requests, permits, item, link>>

\* A step of the queue's own that does not run an item.
RootStep(t) ==
    \/ Link(t) \/ SetHead(t) \/ Probe(t) \/ RequestThread(t)
    \/ SignalMediator(t) \/ CreateThread(t)
    \/ t \in Workers /\ \/ Start(t) \/ TakeHead(t) \/ UndoMediator(t)
                        \/ Successor(t) \/ TryTail(t) \/ Advance(t)
                        \/ Exit(t) \/ Retire(t)

\* No thread is about to do anything.
AtRest == /\ requests = 0
          /\ \A t \in Agents : pc[t] \in {"idle", "gone", "resting"}

\* The list never rests with an item on it, and a list at rest is one the next
\* push finds in order: no mediator left in its head, no head without a tail
\* (_dispatch_queue_concurrent_drain_one(), _dispatch_queue_wakeup_global()).
NothingLeftBehind == AtRest => tail = NULL /\ head = NULL

=============================================================================
