--------------------------- MODULE DispatchApply ---------------------------
(***************************************************************************)
(* dispatch_apply_f() of libdispatch (src/apply.c) on a root queue that is *)
(* also used by dispatch_async(): the caller pushes a list of records on   *)
(* its own stack, one for every further thread it can use, and calls the   *)
(* function itself; all of them draw indices from one counter, and the     *)
(* last to find none left signals the caller, whose stack frame then ends. *)
(***************************************************************************)
EXTENDS DispatchRootQueue

CONSTANTS Works,        \* continuations of dispatch_async()
          Iterations,   \* da_iterations of each client's call
          Cpus          \* cc_max_active

ASSUME ApplyAssumption ==
    /\ Iterations \in [Clients -> Nat]
    /\ Cpus \in Nat \ {0}
    /\ Items = Works \cup (Clients \X (1 .. Cpus - 1))
    /\ Works \cap (Clients \X (1 .. Cpus - 1)) = {}

Threads(c) == IF Iterations[c] < Cpus THEN Iterations[c] ELSE Cpus

VARIABLES
    frame,     \* whether the stack frame of a client's call exists
    index,     \* da_index
    count,     \* da_thr_cnt
    sema,      \* count of da_sema
    ran,       \* history: how often each index was passed to the function
    asyncs     \* what became of each continuation of dispatch_async()

callVars  == <<frame, index, count, sema, ran>>
applyVars == <<rootVars, callVars, asyncs>>

Init == /\ RootInit
        /\ frame = [c \in Clients |-> "none"]
        /\ index = [c \in Clients |-> 0]
        /\ count = [c \in Clients |-> 0]
        /\ sema = [c \in Clients |-> 0]
        /\ ran = [c \in Clients |-> [n \in 0 .. Iterations[c] - 1 |-> 0]]
        /\ asyncs = [w \in Works |-> "free"]

Async(c, w) ==
    /\ pc[c] = "idle" /\ asyncs[w] = "free"
    /\ PushList(c, <<w>>, "idle")
    /\ asyncs' = [asyncs EXCEPT ![w] = "pushed"]
    /\ UNCHANGED callVars

\* A call that has no use for a second thread is a loop in dispatch_sync_f().
Apply(c) ==
    /\ pc[c] = "idle" /\ frame[c] = "none" /\ Threads(c) > 1
    /\ frame' = [frame EXCEPT ![c] = "live"]
    /\ count' = [count EXCEPT ![c] = Threads(c)]
    /\ PushList(c, [i \in 1 .. Threads(c) - 1 |-> <<c, i>>], "invoke")
    /\ UNCHANGED <<index, sema, ran, asyncs>>

\* The call a thread works for: its own, or that of the record it took.
Caller(t) == IF t \in Clients THEN t ELSE item[t][1]

RunAsync(w) ==
    /\ pc[w] = "run" /\ item[w] \in Works
    /\ asyncs' = [asyncs EXCEPT ![item[w]] = "done"]
    /\ Goto(w, "drain")
    /\ UNCHANGED <<listVars, poolVars, item, link, ret, callVars>>

RunRecord(w) ==
    /\ pc[w] = "run" /\ item[w] \notin Works
    /\ Goto(w, "invoke")
    /\ UNCHANGED <<listVars, poolVars, item, link, ret, callVars, asyncs>>

\* _dispatch_apply_invoke(): draw an index and call the function with it.
Draw(t) ==
    LET c == Caller(t) IN
    /\ pc[t] = "invoke"
    /\ index' = [index EXCEPT ![c] = @ + 1]
    /\ IF index[c] < Iterations[c]
       THEN ran' = [ran EXCEPT ![c][index[c]] = @ + 1] /\ UNCHANGED pc
       ELSE Goto(t, "leave") /\ UNCHANGED ran
    /\ UNCHANGED <<listVars, poolVars, item, link, ret, frame, count, sema, asyncs>>

AfterInvoke(t) == IF t \in Clients THEN "join" ELSE "drain"

\* Faulty variant: the count is compared before it is decremented.
Leave_OffByOne(t) ==
    LET c == Caller(t) IN
    /\ pc[t] = "leave"
    /\ count' = [count EXCEPT ![c] = @ - 1]
    /\ Goto(t, IF count[c] - 1 <= 1 THEN "signal" ELSE AfterInvoke(t))
    /\ UNCHANGED <<listVars, poolVars, item, link, ret, frame, index, sema, ran, asyncs>>

Leave(t) ==
    LET c == Caller(t) IN
    /\ pc[t] = "leave"
    /\ count' = [count EXCEPT ![c] = @ - 1]
    /\ Goto(t, IF count[c] = 1 THEN "signal" ELSE AfterInvoke(t))
    /\ UNCHANGED <<listVars, poolVars, item, link, ret, frame, index, sema, ran, asyncs>>

SignalCaller(t) ==
    /\ pc[t] = "signal"
    /\ sema' = [sema EXCEPT ![Caller(t)] = @ + 1]
    /\ Goto(t, AfterInvoke(t))
    /\ UNCHANGED <<listVars, poolVars, item, link, ret, frame, index, count, ran, asyncs>>

\* The caller wakes and returns: its records are no more.
Join(c) ==
    /\ pc[c] = "join" /\ sema[c] > 0
    /\ sema' = [sema EXCEPT ![c] = @ - 1]
    /\ frame' = [frame EXCEPT ![c] = "gone"]
    /\ Goto(c, "idle")
    /\ UNCHANGED <<listVars, poolVars, item, link, ret, index, count, ran, asyncs>>

Begin(c) == Apply(c) \/ \E w \in Works : Async(c, w)

InvokeStep(t) == Draw(t) \/ Leave(t) \/ SignalCaller(t)

Continue(t) ==
    \/ RootStep(t) /\ UNCHANGED <<callVars, asyncs>>
    \/ t \in Workers /\ (RunAsync(t) \/ RunRecord(t))
    \/ InvokeStep(t)
    \/ t \in Clients /\ Join(t)

Kernel(w) == (Grant(w) \/ TimeOut(w)) /\ UNCHANGED <<callVars, asyncs>>

\* The process may end up with nothing to do.
Next == \/ \E c \in Clients : Begin(c)
        \/ \E t \in Agents : Continue(t)
        \/ \E w \in Workers : Kernel(w)

\* Threads that can run do, and the kernel starts the threads it is asked for;
\* whether a resting thread ever times out is left open.
Fairness == /\ \A t \in Agents : WF_applyVars(Continue(t))
            /\ WF_applyVars(\E w \in Workers : Grant(w) /\ UNCHANGED <<callVars, asyncs>>)

Spec == Init /\ [][Next]_applyVars /\ Fairness

-----------------------------------------------------------------------------
Returned(c) == frame[c] = "gone"

\* The records a thread may still read or write: the one it links to, the one
\* it is taking off the list, the call it draws indices for.
Touches(t) ==
    CASE pc[t] = "link" -> {link[t]}
      [] pc[t] \in {"successor", "trytail", "advance", "run"} -> {item[t]}
      [] pc[t] \in {"invoke", "leave"} /\ t \in Workers -> {item[t]}
      [] OTHER -> {}

\* No index is passed twice, all of them have been when dispatch_apply()
\* returns, and from then on no thread touches the records of its frame
\* although the root queue linked, moved and read them (apply.c, the drain).
AppliedOnce ==
    \A c \in Clients :
        /\ \A n \in DOMAIN ran[c] : ran[c][n] <= 1
        /\ Returned(c) => /\ \A n \in DOMAIN ran[c] : ran[c][n] = 1
                          /\ ~\E t \in Agents : \E i \in Touches(t) :
                                i \notin Works /\ i[1] = c

\* Every call of dispatch_apply() returns and every block submitted runs,
\* however the threads come and go.
EverythingRuns ==
    /\ \A c \in Clients : frame[c] = "live" ~> frame[c] = "gone"
    /\ \A w \in Works : asyncs[w] = "pushed" ~> asyncs[w] = "done"

=============================================================================
