----------------------------- MODULE CFRunLoop -----------------------------
(***************************************************************************)
(* A run loop of CoreFoundation (CFRunLoop.c): the passes of a run through *)
(* its mode - blocks, version 0 sources, sleep, the port that woke it -,   *)
(* runs nested in its callouts, and what other threads do to it meanwhile: *)
(* add, signal and invalidate sources, submit blocks, stop and wake it.    *)
(*                                                                         *)
(* The thread of the loop holds the loop's lock in some places; there      *)
(* other threads can only touch the sources, which have their own.         *)
(* Observers do nothing but have the lock dropped (and, of the kind that   *)
(* is told of the sleep, perhaps run the loop); timers are in another      *)
(* module.  A client wakes the loop up after whatever it did to it.        *)
(***************************************************************************)
EXTENDS Integers, Sequences, FiniteSets, SequencesExt

CONSTANTS Threads,       \* other than the loop's
          Modes, CommonModes,
          Sources,       \* version 0
          PortSources,   \* version 1, each with a port
          Blocks,
          Where,         \* the modes clients have them in
          Nesting,       \* kinds of callouts that may run the loop again
          Runs,          \* pairs: to return after a source was handled; the time limit
          MaxDepth,      \* of nested runs
          MaxCalls,      \* of the other threads
          NULL

ASSUME RunLoopAssumption == CommonModes \subseteq Modes
    /\ Where \in [Blocks \cup Sources \cup PortSources -> SUBSET Modes]
    /\ Runs \subseteq BOOLEAN \X {"now", "later", "never"}
                             /\ MaxDepth \in Nat /\ MaxCalls \in Nat

VARIABLES
    stack,        \* the activations of CFRunLoopRunSpecific(), innermost last
    blocks,       \* _blocks_head: the list of blocks
    sources,      \* _sources0 and _sources1 of each mode
    valid, signalled,   \* sources
    modeStopped,  \* modes with _stopped
    ports,        \* ports a message waits in; a queue holds one
    pc, arg,      \* what each other thread is about to do, and to which source and mode
    calls,        \* how many calls they made
    order         \* history: the blocks that have not run, as they were submitted

sourceVars == <<sources, valid, signalled>>
blockVars  == <<blocks, order>>
threadVars == <<pc, arg, calls>>
loopVars   == <<stack, blockVars, sourceVars, modeStopped, ports, threadVars>>

Depth == Len(stack)
Top == stack[Depth]
SetTop(f) == stack' = [stack EXCEPT ![Depth] = f]
GoTo(loc) == SetTop([Top EXCEPT !.at = loc])
At(loc) == stack # <<>> /\ Top.at = loc /\ Top.calling = NULL

\* Where the loop's thread has dropped the lock.
Unlocked == stack # <<>> => Top.at \in {"entry", "before", "blocks", "sources",
    "waiting", "asleep", "woken", "after", "main", "port", "exit"}

\* __CFRunLoopRun() serves the main queue unless a callout of that queue runs.
ServesMain(m) == m \in CommonModes /\ \A d \in 1 .. Depth : stack[d].at # "main"

Runnable(m) == {b \in ToSet(blocks) : m \in Where[b]}
ModeIsEmpty(m) == ~ServesMain(m) /\ sources[m] = {} /\ Runnable(m) = {}

Frame(m, once, limit) ==
    [mode |-> m, once |-> once, expired |-> limit = "now", limited |-> limit = "later",
     serves |-> ServesMain(m), at |-> "entry", calling |-> NULL,
     stopped |-> FALSE, ignoring |-> FALSE,    \* _perRunData
     pass |-> 1, taken |-> <<>>, todo |-> {}, handled |-> FALSE, poll |-> FALSE,
     live |-> NULL, served |-> TRUE]

Init == /\ stack = <<>> /\ blocks = <<>> /\ order = <<>>
        /\ sources \in {f \in [Modes -> SUBSET (Sources \cup PortSources)] :
                            \A m \in Modes : \A s \in f[m] : m \in Where[s]}
        /\ valid = Sources \cup PortSources /\ signalled \in SUBSET Sources
        /\ modeStopped = {} /\ ports = {}
        /\ pc = [t \in Threads |-> "idle"] /\ arg = [t \in Threads |-> <<NULL, NULL>>]
        /\ calls = 0

-----------------------------------------------------------------------------
(* The activation                                                          *)

\* The callout the innermost run is in, if it may run the loop.
Kind == IF Top.at = "waiting" THEN "observer" ELSE Top.at
MayRun == stack # <<>> => Kind \in Nesting /\ (Top.calling # NULL \/ Top.at = "waiting")

\* CFRunLoopRunInMode() of a mode that is not empty: an activation with
\* per-run data of its own.
Run(m, once, limit) ==
    /\ MayRun /\ Depth < MaxDepth /\ ~ModeIsEmpty(m)
    /\ stack' = Append(stack, Frame(m, once, limit))
    /\ UNCHANGED <<blockVars, sourceVars, modeStopped, ports, threadVars>>

\* A stop that came first ends the run before its first pass.
Enter ==
    /\ At("entry")
    /\ \/ Top.stopped /\ SetTop([Top EXCEPT !.stopped = FALSE, !.at = "exit"])
          /\ UNCHANGED modeStopped
       \/ /\ ~Top.stopped /\ Top.mode \in modeStopped
          /\ modeStopped' = modeStopped \ {Top.mode} /\ GoTo("exit")
       \/ /\ ~Top.stopped /\ Top.mode \notin modeStopped
          /\ GoTo("before") /\ UNCHANGED modeStopped
    /\ UNCHANGED <<blockVars, sourceVars, ports, threadVars>>

\* Observers have run; DoBlocks takes the whole list, if there is one.
AfterBlocks == CASE Top.pass = 1 -> "collect" [] Top.pass = 2 -> "poll" [] OTHER -> "decide"
Before == /\ At("before")
          /\ SetTop([Top EXCEPT !.at = "take", !.pass = 1])
          /\ UNCHANGED <<blockVars, sourceVars, modeStopped, ports, threadVars>>
TakeBlocks ==
    /\ At("take")
    /\ SetTop([Top EXCEPT !.taken = blocks,
                          !.at = IF blocks = <<>> THEN AfterBlocks ELSE "blocks"])
    /\ blocks' = <<>>
    /\ UNCHANGED <<order, sourceVars, modeStopped, ports, threadVars>>

\* The blocks of this mode are called in order, without the lock.
Eligible == {i \in DOMAIN Top.taken : Top.mode \in Where[Top.taken[i]]}
RunBlock ==
    /\ At("blocks") /\ Eligible # {}
    /\ LET i == CHOOSE n \in Eligible : \A k \in Eligible : n <= k IN
       /\ SetTop([Top EXCEPT !.taken = RemoveAt(@, i), !.calling = Top.taken[i]])
       /\ order' = RemoveFirst(order, Top.taken[i])
    /\ UNCHANGED <<blocks, sourceVars, modeStopped, ports, threadVars>>

\* Faulty variant: what was not run is put behind what was submitted meanwhile.
PutBack_Behind ==
    /\ At("blocks") /\ Eligible = {}
    /\ blocks' = blocks \o Top.taken
    /\ SetTop([Top EXCEPT !.taken = <<>>, !.at = AfterBlocks])
    /\ UNCHANGED <<order, sourceVars, modeStopped, ports, threadVars>>

\* The others go back in front of what was submitted meanwhile.
PutBack ==
    /\ At("blocks") /\ Eligible = {}
    /\ blocks' = Top.taken \o blocks
    /\ SetTop([Top EXCEPT !.taken = <<>>, !.at = AfterBlocks])
    /\ UNCHANGED <<order, sourceVars, modeStopped, ports, threadVars>>

Collect ==
    /\ At("collect")
    /\ LET ready == sources[Top.mode] \cap Sources \cap valid \cap signalled IN
       SetTop([Top EXCEPT !.todo = ready,
                          !.at = IF ready = {} THEN "poll" ELSE "sources"])
    /\ UNCHANGED <<blockVars, sourceVars, modeStopped, ports, threadVars>>

\* A nested run or another thread may have got at the source since.
Perform(s) ==
    /\ At("sources") /\ s \in Top.todo
    /\ signalled' = signalled \ {s}
    /\ SetTop(IF s \in signalled \cap valid
              THEN [Top EXCEPT !.todo = IF Top.once THEN {} ELSE @ \ {s},
                               !.handled = TRUE, !.calling = s]
              ELSE [Top EXCEPT !.todo = @ \ {s}])
    /\ UNCHANGED <<blockVars, sources, valid, modeStopped, ports, threadVars>>

SourcesDone ==
    /\ At("sources") /\ Top.todo = {}
    /\ SetTop([Top EXCEPT !.at = IF Top.handled THEN "take" ELSE "poll", !.pass = 2])
    /\ UNCHANGED <<blockVars, sourceVars, modeStopped, ports, threadVars>>

\* The main queue is looked at before the sleep, but not twice in a row.
Poll ==
    /\ At("poll")
    /\ LET poll == Top.handled \/ Top.expired IN
       IF Top.serves /\ ~Top.served /\ "main" \in ports
       THEN /\ ports' = ports \ {"main"}
            /\ SetTop([Top EXCEPT !.poll = poll, !.live = "main", !.at = "handle"])
       ELSE /\ SetTop([Top EXCEPT !.poll = poll, !.served = FALSE,
                                  !.at = IF poll THEN "asleep" ELSE "waiting"])
            /\ UNCHANGED ports
    /\ UNCHANGED <<blockVars, sourceVars, modeStopped, threadVars>>

Sleep == At("waiting") /\ GoTo("asleep")
         /\ UNCHANGED <<blockVars, sourceVars, modeStopped, ports, threadVars>>

WaitSet(f) == {"wakeup"} \cup (sources[f.mode] \cap PortSources)
                \cup (IF f.serves THEN {"main"} ELSE {})

\* mach_msg() returns with a message, or empty-handed if it only polled.
Receive ==
    /\ At("asleep")
    /\ \/ \E p \in ports \cap WaitSet(Top) :
             /\ ports' = ports \ {p}
             /\ SetTop([Top EXCEPT !.live = p, !.at = "woken"])
       \/ /\ Top.poll /\ ports \cap WaitSet(Top) = {}
          /\ SetTop([Top EXCEPT !.live = NULL, !.at = "woken"])
          /\ UNCHANGED ports
    /\ UNCHANGED <<blockVars, sourceVars, modeStopped, threadVars>>

Wake ==
    /\ At("woken")
    /\ SetTop([Top EXCEPT !.ignoring = TRUE,
                          !.at = IF Top.poll THEN "handle" ELSE "after"])
    /\ UNCHANGED <<blockVars, sourceVars, modeStopped, ports, threadVars>>
After == At("after") /\ GoTo("handle")
         /\ UNCHANGED <<blockVars, sourceVars, modeStopped, ports, threadVars>>

\* A message of the main queue runs its blocks, that of a version 1 source
\* performs it; a mere wake-up has done its work.
Handle ==
    /\ At("handle")
    /\ LET f == [Top EXCEPT !.ignoring = TRUE, !.pass = 3, !.live = NULL, !.poll = FALSE] IN
       \/ /\ Top.live \in {NULL, "wakeup"} \cup (PortSources \ sources[Top.mode])
          /\ SetTop([f EXCEPT !.at = "take"])
       \/ /\ Top.live = "main"
          /\ SetTop([f EXCEPT !.at = "main", !.calling = "main",
                              !.handled = TRUE, !.served = TRUE])
       \/ /\ Top.live \in sources[Top.mode]
          /\ SetTop([f EXCEPT !.at = "port",
                              !.calling = IF Top.live \in valid THEN Top.live ELSE NULL,
                              !.handled = @ \/ Top.live \in valid])
    /\ UNCHANGED <<blockVars, sourceVars, modeStopped, ports, threadVars>>
Handled == (At("main") \/ At("port")) /\ GoTo("take")
           /\ UNCHANGED <<blockVars, sourceVars, modeStopped, ports, threadVars>>

\* Faulty variant: a source is not signalled any more after it was performed.
EndCallout_Unsignals ==
    /\ stack # <<>> /\ Top.calling # NULL
    /\ SetTop([Top EXCEPT !.calling = NULL])
    /\ signalled' = signalled \ {Top.calling}
    /\ UNCHANGED <<blockVars, sources, valid, modeStopped, ports, threadVars>>

\* The callout returns.
EndCallout == /\ stack # <<>> /\ Top.calling # NULL
              /\ SetTop([Top EXCEPT !.calling = NULL])
              /\ UNCHANGED <<blockVars, sourceVars, modeStopped, ports, threadVars>>

\* Faulty variant: wake-ups are not listened to again.
Decide_Deaf ==
    /\ At("decide")
    /\ \/ /\ (Top.handled /\ Top.once) \/ Top.expired
          /\ GoTo("exit") /\ UNCHANGED modeStopped
       \/ /\ ~(Top.handled /\ Top.once) /\ ~Top.expired
          /\ \/ /\ Top.stopped
                /\ SetTop([Top EXCEPT !.stopped = FALSE, !.at = "exit"])
                /\ UNCHANGED modeStopped
             \/ /\ ~Top.stopped /\ Top.mode \in modeStopped
                /\ modeStopped' = modeStopped \ {Top.mode} /\ GoTo("exit")
             \/ /\ ~Top.stopped /\ Top.mode \notin modeStopped
                /\ IF ModeIsEmpty(Top.mode) THEN GoTo("exit")
                   ELSE SetTop([Top EXCEPT !.handled = FALSE,
                                                         !.at = "before"])
                /\ UNCHANGED modeStopped
    /\ UNCHANGED <<blockVars, sourceVars, ports, threadVars>>

\* Why the run may end; otherwise the next pass listens to wake-ups again.
Decide ==
    /\ At("decide")
    /\ \/ /\ (Top.handled /\ Top.once) \/ Top.expired
          /\ GoTo("exit") /\ UNCHANGED modeStopped
       \/ /\ ~(Top.handled /\ Top.once) /\ ~Top.expired
          /\ \/ /\ Top.stopped
                /\ SetTop([Top EXCEPT !.stopped = FALSE, !.at = "exit"])
                /\ UNCHANGED modeStopped
             \/ /\ ~Top.stopped /\ Top.mode \in modeStopped
                /\ modeStopped' = modeStopped \ {Top.mode} /\ GoTo("exit")
             \/ /\ ~Top.stopped /\ Top.mode \notin modeStopped
                /\ IF ModeIsEmpty(Top.mode) THEN GoTo("exit")
                   ELSE SetTop([Top EXCEPT !.ignoring = FALSE, !.handled = FALSE,
                                                         !.at = "before"])
                /\ UNCHANGED modeStopped
    /\ UNCHANGED <<blockVars, sourceVars, ports, threadVars>>

\* The exit observers have run; the run before is the current one again.
Exit == /\ At("exit")
        /\ stack' = Front(stack)
        /\ UNCHANGED <<blockVars, sourceVars, modeStopped, ports, threadVars>>

-----------------------------------------------------------------------------
(* Other threads                                                           *)

ThenOn(t, loc, s, m) == /\ pc' = [pc EXCEPT ![t] = loc]
                        /\ arg' = [arg EXCEPT ![t] = <<s, m>>]
                        /\ calls' = IF pc[t] = "idle" THEN calls + 1 ELSE calls
Then(t, loc) == ThenOn(t, loc, NULL, NULL)
MayCall(t) == pc[t] = "idle" /\ calls < MaxCalls

\* CFRunLoopWakeUp(): dropped while the innermost run ignores wake-ups.
WakeUp(t) ==
    /\ pc[t] = "wake" /\ Unlocked
    /\ ports' = IF stack # <<>> /\ Top.ignoring THEN ports ELSE ports \cup {"wakeup"}
    /\ Then(t, "idle")
    /\ UNCHANGED <<stack, blockVars, sourceVars, modeStopped>>

\* The handler of the run's timer.
Expire(t, d) ==
    /\ MayCall(t) /\ d <= Depth /\ stack[d].limited /\ ~stack[d].expired
    /\ stack' = [stack EXCEPT ![d].expired = TRUE]
    /\ Then(t, "wake")
    /\ UNCHANGED <<blockVars, sourceVars, modeStopped, ports>>

Stop(t) ==
    /\ MayCall(t) /\ Unlocked /\ stack # <<>>
    /\ SetTop([Top EXCEPT !.stopped = TRUE])
    /\ Then(t, "wake")
    /\ UNCHANGED <<blockVars, sourceVars, modeStopped, ports>>

StopMode(t, m) ==
    /\ MayCall(t) /\ Unlocked
    /\ modeStopped' = modeStopped \cup {m}
    /\ Then(t, "wake")
    /\ UNCHANGED <<stack, blockVars, sourceVars, ports>>

PerformBlock(t, b) ==
    /\ MayCall(t) /\ Unlocked /\ b \notin ToSet(order)
    /\ blocks' = Append(blocks, b) /\ order' = Append(order, b)
    /\ Then(t, "wake")
    /\ UNCHANGED <<stack, sourceVars, modeStopped, ports>>

\* Validity is looked at before the lock is taken.
AddSource(t, s, m) ==
    /\ MayCall(t) /\ s \in valid
    /\ ThenOn(t, "insert", s, m)
    /\ UNCHANGED <<stack, blockVars, sourceVars, modeStopped, ports>>
Insert(t) ==
    /\ pc[t] = "insert" /\ Unlocked
    /\ sources' = [sources EXCEPT ![arg[t][2]] = @ \cup {arg[t][1]}]
    /\ Then(t, "wake")
    /\ UNCHANGED <<stack, blockVars, valid, signalled, modeStopped, ports>>

RemoveSource(t, s, m) ==
    /\ MayCall(t) /\ Unlocked /\ s \in sources[m]
    /\ sources' = [sources EXCEPT ![m] = @ \ {s}]
    /\ Then(t, "wake")
    /\ UNCHANGED <<stack, blockVars, valid, signalled, modeStopped, ports>>

\* CFRunLoopSourceInvalidate(), first under the lock of the source, then
\* under that of the loop if the source was in it.
Invalidate(t, s) ==
    /\ MayCall(t) /\ s \in valid
    /\ valid' = valid \ {s} /\ signalled' = signalled \ {s}
    /\ IF \E m \in Modes : s \in sources[m]
       THEN ThenOn(t, "discard", s, NULL)
       ELSE UNCHANGED threadVars
    /\ UNCHANGED <<stack, blockVars, sources, modeStopped, ports>>
Discard(t) ==
    /\ pc[t] = "discard" /\ Unlocked
    /\ sources' = [m \in Modes |-> sources[m] \ {arg[t][1]}]
    /\ Then(t, "wake")
    /\ UNCHANGED <<stack, blockVars, valid, signalled, modeStopped, ports>>

Signal(t, s) ==
    /\ MayCall(t) /\ s \in valid
    /\ signalled' = signalled \cup {s}
    /\ Then(t, "wake")
    /\ UNCHANGED <<stack, blockVars, sources, valid, modeStopped, ports>>

\* A message to a version 1 source or to the port of the main queue.
Send(t, p) ==
    /\ MayCall(t) /\ p \notin ports
    /\ ports' = ports \cup {p}
    /\ Then(t, "idle")
    /\ UNCHANGED <<stack, blockVars, sourceVars, modeStopped>>

-----------------------------------------------------------------------------
LoopStep ==
    \/ Enter \/ Before \/ TakeBlocks \/ RunBlock \/ PutBack \/ Collect
    \/ (\E s \in Sources : Perform(s)) \/ SourcesDone \/ Poll \/ Sleep \/ Receive
    \/ Wake \/ After \/ Handle \/ Handled \/ EndCallout \/ Decide \/ Exit

Finish(t) == WakeUp(t) \/ Insert(t) \/ Discard(t)

Call(t) ==
    \/ \E d \in 1 .. MaxDepth : Expire(t, d)
    \/ Stop(t)
    \/ \E m \in Modes : StopMode(t, m)
    \/ \E b \in Blocks : PerformBlock(t, b)
    \/ \E s \in Sources \cup PortSources :
          \/ Invalidate(t, s)
          \/ \E m \in Where[s] : AddSource(t, s, m) \/ RemoveSource(t, s, m)
    \/ \E s \in Sources : Signal(t, s)
    \/ \E p \in PortSources \cup {"main"} : Send(t, p)

Next == \/ \E m \in Modes, r \in Runs : Run(m, r[1], r[2])
        \/ LoopStep
        \/ \E t \in Threads : Call(t) \/ Finish(t)

\* The loop's thread and the others are scheduled and callouts return.
Fairness == WF_loopVars(LoopStep) /\ \A t \in Threads : WF_loopVars(Finish(t))

Spec == Init /\ [][Next]_loopVars /\ Fairness

-----------------------------------------------------------------------------
\* The run sleeps and only a message could wake it.
Dormant == At("asleep") /\ ~Top.poll /\ ports \cap WaitSet(Top) = {}

\* Wake-ups are dropped, merged in a queue of one and taken by whatever run is
\* the innermost, and still: when the loop sleeps and nobody is about to wake
\* it up, it has no block, signalled source, stop or time-out to attend
\* to (CFRunLoopWakeUp(), __CFRunLoopRun()).
NeverSleepsThroughWork ==
    Dormant /\ (\A t \in Threads : pc[t] = "idle") =>
        /\ ~Top.stopped /\ ~Top.expired /\ Top.mode \notin modeStopped
        /\ Runnable(Top.mode) = {}
        /\ sources[Top.mode] \cap signalled \cap valid = {}

\* The list, taken by a run and put back, and all that was submitted meanwhile
\* are what has not run of the blocks submitted, in their order
\* (__CFRunLoopDoBlocks()).
BlocksKeptInOrder ==
    FlattenSeq([d \in 1 .. Depth |-> stack[d].taken]) \o blocks = order

\* While the loop runs the mode of a source, its signal is answered by a call
\* of its perform function that begins after it, whatever wake-ups are dropped
\* (__CFRunLoopDoSources0(), CFRunLoopWakeUp()).
SignalsServed ==
    \A s \in Sources :
        s \in signalled ~> \/ stack # <<>> /\ Top.calling = s /\ s \notin signalled
                           \/ s \notin valid
                           \/ Depth # 1 \/ s \notin sources[stack[1].mode]

=============================================================================
