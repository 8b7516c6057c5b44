-------------------------- MODULE CFRunLoopTimers --------------------------
(***************************************************************************)
(* The timers of a run loop (CFRunLoop.c).  Each mode has its timers in    *)
(* the order of their dates and one kernel timer, armed for the earliest   *)
(* of them that is not firing; the deadlines it was last armed for are     *)
(* remembered so that it is not armed again in vain.  The loop's thread    *)
(* calls the timers that are due, without the lock, and may run the loop   *)
(* again while it does; other threads add, remove, reschedule and          *)
(* invalidate timers.                                                      *)
(***************************************************************************)
EXTENDS TimerLists, FiniteSets, FiniteSetsExt

CONSTANTS Threads, Modes, Timers,
          Interval,     \* of each timer; zero if it does not repeat
          Tolerance,    \* of each timer
          Placed,       \* the modes each timer is in at first
          Calls,        \* what clients do, to which timer: pairs
          MaxTime,      \* of the clock
          MaxDepth,     \* of nested runs
          MaxCalls,     \* of the clients
          NULL

ASSUME TimersAssumption ==
    /\ IsFiniteSet(Timers)
    /\ Interval \in [Timers -> Nat] /\ Tolerance \in [Timers -> Nat]
    /\ Placed \in [Timers -> SUBSET Modes]
    /\ Calls \subseteq {"add", "remove", "set", "invalidate"} \X Timers
    /\ MaxTime \in Nat /\ MaxDepth \in Nat /\ MaxCalls \in Nat

VARIABLES
    now,
    valid,        \* timers
    firing,       \* timers
    deadlines,    \* of each mode: the _timerSoftDeadline and _timerHardDeadline
    armed,        \* of each mode: what its kernel timer is armed for
    rung,         \* modes whose kernel timer has a message waiting
    stack,        \* the loop's runs, innermost last
    job,          \* what each client's call has left to do
    calls

listVars  == <<timers, fire, valid>>
armVars   == <<deadlines, armed>>
timerVars == <<now, listVars, firing, armVars, rung, stack, job, calls>>

Depth == Len(stack)
Top == stack[Depth]
SetTop(f) == stack' = [stack EXCEPT ![Depth] = f]
At(loc) == stack # <<>> /\ Top.at = loc
Unlocked == stack # <<>> => Top.at # "timers"

ModesOf(t) == {m \in Modes : t \in ToSet(timers[m])}    \* _rlModes

NoDeadline == <<MaxTime + 10, MaxTime + 10>>

Idle == [what |-> "idle", timer |-> NULL, date |-> 0, modes |-> {}]

-----------------------------------------------------------------------------
(* The lists                                                               *)

\* The soft and the hard deadline: the first date, and the last by which none
\* of the timers is out of its tolerance.
Deadlines(list, date, busy) ==
    LET live == SelectSeq(list, LAMBDA t : t \notin busy)
        near == {i \in DOMAIN live : \A j \in 1 .. i - 1 :
                    date[live[i]] <= date[live[j]] + Tolerance[live[j]]}
    IN IF near = {} THEN NoDeadline
       ELSE <<Min({date[live[i]] : i \in near}),
              Min({date[live[i]] + Tolerance[live[i]] : i \in near})>>

\* __CFArmNextTimerInMode() in some modes, after the lists, the dates and the
\* set of firing timers became these, with these deadlines remembered.
Arm(ms, lists, date, busy, known) ==
    LET d == [m \in Modes |-> IF m \in ms THEN Deadlines(lists[m], date, busy) ELSE known[m]]
    IN /\ deadlines' = d
       /\ armed' = [m \in Modes |-> IF m \notin ms \/ (d[m] = known[m] /\ d[m] # NoDeadline)
                                    THEN armed[m] ELSE d[m]]

\* The timer has another date and moves in the lists of some modes.
Reposition(t, ms, d, busy) ==
    LET date  == [fire EXCEPT ![t] = d]
        in    == ms \cap ModesOf(t)
        lists == [m \in Modes |-> IF m \in in THEN InsertInOrder(RemoveFirst(timers[m], t), t, date)
                                  ELSE timers[m]]
    IN /\ timers' = lists /\ fire' = date
       /\ Arm(in, lists, date, busy, deadlines)

Discard(t, ms) ==
    LET lists == [m \in Modes |-> IF m \in ms THEN RemoveFirst(timers[m], t) ELSE timers[m]]
    IN timers' = lists /\ Arm(ms \cap ModesOf(t), lists, fire, firing, deadlines)

Init ==
    /\ now = 0 /\ fire = [t \in Timers |-> 1] /\ valid = Timers /\ firing = {}
    /\ timers = [m \in Modes |-> SetToSeq({t \in Timers : m \in Placed[t]})]
    /\ deadlines = [m \in Modes |-> Deadlines(timers[m], fire, {})]
    /\ armed = deadlines
    /\ rung = {} /\ stack = <<>> /\ calls = 0
    /\ job = [c \in Threads |-> Idle]

-----------------------------------------------------------------------------
(* The loop                                                                *)

Run(m) ==
    /\ stack # <<>> => Top.at = "callout"
    /\ Depth < MaxDepth
    /\ stack' = Append(stack, [mode |-> m, at |-> "asleep", todo |-> <<>>, timer |-> NULL,
                               old |-> 0, modes |-> {}, handled |-> FALSE])
    /\ UNCHANGED <<now, listVars, firing, armVars, rung, job, calls>>

Leave == /\ At("asleep")
         /\ stack' = Front(stack)
         /\ UNCHANGED <<now, listVars, firing, armVars, rung, job, calls>>

Due(m) == SelectSeq(timers[m], LAMBDA t : t \in valid \ firing /\ fire[t] <= now)

\* The message wakes the loop up; if no timer is handled the next is armed.
Receive ==
    /\ At("asleep") /\ Top.mode \in rung
    /\ rung' = rung \ {Top.mode}
    /\ IF Due(Top.mode) = <<>>
       THEN Arm({Top.mode}, timers, fire, firing, deadlines) /\ UNCHANGED stack
       ELSE /\ SetTop([Top EXCEPT !.at = "timers", !.todo = Due(Top.mode)])
            /\ UNCHANGED armVars
    /\ UNCHANGED <<now, listVars, firing, job, calls>>

\* A callout before it, or another thread that made it invalid, may have dealt
\* with the timer.
Skip ==
    /\ At("timers") /\ Top.todo # <<>>
    /\ LET t == Head(Top.todo) IN t \notin valid \/ fire[t] > now \/ ModesOf(t) = {}
    /\ SetTop([Top EXCEPT !.todo = Tail(@)])
    /\ UNCHANGED <<now, listVars, firing, armVars, rung, job, calls>>

\* Faulty variant: the deadlines are not forgotten first.
Fire_KeepsDeadlines ==
    /\ At("timers") /\ Top.todo # <<>>
    /\ LET t == Head(Top.todo) IN
       /\ t \in valid \ firing /\ fire[t] <= now /\ ModesOf(t) # {}
       /\ firing' = firing \cup {t}
       /\ Arm({Top.mode}, timers, fire, firing', deadlines)
       /\ SetTop([Top EXCEPT !.at = "callout", !.timer = t, !.old = fire[t],
                             !.todo = Tail(@), !.handled = TRUE])
    /\ UNCHANGED <<now, listVars, rung, job, calls>>

\* The deadlines are forgotten first, since the next timer may have the same.
Fire ==
    /\ At("timers") /\ Top.todo # <<>>
    /\ LET t == Head(Top.todo) IN
       /\ t \in valid \ firing /\ fire[t] <= now /\ ModesOf(t) # {}
       /\ firing' = firing \cup {t}
       /\ Arm({Top.mode}, timers, fire, firing', [deadlines EXCEPT ![Top.mode] = NoDeadline])
       /\ SetTop([Top EXCEPT !.at = "callout", !.timer = t, !.old = fire[t],
                             !.todo = Tail(@), !.handled = TRUE])
    /\ UNCHANGED <<now, listVars, rung, job, calls>>

\* After the callout a timer that does not repeat is invalidated, first on its
\* own and then, under the loop's lock, in the modes it was in.
Expire ==
    /\ At("callout") /\ Interval[Top.timer] = 0
    /\ SetTop([Top EXCEPT !.at = "removing",
                          !.modes = IF Top.timer \in valid THEN ModesOf(Top.timer) ELSE {}])
    /\ valid' = valid \ {Top.timer}
    /\ UNCHANGED <<now, timers, fire, firing, armVars, rung, job, calls>>
Removed ==
    /\ At("removing")
    /\ Discard(Top.timer, Top.modes)
    /\ SetTop([Top EXCEPT !.at = "returned", !.modes = {}])
    /\ UNCHANGED <<now, fire, valid, firing, rung, job, calls>>

\* The next date after now that is a multiple of the interval away.
NextDate(t, d) == d + Interval[t] * ((now - d) \div Interval[t] + 1)

Resume ==
    /\ firing' = firing \ {Top.timer}
    /\ SetTop([Top EXCEPT !.at = "timers", !.timer = NULL, !.old = 0])
    /\ UNCHANGED <<now, valid, rung, job, calls>>

\* The callout was not for the last time.  A later date that was set meanwhile
\* is honoured; else the timer gets its next date, in every mode.
Return ==
    /\ At("callout") /\ Interval[Top.timer] # 0
    /\ LET t == Top.timer
           idle == firing \ {t}
       IN \/ /\ t \in valid /\ fire[t] > Top.old
             /\ Arm({Top.mode}, timers, fire, idle, deadlines) /\ UNCHANGED <<timers, fire>>
          \/ /\ t \in valid /\ fire[t] <= Top.old
             /\ Reposition(t, Modes, NextDate(t, Top.old), idle)
          \/ t \notin valid /\ UNCHANGED <<timers, fire, armVars>>
    /\ Resume

Finish == At("returned") /\ Resume /\ UNCHANGED <<timers, fire, armVars>>

\* The list is done.  If no timer on it was handled, because others had dealt
\* with them, the next is armed.
Done == /\ At("timers") /\ Top.todo = <<>>
        /\ IF Top.handled THEN UNCHANGED armVars
           ELSE Arm({Top.mode}, timers, fire, firing, deadlines)
        /\ SetTop([Top EXCEPT !.at = "asleep", !.handled = FALSE])
        /\ UNCHANGED <<now, listVars, firing, rung, job, calls>>

-----------------------------------------------------------------------------
(* The kernel                                                              *)

Tick == /\ now < MaxTime /\ now' = now + 1
        /\ UNCHANGED <<listVars, firing, armVars, rung, stack, job, calls>>

Ring(m) ==
    /\ armed[m][1] <= now
    /\ rung' = rung \cup {m} /\ armed' = [armed EXCEPT ![m] = NoDeadline]
    /\ UNCHANGED <<now, listVars, firing, deadlines, stack, job, calls>>

-----------------------------------------------------------------------------
(* Clients                                                                 *)

MayCall(c, what, t) == job[c] = Idle /\ calls < MaxCalls /\ <<what, t>> \in Calls
Begin(c, what, t, d, ms) ==
    /\ job' = [job EXCEPT ![c] = [what |-> what, timer |-> t, date |-> d, modes |-> ms]]
    /\ calls' = calls + 1
End(c) == job' = [job EXCEPT ![c] = Idle] /\ UNCHANGED calls

\* Validity is looked at before the lock is taken.
AddTimer(c, t, m) ==
    /\ MayCall(c, "add", t) /\ t \in valid
    /\ Begin(c, "add", t, 0, {m})
    /\ UNCHANGED <<now, listVars, firing, armVars, rung, stack>>
Added(c) ==
    /\ job[c].what = "add" /\ Unlocked
    /\ LET t == job[c].timer
           new == job[c].modes \ ModesOf(t)
           lists == [m \in Modes |-> IF m \in new THEN InsertInOrder(timers[m], t, fire) ELSE timers[m]]
       IN timers' = lists /\ Arm(new, lists, fire, firing, deadlines)
    /\ End(c)
    /\ UNCHANGED <<now, fire, valid, firing, rung, stack>>

RemoveTimer(c, t, m) ==
    /\ MayCall(c, "remove", t) /\ Unlocked /\ m \in ModesOf(t)
    /\ Discard(t, {m})
    /\ calls' = calls + 1
    /\ UNCHANGED <<now, fire, valid, firing, rung, stack, job>>

\* CFRunLoopTimerSetNextFireDate() notes the modes and then locks the loop.
SetNextFireDate(c, t, d) ==
    /\ MayCall(c, "set", t) /\ t \in valid /\ d >= now
    /\ IF ModesOf(t) = {}
       THEN fire' = [fire EXCEPT ![t] = d] /\ calls' = calls + 1 /\ UNCHANGED job
       ELSE Begin(c, "set", t, d, ModesOf(t)) /\ UNCHANGED fire
    /\ UNCHANGED <<now, timers, valid, firing, armVars, rung, stack>>
DateSet(c) ==
    /\ job[c].what = "set" /\ Unlocked
    /\ Reposition(job[c].timer, job[c].modes, job[c].date, firing)
    /\ End(c)
    /\ UNCHANGED <<now, valid, firing, rung, stack>>

\* CFRunLoopTimerInvalidate()
Invalidate(c, t) ==
    /\ MayCall(c, "invalidate", t) /\ t \in valid
    /\ valid' = valid \ {t}
    /\ Begin(c, "invalidate", t, 0, ModesOf(t))
    /\ UNCHANGED <<now, timers, fire, firing, armVars, rung, stack>>
Invalidated(c) ==
    /\ job[c].what = "invalidate" /\ Unlocked
    /\ Discard(job[c].timer, job[c].modes)
    /\ End(c)
    /\ UNCHANGED <<now, fire, valid, firing, rung, stack>>

-----------------------------------------------------------------------------
LoopStep == Receive \/ Skip \/ Fire \/ Expire \/ Removed \/ Return \/ Finish \/ Done

Finishing(c) == Added(c) \/ DateSet(c) \/ Invalidated(c)

Next ==
    \/ LoopStep \/ Leave \/ Tick
    \/ \E m \in Modes : Run(m) \/ Ring(m)
    \/ \E c \in Threads : Finishing(c)
    \/ \E c \in Threads, t \in Timers :
          \/ Invalidate(c, t)
          \/ \E m \in Modes : AddTimer(c, t, m) \/ RemoveTimer(c, t, m)
          \/ \E d \in now .. MaxTime + 1 : SetNextFireDate(c, t, d)

Spec == Init /\ [][Next]_timerVars

-----------------------------------------------------------------------------
\* Whenever the lock is free, a mode's kernel timer has just gone off or is
\* armed for no later than the first of its timers that is not firing, unless
\* an invalid one is about to be removed (__CFArmNextTimerInMode() with its
\* remembered deadlines, __CFRunLoopDoTimer()).
ArmedForEarliest ==
    Unlocked => \A m \in Modes :
        LET waiting == ToSet(timers[m]) \ firing IN
        waiting \subseteq valid =>
            m \in rung \/ \A t \in waiting : armed[m][1] <= fire[t]

=============================================================================
