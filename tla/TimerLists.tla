----------------------------- MODULE TimerLists -----------------------------
(***************************************************************************)
(* The lists of timers of a run loop's modes (CFRunLoop.c): each is kept   *)
(* in the order of the dates, and a bisection finds the place of a timer.  *)
(* What changes the lists is in CFRunLoopTimers.                           *)
(***************************************************************************)
EXTENDS Integers, Sequences, SequencesExt

VARIABLES
    timers,       \* _timers of each mode
    fire          \* _fireTSR of each timer

\* A number that is reached from 1 by doubling.
PowerOfTwo(p) ==
    \E S \in SUBSET (1 .. p) : /\ p \in S
                              /\ \A q \in S \ {1} : \E h \in S : q = 2 * h

\* The first step, 1 << flsl(count): the least power of two above the count.
FirstStep(n) == CHOOSE p \in n + 1 .. 2 * n : PowerOfTwo(p)

\* In a long list the ends are looked at first.
BehindAll(list, date, d) == 256 < Len(list) /\ date[list[Len(list)]] <= d
BeforeAll(list, date, d) == /\ 256 < Len(list) /\ ~BehindAll(list, date, d)
                            /\ d < date[list[1]]

\* Faulty variant: the last probe does not count.
InsertionIndex_Short(list, date, d) ==
    LET probe[add \in 0 .. FirstStep(Len(list))] ==
            [idx \in 0 .. Len(list) |->
                LET hit == idx + add < Len(list) /\ date[list[idx + add + 1]] <= d
                    at  == IF hit THEN idx + add ELSE idx
                IN IF add = 0 THEN at ELSE probe[add \div 2][at]]
    IN IF list = <<>> \/ BeforeAll(list, date, d) THEN 0
       ELSE IF BehindAll(list, date, d) THEN Len(list)
       ELSE probe[FirstStep(Len(list))][0]

\* Bisection for the number of timers that stay before one with date d: each
\* step from the index is half the one before, down to 0.
InsertionIndex(list, date, d) ==
    LET probe[add \in 0 .. FirstStep(Len(list))] ==
            [idx \in 0 .. Len(list) |->
                LET hit == idx + add < Len(list) /\ date[list[idx + add + 1]] <= d
                    at  == IF hit THEN idx + add ELSE idx
                IN IF add # 0 THEN probe[add \div 2][at]
                   ELSE IF hit THEN at + 1 ELSE at]
    IN IF list = <<>> \/ BeforeAll(list, date, d) THEN 0
       ELSE IF BehindAll(list, date, d) THEN Len(list)
       ELSE probe[FirstStep(Len(list))][0]

InsertInOrder(list, t, date) ==
    InsertAt(list, InsertionIndex(list, date, date[t]) + 1, t)

-----------------------------------------------------------------------------
\* The lists are in the order of the dates, though timers fire, repeat and are
\* rescheduled, as long as clients do not add to a mode a timer that they also
\* reschedule; the insertion and the search for the deadlines rest on it
\* (__CFRunLoopInsertionIndexInTimerArray(), __CFRepositionTimerInMode()).
SortedByDate ==
    \A m \in DOMAIN timers : \A i, j \in DOMAIN timers[m] :
        i < j => fire[timers[m][i]] <= fire[timers[m][j]]

=============================================================================
