--------------------------- MODULE SoftTimerProps ---------------------------
(***************************************************************************)
(* What the software timer table promises.                                 *)
(***************************************************************************)
EXTENDS SoftTimer, FiniteSets

Armed == {k \in Slots : k < currentNum}

TypeOK ==
    /\ timer \in [Slots -> Event]
    /\ currentNum \in 0 .. MaxTimerNum
    /\ wake \in [en : BOOLEAN, t : Time]
    /\ clock \in Time
    /\ sincePoll \in 0 .. PollBound
    /\ pc \in {"idle", "loop", "cb", "exit", "sort"}
    /\ i \in 0 .. MaxTimerNum
    /\ now \in Time
    /\ changeFlg \in BOOLEAN
    /\ running \in Callbacks \cup {Null}
    /\ pass \in 0 .. MaxTimerNum
    /\ pos \in 0 .. MaxTimerNum
    /\ ret \in {"idle", "cb", "exit"}

\* Between two calls the power manager, when it is told to wake the chip for a
\* table that is not empty, is told the expiry of timer[0]: no add, delete,
\* re-arming or sort leaves it a time that no longer belongs to the head.
WakeMatchesHead ==
    pc = "idle" /\ currentNum > 0 /\ wake.en => wake.t = timer[0].t

\* How far a time lies after base, on the circle of the system timer.
After(base, t) == Sub(t, base)

OrderedFrom(base) ==
    \A k, m \in Armed : k < m => After(base, timer[k].t) <= After(base, timer[m].t)

WithinQuarterOf(base) == \A k \in Armed : After(base, timer[k].t) < Quarter

\* When the sort ends, the armed events are in the order of their expiry, if
\* all expiries lie within a quarter of the timer's range of one another.
SortSorts ==
    pc = "sort" /\ SortDone =>
        \A base \in Time : WithinQuarterOf(base) => OrderedFrom(base)

\* Between two calls the table is in order (seen from the oldest expiry that
\* can still be due), so looking at timer[0] is enough: the delete that does
\* not sort, and the loop that re-arms without sorting, both restore it.
OrderedWhenIdle == pc = "idle" => OrderedFrom(Sub(clock, Quarter))

\* No armed timer is past the window in which it counts as expired: one that
\* is would not fire until the timer wraps, and being first would keep every
\* timer behind it from firing too.
NoneMissed ==
    \A k \in Armed :
        Sub(clock, timer[k].t) <= Quarter => Expired(timer[k].t, clock)

IsArmed(cb) == \E k \in Armed : timer[k].cb = cb
IsRunning(cb) == pc = "cb" /\ running = cb

\* A timer that was added fires, unless the application deletes it: a callback
\* that is never deleted runs whenever a timer is armed for it, however often
\* other timers are added before it, deleted, re-armed or delete themselves.
EveryTimerFires ==
    \A cb \in Callbacks \ Deletable : IsArmed(cb) ~> IsRunning(cb)

----------------------------------------------------------------------------
(* The inductive invariant of the proofs.                                  *)

\* What the code relies on at each place: an index that is inside the table,
\* a table that is not empty where timer[0] is read.
ControlInv ==
    /\ pc = "cb" \/ (pc = "sort" /\ ret = "cb") => i < MaxTimerNum
    /\ pc \in {"sort", "exit"} => currentNum > 0
    /\ pc = "sort" => pass + pos < currentNum

\* The bubble sort has put the pass latest events behind all others, and the
\* latest of the events 0 .. pos at pos.
LatestBehind(base) ==
    \A k, m \in Armed :
        k < m /\ (currentNum <= pass + m \/ m = pos)
            => After(base, timer[k].t) <= After(base, timer[m].t)
SortInv ==
    pc = "sort" => \A base \in Time : WithinQuarterOf(base) => LatestBehind(base)

IInv == TypeOK /\ WakeMatchesHead /\ ControlInv /\ SortInv

----------------------------------------------------------------------------
(* The strengthening for OrderedWhenIdle and NoneMissed.  The main loop     *)
(* serves at least the head of the table in every call that finds it due,  *)
(* so a due timer waits for no more calls than there are timers.           *)

\* The calls and the intervals the windows of the code are wide enough for.
LongestWait == MaxTimerNum * PollBound
PollsOften == LongestWait + PollBound + Pre < Post
IntervalsShort ==
    \A us \in IntervalsUs \cup ResultsUs : LongestWait + PollBound + Ticks(us) < Quarter

\* process is being executed, from the loop to the arming of the wake-up.
InProcess == pc \in {"loop", "cb", "exit"} \/ (pc = "sort" /\ ret # "idle")

\* Of the call being made, the head the table had on entry is still to serve.
HeadToServe == InProcess /\ i = 0

\* The oldest expiry a timer can have: LongestWait before the last call.
Oldest == Sub(clock, LongestWait + sincePoll)

\* The armed timers that have waited for longer than all but n calls.
WaitingFor(n) == {k \in Armed : After(Oldest, timer[k].t) < n * PollBound}

PassInv ==
    /\ InProcess => now = Sub(clock, sincePoll)
    /\ ~InProcess => i = 0
    /\ i = 0 => ~changeFlg
    /\ pc = "exit" \/ (pc = "sort" /\ ret = "exit") => i # 0
    /\ pc = "loop" /\ i = 0 => currentNum > 0 /\ Expired(timer[0].t, now)

EventInv ==
    /\ \A k \in Armed : timer[k].cb # Null
    /\ \A k \in Slots : LongestWait + PollBound + timer[k].interval < Quarter
    /\ WithinQuarterOf(Oldest)

\* Where the table is in order: outside of process, and in it until a timer is
\* re-armed and again when the sort has been done.
InOrderHere == pc \in {"idle", "exit"} \/ (pc \in {"loop", "cb"} /\ ~changeFlg)

OrderInv == InOrderHere => OrderedFrom(Oldest)

WaitInv ==
    \A n \in 1 .. MaxTimerNum :
        Cardinality(WaitingFor(n)) <= IF HeadToServe THEN n ELSE n - 1

\* Every call of blt_soft_timer_process that finds the head due serves it before
\* it may return, whatever the callbacks add and delete meanwhile: so no more
\* than n timers have waited for all but n calls, and the table is in order,
\* seen from the longest wait, wherever no re-armed timer is still to be sorted.
ServeInv == PassInv /\ EventInv /\ OrderInv /\ WaitInv

----------------------------------------------------------------------------
(* Two comments of the source that the code does not live up to.           *)

\* blt_soft_timer.c:41: the sort orders the timers "according to the time of
\* the timed task, so as to trigger the timers in turn", whatever interval
\* they were added with (seen from the oldest expiry that can still be due).
TimersInTurn == pc = "sort" /\ SortDone => OrderedFrom(Sub(clock, Post))
=============================================================================
