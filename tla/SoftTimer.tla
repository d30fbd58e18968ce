----------------------------- MODULE SoftTimer -----------------------------
(***************************************************************************)
(* The software timer table of the SDK (vendor/common/blt_soft_timer.c).   *)
(*                                                                         *)
(* The table is an array of MAX_TIMER_NUM events, the first currentNum of  *)
(* which are armed, kept ordered by expiry so that only timer[0] has to be *)
(* looked at by the main loop and handed to the power manager as the next  *)
(* wake-up.  Everything runs in one thread: the main loop (or the power    *)
(* manager's wake-up callback) calls blt_soft_timer_process, and the       *)
(* application calls add and delete between two such calls, or from inside *)
(* a timer callback (CbOps says which of the two a callback may call).     *)
(*                                                                         *)
(* The 32-bit system timer is the clock modulo Modulus; every comparison   *)
(* of the code is a difference modulo Modulus.  The table is walked, and   *)
(* sorted, one loop iteration per step, so that the locals of the code     *)
(* (i, now, change_flg, the two sort indices) are visible to invariants.   *)
(***************************************************************************)
EXTENDS Integers

CONSTANTS
    Callbacks,      \* the callback functions of the application
    Deletable,      \* those of them the application ever deletes
    Null,           \* the NULL function pointer of an unused slot
    MaxTimerNum,    \* MAX_TIMER_NUM
    Modulus,        \* 2^32, the range of the system timer
    Quarter,        \* BIT(30)
    Pre,            \* BLT_TIMER_SAFE_MARGIN_PRE
    Post,           \* BLT_TIMER_SAFE_MARGIN_POST
    Horizon,        \* 3000 * SYSTEM_TIMER_TICK_1MS
    TicksPerUs,     \* SYSTEM_TIMER_TICK_1US
    IntervalsUs,    \* the interval_us arguments the application uses
    ResultsUs,      \* the positive callback results: a new interval in us
    PollBound,      \* the longest time between two calls of process, in ticks
    CbOps           \* the operations a callback may call: {"add", "delete"}

ASSUME TableAssumption ==
    /\ MaxTimerNum \in Nat \ {0}
    /\ Null \notin Callbacks /\ Deletable \subseteq Callbacks
ASSUME TimeAssumption ==
    /\ Modulus \in Nat /\ Quarter \in Nat /\ Pre \in Nat /\ Post \in Nat
    /\ Horizon \in Nat /\ TicksPerUs \in Nat /\ PollBound \in Nat
    /\ 0 < Quarter /\ 2 * Quarter < Modulus
    /\ Pre < Horizon /\ Horizon < Post /\ Post < Quarter
ASSUME ArgumentAssumption ==
    /\ IntervalsUs \subseteq Nat
    /\ ResultsUs \subseteq Nat \ {0}
    /\ CbOps \subseteq {"add", "delete"}

VARIABLES
    timer,          \* blt_timer.timer: slot -> event
    currentNum,     \* blt_timer.currentNum
    wake,           \* what bls_pm_setAppWakeupLowPower was last told
    clock,          \* clock_time()
    sincePoll,      \* ticks since process was last entered
    pc,             \* where the thread is
    i,              \* the loop index of process
    now,            \* the clock value process took on entry
    changeFlg,      \* change_flg of process
    running,        \* the callback process is inside of
    pass, pos,      \* i and j of the bubble sort
    ret             \* where the sort returns to

vars == <<timer, currentNum, wake, clock, sincePoll, pc, i, now, changeFlg,
          running, pass, pos, ret>>
locals == <<i, now, changeFlg, running>>
sorting == <<pass, pos, ret>>

Slots == 0 .. MaxTimerNum - 1
Time == 0 .. Modulus - 1
Event == [cb : Callbacks \cup {Null}, t : Time, interval : Time]

----------------------------------------------------------------------------
(* 32-bit arithmetic.                                                      *)

\* (u32)(a - b)
Sub(a, b) == (a - b) % Modulus
\* (u32)(a + b)
Plus(a, b) == (a + b) % Modulus
\* interval_us * SYSTEM_TIMER_TICK_1US, an unsigned product that can wrap
Ticks(us) == (us * TicksPerUs) % Modulus

\* Mutant: the operands swapped.
BigSwapped(t1, t2) == Sub(t2, t1) < Quarter

\* TIME_COMPARE_BIG
Big(t1, t2) == Sub(t1, t2) < Quarter

\* blt_is_timer_expired
Expired(t, at) == Sub(at + Pre, t) < Post

----------------------------------------------------------------------------
(* The initial state: blt_timer is zeroed memory.                          *)

Init ==
    /\ timer = [k \in Slots |-> [cb |-> Null, t |-> 0, interval |-> 0]]
    /\ currentNum = 0
    /\ wake = [en |-> FALSE, t |-> 0]
    /\ clock = 0
    /\ sincePoll = 0
    /\ pc = "idle"
    /\ i = 0 /\ now = 0 /\ changeFlg = FALSE /\ running = Null
    /\ pass = 0 /\ pos = 0 /\ ret = "idle"

----------------------------------------------------------------------------
(* The power manager's interface.                                          *)

WakeAt(t) == wake' = [en |-> TRUE, t |-> t]
WakeOff == wake' = [en |-> FALSE, t |-> 0]
\* The choice process and delete make between the two.
WakeIfNear(t, at) == IF Sub(t, at) < Horizon THEN WakeAt(t) ELSE WakeOff

----------------------------------------------------------------------------
(* blt_soft_timer_sort: a bubble sort that starts at StartSort, compares   *)
(* one pair per SortStep and ends when pass = currentNum - 1.              *)

StartSort(n, after) ==
    /\ pc' = IF n \in 1 .. MaxTimerNum THEN "sort" ELSE "trap"
    /\ pass' = 0 /\ pos' = 0 /\ ret' = after

Swapped(a) == [timer EXCEPT ![a] = timer[a + 1], ![a + 1] = timer[a]]

\* Mutant: one pass too few.
SortDoneEarly == pass >= currentNum - 2

SortDone == pass >= currentNum - 1

SortStep ==
    /\ pc = "sort" /\ ~SortDone
    /\ IF pos < currentNum - pass - 1
         THEN /\ timer' = IF Big(timer[pos].t, timer[pos + 1].t)
                            THEN Swapped(pos) ELSE timer
              /\ pos' = pos + 1 /\ pass' = pass
         ELSE /\ pass' = pass + 1 /\ pos' = 0
              /\ timer' = timer
    /\ UNCHANGED <<currentNum, wake, clock, sincePoll, pc, locals, ret>>

\* The sort returns to process, which goes on to arm the wake-up ...
SortReturnsToProcess ==
    /\ pc = "sort" /\ SortDone /\ ret = "exit"
    /\ pc' = "exit"
    /\ pass' = 0 /\ pos' = 0 /\ ret' = "idle"
    /\ UNCHANGED <<timer, currentNum, wake, clock, sincePoll, locals>>

\* ... or to add, whose last call hands timer[0] to the power manager.
SortReturnsToAdd ==
    /\ pc = "sort" /\ SortDone /\ ret # "exit"
    /\ WakeAt(timer[0].t)
    /\ pc' = ret
    /\ pass' = 0 /\ pos' = 0 /\ ret' = "idle"
    /\ UNCHANGED <<timer, currentNum, clock, sincePoll, locals>>

----------------------------------------------------------------------------
(* blt_soft_timer_add and blt_soft_timer_delete.                           *)

Calling(op) == pc = "idle" \/ (pc = "cb" /\ op \in CbOps)

\* A full table makes add return 0 and change nothing.
Add(cb, us) ==
    /\ Calling("add")
    /\ currentNum < MaxTimerNum
    /\ timer' = [timer EXCEPT ![currentNum] =
                   [cb |-> cb, t |-> Plus(clock, Ticks(us)), interval |-> Ticks(us)]]
    /\ currentNum' = currentNum + 1
    /\ StartSort(currentNum + 1, pc)
    /\ UNCHANGED <<wake, clock, sincePoll, locals>>

\* The table after blt_soft_timer_delete_by_index: the last slot keeps its bytes.
ShiftDown(index) ==
    [k \in Slots |-> IF index <= k /\ k < currentNum - 1 THEN timer[k + 1] ELSE timer[k]]

\* Mutant: without the check of the index.
DeleteByAnyIndex(index) == timer' = ShiftDown(index) /\ currentNum' = currentNum - 1

DeleteByIndex(index) ==
    IF index >= currentNum
      THEN UNCHANGED <<timer, currentNum>>
      ELSE timer' = ShiftDown(index) /\ currentNum' = currentNum - 1

IsFirst(cb, k) ==
    /\ k < currentNum /\ timer[k].cb = cb
    /\ \A m \in Slots : m < k => timer[m].cb # cb

\* A callback that is not in the table makes delete return 0 and change nothing.
Delete(cb) ==
    /\ Calling("delete")
    /\ \E k \in Slots :
         /\ IsFirst(cb, k)
         /\ DeleteByIndex(k)
         /\ IF k = 0 THEN WakeIfNear(ShiftDown(0)[0].t, clock) ELSE UNCHANGED wake
    /\ UNCHANGED <<clock, sincePoll, pc, locals, sorting>>

----------------------------------------------------------------------------
(* blt_soft_timer_process.  Its argument, the kind of caller, changes      *)
(* nothing.                                                                *)

ProcessEmpty ==
    /\ pc = "idle" /\ currentNum = 0
    /\ WakeOff
    /\ sincePoll' = 0
    /\ UNCHANGED <<timer, currentNum, clock, pc, locals, sorting>>

ProcessNotDue ==
    /\ pc = "idle" /\ currentNum > 0 /\ ~Expired(timer[0].t, clock)
    /\ sincePoll' = 0
    /\ UNCHANGED <<timer, currentNum, wake, clock, pc, locals, sorting>>

ProcessBegin ==
    /\ pc = "idle" /\ currentNum > 0 /\ Expired(timer[0].t, clock)
    /\ sincePoll' = 0
    /\ now' = clock /\ i' = 0 /\ changeFlg' = FALSE
    /\ pc' = "loop"
    /\ UNCHANGED <<timer, currentNum, wake, clock, running, sorting>>

Process == ProcessEmpty \/ ProcessNotDue \/ ProcessBegin

\* An iteration that calls nothing: the timer is not due or has no callback.
LoopSkip ==
    /\ pc = "loop" /\ i < currentNum
    /\ ~Expired(timer[i].t, now) \/ timer[i].cb = Null
    /\ i' = i + 1
    /\ UNCHANGED <<timer, currentNum, wake, clock, sincePoll, pc, now, changeFlg, running, sorting>>

LoopCall ==
    /\ pc = "loop" /\ i < currentNum
    /\ Expired(timer[i].t, now) /\ timer[i].cb # Null
    /\ pc' = "cb" /\ running' = timer[i].cb
    /\ UNCHANGED <<timer, currentNum, wake, clock, sincePoll, i, now, changeFlg, sorting>>

\* Mutant: the head is deleted, whichever timer called back.
ReturnDeleteHead ==
    /\ pc = "cb"
    /\ DeleteByIndex(0)
    /\ pc' = "loop" /\ i' = i + 1 /\ running' = Null
    /\ UNCHANGED <<wake, clock, sincePoll, now, changeFlg, sorting>>

\* The callback returns a negative result: its timer is deleted, and the
\* loop goes on after the index the following timer has just moved to.
ReturnDelete ==
    /\ pc = "cb"
    /\ DeleteByIndex(i)
    /\ pc' = "loop" /\ i' = i + 1 /\ running' = Null
    /\ UNCHANGED <<wake, clock, sincePoll, now, changeFlg, sorting>>

\* Mutant: the table is not marked for sorting.
RearmUnmarked(interval) ==
    /\ timer' = [timer EXCEPT ![i] =
                   [cb |-> timer[i].cb, t |-> Plus(now, interval), interval |-> interval]]
    /\ pc' = "loop" /\ i' = i + 1 /\ running' = Null
    /\ UNCHANGED <<currentNum, wake, clock, sincePoll, now, changeFlg, sorting>>

Rearm(interval) ==
    /\ timer' = [timer EXCEPT ![i] =
                   [cb |-> timer[i].cb, t |-> Plus(now, interval), interval |-> interval]]
    /\ changeFlg' = TRUE
    /\ pc' = "loop" /\ i' = i + 1 /\ running' = Null
    /\ UNCHANGED <<currentNum, wake, clock, sincePoll, now, sorting>>

\* It returns zero: the timer keeps its interval.
ReturnKeep == pc = "cb" /\ Rearm(timer[i].interval)

\* It returns a positive result: the new interval.
ReturnNew(us) == pc = "cb" /\ Rearm(Ticks(us))

LeaveEmpty ==
    /\ pc = "loop" /\ i >= currentNum /\ currentNum = 0
    /\ WakeOff
    /\ pc' = "idle" /\ i' = 0 /\ now' = 0 /\ changeFlg' = FALSE
    /\ UNCHANGED <<timer, currentNum, clock, sincePoll, running, sorting>>

LeaveSort ==
    /\ pc = "loop" /\ i >= currentNum /\ currentNum > 0
    /\ IF changeFlg
         THEN StartSort(currentNum, "exit")
         ELSE pc' = "exit" /\ UNCHANGED sorting
    /\ UNCHANGED <<timer, currentNum, wake, clock, sincePoll, locals>>

\* Mutant: a far expiry leaves the wake-up as it was.
LeaveArmNear ==
    /\ pc = "exit"
    /\ IF Sub(timer[0].t, now) < Horizon THEN WakeAt(timer[0].t) ELSE UNCHANGED wake
    /\ pc' = "idle" /\ i' = 0 /\ now' = 0 /\ changeFlg' = FALSE
    /\ UNCHANGED <<timer, currentNum, clock, sincePoll, running, sorting>>

LeaveArm ==
    /\ pc = "exit"
    /\ WakeIfNear(timer[0].t, now)
    /\ pc' = "idle" /\ i' = 0 /\ now' = 0 /\ changeFlg' = FALSE
    /\ UNCHANGED <<timer, currentNum, clock, sincePoll, running, sorting>>

----------------------------------------------------------------------------
(* Time passes between the calls and inside callbacks; the main loop comes *)
(* back to process at least every PollBound ticks.                         *)

Tick ==
    /\ pc \in {"idle", "cb"} /\ sincePoll < PollBound
    /\ clock' = Plus(clock, 1)
    /\ sincePoll' = sincePoll + 1
    /\ UNCHANGED <<timer, currentNum, wake, pc, locals, sorting>>

Next ==
    \/ \E cb \in Callbacks, us \in IntervalsUs : Add(cb, us)
    \/ \E cb \in Deletable : Delete(cb)
    \/ Process
    \/ LoopSkip \/ LoopCall
    \/ ReturnDelete \/ ReturnKeep \/ \E us \in ResultsUs : ReturnNew(us)
    \/ LeaveEmpty \/ LeaveSort \/ LeaveArm
    \/ SortStep \/ SortReturnsToProcess \/ SortReturnsToAdd
    \/ Tick

Spec == Init /\ [][Next]_vars

\* The code between two calls always goes on, callbacks return, and the clock
\* and the main loop do not stop however often the application adds or deletes.
Returns == ReturnDelete \/ ReturnKeep \/ \E us \in ResultsUs : ReturnNew(us)
Running == LoopSkip \/ LoopCall \/ LeaveEmpty \/ LeaveSort \/ LeaveArm
             \/ SortStep \/ SortReturnsToProcess \/ SortReturnsToAdd
FairSpec == Spec /\ WF_vars(Running) /\ SF_vars(Returns) /\ SF_vars(Process) /\ SF_vars(Tick)
=============================================================================
