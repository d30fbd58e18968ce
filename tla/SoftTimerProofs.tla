-------------------------- MODULE SoftTimerProofs --------------------------
(***************************************************************************)
(* Proofs about the software timer table, for every table size, every      *)
(* width of the system timer and every behaviour of the callbacks.         *)
(***************************************************************************)
EXTENDS SoftTimerProps, Remainders, FiniteSetTheorems, TLAPS

\* The difference of two times on the circle, without the remainder operator.
LEMMA SubCases ==
    ASSUME NEW a \in Time, NEW b \in Time
    PROVE  Sub(a, b) = IF b <= a THEN a - b ELSE a - b + Modulus
  BY TimeAssumption, SMT DEF Sub, Time

LEMMA SubType == ASSUME NEW a \in Time, NEW b \in Time PROVE Sub(a, b) \in Time
  BY SubCases, TimeAssumption DEF Time

LEMMA TicksType == ASSUME NEW us \in Nat PROVE Ticks(us) \in Time
  BY TimeAssumption, SMT DEF Ticks, Time

LEMMA PlusType == ASSUME NEW a \in Time, NEW b \in Time PROVE Plus(a, b) \in Time
  BY TimeAssumption, SMT DEF Plus, Time

LEMMA ZeroIn == 0 \in Slots /\ 0 \in Time /\ 0 \in 0 .. MaxTimerNum /\ 0 \in 0 .. PollBound
  BY TimeAssumption, TableAssumption DEF Slots, Time

\* A table whose events are shifted down is a table, and keeps its head unless
\* the head is what the shift overwrites.
LEMMA ShiftDownType ==
    ASSUME TypeOK, NEW index \in Nat
    PROVE  /\ ShiftDown(index) \in [Slots -> Event]
           /\ 0 < index => ShiftDown(index)[0] = timer[0]
  BY TableAssumption DEF TypeOK, ShiftDown, Slots

LEMMA WakeIfNearType ==
    ASSUME NEW t \in Time, NEW at, WakeIfNear(t, at)
    PROVE  /\ wake' \in [en : BOOLEAN, t : Time]
           /\ wake'.en => wake'.t = t
  <1>1. CASE WakeAt(t)
    BY <1>1 DEF WakeAt
  <1>2. CASE WakeOff
    BY <1>2, ZeroIn DEF WakeOff
  <1> QED
    BY <1>1, <1>2 DEF WakeIfNear

LEMMA InitInv == Init => IInv
  <1> SUFFICES ASSUME Init PROVE IInv
    OBVIOUS
  <1>2. TypeOK
    BY ZeroIn DEF Init, TypeOK, Event
  <1> QED
    BY <1>2 DEF Init, IInv, WakeMatchesHead, ControlInv, SortInv

\* Every action keeps the state well typed; the indices stay inside the table
\* because of ControlInv.
LEMMA TypeStep ==
    ASSUME TypeOK, ControlInv, [Next]_vars PROVE TypeOK'
  <1> USE TimeAssumption, TableAssumption, ArgumentAssumption
  <1>1. ASSUME NEW cb \in Callbacks, NEW us \in IntervalsUs, Add(cb, us) PROVE TypeOK'
    <2>1. Ticks(us) \in Time /\ clock \in Time
      BY TicksType DEF TypeOK
    <2>2. Plus(clock, Ticks(us)) \in Time
      BY <2>1, PlusType
    <2>3. timer' \in [Slots -> Event] /\ currentNum' \in 1 .. MaxTimerNum
      BY <1>1, <2>1, <2>2 DEF Add, TypeOK, Event, Slots
    <2>4. pc' = "sort" /\ ret' \in {"idle", "cb"} /\ pass' = 0 /\ pos' = 0
      BY <1>1, <2>3 DEF Add, StartSort, Calling, TypeOK
    <2> QED
      BY <1>1, <2>3, <2>4 DEF Add, TypeOK, locals
  <1>2. ASSUME NEW cb \in Deletable, Delete(cb) PROVE TypeOK'
    <2>1. PICK k \in Slots :
            /\ IsFirst(cb, k)
            /\ DeleteByIndex(k)
            /\ IF k = 0 THEN WakeIfNear(ShiftDown(0)[0].t, clock) ELSE UNCHANGED wake
      BY <1>2 DEF Delete
    <2>2. timer' \in [Slots -> Event] /\ currentNum' \in 0 .. MaxTimerNum
      BY <2>1, ShiftDownType DEF DeleteByIndex, IsFirst, Slots, TypeOK
    <2>3. ShiftDown(0)[0].t \in Time
      BY ZeroIn, ShiftDownType DEF Event
    <2>4. wake' \in [en : BOOLEAN, t : Time]
      BY <2>1, <2>3, WakeIfNearType DEF TypeOK
    <2> QED
      BY <1>2, <2>2, <2>4 DEF Delete, TypeOK, locals, sorting
  <1>3. CASE Process
    <2>1. CASE ProcessEmpty
      BY <2>1, ZeroIn DEF ProcessEmpty, WakeOff, TypeOK, locals, sorting
    <2>2. CASE ProcessNotDue
      BY <2>2, ZeroIn DEF ProcessNotDue, TypeOK, locals, sorting
    <2>3. CASE ProcessBegin
      BY <2>3, ZeroIn DEF ProcessBegin, TypeOK, sorting
    <2> QED
      BY <1>3, <2>1, <2>2, <2>3 DEF Process
  <1>4. CASE LoopSkip
    BY <1>4 DEF LoopSkip, TypeOK, sorting
  <1>5. CASE LoopCall
    BY <1>5 DEF LoopCall, TypeOK, Slots, Event, sorting
  <1>6. CASE ReturnDelete
    <2>1. timer' \in [Slots -> Event] /\ currentNum' \in 0 .. MaxTimerNum
      BY <1>6, ShiftDownType DEF ReturnDelete, DeleteByIndex, TypeOK
    <2> QED
      BY <1>6, <2>1 DEF ReturnDelete, ControlInv, TypeOK, sorting
  <1>7. ASSUME NEW interval \in Time, pc = "cb", Rearm(interval) PROVE TypeOK'
    <2>1. Plus(now, interval) \in Time
      BY PlusType DEF TypeOK
    <2>2. timer' \in [Slots -> Event]
      BY <1>7, <2>1 DEF Rearm, TypeOK, Event
    <2> QED
      BY <1>7, <2>2 DEF Rearm, ControlInv, TypeOK, sorting
  <1>8. CASE ReturnKeep
    <2>1. i \in Slots /\ timer[i].interval \in Time
      BY <1>8 DEF ReturnKeep, ControlInv, TypeOK, Slots, Event
    <2> QED
      BY <1>7, <1>8, <2>1 DEF ReturnKeep
  <1>9. ASSUME NEW us \in ResultsUs, ReturnNew(us) PROVE TypeOK'
    BY <1>7, <1>9, TicksType DEF ReturnNew
  <1>10. CASE LeaveEmpty
    BY <1>10, ZeroIn DEF LeaveEmpty, WakeOff, TypeOK, sorting
  <1>11. CASE LeaveSort
    BY <1>11 DEF LeaveSort, StartSort, TypeOK, locals, sorting
  <1>12. CASE LeaveArm
    <2>1. timer[0].t \in Time
      BY ZeroIn DEF TypeOK, Event
    <2>2. wake' \in [en : BOOLEAN, t : Time]
      BY <1>12, <2>1, WakeIfNearType DEF LeaveArm
    <2> QED
      BY <1>12, <2>2, ZeroIn DEF LeaveArm, TypeOK, sorting
  <1>13. CASE SortStep
    BY <1>13 DEF SortStep, Swapped, ControlInv, SortDone, TypeOK, Slots, locals
  <1>14. CASE SortReturnsToProcess
    BY <1>14 DEF SortReturnsToProcess, TypeOK, locals
  <1>15. CASE SortReturnsToAdd
    BY ZeroIn, <1>15 DEF SortReturnsToAdd, WakeAt, TypeOK, Event, locals
  <1>16. CASE Tick
    <2>1. clock' \in Time
      <3>1. 1 \in Time /\ clock \in Time
        BY DEF Time, TypeOK
      <3> QED
        BY <1>16, <3>1, PlusType DEF Tick
    <2> QED
      BY <1>16, <2>1 DEF Tick, TypeOK, locals, sorting
  <1>17. CASE UNCHANGED vars
    BY <1>17 DEF vars, TypeOK
  <1> QED
    BY <1>1, <1>2, <1>3, <1>4, <1>5, <1>6, <1>8, <1>9, <1>10, <1>11, <1>12, <1>13,
       <1>14, <1>15, <1>16, <1>17 DEF Next

\* The actions by the places they lead to, for the two invariants below.
LEMMA ControlStep ==
    ASSUME TypeOK, ControlInv, [Next]_vars PROVE ControlInv'
  <1> USE TimeAssumption, TableAssumption, ArgumentAssumption
  <1>1. ASSUME NEW cb \in Callbacks, NEW us \in IntervalsUs, Add(cb, us) PROVE ControlInv'
    <2>1. currentNum' \in 1 .. MaxTimerNum /\ i' = i /\ ret' = pc
      BY <1>1 DEF Add, StartSort, TypeOK, locals
    <2> QED
      BY <1>1, <2>1 DEF Add, StartSort, TypeOK, ControlInv
  <1>2. ASSUME NEW cb \in Deletable, Delete(cb) PROVE ControlInv'
    BY <1>2 DEF Delete, Calling, ControlInv, locals, sorting
  <1>3. CASE Process
    BY <1>3 DEF Process, ProcessEmpty, ProcessNotDue, ProcessBegin, ControlInv, sorting
  <1>4. CASE LoopSkip
    BY <1>4 DEF LoopSkip, ControlInv
  <1>5. CASE LoopCall
    BY <1>5 DEF LoopCall, ControlInv, TypeOK, sorting
  <1>6. CASE ReturnDelete
    BY <1>6 DEF ReturnDelete, ControlInv
  <1>7. ASSUME NEW interval, Rearm(interval) PROVE ControlInv'
    BY <1>7 DEF Rearm, ControlInv
  <1>8. CASE LeaveEmpty
    BY <1>8 DEF LeaveEmpty, ControlInv
  <1>9. CASE LeaveSort
    <2>1. currentNum' = currentNum /\ currentNum \in 1 .. MaxTimerNum
      BY <1>9 DEF LeaveSort, TypeOK
    <2>2. pc' = "exit" \/ (pc' = "sort" /\ pass' = 0 /\ pos' = 0 /\ ret' = "exit")
      BY <1>9, <2>1 DEF LeaveSort, StartSort
    <2> QED
      BY <2>1, <2>2 DEF ControlInv
  <1>10. CASE LeaveArm
    BY <1>10 DEF LeaveArm, ControlInv
  <1>11. CASE SortStep
    BY <1>11 DEF SortStep, SortDone, ControlInv, TypeOK, locals
  <1>12. CASE SortReturnsToProcess
    BY <1>12 DEF SortReturnsToProcess, ControlInv, locals
  <1>13. CASE SortReturnsToAdd
    BY <1>13 DEF SortReturnsToAdd, ControlInv, TypeOK, locals
  <1>14. CASE Tick
    BY <1>14 DEF Tick, ControlInv, locals, sorting
  <1>15. CASE UNCHANGED vars
    BY <1>15 DEF vars, ControlInv
  <1> QED
    BY <1>1, <1>2, <1>3, <1>4, <1>5, <1>6, <1>7, <1>8, <1>9, <1>10, <1>11, <1>12, <1>13,
       <1>14, <1>15 DEF Next, ReturnKeep, ReturnNew

\* The wake-up time.  Only delete, the sort's return to add and the two exits
\* of process change what an idle thread sees, and each hands over timer[0].
LEMMA WakeStep ==
    ASSUME TypeOK, ControlInv, WakeMatchesHead, [Next]_vars PROVE WakeMatchesHead'
  <1> USE TableAssumption
  <1>1. ASSUME NEW cb \in Callbacks, NEW us \in IntervalsUs, Add(cb, us)
        PROVE  WakeMatchesHead'
    BY <1>1 DEF Add, StartSort, WakeMatchesHead
  <1>2. ASSUME NEW cb \in Deletable, Delete(cb) PROVE WakeMatchesHead'
    <2>1. PICK k \in Slots :
            /\ IsFirst(cb, k)
            /\ DeleteByIndex(k)
            /\ IF k = 0 THEN WakeIfNear(ShiftDown(0)[0].t, clock) ELSE UNCHANGED wake
      BY <1>2 DEF Delete
    <2>2. k \in Nat /\ k < currentNum /\ timer' = ShiftDown(k) /\ currentNum \in Nat
      BY <2>1 DEF DeleteByIndex, IsFirst, Slots, TypeOK
    <2>3. CASE k = 0
      <3>1. timer'[0].t \in Time
        BY <2>2, ZeroIn, ShiftDownType DEF Event
      <3> QED
        BY <2>1, <2>2, <2>3, <3>1, WakeIfNearType DEF WakeMatchesHead
    <2>4. CASE k # 0
      <3>1. timer'[0] = timer[0] /\ wake' = wake /\ pc' = pc /\ currentNum > 0
        BY <1>2, <2>1, <2>2, <2>4, ShiftDownType DEF Delete
      <3> QED
        BY <3>1 DEF WakeMatchesHead
    <2> QED
      BY <2>3, <2>4
  <1>3. CASE Process
    BY <1>3 DEF Process, ProcessEmpty, ProcessNotDue, ProcessBegin, WakeOff, WakeMatchesHead
  <1>4. CASE LoopSkip \/ LoopCall \/ ReturnDelete \/ LeaveSort \/ SortStep
             \/ SortReturnsToProcess
    BY <1>4 DEF LoopSkip, LoopCall, ReturnDelete, LeaveSort, StartSort, SortStep,
                SortReturnsToProcess, WakeMatchesHead
  <1>5. ASSUME NEW interval, Rearm(interval) PROVE WakeMatchesHead'
    BY <1>5 DEF Rearm, WakeMatchesHead
  <1>6. CASE LeaveEmpty
    BY <1>6 DEF LeaveEmpty, WakeMatchesHead
  <1>7. CASE LeaveArm
    <2>1. timer[0].t \in Time
      BY ZeroIn DEF TypeOK, Event
    <2> QED
      BY <1>7, <2>1, WakeIfNearType DEF LeaveArm, WakeMatchesHead
  <1>8. CASE SortReturnsToAdd
    BY <1>8 DEF SortReturnsToAdd, WakeAt, WakeMatchesHead
  <1>9. CASE Tick
    BY <1>9 DEF Tick, WakeMatchesHead
  <1>10. CASE UNCHANGED vars
    BY <1>10 DEF vars, WakeMatchesHead
  <1> QED
    BY <1>1, <1>2, <1>3, <1>4, <1>5, <1>6, <1>7, <1>8, <1>9, <1>10
       DEF Next, ReturnKeep, ReturnNew

----------------------------------------------------------------------------
(* The sort.                                                               *)

\* TIME_COMPARE_BIG compares two expiries correctly as long as both lie within
\* a quarter of the timer's range after some common time.
LEMMA BigIsLater ==
    ASSUME NEW base \in Time, NEW t1 \in Time, NEW t2 \in Time,
           After(base, t1) < Quarter, After(base, t2) < Quarter
    PROVE  Big(t1, t2) <=> After(base, t2) <= After(base, t1)
  BY SubCases, TimeAssumption DEF Big, After, Time

\* A comparison of the sort leaves the expiries within the same quarter.
LEMMA QuarterStep ==
    ASSUME TypeOK, ControlInv, SortStep, NEW base \in Time, WithinQuarterOf(base)'
    PROVE  WithinQuarterOf(base)
  <1> SUFFICES ASSUME NEW k \in Armed PROVE After(base, timer[k].t) < Quarter
    BY DEF WithinQuarterOf
  <1>1. currentNum' = currentNum /\ Armed' = Armed
    BY DEF SortStep, Armed
  <1>2. \A m \in Armed : After(base, timer'[m].t) < Quarter
    BY <1>1 DEF WithinQuarterOf, After, Sub
  <1>3. CASE timer' = timer
    BY <1>2, <1>3
  <1>4. CASE pos < currentNum - pass - 1 /\ timer' = Swapped(pos)
    <2>1. pos \in Armed /\ pos + 1 \in Armed
      BY <1>4, TableAssumption DEF TypeOK, Armed, Slots
    <2>2. timer'[pos] = timer[pos + 1] /\ timer'[pos + 1] = timer[pos]
      BY <1>4, <2>1 DEF Swapped, TypeOK, Armed, Slots
    <2>3. k # pos /\ k # pos + 1 => timer'[k] = timer[k]
      BY <1>4 DEF Swapped, TypeOK, Armed
    <2> QED
      BY <1>2, <2>1, <2>2, <2>3
  <1> QED
    BY <1>3, <1>4 DEF SortStep

LEMMA LatestStep ==
    ASSUME TypeOK, ControlInv, SortStep,
           NEW base \in Time, WithinQuarterOf(base), LatestBehind(base)
    PROVE  LatestBehind(base)'
  <1> DEFINE A(k) == After(base, timer[k].t)
             B(k) == After(base, timer'[k].t)
  <1>1. /\ currentNum' = currentNum /\ currentNum \in Nat /\ Armed' = Armed
        /\ pass \in Nat /\ pos \in Nat /\ pass + pos < currentNum
    BY DEF SortStep, Armed, TypeOK, ControlInv
  <1>2. \A k \in Armed : timer[k].t \in Time /\ A(k) \in Time /\ A(k) < Quarter
    BY SubType DEF TypeOK, Armed, Event, After, WithinQuarterOf
  <1>3. SUFFICES ASSUME NEW k \in Armed, NEW m \in Armed, k < m,
                        currentNum <= pass' + m \/ m = pos'
                 PROVE  B(k) <= B(m)
    BY <1>1 DEF LatestBehind, After, Sub
  <1>4. k \in Nat /\ m \in Nat /\ m < currentNum
    BY DEF Armed, Slots
  <1>5. CASE pos < currentNum - pass - 1
    <2>1. pos' = pos + 1 /\ pass' = pass
      BY <1>5 DEF SortStep
    <2>2. pos \in Armed /\ pos + 1 \in Armed
      BY <1>1, <1>5, TableAssumption DEF Armed, Slots, TypeOK
    <2>3. CASE Big(timer[pos].t, timer[pos + 1].t)
      <3>1. A(pos + 1) <= A(pos)
        BY <1>2, <2>2, <2>3, BigIsLater
      <3>2. /\ timer' = Swapped(pos)
            /\ B(pos) = A(pos + 1) /\ B(pos + 1) = A(pos)
        BY <1>5, <2>2, <2>3 DEF SortStep, Swapped, TypeOK, Armed
      <3>3. \A j \in Armed : j # pos /\ j # pos + 1 => B(j) = A(j)
        BY <3>2 DEF Swapped, TypeOK, Armed
      <3>4. CASE m = pos + 1
        <4>1. k # pos => A(k) <= A(pos)
          BY <1>3, <1>4, <2>2, <3>4 DEF LatestBehind
        <4> QED
          BY <1>3, <1>4, <2>2, <3>1, <3>2, <3>3, <3>4, <4>1
      <3>5. CASE m # pos + 1
        <4>1. currentNum <= pass + m /\ pos + 1 < m
          BY <1>1, <1>3, <1>4, <1>5, <2>1, <3>5
        <4>2. \A j \in Armed : j < m => A(j) <= A(m)
          BY <4>1 DEF LatestBehind
        <4>3. B(m) = A(m)
          BY <1>1, <1>4, <3>3, <3>5, <4>1
        <4> QED
          BY <1>1, <1>3, <1>4, <2>2, <3>2, <3>3, <4>1, <4>2, <4>3
      <3> QED
        BY <3>4, <3>5
    <2>4. CASE ~Big(timer[pos].t, timer[pos + 1].t)
      <3>1. A(pos) <= A(pos + 1)
        BY <1>2, <2>2, <2>4, BigIsLater DEF Time
      <3>2. timer' = timer
        BY <1>5, <2>4 DEF SortStep
      <3>3. CASE m = pos + 1
        <4>1. k # pos => A(k) <= A(pos)
          BY <1>1, <1>3, <1>4, <2>2, <3>3 DEF LatestBehind
        <4> QED
          BY <1>2, <2>2, <3>1, <3>2, <3>3, <4>1 DEF Time
      <3>4. CASE m # pos + 1
        BY <1>3, <2>1, <3>2, <3>4 DEF LatestBehind
      <3> QED
        BY <3>3, <3>4
    <2> QED
      BY <2>3, <2>4
  <1>6. CASE ~(pos < currentNum - pass - 1)
    <2>1. timer' = timer /\ pos' = 0 /\ pass' = pass + 1 /\ pos = currentNum - pass - 1
      BY <1>1, <1>6 DEF SortStep
    <2>2. currentNum <= pass + m \/ m = pos
      BY <1>1, <1>3, <1>4, <2>1
    <2> QED
      BY <1>3, <2>1, <2>2 DEF LatestBehind
  <1> QED
    BY <1>5, <1>6

\* When no comparison is left, all are in order.
LEMMA SortedWhenDone ==
    ASSUME TypeOK, ControlInv, SortInv, pc = "sort", SortDone,
           NEW base \in Time, WithinQuarterOf(base)
    PROVE  OrderedFrom(base)
  <1> SUFFICES ASSUME NEW k \in Armed, NEW m \in Armed, k < m
               PROVE  After(base, timer[k].t) <= After(base, timer[m].t)
    BY DEF OrderedFrom
  <1>1. currentNum <= pass + m
    BY DEF TypeOK, ControlInv, SortDone, Armed, Slots
  <1> QED
    BY <1>1 DEF SortInv, LatestBehind

LEMMA SortStart ==
    ASSUME TypeOK, pass' = 0, pos' = 0, currentNum' \in Nat, NEW base
    PROVE  LatestBehind(base)'
  BY TableAssumption DEF LatestBehind, Armed, Slots

LEMMA SortInvStep ==
    ASSUME TypeOK, ControlInv, SortInv, [Next]_vars PROVE SortInv'
  <1> USE TableAssumption
  <1>1. ASSUME NEW cb \in Callbacks, NEW us \in IntervalsUs, Add(cb, us) PROVE SortInv'
    BY <1>1, SortStart DEF Add, StartSort, SortInv, TypeOK
  <1>2. CASE LeaveSort
    <2>1. pc' = "exit" \/ (pass' = 0 /\ pos' = 0 /\ currentNum' = currentNum)
      BY <1>2 DEF LeaveSort, StartSort
    <2> QED
      BY <2>1, SortStart DEF SortInv, TypeOK
  <1>3. CASE SortStep
    <2>1. SUFFICES ASSUME NEW base \in Time, WithinQuarterOf(base)'
                   PROVE  LatestBehind(base)'
      BY DEF SortInv
    <2>2. LatestBehind(base)
      BY <1>3, <2>1, QuarterStep DEF SortInv, SortStep
    <2> QED
      BY <1>3, <2>1, <2>2, QuarterStep, LatestStep
  <1>4. CASE UNCHANGED vars
    BY <1>4 DEF vars, SortInv, WithinQuarterOf, LatestBehind, Armed
  <1>5. ASSUME pc' # "sort" PROVE SortInv'
    BY <1>5 DEF SortInv
  <1>6. (\E cb \in Deletable : Delete(cb)) \/ Tick => pc' = pc /\ pc # "sort"
    BY DEF Delete, Calling, Tick
  <1>7. Process \/ LoopSkip \/ LoopCall \/ ReturnDelete \/ LeaveEmpty \/ LeaveArm
          \/ SortReturnsToProcess => pc' # "sort"
    BY DEF Process, ProcessEmpty, ProcessNotDue, ProcessBegin, LoopSkip, LoopCall,
           ReturnDelete, LeaveEmpty, LeaveArm, SortReturnsToProcess
  <1>8. SortReturnsToAdd => pc' # "sort"
    BY DEF SortReturnsToAdd, TypeOK
  <1>9. (ReturnKeep \/ \E us \in ResultsUs : ReturnNew(us)) => pc' # "sort"
    BY DEF ReturnKeep, ReturnNew, Rearm
  <1> QED
    BY <1>1, <1>2, <1>3, <1>4, <1>5, <1>6, <1>7, <1>8, <1>9 DEF Next

----------------------------------------------------------------------------
(* The theorems.                                                           *)

LEMMA Invariant == Spec => []IInv
  <1>1. IInv /\ [Next]_vars => IInv'
    BY TypeStep, ControlStep, WakeStep, SortInvStep DEF IInv
  <1> QED
    BY InitInv, <1>1, PTL DEF Spec

\* Every variable keeps its type: no index leaves the table, the count of armed
\* timers stays between 0 and MAX_TIMER_NUM, and the debugging trap of the sort
\* (blt_soft_timer.c:50) is never entered, whatever callbacks add and delete.
THEOREM TypeCorrect == Spec => []TypeOK
  BY Invariant, PTL DEF IInv

\* The wake-up time the power manager holds between two calls is the expiry of
\* timer[0], after any sequence of adds, deletes and calls of process.
THEOREM WakeCorrect == Spec => []WakeMatchesHead
  BY Invariant, PTL DEF IInv

\* The sort orders the table, from whatever order re-arming left it in and for
\* any number of timers, provided their expiries fit in a quarter of the range.
THEOREM SortCorrect == Spec => []SortSorts
  <1>1. IInv => SortSorts
    BY SortedWhenDone DEF SortSorts, IInv
  <1> QED
    BY Invariant, <1>1, PTL

----------------------------------------------------------------------------
(* Time, on the circle of the system timer, seen from the oldest expiry a  *)
(* timer can have.                                                         *)

LEMMA Turn ==
    ASSUME NEW x \in Nat, x < 2 * Modulus
    PROVE  x % Modulus = IF x < Modulus THEN x ELSE x - Modulus
  <1> USE TimeAssumption
  <1>1. CASE x < Modulus
    BY <1>1, SmallRemainder
  <1>2. CASE x >= Modulus
    <2>1. /\ x - Modulus \in 0 .. Modulus - 1 /\ x = Modulus * 1 + (x - Modulus)
          /\ Modulus \in Nat \ {0} /\ 1 \in Int
      BY <1>2
    <2> QED
      BY <1>2, <2>1, RemainderUnique
  <1> QED
    BY <1>1, <1>2

LEMMA PlusCases ==
    ASSUME NEW a \in Time, NEW b \in Time
    PROVE  Plus(a, b) = IF a + b < Modulus THEN a + b ELSE a + b - Modulus
  BY Turn, TimeAssumption DEF Plus, Time

\* A difference whose first operand may have passed the end of the range.
LEMMA SubLate ==
    ASSUME NEW a \in Nat, a < 2 * Modulus, NEW b \in Time
    PROVE  Sub(a, b) = IF a < b THEN a - b + Modulus
                       ELSE IF a - b < Modulus THEN a - b ELSE a - b - Modulus
  <1> USE TimeAssumption
  <1>1. CASE a < b
    <2>1. a \in Time
      BY <1>1 DEF Time
    <2> QED
      BY <1>1, <2>1, SubCases
  <1>2. CASE ~(a < b)
    <2>1. a - b \in Nat /\ a - b < 2 * Modulus
      BY <1>2 DEF Time
    <2>2. (a - b) % Modulus = IF a - b < Modulus THEN a - b ELSE a - b - Modulus
      BY <2>1, Turn
    <2> QED
      BY <1>2, <2>2 DEF Sub
  <1> QED
    BY <1>1, <1>2

\* Going back in two steps.
LEMMA BackTwice ==
    ASSUME NEW c \in Time, NEW v \in Nat, NEW w \in Nat, v + w < Modulus
    PROVE  Sub(c, v) \in Time /\ Sub(Sub(c, v), w) = Sub(c, w + v)
  <1> USE TimeAssumption
  <1>1. v \in Time /\ w \in Time /\ w + v \in Time
    BY DEF Time
  <1>2. Sub(c, v) = (IF v <= c THEN c - v ELSE c - v + Modulus) /\ Sub(c, v) \in Time
    BY <1>1, SubCases, SubType
  <1>3. Sub(Sub(c, v), w) = IF w <= Sub(c, v) THEN Sub(c, v) - w ELSE Sub(c, v) - w + Modulus
    BY <1>1, <1>2, SubCases
  <1>4. Sub(c, w + v) = IF w + v <= c THEN c - (w + v) ELSE c - (w + v) + Modulus
    BY <1>1, SubCases
  <1> QED
    BY <1>2, <1>3, <1>4 DEF Time

\* The clock and what has passed since go on together.
LEMMA BackFromNext ==
    ASSUME NEW c \in Time, NEW w \in Nat, w + 1 < Modulus
    PROVE  Sub(Plus(c, 1), w + 1) = Sub(c, w)
  <1> USE TimeAssumption
  <1>1. 1 \in Time /\ w \in Time /\ w + 1 \in Time
    BY DEF Time
  <1>2. Plus(c, 1) = (IF c + 1 < Modulus THEN c + 1 ELSE c + 1 - Modulus) /\ Plus(c, 1) \in Time
    BY <1>1, PlusCases, PlusType
  <1>3. /\ Sub(Plus(c, 1), w + 1) = IF w + 1 <= Plus(c, 1) THEN Plus(c, 1) - (w + 1)
                                    ELSE Plus(c, 1) - (w + 1) + Modulus
        /\ Sub(c, w) = IF w <= c THEN c - w ELSE c - w + Modulus
    BY <1>1, <1>2, SubCases
  <1> QED
    BY <1>2, <1>3 DEF Time

\* A time x after c is w + x after the time w before c.
LEMMA AfterPlus ==
    ASSUME NEW c \in Time, NEW w \in Nat, NEW x \in Time, w + x < Modulus
    PROVE  After(Sub(c, w), Plus(c, x)) = w + x
  <1> USE TimeAssumption
  <1>1. w \in Time
    BY DEF Time
  <1> DEFINE b == Sub(c, w)
             p == Plus(c, x)
  <1>2. /\ b = (IF w <= c THEN c - w ELSE c - w + Modulus) /\ b \in Time
        /\ p = (IF c + x < Modulus THEN c + x ELSE c + x - Modulus) /\ p \in Time
    BY <1>1, SubCases, SubType, PlusCases, PlusType
  <1> HIDE DEF b, p
  <1>3. After(b, p) = IF b <= p THEN p - b ELSE p - b + Modulus
    BY <1>2, SubCases DEF After
  <1>4. After(b, p) = w + x
    BY <1>2, <1>3 DEF Time
  <1> QED
    BY <1>4 DEF b, p

\* Seen from s ticks later, every time that is not before it is s less after.
LEMMA AfterLater ==
    ASSUME NEW c \in Time, NEW w \in Nat, NEW s \in Nat, w + s < Modulus, NEW t \in Time,
           s <= After(Sub(c, w + s), t)
    PROVE  After(Sub(c, w), t) = After(Sub(c, w + s), t) - s
  <1> USE TimeAssumption
  <1>1. w \in Time /\ w + s \in Time
    BY DEF Time
  <1> DEFINE b == Sub(c, w + s)
             e == Sub(c, w)
  <1>2. /\ b = (IF w + s <= c THEN c - (w + s) ELSE c - (w + s) + Modulus) /\ b \in Time
        /\ e = (IF w <= c THEN c - w ELSE c - w + Modulus) /\ e \in Time
    BY <1>1, SubCases, SubType
  <1>3. s <= After(b, t)
    OBVIOUS
  <1> HIDE DEF b, e
  <1>4. /\ After(b, t) = IF b <= t THEN t - b ELSE t - b + Modulus
        /\ After(e, t) = IF e <= t THEN t - e ELSE t - e + Modulus
    BY <1>2, SubCases DEF After
  <1>5. After(e, t) = After(b, t) - s
    BY <1>2, <1>3, <1>4 DEF Time
  <1> QED
    BY <1>5 DEF b, e

\* A time that is not later than c, seen from w before it, counts as expired if
\* w is in the window ...
LEMMA Reached ==
    ASSUME NEW c \in Time, NEW w \in Nat, w + Pre < Post, NEW t \in Time,
           After(Sub(c, w), t) <= w
    PROVE  Expired(t, c)
  <1> USE TimeAssumption
  <1>1. w \in Time
    BY DEF Time
  <1> DEFINE b == Sub(c, w)
  <1>2. b = (IF w <= c THEN c - w ELSE c - w + Modulus) /\ b \in Time
    BY <1>1, SubCases, SubType
  <1>3. After(b, t) <= w
    OBVIOUS
  <1> HIDE DEF b
  <1>4. After(b, t) = IF b <= t THEN t - b ELSE t - b + Modulus
    BY <1>2, SubCases DEF After
  <1>5. PICK a \in Nat : a = c + Pre /\ a < 2 * Modulus
    BY DEF Time
  <1>6. Sub(a, t) = IF a < t THEN a - t + Modulus
                    ELSE IF a - t < Modulus THEN a - t ELSE a - t - Modulus
    BY <1>5, SubLate
  <1>7. Sub(a, t) < Post
    BY <1>1, <1>2, <1>3, <1>4, <1>5, <1>6 DEF Time
  <1> QED
    BY <1>5, <1>7 DEF Expired

\* ... and one that is later lies ahead of c by less than a quarter.
LEMMA NotReached ==
    ASSUME NEW c \in Time, NEW w \in Nat, w < Quarter, NEW t \in Time,
           After(Sub(c, w), t) > w, After(Sub(c, w), t) < Quarter
    PROVE  Sub(c, t) > Quarter
  <1> USE TimeAssumption
  <1>1. w \in Time
    BY DEF Time
  <1> DEFINE b == Sub(c, w)
  <1>2. b = (IF w <= c THEN c - w ELSE c - w + Modulus) /\ b \in Time
    BY <1>1, SubCases, SubType
  <1>3. After(b, t) > w /\ After(b, t) < Quarter
    OBVIOUS
  <1> HIDE DEF b
  <1>4. /\ After(b, t) = IF b <= t THEN t - b ELSE t - b + Modulus
        /\ Sub(c, t) = IF t <= c THEN c - t ELSE c - t + Modulus
    BY <1>2, SubCases DEF After
  <1> QED
    BY <1>2, <1>3, <1>4 DEF Time

\* Seen from a quarter before c, times within a quarter after w before c are
\* further away by the same amount.
LEMMA AfterEarlier ==
    ASSUME NEW c \in Time, NEW w \in Nat, w < Quarter, NEW t \in Time,
           After(Sub(c, w), t) < Quarter
    PROVE  After(Sub(c, Quarter), t) = After(Sub(c, w), t) + (Quarter - w)
  <1> USE TimeAssumption
  <1>1. w \in Time /\ Quarter \in Time
    BY DEF Time
  <1> DEFINE b == Sub(c, w)
             q == Sub(c, Quarter)
  <1>2. /\ b = (IF w <= c THEN c - w ELSE c - w + Modulus) /\ b \in Time
        /\ q = (IF Quarter <= c THEN c - Quarter ELSE c - Quarter + Modulus) /\ q \in Time
    BY <1>1, SubCases, SubType
  <1>3. After(b, t) < Quarter
    OBVIOUS
  <1> HIDE DEF b, q
  <1>4. /\ After(b, t) = IF b <= t THEN t - b ELSE t - b + Modulus
        /\ After(q, t) = IF q <= t THEN t - q ELSE t - q + Modulus
    BY <1>2, SubCases DEF After
  <1>5. After(q, t) = After(b, t) + (Quarter - w)
    BY <1>2, <1>3, <1>4 DEF Time
  <1> QED
    BY <1>5 DEF b, q

LEMMA OldestType ==
    ASSUME TypeOK, PollsOften
    PROVE  /\ LongestWait \in Nat /\ sincePoll \in Nat /\ sincePoll <= PollBound
           /\ LongestWait + sincePoll \in Nat /\ LongestWait + sincePoll + Pre < Post
           /\ LongestWait + sincePoll < Quarter /\ LongestWait + sincePoll < Modulus
           /\ Oldest \in Time
           /\ \A k \in Slots : timer[k].t \in Time /\ After(Oldest, timer[k].t) \in Time
  <1> USE TimeAssumption
  <1>1. LongestWait \in Nat
    BY TableAssumption, SMT DEF LongestWait
  <1>2. /\ sincePoll \in Nat /\ sincePoll <= PollBound
        /\ LongestWait + sincePoll \in Nat /\ LongestWait + sincePoll + Pre < Post
        /\ LongestWait + sincePoll < Quarter /\ LongestWait + sincePoll < Modulus
    BY <1>1 DEF TypeOK, PollsOften
  <1>3. LongestWait + sincePoll \in Time
    BY <1>2 DEF Time
  <1>4. Oldest \in Time
    BY <1>3, SubType DEF Oldest, TypeOK
  <1>5. ASSUME NEW k \in Slots PROVE timer[k].t \in Time /\ After(Oldest, timer[k].t) \in Time
    <2>1. timer[k].t \in Time
      BY DEF TypeOK, Event
    <2> QED
      BY <1>4, <2>1, SubType DEF After
  <1> QED
    BY <1>1, <1>2, <1>4, <1>5

\* The thresholds of WaitingFor.
LEMMA Levels ==
    ASSUME NEW n \in 1 .. MaxTimerNum
    PROVE  /\ n * PollBound \in Nat /\ n * PollBound <= LongestWait
           /\ (n + 1) * PollBound = n * PollBound + PollBound
           /\ 1 * PollBound = PollBound
  <1> USE TimeAssumption, TableAssumption
  <1>1. /\ n \in Nat /\ MaxTimerNum \in Nat /\ PollBound \in Nat /\ MaxTimerNum - n \in Nat
        /\ MaxTimerNum = n + (MaxTimerNum - n)
    OBVIOUS
  <1>2. ASSUME NEW a \in Nat, NEW d \in Nat, NEW p \in Nat
        PROVE  /\ a * p \in Nat /\ a * p <= (a + d) * p
               /\ (a + 1) * p = a * p + p /\ 1 * p = p
    <2>1. (a + d) * p = a * p + d * p /\ d * p \in Nat /\ a * p \in Nat
      BY SMT
    <2>2. (a + 1) * p = a * p + p /\ 1 * p = p
      BY SMT
    <2> QED
      BY <2>1, <2>2
  <1> QED
    BY <1>1, <1>2 DEF LongestWait

LEMMA Fewer ==
    ASSUME NEW S, NEW T, IsFiniteSet(T), NEW h \in [S -> T],
           \A a, b \in S : h[a] = h[b] => a = b
    PROVE  /\ IsFiniteSet(S) /\ Cardinality(S) \in Nat /\ Cardinality(T) \in Nat
           /\ Cardinality(S) <= Cardinality(T)
  <1>1. h \in Injection(S, T)
    BY DEF Injection, IsInjective
  <1>2. IsFiniteSet(S) /\ Cardinality(S) <= Cardinality(T)
    BY <1>1, FS_Injection
  <1> QED
    BY <1>2, FS_CardinalityType

LEMMA WaitingFinite ==
    ASSUME NEW n
    PROVE  /\ WaitingFor(n) \subseteq Armed /\ Armed \subseteq Slots
           /\ IsFiniteSet(WaitingFor(n)) /\ Cardinality(WaitingFor(n)) \in Nat
           /\ Cardinality(WaitingFor(n)) <= MaxTimerNum
  <1>1. WaitingFor(n) \subseteq Armed /\ Armed \subseteq Slots
    BY DEF WaitingFor, Armed
  <1>2. IsFiniteSet(Slots) /\ Cardinality(Slots) = MaxTimerNum
    BY FS_Interval, TableAssumption DEF Slots
  <1>3. WaitingFor(n) \in SUBSET Slots
    BY <1>1
  <1> QED
    BY <1>1, <1>2, <1>3, FS_Subset, FS_CardinalityType

\* The primed form of the same.
LEMMA WaitingFinite2 ==
    ASSUME NEW n
    PROVE  IsFiniteSet(WaitingFor(n)') /\ Cardinality(WaitingFor(n)') \in Nat
  <1>1. IsFiniteSet(Slots)
    BY FS_Interval, TableAssumption DEF Slots
  <1>2. WaitingFor(n)' \in SUBSET Slots
    BY DEF WaitingFor, Armed
  <1> QED
    BY <1>1, <1>2, FS_Subset, FS_CardinalityType

\* Fewer timers wait when they are some of those that waited before, and when
\* every one of them has moved from a slot of its own.
LEMMA WaitSubset ==
    ASSUME NEW n, NEW x, WaitingFor(n)' \subseteq WaitingFor(n) \ x
    PROVE  Cardinality(WaitingFor(n)') <= Cardinality(WaitingFor(n) \ x)
  <1>1. IsFiniteSet(WaitingFor(n) \ x)
    <2>1. WaitingFor(n) \ x \in SUBSET WaitingFor(n)
      OBVIOUS
    <2> QED
      BY <2>1, WaitingFinite, FS_Subset
  <1>2. WaitingFor(n)' \in SUBSET (WaitingFor(n) \ x)
    OBVIOUS
  <1> QED
    BY <1>1, <1>2, FS_Subset

LEMMA WaitSame ==
    ASSUME NEW n, WaitingFor(n)' \subseteq WaitingFor(n)
    PROVE  Cardinality(WaitingFor(n)') <= Cardinality(WaitingFor(n))
  <1>1. WaitingFor(n)' \in SUBSET WaitingFor(n)
    OBVIOUS
  <1> QED
    BY <1>1, WaitingFinite, FS_Subset

\* The slot an event comes from when the events behind index are moved up.
From(index, k) == IF k < index THEN k ELSE k + 1

LEMMA Shifted ==
    ASSUME TypeOK, NEW index \in Nat, index < currentNum, DeleteByIndex(index)
    PROVE  /\ currentNum' = currentNum - 1 /\ timer' = ShiftDown(index)
           /\ \A k \in Armed' : /\ k \in Nat /\ From(index, k) \in Armed /\ From(index, k) # index
                                /\ timer'[k] = timer[From(index, k)]
           /\ \A k \in Slots : \E m \in Slots : timer'[k] = timer[m]
  <1> USE TableAssumption DEF TypeOK
  <1>1. currentNum' = currentNum - 1 /\ timer' = ShiftDown(index)
    BY DEF DeleteByIndex
  <1>2. ASSUME NEW k \in Armed'
        PROVE  /\ k \in Nat /\ From(index, k) \in Armed /\ From(index, k) # index
               /\ timer'[k] = timer[From(index, k)]
    <2>1. k \in Slots /\ k < currentNum - 1 /\ k \in Nat
      BY <1>1 DEF Armed, Slots
    <2>2. timer'[k] = IF index <= k THEN timer[k + 1] ELSE timer[k]
      BY <1>1, <2>1 DEF ShiftDown
    <2> QED
      BY <2>1, <2>2 DEF From, Armed, Slots
  <1>3. ASSUME NEW k \in Slots PROVE \E m \in Slots : timer'[k] = timer[m]
    <2>1. timer'[k] = IF index <= k /\ k < currentNum - 1 THEN timer[k + 1] ELSE timer[k]
      BY <1>1 DEF ShiftDown
    <2>2. k < currentNum - 1 => k + 1 \in Slots
      BY DEF Slots
    <2> QED
      BY <2>1, <2>2
  <1> QED
    BY <1>1, <1>2, <1>3

\* The slot an event comes from after a comparison of the sort.
SwapFrom(k) == IF k = pos THEN pos + 1 ELSE IF k = pos + 1 THEN pos ELSE k

LEMMA SortMoves ==
    ASSUME TypeOK, ControlInv, SortStep
    PROVE  /\ currentNum' = currentNum
           /\ \/ timer' = timer
              \/ \A k \in Slots :
                   /\ SwapFrom(k) \in Slots /\ timer'[k] = timer[SwapFrom(k)]
                   /\ k \in Armed <=> SwapFrom(k) \in Armed
  <1>1. currentNum' = currentNum
    BY DEF SortStep
  <1>2. CASE pos < currentNum - pass - 1 /\ timer' = Swapped(pos)
    <2>1. pos \in Armed /\ pos + 1 \in Armed /\ pos \in Slots /\ pos + 1 \in Slots /\ pos \in Nat
      BY <1>2, TableAssumption DEF TypeOK, Armed, Slots
    <2>2. timer'[pos] = timer[pos + 1] /\ timer'[pos + 1] = timer[pos]
      BY <1>2, <2>1 DEF Swapped, TypeOK
    <2>3. \A k \in Slots : k # pos /\ k # pos + 1 => timer'[k] = timer[k]
      BY <1>2 DEF Swapped, TypeOK
    <2> QED
      BY <1>1, <2>1, <2>2, <2>3 DEF SwapFrom
  <1>3. CASE timer' = timer
    BY <1>1, <1>3
  <1> QED
    BY <1>2, <1>3 DEF SortStep

----------------------------------------------------------------------------
(* The strengthening is preserved.                                         *)

LEMMA OldestStep ==
    ASSUME TypeOK, PollsOften, [Next]_vars, ~Process PROVE Oldest' = Oldest
  <1>1. CASE Tick
    <2>1. clock' = Plus(clock, 1) /\ sincePoll' = sincePoll + 1 /\ clock \in Time
      BY <1>1 DEF Tick, TypeOK
    <2>2. PICK w \in Nat : w = LongestWait + sincePoll
      BY OldestType
    <2>3. LongestWait + sincePoll' = w + 1 /\ w + 1 < Modulus
      BY <2>1, <2>2, OldestType, TimeAssumption
    <2>4. Sub(Plus(clock, 1), w + 1) = Sub(clock, w)
      BY <2>1, <2>3, BackFromNext
    <2> QED
      BY <2>1, <2>2, <2>3, <2>4 DEF Oldest
  <1>2. CASE ~Tick
    <2>1. clock' = clock /\ sincePoll' = sincePoll
      BY <1>2 DEF Next, Add, Delete, LoopSkip, LoopCall, ReturnDelete, ReturnKeep, ReturnNew,
                  Rearm, LeaveEmpty, LeaveSort, LeaveArm, SortStep, SortReturnsToProcess,
                  SortReturnsToAdd, vars
    <2> QED
      BY <2>1 DEF Oldest
  <1> QED
    BY <1>1, <1>2

\* A call of process moves the oldest expiry by the ticks since the last one,
\* which no armed timer is too old for.
LEMMA EntryAges ==
    ASSUME TypeOK, PollsOften, PassInv, WaitInv, Process
    PROVE  /\ ~InProcess /\ i = 0 /\ clock' = clock /\ sincePoll' = 0
           /\ UNCHANGED <<timer, currentNum>>
           /\ Oldest' = Sub(clock, LongestWait)
           /\ \A k \in Armed : /\ sincePoll <= After(Oldest, timer[k].t)
                               /\ After(Oldest', timer[k].t) = After(Oldest, timer[k].t) - sincePoll
  <1> USE TimeAssumption, TableAssumption
  <1>1. /\ pc = "idle" /\ clock' = clock /\ sincePoll' = 0 /\ UNCHANGED <<timer, currentNum>>
    BY DEF Process, ProcessEmpty, ProcessNotDue, ProcessBegin
  <1>2. ~InProcess /\ i = 0
    BY <1>1 DEF InProcess, PassInv
  <1>3. Oldest' = Sub(clock, LongestWait)
    BY <1>1, OldestType DEF Oldest
  <1>4. ASSUME NEW k \in Armed
        PROVE  /\ sincePoll <= After(Oldest, timer[k].t)
               /\ After(Oldest', timer[k].t) = After(Oldest, timer[k].t) - sincePoll
    <2>1. 1 \in 1 .. MaxTimerNum
      OBVIOUS
    <2>2. Cardinality(WaitingFor(1)) = 0
      <3>1. Cardinality(WaitingFor(1)) <= 1 - 1
        BY <1>2, <2>1 DEF WaitInv, HeadToServe
      <3> QED
        BY <3>1, WaitingFinite
    <2>3. WaitingFor(1) = {}
      BY <2>2, WaitingFinite, FS_EmptySet
    <2>4. ~(After(Oldest, timer[k].t) < 1 * PollBound)
      BY <2>3 DEF WaitingFor
    <2>5. k \in Slots
      BY DEF Armed
    <2>6. timer[k].t \in Time /\ After(Oldest, timer[k].t) \in Nat
      BY <2>5, OldestType DEF Time
    <2>7. sincePoll <= After(Oldest, timer[k].t)
      BY <2>1, <2>4, <2>6, Levels, OldestType
    <2>8. After(Sub(clock, LongestWait), timer[k].t)
             = After(Sub(clock, LongestWait + sincePoll), timer[k].t) - sincePoll
      BY <2>6, <2>7, OldestType, AfterLater DEF Oldest, TypeOK
    <2> QED
      BY <1>3, <2>7, <2>8 DEF Oldest
  <1> QED
    BY <1>1, <1>2, <1>3, <1>4

LEMMA PassStep ==
    ASSUME TypeOK, ControlInv, PassInv, PollsOften, [Next]_vars PROVE PassInv'
  <1> USE TimeAssumption, TableAssumption
  <1>1. ASSUME NEW cb \in Callbacks, NEW us \in IntervalsUs, Add(cb, us) PROVE PassInv'
    <2>1. currentNum + 1 \in 1 .. MaxTimerNum
      BY <1>1 DEF Add, TypeOK
    <2>2. /\ pc' = "sort" /\ ret' = pc /\ pc \in {"idle", "cb"}
          /\ UNCHANGED <<clock, sincePoll, i, now, changeFlg>>
      BY <1>1, <2>1 DEF Add, StartSort, Calling, locals
    <2> QED
      BY <2>2 DEF PassInv, InProcess
  <1>2. ASSUME NEW cb \in Deletable, Delete(cb) PROVE PassInv'
    <2>1. /\ pc' = pc /\ ret' = ret /\ pc \in {"idle", "cb"}
          /\ UNCHANGED <<clock, sincePoll, i, now, changeFlg>>
      BY <1>2 DEF Delete, Calling, locals, sorting
    <2> QED
      BY <2>1 DEF PassInv, InProcess
  <1>3. CASE ProcessEmpty \/ ProcessNotDue
    <2>1. pc = "idle" /\ pc' = pc /\ ret' = ret /\ UNCHANGED <<i, now, changeFlg>>
      BY <1>3 DEF ProcessEmpty, ProcessNotDue, locals, sorting
    <2> QED
      BY <2>1 DEF PassInv, InProcess
  <1>4. CASE ProcessBegin
    <2>1. /\ now' = clock /\ clock' = clock /\ sincePoll' = 0 /\ i' = 0 /\ ~changeFlg'
          /\ pc' = "loop" /\ currentNum' > 0 /\ timer' = timer /\ Expired(timer[0].t, clock)
      BY <1>4 DEF ProcessBegin
    <2>2. Sub(clock, 0) = clock
      BY ZeroIn, SubCases DEF TypeOK, Time
    <2> QED
      BY <2>1, <2>2 DEF PassInv, Expired, Sub
  <1>5. CASE LoopSkip
    <2>1. /\ pc' = "loop" /\ i' = i + 1 /\ pc = "loop" /\ UNCHANGED <<clock, sincePoll, now>>
      BY <1>5 DEF LoopSkip
    <2>2. i' # 0
      BY <2>1 DEF TypeOK
    <2> QED
      BY <2>1, <2>2 DEF PassInv, InProcess
  <1>6. CASE LoopCall
    <2>1. /\ pc' = "cb" /\ pc = "loop" /\ UNCHANGED <<clock, sincePoll, i, now, changeFlg>>
      BY <1>6 DEF LoopCall
    <2> QED
      BY <2>1 DEF PassInv, InProcess
  <1>7. ASSUME pc = "cb", pc' = "loop", i' = i + 1, UNCHANGED <<clock, sincePoll, now>>
        PROVE  PassInv'
    <2>1. i' # 0
      BY <1>7 DEF TypeOK
    <2> QED
      BY <1>7, <2>1 DEF PassInv, InProcess
  <1>8. CASE ReturnDelete
    BY <1>7, <1>8 DEF ReturnDelete
  <1>9. ASSUME NEW interval, pc = "cb", Rearm(interval) PROVE PassInv'
    BY <1>7, <1>9 DEF Rearm
  <1>10. CASE LeaveEmpty \/ LeaveArm
    BY <1>10 DEF LeaveEmpty, LeaveArm, PassInv, InProcess
  <1>11. CASE LeaveSort
    <2>1. /\ pc = "loop" /\ i # 0 /\ UNCHANGED <<clock, sincePoll, i, now, changeFlg>>
      BY <1>11 DEF LeaveSort, locals, TypeOK
    <2>2. pc' = "exit" \/ (pc' = "sort" /\ ret' = "exit")
      BY <1>11 DEF LeaveSort, StartSort, TypeOK
    <2> QED
      BY <2>1, <2>2 DEF PassInv, InProcess
  <1>12. CASE SortStep
    BY <1>12 DEF SortStep, locals, PassInv, InProcess
  <1>13. CASE SortReturnsToProcess
    <2>1. /\ pc = "sort" /\ ret = "exit" /\ pc' = "exit"
          /\ UNCHANGED <<clock, sincePoll, i, now, changeFlg>>
      BY <1>13 DEF SortReturnsToProcess, locals
    <2> QED
      BY <2>1 DEF PassInv, InProcess
  <1>14. CASE SortReturnsToAdd
    <2>1. /\ pc = "sort" /\ ret \in {"idle", "cb"} /\ pc' = ret
          /\ UNCHANGED <<clock, sincePoll, i, now, changeFlg>>
      BY <1>14 DEF SortReturnsToAdd, locals, TypeOK
    <2> QED
      BY <2>1 DEF PassInv, InProcess
  <1>15. CASE Tick
    <2>1. /\ pc \in {"idle", "cb"} /\ clock' = Plus(clock, 1) /\ sincePoll' = sincePoll + 1
          /\ UNCHANGED <<pc, ret, i, now, changeFlg>>
      BY <1>15 DEF Tick, locals, sorting
    <2>2. Sub(Plus(clock, 1), sincePoll + 1) = Sub(clock, sincePoll)
      <3>1. sincePoll \in Nat /\ sincePoll + 1 < Modulus
        BY OldestType
      <3> QED
        BY <3>1, BackFromNext DEF TypeOK
    <2> QED
      BY <2>1, <2>2 DEF PassInv, InProcess
  <1>16. CASE UNCHANGED vars
    BY <1>16 DEF vars, PassInv, InProcess, Expired, Sub
  <1> QED
    BY <1>1, <1>2, <1>3, <1>4, <1>5, <1>6, <1>8, <1>9, <1>10, <1>11, <1>12, <1>13,
       <1>14, <1>15, <1>16 DEF Next, Process, ReturnKeep, ReturnNew

\* A new event: its expiry lies ahead of the last call of process.
LEMMA NewEvent ==
    ASSUME TypeOK, PollsOften, NEW interval \in Time,
           LongestWait + PollBound + interval < Quarter
    PROVE  /\ LongestWait <= After(Oldest, Plus(clock, interval))
           /\ After(Oldest, Plus(clock, interval)) < Quarter
           /\ PassInv /\ pc = "cb" =>
                /\ LongestWait <= After(Oldest, Plus(now, interval))
                /\ After(Oldest, Plus(now, interval)) < Quarter
  <1> USE TimeAssumption
  <1> DEFINE w == LongestWait + sincePoll
  <1>1. w \in Nat /\ w + interval < Quarter /\ w + interval < Modulus /\ LongestWait <= w
    BY OldestType DEF Time
  <1>2. After(Sub(clock, w), Plus(clock, interval)) = w + interval
    <2> HIDE DEF w
    <2> QED
      BY <1>1, AfterPlus DEF TypeOK
  <1>3. Sub(clock, w) = Oldest
    BY DEF Oldest
  <1>4. ASSUME PassInv, pc = "cb"
        PROVE  After(Oldest, Plus(now, interval)) = LongestWait + interval
    <2>1. now = Sub(clock, sincePoll) /\ now \in Time /\ clock \in Time
      BY <1>4 DEF PassInv, InProcess, TypeOK
    <2>2. Sub(now, LongestWait) = Oldest
      BY <2>1, OldestType, BackTwice DEF Oldest
    <2>3. LongestWait \in Nat /\ LongestWait + interval < Modulus
      BY OldestType DEF Time
    <2> QED
      BY <2>1, <2>2, <2>3, AfterPlus
  <1>5. LongestWait \in Nat /\ LongestWait + interval < Quarter /\ interval \in Nat
    BY OldestType DEF Time
  <1> HIDE DEF w
  <1> QED
    BY <1>1, <1>2, <1>3, <1>4, <1>5

\* Events that only move between slots, those of armed timers to slots of
\* armed timers.
LEMMA EventsMove ==
    ASSUME EventInv, Oldest' = Oldest, TypeOK,
           \A k \in Armed' : \E m \in Armed : timer'[k] = timer[m],
           \A k \in Slots : \E m \in Slots : timer'[k] = timer[m]
    PROVE  EventInv'
  <1>1. \A k \in Armed' : timer'[k].cb # Null
    BY DEF EventInv
  <1>2. \A k \in Slots : LongestWait + PollBound + timer'[k].interval < Quarter
    BY DEF EventInv
  <1>3. \A k \in Armed' : After(Oldest, timer'[k].t) < Quarter
    BY DEF EventInv, WithinQuarterOf
  <1> QED
    BY <1>1, <1>2, <1>3 DEF EventInv, WithinQuarterOf, LongestWait, After, Sub

LEMMA EventsKept ==
    ASSUME EventInv, TypeOK, Oldest' = Oldest, UNCHANGED <<timer, currentNum>>
    PROVE  EventInv'
  <1>1. Armed' = Armed /\ Armed \subseteq Slots
    BY DEF Armed
  <1> QED
    BY <1>1, EventsMove

\* One event is written, with a callback and an interval the code may use.
LEMMA EventWritten ==
    ASSUME EventInv, TypeOK, Oldest' = Oldest, NEW x \in Slots, NEW e \in Event,
           timer' = [timer EXCEPT ![x] = e], Armed' \subseteq Armed \cup {x},
           x \in Armed' => e.cb # Null,
           LongestWait + PollBound + e.interval < Quarter, After(Oldest, e.t) < Quarter
    PROVE  EventInv'
  <1>1. \A k \in Slots : timer'[k] = IF k = x THEN e ELSE timer[k]
    BY DEF TypeOK
  <1>2. Armed' \subseteq Slots
    BY DEF Armed
  <1>3. \A k \in Armed' : timer'[k].cb # Null
    BY <1>1, <1>2 DEF EventInv
  <1>4. \A k \in Slots : LongestWait + PollBound + timer'[k].interval < Quarter
    BY <1>1 DEF EventInv
  <1>5. \A k \in Armed' : After(Oldest, timer'[k].t) < Quarter
    BY <1>1, <1>2 DEF EventInv, WithinQuarterOf
  <1> QED
    BY <1>3, <1>4, <1>5 DEF EventInv, WithinQuarterOf, LongestWait, After, Sub

LEMMA EventStep ==
    ASSUME TypeOK, ControlInv, PassInv, WaitInv, EventInv, PollsOften, IntervalsShort,
           [Next]_vars
    PROVE  EventInv'
  <1> USE TableAssumption, ArgumentAssumption
  <1>1. ASSUME NEW cb \in Callbacks, NEW us \in IntervalsUs, Add(cb, us) PROVE EventInv'
    <2> DEFINE e == [cb |-> cb, t |-> Plus(clock, Ticks(us)), interval |-> Ticks(us)]
    <2>1. Oldest' = Oldest
      BY <1>1 DEF Add, Oldest
    <2>2. currentNum \in Slots /\ timer' = [timer EXCEPT ![currentNum] = e]
          /\ currentNum' = currentNum + 1
      BY <1>1 DEF Add, TypeOK, Slots
    <2>3. Armed' \subseteq Armed \cup {currentNum}
      BY <2>2 DEF Armed, Slots
    <2>4. Ticks(us) \in Time /\ LongestWait + PollBound + Ticks(us) < Quarter
      BY TicksType DEF IntervalsShort
    <2>5. e \in Event
      BY <2>4, PlusType DEF Event, TypeOK
    <2>6. After(Oldest, e.t) < Quarter
      BY <2>4, NewEvent
    <2> QED
      BY <2>1, <2>2, <2>3, <2>4, <2>5, <2>6, EventWritten
  <1>2. ASSUME NEW index \in Nat, DeleteByIndex(index), Oldest' = Oldest PROVE EventInv'
    <2>1. CASE index < currentNum
      BY <1>2, <2>1, Shifted, EventsMove
    <2>2. CASE ~(index < currentNum)
      <3>1. UNCHANGED <<timer, currentNum>>
        BY <1>2, <2>2 DEF DeleteByIndex, TypeOK
      <3> QED
        BY <1>2, <3>1, EventsKept
    <2> QED
      BY <2>1, <2>2
  <1>3. ASSUME NEW cb \in Deletable, Delete(cb) PROVE EventInv'
    <2>1. \E k \in Slots : DeleteByIndex(k)
      BY <1>3 DEF Delete
    <2>2. Oldest' = Oldest
      BY <1>3 DEF Delete, Oldest
    <2> QED
      BY <1>2, <2>1, <2>2 DEF Slots
  <1>4. CASE ReturnDelete
    <2>1. DeleteByIndex(i) /\ Oldest' = Oldest /\ i \in Nat
      BY <1>4 DEF ReturnDelete, Oldest, TypeOK
    <2> QED
      BY <1>2, <2>1
  <1>5. CASE Process
    <2>1. /\ UNCHANGED <<timer, currentNum>> /\ Armed' = Armed
          /\ \A k \in Armed : /\ sincePoll <= After(Oldest, timer[k].t)
                              /\ After(Oldest', timer[k].t) = After(Oldest, timer[k].t) - sincePoll
      BY <1>5, EntryAges DEF Armed
    <2>2. ASSUME NEW k \in Armed PROVE After(Oldest', timer[k].t) < Quarter
      <3>1. k \in Slots
        BY DEF Armed
      <3>2. After(Oldest, timer[k].t) < Quarter /\ After(Oldest, timer[k].t) \in Nat
        BY <3>1, OldestType DEF EventInv, WithinQuarterOf, Time
      <3> QED
        BY <2>1, <3>2, OldestType, TimeAssumption
    <2>3. WithinQuarterOf(Oldest)'
      BY <2>1, <2>2 DEF WithinQuarterOf, After, Sub
    <2> QED
      BY <2>1, <2>3 DEF EventInv, LongestWait
  <1>6. ASSUME NEW interval \in Time, pc = "cb", Rearm(interval),
               LongestWait + PollBound + interval < Quarter
        PROVE  EventInv'
    <2> DEFINE e == [cb |-> timer[i].cb, t |-> Plus(now, interval), interval |-> interval]
    <2>1. Oldest' = Oldest /\ i \in Slots
      BY <1>6 DEF Rearm, Oldest, ControlInv, TypeOK, Slots
    <2>2. timer' = [timer EXCEPT ![i] = e] /\ currentNum' = currentNum
      BY <1>6 DEF Rearm
    <2>3. Armed' = Armed
      BY <2>2 DEF Armed
    <2>4. i \in Armed' => e.cb # Null
      BY <2>3 DEF EventInv
    <2>5. e \in Event
      BY <2>1, PlusType DEF Event, TypeOK
    <2>6. After(Oldest, e.t) < Quarter
      BY <1>6, NewEvent
    <2> QED
      BY <1>6, <2>1, <2>2, <2>3, <2>4, <2>5, <2>6, EventWritten
  <1>7. CASE ReturnKeep
    <2>1. i \in Slots
      BY <1>7 DEF ReturnKeep, ControlInv, TypeOK, Slots
    <2>2. timer[i].interval \in Time /\ LongestWait + PollBound + timer[i].interval < Quarter
      BY <2>1 DEF TypeOK, Event, EventInv
    <2> QED
      BY <1>6, <1>7, <2>2 DEF ReturnKeep
  <1>8. ASSUME NEW us \in ResultsUs, ReturnNew(us) PROVE EventInv'
    <2>1. Ticks(us) \in Time /\ LongestWait + PollBound + Ticks(us) < Quarter
      BY TicksType DEF IntervalsShort
    <2> QED
      BY <1>6, <1>8, <2>1 DEF ReturnNew
  <1>9. CASE SortStep
    <2>1. Oldest' = Oldest
      BY <1>9 DEF SortStep, Oldest
    <2>2. Armed' = Armed /\ Armed \subseteq Slots
      BY <1>9, SortMoves DEF Armed
    <2>3. \A k \in Slots : \E m \in Slots : timer'[k] = timer[m] /\ (k \in Armed => m \in Armed)
      BY <1>9, SortMoves
    <2> QED
      BY <2>1, <2>2, <2>3, EventsMove
  <1>10. CASE LoopSkip \/ LoopCall \/ LeaveEmpty \/ LeaveSort \/ LeaveArm
              \/ SortReturnsToProcess \/ SortReturnsToAdd \/ UNCHANGED vars
    <2>1. UNCHANGED <<timer, currentNum, clock, sincePoll>>
      BY <1>10 DEF LoopSkip, LoopCall, LeaveEmpty, LeaveSort, LeaveArm,
                   SortReturnsToProcess, SortReturnsToAdd, vars
    <2>2. Oldest' = Oldest
      BY <2>1 DEF Oldest
    <2> QED
      BY <2>1, <2>2, EventsKept
  <1>11. CASE Tick
    <2>1. UNCHANGED <<timer, currentNum, pc>> /\ clock' = Plus(clock, 1) /\ sincePoll' = sincePoll + 1
      BY <1>11 DEF Tick
    <2>2. ~Process
      BY <2>1, OldestType DEF Process, ProcessEmpty, ProcessNotDue, ProcessBegin
    <2> QED
      BY <2>1, <2>2, OldestStep, EventsKept
  <1> QED
    BY <1>1, <1>3, <1>4, <1>5, <1>7, <1>8, <1>9, <1>10, <1>11 DEF Next

\* Removing an event leaves the others in order.
LEMMA OrderShifted ==
    ASSUME TypeOK, Oldest' = Oldest, OrderedFrom(Oldest),
           NEW index \in Nat, DeleteByIndex(index)
    PROVE  OrderedFrom(Oldest)'
  <1>1. CASE index < currentNum
    <2> SUFFICES ASSUME NEW k \in Armed', NEW m \in Armed', k < m
                 PROVE  After(Oldest, timer'[k].t) <= After(Oldest, timer'[m].t)
      BY DEF OrderedFrom, After, Sub
    <2>1. /\ k \in Nat /\ m \in Nat /\ From(index, k) \in Armed /\ From(index, m) \in Armed
          /\ timer'[k] = timer[From(index, k)] /\ timer'[m] = timer[From(index, m)]
      BY <1>1, Shifted
    <2>2. From(index, k) < From(index, m)
      BY <2>1 DEF From
    <2>3. After(Oldest, timer[From(index, k)].t) <= After(Oldest, timer[From(index, m)].t)
      BY <2>1, <2>2 DEF OrderedFrom
    <2> QED
      BY <2>1, <2>3
  <1>2. CASE ~(index < currentNum)
    <2>1. UNCHANGED <<timer, currentNum>>
      BY <1>2 DEF DeleteByIndex, TypeOK
    <2> QED
      BY <2>1 DEF OrderedFrom, After, Sub, Armed
  <1> QED
    BY <1>1, <1>2

LEMMA OrderKept ==
    ASSUME UNCHANGED <<timer, currentNum>>, Oldest' = Oldest, OrderedFrom(Oldest)
    PROVE  OrderedFrom(Oldest)'
  BY DEF OrderedFrom, After, Sub, Armed

LEMMA OrderStep ==
    ASSUME TypeOK, ControlInv, SortInv, PassInv, WaitInv, EventInv, OrderInv, PollsOften,
           [Next]_vars
    PROVE  OrderInv'
  <1> USE TableAssumption, ArgumentAssumption
  <1>1. SUFFICES ASSUME InOrderHere' PROVE OrderedFrom(Oldest)'
    BY DEF OrderInv, InOrderHere
  <1>2. InOrderHere => OrderedFrom(Oldest)
    BY DEF OrderInv, InOrderHere
  <1>3. ASSUME NEW cb \in Callbacks, NEW us \in IntervalsUs, Add(cb, us)
        PROVE  OrderedFrom(Oldest)'
    <2>1. pc' = "sort"
      BY <1>3 DEF Add, StartSort, TypeOK
    <2> QED
      BY <1>1, <2>1 DEF InOrderHere
  <1>4. ASSUME NEW cb \in Deletable, Delete(cb) PROVE OrderedFrom(Oldest)'
    <2>1. PICK k \in Slots : DeleteByIndex(k)
      BY <1>4 DEF Delete
    <2>2. UNCHANGED <<pc, changeFlg>> /\ Oldest' = Oldest
      BY <1>4 DEF Delete, locals, Oldest
    <2>3. OrderedFrom(Oldest)
      BY <1>1, <1>2, <2>2 DEF InOrderHere
    <2> QED
      BY <2>1, <2>2, <2>3, OrderShifted DEF Slots
  <1>5. CASE ReturnDelete
    <2>1. DeleteByIndex(i) /\ Oldest' = Oldest /\ i \in Nat
      BY <1>5 DEF ReturnDelete, Oldest, TypeOK
    <2>2. pc = "cb" /\ pc' = "loop" /\ changeFlg' = changeFlg
      BY <1>5 DEF ReturnDelete
    <2>3. OrderedFrom(Oldest)
      BY <1>1, <1>2, <2>2 DEF InOrderHere
    <2> QED
      BY <2>1, <2>3, OrderShifted
  <1>6. CASE Process
    <2>1. /\ UNCHANGED <<timer, currentNum>> /\ Armed' = Armed /\ pc = "idle"
          /\ \A k \in Armed : /\ sincePoll <= After(Oldest, timer[k].t)
                              /\ After(Oldest', timer[k].t) = After(Oldest, timer[k].t) - sincePoll
      BY <1>6, EntryAges DEF Armed, Process, ProcessEmpty, ProcessNotDue, ProcessBegin
    <2>2. OrderedFrom(Oldest)
      BY <1>2, <2>1 DEF InOrderHere
    <2>3. ASSUME NEW k \in Armed, NEW m \in Armed, k < m
          PROVE  After(Oldest', timer[k].t) <= After(Oldest', timer[m].t)
      <3>1. k \in Slots /\ m \in Slots
        BY DEF Armed
      <3>2. /\ After(Oldest, timer[k].t) \in Nat /\ After(Oldest, timer[m].t) \in Nat
            /\ sincePoll \in Nat
        BY <3>1, OldestType DEF Time
      <3>3. After(Oldest, timer[k].t) <= After(Oldest, timer[m].t)
        BY <2>2, <2>3 DEF OrderedFrom
      <3> QED
        BY <2>1, <3>2, <3>3
    <2> QED
      BY <2>1, <2>3 DEF OrderedFrom, After, Sub
  <1>7. ASSUME NEW interval, Rearm(interval) PROVE OrderedFrom(Oldest)'
    BY <1>1, <1>7 DEF Rearm, InOrderHere
  <1>8. CASE LoopSkip \/ LoopCall \/ LeaveArm
    <2>1. InOrderHere
      BY <1>1, <1>8 DEF LoopSkip, LoopCall, LeaveArm, InOrderHere
    <2>2. UNCHANGED <<timer, currentNum, clock, sincePoll>>
      BY <1>8 DEF LoopSkip, LoopCall, LeaveArm
    <2>3. Oldest' = Oldest
      BY <2>2 DEF Oldest
    <2> QED
      BY <1>2, <2>1, <2>2, <2>3, OrderKept
  <1>9. CASE LeaveEmpty
    BY <1>9 DEF LeaveEmpty, OrderedFrom, Armed, Slots
  <1>10. CASE LeaveSort
    <2>1. ~changeFlg /\ pc = "loop"
      BY <1>1, <1>10 DEF LeaveSort, StartSort, InOrderHere, TypeOK
    <2>2. UNCHANGED <<timer, currentNum, clock, sincePoll>>
      BY <1>10 DEF LeaveSort
    <2>3. Oldest' = Oldest
      BY <2>2 DEF Oldest
    <2> QED
      BY <1>2, <2>1, <2>2, <2>3, OrderKept DEF InOrderHere
  <1>11. CASE SortStep
    BY <1>1, <1>11 DEF SortStep, InOrderHere
  <1>12. CASE SortReturnsToProcess \/ SortReturnsToAdd
    <2>1. /\ pc = "sort" /\ SortDone /\ UNCHANGED <<timer, currentNum, clock, sincePoll>>
      BY <1>12 DEF SortReturnsToProcess, SortReturnsToAdd
    <2>2. Oldest' = Oldest
      BY <2>1 DEF Oldest
    <2>3. OrderedFrom(Oldest)
      BY <2>1, OldestType, SortedWhenDone DEF EventInv
    <2> QED
      BY <2>1, <2>2, <2>3, OrderKept
  <1>13. CASE Tick
    <2>1. UNCHANGED <<timer, currentNum, pc, changeFlg>> /\ sincePoll' = sincePoll + 1
      BY <1>13 DEF Tick, locals
    <2>2. ~Process
      BY <2>1, OldestType DEF Process, ProcessEmpty, ProcessNotDue, ProcessBegin
    <2>3. InOrderHere
      BY <1>1, <2>1 DEF InOrderHere
    <2> QED
      BY <1>2, <2>1, <2>2, <2>3, OldestStep, OrderKept
  <1>14. CASE UNCHANGED vars
    <2>1. UNCHANGED <<timer, currentNum, clock, sincePoll>> /\ InOrderHere
      BY <1>1, <1>14 DEF vars, InOrderHere
    <2>2. Oldest' = Oldest
      BY <2>1 DEF Oldest
    <2> QED
      BY <1>2, <2>1, <2>2, OrderKept
  <1> QED
    BY <1>3, <1>4, <1>5, <1>6, <1>7, <1>8, <1>9, <1>10, <1>11, <1>12, <1>13, <1>14
       DEF Next, ReturnKeep, ReturnNew

\* The timers that wait only move to other slots, or are no longer there.
LEMMA WaitShifted ==
    ASSUME TypeOK, Oldest' = Oldest, NEW index \in Nat, index < currentNum,
           DeleteByIndex(index), NEW n
    PROVE  Cardinality(WaitingFor(n)') <= Cardinality(WaitingFor(n) \ {index})
  <1> DEFINE S == WaitingFor(n)'
             T == WaitingFor(n) \ {index}
             h == [k \in S |-> From(index, k)]
  <1>1. ASSUME NEW k \in S PROVE k \in Nat /\ From(index, k) \in T
    <2>1. k \in Armed' /\ After(Oldest, timer'[k].t) < n * PollBound
      BY DEF WaitingFor, After, Sub
    <2> QED
      BY <2>1, Shifted DEF WaitingFor
  <1>2. IsFiniteSet(T)
    <2>1. T \in SUBSET WaitingFor(n)
      OBVIOUS
    <2> QED
      BY <2>1, WaitingFinite, FS_Subset
  <1>3. h \in [S -> T]
    BY <1>1
  <1>4. ASSUME NEW a \in S, NEW b \in S, h[a] = h[b] PROVE a = b
    <2>1. From(index, a) = From(index, b) /\ a \in Nat /\ b \in Nat
      BY <1>1, <1>4
    <2> QED
      BY <2>1 DEF From
  <1> HIDE DEF S, T, h
  <1>5. Cardinality(S) <= Cardinality(T)
    BY <1>2, <1>3, <1>4, Fewer
  <1> QED
    BY <1>5 DEF S, T

LEMMA WaitDeleted ==
    ASSUME TypeOK, Oldest' = Oldest, NEW index \in Nat, DeleteByIndex(index), NEW n
    PROVE  Cardinality(WaitingFor(n)') <= Cardinality(WaitingFor(n))
  <1>1. CASE index < currentNum
    <2>1. WaitingFor(n) \ {index} \in SUBSET WaitingFor(n)
      OBVIOUS
    <2>2. Cardinality(WaitingFor(n) \ {index}) <= Cardinality(WaitingFor(n))
          /\ Cardinality(WaitingFor(n) \ {index}) \in Nat
      BY <2>1, WaitingFinite, FS_Subset, FS_CardinalityType
    <2>3. Cardinality(WaitingFor(n)') <= Cardinality(WaitingFor(n) \ {index})
      BY <1>1, WaitShifted
    <2> QED
      BY <2>2, <2>3, WaitingFinite, WaitingFinite2
  <1>2. CASE ~(index < currentNum)
    <2>1. UNCHANGED <<timer, currentNum>>
      BY <1>2 DEF DeleteByIndex, TypeOK
    <2>2. WaitingFor(n)' \subseteq WaitingFor(n)
      BY <2>1 DEF WaitingFor, Armed, After, Sub
    <2> QED
      BY <2>2, WaitSame
  <1> QED
    BY <1>1, <1>2

LEMMA WaitSwapped ==
    ASSUME TypeOK, ControlInv, SortStep, Oldest' = Oldest, NEW n
    PROVE  Cardinality(WaitingFor(n)') <= Cardinality(WaitingFor(n))
  <1>1. CASE timer' = timer
    <2>1. WaitingFor(n)' \subseteq WaitingFor(n)
      BY <1>1, SortMoves DEF WaitingFor, Armed, After, Sub
    <2> QED
      BY <2>1, WaitSame
  <1>2. CASE \A k \in Slots : /\ SwapFrom(k) \in Slots /\ timer'[k] = timer[SwapFrom(k)]
                              /\ k \in Armed <=> SwapFrom(k) \in Armed
    <2> DEFINE S == WaitingFor(n)'
               T == WaitingFor(n)
               h == [k \in S |-> SwapFrom(k)]
    <2>1. Armed' = Armed /\ Armed \subseteq Slots
      BY SortMoves DEF Armed
    <2>2. ASSUME NEW k \in S PROVE k \in Nat /\ SwapFrom(k) \in T
      <3>1. k \in Armed /\ k \in Slots /\ After(Oldest, timer'[k].t) < n * PollBound
        BY <2>1 DEF WaitingFor, After, Sub
      <3> QED
        BY <1>2, <3>1, TableAssumption DEF WaitingFor, Slots
    <2>3. h \in [S -> T]
      BY <2>2
    <2>4. ASSUME NEW a \in S, NEW b \in S, h[a] = h[b] PROVE a = b
      <3>1. SwapFrom(a) = SwapFrom(b) /\ a \in Nat /\ b \in Nat /\ pos \in Nat
        BY <2>2, <2>4, TableAssumption DEF TypeOK
      <3> QED
        BY <3>1 DEF SwapFrom
    <2>5. IsFiniteSet(T)
      BY WaitingFinite
    <2> HIDE DEF S, T, h
    <2>6. Cardinality(S) <= Cardinality(T)
      BY <2>3, <2>4, <2>5, Fewer
    <2> QED
      BY <2>6 DEF S, T
  <1> QED
    BY <1>1, <1>2, SortMoves

\* An event that is written lies ahead of the last call: its timer does not
\* wait, and the others wait as before.
LEMMA WaitWritten ==
    ASSUME TypeOK, PollsOften, Oldest' = Oldest, NEW x \in Slots, NEW e \in Event,
           timer' = [timer EXCEPT ![x] = e], Armed' \subseteq Armed \cup {x},
           LongestWait <= After(Oldest, e.t), NEW n \in 1 .. MaxTimerNum
    PROVE  WaitingFor(n)' \subseteq WaitingFor(n) \ {x}
  <1> SUFFICES ASSUME NEW k \in WaitingFor(n)' PROVE k \in WaitingFor(n) /\ k # x
    OBVIOUS
  <1>1. k \in Armed' /\ k \in Slots /\ After(Oldest, timer'[k].t) < n * PollBound
    BY DEF WaitingFor, Armed, After, Sub
  <1>2. k # x
    <2>1. SUFFICES ASSUME k = x PROVE FALSE
      OBVIOUS
    <2>2. After(Oldest, e.t) < n * PollBound
      BY <1>1, <2>1 DEF TypeOK
    <2>3. After(Oldest, e.t) \in Time
      BY OldestType, SubType DEF Event, After
    <2> QED
      BY <2>2, <2>3, Levels, OldestType DEF Time
  <1>3. timer'[k] = timer[k] /\ k \in Armed
    BY <1>1, <1>2 DEF TypeOK
  <1> QED
    BY <1>1, <1>2, <1>3 DEF WaitingFor

\* Once the head has been served, one timer less waits.
LEMMA HeadServed ==
    ASSUME OrderedFrom(Oldest), TypeOK, PollsOften, currentNum > 0, NEW n \in 1 .. MaxTimerNum,
           Cardinality(WaitingFor(n)) <= n
    PROVE  /\ Cardinality(WaitingFor(n) \ {0}) <= n - 1
           /\ Cardinality(WaitingFor(n) \ {0}) \in Nat
  <1> USE TableAssumption
  <1>0. n \in Nat /\ n > 0
    OBVIOUS
  <1>1. CASE 0 \in WaitingFor(n)
    <2>1. /\ IsFiniteSet(WaitingFor(n) \ {0})
          /\ Cardinality(WaitingFor(n) \ {0}) = Cardinality(WaitingFor(n)) - 1
      BY <1>1, WaitingFinite, FS_RemoveElement
    <2> QED
      BY <1>0, <2>1, WaitingFinite, FS_CardinalityType
  <1>2. CASE 0 \notin WaitingFor(n)
    <2>1. 0 \in Armed /\ 0 \in Slots
      BY ZeroIn DEF Armed
    <2>2. ~(After(Oldest, timer[0].t) < n * PollBound)
      BY <1>2, <2>1 DEF WaitingFor
    <2>3. ASSUME NEW k \in WaitingFor(n) PROVE FALSE
      <3>1. k \in Armed /\ k \in Slots /\ After(Oldest, timer[k].t) < n * PollBound
        BY DEF WaitingFor, Armed
      <3>2. k # 0
        BY <1>2, <2>3
      <3>3. k > 0
        BY <3>1, <3>2 DEF Slots
      <3>4. After(Oldest, timer[0].t) <= After(Oldest, timer[k].t)
        BY <2>1, <3>1, <3>3 DEF OrderedFrom
      <3>5. After(Oldest, timer[0].t) \in Nat /\ After(Oldest, timer[k].t) \in Nat
        BY <2>1, <3>1, OldestType DEF Time
      <3> QED
        BY <2>2, <3>1, <3>4, <3>5, Levels
    <2>4. WaitingFor(n) \ {0} = {}
      BY <2>3
    <2> QED
      BY <1>0, <2>4, FS_EmptySet
  <1> QED
    BY <1>1, <1>2

LEMMA NoneArmed ==
    ASSUME currentNum' = 0, NEW n \in 1 .. MaxTimerNum
    PROVE  Cardinality(WaitingFor(n)') = 0
  <1>1. WaitingFor(n)' = {}
    BY DEF WaitingFor, Armed, Slots
  <1> QED
    BY <1>1, FS_EmptySet

\* A call of process: each timer has waited for one call more; if the head is
\* not due, none has waited.
LEMMA WaitEntry ==
    ASSUME TypeOK, PollsOften, PassInv, OrderInv, WaitInv, Process, NEW n \in 1 .. MaxTimerNum
    PROVE  /\ Cardinality(WaitingFor(n)') <= n
           /\ ~ProcessBegin => Cardinality(WaitingFor(n)') = 0
  <1> USE TableAssumption, TimeAssumption
  <1>1. /\ UNCHANGED <<timer, currentNum>> /\ Armed' = Armed /\ ~InProcess
        /\ Oldest' = Sub(clock, LongestWait)
        /\ \A k \in Armed : /\ sincePoll <= After(Oldest, timer[k].t)
                            /\ After(Oldest', timer[k].t) = After(Oldest, timer[k].t) - sincePoll
    BY EntryAges DEF Armed
  <1>2. ASSUME NEW k \in Armed
        PROVE  k \in Slots /\ After(Oldest, timer[k].t) \in Nat /\ sincePoll \in Nat
    <2>1. k \in Slots
      BY DEF Armed
    <2> QED
      BY <2>1, OldestType DEF Time
  <1>3. ASSUME NEW k \in WaitingFor(n)'
        PROVE  k \in Armed /\ After(Oldest, timer[k].t) - sincePoll < n * PollBound
    <2>1. k \in Armed /\ After(Oldest', timer[k].t) < n * PollBound
      BY <1>1 DEF WaitingFor, After, Sub
    <2> QED
      BY <1>1, <2>1
  <1>4. Cardinality(WaitingFor(n)') <= n
    <2>1. CASE n = MaxTimerNum
      <3>1. WaitingFor(n)' \in SUBSET Slots
        BY <1>2, <1>3
      <3>2. IsFiniteSet(Slots) /\ Cardinality(Slots) = MaxTimerNum
        BY FS_Interval DEF Slots
      <3> QED
        BY <2>1, <3>1, <3>2, FS_Subset
    <2>2. CASE n # MaxTimerNum
      <3>1. n + 1 \in 1 .. MaxTimerNum /\ n \in Nat
        BY <2>2
      <3>2. ASSUME NEW k \in WaitingFor(n)' PROVE k \in WaitingFor(n + 1)
        <4>1. k \in Armed /\ After(Oldest, timer[k].t) - sincePoll < n * PollBound
          BY <1>3
        <4>2. After(Oldest, timer[k].t) < (n + 1) * PollBound
          <5>1. /\ After(Oldest, timer[k].t) \in Nat /\ sincePoll \in Nat
                /\ sincePoll <= PollBound /\ PollBound \in Nat
            BY <1>2, <4>1, OldestType
          <5>2. n * PollBound \in Nat /\ (n + 1) * PollBound = n * PollBound + PollBound
            BY Levels
          <5> QED
            BY <4>1, <5>1, <5>2
        <4> QED
          BY <4>1, <4>2 DEF WaitingFor
      <3>3. WaitingFor(n)' \in SUBSET WaitingFor(n + 1)
        BY <3>2
      <3>4. Cardinality(WaitingFor(n)') <= Cardinality(WaitingFor(n + 1))
        BY <3>3, WaitingFinite, FS_Subset
      <3>5. Cardinality(WaitingFor(n + 1)) <= (n + 1) - 1
        BY <1>1, <3>1 DEF WaitInv, HeadToServe
      <3> QED
        BY <3>1, <3>4, <3>5, WaitingFinite, WaitingFinite2
    <2> QED
      BY <2>1, <2>2
  <1>5. CASE ProcessEmpty
    BY <1>1, <1>4, <1>5, NoneArmed DEF ProcessEmpty, ProcessBegin
  <1>6. CASE ProcessNotDue
    <2>1. currentNum > 0 /\ ~Expired(timer[0].t, clock) /\ pc = "idle"
      BY <1>6 DEF ProcessNotDue
    <2>2. 0 \in Armed /\ 0 \in Slots
      BY <2>1, ZeroIn DEF Armed
    <2>3. timer[0].t \in Time /\ LongestWait \in Nat /\ LongestWait + Pre < Post
      BY <2>2, OldestType
    <2>4. ~(After(Oldest', timer[0].t) <= LongestWait)
      BY <1>1, <2>1, <2>3, Reached DEF TypeOK
    <2>5. ASSUME NEW k \in WaitingFor(n)' PROVE FALSE
      <3>1. k \in Armed /\ After(Oldest, timer[k].t) - sincePoll < n * PollBound
        BY <1>3
      <3>2. After(Oldest, timer[0].t) <= After(Oldest, timer[k].t)
        <4>1. k = 0 \/ 0 < k
          BY <1>2, <3>1 DEF Slots
        <4>2. OrderedFrom(Oldest)
          BY <2>1 DEF OrderInv, InOrderHere
        <4>3. After(Oldest, timer[0].t) \in Nat
          BY <1>2, <2>2
        <4> QED
          BY <2>2, <3>1, <4>1, <4>2, <4>3 DEF OrderedFrom
      <3>3. After(Oldest', timer[0].t) = After(Oldest, timer[0].t) - sincePoll
        BY <1>1, <2>2
      <3>4. /\ After(Oldest, timer[0].t) \in Nat /\ After(Oldest, timer[k].t) \in Nat
            /\ sincePoll \in Nat
        BY <1>2, <2>2, <3>1
      <3> QED
        BY <2>3, <2>4, <3>1, <3>2, <3>3, <3>4, Levels
    <2>6. WaitingFor(n)' = {}
      BY <2>5
    <2> QED
      BY <1>4, <2>6, FS_EmptySet
  <1> QED
    BY <1>4, <1>5, <1>6 DEF Process

LEMMA WaitStep ==
    ASSUME TypeOK, ControlInv, PassInv, EventInv, OrderInv, WaitInv, PollsOften, IntervalsShort,
           [Next]_vars
    PROVE  WaitInv'
  <1> USE TableAssumption, ArgumentAssumption
  <1> SUFFICES ASSUME NEW n \in 1 .. MaxTimerNum
               PROVE  Cardinality(WaitingFor(n)') <= IF HeadToServe' THEN n ELSE n - 1
    BY DEF WaitInv
  <1>0. /\ Cardinality(WaitingFor(n)) <= IF HeadToServe THEN n ELSE n - 1
        /\ n \in Nat /\ Cardinality(WaitingFor(n)) \in Nat
        /\ Cardinality(WaitingFor(n)') \in Nat
    BY WaitingFinite, WaitingFinite2 DEF WaitInv
  \* A step that lets no more timers wait, and does not serve the head.
  <1>1. ASSUME Cardinality(WaitingFor(n)') <= Cardinality(WaitingFor(n)),
               HeadToServe' = HeadToServe
        PROVE  Cardinality(WaitingFor(n)') <= IF HeadToServe' THEN n ELSE n - 1
    <2>1. CASE HeadToServe
      BY <1>0, <1>1, <2>1
    <2>2. CASE ~HeadToServe
      BY <1>0, <1>1, <2>2
    <2> QED
      BY <2>1, <2>2
  <1>2. ASSUME UNCHANGED <<timer, currentNum>>, Oldest' = Oldest
        PROVE  Cardinality(WaitingFor(n)') <= Cardinality(WaitingFor(n))
    <2>1. WaitingFor(n)' \subseteq WaitingFor(n)
      BY <1>2 DEF WaitingFor, Armed, After, Sub
    <2> QED
      BY <2>1, WaitSame
  \* A step that serves the head, if it is still to serve.
  <1>3. ASSUME ~HeadToServe',
               ~HeadToServe => Cardinality(WaitingFor(n)') <= Cardinality(WaitingFor(n)),
               HeadToServe /\ currentNum > 0 =>
                   Cardinality(WaitingFor(n)') <= Cardinality(WaitingFor(n) \ {0}),
               currentNum' = currentNum \/ currentNum > 0, pc = "cb"
        PROVE  Cardinality(WaitingFor(n)') <= IF HeadToServe' THEN n ELSE n - 1
    <2>1. CASE ~HeadToServe
      BY <1>0, <1>3, <2>1
    <2>2. CASE HeadToServe /\ currentNum > 0
      <3>1. OrderedFrom(Oldest)
        BY <1>3, <2>2 DEF OrderInv, InOrderHere, HeadToServe, InProcess, PassInv
      <3>2. Cardinality(WaitingFor(n)) <= n
        BY <1>0, <2>2
      <3>3. /\ Cardinality(WaitingFor(n) \ {0}) <= n - 1
            /\ Cardinality(WaitingFor(n) \ {0}) \in Nat
        BY <2>2, <3>1, <3>2, HeadServed
      <3> QED
        BY <1>0, <1>3, <2>2, <3>3
    <2>3. CASE HeadToServe /\ ~(currentNum > 0)
      <3>1. currentNum' = 0
        BY <1>3, <2>3 DEF TypeOK
      <3> QED
        BY <1>0, <1>3, <3>1, NoneArmed
    <2> QED
      BY <2>1, <2>2, <2>3
  <1>4. ASSUME NEW cb \in Callbacks, NEW us \in IntervalsUs, Add(cb, us)
        PROVE  Cardinality(WaitingFor(n)') <= IF HeadToServe' THEN n ELSE n - 1
    <2> DEFINE e == [cb |-> cb, t |-> Plus(clock, Ticks(us)), interval |-> Ticks(us)]
    <2>1. Oldest' = Oldest
      BY <1>4 DEF Add, Oldest
    <2>2. /\ currentNum \in Slots /\ timer' = [timer EXCEPT ![currentNum] = e]
          /\ currentNum' = currentNum + 1 /\ currentNum + 1 \in 1 .. MaxTimerNum
      BY <1>4 DEF Add, TypeOK, Slots
    <2>3. Armed' \subseteq Armed \cup {currentNum}
      BY <2>2 DEF Armed, Slots
    <2>4. Ticks(us) \in Time /\ LongestWait + PollBound + Ticks(us) < Quarter
      BY TicksType DEF IntervalsShort
    <2>5. e \in Event
      BY <2>4, PlusType DEF Event, TypeOK
    <2>6. LongestWait <= After(Oldest, e.t)
      BY <2>4, NewEvent
    <2>7. WaitingFor(n)' \subseteq WaitingFor(n) \ {currentNum}
      BY <2>1, <2>2, <2>3, <2>5, <2>6, WaitWritten
    <2>8. Cardinality(WaitingFor(n)') <= Cardinality(WaitingFor(n))
      BY <2>7, WaitSame
    <2>9. HeadToServe' = HeadToServe
      <3>1. /\ pc' = "sort" /\ ret' = pc /\ pc \in {"idle", "cb"} /\ i' = i
        BY <1>4, <2>2 DEF Add, StartSort, Calling, locals
      <3> QED
        BY <3>1 DEF HeadToServe, InProcess
    <2> QED
      BY <1>1, <2>8, <2>9
  <1>5. ASSUME NEW cb \in Deletable, Delete(cb)
        PROVE  Cardinality(WaitingFor(n)') <= IF HeadToServe' THEN n ELSE n - 1
    <2>1. \E k \in Slots : DeleteByIndex(k)
      BY <1>5 DEF Delete
    <2>2. Oldest' = Oldest
      BY <1>5 DEF Delete, Oldest
    <2>3. Cardinality(WaitingFor(n)') <= Cardinality(WaitingFor(n))
      BY <2>1, <2>2, WaitDeleted DEF Slots
    <2>4. HeadToServe' = HeadToServe
      BY <1>5 DEF Delete, locals, sorting, HeadToServe, InProcess
    <2> QED
      BY <1>1, <2>3, <2>4
  <1>6. CASE Process
    <2>1. CASE ProcessBegin
      <3>1. HeadToServe'
        BY <2>1 DEF ProcessBegin, HeadToServe, InProcess
      <3> QED
        BY <1>6, <3>1, WaitEntry
    <2>2. CASE ~ProcessBegin
      <3>1. Cardinality(WaitingFor(n)') = 0
        BY <1>6, <2>2, WaitEntry
      <3> QED
        BY <1>0, <3>1
    <2> QED
      BY <2>1, <2>2
  <1>7. CASE LoopSkip
    <2>1. UNCHANGED <<timer, currentNum, clock, sincePoll>> /\ pc = "loop" /\ i' = i + 1
      BY <1>7 DEF LoopSkip
    <2>2. i # 0
      <3>1. SUFFICES ASSUME i = 0 PROVE FALSE
        OBVIOUS
      <3>2. currentNum > 0 /\ Expired(timer[0].t, now)
        BY <2>1, <3>1 DEF PassInv
      <3>3. 0 \in Armed
        BY <3>2, ZeroIn DEF Armed
      <3> QED
        BY <1>7, <3>1, <3>2, <3>3 DEF LoopSkip, EventInv
    <2>3. ~HeadToServe /\ ~HeadToServe'
      BY <2>1, <2>2 DEF HeadToServe, TypeOK
    <2>4. Oldest' = Oldest
      BY <2>1 DEF Oldest
    <2>5. HeadToServe' = HeadToServe
      BY <2>3 DEF HeadToServe
    <2> QED
      BY <1>1, <1>2, <2>1, <2>4, <2>5
  <1>8. CASE LoopCall \/ LeaveSort \/ SortReturnsToProcess \/ SortReturnsToAdd \/ UNCHANGED vars
    <2>1. UNCHANGED <<timer, currentNum, clock, sincePoll>>
      BY <1>8 DEF LoopCall, LeaveSort, SortReturnsToProcess, SortReturnsToAdd, vars
    <2>2. Oldest' = Oldest
      BY <2>1 DEF Oldest
    <2>3. HeadToServe' = HeadToServe
      <3>1. CASE LoopCall
        BY <3>1 DEF LoopCall, HeadToServe, InProcess
      <3>2. CASE LeaveSort
        <4>1. pc = "loop" /\ i' = i
          BY <3>2 DEF LeaveSort, locals
        <4>2. pc' = "exit" \/ (pc' = "sort" /\ ret' = "exit")
          BY <3>2 DEF LeaveSort, StartSort, TypeOK
        <4> QED
          BY <4>1, <4>2 DEF HeadToServe, InProcess
      <3>3. CASE SortReturnsToProcess \/ SortReturnsToAdd
        BY <3>3 DEF SortReturnsToProcess, SortReturnsToAdd, locals, HeadToServe, InProcess, TypeOK
      <3>4. CASE UNCHANGED vars
        BY <3>4 DEF vars, HeadToServe, InProcess
      <3> QED
        BY <1>8, <3>1, <3>2, <3>3, <3>4
    <2> QED
      BY <1>1, <1>2, <2>1, <2>2, <2>3
  <1>9. CASE ReturnDelete
    <2>1. /\ DeleteByIndex(i) /\ Oldest' = Oldest /\ i \in Nat /\ pc = "cb" /\ i' = i + 1
      BY <1>9 DEF ReturnDelete, Oldest, TypeOK
    <2>2. ~HeadToServe'
      BY <2>1 DEF HeadToServe
    <2>3. Cardinality(WaitingFor(n)') <= Cardinality(WaitingFor(n))
      BY <2>1, WaitDeleted
    <2>4. HeadToServe /\ currentNum > 0 =>
            Cardinality(WaitingFor(n)') <= Cardinality(WaitingFor(n) \ {0})
      BY <2>1, WaitShifted DEF HeadToServe
    <2>5. currentNum' = currentNum \/ currentNum > 0
      BY <2>1 DEF DeleteByIndex, TypeOK
    <2> QED
      BY <1>3, <2>1, <2>2, <2>3, <2>4, <2>5
  <1>10. ASSUME NEW interval \in Time, pc = "cb", Rearm(interval),
                LongestWait + PollBound + interval < Quarter
         PROVE  Cardinality(WaitingFor(n)') <= IF HeadToServe' THEN n ELSE n - 1
    <2> DEFINE e == [cb |-> timer[i].cb, t |-> Plus(now, interval), interval |-> interval]
    <2>1. Oldest' = Oldest /\ i \in Slots
      BY <1>10 DEF Rearm, Oldest, ControlInv, TypeOK, Slots
    <2>2. timer' = [timer EXCEPT ![i] = e] /\ currentNum' = currentNum
      BY <1>10 DEF Rearm
    <2>3. Armed' \subseteq Armed \cup {i}
      BY <2>2 DEF Armed
    <2>4. e \in Event
      BY <2>1, PlusType DEF Event, TypeOK
    <2>5. LongestWait <= After(Oldest, e.t)
      BY <1>10, NewEvent
    <2>6. WaitingFor(n)' \subseteq WaitingFor(n) \ {i}
      BY <2>1, <2>2, <2>3, <2>4, <2>5, WaitWritten
    <2>7. Cardinality(WaitingFor(n)') <= Cardinality(WaitingFor(n) \ {i})
      BY <2>6, WaitSubset
    <2>8. Cardinality(WaitingFor(n)') <= Cardinality(WaitingFor(n))
      BY <2>6, WaitSame
    <2>9. ~HeadToServe' /\ (HeadToServe => i = 0)
      BY <1>10 DEF Rearm, HeadToServe, TypeOK
    <2> QED
      BY <1>3, <1>10, <2>2, <2>7, <2>8, <2>9
  <1>11. CASE ReturnKeep
    <2>1. i \in Slots
      BY <1>11 DEF ReturnKeep, ControlInv, TypeOK, Slots
    <2>2. timer[i].interval \in Time /\ LongestWait + PollBound + timer[i].interval < Quarter
      BY <2>1 DEF TypeOK, Event, EventInv
    <2> QED
      BY <1>10, <1>11, <2>2 DEF ReturnKeep
  <1>12. ASSUME NEW us \in ResultsUs, ReturnNew(us)
         PROVE  Cardinality(WaitingFor(n)') <= IF HeadToServe' THEN n ELSE n - 1
    <2>1. Ticks(us) \in Time /\ LongestWait + PollBound + Ticks(us) < Quarter
      BY TicksType DEF IntervalsShort
    <2> QED
      BY <1>10, <1>12, <2>1 DEF ReturnNew
  <1>13. CASE LeaveEmpty
    <2>1. currentNum' = 0
      BY <1>13 DEF LeaveEmpty
    <2> QED
      BY <1>0, <2>1, NoneArmed
  <1>14. CASE LeaveArm
    <2>1. UNCHANGED <<timer, currentNum, clock, sincePoll>>
      BY <1>14 DEF LeaveArm
    <2>2. ~HeadToServe /\ ~HeadToServe'
      BY <1>14 DEF LeaveArm, PassInv, HeadToServe, InProcess
    <2>3. Oldest' = Oldest
      BY <2>1 DEF Oldest
    <2>4. HeadToServe' = HeadToServe
      BY <2>2 DEF HeadToServe
    <2> QED
      BY <1>1, <1>2, <2>1, <2>3, <2>4
  <1>15. CASE SortStep
    <2>1. Oldest' = Oldest /\ HeadToServe' = HeadToServe
      BY <1>15 DEF SortStep, Oldest, HeadToServe, InProcess, locals
    <2> QED
      BY <1>1, <1>15, <2>1, WaitSwapped
  <1>16. CASE Tick
    <2>1. UNCHANGED <<timer, currentNum, pc, ret, i>> /\ sincePoll' = sincePoll + 1
      BY <1>16 DEF Tick, locals, sorting
    <2>2. ~Process
      BY <2>1, OldestType DEF Process, ProcessEmpty, ProcessNotDue, ProcessBegin
    <2>3. Oldest' = Oldest
      BY <2>2, OldestStep
    <2>4. HeadToServe' = HeadToServe
      BY <2>1 DEF HeadToServe, InProcess
    <2> QED
      BY <1>1, <1>2, <2>1, <2>3, <2>4
  <1> QED
    BY <1>4, <1>5, <1>6, <1>7, <1>8, <1>9, <1>11, <1>12, <1>13, <1>14, <1>15, <1>16 DEF Next

LEMMA ServeInit == ASSUME PollsOften PROVE Init => ServeInv
  <1> SUFFICES ASSUME Init PROVE ServeInv
    OBVIOUS
  <1> USE TableAssumption, TimeAssumption
  <1>1. Armed = {}
    BY DEF Init, Armed, Slots
  <1>2. PassInv
    BY DEF Init, PassInv, InProcess
  <1>3. LongestWait \in Nat
    BY SMT DEF LongestWait
  <1>4. EventInv
    BY <1>1, <1>3 DEF Init, EventInv, WithinQuarterOf, PollsOften
  <1>5. OrderInv
    BY <1>1 DEF OrderInv, OrderedFrom
  <1>6. ASSUME NEW n \in 1 .. MaxTimerNum PROVE Cardinality(WaitingFor(n)) <= n - 1
    <2>1. WaitingFor(n) = {}
      BY <1>1 DEF WaitingFor
    <2> QED
      BY <2>1, FS_EmptySet
  <1>7. ~HeadToServe
    BY DEF Init, HeadToServe, InProcess
  <1> QED
    BY <1>2, <1>4, <1>5, <1>6, <1>7 DEF ServeInv, WaitInv

LEMMA ServeInvariant == ASSUME PollsOften, IntervalsShort PROVE Spec => [](IInv /\ ServeInv)
  <1>1. IInv /\ ServeInv /\ [Next]_vars => ServeInv'
    BY PassStep, EventStep, OrderStep, WaitStep DEF IInv, ServeInv
  <1> QED
    BY <1>1, ServeInit, Invariant, PTL DEF Spec

\* A timer that is due waits for no more calls of process than the table has
\* slots: each of them serves the head before it returns.
THEOREM ServeCorrect == ASSUME PollsOften, IntervalsShort PROVE Spec => []ServeInv
  BY ServeInvariant, PTL

\* Between two calls timer[0] is the timer that is due first, and the others
\* follow in order, whatever callbacks did to the table while it was walked:
\* if the main loop calls process often enough for the window in which a timer
\* counts as expired, and no interval is longer than a quarter of the system
\* timer's range less what a timer can wait.
THEOREM OrderCorrect == ASSUME PollsOften, IntervalsShort PROVE Spec => []OrderedWhenIdle
  <1>1. IInv /\ ServeInv => OrderedWhenIdle
    <2> SUFFICES ASSUME IInv, ServeInv, pc = "idle",
                        NEW k \in Armed, NEW m \in Armed, k < m
                 PROVE  After(Sub(clock, Quarter), timer[k].t)
                           <= After(Sub(clock, Quarter), timer[m].t)
      BY DEF OrderedWhenIdle, OrderedFrom
    <2>1. TypeOK /\ OrderedFrom(Oldest) /\ WithinQuarterOf(Oldest) /\ k \in Slots /\ m \in Slots
      BY DEF IInv, ServeInv, OrderInv, InOrderHere, EventInv, Armed
    <2>2. PICK w \in Nat : w = LongestWait + sincePoll /\ w < Quarter
      BY <2>1, OldestType
    <2>3. Oldest = Sub(clock, w) /\ clock \in Time
      BY <2>1, <2>2 DEF Oldest, TypeOK
    <2>4. /\ After(Oldest, timer[k].t) <= After(Oldest, timer[m].t)
          /\ After(Oldest, timer[k].t) < Quarter /\ After(Oldest, timer[m].t) < Quarter
          /\ After(Oldest, timer[k].t) \in Nat /\ After(Oldest, timer[m].t) \in Nat
          /\ timer[k].t \in Time /\ timer[m].t \in Time
      BY <2>1, OldestType DEF OrderedFrom, WithinQuarterOf, Time
    <2>5. /\ After(Sub(clock, Quarter), timer[k].t) = After(Oldest, timer[k].t) + (Quarter - w)
          /\ After(Sub(clock, Quarter), timer[m].t) = After(Oldest, timer[m].t) + (Quarter - w)
      BY <2>2, <2>3, <2>4, AfterEarlier
    <2> QED
      BY <2>2, <2>4, <2>5, TimeAssumption
  <1> QED
    BY <1>1, ServeInvariant, PTL

\* No armed timer is left behind the window in which it counts as expired,
\* although the loop passes over the timer that follows one that is deleted,
\* and re-arms the wrong one when a callback changes the table: every call that
\* finds timer[0] due serves timer[0], so a timer waits for at most
\* MAX_TIMER_NUM calls.
THEOREM MissCorrect == ASSUME PollsOften, IntervalsShort PROVE Spec => []NoneMissed
  <1>1. IInv /\ ServeInv => NoneMissed
    <2> SUFFICES ASSUME IInv, ServeInv, NEW k \in Armed, Sub(clock, timer[k].t) <= Quarter
                 PROVE  Expired(timer[k].t, clock)
      BY DEF NoneMissed
    <2>1. TypeOK /\ WithinQuarterOf(Oldest) /\ k \in Slots
      BY DEF IInv, ServeInv, EventInv, Armed
    <2>2. PICK w \in Nat : w = LongestWait + sincePoll /\ w < Quarter /\ w + Pre < Post
      BY <2>1, OldestType
    <2>3. Oldest = Sub(clock, w) /\ clock \in Time /\ timer[k].t \in Time
      BY <2>1, <2>2, OldestType DEF Oldest, TypeOK
    <2>4. After(Sub(clock, w), timer[k].t) < Quarter /\ After(Sub(clock, w), timer[k].t) \in Nat
      BY <2>1, <2>3, OldestType DEF WithinQuarterOf, Time
    <2>5. Sub(clock, timer[k].t) \in Nat
      BY <2>3, SubType DEF Time
    <2>6. After(Sub(clock, w), timer[k].t) <= w
      BY <2>2, <2>3, <2>4, <2>5, NotReached, TimeAssumption
    <2> QED
      BY <2>2, <2>3, <2>6, Reached
  <1> QED
    BY <1>1, ServeInvariant, PTL
=============================================================================
