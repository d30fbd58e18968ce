---------------------------- MODULE MyFifoProofs ----------------------------
(***************************************************************************)
(* Proofs about the queue my_fifo: it implements a bounded queue, for      *)
(* every number of slots that divides the range of the indices.            *)
(***************************************************************************)
EXTENDS MyFifoProps, Remainders, SequenceTheorems, TLAPS

----------------------------------------------------------------------------
(* Remainders.                                                             *)

LEMMA ProductGrows == ASSUME NEW n \in Nat, NEW d \in Nat, d >= 1 PROVE n * d >= n
  BY SMT

\* Two numbers less than n apart have different remainders.
LEMMA RemaindersDiffer ==
    ASSUME NEW n \in Nat \ {0}, NEW x \in Nat, NEW y \in Nat, x < y, y < x + n
    PROVE  x % n # y % n
  <1> SUFFICES ASSUME x % n = y % n PROVE FALSE
    OBVIOUS
  <1> DEFINE a == x \div n
             b == y \div n
             r == x % n
  <1>1. /\ a \in Nat /\ b \in Nat /\ r \in 0 .. n - 1
        /\ x = n * a + r /\ y = n * b + r
    BY DivMod
  <1> HIDE DEF a, b, r
  <1>2. CASE b <= a
    <2>1. n * (a - b) >= 0 /\ n * (a - b) = n * a - n * b
      BY <1>1, <1>2, SMT
    <2> QED
      BY <1>1, <2>1, SMT
  <1>3. CASE b > a
    <2>1. n * (b - a) >= n /\ n * (b - a) = n * b - n * a
      BY <1>1, <1>3, ProductGrows, SMT
    <2> QED
      BY <1>1, <2>1, SMT
  <1> QED
    BY <1>1, <1>2, <1>3

\* Taking away a multiple of n leaves the remainder.
LEMMA RemainderKept ==
    ASSUME NEW n \in Nat \ {0}, NEW m \in Nat, m % n = 0, NEW x \in Nat, x >= m
    PROVE  (x - m) % n = x % n
  <1> DEFINE q == (x \div n) - (m \div n)
             r == x % n
             y == x - m
  <1>1. m = n * (m \div n) /\ m \div n \in Nat
    BY DivMod
  <1>2. x = n * (x \div n) + r /\ x \div n \in Nat /\ r \in 0 .. n - 1
    BY DivMod
  <1>3. y \in Nat /\ q \in Int /\ y = n * q + r
    BY <1>1, <1>2, SMT
  <1> HIDE DEF q, r, y
  <1>4. y % n = r
    BY <1>2, <1>3, RemainderUnique
  <1> QED
    BY <1>4 DEF y, r

----------------------------------------------------------------------------
(* The indices and the slots they name.                                    *)

LEMMA DistCases ==
    ASSUME NEW w \in Ptrs, NEW r \in Ptrs
    PROVE  /\ Dist(w, r) = IF w >= r THEN w - r ELSE w - r + PtrMod
           /\ Dist(w, r) \in Ptrs
           /\ Dist(w, r) = 0 <=> w = r
  BY FifoAssumption, SMT DEF Dist, Ptrs

LEMMA AdvanceCases ==
    ASSUME NEW r \in Ptrs
    PROVE  /\ Advance(r) = IF r + 1 = PtrMod THEN 0 ELSE r + 1
           /\ Advance(r) \in Ptrs
  BY FifoAssumption, SMT DEF Advance, Ptrs

LEMMA DistAdvanced ==
    ASSUME NEW w \in Ptrs, NEW r \in Ptrs
    PROVE  /\ Dist(w, r) < Num => Dist(Advance(w), r) = Dist(w, r) + 1
           /\ Dist(w, r) > 0 => Dist(w, Advance(r)) + 1 = Dist(w, r)
  <1>1. /\ PtrMod \in Nat /\ Num \in Nat /\ Num < PtrMod
        /\ w \in Nat /\ r \in Nat /\ w < PtrMod /\ r < PtrMod
    BY FifoAssumption DEF Ptrs
  <1>2. /\ Advance(w) = IF w + 1 = PtrMod THEN 0 ELSE w + 1
        /\ Advance(r) = IF r + 1 = PtrMod THEN 0 ELSE r + 1
        /\ Advance(w) \in Ptrs /\ Advance(r) \in Ptrs
    BY AdvanceCases
  <1>3. Dist(w, r) = IF w >= r THEN w - r ELSE w - r + PtrMod
    BY DistCases
  <1>4. Dist(w, r) < Num => Dist(Advance(w), r) = Dist(w, r) + 1
    <2>1. Dist(Advance(w), r) = IF Advance(w) >= r THEN Advance(w) - r
                                ELSE Advance(w) - r + PtrMod
      BY <1>2, DistCases
    <2>2. CASE w + 1 = PtrMod
      BY <1>1, <1>2, <1>3, <2>1, <2>2
    <2>3. CASE w + 1 # PtrMod
      BY <1>1, <1>2, <1>3, <2>1, <2>3
    <2> QED
      BY <2>2, <2>3
  <1>5. Dist(w, r) > 0 => Dist(w, Advance(r)) + 1 = Dist(w, r)
    <2>1. Dist(w, Advance(r)) = IF w >= Advance(r) THEN w - Advance(r)
                                ELSE w - Advance(r) + PtrMod
      BY <1>2, DistCases
    <2>2. CASE r + 1 = PtrMod
      BY <1>1, <1>2, <1>3, <2>1, <2>2
    <2>3. CASE r + 1 # PtrMod
      BY <1>1, <1>2, <1>3, <2>1, <2>3
    <2> QED
      BY <2>2, <2>3
  <1> QED
    BY <1>4, <1>5

LEMMA SlotType == ASSUME NEW x \in Nat PROVE Slot(x) \in Slots
  BY DivMod, FifoAssumption DEF Slot, Slots

LEMMA CellType ==
    ASSUME NEW r \in Ptrs, NEW k \in Nat \ {0} PROVE Cell(r, k) \in Slots
  <1>1. r + k - 1 \in Nat
    BY DEF Ptrs
  <1> QED
    BY <1>1, SlotType DEF Cell

LEMMA CellsDiffer ==
    ASSUME NEW r \in Ptrs, NEW k \in 1 .. Num, NEW m \in 1 .. Num, k # m
    PROVE  Cell(r, k) # Cell(r, m)
  <1>1. r + k - 1 \in Nat /\ r + m - 1 \in Nat /\ Num \in Nat \ {0}
    BY FifoAssumption DEF Ptrs
  <1>2. CASE k < m
    <2>1. r + k - 1 < r + m - 1 /\ r + m - 1 < (r + k - 1) + Num
      BY <1>1, <1>2, FifoAssumption DEF Ptrs
    <2> QED
      BY <1>1, <2>1, RemaindersDiffer DEF Cell, Slot
  <1>3. CASE m < k
    <2>1. r + m - 1 < r + k - 1 /\ r + k - 1 < (r + m - 1) + Num
      BY <1>1, <1>3, FifoAssumption DEF Ptrs
    <2> QED
      BY <1>1, <2>1, RemaindersDiffer DEF Cell, Slot
  <1> QED
    BY <1>1, <1>2, <1>3

\* The wrap of an index does not change its slot, because the range of the
\* indices is a multiple of the number of slots.
LEMMA SlotWraps ==
    ASSUME NEW x \in Nat, x >= PtrMod PROVE Slot(x - PtrMod) = Slot(x)
  BY RemainderKept, FifoAssumption DEF Slot

LEMMA CellNext ==
    ASSUME NEW r \in Ptrs, NEW k \in Nat \ {0}
    PROVE  Cell(Advance(r), k) = Cell(r, k + 1)
  <1>1. CASE r + 1 = PtrMod
    <2>1. Advance(r) = 0 /\ r \in Nat /\ PtrMod \in Nat
      BY <1>1, AdvanceCases DEF Ptrs
    <2>2. Cell(Advance(r), k) = Slot((r + k) - PtrMod) /\ Cell(r, k + 1) = Slot(r + k)
      <3>1. 0 + k - 1 = (r + k) - PtrMod /\ r + (k + 1) - 1 = r + k
        BY <1>1, <2>1
      <3> QED
        BY <2>1, <3>1 DEF Cell
    <2> QED
      BY <1>1, <2>1, <2>2, SlotWraps
  <1>2. CASE r + 1 # PtrMod
    <2>1. Advance(r) = r + 1 /\ r \in Nat
      BY <1>2, AdvanceCases DEF Ptrs
    <2>2. (r + 1) + k - 1 = r + (k + 1) - 1
      BY <2>1
    <2> QED
      BY <2>1, <2>2 DEF Cell
  <1> QED
    BY <1>1, <1>2

LEMMA CellOfPtrs ==
    ASSUME NEW w \in Ptrs, NEW r \in Ptrs
    PROVE  Slot(r) = Cell(r, 1) /\ Slot(w) = Cell(r, Dist(w, r) + 1)
  <1>1. r + 1 - 1 = r /\ w \in Nat /\ r \in Nat /\ PtrMod \in Nat
    BY FifoAssumption DEF Ptrs
  <1>2. CASE w >= r
    <2>1. r + (Dist(w, r) + 1) - 1 = w
      BY <1>1, <1>2, DistCases
    <2> QED
      BY <1>1, <2>1 DEF Cell
  <1>3. CASE w < r
    <2>1. r + (Dist(w, r) + 1) - 1 = w + PtrMod /\ (w + PtrMod) - PtrMod = w
      BY <1>1, <1>3, DistCases
    <2>2. Slot((w + PtrMod) - PtrMod) = Slot(w + PtrMod)
      BY <1>1, SlotWraps
    <2> QED
      BY <1>1, <2>1, <2>2 DEF Cell
  <1> QED
    BY <1>1, <1>2, <1>3

----------------------------------------------------------------------------
(* The inductive invariant.                                                *)

\* How many elements are counted and kept, in the cases that matter.
LEMMA Counted ==
    ASSUME TypeOK, ProducerInv
    PROVE  /\ Count \in 0 .. Num /\ Kept \in 0 .. Num
           /\ Count = 0 <=> wptr = rptr
           /\ putting # "copying" => Kept = Count
           /\ putting = "copying" => Kept = Count - 1 /\ Count > 0
  <1>1. wptr \in Ptrs /\ rptr \in Ptrs /\ Count <= Num /\ Num \in Nat
    BY FifoAssumption DEF TypeOK
  <1>2. Count \in Ptrs /\ (Count = 0 <=> wptr = rptr)
    BY <1>1, DistCases DEF Count
  <1>3. Count \in 0 .. Num
    BY <1>1, <1>2 DEF Ptrs
  <1>4. CASE putting = "copying"
    <2>1. Count > 0 /\ Kept = Count - 1
      BY <1>4 DEF ProducerInv, Kept
    <2>2. Kept \in 0 .. Num
      BY <1>1, <1>3, <2>1
    <2> QED
      BY <1>2, <1>3, <1>4, <2>1, <2>2
  <1>5. CASE putting # "copying"
    BY <1>2, <1>3, <1>5 DEF Kept
  <1> QED
    BY <1>4, <1>5

\* The consumer acts only when my_fifo_push is not copying.
LEMMA ConsumerNotCopying ==
    ASSUME IInv, ConsumerMay PROVE putting # "copying"
  BY DEF IInv, ProducerInv, ConsumerMay

LEMMA ZeroInRange == 0 \in Ptrs /\ 0 \in Slots /\ Dist(0, 0) = 0
  <1>1. 0 \in Ptrs /\ 0 \in Slots
    BY FifoAssumption DEF Ptrs, Slots
  <1> QED
    BY <1>1, DistCases

LEMMA Initially == ASSUME Init PROVE IInv /\ Contents = <<>>
  <1>1. Count = 0 /\ Kept = 0
    BY ZeroInRange DEF Init, Count, Kept
  <1>2. TypeOK
    BY <1>1, ZeroInRange, FifoAssumption DEF Init, TypeOK, Sides
  <1>3. ProducerInv /\ ConsumerInv
    BY DEF Init, ProducerInv, ConsumerInv
  <1>4. FilledInv
    BY <1>1 DEF FilledInv
  <1>5. Contents = <<>>
    BY <1>1 DEF Contents
  <1> QED
    BY <1>2, <1>3, <1>4, <1>5 DEF IInv

\* Where neither pointer moves, nothing is counted or uncounted.
LEMMA CountKept ==
    ASSUME UNCHANGED <<wptr, rptr>> PROVE Count' = Count
  BY DEF Count

\* wptr++ where there is room counts one element more.
LEMMA CountGrows ==
    ASSUME TypeOK, Room, wptr' = Advance(wptr), rptr' = rptr
    PROVE  wptr' \in Ptrs /\ Count' = Count + 1
  <1>1. wptr \in Ptrs /\ rptr \in Ptrs /\ Dist(wptr, rptr) < Num
    BY DEF TypeOK, Room, Count
  <1>2. Dist(Advance(wptr), rptr) = Dist(wptr, rptr) + 1 /\ Advance(wptr) \in Ptrs
    BY <1>1, DistAdvanced, AdvanceCases
  <1> QED
    BY <1>2 DEF Count

\* rptr++ of a queue that is not empty counts one less, and every slot is one
\* nearer.
LEMMA CountShrinks ==
    ASSUME TypeOK, Count > 0, rptr' = Advance(rptr), wptr' = wptr
    PROVE  /\ rptr' \in Ptrs /\ Count' + 1 = Count /\ Count' \in Nat
           /\ \A k \in Nat \ {0} : Cell(rptr', k) = Cell(rptr, k + 1)
  <1>1. wptr \in Ptrs /\ rptr \in Ptrs /\ Dist(wptr, rptr) > 0
    BY DEF TypeOK, Count
  <1>2. /\ Advance(rptr) \in Ptrs
        /\ Dist(wptr, Advance(rptr)) + 1 = Dist(wptr, rptr)
        /\ Dist(wptr, Advance(rptr)) \in Ptrs
    BY <1>1, DistAdvanced, AdvanceCases, DistCases
  <1>3. Count' = Dist(wptr, Advance(rptr)) /\ Count = Dist(wptr, rptr)
    BY DEF Count
  <1> QED
    BY <1>1, <1>2, <1>3, CellNext DEF Ptrs

\* A write of the producer's slot leaves all the elements kept as they are.
LEMMA OthersUntouched ==
    ASSUME IInv, putting # "none", p' = [p EXCEPT ![to] = elem]
    PROVE  /\ p' \in [Slots -> Elems \cup {NoElem}] /\ p'[to] = elem
           /\ \A k \in 1 .. Kept : p'[Cell(rptr, k)] = p[Cell(rptr, k)]
  <1>1. /\ p \in [Slots -> Elems \cup {NoElem}] /\ to \in Slots
        /\ elem \in Elems /\ rptr \in Ptrs /\ Num \in Nat
    BY FifoAssumption DEF IInv, TypeOK, ProducerInv
  <1>2. Count \in 0 .. Num /\ Kept \in 0 .. Num
    BY Counted DEF IInv
  <1>3. ASSUME NEW k \in 1 .. Kept PROVE Cell(rptr, k) # to
    <2>1. CASE putting = "copying"
      <3>1. to = Cell(rptr, Count) /\ Kept = Count - 1 /\ Count > 0
        BY <2>1, Counted DEF IInv, ProducerInv
      <3>2. k \in 1 .. Num /\ Count \in 1 .. Num /\ k # Count
        BY <1>1, <1>2, <3>1
      <3> QED
        BY <1>1, <3>1, <3>2, CellsDiffer
    <2>2. CASE putting # "copying"
      <3>1. to = Cell(rptr, Count + 1) /\ Kept = Count /\ Count < Num
        BY <2>2, Counted DEF IInv, TypeOK, ProducerInv
      <3>2. k \in 1 .. Num /\ Count + 1 \in 1 .. Num /\ k # Count + 1
        BY <1>1, <1>2, <3>1
      <3> QED
        BY <1>1, <3>1, <3>2, CellsDiffer
    <2> QED
      BY <2>1, <2>2
  <1>4. ASSUME NEW k \in 1 .. Kept PROVE Cell(rptr, k) \in Slots
    BY <1>1, <1>2, CellType
  <1> QED
    BY <1>1, <1>3, <1>4

----------------------------------------------------------------------------
(* One lemma per step: the invariant holds after it.                       *)

LEMMA GetSlotStep == ASSUME IInv, NEW e \in Elems, GetSlot(e) PROVE IInv'
  <1>1. Count' = Count /\ Kept' = Kept /\ Count < Num
    BY CountKept DEF GetSlot, Kept, Room
  <1>2. to' = Cell(rptr, Count + 1) /\ to' \in Slots
    <2>1. wptr \in Ptrs /\ rptr \in Ptrs /\ Count \in Nat
      BY Counted DEF IInv, TypeOK
    <2> QED
      BY <2>1, CellOfPtrs, CellType DEF GetSlot, Count
  <1>3. TypeOK'
    BY <1>1, <1>2 DEF IInv, TypeOK, GetSlot, consumer
  <1>4. ProducerInv'
    BY <1>1, <1>2 DEF ProducerInv, GetSlot
  <1>5. ConsumerInv'
    BY <1>1 DEF IInv, ConsumerInv, GetSlot, consumer
  <1>6. FilledInv'
    BY <1>1 DEF IInv, FilledInv, GetSlot
  <1> QED
    BY <1>3, <1>4, <1>5, <1>6 DEF IInv

LEMMA FillStep == ASSUME IInv, Fill PROVE IInv'
  <1>1. Count' = Count /\ Kept' = Kept /\ Kept \in Nat
    BY CountKept, Counted DEF IInv, Fill, Kept
  <1>2. /\ p' \in [Slots -> Elems \cup {NoElem}] /\ p'[to] = elem
        /\ \A k \in 1 .. Kept : p'[Cell(rptr, k)] = p[Cell(rptr, k)]
    BY OthersUntouched DEF Fill
  <1>3. TypeOK'
    BY <1>1, <1>2 DEF IInv, TypeOK, Fill, consumer
  <1>4. ProducerInv'
    BY <1>1, <1>2 DEF IInv, ProducerInv, Fill
  <1>5. ConsumerInv'
    <2>1. taking # "none" => 1 \in 1 .. Kept /\ from = Cell(rptr, 1)
      BY <1>1 DEF IInv, ConsumerInv
    <2>2. taking # "none" => p'[from] = p[from]
      BY <1>2, <2>1
    <2> QED
      BY <1>1, <2>2 DEF IInv, ConsumerInv, Fill, consumer
  <1>6. FilledInv'
    BY <1>1, <1>2 DEF IInv, FilledInv, Fill
  <1> QED
    BY <1>3, <1>4, <1>5, <1>6 DEF IInv

\* my_fifo_next counts the element just filled in.
LEMMA NextSlotCounts ==
    ASSUME IInv, NextSlot
    PROVE  /\ wptr' \in Ptrs /\ rptr' = rptr /\ p' = p
           /\ Count < Num /\ Count \in Nat /\ Kept = Count
           /\ Count' = Count + 1 /\ Kept' = Count + 1
           /\ elem \in Elems /\ p[Cell(rptr, Count + 1)] = elem
  <1>1. Count < Num /\ to = Cell(rptr, Count + 1) /\ p[to] = elem /\ elem \in Elems
    BY DEF IInv, ProducerInv, NextSlot
  <1>2. wptr' \in Ptrs /\ Count' = Count + 1
    BY <1>1, CountGrows DEF IInv, NextSlot, Room
  <1>3. Kept' = Count' /\ Kept = Count /\ Count \in Nat
    BY Counted DEF IInv, NextSlot, Kept
  <1> QED
    BY <1>1, <1>2, <1>3 DEF NextSlot

LEMMA NextSlotStep == ASSUME IInv, NextSlot PROVE IInv'
  <1>1. TypeOK'
    <2>1. Count' <= Num
      BY NextSlotCounts, FifoAssumption
    <2> QED
      BY <2>1, NextSlotCounts, ZeroInRange DEF IInv, TypeOK, NextSlot, consumer
  <1>2. ProducerInv'
    BY DEF ProducerInv, NextSlot
  <1>3. ConsumerInv'
    <2>1. Kept' > 0
      BY NextSlotCounts
    <2> QED
      BY <2>1 DEF IInv, ConsumerInv, NextSlot, consumer
  <1>4. FilledInv'
    <2>1. \A k \in 1 .. Count + 1 : p[Cell(rptr, k)] \in Elems
      <3>1. \A k \in 1 .. Count + 1 : k \in 1 .. Count \/ k = Count + 1
        BY NextSlotCounts
      <3> QED
        BY <3>1, NextSlotCounts DEF IInv, FilledInv
    <2> QED
      BY <2>1, NextSlotCounts DEF FilledInv
  <1> QED
    BY <1>1, <1>2, <1>3, <1>4 DEF IInv

\* my_fifo_push counts its element before it is copied.
LEMMA PushBeginCounts ==
    ASSUME IInv, NEW e \in Elems, PushBegin(e)
    PROVE  /\ wptr' \in Ptrs /\ rptr' = rptr /\ p' = p
           /\ Count' = Count + 1 /\ Count' \in 1 .. Num /\ Kept' = Kept
           /\ to' = Cell(rptr, Count') /\ to' \in Slots
  <1>1. /\ wptr \in Ptrs /\ rptr \in Ptrs /\ Count \in 0 .. Num
        /\ Kept = Count /\ Count < Num /\ Num \in Nat
    BY Counted, FifoAssumption DEF IInv, TypeOK, PushBegin, Room
  <1>2. wptr' \in Ptrs /\ Count' = Count + 1
    BY CountGrows DEF IInv, PushBegin
  <1>3. Kept' = Count' - 1
    BY DEF Kept, PushBegin
  <1>4. to' = Cell(rptr, Count + 1) /\ to' \in Slots
    BY <1>1, CellOfPtrs, CellType DEF PushBegin, Count
  <1>5. Kept' = Kept /\ Count' \in 1 .. Num
    BY <1>1, <1>2, <1>3
  <1> QED
    BY <1>2, <1>4, <1>5 DEF PushBegin

LEMMA PushBeginStep == ASSUME IInv, NEW e \in Elems, PushBegin(e) PROVE IInv'
  <1>1. TypeOK'
    <2>1. Count' <= Num
      BY PushBeginCounts
    <2> QED
      BY <2>1, PushBeginCounts DEF IInv, TypeOK, PushBegin, consumer
  <1>2. ProducerInv'
    <2>1. Count' > 0
      BY PushBeginCounts
    <2> QED
      BY <2>1, PushBeginCounts DEF ProducerInv, PushBegin
  <1>3. ConsumerInv'
    BY PushBeginCounts DEF IInv, ConsumerInv, PushBegin, consumer
  <1>4. FilledInv'
    BY PushBeginCounts DEF IInv, FilledInv
  <1> QED
    BY <1>1, <1>2, <1>3, <1>4 DEF IInv

\* Its copy makes one of the elements kept.
LEMMA PushCopyKeeps ==
    ASSUME IInv, PushCopy
    PROVE  /\ rptr' = rptr /\ p' \in [Slots -> Elems \cup {NoElem}]
           /\ Count' = Count /\ Kept' = Count /\ Count = Kept + 1
           /\ Kept \in Nat /\ Kept < Num /\ elem \in Elems
           /\ p'[Cell(rptr, Kept + 1)] = elem
           /\ \A k \in 1 .. Kept : p'[Cell(rptr, k)] = p[Cell(rptr, k)]
  <1>1. /\ to = Cell(rptr, Count) /\ Kept = Count - 1 /\ Count \in 1 .. Num
        /\ elem \in Elems
    BY Counted DEF IInv, ProducerInv, PushCopy
  <1>2. Count' = Count
    BY CountKept DEF PushCopy
  <1>3. Kept' = Count'
    BY DEF Kept, PushCopy
  <1>4. /\ p' \in [Slots -> Elems \cup {NoElem}] /\ p'[to] = elem
        /\ \A k \in 1 .. Kept : p'[Cell(rptr, k)] = p[Cell(rptr, k)]
    BY OthersUntouched DEF PushCopy
  <1>5. Count = Kept + 1 /\ Kept \in Nat /\ Kept < Num
    BY <1>1, FifoAssumption
  <1> QED
    BY <1>1, <1>2, <1>3, <1>4, <1>5 DEF PushCopy

LEMMA PushCopyStep == ASSUME IInv, PushCopy PROVE IInv'
  <1>1. TypeOK'
    BY PushCopyKeeps, ZeroInRange DEF IInv, TypeOK, PushCopy, consumer
  <1>2. ProducerInv'
    BY DEF ProducerInv, PushCopy
  <1>3. ConsumerInv'
    <2>1. Kept' > 0
      BY PushCopyKeeps
    <2>2. taking # "none" => 1 \in 1 .. Kept /\ from = Cell(rptr, 1)
      BY PushCopyKeeps DEF IInv, ConsumerInv
    <2>3. taking # "none" => p'[from] = p[from]
      BY PushCopyKeeps, <2>2
    <2> QED
      BY <2>1, <2>3 DEF IInv, ConsumerInv, PushCopy, consumer
  <1>4. FilledInv'
    <2>1. \A k \in 1 .. Kept + 1 : p'[Cell(rptr, k)] \in Elems
      <3>1. \A k \in 1 .. Kept + 1 : k \in 1 .. Kept \/ k = Kept + 1
        BY PushCopyKeeps
      <3> QED
        BY <3>1, PushCopyKeeps DEF IInv, FilledInv
    <2> QED
      BY <2>1, PushCopyKeeps DEF FilledInv
  <1> QED
    BY <1>1, <1>2, <1>3, <1>4 DEF IInv

LEMMA GetStep == ASSUME IInv, Get PROVE IInv'
  <1>1. Count' = Count /\ Kept' = Kept
    BY CountKept DEF Get, Kept, producer
  <1>2. Kept > 0
    BY ConsumerNotCopying, Counted DEF IInv, Get
  <1>3. from' = Cell(rptr, 1) /\ from' \in Slots
    BY CellOfPtrs, CellType DEF IInv, TypeOK, Get
  <1>4. TypeOK'
    BY <1>1, <1>3 DEF IInv, TypeOK, Get, producer
  <1>5. ProducerInv'
    BY <1>1 DEF IInv, ProducerInv, Get, producer
  <1>6. ConsumerInv'
    BY <1>1, <1>2, <1>3 DEF ConsumerInv, Get
  <1>7. FilledInv'
    BY <1>1 DEF IInv, FilledInv, Get
  <1> QED
    BY <1>4, <1>5, <1>6, <1>7 DEF IInv

LEMMA UseStep == ASSUME IInv, Use PROVE IInv'
  <1>1. Count' = Count /\ Kept' = Kept
    BY CountKept DEF Use, Kept, producer
  <1>2. TypeOK'
    BY <1>1 DEF IInv, TypeOK, Use, producer
  <1>3. ProducerInv'
    BY <1>1 DEF IInv, ProducerInv, Use, producer
  <1>4. ConsumerInv'
    BY <1>1 DEF IInv, ConsumerInv, Use
  <1>5. FilledInv'
    BY <1>1 DEF IInv, FilledInv, Use
  <1> QED
    BY <1>2, <1>3, <1>4, <1>5 DEF IInv

\* my_fifo_pop takes the first of the elements kept away.
LEMMA PopShrinks ==
    ASSUME IInv, Pop
    PROVE  /\ rptr' \in Ptrs /\ wptr' = wptr /\ p' = p
           /\ Kept \in Nat /\ Kept > 0 /\ Kept = Count
           /\ Count' \in Nat /\ Count' + 1 = Count /\ Kept' = Count'
           /\ used = p[Cell(rptr, 1)]
           /\ \A k \in Nat \ {0} : Cell(rptr', k) = Cell(rptr, k + 1)
  <1>1. putting # "copying"
    BY ConsumerNotCopying DEF Pop
  <1>2. Kept \in Nat /\ Kept > 0 /\ Kept = Count /\ used = p[Cell(rptr, 1)]
    BY <1>1, Counted DEF IInv, ConsumerInv, Pop
  <1>3. /\ rptr' \in Ptrs /\ Count' + 1 = Count /\ Count' \in Nat
        /\ \A k \in Nat \ {0} : Cell(rptr', k) = Cell(rptr, k + 1)
    BY <1>2, CountShrinks DEF IInv, Pop
  <1>4. Kept' = Count'
    BY <1>1 DEF Kept, Pop, producer
  <1> QED
    BY <1>2, <1>3, <1>4 DEF Pop

LEMMA PopStep == ASSUME IInv, Pop PROVE IInv'
  <1>1. TypeOK'
    <2>1. Count' <= Num
      BY PopShrinks, FifoAssumption DEF IInv, TypeOK
    <2> QED
      BY <2>1, PopShrinks, ZeroInRange DEF IInv, TypeOK, Pop, producer
  <1>2. ProducerInv'
    <2>1. putting # "copying"
      BY ConsumerNotCopying DEF Pop
    <2>2. Count < Num => Count' < Num
      BY PopShrinks, FifoAssumption
    <2>3. Cell(rptr', Count' + 1) = Cell(rptr, Count + 1)
      <3>1. Count' + 1 \in Nat \ {0} /\ (Count' + 1) + 1 = Count + 1
        BY PopShrinks
      <3> QED
        BY <3>1, PopShrinks
    <2> QED
      BY <2>1, <2>2, <2>3 DEF IInv, ProducerInv, Pop, producer
  <1>3. ConsumerInv'
    BY DEF ConsumerInv, Pop
  <1>4. FilledInv'
    <2>1. ASSUME NEW k \in 1 .. Count' PROVE p[Cell(rptr', k)] \in Elems
      <3>1. k + 1 \in 1 .. Kept /\ k \in Nat \ {0}
        BY PopShrinks
      <3> QED
        BY <3>1, PopShrinks DEF IInv, FilledInv
    <2> QED
      BY <2>1, PopShrinks DEF FilledInv
  <1> QED
    BY <1>1, <1>2, <1>3, <1>4 DEF IInv

LEMMA ResetEmpties ==
    ASSUME IInv, Reset PROVE Count' = 0 /\ Kept' = 0
  <1>1. Count' = 0
    BY ZeroInRange DEF Count, Reset
  <1>2. Kept' = Count'
    BY DEF Kept, Reset, producer
  <1> QED
    BY <1>1, <1>2

LEMMA ResetStep == ASSUME IInv, Reset PROVE IInv'
  <1>1. TypeOK'
    BY ResetEmpties, ZeroInRange, FifoAssumption
       DEF IInv, TypeOK, Reset, producer, consumer
  <1>2. ProducerInv' /\ ConsumerInv'
    BY DEF ProducerInv, ConsumerInv, Reset, producer, consumer
  <1>3. FilledInv'
    BY ResetEmpties DEF FilledInv
  <1> QED
    BY <1>1, <1>2, <1>3 DEF IInv

LEMMA StutterStep == ASSUME IInv, UNCHANGED vars PROVE IInv'
  <1>1. Count' = Count /\ Kept' = Kept
    BY CountKept DEF vars, Kept, producer
  <1> QED
    BY <1>1 DEF vars, producer, consumer, IInv, TypeOK, ProducerInv, ConsumerInv, FilledInv

LEMMA IInvStep == ASSUME IInv, [Next]_vars PROVE IInv'
  BY GetSlotStep, PushBeginStep, FillStep, NextSlotStep, PushCopyStep,
     GetStep, UseStep, PopStep, ResetStep, StutterStep DEF Next

\* The invariant from which the theorems below follow.
THEOREM Invariant == Spec => []IInv
  BY Initially, IInvStep, PTL DEF Spec

\* The type invariant: the indices stay in their bytes, the slots in use in the
\* buffer, and never more than Num elements are counted.
THEOREM TypeCorrect == Spec => []TypeOK
  BY Invariant, PTL DEF IInv

----------------------------------------------------------------------------
(* The slot handed out.                                                    *)

LEMMA HeldSlotStep ==
    ASSUME IInv, [Next]_vars, taking # "none" PROVE p'[from] = p[from]
  <1>1. 1 \in 1 .. Kept /\ from = Cell(rptr, 1)
    BY Counted DEF IInv, ConsumerInv
  <1>2. CASE Fill
    BY <1>1, <1>2, OthersUntouched DEF Fill
  <1>3. CASE PushCopy
    BY <1>1, <1>3, OthersUntouched DEF PushCopy
  <1>4. CASE \E e \in Elems : GetSlot(e) \/ PushBegin(e)
    BY <1>4 DEF GetSlot, PushBegin
  <1>5. CASE NextSlot \/ Get \/ Use \/ Pop \/ Reset \/ UNCHANGED vars
    BY <1>5 DEF NextSlot, Get, Use, Pop, Reset, vars
  <1> QED
    BY <1>2, <1>3, <1>4, <1>5 DEF Next

\* The slot my_fifo_get has handed out is not written until my_fifo_pop.
THEOREM SlotHeld == Spec => HeldSlotKept
  <1>1. IInv /\ [Next]_vars => [taking # "none" => p'[from] = p[from]]_vars
    BY HeldSlotStep
  <1> QED
    BY <1>1, Invariant, PTL DEF Spec, HeldSlotKept

----------------------------------------------------------------------------
(* The refinement.                                                         *)

\* The queue mapped to: a sequence of elements, as long as Kept.
ContentsTyped ==
    /\ Contents \in Seq(Elems) /\ Len(Contents) = Kept
    /\ \A k \in 1 .. Kept : Contents[k] = p[Cell(rptr, k)]

LEMMA ContentsType == IInv => ContentsTyped /\ Kept \in Nat
  <1> SUFFICES ASSUME IInv PROVE ContentsTyped /\ Kept \in Nat
    OBVIOUS
  <1>1. Kept \in Nat
    BY Counted DEF IInv
  <1>2. Contents \in [1 .. Kept -> Elems]
    BY DEF IInv, FilledInv, Contents
  <1>3. Contents \in Seq(Elems)
    BY <1>1, <1>2, SeqDef
  <1>4. Len(Contents) = Kept
    BY <1>1, <1>2, <1>3, LenProperties
  <1> QED
    BY <1>1, <1>3, <1>4 DEF Contents, ContentsTyped

LEMMA ContentsTypeNext == IInv' => ContentsTyped'
  BY ContentsType, PTL

\* Slots that stay as they are keep the queue.
LEMMA ContentsKept ==
    ASSUME IInv, Kept' = Kept, rptr' = rptr,
           \A k \in 1 .. Kept : p'[Cell(rptr, k)] = p[Cell(rptr, k)]
    PROVE  Contents' = Contents
  BY DEF Contents

\* A queue with one element more at its end.
LEMMA ContentsAppended ==
    ASSUME IInv, IInv', Kept' = Kept + 1, rptr' = rptr, elem \in Elems,
           p'[Cell(rptr, Kept + 1)] = elem,
           \A k \in 1 .. Kept : p'[Cell(rptr, k)] = p[Cell(rptr, k)]
    PROVE  Contents' = Append(Contents, elem)
  <1>1. /\ Contents \in Seq(Elems) /\ Len(Contents) = Kept /\ Kept \in Nat
        /\ \A k \in 1 .. Kept : Contents[k] = p[Cell(rptr, k)]
    BY ContentsType DEF ContentsTyped
  <1>2. /\ Contents' \in Seq(Elems) /\ Len(Contents') = Kept + 1
        /\ \A k \in 1 .. Kept + 1 : Contents'[k] = p'[Cell(rptr, k)]
    BY ContentsTypeNext DEF ContentsTyped
  <1> DEFINE longer == Append(Contents, elem)
  <1>3. /\ longer \in Seq(Elems) /\ Len(longer) = Kept + 1
        /\ \A k \in 1 .. Kept : longer[k] = Contents[k]
        /\ longer[Kept + 1] = elem
    BY <1>1, AppendProperties
  <1>4. ASSUME NEW k \in 1 .. Kept + 1 PROVE Contents'[k] = longer[k]
    <2>1. k \in 1 .. Kept \/ k = Kept + 1
      BY <1>1
    <2> QED
      BY <1>1, <1>2, <1>3, <2>1
  <1> HIDE DEF longer
  <1>5. Contents' = longer
    BY <1>2, <1>3, <1>4, SeqEqual
  <1> QED
    BY <1>5 DEF longer

\* A queue without its first element.
LEMMA ContentsPopped ==
    ASSUME IInv, IInv', Pop
    PROVE  /\ Contents # <<>> /\ Head(Contents) = used
           /\ Contents' = Tail(Contents)
  <1>1. /\ Contents \in Seq(Elems) /\ Len(Contents) = Kept
        /\ \A k \in 1 .. Kept : Contents[k] = p[Cell(rptr, k)]
    BY ContentsType DEF ContentsTyped
  <1>2. /\ Kept \in Nat /\ Kept > 0 /\ Kept' = Kept - 1 /\ p' = p
        /\ used = p[Cell(rptr, 1)]
        /\ \A k \in Nat \ {0} : Cell(rptr', k) = Cell(rptr, k + 1)
    BY PopShrinks
  <1>3. /\ Contents' \in Seq(Elems) /\ Len(Contents') = Kept - 1
        /\ \A k \in 1 .. Kept - 1 : Contents'[k] = p[Cell(rptr', k)]
    BY <1>2, ContentsTypeNext DEF ContentsTyped
  <1>4. Contents # <<>>
    BY <1>1, <1>2
  <1>5. Head(Contents) = used
    BY <1>1, <1>2, <1>4, HeadTailProperties
  <1> DEFINE shorter == Tail(Contents)
  <1>6. /\ shorter \in Seq(Elems) /\ Len(shorter) = Kept - 1
        /\ \A k \in 1 .. Kept - 1 : shorter[k] = Contents[k + 1]
    BY <1>1, <1>2, <1>4, HeadTailProperties
  <1> HIDE DEF shorter
  <1>7. ASSUME NEW k \in 1 .. Kept - 1 PROVE Contents'[k] = shorter[k]
    <2>1. k + 1 \in 1 .. Kept /\ k \in Nat \ {0}
      BY <1>2
    <2>2. Contents'[k] = p[Cell(rptr, k + 1)]
      BY <1>3, <1>2, <2>1
    <2> QED
      BY <1>1, <1>6, <2>1, <2>2
  <1>8. Contents' = shorter
    BY <1>3, <1>6, <1>7, SeqEqual
  <1> QED
    BY <1>4, <1>5, <1>8 DEF shorter

LEMMA Mapped ==
    ASSUME IInv, IInv', [Next]_vars
    PROVE  [Abstract!Next]_<<Contents, last>>
  <1> USE DEF Abstract!Next, Abstract!Put, Abstract!Take, Abstract!Clear
  <1>1. CASE NextSlot
    <2>1. Len(Contents) < Num /\ elem \in Elems /\ last' = last
      BY <1>1, NextSlotCounts, ContentsType DEF NextSlot, ContentsTyped
    <2>2. Contents' = Append(Contents, elem)
      BY <1>1, NextSlotCounts, ContentsAppended
    <2> QED
      BY <2>1, <2>2
  <1>2. CASE PushCopy
    <2>1. Len(Contents) < Num /\ elem \in Elems /\ last' = last
      BY <1>2, PushCopyKeeps, ContentsType DEF PushCopy, ContentsTyped
    <2>2. Contents' = Append(Contents, elem)
      BY <1>2, PushCopyKeeps, ContentsAppended
    <2> QED
      BY <2>1, <2>2
  <1>3. CASE Pop
    BY <1>3, ContentsPopped DEF Pop
  <1>4. CASE Reset
    <2>1. Contents' = <<>>
      BY <1>4, ResetEmpties DEF Contents
    <2> QED
      BY <1>4, <2>1 DEF Reset
  <1>5. CASE Fill
    <2>1. Kept' = Kept
      BY <1>5, CountKept DEF Fill, Kept
    <2>2. Contents' = Contents
      BY <1>5, <2>1, OthersUntouched, ContentsKept DEF Fill
    <2> QED
      BY <1>5, <2>2 DEF Fill
  <1>6. CASE \E e \in Elems : PushBegin(e)
    <2>1. Kept' = Kept /\ rptr' = rptr /\ p' = p
      BY <1>6, PushBeginCounts
    <2>2. Contents' = Contents
      BY <2>1, ContentsKept
    <2> QED
      BY <1>6, <2>2 DEF PushBegin
  <1>7. CASE (\E e \in Elems : GetSlot(e)) \/ Get \/ Use \/ UNCHANGED vars
    <2>1. Kept' = Kept /\ rptr' = rptr /\ p' = p /\ last' = last
      BY <1>7, CountKept DEF GetSlot, Get, Use, vars, producer, Kept
    <2>2. Contents' = Contents
      BY <2>1, ContentsKept
    <2> QED
      BY <2>1, <2>2
  <1> QED
    BY <1>1, <1>2, <1>3, <1>4, <1>5, <1>6, <1>7 DEF Next

\* The queue of utility.c implements the bounded queue.
THEOREM Refinement == Spec => Implements
  <1>1. Init => Abstract!Init
    BY Initially DEF Init, Abstract!Init
  <1>2. IInv /\ IInv' /\ [Next]_vars => [Abstract!Next]_<<Contents, last>>
    BY Mapped
  <1> QED
    BY <1>1, <1>2, Invariant, PTL DEF Spec, Implements, Abstract!Spec
=============================================================================
