---------------------------- MODULE MyFifoProps ----------------------------
(***************************************************************************)
(* What the queue my_fifo promises.                                        *)
(***************************************************************************)
EXTENDS MyFifo

\* Type correctness, and no more than Num elements between the pointers.
TypeOK ==
    /\ wptr \in Ptrs /\ rptr \in Ptrs /\ Count <= Num
    /\ p \in [Slots -> Elems \cup {NoElem}]
    /\ irq \in Sides
    /\ putting \in {"none", "filling", "filled", "copying"}
    /\ elem \in Elems \cup {NoElem} /\ to \in Slots
    /\ taking \in {"none", "got", "used"}
    /\ from \in Slots /\ used \in Elems \cup {NoElem}
    /\ last \in Elems \cup {NoElem}

\* The elements in the queue: those between the pointers, without the one
\* my_fifo_push has made room for and not copied yet.
Kept == IF putting = "copying" THEN Count - 1 ELSE Count
\* The slot of the k-th element from a pointer on.
Cell(ptr, k) == Slot(ptr + k - 1)
Contents == [k \in 1 .. Kept |-> p[Cell(rptr, k)]]

Abstract == INSTANCE BoundedQueue WITH queue <- Contents, Capacity <- Num

\* my_fifo is a bounded queue: what the consumer reads in the slot it is given
\* is the oldest element not yet taken, whole, however its calls and the
\* producer's interrupt each other and often as the indices wrap.
Implements == Abstract!Spec

\* The slot the consumer was given is not written until it calls my_fifo_pop:
\* it may read there as often as it likes.
HeldSlotKept == [][taking # "none" => p'[from] = p[from]]_vars

----------------------------------------------------------------------------
(* The inductive invariant of the proofs.                                  *)

\* What the producer has in hand: a slot behind the elements kept, or, while
\* my_fifo_push copies, the last of those counted, with the consumer kept out.
ProducerInv ==
    /\ putting # "none" => elem \in Elems
    /\ putting \in {"filling", "filled"} => Count < Num /\ to = Cell(rptr, Count + 1)
    /\ putting = "filled" => p[to] = elem
    /\ putting = "copying" => Count > 0 /\ to = Cell(rptr, Count) /\ irq = "producer"

\* What the consumer has in hand: the slot of the oldest element kept.
ConsumerInv ==
    /\ taking # "none" => Kept > 0 /\ from = Cell(rptr, 1)
    /\ taking = "used" => used = p[from]

\* Every slot between the pointers has been filled.
FilledInv == \A k \in 1 .. Kept : p[Cell(rptr, k)] \in Elems

IInv == TypeOK /\ ProducerInv /\ ConsumerInv /\ FilledInv
=============================================================================
