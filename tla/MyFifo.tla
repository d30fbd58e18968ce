------------------------------- MODULE MyFifo -------------------------------
(***************************************************************************)
(* The queue my_fifo (common/utility.c) between the main loop and an       *)
(* interrupt, one of which fills it and the other empties it.              *)
(*                                                                         *)
(* The interrupt's calls run to completion; the main loop's may be         *)
(* interrupted between any two accesses.  A slot is filled in place        *)
(* (my_fifo_wptr, then my_fifo_next) or by my_fifo_push, which moves wptr  *)
(* before it copies and is therefore modelled only where the consumer      *)
(* cannot interrupt it.                                                    *)
(***************************************************************************)
EXTENDS Naturals, Sequences

CONSTANTS
    Elems,          \* what is queued
    FullSize,       \* those of them that take all f->size bytes of a slot
    NoElem,         \* the zeroed contents of a slot
    Num,            \* f->num, a power of two
    PtrMod          \* wptr and rptr are unsigned chars: 256

ASSUME FifoAssumption ==
    /\ FullSize \subseteq Elems /\ NoElem \notin Elems
    /\ Num \in Nat \ {0} /\ PtrMod \in Nat
    /\ PtrMod % Num = 0 /\ Num < PtrMod

Sides == {"producer", "consumer"}
Slots == 0 .. Num - 1
Ptrs == 0 .. PtrMod - 1

VARIABLES
    wptr, rptr,     \* the fields of the same names
    p,              \* the slots
    irq,            \* the side that is the interrupt
    putting,        \* where the producer is,
    elem, to,       \* the element it is putting and the slot it writes to
    taking,         \* where the consumer is,
    from, used,     \* the slot it was given and what it has read there
    last            \* observer: the element the consumer was done with last

producer == <<putting, elem, to>>
consumer == <<taking, from, used>>
vars == <<wptr, rptr, p, irq, producer, consumer, last>>

\* my_fifo_init, or MYFIFO_INIT
Init ==
    /\ wptr = 0 /\ rptr = 0
    /\ p = [k \in Slots |-> NoElem]
    /\ irq \in Sides
    /\ putting = "none" /\ elem = NoElem /\ to = 0
    /\ taking = "none" /\ from = 0 /\ used = NoElem
    /\ last = NoElem

ProducerMay == irq = "producer" \/ taking = "none"
ConsumerMay == irq = "consumer" \/ putting = "none"

\* Mutant: the difference is not taken modulo 256.
DistUnwrapped(w, r) == IF w >= r THEN w - r ELSE 0

\* (f->wptr - f->rptr) & 255
Dist(w, r) == (w + PtrMod - r) % PtrMod

Count == Dist(wptr, rptr)

\* Mutant: one element too many.
RoomForOneMore == Count <= Num

Room == Count < Num

\* Mutant: the mask leaves out one slot.
SlotMasked(ptr) == ptr % (Num - 1)

\* The slot of a pointer: ptr & (f->num-1).
Slot(ptr) == ptr % Num

Advance(ptr) == (ptr + 1) % PtrMod

----------------------------------------------------------------------------
(* The producer.                                                           *)

\* my_fifo_wptr; without room it returns 0 and nothing happens.
GetSlot(e) ==
    /\ ProducerMay /\ putting = "none" /\ Room
    /\ putting' = "filling" /\ elem' = e /\ to' = Slot(wptr)
    /\ UNCHANGED <<wptr, rptr, p, irq, consumer, last>>

Fill ==
    /\ ProducerMay /\ putting = "filling"
    /\ p' = [p EXCEPT ![to] = elem]
    /\ putting' = "filled"
    /\ UNCHANGED <<wptr, rptr, irq, elem, to, consumer, last>>

\* my_fifo_next
NextSlot ==
    /\ ProducerMay /\ putting = "filled"
    /\ wptr' = Advance(wptr)
    /\ putting' = "none" /\ elem' = NoElem /\ to' = 0
    /\ UNCHANGED <<rptr, p, irq, consumer, last>>

\* my_fifo_push as far as wptr++: an element of f->size bytes is refused.
PushBegin(e) ==
    /\ irq = "producer" /\ putting = "none"
    /\ Room /\ e \notin FullSize
    /\ to' = Slot(wptr) /\ wptr' = Advance(wptr)
    /\ putting' = "copying" /\ elem' = e
    /\ UNCHANGED <<rptr, p, irq, consumer, last>>

\* Its memcpy.
PushCopy ==
    /\ putting = "copying"
    /\ p' = [p EXCEPT ![to] = elem]
    /\ putting' = "none" /\ elem' = NoElem /\ to' = 0
    /\ UNCHANGED <<wptr, rptr, irq, consumer, last>>

----------------------------------------------------------------------------
(* The consumer.                                                           *)

\* my_fifo_get; of an empty queue it returns 0 and nothing happens.
Get ==
    /\ ConsumerMay /\ taking = "none" /\ rptr # wptr
    /\ taking' = "got" /\ from' = Slot(rptr)
    /\ UNCHANGED <<wptr, rptr, p, irq, producer, used, last>>

Use ==
    /\ ConsumerMay /\ taking = "got"
    /\ used' = p[from]
    /\ taking' = "used"
    /\ UNCHANGED <<wptr, rptr, p, irq, producer, from, last>>

\* my_fifo_pop
Pop ==
    /\ ConsumerMay /\ taking = "used"
    /\ rptr' = Advance(rptr)
    /\ last' = used
    /\ taking' = "none" /\ from' = 0 /\ used' = NoElem
    /\ UNCHANGED <<wptr, p, irq, producer>>

\* my_fifo_reset, with the interrupt kept out.
Reset ==
    /\ putting = "none" /\ taking = "none"
    /\ rptr' = 0 /\ wptr' = 0
    /\ UNCHANGED <<p, irq, producer, consumer, last>>

Next ==
    \/ \E e \in Elems : GetSlot(e) \/ PushBegin(e)
    \/ Fill \/ NextSlot \/ PushCopy
    \/ Get \/ Use \/ Pop
    \/ Reset

Spec == Init /\ [][Next]_vars
=============================================================================
