---------------------------- MODULE BoundedQueue ----------------------------
(***************************************************************************)
(* What a bounded queue promises: elements come out in the order they went *)
(* in, each once, and at most Capacity are kept.                           *)
(***************************************************************************)
EXTENDS Naturals, Sequences

CONSTANTS Elems, Capacity, NoElem

VARIABLES queue, last           \* the elements kept; the one taken last

Init == queue = <<>> /\ last = NoElem

Put(e) ==
    /\ Len(queue) < Capacity
    /\ queue' = Append(queue, e)
    /\ UNCHANGED last

Take ==
    /\ queue # <<>>
    /\ queue' = Tail(queue) /\ last' = Head(queue)

Clear == queue' = <<>> /\ UNCHANGED last

Next == (\E e \in Elems : Put(e)) \/ Take \/ Clear

Spec == Init /\ [][Next]_<<queue, last>>
=============================================================================
