---------------------------- MODULE BoundedFifo ----------------------------
(***************************************************************************)
(* What a RingBuffer promises: a first-in first-out queue of at most       *)
(* Capacity items, each put and taken whole and in one step.               *)
(***************************************************************************)
EXTENDS Integers, Sequences

CONSTANTS Capacity, Items, NoItem

VARIABLES
    queue,   \* the items put and not taken, oldest first
    got      \* the item taken last

fifoVars == <<queue, got>>

Init == queue = <<>> /\ got = NoItem

Put(x) ==
    /\ Len(queue) < Capacity
    /\ queue' = Append(queue, x)
    /\ UNCHANGED got

Take ==
    /\ queue # <<>>
    /\ got'   = Head(queue)
    /\ queue' = Tail(queue)

Next == (\E x \in Items : Put(x)) \/ Take

Spec == Init /\ [][Next]_fifoVars
=============================================================================
