----------------------------- MODULE RingBuffer -----------------------------
(***************************************************************************)
(* RingBuffer<T, Capacity> (src/misc/RingBuffer.h): the lock-free queue in *)
(* shared memory between the Exchange and the ExchangeServer.              *)
(*                                                                         *)
(* Every atomic load and store is a step, and each memcpy of a message is  *)
(* two, one per half, so that a reader can meet a message half written.    *)
(* The release stores of head_ and tail_ and the acquire loads that meet   *)
(* them keep a copy on its side of them; a thread's own index needs no     *)
(* order, being written by that thread only.                               *)
(*                                                                         *)
(* The two ends are in different processes.  The Exchange only attaches to *)
(* the region (SharedMemoryRegion.cpp, isManager_ false): it may be killed *)
(* and started again, which loses what a call had in its registers and     *)
(* keeps what it stored.  A restart of the ExchangeServer constructs the   *)
(* ring anew under the Exchange and is outside this specification.         *)
(***************************************************************************)
EXTENDS Integers, Sequences

CONSTANTS
    Capacity,    \* the template parameter; the buffer has one slot more
    Items,       \* messages
    NoItem,      \* what a slot holds before the first message
    Producers,   \* threads that call Enqueue
    Consumer,    \* the thread that calls Dequeue
    Attached     \* those of them that are the Exchange's

ASSUME CapacityAssumption == Capacity \in Nat \ {0}
ASSUME ThreadsAssumption  == Consumer \notin Producers /\ Attached \subseteq Producers \cup {Consumer}
ASSUME ItemsAssumption    == NoItem \notin Items

Threads == Producers \cup {Consumer}
Slots   == 0 .. Capacity
Halves  == {"first", "second"}
Messages == Items \cup {NoItem}

VARIABLES
    head,     \* head_: the next free slot
    tail,     \* tail_: the slot of the oldest message
    buffer,   \* buffer_: the two halves of each slot
    pc,       \* how far each thread's call has come
    at,       \* the index each thread loaded: head in Enqueue, tail in Dequeue
    item,     \* the message each producer enqueues
    out,      \* what the consumer has copied out
    got       \* the message Dequeue returned last

vars == <<head, tail, buffer, pc, at, item, out, got>>

\* (index + 1) % internalCapacity_
NextSlot(i) == IF i = Capacity THEN 0 ELSE i + 1

Whole(x) == [half \in Halves |-> x]

Init ==
    /\ head = 0 /\ tail = 0
    /\ buffer = [s \in Slots |-> Whole(NoItem)]
    /\ pc     = [t \in Threads |-> "idle"]
    /\ at     = [t \in Threads |-> 0]
    /\ item   = [p \in Producers |-> NoItem]
    /\ out    = Whole(NoItem)
    /\ got    = Whole(NoItem)

Goto(t, label) == pc' = [pc EXCEPT ![t] = label]

-----------------------------------------------------------------------------
(* Enqueue *)

LoadHead(p, x) ==
    /\ pc[p] = "idle"
    /\ at'   = [at EXCEPT ![p] = head]
    /\ item' = [item EXCEPT ![p] = x]
    /\ Goto(p, "loaded")
    /\ UNCHANGED <<head, tail, buffer, out, got>>

\* return false when the slot after head_ is the oldest message's
\* (slip: the queue is never full)
NeverFull(p) == FALSE
Full(p) == NextSlot(at[p]) = tail
CheckFull(p) ==
    /\ pc[p] = "loaded"
    /\ Goto(p, IF Full(p) THEN "idle" ELSE "room")
    /\ UNCHANGED <<head, tail, buffer, at, item, out, got>>

CopyIn(p, half, from, to) ==
    /\ pc[p] = from
    /\ buffer' = [buffer EXCEPT ![at[p]][half] = item[p]]
    /\ Goto(p, to)
    /\ UNCHANGED <<head, tail, at, item, out, got>>

\* (slip: the index is published before the copy is complete)
StoreHeadEarly(p) ==
    /\ pc[p] = "half"
    /\ head' = NextSlot(at[p])
    /\ Goto(p, "idle")
    /\ UNCHANGED <<tail, buffer, at, item, out, got>>
StoreHead(p) ==
    /\ pc[p] = "copied"
    /\ head' = NextSlot(at[p])
    /\ Goto(p, "idle")
    /\ UNCHANGED <<tail, buffer, at, item, out, got>>

-----------------------------------------------------------------------------
(* Dequeue *)

LoadTail(c) ==
    /\ pc[c] = "idle"
    /\ at' = [at EXCEPT ![c] = tail]
    /\ Goto(c, "loaded")
    /\ UNCHANGED <<head, tail, buffer, item, out, got>>

Empty(c) == at[c] = head
CheckEmpty(c) ==
    /\ pc[c] = "loaded"
    /\ Goto(c, IF Empty(c) THEN "idle" ELSE "room")
    /\ UNCHANGED <<head, tail, buffer, at, item, out, got>>

CopyOut(c, half, from, to) ==
    /\ pc[c] = from
    /\ out' = [out EXCEPT ![half] = buffer[at[c]][half]]
    /\ Goto(c, to)
    /\ UNCHANGED <<head, tail, buffer, at, item, got>>

StoreTail(c) ==
    /\ pc[c] = "copied"
    /\ tail' = NextSlot(at[c])
    /\ got'  = out
    /\ Goto(c, "idle")
    /\ UNCHANGED <<head, buffer, at, item, out>>

-----------------------------------------------------------------------------
\* the Exchange is killed in the middle of a call and starts again
Restart(t) ==
    /\ pc[t] # "idle"
    /\ Goto(t, "idle")
    /\ UNCHANGED <<head, tail, buffer, at, item, out, got>>

Enqueue(p) ==
    \/ \E x \in Items : LoadHead(p, x)
    \/ CheckFull(p)
    \/ CopyIn(p, "first", "room", "half") \/ CopyIn(p, "second", "half", "copied")
    \/ StoreHead(p)

Dequeue(c) ==
    \/ LoadTail(c)
    \/ CheckEmpty(c)
    \/ CopyOut(c, "first", "room", "half") \/ CopyOut(c, "second", "half", "copied")
    \/ StoreTail(c)

Next ==
    \/ \E p \in Producers : Enqueue(p)
    \/ Dequeue(Consumer)
    \/ \E t \in Attached : Restart(t)

Spec == Init /\ [][Next]_vars

-----------------------------------------------------------------------------
TypeOK ==
    /\ head \in Slots /\ tail \in Slots
    /\ buffer \in [Slots -> [Halves -> Messages]]
    /\ pc \in [Threads -> {"idle", "loaded", "room", "half", "copied"}]
    /\ at \in [Threads -> Slots]
    /\ item \in [Producers -> Messages]
    /\ out \in [Halves -> Messages] /\ got \in [Halves -> Messages]

\* Dequeue never returns a message of which it saw only part.
NoTornRead == got["first"] = got["second"]

\* The messages in the buffer, oldest first.
Size  == IF head >= tail THEN head - tail ELSE head - tail + Capacity + 1
Nth(i) == IF tail + i - 1 <= Capacity THEN tail + i - 1 ELSE tail + i - 2 - Capacity
Stored == [i \in 1 .. Size |-> buffer[Nth(i)]["first"]]

\* The ring is a FIFO of Capacity messages: a message is in it from the store of
\* head_ on and out of it from the store of tail_ on, none is lost, repeated or
\* overtaken, wherever the calls interleave and whenever a process is restarted.
Fifo == INSTANCE BoundedFifo WITH queue <- Stored, got <- got["first"]
FifoSpec == Fifo!Spec
=============================================================================
