-------------------------- MODULE RingBufferProofs --------------------------
(***************************************************************************)
(* RingBuffer with a single producer, for every capacity and every set of  *)
(* messages: no message is read torn, and the ring is a bounded FIFO.      *)
(***************************************************************************)
EXTENDS RingBuffer, SequenceTheorems, TLAPS

SingleProducer == \A p, q \in Producers : p = q

\* the slots between tail_ and head_
InUse(s) == IF tail <= head THEN tail <= s /\ s < head ELSE tail <= s \/ s < head

\* What a producer in the middle of Enqueue may rely on: head_ is still what it
\* loaded, there is room if it found room, and its slot holds what it copied.
ProducerInv(p) ==
    /\ pc[p] # "idle" => at[p] = head /\ item[p] \in Items
    /\ pc[p] \in {"room", "half", "copied"} => NextSlot(head) # tail
    /\ pc[p] \in {"half", "copied"} => buffer[head]["first"] = item[p]
    /\ pc[p] = "copied" => buffer[head]["second"] = item[p]

\* The same for the consumer, with the slot at tail_ and its out parameter.
ConsumerInv ==
    /\ pc[Consumer] # "idle" => at[Consumer] = tail
    /\ pc[Consumer] \in {"room", "half", "copied"} => head # tail
    /\ pc[Consumer] \in {"half", "copied"} => out["first"] = buffer[tail]["first"]
    /\ pc[Consumer] = "copied" => out["second"] = buffer[tail]["second"]

\* Whatever is stored is stored whole, and so was what was returned.
StoredWhole ==
    /\ \A s \in Slots : InUse(s) => buffer[s]["first"] = buffer[s]["second"]
    /\ got["first"] = got["second"]

IInv == TypeOK /\ (\A p \in Producers : ProducerInv(p)) /\ ConsumerInv /\ StoredWhole

-----------------------------------------------------------------------------
LEMMA NextSlotType == \A i \in Slots : NextSlot(i) \in Slots /\ NextSlot(i) # i
  BY CapacityAssumption DEF NextSlot, Slots

(* Types *)

LEMMA InitTypeOK == Init => TypeOK
  BY CapacityAssumption DEF Init, TypeOK, Slots, Whole, Messages, Halves, Threads

\* Every step keeps the types, whatever the number of producers.
LEMMA NextTypeOK == TypeOK /\ [Next]_vars => TypeOK'
<1> SUFFICES ASSUME TypeOK, [Next]_vars PROVE TypeOK'
  OBVIOUS
<1> USE DEF TypeOK, Goto, Threads, Messages, Halves
<1>1. ASSUME NEW p \in Producers, Enqueue(p) PROVE TypeOK'
  <2>1. ASSUME NEW x \in Items, LoadHead(p, x) PROVE TypeOK'
    BY <2>1 DEF LoadHead
  <2>2. CASE CheckFull(p)
    BY <2>2 DEF CheckFull
  <2>3. ASSUME NEW half \in Halves, NEW from, NEW to \in {"half", "copied"},
               CopyIn(p, half, from, to)
        PROVE TypeOK'
    BY <2>3 DEF CopyIn
  <2>4. CASE StoreHead(p)
    BY <2>4, NextSlotType DEF StoreHead
  <2> QED
    BY <1>1, <2>1, <2>2, <2>3, <2>4 DEF Enqueue
<1>2. CASE Dequeue(Consumer)
  <2>1. CASE LoadTail(Consumer)
    BY <2>1 DEF LoadTail
  <2>2. CASE CheckEmpty(Consumer)
    BY <2>2 DEF CheckEmpty
  <2>3. ASSUME NEW half \in Halves, NEW from, NEW to \in {"half", "copied"},
               CopyOut(Consumer, half, from, to)
        PROVE TypeOK'
    BY <2>3 DEF CopyOut
  <2>4. CASE StoreTail(Consumer)
    BY <2>4, NextSlotType DEF StoreTail
  <2> QED
    BY <1>2, <2>1, <2>2, <2>3, <2>4 DEF Dequeue
<1>3. ASSUME NEW t \in Attached, Restart(t) PROVE TypeOK'
  BY <1>3, ThreadsAssumption DEF Restart, Threads
<1>4. CASE UNCHANGED vars
  BY <1>4 DEF vars
<1> QED
  BY <1>1, <1>2, <1>3, <1>4 DEF Next

\* Type correctness of the ring, for any number of producers.
THEOREM RingTypeCorrect == Spec => []TypeOK
  BY InitTypeOK, NextTypeOK, PTL DEF Spec

-----------------------------------------------------------------------------
(* The inductive invariant *)

LEMMA InitIInv == Init => IInv
  BY CapacityAssumption, InitTypeOK DEF Init, IInv, ProducerInv, ConsumerInv, StoredWhole, InUse, Slots,
     Whole, Halves, Threads

LEMMA NextIInv == SingleProducer /\ IInv /\ [Next]_vars => IInv'
<1> SUFFICES ASSUME SingleProducer, IInv, [Next]_vars PROVE IInv'
  OBVIOUS
<1>t. TypeOK /\ TypeOK'
  BY NextTypeOK DEF IInv
<1> USE CapacityAssumption, ThreadsAssumption, <1>t
<1>1. ASSUME NEW p \in Producers, Enqueue(p) PROVE IInv'
  <2> p # Consumer /\ (\A q \in Producers : q = p)
    BY DEF SingleProducer
  <2> SUFFICES ProducerInv(p)' /\ ConsumerInv' /\ StoredWhole'
    BY DEF IInv
  <2> ProducerInv(p) /\ ConsumerInv /\ StoredWhole
    BY DEF IInv
  <2> USE DEF TypeOK, Threads, Slots, Halves, Messages
  <2>1. ASSUME NEW x \in Items, LoadHead(p, x) PROVE ProducerInv(p)' /\ ConsumerInv' /\ StoredWhole'
    BY <2>1 DEF LoadHead, Goto, ProducerInv, ConsumerInv, StoredWhole, InUse
  <2>2. CASE CheckFull(p)
    BY <2>2 DEF CheckFull, Full, Goto, ProducerInv, ConsumerInv, StoredWhole, InUse
  <2>3. CASE CopyIn(p, "first", "room", "half") \/ CopyIn(p, "second", "half", "copied")
    <3>1. at[p] = head /\ ~InUse(head) /\ (pc[Consumer] \in {"room", "half", "copied"} => tail # head)
      BY <2>3 DEF CopyIn, ProducerInv, ConsumerInv, InUse
    <3>2. \A s \in Slots : s # head => buffer'[s] = buffer[s]
      BY <2>3, <3>1 DEF CopyIn
    <3>3. ProducerInv(p)'
      BY <2>3, <3>1 DEF CopyIn, Goto, ProducerInv
    <3>4. ConsumerInv'
      BY <2>3, <3>1, <3>2 DEF CopyIn, Goto, ConsumerInv
    <3>5. StoredWhole'
      BY <2>3, <3>1, <3>2 DEF CopyIn, StoredWhole, InUse
    <3> QED
      BY <3>3, <3>4, <3>5
  <2>4. CASE StoreHead(p)
    <3>1. at[p] = head /\ head' = NextSlot(head) /\ NextSlot(head) # tail
          /\ buffer[head]["first"] = buffer[head]["second"] /\ tail' = tail /\ buffer' = buffer
      BY <2>4 DEF StoreHead, ProducerInv
    <3>2. \A s \in Slots : InUse(s)' => InUse(s) \/ s = head
      BY <3>1 DEF InUse, NextSlot
    <3>3. ProducerInv(p)'
      BY <2>4 DEF StoreHead, Goto, ProducerInv
    <3>4. ConsumerInv'
      BY <2>4, <3>1 DEF StoreHead, Goto, ConsumerInv
    <3>5. StoredWhole'
      BY <2>4, <3>1, <3>2 DEF StoreHead, StoredWhole
    <3> QED
      BY <3>3, <3>4, <3>5
  <2> QED
    BY <1>1, <2>1, <2>2, <2>3, <2>4 DEF Enqueue
<1>2. CASE Dequeue(Consumer)
  <2> SUFFICES (\A p \in Producers : ProducerInv(p)') /\ ConsumerInv' /\ StoredWhole'
    BY DEF IInv
  <2> (\A p \in Producers : ProducerInv(p)) /\ ConsumerInv /\ StoredWhole
    BY DEF IInv
  <2> \A p \in Producers : p # Consumer
    OBVIOUS
  <2> USE DEF TypeOK, Threads, Slots, Halves, Messages
  <2>1. CASE LoadTail(Consumer)
    BY <2>1 DEF LoadTail, Goto, ProducerInv, ConsumerInv, StoredWhole, InUse
  <2>2. CASE CheckEmpty(Consumer)
    BY <2>2 DEF CheckEmpty, Empty, Goto, ProducerInv, ConsumerInv, StoredWhole, InUse
  <2>3. CASE CopyOut(Consumer, "first", "room", "half") \/ CopyOut(Consumer, "second", "half", "copied")
    BY <2>3 DEF CopyOut, Goto, ProducerInv, ConsumerInv, StoredWhole, InUse
  <2>4. CASE StoreTail(Consumer)
    <3>1. at[Consumer] = tail /\ tail' = NextSlot(tail) /\ head # tail /\ head' = head
          /\ out["first"] = buffer[tail]["first"] /\ out["second"] = buffer[tail]["second"]
          /\ buffer' = buffer /\ got' = out
      BY <2>4 DEF StoreTail, ConsumerInv
    <3>2. InUse(tail) /\ \A s \in Slots : InUse(s)' => InUse(s)
      BY <3>1 DEF InUse, NextSlot
    <3>3. ASSUME NEW p \in Producers PROVE ProducerInv(p)'
      <4>1. pc'[p] = pc[p] /\ at'[p] = at[p] /\ item'[p] = item[p] /\ ProducerInv(p)
        BY <2>4 DEF StoreTail, Goto
      <4>2. NextSlot(head) # tail => NextSlot(head) # NextSlot(tail)
        BY <3>1 DEF NextSlot
      <4> QED
        BY <4>1, <4>2, <3>1 DEF ProducerInv, NextSlot
    <3>4. ConsumerInv'
      BY <2>4 DEF StoreTail, Goto, ConsumerInv
    <3>5. StoredWhole'
      BY <3>1, <3>2 DEF StoredWhole
    <3> QED
      BY <3>3, <3>4, <3>5
  <2> QED
    BY <1>2, <2>1, <2>2, <2>3, <2>4 DEF Dequeue
<1>3. ASSUME NEW t \in Attached, Restart(t) PROVE IInv'
  BY <1>3 DEF Restart, Goto, IInv, TypeOK, ProducerInv, ConsumerInv, StoredWhole, InUse, Threads
<1>4. CASE UNCHANGED vars
  BY <1>4 DEF vars, IInv, TypeOK, ProducerInv, ConsumerInv, StoredWhole, InUse
<1> QED
  BY <1>1, <1>2, <1>3, <1>4 DEF Next

\* No message is read torn, whenever the calls interleave and whenever the
\* Exchange is killed and restarted in the middle of a copy.
THEOREM RingNeverTorn == ASSUME SingleProducer PROVE Spec => []NoTornRead
<1>1. IInv => NoTornRead
  BY DEF IInv, StoredWhole, NoTornRead
<1>2. IInv /\ [Next]_vars => IInv'
  BY NextIInv
<1> QED
  BY <1>1, <1>2, InitIInv, PTL DEF Spec

-----------------------------------------------------------------------------
(* The refinement *)

LEMMA SizeType == TypeOK => Size \in 0 .. Capacity
  BY CapacityAssumption DEF TypeOK, Size, Slots

LEMMA NthType ==
  ASSUME TypeOK, NEW i \in 1 .. Size
  PROVE  Nth(i) \in Slots /\ InUse(Nth(i))
  BY CapacityAssumption DEF TypeOK, Size, Slots, Nth, InUse

\* A function on 1 .. n is a sequence of length n.
LEMMA FunctionIsSeq ==
  ASSUME NEW S, NEW n \in Nat, NEW f \in [1 .. n -> S]
  PROVE  f \in Seq(S) /\ Len(f) = n
<1>1. f \in Seq(S)
  BY SeqDef
<1>2. DOMAIN f = 1 .. Len(f) /\ Len(f) \in Nat
  BY <1>1, LenProperties
<1>3. DOMAIN f = 1 .. n
  OBVIOUS
<1>4. n \in 1 .. Len(f) <=> n \in 1 .. n
  BY <1>2, <1>3
<1>5. Len(f) \in 1 .. n <=> Len(f) \in 1 .. Len(f)
  BY <1>2, <1>3
<1> QED
  BY <1>1, <1>2, <1>4, <1>5

LEMMA StoredIsSeq ==
  ASSUME TypeOK
  PROVE  Stored \in Seq(Messages) /\ Len(Stored) = Size
<1>1. Stored \in [1 .. Size -> Messages]
  BY NthType DEF Stored, TypeOK, Halves
<1> QED
  BY <1>1, SizeType, FunctionIsSeq

\* A step that leaves the indices and the slots in use alone leaves the queue alone.
LEMMA StoredUnchanged ==
  ASSUME TypeOK, head' = head, tail' = tail,
         \A s \in Slots : InUse(s) => buffer'[s] = buffer[s]
  PROVE  Stored' = Stored
<1>1. Size' = Size /\ \A i \in 1 .. Size : Nth(i)' = Nth(i)
  BY DEF Size, Nth
<1>2. \A i \in 1 .. Size : buffer'[Nth(i)] = buffer[Nth(i)]
  BY NthType
<1> QED
  BY <1>1, <1>2 DEF Stored

\* The store of head_ appends the producer's message ...
LEMMA StoreHeadPuts ==
  ASSUME SingleProducer, IInv, IInv', NEW p \in Producers, StoreHead(p)
  PROVE  Fifo!Put(item[p])
<1> USE CapacityAssumption
<1>1. TypeOK /\ TypeOK' /\ item[p] \in Messages
  BY DEF IInv, TypeOK
<1>2. head' = NextSlot(head) /\ NextSlot(head) # tail /\ tail' = tail /\ buffer' = buffer
      /\ got' = got /\ buffer[head]["first"] = item[p]
  BY DEF StoreHead, IInv, ProducerInv
<1>3. Size < Capacity /\ Size' = Size + 1
  BY <1>1, <1>2 DEF TypeOK, Slots, Size, NextSlot
<1>4. \A i \in 1 .. Size : Nth(i)' = Nth(i)
  BY <1>2 DEF Nth
<1>5. \A i \in 1 .. Size + 1 : i > Size => Nth(i)' = head
  BY <1>1, <1>2 DEF TypeOK, Slots, Size, Nth, NextSlot
<1>6. Stored' = Append(Stored, item[p])
  <2>1. Stored \in Seq(Messages) /\ Len(Stored) = Size /\ Stored' \in Seq(Messages) /\ Len(Stored') = Size + 1
    <3>1. Stored \in Seq(Messages) /\ Len(Stored) = Size
      BY <1>1, StoredIsSeq
    <3>2. (Stored \in Seq(Messages) /\ Len(Stored) = Size)'
      BY <1>1, StoredIsSeq, PTL
    <3> QED
      BY <3>1, <3>2, <1>3
  <2>2. Append(Stored, item[p]) \in Seq(Messages) /\ Len(Append(Stored, item[p])) = Size + 1
    BY <1>1, <2>1
  <2>3. ASSUME NEW i \in 1 .. Size + 1 PROVE Stored'[i] = Append(Stored, item[p])[i]
    BY <1>1, <1>2, <1>3, <1>4, <1>5, <2>1, SizeType DEF Stored
  <2> QED
    BY <2>1, <2>2, <2>3, SeqEqual
<1> QED
  BY <1>1, <1>2, <1>3, <1>6, StoredIsSeq DEF Fifo!Put

\* ... and the store of tail_ takes the oldest.
LEMMA StoreTailTakes ==
  ASSUME IInv, IInv', StoreTail(Consumer)
  PROVE  Fifo!Take
<1> USE CapacityAssumption
<1>1. TypeOK /\ TypeOK'
  BY DEF IInv
<1>2. tail' = NextSlot(tail) /\ head # tail /\ head' = head /\ buffer' = buffer
      /\ got'["first"] = buffer[tail]["first"]
  BY DEF StoreTail, IInv, ConsumerInv
<1>3. Size > 0 /\ Size' = Size - 1
  BY <1>1, <1>2 DEF TypeOK, Slots, Size, NextSlot
<1>4. Nth(1) = tail /\ \A i \in 1 .. Size - 1 : Nth(i)' = Nth(i + 1)
  BY <1>1, <1>2 DEF TypeOK, Slots, Size, Nth, NextSlot
<1>5. Stored \in Seq(Messages) /\ Len(Stored) = Size /\ Stored' \in Seq(Messages) /\ Len(Stored') = Size - 1
  <2>1. Stored \in Seq(Messages) /\ Len(Stored) = Size
    BY <1>1, StoredIsSeq
  <2>2. (Stored \in Seq(Messages) /\ Len(Stored) = Size)'
    BY <1>1, StoredIsSeq, PTL
  <2> QED
    BY <2>1, <2>2, <1>3
<1>6. Stored # <<>> /\ Head(Stored) = buffer[tail]["first"]
  BY <1>3, <1>4, <1>5, SizeType, <1>1 DEF Stored
<1>7. Stored' = Tail(Stored)
  <2>1. Tail(Stored) \in Seq(Messages) /\ Len(Tail(Stored)) = Size - 1
        /\ \A i \in 1 .. Size - 1 : Tail(Stored)[i] = Stored[i + 1]
    BY <1>5, <1>6, HeadTailProperties
  <2>2. ASSUME NEW i \in 1 .. Size - 1 PROVE Stored'[i] = Tail(Stored)[i]
    BY <1>1, <1>2, <1>3, <1>4, <2>1, SizeType DEF Stored
  <2> QED
    BY <1>5, <2>1, <2>2, SeqEqual
<1> QED
  BY <1>2, <1>6, <1>7 DEF Fifo!Take

\* Every other step leaves the queue and the message returned as they are.
LEMMA StepImplementsFifo ==
  ASSUME SingleProducer, IInv, IInv', [Next]_vars
  PROVE  [Fifo!Next]_(Fifo!fifoVars)
<1>t. TypeOK
  BY DEF IInv
<1>1. ASSUME NEW p \in Producers, Enqueue(p) PROVE [Fifo!Next]_(Fifo!fifoVars)
  <2>1. CASE StoreHead(p)
    <3>1. item[p] \in Items
      BY <2>1 DEF StoreHead, IInv, ProducerInv
    <3> QED
      BY <2>1, <3>1, StoreHeadPuts DEF Fifo!Next
  <2>2. CASE ~StoreHead(p)
    <3>1. head' = head /\ tail' = tail /\ got' = got
      BY <1>1, <2>2 DEF Enqueue, LoadHead, CheckFull, CopyIn
    <3>2. \A s \in Slots : InUse(s) => buffer'[s] = buffer[s]
      <4>1. CASE CopyIn(p, "first", "room", "half") \/ CopyIn(p, "second", "half", "copied")
        <5>1. at[p] = head /\ ~InUse(head)
          BY <4>1, <1>t DEF CopyIn, IInv, ProducerInv, InUse, TypeOK, Slots
        <5> QED
          BY <4>1, <5>1, <1>t DEF CopyIn, TypeOK
      <4>2. CASE ~(CopyIn(p, "first", "room", "half") \/ CopyIn(p, "second", "half", "copied"))
        BY <1>1, <2>2, <4>2 DEF Enqueue, LoadHead, CheckFull
      <4> QED
        BY <4>1, <4>2
    <3> QED
      BY <1>t, <3>1, <3>2, StoredUnchanged DEF Fifo!fifoVars
  <2> QED
    BY <2>1, <2>2
<1>2. CASE Dequeue(Consumer)
  <2>1. CASE StoreTail(Consumer)
    BY <2>1, StoreTailTakes DEF Fifo!Next
  <2>2. CASE ~StoreTail(Consumer)
    <3>1. head' = head /\ tail' = tail /\ got' = got /\ buffer' = buffer
      BY <1>2, <2>2 DEF Dequeue, LoadTail, CheckEmpty, CopyOut
    <3> QED
      BY <1>t, <3>1, StoredUnchanged DEF Fifo!fifoVars
  <2> QED
    BY <2>1, <2>2
<1>3. CASE (\E t \in Attached : Restart(t)) \/ UNCHANGED vars
  <2>1. head' = head /\ tail' = tail /\ got' = got /\ buffer' = buffer
    BY <1>3 DEF Restart, vars
  <2> QED
    BY <1>t, <2>1, StoredUnchanged DEF Fifo!fifoVars
<1> QED
  BY <1>1, <1>2, <1>3 DEF Next

LEMMA InitImplementsFifo == Init => Fifo!Init
<1> SUFFICES ASSUME Init PROVE Fifo!Init
  OBVIOUS
<1>1. Size = 0 /\ got["first"] = NoItem
  BY DEF Init, Size, Whole, Halves
<1>2. Stored \in Seq(Messages) /\ Len(Stored) = 0
  BY <1>1, InitTypeOK, StoredIsSeq
<1> QED
  BY <1>1, <1>2 DEF Fifo!Init

\* The ring is a bounded first-in first-out queue, whenever its calls interleave
\* and the Exchange restarts, as long as one thread enqueues.
THEOREM RingIsFifo == ASSUME SingleProducer PROVE Spec => FifoSpec
<1>1. IInv /\ [Next]_vars => IInv'
  BY NextIInv
<1>2. IInv /\ IInv' /\ [Next]_vars => [Fifo!Next]_(Fifo!fifoVars)
  BY StepImplementsFifo
<1> QED
  BY <1>1, <1>2, InitIInv, InitImplementsFifo, PTL DEF Spec, FifoSpec, Fifo!Spec
=============================================================================
