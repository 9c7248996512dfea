-------------------------- MODULE ConcurrentQueue --------------------------
(***************************************************************************)
(* moodycamel::ConcurrentQueue as this program uses it                     *)
(* (src/misc/libraries/concurrentqueue.h): try_enqueue without tokens, so  *)
(* each producing thread has an implicit producer, a queue of its own made *)
(* of blocks, and try_dequeue.  Blocks come from the initial pool and then *)
(* from the FreeList that all producers share; nothing is allocated after  *)
(* construction.  A producer finds its blocks through a circular index.    *)
(*                                                                         *)
(* Each action has at most one access that another thread can notice, in   *)
(* the interleaving (sequentially consistent) memory model.  Every queue   *)
(* of the program has one consumer.  The item that producer p puts at      *)
(* index i is <<p, i>>.                                                    *)
(***************************************************************************)
EXTENDS FreeList, FiniteSets, Functions

CONSTANTS
    BlockSize,       \* BLOCK_SIZE
    IndexCapacity,   \* capacity of a producer's block index
    MaxItems         \* bound: items that a producer, and that all producers enqueue

ASSUME QueueAssumption ==
    /\ {BlockSize, IndexCapacity} \subseteq Nat \ {0} /\ MaxItems \in Nat
    /\ Producers \cap Consumers = {} /\ IsFiniteSet(Threads)

NoItem  == <<>>
NoProducer == "none"
NoEntry == [key |-> -1, value |-> NoBlock]
Entries == 0 .. IndexCapacity - 1
Offset(i)    == i % BlockSize
BlockBase(i) == i - Offset(i)

VARIABLES
    registered,                   \* the producers that producerListTail links
    initialBlockPoolIndex,
    cell, dequeued,               \* a block's elements, its elementsCompletelyDequeued
    tailIndex, headIndex, dequeueOptimisticCount, dequeueOvercommit, tailBlock,
    index, indexTail,             \* a producer's block index and its tail
    pc,                           \* where a thread is in try_enqueue or try_dequeue
    \* locals of try_dequeue: the producer it tries, those that it tried in vain, overcommit,
    \* myDequeueCount, the index, the index tail it read, the entry, the element
    producer, tried, overcommit, myDequeueCount, myIndex, myTail, entry, element

blockVars    == <<initialBlockPoolIndex, cell, dequeued>>
producerVars == <<registered, tailIndex, tailBlock>>
countVars    == <<headIndex, dequeueOptimisticCount, dequeueOvercommit>>
indexVars    == <<index, indexTail>>
localVars    == <<producer, tried, overcommit, myDequeueCount, myIndex, myTail, entry, element>>
vars == <<listVars, blockVars, producerVars, countVars, indexVars, pc, localVars>>

Init ==
    /\ FreeListInit
    /\ registered = {} /\ initialBlockPoolIndex = 0
    /\ cell = [b \in Blocks |-> [o \in 0 .. BlockSize - 1 |-> NoItem]]
    /\ dequeued = [b \in Blocks |-> 0]
    /\ tailIndex = [p \in Producers |-> 0] /\ headIndex = [p \in Producers |-> 0]
    /\ dequeueOptimisticCount = [p \in Producers |-> 0]
    /\ dequeueOvercommit = [p \in Producers |-> 0]
    /\ tailBlock = [p \in Producers |-> NoBlock]
    /\ index = [p \in Producers |-> [e \in Entries |-> NoEntry]]
    /\ indexTail = [p \in Producers |-> IndexCapacity - 1]
    /\ pc = [t \in Threads |-> "out"]
    /\ producer = [c \in Consumers |-> NoProducer] /\ tried = [c \in Consumers |-> {}]
    /\ overcommit = [c \in Consumers |-> 0] /\ myDequeueCount = [c \in Consumers |-> 0]
    /\ myIndex = [c \in Consumers |-> 0] /\ myTail = [c \in Consumers |-> 0]
    /\ entry = [c \in Consumers |-> 0] /\ element = [c \in Consumers |-> NoItem]

Goto(t, label) == pc' = [pc EXCEPT ![t] = label]

-----------------------------------------------------------------------------
(* try_enqueue, by producing thread p *)

\* get_or_add_implicit_producer: the first call of this thread
Register(p) ==
    /\ pc[p] = "out" /\ p \notin registered
    /\ registered' = registered \cup {p}
    /\ UNCHANGED <<listVars, blockVars, tailIndex, tailBlock, countVars, indexVars, pc, localVars>>

BeginEnqueue(p) ==
    /\ pc[p] = "out" /\ p \in registered
    /\ tailIndex[p] < MaxItems /\ FoldFunction(+, 0, tailIndex) < MaxItems
    /\ Goto(p, IF Offset(tailIndex[p]) = 0 THEN "insert" ELSE "write")
    /\ UNCHANGED <<listVars, blockVars, producerVars, countVars, indexVars, localVars>>

\* a new block gets the next entry of the index, unless that one is still in use
\* (slip: it is not looked at)
AnyEntry(p, e)  == TRUE
FreeEntry(p, e) == index[p][e].value = NoBlock

InsertEntry(p) ==
    LET newTail == (indexTail[p] + 1) % IndexCapacity
    IN  /\ pc[p] = "insert"
        /\ IF FreeEntry(p, newTail)
           THEN /\ index' = [index EXCEPT ![p][newTail].key = tailIndex[p]]
                /\ indexTail' = [indexTail EXCEPT ![p] = newTail]
                /\ Goto(p, "pool")
           ELSE Goto(p, "out") /\ UNCHANGED indexVars
        /\ UNCHANGED <<listVars, blockVars, producerVars, countVars, localVars>>

\* try_get_block_from_initial_pool: a look, and then a fetch_add that may come too late
LookInPool(p) ==
    /\ pc[p] = "pool"
    /\ Goto(p, IF initialBlockPoolIndex < PoolSize THEN "take" ELSE "list")
    /\ UNCHANGED <<listVars, blockVars, producerVars, countVars, indexVars, localVars>>

TakeFromPool(p) ==
    /\ pc[p] = "take"
    /\ initialBlockPoolIndex' = initialBlockPoolIndex + 1
    /\ IF initialBlockPoolIndex < PoolSize
       THEN Goto(p, "publish") /\ node' = [node EXCEPT ![p] = initialBlockPoolIndex + 1]
       ELSE Goto(p, "list") /\ UNCHANGED node
    /\ UNCHANGED <<freeListVars, listPc, head, next, expected, cell, dequeued, producerVars,
                   countVars, indexVars, localVars>>

\* try_get_block_from_free_list
BeginGet(p) ==
    /\ pc[p] = "list" /\ EnterGet(p)
    /\ UNCHANGED <<blockVars, producerVars, countVars, indexVars, pc, localVars>>

\* no block: the entry is given back (its value is null), and try_enqueue fails
NoRoom(p) ==
    /\ pc[p] = "list" /\ listPc[p] = "none"
    /\ indexTail' = [indexTail EXCEPT ![p] = (@ - 1) % IndexCapacity]
    /\ LeaveCall(p) /\ Goto(p, "out")
    /\ UNCHANGED <<blockVars, producerVars, countVars, index, localVars>>

\* reset_empty, and then the block becomes visible in the index
ResetEmpty(b) == 0

Publish(p) ==
    /\ pc[p] = "publish" \/ (pc[p] = "list" /\ listPc[p] = "got")
    /\ dequeued'  = [dequeued EXCEPT ![node[p]] = ResetEmpty(node[p])]
    /\ index'     = [index EXCEPT ![p][indexTail[p]].value = node[p]]
    /\ tailBlock' = [tailBlock EXCEPT ![p] = node[p]]
    /\ LeaveCall(p) /\ Goto(p, "write")
    /\ UNCHANGED <<initialBlockPoolIndex, cell, registered, tailIndex, countVars, indexTail, localVars>>

Write(p) ==
    /\ pc[p] = "write"
    /\ cell' = [cell EXCEPT ![tailBlock[p]][Offset(tailIndex[p])] = <<p, tailIndex[p]>>]
    /\ Goto(p, "tail")
    /\ UNCHANGED <<listVars, initialBlockPoolIndex, dequeued, producerVars, countVars, indexVars, localVars>>

StoreTail(p) ==
    /\ pc[p] = "tail"
    /\ tailIndex' = [tailIndex EXCEPT ![p] = @ + 1]
    /\ Goto(p, "out")
    /\ UNCHANGED <<listVars, blockVars, registered, tailBlock, countVars, indexVars, localVars>>

-----------------------------------------------------------------------------
(* try_dequeue, by consuming thread c *)

Return(c) ==
    /\ producer' = [producer EXCEPT ![c] = NoProducer] /\ tried' = [tried EXCEPT ![c] = {}]
    /\ overcommit' = [overcommit EXCEPT ![c] = 0] /\ myDequeueCount' = [myDequeueCount EXCEPT ![c] = 0]
    /\ myIndex' = [myIndex EXCEPT ![c] = 0] /\ myTail' = [myTail EXCEPT ![c] = 0]
    /\ entry' = [entry EXCEPT ![c] = 0] /\ element' = [element EXCEPT ![c] = NoItem]
    /\ Goto(c, "out")

\* the producer that seems to have the most items: any that has some (size_approx)
Choose(c) ==
    /\ pc[c] = "out"
    /\ \E p \in registered :
          headIndex[p] < tailIndex[p] /\ producer' = [producer EXCEPT ![c] = p]
    /\ Goto(c, "check")
    /\ UNCHANGED <<listVars, blockVars, producerVars, countVars, indexVars, tried, overcommit,
                   myDequeueCount, myIndex, myTail, entry, element>>

\* nothing there: on to the other producers, or try_dequeue fails
TryAnother(c) ==
    LET done == tried[c] \cup {producer[c]}
    IN  IF registered \subseteq done THEN Return(c)
        ELSE /\ \E p \in registered \ done : producer' = [producer EXCEPT ![c] = p]
             /\ tried' = [tried EXCEPT ![c] = done] /\ Goto(c, "check")
             /\ UNCHANGED <<overcommit, myDequeueCount, myIndex, myTail, entry, element>>

Check(c) ==
    LET p == producer[c]
    IN  /\ pc[c] = "check"
        /\ IF dequeueOptimisticCount[p] - dequeueOvercommit[p] < tailIndex[p]
           THEN /\ overcommit' = [overcommit EXCEPT ![c] = dequeueOvercommit[p]]
                /\ Goto(c, "count")
                /\ UNCHANGED <<producer, tried, myDequeueCount, myIndex, myTail, entry, element>>
           ELSE TryAnother(c)
        /\ UNCHANGED <<listVars, blockVars, producerVars, countVars, indexVars>>

Count(c) ==
    /\ pc[c] = "count"
    /\ myDequeueCount' = [myDequeueCount EXCEPT ![c] = dequeueOptimisticCount[producer[c]]]
    /\ dequeueOptimisticCount' = [dequeueOptimisticCount EXCEPT ![producer[c]] = @ + 1]
    /\ Goto(c, "test")
    /\ UNCHANGED <<listVars, blockVars, producerVars, headIndex, dequeueOvercommit, indexVars, producer,
                   tried, overcommit, myIndex, myTail, entry, element>>

\* is there an item for this many dequeues? (always, with one consumer)
Test(c) ==
    LET p == producer[c]
    IN  /\ pc[c] = "test"
        /\ IF myDequeueCount[c] - overcommit[c] < tailIndex[p]
           THEN Goto(c, "head") /\ UNCHANGED <<dequeueOvercommit, localVars>>
           ELSE /\ dequeueOvercommit' = [dequeueOvercommit EXCEPT ![p] = @ + 1]
                /\ TryAnother(c)
        /\ UNCHANGED <<listVars, blockVars, producerVars, headIndex, dequeueOptimisticCount, indexVars>>

TakeIndex(c) ==
    /\ pc[c] = "head"
    /\ myIndex' = [myIndex EXCEPT ![c] = headIndex[producer[c]]]
    /\ headIndex' = [headIndex EXCEPT ![producer[c]] = @ + 1]
    /\ Goto(c, "index tail")
    /\ UNCHANGED <<listVars, blockVars, producerVars, dequeueOptimisticCount, dequeueOvercommit,
                   indexVars, producer, tried, overcommit, myDequeueCount, myTail, entry, element>>

\* get_block_index_entry_for_index: the tail, then its key
LoadIndexTail(c) ==
    /\ pc[c] = "index tail"
    /\ myTail' = [myTail EXCEPT ![c] = indexTail[producer[c]]]
    /\ Goto(c, "index")
    /\ UNCHANGED <<listVars, blockVars, producerVars, countVars, indexVars, producer, tried,
                   overcommit, myDequeueCount, myIndex, entry, element>>

\* (slip: the newest block is taken for the one with the index)
Newest(p, t, i)  == t
EntryAt(p, t, i) == (t + (BlockBase(i) - index[p][t].key) \div BlockSize) % IndexCapacity

FindEntry(c) ==
    /\ pc[c] = "index"
    /\ entry' = [entry EXCEPT ![c] = EntryAt(producer[c], myTail[c], myIndex[c])]
    /\ Goto(c, "read")
    /\ UNCHANGED <<listVars, blockVars, producerVars, countVars, indexVars, producer, tried,
                   overcommit, myDequeueCount, myIndex, myTail, element>>

BlockFor(c) == index[producer[c]][entry[c]].value

Read(c) ==
    /\ pc[c] = "read"
    /\ element' = [element EXCEPT ![c] = IF BlockFor(c) = NoBlock THEN NoItem
                                         ELSE cell[BlockFor(c)][Offset(myIndex[c])]]
    /\ Goto(c, "set empty")
    /\ UNCHANGED <<listVars, blockVars, producerVars, countVars, indexVars, producer, tried,
                   overcommit, myDequeueCount, myIndex, myTail, entry>>

\* whoever takes the last element of a block gives the block back
SetEmpty(c) ==
    /\ pc[c] = "set empty"
    /\ dequeued' = [dequeued EXCEPT ![BlockFor(c)] = @ + 1]
    /\ IF dequeued'[BlockFor(c)] = BlockSize THEN Goto(c, "unpublish") /\ UNCHANGED localVars
       ELSE Return(c)
    /\ UNCHANGED <<listVars, initialBlockPoolIndex, cell, producerVars, countVars, indexVars>>

Unpublish(c) ==
    /\ pc[c] = "unpublish"
    /\ index' = [index EXCEPT ![producer[c]][entry[c]].value = NoBlock]
    /\ node'  = [node EXCEPT ![c] = BlockFor(c)]
    /\ Goto(c, "add")
    /\ UNCHANGED <<freeListVars, listPc, head, next, expected, blockVars, producerVars, countVars,
                   indexTail, localVars>>

AddToFreeList(c) ==
    /\ pc[c] = "add" /\ AddFlag(c, node[c])
    /\ UNCHANGED <<blockVars, producerVars, countVars, indexVars, pc, localVars>>

EndDequeue(c) ==
    /\ pc[c] = "add" /\ listPc[c] = "added"
    /\ LeaveCall(c) /\ Return(c)
    /\ UNCHANGED <<blockVars, producerVars, countVars, indexVars>>

-----------------------------------------------------------------------------
FreeListStep(t) ==
    ListStep(t) /\ UNCHANGED <<blockVars, producerVars, countVars, indexVars, pc, localVars>>

TryEnqueue(p) ==
    \/ Register(p) \/ BeginEnqueue(p) \/ InsertEntry(p) \/ LookInPool(p) \/ TakeFromPool(p)
    \/ BeginGet(p) \/ NoRoom(p) \/ Publish(p) \/ Write(p) \/ StoreTail(p)

TryDequeue(c) ==
    \/ Choose(c) \/ Check(c) \/ Count(c) \/ Test(c) \/ TakeIndex(c)
    \/ LoadIndexTail(c) \/ FindEntry(c) \/ Read(c) \/ SetEmpty(c) \/ Unpublish(c)
    \/ AddToFreeList(c) \/ EndDequeue(c)

Next ==
    \/ \E p \in Producers : TryEnqueue(p)
    \/ \E c \in Consumers : TryDequeue(c)
    \/ \E t \in Threads : FreeListStep(t)

Spec == Init /\ [][Next]_vars

-----------------------------------------------------------------------------
TypeOK ==
    /\ registered \subseteq Producers
    /\ initialBlockPoolIndex \in 0 .. PoolSize + Cardinality(Producers)
    /\ dequeued \in [Blocks -> 0 .. BlockSize]
    /\ \A p \in Producers : headIndex[p] <= tailIndex[p] /\ tailIndex[p] <= MaxItems
    /\ tailBlock \in [Producers -> Blocks \cup {NoBlock}]
    /\ indexTail \in [Producers -> Entries]
    /\ freeListHead \in Blocks \cup {NoBlock}
    /\ freeListNext \in [Blocks -> Blocks \cup {NoBlock}]
    /\ refs \in [Blocks -> 0 .. Cardinality(Threads) + 1] /\ shouldBeOn \in [Blocks -> BOOLEAN]

\* where a block may be
InIndex(p, e, b) == index[p][e].value = b
InHands(t, b) ==
    \/ InCall(t, b)
    \/ node[t] = b /\ pc[t] = "publish"
    \/ node[t] = b /\ pc[t] = "add" /\ listPc[t] = "out"
LeftTo(t, b) == shouldBeOn[b] /\ node[t] = b /\ listPc[t] \in {"link", "get link", "next", "take", "drop"}

\* Every block is in exactly one place: in the initial pool, in one producer's index,
\* on the free list, left to the threads that refer to it to be put there, or in one
\* thread's hands: none is lost and none has two users.
BlockOnce ==
    \A b \in Blocks :
        Cardinality({pl \in {"pool"} : b > initialBlockPoolIndex}
                    \cup {pl \in {"list"} : b \in OnList}
                    \cup {pl \in {"flag"} : \E t \in Threads : LeftTo(t, b)})
        + Cardinality({pe \in Producers \X Entries : InIndex(pe[1], pe[2], b)})
        + Cardinality({t \in Threads : InHands(t, b)}) = 1

\* What a consumer reads at an index is what the producer put there.
ReadsRight ==
    \A c \in Consumers :
        pc[c] \in {"set empty", "unpublish", "add"} => element[c] = <<producer[c], myIndex[c]>>

\* the item at index i of producer p, found through its block index
Stored(p, i) ==
    LET here == {e \in Entries : index[p][e].key = BlockBase(i) /\ index[p][e].value # NoBlock}
    IN  IF here = {} THEN NoItem
        ELSE cell[index[p][CHOOSE e \in here : TRUE].value][Offset(i)]

ItemsOf(p) == {p} \X (0 .. MaxItems - 1)
Queue(p) == [k \in 1 .. tailIndex[p] - headIndex[p] |-> Stored(p, headIndex[p] + k - 1)]
Got(p)   == IF headIndex[p] = 0 THEN NoItem ELSE <<p, headIndex[p] - 1>>

Fifo(p) == INSTANCE BoundedFifo WITH
    Capacity <- PoolSize * BlockSize, Items <- ItemsOf(p), NoItem <- NoItem,
    queue <- Queue(p), got <- Got(p)

\* Each producer's items, found through its index and its blocks, are a first-in first-out
\* queue: no step but an enqueue and a dequeue changes it.
FifoSpec ==
    /\ \A p \in Producers : Fifo(p)!Init
    /\ [][\A p \in Producers : [Fifo(p)!Next]_(Fifo(p)!fifoVars)]_vars
=============================================================================
