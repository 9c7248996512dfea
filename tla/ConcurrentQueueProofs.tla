----------------------- MODULE ConcurrentQueueProofs -----------------------
(***************************************************************************)
(* Theorems about ConcurrentQueue for every value of its constants, with   *)
(* one consumer: where every block is, what a consumer reads, and that     *)
(* each producer's items are a first-in first-out queue.                   *)
(***************************************************************************)
EXTENDS ConcurrentQueue, SequenceTheorems, FiniteSetTheorems, WellFoundedInduction, TLAPS

\* Every queue of the program has one consuming thread.
OneConsumer == \E c : Consumers = {c}

-----------------------------------------------------------------------------
(* The inductive invariant: where the blocks are *)

InPool  == <<"pool", 0, 0>>
InList  == <<"list", 0, 0>>
Flagged == <<"flag", 0, 0>>
InEntry(p, e) == <<"index", p, e>>
InHand(t)     == <<"hand", t, 0>>
Places == {InPool, InList, Flagged} \cup {InEntry(p, e) : p \in Producers, e \in Entries}
          \cup {InHand(t) : t \in Threads}

Holding == {"next", "take", "drop", "taken"}
Linking == {"link", "get link"}
Adding  == {"swap", "undo", "get swap", "get undo"}
ListLabels == Holding \cup Linking \cup Adding \cup {"out", "load", "none", "ref", "got", "added"}

Holders(b) == {t \in Threads : node[t] = b /\ listPc[t] \in Holding}

\* place says of each block the one place where it is.
Placed(place) ==
    /\ place \in [Blocks -> Places]
    /\ \A b \in Blocks :
          /\ b > initialBlockPoolIndex <=> place[b] = InPool
          /\ shouldBeOn[b] <=> place[b] = Flagged
          /\ \A p \in Producers, e \in Entries : InIndex(p, e, b) <=> place[b] = InEntry(p, e)
          /\ \A t \in Threads : InHands(t, b) <=> place[b] = InHand(t)

\* The n blocks of list are those that the free list links, in this order.
Listed(place, n, list) ==
    /\ n \in Nat /\ list \in [1 .. n -> Blocks]
    /\ freeListHead = IF n = 0 THEN NoBlock ELSE list[1]
    /\ \A i \in 1 .. n :
          /\ freeListNext[list[i]] = IF i = n THEN NoBlock ELSE list[i + 1]
          /\ place[list[i]] = InList
          /\ \A j \in 1 .. n : list[i] = list[j] => i = j
    /\ \A b \in Blocks : place[b] = InList => \E i \in 1 .. n : list[i] = b

\* A block counts the threads that refer to it, and the list, which does so from the
\* link on until the thread that took the block has said so.
ListsRef(place, b) ==
    IF \/ place[b] = InList
       \/ \E t \in Threads : place[b] = InHand(t) /\ listPc[t] \in Adding \cup {"taken"}
    THEN 1 ELSE 0
Counted(place) == \A b \in Blocks : refs[b] = Cardinality(Holders(b)) + ListsRef(place, b)

\* A flagged block is left to a thread that refers to it or links it; one links it at most.
Left(place) ==
    /\ \A b \in Blocks : place[b] = Flagged => \E t \in Threads : LeftTo(t, b)
    /\ \A t \in Threads : listPc[t] \in Linking =>
          /\ refs[node[t]] = 0 /\ place[node[t]] = Flagged
          /\ \A u \in Threads : listPc[u] \in Linking /\ node[u] = node[t] => u = t

FState(place, n, list) ==
    Placed(place) /\ Listed(place, n, list) /\ Counted(place) /\ Left(place)

ListLocals ==
    \A t \in Threads :
        /\ listPc[t] \in Holding \cup Linking \cup Adding \cup {"got"} => node[t] \in Blocks
        /\ listPc[t] = "ref" => head[t] \in Blocks
        /\ listPc[t] \in {"next", "take", "taken"} => head[t] = node[t]
        /\ listPc[t] = "take" => next[t] = freeListNext[node[t]]
        /\ listPc[t] \in {"swap", "get swap"} => expected[t] = freeListNext[node[t]]

ListTypes ==
    /\ freeListHead \in Blocks \cup {NoBlock}
    /\ freeListNext \in [Blocks -> Blocks \cup {NoBlock}]
    /\ refs \in [Blocks -> Int] /\ shouldBeOn \in [Blocks -> BOOLEAN]
    /\ head \in [Threads -> Blocks \cup {NoBlock}]
    /\ next \in [Threads -> Blocks \cup {NoBlock}]
    /\ expected \in [Threads -> Blocks \cup {NoBlock}]
    /\ node \in [Threads -> Blocks \cup {NoBlock}]
    /\ listPc \in [Threads -> ListLabels]

ProducerList == {"load", "none", "ref", "next", "take", "taken", "got", "drop", "get link",
                 "get swap", "get undo"}
ConsumerList == {"link", "swap", "undo", "added"}
ProducerLabels == {"out", "insert", "pool", "take", "list", "publish", "write", "tail"}
ConsumerLabels == {"out", "check", "count", "test", "head", "index tail", "index", "read",
                   "set empty", "unpublish", "add"}

\* Where the threads are in the queue and in its free list.
Control ==
    /\ pc \in [Threads -> ProducerLabels \cup ConsumerLabels]
    /\ \A p \in Producers :
          /\ pc[p] \in ProducerLabels
          /\ listPc[p] \in {"out"} \cup (IF pc[p] = "list" THEN ProducerList ELSE {})
          /\ listPc[p] = "out" /\ pc[p] # "publish" => node[p] = NoBlock
          /\ pc[p] = "publish" => node[p] \in Blocks
          /\ pc[p] # "out" => p \in registered
    /\ \A c \in Consumers :
          /\ pc[c] \in ConsumerLabels
          /\ listPc[c] \in {"out"} \cup (IF pc[c] = "add" THEN ConsumerList ELSE {})
          /\ pc[c] # "add" => node[c] = NoBlock
          /\ pc[c] = "add" => node[c] \in Blocks
    /\ initialBlockPoolIndex \in Nat

LInv == ListTypes /\ ListLocals /\ Control

-----------------------------------------------------------------------------
(* Places and numbers of threads *)

LEMMA PlacesDistinct ==
    /\ InPool # InList /\ InPool # Flagged /\ InList # Flagged
    /\ \A p, e : InEntry(p, e) \notin {InPool, InList, Flagged}
    /\ \A t : InHand(t) \notin {InPool, InList, Flagged}
    /\ \A p, e, t : InEntry(p, e) # InHand(t)
    /\ \A p, e, q, f : InEntry(p, e) = InEntry(q, f) => p = q /\ e = f
    /\ \A t, u : InHand(t) = InHand(u) => t = u
    /\ {InPool, InList, Flagged} \subseteq Places
    /\ \A p \in Producers, e \in Entries : InEntry(p, e) \in Places
    /\ \A t \in Threads : InHand(t) \in Places
BY DEF InPool, InList, Flagged, InEntry, InHand, Places

LEMMA CountThreads ==
    ASSUME NEW S \in SUBSET Threads
    PROVE  /\ Cardinality(S) \in Nat /\ (Cardinality(S) = 0 <=> S = {})
           /\ \A t \in S : Cardinality(S \ {t}) = Cardinality(S) - 1
           /\ \A t \in Threads : t \notin S => Cardinality(S \cup {t}) = Cardinality(S) + 1
<1>1. IsFiniteSet(S)
  BY QueueAssumption, FS_Subset
<1> QED
  BY <1>1, FS_CardinalityType, FS_EmptySet, FS_AddElement, FS_RemoveElement

LEMMA BlocksAreNot == NoBlock \notin Blocks /\ Blocks \subseteq Nat
BY PoolAssumption DEF NoBlock, Blocks

-----------------------------------------------------------------------------
(* The free list *)

\* Thread t has to do with block x.
Concerns(t, x) ==
    /\ node[t] = x
    /\ \/ listPc[t] \in Holding \cup Linking \cup Adding \cup {"got"}
       \/ pc[t] = "publish"
       \/ pc[t] = "add" /\ listPc[t] = "out"

OthersKept(t) ==
    \A u \in Threads : u # t => listPc'[u] = listPc[u] /\ node'[u] = node[u] /\ pc'[u] = pc[u]

SameBlock(x) ==
    /\ refs'[x] = refs[x] /\ shouldBeOn'[x] = shouldBeOn[x]
    /\ x > initialBlockPoolIndex' <=> x > initialBlockPoolIndex
    /\ \A p \in Producers, e \in Entries : InIndex(p, e, x)' <=> InIndex(p, e, x)

\* What a step of t says of a block that t has nothing to do with.
LEMMA OtherBlock ==
    ASSUME NEW t \in Threads, OthersKept(t),
           NEW x \in Blocks, ~Concerns(t, x), ~Concerns(t, x)', SameBlock(x)
    PROVE  /\ \A u \in Threads : InHands(u, x)' <=> InHands(u, x)
           /\ \A u \in Threads : LeftTo(u, x)' <=> LeftTo(u, x)
           /\ Holders(x)' = Holders(x)
<1>1. /\ \A u \in Threads : u # t => (InHands(u, x)' <=> InHands(u, x))
      /\ \A u \in Threads : u # t => (LeftTo(u, x)' <=> LeftTo(u, x))
      /\ \A u \in Threads : u # t => (u \in Holders(x)' <=> u \in Holders(x))
  BY DEF OthersKept, InHands, InCall, LeftTo, Holders, SameBlock
<1>2. /\ ~InHands(t, x) /\ ~InHands(t, x)' /\ ~LeftTo(t, x) /\ ~LeftTo(t, x)'
      /\ t \notin Holders(x) /\ t \notin Holders(x)'
  BY DEF Concerns, InHands, InCall, LeftTo, Holders, Holding, Linking, Adding
<1>3. \A u : u \in Holders(x) \/ u \in Holders(x)' => u \in Threads
  BY DEF Holders
<1> QED
  BY <1>1, <1>2, <1>3

\* A step of thread t about block b, which goes to "where".
MovesTo(pl, pl2, t, b, where) ==
    /\ OthersKept(t)
    /\ pl2 = [pl EXCEPT ![b] = where]
    /\ \A x \in Blocks : x # b => ~Concerns(t, x) /\ ~Concerns(t, x)' /\ SameBlock(x)
    /\ b > initialBlockPoolIndex' <=> where = InPool
    /\ shouldBeOn'[b] <=> where = Flagged
    /\ \A p \in Producers, e \in Entries : InIndex(p, e, b)' <=> where = InEntry(p, e)
    /\ InHands(t, b)' <=> where = InHand(t)
    /\ \A u \in Threads : u # t => (pl[b] = InHand(u) <=> where = InHand(u))
    /\ refs'[b] = Cardinality(Holders(b)') + ListsRef(pl2, b)'
    /\ where = Flagged => \E u \in Threads : LeftTo(u, b)'
    /\ listPc'[t] \in Linking =>
          /\ node'[t] = b /\ refs'[b] = 0 /\ where = Flagged
          /\ \A u \in Threads : u # t /\ listPc[u] \in Linking => node[u] # b
    /\ \A u \in Threads : u # t /\ listPc[u] \in Linking /\ node[u] = b =>
          refs'[b] = 0 /\ where = Flagged

LEMMA StepOf ==
    ASSUME LInv, NEW pl, NEW n, NEW l, FState(pl, n, l), NEW t \in Threads,
           NEW b \in Blocks, NEW where \in Places, NEW pl2, MovesTo(pl, pl2, t, b, where)
    PROVE  Placed(pl2)' /\ Counted(pl2)' /\ Left(pl2)'
<1> USE DEF MovesTo
<1>1. pl \in [Blocks -> Places] /\ pl2 \in [Blocks -> Places]
  BY DEF FState, Placed
<1>2. pl2[b] = where /\ \A x \in Blocks : x # b => pl2[x] = pl[x]
  BY <1>1
<1>3. ASSUME NEW x \in Blocks, x # b
      PROVE  /\ \A u \in Threads : InHands(u, x)' <=> InHands(u, x)
             /\ \A u \in Threads : LeftTo(u, x)' <=> LeftTo(u, x)
             /\ Holders(x)' = Holders(x)
  BY <1>3, OtherBlock
<1>4. \A u \in Threads : u # t => (InHands(u, b)' <=> InHands(u, b))
  BY DEF OthersKept, InHands, InCall
<1>5. Placed(pl2)'
  <2>1. ASSUME NEW x \in Blocks, x # b
        PROVE  /\ x > initialBlockPoolIndex' <=> pl2[x] = InPool
               /\ shouldBeOn'[x] <=> pl2[x] = Flagged
               /\ \A p \in Producers, e \in Entries : InIndex(p, e, x)' <=> pl2[x] = InEntry(p, e)
               /\ \A u \in Threads : InHands(u, x)' <=> pl2[x] = InHand(u)
    <3>1. SameBlock(x)
      BY <2>1
    <3> QED
      BY <1>2, <1>3, <2>1, <3>1 DEF FState, Placed, SameBlock
  <2>2. \A u \in Threads : InHands(u, b)' <=> pl2[b] = InHand(u)
    BY <1>2, <1>4 DEF FState, Placed
  <2> QED
    BY <1>1, <1>2, <2>1, <2>2 DEF Placed
<1>6. Counted(pl2)'
  <2>1. ASSUME NEW x \in Blocks, x # b PROVE refs'[x] = Cardinality(Holders(x)') + ListsRef(pl2, x)'
    <3>1. SameBlock(x) /\ Holders(x)' = Holders(x)
      BY <1>3, <2>1
    <3>2. refs[x] = Cardinality(Holders(x)) + ListsRef(pl, x)
      BY DEF FState, Counted
    <3>3. \A u \in Threads : pl[x] = InHand(u) => u = t \/ listPc'[u] = listPc[u]
      BY DEF OthersKept
    <3>4. pl[x] = InHand(t) => listPc[t] \notin Adding \cup {"taken"} /\ listPc'[t] \notin Adding \cup {"taken"}
      <4>1. pl[x] = InHand(t) => InHands(t, x) /\ InHands(t, x)'
        BY <1>3, <2>1 DEF FState, Placed
      <4>2. ~Concerns(t, x) /\ ~Concerns(t, x)'
        BY <2>1
      <4> QED
        BY <4>1, <4>2 DEF Concerns, InHands, InCall, Adding, Holding, Linking
    <3>5. ListsRef(pl2, x)' = ListsRef(pl, x)
      BY <1>2, <2>1, <3>3, <3>4 DEF ListsRef
    <3> QED
      BY <3>1, <3>2, <3>5 DEF SameBlock
  <2> QED
    BY <2>1 DEF Counted
<1>7. Left(pl2)'
  <2>1. ASSUME NEW x \in Blocks, pl2[x] = Flagged PROVE \E u \in Threads : LeftTo(u, x)'
    <3>1. CASE x = b
      BY <1>2, <2>1, <3>1
    <3>2. CASE x # b
      BY <1>2, <1>3, <2>1, <3>2 DEF FState, Left
    <3> QED
      BY <3>1, <3>2
  <2>2. ASSUME NEW u \in Threads, listPc'[u] \in Linking
        PROVE  /\ refs'[node'[u]] = 0 /\ pl2[node'[u]] = Flagged
               /\ \A v \in Threads : listPc'[v] \in Linking /\ node'[v] = node'[u] => v = u
    <3>1. CASE u = t
      BY <1>2, <2>2, <3>1 DEF OthersKept
    <3>2. CASE u # t
      <4>1. listPc[u] \in Linking /\ node'[u] = node[u] /\ node[u] \in Blocks
        BY <2>2, <3>2 DEF OthersKept, LInv, ListLocals
      <4>2. refs'[node'[u]] = 0 /\ pl2[node'[u]] = Flagged
        <5>1. PICK y \in Blocks : y = node[u]
          BY <4>1
        <5>2. refs[y] = 0 /\ pl[y] = Flagged
          BY <4>1, <5>1 DEF FState, Left
        <5>3. y # b => SameBlock(y)
          OBVIOUS
        <5>4. y # b => refs'[y] = 0 /\ pl2[y] = Flagged
          BY <1>2, <5>2, <5>3 DEF SameBlock
        <5>5. y = b => refs'[b] = 0 /\ pl2[b] = Flagged
          BY <1>2, <3>2, <4>1, <5>1
        <5> QED
          BY <4>1, <5>1, <5>4, <5>5
      <4>3. ASSUME NEW v \in Threads, listPc'[v] \in Linking, node'[v] = node'[u] PROVE v = u
        <5>1. CASE v = t
          BY <3>2, <4>1, <4>3, <5>1
        <5>2. CASE v # t
          BY <4>1, <4>3, <5>2 DEF OthersKept, FState, Left
        <5> QED
          BY <5>1, <5>2
      <4> QED
        BY <4>2, <4>3
    <3> QED
      BY <3>1, <3>2
  <2> QED
    BY <2>1, <2>2 DEF Left
<1> QED
  BY <1>5, <1>6, <1>7

\* A step of thread t that is about no block.
LEMMA StepAside ==
    ASSUME LInv, NEW pl, NEW n, NEW l, FState(pl, n, l), NEW t \in Threads, OthersKept(t),
           \A x \in Blocks : ~Concerns(t, x) /\ ~Concerns(t, x)' /\ SameBlock(x),
           listPc'[t] \notin Linking, UNCHANGED <<freeListHead, freeListNext>>
    PROVE  FState(pl, n, l)'
<1>1. ASSUME NEW x \in Blocks
      PROVE  /\ \A u \in Threads : InHands(u, x)' <=> InHands(u, x)
             /\ \A u \in Threads : LeftTo(u, x)' <=> LeftTo(u, x)
             /\ Holders(x)' = Holders(x)
  BY OtherBlock
<1>2. Placed(pl)'
  BY <1>1 DEF FState, Placed, SameBlock
<1>3. Counted(pl)'
  <2>1. ASSUME NEW x \in Blocks PROVE refs'[x] = Cardinality(Holders(x)') + ListsRef(pl, x)'
    <3>1. SameBlock(x) /\ Holders(x)' = Holders(x)
      BY <1>1
    <3>2. refs[x] = Cardinality(Holders(x)) + ListsRef(pl, x)
      BY DEF FState, Counted
    <3>3. \A u \in Threads : pl[x] = InHand(u) => u = t \/ listPc'[u] = listPc[u]
      BY DEF OthersKept
    <3>4. pl[x] = InHand(t) => listPc[t] \notin Adding \cup {"taken"} /\ listPc'[t] \notin Adding \cup {"taken"}
      <4>1. pl[x] = InHand(t) => InHands(t, x) /\ InHands(t, x)'
        BY <1>1 DEF FState, Placed
      <4> QED
        BY <4>1 DEF Concerns, InHands, InCall, Adding, Holding, Linking
    <3>5. ListsRef(pl, x)' = ListsRef(pl, x)
      BY <3>3, <3>4 DEF ListsRef
    <3> QED
      BY <3>1, <3>2, <3>5 DEF SameBlock
  <2> QED
    BY <2>1 DEF Counted
<1>4. Left(pl)'
  <2>1. ASSUME NEW x \in Blocks, pl[x] = Flagged PROVE \E u \in Threads : LeftTo(u, x)'
    BY <1>1, <2>1 DEF FState, Left
  <2>2. ASSUME NEW u \in Threads, listPc'[u] \in Linking
        PROVE  /\ refs'[node'[u]] = 0 /\ pl[node'[u]] = Flagged
               /\ \A v \in Threads : listPc'[v] \in Linking /\ node'[v] = node'[u] => v = u
    <3>1. u # t /\ listPc[u] \in Linking /\ node'[u] = node[u] /\ node[u] \in Blocks
      BY <2>2 DEF OthersKept, LInv, ListLocals
    <3>2. \A v \in Threads : listPc'[v] \in Linking => v # t /\ listPc[v] \in Linking /\ node'[v] = node[v]
      BY DEF OthersKept
    <3> QED
      BY <3>1, <3>2 DEF FState, Left, SameBlock
  <2> QED
    BY <2>1, <2>2 DEF Left
<1>5. Listed(pl, n, l)'
  BY DEF FState, Listed
<1> QED
  BY <1>2, <1>3, <1>4, <1>5 DEF FState

\* The list is the same if nothing on it moves.
LEMMA ListedSame ==
    ASSUME NEW pl \in [Blocks -> Places], NEW n, NEW l, Listed(pl, n, l), freeListHead' = freeListHead,
           NEW pl2, \A x \in Blocks : pl2[x] = InList <=> pl[x] = InList,
           \A x \in Blocks : pl[x] = InList => freeListNext'[x] = freeListNext[x]
    PROVE  Listed(pl2, n, l)'
<1>1. \A i \in 1 .. n : l[i] \in Blocks /\ pl[l[i]] = InList
  BY DEF Listed
<1> QED
  BY <1>1 DEF Listed

-----------------------------------------------------------------------------
(* The free list, step by step *)

FrameOfList == UNCHANGED <<pc, index, initialBlockPoolIndex>>

LEMMA ThreadInList ==
    ASSUME LInv, NEW t \in Threads, listPc[t] # "out"
    PROVE  /\ pc[t] \in {"list", "add"}
           /\ pc[t] = "list" => listPc[t] \in ProducerList
           /\ pc[t] = "add" => listPc[t] \in ConsumerList
BY DEF LInv, Control, Threads

LEMMA HoldersOfFlagged ==
    ASSUME LInv, NEW pl, NEW n, NEW l, FState(pl, n, l), NEW b \in Blocks
    PROVE  /\ Cardinality(Holders(b)) \in Nat /\ Holders(b) \in SUBSET Threads
           /\ refs[b] = Cardinality(Holders(b)) + ListsRef(pl, b)
           /\ ListsRef(pl, b) \in {0, 1}
           /\ refs[b] = 0 => Holders(b) = {} /\ ListsRef(pl, b) = 0
           /\ pl[b] = InList => ListsRef(pl, b) = 1
           /\ pl[b] \in {InPool, Flagged} => ListsRef(pl, b) = 0
           /\ \A p, e : pl[b] = InEntry(p, e) => ListsRef(pl, b) = 0
           /\ \A t \in Threads : pl[b] = InHand(t) =>
                 ListsRef(pl, b) = IF listPc[t] \in Adding \cup {"taken"} THEN 1 ELSE 0
<1>1. Holders(b) \in SUBSET Threads
  BY DEF Holders
<1>2. ListsRef(pl, b) \in {0, 1}
  BY DEF ListsRef
<1>3. Cardinality(Holders(b)) \in Nat /\ (Cardinality(Holders(b)) = 0 => Holders(b) = {})
  BY <1>1, CountThreads
<1>4. refs[b] = Cardinality(Holders(b)) + ListsRef(pl, b)
  BY DEF FState, Counted
<1>5. /\ pl[b] = InList => ListsRef(pl, b) = 1
      /\ pl[b] \in {InPool, Flagged} => ListsRef(pl, b) = 0
      /\ \A p, e : pl[b] = InEntry(p, e) => ListsRef(pl, b) = 0
  BY PlacesDistinct DEF ListsRef
<1>6. ASSUME NEW t \in Threads, pl[b] = InHand(t)
      PROVE  ListsRef(pl, b) = IF listPc[t] \in Adding \cup {"taken"} THEN 1 ELSE 0
  BY <1>6, PlacesDistinct DEF ListsRef
<1> QED
  BY <1>1, <1>2, <1>3, <1>4, <1>5, <1>6

LEMMA AddLinkKeeps ==
    ASSUME LInv, NEW pl, NEW n, NEW l, FState(pl, n, l), NEW t \in Threads, AddLink(t), FrameOfList
    PROVE  \E pl2, n2, l2 : FState(pl2, n2, l2)'
<1>1. PICK b \in Blocks : b = node[t]
  BY DEF AddLink, LInv, ListLocals, Linking
<1>2. listPc[t] \in Linking /\ listPc'[t] \in {"swap", "get swap"} /\ OthersKept(t) /\ node' = node
  BY DEF AddLink, Linking, Then, LInv, ListTypes, OthersKept, FrameOfList
<1>3. pl[b] = Flagged /\ refs[b] = 0 /\ Holders(b) = {}
  BY <1>1, <1>2, HoldersOfFlagged DEF FState, Left
<1>4. PICK pl2 : pl2 = [pl EXCEPT ![b] = InHand(t)]
  OBVIOUS
<1>5. pl2 \in [Blocks -> Places] /\ pl \in [Blocks -> Places] /\ pl2[b] = InHand(t)
      /\ \A x \in Blocks : x # b => pl2[x] = pl[x]
  BY <1>4, PlacesDistinct DEF FState, Placed
<1>6. Placed(pl2)' /\ Counted(pl2)' /\ Left(pl2)'
  <2>1. \A x \in Blocks : x # b => ~Concerns(t, x) /\ ~Concerns(t, x)' /\ SameBlock(x)
    BY <1>1, <1>2 DEF Concerns, SameBlock, AddLink, FrameOfList, InIndex, LInv, ListTypes
  <2>2. /\ b > initialBlockPoolIndex' <=> InHand(t) = InPool
        /\ shouldBeOn'[b] <=> InHand(t) = Flagged
        /\ \A p \in Producers, e \in Entries : InIndex(p, e, b)' <=> InHand(t) = InEntry(p, e)
    <3>1. shouldBeOn'[b] = FALSE
      BY <1>1 DEF AddLink, LInv, ListTypes
    <3> QED
      BY <1>3, <3>1, PlacesDistinct DEF FState, Placed, FrameOfList, InIndex
  <2>3. InHands(t, b)'
    BY <1>1, <1>2 DEF InHands, InCall
  <2>4. \A u \in Threads : u # t => (pl[b] = InHand(u) <=> InHand(t) = InHand(u))
    BY <1>3, PlacesDistinct
  <2>5. refs'[b] = Cardinality(Holders(b)') + ListsRef(pl2, b)'
    <3>1. refs'[b] = 1
      BY <1>1 DEF AddLink, LInv, ListTypes
    <3>2. Holders(b)' = {}
      BY <1>2, <1>3 DEF Holders, OthersKept, Holding
    <3>3. ListsRef(pl2, b)' = 1
      BY <1>2, <1>5 DEF ListsRef, Adding
    <3> QED
      BY <3>1, <3>2, <3>3, FS_EmptySet
  <2>6. listPc'[t] \notin Linking
    BY <1>2 DEF Linking
  <2>7. \A u \in Threads : u # t /\ listPc[u] \in Linking => node[u] # b
    BY <1>1, <1>2 DEF FState, Left
  <2> QED
    <3>1. MovesTo(pl, pl2, t, b, InHand(t))
      BY <1>2, <1>4, <2>1, <2>2, <2>3, <2>4, <2>5, <2>6, <2>7, PlacesDistinct DEF MovesTo
    <3> QED
      BY <3>1, StepOf, PlacesDistinct
<1>7. Listed(pl2, n, l)'
  <2>1. \A x \in Blocks : pl2[x] = InList <=> pl[x] = InList
    BY <1>3, <1>5, PlacesDistinct
  <2>2. \A x \in Blocks : pl[x] = InList => freeListNext'[x] = freeListNext[x]
    BY <1>1, <1>3, PlacesDistinct DEF AddLink, LInv, ListTypes
  <2> QED
    BY <1>5, <2>1, <2>2, ListedSame DEF FState, AddLink
<1> QED
  BY <1>6, <1>7 DEF FState

\* Only a thread in whose hands a block is can be about to add it or have taken it.
LEMMA HandsOf ==
    ASSUME LInv, NEW pl, NEW n, NEW l, FState(pl, n, l), NEW t \in Threads, NEW b \in Blocks,
           node[t] = b, listPc[t] \in Adding \cup {"taken", "got"}
    PROVE  pl[b] = InHand(t) /\ \A u \in Threads : pl[b] = InHand(u) => u = t
<1>1. InHands(t, b)
  BY DEF InHands, InCall, Adding
<1>2. pl[b] = InHand(t)
  BY <1>1 DEF FState, Placed
<1> QED
  BY <1>2, PlacesDistinct

LEMMA NobodyLinks ==
    ASSUME LInv, NEW pl, NEW n, NEW l, FState(pl, n, l), NEW b \in Blocks,
           refs[b] # 0 \/ pl[b] # Flagged
    PROVE  \A u \in Threads : listPc[u] \in Linking => node[u] # b
BY DEF FState, Left

\* Who refers to a flagged block has still to give the reference back.
LEMMA FlaggedHolders ==
    ASSUME LInv, NEW pl, NEW n, NEW l, FState(pl, n, l), NEW t \in Threads, NEW b \in Blocks,
           pl[b] \in {Flagged, InHand(t)}, NEW u \in Holders(b), u # t
    PROVE  u \in Threads /\ node[u] = b /\ listPc[u] \in {"next", "take", "drop"}
<1>1. u \in Threads /\ node[u] = b /\ listPc[u] \in Holding
  BY DEF Holders
<1>2. listPc[u] # "taken"
  BY <1>1, PlacesDistinct, HandsOf
<1> QED
  BY <1>1, <1>2 DEF Holding

LEMMA AddSwapKeeps ==
    ASSUME LInv, NEW pl, NEW n, NEW l, FState(pl, n, l), NEW t \in Threads, AddSwap(t), FrameOfList
    PROVE  \E pl2, n2, l2 : FState(pl2, n2, l2)'
<1>1. PICK b \in Blocks : b = node[t]
  BY DEF AddSwap, LInv, ListLocals, Adding
<1>2. /\ listPc[t] \in {"swap", "get swap"} /\ OthersKept(t)
      /\ UNCHANGED <<node, refs, shouldBeOn, freeListNext, pc, index, initialBlockPoolIndex>>
  BY DEF AddSwap, KnowingZero, LInv, ListTypes, OthersKept, FrameOfList
<1>3. pl[b] = InHand(t) /\ \A u \in Threads : pl[b] = InHand(u) => u = t
  BY <1>1, <1>2, HandsOf DEF Adding
<1>4. pl \in [Blocks -> Places] /\ ~(b > initialBlockPoolIndex) /\ shouldBeOn[b] = FALSE
      /\ \A p \in Producers, e \in Entries : ~InIndex(p, e, b)
  BY <1>3, PlacesDistinct, BlocksAreNot DEF FState, Placed, LInv, ListTypes, Control
<1>5. \A u \in Threads : listPc[u] \in Linking => node[u] # b
  BY <1>3, NobodyLinks, PlacesDistinct
<1>6. \A x \in Blocks : x # b => ~Concerns(t, x) /\ ~Concerns(t, x)' /\ SameBlock(x)
  BY <1>1, <1>2 DEF Concerns, SameBlock, InIndex
<1>7. refs[b] = Cardinality(Holders(b)) + 1
  <2>1. refs[b] = Cardinality(Holders(b)) + ListsRef(pl, b)
    BY HoldersOfFlagged
  <2>2. ListsRef(pl, b) = 1
    BY <1>2, <1>3 DEF ListsRef, Adding
  <2> QED
    BY <2>1, <2>2
<1>8. CASE Unchanged(t)
  <2>1. /\ freeListHead = freeListNext[b] /\ freeListHead' = b
        /\ listPc'[t] \in {"added", "none", "ref"}
    BY <1>1, <1>2, <1>8 DEF AddSwap, Unchanged, Added, Resumed, LInv, ListTypes, ListLocals
  <2>2. PICK pl2 : pl2 = [pl EXCEPT ![b] = InList]
    OBVIOUS
  <2>3. pl2[b] = InList /\ \A x \in Blocks : x # b => pl2[x] = pl[x]
    BY <1>4, <2>2
  <2>4. Placed(pl2)' /\ Counted(pl2)' /\ Left(pl2)'
    <3>1. ~InHands(t, b)' /\ listPc'[t] \notin Linking
      BY <1>2, <2>1, ThreadInList DEF InHands, InCall, Linking
    <3>2. Holders(b)' = Holders(b)
      BY <1>2, <2>1 DEF Holders, Holding, OthersKept
    <3>3. ListsRef(pl2, b)' = 1
      BY <2>3 DEF ListsRef
    <3>4. /\ b > initialBlockPoolIndex' <=> InList = InPool
          /\ shouldBeOn'[b] <=> InList = Flagged
          /\ \A p \in Producers, e \in Entries : InIndex(p, e, b)' <=> InList = InEntry(p, e)
          /\ InHands(t, b)' <=> InList = InHand(t)
      <4>1. \A p \in Producers, e \in Entries : ~InIndex(p, e, b)'
        BY <1>2, <1>4 DEF InIndex
      <4> QED
        BY <1>2, <1>4, <3>1, <4>1, PlacesDistinct
    <3>5. \A u \in Threads : u # t => (pl[b] = InHand(u) <=> InList = InHand(u))
      BY <1>3, PlacesDistinct
    <3>6. refs'[b] = Cardinality(Holders(b)') + ListsRef(pl2, b)'
      BY <1>2, <1>7, <3>2, <3>3
    <3>7. InList # Flagged
      BY PlacesDistinct
    <3>8. MovesTo(pl, pl2, t, b, InList)
      BY <1>2, <1>5, <1>6, <2>2, <3>1, <3>4, <3>5, <3>6, <3>7 DEF MovesTo
    <3> QED
      BY <3>8, StepOf, PlacesDistinct
  <2>5. PICK l2 : l2 = [i \in 1 .. n + 1 |-> IF i = 1 THEN b ELSE l[i - 1]]
    OBVIOUS
  <2>6. Listed(pl2, n + 1, l2)'
    <3>1. n \in Nat /\ l \in [1 .. n -> Blocks] /\ \A i \in 1 .. n : l[i] \in Blocks /\ l[i] # b
      BY <1>3, PlacesDistinct DEF FState, Listed
    <3>2. l2 \in [1 .. n + 1 -> Blocks] /\ l2[1] = b /\ \A i \in 2 .. n + 1 : l2[i] = l[i - 1]
      BY <2>5, <3>1
    <3>3. ASSUME NEW i \in 1 .. n + 1
          PROVE  /\ freeListNext'[l2[i]] = IF i = n + 1 THEN NoBlock ELSE l2[i + 1]
                 /\ pl2[l2[i]] = InList
                 /\ \A j \in 1 .. n + 1 : l2[i] = l2[j] => i = j
      <4>1. CASE i = 1
        <5>1. i = n + 1 => freeListHead = NoBlock
          BY <3>1, <4>1 DEF FState, Listed
        <5>2. i # n + 1 => freeListHead = l[1] /\ l2[i + 1] = l[1]
          BY <3>1, <3>2, <4>1 DEF FState, Listed
        <5>3. \A j \in 1 .. n + 1 : j # 1 => l2[j] # b
          BY <3>1, <3>2
        <5> QED
          BY <1>2, <2>1, <2>3, <3>2, <4>1, <5>1, <5>2, <5>3
      <4>2. CASE i # 1
        <5>1. i \in 2 .. n + 1 /\ i - 1 \in 1 .. n /\ l2[i] = l[i - 1]
          BY <3>1, <3>2, <4>2
        <5>2. i # n + 1 => i \in 1 .. n /\ l2[i + 1] = l[i]
          BY <3>1, <3>2, <5>1
        <5>3. freeListNext[l[i - 1]] = IF i - 1 = n THEN NoBlock ELSE l[i]
          BY <3>1, <5>1 DEF FState, Listed
        <5>4. pl2[l2[i]] = InList
          BY <2>3, <3>1, <5>1 DEF FState, Listed
        <5>5. ASSUME NEW j \in 1 .. n + 1, l2[i] = l2[j] PROVE i = j
          <6>1. j # 1
            BY <3>1, <3>2, <5>1, <5>5
          <6>2. j - 1 \in 1 .. n /\ l2[j] = l[j - 1]
            BY <3>1, <3>2, <6>1
          <6>3. i - 1 = j - 1
            BY <5>1, <5>5, <6>2 DEF FState, Listed
          <6> QED
            BY <5>1, <6>2, <6>3
        <5>6. freeListNext'[l2[i]] = freeListNext[l[i - 1]] /\ (i - 1 = n <=> i = n + 1)
          <6>1. freeListNext'[l2[i]] = freeListNext[l[i - 1]]
            BY <1>2, <5>1
          <6>2. i - 1 = n <=> i = n + 1
            BY <3>1
          <6> QED
            BY <6>1, <6>2
        <5> QED
          BY <5>2, <5>3, <5>4, <5>5, <5>6
      <4> QED
        BY <4>1, <4>2
    <3>4. ASSUME NEW x \in Blocks, pl2[x] = InList PROVE \E i \in 1 .. n + 1 : l2[i] = x
      <4>1. CASE x = b
        BY <3>1, <3>2, <4>1
      <4>2. CASE x # b
        <5>1. PICK i \in 1 .. n : l[i] = x
          BY <2>3, <3>4, <4>2 DEF FState, Listed
        <5>2. i + 1 \in 2 .. n + 1 /\ l2[i + 1] = l[i]
          BY <3>1, <3>2
        <5> QED
          BY <3>1, <5>1, <5>2
      <4> QED
        BY <4>1, <4>2
    <3>5. n + 1 \in Nat /\ freeListHead' = IF n + 1 = 0 THEN NoBlock ELSE l2[1]
      BY <2>1, <3>1, <3>2
    <3> QED
      BY <3>2, <3>3, <3>4, <3>5 DEF Listed
  <2> QED
    BY <2>4, <2>6 DEF FState
<1>9. CASE ~Unchanged(t)
  <2>1. freeListHead' = freeListHead /\ listPc'[t] \in {"undo", "get undo"}
    BY <1>2, <1>9 DEF AddSwap, KnowingZero, Then, LInv, ListTypes
  <2>2. PICK pl2 : pl2 = [pl EXCEPT ![b] = InHand(t)]
    OBVIOUS
  <2>3. pl2[b] = InHand(t) /\ \A x \in Blocks : pl2[x] = pl[x]
    BY <1>3, <1>4, <2>2
  <2>4. Placed(pl2)' /\ Counted(pl2)' /\ Left(pl2)'
    <3>1. InHands(t, b)' /\ listPc'[t] \notin Linking
      BY <1>1, <1>2, <2>1 DEF InHands, InCall, Linking
    <3>2. Holders(b)' = Holders(b)
      BY <1>2, <2>1 DEF Holders, Holding, OthersKept
    <3>3. ListsRef(pl2, b)' = 1
      BY <2>1, <2>3 DEF ListsRef, Adding
    <3>4. /\ b > initialBlockPoolIndex' <=> InHand(t) = InPool
          /\ shouldBeOn'[b] <=> InHand(t) = Flagged
          /\ \A p \in Producers, e \in Entries : InIndex(p, e, b)' <=> InHand(t) = InEntry(p, e)
      <4>1. \A p \in Producers, e \in Entries : ~InIndex(p, e, b)'
        BY <1>2, <1>4 DEF InIndex
      <4> QED
        BY <1>2, <1>4, <4>1, PlacesDistinct
    <3>5. refs'[b] = Cardinality(Holders(b)') + ListsRef(pl2, b)'
      BY <1>2, <1>7, <3>2, <3>3
    <3>6. InHand(t) # Flagged
      BY PlacesDistinct
    <3>8. MovesTo(pl, pl2, t, b, InHand(t))
      BY <1>2, <1>3, <1>5, <1>6, <2>2, <3>1, <3>4, <3>5, <3>6 DEF MovesTo
    <3> QED
      BY <3>8, StepOf, PlacesDistinct
  <2>5. Listed(pl2, n, l)'
    BY <1>2, <1>4, <2>1, <2>3, ListedSame DEF FState
  <2> QED
    BY <2>4, <2>5 DEF FState
<1> QED
  BY <1>8, <1>9

\* A step of t about block b, which stays where it is.
StaysPut(pl, t, b) ==
    /\ OthersKept(t)
    /\ \A x \in Blocks : x # b => ~Concerns(t, x) /\ ~Concerns(t, x)' /\ refs'[x] = refs[x]
    /\ InHands(t, b)' <=> InHands(t, b)
    /\ refs'[b] = Cardinality(Holders(b)') + ListsRef(pl, b)'
    /\ pl[b] = Flagged => \E u \in Threads : LeftTo(u, b)'
    /\ listPc'[t] \in Linking => node'[t] = b /\ refs'[b] = 0 /\ pl[b] = Flagged
    /\ \A u \in Threads : u # t /\ listPc[u] \in Linking => node[u] # b

LEMMA StayOf ==
    ASSUME LInv, NEW pl, NEW n, NEW l, FState(pl, n, l), NEW t \in Threads, NEW b \in Blocks,
           StaysPut(pl, t, b), UNCHANGED <<freeListHead, freeListNext, shouldBeOn>>, FrameOfList
    PROVE  FState(pl, n, l)'
<1>1. pl \in [Blocks -> Places]
  BY DEF FState, Placed
<1>2. PICK w \in Places : w = pl[b]
  BY <1>1
<1>3. pl = [pl EXCEPT ![b] = w]
  BY <1>1, <1>2
<1>4. \A x \in Blocks : \A p \in Producers, e \in Entries : InIndex(p, e, x)' <=> InIndex(p, e, x)
  BY DEF FrameOfList, InIndex
<1>5. /\ b > initialBlockPoolIndex' <=> w = InPool
      /\ shouldBeOn'[b] <=> w = Flagged
      /\ \A p \in Producers, e \in Entries : InIndex(p, e, b)' <=> w = InEntry(p, e)
      /\ InHands(t, b)' <=> w = InHand(t)
  BY <1>2, <1>4 DEF FState, Placed, FrameOfList, StaysPut
<1>6. \A x \in Blocks : x # b => SameBlock(x)
  BY <1>4 DEF SameBlock, FrameOfList, StaysPut
<1>7. MovesTo(pl, pl, t, b, w)
  BY <1>2, <1>3, <1>5, <1>6 DEF MovesTo, StaysPut
<1>8. Placed(pl)' /\ Counted(pl)' /\ Left(pl)'
  BY <1>7, StepOf
<1>9. Listed(pl, n, l)'
  BY <1>1, ListedSame DEF FState
<1> QED
  BY <1>8, <1>9 DEF FState

LEMMA GetLoadKeeps ==
    ASSUME LInv, NEW pl, NEW n, NEW l, FState(pl, n, l), NEW t \in Threads,
           GetLoad(t) \/ (GetRef(t) /\ ~HasRefs(head[t])), FrameOfList
    PROVE  FState(pl, n, l)'
<1>1. /\ OthersKept(t) /\ UNCHANGED <<freeListHead, freeListNext, refs, shouldBeOn>>
      /\ listPc[t] \in {"load", "ref"} /\ listPc'[t] \in {"load", "none", "ref"}
  BY DEF OthersKept, GetLoad, GetRef, FrameOfList, LInv, ListTypes, freeListVars
<1>2. pc[t] \in {"list", "add"} /\ pc'[t] = pc[t]
  BY <1>1, ThreadInList DEF FrameOfList
<1>3. \A x \in Blocks : ~Concerns(t, x) /\ ~Concerns(t, x)' /\ SameBlock(x)
  <2>1. \A x \in Blocks : SameBlock(x)
    BY <1>1 DEF SameBlock, InIndex, FrameOfList
  <2> QED
    BY <1>1, <1>2, <2>1 DEF Concerns, Holding, Linking, Adding
<1> QED
  BY <1>1, <1>3, StepAside DEF Linking

LEMMA GetRefKeeps ==
    ASSUME LInv, NEW pl, NEW n, NEW l, FState(pl, n, l), NEW t \in Threads,
           GetRef(t), HasRefs(head[t]), FrameOfList
    PROVE  FState(pl, n, l)'
<1>1. PICK b \in Blocks : b = head[t]
  BY DEF GetRef, LInv, ListLocals
<1>2. /\ OthersKept(t) /\ UNCHANGED <<freeListHead, freeListNext, shouldBeOn>> /\ refs[b] # 0
      /\ listPc[t] = "ref" /\ listPc'[t] = "next" /\ node'[t] = b
      /\ \A x \in Blocks : refs'[x] = IF x = b THEN refs[b] + 1 ELSE refs[x]
  BY <1>1 DEF OthersKept, GetRef, HasRefs, FrameOfList, LInv, ListTypes
<1>3. pc[t] \in {"list", "add"} /\ pc'[t] = pc[t]
  BY <1>2, ThreadInList DEF FrameOfList
<1>4. \A x \in Blocks : x # b => ~Concerns(t, x) /\ ~Concerns(t, x)'
  BY <1>2, <1>3 DEF Concerns, Holding, Linking, Adding
<1>5. ~InHands(t, b) /\ ~InHands(t, b)'
  BY <1>2, <1>3 DEF InHands, InCall
<1>6. t \notin Holders(b) /\ Holders(b)' = Holders(b) \cup {t}
  BY <1>2 DEF Holders, Holding, OthersKept
<1>7. Cardinality(Holders(b)') = Cardinality(Holders(b)) + 1
  BY <1>6, CountThreads DEF Holders
<1>8. ListsRef(pl, b)' = ListsRef(pl, b)
  <2>1. pl[b] # InHand(t)
    BY <1>5 DEF FState, Placed
  <2> QED
    BY <1>2, <2>1 DEF ListsRef, OthersKept
<1>9. refs'[b] = Cardinality(Holders(b)') + ListsRef(pl, b)'
  <2>1. Cardinality(Holders(b)) \in Nat /\ refs[b] = Cardinality(Holders(b)) + ListsRef(pl, b)
        /\ ListsRef(pl, b) \in {0, 1}
    BY HoldersOfFlagged
  <2> QED
    BY <1>2, <1>7, <1>8, <2>1
<1>10. pl[b] = Flagged => \E u \in Threads : LeftTo(u, b)'
  <2> SUFFICES ASSUME pl[b] = Flagged PROVE LeftTo(t, b)'
    OBVIOUS
  <2> QED
    BY <1>2 DEF LeftTo, FState, Placed
<1>11. \A u \in Threads : listPc[u] \in Linking => node[u] # b
  BY <1>2, NobodyLinks
<1>12. StaysPut(pl, t, b)
  BY <1>2, <1>4, <1>5, <1>9, <1>10, <1>11 DEF StaysPut, Linking
<1> QED
  BY <1>2, <1>12, StayOf

\* The link is read, or the swap fails.
LEMMA GetNextKeeps ==
    ASSUME LInv, NEW pl, NEW n, NEW l, FState(pl, n, l), NEW t \in Threads,
           GetNext(t) \/ (GetSwap(t) /\ freeListHead # head[t]), FrameOfList
    PROVE  FState(pl, n, l)'
<1>1. PICK b \in Blocks : b = node[t]
  BY DEF GetNext, GetSwap, LInv, ListLocals, Holding
<1>2. /\ OthersKept(t) /\ UNCHANGED <<freeListHead, freeListNext, shouldBeOn, refs, node>>
      /\ listPc[t] \in {"next", "take"} /\ listPc'[t] \in {"take", "drop"}
  BY DEF OthersKept, GetNext, GetSwap, FrameOfList, LInv, ListTypes, freeListVars
<1>3. pc[t] \in {"list", "add"} /\ pc'[t] = pc[t]
  BY <1>2, ThreadInList DEF FrameOfList
<1>4. \A x \in Blocks : x # b => ~Concerns(t, x) /\ ~Concerns(t, x)'
  BY <1>1, <1>2 DEF Concerns
<1>5. ~InHands(t, b) /\ ~InHands(t, b)'
  BY <1>2, <1>3 DEF InHands, InCall
<1>6. t \in Holders(b) /\ Holders(b)' = Holders(b)
  BY <1>1, <1>2 DEF Holders, Holding, OthersKept
<1>8. ListsRef(pl, b)' = ListsRef(pl, b)
  <2>1. pl[b] # InHand(t)
    BY <1>5 DEF FState, Placed
  <2> QED
    BY <1>2, <2>1 DEF ListsRef, OthersKept
<1>9. refs'[b] = Cardinality(Holders(b)') + ListsRef(pl, b)'
  BY <1>2, <1>6, <1>8, HoldersOfFlagged
<1>10. pl[b] = Flagged => \E u \in Threads : LeftTo(u, b)'
  <2> SUFFICES ASSUME pl[b] = Flagged PROVE LeftTo(t, b)'
    OBVIOUS
  <2> QED
    BY <1>1, <1>2 DEF LeftTo, FState, Placed
<1>11. \A u \in Threads : listPc[u] \in Linking => node[u] # b
  <2>1. refs[b] # 0
    BY <1>6, HoldersOfFlagged
  <2> QED
    BY <2>1, NobodyLinks
<1>12. StaysPut(pl, t, b)
  BY <1>2, <1>4, <1>5, <1>9, <1>10, <1>11 DEF StaysPut, Linking
<1> QED
  BY <1>2, <1>12, StayOf

LEMMA GetTakenKeeps ==
    ASSUME LInv, NEW pl, NEW n, NEW l, FState(pl, n, l), NEW t \in Threads, GetTaken(t), FrameOfList
    PROVE  FState(pl, n, l)'
<1>1. PICK b \in Blocks : b = node[t]
  BY DEF GetTaken, LInv, ListLocals, Holding
<1>2. /\ OthersKept(t) /\ UNCHANGED <<freeListHead, freeListNext, shouldBeOn, node>>
      /\ listPc[t] = "taken" /\ listPc'[t] = "got"
      /\ \A x \in Blocks : refs'[x] = IF x = b THEN refs[b] - 2 ELSE refs[x]
  BY <1>1 DEF OthersKept, GetTaken, FrameOfList, LInv, ListTypes
<1>4. \A x \in Blocks : x # b => ~Concerns(t, x) /\ ~Concerns(t, x)'
  BY <1>1, <1>2 DEF Concerns
<1>5. InHands(t, b) /\ InHands(t, b)' /\ pl[b] = InHand(t)
  BY <1>1, <1>2, HandsOf DEF InHands, InCall
<1>6. t \in Holders(b) /\ Holders(b)' = Holders(b) \ {t}
  BY <1>1, <1>2 DEF Holders, Holding, OthersKept
<1>7. Cardinality(Holders(b)') = Cardinality(Holders(b)) - 1
  BY <1>6, CountThreads DEF Holders
<1>8. ListsRef(pl, b)' = 0
  BY <1>2, <1>5, PlacesDistinct DEF ListsRef, Adding
<1>9. refs'[b] = Cardinality(Holders(b)') + ListsRef(pl, b)'
  <2>1. ListsRef(pl, b) = 1
    BY <1>2, <1>5 DEF ListsRef
  <2>2. Cardinality(Holders(b)) \in Nat /\ refs[b] = Cardinality(Holders(b)) + ListsRef(pl, b)
    BY HoldersOfFlagged
  <2> QED
    BY <1>2, <1>7, <1>8, <2>1, <2>2
<1>10. pl[b] # Flagged
  BY <1>5, PlacesDistinct
<1>11. \A u \in Threads : listPc[u] \in Linking => node[u] # b
  BY <1>10, NobodyLinks
<1>12. StaysPut(pl, t, b)
  BY <1>2, <1>4, <1>5, <1>9, <1>10, <1>11 DEF StaysPut, Linking
<1> QED
  BY <1>2, <1>12, StayOf

LEMMA GetDropKeeps ==
    ASSUME LInv, NEW pl, NEW n, NEW l, FState(pl, n, l), NEW t \in Threads, GetDrop(t), FrameOfList
    PROVE  FState(pl, n, l)'
<1>1. PICK b \in Blocks : b = node[t]
  BY DEF GetDrop, LInv, ListLocals, Holding
<1>2. /\ OthersKept(t) /\ UNCHANGED <<freeListHead, freeListNext, shouldBeOn, node>>
      /\ listPc[t] = "drop" /\ listPc'[t] \in {"none", "ref", "get link"}
      /\ listPc'[t] = "get link" <=> LastRef(b)
      /\ refs'[b] = refs[b] - 1 /\ \A x \in Blocks : x # b => refs'[x] = refs[x]
  BY <1>1 DEF OthersKept, GetDrop, KnowingZero, Resumed, FrameOfList, LInv, ListTypes
<1>3. pc[t] \in {"list", "add"} /\ pc'[t] = pc[t]
  BY <1>2, ThreadInList DEF FrameOfList
<1>4. \A x \in Blocks : x # b => ~Concerns(t, x) /\ ~Concerns(t, x)'
  BY <1>1, <1>2 DEF Concerns
<1>5. ~InHands(t, b) /\ ~InHands(t, b)'
  BY <1>2, <1>3, ThreadInList DEF InHands, InCall
<1>6. t \in Holders(b) /\ Holders(b)' = Holders(b) \ {t}
  BY <1>1, <1>2 DEF Holders, Holding, OthersKept
<1>7. Cardinality(Holders(b)') = Cardinality(Holders(b)) - 1
  BY <1>6, CountThreads DEF Holders
<1>8. ListsRef(pl, b)' = ListsRef(pl, b)
  <2>1. pl[b] # InHand(t)
    BY <1>5 DEF FState, Placed
  <2> QED
    BY <1>2, <2>1 DEF ListsRef, OthersKept
<1>n. /\ Cardinality(Holders(b)) \in Nat /\ refs[b] = Cardinality(Holders(b)) + ListsRef(pl, b)
      /\ ListsRef(pl, b) \in {0, 1} /\ (pl[b] = Flagged => ListsRef(pl, b) = 0)
      /\ refs[b] # 0 /\ refs[b] \in Nat
  BY <1>6, HoldersOfFlagged
<1>9. refs'[b] = Cardinality(Holders(b)') + ListsRef(pl, b)'
  <2> HIDE DEF Holders, ListsRef
  <2>1. PICK c : c = Cardinality(Holders(b))
    OBVIOUS
  <2>2. PICK d : d = Cardinality(Holders(b)')
    OBVIOUS
  <2>3. c \in Nat /\ d = c - 1 /\ refs[b] = c + ListsRef(pl, b) /\ refs'[b] = refs[b] - 1
        /\ ListsRef(pl, b) \in {0, 1}
    BY <1>2, <1>7, <1>n, <2>1, <2>2
  <2>4. refs'[b] = d + ListsRef(pl, b)
    BY <2>3
  <2> QED
    BY <1>8, <2>2, <2>4
<1>10. pl[b] = Flagged => \E u \in Threads : LeftTo(u, b)'
  <2> SUFFICES ASSUME pl[b] = Flagged PROVE \E u \in Threads : LeftTo(u, b)'
    OBVIOUS
  <2>1. shouldBeOn'[b]
    BY <1>2 DEF FState, Placed
  <2>2. CASE LastRef(b)
    BY <1>1, <1>2, <2>1, <2>2 DEF LeftTo
  <2>3. CASE ~LastRef(b)
    <3>0. shouldBeOn[b]
      BY DEF FState, Placed
    <3>9. refs[b] # 1
      BY <2>3, <3>0 DEF LastRef
    <3>1. Cardinality(Holders(b)') # 0
      <4>1. Cardinality(Holders(b)) = refs[b]
        BY <1>n
      <4>2. Cardinality(Holders(b)') = refs[b] - 1
        BY <1>7, <4>1
      <4> QED
        BY <1>n, <3>9, <4>2
    <3>2. PICK u : u \in Holders(b) /\ u # t
      BY <1>6, <3>1, FS_EmptySet
    <3>3. u \in Threads /\ node[u] = b /\ listPc[u] \in {"next", "take", "drop"}
      BY <3>2, FlaggedHolders
    <3> QED
      BY <1>2, <2>1, <3>2, <3>3 DEF LeftTo, OthersKept
  <2> QED
    BY <2>2, <2>3
<1>11. \A u \in Threads : listPc[u] \in Linking => node[u] # b
  BY <1>n, NobodyLinks
<1>12. listPc'[t] \in Linking => node'[t] = b /\ refs'[b] = 0 /\ pl[b] = Flagged
  <2> SUFFICES ASSUME listPc'[t] \in Linking PROVE node'[t] = b /\ refs'[b] = 0 /\ pl[b] = Flagged
    OBVIOUS
  <2>1. LastRef(b)
    BY <1>2 DEF Linking
  <2>2. refs[b] = 1
    BY <2>1 DEF LastRef
  <2>3. pl[b] = Flagged
    BY <2>1 DEF LastRef, FState, Placed
  <2>5. refs'[b] = refs[b] - 1
    BY <1>2
  <2>4. refs'[b] = 0
    BY <2>2, <2>5
  <2> QED
    BY <1>1, <1>2, <2>3, <2>4
<1>13. StaysPut(pl, t, b)
  BY <1>2, <1>4, <1>5, <1>9, <1>10, <1>11, <1>12 DEF StaysPut
<1> QED
  BY <1>2, <1>13, StayOf

LEMMA AddUndoKeeps ==
    ASSUME LInv, NEW pl, NEW n, NEW l, FState(pl, n, l), NEW t \in Threads, AddUndo(t), FrameOfList
    PROVE  \E pl2, n2, l2 : FState(pl2, n2, l2)'
<1>1. PICK b \in Blocks : b = node[t]
  BY DEF AddUndo, LInv, ListLocals, Adding
<1>2. /\ listPc[t] \in {"undo", "get undo"} /\ OthersKept(t) /\ node' = node
      /\ listPc'[t] \in {"added", "none", "ref", "link", "get link"}
      /\ listPc'[t] \in Linking <=> refs[b] = 1
      /\ refs'[b] = refs[b] - 1 /\ shouldBeOn'[b] = TRUE
      /\ \A x \in Blocks : x # b => refs'[x] = refs[x] /\ shouldBeOn'[x] = shouldBeOn[x]
      /\ UNCHANGED <<freeListHead, freeListNext>>
  <2>1. /\ listPc'[t] \in {"added", "none", "ref", "link", "get link"}
        /\ listPc'[t] \in Linking <=> refs[b] = 1
    BY <1>1 DEF AddUndo, Then, Added, Resumed, Linking, LInv, ListTypes
  <2>2. /\ refs'[b] = refs[b] - 1 /\ shouldBeOn'[b] = TRUE
        /\ \A x \in Blocks : x # b => refs'[x] = refs[x] /\ shouldBeOn'[x] = shouldBeOn[x]
    BY <1>1 DEF AddUndo, LInv, ListTypes
  <2>3. OthersKept(t)
    BY DEF AddUndo, LInv, ListTypes, OthersKept, FrameOfList
  <2>4. listPc[t] \in {"undo", "get undo"} /\ node' = node /\ UNCHANGED <<freeListHead, freeListNext>>
    BY DEF AddUndo
  <2> QED
    BY <2>1, <2>2, <2>3, <2>4
<1>3. pl[b] = InHand(t) /\ \A u \in Threads : pl[b] = InHand(u) => u = t
  <2>1. listPc[t] \in Adding \cup {"taken", "got"}
    BY <1>2 DEF Adding
  <2> QED
    BY <1>1, <2>1, HandsOf
<1>4. pl \in [Blocks -> Places] /\ ~(b > initialBlockPoolIndex)
      /\ \A p \in Producers, e \in Entries : ~InIndex(p, e, b)
  BY <1>3, PlacesDistinct DEF FState, Placed
<1>5. pc[t] \in {"list", "add"} /\ pc'[t] = pc[t] /\ (listPc[t] = "undo" => pc[t] = "add")
  BY <1>2, ThreadInList DEF FrameOfList, ProducerList
<1>6. \A u \in Threads : listPc[u] \in Linking => node[u] # b
  BY <1>3, NobodyLinks, PlacesDistinct
<1>7. \A x \in Blocks : x # b => ~Concerns(t, x) /\ ~Concerns(t, x)' /\ SameBlock(x)
  BY <1>1, <1>2 DEF Concerns, SameBlock, InIndex, FrameOfList
<1>8. refs[b] = Cardinality(Holders(b)) + 1 /\ Cardinality(Holders(b)) \in Nat
  <2>1. refs[b] = Cardinality(Holders(b)) + ListsRef(pl, b) /\ Cardinality(Holders(b)) \in Nat
    BY HoldersOfFlagged
  <2>2. ListsRef(pl, b) = 1
    BY <1>2, <1>3 DEF ListsRef, Adding
  <2> QED
    BY <2>1, <2>2
<1>9. Holders(b)' = Holders(b)
  BY <1>2 DEF Holders, Holding, OthersKept
<1>10. PICK pl2 : pl2 = [pl EXCEPT ![b] = Flagged]
  OBVIOUS
<1>11. pl2[b] = Flagged /\ \A x \in Blocks : x # b => pl2[x] = pl[x]
  BY <1>4, <1>10
<1>12. refs'[b] = Cardinality(Holders(b)') + ListsRef(pl2, b)'
  <2>1. ListsRef(pl2, b)' = 0
    BY <1>11, PlacesDistinct DEF ListsRef
  <2>2. PICK c : c = Cardinality(Holders(b))
    OBVIOUS
  <2>3. c \in Nat /\ refs[b] = c + 1 /\ refs'[b] = refs[b] - 1
    BY <1>2, <1>8, <2>2
  <2>4. refs'[b] = c + 0
    BY <2>3
  <2> QED
    BY <1>9, <2>1, <2>2, <2>4
<1>13. \E u \in Threads : LeftTo(u, b)'
  <2>1. CASE refs[b] = 1
    BY <1>1, <1>2, <2>1 DEF LeftTo, Linking
  <2>2. CASE refs[b] # 1
    <3>1. PICK u : u \in Holders(b)
      BY <1>8, <2>2, FS_EmptySet
    <3>2. u # t
      BY <1>2, <3>1 DEF Holders, Holding
    <3>3. u \in Threads /\ node[u] = b /\ listPc[u] \in {"next", "take", "drop"}
      BY <1>3, <3>1, <3>2, FlaggedHolders
    <3> QED
      BY <1>2, <3>2, <3>3 DEF LeftTo, OthersKept
  <2> QED
    BY <2>1, <2>2
<1>14. /\ b > initialBlockPoolIndex' <=> Flagged = InPool
       /\ shouldBeOn'[b] <=> Flagged = Flagged
       /\ \A p \in Producers, e \in Entries : InIndex(p, e, b)' <=> Flagged = InEntry(p, e)
       /\ InHands(t, b)' <=> Flagged = InHand(t)
  <2>1. \A p \in Producers, e \in Entries : ~InIndex(p, e, b)'
    BY <1>4 DEF InIndex, FrameOfList
  <2>2. ~InHands(t, b)'
    BY <1>2, <1>5 DEF InHands, InCall
  <2>3. shouldBeOn'[b] = TRUE
    BY <1>2
  <2>4. shouldBeOn'[b] <=> Flagged = Flagged
    BY <2>3
  <2>5. b > initialBlockPoolIndex' <=> Flagged = InPool
    BY <1>4, PlacesDistinct DEF FrameOfList
  <2> QED
    BY <2>1, <2>2, <2>4, <2>5, PlacesDistinct
<1>15. listPc'[t] \in Linking => node'[t] = b /\ refs'[b] = 0
  <2>1. listPc'[t] \in Linking => refs[b] = 1
    BY <1>2
  <2>2. refs'[b] = refs[b] - 1 /\ node' = node
    BY <1>2
  <2> QED
    BY <1>1, <2>1, <2>2
<1>16. MovesTo(pl, pl2, t, b, Flagged)
  <2>1. \A u \in Threads : u # t => (pl[b] = InHand(u) <=> Flagged = InHand(u))
    BY <1>3, PlacesDistinct
  <2> QED
    BY <1>2, <1>6, <1>7, <1>10, <1>12, <1>13, <1>14, <1>15, <2>1 DEF MovesTo
<1>17. Placed(pl2)' /\ Counted(pl2)' /\ Left(pl2)'
  BY <1>16, StepOf, PlacesDistinct
<1>18. Listed(pl2, n, l)'
  <2>1. \A x \in Blocks : pl2[x] = InList <=> pl[x] = InList
    BY <1>3, <1>11, PlacesDistinct
  <2> QED
    BY <1>2, <1>4, <2>1, ListedSame DEF FState
<1> QED
  BY <1>17, <1>18 DEF FState

\* The thread takes the first block of the list.
LEMMA GetSwapKeeps ==
    ASSUME LInv, NEW pl, NEW n, NEW l, FState(pl, n, l), NEW t \in Threads,
           GetSwap(t), freeListHead = head[t], FrameOfList
    PROVE  \E pl2, n2, l2 : FState(pl2, n2, l2)'
<1>1. PICK b \in Blocks : b = node[t]
  BY DEF GetSwap, LInv, ListLocals, Holding
<1>2. /\ listPc[t] = "take" /\ OthersKept(t) /\ listPc'[t] = "taken"
      /\ UNCHANGED <<node, refs, shouldBeOn, freeListNext>>
      /\ freeListHead = b /\ freeListHead' = freeListNext[b]
  BY <1>1 DEF GetSwap, LInv, ListTypes, ListLocals, OthersKept, FrameOfList
<1>3. n \in Nat /\ n # 0 /\ l \in [1 .. n -> Blocks] /\ l[1] = b /\ pl[b] = InList
  <2>1. n \in Nat /\ freeListHead = IF n = 0 THEN NoBlock ELSE l[1]
    BY DEF FState, Listed
  <2>2. n # 0 /\ l[1] = b
    BY <1>2, <2>1, BlocksAreNot
  <2>3. 1 \in 1 .. n
    BY <2>1, <2>2
  <2> QED
    BY <2>1, <2>2, <2>3 DEF FState, Listed
<1>4. pl \in [Blocks -> Places] /\ ~(b > initialBlockPoolIndex) /\ ~shouldBeOn[b]
      /\ \A p \in Producers, e \in Entries : ~InIndex(p, e, b)
  BY <1>3, PlacesDistinct DEF FState, Placed
<1>5. \A u \in Threads : listPc[u] \in Linking => node[u] # b
  BY <1>3, NobodyLinks, PlacesDistinct
<1>6. \A x \in Blocks : x # b => ~Concerns(t, x) /\ ~Concerns(t, x)' /\ SameBlock(x)
  BY <1>1, <1>2 DEF Concerns, SameBlock, InIndex, FrameOfList
<1>7. PICK pl2 : pl2 = [pl EXCEPT ![b] = InHand(t)]
  OBVIOUS
<1>8. pl2[b] = InHand(t) /\ \A x \in Blocks : x # b => pl2[x] = pl[x]
  BY <1>4, <1>7
<1>9. refs'[b] = Cardinality(Holders(b)') + ListsRef(pl2, b)'
  <2>1. refs[b] = Cardinality(Holders(b)) + ListsRef(pl, b) /\ ListsRef(pl, b) = 1
    BY <1>3, HoldersOfFlagged
  <2>2. ListsRef(pl2, b)' = 1
    BY <1>2, <1>8 DEF ListsRef
  <2>3. Holders(b)' = Holders(b)
    BY <1>2 DEF Holders, Holding, OthersKept
  <2> QED
    BY <1>2, <2>1, <2>2, <2>3
<1>10. InHands(t, b)'
  BY <1>1, <1>2 DEF InHands, InCall
<1>11. /\ b > initialBlockPoolIndex' <=> InHand(t) = InPool
       /\ shouldBeOn'[b] <=> InHand(t) = Flagged
       /\ \A p \in Producers, e \in Entries : InIndex(p, e, b)' <=> InHand(t) = InEntry(p, e)
       /\ InHands(t, b)' <=> InHand(t) = InHand(t)
  <2>1. \A p \in Producers, e \in Entries : ~InIndex(p, e, b)'
    BY <1>4 DEF InIndex, FrameOfList
  <2> QED
    BY <1>2, <1>4, <1>10, <2>1, PlacesDistinct DEF FrameOfList
<1>12. MovesTo(pl, pl2, t, b, InHand(t))
  <2>1. \A u \in Threads : u # t => (pl[b] = InHand(u) <=> InHand(t) = InHand(u))
    BY <1>3, PlacesDistinct
  <2>2. InHand(t) # Flagged /\ listPc'[t] \notin Linking
    BY <1>2, PlacesDistinct DEF Linking
  <2> QED
    BY <1>2, <1>5, <1>6, <1>7, <1>9, <1>11, <2>1, <2>2 DEF MovesTo
<1>13. Placed(pl2)' /\ Counted(pl2)' /\ Left(pl2)'
  BY <1>12, StepOf, PlacesDistinct
<1>14. PICK m : m = n - 1
  OBVIOUS
<1>15. PICK l2 : l2 = [i \in 1 .. m |-> l[i + 1]]
  OBVIOUS
<1>16. m \in Nat /\ n = m + 1 /\ \A i \in 1 .. m : i \in 1 .. n /\ i + 1 \in 1 .. n
  BY <1>3, <1>14
<1>17. l2 \in [1 .. m -> Blocks] /\ \A i \in 1 .. m : l2[i] = l[i + 1]
  BY <1>3, <1>15, <1>16
<1>18. Listed(pl2, m, l2)'
  <2>1. ASSUME NEW i \in 1 .. n
        PROVE  /\ freeListNext[l[i]] = IF i = n THEN NoBlock ELSE l[i + 1]
               /\ pl[l[i]] = InList
               /\ \A j \in 1 .. n : l[i] = l[j] => i = j
    BY DEF FState, Listed
  <2>2. freeListHead' = IF m = 0 THEN NoBlock ELSE l2[1]
    <3>1. 1 \in 1 .. n /\ freeListNext[b] = IF 1 = n THEN NoBlock ELSE l[2]
      BY <1>3, <2>1
    <3>2. m # 0 => 1 \in 1 .. m /\ l2[1] = l[2]
      BY <1>16, <1>17
    <3> QED
      BY <1>2, <1>16, <3>1, <3>2
  <2>3. ASSUME NEW i \in 1 .. m
        PROVE  /\ freeListNext'[l2[i]] = IF i = m THEN NoBlock ELSE l2[i + 1]
               /\ pl2[l2[i]] = InList
               /\ \A j \in 1 .. m : l2[i] = l2[j] => i = j
    <3>1. l2[i] = l[i + 1] /\ i + 1 \in 1 .. n /\ i \in Nat
      BY <1>16, <1>17
    <3>2. 1 \in 1 .. n /\ i + 1 # 1
      BY <1>3
    <3>3. l[i + 1] # b /\ l[i + 1] \in Blocks
      BY <1>3, <2>1, <3>1, <3>2
    <3>4. freeListNext'[l2[i]] = IF i + 1 = n THEN NoBlock ELSE l[i + 2]
      BY <1>2, <2>1, <3>1
    <3>5. i # m => i + 1 \in 1 .. m /\ l2[i + 1] = l[i + 2]
      BY <1>16, <1>17
    <3>6. i + 1 = n <=> i = m
      BY <1>16
    <3>7. ASSUME NEW j \in 1 .. m, l2[i] = l2[j] PROVE i = j
      <4>1. l2[j] = l[j + 1] /\ j + 1 \in 1 .. n /\ j \in Nat
        BY <1>16, <1>17
      <4>2. i + 1 = j + 1
        BY <2>1, <3>1, <3>7, <4>1
      <4> QED
        BY <4>2
    <3>8. pl2[l2[i]] = InList
      BY <1>8, <2>1, <3>1, <3>3
    <3> QED
      BY <3>4, <3>5, <3>6, <3>7, <3>8
  <2>4. ASSUME NEW x \in Blocks, pl2[x] = InList PROVE \E i \in 1 .. m : l2[i] = x
    <3>1. x # b /\ pl[x] = InList
      BY <1>8, <2>4, PlacesDistinct
    <3>2. PICK i \in 1 .. n : l[i] = x
      BY <3>1 DEF FState, Listed
    <3>3. i # 1
      BY <1>3, <3>1, <3>2
    <3>4. i - 1 \in 1 .. m /\ (i - 1) + 1 = i
      BY <1>16, <3>3
    <3>5. l2[i - 1] = x
      BY <1>17, <3>2, <3>4
    <3> QED
      BY <3>4, <3>5
  <2> QED
    BY <1>16, <1>17, <2>2, <2>3, <2>4 DEF Listed
<1> QED
  BY <1>13, <1>18 DEF FState

\* No step of the free list but those that move a block changes what is where.
LEMMA FreeListStepKeeps ==
    ASSUME LInv, NEW pl, NEW n, NEW l, FState(pl, n, l), NEW t \in Threads, ListStep(t), FrameOfList
    PROVE  \E pl2, n2, l2 : FState(pl2, n2, l2)'
<1>1. CASE AddLink(t)
  BY <1>1, AddLinkKeeps
<1>2. CASE AddSwap(t)
  BY <1>2, AddSwapKeeps
<1>3. CASE AddUndo(t)
  BY <1>3, AddUndoKeeps
<1>4. CASE GetLoad(t) \/ (GetRef(t) /\ ~HasRefs(head[t]))
  <2>1. FState(pl, n, l)'
    BY <1>4, GetLoadKeeps
  <2> QED
    BY <2>1
<1>5. CASE GetRef(t) /\ HasRefs(head[t])
  <2>1. FState(pl, n, l)'
    BY <1>5, GetRefKeeps
  <2> QED
    BY <2>1
<1>6. CASE GetNext(t) \/ (GetSwap(t) /\ freeListHead # head[t])
  <2>1. FState(pl, n, l)'
    BY <1>6, GetNextKeeps
  <2> QED
    BY <2>1
<1>7. CASE GetSwap(t) /\ freeListHead = head[t]
  BY <1>7, GetSwapKeeps
<1>8. CASE GetTaken(t)
  <2>1. FState(pl, n, l)'
    BY <1>8, GetTakenKeeps
  <2> QED
    BY <2>1
<1>9. CASE GetDrop(t)
  <2>1. FState(pl, n, l)'
    BY <1>9, GetDropKeeps
  <2> QED
    BY <2>1
<1> QED
  BY <1>1, <1>2, <1>3, <1>4, <1>5, <1>6, <1>7, <1>8, <1>9 DEF ListStep

Publishing == {"pool", "take", "list", "publish"}

IndexType == [Producers -> [Entries -> [key : Int, value : Blocks \cup {NoBlock}]]]

\* What the steps that publish and unpublish a block have to know of the index.
IndexFacts ==
    /\ index \in IndexType
    /\ indexTail \in [Producers -> Entries]
    /\ \A p \in Producers : pc[p] \in Publishing => index[p][indexTail[p]].value = NoBlock
    /\ \A c \in Consumers : pc[c] \in {"read", "set empty", "unpublish"} =>
          producer[c] \in Producers /\ entry[c] \in Entries /\ BlockFor(c) \in Blocks

\* The steps of a thread that are about no block.
Aside(t) ==
    \/ t \in Producers /\ (Register(t) \/ BeginEnqueue(t) \/ InsertEntry(t) \/ LookInPool(t)
                           \/ BeginGet(t) \/ NoRoom(t) \/ Write(t) \/ StoreTail(t))
    \/ t \in Producers /\ TakeFromPool(t) /\ initialBlockPoolIndex >= PoolSize
    \/ t \in Consumers /\ (Choose(t) \/ Check(t) \/ Count(t) \/ Test(t) \/ TakeIndex(t)
                           \/ LoadIndexTail(t) \/ FindEntry(t) \/ Read(t) \/ SetEmpty(t) \/ EndDequeue(t))

LEMMA ModRange == ASSUME NEW x \in Int, NEW m \in Nat \ {0} PROVE x % m \in 0 .. m - 1
OBVIOUS

LEMMA IndexIs ==
  ASSUME IndexFacts
  PROVE  /\ index \in IndexType
         /\ indexTail \in [Producers -> Entries]
         /\ \A p \in Producers : indexTail[p] \in 0 .. IndexCapacity - 1 /\ indexTail[p] \in Int
<1>1. index \in IndexType /\ indexTail \in [Producers -> Entries]
  BY DEF IndexFacts
<1>2. \A p \in Producers : indexTail[p] \in 0 .. IndexCapacity - 1
  BY <1>1 DEF Entries
<1>3. \A x \in 0 .. IndexCapacity - 1 : x \in Int
  BY QueueAssumption
<1> QED
  BY <1>1, <1>2, <1>3

LEMMA SizesAre == BlockSize \in Nat \ {0} /\ IndexCapacity \in Nat \ {0}
BY QueueAssumption

SetsValue(ix2, ix, p, e, b) == ix2 = [ix EXCEPT ![p][e].value = b]
SetsKey(ix2, ix, p, e, k)   == ix2 = [ix EXCEPT ![p][e].key = k]

LEMMA ValueSet ==
    ASSUME NEW ix \in IndexType, NEW p \in Producers, NEW e \in Entries, NEW b,
           NEW ix2, SetsValue(ix2, ix, p, e, b)
    PROVE  \A q \in Producers, f \in Entries :
              /\ ix2[q][f].value = IF q = p /\ f = e THEN b ELSE ix[q][f].value
              /\ ix2[q][f].key = ix[q][f].key
<1>1. PICK r : r = ix[p]
  OBVIOUS
<1>2. PICK s : s = [r EXCEPT ![e].value = b]
  OBVIOUS
<1>3. r \in [Entries -> [key : Int, value : Blocks \cup {NoBlock}]]
  BY <1>1 DEF IndexType
<1>4. \A f \in Entries : s[f].value = IF f = e THEN b ELSE r[f].value
  BY <1>2, <1>3
<1>5. \A f \in Entries : s[f].key = r[f].key
  BY <1>2, <1>3
<1>6. ix2 = [ix EXCEPT ![p] = s]
  BY <1>1, <1>2 DEF SetsValue
<1> QED
  BY <1>1, <1>4, <1>5, <1>6 DEF IndexType

LEMMA KeySet ==
    ASSUME NEW ix \in IndexType, NEW p \in Producers, NEW e \in Entries, NEW k,
           NEW ix2, SetsKey(ix2, ix, p, e, k)
    PROVE  \A q \in Producers, f \in Entries :
              /\ ix2[q][f].key = IF q = p /\ f = e THEN k ELSE ix[q][f].key
              /\ ix2[q][f].value = ix[q][f].value
<1>1. PICK r : r = ix[p]
  OBVIOUS
<1>2. PICK s : s = [r EXCEPT ![e].key = k]
  OBVIOUS
<1>3. r \in [Entries -> [key : Int, value : Blocks \cup {NoBlock}]]
  BY <1>1 DEF IndexType
<1>4. \A f \in Entries : s[f].key = IF f = e THEN k ELSE r[f].key
  BY <1>2, <1>3
<1>5. \A f \in Entries : s[f].value = r[f].value
  BY <1>2, <1>3
<1>6. ix2 = [ix EXCEPT ![p] = s]
  BY <1>1, <1>2 DEF SetsKey
<1> QED
  BY <1>1, <1>4, <1>5, <1>6 DEF IndexType

\* where an aside begins and ends
LEMMA AsideLabels ==
    ASSUME LInv, NEW t \in Threads, Aside(t)
    PROVE  /\ OthersKept(t)
           /\ pc[t] # "publish" /\ (pc[t] = "add" => listPc[t] = "added")
           /\ pc'[t] \notin {"add", "publish"}
           /\ listPc[t] \in {"out", "none", "added"} /\ listPc'[t] \in {"out", "load"}
           /\ UNCHANGED <<freeListHead, freeListNext, refs, shouldBeOn>>
<1> USE DEF LInv, ListTypes, Control, Threads, OthersKept, Goto, freeListVars, listVars, callVars
<1>1. CASE t \in Producers /\ (Register(t) \/ BeginEnqueue(t) \/ LookInPool(t) \/ Write(t) \/ StoreTail(t))
  BY <1>1 DEF Register, BeginEnqueue, LookInPool, Write, StoreTail
<1>2. CASE t \in Producers /\ (InsertEntry(t) \/ BeginGet(t) \/ NoRoom(t))
  BY <1>2 DEF InsertEntry, BeginGet, NoRoom, EnterGet, LeaveCall
<1>3. CASE t \in Producers /\ TakeFromPool(t) /\ initialBlockPoolIndex >= PoolSize
  BY <1>3, PoolAssumption DEF TakeFromPool
<1>4. CASE t \in Consumers /\ (Choose(t) \/ Check(t) \/ Count(t) \/ Test(t))
  BY <1>4 DEF Choose, Check, Count, Test, TryAnother, Return
<1>5. CASE t \in Consumers /\ (TakeIndex(t) \/ LoadIndexTail(t) \/ FindEntry(t) \/ Read(t))
  BY <1>5 DEF TakeIndex, LoadIndexTail, FindEntry, Read
<1>6. CASE t \in Consumers /\ (SetEmpty(t) \/ EndDequeue(t))
  BY <1>6 DEF SetEmpty, EndDequeue, Return, LeaveCall
<1> QED
  BY <1>1, <1>2, <1>3, <1>4, <1>5, <1>6 DEF Aside

\* An aside leaves the pool and the values of the index as they are.
LEMMA AsideBlocks ==
    ASSUME LInv, IndexFacts, NEW t \in Threads, Aside(t), NEW x \in Blocks
    PROVE  /\ x > initialBlockPoolIndex' <=> x > initialBlockPoolIndex
           /\ \A p \in Producers, e \in Entries : InIndex(p, e, x)' <=> InIndex(p, e, x)
<1>1. CASE t \in Producers /\ InsertEntry(t)
  <2>1. PICK e : e = (indexTail[t] + 1) % IndexCapacity
    OBVIOUS
  <2>2. index' = index \/ SetsKey(index', index, t, e, tailIndex[t])
    BY <1>1, <2>1 DEF InsertEntry, indexVars, SetsKey
  <2>4. e \in Entries
    <3>1. indexTail[t] + 1 \in Int
      BY <1>1, IndexIs
    <3>2. IndexCapacity \in Nat \ {0}
      BY SizesAre
    <3> QED
      BY <2>1, <3>1, <3>2, ModRange DEF Entries
  <2>3. \A p \in Producers, f \in Entries : index'[p][f].value = index[p][f].value
    <3>1. CASE SetsKey(index', index, t, e, tailIndex[t])
      BY <1>1, <2>4, <3>1, KeySet, IndexIs
    <3> QED
      BY <2>2, <3>1
  <2> QED
    BY <1>1, <2>3 DEF InIndex, InsertEntry, blockVars
<1>2. CASE t \in Producers /\ TakeFromPool(t) /\ initialBlockPoolIndex >= PoolSize
  <2>1. initialBlockPoolIndex \in Nat /\ x \in 1 .. PoolSize
    BY DEF LInv, Control, Blocks
  <2>2. initialBlockPoolIndex' = initialBlockPoolIndex + 1 /\ index' = index
    BY <1>2 DEF TakeFromPool, indexVars
  <2> QED
    BY <1>2, <2>1, <2>2, PoolAssumption DEF InIndex
<1>3. CASE ~(t \in Producers /\ InsertEntry(t)) /\ ~(t \in Producers /\ TakeFromPool(t))
  <2>1. UNCHANGED <<index, initialBlockPoolIndex>>
    BY <1>3 DEF Aside, Register, BeginEnqueue, LookInPool, BeginGet, NoRoom, Write, StoreTail, Choose,
       Check, Count, Test, TakeIndex, LoadIndexTail, FindEntry, Read, SetEmpty, EndDequeue,
       indexVars, blockVars
  <2> QED
    BY <2>1 DEF InIndex
<1>4. CASE t \in Producers /\ TakeFromPool(t) /\ ~(initialBlockPoolIndex >= PoolSize)
  <2>1. pc[t] = "take" /\ listPc[t] = "out" /\ t \notin Consumers
    BY <1>4, QueueAssumption DEF TakeFromPool, LInv, Control
  <2> QED
    BY <1>4, <2>1 DEF Aside, Register, BeginEnqueue, InsertEntry, LookInPool, BeginGet, NoRoom, Write, StoreTail
<1> QED
  BY <1>1, <1>2, <1>3, <1>4

LEMMA AsideKeeps ==
    ASSUME LInv, IndexFacts, NEW pl, NEW n, NEW l, FState(pl, n, l), NEW t \in Threads, Aside(t)
    PROVE  FState(pl, n, l)'
<1>1. \A x \in Blocks : SameBlock(x)
  BY AsideLabels, AsideBlocks DEF SameBlock
<1>2. \A x \in Blocks : ~Concerns(t, x) /\ ~Concerns(t, x)'
  <2>1. /\ pc[t] # "publish" /\ (pc[t] = "add" => listPc[t] = "added")
        /\ pc'[t] \notin {"add", "publish"}
        /\ listPc[t] \in {"out", "none", "added"} /\ listPc'[t] \in {"out", "load"}
    BY AsideLabels
  <2> QED
    BY <2>1 DEF Concerns, Holding, Linking, Adding
<1>3. listPc'[t] \notin Linking /\ OthersKept(t) /\ UNCHANGED <<freeListHead, freeListNext>>
  BY AsideLabels DEF Linking
<1> QED
  BY <1>1, <1>2, <1>3, StepAside

LEMMA TakeFromPoolKeeps ==
    ASSUME LInv, NEW pl, NEW n, NEW l, FState(pl, n, l), NEW p \in Producers,
           TakeFromPool(p), initialBlockPoolIndex < PoolSize
    PROVE  \E pl2, n2, l2 : FState(pl2, n2, l2)'
<1>0. p \in Threads
  BY DEF Threads
<1>1. PICK b \in Blocks : b = initialBlockPoolIndex + 1
  BY PoolAssumption DEF LInv, Control, Blocks
<1>2. /\ OthersKept(p) /\ pc[p] = "take" /\ pc'[p] = "publish" /\ listPc[p] = "out" /\ listPc' = listPc
      /\ node[p] = NoBlock /\ node'[p] = b
      /\ UNCHANGED <<freeListHead, freeListNext, refs, shouldBeOn, index>>
      /\ initialBlockPoolIndex' = initialBlockPoolIndex + 1
  BY <1>0, <1>1 DEF TakeFromPool, OthersKept, Goto, LInv, ListTypes, Control, freeListVars, indexVars
<1>3. pl[b] = InPool /\ pl \in [Blocks -> Places]
  <2>1. b > initialBlockPoolIndex
    BY <1>1 DEF LInv, Control
  <2> QED
    BY <2>1 DEF FState, Placed
<1>4. shouldBeOn[b] = FALSE /\ \A q \in Producers, e \in Entries : ~InIndex(q, e, b)
  BY <1>3, PlacesDistinct DEF FState, Placed, LInv, ListTypes
<1>5. \A u \in Threads : listPc[u] \in Linking => node[u] # b
  BY <1>3, NobodyLinks, PlacesDistinct
<1>6. ASSUME NEW x \in Blocks, x # b PROVE ~Concerns(p, x) /\ ~Concerns(p, x)' /\ SameBlock(x)
  <2>1. x > initialBlockPoolIndex' <=> x > initialBlockPoolIndex
    BY <1>1, <1>2, <1>6 DEF LInv, Control, Blocks
  <2>2. ~Concerns(p, x) /\ ~Concerns(p, x)'
    BY <1>2, <1>6, BlocksAreNot DEF Concerns
  <2> QED
    BY <1>2, <2>1, <2>2 DEF SameBlock, InIndex
<1>7. PICK pl2 : pl2 = [pl EXCEPT ![b] = InHand(p)]
  OBVIOUS
<1>8. pl2[b] = InHand(p) /\ \A x \in Blocks : x # b => pl2[x] = pl[x]
  BY <1>3, <1>7
<1>9. refs'[b] = Cardinality(Holders(b)') + ListsRef(pl2, b)'
  <2>1. Holders(b)' = Holders(b)
    BY <1>2 DEF Holders, Holding, OthersKept
  <2>2. ListsRef(pl, b) = 0 /\ refs[b] = Cardinality(Holders(b)) + ListsRef(pl, b)
    BY <1>3, HoldersOfFlagged
  <2>3. ListsRef(pl2, b)' = 0
    BY <1>0, <1>2, <1>8, PlacesDistinct DEF ListsRef, Adding
  <2> QED
    BY <1>2, <2>1, <2>2, <2>3
<1>10. /\ b > initialBlockPoolIndex' <=> InHand(p) = InPool
       /\ shouldBeOn'[b] <=> InHand(p) = Flagged
       /\ \A q \in Producers, e \in Entries : InIndex(q, e, b)' <=> InHand(p) = InEntry(q, e)
       /\ InHands(p, b)' <=> InHand(p) = InHand(p)
  <2>1. \A q \in Producers, e \in Entries : ~InIndex(q, e, b)'
    BY <1>2, <1>4 DEF InIndex
  <2>2. InHands(p, b)'
    BY <1>2 DEF InHands
  <2>3. ~(b > initialBlockPoolIndex')
    BY <1>1, <1>2 DEF Blocks
  <2>4. shouldBeOn'[b] <=> InHand(p) = Flagged
    BY <1>2, <1>4, PlacesDistinct
  <2> QED
    BY <2>1, <2>2, <2>3, <2>4, PlacesDistinct
<1>11. MovesTo(pl, pl2, p, b, InHand(p))
  <2>1. \A u \in Threads : u # p => (pl[b] = InHand(u) <=> InHand(p) = InHand(u))
    BY <1>3, PlacesDistinct
  <2>2. InHand(p) # Flagged /\ listPc'[p] \notin Linking
    BY <1>2, PlacesDistinct DEF Linking
  <2> QED
    BY <1>2, <1>5, <1>6, <1>7, <1>9, <1>10, <2>1, <2>2 DEF MovesTo
<1>12. Placed(pl2)' /\ Counted(pl2)' /\ Left(pl2)'
  BY <1>0, <1>11, StepOf, PlacesDistinct
<1>13. Listed(pl2, n, l)'
  <2>1. \A x \in Blocks : pl2[x] = InList <=> pl[x] = InList
    BY <1>3, <1>8, PlacesDistinct
  <2> QED
    BY <1>2, <1>3, <2>1, ListedSame DEF FState
<1> QED
  BY <1>12, <1>13 DEF FState

LEMMA PublishKeeps ==
    ASSUME LInv, IndexFacts, NEW pl, NEW n, NEW l, FState(pl, n, l), NEW p \in Producers, Publish(p)
    PROVE  \E pl2, n2, l2 : FState(pl2, n2, l2)'
<1>0. p \in Threads
  BY DEF Threads
<1>1. PICK b \in Blocks : b = node[p]
  BY <1>0 DEF Publish, LInv, ListLocals, Control
<1>e. PICK e \in Entries : e = indexTail[p]
  BY DEF IndexFacts
<1>2. /\ OthersKept(p) /\ pc'[p] = "write" /\ listPc'[p] = "out"
      /\ (pc[p] = "publish" /\ listPc[p] = "out") \/ (pc[p] = "list" /\ listPc[p] = "got")
      /\ UNCHANGED <<freeListHead, freeListNext, refs, shouldBeOn, initialBlockPoolIndex>>
      /\ node'[p] = NoBlock
  BY <1>0 DEF Publish, LeaveCall, OthersKept, Goto, LInv, ListTypes, Control, freeListVars
<1>i. /\ index[p][e].value = NoBlock
      /\ \A q \in Producers, f \in Entries :
            index'[q][f].value = IF q = p /\ f = e THEN b ELSE index[q][f].value
  <2>1. SetsValue(index', index, p, e, b)
    BY <1>1, <1>e DEF Publish, SetsValue
  <2>2. pc[p] \in Publishing
    BY <1>2 DEF Publishing
  <2>3. index[p][e].value = NoBlock
    BY <1>e, <2>2 DEF IndexFacts
  <2> QED
    BY <2>1, <2>3, ValueSet, IndexIs
<1>3. pl[b] = InHand(p) /\ pl \in [Blocks -> Places]
  <2>1. InHands(p, b)
    BY <1>1, <1>2 DEF InHands, InCall
  <2> QED
    BY <1>0, <2>1 DEF FState, Placed
<1>4. /\ ~(b > initialBlockPoolIndex) /\ shouldBeOn[b] = FALSE
      /\ \A q \in Producers, f \in Entries : ~InIndex(q, f, b)
  BY <1>3, PlacesDistinct DEF FState, Placed, LInv, ListTypes
<1>5. \A u \in Threads : listPc[u] \in Linking => node[u] # b
  BY <1>3, NobodyLinks, PlacesDistinct
<1>6. ASSUME NEW x \in Blocks, x # b PROVE ~Concerns(p, x) /\ ~Concerns(p, x)' /\ SameBlock(x)
  <2>1. ~Concerns(p, x) /\ ~Concerns(p, x)'
    BY <1>1, <1>2, <1>6, BlocksAreNot DEF Concerns
  <2>2. \A q \in Producers, f \in Entries : InIndex(q, f, x)' <=> InIndex(q, f, x)
    BY <1>6, <1>i, BlocksAreNot DEF InIndex
  <2> QED
    BY <1>2, <2>1, <2>2 DEF SameBlock
<1>7. PICK pl2 : pl2 = [pl EXCEPT ![b] = InEntry(p, e)]
  OBVIOUS
<1>8. pl2[b] = InEntry(p, e) /\ \A x \in Blocks : x # b => pl2[x] = pl[x]
  BY <1>3, <1>7
<1>9. refs'[b] = Cardinality(Holders(b)') + ListsRef(pl2, b)'
  <2>1. Holders(b)' = Holders(b)
    BY <1>2 DEF Holders, Holding, OthersKept, Publish, LeaveCall
  <2>2. ListsRef(pl, b) = 0 /\ refs[b] = Cardinality(Holders(b)) + ListsRef(pl, b)
    <3>1. listPc[p] \notin Adding \cup {"taken"}
      BY <1>2 DEF Adding
    <3> QED
      BY <1>0, <1>3, <3>1, HoldersOfFlagged
  <2>3. ListsRef(pl2, b)' = 0
    BY <1>8, PlacesDistinct DEF ListsRef
  <2> QED
    BY <1>2, <2>1, <2>2, <2>3
<1>10. /\ b > initialBlockPoolIndex' <=> InEntry(p, e) = InPool
       /\ shouldBeOn'[b] <=> InEntry(p, e) = Flagged
       /\ \A q \in Producers, f \in Entries : InIndex(q, f, b)' <=> InEntry(p, e) = InEntry(q, f)
       /\ InHands(p, b)' <=> InEntry(p, e) = InHand(p)
  <2>1. \A q \in Producers, f \in Entries : InIndex(q, f, b)' <=> InEntry(p, e) = InEntry(q, f)
    BY <1>i, <1>4, PlacesDistinct DEF InIndex
  <2>2. ~InHands(p, b)'
    BY <1>2, BlocksAreNot DEF InHands, InCall
  <2>3. b > initialBlockPoolIndex' <=> InEntry(p, e) = InPool
    BY <1>2, <1>4, PlacesDistinct
  <2>4. shouldBeOn'[b] <=> InEntry(p, e) = Flagged
    BY <1>2, <1>4, PlacesDistinct
  <2> QED
    BY <2>1, <2>2, <2>3, <2>4, PlacesDistinct
<1>11. MovesTo(pl, pl2, p, b, InEntry(p, e))
  <2>1. \A u \in Threads : u # p => (pl[b] = InHand(u) <=> InEntry(p, e) = InHand(u))
    BY <1>0, <1>3, PlacesDistinct
  <2>2. InEntry(p, e) # Flagged /\ listPc'[p] \notin Linking
    BY <1>2, PlacesDistinct DEF Linking
  <2> QED
    BY <1>2, <1>5, <1>6, <1>7, <1>9, <1>10, <2>1, <2>2 DEF MovesTo
<1>12. Placed(pl2)' /\ Counted(pl2)' /\ Left(pl2)'
  <2>1. InEntry(p, e) \in Places
    BY PlacesDistinct
  <2> QED
    BY <1>0, <1>11, <2>1, StepOf
<1>13. Listed(pl2, n, l)'
  <2>1. \A x \in Blocks : pl2[x] = InList <=> pl[x] = InList
    BY <1>3, <1>8, PlacesDistinct
  <2> QED
    BY <1>2, <1>3, <2>1, ListedSame DEF FState
<1> QED
  BY <1>12, <1>13 DEF FState

LEMMA UnpublishKeeps ==
    ASSUME LInv, IndexFacts, NEW pl, NEW n, NEW l, FState(pl, n, l), NEW c \in Consumers, Unpublish(c)
    PROVE  \E pl2, n2, l2 : FState(pl2, n2, l2)'
<1>0. c \in Threads
  BY DEF Threads
<1>e. PICK p \in Producers, e \in Entries : p = producer[c] /\ e = entry[c]
  BY DEF IndexFacts, Unpublish
<1>1. PICK b \in Blocks : b = index[p][e].value
  BY <1>e DEF IndexFacts, Unpublish, BlockFor
<1>2. /\ OthersKept(c) /\ pc[c] = "unpublish" /\ pc'[c] = "add" /\ listPc[c] = "out" /\ listPc'[c] = "out"
      /\ UNCHANGED <<freeListHead, freeListNext, refs, shouldBeOn, initialBlockPoolIndex, listPc>>
      /\ node[c] = NoBlock /\ node'[c] = b
  BY <1>0, <1>1, <1>e DEF Unpublish, BlockFor, OthersKept, Goto, LInv, ListTypes, Control, freeListVars, blockVars
<1>i. \A q \in Producers, f \in Entries :
            index'[q][f].value = IF q = p /\ f = e THEN NoBlock ELSE index[q][f].value
  <2>1. SetsValue(index', index, p, e, NoBlock)
    BY <1>e DEF Unpublish, SetsValue
  <2> QED
    BY <2>1, ValueSet, IndexIs
<1>3. pl[b] = InEntry(p, e) /\ pl \in [Blocks -> Places]
  BY <1>1 DEF FState, Placed, InIndex
<1>4. /\ ~(b > initialBlockPoolIndex) /\ shouldBeOn[b] = FALSE
      /\ \A q \in Producers, f \in Entries : InIndex(q, f, b) => q = p /\ f = e
  BY <1>3, PlacesDistinct DEF FState, Placed, LInv, ListTypes
<1>5. \A u \in Threads : listPc[u] \in Linking => node[u] # b
  BY <1>3, NobodyLinks, PlacesDistinct
<1>6. ASSUME NEW x \in Blocks, x # b PROVE ~Concerns(c, x) /\ ~Concerns(c, x)' /\ SameBlock(x)
  <2>1. ~Concerns(c, x) /\ ~Concerns(c, x)'
    BY <1>1, <1>2, <1>6, BlocksAreNot DEF Concerns
  <2>2. \A q \in Producers, f \in Entries : InIndex(q, f, x)' <=> InIndex(q, f, x)
    BY <1>1, <1>6, <1>i, BlocksAreNot DEF InIndex
  <2> QED
    BY <1>2, <2>1, <2>2 DEF SameBlock
<1>7. PICK pl2 : pl2 = [pl EXCEPT ![b] = InHand(c)]
  OBVIOUS
<1>8. pl2[b] = InHand(c) /\ \A x \in Blocks : x # b => pl2[x] = pl[x]
  BY <1>3, <1>7
<1>9. refs'[b] = Cardinality(Holders(b)') + ListsRef(pl2, b)'
  <2>1. Holders(b)' = Holders(b)
    BY <1>2 DEF Holders, Holding, OthersKept
  <2>2. ListsRef(pl, b) = 0 /\ refs[b] = Cardinality(Holders(b)) + ListsRef(pl, b)
    BY <1>3, HoldersOfFlagged
  <2>3. ListsRef(pl2, b)' = 0
    BY <1>0, <1>2, <1>8, PlacesDistinct DEF ListsRef, Adding
  <2> QED
    BY <1>2, <2>1, <2>2, <2>3
<1>10. /\ b > initialBlockPoolIndex' <=> InHand(c) = InPool
       /\ shouldBeOn'[b] <=> InHand(c) = Flagged
       /\ \A q \in Producers, f \in Entries : InIndex(q, f, b)' <=> InHand(c) = InEntry(q, f)
       /\ InHands(c, b)' <=> InHand(c) = InHand(c)
  <2>1. \A q \in Producers, f \in Entries : ~InIndex(q, f, b)'
    BY <1>i, <1>4, BlocksAreNot DEF InIndex
  <2>2. InHands(c, b)'
    BY <1>2 DEF InHands
  <2>3. b > initialBlockPoolIndex' <=> InHand(c) = InPool
    BY <1>2, <1>4, PlacesDistinct
  <2>4. shouldBeOn'[b] <=> InHand(c) = Flagged
    BY <1>2, <1>4, PlacesDistinct
  <2> QED
    BY <2>1, <2>2, <2>3, <2>4, PlacesDistinct
<1>11. MovesTo(pl, pl2, c, b, InHand(c))
  <2>1. \A u \in Threads : u # c => (pl[b] = InHand(u) <=> InHand(c) = InHand(u))
    BY <1>0, <1>3, PlacesDistinct
  <2>2. InHand(c) # Flagged /\ listPc'[c] \notin Linking
    BY <1>2, PlacesDistinct DEF Linking
  <2> QED
    BY <1>2, <1>5, <1>6, <1>7, <1>9, <1>10, <2>1, <2>2 DEF MovesTo
<1>12. Placed(pl2)' /\ Counted(pl2)' /\ Left(pl2)'
  BY <1>0, <1>11, StepOf, PlacesDistinct
<1>13. Listed(pl2, n, l)'
  <2>1. \A x \in Blocks : pl2[x] = InList <=> pl[x] = InList
    BY <1>3, <1>8, PlacesDistinct
  <2> QED
    BY <1>2, <1>3, <2>1, ListedSame DEF FState
<1> QED
  BY <1>12, <1>13 DEF FState

LEMMA AddToFreeListKeeps ==
    ASSUME LInv, NEW pl, NEW n, NEW l, FState(pl, n, l), NEW c \in Consumers, AddToFreeList(c)
    PROVE  \E pl2, n2, l2 : FState(pl2, n2, l2)'
<1>0. c \in Threads
  BY DEF Threads
<1>1. PICK b \in Blocks : b = node[c]
  BY <1>0 DEF AddToFreeList, LInv, Control
<1>2. /\ OthersKept(c) /\ pc[c] = "add" /\ pc' = pc /\ listPc[c] = "out"
      /\ listPc'[c] = IF refs[b] = 0 THEN "link" ELSE "added"
      /\ UNCHANGED <<freeListHead, freeListNext, refs, initialBlockPoolIndex, index, node>>
  <2>1. node' = node
    BY <1>0, <1>1 DEF AddToFreeList, AddFlag, LInv, ListTypes
  <2> QED
    BY <1>0, <1>1, <2>1 DEF AddToFreeList, AddFlag, KnowingZero, OthersKept, LInv, ListTypes, blockVars, indexVars
<1>s. shouldBeOn'[b] = TRUE /\ \A x \in Blocks : x # b => shouldBeOn'[x] = shouldBeOn[x]
  BY <1>0, <1>1 DEF AddToFreeList, AddFlag, LInv, ListTypes
<1>3. pl[b] = InHand(c) /\ pl \in [Blocks -> Places]
  <2>1. InHands(c, b)
    BY <1>1, <1>2 DEF InHands
  <2> QED
    BY <1>0, <2>1 DEF FState, Placed
<1>4. ~(b > initialBlockPoolIndex) /\ \A q \in Producers, f \in Entries : ~InIndex(q, f, b)
  BY <1>3, PlacesDistinct DEF FState, Placed
<1>5. \A u \in Threads : listPc[u] \in Linking => node[u] # b
  BY <1>3, NobodyLinks, PlacesDistinct
<1>6. ASSUME NEW x \in Blocks, x # b PROVE ~Concerns(c, x) /\ ~Concerns(c, x)' /\ SameBlock(x)
  BY <1>1, <1>2, <1>6, <1>s DEF Concerns, SameBlock, InIndex
<1>7. PICK pl2 : pl2 = [pl EXCEPT ![b] = Flagged]
  OBVIOUS
<1>8. pl2[b] = Flagged /\ \A x \in Blocks : x # b => pl2[x] = pl[x]
  BY <1>3, <1>7
<1>h. /\ Holders(b)' = Holders(b) /\ c \notin Holders(b)
      /\ refs[b] = Cardinality(Holders(b)) /\ Cardinality(Holders(b)) \in Nat
  <2>1. Holders(b)' = Holders(b) /\ c \notin Holders(b)
    BY <1>2 DEF Holders, Holding, OthersKept
  <2>2. /\ Cardinality(Holders(b)) \in Nat /\ refs[b] = Cardinality(Holders(b)) + ListsRef(pl, b)
        /\ ListsRef(pl, b) = 0
    <3>1. listPc[c] \notin Adding \cup {"taken"}
      BY <1>2 DEF Adding
    <3> QED
      BY <1>0, <1>3, <3>1, HoldersOfFlagged
  <2> QED
    BY <2>1, <2>2
<1>9. refs'[b] = Cardinality(Holders(b)') + ListsRef(pl2, b)'
  <2>1. ListsRef(pl2, b)' = 0
    BY <1>8, PlacesDistinct DEF ListsRef
  <2>2. Cardinality(Holders(b)) + 0 = Cardinality(Holders(b))
    BY <1>h
  <2> QED
    BY <1>2, <1>h, <2>1, <2>2
<1>10. /\ b > initialBlockPoolIndex' <=> Flagged = InPool
       /\ shouldBeOn'[b] <=> Flagged = Flagged
       /\ \A q \in Producers, f \in Entries : InIndex(q, f, b)' <=> Flagged = InEntry(q, f)
       /\ InHands(c, b)' <=> Flagged = InHand(c)
  <2>1. \A q \in Producers, f \in Entries : ~InIndex(q, f, b)'
    BY <1>2, <1>4 DEF InIndex
  <2>2. ~InHands(c, b)'
    BY <1>2 DEF InHands, InCall
  <2>3. b > initialBlockPoolIndex' <=> Flagged = InPool
    BY <1>2, <1>4, PlacesDistinct
  <2>4. shouldBeOn'[b] <=> Flagged = Flagged
    BY <1>s
  <2> QED
    BY <2>1, <2>2, <2>3, <2>4, PlacesDistinct
<1>11. \E u \in Threads : LeftTo(u, b)'
  <2>1. CASE refs[b] = 0
    BY <1>0, <1>1, <1>2, <1>s, <2>1 DEF LeftTo
  <2>2. CASE refs[b] # 0
    <3>1. PICK u : u \in Holders(b)
      BY <1>h, <2>2, FS_EmptySet
    <3>2. u # c
      BY <1>h, <3>1
    <3>3. u \in Threads /\ node[u] = b /\ listPc[u] \in {"next", "take", "drop"}
      BY <1>0, <1>3, <3>1, <3>2, FlaggedHolders
    <3> QED
      BY <1>2, <1>s, <3>2, <3>3 DEF LeftTo, OthersKept
  <2> QED
    BY <2>1, <2>2
<1>12. MovesTo(pl, pl2, c, b, Flagged)
  <2>1. \A u \in Threads : u # c => (pl[b] = InHand(u) <=> Flagged = InHand(u))
    BY <1>0, <1>3, PlacesDistinct
  <2>2. listPc'[c] \in Linking => node'[c] = b /\ refs'[b] = 0
    BY <1>1, <1>2 DEF Linking
  <2> QED
    BY <1>2, <1>5, <1>6, <1>7, <1>9, <1>10, <1>11, <2>1, <2>2 DEF MovesTo
<1>13. Placed(pl2)' /\ Counted(pl2)' /\ Left(pl2)'
  BY <1>0, <1>12, StepOf, PlacesDistinct
<1>14. Listed(pl2, n, l)'
  <2>1. \A x \in Blocks : pl2[x] = InList <=> pl[x] = InList
    BY <1>3, <1>8, PlacesDistinct
  <2> QED
    BY <1>2, <1>3, <2>1, ListedSame DEF FState
<1> QED
  BY <1>13, <1>14 DEF FState

\* Only AddLink writes a link, and of a block that nobody else looks at.
LEMMA LinkOfOthers ==
    ASSUME LInv, NEW pl, NEW n, NEW l, FState(pl, n, l), NEW t \in Threads, NEW u \in Threads, u # t,
           listPc[t] \in Linking, listPc[u] \in {"take", "swap", "get swap"}
    PROVE  node[u] # node[t]
<1>1. PICK b \in Blocks : b = node[t]
  BY DEF LInv, ListLocals
<1>2. refs[b] = 0 /\ pl[b] = Flagged
  BY <1>1 DEF FState, Left
<1>3. CASE listPc[u] = "take"
  <2>1. node[u] = b => u \in Holders(b)
    BY <1>3 DEF Holders, Holding
  <2>2. Holders(b) = {}
    BY <1>2, HoldersOfFlagged
  <2> QED
    BY <1>1, <2>1, <2>2
<1>4. CASE listPc[u] \in {"swap", "get swap"}
  <2>1. listPc[u] \in Adding \cup {"taken", "got"}
    BY <1>4 DEF Adding
  <2>2. ASSUME node[u] = b PROVE FALSE
    <3>1. pl[b] = InHand(u)
      BY <2>1, <2>2, HandsOf
    <3> QED
      BY <1>2, <3>1, PlacesDistinct
  <2> QED
    BY <1>1, <2>2
<1> QED
  BY <1>3, <1>4

FrameOfQueue == UNCHANGED <<pc, index, initialBlockPoolIndex, registered>>

LEMMA ListStepTypes ==
    ASSUME LInv, NEW t \in Threads, ListStep(t)
    PROVE  ListTypes'
<1>0. ListTypes /\ NoBlock \notin Blocks
  BY BlocksAreNot DEF LInv
<1>n. listPc[t] \in Holding \cup Linking \cup Adding \cup {"got"} => node[t] \in Blocks
  BY DEF LInv, ListLocals
<1>h. listPc[t] = "ref" => head[t] \in Blocks
  BY DEF LInv, ListLocals
<1>p. listPc' \in [Threads -> ListLabels]
  <2>1. PICK label : listPc' = [listPc EXCEPT ![t] = label] /\ label \in ListLabels
    BY DEF ListStep, AddLink, AddSwap, AddUndo, GetLoad, GetNext, GetSwap, GetRef, GetTaken, GetDrop,
           Then, Added, Resumed, KnowingZero, ListLabels, Holding, Linking, Adding
  <2> QED
    BY <1>0, <2>1 DEF ListTypes
<1>r. refs' \in [Blocks -> Int]
  <2>0. CASE AddLink(t)
    <3>1. refs' = [refs EXCEPT ![node[t]] = 1]
      BY <2>0, Zenon DEF AddLink
    <3>2. node[t] \in Blocks
      BY <1>n, <2>0 DEF AddLink, Linking
    <3>3. refs \in [Blocks -> Int]
      BY <1>0 DEF ListTypes
    <3> QED
      BY <3>1, <3>2, <3>3
  <2>1. CASE AddSwap(t) \/ GetLoad(t) \/ GetNext(t) \/ GetSwap(t)
    <3>1. refs' = refs
      BY <2>1 DEF AddSwap, GetLoad, GetNext, GetSwap, freeListVars
    <3> QED
      BY <1>0, <3>1 DEF ListTypes
  <2>2. CASE AddUndo(t) \/ GetTaken(t) \/ GetDrop(t)
    <3>1. node[t] \in Blocks
      BY <1>n, <2>2 DEF AddUndo, GetTaken, GetDrop, Holding, Adding
    <3>2. PICK k \in {1, 2} : refs' = [refs EXCEPT ![node[t]] = @ - k]
      BY <2>2 DEF AddUndo, GetTaken, GetDrop
    <3> QED
      BY <1>0, <3>1, <3>2 DEF ListTypes
  <2>3. CASE GetRef(t)
    BY <1>0, <1>h, <2>3 DEF ListTypes, GetRef
  <2> QED
    BY <2>0, <2>1, <2>2, <2>3 DEF ListStep
<1>b. shouldBeOn' \in [Blocks -> BOOLEAN]
  BY <1>0 DEF ListTypes, ListStep, AddLink, AddSwap, AddUndo, GetLoad, GetNext, GetSwap, GetRef,
              GetTaken, GetDrop, freeListVars
<1>x. freeListHead' \in Blocks \cup {NoBlock} /\ expected' \in [Threads -> Blocks \cup {NoBlock}]
  <2>1. freeListHead' \in Blocks \cup {NoBlock}
    <3>1. CASE AddSwap(t)
      BY <1>0, <1>n, <3>1 DEF ListTypes, AddSwap, Adding
    <3>2. CASE GetSwap(t)
      BY <1>0, <3>2 DEF ListTypes, GetSwap
    <3>3. CASE ~AddSwap(t) /\ ~GetSwap(t)
      <4>1. freeListHead' = freeListHead
        BY <3>3 DEF ListStep, AddLink, AddUndo, GetLoad, GetNext, GetRef, GetTaken, GetDrop, freeListVars
      <4> QED
        BY <1>0, <4>1 DEF ListTypes
    <3> QED
      BY <3>1, <3>2, <3>3
  <2>2. expected' = expected \/ expected' = [expected EXCEPT ![t] = freeListHead]
    BY DEF ListStep, AddLink, AddSwap, AddUndo, GetLoad, GetNext, GetSwap, GetRef,
              GetTaken, GetDrop, KnowingZero
  <2> QED
    BY <1>0, <2>1, <2>2 DEF ListTypes
<1>l. freeListNext' \in [Blocks -> Blocks \cup {NoBlock}] /\ head' \in [Threads -> Blocks \cup {NoBlock}]
      /\ next' \in [Threads -> Blocks \cup {NoBlock}] /\ node' \in [Threads -> Blocks \cup {NoBlock}]
  <2>1. CASE AddLink(t)
    BY <1>0, <1>n, <2>1 DEF ListTypes, AddLink, Linking
  <2>2. CASE AddSwap(t) \/ AddUndo(t) \/ GetTaken(t) \/ GetDrop(t)
    BY <1>0, <2>2 DEF ListTypes, AddSwap, AddUndo, GetTaken, GetDrop
  <2>3. CASE GetLoad(t) \/ GetSwap(t) \/ GetRef(t)
    BY <1>0, <1>h, <2>3 DEF ListTypes, GetLoad, GetSwap, GetRef, freeListVars
  <2>4. CASE GetNext(t)
    BY <1>0, <1>n, <2>4 DEF ListTypes, GetNext, Holding, freeListVars
  <2> QED
    BY <2>1, <2>2, <2>3, <2>4 DEF ListStep
<1> QED
  BY <1>p, <1>r, <1>b, <1>x, <1>l DEF ListTypes

LEMMA ListStepLocals ==
    ASSUME LInv, NEW pl, NEW n, NEW l, FState(pl, n, l), NEW t \in Threads, ListStep(t), FrameOfQueue
    PROVE  ListLocals'
<1>0. ListTypes /\ NoBlock \notin Blocks
  BY BlocksAreNot DEF LInv
<1>1. ASSUME NEW u \in Threads, u # t
      PROVE  /\ listPc'[u] = listPc[u] /\ node'[u] = node[u] /\ head'[u] = head[u] /\ next'[u] = next[u]
             /\ expected'[u] = expected[u]
  BY <1>0, <1>1 DEF ListTypes, ListStep, AddLink, AddSwap, AddUndo, GetLoad, GetNext, GetSwap, GetRef,
                    GetTaken, GetDrop, KnowingZero
<1>3. ASSUME NEW u \in Threads
      PROVE  /\ listPc[u] \in Holding \cup Linking \cup Adding \cup {"got"} => node[u] \in Blocks
             /\ listPc[u] = "ref" => head[u] \in Blocks
             /\ listPc[u] \in {"next", "take", "taken"} => head[u] = node[u]
             /\ listPc[u] = "take" => next[u] = freeListNext[node[u]]
             /\ listPc[u] \in {"swap", "get swap"} => expected[u] = freeListNext[node[u]]
  BY DEF LInv, ListLocals
<1>2. ASSUME NEW u \in Threads, u # t, listPc[u] \in {"take", "swap", "get swap"}
      PROVE  freeListNext'[node[u]] = freeListNext[node[u]]
  <2>1. CASE AddLink(t)
    <3>1. listPc[t] \in Linking
      BY <2>1 DEF AddLink, Linking
    <3>2. node[u] # node[t]
      BY <1>2, <3>1, LinkOfOthers
    <3>3. node[u] \in Blocks
      BY <1>2, <1>3 DEF Holding, Adding
    <3> QED
      BY <1>0, <2>1, <3>2, <3>3 DEF ListTypes, AddLink
  <2>2. CASE ~AddLink(t)
    BY <2>2 DEF ListStep, AddSwap, AddUndo, GetLoad, GetNext, GetSwap, GetRef, GetTaken, GetDrop, freeListVars
  <2> QED
    BY <2>1, <2>2
<1>4. ASSUME NEW u \in Threads, u # t
      PROVE  /\ listPc'[u] \in Holding \cup Linking \cup Adding \cup {"got"} => node'[u] \in Blocks
             /\ listPc'[u] = "ref" => head'[u] \in Blocks
             /\ listPc'[u] \in {"next", "take", "taken"} => head'[u] = node'[u]
             /\ listPc'[u] = "take" => next'[u] = freeListNext'[node'[u]]
             /\ listPc'[u] \in {"swap", "get swap"} => expected'[u] = freeListNext'[node'[u]]
  <2>1. /\ listPc'[u] = listPc[u] /\ node'[u] = node[u] /\ head'[u] = head[u] /\ next'[u] = next[u]
        /\ expected'[u] = expected[u]
    BY <1>1, <1>4
  <2>2. listPc[u] \in {"take", "swap", "get swap"} => freeListNext'[node'[u]] = freeListNext[node[u]]
    <3>1. PICK x : x = node[u] /\ x = node'[u]
      BY <2>1
    <3>2. listPc[u] \in {"take", "swap", "get swap"} => freeListNext'[node[u]] = freeListNext[node[u]]
      BY <1>2, <1>4
    <3> QED
      BY <3>1, <3>2, Zenon
  <2> QED
    BY <1>3, <2>1, <2>2
<1>5. /\ listPc'[t] \in Holding \cup Linking \cup Adding \cup {"got"} => node'[t] \in Blocks
      /\ listPc'[t] = "ref" => head'[t] \in Blocks
      /\ listPc'[t] \in {"next", "take", "taken"} => head'[t] = node'[t]
      /\ listPc'[t] = "take" => next'[t] = freeListNext'[node'[t]]
      /\ listPc'[t] \in {"swap", "get swap"} => expected'[t] = freeListNext'[node'[t]]
  <2> USE <1>0, <1>3 DEF ListTypes, Holding, Linking, Adding
  <2>1. CASE AddLink(t)
    BY <2>1 DEF AddLink, Then
  <2>2. CASE AddSwap(t)
    BY <2>2 DEF AddSwap, Then, Added, Resumed, KnowingZero
  <2>3. CASE AddUndo(t)
    BY <2>3 DEF AddUndo, Then, Added, Resumed
  <2>4. CASE GetLoad(t)
    BY <2>4 DEF GetLoad
  <2>5. CASE GetNext(t)
    BY <2>5 DEF GetNext, freeListVars
  <2>6. CASE GetSwap(t)
    BY <2>6 DEF GetSwap
  <2>7. CASE GetRef(t)
    BY <2>7 DEF GetRef
  <2>8. CASE GetTaken(t)
    BY <2>8 DEF GetTaken
  <2>9. CASE GetDrop(t)
    BY <2>9 DEF GetDrop, KnowingZero, Resumed
  <2> QED
    BY <2>1, <2>2, <2>3, <2>4, <2>5, <2>6, <2>7, <2>8, <2>9 DEF ListStep
<1> QED
  BY <1>4, <1>5 DEF ListLocals

LEMMA ListStepControl ==
    ASSUME LInv, NEW t \in Threads, ListStep(t), FrameOfQueue
    PROVE  Control'
<1>1. ASSUME NEW u \in Threads, u # t PROVE listPc'[u] = listPc[u] /\ node'[u] = node[u]
  BY <1>1 DEF LInv, ListTypes, ListStep, AddLink, AddSwap, AddUndo, GetLoad, GetNext, GetSwap, GetRef,
              GetTaken, GetDrop, KnowingZero
<1>2. \/ /\ pc[t] = "list" /\ listPc[t] \in ProducerList /\ listPc'[t] \in ProducerList
      \/ /\ pc[t] = "add" /\ listPc[t] \in ConsumerList /\ listPc'[t] \in ConsumerList
         /\ node'[t] = node[t]
  <2>1. listPc[t] # "out"
    BY DEF ListStep, AddLink, AddSwap, AddUndo, GetLoad, GetNext, GetSwap, GetRef, GetTaken, GetDrop
  <2>2. PICK a : a = listPc[t]
    OBVIOUS
  <2>3. (pc[t] = "list" /\ a \in ProducerList) \/ (pc[t] = "add" /\ a \in ConsumerList)
    BY <2>1, <2>2, ThreadInList
  <2>4. PICK z : z = listPc'[t] /\ listPc' = [listPc EXCEPT ![t] = z]
    BY DEF LInv, ListTypes, ListStep, AddLink, AddSwap, AddUndo, GetLoad, GetNext, GetSwap, GetRef,
           GetTaken, GetDrop, KnowingZero
  <2>5. a \in ProducerList => z \in ProducerList
    BY <2>2, <2>4 DEF LInv, ListTypes, ListStep, AddLink, AddSwap, AddUndo, GetLoad, GetNext, GetSwap, GetRef,
           GetTaken, GetDrop, KnowingZero, Then, Added, Resumed, ProducerList
  <2>6. a \in ConsumerList => z \in ConsumerList /\ node' = node
    BY <2>2, <2>4 DEF LInv, ListTypes, ListStep, AddLink, AddSwap, AddUndo, GetLoad, GetNext, GetSwap, GetRef,
           GetTaken, GetDrop, KnowingZero, Then, Added, Resumed, ConsumerList
  <2> QED
    BY <2>2, <2>3, <2>4, <2>5, <2>6
<1>3. \A p \in Producers : p \in Threads /\ p \notin Consumers
  BY QueueAssumption DEF Threads
<1>4. \A c \in Consumers : c \in Threads
  BY DEF Threads
<1>5. Control
  BY DEF LInv
<1>6. UNCHANGED <<pc, registered, initialBlockPoolIndex>>
  BY DEF FrameOfQueue
<1>7. ASSUME NEW p \in Producers
      PROVE  /\ pc'[p] \in ProducerLabels
             /\ listPc'[p] \in {"out"} \cup (IF pc'[p] = "list" THEN ProducerList ELSE {})
             /\ listPc'[p] = "out" /\ pc'[p] # "publish" => node'[p] = NoBlock
             /\ pc'[p] = "publish" => node'[p] \in Blocks
             /\ pc'[p] # "out" => p \in registered'
  <2>1. CASE p = t
    BY <1>2, <1>5, <1>6, <2>1 DEF Control, ProducerList, ProducerLabels
  <2>2. CASE p # t
    BY <1>1, <1>3, <1>5, <1>6, <2>2 DEF Control
  <2> QED
    BY <2>1, <2>2
<1>8. ASSUME NEW c \in Consumers
      PROVE  /\ pc'[c] \in ConsumerLabels
             /\ listPc'[c] \in {"out"} \cup (IF pc'[c] = "add" THEN ConsumerList ELSE {})
             /\ pc'[c] # "add" => node'[c] = NoBlock
             /\ pc'[c] = "add" => node'[c] \in Blocks
  <2>1. CASE c = t
    BY <1>2, <1>5, <1>6, <2>1 DEF Control, ConsumerList, ConsumerLabels
  <2>2. CASE c # t
    BY <1>1, <1>4, <1>5, <1>6, <2>2 DEF Control
  <2> QED
    BY <2>1, <2>2
<1> QED
  BY <1>5, <1>6, <1>7, <1>8 DEF Control

\* What the locals of a thread in the free list must be, in a thread's step.
LocalsAfter(t) ==
    /\ listPc'[t] \in Holding \cup Linking \cup Adding \cup {"got"} => node'[t] \in Blocks
    /\ listPc'[t] \notin {"ref", "next", "take", "taken", "swap", "get swap"}

ListFrame(t) ==
    /\ freeListHead' = freeListHead /\ freeListNext' = freeListNext
    /\ \A u \in Threads : u # t => /\ listPc'[u] = listPc[u] /\ node'[u] = node[u] /\ head'[u] = head[u]
                                   /\ next'[u] = next[u] /\ expected'[u] = expected[u]

LEMMA LocalsKept ==
    ASSUME LInv, NEW t \in Threads, ListFrame(t), LocalsAfter(t)
    PROVE  ListLocals'
<1>1. ASSUME NEW u \in Threads, u # t
      PROVE  /\ listPc'[u] \in Holding \cup Linking \cup Adding \cup {"got"} => node'[u] \in Blocks
             /\ listPc'[u] = "ref" => head'[u] \in Blocks
             /\ listPc'[u] \in {"next", "take", "taken"} => head'[u] = node'[u]
             /\ listPc'[u] = "take" => next'[u] = freeListNext'[node'[u]]
             /\ listPc'[u] \in {"swap", "get swap"} => expected'[u] = freeListNext'[node'[u]]
  BY <1>1 DEF LInv, ListLocals, ListFrame
<1> QED
  BY <1>1 DEF ListLocals, LocalsAfter

ControlOf(p) ==
    /\ pc[p] \in ProducerLabels
    /\ listPc[p] \in {"out"} \cup (IF pc[p] = "list" THEN ProducerList ELSE {})
    /\ listPc[p] = "out" /\ pc[p] # "publish" => node[p] = NoBlock
    /\ pc[p] = "publish" => node[p] \in Blocks
    /\ pc[p] # "out" => p \in registered
ControlOfConsumer(c) ==
    /\ pc[c] \in ConsumerLabels
    /\ listPc[c] \in {"out"} \cup (IF pc[c] = "add" THEN ConsumerList ELSE {})
    /\ pc[c] # "add" => node[c] = NoBlock
    /\ pc[c] = "add" => node[c] \in Blocks

LEMMA ControlKept ==
    ASSUME LInv, NEW t \in Threads, OthersKept(t), registered \subseteq registered',
           initialBlockPoolIndex' \in Nat, pc' \in [Threads -> ProducerLabels \cup ConsumerLabels],
           t \in Producers => ControlOf(t)', t \in Consumers => ControlOfConsumer(t)'
    PROVE  Control'
<1>1. ASSUME NEW p \in Producers PROVE ControlOf(p)'
  <2>1. p # t => pc'[p] = pc[p] /\ listPc'[p] = listPc[p] /\ node'[p] = node[p]
    BY DEF OthersKept, Threads
  <2>2. ControlOf(p)
    BY DEF LInv, Control, ControlOf
  <2> QED
    BY <2>1, <2>2 DEF ControlOf
<1>2. ASSUME NEW c \in Consumers PROVE ControlOfConsumer(c)'
  <2>1. c # t => pc'[c] = pc[c] /\ listPc'[c] = listPc[c] /\ node'[c] = node[c]
    BY DEF OthersKept, Threads
  <2>2. ControlOfConsumer(c)
    BY DEF LInv, Control, ControlOfConsumer
  <2> QED
    BY <2>1, <2>2 DEF ControlOfConsumer
<1> QED
  BY <1>1, <1>2 DEF Control, ControlOf, ControlOfConsumer

\* The steps that leave the list and its calls alone.
LEMMA NoListStepLInv ==
    ASSUME LInv, NEW t \in Threads, UNCHANGED listVars,
           NEW label \in ProducerLabels \cup ConsumerLabels, pc' = [pc EXCEPT ![t] = label],
           registered \subseteq registered', initialBlockPoolIndex' = initialBlockPoolIndex,
           t \in Producers => /\ label \in ProducerLabels \ {"publish"} /\ listPc[t] = "out" /\ pc[t] # "publish"
                              /\ t \in registered',
           t \in Consumers => label \in ConsumerLabels \ {"add"} /\ pc[t] # "add"
    PROVE  LInv'
<1>0. UNCHANGED <<freeListHead, freeListNext, refs, shouldBeOn, listPc, head, next, expected, node>>
  BY DEF listVars, freeListVars, callVars
<1>1. ListTypes'
  BY <1>0 DEF LInv, ListTypes
<1>2. ListLocals'
  BY <1>0 DEF LInv, ListLocals
<1>3. pc'[t] = label /\ pc' \in [Threads -> ProducerLabels \cup ConsumerLabels] /\ OthersKept(t)
  BY <1>0 DEF LInv, Control, OthersKept
<1>4. t \in Producers => ControlOf(t)'
  BY <1>0, <1>3 DEF LInv, Control, ControlOf
<1>5. t \in Consumers => ControlOfConsumer(t)'
  BY <1>0, <1>3 DEF LInv, Control, ControlOfConsumer
<1>6. Control'
  BY <1>3, <1>4, <1>5, ControlKept DEF LInv, Control
<1> QED
  BY <1>1, <1>2, <1>6 DEF LInv

LEMMA EnqueueLInv ==
    ASSUME LInv, NEW p \in Producers,
           Register(p) \/ BeginEnqueue(p) \/ InsertEntry(p) \/ LookInPool(p) \/ Write(p) \/ StoreTail(p)
    PROVE  LInv'
<1>0. p \in Threads /\ p \notin Consumers
  BY QueueAssumption DEF Threads
<1>1. PICK label \in ProducerLabels \ {"publish"} : pc' = [pc EXCEPT ![p] = label]
  <2>1. CASE Register(p)
    <3>1. pc' = pc /\ pc[p] = "out" /\ pc = [pc EXCEPT ![p] = "out"]
      BY <1>0, <2>1 DEF Register, LInv, Control
    <3> QED
      BY <3>1 DEF ProducerLabels
  <2>2. CASE ~Register(p)
    BY <2>2 DEF BeginEnqueue, InsertEntry, LookInPool, Write, StoreTail, Goto, ProducerLabels
  <2> QED
    BY <2>1, <2>2
<1>2. listPc[p] = "out" /\ pc[p] # "publish"
  BY DEF LInv, Control, Register, BeginEnqueue, InsertEntry, LookInPool, Write, StoreTail
<1>3. /\ UNCHANGED listVars /\ registered \subseteq registered' /\ p \in registered'
      /\ initialBlockPoolIndex' = initialBlockPoolIndex
  BY DEF LInv, Control, Register, BeginEnqueue, InsertEntry, LookInPool, Write, StoreTail, blockVars, producerVars
<1> QED
  BY <1>0, <1>1, <1>2, <1>3, NoListStepLInv

LEMMA DequeueLInv ==
    ASSUME LInv, NEW c \in Consumers,
           \/ Choose(c) \/ Check(c) \/ Count(c) \/ Test(c) \/ TakeIndex(c) \/ LoadIndexTail(c)
           \/ FindEntry(c) \/ Read(c) \/ SetEmpty(c)
    PROVE  LInv'
<1>0. c \in Threads /\ c \notin Producers
  BY QueueAssumption DEF Threads
<1>1. PICK label \in ConsumerLabels \ {"add"} : pc' = [pc EXCEPT ![c] = label]
  BY DEF Choose, Check, Count, Test, TakeIndex, LoadIndexTail, FindEntry, Read, SetEmpty, TryAnother, Return,
         Goto, ConsumerLabels
<1>2. pc[c] # "add"
  BY DEF Choose, Check, Count, Test, TakeIndex, LoadIndexTail, FindEntry, Read, SetEmpty
<1>3. /\ UNCHANGED listVars /\ registered' = registered /\ initialBlockPoolIndex' = initialBlockPoolIndex
  BY DEF Choose, Check, Count, Test, TakeIndex, LoadIndexTail, FindEntry, Read, SetEmpty, blockVars, producerVars
<1> QED
  BY <1>0, <1>1, <1>2, <1>3, NoListStepLInv

LEMMA TakeFromPoolLInv ==
    ASSUME LInv, NEW p \in Producers, TakeFromPool(p)
    PROVE  LInv'
<1>0. p \in Threads /\ p \notin Consumers
  BY QueueAssumption DEF Threads
<1>1. /\ UNCHANGED <<freeListHead, freeListNext, refs, shouldBeOn, listPc, head, next, expected, registered>>
      /\ pc[p] = "take" /\ listPc[p] = "out" /\ node[p] = NoBlock /\ p \in registered
      /\ initialBlockPoolIndex \in Nat /\ initialBlockPoolIndex' \in Nat
  BY DEF LInv, Control, TakeFromPool, freeListVars, producerVars
<1>2. PICK label \in {"publish", "list"}, b \in Blocks \cup {NoBlock} :
         /\ pc' = [pc EXCEPT ![p] = label] /\ node' = [node EXCEPT ![p] = b]
         /\ label = "publish" => b \in Blocks
         /\ label = "list" => b = NoBlock
  <2>1. CASE initialBlockPoolIndex < PoolSize
    <3>1. PICK b : b = initialBlockPoolIndex + 1
      OBVIOUS
    <3>2. b \in Blocks
      BY <1>1, <2>1, <3>1, PoolAssumption DEF Blocks
    <3>3. pc' = [pc EXCEPT ![p] = "publish"] /\ node' = [node EXCEPT ![p] = b]
      BY <2>1, <3>1 DEF TakeFromPool, Goto
    <3> QED
      BY <3>2, <3>3
  <2>2. CASE ~(initialBlockPoolIndex < PoolSize)
    <3>1. pc' = [pc EXCEPT ![p] = "list"] /\ node' = node
      BY <2>2 DEF TakeFromPool, Goto
    <3>2. node = [node EXCEPT ![p] = NoBlock]
      BY <1>0, <1>1 DEF LInv, ListTypes
    <3> QED
      BY <3>1, <3>2
  <2> QED
    BY <2>1, <2>2
<1>3. ListTypes'
  BY <1>1, <1>2 DEF LInv, ListTypes
<1>4. ListLocals'
  <2>1. ListFrame(p)
    BY <1>0, <1>1, <1>2 DEF LInv, ListTypes, ListFrame
  <2>2. LocalsAfter(p)
    BY <1>1 DEF LocalsAfter, Holding, Linking, Adding
  <2> QED
    BY <1>0, <2>1, <2>2, LocalsKept
<1>5. Control'
  <2>1. OthersKept(p) /\ pc' \in [Threads -> ProducerLabels \cup ConsumerLabels] /\ pc'[p] = label
        /\ node'[p] = b
    BY <1>0, <1>1, <1>2 DEF LInv, ListTypes, Control, OthersKept, ProducerLabels
  <2>2. ControlOf(p)'
    BY <1>0, <1>1, <1>2, <2>1 DEF ControlOf, ProducerLabels
  <2> QED
    BY <1>0, <1>1, <2>1, <2>2, ControlKept
<1> QED
  BY <1>3, <1>4, <1>5 DEF LInv

LEMMA LeaveTypes ==
    ASSUME LInv, NEW t \in Threads, LeaveCall(t)
    PROVE  /\ ListTypes' /\ ListLocals' /\ listPc'[t] = "out" /\ node'[t] = NoBlock
           /\ \A u \in Threads : u # t => listPc'[u] = listPc[u] /\ node'[u] = node[u]
<1>1. ListTypes'
  BY DEF LInv, ListTypes, LeaveCall, freeListVars, ListLabels
<1>2. listPc'[t] = "out" /\ node'[t] = NoBlock
  BY DEF LInv, ListTypes, LeaveCall
<1>3. ListFrame(t)
  BY DEF LInv, ListTypes, LeaveCall, freeListVars, ListFrame
<1>4. LocalsAfter(t)
  BY <1>2 DEF LocalsAfter, Holding, Linking, Adding
<1>5. ListLocals'
  BY <1>3, <1>4, LocalsKept
<1> QED
  BY <1>1, <1>2, <1>3, <1>5 DEF ListFrame

LEMMA LeaveLInv ==
    ASSUME LInv, NEW t \in Threads, LeaveCall(t), UNCHANGED <<registered, initialBlockPoolIndex>>,
           NEW label, pc' = [pc EXCEPT ![t] = label],
           t \in Producers => label \in {"out", "write"} /\ pc[t] # "out",
           t \in Consumers => label = "out"
    PROVE  LInv'
<1>1. /\ ListTypes' /\ ListLocals' /\ listPc'[t] = "out" /\ node'[t] = NoBlock
      /\ \A u \in Threads : u # t => listPc'[u] = listPc[u] /\ node'[u] = node[u]
  BY LeaveTypes
<1>2. label \in ProducerLabels \cup ConsumerLabels
  BY DEF ProducerLabels, ConsumerLabels, Threads
<1>3. OthersKept(t) /\ pc' \in [Threads -> ProducerLabels \cup ConsumerLabels] /\ pc'[t] = label
  BY <1>1, <1>2 DEF LInv, Control, OthersKept
<1>4. t \in Producers => ControlOf(t)'
  BY <1>1, <1>3 DEF ControlOf, ProducerLabels, LInv, Control
<1>5. t \in Consumers => ControlOfConsumer(t)'
  BY <1>1, <1>3 DEF ControlOfConsumer, ConsumerLabels
<1>6. Control'
  BY <1>3, <1>4, <1>5, ControlKept DEF LInv, Control
<1> QED
  BY <1>1, <1>6 DEF LInv

LEMMA CallLInv ==
    ASSUME LInv, NEW t \in Threads,
           \/ t \in Producers /\ (NoRoom(t) \/ Publish(t))
           \/ t \in Consumers /\ EndDequeue(t)
    PROVE  LInv'
<1>1. CASE t \in Producers /\ (NoRoom(t) \/ Publish(t))
  <2>1. t \notin Consumers /\ LeaveCall(t) /\ pc[t] # "out" /\ UNCHANGED <<registered, initialBlockPoolIndex>>
    BY <1>1, QueueAssumption DEF NoRoom, Publish, blockVars, producerVars
  <2>2. PICK label \in {"out", "write"} : pc' = [pc EXCEPT ![t] = label]
    BY <1>1 DEF NoRoom, Publish, Goto
  <2> QED
    BY <2>1, <2>2, LeaveLInv
<1>2. CASE t \in Consumers /\ EndDequeue(t)
  <2>1. t \notin Producers /\ LeaveCall(t) /\ UNCHANGED <<registered, initialBlockPoolIndex>>
    BY <1>2, QueueAssumption DEF EndDequeue, blockVars, producerVars
  <2>2. pc' = [pc EXCEPT ![t] = "out"]
    BY <1>2 DEF EndDequeue, Return, Goto
  <2> QED
    BY <2>1, <2>2, LeaveLInv
<1> QED
  BY <1>1, <1>2

LEMMA BeginGetLInv ==
    ASSUME LInv, NEW p \in Producers, BeginGet(p)
    PROVE  LInv'
<1>0. p \in Threads /\ p \notin Consumers
  BY QueueAssumption DEF Threads
<1>1. /\ UNCHANGED <<freeListHead, freeListNext, refs, shouldBeOn, head, next, expected, node, pc, registered,
                     initialBlockPoolIndex>>
      /\ pc[p] = "list" /\ listPc' = [listPc EXCEPT ![p] = "load"] /\ p \in registered
  BY DEF BeginGet, EnterGet, freeListVars, blockVars, producerVars, LInv, Control
<1>2. ListTypes'
  BY <1>1 DEF LInv, ListTypes, ListLabels
<1>3. ListFrame(p) /\ LocalsAfter(p) /\ listPc'[p] = "load"
  <2>1. listPc'[p] = "load"
    BY <1>0, <1>1 DEF LInv, ListTypes
  <2> QED
    BY <1>0, <1>1, <2>1 DEF LInv, ListTypes, ListFrame, LocalsAfter, Holding, Linking, Adding
<1>4. ListLocals'
  BY <1>0, <1>3, LocalsKept
<1>5. OthersKept(p) /\ ControlOf(p)'
  <2>1. OthersKept(p)
    BY <1>1, <1>3 DEF OthersKept, ListFrame
  <2>2. pc'[p] = "list" /\ listPc'[p] = "load" /\ p \in registered'
    BY <1>1, <1>3
  <2>3. ControlOf(p)'
    BY <2>2 DEF ControlOf, ProducerLabels, ProducerList
  <2> QED
    BY <2>1, <2>3
<1>6. Control'
  BY <1>0, <1>1, <1>5, ControlKept DEF LInv, Control
<1> QED
  BY <1>2, <1>4, <1>6 DEF LInv

LEMMA UnpublishLInv ==
    ASSUME LInv, IndexFacts, NEW c \in Consumers, Unpublish(c)
    PROVE  LInv'
<1>0. c \in Threads /\ c \notin Producers
  BY QueueAssumption DEF Threads
<1>1. /\ UNCHANGED <<freeListHead, freeListNext, refs, shouldBeOn, head, next, expected, listPc, registered,
                     initialBlockPoolIndex>>
      /\ pc[c] = "unpublish" /\ pc' = [pc EXCEPT ![c] = "add"] /\ listPc[c] = "out"
  BY <1>0 DEF Unpublish, Goto, freeListVars, blockVars, producerVars, LInv, Control
<1>2. PICK b \in Blocks : node' = [node EXCEPT ![c] = b]
  BY DEF Unpublish, IndexFacts
<1>3. ListTypes' /\ node'[c] = b
  BY <1>0, <1>1, <1>2 DEF LInv, ListTypes
<1>4. ListFrame(c) /\ LocalsAfter(c)
  BY <1>0, <1>1, <1>2 DEF LInv, ListTypes, ListFrame, LocalsAfter, Holding, Linking, Adding
<1>5. ListLocals'
  BY <1>0, <1>4, LocalsKept
<1>6. OthersKept(c) /\ pc'[c] = "add" /\ pc' \in [Threads -> ProducerLabels \cup ConsumerLabels]
  BY <1>0, <1>1, <1>4 DEF OthersKept, ListFrame, LInv, Control, ConsumerLabels
<1>7. ControlOfConsumer(c)'
  BY <1>1, <1>3, <1>6 DEF ControlOfConsumer, ConsumerLabels
<1>8. Control'
  BY <1>0, <1>1, <1>6, <1>7, ControlKept DEF LInv, Control
<1> QED
  BY <1>3, <1>5, <1>8 DEF LInv

LEMMA AddToFreeListLInv ==
    ASSUME LInv, NEW c \in Consumers, AddToFreeList(c)
    PROVE  LInv'
<1>0. c \in Threads /\ c \notin Producers
  BY QueueAssumption DEF Threads
<1>1. /\ UNCHANGED <<freeListHead, freeListNext, refs, head, next, registered, initialBlockPoolIndex, pc>>
      /\ pc[c] = "add" /\ node[c] \in Blocks /\ node' = node
  BY <1>0 DEF AddToFreeList, AddFlag, blockVars, producerVars, LInv, ListTypes, Control
<1>2. PICK label \in {"link", "added"} : listPc' = [listPc EXCEPT ![c] = label]
  BY DEF AddToFreeList, AddFlag, KnowingZero
<1>3. PICK x \in Blocks \cup {NoBlock} : expected' = [expected EXCEPT ![c] = x]
  <2>1. expected = [expected EXCEPT ![c] = expected[c]] /\ expected[c] \in Blocks \cup {NoBlock}
    BY <1>0 DEF LInv, ListTypes
  <2>2. freeListHead \in Blocks \cup {NoBlock}
    BY DEF LInv, ListTypes
  <2> QED
    BY <2>1, <2>2 DEF AddToFreeList, AddFlag, KnowingZero
<1>4. shouldBeOn' = [shouldBeOn EXCEPT ![node[c]] = TRUE]
  BY DEF AddToFreeList, AddFlag
<1>5. ListTypes' /\ listPc'[c] = label
  <2>1. shouldBeOn' \in [Blocks -> BOOLEAN]
    BY <1>4 DEF LInv, ListTypes
  <2>2. listPc' \in [Threads -> ListLabels] /\ listPc'[c] = label
    BY <1>0, <1>2 DEF LInv, ListTypes, ListLabels, Linking
  <2> QED
    BY <1>1, <1>3, <2>1, <2>2 DEF LInv, ListTypes
<1>6. ListFrame(c) /\ LocalsAfter(c)
  BY <1>0, <1>1, <1>2, <1>3, <1>5 DEF LInv, ListTypes, ListFrame, LocalsAfter
<1>7. ListLocals'
  BY <1>0, <1>6, LocalsKept
<1>8. OthersKept(c) /\ ControlOfConsumer(c)'
  BY <1>1, <1>5, <1>6 DEF OthersKept, ListFrame, ControlOfConsumer, ConsumerLabels, ConsumerList
<1>9. Control'
  BY <1>0, <1>1, <1>8, ControlKept DEF LInv, Control
<1> QED
  BY <1>5, <1>7, <1>9 DEF LInv

-----------------------------------------------------------------------------
(* The inductive invariant: the blocks of a producer *)

\* The blocks of a producer are numbered; number q has its entry at slot q of the index.
Number(i) == i \div BlockSize
Slot(q)   == q % IndexCapacity

Writing == {"write", "tail"}
\* The newest block of a producer at tail index t.
LastOf(label, t) == IF label \in Writing THEN Number(t) ELSE Number(t - 1)

\* The entries in use of the index ix are those of the blocks from item f to block m.
Slots(f, m, ix) ==
    /\ ix \in [Entries -> [key : Int, value : Blocks \cup {NoBlock}]]
    /\ \A e \in Entries :
          /\ \/ ix[e].key = -1
             \/ ix[e].key \in Nat /\ Offset(ix[e].key) = 0 /\ Slot(Number(ix[e].key)) = e
          /\ ix[e].value # NoBlock => ix[e].key # -1 /\ Number(ix[e].key) \in Number(f) .. m
    /\ \A q \in Number(f) .. m :
          ix[Slot(q)].value # NoBlock /\ ix[Slot(q)].key # -1 /\ Number(ix[Slot(q)].key) = q

\* The tail of the index is at the newest block, or at the one about to be published.
TailAt(label, t, ix, it) ==
    /\ LastOf(label, t) >= 0 => ix[Slot(LastOf(label, t))].key # -1
    /\ label \in Publishing \cup {"insert"} => Offset(t) = 0
    /\ IF label \in Publishing
       THEN it = Slot(Number(t)) /\ ix[it].key = t /\ ix[it].value = NoBlock
       ELSE it = Slot(LastOf(label, t))

\* The items from f to the tail are in their cells.
Filled(p, label, f, t, ix, cl) ==
    \A i \in f .. t : i < t \/ label = "tail" => cl[ix[Slot(Number(i))].value][Offset(i)] = <<p, i>>

TailKnown(label, t, ix, tb) ==
    label \in Writing \/ (label = "out" /\ Offset(t) # 0) => tb = ix[Slot(Number(t))].value

\* The block of item f counts the items taken from it; all is taken if it is to be unpublished.
Drained(f, m, ix, dq, all) ==
    /\ all => Offset(f) = BlockSize - 1
    /\ \A q \in Number(f) .. m :
          dq[ix[Slot(q)].value] = IF q # Number(f) THEN 0 ELSE IF all THEN BlockSize ELSE Offset(f)

Ring(p, label, f, t, ix, it, tb, cl, dq, all) ==
    /\ t \in Nat /\ f \in Nat /\ f <= t /\ (all => f < t)
    /\ Slots(f, LastOf(label, t), ix)
    /\ TailAt(label, t, ix, it)
    /\ Filled(p, label, f, t, ix, cl)
    /\ TailKnown(label, t, ix, tb)
    /\ Drained(f, LastOf(label, t), ix, dq, all)

-----------------------------------------------------------------------------
(* Numbers *)

LEMMA DivUnique ==
    ASSUME NEW q \in Int, NEW r \in Int, NEW m \in Nat \ {0}, 0 <= r, r < m, NEW x \in Int, x = q * m + r
    PROVE  x \div m = q /\ x % m = r
OBVIOUS

LEMMA Parts ==
    ASSUME NEW x \in Int, NEW m \in Nat \ {0}
    PROVE  \E q \in Int, r \in 0 .. m - 1 : q = x \div m /\ r = x % m /\ x = q * m + r
<1>1. PICK q \in Int : q = x \div m
  OBVIOUS
<1>2. PICK y \in Int : y = q * m
  OBVIOUS
<1>3. q * m <= x /\ x < (q + 1) * m
  BY <1>1
<1>4. (q + 1) * m = y + m
  BY <1>2
<1>5. x - y \in 0 .. m - 1
  BY <1>2, <1>3, <1>4
<1>6. PICK r \in 0 .. m - 1 : r = x - y
  BY <1>5
<1>7. x = q * m + r
  BY <1>2, <1>6
<1>8. x \div m = q /\ x % m = r
  BY <1>7, DivUnique
<1> QED
  BY <1>7, <1>8, Zenon

LEMMA ModAdd ==
    ASSUME NEW x \in Int, NEW y \in Int, NEW m \in Nat \ {0}
    PROVE  ((x % m) + y) % m = (x + y) % m
<1>1. PICK q \in Int, r \in 0 .. m - 1 : r = x % m /\ x = q * m + r
  BY Parts
<1>2. PICK w \in Int : w = r + y
  OBVIOUS
<1>3. PICK s \in Int, v \in 0 .. m - 1 : v = w % m /\ w = s * m + v
  BY Parts
<1>4. PICK z \in Int : z = q + s
  OBVIOUS
<1>5. PICK u \in Int : u = x + y
  OBVIOUS
<1>6. u = z * m + v
  <2>1. PICK a \in Int, b \in Int : a = q * m /\ b = s * m
    OBVIOUS
  <2>2. z * m = a + b
    BY <1>4, <2>1
  <2>3. x = a + r /\ w = b + v
    BY <1>1, <1>3, <2>1
  <2>4. u = (a + b) + v
    BY <1>2, <1>5, <2>3
  <2> QED
    BY <2>2, <2>4
<1>7. u % m = v
  BY <1>6, DivUnique
<1> QED
  BY <1>1, <1>2, <1>3, <1>5, <1>7, Zenon

LEMMA NumberParts ==
    ASSUME NEW i \in Int
    PROVE  Number(i) \in Int /\ Offset(i) \in 0 .. BlockSize - 1 /\ Offset(i) \in Int
           /\ i = Number(i) * BlockSize + Offset(i)
<1>1. PICK q \in Int, r \in 0 .. BlockSize - 1 : q = i \div BlockSize /\ r = i % BlockSize /\ i = q * BlockSize + r
  BY SizesAre, Parts
<1>2. r \in Int
  BY SizesAre
<1> QED
  BY <1>1, <1>2, Zenon DEF Number, Offset

LEMMA NumberIs ==
    ASSUME NEW q \in Int, NEW r \in 0 .. BlockSize - 1, NEW i \in Int, i = q * BlockSize + r
    PROVE  Number(i) = q /\ Offset(i) = r
<1>1. r \in Int /\ 0 <= r /\ r < BlockSize
  BY SizesAre
<1>2. i \div BlockSize = q /\ i % BlockSize = r
  BY <1>1, SizesAre, DivUnique
<1> QED
  BY <1>2 DEF Number, Offset

LEMMA NumberStep ==
    ASSUME NEW i \in Int
    PROVE  \/ Offset(i) = BlockSize - 1 /\ Number(i + 1) = Number(i) + 1 /\ Offset(i + 1) = 0
           \/ Offset(i) # BlockSize - 1 /\ Number(i + 1) = Number(i) /\ Offset(i + 1) = Offset(i) + 1
<1>1. PICK q \in Int, r \in 0 .. BlockSize - 1 : q = Number(i) /\ r = Offset(i) /\ i = q * BlockSize + r
  BY NumberParts, Zenon
<1>2. BlockSize \in Nat \ {0}
  BY SizesAre
<1>3. CASE r = BlockSize - 1
  <2>1. i + 1 = (q + 1) * BlockSize + 0
    BY <1>1, <1>2, <1>3
  <2>2. 0 \in 0 .. BlockSize - 1 /\ q + 1 \in Int /\ i + 1 \in Int
    BY <1>2
  <2>3. Number(i + 1) = q + 1 /\ Offset(i + 1) = 0
    BY <2>1, <2>2, NumberIs
  <2> QED
    BY <1>1, <1>3, <2>3, Zenon
<1>4. CASE r # BlockSize - 1
  <2>1. i + 1 = q * BlockSize + (r + 1)
    BY <1>1, <1>2
  <2>2. r + 1 \in 0 .. BlockSize - 1 /\ i + 1 \in Int
    BY <1>2, <1>4
  <2>3. Number(i + 1) = q /\ Offset(i + 1) = r + 1
    BY <2>1, <2>2, NumberIs
  <2> QED
    BY <1>1, <1>4, <2>3, Zenon
<1> QED
  BY <1>3, <1>4

LEMMA NumberOrder ==
    ASSUME NEW i \in Int, NEW j \in Int, i <= j
    PROVE  Number(i) <= Number(j)
BY SizesAre DEF Number

LEMMA NumberSame ==
    ASSUME NEW i \in Int, NEW j \in Int, Number(i) = Number(j), Offset(i) = Offset(j)
    PROVE  i = j
BY NumberParts, Zenon

LEMMA NumberZero == Number(0) = 0 /\ Offset(0) = 0 /\ Number(-1) = -1
<1>1. Number(0) = 0 /\ Offset(0) = 0
  BY SizesAre, NumberIs
<1>2. Number(-1) \in Int /\ Offset(-1) \in Int
  BY NumberParts
<1>3. \/ Offset(-1) = BlockSize - 1 /\ Number(0) = Number(-1) + 1
      \/ Offset(-1) # BlockSize - 1 /\ Offset(0) = Offset(-1) + 1
  <2>1. -1 + 1 = 0
    OBVIOUS
  <2> QED
    BY <2>1, NumberStep
<1>4. Offset(-1) # -1
  BY NumberParts
<1> QED
  BY <1>1, <1>2, <1>3, <1>4

LEMMA NumberNat == ASSUME NEW i \in Nat PROVE Number(i) \in Nat
<1>1. Number(0) <= Number(i) /\ Number(i) \in Int
  BY NumberOrder, NumberParts
<1> QED
  BY <1>1, NumberZero

\* What get_block_index_entry_for_index computes from the key of the tail.
LEMMA KeyDistance ==
    ASSUME NEW i \in Int, NEW k \in Int, Offset(k) = 0
    PROVE  (BlockBase(i) - k) \div BlockSize = Number(i) - Number(k)
<1>1. PICK q \in Int, r \in Int : q = Number(i) /\ r = Offset(i) /\ i = q * BlockSize + r
  BY NumberParts, Zenon
<1>2. PICK s \in Int : s = Number(k) /\ k = s * BlockSize
  <2>1. PICK s \in Int : s = Number(k) /\ k = s * BlockSize + Offset(k)
    BY NumberParts, Zenon
  <2> QED
    BY <2>1, SizesAre
<1>3. PICK w \in Int : w = BlockBase(i) - k
  BY <1>1 DEF BlockBase
<1>4. PICK z \in Int : z = q - s
  OBVIOUS
<1>5. w = z * BlockSize + 0
  <2>1. BlockBase(i) = q * BlockSize
    BY <1>1, SizesAre DEF BlockBase
  <2>2. z * BlockSize = q * BlockSize - s * BlockSize
    BY <1>4, SizesAre
  <2> QED
    BY <1>2, <1>3, <2>1, <2>2, SizesAre
<1>6. w \div BlockSize = z
  BY <1>5, SizesAre, DivUnique
<1> QED
  BY <1>1, <1>2, <1>3, <1>4, <1>6, Zenon

LEMMA SlotAt ==
    ASSUME NEW q \in Int
    PROVE  Slot(q) \in Entries /\ \A d \in Int : (Slot(q) + d) % IndexCapacity = Slot(q + d)
BY SizesAre, ModRange, ModAdd DEF Slot, Entries

-----------------------------------------------------------------------------
(* The blocks of a producer, step by step *)

LEMMA LastIs ==
    ASSUME NEW label, NEW t \in Nat
    PROVE  /\ LastOf(label, t) \in Int /\ Number(t) \in Nat /\ Number(t - 1) \in Int
           /\ Number(t - 1) <= LastOf(label, t) /\ LastOf(label, t) <= Number(t)
           /\ Offset(t) # 0 => LastOf(label, t) = Number(t) /\ Number(t - 1) = Number(t)
           /\ Offset(t) = 0 => Number(t - 1) = Number(t) - 1
<1>1. t - 1 \in Int /\ t \in Int /\ (t - 1) + 1 = t
  OBVIOUS
<1>2. Number(t - 1) \in Int /\ Number(t) \in Nat /\ Offset(t - 1) \in Int /\ Offset(t - 1) # -1
  BY <1>1, NumberParts, NumberNat
<1>3. \/ Number(t) = Number(t - 1) + 1 /\ Offset(t) = 0
      \/ Number(t) = Number(t - 1) /\ Offset(t) = Offset(t - 1) + 1
  BY <1>1, NumberStep
<1> QED
  BY <1>2, <1>3 DEF LastOf

\* The blocks that hold the items from the head on are in use.
LEMMA LiveItem ==
    ASSUME NEW label, NEW f \in Nat, NEW t \in Nat, f <= t, NEW i \in f .. t,
           i < t \/ label \in Writing \/ Offset(t) # 0
    PROVE  Number(i) \in Number(f) .. LastOf(label, t)
<1>1. Number(f) <= Number(i) /\ Number(f) \in Int /\ Number(i) \in Int
  BY NumberOrder, NumberParts
<1>2. CASE i < t
  <2>1. Number(i) <= Number(t - 1)
    BY <1>2, NumberOrder
  <2> QED
    BY <1>1, <2>1, LastIs
<1>3. CASE ~(i < t)
  <2>1. i = t
    BY <1>3
  <2>2. LastOf(label, t) = Number(t)
    BY <1>3, LastIs DEF LastOf
  <2> QED
    BY <1>1, <2>1, <2>2
<1> QED
  BY <1>2, <1>3

LEMMA SlotOf ==
    ASSUME NEW f \in Nat, NEW m \in Int, NEW ix, Slots(f, m, ix), NEW q \in Number(f) .. m
    PROVE  /\ q \in Nat /\ Slot(q) \in Entries /\ ix[Slot(q)].value \in Blocks
           /\ \A r \in Number(f) .. m : Slot(q) = Slot(r) => q = r
           /\ ix[Slot(q)].key \in Nat /\ Number(ix[Slot(q)].key) = q /\ Offset(ix[Slot(q)].key) = 0
<1>1. Number(f) \in Nat
  BY NumberNat
<1>2. q \in Nat /\ Slot(q) \in Entries
  BY <1>1, SlotAt
<1> QED
  BY <1>2 DEF Slots

\* A step that does not touch the cells and the counts of the blocks in use.
LEMMA RingKept ==
    ASSUME NEW p, NEW label, NEW f, NEW t, NEW ix, NEW it, NEW tb, NEW cl, NEW dq, NEW all,
           Ring(p, label, f, t, ix, it, tb, cl, dq, all), NEW cl2, NEW dq2,
           \A e \in Entries : ix[e].value # NoBlock =>
               cl2[ix[e].value] = cl[ix[e].value] /\ dq2[ix[e].value] = dq[ix[e].value]
    PROVE  Ring(p, label, f, t, ix, it, tb, cl2, dq2, all)
<1>1. f \in Nat /\ t \in Nat /\ f <= t /\ LastOf(label, t) \in Int /\ Slots(f, LastOf(label, t), ix)
  BY LastIs DEF Ring
<1>2. ASSUME NEW q \in Number(f) .. LastOf(label, t)
      PROVE  cl2[ix[Slot(q)].value] = cl[ix[Slot(q)].value] /\ dq2[ix[Slot(q)].value] = dq[ix[Slot(q)].value]
  <2>1. Slot(q) \in Entries /\ ix[Slot(q)].value # NoBlock
    BY <1>1, SlotOf, BlocksAreNot
  <2> QED
    BY <2>1
<1>3. ASSUME NEW i \in f .. t, i < t \/ label = "tail"
      PROVE  cl2[ix[Slot(Number(i))].value][Offset(i)] = <<p, i>>
  <2>1. Number(i) \in Number(f) .. LastOf(label, t)
    BY <1>1, <1>3, LiveItem DEF Writing
  <2>2. cl2[ix[Slot(Number(i))].value] = cl[ix[Slot(Number(i))].value]
    BY <1>2, <2>1
  <2> QED
    BY <1>3, <2>2 DEF Ring, Filled
<1>4. Drained(f, LastOf(label, t), ix, dq2, all)
  BY <1>2 DEF Ring, Drained
<1> QED
  BY <1>3, <1>4 DEF Ring, Filled

LEMMA RingBegin ==
    ASSUME NEW p, NEW f, NEW t, NEW ix, NEW it, NEW tb, NEW cl, NEW dq, NEW all,
           Ring(p, "out", f, t, ix, it, tb, cl, dq, all)
    PROVE  Ring(p, IF Offset(t) = 0 THEN "insert" ELSE "write", f, t, ix, it, tb, cl, dq, all)
<1>1. t \in Nat
  BY DEF Ring
<1>2. Offset(t) = 0 => LastOf("insert", t) = LastOf("out", t)
  BY DEF LastOf, Writing
<1>3. Offset(t) # 0 => LastOf("write", t) = LastOf("out", t)
  BY <1>1, LastIs
<1>4. CASE Offset(t) = 0
  <2>1. Ring(p, "insert", f, t, ix, it, tb, cl, dq, all)
    BY <1>2, <1>4 DEF Ring, TailAt, Filled, TailKnown, Publishing, Writing
  <2> QED
    BY <1>4, <2>1
<1>5. CASE Offset(t) # 0
  <2>1. Ring(p, "write", f, t, ix, it, tb, cl, dq, all)
    BY <1>3, <1>5 DEF Ring, TailAt, Filled, TailKnown, Publishing, Writing
  <2> QED
    BY <1>5, <2>1
<1> QED
  BY <1>4, <1>5

\* From one step of try_enqueue to the next, where the ring is the same.
LEMMA RingLabel ==
    ASSUME NEW p, NEW label, NEW f, NEW t, NEW ix, NEW it, NEW tb, NEW cl, NEW dq, NEW all,
           Ring(p, label, f, t, ix, it, tb, cl, dq, all), NEW label2,
           \/ label \in Publishing /\ label2 \in Publishing
           \/ label = "insert" /\ label2 = "out"
    PROVE  Ring(p, label2, f, t, ix, it, tb, cl, dq, all)
<1>1. LastOf(label2, t) = LastOf(label, t)
  BY DEF LastOf, Publishing, Writing
<1>2. label \notin {"tail"} \cup Writing /\ label2 \notin {"tail"} \cup Writing
  BY DEF Publishing, Writing
<1>3. TailAt(label2, t, ix, it)
  BY <1>1 DEF Ring, TailAt, Publishing
<1>4. Filled(p, label2, f, t, ix, cl)
  BY <1>2 DEF Ring, Filled
<1>5. TailKnown(label2, t, ix, tb)
  BY <1>2 DEF Ring, TailAt, TailKnown, Publishing
<1> QED
  BY <1>1, <1>3, <1>4, <1>5 DEF Ring

KeySetTo(ix, ix2, e, k) ==
    \A g \in Entries : ix2[g].value = ix[g].value /\ ix2[g].key = IF g = e THEN k ELSE ix[g].key
ValueSetTo(ix, ix2, e, b) ==
    \A g \in Entries : ix2[g].key = ix[g].key /\ ix2[g].value = IF g = e THEN b ELSE ix[g].value
RingIndex == [Entries -> [key : Int, value : Blocks \cup {NoBlock}]]

LEMMA RingInsert ==
    ASSUME NEW p, NEW f, NEW t, NEW ix, NEW it, NEW tb, NEW cl, NEW dq, NEW all,
           Ring(p, "insert", f, t, ix, it, tb, cl, dq, all), NEW e, e = (it + 1) % IndexCapacity,
           ix[e].value = NoBlock, NEW ix2 \in RingIndex, KeySetTo(ix, ix2, e, t)
    PROVE  Ring(p, "pool", f, t, ix2, e, tb, cl, dq, all)
<1>1. f \in Nat /\ t \in Nat /\ f <= t /\ Offset(t) = 0 /\ t # -1
  BY DEF Ring, TailAt
<1>2. PICK m \in Int : m = LastOf("insert", t) /\ m = LastOf("pool", t) /\ m = Number(t) - 1
  BY <1>1, LastIs DEF LastOf, Writing
<1>3. Number(t) \in Int /\ Number(f) \in Int
  BY <1>1, NumberParts
<1>4. e = Slot(Number(t)) /\ e \in Entries
  <2>1. it = Slot(m)
    BY <1>2 DEF Ring, TailAt, Publishing
  <2>2. (Slot(m) + 1) % IndexCapacity = Slot(m + 1)
    BY SlotAt
  <2>3. m + 1 = Number(t)
    BY <1>2, <1>3
  <2> QED
    BY <1>3, <2>1, <2>2, <2>3, SlotAt
<1>5. Slots(f, m, ix)
  BY <1>2 DEF Ring
<1>6. ASSUME NEW q \in Number(f) .. m PROVE Slot(q) # e /\ Slot(q) \in Entries /\ ix2[Slot(q)] = ix[Slot(q)]
  <2>1. Slot(q) \in Entries /\ ix[Slot(q)].value # NoBlock
    BY <1>1, <1>5, SlotOf, BlocksAreNot
  <2>2. Slot(q) # e
    BY <2>1
  <2>3. ix \in RingIndex
    BY <1>5 DEF Slots, RingIndex
  <2>4. ix2[Slot(q)].value = ix[Slot(q)].value /\ ix2[Slot(q)].key = ix[Slot(q)].key
    BY <2>1, <2>2 DEF KeySetTo
  <2> QED
    BY <2>1, <2>2, <2>3, <2>4 DEF RingIndex
<1>7. Slots(f, m, ix2)
  <2>1. ASSUME NEW g \in Entries
        PROVE /\ \/ ix2[g].key = -1
                 \/ ix2[g].key \in Nat /\ Offset(ix2[g].key) = 0 /\ Slot(Number(ix2[g].key)) = g
              /\ ix2[g].value # NoBlock => ix2[g].key # -1 /\ Number(ix2[g].key) \in Number(f) .. m
    <3>1. CASE g = e
      BY <1>1, <1>4, <3>1 DEF KeySetTo
    <3>2. CASE g # e
      <4>1. ix2[g].value = ix[g].value /\ ix2[g].key = ix[g].key
        BY <3>2 DEF KeySetTo
      <4> QED
        BY <1>5, <4>1 DEF Slots
    <3> QED
      BY <3>1, <3>2
  <2>2. \A q \in Number(f) .. m :
           ix2[Slot(q)].value # NoBlock /\ ix2[Slot(q)].key # -1 /\ Number(ix2[Slot(q)].key) = q
    BY <1>5, <1>6 DEF Slots
  <2> QED
    BY <2>1, <2>2 DEF Slots, RingIndex
<1>8. TailAt("pool", t, ix2, e)
  <2>1. m >= 0 => ix2[Slot(m)].key # -1
    <3>1. Slot(m) \in Entries
      BY SlotAt
    <3>2. m >= 0 => ix[Slot(m)].key # -1
      BY <1>2 DEF Ring, TailAt
    <3> QED
      BY <1>1, <3>1, <3>2 DEF KeySetTo
  <2> QED
    BY <1>1, <1>2, <1>4, <2>1 DEF TailAt, Publishing, KeySetTo
<1>9. Filled(p, "pool", f, t, ix2, cl)
  <2>1. ASSUME NEW i \in f .. t, i < t PROVE cl[ix2[Slot(Number(i))].value][Offset(i)] = <<p, i>>
    <3>1. Number(i) \in Number(f) .. m
      BY <1>1, <1>2, <2>1, LiveItem
    <3>2. cl[ix[Slot(Number(i))].value][Offset(i)] = <<p, i>>
      BY <2>1 DEF Ring, Filled
    <3> QED
      BY <1>6, <3>1, <3>2
  <2> QED
    BY <2>1 DEF Filled
<1>10. Drained(f, m, ix2, dq, all)
  BY <1>2, <1>6 DEF Ring, Drained
<1> QED
  BY <1>1, <1>2, <1>7, <1>8, <1>9, <1>10 DEF Ring, TailKnown, Writing

LEMMA RingNoRoom ==
    ASSUME NEW p, NEW f, NEW t, NEW ix, NEW it, NEW tb, NEW cl, NEW dq, NEW all,
           Ring(p, "list", f, t, ix, it, tb, cl, dq, all)
    PROVE  Ring(p, "out", f, t, ix, (it - 1) % IndexCapacity, tb, cl, dq, all)
<1>1. t \in Nat /\ Offset(t) = 0 /\ it = Slot(Number(t))
  BY DEF Ring, TailAt, Publishing
<1>2. LastOf("out", t) = LastOf("list", t) /\ LastOf("out", t) = Number(t) + (-1) /\ Number(t) \in Int
  BY <1>1, LastIs DEF LastOf, Writing
<1>3. it - 1 = it + (-1) /\ it \in Int
  BY <1>1, <1>2, SlotAt, SizesAre DEF Entries
<1>4. (it - 1) % IndexCapacity = Slot(LastOf("out", t))
  BY <1>1, <1>2, <1>3, SlotAt
<1>5. TailAt("out", t, ix, (it - 1) % IndexCapacity)
  BY <1>2, <1>4 DEF Ring, TailAt, Publishing
<1> QED
  BY <1>1, <1>2, <1>5 DEF Ring, Filled, TailKnown, Writing

LEMMA RingPublish ==
    ASSUME NEW p, NEW label \in Publishing, NEW f, NEW t, NEW ix, NEW it, NEW tb, NEW cl, NEW dq, NEW all,
           Ring(p, label, f, t, ix, it, tb, cl, dq, all), NEW b \in Blocks,
           \A g \in Entries : ix[g].value # b,
           NEW ix2 \in RingIndex, ValueSetTo(ix, ix2, it, b),
           NEW dq2, dq2[b] = 0, \A x \in Blocks : x # b => dq2[x] = dq[x]
    PROVE  Ring(p, "write", f, t, ix2, it, b, cl, dq2, all)
<1>1. f \in Nat /\ t \in Nat /\ f <= t /\ Offset(t) = 0 /\ (all => f < t)
  BY DEF Ring, TailAt
<1>2. PICK m \in Int : m = LastOf(label, t) /\ m = Number(t) - 1 /\ m + 1 = LastOf("write", t) /\ m + 1 = Number(t)
  <2>1. LastOf(label, t) = Number(t) - 1
    BY <1>1, LastIs DEF LastOf, Writing, Publishing
  <2>2. LastOf("write", t) = Number(t) /\ Number(t) \in Int
    BY <1>1, LastIs DEF LastOf, Writing
  <2> QED
    BY <2>1, <2>2
<1>3. Number(f) \in Int /\ Number(f) <= m + 1
  BY <1>1, <1>2, NumberParts, NumberOrder
<1>4. Slots(f, m, ix)
  BY <1>2 DEF Ring
<1>5. it = Slot(m + 1) /\ it \in Entries /\ ix[it].key = t /\ ix[it].value = NoBlock
  BY <1>2, SlotAt DEF Ring, TailAt
<1>6. ASSUME NEW q \in Number(f) .. m
      PROVE  /\ Slot(q) # it /\ Slot(q) \in Entries /\ ix2[Slot(q)].value = ix[Slot(q)].value
             /\ ix2[Slot(q)].key = ix[Slot(q)].key /\ dq2[ix2[Slot(q)].value] = dq[ix[Slot(q)].value]
  <2>1. Slot(q) \in Entries /\ ix[Slot(q)].value \in Blocks
    BY <1>1, <1>4, SlotOf
  <2>2. Slot(q) # it
    BY <1>5, <2>1, BlocksAreNot
  <2>3. ix2[Slot(q)].value = ix[Slot(q)].value /\ ix2[Slot(q)].key = ix[Slot(q)].key
    BY <2>1, <2>2 DEF ValueSetTo
  <2>4. ix[Slot(q)].value # b
    BY <2>1
  <2> QED
    BY <2>1, <2>2, <2>3, <2>4
<1>7. ix2[it].value = b /\ ix2[it].key = t
  BY <1>5 DEF ValueSetTo
<1>8. \A q \in Number(f) .. m + 1 : q \in Number(f) .. m \/ q = m + 1
  BY <1>3
<1>9. Slots(f, m + 1, ix2)
  <2>1. ASSUME NEW g \in Entries
        PROVE  /\ \/ ix2[g].key = -1
                  \/ ix2[g].key \in Nat /\ Offset(ix2[g].key) = 0 /\ Slot(Number(ix2[g].key)) = g
               /\ ix2[g].value # NoBlock => ix2[g].key # -1 /\ Number(ix2[g].key) \in Number(f) .. m + 1
    <3>1. CASE g = it
      <4>1. m + 1 \in Number(f) .. m + 1 /\ t # -1
        BY <1>1, <1>3
      <4> QED
        BY <1>1, <1>2, <1>5, <1>7, <3>1, <4>1
    <3>2. CASE g # it
      <4>1. ix2[g].value = ix[g].value /\ ix2[g].key = ix[g].key
        BY <3>2 DEF ValueSetTo
      <4>2. \A q \in Number(f) .. m : q \in Number(f) .. m + 1
        BY <1>3
      <4> QED
        BY <1>4, <4>1, <4>2 DEF Slots
    <3> QED
      BY <3>1, <3>2
  <2>2. ASSUME NEW q \in Number(f) .. m + 1
        PROVE  ix2[Slot(q)].value # NoBlock /\ ix2[Slot(q)].key # -1 /\ Number(ix2[Slot(q)].key) = q
    <3>1. CASE q \in Number(f) .. m
      BY <1>4, <1>6, <3>1 DEF Slots
    <3>2. CASE q = m + 1
      BY <1>1, <1>2, <1>5, <1>7, <3>2, BlocksAreNot
    <3> QED
      BY <1>8, <3>1, <3>2
  <2> QED
    BY <2>1, <2>2 DEF Slots, RingIndex
<1>10. TailAt("write", t, ix2, it)
  BY <1>1, <1>2, <1>5, <1>7 DEF TailAt, Publishing
<1>11. Filled(p, "write", f, t, ix2, cl)
  <2>1. ASSUME NEW i \in f .. t, i < t PROVE cl[ix2[Slot(Number(i))].value][Offset(i)] = <<p, i>>
    <3>1. Number(i) \in Number(f) .. m
      BY <1>1, <1>2, <2>1, LiveItem
    <3>2. cl[ix[Slot(Number(i))].value][Offset(i)] = <<p, i>>
      BY <2>1 DEF Ring, Filled
    <3> QED
      BY <1>6, <3>1, <3>2
  <2> QED
    BY <2>1 DEF Filled
<1>12. Drained(f, m + 1, ix2, dq2, all)
  <2>1. Drained(f, m, ix, dq, all)
    BY <1>2 DEF Ring
  <2>2. ASSUME NEW q \in Number(f) .. m + 1
        PROVE  dq2[ix2[Slot(q)].value] = IF q # Number(f) THEN 0 ELSE IF all THEN BlockSize ELSE Offset(f)
    <3>1. CASE q \in Number(f) .. m
      BY <1>6, <2>1, <3>1 DEF Drained
    <3>2. CASE q = m + 1
      <4>1. dq2[ix2[Slot(q)].value] = 0
        BY <1>5, <1>7, <3>2
      <4>2. q = Number(f) => Offset(f) = 0 /\ ~all
        <5> SUFFICES ASSUME q = Number(f) PROVE Offset(f) = 0 /\ ~all
          OBVIOUS
        <5>1. f < t => FALSE
          <6> SUFFICES ASSUME f < t PROVE FALSE
            OBVIOUS
          <6>1. Number(f) <= Number(t - 1)
            BY <1>1, NumberOrder
          <6>2. Number(t - 1) = m
            BY <1>1, <1>2, LastIs
          <6> QED
            BY <1>3, <3>2, <6>1, <6>2
        <5> QED
          BY <1>1, <5>1
      <4> QED
        BY <4>1, <4>2
    <3> QED
      BY <1>8, <3>1, <3>2
  <2> QED
    BY <2>1, <2>2 DEF Drained
<1>13. TailKnown("write", t, ix2, b)
  BY <1>2, <1>5, <1>7 DEF TailKnown
<1> QED
  BY <1>1, <1>2, <1>9, <1>10, <1>11, <1>12, <1>13 DEF Ring

LEMMA RingWrite ==
    ASSUME NEW p, NEW f, NEW t, NEW ix, NEW it, NEW tb, NEW cl, NEW dq, NEW all,
           Ring(p, "write", f, t, ix, it, tb, cl, dq, all),
           NEW cl2, cl2[tb][Offset(t)] = <<p, t>>,
           \A o \in 0 .. BlockSize - 1 : o # Offset(t) => cl2[tb][o] = cl[tb][o],
           \A x \in Blocks : x # tb => cl2[x] = cl[x],
           \A e, g \in Entries : ix[e].value = ix[g].value /\ ix[e].value # NoBlock => e = g
    PROVE  Ring(p, "tail", f, t, ix, it, tb, cl2, dq, all)
<1>1. f \in Nat /\ t \in Nat /\ f <= t /\ LastOf("write", t) = Number(t) /\ LastOf("tail", t) = Number(t)
      /\ tb = ix[Slot(Number(t))].value /\ Number(t) \in Int /\ Slots(f, Number(t), ix)
  BY NumberParts DEF Ring, TailKnown, LastOf, Writing
<1>2. ASSUME NEW i \in f .. t PROVE cl2[ix[Slot(Number(i))].value][Offset(i)] = <<p, i>>
  <2>1. CASE i = t
    BY <1>1, <2>1
  <2>2. CASE i # t
    <3>1. cl[ix[Slot(Number(i))].value][Offset(i)] = <<p, i>>
      BY <1>1, <2>2 DEF Ring, Filled
    <3>2. Number(i) \in Number(f) .. Number(t) /\ Number(t) \in Number(f) .. Number(t) /\ i \in Int
      <4>1. i \in f .. t /\ t \in f .. t
        BY <1>1
      <4> QED
        BY <1>1, <4>1, LiveItem DEF Writing
    <3>3. Offset(i) \in 0 .. BlockSize - 1
      BY <3>2, NumberParts
    <3>4. CASE Number(i) = Number(t)
      <4>1. Offset(i) # Offset(t)
        BY <1>1, <2>2, <3>2, <3>4, NumberSame
      <4> QED
        BY <1>1, <3>1, <3>3, <3>4, <4>1
    <3>5. CASE Number(i) # Number(t)
      <4>1. /\ Slot(Number(i)) \in Entries /\ Slot(Number(t)) \in Entries
            /\ ix[Slot(Number(i))].value \in Blocks /\ Slot(Number(i)) # Slot(Number(t))
        BY <1>1, <3>2, <3>5, SlotOf
      <4>2. ix[Slot(Number(i))].value # tb
        BY <1>1, <4>1, BlocksAreNot
      <4> QED
        BY <3>1, <4>1, <4>2
    <3> QED
      BY <3>4, <3>5
  <2> QED
    BY <2>1, <2>2
<1>3. TailAt("tail", t, ix, it)
  BY <1>1 DEF Ring, TailAt, Publishing
<1> QED
  BY <1>1, <1>2, <1>3 DEF Ring, Filled, TailKnown, Writing

LEMMA RingTail ==
    ASSUME NEW p, NEW f, NEW t, NEW ix, NEW it, NEW tb, NEW cl, NEW dq, NEW all,
           Ring(p, "tail", f, t, ix, it, tb, cl, dq, all)
    PROVE  Ring(p, "out", f, t + 1, ix, it, tb, cl, dq, all)
<1>1. f \in Nat /\ t \in Nat /\ f <= t /\ (all => f < t) /\ t + 1 \in Nat /\ (t + 1) - 1 = t
  BY DEF Ring
<1>2. LastOf("tail", t) = Number(t) /\ LastOf("out", t + 1) = Number(t)
  BY <1>1 DEF LastOf, Writing
<1>3. TailAt("out", t + 1, ix, it)
  BY <1>2 DEF Ring, TailAt, Publishing
<1>4. Filled(p, "out", f, t + 1, ix, cl)
  BY <1>1 DEF Ring, Filled
<1>5. TailKnown("out", t + 1, ix, tb)
  <2>1. tb = ix[Slot(Number(t))].value
    BY DEF Ring, TailKnown, Writing
  <2>2. Offset(t + 1) # 0 => Number(t + 1) = Number(t)
    BY <1>1, NumberStep
  <2> QED
    BY <2>1, <2>2 DEF TailKnown, Writing
<1> QED
  BY <1>1, <1>2, <1>3, <1>4, <1>5 DEF Ring

\* The item at the head is counted as taken.
Apart(ix) == \A e, g \in Entries : ix[e].value = ix[g].value /\ ix[e].value # NoBlock => e = g
CountsOne(dq2, dq, b) == dq2[b] = dq[b] + 1 /\ \A x \in Blocks : x # b => dq2[x] = dq[x]

LEMMA RingCount ==
    ASSUME NEW p, NEW label, NEW f, NEW t, NEW ix, NEW it, NEW tb, NEW cl, NEW dq,
           Ring(p, label, f, t, ix, it, tb, cl, dq, FALSE), f < t,
           NEW b, b = ix[Slot(Number(f))].value,
           NEW dq2, CountsOne(dq2, dq, b), Apart(ix)
    PROVE  /\ b \in Blocks
           /\ dq2[b] = BlockSize => Ring(p, label, f, t, ix, it, tb, cl, dq2, TRUE)
           /\ dq2[b] # BlockSize => Ring(p, label, f + 1, t, ix, it, tb, cl, dq2, FALSE)
<1> USE DEF Apart, CountsOne
<1>1. f \in Nat /\ t \in Nat /\ f <= t /\ LastOf(label, t) \in Int /\ Slots(f, LastOf(label, t), ix)
  BY LastIs DEF Ring
<1>2. Number(f) \in Number(f) .. LastOf(label, t) /\ Number(f) \in Int
  <2>1. f \in f .. t
    BY <1>1
  <2>2. \A i \in f .. t : i < t => Number(i) \in Number(f) .. LastOf(label, t)
    BY <1>1, LiveItem
  <2>3. Number(f) \in Int
    BY <1>1, NumberParts
  <2> QED
    BY <2>1, <2>2, <2>3
<1>3. b \in Blocks /\ Slot(Number(f)) \in Entries
  BY <1>1, <1>2, SlotOf
<1>4. dq[b] = Offset(f)
  BY <1>2 DEF Ring, Drained
<1>5. ASSUME NEW q \in Number(f) .. LastOf(label, t), q # Number(f) PROVE dq2[ix[Slot(q)].value] = 0
  <2>1. Slot(q) \in Entries /\ ix[Slot(q)].value \in Blocks /\ Slot(q) # Slot(Number(f))
    BY <1>1, <1>2, <1>5, SlotOf
  <2>2. ix[Slot(q)].value # b
    BY <1>3, <2>1, BlocksAreNot
  <2>3. dq[ix[Slot(q)].value] = 0
    BY <1>5 DEF Ring, Drained
  <2> QED
    BY <2>1, <2>2, <2>3
<1>6. ASSUME dq2[b] = BlockSize PROVE Ring(p, label, f, t, ix, it, tb, cl, dq2, TRUE)
  <2>1. Offset(f) = BlockSize - 1
    BY <1>1, <1>4, <1>6, NumberParts
  <2>2. Drained(f, LastOf(label, t), ix, dq2, TRUE)
    BY <1>5, <1>6, <2>1 DEF Drained
  <2> QED
    BY <2>2 DEF Ring
<1>7. ASSUME dq2[b] # BlockSize PROVE Ring(p, label, f + 1, t, ix, it, tb, cl, dq2, FALSE)
  <2>1. Number(f + 1) = Number(f) /\ Offset(f + 1) = Offset(f) + 1
    <3>1. Offset(f) # BlockSize - 1
      BY <1>4, <1>7, SizesAre
    <3> QED
      BY <1>1, <3>1, NumberStep
  <2>2. Drained(f + 1, LastOf(label, t), ix, dq2, FALSE)
    BY <1>4, <1>5, <2>1 DEF Drained
  <2>3. Slots(f + 1, LastOf(label, t), ix)
    BY <1>1, <2>1 DEF Slots
  <2>4. f + 1 \in Nat /\ f + 1 <= t /\ \A i \in f + 1 .. t : i \in f .. t
    BY <1>1
  <2>5. Filled(p, label, f + 1, t, ix, cl)
    BY <2>4 DEF Ring, Filled
  <2> QED
    BY <1>1, <2>2, <2>3, <2>4, <2>5 DEF Ring
<1> QED
  BY <1>3, <1>6, <1>7

\* The block whose items are all taken leaves the index.
LEMMA RingUnpublish ==
    ASSUME NEW p, NEW label, NEW f, NEW t, NEW ix, NEW it, NEW tb, NEW cl, NEW dq,
           Ring(p, label, f, t, ix, it, tb, cl, dq, TRUE),
           NEW ix2 \in RingIndex, ValueSetTo(ix, ix2, Slot(Number(f)), NoBlock)
    PROVE  Ring(p, label, f + 1, t, ix2, it, tb, cl, dq, FALSE)
<1>1. f \in Nat /\ t \in Nat /\ f < t /\ LastOf(label, t) \in Int /\ Slots(f, LastOf(label, t), ix)
      /\ f + 1 \in Nat /\ f + 1 <= t /\ f <= t
  BY LastIs DEF Ring
<1>2. PICK m \in Int : m = LastOf(label, t)
  BY <1>1
<1>3. Number(f + 1) = Number(f) + 1 /\ Offset(f + 1) = 0 /\ Number(f) \in Int
  <2>1. Offset(f) = BlockSize - 1
    BY DEF Ring, Drained
  <2> QED
    BY <1>1, <2>1, NumberStep, NumberParts
<1>4. PICK d \in Int : d = Number(f)
  BY <1>3
<1>5. d \in d .. m /\ Slot(d) \in Entries /\ \A q \in d + 1 .. m : q \in d .. m /\ q # d
  <2>1. f \in f .. t
    BY <1>1
  <2>2. \A i \in f .. t : i < t => Number(i) \in Number(f) .. LastOf(label, t)
    BY <1>1, LiveItem
  <2>3. Number(f) \in Number(f) .. LastOf(label, t)
    BY <1>1, <2>1, <2>2
  <2>4. d \in d .. m
    BY <1>2, <1>4, <2>3
  <2>5. \A q \in d + 1 .. m : q \in d .. m /\ q # d
    OBVIOUS
  <2> QED
    BY <2>4, <2>5, SlotAt
<1>6. ASSUME NEW q \in d + 1 .. m
      PROVE  /\ q \in d .. m /\ q # d /\ Slot(q) \in Entries
             /\ ix2[Slot(q)].value = ix[Slot(q)].value /\ ix2[Slot(q)].key = ix[Slot(q)].key
  <2>1. q \in d .. m /\ q # d
    BY <1>5
  <2>2. Slot(q) \in Entries /\ Slot(q) # Slot(d)
    BY <1>1, <1>2, <1>4, <1>5, <2>1, SlotOf
  <2> QED
    BY <1>4, <2>1, <2>2 DEF ValueSetTo
<1>7. Slots(f + 1, m, ix2)
  <2>1. ASSUME NEW g \in Entries
        PROVE  /\ \/ ix2[g].key = -1
                  \/ ix2[g].key \in Nat /\ Offset(ix2[g].key) = 0 /\ Slot(Number(ix2[g].key)) = g
               /\ ix2[g].value # NoBlock => ix2[g].key # -1 /\ Number(ix2[g].key) \in Number(f + 1) .. m
    <3>1. ix2[g].key = ix[g].key
      BY DEF ValueSetTo
    <3>2. \/ ix[g].key = -1
          \/ ix[g].key \in Nat /\ Offset(ix[g].key) = 0 /\ Slot(Number(ix[g].key)) = g
      BY <1>1 DEF Slots
    <3>3. ASSUME ix2[g].value # NoBlock PROVE ix2[g].key # -1 /\ Number(ix2[g].key) \in Number(f + 1) .. m
      <4>1. g # Slot(d) /\ ix[g].value # NoBlock
        BY <1>4, <3>3 DEF ValueSetTo
      <4>2. ix[g].key # -1 /\ Number(ix[g].key) \in d .. m
        BY <1>1, <1>2, <1>4, <4>1 DEF Slots
      <4>3. Number(ix[g].key) # d
        BY <3>2, <4>1, <4>2
      <4>4. Number(ix[g].key) \in d + 1 .. m
        BY <4>2, <4>3
      <4> QED
        BY <1>3, <1>4, <3>1, <4>2, <4>4
    <3> QED
      BY <3>1, <3>2, <3>3
  <2>2. ASSUME NEW q \in Number(f + 1) .. m
        PROVE  ix2[Slot(q)].value # NoBlock /\ ix2[Slot(q)].key # -1 /\ Number(ix2[Slot(q)].key) = q
    <3>1. q \in d + 1 .. m
      BY <1>3, <1>4
    <3> QED
      BY <1>1, <1>2, <1>4, <1>6, <3>1 DEF Slots
  <2> QED
    BY <2>1, <2>2 DEF Slots, RingIndex
<1>8. TailAt(label, t, ix2, it)
  <2>1. m >= 0 => Slot(m) \in Entries /\ ix2[Slot(m)].key = ix[Slot(m)].key
    BY SlotAt DEF ValueSetTo
  <2>2. label \in Publishing => ix2[it].key = ix[it].key /\ ix2[it].value = NoBlock
    <3> SUFFICES ASSUME label \in Publishing PROVE ix2[it].key = ix[it].key /\ ix2[it].value = NoBlock
      OBVIOUS
    <3>1. it \in Entries
      <4>1. it = Slot(Number(t)) /\ Number(t) \in Int
        BY <1>1, NumberParts DEF Ring, TailAt
      <4> QED
        BY <4>1, SlotAt
    <3>2. ix[it].value = NoBlock
      BY DEF Ring, TailAt
    <3> QED
      BY <3>1, <3>2 DEF ValueSetTo
  <2> QED
    BY <1>2, <2>1, <2>2 DEF Ring, TailAt
<1>9. Filled(p, label, f + 1, t, ix2, cl)
  <2>1. ASSUME NEW i \in f + 1 .. t, i < t \/ label = "tail"
        PROVE  cl[ix2[Slot(Number(i))].value][Offset(i)] = <<p, i>>
    <3>1. Number(i) \in Number(f + 1) .. LastOf(label, t)
      BY <1>1, <2>1, LiveItem DEF Writing
    <3>2. cl[ix[Slot(Number(i))].value][Offset(i)] = <<p, i>>
      <4>1. i \in f .. t
        BY <1>1
      <4> QED
        BY <2>1, <4>1 DEF Ring, Filled
    <3> QED
      BY <1>2, <1>3, <1>4, <1>6, <3>1, <3>2
  <2> QED
    BY <2>1 DEF Filled
<1>10. TailKnown(label, t, ix2, tb)
  <2> SUFFICES ASSUME label \in Writing \/ (label = "out" /\ Offset(t) # 0)
               PROVE  tb = ix2[Slot(Number(t))].value
    BY DEF TailKnown
  <2>1. tb = ix[Slot(Number(t))].value
    BY DEF Ring, TailKnown
  <2>2. Number(t) \in Number(f + 1) .. LastOf(label, t)
    <3>1. t \in f + 1 .. t
      BY <1>1
    <3> QED
      BY <1>1, <3>1, LiveItem
  <2> QED
    BY <1>2, <1>3, <1>4, <1>6, <2>1, <2>2
<1>11. Drained(f + 1, m, ix2, dq, FALSE)
  <2>1. ASSUME NEW q \in Number(f + 1) .. m PROVE dq[ix2[Slot(q)].value] = 0
    <3>1. q \in d + 1 .. m
      BY <1>3, <1>4
    <3>2. q \in Number(f) .. LastOf(label, t) /\ q # Number(f) /\ ix2[Slot(q)].value = ix[Slot(q)].value
      BY <1>2, <1>4, <1>6, <3>1
    <3> QED
      BY <3>2 DEF Ring, Drained
  <2> QED
    BY <1>3, <2>1 DEF Drained
<1> QED
  BY <1>1, <1>2, <1>7, <1>8, <1>9, <1>10, <1>11 DEF Ring

LEMMA RingInit ==
    ASSUME NEW p, NEW cl, NEW dq, NEW ix, ix = [e \in Entries |-> NoEntry]
    PROVE  Ring(p, "out", 0, 0, ix, IndexCapacity - 1, NoBlock, cl, dq, FALSE)
<1>1. Number(0) = 0 /\ Offset(0) = 0 /\ LastOf("out", 0) = -1
  BY NumberZero DEF LastOf, Writing
<1>2. \A q : q \notin 0 .. -1
  OBVIOUS
<1>3. Slot(-1) = IndexCapacity - 1
  <2>1. PICK c \in Nat \ {0} : c = IndexCapacity
    BY SizesAre
  <2>2. -1 = (-1) * c + (c - 1) /\ c - 1 \in Int /\ 0 <= c - 1 /\ c - 1 < c
    OBVIOUS
  <2>3. (-1) % c = c - 1
    BY <2>2, DivUnique
  <2> QED
    BY <2>1, <2>3 DEF Slot
<1>4. ix \in [Entries -> [key : Int, value : Blocks \cup {NoBlock}]]
      /\ \A e \in Entries : ix[e].key = -1 /\ ix[e].value = NoBlock
  BY DEF NoEntry
<1>m. PICK m : m = -1 /\ m = LastOf("out", 0)
  BY <1>1
<1>5. Slots(0, m, ix)
  BY <1>1, <1>2, <1>4, <1>m DEF Slots
<1>6. TailAt("out", 0, ix, IndexCapacity - 1)
  BY <1>1, <1>3 DEF TailAt, Publishing
<1>7. Filled(p, "out", 0, 0, ix, cl)
  BY DEF Filled
<1>8. TailKnown("out", 0, ix, NoBlock)
  BY <1>1 DEF TailKnown, Writing
<1>9. Drained(0, m, ix, dq, FALSE)
  BY <1>1, <1>2, <1>m DEF Drained
<1>10. Slots(0, LastOf("out", 0), ix) /\ Drained(0, LastOf("out", 0), ix, dq, FALSE)
  BY <1>m, <1>5, <1>9, Zenon
<1>11. 0 \in Nat /\ 0 <= 0
  OBVIOUS
<1> QED
  BY <1>6, <1>7, <1>8, <1>10, <1>11 DEF Ring

-----------------------------------------------------------------------------
(* The inductive invariant: the queue *)

WorkLabels == {"index tail", "index", "read", "set empty", "unpublish"}
Working(p) == \E c \in Consumers : producer[c] = p /\ pc[c] \in WorkLabels
Emptied(p) == \E c \in Consumers : producer[c] = p /\ pc[c] = "unpublish"
Counting(p) == \E c \in Consumers : producer[c] = p /\ pc[c] \in {"test", "head"}

\* The first item whose cell is in use: a consumer may still have to read the one before the head.
First(p) == IF Working(p) THEN headIndex[p] - 1 ELSE headIndex[p]

RingOf(p) ==
    Ring(p, pc[p], First(p), tailIndex[p], index[p], indexTail[p], tailBlock[p], cell, dequeued, Emptied(p))

Values == {NoItem} \cup (Producers \X Nat)

QueueTypes ==
    /\ registered \subseteq Producers
    /\ headIndex \in [Producers -> Nat] /\ tailIndex \in [Producers -> Nat]
    /\ dequeueOptimisticCount \in [Producers -> Int] /\ dequeueOvercommit = [p \in Producers |-> 0]
    /\ tailBlock \in [Producers -> Blocks \cup {NoBlock}]
    /\ index \in IndexType /\ indexTail \in [Producers -> Entries]
    /\ cell \in [Blocks -> [0 .. BlockSize - 1 -> Values]] /\ dequeued \in [Blocks -> Int]
    /\ producer \in [Consumers -> Producers \cup {NoProducer}] /\ tried \in [Consumers -> SUBSET Producers]
    /\ overcommit = [c \in Consumers |-> 0] /\ myDequeueCount \in [Consumers -> Int]
    /\ myIndex \in [Consumers -> Nat] /\ myTail \in [Consumers -> Entries]
    /\ entry \in [Consumers -> Entries] /\ element \in [Consumers -> Values]

CountOf(p) == /\ headIndex[p] <= tailIndex[p]
              /\ dequeueOptimisticCount[p] = headIndex[p] + (IF Counting(p) THEN 1 ELSE 0)

\* What a consumer knows of the producer it tries.
ConsumerOf(c) ==
    /\ pc[c] # "out" => producer[c] \in Producers
    /\ pc[c] \in {"check", "count", "test", "head"} => headIndex[producer[c]] < tailIndex[producer[c]]
    /\ pc[c] = "test" => myDequeueCount[c] = headIndex[producer[c]]
    /\ pc[c] \in WorkLabels => headIndex[producer[c]] = myIndex[c] + 1
    /\ pc[c] = "index" => index[producer[c]][myTail[c]].key # -1
    /\ pc[c] \in {"read", "set empty", "unpublish"} => entry[c] = Slot(Number(myIndex[c]))
    /\ pc[c] \in {"set empty", "unpublish", "add"} => element[c] = <<producer[c], myIndex[c]>>

QInv ==
    /\ QueueTypes
    /\ \A p \in Producers : CountOf(p) /\ RingOf(p)
    /\ \A c \in Consumers : ConsumerOf(c)

Inv == LInv /\ (\E pl, n, l : FState(pl, n, l)) /\ QInv

-----------------------------------------------------------------------------
(* What follows from it *)

\* No two entries have the same block.
LEMMA OneUser ==
    ASSUME NEW pl, NEW n, NEW l, FState(pl, n, l), NEW p \in Producers, NEW q \in Producers,
           NEW e \in Entries, NEW g \in Entries, index[p][e].value = index[q][g].value,
           index[p][e].value \in Blocks
    PROVE  p = q /\ e = g
<1>1. PICK b \in Blocks : b = index[p][e].value
  OBVIOUS
<1>2. pl[b] = InEntry(p, e) /\ pl[b] = InEntry(q, g)
  BY <1>1 DEF FState, Placed, InIndex
<1>3. InEntry(p, e) = InEntry(q, g)
  BY <1>2, Zenon
<1> QED
  BY <1>3 DEF InEntry

LEMMA TheConsumer ==
    ASSUME OneConsumer
    PROVE  \A c \in Consumers, d \in Consumers : c = d
BY DEF OneConsumer

LEMMA WorkingAt ==
    ASSUME QInv, OneConsumer, NEW c \in Consumers, pc[c] \in WorkLabels
    PROVE  /\ producer[c] \in Producers /\ First(producer[c]) = myIndex[c] /\ myIndex[c] \in Nat
           /\ myIndex[c] < tailIndex[producer[c]] /\ tailIndex[producer[c]] \in Nat
           /\ Emptied(producer[c]) <=> pc[c] = "unpublish"
<1>1. producer[c] \in Producers /\ headIndex[producer[c]] = myIndex[c] + 1 /\ myIndex[c] \in Nat
  BY DEF QInv, ConsumerOf, QueueTypes, WorkLabels
<1>2. Working(producer[c])
  BY DEF Working
<1>3. headIndex[producer[c]] <= tailIndex[producer[c]] /\ tailIndex[producer[c]] \in Nat
  BY <1>1 DEF QInv, CountOf, QueueTypes
<1>4. Emptied(producer[c]) <=> pc[c] = "unpublish"
  BY TheConsumer DEF Emptied
<1> QED
  BY <1>1, <1>2, <1>3, <1>4 DEF First

LEMMA IndexFactsHold ==
    ASSUME QInv, OneConsumer
    PROVE  IndexFacts
<1>1. index \in IndexType /\ indexTail \in [Producers -> Entries]
  BY DEF QInv, QueueTypes
<1>2. ASSUME NEW p \in Producers, pc[p] \in Publishing PROVE index[p][indexTail[p]].value = NoBlock
  BY <1>2 DEF QInv, RingOf, Ring, TailAt
<1>3. ASSUME NEW c \in Consumers, pc[c] \in {"read", "set empty", "unpublish"}
      PROVE  producer[c] \in Producers /\ entry[c] \in Entries /\ BlockFor(c) \in Blocks
  <2>1. /\ producer[c] \in Producers /\ First(producer[c]) = myIndex[c] /\ myIndex[c] \in Nat
        /\ myIndex[c] < tailIndex[producer[c]] /\ tailIndex[producer[c]] \in Nat
    BY <1>3, WorkingAt DEF WorkLabels
  <2>2. PICK p \in Producers, f \in Nat, t \in Nat : p = producer[c] /\ f = myIndex[c] /\ t = tailIndex[p]
    BY <2>1
  <2>3. Slots(f, LastOf(pc[p], t), index[p]) /\ LastOf(pc[p], t) \in Int
    BY <2>1, <2>2, LastIs DEF QInv, RingOf, Ring
  <2>4. Number(f) \in Number(f) .. LastOf(pc[p], t)
    <3>1. f <= t /\ f < t /\ f \in f .. t
      BY <2>1, <2>2
    <3>2. \A i \in f .. t : i < t => Number(i) \in Number(f) .. LastOf(pc[p], t)
      BY <3>1, LiveItem
    <3> QED
      BY <3>1, <3>2
  <2>5. entry[c] = Slot(Number(f)) /\ entry[c] \in Entries
    BY <1>3, <2>2 DEF QInv, ConsumerOf, QueueTypes
  <2>6. index[p][Slot(Number(f))].value \in Blocks
    BY <2>3, <2>4, SlotOf
  <2> QED
    BY <2>2, <2>5, <2>6 DEF BlockFor
<1> QED
  BY <1>1, <1>2, <1>3 DEF IndexFacts

\* A producer whose part of the state is the same.
RingFrame(p) ==
    /\ pc'[p] = pc[p] /\ tailIndex'[p] = tailIndex[p] /\ index'[p] = index[p]
    /\ indexTail'[p] = indexTail[p] /\ tailBlock'[p] = tailBlock[p]
    /\ First(p)' = First(p) /\ (Emptied(p)' <=> Emptied(p))
BlocksKept(p) ==
    \A e \in Entries : index[p][e].value # NoBlock =>
        cell'[index[p][e].value] = cell[index[p][e].value] /\ dequeued'[index[p][e].value] = dequeued[index[p][e].value]

LEMMA RingSame ==
    ASSUME NEW p \in Producers, RingOf(p), RingFrame(p), BlocksKept(p)
    PROVE  RingOf(p)'
<1>1. PICK label, f, t, ix, it, tb, cl, dq :
         /\ label = pc[p] /\ f = First(p) /\ t = tailIndex[p] /\ ix = index[p] /\ it = indexTail[p]
         /\ tb = tailBlock[p] /\ cl = cell /\ dq = dequeued
  OBVIOUS
<1>2. PICK cl2, dq2 : cl2 = cell' /\ dq2 = dequeued'
  OBVIOUS
<1>3. /\ label = pc'[p] /\ f = First(p)' /\ t = tailIndex'[p] /\ ix = index'[p] /\ it = indexTail'[p]
      /\ tb = tailBlock'[p]
  BY <1>1 DEF RingFrame
<1>4. \A e \in Entries : ix[e].value # NoBlock =>
          cl2[ix[e].value] = cl[ix[e].value] /\ dq2[ix[e].value] = dq[ix[e].value]
  BY <1>1, <1>2 DEF BlocksKept
<1>5. CASE Emptied(p)
  <2>1. Ring(p, label, f, t, ix, it, tb, cl, dq, TRUE)
    BY <1>1, <1>5 DEF RingOf
  <2>2. Ring(p, label, f, t, ix, it, tb, cl2, dq2, TRUE)
    BY <1>4, <2>1, RingKept
  <2>3. Emptied(p)' = TRUE
    BY <1>5 DEF RingFrame
  <2> QED
    BY <1>2, <1>3, <2>2, <2>3 DEF RingOf
<1>6. CASE ~Emptied(p)
  <2>4. Emptied(p) = FALSE
    BY <1>6
  <2>1. Ring(p, label, f, t, ix, it, tb, cl, dq, FALSE)
    BY <1>1, <2>4, Zenon DEF RingOf
  <2>2. Ring(p, label, f, t, ix, it, tb, cl2, dq2, FALSE)
    BY <1>4, <2>1, RingKept
  <2>3. Emptied(p)' = FALSE
    BY <1>6 DEF RingFrame
  <2> QED
    BY <1>2, <1>3, <2>2, <2>3 DEF RingOf
<1> QED
  BY <1>5, <1>6

-----------------------------------------------------------------------------
(* The queue, step by step: try_enqueue *)

\* A step of producer p leaves what the others have, and its keys.
ProducerFrame(p) ==
    /\ UNCHANGED <<countVars, localVars>>
    /\ \A t \in Threads : t # p => pc'[t] = pc[t]
    /\ \A q \in Producers : q # p =>
          /\ tailIndex'[q] = tailIndex[q] /\ index'[q] = index[q]
          /\ indexTail'[q] = indexTail[q] /\ tailBlock'[q] = tailBlock[q]
    /\ \A q \in Producers : tailIndex[q] <= tailIndex'[q]
    /\ \A q \in Producers, e \in Entries : index[q][e].key # -1 => index'[q][e].key # -1

LEMMA ProducerFrameHeads ==
    ASSUME NEW p \in Producers, ProducerFrame(p)
    PROVE  /\ \A c \in Consumers : c \in Threads /\ c # p /\ pc'[c] = pc[c]
           /\ \A q \in Producers : q \in Threads /\ First(q)' = First(q) /\ (Emptied(q)' <=> Emptied(q))
                                   /\ (Counting(q)' <=> Counting(q))
<1>1. \A c \in Consumers : c \in Threads /\ c # p
  BY QueueAssumption DEF Threads
<1>2. \A c \in Consumers : pc'[c] = pc[c]
  BY <1>1 DEF ProducerFrame
<1>3. producer' = producer /\ headIndex' = headIndex
  BY DEF ProducerFrame, countVars, localVars
<1>4. \A q : (Working(q)' <=> Working(q)) /\ (Emptied(q)' <=> Emptied(q)) /\ (Counting(q)' <=> Counting(q))
  BY <1>2, <1>3 DEF Working, Emptied, Counting
<1>5. \A q : First(q)' = First(q)
  BY <1>3, <1>4 DEF First
<1> QED
  BY <1>1, <1>2, <1>4, <1>5 DEF Threads

LEMMA ProducerFrameConsumers ==
    ASSUME QInv, NEW p \in Producers, ProducerFrame(p), tailIndex' \in [Producers -> Nat]
    PROVE  (\A q \in Producers : CountOf(q)') /\ (\A c \in Consumers : ConsumerOf(c)')
<1>1. /\ headIndex' = headIndex /\ dequeueOptimisticCount' = dequeueOptimisticCount /\ producer' = producer
      /\ myDequeueCount' = myDequeueCount /\ myIndex' = myIndex /\ myTail' = myTail /\ entry' = entry
      /\ element' = element
  BY DEF ProducerFrame, countVars, localVars
<1>2. headIndex \in [Producers -> Nat] /\ tailIndex \in [Producers -> Nat] /\ myTail \in [Consumers -> Entries]
  BY DEF QInv, QueueTypes
<1>3. \A q \in Producers : tailIndex[q] <= tailIndex'[q]
  BY DEF ProducerFrame
<1>4. ASSUME NEW q \in Producers PROVE CountOf(q)'
  <2>1. CountOf(q) /\ (Counting(q)' <=> Counting(q))
    BY ProducerFrameHeads DEF QInv
  <2>2. headIndex[q] <= tailIndex'[q]
    BY <1>2, <1>3, <2>1 DEF CountOf
  <2> QED
    BY <1>1, <2>1, <2>2 DEF CountOf
<1>5. ASSUME NEW c \in Consumers PROVE ConsumerOf(c)'
  <2>1. ConsumerOf(c) /\ pc'[c] = pc[c]
    BY ProducerFrameHeads DEF QInv
  <2>2. pc[c] \in {"check", "count", "test", "head"} => headIndex[producer[c]] < tailIndex'[producer[c]]
    <3>1. SUFFICES ASSUME pc[c] \in {"check", "count", "test", "head"}
                   PROVE  headIndex[producer[c]] < tailIndex'[producer[c]]
      OBVIOUS
    <3>2. PICK q \in Producers : q = producer[c] /\ headIndex[q] < tailIndex[q]
      BY <2>1, <3>1 DEF ConsumerOf
    <3>3. headIndex[q] \in Nat /\ tailIndex[q] \in Nat /\ tailIndex'[q] \in Nat /\ tailIndex[q] <= tailIndex'[q]
      BY <1>2, <1>3
    <3> QED
      BY <3>2, <3>3
  <2>3. pc[c] = "index" => index'[producer[c]][myTail[c]].key # -1
    BY <1>2, <2>1 DEF ConsumerOf, ProducerFrame
  <2> QED
    BY <1>1, <2>1, <2>2, <2>3 DEF ConsumerOf
<1> QED
  BY <1>4, <1>5

\* What is left to show of a step of producer p.
LEMMA ProducerStep ==
    ASSUME QInv, NEW p \in Producers, ProducerFrame(p), QueueTypes',
           \A q \in Producers : q # p => BlocksKept(q),
           Ring(p, pc'[p], First(p), tailIndex'[p], index'[p], indexTail'[p], tailBlock'[p],
                cell', dequeued', Emptied(p))
    PROVE  QInv'
<1>1. tailIndex' \in [Producers -> Nat]
  BY DEF QueueTypes
<1>2. (\A q \in Producers : CountOf(q)') /\ (\A c \in Consumers : ConsumerOf(c)')
  BY <1>1, ProducerFrameConsumers
<1>3. ASSUME NEW q \in Producers, q # p PROVE RingOf(q)'
  <2>1. RingFrame(q)
    BY <1>3, ProducerFrameHeads DEF ProducerFrame, RingFrame
  <2> QED
    BY <1>3, <2>1, RingSame DEF QInv
<1>4. RingOf(p)'
  <2>1. First(p)' = First(p) /\ (Emptied(p)' <=> Emptied(p))
    BY ProducerFrameHeads
  <2>2. Emptied(p)' = Emptied(p)
    BY <2>1 DEF Emptied
  <2> QED
    BY <2>1, <2>2, Zenon DEF RingOf
<1> QED
  BY <1>2, <1>3, <1>4 DEF QInv

LEMMA RingNow ==
    ASSUME QInv, NEW p \in Producers
    PROVE  Ring(p, pc[p], First(p), tailIndex[p], index[p], indexTail[p], tailBlock[p], cell, dequeued, Emptied(p))
BY DEF QInv, RingOf

\* A step of p after which it is at another label, and nothing else has changed.
LEMMA LabelStep ==
    ASSUME LInv, QInv, NEW p \in Producers, NEW label, Goto(p, label),
           UNCHANGED <<cell, dequeued, tailIndex, tailBlock, countVars, indexVars, localVars>>,
           registered' \subseteq Producers,
           Ring(p, label, First(p), tailIndex[p], index[p], indexTail[p], tailBlock[p], cell, dequeued, Emptied(p))
    PROVE  QInv'
<1>1. pc'[p] = label /\ \A t \in Threads : t # p => pc'[t] = pc[t]
  BY DEF Goto, LInv, Control, Threads
<1>2. tailIndex \in [Producers -> Nat]
  BY DEF QInv, QueueTypes
<1>3. ProducerFrame(p)
  BY <1>1, <1>2 DEF ProducerFrame, indexVars
<1>4. QueueTypes'
  BY DEF QInv, QueueTypes, countVars, indexVars, localVars
<1>5. \A q \in Producers : BlocksKept(q)
  BY DEF BlocksKept
<1>6. Ring(p, pc'[p], First(p), tailIndex'[p], index'[p], indexTail'[p], tailBlock'[p],
           cell', dequeued', Emptied(p))
  BY <1>1, Zenon DEF indexVars
<1> QED
  BY <1>3, <1>4, <1>5, <1>6, ProducerStep

LEMMA RegisterQueue ==
    ASSUME LInv, QInv, NEW p \in Producers, Register(p) \/ BeginGet(p)
    PROVE  QInv'
<1>1. UNCHANGED <<cell, dequeued, tailIndex, tailBlock, countVars, indexVars, pc, localVars>>
      /\ registered' \subseteq Producers
  BY DEF Register, BeginGet, blockVars, producerVars, QInv, QueueTypes
<1>2. tailIndex \in [Producers -> Nat]
  BY DEF QInv, QueueTypes
<1>3. ProducerFrame(p)
  BY <1>1, <1>2 DEF ProducerFrame, indexVars
<1>4. QueueTypes'
  BY <1>1 DEF QInv, QueueTypes, countVars, indexVars, localVars
<1>5. \A q \in Producers : BlocksKept(q)
  BY <1>1 DEF BlocksKept
<1>6. Ring(p, pc'[p], First(p), tailIndex'[p], index'[p], indexTail'[p], tailBlock'[p],
           cell', dequeued', Emptied(p))
  BY <1>1, RingNow, Zenon DEF indexVars
<1> QED
  BY <1>3, <1>4, <1>5, <1>6, ProducerStep

LEMMA BeginEnqueueQueue ==
    ASSUME LInv, QInv, NEW p \in Producers, BeginEnqueue(p)
    PROVE  QInv'
<1>1. PICK label : label = IF Offset(tailIndex[p]) = 0 THEN "insert" ELSE "write"
  OBVIOUS
<1>2. Goto(p, label) /\ pc[p] = "out"
  BY <1>1 DEF BeginEnqueue
<1>3. UNCHANGED <<cell, dequeued, tailIndex, tailBlock, countVars, indexVars, localVars>>
      /\ registered' \subseteq Producers
  BY DEF BeginEnqueue, blockVars, producerVars, QInv, QueueTypes
<1>4. Ring(p, label, First(p), tailIndex[p], index[p], indexTail[p], tailBlock[p], cell, dequeued, Emptied(p))
  <2>1. Ring(p, "out", First(p), tailIndex[p], index[p], indexTail[p], tailBlock[p], cell, dequeued, Emptied(p))
    BY <1>2, RingNow, Zenon
  <2> QED
    BY <1>1, <2>1, RingBegin, Zenon
<1> QED
  BY <1>2, <1>3, <1>4, LabelStep

LEMMA LookInPoolQueue ==
    ASSUME LInv, QInv, NEW p \in Producers, LookInPool(p) \/ TakeFromPool(p)
    PROVE  QInv'
<1>1. PICK label \in Publishing : Goto(p, label) /\ pc[p] \in Publishing
  BY DEF LookInPool, TakeFromPool, Publishing
<1>2. UNCHANGED <<cell, dequeued, tailIndex, tailBlock, countVars, indexVars, localVars>>
      /\ registered' \subseteq Producers
  BY DEF LookInPool, TakeFromPool, blockVars, producerVars, QInv, QueueTypes
<1>3. Ring(p, label, First(p), tailIndex[p], index[p], indexTail[p], tailBlock[p], cell, dequeued, Emptied(p))
  BY <1>1, RingNow, RingLabel, Zenon
<1> QED
  BY <1>1, <1>2, <1>3, LabelStep

LEMMA StoreTailQueue ==
    ASSUME LInv, QInv, NEW p \in Producers, StoreTail(p)
    PROVE  QInv'
<1>1. /\ pc[p] = "tail" /\ Goto(p, "out") /\ tailIndex' = [tailIndex EXCEPT ![p] = @ + 1]
      /\ UNCHANGED <<cell, dequeued, registered, tailBlock, countVars, index, indexTail, localVars>>
  BY DEF StoreTail, blockVars, indexVars
<1>2. pc'[p] = "out" /\ \A t \in Threads : t # p => pc'[t] = pc[t]
  BY <1>1 DEF Goto, LInv, Control, Threads
<1>3. tailIndex \in [Producers -> Nat] /\ tailIndex' \in [Producers -> Nat]
      /\ tailIndex'[p] = tailIndex[p] + 1 /\ \A q \in Producers : q # p => tailIndex'[q] = tailIndex[q]
  BY <1>1 DEF QInv, QueueTypes
<1>4. \A q \in Producers : tailIndex[q] <= tailIndex'[q]
  BY <1>3
<1>5. ProducerFrame(p)
  BY <1>1, <1>2, <1>3, <1>4 DEF ProducerFrame
<1>6. QueueTypes'
  BY <1>1, <1>3 DEF QInv, QueueTypes, countVars, localVars
<1>7. \A q \in Producers : BlocksKept(q)
  BY <1>1 DEF BlocksKept
<1>8. Ring(p, pc'[p], First(p), tailIndex'[p], index'[p], indexTail'[p], tailBlock'[p],
           cell', dequeued', Emptied(p))
  <2>1. Ring(p, "tail", First(p), tailIndex[p], index[p], indexTail[p], tailBlock[p], cell, dequeued, Emptied(p))
    BY <1>1, RingNow, Zenon
  <2>2. Ring(p, "out", First(p), tailIndex[p] + 1, index[p], indexTail[p], tailBlock[p], cell, dequeued, Emptied(p))
    BY <2>1, RingTail, Zenon
  <2> QED
    BY <1>1, <1>2, <1>3, <2>2, Zenon
<1> QED
  BY <1>5, <1>6, <1>7, <1>8, ProducerStep

LEMMA IndexTyped ==
    ASSUME NEW ix \in IndexType, NEW p \in Producers, NEW e \in Entries, NEW ix2
    PROVE  /\ \A b \in Blocks \cup {NoBlock} : SetsValue(ix2, ix, p, e, b) =>
                  ix2 \in IndexType /\ \A q \in Producers : q # p => ix2[q] = ix[q]
           /\ \A k \in Int : SetsKey(ix2, ix, p, e, k) =>
                  ix2 \in IndexType /\ \A q \in Producers : q # p => ix2[q] = ix[q]
<1>1. PICK Record : Record = [key : Int, value : Blocks \cup {NoBlock}]
  OBVIOUS
<1>2. ix \in [Producers -> [Entries -> Record]] /\ ix[p] \in [Entries -> Record] /\ ix[p][e] \in Record
  BY <1>1 DEF IndexType
<1>3. ASSUME NEW r \in Record, ix2 = [ix EXCEPT ![p] = [ix[p] EXCEPT ![e] = r]]
      PROVE  ix2 \in IndexType /\ \A q \in Producers : q # p => ix2[q] = ix[q]
  <2>1. [ix[p] EXCEPT ![e] = r] \in [Entries -> Record]
    BY <1>2
  <2> QED
    BY <1>1, <1>2, <1>3, <2>1 DEF IndexType
<1>4. ASSUME NEW b \in Blocks \cup {NoBlock}, SetsValue(ix2, ix, p, e, b)
      PROVE  ix2 \in IndexType /\ \A q \in Producers : q # p => ix2[q] = ix[q]
  <2>1. [ix[p][e] EXCEPT !.value = b] \in Record
    BY <1>1, <1>2
  <2>2. ix2 = [ix EXCEPT ![p] = [ix[p] EXCEPT ![e] = [ix[p][e] EXCEPT !.value = b]]]
    BY <1>4 DEF SetsValue
  <2> QED
    BY <1>3, <2>1, <2>2
<1>5. ASSUME NEW k \in Int, SetsKey(ix2, ix, p, e, k)
      PROVE  ix2 \in IndexType /\ \A q \in Producers : q # p => ix2[q] = ix[q]
  <2>1. [ix[p][e] EXCEPT !.key = k] \in Record
    BY <1>1, <1>2
  <2>2. ix2 = [ix EXCEPT ![p] = [ix[p] EXCEPT ![e] = [ix[p][e] EXCEPT !.key = k]]]
    BY <1>5 DEF SetsKey
  <2> QED
    BY <1>3, <2>1, <2>2
<1> QED
  BY <1>4, <1>5

LEMMA InsertEntryQueue ==
    ASSUME LInv, QInv, NEW p \in Producers, InsertEntry(p)
    PROVE  QInv'
<1>1. PICK e : e = (indexTail[p] + 1) % IndexCapacity
  OBVIOUS
<1>2. index \in IndexType /\ indexTail \in [Producers -> Entries] /\ tailIndex \in [Producers -> Nat]
  BY DEF QInv, QueueTypes
<1>3. e \in Entries
  <2>1. PICK x \in Int : e = x % IndexCapacity
    <3>1. indexTail[p] \in Int
      BY <1>2, SizesAre DEF Entries
    <3> QED
      BY <1>1, <3>1
  <2> QED
    BY <2>1, SizesAre, ModRange DEF Entries
<1>4. pc[p] = "insert"
      /\ UNCHANGED <<cell, dequeued, registered, tailIndex, tailBlock, countVars, localVars>>
  BY DEF InsertEntry, blockVars, producerVars
<1>5. Ring(p, "insert", First(p), tailIndex[p], index[p], indexTail[p], tailBlock[p], cell, dequeued, Emptied(p))
  BY <1>4, RingNow, Zenon
<1>6. CASE FreeEntry(p, e)
  <2>1. /\ SetsKey(index', index, p, e, tailIndex[p]) /\ indexTail' = [indexTail EXCEPT ![p] = e]
        /\ Goto(p, "pool")
    BY <1>1, <1>6 DEF InsertEntry, SetsKey
  <2>2. pc'[p] = "pool" /\ \A t \in Threads : t # p => pc'[t] = pc[t]
    BY <2>1 DEF Goto, LInv, Control, Threads
  <2>3. tailIndex[p] \in Nat /\ tailIndex[p] \in Int
    BY <1>2
  <2>4. index' \in IndexType /\ \A q \in Producers : q # p => index'[q] = index[q]
    BY <1>2, <1>3, <2>1, <2>3, IndexTyped
  <2>5. \A q \in Producers, g \in Entries :
            /\ index'[q][g].key = IF q = p /\ g = e THEN tailIndex[p] ELSE index[q][g].key
            /\ index'[q][g].value = index[q][g].value
    BY <1>2, <1>3, <2>1, KeySet
  <2>6. indexTail' \in [Producers -> Entries] /\ indexTail'[p] = e
        /\ \A q \in Producers : q # p => indexTail'[q] = indexTail[q]
    BY <1>2, <1>3, <2>1
  <2>7. \A q \in Producers, g \in Entries : index[q][g].key # -1 => index'[q][g].key # -1
    BY <2>3, <2>5
  <2>8. ProducerFrame(p)
    BY <1>2, <1>4, <2>2, <2>4, <2>6, <2>7 DEF ProducerFrame
  <2>9. QueueTypes'
    BY <1>4, <2>4, <2>6 DEF QInv, QueueTypes, countVars, localVars
  <2>10. Ring(p, "pool", First(p), tailIndex[p], index'[p], e, tailBlock[p], cell, dequeued, Emptied(p))
    <3>1. index[p][e].value = NoBlock
      BY <1>6 DEF FreeEntry
    <3>2. index'[p] \in RingIndex
      BY <2>4 DEF IndexType, RingIndex
    <3>3. KeySetTo(index[p], index'[p], e, tailIndex[p])
      BY <2>5 DEF KeySetTo
    <3> QED
      BY <1>1, <1>5, <3>1, <3>2, <3>3, RingInsert, Zenon
  <2>11. Ring(p, pc'[p], First(p), tailIndex'[p], index'[p], indexTail'[p], tailBlock'[p],
              cell', dequeued', Emptied(p))
    BY <1>4, <2>2, <2>6, <2>10, Zenon
  <2>12. \A q \in Producers : BlocksKept(q)
    BY <1>4 DEF BlocksKept
  <2> QED
    BY <2>8, <2>9, <2>11, <2>12, ProducerStep
<1>7. CASE ~FreeEntry(p, e)
  <2>1. Goto(p, "out") /\ UNCHANGED indexVars
    BY <1>1, <1>7 DEF InsertEntry
  <2>2. Ring(p, "out", First(p), tailIndex[p], index[p], indexTail[p], tailBlock[p], cell, dequeued, Emptied(p))
    BY <1>5, RingLabel, Zenon
  <2>3. registered' \subseteq Producers
    BY <1>4 DEF QInv, QueueTypes
  <2> QED
    BY <1>4, <2>1, <2>2, <2>3, LabelStep
<1> QED
  BY <1>6, <1>7

LEMMA NoRoomQueue ==
    ASSUME LInv, QInv, NEW p \in Producers, NoRoom(p)
    PROVE  QInv'
<1>1. /\ pc[p] = "list" /\ Goto(p, "out")
      /\ indexTail' = [indexTail EXCEPT ![p] = (indexTail[p] - 1) % IndexCapacity]
      /\ UNCHANGED <<cell, dequeued, registered, tailIndex, tailBlock, countVars, index, localVars>>
  BY DEF NoRoom, blockVars, producerVars
<1>2. pc'[p] = "out" /\ \A t \in Threads : t # p => pc'[t] = pc[t]
  BY <1>1 DEF Goto, LInv, Control, Threads
<1>3. indexTail \in [Producers -> Entries] /\ tailIndex \in [Producers -> Nat]
  BY DEF QInv, QueueTypes
<1>4. PICK e : e = (indexTail[p] - 1) % IndexCapacity
  OBVIOUS
<1>5. e \in Entries
  <2>1. PICK x \in Int : e = x % IndexCapacity
    <3>1. indexTail[p] \in Int
      BY <1>3, SizesAre DEF Entries
    <3> QED
      BY <1>4, <3>1
  <2> QED
    BY <2>1, SizesAre, ModRange DEF Entries
<1>6. indexTail' \in [Producers -> Entries] /\ indexTail'[p] = e
      /\ \A q \in Producers : q # p => indexTail'[q] = indexTail[q]
  BY <1>1, <1>3, <1>4, <1>5
<1>7. ProducerFrame(p)
  BY <1>1, <1>2, <1>3, <1>6 DEF ProducerFrame
<1>8. QueueTypes'
  BY <1>1, <1>6 DEF QInv, QueueTypes, countVars, localVars
<1>9. Ring(p, pc'[p], First(p), tailIndex'[p], index'[p], indexTail'[p], tailBlock'[p],
           cell', dequeued', Emptied(p))
  <2>1. Ring(p, "list", First(p), tailIndex[p], index[p], indexTail[p], tailBlock[p], cell, dequeued, Emptied(p))
    BY <1>1, RingNow, Zenon
  <2>2. Ring(p, "out", First(p), tailIndex[p], index[p], e, tailBlock[p], cell, dequeued, Emptied(p))
    BY <1>4, <2>1, RingNoRoom, Zenon
  <2> QED
    BY <1>1, <1>2, <1>6, <2>2, Zenon
<1>10. \A q \in Producers : BlocksKept(q)
  BY <1>1 DEF BlocksKept
<1> QED
  BY <1>7, <1>8, <1>9, <1>10, ProducerStep

LEMMA WriteQueue ==
    ASSUME LInv, QInv, NEW pl, NEW n, NEW l, FState(pl, n, l), NEW p \in Producers, Write(p)
    PROVE  QInv'
<1>1. /\ pc[p] = "write" /\ Goto(p, "tail")
      /\ cell' = [cell EXCEPT ![tailBlock[p]][Offset(tailIndex[p])] = <<p, tailIndex[p]>>]
      /\ UNCHANGED <<dequeued, registered, tailIndex, tailBlock, countVars, index, indexTail, localVars>>
  BY DEF Write, producerVars, indexVars
<1>2. pc'[p] = "tail" /\ \A t \in Threads : t # p => pc'[t] = pc[t]
  BY <1>1 DEF Goto, LInv, Control, Threads
<1>3. tailIndex \in [Producers -> Nat] /\ index \in IndexType
      /\ cell \in [Blocks -> [0 .. BlockSize - 1 -> Values]]
  BY DEF QInv, QueueTypes
<1>4. Ring(p, "write", First(p), tailIndex[p], index[p], indexTail[p], tailBlock[p], cell, dequeued, Emptied(p))
  BY <1>1, RingNow, Zenon
<1>5. PICK e \in Entries : tailBlock[p] = index[p][e].value /\ index[p][e].value \in Blocks
  <2>1. PICK f \in Nat, t \in Nat : f = First(p) /\ t = tailIndex[p] /\ f <= t
    BY <1>4 DEF Ring
  <2>2. Slots(f, LastOf("write", t), index[p]) /\ tailBlock[p] = index[p][Slot(Number(t))].value
        /\ LastOf("write", t) \in Int
    BY <1>4, <2>1, LastIs DEF Ring, TailKnown, Writing
  <2>3. Number(t) \in Number(f) .. LastOf("write", t)
    <3>1. t \in f .. t
      BY <2>1
    <3>2. \A i \in f .. t : Number(i) \in Number(f) .. LastOf("write", t)
      BY <2>1, LiveItem DEF Writing
    <3> QED
      BY <3>1, <3>2
  <2>4. Slot(Number(t)) \in Entries /\ index[p][Slot(Number(t))].value \in Blocks
    BY <2>2, <2>3, SlotOf
  <2> QED
    BY <2>2, <2>4
<1>6. PICK b \in Blocks, o \in 0 .. BlockSize - 1, v \in Values :
          b = tailBlock[p] /\ o = Offset(tailIndex[p]) /\ v = <<p, tailIndex[p]>>
  <2>1. tailIndex[p] \in Nat /\ tailIndex[p] \in Int
    BY <1>3
  <2>2. Offset(tailIndex[p]) \in 0 .. BlockSize - 1
    BY <2>1, NumberParts
  <2>3. <<p, tailIndex[p]>> \in Values
    BY <2>1 DEF Values
  <2> QED
    BY <1>5, <2>2, <2>3
<1>7. cell' = [cell EXCEPT ![b] = [cell[b] EXCEPT ![o] = v]]
  BY <1>1, <1>6
<1>8. [cell[b] EXCEPT ![o] = v] \in [0 .. BlockSize - 1 -> Values]
  BY <1>3
<1>9. cell' \in [Blocks -> [0 .. BlockSize - 1 -> Values]] /\ cell'[b] = [cell[b] EXCEPT ![o] = v]
      /\ \A x \in Blocks : x # b => cell'[x] = cell[x]
  BY <1>3, <1>7, <1>8
<1>10. cell'[b][o] = v /\ \A g \in 0 .. BlockSize - 1 : g # o => cell'[b][g] = cell[b][g]
  BY <1>3, <1>9
<1>11. ProducerFrame(p)
  BY <1>1, <1>2, <1>3 DEF ProducerFrame
<1>12. QueueTypes'
  BY <1>1, <1>9 DEF QInv, QueueTypes, countVars, localVars
<1>13. Ring(p, pc'[p], First(p), tailIndex'[p], index'[p], indexTail'[p], tailBlock'[p],
            cell', dequeued', Emptied(p))
  <2>1. \A g, h \in Entries : index[p][g].value = index[p][h].value /\ index[p][g].value # NoBlock => g = h
    BY <1>3, OneUser DEF IndexType
  <2>2. /\ cell'[tailBlock[p]][Offset(tailIndex[p])] = <<p, tailIndex[p]>>
        /\ \A g \in 0 .. BlockSize - 1 : g # Offset(tailIndex[p]) => cell'[tailBlock[p]][g] = cell[tailBlock[p]][g]
        /\ \A x \in Blocks : x # tailBlock[p] => cell'[x] = cell[x]
    BY <1>6, <1>9, <1>10
  <2>3. Ring(p, "tail", First(p), tailIndex[p], index[p], indexTail[p], tailBlock[p], cell', dequeued, Emptied(p))
    BY <1>4, <2>1, <2>2, RingWrite, Zenon
  <2> QED
    BY <1>1, <1>2, <2>3, Zenon
<1>14. ASSUME NEW q \in Producers, q # p PROVE BlocksKept(q)
  <2>1. ASSUME NEW g \in Entries, index[q][g].value # NoBlock
        PROVE  index[q][g].value \in Blocks /\ index[q][g].value # b
    <3>1. index[q][g].value \in Blocks
      BY <1>3, <2>1 DEF IndexType
    <3> QED
      BY <1>5, <1>6, <1>14, <3>1, OneUser
  <2> QED
    BY <1>1, <1>9, <2>1 DEF BlocksKept
<1> QED
  BY <1>11, <1>12, <1>13, <1>14, ProducerStep

LEMMA PublishQueue ==
    ASSUME LInv, QInv, NEW pl, NEW n, NEW l, FState(pl, n, l), NEW p \in Producers, Publish(p)
    PROVE  QInv'
<1>1. /\ pc[p] = "publish" \/ (pc[p] = "list" /\ listPc[p] = "got")
      /\ Goto(p, "write") /\ dequeued' = [dequeued EXCEPT ![node[p]] = 0]
      /\ index' = [index EXCEPT ![p][indexTail[p]].value = node[p]]
      /\ tailBlock' = [tailBlock EXCEPT ![p] = node[p]]
      /\ UNCHANGED <<cell, registered, tailIndex, countVars, indexTail, localVars>>
  BY DEF Publish, ResetEmpty
<1>2. pc'[p] = "write" /\ \A t \in Threads : t # p => pc'[t] = pc[t]
  BY <1>1 DEF Goto, LInv, Control, Threads
<1>3. /\ tailIndex \in [Producers -> Nat] /\ index \in IndexType /\ indexTail \in [Producers -> Entries]
      /\ tailBlock \in [Producers -> Blocks \cup {NoBlock}] /\ dequeued \in [Blocks -> Int]
  BY DEF QInv, QueueTypes
<1>4. PICK b \in Blocks : b = node[p]
  BY <1>1 DEF LInv, Control, ListLocals, Threads
<1>5. PICK e \in Entries : e = indexTail[p]
  BY <1>3
<1>6. pl[b] = InHand(p)
  BY <1>1, <1>4 DEF FState, Placed, InHands, InCall, Threads
<1>7. \A q \in Producers, g \in Entries : index[q][g].value # b
  BY <1>6, PlacesDistinct DEF FState, Placed, InIndex
<1>8. SetsValue(index', index, p, e, b)
  BY <1>1, <1>4, <1>5 DEF SetsValue
<1>9. index' \in IndexType /\ \A q \in Producers : q # p => index'[q] = index[q]
  BY <1>3, <1>8, IndexTyped
<1>10. \A q \in Producers, g \in Entries :
           /\ index'[q][g].value = IF q = p /\ g = e THEN b ELSE index[q][g].value
           /\ index'[q][g].key = index[q][g].key
  BY <1>3, <1>8, ValueSet
<1>11. dequeued' \in [Blocks -> Int] /\ dequeued'[b] = 0 /\ \A x \in Blocks : x # b => dequeued'[x] = dequeued[x]
  BY <1>1, <1>3, <1>4
<1>12. tailBlock' \in [Producers -> Blocks \cup {NoBlock}] /\ tailBlock'[p] = b
       /\ \A q \in Producers : q # p => tailBlock'[q] = tailBlock[q]
  BY <1>1, <1>3, <1>4
<1>13. ProducerFrame(p)
  BY <1>1, <1>2, <1>3, <1>9, <1>10, <1>12 DEF ProducerFrame
<1>14. QueueTypes'
  BY <1>1, <1>9, <1>11, <1>12 DEF QInv, QueueTypes, countVars, localVars
<1>15. Ring(p, pc'[p], First(p), tailIndex'[p], index'[p], indexTail'[p], tailBlock'[p],
            cell', dequeued', Emptied(p))
  <2>1. index'[p] \in RingIndex
    BY <1>9 DEF IndexType, RingIndex
  <2>2. ValueSetTo(index[p], index'[p], e, b)
    BY <1>10 DEF ValueSetTo
  <2>3. pc[p] \in Publishing
    BY <1>1 DEF Publishing
  <2>4. Ring(p, pc[p], First(p), tailIndex[p], index[p], e, tailBlock[p], cell, dequeued, Emptied(p))
    BY <1>5, RingNow, Zenon
  <2>5. Ring(p, "write", First(p), tailIndex[p], index'[p], e, b, cell, dequeued', Emptied(p))
    <3>1. \A g \in Entries : index[p][g].value # b
      BY <1>7
    <3> QED
      BY <1>11, <2>1, <2>2, <2>3, <2>4, <3>1, RingPublish
  <2> QED
    BY <1>1, <1>2, <1>5, <1>12, <2>5, Zenon
<1>16. \A q \in Producers : BlocksKept(q)
  <2>1. \A q \in Producers, g \in Entries : index[q][g].value # NoBlock => index[q][g].value \in Blocks
    BY <1>3 DEF IndexType
  <2> QED
    BY <1>1, <1>7, <1>11, <2>1 DEF BlocksKept
<1> QED
  BY <1>13, <1>14, <1>15, <1>16, ProducerStep

-----------------------------------------------------------------------------
(* The queue, step by step: try_dequeue *)

LEMMA Alone ==
    ASSUME OneConsumer, NEW c \in Consumers
    PROVE  /\ \A q : Working(q) <=> producer[c] = q /\ pc[c] \in WorkLabels
           /\ \A q : Emptied(q) <=> producer[c] = q /\ pc[c] = "unpublish"
           /\ \A q : Counting(q) <=> producer[c] = q /\ pc[c] \in {"test", "head"}
           /\ \A q : Working(q)' <=> producer'[c] = q /\ pc'[c] \in WorkLabels
           /\ \A q : Emptied(q)' <=> producer'[c] = q /\ pc'[c] = "unpublish"
           /\ \A q : Counting(q)' <=> producer'[c] = q /\ pc'[c] \in {"test", "head"}
BY TheConsumer DEF Working, Emptied, Counting

ConsumerGoes(c, label) ==
    /\ pc'[c] = label /\ \A t \in Threads : t # c => pc'[t] = pc[t]
    /\ UNCHANGED <<registered, tailIndex, tailBlock, indexTail, dequeueOvercommit>>

LEMMA GotoIs ==
    ASSUME LInv, NEW c \in Consumers, NEW label, Goto(c, label),
           UNCHANGED <<registered, tailIndex, tailBlock, indexTail, dequeueOvercommit>>
    PROVE  ConsumerGoes(c, label)
BY DEF ConsumerGoes, Goto, LInv, Control, Threads

\* What is left to show of a step of the consumer c.
LEMMA ConsumerStep ==
    ASSUME OneConsumer, NEW c \in Consumers, QueueTypes', ConsumerOf(c)',
           \A q \in Producers : CountOf(q)', \A q \in Producers : RingOf(q)'
    PROVE  QInv'
<1>1. \A d \in Consumers : d = c
  BY TheConsumer
<1> QED
  BY <1>1 DEF QInv

\* A step that the blocks do not notice.
LEMMA QuietRing ==
    ASSUME QInv, OneConsumer, NEW c \in Consumers, NEW label, ConsumerGoes(c, label),
           UNCHANGED <<cell, dequeued, index>>,
           \A q \in Producers : First(q)' = First(q), pc[c] # "unpublish", label # "unpublish"
    PROVE  \A q \in Producers : RingOf(q)'
<1>1. SUFFICES ASSUME NEW q \in Producers PROVE RingOf(q)'
  OBVIOUS
<1>2. q \in Threads /\ q # c
  BY QueueAssumption DEF Threads
<1>3. ~Emptied(q) /\ ~Emptied(q)'
  BY Alone DEF ConsumerGoes
<1>4. RingFrame(q)
  BY <1>2, <1>3 DEF ConsumerGoes, RingFrame
<1>5. BlocksKept(q)
  BY DEF BlocksKept
<1> QED
  BY <1>4, <1>5, RingSame DEF QInv

LEMMA QuietFirst ==
    ASSUME OneConsumer, NEW c \in Consumers, NEW label, ConsumerGoes(c, label), headIndex' = headIndex,
           \/ pc[c] \notin WorkLabels /\ label \notin WorkLabels
           \/ pc[c] \in WorkLabels /\ label \in WorkLabels /\ producer' = producer
    PROVE  \A q \in Producers : First(q)' = First(q)
<1>1. \A q : Working(q)' <=> Working(q)
  BY Alone DEF ConsumerGoes
<1> QED
  BY <1>1 DEF First

LEMMA QuietCount ==
    ASSUME QInv, OneConsumer, NEW c \in Consumers, NEW label, ConsumerGoes(c, label),
           UNCHANGED <<headIndex, dequeueOptimisticCount>>,
           \/ pc[c] \notin {"test", "head"} /\ label \notin {"test", "head"}
           \/ pc[c] \in {"test", "head"} /\ label \in {"test", "head"} /\ producer' = producer
    PROVE  \A q \in Producers : CountOf(q)'
<1>1. \A q : Counting(q)' <=> Counting(q)
  BY Alone DEF ConsumerGoes
<1>2. \A q \in Producers : CountOf(q)
  BY DEF QInv
<1> QED
  BY <1>1, <1>2 DEF CountOf, ConsumerGoes

LEMMA ChooseQueue ==
    ASSUME LInv, QInv, OneConsumer, NEW c \in Consumers, Choose(c)
    PROVE  QInv'
<1>1. PICK p \in Producers : /\ headIndex[p] < tailIndex[p] /\ producer' = [producer EXCEPT ![c] = p]
                             /\ Goto(c, "check") /\ pc[c] = "out"
  BY DEF Choose, QInv, QueueTypes
<1>2. UNCHANGED <<cell, dequeued, registered, tailIndex, tailBlock, headIndex, dequeueOptimisticCount,
                  dequeueOvercommit, index, indexTail, tried, overcommit, myDequeueCount, myIndex,
                  myTail, entry, element>>
  BY DEF Choose, blockVars, producerVars, countVars, indexVars
<1>3. ConsumerGoes(c, "check")
  BY <1>1, <1>2, GotoIs
<1>4. producer' \in [Consumers -> Producers \cup {NoProducer}] /\ producer'[c] = p
  BY <1>1 DEF QInv, QueueTypes
<1>5. QueueTypes'
  BY <1>2, <1>4 DEF QInv, QueueTypes
<1>6. ConsumerOf(c)'
  BY <1>1, <1>2, <1>3, <1>4 DEF ConsumerOf, ConsumerGoes, WorkLabels
<1>7. \A q \in Producers : CountOf(q)'
  BY <1>1, <1>2, <1>3, QuietCount
<1>8. \A q \in Producers : RingOf(q)'
  BY <1>1, <1>2, <1>3, QuietFirst, QuietRing DEF WorkLabels
<1> QED
  BY <1>5, <1>6, <1>7, <1>8, ConsumerStep

\* With one consumer, an item that was there when it looked is still there.
LEMMA CheckQueue ==
    ASSUME LInv, QInv, OneConsumer, NEW c \in Consumers, Check(c)
    PROVE  QInv'
<1>1. PICK p \in Producers : p = producer[c] /\ headIndex[p] < tailIndex[p] /\ pc[c] = "check"
  BY DEF Check, QInv, ConsumerOf
<1>2. ~Counting(p)
  BY <1>1, Alone
<1>3. dequeueOptimisticCount[p] = headIndex[p] + 0 /\ dequeueOvercommit[p] = 0 /\ headIndex[p] \in Nat
  BY <1>2 DEF QInv, QueueTypes, CountOf
<1>4. dequeueOptimisticCount[p] - dequeueOvercommit[p] < tailIndex[p]
  BY <1>1, <1>3
<1>5. /\ overcommit' = [overcommit EXCEPT ![c] = 0] /\ Goto(c, "count")
      /\ UNCHANGED <<producer, tried, myDequeueCount, myIndex, myTail, entry, element>>
  BY <1>1, <1>3, <1>4 DEF Check
<1>6. UNCHANGED <<cell, dequeued, registered, tailIndex, tailBlock, headIndex, dequeueOptimisticCount,
                  dequeueOvercommit, index, indexTail>>
  BY DEF Check, blockVars, producerVars, countVars, indexVars
<1>7. ConsumerGoes(c, "count")
  BY <1>5, <1>6, GotoIs
<1>8. overcommit' = [d \in Consumers |-> 0]
  BY <1>5 DEF QInv, QueueTypes
<1>9. QueueTypes'
  BY <1>5, <1>6, <1>8 DEF QInv, QueueTypes
<1>10. ConsumerOf(c)'
  BY <1>1, <1>5, <1>6, <1>7 DEF ConsumerOf, ConsumerGoes, WorkLabels
<1>11. \A q \in Producers : CountOf(q)'
  BY <1>1, <1>6, <1>7, QuietCount
<1>12. \A q \in Producers : RingOf(q)'
  BY <1>1, <1>6, <1>7, QuietFirst, QuietRing DEF WorkLabels
<1> QED
  BY <1>9, <1>10, <1>11, <1>12, ConsumerStep

LEMMA CountQueue ==
    ASSUME LInv, QInv, OneConsumer, NEW c \in Consumers, Count(c)
    PROVE  QInv'
<1>1. PICK p \in Producers : p = producer[c] /\ headIndex[p] < tailIndex[p] /\ pc[c] = "count"
  BY DEF Count, QInv, ConsumerOf
<1>2. \A q \in Producers : ~Counting(q)
  BY <1>1, Alone
<1>3. headIndex \in [Producers -> Nat] /\ dequeueOptimisticCount \in [Producers -> Int]
      /\ myDequeueCount \in [Consumers -> Int]
  BY DEF QInv, QueueTypes
<1>4. \A q \in Producers : dequeueOptimisticCount[q] = headIndex[q] /\ headIndex[q] <= tailIndex[q]
  <2>1. SUFFICES ASSUME NEW q \in Producers
                 PROVE  dequeueOptimisticCount[q] = headIndex[q] /\ headIndex[q] <= tailIndex[q]
    OBVIOUS
  <2>2. headIndex[q] \in Nat
    BY <1>3
  <2>3. headIndex[q] <= tailIndex[q] /\ dequeueOptimisticCount[q] = headIndex[q] + 0
    BY <1>2 DEF QInv, CountOf
  <2> QED
    BY <2>2, <2>3
<1>5. /\ myDequeueCount' = [myDequeueCount EXCEPT ![c] = dequeueOptimisticCount[p]]
      /\ dequeueOptimisticCount' = [dequeueOptimisticCount EXCEPT ![p] = @ + 1] /\ Goto(c, "test")
      /\ UNCHANGED <<producer, tried, overcommit, myIndex, myTail, entry, element>>
      /\ UNCHANGED <<cell, dequeued, registered, tailIndex, tailBlock, headIndex,
                     dequeueOvercommit, index, indexTail>>
  BY <1>1 DEF Count, blockVars, producerVars, countVars, indexVars
<1>6. ConsumerGoes(c, "test")
  BY <1>5, GotoIs
<1>7. /\ myDequeueCount' \in [Consumers -> Int] /\ myDequeueCount'[c] = headIndex[p]
      /\ dequeueOptimisticCount' \in [Producers -> Int]
      /\ dequeueOptimisticCount'[p] = headIndex[p] + 1
      /\ \A q \in Producers : q # p => dequeueOptimisticCount'[q] = headIndex[q]
  BY <1>3, <1>4, <1>5
<1>8. QueueTypes'
  BY <1>5, <1>7 DEF QInv, QueueTypes
<1>9. ConsumerOf(c)'
  BY <1>1, <1>5, <1>6, <1>7 DEF ConsumerOf, ConsumerGoes, WorkLabels
<1>10. ASSUME NEW q \in Producers PROVE CountOf(q)'
  <2>1. Counting(q)' <=> q = p
    BY <1>1, <1>5, <1>6, Alone DEF ConsumerGoes
  <2> QED
    BY <1>3, <1>4, <1>5, <1>7, <2>1 DEF CountOf
<1>11. \A q \in Producers : RingOf(q)'
  BY <1>1, <1>5, <1>6, QuietFirst, QuietRing DEF WorkLabels
<1> QED
  BY <1>8, <1>9, <1>10, <1>11, ConsumerStep

LEMMA TestQueue ==
    ASSUME LInv, QInv, OneConsumer, NEW c \in Consumers, Test(c)
    PROVE  QInv'
<1>1. PICK p \in Producers : p = producer[c] /\ headIndex[p] < tailIndex[p] /\ pc[c] = "test"
                             /\ myDequeueCount[c] = headIndex[p]
  BY DEF Test, QInv, ConsumerOf
<1>2. myDequeueCount[c] - overcommit[c] < tailIndex[p]
  BY <1>1 DEF QInv, QueueTypes
<1>3. Goto(c, "head") /\ UNCHANGED <<dequeueOvercommit, localVars>>
  BY <1>1, <1>2 DEF Test
<1>4. UNCHANGED <<cell, dequeued, registered, tailIndex, tailBlock, headIndex, dequeueOptimisticCount,
                  index, indexTail>>
  BY DEF Test, blockVars, producerVars, indexVars
<1>5. ConsumerGoes(c, "head")
  BY <1>3, <1>4, GotoIs
<1>6. QueueTypes'
  BY <1>3, <1>4 DEF QInv, QueueTypes, localVars
<1>7. ConsumerOf(c)'
  BY <1>1, <1>3, <1>4, <1>5 DEF ConsumerOf, ConsumerGoes, WorkLabels, localVars
<1>8. \A q \in Producers : CountOf(q)'
  BY <1>1, <1>3, <1>4, <1>5, QuietCount DEF localVars
<1>9. \A q \in Producers : RingOf(q)'
  BY <1>1, <1>4, <1>5, QuietFirst, QuietRing DEF WorkLabels
<1> QED
  BY <1>6, <1>7, <1>8, <1>9, ConsumerStep

LEMMA TakeIndexQueue ==
    ASSUME LInv, QInv, OneConsumer, NEW c \in Consumers, TakeIndex(c)
    PROVE  QInv'
<1>1. PICK p \in Producers : p = producer[c] /\ headIndex[p] < tailIndex[p] /\ pc[c] = "head"
  BY DEF TakeIndex, QInv, ConsumerOf
<1>2. headIndex \in [Producers -> Nat] /\ tailIndex \in [Producers -> Nat] /\ myIndex \in [Consumers -> Nat]
  BY DEF QInv, QueueTypes
<1>3. \A q \in Producers : headIndex[q] <= tailIndex[q]
         /\ dequeueOptimisticCount[q] = IF q = p THEN headIndex[q] + 1 ELSE headIndex[q]
  <2>1. \A q \in Producers : Counting(q) <=> q = p
    BY <1>1, Alone
  <2>2. SUFFICES ASSUME NEW q \in Producers
                 PROVE  /\ headIndex[q] <= tailIndex[q]
                        /\ dequeueOptimisticCount[q] = IF q = p THEN headIndex[q] + 1 ELSE headIndex[q]
    OBVIOUS
  <2>3. headIndex[q] \in Nat
    BY <1>2
  <2>4. headIndex[q] <= tailIndex[q]
        /\ dequeueOptimisticCount[q] = headIndex[q] + (IF q = p THEN 1 ELSE 0)
    BY <2>1 DEF QInv, CountOf
  <2> QED
    BY <2>3, <2>4
<1>4. /\ myIndex' = [myIndex EXCEPT ![c] = headIndex[p]]
      /\ headIndex' = [headIndex EXCEPT ![p] = @ + 1] /\ Goto(c, "index tail")
      /\ UNCHANGED <<producer, tried, overcommit, myDequeueCount, myTail, entry, element>>
      /\ UNCHANGED <<cell, dequeued, registered, tailIndex, tailBlock, dequeueOptimisticCount,
                     dequeueOvercommit, index, indexTail>>
  BY <1>1 DEF TakeIndex, blockVars, producerVars, indexVars
<1>5. ConsumerGoes(c, "index tail")
  BY <1>4, GotoIs
<1>6. /\ headIndex' \in [Producers -> Nat] /\ myIndex' \in [Consumers -> Nat]
      /\ headIndex'[p] = headIndex[p] + 1 /\ myIndex'[c] = headIndex[p] /\ headIndex[p] \in Nat
      /\ \A q \in Producers : q # p => headIndex'[q] = headIndex[q]
  <2>1. headIndex[p] \in Nat
    BY <1>2
  <2>2. myIndex' \in [Consumers -> Nat] /\ myIndex'[c] = headIndex[p]
    BY <1>2, <1>4, <2>1
  <2>3. /\ headIndex' \in [Producers -> Nat] /\ headIndex'[p] = headIndex[p] + 1
        /\ \A q \in Producers : q # p => headIndex'[q] = headIndex[q]
    <3>1. PICK k \in Nat : k = headIndex[p] + 1
      BY <2>1
    <3>2. headIndex' = [headIndex EXCEPT ![p] = k] /\ headIndex \in [Producers -> Nat]
      BY <1>2, <1>4, <3>1
    <3> QED
      BY <3>1, <3>2
  <2> QED
    BY <2>1, <2>2, <2>3
<1>7. QueueTypes'
  BY <1>4, <1>6 DEF QInv, QueueTypes
<1>8. ConsumerOf(c)'
  BY <1>1, <1>4, <1>5, <1>6 DEF ConsumerOf, ConsumerGoes
<1>9. ASSUME NEW q \in Producers PROVE CountOf(q)'
  <2>1. ~Counting(q)'
    BY <1>5, Alone DEF ConsumerGoes
  <2>2. headIndex'[q] \in Nat /\ tailIndex[q] \in Nat /\ headIndex'[q] <= tailIndex[q]
        /\ dequeueOptimisticCount[q] = headIndex'[q]
    <3>1. headIndex[q] \in Nat /\ tailIndex[q] \in Nat
      BY <1>2
    <3>2. CASE q = p
      BY <1>1, <1>3, <1>6, <3>1, <3>2
    <3>3. CASE q # p
      BY <1>3, <1>6, <3>1, <3>3
    <3> QED
      BY <3>2, <3>3
  <2>3. dequeueOptimisticCount[q] = headIndex'[q] + (IF Counting(q)' THEN 1 ELSE 0)
    BY <2>1, <2>2
  <2> QED
    BY <1>4, <2>2, <2>3 DEF CountOf
<1>10. ASSUME NEW q \in Producers PROVE First(q)' = First(q)
  <2>1. ~Working(q) /\ (Working(q)' <=> q = p)
    BY <1>1, <1>4, <1>5, Alone DEF ConsumerGoes, WorkLabels
  <2> QED
    BY <1>6, <2>1 DEF First
<1>11. \A q \in Producers : RingOf(q)'
  BY <1>1, <1>4, <1>5, <1>10, QuietRing
<1> QED
  BY <1>7, <1>8, <1>9, <1>11, ConsumerStep

LEMMA WorkingRing ==
    ASSUME QInv, OneConsumer, NEW c \in Consumers, pc[c] \in WorkLabels
    PROVE  \E p \in Producers, f \in Nat, t \in Nat, m \in Int :
              /\ p = producer[c] /\ f = First(p) /\ f = myIndex[c] /\ t = tailIndex[p] /\ f < t
              /\ headIndex[p] = f + 1 /\ m = LastOf(pc[p], t) /\ Slots(f, m, index[p])
              /\ Number(f) \in Number(f) .. m
              /\ Ring(p, pc[p], f, t, index[p], indexTail[p], tailBlock[p], cell, dequeued, pc[c] = "unpublish")
<1>1. PICK p \in Producers, f \in Nat, t \in Nat :
          p = producer[c] /\ f = First(p) /\ f = myIndex[c] /\ t = tailIndex[p] /\ f < t
  BY WorkingAt
<1>2. headIndex[p] = f + 1
  BY <1>1 DEF QInv, ConsumerOf
<1>3. Ring(p, pc[p], f, t, index[p], indexTail[p], tailBlock[p], cell, dequeued, pc[c] = "unpublish")
  <2>1. Ring(p, pc[p], First(p), tailIndex[p], index[p], indexTail[p], tailBlock[p], cell, dequeued, Emptied(p))
    BY RingNow
  <2>2. Emptied(p) <=> pc[c] = "unpublish"
    BY <1>1, Alone
  <2>3. Emptied(p) = (pc[c] = "unpublish")
    BY <2>2 DEF Emptied
  <2> QED
    BY <1>1, <2>1, <2>3, Zenon
<1>4. PICK m \in Int : m = LastOf(pc[p], t) /\ Slots(f, m, index[p])
  BY <1>3, LastIs DEF Ring
<1>5. Number(f) \in Number(f) .. m
  <2>1. f \in f .. t
    BY <1>1
  <2>3. f <= t
    BY <1>1
  <2>2. \A i \in f .. t : i < t => Number(i) \in Number(f) .. LastOf(pc[p], t)
    BY <2>3, LiveItem
  <2> QED
    BY <1>1, <1>4, <2>1, <2>2
<1> QED
  BY <1>1, <1>2, <1>3, <1>4, <1>5

LEMMA LoadIndexTailQueue ==
    ASSUME LInv, QInv, OneConsumer, NEW c \in Consumers, LoadIndexTail(c)
    PROVE  QInv'
<1>1. pc[c] = "index tail" /\ myTail' = [myTail EXCEPT ![c] = indexTail[producer[c]]] /\ Goto(c, "index")
      /\ UNCHANGED <<producer, tried, overcommit, myDequeueCount, myIndex, entry, element>>
      /\ UNCHANGED <<cell, dequeued, registered, tailIndex, tailBlock, headIndex, dequeueOptimisticCount,
                     dequeueOvercommit, index, indexTail>>
  BY DEF LoadIndexTail, blockVars, producerVars, countVars, indexVars
<1>2. ConsumerGoes(c, "index")
  BY <1>1, GotoIs
<1>3. PICK p \in Producers, f \in Nat, t \in Nat, m \in Int :
          /\ p = producer[c] /\ f = myIndex[c] /\ headIndex[p] = f + 1 /\ m = LastOf(pc[p], t)
          /\ Number(f) \in Number(f) .. m
          /\ Ring(p, pc[p], f, t, index[p], indexTail[p], tailBlock[p], cell, dequeued, pc[c] = "unpublish")
  BY <1>1, WorkingRing DEF WorkLabels
<1>4. index[p][indexTail[p]].key # -1
  <2>1. TailAt(pc[p], t, index[p], indexTail[p])
    BY <1>3 DEF Ring
  <2>2. m >= 0
    BY <1>3, NumberNat
  <2> QED
    BY <1>3, <2>1, <2>2 DEF TailAt
<1>5. myTail' \in [Consumers -> Entries] /\ myTail'[c] = indexTail[p]
  BY <1>1, <1>3 DEF QInv, QueueTypes
<1>6. QueueTypes'
  BY <1>1, <1>5 DEF QInv, QueueTypes
<1>7. ConsumerOf(c)'
  BY <1>1, <1>2, <1>3, <1>4, <1>5 DEF ConsumerOf, ConsumerGoes
<1>8. \A q \in Producers : CountOf(q)'
  BY <1>1, <1>2, QuietCount
<1>9. \A q \in Producers : RingOf(q)'
  BY <1>1, <1>2, QuietFirst, QuietRing DEF WorkLabels
<1> QED
  BY <1>6, <1>7, <1>8, <1>9, ConsumerStep

\* The entry found from the key of the tail is the one of the block with the index.
LEMMA FindEntryQueue ==
    ASSUME LInv, QInv, OneConsumer, NEW c \in Consumers, FindEntry(c)
    PROVE  QInv'
<1>1. pc[c] = "index" /\ entry' = [entry EXCEPT ![c] = EntryAt(producer[c], myTail[c], myIndex[c])]
      /\ Goto(c, "read")
      /\ UNCHANGED <<producer, tried, overcommit, myDequeueCount, myIndex, myTail, element>>
      /\ UNCHANGED <<cell, dequeued, registered, tailIndex, tailBlock, headIndex, dequeueOptimisticCount,
                     dequeueOvercommit, index, indexTail>>
  BY DEF FindEntry, blockVars, producerVars, countVars, indexVars
<1>2. ConsumerGoes(c, "read")
  BY <1>1, GotoIs
<1>3. PICK p \in Producers, f \in Nat, m \in Int :
          p = producer[c] /\ f = myIndex[c] /\ headIndex[p] = f + 1 /\ Slots(f, m, index[p])
  BY <1>1, WorkingRing DEF WorkLabels
<1>4. EntryAt(p, myTail[c], f) = Slot(Number(f))
  <2>1. PICK e \in Entries : e = myTail[c]
    BY DEF QInv, QueueTypes
  <2>2. index[p][e].key # -1
    BY <1>1, <1>3, <2>1 DEF QInv, ConsumerOf
  <2>3. PICK k \in Nat : k = index[p][e].key /\ Offset(k) = 0 /\ Slot(Number(k)) = e
    BY <1>3, <2>2 DEF Slots
  <2>4. PICK a \in Int, b \in Int : a = Number(k) /\ b = Number(f)
    BY NumberNat
  <2>5. (BlockBase(f) - k) \div BlockSize = b - a
    <3>1. k \in Int /\ f \in Int
      OBVIOUS
    <3> QED
      BY <2>3, <2>4, <3>1, KeyDistance
  <2>6. PICK d \in Int : d = b - a /\ a + d = b
    OBVIOUS
  <2>7. (Slot(a) + d) % IndexCapacity = Slot(a + d)
    BY SlotAt
  <2>8. EntryAt(p, e, f) = (e + d) % IndexCapacity
    BY <2>3, <2>5, <2>6 DEF EntryAt
  <2> QED
    BY <2>1, <2>3, <2>4, <2>6, <2>7, <2>8, Zenon
<1>5. Slot(Number(f)) \in Entries
  BY NumberNat, SlotAt
<1>6. entry' \in [Consumers -> Entries] /\ entry'[c] = Slot(Number(f))
  BY <1>1, <1>3, <1>4, <1>5 DEF QInv, QueueTypes
<1>7. QueueTypes'
  BY <1>1, <1>6 DEF QInv, QueueTypes
<1>8. ConsumerOf(c)'
  BY <1>1, <1>2, <1>3, <1>6 DEF ConsumerOf, ConsumerGoes
<1>9. \A q \in Producers : CountOf(q)'
  BY <1>1, <1>2, QuietCount
<1>10. \A q \in Producers : RingOf(q)'
  BY <1>1, <1>2, QuietFirst, QuietRing DEF WorkLabels
<1> QED
  BY <1>7, <1>8, <1>9, <1>10, ConsumerStep

LEMMA ReadQueue ==
    ASSUME LInv, QInv, OneConsumer, NEW c \in Consumers, Read(c)
    PROVE  QInv'
<1>1. pc[c] = "read" /\ Goto(c, "set empty")
      /\ element' = [element EXCEPT ![c] = IF BlockFor(c) = NoBlock THEN NoItem
                                           ELSE cell[BlockFor(c)][Offset(myIndex[c])]]
      /\ UNCHANGED <<producer, tried, overcommit, myDequeueCount, myIndex, myTail, entry>>
      /\ UNCHANGED <<cell, dequeued, registered, tailIndex, tailBlock, headIndex, dequeueOptimisticCount,
                     dequeueOvercommit, index, indexTail>>
  BY DEF Read, blockVars, producerVars, countVars, indexVars
<1>2. ConsumerGoes(c, "set empty")
  BY <1>1, GotoIs
<1>3. PICK p \in Producers, f \in Nat, t \in Nat, m \in Int :
          /\ p = producer[c] /\ f = myIndex[c] /\ f < t /\ headIndex[p] = f + 1
          /\ Slots(f, m, index[p]) /\ Number(f) \in Number(f) .. m
          /\ Ring(p, pc[p], f, t, index[p], indexTail[p], tailBlock[p], cell, dequeued, pc[c] = "unpublish")
  BY <1>1, WorkingRing DEF WorkLabels
<1>4. entry[c] = Slot(Number(f))
  BY <1>1, <1>3 DEF QInv, ConsumerOf
<1>5. BlockFor(c) = index[p][Slot(Number(f))].value /\ BlockFor(c) # NoBlock
  BY <1>3, <1>4, SlotOf, BlocksAreNot DEF BlockFor
<1>6. cell[index[p][Slot(Number(f))].value][Offset(f)] = <<p, f>>
  <2>1. f \in f .. t
    BY <1>3
  <2> QED
    BY <1>3, <2>1 DEF Ring, Filled
<1>7. element' \in [Consumers -> Values] /\ element'[c] = <<p, f>>
  <2>1. <<p, f>> \in Values
    BY DEF Values
  <2>2. element' = [element EXCEPT ![c] = <<p, f>>]
    BY <1>1, <1>3, <1>5, <1>6
  <2> QED
    BY <2>1, <2>2 DEF QInv, QueueTypes
<1>8. QueueTypes'
  BY <1>1, <1>7 DEF QInv, QueueTypes
<1>9. ConsumerOf(c)'
  BY <1>1, <1>2, <1>3, <1>4, <1>7 DEF ConsumerOf, ConsumerGoes
<1>10. \A q \in Producers : CountOf(q)'
  BY <1>1, <1>2, QuietCount
<1>11. \A q \in Producers : RingOf(q)'
  BY <1>1, <1>2, QuietFirst, QuietRing DEF WorkLabels
<1> QED
  BY <1>8, <1>9, <1>10, <1>11, ConsumerStep

LEMMA ReturnIs ==
    ASSUME LInv, QInv, NEW c \in Consumers, Return(c),
           UNCHANGED <<registered, tailIndex, tailBlock, headIndex, dequeueOptimisticCount,
                       dequeueOvercommit, indexTail>>
    PROVE  ConsumerGoes(c, "out") /\ ConsumerOf(c)' /\ producer'[c] = NoProducer
           /\ (index' \in IndexType /\ cell' = cell /\ dequeued' \in [Blocks -> Int] => QueueTypes')
<1>1. Goto(c, "out")
  BY DEF Return
<1>2. ConsumerGoes(c, "out")
  BY <1>1, GotoIs
<1>3. 0 \in Entries
  BY SizesAre DEF Entries
<1>4. /\ producer' \in [Consumers -> Producers \cup {NoProducer}] /\ producer'[c] = NoProducer
      /\ tried' \in [Consumers -> SUBSET Producers]
  BY DEF Return, QInv, QueueTypes
<1>5. overcommit' = [d \in Consumers |-> 0] /\ myDequeueCount' \in [Consumers -> Int]
  BY DEF Return, QInv, QueueTypes
<1>6. myIndex' \in [Consumers -> Nat] /\ myTail' \in [Consumers -> Entries] /\ entry' \in [Consumers -> Entries]
  BY <1>3 DEF Return, QInv, QueueTypes
<1>7. element' \in [Consumers -> Values]
  BY DEF Return, QInv, QueueTypes, Values
<1>8. ConsumerOf(c)'
  BY <1>2 DEF ConsumerGoes, ConsumerOf, WorkLabels
<1>9. index' \in IndexType /\ cell' = cell /\ dequeued' \in [Blocks -> Int] => QueueTypes'
  BY <1>4, <1>5, <1>6, <1>7 DEF QInv, QueueTypes
<1> QED
  BY <1>2, <1>4, <1>8, <1>9

LEMMA EndDequeueQueue ==
    ASSUME LInv, QInv, OneConsumer, NEW c \in Consumers, EndDequeue(c)
    PROVE  QInv'
<1>1. /\ pc[c] = "add" /\ Return(c)
      /\ UNCHANGED <<cell, dequeued, registered, tailIndex, tailBlock, headIndex, dequeueOptimisticCount,
                     dequeueOvercommit, index, indexTail>>
  BY DEF EndDequeue, blockVars, producerVars, countVars, indexVars
<1>2. ConsumerGoes(c, "out") /\ ConsumerOf(c)'
  BY <1>1, ReturnIs
<1>3. QueueTypes'
  <2>1. index' \in IndexType /\ dequeued' \in [Blocks -> Int]
    BY <1>1 DEF QInv, QueueTypes
  <2> QED
    BY <1>1, <2>1, ReturnIs
<1>4. \A q \in Producers : CountOf(q)'
  BY <1>1, <1>2, QuietCount
<1>5. \A q \in Producers : RingOf(q)'
  BY <1>1, <1>2, QuietFirst, QuietRing DEF WorkLabels
<1> QED
  BY <1>2, <1>3, <1>4, <1>5, ConsumerStep

\* The steps of the free list are not noticed here.
LEMMA QueueSame ==
    ASSUME QInv, UNCHANGED <<blockVars, producerVars, countVars, indexVars, pc, localVars>>
    PROVE  QInv'
<1> USE DEF blockVars, producerVars, countVars, indexVars, localVars
<1>1. QueueTypes'
  BY DEF QInv, QueueTypes
<1>2. \A q \in Producers : CountOf(q)' /\ RingOf(q)'
  BY DEF QInv, CountOf, RingOf, First, Working, Emptied, Counting
<1>3. \A c \in Consumers : ConsumerOf(c)'
  BY DEF QInv, ConsumerOf
<1> QED
  BY <1>1, <1>2, <1>3 DEF QInv

LEMMA SetEmptyQueue ==
    ASSUME LInv, QInv, NEW pl, NEW n, NEW l, FState(pl, n, l), OneConsumer, NEW c \in Consumers, SetEmpty(c)
    PROVE  QInv'
<1>1. /\ pc[c] = "set empty" /\ dequeued' = [dequeued EXCEPT ![BlockFor(c)] = @ + 1]
      /\ IF dequeued'[BlockFor(c)] = BlockSize THEN Goto(c, "unpublish") /\ UNCHANGED localVars ELSE Return(c)
      /\ UNCHANGED <<cell, registered, tailIndex, tailBlock, headIndex, dequeueOptimisticCount,
                     dequeueOvercommit, index, indexTail>>
  BY DEF SetEmpty, producerVars, countVars, indexVars
<1>2. PICK p \in Producers, f \in Nat, t \in Nat, m \in Int :
          /\ p = producer[c] /\ f = First(p) /\ f = myIndex[c] /\ t = tailIndex[p] /\ f < t
          /\ headIndex[p] = f + 1
          /\ Slots(f, m, index[p]) /\ Number(f) \in Number(f) .. m
          /\ Ring(p, pc[p], f, t, index[p], indexTail[p], tailBlock[p], cell, dequeued, pc[c] = "unpublish")
  BY <1>1, WorkingRing DEF WorkLabels
<1>3. entry[c] = Slot(Number(f)) /\ element[c] = <<p, f>>
  BY <1>1, <1>2 DEF QInv, ConsumerOf
<1>4. PICK b \in Blocks : b = BlockFor(c) /\ b = index[p][Slot(Number(f))].value
  BY <1>2, <1>3, SlotOf DEF BlockFor
<1>5. dequeued \in [Blocks -> Int] /\ index \in IndexType
  BY DEF QInv, QueueTypes
<1>6. dequeued' \in [Blocks -> Int] /\ dequeued'[b] = dequeued[b] + 1
      /\ \A x \in Blocks : x # b => dequeued'[x] = dequeued[x]
  <2>1. PICK k \in Int : k = dequeued[b] + 1
    BY <1>5
  <2>2. dequeued' = [dequeued EXCEPT ![b] = k] /\ dequeued \in [Blocks -> Int]
    BY <1>1, <1>4, <1>5, <2>1
  <2> QED
    BY <2>1, <2>2
<1>7. Slot(Number(f)) \in Entries
  BY NumberNat, SlotAt
<1>8. \A g, h \in Entries : index[p][g].value = index[p][h].value /\ index[p][g].value # NoBlock => g = h
  BY <1>5, OneUser DEF IndexType
<1>9. /\ dequeued'[b] = BlockSize =>
            Ring(p, pc[p], f, t, index[p], indexTail[p], tailBlock[p], cell, dequeued', TRUE)
      /\ dequeued'[b] # BlockSize =>
            Ring(p, pc[p], f + 1, t, index[p], indexTail[p], tailBlock[p], cell, dequeued', FALSE)
  <2>1. (pc[c] = "unpublish") = FALSE
    BY <1>1
  <2>2. Ring(p, pc[p], f, t, index[p], indexTail[p], tailBlock[p], cell, dequeued, FALSE)
    BY <1>2, <2>1, Zenon
  <2> QED
    <3>1. f < t /\ b = index[p][Slot(Number(f))].value
      BY <1>2, <1>4
    <3>2. PICK label, ix, it, tb, dq, dq2 :
             /\ label = pc[p] /\ ix = index[p] /\ it = indexTail[p] /\ tb = tailBlock[p]
             /\ dq = dequeued /\ dq2 = dequeued'
      OBVIOUS
    <3>3. Ring(p, label, f, t, ix, it, tb, cell, dq, FALSE)
      BY <2>2, <3>2, Zenon
    <3>4. b = ix[Slot(Number(f))].value /\ CountsOne(dq2, dq, b) /\ Apart(ix)
      BY <1>6, <1>8, <3>1, <3>2 DEF CountsOne, Apart
    <3>5. /\ dq2[b] = BlockSize => Ring(p, label, f, t, ix, it, tb, cell, dq2, TRUE)
          /\ dq2[b] # BlockSize => Ring(p, label, f + 1, t, ix, it, tb, cell, dq2, FALSE)
      BY <3>1, <3>3, <3>4, RingCount
    <3> QED
      BY <3>2, <3>5, Zenon
<1>10. \A q \in Producers : BlocksKept(q) \/ q = p
  <2>1. ASSUME NEW q \in Producers, q # p, NEW g \in Entries, index[q][g].value # NoBlock
        PROVE  index[q][g].value \in Blocks /\ index[q][g].value # b
    <3>1. index[q][g].value \in Blocks
      BY <1>5, <2>1 DEF IndexType
    <3> QED
      BY <1>4, <1>7, <2>1, <3>1, OneUser
  <2> QED
    BY <1>1, <1>6, <2>1 DEF BlocksKept
<1>11. \A q \in Producers : q \in Threads /\ q # c
  BY QueueAssumption DEF Threads
<1>12. \A q \in Producers : (Working(q) <=> q = p) /\ ~Emptied(q)
  BY <1>1, <1>2, Alone DEF WorkLabels
<1>13. CASE dequeued'[b] = BlockSize
  <2>1. Goto(c, "unpublish") /\ UNCHANGED localVars
    BY <1>1, <1>4, <1>13
  <2>2. ConsumerGoes(c, "unpublish")
    BY <1>1, <2>1, GotoIs
  <2>3. QueueTypes'
    BY <1>1, <1>6, <2>1 DEF QInv, QueueTypes, localVars
  <2>4. ConsumerOf(c)'
    BY <1>1, <1>2, <1>3, <2>1, <2>2 DEF ConsumerOf, ConsumerGoes, localVars
  <2>5. \A q \in Producers : CountOf(q)'
    BY <1>1, <2>2, QuietCount
  <2>6. \A q \in Producers : (Working(q)' <=> q = p) /\ (Emptied(q)' <=> q = p)
    BY <1>2, <2>1, <2>2, Alone DEF ConsumerGoes, WorkLabels, localVars
  <2>7. \A q \in Producers : First(q)' = First(q)
    BY <1>1, <1>12, <2>6 DEF First
  <2>8. ASSUME NEW q \in Producers PROVE RingOf(q)'
    <3>1. CASE q = p
      <4>1. Emptied(p)' = TRUE
        BY <2>6 DEF Emptied
      <4>2. First(p)' = f /\ pc'[p] = pc[p]
        BY <1>2, <1>11, <2>2, <2>7 DEF ConsumerGoes
      <4>3. Ring(p, pc[p], f, t, index[p], indexTail[p], tailBlock[p], cell, dequeued', TRUE)
        BY <1>9, <1>13
      <4>4. RingOf(p)'
        BY <1>1, <1>2, <4>1, <4>2, <4>3, Zenon DEF RingOf
      <4> QED
        BY <3>1, <4>4
    <3>2. CASE q # p
      <4>1. RingFrame(q)
        BY <1>1, <1>11, <1>12, <2>2, <2>6, <2>7, <3>2 DEF RingFrame, ConsumerGoes
      <4> QED
        BY <1>10, <3>2, <4>1, RingSame DEF QInv
    <3> QED
      BY <3>1, <3>2
  <2> QED
    BY <2>3, <2>4, <2>5, <2>8, ConsumerStep
<1>14. CASE dequeued'[b] # BlockSize
  <2>1. Return(c)
    BY <1>1, <1>4, <1>14
  <2>2. ConsumerGoes(c, "out") /\ ConsumerOf(c)'
    BY <1>1, <2>1, ReturnIs
  <2>3. QueueTypes'
    <3>1. index' \in IndexType
      BY <1>1, <1>5
    <3> QED
      BY <1>1, <1>6, <2>1, <3>1, ReturnIs
  <2>4. \A q \in Producers : CountOf(q)'
    BY <1>1, <2>2, QuietCount
  <2>5. \A q \in Producers : ~Working(q)' /\ ~Emptied(q)'
    BY <2>2, Alone DEF ConsumerGoes, WorkLabels
  <2>6. \A q \in Producers : First(q)' = IF q = p THEN f + 1 ELSE First(q)
    BY <1>1, <1>2, <1>12, <2>5 DEF First
  <2>7. ASSUME NEW q \in Producers PROVE RingOf(q)'
    <3>1. CASE q = p
      <4>1. Emptied(p)' = FALSE
        BY <2>5 DEF Emptied
      <4>2. First(p)' = f + 1 /\ pc'[p] = pc[p]
        BY <1>11, <2>2, <2>6 DEF ConsumerGoes
      <4>3. Ring(p, pc[p], f + 1, t, index[p], indexTail[p], tailBlock[p], cell, dequeued', FALSE)
        BY <1>9, <1>14
      <4>4. RingOf(p)'
        BY <1>1, <1>2, <4>1, <4>2, <4>3, Zenon DEF RingOf
      <4> QED
        BY <3>1, <4>4
    <3>2. CASE q # p
      <4>1. RingFrame(q)
        BY <1>1, <1>11, <1>12, <2>2, <2>5, <2>6, <3>2 DEF RingFrame, ConsumerGoes
      <4> QED
        BY <1>10, <3>2, <4>1, RingSame DEF QInv
    <3> QED
      BY <3>1, <3>2
  <2> QED
    BY <2>2, <2>3, <2>4, <2>7, ConsumerStep
<1> QED
  BY <1>13, <1>14

LEMMA UnpublishQueue ==
    ASSUME LInv, QInv, OneConsumer, NEW c \in Consumers, Unpublish(c)
    PROVE  QInv'
<1>1. /\ pc[c] = "unpublish" /\ Goto(c, "add")
      /\ index' = [index EXCEPT ![producer[c]][entry[c]].value = NoBlock]
      /\ UNCHANGED <<cell, dequeued, registered, tailIndex, tailBlock, headIndex, dequeueOptimisticCount,
                     dequeueOvercommit, indexTail>> /\ UNCHANGED localVars
  BY DEF Unpublish, blockVars, producerVars, countVars
<1>2. PICK p \in Producers, f \in Nat, t \in Nat, m \in Int :
          /\ p = producer[c] /\ f = First(p) /\ f = myIndex[c] /\ t = tailIndex[p] /\ f < t
          /\ headIndex[p] = f + 1
          /\ Ring(p, pc[p], f, t, index[p], indexTail[p], tailBlock[p], cell, dequeued, pc[c] = "unpublish")
  BY <1>1, WorkingRing DEF WorkLabels
<1>3. entry[c] = Slot(Number(f)) /\ element[c] = <<p, f>>
  BY <1>1, <1>2 DEF QInv, ConsumerOf
<1>4. PICK e \in Entries : e = Slot(Number(f))
  BY NumberNat, SlotAt
<1>5. SetsValue(index', index, p, e, NoBlock) /\ index \in IndexType
  BY <1>1, <1>2, <1>3, <1>4 DEF SetsValue, QInv, QueueTypes
<1>6. index' \in IndexType /\ \A q \in Producers : q # p => index'[q] = index[q]
  BY <1>5, IndexTyped
<1>7. ValueSetTo(index[p], index'[p], e, NoBlock) /\ index'[p] \in RingIndex
  <2>1. index'[p] \in RingIndex
    BY <1>6 DEF IndexType, RingIndex
  <2>2. \A q \in Producers, g \in Entries :
            /\ index'[q][g].value = IF q = p /\ g = e THEN NoBlock ELSE index[q][g].value
            /\ index'[q][g].key = index[q][g].key
    BY <1>5, ValueSet
  <2> QED
    BY <2>1, <2>2 DEF ValueSetTo
<1>8. Ring(p, pc[p], f + 1, t, index'[p], indexTail[p], tailBlock[p], cell, dequeued, FALSE)
  <2>1. (pc[c] = "unpublish") = TRUE
    BY <1>1
  <2>2. Ring(p, pc[p], f, t, index[p], indexTail[p], tailBlock[p], cell, dequeued, TRUE)
    BY <1>2, <2>1, Zenon
  <2> QED
    BY <1>4, <1>7, <2>2, RingUnpublish, Zenon
<1>9. ConsumerGoes(c, "add")
  BY <1>1, GotoIs
<1>10. QueueTypes'
  BY <1>1, <1>6 DEF QInv, QueueTypes, localVars
<1>11. ConsumerOf(c)'
  BY <1>1, <1>2, <1>3, <1>9 DEF ConsumerOf, ConsumerGoes, WorkLabels, localVars
<1>12. \A q \in Producers : CountOf(q)'
  BY <1>1, <1>9, QuietCount
<1>13. ASSUME NEW q \in Producers PROVE RingOf(q)'
  <2>1. q \in Threads /\ q # c
    BY QueueAssumption DEF Threads
  <2>2. (Working(q) <=> q = p) /\ (Emptied(q) <=> q = p) /\ ~Working(q)' /\ ~Emptied(q)'
    BY <1>1, <1>2, <1>9, Alone DEF ConsumerGoes, WorkLabels
  <2>3. First(q)' = IF q = p THEN f + 1 ELSE First(q)
    BY <1>1, <1>2, <2>2 DEF First
  <2>4. CASE q = p
    <3>1. Emptied(p)' = FALSE
      BY <2>2, <2>4 DEF Emptied
    <3>2. First(p)' = f + 1 /\ pc'[p] = pc[p]
      BY <1>9, <2>1, <2>3, <2>4 DEF ConsumerGoes
    <3>3. RingOf(p)'
      BY <1>1, <1>2, <1>8, <3>1, <3>2, Zenon DEF RingOf
    <3> QED
      BY <2>4, <3>3
  <2>5. CASE q # p
    <3>1. RingFrame(q)
      BY <1>1, <1>6, <1>9, <2>1, <2>2, <2>3, <2>5 DEF RingFrame, ConsumerGoes
    <3>2. BlocksKept(q)
      BY <1>1 DEF BlocksKept
    <3> QED
      BY <3>1, <3>2, RingSame DEF QInv
  <2> QED
    BY <2>4, <2>5
<1> QED
  BY <1>10, <1>11, <1>12, <1>13, ConsumerStep

-----------------------------------------------------------------------------
(* Where every block is *)

LEMMA LowestExists ==
    ASSUME NEW n \in Nat, NEW S \in SUBSET (0 .. n), S # {}
    PROVE  \E l \in S : \A m \in S : l <= m
<1> DEFINE Below(l) == 0 .. l
           T == {Below(l) : l \in S}
           R == StrictSubsetOrdering(0 .. n)
<1>1. T \subseteq FiniteSubsetsOf(0 .. n)
  <2>1. IsFiniteSet(0 .. n)
    BY FS_Interval
  <2>2. \A l \in S : Below(l) \in SUBSET (0 .. n)
    OBVIOUS
  <2> QED
    BY <2>1, <2>2, FS_Subset DEF FiniteSubsetsOf
<1>2. T # {}
  OBVIOUS
<1>3. \E U \in T : \A V \in T : ~(<<V, U>> \in R)
  <2> HIDE DEF T
  <2> QED
    BY <1>1, <1>2, FS_StrictSubsetOrderingWellFounded, WFMin
<1>4. PICK l \in S : \A V \in T : ~(<<V, Below(l)>> \in R)
  BY <1>3
<1>5. ASSUME NEW m \in S, m < l PROVE FALSE
  <2>1. Below(m) \subseteq Below(l) /\ l \in Below(l) /\ l \notin Below(m)
    BY <1>5
  <2>2. Below(m) \in SUBSET (0 .. n) /\ Below(l) \in SUBSET (0 .. n)
    OBVIOUS
  <2>3. <<Below(m), Below(l)>> \in R
    <3> HIDE DEF Below
    <3> QED
      BY <2>1, <2>2 DEF StrictSubsetOrdering
  <2> QED
    BY <1>4, <2>3
<1>6. ASSUME NEW m \in S PROVE l <= m
  BY <1>5
<1> QED
  BY <1>6

\* The recursive function of OnList, by its equation.
IsNth(f) == f = [i \in 0 .. PoolSize |-> IF i = 0 THEN freeListHead
                                         ELSE IF f[i - 1] = NoBlock THEN NoBlock ELSE freeListNext[f[i - 1]]]

LEMMA OnListIs == OnList = {(CHOOSE f : IsNth(f))[i] : i \in 0 .. PoolSize} \ {NoBlock}
BY DEF OnList, IsNth

LEMMA ListedNth ==
    ASSUME NEW pl, NEW n, NEW l, Listed(pl, n, l)
    PROVE  /\ n = 0 => freeListHead = NoBlock
           /\ n # 0 => 1 \in 1 .. n /\ freeListHead = l[1]
           /\ \A i \in 1 .. n : l[i] \in Blocks /\ l[i] # NoBlock
           /\ \A i \in 1 .. n : i # n => i + 1 \in 1 .. n /\ freeListNext[l[i]] = l[i + 1]
           /\ n # 0 => freeListNext[l[n]] = NoBlock
BY BlocksAreNot DEF Listed

LEMMA NthIs ==
    ASSUME NEW pl, NEW n, NEW l, Listed(pl, n, l), NEW f
    PROVE  IsNth(f) <=> f = [i \in 0 .. PoolSize |-> IF i < n THEN l[i + 1] ELSE NoBlock]
<1>1. n \in Nat /\ PoolSize \in Nat
  BY PoolAssumption DEF Listed
<1>2. ASSUME f = [i \in 0 .. PoolSize |-> IF i < n THEN l[i + 1] ELSE NoBlock]
      PROVE  IsNth(f)
  <2>1. ASSUME NEW i \in 0 .. PoolSize
        PROVE  f[i] = IF i = 0 THEN freeListHead
                      ELSE IF f[i - 1] = NoBlock THEN NoBlock ELSE freeListNext[f[i - 1]]
    <3>1. CASE i = 0
      BY <1>1, <1>2, <3>1, ListedNth
    <3>2. CASE i # 0
      <4>1. PICK j \in 0 .. PoolSize : j = i - 1 /\ i = j + 1
        BY <1>1, <3>2
      <4>2. CASE i < n
        <5>1. i \in 1 .. n /\ i # n
          BY <1>1, <3>2, <4>2
        <5>2. f[j] = l[i] /\ f[i] = l[i + 1]
          BY <1>1, <1>2, <4>1, <4>2
        <5> QED
          BY <3>2, <4>1, <5>1, <5>2, ListedNth
      <4>3. CASE i = n
        <5>1. i \in 1 .. n
          BY <1>1, <3>2, <4>3
        <5>2. f[j] = l[i] /\ f[i] = NoBlock
          BY <1>1, <1>2, <4>1, <4>3
        <5> QED
          BY <3>2, <4>1, <4>3, <5>1, <5>2, ListedNth
      <4>4. CASE i > n
        <5>1. f[j] = NoBlock /\ f[i] = NoBlock
          BY <1>1, <1>2, <4>1, <4>4
        <5> QED
          BY <3>2, <4>1, <5>1
      <4> QED
        BY <1>1, <4>2, <4>3, <4>4
    <3> QED
      BY <3>1, <3>2
  <2> QED
    BY <1>2, <2>1 DEF IsNth
<1>3. ASSUME IsNth(f)
      PROVE  f = [i \in 0 .. PoolSize |-> IF i < n THEN l[i + 1] ELSE NoBlock]
  <2>1. PICK g : g = [i \in 0 .. PoolSize |-> IF i < n THEN l[i + 1] ELSE NoBlock]
    OBVIOUS
  <2>2. /\ DOMAIN f = 0 .. PoolSize /\ f = [i \in 0 .. PoolSize |-> f[i]]
        /\ f[0] = freeListHead
        /\ \A i \in 0 .. PoolSize : i # 0 =>
              f[i] = IF f[i - 1] = NoBlock THEN NoBlock ELSE freeListNext[f[i - 1]]
    BY <1>1, <1>3 DEF IsNth
  <2>3. SUFFICES ASSUME NEW k \in 0 .. PoolSize, f[k] # g[k] PROVE FALSE
    BY <2>1, <2>2
  <2>4. PICK S : S = {i \in 0 .. PoolSize : f[i] # g[i]}
    OBVIOUS
  <2>5. S \in SUBSET (0 .. PoolSize) /\ S # {}
    BY <2>3, <2>4
  <2>6. PICK i \in S : \A m \in S : i <= m
    BY <1>1, <2>5, LowestExists
  <2>7. i \in 0 .. PoolSize /\ f[i] # g[i]
    BY <2>4, <2>6
  <2>8. CASE i = 0
    <3>1. g[0] = freeListHead
      BY <1>1, <2>1, ListedNth
    <3> QED
      BY <2>2, <2>7, <2>8, <3>1
  <2>9. CASE i # 0
    <3>1. PICK j \in 0 .. PoolSize : j = i - 1 /\ i = j + 1
      BY <1>1, <2>7, <2>9
    <3>2. f[j] = g[j]
      BY <2>4, <2>6, <2>7, <3>1
    <3>3. f[i] = IF g[j] = NoBlock THEN NoBlock ELSE freeListNext[g[j]]
      BY <2>2, <2>7, <2>9, <3>1, <3>2
    <3>4. CASE i < n
      <4>1. i \in 1 .. n /\ i # n
        BY <1>1, <2>7, <2>9, <3>4
      <4>2. g[j] = l[i] /\ g[i] = l[i + 1]
        BY <1>1, <2>1, <2>7, <3>1, <3>4
      <4> QED
        BY <2>7, <3>3, <4>1, <4>2, ListedNth
    <3>5. CASE i = n
      <4>1. i \in 1 .. n
        BY <1>1, <2>7, <2>9, <3>5
      <4>2. g[j] = l[i] /\ g[i] = NoBlock
        BY <1>1, <2>1, <2>7, <3>1, <3>5
      <4> QED
        BY <2>7, <2>9, <3>3, <3>5, <4>1, <4>2, ListedNth
    <3>6. CASE i > n
      <4>1. g[j] = NoBlock /\ g[i] = NoBlock
        BY <1>1, <2>1, <2>7, <3>1, <3>6
      <4> QED
        BY <2>7, <3>3, <4>1
    <3> QED
      BY <1>1, <2>7, <3>4, <3>5, <3>6
  <2> QED
    BY <2>8, <2>9
<1> QED
  BY <1>2, <1>3

\* The list has no more blocks than there are.
LEMMA ListFits ==
    ASSUME NEW pl, NEW n, NEW l, Listed(pl, n, l)
    PROVE  n <= PoolSize
<1>1. n \in Nat /\ PoolSize \in Nat /\ l \in [1 .. n -> Blocks]
  BY PoolAssumption DEF Listed
<1>2. l \in Injection(1 .. n, Blocks)
  BY <1>1 DEF Listed, Injection, IsInjective
<1>3. IsFiniteSet(Blocks) /\ Cardinality(Blocks) = PoolSize
  BY <1>1, FS_Interval DEF Blocks
<1>4. Cardinality(1 .. n) = n
  BY <1>1, FS_Interval
<1>5. Cardinality(1 .. n) <= Cardinality(Blocks)
  BY <1>2, <1>3, FS_Injection
<1> QED
  BY <1>3, <1>4, <1>5

LEMMA OnListAre ==
    ASSUME NEW pl, NEW n, NEW l, Listed(pl, n, l), NEW b \in Blocks
    PROVE  b \in OnList <=> pl[b] = InList
<1>1. n \in Nat /\ PoolSize \in Nat /\ n <= PoolSize
  <2>1. n <= PoolSize
    BY ListFits, Zenon
  <2>2. n \in Nat
    BY DEF Listed
  <2> QED
    BY <2>1, <2>2, PoolAssumption
<1>2. PICK g : g = [i \in 0 .. PoolSize |-> IF i < n THEN l[i + 1] ELSE NoBlock]
  OBVIOUS
<1>3. (CHOOSE f : IsNth(f)) = g
  <2>1. IsNth(g)
    BY <1>2, NthIs
  <2>2. IsNth(CHOOSE f : IsNth(f))
    BY <2>1, Zenon
  <2> QED
    BY <1>2, <2>2, NthIs
<1>4. b \in OnList <=> \E i \in 0 .. PoolSize : g[i] = b
  <2>1. OnList = {g[i] : i \in 0 .. PoolSize} \ {NoBlock}
    BY <1>3, OnListIs
  <2> QED
    BY <2>1, BlocksAreNot
<1>5. ASSUME pl[b] = InList PROVE \E i \in 0 .. PoolSize : g[i] = b
  <2>1. PICK k \in 1 .. n : l[k] = b
    BY <1>5 DEF Listed
  <2>2. PICK i \in 0 .. PoolSize : k = i + 1 /\ i < n
    BY <1>1
  <2> QED
    BY <1>2, <2>1, <2>2
<1>6. ASSUME NEW i \in 0 .. PoolSize, g[i] = b PROVE pl[b] = InList
  <2>1. i < n
    BY <1>2, <1>6, BlocksAreNot
  <2>2. g[i] = l[i + 1] /\ i + 1 \in 1 .. n
    BY <1>1, <1>2, <2>1
  <2> QED
    BY <1>6, <2>2 DEF Listed
<1> QED
  BY <1>4, <1>5, <1>6

LEMMA OneOrNone ==
    ASSUME NEW S, NEW x
    PROVE  /\ x \in S /\ (\A y \in S : y = x) => Cardinality(S) = 1
           /\ (\A y \in S : FALSE) => Cardinality(S) = 0
<1>1. x \in S /\ (\A y \in S : y = x) => S = {x}
  OBVIOUS
<1>2. (\A y \in S : FALSE) => S = {}
  OBVIOUS
<1> QED
  BY <1>1, <1>2, FS_Singleton, FS_EmptySet

LEMMA PlacesOf ==
    ASSUME NEW pl, NEW n, NEW l, FState(pl, n, l), NEW b \in Blocks
    PROVE  /\ pl[b] \in Places
           /\ b > initialBlockPoolIndex <=> pl[b] = InPool
           /\ b \in OnList <=> pl[b] = InList
           /\ (\E t \in Threads : LeftTo(t, b)) <=> pl[b] = Flagged
           /\ \A pe \in Producers \X Entries : InIndex(pe[1], pe[2], b) <=> pl[b] = InEntry(pe[1], pe[2])
           /\ \A t \in Threads : InHands(t, b) <=> pl[b] = InHand(t)
<1>1. /\ pl[b] \in Places
      /\ b > initialBlockPoolIndex <=> pl[b] = InPool
      /\ shouldBeOn[b] <=> pl[b] = Flagged
      /\ \A pe \in Producers \X Entries : InIndex(pe[1], pe[2], b) <=> pl[b] = InEntry(pe[1], pe[2])
      /\ \A t \in Threads : InHands(t, b) <=> pl[b] = InHand(t)
  BY DEF FState, Placed
<1>2. b \in OnList <=> pl[b] = InList
  BY OnListAre DEF FState
<1>3. (\E t \in Threads : LeftTo(t, b)) <=> pl[b] = Flagged
  BY <1>1 DEF FState, Left, LeftTo
<1> QED
  BY <1>1, <1>2, <1>3

LEMMA BlockOncePlaced ==
    ASSUME NEW pl, NEW n, NEW l, FState(pl, n, l)
    PROVE  BlockOnce
<1> SUFFICES ASSUME NEW b \in Blocks
             PROVE  Cardinality({w \in {"pool"} : b > initialBlockPoolIndex}
                        \cup {w \in {"list"} : b \in OnList}
                        \cup {w \in {"flag"} : \E t \in Threads : LeftTo(t, b)})
                    + Cardinality({pe \in Producers \X Entries : InIndex(pe[1], pe[2], b)})
                    + Cardinality({t \in Threads : InHands(t, b)}) = 1
  BY DEF BlockOnce
<1>1. PICK A, B, C :
         /\ A = {w \in {"pool"} : b > initialBlockPoolIndex} \cup {w \in {"list"} : b \in OnList}
                \cup {w \in {"flag"} : \E t \in Threads : LeftTo(t, b)}
         /\ B = {pe \in Producers \X Entries : InIndex(pe[1], pe[2], b)}
         /\ C = {t \in Threads : InHands(t, b)}
  OBVIOUS
<1>2. PICK where : where = pl[b] /\ where \in Places
  BY PlacesOf
<1>3. /\ \A w : w \in A <=> \/ w = "pool" /\ where = InPool
                            \/ w = "list" /\ where = InList
                            \/ w = "flag" /\ where = Flagged
      /\ \A pe : pe \in B <=> pe \in Producers \X Entries /\ where = InEntry(pe[1], pe[2])
      /\ \A t : t \in C <=> t \in Threads /\ where = InHand(t)
  BY <1>1, <1>2, PlacesOf
<1>4. \/ where \in {InPool, InList, Flagged}
      \/ \E p \in Producers, e \in Entries : where = InEntry(p, e)
      \/ \E t \in Threads : where = InHand(t)
  BY <1>2 DEF Places
<1>5. CASE where \in {InPool, InList, Flagged}
  <2>1. (\A pe \in B : FALSE) /\ (\A t \in C : FALSE)
    BY <1>3, <1>5, PlacesDistinct
  <2>2. Cardinality(B) = 0 /\ Cardinality(C) = 0
    BY <2>1, OneOrNone
  <2>3. \E w \in A : \A v \in A : v = w
    BY <1>3, <1>5, PlacesDistinct
  <2>4. Cardinality(A) = 1
    BY <2>3, OneOrNone
  <2> QED
    BY <1>1, <2>2, <2>4
<1>6. ASSUME NEW p \in Producers, NEW e \in Entries, where = InEntry(p, e)
      PROVE  Cardinality(A) + Cardinality(B) + Cardinality(C) = 1
  <2>1. (\A w \in A : FALSE) /\ (\A t \in C : FALSE)
    BY <1>3, <1>6, PlacesDistinct
  <2>2. Cardinality(A) = 0 /\ Cardinality(C) = 0
    BY <2>1, OneOrNone
  <2>3. <<p, e>> \in B
    BY <1>3, <1>6
  <2>4. ASSUME NEW pe \in B PROVE pe = <<p, e>>
    <3>1. pe \in Producers \X Entries /\ InEntry(pe[1], pe[2]) = InEntry(p, e)
      BY <1>3, <1>6, <2>4
    <3>2. pe[1] = p /\ pe[2] = e
      BY <3>1 DEF InEntry
    <3> QED
      BY <3>1, <3>2
  <2>5. Cardinality(B) = 1
    BY <2>3, <2>4, OneOrNone
  <2> QED
    BY <2>2, <2>5
<1>7. ASSUME NEW t \in Threads, where = InHand(t)
      PROVE  Cardinality(A) + Cardinality(B) + Cardinality(C) = 1
  <2>1. (\A w \in A : FALSE) /\ (\A pe \in B : FALSE)
    BY <1>3, <1>7, PlacesDistinct
  <2>2. Cardinality(A) = 0 /\ Cardinality(B) = 0
    BY <2>1, OneOrNone
  <2>3. t \in C /\ \A u \in C : u = t
    BY <1>3, <1>7, PlacesDistinct
  <2>4. Cardinality(C) = 1
    BY <2>3, OneOrNone
  <2> QED
    BY <2>2, <2>4
<1> QED
  BY <1>1, <1>4, <1>5, <1>6, <1>7

LEMMA ReadsRightHolds == ASSUME QInv PROVE ReadsRight
BY DEF QInv, ConsumerOf, ReadsRight

-----------------------------------------------------------------------------
(* The invariant *)

LEMMA InitKeeps ==
    ASSUME Init
    PROVE  Inv
<1>1. PICK pl, l : pl = [b \in Blocks |-> InPool] /\ l = [i \in 1 .. 0 |-> NoBlock]
  OBVIOUS
<1>2. /\ freeListHead = NoBlock /\ refs = [b \in Blocks |-> 0] /\ shouldBeOn = [b \in Blocks |-> FALSE]
      /\ listPc = [t \in Threads |-> "out"] /\ node = [t \in Threads |-> NoBlock]
      /\ pc = [t \in Threads |-> "out"] /\ initialBlockPoolIndex = 0
      /\ index = [p \in Producers |-> [e \in Entries |-> NoEntry]]
  BY DEF Init, FreeListInit
<1>3. LInv
  <2>1. ListTypes
    BY DEF Init, FreeListInit, ListTypes, ListLabels
  <2>2. ListLocals
    BY <1>2 DEF ListLocals, Holding, Linking, Adding, Threads
  <2>3. Control
    BY <1>2 DEF Control, ProducerLabels, ConsumerLabels, Threads
  <2> QED
    BY <2>1, <2>2, <2>3 DEF LInv
<1>4. FState(pl, 0, l)
  <2>1. ASSUME NEW b \in Blocks
        PROVE  /\ pl[b] = InPool /\ b > 0 /\ ~shouldBeOn[b] /\ refs[b] = 0
               /\ \A p \in Producers, e \in Entries : ~InIndex(p, e, b)
               /\ \A t \in Threads : ~InHands(t, b)
    BY <1>1, <1>2, BlocksAreNot DEF Blocks, InIndex, InHands, InCall, NoEntry
  <2>2. Placed(pl)
    <3>1. pl \in [Blocks -> Places]
      BY <1>1, PlacesDistinct
    <3> QED
      BY <1>2, <2>1, <3>1, PlacesDistinct DEF Placed
  <2>3. Listed(pl, 0, l)
    BY <1>1, <1>2, <2>1, PlacesDistinct DEF Listed
  <2>4. Counted(pl)
    <3>1. ASSUME NEW b \in Blocks PROVE refs[b] = Cardinality(Holders(b)) + ListsRef(pl, b)
      <4>1. Holders(b) = {}
        BY <1>2 DEF Holders, Holding
      <4>2. ListsRef(pl, b) = 0
        BY <2>1, PlacesDistinct DEF ListsRef
      <4> QED
        BY <2>1, <4>1, <4>2, FS_EmptySet
    <3> QED
      BY <3>1 DEF Counted
  <2>5. Left(pl)
    BY <1>2, <2>1, PlacesDistinct DEF Left, Linking
  <2> QED
    BY <2>2, <2>3, <2>4, <2>5 DEF FState
<1>5. QInv
  <2>1. \A c \in Consumers : c \in Threads /\ pc[c] = "out"
    BY <1>2 DEF Threads
  <2>2. QueueTypes
    <3>1. 0 \in Entries /\ IndexCapacity - 1 \in Entries
      BY SizesAre DEF Entries
    <3>2. index \in IndexType
      BY <1>2 DEF IndexType, NoEntry
    <3> QED
      BY <3>1, <3>2 DEF Init, QueueTypes, Values
  <2>3. ASSUME NEW p \in Producers PROVE CountOf(p) /\ RingOf(p)
    <3>1. ~Working(p) /\ ~Emptied(p) /\ ~Counting(p)
      BY <2>1 DEF Working, Emptied, Counting, WorkLabels
    <3>2. /\ headIndex[p] = 0 /\ tailIndex[p] = 0 /\ dequeueOptimisticCount[p] = 0 /\ pc[p] = "out"
          /\ index[p] = [e \in Entries |-> NoEntry] /\ indexTail[p] = IndexCapacity - 1
          /\ tailBlock[p] = NoBlock
      BY DEF Init, Threads
    <3>3. CountOf(p)
      BY <3>1, <3>2 DEF CountOf
    <3>4. First(p) = 0
      BY <3>1, <3>2 DEF First
    <3>5. Emptied(p) = FALSE
      BY <3>1 DEF Emptied
    <3>6. Ring(p, "out", 0, 0, index[p], IndexCapacity - 1, NoBlock, cell, dequeued, FALSE)
      BY <3>2, RingInit
    <3>7. RingOf(p)
      BY <3>2, <3>4, <3>5, <3>6, Zenon DEF RingOf
    <3> QED
      BY <3>3, <3>7
  <2>4. \A c \in Consumers : ConsumerOf(c)
    BY <2>1 DEF ConsumerOf, WorkLabels
  <2> QED
    BY <2>2, <2>3, <2>4 DEF QInv
<1> QED
  BY <1>3, <1>4, <1>5 DEF Inv

LEMMA EnqueueKeeps ==
    ASSUME Inv, OneConsumer, NEW p \in Producers, TryEnqueue(p)
    PROVE  Inv'
<1>1. PICK pl, n, l : FState(pl, n, l)
  BY DEF Inv
<1>2. LInv /\ QInv /\ IndexFacts /\ p \in Threads
  BY IndexFactsHold DEF Inv, Threads
<1>3. CASE Register(p)
  BY <1>1, <1>2, <1>3, AsideKeeps, EnqueueLInv, RegisterQueue DEF Inv, Aside
<1>4. CASE BeginEnqueue(p)
  BY <1>1, <1>2, <1>4, AsideKeeps, EnqueueLInv, BeginEnqueueQueue DEF Inv, Aside
<1>5. CASE InsertEntry(p)
  BY <1>1, <1>2, <1>5, AsideKeeps, EnqueueLInv, InsertEntryQueue DEF Inv, Aside
<1>6. CASE LookInPool(p)
  BY <1>1, <1>2, <1>6, AsideKeeps, EnqueueLInv, LookInPoolQueue DEF Inv, Aside
<1>7. CASE TakeFromPool(p)
  <2>1. LInv' /\ QInv'
    BY <1>2, <1>7, TakeFromPoolLInv, LookInPoolQueue
  <2>2. CASE initialBlockPoolIndex < PoolSize
    BY <1>1, <1>2, <1>7, <2>1, <2>2, TakeFromPoolKeeps DEF Inv
  <2>3. CASE ~(initialBlockPoolIndex < PoolSize)
    <3>1. initialBlockPoolIndex >= PoolSize
      BY <1>2, <2>3, PoolAssumption DEF LInv, Control
    <3>2. Aside(p)
      BY <1>7, <3>1 DEF Aside
    <3> QED
      BY <1>1, <1>2, <2>1, <3>2, AsideKeeps DEF Inv
  <2> QED
    BY <2>2, <2>3
<1>8. CASE BeginGet(p)
  BY <1>1, <1>2, <1>8, AsideKeeps, BeginGetLInv, RegisterQueue DEF Inv, Aside
<1>9. CASE NoRoom(p)
  BY <1>1, <1>2, <1>9, AsideKeeps, CallLInv, NoRoomQueue DEF Inv, Aside
<1>10. CASE Publish(p)
  BY <1>1, <1>2, <1>10, PublishKeeps, CallLInv, PublishQueue DEF Inv
<1>11. CASE Write(p)
  BY <1>1, <1>2, <1>11, AsideKeeps, EnqueueLInv, WriteQueue DEF Inv, Aside
<1>12. CASE StoreTail(p)
  BY <1>1, <1>2, <1>12, AsideKeeps, EnqueueLInv, StoreTailQueue DEF Inv, Aside
<1> QED
  BY <1>3, <1>4, <1>5, <1>6, <1>7, <1>8, <1>9, <1>10, <1>11, <1>12 DEF TryEnqueue

LEMMA DequeueKeeps ==
    ASSUME Inv, OneConsumer, NEW c \in Consumers, TryDequeue(c)
    PROVE  Inv'
<1>1. PICK pl, n, l : FState(pl, n, l)
  BY DEF Inv
<1>2. LInv /\ QInv /\ IndexFacts /\ c \in Threads
  BY IndexFactsHold DEF Inv, Threads
<1>3. CASE Choose(c) \/ Check(c) \/ Count(c) \/ Test(c) \/ TakeIndex(c)
  <2>1. LInv' /\ FState(pl, n, l)'
    BY <1>1, <1>2, <1>3, AsideKeeps, DequeueLInv DEF Aside
  <2>2. QInv'
    BY <1>2, <1>3, ChooseQueue, CheckQueue, CountQueue, TestQueue, TakeIndexQueue
  <2> QED
    BY <2>1, <2>2 DEF Inv
<1>4. CASE LoadIndexTail(c) \/ FindEntry(c) \/ Read(c) \/ SetEmpty(c)
  <2>1. LInv' /\ FState(pl, n, l)'
    BY <1>1, <1>2, <1>4, AsideKeeps, DequeueLInv DEF Aside
  <2>2. QInv'
    BY <1>1, <1>2, <1>4, LoadIndexTailQueue, FindEntryQueue, ReadQueue, SetEmptyQueue
  <2> QED
    BY <2>1, <2>2 DEF Inv
<1>5. CASE Unpublish(c)
  BY <1>1, <1>2, <1>5, UnpublishKeeps, UnpublishLInv, UnpublishQueue DEF Inv
<1>6. CASE AddToFreeList(c)
  BY <1>1, <1>2, <1>6, AddToFreeListKeeps, AddToFreeListLInv, QueueSame DEF Inv, AddToFreeList
<1>7. CASE EndDequeue(c)
  BY <1>1, <1>2, <1>7, AsideKeeps, CallLInv, EndDequeueQueue DEF Inv, Aside
<1> QED
  BY <1>3, <1>4, <1>5, <1>6, <1>7 DEF TryDequeue

LEMMA ListKeeps ==
    ASSUME Inv, NEW t \in Threads, FreeListStep(t)
    PROVE  Inv'
<1>1. PICK pl, n, l : FState(pl, n, l)
  BY DEF Inv
<1>2. LInv /\ QInv /\ ListStep(t) /\ FrameOfList /\ FrameOfQueue
  BY DEF Inv, FreeListStep, FrameOfList, FrameOfQueue, blockVars, producerVars, indexVars
<1>3. LInv'
  BY <1>1, <1>2, ListStepTypes, ListStepLocals, ListStepControl DEF LInv
<1>4. \E pl2, n2, l2 : FState(pl2, n2, l2)'
  BY <1>1, <1>2, FreeListStepKeeps
<1>5. QInv'
  BY <1>2, QueueSame DEF FreeListStep
<1> QED
  BY <1>3, <1>4, <1>5 DEF Inv

LEMMA StutterKeeps ==
    ASSUME Inv, UNCHANGED vars
    PROVE  Inv'
<1>1. PICK pl, n, l : FState(pl, n, l)
  BY DEF Inv
<1>2. LInv' /\ QInv'
  <2>1. QInv'
    BY QueueSame DEF Inv, vars
  <2>2. ListTypes' /\ ListLocals' /\ Control'
    BY DEF Inv, LInv, ListTypes, ListLocals, Control, vars, listVars, freeListVars, callVars, blockVars,
           producerVars
  <2> QED
    BY <2>1, <2>2 DEF LInv
<1>3. FState(pl, n, l)'
  <2> USE DEF vars, listVars, freeListVars, callVars, blockVars, producerVars, indexVars
  <2>1. Placed(pl)'
    <3>1. \A b \in Blocks : (b > initialBlockPoolIndex' <=> b > initialBlockPoolIndex)
                            /\ (shouldBeOn'[b] <=> shouldBeOn[b])
      OBVIOUS
    <3>2. \A b \in Blocks, p \in Producers, e \in Entries : InIndex(p, e, b)' <=> InIndex(p, e, b)
      BY DEF InIndex
    <3>3. \A b \in Blocks, t \in Threads : InHands(t, b)' <=> InHands(t, b)
      BY DEF InHands, InCall
    <3> HIDE DEF vars, listVars, freeListVars, callVars, blockVars, producerVars, indexVars
    <3> QED
      BY <1>1, <3>1, <3>2, <3>3 DEF FState, Placed
  <2>2. Listed(pl, n, l)'
    BY <1>1 DEF FState, Listed
  <2>3. Counted(pl)'
    BY <1>1 DEF FState, Counted, Holders, ListsRef
  <2>4. Left(pl)'
    BY <1>1 DEF FState, Left, LeftTo
  <2> QED
    BY <2>1, <2>2, <2>3, <2>4 DEF FState
<1> QED
  BY <1>2, <1>3 DEF Inv

\* Every state of a run has its blocks in one place each, and its items where the index says.
THEOREM QueueInvariant == OneConsumer => (Spec => []Inv)
<1> SUFFICES ASSUME OneConsumer PROVE Spec => []Inv
  OBVIOUS
<1>1. Init => Inv
  BY InitKeeps
<1>2. Inv /\ [Next]_vars => Inv'
  <2> SUFFICES ASSUME Inv, [Next]_vars PROVE Inv'
    OBVIOUS
  <2>1. CASE Next
    BY <2>1, EnqueueKeeps, DequeueKeeps, ListKeeps DEF Next
  <2>2. CASE UNCHANGED vars
    BY <2>2, StutterKeeps
  <2> QED
    BY <2>1, <2>2
<1> QED
  BY <1>1, <1>2, PTL DEF Spec

\* No block is lost and none has two users, whatever the threads' interleaving: every block is
\* in the pool, on the free list, left to be put there, in one index or in one thread's hands.
THEOREM QueueBlockOnce == OneConsumer => (Spec => []BlockOnce)
<1>1. Inv => BlockOnce
  BY BlockOncePlaced DEF Inv
<1> QED
  BY <1>1, QueueInvariant, PTL

\* What try_dequeue moves out of a block is what try_enqueue put there at this index.
THEOREM QueueReadsRight == OneConsumer => (Spec => []ReadsRight)
<1>1. Inv => ReadsRight
  BY ReadsRightHolds DEF Inv
<1> QED
  BY <1>1, QueueInvariant, PTL

-----------------------------------------------------------------------------
(* First in, first out *)

\* The items from h up to t of producer p.
Run(p, h, t) == [k \in 1 .. t - h |-> <<p, h + k - 1>>]

LEMMA RunSteps ==
    ASSUME NEW p, NEW h \in Nat, NEW t \in Nat, h <= t
    PROVE  /\ Run(p, h, t) \in Seq({p} \X Nat) /\ Len(Run(p, h, t)) = t - h
           /\ Run(p, h, t + 1) = Append(Run(p, h, t), <<p, t>>)
           /\ h < t => Run(p, h, t) # <<>> /\ Head(Run(p, h, t)) = <<p, h>>
                       /\ Tail(Run(p, h, t)) = Run(p, h + 1, t)
<1>1. PICK n \in Nat : n = t - h
  OBVIOUS
<1>2. Run(p, h, t) = [k \in 1 .. n |-> <<p, h + k - 1>>]
  BY <1>1 DEF Run
<1>3. \A k \in 1 .. n : h + k - 1 \in Nat
  BY <1>1
<1>4. Run(p, h, t) \in Seq({p} \X Nat) /\ Len(Run(p, h, t)) = t - h
  BY <1>1, <1>2, <1>3
<1>5. Run(p, h, t + 1) = Append(Run(p, h, t), <<p, t>>)
  <2>1. Run(p, h, t + 1) = [k \in 1 .. n + 1 |-> <<p, h + k - 1>>]
    BY <1>1 DEF Run
  <2>2. h + (n + 1) - 1 = t
    BY <1>1
  <2>3. Append(Run(p, h, t), <<p, t>>) =
            [k \in 1 .. n + 1 |-> IF k \in 1 .. n THEN Run(p, h, t)[k] ELSE <<p, t>>]
    BY <1>1, <1>4
  <2>4. \A k \in 1 .. n + 1 : (IF k \in 1 .. n THEN Run(p, h, t)[k] ELSE <<p, t>>) = <<p, h + k - 1>>
    <3>1. ASSUME NEW k \in 1 .. n + 1
          PROVE  (IF k \in 1 .. n THEN Run(p, h, t)[k] ELSE <<p, t>>) = <<p, h + k - 1>>
      <4>1. k \in 1 .. n \/ k = n + 1
        OBVIOUS
      <4>2. k \in 1 .. n => Run(p, h, t)[k] = <<p, h + k - 1>>
        BY <1>2
      <4>3. k = n + 1 => h + k - 1 = t /\ k \notin 1 .. n
        BY <2>2
      <4> QED
        BY <4>1, <4>2, <4>3
    <3> QED
      BY <3>1
  <2> QED
    BY <2>1, <2>3, <2>4
<1>6. ASSUME h < t
      PROVE  Run(p, h, t) # <<>> /\ Head(Run(p, h, t)) = <<p, h>> /\ Tail(Run(p, h, t)) = Run(p, h + 1, t)
  <2>1. Run(p, h, t) # <<>>
    BY <1>4, <1>6
  <2>2. Head(Run(p, h, t)) = <<p, h>>
    BY <1>1, <1>2, <1>4, <1>6, <2>1
  <2>3. Tail(Run(p, h, t)) = Run(p, h + 1, t)
    <3>1. PICK s \in Seq({p} \X Nat) : s = Run(p, h, t) /\ Len(s) = n /\ s # <<>> /\ n \in Nat \ {0}
      BY <1>1, <1>4, <1>6, <2>1
    <3>2. PICK u : u = Run(p, h + 1, t)
      OBVIOUS
    <3>3. u = [k \in 1 .. n - 1 |-> <<p, (h + 1) + k - 1>>]
      BY <1>1, <3>2 DEF Run
    <3>4. u \in Seq({p} \X Nat) /\ Len(u) = n - 1
      <4>1. \A k \in 1 .. n - 1 : (h + 1) + k - 1 \in Nat
        OBVIOUS
      <4> QED
        BY <3>1, <3>3, <4>1
    <3>5. Tail(s) \in Seq({p} \X Nat) /\ Len(Tail(s)) = n - 1 /\ \A k \in 1 .. n - 1 : Tail(s)[k] = s[k + 1]
      BY <3>1, HeadTailProperties
    <3>6. \A k \in 1 .. n - 1 : k + 1 \in 1 .. n /\ s[k + 1] = u[k]
      BY <1>1, <1>2, <3>1, <3>3
    <3>7. \A k \in 1 .. n - 1 : Tail(s)[k] = u[k]
      BY <3>5, <3>6
    <3> QED
      BY <3>1, <3>2, <3>4, <3>5, <3>7, SeqEqual
  <2> QED
    BY <2>1, <2>2, <2>3
<1> QED
  BY <1>4, <1>5, <1>6

LEMMA KeyIs ==
    ASSUME NEW k \in Int, NEW i \in Int, Offset(k) = 0, Number(k) = Number(i)
    PROVE  k = BlockBase(i)
<1>1. PICK q \in Int, r \in Int : q = Number(i) /\ r = Offset(i) /\ i = q * BlockSize + r
  BY NumberParts, Zenon
<1>2. PICK s \in Int : s = Number(k) /\ k = s * BlockSize + Offset(k)
  BY NumberParts, Zenon
<1>3. PICK y \in Int : y = q * BlockSize
  BY SizesAre
<1>4. k = y + 0
  BY <1>1, <1>2, <1>3
<1>5. BlockBase(i) = i - r /\ i = y + r
  BY <1>1, <1>3 DEF BlockBase
<1> QED
  BY <1>4, <1>5

LEMMA BaseIs ==
    ASSUME NEW i \in Nat
    PROVE  Number(BlockBase(i)) = Number(i) /\ Offset(BlockBase(i)) = 0 /\ BlockBase(i) \in Nat
<1>1. PICK q \in Nat, r \in Int : q = Number(i) /\ r = Offset(i) /\ i = q * BlockSize + r
  <2>1. i \in Int /\ Number(i) \in Nat
    BY NumberNat
  <2>2. Offset(i) \in Int /\ i = Number(i) * BlockSize + Offset(i)
    BY <2>1, NumberParts
  <2> QED
    BY <2>1, <2>2
<1>2. PICK y \in Nat : y = q * BlockSize
  BY SizesAre
<1>3. BlockBase(i) = y
  <2>1. i = y + r
    BY <1>1, <1>2
  <2>2. BlockBase(i) = i - r
    BY <1>1 DEF BlockBase
  <2> QED
    BY <2>1, <2>2
<1>4. 0 \in 0 .. BlockSize - 1 /\ y = q * BlockSize + 0 /\ y \in Int /\ q \in Int
  BY <1>2, SizesAre
<1>5. Number(y) = q /\ Offset(y) = 0
  BY <1>4, NumberIs
<1> QED
  BY <1>1, <1>3, <1>5

\* An item is found through the index as long as its block is in use.
LEMMA StoredIs ==
    ASSUME QInv, NEW p \in Producers, NEW i \in Nat, headIndex[p] <= i, i < tailIndex[p]
    PROVE  Stored(p, i) = <<p, i>>
<1>1. PICK f \in Nat, t \in Nat : f = First(p) /\ t = tailIndex[p] /\ f <= i /\ i < t
  <2>1. First(p) \in Nat /\ tailIndex[p] \in Nat /\ headIndex[p] \in Nat
    BY RingNow DEF Ring, QInv, QueueTypes
  <2>2. First(p) <= headIndex[p]
    BY <2>1 DEF First
  <2> QED
    BY <2>1, <2>2
<1>2. Ring(p, pc[p], f, t, index[p], indexTail[p], tailBlock[p], cell, dequeued, Emptied(p))
  BY <1>1, RingNow, Zenon
<1>3. PICK m \in Int : m = LastOf(pc[p], t) /\ Slots(f, m, index[p])
  BY <1>2, LastIs DEF Ring
<1>4. i \in f .. t /\ f <= t
  BY <1>1
<1>5. Number(i) \in Number(f) .. m
  BY <1>1, <1>3, <1>4, LiveItem
<1>6. PICK e \in Entries : e = Slot(Number(i))
  BY <1>3, <1>5, SlotOf
<1>7. index[p][e].value \in Blocks /\ index[p][e].key = BlockBase(i)
  <2>1. index[p][e].value \in Blocks /\ index[p][e].key \in Nat
        /\ Number(index[p][e].key) = Number(i) /\ Offset(index[p][e].key) = 0
    BY <1>3, <1>5, <1>6, SlotOf
  <2>2. index[p][e].key \in Int /\ i \in Int
    BY <2>1
  <2> QED
    BY <2>1, <2>2, KeyIs
<1>8. ASSUME NEW g \in Entries, index[p][g].key = BlockBase(i), index[p][g].value # NoBlock
      PROVE  g = e
  <2>1. BlockBase(i) # -1 /\ Number(BlockBase(i)) = Number(i)
    BY BaseIs
  <2>2. Slot(Number(index[p][g].key)) = g
    BY <1>3, <1>8, <2>1 DEF Slots
  <2> QED
    BY <1>6, <1>8, <2>1, <2>2
<1>9. PICK here : here = {g \in Entries : index[p][g].key = BlockBase(i) /\ index[p][g].value # NoBlock}
  OBVIOUS
<1>10. here = {e}
  BY <1>7, <1>8, <1>9, BlocksAreNot
<1>11. (CHOOSE g \in here : TRUE) = e
  BY <1>10
<1>12. cell[index[p][e].value][Offset(i)] = <<p, i>>
  BY <1>1, <1>2, <1>4, <1>6 DEF Ring, Filled
<1> QED
  BY <1>9, <1>10, <1>11, <1>12 DEF Stored

QueuesAreRuns == \A p \in Producers : Queue(p) = Run(p, headIndex[p], tailIndex[p])

LEMMA QueueIs == QInv => QueuesAreRuns
<1> SUFFICES ASSUME QInv, NEW p \in Producers PROVE Queue(p) = Run(p, headIndex[p], tailIndex[p])
  BY DEF QueuesAreRuns
<1>1. PICK h \in Nat, t \in Nat : h = headIndex[p] /\ t = tailIndex[p]
  BY DEF QInv, QueueTypes
<1>2. ASSUME NEW k \in 1 .. t - h PROVE Stored(p, h + k - 1) = <<p, h + k - 1>>
  <2>1. h + k - 1 \in Nat /\ h <= h + k - 1 /\ h + k - 1 < t
    OBVIOUS
  <2> QED
    BY <1>1, <2>1, StoredIs
<1> QED
  BY <1>1, <1>2 DEF Queue, Run

\* There is room for no more items than there are cells.
LEMMA RoomAtTail ==
    ASSUME QInv, NEW pl, NEW n, NEW l, FState(pl, n, l), NEW p \in Producers, pc[p] = "tail"
    PROVE  tailIndex[p] - headIndex[p] < PoolSize * BlockSize
<1>1. PICK f \in Nat, t \in Nat, h \in Nat : f = First(p) /\ t = tailIndex[p] /\ h = headIndex[p] /\ f <= h /\ f <= t
  <2>1. First(p) \in Nat /\ tailIndex[p] \in Nat /\ headIndex[p] \in Nat /\ First(p) <= tailIndex[p]
    BY RingNow DEF Ring, QInv, QueueTypes
  <2>2. First(p) <= headIndex[p]
    BY <2>1 DEF First
  <2> QED
    BY <2>1, <2>2
<1>2. PICK a \in Nat, b \in Nat : a = Number(f) /\ b = Number(t)
  BY NumberNat
<1>3. Slots(f, b, index[p])
  <2>1. Ring(p, pc[p], f, t, index[p], indexTail[p], tailBlock[p], cell, dequeued, Emptied(p))
    BY <1>1, RingNow, Zenon
  <2>2. LastOf(pc[p], t) = b
    BY <1>2 DEF LastOf, Writing
  <2> QED
    BY <2>1, <2>2 DEF Ring
<1>4. PICK g : g = [q \in a .. b |-> index[p][Slot(q)].value]
  OBVIOUS
<1>5. ASSUME NEW q \in a .. b PROVE Slot(q) \in Entries /\ index[p][Slot(q)].value \in Blocks
                                     /\ \A r \in a .. b : Slot(q) = Slot(r) => q = r
  <2>1. b \in Int /\ q \in Number(f) .. b
    BY <1>2
  <2> QED
    BY <1>2, <1>3, <2>1, SlotOf
<1>6. g \in Injection(a .. b, Blocks)
  <2>1. g \in [a .. b -> Blocks]
    BY <1>4, <1>5
  <2>2. ASSUME NEW q \in a .. b, NEW r \in a .. b, g[q] = g[r] PROVE q = r
    <3>1. Slot(q) = Slot(r)
      BY <1>4, <1>5, <2>2, OneUser
    <3> QED
      BY <1>5, <3>1
  <2> QED
    BY <2>1, <2>2 DEF Injection, IsInjective
<1>7. b - a + 1 <= PoolSize
  <2>1. PoolSize \in Nat
    BY PoolAssumption
  <2>2. IsFiniteSet(Blocks) /\ Cardinality(Blocks) = PoolSize
    BY <2>1, FS_Interval DEF Blocks
  <2>3. a <= b
    BY <1>1, <1>2, NumberOrder
  <2>4. Cardinality(a .. b) = b - a + 1
    BY <2>3, FS_Interval
  <2>5. Cardinality(a .. b) <= Cardinality(Blocks)
    BY <1>6, <2>2, FS_Injection
  <2> QED
    BY <2>2, <2>4, <2>5
<1>8. t - f < PoolSize * BlockSize
  <2>1. PICK B \in Nat : B = BlockSize
    BY SizesAre
  <2>2. PICK r \in Int, s \in Int : r = Offset(f) /\ s = Offset(t) /\ 0 <= r /\ s < B
                                    /\ f = a * B + r /\ t = b * B + s
    <3>1. f \in Int /\ t \in Int
      OBVIOUS
    <3>2. /\ Offset(f) \in 0 .. B - 1 /\ f = a * B + Offset(f)
          /\ Offset(t) \in 0 .. B - 1 /\ t = b * B + Offset(t)
      BY <1>2, <2>1, <3>1, NumberParts
    <3> QED
      BY <3>2
  <2>3. PICK z \in Nat, w \in Nat : z = (b - a) * B /\ w = PoolSize * B
    <3>1. b - a \in Nat /\ PoolSize \in Nat
      BY <1>1, <1>2, NumberOrder, PoolAssumption
    <3> QED
      BY <3>1
  <2>4. z + B <= w
    <3>1. PICK d \in Nat, P \in Nat : d = b - a /\ P = PoolSize /\ d + 1 <= P
      BY <1>1, <1>2, <1>7, NumberOrder, PoolAssumption
    <3>2. (d + 1) * B <= P * B
      BY <3>1
    <3>3. (d + 1) * B = d * B + B
      OBVIOUS
    <3> QED
      BY <2>3, <3>1, <3>2, <3>3
  <2>5. b * B = a * B + z
    BY <2>3
  <2>6. t - f < w
    BY <2>2, <2>4, <2>5
  <2> QED
    BY <2>1, <2>3, <2>6
<1> QED
  <2>1. PICK w \in Int : w = PoolSize * BlockSize
    BY SizesAre, PoolAssumption
  <2> QED
    BY <1>1, <1>8, <2>1

\* A producer in try_enqueue has not reached the bound of the model.
Bounded == \A p \in Producers : pc[p] # "out" => tailIndex[p] < MaxItems

LEMMA EnqueueBounded ==
    ASSUME LInv, QInv, Bounded, NEW p \in Producers, TryEnqueue(p)
    PROVE  /\ Bounded'
           /\ \/ UNCHANGED <<headIndex, tailIndex>>
              \/ StoreTail(p)
<1>1. pc \in [Threads -> ProducerLabels \cup ConsumerLabels] /\ p \in Threads
      /\ \A q \in Producers : q \in Threads
  BY DEF LInv, Control, Threads
<1>2. tailIndex \in [Producers -> Nat]
  BY DEF QInv, QueueTypes
<1>3. CASE StoreTail(p)
  <2>1. pc'[p] = "out" /\ \A q \in Producers : q # p => pc'[q] = pc[q] /\ tailIndex'[q] = tailIndex[q]
    BY <1>1, <1>2, <1>3 DEF StoreTail, Goto
  <2> QED
    BY <1>3, <2>1 DEF Bounded
<1>4. CASE BeginEnqueue(p)
  <2>1. tailIndex[p] < MaxItems /\ UNCHANGED <<headIndex, tailIndex>>
        /\ \A q \in Producers : q # p => pc'[q] = pc[q]
    BY <1>1, <1>4 DEF BeginEnqueue, Goto, producerVars, countVars
  <2> QED
    BY <2>1 DEF Bounded
<1>5. CASE Register(p) \/ InsertEntry(p) \/ LookInPool(p) \/ TakeFromPool(p) \/ BeginGet(p) \/ NoRoom(p)
           \/ Publish(p) \/ Write(p)
  <2>1. UNCHANGED <<headIndex, tailIndex>>
    BY <1>5 DEF Register, InsertEntry, LookInPool, TakeFromPool, BeginGet, NoRoom, Publish, Write,
                producerVars, countVars
  <2>2. \A q \in Producers : pc[q] = "out" => pc'[q] = "out"
    <3>1. CASE Register(p) \/ BeginGet(p)
      BY <3>1 DEF Register, BeginGet
    <3>2. CASE InsertEntry(p) \/ LookInPool(p) \/ TakeFromPool(p) \/ NoRoom(p) \/ Publish(p) \/ Write(p)
      <4>1. pc[p] # "out" /\ \A q \in Producers : q # p => pc'[q] = pc[q]
        BY <1>1, <3>2 DEF InsertEntry, LookInPool, TakeFromPool, NoRoom, Publish, Write, Goto
      <4> QED
        BY <4>1
    <3> QED
      BY <1>5, <3>1, <3>2
  <2> QED
    BY <2>1, <2>2 DEF Bounded
<1> QED
  BY <1>3, <1>4, <1>5 DEF TryEnqueue

LEMMA DequeueBounded ==
    ASSUME LInv, QInv, Bounded, NEW c \in Consumers, TryDequeue(c)
    PROVE  /\ Bounded'
           /\ \/ UNCHANGED <<headIndex, tailIndex>>
              \/ TakeIndex(c)
<1>1. pc \in [Threads -> ProducerLabels \cup ConsumerLabels]
      /\ \A q \in Producers : q \in Threads /\ q # c
  BY QueueAssumption DEF LInv, Control, Threads
<1>2. tailIndex' = tailIndex /\ (headIndex' = headIndex \/ TakeIndex(c))
  BY DEF TryDequeue, Choose, Check, Count, Test, TakeIndex, LoadIndexTail, FindEntry, Read, SetEmpty,
         Unpublish, AddToFreeList, EndDequeue, producerVars, countVars
<1>3. \A q \in Producers : pc'[q] = pc[q]
  <2>1. CASE Check(c) \/ Test(c) \/ SetEmpty(c) \/ EndDequeue(c)
    BY <1>1, <2>1 DEF Check, Test, SetEmpty, EndDequeue, TryAnother, Return, Goto
  <2>2. CASE Choose(c) \/ Count(c) \/ TakeIndex(c) \/ LoadIndexTail(c) \/ FindEntry(c) \/ Read(c)
             \/ Unpublish(c) \/ AddToFreeList(c)
    BY <1>1, <2>2 DEF Choose, Count, TakeIndex, LoadIndexTail, FindEntry, Read, Unpublish,
                      AddToFreeList, Goto
  <2> QED
    BY <2>1, <2>2 DEF TryDequeue
<1>4. Bounded'
  BY <1>2, <1>3 DEF Bounded
<1> QED
  BY <1>2, <1>4

LEMMA NextBounded ==
    ASSUME LInv, QInv, Bounded, [Next]_vars
    PROVE  /\ Bounded'
           /\ \/ UNCHANGED <<headIndex, tailIndex>>
              \/ \E p \in Producers : StoreTail(p)
              \/ \E c \in Consumers : TakeIndex(c)
<1>1. CASE \E p \in Producers : TryEnqueue(p)
  BY <1>1, EnqueueBounded
<1>2. CASE \E c \in Consumers : TryDequeue(c)
  BY <1>2, DequeueBounded
<1>3. CASE UNCHANGED <<headIndex, tailIndex, pc>>
  BY <1>3 DEF Bounded
<1>4. CASE \E t \in Threads : FreeListStep(t)
  BY <1>3, <1>4 DEF FreeListStep, producerVars, countVars
<1>5. CASE UNCHANGED vars
  BY <1>3, <1>5 DEF vars, producerVars, countVars
<1> QED
  BY <1>1, <1>2, <1>4, <1>5 DEF Next

LEMMA StoreTailPuts ==
    ASSUME Inv, Bounded, NEW p \in Producers, StoreTail(p), NEW q \in Producers,
           Queue(q)' = Run(q, headIndex'[q], tailIndex'[q])
    PROVE  [Fifo(q)!Next]_(Fifo(q)!fifoVars)
<1>1. PICK h \in Nat, t \in Nat : h = headIndex[q] /\ t = tailIndex[q] /\ h <= t
  BY DEF Inv, QInv, CountOf, QueueTypes
<1>2. Queue(q) = Run(q, h, t)
  BY <1>1, QueueIs DEF Inv, QueuesAreRuns
<1>3. headIndex' = headIndex /\ tailIndex' = [tailIndex EXCEPT ![p] = @ + 1] /\ pc[p] = "tail"
  BY DEF StoreTail, countVars
<1>4. Got(q)' = Got(q)
  BY <1>3 DEF Got
<1>5. CASE q = p
  <2>1. tailIndex'[q] = t + 1
    BY <1>1, <1>3, <1>5 DEF Inv, QInv, QueueTypes
  <2>2. Queue(q)' = Append(Queue(q), <<q, t>>)
    <3>1. Run(q, h, t + 1) = Append(Run(q, h, t), <<q, t>>)
      BY <1>1, RunSteps
    <3> QED
      BY <1>1, <1>2, <1>3, <2>1, <3>1, Zenon
  <2>3. Len(Queue(q)) < PoolSize * BlockSize
    <3>1. tailIndex[p] - headIndex[p] < PoolSize * BlockSize
      BY <1>3, RoomAtTail DEF Inv
    <3>2. Len(Queue(q)) = t - h
      <4>1. Len(Run(q, h, t)) = t - h
        BY <1>1, RunSteps
      <4> QED
        BY <1>2, <4>1, Zenon
    <3> QED
      BY <1>1, <1>5, <3>1, <3>2
  <2>4. <<q, t>> \in ItemsOf(q)
    BY <1>1, <1>3, <1>5, QueueAssumption DEF Bounded, ItemsOf
  <2> QED
    BY <1>4, <2>2, <2>3, <2>4 DEF Fifo!Next, Fifo!Put, Fifo!fifoVars
<1>6. CASE q # p
  <2>1. tailIndex'[q] = t
    BY <1>1, <1>3, <1>6 DEF Inv, QInv, QueueTypes
  <2>2. Queue(q)' = Queue(q)
    BY <1>1, <1>2, <1>3, <2>1
  <2> QED
    BY <1>4, <2>2 DEF Fifo!fifoVars
<1> QED
  BY <1>5, <1>6

LEMMA TakeIndexTakes ==
    ASSUME Inv, NEW c \in Consumers, TakeIndex(c), NEW q \in Producers,
           Queue(q)' = Run(q, headIndex'[q], tailIndex'[q])
    PROVE  [Fifo(q)!Next]_(Fifo(q)!fifoVars)
<1>1. PICK h \in Nat, t \in Nat : h = headIndex[q] /\ t = tailIndex[q] /\ h <= t
  BY DEF Inv, QInv, CountOf, QueueTypes
<1>2. Queue(q) = Run(q, h, t)
  BY <1>1, QueueIs DEF Inv, QueuesAreRuns
<1>3. headIndex' = [headIndex EXCEPT ![producer[c]] = @ + 1] /\ tailIndex' = tailIndex /\ pc[c] = "head"
  BY DEF TakeIndex, producerVars
<1>4. CASE q = producer[c]
  <2>1. h < t
    BY <1>1, <1>3, <1>4 DEF Inv, QInv, ConsumerOf
  <2>2. headIndex'[q] = h + 1
    BY <1>1, <1>3, <1>4 DEF Inv, QInv, QueueTypes
  <2>3. Queue(q) # <<>> /\ Queue(q)' = Tail(Queue(q)) /\ Head(Queue(q)) = <<q, h>>
    <3>1. /\ Run(q, h, t) # <<>> /\ Head(Run(q, h, t)) = <<q, h>>
          /\ Tail(Run(q, h, t)) = Run(q, h + 1, t)
      BY <1>1, <2>1, RunSteps
    <3> QED
      BY <1>1, <1>2, <1>3, <2>2, <3>1, Zenon
  <2>4. Got(q)' = <<q, h>>
    BY <1>1, <2>2 DEF Got
  <2> QED
    BY <2>3, <2>4 DEF Fifo!Next, Fifo!Take
<1>5. CASE q # producer[c]
  <2>1. headIndex'[q] = h
    BY <1>1, <1>3, <1>5 DEF Inv, QInv, QueueTypes
  <2>2. Queue(q)' = Queue(q) /\ Got(q)' = Got(q)
    BY <1>1, <1>2, <1>3, <2>1 DEF Got
  <2> QED
    BY <2>2 DEF Fifo!fifoVars
<1> QED
  BY <1>4, <1>5

LEMMA StepIsFifo ==
    ASSUME Inv, Inv', Bounded, [Next]_vars
    PROVE  \A p \in Producers : [Fifo(p)!Next]_(Fifo(p)!fifoVars)
<1>1. \A q \in Producers : Queue(q)' = Run(q, headIndex'[q], tailIndex'[q])
  <2>1. QInv'
    BY DEF Inv
  <2>2. QueuesAreRuns'
    BY <2>1, QueueIs, PTL
  <2> QED
    BY <2>2 DEF QueuesAreRuns
<1>2. CASE UNCHANGED <<headIndex, tailIndex>>
  <2>1. ASSUME NEW q \in Producers PROVE Queue(q)' = Queue(q) /\ Got(q)' = Got(q)
    <3>1. Queue(q) = Run(q, headIndex[q], tailIndex[q])
      BY QueueIs DEF Inv, QueuesAreRuns
    <3> QED
      BY <1>1, <1>2, <3>1 DEF Got
  <2> QED
    BY <2>1 DEF Fifo!fifoVars
<1>3. CASE \E p \in Producers : StoreTail(p)
  BY <1>1, <1>3, StoreTailPuts
<1>4. CASE \E c \in Consumers : TakeIndex(c)
  BY <1>1, <1>4, TakeIndexTakes
<1> QED
  BY <1>2, <1>3, <1>4, NextBounded DEF Inv

LEMMA InitIsFifo == Init => Bounded /\ \A p \in Producers : Fifo(p)!Init
<1> SUFFICES ASSUME Init PROVE Bounded /\ \A p \in Producers : Fifo(p)!Init
  OBVIOUS
<1>1. Bounded
  BY DEF Init, Bounded, Threads
<1>2. ASSUME NEW p \in Producers PROVE Queue(p) = <<>> /\ Got(p) = NoItem
  BY DEF Init, Queue, Got
<1> QED
  BY <1>1, <1>2 DEF Fifo!Init

\* Each producer's items, as its index and its blocks hold them, implement BoundedFifo: only the
\* store of a tail index puts an item and only the consumer's fetch_add takes the oldest one.
THEOREM QueueIsFifo == OneConsumer => (Spec => FifoSpec)
<1> SUFFICES ASSUME OneConsumer PROVE Spec => FifoSpec
  OBVIOUS
<1>1. Spec => []Inv
  BY QueueInvariant
<1>2. Init => Bounded /\ \A p \in Producers : Fifo(p)!Init
  BY InitIsFifo
<1>3. Inv /\ Bounded /\ [Next]_vars => Bounded'
  BY NextBounded DEF Inv
<1>4. Inv /\ Inv' /\ Bounded /\ [Next]_vars => \A p \in Producers : [Fifo(p)!Next]_(Fifo(p)!fifoVars)
  BY StepIsFifo
<1> QED
  BY <1>1, <1>2, <1>3, <1>4, PTL DEF Spec, FifoSpec
=============================================================================
