------------------------------ MODULE FreeList ------------------------------
(***************************************************************************)
(* moodycamel's lock-free list of free blocks                              *)
(* (FreeList in src/misc/libraries/concurrentqueue.h): add puts a block on *)
(* the list, try_get takes one off.  A block counts the references to it,  *)
(* the list's own included; whoever drops the last one of a block that     *)
(* should be on the list puts it there.  Each action is one atomic         *)
(* operation, in the interleaving (sequentially consistent) memory model.  *)
(***************************************************************************)
EXTENDS Integers, Sequences

CONSTANTS
    Producers, Consumers,   \* threads that take blocks, and threads that give them back
    PoolSize                \* the blocks

ASSUME PoolAssumption == PoolSize \in Nat \ {0}

Threads == Producers \cup Consumers
Blocks  == 1 .. PoolSize
NoBlock == 0

VARIABLES
    freeListHead,   \* freeListHead
    freeListNext,   \* freeListNext of a block
    refs,           \* its freeListRefs without the flag,
    shouldBeOn,     \* and the flag SHOULD_BE_ON_FREELIST
    listPc,         \* where a thread is in add or try_get ("out": in neither)
    head, next,     \* locals of try_get
    expected,       \* head in add_knowing_refcount_is_zero
    node            \* the block that it adds, or holds a reference to

freeListVars == <<freeListHead, freeListNext, refs, shouldBeOn>>
callVars     == <<listPc, head, next, expected, node>>
listVars     == <<freeListVars, callVars>>

FreeListInit ==
    /\ freeListHead = NoBlock /\ freeListNext = [b \in Blocks |-> NoBlock]
    /\ refs = [b \in Blocks |-> 0] /\ shouldBeOn = [b \in Blocks |-> FALSE]
    /\ listPc = [t \in Threads |-> "out"] /\ head = [t \in Threads |-> NoBlock]
    /\ next = [t \in Threads |-> NoBlock] /\ expected = [t \in Threads |-> NoBlock]
    /\ node = [t \in Threads |-> NoBlock]

-----------------------------------------------------------------------------
(* add, and add_knowing_refcount_is_zero, which try_get may call too *)

KnowingZero(t, pc) ==
    /\ listPc'   = [listPc EXCEPT ![t] = pc]
    /\ expected' = [expected EXCEPT ![t] = freeListHead]

AddFlag(t, b) ==
    /\ listPc[t] = "out"
    /\ shouldBeOn' = [shouldBeOn EXCEPT ![b] = TRUE]
    /\ node' = [node EXCEPT ![t] = b]
    /\ IF refs[b] = 0 THEN KnowingZero(t, "link")
       ELSE listPc' = [listPc EXCEPT ![t] = "added"] /\ UNCHANGED expected
    /\ UNCHANGED <<freeListHead, freeListNext, refs, head, next>>

\* where try_get goes on: its head is what the failed compare-and-swap found
Resumed(t) == IF head[t] = NoBlock THEN "none" ELSE "ref"
Added(t)   == IF listPc[t] \in {"link", "swap", "undo"} THEN "added" ELSE Resumed(t)
Then(t, add, get) == IF listPc[t] \in {"link", "swap", "undo"} THEN add ELSE get

\* the list's own reference makes the block visible to others
AddLink(t) ==
    /\ listPc[t] \in {"link", "get link"}
    /\ freeListNext' = [freeListNext EXCEPT ![node[t]] = expected[t]]
    /\ refs'       = [refs EXCEPT ![node[t]] = 1]
    /\ shouldBeOn' = [shouldBeOn EXCEPT ![node[t]] = FALSE]
    /\ listPc'     = [listPc EXCEPT ![t] = Then(t, "swap", "get swap")]
    /\ UNCHANGED <<freeListHead, head, next, expected, node>>

Unchanged(t) == freeListHead = expected[t]

AddSwap(t) ==
    /\ listPc[t] \in {"swap", "get swap"}
    /\ IF Unchanged(t)
       THEN /\ freeListHead' = node[t]
            /\ listPc' = [listPc EXCEPT ![t] = Added(t)]
            /\ UNCHANGED expected
       ELSE KnowingZero(t, Then(t, "undo", "get undo")) /\ UNCHANGED freeListHead
    /\ UNCHANGED <<freeListNext, refs, shouldBeOn, head, next, node>>

\* Others may have taken references meanwhile: then the last of them adds the block.
AddUndo(t) ==
    /\ listPc[t] \in {"undo", "get undo"}
    /\ refs'       = [refs EXCEPT ![node[t]] = @ - 1]
    /\ shouldBeOn' = [shouldBeOn EXCEPT ![node[t]] = TRUE]
    /\ listPc'     = [listPc EXCEPT ![t] =
                         IF refs[node[t]] = 1 THEN Then(t, "link", "get link") ELSE Added(t)]
    /\ UNCHANGED <<freeListHead, freeListNext, head, next, expected, node>>

-----------------------------------------------------------------------------
(* try_get *)

EnterGet(t) ==
    /\ listPc[t] = "out"
    /\ listPc' = [listPc EXCEPT ![t] = "load"]
    /\ UNCHANGED <<freeListVars, head, next, expected, node>>

GetLoad(t) ==
    /\ listPc[t] = "load"
    /\ head'   = [head EXCEPT ![t] = freeListHead]
    /\ listPc' = [listPc EXCEPT ![t] = IF freeListHead = NoBlock THEN "none" ELSE "ref"]
    /\ UNCHANGED <<freeListVars, next, expected, node>>

\* a block that nobody refers to is not on the list any more
HasRefs(b) == refs[b] # 0

GetRef(t) ==
    /\ listPc[t] = "ref"
    /\ IF HasRefs(head[t])
       THEN /\ refs'   = [refs EXCEPT ![head[t]] = @ + 1]
            /\ node'   = [node EXCEPT ![t] = head[t]]
            /\ listPc' = [listPc EXCEPT ![t] = "next"]
       ELSE listPc' = [listPc EXCEPT ![t] = "load"] /\ UNCHANGED <<refs, node>>
    /\ UNCHANGED <<freeListHead, freeListNext, shouldBeOn, head, next, expected>>

GetNext(t) ==
    /\ listPc[t] = "next"
    /\ next'   = [next EXCEPT ![t] = freeListNext[node[t]]]
    /\ listPc' = [listPc EXCEPT ![t] = "take"]
    /\ UNCHANGED <<freeListVars, head, expected, node>>

GetSwap(t) ==
    /\ listPc[t] = "take"
    /\ IF freeListHead = head[t]
       THEN /\ freeListHead' = next[t]
            /\ listPc' = [listPc EXCEPT ![t] = "taken"]
            /\ UNCHANGED head
       ELSE /\ head'   = [head EXCEPT ![t] = freeListHead]
            /\ listPc' = [listPc EXCEPT ![t] = "drop"]
            /\ UNCHANGED freeListHead
    /\ UNCHANGED <<freeListNext, refs, shouldBeOn, next, expected, node>>

\* the thread's own reference and the list's
GetTaken(t) ==
    /\ listPc[t] = "taken"
    /\ refs'   = [refs EXCEPT ![node[t]] = @ - 2]
    /\ listPc' = [listPc EXCEPT ![t] = "got"]
    /\ UNCHANGED <<freeListHead, freeListNext, shouldBeOn, head, next, expected, node>>

\* (slip: the block is left to whoever set the flag)
LeaveIt(b) == FALSE
LastRef(b) == refs[b] = 1 /\ shouldBeOn[b]

\* the head had changed: on with the new one
GetDrop(t) ==
    /\ listPc[t] = "drop"
    /\ refs' = [refs EXCEPT ![node[t]] = @ - 1]
    /\ IF LastRef(node[t]) THEN KnowingZero(t, "get link")
       ELSE listPc' = [listPc EXCEPT ![t] = Resumed(t)] /\ UNCHANGED expected
    /\ UNCHANGED <<freeListHead, freeListNext, shouldBeOn, head, next, node>>

-----------------------------------------------------------------------------
ListStep(t) ==
    \/ AddLink(t) \/ AddSwap(t) \/ AddUndo(t)
    \/ GetLoad(t) \/ GetRef(t) \/ GetNext(t) \/ GetSwap(t) \/ GetTaken(t) \/ GetDrop(t)

\* the call returns; its locals are gone
LeaveCall(t) ==
    /\ listPc' = [listPc EXCEPT ![t] = "out"] /\ node' = [node EXCEPT ![t] = NoBlock]
    /\ head' = [head EXCEPT ![t] = NoBlock] /\ next' = [next EXCEPT ![t] = NoBlock]
    /\ expected' = [expected EXCEPT ![t] = NoBlock]
    /\ UNCHANGED freeListVars

\* the blocks on the list
OnList ==
    LET nth[n \in 0 .. PoolSize] ==
            IF n = 0 THEN freeListHead
            ELSE IF nth[n - 1] = NoBlock THEN NoBlock ELSE freeListNext[nth[n - 1]]
    IN  {nth[n] : n \in 0 .. PoolSize} \ {NoBlock}

\* a block that a thread alone has, in a call
InCall(t, b) == node[t] = b /\ listPc[t] \in {"taken", "got", "swap", "undo", "get swap", "get undo"}
=============================================================================
