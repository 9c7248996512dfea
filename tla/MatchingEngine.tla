--------------------------- MODULE MatchingEngine ---------------------------
(***************************************************************************)
(* One MatchingEngine of the Exchange process (src/core/MatchingEngine.cpp):*)
(* the price-time limit order book of one instrument, the thread that      *)
(* matches the orders of ordersQueue_ against it, and the three calls that *)
(* other threads make on it: AddOrder and CancelOrder (the Exchange's      *)
(* message thread) and ClearBook (the Exchange's destructor).              *)
(*                                                                         *)
(* Nothing in the code keeps those calls out of a match that is under way, *)
(* so nothing does here: a step is one iteration of a loop, or one scan or *)
(* store of a best price, and the steps of all threads interleave freely.  *)
(* Where the program has undefined behaviour or aborts, "fault" names the  *)
(* reason and the behaviour ends.  SerialSpec is the same engine with the  *)
(* calls of other threads kept out of a match, as a mutex would.           *)
(***************************************************************************)
EXTENDS Orders, FiniteSets, SequencesExt

CONSTANTS
    IsProduction,    \* the constexpr IS_PRODUCTION
    OrdersQueueCap,  \* elements ordersQueue_ takes before try_enqueue fails
    FillQueueCap     \* the same for the Exchange's fill event queue

ASSUME EngineAssumption ==
    IsProduction \in BOOLEAN /\ OrdersQueueCap \in Nat /\ FillQueueCap \in Nat

Statuses == {"none", "Accepted", "PartiallyFilled", "Filled", "Unfilled", "Done"}
Faults   == {"none", "use_after_free", "assert", "null_deref"}
Threads  == {"matcher", "exchange"}   \* matchingThread_; the Exchange's message thread
ScanAt   == [BUY |-> "scanBid",  SELL |-> "scanAsk"]
StoreAt  == [BUY |-> "storeBid", SELL |-> "storeAsk"]
UpdateSteps == {ScanAt[side] : side \in {"BUY", "SELL"}} \cup {StoreAt[side] : side \in {"BUY", "SELL"}}
Phases   == {"open", "BUY", "SELL", "cleared", "joined"}

VARIABLES
    \* the ExchangeOrder objects, by order id (status "none": not created yet)
    order,        \* sideType_, priceType_, price_, qty_, sessionId_
    remaining,    \* qtyRemaining_
    status,       \* status_
    \* MatchingEngine members
    ordersQueue,  \* ordersQueue_
    book,         \* orderBook_.bids ("BUY") and .asks ("SELL"): a list per level
    best,         \* orderBook_.bestBid ("BUY") and .bestAsk ("SELL")
    lookup,       \* keys of orderIteratorLookupMap_ (the value is the order's own node)
    \* where each thread is, and its locals
    pc,           \* control point of the matching thread, and of CancelOrder
    seen,         \* the best price a thread found and has not stored yet
    agg,          \* the aggressing order
    level,        \* i, the price level under the sweep
    it,           \* the resting order under the sweep's list iterator
    traded,       \* qtyTradedAtPrice
    \* the destructor of the Exchange: not begun, the side ClearBook is on,
    \* cleared, fill thread joined; and ClearBook's level and iterator
    phase, clearLevel, clearIt,
    \* the queue of MatchingEngineFillEvents, shared with the Exchange
    fillEvents,
    fault,
    \* history: the quantity and the last status that got into fillEvents, by
    \* order, and the orders with an event that the full queue refused
    emitted, announced, lost

heapVars  == <<order, remaining, status>>
bookVars  == <<book, best, lookup>>
sweepVars == <<agg, level, it, traded>>
clearVars == <<phase, clearLevel, clearIt>>
eventVars == <<fillEvents, emitted, announced, lost>>
vars == <<heapVars, ordersQueue, bookVars, pc, seen, sweepVars, clearVars, eventVars, fault>>

-----------------------------------------------------------------------------
(* The order book *)

\* list operations; an iterator is the order whose node it points to
Pos(list, o)       == CHOOSE k \in DOMAIN list : list[k] = o
Erase(list, o)     == RemoveAt(list, Pos(list, o))
\* (slip: new orders jump the queue of their level)
PushFront(list, o) == <<o>> \o list
PushBack(list, o)  == Append(list, o)
\* (slip: the iterator that erase returns is dropped)
NotAdvanced(list, o) == o
Successor(list, o) == IF Pos(list, o) < Len(list) THEN list[Pos(list, o) + 1] ELSE NoOrder
First(list)        == IF list = <<>> THEN NoOrder ELSE Head(list)

\* the best of a set of levels of a side: the highest bid, the lowest ask
Top(side, S) == CHOOSE l \in S : \A m \in S : IF side = "BUY" THEN m <= l ELSE l <= m

NonEmptyLevels(side) == {l \in Levels : book[side][l] # <<>>}
Resting == UNION {ToSet(book[side][l]) : side \in Sides, l \in Levels}
Listed(o) == o \in Resting

\* (slip: both scans run upwards)
FindLowest(side) ==
    IF NonEmptyLevels(side) = {} THEN NoPrice
    ELSE order[Head(book[side][Top("SELL", NonEmptyLevels(side))])].price
\* FindBestBid_ and FindBestAsk_: the price of the first order of the best level
FindBest(side) ==
    IF NonEmptyLevels(side) = {}
    THEN NoPrice
    ELSE order[Head(book[side][Top(side, NonEmptyLevels(side))])].price

\* the book without order o, wherever it rests
BookWithout(o) ==
    [book EXCEPT ![order[o].side][PriceToIndex(order[o].price)] = Erase(@, o)]

\* AddOrderToBook_: the book with o at the back of the list of its side and price
BookWith(o) ==
    [book EXCEPT ![order[o].side][PriceToIndex(order[o].price)] = PushBack(@, o)]

\* try_enqueue of a MatchingEngineFillEvent; every caller ignores its result
Emit(o, price, qty, left, stat, statusChanged) ==
    IF Len(fillEvents) < FillQueueCap
    THEN /\ fillEvents' = Append(fillEvents, [order |-> o, price |-> price, qty |-> qty,
                                 remaining |-> left, status |-> stat, changed |-> statusChanged])
         /\ emitted'   = [emitted EXCEPT ![o] = @ + qty]
         /\ announced' = IF statusChanged THEN [announced EXCEPT ![o] = stat] ELSE announced
         /\ UNCHANGED lost
    ELSE /\ lost' = lost \cup {o}
         /\ UNCHANGED <<fillEvents, emitted, announced>>

\* the process aborts, or has undefined behaviour
Fail(reason) ==
    /\ fault' = reason
    /\ UNCHANGED <<heapVars, ordersQueue, bookVars, pc, seen, sweepVars, clearVars, eventVars>>

-----------------------------------------------------------------------------
Init ==
    /\ order     = [o \in OrderIds |-> NoRequest]
    /\ remaining = [o \in OrderIds |-> 0]
    /\ status    = [o \in OrderIds |-> "none"]
    /\ ordersQueue = <<>>
    /\ book   = [side \in Sides |-> [l \in Levels |-> <<>>]]
    /\ best   = [side \in Sides |-> NoPrice]
    /\ lookup = {}
    /\ pc     = [t \in Threads |-> "idle"]
    /\ seen   = [t \in Threads |-> NoPrice]
    /\ agg = NoOrder /\ level = 0 /\ it = NoOrder /\ traded = 0
    /\ phase = "open" /\ clearLevel = 0 /\ clearIt = NoOrder
    /\ fillEvents = <<>>
    /\ fault = "none"
    /\ emitted   = [o \in OrderIds |-> 0]
    /\ announced = [o \in OrderIds |-> "none"]
    /\ lost = {}

-----------------------------------------------------------------------------
(* Calls of the Exchange's message thread *)

\* server order ids grow with every order, so orders are created in id order
NextId(o) == status[o] = "none" /\ \A p \in OrderIds : p < o => status[p] # "none"

\* HandleIncomingOrderRequest_: create the order, report it Accepted, hand it to
\* the engine.  When try_enqueue fails GiveToMatchingEngine_ goes on to read the
\* unique_ptr it has moved from.
AddOrder(o, d) ==
    /\ phase = "open" /\ pc["exchange"] = "idle"
    /\ NextId(o)
    /\ \/ /\ Len(ordersQueue) < OrdersQueueCap
          /\ order'     = [order EXCEPT ![o] = d]
          /\ remaining' = [remaining EXCEPT ![o] = d.qty]
          /\ status'    = [status EXCEPT ![o] = "Accepted"]
          /\ announced' = [announced EXCEPT ![o] = "Accepted"]
          /\ ordersQueue' = Append(ordersQueue, o)
          /\ UNCHANGED <<bookVars, pc, seen, sweepVars, clearVars, fillEvents, emitted, lost, fault>>
       \/ /\ Len(ordersQueue) >= OrdersQueueCap
          /\ Fail("null_deref")

\* orderIteratorLookupMap_.erase
\* (slip: the entry stays)
Remember(o) == UNCHANGED lookup
Forget(o)   == lookup' = lookup \ {o}

\* CancelOrder of an order that rests: unlink it, forget it, then rescan the book
\* on this thread.  For any other order it returns false and changes nothing.
CancelOrder(o) ==
    /\ phase = "open" /\ pc["exchange"] = "idle"
    /\ o \in lookup
    /\ book'   = BookWithout(o)
    /\ Forget(o)
    /\ pc'     = [pc EXCEPT !["exchange"] = ScanAt["BUY"]]
    /\ UNCHANGED <<heapVars, ordersQueue, best, seen, sweepVars, clearVars, eventVars, fault>>

-----------------------------------------------------------------------------
(* UpdateBestBidAndAsk_, run by both threads: for the bids and then for the *)
(* asks, a scan of the levels and a store of what it found.                 *)

ScanBest(t, side) ==
    /\ pc[t] = ScanAt[side]
    /\ seen' = [seen EXCEPT ![t] = FindBest(side)]
    /\ pc'   = [pc EXCEPT ![t] = StoreAt[side]]
    /\ UNCHANGED <<heapVars, ordersQueue, bookVars, sweepVars, clearVars, eventVars, fault>>

StoreBest(t, side) ==
    /\ pc[t] = StoreAt[side]
    /\ best' = [best EXCEPT ![side] = seen[t]]
    /\ seen' = [seen EXCEPT ![t] = NoPrice]
    /\ pc'   = [pc EXCEPT ![t] = IF side = "BUY" THEN ScanAt["SELL"] ELSE "idle"]
    /\ UNCHANGED <<heapVars, ordersQueue, book, lookup, sweepVars, clearVars, eventVars, fault>>

-----------------------------------------------------------------------------
(* MatchOrders_ and MatchAggressingSellOrder_ / MatchAggressingBuyOrder_ *)

AggSide  == order[agg].side
RestSide == Opposite(AggSide)
IsMarket(o) == order[o].type = "MARKET"
LimitLevel(o) == PriceToIndex(order[o].price)

\* the sweep moves from the best level to worse ones: bids down, asks up
\* (slip: the sweep stays on its level)
SameLevel(side, l) == l
Worse(side, l) == IF side = "BUY" THEN l - 1 ELSE l + 1
NotPassed(side, l) == IF side = "BUY" THEN l <= level ELSE l >= level
\* (slips: equal prices do not trade; the limit is off by a tick)
StrictlyWithin(l) ==
    IsMarket(agg) \/ (IF AggSide = "SELL" THEN l > LimitLevel(agg) ELSE l < LimitLevel(agg))
TickBeyond(l) ==
    IsMarket(agg) \/ (IF AggSide = "SELL" THEN l >= LimitLevel(agg) - 1 ELSE l <= LimitLevel(agg) + 1)
WithinLimit(l) ==
    \/ IsMarket(agg)
    \/ IF AggSide = "SELL" THEN l >= LimitLevel(agg) ELSE l <= LimitLevel(agg)

LevelsToSweep == {l \in NonEmptyLevels(RestSide) : NotPassed(RestSide, l) /\ WithinLimit(l)}

\* Where a limit order's sweep starts.  Without a best price, NO_BID or NO_ASK is
\* converted to size_t, which is undefined: 0 on AArch64, out of range on x86-64.
StartLevels(side) ==
    IF best[side] # NoPrice THEN {PriceToIndex(best[side])}
    ELSE {0, IF side = "BUY" THEN -1 ELSE MaxLevel + 1}

\* leaving the matching function: its locals die, UpdateBestBidAndAsk_ is next
\* (slips: the order is not moved out of the function; qtyTradedAtPrice outlives the level)
ReturnKeepingOrder ==
    /\ pc' = [pc EXCEPT !["matcher"] = ScanAt["BUY"]]
    /\ level' = 0 /\ it' = NoOrder /\ traded' = 0 /\ UNCHANGED agg
ReturnKeepingTraded ==
    /\ pc' = [pc EXCEPT !["matcher"] = ScanAt["BUY"]]
    /\ agg' = NoOrder /\ level' = 0 /\ it' = NoOrder /\ UNCHANGED traded
Return ==
    /\ pc' = [pc EXCEPT !["matcher"] = ScanAt["BUY"]]
    /\ agg' = NoOrder /\ level' = 0 /\ it' = NoOrder /\ traded' = 0

\* try_dequeue and the early return of a market order that sees no best price
TakeOrder ==
    /\ pc["matcher"] = "idle" /\ ordersQueue # <<>>
    /\ ordersQueue' = Tail(ordersQueue)
    /\ LET o    == Head(ordersQueue)
           side == Opposite(order[o].side)
       IN  \/ /\ IsMarket(o) /\ best[side] = NoPrice
              /\ Return
           \/ /\ ~(IsMarket(o) /\ best[side] = NoPrice)
              /\ pc'  = [pc EXCEPT !["matcher"] = "sweep"]
              /\ agg' = o
              /\ level' \in StartLevels(side)
              /\ UNCHANGED <<it, traded>>
    /\ UNCHANGED <<heapVars, bookVars, seen, clearVars, eventVars, fault>>

\* go on to the next level that has orders and is within the limit
EnterLevel ==
    /\ pc["matcher"] = "sweep" /\ LevelsToSweep # {}
    /\ level' = Top(RestSide, LevelsToSweep)
    /\ it'    = Head(book[RestSide][level'])
    /\ pc'    = [pc EXCEPT !["matcher"] = "level"]
    /\ UNCHANGED <<heapVars, ordersQueue, bookVars, seen, agg, traded, clearVars, eventVars, fault>>

OwnOrder(o) == IsProduction /\ order[o].session = order[agg].session

\* IS_PRODUCTION: no trade with an order of the same session
SkipOwn ==
    /\ pc["matcher"] = "level" /\ it # NoOrder /\ Listed(it) /\ OwnOrder(it)
    /\ it' = Successor(book[RestSide][level], it)
    /\ UNCHANGED <<heapVars, ordersQueue, bookVars, pc, seen, agg, level, traded,
                   clearVars, eventVars, fault>>

\* One trade: DEBUG_ASSERT(qtyTraded > 0), UpdateQtyAndStatus_, the resting
\* order's event, and its removal when it is filled.
\* (slips: no min; only the aggressor pays; no status change on a first partial fill)
WholeAggressor == remaining[agg]
AggressorOnly(q) == [remaining EXCEPT ![agg] = @ - q]
OnlyWhenFilled(before, after) == after = "Filled"
AfterTrade(q) == [remaining EXCEPT ![it] = @ - q, ![agg] = @ - q]
RestingStatusChanged(before, after) == after = "Filled" \/ before # "PartiallyFilled"
FillQty == IF remaining[it] < remaining[agg] THEN remaining[it] ELSE remaining[agg]
StatusAfter(left) == IF left = 0 THEN "Filled" ELSE "PartiallyFilled"

FillOne ==
    /\ pc["matcher"] = "level" /\ it # NoOrder /\ Listed(it) /\ ~OwnOrder(it)
    /\ \/ FillQty = 0 /\ Fail("assert")
       \/ /\ FillQty > 0
          /\ traded'    = traded + FillQty
          /\ remaining' = AfterTrade(FillQty)
          /\ status'    = [status EXCEPT ![it] = StatusAfter(remaining'[it]),
                                         ![agg] = StatusAfter(remaining'[agg])]
          /\ Emit(it, IndexToPrice(level), FillQty, remaining'[it], status'[it],
                  RestingStatusChanged(status[it], status'[it]))
          /\ it' = Successor(book[RestSide][level], it)
          /\ IF remaining'[it] = 0
             THEN book' = BookWithout(it) /\ Forget(it)
             ELSE UNCHANGED <<book, lookup>>
          /\ pc' = IF remaining'[agg] = 0 THEN [pc EXCEPT !["matcher"] = "filled"] ELSE pc
          /\ UNCHANGED <<order, ordersQueue, best, seen, agg, level, clearVars, fault>>

\* the iterator points to an order that another thread has taken off its list
Dangling ==
    /\ pc["matcher"] = "level" /\ it # NoOrder /\ ~Listed(it)
    /\ Fail("use_after_free")

\* the aggressing order is filled: one event for all it traded at this level
ReportFilled ==
    /\ pc["matcher"] = "filled"
    /\ Emit(agg, IndexToPrice(level), traded, remaining[agg], status[agg],
            order[agg].qty # remaining[agg])
    /\ Return
    /\ UNCHANGED <<heapVars, ordersQueue, bookVars, seen, clearVars, fault>>

\* end of a level's list
LeaveLevel ==
    /\ pc["matcher"] = "level" /\ it = NoOrder
    /\ \/ remaining[agg] = 0 /\ Fail("assert")
       \/ /\ remaining[agg] > 0
          /\ IF traded > 0
             THEN Emit(agg, IndexToPrice(level), traded, remaining[agg], status[agg], TRUE)
             ELSE UNCHANGED eventVars
          /\ traded' = 0
          /\ level'  = Worse(RestSide, level)
          /\ pc'     = [pc EXCEPT !["matcher"] = "sweep"]
          /\ UNCHANGED <<heapVars, ordersQueue, bookVars, seen, agg, it, clearVars, fault>>

SweepOver == pc["matcher"] = "sweep" /\ LevelsToSweep = {}

\* a market order that traded nothing is reported; what is left of one that
\* traded something is destroyed with the order
EndMarket ==
    /\ SweepOver /\ IsMarket(agg)
    /\ \/ /\ order[agg].qty = remaining[agg]
          /\ status' = [status EXCEPT ![agg] = "Unfilled"]
          /\ Emit(agg, 0, 0, remaining[agg], "Unfilled", TRUE)
       \/ /\ order[agg].qty # remaining[agg]
          /\ UNCHANGED <<status, eventVars>>
    /\ Return
    /\ UNCHANGED <<order, remaining, ordersQueue, bookVars, seen, clearVars, fault>>

\* AddOrderToBook_: what is left of a limit order joins the back of its level
EndLimit ==
    /\ SweepOver /\ ~IsMarket(agg)
    /\ \/ remaining[agg] = 0 /\ Fail("assert")
       \/ /\ remaining[agg] > 0
          /\ book'   = BookWith(agg)
          /\ lookup' = lookup \cup {agg}
          /\ Return
          /\ UNCHANGED <<heapVars, ordersQueue, best, seen, clearVars, eventVars, fault>>

-----------------------------------------------------------------------------
(* Shutdown: ~Exchange, ClearBook, ~MatchingEngine *)

\* the message thread has been joined; the matching thread still runs
BeginClear ==
    /\ phase = "open" /\ pc["exchange"] = "idle"
    /\ phase' = "BUY" /\ clearLevel' = 0 /\ clearIt' = First(book["BUY"][0])
    /\ UNCHANGED <<heapVars, ordersQueue, bookVars, pc, seen, sweepVars, eventVars, fault>>

\* one order of ClearSide: status Done, its event, off its list
ClearOne ==
    /\ phase \in Sides /\ clearIt # NoOrder
    /\ \/ ~Listed(clearIt) /\ Fail("use_after_free")
       \/ /\ Listed(clearIt)
          /\ status' = [status EXCEPT ![clearIt] = "Done"]
          /\ Emit(clearIt, 0, 0, remaining[clearIt], "Done", TRUE)
          /\ clearIt' = Successor(book[phase][clearLevel], clearIt)
          /\ book'   = BookWithout(clearIt)
          /\ UNCHANGED <<order, remaining, ordersQueue, best, lookup, pc, seen, sweepVars,
                         phase, clearLevel, fault>>

\* the next level of ClearSide, the next side, or the end
ClearNext ==
    /\ phase \in Sides /\ clearIt = NoOrder
    /\ \/ /\ clearLevel < MaxLevel
          /\ clearLevel' = clearLevel + 1
          /\ clearIt'    = First(book[phase][clearLevel'])
          /\ UNCHANGED phase
       \/ /\ clearLevel = MaxLevel /\ phase = "BUY"
          /\ phase' = "SELL" /\ clearLevel' = 0 /\ clearIt' = First(book["SELL"][0])
       \/ /\ clearLevel = MaxLevel /\ phase = "SELL"
          /\ phase' = "cleared" /\ clearLevel' = 0 /\ UNCHANGED clearIt
    /\ UNCHANGED <<heapVars, ordersQueue, bookVars, pc, seen, sweepVars, eventVars, fault>>

\* rawTradeProcessingThread_ ends when it finds the queue empty after the request
JoinFillThread ==
    /\ phase = "cleared" /\ fillEvents = <<>>
    /\ phase' = "joined"
    /\ UNCHANGED <<heapVars, ordersQueue, bookVars, pc, seen, sweepVars, clearLevel, clearIt,
                   eventVars, fault>>

\* matchingThread_ sees the stop request of its jthread's destructor
\* (slip: it gives up when the queue is empty)
StopWhenIdle ==
    /\ ordersQueue = <<>> /\ pc["matcher"] = "idle"
    /\ pc' = [pc EXCEPT !["matcher"] = "stopped"]
    /\ UNCHANGED <<heapVars, ordersQueue, bookVars, seen, sweepVars, clearVars, eventVars, fault>>
StopMatching ==
    /\ phase = "joined" /\ pc["matcher"] = "idle"
    /\ pc' = [pc EXCEPT !["matcher"] = "stopped"]
    /\ UNCHANGED <<heapVars, ordersQueue, bookVars, seen, sweepVars, clearVars, eventVars, fault>>

\* ProcessMatchingEngineFills_ takes the oldest event
\* (slip: it no longer looks once the shutdown has begun)
TakeWhileOpen ==
    /\ phase = "open" /\ fillEvents # <<>>
    /\ fillEvents' = Tail(fillEvents)
    /\ UNCHANGED <<heapVars, ordersQueue, bookVars, pc, seen, sweepVars, clearVars,
                   emitted, announced, lost, fault>>
TakeFillEvent ==
    /\ phase # "joined" /\ fillEvents # <<>>
    /\ fillEvents' = Tail(fillEvents)
    /\ UNCHANGED <<heapVars, ordersQueue, bookVars, pc, seen, sweepVars, clearVars,
                   emitted, announced, lost, fault>>

-----------------------------------------------------------------------------
Update(t) == \E side \in Sides : ScanBest(t, side) \/ StoreBest(t, side)

Sweep == EnterLevel \/ SkipOwn \/ FillOne \/ Dangling \/ ReportFilled \/ LeaveLevel
         \/ EndMarket \/ EndLimit

MatchingThread == fault = "none" /\ (TakeOrder \/ Sweep \/ Update("matcher") \/ StopMatching)

MessageThread ==
    /\ fault = "none"
    /\ \/ \E o \in OrderIds, d \in Requests : AddOrder(o, d)
       \/ \E o \in OrderIds : CancelOrder(o)
       \/ Update("exchange")

Destructor == fault = "none" /\ (BeginClear \/ ClearOne \/ ClearNext \/ JoinFillThread)

FillThread == fault = "none" /\ TakeFillEvent

Next == MatchingThread \/ MessageThread \/ Destructor \/ FillThread

Spec == Init /\ [][Next]_vars

\* The matching thread polls for ever, a call once begun goes on, the fill thread
\* polls for ever.  Nobody has to send an order, cancel one or shut down.
FairSpec ==
    /\ Spec
    /\ WF_vars(MatchingThread)
    /\ WF_vars(fault = "none" /\ Update("exchange"))
    /\ WF_vars(fault = "none" /\ (ClearOne \/ ClearNext \/ JoinFillThread))
    /\ WF_vars(FillThread)

\* What a mutex would give: CancelOrder and ClearBook never run during a match.
Exclusive == pc["matcher"] \in {"idle", "stopped"} \/ (pc["exchange"] = "idle" /\ phase \notin Sides)
SerialSpec == Init /\ [][Next /\ Exclusive']_vars

-----------------------------------------------------------------------------
(* Safety *)

Created == {o \in OrderIds : status[o] # "none"}

TypeOK ==
    /\ order \in [OrderIds -> Requests \cup {NoRequest}]
    /\ remaining \in [OrderIds -> Nat]
    /\ status \in [OrderIds -> Statuses]
    /\ ordersQueue \in Seq(OrderIds)
    /\ book \in [Sides -> [Levels -> Seq(OrderIds)]]
    /\ best \in [Sides -> Nat \cup {NoPrice}]
    /\ lookup \subseteq OrderIds
    /\ pc \in [Threads -> UpdateSteps \cup {"idle", "sweep", "level", "filled", "stopped"}]
    /\ seen \in [Threads -> Nat \cup {NoPrice}]
    /\ agg \in OrderIds \cup {NoOrder} /\ it \in OrderIds \cup {NoOrder}
    /\ level \in -1 .. (MaxLevel + 1) /\ traded \in Nat
    /\ phase \in Phases /\ clearLevel \in Levels /\ clearIt \in OrderIds \cup {NoOrder}
    /\ fault \in Faults
    /\ emitted \in [OrderIds -> Nat]
    /\ announced \in [OrderIds -> Statuses]
    /\ lost \subseteq OrderIds

Increasing(list) == \A j, k \in DOMAIN list : j < k => list[j] < list[k]

\* Every list of the book holds, oldest first and once each, limit orders of its
\* own side and price that have quantity left.  Cancels, fills and ClearBook may
\* interleave in any way.
BookSound ==
    \A side \in Sides, l \in Levels :
        /\ Increasing(book[side][l])
        /\ \A o \in ToSet(book[side][l]) :
              /\ order[o].side = side /\ order[o].type = "LIMIT"
              /\ PriceToIndex(order[o].price) = l
              /\ remaining[o] > 0

\* orderIteratorLookupMap_ knows exactly the orders that rest, until ClearBook,
\* which empties the lists and leaves the map.
LookupMatchesBook == IF phase = "open" THEN lookup = Resting ELSE Resting \subseteq lookup

\* One owner per order: it waits in the queue, or is the aggressor, or rests, or
\* is gone; and what is behind in the pipeline is younger.
OwnedOnce ==
    /\ Increasing(ordersQueue)
    /\ \A o \in ToSet(ordersQueue) : o > agg /\ \A p \in Resting : o > p
    /\ agg # NoOrder => \A p \in Resting : agg > p

\* Nothing traded goes unreported: what the events of an order add up to, with
\* what the current level has still to report, is what it has traded.
QtyAccounting ==
    \A o \in OrderIds \ lost :
        emitted[o] + (IF o = agg THEN traded ELSE 0) = order[o].qty - remaining[o]

\* The fills and the last status a broker was sent agree: a status change is
\* never left out and never early, for resting and for aggressing orders.
ReportsAgree ==
    \A o \in OrderIds \ lost :
        CASE announced[o] = "Filled"          -> emitted[o] = order[o].qty
          [] announced[o] = "PartiallyFilled" -> 0 < emitted[o] /\ emitted[o] < order[o].qty
          [] announced[o] \in {"none", "Accepted", "Unfilled"} -> emitted[o] = 0
          [] announced[o] = "Done" -> emitted[o] < order[o].qty

\* The engine does what the abstract ledger allows: it trades only live orders
\* that cross, each trade takes the same quantity off both, and no order trades
\* after it was cancelled, cleared, filled or given up.
Ledger == INSTANCE OrderLedger WITH
    request <- order,
    left    <- remaining,
    live    <- {o \in ToSet(ordersQueue) \cup {agg} : o \in OrderIds /\ remaining[o] > 0} \cup Resting,
    known   <- Created
LedgerSpec == Ledger!Spec

\* Every trade price is within the limits of both orders.  True of whole ticks only
\* (SubTick = 1): others are rounded to their level's price, which may be beyond.
Within(o, price) ==
    \/ IsMarket(o)
    \/ IF order[o].side = "BUY" THEN price <= order[o].price ELSE price >= order[o].price
TradesWithinLimits ==
    [][\A o \in OrderIds : status[o] # "none" /\ remaining'[o] < remaining[o]
          => Within(o, IndexToPrice(level))]_vars

-----------------------------------------------------------------------------
(* What needs the calls of other threads kept out of a match *)

\* Between matches the stored best prices are those of the book.
BestIsCurrent ==
    (pc = [t \in Threads |-> "idle"] /\ phase = "open")
        => \A side \in Sides :
              IF NonEmptyLevels(side) = {} THEN best[side] = NoPrice
              ELSE PriceToIndex(best[side]) = Top(side, NonEmptyLevels(side))

\* Between matches no resting buyer is willing to pay what a resting seller asks,
\* unless both are of one session, which IS_PRODUCTION keeps from trading.
NotCrossed ==
    pc["matcher"] = "idle" =>
        \A b \in NonEmptyLevels("BUY"), s \in NonEmptyLevels("SELL") :
            s <= b => \A o \in ToSet(book["BUY"][b]), p \in ToSet(book["SELL"][s]) :
                          IsProduction /\ order[o].session = order[p].session

\* Price-time priority: an order that trades while it rests is one that no other
\* resting order of its side precedes, the aggressor's own orders aside.  It needs
\* whole ticks (prices that share a level trade in time order) and SerialSpec (a
\* cancel during a match may store a stale best price).
Precedes(p, o) ==
    \/ order[p].price # order[o].price
       /\ (order[p].price > order[o].price <=> order[o].side = "BUY")
    \/ order[p].price = order[o].price /\ p < o
PriceTimePriority ==
    [][\A o \in Resting : remaining'[o] < remaining[o]
          => \A p \in Resting :
                order[p].side = order[o].side /\ Precedes(p, o) => OwnOrder(p)]_vars

\* No iterator of a match or of ClearBook is used after its order was freed.
NoUseAfterFree == fault # "use_after_free"

-----------------------------------------------------------------------------
(* Liveness, under FairSpec *)

Stuck == fault # "none"

\* Every match ends and the best prices are updated after it.
MatchEnds == pc["matcher"] # "idle" ~> (pc["matcher"] \in {"idle", "stopped"} \/ Stuck)

\* Every order handed to the engine is matched, unless the program shuts down.
OrdersAreTaken ==
    \A o \in OrderIds : o \in ToSet(ordersQueue)
        ~> (o \notin ToSet(ordersQueue) \/ phase = "joined" \/ Stuck)

\* A shutdown that has begun joins the fill thread, however much is queued.
ShutdownEnds == phase \in Sides ~> (phase = "joined" \/ Stuck)
=============================================================================
