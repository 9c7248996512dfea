---------------------- MODULE MatchingEngineSerialProofs ----------------------
(***************************************************************************)
(* What a MatchingEngine promises when cancels and the shutdown are kept   *)
(* out of a match (SerialSpec): its stored best prices are current between *)
(* matches, the book is not crossed, and orders trade in price-time order. *)
(***************************************************************************)
EXTENDS MatchingEngineProofs

-----------------------------------------------------------------------------
(* The inductive invariant of SerialSpec *)

RestingOn(side) == {p \in Resting : order[p].side = side}

\* l is no better a level than m.
NoBetter(side, l, m) == IF side = "BUY" THEN l <= m ELSE l >= m

\* The stored best price is at least as good as every order that rests.
BestBounds(side) ==
    \A p \in RestingOn(side) :
        best[side] # NoPrice /\ NoBetter(side, LimitLevel(p), PriceToIndex(best[side]))

\* A thread that is about to store a best price has that of the book.
ScansAreFresh ==
    \A t \in Threads, side \in Sides : pc[t] = StoreAt[side] => seen[t] = FindBest(side)

\* While the engine is open the stored prices are those of the book, but for the
\* sides that an update under way has still to store, and but for a match.
StoredAreFresh ==
    phase = "open" =>
        /\ pc["matcher"] = "idle" /\ pc["exchange"] = "idle"
              => \A side \in Sides : best[side] = FindBest(side)
        /\ \A t \in Threads : pc[t] \in {"scanAsk", "storeAsk"} => best["BUY"] = FindBest("BUY")

StoredAreBounds ==
    /\ pc["matcher"] \notin {"scanBid", "storeBid"} => BestBounds("BUY")
    /\ pc["matcher"] \notin UpdateSteps => BestBounds("SELL")

\* An order that the sweep has passed.
LeftBehind(p) ==
    \/ ~NotPassed(RestSide, LimitLevel(p))
    \/ pc["matcher"] = "level" /\ LimitLevel(p) = level /\ (it = NoOrder \/ p < it)

\* What the sweep has left behind, on better levels and earlier on this one, are
\* orders of the aggressor's own session.
SweptOwn ==
    pc["matcher"] \in {"sweep", "level"} =>
        \A p \in RestingOn(RestSide) : LeftBehind(p) => OwnOrder(p)

\* The book is not crossed, during a match either.
Uncrossed ==
    \A o \in RestingOn("BUY"), p \in RestingOn("SELL") :
        LimitLevel(p) <= LimitLevel(o) => IsProduction /\ order[o].session = order[p].session

SInv ==
    /\ Exclusive
    /\ pc["exchange"] # "idle" => phase = "open"
    /\ ScansAreFresh /\ StoredAreFresh /\ StoredAreBounds
    /\ SweptOwn /\ Uncrossed

-----------------------------------------------------------------------------
(* Best levels and best prices *)

LEMMA TopIsBest ==
  ASSUME NEW side \in Sides, NEW S \in SUBSET Levels, S # {}
  PROVE  Top(side, S) \in S /\ \A m \in S : NoBetter(side, m, Top(side, S))
<1>1. CASE side = "BUY"
  <2>1. \E l \in S : \A m \in S : m <= l
    BY HighestExists, SizesAssumption DEF Levels
  <2> QED
    BY <1>1, <2>1 DEF Top, NoBetter
<1>2. CASE side # "BUY"
  <2>1. \E l \in S : \A m \in S : l <= m
    BY LowestExists, SizesAssumption DEF Levels
  <2>2. \A l \in S, m \in S : l <= m <=> m >= l
    BY SizesAssumption DEF Levels
  <2>3. Top(side, S) \in S /\ \A m \in S : Top(side, S) <= m
    BY <1>2, <2>1 DEF Top
  <2> QED
    BY <1>2, <2>2, <2>3 DEF NoBetter
<1> QED
  BY <1>1, <1>2

LEMMA RestingLevels ==
  ASSUME IInv, NEW side \in Sides
  PROVE  /\ \A p \in RestingOn(side) :
               /\ p \in OrderIds /\ p \in Created
               /\ LimitLevel(p) \in Levels /\ LimitLevel(p) \in NonEmptyLevels(side)
               /\ p \in ToSet(book[side][LimitLevel(p)])
         /\ \A l \in Levels : \A p \in ToSet(book[side][l]) : p \in RestingOn(side) /\ LimitLevel(p) = l
         /\ NonEmptyLevels(side) \in SUBSET Levels
<1>1. ASSUME NEW p \in RestingOn(side)
      PROVE  /\ p \in OrderIds /\ p \in Created
             /\ LimitLevel(p) \in Levels /\ LimitLevel(p) \in NonEmptyLevels(side)
             /\ p \in ToSet(book[side][LimitLevel(p)])
  <2>1. p \in Resting /\ order[p].side = side
    BY DEF RestingOn
  <2>2. /\ p \in OrderIds /\ LimitLevel(p) \in Levels /\ p \in ToSet(book[side][LimitLevel(p)])
        /\ p \in Created
    BY <2>1, RestingOrders DEF IInv, Provenance
  <2>3. book[side][LimitLevel(p)] # <<>>
    BY <2>2 DEF ToSet
  <2> QED
    BY <2>2, <2>3 DEF NonEmptyLevels
<1>2. ASSUME NEW l \in Levels, NEW p \in ToSet(book[side][l])
      PROVE  p \in RestingOn(side) /\ LimitLevel(p) = l
  BY ListType DEF RestingOn
<1> QED
  BY <1>1, <1>2 DEF NonEmptyLevels

\* FindBestBid_ and FindBestAsk_ find the price of the best level that has orders.
LEMMA FindBestIsBest ==
  ASSUME IInv, NEW side \in Sides
  PROVE  /\ NonEmptyLevels(side) = {} => FindBest(side) = NoPrice
         /\ NonEmptyLevels(side) # {} =>
               /\ FindBest(side) # NoPrice
               /\ PriceToIndex(FindBest(side)) = Top(side, NonEmptyLevels(side))
         /\ \A p \in RestingOn(side) :
               /\ FindBest(side) # NoPrice
               /\ NoBetter(side, LimitLevel(p), PriceToIndex(FindBest(side)))
<1>1. ASSUME NonEmptyLevels(side) # {}
      PROVE  /\ FindBest(side) # NoPrice
             /\ PriceToIndex(FindBest(side)) = Top(side, NonEmptyLevels(side))
  <2>1. PICK l \in Levels : l = Top(side, NonEmptyLevels(side)) /\ book[side][l] # <<>>
    BY <1>1, TopIsBest DEF NonEmptyLevels
  <2>2. book[side][l] \in Seq(OrderIds) /\ Increasing(book[side][l])
    BY <2>1 DEF IInv, TypeOK, BookSound
  <2>3. PICK o \in ToSet(book[side][l]) : o = Head(book[side][l])
    BY <2>1, <2>2, TailProperties, OrderIdsAreInts
  <2>4. o \in RestingOn(side) /\ LimitLevel(o) = l
    BY RestingLevels
  <2>5. order[o] \in Requests
    BY <2>4, RestingLevels DEF IInv, Provenance
  <2>6. order[o].price \in Nat
    BY <2>5, RequestFields
  <2>7. FindBest(side) = order[o].price
    BY <1>1, <2>1, <2>3 DEF FindBest
  <2> QED
    BY <2>1, <2>4, <2>6, <2>7 DEF LimitLevel, NoPrice
<1>2. ASSUME NEW p \in RestingOn(side)
      PROVE  FindBest(side) # NoPrice /\ NoBetter(side, LimitLevel(p), PriceToIndex(FindBest(side)))
  <2>1. LimitLevel(p) \in NonEmptyLevels(side) /\ NonEmptyLevels(side) \in SUBSET Levels
    BY RestingLevels
  <2>2. NoBetter(side, LimitLevel(p), Top(side, NonEmptyLevels(side)))
    BY <2>1, TopIsBest
  <2> QED
    BY <1>1, <2>1, <2>2
<1> QED
  BY <1>1, <1>2 DEF FindBest

LEMMA FreshIsBound ==
  ASSUME IInv, NEW side \in Sides, best[side] = FindBest(side)
  PROVE  BestBounds(side)
BY FindBestIsBest DEF BestBounds

LEMMA FindBestKept ==
  ASSUME IInv, NEW side \in Sides, book' = book, \A p \in Created : order'[p] = order[p]
  PROVE  FindBest(side)' = FindBest(side)
<1>1. NonEmptyLevels(side)' = NonEmptyLevels(side)
  BY DEF NonEmptyLevels
<1>2. CASE NonEmptyLevels(side) # {}
  <2>1. PICK l \in Levels : l = Top(side, NonEmptyLevels(side)) /\ book[side][l] # <<>>
    <3>1. NonEmptyLevels(side) \in SUBSET Levels
      BY DEF NonEmptyLevels
    <3>2. Top(side, NonEmptyLevels(side)) \in NonEmptyLevels(side)
      BY <1>2, <3>1, TopIsBest
    <3> QED
      BY <3>2 DEF NonEmptyLevels
  <2>2. book[side][l] \in Seq(OrderIds) /\ Increasing(book[side][l])
    BY <2>1 DEF IInv, TypeOK, BookSound
  <2>3. PICK o \in ToSet(book[side][l]) : o = Head(book[side][l])
    BY <2>1, <2>2, TailProperties, OrderIdsAreInts
  <2>4. order'[o] = order[o]
    BY RestingLevels
  <2> QED
    BY <1>1, <1>2, <2>1, <2>3, <2>4 DEF FindBest
<1>3. CASE NonEmptyLevels(side) = {}
  BY <1>1, <1>3 DEF FindBest
<1> QED
  BY <1>2, <1>3

-----------------------------------------------------------------------------
(* What a smaller book keeps *)

LEMMA ShrunkBook ==
  ASSUME IInv, Resting' \subseteq Resting, \A p \in Created : order'[p] = order[p]
  PROVE  /\ \A side \in Sides : /\ RestingOn(side)' \subseteq RestingOn(side)
                                /\ \A p \in RestingOn(side) : LimitLevel(p)' = LimitLevel(p)
         /\ \A side \in Sides : BestBounds(side) /\ best'[side] = best[side] => BestBounds(side)'
         /\ Uncrossed => Uncrossed'
<1>1. \A p \in Resting : order'[p] = order[p]
  BY DEF IInv, Provenance
<1>2. ASSUME NEW side \in Sides
      PROVE  /\ RestingOn(side)' \subseteq RestingOn(side)
             /\ \A p \in RestingOn(side) : LimitLevel(p)' = LimitLevel(p)
  BY <1>1 DEF RestingOn, LimitLevel
<1>3. ASSUME NEW side \in Sides, BestBounds(side), best'[side] = best[side]
      PROVE  BestBounds(side)'
  BY <1>2, <1>3 DEF BestBounds
<1>4. ASSUME Uncrossed PROVE Uncrossed'
  <2>1. "BUY" \in Sides /\ "SELL" \in Sides
    BY ControlPoints
  <2>2. \A p \in RestingOn("BUY") \cup RestingOn("SELL") : order'[p] = order[p]
    BY <1>1 DEF RestingOn
  <2> QED
    BY <1>2, <1>4, <2>1, <2>2 DEF Uncrossed
<1> QED
  BY <1>2, <1>3, <1>4

\* Steps that leave the book, the best prices and the match alone.
LEMMA SerialFrame ==
  ASSUME IInv, SInv, Exclusive', UNCHANGED <<book, best, seen>>,
         \A p \in Created : order'[p] = order[p],
         UNCHANGED <<agg, level, it>>,
         \/ pc' = pc
         \/ pc'["exchange"] = pc["exchange"] /\ pc'["matcher"] = "stopped" /\ pc["matcher"] = "idle",
         phase' = phase \/ (phase' # "open" /\ pc["exchange"] = "idle")
  PROVE  SInv'
<1>1. Resting' = Resting
  BY DEF Resting
<1>2. pc'["exchange"] # "idle" => phase' = "open"
  BY DEF SInv
<1>3. \A side \in Sides : FindBest(side)' = FindBest(side)
  BY FindBestKept
<1>4. ScansAreFresh' /\ StoredAreFresh'
  BY <1>3, ControlPoints DEF SInv, ScansAreFresh, StoredAreFresh
<1>5. StoredAreBounds' /\ Uncrossed'
  BY <1>1, ShrunkBook, ControlPoints DEF SInv, StoredAreBounds
<1>6. SweptOwn'
  <2>1. ASSUME pc'["matcher"] \in {"sweep", "level"}
        PROVE  \A p \in RestingOn(RestSide)' : LeftBehind(p)' => OwnOrder(p)'
    <3>1. pc'["matcher"] = pc["matcher"] /\ agg # NoOrder
      BY <2>1 DEF IInv, Control
    <3>2. agg \in Created /\ RestSide \in Sides
      BY <3>1, Aggressor
    <3>3. order'[agg] = order[agg] /\ RestSide' = RestSide
      BY <3>2 DEF RestSide, AggSide
    <3>4. RestingOn(RestSide)' \subseteq RestingOn(RestSide)
      BY <1>1, <3>2, <3>3, ShrunkBook DEF RestingOn
    <3>5. ASSUME NEW p \in RestingOn(RestSide), LeftBehind(p)' PROVE OwnOrder(p)'
      <4>1. order'[p] = order[p] /\ LimitLevel(p)' = LimitLevel(p)
        BY <3>2, RestingLevels DEF LimitLevel
      <4>2. LeftBehind(p)
        BY <3>1, <3>3, <3>5, <4>1 DEF LeftBehind, NotPassed
      <4>3. OwnOrder(p)
        BY <2>1, <3>1, <4>2 DEF SInv, SweptOwn
      <4> QED
        BY <3>3, <4>1, <4>3 DEF OwnOrder
    <3> QED
      BY <3>4, <3>5
  <2> QED
    BY <2>1 DEF SweptOwn
<1> QED
  BY <1>2, <1>4, <1>5, <1>6 DEF SInv

-----------------------------------------------------------------------------
(* Steps outside a match *)

LEMMA SerialQuiet ==
  ASSUME IInv, SInv, Exclusive'
  PROVE  /\ \A reason : Fail(reason) => SInv'
         /\ BeginClear \/ ClearNext \/ JoinFillThread => SInv'
         /\ StopMatching \/ TakeFillEvent \/ UNCHANGED vars => SInv'
<1> USE DEF heapVars, bookVars, sweepVars, clearVars, eventVars
<1>1. ASSUME NEW reason, Fail(reason) PROVE SInv'
  BY <1>1, SerialFrame DEF Fail
<1>2. ASSUME BeginClear \/ ClearNext \/ JoinFillThread PROVE SInv'
  <2>1. UNCHANGED <<heapVars, ordersQueue, bookVars, pc, seen, sweepVars, eventVars, fault>>
    BY <1>2, Zenon DEF BeginClear, ClearNext, JoinFillThread
  <2>2. phase' # "open" /\ (phase # "open" \/ pc["exchange"] = "idle")
    BY <1>2, ControlPoints DEF BeginClear, ClearNext, JoinFillThread
  <2>3. pc["exchange"] = "idle"
    BY <2>2 DEF SInv
  <2> QED
    BY <2>1, <2>2, <2>3, SerialFrame
<1>3. ASSUME StopMatching PROVE SInv'
  <2>1. pc'["exchange"] = pc["exchange"] /\ pc'["matcher"] = "stopped" /\ pc["matcher"] = "idle"
    BY <1>3 DEF StopMatching, IInv, TypeOK, Threads
  <2>2. UNCHANGED <<heapVars, ordersQueue, bookVars, seen, sweepVars, clearVars, eventVars, fault>>
    BY <1>3 DEF StopMatching
  <2> QED
    BY <2>1, <2>2, SerialFrame
<1>4. ASSUME TakeFillEvent PROVE SInv'
  BY <1>4, SerialFrame DEF TakeFillEvent
<1>5. ASSUME UNCHANGED vars PROVE SInv'
  BY <1>5, SerialFrame DEF vars
<1> QED
  BY <1>1, <1>2, <1>3, <1>4, <1>5

LEMMA AddOrderSerial ==
  ASSUME IInv, SInv, Exclusive', NEW o \in OrderIds, NEW d \in Requests, AddOrder(o, d)
  PROVE  SInv'
<1> USE DEF heapVars, bookVars, sweepVars, clearVars, eventVars
<1>1. CASE Fail("null_deref")
  BY <1>1, SerialQuiet
<1>2. CASE ~Fail("null_deref")
  <2>1. /\ NextId(o) /\ order' = [order EXCEPT ![o] = d]
        /\ UNCHANGED <<bookVars, pc, seen, sweepVars, clearVars>>
    BY <1>2 DEF AddOrder
  <2>2. \A p \in Created : order'[p] = order[p]
    BY <2>1 DEF NextId, Created, IInv, TypeOK
  <2> QED
    BY <2>1, <2>2, SerialFrame
<1> QED
  BY <1>1, <1>2

\* Between matches the book may lose orders: the stored prices stay bounds.
LEMMA UnlinkSerial ==
  ASSUME IInv, SInv, Exclusive', pc["matcher"] \in {"idle", "stopped"},
         NEW o \in Resting, book' = BookWithout(o), order' = order, remaining' = remaining,
         UNCHANGED <<best, seen, phase>>, pc'["matcher"] = pc["matcher"],
         \/ pc["exchange"] = "idle" /\ pc'["exchange"] = "scanBid" /\ phase = "open"
         \/ pc["exchange"] = "idle" /\ pc'["exchange"] = "idle" /\ phase # "open"
  PROVE  SInv'
<1>1. Resting' \subseteq Resting
  <2>1. \A p \in Resting : remaining'[p] > 0
    BY OnePlace
  <2> QED
    BY <2>1, BookShrinks DEF IInv
<1>2. ScansAreFresh' /\ StoredAreFresh'
  BY ControlPoints DEF ScansAreFresh, StoredAreFresh
<1>3. StoredAreBounds' /\ Uncrossed'
  BY <1>1, ShrunkBook, ControlPoints DEF SInv, StoredAreBounds
<1>4. SweptOwn'
  BY DEF SweptOwn
<1> QED
  BY <1>2, <1>3, <1>4 DEF SInv

LEMMA CancelSerial ==
  ASSUME IInv, SInv, Exclusive', NEW o \in OrderIds, CancelOrder(o)
  PROVE  SInv'
<1> USE DEF heapVars, bookVars, sweepVars, clearVars, eventVars
<1>1. /\ book' = BookWithout(o) /\ pc' = [pc EXCEPT !["exchange"] = ScanAt["BUY"]] /\ o \in lookup
      /\ phase = "open" /\ pc["exchange"] = "idle"
      /\ UNCHANGED <<heapVars, ordersQueue, best, seen, sweepVars, clearVars, eventVars, fault>>
  BY DEF CancelOrder
<1>2. o \in Resting
  BY <1>1 DEF IInv, LookupMatchesBook
<1>3. pc'["matcher"] = pc["matcher"] /\ pc'["exchange"] = "scanBid"
  BY <1>1, ControlPoints DEF IInv, TypeOK
<1>4. pc["matcher"] \in {"idle", "stopped"}
  BY <1>3 DEF Exclusive
<1> QED
  BY <1>1, <1>2, <1>3, <1>4, UnlinkSerial

LEMMA ClearOneSerial ==
  ASSUME IInv, SInv, Exclusive', ClearOne
  PROVE  SInv'
<1> USE DEF heapVars, bookVars, sweepVars, clearVars, eventVars
<1>1. CASE Fail("use_after_free")
  BY <1>1, SerialQuiet
<1>2. CASE ~Fail("use_after_free")
  <2>1. PICK o \in Resting : o = clearIt
    BY <1>2 DEF ClearOne, Listed
  <2>2. /\ book' = BookWithout(o) /\ phase \in Sides
        /\ UNCHANGED <<order, remaining, best, seen, phase, pc>>
    BY <1>2, <2>1 DEF ClearOne
  <2>3. phase # "open" /\ pc["exchange"] = "idle"
    BY <2>2, ControlPoints DEF SInv
  <2>4. pc["matcher"] \in {"idle", "stopped"}
    BY <2>2 DEF SInv, Exclusive
  <2> QED
    BY <2>1, <2>2, <2>3, <2>4, UnlinkSerial
<1> QED
  BY <1>1, <1>2

\* A scan finds the best price of the book as it is.
LEMMA ScanSerial ==
  ASSUME IInv, SInv, Exclusive', NEW t \in Threads, NEW side \in Sides, ScanBest(t, side)
  PROVE  SInv'
<1> USE DEF heapVars, bookVars, sweepVars, clearVars, eventVars
<1>1. /\ pc[t] = ScanAt[side] /\ seen' = [seen EXCEPT ![t] = FindBest(side)]
      /\ pc' = [pc EXCEPT ![t] = StoreAt[side]]
      /\ UNCHANGED <<heapVars, ordersQueue, bookVars, sweepVars, clearVars, eventVars, fault>>
  BY DEF ScanBest
<1>2. /\ pc'[t] = StoreAt[side] /\ \A u \in Threads : u # t => pc'[u] = pc[u]
      /\ seen'[t] = FindBest(side) /\ \A u \in Threads : u # t => seen'[u] = seen[u]
  BY <1>1 DEF IInv, TypeOK
<1>3. \A s \in Sides : FindBest(s)' = FindBest(s)
  BY <1>1, FindBestKept
<1>4. ScansAreFresh'
  BY <1>2, <1>3, ControlPoints DEF SInv, ScansAreFresh
<1>5. StoredAreFresh'
  <2>1. phase' = phase /\ best' = best
    BY <1>1
  <2>2. CASE side = "BUY"
    BY <1>1, <1>2, <1>3, <2>1, <2>2, ControlPoints DEF SInv, StoredAreFresh
  <2>3. CASE side = "SELL"
    BY <1>1, <1>2, <1>3, <2>1, <2>3, ControlPoints DEF SInv, StoredAreFresh
  <2> QED
    BY <2>2, <2>3, ControlPoints
<1>6. /\ Resting' = Resting
      /\ \A s \in Sides : BestBounds(s) => BestBounds(s)'
      /\ Uncrossed'
  BY <1>1, ShrunkBook DEF Resting, SInv
<1>7. StoredAreBounds'
  BY <1>1, <1>2, <1>6, ControlPoints DEF SInv, StoredAreBounds
<1>8. SweptOwn'
  <2>1. t = "matcher" \/ pc["matcher"] \in {"idle", "stopped"}
    BY <1>1, ControlPoints DEF SInv, Exclusive
  <2>2. pc'["matcher"] \notin {"sweep", "level"}
    BY <1>2, <2>1, ControlPoints
  <2> QED
    BY <2>2 DEF SweptOwn
<1>9. pc'["exchange"] # "idle" => phase' = "open"
  BY <1>1, <1>2, ControlPoints DEF SInv
<1> QED
  BY <1>4, <1>5, <1>6, <1>7, <1>8, <1>9 DEF SInv

\* The store of a fresh price makes the stored price current.
LEMMA StoreSerial ==
  ASSUME IInv, SInv, Exclusive', NEW t \in Threads, NEW side \in Sides, StoreBest(t, side)
  PROVE  SInv'
<1> USE DEF heapVars, bookVars, sweepVars, clearVars, eventVars
<1>1. /\ pc[t] = StoreAt[side] /\ best' = [best EXCEPT ![side] = seen[t]]
      /\ seen' = [seen EXCEPT ![t] = NoPrice]
      /\ pc' = [pc EXCEPT ![t] = IF side = "BUY" THEN ScanAt["SELL"] ELSE "idle"]
      /\ UNCHANGED <<heapVars, ordersQueue, book, lookup, sweepVars, clearVars, eventVars, fault>>
  BY DEF StoreBest
<1>2. /\ pc'[t] = (IF side = "BUY" THEN "scanAsk" ELSE "idle")
      /\ \A u \in Threads : u # t => pc'[u] = pc[u] /\ seen'[u] = seen[u]
      /\ best'[side] = FindBest(side) /\ \A s \in Sides : s # side => best'[s] = best[s]
  BY <1>1, ControlPoints DEF IInv, TypeOK, SInv, ScansAreFresh
<1>3. \A s \in Sides : FindBest(s)' = FindBest(s)
  BY <1>1, FindBestKept
<1>4. \A u \in Threads : u # t => pc[u] \in {"idle", "stopped"}
  BY <1>1, ControlPoints DEF SInv, Exclusive, IInv, Control
<1>5. ScansAreFresh'
  BY <1>2, <1>4, ControlPoints DEF ScansAreFresh
<1>6. StoredAreFresh'
  <2>1. phase' = phase
    BY <1>1
  <2>2. CASE side = "BUY"
    <3>1. pc'[t] = "scanAsk" /\ best'["BUY"] = FindBest("BUY")'
      BY <1>2, <1>3, <2>2, ControlPoints
    <3> QED
      BY <1>2, <1>4, <3>1, ControlPoints DEF StoredAreFresh
  <2>3. CASE side = "SELL"
    <3>1. /\ phase = "open" => best["BUY"] = FindBest("BUY")
          /\ best'["BUY"] = best["BUY"] /\ best'["SELL"] = FindBest("SELL")'
      BY <1>1, <1>2, <1>3, <2>3, ControlPoints DEF SInv, StoredAreFresh
    <3>2. phase = "open" => \A s \in Sides : best'[s] = FindBest(s)'
      BY <1>3, <3>1, ControlPoints
    <3>3. \A u \in Threads : pc'[u] \notin {"scanAsk", "storeAsk"}
      BY <1>2, <1>4, <2>3, ControlPoints
    <3> QED
      BY <2>1, <3>2, <3>3 DEF StoredAreFresh
  <2> QED
    BY <2>2, <2>3, ControlPoints
<1>7. Resting' = Resting /\ \A p \in Created : order'[p] = order[p]
  BY <1>1 DEF Resting
<1>8. BestBounds(side)'
  <2>1. /\ RestingOn(side)' \subseteq RestingOn(side)
        /\ \A p \in RestingOn(side) : LimitLevel(p)' = LimitLevel(p)
    BY <1>7, ShrunkBook
  <2> QED
    BY <1>2, <2>1, FindBestIsBest DEF BestBounds
<1>9. \A s \in Sides : s # side /\ BestBounds(s) => BestBounds(s)'
  BY <1>2, <1>7, ShrunkBook
<1>10. StoredAreBounds'
  <2>1. CASE side = "BUY"
    BY <1>1, <1>2, <1>8, <1>9, <2>1, ControlPoints DEF SInv, StoredAreBounds
  <2>2. CASE side = "SELL"
    BY <1>1, <1>2, <1>8, <1>9, <2>2, ControlPoints DEF SInv, StoredAreBounds
  <2> QED
    BY <2>1, <2>2, ControlPoints
<1>11. Uncrossed'
  BY <1>7, ShrunkBook DEF SInv
<1>12. SweptOwn'
  BY <1>2, <1>4, ControlPoints DEF SweptOwn
<1>13. pc'["exchange"] # "idle" => phase' = "open"
  BY <1>1, <1>2, ControlPoints DEF SInv
<1> QED
  BY <1>5, <1>6, <1>10, <1>11, <1>12, <1>13 DEF SInv

-----------------------------------------------------------------------------
(* Steps of a match *)

\* Following an iterator passes the order it pointed to, and no other.
LEMMA SuccessorIsNext ==
  ASSUME NEW S \in SUBSET Int, NoOrder \notin S, NEW s \in Seq(S), Increasing(s),
         NEW o \in ToSet(s), NEW p \in ToSet(s),
         Successor(s, o) = NoOrder \/ p < Successor(s, o)
  PROVE  p = o \/ p < o
<1>1. PICK i \in 1 .. Len(s) : i = Pos(s, o) /\ s[i] = o
  BY PosProperties
<1>2. PICK j \in 1 .. Len(s) : s[j] = p
  BY ListElements
<1>3. /\ Len(s) \in Nat /\ DOMAIN s = 1 .. Len(s)
      /\ \A k \in 1 .. Len(s) : s[k] \in Int
      /\ \A k \in 1 .. Len(s) : \A m \in 1 .. Len(s) : k < m => s[k] < s[m]
  BY ListElements DEF Increasing
<1>4. CASE j <= i
  BY <1>1, <1>2, <1>3, <1>4
<1>5. CASE i < j
  <2>1. i < Len(s) /\ i + 1 \in 1 .. Len(s)
    BY <1>3, <1>5
  <2>2. Successor(s, o) = s[i + 1]
    BY <1>1, <2>1 DEF Successor
  <2>3. p < s[i + 1]
    <3>1. s[i + 1] \in S
      BY <2>1, ListElements
    <3> QED
      BY <2>2, <3>1
  <2> QED
    BY <1>2, <1>3, <1>5, <2>1, <2>3
<1> QED
  BY <1>3, <1>4, <1>5

\* What a step of the sweep does not change, and all that it has to keep.
LEMMA MatchStep ==
  ASSUME IInv, SInv, Exclusive',
         pc["matcher"] \in {"idle", "sweep", "level", "filled"},
         pc'["matcher"] \in {"sweep", "level", "filled", "scanBid"},
         pc'["exchange"] = pc["exchange"], UNCHANGED <<best, phase>>, order' = order,
         pc'["matcher"] = "scanBid" \/ Resting' \subseteq Resting,
         SweptOwn', Uncrossed'
  PROVE  SInv'
<1>1. pc["exchange"] = "idle" /\ pc'["exchange"] = "idle"
  BY DEF Exclusive
<1>2. ScansAreFresh' /\ StoredAreFresh'
  BY <1>1, ControlPoints DEF ScansAreFresh, StoredAreFresh
<1>3. StoredAreBounds'
  <2>1. CASE pc'["matcher"] = "scanBid"
    BY <2>1, ControlPoints DEF StoredAreBounds
  <2>2. CASE pc'["matcher"] # "scanBid"
    <3>1. BestBounds("BUY") /\ BestBounds("SELL")
      BY ControlPoints DEF SInv, StoredAreBounds
    <3>2. BestBounds("BUY")' /\ BestBounds("SELL")'
      BY <2>2, <3>1, ShrunkBook, ControlPoints
    <3> QED
      BY <3>2 DEF StoredAreBounds
  <2> QED
    BY <2>1, <2>2
<1> QED
  BY <1>1, <1>2, <1>3 DEF SInv

\* The match begins at a level that no resting order of the other side is better than.
LEMMA TakeOrderSerial ==
  ASSUME IInv, SInv, Exclusive', TakeOrder
  PROVE  SInv'
<1> USE DEF heapVars, bookVars, sweepVars, clearVars, eventVars
<1>1. /\ pc["matcher"] = "idle" /\ ordersQueue # <<>>
      /\ UNCHANGED <<heapVars, bookVars, seen, clearVars, eventVars, fault>>
  BY DEF TakeOrder
<1>2. PICK o \in OrderIds : o = Head(ordersQueue)
  BY <1>1, HeadTailProperties DEF IInv, TypeOK
<1>3. \/ Return
      \/ /\ pc' = [pc EXCEPT !["matcher"] = "sweep"] /\ agg' = o
         /\ level' \in StartLevels(Opposite(order[o].side))
  BY <1>2 DEF TakeOrder
<1>4. Resting' = Resting /\ Uncrossed'
  <2>1. Resting' = Resting
    BY <1>1 DEF Resting
  <2> QED
    BY <1>1, <2>1, ShrunkBook DEF SInv
<1>5. CASE Return
  <2>1. pc'["matcher"] = "scanBid" /\ pc'["exchange"] = pc["exchange"]
    BY <1>5, ReturnProperties
  <2> QED
    BY <1>1, <1>4, <2>1, MatchStep DEF SweptOwn
<1>6. CASE /\ pc' = [pc EXCEPT !["matcher"] = "sweep"] /\ agg' = o
           /\ level' \in StartLevels(Opposite(order[o].side))
  <2>1. pc'["matcher"] = "sweep" /\ pc'["exchange"] = pc["exchange"]
    BY <1>6 DEF IInv, TypeOK, Threads
  <2>2. PICK side \in Sides : side = RestSide'
    <3>1. o \in Created
      <4>1. o \in ToSet(ordersQueue)
        <5>1. ordersQueue \in Seq(OrderIds) /\ Increasing(ordersQueue)
          BY DEF IInv, TypeOK, OwnedOnce
        <5> QED
          BY <1>1, <1>2, <5>1, TailProperties, OrderIdsAreInts
      <4> QED
        BY <4>1 DEF IInv, Provenance
    <3>2. order[o].side \in Sides
      BY <3>1, RequestFields DEF IInv, Provenance
    <3> QED
      BY <1>1, <1>6, <3>2, ControlPoints DEF RestSide, AggSide, Opposite
  <2>3. level' \in StartLevels(side) /\ BestBounds(side)
    <3>1. side = Opposite(order[o].side)
      BY <1>1, <1>6, <2>2 DEF RestSide, AggSide
    <3>2. BestBounds(side)
      BY <1>1, ControlPoints DEF SInv, StoredAreBounds
    <3> QED
      BY <1>6, <3>1, <3>2
  <2>4. ASSUME NEW p \in RestingOn(side) PROVE NotPassed(side, LimitLevel(p))'
    <3>1. best[side] # NoPrice /\ NoBetter(side, LimitLevel(p), PriceToIndex(best[side]))
      BY <2>3 DEF BestBounds
    <3>2. level' = PriceToIndex(best[side])
      BY <2>3, <3>1 DEF StartLevels
    <3> QED
      BY <1>1, <3>1, <3>2 DEF NotPassed, NoBetter, LimitLevel
  <2>5. SweptOwn'
    <3>1. RestingOn(side)' = RestingOn(side)
      BY <1>1, <1>4 DEF RestingOn
    <3> QED
      BY <2>1, <2>2, <2>4, <3>1 DEF SweptOwn, LeftBehind
  <2> QED
    BY <1>1, <1>4, <2>1, <2>5, MatchStep
<1> QED
  BY <1>3, <1>5, <1>6

\* It is enough to look at the orders that a step of the sweep passes newly.
LEMMA SweptKept ==
  ASSUME IInv, SInv, pc["matcher"] \in {"sweep", "level"}, agg' = agg, order' = order,
         Resting' \subseteq Resting,
         \A p \in RestingOn(RestSide) :
            p \in Resting' /\ LeftBehind(p)' => LeftBehind(p) \/ OwnOrder(p)
  PROVE  SweptOwn'
<1>1. RestSide' = RestSide
  BY DEF RestSide, AggSide
<1>2. \A p : OwnOrder(p)' <=> OwnOrder(p)
  BY DEF OwnOrder
<1>3. ASSUME NEW p, p \in RestingOn(RestSide)' PROVE p \in RestingOn(RestSide) /\ p \in Resting'
  BY <1>1, <1>3 DEF RestingOn
<1>4. \A p \in RestingOn(RestSide) : LeftBehind(p) => OwnOrder(p)
  BY DEF SInv, SweptOwn
<1>5. ASSUME NEW p, p \in RestingOn(RestSide)', LeftBehind(p)' PROVE OwnOrder(p)'
  BY <1>2, <1>3, <1>4, <1>5
<1> QED
  BY <1>5 DEF SweptOwn

LEMMA LeftBehindNext ==
  ASSUME agg' = agg, order' = order
  PROVE  \A p : LeftBehind(p)' <=>
           \/ ~(IF RestSide = "BUY" THEN LimitLevel(p) <= level' ELSE LimitLevel(p) >= level')
           \/ pc'["matcher"] = "level" /\ LimitLevel(p) = level' /\ (it' = NoOrder \/ p < it')
BY DEF LeftBehind, NotPassed, RestSide, AggSide, LimitLevel

LEMMA EnterLevelSerial ==
  ASSUME IInv, SInv, Exclusive', EnterLevel
  PROVE  SInv'
<1> USE DEF heapVars, bookVars, sweepVars, clearVars, eventVars
<1>1. /\ pc["matcher"] = "sweep" /\ LevelsToSweep # {}
      /\ level' = Top(RestSide, LevelsToSweep) /\ it' = Head(book[RestSide][level'])
      /\ pc' = [pc EXCEPT !["matcher"] = "level"]
      /\ UNCHANGED <<heapVars, ordersQueue, bookVars, seen, agg, traded, clearVars, eventVars, fault>>
  BY DEF EnterLevel
<1>2. pc'["matcher"] = "level" /\ pc'["exchange"] = pc["exchange"]
  BY <1>1 DEF IInv, TypeOK, Threads
<1>3. RestSide \in Sides /\ AggSide \in Sides
  BY <1>1, Aggressor DEF IInv, Control
<1>4. LevelsToSweep \in SUBSET Levels
  BY DEF LevelsToSweep, NonEmptyLevels
<1>5. PICK l \in LevelsToSweep : l = level' /\ \A m \in LevelsToSweep : NoBetter(RestSide, m, l)
  BY <1>1, <1>3, <1>4, TopIsBest
<1>6. l \in Levels /\ book[RestSide][l] # <<>> /\ WithinLimit(l) /\ NotPassed(RestSide, l)
  BY <1>5 DEF LevelsToSweep, NonEmptyLevels
<1>7. \A p \in ToSet(book[RestSide][l]) : p \in Int /\ it' <= p /\ it' # NoOrder
  <2>1. book[RestSide][l] \in Seq(OrderIds) /\ Increasing(book[RestSide][l])
    BY <1>3, <1>6 DEF IInv, TypeOK, BookSound
  <2>2. PICK s \in Seq(OrderIds) : s = book[RestSide][l]
    BY <2>1
  <2>3. /\ Head(s) \in OrderIds /\ \A p \in ToSet(Tail(s)) : p > Head(s)
        /\ ToSet(s) = ToSet(Tail(s)) \cup {Head(s)}
    BY <1>6, <2>1, <2>2, TailProperties, OrderIdsAreInts
  <2>4. it' = Head(s)
    BY <1>1, <1>5, <2>2
  <2>5. \A p \in ToSet(s) : p \in OrderIds
    BY ListElements, OrderIdsAreInts
  <2>6. PICK h \in OrderIds : h = Head(s)
    BY <2>3
  <2>7. ASSUME NEW p \in ToSet(s) PROVE p \in Int /\ it' <= p /\ it' # NoOrder
    <3>1. p = h \/ p > h
      BY <2>3, <2>6
    <3>2. p \in Int /\ h \in Int /\ h # NoOrder
      BY <2>5, OrderIdsAreInts
    <3>3. h <= p
      BY <3>1, <3>2
    <3> QED
      BY <2>4, <2>6, <3>2, <3>3
  <2> QED
    BY <2>2, <2>7
<1>8. Resting' = Resting /\ order' = order /\ agg' = agg
  BY <1>1 DEF Resting
<1>9. ASSUME NEW p \in RestingOn(RestSide), LeftBehind(p)', ~LeftBehind(p) PROVE FALSE
  <2>1. /\ p \in ToSet(book[RestSide][LimitLevel(p)]) /\ LimitLevel(p) \in NonEmptyLevels(RestSide)
        /\ LimitLevel(p) \in Levels
    BY <1>3, RestingLevels
  <2>2. NotPassed(RestSide, LimitLevel(p))
    BY <1>9 DEF LeftBehind
  <2>3. LimitLevel(p) # l
    <3>1. ASSUME LimitLevel(p) = l PROVE FALSE
      <4>1. NoBetter(RestSide, LimitLevel(p), l)
        BY <1>4, <1>6, <3>1 DEF NoBetter, Levels
      <4>2. p \in Int /\ it' \in Int /\ it' <= p /\ it' # NoOrder
        <5>1. p \in Int /\ it' <= p /\ it' # NoOrder
          BY <1>7, <2>1, <3>1
        <5>2. IInv'
          BY EnterLevelKeeps
        <5>3. it' \in OrderIds
          BY <5>1, <5>2 DEF IInv, TypeOK
        <5> QED
          BY <5>1, <5>3, OrderIdsAreInts
      <4>3. ~(p < it')
        BY <4>2
      <4> QED
        BY <1>5, <1>8, <1>9, <4>1, <4>2, <4>3, LeftBehindNext DEF NoBetter
    <3> QED
      BY <3>1
  <2>4. ~NoBetter(RestSide, LimitLevel(p), l)
    BY <1>5, <1>8, <1>9, <2>3, LeftBehindNext DEF NoBetter
  <2>5. WithinLimit(LimitLevel(p))
    <3>1. CASE IsMarket(agg)
      BY <3>1 DEF WithinLimit
    <3>2. CASE ~IsMarket(agg)
      <4>1. LimitLevel(agg) \in Levels
        <5>1. order[agg] \in Requests
          BY <1>1, Aggressor DEF IInv, Control
        <5> QED
          BY <3>2, <5>1, RequestFields DEF IsMarket, LimitLevel
      <4>2. IF AggSide = "SELL" THEN l >= LimitLevel(agg) ELSE l <= LimitLevel(agg)
        BY <1>6, <3>2 DEF WithinLimit
      <4>3. IF AggSide = "SELL" THEN LimitLevel(p) > l ELSE LimitLevel(p) < l
        BY <1>3, <1>6, <2>1, <2>4, ControlPoints DEF NoBetter, RestSide, Opposite, Levels
      <4> QED
        BY <1>6, <2>1, <4>1, <4>2, <4>3 DEF WithinLimit, Levels
    <3> QED
      BY <3>1, <3>2
  <2> QED
    BY <1>5, <2>1, <2>2, <2>4, <2>5 DEF LevelsToSweep
<1>10. SweptOwn'
  BY <1>1, <1>8, <1>9, SweptKept
<1>11. Uncrossed'
  BY <1>8, ShrunkBook DEF SInv
<1> QED
  BY <1>1, <1>2, <1>8, <1>10, <1>11, MatchStep

LEMMA SkipOwnSerial ==
  ASSUME IInv, SInv, Exclusive', SkipOwn
  PROVE  SInv'
<1> USE DEF heapVars, bookVars, sweepVars, clearVars, eventVars
<1>1. /\ pc["matcher"] = "level" /\ it # NoOrder /\ it \in Resting /\ OwnOrder(it)
      /\ it' = Successor(book[RestSide][level], it)
      /\ UNCHANGED <<heapVars, ordersQueue, bookVars, pc, seen, agg, level, traded,
                     clearVars, eventVars, fault>>
  BY DEF SkipOwn, Listed
<1>2. /\ level \in Levels /\ agg # NoOrder
  BY <1>1 DEF IInv, Control
<1>3. RestSide \in Sides
  BY <1>2, Aggressor
<1>4. /\ book[RestSide][level] \in Seq(OrderIds) /\ Increasing(book[RestSide][level])
      /\ it \in ToSet(book[RestSide][level])
  BY <1>1, <1>2, <1>3, RestingOrders DEF IInv, TypeOK, BookSound, Iterators
<1>5. Resting' = Resting /\ order' = order /\ agg' = agg
  BY <1>1 DEF Resting
<1>6. ASSUME NEW p \in RestingOn(RestSide), LeftBehind(p)' PROVE LeftBehind(p) \/ OwnOrder(p)
  <2>1. CASE ~(LimitLevel(p) = level)
    BY <1>1, <1>5, <1>6, <2>1, LeftBehindNext DEF LeftBehind, NotPassed
  <2>2. CASE LimitLevel(p) = level
    <3>1. p \in ToSet(book[RestSide][level])
      BY <1>3, <2>2, RestingLevels
    <3>2. LeftBehind(p) \/ it' = NoOrder \/ p < it'
      BY <1>1, <1>5, <1>6, <2>2, LeftBehindNext DEF LeftBehind, NotPassed
    <3>3. LeftBehind(p) \/ p = it \/ p < it
      BY <1>1, <1>4, <3>1, <3>2, SuccessorIsNext, OrderIdsAreInts
    <3> QED
      BY <1>1, <2>2, <3>3 DEF LeftBehind
  <2> QED
    BY <2>1, <2>2
<1>7. SweptOwn'
  BY <1>1, <1>5, <1>6, SweptKept
<1>8. Uncrossed'
  BY <1>5, ShrunkBook DEF SInv
<1> QED
  BY <1>1, <1>5, <1>7, <1>8, MatchStep

\* A trade that leaves something of the aggressor takes the resting order off.
LEMMA FillOneSerial ==
  ASSUME IInv, SInv, Exclusive', FillOne
  PROVE  SInv'
<1> USE DEF heapVars, bookVars, sweepVars, clearVars, eventVars
<1> DEFINE q == FillQty
<1>1. CASE Fail("assert")
  BY <1>1, SerialQuiet
<1>2. CASE ~Fail("assert")
  <2>1. /\ pc["matcher"] = "level" /\ it # NoOrder /\ it \in Resting
        /\ remaining' = AfterTrade(q)
        /\ it' = Successor(book[RestSide][level], it)
        /\ IF remaining'[it] = 0
           THEN book' = BookWithout(it) /\ Forget(it)
           ELSE UNCHANGED <<book, lookup>>
        /\ pc' = IF remaining'[agg] = 0 THEN [pc EXCEPT !["matcher"] = "filled"] ELSE pc
        /\ UNCHANGED <<order, ordersQueue, best, seen, agg, level, clearVars, fault>>
    BY <1>2 DEF FillOne, Listed
  <2>2. agg # NoOrder /\ level \in Levels
    BY <2>1 DEF IInv, Control
  <2>3. /\ agg \in OrderIds /\ agg \notin Resting /\ it \in OrderIds /\ it # agg /\ RestSide \in Sides
        /\ it \in ToSet(book[RestSide][level])
    BY <2>1, <2>2, Aggressor, RestingOrders DEF IInv, Iterators
  <2>4. /\ q = (IF remaining[it] < remaining[agg] THEN remaining[it] ELSE remaining[agg])
        /\ remaining[it] \in Nat /\ remaining[agg] \in Nat
    BY <2>3 DEF IInv, TypeOK, FillQty
  <2> HIDE DEF q
  <2>5. /\ remaining'[it] = remaining[it] - q /\ remaining'[agg] = remaining[agg] - q
        /\ \A p \in OrderIds : p # it /\ p # agg => remaining'[p] = remaining[p]
    BY <2>1, <2>3 DEF IInv, TypeOK, AfterTrade
  <2>6. remaining'[agg] = 0 \/ remaining'[it] = 0
    BY <2>4, <2>5
  <2>7. /\ Resting' \subseteq Resting
        /\ remaining'[it] = 0 => it \notin Resting'
    <3>1. CASE remaining'[it] = 0
      <4>1. book' = BookWithout(it)
        BY <2>1, <3>1
      <4>2. \A p \in Resting : p # it => remaining'[p] > 0
        BY <2>3, <2>5, OnePlace
      <4>3. Resting' = Resting \ {it}
        BY <2>1, <4>1, <4>2, BookShrinks DEF IInv
      <4> QED
        BY <4>3
    <3>2. CASE remaining'[it] # 0
      BY <2>1, <3>2 DEF Resting
    <3> QED
      BY <3>1, <3>2
  <2>8. /\ pc'["exchange"] = pc["exchange"] /\ pc'["matcher"] \in {"level", "filled"}
        /\ pc'["matcher"] = "level" => remaining'[agg] # 0
    BY <2>1 DEF IInv, TypeOK, Threads
  <2>9. SweptOwn'
    <3>1. CASE pc'["matcher"] = "filled"
      BY <3>1 DEF SweptOwn
    <3>2. CASE pc'["matcher"] = "level"
      <4>1. it \notin Resting'
        BY <2>6, <2>7, <2>8, <3>2
      <4>2. book[RestSide][level] \in Seq(OrderIds) /\ Increasing(book[RestSide][level])
        BY <2>2, <2>3 DEF IInv, TypeOK, BookSound
      <4>3. ASSUME NEW p \in RestingOn(RestSide), p \in Resting', LeftBehind(p)'
            PROVE  LeftBehind(p)
        <5>1. CASE ~(LimitLevel(p) = level)
          BY <2>1, <4>3, <5>1, LeftBehindNext DEF LeftBehind, NotPassed
        <5>2. CASE LimitLevel(p) = level
          <6>1. p \in ToSet(book[RestSide][level])
            BY <2>3, <5>2, RestingLevels
          <6>2. LeftBehind(p) \/ it' = NoOrder \/ p < it'
            BY <2>1, <4>3, <5>2, LeftBehindNext DEF LeftBehind, NotPassed
          <6>3. LeftBehind(p) \/ p = it \/ p < it
            BY <2>1, <2>3, <4>2, <6>1, <6>2, SuccessorIsNext, OrderIdsAreInts
          <6> QED
            BY <2>1, <4>1, <4>3, <5>2, <6>3 DEF LeftBehind
        <5> QED
          BY <5>1, <5>2
      <4> QED
        BY <2>1, <2>7, <4>3, SweptKept
    <3> QED
      BY <2>8, <3>1, <3>2
  <2>10. Uncrossed'
    BY <2>1, <2>7, ShrunkBook DEF SInv
  <2> QED
    BY <2>1, <2>7, <2>8, <2>9, <2>10, MatchStep
<1> QED
  BY <1>1, <1>2

LEMMA LeaveLevelSerial ==
  ASSUME IInv, SInv, Exclusive', LeaveLevel
  PROVE  SInv'
<1> USE DEF heapVars, bookVars, sweepVars, clearVars, eventVars
<1>1. CASE Fail("assert")
  BY <1>1, SerialQuiet
<1>2. CASE ~Fail("assert")
  <2>1. /\ pc["matcher"] = "level" /\ it = NoOrder
        /\ level' = Worse(RestSide, level)
        /\ pc' = [pc EXCEPT !["matcher"] = "sweep"]
        /\ UNCHANGED <<heapVars, ordersQueue, bookVars, seen, agg, it, clearVars, fault>>
    BY <1>2 DEF LeaveLevel
  <2>2. pc'["matcher"] = "sweep" /\ pc'["exchange"] = pc["exchange"]
    BY <2>1 DEF IInv, TypeOK, Threads
  <2>3. Resting' = Resting /\ level \in Levels /\ RestSide \in Sides
    BY <2>1, Aggressor DEF Resting, IInv, Control
  <2>4. ASSUME NEW p \in RestingOn(RestSide), LeftBehind(p)' PROVE LeftBehind(p)
    <3>1. LimitLevel(p) \in Levels
      BY <2>3, RestingLevels
    <3>2. ~(IF RestSide = "BUY" THEN LimitLevel(p) <= level' ELSE LimitLevel(p) >= level')
      BY <2>1, <2>2, <2>4, LeftBehindNext
    <3>3. LimitLevel(p) = level \/ ~NotPassed(RestSide, LimitLevel(p))
      BY <2>1, <2>3, <3>1, <3>2 DEF Worse, NotPassed, Levels
    <3> QED
      BY <2>1, <3>3 DEF LeftBehind
  <2>5. SweptOwn'
    BY <2>1, <2>3, <2>4, SweptKept
  <2>6. Uncrossed'
    BY <2>1, <2>3, ShrunkBook DEF SInv
  <2> QED
    BY <2>1, <2>2, <2>3, <2>5, <2>6, MatchStep
<1> QED
  BY <1>1, <1>2

\* A match that leaves nothing to rest ends with the book as it is.
LEMMA ReturnSerial ==
  ASSUME IInv, SInv, Exclusive', ReportFilled \/ EndMarket
  PROVE  SInv'
<1> USE DEF heapVars, bookVars, sweepVars, clearVars, eventVars
<1>1. /\ pc["matcher"] \in {"filled", "sweep"} /\ Return
      /\ UNCHANGED <<order, bookVars, clearVars>>
  BY DEF ReportFilled, EndMarket, SweepOver
<1>2. pc'["matcher"] = "scanBid" /\ pc'["exchange"] = pc["exchange"]
  BY <1>1, ReturnProperties
<1>3. Resting' = Resting
  BY <1>1 DEF Resting
<1>4. Uncrossed'
  BY <1>1, <1>3, ShrunkBook DEF SInv
<1> QED
  BY <1>1, <1>2, <1>4, MatchStep DEF SweptOwn

\* An order that starts to rest crosses only orders that the sweep left behind.
LEMMA EndLimitSerial ==
  ASSUME IInv, SInv, Exclusive', EndLimit
  PROVE  SInv'
<1> USE DEF heapVars, bookVars, sweepVars, clearVars, eventVars
<1>1. CASE Fail("assert")
  BY <1>1, SerialQuiet
<1>2. CASE ~Fail("assert")
  <2>1. /\ pc["matcher"] = "sweep" /\ LevelsToSweep = {} /\ ~IsMarket(agg) /\ remaining[agg] > 0
        /\ book' = BookWith(agg) /\ Return
        /\ UNCHANGED <<heapVars, ordersQueue, best, seen, clearVars, eventVars, fault>>
    BY <1>2 DEF EndLimit, SweepOver
  <2>2. agg # NoOrder
    BY <2>1 DEF IInv, Control
  <2>3. agg \in OrderIds /\ order[agg] \in Requests /\ RestSide \in Sides /\ AggSide \in Sides
    BY <2>2, Aggressor
  <2>4. Resting' = Resting \cup {agg}
    <3>1. \A p \in Resting : p \in OrderIds /\ agg > p
      BY <2>2, RestingOrders DEF IInv, OwnedOnce
    <3>2. \A p \in Resting : p < agg
      BY <2>3, <3>1, OrderIdsAreInts
    <3> QED
      BY <2>1, <2>3, <3>2, BookGrows DEF IInv
  <2>5. pc'["matcher"] = "scanBid" /\ pc'["exchange"] = pc["exchange"]
    BY <2>1, ReturnProperties
  <2>6. ASSUME NEW p \in RestingOn(RestSide), WithinLimit(LimitLevel(p)) PROVE OwnOrder(p)
    <3>1. LimitLevel(p) \in NonEmptyLevels(RestSide)
      BY <2>3, RestingLevels
    <3>2. ~NotPassed(RestSide, LimitLevel(p))
      BY <2>1, <2>6, <3>1 DEF LevelsToSweep
    <3> QED
      BY <2>1, <3>2 DEF SInv, SweptOwn, LeftBehind
  <2>7. Uncrossed'
    <3>1. \A p : LimitLevel(p)' = LimitLevel(p)
      BY <2>1 DEF LimitLevel
    <3>2. ASSUME NEW o \in Resting', NEW p \in Resting',
                 order[o].side = "BUY", order[p].side = "SELL", LimitLevel(p) <= LimitLevel(o)
          PROVE  IsProduction /\ order[o].session = order[p].session
      <4>1. CASE o # agg /\ p # agg
        <5>1. o \in RestingOn("BUY") /\ p \in RestingOn("SELL")
          BY <2>4, <3>2, <4>1 DEF RestingOn
        <5> QED
          BY <3>2, <5>1 DEF SInv, Uncrossed
      <4>2. CASE o = agg /\ p # agg
        <5>1. RestSide = "SELL" /\ AggSide = "BUY"
          BY <3>2, <4>2 DEF RestSide, AggSide, Opposite
        <5>2. p \in RestingOn(RestSide)
          BY <2>4, <3>2, <4>2, <5>1 DEF RestingOn
        <5>3. OwnOrder(p)
          BY <2>6, <3>2, <4>2, <5>1, <5>2 DEF WithinLimit
        <5> QED
          BY <4>2, <5>3 DEF OwnOrder
      <4>3. CASE o # agg /\ p = agg
        <5>1. RestSide = "BUY" /\ AggSide = "SELL"
          BY <3>2, <4>3 DEF RestSide, AggSide, Opposite
        <5>2. o \in RestingOn(RestSide)
          BY <2>4, <3>2, <4>3, <5>1 DEF RestingOn
        <5>3. LimitLevel(o) \in Levels /\ LimitLevel(agg) \in Levels
          BY <2>1, <2>3, <5>2, RestingLevels, RequestFields DEF IsMarket, LimitLevel
        <5>4. LimitLevel(o) >= LimitLevel(agg)
          BY <3>2, <4>3, <5>3 DEF Levels
        <5>5. OwnOrder(o)
          BY <2>6, <5>1, <5>2, <5>4 DEF WithinLimit
        <5> QED
          BY <4>3, <5>5 DEF OwnOrder
      <4> QED
        BY <3>2, <4>1, <4>2, <4>3
    <3>3. order' = order
      BY <2>1
    <3> QED
      BY <3>1, <3>2, <3>3 DEF Uncrossed, RestingOn
  <2> QED
    BY <2>1, <2>5, <2>7, MatchStep DEF SweptOwn
<1> QED
  BY <1>1, <1>2

LEMMA UpdateSerial ==
  ASSUME IInv, SInv, Exclusive', NEW t \in Threads, Update(t)
  PROVE  SInv'
BY ScanSerial, StoreSerial DEF Update

LEMMA NextSerial ==
  ASSUME IInv, SInv, [Next /\ Exclusive']_vars
  PROVE  SInv'
<1>1. Exclusive'
  <2>1. CASE UNCHANGED vars
    BY <2>1 DEF vars, clearVars, Exclusive, SInv
  <2> QED
    BY <2>1
<1>2. CASE MatchingThread
  <2>1. CASE TakeOrder
    BY <1>1, <2>1, TakeOrderSerial
  <2>2. CASE EnterLevel
    BY <1>1, <2>2, EnterLevelSerial
  <2>3. CASE SkipOwn
    BY <1>1, <2>3, SkipOwnSerial
  <2>4. CASE FillOne
    BY <1>1, <2>4, FillOneSerial
  <2>5. CASE Dangling \/ StopMatching
    BY <1>1, <2>5, SerialQuiet DEF Dangling
  <2>6. CASE ReportFilled \/ EndMarket
    BY <1>1, <2>6, ReturnSerial
  <2>7. CASE LeaveLevel
    BY <1>1, <2>7, LeaveLevelSerial
  <2>8. CASE EndLimit
    BY <1>1, <2>8, EndLimitSerial
  <2>9. CASE Update("matcher")
    BY <1>1, <2>9, UpdateSerial DEF Threads
  <2> QED
    BY <1>2, <2>1, <2>2, <2>3, <2>4, <2>5, <2>6, <2>7, <2>8, <2>9 DEF MatchingThread, Sweep
<1>3. CASE MessageThread
  <2>1. CASE \E o \in OrderIds, d \in Requests : AddOrder(o, d)
    BY <1>1, <2>1, AddOrderSerial
  <2>2. CASE \E o \in OrderIds : CancelOrder(o)
    BY <1>1, <2>2, CancelSerial
  <2>3. CASE Update("exchange")
    BY <1>1, <2>3, UpdateSerial DEF Threads
  <2> QED
    BY <1>3, <2>1, <2>2, <2>3 DEF MessageThread
<1>4. CASE Destructor
  BY <1>1, <1>4, ClearOneSerial, SerialQuiet DEF Destructor
<1>5. CASE FillThread
  BY <1>1, <1>5, SerialQuiet DEF FillThread
<1>6. CASE UNCHANGED vars
  BY <1>1, <1>6, SerialQuiet
<1> QED
  BY <1>2, <1>3, <1>4, <1>5, <1>6 DEF Next

LEMMA InitSerial ==
  ASSUME Init
  PROVE  SInv
<1>1. ToSet(<<>>) = {} /\ \A side \in Sides, l \in Levels : book[side][l] = <<>>
  BY DEF Init, ToSet
<1>2. Resting = {} /\ \A side \in Sides : NonEmptyLevels(side) = {}
  BY <1>1, RestingMember DEF NonEmptyLevels
<1>3. \A side \in Sides : FindBest(side) = NoPrice /\ best[side] = NoPrice
  BY <1>2 DEF FindBest, Init
<1>4. pc["matcher"] = "idle" /\ pc["exchange"] = "idle" /\ phase = "open"
      /\ \A t \in Threads : pc[t] = "idle"
  BY DEF Init, Threads
<1>5. Exclusive /\ SweptOwn
  BY <1>4 DEF Exclusive, SweptOwn
<1>6. ScansAreFresh
  BY <1>4 DEF ScansAreFresh, StoreAt, Sides
<1>7. StoredAreFresh
  BY <1>3, <1>4 DEF StoredAreFresh, Sides
<1>8. StoredAreBounds /\ Uncrossed
  BY <1>2 DEF StoredAreBounds, BestBounds, Uncrossed, RestingOn
<1> QED
  BY <1>4, <1>5, <1>6, <1>7, <1>8 DEF SInv

\* Both inductive invariants hold of the engine that keeps other threads out of
\* a match; IInv because its steps are steps of the engine as it is.
THEOREM SerialInvariant == SerialSpec => [](IInv /\ SInv)
<1>1. Init => IInv /\ SInv
  BY InitEstablishes, InitSerial
<1>2. IInv /\ SInv /\ [Next /\ Exclusive']_vars => IInv' /\ SInv'
  BY NextKeeps, NextSerial
<1> QED
  BY <1>1, <1>2, PTL DEF SerialSpec

-----------------------------------------------------------------------------
(* Best prices and crossed books *)

\* Between matches bestBid and bestAsk are the prices of the best levels of the
\* book: neither a cancel nor a match leaves a stale one behind.
THEOREM EngineBestIsCurrent == SerialSpec => []BestIsCurrent
<1>1. ASSUME IInv, SInv PROVE BestIsCurrent
  <2>1. SUFFICES ASSUME pc = [t \in Threads |-> "idle"], phase = "open", NEW side \in Sides
        PROVE  IF NonEmptyLevels(side) = {} THEN best[side] = NoPrice
               ELSE PriceToIndex(best[side]) = Top(side, NonEmptyLevels(side))
    BY DEF BestIsCurrent
  <2>2. best[side] = FindBest(side)
    BY <1>1, <2>1 DEF SInv, StoredAreFresh, Threads
  <2> QED
    BY <1>1, <2>2, FindBestIsBest
<1> QED
  BY <1>1, SerialInvariant, PTL

\* The book is never left crossed: the buyers that rest are below the sellers
\* that rest, orders of one session aside when IS_PRODUCTION keeps them apart.
THEOREM EngineNotCrossed == SerialSpec => []NotCrossed
<1>1. ASSUME IInv, SInv PROVE NotCrossed
  <2>1. SUFFICES ASSUME NEW b \in NonEmptyLevels("BUY"), NEW s \in NonEmptyLevels("SELL"), s <= b,
                        NEW o \in ToSet(book["BUY"][b]), NEW p \in ToSet(book["SELL"][s])
        PROVE  IsProduction /\ order[o].session = order[p].session
    BY DEF NotCrossed
  <2>2. b \in Levels /\ s \in Levels
    BY DEF NonEmptyLevels
  <2>3. /\ o \in RestingOn("BUY") /\ LimitLevel(o) = b
        /\ p \in RestingOn("SELL") /\ LimitLevel(p) = s
    BY <1>1, <2>2, RestingLevels DEF Sides
  <2> QED
    BY <1>1, <2>1, <2>3 DEF SInv, Uncrossed
<1> QED
  BY <1>1, SerialInvariant, PTL

-----------------------------------------------------------------------------
(* Trades *)

\* Every limit price sent is a whole number of ticks.
WholeTicks == \A price \in LimitPrices : \E k \in Nat : price = k * SubTick

\* PriceToIndex and IndexToPrice are inverse on whole ticks.
LEMMA WholeTickLevel ==
  ASSUME NEW k \in Nat
  PROVE  PriceToIndex(k * SubTick) = k
<1>1. SubTick \in Nat /\ SubTick > 0
  BY PricesAssumption
<1>2. PICK n \in Nat : n = k * SubTick
  BY <1>1
<1>3. PICK q \in Int : /\ q = PriceToIndex(n)
                       /\ 2 * SubTick * q <= 2 * n + SubTick
                       /\ 2 * n + SubTick < 2 * SubTick * q + 2 * SubTick
  BY <1>1 DEF PriceToIndex
<1>4. ASSUME q >= k + 1 PROVE FALSE
  <2>1. SubTick * q >= SubTick * k + SubTick
    BY <1>1, <1>4
  <2> QED
    BY <1>1, <1>2, <1>3, <2>1
<1>5. ASSUME k >= q + 1 PROVE FALSE
  <2>1. SubTick * k >= SubTick * q + SubTick
    BY <1>1, <1>5
  <2> QED
    BY <1>1, <1>2, <1>3, <2>1
<1> QED
  BY <1>2, <1>3, <1>4, <1>5

LEMMA WholeTickPrice ==
  ASSUME IInv, WholeTicks, NEW o \in Created, order[o].type # "MARKET"
  PROVE  /\ LimitLevel(o) \in Nat
         /\ order[o].price = LimitLevel(o) * SubTick
<1>1. order[o].price \in LimitPrices
  BY DEF IInv, Provenance, Requests, LimitRequests, MarketRequests
<1>2. PICK k \in Nat : order[o].price = k * SubTick
  BY <1>1 DEF WholeTicks
<1> QED
  BY <1>2, WholeTickLevel DEF LimitLevel

\* A larger level is a larger price.
LEMMA PricesAreMonotone ==
  ASSUME NEW j \in Nat, NEW k \in Nat
  PROVE  /\ j <= k => j * SubTick <= k * SubTick
         /\ j < k => j * SubTick < k * SubTick
BY PricesAssumption

\* Only FillOne makes an order's remaining quantity smaller, and only that of the
\* resting order under the sweep and of the aggressor.
LEMMA WhoTrades ==
  ASSUME IInv, [Next]_vars, NEW o \in OrderIds, status[o] # "none", remaining'[o] < remaining[o]
  PROVE  /\ pc["matcher"] = "level" /\ it # NoOrder /\ Listed(it)
         /\ o \in {it, agg}
<1> USE DEF heapVars, bookVars, sweepVars, clearVars, eventVars
<1>1. remaining' # remaining
  BY DEF IInv, TypeOK
<1>2. \A reason : ~Fail(reason)
  BY <1>1 DEF Fail
<1>3. CASE MatchingThread
  <2>1. ~TakeOrder
    BY <1>1 DEF TakeOrder
  <2>2. ~EnterLevel /\ ~SkipOwn /\ ~Dangling /\ ~StopMatching
    BY <1>1, <1>2 DEF EnterLevel, SkipOwn, Dangling, StopMatching
  <2>3. ~ReportFilled /\ ~EndMarket
    BY <1>1 DEF ReportFilled, EndMarket
  <2>4. ~LeaveLevel /\ ~EndLimit
    BY <1>1, <1>2 DEF LeaveLevel, EndLimit
  <2>5. ~Update("matcher")
    BY <1>1 DEF Update, ScanBest, StoreBest
  <2>6. FillOne
    BY <1>3, <2>1, <2>2, <2>3, <2>4, <2>5 DEF MatchingThread, Sweep
  <2>7. /\ pc["matcher"] = "level" /\ it # NoOrder /\ Listed(it)
        /\ remaining' = AfterTrade(FillQty)
    BY <1>2, <2>6 DEF FillOne
  <2>8. ASSUME o # it, o # agg PROVE FALSE
    <3>1. remaining'[o] = remaining[o]
      BY <2>7, <2>8 DEF AfterTrade, IInv, TypeOK
    <3> QED
      BY <3>1 DEF IInv, TypeOK
  <2> QED
    BY <2>7, <2>8
<1>4. CASE MessageThread
  <2>1. \A p \in OrderIds : ~CancelOrder(p)
    BY <1>1 DEF CancelOrder
  <2>2. ~Update("exchange")
    BY <1>1 DEF Update, ScanBest, StoreBest
  <2>3. PICK p \in OrderIds, d \in Requests : AddOrder(p, d)
    BY <1>4, <2>1, <2>2 DEF MessageThread
  <2>4. status[p] = "none" /\ remaining' = [remaining EXCEPT ![p] = d.qty]
    BY <1>2, <2>3 DEF AddOrder, NextId
  <2>5. remaining'[o] = remaining[o]
    BY <2>4 DEF IInv, TypeOK
  <2> QED
    BY <2>5 DEF IInv, TypeOK
<1>5. CASE Destructor
  BY <1>1, <1>2, <1>5, Zenon DEF Destructor, BeginClear, ClearOne, ClearNext, JoinFillThread
<1>6. CASE FillThread
  BY <1>1, <1>6 DEF FillThread, TakeFillEvent
<1>7. CASE UNCHANGED vars
  BY <1>1, <1>7 DEF vars
<1> QED
  BY <1>3, <1>4, <1>5, <1>6, <1>7 DEF Next

\* The resting order under the sweep: a limit order of the side and the level.
LEMMA UnderSweep ==
  ASSUME IInv, pc["matcher"] = "level", it # NoOrder, Listed(it)
  PROVE  /\ it \in Created /\ order[it].type # "MARKET" /\ order[it].side = RestSide
         /\ LimitLevel(it) = level /\ RestSide \in Sides /\ AggSide \in Sides
         /\ agg \in Created /\ agg \notin Resting
<1>1. it \in Created /\ order[it].side = RestSide /\ LimitLevel(it) = level
  BY DEF IInv, Iterators
<1>2. agg # NoOrder /\ agg \in Created
  BY DEF IInv, Control, Provenance
<1>3. RestSide \in Sides /\ AggSide \in Sides
  BY <1>2, Aggressor
<1>4. PICK side \in Sides, l \in Levels : it \in ToSet(book[side][l])
  BY RestingMember DEF Listed
<1>5. order[it].type = "LIMIT"
  BY <1>4 DEF IInv, BookSound
<1>6. agg \notin Resting
  BY <1>2, OrderIdsAreInts DEF IInv, OwnedOnce, Created
<1> QED
  BY <1>1, <1>2, <1>3, <1>5, <1>6

LEMMA TradeWithin ==
  ASSUME IInv, SweepInLimit, WholeTicks, [Next]_vars,
         NEW o \in OrderIds, status[o] # "none", remaining'[o] < remaining[o]
  PROVE  Within(o, IndexToPrice(level))
<1>1. pc["matcher"] = "level" /\ it # NoOrder /\ Listed(it) /\ o \in {it, agg}
  BY WhoTrades
<1>2. /\ it \in Created /\ ~IsMarket(it) /\ LimitLevel(it) = level
      /\ AggSide \in Sides /\ agg \in Created
  BY <1>1, UnderSweep DEF IsMarket
<1>3. level \in Nat /\ order[it].price = IndexToPrice(level) /\ IndexToPrice(level) \in Int
  BY <1>2, WholeTickPrice, PricesAssumption DEF IsMarket, IndexToPrice
<1>4. CASE o = it
  BY <1>3, <1>4 DEF Within
<1>5. CASE o = agg /\ ~IsMarket(agg)
  <2>1. WithinLimit(level)
    BY <1>1 DEF SweepInLimit
  <2>2. LimitLevel(agg) \in Nat /\ order[agg].price = IndexToPrice(LimitLevel(agg))
    BY <1>2, <1>5, WholeTickPrice DEF IsMarket, IndexToPrice
  <2>3. CASE AggSide = "SELL"
    <3>1. LimitLevel(agg) <= level
      BY <1>3, <1>5, <2>1, <2>2, <2>3 DEF WithinLimit
    <3>2. IndexToPrice(LimitLevel(agg)) <= IndexToPrice(level)
      BY <1>3, <2>2, <3>1, PricesAreMonotone DEF IndexToPrice
    <3>3. IndexToPrice(LimitLevel(agg)) \in Int
      BY <2>2, PricesAssumption DEF IndexToPrice
    <3>4. IndexToPrice(level) >= order[agg].price
      BY <1>3, <2>2, <3>2, <3>3
    <3> QED
      BY <1>5, <2>3, <3>4 DEF Within, AggSide
  <2>4. CASE AggSide = "BUY"
    <3>1. level <= LimitLevel(agg)
      BY <1>3, <1>5, <2>1, <2>2, <2>4 DEF WithinLimit
    <3>2. IndexToPrice(level) <= IndexToPrice(LimitLevel(agg))
      BY <1>3, <2>2, <3>1, PricesAreMonotone DEF IndexToPrice
    <3> QED
      BY <1>5, <2>2, <2>4, <3>2 DEF Within, AggSide
  <2> QED
    BY <1>2, <2>3, <2>4 DEF Sides
<1> QED
  BY <1>1, <1>4, <1>5 DEF Within

\* When prices are whole ticks no order trades beyond its limit, whatever cancel or
\* shutdown falls into the match: the price of a trade is that of the resting order,
\* and the sweep has entered no level beyond the aggressor's limit.
THEOREM EngineTradesWithinLimits == WholeTicks => (Spec => TradesWithinLimits)
<1> SUFFICES ASSUME WholeTicks PROVE Spec => TradesWithinLimits
  OBVIOUS
<1>1. Init => SweepInLimit
  BY DEF Init, SweepInLimit, Threads
<1>2. IInv /\ SweepInLimit /\ [Next]_vars => SweepInLimit'
  BY NextSweepInLimit
<1>3. IInv /\ SweepInLimit /\ [Next]_vars
      => [\A o \in OrderIds : status[o] # "none" /\ remaining'[o] < remaining[o]
             => Within(o, IndexToPrice(level))]_vars
  BY TradeWithin
<1> QED
  BY <1>1, <1>2, <1>3, EngineInvariant, PTL DEF Spec, TradesWithinLimits

LEMMA TradeInPriority ==
  ASSUME IInv, SInv, WholeTicks, [Next]_vars, NEW o \in Resting, remaining'[o] < remaining[o],
         NEW p \in Resting, order[p].side = order[o].side, Precedes(p, o)
  PROVE  OwnOrder(p)
<1>1. o \in Created /\ p \in Created /\ o \in OrderIds /\ status[o] # "none"
  BY DEF IInv, Provenance, Created
<1>2. pc["matcher"] = "level" /\ it # NoOrder /\ Listed(it) /\ o \in {it, agg}
  BY <1>1, WhoTrades
<1>3. o = it /\ order[o].type # "MARKET" /\ LimitLevel(o) = level /\ order[o].side = RestSide
      /\ RestSide \in Sides
  BY <1>2, UnderSweep
<1>4. p \in RestingOn(RestSide)
  BY <1>3 DEF RestingOn
<1>5. order[p].type # "MARKET"
  <2>1. PICK side \in Sides, l \in Levels : p \in ToSet(book[side][l])
    BY RestingMember
  <2> QED
    BY <2>1 DEF IInv, BookSound
<1>6. /\ LimitLevel(o) \in Nat /\ order[o].price = LimitLevel(o) * SubTick
      /\ LimitLevel(p) \in Nat /\ order[p].price = LimitLevel(p) * SubTick
  BY <1>1, <1>3, <1>5, WholeTickPrice
<1>7. order[o].price \in Nat /\ order[p].price \in Nat
  BY <1>1, RequestFields DEF IInv, Provenance
<1>8. CASE order[p].price > order[o].price /\ order[o].side = "BUY"
  <2>1. LimitLevel(p) > level
    BY <1>3, <1>6, <1>7, <1>8, PricesAreMonotone
  <2>2. ~NotPassed(RestSide, LimitLevel(p))
    BY <1>3, <1>6, <1>8, <2>1 DEF NotPassed
  <2> QED
    BY <1>2, <1>4, <2>2 DEF SInv, SweptOwn, LeftBehind
<1>9. CASE order[p].price < order[o].price /\ order[o].side # "BUY"
  <2>1. LimitLevel(p) < level
    BY <1>3, <1>6, <1>7, <1>9, PricesAreMonotone
  <2>2. ~NotPassed(RestSide, LimitLevel(p))
    BY <1>3, <1>6, <1>9, <2>1 DEF NotPassed
  <2> QED
    BY <1>2, <1>4, <2>2 DEF SInv, SweptOwn, LeftBehind
<1>10. CASE order[p].price = order[o].price /\ p < o
  <2>1. LimitLevel(p) = level
    BY <1>3, <1>10 DEF LimitLevel
  <2> QED
    BY <1>2, <1>3, <1>4, <1>10, <2>1 DEF SInv, SweptOwn, LeftBehind
<1> QED
  BY <1>7, <1>8, <1>9, <1>10 DEF Precedes

\* Price-time priority, when prices are whole ticks and cancels are kept out of a
\* match: whoever trades while resting comes before every other resting order of
\* the side, those of the aggressor's own session aside.
THEOREM EnginePriceTimePriority == WholeTicks => (SerialSpec => PriceTimePriority)
<1> SUFFICES ASSUME WholeTicks PROVE SerialSpec => PriceTimePriority
  OBVIOUS
<1>1. IInv /\ SInv /\ [Next /\ Exclusive']_vars
      => [\A o \in Resting : remaining'[o] < remaining[o]
             => \A p \in Resting :
                   order[p].side = order[o].side /\ Precedes(p, o) => OwnOrder(p)]_vars
  BY TradeInPriority
<1> QED
  BY <1>1, SerialInvariant, PTL DEF SerialSpec, PriceTimePriority
=============================================================================
