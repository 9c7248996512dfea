------------------------ MODULE MatchingEngineProofs ------------------------
(***************************************************************************)
(* Theorems about MatchingEngine for every value of its constants.         *)
(***************************************************************************)
EXTENDS MatchingEngine, SequenceTheorems, FiniteSetTheorems, TLAPS

-----------------------------------------------------------------------------
(* Lists of orders *)

LEMMA ListElements ==
  ASSUME NEW S \in SUBSET Int, NEW s \in Seq(S)
  PROVE  /\ Len(s) \in Nat /\ DOMAIN s = 1 .. Len(s)
         /\ \A k \in 1 .. Len(s) : s[k] \in S /\ s[k] \in Int /\ s[k] \in ToSet(s)
         /\ \A o \in ToSet(s) : o \in S /\ o \in Int /\ \E k \in 1 .. Len(s) : s[k] = o
<1>1. Len(s) \in Nat /\ DOMAIN s = 1 .. Len(s)
  BY LenProperties
<1>2. \A k \in 1 .. Len(s) : s[k] \in S
  BY ElementOfSeq
<1> QED
  BY <1>1, <1>2, Zenon DEF ToSet

\* An iterator's position is the place of its order in the list.
LEMMA PosProperties ==
  ASSUME NEW S \in SUBSET Int, NEW s \in Seq(S), NEW o \in ToSet(s)
  PROVE  Pos(s, o) \in 1 .. Len(s) /\ s[Pos(s, o)] = o
<1>1. \E k \in DOMAIN s : s[k] = o
  BY DEF ToSet
<1>2. Pos(s, o) \in DOMAIN s /\ s[Pos(s, o)] = o
  BY <1>1 DEF Pos
<1> QED
  BY <1>2, ListElements

\* list::erase takes one order out and keeps the others in their order.
LEMMA EraseProperties ==
  ASSUME NEW S \in SUBSET Int, NEW s \in Seq(S), NEW o \in ToSet(s), Increasing(s)
  PROVE  /\ Erase(s, o) \in Seq(S)
         /\ Increasing(Erase(s, o))
         /\ ToSet(Erase(s, o)) = ToSet(s) \ {o}
<1> DEFINE i == Pos(s, o)
           n == Len(s)
           left == SubSeq(s, 1, i - 1)
           right == SubSeq(s, i + 1, n)
           t == Erase(s, o)
<1>1. /\ i \in 1 .. n /\ s[i] = o /\ n \in Nat /\ DOMAIN s = 1 .. n
      /\ \A k \in 1 .. n : s[k] \in S /\ s[k] \in Int /\ s[k] \in ToSet(s)
      /\ \A k \in 1 .. n : \A m \in 1 .. n : k < m => s[k] < s[m]
  BY PosProperties, ListElements DEF Increasing
<1>2. t = left \o right
  BY DEF Erase, RemoveAt
<1> HIDE DEF i, n, t
<1>3. left \in Seq(S) /\ Len(left) = i - 1 /\ \A k \in 1 .. i - 1 : left[k] = s[k]
  <2>1. i - 1 \in Int /\ \A k \in 1 .. i - 1 : s[k] \in S
    BY <1>1
  <2>2. /\ left \in Seq(S) /\ Len(left) = IF 1 <= i - 1 THEN i - 1 - 1 + 1 ELSE 0
        /\ \A k \in 1 .. i - 1 - 1 + 1 : left[k] = s[1 + k - 1]
    BY <2>1, SubSeqProperties
  <2> QED
    BY <1>1, <2>2
<1>4. right \in Seq(S) /\ Len(right) = n - i /\ \A k \in 1 .. n - i : right[k] = s[k + i]
  <2>1. i + 1 \in Int /\ n \in Int /\ \A k \in i + 1 .. n : s[k] \in S
    BY <1>1
  <2>2. /\ right \in Seq(S) /\ Len(right) = IF i + 1 <= n THEN n - (i + 1) + 1 ELSE 0
        /\ \A k \in 1 .. n - (i + 1) + 1 : right[k] = s[i + 1 + k - 1]
    BY <2>1, SubSeqProperties
  <2> QED
    BY <1>1, <2>2
<1>5. /\ t \in Seq(S) /\ Len(t) = n - 1
      /\ \A k \in 1 .. n - 1 : t[k] = IF k < i THEN s[k] ELSE s[k + 1]
  <2>1. /\ t \in Seq(S) /\ Len(t) = Len(left) + Len(right)
        /\ \A k \in 1 .. Len(left) + Len(right) :
              t[k] = IF k <= Len(left) THEN left[k] ELSE right[k - Len(left)]
    BY <1>2, <1>3, <1>4, ConcatProperties
  <2> HIDE DEF left, right
  <2> QED
    BY <1>1, <1>3, <1>4, <2>1
<1>6. DOMAIN t = 1 .. n - 1 /\ \A k \in 1 .. n - 1 : t[k] \in ToSet(t)
  BY <1>1, <1>5, ListElements
<1>7. Increasing(t)
  <2>1. ASSUME NEW j \in 1 .. n - 1, NEW k \in 1 .. n - 1, j < k PROVE t[j] < t[k]
    <3>1. j \in 1 .. n /\ k \in 1 .. n /\ j + 1 \in 1 .. n /\ k + 1 \in 1 .. n /\ j + 1 < k + 1 /\ j < k + 1
      BY <1>1, <2>1
    <3>2. t[j] = (IF j < i THEN s[j] ELSE s[j + 1]) /\ t[k] = (IF k < i THEN s[k] ELSE s[k + 1])
      BY <1>5
    <3> QED
      BY <1>1, <2>1, <3>1, <3>2
  <2> QED
    BY <1>6, <2>1 DEF Increasing
<1>8. ASSUME NEW p \in ToSet(t) PROVE p \in ToSet(s) /\ p # o
  <2>1. PICK k \in 1 .. n - 1 : t[k] = p
    BY <1>5, ListElements
  <2>2. CASE k < i
    BY <1>1, <1>5, <2>1, <2>2
  <2>3. CASE ~(k < i)
    BY <1>1, <1>5, <2>1, <2>3
  <2> QED
    BY <2>2, <2>3
<1>9. ASSUME NEW p \in ToSet(s), p # o PROVE p \in ToSet(t)
  <2>1. PICK k \in 1 .. n : s[k] = p
    BY ListElements DEF n
  <2>2. CASE k < i
    BY <1>1, <1>5, <1>6, <2>1, <2>2
  <2>3. CASE ~(k < i)
    <3>1. k - 1 \in 1 .. n - 1 /\ t[k - 1] = p
      BY <1>1, <1>5, <1>9, <2>1, <2>3
    <3> QED
      BY <1>6, <3>1
  <2> QED
    BY <2>2, <2>3
<1> QED
  BY <1>5, <1>7, <1>8, <1>9 DEF t

\* list::push_back of an order younger than all in the list.
LEMMA PushBackProperties ==
  ASSUME NEW S \in SUBSET Int, NEW s \in Seq(S), NEW o \in S, Increasing(s),
         \A p \in ToSet(s) : p < o
  PROVE  /\ PushBack(s, o) \in Seq(S)
         /\ Increasing(PushBack(s, o))
         /\ ToSet(PushBack(s, o)) = ToSet(s) \cup {o}
<1> DEFINE t == PushBack(s, o)
           n == Len(s)
<1>1. /\ n \in Nat /\ DOMAIN s = 1 .. n
      /\ \A k \in 1 .. n : s[k] \in ToSet(s) /\ s[k] \in Int /\ s[k] < o
      /\ \A k \in 1 .. n : \A m \in 1 .. n : k < m => s[k] < s[m]
  BY ListElements DEF Increasing
<1>2. /\ t \in Seq(S) /\ Len(t) = n + 1
      /\ \A k \in 1 .. n + 1 : t[k] = IF k <= n THEN s[k] ELSE o
  BY DEF PushBack
<1>3. DOMAIN t = 1 .. n + 1 /\ \A k \in 1 .. n + 1 : t[k] \in ToSet(t)
  BY <1>1, <1>2, ListElements
<1> HIDE DEF t, n
<1>4. Increasing(t)
  BY <1>1, <1>2, <1>3 DEF Increasing
<1>5. ASSUME NEW p \in ToSet(t) PROVE p \in ToSet(s) \cup {o}
  <2>1. PICK k \in 1 .. n + 1 : t[k] = p
    BY <1>2, ListElements
  <2> QED
    BY <1>1, <1>2, <2>1
<1>6. ASSUME NEW p \in ToSet(s) PROVE p \in ToSet(t)
  <2>1. PICK k \in 1 .. n : s[k] = p
    BY ListElements DEF n
  <2> QED
    BY <1>1, <1>2, <1>3, <2>1
<1>7. o \in ToSet(t)
  BY <1>1, <1>2, <1>3
<1> QED
  BY <1>2, <1>4, <1>5, <1>6, <1>7 DEF t

\* try_dequeue takes the oldest order of the queue.
LEMMA TailProperties ==
  ASSUME NEW S \in SUBSET Int, NEW s \in Seq(S), s # <<>>, Increasing(s)
  PROVE  /\ Head(s) \in S /\ Tail(s) \in Seq(S)
         /\ Increasing(Tail(s))
         /\ Head(s) \in ToSet(s) /\ ToSet(Tail(s)) \subseteq ToSet(s)
         /\ ToSet(s) = ToSet(Tail(s)) \cup {Head(s)}
         /\ \A o \in ToSet(Tail(s)) : o > Head(s)
<1>1. /\ Head(s) \in S /\ Tail(s) \in Seq(S) /\ Len(Tail(s)) = Len(s) - 1 /\ Len(s) \in Nat \ {0}
      /\ \A k \in 1 .. Len(s) - 1 : Tail(s)[k] = s[k + 1]
      /\ Head(s) = s[1]
  BY HeadTailProperties, EmptySeq
<1>2. DOMAIN s = 1 .. Len(s) /\ DOMAIN Tail(s) = 1 .. Len(s) - 1
  BY <1>1
<1>3. Increasing(Tail(s))
  BY <1>1, <1>2 DEF Increasing
<1>4. \A o \in ToSet(Tail(s)) : o \in ToSet(s) /\ o > Head(s)
  BY <1>1, <1>2 DEF ToSet, Increasing
<1>5. ASSUME NEW o \in ToSet(s), o # Head(s) PROVE o \in ToSet(Tail(s))
  <2>1. PICK k \in 1 .. Len(s) : s[k] = o
    BY <1>2 DEF ToSet
  <2>2. k - 1 \in 1 .. Len(s) - 1 /\ Tail(s)[k - 1] = o
    BY <1>1, <1>5, <2>1
  <2> QED
    BY <1>2, <2>2 DEF ToSet
<1>6. Head(s) \in ToSet(s)
  BY <1>1, <1>2 DEF ToSet
<1> QED
  BY <1>1, <1>3, <1>4, <1>5, <1>6

\* Following or making an iterator gives an order of the list or the end.
LEMMA IteratorType ==
  ASSUME NEW S \in SUBSET Int, NEW s \in Seq(S)
  PROVE  /\ First(s) \in ToSet(s) \cup {NoOrder}
         /\ \A o \in ToSet(s) : Successor(s, o) \in ToSet(s) \cup {NoOrder}
<1>1. First(s) \in ToSet(s) \cup {NoOrder}
  <2>1. CASE s # <<>>
    <3>1. Head(s) = s[1] /\ 1 \in 1 .. Len(s)
      BY <2>1, EmptySeq, LenProperties
    <3> QED
      BY <2>1, <3>1, ListElements DEF First
  <2>2. CASE s = <<>>
    BY <2>2 DEF First
  <2> QED
    BY <2>1, <2>2
<1>2. ASSUME NEW o \in ToSet(s) PROVE Successor(s, o) \in ToSet(s) \cup {NoOrder}
  BY PosProperties, ListElements DEF Successor
<1> QED
  BY <1>1, <1>2

-----------------------------------------------------------------------------
(* Levels *)

\* A set of levels that is not empty has a highest and a lowest member: of the
\* sets {m \in S : l <= m} the least is that of the highest l.
LEMMA HighestExists ==
  ASSUME NEW n \in Nat, NEW S \in SUBSET (0 .. n), S # {}
  PROVE  \E l \in S : \A m \in S : m <= l
<1> DEFINE AtLeast(l) == {m \in S : l <= m}
           T == {AtLeast(l) : l \in S}
           R == StrictSubsetOrdering(0 .. n)
<1>1. T \subseteq FiniteSubsetsOf(0 .. n)
  <2>1. IsFiniteSet(0 .. n)
    BY FS_Interval
  <2>2. \A l \in S : AtLeast(l) \in SUBSET (0 .. n)
    OBVIOUS
  <2> QED
    BY <2>1, <2>2, FS_Subset DEF FiniteSubsetsOf
<1>2. T # {}
  OBVIOUS
<1>3. \E U \in T : \A V \in T : ~(<<V, U>> \in R)
  <2> HIDE DEF T
  <2> QED
    BY <1>1, <1>2, FS_StrictSubsetOrderingWellFounded, WFMin
<1>4. PICK l \in S : \A V \in T : ~(<<V, AtLeast(l)>> \in R)
  BY <1>3
<1>5. ASSUME NEW m \in S, m > l PROVE FALSE
  <2>1. AtLeast(m) \subseteq AtLeast(l) /\ l \in AtLeast(l) /\ l \notin AtLeast(m)
    <3>1. \A k \in S : k \in Int
      OBVIOUS
    <3>2. \A k \in S : m <= k => l <= k
      BY <1>5, <3>1
    <3>3. l <= l /\ ~(m <= l)
      BY <1>5, <3>1
    <3> QED
      BY <3>2, <3>3, Zenon
  <2>2. AtLeast(m) \in SUBSET (0 .. n) /\ AtLeast(l) \in SUBSET (0 .. n)
    OBVIOUS
  <2>3. <<AtLeast(m), AtLeast(l)>> \in R
    <3> HIDE DEF AtLeast
    <3> QED
      BY <2>1, <2>2 DEF StrictSubsetOrdering
  <2> QED
    BY <1>4, <2>3
<1> QED
  BY <1>5

LEMMA LowestExists ==
  ASSUME NEW n \in Nat, NEW S \in SUBSET (0 .. n), S # {}
  PROVE  \E l \in S : \A m \in S : l <= m
<1> DEFINE T == {n - m : m \in S}
<1>0. \A m \in S : m \in 0 .. n /\ n - m \in 0 .. n
  <2>1. \A m \in S : m \in 0 .. n
    OBVIOUS
  <2> QED
    BY <2>1
<1>1. T \in SUBSET (0 .. n) /\ T # {}
  BY <1>0
<1>2. PICK h \in T : \A m \in T : m <= h
  <2> HIDE DEF T
  <2> QED
    BY <1>1, HighestExists
<1>3. PICK l \in S : h = n - l
  BY <1>2
<1>4. ASSUME NEW m \in S PROVE l <= m
  <2>1. n - m <= h
    BY <1>2
  <2> QED
    BY <1>0, <1>3, <2>1
<1> QED
  BY <1>4

\* The best of a set of levels is one of them.
LEMMA TopProperties ==
  ASSUME NEW side \in Sides, NEW S \in SUBSET Levels, S # {}
  PROVE  Top(side, S) \in S
<1>1. CASE side = "BUY"
  <2>1. \E l \in S : \A m \in S : m <= l
    BY HighestExists, SizesAssumption DEF Levels
  <2> QED
    BY <1>1, <2>1 DEF Top
<1>2. CASE side # "BUY"
  <2>1. \E l \in S : \A m \in S : l <= m
    BY LowestExists, SizesAssumption DEF Levels
  <2> QED
    BY <1>2, <2>1 DEF Top
<1> QED
  BY <1>1, <1>2

-----------------------------------------------------------------------------
(* The inductive invariant *)

\* Control points against the locals that are live there; a best price is one of
\* a level of the book.
Control ==
    /\ pc["exchange"] \in UpdateSteps \cup {"idle"}
    /\ pc["matcher"] \in {"sweep", "level", "filled"} <=> agg # NoOrder
    /\ pc["matcher"] \in {"level", "filled"} => level \in Levels
    /\ pc["matcher"] \notin {"level", "filled"} => traded = 0
    /\ \A side \in Sides : best[side] # NoPrice => PriceToIndex(best[side]) \in Levels
    /\ \A t \in Threads : seen[t] # NoPrice => PriceToIndex(seen[t]) \in Levels

\* Orders are created in id order, and only what was created is owned.
Provenance ==
    /\ \A o \in Created : order[o] \in Requests
    /\ \A o \in Created, p \in OrderIds : p < o => p \in Created
    /\ \A o \in OrderIds \ Created : order[o] = NoRequest /\ remaining[o] = 0 /\ emitted[o] = 0
    /\ ToSet(ordersQueue) \subseteq Created /\ Resting \subseteq Created
    /\ agg # NoOrder => agg \in Created

\* An iterator's order belongs to the list the iterator walks.
Iterators ==
    /\ pc["matcher"] = "level" /\ it # NoOrder
          => it \in Created /\ order[it].side = RestSide /\ LimitLevel(it) = level
    /\ clearIt # NoOrder
          => /\ clearIt \in Created
             /\ order[clearIt].side = phase /\ LimitLevel(clearIt) = clearLevel

IInv == /\ TypeOK /\ Control /\ Provenance /\ Iterators
        /\ BookSound /\ LookupMatchesBook /\ OwnedOnce /\ QtyAccounting

\* Orders: ids are integers, requests have typed fields.
LEMMA OrderIdsAreInts == OrderIds \in SUBSET Int /\ NoOrder \notin OrderIds /\ \A o \in OrderIds : o > NoOrder
  BY SizesAssumption DEF OrderIds, NoOrder

LEMMA RequestFields ==
  ASSUME NEW d \in Requests
  PROVE  /\ d.side \in Sides /\ d.qty \in Nat /\ d.price \in Nat
         /\ \/ d.type = "MARKET"
            \/ d.type = "LIMIT" /\ PriceToIndex(d.price) \in Levels
<1>1. CASE d \in LimitRequests
  BY <1>1, PricesAssumption, QuantitiesAssumption DEF LimitRequests
<1>2. CASE d \in MarketRequests
  <2>1. d.side \in Sides /\ d.qty \in Quantities /\ d.price = 0 /\ d.type = "MARKET"
    BY <1>2 DEF MarketRequests, MarketPrice
  <2>2. d.qty \in Nat
    BY <2>1, QuantitiesAssumption
  <2>3. d.price \in Nat
    BY <2>1
  <2> QED
    BY <2>1, <2>2, <2>3, Zenon
<1> QED
  BY <1>1, <1>2 DEF Requests

-----------------------------------------------------------------------------
(* How the book changes *)

LEMMA RestingMember ==
  /\ \A o : o \in Resting <=> \E side \in Sides, l \in Levels : o \in ToSet(book[side][l])
  /\ \A o : o \in Resting' <=> \E side \in Sides, l \in Levels : o \in ToSet(book'[side][l])
BY DEF Resting

\* One list of the book replaced, the others as they were.
LEMMA ListReplaced ==
  ASSUME NEW b \in [Sides -> [Levels -> Seq(OrderIds)]], NEW S \in Sides, NEW L \in Levels,
         NEW list \in Seq(OrderIds), NEW c, c = [b EXCEPT ![S][L] = list]
  PROVE  /\ c \in [Sides -> [Levels -> Seq(OrderIds)]]
         /\ \A side \in Sides, l \in Levels :
               c[side][l] = IF side = S /\ l = L THEN list ELSE b[side][l]
OBVIOUS

LEMMA RestingOrders ==
  ASSUME TypeOK, BookSound, NEW o \in Resting
  PROVE  /\ o \in OrderIds /\ order[o].side \in Sides /\ LimitLevel(o) \in Levels
         /\ o \in ToSet(book[order[o].side][LimitLevel(o)])
         /\ \A side \in Sides, l \in Levels :
               o \in ToSet(book[side][l]) => side = order[o].side /\ l = LimitLevel(o)
         /\ remaining[o] > 0
<1>1. PICK side \in Sides, l \in Levels : o \in ToSet(book[side][l])
  BY DEF Resting
<1>2. order[o].side = side /\ LimitLevel(o) = l /\ remaining[o] > 0
  BY <1>1 DEF BookSound, LimitLevel
<1>3. o \in OrderIds
  BY <1>1, ListElements, OrderIdsAreInts DEF TypeOK
<1>4. \A s \in Sides, m \in Levels :
         o \in ToSet(book[s][m]) => s = order[o].side /\ m = LimitLevel(o)
  BY DEF BookSound, LimitLevel
<1> QED
  BY <1>1, <1>2, <1>3, <1>4

\* The lists and the resting orders as they are: nothing about the book changes.
LEMMA BookKept ==
  ASSUME BookSound, book' = book,
         \A o \in Resting : order'[o] = order[o] /\ remaining'[o] > 0
  PROVE  BookSound' /\ Resting' = Resting
<1>1. Resting' = Resting
  BY DEF Resting
<1>2. \A side \in Sides, l \in Levels : \A o \in ToSet(book[side][l]) : o \in Resting
  BY DEF Resting
<1> QED
  BY <1>1, <1>2 DEF BookSound

\* Unlinking a resting order leaves the rest of the book sound.
LEMMA BookShrinks ==
  ASSUME TypeOK, BookSound, NEW o \in Resting, order' = order, book' = BookWithout(o),
         \A p \in Resting : p # o => remaining'[p] > 0
  PROVE  /\ book' \in [Sides -> [Levels -> Seq(OrderIds)]]
         /\ BookSound' /\ Resting' = Resting \ {o}
<1> DEFINE S == order[o].side
           L == LimitLevel(o)
<1>1. o \in OrderIds /\ S \in Sides /\ L \in Levels /\ o \in ToSet(book[S][L])
  BY RestingOrders
<1>2. book[S][L] \in Seq(OrderIds) /\ Increasing(book[S][L])
  BY <1>1 DEF TypeOK, BookSound
<1>3. /\ Erase(book[S][L], o) \in Seq(OrderIds) /\ Increasing(Erase(book[S][L], o))
      /\ ToSet(Erase(book[S][L], o)) = ToSet(book[S][L]) \ {o}
  BY <1>1, <1>2, EraseProperties, OrderIdsAreInts
<1>4. book' = [book EXCEPT ![S][L] = Erase(book[S][L], o)]
  BY DEF BookWithout, LimitLevel
<1>5. book \in [Sides -> [Levels -> Seq(OrderIds)]]
  BY DEF TypeOK
<1> HIDE DEF S, L
<1>6. /\ book' \in [Sides -> [Levels -> Seq(OrderIds)]]
      /\ \A side \in Sides, l \in Levels :
            book'[side][l] = IF side = S /\ l = L THEN Erase(book[S][L], o) ELSE book[side][l]
  BY <1>1, <1>3, <1>4, <1>5, ListReplaced
<1>7. \A side \in Sides, l \in Levels :
         /\ ToSet(book'[side][l]) = ToSet(book[side][l]) \ {o}
         /\ Increasing(book'[side][l])
  <2>1. \A side \in Sides, l \in Levels : o \in ToSet(book[side][l]) => side = S /\ l = L
    BY RestingOrders DEF S, L
  <2> QED
    BY <1>3, <1>6, <2>1 DEF BookSound
<1>8. Resting' = Resting \ {o}
  <2>1. \A side \in Sides, l \in Levels : \A p :
           p \in ToSet(book'[side][l]) <=> p \in ToSet(book[side][l]) /\ p # o
    BY <1>7
  <2>2. \A p \in Resting' : p \in Resting /\ p # o
    BY <2>1, RestingMember
  <2>3. \A p \in Resting : p # o => p \in Resting'
    BY <2>1, RestingMember
  <2> QED
    BY <2>2, <2>3
<1>9. BookSound'
  <2>1. \A side \in Sides, l \in Levels : \A p \in ToSet(book[side][l]) : p \in Resting
    BY DEF Resting
  <2> QED
    BY <1>7, <2>1 DEF BookSound
<1> QED
  BY <1>6, <1>8, <1>9

\* AddOrderToBook_ of an order younger than all that rest keeps the book sound.
LEMMA BookGrows ==
  ASSUME TypeOK, BookSound, NEW o \in OrderIds, order[o] \in Requests, ~IsMarket(o),
         remaining[o] > 0, \A p \in Resting : p < o,
         order' = order, remaining' = remaining,
         book' = BookWith(o)
  PROVE  /\ book' \in [Sides -> [Levels -> Seq(OrderIds)]]
         /\ BookSound' /\ Resting' = Resting \cup {o}
<1> DEFINE S == order[o].side
           L == LimitLevel(o)
<1>1. S \in Sides /\ L \in Levels /\ order[o].type = "LIMIT"
  BY RequestFields DEF IsMarket, LimitLevel
<1>2. book[S][L] \in Seq(OrderIds) /\ Increasing(book[S][L]) /\ \A p \in ToSet(book[S][L]) : p < o
  BY <1>1 DEF TypeOK, BookSound, Resting
<1>3. /\ PushBack(book[S][L], o) \in Seq(OrderIds) /\ Increasing(PushBack(book[S][L], o))
      /\ ToSet(PushBack(book[S][L], o)) = ToSet(book[S][L]) \cup {o}
  BY <1>2, PushBackProperties, OrderIdsAreInts
<1>4. book' = [book EXCEPT ![S][L] = PushBack(book[S][L], o)]
  BY DEF BookWith, LimitLevel
<1>5. order[o].side = S /\ PriceToIndex(order[o].price) = L
  BY DEF LimitLevel
<1>6. book \in [Sides -> [Levels -> Seq(OrderIds)]]
  BY DEF TypeOK
<1> HIDE DEF S, L
<1>7. /\ book' \in [Sides -> [Levels -> Seq(OrderIds)]]
      /\ \A side \in Sides, l \in Levels :
            book'[side][l] = IF side = S /\ l = L THEN PushBack(book[S][L], o) ELSE book[side][l]
  BY <1>1, <1>3, <1>4, <1>6, ListReplaced
<1>8. ASSUME NEW side \in Sides, NEW l \in Levels
      PROVE  /\ Increasing(book'[side][l])
             /\ \A p : p \in ToSet(book'[side][l])
                        <=> p \in ToSet(book[side][l]) \/ (p = o /\ side = S /\ l = L)
  <2>1. CASE side = S /\ l = L
    <3>1. book'[side][l] = PushBack(book[S][L], o)
      BY <1>7, <2>1
    <3> QED
      BY <1>3, <2>1, <3>1
  <2>2. CASE ~(side = S /\ l = L)
    <3>1. book'[side][l] = book[side][l]
      BY <1>7, <2>2
    <3>2. Increasing(book[side][l])
      BY DEF BookSound
    <3> QED
      BY <2>2, <3>1, <3>2
  <2> QED
    BY <2>1, <2>2
<1>9. Resting' = Resting \cup {o}
  <2>1. \A p \in Resting' : p \in Resting \/ p = o
    BY <1>8, RestingMember
  <2>2. \A p \in Resting : p \in Resting'
    BY <1>8, RestingMember
  <2>3. o \in Resting'
    BY <1>1, <1>8, RestingMember
  <2> QED
    BY <2>1, <2>2, <2>3
<1>10. BookSound'
  <2>1. ASSUME NEW side \in Sides, NEW l \in Levels, NEW p \in ToSet(book'[side][l])
        PROVE  /\ order[p].side = side /\ order[p].type = "LIMIT"
               /\ PriceToIndex(order[p].price) = l /\ remaining[p] > 0
    <3>1. CASE p \in ToSet(book[side][l])
      BY <3>1 DEF BookSound
    <3>2. CASE p = o /\ side = S /\ l = L
      BY <1>1, <1>5, <3>2
    <3> QED
      BY <1>8, <3>1, <3>2
  <2> QED
    BY <1>8, <2>1 DEF BookSound
<1> QED
  BY <1>7, <1>9, <1>10

\* What an event does to the history, whether or not the queue takes it.
LEMMA EmitProperties ==
  ASSUME TypeOK, NEW o \in OrderIds, NEW price, NEW q \in Nat, NEW left, NEW stat \in Statuses,
         NEW changed, Emit(o, price, q, left, stat, changed)
  PROVE  /\ emitted' \in [OrderIds -> Nat] /\ announced' \in [OrderIds -> Statuses]
         /\ lost' \subseteq OrderIds /\ lost \subseteq lost'
         /\ \A p \in OrderIds : p # o => emitted'[p] = emitted[p]
         /\ o \notin lost' => emitted'[o] = emitted[o] + q
<1>1. /\ emitted \in [OrderIds -> Nat] /\ announced \in [OrderIds -> Statuses]
      /\ lost \subseteq OrderIds
  BY DEF TypeOK
<1>2. CASE Len(fillEvents) < FillQueueCap
  <2>1. /\ emitted' = [emitted EXCEPT ![o] = @ + q] /\ lost' = lost
        /\ announced' = [announced EXCEPT ![o] = stat] \/ announced' = announced
    BY <1>2, Zenon DEF Emit
  <2>2. emitted[o] + q \in Nat
    BY <1>1
  <2> QED
    BY <1>1, <2>1, <2>2
<1>3. CASE ~(Len(fillEvents) < FillQueueCap)
  <2>1. lost' = lost \cup {o} /\ emitted' = emitted /\ announced' = announced
    BY <1>3, Zenon DEF Emit
  <2> QED
    BY <1>1, <2>1
<1> QED
  BY <1>2, <1>3

\* A step that touches neither orders nor their owners nor what was reported.
LEMMA Frame ==
  ASSUME IInv, UNCHANGED <<heapVars, ordersQueue, book, lookup, agg, traded, emitted, lost>>,
         phase' = "open" => phase = "open"
  PROVE  Provenance' /\ BookSound' /\ LookupMatchesBook' /\ OwnedOnce' /\ QtyAccounting'
<1> USE DEF heapVars
<1>1. BookSound' /\ Resting' = Resting
  <2>1. \A o \in Resting : remaining[o] > 0
    BY RestingOrders DEF IInv
  <2> QED
    BY <2>1, BookKept DEF IInv
<1>2. Created' = Created
  BY DEF Created
<1> QED
  BY <1>1, <1>2 DEF IInv, Provenance, LookupMatchesBook, OwnedOnce, QtyAccounting

\* The list of a level, its orders, and where its iterators may point.
LEMMA ListType ==
  ASSUME IInv, NEW side \in Sides, NEW l \in Levels
  PROVE  /\ book[side][l] \in Seq(OrderIds) /\ Increasing(book[side][l])
         /\ First(book[side][l]) \in ToSet(book[side][l]) \cup {NoOrder}
         /\ \A o \in ToSet(book[side][l]) :
               /\ Successor(book[side][l], o) \in ToSet(book[side][l]) \cup {NoOrder}
               /\ o \in Resting /\ o \in OrderIds /\ o \in Created
               /\ order[o].side = side /\ LimitLevel(o) = l
<1>1. book[side][l] \in Seq(OrderIds) /\ Increasing(book[side][l])
  BY DEF IInv, TypeOK, BookSound
<1>2. ASSUME NEW o \in ToSet(book[side][l])
      PROVE  /\ o \in Resting /\ o \in OrderIds /\ o \in Created
             /\ order[o].side = side /\ LimitLevel(o) = l
  <2>1. o \in Resting
    BY RestingMember
  <2> QED
    BY <2>1, RestingOrders DEF IInv, Provenance
<1>3. /\ First(book[side][l]) \in ToSet(book[side][l]) \cup {NoOrder}
      /\ \A o \in ToSet(book[side][l]) :
            Successor(book[side][l], o) \in ToSet(book[side][l]) \cup {NoOrder}
  BY <1>1, IteratorType, OrderIdsAreInts
<1> QED
  BY <1>1, <1>2, <1>3

\* Iterators that a step does not move go on pointing where they should.
LEMMA IteratorsKept ==
  ASSUME IInv, \A o \in Created : o \in Created' /\ order'[o] = order[o],
         pc'["matcher"] = "level" => pc["matcher"] = "level" /\ UNCHANGED <<agg, level, it>>,
         UNCHANGED clearVars
  PROVE  Iterators'
<1>1. ASSUME pc'["matcher"] = "level", it' # NoOrder
      PROVE  it' \in Created' /\ order'[it'].side = RestSide' /\ LimitLevel(it)' = level'
  <2>1. pc["matcher"] = "level" /\ agg' = agg /\ level' = level /\ it' = it
    BY <1>1
  <2>2. it \in Created /\ order[it].side = RestSide /\ LimitLevel(it) = level
    BY <1>1, <2>1 DEF IInv, Iterators
  <2>3. agg \in Created
    BY <2>1 DEF IInv, Control, Provenance
  <2> QED
    BY <2>1, <2>2, <2>3 DEF RestSide, AggSide, LimitLevel
<1>2. ASSUME clearIt' # NoOrder
      PROVE  /\ clearIt' \in Created'
             /\ order'[clearIt'].side = phase' /\ LimitLevel(clearIt)' = clearLevel'
  <2>1. phase' = phase /\ clearIt' = clearIt /\ clearLevel' = clearLevel
    BY DEF clearVars
  <2>2. clearIt \in Created /\ order[clearIt].side = phase /\ LimitLevel(clearIt) = clearLevel
    BY <1>2, <2>1 DEF IInv, Iterators
  <2> QED
    BY <2>1, <2>2 DEF LimitLevel
<1> QED
  BY <1>1, <1>2 DEF Iterators

-----------------------------------------------------------------------------
(* Steps that leave the orders, their owners and the history alone *)

LEMMA ControlPoints ==
  /\ ScanAt["BUY"] = "scanBid" /\ ScanAt["SELL"] = "scanAsk"
  /\ StoreAt["BUY"] = "storeBid" /\ StoreAt["SELL"] = "storeAsk"
  /\ UpdateSteps = {"scanBid", "scanAsk", "storeBid", "storeAsk"}
  /\ Sides = {"BUY", "SELL"} /\ Threads = {"matcher", "exchange"}
BY DEF ScanAt, StoreAt, UpdateSteps, Sides, Threads

\* A side's best price is that of one of the levels of its book.
LEMMA FindBestProperties ==
  ASSUME IInv, NEW side \in Sides
  PROVE  /\ FindBest(side) \in Nat \cup {NoPrice}
         /\ FindBest(side) # NoPrice => PriceToIndex(FindBest(side)) \in Levels
<1>1. CASE NonEmptyLevels(side) = {}
  BY <1>1 DEF FindBest
<1>2. CASE NonEmptyLevels(side) # {}
  <2> DEFINE l == Top(side, NonEmptyLevels(side))
             o == Head(book[side][l])
  <2>1. l \in Levels /\ book[side][l] # <<>>
    BY <1>2, TopProperties DEF NonEmptyLevels
  <2>2. book[side][l] \in Seq(OrderIds) /\ Increasing(book[side][l])
    BY <2>1 DEF IInv, TypeOK, BookSound
  <2>3. o \in ToSet(book[side][l])
    BY <2>1, <2>2, TailProperties, OrderIdsAreInts
  <2>4. o \in Resting
    BY <2>1, <2>3, RestingMember
  <2>5. LimitLevel(o) \in Levels /\ order[o] \in Requests
    BY <2>4, RestingOrders DEF IInv, Provenance
  <2>6. order[o].price \in Nat /\ PriceToIndex(order[o].price) \in Levels
    BY <2>5, RequestFields DEF LimitLevel
  <2>7. FindBest(side) = order[o].price
    BY <1>2 DEF FindBest
  <2> HIDE DEF o, l
  <2> QED
    BY <2>6, <2>7
<1> QED
  BY <1>1, <1>2

LEMMA ScanKeeps ==
  ASSUME IInv, NEW t \in Threads, NEW side \in Sides, ScanBest(t, side)
  PROVE  IInv'
<1> USE DEF ScanBest, heapVars, bookVars, sweepVars, clearVars, eventVars
<1>1. TypeOK'
  BY FindBestProperties, ControlPoints DEF IInv, TypeOK
<1>2. Control'
  BY FindBestProperties, ControlPoints DEF IInv, TypeOK, Control
<1>3. Iterators'
  BY ControlPoints, IteratorsKept DEF IInv, TypeOK, Created
<1> QED
  BY <1>1, <1>2, <1>3, Frame DEF IInv

LEMMA StoreKeeps ==
  ASSUME IInv, NEW t \in Threads, NEW side \in Sides, StoreBest(t, side)
  PROVE  IInv'
<1> USE DEF StoreBest, heapVars, bookVars, sweepVars, clearVars, eventVars
<1>1. TypeOK'
  BY ControlPoints DEF IInv, TypeOK
<1>2. Control'
  BY ControlPoints DEF IInv, TypeOK, Control
<1>3. Iterators'
  BY ControlPoints, IteratorsKept DEF IInv, TypeOK, Created
<1> QED
  BY <1>1, <1>2, <1>3, Frame DEF IInv

LEMMA FailKeeps ==
  ASSUME IInv, NEW reason \in Faults, Fail(reason)
  PROVE  IInv'
<1> USE DEF Fail, heapVars, bookVars, sweepVars, clearVars, eventVars
<1>1. TypeOK'
  BY DEF IInv, TypeOK
<1>2. Control'
  BY DEF IInv, Control
<1>3. Iterators'
  BY ControlPoints, IteratorsKept DEF IInv, TypeOK, Created
<1> QED
  BY <1>1, <1>2, <1>3, Frame DEF IInv

LEMMA StutterKeeps ==
  ASSUME IInv, UNCHANGED vars
  PROVE  IInv'
<1> USE DEF vars, heapVars, bookVars, sweepVars, clearVars, eventVars
<1>1. TypeOK'
  BY DEF IInv, TypeOK
<1>2. Control'
  BY DEF IInv, Control
<1>3. Iterators'
  BY ControlPoints, IteratorsKept DEF IInv, TypeOK, Created
<1> QED
  BY <1>1, <1>2, <1>3, Frame DEF IInv

LEMMA DestructorKeeps ==
  ASSUME IInv, BeginClear \/ ClearNext \/ JoinFillThread
  PROVE  IInv'
<1> USE DEF heapVars, bookVars, sweepVars, clearVars, eventVars
<1>1. UNCHANGED <<heapVars, ordersQueue, bookVars, pc, seen, sweepVars, eventVars, fault>>
  BY Zenon DEF BeginClear, ClearNext, JoinFillThread
<1>a. phase' # "open"
  BY ControlPoints DEF BeginClear, ClearNext, JoinFillThread
<1> DEFINE Start(o, side, l) ==
             \/ o = NoOrder
             \/ o \in OrderIds /\ o \in Created /\ order[o].side = side /\ LimitLevel(o) = l
<1>2. phase' \in Phases /\ clearLevel' \in Levels /\ Start(clearIt', phase', clearLevel')
  <2>1. clearLevel \in Levels /\ clearIt \in OrderIds \cup {NoOrder} /\ phase \in Phases
    BY DEF IInv, TypeOK
  <2>2. 0 \in Levels /\ (clearLevel < MaxLevel => clearLevel + 1 \in Levels)
    BY <2>1, SizesAssumption DEF Levels
  <2>3. \A side \in Sides, l \in Levels : Start(First(book[side][l]), side, l)
    BY ListType
  <2>4. CASE BeginClear
    <3>1. phase' = "BUY" /\ clearLevel' = 0 /\ clearIt' = First(book["BUY"][0])
      BY <2>4 DEF BeginClear
    <3> QED
      BY <2>2, <2>3, <3>1, ControlPoints DEF Phases
  <2>5. CASE ClearNext
    <3>1. phase \in Sides
      BY <2>5 DEF ClearNext
    <3>2. CASE /\ clearLevel < MaxLevel /\ clearLevel' = clearLevel + 1
               /\ clearIt' = First(book[phase][clearLevel']) /\ UNCHANGED phase
      BY <2>1, <2>2, <2>3, <3>1, <3>2
    <3>3. CASE /\ phase' = "SELL" /\ clearLevel' = 0 /\ clearIt' = First(book["SELL"][0])
      BY <2>2, <2>3, <3>3, ControlPoints DEF Phases
    <3>4. CASE phase' = "cleared" /\ clearLevel' = 0 /\ clearIt' = NoOrder
      BY <2>1, <2>2, <3>4 DEF Phases
    <3> QED
      BY <2>5, <3>2, <3>3, <3>4 DEF ClearNext
  <2>6. CASE JoinFillThread
    <3>1. phase = "cleared" /\ phase' = "joined" /\ UNCHANGED <<clearLevel, clearIt>>
      BY <2>6 DEF JoinFillThread
    <3>2. ASSUME clearIt # NoOrder PROVE FALSE
      <4>1. order[clearIt] \in Requests /\ order[clearIt].side = "cleared"
        BY <3>1, <3>2 DEF IInv, Iterators, Provenance
      <4> QED
        BY <4>1, RequestFields, ControlPoints
    <3> QED
      BY <2>1, <3>1, <3>2 DEF Phases
  <2> QED
    BY <2>4, <2>5, <2>6
<1>3. TypeOK'
  BY <1>1, <1>2 DEF IInv, TypeOK
<1>4. Control'
  BY <1>1 DEF IInv, Control
<1>5. Iterators'
  <2>1. Created' = Created /\ RestSide' = RestSide /\ \A o : LimitLevel(o)' = PriceToIndex(order[o].price)
    BY <1>1 DEF Created, RestSide, AggSide, LimitLevel
  <2> QED
    BY <1>1, <1>2, OrderIdsAreInts DEF IInv, Iterators, Created, RestSide, AggSide, LimitLevel
<1> QED
  BY <1>1, <1>a, <1>3, <1>4, <1>5, Frame DEF IInv

LEMMA StopKeeps ==
  ASSUME IInv, StopMatching
  PROVE  IInv'
<1> USE DEF StopMatching, heapVars, bookVars, sweepVars, clearVars, eventVars
<1>1. TypeOK'
  BY ControlPoints DEF IInv, TypeOK
<1>2. Control'
  BY ControlPoints DEF IInv, TypeOK, Control
<1>3. Iterators'
  BY ControlPoints, IteratorsKept DEF IInv, TypeOK, Created
<1> QED
  BY <1>1, <1>2, <1>3, Frame DEF IInv

LEMMA TakeEventKeeps ==
  ASSUME IInv, TakeFillEvent
  PROVE  IInv'
<1> USE DEF TakeFillEvent, heapVars, bookVars, sweepVars, clearVars, eventVars
<1>1. TypeOK'
  BY DEF IInv, TypeOK
<1>2. Control'
  BY DEF IInv, Control
<1>3. Iterators'
  BY ControlPoints, IteratorsKept DEF IInv, TypeOK, Created
<1> QED
  BY <1>1, <1>2, <1>3, Frame DEF IInv

-----------------------------------------------------------------------------
(* Steps that take an order out of the book or out of the queue *)

LEMMA CancelKeeps ==
  ASSUME IInv, NEW o \in OrderIds, CancelOrder(o)
  PROVE  IInv'
<1> USE DEF CancelOrder, heapVars, bookVars, sweepVars, clearVars, eventVars
<1>0. o \in Resting /\ lookup = Resting
  BY DEF IInv, LookupMatchesBook
<1>1. book' \in [Sides -> [Levels -> Seq(OrderIds)]] /\ BookSound' /\ Resting' = Resting \ {o}
  <2>1. \A p \in Resting : remaining'[p] > 0
    BY RestingOrders DEF IInv
  <2> QED
    BY <1>0, <2>1, BookShrinks DEF IInv
<1>2. TypeOK'
  BY <1>1, ControlPoints DEF IInv, TypeOK, Forget
<1>3. Control'
  BY ControlPoints DEF IInv, TypeOK, Control
<1>4. Provenance'
  BY <1>1 DEF IInv, Provenance, Created
<1>5. LookupMatchesBook' /\ OwnedOnce' /\ QtyAccounting'
  BY <1>0, <1>1 DEF IInv, LookupMatchesBook, OwnedOnce, QtyAccounting, Forget
<1>6. Iterators'
  BY ControlPoints, IteratorsKept DEF IInv, TypeOK, Created
<1> QED
  BY <1>1, <1>2, <1>3, <1>4, <1>5, <1>6 DEF IInv

\* ClearBook's unlinking of the order under its iterator.
LEMMA ClearOneKeeps ==
  ASSUME IInv, ClearOne
  PROVE  IInv'
<1> USE DEF heapVars, bookVars, sweepVars, clearVars, eventVars
<1> DEFINE o == clearIt
<1>1. CASE Fail("use_after_free")
  BY <1>1, FailKeeps DEF Faults
<1>2. CASE ~Fail("use_after_free")
  <2>1. /\ phase \in Sides /\ o # NoOrder /\ o \in Resting
        /\ status' = [status EXCEPT ![o] = "Done"]
        /\ Emit(o, 0, 0, remaining[o], "Done", TRUE)
        /\ clearIt' = Successor(book[phase][clearLevel], o)
        /\ book' = BookWithout(o)
        /\ UNCHANGED <<order, remaining, ordersQueue, best, lookup, pc, seen, sweepVars,
                       phase, clearLevel, fault>>
    BY <1>2 DEF ClearOne, Listed
  <2>2. /\ o \in OrderIds /\ clearLevel \in Levels /\ o \in Created
        /\ o \in ToSet(book[phase][clearLevel])
    BY <2>1, RestingOrders DEF IInv, TypeOK, Iterators
  <2>3. /\ book' \in [Sides -> [Levels -> Seq(OrderIds)]]
        /\ BookSound' /\ Resting' = Resting \ {o}
    <3>1. \A p \in Resting : remaining'[p] > 0
      BY <2>1, RestingOrders DEF IInv
    <3> QED
      BY <2>1, <3>1, BookShrinks DEF IInv
  <2>4. /\ emitted' \in [OrderIds -> Nat] /\ announced' \in [OrderIds -> Statuses]
        /\ lost' \subseteq OrderIds /\ lost \subseteq lost'
        /\ \A p \in OrderIds : p \notin lost' => emitted'[p] = emitted[p]
        /\ \A p \in OrderIds : p # o => emitted'[p] = emitted[p]
    <3>1. emitted[o] + 0 = emitted[o]
      BY <2>2 DEF IInv, TypeOK
    <3> QED
      BY <2>1, <2>2, <3>1, EmitProperties DEF IInv, Statuses
  <2>5. status' \in [OrderIds -> Statuses] /\ Created' = Created
    BY <2>1, <2>2 DEF IInv, TypeOK, Statuses, Created
  <2>6. /\ clearIt' \in OrderIds \cup {NoOrder}
        /\ clearIt' # NoOrder
              => /\ clearIt' \in Created
                 /\ order[clearIt'].side = phase /\ LimitLevel(clearIt') = clearLevel
    BY <2>1, <2>2, ListType
  <2> HIDE DEF o
  <2>7. TypeOK'
    BY <2>1, <2>3, <2>4, <2>5, <2>6 DEF IInv, TypeOK
  <2>8. Control'
    BY <2>1 DEF IInv, Control
  <2>9. Provenance'
    BY <2>1, <2>2, <2>3, <2>4, <2>5 DEF IInv, Provenance
  <2>10. Iterators'
    BY <2>1, <2>5, <2>6 DEF IInv, Iterators, LimitLevel, RestSide, AggSide
  <2>11. LookupMatchesBook' /\ OwnedOnce'
    BY <2>1, <2>3, ControlPoints DEF IInv, LookupMatchesBook, OwnedOnce
  <2>12. QtyAccounting'
    BY <2>1, <2>4 DEF IInv, QtyAccounting
  <2> QED
    BY <2>3, <2>7, <2>8, <2>9, <2>10, <2>11, <2>12 DEF IInv
<1> QED
  BY <1>1, <1>2

-----------------------------------------------------------------------------
(* Steps of the matching thread *)

LEMMA Aggressor ==
  ASSUME IInv, agg # NoOrder
  PROVE  /\ agg \in OrderIds /\ agg \in Created /\ agg \notin Resting
         /\ order[agg] \in Requests /\ AggSide \in Sides /\ RestSide \in Sides
         /\ remaining[agg] \in Nat /\ status[agg] \in Statuses
<1>1. agg \in OrderIds /\ agg \in Created /\ order[agg] \in Requests
  BY DEF IInv, TypeOK, Provenance
<1>2. agg \notin Resting
  <2>1. \A p \in Resting : agg > p
    BY DEF IInv, OwnedOnce
  <2>2. ~(agg > agg)
    BY <1>1, OrderIdsAreInts
  <2> QED
    BY <2>1, <2>2
<1>3. AggSide \in Sides
  BY <1>1, RequestFields DEF AggSide
<1>4. RestSide \in Sides
  BY <1>3, ControlPoints DEF RestSide, Opposite
<1>5. remaining[agg] \in Nat /\ status[agg] \in Statuses
  BY <1>1 DEF IInv, TypeOK
<1> QED
  BY <1>1, <1>2, <1>3, <1>4, <1>5

LEMMA EnterLevelKeeps ==
  ASSUME IInv, EnterLevel
  PROVE  IInv'
<1> USE DEF heapVars, bookVars, sweepVars, clearVars, eventVars
<1>1. /\ pc["matcher"] = "sweep" /\ LevelsToSweep # {}
      /\ level' = Top(RestSide, LevelsToSweep) /\ it' = Head(book[RestSide][level'])
      /\ pc' = [pc EXCEPT !["matcher"] = "level"]
      /\ UNCHANGED <<heapVars, ordersQueue, bookVars, seen, agg, traded, clearVars, eventVars, fault>>
  BY DEF EnterLevel
<1>2. agg # NoOrder
  BY <1>1 DEF IInv, Control
<1>3. level' \in Levels /\ book[RestSide][level'] # <<>>
  <2>1. LevelsToSweep \in SUBSET Levels /\ LevelsToSweep \in SUBSET NonEmptyLevels(RestSide)
    BY DEF LevelsToSweep, NonEmptyLevels
  <2>2. level' \in LevelsToSweep
    BY <1>1, <1>2, <2>1, Aggressor, TopProperties
  <2> QED
    BY <2>1, <2>2 DEF NonEmptyLevels
<1>4. it' \in ToSet(book[RestSide][level'])
  BY <1>1, <1>2, <1>3, Aggressor, ListType, TailProperties, OrderIdsAreInts
<1>5. it' \in OrderIds /\ it' \in Created /\ order[it'].side = RestSide /\ LimitLevel(it') = level'
  BY <1>2, <1>3, <1>4, Aggressor, ListType
<1>6. level' \in -1 .. (MaxLevel + 1)
  BY <1>3, SizesAssumption DEF Levels
<1>7. TypeOK'
  BY <1>1, <1>5, <1>6, ControlPoints DEF IInv, TypeOK
<1>8. Control'
  BY <1>1, <1>2, <1>3, ControlPoints DEF IInv, TypeOK, Control
<1>9. Iterators'
  BY <1>1, <1>5 DEF IInv, Iterators, Created, LimitLevel, RestSide, AggSide
<1> QED
  BY <1>1, <1>7, <1>8, <1>9, Frame DEF IInv

LEMMA SkipOwnKeeps ==
  ASSUME IInv, SkipOwn
  PROVE  IInv'
<1> USE DEF heapVars, bookVars, sweepVars, clearVars, eventVars
<1>1. /\ pc["matcher"] = "level" /\ it # NoOrder /\ it \in Resting
      /\ it' = Successor(book[RestSide][level], it)
      /\ UNCHANGED <<heapVars, ordersQueue, bookVars, pc, seen, agg, level, traded,
                     clearVars, eventVars, fault>>
  BY DEF SkipOwn, Listed
<1>2. agg # NoOrder /\ level \in Levels
  BY <1>1 DEF IInv, Control
<1>3. it \in ToSet(book[RestSide][level])
  BY <1>1, RestingOrders DEF IInv, Iterators
<1>4. \/ it' = NoOrder
      \/ it' \in OrderIds /\ it' \in Created /\ order[it'].side = RestSide /\ LimitLevel(it') = level
  BY <1>1, <1>2, <1>3, Aggressor, ListType
<1>5. TypeOK'
  BY <1>1, <1>4 DEF IInv, TypeOK
<1>6. Control'
  BY <1>1 DEF IInv, Control
<1>7. Iterators'
  BY <1>1, <1>4 DEF IInv, Iterators, Created, LimitLevel, RestSide, AggSide
<1> QED
  BY <1>1, <1>5, <1>6, <1>7, Frame DEF IInv

\* What a finished match leaves behind: no aggressor, nothing left to report.
LEMMA ReturnProperties ==
  ASSUME IInv, Return
  PROVE  /\ pc' = [pc EXCEPT !["matcher"] = "scanBid"] /\ pc'["matcher"] = "scanBid"
         /\ pc'["exchange"] = pc["exchange"]
         /\ agg' = NoOrder /\ level' = 0 /\ it' = NoOrder /\ traded' = 0
         /\ 0 \in -1 .. (MaxLevel + 1)
BY ControlPoints, SizesAssumption DEF Return, IInv, TypeOK

\* Without an aggressor the queue is younger than it all the same.
LEMMA Unowned ==
  ASSUME IInv
  PROVE  \A o \in ToSet(ordersQueue) : o > NoOrder
BY OrderIdsAreInts DEF IInv, Provenance, Created

LEMMA AddOrderKeeps ==
  ASSUME IInv, NEW o \in OrderIds, NEW d \in Requests, AddOrder(o, d)
  PROVE  IInv'
<1> USE DEF heapVars, bookVars, sweepVars, clearVars, eventVars
<1>1. CASE Fail("null_deref")
  BY <1>1, FailKeeps DEF Faults
<1>2. CASE ~Fail("null_deref")
  <2>1. /\ NextId(o)
        /\ order'     = [order EXCEPT ![o] = d]
        /\ remaining' = [remaining EXCEPT ![o] = d.qty]
        /\ status'    = [status EXCEPT ![o] = "Accepted"]
        /\ announced' = [announced EXCEPT ![o] = "Accepted"]
        /\ ordersQueue' = Append(ordersQueue, o)
        /\ UNCHANGED <<bookVars, pc, seen, sweepVars, clearVars, fillEvents, emitted, lost, fault>>
    BY <1>2 DEF AddOrder
  <2>2. /\ o \notin Created /\ \A p \in OrderIds : p < o => p \in Created
        /\ \A p \in Created : p < o
    <3>1. o \notin Created /\ \A p \in OrderIds : p < o => p \in Created
      BY <2>1 DEF NextId, Created
    <3>2. \A p \in Created : p \in OrderIds /\ ~(o < p)
      BY <3>1 DEF IInv, Provenance, Created
    <3>3. \A p \in OrderIds : p \in Int
      BY DEF OrderIds
    <3>4. ASSUME NEW p \in Created PROVE p < o
      <4>1. p \in Int /\ o \in Int /\ p # o /\ ~(o < p)
        BY <3>1, <3>2, <3>3
      <4> QED
        BY <4>1
    <3> QED
      BY <3>1, <3>4
  <2>3. /\ order' \in [OrderIds -> Requests \cup {NoRequest}]
        /\ remaining' \in [OrderIds -> Nat]
        /\ status' \in [OrderIds -> Statuses] /\ announced' \in [OrderIds -> Statuses]
    BY <2>1, RequestFields DEF IInv, TypeOK, Statuses
  <2>4. /\ order'[o] = d /\ remaining'[o] = d.qty
        /\ \A p \in OrderIds : p # o => order'[p] = order[p] /\ remaining'[p] = remaining[p]
    BY <2>1 DEF IInv, TypeOK
  <2>5. Created' = Created \cup {o}
    BY <2>1 DEF IInv, TypeOK, Created
  <2>6. /\ ordersQueue' \in Seq(OrderIds) /\ Increasing(ordersQueue')
        /\ ToSet(ordersQueue') = ToSet(ordersQueue) \cup {o}
    <3>1. \A p \in ToSet(ordersQueue) : p < o
      BY <2>2 DEF IInv, Provenance
    <3>2. ordersQueue' = PushBack(ordersQueue, o)
      BY <2>1 DEF PushBack
    <3>3. ordersQueue \in Seq(OrderIds) /\ Increasing(ordersQueue)
      BY DEF IInv, TypeOK, OwnedOnce
    <3> QED
      BY <3>1, <3>2, <3>3, PushBackProperties, OrderIdsAreInts
  <2>7. BookSound' /\ Resting' = Resting
    <3>1. \A p \in Resting : p \in OrderIds /\ p # o /\ remaining[p] > 0
      BY <2>2, RestingOrders DEF IInv, Provenance
    <3> QED
      BY <2>1, <2>4, <3>1, BookKept DEF IInv
  <2>8. TypeOK'
    BY <2>1, <2>3, <2>6 DEF IInv, TypeOK
  <2>9. Control'
    BY <2>1 DEF IInv, Control
  <2>10. Provenance'
    <3>1. \A c \in Created' : order'[c] \in Requests
      BY <2>4, <2>5 DEF IInv, Provenance, Created
    <3>2. \A c \in Created', p \in OrderIds : p < c => p \in Created'
      BY <2>2, <2>5 DEF IInv, Provenance
    <3>3. \A c \in OrderIds \ Created' :
             order'[c] = NoRequest /\ remaining'[c] = 0 /\ emitted'[c] = 0
      BY <2>1, <2>4, <2>5 DEF IInv, Provenance
    <3>4. /\ ToSet(ordersQueue') \subseteq Created' /\ Resting' \subseteq Created'
          /\ agg' # NoOrder => agg' \in Created'
      BY <2>1, <2>5, <2>6, <2>7 DEF IInv, Provenance
    <3> QED
      BY <3>1, <3>2, <3>3, <3>4 DEF Provenance
  <2>11. Iterators'
    <3>1. \A c \in Created : c \in Created' /\ order'[c] = order[c]
      BY <2>2, <2>4, <2>5 DEF Created
    <3> QED
      BY <2>1, <3>1, IteratorsKept
  <2>12. LookupMatchesBook'
    BY <2>1, <2>7 DEF IInv, LookupMatchesBook
  <2>13. OwnedOnce'
    <3>1. o > agg /\ \A p \in Resting : o > p
      BY <2>2, OrderIdsAreInts DEF IInv, Provenance, TypeOK, Created
    <3> QED
      BY <2>1, <2>6, <2>7, <3>1 DEF IInv, OwnedOnce
  <2>14. QtyAccounting'
    <3>1. o # agg /\ emitted[o] = 0 /\ d.qty \in Nat
      BY <2>2, OrderIdsAreInts, RequestFields DEF IInv, Provenance
    <3>2. ASSUME NEW p \in OrderIds \ lost
          PROVE  emitted[p] + (IF p = agg THEN traded ELSE 0) = order'[p].qty - remaining'[p]
      <4>1. CASE p = o
        <5>1. emitted[p] = 0 /\ p # agg /\ order'[p].qty = d.qty /\ remaining'[p] = d.qty
          BY <2>4, <3>1, <4>1
        <5> QED
          BY <3>1, <5>1
      <4>2. CASE p # o
        BY <2>4, <4>2 DEF IInv, QtyAccounting
      <4> QED
        BY <4>1, <4>2
    <3> QED
      BY <2>1, <3>2 DEF QtyAccounting
  <2> QED
    BY <2>7, <2>8, <2>9, <2>10, <2>11, <2>12, <2>13, <2>14 DEF IInv
<1> QED
  BY <1>1, <1>2

LEMMA TakeOrderKeeps ==
  ASSUME IInv, TakeOrder
  PROVE  IInv'
<1> USE DEF heapVars, bookVars, sweepVars, clearVars, eventVars
<1> DEFINE o == Head(ordersQueue)
           side == Opposite(order[o].side)
<1>1. /\ pc["matcher"] = "idle" /\ ordersQueue # <<>>
      /\ ordersQueue' = Tail(ordersQueue)
      /\ UNCHANGED <<heapVars, bookVars, seen, clearVars, eventVars, fault>>
  BY DEF TakeOrder
<1>2. \/ Return
      \/ /\ pc' = [pc EXCEPT !["matcher"] = "sweep"] /\ agg' = o
         /\ level' \in StartLevels(side) /\ UNCHANGED <<it, traded>>
  BY DEF TakeOrder
<1>3. agg = NoOrder /\ traded = 0
  BY <1>1 DEF IInv, Control
<1>4. /\ o \in OrderIds /\ Tail(ordersQueue) \in Seq(OrderIds) /\ Increasing(Tail(ordersQueue))
      /\ o \in ToSet(ordersQueue) /\ ToSet(Tail(ordersQueue)) \subseteq ToSet(ordersQueue)
      /\ \A p \in ToSet(Tail(ordersQueue)) : p > o
  <2>1. ordersQueue \in Seq(OrderIds) /\ Increasing(ordersQueue)
    BY DEF IInv, TypeOK, OwnedOnce
  <2> QED
    BY <1>1, <2>1, TailProperties, OrderIdsAreInts
<1>5. o \in Created /\ side \in Sides
  <2>1. o \in Created /\ order[o] \in Requests
    BY <1>4 DEF IInv, Provenance
  <2> QED
    BY <2>1, RequestFields, ControlPoints DEF Opposite
<1>6. StartLevels(side) \subseteq -1 .. (MaxLevel + 1)
  <2>1. CASE best[side] # NoPrice
    <3>1. PriceToIndex(best[side]) \in Levels
      BY <1>5, <2>1 DEF IInv, Control
    <3> QED
      BY <2>1, <3>1, SizesAssumption DEF StartLevels, Levels
  <2>2. CASE best[side] = NoPrice
    BY <2>2, SizesAssumption DEF StartLevels
  <2> QED
    BY <2>1, <2>2
<1> HIDE DEF o, side
<1>7. /\ pc' = [pc EXCEPT !["matcher"] = pc'["matcher"]]
      /\ pc'["matcher"] \in {"scanBid", "sweep"} /\ pc'["exchange"] = pc["exchange"]
      /\ pc'["matcher"] = "sweep" => agg' = o
      /\ pc'["matcher"] # "sweep" => agg' = NoOrder
      /\ level' \in -1 .. (MaxLevel + 1) /\ it' \in OrderIds \cup {NoOrder} /\ traded' = 0
  <2>1. CASE Return
    BY <2>1, ReturnProperties
  <2>2. CASE ~Return
    BY <1>2, <1>3, <1>6, <2>2, ControlPoints DEF IInv, TypeOK
  <2> QED
    BY <2>1, <2>2
<1>8. agg' = o \/ agg' = NoOrder
  BY <1>7
<1>9. BookSound' /\ Resting' = Resting
  <2>1. \A p \in Resting : remaining[p] > 0
    BY RestingOrders DEF IInv
  <2> QED
    BY <1>1, <2>1, BookKept DEF IInv
<1>10. TypeOK'
  BY <1>1, <1>4, <1>7, <1>8, ControlPoints DEF IInv, TypeOK
<1>11. Control'
  BY <1>1, <1>4, <1>7, OrderIdsAreInts, ControlPoints DEF IInv, Control
<1>12. Provenance'
  BY <1>1, <1>4, <1>5, <1>8, <1>9 DEF IInv, Provenance, Created
<1>13. Iterators'
  BY <1>1, <1>7, IteratorsKept DEF Created
<1>14. LookupMatchesBook'
  BY <1>1, <1>9 DEF IInv, LookupMatchesBook
<1>15. OwnedOnce'
  <2>1. \A p \in Resting : o > p
    BY <1>4 DEF IInv, OwnedOnce
  <2>2. ASSUME NEW q \in ToSet(ordersQueue')
        PROVE  q > agg' /\ \A p \in Resting : q > p
    <3>1. q \in ToSet(ordersQueue) /\ q > o
      BY <1>1, <1>4
    <3>2. q \in OrderIds
      BY <3>1 DEF IInv, Provenance, Created
    <3>3. q > NoOrder /\ \A p \in Resting : q > p
      BY <3>1, <3>2, OrderIdsAreInts DEF IInv, OwnedOnce
    <3> QED
      BY <1>8, <3>1, <3>3
  <2> QED
    BY <1>1, <1>4, <1>8, <1>9, <2>1, <2>2 DEF OwnedOnce
<1>16. QtyAccounting'
  BY <1>1, <1>3, <1>7 DEF IInv, QtyAccounting
<1> QED
  BY <1>9, <1>10, <1>11, <1>12, <1>13, <1>14, <1>15, <1>16 DEF IInv

\* The aggressor, filled, reports what it traded at the level.
LEMMA ReportFilledKeeps ==
  ASSUME IInv, ReportFilled
  PROVE  IInv'
<1> USE DEF heapVars, bookVars, sweepVars, clearVars, eventVars
<1>1. /\ pc["matcher"] = "filled" /\ Return
      /\ Emit(agg, IndexToPrice(level), traded, remaining[agg], status[agg],
              order[agg].qty # remaining[agg])
      /\ UNCHANGED <<heapVars, ordersQueue, bookVars, seen, clearVars, fault>>
  BY DEF ReportFilled
<1>2. agg # NoOrder /\ traded \in Nat
  BY <1>1 DEF IInv, Control, TypeOK
<1>3. /\ emitted' \in [OrderIds -> Nat] /\ announced' \in [OrderIds -> Statuses]
      /\ lost' \subseteq OrderIds /\ lost \subseteq lost'
      /\ \A p \in OrderIds : p # agg => emitted'[p] = emitted[p]
      /\ agg \notin lost' => emitted'[agg] = emitted[agg] + traded
  BY <1>1, <1>2, Aggressor, EmitProperties DEF IInv
<1>4. BookSound' /\ Resting' = Resting
  <2>1. \A p \in Resting : remaining[p] > 0
    BY RestingOrders DEF IInv
  <2> QED
    BY <1>1, <2>1, BookKept DEF IInv
<1>r. /\ pc' = [pc EXCEPT !["matcher"] = "scanBid"] /\ pc'["matcher"] = "scanBid"
      /\ pc'["exchange"] = pc["exchange"]
      /\ agg' = NoOrder /\ level' = 0 /\ it' = NoOrder /\ traded' = 0
      /\ 0 \in -1 .. (MaxLevel + 1)
  BY <1>1, ReturnProperties
<1>5. TypeOK'
  BY <1>1, <1>3, <1>r, ControlPoints DEF IInv, TypeOK
<1>6. Control'
  BY <1>1, <1>r, ControlPoints DEF IInv, Control
<1>7. Provenance'
  BY <1>1, <1>2, <1>3, <1>4, <1>r, Aggressor DEF IInv, Provenance, Created
<1>8. Iterators'
  BY <1>1, <1>r, IteratorsKept DEF Created
<1>9. LookupMatchesBook'
  BY <1>1, <1>4 DEF IInv, LookupMatchesBook
<1>10. OwnedOnce'
  BY <1>1, <1>4, <1>r, Unowned DEF IInv, OwnedOnce
<1>11. QtyAccounting'
  <2>1. ASSUME NEW p \in OrderIds \ lost'
        PROVE  emitted'[p] + 0 = order[p].qty - remaining[p]
    <3>1. p \notin lost /\ emitted[p] + (IF p = agg THEN traded ELSE 0) = order[p].qty - remaining[p]
      BY <1>3 DEF IInv, QtyAccounting
    <3>2. CASE p = agg
      BY <1>2, <1>3, <3>1, <3>2 DEF IInv, TypeOK
    <3>3. CASE p # agg
      BY <1>3, <3>1, <3>3
    <3> QED
      BY <3>2, <3>3
  <2> QED
    BY <1>1, <1>r, <2>1 DEF QtyAccounting
<1> QED
  BY <1>4, <1>5, <1>6, <1>7, <1>8, <1>9, <1>10, <1>11 DEF IInv

\* The end of a level: a partial fill is reported before the sweep goes on.
LEMMA LeaveLevelKeeps ==
  ASSUME IInv, LeaveLevel
  PROVE  IInv'
<1> USE DEF heapVars, bookVars, sweepVars, clearVars, eventVars
<1>1. CASE Fail("assert")
  BY <1>1, FailKeeps DEF Faults
<1>2. CASE ~Fail("assert")
  <2>1. /\ pc["matcher"] = "level" /\ it = NoOrder
        /\ IF traded > 0
           THEN Emit(agg, IndexToPrice(level), traded, remaining[agg], status[agg], TRUE)
           ELSE UNCHANGED eventVars
        /\ traded' = 0 /\ level' = Worse(RestSide, level)
        /\ pc' = [pc EXCEPT !["matcher"] = "sweep"]
        /\ UNCHANGED <<heapVars, ordersQueue, bookVars, seen, agg, it, clearVars, fault>>
    BY <1>2 DEF LeaveLevel
  <2>2. agg # NoOrder /\ traded \in Nat /\ level \in Levels
    BY <2>1 DEF IInv, Control, TypeOK
  <2>3. /\ emitted' \in [OrderIds -> Nat] /\ announced' \in [OrderIds -> Statuses]
        /\ lost' \subseteq OrderIds /\ lost \subseteq lost'
        /\ \A p \in OrderIds : p # agg => emitted'[p] = emitted[p]
        /\ agg \notin lost' => emitted'[agg] = emitted[agg] + traded
    <3>1. CASE traded > 0
      BY <2>1, <2>2, <3>1, Aggressor, EmitProperties DEF IInv
    <3>2. CASE ~(traded > 0)
      <4>1. UNCHANGED <<emitted, announced, lost>> /\ traded = 0
        BY <2>1, <2>2, <3>2
      <4>2. emitted[agg] \in Nat
        BY <2>2, Aggressor DEF IInv, TypeOK
      <4> QED
        BY <4>1, <4>2 DEF IInv, TypeOK
    <3> QED
      BY <3>1, <3>2
  <2>4. BookSound' /\ Resting' = Resting
    <3>1. \A p \in Resting : remaining[p] > 0
      BY RestingOrders DEF IInv
    <3> QED
      BY <2>1, <3>1, BookKept DEF IInv
  <2>5. level' \in -1 .. (MaxLevel + 1)
    BY <2>1, <2>2, SizesAssumption DEF Worse, Levels
  <2>6. TypeOK'
    BY <2>1, <2>3, <2>5, ControlPoints DEF IInv, TypeOK
  <2>7. Control'
    BY <2>1, <2>2, ControlPoints DEF IInv, Control, TypeOK
  <2>8. Provenance'
    BY <2>1, <2>2, <2>3, <2>4, Aggressor DEF IInv, Provenance, Created
  <2>9. Iterators'
    BY <2>1, ControlPoints, IteratorsKept DEF Created, IInv, TypeOK
  <2>10. LookupMatchesBook'
    BY <2>1, <2>4 DEF IInv, LookupMatchesBook
  <2>11. OwnedOnce'
    BY <2>1, <2>4 DEF IInv, OwnedOnce
  <2>12. QtyAccounting'
    <3>1. ASSUME NEW p \in OrderIds \ lost'
          PROVE  emitted'[p] + 0 = order[p].qty - remaining[p]
      <4>1. /\ p \notin lost
            /\ emitted[p] + (IF p = agg THEN traded ELSE 0) = order[p].qty - remaining[p]
        BY <2>3 DEF IInv, QtyAccounting
      <4>2. CASE p = agg
        BY <2>2, <2>3, <4>1, <4>2 DEF IInv, TypeOK
      <4>3. CASE p # agg
        BY <2>3, <4>1, <4>3
      <4> QED
        BY <4>2, <4>3
    <3> QED
      BY <2>1, <3>1 DEF QtyAccounting
  <2> QED
    BY <2>4, <2>6, <2>7, <2>8, <2>9, <2>10, <2>11, <2>12 DEF IInv
<1> QED
  BY <1>1, <1>2

\* The end of a market order's match.
LEMMA EndMarketKeeps ==
  ASSUME IInv, EndMarket
  PROVE  IInv'
<1> USE DEF heapVars, bookVars, sweepVars, clearVars, eventVars
<1>1. /\ pc["matcher"] = "sweep" /\ Return
      /\ UNCHANGED <<order, remaining, ordersQueue, bookVars, seen, clearVars, fault>>
  BY DEF EndMarket, SweepOver
<1>2. \/ /\ status' = [status EXCEPT ![agg] = "Unfilled"]
         /\ Emit(agg, 0, 0, remaining[agg], "Unfilled", TRUE)
      \/ UNCHANGED <<status, eventVars>>
  BY DEF EndMarket
<1>3. agg # NoOrder /\ traded = 0
  BY <1>1 DEF IInv, Control
<1>4. /\ emitted' \in [OrderIds -> Nat] /\ announced' \in [OrderIds -> Statuses]
      /\ lost' \subseteq OrderIds /\ lost \subseteq lost'
      /\ \A p \in OrderIds : p \notin lost' => emitted'[p] = emitted[p]
      /\ \A p \in OrderIds : p # agg => emitted'[p] = emitted[p]
  <2>1. emitted[agg] + 0 = emitted[agg]
    BY <1>3, Aggressor DEF IInv, TypeOK
  <2>2. CASE Emit(agg, 0, 0, remaining[agg], "Unfilled", TRUE)
    BY <1>3, <2>1, <2>2, Aggressor, EmitProperties DEF IInv, Statuses
  <2>3. CASE UNCHANGED <<status, eventVars>>
    BY <2>3 DEF IInv, TypeOK
  <2> QED
    BY <1>2, <2>2, <2>3
<1>5. status' \in [OrderIds -> Statuses] /\ Created' = Created
  <2>1. agg \in Created /\ agg \in OrderIds
    BY <1>3, Aggressor
  <2> QED
    BY <1>2, <2>1 DEF IInv, TypeOK, Statuses, Created
<1>6. BookSound' /\ Resting' = Resting
  <2>1. \A p \in Resting : remaining[p] > 0
    BY RestingOrders DEF IInv
  <2> QED
    BY <1>1, <2>1, BookKept DEF IInv
<1>r. /\ pc' = [pc EXCEPT !["matcher"] = "scanBid"] /\ pc'["matcher"] = "scanBid"
      /\ pc'["exchange"] = pc["exchange"]
      /\ agg' = NoOrder /\ level' = 0 /\ it' = NoOrder /\ traded' = 0
      /\ 0 \in -1 .. (MaxLevel + 1)
  BY <1>1, ReturnProperties
<1>7. TypeOK'
  BY <1>1, <1>4, <1>5, <1>r, ControlPoints DEF IInv, TypeOK
<1>8. Control'
  BY <1>1, <1>r, ControlPoints DEF IInv, Control
<1>9. Provenance'
  <2>1. agg \in Created
    BY <1>3, Aggressor
  <2> QED
    BY <1>1, <1>4, <1>5, <1>6, <1>r, <2>1 DEF IInv, Provenance
<1>10. Iterators'
  BY <1>1, <1>5, <1>r, IteratorsKept
<1>11. LookupMatchesBook'
  BY <1>1, <1>6 DEF IInv, LookupMatchesBook
<1>12. OwnedOnce'
  BY <1>1, <1>6, <1>r, Unowned DEF IInv, OwnedOnce
<1>13. QtyAccounting'
  BY <1>1, <1>3, <1>4, <1>r DEF IInv, QtyAccounting
<1> QED
  BY <1>6, <1>7, <1>8, <1>9, <1>10, <1>11, <1>12, <1>13 DEF IInv

\* What is left of a limit order starts to rest.
LEMMA EndLimitKeeps ==
  ASSUME IInv, EndLimit
  PROVE  IInv'
<1> USE DEF heapVars, bookVars, sweepVars, clearVars, eventVars
<1>1. CASE Fail("assert")
  BY <1>1, FailKeeps DEF Faults
<1>2. CASE ~Fail("assert")
  <2>1. /\ pc["matcher"] = "sweep" /\ ~IsMarket(agg) /\ remaining[agg] > 0
        /\ book' = BookWith(agg) /\ lookup' = lookup \cup {agg} /\ Return
        /\ UNCHANGED <<heapVars, ordersQueue, best, seen, clearVars, eventVars, fault>>
    BY <1>2 DEF EndLimit, SweepOver
  <2>2. agg # NoOrder /\ traded = 0
    BY <2>1 DEF IInv, Control
  <2>3. agg \in OrderIds /\ agg \in Created /\ order[agg] \in Requests
    BY <2>2, Aggressor
  <2>4. /\ book' \in [Sides -> [Levels -> Seq(OrderIds)]]
        /\ BookSound' /\ Resting' = Resting \cup {agg}
    <3>1. \A p \in Resting : p \in OrderIds /\ agg > p
      BY <2>2, RestingOrders DEF IInv, OwnedOnce
    <3>2. \A p \in Resting : p < agg
      BY <2>3, <3>1, OrderIdsAreInts
    <3> QED
      BY <2>1, <2>3, <3>2, BookGrows DEF IInv
  <2>r. /\ pc' = [pc EXCEPT !["matcher"] = "scanBid"] /\ pc'["matcher"] = "scanBid"
        /\ pc'["exchange"] = pc["exchange"]
        /\ agg' = NoOrder /\ level' = 0 /\ it' = NoOrder /\ traded' = 0
        /\ 0 \in -1 .. (MaxLevel + 1)
    BY <2>1, ReturnProperties
  <2>5. TypeOK'
    BY <2>1, <2>3, <2>4, <2>r, ControlPoints DEF IInv, TypeOK
  <2>6. Control'
    BY <2>1, <2>r, ControlPoints DEF IInv, Control
  <2>7. Provenance'
    BY <2>1, <2>3, <2>4, <2>r DEF IInv, Provenance, Created
  <2>8. Iterators'
    BY <2>1, <2>r, IteratorsKept DEF Created
  <2>9. LookupMatchesBook'
    BY <2>1, <2>4 DEF IInv, LookupMatchesBook
  <2>10. OwnedOnce'
    <3>1. \A o \in ToSet(ordersQueue) : o > agg
      BY DEF IInv, OwnedOnce
    <3> QED
      BY <2>1, <2>4, <2>r, <3>1, Unowned DEF IInv, OwnedOnce
  <2>11. QtyAccounting'
    BY <2>1, <2>2, <2>r DEF IInv, QtyAccounting
  <2> QED
    BY <2>4, <2>5, <2>6, <2>7, <2>8, <2>9, <2>10, <2>11 DEF IInv
<1> QED
  BY <1>1, <1>2

\* A trade: quantity off both orders, the resting one's event, and its removal
\* from the book when nothing of it is left.
LEMMA FillOneKeeps ==
  ASSUME IInv, FillOne
  PROVE  IInv'
<1> USE DEF heapVars, bookVars, sweepVars, clearVars, eventVars
<1> DEFINE q == FillQty
<1>1. CASE Fail("assert")
  BY <1>1, FailKeeps DEF Faults
<1>2. CASE ~Fail("assert")
  <2>1. /\ pc["matcher"] = "level" /\ it # NoOrder /\ it \in Resting /\ q > 0
        /\ traded' = traded + q
        /\ remaining' = AfterTrade(q)
        /\ status' = [status EXCEPT ![it] = StatusAfter(remaining'[it]),
                                    ![agg] = StatusAfter(remaining'[agg])]
        /\ Emit(it, IndexToPrice(level), q, remaining'[it], status'[it],
                RestingStatusChanged(status[it], status'[it]))
        /\ it' = Successor(book[RestSide][level], it)
        /\ IF remaining'[it] = 0
           THEN book' = BookWithout(it) /\ Forget(it)
           ELSE UNCHANGED <<book, lookup>>
        /\ pc' = IF remaining'[agg] = 0 THEN [pc EXCEPT !["matcher"] = "filled"] ELSE pc
        /\ UNCHANGED <<order, ordersQueue, best, seen, agg, level, clearVars, fault>>
    BY <1>2 DEF FillOne, Listed
  <2>2. agg # NoOrder /\ level \in Levels /\ traded \in Nat
    BY <2>1 DEF IInv, Control, TypeOK
  <2>3. /\ agg \in OrderIds /\ agg \in Created /\ agg \notin Resting /\ RestSide \in Sides
        /\ it \in OrderIds /\ it \in Created /\ it # agg
        /\ it \in ToSet(book[RestSide][level])
    BY <2>1, <2>2, Aggressor, RestingOrders DEF IInv, Iterators, Provenance
  <2>4. /\ q \in Nat /\ q <= remaining[it] /\ q <= remaining[agg]
        /\ remaining[it] \in Nat /\ remaining[agg] \in Nat
    BY <2>3 DEF IInv, TypeOK, FillQty
  <2> HIDE DEF q
  <2>5. /\ remaining' = [remaining EXCEPT ![it] = remaining[it] - q, ![agg] = remaining[agg] - q]
        /\ remaining' \in [OrderIds -> Nat]
        /\ remaining'[it] = remaining[it] - q /\ remaining'[agg] = remaining[agg] - q
        /\ \A p \in OrderIds : p # it /\ p # agg => remaining'[p] = remaining[p]
    <3>1. remaining \in [OrderIds -> Nat]
      BY DEF IInv, TypeOK
    <3>2. remaining' = [remaining EXCEPT ![it] = remaining[it] - q, ![agg] = remaining[agg] - q]
      BY <2>1, <2>3, <3>1 DEF AfterTrade
    <3>3. remaining[it] - q \in Nat /\ remaining[agg] - q \in Nat
      BY <2>4
    <3> QED
      BY <2>3, <3>1, <3>2, <3>3
  <2>6. status' \in [OrderIds -> Statuses] /\ Created' = Created /\ status'[it] \in Statuses
    <3>1. status \in [OrderIds -> Statuses]
      BY DEF IInv, TypeOK
    <3>2. \A left : StatusAfter(left) \in Statuses /\ StatusAfter(left) # "none"
      BY DEF StatusAfter, Statuses
    <3>3. status' = [status EXCEPT ![it] = StatusAfter(remaining'[it]),
                                   ![agg] = StatusAfter(remaining'[agg])]
      BY <2>1
    <3> QED
      BY <2>3, <3>1, <3>2, <3>3 DEF Created
  <2>7. /\ emitted' \in [OrderIds -> Nat] /\ announced' \in [OrderIds -> Statuses]
        /\ lost' \subseteq OrderIds /\ lost \subseteq lost'
        /\ \A p \in OrderIds : p # it => emitted'[p] = emitted[p]
        /\ it \notin lost' => emitted'[it] = emitted[it] + q
    BY <2>1, <2>3, <2>4, <2>6, EmitProperties DEF IInv
  <2>8. \A p \in Resting : p # it => remaining'[p] > 0
    BY <2>3, <2>5, RestingOrders DEF IInv
  <2>9. /\ book' \in [Sides -> [Levels -> Seq(OrderIds)]] /\ lookup' \subseteq OrderIds
        /\ BookSound' /\ Resting' \subseteq Resting
        /\ LookupMatchesBook'
    <3>1. CASE remaining'[it] = 0
      <4>1. book' = BookWithout(it) /\ lookup' = lookup \ {it}
        BY <2>1, <3>1 DEF Forget
      <4>2. /\ book' \in [Sides -> [Levels -> Seq(OrderIds)]]
            /\ BookSound' /\ Resting' = Resting \ {it}
        BY <2>1, <2>8, <4>1, BookShrinks DEF IInv
      <4>3. lookup \subseteq OrderIds
        BY DEF IInv, TypeOK
      <4> QED
        BY <2>1, <4>1, <4>2, <4>3 DEF IInv, LookupMatchesBook
    <3>2. CASE remaining'[it] # 0
      <4>1. book' = book /\ lookup' = lookup
        BY <2>1, <3>2
      <4>2. remaining'[it] > 0
        BY <2>3, <2>5, <3>2
      <4>3. BookSound' /\ Resting' = Resting
        BY <2>1, <2>8, <4>1, <4>2, BookKept DEF IInv
      <4> QED
        BY <2>1, <4>1, <4>3 DEF IInv, LookupMatchesBook, TypeOK
    <3> QED
      BY <3>1, <3>2
  <2>10. \/ it' = NoOrder
         \/ it' \in OrderIds /\ it' \in Created /\ order[it'].side = RestSide /\ LimitLevel(it') = level
    BY <2>1, <2>2, <2>3, ListType
  <2>11. /\ pc'["matcher"] \in {"level", "filled"} /\ pc'["exchange"] = pc["exchange"]
         /\ pc' \in [Threads -> UpdateSteps \cup {"idle", "sweep", "level", "filled", "stopped"}]
    BY <2>1, ControlPoints DEF IInv, TypeOK
  <2>12. TypeOK'
    <3>1. traded' \in Nat
      BY <2>1, <2>2, <2>4
    <3> QED
      BY <2>1, <2>5, <2>6, <2>7, <2>9, <2>10, <2>11, <3>1 DEF IInv, TypeOK
  <2>13. Control'
    BY <2>1, <2>2, <2>11 DEF IInv, Control
  <2>14. Provenance'
    BY <2>1, <2>3, <2>5, <2>6, <2>7, <2>9 DEF IInv, Provenance
  <2>15. Iterators'
    BY <2>1, <2>6, <2>10 DEF IInv, Iterators, LimitLevel, RestSide, AggSide
  <2>16. OwnedOnce'
    BY <2>1, <2>9 DEF IInv, OwnedOnce
  <2>17. QtyAccounting'
    <3>1. ASSUME NEW p \in OrderIds \ lost'
          PROVE  emitted'[p] + (IF p = agg THEN traded' ELSE 0) = order[p].qty - remaining'[p]
      <4>1. /\ p \notin lost
            /\ emitted[p] + (IF p = agg THEN traded ELSE 0) = order[p].qty - remaining[p]
        BY <2>7 DEF IInv, QtyAccounting
      <4>2. /\ emitted[p] \in Nat /\ remaining[p] \in Nat /\ traded' = traded + q
            /\ order[p].qty \in Nat
        <5>1. order[p].qty \in Nat
          BY RequestFields DEF IInv, TypeOK, NoRequest
        <5> QED
          BY <2>1, <5>1 DEF IInv, TypeOK
      <4>3. CASE p = it
        BY <2>3, <2>4, <2>5, <2>7, <4>1, <4>2, <4>3
      <4>4. CASE p = agg
        BY <2>2, <2>3, <2>4, <2>5, <2>7, <4>1, <4>2, <4>4
      <4>5. CASE p # it /\ p # agg
        BY <2>5, <2>7, <4>1, <4>5
      <4> QED
        BY <4>3, <4>4, <4>5
    <3> QED
      BY <2>1, <3>1 DEF QtyAccounting
  <2> QED
    BY <2>9, <2>12, <2>13, <2>14, <2>15, <2>16, <2>17 DEF IInv
<1> QED
  BY <1>1, <1>2

LEMMA DanglingKeeps ==
  ASSUME IInv, Dangling
  PROVE  IInv'
BY FailKeeps DEF Dangling, Faults

-----------------------------------------------------------------------------
(* The theorems *)

LEMMA InitEstablishes ==
  ASSUME Init
  PROVE  IInv
<1> USE DEF Init
<1>1. /\ \A side \in Sides, l \in Levels : book[side][l] = <<>>
      /\ ToSet(<<>>) = {}
  BY DEF ToSet
<1>2. Resting = {}
  BY <1>1, RestingMember
<1>3. Created = {}
  BY DEF Created
<1>4. TypeOK
  <2>1. NoRequest \in Requests \cup {NoRequest} /\ 0 \in -1 .. (MaxLevel + 1) /\ 0 \in Levels
    BY SizesAssumption DEF Levels
  <2>2. book \in [Sides -> [Levels -> Seq(OrderIds)]]
    OBVIOUS
  <2> QED
    BY <2>1, <2>2 DEF TypeOK, Statuses, Phases, Faults
<1>5. Control
  BY ControlPoints DEF Control
<1>6. Provenance
  BY <1>1, <1>2, <1>3 DEF Provenance
<1>7. Iterators
  BY ControlPoints DEF Iterators
<1>8. BookSound
  BY <1>1 DEF BookSound, Increasing
<1>9. LookupMatchesBook
  BY <1>2 DEF LookupMatchesBook
<1>10. OwnedOnce
  BY <1>1, <1>2 DEF OwnedOnce, Increasing
<1>11. QtyAccounting
  BY DEF QtyAccounting, NoRequest
<1> QED
  BY <1>4, <1>5, <1>6, <1>7, <1>8, <1>9, <1>10, <1>11 DEF IInv

\* Every action of every thread keeps the invariant, in any interleaving.
LEMMA NextKeeps ==
  ASSUME IInv, [Next]_vars
  PROVE  IInv'
<1>1. CASE MatchingThread
  <2>1. CASE TakeOrder
    BY <2>1, TakeOrderKeeps
  <2>2. CASE EnterLevel
    BY <2>2, EnterLevelKeeps
  <2>3. CASE SkipOwn
    BY <2>3, SkipOwnKeeps
  <2>4. CASE FillOne
    BY <2>4, FillOneKeeps
  <2>5. CASE Dangling
    BY <2>5, DanglingKeeps
  <2>6. CASE ReportFilled
    BY <2>6, ReportFilledKeeps
  <2>7. CASE LeaveLevel
    BY <2>7, LeaveLevelKeeps
  <2>8. CASE EndMarket
    BY <2>8, EndMarketKeeps
  <2>9. CASE EndLimit
    BY <2>9, EndLimitKeeps
  <2>10. CASE Update("matcher")
    BY <2>10, ScanKeeps, StoreKeeps, ControlPoints DEF Update
  <2>11. CASE StopMatching
    BY <2>11, StopKeeps
  <2> QED
    BY <1>1, <2>1, <2>2, <2>3, <2>4, <2>5, <2>6, <2>7, <2>8, <2>9, <2>10, <2>11
       DEF MatchingThread, Sweep
<1>2. CASE MessageThread
  <2>1. CASE \E o \in OrderIds, d \in Requests : AddOrder(o, d)
    BY <2>1, AddOrderKeeps
  <2>2. CASE \E o \in OrderIds : CancelOrder(o)
    BY <2>2, CancelKeeps
  <2>3. CASE Update("exchange")
    BY <2>3, ScanKeeps, StoreKeeps, ControlPoints DEF Update
  <2> QED
    BY <1>2, <2>1, <2>2, <2>3 DEF MessageThread
<1>3. CASE Destructor
  BY <1>3, DestructorKeeps, ClearOneKeeps DEF Destructor
<1>4. CASE FillThread
  BY <1>4, TakeEventKeeps DEF FillThread
<1>5. CASE UNCHANGED vars
  BY <1>5, StutterKeeps
<1> QED
  BY <1>1, <1>2, <1>3, <1>4, <1>5 DEF Next

\* The invariant the theorems below are parts of holds in every reachable state,
\* whatever the interleaving of a match with CancelOrder and ClearBook.
THEOREM EngineInvariant == Spec => []IInv
<1>1. Init => IInv
  BY InitEstablishes
<1>2. IInv /\ [Next]_vars => IInv'
  BY NextKeeps
<1> QED
  BY <1>1, <1>2, PTL DEF Spec

\* Every variable of the engine keeps its type; in particular the sweep's level
\* never leaves the price vectors by more than the one step that ends the sweep.
THEOREM EngineTypeCorrect == Spec => []TypeOK
<1>1. IInv => TypeOK
  BY DEF IInv
<1> QED
  BY <1>1, EngineInvariant, PTL

\* The order book stays sound: each list of a level is in time order, without
\* repetition, and holds live limit orders of that side and price.
THEOREM EngineBookSound == Spec => []BookSound
<1>1. IInv => BookSound
  BY DEF IInv
<1> QED
  BY <1>1, EngineInvariant, PTL

\* orderIteratorLookupMap_ holds exactly the orders that rest while the engine is
\* open: no cancel reaches an order that has gone, none misses one that rests.
THEOREM EngineLookupMatchesBook == Spec => []LookupMatchesBook
<1>1. IInv => LookupMatchesBook
  BY DEF IInv
<1> QED
  BY <1>1, EngineInvariant, PTL

\* No order is in two of the queue, the match and the book.
THEOREM EngineOwnedOnce == Spec => []OwnedOnce
<1>1. IInv => OwnedOnce
  BY DEF IInv
<1> QED
  BY <1>1, EngineInvariant, PTL

\* The fill events of an order account for every unit it has traded.
THEOREM EngineQtyAccounting == Spec => []QtyAccounting
<1>1. IInv => QtyAccounting
  BY DEF IInv
<1> QED
  BY <1>1, EngineInvariant, PTL

-----------------------------------------------------------------------------
(* The status of an order against its quantities and against its events *)

\* status_ says how much of an order is left.
StatusFits(o) ==
    /\ status[o] \in {"Accepted", "Unfilled"} => remaining[o] = order[o].qty
    /\ status[o] = "PartiallyFilled" => 0 < remaining[o] /\ remaining[o] < order[o].qty
    /\ status[o] = "Filled" => 0 = remaining[o] /\ 0 < order[o].qty
    /\ status[o] = "Done" => 0 < remaining[o] /\ remaining[o] <= order[o].qty

\* Which statuses an order can have where it is.
StatusOfOwned ==
    /\ \A o \in Created : StatusFits(o)
    /\ \A o \in ToSet(ordersQueue) : status[o] = "Accepted"
    /\ \A o \in Resting : status[o] \in {"Accepted", "PartiallyFilled"}
    /\ pc["matcher"] \in {"sweep", "level"} => status[agg] \in {"Accepted", "PartiallyFilled"}
    /\ pc["matcher"] = "filled" => status[agg] = "Filled" /\ traded > 0
    /\ traded > 0 => status[agg] # "Accepted"

\* The last status reported is the order's own, except that an aggressor's
\* trades at the current level have not been reported yet.
Announced(o) ==
    IF o = agg /\ traded > 0
    THEN announced[o] = IF emitted[o] = 0 THEN "Accepted" ELSE "PartiallyFilled"
    ELSE announced[o] = status[o]

Reports ==
    /\ StatusOfOwned
    /\ \A o \in OrderIds \ lost : Announced(o)

-----------------------------------------------------------------------------
(* Steps that change no order and report nothing *)

LEMMA ReportsFrame ==
  ASSUME IInv, Reports,
         UNCHANGED <<order, remaining, status, emitted, announced, lost, agg, traded>>,
         ordersQueue' = ordersQueue, Resting' \subseteq Resting,
         pc'["matcher"] \in {"sweep", "level"} => pc["matcher"] \in {"sweep", "level"},
         pc'["matcher"] = "filled" => pc["matcher"] = "filled"
  PROVE  Reports'
<1>1. Created' = Created
  BY DEF Created
<1>2. StatusOfOwned'
  BY <1>1 DEF Reports, StatusOfOwned, StatusFits
<1>3. \A o \in OrderIds \ lost : Announced(o)'
  BY DEF Reports, Announced
<1> QED
  BY <1>2, <1>3 DEF Reports

\* The same when the book is not touched either.
LEMMA ReportsStill ==
  ASSUME IInv, Reports, UNCHANGED heapVars, UNCHANGED <<ordersQueue, book>>,
         UNCHANGED <<emitted, announced, lost, agg, traded>>,
         pc'["matcher"] \in {"sweep", "level"} => pc["matcher"] \in {"sweep", "level"},
         pc'["matcher"] = "filled" => pc["matcher"] = "filled"
  PROVE  Reports'
<1>1. Resting' = Resting
  BY DEF Resting
<1> QED
  BY <1>1, ReportsFrame DEF heapVars

LEMMA QuietSteps ==
  ASSUME IInv, Reports
  PROVE  /\ \A reason \in Faults : Fail(reason) => Reports'
         /\ \A t \in Threads : Update(t) => Reports'
         /\ BeginClear \/ ClearNext \/ JoinFillThread => Reports'
         /\ EnterLevel \/ SkipOwn \/ StopMatching \/ TakeFillEvent \/ UNCHANGED vars => Reports'
<1> USE DEF heapVars, bookVars, sweepVars, clearVars, eventVars
<1>1. ASSUME NEW reason \in Faults, Fail(reason) PROVE Reports'
  BY <1>1, ReportsStill DEF Fail
<1>2. ASSUME NEW t \in Threads, NEW side \in Sides, ScanBest(t, side) PROVE Reports'
  BY <1>2, ReportsStill, ControlPoints DEF ScanBest, IInv, TypeOK
<1>3. ASSUME NEW t \in Threads, NEW side \in Sides, StoreBest(t, side) PROVE Reports'
  BY <1>3, ReportsStill, ControlPoints DEF StoreBest, IInv, TypeOK
<1>4. ASSUME BeginClear \/ ClearNext \/ JoinFillThread PROVE Reports'
  <2>1. UNCHANGED <<heapVars, ordersQueue, bookVars, pc, seen, sweepVars, eventVars, fault>>
    BY <1>4, Zenon DEF BeginClear, ClearNext, JoinFillThread
  <2> QED
    BY <2>1, ReportsStill
<1>5. ASSUME EnterLevel PROVE Reports'
  <2>1. pc["matcher"] = "sweep" /\ pc' = [pc EXCEPT !["matcher"] = "level"]
    BY <1>5 DEF EnterLevel
  <2>2. pc'["matcher"] = "level"
    BY <2>1 DEF IInv, TypeOK, Threads
  <2>3. UNCHANGED <<heapVars, ordersQueue, bookVars, seen, agg, traded, clearVars, eventVars,
        fault>>
    BY <1>5 DEF EnterLevel
  <2> QED
    BY <2>1, <2>2, <2>3, ReportsStill
<1>6. ASSUME SkipOwn PROVE Reports'
  BY <1>6, ReportsStill DEF SkipOwn
<1>7. ASSUME StopMatching PROVE Reports'
  BY <1>7, ReportsStill DEF StopMatching, IInv, TypeOK, Threads
<1>8. ASSUME TakeFillEvent PROVE Reports'
  BY <1>8, ReportsStill DEF TakeFillEvent
<1>9. ASSUME UNCHANGED vars PROVE Reports'
  BY <1>9, ReportsStill DEF vars
<1> QED
  BY <1>1, <1>2, <1>3, <1>4, <1>5, <1>6, <1>7, <1>8, <1>9 DEF Update

\* A cancelled order keeps its status: its owner is told by the server's reply.
LEMMA CancelQuiet ==
  ASSUME IInv, Reports, NEW o \in OrderIds, CancelOrder(o)
  PROVE  Reports'
<1> USE DEF heapVars, bookVars, sweepVars, clearVars, eventVars
<1>1. /\ book' = BookWithout(o) /\ pc' = [pc EXCEPT !["exchange"] = ScanAt["BUY"]] /\ o \in lookup
      /\ phase = "open"
      /\ UNCHANGED <<heapVars, ordersQueue, best, seen, sweepVars, clearVars, eventVars, fault>>
  BY DEF CancelOrder
<1>2. o \in Resting
  BY <1>1 DEF IInv, LookupMatchesBook
<1>3. \A p \in Resting : remaining'[p] > 0
  BY <1>1, RestingOrders DEF IInv
<1>4. Resting' = Resting \ {o}
  BY <1>1, <1>2, <1>3, BookShrinks DEF IInv
<1>5. pc'["matcher"] = pc["matcher"]
  BY <1>1 DEF IInv, TypeOK, Threads
<1> QED
  BY <1>1, <1>4, <1>5, ReportsFrame

-----------------------------------------------------------------------------
(* Steps that change an order or report it *)

\* An event of o that the queue takes adds to emitted[o] and may announce a status;
\* one that it does not take makes o a lost order.
LEMMA EmitReports ==
  ASSUME TypeOK, NEW o \in OrderIds, NEW price, NEW q \in Nat, NEW left, NEW stat \in Statuses,
         NEW changed \in BOOLEAN, Emit(o, price, q, left, stat, changed)
  PROVE  /\ lost \subseteq lost'
         /\ \A p \in OrderIds : p # o =>
               emitted'[p] = emitted[p] /\ announced'[p] = announced[p]
         /\ o \notin lost' => /\ emitted'[o] = emitted[o] + q
                              /\ changed => announced'[o] = stat
                              /\ ~changed => announced'[o] = announced[o]
<1>1. /\ emitted \in [OrderIds -> Nat] /\ announced \in [OrderIds -> Statuses]
      /\ lost \subseteq OrderIds
  BY DEF TypeOK
<1>2. CASE Len(fillEvents) < FillQueueCap
  <2>1. /\ emitted' = [emitted EXCEPT ![o] = @ + q] /\ lost' = lost
        /\ announced' = IF changed THEN [announced EXCEPT ![o] = stat] ELSE announced
    BY <1>2, Zenon DEF Emit
  <2>2. CASE changed
    BY <1>1, <2>1, <2>2
  <2>3. CASE ~changed
    BY <1>1, <2>1, <2>3
  <2> QED
    BY <2>2, <2>3
<1>3. CASE ~(Len(fillEvents) < FillQueueCap)
  <2>1. lost' = lost \cup {o} /\ emitted' = emitted /\ announced' = announced
    BY <1>3, Zenon DEF Emit
  <2> QED
    BY <1>1, <2>1
<1> QED
  BY <1>2, <1>3

\* Arithmetic facts about an order that is created.
LEMMA OrderNumbers ==
  ASSUME IInv, NEW o \in OrderIds
  PROVE  /\ remaining[o] \in Nat /\ emitted[o] \in Nat /\ order[o].qty \in Nat /\ traded \in Nat
         /\ o \notin lost =>
               emitted[o] + (IF o = agg THEN traded ELSE 0) = order[o].qty - remaining[o]
<1>1. order[o].qty \in Nat
  BY RequestFields DEF IInv, TypeOK, NoRequest
<1>2. remaining[o] \in Nat /\ emitted[o] \in Nat /\ traded \in Nat
  BY DEF IInv, TypeOK
<1>3. o \notin lost =>
         emitted[o] + (IF o = agg THEN traded ELSE 0) = order[o].qty - remaining[o]
  BY DEF IInv, QtyAccounting
<1> QED
  BY <1>1, <1>2, <1>3

LEMMA AddOrderReports ==
  ASSUME IInv, Reports, NEW o \in OrderIds, NEW d \in Requests, AddOrder(o, d)
  PROVE  Reports'
<1> USE DEF heapVars, bookVars, sweepVars, clearVars, eventVars
<1>1. CASE Fail("null_deref")
  BY <1>1, QuietSteps DEF Faults
<1>2. CASE ~Fail("null_deref")
  <2>1. /\ NextId(o)
        /\ order'     = [order EXCEPT ![o] = d]
        /\ remaining' = [remaining EXCEPT ![o] = d.qty]
        /\ status'    = [status EXCEPT ![o] = "Accepted"]
        /\ announced' = [announced EXCEPT ![o] = "Accepted"]
        /\ ordersQueue' = Append(ordersQueue, o)
        /\ UNCHANGED <<bookVars, pc, seen, sweepVars, clearVars, fillEvents, emitted, lost, fault>>
    BY <1>2 DEF AddOrder
  <2>2. o \notin Created
    BY <2>1 DEF NextId, Created
  <2>3. /\ order'[o] = d /\ remaining'[o] = d.qty /\ status'[o] = "Accepted"
        /\ announced'[o] = "Accepted"
        /\ \A p \in OrderIds : p # o => /\ order'[p] = order[p] /\ remaining'[p] = remaining[p]
                                        /\ status'[p] = status[p] /\ announced'[p] = announced[p]
    BY <2>1 DEF IInv, TypeOK
  <2>4. Created' = Created \cup {o}
    BY <2>1 DEF IInv, TypeOK, Created
  <2>5. \A p \in ToSet(ordersQueue') : p \in ToSet(ordersQueue) \/ p = o
    <3>1. ordersQueue \in Seq(OrderIds) /\ Increasing(ordersQueue)
      BY DEF IInv, TypeOK, OwnedOnce
    <3>2. \A p \in ToSet(ordersQueue) : p < o
      <4>1. \A p \in ToSet(ordersQueue) : p \in Created /\ p \in OrderIds
        BY DEF IInv, Provenance, Created
      <4>2. \A p \in Created : ~(o < p)
        BY <2>2 DEF IInv, Provenance
      <4> QED
        BY <2>2, <4>1, <4>2 DEF OrderIds
    <3>3. ToSet(PushBack(ordersQueue, o)) = ToSet(ordersQueue) \cup {o}
      BY <3>1, <3>2, PushBackProperties, OrderIdsAreInts
    <3> QED
      BY <2>1, <3>3 DEF PushBack
  <2>6. Resting' = Resting /\ o \notin Resting /\ \A p \in Resting : p \in OrderIds
    BY <2>1, <2>2, RestingOrders DEF IInv, Provenance, Resting
  <2>7. agg # o
    BY <2>2, OrderIdsAreInts DEF IInv, Provenance, NoOrder
  <2>8. StatusOfOwned'
    <3>1. \A p \in Created' : StatusFits(p)'
      <4>1. ASSUME NEW p \in Created', p # o PROVE StatusFits(p)'
        BY <2>3, <2>4, <4>1 DEF Reports, StatusOfOwned, StatusFits, Created
      <4>2. StatusFits(o)'
        BY <2>3 DEF StatusFits
      <4> QED
        BY <4>1, <4>2
    <3>2. \A p \in ToSet(ordersQueue') : status'[p] = "Accepted"
      BY <2>3, <2>5 DEF Reports, StatusOfOwned, IInv, Provenance, Created
    <3>3. \A p \in Resting' : status'[p] \in {"Accepted", "PartiallyFilled"}
      BY <2>3, <2>6 DEF Reports, StatusOfOwned
    <3>4. pc["matcher"] \in {"sweep", "level", "filled"} \/ traded > 0 => status'[agg] = status[agg]
      BY <2>3, <2>7 DEF IInv, Control, TypeOK
    <3> QED
      BY <2>1, <3>1, <3>2, <3>3, <3>4 DEF Reports, StatusOfOwned
  <2>9. \A p \in OrderIds \ lost : Announced(p)'
    BY <2>1, <2>3, <2>7 DEF Reports, Announced
  <2> QED
    BY <2>1, <2>8, <2>9 DEF Reports
<1> QED
  BY <1>1, <1>2

LEMMA TakeOrderReports ==
  ASSUME IInv, Reports, TakeOrder
  PROVE  Reports'
<1> USE DEF heapVars, bookVars, sweepVars, clearVars, eventVars
<1> DEFINE o == Head(ordersQueue)
<1>1. /\ pc["matcher"] = "idle" /\ ordersQueue # <<>>
      /\ ordersQueue' = Tail(ordersQueue)
      /\ UNCHANGED <<heapVars, bookVars, seen, clearVars, eventVars, fault>>
  BY DEF TakeOrder
<1>2. \/ Return
      \/ pc' = [pc EXCEPT !["matcher"] = "sweep"] /\ agg' = o /\ UNCHANGED <<it, traded>>
  BY DEF TakeOrder
<1>3. agg = NoOrder /\ traded = 0
  BY <1>1 DEF IInv, Control
<1>4. o \in ToSet(ordersQueue) /\ ToSet(Tail(ordersQueue)) \subseteq ToSet(ordersQueue)
  <2>1. ordersQueue \in Seq(OrderIds) /\ Increasing(ordersQueue)
    BY DEF IInv, TypeOK, OwnedOnce
  <2> QED
    BY <1>1, <2>1, TailProperties, OrderIdsAreInts
<1> HIDE DEF o
<1>5. /\ traded' = 0 /\ pc'["matcher"] \in {"scanBid", "sweep"}
      /\ pc'["matcher"] = "sweep" => agg' = o
  <2>1. CASE Return
    BY <2>1, ReturnProperties
  <2>2. CASE ~Return
    BY <1>2, <1>3, <2>2 DEF IInv, TypeOK, Threads
  <2> QED
    BY <2>1, <2>2
<1>6. Resting' = Resting /\ Created' = Created
  BY <1>1 DEF Resting, Created
<1>7. StatusOfOwned'
  <2>1. status[o] = "Accepted"
    BY <1>4 DEF Reports, StatusOfOwned
  <2> QED
    BY <1>1, <1>4, <1>5, <1>6, <2>1 DEF Reports, StatusOfOwned, StatusFits
<1>8. \A p \in OrderIds \ lost : Announced(p)'
  BY <1>1, <1>3, <1>5 DEF Reports, Announced
<1> QED
  BY <1>1, <1>7, <1>8 DEF Reports

\* All that a filled aggressor traded at the level is reported, as Filled.
LEMMA ReportFilledReports ==
  ASSUME IInv, Reports, ReportFilled
  PROVE  Reports'
<1> USE DEF heapVars, bookVars, sweepVars, clearVars, eventVars
<1>1. /\ pc["matcher"] = "filled"
      /\ Emit(agg, IndexToPrice(level), traded, remaining[agg], status[agg],
              order[agg].qty # remaining[agg])
      /\ Return
      /\ UNCHANGED <<heapVars, ordersQueue, bookVars, seen, clearVars, fault>>
  BY DEF ReportFilled
<1>2. agg # NoOrder
  BY <1>1 DEF IInv, Control
<1>3. agg \in OrderIds /\ agg \in Created /\ status[agg] \in Statuses
  BY <1>2, Aggressor
<1>4. traded > 0 /\ traded \in Nat /\ status[agg] = "Filled"
  BY <1>1 DEF Reports, StatusOfOwned, IInv, TypeOK
<1>5. order[agg].qty # remaining[agg]
  <2>1. remaining[agg] = 0 /\ 0 < order[agg].qty
    BY <1>3, <1>4 DEF Reports, StatusOfOwned, StatusFits
  <2> QED
    BY <2>1
<1>6. pc'["matcher"] = "scanBid" /\ agg' = NoOrder /\ traded' = 0
  BY <1>1, ReturnProperties
<1>7. /\ lost \subseteq lost' /\ \A p \in OrderIds : p # agg => announced'[p] = announced[p]
      /\ agg \notin lost' => announced'[agg] = "Filled"
  BY <1>1, <1>3, <1>4, <1>5, EmitReports DEF IInv
<1>8. StatusOfOwned'
  <2>1. Resting' = Resting /\ Created' = Created
    BY <1>1 DEF Resting, Created
  <2> QED
    BY <1>1, <1>6, <2>1 DEF Reports, StatusOfOwned, StatusFits
<1>9. \A p \in OrderIds \ lost' : Announced(p)'
  <2>1. ASSUME NEW p \in OrderIds \ lost' PROVE announced'[p] = status[p]
    <3>1. CASE p = agg
      BY <1>4, <1>7, <3>1
    <3>2. CASE p # agg
      BY <1>7, <3>2 DEF Reports, Announced
    <3> QED
      BY <3>1, <3>2
  <2> QED
    BY <1>1, <1>6, <2>1 DEF Announced
<1> QED
  BY <1>8, <1>9 DEF Reports

\* At the end of a level its trades are reported, as a partial fill.
LEMMA LeaveLevelReports ==
  ASSUME IInv, Reports, LeaveLevel
  PROVE  Reports'
<1> USE DEF heapVars, bookVars, sweepVars, clearVars, eventVars
<1>1. CASE Fail("assert")
  BY <1>1, QuietSteps DEF Faults
<1>2. CASE ~Fail("assert")
  <2>1. /\ pc["matcher"] = "level"
        /\ IF traded > 0
           THEN Emit(agg, IndexToPrice(level), traded, remaining[agg], status[agg], TRUE)
           ELSE UNCHANGED eventVars
        /\ traded' = 0 /\ pc' = [pc EXCEPT !["matcher"] = "sweep"]
        /\ UNCHANGED <<heapVars, ordersQueue, bookVars, seen, agg, it, clearVars, fault>>
    BY <1>2 DEF LeaveLevel
  <2>2. agg # NoOrder /\ traded \in Nat
    BY <2>1 DEF IInv, Control, TypeOK
  <2>3. agg \in OrderIds /\ status[agg] \in Statuses
    BY <2>2, Aggressor
  <2>4. pc'["matcher"] = "sweep"
    BY <2>1 DEF IInv, TypeOK, Threads
  <2>5. StatusOfOwned'
    <3>1. Resting' = Resting /\ Created' = Created
      BY <2>1 DEF Resting, Created
    <3> QED
      BY <2>1, <2>4, <3>1 DEF Reports, StatusOfOwned, StatusFits
  <2>6. ASSUME NEW p \in OrderIds \ lost' PROVE p \notin lost /\ announced'[p] = status[p]
    <3>1. CASE traded > 0
      <4>1. /\ lost \subseteq lost' /\ \A r \in OrderIds : r # agg => announced'[r] = announced[r]
            /\ agg \notin lost' => announced'[agg] = status[agg]
        BY <2>1, <2>2, <2>3, <3>1, EmitReports DEF IInv
      <4> QED
        BY <4>1 DEF Reports, Announced
    <3>2. CASE ~(traded > 0)
      BY <2>1, <3>2 DEF Reports, Announced
    <3> QED
      BY <3>1, <3>2
  <2>7. \A p \in OrderIds \ lost' : Announced(p)'
    BY <2>1, <2>6 DEF Announced
  <2> QED
    BY <2>5, <2>7 DEF Reports
<1> QED
  BY <1>1, <1>2

\* A market order that traded nothing is reported Unfilled; the rest of another is
\* given up without a word, which leaves its last report true.
LEMMA EndMarketReports ==
  ASSUME IInv, Reports, EndMarket
  PROVE  Reports'
<1> USE DEF heapVars, bookVars, sweepVars, clearVars, eventVars
<1>1. /\ pc["matcher"] = "sweep" /\ Return
      /\ UNCHANGED <<order, remaining, ordersQueue, bookVars, seen, clearVars, fault>>
  BY DEF EndMarket, SweepOver
<1>2. \/ /\ order[agg].qty = remaining[agg]
         /\ status' = [status EXCEPT ![agg] = "Unfilled"]
         /\ Emit(agg, 0, 0, remaining[agg], "Unfilled", TRUE)
      \/ UNCHANGED <<status, eventVars>>
  BY DEF EndMarket
<1>3. agg # NoOrder /\ traded = 0
  BY <1>1 DEF IInv, Control
<1>4. agg \in OrderIds /\ agg \in Created /\ agg \notin Resting /\ \A p \in Resting : p \in OrderIds
  BY <1>3, Aggressor, RestingOrders DEF IInv
<1>5. pc'["matcher"] = "scanBid" /\ agg' = NoOrder /\ traded' = 0
  BY <1>1, ReturnProperties
<1>6. CASE UNCHANGED <<status, eventVars>>
  <2>1. Resting' = Resting /\ Created' = Created
    BY <1>1, <1>6 DEF Resting, Created
  <2>2. StatusOfOwned'
    BY <1>1, <1>5, <1>6, <2>1 DEF Reports, StatusOfOwned, StatusFits
  <2>3. \A p \in OrderIds \ lost' : Announced(p)'
    BY <1>3, <1>5, <1>6 DEF Reports, Announced
  <2> QED
    BY <2>2, <2>3 DEF Reports
<1>7. CASE /\ order[agg].qty = remaining[agg]
           /\ status' = [status EXCEPT ![agg] = "Unfilled"]
           /\ Emit(agg, 0, 0, remaining[agg], "Unfilled", TRUE)
  <2>1. /\ lost \subseteq lost' /\ \A p \in OrderIds : p # agg => announced'[p] = announced[p]
        /\ agg \notin lost' => announced'[agg] = "Unfilled"
    BY <1>4, <1>7, EmitReports DEF IInv, Statuses
  <2>2. status'[agg] = "Unfilled" /\ \A p \in OrderIds : p # agg => status'[p] = status[p]
    BY <1>4, <1>7 DEF IInv, TypeOK
  <2>3. Resting' = Resting /\ Created' = Created
    BY <1>1, <1>4, <2>2 DEF Resting, Created
  <2>4. StatusOfOwned'
    <3>1. \A p \in Created' : StatusFits(p)'
      BY <1>1, <1>7, <2>2, <2>3 DEF Reports, StatusOfOwned, StatusFits, Created
    <3>2. \A p \in ToSet(ordersQueue) : p # agg /\ p \in OrderIds
      <4>1. \A p \in ToSet(ordersQueue) : p > agg /\ p \in OrderIds
        BY DEF IInv, OwnedOnce, Provenance, Created
      <4> QED
        BY <4>1 DEF OrderIds
    <3>3. \A p \in ToSet(ordersQueue) : status'[p] = "Accepted"
      BY <2>2, <3>2 DEF Reports, StatusOfOwned
    <3>4. \A p \in Resting : status'[p] \in {"Accepted", "PartiallyFilled"}
      BY <1>4, <2>2 DEF Reports, StatusOfOwned
    <3> QED
      BY <1>1, <1>5, <2>3, <3>1, <3>3, <3>4 DEF StatusOfOwned
  <2>5. \A p \in OrderIds \ lost' : Announced(p)'
    BY <1>3, <1>5, <2>1, <2>2 DEF Reports, Announced
  <2> QED
    BY <2>4, <2>5 DEF Reports
<1> QED
  BY <1>2, <1>6, <1>7

LEMMA EndLimitReports ==
  ASSUME IInv, Reports, EndLimit
  PROVE  Reports'
<1> USE DEF heapVars, bookVars, sweepVars, clearVars, eventVars
<1>1. CASE Fail("assert")
  BY <1>1, QuietSteps DEF Faults
<1>2. CASE ~Fail("assert")
  <2>1. /\ pc["matcher"] = "sweep" /\ ~IsMarket(agg) /\ remaining[agg] > 0
        /\ book' = BookWith(agg) /\ Return
        /\ UNCHANGED <<heapVars, ordersQueue, best, seen, clearVars, eventVars, fault>>
    BY <1>2 DEF EndLimit, SweepOver
  <2>2. agg # NoOrder /\ traded = 0
    BY <2>1 DEF IInv, Control
  <2>3. agg \in OrderIds /\ agg \in Created /\ order[agg] \in Requests
    BY <2>2, Aggressor
  <2>4. Resting' = Resting \cup {agg}
    <3>1. \A p \in Resting : p \in OrderIds /\ agg > p
      BY <2>2, RestingOrders DEF IInv, OwnedOnce
    <3>2. \A p \in Resting : p < agg
      BY <2>3, <3>1, OrderIdsAreInts
    <3> QED
      BY <2>1, <2>3, <3>2, BookGrows DEF IInv
  <2>5. pc'["matcher"] = "scanBid" /\ agg' = NoOrder /\ traded' = 0
    BY <2>1, ReturnProperties
  <2>6. StatusOfOwned'
    <3>1. Created' = Created /\ status[agg] \in {"Accepted", "PartiallyFilled"}
      BY <2>1 DEF Created, Reports, StatusOfOwned
    <3> QED
      BY <2>1, <2>4, <2>5, <3>1 DEF Reports, StatusOfOwned, StatusFits
  <2>7. \A p \in OrderIds \ lost' : Announced(p)'
    BY <2>1, <2>2, <2>5 DEF Reports, Announced
  <2> QED
    BY <2>6, <2>7 DEF Reports
<1> QED
  BY <1>1, <1>2

\* ClearBook reports the orders it takes out of the book, and no others, as Done.
LEMMA ClearOneReports ==
  ASSUME IInv, Reports, ClearOne
  PROVE  Reports'
<1> USE DEF heapVars, bookVars, sweepVars, clearVars, eventVars
<1>1. CASE Fail("use_after_free")
  BY <1>1, QuietSteps DEF Faults
<1>2. CASE ~Fail("use_after_free")
  <2>0. PICK o \in Resting : o = clearIt
    BY <1>2 DEF ClearOne, Listed
  <2>1. /\ o \in Resting
        /\ status' = [status EXCEPT ![o] = "Done"]
        /\ Emit(o, 0, 0, remaining[o], "Done", TRUE)
        /\ book' = BookWithout(o)
        /\ UNCHANGED <<order, remaining, ordersQueue, best, lookup, pc, seen, sweepVars,
                       phase, clearLevel, fault>>
    BY <1>2, <2>0 DEF ClearOne, Listed
  <2>2. o \in OrderIds /\ o \in Created /\ \A p \in Resting : p \in OrderIds /\ remaining[p] > 0
    BY <2>1, RestingOrders DEF IInv, Provenance
  <2>3. Resting' = Resting \ {o}
    BY <2>1, <2>2, BookShrinks DEF IInv
  <2>4. /\ lost \subseteq lost' /\ \A p \in OrderIds : p # o => announced'[p] = announced[p]
        /\ \A p \in OrderIds : p # o => emitted'[p] = emitted[p]
        /\ o \notin lost' => announced'[o] = "Done"
    BY <2>1, <2>2, EmitReports DEF IInv, Statuses
  <2>5. status'[o] = "Done" /\ \A p \in OrderIds : p # o => status'[p] = status[p]
    BY <2>1, <2>2 DEF IInv, TypeOK
  <2>6. Created' = Created
    BY <2>2, <2>5 DEF Created
  <2>7. o # agg /\ o \notin ToSet(ordersQueue) /\ ToSet(ordersQueue) \subseteq OrderIds
    <3>1. agg # NoOrder => agg > o
      BY <2>1 DEF IInv, OwnedOnce
    <3>2. \A p \in ToSet(ordersQueue) : p > o /\ p \in OrderIds
      BY <2>1 DEF IInv, OwnedOnce, Provenance, Created
    <3>3. ~(o > o) /\ o # NoOrder
      BY <2>2, OrderIdsAreInts
    <3> QED
      BY <3>1, <3>2, <3>3
  <2>8. StatusOfOwned'
    <3>1. StatusFits(o)'
      <4>1. remaining[o] > 0 /\ remaining[o] <= order[o].qty
        <5>1. StatusFits(o) /\ status[o] \in {"Accepted", "PartiallyFilled"}
          BY <2>1, <2>2 DEF Reports, StatusOfOwned
        <5> QED
          BY <2>1, <2>2, <5>1, OrderNumbers DEF StatusFits
      <4> QED
        BY <2>1, <2>5, <4>1 DEF StatusFits
    <3>2. \A p \in Created : StatusFits(p)'
      <4>1. ASSUME NEW p \in Created, p # o PROVE StatusFits(p)'
        BY <2>1, <2>5, <4>1 DEF Reports, StatusOfOwned, StatusFits, Created
      <4> QED
        BY <3>1, <4>1
    <3>3. /\ \A p \in ToSet(ordersQueue) : status'[p] = "Accepted"
          /\ \A p \in Resting \ {o} : status'[p] \in {"Accepted", "PartiallyFilled"}
      BY <2>2, <2>5, <2>7 DEF Reports, StatusOfOwned
    <3>4. pc["matcher"] \in {"sweep", "level", "filled"} \/ traded > 0 => status'[agg] = status[agg]
      BY <2>5, <2>7 DEF IInv, Control, TypeOK
    <3> QED
      BY <2>1, <2>3, <2>6, <3>2, <3>3, <3>4 DEF Reports, StatusOfOwned
  <2>9. \A p \in OrderIds \ lost' : Announced(p)'
    <3>1. ASSUME NEW p \in OrderIds \ lost', p # o PROVE Announced(p)'
      BY <2>1, <2>4, <2>5, <3>1 DEF Reports, Announced
    <3>2. ASSUME o \notin lost' PROVE Announced(o)'
      BY <2>1, <2>4, <2>5, <2>7, <3>2 DEF Announced
    <3> QED
      BY <3>1, <3>2
  <2> QED
    BY <2>8, <2>9 DEF Reports
<1> QED
  BY <1>1, <1>2

\* A trade reports the resting order's new status unless it was reported before;
\* the aggressor's is put off to the end of the level.
LEMMA FillOneReports ==
  ASSUME IInv, Reports, FillOne
  PROVE  Reports'
<1> USE DEF heapVars, bookVars, sweepVars, clearVars, eventVars
<1> DEFINE q == FillQty
           stat == StatusAfter(remaining'[it])
           changed == RestingStatusChanged(status[it], status'[it])
<1>1. CASE Fail("assert")
  BY <1>1, QuietSteps DEF Faults
<1>2. CASE ~Fail("assert")
  <2>1. /\ pc["matcher"] = "level" /\ it # NoOrder /\ it \in Resting /\ q > 0
        /\ traded' = traded + q
        /\ remaining' = AfterTrade(q)
        /\ status' = [status EXCEPT ![it] = StatusAfter(remaining'[it]),
                                    ![agg] = StatusAfter(remaining'[agg])]
        /\ Emit(it, IndexToPrice(level), q, remaining'[it], status'[it], changed)
        /\ IF remaining'[it] = 0
           THEN book' = BookWithout(it) /\ Forget(it)
           ELSE UNCHANGED <<book, lookup>>
        /\ pc' = IF remaining'[agg] = 0 THEN [pc EXCEPT !["matcher"] = "filled"] ELSE pc
        /\ UNCHANGED <<order, ordersQueue, best, seen, agg, level, clearVars, fault>>
    BY <1>2 DEF FillOne, Listed
  <2>2. agg # NoOrder /\ traded \in Nat
    BY <2>1 DEF IInv, Control, TypeOK
  <2>3. /\ agg \in OrderIds /\ agg \in Created /\ agg \notin Resting
        /\ it \in OrderIds /\ it \in Created /\ it # agg
    BY <2>1, <2>2, Aggressor, RestingOrders DEF IInv, Provenance
  <2>4. /\ q \in Nat /\ q <= remaining[it] /\ q <= remaining[agg]
        /\ remaining[it] \in Nat /\ remaining[agg] \in Nat
    BY <2>3 DEF IInv, TypeOK, FillQty
  <2>5. changed \in BOOLEAN
    BY DEF RestingStatusChanged
  <2> HIDE DEF q, changed
  <2>6. /\ remaining'[it] = remaining[it] - q /\ remaining'[agg] = remaining[agg] - q
        /\ \A p \in OrderIds : p # it /\ p # agg => remaining'[p] = remaining[p]
    BY <2>1, <2>3 DEF IInv, TypeOK, AfterTrade
  <2>7. /\ status'[it] = StatusAfter(remaining'[it]) /\ status'[agg] = StatusAfter(remaining'[agg])
        /\ \A p \in OrderIds : p # it /\ p # agg => status'[p] = status[p]
    <3>1. status \in [OrderIds -> Statuses]
      BY DEF IInv, TypeOK
    <3> QED
      BY <2>1, <2>3, <3>1
  <2>8. /\ status'[it] \in {"PartiallyFilled", "Filled"}
        /\ status'[agg] \in {"PartiallyFilled", "Filled"}
        /\ status'[it] = "Filled" <=> remaining'[it] = 0
        /\ status'[agg] = "Filled" <=> remaining'[agg] = 0
    BY <2>7 DEF StatusAfter
  <2>9. Created' = Created
    <3>1. ASSUME NEW p \in OrderIds PROVE status'[p] # "none" <=> status[p] # "none"
      BY <2>3, <2>7, <2>8 DEF Created
    <3> QED
      BY <3>1 DEF Created
  <2>10. /\ lost \subseteq lost'
         /\ \A p \in OrderIds : p # it => emitted'[p] = emitted[p] /\ announced'[p] = announced[p]
         /\ it \notin lost' => /\ changed => announced'[it] = status'[it]
                               /\ ~changed => announced'[it] = announced[it]
    <3>1. PICK s \in Statuses : s = status'[it]
      BY <2>8 DEF Statuses
    <3>2. PICK left \in Nat : left = remaining'[it]
      BY <2>4, <2>6
    <3>3. Emit(it, IndexToPrice(level), q, left, s, changed)
      BY <2>1, <3>1, <3>2
    <3> QED
      BY <2>3, <2>4, <2>5, <3>1, <3>3, EmitReports DEF IInv
  <2>11. /\ Resting' \subseteq Resting /\ \A p \in Resting : p \in OrderIds
         /\ it \in Resting' => status'[it] = "PartiallyFilled"
    <3>1. \A p \in Resting : p \in OrderIds /\ remaining[p] > 0
      BY RestingOrders DEF IInv
    <3>2. CASE remaining'[it] = 0
      <4>1. book' = BookWithout(it)
        BY <2>1, <3>2
      <4>2. \A p \in Resting : p # it => remaining'[p] > 0
        BY <2>3, <2>6, <3>1
      <4>3. Resting' = Resting \ {it}
        BY <2>1, <4>1, <4>2, BookShrinks DEF IInv
      <4> QED
        BY <3>1, <4>3
    <3>3. CASE remaining'[it] # 0
      <4>1. Resting' = Resting
        BY <2>1, <3>3 DEF Resting
      <4> QED
        BY <2>8, <3>1, <3>3, <4>1
    <3> QED
      BY <3>2, <3>3
  <2>12. pc'["matcher"] = IF remaining'[agg] = 0 THEN "filled" ELSE "level"
    BY <2>1 DEF IInv, TypeOK, Threads
  <2>13. traded' > 0
    BY <2>1, <2>2, <2>4
  <2>14. StatusOfOwned'
    <3>1. ASSUME NEW p \in Created PROVE StatusFits(p)'
      <4>1. CASE p # it /\ p # agg
        BY <2>1, <2>6, <2>7, <4>1 DEF Reports, StatusOfOwned, StatusFits, Created
      <4>2. ASSUME NEW r \in {it, agg}, status[r] \in {"Accepted", "PartiallyFilled"}
            PROVE  StatusFits(r)'
        <5>1. r \in Created /\ r \in OrderIds
          BY <2>3
        <5>2. /\ remaining[r] \in Nat /\ order[r].qty \in Nat /\ remaining[r] <= order[r].qty
          BY <4>2, <5>1, OrderNumbers DEF Reports, StatusOfOwned, StatusFits
        <5>3. /\ remaining'[r] \in Nat /\ remaining'[r] < order[r].qty
              /\ status'[r] \in {"PartiallyFilled", "Filled"}
              /\ status'[r] = "Filled" <=> remaining'[r] = 0
          BY <2>1, <2>3, <2>4, <2>6, <2>8, <5>2
        <5> QED
          BY <2>1, <5>2, <5>3 DEF StatusFits
      <4>3. status[it] \in {"Accepted", "PartiallyFilled"}
            /\ status[agg] \in {"Accepted", "PartiallyFilled"}
        BY <2>1 DEF Reports, StatusOfOwned
      <4> QED
        BY <4>1, <4>2, <4>3
    <3>2. \A p \in ToSet(ordersQueue) : status'[p] = "Accepted"
      <4>1. \A p \in ToSet(ordersQueue) : p \in OrderIds /\ p > agg /\ p > it
        BY <2>1 DEF IInv, OwnedOnce, Provenance, Created
      <4>2. \A p \in ToSet(ordersQueue) : p # agg /\ p # it
        BY <2>3, <4>1, OrderIdsAreInts
      <4> QED
        BY <2>7, <4>1, <4>2 DEF Reports, StatusOfOwned
    <3>3. \A p \in Resting' : status'[p] \in {"Accepted", "PartiallyFilled"}
      BY <2>3, <2>7, <2>11 DEF Reports, StatusOfOwned
    <3>4. pc'["matcher"] = "level" => status'[agg] = "PartiallyFilled"
      BY <2>8, <2>12
    <3>5. pc'["matcher"] = "filled" => status'[agg] = "Filled"
      BY <2>8, <2>12
    <3>6. agg' = agg /\ ordersQueue' = ordersQueue
      BY <2>1
    <3> QED
      BY <2>8, <2>9, <2>12, <2>13, <3>1, <3>2, <3>3, <3>4, <3>5, <3>6 DEF StatusOfOwned
  <2>15. ASSUME NEW p \in OrderIds \ lost' PROVE Announced(p)'
    <3>0. p \notin lost /\ Announced(p)
      BY <2>10 DEF Reports
    <3>1. CASE p = it
      <4>1. announced[it] = status[it] /\ status[it] \in {"Accepted", "PartiallyFilled"}
        BY <2>1, <2>3, <3>0, <3>1 DEF Reports, StatusOfOwned, Announced
      <4>2. changed <=> status'[it] = "Filled" \/ status[it] # "PartiallyFilled"
        BY DEF changed, RestingStatusChanged
      <4>3. announced'[it] = status'[it]
        BY <2>8, <2>10, <3>1, <4>1, <4>2
      <4> QED
        BY <2>1, <2>3, <3>1, <4>3 DEF Announced
    <3>2. CASE p = agg
      <4>1. announced'[agg] = announced[agg] /\ emitted'[agg] = emitted[agg]
        BY <2>3, <2>10
      <4>2. announced[agg] = IF emitted[agg] = 0 THEN "Accepted" ELSE "PartiallyFilled"
        <5>1. CASE traded > 0
          BY <3>0, <3>2, <5>1 DEF Announced
        <5>2. CASE ~(traded > 0)
          <6>1. traded = 0 /\ announced[agg] = status[agg]
            BY <2>2, <3>0, <3>2, <5>2 DEF Announced
          <6>2. emitted[agg] = order[agg].qty - remaining[agg]
            BY <2>3, <3>0, <3>2, <6>1, OrderNumbers
          <6>3. status[agg] \in {"Accepted", "PartiallyFilled"} /\ StatusFits(agg)
            BY <2>1, <2>3 DEF Reports, StatusOfOwned
          <6> QED
            BY <2>3, <6>1, <6>2, <6>3, OrderNumbers DEF StatusFits
        <5> QED
          BY <5>1, <5>2
      <4> QED
        BY <2>1, <2>13, <3>2, <4>1, <4>2 DEF Announced
    <3>3. CASE p # it /\ p # agg
      BY <2>1, <2>7, <2>10, <3>0, <3>3 DEF Announced
    <3> QED
      BY <3>1, <3>2, <3>3
  <2> QED
    BY <2>14, <2>15 DEF Reports
<1> QED
  BY <1>1, <1>2

-----------------------------------------------------------------------------
(* The theorem *)

LEMMA NextReports ==
  ASSUME IInv, Reports, [Next]_vars
  PROVE  Reports'
<1>1. CASE MatchingThread
  <2>1. CASE EnterLevel \/ SkipOwn \/ StopMatching \/ Update("matcher") \/ Dangling
    BY <2>1, QuietSteps DEF Threads, Dangling, Faults
  <2>2. CASE TakeOrder
    BY <2>2, TakeOrderReports
  <2>3. CASE FillOne
    BY <2>3, FillOneReports
  <2>4. CASE ReportFilled
    BY <2>4, ReportFilledReports
  <2>5. CASE LeaveLevel
    BY <2>5, LeaveLevelReports
  <2>6. CASE EndMarket
    BY <2>6, EndMarketReports
  <2>7. CASE EndLimit
    BY <2>7, EndLimitReports
  <2> QED
    BY <1>1, <2>1, <2>2, <2>3, <2>4, <2>5, <2>6, <2>7 DEF MatchingThread, Sweep
<1>2. CASE MessageThread
  BY <1>2, AddOrderReports, CancelQuiet, QuietSteps DEF MessageThread, Threads
<1>3. CASE Destructor
  BY <1>3, QuietSteps, ClearOneReports DEF Destructor
<1>4. CASE FillThread
  BY <1>4, QuietSteps DEF FillThread
<1>5. CASE UNCHANGED vars
  BY <1>5, QuietSteps
<1> QED
  BY <1>1, <1>2, <1>3, <1>4, <1>5 DEF Next

LEMMA InitReports ==
  ASSUME Init
  PROVE  Reports
<1>1. Created = {} /\ ToSet(<<>>) = {}
  BY DEF Init, Created, ToSet
<1>2. Resting = {}
  BY <1>1, RestingMember DEF Init
<1> QED
  BY <1>1, <1>2 DEF Init, Reports, StatusOfOwned, Announced, Threads

LEMMA ReportsImply ==
  ASSUME IInv, Reports
  PROVE  ReportsAgree
<1>1. SUFFICES ASSUME NEW o \in OrderIds \ lost
      PROVE  /\ announced[o] = "Filled" => emitted[o] = order[o].qty
             /\ announced[o] = "PartiallyFilled" => 0 < emitted[o] /\ emitted[o] < order[o].qty
             /\ announced[o] \in {"none", "Accepted", "Unfilled"} => emitted[o] = 0
             /\ announced[o] = "Done" => emitted[o] < order[o].qty
  BY DEF ReportsAgree, IInv, TypeOK, Statuses
<1>2. /\ remaining[o] \in Nat /\ emitted[o] \in Nat /\ order[o].qty \in Nat /\ traded \in Nat
      /\ emitted[o] + (IF o = agg THEN traded ELSE 0) = order[o].qty - remaining[o]
  BY OrderNumbers
<1>3. Announced(o)
  BY DEF Reports
<1>4. CASE o = agg /\ traded > 0
  BY <1>2, <1>3, <1>4 DEF Announced
<1>5. CASE ~(o = agg /\ traded > 0)
  <2>1. announced[o] = status[o] /\ emitted[o] = order[o].qty - remaining[o]
    BY <1>2, <1>3, <1>5 DEF Announced
  <2>2. CASE o \in Created
    <3>1. StatusFits(o) /\ status[o] # "none"
      BY <2>2 DEF Reports, StatusOfOwned, Created
    <3> QED
      BY <1>2, <2>1, <3>1 DEF StatusFits
  <2>3. CASE o \notin Created
    BY <2>1, <2>3 DEF IInv, Provenance, Created
  <2> QED
    BY <2>2, <2>3
<1> QED
  BY <1>4, <1>5

\* The fills and the statuses a broker is sent of an order agree, whatever the
\* interleaving of its match with cancels and with the shutdown, unless the full
\* event queue refused one of its events.
THEOREM EngineReportsAgree == Spec => []ReportsAgree
<1>1. Init => Reports
  BY InitReports
<1>2. IInv /\ Reports /\ [Next]_vars => Reports'
  BY NextReports
<1>3. IInv /\ Reports => ReportsAgree
  BY ReportsImply
<1> QED
  BY <1>1, <1>2, <1>3, EngineInvariant, PTL DEF Spec

-----------------------------------------------------------------------------
(* The engine implements OrderLedger *)

\* the orders that may still trade, as the refinement mapping has them
Live == {o \in ToSet(ordersQueue) \cup {agg} : o \in OrderIds /\ remaining[o] > 0} \cup Resting

\* A level that the sweep has entered is within the aggressor's limit.
SweepInLimit == pc["matcher"] = "level" => WithinLimit(level)

LEMMA NextSweepInLimit ==
  ASSUME IInv, SweepInLimit, [Next]_vars
  PROVE  SweepInLimit'
<1> USE DEF heapVars, bookVars, sweepVars, clearVars, eventVars
<1>1. ASSUME pc["matcher"] = "level" => agg' = agg /\ level' = level /\ order'[agg] = order[agg],
             pc'["matcher"] = "level" => pc["matcher"] = "level"
      PROVE  SweepInLimit'
  BY <1>1 DEF SweepInLimit, WithinLimit, IsMarket, AggSide, LimitLevel
<1>2. \A reason : Fail(reason) => SweepInLimit'
  BY <1>1 DEF Fail
<1>3. CASE MatchingThread
  <2>1. CASE TakeOrder
    <3>1. \/ Return
          \/ pc' = [pc EXCEPT !["matcher"] = "sweep"]
      BY <2>1 DEF TakeOrder
    <3>2. pc'["matcher"] # "level"
      BY <3>1, ReturnProperties DEF IInv, TypeOK, Threads
    <3> QED
      BY <3>2 DEF SweepInLimit
  <2>2. CASE EnterLevel
    <3>1. level' = Top(RestSide, LevelsToSweep) /\ LevelsToSweep # {} /\ agg' = agg
          /\ order' = order
      BY <2>2 DEF EnterLevel
    <3>2. pc["matcher"] = "sweep"
      BY <2>2 DEF EnterLevel
    <3>3. RestSide \in Sides
      BY <3>2, Aggressor DEF IInv, Control
    <3>4. LevelsToSweep \in SUBSET Levels
      BY DEF LevelsToSweep, NonEmptyLevels
    <3>5. level' \in LevelsToSweep
      BY <3>1, <3>3, <3>4, TopProperties
    <3>6. WithinLimit(level')
      BY <3>5 DEF LevelsToSweep
    <3> QED
      BY <3>1, <3>6 DEF SweepInLimit, WithinLimit, IsMarket, AggSide, LimitLevel
  <2>3. CASE SkipOwn
    BY <1>1, <2>3 DEF SkipOwn
  <2>4. CASE FillOne
    <3>1. CASE ~Fail("assert")
      <4>1. /\ pc' = IF remaining'[agg] = 0 THEN [pc EXCEPT !["matcher"] = "filled"] ELSE pc
            /\ pc["matcher"] = "level" /\ UNCHANGED <<agg, level, order>>
        BY <2>4, <3>1 DEF FillOne
      <4> QED
        BY <1>1, <4>1
    <3> QED
      BY <1>2, <3>1
  <2>5. CASE Dangling
    BY <1>2, <2>5 DEF Dangling
  <2>6. CASE ReportFilled \/ EndMarket
    <3>1. Return
      BY <2>6 DEF ReportFilled, EndMarket
    <3> QED
      BY <3>1, ReturnProperties DEF SweepInLimit
  <2>7. CASE LeaveLevel
    <3>1. CASE ~Fail("assert")
      <4>1. pc' = [pc EXCEPT !["matcher"] = "sweep"]
        BY <2>7, <3>1 DEF LeaveLevel
      <4> QED
        BY <4>1 DEF SweepInLimit, IInv, TypeOK, Threads
    <3> QED
      BY <1>2, <3>1
  <2>8. CASE EndLimit
    <3>1. CASE ~Fail("assert")
      <4>1. Return
        BY <2>8, <3>1 DEF EndLimit
      <4> QED
        BY <4>1, ReturnProperties DEF SweepInLimit
    <3> QED
      BY <1>2, <3>1
  <2>9. CASE Update("matcher") \/ StopMatching
    BY <1>1, <2>9, ControlPoints DEF Update, ScanBest, StoreBest, StopMatching, IInv, TypeOK
  <2> QED
    BY <1>3, <2>1, <2>2, <2>3, <2>4, <2>5, <2>6, <2>7, <2>8, <2>9 DEF MatchingThread, Sweep
<1>4. CASE MessageThread
  <2>1. ASSUME NEW o \in OrderIds, NEW d \in Requests, AddOrder(o, d) PROVE SweepInLimit'
    <3>1. CASE ~Fail("null_deref")
      <4>1. NextId(o) /\ order' = [order EXCEPT ![o] = d] /\ UNCHANGED <<pc, sweepVars>>
        BY <2>1, <3>1 DEF AddOrder
      <4>2. pc["matcher"] = "level" => agg # o /\ agg \in OrderIds
        BY <4>1, Aggressor DEF NextId, Created, IInv, Control
      <4> QED
        BY <1>1, <4>1, <4>2 DEF IInv, TypeOK
    <3> QED
      BY <1>2, <3>1
  <2>2. ASSUME NEW o \in OrderIds, CancelOrder(o) PROVE SweepInLimit'
    BY <1>1, <2>2, ControlPoints DEF CancelOrder, IInv, TypeOK
  <2>3. CASE Update("exchange")
    BY <1>1, <2>3, ControlPoints DEF Update, ScanBest, StoreBest, IInv, TypeOK
  <2> QED
    BY <1>4, <2>1, <2>2, <2>3 DEF MessageThread
<1>5. CASE Destructor
  <2>1. CASE BeginClear \/ ClearNext \/ JoinFillThread
    BY <1>1, <2>1, Zenon DEF BeginClear, ClearNext, JoinFillThread
  <2>2. CASE ClearOne
    BY <1>1, <1>2, <2>2 DEF ClearOne
  <2> QED
    BY <1>5, <2>1, <2>2 DEF Destructor
<1>6. CASE FillThread
  BY <1>1, <1>6 DEF FillThread, TakeFillEvent
<1>7. CASE UNCHANGED vars
  BY <1>1, <1>7 DEF vars
<1> QED
  BY <1>3, <1>4, <1>5, <1>6, <1>7 DEF Next

\* The instance shares the vocabulary of orders.
LEMMA LedgerVocabulary ==
  /\ Ledger!OrderIds = OrderIds /\ Ledger!Requests = Requests /\ Ledger!NoRequest = NoRequest
  /\ \A price : Ledger!PriceToIndex(price) = PriceToIndex(price)
BY DEF Ledger!OrderIds, OrderIds, Ledger!Requests, Requests, Ledger!LimitRequests, LimitRequests,
       Ledger!MarketRequests, MarketRequests, Ledger!Sides, Sides, Ledger!NoRequest, NoRequest,
       Ledger!MarketPrice, MarketPrice, Ledger!PriceToIndex, PriceToIndex

\* A step that moves no order out of the queue, the match and the book, and trades
\* nothing, is one of the ledger's stuttering steps.
LEMMA LedgerStutters ==
  ASSUME order' = order, remaining' = remaining, Created' = Created, Live' = Live
  PROVE  UNCHANGED Ledger!ledgerVars
BY DEF Live, Ledger!ledgerVars

LEMMA LedgerRetires ==
  ASSUME NEW o \in Live, Live' = Live \ {o},
         order' = order, remaining' = remaining, Created' = Created
  PROVE  Ledger!Next
<1>1. Ledger!Retire(o)
  BY DEF Live, Ledger!Retire
<1>2. \E r \in Live : Ledger!Retire(r)
  BY <1>1
<1> QED
  BY <1>2 DEF Live, Ledger!Next

LEMMA QuietLedger ==
  ASSUME UNCHANGED heapVars, UNCHANGED <<ordersQueue, book, agg>>
  PROVE  UNCHANGED Ledger!ledgerVars
<1>1. Resting' = Resting /\ Created' = Created /\ order' = order /\ remaining' = remaining
  BY DEF Resting, Created, heapVars
<1>2. Live' = Live
  BY <1>1 DEF Live
<1> QED
  BY <1>1, <1>2, LedgerStutters

\* Every order is in one place only.
LEMMA OnePlace ==
  ASSUME IInv
  PROVE  /\ \A p \in Resting : p \in OrderIds /\ p # agg /\ p \notin ToSet(ordersQueue)
                               /\ remaining[p] > 0
         /\ \A p \in ToSet(ordersQueue) : p \in OrderIds /\ p # agg /\ p \in Created
         /\ \A p \in Live : p \in OrderIds /\ p \in Created /\ remaining[p] > 0
         /\ NoOrder \notin Live
<1>1. \A p \in Resting : p \in OrderIds /\ p \in Created /\ remaining[p] > 0
  BY RestingOrders DEF IInv, Provenance
<1>2. \A p \in ToSet(ordersQueue) : p \in OrderIds /\ p \in Created
  BY DEF IInv, Provenance, Created
<1>3. /\ \A p \in ToSet(ordersQueue) : p > agg /\ \A r \in Resting : p > r
      /\ agg # NoOrder => \A p \in Resting : agg > p
  BY DEF IInv, OwnedOnce
<1>4. \A p \in OrderIds : ~(p > p) /\ p # NoOrder
  BY OrderIdsAreInts
<1>5. agg \in OrderIds => agg \in Created
  BY OrderIdsAreInts DEF IInv, Provenance
<1>6. \A p \in Resting : p # agg /\ p \notin ToSet(ordersQueue)
  BY <1>1, <1>3, <1>4
<1>7. \A p \in ToSet(ordersQueue) : p # agg
  BY <1>2, <1>3, <1>4
<1> QED
  BY <1>1, <1>2, <1>4, <1>5, <1>6, <1>7 DEF Live

LEMMA AddOrderLedger ==
  ASSUME IInv, NEW o \in OrderIds, NEW d \in Requests, AddOrder(o, d)
  PROVE  [Ledger!Next]_(Ledger!ledgerVars)
<1> USE DEF heapVars, bookVars, sweepVars, clearVars, eventVars
<1>1. CASE Fail("null_deref")
  BY <1>1, QuietLedger DEF Fail
<1>2. CASE ~Fail("null_deref")
  <2>1. /\ NextId(o)
        /\ order'     = [order EXCEPT ![o] = d]
        /\ remaining' = [remaining EXCEPT ![o] = d.qty]
        /\ status'    = [status EXCEPT ![o] = "Accepted"]
        /\ ordersQueue' = Append(ordersQueue, o)
        /\ UNCHANGED <<bookVars, pc, seen, sweepVars, clearVars, fillEvents, emitted, lost, fault>>
    BY <1>2 DEF AddOrder
  <2>2. o \notin Created
    BY <2>1 DEF NextId, Created
  <2>3. remaining'[o] = d.qty /\ \A p \in OrderIds : p # o => remaining'[p] = remaining[p]
    BY <2>1 DEF IInv, TypeOK
  <2>4. Created' = Created \cup {o}
    BY <2>1 DEF IInv, TypeOK, Created
  <2>5. ToSet(ordersQueue') = ToSet(ordersQueue) \cup {o}
    <3>1. ordersQueue \in Seq(OrderIds) /\ Increasing(ordersQueue)
      BY DEF IInv, TypeOK, OwnedOnce
    <3>2. \A p \in ToSet(ordersQueue) : p < o
      <4>1. \A p \in Created : ~(o < p)
        BY <2>2 DEF IInv, Provenance
      <4> QED
        BY <2>2, <4>1, OnePlace DEF OrderIds
    <3>3. ToSet(PushBack(ordersQueue, o)) = ToSet(ordersQueue) \cup {o}
      BY <3>1, <3>2, PushBackProperties, OrderIdsAreInts
    <3> QED
      BY <2>1, <3>3 DEF PushBack
  <2>6. Resting' = Resting /\ o \notin Live
    BY <2>1, <2>2, OnePlace DEF Resting
  <2>7. Live' = Live \cup {p \in {o} : d.qty > 0}
    <3>1. /\ \A p \in ToSet(ordersQueue) : p # o
          /\ agg # o
      BY <2>2, OnePlace, OrderIdsAreInts DEF IInv, Provenance
    <3>2. \A p : p \in Live' <=>
             \/ p \in ToSet(ordersQueue) \cup {o, agg} /\ p \in OrderIds /\ remaining'[p] > 0
             \/ p \in Resting
      BY <2>1, <2>5, <2>6 DEF Live
    <3>3. \A p : p \in Live <=>
             \/ p \in ToSet(ordersQueue) \cup {agg} /\ p \in OrderIds /\ remaining[p] > 0
             \/ p \in Resting
      BY DEF Live
    <3> HIDE DEF Live
    <3>4. ASSUME NEW p, p # o PROVE p \in Live' <=> p \in Live
      BY <2>3, <3>2, <3>3, <3>4
    <3>5. o \in Live' <=> d.qty > 0
      <4>1. o \notin Resting
        BY <2>2, OnePlace DEF IInv, Provenance
      <4> QED
        BY <2>3, <3>2, <4>1
    <3> QED
      BY <2>6, <3>4, <3>5
  <2>8. Ledger!Submit(o, d)
    BY <2>1, <2>2, <2>4, <2>7 DEF Live, Ledger!Submit
  <2>9. o \in Ledger!OrderIds /\ d \in Ledger!Requests
    BY LedgerVocabulary
  <2> QED
    BY <2>8, <2>9 DEF Ledger!Next
<1> QED
  BY <1>1, <1>2

\* An order is taken for a match, and given up at once if it is a market order that
\* sees no best price.
LEMMA TakeOrderLedger ==
  ASSUME IInv, TakeOrder
  PROVE  [Ledger!Next]_(Ledger!ledgerVars)
<1> USE DEF heapVars, bookVars, sweepVars, clearVars, eventVars
<1>1. /\ pc["matcher"] = "idle" /\ ordersQueue # <<>>
      /\ ordersQueue' = Tail(ordersQueue)
      /\ UNCHANGED <<heapVars, bookVars, seen, clearVars, eventVars, fault>>
  BY DEF TakeOrder
<1>2. PICK o \in OrderIds : o = Head(ordersQueue)
  BY <1>1, HeadTailProperties DEF IInv, TypeOK
<1>3. \/ Return
      \/ agg' = o
  BY <1>2 DEF TakeOrder
<1>4. agg = NoOrder /\ NoOrder \notin OrderIds
  BY <1>1, OrderIdsAreInts DEF IInv, Control
<1>5. /\ ToSet(ordersQueue) = ToSet(Tail(ordersQueue)) \cup {o} /\ o \notin ToSet(Tail(ordersQueue))
  <2>1. ordersQueue \in Seq(OrderIds) /\ Increasing(ordersQueue)
    BY DEF IInv, TypeOK, OwnedOnce
  <2>2. /\ ToSet(ordersQueue) = ToSet(Tail(ordersQueue)) \cup {o}
        /\ \A p \in ToSet(Tail(ordersQueue)) : p > o
    BY <1>1, <1>2, <2>1, TailProperties, OrderIdsAreInts
  <2> QED
    BY <2>2, OrderIdsAreInts
<1>6. Resting' = Resting /\ Created' = Created /\ o \notin Resting
  BY <1>1, <1>5, OnePlace DEF Resting, Created
<1>7. CASE agg' = o
  <2>1. Live' = Live
    BY <1>1, <1>4, <1>5, <1>6, <1>7 DEF Live
  <2> QED
    BY <1>1, <1>6, <2>1, LedgerStutters
<1>8. CASE Return
  <2>1. agg' = NoOrder
    BY <1>8 DEF Return
  <2>2. Live' = Live \ {o}
    BY <1>1, <1>4, <1>5, <1>6, <2>1 DEF Live
  <2>3. CASE o \in Live
    BY <1>1, <1>6, <2>2, <2>3, LedgerRetires
  <2>4. CASE o \notin Live
    <3>1. Live' = Live
      BY <2>2, <2>4
    <3> QED
      BY <1>1, <1>6, <3>1, LedgerStutters
  <2> QED
    BY <2>3, <2>4
<1> QED
  BY <1>3, <1>7, <1>8

\* One trade of the sweep is one trade of the ledger: both orders are live, their
\* limits cross, and the quantity is one that both still have.
LEMMA FillOneLedger ==
  ASSUME IInv, SweepInLimit, FillOne
  PROVE  [Ledger!Next]_(Ledger!ledgerVars)
<1> USE DEF heapVars, bookVars, sweepVars, clearVars, eventVars
<1> DEFINE q == FillQty
<1>1. CASE Fail("assert")
  BY <1>1, QuietLedger DEF Fail
<1>2. CASE ~Fail("assert")
  <2>1. /\ pc["matcher"] = "level" /\ it # NoOrder /\ it \in Resting /\ q > 0
        /\ remaining' = AfterTrade(q)
        /\ status' = [status EXCEPT ![it] = StatusAfter(remaining'[it]),
                                    ![agg] = StatusAfter(remaining'[agg])]
        /\ IF remaining'[it] = 0
           THEN book' = BookWithout(it) /\ Forget(it)
           ELSE UNCHANGED <<book, lookup>>
        /\ UNCHANGED <<order, ordersQueue, best, seen, agg, level, clearVars, fault>>
    BY <1>2 DEF FillOne, Listed
  <2>2. agg # NoOrder /\ level \in Levels
    BY <2>1 DEF IInv, Control
  <2>3. /\ agg \in OrderIds /\ agg \in Created /\ agg \notin Resting /\ order[agg] \in Requests
        /\ it \in OrderIds /\ it \in Created /\ it # agg /\ it \notin ToSet(ordersQueue)
        /\ agg \notin ToSet(ordersQueue)
    BY <2>1, <2>2, Aggressor, OnePlace DEF IInv, Provenance
  <2>4. /\ q \in Nat /\ q <= remaining[it] /\ q <= remaining[agg]
        /\ remaining[it] \in Nat /\ remaining[agg] \in Nat
    BY <2>3 DEF IInv, TypeOK, FillQty
  <2> HIDE DEF q
  <2>5. /\ remaining' = [remaining EXCEPT ![it] = @ - q, ![agg] = @ - q]
        /\ remaining'[it] = remaining[it] - q /\ remaining'[agg] = remaining[agg] - q
        /\ \A p \in OrderIds : p # it /\ p # agg => remaining'[p] = remaining[p]
    BY <2>1, <2>3 DEF IInv, TypeOK, AfterTrade
  <2>6. Created' = Created
    <3>1. \A left : StatusAfter(left) # "none"
      BY DEF StatusAfter
    <3> QED
      BY <2>1, <2>3, <3>1 DEF IInv, TypeOK, Created
  <2>7. Resting' = Resting \ {p \in {it} : remaining'[it] = 0}
    <3>1. CASE remaining'[it] = 0
      <4>1. book' = BookWithout(it)
        BY <2>1, <3>1
      <4>2. \A p \in Resting : p # it => remaining'[p] > 0
        BY <2>3, <2>5, OnePlace
      <4>3. Resting' = Resting \ {it}
        BY <2>1, <4>1, <4>2, BookShrinks DEF IInv
      <4> QED
        BY <3>1, <4>3
    <3>2. CASE remaining'[it] # 0
      <4>1. Resting' = Resting
        BY <2>1, <3>2 DEF Resting
      <4> QED
        BY <3>2, <4>1
    <3> QED
      BY <3>1, <3>2
  <2>8. it \in Live /\ agg \in Live
    BY <2>1, <2>3, <2>4 DEF Live
  <2>9. Live' = Live \ {p \in {it, agg} : remaining'[p] = 0}
    <3>1. \A p : p \in Live' <=>
             \/ p \in ToSet(ordersQueue) \cup {agg} /\ p \in OrderIds /\ remaining'[p] > 0
             \/ p \in Resting /\ ~(p = it /\ remaining'[it] = 0)
      BY <2>1, <2>7 DEF Live
    <3>2. \A p : p \in Live <=>
             \/ p \in ToSet(ordersQueue) \cup {agg} /\ p \in OrderIds /\ remaining[p] > 0
             \/ p \in Resting
      BY DEF Live
    <3> HIDE DEF Live
    <3>3. ASSUME NEW p, p # it, p # agg PROVE p \in Live' <=> p \in Live
      BY <2>5, <3>1, <3>2, <3>3
    <3>4. agg \in Live' <=> remaining'[agg] # 0
      <4>1. agg \in Live' <=> remaining'[agg] > 0
        BY <2>3, <3>1
      <4> QED
        BY <2>4, <2>5, <4>1
    <3>5. it \in Live' <=> remaining'[it] # 0
      BY <2>1, <2>3, <3>1
    <3> QED
      BY <2>8, <3>3, <3>4, <3>5
  <2>10. /\ order[it].side = RestSide /\ LimitLevel(it) = level /\ order[it].type = "LIMIT"
    <3>1. order[it].side = RestSide /\ LimitLevel(it) = level
      BY <2>1 DEF IInv, Iterators
    <3>2. PICK side \in Sides, l \in Levels : it \in ToSet(book[side][l])
      BY <2>1, RestingMember
    <3>3. order[it].type = "LIMIT"
      BY <3>2 DEF IInv, BookSound
    <3> QED
      BY <3>1, <3>3
  <2>11. AggSide \in Sides /\ WithinLimit(level)
    BY <2>1, <2>2, Aggressor DEF SweepInLimit
  <2>12. ASSUME NEW buy \in {it, agg}, NEW sell \in {it, agg},
                order[buy].side = "BUY", order[sell].side = "SELL", buy # sell
         PROVE  Ledger!Next
    <3>1. Ledger!Marketable(buy, sell)
      <4>1. CASE IsMarket(agg)
        BY <2>12, <4>1 DEF Ledger!Marketable, IsMarket
      <4>2. CASE ~IsMarket(agg)
        <5>1. IF AggSide = "SELL" THEN level >= LimitLevel(agg) ELSE level <= LimitLevel(agg)
          BY <2>11, <4>2 DEF WithinLimit
        <5>2. CASE sell = agg /\ buy = it
          <6>1. LimitLevel(buy) >= LimitLevel(sell)
            BY <2>10, <2>12, <5>1, <5>2 DEF AggSide
          <6> QED
            BY <6>1, LedgerVocabulary DEF Ledger!Marketable, LimitLevel
        <5>3. CASE buy = agg /\ sell = it
          <6>1. LimitLevel(sell) <= LimitLevel(buy)
            BY <2>10, <2>12, <5>1, <5>3 DEF AggSide
          <6>2. PriceToIndex(order[buy].price) \in Levels
                /\ PriceToIndex(order[sell].price) \in Levels
            BY <2>2, <2>3, <2>10, <4>2, <5>3, RequestFields DEF IsMarket, LimitLevel
          <6>3. PriceToIndex(order[buy].price) >= PriceToIndex(order[sell].price)
            BY <6>1, <6>2 DEF LimitLevel, Levels
          <6> QED
            BY <6>3, LedgerVocabulary DEF Ledger!Marketable
        <5> QED
          BY <2>12, <5>2, <5>3
      <4> QED
        BY <4>1, <4>2
    <3>2. /\ remaining' = [remaining EXCEPT ![buy] = @ - q, ![sell] = @ - q]
          /\ q > 0 /\ q <= remaining[buy] /\ q <= remaining[sell] /\ q \in 1 .. remaining[buy]
      <4>1. remaining \in [OrderIds -> Nat]
        BY DEF IInv, TypeOK
      <4>2. [remaining EXCEPT ![it] = @ - q, ![agg] = @ - q]
              = [remaining EXCEPT ![agg] = @ - q, ![it] = @ - q]
        BY <2>3, <4>1
      <4>3. q > 0 /\ q <= remaining[it] /\ q <= remaining[agg]
        BY <2>1, <2>4 DEF q
      <4>4. (buy = it /\ sell = agg) \/ (buy = agg /\ sell = it)
        BY <2>12
      <4>5. q \in 1 .. remaining[buy]
        BY <2>4, <4>3, <4>4
      <4>6. CASE buy = it /\ sell = agg
        BY <2>5, <4>3, <4>5, <4>6
      <4>7. CASE buy = agg /\ sell = it
        BY <2>5, <4>2, <4>3, <4>5, <4>7
      <4> QED
        BY <4>4, <4>6, <4>7
    <3>3. Live' = Live \ {p \in {buy, sell} : remaining'[p] = 0}
      BY <2>9, <2>12
    <3>4. buy \in Live /\ sell \in Live
      BY <2>8, <2>12
    <3>5. PICK n \in 1 .. remaining[buy] : n = q
      BY <3>2
    <3>6. Ledger!Trade(buy, sell, n)
      <4>1. order' = order /\ order[buy].side = "BUY" /\ order[sell].side = "SELL"
        BY <2>1, <2>12
      <4>2. UNCHANGED <<order, Created>>
        BY <2>6, <4>1
      <4> QED
        BY <3>1, <3>2, <3>3, <3>4, <3>5, <4>1, <4>2 DEF Live, Ledger!Trade
    <3>7. \E b \in Live, s \in Live : \E m \in 1 .. remaining[b] : Ledger!Trade(b, s, m)
      BY <3>4, <3>6
    <3> QED
      BY <3>7 DEF Live, Ledger!Next
  <2>13. CASE AggSide = "BUY"
    BY <2>3, <2>10, <2>12, <2>13 DEF RestSide, AggSide, Opposite
  <2>14. CASE AggSide = "SELL"
    BY <2>3, <2>10, <2>12, <2>14 DEF RestSide, AggSide, Opposite
  <2> QED
    BY <2>11, <2>13, <2>14, ControlPoints
<1> QED
  BY <1>1, <1>2

\* The rest of a market order is given up.
LEMMA EndMarketLedger ==
  ASSUME IInv, EndMarket
  PROVE  [Ledger!Next]_(Ledger!ledgerVars)
<1> USE DEF heapVars, bookVars, sweepVars, clearVars, eventVars
<1>1. /\ pc["matcher"] = "sweep" /\ Return
      /\ UNCHANGED <<order, remaining, ordersQueue, bookVars, seen, clearVars, fault>>
      /\ status' = [status EXCEPT ![agg] = "Unfilled"] \/ status' = status
  BY DEF EndMarket, SweepOver
<1>2. agg # NoOrder
  BY <1>1 DEF IInv, Control
<1>3. agg \in Created /\ agg \notin Resting /\ agg' = NoOrder /\ NoOrder \notin OrderIds
  BY <1>1, <1>2, Aggressor, OrderIdsAreInts DEF Return
<1>4. Resting' = Resting /\ Created' = Created
  BY <1>1, <1>3 DEF Resting, Created, IInv, TypeOK
<1>5. Live' = Live \ {agg}
  BY <1>1, <1>3, <1>4, OnePlace DEF Live
<1>6. CASE agg \in Live
  BY <1>1, <1>4, <1>5, <1>6, LedgerRetires
<1>7. CASE agg \notin Live
  BY <1>1, <1>4, <1>5, <1>7, LedgerStutters
<1> QED
  BY <1>6, <1>7

\* An order that goes from the match to the book stays live.
LEMMA EndLimitLedger ==
  ASSUME IInv, EndLimit
  PROVE  [Ledger!Next]_(Ledger!ledgerVars)
<1> USE DEF heapVars, bookVars, sweepVars, clearVars, eventVars
<1>1. CASE Fail("assert")
  BY <1>1, QuietLedger DEF Fail
<1>2. CASE ~Fail("assert")
  <2>1. /\ pc["matcher"] = "sweep" /\ ~IsMarket(agg) /\ remaining[agg] > 0
        /\ book' = BookWith(agg) /\ Return
        /\ UNCHANGED <<heapVars, ordersQueue, best, seen, clearVars, eventVars, fault>>
    BY <1>2 DEF EndLimit, SweepOver
  <2>2. agg # NoOrder
    BY <2>1 DEF IInv, Control
  <2>3. agg \in OrderIds /\ agg \in Created /\ order[agg] \in Requests
    BY <2>2, Aggressor
  <2>4. Resting' = Resting \cup {agg}
    <3>1. \A p \in Resting : p \in OrderIds /\ agg > p
      BY <2>2, RestingOrders DEF IInv, OwnedOnce
    <3>2. \A p \in Resting : p < agg
      BY <2>3, <3>1, OrderIdsAreInts
    <3> QED
      BY <2>1, <2>3, <3>2, BookGrows DEF IInv
  <2>5. Live' = Live
    <3>1. agg' = NoOrder /\ NoOrder \notin OrderIds
      BY <2>1, OrderIdsAreInts DEF Return
    <3> QED
      BY <2>1, <2>3, <2>4, <3>1 DEF Live
  <2> QED
    BY <2>1, <2>5, LedgerStutters DEF Created
<1> QED
  BY <1>1, <1>2

\* A cancel, and ClearBook, retire an order that rests.
LEMMA UnlinkLedger ==
  ASSUME IInv, NEW o \in Resting, book' = BookWithout(o),
         order' = order, remaining' = remaining, Created' = Created,
         UNCHANGED <<ordersQueue, agg>>
  PROVE  Ledger!Next
<1>1. \A p \in Resting : remaining'[p] > 0
  BY OnePlace
<1>2. Resting' = Resting \ {o}
  BY <1>1, BookShrinks DEF IInv
<1>3. o \in Live /\ Live' = Live \ {o}
  BY <1>2, OnePlace DEF Live
<1> QED
  BY <1>3, LedgerRetires

LEMMA CancelLedger ==
  ASSUME IInv, NEW o \in OrderIds, CancelOrder(o)
  PROVE  Ledger!Next
<1> USE DEF heapVars, bookVars, sweepVars, clearVars, eventVars
<1>1. o \in Resting
  BY DEF CancelOrder, IInv, LookupMatchesBook
<1>2. /\ book' = BookWithout(o)
      /\ order' = order /\ remaining' = remaining /\ UNCHANGED <<ordersQueue, agg>>
      /\ Created' = Created
  BY DEF CancelOrder, Created
<1> QED
  BY <1>1, <1>2, UnlinkLedger

LEMMA ClearOneLedger ==
  ASSUME IInv, ClearOne
  PROVE  [Ledger!Next]_(Ledger!ledgerVars)
<1> USE DEF heapVars, bookVars, sweepVars, clearVars, eventVars
<1>1. CASE Fail("use_after_free")
  BY <1>1, QuietLedger DEF Fail
<1>2. CASE ~Fail("use_after_free")
  <2>1. PICK o \in Resting : o = clearIt
    BY <1>2 DEF ClearOne, Listed
  <2>2. /\ status' = [status EXCEPT ![o] = "Done"] /\ book' = BookWithout(o)
        /\ order' = order /\ remaining' = remaining /\ UNCHANGED <<ordersQueue, agg>>
    BY <1>2, <2>1 DEF ClearOne
  <2>3. Created' = Created
    BY <2>2 DEF Created, IInv, TypeOK, Provenance
  <2> QED
    BY <2>2, <2>3, UnlinkLedger
<1> QED
  BY <1>1, <1>2

\* The match is over with nothing left of the aggressor.
LEMMA ReportFilledLedger ==
  ASSUME IInv, Reports, ReportFilled
  PROVE  [Ledger!Next]_(Ledger!ledgerVars)
<1> USE DEF heapVars, bookVars, sweepVars, clearVars, eventVars
<1>1. /\ pc["matcher"] = "filled" /\ Return
      /\ UNCHANGED <<heapVars, ordersQueue, bookVars, seen, clearVars, fault>>
  BY DEF ReportFilled
<1>2. agg # NoOrder
  BY <1>1 DEF IInv, Control
<1>3. remaining[agg] = 0
  <2>1. agg \in Created /\ status[agg] = "Filled"
    BY <1>1, <1>2, Aggressor DEF Reports, StatusOfOwned
  <2> QED
    BY <2>1 DEF Reports, StatusOfOwned, StatusFits
<1>4. agg' = NoOrder /\ NoOrder \notin OrderIds
  BY <1>1, OrderIdsAreInts DEF Return
<1>5. Resting' = Resting /\ Created' = Created
  BY <1>1 DEF Resting, Created
<1>6. Live' = Live
  BY <1>1, <1>3, <1>4, <1>5 DEF Live
<1> QED
  BY <1>1, <1>5, <1>6, LedgerStutters

LEMMA NextLedger ==
  ASSUME IInv, Reports, SweepInLimit, [Next]_vars
  PROVE  [Ledger!Next]_(Ledger!ledgerVars)
<1> USE DEF heapVars, bookVars, sweepVars, clearVars, eventVars
<1>1. CASE MatchingThread
  <2>1. CASE EnterLevel \/ SkipOwn \/ StopMatching
    BY <2>1, QuietLedger DEF EnterLevel, SkipOwn, StopMatching
  <2>2. CASE Dangling \/ Update("matcher")
    BY <2>2, QuietLedger DEF Dangling, Fail, Update, ScanBest, StoreBest
  <2>3. CASE TakeOrder
    BY <2>3, TakeOrderLedger
  <2>4. CASE FillOne
    BY <2>4, FillOneLedger
  <2>5. CASE ReportFilled
    BY <2>5, ReportFilledLedger
  <2>6. CASE LeaveLevel
    BY <2>6, QuietLedger DEF LeaveLevel, Fail
  <2>7. CASE EndMarket
    BY <2>7, EndMarketLedger
  <2>8. CASE EndLimit
    BY <2>8, EndLimitLedger
  <2> QED
    BY <1>1, <2>1, <2>2, <2>3, <2>4, <2>5, <2>6, <2>7, <2>8 DEF MatchingThread, Sweep
<1>2. CASE MessageThread
  <2>1. CASE Update("exchange")
    BY <2>1, QuietLedger DEF Update, ScanBest, StoreBest
  <2> QED
    BY <1>2, <2>1, AddOrderLedger, CancelLedger DEF MessageThread
<1>3. CASE Destructor
  <2>1. CASE BeginClear \/ ClearNext \/ JoinFillThread
    BY <2>1, QuietLedger, Zenon DEF BeginClear, ClearNext, JoinFillThread
  <2> QED
    BY <1>3, <2>1, ClearOneLedger DEF Destructor
<1>4. CASE FillThread
  BY <1>4, QuietLedger DEF FillThread, TakeFillEvent
<1>5. CASE UNCHANGED vars
  BY <1>5, QuietLedger DEF vars
<1> QED
  BY <1>1, <1>2, <1>3, <1>4, <1>5 DEF Next

LEMMA InitLedger ==
  ASSUME Init
  PROVE  Ledger!Init /\ SweepInLimit
<1>1. Created = {} /\ ToSet(<<>>) = {} /\ NoOrder \notin OrderIds
  BY OrderIdsAreInts DEF Init, Created, ToSet
<1>2. Resting = {}
  BY <1>1, RestingMember DEF Init
<1>3. Live = {}
  BY <1>1, <1>2 DEF Init, Live
<1>4. SweepInLimit
  BY DEF Init, SweepInLimit, Threads
<1> QED
  BY <1>1, <1>3, <1>4, LedgerVocabulary DEF Init, Live, Ledger!Init

\* The engine implements the ledger: whatever the interleaving, only live orders
\* whose limits cross trade, both lose the same quantity, and no order trades after
\* it was cancelled, cleared, filled or given up.
THEOREM EngineImplementsLedger == Spec => LedgerSpec
<1>1. Init => Ledger!Init /\ SweepInLimit /\ Reports
  BY InitLedger, InitReports
<1>2. IInv /\ Reports /\ [Next]_vars => Reports'
  BY NextReports
<1>3. IInv /\ SweepInLimit /\ [Next]_vars => SweepInLimit'
  BY NextSweepInLimit
<1>4. IInv /\ Reports /\ SweepInLimit /\ [Next]_vars => [Ledger!Next]_(Ledger!ledgerVars)
  BY NextLedger
<1> QED
  BY <1>1, <1>2, <1>3, <1>4, EngineInvariant, PTL DEF Spec, LedgerSpec, Ledger!Spec
=============================================================================
