------------------------------- MODULE Orders -------------------------------
(***************************************************************************)
(* The vocabulary of orders and prices that the specifications share: the  *)
(* sides, the requests that pass the ExchangeServer's validation, and the  *)
(* conversion between a price and an index of the order book's vectors.    *)
(***************************************************************************)
EXTENDS Integers

CONSTANTS
    MaxOrders,    \* bound: how many orders the Exchange ever creates
    MaxLevel,     \* last index of the bids and asks vectors
    SubTick,      \* price units per tick (1: only whole ticks are sent)
    LimitPrices,  \* prices of limit orders, in units of 1/SubTick tick
    Quantities,   \* quantities that pass the server's validation
    Sessions      \* broker sessions

Sides       == {"BUY", "SELL"}
OrderIds    == 1 .. MaxOrders
NoOrder     == 0                  \* a null pointer, an iterator at the end
NoPrice     == -1                 \* NO_BID and NO_ASK
MarketPrice == 0                  \* price_ of an order made without a price
Levels      == 0 .. MaxLevel

Opposite(side) == IF side = "BUY" THEN "SELL" ELSE "BUY"

\* size_t PriceToIndex(Price): the nearest tick, halves rounded up
PriceToIndex(price) == (2 * price + SubTick) \div (2 * SubTick)
IndexToPrice(index) == index * SubTick

\* A limit order with a price or a market order without one.  Nothing makes the
\* price a whole number of ticks, and a quantity of 0 passes.
LimitRequests ==
    [side: Sides, type: {"LIMIT"}, price: LimitPrices, qty: Quantities, session: Sessions]
MarketRequests ==
    [side: Sides, type: {"MARKET"}, price: {MarketPrice}, qty: Quantities, session: Sessions]
Requests  == LimitRequests \cup MarketRequests
NoRequest == [side |-> "BUY", type |-> "MARKET", price |-> MarketPrice, qty |-> 0, session |-> 0]

ASSUME SizesAssumption == MaxOrders \in Nat /\ MaxLevel \in Nat

ASSUME PricesAssumption ==
    /\ SubTick \in Nat \ {0}
    /\ LimitPrices \subseteq Nat \ {0}
    /\ \A price \in LimitPrices : PriceToIndex(price) \in Levels

ASSUME QuantitiesAssumption == Quantities \subseteq Nat
=============================================================================
