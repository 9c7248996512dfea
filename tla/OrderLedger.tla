---------------------------- MODULE OrderLedger ----------------------------
(***************************************************************************)
(* What an order matching engine promises, without books, queues, threads  *)
(* or events: orders are submitted, pairs of live orders on opposite sides *)
(* whose limits cross trade a quantity that both still have, and an order  *)
(* that is filled or retired never trades again.                           *)
(* MatchingEngine implements it (property LedgerSpec there).               *)
(***************************************************************************)
EXTENDS Orders

VARIABLES
    request,   \* what each order asked for
    left,      \* what it has not traded yet
    live,      \* the orders that may still trade
    known      \* the orders submitted so far

ledgerVars == <<request, left, live, known>>

Marketable(buy, sell) ==
    \/ request[buy].type = "MARKET" \/ request[sell].type = "MARKET"
    \/ PriceToIndex(request[buy].price) >= PriceToIndex(request[sell].price)

Init ==
    /\ request = [o \in OrderIds |-> NoRequest]
    /\ left    = [o \in OrderIds |-> 0]
    /\ live    = {}
    /\ known   = {}

\* an order for nothing is known but never live
Submit(o, d) ==
    /\ o \notin known
    /\ known'   = known \cup {o}
    /\ request' = [request EXCEPT ![o] = d]
    /\ left'    = [left EXCEPT ![o] = d.qty]
    /\ live'    = live \cup {p \in {o} : d.qty > 0}

Trade(buy, sell, q) ==
    /\ buy \in live /\ sell \in live
    /\ request[buy].side = "BUY" /\ request[sell].side = "SELL"
    /\ Marketable(buy, sell)
    /\ q > 0 /\ q <= left[buy] /\ q <= left[sell]
    /\ left' = [left EXCEPT ![buy] = @ - q, ![sell] = @ - q]
    /\ live' = live \ {o \in {buy, sell} : left'[o] = 0}
    /\ UNCHANGED <<request, known>>

\* cancelled, cleared at shutdown, or the rest of a market order given up
Retire(o) ==
    /\ o \in live
    /\ live' = live \ {o}
    /\ UNCHANGED <<request, left, known>>

Next ==
    \/ \E o \in OrderIds, d \in Requests : Submit(o, d)
    \/ \E buy \in live, sell \in live : \E q \in 1 .. left[buy] : Trade(buy, sell, q)
    \/ \E o \in live : Retire(o)

Spec == Init /\ [][Next]_ledgerVars
=============================================================================
