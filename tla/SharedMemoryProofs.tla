------------------------- MODULE SharedMemoryProofs -------------------------
(***************************************************************************)
(* SharedMemory for any number of eras and orders and any capacity of the  *)
(* rings: types, who hears of which orders, and when an Exchange dies.     *)
(***************************************************************************)
EXTENDS SharedMemory, TLAPS

\* What the server has done by the step it is at, and that a running process has a region.
Control ==
    /\ serverPc # "down" => link = serverRegion /\ serverRegion \in Regions
    /\ serverPc \notin {"down", "truncate"} => sized[serverRegion]
    /\ serverPc \in {"up", "joining"} => instruments[serverRegion] = "all"
    /\ exchangePc \notin {"down", "died"} => exchangeRegion \in Regions
    /\ exchangePc \in {"down", "died"} => exchangeRegion = NoRegion

\* An Exchange that starts in calm starts on the region of the server that is up, and
\* has all engines when it runs.
CalmStart ==
    calm => /\ exchangePc # "died"
            /\ exchangePc \in {"number", "names"} =>
                  serverPc = "up" /\ exchangeRegion = serverRegion
            /\ exchangePc = "running" => engines = "all"

\* order o is on a ring of region r or in the Exchange that uses it
OnRing(ring, r, o) == \E i \in DOMAIN ring[r] : ring[r][i] = o
Present(r, o) ==
    \/ OnRing(serverToExchange, r, o) \/ OnRing(exchangeToServer, r, o)
    \/ exchangeRegion = r /\ o \in resting \cup events

\* all servers from the era of o to the one before e were killed
KilledUpTo(o, e) == o[1] <= e /\ (o[1] .. e - 1) \subseteq killedEras

\* What is to be found through the name of the region.
Origin ==
    /\ \A r \in Regions : r > era => serverToExchange[r] = <<>> /\ exchangeToServer[r] = <<>>
    /\ serverPc = "down" /\ link # NoRegion => era \in killedEras
    /\ link # NoRegion => \A o \in Orders : Present(link, o) => KilledUpTo(o, era)
    /\ NewsOfOwnEra

\* The books and reports of an Exchange go with it.
Idle == exchangePc \in {"down", "died", "number", "names"} => resting = {} /\ events = {}

IInv == TypeOK /\ Control /\ CalmStart /\ Idle /\ Origin

-----------------------------------------------------------------------------
(* Rings *)

LEMMA EnqueueRing ==
    ASSUME NEW ring \in [Regions -> Seq(Orders)], NEW r \in Regions, NEW o \in Orders,
           \A q \in Regions : Len(ring[q]) <= RingCap
    PROVE  /\ Enqueue(ring, r, o) \in [Regions -> Seq(Orders)]
           /\ \A q \in Regions : Len(Enqueue(ring, r, o)[q]) <= RingCap
           /\ \A q \in Regions : q # r => Enqueue(ring, r, o)[q] = ring[q]
           /\ \A q \in Regions, p \in Orders :
                 OnRing(Enqueue(ring, r, o), q, p) => OnRing(ring, q, p) \/ (q = r /\ p = o)
<1> USE LifeAssumption
<1>1. CASE Len(ring[r]) < RingCap
  <2>1. Enqueue(ring, r, o) = [ring EXCEPT ![r] = Append(ring[r], o)]
    BY <1>1 DEF Enqueue
  <2>2. ring[r] \in Seq(Orders)
    OBVIOUS
  <2>3. /\ Append(ring[r], o) \in Seq(Orders) /\ Len(Append(ring[r], o)) = Len(ring[r]) + 1
        /\ \A i \in 1 .. Len(ring[r]) : Append(ring[r], o)[i] = ring[r][i]
        /\ Append(ring[r], o)[Len(ring[r]) + 1] = o
    BY <2>2
  <2>4. \A q \in Regions : Len(Enqueue(ring, r, o)[q]) <= RingCap
    <3> SUFFICES ASSUME NEW q \in Regions PROVE Len(Enqueue(ring, r, o)[q]) <= RingCap
      OBVIOUS
    <3>1. CASE q = r
      <4>1. Len(ring[r]) \in Nat /\ Enqueue(ring, r, o)[q] = Append(ring[r], o)
        BY <2>1, <2>2, <3>1
      <4> QED
        BY <4>1, <2>3, <1>1
    <3>2. CASE q # r
      BY <2>1, <3>2
    <3> QED
      BY <3>1, <3>2
  <2>5. ASSUME NEW q \in Regions, NEW p \in Orders, OnRing(Enqueue(ring, r, o), q, p), q = r
        PROVE  OnRing(ring, q, p) \/ p = o
    <3>1. PICK i \in DOMAIN Append(ring[r], o) : Append(ring[r], o)[i] = p
      BY <2>1, <2>5 DEF OnRing
    <3>2. DOMAIN Append(ring[r], o) = 1 .. Len(ring[r]) + 1 /\ DOMAIN ring[r] = 1 .. Len(ring[r])
      BY <2>2, <2>3
    <3>3. Len(ring[r]) \in Nat
      BY <2>2
    <3>4. CASE i \in 1 .. Len(ring[r])
      BY <3>1, <3>2, <3>4, <2>3, <2>5 DEF OnRing
    <3>5. CASE i = Len(ring[r]) + 1
      BY <3>1, <3>5, <2>3
    <3> QED
      BY <3>1, <3>2, <3>3, <3>4, <3>5
  <2>6. \A q \in Regions : q # r => Enqueue(ring, r, o)[q] = ring[q]
    BY <2>1
  <2>7. Enqueue(ring, r, o) \in [Regions -> Seq(Orders)]
    BY <2>1, <2>3
  <2> QED
    BY <2>4, <2>5, <2>6, <2>7 DEF OnRing
<1>2. CASE ~(Len(ring[r]) < RingCap)
  BY <1>2 DEF Enqueue
<1> QED
  BY <1>1, <1>2

LEMMA TailRing ==
    ASSUME NEW ring \in [Regions -> Seq(Orders)], NEW r \in Regions, ring[r] # <<>>,
           \A q \in Regions : Len(ring[q]) <= RingCap
    PROVE  /\ [ring EXCEPT ![r] = Tail(@)] \in [Regions -> Seq(Orders)]
           /\ \A q \in Regions : Len([ring EXCEPT ![r] = Tail(@)][q]) <= RingCap
           /\ Head(ring[r]) \in Orders /\ OnRing(ring, r, Head(ring[r]))
           /\ \A q \in Regions, p \in Orders :
                 OnRing([ring EXCEPT ![r] = Tail(@)], q, p) => OnRing(ring, q, p)
<1> DEFINE new == [ring EXCEPT ![r] = Tail(@)]
<1> USE LifeAssumption
<1>1. ring[r] \in Seq(Orders)
  OBVIOUS
<1>2. /\ Len(ring[r]) \in Nat \ {0} /\ DOMAIN ring[r] = 1 .. Len(ring[r])
      /\ Tail(ring[r]) \in Seq(Orders) /\ Len(Tail(ring[r])) = Len(ring[r]) - 1
      /\ \A i \in 1 .. Len(ring[r]) - 1 : Tail(ring[r])[i] = ring[r][i + 1]
      /\ Head(ring[r]) = ring[r][1] /\ Head(ring[r]) \in Orders
  BY <1>1
<1>3. new[r] = Tail(ring[r]) /\ (\A q \in Regions : q # r => new[q] = ring[q])
  OBVIOUS
<1>4. \A q \in Regions : Len(new[q]) <= RingCap
  BY <1>2, <1>3
<1>5. OnRing(ring, r, Head(ring[r]))
  BY <1>2 DEF OnRing
<1>6. ASSUME NEW p \in Orders, OnRing(new, r, p) PROVE OnRing(ring, r, p)
  <2>1. PICK i \in DOMAIN Tail(ring[r]) : Tail(ring[r])[i] = p
    BY <1>3, <1>6 DEF OnRing
  <2>2. i \in 1 .. Len(ring[r]) - 1 /\ i + 1 \in 1 .. Len(ring[r])
    BY <1>2, <2>1
  <2> QED
    BY <1>2, <2>1, <2>2 DEF OnRing
<1>7. \A q \in Regions, p \in Orders : OnRing(new, q, p) => OnRing(ring, q, p)
  BY <1>3, <1>6 DEF OnRing
<1>8. new \in [Regions -> Seq(Orders)]
  BY <1>2
<1> QED
  BY <1>2, <1>4, <1>5, <1>7, <1>8
-----------------------------------------------------------------------------
(* Types *)

LEMMA InitIInv == Init => IInv
<1> SUFFICES ASSUME Init PROVE IInv
  OBVIOUS
<1> USE LifeAssumption DEF Init, Regions, Eras, NoRegion
<1>1. TypeOK
  <2>1. \A r \in Regions : serverToExchange[r] = <<>> /\ exchangeToServer[r] = <<>> /\ Len(<<>>) = 0
    OBVIOUS
  <2>2. serverToExchange \in [Regions -> Seq(Orders)]
        /\ exchangeToServer \in [Regions -> Seq(Orders)]
    OBVIOUS
  <2>3. \A r \in Regions : Len(serverToExchange[r]) <= RingCap
        /\ Len(exchangeToServer[r]) <= RingCap
    BY <2>1
  <2>4. link \in 0 .. era /\ era \in 0 .. MaxEras /\ serverRegion \in 0 .. era
        /\ exchangeRegion \in 0 .. era
    OBVIOUS
  <2>5. sized \in [Regions -> BOOLEAN] /\ isOpen \in [Regions -> BOOLEAN]
    OBVIOUS
  <2>6. instruments \in [Regions -> {"none", "number", "all"}]
    OBVIOUS
  <2>7. resting \subseteq Orders /\ events \subseteq Orders /\ forwarded \subseteq Orders
        /\ heard \subseteq Eras \X Orders /\ killedEras \subseteq 1 .. era
    OBVIOUS
  <2>8. calm \in BOOLEAN /\ refused \in BOOLEAN
    OBVIOUS
  <2>9. serverPc = "down" /\ exchangePc = "down" /\ engines = "none"
    OBVIOUS
  <2> HIDE DEF Init, Regions
  <2> QED
    BY <2>2, <2>3, <2>4, <2>5, <2>6, <2>7, <2>8, <2>9 DEF TypeOK
<1>2. Control /\ CalmStart /\ Idle
  BY DEF Control, CalmStart, Idle
<1>3. \A r \in Regions, o \in Orders : ~Present(r, o)
  BY DEF Present, OnRing
<1>4. Origin
  BY <1>3 DEF Origin, NewsOfOwnEra
<1> QED
  BY <1>1, <1>2, <1>4 DEF IInv

LEMMA TypeOKKept == TypeOK /\ Control /\ [Next]_vars => TypeOK'
<1> SUFFICES ASSUME TypeOK, Control, [Next]_vars PROVE TypeOK'
  OBVIOUS
<1> USE LifeAssumption
      DEF TypeOK, Eras, NoRegion, vars, regionVars, ringVars, serverVars, exchangeVars, historyVars
<1>0. Regions = 1 .. MaxEras
  BY DEF Regions
<1>1. CASE ServerOpen
  BY <1>1, <1>0 DEF ServerOpen, Control
<1>2. CASE ServerTruncate
  BY <1>2, <1>0 DEF ServerTruncate, ServerStep, Control
<1>3. CASE ServerBuild
  BY <1>3, <1>0 DEF ServerBuild, ServerStep, Control
<1>4. CASE ServerSetOpen
  BY <1>4, <1>0 DEF ServerSetOpen, ServerStep, Control
<1>5. CASE ServerNumber
  BY <1>5, <1>0 DEF ServerNumber, ServerStep, Control
<1>6. CASE ServerNames
  BY <1>6, <1>0 DEF ServerNames, ServerStep, AllNames, Control
<1>7. CASE SetOpen
  BY <1>7, <1>0 DEF SetOpen, Control
<1>8. CASE Relay
  <2>1. serverRegion \in Regions
    BY <1>8 DEF Relay, Control
  <2>2. Head(exchangeToServer[serverRegion]) \in Orders
    BY <1>8, <2>1, TailRing DEF Relay
  <2>3. era \in Eras
    BY <2>1, <1>0
  <2> QED
    BY <1>8, <2>1, <2>2, <2>3, TailRing DEF Relay
<1>9. CASE BeginShutdown
  BY <1>9, <1>0 DEF BeginShutdown, ServerStep, Control
<1>10. CASE EndShutdown
  BY <1>10, <1>0 DEF EndShutdown, Unlinked, Control
<1>11. CASE ServerKilled
  BY <1>11, <1>0 DEF ServerKilled, Control
<1>12. CASE ExchangeOpen
  <2>1. calm' \in BOOLEAN
    <3> HIDE DEF TypeOK
    <3> QED
      BY <1>12 DEF ExchangeOpen
  <2>2. exchangeRegion' \in 0 .. era' /\ exchangePc' = "number"
    BY <1>12 DEF ExchangeOpen
  <2>3. UNCHANGED <<regionVars, ringVars, serverVars, engines, resting, events, forwarded, heard,
                    killedEras, refused>>
    BY <1>12 DEF ExchangeOpen
  <2> QED
    BY <2>1, <2>2, <2>3
<1>13. CASE ReadNumber
  <2>1. CASE ExchangeGone("died")
    BY <1>13, <2>1, <1>0 DEF ReadNumber, ExchangeGone
  <2>2. CASE exchangePc' \in {"running", "names"}
        /\ UNCHANGED <<exchangeRegion, engines, resting, events>>
    BY <1>13, <2>2, <1>0 DEF ReadNumber
  <2> QED
    BY <1>13, <2>1, <2>2 DEF ReadNumber
<1>14. CASE ReadNames
  BY <1>14, <1>0 DEF ReadNames, Control
<1>15. CASE TakeOrder
  <2> DEFINE o == Head(serverToExchange[exchangeRegion])
  <2>1. exchangeRegion \in Regions
    BY <1>15 DEF TakeOrder, Control
  <2>2. o \in Orders
    BY <1>15, <2>1, TailRing DEF TakeOrder
  <2>3. serverToExchange' \in [Regions -> Seq(Orders)]
        /\ (\A q \in Regions : Len(serverToExchange'[q]) <= RingCap)
    BY <1>15, <2>1, TailRing DEF TakeOrder
  <2>4. exchangeToServer' \in [Regions -> Seq(Orders)]
        /\ (\A q \in Regions : Len(exchangeToServer'[q]) <= RingCap)
    BY <1>15, <2>1, <2>2, EnqueueRing DEF TakeOrder, Send
  <2>5. /\ exchangePc' \in {"running", "died"} /\ exchangeRegion' \in {exchangeRegion, 0}
        /\ engines' \in {engines, "none"} /\ resting' \subseteq Orders /\ events' \subseteq Orders
    <3>1. CASE ExchangeGone("died")
      BY <3>1 DEF ExchangeGone
    <3>2. CASE resting' = resting \cup {o}
          /\ UNCHANGED <<exchangePc, exchangeRegion, engines, events>>
      BY <1>15, <2>2, <3>2 DEF TakeOrder
    <3> QED
      BY <1>15, <3>1, <3>2 DEF TakeOrder
  <2>6. refused' \in BOOLEAN
        /\ UNCHANGED <<regionVars, serverVars, forwarded, heard, killedEras, calm>>
    BY <1>15 DEF TakeOrder, Send
  <2> HIDE DEF o
  <2> QED
    BY <2>3, <2>4, <2>5, <2>6
<1>16. CASE StopTaking
  BY <1>16, <1>0 DEF StopTaking, Control
<1>17. CASE ClearBooks
  BY <1>17, <1>0 DEF ClearBooks, Control
<1>18. CASE ExchangeEnds
  BY <1>18, <1>0 DEF ExchangeEnds, ExchangeGone, Control
<1>19. CASE ExchangeKilled
  BY <1>19, <1>0 DEF ExchangeKilled, ExchangeGone, Control
<1>20. ASSUME NEW k \in 1 .. MaxOrders, Forward(k) PROVE TypeOK'
  <2>1. serverRegion \in Regions /\ era \in Eras
    BY <1>20, <1>0 DEF Forward, Control
  <2>o. <<era, k>> \in Orders
    BY <2>1 DEF Orders
  <2>2. serverToExchange' \in [Regions -> Seq(Orders)]
        /\ (\A q \in Regions : Len(serverToExchange'[q]) <= RingCap)
    BY <1>20, <2>1, <2>o, EnqueueRing DEF Forward
  <2> QED
    BY <1>20, <2>o, <2>2 DEF Forward
<1>21. ASSUME NEW o \in Orders, Match(o) PROVE TypeOK'
  BY <1>21 DEF Match
<1>22. ASSUME NEW o \in Orders, Report(o) PROVE TypeOK'
  <2>1. exchangeRegion \in Regions
    BY <1>22 DEF Report, Control
  <2>2. exchangeToServer' \in [Regions -> Seq(Orders)]
        /\ (\A q \in Regions : Len(exchangeToServer'[q]) <= RingCap)
    BY <1>22, <2>1, EnqueueRing DEF Report, Send
  <2> QED
    BY <1>22, <2>1, <2>2 DEF Report, Send
<1>23. CASE UNCHANGED vars
  BY <1>23
<1> QED
  BY <1>1, <1>2, <1>3, <1>4, <1>5, <1>6, <1>7, <1>8, <1>9, <1>10, <1>11, <1>12, <1>13, <1>14,
     <1>15, <1>16, <1>17, <1>18, <1>19, <1>20, <1>21, <1>22, <1>23 DEF Next, Server, Exchange
-----------------------------------------------------------------------------
(* Control and the start of an Exchange *)

LEMMA ControlKept == TypeOK /\ Control /\ [Next]_vars => Control'
<1> SUFFICES ASSUME TypeOK, Control, [Next]_vars PROVE Control'
  OBVIOUS
<1> USE LifeAssumption
      DEF TypeOK, Control, Eras, Regions, NoRegion,
          vars, regionVars, ringVars, serverVars, exchangeVars, historyVars
<1>1. CASE ServerOpen
  BY <1>1 DEF ServerOpen
<1>2. CASE ServerTruncate
  BY <1>2 DEF ServerTruncate, ServerStep
<1>3. CASE ServerBuild
  BY <1>3 DEF ServerBuild, ServerStep
<1>4. CASE ServerSetOpen
  BY <1>4 DEF ServerSetOpen, ServerStep
<1>5. CASE ServerNumber
  BY <1>5 DEF ServerNumber, ServerStep
<1>6. CASE ServerNames
  BY <1>6 DEF ServerNames, ServerStep, AllNames
<1>7. CASE SetOpen
  BY <1>7 DEF SetOpen
<1>8. CASE Relay
  BY <1>8 DEF Relay
<1>9. CASE BeginShutdown
  BY <1>9 DEF BeginShutdown, ServerStep
<1>10. CASE EndShutdown
  BY <1>10 DEF EndShutdown, Unlinked
<1>11. CASE ServerKilled
  BY <1>11 DEF ServerKilled
<1>12. CASE ExchangeOpen
  BY <1>12 DEF ExchangeOpen
<1>13. CASE ReadNumber
  BY <1>13 DEF ReadNumber, ExchangeGone
<1>14. CASE ReadNames
  BY <1>14 DEF ReadNames
<1>15. CASE TakeOrder
  BY <1>15 DEF TakeOrder, ExchangeGone, Send, Always
<1>16. CASE StopTaking
  BY <1>16 DEF StopTaking
<1>17. CASE ClearBooks
  BY <1>17 DEF ClearBooks
<1>18. CASE ExchangeEnds
  BY <1>18 DEF ExchangeEnds, ExchangeGone
<1>19. CASE ExchangeKilled
  BY <1>19 DEF ExchangeKilled, ExchangeGone
<1>20. ASSUME NEW k \in 1 .. MaxOrders, Forward(k) PROVE Control'
  BY <1>20 DEF Forward
<1>21. ASSUME NEW o \in Orders, Match(o) PROVE Control'
  BY <1>21 DEF Match
<1>22. ASSUME NEW o \in Orders, Report(o) PROVE Control'
  BY <1>22 DEF Report, Send
<1>23. CASE UNCHANGED vars
  BY <1>23
<1> QED
  BY <1>1, <1>2, <1>3, <1>4, <1>5, <1>6, <1>7, <1>8, <1>9, <1>10, <1>11, <1>12, <1>13, <1>14,
     <1>15, <1>16, <1>17, <1>18, <1>19, <1>20, <1>21, <1>22, <1>23 DEF Next, Server, Exchange

LEMMA CalmStartKept == TypeOK /\ Control /\ CalmStart /\ [Next]_vars => CalmStart'
<1> SUFFICES ASSUME TypeOK, Control, CalmStart, [Next]_vars PROVE CalmStart'
  OBVIOUS
<1> USE DEF CalmStart, Control, vars, regionVars, ringVars, serverVars, exchangeVars, historyVars
<1>1. CASE ServerOpen
  BY <1>1 DEF ServerOpen
<1>2. CASE ServerTruncate
  BY <1>2 DEF ServerTruncate, ServerStep
<1>3. CASE ServerBuild
  BY <1>3 DEF ServerBuild, ServerStep
<1>4. CASE ServerSetOpen
  BY <1>4 DEF ServerSetOpen, ServerStep
<1>5. CASE ServerNumber
  BY <1>5 DEF ServerNumber, ServerStep
<1>6. CASE ServerNames
  BY <1>6 DEF ServerNames, ServerStep, AllNames
<1>7. CASE SetOpen
  BY <1>7 DEF SetOpen
<1>8. CASE Relay
  BY <1>8 DEF Relay
<1>9. CASE BeginShutdown
  BY <1>9 DEF BeginShutdown, ServerStep
<1>10. CASE EndShutdown
  BY <1>10 DEF EndShutdown, Unlinked
<1>11. CASE ServerKilled
  BY <1>11 DEF ServerKilled
<1>12. CASE ExchangeOpen
  BY <1>12 DEF ExchangeOpen
<1>13. CASE ReadNumber
  BY <1>13 DEF ReadNumber, ExchangeGone
<1>14. CASE ReadNames
  BY <1>14 DEF ReadNames
<1>15. CASE TakeOrder
  BY <1>15 DEF TakeOrder, ExchangeGone, Send, Always
<1>16. CASE StopTaking
  BY <1>16 DEF StopTaking
<1>17. CASE ClearBooks
  BY <1>17 DEF ClearBooks
<1>18. CASE ExchangeEnds
  BY <1>18 DEF ExchangeEnds, ExchangeGone
<1>19. CASE ExchangeKilled
  BY <1>19 DEF ExchangeKilled, ExchangeGone
<1>20. ASSUME NEW k \in 1 .. MaxOrders, Forward(k) PROVE CalmStart'
  BY <1>20 DEF Forward
<1>21. ASSUME NEW o \in Orders, Match(o) PROVE CalmStart'
  BY <1>21 DEF Match
<1>22. ASSUME NEW o \in Orders, Report(o) PROVE CalmStart'
  BY <1>22 DEF Report, Send
<1>23. CASE UNCHANGED vars
  BY <1>23
<1> QED
  BY <1>1, <1>2, <1>3, <1>4, <1>5, <1>6, <1>7, <1>8, <1>9, <1>10, <1>11, <1>12, <1>13, <1>14,
     <1>15, <1>16, <1>17, <1>18, <1>19, <1>20, <1>21, <1>22, <1>23 DEF Next, Server, Exchange

LEMMA IdleKept == TypeOK /\ Idle /\ [Next]_vars => Idle'
<1> SUFFICES ASSUME TypeOK, Idle, [Next]_vars PROVE Idle'
  OBVIOUS
<1> USE DEF Idle, vars, regionVars, ringVars, serverVars, exchangeVars, historyVars
<1>1. CASE ServerOpen
  BY <1>1 DEF ServerOpen
<1>2. CASE ServerTruncate
  BY <1>2 DEF ServerTruncate, ServerStep
<1>3. CASE ServerBuild
  BY <1>3 DEF ServerBuild, ServerStep
<1>4. CASE ServerSetOpen
  BY <1>4 DEF ServerSetOpen, ServerStep
<1>5. CASE ServerNumber
  BY <1>5 DEF ServerNumber, ServerStep
<1>6. CASE ServerNames
  BY <1>6 DEF ServerNames, ServerStep, AllNames
<1>7. CASE SetOpen
  BY <1>7 DEF SetOpen
<1>8. CASE Relay
  BY <1>8 DEF Relay
<1>9. CASE BeginShutdown
  BY <1>9 DEF BeginShutdown, ServerStep
<1>10. CASE EndShutdown
  BY <1>10 DEF EndShutdown, Unlinked
<1>11. CASE ServerKilled
  BY <1>11 DEF ServerKilled
<1>12. CASE ExchangeOpen
  BY <1>12 DEF ExchangeOpen
<1>13. CASE ReadNumber
  BY <1>13 DEF ReadNumber, ExchangeGone
<1>14. CASE ReadNames
  BY <1>14 DEF ReadNames
<1>15. CASE TakeOrder
  BY <1>15 DEF TakeOrder, ExchangeGone, Send, Always
<1>16. CASE StopTaking
  BY <1>16 DEF StopTaking
<1>17. CASE ClearBooks
  BY <1>17 DEF ClearBooks
<1>18. CASE ExchangeEnds
  BY <1>18 DEF ExchangeEnds, ExchangeGone
<1>19. CASE ExchangeKilled
  BY <1>19 DEF ExchangeKilled, ExchangeGone
<1>20. ASSUME NEW k \in 1 .. MaxOrders, Forward(k) PROVE Idle'
  BY <1>20 DEF Forward
<1>21. ASSUME NEW o \in Orders, Match(o) PROVE Idle'
  BY <1>21 DEF Match
<1>22. ASSUME NEW o \in Orders, Report(o) PROVE Idle'
  BY <1>22 DEF Report, Send
<1>23. CASE UNCHANGED vars
  BY <1>23
<1> QED
  BY <1>1, <1>2, <1>3, <1>4, <1>5, <1>6, <1>7, <1>8, <1>9, <1>10, <1>11, <1>12, <1>13, <1>14,
     <1>15, <1>16, <1>17, <1>18, <1>19, <1>20, <1>21, <1>22, <1>23 DEF Next, Server, Exchange
-----------------------------------------------------------------------------
(* Where orders come from *)

\* Steps that change neither the name, the era nor the history keep Origin if they put
\* nothing on the region but what was there or belongs to the era.
LEMMA OriginLess ==
    ASSUME TypeOK, Origin, UNCHANGED <<link, era, heard, killedEras>>,
           serverPc' = "down" => serverPc = "down",
           \A o \in Orders : link \in Regions /\ Present(link, o)'
              => Present(link, o) \/ KilledUpTo(o, era),
           \A r \in Regions : r > era => serverToExchange'[r] = <<>> /\ exchangeToServer'[r] = <<>>
    PROVE  Origin'
<1>1. link # NoRegion => link \in Regions
  BY LifeAssumption DEF TypeOK, NoRegion, Regions, Eras
<1>2. \A o \in Orders : link # NoRegion /\ Present(link, o)' => KilledUpTo(o, era)
  BY <1>1 DEF Origin
<1>3. NewsOfOwnEra'
  BY DEF Origin, NewsOfOwnEra
<1> QED
  BY <1>2, <1>3 DEF Origin, KilledUpTo

LEMMA OriginSame ==
    ASSUME TypeOK, Origin, UNCHANGED <<link, ringVars, era, exchangeRegion, resting, events, heard,
       killedEras>>,
           serverPc' = "down" => serverPc = "down"
    PROVE  Origin'
<1>1. \A o \in Orders : Present(link, o)' => Present(link, o)
  BY DEF Present, OnRing, ringVars
<1> QED
  BY <1>1, OriginLess DEF Origin, ringVars

LEMMA OriginKept == TypeOK /\ Control /\ Idle /\ Origin /\ [Next]_vars => Origin'
<1> SUFFICES ASSUME TypeOK, Control, Idle, Origin, [Next]_vars PROVE Origin'
  OBVIOUS
<1> USE LifeAssumption
      DEF Regions, Eras, NoRegion, vars, regionVars, ringVars, serverVars, exchangeVars, historyVars
<1>1. CASE ServerOpen
  <2>1. /\ UNCHANGED <<ringVars, exchangeRegion, resting, events, heard, killedEras>>
        /\ era' = era + 1 /\ serverPc = "down" /\ serverPc' = "truncate" /\ era < MaxEras
        /\ link' = IF link = NoRegion THEN era' ELSE link
    BY <1>1 DEF ServerOpen
  <2>2. era \in Nat /\ era' \in Regions /\ exchangeRegion <= era
    BY <2>1 DEF TypeOK
  <2>3. \A r \in Regions : r > era' => r > era
    BY <2>1, <2>2
  <2>4. ASSUME link # NoRegion, NEW o \in Orders, NEW r \in Regions, r = link', Present(r, o)'
        PROVE  KilledUpTo(o, era)'
    <3>1. Present(link, o)
      BY <2>1, <2>4 DEF Present, OnRing
    <3>2. KilledUpTo(o, era) /\ era \in killedEras
      BY <2>1, <2>4, <3>1 DEF Origin
    <3>3. o[1] \in Nat /\ o[1] .. era' - 1 \subseteq (o[1] .. era - 1) \cup {era}
      BY <2>1, <2>2 DEF Orders
    <3> QED
      BY <2>1, <2>2, <3>2, <3>3 DEF KilledUpTo
  <2>5. ASSUME link = NoRegion, NEW o \in Orders, NEW r \in Regions, r = link' PROVE ~Present(r, o)'
    <3>1. r > era /\ exchangeRegion' # r
      BY <2>1, <2>2, <2>5
    <3>2. serverToExchange'[r] = <<>> /\ exchangeToServer'[r] = <<>>
      BY <2>1, <3>1 DEF Origin
    <3> QED
      BY <3>1, <3>2 DEF Present, OnRing
  <2>6. link' # NoRegion => \A o \in Orders : Present(link, o)' => KilledUpTo(o, era)'
    <3>1. link' \in Regions
      BY <2>1, <2>2 DEF TypeOK
    <3> QED
      BY <2>4, <2>5, <3>1
  <2> QED
    BY <2>1, <2>3, <2>6 DEF Origin, NewsOfOwnEra
<1>2. CASE ServerTruncate
  <2>1. UNCHANGED <<link, ringVars, era, exchangeRegion, resting, events, heard, killedEras>>
        /\ serverPc' # "down"
    BY <1>2 DEF ServerTruncate, ServerStep
  <2> QED
    BY <2>1, OriginSame
<1>3. CASE ServerBuild
  <2>1. /\ UNCHANGED <<link, era, exchangeRegion, resting, events, heard, killedEras>>
        /\ serverPc' # "down"
        /\ serverToExchange' = [serverToExchange EXCEPT ![serverRegion] = <<>>]
        /\ exchangeToServer' = [exchangeToServer EXCEPT ![serverRegion] = <<>>]
    BY <1>3 DEF ServerBuild, ServerStep
  <2>2. \A r \in Regions : serverToExchange'[r] \in {serverToExchange[r], <<>>}
        /\ exchangeToServer'[r] \in {exchangeToServer[r], <<>>}
    BY <2>1 DEF TypeOK
  <2>3. \A o \in Orders : link \in Regions /\ Present(link, o)' => Present(link, o)
    BY <2>1, <2>2 DEF Present, OnRing
  <2> QED
    BY <2>1, <2>2, <2>3, OriginLess DEF Origin
<1>4. CASE ServerSetOpen
  <2>1. UNCHANGED <<link, ringVars, era, exchangeRegion, resting, events, heard, killedEras>>
        /\ serverPc' # "down"
    BY <1>4 DEF ServerSetOpen, ServerStep
  <2> QED
    BY <2>1, OriginSame
<1>5. CASE ServerNumber
  <2>1. UNCHANGED <<link, ringVars, era, exchangeRegion, resting, events, heard, killedEras>>
        /\ serverPc' # "down"
    BY <1>5 DEF ServerNumber, ServerStep
  <2> QED
    BY <2>1, OriginSame
<1>6. CASE ServerNames
  <2>1. UNCHANGED <<link, ringVars, era, exchangeRegion, resting, events, heard, killedEras>>
        /\ serverPc' # "down"
    BY <1>6 DEF ServerNames, ServerStep, AllNames
  <2> QED
    BY <2>1, OriginSame
<1>7. CASE SetOpen
  <2>1. UNCHANGED <<link, ringVars, era, exchangeRegion, resting, events, heard, killedEras>>
        /\ serverPc' # "down"
    BY <1>7 DEF SetOpen
  <2> QED
    BY <2>1, OriginSame
<1>8. CASE Relay
  <2> DEFINE o == Head(exchangeToServer[serverRegion])
  <2>1. /\ UNCHANGED <<link, serverToExchange, serverVars, exchangeVars, killedEras>>
        /\ serverPc \in {"up", "joining"}
        /\ exchangeToServer[serverRegion] # <<>> /\ heard' = heard \cup {<<era, o>>}
        /\ exchangeToServer' = [exchangeToServer EXCEPT ![serverRegion] = Tail(@)]
    BY <1>8 DEF Relay
  <2>2. serverRegion \in Regions /\ link = serverRegion
    BY <2>1 DEF Control
  <2>3. /\ o \in Orders /\ OnRing(exchangeToServer, serverRegion, o)
        /\ \A r \in Regions, p \in Orders :
              OnRing(exchangeToServer', r, p) => OnRing(exchangeToServer, r, p)
    BY <2>1, <2>2, TailRing DEF TypeOK
  <2>4. KilledUpTo(o, era)
    BY <2>2, <2>3 DEF Origin, Present
  <2>5. \A p \in Orders : Present(link, p)' => Present(link, p)
    BY <2>1, <2>2, <2>3 DEF Present, OnRing
  <2>6. \A r \in Regions : r > era => exchangeToServer'[r] = <<>>
    BY <2>1, <2>2 DEF Origin, TypeOK
  <2>7. NewsOfOwnEra'
    <3> HIDE DEF o
    <3> SUFFICES ASSUME NEW e \in Eras, NEW p \in Orders, <<e, p>> \in heard'
                 PROVE  p[1] <= e /\ (p[1] .. e - 1) \subseteq killedEras'
      BY DEF NewsOfOwnEra
    <3>1. CASE <<e, p>> \in heard
      BY <2>1, <3>1 DEF Origin, NewsOfOwnEra
    <3>2. CASE e = era /\ p = o
      BY <2>1, <2>4, <3>2 DEF KilledUpTo
    <3> QED
      BY <2>1, <3>1, <3>2
  <2> QED
    BY <2>1, <2>2, <2>5, <2>6, <2>7 DEF Origin, KilledUpTo
<1>9. CASE BeginShutdown
  <2>1. UNCHANGED <<link, ringVars, era, exchangeRegion, resting, events, heard, killedEras>>
        /\ serverPc' # "down"
    BY <1>9 DEF BeginShutdown, ServerStep
  <2> QED
    BY <2>1, OriginSame
<1>10. CASE EndShutdown
  <2>1. UNCHANGED <<ringVars, era, heard, killedEras>> /\ link' = NoRegion
    BY <1>10 DEF EndShutdown, Unlinked
  <2> QED
    BY <2>1 DEF Origin, NewsOfOwnEra
<1>11. CASE ServerKilled
  <2>1. /\ UNCHANGED <<link, ringVars, era, exchangeRegion, resting, events, heard>>
        /\ killedEras' = killedEras \cup {era}
    BY <1>11 DEF ServerKilled
  <2>2. \A o \in Orders : Present(link, o)' => Present(link, o)
    BY <2>1 DEF Present, OnRing
  <2> QED
    BY <2>1, <2>2 DEF Origin, KilledUpTo, NewsOfOwnEra
<1>12. CASE ExchangeOpen
  <2>1. UNCHANGED <<link, ringVars, era, serverPc, resting, events, heard, killedEras>>
        /\ exchangeRegion = NoRegion
    BY <1>12 DEF ExchangeOpen, Control
  <2>2. resting = {} /\ events = {}
    BY <1>12 DEF ExchangeOpen, Idle
  <2>3. \A o \in Orders : Present(link, o)' => Present(link, o)
    BY <2>1, <2>2 DEF Present, OnRing
  <2> QED
    BY <2>1, <2>3, OriginLess DEF Origin
<1>13. CASE ReadNumber
  <2>1. /\ UNCHANGED <<link, ringVars, era, serverPc, heard, killedEras>>
        /\ \/ resting' = {} /\ events' = {}
           \/ UNCHANGED <<exchangeRegion, resting, events>>
    BY <1>13 DEF ReadNumber, ExchangeGone
  <2>2. \A o \in Orders : Present(link, o)' => Present(link, o)
    BY <2>1 DEF Present, OnRing
  <2> QED
    BY <2>1, <2>2, OriginLess DEF Origin
<1>14. CASE ReadNames
  <2>1. UNCHANGED <<link, ringVars, era, serverPc, exchangeRegion, resting, events, heard,
        killedEras>>
    BY <1>14 DEF ReadNames
  <2> QED
    BY <2>1, OriginSame
<1>15. CASE TakeOrder
  <2> DEFINE o == Head(serverToExchange[exchangeRegion])
  <2>1. /\ UNCHANGED <<link, era, serverPc, heard, killedEras>>
        /\ serverToExchange[exchangeRegion] # <<>>
        /\ serverToExchange' = [serverToExchange EXCEPT ![exchangeRegion] = Tail(@)]
        /\ exchangeToServer' = Enqueue(exchangeToServer, exchangeRegion, o)
        /\ exchangeRegion \in Regions /\ exchangeRegion <= era
    BY <1>15 DEF TakeOrder, Send, Control, TypeOK
  <2>2. /\ o \in Orders /\ OnRing(serverToExchange, exchangeRegion, o)
        /\ \A r \in Regions, p \in Orders :
              OnRing(serverToExchange', r, p) => OnRing(serverToExchange, r, p)
    BY <2>1, TailRing DEF TypeOK
  <2>3. \A r \in Regions : r # exchangeRegion => serverToExchange'[r] = serverToExchange[r]
    BY <2>1 DEF TypeOK
  <2>4. \/ exchangeRegion' = exchangeRegion /\ resting' = resting \cup {o} /\ events' = events
        \/ resting' = {} /\ events' = {}
    BY <1>15 DEF TakeOrder, ExchangeGone
  <2> HIDE DEF o
  <2>5. /\ \A r \in Regions : r # exchangeRegion => exchangeToServer'[r] = exchangeToServer[r]
        /\ \A r \in Regions, p \in Orders :
              OnRing(exchangeToServer', r, p)
                 => OnRing(exchangeToServer, r, p) \/ (r = exchangeRegion /\ p = o)
    <3>1. exchangeToServer \in [Regions -> Seq(Orders)]
          /\ (\A q \in Regions : Len(exchangeToServer[q]) <= RingCap)
      BY DEF TypeOK
    <3> DEFINE new == Enqueue(exchangeToServer, exchangeRegion, o)
    <3>2. /\ \A r \in Regions : r # exchangeRegion => new[r] = exchangeToServer[r]
          /\ \A r \in Regions, p \in Orders :
                OnRing(new, r, p) => OnRing(exchangeToServer, r, p) \/ (r = exchangeRegion /\ p = o)
      BY <2>1, <2>2, <3>1, EnqueueRing
    <3>3. exchangeToServer' = new
      BY <2>1
    <3> QED
      BY <3>2, <3>3
  <2>6. \A p \in Orders : link \in Regions /\ Present(link, p)' => Present(link, p)
    BY <2>1, <2>2, <2>4, <2>5 DEF Present, OnRing
  <2>7. \A r \in Regions : r > era => serverToExchange'[r] = <<>> /\ exchangeToServer'[r] = <<>>
    BY <2>1, <2>3, <2>5 DEF Origin
  <2> QED
    BY <2>1, <2>6, <2>7, OriginLess
<1>16. CASE StopTaking
  <2>1. UNCHANGED <<link, ringVars, era, serverPc, exchangeRegion, resting, events, heard,
        killedEras>>
    BY <1>16 DEF StopTaking
  <2> QED
    BY <2>1, OriginSame
<1>17. CASE ClearBooks
  <2>1. UNCHANGED <<link, ringVars, era, serverPc, exchangeRegion, heard, killedEras>>
        /\ resting' = {} /\ events' = events \cup resting
    BY <1>17 DEF ClearBooks
  <2>2. \A o \in Orders : Present(link, o)' => Present(link, o)
    BY <2>1 DEF Present, OnRing
  <2> QED
    BY <2>1, <2>2, OriginLess DEF Origin
<1>18. CASE ExchangeEnds
  <2>1. UNCHANGED <<link, ringVars, era, serverPc, heard, killedEras>>
        /\ resting' = {} /\ events' = {}
    BY <1>18 DEF ExchangeEnds, ExchangeGone
  <2>2. \A o \in Orders : Present(link, o)' => Present(link, o)
    BY <2>1 DEF Present, OnRing
  <2> QED
    BY <2>1, <2>2, OriginLess DEF Origin
<1>19. CASE ExchangeKilled
  <2>1. UNCHANGED <<link, ringVars, era, serverPc, heard, killedEras>>
        /\ resting' = {} /\ events' = {}
    BY <1>19 DEF ExchangeKilled, ExchangeGone
  <2>2. \A o \in Orders : Present(link, o)' => Present(link, o)
    BY <2>1 DEF Present, OnRing
  <2> QED
    BY <2>1, <2>2, OriginLess DEF Origin
<1>20. ASSUME NEW k \in 1 .. MaxOrders, Forward(k) PROVE Origin'
  <2>0. link = serverRegion /\ serverRegion \in Regions /\ serverRegion <= era /\ era \in Eras
    BY <1>20 DEF Forward, Control, TypeOK
  <2>1. PICK o \in Orders : o = <<era, k>>
    BY <2>0 DEF Orders
  <2>2. /\ UNCHANGED <<link, exchangeToServer, era, serverPc, exchangeRegion, resting, events,
                      heard, killedEras>>
        /\ serverPc = "up" /\ serverToExchange' = Enqueue(serverToExchange, serverRegion, o)
    BY <1>20, <2>1 DEF Forward
  <2>3. KilledUpTo(o, era)
    BY <2>0, <2>1 DEF KilledUpTo
  <2>4. /\ \A r \in Regions : r # serverRegion => serverToExchange'[r] = serverToExchange[r]
        /\ \A r \in Regions, p \in Orders :
              OnRing(serverToExchange', r, p)
                 => OnRing(serverToExchange, r, p) \/ (r = serverRegion /\ p = o)
    <3>1. serverToExchange \in [Regions -> Seq(Orders)]
          /\ (\A q \in Regions : Len(serverToExchange[q]) <= RingCap)
      BY DEF TypeOK
    <3> DEFINE new == Enqueue(serverToExchange, serverRegion, o)
    <3>2. /\ \A r \in Regions : r # serverRegion => new[r] = serverToExchange[r]
          /\ \A r \in Regions, p \in Orders :
                OnRing(new, r, p) => OnRing(serverToExchange, r, p) \/ (r = serverRegion /\ p = o)
      <4>1. serverRegion \in Regions
        BY <2>0
      <4> HIDE DEF Regions, Eras
      <4> QED
        BY <4>1, <3>1, EnqueueRing
    <3>3. serverToExchange' = new
      BY <2>2
    <3> QED
      BY <3>2, <3>3
  <2>5. \A p \in Orders : Present(link, p)' => Present(link, p) \/ p = o
    BY <2>0, <2>2, <2>4 DEF Present, OnRing
  <2>6. \A r \in Regions : r > era => serverToExchange'[r] = <<>> /\ exchangeToServer'[r] = <<>>
    BY <2>0, <2>2, <2>4 DEF Origin
  <2> QED
    BY <2>2, <2>3, <2>5, <2>6, OriginLess
<1>21. ASSUME NEW o \in Orders, Match(o) PROVE Origin'
  <2>1. /\ UNCHANGED <<link, ringVars, era, serverPc, exchangeRegion, heard, killedEras>>
        /\ o \in resting /\ events' = events \cup {o} /\ resting' \subseteq resting
    BY <1>21 DEF Match
  <2>2. \A p \in Orders : Present(link, p)' => Present(link, p)
    BY <2>1 DEF Present, OnRing
  <2> QED
    BY <2>1, <2>2, OriginLess DEF Origin
<1>22. ASSUME NEW o \in Orders, Report(o) PROVE Origin'
  <2>1. /\ UNCHANGED <<link, serverToExchange, era, serverPc, exchangeRegion, resting, heard,
                      killedEras>>
        /\ o \in events /\ events' = events \ {o}
        /\ exchangeToServer' = Enqueue(exchangeToServer, exchangeRegion, o)
        /\ exchangeRegion \in Regions /\ exchangeRegion <= era
    BY <1>22 DEF Report, Send, Control, TypeOK
  <2>2. /\ \A r \in Regions : r # exchangeRegion => exchangeToServer'[r] = exchangeToServer[r]
        /\ \A r \in Regions, p \in Orders :
              OnRing(exchangeToServer', r, p)
                 => OnRing(exchangeToServer, r, p) \/ (r = exchangeRegion /\ p = o)
    <3>1. exchangeToServer \in [Regions -> Seq(Orders)]
          /\ (\A q \in Regions : Len(exchangeToServer[q]) <= RingCap)
      BY DEF TypeOK
    <3> DEFINE new == Enqueue(exchangeToServer, exchangeRegion, o)
    <3>2. /\ \A r \in Regions : r # exchangeRegion => new[r] = exchangeToServer[r]
          /\ \A r \in Regions, p \in Orders :
                OnRing(new, r, p) => OnRing(exchangeToServer, r, p) \/ (r = exchangeRegion /\ p = o)
      BY <2>1, <3>1, EnqueueRing
    <3>3. exchangeToServer' = new
      BY <2>1
    <3> QED
      BY <3>2, <3>3
  <2>3. \A p \in Orders : link \in Regions /\ Present(link, p)' => Present(link, p)
    BY <2>1, <2>2 DEF Present, OnRing
  <2>4. \A r \in Regions : r > era => serverToExchange'[r] = <<>> /\ exchangeToServer'[r] = <<>>
    <3>1. \A r \in Regions : r > era => r # exchangeRegion
      BY <2>1 DEF TypeOK
    <3> QED
      BY <2>1, <2>2, <3>1 DEF Origin
  <2> QED
    BY <2>1, <2>3, <2>4, OriginLess
<1>23. CASE UNCHANGED vars
  BY <1>23, OriginSame
<1> QED
  BY <1>1, <1>2, <1>3, <1>4, <1>5, <1>6, <1>7, <1>8, <1>9, <1>10, <1>11, <1>12, <1>13, <1>14,
     <1>15, <1>16, <1>17, <1>18, <1>19, <1>20, <1>21, <1>22, <1>23 DEF Next, Server, Exchange

-----------------------------------------------------------------------------
LEMMA NextIInv == IInv /\ [Next]_vars => IInv'
  BY TypeOKKept, ControlKept, CalmStartKept, IdleKept, OriginKept DEF IInv

\* The inductive invariant of the two processes' lives.
THEOREM SharedMemoryInvariant == Spec => []IInv
  BY InitIInv, NextIInv, PTL DEF Spec

\* Types: rings stay within their capacity, and no name leads to a region not made yet.
THEOREM SharedMemoryTypeCorrect == Spec => []TypeOK
  BY SharedMemoryInvariant, PTL DEF IInv

\* The brokers of a server hear of orders of its own era only, or of one from which on
\* every server was killed (ExchangeServer.cpp:170 builds the region anew, the Exchange
\* keeps its books).
THEOREM SharedMemoryNewsOfOwnEra == Spec => []NewsOfOwnEra
  BY SharedMemoryInvariant, PTL DEF IInv, Origin

\* An Exchange that starts under a server that is up does not die
\* (Exchange.cpp:107-114 reads what ExchangeServer.cpp:173-174 has written by then).
THEOREM SharedMemoryDiesOnlyUncalm == Spec => []DiesOnlyUncalm
<1>1. IInv => DiesOnlyUncalm
  BY DEF IInv, CalmStart, DiesOnlyUncalm
<1> QED
  BY <1>1, SharedMemoryInvariant, PTL
=============================================================================
