---------------------------- MODULE SharedMemory ----------------------------
(***************************************************************************)
(* The lives of the two processes that share a region of memory: the       *)
(* ExchangeServer, which makes and unlinks it, and the Exchange, which     *)
(* only opens it (src/misc/SharedMemoryRegion.cpp, the constructors and    *)
(* destructors of src/core/ExchangeServer.cpp and src/core/Exchange.cpp).  *)
(* Either may be killed at any point and started again; one of each runs   *)
(* at a time.                                                              *)
(*                                                                         *)
(* An era is one run of the server.  Order n of era e is <<e, n>>; the     *)
(* code numbers orders from the start again in every era.  The rings are   *)
(* bounded queues (RingBuffer has their steps), and what the engines do    *)
(* with an order is any sequence of reports (MatchingEngine has the rest). *)
(***************************************************************************)
EXTENDS Integers, Sequences

CONSTANTS
    MaxEras,      \* bound: runs of the server
    MaxOrders,    \* bound: orders that each forwards
    RingCap       \* SHARED_QUEUE_CAPACITY

ASSUME LifeAssumption == MaxEras \in Nat /\ MaxOrders \in Nat /\ RingCap \in Nat \ {0}

Eras     == 1 .. MaxEras
Regions  == Eras             \* a region is known by the era that created it
NoRegion == 0
Orders   == Eras \X (1 .. MaxOrders)

VARIABLES
    link,            \* the region with the name SHM_FILENAME, if any
    sized,           \* its ftruncate is done
    instruments,     \* supportedInstruments in it: none, their number, or all
    isOpen, serverToExchange, exchangeToServer,
    era, serverPc, serverRegion,
    exchangePc, exchangeRegion,
    engines,         \* matchingEngines_: for no instrument, for nameless ones, or for all
    resting,         \* the orders in the engines' books
    events,          \* those with something in rawTradesFromMatchingEngines_
    forwarded, heard,   \* history: orders put in a ring, and what an era's brokers heard of
    killedEras,         \* history: eras whose server was killed
    calm,               \* history: the server was up while this Exchange started
    refused             \* history: a full ring refused a message

regionVars   == <<link, sized, instruments, isOpen>>
ringVars     == <<serverToExchange, exchangeToServer>>
serverVars   == <<era, serverPc, serverRegion>>
exchangeVars == <<exchangePc, exchangeRegion, engines, resting, events>>
historyVars  == <<forwarded, heard, killedEras, calm, refused>>
vars == <<regionVars, ringVars, serverVars, exchangeVars, historyVars>>

Init ==
    /\ link = NoRegion
    /\ sized = [r \in Regions |-> FALSE] /\ instruments = [r \in Regions |-> "none"]
    /\ isOpen = [r \in Regions |-> FALSE]
    /\ serverToExchange = [r \in Regions |-> <<>>] /\ exchangeToServer = [r \in Regions |-> <<>>]
    /\ era = 0 /\ serverPc = "down" /\ serverRegion = NoRegion
    /\ exchangePc = "down" /\ exchangeRegion = NoRegion /\ engines = "none"
    /\ resting = {} /\ events = {}
    /\ forwarded = {} /\ heard = {} /\ killedEras = {} /\ calm = FALSE /\ refused = FALSE

\* Enqueue on a ring; a full one refuses
Enqueue(ring, r, o) == IF Len(ring[r]) < RingCap THEN [ring EXCEPT ![r] = Append(@, o)] ELSE ring
IsFull(ring, r)     == Len(ring[r]) = RingCap

-----------------------------------------------------------------------------
(* The server starts: the region is opened, or created, sized and built *)

ServerStep(from, to) ==
    /\ serverPc = from /\ serverPc' = to
    /\ UNCHANGED <<era, serverRegion>>

ServerOpen ==
    /\ serverPc = "down" /\ era < MaxEras
    /\ era' = era + 1 /\ serverPc' = "truncate"
    /\ link' = IF link = NoRegion THEN era' ELSE link
    /\ serverRegion' = link'
    /\ calm' = (calm /\ exchangePc = "running")
    /\ UNCHANGED <<sized, instruments, isOpen, ringVars, exchangeVars, forwarded, heard, killedEras, refused>>

ServerTruncate ==
    /\ ServerStep("truncate", "build")
    /\ sized' = [sized EXCEPT ![serverRegion] = TRUE]
    /\ UNCHANGED <<link, instruments, isOpen, ringVars, exchangeVars, historyVars>>

\* placement new: whatever is in the rings is gone
ServerBuild ==
    /\ ServerStep("build", "open")
    /\ serverToExchange' = [serverToExchange EXCEPT ![serverRegion] = <<>>]
    /\ exchangeToServer' = [exchangeToServer EXCEPT ![serverRegion] = <<>>]
    /\ instruments' = [instruments EXCEPT ![serverRegion] = "none"]
    /\ isOpen' = [isOpen EXCEPT ![serverRegion] = FALSE]
    /\ UNCHANGED <<link, sized, exchangeVars, historyVars>>

ServerSetOpen ==
    /\ ServerStep("open", "number")
    /\ isOpen' = [isOpen EXCEPT ![serverRegion] = TRUE]
    /\ UNCHANGED <<link, sized, instruments, ringVars, exchangeVars, historyVars>>

ServerNumber ==
    /\ ServerStep("number", "names")
    /\ instruments' = [instruments EXCEPT ![serverRegion] = "number"]
    /\ UNCHANGED <<link, sized, isOpen, ringVars, exchangeVars, historyVars>>

\* ... and StartListening
\* (slip: the names are not written)
NoNames  == "number"
AllNames == "all"

ServerNames ==
    /\ ServerStep("names", "up")
    /\ instruments' = [instruments EXCEPT ![serverRegion] = AllNames]
    /\ isOpen' = [isOpen EXCEPT ![serverRegion] = TRUE]
    /\ UNCHANGED <<link, sized, ringVars, exchangeVars, historyVars>>

-----------------------------------------------------------------------------
(* The server is up, and is shut down or killed *)

\* the operator opens and closes the market
SetOpen ==
    /\ serverPc = "up"
    /\ isOpen' = [isOpen EXCEPT ![serverRegion] = ~@]
    /\ UNCHANGED <<link, sized, instruments, ringVars, serverVars, exchangeVars, historyVars>>

\* an order that found the market open (ExchangeServer has the moment in between)
Forward(n) ==
    LET o == <<era, n>>
    IN  /\ serverPc = "up" /\ isOpen[serverRegion]
        /\ o \notin forwarded /\ (n = 1 \/ <<era, n - 1>> \in forwarded)
        /\ serverToExchange' = Enqueue(serverToExchange, serverRegion, o)
        /\ forwarded' = forwarded \cup {o}
        /\ refused' = (refused \/ IsFull(serverToExchange, serverRegion))
        /\ UNCHANGED <<regionVars, exchangeToServer, serverVars, exchangeVars, heard, killedEras, calm>>

\* the relay thread, which ~ExchangeServer joins
Relay ==
    /\ serverPc \in {"up", "joining"} /\ exchangeToServer[serverRegion] # <<>>
    /\ exchangeToServer' = [exchangeToServer EXCEPT ![serverRegion] = Tail(@)]
    /\ heard' = heard \cup {<<era, Head(exchangeToServer[serverRegion])>>}
    /\ UNCHANGED <<regionVars, serverToExchange, serverVars, exchangeVars, forwarded, killedEras, calm, refused>>

\* ~ExchangeServer
BeginShutdown ==
    /\ ServerStep("up", "joining")
    /\ isOpen' = [isOpen EXCEPT ![serverRegion] = FALSE]
    /\ calm' = (calm /\ exchangePc = "running")
    /\ UNCHANGED <<link, sized, instruments, ringVars, exchangeVars, forwarded, heard, killedEras, refused>>

\* ~SharedMemoryRegion, after EnableSharedMemoryCleanupOnShutdown
\* (slip: the region keeps its name)
KeepName == link
Unlinked == NoRegion

EndShutdown ==
    /\ serverPc = "joining"
    /\ serverPc' = "down" /\ serverRegion' = NoRegion
    /\ link' = Unlinked
    /\ UNCHANGED <<sized, instruments, isOpen, ringVars, era, exchangeVars, historyVars>>

ServerKilled ==
    /\ serverPc # "down"
    /\ serverPc' = "down" /\ serverRegion' = NoRegion
    /\ killedEras' = killedEras \cup {era}
    /\ calm' = (calm /\ exchangePc = "running")
    /\ UNCHANGED <<regionVars, ringVars, era, exchangeVars, forwarded, heard, refused>>

-----------------------------------------------------------------------------
(* The Exchange starts: it opens the region by its name and reads the instruments *)

\* the process is gone, and the mapping with it
ExchangeGone(pc) ==
    /\ exchangePc' = pc /\ exchangeRegion' = NoRegion /\ engines' = "none"
    /\ resting' = {} /\ events' = {}

\* (without the name, shm_open fails and the process ends at once)
ExchangeOpen ==
    /\ exchangePc \in {"down", "died"} /\ link # NoRegion
    /\ exchangePc' = "number" /\ exchangeRegion' = link
    /\ calm' = (serverPc = "up")
    /\ UNCHANGED <<regionVars, ringVars, serverVars, engines, resting, events, forwarded, heard,
                   killedEras, refused>>

\* a region of size 0 cannot be read (SIGBUS)
ReadNumber ==
    /\ exchangePc = "number"
    /\ IF ~sized[exchangeRegion] THEN ExchangeGone("died")
       ELSE /\ exchangePc' = IF instruments[exchangeRegion] = "none" THEN "running" ELSE "names"
            /\ UNCHANGED <<exchangeRegion, engines, resting, events>>
    /\ UNCHANGED <<regionVars, ringVars, serverVars, historyVars>>

\* InitializeMatchingEngines_ and ProcessServerMessages
ReadNames ==
    /\ exchangePc = "names" /\ exchangePc' = "running"
    /\ engines' = IF instruments[exchangeRegion] = "all" THEN "all" ELSE "nameless"
    /\ UNCHANGED <<regionVars, ringVars, serverVars, exchangeRegion, resting, events, historyVars>>

-----------------------------------------------------------------------------
(* The Exchange runs, and is shut down or killed *)

Send(o) ==
    /\ exchangeToServer' = Enqueue(exchangeToServer, exchangeRegion, o)
    /\ refused' = (refused \/ IsFull(exchangeToServer, exchangeRegion))

\* The message thread: the order is reported accepted and then given to its engine;
\* without one, at() throws and nobody catches.  A closed market only slows it down.
\* (slip: a closed market stops it)
WhileOpen == isOpen[exchangeRegion]
Always    == TRUE

TakeOrder ==
    /\ exchangePc = "running" /\ serverToExchange[exchangeRegion] # <<>> /\ Always
    /\ LET o == Head(serverToExchange[exchangeRegion])
       IN  /\ serverToExchange' = [serverToExchange EXCEPT ![exchangeRegion] = Tail(@)]
           /\ Send(o)
           /\ IF engines = "all"
              THEN resting' = resting \cup {o} /\ UNCHANGED <<exchangePc, exchangeRegion, engines, events>>
              ELSE ExchangeGone("died")
    /\ UNCHANGED <<regionVars, serverVars, forwarded, heard, killedEras, calm>>

\* an engine reports an order, which may leave it
Match(o) ==
    /\ exchangePc \in {"running", "joining"} /\ o \in resting
    /\ events' = events \cup {o} /\ resting' \in {resting, resting \ {o}}
    /\ UNCHANGED <<regionVars, ringVars, serverVars, exchangePc, exchangeRegion, engines, historyVars>>

\* the fill thread
Report(o) ==
    /\ exchangePc \in {"running", "joining", "emptying"} /\ o \in events
    /\ events' = events \ {o} /\ Send(o)
    /\ UNCHANGED <<regionVars, serverToExchange, serverVars, exchangePc, exchangeRegion, engines, resting,
                   forwarded, heard, killedEras, calm>>

\* ~Exchange: the message thread is joined ...
StopTaking ==
    /\ exchangePc = "running" /\ exchangePc' = "joining"
    /\ UNCHANGED <<regionVars, ringVars, serverVars, exchangeRegion, engines, resting, events, historyVars>>

\* ... the books are cleared ...
ClearBooks ==
    /\ exchangePc = "joining" /\ exchangePc' = "emptying"
    /\ events' = events \cup resting /\ resting' = {}
    /\ UNCHANGED <<regionVars, ringVars, serverVars, exchangeRegion, engines, historyVars>>

\* ... and the fill thread ends when its queue is empty
ExchangeEnds ==
    /\ exchangePc = "emptying" /\ events = {}
    /\ ExchangeGone("down")
    /\ UNCHANGED <<regionVars, ringVars, serverVars, historyVars>>

ExchangeKilled ==
    /\ exchangePc \notin {"down", "died"}
    /\ ExchangeGone("down")
    /\ UNCHANGED <<regionVars, ringVars, serverVars, historyVars>>

-----------------------------------------------------------------------------
Server ==
    \/ ServerOpen \/ ServerTruncate \/ ServerBuild \/ ServerSetOpen \/ ServerNumber \/ ServerNames
    \/ SetOpen \/ (\E n \in 1 .. MaxOrders : Forward(n)) \/ Relay
    \/ BeginShutdown \/ EndShutdown \/ ServerKilled

Exchange ==
    \/ ExchangeOpen \/ ReadNumber \/ ReadNames
    \/ TakeOrder \/ (\E o \in Orders : Match(o) \/ Report(o))
    \/ StopTaking \/ ClearBooks \/ ExchangeEnds \/ ExchangeKilled

Next == Server \/ Exchange

Spec == Init /\ [][Next]_vars

\* The threads poll; nobody has to start, stop or kill anything.
FairSpec ==
    /\ Spec
    /\ WF_vars(Relay) /\ WF_vars(TakeOrder) /\ WF_vars(\E o \in Orders : Report(o))

-----------------------------------------------------------------------------
\* Types; a name leads to a region that a server made.
TypeOK ==
    /\ link \in 0 .. era /\ sized \in [Regions -> BOOLEAN]
    /\ instruments \in [Regions -> {"none", "number", "all"}] /\ isOpen \in [Regions -> BOOLEAN]
    /\ serverToExchange \in [Regions -> Seq(Orders)] /\ exchangeToServer \in [Regions -> Seq(Orders)]
    /\ \A r \in Regions : Len(serverToExchange[r]) <= RingCap /\ Len(exchangeToServer[r]) <= RingCap
    /\ era \in 0 .. MaxEras /\ serverRegion \in 0 .. era
    /\ serverPc \in {"down", "truncate", "build", "open", "number", "names", "up", "joining"}
    /\ exchangePc \in {"down", "number", "names", "running", "joining", "emptying", "died"}
    /\ exchangeRegion \in 0 .. era /\ engines \in {"none", "nameless", "all"}
    /\ resting \subseteq Orders /\ events \subseteq Orders
    /\ forwarded \subseteq Orders /\ heard \subseteq Eras \X Orders
    /\ killedEras \subseteq 1 .. era /\ calm \in BOOLEAN /\ refused \in BOOLEAN

\* The brokers of an era hear of the orders of that era only, unless the servers in between
\* were killed: a region that keeps its name leads the next server to an Exchange with
\* the old orders, and the new ones have the same numbers.
NewsOfOwnEra ==
    \A e \in Eras, o \in Orders : <<e, o>> \in heard => o[1] <= e /\ (o[1] .. e - 1) \subseteq killedEras

\* ExchangeServer.cpp:170-174 is not synchronised with Exchange.cpp:107-114: an Exchange dies
\* of a region or an instrument that is not there only if it did not start under a server
\* that was up all the time.
DiesOnlyUncalm == exchangePc = "died" => ~calm

\* A forwarded order is heard of, through both processes, as long as the server is up, the
\* Exchange runs on its region and no ring refuses anything; also in a closed market.
OrdersHeard ==
    \A o \in Orders :
        o \in forwarded ~>
            (<<o[1], o>> \in heard \/ era # o[1] \/ serverPc # "up" \/ exchangePc # "running"
             \/ exchangeRegion # serverRegion \/ refused)
=============================================================================
