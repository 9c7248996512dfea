--------------------------- MODULE ExchangeServer ---------------------------
(***************************************************************************)
(* The ExchangeServer process (src/core/ExchangeServer.cpp): the gateway   *)
(* between the brokers' TCP connections and the Exchange.                  *)
(*                                                                         *)
(* Its threads are the listening thread (accepts, then announces the       *)
(* connection), a pool of threads that read the sockets, one that turns    *)
(* requests into orders, one that relays what the Exchange reports, and    *)
(* one that sends to the brokers.  The rings to and from the Exchange are  *)
(* FIFO queues here (module RingBuffer), the Exchange is any program that  *)
(* answers as Exchange.cpp does, and a moodycamel queue is one FIFO per    *)
(* producing thread with no order between them.  A message is read from a  *)
(* socket whole.                                                           *)
(*                                                                         *)
(* Accepted descriptors are never closed, so a connection is its fd.       *)
(***************************************************************************)
EXTENDS Integers, Sequences, SequencesExt

CONSTANTS
    MaxCxns,         \* bound: connections ever made
    MaxRequests,     \* bound: requests that all brokers send
    SessionModulus,  \* SessionId is a uint16_t: 2^16
    RingCap,         \* SHARED_QUEUE_CAPACITY
    PoolThreads      \* the numSockThreads threads of eventHandlerThreadPool_

ASSUME ServerAssumption ==
    MaxCxns \in Nat /\ MaxRequests \in Nat /\ SessionModulus \in Nat \ {0} /\ RingCap \in Nat

Cxns       == 1 .. MaxCxns
NoCxn      == 0
SessionIds == 0 .. SessionModulus - 1
OrderNums  == 1 .. MaxRequests
OrderId    == SessionIds \X OrderNums       \* GenerateOrderId: 16 bits and 48 bits
Request    == [cxn: Cxns, seq: 1 .. MaxRequests, kind: {"order", "invalid", "cancel"},
               num: OrderNums \cup {0}]     \* num: the order that a cancel names
NoRequest  == <<NoCxn, 0>>
\* what a broker is told, and of which order (of which request, for a Reject)
NoteKinds  == {"Ack", "Reject", "Accepted", "Fill", "CancelOk", "CancelFailed"}
Note(kind, subject) == [kind |-> kind, subject |-> subject]
\* what goes to the Exchange; "by" is the connection it came from (history)
ExchangeMsg == [kind: {"order", "cancel"}, id: OrderId, by: Cxns]

VARIABLES
    \* the brokers' ends of the connections: away; open; closed (we see a FIN);
    \* reset (an error waits for our next call); dead (a send raises SIGPIPE)
    peer, sent, received,
    \* TcpServerSocket: unread requests, the descriptors that epoll serves,
    \* msgQueue_ by producer
    inbox, watched, sockQueue,
    allTimeCxns, sessions,         \* sessionIdsMap_.left; NoCxn: no entry
    sockPc, cur, totalOrders,      \* sockMsgProcessingThread_
    toExchange, toServer,          \* the rings in shared memory
    known, live, unreported,       \* the Exchange's orders
    brokerBound,                   \* brokerBoundMsgs_ by producer
    isOpen, alive,
    \* history: the request an order number was given to; the orders and
    \* requests with a message that a full ring refused
    placed, lost

brokerVars   == <<peer, sent, received>>
sockVars     == <<inbox, watched, sockQueue>>
sessionVars  == <<allTimeCxns, sessions>>
orderVars    == <<sockPc, cur, totalOrders, placed>>
ringVars     == <<toExchange, toServer, lost>>
exchangeVars == <<known, live, unreported>>
vars == <<brokerVars, sockVars, sessionVars, orderVars, ringVars, exchangeVars,
          brokerBound, isOpen, alive>>

Init ==
    /\ peer = [c \in Cxns |-> "away"] /\ sent = [c \in Cxns |-> 0]
    /\ received = [c \in Cxns |-> <<>>]
    /\ inbox = [c \in Cxns |-> <<>>] /\ watched = {}
    /\ sockQueue = [t \in PoolThreads |-> <<>>]
    /\ allTimeCxns = 0 /\ sessions = [s \in SessionIds |-> NoCxn]
    /\ sockPc = "idle" /\ cur = <<>> /\ totalOrders = 0
    /\ placed = [n \in OrderNums |-> NoRequest]
    /\ toExchange = <<>> /\ toServer = <<>> /\ lost = {}
    /\ known = {} /\ live = {} /\ unreported = {}
    /\ brokerBound = [p \in {"sock", "exchange"} |-> <<>>]
    /\ isOpen = TRUE /\ alive = TRUE

-----------------------------------------------------------------------------
(* Brokers and the kernel *)

Connect(c) ==
    /\ peer[c] = "away" /\ \A d \in Cxns : d < c => peer[d] # "away"
    /\ peer' = [peer EXCEPT ![c] = "open"]
    /\ UNCHANGED <<sent, received, sockVars, sessionVars, orderVars, ringVars, exchangeVars,
                   brokerBound, isOpen, alive>>

SendRequest(c, kind, num) ==
    /\ peer[c] = "open" /\ FoldFunction(+, 0, sent) < MaxRequests
    /\ sent'  = [sent EXCEPT ![c] = @ + 1]
    /\ inbox' = [inbox EXCEPT ![c] =
                     Append(@, [cxn |-> c, seq |-> sent[c] + 1, kind |-> kind, num |-> num])]
    /\ UNCHANGED <<peer, received, watched, sockQueue, sessionVars, orderVars, ringVars,
                   exchangeVars, brokerBound, isOpen, alive>>

\* the broker closes its socket, or ends with messages of ours unread
Leave(c) ==
    /\ peer[c] = "open"
    /\ \E how \in {"closed", "reset"} : peer' = [peer EXCEPT ![c] = how]
    /\ UNCHANGED <<sent, received, sockVars, sessionVars, orderVars, ringVars, exchangeVars,
                   brokerBound, isOpen, alive>>

-----------------------------------------------------------------------------
(* TcpServerSocket: the listening thread and the pool *)

\* SessionId newCxnId = ++allTimeCxns_
\* (slip: the number of sessions there are)
CountSessions == (1 + Len(SelectSeq([i \in 1 .. SessionModulus |-> sessions[i - 1]],
                                    LAMBDA c : c # NoCxn))) % SessionModulus
NextSession   == (allTimeCxns + 1) % SessionModulus

\* OnNewConnection_ and OnNewCxn_, for the connections in their order; the insert
\* does nothing when the id is taken.  The listening thread, which does this, also
\* gives the pool its work: nothing is read from the connection until it is done.
NewConnection(c) ==
    /\ c = allTimeCxns + 1 /\ peer[c] # "away"
    /\ allTimeCxns' = c
    /\ sessions'    = IF sessions[NextSession] = NoCxn
                      THEN [sessions EXCEPT ![NextSession] = c] ELSE sessions
    /\ watched'     = watched \cup {c}
    /\ UNCHANGED <<brokerVars, inbox, sockQueue, orderVars, ringVars, exchangeVars, brokerBound,
                   isOpen, alive>>

\* HandleClientUpdate_ on thread t: a request goes to msgQueue_
Receive(c, t) ==
    /\ c \in watched /\ inbox[c] # <<>>
    /\ sockQueue' = [sockQueue EXCEPT ![t] = Append(@, Head(inbox[c]))]
    /\ inbox'     = [inbox EXCEPT ![c] = Tail(@)]
    /\ UNCHANGED <<brokerVars, watched, sessionVars, orderVars, ringVars, exchangeVars,
                   brokerBound, isOpen, alive>>

\* recv returns 0: OnPeerDisconnect_ and OnBrokerDiscxn_, whose right.at throws
\* when the connection has no session (the pool's task catches it)
Disconnect(c) ==
    /\ c \in watched /\ inbox[c] = <<>> /\ peer[c] \in {"closed", "dead"}
    /\ watched'  = watched \ {c}
    /\ sessions' = [s \in SessionIds |-> IF sessions[s] = c THEN NoCxn ELSE sessions[s]]
    /\ UNCHANGED <<brokerVars, inbox, sockQueue, allTimeCxns, orderVars, ringVars,
                   exchangeVars, brokerBound, isOpen, alive>>

\* recv fails: an exception before OnPeerDisconnect_, and the fd is not armed again
ReceiveError(c) ==
    /\ c \in watched /\ inbox[c] = <<>> /\ peer[c] = "reset"
    /\ watched' = watched \ {c}
    /\ peer'    = [peer EXCEPT ![c] = "dead"]
    /\ UNCHANGED <<sent, received, inbox, sockQueue, sessionVars, orderVars, ringVars,
                   exchangeVars, brokerBound, isOpen, alive>>

-----------------------------------------------------------------------------
(* sockMsgProcessingThread_: ProcessIncomingSockMsgs_ *)

HasSession(c) == \E s \in SessionIds : sessions[s] = c
\* LookupSessionId_
SessionOf(c) == CHOOSE s \in SessionIds : sessions[s] = c

\* set_session_id of a cancel, whose order id the Exchange makes of the two
\* (slip: the session is not the sender's)
CancelAny(c, num)   == <<CHOOSE s \in SessionIds : sessions[s] # NoCxn, num>>
CancelledId(c, num) == <<SessionOf(c), num>>

\* EnqueueNetworkMsg_ by thread p
Enqueue(p, c, note) ==
    brokerBound' = [brokerBound EXCEPT ![p] = Append(@, [to |-> c, note |-> note])]

\* EnqueueNetworkMsg_ to wherever GetDestinationFd_ finds the order's session
\* (slip: status updates are forgotten)
NotifyNoStatus(p, kind, id) ==
    IF kind = "Accepted" \/ sessions[id[1]] = NoCxn
    THEN UNCHANGED brokerBound
    ELSE Enqueue(p, sessions[id[1]], Note(kind, id))
Notify(p, kind, id) ==
    IF sessions[id[1]] = NoCxn
    THEN UNCHANGED brokerBound
    ELSE Enqueue(p, sessions[id[1]], Note(kind, id))

\* take a request, look up its session, validate an order and number it; the
\* market may close, or the broker leave, before the next step
TakeSockMsg(t) ==
    /\ sockPc = "idle" /\ sockQueue[t] # <<>>
    /\ sockQueue' = [sockQueue EXCEPT ![t] = Tail(@)]
    /\ LET req   == Head(sockQueue[t])
           valid == req.kind = "order" /\ isOpen
       IN  \/ /\ ~HasSession(req.cxn)
              /\ UNCHANGED <<orderVars, brokerBound>>
           \/ /\ HasSession(req.cxn) /\ req.kind # "cancel" /\ ~valid
              /\ Enqueue("sock", req.cxn, Note("Reject", <<req.cxn, req.seq>>))
              /\ UNCHANGED orderVars
           \/ /\ HasSession(req.cxn) /\ valid
              /\ totalOrders < MaxRequests    \* bound: there are no more requests to number
              /\ totalOrders' = totalOrders + 1
              /\ placed' = [placed EXCEPT ![totalOrders'] = <<req.cxn, req.seq>>]
              /\ cur' = <<[kind |-> "order", id |-> <<SessionOf(req.cxn), totalOrders'>>, by |-> req.cxn]>>
              /\ sockPc' = "forward"
              /\ UNCHANGED brokerBound
           \/ /\ HasSession(req.cxn) /\ req.kind = "cancel"
              /\ cur' = <<[kind |-> "cancel", id |-> CancelledId(req.cxn, req.num), by |-> req.cxn]>>
              /\ sockPc' = "forward"
              /\ UNCHANGED <<totalOrders, placed, brokerBound>>
    /\ UNCHANGED <<brokerVars, inbox, watched, sessionVars, ringVars, exchangeVars,
                   isOpen, alive>>

\* Enqueue on a ring: a full one refuses the message, which is logged at most
Fits(queue) == Len(queue) < RingCap

\* (slips: cancels are acknowledged too; nothing is)
AckAll(kind)       == "ack"
AckNone(kind)      == "idle"
AfterForward(kind) == IF kind = "order" THEN "ack" ELSE "idle"

\* AddToExchangeQueue_
Forward ==
    /\ sockPc = "forward"
    /\ IF Fits(toExchange)
       THEN toExchange' = Append(toExchange, cur[1]) /\ UNCHANGED lost
       ELSE /\ lost' = lost \cup {msg.id : msg \in {m \in ToSet(cur) : m.kind = "order"}}
            /\ UNCHANGED toExchange
    /\ sockPc' = AfterForward(cur[1].kind)
    /\ cur'    = IF sockPc' = "ack" THEN cur ELSE <<>>
    /\ UNCHANGED <<brokerVars, sockVars, sessionVars, totalOrders, placed, toServer, exchangeVars,
                   brokerBound, isOpen, alive>>

\* EnqueueGatewayAckNotification_
Acknowledge ==
    /\ sockPc = "ack"
    /\ Notify("sock", "Ack", cur[1].id)
    /\ sockPc' = "idle" /\ cur' = <<>>
    /\ UNCHANGED <<brokerVars, sockVars, sessionVars, totalOrders, placed, ringVars, exchangeVars,
                   isOpen, alive>>

-----------------------------------------------------------------------------
(* The Exchange, at its end of the rings *)

Report(kind, id) ==
    IF Fits(toServer)
    THEN toServer' = Append(toServer, Note(kind, id)) /\ UNCHANGED lost
    ELSE lost' = lost \cup {id} /\ UNCHANGED toServer

\* HandleIncomingOrderRequest_
ExchangeAccepts ==
    /\ toExchange # <<>> /\ Head(toExchange).kind = "order"
    /\ LET id == Head(toExchange).id
       IN  /\ known' = known \cup {id} /\ live' = live \cup {id}
           /\ unreported' = unreported \cup {id}
           /\ Report("Accepted", id)
    /\ toExchange' = Tail(toExchange)
    /\ UNCHANGED <<brokerVars, sockVars, sessionVars, orderVars, brokerBound, isOpen, alive>>

\* HandleIncomingCancelOrder_: silence for an unknown order; an order that the
\* engine has not put in its book yet cannot be cancelled
ExchangeCancels ==
    /\ toExchange # <<>> /\ Head(toExchange).kind = "cancel"
    /\ LET id == Head(toExchange).id
       IN  \/ id \notin known /\ UNCHANGED <<live, toServer, lost>>
           \/ id \in live /\ live' = live \ {id} /\ Report("CancelOk", id)
           \/ id \in known /\ UNCHANGED live /\ Report("CancelFailed", id)
    /\ toExchange' = Tail(toExchange)
    /\ UNCHANGED <<brokerVars, sockVars, sessionVars, orderVars, known, unreported, brokerBound,
                   isOpen, alive>>

\* ProcessMatchingEngineFills_: a fill, which may follow the answer to a cancel
ExchangeFills(id) ==
    /\ id \in unreported
    /\ unreported' = unreported \ {id} /\ live' = live \ {id}
    /\ Report("Fill", id)
    /\ UNCHANGED <<brokerVars, sockVars, sessionVars, orderVars, toExchange, known, brokerBound,
                   isOpen, alive>>

-----------------------------------------------------------------------------
(* exchangeMsgProcessingThread_ and sendMsgsToBrokersThread_ *)

\* (slip: acceptances are relayed by another thread than fills)
RelayByKind(kind) == IF kind = "Accepted" THEN "sock" ELSE "exchange"
RelayedBy(kind)   == "exchange"
\* (slip: the message stays on the ring)
Peek(queue)  == queue
Taken(queue) == Tail(queue)

\* ProcessExchangeMsgs_
Relay ==
    /\ toServer # <<>>
    /\ LET note == Head(toServer) IN Notify(RelayedBy(note.kind), note.kind, note.subject)
    /\ toServer' = Taken(toServer)
    /\ UNCHANGED <<brokerVars, sockVars, sessionVars, orderVars, toExchange, lost, exchangeVars,
                   isOpen, alive>>

\* SendMsgsToBroker_: the oldest message of either producer, in a blocking send.
\* The first send after the broker closed is answered by an RST sooner or later;
\* a send after an RST raises SIGPIPE, which nothing in the program handles.
SendToBroker(p) ==
    /\ brokerBound[p] # <<>>
    /\ brokerBound' = [brokerBound EXCEPT ![p] = Tail(@)]
    /\ LET c    == Head(brokerBound[p]).to
           note == Head(brokerBound[p]).note
       IN  \/ /\ peer[c] = "open"
              /\ received' = [received EXCEPT ![c] = Append(@, note)]
              /\ UNCHANGED <<peer, alive>>
           \/ /\ peer[c] = "closed"
              /\ \E next \in {"closed", "dead"} : peer' = [peer EXCEPT ![c] = next]
              /\ UNCHANGED <<received, alive>>
           \/ /\ peer[c] = "reset"
              /\ peer' = [peer EXCEPT ![c] = "dead"]
              /\ UNCHANGED <<received, alive>>
           \/ /\ peer[c] = "dead"
              /\ alive' = FALSE
              /\ UNCHANGED <<peer, received>>
    /\ UNCHANGED <<sent, sockVars, sessionVars, orderVars, ringVars, exchangeVars, isOpen>>

\* the operator opens or closes the market
SetOpen ==
    /\ isOpen' = ~isOpen
    /\ UNCHANGED <<brokerVars, sockVars, sessionVars, orderVars, ringVars, exchangeVars,
                   brokerBound, alive>>

-----------------------------------------------------------------------------
Brokers ==
    \E c \in Cxns :
        \/ \E kind \in {"order", "invalid"} : SendRequest(c, kind, 0)
        \/ \E num \in OrderNums : SendRequest(c, "cancel", num)
        \/ Connect(c) \/ Leave(c)

ReadSocket(c) == (\E t \in PoolThreads : Receive(c, t)) \/ Disconnect(c) \/ ReceiveError(c)

SockThread  == (\E t \in PoolThreads : TakeSockMsg(t)) \/ Forward \/ Acknowledge
Exchange    == ExchangeAccepts \/ ExchangeCancels
SendThread  == \E p \in DOMAIN brokerBound : SendToBroker(p)

Next ==
    /\ alive
    /\ \/ Brokers
       \/ \E c \in Cxns : NewConnection(c) \/ ReadSocket(c)
       \/ SockThread \/ Relay \/ SendThread \/ SetOpen
       \/ Exchange \/ \E id \in known : ExchangeFills(id)

Spec == Init /\ [][Next]_vars

\* Every thread of the server polls for ever; the Exchange polls its ring.
FairSpec ==
    /\ Spec
    /\ \A c \in Cxns : WF_vars(alive /\ NewConnection(c)) /\ WF_vars(alive /\ ReadSocket(c))
    /\ WF_vars(alive /\ SockThread) /\ WF_vars(alive /\ Relay) /\ WF_vars(alive /\ SendThread)
    /\ WF_vars(alive /\ Exchange)

-----------------------------------------------------------------------------
TypeOK ==
    /\ peer \in [Cxns -> {"away", "open", "closed", "reset", "dead"}]
    /\ sent \in [Cxns -> 0 .. MaxRequests]
    /\ received \in [Cxns -> Seq([kind: NoteKinds, subject: Nat \X Nat])]
    /\ inbox \in [Cxns -> Seq(Request)] /\ sockQueue \in [PoolThreads -> Seq(Request)]
    /\ watched \subseteq Cxns
    /\ allTimeCxns \in 0 .. MaxCxns /\ sessions \in [SessionIds -> Cxns \cup {NoCxn}]
    /\ sockPc \in {"idle", "forward", "ack"} /\ cur \in {<<>>} \cup {<<msg>> : msg \in ExchangeMsg}
    /\ totalOrders \in OrderNums \cup {0}
    /\ placed \in [OrderNums -> (Cxns \X (1 .. MaxRequests)) \cup {NoRequest}]
    /\ toExchange \in Seq(ExchangeMsg) /\ Len(toExchange) <= RingCap
    /\ toServer \in Seq([kind: NoteKinds, subject: OrderId]) /\ Len(toServer) <= RingCap
    /\ known \subseteq OrderId /\ live \subseteq known /\ unreported \subseteq known
    /\ lost \subseteq OrderId
    /\ isOpen \in BOOLEAN /\ alive \in BOOLEAN

PlacedBy(num) == placed[num][1]

\* Every notification reaches the connection that sent the request, however
\* sessions come and go while its order is with the Exchange.  It needs a session id
\* per connection ever made: with MaxCxns > SessionModulus an id comes round again
\* and a new broker hears of the orders of an old one.
NotificationsReachOwner ==
    \A c \in Cxns : \A note \in ToSet(received[c]) :
        IF note.kind = "Reject" THEN note.subject[1] = c ELSE PlacedBy(note.subject[2]) = c

\* A broker cancels its own orders only, whatever order numbers it names.
CancelsOwnOnly ==
    \A msg \in ToSet(toExchange) :
        msg.kind = "cancel" /\ msg.id \in known => PlacedBy(msg.id[2]) = msg.by

\* A broker hears that the Exchange accepted an order before anything else that
\* the Exchange says of it, although two threads feed its connection.
AcceptedFirst ==
    \A c \in Cxns : \A j \in DOMAIN received[c] :
        LET note == received[c][j]
        IN  note.kind \in {"Fill", "CancelOk", "CancelFailed"} /\ note.subject \notin lost
              => \E i \in 1 .. j - 1 : received[c][i] = Note("Accepted", note.subject)

HasReached(id) == id \in known \/ \E msg \in ToSet(toExchange) : msg.kind = "order" /\ msg.id = id

\* An order that a broker was sent an Ack for is with the Exchange or on its way,
\* unless the full ring refused it, which the code logs before it sends the Ack.
AcksAreTrue ==
    \A c \in Cxns : \A note \in ToSet(received[c]) :
        note.kind = "Ack" /\ note.subject \notin lost => HasReached(note.subject)

\* No broker is told the same thing twice; only the answer to a cancel that fails
\* can be repeated, as the cancel can.
NoDuplicates ==
    \A c \in Cxns : \A i, j \in DOMAIN received[c] :
        received[c][i] = received[c][j] => i = j \/ received[c][i].kind = "CancelFailed"

-----------------------------------------------------------------------------
(* Liveness, under FairSpec *)

Answered(c, k) ==
    \E note \in ToSet(received[c]) :
        \/ note = Note("Reject", <<c, k>>)
        \/ note.kind = "Ack" /\ placed[note.subject[2]] = <<c, k>>

\* Every order request is answered, as long as the broker stays and nothing has
\* killed the server: its connection has a session by the time it is read.
OrdersAnswered ==
    \A c \in Cxns, k \in 1 .. MaxRequests :
        (\E req \in ToSet(inbox[c]) : req.seq = k /\ req.kind # "cancel")
            ~> (Answered(c, k) \/ peer[c] # "open" \/ ~alive)

\* What the Exchange accepts its broker hears of, unless a ring was full.
ReportsArrive ==
    \A c \in Cxns, id \in OrderId :
        (id \in known /\ PlacedBy(id[2]) = c)
            ~> (Note("Accepted", id) \in ToSet(received[c]) \/ peer[c] # "open" \/ id \in lost \/ ~alive)
=============================================================================
