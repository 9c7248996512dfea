-------------------------- MODULE TcpServerSocket --------------------------
(***************************************************************************)
(* The server's socket (src/misc/TcpSocket/TcpServerSocket.cpp): a         *)
(* listening thread that waits on epoll, accepts connections and posts     *)
(* readable ones to a pool, the pool's threads that read and parse, and    *)
(* the destructor.  Every descriptor in epoll is one-shot: its event       *)
(* disarms it and whoever handles the event must arm it again.             *)
(*                                                                         *)
(* What a peer sends has arrived, so what is still on its way was not sent *)
(* yet.  Accepted descriptors are blocking and never closed, so a          *)
(* connection is its fd.                                                   *)
(***************************************************************************)
EXTENDS TcpSocketBase, SequencesExt, FiniteSetsExt

CONSTANTS
    MaxCxns,       \* bound: connections ever made
    MaxMsgs,       \* bound: messages that all peers send
    FdLimit,       \* descriptors that the process may have open
    MaxRecvCalls,  \* maxRecvCalls in HandleClientUpdate_
    RecvBufferSize,  \* recvBufferSize_, in units
    QueueCap,      \* room in msgQueue_
    PoolThreads    \* the threads of eventHandlerThreadPool_

ASSUME SocketAssumption ==
    MaxCxns \in Nat /\ MaxMsgs \in Nat /\ FdLimit \in Nat /\ {MaxRecvCalls, RecvBufferSize, QueueCap} \subseteq Nat \ {0}

Cxns     == 1 .. MaxCxns
NoCxn    == 0
Listener == MaxCxns + 1                     \* sockFd_
Msgs     == Cxns \X (1 .. MaxMsgs)
Units    == {Head_(m) : m \in Msgs} \cup {Rest_(m) : m \in Msgs}

VARIABLES
    \* the kernel and the peers: state of the other end, messages sent, whether the
    \* last one is sent in part, units not read yet, connections to accept,
    \* descriptors taken, by connections and by the rest of the process
    peer, sent, partial, stream, backlog, taken,
    armed, events,            \* epoll's armed descriptors; events not handled yet
    listenPc, newClientFd,    \* listeningThread_
    tasks,                    \* posted to the pool and not begun
    poolPc, clientFd, recvCalls, recvBuffer,   \* the pool's threads
    superBuffers,             \* superBuffersMap_ (an absent buffer is an empty one)
    epollFd,                  \* epollFd_: open, -1, or -1 with the descriptor closed
    shutdown,                 \* the destructor: no, begun, pool (to join), destroyed
    aborted,                  \* std::terminate
    queued,                   \* how many messages msgQueue_ has
    overflowed,               \* history: it was full, and a whole message stayed in a buffer
    delivered                 \* history: what went to it, by connection

peerVars   == <<peer, sent, partial, backlog>>
listenVars == <<listenPc, newClientFd, events, taken>>
poolVars   == <<poolPc, clientFd, recvCalls, recvBuffer>>
endVars    == <<epollFd, shutdown, aborted>>
queueVars  == <<queued, overflowed, delivered>>
vars == <<peerVars, stream, armed, listenVars, tasks, poolVars, superBuffers, endVars, queueVars>>

Init ==
    /\ peer = [c \in Cxns |-> "away"] /\ sent = [c \in Cxns |-> 0]
    /\ partial = [c \in Cxns |-> FALSE] /\ stream = [c \in Cxns |-> <<>>]
    /\ backlog = <<>> /\ taken \in 0 .. FdLimit
    /\ armed = {Listener} /\ events = {}
    /\ listenPc = "wait" /\ newClientFd = NoCxn /\ tasks = <<>>
    /\ poolPc = [t \in PoolThreads |-> "idle"] /\ clientFd = [t \in PoolThreads |-> NoCxn]
    /\ recvCalls = [t \in PoolThreads |-> 0] /\ recvBuffer = [t \in PoolThreads |-> <<>>]
    /\ superBuffers = [c \in Cxns |-> <<>>]
    /\ epollFd = "open" /\ shutdown = "no" /\ aborted = FALSE
    /\ queued = 0 /\ overflowed = FALSE /\ delivered = [c \in Cxns |-> <<>>]

-----------------------------------------------------------------------------
(* The peers and the kernel *)

Connect(c) ==
    /\ peer[c] = "away" /\ \A d \in Cxns : d < c => peer[d] # "away"
    /\ peer' = [peer EXCEPT ![c] = "open"] /\ backlog' = Append(backlog, c)
    /\ UNCHANGED <<sent, partial, stream, armed, listenVars, tasks, poolVars, superBuffers,
                   endVars, queueVars>>

\* a send may take a message in two parts
SendHead(c) ==
    /\ peer[c] = "open" /\ ~partial[c] /\ FoldFunction(+, 0, sent) < MaxMsgs
    /\ sent'    = [sent EXCEPT ![c] = @ + 1]
    /\ partial' = [partial EXCEPT ![c] = TRUE]
    /\ stream'  = [stream EXCEPT ![c] = Append(@, Head_(<<c, sent'[c]>>))]
    /\ UNCHANGED <<peer, backlog, armed, listenVars, tasks, poolVars, superBuffers, endVars, queueVars>>

SendRest(c) ==
    /\ peer[c] = "open" /\ partial[c]
    /\ partial' = [partial EXCEPT ![c] = FALSE]
    /\ stream'  = [stream EXCEPT ![c] = Append(@, Rest_(<<c, sent[c]>>))]
    /\ UNCHANGED <<peer, sent, backlog, armed, listenVars, tasks, poolVars, superBuffers, endVars,
                   queueVars>>

\* a FIN or an RST follows what has arrived
Leave(c) ==
    /\ peer[c] = "open"
    /\ \E end \in {"closed", "reset"} : peer' = [peer EXCEPT ![c] = end]
    /\ UNCHANGED <<sent, partial, stream, backlog, armed, listenVars, tasks, poolVars, superBuffers,
                   endVars, queueVars>>

Readable(c) == stream[c] # <<>> \/ peer[c] \in {"closed", "reset"}
Ready       == {c \in Cxns : Readable(c)} \cup {l \in {Listener} : backlog # <<>>}

-----------------------------------------------------------------------------
(* listeningThread_: HandleEpollEvents_ *)

\* (slip: the events are level-triggered only)
StillArmed(fds) == armed
Disarmed(fds)   == armed \ fds

\* The loop loads epollFd_ for epoll_wait, which fails once it is -1; a call that
\* has begun returns its events even if epollFd_ is closed meanwhile.
\* (slip: a failure of epoll_wait is taken for a timeout)
PollAgain(open) == "polling"
Polling(open)   == IF open THEN "polling" ELSE "ended"

Poll ==
    /\ listenPc = "wait" /\ events = {}
    /\ listenPc' = Polling(epollFd = "open")
    /\ UNCHANGED <<peerVars, stream, armed, newClientFd, events, taken, tasks, poolVars,
                   superBuffers, endVars, queueVars>>

\* epoll_wait returns what is ready, or nothing when it times out
Wait ==
    /\ listenPc = "polling"
    /\ listenPc' = "wait"
    /\ events'   = armed \cap Ready
    /\ armed'    = Disarmed(events')
    /\ UNCHANGED <<peerVars, stream, newClientFd, taken, tasks, poolVars, superBuffers, endVars,
                   queueVars>>

Post(c) ==
    /\ listenPc = "wait" /\ c \in events
    /\ events' = events \ {c}
    /\ tasks'  = Append(tasks, c)
    /\ UNCHANGED <<peerVars, stream, armed, listenPc, newClientFd, taken, poolVars, superBuffers,
                   endVars, queueVars>>

\* UpdateEpollFd_ reads epollFd_, and calls epoll_ctl unless it is -1
AfterLoad(ctl, done) == IF epollFd = "open" THEN ctl ELSE done

\* OnNewConnection_: without a descriptor for accept it returns here
Accept ==
    /\ listenPc = "wait" /\ Listener \in events
    /\ events' = events \ {Listener}
    /\ IF taken < FdLimit
       THEN /\ newClientFd' = Head(backlog) /\ backlog' = Tail(backlog)
            /\ taken' = taken + 1
            /\ listenPc' = AfterLoad("add", "buffer")
       ELSE UNCHANGED <<newClientFd, backlog, taken, listenPc>>
    /\ UNCHANGED <<peer, sent, partial, stream, armed, tasks, poolVars, superBuffers, endVars, queueVars>>

\* epoll_ctl on a descriptor closed in the meantime throws, and nothing in this
\* thread catches it
EpollCtl(f, next) ==
    IF epollFd = "closed"
    THEN aborted' = TRUE /\ UNCHANGED <<armed, listenPc>>
    ELSE armed' = armed \cup {f} /\ listenPc' = next /\ UNCHANGED aborted

AddClient ==
    /\ listenPc = "add"
    /\ EpollCtl(newClientFd, "buffer")
    /\ UNCHANGED <<peerVars, stream, newClientFd, events, taken, tasks, poolVars, superBuffers,
                   epollFd, shutdown, queueVars>>

\* (slip: the listening socket stays disarmed)
SkipRearm == "wait"
ToRearm   == AfterLoad("rearm", "wait")

\* superBuffersMap_[newClientFd] is made, empty; no event of the connection can be
\* posted before, since this thread posts them
MakeBuffer ==
    /\ listenPc = "buffer"
    /\ listenPc' = ToRearm /\ newClientFd' = NoCxn
    /\ UNCHANGED <<peerVars, stream, armed, events, taken, tasks, poolVars, superBuffers,
                   endVars, queueVars>>

\* arm the listening socket again; OnNewCxn_
RearmListener ==
    /\ listenPc = "rearm"
    /\ EpollCtl(Listener, "wait")
    /\ UNCHANGED <<peerVars, stream, newClientFd, events, taken, tasks, poolVars, superBuffers,
                   epollFd, shutdown, queueVars>>

-----------------------------------------------------------------------------
(* The pool: HandleClientUpdate_ *)

StartTask(t) ==
    /\ poolPc[t] = "idle" /\ tasks # <<>>
    /\ clientFd'  = [clientFd EXCEPT ![t] = Head(tasks)]
    /\ tasks'     = Tail(tasks)
    /\ poolPc'    = [poolPc EXCEPT ![t] = "recv"]
    /\ UNCHANGED <<peerVars, stream, armed, listenVars, recvCalls, recvBuffer, superBuffers, endVars, queueVars>>

\* recv blocks until something can be read, and reads what there is and fits
Recv(t) ==
    LET c == clientFd[t]
        n == Min({Len(stream[c]), RecvBufferSize})
    IN  /\ poolPc[t] = "recv" /\ stream[c] # <<>>
        /\ recvBuffer' = [recvBuffer EXCEPT ![t] = SubSeq(stream[c], 1, n)]
        /\ stream'     = [stream EXCEPT ![c] = SubSeq(@, n + 1, Len(@))]
        /\ recvCalls' = [recvCalls EXCEPT ![t] = @ + 1]
        /\ poolPc'    = [poolPc EXCEPT ![t] = "parse"]
        /\ UNCHANGED <<peerVars, armed, listenVars, tasks, clientFd, superBuffers, endVars, queueVars>>

LastCall(t) == recvCalls[t] = MaxRecvCalls

\* what is left of a buffer when n messages are taken from it
After(buffer) ==
    LET left[n \in 0 .. Len(buffer) \div 2] == IF n = 0 THEN buffer ELSE Leftover(left[n - 1])
    IN  left

\* Append and parse, under superBuffersMutex_.  As many messages go to msgQueue_ as it has
\* room for, more if its consumer is at work; if it is full the others stay in the buffer.
Parse(t) ==
    LET c      == clientFd[t]
        buffer == superBuffers[c] \o recvBuffer[t]
        left   == After(buffer)
        whole  == Len(buffer) \div 2
    IN  /\ poolPc[t] = "parse"
        /\ \E k \in Min({whole, QueueCap - queued}) .. whole :
              /\ delivered'    = [delivered EXCEPT ![c] = @ \o [n \in 1 .. k |-> FrontMsg(left[n - 1])]]
              /\ superBuffers' = [superBuffers EXCEPT ![c] = left[k]]
              /\ queued'       = Min({QueueCap, queued + k})
              /\ overflowed'   = (overflowed \/ k < whole)
        /\ recvBuffer' = [recvBuffer EXCEPT ![t] = <<>>]
        /\ poolPc' = [poolPc EXCEPT ![t] =
                         IF superBuffers'[c] = <<>> \/ LastCall(t)
                         THEN "rearm" ELSE "recv"]
        /\ UNCHANGED <<peerVars, stream, armed, listenVars, tasks, clientFd, recvCalls, endVars>>

EndTask(t) ==
    /\ clientFd' = [clientFd EXCEPT ![t] = NoCxn]
    /\ poolPc'   = [poolPc EXCEPT ![t] = "idle"]
    /\ recvCalls' = [recvCalls EXCEPT ![t] = 0]
    /\ UNCHANGED <<peerVars, stream, listenVars, tasks, recvBuffer, endVars, queueVars>>

\* UpdateEpollFd_(clientFd, false): what goes wrong here at a shutdown is caught
\* (slip: the thread just returns)
NotRearmed(c) == armed
Rearmed(c)    == IF epollFd = "open" THEN armed \cup {c} ELSE armed

RearmClient(t) ==
    /\ poolPc[t] = "rearm"
    /\ armed' = Rearmed(clientFd[t])
    /\ EndTask(t) /\ UNCHANGED superBuffers

\* recv returns 0: OnPeerDisconnect_
PeerDisconnect(t) ==
    LET c == clientFd[t]
    IN  /\ poolPc[t] = "recv" /\ stream[c] = <<>> /\ peer[c] = "closed"
        /\ superBuffers' = [superBuffers EXCEPT ![c] = <<>>]
        /\ EndTask(t) /\ UNCHANGED armed

\* recv fails: an exception, caught by the task
RecvError(t) ==
    /\ poolPc[t] = "recv" /\ stream[clientFd[t]] = <<>> /\ peer[clientFd[t]] = "reset"
    /\ EndTask(t) /\ UNCHANGED <<armed, superBuffers>>

-----------------------------------------------------------------------------
\* GetNextMessage, by the one consumer
GetNextMessage ==
    /\ queued > 0 /\ queued' = queued - 1
    /\ UNCHANGED <<peerVars, stream, armed, listenVars, tasks, poolVars, superBuffers, endVars,
                   overflowed, delivered>>

-----------------------------------------------------------------------------
(* ~TcpServerSocket *)

\* CloseEpoll_: exchange, then close
BeginShutdown ==
    /\ shutdown = "no"
    /\ shutdown' = "begun" /\ epollFd' = "-1"
    /\ UNCHANGED <<peerVars, stream, armed, listenVars, tasks, poolVars, superBuffers, aborted, queueVars>>

CloseEpoll ==
    /\ epollFd = "-1"
    /\ epollFd' = "closed"
    /\ UNCHANGED <<peerVars, stream, armed, listenVars, tasks, poolVars, superBuffers, shutdown,
                   aborted, queueVars>>

JoinListening ==
    /\ shutdown = "begun" /\ epollFd = "closed" /\ listenPc = "ended"
    /\ shutdown' = "pool"
    /\ UNCHANGED <<peerVars, stream, armed, listenVars, tasks, poolVars, superBuffers, epollFd,
                   aborted, queueVars>>

JoinPool ==
    /\ shutdown = "pool" /\ tasks = <<>> /\ \A t \in PoolThreads : poolPc[t] = "idle"
    /\ shutdown' = "destroyed"
    /\ UNCHANGED <<peerVars, stream, armed, listenVars, tasks, poolVars, superBuffers, epollFd,
                   aborted, queueVars>>

-----------------------------------------------------------------------------
Peer(c) == Connect(c) \/ SendHead(c) \/ SendRest(c) \/ Leave(c)

ListeningThread ==
    \/ Poll \/ Wait \/ Accept \/ AddClient \/ MakeBuffer \/ RearmListener
    \/ \E c \in Cxns : Post(c)

PoolThread(t) ==
    StartTask(t) \/ Recv(t) \/ Parse(t) \/ RearmClient(t) \/ PeerDisconnect(t) \/ RecvError(t)

Destructor == BeginShutdown \/ CloseEpoll \/ JoinListening \/ JoinPool

\* the socket is there, and its process
Running == ~aborted /\ shutdown # "destroyed"

Next ==
    /\ Running
    /\ \/ \E c \in Cxns : Peer(c)
       \/ ListeningThread
       \/ \E t \in PoolThreads : PoolThread(t)
       \/ GetNextMessage
       \/ Destructor

Spec == Init /\ [][Next]_vars

\* The threads run, a destructor that has begun goes on, and a peer that sent
\* part of a message sends the rest or leaves (its send loops; its kernel sends a
\* FIN or an RST when it dies).
FairSpec ==
    /\ Spec
    /\ WF_vars(Running /\ ListeningThread)
    /\ \A t \in PoolThreads : WF_vars(Running /\ PoolThread(t))
    /\ WF_vars(Running /\ (CloseEpoll \/ JoinListening \/ JoinPool))
    /\ \A c \in Cxns : WF_vars(Running /\ (SendRest(c) \/ (partial[c] /\ Leave(c))))

-----------------------------------------------------------------------------
TypeOK ==
    /\ peer \in [Cxns -> {"away", "open", "closed", "reset"}]
    /\ sent \in [Cxns -> 0 .. MaxMsgs] /\ partial \in [Cxns -> BOOLEAN]
    /\ stream \in [Cxns -> Seq(Units)]
    /\ backlog \in Seq(Cxns) /\ taken \in 0 .. FdLimit
    /\ armed \subseteq Cxns \cup {Listener} /\ events \subseteq Cxns \cup {Listener}
    /\ listenPc \in {"wait", "polling", "add", "buffer", "rearm", "ended"}
    /\ newClientFd \in Cxns \cup {NoCxn} /\ tasks \in Seq(Cxns)
    /\ poolPc \in [PoolThreads -> {"idle", "recv", "parse", "rearm"}]
    /\ clientFd \in [PoolThreads -> Cxns \cup {NoCxn}]
    /\ recvCalls \in [PoolThreads -> 0 .. MaxRecvCalls]
    /\ recvBuffer \in [PoolThreads -> Seq(Units)]
    /\ superBuffers \in [Cxns -> Seq(Units)]
    /\ epollFd \in {"open", "-1", "closed"}
    /\ shutdown \in {"no", "begun", "pool", "destroyed"} /\ aborted \in BOOLEAN
    /\ queued \in 0 .. QueueCap /\ overflowed \in BOOLEAN /\ delivered \in [Cxns -> Seq(Msgs)]

\* At most one thread handles a connection, and no event for it is on its way
\* while one does: the calls on its buffer and its callbacks come one by one.
OneHandler ==
    /\ \A t, u \in PoolThreads : clientFd[t] = clientFd[u] /\ clientFd[t] # NoCxn => t = u
    /\ \A t \in PoolThreads : clientFd[t] \notin armed \cup events \cup ToSet(tasks)
    /\ IsInjective(tasks) /\ ToSet(tasks) \cap (armed \cup events) = {}
    /\ armed \cap events = {}

\* Every connection's messages are delivered whole, in order and once, whatever
\* pieces they come in, whichever threads read them and whoever leaves.
Stream == INSTANCE MessageStream
StreamSpec == Stream!Spec

-----------------------------------------------------------------------------
(* Liveness, under FairSpec *)

Over == shutdown # "no" \/ aborted

\* A connection is accepted, unless the process has run out of descriptors.
ConnectionsAccepted ==
    \A c \in Cxns : c \in ToSet(backlog) ~> (c \notin ToSet(backlog) \/ taken = FdLimit \/ Over)

WholeSent(c) == IF partial[c] THEN sent[c] - 1 ELSE sent[c]

\* What a peer has sent whole is delivered, even if it closes its end after that,
\* as long as its connection could be accepted, nobody resets it and the queue was never
\* full: a message which that leaves in a buffer waits for more to come, is lost if the
\* peer leaves, and keeps a thread of the pool from the other connections.
MessagesDelivered ==
    \A c \in Cxns, k \in 1 .. MaxMsgs :
        WholeSent(c) >= k ~>
            (Len(delivered[c]) >= k \/ peer[c] = "reset" \/ c \in ToSet(backlog) \/ overflowed \/ Over)

\* The destructor returns, whatever the pool and the peers are in the middle of, unless a
\* full queue has left a thread waiting for more.
DestructorEnds == shutdown = "begun" ~> (shutdown = "destroyed" \/ aborted \/ overflowed)
=============================================================================
