-------------------------- MODULE TcpClientSocket --------------------------
(***************************************************************************)
(* The client's socket (src/misc/TcpSocket/TcpClientSocket.cpp) and the    *)
(* server at the other end: ConnectToServer with its retries, called by    *)
(* the user and again by the listening thread when the server closes, and  *)
(* the listening thread's loop.  Broker composes it with its user.         *)
(*                                                                         *)
(* The client has one connection at a time, so they are numbered.  A       *)
(* server that goes down closes or resets its connection, perhaps in the   *)
(* middle of a message.                                                    *)
(***************************************************************************)
EXTENDS TcpSocketBase

CONSTANTS
    MaxCxns,      \* bound: connections made; the server does not come back after the last
    MaxMsgs,      \* bound: messages on a connection
    MaxRetries,   \* maxRetries in ConnectToServer
    QueueCap      \* room in msgQueue_

ASSUME ClientAssumption == MaxCxns \in Nat /\ MaxMsgs \in Nat /\ MaxRetries \in Nat /\ QueueCap \in Nat \ {0}

Cxns == 1 .. MaxCxns

VARIABLES
    \* the server: listening or not, its end of the last connection (gone: it closed and
    \* answered something with an RST), messages sent, whether the last one is sent in
    \* part, units not read yet
    serverUp, peer, sent, partial, stream,
    cxn,                \* how many connections were made
    sockFd,             \* sockFd_: fresh (never connected), used, or closed
    state,              \* state_
    caller, connPc, attempt,    \* who is in ConnectToServer, where, and its i
    listenPc,           \* listeningThread_; "none" until it is launched
    stopToken,          \* listeningThreadStopToken_: of this thread, or of no thread
    stopRequested,      \* request_stop was called on listeningThread_
    superBuffer,        \* of ListenForMessages_
    msgQueue,           \* msgQueue_
    stuck,              \* history: whole messages were left in superBuffer by a full queue
    delivered           \* history: what went to msgQueue_

serverVars == <<serverUp, peer, sent, partial>>
connVars   == <<cxn, sockFd, state, caller, connPc, attempt>>
listenVars == <<listenPc, stopToken, stopRequested>>
bufferVars == <<superBuffer, stuck, delivered>>
socketVars == <<serverVars, stream, connVars, listenVars, bufferVars, msgQueue>>

SocketInit ==
    /\ serverUp \in BOOLEAN /\ peer = "away"
    /\ sent = [c \in Cxns |-> 0] /\ partial = [c \in Cxns |-> FALSE] /\ stream = <<>>
    /\ cxn = 0 /\ sockFd = "fresh" /\ state = "Uninitialized"
    /\ caller = "nobody" /\ connPc = "out" /\ attempt = 0
    /\ listenPc = "none" /\ stopToken = "unset" /\ stopRequested = FALSE
    /\ superBuffer = <<>> /\ stuck = FALSE /\ delivered = <<>> /\ msgQueue = <<>>

-----------------------------------------------------------------------------
(* The server and the kernel *)

ServerUp ==
    /\ ~serverUp /\ cxn < MaxCxns
    /\ serverUp' = TRUE
    /\ UNCHANGED <<peer, sent, partial, stream, connVars, listenVars, bufferVars, msgQueue>>

\* a FIN or an RST follows what has arrived
ServerDown ==
    /\ serverUp /\ serverUp' = FALSE
    /\ IF peer = "open" THEN peer' \in {"closed", "reset"} ELSE UNCHANGED peer
    /\ UNCHANGED <<sent, partial, stream, connVars, listenVars, bufferVars, msgQueue>>

\* a send may take a message in two parts
ServerSendHead ==
    /\ peer = "open" /\ ~partial[cxn] /\ sent[cxn] < MaxMsgs
    /\ sent'    = [sent EXCEPT ![cxn] = @ + 1]
    /\ partial' = [partial EXCEPT ![cxn] = TRUE]
    /\ stream'  = Append(stream, Head_(<<cxn, sent'[cxn]>>))
    /\ UNCHANGED <<serverUp, peer, connVars, listenVars, bufferVars, msgQueue>>

ServerSendRest ==
    /\ peer = "open" /\ partial[cxn]
    /\ partial' = [partial EXCEPT ![cxn] = FALSE]
    /\ stream'  = Append(stream, Rest_(<<cxn, sent[cxn]>>))
    /\ UNCHANGED <<serverUp, peer, sent, connVars, listenVars, bufferVars, msgQueue>>

-----------------------------------------------------------------------------
(* ConnectToServer *)

IsConnected == state = "Connected"

StopSeen == stopToken = "own" /\ stopRequested

EnterConnect(who) ==
    /\ caller' = who /\ connPc' = "try" /\ attempt' = 1 /\ state' = "Connecting"
    /\ UNCHANGED <<cxn, sockFd>>

Looping == connPc = "try" /\ attempt <= MaxRetries /\ ~StopSeen

ConnectSucceeds ==
    /\ Looping /\ serverUp /\ sockFd = "fresh"
    /\ cxn' = cxn + 1 /\ sockFd' = "used" /\ peer' = "open"
    /\ state' = "Connected" /\ connPc' = "callback"
    /\ UNCHANGED <<serverUp, sent, partial, stream, caller, attempt, listenVars, bufferVars, msgQueue>>

\* nobody listens, or this socket was connected before: a new socket for the next
\* attempt (RecreateSocket_)
\* (slip: the retry is made on the old socket)
OldSocket     == sockFd
RecreateSocket == "fresh"

ConnectFails ==
    /\ Looping /\ ~(serverUp /\ sockFd = "fresh") /\ attempt < MaxRetries
    /\ sockFd' = RecreateSocket /\ attempt' = attempt + 1
    /\ UNCHANGED <<serverVars, stream, cxn, state, caller, connPc, listenVars, bufferVars, msgQueue>>

ReturnFromConnect == connPc' = "out" /\ caller' = "nobody" /\ attempt' = 0

\* the last attempt: this return skips the launch of the listening thread
ConnectExpires ==
    /\ Looping /\ ~(serverUp /\ sockFd = "fresh") /\ attempt = MaxRetries
    /\ state' = "Disconnected" /\ ReturnFromConnect
    /\ UNCHANGED <<serverVars, stream, cxn, sockFd, listenVars, bufferVars, msgQueue>>

\* The loop has ended, after a success with the call of OnServerCxn_, which the user of
\* the socket adds to this action.  The new thread takes its stop token from listeningThread_
\* while this one assigns it (a data race): if it comes first, it finds no thread
\* there and its token never says stop.
\* (slip: not if the connection took several attempts)
LaunchAtFirst == IsConnected /\ listenPc = "none" /\ attempt = 1
ShouldLaunch  == IsConnected /\ listenPc = "none"

LeaveConnect ==
    /\ connPc = "callback" \/ (connPc = "try" /\ ~Looping)
    /\ ReturnFromConnect
    /\ IF ShouldLaunch
       THEN listenPc' = "recv" /\ stopToken' \in {"own", "none"}
       ELSE UNCHANGED <<listenPc, stopToken>>
    /\ UNCHANGED <<serverVars, stream, cxn, sockFd, state, stopRequested, bufferVars, msgQueue>>

-----------------------------------------------------------------------------
(* listeningThread_: ListenForMessages_ *)

AtRecv == listenPc = "recv" /\ caller # "listener" /\ ~StopSeen

StopListening ==
    /\ listenPc = "recv" /\ caller # "listener" /\ StopSeen
    /\ listenPc' = "ended"
    /\ UNCHANGED <<serverVars, stream, connVars, stopToken, stopRequested, bufferVars, msgQueue>>

Recv ==
    /\ AtRecv /\ sockFd = "used" /\ stream # <<>>
    /\ superBuffer' = superBuffer \o stream /\ stream' = <<>>
    /\ listenPc' = "parse"
    /\ UNCHANGED <<serverVars, connVars, stopToken, stopRequested, stuck, delivered, msgQueue>>

\* try_enqueue never allocates: it fails when the queue is full
HasRoom == Len(msgQueue) < QueueCap

\* ParseSuperBuffer_, one message at a time
ParseMsg ==
    /\ listenPc = "parse" /\ HasMsg(superBuffer) /\ HasRoom
    /\ msgQueue'    = Append(msgQueue, FrontMsg(superBuffer))
    /\ delivered'   = Append(delivered, FrontMsg(superBuffer))
    /\ superBuffer' = Leftover(superBuffer)
    /\ UNCHANGED <<serverVars, stream, connVars, listenVars, stuck>>

\* part of a message is left, or the queue is full and whole messages are
ParseEnd ==
    /\ listenPc = "parse" /\ ~(HasMsg(superBuffer) /\ HasRoom)
    /\ stuck' = (stuck \/ HasMsg(superBuffer))
    /\ listenPc' = "recv"
    /\ UNCHANGED <<serverVars, stream, connVars, stopToken, stopRequested, superBuffer, delivered,
                   msgQueue>>

\* recv returns 0: OnPeerDisconnect_.  superBuffer keeps what is in it.
PeerDisconnect ==
    /\ AtRecv /\ sockFd = "used" /\ stream = <<>> /\ peer \in {"closed", "gone"}
    /\ EnterConnect("listener")
    /\ UNCHANGED <<serverVars, stream, listenVars, bufferVars, msgQueue>>

\* ECONNRESET, or ENOTCONN on a socket that was never connected: the thread returns
RecvError ==
    /\ AtRecv
    /\ sockFd = "fresh" \/ (sockFd = "used" /\ stream = <<>> /\ peer = "reset")
    /\ listenPc' = "ended"
    /\ UNCHANGED <<serverVars, stream, connVars, stopToken, stopRequested, bufferVars, msgQueue>>

ListeningThread == StopListening \/ Recv \/ ParseMsg \/ ParseEnd \/ PeerDisconnect \/ RecvError

-----------------------------------------------------------------------------
\* GetNextMessage
GetNextMessage ==
    /\ msgQueue # <<>> /\ msgQueue' = Tail(msgQueue)
    /\ UNCHANGED <<serverVars, stream, connVars, listenVars, bufferVars>>
=============================================================================
