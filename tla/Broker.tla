------------------------------- MODULE Broker -------------------------------
(***************************************************************************)
(* A broker (src/core/Broker.cpp) on its TcpClientSocket: the main thread, *)
(* which connects, sends and destroys the Broker, and the thread that      *)
(* processes the socket's messages and sleeps on exchangeCxnCv_ while      *)
(* there is no connection.  The listening thread notifies from             *)
(* ConnectToServer, without exchangeCvMutex_.                              *)
(*                                                                         *)
(* Every call of ConnectToExchangeServer that connects launches a          *)
(* processing thread, numbered by the call.  The main thread calls it      *)
(* again only when the listening thread is not running.                    *)
(***************************************************************************)
EXTENDS TcpClientSocket, FiniteSets

CONSTANT MaxCalls   \* bound: calls of ConnectToExchangeServer

ASSUME BrokerAssumption == MaxCalls \in Nat \ {0}

Calls == 1 .. MaxCalls

VARIABLES
    mainPc,     \* the main thread; after "ready", the steps of a send or of ~Broker
    calls,      \* calls of ConnectToExchangeServer so far
    current,    \* the thread that sockMsgProcessingThread_ holds (0: none)
    procPc,     \* the processing threads
    procStop,   \* request_stop was called on them
    missed,     \* history: a notify came between a thread's check and its sleep
    killed      \* SIGPIPE

brokerVars == <<mainPc, calls, current, procPc, procStop, missed, killed>>
vars == <<socketVars, brokerVars>>

Init ==
    /\ SocketInit
    /\ mainPc = "ready" /\ calls = 0 /\ current = 0
    /\ procPc = [k \in Calls |-> "none"] /\ procStop = [k \in Calls |-> FALSE]
    /\ missed = FALSE /\ killed = FALSE

-----------------------------------------------------------------------------
(* exchangeCxnCv_ and exchangeCvMutex_ *)

\* a thread that runs has the mutex; one that sleeps gave it up
MutexFree == \A k \in Calls : procPc[k] \notin {"loop", "poll", "check", "wait"}

Asleep == {k \in Calls : procPc[k] = "asleep"}

\* (slip: nobody is notified)
NotifyNobody == UNCHANGED <<procPc, missed>>
NotifyOne ==
    /\ IF Asleep = {} THEN UNCHANGED procPc
       ELSE \E k \in Asleep : procPc' = [procPc EXCEPT ![k] = "woken"]
    /\ missed' = (missed \/ \E k \in Calls : procPc[k] = "wait")

-----------------------------------------------------------------------------
(* The main thread: ConnectToExchangeServer *)

CallConnect ==
    /\ mainPc = "ready" /\ calls < MaxCalls
    /\ ~IsConnected /\ caller = "nobody" /\ listenPc \in {"none", "ended"}
    /\ EnterConnect("main")
    /\ mainPc' = "connecting" /\ calls' = calls + 1
    /\ UNCHANGED <<serverVars, stream, listenVars, bufferVars, msgQueue, current, procPc, procStop,
                   missed, killed>>

\* the steps of ConnectToServer, whoever called it; OnExchangeCxn_ notifies; the main
\* thread goes on when its call returns
ConnectToServer ==
    /\ ConnectSucceeds \/ ConnectFails \/ ConnectExpires \/ LeaveConnect
    /\ IF connPc = "callback" THEN NotifyOne ELSE UNCHANGED <<procPc, missed>>
    /\ mainPc' = IF caller = "main" /\ caller' = "nobody" THEN "connected?" ELSE mainPc
    /\ UNCHANGED <<calls, current, procStop, killed>>

\* LaunchMsgProcessingThread_: the thread assigned over is asked to stop
Launch ==
    /\ mainPc = "connected?" /\ IsConnected
    /\ current'  = calls
    /\ procPc'   = [procPc EXCEPT ![calls] = "lock"]
    /\ procStop' = [k \in Calls |-> procStop[k] \/ k = current]
    /\ mainPc'   = "join old"
    /\ UNCHANGED <<socketVars, calls, missed, killed>>

NotLaunched ==
    /\ mainPc = "connected?" /\ ~IsConnected
    /\ mainPc' = "ready"
    /\ UNCHANGED <<socketVars, calls, current, procPc, procStop, missed, killed>>

\* ... and joined
JoinOld ==
    /\ mainPc = "join old" /\ \A k \in Calls \ {current} : procPc[k] \in {"none", "ended"}
    /\ mainPc' = "ready"
    /\ UNCHANGED <<socketVars, calls, current, procPc, procStop, missed, killed>>

-----------------------------------------------------------------------------
(* The main thread: SendMessage_, a check and then a send on what is then the socket *)

BeginSend ==
    /\ mainPc = "ready" /\ IsConnected
    /\ mainPc' = "send"
    /\ UNCHANGED <<socketVars, calls, current, procPc, procStop, missed, killed>>

\* The first send after the server closed is answered with an RST; another one, or one
\* on a socket that was reset or never connected, raises SIGPIPE.
EndSend ==
    /\ mainPc = "send" /\ mainPc' = "ready"
    /\ killed' = (sockFd = "fresh" \/ peer \in {"gone", "reset"})
    /\ peer'   = IF sockFd = "used" /\ peer = "closed" THEN "gone" ELSE peer
    /\ UNCHANGED <<serverUp, sent, partial, stream, connVars, listenVars, bufferVars, msgQueue,
                   calls, current, procPc, procStop, missed>>

-----------------------------------------------------------------------------
(* The processing threads: ProcessSocketMsgs_ *)

ProcStep(k, from, to) ==
    /\ procPc[k] = from /\ procPc' = [procPc EXCEPT ![k] = to]
    /\ UNCHANGED <<mainPc, calls, current, procStop, missed, killed>>

Lock(k) ==
    /\ MutexFree
    /\ ProcStep(k, "lock", "loop") \/ ProcStep(k, "woken", "check")
    /\ UNCHANGED socketVars

Loop(k) == ProcStep(k, "loop", IF procStop[k] THEN "ended" ELSE "poll") /\ UNCHANGED socketVars

Process(k) == ProcStep(k, "poll", "poll") /\ GetNextMessage

PollEnd(k) == msgQueue = <<>> /\ ProcStep(k, "poll", "check") /\ UNCHANGED socketVars

\* wait's predicate
Check(k) ==
    /\ ProcStep(k, "check", IF IsConnected \/ procStop[k] THEN "loop" ELSE "wait")
    /\ UNCHANGED socketVars

Sleep(k) == ProcStep(k, "wait", "asleep") /\ UNCHANGED socketVars

\* a spurious wakeup
WakeUp(k) == ProcStep(k, "asleep", "woken") /\ UNCHANGED socketVars

ProcessingThread(k) == Lock(k) \/ Loop(k) \/ Process(k) \/ PollEnd(k) \/ Check(k) \/ Sleep(k)

-----------------------------------------------------------------------------
(* ~Broker *)

MainStep(from, to) ==
    /\ mainPc = from /\ mainPc' = to
    /\ UNCHANGED <<calls, current, killed>>

\* request_stop and notify_one, if there is a thread
Destroy ==
    /\ MainStep("ready", IF current = 0 THEN "cv" ELSE "notify")
    /\ procStop' = [k \in Calls |-> procStop[k] \/ k = current]
    /\ UNCHANGED <<socketVars, procPc, missed>>

DestroyNotify == MainStep("notify", "cv") /\ NotifyOne /\ UNCHANGED <<socketVars, procStop>>

\* the members: the condition variable waits until nobody sleeps on it ...
DestroyCv ==
    /\ MainStep("cv", "join") /\ Asleep = {}
    /\ UNCHANGED <<socketVars, procPc, procStop, missed>>

\* ... the thread is joined ...
JoinProcessing ==
    /\ MainStep("join", "socket") /\ \A k \in Calls : procPc[k] \in {"none", "ended"}
    /\ UNCHANGED <<socketVars, procPc, procStop, missed>>

\* ... and the socket stops and joins its own
\* (slip: without request_stop)
NoStop     == FALSE
StopIssued == TRUE

StopSocket ==
    /\ MainStep("socket", "join socket")
    /\ stopRequested' = (listenPc # "none" /\ StopIssued)
    /\ UNCHANGED <<serverVars, stream, connVars, listenPc, stopToken, bufferVars, msgQueue, procPc,
                   procStop, missed>>

DestroySocket ==
    /\ MainStep("join socket", "destroyed") /\ listenPc \in {"none", "ended"}
    /\ sockFd' = "closed" /\ state' = "Destroyed"
    /\ UNCHANGED <<serverVars, stream, cxn, caller, connPc, attempt, listenVars, bufferVars, msgQueue,
                   procPc, procStop, missed>>

-----------------------------------------------------------------------------
Server == (ServerUp \/ ServerDown \/ ServerSendHead \/ ServerSendRest) /\ UNCHANGED brokerVars

Listening == ListeningThread /\ UNCHANGED brokerVars

\* what the main thread does once it has begun a call
MainThread ==
    Launch \/ NotLaunched \/ JoinOld \/ EndSend \/ DestroyNotify \/ DestroyCv \/ JoinProcessing
    \/ StopSocket \/ DestroySocket

Next ==
    /\ ~killed
    /\ \/ Server
       \/ ConnectToServer
       \/ Listening
       \/ CallConnect \/ BeginSend \/ Destroy
       \/ MainThread
       \/ \E k \in Calls : ProcessingThread(k) \/ WakeUp(k)

Spec == Init /\ [][Next]_vars

\* The threads run and a call that has begun goes on; the server and the user do what
\* they like.
FairSpec ==
    /\ Spec
    /\ WF_vars(~killed /\ ConnectToServer)
    /\ WF_vars(~killed /\ Listening)
    /\ WF_vars(~killed /\ MainThread)
    /\ \A k \in Calls : WF_vars(~killed /\ ProcessingThread(k))

-----------------------------------------------------------------------------
Messages == Cxns \X (1 .. MaxMsgs)
Units    == Messages \X {"head", "rest"}

TypeOK ==
    /\ serverUp \in BOOLEAN /\ peer \in {"away", "open", "closed", "gone", "reset"}
    /\ sent \in [Cxns -> 0 .. MaxMsgs] /\ partial \in [Cxns -> BOOLEAN] /\ stream \in Seq(Units)
    /\ cxn \in 0 .. MaxCxns /\ sockFd \in {"fresh", "used", "closed"}
    /\ state \in {"Uninitialized", "Connecting", "Connected", "Disconnected", "Destroyed"}
    /\ caller \in {"nobody", "main", "listener"} /\ connPc \in {"out", "try", "callback"}
    /\ attempt \in 0 .. MaxRetries + 1
    /\ listenPc \in {"none", "recv", "parse", "ended"} /\ stopToken \in {"unset", "own", "none"}
    /\ stopRequested \in BOOLEAN /\ superBuffer \in Seq(Units) /\ stuck \in BOOLEAN
    /\ {delivered, msgQueue} \subseteq Seq(Messages \cup {Garbage}) /\ Len(msgQueue) <= QueueCap
    /\ mainPc \in {"ready", "connecting", "connected?", "join old", "send", "notify", "cv", "join",
                   "socket", "join socket", "destroyed"}
    /\ calls \in 0 .. MaxCalls /\ current \in 0 .. MaxCalls
    /\ procPc \in [Calls -> {"none", "lock", "loop", "poll", "check", "wait", "asleep", "woken", "ended"}]
    /\ procStop \in [Calls -> BOOLEAN] /\ {missed, killed} \subseteq BOOLEAN

\* A connection was cut in the middle of a message.
Cut(c) == partial[c] /\ (c < cxn \/ peer # "open")

\* The messages of a connection reach the queue whole, in order and once, across
\* reconnects; only a connection cut in the middle of a message spoils the next ones
\* (superBuffer outlives it).
FromCxn(c) == IF \E d \in 1 .. c - 1 : Cut(d) THEN <<>> ELSE SelectSeq(delivered, LAMBDA m : m[1] = c)
Stream == INSTANCE MessageStream WITH delivered <- [c \in Cxns |-> FromCxn(c)]
StreamSpec == Stream!Spec

\* The socket says Connected while nobody listens only after an RST, or when the main
\* thread connected again after the retries ran out (the old thread is joinable, so no
\* new one is launched).
HeardUnless ==
    state = "Connected" /\ caller # "main" /\ listenPc \in {"none", "ended"} =>
        peer = "reset" \/ (calls > 1 /\ cxn > 1) \/ stopRequested

-----------------------------------------------------------------------------
(* Liveness, under FairSpec *)

Over == killed \/ mainPc \in {"notify", "cv", "join", "socket", "join socket", "destroyed"}

\* When the server closes a connection, the listening thread makes another one or uses
\* up its retries; a server that stays up before the last of them is connected to.
Reconnects ==
    /\ state = "Connected" /\ peer = "closed" ~>
           (peer = "open" \/ state = "Disconnected" \/ listenPc = "ended" \/ Over)
    /\ caller = "listener" /\ serverUp /\ attempt < MaxRetries ~> (peer = "open" \/ ~serverUp \/ Over)

WholeSent(c) == IF partial[c] THEN sent[c] - 1 ELSE sent[c]

\* A message that the server sent whole reaches the queue, unless the connection is
\* reset or not listened to, an earlier one was cut, or the queue was full: then the
\* message waits in superBuffer for a read that may never come.
MessagesArrive ==
    \A c \in Cxns, k \in 1 .. MaxMsgs :
        WholeSent(c) >= k ~>
            (Len(FromCxn(c)) >= k \/ stuck \/ (\E d \in Cxns : d < c /\ Cut(d)) \/ peer = "reset"
             \/ listenPc = "ended" \/ Over)

Taken == Len(delivered) - Len(msgQueue)

\* Messages in the queue are processed while the broker is connected, unless the
\* processing thread sleeps through the connection or was never launched (the call
\* that connected found the connection lost when it looked).
ProcessedUnlessMissed ==
    \A k \in 1 .. MaxCxns * MaxMsgs :
        Len(delivered) >= k /\ IsConnected ~> (Taken >= k \/ ~IsConnected \/ missed \/ current = 0 \/ Over)

\* ~Broker returns, unless the processing thread missed its notify or the listening
\* thread has a token that never says stop.
ShutdownEnds == Over ~> (mainPc = "destroyed" \/ killed \/ missed \/ stopToken = "none")
=============================================================================
