---------------------------- MODULE BrokerProofs ----------------------------
(***************************************************************************)
(* Broker for any number of connections, messages, retries and calls:      *)
(* when its socket can say Connected while nobody listens to it.           *)
(***************************************************************************)
EXTENDS Broker, TLAPS

\* Who is in ConnectToServer, what state_ says there, and who runs meanwhile: the
\* main thread calls it only when no listening thread runs.
Caller ==
    /\ caller \in {"nobody", "main", "listener"} /\ connPc \in {"out", "try", "callback"}
    /\ caller = "nobody" => connPc = "out"
    /\ connPc = "out" => caller = "nobody"
    /\ caller = "main" => mainPc = "connecting" /\ listenPc \in {"none", "ended"}
    /\ caller = "listener" => listenPc = "recv"
    /\ connPc = "try" => state = "Connecting"
    /\ connPc = "callback" => state = "Connected"

\* A thread listens since the first connection, which the first call at the earliest
\* has made; a call that finds its thread ended is not the first one.
History ==
    /\ cxn \in Nat /\ calls \in Nat
    /\ listenPc # "none" => cxn >= 1 /\ calls >= 1
    /\ caller # "nobody" => calls >= 1
    /\ connPc = "callback" => cxn >= 1
    /\ caller = "main" /\ listenPc = "ended" => calls > 1

\* Who is connected has a thread that listens, but for what HeardUnless names.
Listener ==
    /\ state = "Connected" => sockFd = "used"
    /\ state = "Connected" /\ listenPc = "none" => caller = "main"
    /\ state = "Connected" /\ listenPc = "ended" =>
          peer = "reset" \/ (calls > 1 /\ cxn > 1) \/ stopRequested

BInv == Caller /\ History /\ Listener

\* A step that changes neither the connection nor who is in ConnectToServer.
LEMMA StepAside ==
    ASSUME BInv, UNCHANGED <<connVars, listenPc, calls>>,
           caller = "main" => mainPc' = mainPc,
           peer' = peer \/ peer # "reset",
           stopRequested => stopRequested'
    PROVE  BInv'
BY DEF BInv, Caller, History, Listener, connVars

LEMMA ServerSteps == ASSUME BInv, Server PROVE BInv'
<1> USE DEF serverVars, connVars, listenVars, bufferVars, brokerVars
<1>1. CASE ServerUp \/ ServerSendHead \/ ServerSendRest
  BY <1>1, StepAside DEF Server, ServerUp, ServerSendHead, ServerSendRest
<1>2. CASE ServerDown
  BY <1>2, StepAside DEF Server, ServerDown
<1> QED
  BY <1>1, <1>2 DEF Server

LEMMA ConnectSteps == ASSUME BInv, ConnectToServer PROVE BInv'
<1> USE DEF serverVars, connVars, listenVars, bufferVars
<1>1. mainPc' = IF caller = "main" /\ caller' = "nobody" THEN "connected?" ELSE mainPc
  BY DEF ConnectToServer
<1>2. calls' = calls
  BY DEF ConnectToServer
<1>3. CASE ConnectSucceeds
  <2>1. /\ connPc = "try" /\ cxn' = cxn + 1 /\ sockFd' = "used" /\ state' = "Connected"
        /\ connPc' = "callback" /\ UNCHANGED <<caller, listenPc>>
    BY <1>3 DEF ConnectSucceeds, Looping
  <2>2. Caller'
    BY <1>1, <2>1 DEF BInv, Caller
  <2>3. History'
    BY <1>2, <2>1 DEF BInv, Caller, History
  <2>4. listenPc = "ended" => caller = "main" /\ calls > 1 /\ cxn' > 1
    BY <2>1 DEF BInv, Caller, History
  <2>5. listenPc = "none" => caller = "main"
    BY <2>1 DEF BInv, Caller
  <2> QED
    BY <1>2, <2>1, <2>2, <2>3, <2>4, <2>5 DEF BInv, Listener
<1>4. CASE ConnectFails
  <2>1. connPc = "try" /\ UNCHANGED <<cxn, state, caller, connPc, listenPc>>
    BY <1>4 DEF ConnectFails, Looping
  <2> QED
    BY <1>1, <1>2, <2>1 DEF BInv, Caller, History, Listener
<1>5. CASE ConnectExpires
  <2>1. /\ state' = "Disconnected" /\ connPc' = "out" /\ caller' = "nobody"
        /\ UNCHANGED <<cxn, listenPc>>
    BY <1>5 DEF ConnectExpires, ReturnFromConnect
  <2> QED
    BY <1>1, <1>2, <2>1 DEF BInv, Caller, History, Listener
<1>6. CASE LeaveConnect
  <2>1. /\ connPc # "out" /\ connPc' = "out" /\ caller' = "nobody"
        /\ UNCHANGED <<cxn, sockFd, state, peer, stopRequested>>
        /\ IF state = "Connected" /\ listenPc = "none" THEN listenPc' = "recv"
           ELSE listenPc' = listenPc
    BY <1>6 DEF LeaveConnect, ReturnFromConnect, ShouldLaunch, IsConnected
  <2>2. Caller'
    BY <1>1, <2>1 DEF BInv, Caller
  <2>3. History'
    BY <1>2, <2>1 DEF BInv, Caller, History
  <2>4. Listener'
    BY <1>2, <2>1 DEF BInv, Caller, Listener
  <2> QED
    BY <2>2, <2>3, <2>4 DEF BInv
<1> QED
  BY <1>3, <1>4, <1>5, <1>6 DEF ConnectToServer

LEMMA ListeningSteps == ASSUME BInv, Listening PROVE BInv'
<1> USE DEF serverVars, connVars, listenVars, bufferVars, brokerVars
<1>0. UNCHANGED <<mainPc, calls>>
  BY DEF Listening
<1>1. CASE StopListening
  <2>1. /\ listenPc' = "ended" /\ caller # "listener" /\ stopRequested /\ listenPc = "recv"
        /\ UNCHANGED <<connVars, stopRequested>>
    BY <1>1 DEF StopListening, StopSeen
  <2> QED
    BY <1>0, <2>1 DEF BInv, Caller, History, Listener
<1>2. CASE RecvError
  <2>1. /\ listenPc' = "ended" /\ caller # "listener" /\ listenPc = "recv"
        /\ sockFd = "fresh" \/ peer = "reset"
        /\ UNCHANGED <<connVars, peer, stopRequested>>
    BY <1>2 DEF RecvError, AtRecv
  <2>2. caller = "nobody"
    BY <2>1 DEF BInv, Caller
  <2> QED
    BY <1>0, <2>1, <2>2 DEF BInv, Caller, History, Listener
<1>3. CASE PeerDisconnect
  <2>1. /\ listenPc = "recv" /\ caller # "listener" /\ UNCHANGED <<cxn, sockFd, listenPc>>
        /\ caller' = "listener" /\ connPc' = "try" /\ state' = "Connecting"
    BY <1>3 DEF PeerDisconnect, AtRecv, EnterConnect
  <2> QED
    BY <1>0, <2>1 DEF BInv, Caller, History, Listener
<1>4. CASE Recv \/ ParseMsg \/ ParseEnd
  <2>1. /\ listenPc \in {"recv", "parse"} /\ listenPc' \in {"recv", "parse"}
        /\ caller = "listener" => listenPc' = "recv"
        /\ UNCHANGED <<connVars, peer, stopRequested>>
    BY <1>4 DEF Recv, ParseMsg, ParseEnd, AtRecv, BInv, Caller
  <2> QED
    BY <1>0, <2>1 DEF BInv, Caller, History, Listener
<1> QED
  BY <1>1, <1>2, <1>3, <1>4 DEF Listening, ListeningThread

LEMMA MainSteps == ASSUME BInv, CallConnect \/ BeginSend \/ Destroy \/ MainThread PROVE BInv'
<1> USE DEF socketVars, serverVars, connVars, listenVars, bufferVars
<1>1. CASE CallConnect
  <2>1. /\ caller = "nobody" /\ listenPc \in {"none", "ended"}
        /\ UNCHANGED <<cxn, sockFd, listenPc>>
        /\ caller' = "main" /\ connPc' = "try" /\ state' = "Connecting"
        /\ mainPc' = "connecting" /\ calls' = calls + 1
    BY <1>1 DEF CallConnect, EnterConnect
  <2> QED
    BY <2>1 DEF BInv, Caller, History, Listener
<1>2. CASE BeginSend \/ Destroy \/ Launch \/ NotLaunched \/ JoinOld \/ DestroyNotify \/ DestroyCv
           \/ JoinProcessing
  <2>1. UNCHANGED <<connVars, listenPc, calls, peer, stopRequested>> /\ mainPc # "connecting"
    BY <1>2 DEF BeginSend, Destroy, Launch, NotLaunched, JoinOld, DestroyNotify, DestroyCv,
       JoinProcessing, MainStep
  <2>2. caller # "main"
    BY <2>1 DEF BInv, Caller
  <2> QED
    BY <2>1, <2>2, StepAside
<1>3. CASE EndSend
  <2>1. /\ UNCHANGED <<connVars, listenPc, calls, stopRequested>> /\ mainPc # "connecting"
        /\ peer' = IF sockFd = "used" /\ peer = "closed" THEN "gone" ELSE peer
    BY <1>3 DEF EndSend
  <2>2. caller # "main" /\ (peer' = peer \/ peer # "reset")
    BY <2>1 DEF BInv, Caller
  <2> QED
    BY <2>1, <2>2, StepAside
<1>4. CASE StopSocket
  <2>1. /\ UNCHANGED <<connVars, listenPc, calls, peer>> /\ mainPc # "connecting"
        /\ stopRequested' = (listenPc # "none")
    BY <1>4 DEF StopSocket, MainStep, StopIssued
  <2>2. caller # "main"
    BY <2>1 DEF BInv, Caller
  <2> QED
    BY <2>1, <2>2 DEF BInv, Caller, History, Listener
<1>5. CASE DestroySocket
  <2>1. /\ UNCHANGED <<cxn, caller, connPc, listenPc, calls>> /\ mainPc # "connecting"
        /\ listenPc \in {"none", "ended"} /\ state' = "Destroyed"
    BY <1>5 DEF DestroySocket, MainStep
  <2>2. caller = "nobody" /\ connPc = "out"
    BY <2>1 DEF BInv, Caller
  <2> QED
    BY <2>1, <2>2 DEF BInv, Caller, History, Listener
<1> QED
  BY <1>1, <1>2, <1>3, <1>4, <1>5 DEF MainThread

LEMMA ProcessingSteps == ASSUME BInv, NEW k \in Calls, ProcessingThread(k) \/ WakeUp(k) PROVE BInv'
<1> USE DEF socketVars, serverVars, connVars, listenVars, bufferVars
<1>1. UNCHANGED <<connVars, listenPc, calls, mainPc, peer, stopRequested>>
  BY DEF ProcessingThread, Lock, Loop, Process, PollEnd, Check, Sleep, WakeUp, ProcStep,
     GetNextMessage
<1> QED
  BY <1>1, StepAside

\* The inductive invariant: who is in ConnectToServer, and who listens.
THEOREM BrokerInvariant == Spec => []BInv
<1>1. Init => BInv
  BY DEF Init, SocketInit, BInv, Caller, History, Listener
<1>2. BInv /\ [Next]_vars => BInv'
  <2> SUFFICES ASSUME BInv, [Next]_vars PROVE BInv'
    OBVIOUS
  <2>1. CASE UNCHANGED vars
    <3>1. UNCHANGED <<connVars, listenPc, calls, mainPc, peer, stopRequested>>
      BY <2>1 DEF vars, socketVars, serverVars, connVars, listenVars, brokerVars
    <3> QED
      BY <3>1, StepAside
  <2> QED
    BY <2>1, ServerSteps, ConnectSteps, ListeningSteps, MainSteps, ProcessingSteps DEF Next
<1> QED
  BY <1>1, <1>2, PTL DEF Spec

\* The socket says Connected and nobody listens only after a reset, once the main thread
\* has connected again after the retries ran out, or at shutdown.
THEOREM BrokerHeardUnless == Spec => []HeardUnless
<1>1. BInv => HeardUnless
  BY DEF BInv, Caller, History, Listener, HeardUnless
<1> QED
  BY <1>1, BrokerInvariant, PTL
=============================================================================
