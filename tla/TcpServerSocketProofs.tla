----------------------- MODULE TcpServerSocketProofs -----------------------
(***************************************************************************)
(* TcpServerSocket for any number of connections, messages, descriptors    *)
(* and pool threads: a descriptor is in one place at a time.               *)
(***************************************************************************)
EXTENDS TcpServerSocket, TLAPS

\* The kinds of what the proof is about; what is read and parsed has no part in it.
Kinds ==
    /\ armed \subseteq Cxns \cup {Listener} /\ events \subseteq Cxns \cup {Listener}
    /\ tasks \in Seq(Cxns) /\ backlog \in Seq(Cxns)
    /\ newClientFd \in Cxns \cup {NoCxn}
    /\ clientFd \in [PoolThreads -> Cxns \cup {NoCxn}]
    /\ poolPc \in [PoolThreads -> {"idle", "recv", "parse", "rearm"}]
    /\ peer \in [Cxns -> {"away", "open", "closed", "reset"}]

\* a connection that epoll has never heard of
NotYet(c) == peer[c] = "away" \/ c \in ToSet(backlog) \/ (listenPc = "add" /\ c = newClientFd)

Unused(c) == c \notin armed \cup events \cup ToSet(tasks) /\ \A t \in PoolThreads : clientFd[t] # c

\* Where a connection waits before it is served, each in one place as well.
Waiting ==
    /\ \A c \in Cxns : NotYet(c) => Unused(c)
    /\ IsInjective(backlog)
    /\ \A c \in ToSet(backlog) : peer[c] # "away" /\ (listenPc = "add" => c # newClientFd)
    /\ listenPc = "add" => newClientFd \in Cxns /\ peer[newClientFd] # "away"

\* The listening socket is disarmed while its event is handled, and a thread that
\* is not idle has a connection.
Busy ==
    /\ listenPc \in {"add", "buffer", "rearm"} => Listener \notin armed \cup events
    /\ Listener \in events => backlog # <<>>
    /\ \A t \in PoolThreads : poolPc[t] # "idle" => clientFd[t] # NoCxn

IInv == Kinds /\ OneHandler /\ Waiting /\ Busy

-----------------------------------------------------------------------------
(* Sequences as queues of distinct elements *)

LEMMA EmptyQueue == ASSUME NEW S PROVE <<>> \in Seq(S) /\ ToSet(<<>>) = {} /\ IsInjective(<<>>)
  BY DEF ToSet, IsInjective

LEMMA QueueOf == ASSUME NEW S, NEW s \in Seq(S) PROVE ToSet(s) \subseteq S
  BY DEF ToSet

LEMMA AppendQueue ==
    ASSUME NEW S, NEW s \in Seq(S), NEW c \in S
    PROVE  /\ Append(s, c) \in Seq(S) /\ Append(s, c) # <<>>
           /\ ToSet(Append(s, c)) = ToSet(s) \cup {c}
           /\ IsInjective(s) /\ c \notin ToSet(s) => IsInjective(Append(s, c))
<1>1. /\ DOMAIN s = 1 .. Len(s) /\ DOMAIN Append(s, c) = 1 .. Len(s) + 1 /\ Len(s) \in Nat
      /\ \A i \in 1 .. Len(s) : Append(s, c)[i] = s[i]
      /\ Append(s, c)[Len(s) + 1] = c
  OBVIOUS
<1>2. \A i : i \in 1 .. Len(s) + 1 <=> i \in 1 .. Len(s) \/ i = Len(s) + 1
  BY <1>1
<1>3. ToSet(Append(s, c)) = ToSet(s) \cup {c}
  BY <1>1, <1>2, Zenon DEF ToSet
<1>4. ASSUME IsInjective(s), c \notin ToSet(s) PROVE IsInjective(Append(s, c))
  <2>1. \A i \in 1 .. Len(s) : s[i] # c
    BY <1>1, <1>4 DEF ToSet
  <2>2. SUFFICES ASSUME NEW a \in 1 .. Len(s) + 1, NEW b \in 1 .. Len(s) + 1,
                        Append(s, c)[a] = Append(s, c)[b]
                 PROVE  a = b
    BY <1>1 DEF IsInjective
  <2>3. CASE a \in 1 .. Len(s) /\ b \in 1 .. Len(s)
    BY <1>1, <1>4, <2>2, <2>3 DEF IsInjective
  <2>4. CASE a \in 1 .. Len(s) /\ b = Len(s) + 1
    BY <1>1, <2>1, <2>2, <2>4
  <2>5. CASE a = Len(s) + 1 /\ b \in 1 .. Len(s)
    BY <1>1, <2>1, <2>2, <2>5
  <2>6. /\ a \in 1 .. Len(s) \/ a = Len(s) + 1
        /\ b \in 1 .. Len(s) \/ b = Len(s) + 1
    BY <1>2
  <2> QED
    BY <2>3, <2>4, <2>5, <2>6
<1>5. Append(s, c) \in Seq(S) /\ Len(Append(s, c)) = Len(s) + 1 /\ Len(<<>>) = 0
  OBVIOUS
<1>6. Append(s, c) # <<>>
  BY <1>1, <1>5
<1> QED
  BY <1>3, <1>4, <1>5, <1>6

LEMMA TailQueue ==
    ASSUME NEW S, NEW s \in Seq(S), s # <<>>, IsInjective(s)
    PROVE  /\ Head(s) \in S /\ Head(s) \in ToSet(s)
           /\ Tail(s) \in Seq(S) /\ IsInjective(Tail(s))
           /\ ToSet(Tail(s)) = ToSet(s) \ {Head(s)}
<1>1. /\ DOMAIN s = 1 .. Len(s) /\ Len(s) \in Nat \ {0}
      /\ DOMAIN Tail(s) = 1 .. Len(s) - 1 /\ \A i \in 1 .. Len(s) - 1 : Tail(s)[i] = s[i + 1]
      /\ Head(s) = s[1] /\ Head(s) \in S /\ Tail(s) \in Seq(S)
  OBVIOUS
<1>2. IsInjective(Tail(s))
  BY <1>1 DEF IsInjective
<1>3. Head(s) \in ToSet(s)
  BY <1>1 DEF ToSet
<1>4. ToSet(Tail(s)) \subseteq ToSet(s) \ {Head(s)}
  <2> SUFFICES ASSUME NEW i \in 1 .. Len(s) - 1 PROVE s[i + 1] \in ToSet(s) /\ s[i + 1] # s[1]
    BY <1>1 DEF ToSet
  <2>1. i + 1 \in DOMAIN s /\ 1 \in DOMAIN s /\ i + 1 # 1
    BY <1>1
  <2> QED
    BY <2>1 DEF ToSet, IsInjective
<1>5. ToSet(s) \ {Head(s)} \subseteq ToSet(Tail(s))
  <2> SUFFICES ASSUME NEW j \in 1 .. Len(s), s[j] # s[1] PROVE s[j] \in ToSet(Tail(s))
    BY <1>1 DEF ToSet
  <2>1. j - 1 \in 1 .. Len(s) - 1 /\ Tail(s)[j - 1] = s[j]
    BY <1>1
  <2> QED
    BY <1>1, <2>1 DEF ToSet
<1> QED
  BY <1>1, <1>2, <1>3, <1>4, <1>5

-----------------------------------------------------------------------------
LEMMA InitIInv == Init => IInv
<1> SUFFICES ASSUME Init PROVE IInv
  OBVIOUS
<1> USE SocketAssumption DEF Init, Cxns, Listener, NoCxn
<1>1. tasks = <<>> /\ backlog = <<>> /\ ToSet(tasks) = {} /\ ToSet(backlog) = {}
      /\ tasks \in Seq(Cxns)
      /\ backlog \in Seq(Cxns) /\ IsInjective(tasks) /\ IsInjective(backlog)
  BY EmptyQueue
<1>2. Kinds
  BY <1>1 DEF Kinds
<1>3. OneHandler
  BY <1>1 DEF OneHandler
<1>4. Waiting /\ Busy
  BY <1>1 DEF Waiting, Busy, NotYet, Unused
<1> QED
  BY <1>2, <1>3, <1>4 DEF IInv

\* A step that moves no descriptor.
LEMMA NothingMoves ==
    ASSUME IInv, UNCHANGED <<backlog, armed, events, tasks, newClientFd, clientFd>>,
           peer' \in [Cxns -> {"away", "open", "closed", "reset"}],
           \A c \in Cxns : peer'[c] = "away" <=> peer[c] = "away",
           poolPc' \in [PoolThreads -> {"idle", "recv", "parse", "rearm"}],
           \A t \in PoolThreads : poolPc'[t] # "idle" => poolPc[t] # "idle",
           listenPc' = listenPc \/ listenPc' \in {"wait", "polling", "ended"}
    PROVE  IInv'
<1>1. Kinds'
  BY DEF IInv, Kinds
<1>2. OneHandler'
  BY DEF IInv, OneHandler
<1>q. ToSet(backlog) \subseteq Cxns
  BY QueueOf DEF IInv, Kinds
<1>3. Waiting'
  BY <1>q DEF IInv, Waiting, NotYet, Unused
<1>4. Busy'
  BY DEF IInv, Busy
<1> QED
  BY <1>1, <1>2, <1>3, <1>4 DEF IInv

LEMMA NextIInv == IInv /\ [Next]_vars => IInv'
<1> SUFFICES ASSUME IInv, [Next]_vars PROVE IInv'
  OBVIOUS
<1> USE SocketAssumption
<1> USE DEF vars, peerVars, listenVars, poolVars, endVars, queueVars
<1>k. /\ Kinds /\ OneHandler /\ Waiting /\ Busy
      /\ ToSet(tasks) \subseteq Cxns /\ ToSet(backlog) \subseteq Cxns
      /\ NoCxn \notin Cxns \cup {Listener} /\ Listener \notin Cxns
  BY QueueOf DEF IInv, Kinds, Cxns, Listener, NoCxn
<1>1. ASSUME NEW c \in Cxns, Connect(c) PROVE IInv'
  <2>1. /\ peer[c] = "away" /\ peer' = [peer EXCEPT ![c] = "open"] /\ backlog' = Append(backlog, c)
        /\ UNCHANGED <<armed, listenPc, newClientFd, events, tasks, poolPc, clientFd>>
    BY <1>1 DEF Connect
  <2>2. c \notin ToSet(backlog) /\ Unused(c) /\ (listenPc = "add" => c # newClientFd)
    BY <1>k, <2>1 DEF Waiting, NotYet
  <2>3. /\ backlog' \in Seq(Cxns) /\ backlog' # <<>> /\ IsInjective(backlog')
        /\ ToSet(backlog') = ToSet(backlog) \cup {c}
    BY <1>k, <2>1, <2>2, AppendQueue DEF Kinds, Waiting
  <2>4. \A d \in Cxns : d # c => peer'[d] = peer[d]
    BY <1>k, <2>1 DEF Kinds
  <2>5. peer'[c] = "open"
    BY <1>k, <2>1 DEF Kinds
  <2>6. Kinds'
    BY <1>k, <2>1, <2>3 DEF Kinds
  <2>7. OneHandler'
    BY <1>k, <2>1 DEF OneHandler
  <2>8. \A d \in Cxns : NotYet(d)' => Unused(d)'
    BY <1>k, <2>1, <2>2, <2>3, <2>4 DEF Waiting, NotYet, Unused
  <2>9. Waiting'
    BY <1>k, <2>1, <2>2, <2>3, <2>4, <2>5, <2>8 DEF Waiting
  <2>10. Busy'
    BY <1>k, <2>1, <2>3 DEF Busy
  <2> QED
    BY <2>6, <2>7, <2>9, <2>10 DEF IInv
<1>2. ASSUME NEW c \in Cxns, SendHead(c) PROVE IInv'
  BY <1>2, <1>k, NothingMoves DEF SendHead, Kinds, Busy
<1>3. ASSUME NEW c \in Cxns, SendRest(c) PROVE IInv'
  BY <1>3, <1>k, NothingMoves DEF SendRest, Kinds, Busy
<1>4. ASSUME NEW c \in Cxns, Leave(c) PROVE IInv'
  BY <1>4, <1>k, NothingMoves DEF Leave, Kinds, Busy
<1>5. CASE Poll
  BY <1>5, <1>k, NothingMoves DEF Poll, Polling, Kinds, Busy
<1>6. CASE Wait
  <2>1. /\ listenPc' = "wait" /\ events' = armed \cap Ready /\ armed' = armed \ events'
        /\ UNCHANGED <<backlog, tasks, newClientFd, peer, poolPc, clientFd>>
        /\ (Listener \in Ready => backlog # <<>>)
    BY <1>6, <1>k DEF Wait, Disarmed, Ready
  <2>2. armed' \subseteq armed /\ events' \subseteq armed /\ armed' \cap events' = {}
    BY <2>1
  <2>3. Kinds' /\ OneHandler'
    BY <1>k, <2>1, <2>2 DEF Kinds, OneHandler
  <2>4. Waiting' /\ Busy'
    BY <1>k, <2>1, <2>2 DEF Waiting, Busy, NotYet, Unused
  <2> QED
    BY <2>3, <2>4 DEF IInv
<1>7. ASSUME NEW c \in Cxns, Post(c) PROVE IInv'
  <2>1. /\ c \in events /\ events' = events \ {c} /\ tasks' = Append(tasks, c)
        /\ UNCHANGED <<backlog, armed, newClientFd, peer, poolPc, clientFd, listenPc>>
    BY <1>7 DEF Post
  <2>2. c \notin ToSet(tasks) /\ c \notin armed /\ \A t \in PoolThreads : clientFd[t] # c
    BY <1>k, <2>1 DEF OneHandler
  <2>3. tasks' \in Seq(Cxns) /\ ToSet(tasks') = ToSet(tasks) \cup {c} /\ IsInjective(tasks')
    BY <1>k, <2>1, <2>2, AppendQueue DEF Kinds, OneHandler
  <2>4. Kinds'
    BY <1>k, <2>1, <2>3 DEF Kinds
  <2>5. OneHandler'
    BY <1>k, <2>1, <2>2, <2>3 DEF OneHandler
  <2>6. \A d \in Cxns : NotYet(d)' => Unused(d)'
    BY <1>k, <2>1, <2>3 DEF Waiting, NotYet, Unused
  <2>7. Waiting' /\ Busy'
    BY <1>k, <2>1, <2>6 DEF Waiting, Busy
  <2> QED
    BY <2>4, <2>5, <2>7 DEF IInv
<1>8. CASE Accept
  <2>1. CASE taken < FdLimit
    <3>1. /\ Listener \in events /\ events' = events \ {Listener} /\ listenPc' \in {"add", "buffer"}
          /\ newClientFd' = Head(backlog) /\ backlog' = Tail(backlog)
          /\ UNCHANGED <<armed, tasks, peer, poolPc, clientFd>>
      BY <1>8, <2>1 DEF Accept, AfterLoad
    <3>2. backlog \in Seq(Cxns) /\ backlog # <<>> /\ IsInjective(backlog)
      BY <1>k, <3>1 DEF Kinds, Waiting, Busy
    <3>3. /\ newClientFd' \in Cxns /\ newClientFd' \in ToSet(backlog)
          /\ backlog' \in Seq(Cxns) /\ IsInjective(backlog')
          /\ ToSet(backlog') = ToSet(backlog) \ {newClientFd'}
      BY <3>1, <3>2, TailQueue
    <3>4. Kinds' /\ OneHandler'
      BY <1>k, <3>1, <3>3 DEF Kinds, OneHandler
    <3>5. \A d \in Cxns : NotYet(d)' => NotYet(d)
      BY <3>1, <3>3 DEF NotYet
    <3>6. \A d \in Cxns : NotYet(d)' => Unused(d)'
      BY <1>k, <3>1, <3>5 DEF Waiting, Unused
    <3>7. Waiting'
      BY <1>k, <3>1, <3>3, <3>6 DEF Waiting
    <3>8. Busy'
      BY <1>k, <3>1 DEF Busy, OneHandler
    <3> QED
      BY <3>4, <3>7, <3>8 DEF IInv
  <2>2. CASE ~(taken < FdLimit)
    <3>1. /\ events' = events \ {Listener}
          /\ UNCHANGED <<backlog, armed, tasks, peer, poolPc, clientFd, listenPc, newClientFd>>
      BY <1>8, <2>2 DEF Accept
    <3>2. Kinds' /\ OneHandler'
      BY <1>k, <3>1 DEF Kinds, OneHandler
    <3>3. Waiting' /\ Busy'
      BY <1>k, <3>1 DEF Waiting, Busy, NotYet, Unused
    <3> QED
      BY <3>2, <3>3 DEF IInv
  <2> QED
    BY <2>1, <2>2
<1>9. CASE AddClient
  <2>0. UNCHANGED <<backlog, events, tasks, newClientFd, peer, poolPc, clientFd>>
        /\ listenPc = "add"
    BY <1>9 DEF AddClient
  <2>1. CASE armed' = armed \cup {newClientFd} /\ listenPc' = "buffer"
    <3>1. newClientFd \in Cxns /\ Unused(newClientFd)
      BY <1>k, <2>0 DEF Waiting, NotYet
    <3>2. Kinds' /\ OneHandler'
      BY <1>k, <2>0, <2>1, <3>1 DEF Kinds, OneHandler, Unused
    <3>3. \A d \in Cxns : NotYet(d)' => NotYet(d) /\ d # newClientFd
      BY <1>k, <2>0, <2>1 DEF Waiting, NotYet
    <3>4. \A d \in Cxns : NotYet(d)' => Unused(d)'
      BY <1>k, <2>0, <2>1, <3>3 DEF Waiting, Unused
    <3>5. Waiting'
      BY <1>k, <2>0, <2>1, <3>4 DEF Waiting
    <3>6. Busy'
      BY <1>k, <2>0, <2>1, <3>1 DEF Busy
    <3> QED
      BY <3>2, <3>5, <3>6 DEF IInv
  <2>2. CASE UNCHANGED <<armed, listenPc>>
    BY <1>k, <2>0, <2>2, NothingMoves DEF Kinds, Busy
  <2> QED
    BY <1>9, <2>1, <2>2 DEF AddClient, EpollCtl
<1>10. CASE MakeBuffer
  <2>1. /\ listenPc = "buffer" /\ listenPc' \in {"rearm", "wait"} /\ newClientFd' = NoCxn
        /\ UNCHANGED <<backlog, armed, events, tasks, peer, poolPc, clientFd>>
    BY <1>10 DEF MakeBuffer, ToRearm, AfterLoad
  <2>2. Kinds' /\ OneHandler'
    BY <1>k, <2>1 DEF Kinds, OneHandler
  <2>3. Waiting' /\ Busy'
    BY <1>k, <2>1 DEF Waiting, Busy, NotYet, Unused
  <2> QED
    BY <2>2, <2>3 DEF IInv
<1>11. CASE RearmListener
  <2>0. UNCHANGED <<backlog, events, tasks, newClientFd, peer, poolPc, clientFd>>
        /\ listenPc = "rearm"
    BY <1>11 DEF RearmListener
  <2>1. CASE armed' = armed \cup {Listener} /\ listenPc' = "wait"
    <3>1. Listener \notin events
      BY <1>k, <2>0 DEF Busy
    <3>2. \A t \in PoolThreads : clientFd[t] # Listener
      BY <1>k DEF Kinds
    <3>3. Kinds' /\ OneHandler'
      BY <1>k, <2>0, <2>1, <3>1, <3>2 DEF Kinds, OneHandler
    <3>4. Waiting' /\ Busy'
      BY <1>k, <2>0, <2>1 DEF Waiting, Busy, NotYet, Unused
    <3> QED
      BY <3>3, <3>4 DEF IInv
  <2>2. CASE UNCHANGED <<armed, listenPc>>
    BY <1>k, <2>0, <2>2, NothingMoves DEF Kinds, Busy
  <2> QED
    BY <1>11, <2>1, <2>2 DEF RearmListener, EpollCtl
<1>12. ASSUME NEW t \in PoolThreads, StartTask(t) PROVE IInv'
  <2>1. /\ tasks # <<>> /\ tasks' = Tail(tasks) /\ clientFd' = [clientFd EXCEPT ![t] = Head(tasks)]
        /\ poolPc' = [poolPc EXCEPT ![t] = "recv"]
        /\ UNCHANGED <<backlog, armed, events, newClientFd, peer, listenPc>>
    BY <1>12 DEF StartTask
  <2>2. /\ Head(tasks) \in Cxns /\ Head(tasks) \in ToSet(tasks)
        /\ tasks' \in Seq(Cxns) /\ IsInjective(tasks')
        /\ ToSet(tasks') = ToSet(tasks) \ {Head(tasks)}
    BY <1>k, <2>1, TailQueue DEF Kinds, OneHandler
  <2>3. /\ clientFd'[t] = Head(tasks) /\ \A u \in PoolThreads : u # t => clientFd'[u] = clientFd[u]
        /\ \A u \in PoolThreads : u # t => poolPc'[u] = poolPc[u]
    BY <1>k, <2>1 DEF Kinds
  <2>4. \A u \in PoolThreads : clientFd[u] # Head(tasks)
    BY <1>k, <2>2 DEF OneHandler
  <2>5. Kinds'
    BY <1>k, <2>1, <2>2 DEF Kinds
  <2>6. OneHandler'
    BY <1>k, <2>1, <2>2, <2>3, <2>4 DEF OneHandler
  <2>7. \A d \in Cxns : NotYet(d)' => Unused(d)'
    BY <1>k, <2>1, <2>2, <2>3 DEF Waiting, NotYet, Unused
  <2>8. Waiting' /\ Busy'
    BY <1>k, <2>1, <2>2, <2>3, <2>7 DEF Waiting, Busy
  <2> QED
    BY <2>5, <2>6, <2>8 DEF IInv
<1>13. ASSUME NEW t \in PoolThreads, Recv(t) PROVE IInv'
  BY <1>13, <1>k, NothingMoves DEF Recv, Kinds, Busy
<1>14. ASSUME NEW t \in PoolThreads, Parse(t) PROVE IInv'
  <2>1. /\ poolPc[t] = "parse" /\ \E q \in {"rearm", "recv"} : poolPc' = [poolPc EXCEPT ![t] = q]
        /\ UNCHANGED <<peer, backlog, armed, events, tasks, newClientFd, clientFd, listenPc>>
    BY <1>14 DEF Parse
  <2> QED
    BY <1>k, <2>1, NothingMoves DEF Kinds, Busy
<1>15. ASSUME NEW t \in PoolThreads, poolPc[t] # "idle", EndTask(t),
             armed' \in {armed, armed \cup {clientFd[t]}}
       PROVE IInv'
  <2>1. /\ clientFd' = [clientFd EXCEPT ![t] = NoCxn] /\ poolPc' = [poolPc EXCEPT ![t] = "idle"]
        /\ UNCHANGED <<peer, backlog, events, tasks, newClientFd, listenPc>>
    BY <1>15 DEF EndTask
  <2>2. /\ clientFd'[t] = NoCxn /\ \A u \in PoolThreads : u # t => clientFd'[u] = clientFd[u]
        /\ poolPc'[t] = "idle" /\ \A u \in PoolThreads : u # t => poolPc'[u] = poolPc[u]
    BY <1>k, <2>1 DEF Kinds
  <2>3. clientFd[t] \in Cxns /\ ~NotYet(clientFd[t]) /\ clientFd[t] \notin events \cup ToSet(tasks)
    BY <1>k, <1>15 DEF Kinds, Busy, OneHandler, Waiting, Unused
  <2>4. armed' \subseteq armed \cup {clientFd[t]} /\ armed' \subseteq Cxns \cup {Listener}
    BY <1>k, <1>15, <2>3 DEF Kinds
  <2>5. Kinds'
    BY <1>k, <2>1, <2>4 DEF Kinds
  <2>6. \A u \in PoolThreads : u # t => clientFd[u] # clientFd[t]
    BY <1>k, <2>3 DEF OneHandler
  <2>7. OneHandler'
    <3>1. \A u \in PoolThreads : clientFd'[u] \in {clientFd[u], NoCxn} /\ clientFd'[u] # clientFd[t]
      BY <1>k, <2>2, <2>3, <2>6
    <3>2. \A u, w \in PoolThreads : clientFd'[u] = clientFd'[w] /\ clientFd'[u] # NoCxn => u = w
      BY <1>k, <2>2 DEF OneHandler
    <3>3. \A u \in PoolThreads : clientFd'[u] \notin armed \cup events \cup ToSet(tasks)
      BY <1>k, <3>1 DEF OneHandler, Kinds
    <3>4. \A u \in PoolThreads : clientFd'[u] \notin armed' \cup events' \cup ToSet(tasks')
      BY <2>1, <2>4, <3>1, <3>3
    <3>5. ToSet(tasks') \cap (armed' \cup events') = {} /\ armed' \cap events' = {}
      BY <1>k, <2>1, <2>3, <2>4 DEF OneHandler
    <3> QED
      BY <1>k, <2>1, <3>2, <3>4, <3>5 DEF OneHandler
  <2>8. \A d \in Cxns : NotYet(d)' => NotYet(d) /\ d # clientFd[t]
    BY <2>1, <2>3 DEF NotYet
  <2>9. \A d \in Cxns : NotYet(d)' => Unused(d)'
    BY <1>k, <2>1, <2>2, <2>4, <2>8 DEF Waiting, Unused
  <2>10. Waiting' /\ Busy'
    BY <1>k, <2>1, <2>2, <2>3, <2>4, <2>9 DEF Waiting, Busy
  <2> QED
    BY <2>5, <2>7, <2>10 DEF IInv
<1>16. ASSUME NEW t \in PoolThreads, RearmClient(t) PROVE IInv'
  BY <1>15, <1>16 DEF RearmClient, Rearmed
<1>17. ASSUME NEW t \in PoolThreads, PeerDisconnect(t) PROVE IInv'
  BY <1>15, <1>17 DEF PeerDisconnect
<1>18. ASSUME NEW t \in PoolThreads, RecvError(t) PROVE IInv'
  BY <1>15, <1>18 DEF RecvError
<1>19. CASE GetNextMessage \/ Destructor \/ UNCHANGED vars
  BY <1>19, <1>k, NothingMoves
     DEF GetNextMessage, Destructor, BeginShutdown, CloseEpoll, JoinListening, JoinPool, Kinds, Busy
<1> QED
  BY <1>1, <1>2, <1>3, <1>4, <1>5, <1>6, <1>7, <1>8, <1>9, <1>10, <1>11, <1>12, <1>13, <1>14,
     <1>16, <1>17, <1>18, <1>19 DEF Next, Peer, ListeningThread, PoolThread

-----------------------------------------------------------------------------
\* The inductive invariant: where a descriptor may be.
THEOREM SocketInvariant == Spec => []IInv
  BY InitIInv, NextIInv, PTL DEF Spec

\* Whatever the peers, the pool and the destructor do, a connection has one thread at a
\* time, and no event of it is on its way to another: the one-shot events that
\* TcpServerSocket.cpp arms again only at the end of a task.
THEOREM SocketOneHandler == Spec => []OneHandler
  BY SocketInvariant, PTL DEF IInv
=============================================================================
