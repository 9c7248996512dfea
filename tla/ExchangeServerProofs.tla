------------------------ MODULE ExchangeServerProofs ------------------------
(***************************************************************************)
(* ExchangeServer for any number of connections, requests and pool threads *)
(* and rings of any capacity, as long as no session id is used twice:      *)
(* whose order a message is about, wherever it is on its way, in which     *)
(* order the messages arrive, and that none arrives twice.                 *)
(***************************************************************************)
EXTENDS ExchangeServer, TLAPS

\* one session id per connection ever made
EnoughIds == MaxCxns <= SessionModulus

SessionFor(c) == c % SessionModulus

\* the ids of orders: the session in it is that of the connection that placed the order
Ids == {id \in OrderId : id[2] <= totalOrders /\ id[1] = SessionFor(PlacedBy(id[2]))}

\* the orders that are with the Exchange, on their way to it, or refused
Settled == {id \in Ids : HasReached(id) \/ id \in lost}

\* what may be on its way at each place
Msgs == {m \in [kind: {"order", "cancel"}, id: SessionIds \X Nat, by: Cxns] :
            IF m.kind = "order" THEN m.id \in Ids ELSE m.id[1] = SessionFor(m.by)}
Reports == [kind: {"Accepted", "Fill", "CancelOk", "CancelFailed"}, subject: Ids]
NotesFor(c) == {note \in [kind: NoteKinds, subject: Nat \X Nat] :
                   /\ note.kind = "Reject" => note.subject[1] = c
                   /\ note.kind # "Reject" => note.subject \in Ids /\ PlacedBy(note.subject[2]) = c
                   /\ note.kind = "Ack" => note.subject \in Settled}
Mail == {m \in [to: Cxns, note: [kind: NoteKinds, subject: Nat \X Nat]] : m.note \in NotesFor(m.to)}
Requests == [cxn: Cxns, seq: Nat, kind: {"order", "invalid", "cancel"}, num: Nat]

Sessions ==
    /\ allTimeCxns \in 0 .. MaxCxns /\ sessions \in [SessionIds -> Cxns \cup {NoCxn}]
    /\ \A s \in SessionIds : sessions[s] # NoCxn => s = SessionFor(sessions[s])
Incoming ==
    /\ sent \in [Cxns -> Nat] /\ inbox \in [Cxns -> Seq(Requests)]
    /\ sockQueue \in [PoolThreads -> Seq(Requests)]
Numbers ==
    /\ totalOrders \in 0 .. MaxRequests /\ placed \in [OrderNums -> (Cxns \cup {NoCxn}) \X Nat]
    /\ \A n \in 1 .. totalOrders : PlacedBy(n) \in Cxns
Thread ==
    /\ sockPc \in {"idle", "forward", "ack"}
    /\ sockPc = "idle" => cur = <<>>
    /\ sockPc = "forward" => \E m \in Msgs : cur = <<m>>
    /\ sockPc = "ack" => \E m \in Msgs : cur = <<m>> /\ m.kind = "order" /\ m.id \in Settled
Rings == toExchange \in Seq(Msgs) /\ toServer \in Seq(Reports)
Books == known \subseteq Ids /\ live \subseteq Ids
Post ==
    /\ brokerBound \in [{"sock", "exchange"} -> Seq(Mail)]
    /\ DOMAIN received = Cxns /\ \A c \in Cxns : received[c] \in Seq(NotesFor(c))

IInv == Sessions /\ Incoming /\ Numbers /\ Thread /\ Rings /\ Books /\ Post

-----------------------------------------------------------------------------
(* Session ids, and sequences *)

LEMMA SessionForSmall ==
    ASSUME EnoughIds, NEW c \in Cxns
    PROVE  SessionFor(c) = IF c = SessionModulus THEN 0 ELSE c
  BY ServerAssumption DEF EnoughIds, Cxns, SessionFor

LEMMA SessionForInjective ==
    ASSUME EnoughIds, NEW c \in Cxns, NEW d \in Cxns, SessionFor(c) = SessionFor(d)
    PROVE  c = d
  BY SessionForSmall DEF Cxns

LEMMA SessionForType == ASSUME NEW c \in Cxns PROVE SessionFor(c) \in SessionIds
  BY ServerAssumption DEF Cxns, SessionFor, SessionIds

LEMMA LargerSeq == ASSUME NEW S, NEW T, S \subseteq T, NEW s \in Seq(S) PROVE s \in Seq(T)
  OBVIOUS

LEMMA ElementsOf == ASSUME NEW S, NEW s \in Seq(S), NEW x \in ToSet(s) PROVE x \in S
  BY DEF ToSet

\* An id names the same order for ever, and what is settled stays so.
LEMMA Growth ==
    ASSUME Numbers, totalOrders' >= totalOrders, totalOrders' \in Nat,
           \A n \in 1 .. totalOrders : placed'[n] = placed[n],
           \A id \in Settled : HasReached(id)' \/ id \in lost'
    PROVE  /\ Ids \subseteq Ids' /\ Settled \subseteq Settled' /\ Msgs \subseteq Msgs'
           /\ Reports \subseteq Reports' /\ Mail \subseteq Mail'
           /\ \A c \in Cxns : NotesFor(c) \subseteq NotesFor(c)'
<1>1. ASSUME NEW id \in Ids PROVE id \in Ids' /\ PlacedBy(id[2])' = PlacedBy(id[2])
  <2>1. id[2] \in 1 .. totalOrders
    BY ServerAssumption DEF Ids, OrderId, OrderNums, Numbers
  <2>2. PlacedBy(id[2])' = PlacedBy(id[2])
    BY <2>1 DEF PlacedBy
  <2> QED
    BY <2>1, <2>2 DEF Ids, Numbers
<1>2. Ids \subseteq Ids'
  BY <1>1
<1>3. Settled \subseteq Settled'
  BY <1>2 DEF Settled
<1>4. Msgs \subseteq Msgs'
  BY <1>2 DEF Msgs
<1>5. Reports \subseteq Reports'
  BY <1>2 DEF Reports
<1>6. ASSUME NEW c \in Cxns PROVE NotesFor(c) \subseteq NotesFor(c)'
  BY <1>1, <1>3 DEF NotesFor
<1>7. Mail \subseteq Mail'
  BY <1>6 DEF Mail
<1> QED
  BY <1>2, <1>3, <1>4, <1>5, <1>6, <1>7

-----------------------------------------------------------------------------
LEMMA InitIInv == Init => IInv
  BY ServerAssumption DEF Init, IInv, Sessions, Incoming, Numbers, Thread, Rings, Books, Post, Cxns,
     NoCxn, NoRequest, SessionIds, OrderNums, PlacedBy

LEMMA Consequences ==
    ASSUME EnoughIds, IInv
    PROVE  NotificationsReachOwner /\ CancelsOwnOnly /\ AcksAreTrue
<1>1. ASSUME NEW c \in Cxns, NEW note \in ToSet(received[c]) PROVE note \in NotesFor(c)
  BY <1>1, ElementsOf DEF IInv, Post
<1>2. NotificationsReachOwner
  BY <1>1 DEF NotesFor, NotificationsReachOwner
<1>3. AcksAreTrue
  BY <1>1 DEF NotesFor, AcksAreTrue, Settled
<1>4. ASSUME NEW msg \in ToSet(toExchange), msg.kind = "cancel", msg.id \in known
      PROVE  PlacedBy(msg.id[2]) = msg.by
  <2>1. msg \in Msgs /\ msg.id \in Ids
    BY <1>4, ElementsOf DEF IInv, Rings, Books
  <2>2. msg.by \in Cxns /\ SessionFor(msg.by) = SessionFor(PlacedBy(msg.id[2]))
    BY <1>4, <2>1 DEF Msgs, Ids
  <2>3. PlacedBy(msg.id[2]) \in Cxns
    BY <2>1, ServerAssumption DEF IInv, Numbers, Ids, OrderId, OrderNums
  <2> QED
    BY <2>2, <2>3, SessionForInjective
<1> QED
  BY <1>2, <1>3, <1>4 DEF CancelsOwnOnly

-----------------------------------------------------------------------------
(* What a step needs to keep in each place *)

\* The ids, messages and notes that the invariant speaks of stay what they are.
Grown ==
    /\ Ids \subseteq Ids' /\ Settled \subseteq Settled' /\ Msgs \subseteq Msgs'
    /\ Reports \subseteq Reports' /\ Mail \subseteq Mail'
    /\ \A c \in Cxns : NotesFor(c) \subseteq NotesFor(c)'

LEMMA ThreadKept == ASSUME Grown, Thread, UNCHANGED <<sockPc, cur>> PROVE Thread'
  BY DEF Grown, Thread

LEMMA RingsKept == ASSUME Grown, Rings, UNCHANGED <<toExchange, toServer>> PROVE Rings'
  BY LargerSeq DEF Grown, Rings

LEMMA BooksKept == ASSUME Grown, Books, known' \subseteq known, live' \subseteq live PROVE Books'
  BY DEF Grown, Books

LEMMA BrokerBoundKept ==
    ASSUME Grown, Post, UNCHANGED brokerBound
    PROVE  brokerBound' \in [{"sock", "exchange"} -> Seq(Mail')]
<1>1. \A p \in {"sock", "exchange"} : brokerBound[p] \in Seq(Mail')
  BY LargerSeq DEF Grown, Post
<1> QED
  BY <1>1 DEF Post

LEMMA ReceivedKept ==
    ASSUME Grown, Post, UNCHANGED received
    PROVE  DOMAIN received' = Cxns /\ \A c \in Cxns : received'[c] \in Seq(NotesFor(c)')
  BY LargerSeq DEF Grown, Post

\* one more note for a connection
LEMMA EnqueueKept ==
    ASSUME Grown, Post, NEW p \in {"sock", "exchange"}, NEW c \in Cxns, NEW note \in NotesFor(c)',
           Enqueue(p, c, note)
    PROVE  brokerBound' \in [{"sock", "exchange"} -> Seq(Mail')]
<1>1. [to |-> c, note |-> note] \in Mail'
  BY DEF Mail, NotesFor
<1>2. \A q \in {"sock", "exchange"} : brokerBound[q] \in Seq(Mail')
  BY LargerSeq DEF Grown, Post
<1>3. Append(brokerBound[p], [to |-> c, note |-> note]) \in Seq(Mail')
  BY <1>1, <1>2
<1>4. brokerBound' = [brokerBound EXCEPT ![p] = Append(brokerBound[p], [to |-> c, note |-> note])]
  BY DEF Enqueue
<1> QED
  BY <1>2, <1>3, <1>4 DEF Post

\* ... that an order's session leads to
LEMMA NotifyKept ==
    ASSUME EnoughIds, Grown, Post, Sessions, Numbers,
           NEW p \in {"sock", "exchange"}, NEW id \in Ids,
           NEW kind \in NoteKinds \ {"Reject"}, kind = "Ack" => id \in Settled,
           UNCHANGED <<totalOrders, placed>>, Notify(p, kind, id)
    PROVE  brokerBound' \in [{"sock", "exchange"} -> Seq(Mail')]
<1>1. CASE sessions[id[1]] = NoCxn
  BY <1>1, BrokerBoundKept DEF Notify
<1>2. CASE sessions[id[1]] # NoCxn
  <2>1. id \in Nat \X Nat /\ id[1] \in SessionIds /\ PlacedBy(id[2]) \in Cxns
    BY ServerAssumption DEF Ids, OrderId, SessionIds, OrderNums, Numbers
  <2>2. PICK c \in Cxns : c = sessions[id[1]]
    BY <1>2, <2>1 DEF Sessions
  <2>3. SessionFor(c) = SessionFor(PlacedBy(id[2]))
    BY <1>2, <2>1, <2>2 DEF Sessions, Ids
  <2>4. PlacedBy(id[2])' = c
    BY <2>1, <2>2, <2>3, SessionForInjective DEF PlacedBy
  <2>5. id \in Ids' /\ (kind = "Ack" => id \in Settled')
    BY DEF Grown
  <2>6. Note(kind, id) \in NotesFor(c)'
    BY <2>1, <2>4, <2>5 DEF NotesFor, Note
  <2>7. Enqueue(p, c, Note(kind, id))
    BY <1>2, <2>2 DEF Notify
  <2> QED
    BY <2>6, <2>7, EnqueueKept
<1> QED
  BY <1>1, <1>2

\* No id changes hands and nothing is settled in this step.
LEMMA GrownSame ==
    ASSUME IInv, UNCHANGED <<totalOrders, placed, known, toExchange, lost>>
    PROVE  Grown
<1>1. \A id \in Settled : HasReached(id)' \/ id \in lost'
  BY DEF Settled, HasReached
<1> QED
  BY <1>1, Growth DEF IInv, Numbers, Grown

LEMMA StepKept ==
    ASSUME IInv, Sessions', Incoming',
           UNCHANGED <<totalOrders, placed, known, live, toExchange, toServer, lost, sockPc, cur,
                       brokerBound, received>>
    PROVE  IInv'
<1>1. Grown
  BY GrownSame
<1>2. Numbers'
  BY DEF IInv, Numbers, PlacedBy
<1>3. Post'
  BY <1>1, BrokerBoundKept, ReceivedKept DEF IInv, Post
<1> QED
  BY <1>1, <1>2, <1>3, ThreadKept, RingsKept, BooksKept DEF IInv

-----------------------------------------------------------------------------
LEMMA NextIInv == EnoughIds /\ IInv /\ [Next]_vars => IInv'
<1> SUFFICES ASSUME EnoughIds, IInv, [Next]_vars PROVE IInv'
  OBVIOUS
<1> USE ServerAssumption
<1> USE DEF vars, brokerVars, sockVars, sessionVars, orderVars, ringVars, exchangeVars
<1>k. /\ Sessions /\ Incoming /\ Numbers /\ Thread /\ Rings /\ Books /\ Post
      /\ \A id \in Ids : id \in SessionIds \X Nat
  BY DEF IInv, Ids, OrderId, OrderNums
<1>1. ASSUME NEW c \in Cxns, Connect(c) \/ Leave(c) PROVE IInv'
  BY <1>1, <1>k, StepKept DEF Connect, Leave, Sessions, Incoming
<1>2. ASSUME NEW c \in Cxns, NEW kind \in {"order", "invalid", "cancel"}, NEW num \in Nat,
             SendRequest(c, kind, num)
      PROVE  IInv'
  <2>1. Incoming'
    <3>1. [cxn |-> c, seq |-> sent[c] + 1, kind |-> kind, num |-> num] \in Requests
      BY <1>k DEF Incoming, Requests
    <3>2. /\ sent' = [sent EXCEPT ![c] = @ + 1] /\ UNCHANGED sockQueue
          /\ \E r \in Requests : inbox' = [inbox EXCEPT ![c] = Append(@, r)]
      BY <1>2, <3>1 DEF SendRequest
    <3>3. sent' \in [Cxns -> Nat] /\ inbox' \in [Cxns -> Seq(Requests)]
      BY <1>k, <3>2 DEF Incoming
    <3> QED
      BY <1>k, <3>2, <3>3 DEF Incoming
  <2> QED
    BY <1>2, <1>k, <2>1, StepKept DEF SendRequest, Sessions
<1>3. ASSUME NEW c \in Cxns, NewConnection(c) PROVE IInv'
  <2>1. NextSession \in SessionIds /\ NextSession = SessionFor(c)
    BY <1>3, SessionForType DEF NewConnection, NextSession, SessionFor
  <2>2. Sessions'
    <3>0. allTimeCxns' = c /\ c \in 0 .. MaxCxns
      BY <1>3 DEF NewConnection, Cxns
    <3>1. CASE sessions' = sessions
      BY <1>k, <3>0, <3>1 DEF Sessions
    <3>2. CASE sessions' = [sessions EXCEPT ![NextSession] = c]
      BY <1>k, <2>1, <3>0, <3>2 DEF Sessions
    <3> QED
      BY <1>3, <3>1, <3>2 DEF NewConnection
  <2> QED
    BY <1>3, <1>k, <2>2, StepKept DEF NewConnection, Incoming
<1>4. ASSUME NEW c \in Cxns, NEW t \in PoolThreads, Receive(c, t) PROVE IInv'
  <2>1. Incoming'
    BY <1>4, <1>k DEF Receive, Incoming
  <2> QED
    BY <1>4, <1>k, <2>1, StepKept DEF Receive, Sessions
<1>5. ASSUME NEW c \in Cxns, Disconnect(c) PROVE IInv'
  <2>1. Sessions'
    BY <1>5, <1>k DEF Disconnect, Sessions
  <2> QED
    BY <1>5, <1>k, <2>1, StepKept DEF Disconnect, Incoming
<1>6. ASSUME NEW c \in Cxns, ReceiveError(c) PROVE IInv'
  BY <1>6, <1>k, StepKept DEF ReceiveError, Sessions, Incoming
<1>7. ASSUME NEW t \in PoolThreads, TakeSockMsg(t) PROVE IInv'
  <2> DEFINE req == Head(sockQueue[t])
  <2>0. /\ sockPc = "idle" /\ sockQueue[t] # <<>> /\ sockQueue' = [sockQueue EXCEPT ![t] = Tail(@)]
        /\ UNCHANGED <<sent, inbox, allTimeCxns, sessions, received>>
        /\ UNCHANGED <<toExchange, toServer, lost, known, live>>
    BY <1>7 DEF TakeSockMsg
  <2>1. req \in Requests
    BY <1>k, <2>0 DEF Incoming
  <2>2. Incoming' /\ Sessions'
    BY <1>k, <2>0 DEF Incoming, Sessions
  <2> HIDE DEF req
  <2>3. CASE UNCHANGED <<orderVars, brokerBound>>
    BY <2>0, <2>2, <2>3, StepKept
  <2>4. CASE Enqueue("sock", req.cxn, Note("Reject", <<req.cxn, req.seq>>)) /\ UNCHANGED orderVars
    <3>1. Grown
      BY <2>0, <2>4, GrownSame
    <3>2. PICK c \in Cxns : c = req.cxn
      BY <2>1 DEF Requests
    <3>3. Note("Reject", <<c, req.seq>>) \in NotesFor(c)'
      BY <2>1 DEF NotesFor, Note, NoteKinds, Requests, Cxns
    <3>4. Post'
      BY <1>k, <2>0, <2>4, <3>1, <3>2, <3>3, EnqueueKept, ReceivedKept DEF Post
    <3>5. Numbers'
      BY <1>k, <2>4 DEF Numbers, PlacedBy
    <3> QED
      BY <1>k, <2>0, <2>2, <2>4, <3>1, <3>4, <3>5, ThreadKept, RingsKept, BooksKept DEF IInv
  <2>s. ASSUME HasSession(req.cxn)
        PROVE  SessionOf(req.cxn) = SessionFor(req.cxn) /\ req.cxn \in Cxns
    <3>1. req.cxn \in Cxns /\ req.cxn # NoCxn
      BY <2>1 DEF Requests, Cxns, NoCxn
    <3>2. SessionOf(req.cxn) \in SessionIds /\ sessions[SessionOf(req.cxn)] = req.cxn
      BY <2>s DEF HasSession, SessionOf
    <3> QED
      BY <1>k, <3>1, <3>2 DEF Sessions
  <2>5. CASE /\ HasSession(req.cxn) /\ totalOrders < MaxRequests /\ totalOrders' = totalOrders + 1
             /\ placed' = [placed EXCEPT ![totalOrders'] = <<req.cxn, req.seq>>]
             /\ cur' = <<[kind |-> "order", id |-> <<SessionOf(req.cxn), totalOrders'>>,
                by |-> req.cxn]>>
             /\ sockPc' = "forward" /\ UNCHANGED brokerBound
    <3>1. /\ totalOrders' \in OrderNums /\ placed'[totalOrders'] = <<req.cxn, req.seq>>
          /\ \A n \in 1 .. totalOrders : placed'[n] = placed[n]
          /\ placed' \in [OrderNums -> (Cxns \cup {NoCxn}) \X Nat]
      BY <1>k, <2>1, <2>5 DEF Numbers, OrderNums, Requests
    <3>2. \A id \in Settled : HasReached(id)' \/ id \in lost'
      BY <2>0 DEF Settled, HasReached
    <3>3. Grown
      BY <1>k, <2>5, <3>1, <3>2, Growth DEF Grown, Numbers
    <3>4. Numbers'
      BY <1>k, <2>1, <2>5, <3>1 DEF Numbers, PlacedBy, Requests, OrderNums
    <3>5. PICK m : m = [kind |-> "order", id |-> <<SessionOf(req.cxn), totalOrders'>>,
          by |-> req.cxn]
      OBVIOUS
    <3>6. m.id \in Ids' /\ m.id \in SessionIds \X Nat /\ m.by \in Cxns
      BY <2>s, <2>5, <3>1, <3>5, SessionForType DEF Ids, OrderId, PlacedBy, OrderNums
    <3>7. m \in Msgs'
      BY <3>5, <3>6 DEF Msgs
    <3>8. Thread'
      BY <2>5, <3>5, <3>7 DEF Thread
    <3>9. Post'
      BY <1>k, <2>0, <2>5, <3>3, BrokerBoundKept, ReceivedKept DEF Post
    <3> QED
      BY <1>k, <2>0, <2>2, <3>3, <3>4, <3>8, <3>9, RingsKept, BooksKept DEF IInv
  <2>6. CASE /\ HasSession(req.cxn)
             /\ cur' = <<[kind |-> "cancel", id |-> CancelledId(req.cxn, req.num), by |-> req.cxn]>>
             /\ sockPc' = "forward" /\ UNCHANGED <<totalOrders, placed, brokerBound>>
    <3>1. Grown
      BY <2>0, <2>6, GrownSame
    <3>2. PICK m : m = [kind |-> "cancel", id |-> CancelledId(req.cxn, req.num), by |-> req.cxn]
      OBVIOUS
    <3>3. m \in Msgs'
      BY <2>s, <2>1, <2>6, <3>2, SessionForType DEF Msgs, CancelledId, Requests
    <3>4. Thread'
      BY <2>6, <3>2, <3>3 DEF Thread
    <3>5. Numbers'
      BY <1>k, <2>6 DEF Numbers, PlacedBy
    <3>6. Post'
      BY <1>k, <2>0, <2>6, <3>1, BrokerBoundKept, ReceivedKept DEF Post
    <3> QED
      BY <1>k, <2>0, <2>2, <3>1, <3>4, <3>5, <3>6, RingsKept, BooksKept DEF IInv
  <2> QED
    BY <1>7, <2>3, <2>4, <2>5, <2>6 DEF TakeSockMsg, req
<1>8. CASE Forward
  <2>0. /\ sockPc = "forward"
        /\ UNCHANGED <<totalOrders, placed, toServer, known, live, brokerBound, received>>
        /\ UNCHANGED <<sent, inbox, sockQueue, allTimeCxns, sessions>>
    BY <1>8 DEF Forward
  <2>1. PICK m \in Msgs : cur = <<m>>
    BY <1>k, <2>0 DEF Thread
  <2>m. m.kind \in {"order", "cancel"} /\ (m.kind = "order" => m.id \in Ids) /\ ToSet(cur) = {m}
        /\ cur[1] = m
    BY <2>1 DEF Msgs, ToSet
  <2>2. ASSUME toExchange' = Append(toExchange, m), UNCHANGED lost
        PROVE  Grown /\ (m.kind = "order" => m.id \in Settled') /\ toExchange' \in Seq(Msgs')
    <3>1. /\ ToSet(toExchange) \subseteq ToSet(toExchange') /\ m \in ToSet(toExchange')
      <4>1. /\ DOMAIN toExchange' = 1 .. Len(toExchange) + 1
            /\ DOMAIN toExchange = 1 .. Len(toExchange)
            /\ Len(toExchange) \in Nat /\ toExchange'[Len(toExchange) + 1] = m
            /\ \A i \in 1 .. Len(toExchange) : toExchange'[i] = toExchange[i]
        BY <1>k, <2>2 DEF Rings
      <4> QED
        BY <4>1 DEF ToSet
    <3>2. \A id \in Settled : HasReached(id)' \/ id \in lost'
      BY <2>0, <2>2, <3>1 DEF Settled, HasReached
    <3>3. Grown
      BY <1>k, <2>0, <3>2, Growth DEF Grown, Numbers
    <3>4. m.kind = "order" => m.id \in Settled'
      BY <2>m, <3>1, <3>3 DEF Settled, HasReached, Grown
    <3>5. toExchange' \in Seq(Msgs')
      <4>1. toExchange \in Seq(Msgs') /\ m \in Msgs'
        BY <1>k, <3>3, LargerSeq DEF Rings, Grown
      <4> QED
        BY <2>2, <4>1
    <3> QED
      BY <3>3, <3>4, <3>5
  <2>3. ASSUME UNCHANGED toExchange,
               lost' = lost \cup {msg.id : msg \in {x \in ToSet(cur) : x.kind = "order"}}
        PROVE  Grown /\ (m.kind = "order" => m.id \in Settled') /\ toExchange' \in Seq(Msgs')
    <3>1. \A id \in Settled : HasReached(id)' \/ id \in lost'
      BY <2>0, <2>3 DEF Settled, HasReached
    <3>2. Grown
      BY <1>k, <2>0, <3>1, Growth DEF Grown, Numbers
    <3>3. m.kind = "order" => m.id \in lost'
      BY <2>3, <2>m
    <3>4. m.kind = "order" => m.id \in Settled'
      BY <2>m, <3>2, <3>3 DEF Settled, Grown
    <3>5. toExchange' \in Seq(Msgs')
      BY <1>k, <2>3, <3>2, LargerSeq DEF Rings, Grown
    <3> QED
      BY <3>2, <3>4, <3>5
  <2>4. Grown /\ (m.kind = "order" => m.id \in Settled') /\ toExchange' \in Seq(Msgs')
    BY <1>8, <2>0, <2>1, <2>m, <2>2, <2>3 DEF Forward
  <2>5. toServer' \in Seq(Reports')
    BY <1>k, <2>0, <2>4, LargerSeq DEF Rings, Grown
  <2>6. Thread'
    <3>1. CASE m.kind = "order"
      <4>1. sockPc' = "ack" /\ cur' = <<m>> /\ m \in Msgs'
        BY <1>8, <2>1, <2>m, <2>4, <3>1 DEF Forward, AfterForward, Grown
      <4> QED
        BY <2>4, <3>1, <4>1 DEF Thread
    <3>2. CASE m.kind # "order"
      <4>1. sockPc' = "idle" /\ cur' = <<>>
        BY <1>8, <2>1, <2>m, <3>2 DEF Forward, AfterForward
      <4> QED
        BY <4>1 DEF Thread
    <3> QED
      BY <3>1, <3>2
  <2>7. Post'
    BY <1>k, <2>0, <2>4, BrokerBoundKept, ReceivedKept DEF Post
  <2>8. Numbers' /\ Sessions' /\ Incoming'
    BY <1>k, <2>0 DEF Numbers, PlacedBy, Sessions, Incoming
  <2> QED
    BY <1>k, <2>0, <2>4, <2>5, <2>6, <2>7, <2>8, BooksKept DEF Rings, IInv
<1>9. CASE Acknowledge
  <2>0. /\ sockPc = "ack" /\ sockPc' = "idle" /\ cur' = <<>> /\ Notify("sock", "Ack", cur[1].id)
        /\ UNCHANGED <<totalOrders, placed, toExchange, toServer, lost, known, live, received>>
        /\ UNCHANGED <<sent, inbox, sockQueue, allTimeCxns, sessions>>
    BY <1>9 DEF Acknowledge
  <2>1. PICK id \in Settled : id = cur[1].id
    BY <1>k, <2>0 DEF Thread
  <2>2. id \in Ids /\ Notify("sock", "Ack", id)
    BY <2>0, <2>1 DEF Settled
  <2>3. Grown
    BY <2>0, GrownSame
  <2>4. brokerBound' \in [{"sock", "exchange"} -> Seq(Mail')]
    BY <1>k, <2>0, <2>1, <2>2, <2>3, NotifyKept DEF NoteKinds
  <2>5. Post'
    BY <1>k, <2>0, <2>3, <2>4, ReceivedKept DEF Post
  <2>6. Thread' /\ Numbers' /\ Sessions' /\ Incoming'
    BY <1>k, <2>0 DEF Thread, Numbers, PlacedBy, Sessions, Incoming
  <2> QED
    BY <1>k, <2>0, <2>3, <2>5, <2>6, RingsKept, BooksKept DEF IInv
<1>r. ASSUME NEW kind \in {"Accepted", "Fill", "CancelOk", "CancelFailed"}, NEW id \in Ids,
             Report(kind, id)
      PROVE  lost \subseteq lost' /\ (Grown => toServer' \in Seq(Reports'))
  <2>1. CASE toServer' = Append(toServer, Note(kind, id)) /\ UNCHANGED lost
    <3>1. Grown => toServer \in Seq(Reports') /\ Note(kind, id) \in Reports'
      BY <1>k, <1>r, LargerSeq DEF Rings, Grown, Reports, Note
    <3> QED
      BY <2>1, <3>1
  <2>2. CASE lost' = lost \cup {id} /\ UNCHANGED toServer
    BY <1>k, <2>2, LargerSeq DEF Rings, Grown
  <2> QED
    BY <1>r, <2>1, <2>2 DEF Report
<1>10. CASE ExchangeAccepts
  <2> DEFINE m == Head(toExchange)
  <2>0. /\ toExchange # <<>> /\ m.kind = "order" /\ toExchange' = Tail(toExchange)
        /\ known' = known \cup {m.id} /\ live' = live \cup {m.id} /\ Report("Accepted", m.id)
        /\ UNCHANGED <<totalOrders, placed, sockPc, cur, brokerBound, received>>
        /\ UNCHANGED <<sent, inbox, sockQueue, allTimeCxns, sessions>>
    BY <1>10 DEF ExchangeAccepts
  <2>1. /\ m \in Msgs /\ toExchange' \in Seq(Msgs)
        /\ \A x \in ToSet(toExchange) : x = m \/ x \in ToSet(toExchange')
    <3>1. /\ DOMAIN toExchange = 1 .. Len(toExchange) /\ Len(toExchange) \in Nat \ {0}
          /\ DOMAIN toExchange' = 1 .. Len(toExchange) - 1 /\ m = toExchange[1] /\ m \in Msgs
          /\ \A i \in 1 .. Len(toExchange) - 1 : toExchange'[i] = toExchange[i + 1]
      BY <1>k, <2>0 DEF Rings
    <3>2. ASSUME NEW i \in 2 .. Len(toExchange) PROVE toExchange[i] \in ToSet(toExchange')
      <4>1. i - 1 \in DOMAIN toExchange' /\ toExchange'[i - 1] = toExchange[i]
        BY <3>1
      <4> QED
        BY <4>1 DEF ToSet
    <3>3. toExchange' \in Seq(Msgs)
      BY <1>k, <2>0 DEF Rings
    <3> QED
      BY <3>1, <3>2, <3>3 DEF ToSet
  <2>2. m.id \in Ids
    BY <2>0, <2>1 DEF Msgs
  <2> HIDE DEF m
  <2>3. lost \subseteq lost' /\ (Grown => toServer' \in Seq(Reports'))
    BY <1>r, <2>0, <2>2
  <2>4. \A id \in Settled : HasReached(id)' \/ id \in lost'
    BY <2>0, <2>1, <2>3 DEF Settled, HasReached
  <2>5. Grown
    BY <1>k, <2>0, <2>4, Growth DEF Grown, Numbers
  <2>6. Rings'
    BY <2>1, <2>3, <2>5, LargerSeq DEF Rings, Grown
  <2>7. Books'
    BY <1>k, <2>0, <2>2, <2>5 DEF Books, Grown
  <2>8. Post'
    BY <1>k, <2>0, <2>5, BrokerBoundKept, ReceivedKept DEF Post
  <2>9. Numbers' /\ Sessions' /\ Incoming'
    BY <1>k, <2>0 DEF Numbers, PlacedBy, Sessions, Incoming
  <2> QED
    BY <1>k, <2>0, <2>5, <2>6, <2>7, <2>8, <2>9, ThreadKept DEF IInv
<1>11. CASE ExchangeCancels
  <2> DEFINE m == Head(toExchange)
  <2>0. /\ toExchange # <<>> /\ m.kind = "cancel" /\ toExchange' = Tail(toExchange)
        /\ \/ UNCHANGED <<live, toServer, lost>>
           \/ m.id \in live /\ live' = live \ {m.id} /\ Report("CancelOk", m.id)
           \/ m.id \in known /\ UNCHANGED live /\ Report("CancelFailed", m.id)
        /\ UNCHANGED <<totalOrders, placed, sockPc, cur, brokerBound, received, known>>
        /\ UNCHANGED <<sent, inbox, sockQueue, allTimeCxns, sessions>>
    BY <1>11 DEF ExchangeCancels
  <2>1. /\ m \in Msgs /\ toExchange' \in Seq(Msgs)
        /\ \A x \in ToSet(toExchange) : x = m \/ x \in ToSet(toExchange')
    <3>1. /\ DOMAIN toExchange = 1 .. Len(toExchange) /\ Len(toExchange) \in Nat \ {0}
          /\ DOMAIN toExchange' = 1 .. Len(toExchange) - 1 /\ m = toExchange[1] /\ m \in Msgs
          /\ \A i \in 1 .. Len(toExchange) - 1 : toExchange'[i] = toExchange[i + 1]
      BY <1>k, <2>0 DEF Rings
    <3>2. ASSUME NEW i \in 2 .. Len(toExchange) PROVE toExchange[i] \in ToSet(toExchange')
      <4>1. i - 1 \in DOMAIN toExchange' /\ toExchange'[i - 1] = toExchange[i]
        BY <3>1
      <4> QED
        BY <4>1 DEF ToSet
    <3>3. toExchange' \in Seq(Msgs)
      BY <1>k, <2>0 DEF Rings
    <3> QED
      BY <3>1, <3>2, <3>3 DEF ToSet
  <2> HIDE DEF m
  <2>3. lost \subseteq lost' /\ (Grown => toServer' \in Seq(Reports')) /\ live' \subseteq live
    <3>1. CASE UNCHANGED <<live, toServer, lost>>
      BY <1>k, <3>1, LargerSeq DEF Rings, Grown
    <3>2. CASE m.id \in live /\ live' = live \ {m.id} /\ Report("CancelOk", m.id)
      BY <1>k, <1>r, <3>2 DEF Books
    <3>3. CASE m.id \in known /\ UNCHANGED live /\ Report("CancelFailed", m.id)
      BY <1>k, <1>r, <3>3 DEF Books
    <3> QED
      BY <2>0, <3>1, <3>2, <3>3
  <2>4. \A id \in Settled : HasReached(id)' \/ id \in lost'
    BY <2>0, <2>1, <2>3 DEF Settled, HasReached
  <2>5. Grown
    BY <1>k, <2>0, <2>4, Growth DEF Grown, Numbers
  <2>6. Rings'
    BY <2>1, <2>3, <2>5, LargerSeq DEF Rings, Grown
  <2>8. Post'
    BY <1>k, <2>0, <2>5, BrokerBoundKept, ReceivedKept DEF Post
  <2>9. Numbers' /\ Sessions' /\ Incoming'
    BY <1>k, <2>0 DEF Numbers, PlacedBy, Sessions, Incoming
  <2> QED
    BY <1>k, <2>0, <2>3, <2>5, <2>6, <2>8, <2>9, ThreadKept, BooksKept DEF IInv
<1>12. ASSUME NEW id \in known, ExchangeFills(id) PROVE IInv'
  <2>0. /\ live' = live \ {id} /\ Report("Fill", id)
        /\ UNCHANGED <<totalOrders, placed, sockPc, cur, brokerBound, received, known, toExchange>>
        /\ UNCHANGED <<sent, inbox, sockQueue, allTimeCxns, sessions>>
    BY <1>12 DEF ExchangeFills
  <2>1. lost \subseteq lost' /\ (Grown => toServer' \in Seq(Reports'))
    BY <1>k, <1>r, <2>0 DEF Books
  <2>2. \A x \in Settled : HasReached(x)' \/ x \in lost'
    BY <2>0, <2>1 DEF Settled, HasReached
  <2>3. Grown
    BY <1>k, <2>0, <2>2, Growth DEF Grown, Numbers
  <2>4. Rings'
    BY <1>k, <2>0, <2>1, <2>3, LargerSeq DEF Rings, Grown
  <2>5. Post'
    BY <1>k, <2>0, <2>3, BrokerBoundKept, ReceivedKept DEF Post
  <2>6. Numbers' /\ Sessions' /\ Incoming'
    BY <1>k, <2>0 DEF Numbers, PlacedBy, Sessions, Incoming
  <2> QED
    BY <1>k, <2>0, <2>3, <2>4, <2>5, <2>6, ThreadKept, BooksKept DEF IInv
<1>13. CASE Relay
  <2> DEFINE note == Head(toServer)
  <2>0. /\ toServer # <<>> /\ Notify("exchange", note.kind, note.subject)
        /\ toServer' = Tail(toServer)
        /\ UNCHANGED <<totalOrders, placed, sockPc, cur, received, known, live, toExchange, lost>>
        /\ UNCHANGED <<sent, inbox, sockQueue, allTimeCxns, sessions>>
    BY <1>13 DEF Relay, RelayedBy, Taken
  <2>1. note \in Reports /\ toServer' \in Seq(Reports)
    BY <1>k, <2>0 DEF Rings
  <2>2. PICK id \in Ids : id = note.subject
    BY <2>1 DEF Reports
  <2>3. PICK kind \in {"Accepted", "Fill", "CancelOk", "CancelFailed"} : kind = note.kind
    BY <2>1 DEF Reports
  <2> HIDE DEF note
  <2>4. Grown
    BY <2>0, GrownSame
  <2>5. Notify("exchange", kind, id)
    BY <2>0, <2>2, <2>3
  <2>6. brokerBound' \in [{"sock", "exchange"} -> Seq(Mail')]
    BY <1>k, <2>0, <2>4, <2>5, NotifyKept DEF NoteKinds
  <2>7. Post'
    BY <1>k, <2>0, <2>4, <2>6, ReceivedKept DEF Post
  <2>8. Rings'
    BY <1>k, <2>0, <2>1, <2>4, LargerSeq DEF Rings, Grown
  <2>9. Numbers' /\ Sessions' /\ Incoming'
    BY <1>k, <2>0 DEF Numbers, PlacedBy, Sessions, Incoming
  <2> QED
    BY <1>k, <2>0, <2>4, <2>7, <2>8, <2>9, ThreadKept, BooksKept DEF IInv
<1>14. ASSUME NEW p \in {"sock", "exchange"}, SendToBroker(p) PROVE IInv'
  <2> DEFINE mail == Head(brokerBound[p])
  <2>0. /\ brokerBound[p] # <<>> /\ brokerBound' = [brokerBound EXCEPT ![p] = Tail(@)]
        /\ \/ received' = [received EXCEPT ![mail.to] = Append(@, mail.note)]
           \/ UNCHANGED received
        /\ UNCHANGED <<totalOrders, placed, sockPc, cur, known, live, toExchange, toServer, lost>>
        /\ UNCHANGED <<sent, inbox, sockQueue, allTimeCxns, sessions>>
    BY <1>14 DEF SendToBroker
  <2>1. /\ brokerBound[p] \in Seq(Mail) /\ mail \in Mail
        /\ brokerBound' \in [{"sock", "exchange"} -> Seq(Mail)]
    BY <1>k, <2>0 DEF Post
  <2>2. PICK c \in Cxns : c = mail.to
    BY <2>1 DEF Mail
  <2>3. PICK note \in NotesFor(c) : note = mail.note
    BY <2>1, <2>2 DEF Mail
  <2> HIDE DEF mail
  <2>4. Grown /\ Mail' = Mail /\ \A d \in Cxns : NotesFor(d)' = NotesFor(d)
    <3>1. Grown
      BY <2>0, GrownSame
    <3>2. Ids' = Ids /\ Settled' = Settled
      BY <2>0 DEF Ids, Settled, HasReached, PlacedBy
    <3>3. \A d \in Cxns : NotesFor(d)' = NotesFor(d)
      BY <2>0, <3>2 DEF NotesFor, PlacedBy
    <3>4. Mail' = Mail
      BY <3>3 DEF Mail
    <3> QED
      BY <3>1, <3>3, <3>4
  <2>5. DOMAIN received' = Cxns /\ \A d \in Cxns : received'[d] \in Seq(NotesFor(d))
    <3>1. CASE UNCHANGED received
      BY <1>k, <3>1 DEF Post
    <3>2. CASE received' = [received EXCEPT ![c] = Append(received[c], note)]
      <4>1. Append(received[c], note) \in Seq(NotesFor(c))
        BY <1>k, <2>3 DEF Post
      <4>2. /\ received'[c] = Append(received[c], note)
            /\ \A d \in Cxns : d # c => received'[d] = received[d]
        BY <1>k, <3>2 DEF Post
      <4> QED
        BY <1>k, <3>2, <4>1, <4>2 DEF Post
    <3> QED
      BY <2>0, <2>2, <2>3, <3>1, <3>2
  <2>6. Post'
    BY <2>1, <2>4, <2>5 DEF Post
  <2>7. Numbers' /\ Sessions' /\ Incoming'
    BY <1>k, <2>0 DEF Numbers, PlacedBy, Sessions, Incoming
  <2> QED
    BY <1>k, <2>0, <2>4, <2>6, <2>7, ThreadKept, RingsKept, BooksKept DEF IInv
<1>15. CASE SetOpen \/ UNCHANGED vars
  BY <1>15, <1>k, StepKept DEF SetOpen, Sessions, Incoming
<1>d. DOMAIN brokerBound = {"sock", "exchange"} /\ \A num \in OrderNums \cup {0} : num \in Nat
  BY <1>k DEF Post, OrderNums
<1> QED
  BY <1>1, <1>2, <1>3, <1>4, <1>5, <1>6, <1>7, <1>8, <1>9, <1>10, <1>11, <1>12, <1>13, <1>14,
     <1>15, <1>d
     DEF Next, Brokers, ReadSocket, SockThread, Exchange, SendThread

-----------------------------------------------------------------------------
\* The inductive invariant: whose order a message is about, at each place it passes.
THEOREM ServerInvariant == EnoughIds /\ Spec => []IInv
<1> SUFFICES ASSUME EnoughIds PROVE Spec => []IInv
  OBVIOUS
<1>1. IInv /\ [Next]_vars => IInv'
  BY NextIInv
<1> QED
  BY InitIInv, <1>1, PTL DEF Spec

\* Every notification reaches the connection that sent the request, for any number of
\* connections that do not use up the session ids (GetDestinationFd_ finds a connection
\* by the session in the order's id).
THEOREM ServerNotificationsReachOwner == EnoughIds /\ Spec => []NotificationsReachOwner
<1> SUFFICES ASSUME EnoughIds PROVE Spec => []NotificationsReachOwner
  OBVIOUS
<1>1. IInv => NotificationsReachOwner
  BY Consequences
<1>2. Spec => []IInv
  BY ServerInvariant
<1> QED
  BY <1>1, <1>2, PTL

\* A cancel that finds an order finds one of its sender's own.
THEOREM ServerCancelsOwnOnly == EnoughIds /\ Spec => []CancelsOwnOnly
<1> SUFFICES ASSUME EnoughIds PROVE Spec => []CancelsOwnOnly
  OBVIOUS
<1>1. IInv => CancelsOwnOnly
  BY Consequences
<1>2. Spec => []IInv
  BY ServerInvariant
<1> QED
  BY <1>1, <1>2, PTL

\* An acknowledged order is with the Exchange, on its way, or was refused by a full ring.
THEOREM ServerAcksAreTrue == EnoughIds /\ Spec => []AcksAreTrue
<1> SUFFICES ASSUME EnoughIds PROVE Spec => []AcksAreTrue
  OBVIOUS
<1>1. IInv => AcksAreTrue
  BY Consequences
<1>2. Spec => []IInv
  BY ServerInvariant
<1> QED
  BY <1>1, <1>2, PTL

-----------------------------------------------------------------------------
(* What arrives, in which order and how often.                                *)
(*                                                                            *)
(* DInv: a session lasts as long as its connection, and an acceptance is ahead *)
(* of what follows it at each place that a report passes on its way.          *)
(* OInv: no request, order or note is at two places.                          *)

\* The broker has left: nothing that is sent to it arrives any more.
Closed(c) == peer[c] \in {"closed", "reset", "dead"}

\* A connection keeps its session until its broker has left, and who has placed an
\* order has had one.
SessionsKept ==
    /\ peer \in [Cxns -> {"away", "open", "closed", "reset", "dead"}]
    /\ \A s \in SessionIds : sessions[s] <= allTimeCxns
    /\ \A c \in 1 .. allTimeCxns : sessions[SessionFor(c)] = c \/ Closed(c)
    /\ \A n \in 1 .. totalOrders : PlacedBy(n) <= allTimeCxns

\* The notes in a queue of brokerBoundMsgs_.
NotesOf(queue) == [i \in DOMAIN queue |-> queue[i].note]
Relayed == NotesOf(brokerBound["exchange"])
Replies == NotesOf(brokerBound["sock"])

\* Each producer of brokerBoundMsgs_ has notes of its own.
Producers ==
    /\ \A note \in ToSet(Relayed) : note.kind \in {"Accepted", "Fill", "CancelOk", "CancelFailed"}
    /\ \A note \in ToSet(Replies) : note.kind \in {"Ack", "Reject"}

\* In the sequence s a comes before each element of L, unless it is in B.
Preceded(s, a, L, B) == \A j \in DOMAIN s : s[j] \in L => a \in B \/ \E i \in 1 .. j - 1 : s[i] = a

\* R has been received, X is to be sent, S is to be relayed.
Chain(R, X, S, a, L) ==
    /\ Preceded(R, a, L, {}) /\ Preceded(X, a, L, ToSet(R))
    /\ Preceded(S, a, L, ToSet(R) \cup ToSet(X))

Later(id) == {Note(kind, id) : kind \in {"Fill", "CancelOk", "CancelFailed"}}

\* The acceptance of an order is ahead of all that follows it, wherever it is.
Ahead(id) ==
    LET c == PlacedBy(id[2])
        a == Note("Accepted", id)
    IN  /\ Preceded(received[c], a, Later(id), {})
        /\ ~Closed(c) => Chain(received[c], Relayed, toServer, a, Later(id))
        /\ ~Closed(c) /\ id \in known =>
              a \in ToSet(received[c]) \cup ToSet(Relayed) \cup ToSet(toServer)

\* No two requests are the same, wherever they wait.
SameRequest(q, r) == q.cxn = r.cxn /\ q.seq = r.seq
UniqueIn(queue) == \A i, j \in DOMAIN queue : SameRequest(queue[i], queue[j]) => i = j
RequestsOnce ==
    /\ \A c \in Cxns :
          /\ UniqueIn(inbox[c])
          /\ \A r \in ToSet(inbox[c]) : r.cxn = c /\ r.seq <= sent[c]
    /\ \A t \in PoolThreads :
          /\ UniqueIn(sockQueue[t])
          /\ \A r \in ToSet(sockQueue[t]) :
                r.seq <= sent[r.cxn] /\ \A q \in ToSet(inbox[r.cxn]) : q.seq # r.seq
    /\ \A t, u \in PoolThreads : t # u =>
          \A q \in ToSet(sockQueue[t]), r \in ToSet(sockQueue[u]) : ~SameRequest(q, r)

\* The server has this order number in its hands.
Numbering(id) == sockPc # "idle" /\ cur[1].kind = "order" /\ cur[1].id = id

\* An order goes to the Exchange once.
NewOrders(queue, old) ==
    \A i, j \in DOMAIN queue :
        queue[i].kind = "order" =>
            /\ queue[i].id \notin old
            /\ queue[j].kind = "order" /\ queue[i].id = queue[j].id => i = j
OrdersOnce ==
    /\ NewOrders(toExchange, known)
    /\ \A id \in Ids : Numbering(id) /\ sockPc = "forward" => ~HasReached(id)

Waiting(c, seq) ==
    \/ \E r \in ToSet(inbox[c]) : r.seq = seq
    \/ \E t \in PoolThreads : \E r \in ToSet(sockQueue[t]) : r.cxn = c /\ r.seq = seq

\* What has been said: it is not said again, but that a cancel failed.
Said ==
    {note \in [kind: NoteKinds, subject: Nat \X Nat] :
        /\ note.kind = "Reject" =>
              /\ note.subject[1] \in Cxns /\ note.subject[2] <= sent[note.subject[1]]
              /\ ~Waiting(note.subject[1], note.subject[2])
        /\ note.kind = "Ack" => note.subject \in Ids /\ ~Numbering(note.subject)
        /\ note.kind = "Accepted" => note.subject \in known
        /\ note.kind = "Fill" => note.subject \in known \ unreported
        /\ note.kind = "CancelOk" => note.subject \in known \ live}

AllSaid ==
    /\ ToSet(toServer) \subseteq Said /\ ToSet(Relayed) \subseteq Said
    /\ ToSet(Replies) \subseteq Said
    /\ \A c \in Cxns : ToSet(received[c]) \subseteq Said

OnceIn(s)   == \A i, j \in DOMAIN s : s[i] = s[j] => i = j \/ s[i].kind = "CancelFailed"
Apart(s, t) == \A x \in ToSet(s) \cap ToSet(t) : x.kind = "CancelFailed"
\* No note is twice in what is to be relayed, to be sent and received.
Line(S, X, R) ==
    /\ OnceIn(S) /\ OnceIn(X) /\ OnceIn(R)
    /\ Apart(S, X) /\ Apart(S, R) /\ Apart(X, R)
Lines == \A c \in Cxns : Line(toServer, Relayed, received[c]) /\ Line(<<>>, Replies, received[c])

DInv ==
    /\ SessionsKept /\ Producers /\ live \cup unreported \subseteq known
    /\ \A id \in Ids \ lost : Ahead(id)
OInv == RequestsOnce /\ OrdersOnce /\ AllSaid /\ Lines

-----------------------------------------------------------------------------
(* Sequences that notes go through *)

LEMMA AppendedTo ==
    ASSUME NEW S, NEW s \in Seq(S), NEW x
    PROVE  /\ Append(s, x) \in Seq(S \cup {x})
           /\ DOMAIN Append(s, x) = 1 .. Len(s) + 1 /\ DOMAIN s = 1 .. Len(s) /\ Len(s) \in Nat
           /\ \A i \in 1 .. Len(s) : Append(s, x)[i] = s[i]
           /\ Append(s, x)[Len(s) + 1] = x
           /\ ToSet(Append(s, x)) = ToSet(s) \cup {x}
<1>1. /\ DOMAIN Append(s, x) = 1 .. Len(s) + 1 /\ DOMAIN s = 1 .. Len(s) /\ Len(s) \in Nat
      /\ \A i \in 1 .. Len(s) : Append(s, x)[i] = s[i]
      /\ Append(s, x)[Len(s) + 1] = x
  OBVIOUS
<1>2. s \in Seq(S \cup {x})
  BY LargerSeq
<1>3. Append(s, x) \in Seq(S \cup {x})
  BY <1>2
<1>4. ToSet(Append(s, x)) = ToSet(s) \cup {x}
  BY <1>1 DEF ToSet
<1> QED
  BY <1>1, <1>3, <1>4

LEMMA TailOf ==
    ASSUME NEW S, NEW s \in Seq(S), s # <<>>
    PROVE  /\ Tail(s) \in Seq(S) /\ Head(s) \in S
           /\ DOMAIN Tail(s) = 1 .. Len(s) - 1 /\ DOMAIN s = 1 .. Len(s) /\ Len(s) \in Nat \ {0}
           /\ \A i \in 1 .. Len(s) - 1 : Tail(s)[i] = s[i + 1]
           /\ Head(s) = s[1]
           /\ ToSet(s) = {Head(s)} \cup ToSet(Tail(s))
<1>1. /\ DOMAIN Tail(s) = 1 .. Len(s) - 1 /\ DOMAIN s = 1 .. Len(s) /\ Len(s) \in Nat \ {0}
      /\ \A i \in 1 .. Len(s) - 1 : Tail(s)[i] = s[i + 1]
      /\ Head(s) = s[1] /\ Tail(s) \in Seq(S) /\ Head(s) \in S
  OBVIOUS
<1>2. ASSUME NEW i \in 2 .. Len(s) PROVE s[i] \in ToSet(Tail(s))
  <2>1. i - 1 \in DOMAIN Tail(s) /\ Tail(s)[i - 1] = s[i]
    BY <1>1
  <2> QED
    BY <2>1 DEF ToSet
<1>3. ToSet(s) = {Head(s)} \cup ToSet(Tail(s))
  BY <1>1, <1>2 DEF ToSet
<1> QED
  BY <1>1, <1>3

LEMMA PrecededAppend ==
    ASSUME NEW S, NEW s \in Seq(S), NEW x, NEW a, NEW L, NEW B,
           Preceded(s, a, L, B), x \in L => a \in B \/ a \in ToSet(s)
    PROVE  Preceded(Append(s, x), a, L, B)
<1>1. SUFFICES ASSUME NEW j \in DOMAIN Append(s, x), Append(s, x)[j] \in L, a \notin B
      PROVE  \E i \in 1 .. j - 1 : Append(s, x)[i] = a
  BY DEF Preceded
<1>2. CASE j \in 1 .. Len(s)
  <2>1. PICK i \in 1 .. j - 1 : s[i] = a
    BY <1>1, <1>2, AppendedTo DEF Preceded
  <2> QED
    BY <1>2, <2>1, AppendedTo
<1>3. CASE j = Len(s) + 1
  <2>1. a \in ToSet(s)
    BY <1>1, <1>3, AppendedTo
  <2>2. PICK i \in 1 .. Len(s) : s[i] = a
    BY <2>1, AppendedTo DEF ToSet
  <2> QED
    BY <1>3, <2>2, AppendedTo
<1> QED
  BY <1>2, <1>3, AppendedTo

LEMMA PrecededTail ==
    ASSUME NEW S, NEW s \in Seq(S), s # <<>>, NEW a, NEW L, NEW B, NEW C,
           Preceded(s, a, L, B), a \in B \/ Head(s) = a => a \in C
    PROVE  Preceded(Tail(s), a, L, C) /\ (Head(s) \in L => a \in B)
<1>1. Head(s) \in L => a \in B
  BY TailOf DEF Preceded
<1>2. ASSUME NEW j \in DOMAIN Tail(s), Tail(s)[j] \in L, a \notin C
      PROVE  \E i \in 1 .. j - 1 : Tail(s)[i] = a
  <2>1. j + 1 \in DOMAIN s /\ s[j + 1] \in L /\ a \notin B /\ s[1] # a
    BY <1>2, TailOf
  <2>2. PICK i \in 1 .. j : s[i] = a
    BY <2>1, TailOf DEF Preceded
  <2>3. i # 1 /\ i - 1 \in 1 .. j - 1 /\ Tail(s)[i - 1] = s[i]
    BY <1>2, <2>1, <2>2, TailOf
  <2> QED
    BY <2>2, <2>3
<1> QED
  BY <1>1, <1>2 DEF Preceded

LEMMA PrecededMore ==
    ASSUME NEW s, NEW a, NEW L, NEW B, NEW C, Preceded(s, a, L, B), a \in B => a \in C
    PROVE  Preceded(s, a, L, C)
BY DEF Preceded

\* a new report
LEMMA ChainReport ==
    ASSUME NEW T, NEW R \in Seq(T), NEW X \in Seq(T), NEW S \in Seq(T), NEW a, NEW L, NEW x,
           Chain(R, X, S, a, L), x \in L => a \in ToSet(R) \cup ToSet(X) \cup ToSet(S)
    PROVE  Chain(R, X, Append(S, x), a, L)
<1>1. Preceded(Append(S, x), a, L, ToSet(R) \cup ToSet(X))
  BY PrecededAppend DEF Chain
<1> QED
  BY <1>1 DEF Chain

\* ... relayed
LEMMA ChainRelay ==
    ASSUME NEW T, NEW R \in Seq(T), NEW X \in Seq(T), NEW S \in Seq(T), NEW a, NEW L, S # <<>>,
           Chain(R, X, S, a, L)
    PROVE  Chain(R, Append(X, Head(S)), Tail(S), a, L)
<1>1. ToSet(Append(X, Head(S))) = ToSet(X) \cup {Head(S)}
  BY AppendedTo
<1>2. Preceded(Tail(S), a, L, ToSet(R) \cup ToSet(Append(X, Head(S))))
      /\ (Head(S) \in L => a \in ToSet(R) \cup ToSet(X))
  BY <1>1, PrecededTail DEF Chain
<1>3. Preceded(Append(X, Head(S)), a, L, ToSet(R))
  BY <1>2, PrecededAppend DEF Chain
<1> QED
  BY <1>2, <1>3 DEF Chain

\* ... and sent
LEMMA ChainSend ==
    ASSUME NEW T, NEW R \in Seq(T), NEW X \in Seq(T), NEW S \in Seq(T), NEW a, NEW L, X # <<>>,
           Chain(R, X, S, a, L)
    PROVE  Chain(Append(R, Head(X)), Tail(X), S, a, L)
<1>1. ToSet(Append(R, Head(X))) = ToSet(R) \cup {Head(X)}
      /\ ToSet(X) = {Head(X)} \cup ToSet(Tail(X))
  BY AppendedTo, TailOf
<1>2. Preceded(Tail(X), a, L, ToSet(Append(R, Head(X)))) /\ (Head(X) \in L => a \in ToSet(R))
  BY <1>1, PrecededTail DEF Chain
<1>3. Preceded(Append(R, Head(X)), a, L, {})
  BY <1>2, PrecededAppend DEF Chain
<1>4. Preceded(S, a, L, ToSet(Append(R, Head(X))) \cup ToSet(Tail(X)))
  BY <1>1, PrecededMore DEF Chain
<1> QED
  BY <1>2, <1>3, <1>4 DEF Chain

\* what is about something else comes and goes
LEMMA ChainOther ==
    ASSUME NEW T, NEW R \in Seq(T), NEW X \in Seq(T), NEW S \in Seq(T), NEW a, NEW L,
           Chain(R, X, S, a, L)
    PROVE  /\ \A x \in T : x \notin L => Chain(Append(R, x), X, S, a, L)
           /\ \A x \in T : x \notin L => Chain(R, Append(X, x), S, a, L)
           /\ X # <<>> /\ Head(X) # a => Chain(R, Tail(X), S, a, L)
           /\ S # <<>> /\ Head(S) # a => Chain(R, X, Tail(S), a, L)
<1>1. ASSUME NEW x \in T, x \notin L PROVE Chain(Append(R, x), X, S, a, L)
  <2>1. ToSet(Append(R, x)) = ToSet(R) \cup {x}
    BY AppendedTo
  <2>2. Preceded(Append(R, x), a, L, {})
    BY <1>1, PrecededAppend DEF Chain
  <2>3. Preceded(X, a, L, ToSet(Append(R, x)))
    BY <2>1, PrecededMore DEF Chain
  <2>4. Preceded(S, a, L, ToSet(Append(R, x)) \cup ToSet(X))
    BY <2>1, PrecededMore DEF Chain
  <2> QED
    BY <2>2, <2>3, <2>4 DEF Chain
<1>2. ASSUME NEW x \in T, x \notin L PROVE Chain(R, Append(X, x), S, a, L)
  <2>1. ToSet(Append(X, x)) = ToSet(X) \cup {x}
    BY AppendedTo
  <2>2. Preceded(Append(X, x), a, L, ToSet(R))
    BY <1>2, PrecededAppend DEF Chain
  <2>3. Preceded(S, a, L, ToSet(R) \cup ToSet(Append(X, x)))
    BY <2>1, PrecededMore DEF Chain
  <2> QED
    BY <2>2, <2>3 DEF Chain
<1>3. ASSUME X # <<>>, Head(X) # a PROVE Chain(R, Tail(X), S, a, L)
  <2>1. ToSet(X) = {Head(X)} \cup ToSet(Tail(X))
    BY <1>3, TailOf
  <2>2. Preceded(Tail(X), a, L, ToSet(R))
    BY <1>3, PrecededTail DEF Chain
  <2>3. Preceded(S, a, L, ToSet(R) \cup ToSet(Tail(X)))
    BY <1>3, <2>1, PrecededMore DEF Chain
  <2> QED
    BY <2>2, <2>3 DEF Chain
<1>4. ASSUME S # <<>>, Head(S) # a PROVE Chain(R, X, Tail(S), a, L)
  <2>1. Preceded(Tail(S), a, L, ToSet(R) \cup ToSet(X))
    BY <1>4, PrecededTail DEF Chain
  <2> QED
    BY <2>1 DEF Chain
<1> QED
  BY <1>1, <1>2, <1>3, <1>4

Fresh(x, S, X, R) == x.kind = "CancelFailed" \/ x \notin ToSet(S) \cup ToSet(X) \cup ToSet(R)

\* A new note can go anywhere ...
LEMMA LineAppend ==
    ASSUME NEW T, NEW S \in Seq(T), NEW X \in Seq(T), NEW R \in Seq(T), Line(S, X, R),
           NEW x \in T, Fresh(x, S, X, R)
    PROVE  Line(Append(S, x), X, R) /\ Line(S, Append(X, x), R) /\ Line(S, X, Append(R, x))
<1>1. ASSUME NEW s \in Seq(T), OnceIn(s), x.kind = "CancelFailed" \/ x \notin ToSet(s)
      PROVE  OnceIn(Append(s, x)) /\ ToSet(Append(s, x)) = ToSet(s) \cup {x}
  <2>1. ToSet(Append(s, x)) = ToSet(s) \cup {x}
    BY AppendedTo
  <2>2. /\ DOMAIN Append(s, x) = 1 .. Len(s) + 1 /\ DOMAIN s = 1 .. Len(s)
        /\ \A i \in 1 .. Len(s) : Append(s, x)[i] = s[i]
        /\ Append(s, x)[Len(s) + 1] = x /\ Len(s) \in Nat
    BY AppendedTo
  <2>3. \A i \in 1 .. Len(s) : s[i] \in ToSet(s)
    BY <2>2 DEF ToSet
  <2>4. ASSUME NEW i \in DOMAIN Append(s, x), NEW j \in DOMAIN Append(s, x),
               Append(s, x)[i] = Append(s, x)[j], i # j, Append(s, x)[i].kind # "CancelFailed"
        PROVE  FALSE
    <3>1. CASE i \in 1 .. Len(s) /\ j \in 1 .. Len(s)
      BY <1>1, <2>2, <2>4, <3>1 DEF OnceIn
    <3>2. CASE i = Len(s) + 1 /\ j \in 1 .. Len(s)
      BY <1>1, <2>2, <2>3, <2>4, <3>2
    <3>3. CASE j = Len(s) + 1 /\ i \in 1 .. Len(s)
      BY <1>1, <2>2, <2>3, <2>4, <3>3
    <3> QED
      BY <2>2, <2>4, <3>1, <3>2, <3>3
  <2> QED
    BY <2>1, <2>4 DEF OnceIn
<1> QED
  BY <1>1 DEF Line, Apart, Fresh

\* ... and one that is taken from a sequence is as good as new.
LEMMA OnceTail ==
    ASSUME NEW T, NEW s \in Seq(T), s # <<>>, OnceIn(s)
    PROVE  /\ OnceIn(Tail(s)) /\ ToSet(s) = {Head(s)} \cup ToSet(Tail(s))
           /\ Head(s).kind = "CancelFailed" \/ Head(s) \notin ToSet(Tail(s))
<1>1. /\ DOMAIN Tail(s) = 1 .. Len(s) - 1 /\ DOMAIN s = 1 .. Len(s) /\ Len(s) \in Nat \ {0}
      /\ \A i \in 1 .. Len(s) - 1 : Tail(s)[i] = s[i + 1]
      /\ Head(s) = s[1] /\ ToSet(s) = {Head(s)} \cup ToSet(Tail(s))
  BY TailOf
<1>2. ASSUME NEW i \in DOMAIN Tail(s), NEW j \in DOMAIN Tail(s), Tail(s)[i] = Tail(s)[j], i # j
      PROVE  Tail(s)[i].kind = "CancelFailed"
  <2>1. i + 1 \in DOMAIN s /\ j + 1 \in DOMAIN s /\ s[i + 1] = s[j + 1] /\ i + 1 # j + 1
    BY <1>1, <1>2
  <2>2. s[i + 1].kind = "CancelFailed"
    BY <2>1 DEF OnceIn
  <2> QED
    BY <1>1, <2>2
<1>3. ASSUME Head(s) \in ToSet(Tail(s)) PROVE Head(s).kind = "CancelFailed"
  <2>1. PICK i \in DOMAIN Tail(s) : Tail(s)[i] = Head(s)
    BY <1>3 DEF ToSet
  <2>2. i + 1 \in DOMAIN s /\ s[i + 1] = s[1] /\ i + 1 # 1 /\ 1 \in DOMAIN s
    BY <1>1, <2>1
  <2> QED
    BY <1>1, <2>2 DEF OnceIn
<1> QED
  BY <1>1, <1>2, <1>3 DEF OnceIn

LEMMA LineTail ==
    ASSUME NEW T, NEW S \in Seq(T), NEW X \in Seq(T), NEW R \in Seq(T), Line(S, X, R)
    PROVE  /\ S # <<>> => Line(Tail(S), X, R) /\ Fresh(Head(S), Tail(S), X, R)
           /\ X # <<>> => Line(S, Tail(X), R) /\ Fresh(Head(X), S, Tail(X), R)
<1>1. ASSUME S # <<>> PROVE Line(Tail(S), X, R) /\ Fresh(Head(S), Tail(S), X, R)
  <2>1. /\ OnceIn(Tail(S)) /\ ToSet(S) = {Head(S)} \cup ToSet(Tail(S))
        /\ Head(S).kind = "CancelFailed" \/ Head(S) \notin ToSet(Tail(S))
    BY <1>1, OnceTail DEF Line
  <2> QED
    BY <2>1 DEF Line, Apart, Fresh
<1>2. ASSUME X # <<>> PROVE Line(S, Tail(X), R) /\ Fresh(Head(X), S, Tail(X), R)
  <2>1. /\ OnceIn(Tail(X)) /\ ToSet(X) = {Head(X)} \cup ToSet(Tail(X))
        /\ Head(X).kind = "CancelFailed" \/ Head(X) \notin ToSet(Tail(X))
    BY <1>2, OnceTail DEF Line
  <2> QED
    BY <2>1 DEF Line, Apart, Fresh
<1> QED
  BY <1>1, <1>2

\* The notes of a queue follow it.
LEMMA NotesOfQueue ==
    ASSUME NEW T, NEW N, \A m \in T : m.note \in N, NEW queue \in Seq(T)
    PROVE  /\ NotesOf(queue) \in Seq(N)
           /\ queue # <<>> => /\ NotesOf(queue) # <<>>
                              /\ NotesOf(Tail(queue)) = Tail(NotesOf(queue))
                              /\ Head(NotesOf(queue)) = Head(queue).note
           /\ \A m \in T : NotesOf(Append(queue, m)) = Append(NotesOf(queue), m.note)
<1>1. NotesOf(queue) \in Seq(N) /\ Len(NotesOf(queue)) = Len(queue)
      /\ \A i \in 1 .. Len(queue) : NotesOf(queue)[i] = queue[i].note
  BY DEF NotesOf
<1>2. ASSUME queue # <<>>
      PROVE  /\ NotesOf(queue) # <<>> /\ NotesOf(Tail(queue)) = Tail(NotesOf(queue))
             /\ Head(NotesOf(queue)) = Head(queue).note
  <2>1. NotesOf(queue) # <<>> /\ Head(NotesOf(queue)) = Head(queue).note
    BY <1>1, <1>2
  <2>2. /\ NotesOf(Tail(queue)) \in Seq(N) /\ Len(NotesOf(Tail(queue))) = Len(queue) - 1
        /\ \A i \in 1 .. Len(queue) - 1 : NotesOf(Tail(queue))[i] = queue[i + 1].note
    BY <1>2 DEF NotesOf
  <2>3. /\ Tail(NotesOf(queue)) \in Seq(N) /\ Len(Tail(NotesOf(queue))) = Len(queue) - 1
        /\ \A i \in 1 .. Len(queue) - 1 : Tail(NotesOf(queue))[i] = queue[i + 1].note
    BY <1>1, <2>1
  <2> QED
    BY <2>1, <2>2, <2>3
<1>3. ASSUME NEW m \in T PROVE NotesOf(Append(queue, m)) = Append(NotesOf(queue), m.note)
  <2>1. /\ NotesOf(Append(queue, m)) \in Seq(N) /\ Len(NotesOf(Append(queue, m))) = Len(queue) + 1
        /\ \A i \in 1 .. Len(queue) + 1 : NotesOf(Append(queue, m))[i] = Append(queue, m)[i].note
    BY DEF NotesOf
  <2>2. /\ Append(NotesOf(queue), m.note) \in Seq(N)
        /\ Len(Append(NotesOf(queue), m.note)) = Len(queue) + 1
        /\ \A i \in 1 .. Len(queue) + 1 :
              Append(NotesOf(queue), m.note)[i] = Append(queue, m)[i].note
    BY <1>1
  <2> QED
    BY <2>1, <2>2
<1> QED
  BY <1>1, <1>2, <1>3

-----------------------------------------------------------------------------
(* Sessions are kept *)

Notes == [kind: NoteKinds, subject: Nat \X Nat]

LEMMA Places ==
    ASSUME IInv
    PROVE  /\ toServer \in Seq(Notes) /\ Relayed \in Seq(Notes) /\ Replies \in Seq(Notes)
           /\ \A c \in Cxns : received[c] \in Seq(Notes)
           /\ \A id \in Ids : /\ id \in Nat \X Nat /\ id[1] \in SessionIds
                              /\ id[2] \in 1 .. totalOrders
                              /\ PlacedBy(id[2]) \in Cxns /\ id[1] = SessionFor(PlacedBy(id[2]))
<1>1. \A id \in Ids : /\ id \in Nat \X Nat /\ id[1] \in SessionIds /\ id[2] \in 1 .. totalOrders
                      /\ PlacedBy(id[2]) \in Cxns /\ id[1] = SessionFor(PlacedBy(id[2]))
  BY ServerAssumption DEF IInv, Numbers, Ids, OrderId, SessionIds, OrderNums
<1>2. Reports \subseteq Notes
  BY <1>1 DEF Reports, Notes, NoteKinds
<1>3. toServer \in Seq(Notes)
  BY <1>2, LargerSeq DEF IInv, Rings
<1>4. \A c \in Cxns : NotesFor(c) \subseteq Notes
  BY DEF NotesFor, Notes
<1>5. \A c \in Cxns : received[c] \in Seq(Notes)
  BY <1>4, LargerSeq DEF IInv, Post
<1>6. \A m \in Mail : m.note \in Notes
  BY DEF Mail, Notes
<1>7. Relayed \in Seq(Notes) /\ Replies \in Seq(Notes)
  BY <1>6, NotesOfQueue DEF Relayed, Replies, IInv, Post
<1> QED
  BY <1>1, <1>3, <1>5, <1>7

LEMMA ClosedStays ==
    ASSUME DInv, [Next]_vars
    PROVE  /\ peer' \in [Cxns -> {"away", "open", "closed", "reset", "dead"}]
           /\ \A c \in Cxns : Closed(c) => Closed(c)'
<1> USE DEF vars, brokerVars, sockVars, sessionVars, orderVars, ringVars, exchangeVars
<1>k. peer \in [Cxns -> {"away", "open", "closed", "reset", "dead"}]
  BY DEF DInv, SessionsKept
<1>1. ASSUME NEW c \in Cxns, peer[c] = "away", peer' = [peer EXCEPT ![c] = "open"]
      PROVE  /\ peer' \in [Cxns -> {"away", "open", "closed", "reset", "dead"}]
             /\ \A d \in Cxns : Closed(d) => Closed(d)'
  BY <1>k, <1>1 DEF Closed
<1>2. ASSUME NEW c, NEW how \in {"closed", "reset", "dead"}, peer' = [peer EXCEPT ![c] = how]
      PROVE  /\ peer' \in [Cxns -> {"away", "open", "closed", "reset", "dead"}]
             /\ \A d \in Cxns : Closed(d) => Closed(d)'
  BY <1>k, <1>2 DEF Closed
<1>3. \/ UNCHANGED peer
      \/ \E c \in Cxns : peer[c] = "away" /\ peer' = [peer EXCEPT ![c] = "open"]
      \/ \E c : \E how \in {"closed", "reset", "dead"} : peer' = [peer EXCEPT ![c] = how]
  <2>1. ASSUME NEW c \in Cxns, Connect(c)
        PROVE  peer[c] = "away" /\ peer' = [peer EXCEPT ![c] = "open"]
    BY <2>1 DEF Connect
  <2>2. ASSUME NEW c \in Cxns, Leave(c)
        PROVE  \E how \in {"closed", "reset", "dead"} : peer' = [peer EXCEPT ![c] = how]
    BY <2>2 DEF Leave
  <2>3. ASSUME NEW c \in Cxns, NEW kind, NEW num, SendRequest(c, kind, num) PROVE UNCHANGED peer
    BY <2>3 DEF SendRequest
  <2>4. ASSUME NEW c \in Cxns, ReadSocket(c)
        PROVE  \/ UNCHANGED peer
               \/ \E how \in {"closed", "reset", "dead"} : peer' = [peer EXCEPT ![c] = how]
    BY <2>4, Zenon DEF ReadSocket, Receive, Disconnect, ReceiveError
  <2>5. ASSUME NEW c \in Cxns, NewConnection(c) PROVE UNCHANGED peer
    BY <2>5 DEF NewConnection
  <2>6. ASSUME SockThread \/ Relay \/ SetOpen \/ Exchange \/ \E id \in known : ExchangeFills(id)
        PROVE  UNCHANGED peer
    BY <2>6, Zenon DEF SockThread, TakeSockMsg, Forward, Acknowledge, Relay, SetOpen, Exchange,
       ExchangeAccepts, ExchangeCancels, ExchangeFills
  <2>7. ASSUME NEW p, SendToBroker(p)
        PROVE  \/ UNCHANGED peer
               \/ \E c : \E how \in {"closed", "reset", "dead"} : peer' = [peer EXCEPT ![c] = how]
    BY <2>7 DEF SendToBroker
  <2> QED
    BY <2>1, <2>2, <2>3, <2>4, <2>5, <2>6, <2>7 DEF Next, Brokers, SendThread
<1>4. UNCHANGED peer => /\ peer' \in [Cxns -> {"away", "open", "closed", "reset", "dead"}]
                        /\ \A d \in Cxns : Closed(d) => Closed(d)'
  BY <1>k DEF Closed
<1> QED
  BY <1>1, <1>2, <1>3, <1>4

LEMMA NextSessionsKept ==
    ASSUME EnoughIds, IInv, DInv, [Next]_vars
    PROVE  SessionsKept'
<1> USE DEF vars, brokerVars, sockVars, sessionVars, orderVars, ringVars, exchangeVars
<1>k. /\ SessionsKept /\ Sessions /\ Numbers /\ Incoming
  BY DEF DInv, IInv
<1>a. /\ allTimeCxns \in Nat /\ allTimeCxns <= MaxCxns
      /\ sessions \in [SessionIds -> Cxns \cup {NoCxn}]
      /\ \A s \in SessionIds : sessions[s] # NoCxn => s = SessionFor(sessions[s])
      /\ \A s \in SessionIds : sessions[s] <= allTimeCxns
      /\ 1 .. allTimeCxns \subseteq Cxns
  BY <1>k, ServerAssumption DEF Sessions, SessionsKept, Cxns
<1>c. /\ peer' \in [Cxns -> {"away", "open", "closed", "reset", "dead"}]
      /\ \A c \in Cxns : Closed(c) => Closed(c)'
  BY ClosedStays
<1>1. ASSUME UNCHANGED <<allTimeCxns, sessions, totalOrders, placed>> PROVE SessionsKept'
  BY <1>1, <1>a, <1>c, <1>k DEF SessionsKept, PlacedBy
<1>2. ASSUME NEW c \in Cxns, NewConnection(c) PROVE SessionsKept'
  <2>1. /\ c = allTimeCxns + 1 /\ allTimeCxns' = c /\ UNCHANGED <<totalOrders, placed>>
        /\ sessions' = IF sessions[NextSession] = NoCxn
                       THEN [sessions EXCEPT ![NextSession] = c] ELSE sessions
    BY <1>2 DEF NewConnection
  <2>2. NextSession = SessionFor(c) /\ SessionFor(c) \in SessionIds
    BY <2>1, SessionForType DEF NextSession, SessionFor
  <2>3. sessions[SessionFor(c)] = NoCxn
    <3>1. ASSUME sessions[SessionFor(c)] # NoCxn PROVE FALSE
      <4>1. PICK d \in Cxns : d = sessions[SessionFor(c)]
        BY <1>a, <2>2, <3>1
      <4>2. SessionFor(d) = SessionFor(c) /\ d <= allTimeCxns
        BY <1>a, <2>2, <3>1, <4>1
      <4>3. d = c
        BY <4>2, SessionForInjective
      <4> QED
        BY <1>a, <2>1, <4>2, <4>3
    <3> QED
      BY <3>1
  <2>4. sessions' = [sessions EXCEPT ![SessionFor(c)] = c]
    BY <2>1, <2>2, <2>3
  <2>5. \A s \in SessionIds : sessions'[s] <= c
    BY <1>a, <2>1, <2>2, <2>4 DEF Cxns, NoCxn
  <2>6. ASSUME NEW d \in 1 .. c PROVE sessions'[SessionFor(d)] = d \/ Closed(d)'
    <3>1. CASE d = c
      BY <1>a, <2>2, <2>4, <3>1
    <3>2. CASE d # c
      <4>1. d \in 1 .. allTimeCxns /\ d \in Cxns
        BY <1>a, <2>1, <3>2
      <4>2. SessionFor(d) # SessionFor(c) /\ SessionFor(d) \in SessionIds
        BY <3>2, <4>1, SessionForInjective, SessionForType
      <4>3. sessions[SessionFor(d)] = d \/ Closed(d)
        BY <1>k, <4>1 DEF SessionsKept
      <4> QED
        BY <1>a, <1>c, <2>4, <4>1, <4>2, <4>3
    <3> QED
      BY <3>1, <3>2
  <2>7. \A n \in 1 .. totalOrders : PlacedBy(n) <= c
    <3>1. ASSUME NEW n \in 1 .. totalOrders PROVE PlacedBy(n) <= c
      <4>1. PlacedBy(n) \in Cxns /\ PlacedBy(n) <= allTimeCxns
        BY <1>k DEF SessionsKept, Numbers
      <4> QED
        BY <1>a, <2>1, <4>1 DEF Cxns
    <3> QED
      BY <3>1
  <2> QED
    BY <1>c, <2>1, <2>5, <2>6, <2>7 DEF SessionsKept, PlacedBy
<1>3. ASSUME NEW c \in Cxns, Disconnect(c) PROVE SessionsKept'
  <2>1. /\ peer[c] \in {"closed", "dead"} /\ UNCHANGED <<allTimeCxns, totalOrders, placed>>
        /\ sessions' = [s \in SessionIds |-> IF sessions[s] = c THEN NoCxn ELSE sessions[s]]
    BY <1>3 DEF Disconnect
  <2>2. Closed(c)
    BY <2>1 DEF Closed
  <2>3. \A d \in 1 .. allTimeCxns : sessions'[SessionFor(d)] = d \/ Closed(d)'
    <3>1. ASSUME NEW d \in 1 .. allTimeCxns PROVE sessions'[SessionFor(d)] = d \/ Closed(d)'
      <4>1. d \in Cxns /\ SessionFor(d) \in SessionIds /\ (sessions[SessionFor(d)] = d \/ Closed(d))
        BY <1>a, <1>k, SessionForType DEF SessionsKept
      <4> QED
        BY <1>c, <2>1, <2>2, <4>1
    <3> QED
      BY <3>1
  <2>4. \A s \in SessionIds : sessions'[s] <= allTimeCxns
    BY <1>a, <2>1 DEF NoCxn
  <2> QED
    BY <1>c, <1>k, <2>1, <2>3, <2>4 DEF SessionsKept, PlacedBy
<1>4. ASSUME NEW t \in PoolThreads, TakeSockMsg(t), ~UNCHANGED <<totalOrders, placed>>
      PROVE  SessionsKept'
  <2> DEFINE req == Head(sockQueue[t])
  <2>1. /\ sockQueue[t] # <<>> /\ HasSession(req.cxn) /\ totalOrders' = totalOrders + 1
        /\ placed' = [placed EXCEPT ![totalOrders'] = <<req.cxn, req.seq>>]
        /\ UNCHANGED <<allTimeCxns, sessions>> /\ totalOrders < MaxRequests
    BY <1>4 DEF TakeSockMsg
  <2>2. req \in Requests
    BY <1>k, <2>1 DEF Incoming
  <2> HIDE DEF req
  <2>3. req.cxn <= allTimeCxns /\ req.cxn \in Cxns
    BY <1>a, <2>1, <2>2 DEF HasSession, Requests
  <2>4. totalOrders' \in OrderNums
    BY <1>k, <2>1, ServerAssumption DEF Numbers, OrderNums
  <2>5. ASSUME NEW n \in 1 .. totalOrders' PROVE PlacedBy(n)' <= allTimeCxns
    <3>1. CASE n = totalOrders'
      BY <1>k, <2>1, <2>3, <2>4, <3>1 DEF PlacedBy, Numbers
    <3>2. CASE n # totalOrders'
      <4>1. n \in 1 .. totalOrders /\ placed'[n] = placed[n]
        BY <1>k, <2>1, <2>4, <3>2 DEF Numbers
      <4> QED
        BY <1>k, <4>1 DEF PlacedBy, SessionsKept
    <3> QED
      BY <3>1, <3>2
  <2> QED
    BY <1>a, <1>c, <1>k, <2>1, <2>5 DEF SessionsKept
<1>5. \/ UNCHANGED <<allTimeCxns, sessions, totalOrders, placed>>
      \/ \E c \in Cxns : NewConnection(c) \/ Disconnect(c)
      \/ \E t \in PoolThreads : TakeSockMsg(t)
  <2>1. ASSUME NEW c \in Cxns,
               Connect(c) \/ Leave(c) \/ ReceiveError(c) \/ \E t \in PoolThreads : Receive(c, t)
        PROVE  UNCHANGED <<allTimeCxns, sessions, totalOrders, placed>>
    BY <2>1, Zenon DEF Connect, Leave, ReceiveError, Receive
  <2>2. ASSUME NEW c \in Cxns, NEW kind, NEW num, SendRequest(c, kind, num)
        PROVE  UNCHANGED <<allTimeCxns, sessions, totalOrders, placed>>
    BY <2>2 DEF SendRequest
  <2>3. ASSUME Forward \/ Acknowledge \/ Relay \/ SetOpen \/ Exchange \/ SendThread
               \/ \E id \in known : ExchangeFills(id)
        PROVE  UNCHANGED <<allTimeCxns, sessions, totalOrders, placed>>
    BY <2>3, Zenon DEF Forward, Acknowledge, Relay, SetOpen, Exchange, ExchangeAccepts,
       ExchangeCancels, ExchangeFills, SendThread, SendToBroker
  <2> QED
    BY <2>1, <2>2, <2>3 DEF Next, Brokers, ReadSocket, SockThread
<1>6. ASSUME NEW t \in PoolThreads, TakeSockMsg(t) PROVE UNCHANGED <<allTimeCxns, sessions>>
  BY <1>6 DEF TakeSockMsg
<1> QED
  BY <1>1, <1>2, <1>3, <1>4, <1>5, <1>6

-----------------------------------------------------------------------------
(* What the Exchange says arrives in its order *)

\* A note goes to the end of a producer's queue.
LEMMA EnqueueAppends ==
    ASSUME IInv, NEW p \in {"sock", "exchange"}, NEW c, NEW note, Enqueue(p, c, note)
    PROVE  /\ NotesOf(brokerBound'[p]) = Append(NotesOf(brokerBound[p]), note)
           /\ \A q \in {"sock", "exchange"} : q # p => brokerBound'[q] = brokerBound[q]
<1>1. PICK m : m = [to |-> c, note |-> note]
  OBVIOUS
<1>2. PICK queue \in Seq(Mail) : queue = brokerBound[p]
  BY DEF IInv, Post
<1>3. /\ brokerBound'[p] = Append(queue, m)
      /\ \A q \in {"sock", "exchange"} : q # p => brokerBound'[q] = brokerBound[q]
  BY <1>1, <1>2 DEF Enqueue, IInv, Post
<1>4. PICK T : T = Mail \cup {m}
  OBVIOUS
<1>5. queue \in Seq(T) /\ m \in T
  BY <1>2, <1>4, LargerSeq
<1>6. \A n \in T : n.note \in Notes \cup {note}
  BY <1>1, <1>4 DEF Mail, Notes
<1>7. NotesOf(Append(queue, m)) = Append(NotesOf(queue), m.note)
  BY <1>5, <1>6, NotesOfQueue
<1> QED
  BY <1>1, <1>2, <1>3, <1>7

\* SendToBroker takes the first note of a queue and gives it to its connection, or
\* drops it when the broker has left.
LEMMA SendTakes ==
    ASSUME IInv, DInv, NEW p \in {"sock", "exchange"}, SendToBroker(p)
    PROVE  \E c \in Cxns : \E note \in NotesFor(c) :
              /\ NotesOf(brokerBound[p]) # <<>> /\ note = Head(NotesOf(brokerBound[p]))
              /\ NotesOf(brokerBound'[p]) = Tail(NotesOf(brokerBound[p]))
              /\ \A q \in {"sock", "exchange"} : q # p => brokerBound'[q] = brokerBound[q]
              /\ \/ ~Closed(c) /\ received' = [received EXCEPT ![c] = Append(@, note)]
                 \/ Closed(c) /\ UNCHANGED received
<1>1. /\ brokerBound[p] # <<>> /\ brokerBound[p] \in Seq(Mail)
      /\ brokerBound' = [brokerBound EXCEPT ![p] = Tail(@)]
      /\ brokerBound \in [{"sock", "exchange"} -> Seq(Mail)]
  BY DEF IInv, Post, SendToBroker
<1>2. PICK queue \in Seq(Mail) : queue = brokerBound[p]
  BY <1>1
<1>3. PICK mail \in Mail : mail = Head(brokerBound[p]) /\ mail = Head(queue)
  BY <1>1, <1>2
<1>4. PICK c \in Cxns : c = mail.to
  BY DEF Mail
<1>5. PICK note \in NotesFor(c) : note = mail.note
  BY <1>4 DEF Mail
<1>6. /\ brokerBound'[p] = Tail(queue)
      /\ \A q \in {"sock", "exchange"} : q # p => brokerBound'[q] = brokerBound[q]
  BY <1>1, <1>2
<1>7. \A m \in Mail : m.note \in Notes
  BY DEF Mail, Notes
<1>8. /\ NotesOf(queue) # <<>> /\ NotesOf(Tail(queue)) = Tail(NotesOf(queue))
      /\ note = Head(NotesOf(queue))
  BY <1>1, <1>2, <1>3, <1>5, <1>7, NotesOfQueue
<1>9. \/ peer[c] = "open" /\ received' = [received EXCEPT ![c] = Append(@, note)]
      \/ peer[c] \in {"closed", "reset", "dead"} /\ UNCHANGED received
  BY <1>3, <1>4, <1>5 DEF SendToBroker
<1>10. \/ ~Closed(c) /\ received' = [received EXCEPT ![c] = Append(@, note)]
       \/ Closed(c) /\ UNCHANGED received
  BY <1>9 DEF Closed
<1> QED
  BY <1>2, <1>6, <1>8, <1>10

\* A step that moves no note and accepts no order.
LEMMA AheadFrame ==
    ASSUME IInv, DInv, NEW id \in Ids, id \notin lost,
           UNCHANGED <<received, toServer, known, placed>>, Relayed' = Relayed,
           \A c \in Cxns : Closed(c) => Closed(c)'
    PROVE  Ahead(id)'
<1>1. PICK c \in Cxns : c = PlacedBy(id[2]) /\ PlacedBy(id[2])' = c
  BY Places DEF PlacedBy
<1>2. Ahead(id)
  BY DEF DInv
<1> QED
  BY <1>1, <1>2 DEF Ahead, Later

\* A report of id: its first is the acceptance, and the others follow.
LEMMA AheadReport ==
    ASSUME IInv, DInv, NEW id \in Ids, id \notin lost', NEW x \in Ids,
           NEW kind \in {"Accepted", "Fill", "CancelOk", "CancelFailed"},
           Report(kind, x), kind # "Accepted" => x \in known,
           known' = known \/ (kind = "Accepted" /\ known' = known \cup {x}),
           UNCHANGED <<received, brokerBound, placed>>, \A c \in Cxns : Closed(c) => Closed(c)'
    PROVE  Ahead(id)'
<1>1. PICK c \in Cxns : c = PlacedBy(id[2]) /\ PlacedBy(id[2])' = c
  BY Places DEF PlacedBy
<1>2. lost \subseteq lost' /\ id \notin lost
  BY DEF Report
<1>3. Ahead(id)
  BY <1>2 DEF DInv
<1>4. PICK R \in Seq(Notes) : R = received[c] /\ received'[c] = R
  BY Places
<1>5. PICK X \in Seq(Notes) : X = Relayed /\ Relayed' = X
  BY Places DEF Relayed, NotesOf
<1>6. PICK S \in Seq(Notes) : S = toServer
  BY Places
<1>7. PICK a : a = Note("Accepted", id)
  OBVIOUS
<1>8. PICK L : L = Later(id)
  OBVIOUS
<1>9. PICK y \in Notes : y = Note(kind, x)
  BY Places DEF Note, Notes, NoteKinds
<1>10. /\ Preceded(R, a, L, {})
       /\ ~Closed(c) => Chain(R, X, S, a, L)
       /\ ~Closed(c) /\ id \in known => a \in ToSet(R) \cup ToSet(X) \cup ToSet(S)
  BY <1>1, <1>3, <1>4, <1>5, <1>6, <1>7, <1>8 DEF Ahead
<1>11. /\ y \in L => id \in known
       /\ id \in known' /\ id \notin known => y = a
  BY <1>7, <1>8, <1>9 DEF Later, Note
<1>12. CASE toServer' = Append(S, y)
  <2>1. ToSet(Append(S, y)) = ToSet(S) \cup {y}
    BY AppendedTo
  <2>2. ASSUME ~Closed(c)
        PROVE  /\ Chain(R, X, Append(S, y), a, L)
               /\ id \in known' => a \in ToSet(R) \cup ToSet(X) \cup ToSet(Append(S, y))
    <3>1. Chain(R, X, Append(S, y), a, L)
      BY <1>10, <1>11, <2>2, ChainReport
    <3> QED
      BY <1>10, <1>11, <2>1, <2>2, <3>1
  <2> QED
    BY <1>1, <1>4, <1>5, <1>7, <1>8, <1>10, <1>12, <2>2 DEF Ahead, Later
<1>13. CASE UNCHANGED toServer /\ lost' = lost \cup {x}
  <2>1. id # x
    BY <1>13
  <2>2. id \in known' => id \in known
    BY <2>1
  <2> QED
    BY <1>1, <1>4, <1>5, <1>6, <1>7, <1>8, <1>10, <1>13, <2>2 DEF Ahead, Later
<1> QED
  BY <1>6, <1>9, <1>12, <1>13 DEF Report

\* The report at the head of the ring is relayed, or its broker has left.
LEMMA AheadRelay ==
    ASSUME EnoughIds, IInv, DInv, NEW id \in Ids, id \notin lost, Relay,
           \A c \in Cxns : Closed(c) => Closed(c)'
    PROVE  Ahead(id)'
<1> USE DEF brokerVars, sockVars, sessionVars, orderVars, ringVars, exchangeVars
<1>0. /\ toServer # <<>> /\ toServer' = Tail(toServer)
      /\ Notify("exchange", Head(toServer).kind, Head(toServer).subject)
      /\ UNCHANGED <<received, known, placed>>
  BY DEF Relay, RelayedBy, Taken
<1>1. PICK c \in Cxns : c = PlacedBy(id[2]) /\ PlacedBy(id[2])' = c
  BY <1>0, Places DEF PlacedBy
<1>3. Ahead(id)
  BY DEF DInv
<1>4. PICK R \in Seq(Notes) : R = received[c] /\ received'[c] = R
  BY <1>0, Places
<1>5. PICK X \in Seq(Notes) : X = Relayed
  BY Places
<1>6. PICK S \in Seq(Notes) : S = toServer /\ toServer \in Seq(Reports)
  BY Places DEF IInv, Rings
<1>7. PICK a : a = Note("Accepted", id)
  OBVIOUS
<1>8. PICK L : L = Later(id)
  OBVIOUS
<1>9. PICK h \in Reports : h = Head(S) /\ h = Head(toServer)
  BY <1>0, <1>6
<1>10. /\ Preceded(R, a, L, {})
       /\ ~Closed(c) => Chain(R, X, S, a, L)
       /\ ~Closed(c) /\ id \in known => a \in ToSet(R) \cup ToSet(X) \cup ToSet(S)
  BY <1>1, <1>3, <1>4, <1>5, <1>6, <1>7, <1>8 DEF Ahead
<1>11. h = Note(h.kind, h.subject) /\ h.subject \in Ids
  BY DEF Reports, Note
<1>12. CASE sessions[h.subject[1]] = NoCxn
  <2>1. UNCHANGED brokerBound
    BY <1>0, <1>9, <1>12 DEF Notify
  <2>2. Relayed' = X
    BY <1>5, <2>1 DEF Relayed, NotesOf
  <2>3. CASE h.subject = id
    <3>1. id[1] \in SessionIds /\ id[1] = SessionFor(c) /\ id[2] \in 1 .. totalOrders
      BY <1>1, Places
    <3>2. c \in 1 .. allTimeCxns
      BY <1>1, <3>1 DEF DInv, SessionsKept, Cxns, IInv, Sessions
    <3>3. Closed(c)
      BY <1>12, <2>3, <3>1, <3>2 DEF DInv, SessionsKept, NoCxn
    <3> QED
      BY <1>1, <1>4, <1>7, <1>8, <1>10, <3>3 DEF Ahead, Later
  <2>4. CASE h.subject # id
    <3>1. Head(S) # a
      BY <1>7, <1>9, <2>4 DEF Note
    <3>2. ToSet(S) = {Head(S)} \cup ToSet(Tail(S)) /\ S # <<>>
      BY <1>0, <1>6, TailOf
    <3>3. ~Closed(c) => Chain(R, X, Tail(S), a, L)
      BY <1>10, <3>1, <3>2, ChainOther
    <3> QED
      BY <1>0, <1>1, <1>4, <1>6, <1>7, <1>8, <1>10, <2>2, <3>1, <3>2, <3>3 DEF Ahead, Later
  <2> QED
    BY <2>3, <2>4
<1>13. CASE sessions[h.subject[1]] # NoCxn
  <2>1. Enqueue("exchange", sessions[h.subject[1]], Note(h.kind, h.subject))
    BY <1>0, <1>9, <1>13 DEF Notify
  <2>2. Relayed' = Append(X, h)
    BY <1>5, <1>11, <2>1, EnqueueAppends DEF Relayed
  <2>3. S # <<>> /\ ToSet(S) = {h} \cup ToSet(Tail(S)) /\ ToSet(Append(X, h)) = ToSet(X) \cup {h}
    BY <1>0, <1>6, <1>9, TailOf, AppendedTo
  <2>4. ~Closed(c) => Chain(R, Append(X, h), Tail(S), a, L)
    BY <1>9, <1>10, <2>3, ChainRelay
  <2> QED
    BY <1>0, <1>1, <1>4, <1>6, <1>7, <1>8, <1>10, <2>2, <2>3, <2>4 DEF Ahead, Later
<1> QED
  BY <1>12, <1>13

\* A note is sent, or dropped when its broker has left.
LEMMA AheadSend ==
    ASSUME IInv, DInv, NEW id \in Ids, id \notin lost,
           NEW p \in {"sock", "exchange"}, SendToBroker(p), \A c \in Cxns : Closed(c) => Closed(c)'
    PROVE  Ahead(id)'
<1> USE DEF brokerVars, sockVars, sessionVars, orderVars, ringVars, exchangeVars
<1>0. UNCHANGED <<toServer, known, placed>>
  BY DEF SendToBroker
<1>1. PICK c \in Cxns : c = PlacedBy(id[2]) /\ PlacedBy(id[2])' = c
  BY <1>0, Places DEF PlacedBy
<1>d. PICK d \in Cxns : \E n \in NotesFor(d) :
              /\ NotesOf(brokerBound[p]) # <<>> /\ n = Head(NotesOf(brokerBound[p]))
              /\ NotesOf(brokerBound'[p]) = Tail(NotesOf(brokerBound[p]))
              /\ \A q \in {"sock", "exchange"} : q # p => brokerBound'[q] = brokerBound[q]
              /\ \/ ~Closed(d) /\ received' = [received EXCEPT ![d] = Append(@, n)]
                 \/ Closed(d) /\ UNCHANGED received
  BY SendTakes
<1>2. PICK note \in NotesFor(d) :
              /\ NotesOf(brokerBound[p]) # <<>> /\ note = Head(NotesOf(brokerBound[p]))
              /\ NotesOf(brokerBound'[p]) = Tail(NotesOf(brokerBound[p]))
              /\ \A q \in {"sock", "exchange"} : q # p => brokerBound'[q] = brokerBound[q]
              /\ \/ ~Closed(d) /\ received' = [received EXCEPT ![d] = Append(@, note)]
                 \/ Closed(d) /\ UNCHANGED received
  BY <1>d
<1>3. Ahead(id)
  BY DEF DInv
<1>4. PICK R \in Seq(Notes) : R = received[c]
  BY Places
<1>5. PICK X \in Seq(Notes) : X = Relayed
  BY Places
<1>6. PICK S \in Seq(Notes) : S = toServer /\ toServer' = S
  BY <1>0, Places
<1>7. PICK a : a = Note("Accepted", id)
  OBVIOUS
<1>8. PICK L : L = Later(id)
  OBVIOUS
<1>9. /\ Preceded(R, a, L, {})
      /\ ~Closed(c) => Chain(R, X, S, a, L)
      /\ ~Closed(c) /\ id \in known => a \in ToSet(R) \cup ToSet(X) \cup ToSet(S)
  BY <1>1, <1>3, <1>4, <1>5, <1>6, <1>7, <1>8 DEF Ahead
<1>10. note \in Notes
  BY DEF NotesFor, Notes
<1>11. note \in L \cup {a} =>
          note.subject = id /\ note.kind \in {"Accepted", "Fill", "CancelOk", "CancelFailed"}
  BY <1>7, <1>8 DEF Later, Note
<1>r. \/ received'[c] = R
      \/ d = c /\ ~Closed(c) /\ received'[c] = Append(R, note)
  BY <1>2, <1>4 DEF IInv, Post
<1>12. CASE p = "exchange" /\ note \in L \cup {a}
  <2>1. d = c
    BY <1>1, <1>11, <1>12 DEF NotesFor
  <2>2. Relayed' = Tail(X) /\ X # <<>> /\ note = Head(X)
    BY <1>2, <1>5, <1>12 DEF Relayed
  <2>3. CASE Closed(c)
    <3>1. received'[c] = R /\ Closed(c)'
      BY <1>2, <1>4, <2>1, <2>3
    <3> QED
      BY <1>1, <1>7, <1>8, <1>9, <3>1 DEF Ahead, Later
  <2>4. CASE ~Closed(c)
    <3>1. received'[c] = Append(R, note)
      BY <1>2, <1>4, <2>1, <2>4 DEF IInv, Post
    <3>2. Chain(Append(R, note), Tail(X), S, a, L)
      BY <1>9, <2>2, <2>4, ChainSend
    <3>3. ToSet(Append(R, note)) = ToSet(R) \cup {note} /\ ToSet(X) = {note} \cup ToSet(Tail(X))
      BY <1>10, <2>2, AppendedTo, TailOf
    <3>4. Preceded(Append(R, note), a, L, {})
      BY <3>2 DEF Chain
    <3> QED
      BY <1>0, <1>1, <1>6, <1>7, <1>8, <1>9, <2>2, <2>4, <3>1, <3>2, <3>3, <3>4 DEF Ahead, Later
  <2> QED
    BY <2>3, <2>4
<1>13. CASE note \notin L \cup {a}
  <2>1. PICK Y \in Seq(Notes) : /\ Relayed' = Y
                                /\ Y = X \/ (X # <<>> /\ note = Head(X) /\ Y = Tail(X))
    <3>1. CASE p = "exchange"
      <4>1. Relayed' = Tail(X) /\ X # <<>> /\ note = Head(X)
        BY <1>2, <1>5, <3>1 DEF Relayed
      <4> QED
        BY <1>5, <4>1, TailOf
    <3>2. CASE p = "sock"
      BY <1>2, <1>5, <3>2 DEF Relayed
    <3> QED
      BY <3>1, <3>2
  <2>2. ToSet(Y) \cup {note} = ToSet(X) \cup {note}
    BY <2>1, TailOf
  <2>3. Chain(R, X, S, a, L) => Chain(R, Y, S, a, L)
    BY <1>13, <2>1, ChainOther
  <2>4. Chain(R, Y, S, a, L) => Chain(Append(R, note), Y, S, a, L)
    BY <1>10, <1>13, ChainOther
  <2>5. ToSet(Append(R, note)) = ToSet(R) \cup {note}
    BY <1>10, AppendedTo
  <2>6. Preceded(Append(R, note), a, L, {})
    BY <1>9, <1>13, PrecededAppend
  <2>7. PICK Q \in {R, Append(R, note)} : Q = received'[c]
    BY <1>r
  <2>8. Preceded(Q, a, L, {}) /\ (~Closed(c) => Chain(Q, Y, S, a, L))
    BY <1>9, <2>3, <2>4, <2>6, <2>7
  <2>9. ~Closed(c) /\ id \in known => a \in ToSet(Q) \cup ToSet(Y) \cup ToSet(S)
    BY <1>9, <1>13, <2>2, <2>5, <2>7
  <2> QED
    BY <1>0, <1>1, <1>6, <1>7, <1>8, <2>1, <2>7, <2>8, <2>9 DEF Ahead, Later
<1>14. CASE p = "sock"
  <2>1. NotesOf(brokerBound[p]) \in Seq(Notes)
    BY <1>14, Places DEF Replies
  <2>2. note \in ToSet(Replies)
    BY <1>2, <1>14, <2>1, TailOf DEF Replies
  <2>3. note.kind \in {"Ack", "Reject"}
    BY <2>2 DEF DInv, Producers
  <2> QED
    BY <1>11, <1>13, <2>3
<1> QED
  BY <1>12, <1>13, <1>14

\* A new number: nothing has been said of it.
LEMMA AheadNew ==
    ASSUME IInv, IInv', DInv, NEW id, id \in Ids', id \notin Ids, NEW t \in PoolThreads,
           TakeSockMsg(t)
    PROVE  Ahead(id)'
<1> USE DEF brokerVars, sockVars, sessionVars, orderVars, ringVars, exchangeVars
<1>1. UNCHANGED <<received, toServer, known>> /\ id \notin known
  BY DEF TakeSockMsg, IInv, Books
<1>2. \A n \in Notes : n \in Later(id) =>
          n.subject = id /\ n.kind \in {"Fill", "CancelOk", "CancelFailed"}
  BY DEF Later, Note
<1>3. ASSUME NEW c, c \in Cxns, NEW j \in DOMAIN received[c] PROVE received[c][j] \notin Later(id)
  <2>1. received[c][j] \in NotesFor(c)
    BY <1>3 DEF IInv, Post
  <2> QED
    BY <1>2, <2>1 DEF NotesFor, Notes
<1>4. ASSUME NEW j \in DOMAIN toServer PROVE toServer[j] \notin Later(id)
  <2>1. toServer[j] \in Reports
    BY DEF IInv, Rings
  <2> QED
    BY <2>1 DEF Reports, Later, Note
<1>5. ASSUME NEW j \in DOMAIN Relayed' PROVE Relayed'[j] \notin Later(id)
  <2>1. Relayed' = Relayed
    BY EnqueueAppends DEF TakeSockMsg, Relayed
  <2>2. /\ brokerBound["exchange"] \in Seq(Mail) /\ j \in DOMAIN brokerBound["exchange"]
        /\ Relayed[j] = brokerBound["exchange"][j].note
    BY <1>5, <2>1 DEF Relayed, NotesOf, IInv, Post
  <2>3. PICK m \in Mail : m = brokerBound["exchange"][j]
    BY <2>2
  <2>4. m.note \in NotesFor(m.to)
    BY DEF Mail
  <2> QED
    BY <1>2, <2>1, <2>2, <2>3, <2>4 DEF NotesFor, Notes
<1>6. PlacedBy(id[2])' \in Cxns
  BY ServerAssumption DEF IInv, Numbers, Ids, OrderId, OrderNums
<1>7. PICK c \in Cxns : c = PlacedBy(id[2])'
  BY <1>6
<1>8. /\ Preceded(received[c], Note("Accepted", id), Later(id), {})
      /\ Chain(received[c], Relayed', toServer, Note("Accepted", id), Later(id))
  BY <1>3, <1>4, <1>5 DEF Preceded, Chain
<1> QED
  BY <1>1, <1>7, <1>8 DEF Ahead, Later

LEMMA NextProducers ==
    ASSUME IInv, DInv, [Next]_vars
    PROVE  Producers' /\ live' \cup unreported' \subseteq known'
<1> USE DEF vars, brokerVars, sockVars, sessionVars, orderVars, ringVars, exchangeVars
<1>k. /\ \A note \in ToSet(Relayed) : note.kind \in {"Accepted", "Fill", "CancelOk", "CancelFailed"}
      /\ \A note \in ToSet(Replies) : note.kind \in {"Ack", "Reject"}
      /\ live \cup unreported \subseteq known
      /\ Relayed \in Seq(Notes) /\ Replies \in Seq(Notes)
  BY Places DEF DInv, Producers
<1>1. ASSUME UNCHANGED brokerBound PROVE Producers'
  BY <1>1, <1>k DEF Producers, Relayed, Replies, NotesOf
<1>2. ASSUME NEW c, NEW note \in Notes, note.kind \in {"Ack", "Reject"}, Enqueue("sock", c, note)
      PROVE  Producers'
  <2>1. Replies' = Append(Replies, note) /\ Relayed' = Relayed
    BY <1>2, EnqueueAppends DEF Replies, Relayed
  <2>2. PICK s : s = Append(Replies, note)
    OBVIOUS
  <2>3. ToSet(s) = ToSet(Replies) \cup {note}
    BY <1>k, <2>2, AppendedTo
  <2> QED
    BY <1>2, <1>k, <2>1, <2>2, <2>3 DEF Producers
<1>3. ASSUME NEW c, NEW note \in Notes,
             note.kind \in {"Accepted", "Fill", "CancelOk", "CancelFailed"},
             Enqueue("exchange", c, note)
      PROVE  Producers'
  <2>1. Relayed' = Append(Relayed, note) /\ Replies' = Replies
    BY <1>3, EnqueueAppends DEF Replies, Relayed
  <2>2. PICK s : s = Append(Relayed, note)
    OBVIOUS
  <2>3. ToSet(s) = ToSet(Relayed) \cup {note}
    BY <1>k, <2>2, AppendedTo
  <2> QED
    BY <1>3, <1>k, <2>1, <2>2, <2>3 DEF Producers
<1>4. ASSUME NEW t \in PoolThreads, TakeSockMsg(t) PROVE Producers'
  <2>1. sockQueue[t] # <<>> /\ sockQueue[t] \in Seq(Requests)
    BY <1>4 DEF TakeSockMsg, IInv, Incoming
  <2>2. PICK r \in Requests : r = Head(sockQueue[t])
    BY <2>1
  <2>n. Note("Reject", <<r.cxn, r.seq>>) \in Notes
    BY DEF Note, Notes, NoteKinds, Requests, Cxns
  <2>3. PICK n \in Notes : n = Note("Reject", <<r.cxn, r.seq>>)
    BY <2>n
  <2>4. UNCHANGED brokerBound \/ Enqueue("sock", r.cxn, n)
    BY <1>4, <2>2, <2>3 DEF TakeSockMsg
  <2>5. n.kind = "Reject"
    BY <2>3 DEF Note
  <2> QED
    BY <1>1, <1>2, <2>4, <2>5
<1>5. ASSUME Acknowledge PROVE Producers'
  <2>1. PICK id \in Ids : id = cur[1].id
    BY <1>5 DEF Acknowledge, IInv, Thread, Settled
  <2>2. PICK n \in Notes : n = Note("Ack", id)
    BY Places DEF Note, Notes, NoteKinds
  <2>3. Notify("sock", "Ack", id)
    BY <1>5, <2>1 DEF Acknowledge
  <2>c. PICK c : c = sessions[id[1]]
    OBVIOUS
  <2>4. UNCHANGED brokerBound \/ Enqueue("sock", c, n)
    BY <2>2, <2>3, <2>c DEF Notify
  <2>5. n.kind = "Ack"
    BY <2>2 DEF Note
  <2> QED
    BY <1>1, <1>2, <2>4, <2>5
<1>6. ASSUME Relay PROVE Producers'
  <2>1. toServer # <<>> /\ Notify("exchange", Head(toServer).kind, Head(toServer).subject)
    BY <1>6 DEF Relay, RelayedBy
  <2>2. PICK h \in Reports : h = Head(toServer)
    BY <2>1 DEF IInv, Rings
  <2>3. PICK n \in Notes : n = Note(h.kind, h.subject) /\ n.kind = h.kind
    BY Places DEF Note, Notes, NoteKinds, Reports
  <2>4. n.kind \in {"Accepted", "Fill", "CancelOk", "CancelFailed"}
        /\ Notify("exchange", h.kind, h.subject)
    BY <2>1, <2>2, <2>3 DEF Reports
  <2>c. PICK c : c = sessions[h.subject[1]]
    OBVIOUS
  <2>5. UNCHANGED brokerBound \/ Enqueue("exchange", c, n)
    BY <2>3, <2>4, <2>c DEF Notify
  <2> QED
    BY <1>1, <1>3, <2>4, <2>5
<1>7. ASSUME NEW p \in {"sock", "exchange"}, SendToBroker(p) PROVE Producers'
  <2>1. PICK c \in Cxns : \E note \in NotesFor(c) :
              /\ NotesOf(brokerBound[p]) # <<>> /\ note = Head(NotesOf(brokerBound[p]))
              /\ NotesOf(brokerBound'[p]) = Tail(NotesOf(brokerBound[p]))
              /\ \A q \in {"sock", "exchange"} : q # p => brokerBound'[q] = brokerBound[q]
    BY <1>7, SendTakes
  <2>2. /\ \/ Relayed' = Relayed
           \/ Relayed # <<>> /\ Relayed' = Tail(Relayed)
        /\ \/ Replies' = Replies
           \/ Replies # <<>> /\ Replies' = Tail(Replies)
    BY <2>1 DEF Relayed, Replies
  <2>3. /\ Relayed # <<>> => ToSet(Tail(Relayed)) \subseteq ToSet(Relayed)
        /\ Replies # <<>> => ToSet(Tail(Replies)) \subseteq ToSet(Replies)
    BY <1>k, TailOf
  <2>4. PICK x : x = Relayed'
    OBVIOUS
  <2>5. PICK s : s = Replies'
    OBVIOUS
  <2>6. ToSet(x) \subseteq ToSet(Relayed) /\ ToSet(s) \subseteq ToSet(Replies)
    BY <2>2, <2>3, <2>4, <2>5
  <2> QED
    BY <1>k, <2>4, <2>5, <2>6 DEF Producers
<1>8. /\ \A c \in Cxns : Connect(c) \/ Leave(c) \/ NewConnection(c) => UNCHANGED brokerBound
      /\ \A c \in Cxns : \A kind, num : SendRequest(c, kind, num) => UNCHANGED brokerBound
      /\ \A c \in Cxns : ReadSocket(c) => UNCHANGED brokerBound
      /\ Forward \/ SetOpen \/ Exchange \/ UNCHANGED vars => UNCHANGED brokerBound
      /\ \A id \in known : ExchangeFills(id) => UNCHANGED brokerBound
  BY Zenon DEF Connect, Leave, NewConnection, SendRequest, ReadSocket, Receive, Disconnect,
     ReceiveError, Forward, SetOpen, Exchange, ExchangeAccepts, ExchangeCancels, ExchangeFills
<1>9. DOMAIN brokerBound = {"sock", "exchange"}
  BY DEF IInv, Post
<1>10. Producers'
  BY <1>1, <1>4, <1>5, <1>6, <1>7, <1>8, <1>9 DEF Next, Brokers, SockThread, SendThread
<1>11. live' \cup unreported' \subseteq known'
  <2>1. \/ UNCHANGED <<live, unreported, known>>
        \/ \E id : /\ known' = known \cup {id} /\ live' = live \cup {id}
                   /\ unreported' = unreported \cup {id}
        \/ known' = known /\ live' \subseteq live /\ unreported' \subseteq unreported
    <3>1. ASSUME ExchangeAccepts
          PROVE  \E id : /\ known' = known \cup {id} /\ live' = live \cup {id}
                         /\ unreported' = unreported \cup {id}
      BY <3>1 DEF ExchangeAccepts
    <3>2. ASSUME ExchangeCancels
          PROVE  known' = known /\ live' \subseteq live /\ unreported' \subseteq unreported
      BY <3>2 DEF ExchangeCancels
    <3>3. ASSUME NEW id \in known, ExchangeFills(id)
          PROVE  known' = known /\ live' \subseteq live /\ unreported' \subseteq unreported
      BY <3>3 DEF ExchangeFills
    <3>4. /\ \A c \in Cxns : Connect(c) \/ Leave(c) \/ NewConnection(c) => UNCHANGED exchangeVars
          /\ \A c \in Cxns : \A kind, num : SendRequest(c, kind, num) => UNCHANGED exchangeVars
          /\ \A c \in Cxns : ReadSocket(c) => UNCHANGED exchangeVars
          /\ \A t \in PoolThreads : TakeSockMsg(t) => UNCHANGED exchangeVars
          /\ Forward \/ Acknowledge \/ SetOpen \/ Relay \/ UNCHANGED vars => UNCHANGED exchangeVars
          /\ \A p : SendToBroker(p) => UNCHANGED exchangeVars
      BY Zenon DEF Connect, Leave, NewConnection, SendRequest, ReadSocket, Receive, Disconnect,
         ReceiveError, TakeSockMsg, Forward, Acknowledge, SetOpen, Relay, SendToBroker
    <3> QED
      BY <3>1, <3>2, <3>3, <3>4 DEF Next, Brokers, SockThread, SendThread, Exchange
  <2> QED
    BY <1>k, <2>1
<1> QED
  BY <1>10, <1>11

LEMMA NextAhead ==
    ASSUME EnoughIds, IInv, IInv', DInv, [Next]_vars, NEW id, id \in Ids', id \notin lost'
    PROVE  Ahead(id)'
<1> USE DEF vars, brokerVars, sockVars, sessionVars, orderVars, ringVars, exchangeVars
<1>1. \A c \in Cxns : Closed(c) => Closed(c)'
  BY ClosedStays
<1>k. DOMAIN brokerBound = {"sock", "exchange"} /\ live \subseteq known
      /\ unreported \subseteq known
      /\ known \subseteq Ids
  BY DEF IInv, Post, Books, DInv
<1>2. ASSUME UNCHANGED <<totalOrders, placed, lost, toServer, known, received>>, Relayed' = Relayed
      PROVE  Ahead(id)'
  <2>1. id \in Ids /\ id \notin lost
    BY <1>2 DEF Ids, PlacedBy
  <2> QED
    BY <1>1, <1>2, <2>1, AheadFrame
<1>3. ASSUME UNCHANGED brokerBound PROVE Relayed' = Relayed
  BY <1>3 DEF Relayed, NotesOf
<1>4. ASSUME UNCHANGED <<totalOrders, placed>>, lost \subseteq lost'
      PROVE  id \in Ids /\ id \notin lost
  BY <1>4 DEF Ids, PlacedBy
<1>5. ASSUME NEW t \in PoolThreads, TakeSockMsg(t) PROVE Ahead(id)'
  <2>1. UNCHANGED <<lost, toServer, known, received>>
    BY <1>5 DEF TakeSockMsg
  <2>2. Relayed' = Relayed
    BY <1>5, EnqueueAppends DEF TakeSockMsg, Relayed
  <2>3. CASE UNCHANGED <<totalOrders, placed>>
    BY <1>2, <2>1, <2>2, <2>3
  <2>4. CASE id \in Ids
    <3>1. PlacedBy(id[2])' = PlacedBy(id[2])
      <4>1. \/ placed' = placed
            \/ totalOrders' = totalOrders + 1
               /\ \E x : placed' = [placed EXCEPT ![totalOrders'] = x]
        BY <1>5, Zenon DEF TakeSockMsg
      <4>2. id[2] \in 1 .. totalOrders /\ totalOrders \in Nat
        BY <2>4, Places DEF IInv, Numbers
      <4>3. placed \in [OrderNums -> (Cxns \cup {NoCxn}) \X Nat] /\ id[2] \in OrderNums
        BY <2>4 DEF IInv, Numbers, Ids, OrderId
      <4> QED
        BY <4>1, <4>2, <4>3 DEF PlacedBy
    <3>2. PICK c \in Cxns : c = PlacedBy(id[2]) /\ PlacedBy(id[2])' = c
      BY <2>4, <3>1, Places
    <3>3. Ahead(id)
      BY <2>1, <2>4 DEF DInv
    <3> QED
      BY <1>1, <2>1, <2>2, <3>2, <3>3 DEF Ahead, Later
  <2>5. CASE id \notin Ids
    BY <1>5, <2>5, AheadNew
  <2> QED
    BY <2>4, <2>5
<1>6. CASE ExchangeAccepts
  <2>1. /\ toExchange # <<>> /\ Head(toExchange).kind = "order"
        /\ known' = known \cup {Head(toExchange).id} /\ Report("Accepted", Head(toExchange).id)
        /\ UNCHANGED <<received, brokerBound, placed, totalOrders>>
    BY <1>6 DEF ExchangeAccepts
  <2>2. PICK m \in Msgs : m = Head(toExchange)
    BY <2>1 DEF IInv, Rings
  <2>3. PICK x \in Ids : x = m.id
    BY <2>1, <2>2 DEF Msgs
  <2>4. lost \subseteq lost'
    BY <2>1 DEF Report
  <2>5. id \in Ids
    BY <1>4, <2>1, <2>4
  <2>6. Report("Accepted", x) /\ known' = known \cup {x}
    BY <2>1, <2>2, <2>3
  <2> QED
    BY <1>1, <2>1, <2>5, <2>6, AheadReport
<1>7. CASE ExchangeCancels
  <2>1. /\ UNCHANGED <<received, brokerBound, placed, totalOrders, known>>
        /\ \/ UNCHANGED <<live, toServer, lost>>
           \/ Head(toExchange).id \in live /\ Report("CancelOk", Head(toExchange).id)
           \/ Head(toExchange).id \in known /\ Report("CancelFailed", Head(toExchange).id)
    BY <1>7 DEF ExchangeCancels
  <2>2. PICK x : x = Head(toExchange).id
    OBVIOUS
  <2>3. lost \subseteq lost'
    BY <2>1 DEF Report
  <2>4. id \in Ids
    BY <1>4, <2>1, <2>3
  <2>5. CASE UNCHANGED <<toServer, lost>>
    BY <1>2, <1>3, <2>1, <2>5
  <2>6. CASE x \in known /\ (Report("CancelOk", x) \/ Report("CancelFailed", x))
    <3>1. x \in Ids
      BY <1>k, <2>6
    <3> QED
      BY <1>1, <2>1, <2>4, <2>6, <3>1, AheadReport
  <2> QED
    BY <1>k, <2>1, <2>2, <2>5, <2>6
<1>8. ASSUME NEW x \in known, ExchangeFills(x) PROVE Ahead(id)'
  <2>1. /\ UNCHANGED <<received, brokerBound, placed, totalOrders, known>>
        /\ Report("Fill", x)
    BY <1>8 DEF ExchangeFills
  <2>2. lost \subseteq lost'
    BY <2>1 DEF Report
  <2>3. id \in Ids /\ x \in Ids
    BY <1>4, <1>k, <2>1, <2>2
  <2> QED
    BY <1>1, <2>1, <2>3, AheadReport
<1>9. CASE Relay
  <2>1. UNCHANGED <<totalOrders, placed, lost>>
    BY <1>9 DEF Relay
  <2> QED
    BY <1>1, <1>4, <1>9, <2>1, AheadRelay
<1>10. ASSUME NEW p \in {"sock", "exchange"}, SendToBroker(p) PROVE Ahead(id)'
  <2>1. UNCHANGED <<totalOrders, placed, lost>>
    BY <1>10 DEF SendToBroker
  <2> QED
    BY <1>1, <1>4, <1>10, <2>1, AheadSend
<1>11. CASE Forward
  <2>1. UNCHANGED <<totalOrders, placed, toServer, known, received, brokerBound>>
        /\ lost \subseteq lost'
    BY <1>11 DEF Forward
  <2> QED
    BY <1>1, <1>3, <1>4, <2>1, AheadFrame
<1>12. CASE Acknowledge
  <2>1. UNCHANGED <<totalOrders, placed, lost, toServer, known, received>>
    BY <1>12 DEF Acknowledge
  <2>2. PICK n : n = cur[1].id
    OBVIOUS
  <2>3. Notify("sock", "Ack", n)
    BY <1>12, <2>2 DEF Acknowledge
  <2>4. Relayed' = Relayed
    BY <2>3, EnqueueAppends DEF Notify, Relayed
  <2> QED
    BY <1>2, <2>1, <2>4
<1>13. ASSUME UNCHANGED <<totalOrders, placed, lost, toServer, known, received, brokerBound>>
       PROVE  Ahead(id)'
  BY <1>2, <1>3, <1>13
<1>14. /\ \A c \in Cxns : Connect(c) \/ Leave(c) \/ NewConnection(c) \/ ReadSocket(c) => Ahead(id)'
       /\ \A c \in Cxns : \A kind, num : SendRequest(c, kind, num) => Ahead(id)'
       /\ SetOpen \/ UNCHANGED vars => Ahead(id)'
  <2>1. /\ \A c \in Cxns : Connect(c) \/ Leave(c) \/ NewConnection(c) \/ ReadSocket(c)
               => UNCHANGED <<totalOrders, placed, lost, toServer, known, received, brokerBound>>
        /\ \A c \in Cxns : \A kind, num : SendRequest(c, kind, num)
               => UNCHANGED <<totalOrders, placed, lost, toServer, known, received, brokerBound>>
        /\ SetOpen \/ UNCHANGED vars
               => UNCHANGED <<totalOrders, placed, lost, toServer, known, received, brokerBound>>
    BY Zenon DEF Connect, Leave, NewConnection, SendRequest, ReadSocket, Receive, Disconnect,
       ReceiveError, SetOpen
  <2> QED
    BY <1>13, <2>1
<1> QED
  BY <1>k, <1>5, <1>6, <1>7, <1>8, <1>9, <1>10, <1>11, <1>12, <1>14
     DEF Next, Brokers, SockThread, SendThread, Exchange

LEMMA InitDelivery ==
    ASSUME Init
    PROVE  DInv
<1>1. Relayed = <<>> /\ Replies = <<>> /\ ToSet(<<>>) = {}
  BY DEF Init, Relayed, Replies, NotesOf, ToSet
<1>2. Ids = {}
  BY DEF Init, Ids, OrderId, OrderNums
<1>3. SessionsKept
  BY DEF Init, SessionsKept, NoCxn, Cxns
<1> QED
  BY <1>1, <1>2, <1>3 DEF Init, DInv, Producers

LEMMA NextDelivery ==
    ASSUME EnoughIds, IInv, DInv, [Next]_vars
    PROVE  DInv'
<1>1. IInv'
  BY NextIInv
<1>2. ASSUME NEW id, id \in Ids', id \notin lost' PROVE Ahead(id)'
  BY <1>1, <1>2, NextAhead
<1> QED
  BY <1>2, NextSessionsKept, NextProducers DEF DInv

\* A broker hears that the Exchange accepted its order before anything else the
\* Exchange says of it: the threads that relay and send keep the order of the ring,
\* and what a broker that left has missed it misses for good.
THEOREM ServerAcceptedFirst == EnoughIds /\ Spec => []AcceptedFirst
<1> SUFFICES ASSUME EnoughIds PROVE Spec => []AcceptedFirst
  OBVIOUS
<1>1. ASSUME IInv, DInv PROVE AcceptedFirst
  <2>1. SUFFICES ASSUME NEW c \in Cxns, NEW j \in DOMAIN received[c],
                        received[c][j].kind \in {"Fill", "CancelOk", "CancelFailed"},
                        received[c][j].subject \notin lost
        PROVE  \E i \in 1 .. j - 1 : received[c][i] = Note("Accepted", received[c][j].subject)
    BY DEF AcceptedFirst
  <2>2. PICK note \in NotesFor(c) : note = received[c][j]
    BY <1>1 DEF IInv, Post
  <2>3. PICK id \in Ids : id = note.subject /\ PlacedBy(id[2]) = c
    BY <2>1, <2>2 DEF NotesFor
  <2>4. Preceded(received[c], Note("Accepted", id), Later(id), {})
    BY <1>1, <2>1, <2>2, <2>3 DEF DInv, Ahead
  <2>5. note \in Later(id)
    BY <2>1, <2>2, <2>3 DEF Later, Note, NotesFor
  <2> QED
    BY <2>2, <2>3, <2>4, <2>5 DEF Preceded
<1>2. Init => IInv /\ DInv
  BY InitIInv, InitDelivery
<1>3. IInv /\ DInv /\ [Next]_vars => IInv' /\ DInv'
  BY NextIInv, NextDelivery
<1> QED
  BY <1>1, <1>2, <1>3, PTL DEF Spec

-----------------------------------------------------------------------------
(* A request is processed once *)

LEMMA UniqueAppend ==
    ASSUME NEW s \in Seq(Requests), NEW x \in Requests, UniqueIn(s),
           \A q \in ToSet(s) : ~SameRequest(q, x)
    PROVE  UniqueIn(Append(s, x)) /\ ToSet(Append(s, x)) = ToSet(s) \cup {x}
<1>1. /\ DOMAIN Append(s, x) = 1 .. Len(s) + 1 /\ DOMAIN s = 1 .. Len(s) /\ Len(s) \in Nat
      /\ \A i \in 1 .. Len(s) : Append(s, x)[i] = s[i]
      /\ Append(s, x)[Len(s) + 1] = x
      /\ ToSet(Append(s, x)) = ToSet(s) \cup {x}
  BY AppendedTo
<1>2. \A i \in 1 .. Len(s) : s[i] \in ToSet(s)
  BY <1>1 DEF ToSet
<1>3. ASSUME NEW i \in DOMAIN Append(s, x), NEW j \in DOMAIN Append(s, x),
             SameRequest(Append(s, x)[i], Append(s, x)[j]), i # j
      PROVE  FALSE
  <2>1. CASE i \in 1 .. Len(s) /\ j \in 1 .. Len(s)
    BY <1>1, <1>3, <2>1 DEF UniqueIn
  <2>2. CASE i = Len(s) + 1 /\ j \in 1 .. Len(s)
    BY <1>1, <1>2, <1>3, <2>2 DEF SameRequest
  <2>3. CASE j = Len(s) + 1 /\ i \in 1 .. Len(s)
    BY <1>1, <1>2, <1>3, <2>3 DEF SameRequest
  <2> QED
    BY <1>1, <1>3, <2>1, <2>2, <2>3
<1> QED
  BY <1>1, <1>3 DEF UniqueIn

LEMMA UniqueTail ==
    ASSUME NEW s \in Seq(Requests), s # <<>>, UniqueIn(s)
    PROVE  /\ UniqueIn(Tail(s)) /\ ToSet(s) = {Head(s)} \cup ToSet(Tail(s)) /\ Head(s) \in Requests
           /\ \A q \in ToSet(Tail(s)) : ~SameRequest(q, Head(s))
<1>1. /\ DOMAIN Tail(s) = 1 .. Len(s) - 1 /\ DOMAIN s = 1 .. Len(s) /\ Len(s) \in Nat \ {0}
      /\ \A i \in 1 .. Len(s) - 1 : Tail(s)[i] = s[i + 1]
      /\ Head(s) = s[1] /\ ToSet(s) = {Head(s)} \cup ToSet(Tail(s)) /\ Head(s) \in Requests
  BY TailOf
<1>2. ASSUME NEW i \in DOMAIN Tail(s), NEW j \in DOMAIN Tail(s), SameRequest(Tail(s)[i], Tail(s)[j])
      PROVE  i = j
  <2>1. i + 1 \in DOMAIN s /\ j + 1 \in DOMAIN s /\ SameRequest(s[i + 1], s[j + 1])
    BY <1>1, <1>2
  <2>2. i + 1 = j + 1
    BY <2>1 DEF UniqueIn
  <2> QED
    BY <1>1, <2>2
<1>3. ASSUME NEW i \in DOMAIN Tail(s) PROVE ~SameRequest(Tail(s)[i], Head(s))
  <2>1. i + 1 \in DOMAIN s /\ Tail(s)[i] = s[i + 1] /\ i + 1 # 1 /\ 1 \in DOMAIN s
    BY <1>1
  <2> QED
    BY <1>1, <2>1 DEF UniqueIn
<1> QED
  BY <1>1, <1>2, <1>3 DEF UniqueIn, ToSet

\* What is not waiting and was sent does not wait again.
RequestsPass ==
    \A c \in Cxns : /\ sent[c] <= sent'[c]
                    /\ \A seq \in Nat : seq <= sent[c] /\ Waiting(c, seq)' => Waiting(c, seq)

LEMMA SendKeepsRequests ==
    ASSUME IInv, RequestsOnce, NEW c \in Cxns, NEW kind \in {"order", "invalid", "cancel"},
           NEW num \in Nat, SendRequest(c, kind, num)
    PROVE  RequestsOnce' /\ RequestsPass
<1> USE DEF sockVars
<1>k. sent \in [Cxns -> Nat] /\ inbox \in [Cxns -> Seq(Requests)]
      /\ sockQueue \in [PoolThreads -> Seq(Requests)]
  BY DEF IInv, Incoming
<1>0. [cxn |-> c, seq |-> sent[c] + 1, kind |-> kind, num |-> num] \in Requests
  BY <1>k DEF Requests
<1>1. PICK x \in Requests : x = [cxn |-> c, seq |-> sent[c] + 1, kind |-> kind, num |-> num]
  BY <1>0
<1>2. PICK s \in Seq(Requests) : s = inbox[c]
  BY <1>k
<1>3. /\ sent' = [sent EXCEPT ![c] = @ + 1] /\ inbox' = [inbox EXCEPT ![c] = Append(s, x)]
      /\ sockQueue' = sockQueue /\ x.cxn = c /\ x.seq = sent[c] + 1
  BY <1>1, <1>2 DEF SendRequest
<1>4. \A q \in ToSet(s) : ~SameRequest(q, x)
  <2>1. SUFFICES ASSUME NEW q \in ToSet(s) PROVE q.seq # x.seq
    BY DEF SameRequest
  <2>2. q.seq <= sent[c] /\ q \in Requests
    BY <1>2, ElementsOf DEF RequestsOnce
  <2> QED
    BY <1>k, <1>3, <2>2 DEF Requests
<1>5. UniqueIn(Append(s, x)) /\ ToSet(Append(s, x)) = ToSet(s) \cup {x}
  BY <1>2, <1>4, UniqueAppend DEF RequestsOnce
<1>6. /\ sent' \in [Cxns -> Nat] /\ sent'[c] = sent[c] + 1 /\ inbox'[c] = Append(s, x)
      /\ \A d \in Cxns : d # c => sent'[d] = sent[d] /\ inbox'[d] = inbox[d]
      /\ \A d \in Cxns : sent[d] <= sent'[d] /\ ToSet(inbox[d]) \subseteq Requests
      /\ \A t \in PoolThreads : ToSet(sockQueue[t]) \subseteq Requests
  BY <1>k, <1>3, ElementsOf
<1>7. ASSUME NEW d \in Cxns
      PROVE  UniqueIn(inbox'[d]) /\ \A r \in ToSet(inbox'[d]) : r.cxn = d /\ r.seq <= sent'[d]
  <2>1. CASE d = c
    <3>1. ASSUME NEW r \in ToSet(s) PROVE r.cxn = c /\ r.seq <= sent[c] /\ r.seq \in Nat
      BY <1>2, <1>6 DEF RequestsOnce, Requests
    <3> QED
      BY <1>k, <1>3, <1>5, <1>6, <2>1, <3>1
  <2>2. CASE d # c
    BY <1>6, <2>2 DEF RequestsOnce
  <2> QED
    BY <2>1, <2>2
<1>8. ASSUME NEW t \in PoolThreads, NEW r \in ToSet(sockQueue[t])
      PROVE  r.seq <= sent'[r.cxn] /\ \A q \in ToSet(inbox'[r.cxn]) : q.seq # r.seq
  <2>1. /\ r \in Requests /\ r.seq \in Nat /\ r.cxn \in Cxns /\ r.seq <= sent[r.cxn]
        /\ \A q \in ToSet(inbox[r.cxn]) : q.seq # r.seq
    BY <1>6 DEF RequestsOnce, Requests
  <2>2. r.seq <= sent'[r.cxn]
    BY <1>k, <1>6, <2>1
  <2>3. CASE r.cxn = c
    BY <1>k, <1>2, <1>3, <1>5, <1>6, <2>1, <2>2, <2>3
  <2>4. CASE r.cxn # c
    BY <1>6, <2>1, <2>2, <2>4
  <2> QED
    BY <2>3, <2>4
<1>9. RequestsOnce'
  BY <1>3, <1>7, <1>8 DEF RequestsOnce
<1>10. ASSUME NEW d \in Cxns, NEW seq \in Nat, seq <= sent[d], Waiting(d, seq)'
       PROVE  Waiting(d, seq)
  <2>1. CASE \E r \in ToSet(inbox'[d]) : r.seq = seq
    <3>1. PICK r \in ToSet(inbox'[d]) : r.seq = seq
      BY <2>1
    <3>2. r \in ToSet(inbox[d])
      BY <1>k, <1>2, <1>3, <1>5, <1>6, <1>10, <3>1
    <3> QED
      BY <3>1, <3>2 DEF Waiting
  <2>2. CASE \E t \in PoolThreads : \E r \in ToSet(sockQueue[t]) : r.cxn = d /\ r.seq = seq
    BY <2>2 DEF Waiting
  <2> QED
    BY <1>3, <1>10, <2>1, <2>2 DEF Waiting
<1> QED
  BY <1>6, <1>9, <1>10 DEF RequestsPass

LEMMA ReceiveKeepsRequests ==
    ASSUME IInv, RequestsOnce, NEW c \in Cxns, NEW t \in PoolThreads, Receive(c, t)
    PROVE  RequestsOnce' /\ RequestsPass
<1> USE DEF brokerVars
<1>k. sent \in [Cxns -> Nat] /\ inbox \in [Cxns -> Seq(Requests)]
      /\ sockQueue \in [PoolThreads -> Seq(Requests)]
  BY DEF IInv, Incoming
<1>1. PICK s \in Seq(Requests) : s = inbox[c]
  BY <1>k
<1>2. PICK z \in Seq(Requests) : z = sockQueue[t]
  BY <1>k
<1>3. s # <<>> /\ sent' = sent
  BY <1>1 DEF Receive
<1>4. PICK x \in Requests : x = Head(s)
  BY <1>3
<1>5. /\ inbox' = [inbox EXCEPT ![c] = Tail(s)]
      /\ sockQueue' = [sockQueue EXCEPT ![t] = Append(z, x)]
  BY <1>1, <1>2, <1>4 DEF Receive
<1>6. /\ UniqueIn(Tail(s)) /\ ToSet(s) = {x} \cup ToSet(Tail(s))
      /\ \A q \in ToSet(Tail(s)) : ~SameRequest(q, x)
      /\ x.cxn = c /\ x.seq <= sent[c]
      /\ \A q \in ToSet(s) : q.cxn = c
  BY <1>1, <1>3, <1>4, UniqueTail DEF RequestsOnce
<1>7. ASSUME NEW u \in PoolThreads, NEW q \in ToSet(sockQueue[u]) PROVE ~SameRequest(q, x)
  <2>1. \A r \in ToSet(inbox[q.cxn]) : r.seq # q.seq
    BY DEF RequestsOnce
  <2> QED
    BY <1>1, <1>6, <2>1 DEF SameRequest
<1>8. UniqueIn(Append(z, x)) /\ ToSet(Append(z, x)) = ToSet(z) \cup {x}
  BY <1>2, <1>7, UniqueAppend DEF RequestsOnce
<1>9. /\ inbox'[c] = Tail(s) /\ \A d \in Cxns : d # c => inbox'[d] = inbox[d]
      /\ sockQueue'[t] = Append(z, x)
      /\ \A u \in PoolThreads : u # t => sockQueue'[u] = sockQueue[u]
  BY <1>k, <1>5
<1>q. ASSUME NEW u \in PoolThreads, NEW r \in ToSet(sockQueue'[u])
      PROVE  r \in Requests /\ (r \in ToSet(sockQueue[u]) \/ (r = x /\ u = t))
  <2>1. CASE u = t
    <3>1. PICK w : w = sockQueue'[u]
      OBVIOUS
    <3>2. r \in ToSet(Append(z, x))
      BY <1>9, <2>1, <3>1
    <3> QED
      BY <1>2, <1>8, <2>1, <3>2, ElementsOf
  <2>2. CASE u # t
    <3>1. sockQueue'[u] = sockQueue[u] /\ sockQueue[u] \in Seq(Requests)
      BY <1>k, <1>9, <2>2
    <3> QED
      BY <3>1, ElementsOf
  <2> QED
    BY <2>1, <2>2
<1>10. \A d \in Cxns : /\ UniqueIn(inbox'[d])
                       /\ \A r \in ToSet(inbox'[d]) : r.cxn = d /\ r.seq <= sent'[d]
  BY <1>1, <1>3, <1>6, <1>9 DEF RequestsOnce
<1>11. ASSUME NEW u \in PoolThreads, NEW r \in ToSet(sockQueue'[u])
       PROVE  r.seq <= sent[r.cxn] /\ \A q \in ToSet(inbox'[r.cxn]) : q.seq # r.seq
  <2>1. CASE r = x
    BY <1>6, <1>9, <2>1 DEF SameRequest
  <2>2. CASE r # x
    <3>1. r \in ToSet(sockQueue[u]) /\ r.cxn \in Cxns
      BY <1>q, <2>2 DEF Requests
    <3>2. ToSet(inbox'[r.cxn]) \subseteq ToSet(inbox[r.cxn])
      BY <1>1, <1>6, <1>9, <3>1
    <3> QED
      BY <3>1, <3>2 DEF RequestsOnce
  <2> QED
    BY <2>1, <2>2
<1>12. ASSUME NEW u \in PoolThreads, NEW v \in PoolThreads, u # v,
              NEW q \in ToSet(sockQueue'[u]), NEW r \in ToSet(sockQueue'[v])
       PROVE  ~SameRequest(q, r)
  <2>1. q \in ToSet(sockQueue[u]) \/ (q = x /\ u = t)
    BY <1>q
  <2>2. r \in ToSet(sockQueue[v]) \/ (r = x /\ v = t)
    BY <1>q
  <2>3. CASE q \in ToSet(sockQueue[u]) /\ r \in ToSet(sockQueue[v])
    BY <1>12, <2>3 DEF RequestsOnce
  <2>4. CASE q = x /\ r \in ToSet(sockQueue[v])
    BY <1>7, <2>4 DEF SameRequest
  <2>5. CASE r = x /\ q \in ToSet(sockQueue[u])
    BY <1>7, <2>5
  <2>6. q \in ToSet(sockQueue[u]) \/ r \in ToSet(sockQueue[v])
    BY <1>12, <2>1, <2>2
  <2> QED
    BY <2>1, <2>2, <2>3, <2>4, <2>5, <2>6
<1>13. ASSUME NEW u \in PoolThreads PROVE UniqueIn(sockQueue'[u])
  <2>1. PICK w : w = sockQueue'[u]
    OBVIOUS
  <2>2. CASE u = t
    <3>1. UniqueIn(w)
      BY <1>8, <1>9, <2>1, <2>2
    <3> QED
      BY <2>1, <3>1
  <2>3. CASE u # t
    <3>1. UniqueIn(sockQueue[u]) /\ sockQueue[u] = w
      BY <1>9, <2>1, <2>3 DEF RequestsOnce
    <3>2. UniqueIn(w)
      BY <3>1
    <3> QED
      BY <2>1, <3>2
  <2> QED
    BY <2>2, <2>3
<1>14. RequestsOnce'
  BY <1>3, <1>10, <1>11, <1>12, <1>13 DEF RequestsOnce
<1>15. ASSUME NEW d \in Cxns, NEW seq \in Nat, Waiting(d, seq)' PROVE Waiting(d, seq)
  <2>1. CASE \E r \in ToSet(inbox'[d]) : r.seq = seq
    <3>1. PICK r \in ToSet(inbox'[d]) : r.seq = seq
      BY <2>1
    <3>2. r \in ToSet(inbox[d])
      BY <1>1, <1>6, <1>9
    <3> QED
      BY <3>1, <3>2 DEF Waiting
  <2>2. CASE \E u \in PoolThreads : \E r \in ToSet(sockQueue'[u]) : r.cxn = d /\ r.seq = seq
    <3>1. PICK u \in PoolThreads : \E r \in ToSet(sockQueue'[u]) : r.cxn = d /\ r.seq = seq
      BY <2>2
    <3>2. PICK r \in ToSet(sockQueue'[u]) : r.cxn = d /\ r.seq = seq
      BY <3>1
    <3>3. r \in ToSet(sockQueue[u]) \/ r = x
      BY <1>q, <3>2
    <3>4. x \in ToSet(inbox[c]) /\ x.cxn = c
      BY <1>1, <1>6
    <3> QED
      BY <3>2, <3>3, <3>4 DEF Waiting
  <2> QED
    BY <1>15, <2>1, <2>2 DEF Waiting
<1> QED
  BY <1>k, <1>3, <1>14, <1>15 DEF RequestsPass

\* ... and the one that is taken waits no longer.
LEMMA TakeKeepsRequests ==
    ASSUME IInv, RequestsOnce, NEW t \in PoolThreads, TakeSockMsg(t), NEW x, x = Head(sockQueue[t])
    PROVE  /\ RequestsOnce' /\ RequestsPass /\ x \in Requests
           /\ x.seq <= sent'[x.cxn] /\ Waiting(x.cxn, x.seq) /\ ~Waiting(x.cxn, x.seq)'
<1> USE DEF brokerVars
<1>k. sent \in [Cxns -> Nat] /\ inbox \in [Cxns -> Seq(Requests)]
      /\ sockQueue \in [PoolThreads -> Seq(Requests)]
  BY DEF IInv, Incoming
<1>1. PICK z \in Seq(Requests) : z = sockQueue[t]
  BY <1>k
<1>2. z # <<>> /\ sent' = sent /\ inbox' = inbox
      /\ sockQueue' = [sockQueue EXCEPT ![t] = Tail(z)] /\ x = Head(z)
  BY <1>1 DEF TakeSockMsg
<1>3. /\ UniqueIn(Tail(z)) /\ ToSet(z) = {x} \cup ToSet(Tail(z)) /\ x \in Requests
      /\ \A q \in ToSet(Tail(z)) : ~SameRequest(q, x)
  BY <1>1, <1>2, UniqueTail DEF RequestsOnce
<1>4. /\ sockQueue'[t] = Tail(z) /\ \A u \in PoolThreads : u # t => sockQueue'[u] = sockQueue[u]
      /\ \A u \in PoolThreads : /\ UniqueIn(sockQueue'[u])
                                /\ ToSet(sockQueue'[u]) \subseteq ToSet(sockQueue[u])
  BY <1>k, <1>1, <1>2, <1>3 DEF RequestsOnce
<1>5. RequestsOnce'
  BY <1>2, <1>4 DEF RequestsOnce
<1>6. \A d \in Cxns, seq \in Nat : Waiting(d, seq)' => Waiting(d, seq)
  BY <1>2, <1>4 DEF Waiting
<1>7. x \in ToSet(sockQueue[t]) /\ x.cxn \in Cxns
  BY <1>1, <1>3 DEF Requests
<1>8. x.seq <= sent[x.cxn] /\ \A q \in ToSet(inbox[x.cxn]) : q.seq # x.seq
  BY <1>7 DEF RequestsOnce
<1>9. \A u \in PoolThreads : \A r \in ToSet(sockQueue'[u]) : ~(r.cxn = x.cxn /\ r.seq = x.seq)
  <2>1. SUFFICES ASSUME NEW u \in PoolThreads, NEW r \in ToSet(sockQueue'[u])
        PROVE ~SameRequest(r, x)
    BY DEF SameRequest
  <2>2. CASE u = t
    BY <1>3, <1>4, <2>2
  <2>3. CASE u # t
    BY <1>4, <1>7, <2>3 DEF RequestsOnce
  <2> QED
    BY <2>2, <2>3
<1>10. ~Waiting(x.cxn, x.seq)'
  BY <1>2, <1>8, <1>9 DEF Waiting
<1>11. Waiting(x.cxn, x.seq)
  BY <1>7 DEF Waiting
<1> QED
  BY <1>k, <1>2, <1>3, <1>5, <1>6, <1>8, <1>10, <1>11 DEF RequestsPass

LEMMA NextRequests ==
    ASSUME IInv, RequestsOnce, [Next]_vars
    PROVE  RequestsOnce' /\ RequestsPass
<1> USE DEF vars, brokerVars, sockVars, sessionVars, orderVars, ringVars, exchangeVars
<1>1. ASSUME UNCHANGED <<sent, inbox, sockQueue>> PROVE RequestsOnce' /\ RequestsPass
  <2>1. sent \in [Cxns -> Nat]
    BY DEF IInv, Incoming
  <2> QED
    BY <1>1, <2>1 DEF RequestsOnce, RequestsPass, Waiting
<1>2. \/ UNCHANGED <<sent, inbox, sockQueue>>
      \/ \E c \in Cxns : \E kind \in {"order", "invalid", "cancel"} :
            \E num \in Nat : SendRequest(c, kind, num)
      \/ \E c \in Cxns : \E t \in PoolThreads : Receive(c, t)
      \/ \E t \in PoolThreads : TakeSockMsg(t)
  <2>1. \A c \in Cxns : Connect(c) \/ Leave(c) \/ NewConnection(c) \/ Disconnect(c)
                           \/ ReceiveError(c)
           => UNCHANGED <<sent, inbox, sockQueue>>
    BY Zenon DEF Connect, Leave, NewConnection, Disconnect, ReceiveError
  <2>2. Forward \/ Acknowledge \/ Relay \/ SetOpen \/ ExchangeAccepts \/ ExchangeCancels
           \/ (\E id \in known : ExchangeFills(id)) \/ (\E p : SendToBroker(p)) \/ UNCHANGED vars
           => UNCHANGED <<sent, inbox, sockQueue>>
    BY Zenon DEF Forward, Acknowledge, Relay, SetOpen, ExchangeAccepts, ExchangeCancels,
       ExchangeFills, SendToBroker
  <2>3. 0 \in Nat /\ OrderNums \subseteq Nat
    BY DEF OrderNums
  <2> QED
    BY <2>1, <2>2, <2>3 DEF Next, Brokers, ReadSocket, SockThread, SendThread, Exchange
<1> QED
  BY <1>1, <1>2, SendKeepsRequests, ReceiveKeepsRequests, TakeKeepsRequests

-----------------------------------------------------------------------------
(* An order goes to the Exchange once *)

LEMMA NewOrdersAppend ==
    ASSUME NEW s \in Seq(Msgs), NEW m \in Msgs, NEW K, NewOrders(s, K),
           m.kind = "order" => m.id \notin K /\ \A q \in ToSet(s) : q.kind = "order" => q.id # m.id
    PROVE  NewOrders(Append(s, m), K)
<1>1. /\ DOMAIN Append(s, m) = 1 .. Len(s) + 1 /\ DOMAIN s = 1 .. Len(s) /\ Len(s) \in Nat
      /\ \A i \in 1 .. Len(s) : Append(s, m)[i] = s[i]
      /\ Append(s, m)[Len(s) + 1] = m
  BY AppendedTo
<1>2. \A i \in 1 .. Len(s) : s[i] \in ToSet(s)
  BY <1>1 DEF ToSet
<1>3. ASSUME NEW i \in DOMAIN Append(s, m), Append(s, m)[i].kind = "order"
      PROVE Append(s, m)[i].id \notin K
  BY <1>1, <1>3 DEF NewOrders
<1>4. ASSUME NEW i \in DOMAIN Append(s, m), NEW j \in DOMAIN Append(s, m), i # j,
             Append(s, m)[i].kind = "order", Append(s, m)[j].kind = "order",
             Append(s, m)[i].id = Append(s, m)[j].id
      PROVE  FALSE
  <2>1. CASE i \in 1 .. Len(s) /\ j \in 1 .. Len(s)
    BY <1>1, <1>4, <2>1 DEF NewOrders
  <2>2. CASE i = Len(s) + 1 /\ j \in 1 .. Len(s)
    BY <1>1, <1>2, <1>4, <2>2
  <2>3. CASE j = Len(s) + 1 /\ i \in 1 .. Len(s)
    BY <1>1, <1>2, <1>4, <2>3
  <2> QED
    BY <1>1, <1>4, <2>1, <2>2, <2>3
<1> QED
  BY <1>3, <1>4 DEF NewOrders

LEMMA NewOrdersTail ==
    ASSUME NEW s \in Seq(Msgs), s # <<>>, NEW K, NewOrders(s, K)
    PROVE  /\ Head(s) \in Msgs /\ ToSet(s) = {Head(s)} \cup ToSet(Tail(s)) /\ NewOrders(Tail(s), K)
           /\ Head(s).kind = "order" => /\ Head(s).id \notin K
                                        /\ NewOrders(Tail(s), K \cup {Head(s).id})
<1>1. /\ DOMAIN Tail(s) = 1 .. Len(s) - 1 /\ DOMAIN s = 1 .. Len(s) /\ Len(s) \in Nat \ {0}
      /\ \A i \in 1 .. Len(s) - 1 : Tail(s)[i] = s[i + 1]
      /\ Head(s) = s[1] /\ ToSet(s) = {Head(s)} \cup ToSet(Tail(s)) /\ Head(s) \in Msgs
  BY TailOf
<1>2. \A i \in DOMAIN Tail(s) : i + 1 \in DOMAIN s /\ Tail(s)[i] = s[i + 1] /\ i + 1 # 1
  BY <1>1
<1>3. 1 \in DOMAIN s
  BY <1>1
<1>4. ASSUME NEW i \in DOMAIN Tail(s), NEW j \in DOMAIN Tail(s), i # j,
             Tail(s)[i].kind = "order", Tail(s)[j].kind = "order", Tail(s)[i].id = Tail(s)[j].id
      PROVE  FALSE
  <2>1. i + 1 # j + 1
    BY <1>1, <1>4
  <2> QED
    BY <1>2, <1>4, <2>1 DEF NewOrders
<1>5. ASSUME NEW i \in DOMAIN Tail(s), Tail(s)[i].kind = "order"
      PROVE  Tail(s)[i].id \notin K /\ (Head(s).kind = "order" => Tail(s)[i].id # Head(s).id)
  BY <1>1, <1>2, <1>3, <1>5 DEF NewOrders
<1>6. Head(s).kind = "order" => Head(s).id \notin K
  BY <1>1, <1>3 DEF NewOrders
<1>7. NewOrders(Tail(s), K)
  BY <1>4, <1>5 DEF NewOrders
<1>8. Head(s).kind = "order" => NewOrders(Tail(s), K \cup {Head(s).id})
  BY <1>4, <1>5 DEF NewOrders
<1> QED
  BY <1>1, <1>6, <1>7, <1>8

\* A number stays given, an order stays known, and of a known order nothing is open
\* that was not.
OrdersPass ==
    /\ Ids \subseteq Ids' /\ \A id \in Ids : Numbering(id)' => Numbering(id)
    /\ known \subseteq known' /\ live' \cap known \subseteq live
    /\ unreported' \cap known \subseteq unreported

LEMMA SameOrders ==
    ASSUME IInv, OrdersOnce, UNCHANGED <<totalOrders, placed, sockPc, cur, toExchange, known>>,
           live' \subseteq live, unreported' \subseteq unreported
    PROVE  OrdersOnce' /\ OrdersPass
<1>1. Ids' = Ids
  BY DEF Ids, PlacedBy
<1>2. OrdersPass
  BY <1>1 DEF OrdersPass, Numbering
<1>3. \A id \in Ids : Numbering(id)' = Numbering(id) /\ HasReached(id)' = HasReached(id)
  BY DEF Numbering, HasReached
<1> QED
  BY <1>1, <1>2, <1>3 DEF OrdersOnce

LEMMA TakeKeepsOrders ==
    ASSUME IInv, IInv', OrdersOnce, NEW t \in PoolThreads, TakeSockMsg(t)
    PROVE  OrdersOnce' /\ OrdersPass
<1> USE DEF brokerVars, sockVars, sessionVars, orderVars, ringVars, exchangeVars
<1>1. UNCHANGED <<toExchange, known, live, unreported, lost>> /\ sockPc = "idle"
  BY DEF TakeSockMsg
<1>2. CASE UNCHANGED orderVars
  BY <1>1, <1>2, SameOrders
<1>3. PICK x : x = Head(sockQueue[t])
  OBVIOUS
<1>4. ASSUME UNCHANGED <<totalOrders, placed>>,
             cur' = <<[kind |-> "cancel", id |-> CancelledId(x.cxn, x.num), by |-> x.cxn]>>
      PROVE  OrdersOnce' /\ OrdersPass
  <2>1. Ids' = Ids
    BY <1>4 DEF Ids, PlacedBy
  <2>2. cur'[1].kind = "cancel"
    BY <1>4
  <2>3. \A id \in Ids : ~Numbering(id)'
    BY <2>2 DEF Numbering
  <2> QED
    BY <1>1, <2>1, <2>3 DEF OrdersOnce, OrdersPass
<1>5. ASSUME totalOrders' = totalOrders + 1,
             placed' = [placed EXCEPT ![totalOrders'] = <<x.cxn, x.seq>>],
             cur' = <<[kind |-> "order", id |-> <<SessionOf(x.cxn), totalOrders'>>, by |-> x.cxn]>>
      PROVE  OrdersOnce' /\ OrdersPass
  <2>1. /\ totalOrders \in Nat /\ totalOrders' \in Nat /\ Numbers
        /\ \A n \in 1 .. totalOrders : placed'[n] = placed[n]
    <3>1. totalOrders \in 0 .. MaxRequests /\ DOMAIN placed = 1 .. MaxRequests /\ Numbers
      BY DEF IInv, Numbers, OrderNums
    <3>2. totalOrders \in Nat /\ totalOrders' \in Nat
      BY <1>5, <3>1
    <3> QED
      BY <1>5, <3>1, <3>2, ServerAssumption
  <2>2. Ids \subseteq Ids'
    <3>1. \A id \in Settled : HasReached(id)' \/ id \in lost'
      BY <1>1 DEF Settled, HasReached
    <3>2. totalOrders' >= totalOrders
      BY <1>5, <2>1
    <3> QED
      BY <2>1, <3>1, <3>2, Growth
  <2>3. PICK new : new = <<SessionOf(x.cxn), totalOrders'>>
    OBVIOUS
  <2>4. cur'[1].id = new /\ new[2] = totalOrders + 1
    BY <1>5, <2>3
  <2>5. new \notin Ids
    <3>1. \A id \in Ids : id[2] <= totalOrders /\ id[2] \in Nat
      BY DEF Ids, OrderId, OrderNums
    <3>2. ~(new[2] <= totalOrders)
      BY <2>1, <2>4
    <3> QED
      BY <3>1, <3>2
  <2>6. new \notin known
    BY <2>5 DEF IInv, Books
  <2>7. \A m \in ToSet(toExchange) : m.kind = "order" => m.id # new
    <3>1. \A m \in ToSet(toExchange) : m \in Msgs
      BY ElementsOf DEF IInv, Rings
    <3> QED
      BY <2>5, <3>1 DEF Msgs
  <2>8. ASSUME NEW id, Numbering(id)' PROVE id = new
    BY <2>4, <2>8 DEF Numbering
  <2>9. ~HasReached(new)'
    BY <1>1, <2>6, <2>7 DEF HasReached
  <2>10. OrdersOnce'
    BY <1>1, <2>8, <2>9 DEF OrdersOnce
  <2>11. OrdersPass
    BY <1>1, <2>2, <2>5, <2>8 DEF OrdersPass
  <2> QED
    BY <2>10, <2>11
<1> QED
  BY <1>2, <1>3, <1>4, <1>5 DEF TakeSockMsg

LEMMA ForwardKeepsOrders ==
    ASSUME IInv, OrdersOnce, Forward
    PROVE  OrdersOnce' /\ OrdersPass
<1> USE DEF brokerVars, sockVars, sessionVars, orderVars, ringVars, exchangeVars
<1>1. PICK m \in Msgs : cur = <<m>> /\ sockPc = "forward"
  BY DEF Forward, IInv, Thread
<1>2. /\ UNCHANGED <<totalOrders, placed, known, live, unreported>>
      /\ sockPc' \in {"ack", "idle"} /\ (sockPc' # "idle" => cur' = cur)
      /\ \/ toExchange' = toExchange
         \/ toExchange' = Append(toExchange, m)
  BY <1>1 DEF Forward, AfterForward
<1>3. Ids' = Ids
  BY <1>2 DEF Ids, PlacedBy
<1>4. OrdersPass
  BY <1>1, <1>2, <1>3 DEF OrdersPass, Numbering
<1>5. m.kind = "order" => /\ m.id \notin known
                          /\ \A q \in ToSet(toExchange) : q.kind = "order" => q.id # m.id
  <2>1. ASSUME m.kind = "order" PROVE m.id \in Ids /\ Numbering(m.id)
    BY <1>1, <2>1 DEF Msgs, Numbering
  <2> QED
    BY <1>1, <2>1 DEF OrdersOnce, HasReached
<1>6. PICK s \in Seq(Msgs) : s = toExchange
  BY DEF IInv, Rings
<1>7. NewOrders(s, known) /\ NewOrders(Append(s, m), known)
  BY <1>5, <1>6, NewOrdersAppend DEF OrdersOnce
<1>8. PICK z : z = toExchange'
  OBVIOUS
<1>9. NewOrders(z, known)
  BY <1>2, <1>6, <1>7, <1>8
<1>10. sockPc' # "forward"
  BY <1>2
<1> QED
  BY <1>2, <1>4, <1>8, <1>9, <1>10 DEF OrdersOnce

LEMMA ExchangeKeepsOrders ==
    ASSUME IInv, OrdersOnce, Exchange
    PROVE  OrdersOnce' /\ OrdersPass
<1> USE DEF brokerVars, sockVars, sessionVars, orderVars, ringVars, exchangeVars
<1>1. PICK s \in Seq(Msgs) : s = toExchange
  BY DEF IInv, Rings
<1>2. s # <<>> /\ toExchange' = Tail(s) /\ UNCHANGED <<totalOrders, placed, sockPc, cur>>
  BY <1>1 DEF Exchange, ExchangeAccepts, ExchangeCancels
<1>3. PICK m \in Msgs : m = Head(s)
  BY <1>2
<1>4. PICK z \in Seq(Msgs) : z = Tail(s)
  BY <1>2
<1>5. /\ ToSet(s) = {m} \cup ToSet(z) /\ NewOrders(z, known)
      /\ m.kind = "order" => m.id \notin known /\ NewOrders(z, known \cup {m.id})
  BY <1>1, <1>2, <1>3, <1>4, NewOrdersTail DEF OrdersOnce
<1>6. \/ /\ m.kind = "order" /\ known' = known \cup {m.id} /\ live' = live \cup {m.id}
         /\ unreported' = unreported \cup {m.id}
      \/ m.kind = "cancel" /\ known' = known /\ live' \subseteq live /\ unreported' = unreported
  BY <1>1, <1>3 DEF Exchange, ExchangeAccepts, ExchangeCancels
<1>7. Ids' = Ids
  BY <1>2 DEF Ids, PlacedBy
<1>8. NewOrders(toExchange', known')
  BY <1>2, <1>4, <1>5, <1>6
<1>9. \A id \in Ids : HasReached(id)' => HasReached(id)
  BY <1>1, <1>2, <1>4, <1>5, <1>6 DEF HasReached
<1>10. \A id \in Ids : Numbering(id)' = Numbering(id)
  BY <1>2 DEF Numbering
<1>11. known \subseteq known' /\ live' \cap known \subseteq live
      /\ unreported' \cap known \subseteq unreported
  BY <1>5, <1>6
<1> QED
  BY <1>2, <1>7, <1>8, <1>9, <1>10, <1>11 DEF OrdersOnce, OrdersPass

LEMMA NextOrders ==
    ASSUME IInv, IInv', OrdersOnce, [Next]_vars
    PROVE  OrdersOnce' /\ OrdersPass
<1> USE DEF vars, brokerVars, sockVars, sessionVars, orderVars, ringVars, exchangeVars
<1>1. ASSUME NEW id, ExchangeFills(id) PROVE OrdersOnce' /\ OrdersPass
  <2>1. /\ UNCHANGED <<totalOrders, placed, sockPc, cur, toExchange, known>>
        /\ live' \subseteq live /\ unreported' \subseteq unreported
    BY <1>1 DEF ExchangeFills
  <2> QED
    BY <2>1, SameOrders
<1>2. CASE Acknowledge
  <2>1. UNCHANGED <<totalOrders, placed, toExchange, known, live, unreported>> /\ sockPc' = "idle"
    BY <1>2 DEF Acknowledge
  <2>2. Ids' = Ids
    BY <2>1 DEF Ids, PlacedBy
  <2> QED
    BY <2>1, <2>2 DEF OrdersOnce, OrdersPass, Numbering
<1>3. \/ UNCHANGED <<totalOrders, placed, sockPc, cur, toExchange, known, live, unreported>>
      \/ (\E t \in PoolThreads : TakeSockMsg(t)) \/ Forward \/ Acknowledge \/ Exchange
      \/ \E id : ExchangeFills(id)
  <2>1. \A c \in Cxns : Connect(c) \/ Leave(c) \/ NewConnection(c) \/ ReadSocket(c)
           => UNCHANGED <<totalOrders, placed, sockPc, cur, toExchange, known, live, unreported>>
    BY Zenon DEF Connect, Leave, NewConnection, ReadSocket, Receive, Disconnect, ReceiveError
  <2>2. \A c \in Cxns : \A kind, num : SendRequest(c, kind, num)
           => UNCHANGED <<totalOrders, placed, sockPc, cur, toExchange, known, live, unreported>>
    BY Zenon DEF SendRequest
  <2>3. Relay \/ SetOpen \/ (\E p : SendToBroker(p)) \/ UNCHANGED vars
           => UNCHANGED <<totalOrders, placed, sockPc, cur, toExchange, known, live, unreported>>
    BY Zenon DEF Relay, SetOpen, SendToBroker
  <2> QED
    BY <2>1, <2>2, <2>3 DEF Next, Brokers, SockThread, SendThread
<1> QED
  BY <1>1, <1>2, <1>3, SameOrders, TakeKeepsOrders, ForwardKeepsOrders, ExchangeKeepsOrders

-----------------------------------------------------------------------------
(* Nothing is said twice *)

LEMMA SaidStays == ASSUME IInv, IInv', RequestsPass, OrdersPass PROVE Said \subseteq Said'
<1>1. SUFFICES ASSUME NEW note \in Said PROVE note \in Said'
  OBVIOUS
<1>2. note \in Notes /\ note.subject \in Nat \X Nat
  BY DEF Said, Notes
<1>3. sent \in [Cxns -> Nat] /\ sent' \in [Cxns -> Nat] /\ known \subseteq Ids
  BY DEF IInv, Incoming, Books
<1>4. note.kind = "Reject" => /\ note.subject[1] \in Cxns
                              /\ note.subject[2] <= sent'[note.subject[1]]
                              /\ ~Waiting(note.subject[1], note.subject[2])'
  <2>1. SUFFICES ASSUME note.kind = "Reject"
        PROVE  /\ note.subject[1] \in Cxns /\ note.subject[2] <= sent'[note.subject[1]]
               /\ ~Waiting(note.subject[1], note.subject[2])'
    OBVIOUS
  <2>2. PICK c \in Cxns : c = note.subject[1]
    BY <2>1 DEF Said
  <2>3. PICK k \in Nat : k = note.subject[2]
    BY <1>2
  <2>4. k <= sent[c] /\ ~Waiting(c, k)
    BY <2>1, <2>2, <2>3 DEF Said
  <2>5. k <= sent'[c] /\ ~Waiting(c, k)'
    BY <1>3, <2>4 DEF RequestsPass
  <2> QED
    BY <2>2, <2>3, <2>5 DEF Waiting
<1>5. note.kind = "Ack" => note.subject \in Ids' /\ ~Numbering(note.subject)'
  BY DEF Said, OrdersPass
<1>6. note.kind = "Accepted" => note.subject \in known'
  BY DEF Said, OrdersPass
<1>7. note.kind = "Fill" => note.subject \in known' \ unreported'
  BY DEF Said, OrdersPass
<1>8. note.kind = "CancelOk" => note.subject \in known' \ live'
  BY DEF Said, OrdersPass
<1> QED
  BY <1>2, <1>4, <1>5, <1>6, <1>7, <1>8 DEF Said, Notes

\* How notes move: something new is said, a report is relayed, a note is sent.
Still   == UNCHANGED <<toServer, received>> /\ Relayed' = Relayed /\ Replies' = Replies
Says(x) == /\ received' = received /\ Relayed' = Relayed
           /\ \/ toServer' = Append(toServer, x) /\ Replies' = Replies
              \/ toServer' = toServer /\ Replies' = Append(Replies, x)
Relays  == /\ toServer # <<>> /\ toServer' = Tail(toServer) /\ Replies' = Replies
           /\ received' = received
           /\ Relayed' \in {Relayed, Append(Relayed, Head(toServer))}
Hears(c, x)  == received' \in {received, [received EXCEPT ![c] = Append(@, x)]}
SendsReport(c) ==
    /\ Relayed # <<>> /\ Relayed' = Tail(Relayed) /\ Hears(c, Head(Relayed))
    /\ Replies' = Replies /\ toServer' = toServer
SendsReply(c) ==
    /\ Replies # <<>> /\ Replies' = Tail(Replies) /\ Hears(c, Head(Replies))
    /\ Relayed' = Relayed /\ toServer' = toServer
NewlySaid == {x \in Notes \cap Said' : x.kind = "CancelFailed" \/ x \notin Said}
NotesMove ==
    \/ Still \/ (\E x \in NewlySaid : Says(x)) \/ Relays
    \/ \E c \in Cxns : SendsReport(c) \/ SendsReply(c)

LEMMA ReplyMoves ==
    ASSUME IInv, NEW c, NEW x \in NewlySaid, Enqueue("sock", c, x), UNCHANGED <<received, toServer>>
    PROVE  NotesMove
<1>1. Replies' = Append(Replies, x) /\ Relayed' = Relayed
  BY EnqueueAppends DEF Replies, Relayed
<1>2. Says(x)
  BY <1>1 DEF Says
<1> QED
  BY <1>2 DEF NotesMove

LEMMA TakeMoves ==
    ASSUME IInv, DInv, RequestsOnce, NEW t \in PoolThreads, TakeSockMsg(t)
    PROVE  NotesMove
<1> USE DEF brokerVars, sockVars, sessionVars, orderVars, ringVars, exchangeVars
<1>1. sockQueue[t] # <<>> /\ UNCHANGED <<received, toServer>>
  BY DEF TakeSockMsg
<1>2. PICK x : x = Head(sockQueue[t])
  OBVIOUS
<1>3. UNCHANGED brokerBound \/ Enqueue("sock", x.cxn, Note("Reject", <<x.cxn, x.seq>>))
  BY <1>2 DEF TakeSockMsg
<1>4. CASE UNCHANGED brokerBound
  BY <1>1, <1>4 DEF NotesMove, Still, Relayed, Replies, NotesOf
<1>5. CASE Enqueue("sock", x.cxn, Note("Reject", <<x.cxn, x.seq>>))
  <2>1. /\ x \in Requests /\ x.seq <= sent'[x.cxn]
        /\ Waiting(x.cxn, x.seq) /\ ~Waiting(x.cxn, x.seq)'
    BY <1>2, TakeKeepsRequests
  <2>2. PICK c \in Cxns : c = x.cxn
    BY <2>1 DEF Requests
  <2>3. PICK k \in Nat : k = x.seq
    BY <2>1 DEF Requests
  <2>4. k <= sent'[c] /\ Waiting(c, k) /\ ~Waiting(c, k)'
    BY <2>1, <2>2, <2>3 DEF Waiting
  <2>5. Note("Reject", <<c, k>>) \in Notes
    BY DEF Note, Notes, NoteKinds, Cxns
  <2>6. PICK n \in Notes : n = Note("Reject", <<c, k>>)
    BY <2>5
  <2>7. n.kind = "Reject" /\ n.subject[1] = c /\ n.subject[2] = k
    BY <2>6 DEF Note
  <2>8. n \notin Said
    BY <2>4, <2>7 DEF Said
  <2>9. n \in Said'
    BY <2>4, <2>7 DEF Said, Notes
  <2>10. n \in NewlySaid
    BY <2>8, <2>9 DEF NewlySaid
  <2>11. Enqueue("sock", c, n)
    BY <1>5, <2>2, <2>3, <2>6
  <2> QED
    BY <1>1, <2>10, <2>11, ReplyMoves
<1> QED
  BY <1>3, <1>4, <1>5

LEMMA AcknowledgeMoves == ASSUME IInv, Acknowledge PROVE NotesMove
<1> USE DEF brokerVars, sockVars, sessionVars, orderVars, ringVars, exchangeVars
<1>1. PICK id \in Ids : cur[1].id = id /\ Numbering(id)
  <2>1. PICK m \in Msgs : cur = <<m>> /\ m.kind = "order" /\ sockPc = "ack"
    BY DEF Acknowledge, IInv, Thread
  <2>2. m.id \in Ids
    BY <2>1 DEF Msgs
  <2> QED
    BY <2>1, <2>2 DEF Numbering
<1>2. /\ Notify("sock", "Ack", id) /\ sockPc' = "idle"
      /\ UNCHANGED <<received, toServer, totalOrders, placed>>
  BY <1>1 DEF Acknowledge
<1>3. CASE UNCHANGED brokerBound
  BY <1>2, <1>3 DEF NotesMove, Still, Relayed, Replies, NotesOf
<1>4. CASE Enqueue("sock", sessions[id[1]], Note("Ack", id))
  <2>1. Note("Ack", id) \in Notes
    BY Places DEF Note, Notes, NoteKinds
  <2>2. PICK n \in Notes : n = Note("Ack", id)
    BY <2>1
  <2>3. n.kind = "Ack" /\ n.subject = id
    BY <2>2 DEF Note
  <2>4. n \notin Said
    BY <1>1, <2>3 DEF Said
  <2>5. id \in Ids' /\ ~Numbering(id)'
    BY <1>2 DEF Ids, PlacedBy, Numbering
  <2>6. n \in Said'
    BY <2>3, <2>5 DEF Said, Notes
  <2>7. n \in NewlySaid
    BY <2>4, <2>6 DEF NewlySaid
  <2>8. PICK c : c = sessions[id[1]]
    OBVIOUS
  <2>9. Enqueue("sock", c, n)
    BY <1>4, <2>2, <2>8
  <2> QED
    BY <1>2, <2>7, <2>9, ReplyMoves
<1> QED
  BY <1>2, <1>3, <1>4 DEF Notify

LEMMA ReportMoves ==
    ASSUME IInv, NEW kind \in {"Accepted", "Fill", "CancelOk", "CancelFailed"}, NEW id \in Ids,
           Report(kind, id), UNCHANGED <<received, brokerBound>>,
           kind = "Accepted" => id \notin known /\ id \in known',
           kind = "Fill" => id \in unreported /\ id \in known' \ unreported',
           kind = "CancelOk" => id \in live /\ id \in known' \ live'
    PROVE  NotesMove
<1>1. Relayed' = Relayed /\ Replies' = Replies
  BY DEF Relayed, Replies, NotesOf
<1>2. CASE UNCHANGED toServer
  BY <1>1, <1>2 DEF NotesMove, Still
<1>3. CASE toServer' = Append(toServer, Note(kind, id))
  <2>1. Note(kind, id) \in Notes
    BY Places DEF Note, Notes, NoteKinds
  <2>2. PICK n \in Notes : n = Note(kind, id)
    BY <2>1
  <2>3. n.kind = kind /\ n.subject = id
    BY <2>2 DEF Note
  <2>4. kind = "CancelFailed" \/ n \notin Said
    BY <2>3 DEF Said
  <2>5. n \in Said'
    BY <2>3 DEF Said, Notes
  <2>6. n \in NewlySaid /\ Says(n)
    BY <1>1, <1>3, <2>2, <2>3, <2>4, <2>5 DEF NewlySaid, Says
  <2> QED
    BY <2>6 DEF NotesMove
<1> QED
  BY <1>2, <1>3 DEF Report

LEMMA RelayMoves == ASSUME IInv, Relay PROVE NotesMove
<1> USE DEF brokerVars, sockVars, sessionVars, orderVars, ringVars, exchangeVars
<1>1. /\ toServer # <<>> /\ toServer' = Tail(toServer) /\ received' = received
      /\ Notify("exchange", Head(toServer).kind, Head(toServer).subject)
  BY DEF Relay, RelayedBy, Taken
<1>2. PICK h \in Reports : h = Head(toServer)
  BY <1>1 DEF IInv, Rings
<1>3. h = Note(h.kind, h.subject)
  BY DEF Reports, Note
<1>4. PICK c : c = sessions[h.subject[1]]
  OBVIOUS
<1>5. UNCHANGED brokerBound \/ Enqueue("exchange", c, h)
  BY <1>1, <1>2, <1>3, <1>4 DEF Notify
<1>6. CASE UNCHANGED brokerBound
  <2>1. Relayed' = Relayed /\ Replies' = Replies
    BY <1>6 DEF Relayed, Replies, NotesOf
  <2> QED
    BY <1>1, <2>1 DEF NotesMove, Relays
<1>7. CASE Enqueue("exchange", c, h)
  <2>1. Relayed' = Append(Relayed, h) /\ Replies' = Replies
    BY <1>7, EnqueueAppends DEF Relayed, Replies
  <2> QED
    BY <1>1, <1>2, <2>1 DEF NotesMove, Relays
<1> QED
  BY <1>5, <1>6, <1>7

LEMMA SendMoves ==
    ASSUME IInv, DInv, NEW p \in {"sock", "exchange"}, SendToBroker(p)
    PROVE  NotesMove
<1> USE DEF brokerVars, sockVars, sessionVars, orderVars, ringVars, exchangeVars
<1>1. toServer' = toServer
  BY DEF SendToBroker
<1>2. PICK c \in Cxns : \E note \in NotesFor(c) :
              /\ NotesOf(brokerBound[p]) # <<>> /\ note = Head(NotesOf(brokerBound[p]))
              /\ NotesOf(brokerBound'[p]) = Tail(NotesOf(brokerBound[p]))
              /\ \A q \in {"sock", "exchange"} : q # p => brokerBound'[q] = brokerBound[q]
              /\ \/ ~Closed(c) /\ received' = [received EXCEPT ![c] = Append(@, note)]
                 \/ Closed(c) /\ UNCHANGED received
  BY SendTakes
<1>3. CASE p = "exchange"
  <2>1. SendsReport(c)
    BY <1>1, <1>2, <1>3 DEF SendsReport, Hears, Relayed, Replies
  <2> QED
    BY <2>1 DEF NotesMove
<1>4. CASE p = "sock"
  <2>1. SendsReply(c)
    BY <1>1, <1>2, <1>4 DEF SendsReply, Hears, Relayed, Replies
  <2> QED
    BY <2>1 DEF NotesMove
<1> QED
  BY <1>3, <1>4

LEMMA NextMoves ==
    ASSUME IInv, DInv, RequestsOnce, OrdersOnce, [Next]_vars
    PROVE  NotesMove
<1> USE DEF vars, brokerVars, sockVars, sessionVars, orderVars, ringVars, exchangeVars
<1>k. /\ DOMAIN brokerBound = {"sock", "exchange"} /\ live \subseteq known
      /\ unreported \subseteq known
      /\ known \subseteq Ids
  BY DEF IInv, Post, Books, DInv
<1>1. ASSUME UNCHANGED <<toServer, received, brokerBound>> PROVE NotesMove
  BY <1>1 DEF NotesMove, Still, Relayed, Replies, NotesOf
<1>2. CASE ExchangeAccepts
  <2>1. PICK s \in Seq(Msgs) : s = toExchange /\ s # <<>>
    BY <1>2 DEF ExchangeAccepts, IInv, Rings
  <2>2. PICK m \in Msgs : m = Head(s)
    BY <2>1
  <2>3. /\ m.kind = "order" /\ Report("Accepted", m.id) /\ known' = known \cup {m.id}
        /\ UNCHANGED <<received, brokerBound>>
    BY <1>2, <2>1, <2>2 DEF ExchangeAccepts
  <2>4. m.id \notin known
    BY <2>1, <2>2, <2>3, NewOrdersTail DEF OrdersOnce
  <2>5. PICK id \in Ids : id = m.id
    BY <2>3 DEF Msgs
  <2>6. Report("Accepted", id) /\ id \notin known /\ id \in known'
    BY <2>3, <2>4, <2>5
  <2> QED
    BY <2>3, <2>6, ReportMoves
<1>3. CASE ExchangeCancels
  <2>1. PICK id : id = Head(toExchange).id
    OBVIOUS
  <2>2. /\ UNCHANGED <<received, brokerBound, known>>
        /\ \/ UNCHANGED toServer
           \/ id \in live /\ live' = live \ {id} /\ Report("CancelOk", id)
           \/ id \in known /\ Report("CancelFailed", id)
    BY <1>3, <2>1 DEF ExchangeCancels
  <2>3. CASE UNCHANGED toServer
    BY <1>1, <2>2, <2>3
  <2>4. CASE id \in live /\ live' = live \ {id} /\ Report("CancelOk", id)
    <3>1. id \in Ids /\ id \in known' \ live'
      BY <1>k, <2>2, <2>4
    <3> QED
      BY <2>2, <2>4, <3>1, ReportMoves
  <2>5. CASE id \in known /\ Report("CancelFailed", id)
    <3>1. id \in Ids
      BY <1>k, <2>5
    <3> QED
      BY <2>2, <2>5, <3>1, ReportMoves
  <2> QED
    BY <2>2, <2>3, <2>4, <2>5
<1>4. ASSUME NEW id \in known, ExchangeFills(id) PROVE NotesMove
  <2>1. /\ UNCHANGED <<received, brokerBound, known>> /\ Report("Fill", id)
        /\ id \in unreported /\ unreported' = unreported \ {id}
    BY <1>4 DEF ExchangeFills
  <2>2. id \in Ids /\ id \in known' \ unreported'
    BY <1>k, <2>1
  <2> QED
    BY <2>1, <2>2, ReportMoves
<1>5. \/ UNCHANGED <<toServer, received, brokerBound>>
      \/ (\E t \in PoolThreads : TakeSockMsg(t)) \/ Acknowledge \/ Relay
      \/ (\E p \in {"sock", "exchange"} : SendToBroker(p))
      \/ ExchangeAccepts \/ ExchangeCancels \/ \E id \in known : ExchangeFills(id)
  <2>1. \A c \in Cxns : Connect(c) \/ Leave(c) \/ NewConnection(c) \/ ReadSocket(c)
           => UNCHANGED <<toServer, received, brokerBound>>
    BY Zenon DEF Connect, Leave, NewConnection, ReadSocket, Receive, Disconnect, ReceiveError
  <2>2. \A c \in Cxns : \A kind, num : SendRequest(c, kind, num)
        => UNCHANGED <<toServer, received, brokerBound>>
    BY Zenon DEF SendRequest
  <2>3. Forward \/ SetOpen \/ UNCHANGED vars => UNCHANGED <<toServer, received, brokerBound>>
    BY Zenon DEF Forward, SetOpen
  <2> QED
    BY <1>k, <2>1, <2>2, <2>3 DEF Next, Brokers, SockThread, SendThread, Exchange
<1> QED
  BY <1>1, <1>2, <1>3, <1>4, <1>5, TakeMoves, AcknowledgeMoves, RelayMoves, SendMoves

\* What is heard by whom.
LEMMA Heard ==
    ASSUME IInv, NEW c \in Cxns, NEW x, Hears(c, x)
    PROVE  /\ received'[c] \in {received[c], Append(received[c], x)}
           /\ \A d \in Cxns : d # c => received'[d] = received[d]
<1>1. CASE received' = received
  BY <1>1
<1>2. CASE received' = [received EXCEPT ![c] = Append(@, x)]
  BY <1>2 DEF IInv, Post
<1> QED
  BY <1>1, <1>2 DEF Hears

LEMMA MovesSaid ==
    ASSUME IInv, AllSaid, Said \subseteq Said', NotesMove
    PROVE  AllSaid'
<1> DEFINE Everything == ToSet(toServer) \cup ToSet(Relayed) \cup ToSet(Replies)
                          \cup UNION {ToSet(received[c]) : c \in Cxns}
<1>k. /\ toServer \in Seq(Notes) /\ Relayed \in Seq(Notes) /\ Replies \in Seq(Notes)
      /\ \A c \in Cxns : received[c] \in Seq(Notes)
  BY Places
<1>0. PICK S, X, Y : S = toServer' /\ X = Relayed' /\ Y = Replies'
  OBVIOUS
<1>s. ASSUME ToSet(S) \subseteq Said', ToSet(X) \subseteq Said', ToSet(Y) \subseteq Said',
             \A c \in Cxns : ToSet(received'[c]) \subseteq Said'
      PROVE  AllSaid'
  BY <1>0, <1>s DEF AllSaid
<1>o. /\ ToSet(toServer) \subseteq Said' /\ ToSet(Relayed) \subseteq Said'
      /\ ToSet(Replies) \subseteq Said'
      /\ \A c \in Cxns : ToSet(received[c]) \subseteq Said'
  BY DEF AllSaid
<1>1. CASE Still
  BY <1>0, <1>1, <1>o, <1>s DEF Still
<1>2. ASSUME NEW x \in NewlySaid, Says(x) PROVE AllSaid'
  <2>1. x \in Notes /\ x \in Said'
    BY DEF NewlySaid
  <2>2. ToSet(Append(toServer, x)) = ToSet(toServer) \cup {x}
        /\ ToSet(Append(Replies, x)) = ToSet(Replies) \cup {x}
    BY <1>k, <2>1, AppendedTo
  <2>3. /\ received' = received /\ X = Relayed
        /\ S \in {toServer, Append(toServer, x)} /\ Y \in {Replies, Append(Replies, x)}
    BY <1>0, <1>2 DEF Says
  <2> QED
    BY <1>o, <1>s, <2>1, <2>2, <2>3
<1>3. CASE Relays
  <2>1. PICK h \in Notes : h = Head(toServer)
    BY <1>k, <1>3 DEF Relays
  <2>2. ToSet(toServer) = {h} \cup ToSet(Tail(toServer))
        /\ ToSet(Append(Relayed, h)) = ToSet(Relayed) \cup {h}
    BY <1>k, <1>3, <2>1, TailOf, AppendedTo DEF Relays
  <2>3. received' = received /\ S = Tail(toServer) /\ Y = Replies
        /\ X \in {Relayed, Append(Relayed, h)}
    BY <1>0, <1>3, <2>1 DEF Relays
  <2> QED
    BY <1>o, <1>s, <2>2, <2>3
<1>4. ASSUME NEW c \in Cxns, NEW q \in Seq(Notes), q # <<>>, ToSet(q) \subseteq Said',
             Hears(c, Head(q))
      PROVE  ToSet(Tail(q)) \subseteq Said' /\ \A d \in Cxns : ToSet(received'[d]) \subseteq Said'
  <2>1. PICK x \in Notes : x = Head(q)
    BY <1>4
  <2>2. ToSet(q) = {x} \cup ToSet(Tail(q))
    BY <1>4, <2>1, TailOf
  <2>3. ToSet(Append(received[c], x)) = ToSet(received[c]) \cup {x}
    BY <1>k, AppendedTo
  <2>4. /\ received'[c] \in {received[c], Append(received[c], x)}
        /\ \A d \in Cxns : d # c => received'[d] = received[d]
    BY <1>4, <2>1, Heard
  <2>5. ASSUME NEW d \in Cxns PROVE ToSet(received'[d]) \subseteq Said'
    BY <1>4, <1>o, <2>2, <2>3, <2>4
  <2> QED
    BY <1>4, <2>2, <2>5
<1>5. ASSUME NEW c \in Cxns, SendsReport(c) \/ SendsReply(c) PROVE AllSaid'
  <2>1. CASE SendsReport(c)
    <3>1. ToSet(Tail(Relayed)) \subseteq Said'
          /\ \A d \in Cxns : ToSet(received'[d]) \subseteq Said'
      BY <1>k, <1>o, <1>4, <2>1 DEF SendsReport
    <3>2. S = toServer /\ X = Tail(Relayed) /\ Y = Replies
      BY <1>0, <2>1 DEF SendsReport
    <3> QED
      BY <1>o, <1>s, <3>1, <3>2
  <2>2. CASE SendsReply(c)
    <3>1. ToSet(Tail(Replies)) \subseteq Said'
          /\ \A d \in Cxns : ToSet(received'[d]) \subseteq Said'
      BY <1>k, <1>o, <1>4, <2>2 DEF SendsReply
    <3>2. S = toServer /\ X = Relayed /\ Y = Tail(Replies)
      BY <1>0, <2>2 DEF SendsReply
    <3> QED
      BY <1>o, <1>s, <3>1, <3>2
  <2> QED
    BY <1>5, <2>1, <2>2
<1> QED
  BY <1>1, <1>2, <1>3, <1>5 DEF NotesMove

LEMMA MovesLines ==
    ASSUME IInv, DInv, AllSaid, Lines, NotesMove
    PROVE  Lines'
<1>k. /\ toServer \in Seq(Notes) /\ Relayed \in Seq(Notes) /\ Replies \in Seq(Notes)
      /\ <<>> \in Seq(Notes)
      /\ \A c \in Cxns : received[c] \in Seq(Notes)
  BY Places
<1>0. PICK S, X, Y : S = toServer' /\ X = Relayed' /\ Y = Replies'
  OBVIOUS
<1>s. ASSUME \A c \in Cxns : Line(S, X, received'[c]) /\ Line(<<>>, Y, received'[c]) PROVE Lines'
  BY <1>0, <1>s DEF Lines
<1>o. \A c \in Cxns : Line(toServer, Relayed, received[c]) /\ Line(<<>>, Replies, received[c])
  BY DEF Lines
<1>e. ToSet(<<>>) = {}
  BY DEF ToSet
<1>1. CASE Still
  BY <1>0, <1>1, <1>o, <1>s DEF Still
<1>2. ASSUME NEW x \in NewlySaid, Says(x) PROVE Lines'
  <2>1. x \in Notes
    BY DEF NewlySaid
  <2>2. ASSUME NEW c \in Cxns
        PROVE  Line(Append(toServer, x), Relayed, received[c])
           /\ Line(<<>>, Append(Replies, x), received[c])
    <3>1. Fresh(x, toServer, Relayed, received[c]) /\ Fresh(x, <<>>, Replies, received[c])
      BY <1>e DEF NewlySaid, AllSaid, Fresh
    <3>2. Line(Append(toServer, x), Relayed, received[c])
      BY <1>k, <1>o, <2>1, <3>1, LineAppend
    <3>3. Line(<<>>, Append(Replies, x), received[c])
      BY <1>k, <1>o, <2>1, <3>1, LineAppend
    <3> QED
      BY <3>2, <3>3
  <2>3. /\ received' = received /\ X = Relayed
        /\ S \in {toServer, Append(toServer, x)} /\ Y \in {Replies, Append(Replies, x)}
    BY <1>0, <1>2 DEF Says
  <2> QED
    BY <1>o, <1>s, <2>2, <2>3
<1>3. CASE Relays
  <2>0. toServer # <<>>
    BY <1>3 DEF Relays
  <2>1. PICK h \in Notes : h = Head(toServer)
    BY <1>k, <2>0
  <2>2. received' = received /\ S = Tail(toServer) /\ Y = Replies
        /\ X \in {Relayed, Append(Relayed, h)}
    BY <1>0, <1>3, <2>1 DEF Relays
  <2>3. Tail(toServer) \in Seq(Notes)
    BY <1>k, <2>0
  <2>4. ASSUME NEW c \in Cxns
        PROVE  Line(S, Relayed, received[c]) /\ Line(S, Append(Relayed, h), received[c])
    <3>1. Line(Tail(toServer), Relayed, received[c])
          /\ Fresh(h, Tail(toServer), Relayed, received[c])
      BY <1>k, <1>o, <2>0, <2>1, LineTail
    <3>2. Line(Tail(toServer), Append(Relayed, h), received[c])
      BY <1>k, <2>3, <3>1, LineAppend
    <3> QED
      BY <2>2, <3>1, <3>2
  <2> QED
    BY <1>o, <1>s, <2>2, <2>4
<1>4. ASSUME NEW c \in Cxns, SendsReport(c) PROVE Lines'
  <2>0. /\ Relayed # <<>> /\ X = Tail(Relayed) /\ Hears(c, Head(Relayed))
        /\ Y = Replies /\ S = toServer
    BY <1>0, <1>4 DEF SendsReport
  <2>1. PICK h \in Notes : h = Head(Relayed)
    BY <1>k, <2>0
  <2>2. X \in Seq(Notes) /\ h \in ToSet(Relayed)
    BY <1>k, <2>0, <2>1, TailOf
  <2>3. ASSUME NEW d \in Cxns
        PROVE  /\ Line(S, X, received[d]) /\ Line(S, X, Append(received[d], h))
               /\ Line(<<>>, Y, received[d]) /\ Line(<<>>, Y, Append(received[d], h))
    <3>1. Line(S, X, received[d]) /\ Fresh(h, S, X, received[d])
      BY <1>k, <1>o, <2>0, <2>1, LineTail
    <3>2. Line(S, X, Append(received[d], h))
      BY <1>k, <2>0, <2>2, <3>1, LineAppend
    <3>3. h \notin ToSet(Replies)
      BY <2>2 DEF DInv, Producers
    <3>4. Fresh(h, <<>>, Y, received[d])
      BY <1>e, <2>0, <3>1, <3>3 DEF Fresh
    <3>5. Line(<<>>, Y, received[d])
      BY <1>o, <2>0
    <3>6. Line(<<>>, Y, Append(received[d], h))
      BY <1>k, <2>0, <3>4, <3>5, LineAppend
    <3> QED
      BY <3>1, <3>2, <3>5, <3>6
  <2>4. \A d \in Cxns : received'[d] \in {received[d], Append(received[d], h)}
    BY <2>0, <2>1, Heard
  <2> QED
    BY <1>s, <2>3, <2>4
<1>5. ASSUME NEW c \in Cxns, SendsReply(c) PROVE Lines'
  <2>0. /\ Replies # <<>> /\ Y = Tail(Replies) /\ Hears(c, Head(Replies))
        /\ X = Relayed /\ S = toServer
    BY <1>0, <1>5 DEF SendsReply
  <2>1. PICK h \in Notes : h = Head(Replies)
    BY <1>k, <2>0
  <2>2. Y \in Seq(Notes) /\ h \in ToSet(Replies) /\ h.kind \in {"Ack", "Reject"}
    <3>1. Y \in Seq(Notes) /\ h \in ToSet(Replies)
      BY <1>k, <2>0, <2>1, TailOf
    <3> QED
      BY <3>1 DEF DInv, Producers
  <2>3. ASSUME NEW d \in Cxns
        PROVE  /\ Line(S, X, received[d]) /\ Line(S, X, Append(received[d], h))
               /\ Line(<<>>, Y, received[d]) /\ Line(<<>>, Y, Append(received[d], h))
    <3>1. Line(<<>>, Y, received[d]) /\ Fresh(h, <<>>, Y, received[d])
      BY <1>k, <1>o, <2>0, <2>1, LineTail
    <3>2. Line(<<>>, Y, Append(received[d], h))
      BY <1>k, <2>2, <3>1, LineAppend
    <3>3. h \notin ToSet(Relayed)
      BY <2>2 DEF DInv, Producers
    <3>4. h \notin ToSet(toServer)
      <4>1. \A r \in ToSet(toServer) : r \in Reports
        BY ElementsOf DEF IInv, Rings
      <4> QED
        BY <2>2, <4>1 DEF Reports
    <3>5. Fresh(h, S, X, received[d])
      BY <2>0, <2>2, <3>1, <3>3, <3>4 DEF Fresh
    <3>6. Line(S, X, received[d])
      BY <1>o, <2>0
    <3>7. Line(S, X, Append(received[d], h))
      BY <1>k, <2>0, <3>5, <3>6, LineAppend
    <3> QED
      BY <3>1, <3>2, <3>6, <3>7
  <2>4. \A d \in Cxns : received'[d] \in {received[d], Append(received[d], h)}
    BY <2>0, <2>1, Heard
  <2> QED
    BY <1>s, <2>3, <2>4
<1> QED
  BY <1>1, <1>2, <1>3, <1>4, <1>5 DEF NotesMove

LEMMA InitOnce ==
    ASSUME Init
    PROVE  OInv
<1>1. Relayed = <<>> /\ Replies = <<>> /\ ToSet(<<>>) = {} /\ DOMAIN <<>> = {}
  BY DEF Init, Relayed, Replies, NotesOf, ToSet
<1>2. RequestsOnce
  BY <1>1 DEF Init, RequestsOnce, UniqueIn
<1>3. OrdersOnce
  BY <1>1 DEF Init, OrdersOnce, NewOrders, Numbering
<1>4. AllSaid /\ Lines
  BY <1>1 DEF Init, AllSaid, Lines, Line, OnceIn, Apart
<1> QED
  BY <1>2, <1>3, <1>4 DEF OInv

LEMMA NextOnce ==
    ASSUME EnoughIds, IInv, DInv, OInv, [Next]_vars
    PROVE  OInv'
<1>1. IInv' /\ NotesMove /\ RequestsOnce' /\ RequestsPass
  BY NextIInv, NextMoves, NextRequests DEF OInv
<1>2. OrdersOnce' /\ OrdersPass
  BY <1>1, NextOrders DEF OInv
<1>3. Said \subseteq Said'
  BY <1>1, <1>2, SaidStays
<1>4. AllSaid' /\ Lines'
  BY <1>1, <1>3, MovesSaid, MovesLines DEF OInv
<1> QED
  BY <1>1, <1>2, <1>4 DEF OInv

\* No broker is told the same thing twice, except that a cancel failed: a request is
\* processed once, an order gets one number and goes to the Exchange once, and a note
\* that is taken from one queue goes to the next one only.
THEOREM ServerNoDuplicates == EnoughIds /\ Spec => []NoDuplicates
<1> SUFFICES ASSUME EnoughIds PROVE Spec => []NoDuplicates
  OBVIOUS
<1>1. OInv => NoDuplicates
  BY DEF OInv, Lines, Line, OnceIn, NoDuplicates
<1>2. Init => IInv /\ DInv /\ OInv
  BY InitIInv, InitDelivery, InitOnce
<1>3. IInv /\ DInv /\ OInv /\ [Next]_vars => IInv' /\ DInv' /\ OInv'
  BY NextIInv, NextDelivery, NextOnce
<1> QED
  BY <1>1, <1>2, <1>3, PTL DEF Spec
=============================================================================
