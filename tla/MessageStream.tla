--------------------------- MODULE MessageStream ---------------------------
(***************************************************************************)
(* What a receiving socket promises its user: the messages of a connection *)
(* are delivered whole, in the order in which they were sent, and once.    *)
(* TcpServerSocket and Broker implement it (property StreamSpec there).    *)
(***************************************************************************)
EXTENDS Naturals, Sequences

CONSTANT Cxns
VARIABLES sent, delivered   \* how many messages, and which

streamVars == <<sent, delivered>>

Init ==
    /\ sent = [c \in Cxns |-> 0]
    /\ delivered = [c \in Cxns |-> <<>>]

Send(c) == sent' = [sent EXCEPT ![c] = @ + 1] /\ UNCHANGED delivered

\* one read may complete several messages
Deliver(c) ==
    /\ \E n \in Len(delivered[c]) + 1 .. sent[c] :
          delivered' = [delivered EXCEPT ![c] = [i \in 1 .. n |-> <<c, i>>]]
    /\ UNCHANGED sent

Next == \E c \in Cxns : Send(c) \/ Deliver(c)

Spec == Init /\ [][Next]_streamVars
=============================================================================
