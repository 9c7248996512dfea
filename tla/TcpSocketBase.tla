--------------------------- MODULE TcpSocketBase ---------------------------
(***************************************************************************)
(* What the two ends of a connection share                                 *)
(* (src/misc/TcpSocket/TcpSocketBase.cpp): how a stream of bytes is cut    *)
(* into messages.  Message n of connection c is <<c, n>>; it travels as    *)
(* two units, its head (with the length) and the rest.                     *)
(***************************************************************************)
EXTENDS Integers, Sequences

Head_(m) == <<m, "head">>
Rest_(m) == <<m, "rest">>

\* bytes that do not start at a head make a message that nobody sent
Garbage == <<0, 0>>

\* a whole message is at the front of the buffer
\* (slip: more than that must be there)
HasMore(buffer) == Len(buffer) > 2
HasMsg(buffer) == Len(buffer) >= 2

FrontMsg(buffer) ==
    LET m == buffer[1][1]
    IN  IF buffer[1] = Head_(m) /\ buffer[2] = Rest_(m) THEN m ELSE Garbage

\* what is left once the message at the front is taken
\* (slip: the buffer is not resized)
NotResized(buffer) == buffer
Leftover(buffer) == SubSeq(buffer, 3, Len(buffer))
=============================================================================
