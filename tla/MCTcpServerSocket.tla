------------------------- MODULE MCTcpServerSocket -------------------------
(***************************************************************************)
(* Instances of TcpServerSocket for TLC.                                   *)
(***************************************************************************)
EXTENDS TcpServerSocket, TLC

\* Which thread of the pool takes a task makes no difference.
ThreadSymmetry == Permutations(PoolThreads)
=============================================================================
