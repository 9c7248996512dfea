------------------------- MODULE MCConcurrentQueue -------------------------
(***************************************************************************)
(* Instances of ConcurrentQueue for TLC.                                   *)
(***************************************************************************)
EXTENDS ConcurrentQueue, TLC

\* Which producer and which consumer does something makes no difference.
ThreadSymmetry == Permutations(Producers) \cup Permutations(Consumers)
=============================================================================
