-------------------------- MODULE MCMatchingEngine --------------------------
(***************************************************************************)
(* Instances of MatchingEngine for TLC.                                    *)
(***************************************************************************)
EXTENDS MatchingEngine, TLC

\* sessions are compared for equality only
SessionSymmetry == Permutations(Sessions)
=============================================================================
