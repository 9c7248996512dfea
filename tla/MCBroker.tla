------------------------------ MODULE MCBroker ------------------------------
(***************************************************************************)
(* Instances of Broker for TLC.                                            *)
(***************************************************************************)
EXTENDS Broker
=============================================================================
