-------------------------- MODULE MCExchangeServer --------------------------
(***************************************************************************)
(* Instances of ExchangeServer for TLC.                                    *)
(***************************************************************************)
EXTENDS ExchangeServer
=============================================================================
