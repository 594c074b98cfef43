---------------------------- MODULE MCMarketMaker ----------------------------
(* Instances of MarketMaker for TLC.                                       *)
EXTENDS MarketMaker, TLC
=============================================================================
