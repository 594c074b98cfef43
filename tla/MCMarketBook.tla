----------------------------- MODULE MCMarketBook -----------------------------
(* Instances of MarketBook for TLC: skews beyond one half spread each way,  *)
(* no discount and one, small and large orders.                            *)
EXTENDS MarketBook, TLC

SomeSkews == -2..2
=============================================================================
