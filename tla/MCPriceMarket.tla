---------------------------- MODULE MCPriceMarket ----------------------------
(***************************************************************************)
(* PriceMarket for TLC.  Clients are interchangeable.                      *)
(***************************************************************************)
EXTENDS PriceMarket, TLC

MarketSymmetry == Permutations(Clients)
=============================================================================
