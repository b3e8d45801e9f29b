--------------------------- MODULE MCChallengeGame ---------------------------
(***************************************************************************)
(* ChallengeGame for TLC.  Clients are interchangeable, and so are the     *)
(* tickers, of which only equality with the target matters.                *)
(***************************************************************************)
EXTENDS ChallengeGame, TLC

GameSymmetry == Permutations(Clients) \cup Permutations(Tickers)
=============================================================================
