----------------------------- MODULE MCOrderBooks -----------------------------
(***************************************************************************)
(* OrderBooks for TLC.  Ids are interchangeable.                           *)
(***************************************************************************)
EXTENDS OrderBooks, TLC

IdSymmetry == Permutations(Ids)
=============================================================================
