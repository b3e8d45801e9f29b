--------------------------- MODULE MCOrderPipeline ---------------------------
(***************************************************************************)
(* OrderPipeline for TLC.  Consumers are interchangeable; producers are    *)
(* not, since their numbers are part of the order ids.                     *)
(***************************************************************************)
EXTENDS OrderPipeline, TLC

ConsumerSymmetry == Permutations(Consumers)
=============================================================================
