------------------------------- MODULE BookTypes -------------------------------
(***************************************************************************)
(* What the order books of phase_5 and hw_5 have in common.                *)
(***************************************************************************)
EXTENDS Integers, FiniteSets

CONSTANTS
  Ids,          \* the order ids a run uses
  Prices,
  Quantities,
  Absent        \* nothing is stored for an id

Order == [price : Prices, quantity : Quantities, isBuy : BOOLEAN]

ASSUME IdsAreFinite == IsFiniteSet(Ids)
ASSUME PricesAreNumbers == Prices \subseteq Int
ASSUME AbsentIsNoValue == Absent \notin Order /\ Absent \notin Nat
=============================================================================
