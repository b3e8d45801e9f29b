------------------------------- MODULE BookSpec -------------------------------
(***************************************************************************)
(* What an order book promises, however it is indexed: it holds one order  *)
(* per id, as last added or modified, until the order is deleted.          *)
(***************************************************************************)
EXTENDS BookTypes

VARIABLE orders     \* the order of each id, or Absent

Init == orders = [id \in Ids |-> Absent]

Add(id) ==
  /\ orders[id] = Absent
  /\ \E o \in Order : orders' = [orders EXCEPT ![id] = o]

Modify(id) ==
  /\ orders[id] # Absent
  /\ \E p \in Prices, q \in Quantities :
       orders' = [orders EXCEPT ![id] = [price |-> p, quantity |-> q, isBuy |-> orders[id].isBuy]]

Delete(id) ==
  /\ orders[id] # Absent
  /\ orders' = [orders EXCEPT ![id] = Absent]

Next == \E id \in Ids : Add(id) \/ Modify(id) \/ Delete(id)

Spec == Init /\ [][Next]_orders
=============================================================================
