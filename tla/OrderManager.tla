---------------------------- MODULE OrderManager ----------------------------
(***************************************************************************)
(* The class OrderManager of phase_3/trading_system: the live orders by id *)
(* and the next id.  cancel() has no caller in the program.                *)
(***************************************************************************)
EXTENDS Integers

VARIABLES
    orders, \* the live orders: their price, quantity, filled quantity, status
    next_id

NoOrders == [id \in {} |-> 0]

OrderManagerInit == orders = NoOrders /\ next_id = 1

\* The id the next place_order() assigns.
NewId == next_id

PlaceOrder(p, q) ==
    /\ orders' = [id \in DOMAIN orders \cup {NewId} |->
                    IF id = NewId
                    THEN [price |-> p, quantity |-> q, filled |-> 0, status |-> "New"]
                    ELSE orders[id]]
    /\ next_id' = next_id + 1

Live(id) == id \in DOMAIN orders

\* The fill brings the order to its quantity or beyond.
Completes(id, qty) ==
    Live(id) /\ orders[id].filled + qty >= orders[id].quantity

\* Three outcomes of handle_fill(): the order is completed and erased, it is
\* partially filled, or the id is unknown.
CompleteFill(id, qty) ==
    /\ Completes(id, qty)
    /\ orders' = [i \in DOMAIN orders \ {id} |-> orders[i]]
    /\ UNCHANGED next_id

PartialFill(id, qty) ==
    /\ Live(id) /\ ~Completes(id, qty)
    /\ orders' = [orders EXCEPT ![id].filled = @ + qty,
                                ![id].status = "PartiallyFilled"]
    /\ UNCHANGED next_id

UnknownFill(id) == ~Live(id) /\ UNCHANGED <<orders, next_id>>
=============================================================================
