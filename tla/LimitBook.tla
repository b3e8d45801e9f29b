------------------------------ MODULE LimitBook ------------------------------
(***************************************************************************)
(* The order book of phase_4 (OrderBook.hpp, classes OrderBook and         *)
(* OrderBookNewPtrs, which differ in who owns an order).  A multimap is    *)
(* the sequence of its orders from begin() on; ids are unique, as the      *)
(* program numbers its orders.                                             *)
(***************************************************************************)
EXTENDS Naturals, SequencesExt

EmptyBook == [buy |-> <<>>, sell |-> <<>>]

Ids(orders) == {orders[i].id : i \in DOMAIN orders}

\* What find_if finds: the order of that id.
PlaceOf(orders, id) == CHOOSE n \in DOMAIN orders : orders[n].id = id

\* Comparators of the multimaps: greater for bids, less for asks.
LowestFirst(o, other) == o.price < other.price

Precedes(o, other) ==
    IF o.is_buy THEN o.price > other.price ELSE o.price < other.price

BeforeEquals(orders, o) ==
    CHOOSE n \in 1 .. Len(orders) + 1 :
        \A m \in DOMAIN orders : m < n <=> Precedes(orders[m], o)

\* emplace: behind the orders with the same price.
Position(orders, o) ==
    CHOOSE n \in 1 .. Len(orders) + 1 :
        \A m \in DOMAIN orders : n <= m <=> Precedes(o, orders[m])

SideOf(o) == IF o.is_buy THEN "buy" ELSE "sell"

Added(book, o) ==
    [book EXCEPT ![SideOf(o)] = InsertAt(@, Position(@, o), o)]

\* deleteOrder and partialFillOrder look into the bids first, and do nothing
\* if the id is on neither side.
Holder(book, id) == IF id \in Ids(book.buy) THEN "buy" ELSE "sell"

Deleted(book, id) ==
    IF id \in Ids(book.buy) \cup Ids(book.sell)
    THEN [book EXCEPT ![Holder(book, id)] = RemoveAt(@, PlaceOf(@, id))]
    ELSE book

Reduced(o, id, filledQty) ==
    IF o.id = id THEN [o EXCEPT !.quantity = @ - filledQty] ELSE o

PartiallyFilled(book, id, filledQty) ==
    LET side == Holder(book, id)  orders == book[side] IN
    [book EXCEPT ![side] = [i \in DOMAIN orders |-> Reduced(orders[i], id, filledQty)]]
=============================================================================
