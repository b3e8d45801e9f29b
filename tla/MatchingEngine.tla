---------------------------- MODULE MatchingEngine ----------------------------
(***************************************************************************)
(* The program of phase_4: main.cpp creates an order for each tick, bids   *)
(* and asks in turn, and lets the matching engine trade what it can.  One  *)
(* step is a call of createOrder or an iteration of matchOrders.           *)
(*                                                                         *)
(* The loop condition of matchOrders compares what the iterators refer to, *)
(* also at end(), which is undefined.  In the build an end iterator's pair *)
(* starts with the size of the multimap, which is no price, so the test    *)
(* has the outcome that was meant.  It also compares pairs: where prices   *)
(* are equal, the pointers to the orders decide.                           *)
(***************************************************************************)
EXTENDS Integers, LimitBook

CONSTANTS
    TICK_COUNT,
    Prices,
    Quantities, \* 100 in main.cpp
    batchSize

ASSUME EngineAssumption ==
    /\ TICK_COUNT \in Nat /\ batchSize \in Nat \ {0}
    /\ Prices \subseteq Nat /\ Quantities \subseteq Nat \ {0}

VARIABLES
    i,         \* of the loop in main: the next order's id
    phase,     \* "tick": creates an order next, "match": in matchOrders
    orderMgr,  \* the order manager: book and orderStates
    bestBid,   \* iterators of matchOrders: the id of an order, or End
    bestSell,
    trades,    \* the logger's batch
    printed    \* what it has flushed

vars == <<i, phase, orderMgr, bestBid, bestSell, trades, printed>>

End == -1
Addresses == 1 .. TICK_COUNT
Order == [id : 0 .. TICK_COUNT - 1, price : Prices, quantity : Quantities,
          is_buy : BOOLEAN, address : Addresses]

Begin(orders) == IF orders = <<>> THEN End ELSE Head(orders).id

\* The iterator behind that of order id.
Successor(orders, id) ==
    LET n == PlaceOf(orders, id) IN
    IF n = Len(orders) THEN End ELSE orders[n + 1].id

Init ==
    /\ i = 0 /\ phase = "tick"
    /\ orderMgr = [book |-> EmptyBook, states |-> <<>>]
    /\ bestBid = End /\ bestSell = End
    /\ trades = <<>> /\ printed = <<>>

-----------------------------------------------------------------------------
(* OrderManager.  cancelOrder is never called. *)

FillWithoutDelete(mgr, id) == [mgr EXCEPT !.states[id] = "Filled"]

FillOrder(mgr, id) ==
    [book |-> Deleted(mgr.book, id), states |-> [mgr.states EXCEPT ![id] = "Filled"]]

PartialFillOrder(mgr, id, filledQty) ==
    [book |-> PartiallyFilled(mgr.book, id, filledQty),
     states |-> [mgr.states EXCEPT ![id] = "Partial"]]

FreeAddresses ==
    Addresses \ {o.address : o \in ToSet(orderMgr.book.buy) \cup ToSet(orderMgr.book.sell)}

CreateOrder ==
    /\ phase = "tick" /\ i < TICK_COUNT
    /\ \E price \in Prices, qty \in Quantities, address \in FreeAddresses :
         orderMgr' = [book |-> Added(orderMgr.book,
                                 [id |-> i, price |-> price, quantity |-> qty,
                                  is_buy |-> i % 2 = 0, address |-> address]),
                      states |-> [id \in 0 .. i |->
                                    IF id = i THEN "New" ELSE orderMgr.states[id]]]
    /\ bestBid' = Begin(orderMgr'.book.buy) /\ bestSell' = Begin(orderMgr'.book.sell)
    /\ i' = i + 1 /\ phase' = "match"
    /\ UNCHANGED <<trades, printed>>

-----------------------------------------------------------------------------
(* matchOrders *)

At(orders, id) == orders[PlaceOf(orders, id)]

Bid == At(orderMgr.book.buy, bestBid)
Sell == At(orderMgr.book.sell, bestSell)

\* lines 38-40
Crosses ==
    /\ bestBid # End /\ bestSell # End
    /\ \/ Bid.price > Sell.price
       \/ Bid.price = Sell.price /\ Bid.address >= Sell.address

BatchBeforeTrade == trades

BatchToFlush == Append(trades, <<bestBid, bestSell>>)

LogTrade ==
    IF Len(trades) + 1 >= batchSize
    THEN printed' = printed \o BatchToFlush /\ trades' = <<>>
    ELSE trades' = Append(trades, <<bestBid, bestSell>>) /\ UNCHANGED printed

\* The order that is partially filled is the one just filled and deleted.
BidIsLarger ==
    /\ phase = "match" /\ Crosses /\ Bid.quantity > Sell.quantity
    /\ bestSell' = Successor(orderMgr.book.sell, bestSell)
    /\ orderMgr' = PartialFillOrder(FillOrder(orderMgr, bestSell), bestSell, Bid.quantity)
    /\ LogTrade
    /\ UNCHANGED <<i, phase, bestBid>>

SellIsLarger ==
    /\ phase = "match" /\ Crosses /\ Bid.quantity < Sell.quantity
    /\ bestBid' = Successor(orderMgr.book.buy, bestBid)
    /\ orderMgr' = PartialFillOrder(FillOrder(orderMgr, bestBid), bestBid, Sell.quantity)
    /\ LogTrade
    /\ UNCHANGED <<i, phase, bestSell>>

EqualQuantities ==
    /\ phase = "match" /\ Crosses /\ Bid.quantity = Sell.quantity
    /\ bestSell' = Successor(orderMgr.book.sell, bestSell)
    /\ bestBid' = Successor(orderMgr.book.buy, bestBid)
    /\ orderMgr' = FillOrder(FillOrder(orderMgr, bestBid), bestSell)
    /\ LogTrade
    /\ UNCHANGED <<i, phase>>

EndMatching ==
    /\ phase = "match" /\ ~Crosses
    /\ phase' = "tick"
    /\ UNCHANGED <<i, orderMgr, bestBid, bestSell, trades, printed>>

\* flushLogger, after the last tick.
Flush ==
    /\ phase = "tick" /\ i = TICK_COUNT
    /\ printed' = printed \o trades /\ trades' = <<>>
    /\ phase' = "ended"
    /\ UNCHANGED <<i, orderMgr, bestBid, bestSell>>

Next ==
    CreateOrder \/ BidIsLarger \/ SellIsLarger \/ EqualQuantities \/ EndMatching \/ Flush

Spec == Init /\ [][Next]_vars

-----------------------------------------------------------------------------
\* Matching goes on until no bid exceeds an ask, though its iterators are
\* from before the orders were erased (MatchingEngine.hpp, lines 33-57).
BookIsNotCrossed ==
    phase # "match" =>
        \A b \in ToSet(orderMgr.book.buy), s \in ToSet(orderMgr.book.sell) : b.price <= s.price

\* An order is in the book once and on one side, and it can still trade there:
\* none that is Filled is left behind by the walk of matchOrders (lines 33-57),
\* and none that is New is lost.
StatesMatchBook ==
    LET book == orderMgr.book.buy \o orderMgr.book.sell IN
    /\ Len(book) = Cardinality(Ids(book))
    /\ \A id \in 0 .. i - 1 :
         /\ id \in Ids(book) => orderMgr.states[id] \in {"New", "Partial"}
         /\ orderMgr.states[id] = "New" => id \in Ids(book)

\* What README.md:11 says of the order manager, that it manages "partial fills,
\* and complete fills": between ticks, an order that has traded is Partial if it
\* is in the book and Filled if it is not.  The code marks the order that is
\* gone as Partial and leaves the one that remains New (lines 46-53).
FillsAreManaged ==
    LET log == printed \o trades
        book == orderMgr.book.buy \o orderMgr.book.sell
    IN phase = "tick" =>
         \A n \in DOMAIN log : \A id \in {log[n][1], log[n][2]} :
           orderMgr.states[id] = IF id \in Ids(book) THEN "Partial" ELSE "Filled"

\* A trade is between the best bid and the best ask, the oldest ones of these
\* prices, and at prices that cross.
BestOrdersTrade ==
    [][\A n \in 1 .. Len(printed' \o trades') : n > Len(printed \o trades) =>
         LET bid == At(orderMgr.book.buy, (printed' \o trades')[n][1])
             sell == At(orderMgr.book.sell, (printed' \o trades')[n][2])
         IN /\ bid.price >= sell.price
            /\ \A b \in ToSet(orderMgr.book.buy) :
                 b.price < bid.price \/ (b.price = bid.price /\ b.id >= bid.id)
            /\ \A s \in ToSet(orderMgr.book.sell) :
                 s.price > sell.price \/ (s.price = sell.price /\ s.id >= sell.id)]_vars

\* The log is complete: what is not New has been printed when the program
\* ends, and no trade is printed twice.
EveryFillIsPrinted ==
    LET log == printed \o trades IN
    /\ \A m, n \in DOMAIN log : log[m] = log[n] => m = n
    /\ phase = "ended" =>
         \A id \in 0 .. i - 1 : orderMgr.states[id] # "New" =>
           \E n \in DOMAIN printed : id \in {printed[n][1], printed[n][2]}
=============================================================================
