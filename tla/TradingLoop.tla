----------------------------- MODULE TradingLoop -----------------------------
(***************************************************************************)
(* The event loop of phase_3/main.cpp: every feed event goes to the order  *)
(* manager, then to the strategy, then to the market snapshot.             *)
(*                                                                         *)
(* The strategy keeps its own idea of the best prices (0 for none) and has *)
(* two triggers, each with at most one sell order in the market: a bid     *)
(* that improves the best bid by exactly BID_INCREMENT, and an ask that is *)
(* worse than the best ask or than the one that was last removed.          *)
(***************************************************************************)
EXTENDS MarketSnapshot, OrderManager

CONSTANTS
    Fills,    \* quantities of EXECUTION events, 0 or negative ones included
    MaxOrders \* bound: the feed triggers no more orders than this

ASSUME LoopAssumption == Fills \subseteq Int /\ MaxOrders \in Nat

BID_INCREMENT == 2  \* cents
BidOrderQuantity == 100
AskOrderQuantity == 50

VARIABLES
    best_bid, best_ask, prev_ask, \* prices, 0 for none
    bid_order_sent, bid_order_id,
    ask_order_sent, ask_order_id

snapshot == <<bids, asks, bookEvent>>
orderManager == <<orders, next_id>>
bidSide == <<best_bid, bid_order_sent, bid_order_id>>
askSide == <<best_ask, prev_ask, ask_order_sent, ask_order_id>>
vars == <<bids, asks, bookEvent, orders, next_id, best_bid, best_ask, prev_ask,
          bid_order_sent, bid_order_id, ask_order_sent, ask_order_id>>

Init ==
    /\ SnapshotInit
    /\ OrderManagerInit
    /\ best_bid = 0 /\ best_ask = 0 /\ prev_ask = 0
    /\ bid_order_sent = FALSE /\ bid_order_id = 0
    /\ ask_order_sent = FALSE /\ ask_order_id = 0

-----------------------------------------------------------------------------
(* EXECUTION events *)

\* The trigger whose order is completed is armed again.
OrderCompleted(id, qty) ==
    /\ CompleteFill(id, qty)
    /\ IF id = ask_order_id THEN ask_order_sent' = FALSE /\ ask_order_id' = 0
                            ELSE UNCHANGED <<ask_order_sent, ask_order_id>>
    /\ IF id = bid_order_id THEN bid_order_sent' = FALSE /\ bid_order_id' = 0
                            ELSE UNCHANGED <<bid_order_sent, bid_order_id>>
    /\ SnapshotOther
    /\ UNCHANGED <<best_bid, best_ask, prev_ask>>

OrderPartiallyFilled(id, qty) ==
    PartialFill(id, qty) /\ SnapshotOther /\ UNCHANGED <<bidSide, askSide>>

UnknownOrderFilled(id) ==
    UnknownFill(id) /\ SnapshotOther /\ UNCHANGED <<bidSide, askSide>>

-----------------------------------------------------------------------------
(* BID events *)

Improved(price) == best_bid = 0 \/ price > best_bid

SellsOnBidRepeatedly(price) == best_bid > 0 /\ price - best_bid = BID_INCREMENT

SellsOnBid(price) ==
    ~bid_order_sent /\ best_bid > 0 /\ price - best_bid = BID_INCREMENT

BidImproves(price, qty) ==
    /\ Improved(price)
    /\ IF SellsOnBid(price)
       THEN /\ next_id <= MaxOrders
            /\ PlaceOrder(price, BidOrderQuantity)
            /\ bid_order_sent' = TRUE
            /\ bid_order_id' = NewId
       ELSE UNCHANGED <<orderManager, bid_order_sent, bid_order_id>>
    /\ best_bid' = price
    /\ SnapshotBid(price, qty)
    /\ UNCHANGED askSide

BidBelowBest(price, qty) ==
    /\ ~Improved(price)
    /\ SnapshotBid(price, qty)
    /\ UNCHANGED <<orderManager, bidSide, askSide>>

\* Removing the best bid leaves the strategy with none, whatever levels remain.
BidRemoved(price) ==
    /\ best_bid' = IF price = best_bid THEN 0 ELSE best_bid
    /\ SnapshotBid(price, 0)
    /\ UNCHANGED <<orderManager, bid_order_sent, bid_order_id, askSide>>

-----------------------------------------------------------------------------
(* ASK events *)

First == best_ask = 0
Better(price) == ~First /\ price < best_ask
Worse(price) == ~First /\ price > best_ask
ReopenWorse(price) == First /\ prev_ask > 0 /\ price > prev_ask

OldAskIsPrevAsk == prev_ask

\* The price the strategy sells at: the last better ask.
OldAsk == IF First THEN prev_ask ELSE best_ask

AskWorsens(price, qty) ==
    /\ (Worse(price) \/ ReopenWorse(price))
    /\ IF ask_order_sent
       THEN UNCHANGED <<orderManager, ask_order_sent, ask_order_id>>
       ELSE /\ next_id <= MaxOrders
            /\ PlaceOrder(OldAsk, AskOrderQuantity)
            /\ ask_order_sent' = TRUE
            /\ ask_order_id' = NewId
    /\ prev_ask' = best_ask
    /\ best_ask' = price
    /\ SnapshotAsk(price, qty)
    /\ UNCHANGED bidSide

AskOpensOrImproves(price, qty) ==
    /\ ~ReopenWorse(price) /\ (First \/ Better(price))
    /\ prev_ask' = best_ask
    /\ best_ask' = price
    /\ SnapshotAsk(price, qty)
    /\ UNCHANGED <<orderManager, bidSide, ask_order_sent, ask_order_id>>

AskAtBest(price, qty) ==
    /\ price = best_ask
    /\ SnapshotAsk(price, qty)
    /\ UNCHANGED <<orderManager, bidSide, askSide>>

BestAskForgotten(price) == price = best_ask /\ best_ask < 0

BestAskGone(price) == price = best_ask

AskRemoved(price) ==
    /\ IF BestAskGone(price)
       THEN prev_ask' = best_ask /\ best_ask' = 0
       ELSE UNCHANGED <<prev_ask, best_ask>>
    /\ SnapshotAsk(price, 0)
    /\ UNCHANGED <<orderManager, bidSide, ask_order_sent, ask_order_id>>

-----------------------------------------------------------------------------
Execution ==
    \E id \in 1 .. MaxOrders, qty \in Fills :
        OrderCompleted(id, qty) \/ OrderPartiallyFilled(id, qty) \/ UnknownOrderFilled(id)

Bid ==
    \/ \E price \in Prices, qty \in Quantities :
           BidImproves(price, qty) \/ BidBelowBest(price, qty)
    \/ \E price \in Prices : BidRemoved(price)

Ask ==
    \/ \E price \in Prices, qty \in Quantities :
           \/ AskWorsens(price, qty)
           \/ AskOpensOrImproves(price, qty)
           \/ AskAtBest(price, qty)
    \/ \E price \in Prices : AskRemoved(price)

Next == Execution \/ Bid \/ Ask

Spec == Init /\ [][Next]_vars

-----------------------------------------------------------------------------
OrderRecord == [price : Prices, quantity : {BidOrderQuantity, AskOrderQuantity},
                filled : Int, status : {"New", "PartiallyFilled"}]

\* The types; a quoted level has a positive quantity.
TypeOK ==
    /\ DOMAIN bids \subseteq Prices /\ \A p \in DOMAIN bids : bids[p] \in Quantities
    /\ DOMAIN asks \subseteq Prices /\ \A p \in DOMAIN asks : asks[p] \in Quantities
    /\ bookEvent \in BookEvents
    /\ next_id \in Nat \ {0}
    /\ DOMAIN orders \subseteq 1 .. next_id - 1
    /\ \A id \in DOMAIN orders : orders[id] \in OrderRecord
    /\ best_bid \in Prices \cup {0}
    /\ best_ask \in Prices \cup {0} /\ prev_ask \in Prices \cup {0}
    /\ bid_order_sent \in BOOLEAN /\ bid_order_id \in Nat
    /\ ask_order_sent \in BOOLEAN /\ ask_order_id \in Nat

\* The orders in the market are exactly those the two triggers remember, each
\* trigger has at most one, and a trigger is disarmed just while its order is
\* live: no duplicate trade and no trigger that stays off for ever (lines 37-40,
\* 46-51 and 71-77 of main.cpp against orders of the order manager).
TriggersOwnTheirOrders ==
    /\ DOMAIN orders = {ask_order_id, bid_order_id} \ {0}
    /\ ask_order_sent <=> ask_order_id # 0
    /\ bid_order_sent <=> bid_order_id # 0
    /\ ask_order_id # 0 => ask_order_id # bid_order_id

\* A live order is not filled up, and one that is still New has had no fill at
\* all (handle_fill, lines 25-49).  The converse does not hold: an execution of
\* quantity 0 makes an order PartiallyFilled (line 43).
LiveOrdersAreOpen ==
    \A id \in DOMAIN orders :
        /\ orders[id].filled < orders[id].quantity
        /\ orders[id].status = "New" => orders[id].filled = 0

\* The strategy's best prices are quoted in the snapshot, and the price it
\* remembers of a removed best ask is not: its own copies (lines 22-24) never
\* survive the levels they stand for.
StrategyPricesAreQuoted ==
    /\ best_bid # 0 => best_bid \in DOMAIN bids
    /\ best_ask # 0 => best_ask \in DOMAIN asks
    /\ best_ask = 0 /\ prev_ask # 0 => prev_ask \notin DOMAIN asks

\* An id names one order for ever: what was completed never comes back.
IdsAreNotReused ==
    [][\A id \in 1 .. next_id - 1 : id \in DOMAIN orders' => id \in DOMAIN orders]_vars

\* A sale on a worse ask has a price, and undercuts the ask that triggered it;
\* a sale on a better bid is at a price that is bid (lines 48 and 73).
SalesArePricedToTrade ==
    [][\A id \in DOMAIN orders' \ DOMAIN orders :
           /\ id = ask_order_id' => 0 < orders'[id].price /\ orders'[id].price < best_ask'
           /\ id = bid_order_id' => orders'[id].price \in DOMAIN bids']_vars

\* The snapshot never changes its best bid or best ask without reporting it
\* (market_snapshot.cpp, lines 3-33).
BestChangesAreReported ==
    [][/\ (\E p \in Prices : IsBestBid(bids, p) # IsBestBid(bids', p))
             => bookEvent' \in {"NewBestBid", "BestBidRemoved"}
       /\ (\E p \in Prices : IsBestAsk(asks, p) # IsBestAsk(asks', p))
             => bookEvent' \in {"NewBestAsk", "BestAskRemoved"}]_vars
=============================================================================
