-------------------------- MODULE TradingLoopProofs --------------------------
(***************************************************************************)
(* Theorems about TradingLoop, for any prices, quantities, fills and any   *)
(* number of orders: the invariants of the order triggers, of the live     *)
(* orders and of the strategy's copies of the best prices, and the action  *)
(* properties that follow.                                                 *)
(***************************************************************************)
EXTENDS TradingLoop, TLAPS

\* The four invariants together are inductive.
IInv ==
    /\ TypeOK
    /\ TriggersOwnTheirOrders
    /\ LiveOrdersAreOpen
    /\ StrategyPricesAreQuoted

LEMMA InitInv == Init => IInv
<1> SUFFICES ASSUME Init PROVE IInv
  OBVIOUS
<1> USE DEF Init, SnapshotInit, OrderManagerInit
<1>1. DOMAIN bids = {} /\ DOMAIN asks = {} /\ DOMAIN orders = {}
  BY DEF NoLevels, NoOrders
<1>2. TypeOK
  <2>1. bid_order_sent \in BOOLEAN /\ ask_order_sent \in BOOLEAN
    OBVIOUS
  <2>. QED BY <1>1, <2>1 DEF TypeOK, BookEvents
<1>3. TriggersOwnTheirOrders
  BY <1>1 DEF TriggersOwnTheirOrders
<1>4. LiveOrdersAreOpen /\ StrategyPricesAreQuoted
  BY <1>1 DEF LiveOrdersAreOpen, StrategyPricesAreQuoted
<1>. QED BY <1>2, <1>3, <1>4 DEF IInv

-----------------------------------------------------------------------------
(* The snapshot's part of a step *)

LEMMA SnapshotBidStep ==
    ASSUME TypeOK, NEW price \in Prices, NEW qty \in Quantities \cup {0}, SnapshotBid(price, qty)
    PROVE  /\ DOMAIN bids' \subseteq Prices
           /\ \A p \in DOMAIN bids' : bids'[p] \in Quantities
           /\ bookEvent' \in BookEvents
           /\ asks' = asks
           /\ DOMAIN bids' = IF qty = 0 THEN DOMAIN bids \ {price}
                                        ELSE DOMAIN bids \cup {price}
BY DEF TypeOK, SnapshotBid, Updated, Without, With, BidEvent, BookEvents

LEMMA SnapshotAskStep ==
    ASSUME TypeOK, NEW price \in Prices, NEW qty \in Quantities \cup {0}, SnapshotAsk(price, qty)
    PROVE  /\ DOMAIN asks' \subseteq Prices
           /\ \A p \in DOMAIN asks' : asks'[p] \in Quantities
           /\ bookEvent' \in BookEvents
           /\ bids' = bids
           /\ DOMAIN asks' = IF qty = 0 THEN DOMAIN asks \ {price}
                                        ELSE DOMAIN asks \cup {price}
BY DEF TypeOK, SnapshotAsk, Updated, Without, With, AskEvent, BookEvents

\* A placed order is open, carries a new id and disturbs no other order.
LEMMA PlaceOrderStep ==
    ASSUME TypeOK, LiveOrdersAreOpen, NEW p \in Prices,
           NEW q \in {BidOrderQuantity, AskOrderQuantity}, PlaceOrder(p, q)
    PROVE  /\ DOMAIN orders' = DOMAIN orders \cup {next_id}
           /\ next_id \notin DOMAIN orders
           /\ next_id' = next_id + 1 /\ next_id' \in Nat \ {0}
           /\ DOMAIN orders' \subseteq 1 .. next_id' - 1
           /\ \A id \in DOMAIN orders' : orders'[id] \in OrderRecord
           /\ orders'[next_id].price = p
           /\ LiveOrdersAreOpen'
<1> USE DEF PlaceOrder, NewId, TypeOK
<1>1. next_id \notin DOMAIN orders
  OBVIOUS
<1>2. orders'[next_id] = [price |-> p, quantity |-> q, filled |-> 0, status |-> "New"]
  OBVIOUS
<1>3. \A id \in DOMAIN orders : orders'[id] = orders[id]
  BY <1>1
<1>4. orders'[next_id] \in OrderRecord
  BY <1>2 DEF OrderRecord
<1>5. \A id \in DOMAIN orders' : orders'[id] \in OrderRecord
  BY <1>3, <1>4
<1>6. LiveOrdersAreOpen'
  BY <1>2, <1>3 DEF LiveOrdersAreOpen, BidOrderQuantity, AskOrderQuantity
<1>7. next_id' = next_id + 1 /\ next_id' \in Nat \ {0}
  OBVIOUS
<1>8. DOMAIN orders' = DOMAIN orders \cup {next_id}
  OBVIOUS
<1>9. DOMAIN orders' \subseteq 1 .. next_id' - 1
  BY <1>7, <1>8
<1>. QED BY <1>1, <1>2, <1>5, <1>6, <1>7, <1>8, <1>9

-----------------------------------------------------------------------------
(* EXECUTION events *)

LEMMA OrderCompletedInv ==
    ASSUME IInv, NEW id \in Nat, NEW qty \in Fills, OrderCompleted(id, qty)
    PROVE  IInv'
<1> USE DEF IInv, OrderCompleted, CompleteFill, Completes, Live, SnapshotOther
<1>1. id \in DOMAIN orders /\ id # 0
  BY DEF TypeOK
<1>2. TypeOK'
  <2>1. /\ DOMAIN orders' \subseteq DOMAIN orders
        /\ \A i \in DOMAIN orders' : orders'[i] = orders[i]
    OBVIOUS
  <2>2. bid_order_sent' \in BOOLEAN /\ ask_order_sent' \in BOOLEAN
    BY DEF TypeOK
  <2>3. bid_order_id' \in Nat /\ ask_order_id' \in Nat
    BY DEF TypeOK
  <2>. QED BY <2>1, <2>2, <2>3 DEF TypeOK, BookEvents
<1>3. TriggersOwnTheirOrders'
  BY <1>1 DEF TriggersOwnTheirOrders
<1>4. LiveOrdersAreOpen'
  BY DEF LiveOrdersAreOpen
<1>5. StrategyPricesAreQuoted'
  BY DEF StrategyPricesAreQuoted
<1>. QED BY <1>2, <1>3, <1>4, <1>5

LEMMA OrderPartiallyFilledInv ==
    ASSUME IInv, NEW id \in Nat, NEW qty \in Fills, OrderPartiallyFilled(id, qty)
    PROVE  IInv'
<1> USE DEF IInv, OrderPartiallyFilled, PartialFill, Completes, Live, SnapshotOther,
            bidSide, askSide
<1>1. qty \in Int
  BY LoopAssumption
<1>2. orders[id] \in OrderRecord
  BY DEF TypeOK
<1>3. /\ DOMAIN orders' = DOMAIN orders
      /\ \A i \in DOMAIN orders : i # id => orders'[i] = orders[i]
      /\ orders'[id] = [orders[id] EXCEPT !.filled = @ + qty,
                                          !.status = "PartiallyFilled"]
  BY <1>2 DEF OrderRecord
<1>4. /\ orders'[id] \in OrderRecord
      /\ orders'[id].filled = orders[id].filled + qty
      /\ orders'[id].quantity = orders[id].quantity
      /\ orders'[id].status = "PartiallyFilled"
  <2>1. orders[id].filled + qty \in Int
    BY <1>1, <1>2 DEF OrderRecord
  <2>2. orders'[id] = [price    |-> orders[id].price,
                       quantity |-> orders[id].quantity,
                       filled   |-> orders[id].filled + qty,
                       status   |-> "PartiallyFilled"]
    BY <1>2, <1>3 DEF OrderRecord
  <2>. QED BY <1>2, <2>1, <2>2 DEF OrderRecord
<1>5. TypeOK'
  BY <1>3, <1>4 DEF TypeOK, BookEvents
<1>6. TriggersOwnTheirOrders'
  BY <1>3 DEF TriggersOwnTheirOrders
<1>7. LiveOrdersAreOpen'
  <2>1. orders'[id].filled < orders'[id].quantity
    BY <1>1, <1>2, <1>4
       DEF OrderRecord, BidOrderQuantity, AskOrderQuantity
  <2>. QED BY <1>3, <1>4, <2>1 DEF LiveOrdersAreOpen
<1>8. StrategyPricesAreQuoted'
  BY DEF StrategyPricesAreQuoted
<1>. QED BY <1>5, <1>6, <1>7, <1>8

LEMMA UnknownOrderFilledInv ==
    ASSUME IInv, NEW id \in Nat, UnknownOrderFilled(id)
    PROVE  IInv'
BY DEF IInv, UnknownOrderFilled, UnknownFill, SnapshotOther, bidSide, askSide, TypeOK,
       BookEvents, TriggersOwnTheirOrders, LiveOrdersAreOpen, StrategyPricesAreQuoted

-----------------------------------------------------------------------------
(* BID events *)

LEMMA BidImprovesInv ==
    ASSUME IInv, NEW price \in Prices, NEW qty \in Quantities, BidImproves(price, qty)
    PROVE  IInv'
<1> USE DEF IInv, askSide, orderManager
<1>1. /\ SnapshotBid(price, qty) /\ qty # 0 /\ best_bid' = price
      /\ UNCHANGED <<best_ask, prev_ask, ask_order_sent, ask_order_id>>
  BY SnapshotAssumption DEF BidImproves
<1>2. StrategyPricesAreQuoted'
  BY <1>1, SnapshotBidStep DEF StrategyPricesAreQuoted
<1>3. CASE SellsOnBid(price)
  <2>1. /\ PlaceOrder(price, BidOrderQuantity)
        /\ bid_order_sent' = TRUE /\ bid_order_id' = next_id /\ ~bid_order_sent
    BY <1>3 DEF BidImproves, SellsOnBid, NewId
  <2>2. TypeOK'
    BY <1>1, <2>1, SnapshotBidStep, PlaceOrderStep DEF TypeOK
  <2>3. TriggersOwnTheirOrders'
    <3>1. bid_order_id = 0 /\ next_id # 0 /\ ask_order_id # next_id
      BY <2>1, PlaceOrderStep DEF TriggersOwnTheirOrders, TypeOK
    <3>2. DOMAIN orders' = DOMAIN orders \cup {next_id}
      BY <2>1, PlaceOrderStep
    <3>. QED BY <1>1, <2>1, <3>1, <3>2 DEF TriggersOwnTheirOrders
  <2>4. LiveOrdersAreOpen'
    BY <2>1, PlaceOrderStep
  <2>. QED BY <1>2, <2>2, <2>3, <2>4
<1>4. CASE ~SellsOnBid(price)
  <2>1. UNCHANGED <<orders, next_id, bid_order_sent, bid_order_id>>
    BY <1>4 DEF BidImproves
  <2>2. TypeOK'
    BY <1>1, <2>1, SnapshotBidStep DEF TypeOK
  <2>. QED
    BY <1>1, <1>2, <2>1, <2>2 DEF TriggersOwnTheirOrders, LiveOrdersAreOpen
<1>. QED BY <1>3, <1>4

LEMMA BidBelowBestInv ==
    ASSUME IInv, NEW price \in Prices, NEW qty \in Quantities, BidBelowBest(price, qty)
    PROVE  IInv'
<1> USE DEF IInv, BidBelowBest, bidSide, askSide, orderManager
<1>1. TypeOK'
  BY SnapshotBidStep DEF TypeOK
<1>2. StrategyPricesAreQuoted'
  <2>1. DOMAIN bids \subseteq DOMAIN bids' /\ asks' = asks
    BY SnapshotBidStep, SnapshotAssumption
  <2>. QED BY <2>1 DEF StrategyPricesAreQuoted
<1>. QED BY <1>1, <1>2 DEF TriggersOwnTheirOrders, LiveOrdersAreOpen

LEMMA BidRemovedInv ==
    ASSUME IInv, NEW price \in Prices, BidRemoved(price)
    PROVE  IInv'
<1> USE DEF IInv, BidRemoved, askSide, orderManager
<1>1. TypeOK'
  BY SnapshotBidStep DEF TypeOK
<1>2. StrategyPricesAreQuoted'
  BY SnapshotBidStep DEF StrategyPricesAreQuoted
<1>. QED BY <1>1, <1>2 DEF TriggersOwnTheirOrders, LiveOrdersAreOpen

-----------------------------------------------------------------------------
(* ASK events *)

\* The price of a sale on a worse ask is a price, and below that ask.
LEMMA OldAskIsBetter ==
    ASSUME TypeOK, NEW price \in Prices, Worse(price) \/ ReopenWorse(price)
    PROVE  OldAsk \in Prices /\ OldAsk < price
<1>1. CASE Worse(price)
  BY <1>1 DEF Worse, First, OldAsk, TypeOK
<1>2. CASE ReopenWorse(price)
  BY <1>2 DEF ReopenWorse, First, OldAsk, TypeOK
<1>. QED BY <1>1, <1>2

LEMMA AskWorsensInv ==
    ASSUME IInv, NEW price \in Prices, NEW qty \in Quantities, AskWorsens(price, qty)
    PROVE  IInv'
<1> USE DEF IInv, bidSide, orderManager
<1>1. /\ SnapshotAsk(price, qty) /\ qty # 0 /\ price # 0
      /\ best_ask' = price /\ prev_ask' = best_ask
      /\ UNCHANGED <<best_bid, bid_order_sent, bid_order_id>>
  BY SnapshotAssumption DEF AskWorsens
<1>2. StrategyPricesAreQuoted'
  <2>1. price \in DOMAIN asks' /\ bids' = bids
    BY <1>1, SnapshotAskStep
  <2>. QED BY <1>1, <2>1 DEF StrategyPricesAreQuoted
<1>3. CASE ~ask_order_sent
  <2>1. /\ PlaceOrder(OldAsk, AskOrderQuantity)
        /\ ask_order_sent' = TRUE /\ ask_order_id' = next_id
    BY <1>3 DEF AskWorsens, NewId
  <2>2. OldAsk \in Prices
    BY OldAskIsBetter DEF AskWorsens
  <2>3. TypeOK'
    <3>1. ask_order_sent' \in BOOLEAN
      BY <2>1
    <3>. QED BY <1>1, <2>1, <2>2, <3>1, SnapshotAskStep, PlaceOrderStep DEF TypeOK
  <2>4. TriggersOwnTheirOrders'
    <3>1. ask_order_id = 0 /\ next_id # 0 /\ bid_order_id # next_id
      BY <1>3, <2>1, <2>2, PlaceOrderStep DEF TriggersOwnTheirOrders, TypeOK
    <3>2. DOMAIN orders' = DOMAIN orders \cup {next_id}
      BY <2>1, <2>2, PlaceOrderStep
    <3>. QED BY <1>1, <2>1, <3>1, <3>2 DEF TriggersOwnTheirOrders
  <2>5. LiveOrdersAreOpen'
    BY <2>1, <2>2, PlaceOrderStep
  <2>. QED BY <1>2, <2>3, <2>4, <2>5
<1>4. CASE ask_order_sent
  <2>1. UNCHANGED <<orders, next_id, ask_order_sent, ask_order_id>>
    BY <1>4 DEF AskWorsens
  <2>2. TypeOK'
    BY <1>1, <2>1, SnapshotAskStep DEF TypeOK
  <2>. QED
    BY <1>1, <1>2, <2>1, <2>2 DEF TriggersOwnTheirOrders, LiveOrdersAreOpen
<1>. QED BY <1>3, <1>4

LEMMA AskOpensOrImprovesInv ==
    ASSUME IInv, NEW price \in Prices, NEW qty \in Quantities,
           AskOpensOrImproves(price, qty)
    PROVE  IInv'
<1> USE DEF IInv, bidSide, orderManager, AskOpensOrImproves
<1>1. price \in DOMAIN asks' /\ bids' = bids /\ price # 0
  <2>1. TypeOK /\ SnapshotAsk(price, qty)
    OBVIOUS
  <2>2. qty \in Quantities \cup {0} /\ qty # 0 /\ price # 0
    BY SnapshotAssumption
  <2>. QED BY ONLY <2>1, <2>2, SnapshotAskStep, price \in Prices
<1>2. TypeOK'
  BY SnapshotAskStep DEF TypeOK
<1>3. StrategyPricesAreQuoted'
  BY <1>1 DEF StrategyPricesAreQuoted
<1>. QED BY <1>2, <1>3 DEF TriggersOwnTheirOrders, LiveOrdersAreOpen

LEMMA AskAtBestInv ==
    ASSUME IInv, NEW price \in Prices, NEW qty \in Quantities, AskAtBest(price, qty)
    PROVE  IInv'
<1> USE DEF IInv, bidSide, askSide, orderManager, AskAtBest
<1>1. price \in DOMAIN asks' /\ bids' = bids /\ price # 0
  <2>1. TypeOK /\ SnapshotAsk(price, qty)
    OBVIOUS
  <2>2. qty \in Quantities \cup {0} /\ qty # 0 /\ price # 0
    BY SnapshotAssumption
  <2>. QED BY ONLY <2>1, <2>2, SnapshotAskStep, price \in Prices
<1>2. TypeOK'
  BY SnapshotAskStep DEF TypeOK
<1>3. StrategyPricesAreQuoted'
  BY <1>1 DEF StrategyPricesAreQuoted
<1>. QED BY <1>2, <1>3 DEF TriggersOwnTheirOrders, LiveOrdersAreOpen

LEMMA AskRemovedInv ==
    ASSUME IInv, NEW price \in Prices, AskRemoved(price)
    PROVE  IInv'
<1> USE DEF IInv, bidSide, orderManager, AskRemoved, BestAskGone
<1>1. DOMAIN asks' = DOMAIN asks \ {price} /\ bids' = bids /\ price # 0
  BY SnapshotAskStep, SnapshotAssumption
<1>2. TypeOK'
  BY SnapshotAskStep DEF TypeOK
<1>3. StrategyPricesAreQuoted'
  BY <1>1 DEF StrategyPricesAreQuoted
<1>. QED BY <1>2, <1>3 DEF TriggersOwnTheirOrders, LiveOrdersAreOpen

-----------------------------------------------------------------------------
(* The whole specification *)

LEMMA NextInv == IInv /\ [Next]_vars => IInv'
<1> SUFFICES ASSUME IInv, [Next]_vars PROVE IInv'
  OBVIOUS
<1>1. CASE Execution
  BY <1>1, LoopAssumption, OrderCompletedInv, OrderPartiallyFilledInv,
     UnknownOrderFilledInv DEF Execution
<1>2. CASE Bid
  BY <1>2, BidImprovesInv, BidBelowBestInv, BidRemovedInv DEF Bid
<1>3. CASE Ask
  BY <1>3, AskWorsensInv, AskOpensOrImprovesInv, AskAtBestInv, AskRemovedInv DEF Ask
<1>4. CASE UNCHANGED vars
  BY <1>4 DEF vars, IInv, TypeOK, TriggersOwnTheirOrders, LiveOrdersAreOpen,
              StrategyPricesAreQuoted
<1>. QED BY <1>1, <1>2, <1>3, <1>4 DEF Next

\* The four invariants hold for every feed.
THEOREM LoopInvariant == Spec => []IInv
BY InitInv, NextInv, PTL DEF Spec

\* The types hold for every feed.
THEOREM LoopTypeOK == Spec => []TypeOK
<1>1. IInv => TypeOK
  BY DEF IInv
<1>. QED BY <1>1, LoopInvariant, PTL

\* Each trigger has at most one order in the market and is disarmed just while
\* that order is live.
THEOREM NoDuplicateTrades == Spec => []TriggersOwnTheirOrders
<1>1. IInv => TriggersOwnTheirOrders
  BY DEF IInv
<1>. QED BY <1>1, LoopInvariant, PTL

\* Whatever the quantities of the executions, 0 and negative ones included, an
\* order that is kept is not filled up, and one that is still New had no fill.
THEOREM NoFilledOrderIsLive == Spec => []LiveOrdersAreOpen
<1>1. IInv => LiveOrdersAreOpen
  BY DEF IInv
<1>. QED BY <1>1, LoopInvariant, PTL

\* The strategy's copies of the best prices are quoted in the snapshot.
THEOREM NoStaleStrategyPrice == Spec => []StrategyPricesAreQuoted
<1>1. IInv => StrategyPricesAreQuoted
  BY DEF IInv
<1>. QED BY <1>1, LoopInvariant, PTL

-----------------------------------------------------------------------------
(* Which orders a step adds *)

LEMMA OrdersAdded ==
    ASSUME IInv, [Next]_vars
    PROVE  \/ DOMAIN orders' \subseteq DOMAIN orders
           \/ /\ DOMAIN orders' = DOMAIN orders \cup {next_id}
              /\ \/ \E price \in Prices, qty \in Quantities :
                      /\ BidImproves(price, qty)
                      /\ PlaceOrder(price, BidOrderQuantity)
                      /\ bid_order_id' = next_id
                 \/ \E price \in Prices, qty \in Quantities :
                      /\ AskWorsens(price, qty)
                      /\ PlaceOrder(OldAsk, AskOrderQuantity)
                      /\ ask_order_id' = next_id
<1> USE DEF IInv
<1>1. CASE Execution
  BY <1>1 DEF Execution, OrderCompleted, CompleteFill, OrderPartiallyFilled, PartialFill,
              UnknownOrderFilled, UnknownFill
<1>2. ASSUME NEW price \in Prices, NEW qty \in Quantities, BidImproves(price, qty)
      PROVE  \/ orders' = orders
             \/ /\ DOMAIN orders' = DOMAIN orders \cup {next_id}
                /\ PlaceOrder(price, BidOrderQuantity)
                /\ bid_order_id' = next_id
  BY <1>2 DEF BidImproves, PlaceOrder, NewId, orderManager
<1>3. ASSUME NEW price \in Prices, NEW qty \in Quantities, AskWorsens(price, qty)
      PROVE  \/ orders' = orders
             \/ /\ DOMAIN orders' = DOMAIN orders \cup {next_id}
                /\ PlaceOrder(OldAsk, AskOrderQuantity)
                /\ ask_order_id' = next_id
  BY <1>3 DEF AskWorsens, PlaceOrder, NewId, orderManager
<1>4. ASSUME NEW price \in Prices, NEW qty \in Quantities,
             \/ BidBelowBest(price, qty) \/ BidRemoved(price)
             \/ AskOpensOrImproves(price, qty) \/ AskAtBest(price, qty)
             \/ AskRemoved(price)
      PROVE  orders' = orders
  BY <1>4 DEF BidBelowBest, BidRemoved, AskOpensOrImproves, AskAtBest, AskRemoved,
              orderManager
<1>5. ASSUME NEW price \in Prices, BidRemoved(price) \/ AskRemoved(price)
      PROVE  orders' = orders
  BY <1>5 DEF BidRemoved, AskRemoved, orderManager
<1>6. CASE UNCHANGED vars
  BY <1>6 DEF vars
<1>7. CASE Bid \/ Ask
  BY <1>2, <1>3, <1>4, <1>5, <1>7 DEF Bid, Ask
<1>. QED BY <1>1, <1>6, <1>7 DEF Next

\* The id of a completed order never comes back: an EXECUTION for it is ignored
\* for ever.
THEOREM NoIdIsReused == Spec => IdsAreNotReused
<1>1. ASSUME IInv, [Next]_vars
      PROVE  \A id \in 1 .. next_id - 1 : id \in DOMAIN orders' => id \in DOMAIN orders
  BY <1>1, OrdersAdded DEF IInv, TypeOK
<1>. QED BY <1>1, LoopInvariant, PTL DEF Spec, IdsAreNotReused

\* Every sale on a worse ask is priced below that ask, every sale on a better bid
\* at a price that is bid.
THEOREM SalesTrade == Spec => SalesArePricedToTrade
<1> DEFINE Priced ==
      \A id \in DOMAIN orders' \ DOMAIN orders :
          /\ id = ask_order_id' => 0 < orders'[id].price /\ orders'[id].price < best_ask'
          /\ id = bid_order_id' => orders'[id].price \in DOMAIN bids'
<1>1. ASSUME IInv, [Next]_vars PROVE Priced
  <2> USE <1>1 DEF IInv
  <2>1. SUFFICES ASSUME NEW id \in DOMAIN orders' \ DOMAIN orders
                 PROVE  /\ id = ask_order_id' => 0 < orders'[id].price /\ orders'[id].price < best_ask'
                        /\ id = bid_order_id' => orders'[id].price \in DOMAIN bids'
    OBVIOUS
  <2>2. id = next_id
    BY OrdersAdded
  <2>3. ask_order_id' # 0 => ask_order_id' # bid_order_id'
    BY NextInv DEF TriggersOwnTheirOrders
  <2>4. next_id # 0
    BY DEF TypeOK
  <2>5. ASSUME NEW price \in Prices, NEW qty \in Quantities, BidImproves(price, qty),
               PlaceOrder(price, BidOrderQuantity), bid_order_id' = next_id
        PROVE  /\ id = ask_order_id' => 0 < orders'[id].price /\ orders'[id].price < best_ask'
               /\ id = bid_order_id' => orders'[id].price \in DOMAIN bids'
    <3>1. orders'[id].price = price
      BY <2>2, <2>5, PlaceOrderStep
    <3>2. price \in DOMAIN bids'
      <4>1. SnapshotBid(price, qty) /\ qty # 0
        BY <2>5, SnapshotAssumption DEF BidImproves
      <4>2. DOMAIN bids' = DOMAIN bids \cup {price}
        BY <4>1, SnapshotBidStep
      <4>. QED BY <4>2
    <3>. QED BY <2>2, <2>3, <2>4, <2>5, <3>1, <3>2
  <2>6. ASSUME NEW price \in Prices, NEW qty \in Quantities, AskWorsens(price, qty),
               PlaceOrder(OldAsk, AskOrderQuantity), ask_order_id' = next_id
        PROVE  /\ id = ask_order_id' => 0 < orders'[id].price /\ orders'[id].price < best_ask'
               /\ id = bid_order_id' => orders'[id].price \in DOMAIN bids'
    <3>0. OldAsk \in Prices /\ OldAsk < price /\ best_ask' = price
      BY <2>6, OldAskIsBetter DEF AskWorsens
    <3>1. OldAsk \in Prices /\ 0 < OldAsk /\ OldAsk < price /\ best_ask' = price
      <4> HIDE DEF OldAsk
      <4>1. 0 < OldAsk
        BY <3>0, SnapshotAssumption
      <4>. QED BY <3>0, <4>1
    <3>2. orders'[id].price = OldAsk
      BY <2>2, <2>6, <3>1, PlaceOrderStep
    <3>. QED BY <2>2, <2>3, <2>4, <2>6, <3>1, <3>2
  <2>. QED BY <2>5, <2>6, OrdersAdded
<1>. QED BY <1>1, LoopInvariant, PTL DEF Spec, SalesArePricedToTrade


-----------------------------------------------------------------------------
(* What update() reports *)

\* A bid event that reports nothing leaves the best bid what it was.
LEMMA BidReport ==
    ASSUME TypeOK, NEW price \in Prices, NEW qty \in Quantities \cup {0},
           SnapshotBid(price, qty), NEW p \in Prices, IsBestBid(bids, p) # IsBestBid(bids', p)
    PROVE  bookEvent' \in {"NewBestBid", "BestBidRemoved"}
<1>1. \A x \in Prices : x \in Int
  BY SnapshotAssumption
<1>2. DOMAIN bids \subseteq Prices
  BY DEF TypeOK
<1>3. CASE qty = 0
  <2>1. DOMAIN bids' = DOMAIN bids \ {price}
    BY <1>3 DEF SnapshotBid, Updated, Without
  <2>2. IsBestBid(bids, price)
    BY <1>1, <1>2, <2>1 DEF IsBestBid
  <2>. QED BY <1>3, <2>2 DEF SnapshotBid, BidEvent
<1>4. CASE qty # 0
  <2>1. bids' = Updated(bids, price, qty) /\ DOMAIN bids' = DOMAIN bids \cup {price}
    BY <1>4 DEF SnapshotBid, Updated, With
  <2>2. IsBestBid(bids', price)
    BY <1>1, <1>2, <2>1 DEF IsBestBid
  <2>. QED BY <1>4, <2>1, <2>2 DEF SnapshotBid, BidEvent
<1>. QED BY <1>3, <1>4

\* The same for the best ask.
LEMMA AskReport ==
    ASSUME TypeOK, NEW price \in Prices, NEW qty \in Quantities \cup {0},
           SnapshotAsk(price, qty), NEW p \in Prices, IsBestAsk(asks, p) # IsBestAsk(asks', p)
    PROVE  bookEvent' \in {"NewBestAsk", "BestAskRemoved"}
<1>1. \A x \in Prices : x \in Int
  BY SnapshotAssumption
<1>2. DOMAIN asks \subseteq Prices
  BY DEF TypeOK
<1>3. CASE qty = 0
  <2>1. DOMAIN asks' = DOMAIN asks \ {price}
    BY <1>3 DEF SnapshotAsk, Updated, Without
  <2>2. IsBestAsk(asks, price)
    BY <1>1, <1>2, <2>1 DEF IsBestAsk
  <2>. QED BY <1>3, <2>2 DEF SnapshotAsk, AskEvent
<1>4. CASE qty # 0
  <2>1. asks' = Updated(asks, price, qty) /\ DOMAIN asks' = DOMAIN asks \cup {price}
    BY <1>4 DEF SnapshotAsk, Updated, With
  <2>2. IsBestAsk(asks', price)
    BY <1>1, <1>2, <2>1 DEF IsBestAsk
  <2>. QED BY <1>4, <2>1, <2>2 DEF SnapshotAsk, AskEvent
<1>. QED BY <1>3, <1>4

\* The body of the action property, with the snapshot's event named.
ReportsChanges ==
    /\ (\E p \in Prices : IsBestBid(bids, p) # IsBestBid(bids', p))
         => bookEvent' \in {"NewBestBid", "BestBidRemoved"}
    /\ (\E p \in Prices : IsBestAsk(asks, p) # IsBestAsk(asks', p))
         => bookEvent' \in {"NewBestAsk", "BestAskRemoved"}

LEMMA StepReports == TypeOK /\ Next => ReportsChanges
<1> SUFFICES ASSUME TypeOK, Next PROVE ReportsChanges
  OBVIOUS
<1>1. CASE Execution
  <2>1. bids' = bids /\ asks' = asks
    BY <1>1 DEF Execution, OrderCompleted, OrderPartiallyFilled, UnknownOrderFilled, SnapshotOther
  <2>. QED BY <2>1 DEF ReportsChanges
<1>2. CASE Bid
  <2>1. PICK price \in Prices, qty \in Quantities \cup {0} : SnapshotBid(price, qty)
    BY <1>2 DEF Bid, BidImproves, BidBelowBest, BidRemoved
  <2>2. asks' = asks
    BY <2>1 DEF SnapshotBid
  <2>. QED BY <2>1, <2>2, BidReport DEF ReportsChanges
<1>3. CASE Ask
  <2>1. PICK price \in Prices, qty \in Quantities \cup {0} : SnapshotAsk(price, qty)
    BY <1>3 DEF Ask, AskWorsens, AskOpensOrImproves, AskAtBest, AskRemoved
  <2>2. bids' = bids
    BY <2>1 DEF SnapshotAsk
  <2>. QED BY <2>1, <2>2, AskReport DEF ReportsChanges
<1>. QED BY <1>1, <1>2, <1>3 DEF Next

\* For any prices, update() of the snapshot reports every change of the best
\* bid and of the best ask (market_snapshot.cpp, lines 3-33).
THEOREM EveryBestChangeIsReported == Spec => BestChangesAreReported
<1>1. IInv /\ [Next]_vars => [ReportsChanges]_vars
  BY StepReports DEF IInv
<1>. QED BY <1>1, LoopInvariant, PTL DEF Spec, BestChangesAreReported, ReportsChanges
=============================================================================
