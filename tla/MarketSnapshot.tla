--------------------------- MODULE MarketSnapshot ---------------------------
(***************************************************************************)
(* The class MarketSnapshot of phase_3/trading_system: the quantity quoted *)
(* at every price, per side, and what update() reports of each feed event. *)
(* Prices are whole numbers of cents.                                      *)
(***************************************************************************)
EXTENDS Integers

CONSTANTS
    Prices,    \* in cents
    Quantities \* the quantities of a level; a feed event may also carry 0

ASSUME SnapshotAssumption ==
    /\ Prices \subseteq Nat \ {0}
    /\ Quantities \subseteq Nat \ {0}

VARIABLES
    bids, asks, \* quoted quantity per price
    bookEvent   \* what the last update() returned

BookEvents ==
    {"None", "NewBestBid", "NewBestAsk", "BestBidRemoved", "BestAskRemoved"}

Without(levels, price) == [p \in DOMAIN levels \ {price} |-> levels[p]]

With(levels, price, qty) ==
    [p \in DOMAIN levels \cup {price} |-> IF p = price THEN qty ELSE levels[p]]

\* Quantity 0 removes the level, any other replaces it.
Updated(levels, price, qty) ==
    IF qty = 0 THEN Without(levels, price) ELSE With(levels, price, qty)

\* Bids are sorted from high to low and asks from low to high.
IsBestBid(levels, price) == price \in DOMAIN levels /\ \A p \in DOMAIN levels : p <= price
IsBestAsk(levels, price) == price \in DOMAIN levels /\ \A p \in DOMAIN levels : p >= price

NoLevels == [p \in {} |-> 0]

SnapshotInit == bids = NoLevels /\ asks = NoLevels /\ bookEvent = "None"

BidEvent(price, qty) ==
    IF qty = 0
    THEN IF IsBestBid(bids, price) THEN "BestBidRemoved" ELSE "None"
    ELSE IF IsBestBid(Updated(bids, price, qty), price) THEN "NewBestBid" ELSE "None"

SnapshotBid(price, qty) ==
    /\ bids' = Updated(bids, price, qty)
    /\ bookEvent' = BidEvent(price, qty)
    /\ UNCHANGED asks

AskEventAfterErase(price, qty) ==
    IF ~IsBestAsk(Updated(asks, price, qty), price) THEN "None"
    ELSE IF qty = 0 THEN "BestAskRemoved" ELSE "NewBestAsk"

AskEvent(price, qty) ==
    IF qty = 0
    THEN IF IsBestAsk(asks, price) THEN "BestAskRemoved" ELSE "None"
    ELSE IF IsBestAsk(Updated(asks, price, qty), price) THEN "NewBestAsk" ELSE "None"

SnapshotAsk(price, qty) ==
    /\ asks' = Updated(asks, price, qty)
    /\ bookEvent' = AskEvent(price, qty)
    /\ UNCHANGED bids

\* Any other event leaves the snapshot alone.
SnapshotOther == bookEvent' = "None" /\ UNCHANGED <<bids, asks>>
=============================================================================
