------------------------------ MODULE HybridBook ------------------------------
(***************************************************************************)
(* OrderBook of hw_5/include/order_book.hpp: the orders by id, and for     *)
(* each side the ids by price, oldest first.                               *)
(***************************************************************************)
EXTENDS BookTypes, Sequences, SequencesExt, FiniteSetsExt

VARIABLES
  byId,     \* the order of each id, or Absent
  book,     \* bids (TRUE) and asks (FALSE): the ids at each price
  keys,     \* the prices that have an entry in bids and in asks
  arrived   \* history, not in the code: the ids in the book, oldest first
hybridVars == <<byId, book, keys, arrived>>

HybridInit ==
  /\ byId = [id \in Ids |-> Absent]
  /\ book = [s \in BOOLEAN |-> [p \in Prices |-> <<>>]]
  /\ keys = [s \in BOOLEAN |-> {}]
  /\ arrived = <<>>

\* Mutant: no id is refused.
NeverRefused(id) == FALSE

Refused(id) == byId[id] # Absent

\* An id that is in the book is refused.
add(id, o) ==
  IF Refused(id) THEN UNCHANGED hybridVars
  ELSE /\ byId' = [byId EXCEPT ![id] = o]
       /\ book' = [book EXCEPT ![o.isBuy][o.price] = Append(@, id)]
       /\ keys' = [keys EXCEPT ![o.isBuy] = @ \cup {o.price}]
       /\ arrived' = Append(arrived, id)

modify(id, q) ==
  IF byId[id] = Absent THEN UNCHANGED hybridVars
  ELSE /\ byId' = [byId EXCEPT ![id].quantity = q]
       /\ UNCHANGED <<book, keys, arrived>>

DropsLevel(vec) == vec = <<>>

PlaceOf(vec, id) == CHOOSE i \in DOMAIN vec : vec[i] = id

\* Mutant: the last id takes the place of the one that is removed.
SwappedWithLast(vec, id) ==
  [i \in 1..(Len(vec) - 1) |-> IF i = PlaceOf(vec, id) THEN vec[Len(vec)] ELSE vec[i]]

\* An id of the book is in its vector once: the proofs show it.
Remaining(vec, id) == RemoveAt(vec, PlaceOf(vec, id))

erase(id) ==
  LET o == byId[id]
      vec == Remaining(book[o.isBuy][o.price], id)
  IN IF o = Absent THEN UNCHANGED hybridVars
     ELSE /\ byId' = [byId EXCEPT ![id] = Absent]
          /\ book' = [book EXCEPT ![o.isBuy][o.price] = vec]
          /\ keys' = [keys EXCEPT ![o.isBuy] = IF DropsLevel(vec) THEN @ \ {o.price} ELSE @]
          /\ arrived' = Remaining(arrived, id)

HybridNext ==
  \E id \in Ids :
    \/ \E o \in Order : add(id, o)
    \/ \E q \in Quantities : modify(id, q)
    \/ erase(id)

bestBid == book[TRUE][Max(keys[TRUE])][1]
bestAsk == book[FALSE][Min(keys[FALSE])][1]

(* The order bestBid and bestAsk name, wherever a side has an entry, is    *)
(* the oldest of those at the best price: there is no empty level whose    *)
(* front() they would read, and no id that byId does not know.             *)
BestIsOldestAtBestPrice ==
  \A isBuy \in BOOLEAN :
    LET side == {i \in DOMAIN arrived : byId[arrived[i]].isBuy = isBuy}
        prices == {byId[arrived[i]].price : i \in side}
        best == IF isBuy THEN Max(prices) ELSE Min(prices)
        atBest == {i \in side : byId[arrived[i]].price = best}
    IN /\ keys[isBuy] = {} <=> side = {}
       /\ side # {} => (IF isBuy THEN bestBid ELSE bestAsk) = arrived[Min(atBest)]

\* The book as a walk over the levels of both sides shows it.
HybridOrders ==
  [id \in Ids |->
     LET places == {place \in BOOLEAN \X Prices : Contains(book[place[1]][place[2]], id)}
         at == CHOOSE place \in places : TRUE
     IN IF places = {} THEN Absent
        ELSE [price |-> at[2], quantity |-> byId[id].quantity, isBuy |-> at[1]]]

HybridSpec == INSTANCE BookSpec WITH orders <- HybridOrders

(* The levels of both sides behave like a book with one order per id.      *)
HybridImplementsBook == HybridSpec!Spec
=============================================================================
