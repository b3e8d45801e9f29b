------------------------------- MODULE LevelBook -------------------------------
(***************************************************************************)
(* OrderBook of phase_5/src/OrderBook.cpp: every order is kept twice, in   *)
(* orderLevels under its price and in orderLookup under its id.            *)
(***************************************************************************)
EXTENDS BookTypes

VARIABLES
  orderLevels,  \* the entries of the nested map: level, id and the order there
  levelPrices,  \* the keys of the outer map
  orderLookup   \* the order of each id, or Absent
levelVars == <<orderLevels, levelPrices, orderLookup>>

LevelInit ==
  /\ orderLevels = {}
  /\ levelPrices = {}
  /\ orderLookup = [id \in Ids |-> Absent]

Entry(p, id, o) == [level |-> p, id |-> id, order |-> o]

\* Mutant: the whole level goes.
ErasedLevel(L, p, id) == {e \in L : e.level # p}

Erased(L, p, id) == {e \in L : ~(e.level = p /\ e.id = id)}

Stored(L, id, o) == Erased(L, o.price, id) \cup {Entry(o.price, id, o)}

\* Mutant: an emptied level stays.
KeysKept(L, p) == levelPrices

\* An emptied level is taken out of the map.
KeysAfter(L, p) == IF \E e \in L : e.level = p THEN levelPrices ELSE levelPrices \ {p}

addOrder(id, o) ==
  /\ orderLevels' = Stored(orderLevels, id, o)
  /\ levelPrices' = levelPrices \cup {o.price}
  /\ orderLookup' = [orderLookup EXCEPT ![id] = o]

\* Ids that are not in the book are ignored.
modifyOrder(id, newPrice, newQty) ==
  LET old == orderLookup[id]
      rest == Erased(orderLevels, old.price, id)
      o == [price |-> newPrice, quantity |-> newQty, isBuy |-> old.isBuy]
  IN IF old = Absent THEN UNCHANGED levelVars
     ELSE /\ orderLevels' = Stored(rest, id, o)
          /\ levelPrices' = KeysAfter(rest, old.price) \cup {newPrice}
          /\ orderLookup' = [orderLookup EXCEPT ![id] = o]

deleteOrder(id) ==
  LET o == orderLookup[id]
      rest == Erased(orderLevels, o.price, id)
  IN IF o = Absent THEN UNCHANGED levelVars
     ELSE /\ orderLevels' = rest
          /\ levelPrices' = KeysAfter(rest, o.price)
          /\ orderLookup' = [orderLookup EXCEPT ![id] = Absent]

\* The sizes of all levels, counted.
totalOrders == Cardinality(orderLevels)

\* The callers only add ids that are not in the book.
LevelNext ==
  \E id \in Ids :
    \/ orderLookup[id] = Absent /\ \E o \in Order : addOrder(id, o)
    \/ \E p \in Prices, q \in Quantities : modifyOrder(id, p, q)
    \/ deleteOrder(id)

(* The two indices hold the same orders: an order is in the level of its   *)
(* price and in no other, and a level that holds none is not kept.         *)
LevelsMatchLookup ==
  /\ orderLevels = {Entry(orderLookup[id].price, id, orderLookup[id]) :
                      id \in {i \in Ids : orderLookup[i] # Absent}}
  /\ levelPrices = {e.level : e \in orderLevels}

\* The book as a walk over the levels shows it.
LevelOrders ==
  [id \in Ids |-> IF \E e \in orderLevels : e.id = id
                  THEN (CHOOSE e \in orderLevels : e.id = id).order ELSE Absent]

LevelSpec == INSTANCE BookSpec WITH orders <- LevelOrders

(* The levels alone behave like a book with one order per id.              *)
LevelsImplementBook == LevelSpec!Spec
=============================================================================
