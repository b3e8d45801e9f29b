--------------------------- MODULE OrderBooksProofs ---------------------------
(***************************************************************************)
(* Proofs about OrderBooks, for any finite set of ids and any prices and   *)
(* quantities: the two indices of phase_5's OrderBook agree, its levels    *)
(* implement an abstract book, its pool never runs out; hw_5's bestBid and *)
(* bestAsk name the oldest order at the best price, and its levels         *)
(* implement an abstract book too.                                         *)
(***************************************************************************)
EXTENDS OrderBooks, FiniteSetTheorems, SequenceTheorems, WellFoundedInduction, TLAPS

Listed(lookup) == {i \in Ids : lookup[i] # Absent}

\* The levels that go with a lookup table, and the keys that go with levels.
LevelsOf(lookup) == {Entry(lookup[i].price, i, lookup[i]) : i \in Listed(lookup)}
KeysOf(L) == {e.level : e \in L}

Lookups == [Ids -> Order \cup {Absent}]

LevelInv == orderLookup \in Lookups /\ LevelsMatchLookup

-----------------------------------------------------------------------------
(* What the map operations do to levels that match a lookup table.         *)

(* An order of an id that is not listed can be stored: addOrder().         *)
LEMMA StoredMatches ==
  ASSUME NEW lookup \in Lookups, NEW id \in Ids, NEW o \in Order, lookup[id] = Absent
  PROVE  Stored(LevelsOf(lookup), id, o) = LevelsOf([lookup EXCEPT ![id] = o])
<1> DEFINE L == LevelsOf(lookup)
           table == [lookup EXCEPT ![id] = o]
<1>1. o # Absent /\ table \in Lookups
  BY AbsentIsNoValue DEF Lookups
<1>2. Listed(table) = Listed(lookup) \cup {id}
  BY <1>1 DEF Listed, Lookups
<1>3. id \notin Listed(lookup)
  BY DEF Listed
<1>4. \A e \in L : e.id # id
  BY <1>3 DEF LevelsOf, Entry
<1>5. Erased(L, o.price, id) = L
  BY <1>4 DEF Erased
<1>6. \A i \in Listed(lookup) : table[i] = lookup[i]
  BY <1>3 DEF Listed, Lookups
<1>7. table[id] = o
  BY DEF Lookups
<1>8. LevelsOf(table) = L \cup {Entry(o.price, id, o)}
  BY <1>2, <1>6, <1>7 DEF LevelsOf
<1> QED BY <1>5, <1>8 DEF Stored

(* The entry of a listed id is erased at the price of its order:           *)
(* deleteOrder() and the first half of modifyOrder().                      *)
LEMMA ErasedMatches ==
  ASSUME NEW lookup \in Lookups, NEW id \in Ids, lookup[id] # Absent
  PROVE  Erased(LevelsOf(lookup), lookup[id].price, id)
           = LevelsOf([lookup EXCEPT ![id] = Absent])
<1> DEFINE table == [lookup EXCEPT ![id] = Absent]
<1>1. Listed(table) = Listed(lookup) \ {id}
  BY DEF Listed, Lookups
<1>2. \A i \in Listed(table) : table[i] = lookup[i]
  BY <1>1 DEF Listed, Lookups
<1>3. LevelsOf(table) = {Entry(lookup[i].price, i, lookup[i]) : i \in Listed(lookup) \ {id}}
  BY <1>1, <1>2 DEF LevelsOf
<1>4. \A i \in Listed(lookup) : Entry(lookup[i].price, i, lookup[i]).id = i
  BY DEF Entry
<1>5. Entry(lookup[id].price, id, lookup[id]).level = lookup[id].price
  BY DEF Entry
<1>6. ASSUME NEW i \in Listed(lookup) \ {id}
      PROVE  Entry(lookup[i].price, i, lookup[i]) \in Erased(LevelsOf(lookup), lookup[id].price, id)
  BY <1>4 DEF Erased, LevelsOf
<1>7. ASSUME NEW e \in Erased(LevelsOf(lookup), lookup[id].price, id)
      PROVE  e \in LevelsOf(table)
  <2>1. PICK i \in Listed(lookup) : e = Entry(lookup[i].price, i, lookup[i])
    BY DEF Erased, LevelsOf
  <2>2. i # id
    BY <2>1, <1>4, <1>5 DEF Erased
  <2> QED BY <2>1, <2>2, <1>3
<1> QED BY <1>3, <1>6, <1>7

(* Taking out the key of an emptied level keeps the keys in step.          *)
LEMMA KeysAfterErase ==
  ASSUME NEW L, NEW p, NEW id, levelPrices = KeysOf(L)
  PROVE  KeysAfter(Erased(L, p, id), p) = KeysOf(Erased(L, p, id))
  BY DEF KeysAfter, KeysOf, Erased

(* So does adding the key of the level that an order is stored in.         *)
LEMMA KeysAfterStore ==
  ASSUME NEW L, NEW id, NEW o
  PROVE  KeysOf(Stored(L, id, o)) = KeysOf(L) \cup {o.price}
<1>1. Entry(o.price, id, o).level = o.price
  BY DEF Entry
<1>2. \A e \in L : e.level # o.price => e \in Erased(L, o.price, id)
  BY DEF Erased
<1> QED BY <1>1, <1>2 DEF KeysOf, Stored, Erased

-----------------------------------------------------------------------------
(* The two indices of OrderBook.                                           *)

LEMMA LevelInvInit == Init => LevelInv
  BY DEF Init, LevelInit, LevelInv, LevelsMatchLookup, Lookups

(* Each call of LevelNext changes the table at one id and the levels with  *)
(* it.                                                                     *)
LEMMA LevelInvStep == LevelInv /\ [Next]_vars => LevelInv'
<1> SUFFICES ASSUME LevelInv, [Next]_vars PROVE LevelInv'
  OBVIOUS
<1>0. /\ orderLookup \in Lookups
      /\ orderLevels = LevelsOf(orderLookup)
      /\ levelPrices = KeysOf(orderLevels)
  BY DEF LevelInv, LevelsMatchLookup, LevelsOf, Listed, KeysOf
<1>q. ASSUME orderLookup' \in Lookups, orderLevels' = LevelsOf(orderLookup'),
             levelPrices' = KeysOf(orderLevels')
      PROVE  LevelInv'
  BY <1>q DEF LevelInv, LevelsMatchLookup, LevelsOf, Listed, KeysOf
<1>1. ASSUME UNCHANGED levelVars PROVE LevelInv'
  BY <1>1, <1>0, <1>q DEF levelVars
<1>2. ASSUME NEW id \in Ids, NEW o \in Order, orderLookup[id] = Absent, addOrder(id, o)
      PROVE  LevelInv'
  <2>1. orderLookup' = [orderLookup EXCEPT ![id] = o] /\ orderLookup' \in Lookups
    BY <1>0, <1>2 DEF addOrder, Lookups
  <2>2. orderLevels' = LevelsOf(orderLookup')
    <3>1. Stored(LevelsOf(orderLookup), id, o) = LevelsOf([orderLookup EXCEPT ![id] = o])
      BY <1>0, <1>2, StoredMatches
    <3> QED BY <1>0, <1>2, <2>1, <3>1 DEF addOrder
  <2>3. levelPrices' = KeysOf(orderLevels')
    BY <1>0, <1>2, KeysAfterStore DEF addOrder
  <2> QED BY <2>1, <2>2, <2>3, <1>q
<1>3. ASSUME NEW id \in Ids, NEW p \in Prices, NEW q \in Quantities, modifyOrder(id, p, q)
      PROVE  LevelInv'
  <2> DEFINE old == orderLookup[id]
             rest == Erased(orderLevels, old.price, id)
             o == [price |-> p, quantity |-> q, isBuy |-> old.isBuy]
             table == [orderLookup EXCEPT ![id] = Absent]
  <2>1. CASE old = Absent
    BY <1>1, <1>3, <2>1 DEF modifyOrder
  <2>2. CASE old # Absent
    <3>1. o \in Order
      BY <1>0, <2>2 DEF Lookups, Order
    <3>2. /\ orderLevels' = Stored(rest, id, o)
          /\ levelPrices' = KeysAfter(rest, old.price) \cup {o.price}
          /\ orderLookup' = [orderLookup EXCEPT ![id] = o]
      BY <1>3, <2>2 DEF modifyOrder
    <3>3. table \in Lookups /\ table[id] = Absent
      BY <1>0 DEF Lookups
    <3>4. rest = LevelsOf(table)
      BY <1>0, <2>2, ErasedMatches
    <3>5. orderLookup' = [table EXCEPT ![id] = o]
      BY <1>0, <3>2 DEF Lookups
    <3>6. orderLevels' = LevelsOf(orderLookup')
      <4>1. Stored(LevelsOf(table), id, o) = LevelsOf([table EXCEPT ![id] = o])
        BY <3>1, <3>3, StoredMatches
      <4> QED BY <3>2, <3>4, <3>5, <4>1
    <3>7. levelPrices' = KeysOf(orderLevels')
      BY <1>0, <3>2, KeysAfterErase, KeysAfterStore
    <3>8. orderLookup' \in Lookups
      BY <1>0, <3>1, <3>2 DEF Lookups
    <3> QED BY <3>6, <3>7, <3>8, <1>q
  <2> QED BY <2>1, <2>2
<1>4. ASSUME NEW id \in Ids, deleteOrder(id)
      PROVE  LevelInv'
  <2> DEFINE o == orderLookup[id]
             rest == Erased(orderLevels, o.price, id)
  <2>1. CASE o = Absent
    BY <1>1, <1>4, <2>1 DEF deleteOrder
  <2>2. CASE o # Absent
    <3>1. /\ orderLevels' = rest
          /\ levelPrices' = KeysAfter(rest, o.price)
          /\ orderLookup' = [orderLookup EXCEPT ![id] = Absent]
      BY <1>4, <2>2 DEF deleteOrder
    <3>2. orderLevels' = LevelsOf(orderLookup')
      BY <1>0, <2>2, <3>1, ErasedMatches
    <3>3. levelPrices' = KeysOf(orderLevels')
      BY <1>0, <3>1, KeysAfterErase
    <3>4. orderLookup' \in Lookups
      BY <1>0, <3>1 DEF Lookups
    <3> QED BY <3>2, <3>3, <3>4, <1>q
  <2> QED BY <2>1, <2>2
<1>5. CASE RunLevel
  BY <1>5, <1>2, <1>3, <1>4 DEF RunLevel, LevelNext
<1>6. CASE RunPool \/ RunHybrid \/ UNCHANGED vars
  BY <1>6, <1>1 DEF RunPool, RunHybrid, vars, levelVars
<1> QED BY <1>5, <1>6 DEF Next

(* The levels and the lookup table of OrderBook agree after any calls, for *)
(* any ids, prices and quantities (OrderBook.cpp, lines 3-25).             *)
THEOREM IndicesAgree == Spec => []LevelsMatchLookup
<1>1. LevelInv => LevelsMatchLookup
  BY DEF LevelInv
<1> QED BY <1>1, LevelInvInit, LevelInvStep, PTL DEF Spec

(* What the assertion of benchmark.cpp, line 61, compares: totalOrders()   *)
(* counts over all levels what orderLookup holds by id.                    *)
THEOREM TotalOrdersIsLookupSize ==
  Spec => [](totalOrders = Cardinality({i \in Ids : orderLookup[i] # Absent}))
<1>1. LevelInv => totalOrders = Cardinality({i \in Ids : orderLookup[i] # Absent})
  <2> SUFFICES ASSUME LevelInv PROVE Cardinality(orderLevels) = Cardinality(Listed(orderLookup))
    BY DEF totalOrders, Listed
  <2> DEFINE f == [i \in Listed(orderLookup) |-> Entry(orderLookup[i].price, i, orderLookup[i])]
  <2>1. orderLevels = {f[i] : i \in Listed(orderLookup)}
    BY DEF LevelInv, LevelsMatchLookup, Listed
  <2>2. \A i \in Listed(orderLookup) : f[i].id = i
    BY DEF Entry
  <2>3. f \in Bijection(Listed(orderLookup), orderLevels)
    BY <2>1, <2>2 DEF Bijection, Injection, Surjection, IsInjective
  <2>4. IsFiniteSet(Listed(orderLookup))
    BY IdsAreFinite, FS_Subset DEF Listed
  <2> QED BY <2>3, <2>4, FS_Bijection DEF ExistsBijection
<1> QED BY <1>1, LevelInvInit, LevelInvStep, PTL DEF Spec

LEMMA LevelsShowTheTable == LevelInv => LevelOrders = orderLookup
<1> SUFFICES ASSUME LevelInv PROVE LevelOrders = orderLookup
  OBVIOUS
<1>1. orderLookup \in Lookups /\ orderLevels = LevelsOf(orderLookup)
  BY DEF LevelInv, LevelsMatchLookup, LevelsOf, Listed
<1>2. ASSUME NEW id \in Ids PROVE LevelOrders[id] = orderLookup[id]
  <2>1. ASSUME NEW e \in orderLevels, e.id = id
        PROVE  e.order = orderLookup[id] /\ id \in Listed(orderLookup)
    BY <2>1, <1>1 DEF LevelsOf, Entry
  <2>2. ASSUME id \in Listed(orderLookup) PROVE \E e \in orderLevels : e.id = id
    <3> DEFINE e == Entry(orderLookup[id].price, id, orderLookup[id])
    <3>1. e \in orderLevels
      BY <1>1, <2>2 DEF LevelsOf
    <3>2. e.id = id
      BY DEF Entry
    <3> QED BY <3>1, <3>2
  <2>3. CASE id \in Listed(orderLookup)
    BY <2>1, <2>2, <2>3 DEF LevelOrders
  <2>4. CASE id \notin Listed(orderLookup)
    BY <2>1, <2>4 DEF LevelOrders, Listed
  <2> QED BY <2>3, <2>4
<1> QED BY <1>1, <1>2 DEF LevelOrders, Lookups

(* Each call changes the book that a walk over the levels shows the way    *)
(* the abstract book changes, or not at all.                               *)
THEOREM LevelsFollowBook == Spec => LevelsImplementBook
<1>1. Init => LevelSpec!Init
  <2>1. Init => LevelOrders = orderLookup
    BY LevelInvInit, LevelsShowTheTable
  <2> QED BY <2>1 DEF Init, LevelInit, LevelSpec!Init
<1>2. LevelInv /\ LevelInv' /\ [Next]_vars => [LevelSpec!Next]_LevelOrders
  <2> SUFFICES ASSUME LevelInv, LevelInv', [Next]_vars PROVE [LevelSpec!Next]_LevelOrders
    OBVIOUS
  <2>0. LevelOrders = orderLookup /\ LevelOrders' = orderLookup'
    <3>1. LevelOrders = orderLookup
      BY LevelsShowTheTable
    <3>2. (LevelOrders = orderLookup)'
      BY LevelsShowTheTable, PTL
    <3> QED BY <3>1, <3>2
  <2>1. ASSUME orderLookup' = orderLookup PROVE [LevelSpec!Next]_LevelOrders
    BY <2>0, <2>1
  <2>2. ASSUME NEW id \in Ids, NEW o \in Order, orderLookup[id] = Absent, addOrder(id, o)
        PROVE  [LevelSpec!Next]_LevelOrders
    <3>1. LevelSpec!Add(id)
      BY <2>0, <2>2 DEF addOrder, LevelSpec!Add, LevelSpec!Order, Order
    <3> QED BY <3>1 DEF LevelSpec!Next
  <2>3. ASSUME NEW id \in Ids, NEW p \in Prices, NEW q \in Quantities, modifyOrder(id, p, q)
        PROVE  [LevelSpec!Next]_LevelOrders
    <3>1. CASE orderLookup[id] = Absent
      BY <2>1, <2>3, <3>1 DEF modifyOrder, levelVars
    <3>2. CASE orderLookup[id] # Absent
      <4>1. LevelSpec!Modify(id)
        BY <2>0, <2>3, <3>2 DEF modifyOrder, LevelSpec!Modify
      <4> QED BY <4>1 DEF LevelSpec!Next
    <3> QED BY <3>1, <3>2
  <2>4. ASSUME NEW id \in Ids, deleteOrder(id)
        PROVE  [LevelSpec!Next]_LevelOrders
    <3>1. CASE orderLookup[id] = Absent
      BY <2>1, <2>4, <3>1 DEF deleteOrder, levelVars
    <3>2. CASE orderLookup[id] # Absent
      <4>1. LevelSpec!Delete(id)
        BY <2>0, <2>4, <3>2 DEF deleteOrder, LevelSpec!Delete
      <4> QED BY <4>1 DEF LevelSpec!Next
    <3> QED BY <3>1, <3>2
  <2>5. CASE RunLevel
    BY <2>5, <2>2, <2>3, <2>4 DEF RunLevel, LevelNext
  <2>6. CASE RunPool \/ RunHybrid \/ UNCHANGED vars
    BY <2>6, <2>1 DEF RunPool, RunHybrid, vars, levelVars
  <2> QED BY <2>5, <2>6 DEF Next
<1> QED BY <1>1, <1>2, LevelInvInit, LevelInvStep, PTL DEF Spec, LevelsImplementBook, LevelSpec!Spec

-----------------------------------------------------------------------------
(* The pool of PooledOrderBook.                                            *)

Added == {i \in Ids : look[i] # Absent}

PoolRecord == [id : Ids, order : Order]

(* The pool has given out one slot per order added, so that there is a     *)
(* slot left for each id that is not added yet.                            *)
PoolInv ==
  /\ look \in [Ids -> Nat \cup {Absent}]
  /\ used = Cardinality(Added)
  /\ buffer \in [1..used -> PoolRecord]
  /\ PointersAreLive

LEMMA AddedIsFinite == IsFiniteSet(Added) /\ Cardinality(Added) \in Nat
<1>1. Added \in SUBSET Ids
  BY DEF Added
<1> QED BY <1>1, IdsAreFinite, FS_Subset, FS_CardinalityType

LEMMA PoolInvInit == Init => PoolInv
<1> SUFFICES ASSUME Init PROVE PoolInv
  OBVIOUS
<1>1. Added = {} /\ used = 0
  BY DEF Init, PoolInit, Added
<1>2. used = Cardinality(Added)
  BY <1>1, FS_EmptySet
<1>3. buffer \in [1..used -> PoolRecord]
  BY <1>1 DEF Init, PoolInit
<1> QED BY <1>1, <1>2, <1>3 DEF Init, PoolInit, PoolInv, PointersAreLive, Added

LEMMA PoolInvStep == PoolInv /\ [Next]_vars => PoolInv'
<1> SUFFICES ASSUME PoolInv, [Next]_vars PROVE PoolInv'
  OBVIOUS
<1>1. ASSUME NEW id \in Ids, NEW o \in Order, look[id] = Absent, poolAddOrder(id, o)
      PROVE  PoolInv'
  <2> DEFINE record == [id |-> id, order |-> o]
  <2>1. used = Cardinality(Added) /\ used \in Nat
    BY AddedIsFinite DEF PoolInv
  <2>2. used < cap
    <3>1. Added \in SUBSET Ids /\ Added # Ids
      BY <1>1 DEF Added
    <3> QED BY <2>1, <3>1, IdsAreFinite, FS_Subset, FS_CardinalityType DEF cap
  <2>3. ~Exhausted /\ Created = used + 1
    BY <2>1, <2>2, IdsAreFinite, FS_CardinalityType DEF Exhausted, Created, cap
  <2>4. /\ used' = used + 1
        /\ buffer' = [s \in 1..(used + 1) |-> IF s = used + 1 THEN record ELSE buffer[s]]
        /\ look' = [look EXCEPT ![id] = used + 1]
        /\ lvl' = {e \in lvl : ~(e.level = o.price /\ e.id = id)} \cup
                    {[level |-> o.price, id |-> id, ptr |-> used + 1]}
    BY <1>1, <2>3 DEF poolAddOrder, create
  <2>5. look' \in [Ids -> Nat \cup {Absent}]
    BY <2>1, <2>4 DEF PoolInv
  <2>6. Added' = Added \cup {id} /\ id \notin Added
    <3>1. used + 1 # Absent
      BY <2>1, AbsentIsNoValue
    <3>2. \A i \in Ids : look'[i] = IF i = id THEN used + 1 ELSE look[i]
      BY <2>4 DEF PoolInv
    <3> QED BY <1>1, <3>1, <3>2 DEF Added
  <2>7. used' = Cardinality(Added')
    BY <2>1, <2>4, <2>6, AddedIsFinite, FS_AddElement
  <2>8. buffer' \in [1..used' -> PoolRecord]
    BY <2>1, <2>4 DEF PoolInv, PoolRecord
  <2>9. \A i \in Added : /\ look'[i] = look[i] /\ look[i] \in 1..used
                         /\ buffer'[look[i]] = buffer[look[i]]
                         /\ buffer[look[i]].id = i
    BY <2>1, <2>4, <2>6 DEF Added, PoolInv, PointersAreLive
  <2>10. look'[id] = used + 1 /\ buffer'[used + 1] = record
    BY <2>1, <2>4 DEF PoolInv
  <2>11. \A i \in Added' : look'[i] \in 1..used' /\ buffer'[look'[i]].id = i
    BY <2>1, <2>4, <2>6, <2>9, <2>10
  <2>12. lvl' = {[level |-> buffer'[look'[i]].order.price, id |-> i, ptr |-> look'[i]] : i \in Added'}
    <3>1. lvl = {[level |-> buffer[look[i]].order.price, id |-> i, ptr |-> look[i]] : i \in Added}
      BY DEF PoolInv, PointersAreLive, Added
    <3>2. \A e \in lvl : e.id # id
      BY <2>6, <3>1
    <3>3. lvl' = lvl \cup {[level |-> o.price, id |-> id, ptr |-> used + 1]}
      BY <2>4, <3>2
    <3>4. lvl = {[level |-> buffer'[look'[i]].order.price, id |-> i, ptr |-> look'[i]] : i \in Added}
      BY <2>9, <3>1
    <3>5. [level |-> buffer'[look'[id]].order.price, id |-> id, ptr |-> look'[id]]
            = [level |-> o.price, id |-> id, ptr |-> used + 1]
      BY <2>10
    <3> QED BY <2>6, <3>3, <3>4, <3>5
  <2> QED BY <2>5, <2>7, <2>8, <2>11, <2>12 DEF PoolInv, PointersAreLive, Added
<1>2. CASE RunPool
  BY <1>1, <1>2 DEF RunPool, PoolNext
<1>3. CASE RunLevel \/ RunHybrid \/ UNCHANGED vars
  <2>1. used' = used /\ buffer' = buffer /\ lvl' = lvl /\ look' = look
    BY <1>3 DEF RunLevel, RunHybrid, vars, poolVars
  <2>2. Added' = Added
    BY <2>1 DEF Added
  <2>3. PointersAreLive'
    BY <2>1 DEF PoolInv, PointersAreLive
  <2> QED BY <2>1, <2>2, <2>3 DEF PoolInv
<1> QED BY <1>2, <1>3 DEF Next

(* A pool of as many slots as there are orders is never used up before an  *)
(* order is stored, and no index holds a null or a wrong pointer           *)
(* (PooledOrderBook.cpp, lines 5-9, in time_pool()).                       *)
THEOREM PoolNeverRunsOut == Spec => []PointersAreLive
<1>1. PoolInv => PointersAreLive
  BY DEF PoolInv
<1> QED BY <1>1, PoolInvInit, PoolInvStep, PTL DEF Spec

-----------------------------------------------------------------------------
(* A finite set of numbers has a largest and a smallest element.  A set of *)
(* least size that has none would have one that is smaller still.          *)

LEMMA SomeIsLargest ==
  ASSUME NEW S \in SUBSET Int, IsFiniteSet(S), S # {}
  PROVE  \E m \in S : \A y \in S : m >= y
<1> DEFINE Lacking(T) == T # {} /\ \A m \in T : \E y \in T : ~(m >= y)
           Bad == {n \in Nat : \E T \in SUBSET Int :
                                 IsFiniteSet(T) /\ Cardinality(T) = n /\ Lacking(T)}
<1>1. SUFFICES Bad = {}
  BY <1>1, FS_CardinalityType
<1>2. SUFFICES ASSUME Bad # {} PROVE FALSE
  OBVIOUS
<1>3. PICK n \in Bad : \A k \in Bad : ~(<<k, n>> \in OpToRel(<, Nat))
  <2>1. Bad \subseteq Nat
    OBVIOUS
  <2>2. IsWellFoundedOn(OpToRel(<, Nat), Nat)
    BY NatLessThanWellFounded
  <2> HIDE DEF Bad
  <2> QED BY <1>2, <2>1, <2>2, WFMin
<1>4. PICK T \in SUBSET Int : IsFiniteSet(T) /\ Cardinality(T) = n /\ Lacking(T)
  OBVIOUS
<1>5. PICK x \in T : TRUE
  BY <1>4
<1>6. IsFiniteSet(T \ {x}) /\ Cardinality(T \ {x}) = n - 1 /\ Cardinality(T \ {x}) \in Nat
  BY <1>4, <1>5, FS_RemoveElement, FS_CardinalityType
<1>7. Lacking(T \ {x})
  <2>1. PICK z \in T : ~(x >= z)
    BY <1>4, <1>5
  <2>2. \A m \in T : \E y \in T : ~(m >= y)
    BY <1>4
  <2>3. ASSUME NEW m \in T \ {x} PROVE \E y \in T \ {x} : ~(m >= y)
    <3>1. PICK y \in T : ~(m >= y)
      BY <2>2
    <3>2. CASE y = x
      BY <2>1, <3>1, <3>2
    <3> QED BY <3>1, <3>2
  <2> QED BY <2>1, <2>3
<1>8. n - 1 \in Bad
  BY <1>6, <1>7
<1>9. <<n - 1, n>> \in OpToRel(<, Nat)
  BY <1>6 DEF OpToRel
<1> QED BY <1>3, <1>8, <1>9

LEMMA MaxOfFinite ==
  ASSUME NEW S \in SUBSET Int, IsFiniteSet(S), S # {}
  PROVE  Max(S) \in S /\ \A y \in S : Max(S) >= y
  BY SomeIsLargest DEF Max

LEMMA MinOfFinite ==
  ASSUME NEW S \in SUBSET Int, IsFiniteSet(S), S # {}
  PROVE  Min(S) \in S /\ \A y \in S : Min(S) <= y
<1> DEFINE f == [x \in S |-> -x]
           N == {-x : x \in S}
<1>1. IsFiniteSet(N)
  <2>1. f \in Surjection(S, N)
    BY DEF Surjection
  <2> QED BY <2>1, FS_Surjection
<1>2. PICK m \in N : \A y \in N : m >= y
  BY <1>1, SomeIsLargest
<1>3. \E x \in S : \A y \in S : x <= y
  BY <1>2
<1> QED BY <1>3 DEF Min

-----------------------------------------------------------------------------
(* Vectors of ids, by what they hold and in which order.                   *)

Has(vec, x) == \E i \in DOMAIN vec : vec[i] = x

Before(vec, x, y) == \E i, j \in DOMAIN vec : i < j /\ vec[i] = x /\ vec[j] = y

HoldsOnce(vec) == \A i, j \in DOMAIN vec : vec[i] = vec[j] => i = j

(* push_back() adds an id that comes after all others.                     *)
LEMMA Appended ==
  ASSUME NEW vec \in Seq(Ids), NEW id \in Ids
  PROVE  /\ Append(vec, id) \in Seq(Ids) /\ Append(vec, id) # <<>>
         /\ \A x : Has(Append(vec, id), x) <=> Has(vec, x) \/ x = id
         /\ \A x, y : Before(Append(vec, id), x, y)
                        <=> Before(vec, x, y) \/ (Has(vec, x) /\ y = id)
         /\ HoldsOnce(vec) /\ ~Has(vec, id) => HoldsOnce(Append(vec, id))
<1> DEFINE new == Append(vec, id)
<1>1. /\ new \in Seq(Ids) /\ Len(vec) \in Nat /\ DOMAIN vec = 1 .. Len(vec)
      /\ DOMAIN new = 1 .. (Len(vec) + 1)
      /\ \A i \in 1 .. Len(vec) : new[i] = vec[i]
      /\ new[Len(vec) + 1] = id /\ new # <<>>
  OBVIOUS
<1> HIDE DEF new
<1>2. \A x : Has(new, x) <=> Has(vec, x) \/ x = id
  BY <1>1 DEF Has
<1>3. ASSUME NEW x, NEW y
      PROVE  Before(new, x, y) <=> Before(vec, x, y) \/ (Has(vec, x) /\ y = id)
  <2>1. ASSUME Before(new, x, y) PROVE Before(vec, x, y) \/ (Has(vec, x) /\ y = id)
    BY <1>1, <2>1 DEF Before, Has
  <2>2. ASSUME Before(vec, x, y) PROVE Before(new, x, y)
    BY <1>1, <2>2 DEF Before
  <2>3. ASSUME Has(vec, x), y = id PROVE Before(new, x, y)
    <3>1. PICK i \in 1 .. Len(vec) : vec[i] = x
      BY <1>1, <2>3 DEF Has
    <3>2. i < Len(vec) + 1 /\ i \in DOMAIN new /\ Len(vec) + 1 \in DOMAIN new
      BY <1>1
    <3> QED BY <1>1, <2>3, <3>1, <3>2 DEF Before
  <2> QED BY <2>1, <2>2, <2>3
<1>4. HoldsOnce(vec) /\ ~Has(vec, id) => HoldsOnce(new)
  BY <1>1 DEF HoldsOnce, Has
<1> QED BY <1>1, <1>2, <1>3, <1>4 DEF new

(* Removing an id that is there once keeps the others in their order.      *)
LEMMA Removed ==
  ASSUME NEW vec \in Seq(Ids), NEW id \in Ids, HoldsOnce(vec), Has(vec, id)
  PROVE  /\ Remaining(vec, id) \in Seq(Ids)
         /\ \A x : Has(Remaining(vec, id), x) <=> Has(vec, x) /\ x # id
         /\ \A x, y : Before(Remaining(vec, id), x, y) => Before(vec, x, y)
         /\ \A x, y : Before(vec, x, y) /\ x # id /\ y # id => Before(Remaining(vec, id), x, y)
         /\ HoldsOnce(Remaining(vec, id))
<1> DEFINE new == Remaining(vec, id)
           at == PlaceOf(vec, id)
<1>1. Len(vec) \in Nat /\ DOMAIN vec = 1 .. Len(vec)
  OBVIOUS
<1>2. at \in 1 .. Len(vec) /\ vec[at] = id
  BY <1>1 DEF PlaceOf, Has
<1>3. new = SubSeq(vec, 1, at - 1) \o SubSeq(vec, at + 1, Len(vec))
  BY DEF Remaining, RemoveAt
<1> HIDE DEF at, new
<1> DEFINE front == SubSeq(vec, 1, at - 1)
           back == SubSeq(vec, at + 1, Len(vec))
<1>4. /\ front \in Seq(Ids) /\ Len(front) = at - 1
      /\ \A i \in 1 .. (at - 1) : front[i] = vec[i]
  <2>1. \A i \in 1 .. at - 1 : vec[i] \in Ids
    BY <1>1, <1>2
  <2> QED BY <1>1, <1>2, <2>1, SubSeqProperties
<1>5. /\ back \in Seq(Ids) /\ Len(back) = Len(vec) - at
      /\ \A i \in 1 .. (Len(vec) - at) : back[i] = vec[at + i]
  <2>1. \A i \in at + 1 .. Len(vec) : vec[i] \in Ids
    BY <1>1, <1>2
  <2>2. /\ back \in Seq(Ids)
        /\ Len(back) = IF at + 1 <= Len(vec) THEN Len(vec) - (at + 1) + 1 ELSE 0
        /\ \A i \in 1 .. Len(vec) - (at + 1) + 1 : back[i] = vec[at + 1 + i - 1]
    BY <1>1, <1>2, <2>1, SubSeqProperties
  <2> HIDE DEF back
  <2>3. Len(back) = Len(vec) - at
    <3>1. at \in Int /\ Len(vec) \in Int /\ at <= Len(vec)
      BY <1>1, <1>2
    <3>2. Len(back) = IF at + 1 <= Len(vec) THEN Len(vec) - (at + 1) + 1 ELSE 0
      BY <2>2
    <3> QED BY <3>1, <3>2
  <2>4. ASSUME NEW i \in 1 .. (Len(vec) - at) PROVE back[i] = vec[at + i]
    <3>1. i \in 1 .. Len(vec) - (at + 1) + 1 /\ at + 1 + i - 1 = at + i
      BY <1>1, <1>2
    <3> QED BY <2>2, <3>1
  <2> QED BY <2>2, <2>3, <2>4
<1> HIDE DEF front, back
<1>6. /\ new \in Seq(Ids) /\ Len(new) = Len(vec) - 1
      /\ \A i \in 1 .. (Len(vec) - 1) : new[i] = IF i <= at - 1 THEN front[i] ELSE back[i - (at - 1)]
  <2>1. new = front \o back
    BY <1>3 DEF front, back
  <2>2. /\ new \in Seq(Ids) /\ Len(new) = Len(front) + Len(back)
        /\ \A i \in 1 .. Len(front) + Len(back) :
             new[i] = IF i <= Len(front) THEN front[i] ELSE back[i - Len(front)]
    BY <1>4, <1>5, <2>1, ConcatProperties
  <2>3. Len(front) + Len(back) = Len(vec) - 1
    BY <1>1, <1>2, <1>4, <1>5
  <2> QED BY <1>4, <2>2, <2>3
<1>7. /\ DOMAIN new = 1 .. (Len(vec) - 1)
      /\ \A i \in 1 .. (Len(vec) - 1) : new[i] = IF i < at THEN vec[i] ELSE vec[i + 1]
  <2>1. DOMAIN new = 1 .. (Len(vec) - 1)
    BY <1>6
  <2>2. ASSUME NEW i \in 1 .. (Len(vec) - 1), i < at PROVE new[i] = vec[i]
    <3>1. i \in 1 .. (at - 1) /\ i <= at - 1
      BY <1>1, <1>2, <2>2
    <3> QED BY <1>4, <1>6, <3>1
  <2>3. ASSUME NEW i \in 1 .. (Len(vec) - 1), ~(i < at) PROVE new[i] = vec[i + 1]
    <3>1. i - (at - 1) \in 1 .. (Len(vec) - at) /\ ~(i <= at - 1) /\ at + (i - (at - 1)) = i + 1
      BY <1>1, <1>2, <2>3
    <3> QED BY <1>5, <1>6, <3>1
  <2> QED BY <2>1, <2>2, <2>3
<1>8. \A i \in 1 .. Len(vec) : vec[i] = id <=> i = at
  BY <1>1, <1>2 DEF HoldsOnce
<1>9. ASSUME NEW x PROVE Has(new, x) <=> Has(vec, x) /\ x # id
  <2>1. ASSUME Has(new, x) PROVE Has(vec, x) /\ x # id
    BY <1>1, <1>2, <1>7, <1>8, <2>1 DEF Has
  <2>2. ASSUME Has(vec, x), x # id PROVE Has(new, x)
    <3>1. PICK i \in 1 .. Len(vec) : vec[i] = x
      BY <1>1, <2>2 DEF Has
    <3>2. CASE i < at
      BY <1>1, <1>2, <1>7, <3>1, <3>2 DEF Has
    <3>3. CASE i > at
      <4>1. i - 1 \in 1 .. (Len(vec) - 1) /\ new[i - 1] = x
        BY <1>1, <1>2, <1>7, <3>1, <3>3
      <4> QED BY <1>7, <4>1 DEF Has
    <3> QED BY <1>2, <2>2, <3>1, <3>2, <3>3
  <2> QED BY <2>1, <2>2
<1>10. ASSUME NEW x, NEW y, Before(new, x, y) PROVE Before(vec, x, y)
  <2>1. PICK i, j \in 1 .. (Len(vec) - 1) : i < j /\ new[i] = x /\ new[j] = y
    BY <1>7, <1>10 DEF Before
  <2> DEFINE p(k) == IF k < at THEN k ELSE k + 1
  <2>2. p(i) \in DOMAIN vec /\ p(j) \in DOMAIN vec /\ p(i) < p(j)
    BY <1>1, <1>2, <2>1
  <2>3. vec[p(i)] = x /\ vec[p(j)] = y
    BY <1>7, <2>1
  <2> QED BY <2>2, <2>3 DEF Before
<1>11. ASSUME NEW x, NEW y, Before(vec, x, y), x # id, y # id PROVE Before(new, x, y)
  <2>1. PICK i, j \in 1 .. Len(vec) : i < j /\ vec[i] = x /\ vec[j] = y
    BY <1>1, <1>11 DEF Before
  <2> DEFINE p(k) == IF k < at THEN k ELSE k - 1
  <2>2. i # at /\ j # at
    BY <1>2, <1>11, <2>1
  <2>3. p(i) \in 1 .. (Len(vec) - 1) /\ p(j) \in 1 .. (Len(vec) - 1) /\ p(i) < p(j)
    BY <1>1, <1>2, <2>1, <2>2
  <2>4. new[p(i)] = x /\ new[p(j)] = y
    <3>1. ASSUME NEW k \in 1 .. Len(vec), k < at PROVE new[k] = vec[k]
      BY <1>1, <1>2, <1>7, <3>1
    <3>2. ASSUME NEW k \in 1 .. Len(vec), k > at PROVE new[k - 1] = vec[k]
      <4>1. k - 1 \in 1 .. (Len(vec) - 1) /\ ~(k - 1 < at) /\ (k - 1) + 1 = k
        BY <1>1, <1>2, <3>2
      <4> QED BY <1>7, <4>1
    <3> QED BY <1>2, <2>1, <2>2, <3>1, <3>2
  <2> QED BY <1>7, <2>3, <2>4 DEF Before
<1>12. HoldsOnce(new)
  <2> SUFFICES ASSUME NEW i \in 1 .. (Len(vec) - 1), NEW j \in 1 .. (Len(vec) - 1),
                      new[i] = new[j]
               PROVE  i = j
    BY <1>7 DEF HoldsOnce
  <2> DEFINE p(k) == IF k < at THEN k ELSE k + 1
  <2>1. vec[p(i)] = vec[p(j)] /\ p(i) \in DOMAIN vec /\ p(j) \in DOMAIN vec
    BY <1>1, <1>2, <1>7
  <2>2. p(i) = p(j)
    BY <2>1 DEF HoldsOnce
  <2> QED BY <1>2, <2>2
<1> QED BY <1>6, <1>9, <1>10, <1>11, <1>12 DEF new

-----------------------------------------------------------------------------
(* The levels and the table of orders agree.                               *)

Held(id) == byId[id] # Absent

At(id, s, p) == Held(id) /\ byId[id].isBuy = s /\ byId[id].price = p

(* Each level holds the ids of its orders, in the order in which they      *)
(* arrived.                                                                *)
LevelsHoldIds ==
  \A s \in BOOLEAN, p \in Prices :
    /\ \A id \in Ids : Has(book[s][p], id) <=> At(id, s, p)
    /\ \A x, y \in Ids : Before(book[s][p], x, y) => Before(arrived, x, y)

ArrivedHoldsIds ==
  /\ HoldsOnce(arrived)
  /\ \A id \in Ids : Has(arrived, id) <=> Held(id)

HybridInv ==
  /\ byId \in [Ids -> Order \cup {Absent}]
  /\ arrived \in Seq(Ids)
  /\ book \in [BOOLEAN -> [Prices -> Seq(Ids)]]
  /\ keys = [s \in BOOLEAN |-> {p \in Prices : book[s][p] # <<>>}]
  /\ LevelsHoldIds
  /\ ArrivedHoldsIds

LEMMA HybridInvInit == Init => HybridInv
<1> SUFFICES ASSUME HybridInit PROVE HybridInv
  BY DEF Init
<1>1. \A x, y : ~Has(<<>>, x) /\ ~Before(<<>>, x, y)
  BY DEF Has, Before
<1>2. HoldsOnce(<<>>)
  BY DEF HoldsOnce
<1>3. \A s \in BOOLEAN, p \in Prices : book[s][p] = <<>>
  BY DEF HybridInit
<1>4. keys = [s \in BOOLEAN |-> {p \in Prices : book[s][p] # <<>>}]
  BY <1>3 DEF HybridInit
<1>5. \A id \in Ids : ~Held(id)
  BY DEF HybridInit, Held
<1>6. LevelsHoldIds
  BY <1>1, <1>3, <1>5 DEF LevelsHoldIds, At
<1>7. ArrivedHoldsIds
  BY <1>1, <1>2, <1>5 DEF HybridInit, ArrivedHoldsIds
<1> QED BY <1>4, <1>6, <1>7 DEF HybridInit, HybridInv

(* An id has one place in its level, as it has one among the arrivals.     *)
LEMMA LevelHoldsOnce ==
  ASSUME HybridInv, NEW s \in BOOLEAN, NEW p \in Prices
  PROVE  book[s][p] \in Seq(Ids) /\ HoldsOnce(book[s][p])
<1>1. book[s][p] \in Seq(Ids)
  BY DEF HybridInv
<1>2. SUFFICES ASSUME NEW i \in DOMAIN book[s][p], NEW j \in DOMAIN book[s][p],
                      book[s][p][i] = book[s][p][j], i < j
               PROVE  FALSE
  <2>1. \A i \in DOMAIN book[s][p] : i \in Int
    BY <1>1
  <2> QED BY <1>1, <1>2, <2>1 DEF HoldsOnce
<1>3. Before(arrived, book[s][p][i], book[s][p][i])
  <2>1. Before(book[s][p], book[s][p][i], book[s][p][i])
    BY <1>2 DEF Before
  <2>2. book[s][p][i] \in Ids
    BY <1>1
  <2> QED BY <2>1, <2>2 DEF HybridInv, LevelsHoldIds
<1>4. DOMAIN arrived = 1 .. Len(arrived) /\ Len(arrived) \in Nat
  BY DEF HybridInv
<1> QED BY <1>3, <1>4 DEF Before, HybridInv, ArrivedHoldsIds, HoldsOnce

LEMMA HybridInvAdd ==
  ASSUME HybridInv, NEW id \in Ids, NEW o \in Order, add(id, o), ~Refused(id)
  PROVE  HybridInv'
<1>0. o.isBuy \in BOOLEAN /\ o.price \in Prices /\ o # Absent
  BY AbsentIsNoValue DEF Order
<1>1. /\ byId' = [byId EXCEPT ![id] = o]
      /\ book' = [book EXCEPT ![o.isBuy][o.price] = Append(@, id)]
      /\ keys' = [keys EXCEPT ![o.isBuy] = @ \cup {o.price}]
      /\ arrived' = Append(arrived, id)
  BY DEF add
<1>2. byId' \in [Ids -> Order \cup {Absent}]
  BY <1>1 DEF HybridInv
<1>3. ~Held(id) /\ (\A s \in BOOLEAN, p \in Prices : ~Has(book[s][p], id)) /\ ~Has(arrived, id)
  BY DEF Refused, Held, HybridInv, LevelsHoldIds, ArrivedHoldsIds, At
<1>4. \A i \in Ids : Held(i)' <=> Held(i) \/ i = id
  BY <1>0, <1>1 DEF Held, HybridInv
<1>5. \A i \in Ids, s \in BOOLEAN, p \in Prices :
        At(i, s, p)' <=> At(i, s, p) \/ (i = id /\ s = o.isBuy /\ p = o.price)
  BY <1>0, <1>1, <1>3, <1>4 DEF At, Held, HybridInv
<1>6. arrived \in Seq(Ids)
  BY DEF HybridInv
<1>7. arrived' \in Seq(Ids) /\ HoldsOnce(arrived')
  BY <1>1, <1>3, <1>6, Appended DEF HybridInv, ArrivedHoldsIds
<1>8. \A x : Has(arrived', x) <=> Has(arrived, x) \/ x = id
  BY <1>1, <1>6, Appended
<1>9. \A x, y : Before(arrived', x, y) <=> Before(arrived, x, y) \/ (Has(arrived, x) /\ y = id)
  BY <1>1, <1>6, Appended
<1>10. ArrivedHoldsIds'
  BY <1>4, <1>7, <1>8 DEF ArrivedHoldsIds, HybridInv
<1>11. /\ book' \in [BOOLEAN -> [Prices -> Seq(Ids)]]
       /\ \A s \in BOOLEAN, p \in Prices :
            book'[s][p] = IF s = o.isBuy /\ p = o.price THEN Append(book[s][p], id) ELSE book[s][p]
  BY <1>0, <1>1 DEF HybridInv
<1>12. keys' = [s \in BOOLEAN |-> {p \in Prices : book'[s][p] # <<>>}]
  <2>1. keys' = [s \in BOOLEAN |-> IF s = o.isBuy THEN keys[s] \cup {o.price} ELSE keys[s]]
    BY <1>0, <1>1 DEF HybridInv
  <2>2. ASSUME NEW s \in BOOLEAN
        PROVE  {p \in Prices : book'[s][p] # <<>>}
                 = IF s = o.isBuy THEN keys[s] \cup {o.price} ELSE keys[s]
    <3>1. keys[s] = {p \in Prices : book[s][p] # <<>>}
      BY DEF HybridInv
    <3>2. Append(book[o.isBuy][o.price], id) # <<>>
      BY <1>0, LevelHoldsOnce, Appended
    <3>3. ASSUME NEW p \in Prices
          PROVE  book'[s][p] # <<>> <=> p \in keys[s] \/ (s = o.isBuy /\ p = o.price)
      <4>1. CASE s = o.isBuy /\ p = o.price
        BY <1>0, <1>11, <3>2, <4>1
      <4>2. CASE ~(s = o.isBuy /\ p = o.price)
        BY <1>11, <3>1, <4>2
      <4> QED BY <4>1, <4>2
    <3>4. keys[s] \subseteq Prices
      BY <3>1
    <3> QED BY <1>0, <3>3, <3>4
  <2> QED BY <2>1, <2>2
<1>13. ASSUME NEW s \in BOOLEAN, NEW p \in Prices
       PROVE  /\ \A i \in Ids : Has(book'[s][p], i) <=> At(i, s, p)'
              /\ \A x, y \in Ids : Before(book'[s][p], x, y) => Before(arrived', x, y)
  <2>0. /\ \A i \in Ids : Has(book[s][p], i) <=> At(i, s, p)
        /\ \A x, y \in Ids : Before(book[s][p], x, y) => Before(arrived, x, y)
    BY DEF HybridInv, LevelsHoldIds
  <2>1. CASE s = o.isBuy /\ p = o.price
    <3>1. book[s][p] \in Seq(Ids) /\ book'[s][p] = Append(book[s][p], id)
      BY <1>11, <2>1, LevelHoldsOnce
    <3>2. \A x : Has(book'[s][p], x) <=> Has(book[s][p], x) \/ x = id
      BY <3>1, Appended
    <3>3. \A x, y : Before(book'[s][p], x, y)
                      <=> Before(book[s][p], x, y) \/ (Has(book[s][p], x) /\ y = id)
      BY <3>1, Appended
    <3>4. \A x \in Ids : Has(book[s][p], x) => Has(arrived, x)
      BY <2>0 DEF At, HybridInv, ArrivedHoldsIds
    <3> QED BY <1>5, <1>9, <2>0, <2>1, <3>2, <3>3, <3>4
  <2>2. CASE ~(s = o.isBuy /\ p = o.price)
    BY <1>5, <1>9, <1>11, <2>0, <2>2
  <2> QED BY <2>1, <2>2
<1>14. LevelsHoldIds'
  BY <1>13 DEF LevelsHoldIds
<1> QED BY <1>2, <1>7, <1>10, <1>11, <1>12, <1>14 DEF HybridInv

LEMMA HybridInvModify ==
  ASSUME HybridInv, NEW id \in Ids, NEW q \in Quantities, modify(id, q), Held(id)
  PROVE  HybridInv'
<1>1. byId' = [byId EXCEPT ![id].quantity = q] /\ UNCHANGED <<book, keys, arrived>>
  BY DEF modify, Held
<1>2. byId[id] \in Order
  BY DEF Held, HybridInv
<1>3. \A i \in Ids : i # id => byId'[i] = byId[i]
  BY <1>1 DEF HybridInv
<1>4. byId'[id] \in Order /\ byId'[id].isBuy = byId[id].isBuy /\ byId'[id].price = byId[id].price
  BY <1>1, <1>2 DEF HybridInv, Order
<1>5. byId' \in [Ids -> Order \cup {Absent}]
  BY <1>1, <1>3, <1>4 DEF HybridInv
<1>6. \A i \in Ids : Held(i)' <=> Held(i)
  BY <1>3, <1>4, AbsentIsNoValue DEF Held
<1>7. \A i \in Ids, s \in BOOLEAN, p \in Prices : At(i, s, p)' <=> At(i, s, p)
  BY <1>3, <1>4, <1>6 DEF At
<1>8. LevelsHoldIds'
  BY <1>1, <1>7 DEF LevelsHoldIds, HybridInv
<1>9. ArrivedHoldsIds'
  BY <1>1, <1>6 DEF ArrivedHoldsIds, HybridInv
<1>10. keys' = [s \in BOOLEAN |-> {p \in Prices : book'[s][p] # <<>>}]
  BY <1>1 DEF HybridInv
<1> QED BY <1>1, <1>5, <1>8, <1>9, <1>10 DEF HybridInv

LEMMA HybridInvErase ==
  ASSUME HybridInv, NEW id \in Ids, erase(id), Held(id)
  PROVE  HybridInv'
<1> DEFINE o == byId[id]
           vec == Remaining(book[o.isBuy][o.price], id)
<1>0. o \in Order /\ o.isBuy \in BOOLEAN /\ o.price \in Prices
  BY DEF Held, HybridInv, Order
<1>1. /\ byId' = [byId EXCEPT ![id] = Absent]
      /\ book' = [book EXCEPT ![o.isBuy][o.price] = vec]
      /\ keys' = [keys EXCEPT ![o.isBuy] = IF vec = <<>> THEN @ \ {o.price} ELSE @]
      /\ arrived' = Remaining(arrived, id)
  BY DEF erase, Held, DropsLevel
<1>2. byId' \in [Ids -> Order \cup {Absent}]
  BY <1>1 DEF HybridInv
<1>3. \A i \in Ids : Held(i)' <=> Held(i) /\ i # id
  BY <1>1 DEF Held, HybridInv
<1>4. \A i \in Ids, s \in BOOLEAN, p \in Prices : At(i, s, p)' <=> At(i, s, p) /\ i # id
  BY <1>1, <1>3 DEF At, Held, HybridInv
<1>5. /\ \A s \in BOOLEAN, p \in Prices : Has(book[s][p], id) <=> s = o.isBuy /\ p = o.price
      /\ arrived \in Seq(Ids) /\ HoldsOnce(arrived) /\ Has(arrived, id)
  BY DEF HybridInv, LevelsHoldIds, ArrivedHoldsIds, At
<1>6. arrived' \in Seq(Ids) /\ HoldsOnce(arrived')
  BY <1>1, <1>5, Removed
<1>7. \A x : Has(arrived', x) <=> Has(arrived, x) /\ x # id
  BY <1>1, <1>5, Removed
<1>8. \A x, y : Before(arrived, x, y) /\ x # id /\ y # id => Before(arrived', x, y)
  BY <1>1, <1>5, Removed
<1>9. ArrivedHoldsIds'
  BY <1>3, <1>6, <1>7 DEF ArrivedHoldsIds, HybridInv
<1>10. /\ book[o.isBuy][o.price] \in Seq(Ids) /\ HoldsOnce(book[o.isBuy][o.price])
       /\ Has(book[o.isBuy][o.price], id)
  BY <1>0, <1>5, LevelHoldsOnce
<1>11. /\ vec \in Seq(Ids)
       /\ \A x : Has(vec, x) <=> Has(book[o.isBuy][o.price], x) /\ x # id
       /\ \A x, y : Before(vec, x, y) => Before(book[o.isBuy][o.price], x, y)
  BY <1>10, Removed
<1> HIDE DEF vec
<1>12. /\ book' \in [BOOLEAN -> [Prices -> Seq(Ids)]]
       /\ \A s \in BOOLEAN, p \in Prices :
            book'[s][p] = IF s = o.isBuy /\ p = o.price THEN vec ELSE book[s][p]
  BY <1>0, <1>1, <1>11 DEF HybridInv
<1>13. keys' = [s \in BOOLEAN |-> {p \in Prices : book'[s][p] # <<>>}]
  <2>1. keys' = [s \in BOOLEAN |-> IF s = o.isBuy /\ vec = <<>> THEN keys[s] \ {o.price} ELSE keys[s]]
    BY <1>0, <1>1 DEF HybridInv
  <2>2. ASSUME NEW s \in BOOLEAN
        PROVE  {p \in Prices : book'[s][p] # <<>>}
                 = IF s = o.isBuy /\ vec = <<>> THEN keys[s] \ {o.price} ELSE keys[s]
    <3>1. keys[s] = {p \in Prices : book[s][p] # <<>>}
      BY DEF HybridInv
    <3>2. book[o.isBuy][o.price] # <<>>
      BY <1>10 DEF Has
    <3>3. ASSUME NEW p \in Prices
          PROVE  book'[s][p] # <<>> <=> p \in keys[s] /\ ~(s = o.isBuy /\ p = o.price /\ vec = <<>>)
      BY <1>0, <1>12, <3>1, <3>2
    <3>4. keys[s] \subseteq Prices
      BY <3>1
    <3> QED BY <1>0, <3>3, <3>4
  <2> QED BY <2>1, <2>2
<1>14. ASSUME NEW s \in BOOLEAN, NEW p \in Prices
       PROVE  /\ \A i \in Ids : Has(book'[s][p], i) <=> At(i, s, p)'
              /\ \A x, y \in Ids : Before(book'[s][p], x, y) => Before(arrived', x, y)
  <2>0. /\ \A i \in Ids : Has(book[s][p], i) <=> At(i, s, p)
        /\ \A x, y \in Ids : Before(book[s][p], x, y) => Before(arrived, x, y)
    BY DEF HybridInv, LevelsHoldIds
  <2>1. CASE s = o.isBuy /\ p = o.price
    <3>1. book'[s][p] = vec /\ book[s][p] = book[o.isBuy][o.price]
      BY <1>12, <2>1
    <3>2. \A x, y : Before(vec, x, y) => Has(vec, x) /\ Has(vec, y)
      BY DEF Before, Has
    <3> QED BY <1>4, <1>8, <1>11, <2>0, <2>1, <3>1, <3>2
  <2>2. CASE ~(s = o.isBuy /\ p = o.price)
    <3>1. book'[s][p] = book[s][p] /\ ~Has(book[s][p], id)
      BY <1>5, <1>12, <2>2
    <3>2. \A x, y : Before(book[s][p], x, y) => Has(book[s][p], x) /\ Has(book[s][p], y)
      BY DEF Before, Has
    <3> QED BY <1>4, <1>8, <2>0, <3>1, <3>2
  <2> QED BY <2>1, <2>2
<1>15. LevelsHoldIds'
  BY <1>14 DEF LevelsHoldIds
<1> QED BY <1>2, <1>6, <1>9, <1>12, <1>13, <1>15 DEF HybridInv

LEMMA HybridInvStep == HybridInv /\ [Next]_vars => HybridInv'
<1> SUFFICES ASSUME HybridInv, [Next]_vars PROVE HybridInv'
  OBVIOUS
<1>1. CASE UNCHANGED hybridVars
  BY <1>1 DEF hybridVars, HybridInv, LevelsHoldIds, ArrivedHoldsIds, At, Held
<1>2. CASE RunHybrid
  <2>1. ASSUME NEW id \in Ids, NEW o \in Order, add(id, o) PROVE HybridInv'
    BY <1>1, <2>1, HybridInvAdd DEF add
  <2>2. ASSUME NEW id \in Ids, NEW q \in Quantities, modify(id, q) PROVE HybridInv'
    BY <1>1, <2>2, HybridInvModify DEF modify, Held
  <2>3. ASSUME NEW id \in Ids, erase(id) PROVE HybridInv'
    BY <1>1, <2>3, HybridInvErase DEF erase, Held
  <2> QED BY <1>2, <2>1, <2>2, <2>3 DEF RunHybrid, HybridNext
<1>3. CASE RunLevel \/ RunPool \/ UNCHANGED vars
  BY <1>1, <1>3 DEF RunLevel, RunPool, vars
<1> QED BY <1>2, <1>3 DEF Next

-----------------------------------------------------------------------------
(* What bestBid and bestAsk name.                                          *)

Side(isBuy) == {i \in DOMAIN arrived : byId[arrived[i]].isBuy = isBuy}

PricesOf(isBuy) == {byId[arrived[i]].price : i \in Side(isBuy)}

(* The prices of the orders of a side are the keys of its map.             *)
LEMMA PricesAreKeys ==
  ASSUME HybridInv, NEW isBuy \in BOOLEAN
  PROVE  /\ PricesOf(isBuy) = keys[isBuy]
         /\ PricesOf(isBuy) \in SUBSET Int
         /\ IsFiniteSet(PricesOf(isBuy))
<1>1. arrived \in Seq(Ids) /\ DOMAIN arrived = 1 .. Len(arrived) /\ Len(arrived) \in Nat
  BY DEF HybridInv
<1>2. \A i \in DOMAIN arrived : arrived[i] \in Ids /\ Held(arrived[i]) /\ byId[arrived[i]] \in Order
  BY <1>1 DEF HybridInv, ArrivedHoldsIds, Has, Held
<1>3. ASSUME NEW p \in PricesOf(isBuy) PROVE p \in keys[isBuy]
  <2>1. PICK i \in Side(isBuy) : p = byId[arrived[i]].price
    BY DEF PricesOf
  <2>2. i \in DOMAIN arrived /\ At(arrived[i], isBuy, p) /\ p \in Prices
    BY <1>2, <2>1 DEF Side, At, Order
  <2>3. Has(book[isBuy][p], arrived[i])
    BY <1>2, <2>2 DEF HybridInv, LevelsHoldIds
  <2>4. book[isBuy][p] # <<>>
    BY <2>3 DEF Has
  <2> QED BY <2>2, <2>4 DEF HybridInv
<1>4. ASSUME NEW p \in keys[isBuy] PROVE p \in PricesOf(isBuy)
  <2>1. p \in Prices /\ book[isBuy][p] # <<>>
    BY DEF HybridInv
  <2>2. book[isBuy][p] \in Seq(Ids)
    BY <2>1, LevelHoldsOnce
  <2>3. book[isBuy][p][1] \in Ids /\ Has(book[isBuy][p], book[isBuy][p][1])
    BY <2>1, <2>2 DEF Has
  <2>4. At(book[isBuy][p][1], isBuy, p)
    BY <2>1, <2>3 DEF HybridInv, LevelsHoldIds
  <2>5. Has(arrived, book[isBuy][p][1])
    BY <2>3, <2>4 DEF At, HybridInv, ArrivedHoldsIds
  <2> QED BY <2>4, <2>5 DEF Has, At, PricesOf, Side
<1>5. PricesOf(isBuy) \in SUBSET Int
  <2>1. keys[isBuy] \subseteq Prices
    BY DEF HybridInv
  <2> QED BY <1>3, <2>1, PricesAreNumbers
<1>6. IsFiniteSet(PricesOf(isBuy))
  <2>1. IsFiniteSet(Side(isBuy))
    <3>1. IsFiniteSet(1 .. Len(arrived))
      BY <1>1, FS_Interval
    <3>2. Side(isBuy) \in SUBSET (1 .. Len(arrived))
      BY <1>1 DEF Side
    <3> QED BY <3>1, <3>2, FS_Subset
  <2> DEFINE f == [i \in Side(isBuy) |-> byId[arrived[i]].price]
  <2>2. f \in Surjection(Side(isBuy), PricesOf(isBuy))
    BY DEF Surjection, PricesOf
  <2> QED BY <2>1, <2>2, FS_Surjection
<1> QED BY <1>3, <1>4, <1>5, <1>6

(* The front of the best level is the first arrival among its orders.      *)
LEMMA FrontIsOldest ==
  ASSUME HybridInv, NEW isBuy \in BOOLEAN, NEW best \in keys[isBuy]
  PROVE  book[isBuy][best][1]
           = arrived[Min({i \in Side(isBuy) : byId[arrived[i]].price = best})]
<1> DEFINE vec == book[isBuy][best]
           atBest == {i \in Side(isBuy) : byId[arrived[i]].price = best}
<1>1. arrived \in Seq(Ids) /\ DOMAIN arrived = 1 .. Len(arrived) /\ Len(arrived) \in Nat
  BY DEF HybridInv
<1>2. best \in Prices /\ vec \in Seq(Ids) /\ vec # <<>>
  BY LevelHoldsOnce DEF HybridInv
<1>3. \A i \in DOMAIN arrived : arrived[i] \in Ids /\ Held(arrived[i])
  BY <1>1 DEF HybridInv, ArrivedHoldsIds, Has
<1>4. \A i \in DOMAIN arrived : i \in atBest <=> Has(vec, arrived[i])
  BY <1>2, <1>3 DEF HybridInv, LevelsHoldIds, At, Side
<1>5. vec[1] \in Ids /\ 1 \in DOMAIN vec
  BY <1>2
<1>6. Has(arrived, vec[1])
  <2>1. Has(vec, vec[1])
    BY <1>5 DEF Has
  <2> QED BY <1>2, <1>5, <2>1 DEF HybridInv, LevelsHoldIds, ArrivedHoldsIds, At
<1>7. PICK a \in DOMAIN arrived : arrived[a] = vec[1]
  BY <1>6 DEF Has
<1>8. a \in atBest
  BY <1>4, <1>5, <1>7 DEF Has
<1>9. atBest \in SUBSET (1 .. Len(arrived))
  BY <1>1 DEF Side
<1>10. Min(atBest) \in atBest /\ \A y \in atBest : Min(atBest) <= y
  <2>1. IsFiniteSet(atBest)
    <3>1. IsFiniteSet(1 .. Len(arrived))
      BY <1>1, FS_Interval
    <3> HIDE DEF atBest
    <3> QED BY <1>9, <3>1, FS_Subset
  <2>2. atBest \in SUBSET Int
    BY <1>9
  <2> HIDE DEF atBest
  <2> QED BY <1>8, <2>1, <2>2, MinOfFinite
<1> DEFINE m == Min(atBest)
<1>11. m \in DOMAIN arrived /\ m <= a
  BY <1>1, <1>8, <1>9, <1>10
<1>12. PICK k \in DOMAIN vec : vec[k] = arrived[m]
  BY <1>4, <1>10, <1>11 DEF Has
<1> HIDE DEF m
<1>13. CASE k = 1
  BY <1>12, <1>13 DEF m
<1>14. CASE k # 1
  <2>1. k > 1
    BY <1>2, <1>14
  <2>2. Before(vec, vec[1], arrived[m])
    BY <1>5, <1>12, <2>1 DEF Before
  <2>3. arrived[m] \in Ids
    BY <1>3, <1>11
  <2>4. Before(arrived, vec[1], arrived[m])
    BY <1>2, <1>5, <2>2, <2>3 DEF HybridInv, LevelsHoldIds
  <2>5. PICK i, j \in DOMAIN arrived : i < j /\ arrived[i] = vec[1] /\ arrived[j] = arrived[m]
    BY <2>4 DEF Before
  <2>6. i = a /\ j = m
    BY <1>7, <1>11, <2>5 DEF HybridInv, ArrivedHoldsIds, HoldsOnce
  <2> QED BY <1>1, <1>11, <2>5, <2>6
<1> QED BY <1>13, <1>14

LEMMA BestInv == HybridInv => BestIsOldestAtBestPrice
<1> SUFFICES ASSUME HybridInv, NEW isBuy \in BOOLEAN
             PROVE  LET prices == PricesOf(isBuy)
                        best == IF isBuy THEN Max(prices) ELSE Min(prices)
                        atBest == {i \in Side(isBuy) : byId[arrived[i]].price = best}
                    IN /\ keys[isBuy] = {} <=> Side(isBuy) = {}
                       /\ Side(isBuy) # {} =>
                            (IF isBuy THEN bestBid ELSE bestAsk) = arrived[Min(atBest)]
  BY DEF BestIsOldestAtBestPrice, Side, PricesOf
<1> DEFINE prices == PricesOf(isBuy)
           best == IF isBuy THEN Max(prices) ELSE Min(prices)
<1>1. prices = keys[isBuy] /\ prices \in SUBSET Int /\ IsFiniteSet(prices)
  BY PricesAreKeys
<1>2. prices = {} <=> Side(isBuy) = {}
  BY DEF PricesOf
<1>3. ASSUME Side(isBuy) # {} PROVE best \in keys[isBuy]
  <2> HIDE DEF prices
  <2> QED BY <1>1, <1>2, <1>3, MaxOfFinite, MinOfFinite
<1>4. (IF isBuy THEN bestBid ELSE bestAsk) = book[isBuy][best][1]
  <2>1. CASE isBuy = TRUE
    BY <1>1, <2>1 DEF bestBid
  <2>2. CASE isBuy = FALSE
    BY <1>1, <2>2 DEF bestAsk
  <2> QED BY <2>1, <2>2
<1> HIDE DEF best
<1>5. ASSUME Side(isBuy) # {}
      PROVE  book[isBuy][best][1] = arrived[Min({i \in Side(isBuy) : byId[arrived[i]].price = best})]
  BY <1>3, <1>5, FrontIsOldest
<1> QED BY <1>1, <1>2, <1>4, <1>5 DEF best

(* bestBid and bestAsk never read the front of an empty level nor an id    *)
(* that byId does not know, and what they name is the oldest order at the  *)
(* best price, for any ids and prices (order_book.hpp, lines 52-61).       *)
THEOREM BestOrderIsOldest == Spec => []BestIsOldestAtBestPrice
  BY BestInv, HybridInvInit, HybridInvStep, PTL DEF Spec

-----------------------------------------------------------------------------
(* The book that a walk over the levels shows.                             *)

LEMMA WalkShowsTheTable == HybridInv => HybridOrders = byId
<1> SUFFICES ASSUME HybridInv PROVE HybridOrders = byId
  OBVIOUS
<1>1. byId \in [Ids -> Order \cup {Absent}]
  BY DEF HybridInv
<1>2. ASSUME NEW id \in Ids PROVE HybridOrders[id] = byId[id]
  <2> DEFINE places == {place \in BOOLEAN \X Prices : Contains(book[place[1]][place[2]], id)}
             at == CHOOSE place \in places : TRUE
  <2>1. HybridOrders[id]
          = IF places = {} THEN Absent
            ELSE [price |-> at[2], quantity |-> byId[id].quantity, isBuy |-> at[1]]
    BY DEF HybridOrders
  <2>2. ASSUME NEW s \in BOOLEAN, NEW p \in Prices
        PROVE  Contains(book[s][p], id) <=> At(id, s, p)
    <3>1. DOMAIN book[s][p] = 1 .. Len(book[s][p])
      BY LevelHoldsOnce
    <3>2. Has(book[s][p], id) <=> At(id, s, p)
      BY DEF HybridInv, LevelsHoldIds
    <3> QED BY <3>1, <3>2 DEF Contains, Has
  <2>3. places = {place \in BOOLEAN \X Prices : At(id, place[1], place[2])}
    BY <2>2
  <2>4. CASE Held(id)
    <3>1. byId[id] \in Order
      BY <1>1, <2>4 DEF Held
    <3>2. byId[id].isBuy \in BOOLEAN /\ byId[id].price \in Prices
      BY <3>1 DEF Order
    <3>3. <<byId[id].isBuy, byId[id].price>> \in places
      BY <2>3, <2>4, <3>2 DEF At
    <3>4. at \in places
      BY <3>3
    <3>5. at[1] = byId[id].isBuy /\ at[2] = byId[id].price
      BY <2>3, <3>4 DEF At
    <3>6. HybridOrders[id] = [price |-> byId[id].price, quantity |-> byId[id].quantity,
                              isBuy |-> byId[id].isBuy]
      BY <2>1, <3>3, <3>5
    <3> QED BY <3>1, <3>6 DEF Order
  <2>5. CASE ~Held(id)
    <3>1. places = {}
      BY <2>3, <2>5 DEF At
    <3> QED BY <2>1, <2>5, <3>1 DEF Held
  <2> QED BY <2>4, <2>5
<1> QED BY <1>1, <1>2 DEF HybridOrders

(* Each call changes the book that a walk over bids and asks shows the way *)
(* the abstract book changes, or not at all (order_book.hpp, 23-43).       *)
THEOREM HybridFollowsBook == Spec => HybridImplementsBook
<1>1. Init => HybridSpec!Init
  <2>1. Init => HybridOrders = byId
    BY HybridInvInit, WalkShowsTheTable
  <2> QED BY <2>1 DEF Init, HybridInit, HybridSpec!Init
<1>2. HybridInv /\ HybridInv' /\ [Next]_vars => [HybridSpec!Next]_HybridOrders
  <2> SUFFICES ASSUME HybridInv, HybridInv', [Next]_vars PROVE [HybridSpec!Next]_HybridOrders
    OBVIOUS
  <2>0. HybridOrders = byId /\ HybridOrders' = byId'
    <3>1. HybridOrders = byId
      BY WalkShowsTheTable
    <3>2. (HybridOrders = byId)'
      BY WalkShowsTheTable, PTL
    <3> QED BY <3>1, <3>2
  <2>1. ASSUME byId' = byId PROVE [HybridSpec!Next]_HybridOrders
    BY <2>0, <2>1
  <2>2. ASSUME NEW id \in Ids, NEW o \in Order, add(id, o)
        PROVE  [HybridSpec!Next]_HybridOrders
    <3>1. CASE Refused(id)
      BY <2>1, <2>2, <3>1 DEF add, hybridVars
    <3>2. CASE ~Refused(id)
      <4>1. HybridSpec!Add(id)
        BY <2>0, <2>2, <3>2 DEF add, Refused, HybridSpec!Add, HybridSpec!Order, Order
      <4> QED BY <4>1 DEF HybridSpec!Next
    <3> QED BY <3>1, <3>2
  <2>3. ASSUME NEW id \in Ids, NEW q \in Quantities, modify(id, q)
        PROVE  [HybridSpec!Next]_HybridOrders
    <3>1. CASE byId[id] = Absent
      BY <2>1, <2>3, <3>1 DEF modify, hybridVars
    <3>2. CASE byId[id] # Absent
      <4>1. byId[id] \in Order
        BY <3>2 DEF HybridInv
      <4>2. byId' = [byId EXCEPT ![id] = [price |-> byId[id].price, quantity |-> q,
                                          isBuy |-> byId[id].isBuy]]
        BY <2>3, <3>2, <4>1 DEF modify, Order, HybridInv
      <4>3. HybridSpec!Modify(id)
        BY <2>0, <2>3, <3>2, <4>1, <4>2 DEF Order, HybridSpec!Modify
      <4> QED BY <4>3 DEF HybridSpec!Next
    <3> QED BY <3>1, <3>2
  <2>4. ASSUME NEW id \in Ids, erase(id)
        PROVE  [HybridSpec!Next]_HybridOrders
    <3>1. CASE byId[id] = Absent
      BY <2>1, <2>4, <3>1 DEF erase, hybridVars
    <3>2. CASE byId[id] # Absent
      <4>1. HybridSpec!Delete(id)
        BY <2>0, <2>4, <3>2 DEF erase, HybridSpec!Delete
      <4> QED BY <4>1 DEF HybridSpec!Next
    <3> QED BY <3>1, <3>2
  <2>5. CASE RunHybrid
    BY <2>5, <2>2, <2>3, <2>4 DEF RunHybrid, HybridNext
  <2>6. CASE RunLevel \/ RunPool \/ UNCHANGED vars
    BY <2>6, <2>1 DEF RunLevel, RunPool, vars, hybridVars
  <2> QED BY <2>5, <2>6 DEF Next
<1> QED BY <1>1, <1>2, HybridInvInit, HybridInvStep, PTL
     DEF Spec, HybridImplementsBook, HybridSpec!Spec
=============================================================================
