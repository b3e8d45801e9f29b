------------------------- MODULE MatchingEngineProofs -------------------------
(***************************************************************************)
(* Proofs about the matching engine of phase_4, for any number of ticks,   *)
(* any prices and quantities and any batch size of the logger: matching    *)
(* leaves no crossed book behind, trades the best and oldest orders only,  *)
(* and the states of the orders and the log agree with the book.           *)
(***************************************************************************)
EXTENDS MatchingEngine, FiniteSetTheorems, SequenceTheorems, WellFoundedInduction, TLAPS

-----------------------------------------------------------------------------
(* The inductive invariant.                                                *)

Statuses == {"New", "Filled", "Partial"}

Ahead(o, other) ==
    Precedes(o, other) \/ (o.price = other.price /\ o.id < other.id)

\* A side of the book when k orders have been created: its orders are bids or
\* asks (their ids tell which), the best price first and the oldest first
\* among those of one price.
Queue(orders, is_buy, k) ==
    /\ orders \in Seq(Order)
    /\ \A n \in DOMAIN orders :
         /\ orders[n].is_buy = is_buy
         /\ (orders[n].id % 2 = 0) = is_buy
         /\ orders[n].id < k
    /\ \A m, n \in DOMAIN orders : m < n => Ahead(orders[m], orders[n])
    /\ \A m, n \in DOMAIN orders : orders[m].id = orders[n].id => m = n

\* The order manager agrees with its book.
Sound(mgr, k) ==
    /\ mgr \in [book : [buy : Seq(Order), sell : Seq(Order)], states : [0 .. k - 1 -> Statuses]]
    /\ Queue(mgr.book.buy, TRUE, k)
    /\ Queue(mgr.book.sell, FALSE, k)
    /\ \A id \in 0 .. k - 1 :
         mgr.states[id] = "New" <=> id \in Ids(mgr.book.buy) \cup Ids(mgr.book.sell)

\* Of the two orders of a trade, one is in the book no longer, so that the
\* two cannot trade again.
Logged(log, states, k) ==
    /\ log \in Seq((0 .. k - 1) \X (0 .. k - 1))
    /\ \A n \in DOMAIN log : states[log[n][1]] # "New" \/ states[log[n][2]] # "New"
    /\ \A id \in 0 .. k - 1 : states[id] # "New" =>
         \E n \in DOMAIN log : id \in {log[n][1], log[n][2]}
    /\ \A m, n \in DOMAIN log : log[m] = log[n] => m = n

Uncrossed(book) ==
    \A m \in DOMAIN book.buy, n \in DOMAIN book.sell : book.buy[m].price <= book.sell[n].price

IteratorsAtBegin ==
    bestBid = Begin(orderMgr.book.buy) /\ bestSell = Begin(orderMgr.book.sell)

IInv ==
    /\ i \in 0 .. TICK_COUNT
    /\ phase \in {"tick", "match", "ended"}
    /\ Sound(orderMgr, i)
    /\ phase = "match" => IteratorsAtBegin
    /\ phase # "match" => Uncrossed(orderMgr.book)
    /\ trades \in Seq((0 .. i - 1) \X (0 .. i - 1))
    /\ printed \in Seq((0 .. i - 1) \X (0 .. i - 1))
    /\ Logged(printed \o trades, orderMgr.states, i)
    /\ phase = "ended" => trades = <<>>

-----------------------------------------------------------------------------
(* One side of the book.                                                   *)

\* Precedes orders by price, and an order without a better one is behind.
LEMMA PrecedesByPrice ==
  ASSUME NEW o \in Order, NEW p \in Order, NEW q \in Order,
         o.is_buy = p.is_buy, p.is_buy = q.is_buy
  PROVE  /\ Ahead(o, p) /\ Ahead(p, q) => Ahead(o, q)
         /\ Precedes(o, p) /\ Ahead(p, q) => Precedes(o, q)
         /\ ~Precedes(o, p) /\ Ahead(q, p) => ~Precedes(o, q)
         /\ Ahead(o, p) => ~Precedes(p, o)
         /\ ~Precedes(o, p) /\ p.id < o.id => Ahead(p, o)
         /\ Precedes(o, p) => Ahead(o, p)
<1>1. /\ o.price \in Int /\ p.price \in Int /\ q.price \in Int
      /\ o.id \in Int /\ p.id \in Int /\ q.id \in Int
      /\ o.is_buy \in BOOLEAN
  <2>1. ASSUME NEW r \in Order PROVE r.price \in Int /\ r.id \in Int /\ r.is_buy \in BOOLEAN
    <3>1. r.price \in Prices /\ r.id \in 0 .. TICK_COUNT - 1 /\ r.is_buy \in BOOLEAN
      BY DEF Order
    <3>2. r.price \in Int
      <4>1. Prices \subseteq Nat
        BY EngineAssumption
      <4>2. r.price \in Nat
        BY ONLY <3>1, <4>1
      <4> QED BY ONLY <4>2
    <3>3. r.id \in Int
      BY <3>1
    <3> QED BY <3>1, <3>2, <3>3
  <2> QED BY <2>1
<1> QED BY <1>1 DEF Ahead, Precedes

\* emplace finds its place in a side: a least one with only worse orders from
\* there on exists, and no worse order is in front of it.
LEMMA PlaceExists ==
  ASSUME NEW is_buy \in BOOLEAN, NEW k \in Nat, NEW orders, Queue(orders, is_buy, k),
         NEW o \in Order, o.is_buy = is_buy
  PROVE  /\ Position(orders, o) \in 1 .. Len(orders) + 1
         /\ \A m \in DOMAIN orders : Position(orders, o) <= m <=> Precedes(o, orders[m])
<1> DEFINE Behind == {n \in Nat : /\ n \in 1 .. Len(orders) + 1
                                  /\ \A m \in DOMAIN orders : n <= m => Precedes(o, orders[m])}
<1>1. /\ orders \in Seq(Order) /\ Len(orders) \in Nat /\ DOMAIN orders = 1 .. Len(orders)
      /\ \A n \in DOMAIN orders : orders[n] \in Order /\ orders[n].is_buy = is_buy
      /\ \A m, n \in DOMAIN orders : m < n => Ahead(orders[m], orders[n])
  BY DEF Queue
<1>2. Len(orders) + 1 \in Behind
  BY <1>1
<1>3. PICK n \in Behind : \A m \in Behind : ~(<<m, n>> \in OpToRel(<, Nat))
  <2>1. Behind \subseteq Nat /\ Behind # {}
    BY <1>2
  <2>2. IsWellFoundedOn(OpToRel(<, Nat), Nat)
    BY NatLessThanWellFounded
  <2> HIDE DEF Behind
  <2> QED BY <2>1, <2>2, WFMin
<1>4. ASSUME NEW m \in DOMAIN orders, m < n PROVE ~Precedes(o, orders[m])
  <2>1. SUFFICES ASSUME Precedes(o, orders[m]) PROVE FALSE
    OBVIOUS
  <2>2. ASSUME NEW j \in DOMAIN orders, m <= j PROVE Precedes(o, orders[j])
    <3>1. CASE j = m
      BY <2>1, <3>1
    <3>2. CASE j # m
      <4>1. m < j
        BY <1>1, <2>2, <3>2
      <4> QED BY <1>1, <2>1, <4>1, PrecedesByPrice
    <3> QED BY <3>1, <3>2
  <2>3. m \in Behind
    BY <1>1, <1>4, <2>2
  <2>4. <<m, n>> \in OpToRel(<, Nat)
    BY <1>1, <1>4 DEF OpToRel
  <2> QED BY <1>3, <2>3, <2>4
<1>5. \E p \in 1 .. Len(orders) + 1 :
         \A m \in DOMAIN orders : p <= m <=> Precedes(o, orders[m])
  <2>1. n \in 1 .. Len(orders) + 1
    OBVIOUS
  <2>2. ASSUME NEW m \in DOMAIN orders PROVE n <= m <=> Precedes(o, orders[m])
    BY <1>1, <1>4, <2>1
  <2> QED BY <2>1, <2>2
<1> QED BY <1>5 DEF Position

\* Where a sequence is lengthened by an element, and what it then holds.
LEMMA Inserting ==
  ASSUME NEW S, NEW s \in Seq(S), NEW e \in S, NEW p \in 1 .. Len(s) + 1
  PROVE  /\ InsertAt(s, p, e) \in Seq(S)
         /\ Len(InsertAt(s, p, e)) = Len(s) + 1
         /\ \A n \in 1 .. Len(s) + 1 :
              InsertAt(s, p, e)[n] = IF n < p THEN s[n] ELSE IF n = p THEN e ELSE s[n - 1]
<1> DEFINE front == SubSeq(s, 1, p - 1)
           back == SubSeq(s, p, Len(s))
<1>1. /\ front \in Seq(S) /\ Len(front) = p - 1
      /\ \A n \in 1 .. p - 1 : front[n] = s[n]
  BY SubSeqProperties
<1>2. /\ back \in Seq(S) /\ Len(back) = Len(s) - p + 1
      /\ \A n \in 1 .. Len(s) - p + 1 : back[n] = s[p + n - 1]
  BY SubSeqProperties
<1>3. InsertAt(s, p, e) = front \o <<e>> \o back
  BY DEF InsertAt
<1> HIDE DEF front, back
<1>4. /\ front \o <<e>> \in Seq(S) /\ Len(front \o <<e>>) = p
      /\ \A n \in 1 .. p : (front \o <<e>>)[n] = IF n < p THEN s[n] ELSE e
  BY <1>1
<1>5. /\ (front \o <<e>>) \o back \in Seq(S)
      /\ Len((front \o <<e>>) \o back) = p + (Len(s) - p + 1)
      /\ \A n \in 1 .. p + (Len(s) - p + 1) :
           ((front \o <<e>>) \o back)[n]
             = IF n <= p THEN (front \o <<e>>)[n] ELSE back[n - p]
  <2> DEFINE start == front \o <<e>>
  <2>1. start \in Seq(S) /\ Len(start) = p
    BY <1>4
  <2> HIDE DEF start
  <2>2. /\ start \o back \in Seq(S)
        /\ Len(start \o back) = Len(start) + Len(back)
        /\ \A n \in 1 .. Len(start) + Len(back) :
             (start \o back)[n] = IF n <= Len(start) THEN start[n] ELSE back[n - Len(start)]
    BY ONLY <1>2, <2>1, ConcatProperties
  <2>3. /\ start \o back \in Seq(S)
        /\ Len(start \o back) = p + (Len(s) - p + 1)
        /\ \A n \in 1 .. p + (Len(s) - p + 1) :
             (start \o back)[n] = IF n <= p THEN start[n] ELSE back[n - p]
    BY ONLY <1>2, <2>1, <2>2
  <2> QED BY <2>3 DEF start
<1>6. ASSUME NEW n \in 1 .. Len(s) + 1, n > p
      PROVE  back[n - p] = s[n - 1]
  <2>1. n - p \in 1 .. Len(s) - p + 1 /\ p + (n - p) - 1 = n - 1
    BY <1>6
  <2> QED BY <1>2, <2>1
<1> QED BY <1>3, <1>4, <1>5, <1>6

\* An order that is inserted is the newest: it goes behind those of its price.
LEMMA QueueAfterAdding ==
  ASSUME NEW is_buy \in BOOLEAN, NEW k \in Nat, NEW orders, Queue(orders, is_buy, k),
         NEW o \in Order, o.is_buy = is_buy, o.id = k, (k % 2 = 0) = is_buy
  PROVE  LET after == InsertAt(orders, Position(orders, o), o)
         IN  Queue(after, is_buy, k + 1) /\ Ids(after) = Ids(orders) \cup {k}
<1> DEFINE p == Position(orders, o)
           after == InsertAt(orders, p, o)
<1>1. /\ orders \in Seq(Order) /\ Len(orders) \in Nat /\ DOMAIN orders = 1 .. Len(orders)
      /\ \A n \in DOMAIN orders :
           /\ orders[n] \in Order /\ orders[n].is_buy = is_buy
           /\ (orders[n].id % 2 = 0) = is_buy /\ orders[n].id < k
      /\ \A m, n \in DOMAIN orders : m < n => Ahead(orders[m], orders[n])
      /\ \A m, n \in DOMAIN orders : orders[m].id = orders[n].id => m = n
  BY DEF Queue
<1>2. /\ p \in 1 .. Len(orders) + 1
      /\ \A m \in DOMAIN orders : p <= m <=> Precedes(o, orders[m])
  BY PlaceExists
<1> HIDE DEF p
<1>3. /\ after \in Seq(Order) /\ Len(after) = Len(orders) + 1
      /\ \A n \in 1 .. Len(orders) + 1 :
           after[n] = IF n < p THEN orders[n] ELSE IF n = p THEN o ELSE orders[n - 1]
  BY <1>1, <1>2, Inserting
<1> HIDE DEF after
<1> DEFINE from(n) == IF n < p THEN n ELSE n - 1
<1>4. ASSUME NEW n \in 1 .. Len(orders) + 1, n # p
      PROVE  from(n) \in DOMAIN orders /\ after[n] = orders[from(n)]
  <2>1. from(n) \in 1 .. Len(orders)
    <3>1. /\ Len(orders) \in Int /\ p \in Int /\ n \in Int
          /\ 1 <= n /\ n <= Len(orders) + 1 /\ 1 <= p /\ p <= Len(orders) + 1 /\ n # p
      BY <1>1, <1>2, <1>4
    <3>2. from(n) \in Int /\ 1 <= from(n) /\ from(n) <= Len(orders)
      BY ONLY <3>1
    <3> QED BY <3>2
  <2>2. after[n] = orders[from(n)]
    BY <1>3, <1>4
  <2> QED BY <1>1, <2>1, <2>2
<1>5. DOMAIN after = 1 .. Len(orders) + 1
  BY <1>3
<1>6. after[p] = o
  BY <1>2, <1>3
<1>7. ASSUME NEW m \in DOMAIN after, NEW n \in DOMAIN after, m < n
      PROVE  Ahead(after[m], after[n])
  <2>1. CASE m # p /\ n # p
    <3>1. m \in Int /\ n \in Int /\ p \in Int
      BY <1>1, <1>2, <1>5
    <3>2. from(m) < from(n)
      BY ONLY <1>7, <2>1, <3>1
    <3> HIDE DEF from
    <3> QED BY <1>1, <1>4, <1>5, <2>1, <3>2
  <2>2. CASE m = p
    <3>1. from(n) \in DOMAIN orders /\ after[n] = orders[from(n)] /\ p <= from(n)
      BY <1>1, <1>2, <1>4, <1>5, <1>7, <2>2
    <3> HIDE DEF from
    <3>2. Precedes(o, after[n])
      BY <1>2, <3>1
    <3> QED BY <1>6, <2>2, <3>2 DEF Ahead
  <2>3. CASE n = p
    <3>1. from(m) \in DOMAIN orders /\ after[m] = orders[from(m)] /\ ~(p <= from(m))
      BY <1>1, <1>2, <1>4, <1>5, <1>7, <2>3
    <3> HIDE DEF from
    <3>2. ~Precedes(o, after[m]) /\ after[m] \in Order /\ after[m].id < o.id
          /\ after[m].is_buy = o.is_buy
      BY <1>1, <1>2, <3>1
    <3> QED BY <1>6, <2>3, <3>2, PrecedesByPrice
  <2> QED BY <2>1, <2>2, <2>3
<1>8. ASSUME NEW n \in DOMAIN after
      PROVE  /\ after[n].is_buy = is_buy /\ (after[n].id % 2 = 0) = is_buy
             /\ after[n].id < k + 1
             /\ after[n].id = k => n = p
  <2>1. CASE n = p
    BY <1>6, <2>1
  <2>2. CASE n # p
    <3>1. from(n) \in DOMAIN orders /\ after[n] = orders[from(n)]
      BY <1>4, <1>5, <2>2
    <3> HIDE DEF from
    <3>2. /\ after[n].is_buy = is_buy /\ (after[n].id % 2 = 0) = is_buy
          /\ after[n].id < k /\ after[n] \in Order
      BY <1>1, <3>1
    <3>3. after[n].id \in 0 .. TICK_COUNT - 1
      BY <3>2 DEF Order
    <3> QED BY <3>2, <3>3, EngineAssumption
  <2> QED BY <2>1, <2>2
<1>9. ASSUME NEW m \in DOMAIN after, NEW n \in DOMAIN after, after[m].id = after[n].id
      PROVE  m = n
  <2>1. CASE m = p \/ n = p
    BY <1>6, <1>8, <1>9, <2>1
  <2>2. CASE m # p /\ n # p
    <3>1. from(m) = from(n)
      <4> HIDE DEF from
      <4> QED BY <1>1, <1>4, <1>5, <1>9, <2>2
    <3> QED BY <1>2, <1>5, <2>2, <3>1
  <2> QED BY <2>1, <2>2
<1>10. Ids(after) = Ids(orders) \cup {k}
  <2>1. ASSUME NEW n \in DOMAIN after PROVE after[n].id \in Ids(orders) \cup {k}
    <3>1. CASE n = p
      BY <1>6, <3>1
    <3>2. CASE n # p
      <4>1. from(n) \in DOMAIN orders /\ after[n] = orders[from(n)]
        BY <1>4, <1>5, <3>2
      <4> HIDE DEF from
      <4> QED BY <4>1 DEF Ids
    <3> QED BY <3>1, <3>2
  <2>2. ASSUME NEW n \in DOMAIN orders PROVE orders[n].id \in Ids(after)
    <3> DEFINE j == IF n < p THEN n ELSE n + 1
    <3>1. j \in DOMAIN after /\ j # p /\ from(j) = n
      BY <1>1, <1>2, <1>5
    <3>2. after[j] = orders[n]
      BY <1>4, <1>5, <3>1
    <3> HIDE DEF j
    <3> QED BY <3>1, <3>2 DEF Ids
  <2>3. k \in Ids(after)
    BY <1>2, <1>5, <1>6 DEF Ids
  <2> QED BY <2>1, <2>2, <2>3 DEF Ids
<1>11. Queue(after, is_buy, k + 1)
  BY <1>3, <1>7, <1>8, <1>9 DEF Queue
<1> QED BY <1>10, <1>11 DEF after, p

\* An order that is best is first; without it, the rest of the side remains.
LEMMA FirstOfQueue ==
  ASSUME NEW is_buy \in BOOLEAN, NEW k \in Nat, NEW orders, Queue(orders, is_buy, k),
         orders # <<>>
  PROVE  /\ 1 \in DOMAIN orders /\ Head(orders) = orders[1] /\ orders[1] \in Order
         /\ Begin(orders) = orders[1].id /\ Begin(orders) # End
         /\ Begin(orders) \in 0 .. k - 1 /\ Begin(orders) \in Ids(orders)
         /\ PlaceOf(orders, Begin(orders)) = 1 /\ At(orders, Begin(orders)) = orders[1]
         /\ Successor(orders, Begin(orders)) = Begin(Tail(orders))
         /\ RemoveAt(orders, 1) = Tail(orders)
<1>1. /\ orders \in Seq(Order) /\ Len(orders) \in Nat \ {0}
      /\ DOMAIN orders = 1 .. Len(orders) /\ 1 \in DOMAIN orders
      /\ \A n \in DOMAIN orders : orders[n] \in Order /\ orders[n].id < k
      /\ \A m, n \in DOMAIN orders : orders[m].id = orders[n].id => m = n
  BY DEF Queue
<1>2. Head(orders) = orders[1] /\ Begin(orders) = orders[1].id
  BY <1>1 DEF Begin
<1>3. orders[1] \in Order /\ orders[1].id \in 0 .. TICK_COUNT - 1 /\ orders[1].id < k
  BY <1>1 DEF Order
<1>4. Begin(orders) \in 0 .. k - 1 /\ Begin(orders) # End
  BY <1>2, <1>3, EngineAssumption DEF End
<1>5. PlaceOf(orders, Begin(orders)) = 1
  BY <1>1, <1>2 DEF PlaceOf
<1>6. /\ Tail(orders) \in Seq(Order) /\ Len(Tail(orders)) = Len(orders) - 1
      /\ \A n \in 1 .. Len(orders) - 1 : Tail(orders)[n] = orders[n + 1]
  BY <1>1, HeadTailProperties
<1>7. Successor(orders, Begin(orders)) = Begin(Tail(orders))
  <2>1. CASE Len(orders) = 1
    <3>1. Tail(orders) = <<>>
      <4>1. Tail(orders) \in Seq(Order) /\ Len(Tail(orders)) = 0
        BY <1>1, <1>6, <2>1
      <4> QED BY ONLY <4>1, EmptySeq
    <3> QED BY <1>5, <2>1, <3>1 DEF Successor, Begin
  <2>2. CASE Len(orders) # 1
    <3>1. Tail(orders) # <<>> /\ Head(Tail(orders)) = orders[2]
      BY <1>1, <1>6, <2>2
    <3>2. Successor(orders, Begin(orders)) = orders[2].id
      BY <1>1, <1>5, <2>2 DEF Successor
    <3> QED BY <3>1, <3>2 DEF Begin
  <2> QED BY <2>1, <2>2
<1>8. RemoveAt(orders, 1) = Tail(orders)
  <2>1. SubSeq(orders, 1, 1 - 1) = <<>>
    BY <1>1, SubSeqProperties
  <2>2. /\ SubSeq(orders, 1 + 1, Len(orders)) \in Seq(Order)
        /\ Len(SubSeq(orders, 1 + 1, Len(orders))) = Len(orders) - 1
        /\ \A n \in 1 .. Len(orders) - 1 :
             SubSeq(orders, 1 + 1, Len(orders))[n] = orders[n + 1]
    BY <1>1, SubSeqProperties
  <2>3. SubSeq(orders, 1 + 1, Len(orders)) = Tail(orders)
    BY <1>6, <2>2, SeqEqual
  <2> QED BY <1>6, <2>1, <2>3 DEF RemoveAt
<1> QED BY <1>1, <1>2, <1>3, <1>4, <1>5, <1>7, <1>8 DEF At, Ids

\* The others keep their order when the first one leaves.
LEMMA QueueWithoutFirst ==
  ASSUME NEW is_buy \in BOOLEAN, NEW k \in Nat, NEW orders, Queue(orders, is_buy, k),
         orders # <<>>
  PROVE  Queue(Tail(orders), is_buy, k) /\ Ids(Tail(orders)) = Ids(orders) \ {Begin(orders)}
<1> DEFINE rest == Tail(orders)
<1>1. /\ orders \in Seq(Order) /\ Len(orders) \in Nat \ {0}
      /\ DOMAIN orders = 1 .. Len(orders)
      /\ \A n \in DOMAIN orders :
           /\ orders[n] \in Order /\ orders[n].is_buy = is_buy
           /\ (orders[n].id % 2 = 0) = is_buy /\ orders[n].id < k
      /\ \A m, n \in DOMAIN orders : m < n => Ahead(orders[m], orders[n])
      /\ \A m, n \in DOMAIN orders : orders[m].id = orders[n].id => m = n
  BY DEF Queue
<1>2. /\ rest \in Seq(Order) /\ DOMAIN rest = 1 .. Len(orders) - 1
      /\ \A n \in DOMAIN rest : rest[n] = orders[n + 1] /\ n + 1 \in DOMAIN orders
  BY <1>1, HeadTailProperties
<1> HIDE DEF rest
<1>3. Queue(rest, is_buy, k)
  <2>1. ASSUME NEW m \in DOMAIN rest, NEW n \in DOMAIN rest
        PROVE  /\ m < n => m + 1 < n + 1
               /\ m + 1 = n + 1 => m = n
    BY <1>1, <1>2
  <2> QED BY <1>1, <1>2, <2>1 DEF Queue
<1>4. Begin(orders) = orders[1].id
  BY FirstOfQueue
<1>5. Ids(rest) = Ids(orders) \ {Begin(orders)}
  <2>1. ASSUME NEW n \in DOMAIN rest PROVE rest[n].id \in Ids(orders) \ {Begin(orders)}
    <3>1. n + 1 # 1 /\ 1 \in DOMAIN orders
      BY <1>1, <1>2
    <3> QED BY <1>1, <1>2, <1>4, <3>1 DEF Ids
  <2>2. ASSUME NEW n \in DOMAIN orders, n # 1 PROVE orders[n].id \in Ids(rest)
    <3>1. n - 1 \in DOMAIN rest /\ (n - 1) + 1 = n
      BY <1>1, <1>2, <2>2
    <3> QED BY <1>2, <3>1 DEF Ids
  <2> QED BY <1>4, <2>1, <2>2 DEF Ids
<1> QED BY <1>3, <1>5 DEF rest

-----------------------------------------------------------------------------
(* The order manager.                                                      *)

Books == [buy : Seq(Order), sell : Seq(Order)]

\* No order is both a bid and an ask.
LEMMA SidesAreDisjoint ==
  ASSUME NEW k \in Nat, NEW bids, NEW asks, Queue(bids, TRUE, k), Queue(asks, FALSE, k)
  PROVE  Ids(bids) \cap Ids(asks) = {}
<1>1. ASSUME NEW m \in DOMAIN bids, NEW n \in DOMAIN asks, bids[m].id = asks[n].id
      PROVE  FALSE
  <2>1. (bids[m].id % 2 = 0) = TRUE /\ (asks[n].id % 2 = 0) = FALSE
    BY DEF Queue
  <2> QED BY <1>1, <2>1
<1> QED BY <1>1 DEF Ids

\* deleteOrder of the best order of a side, and partialFillOrder of an order
\* that is in the book no longer.
LEMMA BookCalls ==
  ASSUME NEW k \in Nat, NEW book \in Books,
         Queue(book.buy, TRUE, k), Queue(book.sell, FALSE, k)
  PROVE  /\ book.buy # <<>> => Deleted(book, Begin(book.buy)) =
              [buy |-> Tail(book.buy), sell |-> book.sell]
         /\ book.sell # <<>> => Deleted(book, Begin(book.sell)) =
              [buy |-> book.buy, sell |-> Tail(book.sell)]
         /\ \A id, filledQty : id \notin Ids(book.buy) \cup Ids(book.sell) =>
              PartiallyFilled(book, id, filledQty) = book
<1>1. book = [buy |-> book.buy, sell |-> book.sell]
  BY DEF Books
<1>2. ASSUME book.buy # <<>>
      PROVE  Deleted(book, Begin(book.buy)) = [buy |-> Tail(book.buy), sell |-> book.sell]
  <2>1. /\ Begin(book.buy) \in Ids(book.buy) /\ PlaceOf(book.buy, Begin(book.buy)) = 1
        /\ RemoveAt(book.buy, 1) = Tail(book.buy)
    BY <1>2, FirstOfQueue
  <2>2. Holder(book, Begin(book.buy)) = "buy"
    BY <2>1 DEF Holder
  <2>3. Deleted(book, Begin(book.buy)) = [book EXCEPT !["buy"] = RemoveAt(@, 1)]
    BY <2>1, <2>2 DEF Deleted
  <2> QED BY <1>1, <2>1, <2>3
<1>3. ASSUME book.sell # <<>>
      PROVE  Deleted(book, Begin(book.sell)) = [buy |-> book.buy, sell |-> Tail(book.sell)]
  <2>1. /\ Begin(book.sell) \in Ids(book.sell) /\ PlaceOf(book.sell, Begin(book.sell)) = 1
        /\ RemoveAt(book.sell, 1) = Tail(book.sell)
    BY <1>3, FirstOfQueue
  <2>2. Holder(book, Begin(book.sell)) = "sell"
    BY <2>1, SidesAreDisjoint DEF Holder
  <2>3. Deleted(book, Begin(book.sell)) = [book EXCEPT !["sell"] = RemoveAt(@, 1)]
    BY <2>1, <2>2 DEF Deleted
  <2> QED BY <1>1, <2>1, <2>3
<1>4. ASSUME NEW id, NEW filledQty, id \notin Ids(book.buy) \cup Ids(book.sell)
      PROVE  PartiallyFilled(book, id, filledQty) = book
  <2> DEFINE asks == book.sell
             reduced == [n \in DOMAIN asks |-> Reduced(asks[n], id, filledQty)]
  <2>1. Holder(book, id) = "sell"
    BY <1>4 DEF Holder
  <2>2. \A n \in DOMAIN asks : Reduced(asks[n], id, filledQty) = asks[n]
    BY <1>4 DEF Ids, Reduced
  <2>3. asks \in Seq(Order)
    BY DEF Books
  <2>4. reduced = asks
    <3>1. asks = [n \in DOMAIN asks |-> asks[n]]
      BY <2>3
    <3> HIDE DEF asks
    <3> QED BY <2>2, <3>1
  <2>5. PartiallyFilled(book, id, filledQty) = [book EXCEPT !["sell"] = reduced]
    BY <2>1 DEF PartiallyFilled
  <2> HIDE DEF reduced
  <2> QED BY <1>1, <2>4, <2>5
<1> QED BY <1>2, <1>3, <1>4

\* When the best order of a side is filled, and perhaps reported as partially
\* filled behind that, it is in the book no longer and not New any more.
LEMMA SoundWithoutBid ==
  ASSUME NEW k \in Nat, NEW mgr, Sound(mgr, k), mgr.book.buy # <<>>,
         NEW state \in {"Filled", "Partial"}
  PROVE  Sound([book |-> [buy |-> Tail(mgr.book.buy), sell |-> mgr.book.sell],
                states |-> [mgr.states EXCEPT ![Begin(mgr.book.buy)] = state]], k)
<1> DEFINE bids == mgr.book.buy  asks == mgr.book.sell
           first == Begin(bids)
           states == [mgr.states EXCEPT ![first] = state]
<1>1. /\ mgr.states \in [0 .. k - 1 -> Statuses] /\ asks \in Seq(Order)
      /\ Queue(bids, TRUE, k) /\ Queue(asks, FALSE, k)
      /\ \A id \in 0 .. k - 1 : mgr.states[id] = "New" <=> id \in Ids(bids) \cup Ids(asks)
  BY DEF Sound
<1>2. /\ first \in 0 .. k - 1 /\ first \in Ids(bids)
      /\ Queue(Tail(bids), TRUE, k) /\ Ids(Tail(bids)) = Ids(bids) \ {first}
      /\ Ids(bids) \cap Ids(asks) = {}
  <2>1. bids # <<>>
    OBVIOUS
  <2> HIDE DEF bids, asks
  <2>2. first \in 0 .. k - 1 /\ first \in Ids(bids)
    BY <1>1, <2>1, FirstOfQueue
  <2>3. Queue(Tail(bids), TRUE, k) /\ Ids(Tail(bids)) = Ids(bids) \ {first}
    BY <1>1, <2>1, QueueWithoutFirst
  <2>4. Ids(bids) \cap Ids(asks) = {}
    BY <1>1, SidesAreDisjoint
  <2> QED BY <2>2, <2>3, <2>4
<1>3. Tail(bids) \in Seq(Order)
  BY <1>2 DEF Queue
<1> HIDE DEF bids, asks, first
<1>4. states \in [0 .. k - 1 -> Statuses]
  BY <1>1 DEF Statuses
<1>5. \A id \in 0 .. k - 1 : states[id] = "New" <=> id \in Ids(Tail(bids)) \cup Ids(asks)
  BY <1>1, <1>2
<1> HIDE DEF states
<1>6. Sound([book |-> [buy |-> Tail(bids), sell |-> asks], states |-> states], k)
  BY <1>1, <1>2, <1>3, <1>4, <1>5 DEF Sound
<1> QED BY <1>6 DEF bids, asks, first, states

LEMMA SoundWithoutAsk ==
  ASSUME NEW k \in Nat, NEW mgr, Sound(mgr, k), mgr.book.sell # <<>>,
         NEW state \in {"Filled", "Partial"}
  PROVE  Sound([book |-> [buy |-> mgr.book.buy, sell |-> Tail(mgr.book.sell)],
                states |-> [mgr.states EXCEPT ![Begin(mgr.book.sell)] = state]], k)
<1> DEFINE bids == mgr.book.buy  asks == mgr.book.sell
           first == Begin(asks)
           states == [mgr.states EXCEPT ![first] = state]
<1>1. /\ mgr.states \in [0 .. k - 1 -> Statuses] /\ bids \in Seq(Order)
      /\ Queue(bids, TRUE, k) /\ Queue(asks, FALSE, k)
      /\ \A id \in 0 .. k - 1 : mgr.states[id] = "New" <=> id \in Ids(bids) \cup Ids(asks)
  BY DEF Sound
<1>2. /\ first \in 0 .. k - 1 /\ first \in Ids(asks)
      /\ Queue(Tail(asks), FALSE, k) /\ Ids(Tail(asks)) = Ids(asks) \ {first}
      /\ Ids(bids) \cap Ids(asks) = {}
  <2>1. asks # <<>>
    OBVIOUS
  <2> HIDE DEF bids, asks
  <2>2. first \in 0 .. k - 1 /\ first \in Ids(asks)
    BY <1>1, <2>1, FirstOfQueue
  <2>3. Queue(Tail(asks), FALSE, k) /\ Ids(Tail(asks)) = Ids(asks) \ {first}
    BY <1>1, <2>1, QueueWithoutFirst
  <2>4. Ids(bids) \cap Ids(asks) = {}
    BY <1>1, SidesAreDisjoint
  <2> QED BY <2>2, <2>3, <2>4
<1>3. Tail(asks) \in Seq(Order)
  BY <1>2 DEF Queue
<1> HIDE DEF bids, asks, first
<1>4. states \in [0 .. k - 1 -> Statuses]
  BY <1>1 DEF Statuses
<1>5. \A id \in 0 .. k - 1 : states[id] = "New" <=> id \in Ids(bids) \cup Ids(Tail(asks))
  BY <1>1, <1>2
<1> HIDE DEF states
<1>6. Sound([book |-> [buy |-> bids, sell |-> Tail(asks)], states |-> states], k)
  BY <1>1, <1>2, <1>3, <1>4, <1>5 DEF Sound
<1> QED BY <1>6 DEF bids, asks, first, states

\* A new order is in the book, and the orders before it keep their states.
LEMMA SoundAfterAdding ==
  ASSUME NEW k \in Nat, NEW mgr, Sound(mgr, k), NEW o \in Order, o.id = k,
         o.is_buy = (k % 2 = 0), NEW states,
         states = [id \in 0 .. k |-> IF id = k THEN "New" ELSE mgr.states[id]]
  PROVE  Sound([book |-> Added(mgr.book, o), states |-> states], k + 1)
<1> DEFINE bids == mgr.book.buy  asks == mgr.book.sell
           newBids == InsertAt(bids, Position(bids, o), o)
           newAsks == InsertAt(asks, Position(asks, o), o)
<1>1. /\ mgr.states \in [0 .. k - 1 -> Statuses] /\ mgr.book \in Books
      /\ bids \in Seq(Order) /\ asks \in Seq(Order)
      /\ Queue(bids, TRUE, k) /\ Queue(asks, FALSE, k)
      /\ \A id \in 0 .. k - 1 : mgr.states[id] = "New" <=> id \in Ids(bids) \cup Ids(asks)
  BY DEF Sound, Books
<1>2. mgr.book = [buy |-> bids, sell |-> asks]
  BY <1>1 DEF Books
<1>3. 0 .. k = (0 .. k - 1) \cup {k} /\ k \notin 0 .. k - 1 /\ (k + 1) - 1 = k
  OBVIOUS
<1>4. /\ states \in [0 .. k -> Statuses] /\ states[k] = "New"
      /\ \A id \in 0 .. k - 1 : states[id] = mgr.states[id]
  BY <1>1, <1>3 DEF Statuses
<1>5. /\ Queue(bids, TRUE, k + 1) /\ Queue(asks, FALSE, k + 1)
  <2>1. ASSUME NEW orders \in Seq(Order), NEW b \in BOOLEAN, Queue(orders, b, k)
        PROVE  Queue(orders, b, k + 1)
    <3>1. ASSUME NEW n \in DOMAIN orders PROVE orders[n].id < k + 1
      <4>1. orders[n] \in Order
        BY <2>1
      <4>2. orders[n].id \in 0 .. TICK_COUNT - 1
        BY <4>1 DEF Order
      <4>3. orders[n].id < k
        BY <2>1 DEF Queue
      <4> QED BY <4>2, <4>3, EngineAssumption
    <3> QED BY <2>1, <3>1 DEF Queue
  <2> QED BY <1>1, <2>1
<1>6. CASE k % 2 = 0
  <2>1. Added(mgr.book, o) = [buy |-> newBids, sell |-> asks]
    <3>1. Added(mgr.book, o) = [mgr.book EXCEPT !["buy"] = InsertAt(@, Position(@, o), o)]
      BY <1>6 DEF Added, SideOf
    <3> QED BY <1>2, <3>1
  <2>2. Queue(newBids, TRUE, k + 1) /\ Ids(newBids) = Ids(bids) \cup {k}
    BY <1>1, <1>6, QueueAfterAdding
  <2>3. newBids \in Seq(Order)
    BY <2>2 DEF Queue
  <2> HIDE DEF newBids, bids, asks
  <2>4. \A id \in 0 .. k : states[id] = "New" <=> id \in Ids(newBids) \cup Ids(asks)
    BY <1>1, <1>3, <1>4, <2>2
  <2>5. Sound([book |-> [buy |-> newBids, sell |-> asks], states |-> states], k + 1)
    BY <1>1, <1>3, <1>4, <1>5, <2>2, <2>3, <2>4 DEF Sound
  <2> QED BY <2>1, <2>5
<1>7. CASE k % 2 # 0
  <2>1. Added(mgr.book, o) = [buy |-> bids, sell |-> newAsks]
    <3>1. Added(mgr.book, o) = [mgr.book EXCEPT !["sell"] = InsertAt(@, Position(@, o), o)]
      BY <1>7 DEF Added, SideOf
    <3> QED BY <1>2, <3>1
  <2>2. Queue(newAsks, FALSE, k + 1) /\ Ids(newAsks) = Ids(asks) \cup {k}
    BY <1>1, <1>7, QueueAfterAdding
  <2>3. newAsks \in Seq(Order)
    BY <2>2 DEF Queue
  <2> HIDE DEF newAsks, bids, asks
  <2>4. \A id \in 0 .. k : states[id] = "New" <=> id \in Ids(bids) \cup Ids(newAsks)
    BY <1>1, <1>3, <1>4, <2>2
  <2>5. Sound([book |-> [buy |-> bids, sell |-> newAsks], states |-> states], k + 1)
    BY <1>1, <1>3, <1>4, <1>5, <2>2, <2>3, <2>4 DEF Sound
  <2> QED BY <2>1, <2>5
<1> QED BY <1>6, <1>7

-----------------------------------------------------------------------------
(* The log.                                                                *)

\* A trade of two New orders, after which one of them at least is not New any
\* more, and no third order has changed.
LEMMA LoggedAfterTrade ==
  ASSUME NEW k \in Nat, NEW log, NEW states, Logged(log, states, k),
         NEW b \in 0 .. k - 1, NEW s \in 0 .. k - 1, NEW after,
         states[b] = "New", states[s] = "New",
         after[b] # "New" \/ after[s] # "New",
         \A id \in (0 .. k - 1) \ {b, s} : after[id] = states[id]
  PROVE  Logged(Append(log, <<b, s>>), after, k)
<1> DEFINE longer == Append(log, <<b, s>>)
<1>1. /\ log \in Seq((0 .. k - 1) \X (0 .. k - 1)) /\ Len(log) \in Nat
      /\ DOMAIN log = 1 .. Len(log)
      /\ \A n \in DOMAIN log :
           /\ log[n] \in (0 .. k - 1) \X (0 .. k - 1)
           /\ states[log[n][1]] # "New" \/ states[log[n][2]] # "New"
      /\ \A id \in 0 .. k - 1 : states[id] # "New" =>
           \E n \in DOMAIN log : id \in {log[n][1], log[n][2]}
      /\ \A m, n \in DOMAIN log : log[m] = log[n] => m = n
  BY DEF Logged
<1>2. <<b, s>> \in (0 .. k - 1) \X (0 .. k - 1) /\ <<b, s>>[1] = b /\ <<b, s>>[2] = s
  OBVIOUS
<1>3. /\ longer \in Seq((0 .. k - 1) \X (0 .. k - 1))
      /\ DOMAIN longer = 1 .. Len(log) + 1
      /\ longer[Len(log) + 1] = <<b, s>>
      /\ \A n \in DOMAIN log : longer[n] = log[n] /\ n \in DOMAIN longer
      /\ \A n \in DOMAIN longer : n \in DOMAIN log \/ n = Len(log) + 1
  BY <1>1, <1>2, AppendProperties
<1> HIDE DEF longer
<1>4. ASSUME NEW n \in DOMAIN log PROVE log[n] # <<b, s>>
  BY <1>1, <1>2
<1>5. ASSUME NEW n \in DOMAIN longer
      PROVE  after[longer[n][1]] # "New" \/ after[longer[n][2]] # "New"
  <2>1. CASE n = Len(log) + 1
    BY <1>2, <1>3, <2>1
  <2>2. CASE n \in DOMAIN log
    <3>1. PICK x \in 0 .. k - 1, y \in 0 .. k - 1 : log[n] = <<x, y>>
      <4>1. log[n] \in (0 .. k - 1) \X (0 .. k - 1)
        BY <1>1, <2>2
      <4> QED BY ONLY <4>1
    <3>2. states[x] # "New" \/ states[y] # "New"
      <4>1. states[log[n][1]] # "New" \/ states[log[n][2]] # "New"
        BY <1>1, <2>2
      <4> QED BY ONLY <3>1, <4>1
    <3>3. after[x] # "New" \/ after[y] # "New"
      BY <3>2
    <3>4. longer[n] = <<x, y>>
      BY <1>3, <2>2, <3>1
    <3> QED BY <3>3, <3>4
  <2> QED BY <1>3, <2>1, <2>2
<1>6. ASSUME NEW id \in 0 .. k - 1, after[id] # "New"
      PROVE  \E n \in DOMAIN longer : id \in {longer[n][1], longer[n][2]}
  <2>1. CASE id \in {b, s}
    <3>1. Len(log) + 1 \in DOMAIN longer
      BY <1>1, <1>3
    <3> QED BY ONLY <1>2, <1>3, <2>1, <3>1
  <2>2. CASE id \notin {b, s}
    <3>1. states[id] # "New"
      BY <1>6, <2>2
    <3> QED BY <1>1, <1>3, <3>1
  <2> QED BY <2>1, <2>2
<1>7. ASSUME NEW m \in DOMAIN longer, NEW n \in DOMAIN longer, longer[m] = longer[n]
      PROVE  m = n
  <2>1. CASE m \in DOMAIN log /\ n \in DOMAIN log
    BY <1>1, <1>3, <1>7, <2>1
  <2>2. CASE m \notin DOMAIN log
    <3>1. m = Len(log) + 1 /\ longer[n] = <<b, s>>
      BY <1>3, <1>7, <2>2
    <3>2. n \notin DOMAIN log
      BY <1>3, <1>4, <3>1
    <3> QED BY <1>3, <3>1, <3>2
  <2>3. CASE n \notin DOMAIN log
    <3>1. n = Len(log) + 1 /\ longer[m] = <<b, s>>
      BY <1>3, <1>7, <2>3
    <3>2. m \notin DOMAIN log
      BY <1>3, <1>4, <3>1
    <3> QED BY <1>3, <3>1, <3>2
  <2> QED BY <2>1, <2>2, <2>3
<1>8. Logged(longer, after, k)
  BY <1>3, <1>5, <1>6, <1>7 DEF Logged
<1> QED BY <1>8 DEF longer

\* An order that is created trades later.
LEMMA LoggedAfterCreate ==
  ASSUME NEW k \in Nat, NEW log, NEW states, Logged(log, states, k), NEW after,
         after[k] = "New", \A id \in 0 .. k - 1 : after[id] = states[id]
  PROVE  Logged(log, after, k + 1)
<1>1. (k + 1) - 1 = k /\ 0 .. k = (0 .. k - 1) \cup {k}
  OBVIOUS
<1>2. log \in Seq((0 .. k) \X (0 .. k))
  <2>1. \A n \in DOMAIN log : log[n] \in (0 .. k - 1) \X (0 .. k - 1)
    BY DEF Logged
  <2>2. \A n \in 1 .. Len(log) : log[n] \in (0 .. k) \X (0 .. k)
    BY <1>1, <2>1 DEF Logged
  <2>3. log = [n \in 1 .. Len(log) |-> log[n]] /\ Len(log) \in Nat
    BY DEF Logged
  <2> QED BY <2>2, <2>3
<1>3. ASSUME NEW n \in DOMAIN log
      PROVE  after[log[n][1]] # "New" \/ after[log[n][2]] # "New"
  <2>1. PICK x \in 0 .. k - 1, y \in 0 .. k - 1 : log[n] = <<x, y>>
    BY DEF Logged
  <2>2. states[x] # "New" \/ states[y] # "New"
    BY <2>1 DEF Logged
  <2> QED BY <2>1, <2>2
<1>4. \A id \in 0 .. k : after[id] # "New" =>
        \E n \in DOMAIN log : id \in {log[n][1], log[n][2]}
  BY <1>1 DEF Logged
<1> QED BY <1>1, <1>2, <1>3, <1>4 DEF Logged

\* logTrade appends to the log, whether or not the batch is flushed.
LEMMA LogGrows ==
  ASSUME NEW S, trades \in Seq(S), printed \in Seq(S), <<bestBid, bestSell>> \in S, LogTrade
  PROVE  /\ trades' \in Seq(S) /\ printed' \in Seq(S)
         /\ printed' \o trades' = Append(printed \o trades, <<bestBid, bestSell>>)
<1> DEFINE pair == <<bestBid, bestSell>>
<1>1. Append(trades, pair) \in Seq(S)
  BY AppendProperties
<1>2. printed \o Append(trades, pair) = Append(printed \o trades, pair)
  <2> HIDE DEF pair
  <2>1. /\ Append(trades, pair) \in Seq(S) /\ Len(Append(trades, pair)) = Len(trades) + 1
        /\ \A n \in 1 .. Len(trades) : Append(trades, pair)[n] = trades[n]
        /\ Append(trades, pair)[Len(trades) + 1] = pair
    BY AppendProperties DEF pair
  <2>2. /\ printed \o trades \in Seq(S) /\ Len(printed \o trades) = Len(printed) + Len(trades)
        /\ \A n \in 1 .. Len(printed) + Len(trades) :
             (printed \o trades)[n] = IF n <= Len(printed) THEN printed[n] ELSE trades[n - Len(printed)]
    BY ConcatProperties
  <2> DEFINE log == printed \o trades  more == Append(trades, pair)
  <2> HIDE DEF log, more
  <2>3. /\ Append(log, pair) \in Seq(S) /\ Len(Append(log, pair)) = Len(log) + 1
        /\ \A n \in 1 .. Len(log) : Append(log, pair)[n] = log[n]
        /\ Append(log, pair)[Len(log) + 1] = pair
    BY <2>2, AppendProperties DEF log, pair
  <2>4. /\ printed \o more \in Seq(S) /\ Len(printed \o more) = Len(printed) + Len(more)
        /\ \A n \in 1 .. Len(printed) + Len(more) :
             (printed \o more)[n] = IF n <= Len(printed) THEN printed[n] ELSE more[n - Len(printed)]
    BY <2>1, ConcatProperties DEF more
  <2>5. Len(printed) \in Nat /\ Len(trades) \in Nat
    BY LenProperties
  <2>6. Len(printed \o more) = Len(Append(log, pair))
    BY <2>1, <2>2, <2>3, <2>4, <2>5 DEF log, more
  <2>7. ASSUME NEW n \in 1 .. Len(printed \o more)
        PROVE  (printed \o more)[n] = Append(log, pair)[n]
    <3>1. n \in 1 .. Len(printed) + Len(trades) + 1 /\ Len(log) = Len(printed) + Len(trades)
      BY <2>1, <2>2, <2>4, <2>5 DEF log, more
    <3>2. CASE n <= Len(printed)
      BY <2>2, <2>3, <2>4, <2>5, <2>7, <3>1, <3>2 DEF log
    <3>3. CASE Len(printed) < n /\ n <= Len(log)
      <4>1. n - Len(printed) \in 1 .. Len(trades)
        BY <2>5, <3>1, <3>3
      <4>2. more[n - Len(printed)] = trades[n - Len(printed)]
        BY <2>1, <4>1 DEF more
      <4>3. log[n] = trades[n - Len(printed)]
        BY <2>2, <2>5, <3>1, <3>3 DEF log
      <4> QED BY <2>3, <2>4, <2>5, <2>6, <2>7, <3>1, <3>3, <4>2, <4>3
    <3>4. CASE n = Len(log) + 1
      <4>1. n - Len(printed) = Len(trades) + 1 /\ ~(n <= Len(printed))
        BY <2>5, <3>1, <3>4
      <4>2. more[n - Len(printed)] = pair
        BY <2>1, <4>1 DEF more
      <4>3. (printed \o more)[n] = more[n - Len(printed)]
        BY <2>4, <2>6, <2>7, <4>1
      <4> QED BY <2>3, <3>4, <4>2, <4>3
    <3> QED BY <2>5, <3>1, <3>2, <3>3, <3>4
  <2>8. printed \o more = Append(log, pair)
    BY <2>3, <2>4, <2>6, <2>7, SeqEqual
  <2> QED BY <2>8 DEF log, more
<1>3. CASE Len(trades) + 1 >= batchSize
  <2>1. printed' = printed \o Append(trades, pair) /\ trades' = <<>>
    BY <1>3 DEF LogTrade, BatchToFlush
  <2>2. printed' \in Seq(S)
    BY <1>1, <2>1, ConcatProperties
  <2>3. trades' \in Seq(S) /\ printed' \o trades' = printed'
    BY <2>1, <2>2, ConcatEmptySeq, EmptySeq
  <2> QED BY <1>2, <2>1, <2>2, <2>3
<1>4. CASE ~(Len(trades) + 1 >= batchSize)
  BY <1>1, <1>2, <1>4 DEF LogTrade
<1> QED BY <1>3, <1>4

-----------------------------------------------------------------------------
(* The steps of the engine.                                                *)

LEMMA InitInv == Init => IInv
<1> SUFFICES ASSUME Init PROVE IInv
  OBVIOUS
<1>1. /\ i = 0 /\ phase = "tick" /\ trades = <<>> /\ printed = <<>>
      /\ orderMgr = [book |-> [buy |-> <<>>, sell |-> <<>>], states |-> <<>>]
  BY DEF Init, EmptyBook
<1>2. 0 .. i - 1 = {}
  BY <1>1
<1>3. <<>> \in [0 .. i - 1 -> Statuses]
  BY <1>2
<1>4. \A S : <<>> \in Seq(S) /\ DOMAIN <<>> = {}
  OBVIOUS
<1>5. Queue(<<>>, TRUE, i) /\ Queue(<<>>, FALSE, i)
  BY <1>4 DEF Queue
<1>6. Sound(orderMgr, i)
  BY <1>1, <1>2, <1>3, <1>4, <1>5 DEF Sound
<1>7. <<>> \o <<>> = <<>>
  OBVIOUS
<1>8. Logged(printed \o trades, orderMgr.states, i)
  BY <1>1, <1>2, <1>4, <1>7 DEF Logged
<1>9. Uncrossed(orderMgr.book)
  BY <1>1, <1>4 DEF Uncrossed
<1>10. i \in 0 .. TICK_COUNT
  BY <1>1, EngineAssumption
<1> QED BY <1>1, <1>4, <1>6, <1>8, <1>9, <1>10 DEF IInv

\* Sequences of a set are sequences of a larger one.
LEMMA SeqWidens ==
  ASSUME NEW S, NEW T, S \subseteq T, NEW s \in Seq(S)
  PROVE  s \in Seq(T)
<1>1. Len(s) \in Nat /\ s = [n \in 1 .. Len(s) |-> s[n]] /\ \A n \in 1 .. Len(s) : s[n] \in T
  OBVIOUS
<1> QED BY <1>1

LEMMA CreateOrderInv == IInv /\ CreateOrder => IInv'
<1> SUFFICES ASSUME IInv, CreateOrder PROVE IInv'
  OBVIOUS
<1>1. PICK price \in Prices, qty \in Quantities, address \in FreeAddresses :
        orderMgr' = [book |-> Added(orderMgr.book,
                                [id |-> i, price |-> price, quantity |-> qty,
                                 is_buy |-> i % 2 = 0, address |-> address]),
                     states |-> [id \in 0 .. i |->
                                   IF id = i THEN "New" ELSE orderMgr.states[id]]]
  BY DEF CreateOrder
<1> DEFINE o == [id |-> i, price |-> price, quantity |-> qty,
                 is_buy |-> i % 2 = 0, address |-> address]
           states == [id \in 0 .. i |-> IF id = i THEN "New" ELSE orderMgr.states[id]]
<1>2. i \in Nat /\ i \in 0 .. TICK_COUNT - 1 /\ i' = i + 1 /\ i' \in 0 .. TICK_COUNT
  BY EngineAssumption DEF IInv, CreateOrder
<1>3. o \in Order /\ o.id = i /\ o.is_buy = (i % 2 = 0)
  <2>1. (i % 2 = 0) \in BOOLEAN
    OBVIOUS
  <2>2. address \in Addresses
    BY DEF FreeAddresses
  <2> QED BY <1>2, <2>1, <2>2 DEF Order
<1>4. Sound(orderMgr, i)
  BY DEF IInv
<1>5. orderMgr' = [book |-> Added(orderMgr.book, o), states |-> states]
  BY <1>1
<1> HIDE DEF o
<1>6. Sound([book |-> Added(orderMgr.book, o), states |-> states], i + 1)
  BY <1>2, <1>3, <1>4, SoundAfterAdding
<1>7. Sound(orderMgr', i')
  BY <1>2, <1>5, <1>6
<1>8. orderMgr'.states[i] = "New" /\ \A id \in 0 .. i - 1 : orderMgr'.states[id] = orderMgr.states[id]
  BY <1>2, <1>5
<1>9. Logged(printed \o trades, orderMgr'.states, i + 1)
  BY <1>2, <1>8, LoggedAfterCreate DEF IInv
<1>10. trades' = trades /\ printed' = printed /\ phase' = "match" /\ IteratorsAtBegin'
  BY DEF CreateOrder, IteratorsAtBegin
<1>11. (0 .. i - 1) \X (0 .. i - 1) \subseteq (0 .. i' - 1) \X (0 .. i' - 1)
  <2>1. 0 .. i - 1 \subseteq 0 .. i' - 1
    BY <1>2
  <2> QED BY <2>1
<1>12. /\ trades \in Seq((0 .. i' - 1) \X (0 .. i' - 1))
       /\ printed \in Seq((0 .. i' - 1) \X (0 .. i' - 1))
  <2>1. /\ trades \in Seq((0 .. i - 1) \X (0 .. i - 1))
        /\ printed \in Seq((0 .. i - 1) \X (0 .. i - 1))
    BY DEF IInv
  <2> QED BY ONLY <1>11, <2>1, SeqWidens
<1> QED BY <1>2, <1>7, <1>9, <1>10, <1>12 DEF IInv

\* While the engine matches, its iterators are at orders that are New: the
\* best ones of both sides.
LEMMA BestOrders ==
  ASSUME IInv, phase = "match", Crosses
  PROVE  /\ orderMgr.book.buy # <<>> /\ orderMgr.book.sell # <<>>
         /\ bestBid = Begin(orderMgr.book.buy) /\ bestSell = Begin(orderMgr.book.sell)
         /\ Bid = orderMgr.book.buy[1] /\ Sell = orderMgr.book.sell[1]
         /\ bestBid \in 0 .. i - 1 /\ bestSell \in 0 .. i - 1 /\ bestBid # bestSell
         /\ orderMgr.states[bestBid] = "New" /\ orderMgr.states[bestSell] = "New"
<1> DEFINE bids == orderMgr.book.buy  asks == orderMgr.book.sell
<1>1. bestBid = Begin(bids) /\ bestSell = Begin(asks)
  BY DEF IInv, IteratorsAtBegin
<1>2. bids # <<>> /\ asks # <<>>
  BY <1>1 DEF Crosses, Begin
<1>3. Bid = At(bids, bestBid) /\ Sell = At(asks, bestSell)
  BY DEF Bid, Sell
<1>4. /\ i \in Nat /\ Queue(bids, TRUE, i) /\ Queue(asks, FALSE, i)
      /\ \A id \in 0 .. i - 1 : orderMgr.states[id] = "New" <=> id \in Ids(bids) \cup Ids(asks)
  <2>1. Sound(orderMgr, i) /\ i \in 0 .. TICK_COUNT
    BY DEF IInv
  <2>2. i \in Nat
    BY <2>1
  <2> QED BY <2>1, <2>2 DEF Sound
<1> HIDE DEF bids, asks
<1>5. /\ bestBid \in 0 .. i - 1 /\ bestBid \in Ids(bids) /\ Bid = bids[1]
  BY <1>1, <1>2, <1>3, <1>4, FirstOfQueue
<1>6. /\ bestSell \in 0 .. i - 1 /\ bestSell \in Ids(asks) /\ Sell = asks[1]
  BY <1>1, <1>2, <1>3, <1>4, FirstOfQueue
<1>7. bestBid # bestSell
  BY <1>4, <1>5, <1>6, SidesAreDisjoint
<1>8. orderMgr.states[bestBid] = "New" /\ orderMgr.states[bestSell] = "New"
  BY <1>4, <1>5, <1>6
<1> QED BY <1>1, <1>2, <1>5, <1>6, <1>7, <1>8 DEF bids, asks

\* A trade keeps the invariant if it leaves the order manager sound, its
\* iterators at the first orders, and one of its orders not New any more.
LEMMA TradeInv ==
  ASSUME IInv, phase = "match", Crosses, LogTrade, i' = i, phase' = phase,
         Sound(orderMgr', i), IteratorsAtBegin',
         orderMgr'.states[bestBid] # "New" \/ orderMgr'.states[bestSell] # "New",
         \A id \in (0 .. i - 1) \ {bestBid, bestSell} :
           orderMgr'.states[id] = orderMgr.states[id]
  PROVE  IInv'
<1> DEFINE Pairs == (0 .. i - 1) \X (0 .. i - 1)
           pair == <<bestBid, bestSell>>
<1>1. i \in Nat
  BY EngineAssumption DEF IInv
<1>2. /\ bestBid \in 0 .. i - 1 /\ bestSell \in 0 .. i - 1
      /\ orderMgr.states[bestBid] = "New" /\ orderMgr.states[bestSell] = "New"
  BY BestOrders
<1>3. trades \in Seq(Pairs) /\ printed \in Seq(Pairs) /\ pair \in Pairs
  BY <1>2 DEF IInv
<1>4. Logged(Append(printed \o trades, pair), orderMgr'.states, i)
  BY <1>1, <1>2, LoggedAfterTrade DEF IInv
<1> HIDE DEF Pairs
<1>5. /\ trades' \in Seq(Pairs) /\ printed' \in Seq(Pairs)
      /\ printed' \o trades' = Append(printed \o trades, pair)
  BY <1>3, LogGrows
<1>6. Logged(printed' \o trades', orderMgr'.states, i')
  BY <1>4, <1>5
<1>7. /\ trades' \in Seq((0 .. i' - 1) \X (0 .. i' - 1))
      /\ printed' \in Seq((0 .. i' - 1) \X (0 .. i' - 1))
  BY <1>5 DEF Pairs
<1>8. i' \in 0 .. TICK_COUNT /\ phase' = "match" /\ Sound(orderMgr', i')
  BY DEF IInv
<1> QED BY <1>6, <1>7, <1>8 DEF IInv

LEMMA BidIsLargerInv == IInv /\ BidIsLarger => IInv'
<1> SUFFICES ASSUME IInv, BidIsLarger PROVE IInv'
  OBVIOUS
<1> DEFINE book == orderMgr.book  bids == book.buy  asks == book.sell
           states == [orderMgr.states EXCEPT ![bestSell] = "Partial"]
<1>1. /\ phase = "match" /\ Crosses /\ LogTrade
      /\ i' = i /\ phase' = phase /\ bestBid' = bestBid
      /\ bestSell' = Successor(asks, bestSell)
      /\ orderMgr' = PartialFillOrder(FillOrder(orderMgr, bestSell), bestSell, Bid.quantity)
  BY DEF BidIsLarger
<1>2. /\ bids # <<>> /\ asks # <<>> /\ bestBid = Begin(bids) /\ bestSell = Begin(asks)
      /\ bestBid \in 0 .. i - 1 /\ bestSell \in 0 .. i - 1 /\ bestBid # bestSell
  BY <1>1, BestOrders
<1>3. /\ i \in Nat /\ Sound(orderMgr, i) /\ book \in Books
      /\ Queue(bids, TRUE, i) /\ Queue(asks, FALSE, i)
      /\ orderMgr.states \in [0 .. i - 1 -> Statuses]
  <2>1. Sound(orderMgr, i) /\ i \in 0 .. TICK_COUNT
    BY DEF IInv
  <2>2. i \in Nat
    BY <2>1
  <2> QED BY <2>1, <2>2 DEF Sound, Books
<1>4. Deleted(book, bestSell) = [buy |-> bids, sell |-> Tail(asks)]
  BY <1>2, <1>3, BookCalls
<1> DEFINE after == [buy |-> bids, sell |-> Tail(asks)]
<1>5. /\ Queue(Tail(asks), FALSE, i) /\ Ids(Tail(asks)) = Ids(asks) \ {bestSell}
      /\ bestSell \in Ids(asks)
      /\ Successor(asks, Begin(asks)) = Begin(Tail(asks))
  BY <1>2, <1>3, FirstOfQueue, QueueWithoutFirst
<1>6. PartiallyFilled(after, bestSell, Bid.quantity) = after
  <2>1. after \in Books
    BY <1>3, <1>5 DEF Queue, Books
  <2>2. bestSell \notin Ids(bids) \cup Ids(Tail(asks))
    BY <1>3, <1>5, SidesAreDisjoint
  <2>3. after.buy = bids /\ after.sell = Tail(asks)
    OBVIOUS
  <2> HIDE DEF after, bids, asks
  <2> QED BY <1>3, <1>5, <2>1, <2>2, <2>3, BookCalls
<1>7. orderMgr' = [book |-> after, states |-> states]
  <2>1. FillOrder(orderMgr, bestSell)
          = [book |-> after, states |-> [orderMgr.states EXCEPT ![bestSell] = "Filled"]]
    BY <1>4 DEF FillOrder
  <2>2. [[orderMgr.states EXCEPT ![bestSell] = "Filled"] EXCEPT ![bestSell] = "Partial"] = states
    BY <1>2, <1>3
  <2> HIDE DEF after, states
  <2> QED BY <1>1, <1>6, <2>1, <2>2 DEF PartialFillOrder
<1>8. Sound(orderMgr', i)
  BY <1>2, <1>3, <1>7, SoundWithoutAsk
<1>9. IteratorsAtBegin'
  <2>1. orderMgr'.book.buy = bids /\ orderMgr'.book.sell = Tail(asks)
    BY <1>7
  <2>2. bestBid' = Begin(bids) /\ bestSell' = Begin(Tail(asks))
    BY <1>1, <1>2, <1>5
  <2> HIDE DEF bids, asks
  <2>3. bestBid' = Begin(orderMgr'.book.buy) /\ bestSell' = Begin(orderMgr'.book.sell)
    BY <2>1, <2>2
  <2> QED BY ONLY <2>3 DEF IteratorsAtBegin
<1>10. orderMgr'.states[bestSell] = "Partial"
       /\ \A id \in (0 .. i - 1) \ {bestBid, bestSell} :
            orderMgr'.states[id] = orderMgr.states[id]
  BY <1>2, <1>3, <1>7
<1> QED BY <1>1, <1>8, <1>9, <1>10, TradeInv

LEMMA SellIsLargerInv == IInv /\ SellIsLarger => IInv'
<1> SUFFICES ASSUME IInv, SellIsLarger PROVE IInv'
  OBVIOUS
<1> DEFINE book == orderMgr.book  bids == book.buy  asks == book.sell
           states == [orderMgr.states EXCEPT ![bestBid] = "Partial"]
<1>1. /\ phase = "match" /\ Crosses /\ LogTrade
      /\ i' = i /\ phase' = phase /\ bestSell' = bestSell
      /\ bestBid' = Successor(bids, bestBid)
      /\ orderMgr' = PartialFillOrder(FillOrder(orderMgr, bestBid), bestBid, Sell.quantity)
  BY DEF SellIsLarger
<1>2. /\ bids # <<>> /\ asks # <<>> /\ bestBid = Begin(bids) /\ bestSell = Begin(asks)
      /\ bestBid \in 0 .. i - 1 /\ bestSell \in 0 .. i - 1 /\ bestBid # bestSell
  BY <1>1, BestOrders
<1>3. /\ i \in Nat /\ Sound(orderMgr, i) /\ book \in Books
      /\ Queue(bids, TRUE, i) /\ Queue(asks, FALSE, i)
      /\ orderMgr.states \in [0 .. i - 1 -> Statuses]
  <2>1. Sound(orderMgr, i) /\ i \in 0 .. TICK_COUNT
    BY DEF IInv
  <2>2. i \in Nat
    BY <2>1
  <2> QED BY <2>1, <2>2 DEF Sound, Books
<1>4. Deleted(book, bestBid) = [buy |-> Tail(bids), sell |-> asks]
  BY <1>2, <1>3, BookCalls
<1> DEFINE after == [buy |-> Tail(bids), sell |-> asks]
<1>5. /\ Queue(Tail(bids), TRUE, i) /\ Ids(Tail(bids)) = Ids(bids) \ {bestBid}
      /\ bestBid \in Ids(bids)
      /\ Successor(bids, Begin(bids)) = Begin(Tail(bids))
  BY <1>2, <1>3, FirstOfQueue, QueueWithoutFirst
<1>6. PartiallyFilled(after, bestBid, Sell.quantity) = after
  <2>1. after \in Books
    BY <1>3, <1>5 DEF Queue, Books
  <2>2. bestBid \notin Ids(Tail(bids)) \cup Ids(asks)
    BY <1>3, <1>5, SidesAreDisjoint
  <2>3. after.buy = Tail(bids) /\ after.sell = asks
    OBVIOUS
  <2> HIDE DEF after, bids, asks
  <2> QED BY <1>3, <1>5, <2>1, <2>2, <2>3, BookCalls
<1>7. orderMgr' = [book |-> after, states |-> states]
  <2>1. FillOrder(orderMgr, bestBid)
          = [book |-> after, states |-> [orderMgr.states EXCEPT ![bestBid] = "Filled"]]
    BY <1>4 DEF FillOrder
  <2>2. [[orderMgr.states EXCEPT ![bestBid] = "Filled"] EXCEPT ![bestBid] = "Partial"] = states
    BY <1>2, <1>3
  <2> HIDE DEF after, states
  <2> QED BY <1>1, <1>6, <2>1, <2>2 DEF PartialFillOrder
<1>8. Sound(orderMgr', i)
  BY <1>2, <1>3, <1>7, SoundWithoutBid
<1>9. IteratorsAtBegin'
  <2>1. orderMgr'.book.buy = Tail(bids) /\ orderMgr'.book.sell = asks
    BY <1>7
  <2>2. bestBid' = Begin(Tail(bids)) /\ bestSell' = Begin(asks)
    BY <1>1, <1>2, <1>5
  <2> HIDE DEF bids, asks
  <2>3. bestBid' = Begin(orderMgr'.book.buy) /\ bestSell' = Begin(orderMgr'.book.sell)
    BY <2>1, <2>2
  <2> QED BY ONLY <2>3 DEF IteratorsAtBegin
<1>10. orderMgr'.states[bestBid] = "Partial"
       /\ \A id \in (0 .. i - 1) \ {bestBid, bestSell} :
            orderMgr'.states[id] = orderMgr.states[id]
  BY <1>2, <1>3, <1>7
<1> QED BY <1>1, <1>8, <1>9, <1>10, TradeInv

LEMMA EqualQuantitiesInv == IInv /\ EqualQuantities => IInv'
<1> SUFFICES ASSUME IInv, EqualQuantities PROVE IInv'
  OBVIOUS
<1> DEFINE book == orderMgr.book  bids == book.buy  asks == book.sell
           oneFilled == [orderMgr.states EXCEPT ![bestBid] = "Filled"]
           bothFilled == [oneFilled EXCEPT ![bestSell] = "Filled"]
           withoutBid == [buy |-> Tail(bids), sell |-> asks]
           after == [buy |-> Tail(bids), sell |-> Tail(asks)]
           halfway == [book |-> withoutBid, states |-> oneFilled]
<1>1. /\ phase = "match" /\ Crosses /\ LogTrade /\ i' = i /\ phase' = phase
      /\ bestBid' = Successor(bids, bestBid)
      /\ bestSell' = Successor(asks, bestSell)
      /\ orderMgr' = FillOrder(FillOrder(orderMgr, bestBid), bestSell)
  BY DEF EqualQuantities
<1>2. /\ bids # <<>> /\ asks # <<>> /\ bestBid = Begin(bids) /\ bestSell = Begin(asks)
      /\ bestBid \in 0 .. i - 1 /\ bestSell \in 0 .. i - 1 /\ bestBid # bestSell
  BY <1>1, BestOrders
<1>3. /\ i \in Nat /\ Sound(orderMgr, i) /\ book \in Books
      /\ Queue(bids, TRUE, i) /\ Queue(asks, FALSE, i)
      /\ orderMgr.states \in [0 .. i - 1 -> Statuses]
  <2>1. Sound(orderMgr, i) /\ i \in 0 .. TICK_COUNT
    BY DEF IInv
  <2>2. i \in Nat
    BY <2>1
  <2> QED BY <2>1, <2>2 DEF Sound, Books
<1>4. FillOrder(orderMgr, bestBid) = halfway
  <2>1. Deleted(book, bestBid) = withoutBid
    BY <1>2, <1>3, BookCalls
  <2> QED BY <2>1 DEF FillOrder
<1>5. Sound(halfway, i)
  BY <1>2, <1>3, SoundWithoutBid
<1>6. halfway.book.sell = asks /\ halfway.book.buy = Tail(bids) /\ halfway.states = oneFilled
      /\ halfway.book = withoutBid
  OBVIOUS
<1>7. /\ Successor(bids, Begin(bids)) = Begin(Tail(bids))
      /\ Successor(asks, Begin(asks)) = Begin(Tail(asks))
  BY <1>2, <1>3, FirstOfQueue
<1> HIDE DEF halfway, withoutBid
<1>8. FillOrder(halfway, bestSell) = [book |-> after, states |-> bothFilled]
  <2>1. /\ withoutBid \in Books /\ withoutBid.buy = Tail(bids) /\ withoutBid.sell = asks
        /\ Queue(withoutBid.buy, TRUE, i) /\ Queue(withoutBid.sell, FALSE, i)
    BY <1>5, <1>6 DEF Sound, Books
  <2>2. Deleted(withoutBid, bestSell) = after
    BY <1>2, <1>3, <2>1, BookCalls
  <2> QED BY <1>6, <2>2 DEF FillOrder
<1>9. Sound([book |-> after, states |-> bothFilled], i)
  <2> HIDE DEF oneFilled
  <2>1. halfway.book.sell # <<>>
    BY <1>2, <1>6
  <2>2. Sound([book |-> [buy |-> halfway.book.buy, sell |-> Tail(halfway.book.sell)],
               states |-> [halfway.states EXCEPT ![Begin(halfway.book.sell)] = "Filled"]], i)
    BY <1>3, <1>5, <2>1, SoundWithoutAsk
  <2> QED BY <1>2, <1>6, <2>2
<1>10. orderMgr' = [book |-> after, states |-> bothFilled]
  BY <1>1, <1>4, <1>8
<1>11. IteratorsAtBegin'
  <2>1. orderMgr'.book.buy = Tail(bids) /\ orderMgr'.book.sell = Tail(asks)
    BY <1>10
  <2>2. bestBid' = Begin(Tail(bids)) /\ bestSell' = Begin(Tail(asks))
    BY <1>1, <1>2, <1>7
  <2> HIDE DEF bids, asks
  <2>3. bestBid' = Begin(orderMgr'.book.buy) /\ bestSell' = Begin(orderMgr'.book.sell)
    BY <2>1, <2>2
  <2> QED BY ONLY <2>3 DEF IteratorsAtBegin
<1>12. orderMgr'.states[bestSell] = "Filled"
       /\ \A id \in (0 .. i - 1) \ {bestBid, bestSell} :
            orderMgr'.states[id] = orderMgr.states[id]
  BY <1>2, <1>3, <1>10
<1> QED BY <1>1, <1>9, <1>10, <1>11, <1>12, TradeInv

\* The loop ends at an empty side, or at a best bid that is not above the best
\* ask: then no bid is above any ask.
LEMMA EndMatchingInv == IInv /\ EndMatching => IInv'
<1> SUFFICES ASSUME IInv, EndMatching PROVE IInv'
  OBVIOUS
<1> DEFINE bids == orderMgr.book.buy  asks == orderMgr.book.sell
<1>1. /\ phase = "match" /\ ~Crosses /\ phase' = "tick"
      /\ i' = i /\ orderMgr' = orderMgr /\ trades' = trades /\ printed' = printed
  BY DEF EndMatching
<1>2. bestBid = Begin(bids) /\ bestSell = Begin(asks)
  BY <1>1 DEF IInv, IteratorsAtBegin
<1>3. i \in Nat /\ Queue(bids, TRUE, i) /\ Queue(asks, FALSE, i)
  <2>1. Sound(orderMgr, i) /\ i \in 0 .. TICK_COUNT
    BY DEF IInv
  <2>2. i \in Nat
    BY <2>1
  <2> QED BY <2>1, <2>2 DEF Sound
<1>4. ASSUME NEW m \in DOMAIN bids, NEW n \in DOMAIN asks
      PROVE  bids[m].price <= asks[n].price
  <2>1. bids # <<>> /\ asks # <<>>
    OBVIOUS
  <2>2. Bid = At(bids, bestBid) /\ Sell = At(asks, bestSell)
    BY DEF Bid, Sell
  <2> HIDE DEF bids, asks
  <2>3. /\ 1 \in DOMAIN bids /\ bids[1] \in Order /\ Begin(bids) # End
        /\ At(bids, Begin(bids)) = bids[1]
    BY <1>3, <2>1, FirstOfQueue
  <2>4. /\ 1 \in DOMAIN asks /\ asks[1] \in Order /\ Begin(asks) # End
        /\ At(asks, Begin(asks)) = asks[1]
    BY <1>3, <2>1, FirstOfQueue
  <2>5. ~(bids[1].price > asks[1].price)
    BY <1>1, <1>2, <2>2, <2>3, <2>4 DEF Crosses
  <2>6. bids[m] \in Order /\ asks[n] \in Order
    BY <1>3 DEF Queue
  <2>7. /\ bids[1].price \in Nat /\ asks[1].price \in Nat
        /\ bids[m].price \in Nat /\ asks[n].price \in Nat
    <3>1. ASSUME NEW o \in Order PROVE o.price \in Nat
      <4>1. o.price \in Prices
        BY DEF Order
      <4> QED BY <4>1, EngineAssumption
    <3> QED BY <2>3, <2>4, <2>6, <3>1
  <2>8. m = 1 \/ bids[m].price <= bids[1].price
    <3>1. m = 1 \/ Ahead(bids[1], bids[m])
      BY <1>3, <2>3 DEF Queue
    <3>2. bids[1].is_buy
      BY <1>3, <2>3 DEF Queue
    <3> QED BY <2>7, <3>1, <3>2 DEF Ahead, Precedes
  <2>9. n = 1 \/ asks[1].price <= asks[n].price
    <3>1. n = 1 \/ Ahead(asks[1], asks[n])
      BY <1>3, <2>4 DEF Queue
    <3>2. ~asks[1].is_buy
      BY <1>3, <2>4 DEF Queue
    <3> QED BY <2>7, <3>1, <3>2 DEF Ahead, Precedes
  <2> QED BY <2>5, <2>7, <2>8, <2>9
<1>5. Uncrossed(orderMgr.book)
  BY <1>4 DEF Uncrossed
<1> QED BY <1>1, <1>5 DEF IInv

\* The last batch is appended to what has been printed.
LEMMA FlushInv == IInv /\ Flush => IInv'
<1> SUFFICES ASSUME IInv, Flush PROVE IInv'
  OBVIOUS
<1> DEFINE Pairs == (0 .. i - 1) \X (0 .. i - 1)
<1>1. /\ printed' = printed \o trades /\ trades' = <<>>
      /\ phase = "tick" /\ phase' = "ended" /\ i' = i /\ orderMgr' = orderMgr
  BY DEF Flush
<1>2. trades \in Seq(Pairs) /\ printed \in Seq(Pairs)
  BY DEF IInv
<1>3. Uncrossed(orderMgr.book)
  BY <1>1 DEF IInv
<1> HIDE DEF Pairs
<1>4. printed' \in Seq(Pairs) /\ trades' \in Seq(Pairs) /\ printed' \o trades' = printed \o trades
  <2>1. printed \o trades \in Seq(Pairs)
    BY <1>2, ConcatProperties
  <2> QED BY <1>1, <2>1, ConcatEmptySeq, EmptySeq
<1> QED BY <1>1, <1>3, <1>4 DEF IInv, Pairs

LEMMA StepInv == IInv /\ [Next]_vars => IInv'
<1> SUFFICES ASSUME IInv, [Next]_vars PROVE IInv'
  OBVIOUS
<1>1. CASE CreateOrder      BY <1>1, CreateOrderInv
<1>2. CASE BidIsLarger      BY <1>2, BidIsLargerInv
<1>3. CASE SellIsLarger     BY <1>3, SellIsLargerInv
<1>4. CASE EqualQuantities  BY <1>4, EqualQuantitiesInv
<1>5. CASE EndMatching      BY <1>5, EndMatchingInv
<1>6. CASE Flush            BY <1>6, FlushInv
<1>7. CASE UNCHANGED vars
  BY <1>7 DEF vars, IInv, IteratorsAtBegin
<1> QED BY <1>1, <1>2, <1>3, <1>4, <1>5, <1>6, <1>7 DEF Next

-----------------------------------------------------------------------------
(* What the invariant says of the engine.                                  *)

\* The invariant is one of the program.
THEOREM MatchingInvariant == Spec => []IInv
<1>1. Init => IInv
  BY InitInv
<1>2. IInv /\ [Next]_vars => IInv'
  BY StepInv
<1> QED BY <1>1, <1>2, PTL DEF Spec

\* Whenever matchOrders is not running, no bid in the book is above an ask: the
\* loop stops at the first orders only when there is nothing to trade behind
\* them.
THEOREM MatchingLeavesNoCross == Spec => []BookIsNotCrossed
<1>1. IInv => BookIsNotCrossed
  <2> SUFFICES ASSUME IInv, phase # "match",
                      NEW b \in ToSet(orderMgr.book.buy), NEW s \in ToSet(orderMgr.book.sell)
               PROVE  b.price <= s.price
    BY DEF BookIsNotCrossed
  <2>1. PICK m \in DOMAIN orderMgr.book.buy : orderMgr.book.buy[m] = b
    BY DEF ToSet
  <2>2. PICK n \in DOMAIN orderMgr.book.sell : orderMgr.book.sell[n] = s
    BY DEF ToSet
  <2> QED BY <2>1, <2>2 DEF IInv, Uncrossed
<1> QED BY <1>1, MatchingInvariant, PTL

\* The ids of both sides together.
LEMMA IdsOfBoth ==
  ASSUME NEW k \in Nat, NEW bids, NEW asks, Queue(bids, TRUE, k), Queue(asks, FALSE, k)
  PROVE  /\ Ids(bids \o asks) = Ids(bids) \cup Ids(asks)
         /\ Len(bids \o asks) = Cardinality(Ids(bids \o asks))
<1> DEFINE book == bids \o asks
<1>1. /\ bids \in Seq(Order) /\ asks \in Seq(Order)
      /\ Len(bids) \in Nat /\ Len(asks) \in Nat
      /\ DOMAIN bids = 1 .. Len(bids) /\ DOMAIN asks = 1 .. Len(asks)
      /\ \A m, n \in DOMAIN bids : bids[m].id = bids[n].id => m = n
      /\ \A m, n \in DOMAIN asks : asks[m].id = asks[n].id => m = n
  BY DEF Queue
<1>2. /\ book \in Seq(Order) /\ Len(book) = Len(bids) + Len(asks)
      /\ \A n \in 1 .. Len(bids) + Len(asks) :
           book[n] = IF n <= Len(bids) THEN bids[n] ELSE asks[n - Len(bids)]
  BY <1>1, ConcatProperties
<1>3. DOMAIN book = 1 .. Len(bids) + Len(asks)
  BY <1>2
<1> HIDE DEF book
<1>4. /\ \A n \in DOMAIN bids : n \in DOMAIN book /\ book[n] = bids[n]
      /\ \A n \in DOMAIN asks : Len(bids) + n \in DOMAIN book /\ book[Len(bids) + n] = asks[n]
      /\ \A n \in DOMAIN book : n \in DOMAIN bids \/ n - Len(bids) \in DOMAIN asks
  <2>1. ASSUME NEW n \in DOMAIN bids PROVE n \in DOMAIN book /\ book[n] = bids[n]
    BY <1>1, <1>2, <1>3
  <2>2. ASSUME NEW n \in DOMAIN asks
        PROVE  Len(bids) + n \in DOMAIN book /\ book[Len(bids) + n] = asks[n]
    <3>1. Len(bids) + n \in 1 .. Len(bids) + Len(asks) /\ ~(Len(bids) + n <= Len(bids))
          /\ (Len(bids) + n) - Len(bids) = n
      BY <1>1
    <3> QED BY <1>2, <1>3, <3>1
  <2>3. ASSUME NEW n \in DOMAIN book PROVE n \in DOMAIN bids \/ n - Len(bids) \in DOMAIN asks
    BY <1>1, <1>3
  <2> QED BY <2>1, <2>2, <2>3
<1>5. Ids(book) = Ids(bids) \cup Ids(asks)
  <2>1. ASSUME NEW n \in DOMAIN book PROVE book[n].id \in Ids(bids) \cup Ids(asks)
    <3>1. CASE n \in DOMAIN bids
      BY <1>4, <3>1 DEF Ids
    <3>2. CASE n - Len(bids) \in DOMAIN asks
      <4>1. Len(bids) + (n - Len(bids)) = n
        BY <1>1, <1>3
      <4>2. book[n] = asks[n - Len(bids)]
        BY <1>4, <3>2, <4>1
      <4> QED BY <3>2, <4>2 DEF Ids
    <3> QED BY <1>4, <3>1, <3>2
  <2>2. Ids(bids) \subseteq Ids(book)
    BY <1>4 DEF Ids
  <2>3. Ids(asks) \subseteq Ids(book)
    BY <1>4 DEF Ids
  <2> QED BY <2>1, <2>2, <2>3 DEF Ids
<1>6. ASSUME NEW m \in DOMAIN book, NEW n \in DOMAIN book, book[m].id = book[n].id
      PROVE  m = n
  <2>1. CASE m \in DOMAIN bids /\ n \in DOMAIN bids
    BY <1>1, <1>4, <1>6, <2>1
  <2> DEFINE a == m - Len(bids)  c == n - Len(bids)
  <2>2. /\ a \in DOMAIN asks => book[m] = asks[a]
        /\ c \in DOMAIN asks => book[n] = asks[c]
    <3>1. Len(bids) + a = m /\ Len(bids) + c = n
      BY <1>1, <1>3
    <3> HIDE DEF a, c
    <3> QED BY <1>4, <3>1
  <2>3. CASE a \in DOMAIN asks /\ c \in DOMAIN asks
    <3>1. a = c
      <4> HIDE DEF a, c
      <4> QED BY <1>1, <1>6, <2>2, <2>3
    <3> QED BY <1>1, <1>3, <3>1
  <2>4. CASE m \in DOMAIN bids /\ c \in DOMAIN asks
    <3> HIDE DEF c
    <3>1. book[m].id \in Ids(bids) /\ book[n].id \in Ids(asks)
      BY <1>4, <2>2, <2>4 DEF Ids
    <3> QED BY <1>6, <3>1, SidesAreDisjoint
  <2>5. CASE a \in DOMAIN asks /\ n \in DOMAIN bids
    <3> HIDE DEF a
    <3>1. book[n].id \in Ids(bids) /\ book[m].id \in Ids(asks)
      BY <1>4, <2>2, <2>5 DEF Ids
    <3> QED BY <1>6, <3>1, SidesAreDisjoint
  <2> QED BY <1>4, <2>1, <2>3, <2>4, <2>5
<1>7. Len(book) = Cardinality(Ids(book))
  <2> DEFINE f == [n \in DOMAIN book |-> book[n].id]
  <2>1. f \in Bijection(DOMAIN book, Ids(book))
    BY <1>6 DEF Ids, Bijection, Injection, IsInjective, Surjection
  <2>2. DOMAIN book = 1 .. Len(book) /\ Len(book) \in Nat
    BY <1>1, <1>2, <1>3
  <2>3. IsFiniteSet(1 .. Len(book)) /\ Cardinality(1 .. Len(book)) = Len(book)
    <3> DEFINE N == Len(book)
    <3>1. N \in Nat /\ 1 \in Int
      BY <2>2
    <3> HIDE DEF N
    <3>2. IsFiniteSet(1 .. N) /\ Cardinality(1 .. N) = IF 1 > N THEN 0 ELSE N - 1 + 1
      BY <3>1, FS_Interval
    <3>3. Cardinality(1 .. N) = N
      BY <3>1, <3>2
    <3> QED BY <3>2, <3>3 DEF N
  <2> HIDE DEF f
  <2>4. Cardinality(Ids(book)) = Cardinality(DOMAIN book)
    BY <2>1, <2>2, <2>3, FS_Bijection DEF ExistsBijection
  <2> QED BY <2>2, <2>3, <2>4
<1> QED BY <1>5, <1>7 DEF book

\* The order manager and the book agree: an order in the book, where it is once
\* and on one side, is not Filled, and an order that is New is in the book.
THEOREM StatesFollowTheBook == Spec => []StatesMatchBook
<1>1. IInv => StatesMatchBook
  <2> SUFFICES ASSUME IInv PROVE StatesMatchBook
    OBVIOUS
  <2> DEFINE bids == orderMgr.book.buy  asks == orderMgr.book.sell
  <2>1. Sound(orderMgr, i) /\ i \in 0 .. TICK_COUNT
    BY DEF IInv
  <2>2. i \in Nat
    BY <2>1
  <2>3. /\ Queue(bids, TRUE, i) /\ Queue(asks, FALSE, i)
        /\ \A id \in 0 .. i - 1 : orderMgr.states[id] = "New" <=> id \in Ids(bids) \cup Ids(asks)
    BY <2>1 DEF Sound
  <2> HIDE DEF bids, asks
  <2>4. /\ Ids(bids \o asks) = Ids(bids) \cup Ids(asks)
        /\ Len(bids \o asks) = Cardinality(Ids(bids \o asks))
    BY <2>2, <2>3, IdsOfBoth
  <2>5. ASSUME NEW id \in 0 .. i - 1
        PROVE  /\ id \in Ids(bids \o asks) => orderMgr.states[id] \in {"New", "Partial"}
               /\ orderMgr.states[id] = "New" => id \in Ids(bids \o asks)
    BY <2>3, <2>4
  <2> QED BY <2>4, <2>5 DEF StatesMatchBook, bids, asks
<1> QED BY <1>1, MatchingInvariant, PTL

\* When the program ends, every order that is not New has been printed, and no
\* trade has been logged twice.
THEOREM FillsArePrinted == Spec => []EveryFillIsPrinted
<1>1. IInv => EveryFillIsPrinted
  <2> SUFFICES ASSUME IInv PROVE EveryFillIsPrinted
    OBVIOUS
  <2>1. Logged(printed \o trades, orderMgr.states, i)
    BY DEF IInv
  <2>2. phase = "ended" => printed \o trades = printed
    BY ConcatEmptySeq DEF IInv
  <2> QED BY <2>1, <2>2 DEF EveryFillIsPrinted, Logged
<1> QED BY <1>1, MatchingInvariant, PTL

\* Only the best orders trade, the oldest of their price, at prices that cross.
THEOREM OnlyTheBestTrade == Spec => BestOrdersTrade
<1> DEFINE log == printed \o trades
           Trade(pair) ==
             LET bid == At(orderMgr.book.buy, pair[1])
                 sell == At(orderMgr.book.sell, pair[2])
             IN /\ bid.price >= sell.price
                /\ \A b \in ToSet(orderMgr.book.buy) :
                     b.price < bid.price \/ (b.price = bid.price /\ b.id >= bid.id)
                /\ \A s \in ToSet(orderMgr.book.sell) :
                     s.price > sell.price \/ (s.price = sell.price /\ s.id >= sell.id)
           Action == \A n \in 1 .. Len(printed' \o trades') :
                       n > Len(log) => Trade((printed' \o trades')[n])
<1>1. ASSUME IInv, phase = "match", Crosses, LogTrade
      PROVE  Action
  <2> DEFINE bids == orderMgr.book.buy  asks == orderMgr.book.sell
             Pairs == (0 .. i - 1) \X (0 .. i - 1)
             pair == <<bestBid, bestSell>>
  <2>1. /\ bids # <<>> /\ asks # <<>> /\ bestBid = Begin(bids) /\ bestSell = Begin(asks)
        /\ Bid = bids[1] /\ Sell = asks[1]
        /\ bestBid \in 0 .. i - 1 /\ bestSell \in 0 .. i - 1
    BY <1>1, BestOrders
  <2>2. trades \in Seq(Pairs) /\ printed \in Seq(Pairs) /\ pair \in Pairs
    BY <1>1, <2>1 DEF IInv
  <2> HIDE DEF Pairs
  <2>3. printed' \o trades' = Append(log, pair)
    BY <1>1, <2>2, LogGrows
  <2>4. log \in Seq(Pairs) /\ Len(log) \in Nat
    BY <2>2, ConcatProperties
  <2> HIDE DEF log, pair
  <2>5. \A n \in 1 .. Len(Append(log, pair)) : n > Len(log) => Append(log, pair)[n] = pair
    BY <2>2, <2>4, AppendProperties
  <2>6. /\ Queue(bids, TRUE, i) /\ Queue(asks, FALSE, i) /\ i \in Nat
    <3>1. Sound(orderMgr, i) /\ i \in 0 .. TICK_COUNT
      BY <1>1 DEF IInv
    <3>2. i \in Nat
      BY <3>1
    <3> QED BY <3>1, <3>2 DEF Sound
  <2>7. Bid.price >= Sell.price
    <3>1. ASSUME NEW o \in Order PROVE o.price \in Nat
      <4>1. o.price \in Prices
        BY DEF Order
      <4> QED BY <4>1, EngineAssumption
    <3> HIDE DEF bids, asks
    <3>2. bids[1] \in Order /\ asks[1] \in Order
      BY <2>1, <2>6, FirstOfQueue
    <3>3. Bid.price \in Nat /\ Sell.price \in Nat
      BY <2>1, <3>1, <3>2
    <3> QED BY <1>1, <3>3 DEF Crosses
  <2>8. ASSUME NEW b \in ToSet(bids)
        PROVE  b.price < Bid.price \/ (b.price = Bid.price /\ b.id >= Bid.id)
    <3> HIDE DEF bids, asks
    <3>1. PICK n \in DOMAIN bids : bids[n] = b
      BY DEF ToSet
    <3>2. 1 \in DOMAIN bids /\ Bid \in Order /\ Bid.is_buy /\ b \in Order
      BY <2>1, <2>6, <3>1, FirstOfQueue DEF Queue
    <3>3. b = Bid \/ Ahead(Bid, b)
      BY <2>1, <2>6, <3>1, <3>2 DEF Queue
    <3>4. /\ Bid.id \in 0 .. TICK_COUNT - 1 /\ b.id \in 0 .. TICK_COUNT - 1
      BY <3>2 DEF Order
    <3> QED BY <3>2, <3>3, <3>4 DEF Ahead, Precedes
  <2>9. ASSUME NEW s \in ToSet(asks)
        PROVE  s.price > Sell.price \/ (s.price = Sell.price /\ s.id >= Sell.id)
    <3> HIDE DEF bids, asks
    <3>1. PICK n \in DOMAIN asks : asks[n] = s
      BY DEF ToSet
    <3>2. 1 \in DOMAIN asks /\ Sell \in Order /\ ~Sell.is_buy /\ s \in Order
      BY <2>1, <2>6, <3>1, FirstOfQueue DEF Queue
    <3>3. s = Sell \/ Ahead(Sell, s)
      BY <2>1, <2>6, <3>1, <3>2 DEF Queue
    <3>4. /\ Sell.id \in 0 .. TICK_COUNT - 1 /\ s.id \in 0 .. TICK_COUNT - 1
      BY <3>2 DEF Order
    <3> QED BY <3>2, <3>3, <3>4 DEF Ahead, Precedes
  <2>10. At(bids, pair[1]) = Bid /\ At(asks, pair[2]) = Sell
    BY DEF Bid, Sell, pair
  <2>11. Trade(pair)
    BY <2>7, <2>8, <2>9, <2>10
  <2> HIDE DEF Trade
  <2> QED BY <2>3, <2>5, <2>11
<1>2. ASSUME printed' \o trades' = log, Len(log) \in Nat
      PROVE  Action
  <2> HIDE DEF log, Trade
  <2> QED BY <1>2
<1>3. IInv /\ [Next]_vars => [Action]_vars
  <2> SUFFICES ASSUME IInv, Next PROVE Action
    OBVIOUS
  <2>1. CASE BidIsLarger \/ SellIsLarger \/ EqualQuantities
    <3>1. phase = "match" /\ Crosses /\ LogTrade
      BY <2>1 DEF BidIsLarger, SellIsLarger, EqualQuantities
    <3> QED BY <1>1, <3>1
  <2>2. CASE CreateOrder \/ EndMatching \/ Flush
    <3> DEFINE Pairs == (0 .. i - 1) \X (0 .. i - 1)
    <3>1. trades \in Seq(Pairs) /\ printed \in Seq(Pairs)
      BY DEF IInv
    <3> HIDE DEF Pairs
    <3>2. log \in Seq(Pairs) /\ Len(log) \in Nat
      BY <3>1, ConcatProperties
    <3>3. printed' \o trades' = log
      <4>1. CASE CreateOrder \/ EndMatching
        BY <4>1 DEF CreateOrder, EndMatching
      <4>2. CASE Flush
        <5>1. printed' = log /\ trades' = <<>>
          BY <4>2 DEF Flush
        <5> QED BY <3>2, <5>1, ConcatEmptySeq
      <4> QED BY <2>2, <4>1, <4>2
    <3> QED BY <1>2, <3>2, <3>3
  <2> QED BY <2>1, <2>2 DEF Next
<1>4. BestOrdersTrade <=> [][Action]_vars
  BY DEF BestOrdersTrade
<1> QED BY <1>3, <1>4, MatchingInvariant, PTL DEF Spec

=============================================================================
