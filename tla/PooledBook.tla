------------------------------ MODULE PooledBook ------------------------------
(***************************************************************************)
(* PooledOrderBook of phase_5/src/PooledOrderBook.cpp: both indices hold   *)
(* pointers into a FixedMemoryPool, which gives out a null pointer once it *)
(* is used up.  time_pool() adds each of v.size() orders once to a book    *)
(* with a pool of v.size().                                                *)
(***************************************************************************)
EXTENDS BookTypes

NULL == 0
cap == Cardinality(Ids)

VARIABLES
  used,     \* how many slots the pool has given out
  buffer,   \* the orders constructed in the pool, by slot
  lvl,      \* the entries of the nested map: level, id and pointer
  look      \* the pointer stored for each id, or Absent
poolVars == <<used, buffer, lvl, look>>

PoolInit ==
  /\ used = 0
  /\ buffer = [s \in {} |-> NULL]
  /\ lvl = {}
  /\ look = [id \in Ids |-> Absent]

\* Mutant: one slot is kept back.
ExhaustedEarly == used + 1 >= cap

Exhausted == used >= cap

\* The pointer create() returns.
Created == IF Exhausted THEN NULL ELSE used + 1

create(id, o) ==
  IF Exhausted THEN UNCHANGED <<used, buffer>>
  ELSE /\ used' = used + 1
       /\ buffer' = [s \in 1..(used + 1) |-> IF s = used + 1 THEN [id |-> id, order |-> o]
                                                            ELSE buffer[s]]

\* Both indices store what create() returned, null or not.
poolAddOrder(id, o) ==
  /\ create(id, o)
  /\ lvl' = {e \in lvl : ~(e.level = o.price /\ e.id = id)} \cup
              {[level |-> o.price, id |-> id, ptr |-> Created]}
  /\ look' = [look EXCEPT ![id] = Created]

PoolNext == \E id \in Ids, o \in Order : look[id] = Absent /\ poolAddOrder(id, o)

(* No index ever holds the null pointer of an exhausted pool, or a pointer *)
(* to another order: following either index from an id or a level leads to *)
(* the order that was added.                                               *)
PointersAreLive ==
  /\ \A id \in Ids : look[id] # Absent =>
       /\ look[id] \in 1..used
       /\ buffer[look[id]].id = id
  /\ lvl = {[level |-> buffer[look[id]].order.price, id |-> id, ptr |-> look[id]] :
              id \in {i \in Ids : look[i] # Absent}}
=============================================================================
