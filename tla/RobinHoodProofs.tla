---------------------------- MODULE RobinHoodProofs ----------------------------
(***************************************************************************)
(* Proofs about the hash table of hw_5, for any keys, values, hash         *)
(* function and capacity: between calls lookup finds exactly the keys that *)
(* are stored, remove finds them too, and insert never runs out of slots.  *)
(***************************************************************************)
EXTENDS RobinHoodTable, FiniteSetTheorems, WellFoundedInduction, TLAPS

-----------------------------------------------------------------------------
(* Slots in a ring                                                         *)

\* The steps from slot a on to slot b.
Dist(a, b) == (maxCapacity + b - a) % maxCapacity

LEMMA SmallRemainder ==
    ASSUME NEW a \in Nat, a < 2 * maxCapacity
    PROVE  a % maxCapacity = IF a < maxCapacity THEN a ELSE a - maxCapacity
<1>1. maxCapacity \in Nat /\ maxCapacity > 0
  BY TableAssumption
<1> QED BY <1>1

LEMMA DistValue ==
    ASSUME NEW a \in Slots, NEW b \in Slots
    PROVE  Dist(a, b) = IF b >= a THEN b - a ELSE maxCapacity + b - a
<1>1. maxCapacity \in Nat /\ maxCapacity > 0 /\ a \in Int /\ b \in Int
  BY TableAssumption DEF Slots
<1>2. maxCapacity + b - a \in Nat /\ maxCapacity + b - a < 2 * maxCapacity
  BY <1>1 DEF Slots
<1> QED BY <1>1, <1>2, SmallRemainder DEF Dist

LEMMA FollowingValue ==
    ASSUME NEW a \in Slots
    PROVE  Following(a) = IF a + 1 = maxCapacity THEN 0 ELSE a + 1
<1>1. maxCapacity \in Nat /\ maxCapacity > 0 /\ a + 1 \in Nat /\ a + 1 < 2 * maxCapacity
  BY TableAssumption DEF Slots
<1>2. a + 1 <= maxCapacity
  BY <1>1 DEF Slots
<1> QED BY <1>1, <1>2, SmallRemainder DEF Following

LEMMA RingFacts ==
    ASSUME NEW a \in Slots, NEW b \in Slots
    PROVE  /\ Dist(a, b) \in Slots
           /\ Following(a) \in Slots
           /\ Dist(a, a) = 0
           /\ Dist(a, Following(b)) = IF Dist(a, b) = maxCapacity - 1 THEN 0 ELSE Dist(a, b) + 1
           /\ a # b => Dist(Following(a), b) = Dist(a, b) - 1
           /\ \A c \in Slots : Dist(a, b) = Dist(a, c) => b = c
<1>1. maxCapacity \in Nat /\ maxCapacity > 0
  BY TableAssumption
<1>2. Following(a) \in Slots /\ Following(b) \in Slots
  BY <1>1, FollowingValue DEF Slots
<1>3. Dist(a, b) \in Slots /\ Dist(a, a) = 0
  BY <1>1, DistValue DEF Slots
<1>4. Dist(a, Following(b)) = IF Dist(a, b) = maxCapacity - 1 THEN 0 ELSE Dist(a, b) + 1
  <2>1. Dist(a, b) = IF b >= a THEN b - a ELSE maxCapacity + b - a
    BY DistValue
  <2>2. Dist(a, Following(b)) = IF Following(b) >= a THEN Following(b) - a ELSE maxCapacity + Following(b) - a
    BY <1>2, DistValue
  <2> QED BY <1>1, <2>1, <2>2, FollowingValue DEF Slots
<1>5. ASSUME a # b PROVE Dist(Following(a), b) = Dist(a, b) - 1
  <2>1. Dist(a, b) = IF b >= a THEN b - a ELSE maxCapacity + b - a
    BY DistValue
  <2>2. Dist(Following(a), b) = IF b >= Following(a) THEN b - Following(a) ELSE maxCapacity + b - Following(a)
    BY <1>2, DistValue
  <2> QED BY <1>1, <1>5, <2>1, <2>2, FollowingValue DEF Slots
<1>6. ASSUME NEW c \in Slots, Dist(a, b) = Dist(a, c) PROVE b = c
  BY <1>1, <1>6, DistValue DEF Slots
<1> QED BY <1>2, <1>3, <1>4, <1>5, <1>6

\* The slot d steps on.
LEMMA StepsOn ==
    ASSUME NEW a \in Slots, NEW d \in Slots
    PROVE  (a + d) % maxCapacity \in Slots /\ Dist(a, (a + d) % maxCapacity) = d
<1>1. maxCapacity \in Nat /\ maxCapacity > 0 /\ a \in Int /\ d \in Int
  BY TableAssumption DEF Slots
<1>2. (a + d) % maxCapacity = IF a + d < maxCapacity THEN a + d ELSE a + d - maxCapacity
  <2>1. PICK n \in Nat : n = a + d
    BY <1>1 DEF Slots
  <2>2. n < 2 * maxCapacity
    BY <1>1, <2>1 DEF Slots
  <2>3. n % maxCapacity = IF n < maxCapacity THEN n ELSE n - maxCapacity
    BY <2>2, SmallRemainder
  <2> QED BY <1>1, <2>1, <2>3
<1>3. (a + d) % maxCapacity \in Slots
  BY <1>1, <1>2 DEF Slots
<1> QED BY <1>1, <1>2, <1>3, DistValue DEF Slots

-----------------------------------------------------------------------------
(* The inductive invariant                                                 *)

UsedIn(pool) == {i \in Slots : ~isEmpty(pool[i])}

\* Slot i is taken by an entry that is at least as far from its own slot as an
\* entry of the key would be there.
PassedIn(pool, i, key) == i \in UsedIn(pool) /\ getPsl(i, pool[i].key) >= getPsl(i, key)

\* The slots between an entry's own one and the one it is in let it pass.
Paths(pool) ==
    \A j \in UsedIn(pool), i \in Slots :
        getPsl(i, pool[j].key) < getPsl(j, pool[j].key) => PassedIn(pool, i, pool[j].key)

Used == UsedIn(memoryPool)

\* While remove shifts, the slot of the hole holds an entry that is elsewhere too.
Hole == IF call.at = "shift" THEN {call.idx} ELSE {}

Held == {memoryPool[i] : i \in Used \ Hole}

InHand == IF call.at = "insert" THEN {call.currData} ELSE {}

Pools == [Slots -> Entries \cup {Empty}]

InsertCalls == [at : {"insert"}, idx : Slots, deltaIdx : Nat, currData : Entries, currPsl : Nat]
RemoveCalls == [at : {"remove"}, idx : Slots, deltaIdx : 0 .. maxCapacity, key : Keys]
ShiftCalls == [at : {"shift"}, idx : Slots]

TypeOK ==
    /\ hash \in [Keys -> Slots]
    /\ memoryPool \in Pools
    /\ stored \subseteq Entries
    /\ call \in {Idle} \cup InsertCalls \cup RemoveCalls \cup ShiftCalls

PathInv == Paths(memoryPool)

\* So do the slots that the entry in the hand of insert has probed; those that
\* insert has been to are taken, and one slot is not.
InsertInv ==
    call.at = "insert" =>
        /\ call.currPsl = getPsl(call.idx, call.currData.key)
        /\ \A i \in Slots : getPsl(i, call.currData.key) < call.currPsl
                              => PassedIn(memoryPool, i, call.currData.key)
        /\ call.deltaIdx < maxCapacity
        /\ \A i \in Slots \ Used : Dist(call.idx, i) < maxCapacity - call.deltaIdx
        /\ Used # Slots

\* The slots that remove has been to hold other keys.
RemoveInv ==
    call.at = "remove" =>
        /\ call.deltaIdx < maxCapacity => call.deltaIdx = getPsl(call.idx, call.key)
        /\ \A i \in Slots : getPsl(i, call.key) < call.deltaIdx
                              => i \in Used /\ memoryPool[i].key # call.key

\* Every stored entry is in one slot or in the hand of insert.
StoredInv ==
    /\ \A i, j \in Used \ Hole : memoryPool[i] = memoryPool[j] => i = j
    /\ stored = Held \cup InHand
    /\ Held \cap InHand = {}
    /\ Hole \subseteq Used
    /\ currCapacity = Cardinality(Used)

IInv == TypeOK /\ PathInv /\ InsertInv /\ RemoveInv /\ StoredInv

-----------------------------------------------------------------------------
(* What the writes of insert and remove do to the paths                    *)

LEMMA PslFacts ==
    ASSUME hash \in [Keys -> Slots], NEW key \in Keys, NEW i \in Slots
    PROVE  /\ getPsl(i, key) \in Slots
           /\ getPsl(i, key) \in Int /\ getPsl(i, key) >= 0 /\ getPsl(i, key) < maxCapacity
           /\ Following(i) \in Slots
           /\ getPsl(Following(i), key)
                = IF getPsl(i, key) = maxCapacity - 1 THEN 0 ELSE getPsl(i, key) + 1
           /\ \A j \in Slots : getPsl(i, key) = getPsl(j, key) => i = j
           /\ getPsl(hash[key], key) = 0 /\ hash[key] \in Slots
<1>1. hash[key] \in Slots
  OBVIOUS
<1>2. \A j \in Slots : getPsl(j, key) = Dist(hash[key], j)
  BY DEF getPsl, Dist
<1>3. Following(i) \in Slots
  BY RingFacts
<1>4. getPsl(i, key) \in Slots
  BY <1>1, <1>2, RingFacts
<1>5. getPsl(i, key) \in Int /\ getPsl(i, key) >= 0 /\ getPsl(i, key) < maxCapacity
  BY <1>4, TableAssumption DEF Slots
<1> QED BY <1>1, <1>2, <1>3, <1>4, <1>5, RingFacts

LEMMA EntryFacts ==
    ASSUME NEW pool \in Pools
    PROVE  /\ \A i \in UsedIn(pool) : pool[i] \in Entries /\ pool[i].key \in Keys
           /\ \A e \in Entries : e.key \in Keys /\ ~isEmpty(e)
           /\ isEmpty(Empty)
           /\ \A i \in Slots \ UsedIn(pool) : pool[i] = Empty
<1>1. \A e \in Entries : e.key \in Keys /\ ~isEmpty(e)
  BY TableAssumption DEF Entries, isEmpty
<1>2. isEmpty(Empty)
  BY DEF isEmpty, Empty
<1>3. \A i \in Slots : pool[i] \in Entries \/ pool[i] = Empty
  BY DEF Pools
<1> QED BY <1>1, <1>2, <1>3 DEF UsedIn

\* An entry is put in a free slot, or in that of an entry that is less far from
\* its own: lines 40 and 46.
LEMMA PathsAfterPut ==
    ASSUME hash \in [Keys -> Slots], NEW pool \in Pools, Paths(pool),
           NEW e \in Entries, NEW idx \in Slots,
           idx \in UsedIn(pool) => getPsl(idx, e.key) > getPsl(idx, pool[idx].key),
           \A i \in Slots : getPsl(i, e.key) < getPsl(idx, e.key) => PassedIn(pool, i, e.key)
    PROVE  Paths([pool EXCEPT ![idx] = e])
<1> DEFINE new == [pool EXCEPT ![idx] = e]
<1>1. new \in Pools /\ new[idx] = e /\ \A i \in Slots : i # idx => new[i] = pool[i]
  BY DEF Pools
<1>2. UsedIn(new) = UsedIn(pool) \cup {idx}
  BY <1>1, EntryFacts DEF UsedIn
<1> HIDE DEF new
<1> SUFFICES ASSUME NEW j \in UsedIn(new), NEW i \in Slots,
                    getPsl(i, new[j].key) < getPsl(j, new[j].key)
             PROVE  PassedIn(new, i, new[j].key)
  BY DEF Paths, new
<1>3. j \in Slots /\ new[j].key \in Keys
  BY <1>1, EntryFacts DEF UsedIn
<1>4. PassedIn(pool, i, new[j].key)
  <2>1. CASE j = idx
    BY <1>1, <2>1
  <2>2. CASE j # idx
    BY <1>1, <1>2, <1>3, <2>2 DEF Paths
  <2> QED BY <2>1, <2>2
<1>5. CASE i = idx
  <2>1. i \in UsedIn(pool) /\ getPsl(i, pool[i].key) >= getPsl(i, new[j].key)
    BY <1>4 DEF PassedIn
  <2>2. getPsl(idx, e.key) > getPsl(idx, pool[idx].key)
    BY <1>5, <2>1
  <2>3. getPsl(idx, e.key) \in Int /\ getPsl(idx, pool[idx].key) \in Int /\ getPsl(idx, new[j].key) \in Int
    BY <1>3, <1>5, <2>1, EntryFacts, PslFacts
  <2>4. getPsl(idx, new[idx].key) >= getPsl(idx, new[j].key)
    BY <1>1, <1>5, <2>1, <2>2, <2>3
  <2> QED BY <1>2, <1>5, <2>4 DEF PassedIn
<1>6. CASE i # idx
  BY <1>1, <1>2, <1>4, <1>6 DEF PassedIn
<1> QED BY <1>5, <1>6

\* The entry of the next slot is moved one back into the hole: line 64.
LEMMA PathsAfterShift ==
    ASSUME hash \in [Keys -> Slots], NEW pool \in Pools, Paths(pool),
           NEW idx \in UsedIn(pool), Following(idx) \in UsedIn(pool),
           getPsl(Following(idx), pool[Following(idx)].key) > 0
    PROVE  /\ Paths([pool EXCEPT ![idx] = pool[Following(idx)]])
           /\ Following(idx) # idx
<1> DEFINE n == Following(idx)
           e == pool[n]
           new == [pool EXCEPT ![idx] = e]
<1>1. idx \in Slots /\ n \in Slots /\ e \in Entries /\ e.key \in Keys
  BY EntryFacts DEF UsedIn
<1>2. new \in Pools /\ new[idx] = e /\ \A i \in Slots : i # idx => new[i] = pool[i]
  BY <1>1 DEF Pools
<1>3. UsedIn(new) = UsedIn(pool)
  BY <1>1, <1>2, EntryFacts DEF UsedIn
<1>4. getPsl(n, e.key) = getPsl(idx, e.key) + 1 /\ getPsl(idx, e.key) \in Int /\ getPsl(n, e.key) > 0
  BY <1>1, PslFacts
<1>5. n # idx
  BY <1>4
<1> HIDE DEF new
<1>6. ASSUME NEW j \in UsedIn(new), NEW i \in Slots,
             getPsl(i, new[j].key) < getPsl(j, new[j].key)
      PROVE  PassedIn(new, i, new[j].key)
  <2> DEFINE k == new[j].key
  <2>1. j \in Slots /\ k \in Keys
    BY <1>2, EntryFacts DEF UsedIn
  <2>2. PassedIn(pool, i, k)
    <3>1. CASE j = idx
      <4>1. getPsl(i, e.key) < getPsl(n, e.key)
        <5>1. getPsl(i, e.key) \in Int
          BY <1>1, PslFacts
        <5> QED BY <1>2, <1>4, <1>6, <3>1, <5>1
      <4> QED BY <1>2, <3>1, <4>1 DEF Paths
    <3>2. CASE j # idx
      BY <1>2, <1>3, <1>6, <2>1, <3>2 DEF Paths
    <3> QED BY <3>1, <3>2
  <2>3. CASE i # idx
    BY <1>2, <1>3, <2>2, <2>3 DEF PassedIn
  <2>4. CASE i = idx
    <3>1. j # idx
      BY <1>6, <2>1, <2>4, PslFacts
    <3>2. pool[j] = new[j] /\ j \in UsedIn(pool)
      BY <1>2, <1>3, <2>1, <3>1
    <3>3. /\ getPsl(idx, k) \in Int /\ getPsl(j, k) \in Int /\ getPsl(n, k) \in Int
          /\ getPsl(j, k) < maxCapacity
          /\ getPsl(n, k) = IF getPsl(idx, k) = maxCapacity - 1 THEN 0 ELSE getPsl(idx, k) + 1
      BY <1>1, <2>1, PslFacts
    <3>4. getPsl(idx, k) < getPsl(j, k)
      BY <1>6, <2>4
    <3>5. getPsl(n, k) = getPsl(idx, k) + 1 /\ getPsl(n, k) <= getPsl(j, k)
      BY TableAssumption, <3>3, <3>4
    <3>6. CASE getPsl(n, k) = getPsl(j, k)
      <4>1. n = j
        BY <1>1, <2>1, <3>6, PslFacts
      <4> QED BY <1>2, <1>3, <1>4, <2>4, <3>2, <3>5, <4>1 DEF PassedIn
    <3>7. CASE getPsl(n, k) < getPsl(j, k)
      <4>1. PassedIn(pool, n, k)
        BY <1>1, <3>2, <3>7 DEF Paths
      <4>2. getPsl(idx, e.key) >= getPsl(idx, k)
        BY <1>4, <3>3, <3>5, <4>1 DEF PassedIn
      <4> QED BY <1>2, <1>3, <2>4, <4>2 DEF PassedIn
    <3> QED BY <3>3, <3>5, <3>6, <3>7
  <2> QED BY <2>3, <2>4
<1> QED BY <1>5, <1>6 DEF Paths, new

\* The hole is emptied where the next entry, if any, is in its own slot: line 66.
LEMMA PathsAfterErase ==
    ASSUME hash \in [Keys -> Slots], NEW pool \in Pools, Paths(pool), NEW idx \in Slots,
           \/ Following(idx) \notin UsedIn(pool)
           \/ getPsl(Following(idx), pool[Following(idx)].key) = 0
    PROVE  Paths([pool EXCEPT ![idx] = Empty])
<1> DEFINE n == Following(idx)
           new == [pool EXCEPT ![idx] = Empty]
<1>1. new \in Pools /\ new[idx] = Empty /\ \A i \in Slots : i # idx => new[i] = pool[i]
  BY DEF Pools
<1>2. UsedIn(new) = UsedIn(pool) \ {idx} /\ n \in Slots
  BY <1>1, EntryFacts, RingFacts DEF UsedIn
<1> HIDE DEF new
<1> SUFFICES ASSUME NEW j \in UsedIn(new), NEW i \in Slots,
                    getPsl(i, new[j].key) < getPsl(j, new[j].key)
             PROVE  PassedIn(new, i, new[j].key)
  BY DEF Paths, new
<1> DEFINE k == new[j].key
<1>3. j \in Slots /\ j # idx /\ pool[j] = new[j] /\ j \in UsedIn(pool) /\ k \in Keys
  BY <1>1, <1>2, EntryFacts DEF UsedIn
<1>4. PassedIn(pool, i, k)
  BY <1>3 DEF Paths
<1>5. i # idx
  <2> SUFFICES ASSUME i = idx PROVE FALSE
    OBVIOUS
  <2>1. /\ getPsl(idx, k) \in Int /\ getPsl(j, k) \in Int /\ getPsl(n, k) \in Int
        /\ getPsl(j, k) < maxCapacity /\ getPsl(idx, k) >= 0
        /\ getPsl(n, k) = IF getPsl(idx, k) = maxCapacity - 1 THEN 0 ELSE getPsl(idx, k) + 1
    BY <1>2, <1>3, PslFacts
  <2>2. getPsl(n, k) = getPsl(idx, k) + 1 /\ getPsl(n, k) <= getPsl(j, k) /\ getPsl(n, k) > 0
    BY TableAssumption, <2>1
  <2>3. CASE getPsl(n, k) = getPsl(j, k)
    <3>1. n = j
      BY <1>2, <1>3, <2>3, PslFacts
    <3> QED BY <1>3, <2>2, <3>1
  <2>4. CASE getPsl(n, k) < getPsl(j, k)
    <3>1. PassedIn(pool, n, k)
      BY <1>2, <1>3, <2>4 DEF Paths
    <3> QED BY <2>1, <2>2, <3>1 DEF PassedIn
  <2> QED BY <2>1, <2>2, <2>3, <2>4
<1> QED BY <1>1, <1>2, <1>4, <1>5 DEF PassedIn

-----------------------------------------------------------------------------
(* Free slots                                                              *)

LEMMA SlotsAreFinite ==
    /\ IsFiniteSet(Slots) /\ Cardinality(Slots) = maxCapacity
    /\ \A S \in SUBSET Slots : IsFiniteSet(S) /\ Cardinality(S) \in Nat
<1>1. IsFiniteSet(Slots) /\ Cardinality(Slots) = maxCapacity
  <2>1. maxCapacity \in Nat /\ maxCapacity > 0
    BY TableAssumption
  <2> QED BY <2>1, FS_Interval DEF Slots
<1> QED BY <1>1, FS_Subset, FS_CardinalityType

\* A table that is not full has a free slot.
LEMMA FreeSlot ==
    ASSUME NEW S \in SUBSET Slots, Cardinality(S) < maxCapacity
    PROVE  S # Slots
  BY SlotsAreFinite, TableAssumption
-----------------------------------------------------------------------------
(* The steps of the calls                                                  *)

\* What a call under way looks like.
LEMMA CallFacts ==
    ASSUME TypeOK
    PROVE  /\ call.at = "insert" => call \in InsertCalls
           /\ call.at = "remove" => call \in RemoveCalls
           /\ call.at = "shift" => call \in ShiftCalls
           /\ call.at = "idle" => call = Idle
           /\ call = Idle => call.at = "idle"
  BY DEF TypeOK, InsertCalls, RemoveCalls, ShiftCalls, Idle

LEMMA InitInv == Init => IInv
<1> SUFFICES ASSUME Init PROVE IInv
  OBVIOUS
<1>1. \A i \in Slots : isEmpty(memoryPool[i])
  BY DEF Init, isEmpty, Empty
<1>2. Used = {}
  BY <1>1 DEF Used, UsedIn
<1>3. TypeOK
  BY DEF Init, TypeOK, Pools
<1>4. PathInv
  BY <1>2 DEF PathInv, Paths, Used
<1>5. call.at = "idle"
  BY DEF Init, Idle
<1>6. Hole = {} /\ InHand = {} /\ Held = {}
  BY <1>2, <1>5 DEF Hole, InHand, Held
<1>7. InsertInv /\ RemoveInv
  BY <1>5 DEF InsertInv, RemoveInv
<1>8. StoredInv
  BY <1>2, <1>6, FS_EmptySet DEF Init, StoredInv
<1> QED BY <1>3, <1>4, <1>7, <1>8 DEF IInv

LEMMA InsertStep == IInv /\ Insert => IInv'
<1> SUFFICES ASSUME IInv, Insert PROVE IInv'
  OBVIOUS
<1>1. PICK e \in Entries \ stored :
        /\ call' = [at |-> "insert", idx |-> hash[e.key], deltaIdx |-> 0,
                    currData |-> e, currPsl |-> 0]
        /\ stored' = stored \cup {e}
  BY DEF Insert
<1>2. hash' = hash /\ memoryPool' = memoryPool /\ currCapacity' = currCapacity
  BY DEF Insert
<1>3. call.at = "idle" /\ currCapacity < maxCapacity
  BY DEF Insert, Idle
<1>4. Used' = Used
  BY <1>2 DEF Used, UsedIn
<1>5. Used \in SUBSET Slots
  BY DEF Used, UsedIn
<1>6. hash \in [Keys -> Slots] /\ memoryPool \in Pools /\ e.key \in Keys /\ hash[e.key] \in Slots
  BY DEF IInv, TypeOK, Entries
<1>7. TypeOK'
  <2>1. call' \in InsertCalls
    BY <1>1, <1>6, PslFacts DEF InsertCalls
  <2> QED BY <1>1, <1>2, <1>6, <2>1 DEF IInv, TypeOK
<1>8. PathInv'
  BY <1>2 DEF IInv, PathInv, Paths, PassedIn, UsedIn, getPsl
<1>9. InsertInv'
  <2>1. getPsl(hash[e.key], e.key) = 0 /\ \A i \in Slots : ~(getPsl(i, e.key) < 0)
    BY <1>6, PslFacts
  <2>2. \A i \in Slots : Dist(hash[e.key], i) < maxCapacity - 0
    <3>1. \A i \in Slots : Dist(hash[e.key], i) \in Slots
      BY <1>6, RingFacts
    <3> HIDE DEF Dist
    <3> QED BY <3>1, TableAssumption DEF Slots
  <2>3. Used # Slots
    BY <1>3, <1>5, FreeSlot DEF IInv, StoredInv
  <2>4. \A i, k : getPsl(i, k)' = getPsl(i, k)
    BY <1>2 DEF getPsl
  <2>5. 0 \in Nat /\ 0 < maxCapacity
    BY TableAssumption
  <2> QED BY <1>1, <1>2, <1>4, <2>1, <2>2, <2>3, <2>5 DEF InsertInv, getPsl, PassedIn
<1>10. RemoveInv'
  BY <1>1 DEF RemoveInv
<1>11. StoredInv'
  <2>1. Hole = {} /\ InHand = {} /\ Hole' = {} /\ InHand' = {e}
    BY <1>1, <1>3 DEF Hole, InHand
  <2>2. Held' = Held
    BY <1>2, <1>4, <2>1 DEF Held
  <2> QED BY <1>1, <1>2, <1>4, <2>1, <2>2 DEF IInv, StoredInv
<1> QED BY <1>7, <1>8, <1>9, <1>10, <1>11 DEF IInv

LEMMA PlaceStep == IInv /\ Place => IInv'
<1> SUFFICES ASSUME IInv, Place PROVE IInv'
  OBVIOUS
<1> DEFINE idx == call.idx
           e == call.currData
<1>1. /\ call.at = "insert" /\ isEmpty(memoryPool[idx])
      /\ memoryPool' = [memoryPool EXCEPT ![idx] = e]
      /\ currCapacity' = currCapacity + 1
      /\ call' = Idle /\ call'.at = "idle"
      /\ hash' = hash /\ stored' = stored
  BY DEF Place, Idle
<1>2. /\ hash \in [Keys -> Slots] /\ memoryPool \in Pools /\ idx \in Slots /\ e \in Entries
      /\ call.currPsl = getPsl(idx, e.key)
      /\ \A i \in Slots : getPsl(i, e.key) < call.currPsl => PassedIn(memoryPool, i, e.key)
  BY <1>1, CallFacts DEF IInv, TypeOK, InsertInv, InsertCalls
<1>3. idx \notin Used
  BY <1>1 DEF Used, UsedIn
<1>4. Paths(memoryPool')
  <2>1. idx \notin UsedIn(memoryPool) /\ Paths(memoryPool)
    BY <1>3 DEF Used, IInv, PathInv
  <2> QED BY <1>1, <1>2, <2>1, PathsAfterPut
<1>5. PathInv'
  BY <1>1, <1>4 DEF PathInv, Paths, PassedIn, UsedIn, getPsl
<1>6. TypeOK'
  BY <1>1, <1>2 DEF IInv, TypeOK, Pools
<1>7. Used' = Used \cup {idx} /\ (\A i \in Used : memoryPool'[i] = memoryPool[i]) /\ memoryPool'[idx] = e
  BY <1>1, <1>2, <1>3, EntryFacts DEF Used, UsedIn, Pools
<1>8. StoredInv'
  <2>1. Hole = {} /\ Hole' = {} /\ InHand = {e} /\ InHand' = {}
    BY <1>1 DEF Hole, InHand
  <2>2. Held' = Held \cup {e}
    BY <1>3, <1>7, <2>1 DEF Held
  <2>3. e \notin Held
    BY <2>1 DEF IInv, StoredInv
  <2>4. \A i, j \in Used' : memoryPool'[i] = memoryPool'[j] => i = j
    <3>1. \A i, j \in Used : memoryPool[i] = memoryPool[j] => i = j
      BY <2>1 DEF IInv, StoredInv
    <3>2. \A i \in Used : memoryPool[i] # e
      BY <2>1, <2>3 DEF Held
    <3> QED BY <1>3, <1>7, <3>1, <3>2
  <2>5. currCapacity' = Cardinality(Used')
    <3>1. Used \in SUBSET Slots
      BY DEF Used, UsedIn
    <3>2. Cardinality(Used \cup {idx}) = Cardinality(Used) + 1
      BY <1>3, <3>1, SlotsAreFinite, FS_AddElement
    <3> QED BY <1>1, <1>7, <3>2 DEF IInv, StoredInv
  <2>6. stored' = Held' \cup InHand'
    BY <1>1, <2>1, <2>2 DEF IInv, StoredInv
  <2> QED BY <2>1, <2>4, <2>5, <2>6 DEF StoredInv
<1>9. InsertInv' /\ RemoveInv'
  BY <1>1 DEF InsertInv, RemoveInv
<1> QED BY <1>5, <1>6, <1>8, <1>9 DEF IInv

\* A probe passes the slot or takes it; either way the entry in the hand has
\* been let pass by every slot up to it, and not all slots are taken.
LEMMA ProbeStep == IInv /\ Probe => IInv'
<1> SUFFICES ASSUME IInv, Probe PROVE IInv'
  OBVIOUS
<1> DEFINE idx == call.idx
           e == call.currData
           old == memoryPool[idx]
           comparePsl == getPsl(idx, old.key)
           swaps == call.currPsl > comparePsl
           hand == IF swaps THEN old ELSE e
           psl == IF swaps THEN comparePsl ELSE call.currPsl
           n == Following(idx)
<1>1. /\ call.at = "insert" /\ ~isEmpty(old)
      /\ memoryPool' = IF swaps THEN [memoryPool EXCEPT ![idx] = e] ELSE memoryPool
      /\ call' = [call EXCEPT !.idx = n, !.deltaIdx = call.deltaIdx + 1,
                              !.currData = hand, !.currPsl = 1 + psl]
      /\ hash' = hash /\ stored' = stored /\ currCapacity' = currCapacity
  BY DEF Probe
<1>2. /\ hash \in [Keys -> Slots] /\ memoryPool \in Pools /\ idx \in Slots /\ e \in Entries
      /\ call.currPsl = getPsl(idx, e.key)
      /\ \A i \in Slots : getPsl(i, e.key) < call.currPsl => PassedIn(memoryPool, i, e.key)
      /\ call.deltaIdx \in Nat /\ call.deltaIdx < maxCapacity
      /\ \A i \in Slots \ Used : Dist(call.idx, i) < maxCapacity - call.deltaIdx
      /\ Used # Slots
  BY <1>1, CallFacts DEF IInv, TypeOK, InsertInv, InsertCalls
<1>3. idx \in Used /\ old \in Entries /\ old.key \in Keys /\ e.key \in Keys
  <2>1. idx \in UsedIn(memoryPool)
    BY <1>1, <1>2 DEF UsedIn
  <2> QED BY <1>2, <2>1, EntryFacts DEF Used
<1>4. /\ call'.at = "insert" /\ call'.idx = n /\ call'.deltaIdx = call.deltaIdx + 1
      /\ call'.currData = hand /\ call'.currPsl = 1 + psl
      /\ call' = [at |-> "insert", idx |-> n, deltaIdx |-> call.deltaIdx + 1,
                  currData |-> hand, currPsl |-> 1 + psl]
  <2>1. call \in InsertCalls
    BY <1>1, CallFacts DEF IInv
  <2> QED BY <1>1, <2>1 DEF InsertCalls
<1>5. /\ comparePsl \in Int /\ comparePsl >= 0 /\ comparePsl < maxCapacity
      /\ call.currPsl \in Int /\ call.currPsl >= 0 /\ call.currPsl < maxCapacity
      /\ n \in Slots
  BY <1>2, <1>3, PslFacts
<1>6. /\ hand \in Entries /\ hand.key \in Keys /\ psl = getPsl(idx, hand.key)
      /\ psl \in Int /\ psl >= 0 /\ psl < maxCapacity
  BY <1>2, <1>3, <1>5
\* The slots before idx, and idx itself once it is written, let the hand pass.
<1>7. \A i \in Slots : getPsl(i, hand.key) < psl => PassedIn(memoryPool, i, hand.key)
  <2>1. CASE swaps
    <3>1. idx \in UsedIn(memoryPool) /\ Paths(memoryPool)
      BY <1>3 DEF Used, IInv, PathInv
    <3> QED BY <2>1, <3>1 DEF Paths
  <2>2. CASE ~swaps
    BY <1>2, <2>2
  <2> QED BY <2>1, <2>2
<1>8. Paths(memoryPool') /\ memoryPool' \in Pools
  <2>1. Paths(memoryPool)
    BY DEF IInv, PathInv
  <2>2. CASE swaps
    <3>1. Paths([memoryPool EXCEPT ![idx] = e])
      BY <1>2, <2>1, <2>2, PathsAfterPut
    <3> QED BY <1>1, <1>2, <2>2, <3>1 DEF Pools
  <2>3. CASE ~swaps
    BY <1>1, <1>2, <2>1, <2>3
  <2> QED BY <2>2, <2>3
<1>9. /\ memoryPool'[idx] = (IF swaps THEN e ELSE old)
      /\ \A i \in Slots : i # idx => memoryPool'[i] = memoryPool[i]
      /\ Used' = Used
  <2>1. memoryPool'[idx] = (IF swaps THEN e ELSE old)
    BY <1>1, <1>2 DEF Pools
  <2>2. \A i \in Slots : i # idx => memoryPool'[i] = memoryPool[i]
    BY <1>1, <1>2 DEF Pools
  <2>3. ~isEmpty(memoryPool'[idx])
    BY <1>1, <1>2, <2>1, EntryFacts
  <2> QED BY <1>3, <2>1, <2>2, <2>3 DEF Used, UsedIn
<1>10. \A i \in Slots : getPsl(i, hand.key) < 1 + psl => PassedIn(memoryPool', i, hand.key)
  <2> SUFFICES ASSUME NEW i \in Slots, getPsl(i, hand.key) < 1 + psl
               PROVE  PassedIn(memoryPool', i, hand.key)
    OBVIOUS
  <2>1. CASE i = idx
    <3>1. getPsl(idx, memoryPool'[idx].key) >= psl
      BY <1>2, <1>5, <1>9
    <3> QED BY <1>3, <1>6, <1>9, <2>1, <3>1 DEF PassedIn, Used
  <2>2. CASE i # idx
    <3>1. getPsl(i, hand.key) # psl
      BY <1>2, <1>6, <2>2, PslFacts
    <3>2. getPsl(i, hand.key) \in Int
      BY <1>2, <1>6, PslFacts
    <3>3. PassedIn(memoryPool, i, hand.key)
      BY <1>6, <1>7, <3>1, <3>2
    <3> QED BY <1>9, <2>2, <3>3 DEF PassedIn, Used
  <2> QED BY <2>1, <2>2
\* The hand has not been all the way round.
<1>11. 1 + psl = getPsl(n, hand.key)
  <2>1. getPsl(n, hand.key) = IF psl = maxCapacity - 1 THEN 0 ELSE psl + 1
    BY <1>2, <1>6, PslFacts
  <2>2. psl # maxCapacity - 1
    <3> SUFFICES ASSUME psl = maxCapacity - 1 PROVE FALSE
      OBVIOUS
    <3>1. \A i \in Slots : getPsl(i, hand.key) < 1 + psl
      BY <1>2, <1>6, PslFacts, TableAssumption
    <3>2. \A i \in Slots : i \in Used
      BY <1>9, <1>10, <3>1 DEF PassedIn, Used
    <3> QED BY <1>2, <3>2 DEF Used, UsedIn
  <2> QED BY <1>6, <2>1, <2>2
<1>12. /\ call.deltaIdx + 1 < maxCapacity
       /\ \A i \in Slots \ Used : Dist(n, i) < maxCapacity - (call.deltaIdx + 1)
  <2>1. ASSUME NEW i \in Slots \ Used
        PROVE  /\ Dist(n, i) < maxCapacity - (call.deltaIdx + 1)
               /\ Dist(n, i) >= 0 /\ Dist(n, i) \in Int
    <3>1. idx # i
      BY <1>3
    <3>2. Dist(n, i) = Dist(idx, i) - 1 /\ Dist(idx, i) \in Slots /\ Dist(n, i) \in Slots
      BY <1>2, <1>5, <3>1, RingFacts
    <3>3. Dist(idx, i) < maxCapacity - call.deltaIdx
      BY <1>2
    <3> HIDE DEF Dist, n
    <3> QED BY <1>2, <3>2, <3>3, TableAssumption DEF Slots
  <2>2. PICK i \in Slots : i \notin Used
    BY <1>2 DEF Used, UsedIn
  <2>3. call.deltaIdx + 1 < maxCapacity
    <3>1. call.deltaIdx \in Nat /\ maxCapacity \in Nat
      BY <1>2, TableAssumption
    <3>2. /\ Dist(n, i) < maxCapacity - (call.deltaIdx + 1)
          /\ Dist(n, i) >= 0 /\ Dist(n, i) \in Int
      BY <2>1, <2>2
    <3> HIDE DEF Dist, n
    <3> QED BY <3>1, <3>2
  <2> QED BY <2>1, <2>3
<1>13. TypeOK'
  <2>1. call' \in InsertCalls
    <3>1. call.deltaIdx + 1 \in Nat /\ 1 + psl \in Nat
      BY <1>2, <1>6
    <3> HIDE DEF hand, psl, n
    <3> QED BY <1>4, <1>5, <1>6, <3>1 DEF InsertCalls
  <2> QED BY <1>1, <1>2, <1>8, <2>1 DEF IInv, TypeOK
<1>14. PathInv'
  BY <1>1, <1>8 DEF PathInv, Paths, PassedIn, UsedIn, getPsl
<1>15. InsertInv'
  <2> HIDE DEF hand, psl, n, idx, e, old, comparePsl, swaps
  <2>1. (call.currPsl = getPsl(call.idx, call.currData.key))'
    BY <1>1, <1>4, <1>11 DEF getPsl
  <2>2. \A i \in Slots : getPsl(i, call'.currData.key) < call'.currPsl
                           => PassedIn(memoryPool', i, call'.currData.key)
    BY <1>4, <1>10
  <2>3. (\A i \in Slots : getPsl(i, call.currData.key) < call.currPsl
                            => PassedIn(memoryPool, i, call.currData.key))'
    BY <1>1, <2>2 DEF PassedIn, UsedIn, getPsl
  <2>4. call'.deltaIdx < maxCapacity
    BY <1>4, <1>12
  <2>5. \A i \in Slots \ Used' : Dist(call'.idx, i) < maxCapacity - call'.deltaIdx
    BY <1>4, <1>9, <1>12
  <2> QED BY <1>2, <1>9, <2>1, <2>3, <2>4, <2>5 DEF InsertInv
<1>16. RemoveInv'
  BY <1>4 DEF RemoveInv
<1>17. StoredInv'
  <2>1. Hole = {} /\ Hole' = {} /\ InHand = {e} /\ InHand' = {hand}
    BY <1>1, <1>4 DEF Hole, InHand
  <2>2. /\ \A i, j \in Used : memoryPool[i] = memoryPool[j] => i = j
        /\ Held = {memoryPool[i] : i \in Used}
        /\ stored = Held \cup {e} /\ e \notin Held
    BY <2>1 DEF IInv, StoredInv, Held
  <2>3. Held' = {memoryPool'[i] : i \in Used}
    BY <1>9, <2>1 DEF Held
  <2>4. Used \subseteq Slots
    BY DEF Used, UsedIn
  <2>5. CASE swaps
    <3>1. memoryPool'[idx] = e /\ hand = old
      BY <1>9, <2>5
    <3>2. \A i, j \in Used : memoryPool'[i] = memoryPool'[j] => i = j
      BY <1>9, <2>2, <2>4, <3>1
    <3>3. Held' = (Held \ {old}) \cup {e}
      BY <1>3, <1>9, <2>2, <2>3, <2>4, <3>1
    <3>4. old \in Held /\ old # e
      BY <1>3, <2>2
    <3>5. stored' = Held' \cup InHand' /\ Held' \cap InHand' = {}
      BY <1>1, <2>1, <2>2, <3>1, <3>3, <3>4
    <3>6. currCapacity' = Cardinality(Used')
      BY <1>1, <1>9 DEF IInv, StoredInv
    <3> QED BY <1>9, <2>1, <3>2, <3>5, <3>6 DEF StoredInv
  <2>6. CASE ~swaps
    <3>1. memoryPool' = memoryPool /\ hand = e /\ Held' = Held
      BY <1>1, <2>2, <2>3, <2>6
    <3>2. currCapacity' = Cardinality(Used')
      BY <1>1, <1>9 DEF IInv, StoredInv
    <3> QED BY <1>1, <1>9, <2>1, <2>2, <3>1, <3>2 DEF StoredInv
  <2> QED BY <2>5, <2>6
<1> QED BY <1>13, <1>14, <1>15, <1>16, <1>17 DEF IInv

LEMMA RemoveStep == IInv /\ Remove => IInv'
<1> SUFFICES ASSUME IInv, Remove PROVE IInv'
  OBVIOUS
<1>1. PICK key \in Keys :
        call' = [at |-> "remove", idx |-> hash[key], deltaIdx |-> 0, key |-> key]
  BY DEF Remove
<1>2. UNCHANGED <<hash, memoryPool, currCapacity, stored>> /\ call.at = "idle"
  BY DEF Remove, Idle
<1>3. hash[key] \in Slots /\ hash \in [Keys -> Slots]
  BY DEF IInv, TypeOK
<1>4. TypeOK'
  <2>1. call' \in RemoveCalls
    BY <1>1, <1>3, TableAssumption DEF RemoveCalls
  <2> QED BY <1>2, <2>1 DEF IInv, TypeOK
<1>5. RemoveInv'
  <2>1. 0 = getPsl(hash[key], key) /\ \A i \in Slots : ~(getPsl(i, key) < 0)
    BY <1>3, PslFacts
  <2> QED BY <1>1, <1>2, <2>1 DEF RemoveInv, getPsl
<1>6. PathInv'
  BY <1>2 DEF IInv, PathInv, Paths, PassedIn, UsedIn, getPsl
<1>7. InsertInv'
  BY <1>1 DEF InsertInv
<1>8. StoredInv'
  BY <1>1, <1>2 DEF IInv, StoredInv, Held, Hole, InHand, Used, UsedIn
<1> QED BY <1>4, <1>5, <1>6, <1>7, <1>8 DEF IInv

LEMMA FoundStep == IInv /\ Found => IInv'
<1> SUFFICES ASSUME IInv, Found PROVE IInv'
  OBVIOUS
<1> DEFINE idx == call.idx
<1>1. /\ call.at = "remove" /\ memoryPool[idx].key = call.key
      /\ call' = [at |-> "shift", idx |-> idx]
      /\ stored' = stored \ {memoryPool[idx]}
      /\ UNCHANGED <<hash, memoryPool, currCapacity>>
  BY DEF Found, Searching
<1>2. idx \in Slots /\ call.key \in Keys
  BY <1>1, CallFacts DEF IInv, RemoveCalls
<1>3. idx \in Used
  BY <1>1, <1>2, TableAssumption DEF Used, UsedIn, isEmpty
<1>4. TypeOK'
  <2>1. call' \in ShiftCalls
    BY <1>1, <1>2 DEF ShiftCalls
  <2> QED BY <1>1, <2>1 DEF IInv, TypeOK
<1>5. PathInv'
  BY <1>1 DEF IInv, PathInv, Paths, PassedIn, UsedIn, getPsl
<1>6. InsertInv' /\ RemoveInv'
  BY <1>1 DEF InsertInv, RemoveInv
<1>7. StoredInv'
  <2>1. Hole = {} /\ InHand = {} /\ Hole' = {idx} /\ InHand' = {} /\ Used' = Used
    BY <1>1 DEF Hole, InHand, Used, UsedIn
  <2>2. \A i, j \in Used : memoryPool[i] = memoryPool[j] => i = j
    BY <2>1 DEF IInv, StoredInv
  <2>3. Held' = Held \ {memoryPool[idx]}
    <3>1. Held = {memoryPool[i] : i \in Used} /\ Held' = {memoryPool[i] : i \in Used \ {idx}}
      BY <1>1, <2>1 DEF Held
    <3> QED BY <1>3, <2>2, <3>1
  <2> QED BY <1>1, <1>3, <2>1, <2>2, <2>3 DEF IInv, StoredInv
<1> QED BY <1>4, <1>5, <1>6, <1>7 DEF IInv

LEMMA SearchOnStep == IInv /\ SearchOn => IInv'
<1> SUFFICES ASSUME IInv, SearchOn PROVE IInv'
  OBVIOUS
<1> DEFINE idx == call.idx
           n == Following(idx)
<1>1. /\ call.at = "remove" /\ call.deltaIdx < maxCapacity
      /\ memoryPool[idx].key \notin {call.key, NoKey}
      /\ call' = [call EXCEPT !.idx = n, !.deltaIdx = call.deltaIdx + 1]
      /\ UNCHANGED <<hash, memoryPool, currCapacity, stored>>
  BY DEF SearchOn, Searching
<1>2. call \in RemoveCalls /\ idx \in Slots /\ call.key \in Keys
  BY <1>1, CallFacts DEF IInv, RemoveCalls
<1>3. call' = [at |-> "remove", idx |-> n, deltaIdx |-> call.deltaIdx + 1, key |-> call.key]
  BY <1>1, <1>2 DEF RemoveCalls
<1>4. hash \in [Keys -> Slots] /\ n \in Slots
  BY <1>2, RingFacts DEF IInv, TypeOK
<1>5. call.deltaIdx \in Nat /\ call.deltaIdx + 1 \in 0 .. maxCapacity
  BY <1>1, <1>2, TableAssumption DEF RemoveCalls
<1>6. TypeOK'
  <2>1. call' \in RemoveCalls
    BY <1>2, <1>3, <1>4, <1>5 DEF RemoveCalls
  <2> QED BY <1>1, <2>1 DEF IInv, TypeOK
<1>7. RemoveInv'
  <2>1. /\ call.deltaIdx = getPsl(idx, call.key)
        /\ \A i \in Slots : getPsl(i, call.key) < call.deltaIdx
                              => i \in Used /\ memoryPool[i].key # call.key
    BY <1>1 DEF IInv, RemoveInv
  <2>2. call.deltaIdx + 1 < maxCapacity => call.deltaIdx + 1 = getPsl(n, call.key)
    BY <1>2, <1>4, <1>5, <2>1, PslFacts, TableAssumption
  <2>3. ASSUME NEW i \in Slots, getPsl(i, call.key) < call.deltaIdx + 1
        PROVE  i \in Used /\ memoryPool[i].key # call.key
    <3>1. getPsl(i, call.key) \in Int
      BY <1>2, <1>4, PslFacts
    <3>2. CASE getPsl(i, call.key) = call.deltaIdx
      <4>1. i = idx
        BY <1>2, <1>4, <2>1, <3>2, PslFacts
      <4> QED BY <1>1, <1>2, <4>1 DEF Used, UsedIn, isEmpty
    <3>3. CASE getPsl(i, call.key) < call.deltaIdx
      BY <2>1, <3>3
    <3> QED BY <1>5, <2>3, <3>1, <3>2, <3>3
  <2> HIDE DEF n, idx
  <2> QED BY <1>1, <1>3, <2>2, <2>3 DEF RemoveInv, getPsl, Used, UsedIn
<1>8. PathInv'
  BY <1>1 DEF IInv, PathInv, Paths, PassedIn, UsedIn, getPsl
<1>9. InsertInv'
  BY <1>3 DEF InsertInv
<1>10. StoredInv'
  BY <1>1, <1>3 DEF IInv, StoredInv, Held, Hole, InHand, Used, UsedIn
<1> QED BY <1>6, <1>7, <1>8, <1>9, <1>10 DEF IInv

LEMMA KeyNotFoundStep == IInv /\ KeyNotFound => IInv'
<1> SUFFICES ASSUME IInv, KeyNotFound PROVE IInv'
  OBVIOUS
<1>1. /\ call.at = "remove" /\ call' = Idle /\ call'.at = "idle"
      /\ UNCHANGED <<hash, memoryPool, currCapacity, stored>>
  BY DEF KeyNotFound, Searching, Idle
<1>2. TypeOK'
  BY <1>1 DEF IInv, TypeOK
<1>3. PathInv'
  BY <1>1 DEF IInv, PathInv, Paths, PassedIn, UsedIn, getPsl
<1>4. InsertInv' /\ RemoveInv'
  BY <1>1 DEF InsertInv, RemoveInv
<1>5. StoredInv'
  BY <1>1 DEF IInv, StoredInv, Held, Hole, InHand, Used, UsedIn
<1> QED BY <1>2, <1>3, <1>4, <1>5 DEF IInv

LEMMA ShiftStep == IInv /\ Shift => IInv'
<1> SUFFICES ASSUME IInv, Shift PROVE IInv'
  OBVIOUS
<1> DEFINE idx == call.idx
           n == Following(idx)
           e == memoryPool[n]
<1>1. /\ call.at = "shift" /\ ~isEmpty(e) /\ getPsl(n, e.key) > 0
      /\ memoryPool' = [memoryPool EXCEPT ![idx] = e]
      /\ call' = [call EXCEPT !.idx = n]
      /\ UNCHANGED <<hash, currCapacity, stored>>
  BY DEF Shift, Shifts
<1>2. call \in ShiftCalls /\ idx \in Slots /\ n \in Slots
  BY <1>1, CallFacts, RingFacts DEF IInv, ShiftCalls
<1>3. call' = [at |-> "shift", idx |-> n]
  BY <1>1, <1>2 DEF ShiftCalls
<1>4. hash \in [Keys -> Slots] /\ memoryPool \in Pools /\ Hole = {idx} /\ idx \in Used
  BY <1>1 DEF IInv, TypeOK, StoredInv, Hole
<1>5. n \in Used /\ e \in Entries
  <2>1. n \in UsedIn(memoryPool)
    BY <1>1, <1>2 DEF UsedIn
  <2> QED BY <1>4, <2>1, EntryFacts DEF Used
<1>6. Paths(memoryPool') /\ n # idx
  <2>1. Paths(memoryPool) /\ idx \in UsedIn(memoryPool) /\ n \in UsedIn(memoryPool)
    BY <1>4, <1>5 DEF IInv, PathInv, Used
  <2> QED BY <1>1, <1>4, <2>1, PathsAfterShift
<1>7. /\ memoryPool' \in Pools /\ memoryPool'[idx] = e
      /\ \A i \in Slots : i # idx => memoryPool'[i] = memoryPool[i]
  BY <1>1, <1>2, <1>4, <1>5 DEF Pools
<1>8. Used' = Used
  BY <1>2, <1>4, <1>5, <1>7, EntryFacts DEF Used, UsedIn
<1>9. TypeOK'
  <2>1. call' \in ShiftCalls
    BY <1>2, <1>3 DEF ShiftCalls
  <2> QED BY <1>1, <1>4, <1>7, <2>1 DEF IInv, TypeOK
<1>10. PathInv'
  BY <1>1, <1>6 DEF PathInv, Paths, PassedIn, UsedIn, getPsl
<1>11. InsertInv' /\ RemoveInv'
  BY <1>3 DEF InsertInv, RemoveInv
<1>12. StoredInv'
  <2>1. InHand = {} /\ InHand' = {} /\ Hole' = {n}
    BY <1>1, <1>3 DEF InHand, Hole
  <2>2. Used \subseteq Slots
    BY DEF Used, UsedIn
  <2>3. \A i, j \in Used \ {idx} : memoryPool[i] = memoryPool[j] => i = j
    BY <1>4 DEF IInv, StoredInv
  <2>4. \A i, j \in Used \ {n} : memoryPool'[i] = memoryPool'[j] => i = j
    BY <1>4, <1>5, <1>6, <1>7, <2>2, <2>3
  <2>5. Held' = Held
    <3>1. Held = {memoryPool[i] : i \in Used \ {idx}} /\ Held' = {memoryPool'[i] : i \in Used \ {n}}
      BY <1>4, <1>8, <2>1 DEF Held
    <3>2. ASSUME NEW i \in Used \ {idx} PROVE \E j \in Used \ {n} : memoryPool'[j] = memoryPool[i]
      <4>1. CASE i = n
        BY <1>4, <1>6, <1>7, <4>1
      <4>2. CASE i # n
        BY <1>7, <2>2, <4>2
      <4> QED BY <4>1, <4>2
    <3>3. ASSUME NEW j \in Used \ {n} PROVE \E i \in Used \ {idx} : memoryPool'[j] = memoryPool[i]
      <4>1. CASE j = idx
        BY <1>5, <1>6, <1>7, <4>1
      <4>2. CASE j # idx
        BY <1>7, <2>2, <4>2
      <4> QED BY <4>1, <4>2
    <3> QED BY <3>1, <3>2, <3>3
  <2> HIDE DEF n, idx
  <2> QED BY <1>1, <1>5, <1>8, <2>1, <2>4, <2>5 DEF IInv, StoredInv
<1> QED BY <1>9, <1>10, <1>11, <1>12 DEF IInv

LEMMA EraseStep == IInv /\ Erase => IInv'
<1> SUFFICES ASSUME IInv, Erase PROVE IInv'
  OBVIOUS
<1> DEFINE idx == call.idx
           n == Following(idx)
<1>1. /\ call.at = "shift" /\ ~Shifts(n)
      /\ memoryPool' = [memoryPool EXCEPT ![idx] = Empty]
      /\ currCapacity' = currCapacity - 1
      /\ call' = Idle /\ call'.at = "idle"
      /\ UNCHANGED <<hash, stored>>
  BY DEF Erase, Idle
<1>2. idx \in Slots /\ n \in Slots
  BY <1>1, CallFacts, RingFacts DEF IInv, ShiftCalls
<1>3. hash \in [Keys -> Slots] /\ memoryPool \in Pools /\ Hole = {idx} /\ idx \in Used
  BY <1>1 DEF IInv, TypeOK, StoredInv, Hole
<1>4. n \notin UsedIn(memoryPool) \/ getPsl(n, memoryPool[n].key) = 0
  <2>1. n \in UsedIn(memoryPool) => getPsl(n, memoryPool[n].key) \in Int /\ getPsl(n, memoryPool[n].key) >= 0
    BY <1>2, <1>3, EntryFacts, PslFacts
  <2> QED BY <1>1, <2>1 DEF Shifts, UsedIn
<1>5. Paths(memoryPool')
  <2>1. Paths(memoryPool)
    BY DEF IInv, PathInv
  <2> QED BY <1>1, <1>2, <1>3, <1>4, <2>1, PathsAfterErase
<1>6. /\ memoryPool' \in Pools /\ memoryPool'[idx] = Empty
      /\ \A i \in Slots : i # idx => memoryPool'[i] = memoryPool[i]
  BY <1>1, <1>2, <1>3 DEF Pools
<1>7. Used' = Used \ {idx}
  BY <1>2, <1>3, <1>6, EntryFacts DEF Used, UsedIn
<1>8. TypeOK'
  BY <1>1, <1>3, <1>6 DEF IInv, TypeOK
<1>9. PathInv'
  BY <1>1, <1>5 DEF PathInv, Paths, PassedIn, UsedIn, getPsl
<1>10. InsertInv' /\ RemoveInv'
  BY <1>1 DEF InsertInv, RemoveInv
<1>11. StoredInv'
  <2>1. InHand = {} /\ InHand' = {} /\ Hole' = {}
    BY <1>1 DEF InHand, Hole
  <2>2. Used \in SUBSET Slots
    BY DEF Used, UsedIn
  <2>3. \A i \in Used \ {idx} : memoryPool'[i] = memoryPool[i]
    BY <1>6, <2>2
  <2>4. \A i, j \in Used' \ Hole' : memoryPool'[i] = memoryPool'[j] => i = j
    BY <1>3, <1>7, <2>1, <2>3 DEF IInv, StoredInv
  <2>5. Held' = Held
    BY <1>3, <1>7, <2>1, <2>3 DEF Held
  <2>6. currCapacity' = Cardinality(Used')
    BY <1>1, <1>3, <1>7, <2>2, SlotsAreFinite, FS_RemoveElement DEF IInv, StoredInv
  <2> QED BY <1>1, <2>1, <2>4, <2>5, <2>6 DEF IInv, StoredInv
<1> QED BY <1>8, <1>9, <1>10, <1>11 DEF IInv

LEMMA NextStep == IInv /\ [Next]_vars => IInv'
<1> SUFFICES ASSUME IInv, [Next]_vars PROVE IInv'
  OBVIOUS
<1>1. CASE Next
  BY <1>1, InsertStep, RemoveStep, PlaceStep, ProbeStep, FoundStep, SearchOnStep,
     KeyNotFoundStep, ShiftStep, EraseStep DEF Next, Loop
<1>2. CASE UNCHANGED vars
  BY <1>2 DEF vars, IInv, TypeOK, PathInv, Paths, PassedIn, UsedIn, getPsl, InsertInv,
     RemoveInv, StoredInv, Held, Hole, InHand, Used
<1> QED BY <1>1, <1>2

-----------------------------------------------------------------------------
(* What the calls return                                                   *)

\* The induction behind the theorems below.
THEOREM TableInvariant == Spec => []IInv
  BY InitInv, NextStep, PTL DEF Spec

LEMMA SmallestOfNat ==
    ASSUME NEW S \in SUBSET Nat, S # {}
    PROVE  Min(S) \in S /\ \A y \in S : Min(S) <= y
<1>1. PICK x \in S : \A y \in S : ~(<<y, x>> \in OpToRel(<, Nat))
  BY NatLessThanWellFounded, WFMin
<1>2. ASSUME NEW y \in S PROVE x <= y
  <2>1. x \in Int /\ y \in Int
    OBVIOUS
  <2>2. ASSUME y < x PROVE FALSE
    <3>1. <<y, x>> \in OpToRel(<, Nat)
      BY <2>2 DEF OpToRel
    <3> QED BY <1>1, <3>1
  <2> QED BY <2>1, <2>2
<1> QED BY <1>2 DEF Min

\* No slot before an entry's own place is free, so that a search for its key,
\* which starts at the key's slot, reaches it.
LEMMA NoGapBefore ==
    ASSUME IInv, NEW j \in Used, NEW i \in Slots,
           getPsl(i, memoryPool[j].key) <= getPsl(j, memoryPool[j].key)
    PROVE  i \in Used
<1> DEFINE k == memoryPool[j].key
<1>1. k \in Keys /\ j \in Slots /\ hash \in [Keys -> Slots]
  BY EntryFacts DEF IInv, TypeOK, Used, UsedIn
<1>2. getPsl(i, k) \in Int /\ getPsl(j, k) \in Int
  BY <1>1, PslFacts
<1>3. CASE getPsl(i, k) = getPsl(j, k)
  BY <1>1, <1>3, PslFacts
<1>4. CASE getPsl(i, k) < getPsl(j, k)
  BY <1>4 DEF IInv, PathInv, Paths, PassedIn, Used
<1> QED BY <1>2, <1>3, <1>4

LEMMA LookupInv == IInv => LookupAgreesWithStored
<1> SUFFICES ASSUME IInv, call = Idle PROVE
      /\ {memoryPool[idx] : idx \in Used} = stored
      /\ Cardinality(Used) = Cardinality(stored) /\ currCapacity = Cardinality(stored)
      /\ \A key \in Keys :
           IF key \in {e.key : e \in stored}
           THEN lookup(key) \in stored /\ lookup(key).key = key
           ELSE lookup(key) = Empty
  BY DEF LookupAgreesWithStored, Used, UsedIn
<1>1. Hole = {} /\ InHand = {}
  BY DEF Hole, InHand, Idle
<1>2. stored = {memoryPool[i] : i \in Used}
  BY <1>1 DEF IInv, StoredInv, Held
<1>3. Cardinality(Used) = Cardinality(stored) /\ currCapacity = Cardinality(stored)
  <2>1. Used \in SUBSET Slots
    BY DEF Used, UsedIn
  <2>2. IsFiniteSet(Used)
    BY <2>1, SlotsAreFinite
  <2> DEFINE f == [i \in Used |-> memoryPool[i]]
  <2>3. f \in Bijection(Used, stored)
    BY <1>1, <1>2 DEF Bijection, Injection, Surjection, IsInjective, IInv, StoredInv
  <2>4. Cardinality(stored) = Cardinality(Used)
    BY <2>2, <2>3, FS_Bijection DEF ExistsBijection
  <2> QED BY <2>4 DEF IInv, StoredInv
<1>4. ASSUME NEW key \in Keys
      PROVE  IF key \in {e.key : e \in stored}
             THEN lookup(key) \in stored /\ lookup(key).key = key
             ELSE lookup(key) = Empty
  <2> DEFINE Probed(d) == memoryPool[(hash[key] + d) % maxCapacity]
             hits == {d \in Slots : Probed(d).key = key /\ \A c \in 0 .. d : ~isEmpty(Probed(c))}
  <2>1. lookup(key) = IF hits = {} THEN Empty ELSE Probed(Min(hits))
    BY DEF lookup
  <2>2. hash \in [Keys -> Slots] /\ hash[key] \in Slots
    BY DEF IInv, TypeOK
  <2>3. \A d \in Slots : /\ (hash[key] + d) % maxCapacity \in Slots
                         /\ getPsl((hash[key] + d) % maxCapacity, key) = d
    BY <2>2, StepsOn DEF getPsl, Dist
  <2>4. ASSUME hits # {} PROVE lookup(key) \in stored /\ lookup(key).key = key
    <3>1. hits \in SUBSET Nat
      BY TableAssumption DEF Slots
    <3>2. Min(hits) \in hits
      <4> HIDE DEF hits
      <4> QED BY <2>4, <3>1, SmallestOfNat
    <3>3. Probed(Min(hits)).key = key /\ Min(hits) \in Slots
      BY <3>2
    <3>4. (hash[key] + Min(hits)) % maxCapacity \in Used
      BY <2>3, <3>3, TableAssumption DEF Used, UsedIn, isEmpty
    <3>5. lookup(key) = Probed(Min(hits))
      BY <2>1, <2>4
    <3> QED BY <1>2, <3>3, <3>4, <3>5
  <2>5. ASSUME NEW e \in stored, e.key = key PROVE hits # {}
    <3>1. PICK j \in Used : memoryPool[j] = e
      BY <1>2
    <3>2. j \in Slots
      BY DEF Used, UsedIn
    <3> DEFINE d == getPsl(j, key)
    <3>3. d \in Slots
      BY <2>2, <3>2, PslFacts
    <3>4. (hash[key] + d) % maxCapacity = j
      BY <2>2, <2>3, <3>2, <3>3, PslFacts
    <3>5. ASSUME NEW c \in 0 .. d PROVE ~isEmpty(Probed(c))
      <4>1. c \in Slots /\ c <= d
        <5> HIDE DEF d
        <5> QED BY <3>3, TableAssumption DEF Slots
      <4>2. (hash[key] + c) % maxCapacity \in Used
        BY <2>3, <2>5, <3>1, <4>1, NoGapBefore
      <4> QED BY <4>2 DEF Used, UsedIn
    <3>6. Probed(d).key = key
      BY <2>5, <3>1, <3>4
    <3>7. d \in hits
      <4> HIDE DEF d
      <4> QED BY <3>3, <3>5, <3>6
    <3> QED BY <3>7
  <2> QED BY <2>1, <2>4, <2>5
<1> QED BY <1>2, <1>3, <1>4

\* Between calls the pool holds just the stored entries, and lookup returns an
\* entry of a key whenever there is one, whatever the hash function and the
\* order of the calls (hash_table.hpp, lines 29-85).
THEOREM LookupFindsTheStored == Spec => []LookupAgreesWithStored
  BY TableInvariant, LookupInv, PTL

\* insert() never probes all slots in vain: the exception of line 51 is not
\* reached, as a table that is not full has a free slot before the start again.
THEOREM InsertFindsASlot == Spec => [](call.at = "insert" => call.deltaIdx < maxCapacity)
<1>1. IInv => (call.at = "insert" => call.deltaIdx < maxCapacity)
  BY DEF IInv, InsertInv
<1> QED BY <1>1, TableInvariant, PTL

\* remove() reports that a key is not found only when no entry of it is stored,
\* although it gives up at the first free slot (lines 70 and 72).
THEOREM RemoveMissesNothing == Spec => [][KeyNotFound => \A e \in stored : e.key # call.key]_vars
<1>1. ASSUME IInv, KeyNotFound, NEW e \in stored PROVE e.key # call.key
  <2> SUFFICES ASSUME e.key = call.key PROVE FALSE
    OBVIOUS
  <2> DEFINE k == call.key
  <2>1. call.at = "remove" /\ call \in RemoveCalls
    BY <1>1, CallFacts DEF IInv, KeyNotFound, Searching
  <2>2. k \in Keys /\ call.idx \in Slots /\ hash \in [Keys -> Slots]
    BY <1>1, <2>1 DEF RemoveCalls, IInv, TypeOK
  <2>3. PICK j \in Used : memoryPool[j].key = k
    <3>1. Hole = {} /\ InHand = {}
      BY <2>1 DEF Hole, InHand
    <3> QED BY <1>1, <3>1 DEF IInv, StoredInv, Held
  <2>4. j \in Slots /\ getPsl(j, k) \in Int /\ getPsl(j, k) < maxCapacity
    BY <2>2, PslFacts DEF Used, UsedIn
  <2>5. ~(getPsl(j, k) < call.deltaIdx)
    BY <1>1, <2>1, <2>3, <2>4 DEF IInv, RemoveInv
  <2>6. CASE call.deltaIdx = maxCapacity
    BY <2>4, <2>5, <2>6
  <2>7. CASE call.deltaIdx # maxCapacity
    <3>1. call.deltaIdx < maxCapacity /\ isEmpty(memoryPool[call.idx]) /\ call.deltaIdx \in Int
      BY <1>1, <2>1, <2>7, TableAssumption DEF KeyNotFound, Searching, RemoveCalls
    <3>2. call.deltaIdx = getPsl(call.idx, k)
      BY <1>1, <2>1, <3>1 DEF IInv, RemoveInv
    <3>3. getPsl(call.idx, k) <= getPsl(j, k)
      BY <2>4, <2>5, <3>1, <3>2
    <3>4. call.idx \in Used
      BY <1>1, <2>2, <2>3, <3>3, NoGapBefore
    <3> QED BY <3>1, <3>4 DEF Used, UsedIn
  <2> QED BY <2>6, <2>7
<1>2. IInv /\ [Next]_vars => [KeyNotFound => \A e \in stored : e.key # call.key]_vars
  BY <1>1
<1> QED BY <1>2, TableInvariant, PTL DEF Spec
=============================================================================
