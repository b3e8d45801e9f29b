----------------------------- MODULE KernelProofs -----------------------------
(***************************************************************************)
(* Proofs about KernelCalls, for any dimensions, series, batches, bids and *)
(* feeds: the heap of hw_5, the running sums of hw_2, and the loops that   *)
(* phase_1, hw_1, hw_5 and phase_5 unroll.                                 *)
(***************************************************************************)
EXTENDS KernelCalls, FiniteSetTheorems, SequenceTheorems, WellFoundedInduction, TLAPS

\* A set of numbers that is closed under successor.
LEMMA Counting ==
  ASSUME NEW Good, 0 \in Good, \A n \in Nat : n \in Good => n + 1 \in Good
  PROVE  Nat \subseteq Good
<1> DEFINE Bad == Nat \ Good
<1>1. SUFFICES ASSUME Bad # {} PROVE FALSE
  OBVIOUS
<1>2. PICK n \in Bad : \A k \in Bad : ~(<<k, n>> \in OpToRel(<, Nat))
  <2>1. Bad \subseteq Nat
    OBVIOUS
  <2>2. IsWellFoundedOn(OpToRel(<, Nat), Nat)
    BY NatLessThanWellFounded
  <2> HIDE DEF Bad
  <2>. QED BY <1>1, <2>1, <2>2, WFMin
<1>3. n \in Nat /\ n # 0 /\ n - 1 \in Nat /\ (n - 1) + 1 = n
  OBVIOUS
<1>4. n - 1 \in Bad
  BY <1>3
<1>5. <<n - 1, n>> \in OpToRel(<, Nat)
  BY <1>3 DEF OpToRel
<1>. QED BY <1>2, <1>4, <1>5

-----------------------------------------------------------------------------
(* The heap of hw_5.                                                       *)

Bid == [p : Int, ts : Nat]

Key(i) == heap[i + 1].p

Places == {i \in Nat : i < Len(heap)}

HeapType ==
  /\ heap \in Seq(Bid) /\ inserted \in Nat /\ stored \subseteq Bid
  /\ sift \in [loop : {"none", "rise", "sink"}, idx : Nat]
  /\ sift.loop = "none" => sift.idx = 0
  /\ sift.loop = "rise" => sift.idx \in Places
  /\ sift.loop = "sink" => sift.idx \in Places \/ (sift.idx = 0 /\ heap = <<>>)

\* The vector holds what is stored, each bid once, and no bid is as late as the next.
HoldsStored ==
  /\ ToSet(heap) = stored /\ IsInjective(heap)
  /\ \A bid \in stored : bid.ts < inserted

\* No element but that at idx is greater than its parent while a bid rises; none
\* but the children of that at idx while one sinks.  What is below idx is not
\* greater than what is above it, so that either can take the place of idx.
Ordered ==
  \A i \in Places \ {0} :
    \/ Key(i) <= Key(getParentIdx(i))
    \/ sift.loop = "rise" /\ i = sift.idx
    \/ sift.loop = "sink" /\ getParentIdx(i) = sift.idx

Bridged ==
  \A i \in Places \ {0} :
    getParentIdx(i) = sift.idx /\ sift.idx > 0 => Key(i) <= Key(getParentIdx(sift.idx))

HeapInv == HeapType /\ HoldsStored /\ Ordered /\ Bridged

LEMMA Parents ==
  \A i \in Nat \ {0}, j \in Nat :
    /\ getParentIdx(i) \in Nat /\ getParentIdx(i) < i
    /\ getParentIdx(i) = j <=> i = 2 * j + 1 \/ i = 2 * j + 2
BY DEF getParentIdx

LEMMA KeysAreNumbers ==
  ASSUME heap \in Seq(Bid)
  PROVE  \A i \in Places : Key(i) \in Int
<1>1. ASSUME NEW i \in Places PROVE heap[i + 1] \in Bid
  BY DEF Places
<1>. QED BY <1>1 DEF Key, Bid

\* The root of an ordered heap is one of the greatest.
LEMMA RootIsGreatest ==
  ASSUME heap \in Seq(Bid), \A i \in Places \ {0} : Key(i) <= Key(getParentIdx(i))
  PROVE  \A i \in Places : Key(i) <= Key(0)
<1> DEFINE Good == {m \in Nat : \A i \in Places : i <= m => Key(i) <= Key(0)}
<1>0. \A i \in Places : Key(i) \in Int
  BY KeysAreNumbers
<1>1. 0 \in Good
  BY <1>0 DEF Places
<1>2. ASSUME NEW m \in Nat, m \in Good PROVE m + 1 \in Good
  <2>1. ASSUME NEW i \in Places, i = m + 1 PROVE Key(i) <= Key(0)
    <3>1. i \in Nat \ {0} /\ i \in Places \ {0} /\ 0 \in Places
      BY <2>1 DEF Places
    <3>2. getParentIdx(i) \in Places /\ getParentIdx(i) <= m
      BY <2>1, <3>1, Parents DEF Places
    <3>3. Key(getParentIdx(i)) <= Key(0) /\ Key(i) <= Key(getParentIdx(i))
      BY <1>2, <3>1, <3>2
    <3>4. Key(i) \in Int /\ Key(0) \in Int /\ Key(getParentIdx(i)) \in Int
      BY <1>0, <3>1, <3>2
    <3>. QED BY <3>3, <3>4
  <2>. QED BY <1>2, <2>1 DEF Places
<1>3. Nat \subseteq Good
  <2> HIDE DEF Good
  <2>. QED BY <1>1, <1>2, Counting
<1>. QED BY <1>3 DEF Places

\* What swapping two elements does.
LEMMA SwappedElements ==
  ASSUME heap \in Seq(Bid), IsInjective(heap), NEW a \in Places, NEW b \in Places, a # b,
         heap' = Swapped(a, b)
  PROVE  /\ heap' \in Seq(Bid) /\ IsInjective(heap') /\ ToSet(heap') = ToSet(heap)
         /\ Places' = Places
         /\ \A i \in Places : (Key(i))' = Key(IF i = a THEN b ELSE IF i = b THEN a ELSE i)
         /\ \A i \in Places : Key(i) \in Int
<1> DEFINE n == Len(heap)
           to(i) == IF i = a + 1 THEN b + 1 ELSE IF i = b + 1 THEN a + 1 ELSE i
<1>1. n \in Nat /\ a + 1 \in 1..n /\ b + 1 \in 1..n /\ DOMAIN heap = 1..n
  BY DEF Places
<1>2. heap' \in Seq(Bid) /\ Len(heap') = n /\ DOMAIN heap' = 1..n
  BY <1>1 DEF Swapped
<1>3. \A i \in 1..n : heap'[i] = heap[to(i)] /\ to(i) \in 1..n /\ to(to(i)) = i
  BY <1>1 DEF Swapped, Places
<1>4. IsInjective(heap')
  BY <1>1, <1>2, <1>3 DEF IsInjective
<1>5. ToSet(heap') = ToSet(heap)
  <2> HIDE DEF n, to
  <2>. QED BY <1>1, <1>2, <1>3 DEF ToSet
<1>6. Places' = Places
  BY <1>2 DEF Places
<1>7. \A i \in Places : (Key(i))' = Key(IF i = a THEN b ELSE IF i = b THEN a ELSE i)
  BY <1>1, <1>3 DEF Places, Key
<1>8. \A i \in Places : Key(i) \in Int
  BY KeysAreNumbers
<1>. QED BY <1>2, <1>4, <1>5, <1>6, <1>7, <1>8

LEMMA HeapStarts == HeapInit => HeapInv
BY DEF HeapInit, HeapInv, HeapType, HoldsStored, Ordered, Bridged, Places, Resting, ToSet,
       IsInjective

LEMMA InsertKeeps == HeapInv /\ insert => HeapInv'
<1> SUFFICES ASSUME HeapInv, insert PROVE HeapInv'
  OBVIOUS
<1> USE DEF HeapInv
<1>1. PICK p \in Bids : /\ heap' = Append(heap, [p |-> p, ts |-> inserted])
                        /\ stored' = stored \cup {[p |-> p, ts |-> inserted]}
  BY DEF insert
<1> DEFINE val == [p |-> p, ts |-> inserted]
           n == Len(heap)
<1>2. val \in Bid /\ val \notin stored /\ n \in Nat
  BY BidsAreNumbers DEF HeapType, HoldsStored, Bid
<1>3. heap \in Seq(Bid) /\ DOMAIN heap = 1..n /\ sift.idx = 0
  BY DEF HeapType, insert, Resting
<1>4. /\ heap' \in Seq(Bid) /\ Len(heap') = n + 1 /\ DOMAIN heap' = 1..(n + 1)
      /\ \A i \in 1..n : heap'[i] = heap[i]
      /\ heap'[n + 1] = val
  BY <1>1, <1>2, <1>3
<1>5. sift' = [loop |-> "rise", idx |-> n] /\ inserted' = inserted + 1
  BY DEF insert
<1>6. HeapType'
  BY <1>1, <1>2, <1>4, <1>5 DEF HeapType, Places
<1>7. HoldsStored'
  <2>1. ToSet(heap') = ToSet(heap) \cup {val}
    <3> HIDE DEF n, val
    <3>1. 1..(n + 1) = 1..n \cup {n + 1}
      BY <1>2
    <3>. QED BY <1>3, <1>4, <3>1 DEF ToSet
  <2>2. IsInjective(heap')
    <3>1. \A i \in 1..n : heap[i] \in stored
      BY <1>3 DEF HoldsStored, ToSet
    <3> HIDE DEF n, val
    <3>2. \A i \in 1..(n + 1) : i \in 1..n \/ i = n + 1
      BY <1>2
    <3>3. \A i, j \in 1..n : heap[i] = heap[j] => i = j
      BY <1>3 DEF HoldsStored, IsInjective
    <3>. QED BY <1>2, <1>4, <3>1, <3>2, <3>3 DEF IsInjective
  <2>3. \A bid \in stored' : bid.ts < inserted'
    BY <1>1, <1>5 DEF HoldsStored, HeapType, Bid
  <2>. QED BY <1>1, <2>1, <2>2, <2>3 DEF HoldsStored
<1>8. \A i \in Places' \ {0} : i \in Nat \ {0} /\ i <= n /\ (i # n => i \in Places \ {0})
  BY <1>2, <1>4 DEF Places
<1>9. \A i \in Places : (Key(i))' = Key(i)
  BY <1>2, <1>4 DEF Places, Key
<1>10. \A i \in Places' \ {0} : getParentIdx(i) \in Places
  BY <1>2, <1>8, Parents DEF Places
<1>11. Ordered'
  <2>1. sift.loop = "none"
    BY DEF insert, Resting
  <2>. QED BY <1>5, <1>8, <1>9, <1>10, <2>1 DEF Ordered
<1>12. Bridged'
  BY <1>2, <1>5, <1>10 DEF Bridged, Places
<1>. QED BY <1>6, <1>7, <1>11, <1>12

LEMMA RiseKeeps == HeapInv /\ Rise => HeapInv'
<1> SUFFICES ASSUME HeapInv, Rise PROVE HeapInv'
  OBVIOUS
<1>0. PICK x, q : x = sift.idx /\ q = getParentIdx(x)
  OBVIOUS
<1>1. x \in Places /\ x \in Nat \ {0} /\ Key(q) < Key(x) /\ sift.loop = "rise"
  BY <1>0 DEF HeapInv, HeapType, Rise, RisesAbove, Less, Key
<1>2. q \in Places /\ q # x /\ q < x /\ q \in Nat
  BY <1>0, <1>1, Parents DEF Places
<1>3. heap' = Swapped(q, x) /\ sift' = [sift EXCEPT !.idx = q] /\ UNCHANGED <<inserted, stored>>
  BY <1>0 DEF Rise
<1>4. sift'.loop = "rise" /\ sift'.idx = q /\ sift' \in [loop : {"none", "rise", "sink"}, idx : Nat]
  BY <1>1, <1>2, <1>3 DEF HeapInv, HeapType
<1>5. /\ heap' \in Seq(Bid) /\ IsInjective(heap') /\ ToSet(heap') = ToSet(heap)
      /\ Places' = Places
      /\ \A i \in Places : (Key(i))' = Key(IF i = q THEN x ELSE IF i = x THEN q ELSE i)
      /\ \A i \in Places : Key(i) \in Int
  BY <1>1, <1>2, <1>3, SwappedElements DEF HeapInv, HeapType, HoldsStored
<1>6. HeapType' /\ HoldsStored'
  BY <1>2, <1>3, <1>4, <1>5 DEF HeapInv, HeapType, HoldsStored
<1>7. ASSUME NEW i \in Places \ {0}, NEW j, j = getParentIdx(i)
      PROVE  /\ j \in Places /\ j # i
             /\ i # x => Key(i) <= Key(j)
             /\ j = x => Key(i) <= Key(q)
  <2>1. j \in Places /\ j # i
    BY <1>7, Parents DEF Places
  <2>. QED BY <1>0, <1>1, <1>7, <2>1 DEF HeapInv, Ordered, Bridged
<1>9. ASSUME NEW i \in Places \ {0}, i # q, NEW j, j = getParentIdx(i)
      PROVE  (Key(i))' <= (Key(j))'
  <2>1. j \in Places /\ j # i /\ (i # x => Key(i) <= Key(j)) /\ (j = x => Key(i) <= Key(q))
    BY <1>7, <1>9
  <2>2. /\ (Key(i))' = Key(IF i = q THEN x ELSE IF i = x THEN q ELSE i)
        /\ (Key(j))' = Key(IF j = q THEN x ELSE IF j = x THEN q ELSE j)
    BY <1>5, <2>1
  <2>3. Key(i) \in Int /\ Key(j) \in Int /\ Key(x) \in Int /\ Key(q) \in Int
    BY <1>1, <1>2, <1>5, <2>1
  <2>4. i = x => j = q
    BY <1>0, <1>9
  <2>. QED BY ONLY <1>1, <1>2, <1>9, <2>1, <2>2, <2>3, <2>4
<1>10. ASSUME NEW i \in Places \ {0}, getParentIdx(i) = q, q > 0, NEW j, j = getParentIdx(q)
       PROVE  (Key(i))' <= (Key(j))'
  <2>1. q \in Places \ {0} /\ j \in Places /\ j < q /\ j \in Nat
    BY <1>2, <1>10, Parents DEF Places
  <2>2. Key(q) <= Key(j) /\ j # q /\ j # x
    BY <1>2, <1>7, <1>10, <2>1
  <2>3. i # x => Key(i) <= Key(q)
    BY <1>7, <1>10
  <2>4. i # q
    BY <1>7, <1>10
  <2>5. /\ (Key(i))' = Key(IF i = x THEN q ELSE i)
        /\ (Key(j))' = Key(j)
    BY <1>5, <2>1, <2>2, <2>4
  <2>6. Key(i) \in Int /\ Key(j) \in Int /\ Key(q) \in Int
    BY <1>2, <1>5, <2>1
  <2>. QED BY ONLY <2>2, <2>3, <2>5, <2>6
<1>11. Ordered'
  <2>1. ASSUME NEW i \in Places \ {0}, i # q PROVE (Key(i) <= Key(getParentIdx(i)))'
    BY <1>9, <2>1
  <2>. QED BY <1>4, <1>5, <2>1 DEF Ordered
<1>12. Bridged'
  <2>1. ASSUME NEW i \in Places \ {0}, getParentIdx(i) = q, q > 0
        PROVE  (Key(i))' <= (Key(getParentIdx(q)))'
    BY <1>10, <2>1
  <2>. QED BY <1>4, <1>5, <2>1 DEF Bridged
<1>. QED BY <1>6, <1>11, <1>12 DEF HeapInv

LEMMA RisenKeeps == HeapInv /\ Risen => HeapInv'
<1> SUFFICES ASSUME HeapInv, Risen PROVE HeapInv'
  OBVIOUS
<1>1. sift' = Resting /\ UNCHANGED <<heap, inserted, stored>>
  BY DEF Risen
<1>2. sift.idx \in Places /\ sift.loop = "rise"
      /\ ~(sift.idx > 0 /\ Key(getParentIdx(sift.idx)) < Key(sift.idx))
  BY DEF HeapInv, HeapType, Risen, RisesAbove, Less, Key
<1>3. ASSUME NEW i \in Places \ {0} PROVE Key(i) <= Key(getParentIdx(i))
  <2>1. i = sift.idx \/ Key(i) <= Key(getParentIdx(i))
    BY <1>2 DEF HeapInv, Ordered
  <2>2. getParentIdx(i) \in Places /\ i > 0
    BY Parents DEF Places
  <2>3. Key(i) \in Int /\ Key(getParentIdx(i)) \in Int
    BY <2>2, KeysAreNumbers DEF HeapInv, HeapType
  <2>. QED BY <1>2, <2>1, <2>2, <2>3
<1>4. Places' = Places /\ \A i : (Key(i))' = Key(i)
  BY <1>1 DEF Places, Key
<1>5. HeapType' /\ HoldsStored'
  BY <1>1 DEF HeapInv, HeapType, HoldsStored, Resting
<1>6. Ordered' /\ Bridged'
  BY <1>1, <1>3, <1>4 DEF Ordered, Bridged, Resting
<1>. QED BY <1>5, <1>6 DEF HeapInv

LEMMA PopKeeps == HeapInv /\ popMax => HeapInv'
<1> SUFFICES ASSUME HeapInv, popMax PROVE HeapInv'
  OBVIOUS
<1>0. PICK n : n = Len(heap)
  OBVIOUS
<1>1. heap \in Seq(Bid) /\ n \in Nat \ {0} /\ DOMAIN heap = 1..n
  BY <1>0 DEF HeapInv, HeapType, popMax
<1>2. /\ heap' \in Seq(Bid) /\ Len(heap') = n - 1 /\ DOMAIN heap' = 1..(n - 1)
      /\ \A i \in 1..(n - 1) : heap'[i] = heap[IF i = 1 THEN n ELSE i]
  <2>1. [heap EXCEPT ![1] = Last(heap)] \in Seq(Bid)
    BY <1>0, <1>1 DEF Last
  <2>2. heap' = SubSeq([heap EXCEPT ![1] = heap[n]], 1, n - 1)
    BY <1>0, <1>1 DEF popMax, Front, Last
  <2>. QED BY <1>0, <1>1, <2>1, <2>2 DEF Last
<1>3. sift' = [loop |-> "sink", idx |-> 0] /\ stored' = stored \ {heap[1]} /\ inserted' = inserted
  BY DEF popMax
<1>4. HeapType'
  <2>1. heap' = <<>> \/ 0 \in Places'
    BY <1>1, <1>2 DEF Places
  <2>. QED BY <1>2, <1>3, <2>1 DEF HeapInv, HeapType
<1>5. HoldsStored'
  <2>1. \A i, j \in 1..n : heap[i] = heap[j] => i = j
    BY <1>1 DEF HeapInv, HoldsStored, IsInjective
  <2>2. IsInjective(heap')
    BY <1>1, <1>2, <2>1 DEF IsInjective
  <2>3. ToSet(heap) = {heap[i] : i \in 1..n} /\ ToSet(heap') = {heap'[i] : i \in 1..(n - 1)}
    BY <1>1, <1>2 DEF ToSet
  <2>4. ToSet(heap') = ToSet(heap) \ {heap[1]}
    <3>1. ASSUME NEW i \in 1..(n - 1)
          PROVE  \E j \in 1..n : heap'[i] = heap[j] /\ heap[j] # heap[1]
      <4>1. (IF i = 1 THEN n ELSE i) \in 1..n /\ (IF i = 1 THEN n ELSE i) # 1 /\ 1 \in 1..n
        BY <1>1
      <4>. QED BY <1>2, <2>1, <4>1
    <3>2. ASSUME NEW j \in 1..n, heap[j] # heap[1]
          PROVE  \E i \in 1..(n - 1) : heap'[i] = heap[j]
      <4>1. j # 1
        BY <3>2
      <4>2. (IF j = n THEN 1 ELSE j) \in 1..(n - 1)
        BY <1>1, <4>1
      <4>. QED BY <1>2, <4>1, <4>2
    <3>. QED BY <2>3, <3>1, <3>2
  <2>. QED BY <1>3, <2>2, <2>4 DEF HeapInv, HoldsStored
<1>6. \A i \in Places' : i \in Places /\ (i # 0 => (Key(i))' = Key(i))
  <2>1. ASSUME NEW i \in Places' PROVE i \in Nat /\ i + 1 \in 1..(n - 1)
    BY <1>1, <1>2 DEF Places
  <2>. QED BY <1>0, <1>1, <1>2, <2>1 DEF Places, Key
<1>7. Ordered'
  <2>1. ASSUME NEW i \in Places' \ {0}, NEW j, j = getParentIdx(i), j # 0
        PROVE  (Key(i))' <= (Key(j))'
    <3>1. i \in Places \ {0} /\ j \in Nat /\ j < i /\ j \in Places'
      BY <1>2, <1>6, <2>1, Parents DEF Places
    <3>2. Key(i) <= Key(j)
      BY <2>1, <3>1 DEF HeapInv, HeapType, Ordered, popMax, Resting
    <3>. QED BY <1>6, <2>1, <3>1, <3>2
  <2>. QED BY <1>3, <2>1 DEF Ordered
<1>8. Bridged'
  BY <1>3 DEF Bridged
<1>. QED BY <1>4, <1>5, <1>7, <1>8 DEF HeapInv

\* Largest() is the element itself or a child that is greater, and no child is
\* greater than it.
LEMMA LargestOfFamily ==
  ASSUME heap \in Seq(Bid), NEW x \in Places
  PROVE  /\ Largest(x) # x => /\ Largest(x) \in Places \ {0}
                              /\ getParentIdx(Largest(x)) = x
                              /\ Key(x) < Key(Largest(x))
         /\ \A i \in Places \ {0} : getParentIdx(i) = x => Key(i) <= Key(Largest(x))
<1>1. x \in Nat /\ Len(heap) \in Nat
  BY DEF Places
<1>2. \A i \in Places : Key(i) \in Int
  BY KeysAreNumbers
<1>3. PICK l, r : l = 2 * x + 1 /\ r = 2 * x + 2
  OBVIOUS
<1>4. l \in Nat \ {0} /\ r \in Nat \ {0} /\ l # x /\ r # x
  BY <1>1, <1>3
<1>5. getParentIdx(l) = x /\ getParentIdx(r) = x
  BY <1>1, <1>3, <1>4, Parents
<1>6. \A i \in Places \ {0} : getParentIdx(i) = x => i = l \/ i = r
  BY <1>1, <1>3, Parents DEF Places
<1>7. PICK f : f = IF l < Len(heap) /\ Key(x) < Key(l) THEN l ELSE x
  OBVIOUS
<1>8. Largest(x) = IF r < Len(heap) /\ Key(f) < Key(r) THEN r ELSE f
  BY <1>3, <1>7 DEF Largest, Less, Key
<1>9. (l < Len(heap) <=> l \in Places) /\ (r < Len(heap) <=> r \in Places)
  BY <1>1, <1>4 DEF Places
<1>. QED BY <1>2, <1>4, <1>5, <1>6, <1>7, <1>8, <1>9

LEMMA SinkKeeps == HeapInv /\ Sink => HeapInv'
<1> SUFFICES ASSUME HeapInv, Sink PROVE HeapInv'
  OBVIOUS
<1>0. PICK x, c : x = sift.idx /\ c = Largest(x)
  OBVIOUS
<1>1. heap \in Seq(Bid) /\ sift.loop = "sink" /\ c # x /\ x \in Places
  <2>1. heap \in Seq(Bid) /\ sift.loop = "sink" /\ c # x
    BY <1>0 DEF HeapInv, HeapType, Sink
  <2>2. heap = <<>> /\ x = 0 => c = x
    BY <1>0 DEF Largest
  <2>. QED BY <1>0, <2>1, <2>2 DEF HeapInv, HeapType
<1>2. /\ c \in Places \ {0} /\ getParentIdx(c) = x /\ Key(x) < Key(c)
      /\ \A i \in Places \ {0} : getParentIdx(i) = x => Key(i) <= Key(c)
  BY <1>0, <1>1, LargestOfFamily
<1>3. x \in Nat /\ c \in Nat /\ c > x
  BY <1>2, Parents DEF Places
<1>4. heap' = Swapped(x, c) /\ sift' = [sift EXCEPT !.idx = c] /\ UNCHANGED <<inserted, stored>>
  BY <1>0 DEF Sink
<1>5. sift'.loop = "sink" /\ sift'.idx = c /\ sift' \in [loop : {"none", "rise", "sink"}, idx : Nat]
  BY <1>1, <1>3, <1>4 DEF HeapInv, HeapType
<1>6. /\ heap' \in Seq(Bid) /\ IsInjective(heap') /\ ToSet(heap') = ToSet(heap)
      /\ Places' = Places
      /\ \A i \in Places : (Key(i))' = Key(IF i = x THEN c ELSE IF i = c THEN x ELSE i)
      /\ \A i \in Places : Key(i) \in Int
  BY <1>1, <1>2, <1>4, SwappedElements DEF HeapInv, HoldsStored
<1>7. HeapType' /\ HoldsStored'
  BY <1>2, <1>4, <1>5, <1>6 DEF HeapInv, HeapType, HoldsStored
<1>8. ASSUME NEW i \in Places \ {0}, NEW j, j = getParentIdx(i)
      PROVE  /\ j \in Places /\ j < i /\ i \in Nat /\ j \in Nat
             /\ j # x => Key(i) <= Key(j)
  <2>1. j \in Places /\ j < i /\ i \in Nat /\ j \in Nat
    BY <1>8, Parents DEF Places
  <2>. QED BY <1>0, <1>1, <1>8, <2>1 DEF HeapInv, Ordered
<1>9. ASSUME NEW i \in Places \ {0}, NEW j, j = getParentIdx(i), j # c
      PROVE  (Key(i))' <= (Key(j))'
  <2>1. j \in Places /\ j < i /\ i \in Nat /\ j \in Nat /\ (j # x => Key(i) <= Key(j))
    BY <1>8, <1>9
  <2>2. /\ (Key(i))' = Key(IF i = x THEN c ELSE IF i = c THEN x ELSE i)
        /\ (Key(j))' = Key(IF j = x THEN c ELSE j)
    BY <1>6, <1>9, <2>1
  <2>3. Key(i) \in Int /\ Key(j) \in Int /\ Key(x) \in Int /\ Key(c) \in Int
    BY <1>1, <1>2, <1>6, <2>1
  <2>4. CASE i = c
    BY <1>2, <1>3, <1>9, <2>2, <2>3, <2>4
  <2>5. CASE i = x
    <3>1. Key(c) <= Key(j)
      BY <1>0, <1>2, <1>3, <1>9, <2>5 DEF HeapInv, Bridged
    <3>. QED BY <2>1, <2>2, <2>3, <2>5, <3>1
  <2>6. CASE i # c /\ i # x
    BY <1>2, <1>9, <2>1, <2>2, <2>3, <2>6
  <2>. QED BY <2>4, <2>5, <2>6
<1>10. ASSUME NEW i \in Places \ {0}, getParentIdx(i) = c
       PROVE  (Key(i))' <= (Key(x))'
  <2>1. Key(i) <= Key(c) /\ i > c
    BY <1>3, <1>8, <1>10
  <2>2. (Key(i))' = Key(i) /\ (Key(x))' = Key(c)
    BY <1>1, <1>3, <1>6, <1>8, <1>10, <2>1
  <2>. QED BY <2>1, <2>2
<1>11. Ordered'
  <2>1. ASSUME NEW i \in Places \ {0}, getParentIdx(i) # c
        PROVE  (Key(i))' <= (Key(getParentIdx(i)))'
    BY <1>9, <2>1
  <2>. QED BY <1>5, <1>6, <2>1 DEF Ordered
<1>12. Bridged'
  BY <1>2, <1>5, <1>6, <1>10 DEF Bridged
<1>. QED BY <1>7, <1>11, <1>12 DEF HeapInv

LEMMA SunkKeeps == HeapInv /\ Sunk => HeapInv'
<1> SUFFICES ASSUME HeapInv, Sunk PROVE HeapInv'
  OBVIOUS
<1>1. sift' = Resting /\ UNCHANGED <<heap, inserted, stored>>
  BY DEF Sunk
<1>2. heap \in Seq(Bid) /\ sift.loop = "sink" /\ Largest(sift.idx) = sift.idx
  BY DEF HeapInv, HeapType, Sunk
<1>3. ASSUME NEW i \in Places \ {0} PROVE Key(i) <= Key(getParentIdx(i))
  <2>1. sift.idx \in Places
    BY <1>2 DEF HeapInv, HeapType, Places
  <2>2. getParentIdx(i) = sift.idx => Key(i) <= Key(sift.idx)
    BY <1>2, <2>1, LargestOfFamily
  <2>. QED BY <1>2, <2>2 DEF HeapInv, Ordered
<1>4. Places' = Places /\ \A i : (Key(i))' = Key(i)
  BY <1>1 DEF Places, Key
<1>5. HeapType' /\ HoldsStored'
  BY <1>1 DEF HeapInv, HeapType, HoldsStored, Resting
<1>6. Ordered' /\ Bridged'
  BY <1>1, <1>3, <1>4 DEF Ordered, Bridged, Resting
<1>. QED BY <1>5, <1>6 DEF HeapInv

LEMMA HeapRests == HeapInv /\ UNCHANGED heapVars => HeapInv'
BY DEF HeapInv, heapVars, HeapType, HoldsStored, Ordered, Bridged, Places, Key

LEMMA HeapStep == HeapInv /\ HeapNext => HeapInv'
BY InsertKeeps, RiseKeeps, RisenKeeps, PopKeeps, SinkKeeps, SunkKeeps DEF HeapNext

LEMMA HeapSorted == HeapInv => BidsComeOutSorted
<1> SUFFICES ASSUME HeapInv, sift = Resting, heap # <<>>, NEW bid \in stored
             PROVE  bid.p <= heap[1].p
  BY DEF BidsComeOutSorted, HeapInv, HoldsStored
<1>1. heap \in Seq(Bid) /\ sift.loop = "none"
  BY DEF HeapInv, HeapType, Resting
<1>2. \A i \in Places : Key(i) <= Key(0)
  BY <1>1, RootIsGreatest DEF HeapInv, Ordered
<1>3. PICK i \in 1..Len(heap) : bid = heap[i]
  BY <1>1 DEF HeapInv, HoldsStored, ToSet
<1>4. i - 1 \in Places /\ (i - 1) + 1 = i
  BY <1>1, <1>3 DEF Places
<1>. QED BY <1>2, <1>3, <1>4 DEF Key
-----------------------------------------------------------------------------
(* The trade engine of hw_2.                                               *)

Tick == [id : Ids, price : Int]

Stats == [window : Seq(Int), sum : Int, sum_of_squares : Int]

Placed == [id : Ids, is_buy : BOOLEAN, from : SUBSET (1..4)]

EngineType ==
  /\ market_data \in Seq(Tick) /\ processed \in Nat
  /\ price_history \in [Ids -> Stats] /\ arrived \in [Ids -> Seq(Int)]
  /\ s \in [1..4 -> Nat] /\ orders \in Seq(Placed)

EngineInv == EngineType /\ StatsDescribeTheWindow

(* The sum of a sequence, defined by recursion over its prefixes.          *)

SumOf(xs) == CHOOSE sum : sum = [i \in 0..Len(xs) |-> IF i = 0 THEN 0 ELSE sum[i - 1] + xs[i]]

\* f[i] is the sum of the first i elements of xs, up to the n-th.
Sums(f, xs, n) ==
  /\ f[0] = 0 /\ \A i \in 0..n : f[i] \in Int
  /\ \A i \in 1..n : f[i] = f[i - 1] + xs[i]

LEMMA SumsExist ==
  ASSUME NEW xs \in Seq(Int)
  PROVE  Sums(SumOf(xs), xs, Len(xs)) /\ Total(xs) = SumOf(xs)[Len(xs)]
<1> DEFINE Reached == {n \in Nat : n <= Len(xs) => \E f : Sums(f, xs, n)}
           Step(f) == [i \in 0..Len(xs) |-> IF i = 0 THEN 0 ELSE f[i - 1] + xs[i]]
<1>1. 0 \in Reached
  <2>1. Sums([i \in 0..0 |-> 0], xs, 0)
    BY DEF Sums
  <2>. QED BY <2>1
<1>2. ASSUME NEW n \in Nat, n \in Reached PROVE n + 1 \in Reached
  <2>1. SUFFICES ASSUME n + 1 <= Len(xs) PROVE \E f : Sums(f, xs, n + 1)
    OBVIOUS
  <2>2. PICK f : Sums(f, xs, n)
    BY <1>2, <2>1
  <2> DEFINE g == [i \in 0..(n + 1) |-> IF i = n + 1 THEN f[n] + xs[n + 1] ELSE f[i]]
  <2>3. xs[n + 1] \in Int /\ f[n] \in Int
    BY <2>1, <2>2 DEF Sums
  <2>4. g[0] = 0 /\ \A i \in 0..(n + 1) : g[i] \in Int
    BY <2>2, <2>3 DEF Sums
  <2>5. \A i \in 1..(n + 1) : g[i] = g[i - 1] + xs[i]
    BY <2>2 DEF Sums
  <2> HIDE DEF g
  <2>. QED BY <2>4, <2>5 DEF Sums
<1>3. PICK f : Sums(f, xs, Len(xs))
  <2>1. Nat \subseteq Reached
    <3> HIDE DEF Reached
    <3>. QED BY <1>1, <1>2, Counting
  <2>. QED BY <2>1
<1>4. [i \in 0..Len(xs) |-> f[i]] = Step([i \in 0..Len(xs) |-> f[i]])
  BY <1>3 DEF Sums
<1>5. SumOf(xs) = Step(SumOf(xs))
  BY <1>4 DEF SumOf
<1>6. Sums(SumOf(xs), xs, Len(xs))
  <2> DEFINE h == SumOf(xs)
             Good == {n \in Nat : n <= Len(xs) => h[n] \in Int}
  <2>0. h = Step(h)
    BY <1>5
  <2> HIDE DEF h
  <2>1. h[0] = 0 /\ \A i \in 1..Len(xs) : h[i] = h[i - 1] + xs[i]
    <3>1. \A i \in 0..Len(xs) : h[i] = IF i = 0 THEN 0 ELSE h[i - 1] + xs[i]
      BY ONLY <2>0
    <3>2. Len(xs) \in Nat
      OBVIOUS
    <3>. QED BY ONLY <3>1, <3>2
  <2>2. 0 \in Good
    BY <2>1
  <2>3. ASSUME NEW n \in Nat, n \in Good PROVE n + 1 \in Good
    <3>1. SUFFICES ASSUME n + 1 <= Len(xs) PROVE h[n + 1] \in Int
      OBVIOUS
    <3>2. h[n] \in Int /\ xs[n + 1] \in Int /\ n + 1 \in 1..Len(xs)
      BY <2>3, <3>1
    <3>. QED BY <2>1, <3>2
  <2>4. Nat \subseteq Good
    <3> HIDE DEF Good
    <3>. QED BY <2>2, <2>3, Counting
  <2>5. \A i \in 0..Len(xs) : h[i] \in Int
    BY <2>4
  <2>7. Sums(h, xs, Len(xs))
    BY <2>1, <2>5 DEF Sums
  <2>. QED BY <2>7 DEF h
<1>7. Total(xs) = SumOf(xs)[Len(xs)]
  BY DEF Total, SumOf
<1>. QED BY <1>6, <1>7

\* The first n elements of xs are those of ys from k places on.
Shifted(xs, ys, n, k) == \A i \in 1..n : xs[i] \in Int /\ xs[i] = ys[i + k]

\* The sums of a sequence and of one that starts k places earlier differ by a
\* constant.
LEMMA SumsShift ==
  \A xs, ys, f, g, m : \A n, k \in Nat :
    m = n + k /\ Sums(f, xs, n) /\ Sums(g, ys, m) /\ Shifted(xs, ys, n, k)
      => f[n] = g[m] - g[k]
<1> SUFFICES ASSUME NEW xs, NEW ys, NEW f, NEW g, NEW m, NEW n \in Nat, NEW k \in Nat,
                    m = n + k, Sums(f, xs, n), Sums(g, ys, m), Shifted(xs, ys, n, k)
             PROVE  f[n] = g[m] - g[k]
  OBVIOUS
<1> DEFINE Good == {i \in Nat : i <= n => f[i] = g[i + k] - g[k]}
<1>1. 0 \in Good
  BY DEF Sums
<1>2. ASSUME NEW i \in Nat, i \in Good PROVE i + 1 \in Good
  <2>1. SUFFICES ASSUME i + 1 <= n PROVE f[i + 1] = g[i + 1 + k] - g[k]
    OBVIOUS
  <2>2. i + 1 \in 1..n /\ i + 1 + k \in 1..(n + k) /\ (i + 1) - 1 = i /\ (i + 1 + k) - 1 = i + k
    BY <2>1
  <2>3. f[i + 1] = f[i] + xs[i + 1] /\ g[i + 1 + k] = g[i + k] + ys[i + 1 + k]
    BY <2>2 DEF Sums
  <2>4. f[i] = g[i + k] - g[k] /\ xs[i + 1] = ys[i + 1 + k] /\ xs[i + 1] \in Int
    BY <1>2, <2>1, <2>2 DEF Shifted
  <2>5. g[i + k] \in Int /\ g[k] \in Int
    BY <2>1 DEF Sums
  <2>. QED BY ONLY <2>3, <2>4, <2>5
<1>3. Nat \subseteq Good
  <2> HIDE DEF Good
  <2>. QED BY <1>1, <1>2, Counting
<1>. QED BY <1>3

LEMMA TotalOfAppend ==
  ASSUME NEW xs \in Seq(Int), NEW x \in Int
  PROVE  Total(Append(xs, x)) = Total(xs) + x /\ Total(xs) \in Int
<1>1. PICK n, ys : n = Len(xs) /\ ys = Append(xs, x)
  OBVIOUS
<1>2. /\ n \in Nat /\ ys \in Seq(Int) /\ Len(ys) = n + 1 /\ ys[n + 1] = x
      /\ Shifted(xs, ys, n, 0)
  BY <1>1 DEF Shifted
<1>3. PICK f, g : f = SumOf(xs) /\ g = SumOf(ys)
  OBVIOUS
<1>4. Sums(f, xs, n) /\ Sums(g, ys, n + 1) /\ Total(xs) = f[n] /\ Total(ys) = g[n + 1]
  BY <1>1, <1>2, <1>3, SumsExist
<1>5. Sums(g, ys, n)
  BY <1>2, <1>4 DEF Sums
<1>6. f[n] = g[n] - g[0]
  <2>1. PICK k \in Nat : k = 0
    OBVIOUS
  <2>2. PICK m : m = n + k
    OBVIOUS
  <2>3. m = n /\ Shifted(xs, ys, n, k) /\ Sums(g, ys, m)
    BY <1>2, <1>5, <2>1, <2>2
  <2>4. f[n] = g[m] - g[k]
    <3>1. n \in Nat /\ k \in Nat /\ m = n + k /\ Sums(f, xs, n) /\ Sums(g, ys, m) /\ Shifted(xs, ys, n, k)
      BY <1>2, <1>4, <2>1, <2>2, <2>3
    <3>. QED BY <3>1, SumsShift
  <2>. QED BY <2>1, <2>3, <2>4
<1>7. g[n + 1] = g[n] + x /\ g[0] = 0 /\ f[n] \in Int /\ g[n] \in Int
  BY <1>2, <1>4 DEF Sums
<1>. QED BY <1>1, <1>2, <1>4, <1>6, <1>7

LEMMA TotalOfTail ==
  ASSUME NEW xs \in Seq(Int), xs # <<>>
  PROVE  Total(Tail(xs)) = Total(xs) - Head(xs)
<1>1. PICK n, ys : n = Len(xs) - 1 /\ ys = Tail(xs)
  OBVIOUS
<1>2. /\ n \in Nat /\ ys \in Seq(Int) /\ Len(ys) = n /\ Len(xs) = n + 1
      /\ xs[1] = Head(xs) /\ xs[1] \in Int
      /\ Shifted(ys, xs, n, 1)
  BY <1>1 DEF Shifted
<1>3. PICK f, g : f = SumOf(ys) /\ g = SumOf(xs)
  OBVIOUS
<1>4. Sums(f, ys, n) /\ Sums(g, xs, n + 1) /\ Total(ys) = f[n] /\ Total(xs) = g[n + 1]
  BY <1>1, <1>2, <1>3, SumsExist
<1>5. PICK m : m = n + 1
  OBVIOUS
<1>7. f[n] = g[m] - g[1]
  <2>1. Sums(g, xs, m) /\ 1 \in Nat
    BY <1>4, <1>5
  <2>. QED BY <1>2, <1>4, <1>5, <2>1, SumsShift
<1>6. g[1] = Head(xs)
  BY <1>2, <1>4 DEF Sums
<1>. QED BY <1>1, <1>4, <1>5, <1>6, <1>7

Squares(xs) == [i \in DOMAIN xs |-> xs[i] * xs[i]]

LEMMA SquaresOf ==
  ASSUME NEW xs \in Seq(Int), NEW x \in Int
  PROVE  /\ Squares(xs) \in Seq(Int)
         /\ Squares(Append(xs, x)) = Append(Squares(xs), x * x)
         /\ xs # <<>> => /\ Squares(Tail(xs)) = Tail(Squares(xs)) /\ Squares(xs) # <<>>
                         /\ Head(Squares(xs)) = Head(xs) * Head(xs)
<1>1. \A y \in Int : y * y \in Int
  OBVIOUS
<1>2. \A i \in 1..Len(xs) : xs[i] \in Int
  OBVIOUS
<1>3. PICK sq : sq = Squares(xs)
  OBVIOUS
<1>4. sq \in Seq(Int) /\ Len(sq) = Len(xs) /\ \A i \in 1..Len(xs) : sq[i] = xs[i] * xs[i]
  <2>1. DOMAIN xs = 1..Len(xs) /\ Len(xs) \in Nat
    OBVIOUS
  <2>2. sq = [i \in 1..Len(xs) |-> xs[i] * xs[i]]
    BY <1>3, <2>1 DEF Squares
  <2>3. \A i \in 1..Len(xs) : xs[i] * xs[i] \in Int
    BY <1>1, <1>2
  <2>. QED BY <2>1, <2>2, <2>3
<1>5. Squares(Append(xs, x)) = Append(sq, x * x)
  <2>1. PICK ys : ys = Append(xs, x)
    OBVIOUS
  <2>2. /\ ys \in Seq(Int) /\ DOMAIN ys = 1..(Len(xs) + 1) /\ ys[Len(xs) + 1] = x
        /\ \A i \in 1..Len(xs) : ys[i] = xs[i]
    BY <2>1
  <2>3. /\ DOMAIN Append(sq, x * x) = 1..(Len(xs) + 1)
        /\ \A i \in 1..(Len(xs) + 1) : Append(sq, x * x)[i] = ys[i] * ys[i]
    BY <1>1, <1>4, <2>2
  <2>4. Append(sq, x * x) = [i \in 1..(Len(xs) + 1) |-> Append(sq, x * x)[i]]
    BY <1>1, <1>4
  <2>. QED BY <2>1, <2>2, <2>3, <2>4 DEF Squares
<1>6. ASSUME xs # <<>> PROVE Squares(Tail(xs)) = Tail(sq)
  <2>1. PICK ys, tail, n : ys = Tail(xs) /\ tail = Tail(sq) /\ n = Len(xs) - 1
    OBVIOUS
  <2>2. n \in Nat /\ DOMAIN ys = 1..n /\ \A i \in 1..n : ys[i] = xs[i + 1]
    BY <1>6, <2>1
  <2>3. tail \in Seq(Int) /\ DOMAIN tail = 1..n /\ \A i \in 1..n : tail[i] = sq[i + 1]
    BY <1>4, <1>6, <2>1
  <2>4. \A i \in 1..n : tail[i] = ys[i] * ys[i]
    BY <1>4, <2>1, <2>2, <2>3
  <2>5. tail = [i \in 1..n |-> tail[i]]
    BY <2>3
  <2>. QED BY <2>1, <2>2, <2>4, <2>5 DEF Squares
<1>7. xs # <<>> => sq # <<>> /\ Head(sq) = Head(xs) * Head(xs)
  BY <1>4
<1>. QED BY <1>3, <1>4, <1>5, <1>6, <1>7

LEMMA LastTenOfAppend ==
  ASSUME NEW xs \in Seq(Int), NEW x \in Int
  PROVE  /\ LastTen(xs) \in Seq(Int)
         /\ LastTen(Append(xs, x)) = IF Len(LastTen(xs)) + 1 > 10
                                     THEN Tail(Append(LastTen(xs), x))
                                     ELSE Append(LastTen(xs), x)
<1>1. PICK n, ys : n = Len(xs) /\ ys = Append(xs, x)
  OBVIOUS
<1>2. n \in Nat /\ ys \in Seq(Int) /\ Len(ys) = n + 1
  BY <1>1
<1>3. CASE n < 10
  BY <1>1, <1>2, <1>3 DEF LastTen
<1>4. CASE n >= 10
  <2>1. LastTen(xs) = SubSeq(xs, n - 9, n)
    <3>1. SubSeq(xs, 1, n) = xs
      BY <1>1, SubSeqFull
    <3>2. LastTen(xs) = IF n <= 10 THEN xs ELSE SubSeq(xs, n - 9, n)
      BY <1>1 DEF LastTen
    <3>3. n <= 10 => n - 9 = 1
      BY <1>2, <1>4
    <3>. QED BY <3>1, <3>2, <3>3
  <2>2. LastTen(ys) = SubSeq(ys, n - 8, n + 1)
    BY <1>2, <1>4 DEF LastTen
  <2>3. PICK ten : ten = SubSeq(xs, n - 9, n)
    OBVIOUS
  <2>4. ten \in Seq(Int) /\ Len(ten) = 10
    BY <1>1, <1>2, <1>4, <2>3, SubSeqProperties
  <2>5. Append(ten, x) = SubSeq(ys, n - 9, n + 1)
    <3>1. ys = xs \o <<x>> /\ <<x>> \in Seq(Int)
      BY <1>1, AppendIsConcat
    <3>2. SubSeq(ys, n - 9, n) = ten
      <4>1. n - 9 \in 1..Len(xs) /\ n \in 1..Len(xs)
        BY <1>1, <1>2, <1>4
      <4>. QED BY <2>3, <3>1, <4>1, SubSeqOfConcat1
    <3>3. SubSeq(ys, n - 9, n + 1) = SubSeq(ys, n - 9, n) \o <<ys[n + 1]>>
      <4>1. n - 9 \in 1..Len(ys) /\ n + 1 \in (n - 9)..Len(ys) /\ (n + 1) - 1 = n
        BY <1>2, <1>4
      <4>. QED BY <1>2, <4>1, SubSeqRecursiveSecond
    <3>4. ys[n + 1] = x
      BY <1>1, AppendProperties
    <3>. QED BY <2>4, <3>2, <3>3, <3>4, AppendIsConcat
  <2>6. Tail(SubSeq(ys, n - 9, n + 1)) = SubSeq(ys, n - 8, n + 1)
    <3>1. n - 9 \in 1..Len(ys) /\ n + 1 \in (n - 9)..Len(ys) /\ (n - 9) + 1 = n - 8
      BY <1>2, <1>4
    <3>. QED BY <1>2, <3>1, HeadTailOfSubSeq
  <2>7. LastTen(ys) = Tail(Append(ten, x))
    BY ONLY <2>2, <2>5, <2>6
  <2>8. Len(ten) + 1 > 10
    BY <2>4
  <2>. QED BY <1>1, <2>1, <2>3, <2>4, <2>7, <2>8
<1>5. n < 10 \/ n >= 10
  BY <1>2
<1>. QED BY <1>3, <1>4, <1>5

(* What updateHistory() makes of the statistics of a window.               *)

StatsOf(window) ==
  [window |-> window, sum |-> Total(window), sum_of_squares |-> Total(Squares(window))]

LEMMA StatsOfIsStats ==
  ASSUME NEW xs \in Seq(Int)
  PROVE  StatsOf(xs) \in Stats
BY TotalOfAppend, SquaresOf DEF StatsOf, Stats

LEMMA HistoryUpdated ==
  ASSUME NEW xs \in Seq(Int), NEW x \in Int
  PROVE  updateHistory(StatsOf(xs), x) = IF Len(xs) + 1 > 10
                                        THEN StatsOf(Tail(Append(xs, x)))
                                        ELSE StatsOf(Append(xs, x))
<1>1. PICK ys : ys = Append(xs, x)
  OBVIOUS
<1>2. ys \in Seq(Int) /\ ys # <<>> /\ Head(ys) \in Int
  BY <1>1
<1>3. Total(ys) = Total(xs) + x
  BY <1>1, TotalOfAppend
<1>4. Squares(xs) \in Seq(Int) /\ x * x \in Int
  BY SquaresOf
<1>5. Total(Squares(ys)) = Total(Squares(xs)) + x * x
  BY <1>1, <1>4, SquaresOf, TotalOfAppend
<1>6. Pushed(StatsOf(xs), x) = StatsOf(ys)
  BY <1>1, <1>3, <1>5 DEF Pushed, StatsOf
<1>7. Total(Tail(ys)) = Total(ys) - Head(ys)
  BY <1>2, TotalOfTail
<1>8. /\ Squares(ys) \in Seq(Int) /\ Squares(Tail(ys)) = Tail(Squares(ys))
      /\ Squares(ys) # <<>> /\ Head(Squares(ys)) = Head(ys) * Head(ys)
  BY <1>2, SquaresOf
<1>9. Total(Squares(Tail(ys))) = Total(Squares(ys)) - Head(ys) * Head(ys)
  BY <1>8, TotalOfTail
<1>10. Evicted(StatsOf(ys)) = StatsOf(Tail(ys))
  BY <1>7, <1>9 DEF Evicted, StatsOf
<1>11. Len(StatsOf(xs).window) = Len(xs)
  BY DEF StatsOf
<1>. QED BY <1>1, <1>6, <1>10, <1>11 DEF updateHistory

\* What describes a window goes on to describe it.
LEMMA TickDescribed ==
  ASSUME NEW xs \in Seq(Int), NEW x \in Int
  PROVE  updateHistory(StatsOf(LastTen(xs)), x) = StatsOf(LastTen(Append(xs, x)))
<1>1. PICK ten : ten = LastTen(xs)
  OBVIOUS
<1>2. ten \in Seq(Int)
  BY <1>1, LastTenOfAppend
<1>3. LastTen(Append(xs, x)) = IF Len(ten) + 1 > 10 THEN Tail(Append(ten, x)) ELSE Append(ten, x)
  BY <1>1, LastTenOfAppend
<1>4. updateHistory(StatsOf(ten), x) = IF Len(ten) + 1 > 10 THEN StatsOf(Tail(Append(ten, x)))
                                                          ELSE StatsOf(Append(ten, x))
  BY <1>2, HistoryUpdated
<1>. QED BY <1>1, <1>3, <1>4

\* The orders that carry signal k.
Carry(os, k) == {i \in DOMAIN os : k \in os[i].from}

LEMMA CountOfAppend ==
  ASSUME NEW sent \in Seq(Placed), NEW o \in Placed, NEW k \in 1..4
  PROVE  Cardinality(Carry(Append(sent, o), k))
           = Cardinality(Carry(sent, k)) + (IF k \in o.from THEN 1 ELSE 0)
<1>0. PICK n, more : n = Len(sent) /\ more = Append(sent, o)
  OBVIOUS
<1>1. /\ n \in Nat /\ DOMAIN sent = 1..n /\ DOMAIN more = 1..(n + 1)
      /\ more[n + 1] = o /\ \A i \in 1..n : more[i] = sent[i]
  BY <1>0
<1>2. Carry(sent, k) \subseteq 1..n /\ n + 1 \notin Carry(sent, k)
  BY <1>1 DEF Carry
<1>3. IsFiniteSet(Carry(sent, k)) /\ Cardinality(Carry(sent, k)) \in Nat
  <2>1. IsFiniteSet(1..n)
    BY <1>1, FS_Interval
  <2>. QED BY <1>2, <2>1, FS_Subset, FS_CardinalityType
<1>4. 1..(n + 1) = 1..n \cup {n + 1}
  BY <1>1
<1>5. Carry(more, k) = Carry(sent, k) \cup (IF k \in o.from THEN {n + 1} ELSE {})
  BY <1>1, <1>4 DEF Carry
<1>6. CASE k \in o.from
  BY <1>0, <1>2, <1>3, <1>5, <1>6, FS_AddElement
<1>7. CASE k \notin o.from
  BY <1>0, <1>3, <1>5, <1>7
<1>. QED BY <1>6, <1>7

LEMMA EngineStarts == EngineInit => EngineInv
<1> SUFFICES ASSUME EngineInit PROVE EngineInv
  OBVIOUS
<1>1. Total(<<>>) = 0
  <2>1. <<>> \in Seq(Int) /\ Len(<<>>) = 0
    OBVIOUS
  <2>. QED BY <2>1, SumsExist DEF Sums
<1>2. LastTen(<<>>) = <<>> /\ Squares(<<>>) = <<>>
  BY DEF LastTen, Squares
<1>3. NoStats = StatsOf(<<>>)
  BY <1>1, <1>2 DEF NoStats, StatsOf
<1>4. EngineType
  <2>1. NoStats \in Stats
    <3>1. <<>> \in Seq(Int)
      OBVIOUS
    <3>. QED BY <1>3, <3>1, StatsOfIsStats
  <2>2. market_data \in Seq(Tick) /\ orders \in Seq(Placed) /\ processed \in Nat
    BY DEF EngineInit
  <2>3. price_history \in [Ids -> Stats] /\ arrived \in [Ids -> Seq(Int)] /\ s \in [1..4 -> Nat]
    BY <2>1 DEF EngineInit
  <2>. QED BY <2>2, <2>3 DEF EngineType
<1>5. \A k \in 1..4 : Carry(orders, k) = {}
  BY DEF EngineInit, Carry
<1>6. \A k \in 1..4 : s[k] = Cardinality(Carry(orders, k))
  BY <1>5, FS_EmptySet DEF EngineInit
<1>. QED BY <1>2, <1>3, <1>4, <1>6
        DEF EngineInit, EngineInv, StatsDescribeTheWindow, StatsOf, Squares, Carry

LEMMA StatsAre ==
  StatsDescribeTheWindow <=>
    /\ \A id \in Ids : price_history[id] = StatsOf(LastTen(arrived[id]))
    /\ \A k \in 1..4 : s[k] = Cardinality(Carry(orders, k))
BY DEF StatsDescribeTheWindow, StatsOf, Squares, Carry

LEMMA ProcessKeeps == EngineInv /\ process => EngineInv'
<1> SUFFICES ASSUME EngineInv, process PROVE EngineInv'
  OBVIOUS
<1>1. PICK tick : tick = market_data[processed + 1]
  OBVIOUS
<1>2. tick \in Tick /\ tick.id \in Ids /\ tick.price \in Int
  <2>1. market_data \in Seq(Tick) /\ processed + 1 \in 1..Len(market_data)
    BY DEF EngineInv, EngineType, process
  <2>2. tick \in Tick
    BY <1>1, <2>1
  <2>. QED BY <2>2 DEF Tick
<1>3. PICK id, xs, x : id = tick.id /\ x = tick.price /\ xs = arrived[id]
  OBVIOUS
<1>4. id \in Ids /\ x \in Int /\ xs \in Seq(Int)
  BY <1>2, <1>3 DEF EngineInv, EngineType
<1>5. PICK ps : ps = updateHistory(price_history[id], x)
  OBVIOUS
<1>6. PICK from : from = Signals(ps, x)
  OBVIOUS
<1>7. PICK buy : buy = (from \cap {1, 3} # {} \/ (from # {} /\ BelowAvg(ps, x)))
  OBVIOUS
<1>8. /\ price_history' = [price_history EXCEPT ![id] = ps]
      /\ arrived' = [arrived EXCEPT ![id] = Append(@, x)]
      /\ s' = [k \in 1..4 |-> s[k] + (IF k \in from THEN 1 ELSE 0)]
      /\ orders' = IF from = {} THEN orders
                   ELSE Append(orders, [id |-> id, is_buy |-> buy, from |-> from])
      /\ processed' = processed + 1 /\ market_data' = market_data
  BY <1>1, <1>3, <1>5, <1>6, <1>7 DEF process
<1>9. ps = StatsOf(LastTen(Append(xs, x)))
  BY <1>3, <1>4, <1>5, StatsAre, TickDescribed DEF EngineInv
<1>10. ps \in Stats
  <2>1. Append(xs, x) \in Seq(Int)
    BY <1>4
  <2>2. LastTen(Append(xs, x)) \in Seq(Int)
    BY <1>4, <2>1, LastTenOfAppend
  <2>. QED BY <1>9, <2>2, StatsOfIsStats
<1>11. PICK o : o = [id |-> id, is_buy |-> buy, from |-> from]
  OBVIOUS
<1>12. o \in Placed /\ from \subseteq 1..4 /\ o.from = from
  BY <1>4, <1>6, <1>7, <1>11 DEF Placed, Signals
<1>13. orders' = (IF from = {} THEN orders ELSE Append(orders, o)) /\ orders \in Seq(Placed)
  BY <1>8, <1>11 DEF EngineInv, EngineType
<1>14. EngineType'
  <2>1. price_history' \in [Ids -> Stats]
    BY <1>8, <1>10 DEF EngineInv, EngineType
  <2>2. arrived' \in [Ids -> Seq(Int)]
    BY <1>4, <1>8 DEF EngineInv, EngineType
  <2>3. s' \in [1..4 -> Nat]
    BY <1>8 DEF EngineInv, EngineType
  <2>4. orders' \in Seq(Placed)
    BY <1>12, <1>13
  <2>5. market_data' \in Seq(Tick) /\ processed' \in Nat
    BY <1>8 DEF EngineInv, EngineType
  <2>6. UNCHANGED <<Tick, Ids, Stats, Placed>>
    BY DEF Tick, Ids, Stats, Placed
  <2>. QED BY <2>1, <2>2, <2>3, <2>4, <2>5, <2>6 DEF EngineType
<1>15. ASSUME NEW i \in Ids PROVE (price_history[i] = StatsOf(LastTen(arrived[i])))'
  <2>1. price_history \in [Ids -> Stats] /\ arrived \in [Ids -> Seq(Int)]
    BY DEF EngineInv, EngineType
  <2>2. i # id => price_history[i] = StatsOf(LastTen(arrived[i]))
    BY StatsAre DEF EngineInv
  <2>3. CASE i = id
    <3>1. price_history'[i] = ps /\ arrived'[i] = Append(xs, x)
      BY <1>3, <1>4, <1>8, <2>1, <2>3
    <3>. QED BY <1>9, <3>1
  <2>4. CASE i # id
    <3>1. price_history'[i] = price_history[i] /\ arrived'[i] = arrived[i]
      BY <1>8, <2>1, <2>4
    <3>. QED BY <2>2, <2>4, <3>1
  <2>. QED BY <2>3, <2>4
<1>16. ASSUME NEW k \in 1..4
       PROVE  (s[k] = Cardinality(Carry(orders, k)))'
  <2>1. /\ s[k] = Cardinality(Carry(orders, k))
        /\ s[k] \in Nat /\ s'[k] = s[k] + (IF k \in from THEN 1 ELSE 0)
    BY <1>8, StatsAre DEF EngineInv, EngineType
  <2>2. CASE from = {}
    BY <1>13, <2>1, <2>2
  <2>3. CASE from # {}
    <3>1. orders' = Append(orders, o)
      BY <1>13, <2>3
    <3>2. Cardinality(Carry(orders', k)) = Cardinality(Carry(orders, k))
                                             + (IF k \in o.from THEN 1 ELSE 0)
      BY <1>12, <1>13, <3>1, CountOfAppend
    <3>. QED BY <1>12, <2>1, <3>2
  <2>. QED BY <2>2, <2>3
<1>17. StatsDescribeTheWindow'
  BY <1>15, <1>16 DEF StatsDescribeTheWindow, StatsOf, Squares, Carry
<1>. QED BY <1>14, <1>17 DEF EngineInv

\* generateData() makes sequences of ticks of the instruments.
LEMMA FeedsAreTicks ==
  ASSUME NEW feed \in generateData
  PROVE  feed \in Seq(Tick)
<1>1. PICK n \in Steady, first \in Ticks, rest \in BoundedSeq(Ticks, MaxTicks) :
        feed = Feed([i \in 1..n |-> first] \o rest)
  BY DEF generateData
<1>2. rest \in Seq(Int) /\ first \in Int /\ n \in Nat
  <2>1. PICK m \in 0..MaxTicks : rest \in [1..m -> Ticks]
    BY DEF BoundedSeq, SeqOf
  <2>2. m \in Nat
    BY FeedsAreFinite
  <2>4. Ticks \subseteq Int
    BY FeedsAreFinite
  <2>5. rest \in [1..m -> Int]
    BY ONLY <2>1, <2>4
  <2>3. rest \in Seq(Int)
    BY <2>2, <2>5
  <2>. QED BY <2>3, FeedsAreFinite
<1>3. PICK prices : prices = [i \in 1..n |-> first] \o rest
  OBVIOUS
<1>4. prices \in Seq(Int)
  <2>1. [i \in 1..n |-> first] \in Seq(Int)
    BY <1>2
  <2>. QED BY <1>2, <1>3, <2>1
<1>5. \A i \in Nat \ {0} : (i - 1) % Instruments \in Ids
  BY SomeInstruments DEF Ids
<1>6. \A i \in 1..Len(prices) : [id |-> (i - 1) % Instruments, price |-> prices[i]] \in Tick
  BY <1>4, <1>5 DEF Tick
<1>7. feed = [i \in 1..Len(prices) |-> [id |-> (i - 1) % Instruments, price |-> prices[i]]]
  <2>1. feed = Feed(prices)
    BY <1>1, <1>3
  <2>2. DOMAIN prices = 1..Len(prices)
    BY <1>4
  <2>. QED BY ONLY <2>1, <2>2 DEF Feed
<1>. QED BY <1>4, <1>6, <1>7

LEMMA EngineCalled ==
  EngineInv /\ market_data' \in generateData
    /\ UNCHANGED <<processed, price_history, s, orders, arrived>> => EngineInv'
BY FeedsAreTicks DEF EngineInv, EngineType, StatsDescribeTheWindow, Tick, Ids, Stats, Placed

LEMMA EngineRests == EngineInv /\ UNCHANGED engineVars => EngineInv'
BY DEF EngineInv, EngineType, StatsDescribeTheWindow, engineVars, Tick, Ids

-----------------------------------------------------------------------------
(* Unrolled loops visit what the plain ones do.                            *)

\* The u offsets from p on, and those from p to n - 1.
Run(p, u) == [i \in 1..u |-> p + i - 1]
From(p, n) == IF p < n THEN Run(p, n - p) ELSE <<>>

LEMMA RunType ==
  \A p, u \in Nat : /\ Run(p, u) \in Seq(Int) /\ Len(Run(p, u)) = u
                    /\ \A i \in 1..u : Run(p, u)[i] = p + i - 1
BY DEF Run

LEMMA FromSplit ==
  \A p, n \in Nat, u \in Nat \ {0} : p + u <= n => Run(p, u) \o From(p + u, n) = From(p, n)
<1> SUFFICES ASSUME NEW p \in Nat, NEW n \in Nat, NEW u \in Nat \ {0}, p + u <= n
             PROVE  Run(p, u) \o From(p + u, n) = From(p, n)
  OBVIOUS
<1>1. PICK front, back, all : front = Run(p, u) /\ back = From(p + u, n) /\ all = From(p, n)
  OBVIOUS
<1>0. PICK k, m : k = n - (p + u) /\ m = n - p
  OBVIOUS
<1>2. front \in Seq(Int) /\ Len(front) = u /\ \A i \in 1..u : front[i] = p + i - 1
  BY <1>1, RunType
<1>3. back \in Seq(Int) /\ Len(back) = k /\ \A i \in 1..k : back[i] = p + u + i - 1
  <2>1. k \in Nat /\ p + u \in Nat
    BY <1>0
  <2>2. CASE p + u < n
    BY <1>0, <1>1, <2>1, <2>2, RunType DEF From
  <2>3. CASE p + u = n
    <3>1. back = <<>> /\ k = 0
      BY <1>0, <1>1, <2>3 DEF From
    <3>. QED BY <3>1
  <2>. QED BY <2>2, <2>3
<1>4. all \in Seq(Int) /\ Len(all) = m /\ \A i \in 1..m : all[i] = p + i - 1
  <2>1. m \in Nat /\ p < n
    BY <1>0
  <2>. QED BY <1>0, <1>1, <2>1, RunType DEF From
<1>5. PICK joined : joined = front \o back
  OBVIOUS
<1>6. /\ joined \in Seq(Int) /\ Len(joined) = u + k
      /\ \A i \in 1..(u + k) : joined[i] = IF i <= u THEN front[i] ELSE back[i - u]
  BY <1>2, <1>3, <1>5, ConcatProperties
<1>7. u + k = m /\ k \in Nat /\ m \in Nat
  BY <1>0
<1>8. ASSUME NEW i \in 1..m PROVE joined[i] = all[i]
  <2>1. CASE i <= u
    <3>1. i \in 1..u /\ joined[i] = front[i]
      BY <1>6, <1>7, <2>1
    <3>. QED BY <1>2, <1>4, <3>1
  <2>2. CASE i > u
    <3>1. i - u \in 1..k /\ joined[i] = back[i - u]
      BY <1>6, <1>7, <2>2
    <3>2. back[i - u] = p + u + (i - u) - 1
      BY <1>3, <3>1
    <3>. QED BY <1>4, <3>1, <3>2
  <2>. QED BY <2>1, <2>2
<1>9. joined = all
  BY <1>4, <1>6, <1>7, <1>8, SeqEqual
<1>. QED BY <1>1, <1>5, <1>9

LEMMA ShortRuns == \A p \in Nat : Run(p, 1) = <<p>> /\ Run(p, 2) = <<p, p + 1>>
<1>1. ASSUME NEW p \in Nat PROVE Run(p, 1) = <<p>>
  <2>0. PICK u \in Nat : u = 1
    OBVIOUS
  <2>3. Run(p, u) \in Seq(Int) /\ Len(Run(p, u)) = u /\ \A i \in 1..u : Run(p, u)[i] = p + i - 1
    BY RunType
  <2>1. Run(p, 1) \in Seq(Int) /\ Len(Run(p, 1)) = 1 /\ Run(p, 1)[1] = p
    BY <2>0, <2>3
  <2>2. <<p>> \in Seq(Int) /\ Len(<<p>>) = 1 /\ <<p>>[1] = p
    OBVIOUS
  <2>. QED BY <2>1, <2>2, SeqEqual
<1>2. ASSUME NEW p \in Nat PROVE Run(p, 2) = <<p, p + 1>>
  <2>0. PICK u \in Nat : u = 2
    OBVIOUS
  <2>5. Run(p, u) \in Seq(Int) /\ Len(Run(p, u)) = u /\ \A i \in 1..u : Run(p, u)[i] = p + i - 1
    BY RunType
  <2>1. Run(p, 2) \in Seq(Int) /\ Len(Run(p, 2)) = 2 /\ Run(p, 2)[1] = p /\ Run(p, 2)[2] = p + 1
    BY <2>0, <2>5
  <2>2. PICK two : two = <<p, p + 1>>
    OBVIOUS
  <2>3. two \in Seq(Int) /\ Len(two) = 2 /\ two[1] = p /\ two[2] = p + 1
    BY <2>2
  <2>4. Run(p, 2) = two
    BY <2>1, <2>3, SeqEqual
  <2>. QED BY <2>2, <2>4
<1>. QED BY <1>1, <1>2

LEMMA ShortSplit ==
  \A p, n \in Nat : /\ p + 1 <= n => <<p>> \o From(p + 1, n) = From(p, n)
                    /\ p + 2 <= n => <<p, p + 1>> \o From(p + 2, n) = From(p, n)
<1>1. ASSUME NEW p \in Nat, NEW n \in Nat, NEW u \in Nat \ {0}, p + u <= n
      PROVE  Run(p, u) \o From(p + u, n) = From(p, n)
  BY <1>1, FromSplit
<1>2. ASSUME NEW p \in Nat, NEW n \in Nat, p + 1 <= n
      PROVE  <<p>> \o From(p + 1, n) = From(p, n)
  <2>1. PICK u \in Nat \ {0} : u = 1
    OBVIOUS
  <2>2. Run(p, u) \o From(p + u, n) = From(p, n)
    BY <1>1, <1>2, <2>1
  <2>. QED BY <2>1, <2>2, ShortRuns
<1>3. ASSUME NEW p \in Nat, NEW n \in Nat, p + 2 <= n
      PROVE  <<p, p + 1>> \o From(p + 2, n) = From(p, n)
  <2>1. PICK u \in Nat \ {0} : u = 2
    OBVIOUS
  <2>2. Run(p, u) \o From(p + u, n) = From(p, n)
    BY <1>1, <1>3, <2>1
  <2>. QED BY <2>1, <2>2, ShortRuns
<1>. QED BY <1>2, <1>3

LEMMA FromAll == \A n \in Nat : From(0, n) = Upto(n)
BY DEF From, Upto, Run

\* f is right where the loop ends, and a turn of u offsets keeps it right.
TurnsKeep(f, n, limit, u) ==
  /\ \A p \in Nat : p >= limit => f[p] = From(p, n)
  /\ \A p \in Nat : p < limit => (f[p + u] = From(p + u, n) => f[p] = From(p, n))

\* Then it is right everywhere: limit - p falls with every turn.
LEMMA TurnsAreFrom ==
  ASSUME NEW n, NEW limit \in Int, NEW u \in Nat \ {0}, NEW f, TurnsKeep(f, n, limit, u)
  PROVE  \A p \in Nat : f[p] = From(p, n)
<1> DEFINE Good == {d \in Nat : \A p \in Nat : p + d >= limit => f[p] = From(p, n)}
<1>1. 0 \in Good
  BY DEF TurnsKeep
<1>2. ASSUME NEW d \in Nat, d \in Good PROVE d + 1 \in Good
  <2>1. ASSUME NEW p \in Nat, p + (d + 1) >= limit, p < limit PROVE f[p] = From(p, n)
    <3>1. PICK q \in Nat : q = p + u
      OBVIOUS
    <3>2. q + d >= limit
      BY <2>1, <3>1
    <3>3. f[q] = From(q, n)
      BY <1>2, <3>2
    <3>. QED BY <2>1, <3>1, <3>3 DEF TurnsKeep
  <2>2. ASSUME NEW p \in Nat, p >= limit PROVE f[p] = From(p, n)
    BY <2>2 DEF TurnsKeep
  <2>3. \A p \in Nat : p < limit \/ p >= limit
    OBVIOUS
  <2>. QED BY <2>1, <2>2, <2>3
<1>3. Nat \subseteq Good
  <2> HIDE DEF Good
  <2>. QED BY <1>1, <1>2, Counting
<1>4. ASSUME NEW p \in Nat PROVE f[p] = From(p, n)
  <2>1. CASE p >= limit
    BY <2>1 DEF TurnsKeep
  <2>2. CASE p < limit
    <3>1. PICK d \in Nat : d = limit - p
      BY <2>2
    <3>2. p + d >= limit
      BY <3>1
    <3>. QED BY <1>3, <3>2
  <2>. QED BY <2>1, <2>2
<1>. QED BY <1>4

\* The remaining offsets, singly.
RestOf(n) == CHOOSE f : f = [p \in Nat |-> IF p < n THEN <<p>> \o f[p + 1] ELSE <<>>]

LEMMA RestIsFrom ==
  \A n \in Nat : \A p \in Nat : RestOf(n)[p] = From(p, n)
<1> SUFFICES ASSUME NEW n \in Nat PROVE \A p \in Nat : RestOf(n)[p] = From(p, n)
  OBVIOUS
<1> DEFINE Turn(f) == [p \in Nat |-> IF p < n THEN <<p>> \o f[p + 1] ELSE <<>>]
           all == [p \in Nat |-> From(p, n)]
<1>1. ASSUME NEW p \in Nat PROVE From(p, n) = IF p < n THEN <<p>> \o From(p + 1, n) ELSE <<>>
  <2>1. CASE p < n
    <3>1. p + 1 <= n
      BY <2>1
    <3>. QED BY <2>1, <3>1, ShortSplit
  <2>2. CASE ~(p < n)
    BY <2>2 DEF From
  <2>. QED BY <2>1, <2>2
<1>2. all = Turn(all)
  <2>1. \A p \in Nat : p + 1 \in Nat
    OBVIOUS
  <2>. QED BY <1>1, <2>1
<1>3. PICK f : f = RestOf(n)
  OBVIOUS
<1>4. f = Turn(f)
  <2> HIDE DEF all
  <2>. QED BY <1>2, <1>3 DEF RestOf
<1>5. \A p \in Nat : f[p] = IF p < n THEN <<p>> \o f[p + 1] ELSE <<>>
  BY ONLY <1>4
<1>7. ASSUME NEW p \in Nat, p >= n PROVE f[p] = From(p, n)
  <2>0. ~(p < n)
    BY <1>7
  <2>1. f[p] = <<>>
    BY <1>5, <2>0, Zenon
  <2>2. From(p, n) = <<>>
    BY <1>7 DEF From
  <2>. QED BY <2>1, <2>2
<1>8. ASSUME NEW p \in Nat, p < n, f[p + 1] = From(p + 1, n) PROVE f[p] = From(p, n)
  BY <1>1, <1>5, <1>8
<1>9. \A p \in Nat : f[p] = From(p, n)
  <2>1. PICK u \in Nat \ {0} : u = 1
    OBVIOUS
  <2>2. n \in Int
    OBVIOUS
  <2>3. TurnsKeep(f, n, n, u)
    BY <1>7, <1>8, <2>1 DEF TurnsKeep
  <2>. QED BY ONLY <2>2, <2>3, u \in Nat \ {0}, TurnsAreFrom
<1>. QED BY <1>3, <1>9

MainOf(n, u, limit, rest) ==
  CHOOSE f : f = [p \in Nat |-> IF p < limit THEN Run(p, u) \o f[p + u] ELSE rest[p]]

\* A loop that takes u offsets at a time, and the rest singly, visits every offset
\* once and in order if what it takes at a time is always there.
LEMMA SweepIsPlain ==
  \A n \in Nat, u \in Nat \ {0}, limit \in Int : limit + u - 1 <= n => Sweep(n, u, limit) = Upto(n)
<1> SUFFICES ASSUME NEW n \in Nat, NEW u \in Nat \ {0}, NEW limit \in Int, limit + u - 1 <= n
             PROVE  Sweep(n, u, limit) = Upto(n)
  OBVIOUS
<1>1. PICK rest : rest = RestOf(n)
  OBVIOUS
<1>2. \A p \in Nat : rest[p] = From(p, n)
  BY <1>1, RestIsFrom
<1> DEFINE Turn(f) == [p \in Nat |-> IF p < limit THEN Run(p, u) \o f[p + u] ELSE rest[p]]
           all == [p \in Nat |-> From(p, n)]
<1>3. ASSUME NEW p \in Nat, p < limit PROVE Run(p, u) \o From(p + u, n) = From(p, n)
  <2>1. p + u <= n
    BY <1>3
  <2>. QED BY <2>1, FromSplit
<1>4. all = Turn(all)
  <2>1. \A p \in Nat : p + u \in Nat
    OBVIOUS
  <2>. QED BY <1>2, <1>3, <2>1
<1>5. PICK f : f = MainOf(n, u, limit, rest)
  OBVIOUS
<1>6. f = Turn(f)
  <2> HIDE DEF all
  <2>. QED BY <1>4, <1>5 DEF MainOf
<1>7. \A p \in Nat : f[p] = IF p < limit THEN Run(p, u) \o f[p + u] ELSE rest[p]
  BY ONLY <1>6
<1>9. ASSUME NEW p \in Nat, p >= limit PROVE f[p] = From(p, n)
  <2>1. f[p] = rest[p]
    BY <1>7, <1>9
  <2>. QED BY <1>2, <2>1
<1>10. ASSUME NEW p \in Nat, p < limit, f[p + u] = From(p + u, n) PROVE f[p] = From(p, n)
  BY <1>3, <1>7, <1>10
<1>11. f[0] = From(0, n)
  <2>1. TurnsKeep(f, n, limit, u)
    BY <1>9, <1>10 DEF TurnsKeep
  <2>2. \A p \in Nat : f[p] = From(p, n)
    BY ONLY <2>1, limit \in Int, u \in Nat \ {0}, TurnsAreFrom
  <2>. QED BY <2>2
<1>12. Sweep(n, u, limit) = f[0]
  BY <1>1, <1>5 DEF Sweep, MainOf, RestOf, Run
<1>. QED BY <1>11, <1>12, FromAll

PairsOf(n) ==
  CHOOSE f : f = [i \in Nat |-> IF i < n THEN (IF i + 1 < n THEN <<i, i + 1>> ELSE <<i>>) \o f[i + 2]
                                         ELSE <<>>]

\* Two orders at a time, and the one left over.
LEMMA PairsArePlain ==
  \A n \in Nat : processOrdersUnrolled(n) = Upto(n)
<1> SUFFICES ASSUME NEW n \in Nat PROVE processOrdersUnrolled(n) = Upto(n)
  OBVIOUS
<1> DEFINE Turn(f) == [i \in Nat |-> IF i < n THEN (IF i + 1 < n THEN <<i, i + 1>> ELSE <<i>>) \o f[i + 2]
                                              ELSE <<>>]
           all == [p \in Nat |-> From(p, n)]
<1>1. ASSUME NEW p \in Nat
      PROVE  From(p, n) = IF p < n THEN (IF p + 1 < n THEN <<p, p + 1>> ELSE <<p>>) \o From(p + 2, n)
                                   ELSE <<>>
  <2>1. CASE p + 1 < n
    <3>1. p + 2 <= n /\ p < n
      BY <2>1
    <3>. QED BY <2>1, <3>1, ShortSplit
  <2>2. CASE p + 1 = n
    <3>1. p + 1 <= n /\ p < n /\ ~(p + 1 < n)
      BY <2>2
    <3>2. From(p + 2, n) = <<>> /\ From(p + 1, n) = <<>>
      BY <2>2 DEF From
    <3>. QED BY <3>1, <3>2, ShortSplit
  <2>3. CASE p >= n
    BY <2>3 DEF From
  <2>. QED BY <2>1, <2>2, <2>3
<1>2. all = Turn(all)
  <2>1. \A p \in Nat : p + 2 \in Nat
    OBVIOUS
  <2>. QED BY <1>1, <2>1
<1>3. PICK f : f = PairsOf(n)
  OBVIOUS
<1>4. f = Turn(f)
  <2> HIDE DEF all
  <2>. QED BY <1>2, <1>3 DEF PairsOf
<1>5. \A p \in Nat : f[p] = IF p < n THEN (IF p + 1 < n THEN <<p, p + 1>> ELSE <<p>>) \o f[p + 2]
                                    ELSE <<>>
  BY ONLY <1>4
<1>7. ASSUME NEW p \in Nat, p >= n PROVE f[p] = From(p, n)
  <2>0. ~(p < n)
    BY <1>7
  <2>1. f[p] = <<>>
    BY <1>5, <2>0, Zenon
  <2>2. From(p, n) = <<>>
    BY <1>7 DEF From
  <2>. QED BY <2>1, <2>2
<1>8. ASSUME NEW p \in Nat, p < n, f[p + 2] = From(p + 2, n) PROVE f[p] = From(p, n)
  BY <1>1, <1>5, <1>8
<1>9. f[0] = From(0, n)
  <2>1. PICK u \in Nat \ {0} : u = 2
    OBVIOUS
  <2>2. n \in Int
    OBVIOUS
  <2>3. TurnsKeep(f, n, n, u)
    BY <1>7, <1>8, <2>1 DEF TurnsKeep
  <2>4. \A p \in Nat : f[p] = From(p, n)
    BY ONLY <2>2, <2>3, u \in Nat \ {0}, TurnsAreFrom
  <2>. QED BY <2>4
<1>10. processOrdersUnrolled(n) = f[0]
  BY <1>3 DEF processOrdersUnrolled, PairsOf
<1>. QED BY <1>9, <1>10, FromAll

-----------------------------------------------------------------------------
(* Loops inside loops.                                                     *)

\* The sequence holds the members of S, each at one place.
Lists(seq, S) ==
  /\ seq \in Seq(S)
  /\ \A x \in S : \E i \in 1..Len(seq) : seq[i] = x
  /\ \A i, j \in 1..Len(seq) : seq[i] = seq[j] => i = j

LEMMA ListsAreOnce ==
  ASSUME NEW seq, NEW S, Lists(seq, S)
  PROVE  ListsOnce(seq, S)
<1>1. Len(seq) \in Nat /\ DOMAIN seq = 1..Len(seq) /\ seq \in [1..Len(seq) -> S]
  BY DEF Lists
<1>2. seq \in Bijection(1..Len(seq), S)
  BY <1>1 DEF Lists, Bijection, Injection, Surjection, IsInjective
<1>3. IsFiniteSet(1..Len(seq)) /\ Cardinality(1..Len(seq)) = Len(seq)
  BY <1>1, FS_Interval
<1>4. Cardinality(S) = Len(seq)
  BY <1>2, <1>3, FS_Bijection DEF ExistsBijection
<1>5. ToSet(seq) = S
  BY <1>1 DEF ToSet, Lists
<1>. QED BY <1>4, <1>5 DEF ListsOnce

LEMMA ListsJoin ==
  ASSUME NEW s1, NEW S, NEW s2, NEW T, Lists(s1, S), Lists(s2, T), S \cap T = {}
  PROVE  Lists(s1 \o s2, S \cup T)
<1>0. PICK m, k, joined : m = Len(s1) /\ k = Len(s2) /\ joined = s1 \o s2
  OBVIOUS
<1>1. m \in Nat /\ k \in Nat /\ s1 \in Seq(S \cup T) /\ s2 \in Seq(S \cup T)
  BY <1>0 DEF Lists
<1>2. /\ joined \in Seq(S \cup T) /\ Len(joined) = m + k
      /\ \A i \in 1..(m + k) : joined[i] = IF i <= m THEN s1[i] ELSE s2[i - m]
  BY <1>0, <1>1, ConcatProperties
<1>3. \A i \in 1..m : joined[i] = s1[i] /\ s1[i] \in S
  BY <1>0, <1>1, <1>2 DEF Lists
<1>4. \A i \in 1..(m + k) : i > m => i - m \in 1..k /\ joined[i] = s2[i - m] /\ s2[i - m] \in T
  BY <1>0, <1>1, <1>2 DEF Lists
<1>5. ASSUME NEW x \in S \cup T PROVE \E i \in 1..(m + k) : joined[i] = x
  <2>1. CASE x \in S
    <3>1. PICK i \in 1..m : s1[i] = x
      BY <1>0, <2>1 DEF Lists
    <3>2. i \in 1..(m + k)
      BY <1>1
    <3>. QED BY <1>3, <3>1, <3>2
  <2>2. CASE x \in T
    <3>1. PICK j \in 1..k : s2[j] = x
      BY <1>0, <2>2 DEF Lists
    <3>2. PICK i : i = m + j
      OBVIOUS
    <3>3. i \in 1..(m + k) /\ i > m /\ i - m = j
      BY <1>1, <3>2
    <3>. QED BY <1>4, <3>1, <3>3
  <2>. QED BY <2>1, <2>2
<1>6. ASSUME NEW i \in 1..(m + k), NEW j \in 1..(m + k), joined[i] = joined[j] PROVE i = j
  <2>1. CASE i <= m /\ j <= m
    <3>1. i \in 1..m /\ j \in 1..m
      BY <1>1, <2>1
    <3>. QED BY <1>0, <1>3, <1>6, <3>1 DEF Lists
  <2>2. CASE i > m /\ j > m
    <3>1. i - m \in 1..k /\ j - m \in 1..k /\ s2[i - m] = s2[j - m]
      BY <1>4, <1>6, <2>2
    <3>2. i - m = j - m
      BY <1>0, <3>1 DEF Lists
    <3>. QED BY <1>1, <3>2
  <2>3. CASE i <= m /\ j > m
    <3>1. i \in 1..m
      BY <1>1, <2>3
    <3>2. joined[i] \in S /\ joined[j] \in T
      BY <1>3, <1>4, <2>3, <3>1
    <3>. QED BY <1>6, <3>2
  <2>4. CASE j <= m /\ i > m
    <3>1. j \in 1..m
      BY <1>1, <2>4
    <3>2. joined[j] \in S /\ joined[i] \in T
      BY <1>3, <1>4, <2>4, <3>1
    <3>. QED BY <1>6, <3>2
  <2>. QED BY <1>1, <2>1, <2>2, <2>3, <2>4
<1>7. Lists(joined, S \cup T)
  BY <1>1, <1>2, <1>5, <1>6 DEF Lists
<1>. QED BY <1>0, <1>7

\* What is done at each member is listed once if no two members are done alike.
LEMMA ListsImage ==
  ASSUME NEW seq, NEW S, Lists(seq, S), NEW g,
         \A x, y \in S : g[x] = g[y] => x = y
  PROVE  Lists([n \in DOMAIN seq |-> g[seq[n]]], {g[x] : x \in S})
<1>0. PICK m : m = Len(seq)
  OBVIOUS
<1>1. m \in Nat /\ DOMAIN seq = 1..m /\ \A i \in 1..m : seq[i] \in S
  BY <1>0 DEF Lists
<1>2. PICK image : image = [n \in 1..m |-> g[seq[n]]]
  OBVIOUS
<1>3. image \in Seq({g[x] : x \in S}) /\ Len(image) = m /\ \A i \in 1..m : image[i] = g[seq[i]]
  BY <1>1, <1>2
<1>4. \A i, j \in 1..m : image[i] = image[j] => i = j
  BY <1>0, <1>1, <1>3 DEF Lists
<1>5. ASSUME NEW x \in S PROVE \E i \in 1..m : image[i] = g[x]
  <2>1. PICK i \in 1..m : seq[i] = x
    BY <1>0 DEF Lists
  <2>. QED BY <1>3, <2>1
<1>6. Lists(image, {g[x] : x \in S})
  <2>1. PICK T : T = {g[x] : x \in S}
    OBVIOUS
  <2>2. \A y \in T : \E i \in 1..m : image[i] = y
    BY <1>5, <2>1
  <2>3. Lists(image, T)
    BY <1>3, <1>4, <2>1, <2>2 DEF Lists
  <2>. QED BY <2>1, <2>3
<1>. QED BY <1>1, <1>2, <1>6

LEMMA UptoLists == ASSUME NEW n \in Nat PROVE Lists(Upto(n), 0..(n - 1))
<1>1. PICK seq : seq = Upto(n)
  OBVIOUS
<1>2. seq \in Seq(0..(n - 1)) /\ Len(seq) = n /\ \A i \in 1..n : seq[i] = i - 1
  BY <1>1 DEF Upto
<1>3. ASSUME NEW x \in 0..(n - 1) PROVE \E i \in 1..n : seq[i] = x
  <2>1. x + 1 \in 1..n /\ (x + 1) - 1 = x
    OBVIOUS
  <2>. QED BY <1>2, <2>1
<1>. QED BY <1>1, <1>2, <1>3 DEF Lists

FlattenOf(seqs) ==
  CHOOSE f : f = [i \in 1..Len(seqs) |-> IF i = 1 THEN seqs[i] ELSE f[i - 1] \o seqs[i]]

\* f[i] joins the first i sequences, up to the n-th.
Joins(f, seqs, n) == f[1] = seqs[1] /\ \A i \in 2..n : f[i] = f[i - 1] \o seqs[i]

LEMMA JoinsExist ==
  ASSUME NEW seqs, Len(seqs) \in Nat \ {0}
  PROVE  \E f : Joins(f, seqs, Len(seqs)) /\ FlattenSeq(seqs) = f[Len(seqs)]
<1>0. PICK m \in Nat \ {0} : m = Len(seqs)
  OBVIOUS
<1> DEFINE Reached == {n \in Nat : \E f : f[1] = seqs[1] /\ \A i \in 2..n : f[i] = f[i - 1] \o seqs[i]}
           Step(f) == [i \in 1..m |-> IF i = 1 THEN seqs[i] ELSE f[i - 1] \o seqs[i]]
<1>1. 0 \in Reached
  <2>1. [i \in {1} |-> seqs[1]][1] = seqs[1] /\ 2..0 = {}
    OBVIOUS
  <2>. QED BY <2>1
<1>2. ASSUME NEW n \in Nat, n \in Reached PROVE n + 1 \in Reached
  <2>1. PICK f : f[1] = seqs[1] /\ \A i \in 2..n : f[i] = f[i - 1] \o seqs[i]
    BY <1>2
  <2>2. PICK g : g = [i \in 1..(n + 1) |-> IF i = 1 THEN seqs[1]
                                           ELSE IF i = n + 1 THEN f[n] \o seqs[i] ELSE f[i]]
    OBVIOUS
  <2>3. \A i \in 1..n : g[i] = f[i]
    BY <2>1, <2>2
  <2>4. g[1] = seqs[1]
    BY <2>2
  <2>5. ASSUME NEW i \in 2..(n + 1) PROVE g[i] = g[i - 1] \o seqs[i]
    <3>1. i - 1 \in 1..n /\ i \in 1..(n + 1) /\ i # 1
      OBVIOUS
    <3>2. g[i - 1] = f[i - 1]
      BY <2>3, <3>1
    <3>3. CASE i = n + 1
      <4>1. i - 1 = n
        BY <3>3
      <4>. QED BY <2>2, <3>1, <3>2, <3>3, <4>1
    <3>4. CASE i # n + 1
      <4>1. i \in 2..n /\ i \in 1..n
        BY <3>4
      <4>. QED BY <2>1, <2>3, <3>2, <4>1
    <3>. QED BY <3>3, <3>4
  <2>6. \E fn : fn[1] = seqs[1] /\ \A i \in 2..(n + 1) : fn[i] = fn[i - 1] \o seqs[i]
    BY <2>4, <2>5
  <2>7. n + 1 \in Nat
    OBVIOUS
  <2>. QED BY ONLY <2>6, <2>7
<1>3. PICK f : f[1] = seqs[1] /\ \A i \in 2..m : f[i] = f[i - 1] \o seqs[i]
  <2>1. Nat \subseteq Reached
    <3> HIDE DEF Reached
    <3>. QED BY <1>1, <1>2, Counting
  <2>. QED BY <2>1
<1>4. PICK g : g = [i \in 1..m |-> f[i]]
  OBVIOUS
<1>5. g = Step(g)
  <2>1. ASSUME NEW i \in 1..m PROVE f[i] = IF i = 1 THEN seqs[i] ELSE g[i - 1] \o seqs[i]
    <3>1. CASE i = 1
      BY <1>3, <3>1
    <3>2. CASE i # 1
      <4>1. i \in 2..m /\ i - 1 \in 1..m
        BY <3>2
      <4>. QED BY <1>3, <1>4, <3>2, <4>1
    <3>. QED BY <3>1, <3>2
  <2>. QED BY <1>4, <2>1
<1>6. PICK h : h = FlattenOf(seqs)
  OBVIOUS
<1>7. h = Step(h)
  BY <1>0, <1>5, <1>6 DEF FlattenOf
<1>8. \A i \in 1..m : h[i] = IF i = 1 THEN seqs[i] ELSE h[i - 1] \o seqs[i]
  BY ONLY <1>7
<1>9. Joins(h, seqs, m)
  <2>1. 1 \in 1..m /\ h[1] = seqs[1]
    BY <1>8
  <2>2. \A i \in 2..m : i \in 1..m /\ i # 1
    OBVIOUS
  <2>3. \A i \in 2..m : h[i] = h[i - 1] \o seqs[i]
    BY ONLY <1>8, <2>2
  <2>. QED BY <2>1, <2>3 DEF Joins
<1>10. FlattenSeq(seqs) = h[m]
  BY <1>0, <1>6 DEF FlattenSeq, FlattenOf
<1>. QED BY <1>0, <1>9, <1>10

\* The turns of a nest are all the pairs, each once.
LEMMA NestLists ==
  ASSUME NEW xs, NEW X, NEW ys, NEW Y, Lists(xs, X), Lists(ys, Y)
  PROVE  Lists(Nest(xs, ys), X \X Y)
<1>0. PICK n, m, seqs : /\ n = Len(xs) /\ m = Len(ys)
                        /\ seqs = [i \in 1..n |-> [j \in 1..m |-> <<xs[i], ys[j]>>]]
  OBVIOUS
<1>1. n \in Nat /\ m \in Nat /\ DOMAIN xs = 1..n /\ DOMAIN ys = 1..m
  BY <1>0 DEF Lists
<1>2. Nest(xs, ys) = FlattenSeq(seqs)
  BY <1>0, <1>1 DEF Nest
<1>3. Len(seqs) = n
  BY <1>0, <1>1
<1>4. CASE n = 0
  <2>1. X = {} /\ seqs = <<>>
    BY <1>0, <1>4 DEF Lists
  <2>2. Nest(xs, ys) = <<>>
    BY <1>2, <1>3, <1>4, <2>1 DEF FlattenSeq
  <2>3. X \X Y = {}
    BY <2>1
  <2>. QED BY <2>2, <2>3 DEF Lists
<1>5. CASE n # 0
  <2>1. PICK f : Joins(f, seqs, n) /\ FlattenSeq(seqs) = f[n]
    BY <1>1, <1>3, <1>5, JoinsExist
  <2>2. ASSUME NEW i \in 1..n PROVE Lists(seqs[i], {xs[i]} \X Y)
    <3>1. PICK row : row = [j \in 1..m |-> <<xs[i], ys[j]>>]
      OBVIOUS
    <3>2. \A j \in 1..m : ys[j] \in Y
      BY <1>0 DEF Lists
    <3>3. row \in Seq({xs[i]} \X Y) /\ Len(row) = m /\ \A j \in 1..m : row[j] = <<xs[i], ys[j]>>
      BY <1>1, <3>1, <3>2
    <3>4. ASSUME NEW p \in {xs[i]} \X Y PROVE \E j \in 1..m : row[j] = p
      <4>1. PICK y \in Y : p = <<xs[i], y>>
        OBVIOUS
      <4>2. PICK j \in 1..m : ys[j] = y
        BY <1>0 DEF Lists
      <4>. QED BY <3>3, <4>1, <4>2
    <3>5. \A j, k \in 1..m : row[j] = row[k] => j = k
      BY <1>0, <3>3 DEF Lists
    <3>6. seqs[i] = row
      BY <1>0, <3>1
    <3>. QED BY <3>3, <3>4, <3>5, <3>6 DEF Lists
  <2> DEFINE Outer(i) == {xs[k] : k \in 1..i}
             Good == {i \in Nat : i \in 1..n => Lists(f[i], Outer(i) \X Y)}
  <2>3. 0 \in Good
    OBVIOUS
  <2>4. ASSUME NEW i \in Nat, i \in Good PROVE i + 1 \in Good
    <3>1. SUFFICES ASSUME i + 1 \in 1..n PROVE Lists(f[i + 1], Outer(i + 1) \X Y)
      OBVIOUS
    <3>2. Lists(seqs[i + 1], {xs[i + 1]} \X Y)
      BY <2>2, <3>1
    <3>3. CASE i = 0
      <4>1. f[i + 1] = seqs[i + 1]
        BY <2>1, <3>3 DEF Joins
      <4>2. Outer(i + 1) = {xs[i + 1]}
        BY <3>3
      <4> HIDE DEF Outer
      <4>. QED BY <3>2, <4>1, <4>2
    <3>4. CASE i # 0
      <4>1. i \in 1..n /\ i + 1 \in 2..n /\ (i + 1) - 1 = i
        BY <1>1, <3>1, <3>4
      <4>2. f[i + 1] = f[i] \o seqs[i + 1]
        BY <2>1, <4>1 DEF Joins
      <4>3. Lists(f[i], Outer(i) \X Y)
        BY <2>4, <4>1
      <4>4. xs[i + 1] \notin Outer(i)
        <5>1. SUFFICES ASSUME NEW k \in 1..i, xs[k] = xs[i + 1] PROVE FALSE
          OBVIOUS
        <5>2. k \in 1..n /\ k # i + 1
          BY <1>1, <3>1
        <5>. QED BY <1>0, <3>1, <5>1, <5>2 DEF Lists
      <4>5. Outer(i + 1) = Outer(i) \cup {xs[i + 1]}
        <5>1. 1..(i + 1) = (1..i) \cup {i + 1}
          OBVIOUS
        <5>. QED BY <5>1
      <4> HIDE DEF Outer
      <4>6. (Outer(i) \X Y) \cap ({xs[i + 1]} \X Y) = {}
        BY <4>4
      <4>7. (Outer(i) \X Y) \cup ({xs[i + 1]} \X Y) = Outer(i + 1) \X Y
        BY <4>5
      <4>. QED BY <3>2, <4>2, <4>3, <4>6, <4>7, ListsJoin
    <3>. QED BY <3>3, <3>4
  <2>5. Nat \subseteq Good
    <3> HIDE DEF Good
    <3>. QED BY <2>3, <2>4, Counting
  <2>6. Lists(f[n], Outer(n) \X Y)
    <3>1. n \in Good
      <4> HIDE DEF Good
      <4>. QED BY <1>1, <2>5
    <3>2. n \in 1..n
      BY <1>1, <1>5
    <3>. QED BY <3>1, <3>2
  <2>7. Outer(n) = X
    BY <1>0 DEF Lists
  <2> HIDE DEF Outer
  <2>. QED BY <1>2, <2>1, <2>6, <2>7
<1>. QED BY <1>4, <1>5

-----------------------------------------------------------------------------
(* The matrix kernels of phase_1.                                          *)

\* Row i, column k of a matrix of width w have an offset of their own.
LEMMA FlatOnce ==
  \A w \in Nat : \A i, j \in Nat, k, l \in 0..(w - 1) :
    i * w + k = j * w + l => i = j /\ k = l
<1> SUFFICES ASSUME NEW w \in Nat, NEW i \in Nat, NEW j \in Nat,
                    NEW k \in 0..(w - 1), NEW l \in 0..(w - 1), i * w + k = j * w + l
             PROVE  i = j /\ k = l
  OBVIOUS
<1>1. ASSUME NEW a \in Nat, NEW b \in Nat, a < b PROVE a * w + w <= b * w
  <2>1. PICK d \in Nat : b = a + 1 + d
    <3>1. b - a - 1 \in Nat /\ b = a + 1 + (b - a - 1)
      BY <1>1
    <3>. QED BY <3>1
  <2>2. b * w = a * w + w + d * w
    BY <2>1
  <2>3. d * w \in Nat /\ a * w \in Nat /\ b * w \in Nat
    OBVIOUS
  <2>. QED BY ONLY <2>2, <2>3, w \in Nat
<1>2. i * w \in Nat /\ j * w \in Nat
  OBVIOUS
<1>3. ~(i < j)
  BY <1>1, <1>2
<1>4. ~(j < i)
  BY <1>1, <1>2
<1>5. i = j
  BY <1>3, <1>4
<1>. QED BY <1>2, <1>5

LEMMA KernelSweeps ==
  ASSUME NEW n \in Nat
  PROVE  /\ vector_dot(n) = Upto(n) /\ FourRows(n) = Upto(n)
         /\ FourCells(n) = Upto(n) /\ FourProducts(n) = Upto(n)
<1>1. PICK u \in Nat \ {0} : u = 8
  OBVIOUS
<1>2. PICK v \in Nat \ {0} : v = 4
  OBVIOUS
<1>3. n - 8 \in Int /\ n - 8 + u - 1 <= n /\ n - 3 \in Int /\ n - 3 + v - 1 <= n
  BY <1>1, <1>2
<1>4. n - 4 \in Int /\ n - 4 + v - 1 <= n
  BY <1>2
<1>5. Sweep(n, u, n - 8) = Upto(n) /\ Sweep(n, v, n - 3) = Upto(n) /\ Sweep(n, v, n - 4) = Upto(n)
  BY ONLY <1>3, <1>4, n \in Nat, u \in Nat \ {0}, v \in Nat \ {0}, SweepIsPlain
<1>. QED BY <1>1, <1>2, <1>5 DEF vector_dot, FourRows, FourCells, FourProducts

\* Row by row: the offsets in the matrix, and the products.
LEMMA MvByRows ==
  ASSUME NEW rows \in Nat, NEW cols \in Nat, NEW c,
         c = [routine |-> "multiply_mv_row_major_opt", rows |-> rows, cols |-> cols]
  PROVE  ListsOnce(multiply_mv_row_major_opt(rows, cols), ProductMv(c))
<1>1. PICK turns : turns = Nest(Upto(rows), Upto(cols))
  OBVIOUS
<1> DEFINE I == 0..(rows - 1)
           J == 0..(cols - 1)
           g == [x \in I \X J |-> Product(x[1], x[1] * cols + x[2], x[2])]
<1>2. Lists(turns, I \X J)
  BY <1>1, NestLists, UptoLists
<1>3. \A x, y \in I \X J : g[x] = g[y] => x = y
  BY DEF Product
<1>4. Lists([n \in DOMAIN turns |-> g[turns[n]]], {g[x] : x \in I \X J})
  <2> HIDE DEF g, I, J
  <2>. QED BY <1>2, <1>3, ListsImage
<1>5. vector_dot(cols) = Upto(cols)
  BY KernelSweeps
<1>6. multiply_mv_row_major_opt(rows, cols) = [n \in DOMAIN turns |-> g[turns[n]]]
  <2>1. \A n \in DOMAIN turns : turns[n] \in I \X J
    BY <1>2 DEF Lists
  <2>2. multiply_mv_row_major_opt(rows, cols) =
          [n \in DOMAIN turns |-> Product(turns[n][1], turns[n][1] * cols + turns[n][2], turns[n][2])]
    BY <1>1, <1>5 DEF multiply_mv_row_major_opt, Each2
  <2>. QED BY <2>1, <2>2
<1>7. {g[x] : x \in I \X J} = ProductMv(c)
  <2>1. ProductMv(c) = {Product(i, i * cols + j, j) : i \in I, j \in J}
    BY DEF ProductMv
  <2>2. \A i \in I, j \in J : <<i, j>> \in I \X J /\ g[<<i, j>>] = Product(i, i * cols + j, j)
    OBVIOUS
  <2>3. \A x \in I \X J : \E i \in I, j \in J : x = <<i, j>>
    OBVIOUS
  <2> HIDE DEF g, I, J
  <2>4. ASSUME NEW x \in I \X J PROVE g[x] \in ProductMv(c)
    BY <2>1, <2>2, <2>3
  <2>5. ASSUME NEW e \in ProductMv(c) PROVE \E x \in I \X J : e = g[x]
    <3>1. PICK i \in I, j \in J : e = Product(i, i * cols + j, j)
      BY <2>1
    <3>. QED BY <2>2, <3>1
  <2>. QED BY <2>4, <2>5
<1>. QED BY <1>4, <1>6, <1>7, ListsAreOnce

\* Column by column, whichever way the rows of a column are taken.
LEMMA MvByColumns ==
  ASSUME NEW rows \in Nat, NEW cols \in Nat, NEW c,
         c.routine \in {"multiply_mv_col_major", "multiply_mv_col_major_opt"},
         c.rows = rows, c.cols = cols
  PROVE  ListsOnce(multiply_mv_col_major(rows, cols), ProductMv(c))
<1>1. PICK turns : turns = Nest(Upto(cols), Upto(rows))
  OBVIOUS
<1> DEFINE I == 0..(rows - 1)
           J == 0..(cols - 1)
           g == [x \in J \X I |-> Product(x[2], x[1] * rows + x[2], x[1])]
<1>2. Lists(turns, J \X I)
  BY <1>1, NestLists, UptoLists
<1>3. \A x, y \in J \X I : g[x] = g[y] => x = y
  BY DEF Product
<1>4. Lists([n \in DOMAIN turns |-> g[turns[n]]], {g[x] : x \in J \X I})
  <2> HIDE DEF g, I, J
  <2>. QED BY <1>2, <1>3, ListsImage
<1>6. multiply_mv_col_major(rows, cols) = [n \in DOMAIN turns |-> g[turns[n]]]
  <2>1. \A n \in DOMAIN turns : turns[n] \in J \X I
    BY <1>2 DEF Lists
  <2>2. multiply_mv_col_major(rows, cols) =
          [n \in DOMAIN turns |-> Product(turns[n][2], turns[n][1] * rows + turns[n][2], turns[n][1])]
    BY <1>1 DEF multiply_mv_col_major, Each2
  <2>. QED BY <2>1, <2>2
<1>7. {g[x] : x \in J \X I} = ProductMv(c)
  <2>1. ProductMv(c) = {Product(i, j * rows + i, j) : i \in I, j \in J}
    BY DEF ProductMv
  <2>2. \A i \in I, j \in J : <<j, i>> \in J \X I /\ g[<<j, i>>] = Product(i, j * rows + i, j)
    OBVIOUS
  <2>3. \A x \in J \X I : \E i \in I, j \in J : x = <<j, i>>
    OBVIOUS
  <2> HIDE DEF g, I, J
  <2>4. ASSUME NEW x \in J \X I PROVE g[x] \in ProductMv(c)
    BY <2>1, <2>2, <2>3
  <2>5. ASSUME NEW e \in ProductMv(c) PROVE \E x \in J \X I : e = g[x]
    <3>1. PICK i \in I, j \in J : e = Product(i, j * rows + i, j)
      BY <2>1
    <3>. QED BY <2>2, <3>1
  <2>. QED BY <2>4, <2>5
<1>. QED BY <1>4, <1>6, <1>7, ListsAreOnce

\* The products of row i of A and column j of B, element (k, j) of B at B[k][j].
Products(rowsA, colsA, colsB, B) ==
  {Product(i * colsB + j, i * colsA + k, B[k][j]) :
     i \in 0..(rowsA - 1), j \in 0..(colsB - 1), k \in 0..(colsA - 1)}

\* Rows of A, columns of B, and the sum, in that order.
CellByCell(turns, colsA, colsB, B) ==
  [n \in DOMAIN turns |->
     Product(turns[n][1] * colsB + turns[n][2][1], turns[n][1] * colsA + turns[n][2][2],
             B[turns[n][2][2]][turns[n][2][1]])]

LEMMA MmByCells ==
  ASSUME NEW rowsA \in Nat, NEW colsA \in Nat, NEW colsB \in Nat, NEW B, NEW seq, NEW turns,
         turns = Nest(Upto(rowsA), Nest(Upto(colsB), Upto(colsA))),
         seq = CellByCell(turns, colsA, colsB, B)
  PROVE  ListsOnce(seq, Products(rowsA, colsA, colsB, B))
<1> DEFINE I == 0..(rowsA - 1)
           J == 0..(colsB - 1)
           K == 0..(colsA - 1)
           g == [x \in I \X (J \X K) |->
                   Product(x[1] * colsB + x[2][1], x[1] * colsA + x[2][2], B[x[2][2]][x[2][1]])]
<1>2. Lists(turns, I \X (J \X K))
  BY NestLists, UptoLists
<1>3. ASSUME NEW x \in I \X (J \X K), NEW y \in I \X (J \X K), g[x] = g[y] PROVE x = y
  <2>1. PICK i, j, k, i2, j2, k2 : /\ x = <<i, <<j, k>>>> /\ y = <<i2, <<j2, k2>>>>
                                   /\ i \in I /\ j \in J /\ k \in K /\ i2 \in I /\ j2 \in J /\ k2 \in K
    OBVIOUS
  <2>2. Product(i * colsB + j, i * colsA + k, B[k][j]) = Product(i2 * colsB + j2, i2 * colsA + k2, B[k2][j2])
    BY <1>3, <2>1
  <2>3. i \in Nat /\ i2 \in Nat
    BY <2>1
  <2>4. i * colsB + j = i2 * colsB + j2 /\ i * colsA + k = i2 * colsA + k2
    BY ONLY <2>2 DEF Product
  <2>5. j = j2
    BY ONLY <2>1, <2>3, <2>4, FlatOnce, colsB \in Nat
  <2>6. i = i2 /\ k = k2
    BY ONLY <2>1, <2>3, <2>4, FlatOnce, colsA \in Nat
  <2>. QED BY <2>1, <2>5, <2>6
<1>4. Lists([n \in DOMAIN turns |-> g[turns[n]]], {g[x] : x \in I \X (J \X K)})
  <2> HIDE DEF g, I, J, K
  <2>. QED BY <1>2, <1>3, ListsImage
<1>6. seq = [n \in DOMAIN turns |-> g[turns[n]]]
  <2>1. \A n \in DOMAIN turns : turns[n] \in I \X (J \X K)
    BY <1>2 DEF Lists
  <2>. QED BY <2>1 DEF CellByCell
<1>7. {g[x] : x \in I \X (J \X K)} = Products(rowsA, colsA, colsB, B)
  <2>1. \A i \in I, j \in J, k \in K :
          /\ <<i, <<j, k>>>> \in I \X (J \X K)
          /\ g[<<i, <<j, k>>>>] = Product(i * colsB + j, i * colsA + k, B[k][j])
    OBVIOUS
  <2>2. \A x \in I \X (J \X K) : \E i \in I, j \in J, k \in K : x = <<i, <<j, k>>>>
    OBVIOUS
  <2>3. Products(rowsA, colsA, colsB, B) =
          {Product(i * colsB + j, i * colsA + k, B[k][j]) : i \in I, j \in J, k \in K}
    BY DEF Products
  <2> HIDE DEF g, I, J, K
  <2>4. ASSUME NEW x \in I \X (J \X K) PROVE g[x] \in Products(rowsA, colsA, colsB, B)
    BY <2>1, <2>2, <2>3
  <2>5. ASSUME NEW e \in Products(rowsA, colsA, colsB, B) PROVE \E x \in I \X (J \X K) : e = g[x]
    <3>1. PICK i \in I, j \in J, k \in K : e = Product(i * colsB + j, i * colsA + k, B[k][j])
      BY <2>3
    <3>2. PICK x : x = <<i, <<j, k>>>>
      OBVIOUS
    <3>3. x \in I \X (J \X K) /\ g[x] = Product(i * colsB + j, i * colsA + k, B[k][j])
      BY <2>1, <3>2
    <3>. QED BY <3>1, <3>3
  <2>. QED BY <2>4, <2>5
<1>. QED BY <1>4, <1>6, <1>7, ListsAreOnce

\* Rows of A, the sum, and columns of B.
RowByRow(turns, colsA, colsB, B) ==
  [n \in DOMAIN turns |->
     Product(turns[n][1] * colsB + turns[n][2][2], turns[n][1] * colsA + turns[n][2][1],
             B[turns[n][2][1]][turns[n][2][2]])]

LEMMA MmByRows ==
  ASSUME NEW rowsA \in Nat, NEW colsA \in Nat, NEW colsB \in Nat, NEW B, NEW seq, NEW turns,
         turns = Nest(Upto(rowsA), Nest(Upto(colsA), Upto(colsB))),
         seq = RowByRow(turns, colsA, colsB, B)
  PROVE  ListsOnce(seq, Products(rowsA, colsA, colsB, B))
<1> DEFINE I == 0..(rowsA - 1)
           J == 0..(colsB - 1)
           K == 0..(colsA - 1)
           g == [x \in I \X (K \X J) |->
                   Product(x[1] * colsB + x[2][2], x[1] * colsA + x[2][1], B[x[2][1]][x[2][2]])]
<1>2. Lists(turns, I \X (K \X J))
  BY NestLists, UptoLists
<1>3. ASSUME NEW x \in I \X (K \X J), NEW y \in I \X (K \X J), g[x] = g[y] PROVE x = y
  <2>1. PICK i, j, k, i2, j2, k2 : /\ x = <<i, <<k, j>>>> /\ y = <<i2, <<k2, j2>>>>
                                   /\ i \in I /\ j \in J /\ k \in K /\ i2 \in I /\ j2 \in J /\ k2 \in K
    OBVIOUS
  <2>2. Product(i * colsB + j, i * colsA + k, B[k][j]) = Product(i2 * colsB + j2, i2 * colsA + k2, B[k2][j2])
    BY <1>3, <2>1
  <2>3. i \in Nat /\ i2 \in Nat
    BY <2>1
  <2>4. i * colsB + j = i2 * colsB + j2 /\ i * colsA + k = i2 * colsA + k2
    BY ONLY <2>2 DEF Product
  <2>5. j = j2
    BY ONLY <2>1, <2>3, <2>4, FlatOnce, colsB \in Nat
  <2>6. i = i2 /\ k = k2
    BY ONLY <2>1, <2>3, <2>4, FlatOnce, colsA \in Nat
  <2>. QED BY <2>1, <2>5, <2>6
<1>4. Lists([n \in DOMAIN turns |-> g[turns[n]]], {g[x] : x \in I \X (K \X J)})
  <2> HIDE DEF g, I, J, K
  <2>. QED BY <1>2, <1>3, ListsImage
<1>6. seq = [n \in DOMAIN turns |-> g[turns[n]]]
  <2>1. \A n \in DOMAIN turns : turns[n] \in I \X (K \X J)
    BY <1>2 DEF Lists
  <2>. QED BY <2>1 DEF RowByRow
<1>7. {g[x] : x \in I \X (K \X J)} = Products(rowsA, colsA, colsB, B)
  <2>1. \A i \in I, j \in J, k \in K :
          /\ <<i, <<k, j>>>> \in I \X (K \X J)
          /\ g[<<i, <<k, j>>>>] = Product(i * colsB + j, i * colsA + k, B[k][j])
    OBVIOUS
  <2>2. \A x \in I \X (K \X J) : \E i \in I, j \in J, k \in K : x = <<i, <<k, j>>>>
    OBVIOUS
  <2>3. Products(rowsA, colsA, colsB, B) =
          {Product(i * colsB + j, i * colsA + k, B[k][j]) : i \in I, j \in J, k \in K}
    BY DEF Products
  <2> HIDE DEF g, I, J, K
  <2>4. ASSUME NEW x \in I \X (K \X J) PROVE g[x] \in Products(rowsA, colsA, colsB, B)
    BY <2>1, <2>2, <2>3
  <2>5. ASSUME NEW e \in Products(rowsA, colsA, colsB, B) PROVE \E x \in I \X (K \X J) : e = g[x]
    <3>1. PICK i \in I, j \in J, k \in K : e = Product(i * colsB + j, i * colsA + k, B[k][j])
      BY <2>3
    <3>2. PICK x : x = <<i, <<k, j>>>>
      OBVIOUS
    <3>3. x \in I \X (K \X J) /\ g[x] = Product(i * colsB + j, i * colsA + k, B[k][j])
      BY <2>1, <3>2
    <3>. QED BY <3>1, <3>3
  <2>. QED BY <2>4, <2>5
<1>. QED BY <1>4, <1>6, <1>7, ListsAreOnce

\* c is a call of a kernel on matrices that match.
MmCall(c, rowsA, colsA, rowsB, colsB) ==
  /\ {rowsA, colsA, rowsB, colsB} \subseteq Nat /\ colsA = rowsB
  /\ c.rowsA = rowsA /\ c.colsA = colsA /\ c.rowsB = rowsB /\ c.colsB = colsB

Transposing == {"multiply_mm_transposed_b", "multiply_mm_transposed_b_opt"}

\* The matrices B and its transpose, as the offsets of the elements of B.
Plain(rowsB, colsB) == [k \in 0..(rowsB - 1) |-> [j \in 0..(colsB - 1) |-> k * colsB + j]]
Turned(rowsB, colsB) == [k \in 0..(rowsB - 1) |-> [j \in 0..(colsB - 1) |-> j * rowsB + k]]

LEMMA ProductMmPlain ==
  ASSUME NEW c, NEW rowsA, NEW colsA, NEW rowsB, NEW colsB,
         MmCall(c, rowsA, colsA, rowsB, colsB), c.routine \notin Transposing
  PROVE  ProductMm(c) = Products(rowsA, colsA, colsB, Plain(rowsB, colsB))
BY DEF MmCall, Transposing, ProductMm, Products, Plain

\* Where the caller keeps element (k, j) of B, found by the loops that copy it.
LEMMA TransposedPlace ==
  ASSUME NEW rowsB \in Nat, NEW colsB \in Nat, NEW k \in 0..(rowsB - 1), NEW j \in 0..(colsB - 1)
  PROVE  (CHOOSE st \in ToSet(TransposedB(rowsB, colsB)) : st.from = k * colsB + j).to = j * rowsB + k
<1>1. PICK turns : turns = Nest(Upto(rowsB), Upto(colsB))
  OBVIOUS
<1> DEFINE R == 0..(rowsB - 1)
           C == 0..(colsB - 1)
           At(r, cc) == [to |-> cc * rowsB + r, from |-> r * colsB + cc]
<1>2. Lists(turns, R \X C)
  BY <1>1, NestLists, UptoLists
<1>3. PICK seq : seq = TransposedB(rowsB, colsB)
  OBVIOUS
<1>4. seq = [n \in DOMAIN turns |-> At(turns[n][1], turns[n][2])]
  BY <1>1, <1>3 DEF TransposedB, Each2
<1>5. DOMAIN turns = 1..Len(turns) /\ \A n \in DOMAIN turns : turns[n] \in R \X C
  BY <1>2 DEF Lists
<1>6. ASSUME NEW st \in ToSet(seq) PROVE \E r \in R, cc \in C : st = At(r, cc)
  <2>1. PICK n \in DOMAIN turns : st = At(turns[n][1], turns[n][2])
    BY <1>4 DEF ToSet
  <2>2. turns[n][1] \in R /\ turns[n][2] \in C
    BY <1>5
  <2>. QED BY <2>1, <2>2
<1>7. At(k, j) \in ToSet(seq)
  <2>1. <<k, j>> \in R \X C
    OBVIOUS
  <2>2. PICK n \in DOMAIN turns : turns[n] = <<k, j>>
    BY <1>2, <1>5, <2>1 DEF Lists
  <2>3. seq[n] = At(k, j) /\ n \in DOMAIN seq
    BY <1>4, <2>2
  <2>. QED BY <2>3 DEF ToSet
<1>8. ASSUME NEW st \in ToSet(seq), st.from = k * colsB + j PROVE st = At(k, j)
  <2>1. PICK r \in R, cc \in C : st = At(r, cc)
    BY <1>6
  <2>2. r * colsB + cc = k * colsB + j /\ r \in Nat /\ k \in Nat
    BY <1>8, <2>1
  <2>3. r = k /\ cc = j
    BY ONLY <2>2, FlatOnce, colsB \in Nat, cc \in C, j \in C
  <2>. QED BY <2>1, <2>3
<1>9. At(k, j).from = k * colsB + j /\ At(k, j).to = j * rowsB + k
  OBVIOUS
<1> HIDE DEF At
<1>10. (CHOOSE st \in ToSet(seq) : st.from = k * colsB + j) = At(k, j)
  BY <1>7, <1>8, <1>9
<1>. QED BY <1>3, <1>9, <1>10

LEMMA ProductMmTransposed ==
  ASSUME NEW c, NEW rowsA, NEW colsA, NEW rowsB, NEW colsB,
         MmCall(c, rowsA, colsA, rowsB, colsB), c.routine \in Transposing
  PROVE  ProductMm(c) = Products(rowsA, colsA, colsB, Turned(rowsB, colsB))
<1> DEFINE Found(k, j) ==
             (CHOOSE st \in ToSet(TransposedB(rowsB, colsB)) : st.from = k * colsB + j).to
<1>1. ProductMm(c) = Products(rowsA, colsA, colsB,
                       [k \in 0..(rowsB - 1) |-> [j \in 0..(colsB - 1) |-> Found(k, j)]])
  BY DEF MmCall, Transposing, ProductMm, Products
<1>2. \A k \in 0..(rowsB - 1), j \in 0..(colsB - 1) : Found(k, j) = j * rowsB + k
  BY TransposedPlace DEF MmCall
<1> HIDE DEF Found
<1>3. [k \in 0..(rowsB - 1) |-> [j \in 0..(colsB - 1) |-> Found(k, j)]] = Turned(rowsB, colsB)
  BY <1>2 DEF Turned
<1>. QED BY <1>1, <1>3

\* The rows of A that the pointer of multiply_mm_naive_opt runs through.
LEMMA StridesAreRows ==
  ASSUME NEW w \in Nat \ {0}, NEW rows \in Nat
  PROVE  /\ Len(Strides(w * rows, w)) = rows
         /\ \A i \in 1..rows : Strides(w * rows, w)[i] = (i - 1) * w
<1>1. PICK a, q, m : a = w * rows + w - 1 /\ q = a \div w /\ m = a % w
  OBVIOUS
<1>2. a \in Nat /\ a = rows * w + (w - 1)
  BY <1>1
<1>3. a = q * w + m /\ m \in 0..(w - 1) /\ q \in Nat
  BY <1>1, <1>2
<1>4. q = rows
  <2>1. w - 1 \in 0..(w - 1) /\ w \in Nat
    OBVIOUS
  <2>2. q * w + m = rows * w + (w - 1)
    BY <1>2, <1>3
  <2>. QED BY ONLY <1>3, <2>1, <2>2, FlatOnce, rows \in Nat
<1>5. Strides(w * rows, w) = [i \in 1..rows |-> (i - 1) * w]
  BY <1>1, <1>4 DEF Strides
<1>. QED BY <1>5

\* The elements of a nest of three loops, by component.
LEMMA TripleTurns ==
  ASSUME NEW n1 \in Nat, NEW n2 \in Nat, NEW n3 \in Nat, NEW turns,
         turns = Nest(Upto(n1), Nest(Upto(n2), Upto(n3)))
  PROVE  \A n \in DOMAIN turns : /\ turns[n][1] \in 0..(n1 - 1)
                                 /\ turns[n][2][1] \in 0..(n2 - 1)
                                 /\ turns[n][2][2] \in 0..(n3 - 1)
<1>1. Lists(turns, (0..(n1 - 1)) \X ((0..(n2 - 1)) \X (0..(n3 - 1))))
  BY NestLists, UptoLists
<1>2. \A n \in DOMAIN turns : turns[n] \in (0..(n1 - 1)) \X ((0..(n2 - 1)) \X (0..(n3 - 1)))
  BY <1>1 DEF Lists
<1>. QED BY <1>2

LEMMA MmPlainKernels ==
  ASSUME NEW c, NEW rowsA, NEW colsA, NEW rowsB, NEW colsB,
         MmCall(c, rowsA, colsA, rowsB, colsB), c.routine \notin Transposing
  PROVE  /\ ListsOnce(multiply_mm_naive(rowsA, colsA, rowsB, colsB), ProductMm(c))
         /\ ListsOnce(multiply_mm_naive_loop(rowsA, colsA, rowsB, colsB), ProductMm(c))
         /\ ListsOnce(multiply_mm_naive_unroll(rowsA, colsA, rowsB, colsB), ProductMm(c))
         /\ rowsA = colsA /\ colsA > 0 =>
              ListsOnce(multiply_mm_naive_opt(rowsA, colsA, rowsB, colsB), ProductMm(c))
<1>1. rowsA \in Nat /\ colsA \in Nat /\ rowsB \in Nat /\ colsB \in Nat /\ colsA = rowsB
  BY DEF MmCall
<1>2. PICK B : B = Plain(rowsB, colsB)
  OBVIOUS
<1>3. \A k \in 0..(colsA - 1), j \in 0..(colsB - 1) : B[k][j] = k * colsB + j
  BY <1>1, <1>2 DEF Plain
<1>4. ProductMm(c) = Products(rowsA, colsA, colsB, B)
  BY <1>2, ProductMmPlain
<1>5. FourCells(colsB) = Upto(colsB)
  BY <1>1, KernelSweeps
<1>6. PICK cells : cells = Nest(Upto(rowsA), Nest(Upto(colsB), Upto(colsA)))
  OBVIOUS
<1>7. PICK rows : rows = Nest(Upto(rowsA), Nest(Upto(colsA), Upto(colsB)))
  OBVIOUS
<1>8. multiply_mm_naive(rowsA, colsA, rowsB, colsB) = CellByCell(cells, colsA, colsB, B)
  <2>1. \A n \in DOMAIN cells : B[cells[n][2][2]][cells[n][2][1]] = cells[n][2][2] * colsB + cells[n][2][1]
    <3>1. \A n \in DOMAIN cells : cells[n][2][1] \in 0..(colsB - 1) /\ cells[n][2][2] \in 0..(colsA - 1)
      BY ONLY <1>1, <1>6, TripleTurns
    <3>. QED BY ONLY <1>3, <3>1
  <2>. QED BY <1>6, <2>1 DEF multiply_mm_naive, Each3, CellByCell
<1>9. \A n \in DOMAIN rows : /\ rows[n][1] \in 0..(rowsA - 1)
                             /\ B[rows[n][2][1]][rows[n][2][2]] = rows[n][2][1] * colsB + rows[n][2][2]
  BY <1>1, <1>3, <1>7, TripleTurns
<1>10. multiply_mm_naive_loop(rowsA, colsA, rowsB, colsB) = RowByRow(rows, colsA, colsB, B)
  BY <1>7, <1>9 DEF multiply_mm_naive_loop, Each3, RowByRow
<1>11. multiply_mm_naive_unroll(rowsA, colsA, rowsB, colsB) = RowByRow(rows, colsA, colsB, B)
  BY <1>5, <1>7, <1>9 DEF multiply_mm_naive_unroll, Each3, RowByRow
<1>12. ASSUME rowsA = colsA, colsA > 0
       PROVE  multiply_mm_naive_opt(rowsA, colsA, rowsB, colsB) = RowByRow(rows, colsA, colsB, B)
  <2>1. PICK mA : mA = Strides(colsA * rowsB, colsA)
    OBVIOUS
  <2>2. Len(mA) = rowsA /\ \A i \in 1..rowsA : mA[i] = (i - 1) * colsA
    <3>1. colsA \in Nat \ {0} /\ rowsB \in Nat /\ rowsA = rowsB
      BY <1>1, <1>12
    <3>2. /\ Len(Strides(colsA * rowsB, colsA)) = rowsB
          /\ \A i \in 1..rowsB : Strides(colsA * rowsB, colsA)[i] = (i - 1) * colsA
      BY ONLY <3>1, StridesAreRows
    <3>. QED BY <2>1, <3>1, <3>2
  <2>3. ASSUME NEW n \in DOMAIN rows PROVE mA[rows[n][1] + 1] = rows[n][1] * colsA
    <3>1. PICK r : r = rows[n][1]
      OBVIOUS
    <3>2. r \in 0..(rowsA - 1)
      BY <1>9, <3>1
    <3>3. r + 1 \in 1..rowsA /\ (r + 1) - 1 = r
      BY <1>1, <3>2
    <3>. QED BY <2>2, <3>1, <3>3
  <2>4. multiply_mm_naive_opt(rowsA, colsA, rowsB, colsB) =
          [n \in DOMAIN rows |->
             Product(rows[n][1] * colsB + rows[n][2][2], mA[rows[n][1] + 1] + rows[n][2][1],
                     rows[n][2][1] * colsB + rows[n][2][2])]
    BY <1>5, <1>7, <2>1, <2>2 DEF multiply_mm_naive_opt, Each3
  <2>. QED BY <1>9, <2>3, <2>4 DEF RowByRow
<1>13. ListsOnce(CellByCell(cells, colsA, colsB, B), ProductMm(c))
  BY <1>1, <1>4, <1>6, MmByCells
<1>14. ListsOnce(RowByRow(rows, colsA, colsB, B), ProductMm(c))
  BY <1>1, <1>4, <1>7, MmByRows
<1>. QED BY <1>8, <1>10, <1>11, <1>12, <1>13, <1>14

LEMMA MmTransposedKernels ==
  ASSUME NEW c, NEW rowsA, NEW colsA, NEW rowsB, NEW colsB,
         MmCall(c, rowsA, colsA, rowsB, colsB), c.routine \in Transposing
  PROVE  /\ ListsOnce(multiply_mm_transposed_b(rowsA, colsA, rowsB, colsB), ProductMm(c))
         /\ ListsOnce(multiply_mm_transposed_b_opt(rowsA, colsA, rowsB, colsB), ProductMm(c))
<1>1. rowsA \in Nat /\ colsA \in Nat /\ rowsB \in Nat /\ colsB \in Nat /\ colsA = rowsB
  BY DEF MmCall
<1>2. PICK B : B = Turned(rowsB, colsB)
  OBVIOUS
<1>3. \A k \in 0..(colsA - 1), j \in 0..(colsB - 1) : B[k][j] = j * rowsB + k
  BY <1>1, <1>2 DEF Turned
<1>4. ProductMm(c) = Products(rowsA, colsA, colsB, B)
  BY <1>2, ProductMmTransposed
<1>5. FourProducts(colsA) = Upto(colsA)
  BY <1>1, KernelSweeps
<1>6. PICK cells : cells = Nest(Upto(rowsA), Nest(Upto(colsB), Upto(colsA)))
  OBVIOUS
<1>7. \A n \in DOMAIN cells : B[cells[n][2][2]][cells[n][2][1]] = cells[n][2][1] * rowsB + cells[n][2][2]
  BY <1>1, <1>3, <1>6, TripleTurns
<1>8. multiply_mm_transposed_b(rowsA, colsA, rowsB, colsB) = CellByCell(cells, colsA, colsB, B)
  BY <1>6, <1>7 DEF multiply_mm_transposed_b, Each3, CellByCell
<1>9. multiply_mm_transposed_b_opt(rowsA, colsA, rowsB, colsB) = CellByCell(cells, colsA, colsB, B)
  BY <1>5, <1>6, <1>7 DEF multiply_mm_transposed_b_opt, Each3, CellByCell
<1>10. ListsOnce(CellByCell(cells, colsA, colsB, B), ProductMm(c))
  BY <1>1, <1>4, <1>6, MmByCells
<1>. QED BY <1>8, <1>9, <1>10

-----------------------------------------------------------------------------
(* The sums of hw_1.                                                       *)

\* The pairs of offsets seq are the first n of a square matrix, row by row.
RowMajor(seq, n, SIZE) ==
  /\ seq \in Seq(Nat \X Nat) /\ Len(seq) = n
  /\ \A t \in 1..n : seq[t][1] * SIZE + seq[t][2] = t - 1

LEMMA RowMajorGrows ==
  ASSUME NEW SIZE \in Nat, NEW i \in Nat, NEW n \in Nat, n = i * SIZE, NEW s1, RowMajor(s1, n, SIZE),
         NEW row, row = [j \in 1..SIZE |-> <<i, j - 1>>]
  PROVE  RowMajor(s1 \o row, n + SIZE, SIZE)
<1>1. PICK joined : joined = s1 \o row
  OBVIOUS
<1>2. row \in Seq(Nat \X Nat) /\ Len(row) = SIZE
  <2>1. \A j \in 1..SIZE : <<i, j - 1>> \in Nat \X Nat
    OBVIOUS
  <2>. QED BY <2>1
<1>3. /\ joined \in Seq(Nat \X Nat) /\ Len(joined) = n + SIZE
      /\ \A t \in 1..(n + SIZE) : joined[t] = IF t <= n THEN s1[t] ELSE row[t - n]
  <2>1. s1 \in Seq(Nat \X Nat) /\ Len(s1) = n
    BY DEF RowMajor
  <2>. QED BY ONLY <1>1, <1>2, <2>1, ConcatProperties
<1>4. ASSUME NEW t \in 1..(n + SIZE) PROVE joined[t][1] * SIZE + joined[t][2] = t - 1
  <2>1. CASE t <= n
    <3>1. t \in 1..n /\ joined[t] = s1[t]
      BY ONLY <1>3, <2>1, n \in Nat, SIZE \in Nat, t \in 1..(n + SIZE)
    <3>. QED BY <3>1 DEF RowMajor
  <2>2. CASE t > n
    <3>1. t - n \in 1..SIZE /\ joined[t] = row[t - n]
      BY ONLY <1>3, <2>2, n \in Nat, SIZE \in Nat, t \in 1..(n + SIZE)
    <3>2. joined[t] = <<i, (t - n) - 1>>
      BY <3>1
    <3>3. joined[t][1] = i /\ joined[t][2] = (t - n) - 1
      BY <3>2
    <3>. QED BY ONLY <3>3, n = i * SIZE, n \in Nat, t \in 1..(n + SIZE), SIZE \in Nat
  <2>. QED BY <2>1, <2>2
<1>. QED BY <1>1, <1>3, <1>4 DEF RowMajor

\* Two nested loops over a square matrix take its offsets in order, and so does
\* the pointer.
LEMMA SumsArePlain ==
  ASSUME NEW SIZE \in Nat
  PROVE  /\ sumMatrixBasic(SIZE) = Upto(SIZE * SIZE)
         /\ sumMatrixOptimized(SIZE) = Upto(SIZE * SIZE)
<1>1. PICK n \in Nat : n = SIZE * SIZE
  OBVIOUS
<1>2. sumMatrixOptimized(SIZE) = Upto(SIZE * SIZE)
  <2>1. PICK v \in Nat \ {0} : v = 4
    OBVIOUS
  <2>2. n - 3 \in Int /\ n - 3 + v - 1 <= n
    BY <2>1
  <2>3. Sweep(n, v, n - 3) = Upto(n)
    BY ONLY <2>2, n \in Nat, v \in Nat \ {0}, SweepIsPlain
  <2>. QED BY <1>1, <2>1, <2>3 DEF sumMatrixOptimized
<1>3. PICK seqs : seqs = [i \in 1..SIZE |-> [j \in 1..SIZE |-> <<i - 1, j - 1>>]]
  OBVIOUS
<1>4. PICK turns : turns = Nest(Upto(SIZE), Upto(SIZE))
  OBVIOUS
<1>5. turns = FlattenSeq(seqs) /\ Len(seqs) = SIZE
  <2>1. PICK xs : xs = Upto(SIZE)
    OBVIOUS
  <2>2. DOMAIN xs = 1..SIZE /\ \A i \in 1..SIZE : xs[i] = i - 1
    BY <2>1 DEF Upto
  <2>3. turns = FlattenSeq([i \in 1..SIZE |-> [j \in 1..SIZE |-> <<xs[i], xs[j]>>]])
    BY <1>4, <2>1, <2>2 DEF Nest
  <2>4. seqs = [i \in 1..SIZE |-> [j \in 1..SIZE |-> <<xs[i], xs[j]>>]]
    BY <1>3, <2>2
  <2>5. Len(seqs) = SIZE
    BY <1>3
  <2>6. turns = FlattenSeq(seqs)
    BY ONLY <2>3, <2>4
  <2>. QED BY <2>5, <2>6
<1>6. RowMajor(turns, n, SIZE)
  <2>1. CASE SIZE = 0
    <3>1. turns = <<>> /\ n = 0
      BY <1>1, <1>3, <1>5, <2>1 DEF FlattenSeq
    <3>. QED BY <3>1 DEF RowMajor
  <2>2. CASE SIZE # 0
    <3>1. PICK f : Joins(f, seqs, SIZE) /\ turns = f[SIZE]
      BY <1>5, <2>2, JoinsExist
    <3> DEFINE Good == {i \in Nat : i \in 1..SIZE => RowMajor(f[i], i * SIZE, SIZE)}
    <3>2. 0 \in Good
      OBVIOUS
    <3>3. ASSUME NEW i \in Nat, i \in Good PROVE i + 1 \in Good
      <4>1. SUFFICES ASSUME i + 1 \in 1..SIZE PROVE RowMajor(f[i + 1], (i + 1) * SIZE, SIZE)
        OBVIOUS
      <4>2. PICK row, m : row = [j \in 1..SIZE |-> <<i, j - 1>>] /\ m = i * SIZE
        OBVIOUS
      <4>3. m \in Nat /\ (i + 1) * SIZE = m + SIZE
        BY <4>2
      <4>4. seqs[i + 1] = row
        BY <1>3, <4>1, <4>2
      <4>5. CASE i = 0
        <5>1. f[i + 1] = row
          BY <3>1, <4>4, <4>5 DEF Joins
        <5>2. m = 0
          BY <4>2, <4>5
        <5>3. row \in Seq(Nat \X Nat) /\ Len(row) = SIZE
          <6>1. \A j \in 1..SIZE : <<i, j - 1>> \in Nat \X Nat
            OBVIOUS
          <6>. QED BY <4>2, <6>1
        <5>4. ASSUME NEW t \in 1..SIZE PROVE row[t][1] * SIZE + row[t][2] = t - 1
          <6>1. row[t][1] = 0 /\ row[t][2] = t - 1
            BY <4>2, <4>5
          <6>2. 0 * SIZE = 0
            OBVIOUS
          <6>. QED BY <6>1, <6>2
        <5>5. RowMajor(row, SIZE, SIZE)
          BY <5>3, <5>4 DEF RowMajor
        <5>6. (i + 1) * SIZE = SIZE
          BY <4>3, <5>2
        <5>. QED BY <5>1, <5>5, <5>6
      <4>6. CASE i # 0
        <5>1. i \in 1..SIZE /\ i + 1 \in 2..SIZE /\ (i + 1) - 1 = i
          BY <4>1, <4>6
        <5>2. f[i + 1] = f[i] \o row
          BY <3>1, <4>4, <5>1 DEF Joins
        <5>3. RowMajor(f[i], m, SIZE)
          BY <3>3, <4>2, <5>1
        <5>4. RowMajor(f[i] \o row, m + SIZE, SIZE)
          BY ONLY <4>2, <4>3, <5>3, RowMajorGrows, SIZE \in Nat, i \in Nat
        <5>. QED BY <4>3, <5>2, <5>4
      <4>. QED BY <4>5, <4>6
    <3>4. SIZE \in Good
      <4>1. Nat \subseteq Good
        <5> HIDE DEF Good
        <5>. QED BY <3>2, <3>3, Counting
      <4>. QED BY <4>1
    <3>5. SIZE \in 1..SIZE
      BY <2>2
    <3>6. RowMajor(f[SIZE], SIZE * SIZE, SIZE)
      BY <3>4, <3>5
    <3>. QED BY <1>1, <3>1, <3>6
  <2>. QED BY <2>1, <2>2
<1>7. sumMatrixBasic(SIZE) = [t \in DOMAIN turns |-> turns[t][1] * SIZE + turns[t][2]]
  BY <1>4 DEF sumMatrixBasic, Each2
<1>8. sumMatrixBasic(SIZE) = Upto(n)
  <2>1. DOMAIN turns = 1..n /\ \A t \in 1..n : turns[t][1] * SIZE + turns[t][2] = t - 1
    BY <1>6 DEF RowMajor
  <2>. QED BY <1>7, <2>1 DEF Upto
<1>. QED BY <1>1, <1>2, <1>8

-----------------------------------------------------------------------------
(* The moving averages of hw_5.                                            *)

PrefixOf(points) == CHOOSE c : c = [i \in 0..points |-> IF i = 0 THEN {} ELSE c[i - 1] \cup {i - 1}]

\* The i-th prefix sum adds up the first i prices.
LEMMA PrefixesAreClosed ==
  ASSUME NEW points \in Nat
  PROVE  PrefixSums(points) = [i \in 0..points |-> 0..(i - 1)]
<1> DEFINE Step(f) == [i \in 0..points |-> IF i = 0 THEN {} ELSE f[i - 1] \cup {i - 1}]
           all == [i \in 0..points |-> 0..(i - 1)]
<1>1. all = Step(all)
  <2>1. ASSUME NEW i \in 0..points PROVE 0..(i - 1) = IF i = 0 THEN {} ELSE all[i - 1] \cup {i - 1}
    <3>1. CASE i = 0
      BY <3>1
    <3>2. CASE i # 0
      <4>1. all[i - 1] = 0..((i - 1) - 1)
        BY <3>2
      <4>2. 0..(i - 1) = (0..((i - 1) - 1)) \cup {i - 1}
        BY <3>2
      <4>. QED BY <3>2, <4>1, <4>2
    <3>. QED BY <3>1, <3>2
  <2>. QED BY <2>1
<1>2. PICK c : c = PrefixOf(points)
  OBVIOUS
<1>3. c = Step(c)
  <2> HIDE DEF all
  <2>. QED BY <1>1, <1>2 DEF PrefixOf
<1>4. \A i \in 0..points : c[i] = IF i = 0 THEN {} ELSE c[i - 1] \cup {i - 1}
  BY ONLY <1>3
<1>5. ASSUME NEW i \in 0..points PROVE c[i] = 0..(i - 1)
  <2> DEFINE Good == {k \in Nat : k <= points => c[k] = 0..(k - 1)}
  <2>1. 0 \in Good
    <3>1. 0 \in 0..points /\ 0..(0 - 1) = {}
      OBVIOUS
    <3>2. c[0] = {}
      BY <1>4, <3>1
    <3>. QED BY <3>1, <3>2
  <2>2. ASSUME NEW k \in Nat, k \in Good PROVE k + 1 \in Good
    <3>1. SUFFICES ASSUME k + 1 <= points PROVE c[k + 1] = 0..((k + 1) - 1)
      OBVIOUS
    <3>2. k + 1 \in 0..points /\ k + 1 # 0 /\ (k + 1) - 1 = k
      BY <3>1
    <3>3. c[k + 1] = c[k] \cup {k}
      BY <1>4, <3>2
    <3>4. c[k] = 0..(k - 1)
      BY <2>2, <3>1
    <3>5. 0..k = (0..(k - 1)) \cup {k}
      OBVIOUS
    <3>. QED BY <3>2, <3>3, <3>4, <3>5
  <2>3. Nat \subseteq Good
    <3> HIDE DEF Good
    <3>. QED BY <2>1, <2>2, Counting
  <2>. QED BY <2>3
<1>6. c = all
  <2>1. DOMAIN c = 0..points
    BY ONLY <1>3
  <2>2. c = [i \in 0..points |-> c[i]]
    BY ONLY <1>3
  <2>. QED BY <1>5, <2>2
<1>. QED BY <1>2, <1>6 DEF PrefixSums, PrefixOf

\* What both moving averages store, when the series is long enough.
StoresAll(points, w) == [n \in 1..(points - w + 1) |-> Store(n - 1, w)]

LEMMA AveragesAreAll ==
  ASSUME NEW points \in Nat, NEW w \in Nat \ {0}, points >= w
  PROVE  /\ movingAverageNormal(points, w) = StoresAll(points, w)
         /\ movingAverageSIMD(points, w) = StoresAll(points, w)
<1>1. PICK n \in Nat : n = points - w + 1
  OBVIOUS
<1>2. PICK v \in Nat \ {0} : v = 2
  OBVIOUS
<1>3. n - 1 \in Int /\ n - 1 + v - 1 <= n
  BY <1>2
<1>4. Sweep(n, v, n - 1) = Upto(n)
  BY ONLY <1>3, n \in Nat, v \in Nat \ {0}, SweepIsPlain
<1>5. PICK is : is = Upto(n)
  OBVIOUS
<1>6. movingAverageSIMD(points, w) = [t \in DOMAIN is |-> Store(is[t], w)]
  BY <1>1, <1>2, <1>4, <1>5 DEF movingAverageSIMD, Averages
<1>7. DOMAIN is = 1..n /\ \A t \in 1..n : is[t] = t - 1
  BY <1>5 DEF Upto
<1>8. movingAverageSIMD(points, w) = [t \in 1..n |-> Store(t - 1, w)]
  BY <1>6, <1>7
<1>. QED BY <1>1, <1>8 DEF movingAverageNormal, Averages, StoresAll

LEMMA StoresCover ==
  ASSUME NEW points \in Nat, NEW w \in Nat \ {0}, points >= w,
         NEW stores, stores = StoresAll(points, w), NEW c, c = PrefixSums(points)
  PROVE  /\ ListsOnce([i \in DOMAIN stores |-> stores[i].at], 0..(points - w))
         /\ \A st \in ToSet(stores) :
              /\ {st.hi, st.lo} \subseteq DOMAIN c
              /\ c[st.lo] \subseteq c[st.hi]
              /\ c[st.hi] \ c[st.lo] = st.at..(st.at + w - 1)
<1>1. PICK n \in Nat : n = points - w + 1
  OBVIOUS
<1>2. stores = [t \in 1..n |-> Store(t - 1, w)]
  BY <1>1 DEF StoresAll
<1>3. [i \in DOMAIN stores |-> stores[i].at] = Upto(n)
  BY <1>2 DEF Store, Upto
<1>4. ListsOnce(Upto(n), 0..(points - w))
  <2>1. n - 1 = points - w
    BY <1>1
  <2>. QED BY <2>1, UptoLists, ListsAreOnce
<1>5. c = [i \in 0..points |-> 0..(i - 1)]
  BY PrefixesAreClosed
<1>6. ASSUME NEW st \in ToSet(stores)
      PROVE  /\ {st.hi, st.lo} \subseteq DOMAIN c
             /\ c[st.lo] \subseteq c[st.hi]
             /\ c[st.hi] \ c[st.lo] = st.at..(st.at + w - 1)
  <2>1. PICK t \in 1..n : st = Store(t - 1, w)
    BY <1>2 DEF ToSet
  <2>2. PICK i : i = t - 1
    OBVIOUS
  <2>3. i \in 0..points /\ i + w \in 0..points
    BY <1>1, <2>2
  <2>4. st.at = i /\ st.lo = i /\ st.hi = i + w
    BY <2>1, <2>2 DEF Store
  <2>5. c[st.lo] = 0..(i - 1) /\ c[st.hi] = 0..(i + w - 1)
    BY <1>5, <2>3, <2>4
  <2>6. (0..(i + w - 1)) \ (0..(i - 1)) = i..(i + w - 1)
    BY <2>3
  <2>7. 0..(i - 1) \subseteq 0..(i + w - 1)
    BY <2>3
  <2>. QED BY <1>5, <2>3, <2>4, <2>5, <2>6, <2>7
<1>. QED BY <1>3, <1>4, <1>6

-----------------------------------------------------------------------------
(* The calls.                                                              *)

IInv == HeapInv /\ EngineInv /\ LoopsMissNothing /\ AveragesCoverTheirWindows

MvKernels == {"multiply_mv_row_major_opt", "multiply_mv_col_major", "multiply_mv_col_major_opt"}
PlainMm == {"multiply_mm_naive", "multiply_mm_naive_loop", "multiply_mm_naive_unroll"}

\* A call that is not of another group of routines.
LEMMA OnlyMv ==
  ASSUME call'.routine \in MvKernels,
         ~threw' => ListsOnce(trace', ProductMv(call'))
  PROVE  LoopsMissNothing' /\ AveragesCoverTheirWindows'
BY DEF MvKernels, LoopsMissNothing, AveragesCoverTheirWindows, Ran

LEMMA OnlyMm ==
  ASSUME call'.routine \in PlainMm \cup Transposing,
         ~threw' => ListsOnce(trace', ProductMm(call'))
  PROVE  LoopsMissNothing' /\ AveragesCoverTheirWindows'
BY DEF PlainMm, Transposing, LoopsMissNothing, AveragesCoverTheirWindows, Ran

LEMMA OnlyNaiveOpt ==
  ASSUME call'.routine = "multiply_mm_naive_opt",
         ~threw' /\ call'.rowsA = call'.colsA => ListsOnce(trace', ProductMm(call'))
  PROVE  LoopsMissNothing' /\ AveragesCoverTheirWindows'
BY DEF LoopsMissNothing, AveragesCoverTheirWindows, Ran

LEMMA MvCallsKeep ==
  ASSUME \/ CallMv("multiply_mv_row_major_opt", multiply_mv_row_major_opt)
         \/ CallMv("multiply_mv_col_major", multiply_mv_col_major)
         \/ CallMv("multiply_mv_col_major_opt", multiply_mv_col_major_opt)
  PROVE  LoopsMissNothing' /\ AveragesCoverTheirWindows'
<1>1. CASE CallMv("multiply_mv_row_major_opt", multiply_mv_row_major_opt)
  <2>1. PICK rows \in Rows, cols \in Widths :
          /\ call' = [routine |-> "multiply_mv_row_major_opt", rows |-> rows, cols |-> cols]
          /\ ~threw' => trace' = multiply_mv_row_major_opt(rows, cols)
    BY <1>1 DEF CallMv
  <2>2. rows \in Nat /\ cols \in Nat
    BY DimensionsAreNatural
  <2>3. ListsOnce(multiply_mv_row_major_opt(rows, cols), ProductMv(call'))
    BY <2>1, <2>2, MvByRows
  <2>. QED BY <2>1, <2>3, OnlyMv DEF MvKernels
<1>2. CASE CallMv("multiply_mv_col_major", multiply_mv_col_major)
  <2>1. PICK rows \in Rows, cols \in Widths :
          /\ call' = [routine |-> "multiply_mv_col_major", rows |-> rows, cols |-> cols]
          /\ ~threw' => trace' = multiply_mv_col_major(rows, cols)
    BY <1>2 DEF CallMv
  <2>2. rows \in Nat /\ cols \in Nat
    BY DimensionsAreNatural
  <2>3. ListsOnce(multiply_mv_col_major(rows, cols), ProductMv(call'))
    BY <2>1, <2>2, MvByColumns
  <2>. QED BY <2>1, <2>3, OnlyMv DEF MvKernels
<1>3. CASE CallMv("multiply_mv_col_major_opt", multiply_mv_col_major_opt)
  <2>1. PICK rows \in Rows, cols \in Widths :
          /\ call' = [routine |-> "multiply_mv_col_major_opt", rows |-> rows, cols |-> cols]
          /\ ~threw' => trace' = multiply_mv_col_major_opt(rows, cols)
    BY <1>3 DEF CallMv
  <2>2. rows \in Nat /\ cols \in Nat
    BY DimensionsAreNatural
  <2>3. multiply_mv_col_major_opt(rows, cols) = multiply_mv_col_major(rows, cols)
    BY <2>2, KernelSweeps DEF multiply_mv_col_major_opt, multiply_mv_col_major
  <2>4. ListsOnce(multiply_mv_col_major(rows, cols), ProductMv(call'))
    BY <2>1, <2>2, MvByColumns
  <2>. QED BY <2>1, <2>3, <2>4, OnlyMv DEF MvKernels
<1>. QED BY <1>1, <1>2, <1>3

\* A call of kernel on an a x b and an r x d matrix.
Called(kernel, a, b, r, d) ==
  /\ a \in Rows /\ b \in Widths /\ d \in Widths
  /\ call' = [routine |-> kernel, rowsA |-> a, colsA |-> b, rowsB |-> r, colsB |-> d]
  /\ ~threw' => AcceptsMm(TRUE, a, b, r, d)

\* If it is not refused, the matrices match and have rows and columns.
LEMMA MmCallsMatch ==
  \A kernel, a, b, r, d : Called(kernel, a, b, r, d) =>
    call'.routine = kernel /\ (~threw' => MmCall(call', a, b, r, d) /\ b > 0)
BY DimensionsAreNatural DEF Called, AcceptsMm, MmCall

LEMMA MmCallsKeep ==
  ASSUME \/ CallMm("multiply_mm_naive", multiply_mm_naive)
         \/ CallMm("multiply_mm_naive_loop", multiply_mm_naive_loop)
         \/ CallMm("multiply_mm_naive_unroll", multiply_mm_naive_unroll)
         \/ CallMm("multiply_mm_naive_opt", multiply_mm_naive_opt)
         \/ CallMm("multiply_mm_transposed_b", multiply_mm_transposed_b)
         \/ CallMm("multiply_mm_transposed_b_opt", multiply_mm_transposed_b_opt)
  PROVE  LoopsMissNothing' /\ AveragesCoverTheirWindows'
<1>1. CASE CallMm("multiply_mm_naive", multiply_mm_naive)
  <2>0. PICK a, b, r, d : /\ Called("multiply_mm_naive", a, b, r, d)
                          /\ ~threw' => trace' = multiply_mm_naive(a, b, r, d)
    BY <1>1 DEF CallMm, Called, AcceptsMm
  <2>1. /\ call'.routine = "multiply_mm_naive"
        /\ ~threw' => MmCall(call', a, b, r, d) /\ b > 0 /\ trace' = multiply_mm_naive(a, b, r, d)
    BY <2>0, MmCallsMatch
  <2>2. ~threw' => ListsOnce(trace', ProductMm(call'))
    BY <2>1, MmPlainKernels DEF Transposing
  <2>. QED BY <2>1, <2>2, OnlyMm DEF PlainMm
<1>2. CASE CallMm("multiply_mm_naive_loop", multiply_mm_naive_loop)
  <2>0. PICK a, b, r, d : /\ Called("multiply_mm_naive_loop", a, b, r, d)
                          /\ ~threw' => trace' = multiply_mm_naive_loop(a, b, r, d)
    BY <1>2 DEF CallMm, Called, AcceptsMm
  <2>1. /\ call'.routine = "multiply_mm_naive_loop"
        /\ ~threw' => MmCall(call', a, b, r, d) /\ b > 0 /\ trace' = multiply_mm_naive_loop(a, b, r, d)
    BY <2>0, MmCallsMatch
  <2>2. ~threw' => ListsOnce(trace', ProductMm(call'))
    BY <2>1, MmPlainKernels DEF Transposing
  <2>. QED BY <2>1, <2>2, OnlyMm DEF PlainMm
<1>3. CASE CallMm("multiply_mm_naive_unroll", multiply_mm_naive_unroll)
  <2>0. PICK a, b, r, d : /\ Called("multiply_mm_naive_unroll", a, b, r, d)
                          /\ ~threw' => trace' = multiply_mm_naive_unroll(a, b, r, d)
    BY <1>3 DEF CallMm, Called, AcceptsMm
  <2>1. /\ call'.routine = "multiply_mm_naive_unroll"
        /\ ~threw' => MmCall(call', a, b, r, d) /\ b > 0 /\ trace' = multiply_mm_naive_unroll(a, b, r, d)
    BY <2>0, MmCallsMatch
  <2>2. ~threw' => ListsOnce(trace', ProductMm(call'))
    BY <2>1, MmPlainKernels DEF Transposing
  <2>. QED BY <2>1, <2>2, OnlyMm DEF PlainMm
<1>4. CASE CallMm("multiply_mm_naive_opt", multiply_mm_naive_opt)
  <2>0. PICK a, b, r, d : /\ Called("multiply_mm_naive_opt", a, b, r, d)
                          /\ ~threw' => trace' = multiply_mm_naive_opt(a, b, r, d)
    BY <1>4 DEF CallMm, Called, AcceptsMm
  <2>1. /\ call'.routine = "multiply_mm_naive_opt"
        /\ ~threw' => MmCall(call', a, b, r, d) /\ b > 0 /\ trace' = multiply_mm_naive_opt(a, b, r, d)
    BY <2>0, MmCallsMatch
  <2>2. ~threw' /\ call'.rowsA = call'.colsA => ListsOnce(trace', ProductMm(call'))
    BY <2>1, MmPlainKernels DEF Transposing, MmCall
  <2>. QED BY <2>1, <2>2, OnlyNaiveOpt
<1>5. CASE CallMm("multiply_mm_transposed_b", multiply_mm_transposed_b)
  <2>0. PICK a, b, r, d : /\ Called("multiply_mm_transposed_b", a, b, r, d)
                          /\ ~threw' => trace' = multiply_mm_transposed_b(a, b, r, d)
    BY <1>5 DEF CallMm, Called, AcceptsMm
  <2>1. /\ call'.routine = "multiply_mm_transposed_b"
        /\ ~threw' => MmCall(call', a, b, r, d) /\ b > 0 /\ trace' = multiply_mm_transposed_b(a, b, r, d)
    BY <2>0, MmCallsMatch
  <2>2. ~threw' => ListsOnce(trace', ProductMm(call'))
    BY <2>1, MmTransposedKernels DEF Transposing
  <2>. QED BY <2>1, <2>2, OnlyMm DEF Transposing
<1>6. CASE CallMm("multiply_mm_transposed_b_opt", multiply_mm_transposed_b_opt)
  <2>0. PICK a, b, r, d : /\ Called("multiply_mm_transposed_b_opt", a, b, r, d)
                          /\ ~threw' => trace' = multiply_mm_transposed_b_opt(a, b, r, d)
    BY <1>6 DEF CallMm, Called, AcceptsMm
  <2>1. /\ call'.routine = "multiply_mm_transposed_b_opt"
        /\ ~threw' => MmCall(call', a, b, r, d) /\ b > 0 /\ trace' = multiply_mm_transposed_b_opt(a, b, r, d)
    BY <2>0, MmCallsMatch
  <2>2. ~threw' => ListsOnce(trace', ProductMm(call'))
    BY <2>1, MmTransposedKernels DEF Transposing
  <2>. QED BY <2>1, <2>2, OnlyMm DEF Transposing
<1>. QED BY <1>1, <1>2, <1>3, <1>4, <1>5, <1>6

LEMMA SumCallsKeep ==
  ASSUME \/ CallSum("sumMatrixBasic", sumMatrixBasic)
         \/ CallSum("sumMatrixOptimized", sumMatrixOptimized)
         \/ CallSum("processOrdersUnrolled", processOrdersUnrolled)
  PROVE  LoopsMissNothing' /\ AveragesCoverTheirWindows'
<1>1. ASSUME CallSum("sumMatrixBasic", sumMatrixBasic) \/ CallSum("sumMatrixOptimized", sumMatrixOptimized)
      PROVE  /\ call'.routine \in {"sumMatrixBasic", "sumMatrixOptimized"}
             /\ trace' = Upto(call'.size * call'.size)
  <2>1. PICK n \in Sizes :
          /\ \/ call' = [routine |-> "sumMatrixBasic", size |-> n] /\ trace' = sumMatrixBasic(n)
             \/ call' = [routine |-> "sumMatrixOptimized", size |-> n] /\ trace' = sumMatrixOptimized(n)
    BY <1>1 DEF CallSum
  <2>2. n \in Nat
    BY DimensionsAreNatural
  <2>3. sumMatrixBasic(n) = Upto(n * n) /\ sumMatrixOptimized(n) = Upto(n * n)
    BY <2>2, SumsArePlain
  <2>4. call'.size = n /\ call'.routine \in {"sumMatrixBasic", "sumMatrixOptimized"}
    BY <2>1
  <2>. QED BY <2>1, <2>3, <2>4
<1>2. ASSUME CallSum("processOrdersUnrolled", processOrdersUnrolled)
      PROVE  call'.routine = "processOrdersUnrolled" /\ trace' = Upto(call'.size)
  <2>1. PICK n \in Sizes : call' = [routine |-> "processOrdersUnrolled", size |-> n]
                           /\ trace' = processOrdersUnrolled(n)
    BY <1>2 DEF CallSum
  <2>2. n \in Nat
    BY DimensionsAreNatural
  <2>. QED BY <2>1, <2>2, PairsArePlain
<1>3. CASE CallSum("processOrdersUnrolled", processOrdersUnrolled)
  BY <1>2, <1>3 DEF LoopsMissNothing, AveragesCoverTheirWindows, Ran
<1>4. CASE CallSum("sumMatrixBasic", sumMatrixBasic) \/ CallSum("sumMatrixOptimized", sumMatrixOptimized)
  BY <1>1, <1>4 DEF LoopsMissNothing, AveragesCoverTheirWindows, Ran
<1>. QED BY <1>3, <1>4

LEMMA AverageCallsKeep ==
  ASSUME \/ CallAverage("movingAverageNormal", movingAverageNormal)
         \/ CallAverage("movingAverageSIMD", movingAverageSIMD)
  PROVE  LoopsMissNothing' /\ AveragesCoverTheirWindows'
<1>1. PICK points \in Points, w \in Windows :
        /\ \/ call' = [routine |-> "movingAverageNormal", points |-> points, windowSize |-> w]
           \/ call' = [routine |-> "movingAverageSIMD", points |-> points, windowSize |-> w]
        /\ ~threw' => /\ Accepts(points, w)
                      /\ trace' = movingAverageNormal(points, w) \/ trace' = movingAverageSIMD(points, w)
  BY DEF CallAverage
<1>2. points \in Nat /\ w \in Nat \ {0}
  BY DimensionsAreNatural, WindowsArePositive
<1>3. LoopsMissNothing'
  BY <1>1 DEF LoopsMissNothing, Ran
<1>4. ASSUME ~threw' PROVE points >= w /\ trace' = StoresAll(points, w)
  <2>1. points >= w
    BY <1>1, <1>4 DEF Accepts
  <2>. QED BY <1>1, <1>2, <1>4, <2>1, AveragesAreAll
<1>5. call'.points = points /\ call'.windowSize = w
  BY <1>1
<1>6. AveragesCoverTheirWindows'
  <2>1. SUFFICES ASSUME ~threw' PROVE AveragesCoverTheirWindows'
    BY DEF AveragesCoverTheirWindows, Ran
  <2>2. PICK c : c = PrefixSums(points)
    OBVIOUS
  <2>3. /\ ListsOnce([i \in DOMAIN trace' |-> trace'[i].at], 0..(points - w))
        /\ \A st \in ToSet(trace') :
             /\ {st.hi, st.lo} \subseteq DOMAIN c
             /\ c[st.lo] \subseteq c[st.hi]
             /\ c[st.hi] \ c[st.lo] = st.at..(st.at + w - 1)
    BY <1>2, <1>4, <2>1, <2>2, StoresCover
  <2>. QED BY <1>5, <2>2, <2>3 DEF AveragesCoverTheirWindows
<1>. QED BY <1>3, <1>6

LEMMA KernelsKeep == CallKernel => LoopsMissNothing' /\ AveragesCoverTheirWindows'
BY MvCallsKeep, MmCallsKeep, SumCallsKeep, AverageCallsKeep DEF CallKernel

LEMMA CallsRest ==
  LoopsMissNothing /\ AveragesCoverTheirWindows /\ UNCHANGED callVars
    => LoopsMissNothing' /\ AveragesCoverTheirWindows'
BY DEF LoopsMissNothing, AveragesCoverTheirWindows, Ran, callVars

\* The calls that start the engine or the heap have no loops of their own.
LEMMA OthersKeep ==
  call'.routine \in {"none", "TradeEngine", "HeapPriorityQueue"}
    => LoopsMissNothing' /\ AveragesCoverTheirWindows'
BY DEF LoopsMissNothing, AveragesCoverTheirWindows, Ran

LEMMA IInvStarts == Init => IInv
<1>1. Init => LoopsMissNothing /\ AveragesCoverTheirWindows
  BY DEF Init, LoopsMissNothing, AveragesCoverTheirWindows, Ran
<1>. QED BY <1>1, HeapStarts, EngineStarts DEF Init, IInv

LEMMA IInvStep == IInv /\ [Next]_vars => IInv'
<1> SUFFICES ASSUME IInv, [Next]_vars PROVE IInv'
  OBVIOUS
<1>1. HeapInv /\ EngineInv /\ LoopsMissNothing /\ AveragesCoverTheirWindows
  BY DEF IInv
<1>2. CASE CallKernel /\ UNCHANGED engineVars /\ UNCHANGED heapVars
  BY <1>1, <1>2, KernelsKeep, HeapRests, EngineRests DEF IInv
<1>3. CASE CallEngine /\ UNCHANGED heapVars
  <2>1. EngineInv' /\ call'.routine = "TradeEngine"
    BY <1>1, <1>3, EngineCalled DEF CallEngine
  <2>. QED BY <1>1, <1>3, <2>1, HeapRests, OthersKeep DEF IInv
<1>4. CASE CallHeap /\ UNCHANGED heapVars
  <2>1. UNCHANGED engineVars /\ call'.routine = "HeapPriorityQueue"
    BY <1>4 DEF CallHeap
  <2>. QED BY <1>1, <1>4, <2>1, HeapRests, EngineRests, OthersKeep DEF IInv
<1>5. CASE process /\ UNCHANGED <<callVars, heapVars>>
  BY <1>1, <1>5, ProcessKeeps, HeapRests, CallsRest DEF IInv
<1>6. CASE HeapNext /\ UNCHANGED <<callVars, engineVars>>
  BY <1>1, <1>6, HeapStep, EngineRests, CallsRest DEF IInv
<1>7. CASE UNCHANGED vars
  <2>1. UNCHANGED callVars /\ UNCHANGED heapVars /\ UNCHANGED engineVars
    BY <1>7 DEF vars, callVars
  <2>. QED BY <1>1, <2>1, HeapRests, EngineRests, CallsRest DEF IInv
<1>. QED BY <1>2, <1>3, <1>4, <1>5, <1>6, <1>7 DEF Next

THEOREM KernelCallsInvariant == Spec => []IInv
BY IInvStarts, IInvStep, PTL DEF Spec

(* The heap of hw_5: whenever push and pop have sifted, the first bid is   *)
(* the highest stored, and the vector holds what is stored.                *)
THEOREM HeapSorts == Spec => []BidsComeOutSorted
<1>1. IInv => BidsComeOutSorted
  BY HeapSorted DEF IInv
<1>. QED BY <1>1, KernelCallsInvariant, PTL

(* The trade engine of hw_2: the sums it keeps are those of the last ten   *)
(* prices of each instrument.                                              *)
THEOREM EngineSumsItsWindow == Spec => []StatsDescribeTheWindow
<1>1. IInv => StatsDescribeTheWindow
  BY DEF IInv, EngineInv
<1>. QED BY <1>1, KernelCallsInvariant, PTL

(* The kernels of phase_1, for any dimensions: every product once, however *)
(* the loops are ordered and unrolled; the sums of hw_1 and the batches of *)
(* phase_5 for any length.                                                 *)
THEOREM LoopsAreComplete == Spec => []LoopsMissNothing
<1>1. IInv => LoopsMissNothing
  BY DEF IInv
<1>. QED BY <1>1, KernelCallsInvariant, PTL

(* The moving averages of hw_5, for any series and window.                 *)
THEOREM AveragesAreComplete == Spec => []AveragesCoverTheirWindows
<1>1. IInv => AveragesCoverTheirWindows
  BY DEF IInv
<1>. QED BY <1>1, KernelCallsInvariant, PTL
=============================================================================
