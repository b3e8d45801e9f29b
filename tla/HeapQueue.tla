------------------------------ MODULE HeapQueue ------------------------------
(***************************************************************************)
(* HeapPriorityQueue of hw_5/include/queue.hpp: a binary max-heap in a     *)
(* vector, under any sequence of insert() and popMax(), a turn of their    *)
(* loops at a time.  An element is a Bid of main_queue.cpp, compared by    *)
(* its price only.  Indices are the code's, from zero; element i is        *)
(* heap[i + 1].                                                            *)
(***************************************************************************)
EXTENDS Integers, Sequences, SequencesExt

CONSTANTS
  Bids,     \* the prices inserted into the heap
  MaxBids   \* how many are inserted at most

ASSUME BidsAreNumbers == Bids \subseteq Int

VARIABLES
  heap,     \* the vector
  sift,     \* the loop that runs, if one does, and its idx
  inserted, \* how many bids were inserted: the time stamp of the next one
  stored    \* the bids inserted and not taken out
heapVars == <<heap, sift, inserted, stored>>

getParentIdx(idx) == (idx - 1) \div 2

Less(i, j) == heap[i + 1].p < heap[j + 1].p

Swapped(i, j) == [heap EXCEPT ![i + 1] = heap[j + 1], ![j + 1] = heap[i + 1]]

Resting == [loop |-> "none", idx |-> 0]

HeapInit == heap = <<>> /\ sift = Resting /\ inserted = 0 /\ stored = {}

insert ==
  /\ sift = Resting /\ inserted < MaxBids
  /\ \E p \in Bids :
       LET val == [p |-> p, ts |-> inserted]
       IN heap' = Append(heap, val) /\ stored' = stored \cup {val}
  /\ sift' = [loop |-> "rise", idx |-> Len(heap)]
  /\ inserted' = inserted + 1

\* The element at idx rises while its parent is less than it.
RisesAbove(idx) == idx > 0 /\ Less(getParentIdx(idx), idx)

Rise ==
  /\ sift.loop = "rise" /\ RisesAbove(sift.idx)
  /\ heap' = Swapped(getParentIdx(sift.idx), sift.idx)
  /\ sift' = [sift EXCEPT !.idx = getParentIdx(sift.idx)]
  /\ UNCHANGED <<inserted, stored>>

Risen ==
  /\ sift.loop = "rise" /\ ~RisesAbove(sift.idx)
  /\ sift' = Resting /\ UNCHANGED <<heap, inserted, stored>>

\* popMax() up to its loop: it returns the root, which the last element replaces.
popMax ==
  /\ sift = Resting /\ heap # <<>>
  /\ heap' = Front([heap EXCEPT ![1] = Last(heap)])
  /\ sift' = [loop |-> "sink", idx |-> 0]
  /\ stored' = stored \ {heap[1]}
  /\ UNCHANGED inserted

\* Mutant: the left child, whichever child is larger.
LeftIfLarger(idx) ==
  LET left == 2 * idx + 1
  IN IF left < Len(heap) /\ Less(idx, left) THEN left ELSE idx

\* The largest of the element at idx and its children; the first among equals.
Largest(idx) ==
  LET left == 2 * idx + 1
      right == 2 * idx + 2
      first == IF left < Len(heap) /\ Less(idx, left) THEN left ELSE idx
  IN IF right < Len(heap) /\ Less(first, right) THEN right ELSE first

Sink ==
  /\ sift.loop = "sink" /\ Largest(sift.idx) # sift.idx
  /\ heap' = Swapped(sift.idx, Largest(sift.idx))
  /\ sift' = [sift EXCEPT !.idx = Largest(sift.idx)]
  /\ UNCHANGED <<inserted, stored>>

Sunk ==
  /\ sift.loop = "sink" /\ Largest(sift.idx) = sift.idx
  /\ sift' = Resting /\ UNCHANGED <<heap, inserted, stored>>

HeapNext == insert \/ Rise \/ Risen \/ popMax \/ Sink \/ Sunk

-----------------------------------------------------------------------------
(* Between calls the heap of hw_5 holds the bids inserted and not taken    *)
(* out, each once, ties and duplicate prices included, and the root, which *)
(* getMax() and popMax() return, is one of the highest: bids come out      *)
(* highest price first.                                                    *)
BidsComeOutSorted ==
  sift = Resting =>
    /\ ToSet(heap) = stored /\ IsInjective(heap)
    /\ heap # <<>> => \A bid \in stored : bid.p <= heap[1].p
=============================================================================
