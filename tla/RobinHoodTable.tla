---------------------------- MODULE RobinHoodTable ----------------------------
(***************************************************************************)
(* HashTable of hw_5 (hash_table.hpp), for any hash function.  One step is *)
(* one iteration of the loop of insert or remove, so that each is as short *)
(* as the code; lookup changes nothing and is an operator.  A key may be   *)
(* inserted again, as insert does not look for it.                         *)
(***************************************************************************)
EXTENDS Integers, FiniteSetsExt

CONSTANTS Keys, Values, NoKey, maxCapacity

ASSUME TableAssumption == maxCapacity \in Nat \ {0} /\ NoKey \notin Keys

VARIABLES
    hash,         \* of the keys, given to the constructor
    memoryPool,
    currCapacity,
    call,         \* the call under way: its place and its locals
    stored        \* history: what has been inserted and not removed

vars == <<hash, memoryPool, currCapacity, call, stored>>

Slots == 0 .. maxCapacity - 1
Entries == [key : Keys, val : Values]
Empty == [key |-> NoKey, val |-> NoKey]
Idle == [at |-> "idle"]

isEmpty(p) == p.key = NoKey

PslWithoutWrap(idx, key) == IF idx >= hash[key] THEN idx - hash[key] ELSE 0

\* The distance of slot idx from the key's own slot.
getPsl(idx, key) == (maxCapacity + idx - hash[key]) % maxCapacity

Following(idx) == (idx + 1) % maxCapacity

Init ==
    /\ hash \in [Keys -> Slots]
    /\ memoryPool = [idx \in Slots |-> Empty]
    /\ currCapacity = 0
    /\ call = Idle
    /\ stored = {}

-----------------------------------------------------------------------------
(* insert.  Line 51, after maxCapacity iterations, has no action: a call that
   gets there does not return. *)

\* A full table refuses the call.
Insert ==
    /\ call = Idle /\ currCapacity < maxCapacity
    /\ \E e \in Entries \ stored :
         /\ call' = [at |-> "insert", idx |-> hash[e.key], deltaIdx |-> 0,
                     currData |-> e, currPsl |-> 0]
         /\ stored' = stored \cup {e}
    /\ UNCHANGED <<hash, memoryPool, currCapacity>>

Place ==
    /\ call.at = "insert" /\ call.deltaIdx < maxCapacity
    /\ isEmpty(memoryPool[call.idx])
    /\ memoryPool' = [memoryPool EXCEPT ![call.idx] = call.currData]
    /\ currCapacity' = currCapacity + 1
    /\ call' = Idle
    /\ UNCHANGED <<hash, stored>>

\* The entry that is farther from its own slot gets this one.
Probe ==
    /\ call.at = "insert" /\ call.deltaIdx < maxCapacity
    /\ ~isEmpty(memoryPool[call.idx])
    /\ LET comparePsl == getPsl(call.idx, memoryPool[call.idx].key)
           swaps == call.currPsl > comparePsl
       IN /\ memoryPool' = IF swaps THEN [memoryPool EXCEPT ![call.idx] = call.currData]
                                    ELSE memoryPool
          /\ call' = [call EXCEPT
               !.idx = Following(@), !.deltaIdx = @ + 1,
               !.currData = IF swaps THEN memoryPool[call.idx] ELSE @,
               !.currPsl = 1 + IF swaps THEN comparePsl ELSE @]
    /\ UNCHANGED <<hash, currCapacity, stored>>

-----------------------------------------------------------------------------
(* remove *)

Remove ==
    /\ call = Idle
    /\ \E key \in Keys :
         call' = [at |-> "remove", idx |-> hash[key], deltaIdx |-> 0, key |-> key]
    /\ UNCHANGED <<hash, memoryPool, currCapacity, stored>>

Searching == call.at = "remove" /\ call.deltaIdx < maxCapacity

Found ==
    /\ Searching /\ memoryPool[call.idx].key = call.key
    /\ call' = [at |-> "shift", idx |-> call.idx]
    /\ stored' = stored \ {memoryPool[call.idx]}
    /\ UNCHANGED <<hash, memoryPool, currCapacity>>

SearchOn ==
    /\ Searching /\ memoryPool[call.idx].key \notin {call.key, NoKey}
    /\ call' = [call EXCEPT !.idx = Following(@), !.deltaIdx = @ + 1]
    /\ UNCHANGED <<hash, memoryPool, currCapacity, stored>>

\* lines 70 and 72
KeyNotFound ==
    /\ \/ Searching /\ isEmpty(memoryPool[call.idx])
       \/ call.at = "remove" /\ call.deltaIdx = maxCapacity
    /\ call' = Idle
    /\ UNCHANGED <<hash, memoryPool, currCapacity, stored>>

ShiftsUntilEmpty(next) == ~isEmpty(memoryPool[next])

Shifts(next) == ~isEmpty(memoryPool[next]) /\ getPsl(next, memoryPool[next].key) > 0

Shift ==
    /\ call.at = "shift" /\ Shifts(Following(call.idx))
    /\ memoryPool' = [memoryPool EXCEPT ![call.idx] = memoryPool[Following(call.idx)]]
    /\ call' = [call EXCEPT !.idx = Following(@)]
    /\ UNCHANGED <<hash, currCapacity, stored>>

Erase ==
    /\ call.at = "shift" /\ ~Shifts(Following(call.idx))
    /\ memoryPool' = [memoryPool EXCEPT ![call.idx] = Empty]
    /\ currCapacity' = currCapacity - 1
    /\ call' = Idle
    /\ UNCHANGED <<hash, stored>>

-----------------------------------------------------------------------------
\* Empty stands for the null pointer.
lookup(key) ==
    LET Probed(d) == memoryPool[(hash[key] + d) % maxCapacity]
        hits == {d \in Slots : Probed(d).key = key /\ \A c \in 0 .. d : ~isEmpty(Probed(c))}
    IN IF hits = {} THEN Empty ELSE Probed(Min(hits))

Loop == Place \/ Probe \/ Found \/ SearchOn \/ KeyNotFound \/ Shift \/ Erase

Next == Insert \/ Remove \/ Loop

Spec == Init /\ [][Next]_vars

\* A call runs on.
FairSpec == Spec /\ WF_vars(Loop)

-----------------------------------------------------------------------------
\* Between calls the pool holds each entry that was inserted and not removed,
\* in one slot, and nothing else; lookup finds an entry of the key if there is
\* one, though inserting and removing have moved entries about.
LookupAgreesWithStored ==
    call = Idle =>
        LET used == {idx \in Slots : ~isEmpty(memoryPool[idx])} IN
        /\ {memoryPool[idx] : idx \in used} = stored
        /\ Cardinality(used) = Cardinality(stored) /\ currCapacity = Cardinality(stored)
        /\ \A key \in Keys :
             IF key \in {e.key : e \in stored}
             THEN lookup(key) \in stored /\ lookup(key).key = key
             ELSE lookup(key) = Empty

\* Every call returns: insert finds a free slot within maxCapacity iterations,
\* and remove stops shifting, also when no slot was free (lines 35 and 60).
CallsReturn == []<>(call = Idle)
=============================================================================
