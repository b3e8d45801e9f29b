--------------------------- MODULE ConcurrentQueue ---------------------------
(***************************************************************************)
(* The bounded queue of hw_7/main.cpp (class ConcurrentQueue): a ring of   *)
(* Capacity slots, of which one stays blank, and two atomic indices.       *)
(*                                                                         *)
(* A call of push_back or pop is a sequence of steps, one per access to a  *)
(* shared location.  op[t] is the progress of thread t inside a call:      *)
(* "idle" between two calls and at the head of the retry loop, and         *)
(* otherwise the access it will make next, with the index it has loaded.   *)
(*                                                                         *)
(* Both calls move the index first and touch the slot afterwards (lines    *)
(* 32-38 and 52-58), so that a pop can be reading a slot that its push has *)
(* not written yet, or is writing at that moment.  That is a data race in  *)
(* C++: the reader gets the old item, the new item or some fields of each. *)
(*                                                                         *)
(* Loads see the latest value of an index (the interleaving semantics of   *)
(* TLA+); the weaker orders the source asks for are not modelled.          *)
(***************************************************************************)
EXTENDS Naturals

CONSTANTS
    Threads,    \* the threads that use the queue
    Capacity,   \* the template argument Capacity
    DefaultItem \* what a slot holds before the first write

VARIABLES
    head,   \* index of the next item to pop
    tail,   \* index of the next slot to claim for a push
    buffer, \* the slots
    op,     \* progress of every thread inside its call
    arg     \* arg[t]: the argument of thread t's push_back

qvars == <<head, tail, buffer, op>>

Slots == 0 .. Capacity - 1

Idle == [at |-> "idle", idx |-> 0]

At(t, where) == op[t].at = where

Next(i) == (i + 1) % Capacity

Init ==
    /\ head = 0
    /\ tail = 0
    /\ buffer = [i \in Slots |-> DefaultItem]
    /\ op = [t \in Threads |-> Idle]

Goto(t, where, i) == op' = [op EXCEPT ![t] = [at |-> where, idx |-> i]]

-----------------------------------------------------------------------------
(* push_back *)

PushLoadTail(t) ==
    /\ At(t, "idle")
    /\ Goto(t, "pushLoadHead", tail)
    /\ UNCHANGED <<head, tail, buffer>>

\* The test of line 29, made with the head of the moment.
Full(t) == Next(op[t].idx) = head

\* Returns false on a full queue, and is then idle again.
PushLoadHead(t) ==
    /\ At(t, "pushLoadHead")
    /\ IF Full(t) THEN op' = [op EXCEPT ![t] = Idle]
                  ELSE Goto(t, "pushCas", op[t].idx)
    /\ UNCHANGED <<head, tail, buffer>>

TailIgnored(t) == TRUE

\* The compare-exchanges of the two calls succeed only on the loaded index.
TailUnmoved(t) == tail = op[t].idx

PushCas(t) ==
    /\ At(t, "pushCas")
    /\ TailUnmoved(t)
    /\ tail' = Next(op[t].idx)
    /\ Goto(t, "write", op[t].idx)
    /\ UNCHANGED <<head, buffer>>

\* The compare-exchange fails, because tail moved or spuriously (it is the
\* weak form), and the loop starts over.
PushRetry(t) ==
    /\ At(t, "pushCas")
    /\ op' = [op EXCEPT ![t] = Idle]
    /\ UNCHANGED <<head, tail, buffer>>

\* Writes the slot and returns true.
PushWrite(t) ==
    /\ At(t, "write")
    /\ buffer' = [buffer EXCEPT ![op[t].idx] = arg[t]]
    /\ op' = [op EXCEPT ![t] = Idle]
    /\ UNCHANGED <<head, tail>>

-----------------------------------------------------------------------------
(* pop *)

PopLoadHead(t) ==
    /\ At(t, "idle")
    /\ Goto(t, "popLoadTail", head)
    /\ UNCHANGED <<head, tail, buffer>>

Empty(t) == op[t].idx = tail

\* Returns false on an empty queue, and is then idle again.
PopLoadTail(t) ==
    /\ At(t, "popLoadTail")
    /\ IF Empty(t) THEN op' = [op EXCEPT ![t] = Idle]
                   ELSE Goto(t, "popCas", op[t].idx)
    /\ UNCHANGED <<head, tail, buffer>>

HeadIgnored(t) == TRUE

HeadUnmoved(t) == head = op[t].idx

PopCas(t) ==
    /\ At(t, "popCas")
    /\ HeadUnmoved(t)
    /\ head' = Next(op[t].idx)
    /\ Goto(t, "read", op[t].idx)
    /\ UNCHANGED <<tail, buffer>>

PopRetry(t) ==
    /\ At(t, "popCas")
    /\ op' = [op EXCEPT ![t] = Idle]
    /\ UNCHANGED <<head, tail, buffer>>

\* The threads that are inside the assignment to slot i.
Writers(i) == {t \in Threads : At(t, "write") /\ op[t].idx = i}

\* Field by field, either of two items: what a racing copy can leave.
Torn(old, new) == [orderId  : {old.orderId, new.orderId},
                   symbol   : {old.symbol, new.symbol},
                   quantity : {old.quantity, new.quantity},
                   isBuy    : {old.isBuy, new.isBuy}]

\* What a read of slot i may return.
Readable(i) ==
    {buffer[i]} \cup UNION {Torn(buffer[i], arg[w]) : w \in Writers(i)}

\* Copies the slot into got and returns true.
PopRead(t, got) ==
    /\ At(t, "read")
    /\ got \in Readable(op[t].idx)
    /\ op' = [op EXCEPT ![t] = Idle]
    /\ UNCHANGED <<head, tail, buffer>>

-----------------------------------------------------------------------------
(* size, and what iterating from begin() to end() visits *)

Size == (tail - head + Capacity) % Capacity

Contents == [k \in 1 .. Size |-> buffer[(head + k - 1) % Capacity]]
=============================================================================
