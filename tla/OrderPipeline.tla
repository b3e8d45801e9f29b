---------------------------- MODULE OrderPipeline ----------------------------
(***************************************************************************)
(* The program of hw_7/main.cpp: producer threads push orders into         *)
(* orderQueue, consumer threads pop them, add them to orderBook under a    *)
(* mutex and push them into completedOrders; a consumer that finds         *)
(* orderQueue empty leaves once completedOrders holds every order.  The    *)
(* main thread opens the start latch, joins the producers, then the        *)
(* consumers, and reads completedOrders for its report.                    *)
(***************************************************************************)
EXTENDS Integers, FiniteSets, Functions, Sequences

CONSTANTS
    numProducers,      \* producers are numbered from 1, as main() does
    ordersPerProducer,
    Consumers          \* the consumer threads (numConsumers of them)

Producers == 1 .. numProducers
Threads == Producers \cup Consumers

ASSUME ConstantsAssumption ==
    /\ numProducers \in Nat \ {0}
    /\ ordersPerProducer \in Nat \ {0}
    /\ IsFiniteSet(Consumers) /\ Consumers # {}
    /\ Producers \cap Consumers = {}

totalOrders == numProducers * ordersPerProducer

QueueCapacityNoBlank == totalOrders

QUEUE_CAPACITY == totalOrders + 1

-----------------------------------------------------------------------------
Symbols == {"APPL", "GOOGL", ""}   \* "" is the symbol of a default Order

Sides == {"buy", "sell"}

DefaultOrder == [orderId |-> 0, symbol |-> "", quantity |-> 0, isBuy |-> FALSE]

\* The i-th order of producer p; its price and its times play no part.
OrderOf(p, i) == [orderId  |-> p * 1000 + i,
                  symbol   |-> IF i % 2 = 0 THEN "APPL" ELSE "GOOGL",
                  quantity |-> 100 + i,
                  isBuy    |-> i % 2 = 0]

Order == [orderId : Nat, symbol : Symbols, quantity : Nat, isBuy : BOOLEAN]

QueueSteps == {"idle", "pushLoadHead", "pushCas", "write",
               "popLoadTail", "popCas", "read"}

ThreadSteps == {"latch", "push", "pop", "size", "book", "store", "complete", "done"}

VARIABLES
    qHead, qTail, qBuffer, qOp, \* orderQueue
    cHead, cTail, cBuffer, cOp, \* completedOrders
    startLatch,   \* the count of the latch
    pc,           \* where every thread is, outside the queue calls
    sent,         \* sent[p]: the loop variable i of producer p
    order,        \* order[c]: the local variable order of consumer c
    orderBook,    \* volume per symbol and side
    bookMutex,    \* {}, or the singleton of the consumer that holds the mutex
    entry,        \* entry[c]: the volume c has read from the book
    mainAt,       \* where the main thread is
    report        \* the orders runAnalytics() has read

orderQueue == <<qHead, qTail, qBuffer, qOp>>
completedOrders == <<cHead, cTail, cBuffer, cOp>>
book == <<orderBook, bookMutex, entry>>
main == <<mainAt, startLatch, report>>
vars == <<qHead, qTail, qBuffer, qOp, cHead, cTail, cBuffer, cOp, startLatch,
          pc, sent, order, orderBook, bookMutex, entry, mainAt, report>>

\* The argument of push_back: a producer's current order, a consumer's order.
Pushed == [t \in Threads |-> IF t \in Producers THEN OrderOf(t, sent[t])
                                                ELSE order[t]]

OQ == INSTANCE ConcurrentQueue WITH
        Capacity <- QUEUE_CAPACITY, DefaultItem <- DefaultOrder, arg <- Pushed,
        head <- qHead, tail <- qTail, buffer <- qBuffer, op <- qOp

CQ == INSTANCE ConcurrentQueue WITH
        Capacity <- QUEUE_CAPACITY, DefaultItem <- DefaultOrder, arg <- Pushed,
        head <- cHead, tail <- cTail, buffer <- cBuffer, op <- cOp

Init ==
    /\ OQ!Init
    /\ CQ!Init
    /\ startLatch = 1
    /\ pc = [t \in Threads |-> "latch"]
    /\ sent = [p \in Producers |-> 0]
    /\ order = [c \in Consumers |-> DefaultOrder]
    /\ orderBook = [s \in Symbols |-> [side \in Sides |-> 0]]
    /\ bookMutex = {}
    /\ entry = [c \in Consumers |-> 0]
    /\ mainAt = "spawn"
    /\ report = <<>>

-----------------------------------------------------------------------------
(* orderProducer *)

\* startLatch.wait()
ProducerStart(p) ==
    /\ pc[p] = "latch" /\ startLatch = 0
    /\ pc' = [pc EXCEPT ![p] = "push"]
    /\ UNCHANGED <<orderQueue, completedOrders, book, main, sent, order>>

InProducer(p) ==
    /\ pc[p] = "push"
    /\ UNCHANGED <<completedOrders, book, main, order>>

ProducerLoadTail(p) ==
    InProducer(p) /\ OQ!PushLoadTail(p) /\ UNCHANGED <<pc, sent>>

\* A full queue makes the producer yield and call push_back again.
ProducerLoadHead(p) ==
    InProducer(p) /\ OQ!PushLoadHead(p) /\ UNCHANGED <<pc, sent>>

ProducerCas(p) ==
    InProducer(p) /\ OQ!PushCas(p) /\ UNCHANGED <<pc, sent>>

ProducerRetry(p) ==
    InProducer(p) /\ OQ!PushRetry(p) /\ UNCHANGED <<pc, sent>>

LastOrderOffByOne(p) == sent[p] = ordersPerProducer

LastOrder(p) == sent[p] + 1 = ordersPerProducer

\* push_back returns true: on to the next order, or out of the thread.
ProducerWrite(p) ==
    /\ InProducer(p)
    /\ OQ!PushWrite(p)
    /\ sent' = [sent EXCEPT ![p] = @ + 1]
    /\ pc' = [pc EXCEPT ![p] = IF LastOrder(p) THEN "done" ELSE "push"]

Producer(p) ==
    \/ ProducerStart(p)
    \/ ProducerLoadTail(p)
    \/ ProducerLoadHead(p)
    \/ ProducerCas(p)
    \/ ProducerRetry(p)
    \/ ProducerWrite(p)

-----------------------------------------------------------------------------
(* orderConsumer *)

ConsumerStart(c) ==
    /\ pc[c] = "latch" /\ startLatch = 0
    /\ pc' = [pc EXCEPT ![c] = "pop"]
    /\ UNCHANGED <<orderQueue, completedOrders, book, main, sent, order>>

InPop(c) ==
    /\ pc[c] = "pop"
    /\ UNCHANGED <<completedOrders, book, main, sent>>

ConsumerLoadHead(c) ==
    InPop(c) /\ OQ!PopLoadHead(c) /\ UNCHANGED <<pc, order>>

\* An empty queue makes the consumer look at completedOrders.
ConsumerLoadTail(c) ==
    /\ InPop(c)
    /\ OQ!PopLoadTail(c)
    /\ pc' = [pc EXCEPT ![c] = IF OQ!Empty(c) THEN "size" ELSE "pop"]
    /\ UNCHANGED order

ConsumerPopCas(c) ==
    InPop(c) /\ OQ!PopCas(c) /\ UNCHANGED <<pc, order>>

ConsumerPopRetry(c) ==
    InPop(c) /\ OQ!PopRetry(c) /\ UNCHANGED <<pc, order>>

\* Reads the slot; the timestamp and the sleep of lines 187-189 follow.
ConsumerRead(c) ==
    /\ InPop(c)
    /\ \E got \in OQ!Readable(qOp[c].idx) :
         /\ OQ!PopRead(c, got)
         /\ order' = [order EXCEPT ![c] = got]
    /\ pc' = [pc EXCEPT ![c] = "book"]

\* Line 183: the only way out of the loop.
LeaveWhenQueueEmpty(c) == TRUE

MayLeave(c) == CQ!Size >= totalOrders

ConsumerSize(c) ==
    /\ pc[c] = "size"
    /\ pc' = [pc EXCEPT ![c] = IF MayLeave(c) THEN "done" ELSE "pop"]
    /\ UNCHANGED <<orderQueue, completedOrders, book, main, sent, order>>

Side(o) == IF o.isBuy THEN "buy" ELSE "sell"

BookMutexIgnored(c) == TRUE

BookMutexFree(c) == bookMutex = {}

\* Takes bookMutex and reads the entry of the order's symbol and side.
ConsumerLockBook(c) ==
    /\ pc[c] = "book" /\ BookMutexFree(c)
    /\ bookMutex' = {c}
    /\ entry' = [entry EXCEPT ![c] = orderBook[order[c].symbol][Side(order[c])]]
    /\ pc' = [pc EXCEPT ![c] = "store"]
    /\ UNCHANGED <<orderQueue, completedOrders, main, sent, order, orderBook>>

\* Stores the new volume and releases bookMutex.
ConsumerStoreBook(c) ==
    /\ pc[c] = "store"
    /\ orderBook' = [orderBook EXCEPT ![order[c].symbol][Side(order[c])] =
                       entry[c] + order[c].quantity]
    /\ bookMutex' = {}
    /\ entry' = [entry EXCEPT ![c] = 0]
    /\ pc' = [pc EXCEPT ![c] = "complete"]
    /\ UNCHANGED <<orderQueue, completedOrders, main, sent, order>>

InComplete(c) ==
    /\ pc[c] = "complete"
    /\ UNCHANGED <<orderQueue, book, main, sent>>

ConsumerCLoadTail(c) ==
    InComplete(c) /\ CQ!PushLoadTail(c) /\ UNCHANGED <<pc, order>>

\* On to the next order, the local variable order out of scope.
NextOrder(c) ==
    /\ pc' = [pc EXCEPT ![c] = "pop"]
    /\ order' = [order EXCEPT ![c] = DefaultOrder]

\* Line 202 ignores the result: with a full queue the order is dropped.
ConsumerCLoadHead(c) ==
    /\ InComplete(c)
    /\ CQ!PushLoadHead(c)
    /\ IF CQ!Full(c) THEN NextOrder(c) ELSE UNCHANGED <<pc, order>>

ConsumerCCas(c) ==
    InComplete(c) /\ CQ!PushCas(c) /\ UNCHANGED <<pc, order>>

ConsumerCRetry(c) ==
    InComplete(c) /\ CQ!PushRetry(c) /\ UNCHANGED <<pc, order>>

ConsumerCWrite(c) == InComplete(c) /\ CQ!PushWrite(c) /\ NextOrder(c)

Consumer(c) ==
    \/ ConsumerStart(c)
    \/ ConsumerLoadHead(c)
    \/ ConsumerLoadTail(c)
    \/ ConsumerPopCas(c)
    \/ ConsumerPopRetry(c)
    \/ ConsumerRead(c)
    \/ ConsumerSize(c)
    \/ ConsumerLockBook(c)
    \/ ConsumerStoreBook(c)
    \/ ConsumerCLoadTail(c)
    \/ ConsumerCLoadHead(c)
    \/ ConsumerCCas(c)
    \/ ConsumerCRetry(c)
    \/ ConsumerCWrite(c)

-----------------------------------------------------------------------------
(* main *)

MainStart ==
    /\ mainAt = "spawn"
    /\ startLatch' = 0
    /\ mainAt' = "joinProducers"
    /\ UNCHANGED <<orderQueue, completedOrders, book, pc, sent, order, report>>

MainJoinProducers ==
    /\ mainAt = "joinProducers"
    /\ \A p \in Producers : pc[p] = "done"
    /\ mainAt' = "joinConsumers"
    /\ UNCHANGED <<orderQueue, completedOrders, book, pc, sent, order,
                   startLatch, report>>

ConsumersNotJoined == TRUE

ConsumersJoined == \A c \in Consumers : pc[c] = "done"

\* Joins the consumers and prints; runAnalytics() iterates completedOrders.
MainReport ==
    /\ mainAt = "joinConsumers"
    /\ ConsumersJoined
    /\ mainAt' = "done"
    /\ report' = CQ!Contents
    /\ UNCHANGED <<orderQueue, completedOrders, book, pc, sent, order, startLatch>>

\* The program has ended; nothing moves any more.
Terminated == mainAt = "done" /\ UNCHANGED vars

Next ==
    \/ MainStart \/ MainJoinProducers \/ MainReport
    \/ \E p \in Producers : Producer(p)
    \/ \E c \in Consumers : Consumer(c)
    \/ Terminated

(***************************************************************************)
(* Every thread keeps running.  A compare-exchange that could succeed again *)
(* and again does not fail spuriously for ever.                            *)
(***************************************************************************)
Fairness ==
    /\ WF_vars(MainStart) /\ WF_vars(MainJoinProducers) /\ WF_vars(MainReport)
    /\ \A p \in Producers : WF_vars(Producer(p)) /\ SF_vars(ProducerCas(p))
    /\ \A c \in Consumers : /\ WF_vars(Consumer(c))
                            /\ SF_vars(ConsumerPopCas(c))
                            /\ SF_vars(ConsumerCCas(c))

Spec == Init /\ [][Next]_vars

FairSpec == Spec /\ Fairness

-----------------------------------------------------------------------------
\* The set of values every variable takes.
TypeOK ==
    /\ qHead \in OQ!Slots /\ qTail \in OQ!Slots
    /\ cHead \in CQ!Slots /\ cTail \in CQ!Slots
    /\ qBuffer \in [OQ!Slots -> Order] /\ cBuffer \in [CQ!Slots -> Order]
    /\ qOp \in [Threads -> [at : QueueSteps, idx : OQ!Slots]]
    /\ cOp \in [Threads -> [at : QueueSteps, idx : CQ!Slots]]
    /\ startLatch \in {0, 1}
    /\ pc \in [Threads -> ThreadSteps]
    /\ sent \in [Producers -> 0 .. ordersPerProducer]
    /\ order \in [Consumers -> Order]
    /\ orderBook \in [Symbols -> [Sides -> Nat]]
    /\ bookMutex \in SUBSET Consumers
    /\ entry \in [Consumers -> Nat]
    /\ mainAt \in {"spawn", "joinProducers", "joinConsumers", "done"}

\* Two producers never write the same slot, two consumers never take the same
\* slot of orderQueue nor write the same slot of completedOrders: the
\* compare-exchange of lines 32 and 52 hands a slot to one thread.
SlotClaimedOnce ==
    \A t, u \in Threads : t # u =>
        /\ OQ!At(t, "write") /\ OQ!At(u, "write") => qOp[t].idx # qOp[u].idx
        /\ OQ!At(t, "read") /\ OQ!At(u, "read") => qOp[t].idx # qOp[u].idx
        /\ CQ!At(t, "write") /\ CQ!At(u, "write") => cOp[t].idx # cOp[u].idx

\* The push_back of line 202, whose result is ignored, never fails: no
\* processed order is dropped before completedOrders.
CompletedNeverDrops ==
    \A c \in Consumers : CQ!At(c, "pushLoadHead") => ~CQ!Full(c)

\* A consumer has left only if all orders have been pushed and popped, and
\* every other consumer is past the order book and owns a slot of
\* completedOrders (line 183).
LeavesOnlyWhenComplete ==
    \A c \in Consumers : pc[c] = "done" =>
        /\ qTail = totalOrders /\ qHead = totalOrders /\ cTail = totalOrders
        /\ \A d \in Consumers : /\ pc[d] \notin {"book", "store"}
                                /\ pc[d] = "complete" => CQ!At(d, "write")

\* No order is in two slots of completedOrders, torn or not.
CompletedOnce ==
    \A i, j \in CQ!Slots :
        i # j /\ cBuffer[i].orderId # 0 => cBuffer[i].orderId # cBuffer[j].orderId

Quantity(o, s, side) ==
    IF o.symbol = s /\ Side(o) = side THEN o.quantity ELSE 0

\* The volume of a symbol and side in completedOrders, ...
CompletedVolume(s, side) ==
    SumFunction([i \in CQ!Slots |-> Quantity(cBuffer[i], s, side)])

\* ... and on its way there: booked, but not yet in its slot.
VolumeOnTheWay(s, side) ==
    SumFunction([c \in Consumers |->
                   IF pc[c] = "complete" THEN Quantity(order[c], s, side) ELSE 0])

\* The order book holds exactly what the consumers have processed: no update
\* under bookMutex is lost, whichever consumers interleave (lines 192-202).
BookHoldsWhatWasProcessed ==
    \A s \in Symbols, side \in Sides :
        orderBook[s][side] = CompletedVolume(s, side) + VolumeOnTheWay(s, side)

\* main() prints totalOrders/totalOrders, and the orders that runAnalytics()
\* reads account for every volume of the book it prints afterwards: no
\* consumer is still between the claim and the write of its last slot.
ReportMatchesBook ==
    mainAt = "done" =>
        /\ Len(report) = totalOrders
        /\ \A s \in Symbols, side \in Sides :
             orderBook[s][side] =
               SumFunction([k \in DOMAIN report |-> Quantity(report[k], s, side)])

\* The counts of pushed, popped and completed orders, and the departure of the
\* consumers, follow the order-flow specification.
OF == INSTANCE OrderFlow WITH
        Total <- totalOrders, pushed <- qTail, popped <- qHead,
        completed <- cTail, left <- {c \in Consumers : pc[c] = "done"}

FollowsOrderFlow == OF!Spec

\* The program ends: no producer or consumer loops for ever.
ProgramEnds == <>(mainAt = "done")

\* What the comment of line 44 says of pop: a pop that does not find the queue
\* empty returns an item that was pushed.  The code may hand out a slot that is
\* claimed (line 32) and not yet written (line 38).
PopReturnsAPushedItem ==
    \A c \in Consumers : pc[c] = "book" =>
        \E p \in Producers, i \in 0 .. ordersPerProducer - 1 :
            order[c] = OrderOf(p, i)

-----------------------------------------------------------------------------
(***************************************************************************)
(* The inductive invariant behind the properties.  Every index counts      *)
(* something: qTail the orders that own a slot of orderQueue, cTail with   *)
(* the orders in flight qHead.  Since there are totalOrders orders and one *)
(* slot more, no index ever wraps, and an index only grows.                *)
(***************************************************************************)

\* The orders whose push has claimed a slot.
ClaimedOrders ==
    {o \in Producers \X (0 .. ordersPerProducer - 1) :
        \/ o[2] < sent[o[1]]
        \/ o[2] = sent[o[1]] /\ OQ!At(o[1], "write")}

\* The consumers with an order they have claimed from orderQueue and not yet
\* claimed a slot of completedOrders for.
InFlight ==
    {c \in Consumers :
        \/ OQ!At(c, "read")
        \/ pc[c] \in {"book", "store"}
        \/ pc[c] = "complete" /\ ~CQ!At(c, "write")}

\* The control points of a thread agree with its progress in the queue calls.
ControlInv ==
    /\ \A p \in Producers :
         /\ cOp[p] = CQ!Idle
         /\ qOp[p].at \in {"idle", "pushLoadHead", "pushCas", "write"}
         /\ pc[p] \in {"latch", "push", "done"}
         /\ pc[p] # "push" => qOp[p] = OQ!Idle
         /\ pc[p] = "done" <=> sent[p] = ordersPerProducer
    /\ \A c \in Consumers :
         /\ qOp[c].at \in {"idle", "popLoadTail", "popCas", "read"}
         /\ cOp[c].at \in {"idle", "pushLoadHead", "pushCas", "write"}
         /\ pc[c] \in ThreadSteps \ {"push"}
         /\ pc[c] # "pop" => qOp[c] = OQ!Idle
         /\ pc[c] # "complete" => cOp[c] = CQ!Idle

\* What a thread knows of an index it has loaded.
IndexInv ==
    /\ \A p \in Producers :
         /\ qOp[p].at \in {"pushLoadHead", "pushCas"} => qOp[p].idx <= qTail
         /\ qOp[p].at = "write" => qOp[p].idx < qTail
    /\ \A c \in Consumers :
         /\ qOp[c].at = "popLoadTail" => qOp[c].idx <= qHead
         /\ qOp[c].at = "popCas" => qOp[c].idx <= qHead /\ qOp[c].idx < qTail
         /\ qOp[c].at = "read" => qOp[c].idx < qHead
         /\ cOp[c].at \in {"pushLoadHead", "pushCas"} => cOp[c].idx <= cTail
         /\ cOp[c].at = "write" => cOp[c].idx < cTail

CountInv ==
    /\ qTail = Cardinality(ClaimedOrders)
    /\ qHead = cTail + Cardinality(InFlight)
    /\ qHead <= qTail
    /\ cHead = 0

LeaveInv == \A c \in Consumers : pc[c] = "done" => cTail = totalOrders

\* The conjunction is inductive; its parts are about the indices of the two
\* queues (lines 25-62) and the loop of the consumers (lines 180-211).
IInv == TypeOK /\ ControlInv /\ IndexInv /\ CountInv /\ SlotClaimedOnce /\ LeaveInv
=============================================================================
