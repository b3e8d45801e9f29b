------------------------- MODULE OrderPipelineProofs -------------------------
(***************************************************************************)
(* Theorems about OrderPipeline, for any number of producers, consumers    *)
(* and orders: the invariant IInv, the safety properties that follow from  *)
(* it, the refinement of OrderFlow, and, each with an invariant of its own *)
(* beside IInv, the properties about the volumes and about the order ids.  *)
(***************************************************************************)
EXTENDS OrderPipeline, FiniteSetTheorems, WellFoundedInduction, TLAPS

\* What the constants give: the capacity is one more than the orders.
LEMMA Constants ==
    /\ totalOrders \in Nat
    /\ QUEUE_CAPACITY = totalOrders + 1
    /\ OQ!Slots = 0 .. totalOrders
    /\ CQ!Slots = 0 .. totalOrders
    /\ \A p \in Producers : p \notin Consumers /\ p \in Nat
    /\ \A t \in Threads : t \in Producers \/ t \in Consumers
    /\ Producers \subseteq Threads
    /\ Consumers \subseteq Threads
BY ConstantsAssumption
   DEF totalOrders, QUEUE_CAPACITY, OQ!Slots, CQ!Slots, Threads, Producers

\* An index below the capacity's last value does not wrap.
LEMMA NextIndex ==
    ASSUME NEW i \in Nat, i < totalOrders
    PROVE  OQ!Next(i) = i + 1 /\ CQ!Next(i) = i + 1
<1>1. (i + 1) % (totalOrders + 1) = i + 1
  BY Constants
<1>. QED BY <1>1, Constants DEF OQ!Next, CQ!Next

\* What a thread pushes is an Order.
LEMMA PushedType ==
    ASSUME TypeOK, NEW t \in Threads
    PROVE  Pushed[t] \in Order
<1>1. CASE t \in Producers
  <2>1. sent[t] \in Nat /\ t \in Nat
    BY <1>1, Constants, ConstantsAssumption DEF TypeOK
  <2>. QED BY <1>1, <2>1 DEF Pushed, OrderOf, Order, Symbols
<1>2. CASE t \in Consumers
  BY <1>2, Constants DEF Pushed, TypeOK
<1>. QED BY <1>1, <1>2, Constants

\* A slot that is read while it is written still yields an Order.
LEMMA ReadableType ==
    ASSUME TypeOK, NEW i \in OQ!Slots
    PROVE  OQ!Readable(i) \subseteq Order
<1>1. ASSUME NEW a \in Order, NEW b \in Order PROVE OQ!Torn(a, b) \subseteq Order
  BY <1>1 DEF OQ!Torn, Order
<1>2. qBuffer[i] \in Order
  BY DEF TypeOK
<1>. QED BY <1>1, <1>2, PushedType DEF OQ!Readable, OQ!Writers

\* There are totalOrders orders: what has claimed a slot is a subset of them.
LEMMA OrdersFinite ==
    LET All == Producers \X (0 .. ordersPerProducer - 1) IN
    /\ IsFiniteSet(All)
    /\ Cardinality(All) = totalOrders
    /\ IsFiniteSet(ClaimedOrders)
    /\ Cardinality(ClaimedOrders) \in Nat
    /\ Cardinality(ClaimedOrders) <= totalOrders
    /\ Cardinality(ClaimedOrders) = totalOrders => ClaimedOrders = All
<1> DEFINE All == Producers \X (0 .. ordersPerProducer - 1)
<1>1. IsFiniteSet(Producers) /\ Cardinality(Producers) = numProducers
  BY FS_Interval, ConstantsAssumption DEF Producers
<1>2. /\ IsFiniteSet(0 .. ordersPerProducer - 1)
      /\ Cardinality(0 .. ordersPerProducer - 1) = ordersPerProducer
  BY FS_Interval, ConstantsAssumption
<1>3. IsFiniteSet(All) /\ Cardinality(All) = totalOrders
  BY <1>1, <1>2, FS_Product DEF totalOrders
<1>4. ClaimedOrders \in SUBSET All
  BY DEF ClaimedOrders
<1>. QED BY <1>3, <1>4, FS_Subset, FS_CardinalityType

LEMMA InFlightFinite ==
    /\ IsFiniteSet(InFlight)
    /\ Cardinality(InFlight) \in Nat
    /\ Cardinality(InFlight) = 0 <=> InFlight = {}
BY FS_Subset, FS_CardinalityType, FS_EmptySet, ConstantsAssumption DEF InFlight

\* The indices in order, and none beyond the number of orders.
LEMMA Bounds ==
    ASSUME IInv
    PROVE  /\ qHead \in Nat /\ qTail \in Nat /\ cTail \in Nat
           /\ cTail <= qHead /\ qHead <= qTail /\ qTail <= totalOrders
BY OrdersFinite, InFlightFinite, Constants DEF IInv, CountInv, TypeOK

-----------------------------------------------------------------------------
(* The producers' steps *)

LEMMA ProducerStartInv ==
    ASSUME IInv, NEW p \in Producers, ProducerStart(p)
    PROVE  IInv'
<1> USE DEF ProducerStart, orderQueue, completedOrders, book, main, IInv
<1>1. TypeOK'
  BY DEF TypeOK, ThreadSteps
<1>2. ControlInv'
  BY Constants, ConstantsAssumption DEF TypeOK, ControlInv, OQ!Idle, CQ!Idle
<1>3. IndexInv'
  BY DEF IndexInv
<1>4. ClaimedOrders' = ClaimedOrders
  BY DEF ClaimedOrders, OQ!At
<1>5. InFlight' = InFlight
  BY Constants DEF InFlight, TypeOK, OQ!At, CQ!At
<1>6. CountInv'
  BY <1>4, <1>5 DEF CountInv
<1>7. SlotClaimedOnce'
  BY DEF SlotClaimedOnce, OQ!At, CQ!At
<1>8. LeaveInv'
  BY Constants DEF LeaveInv, TypeOK
<1>. QED BY <1>1, <1>2, <1>3, <1>6, <1>7, <1>8

\* A producer inside push_back has an order left to send.
LEMMA ProducerSending ==
    ASSUME IInv, NEW p \in Producers, pc[p] = "push"
    PROVE  sent[p] \in 0 .. ordersPerProducer - 1
<1>1. sent[p] \in 0 .. ordersPerProducer
  BY DEF IInv, TypeOK
<1>2. sent[p] # ordersPerProducer
  BY DEF IInv, ControlInv
<1>. QED BY <1>1, <1>2, ConstantsAssumption

\* The steps of push_back before its claim change nothing but the producer's
\* own progress, and what it has loaded is no further than the tail.
LEMMA ProducerMovesInv ==
    ASSUME IInv, NEW p \in Producers, pc[p] = "push", ~OQ!At(p, "write"),
           NEW r \in [at : {"idle", "pushLoadHead", "pushCas"}, idx : OQ!Slots],
           r.idx <= qTail,
           qOp' = [qOp EXCEPT ![p] = r],
           UNCHANGED <<qHead, qTail, qBuffer, completedOrders, book, main, order,
                       pc, sent>>
    PROVE  IInv'
<1> USE DEF completedOrders, book, main, IInv, OQ!At
<1>1. TypeOK'
  BY Constants DEF TypeOK, QueueSteps
<1>2. ControlInv'
  BY Constants DEF TypeOK, ControlInv
<1>3. IndexInv'
  BY Constants DEF TypeOK, IndexInv
<1>4. ClaimedOrders' = ClaimedOrders
  BY Constants DEF ClaimedOrders, TypeOK
<1>5. InFlight' = InFlight
  BY Constants DEF InFlight, TypeOK, CQ!At
<1>6. CountInv'
  BY <1>4, <1>5 DEF CountInv
<1>7. SlotClaimedOnce'
  BY Constants DEF SlotClaimedOnce, TypeOK, CQ!At
<1>8. LeaveInv'
  BY DEF LeaveInv
<1>. QED BY <1>1, <1>2, <1>3, <1>6, <1>7, <1>8

LEMMA ProducerLoadTailInv ==
    ASSUME IInv, NEW p \in Producers, ProducerLoadTail(p)
    PROVE  IInv'
<1> DEFINE r == [at |-> "pushLoadHead", idx |-> qTail]
<1>1. r \in [at : {"idle", "pushLoadHead", "pushCas"}, idx : OQ!Slots] /\ r.idx <= qTail
  BY Bounds DEF IInv, TypeOK
<1>. QED
  BY <1>1, ProducerMovesInv
     DEF ProducerLoadTail, InProducer, OQ!PushLoadTail, OQ!Goto, OQ!At

LEMMA ProducerLoadHeadInv ==
    ASSUME IInv, NEW p \in Producers, ProducerLoadHead(p)
    PROVE  IInv'
<1> DEFINE r == IF OQ!Full(p) THEN OQ!Idle ELSE [at |-> "pushCas", idx |-> qOp[p].idx]
<1>1. qOp[p].idx \in OQ!Slots /\ qOp[p].idx <= qTail
  BY Constants DEF IInv, TypeOK, IndexInv, ProducerLoadHead, OQ!PushLoadHead, OQ!At
<1>2. r \in [at : {"idle", "pushLoadHead", "pushCas"}, idx : OQ!Slots] /\ r.idx <= qTail
  BY <1>1, Bounds, Constants DEF OQ!Idle
<1>3. qOp' = [qOp EXCEPT ![p] = r]
  BY DEF ProducerLoadHead, OQ!PushLoadHead, OQ!Goto
<1>. QED
  BY <1>2, <1>3, ProducerMovesInv
     DEF ProducerLoadHead, InProducer, OQ!PushLoadHead, OQ!At

LEMMA ProducerRetryInv ==
    ASSUME IInv, NEW p \in Producers, ProducerRetry(p)
    PROVE  IInv'
<1>1. /\ OQ!Idle \in [at : {"idle", "pushLoadHead", "pushCas"}, idx : OQ!Slots]
      /\ OQ!Idle.idx <= qTail
  BY Bounds, Constants DEF OQ!Idle
<1>. QED
  BY <1>1, ProducerMovesInv
     DEF ProducerRetry, InProducer, OQ!PushRetry, OQ!At

\* The claim: one more order owns a slot, and there was one left to claim.
LEMMA ProducerCasClaims ==
    ASSUME IInv, NEW p \in Producers, ProducerCas(p)
    PROVE  /\ qTail < totalOrders
           /\ qTail' = qTail + 1
           /\ Cardinality(ClaimedOrders') = Cardinality(ClaimedOrders) + 1
<1> USE DEF ProducerCas, InProducer, OQ!PushCas, OQ!TailUnmoved, OQ!Goto, OQ!At, IInv
<1> DEFINE o == <<p, sent[p]>>
<1>1. sent[p] \in 0 .. ordersPerProducer - 1
  BY ProducerSending
<1>2. o \in Producers \X (0 .. ordersPerProducer - 1) /\ o \notin ClaimedOrders
  BY <1>1 DEF ClaimedOrders
<1>3. ClaimedOrders' = ClaimedOrders \cup {o}
  BY <1>1, Constants DEF ClaimedOrders, TypeOK
<1>4. Cardinality(ClaimedOrders') = Cardinality(ClaimedOrders) + 1
  BY <1>2, <1>3, OrdersFinite, FS_AddElement
<1>5. qTail < totalOrders
  BY <1>2, OrdersFinite, Constants DEF CountInv
<1>6. qTail' = qTail + 1
  BY <1>5, Bounds, NextIndex
<1>. QED BY <1>4, <1>5, <1>6

LEMMA ProducerCasInv ==
    ASSUME IInv, NEW p \in Producers, ProducerCas(p)
    PROVE  IInv'
<1> USE DEF ProducerCas, InProducer, OQ!PushCas, OQ!TailUnmoved, OQ!Goto, OQ!At,
            completedOrders, book, main, IInv
<1>1. /\ qTail' = qTail + 1 /\ qTail < totalOrders /\ qOp[p].idx = qTail
      /\ qTail \in Nat /\ qHead \in Nat /\ qHead <= qTail
  BY ProducerCasClaims, Bounds
<1>2. TypeOK'
  BY <1>1, Constants DEF TypeOK, QueueSteps
<1>3. ControlInv'
  BY Constants DEF TypeOK, ControlInv
<1>4. IndexInv'
  BY <1>1, Constants DEF TypeOK, IndexInv
<1>5. InFlight' = InFlight
  BY Constants DEF InFlight, TypeOK, CQ!At
<1>6. CountInv'
  <2>1. qTail' = Cardinality(ClaimedOrders')
    BY <1>1, ProducerCasClaims DEF CountInv
  <2>2. qHead' <= qTail'
    BY <1>1
  <2>. QED BY <1>5, <2>1, <2>2 DEF CountInv
<1>7. SlotClaimedOnce'
  <2>1. ASSUME NEW t \in Threads, t # p, OQ!At(t, "write")
        PROVE  qOp[t].idx # qTail
    <3>1. t \in Producers
      BY <2>1, Constants DEF ControlInv
    <3>2. qOp[t].idx < qTail /\ qOp[t].idx \in Nat
      BY <2>1, <3>1, Constants DEF IndexInv, TypeOK
    <3>. QED BY <1>1, <3>2
  <2>. QED BY <1>1, <2>1, Constants DEF SlotClaimedOnce, TypeOK, CQ!At
<1>8. LeaveInv'
  BY DEF LeaveInv
<1>. QED BY <1>2, <1>3, <1>4, <1>6, <1>7, <1>8

LEMMA ProducerWriteInv ==
    ASSUME IInv, NEW p \in Producers, ProducerWrite(p)
    PROVE  IInv'
<1> USE DEF ProducerWrite, LastOrder, InProducer, OQ!PushWrite, OQ!At, OQ!Idle,
            completedOrders, book, main, IInv
<1>1. sent[p] \in 0 .. ordersPerProducer - 1 /\ sent'[p] = sent[p] + 1
  BY ProducerSending DEF TypeOK
<1>2. TypeOK'
  <2>1. Pushed[p] \in Order
    BY PushedType, Constants
  <2>2. qBuffer' \in [OQ!Slots -> Order]
    BY <2>1 DEF TypeOK
  <2>3. sent' \in [Producers -> 0 .. ordersPerProducer]
    BY <1>1, ConstantsAssumption DEF TypeOK
  <2>. QED BY <2>2, <2>3, Constants DEF TypeOK, QueueSteps, ThreadSteps
<1>3. ControlInv'
  BY <1>1, Constants, ConstantsAssumption DEF TypeOK, ControlInv
<1>4. IndexInv'
  BY Constants DEF TypeOK, IndexInv
<1>5. ClaimedOrders' = ClaimedOrders
  BY <1>1, Constants DEF ClaimedOrders, TypeOK
<1>6. InFlight' = InFlight
  BY Constants DEF InFlight, TypeOK, CQ!At
<1>7. CountInv'
  BY <1>5, <1>6 DEF CountInv
<1>8. SlotClaimedOnce'
  BY Constants DEF SlotClaimedOnce, TypeOK, CQ!At
<1>9. LeaveInv'
  BY Constants DEF LeaveInv, TypeOK
<1>. QED BY <1>2, <1>3, <1>4, <1>7, <1>8, <1>9

-----------------------------------------------------------------------------
(* The consumers' steps *)

LEMMA ConsumerStartInv ==
    ASSUME IInv, NEW c \in Consumers, ConsumerStart(c)
    PROVE  IInv'
<1> USE DEF ConsumerStart, orderQueue, completedOrders, book, main, IInv
<1>1. TypeOK'
  BY DEF TypeOK, ThreadSteps
<1>2. ControlInv'
  BY Constants DEF TypeOK, ControlInv, ThreadSteps, OQ!Idle, CQ!Idle
<1>3. IndexInv'
  BY DEF IndexInv
<1>4. ClaimedOrders' = ClaimedOrders
  BY DEF ClaimedOrders, OQ!At
<1>5. InFlight' = InFlight
  BY Constants DEF InFlight, TypeOK, OQ!At, CQ!At
<1>6. CountInv'
  BY <1>4, <1>5 DEF CountInv
<1>7. SlotClaimedOnce'
  BY DEF SlotClaimedOnce, OQ!At, CQ!At
<1>8. LeaveInv'
  BY Constants DEF LeaveInv, TypeOK
<1>. QED BY <1>1, <1>2, <1>3, <1>6, <1>7, <1>8

\* The steps of pop before its claim change nothing but the consumer's own
\* progress; an index that was found different from the tail is below it.
LEMMA ConsumerMovesInv ==
    ASSUME IInv, NEW c \in Consumers, pc[c] = "pop", ~OQ!At(c, "read"),
           NEW r \in [at : {"idle", "popLoadTail", "popCas"}, idx : OQ!Slots],
           r.idx <= qHead, r.at = "popCas" => r.idx < qTail,
           NEW where \in {"pop", "size"}, where = "size" => r = OQ!Idle,
           qOp' = [qOp EXCEPT ![c] = r],
           pc' = [pc EXCEPT ![c] = where],
           UNCHANGED <<qHead, qTail, qBuffer, completedOrders, book, main, order, sent>>
    PROVE  IInv'
<1> USE DEF completedOrders, book, main, IInv, OQ!At
<1>1. TypeOK'
  BY Constants DEF TypeOK, QueueSteps, ThreadSteps
<1>2. ControlInv'
  BY Constants DEF TypeOK, ControlInv, ThreadSteps
<1>3. IndexInv'
  BY Constants DEF TypeOK, IndexInv
<1>4. ClaimedOrders' = ClaimedOrders
  BY Constants DEF ClaimedOrders, TypeOK
<1>5. InFlight' = InFlight
  BY Constants DEF InFlight, TypeOK, CQ!At
<1>6. CountInv'
  BY <1>4, <1>5 DEF CountInv
<1>7. SlotClaimedOnce'
  BY Constants DEF SlotClaimedOnce, TypeOK, CQ!At
<1>8. LeaveInv'
  BY Constants DEF LeaveInv, TypeOK
<1>. QED BY <1>1, <1>2, <1>3, <1>6, <1>7, <1>8

LEMMA ConsumerLoadHeadInv ==
    ASSUME IInv, NEW c \in Consumers, ConsumerLoadHead(c)
    PROVE  IInv'
<1> DEFINE r == [at |-> "popLoadTail", idx |-> qHead]
<1>1. /\ r \in [at : {"idle", "popLoadTail", "popCas"}, idx : OQ!Slots]
      /\ r.idx <= qHead /\ r.at = "popLoadTail"
  BY Bounds DEF IInv, TypeOK
<1>2. pc' = [pc EXCEPT ![c] = "pop"]
  BY DEF ConsumerLoadHead, InPop, IInv, TypeOK
<1>. QED
  BY <1>1, <1>2, ConsumerMovesInv
     DEF ConsumerLoadHead, InPop, OQ!PopLoadHead, OQ!Goto, OQ!At

LEMMA ConsumerLoadTailInv ==
    ASSUME IInv, NEW c \in Consumers, ConsumerLoadTail(c)
    PROVE  IInv'
<1> DEFINE r == IF OQ!Empty(c) THEN OQ!Idle ELSE [at |-> "popCas", idx |-> qOp[c].idx]
           where == IF OQ!Empty(c) THEN "size" ELSE "pop"
<1>1. qOp[c].idx \in OQ!Slots /\ qOp[c].idx <= qHead
  BY Constants DEF IInv, TypeOK, IndexInv, ConsumerLoadTail, OQ!PopLoadTail, OQ!At
<1>2. /\ r \in [at : {"idle", "popLoadTail", "popCas"}, idx : OQ!Slots]
      /\ r.idx <= qHead
      /\ r.at = "popCas" => r.idx < qTail
      /\ where \in {"pop", "size"}
      /\ where = "size" => r = OQ!Idle
  BY <1>1, Bounds, Constants DEF OQ!Idle, OQ!Empty
<1>3. /\ qOp' = [qOp EXCEPT ![c] = r]
      /\ pc' = [pc EXCEPT ![c] = where]
  BY DEF ConsumerLoadTail, OQ!PopLoadTail, OQ!Goto
<1>. QED
  BY <1>2, <1>3, ConsumerMovesInv
     DEF ConsumerLoadTail, InPop, OQ!PopLoadTail, OQ!At

LEMMA ConsumerPopRetryInv ==
    ASSUME IInv, NEW c \in Consumers, ConsumerPopRetry(c)
    PROVE  IInv'
<1>1. /\ OQ!Idle \in [at : {"idle", "popLoadTail", "popCas"}, idx : OQ!Slots]
      /\ OQ!Idle.idx <= qHead /\ OQ!Idle.at = "idle"
  BY Bounds, Constants DEF OQ!Idle
<1>2. pc' = [pc EXCEPT ![c] = "pop"]
  BY DEF ConsumerPopRetry, InPop, IInv, TypeOK
<1>. QED
  BY <1>1, <1>2, ConsumerMovesInv
     DEF ConsumerPopRetry, InPop, OQ!PopRetry, OQ!At

\* The claim of a pop: the head advances within the tail, and the consumer is
\* in flight from here on.
LEMMA ConsumerPopClaims ==
    ASSUME IInv, NEW c \in Consumers, ConsumerPopCas(c)
    PROVE  /\ qHead < qTail /\ qHead < totalOrders
           /\ qHead' = qHead + 1
           /\ qHead' = cTail + Cardinality(InFlight')
<1> USE DEF ConsumerPopCas, InPop, OQ!PopCas, OQ!HeadUnmoved, OQ!Goto, IInv
<1>1. c \notin InFlight
  BY DEF InFlight, OQ!At
<1>2. InFlight' = InFlight \cup {c}
  <2>1. /\ pc' = pc /\ cOp' = cOp
        /\ qOp' = [qOp EXCEPT ![c] = [at |-> "read", idx |-> qOp[c].idx]]
        /\ qOp \in [Threads -> [at : QueueSteps, idx : OQ!Slots]]
    BY DEF TypeOK, completedOrders
  <2>2. qOp'[c].at = "read"
    BY <2>1, Constants
  <2>3. \A d \in Consumers \ {c} : qOp'[d] = qOp[d]
    BY <2>1, Constants
  <2>. HIDE DEF ConsumerPopCas, IInv
  <2>. QED BY <2>1, <2>2, <2>3 DEF InFlight, OQ!At, CQ!At
<1>3. Cardinality(InFlight') = Cardinality(InFlight) + 1
  BY <1>1, <1>2, InFlightFinite, FS_AddElement
<1>4. qHead < qTail
  BY DEF IndexInv, OQ!At
<1>5. qHead < totalOrders
  BY <1>4, Bounds, Constants
<1>6. qHead' = qHead + 1
  BY <1>5, Bounds, NextIndex
<1>7. qHead' = cTail + Cardinality(InFlight')
  <2>1. qHead = cTail + Cardinality(InFlight)
    BY DEF CountInv
  <2>. QED BY <1>3, <1>6, <2>1, InFlightFinite, Bounds
<1>. QED BY <1>4, <1>5, <1>6, <1>7

LEMMA ConsumerPopCasInv ==
    ASSUME IInv, NEW c \in Consumers, ConsumerPopCas(c)
    PROVE  IInv'
<1> USE DEF ConsumerPopCas, InPop, OQ!PopCas, OQ!HeadUnmoved, OQ!Goto, OQ!At,
            completedOrders, book, main, IInv
<1>1. /\ qHead' = qHead + 1 /\ qHead < totalOrders /\ qHead < qTail /\ qOp[c].idx = qHead
      /\ qTail \in Nat /\ qHead \in Nat
  BY ConsumerPopClaims, Bounds
<1>2. TypeOK'
  BY <1>1, Constants DEF TypeOK, QueueSteps
<1>3. ControlInv'
  BY Constants DEF TypeOK, ControlInv
<1>4. IndexInv'
  BY <1>1, Constants DEF TypeOK, IndexInv
<1>5. ClaimedOrders' = ClaimedOrders
  BY Constants DEF ClaimedOrders, TypeOK
<1>6. CountInv'
  <2>1. qHead' = cTail + Cardinality(InFlight')
    BY ConsumerPopClaims
  <2>2. qHead' <= qTail'
    BY <1>1
  <2>. QED BY <1>5, <2>1, <2>2 DEF CountInv
<1>7. SlotClaimedOnce'
  <2>1. ASSUME NEW t \in Threads, t # c, OQ!At(t, "read")
        PROVE  qOp[t].idx # qHead
    <3>1. t \in Consumers
      BY <2>1, Constants DEF ControlInv
    <3>2. qOp[t].idx < qHead /\ qOp[t].idx \in Nat
      BY <2>1, <3>1, Constants DEF IndexInv, TypeOK
    <3>. QED BY <1>1, <3>2
  <2>. QED BY <1>1, <2>1, Constants DEF SlotClaimedOnce, TypeOK, CQ!At
<1>8. LeaveInv'
  BY DEF LeaveInv
<1>. QED BY <1>2, <1>3, <1>4, <1>6, <1>7, <1>8

LEMMA ConsumerReadInv ==
    ASSUME IInv, NEW c \in Consumers, ConsumerRead(c)
    PROVE  IInv'
<1> USE DEF ConsumerRead, InPop, completedOrders, book, main, IInv
<1>1. PICK got \in OQ!Readable(qOp[c].idx) :
        /\ OQ!PopRead(c, got)
        /\ order' = [order EXCEPT ![c] = got]
  OBVIOUS
<1>2. got \in Order
  BY ReadableType, Constants DEF TypeOK
<1> USE DEF OQ!PopRead, OQ!At
<1>3. TypeOK'
  BY <1>1, <1>2, Constants DEF TypeOK, QueueSteps, ThreadSteps, OQ!Idle
<1>4. ControlInv'
  BY <1>1, Constants DEF TypeOK, ControlInv, ThreadSteps, OQ!Idle
<1>5. IndexInv'
  BY <1>1, Constants DEF TypeOK, IndexInv, OQ!Idle
<1>6. ClaimedOrders' = ClaimedOrders
  BY <1>1, Constants DEF ClaimedOrders, TypeOK, OQ!Idle
<1>7. InFlight' = InFlight
  BY <1>1, Constants DEF InFlight, TypeOK, CQ!At, OQ!Idle
<1>8. CountInv'
  BY <1>1, <1>6, <1>7 DEF CountInv
<1>9. SlotClaimedOnce'
  BY <1>1, Constants DEF SlotClaimedOnce, TypeOK, CQ!At, OQ!Idle
<1>10. LeaveInv'
  BY <1>1, Constants DEF LeaveInv, TypeOK
<1>. QED BY <1>3, <1>4, <1>5, <1>8, <1>9, <1>10

\* size() is the tail of completedOrders, from which nothing is popped.
LEMMA SizeIsTail ==
    ASSUME IInv
    PROVE  CQ!Size = cTail
<1>1. (cTail - 0 + (totalOrders + 1)) % (totalOrders + 1) = cTail
  BY Bounds, Constants
<1>. QED BY <1>1, Constants DEF CQ!Size, IInv, CountInv

\* A consumer that has left, or is allowed to leave, leaves no work behind.
LEMMA CompleteMeansDrained ==
    ASSUME IInv, cTail >= totalOrders
    PROVE  /\ cTail = totalOrders /\ qHead = totalOrders /\ qTail = totalOrders
           /\ InFlight = {}
<1>1. cTail = totalOrders /\ qHead = totalOrders /\ qTail = totalOrders
  BY Bounds, Constants
<1>2. Cardinality(InFlight) = 0
  BY <1>1, InFlightFinite, Constants DEF IInv, CountInv
<1>. QED BY <1>1, <1>2, InFlightFinite

LEMMA ConsumerSizeInv ==
    ASSUME IInv, NEW c \in Consumers, ConsumerSize(c)
    PROVE  IInv'
<1> USE DEF ConsumerSize, orderQueue, completedOrders, book, main, IInv
<1>1. PICK where \in {"done", "pop"} :
        /\ pc' = [pc EXCEPT ![c] = where]
        /\ where = "done" => cTail >= totalOrders
  BY SizeIsTail DEF MayLeave
<1>2. TypeOK'
  BY <1>1 DEF TypeOK, ThreadSteps
<1>3. ControlInv'
  BY <1>1, Constants DEF TypeOK, ControlInv, ThreadSteps
<1>4. IndexInv'
  BY DEF IndexInv
<1>5. ClaimedOrders' = ClaimedOrders
  BY DEF ClaimedOrders, OQ!At
<1>6. InFlight' = InFlight
  BY <1>1, Constants DEF InFlight, TypeOK, OQ!At, CQ!At
<1>7. CountInv'
  BY <1>5, <1>6 DEF CountInv
<1>8. SlotClaimedOnce'
  BY DEF SlotClaimedOnce, OQ!At, CQ!At
<1>9. LeaveInv'
  BY <1>1, CompleteMeansDrained, Constants DEF LeaveInv, TypeOK
<1>. QED BY <1>2, <1>3, <1>4, <1>7, <1>8, <1>9

LEMMA ConsumerLockBookInv ==
    ASSUME IInv, NEW c \in Consumers, ConsumerLockBook(c)
    PROVE  IInv'
<1> USE DEF ConsumerLockBook, orderQueue, completedOrders, main, IInv
<1>1. TypeOK'
  <2>1. orderBook[order[c].symbol][Side(order[c])] \in Nat
    BY DEF TypeOK, Order, Side, Sides
  <2>. QED BY <2>1 DEF TypeOK, ThreadSteps
<1>2. ControlInv'
  BY Constants DEF TypeOK, ControlInv, ThreadSteps
<1>3. IndexInv'
  BY DEF IndexInv
<1>4. ClaimedOrders' = ClaimedOrders
  BY DEF ClaimedOrders, OQ!At
<1>5. InFlight' = InFlight
  BY Constants DEF InFlight, TypeOK, OQ!At, CQ!At
<1>6. CountInv'
  BY <1>4, <1>5 DEF CountInv
<1>7. SlotClaimedOnce'
  BY DEF SlotClaimedOnce, OQ!At, CQ!At
<1>8. LeaveInv'
  BY Constants DEF LeaveInv, TypeOK
<1>. QED BY <1>1, <1>2, <1>3, <1>6, <1>7, <1>8

LEMMA ConsumerStoreBookInv ==
    ASSUME IInv, NEW c \in Consumers, ConsumerStoreBook(c)
    PROVE  IInv'
<1> USE DEF ConsumerStoreBook, orderQueue, completedOrders, main, IInv
<1>1. TypeOK'
  <2>1. entry[c] + order[c].quantity \in Nat
    BY DEF TypeOK, Order
  <2>2. order[c].symbol \in Symbols /\ Side(order[c]) \in Sides
    BY DEF TypeOK, Order, Side, Sides
  <2>3. orderBook' \in [Symbols -> [Sides -> Nat]]
    BY <2>1, <2>2 DEF TypeOK
  <2>. QED BY <2>3 DEF TypeOK, ThreadSteps
<1>2. ControlInv'
  BY Constants DEF TypeOK, ControlInv, ThreadSteps
<1>3. IndexInv'
  BY DEF IndexInv
<1>4. ClaimedOrders' = ClaimedOrders
  BY DEF ClaimedOrders, OQ!At
<1>5. InFlight' = InFlight
  BY Constants DEF InFlight, ControlInv, TypeOK, OQ!At, CQ!At, CQ!Idle
<1>6. CountInv'
  BY <1>4, <1>5 DEF CountInv
<1>7. SlotClaimedOnce'
  BY DEF SlotClaimedOnce, OQ!At, CQ!At
<1>8. LeaveInv'
  BY Constants DEF LeaveInv, TypeOK
<1>. QED BY <1>1, <1>2, <1>3, <1>6, <1>7, <1>8

\* The steps of the second push_back before its claim.
LEMMA ConsumerCMovesInv ==
    ASSUME IInv, NEW c \in Consumers, pc[c] = "complete", ~CQ!At(c, "write"),
           NEW r \in [at : {"idle", "pushLoadHead", "pushCas"}, idx : CQ!Slots],
           r.idx <= cTail,
           cOp' = [cOp EXCEPT ![c] = r],
           UNCHANGED <<cHead, cTail, cBuffer, orderQueue, book, main, order, sent, pc>>
    PROVE  IInv'
<1> USE DEF orderQueue, book, main, IInv, CQ!At
<1>1. TypeOK'
  BY Constants DEF TypeOK, QueueSteps
<1>2. ControlInv'
  BY Constants DEF TypeOK, ControlInv, ThreadSteps
<1>3. IndexInv'
  BY Constants DEF TypeOK, IndexInv
<1>4. ClaimedOrders' = ClaimedOrders
  BY Constants DEF ClaimedOrders, OQ!At
<1>5. InFlight' = InFlight
  BY Constants DEF InFlight, TypeOK, OQ!At
<1>6. CountInv'
  BY <1>4, <1>5 DEF CountInv
<1>7. SlotClaimedOnce'
  BY Constants DEF SlotClaimedOnce, TypeOK, OQ!At
<1>8. LeaveInv'
  BY DEF LeaveInv
<1>. QED BY <1>1, <1>2, <1>3, <1>6, <1>7, <1>8

LEMMA ConsumerCLoadTailInv ==
    ASSUME IInv, NEW c \in Consumers, ConsumerCLoadTail(c)
    PROVE  IInv'
<1> DEFINE r == [at |-> "pushLoadHead", idx |-> cTail]
<1>1. r \in [at : {"idle", "pushLoadHead", "pushCas"}, idx : CQ!Slots] /\ r.idx <= cTail
  BY Bounds DEF IInv, TypeOK
<1>. QED
  BY <1>1, ConsumerCMovesInv
     DEF ConsumerCLoadTail, InComplete, CQ!PushLoadTail, CQ!Goto, CQ!At

\* A consumer on its way to completedOrders is in flight, so that there is a
\* slot left for its order, and the index it has loaded is not the last one.
LEMMA InFlightHasRoom ==
    ASSUME IInv, NEW c \in InFlight
    PROVE  cTail < qHead /\ cTail < totalOrders
<1>1. Cardinality(InFlight) # 0
  BY InFlightFinite
<1>2. cTail < qHead
  BY <1>1, InFlightFinite, Bounds DEF IInv, CountInv
<1>. QED BY <1>2, Bounds, Constants

LEMMA NeverFull ==
    ASSUME IInv, NEW c \in Consumers, CQ!At(c, "pushLoadHead")
    PROVE  ~CQ!Full(c)
<1>1. pc[c] = "complete" /\ c \in InFlight
  BY DEF IInv, ControlInv, CQ!At, CQ!Idle, InFlight
<1>2. cOp[c].idx \in Nat /\ cOp[c].idx <= cTail
  BY Constants DEF IInv, TypeOK, IndexInv, CQ!At
<1>3. cOp[c].idx < totalOrders
  BY <1>1, <1>2, InFlightHasRoom, Bounds, Constants
<1>. QED BY <1>2, <1>3, NextIndex DEF CQ!Full, IInv, CountInv

LEMMA ConsumerCLoadHeadInv ==
    ASSUME IInv, NEW c \in Consumers, ConsumerCLoadHead(c)
    PROVE  IInv'
<1> DEFINE r == [at |-> "pushCas", idx |-> cOp[c].idx]
<1>1. ~CQ!Full(c)
  BY NeverFull DEF ConsumerCLoadHead, CQ!PushLoadHead
<1>2. r \in [at : {"idle", "pushLoadHead", "pushCas"}, idx : CQ!Slots] /\ r.idx <= cTail
  BY Constants DEF IInv, TypeOK, IndexInv, ConsumerCLoadHead, CQ!PushLoadHead, CQ!At
<1>3. cOp' = [cOp EXCEPT ![c] = r]
  BY <1>1 DEF ConsumerCLoadHead, CQ!PushLoadHead, CQ!Goto
<1>. QED
  BY <1>1, <1>2, <1>3, ConsumerCMovesInv
     DEF ConsumerCLoadHead, InComplete, CQ!PushLoadHead, CQ!At

LEMMA ConsumerCRetryInv ==
    ASSUME IInv, NEW c \in Consumers, ConsumerCRetry(c)
    PROVE  IInv'
<1>1. /\ CQ!Idle \in [at : {"idle", "pushLoadHead", "pushCas"}, idx : CQ!Slots]
      /\ CQ!Idle.idx <= cTail
  BY Bounds, Constants DEF CQ!Idle
<1>. QED
  BY <1>1, ConsumerCMovesInv
     DEF ConsumerCRetry, InComplete, CQ!PushRetry, CQ!At

\* The claim in completedOrders takes the consumer out of flight.
LEMMA ConsumerCCasClaims ==
    ASSUME IInv, NEW c \in Consumers, ConsumerCCas(c)
    PROVE  /\ cTail < qHead /\ cTail < totalOrders
           /\ cTail' = cTail + 1
           /\ qHead = cTail' + Cardinality(InFlight')
<1> USE DEF ConsumerCCas, InComplete, CQ!PushCas, CQ!TailUnmoved, CQ!Goto, IInv
<1>1. c \in InFlight
  BY DEF InFlight, CQ!At
<1>2. InFlight' = InFlight \ {c}
  <2>1. /\ pc' = pc /\ qOp' = qOp
        /\ cOp' = [cOp EXCEPT ![c] = [at |-> "write", idx |-> cOp[c].idx]]
        /\ cOp \in [Threads -> [at : QueueSteps, idx : CQ!Slots]]
    BY DEF TypeOK, orderQueue
  <2>2. ~OQ!At(c, "read") /\ pc[c] = "complete"
    BY Constants DEF ControlInv, OQ!At, OQ!Idle
  <2>3. cOp'[c].at = "write"
    BY <2>1, Constants
  <2>4. \A d \in Consumers \ {c} : cOp'[d] = cOp[d]
    BY <2>1, Constants
  <2>. HIDE DEF ConsumerCCas, IInv
  <2>. QED BY <2>1, <2>2, <2>3, <2>4 DEF InFlight, OQ!At, CQ!At
<1>3. /\ Cardinality(InFlight') = Cardinality(InFlight) - 1
      /\ Cardinality(InFlight) \in Nat
  BY <1>1, <1>2, InFlightFinite, FS_RemoveElement
<1>4. cTail < qHead /\ cTail < totalOrders
  BY <1>1, InFlightHasRoom
<1>5. cTail' = cTail + 1
  BY <1>4, Bounds, NextIndex
<1>6. qHead = cTail' + Cardinality(InFlight')
  <2>1. qHead = cTail + Cardinality(InFlight)
    BY DEF CountInv
  <2>. QED BY <1>3, <1>5, <2>1, Bounds
<1>. QED BY <1>4, <1>5, <1>6

LEMMA ConsumerCCasInv ==
    ASSUME IInv, NEW c \in Consumers, ConsumerCCas(c)
    PROVE  IInv'
<1> USE DEF ConsumerCCas, InComplete, CQ!PushCas, CQ!TailUnmoved, CQ!Goto, CQ!At,
            orderQueue, book, main, IInv
<1>1. /\ cTail' = cTail + 1 /\ cTail < totalOrders /\ cOp[c].idx = cTail
      /\ cTail \in Nat
  BY ConsumerCCasClaims, Bounds
<1>2. TypeOK'
  BY <1>1, Constants DEF TypeOK, QueueSteps
<1>3. ControlInv'
  BY Constants DEF TypeOK, ControlInv, ThreadSteps
<1>4. IndexInv'
  BY <1>1, Constants DEF TypeOK, IndexInv
<1>5. ClaimedOrders' = ClaimedOrders
  BY DEF ClaimedOrders, OQ!At
<1>6. CountInv'
  <2>1. qHead' = cTail' + Cardinality(InFlight')
    BY ConsumerCCasClaims
  <2>. QED BY <1>5, <2>1 DEF CountInv
<1>7. SlotClaimedOnce'
  <2>1. ASSUME NEW t \in Threads, t # c, CQ!At(t, "write")
        PROVE  cOp[t].idx # cTail
    <3>1. t \in Consumers
      BY <2>1, Constants DEF ControlInv, CQ!Idle
    <3>2. cOp[t].idx < cTail /\ cOp[t].idx \in Nat
      BY <2>1, <3>1, Constants DEF IndexInv, TypeOK
    <3>. QED BY <1>1, <3>2
  <2>. QED BY <1>1, <2>1, Constants DEF SlotClaimedOnce, TypeOK, OQ!At
<1>8. LeaveInv'
  <2>1. \A d \in Consumers : pc[d] # "done"
    BY <1>1, Constants DEF LeaveInv
  <2>. QED BY <2>1 DEF LeaveInv
<1>. QED BY <1>2, <1>3, <1>4, <1>6, <1>7, <1>8

LEMMA ConsumerCWriteInv ==
    ASSUME IInv, NEW c \in Consumers, ConsumerCWrite(c)
    PROVE  IInv'
<1> USE DEF ConsumerCWrite, InComplete, NextOrder, CQ!PushWrite, CQ!At, CQ!Idle,
            orderQueue, book, main, IInv
<1>1. TypeOK'
  <2>1. Pushed[c] \in Order
    BY PushedType, Constants
  <2>2. cBuffer' \in [CQ!Slots -> Order]
    BY <2>1 DEF TypeOK
  <2>3. DefaultOrder \in Order
    BY DEF DefaultOrder, Order, Symbols
  <2>. QED BY <2>2, <2>3, Constants DEF TypeOK, QueueSteps, ThreadSteps
<1>2. ControlInv'
  BY Constants DEF TypeOK, ControlInv, ThreadSteps
<1>3. IndexInv'
  BY Constants DEF TypeOK, IndexInv
<1>4. ClaimedOrders' = ClaimedOrders
  BY DEF ClaimedOrders, OQ!At
<1>5. InFlight' = InFlight
  BY Constants DEF InFlight, TypeOK, ControlInv, OQ!At, OQ!Idle
<1>6. CountInv'
  BY <1>4, <1>5 DEF CountInv
<1>7. SlotClaimedOnce'
  BY Constants DEF SlotClaimedOnce, TypeOK, OQ!At
<1>8. LeaveInv'
  BY Constants DEF LeaveInv, TypeOK
<1>. QED BY <1>1, <1>2, <1>3, <1>6, <1>7, <1>8

-----------------------------------------------------------------------------
(* The main thread, and the whole specification *)

LEMMA MainInv ==
    ASSUME IInv, MainStart \/ MainJoinProducers \/ MainReport
    PROVE  IInv'
<1> USE DEF MainStart, MainJoinProducers, MainReport, orderQueue, completedOrders,
            book, IInv
<1>1. TypeOK'
  BY DEF TypeOK
<1>2. ControlInv'
  BY DEF ControlInv
<1>3. IndexInv'
  BY DEF IndexInv
<1>4. ClaimedOrders' = ClaimedOrders
  BY DEF ClaimedOrders, OQ!At
<1>5. InFlight' = InFlight
  BY DEF InFlight, OQ!At, CQ!At
<1>6. CountInv'
  BY <1>4, <1>5 DEF CountInv
<1>7. SlotClaimedOnce'
  BY DEF SlotClaimedOnce, OQ!At, CQ!At
<1>8. LeaveInv'
  BY DEF LeaveInv
<1>. QED BY <1>1, <1>2, <1>3, <1>6, <1>7, <1>8

LEMMA StutterInv ==
    ASSUME IInv, UNCHANGED vars
    PROVE  IInv'
<1> USE DEF vars, IInv
<1>1. TypeOK' /\ ControlInv' /\ IndexInv' /\ LeaveInv'
  BY DEF TypeOK, ControlInv, IndexInv, LeaveInv
<1>2. ClaimedOrders' = ClaimedOrders /\ InFlight' = InFlight
  BY DEF ClaimedOrders, InFlight, OQ!At, CQ!At
<1>3. CountInv'
  BY <1>2 DEF CountInv
<1>4. SlotClaimedOnce'
  BY DEF SlotClaimedOnce, OQ!At, CQ!At
<1>. QED BY <1>1, <1>3, <1>4

LEMMA InitInv == Init => IInv
<1> SUFFICES ASSUME Init PROVE IInv
  OBVIOUS
<1> USE DEF Init, OQ!Init, CQ!Init, OQ!Idle, CQ!Idle, IInv
<1>1. TypeOK
  <2>1. DefaultOrder \in Order
    BY DEF DefaultOrder, Order, Symbols
  <2>2. 0 \in 0 .. ordersPerProducer
    BY ConstantsAssumption
  <2>3. orderBook \in [Symbols -> [Sides -> Nat]]
    OBVIOUS
  <2>. QED BY <2>1, <2>2, <2>3, Constants DEF TypeOK, QueueSteps, ThreadSteps
<1>2. ControlInv
  BY Constants, ConstantsAssumption DEF ControlInv, ThreadSteps
<1>3. IndexInv
  BY Constants DEF IndexInv
<1>4. ClaimedOrders = {} /\ InFlight = {}
  BY Constants, ConstantsAssumption DEF ClaimedOrders, InFlight, OQ!At, CQ!At
<1>5. CountInv
  BY <1>4, FS_EmptySet DEF CountInv
<1>6. SlotClaimedOnce
  BY Constants DEF SlotClaimedOnce, OQ!At, CQ!At
<1>7. LeaveInv
  BY Constants DEF LeaveInv
<1>. QED BY <1>1, <1>2, <1>3, <1>5, <1>6, <1>7

LEMMA NextInv == IInv /\ [Next]_vars => IInv'
<1> SUFFICES ASSUME IInv, [Next]_vars PROVE IInv'
  OBVIOUS
<1>1. CASE MainStart \/ MainJoinProducers \/ MainReport
  BY <1>1, MainInv
<1>2. ASSUME NEW p \in Producers, Producer(p) PROVE IInv'
  BY <1>2, ProducerStartInv, ProducerLoadTailInv, ProducerLoadHeadInv,
     ProducerCasInv, ProducerRetryInv, ProducerWriteInv DEF Producer
<1>3. ASSUME NEW c \in Consumers, Consumer(c) PROVE IInv'
  BY <1>3, ConsumerStartInv, ConsumerLoadHeadInv, ConsumerLoadTailInv,
     ConsumerPopCasInv, ConsumerPopRetryInv, ConsumerReadInv, ConsumerSizeInv,
     ConsumerLockBookInv, ConsumerStoreBookInv, ConsumerCLoadTailInv,
     ConsumerCLoadHeadInv, ConsumerCCasInv, ConsumerCRetryInv, ConsumerCWriteInv
     DEF Consumer
<1>4. CASE UNCHANGED vars
  BY <1>4, StutterInv
<1>. QED BY <1>1, <1>2, <1>3, <1>4 DEF Next, Terminated

\* IInv holds in every reachable state, for any numbers of producers, consumers
\* and orders: the indices of both queues count the orders that have got there.
THEOREM PipelineInvariant == Spec => []IInv
BY InitInv, NextInv, PTL DEF Spec

\* The values of all variables stay within their types.
THEOREM PipelineTypeOK == Spec => []TypeOK
<1>1. IInv => TypeOK
  BY DEF IInv
<1>. QED BY <1>1, PipelineInvariant, PTL

\* The compare-exchange of push_back and of pop never gives a slot to two threads
\* that are inside it at the same time.
THEOREM SlotsAreClaimedOnce == Spec => []SlotClaimedOnce
<1>1. IInv => SlotClaimedOnce
  BY DEF IInv
<1>. QED BY <1>1, PipelineInvariant, PTL

\* The capacity totalOrders + 1 is enough for the push_back of line 202 never to
\* fail, although its result is ignored.
THEOREM NoCompletedOrderDropped == Spec => []CompletedNeverDrops
<1>1. IInv => CompletedNeverDrops
  BY NeverFull DEF CompletedNeverDrops
<1>. QED BY <1>1, PipelineInvariant, PTL

\* No consumer leaves the loop of orderConsumer while an order is still to be
\* pushed, popped, booked or given a slot of completedOrders.
THEOREM ConsumersLeaveLast == Spec => []LeavesOnlyWhenComplete
<1>1. ASSUME IInv PROVE LeavesOnlyWhenComplete
  <2>1. SUFFICES ASSUME NEW c \in Consumers, pc[c] = "done"
                 PROVE  /\ cTail = totalOrders /\ qHead = totalOrders
                        /\ qTail = totalOrders /\ InFlight = {}
    BY DEF LeavesOnlyWhenComplete, InFlight
  <2>2. cTail >= totalOrders
    BY <1>1, <2>1, Constants DEF IInv, LeaveInv
  <2>. QED BY <1>1, <2>2, CompleteMeansDrained
<1>. QED BY <1>1, PipelineInvariant, PTL

-----------------------------------------------------------------------------
(* The pipeline implements OrderFlow *)

Left == {c \in Consumers : pc[c] = "done"}

\* A consumer's step outside its three claims and its departure, and every step
\* of another thread but a producer's claim, leave the order flow unchanged.
LEMMA QuietStep ==
    ASSUME IInv,
           \/ MainStart \/ MainJoinProducers \/ MainReport
           \/ \E p \in Producers :
                \/ ProducerStart(p) \/ ProducerLoadTail(p) \/ ProducerLoadHead(p)
                \/ ProducerRetry(p) \/ ProducerWrite(p)
           \/ \E c \in Consumers :
                \/ ConsumerStart(c) \/ ConsumerLoadHead(c) \/ ConsumerLoadTail(c)
                \/ ConsumerPopRetry(c) \/ ConsumerRead(c)
                \/ ConsumerLockBook(c) \/ ConsumerStoreBook(c)
                \/ ConsumerCLoadTail(c) \/ ConsumerCLoadHead(c)
                \/ ConsumerCRetry(c) \/ ConsumerCWrite(c)
           \/ UNCHANGED vars
    PROVE  UNCHANGED <<qTail, qHead, cTail, Left>>
<1> USE DEF Left, orderQueue, completedOrders
<1>1. CASE MainStart \/ MainJoinProducers \/ MainReport \/ UNCHANGED vars
  BY <1>1 DEF MainStart, MainJoinProducers, MainReport, vars
<1>2. ASSUME NEW p \in Producers,
             \/ ProducerStart(p) \/ ProducerLoadTail(p) \/ ProducerLoadHead(p)
             \/ ProducerRetry(p) \/ ProducerWrite(p)
      PROVE  UNCHANGED <<qTail, qHead, cTail, Left>>
  BY <1>2, Constants
     DEF IInv, TypeOK, InProducer, ProducerStart, ProducerLoadTail, ProducerLoadHead,
         ProducerRetry, ProducerWrite, OQ!PushLoadTail, OQ!PushLoadHead, OQ!PushRetry,
         OQ!PushWrite
<1>3. ASSUME NEW c \in Consumers,
             \/ ConsumerStart(c) \/ ConsumerLoadHead(c) \/ ConsumerLoadTail(c)
             \/ ConsumerPopRetry(c) \/ ConsumerRead(c)
      PROVE  UNCHANGED <<qTail, qHead, cTail, Left>>
  BY <1>3, Constants
     DEF IInv, TypeOK, InPop, ConsumerStart, ConsumerLoadHead, ConsumerLoadTail,
         ConsumerPopRetry, ConsumerRead, OQ!PopLoadHead, OQ!PopLoadTail, OQ!PopRetry,
         OQ!PopRead
<1>4. ASSUME NEW c \in Consumers, ConsumerLockBook(c) \/ ConsumerStoreBook(c)
      PROVE  UNCHANGED <<qTail, qHead, cTail, Left>>
  BY <1>4, Constants DEF IInv, TypeOK, ConsumerLockBook, ConsumerStoreBook
<1>5. ASSUME NEW c \in Consumers,
             \/ ConsumerCLoadTail(c) \/ ConsumerCLoadHead(c)
             \/ ConsumerCRetry(c) \/ ConsumerCWrite(c)
      PROVE  UNCHANGED <<qTail, qHead, cTail, Left>>
  BY <1>5, Constants
     DEF IInv, TypeOK, InComplete, NextOrder, ConsumerCLoadTail, ConsumerCLoadHead,
         ConsumerCRetry, ConsumerCWrite, CQ!PushLoadTail, CQ!PushLoadHead,
         CQ!PushRetry, CQ!PushWrite
<1>. QED BY <1>1, <1>2, <1>3, <1>4, <1>5

LEMMA FlowInit == Init => OF!Init
BY Constants DEF Init, OQ!Init, CQ!Init, OF!Init

LEMMA FlowStep == IInv /\ [Next]_vars => [OF!Next]_(OF!fvars)
<1> SUFFICES ASSUME IInv, [Next]_vars
             PROVE  OF!Next \/ UNCHANGED <<qTail, qHead, cTail, Left>>
  BY DEF OF!fvars, Left
<1>1. ASSUME NEW p \in Producers, ProducerCas(p) PROVE OF!Push
  <2>1. UNCHANGED <<qHead, cTail, Left>>
    BY <1>1, Constants
       DEF ProducerCas, InProducer, OQ!PushCas, OQ!TailUnmoved, completedOrders, Left
  <2>. QED BY <1>1, <2>1, ProducerCasClaims DEF OF!Push, Left
<1>2. ASSUME NEW c \in Consumers, ConsumerPopCas(c) PROVE OF!Pop
  <2>1. UNCHANGED <<qTail, cTail, Left>>
    BY <1>2 DEF ConsumerPopCas, InPop, OQ!PopCas, OQ!HeadUnmoved, completedOrders, Left
  <2>. QED BY <1>2, <2>1, ConsumerPopClaims DEF OF!Pop, Left
<1>3. ASSUME NEW c \in Consumers, ConsumerCCas(c) PROVE OF!Complete
  <2>1. UNCHANGED <<qTail, qHead, Left>>
    BY <1>3 DEF ConsumerCCas, InComplete, CQ!PushCas, CQ!TailUnmoved, orderQueue, Left
  <2>. QED BY <1>3, <2>1, ConsumerCCasClaims DEF OF!Complete, Left
<1>4. ASSUME NEW c \in Consumers, ConsumerSize(c)
      PROVE  OF!Leave(c) \/ UNCHANGED <<qTail, qHead, cTail, Left>>
  <2>1. UNCHANGED <<qTail, qHead, cTail>>
    BY <1>4 DEF ConsumerSize, orderQueue, completedOrders
  <2>2. CASE MayLeave(c)
    <3>1. cTail = totalOrders
      BY <2>2, SizeIsTail, CompleteMeansDrained DEF MayLeave
    <3>2. Left' = Left \cup {c}
      BY <1>4, <2>2, Constants DEF ConsumerSize, Left, IInv, TypeOK
    <3>. QED BY <2>1, <3>1, <3>2 DEF OF!Leave, Left
  <2>3. CASE ~MayLeave(c)
    <3>1. Left' = Left
      BY <1>4, <2>3, Constants DEF ConsumerSize, Left, IInv, TypeOK
    <3>. QED BY <2>1, <3>1
  <2>. QED BY <2>2, <2>3
<1>5. CASE UNCHANGED vars
  BY <1>5, QuietStep
<1>6. CASE Next
  BY <1>1, <1>2, <1>3, <1>4, <1>6, QuietStep
     DEF Next, Producer, Consumer, Terminated, OF!Next
<1>. QED BY <1>5, <1>6

\* Whatever the threads do, orders are pushed, popped and completed one at a time
\* in that order, and consumers leave only at the end.
THEOREM PipelineImplementsOrderFlow == Spec => FollowsOrderFlow
BY FlowInit, FlowStep, PipelineInvariant, PTL DEF Spec, OF!Spec, FollowsOrderFlow

-----------------------------------------------------------------------------
(* Sums over finite sets.  SumFunction is defined by recursion over the    *)
(* subsets of its domain; what follows does the inductions it needs by     *)
(* least counterexamples.                                                  *)

\* A set of numbers that is closed under successor.
LEMMA Counting ==
  ASSUME NEW Good, 0 \in Good, \A n \in Nat : n \in Good => n + 1 \in Good
  PROVE  Nat \subseteq Good
<1> DEFINE Bad == Nat \ Good
<1>1. SUFFICES ASSUME Bad # {} PROVE FALSE
  OBVIOUS
<1>2. PICK n \in Bad : \A k \in Bad : ~(<<k, n>> \in OpToRel(<, Nat))
  <2>1. Bad \subseteq Nat
    OBVIOUS
  <2>2. IsWellFoundedOn(OpToRel(<, Nat), Nat)
    BY NatLessThanWellFounded
  <2> HIDE DEF Bad
  <2>. QED BY <1>1, <2>1, <2>2, WFMin
<1>3. n \in Nat /\ n # 0 /\ n - 1 \in Nat /\ (n - 1) + 1 = n
  OBVIOUS
<1>4. n - 1 \in Bad
  BY <1>3
<1>5. <<n - 1, n>> \in OpToRel(<, Nat)
  BY <1>3 DEF OpToRel
<1>. QED BY <1>2, <1>4, <1>5

\* A family of subsets that has every subset it has all the smaller ones of.
LEMMA Growing ==
  ASSUME NEW S, IsFiniteSet(S), NEW Good,
         \A T \in SUBSET S : (\A x \in T : T \ {x} \in Good) => T \in Good
  PROVE  SUBSET S \subseteq Good
<1> DEFINE Upto == {n \in Nat : \A T \in SUBSET S : Cardinality(T) = n => T \in Good}
<1>1. \A T \in SUBSET S : IsFiniteSet(T) /\ Cardinality(T) \in Nat
  BY FS_Subset, FS_CardinalityType
<1>2. 0 \in Upto
  <2>1. ASSUME NEW T \in SUBSET S, Cardinality(T) = 0 PROVE T \in Good
    <3>1. T = {}
      BY <1>1, <2>1, FS_EmptySet
    <3>. QED BY <3>1
  <2>. QED BY <2>1
<1>3. ASSUME NEW n \in Nat, n \in Upto PROVE n + 1 \in Upto
  <2>1. ASSUME NEW T \in SUBSET S, Cardinality(T) = n + 1 PROVE T \in Good
    <3>1. ASSUME NEW x \in T PROVE T \ {x} \in Good
      <4>1. Cardinality(T \ {x}) = n
        BY <1>1, <2>1, FS_RemoveElement
      <4>. QED BY <1>3, <4>1
    <3>. QED BY <3>1
  <2>. QED BY <2>1
<1>4. Nat \subseteq Upto
  <2> HIDE DEF Upto
  <2>. QED BY <1>2, <1>3, Counting
<1>. QED BY <1>1, <1>4

\* The recursion of a sum over the subsets of S.
Recursion(f, S) ==
  CHOOSE g : g = [T \in SUBSET S |->
                    IF T = {} THEN 0
                    ELSE LET x == CHOOSE x \in T : TRUE IN f[x] + g[T \ {x}]]

LEMMA SumIsRecursion ==
  ASSUME NEW f
  PROVE  SumFunction(f) = Recursion(f, DOMAIN f)[DOMAIN f]
  BY DEF SumFunction, SumFunctionOnSet, FoldFunctionOnSet, MapThenFoldSet, Recursion

First(T) == CHOOSE x \in T : TRUE

\* g is the sum of f on the sets of the family F.
Sums(f, F, g) ==
    /\ g \in [F -> Int]
    /\ \A T \in F : g[T] = IF T = {} THEN 0 ELSE f[First(T)] + g[T \ {First(T)}]

\* There is a function that satisfies the recursion: built up by the size of
\* the subsets.
LEMMA RecursionExists ==
  ASSUME NEW S, IsFiniteSet(S), NEW f \in [S -> Int]
  PROVE  Sums(f, SUBSET S, Recursion(f, S))
<1> DEFINE Family(n) == {T \in SUBSET S : Cardinality(T) <= n}
           Reached == {n \in Nat : \E g : Sums(f, Family(n), g)}
<1>1. \A T \in SUBSET S : IsFiniteSet(T) /\ Cardinality(T) \in Nat
  BY FS_Subset, FS_CardinalityType
<1>2. 0 \in Reached
  <2>1. \A T \in Family(0) : T = {}
    <3>1. ASSUME NEW T \in Family(0) PROVE T = {}
      <4>1. Cardinality(T) = 0
        BY <1>1
      <4>. QED BY <1>1, <4>1, FS_EmptySet
    <3>. QED BY <3>1
  <2> HIDE DEF Family
  <2>2. Sums(f, Family(0), [T \in Family(0) |-> 0])
    BY <2>1 DEF Sums
  <2>. QED BY <2>2
<1>3. ASSUME NEW n \in Nat, n \in Reached PROVE n + 1 \in Reached
  <2>1. PICK g : Sums(f, Family(n), g)
    BY <1>3
  <2> DEFINE h == [T \in Family(n + 1) |->
                     IF T = {} THEN 0 ELSE f[First(T)] + g[T \ {First(T)}]]
  <2>2. ASSUME NEW T \in Family(n + 1), T # {}
        PROVE  First(T) \in S /\ T \ {First(T)} \in Family(n)
    <3>1. First(T) \in T
      BY <2>2 DEF First
    <3>2. Cardinality(T \ {First(T)}) = Cardinality(T) - 1
      BY <1>1, <3>1, FS_RemoveElement
    <3>. QED BY <1>1, <3>1, <3>2
  <2>3. \A T \in Family(n) : T \in Family(n + 1)
    BY <1>1
  <2> HIDE DEF Family
  <2>4. h \in [Family(n + 1) -> Int]
    BY <2>1, <2>2 DEF Sums
  <2>5. ASSUME NEW T \in Family(n) PROVE h[T] = g[T]
    BY <2>1, <2>3 DEF Sums
  <2>6. Sums(f, Family(n + 1), h)
    BY <2>2, <2>4, <2>5 DEF Sums
  <2>. QED BY <2>6
<1>4. Cardinality(S) \in Reached
  <2> HIDE DEF Reached
  <2>. QED BY <1>2, <1>3, FS_CardinalityType, Counting
<1>5. Family(Cardinality(S)) = SUBSET S
  BY <1>1, FS_Subset
<1>6. PICK g : Sums(f, SUBSET S, g)
  <2> HIDE DEF Family
  <2>. QED BY <1>4, <1>5
<1> DEFINE Step(r) == [T \in SUBSET S |->
                         IF T = {} THEN 0
                         ELSE LET x == CHOOSE x \in T : TRUE IN f[x] + r[T \ {x}]]
<1>7. g = Step(g)
  BY <1>6 DEF Sums, First
<1>8. Recursion(f, S) = Step(Recursion(f, S))
  BY <1>7 DEF Recursion
<1>. QED
  <2> DEFINE r == Recursion(f, S)
  <2>1. r = Step(r)
    BY <1>8
  <2> HIDE DEF r
  <2>2. \A T \in SUBSET S : r[T] = IF T = {} THEN 0 ELSE f[First(T)] + r[T \ {First(T)}]
    BY <2>1 DEF First
  <2> DEFINE Good == {T \in SUBSET S : r[T] \in Int}
  <2>3. ASSUME NEW T \in SUBSET S, \A x \in T : T \ {x} \in Good PROVE T \in Good
    <3>1. CASE T = {}
      BY <2>2, <3>1
    <3>2. CASE T # {}
      <4>1. First(T) \in T
        BY <3>2 DEF First
      <4>2. f[First(T)] \in Int
        BY <4>1
      <4>3. r[T \ {First(T)}] \in Int
        BY <2>3, <4>1
      <4>4. r[T] = f[First(T)] + r[T \ {First(T)}]
        BY <2>2, <3>2
      <4>. QED BY <4>2, <4>3, <4>4
    <3>. QED BY <3>1, <3>2
  <2>4. SUBSET S \subseteq Good
    <3> HIDE DEF Good
    <3>. QED BY <2>3, Growing
  <2>5. r \in [SUBSET S -> Int]
    BY <2>1, <2>4
  <2>. QED BY <2>2, <2>5 DEF Sums, r

SumsOf(f, S, g) == IsFiniteSet(S) /\ f \in [S -> Int] /\ Sums(f, SUBSET S, g)

\* Any element may be taken out first.
LEMMA AnyFirst ==
  ASSUME NEW S, NEW f, NEW g, SumsOf(f, S, g), NEW u \in S
  PROVE  g[S] = f[u] + g[S \ {u}]
<1> USE DEF SumsOf
<1> DEFINE Good == {T \in SUBSET S : \A x \in T : g[T] = f[x] + g[T \ {x}]}
<1>1. /\ \A T \in SUBSET S : g[T] \in Int
      /\ \A T \in SUBSET S : T # {} => g[T] = f[First(T)] + g[T \ {First(T)}]
  BY DEF Sums
<1>2. ASSUME NEW T \in SUBSET S, \A x \in T : T \ {x} \in Good PROVE T \in Good
  <2>1. ASSUME NEW x \in T PROVE g[T] = f[x] + g[T \ {x}]
    <3> DEFINE c == First(T)
    <3>1. c \in T /\ g[T] = f[c] + g[T \ {c}]
      BY <1>1 DEF First
    <3> HIDE DEF c
    <3>2. CASE x = c
      BY <3>1, <3>2
    <3>3. CASE x # c
      <4>1. g[T \ {c}] = f[x] + g[(T \ {c}) \ {x}]
        BY <1>2, <3>1, <3>3
      <4>2. g[T \ {x}] = f[c] + g[(T \ {x}) \ {c}]
        BY <1>2, <3>1, <3>3
      <4>3. (T \ {c}) \ {x} = (T \ {x}) \ {c} /\ (T \ {x}) \ {c} \in SUBSET S
        OBVIOUS
      <4>4. /\ f[x] \in Int /\ f[c] \in Int /\ g[(T \ {x}) \ {c}] \in Int
            /\ g[T \ {x}] \in Int
        BY <1>1, <3>1, <4>3
      <4>5. g[T] = f[c] + (f[x] + g[(T \ {x}) \ {c}])
        BY <3>1, <4>1, <4>3
      <4>. QED BY <4>2, <4>4, <4>5
    <3>. QED BY <3>2, <3>3
  <2>. QED BY <2>1
<1>3. SUBSET S \subseteq Good
  <2> HIDE DEF Good
  <2>. QED BY <1>2, Growing
<1>. QED BY <1>3

\* Functions that agree on a set have the same sum on it.
LEMMA SumsAgree ==
  ASSUME NEW S, IsFiniteSet(S), NEW f \in [S -> Int], NEW h \in [S -> Int],
         NEW g, Sums(f, SUBSET S, g), NEW k, Sums(h, SUBSET S, k)
  PROVE  \A T \in SUBSET S : (\A x \in T : f[x] = h[x]) => g[T] = k[T]
<1> DEFINE Good == {T \in SUBSET S : (\A x \in T : f[x] = h[x]) => g[T] = k[T]}
<1>1. ASSUME NEW T \in SUBSET S, \A x \in T : T \ {x} \in Good PROVE T \in Good
  <2>1. CASE T = {}
    BY <2>1 DEF Sums
  <2>2. CASE T # {}
    <3>1. First(T) \in T
      BY <2>2 DEF First
    <3>. QED BY <1>1, <2>2, <3>1 DEF Sums
  <2>. QED BY <2>1, <2>2
<1>2. SUBSET S \subseteq Good
  <2> HIDE DEF Good
  <2>. QED BY <1>1, Growing
<1>. QED BY <1>2

\* What the proofs about volumes use: how a sum changes with one value, and the
\* sum of nothing but zeros.
LEMMA SumType ==
  ASSUME NEW S, IsFiniteSet(S), NEW f \in [S -> Int]
  PROVE  SumFunction(f) \in Int
<1>1. DOMAIN f = S /\ Sums(f, SUBSET S, Recursion(f, S))
  BY RecursionExists
<1>. QED BY <1>1, SumIsRecursion DEF Sums

LEMMA SumUpdate ==
  ASSUME NEW S, IsFiniteSet(S), NEW f \in [S -> Int], NEW h \in [S -> Int], NEW x \in S,
         \A y \in S \ {x} : f[y] = h[y]
  PROVE  SumFunction(h) = (SumFunction(f) - f[x]) + h[x]
<1> DEFINE g == Recursion(f, S)  k == Recursion(h, S)
<1>1. Sums(f, SUBSET S, g) /\ Sums(h, SUBSET S, k) /\ DOMAIN f = S /\ DOMAIN h = S
  BY RecursionExists
<1>2. SumFunction(f) = g[S] /\ SumFunction(h) = k[S]
  BY <1>1, SumIsRecursion
<1> HIDE DEF g, k
<1>3. g[S] = f[x] + g[S \ {x}] /\ k[S] = h[x] + k[S \ {x}]
  <2>1. SumsOf(f, S, g) /\ SumsOf(h, S, k) /\ x \in S
    BY <1>1 DEF SumsOf
  <2>2. SumsOf(f, S, g) /\ x \in S
    BY <2>1
  <2>3. g[S] = f[x] + g[S \ {x}]
    BY ONLY <2>2, AnyFirst
  <2>4. SumsOf(h, S, k) /\ x \in S
    BY <2>1
  <2>5. k[S] = h[x] + k[S \ {x}]
    BY ONLY <2>4, AnyFirst
  <2>. QED BY <2>3, <2>5
<1>4. g[S \ {x}] = k[S \ {x}]
  BY <1>1, SumsAgree
<1>5. g[S \ {x}] \in Int /\ f[x] \in Int /\ h[x] \in Int
  BY <1>1 DEF Sums
<1>. QED BY <1>2, <1>3, <1>4, <1>5

Summable(f, S) == IsFiniteSet(S) /\ f \in [S -> Int]

LEMMA SumExcept ==
  ASSUME NEW S, NEW f, Summable(f, S), NEW x \in S, NEW v \in Int
  PROVE  SumFunction([f EXCEPT ![x] = v]) = (SumFunction(f) - f[x]) + v
<1> USE DEF Summable
<1> DEFINE h == [f EXCEPT ![x] = v]
<1>1. IsFiniteSet(S) /\ f \in [S -> Int] /\ h \in [S -> Int] /\ x \in S
  OBVIOUS
<1>2. h[x] = v /\ \A y \in S \ {x} : f[y] = h[y]
  OBVIOUS
<1> HIDE DEF h
<1>3. SumFunction(h) = (SumFunction(f) - f[x]) + h[x]
  BY ONLY <1>1, <1>2, SumUpdate
<1>. QED BY <1>2, <1>3 DEF h

LEMMA SumOfZeros ==
  ASSUME NEW S, IsFiniteSet(S), NEW f \in [S -> Int], \A x \in S : f[x] = 0
  PROVE  SumFunction(f) = 0
<1> DEFINE zeros == [T \in SUBSET S |-> 0]
<1>1. Sums(f, SUBSET S, Recursion(f, S)) /\ DOMAIN f = S
  BY RecursionExists
<1>2. Sums(f, SUBSET S, zeros)
  <2>1. ASSUME NEW T \in SUBSET S, T # {} PROVE First(T) \in S
    BY <2>1 DEF First
  <2>. QED BY <2>1 DEF Sums
<1>3. Recursion(f, S)[S] = zeros[S]
  <2> HIDE DEF zeros
  <2>. QED BY <1>1, <1>2, SumsAgree
<1>. QED BY <1>1, <1>3, SumIsRecursion

\* The same values, numbered from 1, or from 0 with a zero behind the last.
LEMMA SumRenumbered ==
  ASSUME NEW N \in Nat, NEW f \in [0 .. N -> Int], f[N] = 0
  PROVE  SumFunction([k \in 1 .. N |-> f[k - 1]]) = SumFunction(f)
<1> DEFINE first(n) == [k \in 1 .. N |-> IF k <= n THEN f[k - 1] ELSE 0]
           second(n) == [j \in 0 .. N |-> IF j < n THEN f[j] ELSE 0]
           Equal == {n \in Nat : n <= N => SumFunction(first(n)) = SumFunction(second(n))}
<1>1. IsFiniteSet(1 .. N) /\ IsFiniteSet(0 .. N)
  BY FS_Interval
<1>2. ASSUME NEW n \in Nat
      PROVE  first(n) \in [1 .. N -> Int] /\ second(n) \in [0 .. N -> Int]
  <2>1. \A k \in 1 .. N : k - 1 \in 0 .. N
    OBVIOUS
  <2>. QED BY <2>1
<1>3. 0 \in Equal
  <2>1. \A k \in 1 .. N : first(0)[k] = 0
    OBVIOUS
  <2>2. \A j \in 0 .. N : second(0)[j] = 0
    OBVIOUS
  <2> HIDE DEF first, second
  <2>3. SumFunction(first(0)) = 0
    <3> DEFINE a == first(0)  D == 1 .. N
    <3>1. IsFiniteSet(D) /\ a \in [D -> Int] /\ \A k \in D : a[k] = 0
      BY <1>1, <1>2, <2>1
    <3> HIDE DEF a, D
    <3>2. SumFunction(a) = 0
      BY ONLY <3>1, SumOfZeros
    <3>. QED BY <3>2 DEF a
  <2>4. SumFunction(second(0)) = 0
    <3> DEFINE a == second(0)  D == 0 .. N
    <3>1. IsFiniteSet(D) /\ a \in [D -> Int] /\ \A k \in D : a[k] = 0
      BY <1>1, <1>2, <2>2
    <3> HIDE DEF a, D
    <3>2. SumFunction(a) = 0
      BY ONLY <3>1, SumOfZeros
    <3>. QED BY <3>2 DEF a
  <2>. QED BY <2>3, <2>4
<1>4. ASSUME NEW n \in Nat, n \in Equal PROVE n + 1 \in Equal
  <2>1. SUFFICES ASSUME n + 1 <= N
                 PROVE  SumFunction(first(n + 1)) = SumFunction(second(n + 1))
    OBVIOUS
  <2>2. /\ n + 1 \in 1 .. N /\ n \in 0 .. N /\ n + 1 \in Nat /\ f[n] \in Int
    BY <2>1
  <2>3. /\ first(n)[n + 1] = 0 /\ first(n + 1)[n + 1] = f[n]
        /\ \A k \in (1 .. N) \ {n + 1} : first(n)[k] = first(n + 1)[k]
    BY <2>2
  <2>4. /\ second(n)[n] = 0 /\ second(n + 1)[n] = f[n]
        /\ \A j \in (0 .. N) \ {n} : second(n)[j] = second(n + 1)[j]
    BY <2>2
  <2>5. SumFunction(first(n)) = SumFunction(second(n))
    BY <1>4, <2>1
  <2>6. /\ first(n) \in [1 .. N -> Int] /\ first(n + 1) \in [1 .. N -> Int]
        /\ second(n) \in [0 .. N -> Int] /\ second(n + 1) \in [0 .. N -> Int]
    BY <1>2, <2>2
  <2> HIDE DEF first, second
  <2>7. SumFunction(first(n + 1)) = (SumFunction(first(n)) - 0) + f[n]
    <3> DEFINE a == first(n)  b == first(n + 1)  D == 1 .. N
    <3>1. /\ IsFiniteSet(D) /\ a \in [D -> Int] /\ b \in [D -> Int] /\ n + 1 \in D
          /\ a[n + 1] = 0 /\ b[n + 1] = f[n] /\ \A k \in D \ {n + 1} : a[k] = b[k]
      BY <1>1, <2>2, <2>3, <2>6
    <3> HIDE DEF a, b, D
    <3>2. SumFunction(b) = (SumFunction(a) - a[n + 1]) + b[n + 1]
      BY ONLY <3>1, SumUpdate
    <3>. QED BY <3>1, <3>2 DEF a, b
  <2>8. SumFunction(second(n + 1)) = (SumFunction(second(n)) - 0) + f[n]
    <3> DEFINE a == second(n)  b == second(n + 1)  D == 0 .. N  e == n
    <3>1. /\ IsFiniteSet(D) /\ a \in [D -> Int] /\ b \in [D -> Int] /\ e \in D
          /\ a[e] = 0 /\ b[e] = f[n] /\ \A k \in D \ {e} : a[k] = b[k]
      BY <1>1, <2>2, <2>4, <2>6
    <3> HIDE DEF a, b, D, e
    <3>2. SumFunction(b) = (SumFunction(a) - a[e]) + b[e]
      BY ONLY <3>1, SumUpdate
    <3>. QED BY <3>1, <3>2 DEF a, b
  <2>. QED BY <2>5, <2>7, <2>8
<1>5. N \in Equal
  <2> HIDE DEF Equal
  <2>. QED BY <1>3, <1>4, Counting
<1>6. first(N) = [k \in 1 .. N |-> f[k - 1]] /\ second(N) = f
  <2>1. \A j \in 0 .. N : second(N)[j] = f[j]
    OBVIOUS
  <2>. QED BY <2>1
<1> HIDE DEF first, second
<1>. QED BY <1>5, <1>6

-----------------------------------------------------------------------------
(***************************************************************************)
(* The volumes.  BookHoldsWhatWasProcessed is not inductive: what a        *)
(* consumer stores is what it has read, which is what the book still holds *)
(* because of the mutex, and the write of a completed order adds a volume  *)
(* because the slot has none yet.                                          *)
(***************************************************************************)

\* The consumer that is about to store holds bookMutex, and has read what the
\* book still says.
MutexInv ==
    \A c \in Consumers : pc[c] = "store" =>
        /\ bookMutex = {c}
        /\ entry[c] = orderBook[order[c].symbol][Side(order[c])]

\* A slot of completedOrders is blank until its claimant has written it.
BlankInv ==
    /\ \A i \in CQ!Slots : i >= cTail => cBuffer[i] = DefaultOrder
    /\ \A c \in Consumers : CQ!At(c, "write") => cBuffer[cOp[c].idx] = DefaultOrder

ReportInv ==
    mainAt = "done" =>
        /\ report = CQ!Contents
        /\ \A c \in Consumers : pc[c] = "done"

VolumeInv == BookHoldsWhatWasProcessed /\ MutexInv /\ BlankInv /\ ReportInv

\* The two functions whose sums are CompletedVolume and VolumeOnTheWay.
Completed(s, side) == [i \in CQ!Slots |-> Quantity(cBuffer[i], s, side)]

OnTheWay(s, side) ==
    [c \in Consumers |-> IF pc[c] = "complete" THEN Quantity(order[c], s, side) ELSE 0]

LEMMA QuantityType ==
    ASSUME NEW o \in Order, NEW s, NEW side
    PROVE  Quantity(o, s, side) \in Int
BY DEF Quantity, Order

LEMMA VolumeTypes ==
    ASSUME TypeOK, NEW s, NEW side
    PROVE  /\ IsFiniteSet(CQ!Slots) /\ IsFiniteSet(Consumers)
           /\ Completed(s, side) \in [CQ!Slots -> Int]
           /\ OnTheWay(s, side) \in [Consumers -> Int]
           /\ CompletedVolume(s, side) = SumFunction(Completed(s, side))
           /\ VolumeOnTheWay(s, side) = SumFunction(OnTheWay(s, side))
           /\ CompletedVolume(s, side) \in Int /\ VolumeOnTheWay(s, side) \in Int
<1>1. IsFiniteSet(CQ!Slots) /\ IsFiniteSet(Consumers)
  BY Constants, ConstantsAssumption, FS_Interval
<1>2. Completed(s, side) \in [CQ!Slots -> Int]
  <2>1. \A i \in CQ!Slots : cBuffer[i] \in Order
    BY DEF TypeOK
  <2>. QED BY <2>1, QuantityType DEF Completed
<1>3. OnTheWay(s, side) \in [Consumers -> Int]
  <2>1. \A c \in Consumers : order[c] \in Order
    BY DEF TypeOK
  <2>. QED BY <2>1, QuantityType DEF OnTheWay
<1>4. /\ CompletedVolume(s, side) = SumFunction(Completed(s, side))
      /\ VolumeOnTheWay(s, side) = SumFunction(OnTheWay(s, side))
  BY DEF CompletedVolume, VolumeOnTheWay, Completed, OnTheWay
<1>5. SumFunction(Completed(s, side)) \in Int
  BY <1>1, <1>2, SumType
<1>6. SumFunction(OnTheWay(s, side)) \in Int
  BY <1>1, <1>3, SumType
<1>. QED BY <1>1, <1>2, <1>3, <1>4, <1>5, <1>6

\* The steps that book nothing, claim nothing and complete nothing.
Aside ==
    /\ UNCHANGED <<cHead, cTail, cBuffer, orderBook, bookMutex, entry, report>>
    /\ mainAt' = "done" => mainAt = "done"
    /\ \A c \in Consumers :
         /\ pc'[c] = "complete" <=> pc[c] = "complete"
         /\ pc'[c] = "store" => pc[c] = "store"
         /\ pc[c] = "done" => pc'[c] = "done"
         /\ pc[c] \in {"store", "complete"} => order'[c] = order[c]
         /\ cOp'[c].at = "write" => cOp'[c] = cOp[c]

LEMMA AsideVolume ==
    ASSUME VolumeInv, Aside
    PROVE  VolumeInv'
<1> USE DEF VolumeInv
<1>1. BookHoldsWhatWasProcessed'
  <2>1. ASSUME NEW s, NEW side
        PROVE  /\ CompletedVolume(s, side)' = CompletedVolume(s, side)
               /\ VolumeOnTheWay(s, side)' = VolumeOnTheWay(s, side)
    <3>1. Completed(s, side)' = Completed(s, side)
      BY DEF Aside, Completed
    <3>2. OnTheWay(s, side)' = OnTheWay(s, side)
      BY DEF Aside, OnTheWay
    <3>3. CompletedVolume(s, side)' = CompletedVolume(s, side)
      BY <3>1 DEF CompletedVolume, Completed
    <3>4. VolumeOnTheWay(s, side)' = VolumeOnTheWay(s, side)
      BY <3>2 DEF VolumeOnTheWay, OnTheWay
    <3>. QED BY <3>3, <3>4
  <2>. QED BY <2>1 DEF BookHoldsWhatWasProcessed, Aside
<1>2. MutexInv'
  BY DEF MutexInv, Aside
<1>3. BlankInv'
  BY DEF BlankInv, Aside, CQ!At
<1>4. ReportInv'
  BY DEF ReportInv, Aside, CQ!Contents, CQ!Size
<1>. QED BY <1>1, <1>2, <1>3, <1>4

LEMMA MainVolume ==
    ASSUME IInv, VolumeInv, MainStart \/ MainJoinProducers \/ MainReport
    PROVE  VolumeInv'
<1>1. CASE MainStart \/ MainJoinProducers
  <2>1. Aside
    BY <1>1, Constants
       DEF Aside, MainStart, MainJoinProducers, orderQueue, completedOrders, book
  <2>. QED BY <2>1, AsideVolume
<1>2. CASE MainReport
  <2>. USE <1>2 DEF MainReport, completedOrders, book, VolumeInv
  <2>1. BookHoldsWhatWasProcessed'
    BY DEF BookHoldsWhatWasProcessed, CompletedVolume, VolumeOnTheWay
  <2>2. MutexInv' /\ BlankInv'
    BY DEF MutexInv, BlankInv, CQ!At
  <2>3. ReportInv'
    BY DEF ReportInv, ConsumersJoined, CQ!Contents, CQ!Size
  <2>. QED BY <2>1, <2>2, <2>3
<1>. QED BY <1>1, <1>2

LEMMA ProducerVolume ==
    ASSUME IInv, VolumeInv, NEW p \in Producers, Producer(p)
    PROVE  VolumeInv'
<1>1. pc' = [pc EXCEPT ![p] = pc'[p]] /\ UNCHANGED <<completedOrders, book, main, order>>
  BY DEF IInv, TypeOK, Producer, InProducer, ProducerStart, ProducerLoadTail,
         ProducerLoadHead, ProducerCas, ProducerRetry, ProducerWrite
<1>2. Aside
  BY <1>1, Constants DEF Aside, completedOrders, book, main, IInv, TypeOK
<1>. QED BY <1>2, AsideVolume

\* A consumer outside the order book and the write of its completed order.
LEMMA ConsumerAside ==
    ASSUME IInv, VolumeInv, NEW c \in Consumers,
           \/ ConsumerStart(c) \/ ConsumerLoadHead(c) \/ ConsumerLoadTail(c)
           \/ ConsumerPopCas(c) \/ ConsumerPopRetry(c) \/ ConsumerRead(c)
           \/ ConsumerSize(c) \/ ConsumerCLoadTail(c) \/ ConsumerCLoadHead(c)
           \/ ConsumerCRetry(c)
    PROVE  VolumeInv'
<1>1. CASE \/ ConsumerStart(c) \/ ConsumerLoadHead(c) \/ ConsumerLoadTail(c)
           \/ ConsumerPopCas(c) \/ ConsumerPopRetry(c) \/ ConsumerSize(c)
  <2>1. PICK where \in ThreadSteps \ {"store", "complete"} : pc' = [pc EXCEPT ![c] = where]
    BY <1>1
       DEF IInv, TypeOK, ThreadSteps, InPop, ConsumerStart, ConsumerLoadHead,
           ConsumerLoadTail, ConsumerPopCas, ConsumerPopRetry, ConsumerSize
  <2>2. /\ UNCHANGED <<completedOrders, book, main, order>>
        /\ pc[c] \in {"latch", "pop", "size"}
    BY <1>1
       DEF InPop, ConsumerStart, ConsumerLoadHead, ConsumerLoadTail, ConsumerPopCas,
           ConsumerPopRetry, ConsumerSize
  <2>3. Aside
    BY <2>1, <2>2, Constants DEF Aside, completedOrders, book, main, IInv, TypeOK
  <2>. QED BY <2>3, AsideVolume
<1>2. CASE ConsumerRead(c)
  <2>1. /\ pc[c] = "pop" /\ pc' = [pc EXCEPT ![c] = "book"]
        /\ UNCHANGED <<completedOrders, book, main>>
        /\ \A d \in Consumers \ {c} : order'[d] = order[d]
    BY <1>2 DEF ConsumerRead, InPop, IInv, TypeOK
  <2>2. Aside
    BY <2>1, Constants DEF Aside, completedOrders, book, main, IInv, TypeOK
  <2>. QED BY <2>2, AsideVolume
<1>3. CASE ConsumerCLoadTail(c) \/ ConsumerCLoadHead(c) \/ ConsumerCRetry(c)
  <2>1. CQ!At(c, "pushLoadHead") => ~CQ!Full(c)
    BY NeverFull
  <2> DEFINE Tried == {[at |-> "pushLoadHead", idx |-> cTail],
                       [at |-> "pushCas", idx |-> cOp[c].idx], CQ!Idle}
  <2>2. PICK r \in Tried : cOp' = [cOp EXCEPT ![c] = r]
    BY <1>3, <2>1
       DEF ConsumerCLoadTail, ConsumerCLoadHead, ConsumerCRetry, CQ!PushLoadTail,
           CQ!PushLoadHead, CQ!PushRetry, CQ!Goto, CQ!Idle
  <2>3. UNCHANGED <<cHead, cTail, cBuffer, book, main, order, pc>>
    BY <1>3, <2>1
       DEF InComplete, ConsumerCLoadTail, ConsumerCLoadHead, ConsumerCRetry,
           CQ!PushLoadTail, CQ!PushLoadHead, CQ!PushRetry
  <2>4. r.at # "write"
    BY DEF CQ!Idle
  <2>5. Aside
    BY <2>2, <2>3, <2>4, Constants DEF Aside, book, main, IInv, TypeOK
  <2>. QED BY <2>5, AsideVolume
<1>. QED BY <1>1, <1>2, <1>3

LEMMA LockVolume ==
    ASSUME IInv, VolumeInv, NEW c \in Consumers, ConsumerLockBook(c)
    PROVE  VolumeInv'
<1> USE DEF ConsumerLockBook, completedOrders, main, VolumeInv
<1>1. pc' = [pc EXCEPT ![c] = "store"] /\ pc[c] = "book" /\ pc \in [Threads -> ThreadSteps]
  BY DEF IInv, TypeOK
<1>2. BookHoldsWhatWasProcessed'
  <2>1. ASSUME NEW s, NEW side
        PROVE  /\ CompletedVolume(s, side)' = CompletedVolume(s, side)
               /\ VolumeOnTheWay(s, side)' = VolumeOnTheWay(s, side)
    <3>1. CompletedVolume(s, side)' = CompletedVolume(s, side)
      BY DEF CompletedVolume
    <3>2. OnTheWay(s, side)' = OnTheWay(s, side)
      BY <1>1, Constants DEF OnTheWay
    <3>3. VolumeOnTheWay(s, side)' = VolumeOnTheWay(s, side)
      BY <3>2 DEF VolumeOnTheWay, OnTheWay
    <3>. QED BY <3>1, <3>3
  <2>. QED BY <2>1 DEF BookHoldsWhatWasProcessed
<1>3. MutexInv'
  <2>1. \A d \in Consumers : pc[d] # "store"
    BY DEF MutexInv, BookMutexFree
  <2>2. entry'[c] = orderBook[order[c].symbol][Side(order[c])]
    BY DEF IInv, TypeOK
  <2>3. \A d \in Consumers : pc'[d] = "store" => d = c
    BY <1>1, <2>1, Constants
  <2>. QED BY <2>2, <2>3 DEF MutexInv
<1>4. BlankInv'
  BY DEF BlankInv, CQ!At
<1>5. ReportInv'
  BY <1>1 DEF ReportInv
<1>. QED BY <1>2, <1>3, <1>4, <1>5

\* The store adds the order's quantity to the book, and the consumer takes it
\* along.
LEMMA StoreVolume ==
    ASSUME IInv, VolumeInv, NEW c \in Consumers, ConsumerStoreBook(c)
    PROVE  VolumeInv'
<1> USE DEF ConsumerStoreBook, completedOrders, main, VolumeInv
<1> DEFINE sym == order[c].symbol
           sid == Side(order[c])
<1>1. /\ pc' = [pc EXCEPT ![c] = "complete"] /\ pc[c] = "store"
      /\ pc \in [Threads -> ThreadSteps]
  BY DEF IInv, TypeOK
<1>2. /\ order[c] \in Order /\ sym \in Symbols /\ sid \in Sides
      /\ orderBook \in [Symbols -> [Sides -> Nat]]
      /\ entry[c] = orderBook[sym][sid]
  BY <1>1 DEF IInv, TypeOK, Order, Side, Sides, MutexInv
<1>3. BookHoldsWhatWasProcessed'
  <2>1. SUFFICES ASSUME NEW s \in Symbols, NEW side \in Sides
                 PROVE  orderBook'[s][side] =
                          CompletedVolume(s, side)' + VolumeOnTheWay(s, side)'
    BY DEF BookHoldsWhatWasProcessed
  <2>2. CompletedVolume(s, side)' = CompletedVolume(s, side)
    BY DEF CompletedVolume
  <2>3. orderBook[s][side] = CompletedVolume(s, side) + VolumeOnTheWay(s, side)
    BY DEF BookHoldsWhatWasProcessed
  <2> DEFINE f == OnTheWay(s, side)
             h == OnTheWay(s, side)'
             q == Quantity(order[c], s, side)
  <2>4. /\ VolumeOnTheWay(s, side) = SumFunction(f) /\ f \in [Consumers -> Int]
        /\ IsFiniteSet(Consumers)
        /\ CompletedVolume(s, side) \in Int /\ VolumeOnTheWay(s, side) \in Int
    BY VolumeTypes DEF IInv
  <2>5. VolumeOnTheWay(s, side)' = SumFunction(h)
    BY DEF VolumeOnTheWay, OnTheWay
  <2>6. q \in Int
    BY <1>2, QuantityType
  <2>7. h = [f EXCEPT ![c] = q] /\ f[c] = 0
    BY <1>1, Constants DEF OnTheWay
  <2>8. orderBook'[s][side] = orderBook[s][side] + q
    <3>1. orderBook' = [orderBook EXCEPT ![sym][sid] = orderBook[sym][sid] + order[c].quantity]
      BY <1>2
    <3>2. CASE s = sym /\ side = sid
      BY <1>2, <3>1, <3>2 DEF Quantity
    <3>3. CASE ~(s = sym /\ side = sid)
      <4>1. q = 0
        BY <3>3 DEF Quantity
      <4>2. orderBook'[s][side] = orderBook[s][side]
        BY <1>2, <3>1, <3>3
      <4>3. orderBook[s][side] \in Nat
        BY <1>2
      <4>. QED BY <4>1, <4>2, <4>3
    <3>. QED BY <3>2, <3>3
  <2>. HIDE DEF f, h, q
  <2>9. Summable(f, Consumers) /\ c \in Consumers /\ q \in Int
    BY <2>4, <2>6 DEF Summable
  <2>10. SumFunction([f EXCEPT ![c] = q]) = (SumFunction(f) - f[c]) + q
    BY ONLY <2>9, SumExcept
  <2>11. VolumeOnTheWay(s, side)' = VolumeOnTheWay(s, side) + q
    BY <2>4, <2>5, <2>6, <2>7, <2>10
  <2>. QED BY <2>2, <2>3, <2>4, <2>6, <2>8, <2>11
<1>4. MutexInv'
  <2>1. \A d \in Consumers : pc[d] = "store" => d = c
    BY <1>1 DEF MutexInv
  <2>2. \A d \in Consumers : pc'[d] # "store"
    BY <1>1, <2>1, Constants
  <2>. QED BY <2>2 DEF MutexInv
<1>5. BlankInv'
  BY DEF BlankInv, CQ!At
<1>6. ReportInv'
  BY <1>1 DEF ReportInv
<1>. QED BY <1>3, <1>4, <1>5, <1>6

LEMMA CCasVolume ==
    ASSUME IInv, VolumeInv, NEW c \in Consumers, ConsumerCCas(c)
    PROVE  VolumeInv'
<1> USE DEF ConsumerCCas, InComplete, CQ!PushCas, CQ!TailUnmoved, CQ!Goto, book, main,
            VolumeInv
<1>1. cTail' = cTail + 1 /\ cTail \in Nat /\ cTail \in CQ!Slots /\ cOp[c].idx = cTail
  BY ConsumerCCasClaims, Bounds, Constants DEF IInv, TypeOK
<1>2. BookHoldsWhatWasProcessed'
  BY DEF BookHoldsWhatWasProcessed, CompletedVolume, VolumeOnTheWay
<1>3. MutexInv'
  BY DEF MutexInv
<1>4. BlankInv'
  <2>1. cBuffer[cTail] = DefaultOrder
    BY <1>1 DEF BlankInv
  <2>2. \A i \in CQ!Slots : i >= cTail' => i >= cTail
    BY <1>1, Constants
  <2>3. cOp'[c].idx = cTail /\ \A d \in Consumers \ {c} : cOp'[d] = cOp[d]
    BY <1>1, Constants DEF IInv, TypeOK
  <2>. QED BY <2>1, <2>2, <2>3 DEF BlankInv, CQ!At
<1>5. ReportInv'
  BY DEF ReportInv
<1>. QED BY <1>2, <1>3, <1>4, <1>5

\* The write moves the order's volume from its consumer to the slot.
LEMMA CWriteVolume ==
    ASSUME IInv, VolumeInv, NEW c \in Consumers, ConsumerCWrite(c)
    PROVE  VolumeInv'
<1> USE DEF ConsumerCWrite, InComplete, NextOrder, CQ!PushWrite, book, main, VolumeInv
<1> DEFINE i == cOp[c].idx
<1>1. /\ pc' = [pc EXCEPT ![c] = "pop"] /\ pc[c] = "complete"
      /\ pc \in [Threads -> ThreadSteps] /\ CQ!At(c, "write")
      /\ order' = [order EXCEPT ![c] = DefaultOrder] /\ order \in [Consumers -> Order]
  BY DEF IInv, TypeOK
<1>2. /\ cBuffer' = [cBuffer EXCEPT ![i] = order[c]] /\ cBuffer \in [CQ!Slots -> Order]
      /\ i \in CQ!Slots /\ i < cTail /\ i \in Nat /\ cBuffer[i] = DefaultOrder
      /\ order[c] \in Order
  <2>1. cBuffer' = [cBuffer EXCEPT ![i] = order[c]]
    BY Constants DEF Pushed
  <2>2. cBuffer \in [CQ!Slots -> Order] /\ i \in CQ!Slots /\ order[c] \in Order
    BY Constants DEF IInv, TypeOK
  <2>3. i < cTail /\ cBuffer[i] = DefaultOrder
    BY <1>1 DEF IInv, IndexInv, BlankInv, CQ!At
  <2>4. i \in Nat
    BY <2>2, Constants
  <2>. QED BY ONLY <2>1, <2>2, <2>3, <2>4
<1>3. BookHoldsWhatWasProcessed'
  <2>1. SUFFICES ASSUME NEW s \in Symbols, NEW side \in Sides
                 PROVE  orderBook[s][side] =
                          CompletedVolume(s, side)' + VolumeOnTheWay(s, side)'
    BY DEF BookHoldsWhatWasProcessed
  <2>2. orderBook[s][side] = CompletedVolume(s, side) + VolumeOnTheWay(s, side)
    BY DEF BookHoldsWhatWasProcessed
  <2> DEFINE f == OnTheWay(s, side)
             h == OnTheWay(s, side)'
             g == Completed(s, side)
             k == Completed(s, side)'
             q == Quantity(order[c], s, side)
             D == CQ!Slots
  <2>3. /\ VolumeOnTheWay(s, side) = SumFunction(f) /\ f \in [Consumers -> Int]
        /\ CompletedVolume(s, side) = SumFunction(g) /\ g \in [D -> Int]
        /\ IsFiniteSet(Consumers) /\ IsFiniteSet(D)
        /\ CompletedVolume(s, side) \in Int /\ VolumeOnTheWay(s, side) \in Int
    BY VolumeTypes DEF IInv
  <2>4. VolumeOnTheWay(s, side)' = SumFunction(h) /\ CompletedVolume(s, side)' = SumFunction(k)
    BY DEF VolumeOnTheWay, OnTheWay, CompletedVolume, Completed
  <2>5. q \in Int /\ Quantity(DefaultOrder, s, side) = 0
    BY <1>2, QuantityType DEF Quantity, DefaultOrder
  <2>6. h = [f EXCEPT ![c] = 0] /\ f[c] = q
    BY <1>1, Constants DEF OnTheWay
  <2>7. k = [g EXCEPT ![i] = q] /\ g[i] = 0
    BY <1>2, <2>5 DEF Completed
  <2>8. i \in D
    BY <1>2
  <2>. HIDE DEF f, h, g, k, q, D, i
  <2>9. /\ Summable(f, Consumers) /\ c \in Consumers /\ 0 \in Int
        /\ Summable(g, D) /\ i \in D /\ q \in Int
    BY <2>3, <2>5, <2>8 DEF Summable
  <2>10. SumFunction([f EXCEPT ![c] = 0]) = (SumFunction(f) - f[c]) + 0
    BY ONLY <2>9, SumExcept
  <2>11. SumFunction([g EXCEPT ![i] = q]) = (SumFunction(g) - g[i]) + q
    BY ONLY <2>9, SumExcept
  <2>12. VolumeOnTheWay(s, side)' = VolumeOnTheWay(s, side) - q
    BY <2>3, <2>4, <2>5, <2>6, <2>10
  <2>13. CompletedVolume(s, side)' = CompletedVolume(s, side) + q
    BY <2>3, <2>4, <2>5, <2>7, <2>11
  <2>. QED BY <2>2, <2>3, <2>5, <2>12, <2>13
<1>4. MutexInv'
  BY <1>1, Constants DEF MutexInv
<1>5. BlankInv'
  <2>1. \A j \in CQ!Slots : j # i => cBuffer'[j] = cBuffer[j]
    BY <1>2
  <2>2. \A j \in CQ!Slots : j >= cTail => j # i
    BY <1>2, Bounds, Constants
  <2>3. \A d \in Consumers : cOp'[d].at = "write" =>
          d # c /\ cOp'[d] = cOp[d] /\ cOp[d].idx \in CQ!Slots /\ cOp[d].idx # i
    BY <1>1, Constants DEF IInv, TypeOK, SlotClaimedOnce, CQ!At, CQ!Idle
  <2>. QED BY <2>1, <2>2, <2>3 DEF BlankInv, CQ!At
<1>6. ReportInv'
  BY <1>1 DEF ReportInv
<1>. QED BY <1>3, <1>4, <1>5, <1>6

LEMMA VolumeStep == IInv /\ VolumeInv /\ [Next]_vars => VolumeInv'
<1> SUFFICES ASSUME IInv, VolumeInv, [Next]_vars PROVE VolumeInv'
  OBVIOUS
<1>1. ASSUME NEW c \in Consumers, Consumer(c) PROVE VolumeInv'
  BY <1>1, ConsumerAside, LockVolume, StoreVolume, CCasVolume, CWriteVolume DEF Consumer
<1>2. CASE UNCHANGED vars
  BY <1>2, AsideVolume DEF Aside, vars
<1>. QED BY <1>1, <1>2, MainVolume, ProducerVolume DEF Next, Terminated

LEMMA VolumeInit == Init => VolumeInv
<1> SUFFICES ASSUME Init PROVE VolumeInv
  OBVIOUS
<1>1. BookHoldsWhatWasProcessed
  <2>1. SUFFICES ASSUME NEW s \in Symbols, NEW side \in Sides
                 PROVE  orderBook[s][side] =
                          CompletedVolume(s, side) + VolumeOnTheWay(s, side)
    BY DEF BookHoldsWhatWasProcessed
  <2> DEFINE f == OnTheWay(s, side)
             g == Completed(s, side)
             D == CQ!Slots
  <2>2. /\ VolumeOnTheWay(s, side) = SumFunction(f) /\ f \in [Consumers -> Int]
        /\ CompletedVolume(s, side) = SumFunction(g) /\ g \in [D -> Int]
        /\ IsFiniteSet(Consumers) /\ IsFiniteSet(D)
    BY VolumeTypes, InitInv DEF IInv
  <2>3. \A c \in Consumers : f[c] = 0
    BY Constants DEF OnTheWay, Init
  <2>4. \A i \in D : g[i] = 0
    BY DEF Completed, Init, CQ!Init, Quantity, DefaultOrder
  <2>5. orderBook[s][side] = 0
    BY DEF Init
  <2>. HIDE DEF f, g, D
  <2>6. SumFunction(f) = 0
    BY <2>2, <2>3, SumOfZeros
  <2>7. SumFunction(g) = 0
    BY <2>2, <2>4, SumOfZeros
  <2>. QED BY <2>2, <2>5, <2>6, <2>7
<1>2. MutexInv
  BY Constants DEF MutexInv, Init
<1>3. BlankInv
  BY Constants DEF BlankInv, Init, CQ!Init, CQ!At, CQ!Idle
<1>4. ReportInv
  BY DEF ReportInv, Init
<1>. QED BY <1>1, <1>2, <1>3, <1>4 DEF VolumeInv

LEMMA VolumeInvariant == Spec => []VolumeInv
BY InitInv, NextInv, VolumeInit, VolumeStep, PTL DEF Spec

\* No update of the order book is lost, for any number of consumers and orders:
\* the mutex of lines 193-199 covers the read and the write.
THEOREM NoUpdateIsLost == Spec => []BookHoldsWhatWasProcessed
<1>1. VolumeInv => BookHoldsWhatWasProcessed
  BY DEF VolumeInv
<1>. QED BY <1>1, VolumeInvariant, PTL

\* What main() prints once the consumers are joined agrees with the book: the
\* size is totalOrders and the completed orders add up to its volumes.
THEOREM ReportIsComplete == Spec => []ReportMatchesBook
<1>1. ASSUME IInv, VolumeInv PROVE ReportMatchesBook
  <2>1. SUFFICES ASSUME mainAt = "done"
                 PROVE  /\ Len(report) = totalOrders
                        /\ \A s \in Symbols, side \in Sides :
                             orderBook[s][side] =
                               SumFunction([k \in DOMAIN report |->
                                              Quantity(report[k], s, side)])
    BY DEF ReportMatchesBook
  <2>2. report = CQ!Contents /\ \A c \in Consumers : pc[c] = "done"
    BY <1>1, <2>1 DEF VolumeInv, ReportInv
  <2>3. cTail = totalOrders /\ cHead = 0
    BY <1>1, <2>2, ConstantsAssumption DEF IInv, LeaveInv, CountInv
  <2>4. report = [k \in 1 .. totalOrders |-> cBuffer[k - 1]]
    <3>1. CQ!Size = totalOrders
      BY <1>1, <2>3, SizeIsTail
    <3>2. ASSUME NEW k \in 1 .. totalOrders
          PROVE  (cHead + k - 1) % QUEUE_CAPACITY = k - 1
      BY <2>3, Constants
    <3>. QED BY <2>2, <3>1, <3>2 DEF CQ!Contents
  <2>5. Len(report) = totalOrders /\ DOMAIN report = 1 .. totalOrders
    BY <2>4, Constants
  <2>6. ASSUME NEW s \in Symbols, NEW side \in Sides
        PROVE  orderBook[s][side] =
                 SumFunction([k \in DOMAIN report |-> Quantity(report[k], s, side)])
    <3> DEFINE f == OnTheWay(s, side)
               g == Completed(s, side)
               N == totalOrders
    <3>1. /\ VolumeOnTheWay(s, side) = SumFunction(f) /\ f \in [Consumers -> Int]
          /\ CompletedVolume(s, side) = SumFunction(g) /\ g \in [0 .. N -> Int]
          /\ IsFiniteSet(Consumers) /\ CompletedVolume(s, side) \in Int
          /\ N \in Nat
      BY <1>1, VolumeTypes, Constants DEF IInv
    <3>2. orderBook[s][side] = CompletedVolume(s, side) + VolumeOnTheWay(s, side)
      BY <1>1 DEF VolumeInv, BookHoldsWhatWasProcessed
    <3>3. \A c \in Consumers : f[c] = 0
      BY <2>2 DEF OnTheWay
    <3>4. g[N] = 0
      <4>1. cBuffer[totalOrders] = DefaultOrder /\ totalOrders \in CQ!Slots
        BY <1>1, <2>3, Constants DEF VolumeInv, BlankInv
      <4>2. g[N] = Quantity(DefaultOrder, s, side)
        BY <4>1 DEF Completed
      <4>. QED BY <4>2 DEF Quantity, DefaultOrder
    <3>5. [k \in DOMAIN report |-> Quantity(report[k], s, side)] = [k \in 1 .. N |-> g[k - 1]]
      <4>1. ASSUME NEW k \in 1 .. N PROVE Quantity(report[k], s, side) = g[k - 1]
        <5>1. k - 1 \in CQ!Slots
          BY Constants
        <5>. QED BY <2>4, <5>1 DEF Completed
      <4>. QED BY <2>5, <4>1
    <3>. HIDE DEF f, g, N
    <3>6. SumFunction(f) = 0
      BY <3>1, <3>3, SumOfZeros
    <3>7. SumFunction([k \in 1 .. N |-> g[k - 1]]) = SumFunction(g)
      BY <3>1, <3>4, SumRenumbered
    <3>8. orderBook[s][side] = SumFunction(g)
      BY <3>1, <3>2, <3>6
    <3>. QED BY <3>5, <3>7, <3>8
  <2>. QED BY <2>5, <2>6
<1>. QED BY <1>1, PipelineInvariant, VolumeInvariant, PTL

-----------------------------------------------------------------------------
(***************************************************************************)
(* CompletedOnce.  A read may return the id of an order that is still      *)
(* being written, so that an id is traced to the slot of orderQueue it     *)
(* comes from: no two slots own the same id, and a slot is read once.  The *)
(* ids p * 1000 + i of line 165 are all different only as long as no       *)
(* producer has more than a thousand orders; main() gives each a hundred.  *)
(***************************************************************************)

\* The ids of slot j of orderQueue: of the order in it, and of the order that a
\* producer is writing into it.
Owns(j, n) ==
    /\ n # 0
    /\ \/ qBuffer[j].orderId = n
       \/ \E p \in Producers :
            OQ!At(p, "write") /\ qOp[p].idx = j /\ n = p * 1000 + sent[p]

\* The id n comes from a slot that has been read.
Taken(n) ==
    \E j \in OQ!Slots :
        /\ j < qHead
        /\ Owns(j, n)
        /\ \A c \in Consumers : OQ!At(c, "read") => qOp[c].idx # j

\* orderQueue: every order of a producer in a slot of its own, blank until it is
\* written.
OwnInv ==
    /\ \A i, j \in OQ!Slots : \A n \in Nat : Owns(i, n) /\ Owns(j, n) => i = j
    /\ \A i \in OQ!Slots : qBuffer[i].orderId # 0 =>
         \E p \in Producers : \E k \in Nat :
             k < sent[p] /\ qBuffer[i].orderId = p * 1000 + k
    /\ \A i \in OQ!Slots : i >= qTail => qBuffer[i].orderId = 0
    /\ \A p \in Producers : OQ!At(p, "write") => qBuffer[qOp[p].idx].orderId = 0

\* What the consumers and completedOrders hold was read from a slot, ...
TakenInv ==
    /\ \A c \in Consumers : order[c].orderId # 0 => Taken(order[c].orderId)
    /\ \A i \in CQ!Slots : cBuffer[i].orderId # 0 => Taken(cBuffer[i].orderId)

\* ... and no two of them hold the same.
DistinctInv ==
    /\ \A c, d \in Consumers :
         c # d /\ order[c].orderId # 0 => order[c].orderId # order[d].orderId
    /\ \A c \in Consumers, i \in CQ!Slots :
         order[c].orderId # 0 => order[c].orderId # cBuffer[i].orderId

OnceInv == OwnInv /\ TakenInv /\ DistinctInv /\ CompletedOnce

\* As long as the held orders stay where they are, their slots need only remain
\* theirs.
LEMMA HeldKept ==
    ASSUME TakenInv, DistinctInv, CompletedOnce,
           \A n \in Nat : Taken(n) => Taken(n)',
           UNCHANGED <<order, cBuffer>>, TypeOK
    PROVE  TakenInv' /\ DistinctInv' /\ CompletedOnce'
<1>1. /\ \A c \in Consumers : order[c].orderId \in Nat
      /\ \A i \in CQ!Slots : cBuffer[i].orderId \in Nat
  BY DEF TypeOK, Order
<1>2. TakenInv'
  BY <1>1 DEF TakenInv
<1>3. DistinctInv' /\ CompletedOnce'
  BY DEF DistinctInv, CompletedOnce
<1>. QED BY <1>2, <1>3

\* The steps that leave the slots of orderQueue as they are.
LEMMA OwnKept ==
    ASSUME OwnInv, UNCHANGED <<qTail, qBuffer, sent>>,
           \A p \in Producers : OQ!At(p, "write")' \/ OQ!At(p, "write") => qOp'[p] = qOp[p]
    PROVE  OwnInv' /\ \A j \in OQ!Slots : \A n : Owns(j, n)' <=> Owns(j, n)
<1>1. ASSUME NEW j, NEW n PROVE Owns(j, n)' <=> Owns(j, n)
  BY DEF Owns, OQ!At
<1>2. OwnInv'
  BY <1>1 DEF OwnInv, OQ!At
<1>. QED BY <1>1, <1>2

\* The steps that read nothing and complete nothing either.
LEMMA AsideOnce ==
    ASSUME IInv, OnceInv, UNCHANGED <<qHead, qTail, qBuffer, sent, order, cBuffer>>,
           \A p \in Producers : OQ!At(p, "write")' \/ OQ!At(p, "write") => qOp'[p] = qOp[p],
           \A c \in Consumers : OQ!At(c, "read")' => qOp'[c] = qOp[c]
    PROVE  OnceInv'
<1>1. OwnInv' /\ \A j \in OQ!Slots : \A n : Owns(j, n)' <=> Owns(j, n)
  BY OwnKept DEF OnceInv
<1>2. \A n \in Nat : Taken(n) => Taken(n)'
  BY <1>1 DEF Taken, OQ!At
<1>. QED BY <1>1, <1>2, HeldKept DEF OnceInv, IInv

\* A producer that is in push_back is at one of its first thousand orders.
LEMMA SentBound ==
    ASSUME IInv, ordersPerProducer <= 1000, NEW p \in Producers
    PROVE  /\ p \in Nat /\ p # 0 /\ sent[p] \in Nat /\ sent[p] <= 1000
           /\ pc[p] = "push" => sent[p] \in 0 .. 999
           /\ OQ!At(p, "write") => pc[p] = "push"
<1>1. sent[p] \in 0 .. ordersPerProducer
  BY DEF IInv, TypeOK
<1>2. pc[p] = "push" => sent[p] \in 0 .. ordersPerProducer - 1
  BY ProducerSending
<1>3. OQ!At(p, "write") => pc[p] = "push"
  BY DEF IInv, ControlInv, OQ!At, OQ!Idle
<1>4. p \in Nat /\ p # 0
  BY ConstantsAssumption DEF Producers
<1>. QED BY <1>1, <1>2, <1>3, <1>4, ConstantsAssumption

\* The claim gives slot qTail to an order that no slot has.
LEMMA ProducerCasOnce ==
    ASSUME IInv, OnceInv, ordersPerProducer <= 1000, NEW p \in Producers, ProducerCas(p)
    PROVE  OnceInv'
<1> DEFINE id == p * 1000 + sent[p]
<1>1. /\ pc[p] = "push" /\ OQ!At(p, "pushCas") /\ qTail \in OQ!Slots
      /\ qOp' = [qOp EXCEPT ![p] = [at |-> "write", idx |-> qTail]]
      /\ qOp \in [Threads -> [at : QueueSteps, idx : OQ!Slots]]
      /\ UNCHANGED <<qHead, qBuffer, sent, order, cBuffer>>
  BY DEF ProducerCas, InProducer, OQ!PushCas, OQ!TailUnmoved, OQ!Goto, IInv, TypeOK,
         completedOrders
<1>2. qTail' = qTail + 1 /\ qTail \in Nat /\ p \in Threads
  BY ProducerCasClaims, Bounds, Constants
<1>3. /\ qOp'[p] = [at |-> "write", idx |-> qTail]
      /\ \A t \in Threads \ {p} : qOp'[t] = qOp[t]
  BY <1>1, <1>2
<1>4. id \in Nat /\ id # 0
  BY <1>1, SentBound
<1>5. ASSUME NEW j, NEW n PROVE Owns(j, n)' <=> Owns(j, n) \/ (j = qTail /\ n = id)
  <2>1. ASSUME NEW q \in Producers
        PROVE  (OQ!At(q, "write") /\ qOp[q].idx = j /\ n = q * 1000 + sent[q])'
                 <=> \/ OQ!At(q, "write") /\ qOp[q].idx = j /\ n = q * 1000 + sent[q]
                     \/ q = p /\ j = qTail /\ n = id
    BY <1>1, <1>3, Constants DEF OQ!At
  <2>. HIDE DEF id
  <2>. QED BY <1>1, <1>4, <2>1 DEF Owns
<1>6. ASSUME NEW j \in OQ!Slots PROVE ~Owns(j, id)
  <2>1. SUFFICES ASSUME Owns(j, id) PROVE FALSE
    OBVIOUS
  <2> DEFINE i == sent[p]
  <2>2. p \in Nat /\ i \in 0 .. 999 /\ id = p * 1000 + i
    BY <1>1, SentBound DEF id
  <2>. HIDE DEF i
  <2>3. CASE qBuffer[j].orderId = id
    <3>1. PICK q \in Producers : \E k \in Nat : k < sent[q] /\ id = q * 1000 + k
      BY <1>4, <2>3 DEF OnceInv, OwnInv
    <3>2. PICK k \in Nat : k < sent[q] /\ id = q * 1000 + k
      BY <3>1
    <3>3. q \in Nat /\ k \in 0 .. 999
      BY <3>2, SentBound
    <3>4. p * 1000 + i = q * 1000 + k
      BY <2>2, <3>2
    <3>5. p = q /\ i = k
      BY ONLY <2>2, <3>3, <3>4
    <3>. QED BY <2>2, <3>2, <3>5 DEF i
  <2>4. ASSUME NEW q \in Producers, OQ!At(q, "write"), id = q * 1000 + sent[q]
        PROVE  FALSE
    <3> DEFINE k == sent[q]
    <3>1. q \in Nat /\ k \in 0 .. 999
      BY <2>4, SentBound
    <3>2. p * 1000 + i = q * 1000 + k
      BY <2>2, <2>4
    <3>. HIDE DEF k
    <3>3. p = q
      BY ONLY <2>2, <3>1, <3>2
    <3>. QED BY <1>1, <2>4, <3>3 DEF OQ!At
  <2>. QED BY <2>1, <2>3, <2>4 DEF Owns
<1>. HIDE DEF id
<1>7. OwnInv'
  <2>1. (\A i, j \in OQ!Slots : \A n \in Nat : Owns(i, n) /\ Owns(j, n) => i = j)'
    <3>1. \A i, j \in OQ!Slots : \A n \in Nat : Owns(i, n)' /\ Owns(j, n)' => i = j
      BY <1>5, <1>6 DEF OnceInv, OwnInv
    <3>. QED BY <3>1
  <2>2. \A i \in OQ!Slots : i >= qTail' => i >= qTail
    BY <1>2, Constants
  <2>3. qBuffer[qTail].orderId = 0
    BY <1>1, <1>2 DEF OnceInv, OwnInv
  <2>4. \A q \in Producers : OQ!At(q, "write")' => qBuffer[qOp'[q].idx].orderId = 0
    BY <1>3, <2>3, Constants DEF OnceInv, OwnInv, OQ!At
  <2>. QED BY <1>1, <2>1, <2>2, <2>4 DEF OnceInv, OwnInv
<1>8. \A n \in Nat : Taken(n) => Taken(n)'
  <2>1. \A c \in Consumers : qOp'[c] = qOp[c]
    BY <1>3, Constants
  <2>. QED BY <1>1, <1>5, <2>1 DEF Taken, OQ!At
<1>. QED BY <1>1, <1>7, <1>8, HeldKept DEF OnceInv, IInv

\* The write changes where the order is, not which slot owns it.
LEMMA ProducerWriteOnce ==
    ASSUME IInv, OnceInv, ordersPerProducer <= 1000, NEW p \in Producers, ProducerWrite(p)
    PROVE  OnceInv'
<1> DEFINE id == p * 1000 + sent[p]
           b == qOp[p].idx
<1>1. /\ pc[p] = "push" /\ OQ!At(p, "write")
      /\ qOp' = [qOp EXCEPT ![p] = OQ!Idle]
      /\ qOp \in [Threads -> [at : QueueSteps, idx : OQ!Slots]]
      /\ qBuffer \in [OQ!Slots -> Order] /\ sent \in [Producers -> 0 .. ordersPerProducer]
      /\ sent' = [sent EXCEPT ![p] = @ + 1]
      /\ qBuffer' = [qBuffer EXCEPT ![b] = Pushed[p]]
      /\ UNCHANGED <<qHead, qTail, order, cBuffer>>
  BY DEF ProducerWrite, InProducer, OQ!PushWrite, IInv, TypeOK, completedOrders
<1>2. p \in Threads /\ Pushed[p].orderId = id /\ b \in OQ!Slots
  BY <1>1, Constants DEF Pushed, OrderOf
<1>3. /\ qOp'[p] = OQ!Idle /\ \A t \in Threads \ {p} : qOp'[t] = qOp[t]
      /\ sent'[p] = sent[p] + 1 /\ \A q \in Producers \ {p} : sent'[q] = sent[q]
      /\ qBuffer'[b].orderId = id
      /\ \A j \in OQ!Slots \ {b} : qBuffer'[j] = qBuffer[j]
  BY <1>1, <1>2
<1>4. id \in Nat /\ id # 0 /\ qBuffer[b].orderId = 0 /\ sent[p] \in Nat
  BY <1>1, SentBound DEF OnceInv, OwnInv
<1>5. ASSUME NEW q \in Producers, q # p, OQ!At(q, "write") PROVE qOp[q].idx # b
  BY <1>1, <1>5, Constants DEF IInv, SlotClaimedOnce
<1>6. b < qTail
  BY <1>1 DEF IInv, IndexInv, OQ!At
<1>7. ASSUME NEW j \in OQ!Slots, NEW n PROVE Owns(j, n)' <=> Owns(j, n)
  <2>1. ASSUME NEW q \in Producers
        PROVE  (OQ!At(q, "write") /\ qOp[q].idx = j /\ n = q * 1000 + sent[q])'
                 <=> q # p /\ OQ!At(q, "write") /\ qOp[q].idx = j /\ n = q * 1000 + sent[q]
    BY <1>3, Constants DEF OQ!At, OQ!Idle
  <2>2. CASE j = b
    BY <1>1, <1>3, <1>4, <1>5, <2>1, <2>2 DEF Owns
  <2>3. CASE j # b
    BY <1>1, <1>3, <2>1, <2>3 DEF Owns
  <2>. QED BY <2>2, <2>3
<1>8. OwnInv'
  <2>1. (\A i, j \in OQ!Slots : \A n \in Nat : Owns(i, n) /\ Owns(j, n) => i = j)'
    <3>1. \A i, j \in OQ!Slots : \A n \in Nat : Owns(i, n)' /\ Owns(j, n)' => i = j
      BY <1>7 DEF OnceInv, OwnInv
    <3>. QED BY <3>1
  <2>2. ASSUME NEW i \in OQ!Slots, qBuffer'[i].orderId # 0
        PROVE  \E q \in Producers : \E k \in Nat :
                 k < sent'[q] /\ qBuffer'[i].orderId = q * 1000 + k
    <3>1. CASE i = b
      <4>1. sent[p] \in Nat /\ sent[p] < sent'[p] /\ qBuffer'[i].orderId = p * 1000 + sent[p]
        BY <1>3, <1>4, <3>1
      <4>. QED BY <4>1
    <3>2. CASE i # b
      <4>1. PICK q \in Producers : \E k \in Nat : k < sent[q] /\ qBuffer[i].orderId = q * 1000 + k
        BY <1>3, <2>2, <3>2 DEF OnceInv, OwnInv
      <4>2. PICK k \in Nat : k < sent[q] /\ qBuffer[i].orderId = q * 1000 + k
        BY <4>1
      <4>3. k < sent'[q]
        BY <1>3, <1>4, <4>2
      <4>. QED BY <1>3, <3>2, <4>2, <4>3
    <3>. QED BY <3>1, <3>2
  <2>3. \A i \in OQ!Slots : i >= qTail => i # b
    BY <1>1, <1>2, <1>6, Bounds, Constants
  <2>4. \A q \in Producers : OQ!At(q, "write")' =>
          q # p /\ OQ!At(q, "write") /\ qOp'[q] = qOp[q] /\ qOp[q].idx \in OQ!Slots
    BY <1>1, <1>3, Constants DEF OQ!At, OQ!Idle
  <2>5. \A i \in OQ!Slots : i >= qTail' => qBuffer'[i].orderId = 0
    BY <1>1, <1>3, <2>3 DEF OnceInv, OwnInv
  <2>6. \A q \in Producers : OQ!At(q, "write")' => qBuffer'[qOp'[q].idx].orderId = 0
    BY <1>3, <1>5, <2>4 DEF OnceInv, OwnInv
  <2>. QED BY <2>1, <2>2, <2>5, <2>6 DEF OwnInv
<1>9. \A n \in Nat : Taken(n) => Taken(n)'
  <2>1. \A c \in Consumers : qOp'[c] = qOp[c]
    BY <1>3, Constants
  <2>. QED BY <1>1, <1>7, <2>1 DEF Taken, OQ!At
<1>. QED BY <1>1, <1>8, <1>9, HeldKept DEF OnceInv, IInv

LEMMA ProducerOnce ==
    ASSUME IInv, OnceInv, ordersPerProducer <= 1000, NEW p \in Producers, Producer(p)
    PROVE  OnceInv'
<1>1. CASE \/ ProducerStart(p) \/ ProducerLoadTail(p) \/ ProducerLoadHead(p)
           \/ ProducerRetry(p)
  <2>1. /\ UNCHANGED <<qHead, qTail, qBuffer, sent, completedOrders, order>>
        /\ qOp' = [qOp EXCEPT ![p] = qOp'[p]]
        /\ ~OQ!At(p, "write") /\ ~OQ!At(p, "write")'
    BY <1>1, SentBound, Constants
       DEF ProducerStart, ProducerLoadTail, ProducerLoadHead, ProducerRetry, InProducer,
           OQ!PushLoadTail, OQ!PushLoadHead, OQ!PushRetry, OQ!Goto, OQ!Idle, OQ!At,
           orderQueue, IInv, TypeOK
  <2>2. \A q \in Threads \ {p} : qOp'[q] = qOp[q]
    BY <2>1 DEF IInv, TypeOK
  <2>. QED BY <2>1, <2>2, AsideOnce, Constants DEF OQ!At, completedOrders
<1>. QED BY <1>1, ProducerCasOnce, ProducerWriteOnce DEF Producer

\* A consumer that neither claims, reads nor completes an order.
LEMMA ConsumerAsideOnce ==
    ASSUME IInv, OnceInv, NEW c \in Consumers,
           \/ ConsumerStart(c) \/ ConsumerLoadHead(c) \/ ConsumerLoadTail(c)
           \/ ConsumerPopRetry(c) \/ ConsumerSize(c)
           \/ ConsumerLockBook(c) \/ ConsumerStoreBook(c)
           \/ ConsumerCLoadTail(c) \/ ConsumerCLoadHead(c) \/ ConsumerCCas(c)
           \/ ConsumerCRetry(c)
    PROVE  OnceInv'
<1>1. UNCHANGED <<qHead, qTail, qBuffer, sent>>
  BY DEF InPop, InComplete, ConsumerStart, ConsumerLoadHead, ConsumerLoadTail,
         ConsumerPopRetry, ConsumerSize, ConsumerLockBook, ConsumerStoreBook,
         ConsumerCLoadTail, ConsumerCLoadHead, ConsumerCCas, ConsumerCRetry,
         OQ!PopLoadHead, OQ!PopLoadTail, OQ!PopRetry, orderQueue
<1>2. UNCHANGED <<order, cBuffer>>
  BY NeverFull
     DEF InPop, InComplete, ConsumerStart, ConsumerLoadHead, ConsumerLoadTail,
         ConsumerPopRetry, ConsumerSize, ConsumerLockBook, ConsumerStoreBook,
         ConsumerCLoadTail, ConsumerCLoadHead, ConsumerCCas, ConsumerCRetry,
         CQ!PushLoadTail, CQ!PushLoadHead, CQ!PushCas, CQ!PushRetry, completedOrders
<1>3. /\ \A t \in Threads \ {c} : qOp'[t] = qOp[t]
      /\ qOp'[c] # qOp[c] => qOp'[c].at # "read"
  <2>1. CASE UNCHANGED qOp
    BY <2>1
  <2>2. CASE ConsumerLoadHead(c) \/ ConsumerLoadTail(c) \/ ConsumerPopRetry(c)
    <3> DEFINE Tried == {[at |-> "popLoadTail", idx |-> qHead],
                         [at |-> "popCas", idx |-> qOp[c].idx], OQ!Idle}
    <3>1. PICK r \in Tried : qOp' = [qOp EXCEPT ![c] = r]
      BY <2>2
         DEF ConsumerLoadHead, ConsumerLoadTail, ConsumerPopRetry, OQ!PopLoadHead,
             OQ!PopLoadTail, OQ!PopRetry, OQ!Goto, OQ!Idle
    <3>2. r.at # "read"
      BY DEF OQ!Idle
    <3>. QED BY <3>1, <3>2, Constants DEF IInv, TypeOK
  <2>. QED BY <2>1, <2>2
           DEF InComplete, ConsumerStart, ConsumerSize, ConsumerLockBook,
               ConsumerStoreBook, ConsumerCLoadTail, ConsumerCLoadHead, ConsumerCCas,
               ConsumerCRetry, orderQueue
<1>. QED BY <1>1, <1>2, <1>3, AsideOnce, Constants DEF OQ!At

\* The slot that is claimed for a pop has not been read before.
LEMMA PopCasOnce ==
    ASSUME IInv, OnceInv, NEW c \in Consumers, ConsumerPopCas(c)
    PROVE  OnceInv'
<1>1. /\ qOp' = [qOp EXCEPT ![c] = [at |-> "read", idx |-> qHead]]
      /\ qOp \in [Threads -> [at : QueueSteps, idx : OQ!Slots]] /\ c \in Threads
      /\ qHead' = qHead + 1 /\ qHead \in Nat
      /\ UNCHANGED <<qTail, qBuffer, sent, order, cBuffer>>
  BY ConsumerPopClaims, Bounds, Constants
     DEF ConsumerPopCas, InPop, OQ!PopCas, OQ!HeadUnmoved, OQ!Goto, IInv, TypeOK,
         completedOrders
<1>2. OwnInv' /\ \A j \in OQ!Slots : \A n : Owns(j, n)' <=> Owns(j, n)
  BY <1>1, OwnKept, Constants DEF OnceInv
<1>3. ASSUME NEW n \in Nat, Taken(n) PROVE Taken(n)'
  <2>1. PICK j \in OQ!Slots :
          /\ j < qHead /\ Owns(j, n)
          /\ \A d \in Consumers : OQ!At(d, "read") => qOp[d].idx # j
    BY <1>3 DEF Taken
  <2>2. \A d \in Consumers : OQ!At(d, "read")' => qOp'[d].idx # j
    BY <1>1, <2>1, Constants DEF OQ!At
  <2>3. j < qHead' /\ Owns(j, n)'
    BY <1>1, <1>2, <2>1, Constants
  <2>. QED BY <2>2, <2>3 DEF Taken
<1>. QED BY <1>1, <1>2, <1>3, HeldKept DEF OnceInv, IInv

\* The read takes its id from a slot nothing has been taken from.
LEMMA ReadOnce ==
    ASSUME IInv, OnceInv, NEW c \in Consumers, ConsumerRead(c)
    PROVE  OnceInv'
<1>0. PICK j \in OQ!Slots : j = qOp[c].idx
  BY Constants DEF IInv, TypeOK
<1>1. PICK got \in OQ!Readable(j) :
        /\ qOp' = [qOp EXCEPT ![c] = OQ!Idle]
        /\ order' = [order EXCEPT ![c] = got]
  BY <1>0 DEF ConsumerRead, OQ!PopRead
<1>2. /\ OQ!At(c, "read") /\ c \in Threads /\ j < qHead
      /\ qOp \in [Threads -> [at : QueueSteps, idx : OQ!Slots]]
      /\ order \in [Consumers -> Order]
      /\ UNCHANGED <<qHead, qTail, qBuffer, sent, cBuffer>>
  BY <1>0, Constants
     DEF ConsumerRead, InPop, OQ!PopRead, OQ!At, IInv, TypeOK, IndexInv, completedOrders
<1>3. /\ qOp'[c] = OQ!Idle /\ \A t \in Threads \ {c} : qOp'[t] = qOp[t]
      /\ order'[c] = got /\ \A d \in Consumers \ {c} : order'[d] = order[d]
  BY <1>1, <1>2
<1>4. OwnInv' /\ \A i \in OQ!Slots : \A n : Owns(i, n)' <=> Owns(i, n)
  BY <1>2, <1>3, OwnKept, Constants DEF OnceInv
<1>5. got.orderId \in Nat
  <2>1. got \in Order
    BY <1>2, ReadableType DEF IInv
  <2>. QED BY <2>1 DEF Order
<1>6. got.orderId # 0 => Owns(j, got.orderId)
  <2>1. CASE got = qBuffer[j]
    BY <2>1 DEF Owns
  <2>2. ASSUME NEW w \in OQ!Writers(j), got \in OQ!Torn(qBuffer[j], Pushed[w])
        PROVE  got.orderId # 0 => Owns(j, got.orderId)
    <3>1. w \in Threads /\ OQ!At(w, "write") /\ qOp[w].idx = j
      BY DEF OQ!Writers
    <3>2. w \in Producers
      BY <3>1, Constants DEF IInv, ControlInv, OQ!At
    <3>3. Pushed[w].orderId = w * 1000 + sent[w]
      BY <3>1, <3>2 DEF Pushed, OrderOf
    <3>4. got.orderId \in {qBuffer[j].orderId, Pushed[w].orderId}
      BY <2>2 DEF OQ!Torn
    <3>. QED BY <3>1, <3>2, <3>3, <3>4 DEF Owns
  <2>. QED BY <2>1, <2>2 DEF OQ!Readable
<1>7. ASSUME NEW n \in Nat, Taken(n) PROVE Taken(n)' /\ n # got.orderId
  <2>1. PICK i \in OQ!Slots :
          /\ i < qHead /\ Owns(i, n)
          /\ \A d \in Consumers : OQ!At(d, "read") => qOp[d].idx # i
    BY <1>7 DEF Taken
  <2>2. i # j
    BY <1>0, <1>2, <2>1
  <2>3. n # got.orderId
    <3>1. SUFFICES ASSUME n = got.orderId PROVE FALSE
      OBVIOUS
    <3>2. Owns(j, n)
      BY <1>6, <2>1, <3>1 DEF Owns
    <3>. QED BY <1>2, <2>1, <2>2, <3>2 DEF OnceInv, OwnInv
  <2>4. \A d \in Consumers : OQ!At(d, "read")' => qOp'[d].idx # i
    BY <1>3, <2>1, Constants DEF OQ!At, OQ!Idle
  <2>. QED BY <1>2, <1>4, <2>1, <2>3, <2>4 DEF Taken
<1>8. got.orderId # 0 => Taken(got.orderId)'
  <2>1. SUFFICES ASSUME got.orderId # 0 PROVE Taken(got.orderId)'
    OBVIOUS
  <2>2. \A d \in Consumers : OQ!At(d, "read")' => qOp'[d].idx # j
    BY <1>0, <1>2, <1>3, Constants DEF OQ!At, OQ!Idle, IInv, SlotClaimedOnce
  <2>3. j < qHead' /\ Owns(j, got.orderId)'
    BY <1>2, <1>4, <1>6, <2>1
  <2>. QED BY <2>2, <2>3 DEF Taken
<1>9. /\ \A d \in Consumers : order[d].orderId \in Nat
      /\ \A i \in CQ!Slots : cBuffer[i].orderId \in Nat
  BY DEF IInv, TypeOK, Order
<1>10. TakenInv'
  BY <1>2, <1>3, <1>7, <1>8, <1>9 DEF OnceInv, TakenInv
<1>11. /\ \A d \in Consumers : order[d].orderId # 0 => order[d].orderId # got.orderId
       /\ \A i \in CQ!Slots : cBuffer[i].orderId # 0 => cBuffer[i].orderId # got.orderId
  BY <1>7, <1>9 DEF OnceInv, TakenInv
<1>12. DistinctInv'
  BY <1>2, <1>3, <1>5, <1>9, <1>11 DEF OnceInv, DistinctInv
<1>13. CompletedOnce'
  BY <1>2 DEF OnceInv, CompletedOnce
<1>. QED BY <1>4, <1>10, <1>12, <1>13 DEF OnceInv

\* The write hands the id on to the slot.
LEMMA CWriteOnce ==
    ASSUME IInv, OnceInv, NEW c \in Consumers, ConsumerCWrite(c)
    PROVE  OnceInv'
<1> DEFINE i == cOp[c].idx
<1>1. /\ c \in Threads /\ i \in CQ!Slots
      /\ order' = [order EXCEPT ![c] = DefaultOrder] /\ order \in [Consumers -> Order]
      /\ cBuffer' = [cBuffer EXCEPT ![i] = order[c]] /\ cBuffer \in [CQ!Slots -> Order]
      /\ UNCHANGED <<qHead, qTail, qBuffer, qOp, sent>>
  BY Constants
     DEF ConsumerCWrite, InComplete, NextOrder, CQ!PushWrite, Pushed, IInv, TypeOK,
         orderQueue
<1>2. /\ order'[c].orderId = 0 /\ \A d \in Consumers \ {c} : order'[d] = order[d]
      /\ cBuffer'[i] = order[c] /\ \A k \in CQ!Slots \ {i} : cBuffer'[k] = cBuffer[k]
  BY <1>1 DEF DefaultOrder
<1>3. OwnInv' /\ \A j \in OQ!Slots : \A n : Owns(j, n)' <=> Owns(j, n)
  BY <1>1, OwnKept, Constants DEF OnceInv
<1>4. \A n \in Nat : Taken(n) => Taken(n)'
  BY <1>1, <1>3 DEF Taken, OQ!At
<1>5. /\ \A d \in Consumers : order[d].orderId \in Nat
      /\ \A k \in CQ!Slots : cBuffer[k].orderId \in Nat
  BY DEF IInv, TypeOK, Order
<1>. HIDE DEF i
<1>6. TakenInv'
  <2>1. \A d \in Consumers : (order[d].orderId # 0)' => Taken(order[d].orderId)'
    BY <1>2, <1>4, <1>5 DEF OnceInv, TakenInv
  <2>2. \A k \in CQ!Slots : (cBuffer[k].orderId # 0)' => Taken(cBuffer[k].orderId)'
    BY <1>2, <1>4, <1>5 DEF OnceInv, TakenInv
  <2>. QED BY <2>1, <2>2 DEF TakenInv
<1>7. DistinctInv'
  BY <1>1, <1>2, <1>5 DEF OnceInv, DistinctInv
<1>8. CompletedOnce'
  BY <1>1, <1>2, <1>5 DEF OnceInv, CompletedOnce, DistinctInv
<1>. QED BY <1>3, <1>6, <1>7, <1>8 DEF OnceInv

LEMMA MainOnce ==
    ASSUME IInv, OnceInv, MainStart \/ MainJoinProducers \/ MainReport \/ UNCHANGED vars
    PROVE  OnceInv'
<1>1. UNCHANGED <<qHead, qTail, qBuffer, qOp, sent, order, cBuffer>>
  BY DEF MainStart, MainJoinProducers, MainReport, vars, orderQueue, completedOrders
<1>. QED BY <1>1, AsideOnce

LEMMA OnceStep ==
    ASSUME IInv, OnceInv, ordersPerProducer <= 1000, [Next]_vars
    PROVE  OnceInv'
<1>1. ASSUME NEW c \in Consumers, Consumer(c) PROVE OnceInv'
  BY <1>1, ConsumerAsideOnce, PopCasOnce, ReadOnce, CWriteOnce DEF Consumer
<1>. QED BY <1>1, ProducerOnce, MainOnce DEF Next, Terminated

LEMMA OnceInit == Init => OnceInv
<1> SUFFICES ASSUME Init PROVE OnceInv
  OBVIOUS
<1>1. /\ \A i \in OQ!Slots : qBuffer[i].orderId = 0
      /\ \A i \in CQ!Slots : cBuffer[i].orderId = 0
      /\ \A c \in Consumers : order[c].orderId = 0
      /\ \A t \in Threads : ~OQ!At(t, "write")
  BY DEF Init, OQ!Init, CQ!Init, DefaultOrder, OQ!At, OQ!Idle
<1>2. \A j \in OQ!Slots : \A n : ~Owns(j, n)
  BY <1>1, Constants DEF Owns
<1>3. OwnInv
  BY <1>1, <1>2, Constants DEF OwnInv
<1>4. TakenInv /\ DistinctInv /\ CompletedOnce
  BY <1>1 DEF TakenInv, DistinctInv, CompletedOnce
<1>. QED BY <1>3, <1>4 DEF OnceInv

\* No order gets into completedOrders twice, not even as the id of a torn read,
\* as long as the order ids are different at all.
THEOREM NoOrderCompletesTwice ==
    ASSUME ordersPerProducer <= 1000
    PROVE  Spec => []CompletedOnce
<1>1. IInv /\ OnceInv /\ [Next]_vars => OnceInv'
  BY OnceStep
<1>2. OnceInv => CompletedOnce
  BY DEF OnceInv
<1>. QED BY <1>1, <1>2, InitInv, NextInv, OnceInit, PTL DEF Spec

=============================================================================
