------------------------- MODULE PriceMarketProofs -------------------------
(***************************************************************************)
(* Theorems about PriceMarket, for any number of clients and prices: the   *)
(* invariant IInv and the safety properties that follow from it.           *)
(***************************************************************************)
EXTENDS PriceMarket, SequenceTheorems, FiniteSetTheorems, TLAPS

USE PriceAssumption, MarketAssumption

LEMMA SocketsType == Sockets \subseteq Nat /\ NoSocket \notin Sockets
BY FS_CardinalityType DEF Sockets, NoSocket

\* The parts of the invariant that do not mention the variables of a step.
LEMMA FrameMutex ==
    ASSUME MutexInv, HitOnce,
           UNCHANGED <<priceId, message, broadcaster, hitVars, handlerVars>>
    PROVE  MutexInv' /\ HitOnce'
BY DEF MutexInv, HitOnce, IsKnown, hitVars, handlerVars

LEMMA FrameSockets ==
    ASSUME DescriptorInv, HandlersOwnTheirSockets,
           UNCHANGED <<acceptVars, handler, connection, peer>>
    PROVE  DescriptorInv' /\ HandlersOwnTheirSockets'
BY DEF DescriptorInv, HandlersOwnTheirSockets, acceptVars

LEMMA FrameClients ==
    ASSUME ClientInv, UNCHANGED <<stage, goingSign, priceHistory, peer>>
    PROVE  ClientInv'
BY DEF ClientInv, IsConnected, LastMovementInv

LEMMA FrameEnds ==
    ASSUME EndsByAnOpenSocketOnly, UNCHANGED <<running, handler, peer>>
    PROVE  EndsByAnOpenSocketOnly'
BY DEF EndsByAnOpenSocketOnly

\* A sequence without its first n elements is one of the same type.
LEMMA RestOfSeq ==
    ASSUME NEW S, NEW s \in Seq(S), NEW n \in 1 .. Len(s)
    PROVE  SubSeq(s, n + 1, Len(s)) \in Seq(S) /\ SubSeq(s, 1, n) \in Seq(S)
<1>1. Len(s) \in Nat /\ n \in Int /\ n + 1 \in Int /\ Len(s) \in Int
  BY LenProperties
<1>2. \A i \in 1 .. Len(s) : s[i] \in S
  BY ElementOfSeq
<1>3. \A i \in n + 1 .. Len(s) : s[i] \in S
  BY <1>1, <1>2
<1>4. \A i \in 1 .. n : s[i] \in S
  BY <1>1, <1>2
<1>5. SubSeq(s, n + 1, Len(s)) \in Seq(S)
  BY <1>1, <1>3, SubSeqProperties
<1>6. SubSeq(s, 1, n) \in Seq(S)
  BY <1>1, <1>4, SubSeqProperties
<1>. QED BY <1>5, <1>6

LEMMA InitInv == Init => IInv
<1> SUFFICES ASSUME Init PROVE IInv
  OBVIOUS
<1> USE DEF Init, ServerInit, ClientInit
<1>1. running \in BOOLEAN
  OBVIOUS
<1>2. TypeOK
  BY <1>1, EmptySeq DEF TypeOK, NoSocket
<1>3. MutexInv /\ HitOnce
  BY DEF MutexInv, HitOnce, None
<1>4. DescriptorInv /\ HandlersOwnTheirSockets
  BY DEF DescriptorInv, HandlersOwnTheirSockets
<1>5. ClientInv
  BY DEF ClientInv, IsConnected, LastMovementInv, None
<1>6. EndsByAnOpenSocketOnly
  BY DEF EndsByAnOpenSocketOnly
<1>. QED BY <1>2, <1>3, <1>4, <1>5, <1>6 DEF IInv

-----------------------------------------------------------------------------
(* The price thread *)

LEMMA NextPriceStep ==
    ASSUME IInv, NextPrice, UNCHANGED clientVars
    PROVE  IInv'
<1> USE DEF NextPrice, hitVars, acceptVars, handlerVars, kernelVars, clientVars
<1>1. PICK price \in Prices : message' = [id |-> priceId, price |-> price]
  OBVIOUS
<1>2. running' \in BOOLEAN
  BY DEF IInv, TypeOK
<1>3. priceId' \in 0 .. MaxPrices /\ message' \in Message \cup {NoMessage}
  BY <1>1 DEF IInv, TypeOK, Message
<1>4. TypeOK'
  BY <1>2, <1>3 DEF IInv, TypeOK
<1>5. HitOnce'
  BY DEF IInv, HitOnce
<1>6. MutexInv'
  <2>1. message'.id = timestamps /\ priceId' = timestamps + 1 /\ message' \in Message
    BY <1>1 DEF IInv, TypeOK, MutexInv, Message
  <2>. QED BY <2>1 DEF IInv, MutexInv, IsKnown
<1>7. DescriptorInv' /\ HandlersOwnTheirSockets' /\ ClientInv' /\ EndsByAnOpenSocketOnly'
  BY FrameSockets, FrameClients, FrameEnds DEF IInv
<1>. QED BY <1>4, <1>5, <1>6, <1>7 DEF IInv

LEMMA StampStep ==
    ASSUME IInv, Stamp, UNCHANGED clientVars
    PROVE  IInv'
<1> USE DEF Stamp, acceptVars, handlerVars, kernelVars, clientVars
<1>1. running' \in BOOLEAN
  BY DEF IInv, TypeOK
<1>2. timestamps' = timestamps + 1 /\ timestamps' = priceId /\ timestamps' \in 0 .. MaxPrices
  BY DEF IInv, TypeOK, MutexInv
<1>3. TypeOK'
  BY <1>1, <1>2 DEF IInv, TypeOK
<1>4. HitOnce'
  BY DEF IInv, HitOnce
<1>5. MutexInv'
  <2>1. \A c \in Clients : handler[c] # "hit"
    BY DEF IInv, MutexInv, PriceMutexFree
  <2>2. message \in Message
    BY DEF IInv, MutexInv
  <2>. QED BY <1>2, <2>1, <2>2 DEF MutexInv
<1>6. DescriptorInv' /\ HandlersOwnTheirSockets' /\ ClientInv' /\ EndsByAnOpenSocketOnly'
  BY FrameSockets, FrameClients, FrameEnds DEF IInv
<1>. QED BY <1>3, <1>4, <1>5, <1>6 DEF IInv

LEMMA LockStep ==
    ASSUME IInv, LockClients \/ UnlockClients, UNCHANGED clientVars
    PROVE  IInv'
<1> USE DEF LockClients, UnlockClients, hitVars, acceptVars, handlerVars, kernelVars, clientVars
<1>1. running' \in BOOLEAN
  BY DEF IInv, TypeOK
<1>2. cursor' \in 1 .. Len(clients') + 1
  <2>1. Len(clients) \in Nat
    BY LenProperties DEF IInv, TypeOK
  <2>. QED BY <2>1
<1>3. TypeOK'
  BY <1>1, <1>2 DEF IInv, TypeOK
<1>4. MutexInv' /\ HitOnce'
  BY DEF IInv, MutexInv, HitOnce, IsKnown
<1>5. DescriptorInv' /\ HandlersOwnTheirSockets' /\ ClientInv' /\ EndsByAnOpenSocketOnly'
  BY FrameSockets, FrameClients, FrameEnds DEF IInv
<1>. QED BY <1>3, <1>4, <1>5 DEF IInv

\* The recipient is a client whose socket is open.
LEMMA RecipientIsOpen ==
    ASSUME IInv, broadcaster = "send", cursor <= Len(clients), Recipient # None
    PROVE  Recipient \in Clients /\ peer[Recipient] # None /\ handler[Recipient] # "ended"
<1>1. clients \in Seq(Clients) /\ Len(clients) \in Nat /\ cursor \in 1 .. Len(clients)
  BY LenProperties DEF IInv, TypeOK
<1>2. clients[cursor] \in Clients /\ cursor \in DOMAIN clients
  BY <1>1, ElementOfSeq, LenProperties
<1>3. socket[clients[cursor]] \in Sockets
  BY <1>2 DEF IInv, TypeOK, DescriptorInv
<1>4. connection[socket[clients[cursor]]] \in Clients \cup {None}
  BY <1>3 DEF IInv, TypeOK
<1>5. DescriptorInv
  BY DEF IInv
<1>. QED BY <1>3, <1>4, <1>5 DEF DescriptorInv, Recipient

LEMMA SendPriceStep ==
    ASSUME IInv, SendPrice
    PROVE  IInv'
<1> USE DEF SendPrice, SendToEntry, NextEntry, hitVars, acceptVars, handlerVars
<1>1. cursor' \in 1 .. Len(clients') + 1
  <2>1. Len(clients) \in Nat
    BY LenProperties DEF IInv, TypeOK
  <2>2. cursor \in 1 .. Len(clients) + 1
    BY DEF IInv, TypeOK
  <2>3. cursor <= Len(clients) /\ cursor' = cursor + 1 /\ clients' = clients
    OBVIOUS
  <2>. QED BY <2>1, <2>2, <2>3
<1>2. Recipient # None =>
        Recipient \in Clients /\ peer[Recipient] # None /\ handler[Recipient] # "ended"
  BY RecipientIsOpen
<1>3. message \in Message
  BY DEF IInv, MutexInv
<1>4. toClient' \in [Clients -> Seq(Message)]
  BY <1>3, AppendProperties DEF IInv, TypeOK
<1>5. running' \in BOOLEAN /\ peer' \in [Clients -> {None, "open", "gone", "reset"}]
  <2>1. running' \in BOOLEAN
    BY DEF IInv, TypeOK
  <2>2. peer' \in [Clients -> {None, "open", "gone", "reset"}]
    BY DEF IInv, TypeOK
  <2>. QED BY <2>1, <2>2
<1>6. running' \in BOOLEAN
  BY <1>5
<1>7. TypeOK'
  BY <1>1, <1>4, <1>5, <1>6 DEF IInv, TypeOK
<1>8. MutexInv' /\ HitOnce'
  BY FrameMutex DEF IInv
<1>9. \A c \in Clients : /\ peer'[c] = "open" <=> peer[c] = "open"
                         /\ peer'[c] = None => peer[c] = None
                         /\ peer[c] = "reset" => peer'[c] = "reset"
  <2>1. peer \in [Clients -> {None, "open", "gone", "reset"}]
    BY DEF IInv, TypeOK
  <2>2. CASE Recipient # None /\ peer[Recipient] # "open"
    <3>1. Recipient \in Clients /\ peer' = [peer EXCEPT ![Recipient] = "reset"]
      BY <1>2, <2>2
    <3>. QED BY <1>2, <2>1, <2>2, <3>1 DEF None
  <2>3. CASE ~(Recipient # None /\ peer[Recipient] # "open")
    BY <2>3
  <2>. QED BY <2>2, <2>3
<1>10. DescriptorInv' /\ HandlersOwnTheirSockets'
  <2>1. \A s \in Sockets : connection[s] # None => connection[s] \in Clients
    BY DEF IInv, TypeOK
  <2>2. DescriptorInv'
    BY <1>9, <2>1 DEF IInv, DescriptorInv
  <2>3. HandlersOwnTheirSockets'
    BY DEF IInv, HandlersOwnTheirSockets
  <2>. QED BY <2>2, <2>3
<1>11. ClientInv'
  BY <1>9 DEF IInv, ClientInv, IsConnected, LastMovementInv
<1>12. EndsByAnOpenSocketOnly'
  <2>1. CASE running'
    BY <2>1 DEF EndsByAnOpenSocketOnly
  <2>2. CASE ~running'
    <3>1. Recipient \in Clients /\ peer'[Recipient] = "reset" /\ handler'[Recipient] # "ended"
      BY <1>2, <2>2 DEF IInv, TypeOK
    <3>. QED BY <3>1 DEF EndsByAnOpenSocketOnly
  <2>. QED BY <2>1, <2>2
<1>. QED BY <1>7, <1>8, <1>10, <1>11, <1>12 DEF IInv

-----------------------------------------------------------------------------
(* The main thread *)

LEMMA AcceptStep ==
    ASSUME IInv, NEW c \in Clients, Accept(c), UNCHANGED clientVars
    PROVE  IInv'
<1> USE DEF Accept, broadcastVars, hitVars, handlerVars, clientVars
<1>1. PICK s \in Sockets : /\ connection[s] = None
                           /\ socket' = [socket EXCEPT ![c] = s]
                           /\ connection' = [connection EXCEPT ![s] = c]
  BY DEF IsLowestFree
<1>2. handler[c] = None
  BY DEF IInv, DescriptorInv
<1>3. running' \in BOOLEAN
  BY DEF IInv, TypeOK
<1>4. TypeOK'
  BY <1>1, <1>3 DEF IInv, TypeOK
<1>5. MutexInv' /\ HitOnce'
  BY FrameMutex DEF IInv
<1>6. socket'[c] = s /\ connection'[s] = c /\ s # NoSocket /\ c # None
  BY <1>1, SocketsType DEF IInv, TypeOK
<1>7. \A d \in Clients : d # c => socket'[d] = socket[d]
  BY <1>1 DEF IInv, TypeOK
<1>8. \A t \in Sockets : t # s => connection'[t] = connection[t]
  BY <1>1 DEF IInv, TypeOK
<1>9. \A t \in Sockets : t # s => connection[t] # c
  BY SocketsType DEF IInv, DescriptorInv, NoSocket
<1>10. DescriptorInv'
  <2>1. ASSUME NEW t \in Sockets, connection'[t] # None
        PROVE  /\ socket'[connection'[t]] = t
               /\ peer'[connection'[t]] # None /\ handler'[connection'[t]] # "ended"
    BY <1>2, <1>6, <1>7, <1>8, <1>9, <2>1 DEF IInv, TypeOK, DescriptorInv, None
  <2>2. \A i \in DOMAIN clients : clients[i] \in Clients
    BY ElementOfSeq, LenProperties DEF IInv, TypeOK
  <2>3. \A i \in DOMAIN clients' : socket'[clients'[i]] # NoSocket
    BY <1>6, <1>7, <2>2 DEF IInv, DescriptorInv
  <2>4. \A d \in Clients : handler'[d] # None => socket'[d] # NoSocket
    BY <1>6, <1>7 DEF IInv, DescriptorInv
  <2>. QED BY <1>2, <1>6, <2>1, <2>3, <2>4 DEF DescriptorInv
<1>11. HandlersOwnTheirSockets'
  <2> SUFFICES ASSUME NEW d \in Clients, handler[d] \notin {None, "ended"}
               PROVE  connection'[socket'[d]] = d
    BY DEF HandlersOwnTheirSockets
  <2>1. d # c /\ connection[socket[d]] = d
    BY <1>2 DEF IInv, HandlersOwnTheirSockets
  <2>2. socket[d] \in Sockets /\ socket[d] # s
    BY <1>1, <2>1 DEF IInv, TypeOK, DescriptorInv
  <2>. QED BY <1>7, <1>8, <2>1, <2>2
<1>12. ClientInv' /\ EndsByAnOpenSocketOnly'
  BY FrameClients, FrameEnds DEF IInv
<1>. QED BY <1>4, <1>5, <1>10, <1>11, <1>12 DEF IInv

LEMMA RegisterStep ==
    ASSUME IInv, Register, UNCHANGED clientVars
    PROVE  IInv'
<1> USE DEF Register, broadcastVars, hitVars, kernelVars, clientVars
<1>1. accepted \in Clients /\ handler[accepted] = None /\ handler'[accepted] = "name"
  BY DEF IInv, TypeOK, DescriptorInv
<1>2. /\ clients \in Seq(Clients) /\ clients' \in Seq(Clients)
      /\ Len(clients') = Len(clients) + 1 /\ Len(clients) \in Nat
      /\ \A i \in 1 .. Len(clients) : clients'[i] = clients[i]
      /\ clients'[Len(clients) + 1] = accepted
  BY <1>1, AppendProperties, LenProperties DEF IInv, TypeOK
<1>3. \A d \in Clients : d # accepted => handler'[d] = handler[d]
  BY <1>1 DEF IInv, TypeOK
<1>4. running' \in BOOLEAN
  BY DEF IInv, TypeOK
<1>5. cursor' \in 1 .. Len(clients') + 1
  BY <1>2 DEF IInv, TypeOK
<1>6. TypeOK'
  BY <1>1, <1>2, <1>4, <1>5 DEF IInv, TypeOK
<1>7. MutexInv' /\ HitOnce'
  BY <1>1, <1>3 DEF IInv, MutexInv, HitOnce, IsKnown
<1>8. DescriptorInv'
  <2>1. \A s \in Sockets : connection[s] # None => handler'[connection[s]] # "ended"
    BY <1>1, <1>3 DEF IInv, TypeOK, DescriptorInv
  <2>2. \A i \in DOMAIN clients' : socket'[clients'[i]] # NoSocket
    BY <1>2, LenProperties DEF IInv, DescriptorInv
  <2>3. \A d \in Clients : handler'[d] # None => socket'[d] # NoSocket
    BY <1>3 DEF IInv, DescriptorInv
  <2>. QED BY <2>1, <2>2, <2>3 DEF IInv, DescriptorInv
<1>9. HandlersOwnTheirSockets'
  BY <1>3 DEF IInv, DescriptorInv, HandlersOwnTheirSockets
<1>10. ClientInv'
  BY FrameClients DEF IInv
<1>11. EndsByAnOpenSocketOnly'
  BY DEF EndsByAnOpenSocketOnly
<1>. QED BY <1>6, <1>7, <1>8, <1>9, <1>10, <1>11 DEF IInv

-----------------------------------------------------------------------------
(* The handlers *)

\* A handler that moves on without closing its socket disturbs no descriptor.
LEMMA HandlerMoves ==
    ASSUME IInv, NEW c \in Clients, handler[c] # None, handler[c] # "ended",
           NEW next \in {"order", "lookup", "hit", "close"},
           handler' = [handler EXCEPT ![c] = next],
           UNCHANGED <<running, acceptVars, connection, peer, clientVars>>
    PROVE  /\ handler' \in [Clients -> {None, "name", "order", "lookup", "hit", "close", "ended"}]
           /\ \A d \in Clients : d # c => handler'[d] = handler[d]
           /\ handler'[c] = next
           /\ DescriptorInv' /\ HandlersOwnTheirSockets'
           /\ ClientInv' /\ EndsByAnOpenSocketOnly'
<1> USE DEF acceptVars, clientVars
<1>1. handler' \in [Clients -> {None, "name", "order", "lookup", "hit", "close", "ended"}]
  BY DEF IInv, TypeOK
<1>2. (\A d \in Clients : d # c => handler'[d] = handler[d]) /\ handler'[c] = next
  BY DEF IInv, TypeOK
<1>3. next # None /\ next # "ended" /\ accepted # c
  BY DEF IInv, DescriptorInv, None
<1>4. DescriptorInv'
  <2>1. \A s \in Sockets : connection[s] # None => connection[s] \in Clients
    BY DEF IInv, TypeOK
  <2>2. accepted # None => accepted \in Clients
    BY DEF IInv, TypeOK
  <2>. QED BY <1>2, <1>3, <2>1, <2>2 DEF IInv, DescriptorInv
<1>5. HandlersOwnTheirSockets'
  BY <1>2, <1>3 DEF IInv, HandlersOwnTheirSockets
<1>6. ClientInv'
  BY FrameClients DEF IInv
<1>7. EndsByAnOpenSocketOnly'
  BY <1>2, <1>3 DEF IInv, EndsByAnOpenSocketOnly
<1>. QED BY <1>1, <1>2, <1>4, <1>5, <1>6, <1>7

LEMMA ReceiveStep ==
    ASSUME IInv, NEW c \in Clients, ReceiveName(c) \/ ReceiveOrder(c), UNCHANGED clientVars
    PROVE  IInv'
<1> USE DEF ReceiveName, ReceiveOrder, broadcastVars, hitVars, acceptVars, clientVars
<1>1. PICK n \in 1 .. Len(fromClient[c]) :
        fromClient' = [fromClient EXCEPT ![c] = SubSeq(fromClient[c], n + 1, Len(fromClient[c]))]
  OBVIOUS
<1>2. PICK next \in {"order", "lookup"} : handler' = [handler EXCEPT ![c] = next]
  OBVIOUS
<1>3. handler[c] # None /\ handler[c] # "ended"
  BY DEF None
<1>4. /\ handler' \in [Clients -> {None, "name", "order", "lookup", "hit", "close", "ended"}]
      /\ \A d \in Clients : d # c => handler'[d] = handler[d]
      /\ handler'[c] = next
      /\ DescriptorInv' /\ HandlersOwnTheirSockets' /\ ClientInv' /\ EndsByAnOpenSocketOnly'
  BY <1>2, <1>3, HandlerMoves
<1>5. fromClient' \in [Clients -> Seq(Name .. MaxPrices - 1)]
  <2>1. fromClient[c] \in Seq(Name .. MaxPrices - 1)
    BY DEF IInv, TypeOK
  <2>2. SubSeq(fromClient[c], n + 1, Len(fromClient[c])) \in Seq(Name .. MaxPrices - 1)
    BY <2>1, RestOfSeq
  <2>. QED BY <1>1, <2>2 DEF IInv, TypeOK
<1>6. running' \in BOOLEAN /\ DOMAIN receivedPriceId' = Clients
  <2>1. running' \in BOOLEAN
    BY DEF IInv, TypeOK
  <2>2. DOMAIN receivedPriceId' = Clients
    BY DEF IInv, TypeOK
  <2>. QED BY <2>1, <2>2
<1>7. running' \in BOOLEAN
  BY <1>6
<1>8. TypeOK'
  BY <1>4, <1>5, <1>6, <1>7 DEF IInv, TypeOK
<1>9. \A d \in Clients : handler'[d] = "hit" =>
        handler[d] = "hit" /\ receivedPriceId'[d] = receivedPriceId[d]
  BY <1>4 DEF IInv, TypeOK
<1>10. MutexInv' /\ HitOnce'
  BY <1>9 DEF IInv, MutexInv, HitOnce, IsKnown
<1>. QED BY <1>4, <1>8, <1>10 DEF IInv

LEMMA MoveOnStep ==
    ASSUME IInv, NEW c \in Clients, Disconnected(c) \/ Ignore(c), UNCHANGED clientVars
    PROVE  IInv'
<1> USE DEF Disconnected, Ignore, broadcastVars, hitVars, acceptVars, kernelVars, clientVars
<1>1. PICK next \in {"order", "close"} : handler' = [handler EXCEPT ![c] = next]
  OBVIOUS
<1>2. handler[c] # None /\ handler[c] # "ended" /\ handler[c] # "hit"
  BY DEF None
<1>3. /\ handler' \in [Clients -> {None, "name", "order", "lookup", "hit", "close", "ended"}]
      /\ \A d \in Clients : d # c => handler'[d] = handler[d]
      /\ handler'[c] = next
      /\ DescriptorInv' /\ HandlersOwnTheirSockets' /\ ClientInv' /\ EndsByAnOpenSocketOnly'
  BY <1>1, <1>2, HandlerMoves
<1>4. running' \in BOOLEAN
  BY DEF IInv, TypeOK
<1>5. DOMAIN receivedPriceId' = Clients /\ \A d \in Clients : d # c => receivedPriceId'[d] = receivedPriceId[d]
  BY DEF IInv, TypeOK
<1>6. TypeOK'
  BY <1>3, <1>4, <1>5 DEF IInv, TypeOK
<1>7. \A d \in Clients : handler'[d] = "hit" => d # c /\ handler[d] = "hit"
  BY <1>3
<1>8. MutexInv' /\ HitOnce'
  BY <1>5, <1>7 DEF IInv, MutexInv, HitOnce, IsKnown
<1>. QED BY <1>3, <1>6, <1>8 DEF IInv

LEMMA AcceptsStep ==
    ASSUME IInv, NEW c \in Clients, Accepts(c), UNCHANGED clientVars
    PROVE  IInv'
<1> USE DEF Accepts, broadcastVars, acceptVars, kernelVars, clientVars
<1>1. handler[c] # None /\ handler[c] # "ended" /\ c # None
  BY DEF None
<1>2. /\ handler' \in [Clients -> {None, "name", "order", "lookup", "hit", "close", "ended"}]
      /\ \A d \in Clients : d # c => handler'[d] = handler[d]
      /\ handler'[c] = "hit"
      /\ DescriptorInv' /\ HandlersOwnTheirSockets' /\ ClientInv' /\ EndsByAnOpenSocketOnly'
  BY <1>1, HandlerMoves
<1>3. running' \in BOOLEAN
  BY DEF IInv, TypeOK
<1>4. TypeOK'
  BY <1>2, <1>3 DEF IInv, TypeOK
<1>5. \A d \in Clients : handler[d] # "hit"
  BY DEF IInv, MutexInv, PriceMutexFree
<1>6. MutexInv'
  BY <1>2, <1>5 DEF IInv, MutexInv, IsKnown
<1>7. HitOnce'
  BY DEF IInv, HitOnce
<1>. QED BY <1>2, <1>4, <1>6, <1>7 DEF IInv

\* The handler that holds the mutex reports a price that no hit has yet.
LEMMA HitStep ==
    ASSUME IInv, NEW c \in Clients, Hit(c), UNCHANGED clientVars
    PROVE  IInv'
<1> USE DEF Hit, broadcastVars, acceptVars, kernelVars, clientVars
<1> DEFINE id == receivedPriceId[c]
           Hits == [client : Clients, id : 0 .. MaxPrices - 1]
<1>1. handler[c] # None /\ handler[c] # "ended"
  BY DEF None
<1>2. /\ handler' \in [Clients -> {None, "name", "order", "lookup", "hit", "close", "ended"}]
      /\ \A d \in Clients : d # c => handler'[d] = handler[d]
      /\ handler'[c] = "order"
      /\ DescriptorInv' /\ HandlersOwnTheirSockets' /\ ClientInv' /\ EndsByAnOpenSocketOnly'
  BY <1>1, HandlerMoves
<1>3. id \in 0 .. MaxPrices - 1 /\ id \notin priceAlreadyHit /\ priceMutex = c
  BY DEF IInv, TypeOK, MutexInv, IsKnown
<1>4. /\ hits \in Seq(Hits) /\ [client |-> c, id |-> id] \in Hits /\ Len(hits) \in Nat
      /\ DOMAIN hits = 1 .. Len(hits)
  BY <1>3, LenProperties DEF IInv, TypeOK
<1>5. /\ hits' \in Seq(Hits) /\ Len(hits') = Len(hits) + 1
      /\ DOMAIN hits' = 1 .. Len(hits')
      /\ \A i \in 1 .. Len(hits) : hits'[i] = hits[i]
      /\ hits'[Len(hits) + 1] = [client |-> c, id |-> id]
  BY <1>4, AppendProperties, LenProperties
<1>6. running' \in BOOLEAN
  BY DEF IInv, TypeOK
<1>7. DOMAIN receivedPriceId' = Clients /\ priceAlreadyHit' \subseteq 0 .. MaxPrices - 1
  BY <1>3 DEF IInv, TypeOK
<1>8. TypeOK'
  BY <1>2, <1>5, <1>6, <1>7 DEF IInv, TypeOK
<1>9. \A d \in Clients : handler'[d] # "hit"
  BY <1>2, <1>3 DEF IInv, MutexInv
<1>10. MutexInv'
  BY <1>9 DEF IInv, MutexInv
<1>11. HitOnce'
  <2>1. \A i \in DOMAIN hits : hits[i].id # id
    BY <1>3 DEF IInv, HitOnce
  <2>2. \A i \in DOMAIN hits' : \/ i \in DOMAIN hits /\ hits'[i] = hits[i]
                                \/ i = Len(hits) + 1 /\ hits'[i].id = id
    BY <1>4, <1>5
  <2>3. \A i, j \in DOMAIN hits' : hits'[i].id = hits'[j].id => i = j
    BY <2>1, <2>2 DEF IInv, HitOnce
  <2>4. {hits'[i].id : i \in DOMAIN hits'} = {hits[i].id : i \in DOMAIN hits} \cup {id}
    <3>1. DOMAIN hits' = DOMAIN hits \cup {Len(hits) + 1} /\ Len(hits) + 1 \notin DOMAIN hits
      BY <1>4, <1>5
    <3>. QED BY <1>4, <1>5, <3>1
  <2>. QED BY <2>3, <2>4 DEF IInv, HitOnce
<1>. QED BY <1>2, <1>8, <1>10, <1>11 DEF IInv

LEMMA CloseStep ==
    ASSUME IInv, NEW c \in Clients, Close(c), UNCHANGED clientVars
    PROVE  IInv'
<1> USE DEF Close, AfterClose, broadcastVars, hitVars, acceptVars, clientVars
<1>1. /\ handler[c] # None /\ handler[c] # "ended"
      /\ socket[c] \in Sockets /\ connection[socket[c]] = c /\ accepted # c /\ c # None
  BY DEF IInv, TypeOK, DescriptorInv, HandlersOwnTheirSockets, None
<1>2. /\ handler' \in [Clients -> {None, "name", "order", "lookup", "hit", "close", "ended"}]
      /\ connection' \in [Sockets -> Clients \cup {None}]
  BY DEF IInv, TypeOK
<1>3. /\ \A d \in Clients : d # c => handler'[d] = handler[d]
      /\ handler'[c] = "ended"
      /\ \A s \in Sockets : s # socket[c] => connection'[s] = connection[s]
      /\ connection'[socket[c]] = None
  BY <1>1 DEF IInv, TypeOK
<1>4. running' \in BOOLEAN
  BY DEF IInv, TypeOK
<1>5. TypeOK'
  BY <1>2, <1>4 DEF IInv, TypeOK
<1>6. \A d \in Clients : handler'[d] = "hit" => handler[d] = "hit"
  BY <1>3
<1>7. MutexInv' /\ HitOnce'
  BY <1>6 DEF IInv, MutexInv, HitOnce, IsKnown
<1>8. \A s \in Sockets : s # socket[c] => connection[s] # c
  BY <1>1 DEF IInv, DescriptorInv
<1>9. \A d \in Clients : d # c /\ socket[d] \in Sockets /\ connection[socket[d]] = d => socket[d] # socket[c]
  BY <1>1
<1>10. DescriptorInv'
  <2>1. ASSUME NEW s \in Sockets, connection'[s] # None
        PROVE  /\ socket[connection'[s]] = s
               /\ peer[connection'[s]] # None /\ handler'[connection'[s]] # "ended"
    <3>1. s # socket[c] /\ connection'[s] = connection[s] /\ connection[s] # c
      BY <1>3, <1>8, <2>1
    <3>2. connection[s] \in Clients /\ handler'[connection[s]] = handler[connection[s]]
      BY <1>3, <2>1, <3>1 DEF IInv, TypeOK
    <3>. QED BY <2>1, <3>1, <3>2 DEF IInv, DescriptorInv
  <2>2. \A d \in Clients : handler'[d] # None => socket[d] # NoSocket
    BY <1>1, <1>3 DEF IInv, DescriptorInv
  <2>3. accepted # None =>
          /\ socket[accepted] # NoSocket /\ connection'[socket[accepted]] = accepted
          /\ handler'[accepted] = None
    <3> SUFFICES ASSUME accepted # None
                 PROVE  /\ socket[accepted] # NoSocket /\ connection'[socket[accepted]] = accepted
                        /\ handler'[accepted] = None
      OBVIOUS
    <3>1. accepted \in Clients /\ socket[accepted] \in Sockets /\ connection[socket[accepted]] = accepted
      BY DEF IInv, TypeOK, DescriptorInv
    <3>2. socket[accepted] # socket[c]
      BY <1>1, <1>9, <3>1
    <3>. QED BY <1>1, <1>3, <3>1, <3>2 DEF IInv, DescriptorInv
  <2>4. \A i \in DOMAIN clients' : socket'[clients'[i]] # NoSocket
    BY DEF IInv, DescriptorInv
  <2>. QED BY <2>1, <2>2, <2>3, <2>4 DEF DescriptorInv, kernelVars
<1>11. HandlersOwnTheirSockets'
  <2> SUFFICES ASSUME NEW d \in Clients, handler'[d] \notin {None, "ended"}
               PROVE  connection'[socket[d]] = d
    BY DEF HandlersOwnTheirSockets
  <2>1. d # c /\ handler[d] \notin {None, "ended"}
    BY <1>3
  <2>2. socket[d] \in Sockets /\ connection[socket[d]] = d
    BY <2>1 DEF IInv, TypeOK, DescriptorInv, HandlersOwnTheirSockets
  <2>. QED BY <1>3, <1>9, <2>1, <2>2
<1>12. ClientInv' /\ EndsByAnOpenSocketOnly'
  BY FrameClients DEF IInv, EndsByAnOpenSocketOnly
<1>. QED BY <1>5, <1>7, <1>10, <1>11, <1>12 DEF IInv

-----------------------------------------------------------------------------
(* The clients *)

LEMMA ConnectStep ==
    ASSUME IInv, NEW c \in Clients, Connect(c),
           UNCHANGED <<running, broadcastVars, hitVars, acceptVars, handlerVars, connection>>
    PROVE  IInv'
<1> USE DEF Connect, broadcastVars, hitVars, acceptVars, handlerVars
<1>1. /\ peer' \in [Clients -> {None, "open", "gone", "reset"}]
      /\ stage' \in [Clients -> {"off", "first", "second", "trading", "exited"}]
  BY DEF IInv, TypeOK
<1>2. running' \in BOOLEAN
  BY DEF IInv, TypeOK
<1>3. fromClient' \in [Clients -> Seq(Name .. MaxPrices - 1)]
  <2>1. Name \in Name .. MaxPrices - 1
    BY DEF Name
  <2>2. <<Name>> \in Seq(Name .. MaxPrices - 1)
    BY <2>1
  <2>. QED BY <2>2 DEF IInv, TypeOK
<1>4. TypeOK'
  BY <1>1, <1>2, <1>3 DEF IInv, TypeOK
<1>5. MutexInv' /\ HitOnce'
  BY FrameMutex DEF IInv
<1>6. \A d \in Clients : peer[d] # None => peer'[d] # None
  BY DEF IInv, TypeOK, None
<1>7. DescriptorInv'
  <2>1. \A s \in Sockets : connection[s] # None => connection[s] \in Clients
    BY DEF IInv, TypeOK
  <2>. QED BY <1>6, <2>1 DEF IInv, DescriptorInv
<1>8. HandlersOwnTheirSockets'
  BY DEF IInv, HandlersOwnTheirSockets
<1>9. ClientInv'
  <2> SUFFICES ASSUME NEW d \in Clients
               PROVE  (peer'[d] = "open" <=> IsConnected(d)') /\ LastMovementInv(d)'
    BY DEF ClientInv
  <2>1. CASE d = c
    <3>1. stage'[c] = "first" /\ peer'[c] = "open"
      BY DEF IInv, TypeOK
    <3>2. priceHistory'[c] = priceHistory[c] /\ Len(priceHistory[c]) = 0
      BY DEF IInv, ClientInv, LastMovementInv
    <3>. QED BY <2>1, <3>1, <3>2 DEF IsConnected, LastMovementInv
  <2>2. CASE d # c
    <3>1. stage'[d] = stage[d] /\ peer'[d] = peer[d]
      BY <2>2 DEF IInv, TypeOK
    <3>. QED BY <3>1 DEF IInv, ClientInv, IsConnected, LastMovementInv
  <2>. QED BY <2>1, <2>2
<1>10. EndsByAnOpenSocketOnly'
  BY DEF EndsByAnOpenSocketOnly
<1>. QED BY <1>4, <1>5, <1>7, <1>8, <1>9, <1>10 DEF IInv

LEMMA StopStep ==
    ASSUME IInv, NEW c \in Clients, Stop(c),
           UNCHANGED <<running, broadcastVars, hitVars, acceptVars, handlerVars, connection>>
    PROVE  IInv'
<1> USE DEF Stop, broadcastVars, hitVars, acceptVars, handlerVars
<1>1. peer[c] = "open" /\ peer'[c] = "gone" /\ stage'[c] = "exited"
  BY DEF IInv, TypeOK, ClientInv
<1>2. \A d \in Clients : d # c =>
        /\ peer'[d] = peer[d] /\ stage'[d] = stage[d]
        /\ goingSign'[d] = goingSign[d] /\ priceHistory'[d] = priceHistory[d]
  BY DEF IInv, TypeOK
<1>3. running' \in BOOLEAN
  BY DEF IInv, TypeOK
<1>4. /\ toClient' \in [Clients -> Seq(Message)] /\ priceBuffer' \in [Clients -> Seq(Message)]
      /\ priceHistory' \in [Clients -> Seq(Prices)] /\ goingSign' \in [Clients -> {1, -1}]
  BY EmptySeq DEF IInv, TypeOK
<1>5. /\ peer' \in [Clients -> {None, "open", "gone", "reset"}]
      /\ stage' \in [Clients -> {"off", "first", "second", "trading", "exited"}]
  BY DEF IInv, TypeOK
<1>6. TypeOK'
  BY <1>3, <1>4, <1>5 DEF IInv, TypeOK
<1>7. MutexInv' /\ HitOnce'
  BY FrameMutex DEF IInv
<1>8. DescriptorInv'
  <2>1. \A s \in Sockets : connection[s] # None => connection[s] \in Clients
    BY DEF IInv, TypeOK
  <2>2. \A d \in Clients : peer[d] # None => peer'[d] # None
    BY <1>1, <1>2 DEF None
  <2>. QED BY <2>1, <2>2 DEF IInv, DescriptorInv
<1>9. HandlersOwnTheirSockets'
  BY DEF IInv, HandlersOwnTheirSockets
<1>10. ClientInv'
  BY <1>1, <1>2 DEF IInv, ClientInv, IsConnected, LastMovementInv
<1>11. EndsByAnOpenSocketOnly'
  BY <1>1, <1>2 DEF IInv, EndsByAnOpenSocketOnly
<1>. QED BY <1>6, <1>7, <1>8, <1>9, <1>10, <1>11 DEF IInv

\* The price a client takes, and what is left.
LEMMA TakenPrice ==
    ASSUME IInv, NEW c \in Clients, GetNextPrice(c)
    PROVE  /\ Head(toClient[c]) \in Message
           /\ toClient' \in [Clients -> Seq(Message)]
           /\ priceBuffer' \in [Clients -> Seq(Message)]
<1> USE DEF GetNextPrice
<1>1. PICK n \in 1 .. Len(toClient[c]) :
        /\ priceBuffer' = [priceBuffer EXCEPT ![c] = SubSeq(toClient[c], 1, n)]
        /\ toClient' = [toClient EXCEPT ![c] = SubSeq(toClient[c], n + 1, Len(toClient[c]))]
  OBVIOUS
<1>2. toClient[c] \in Seq(Message) /\ toClient[c] # <<>>
  BY DEF IInv, TypeOK
<1>3. Head(toClient[c]) \in Message
  BY <1>2, HeadTailProperties
<1>4. /\ SubSeq(toClient[c], 1, n) \in Seq(Message)
      /\ SubSeq(toClient[c], n + 1, Len(toClient[c])) \in Seq(Message)
  BY <1>2, RestOfSeq
<1>. QED BY <1>1, <1>3, <1>4 DEF IInv, TypeOK

\* The history with a price more: at least two prices and at most three.
LEMMA NextHistory ==
    ASSUME NEW h \in Seq(Prices), Len(h) \in {2, 3}, NEW p \in Prices
    PROVE  LET g == Append(IF Len(h) >= 3 THEN Tail(h) ELSE h, p) IN
             /\ g \in Seq(Prices) /\ Len(g) = 3
             /\ g[3] = p /\ g[2] = h[Len(h)] /\ g[1] = h[Len(h) - 1]
<1> DEFINE k == IF Len(h) >= 3 THEN Tail(h) ELSE h
<1>1. /\ k \in Seq(Prices) /\ Len(k) = 2
      /\ k[2] = h[Len(h)] /\ k[1] = h[Len(h) - 1]
  <2>1. CASE Len(h) = 2
    BY <2>1
  <2>2. CASE Len(h) = 3
    <3>1. h # <<>>
      BY <2>2, EmptySeq
    <3>2. /\ Tail(h) \in Seq(Prices) /\ Len(Tail(h)) = Len(h) - 1
          /\ \A i \in 1 .. Len(Tail(h)) : Tail(h)[i] = h[i + 1]
      BY <3>1, HeadTailProperties
    <3>3. Tail(h)[1] = h[2] /\ Tail(h)[2] = h[3]
      BY <2>2, <3>2
    <3>4. k = Tail(h)
      BY <2>2
    <3>. QED BY <2>2, <3>2, <3>3, <3>4
  <2>. QED BY <2>1, <2>2
<1> HIDE DEF k
<1>2. /\ Append(k, p) \in Seq(Prices) /\ Len(Append(k, p)) = Len(k) + 1
      /\ \A i \in 1 .. Len(k) : Append(k, p)[i] = k[i]
      /\ Append(k, p)[Len(k) + 1] = p
  BY <1>1, AppendProperties
<1>3. Append(k, p)[1] = k[1] /\ Append(k, p)[2] = k[2] /\ Append(k, p)[3] = p
  BY <1>1, <1>2
<1>4. Append(k, p) \in Seq(Prices) /\ Len(Append(k, p)) = 3
  BY <1>1, <1>2
<1>. QED BY <1>1, <1>3, <1>4 DEF k

\* The direction and three prices: what Moves says, and what it leaves.
LEMMA DirectionOf ==
    ASSUME NEW sign \in {1, -1}, NEW x \in Nat, NEW y \in Nat, NEW z \in Nat,
           x # y => (sign = 1 <=> x < y)
    PROVE  /\ sign * (z - y) > 0 =>
                /\ y # z /\ (x # y => (x < y <=> y < z))
                /\ sign = 1 <=> y < z
           /\ ~(sign * (z - y) > 0) => (y # z => (-sign = 1 <=> y < z))
<1>1. CASE sign = 1
  <2>1. sign * (z - y) = z - y
    BY <1>1
  <2>. QED BY <1>1, <2>1
<1>2. CASE sign = -1
  <2>1. sign * (z - y) = y - z
    BY <1>2
  <2>2. sign # 1
    BY <1>2
  <2>3. -sign = 1
    <3>1. sign \in Int /\ sign + 1 = 0
      BY <1>2
    <3>2. \A k \in Int : k + 1 = 0 => -k = 1
      OBVIOUS
    <3>. QED BY <3>1, <3>2
  <2>. QED BY <2>1, <2>2, <2>3
<1>. QED BY <1>1, <1>2

\* Trading keeps the direction of the last movement, and an order is for a
\* movement in it.
LEMMA TradeStep ==
    ASSUME IInv, NEW c \in Clients, NEW price \in Message, Trade(c, price)
    PROVE  /\ priceHistory' \in [Clients -> Seq(Prices)] /\ goingSign' \in [Clients -> {1, -1}]
           /\ fromClient' \in [Clients -> Seq(Name .. MaxPrices - 1)]
           /\ orders' \in [Clients -> Seq(0 .. MaxPrices - 1)]
           /\ \A d \in Clients : d # c =>
                priceHistory'[d] = priceHistory[d] /\ goingSign'[d] = goingSign[d] /\ orders'[d] = orders[d]
           /\ LastMovementInv(c)'
           /\ orders'[c] # orders[c] =>
                LET h == priceHistory'[c] IN
                  h[2] # h[3] /\ (h[1] # h[2] => (h[1] < h[2] <=> h[2] < h[3]))
<1> USE DEF Trade
<1> DEFINE h == priceHistory[c]
           g == Append(IF Len(h) >= 3 THEN Tail(h) ELSE h, price.price)
           n == Len(h)
<1>1. /\ stage[c] = "trading" /\ stage' = stage
      /\ h \in Seq(Prices) /\ n \in {2, 3}
      /\ price.price \in Prices /\ price.id \in 0 .. MaxPrices - 1
      /\ goingSign[c] \in {1, -1}
      /\ h[n - 1] # h[n] => (goingSign[c] = 1 <=> h[n - 1] < h[n])
  BY DEF IInv, TypeOK, ClientInv, LastMovementInv, Message
<1>2. /\ g \in Seq(Prices) /\ Len(g) = 3
      /\ g[3] = price.price /\ g[2] = h[n] /\ g[1] = h[n - 1]
  BY <1>1, NextHistory
<1>3. priceHistory' = [priceHistory EXCEPT ![c] = g] /\ priceHistory'[c] = g
  BY DEF IInv, TypeOK
<1>4. Last(h) = h[n] /\ LastPrice(c) = h[n]
  BY DEF Last, LastPrice
<1> HIDE DEF g, h
<1>5. g[1] \in Nat /\ g[2] \in Nat /\ g[3] \in Nat
  <2>1. \A i \in 1 .. Len(g) : g[i] \in Prices
    BY <1>2, ElementOfSeq
  <2>2. 1 \in 1 .. Len(g) /\ 2 \in 1 .. Len(g) /\ 3 \in 1 .. Len(g)
    BY <1>2
  <2>. QED BY <2>1, <2>2 DEF PriceAssumption
<1>6. /\ Moves(c, price) =>
           /\ g[2] # g[3] /\ (g[1] # g[2] => (g[1] < g[2] <=> g[2] < g[3]))
           /\ goingSign[c] = 1 <=> g[2] < g[3]
      /\ ~Moves(c, price) => (g[2] # g[3] => (-goingSign[c] = 1 <=> g[2] < g[3]))
  <2>1. Moves(c, price) <=> goingSign[c] * (g[3] - g[2]) > 0
    BY <1>2, <1>4 DEF Moves
  <2>2. g[1] # g[2] => (goingSign[c] = 1 <=> g[1] < g[2])
    BY <1>1, <1>2
  <2>. QED BY <1>1, <1>5, <2>1, <2>2, DirectionOf
<1>9. /\ priceHistory' \in [Clients -> Seq(Prices)]
      /\ \A d \in Clients : d # c => priceHistory'[d] = priceHistory[d]
  BY <1>2, <1>3 DEF IInv, TypeOK
<1>7. CASE Moves(c, price)
  <2>1. /\ goingSign' = goingSign
        /\ fromClient' = [fromClient EXCEPT ![c] = Append(fromClient[c], price.id)]
        /\ orders' = [orders EXCEPT ![c] = Append(orders[c], price.id)]
    BY <1>7
  <2>2. fromClient' \in [Clients -> Seq(Name .. MaxPrices - 1)]
    <3>1. price.id \in Name .. MaxPrices - 1
      BY <1>1 DEF Name
    <3>2. Append(fromClient[c], price.id) \in Seq(Name .. MaxPrices - 1)
      BY <3>1, AppendProperties DEF IInv, TypeOK
    <3>. QED BY <2>1, <3>2 DEF IInv, TypeOK
  <2>3. orders' \in [Clients -> Seq(0 .. MaxPrices - 1)]
    <3>1. Append(orders[c], price.id) \in Seq(0 .. MaxPrices - 1)
      BY <1>1, AppendProperties DEF IInv, TypeOK
    <3>. QED BY <2>1, <3>1 DEF IInv, TypeOK
  <2>4. LastMovementInv(c)'
    <3>1. stage'[c] = "trading" /\ goingSign'[c] = goingSign[c]
      BY <1>1, <2>1
    <3>2. Len(g) = 3 /\ Len(g) - 1 = 2
      BY <1>2
    <3>3. g[2] # g[3] => (goingSign'[c] = 1 <=> g[2] < g[3])
      BY <1>6, <1>7, <3>1
    <3>. QED BY <1>3, <3>1, <3>2, <3>3 DEF LastMovementInv
  <2>5. g[2] # g[3] /\ (g[1] # g[2] => (g[1] < g[2] <=> g[2] < g[3]))
    BY <1>6, <1>7
  <2>6. \A d \in Clients : d # c => goingSign'[d] = goingSign[d] /\ orders'[d] = orders[d]
    BY <2>1 DEF IInv, TypeOK
  <2>7. goingSign' \in [Clients -> {1, -1}]
    BY <2>1 DEF IInv, TypeOK
  <2>. QED BY <1>3, <1>9, <2>2, <2>3, <2>4, <2>5, <2>6, <2>7
<1>8. CASE ~Moves(c, price)
  <2>1. /\ goingSign' = [goingSign EXCEPT ![c] = -goingSign[c]]
        /\ fromClient' = fromClient /\ orders' = orders
    BY <1>8 DEF Flipped
  <2>2. goingSign' \in [Clients -> {1, -1}] /\ goingSign'[c] = -goingSign[c]
    BY <1>1, <2>1 DEF IInv, TypeOK
  <2>3. LastMovementInv(c)'
    <3>1. stage'[c] = "trading"
      BY <1>1
    <3>2. Len(g) = 3 /\ Len(g) - 1 = 2
      BY <1>2
    <3>3. g[2] # g[3] => (goingSign'[c] = 1 <=> g[2] < g[3])
      BY <1>6, <1>8, <2>2
    <3>. QED BY <1>3, <3>1, <3>2, <3>3 DEF LastMovementInv
  <2>4. \A d \in Clients : d # c => goingSign'[d] = goingSign[d]
    BY <2>1 DEF IInv, TypeOK
  <2>5. /\ fromClient' \in [Clients -> Seq(Name .. MaxPrices - 1)]
        /\ orders' \in [Clients -> Seq(0 .. MaxPrices - 1)]
    BY <2>1 DEF IInv, TypeOK
  <2>. QED BY <1>9, <2>1, <2>2, <2>3, <2>4, <2>5
<1>. QED BY <1>7, <1>8

LEMMA BurnInStep ==
    ASSUME IInv, NEW c \in Clients, NEW price \in Message,
           FirstPrice(c, price) \/ SecondPrice(c, price)
    PROVE  /\ priceHistory' \in [Clients -> Seq(Prices)] /\ goingSign' \in [Clients -> {1, -1}]
           /\ \A d \in Clients : d # c =>
                /\ priceHistory'[d] = priceHistory[d] /\ goingSign'[d] = goingSign[d]
                /\ stage'[d] = stage[d]
           /\ LastMovementInv(c)' /\ stage'[c] \in {"second", "trading"}
           /\ orders' = orders /\ fromClient' = fromClient
<1> USE DEF FirstPrice, SecondPrice
<1>1. price.price \in Prices /\ priceHistory[c] \in Seq(Prices) /\ stage[c] \in {"first", "second"}
  BY DEF IInv, TypeOK, Message
<1>2. CASE FirstPrice(c, price)
  <2>1. <<price.price>> \in Seq(Prices) /\ Len(<<price.price>>) = 1
    BY <1>1
  <2>2. priceHistory' = [priceHistory EXCEPT ![c] = <<price.price>>] /\ stage'[c] = "second"
    BY <1>2 DEF IInv, TypeOK
  <2>3. priceHistory'[c] = <<price.price>>
    BY <2>2 DEF IInv, TypeOK
  <2>4. LastMovementInv(c)'
    BY <2>1, <2>2, <2>3 DEF LastMovementInv
  <2>5. priceHistory' \in [Clients -> Seq(Prices)] /\ goingSign' \in [Clients -> {1, -1}]
    BY <1>2, <2>1, <2>2 DEF IInv, TypeOK
  <2>. QED BY <1>2, <2>2, <2>4, <2>5 DEF IInv, TypeOK
<1>3. CASE SecondPrice(c, price)
  <2> DEFINE g == Append(priceHistory[c], price.price)
  <2>1. Len(priceHistory[c]) = 1 /\ stage[c] = "second"
    BY <1>3 DEF IInv, ClientInv, LastMovementInv
  <2>2. /\ g \in Seq(Prices) /\ Len(g) = 2
        /\ g[1] = priceHistory[c][1] /\ g[2] = price.price
    <3>1. /\ g \in Seq(Prices) /\ Len(g) = Len(priceHistory[c]) + 1
          /\ \A i \in 1 .. Len(priceHistory[c]) : g[i] = priceHistory[c][i]
          /\ g[Len(priceHistory[c]) + 1] = price.price
      BY <1>1, AppendProperties
    <3>. QED BY <2>1, <3>1
  <2>4. /\ priceHistory' = [priceHistory EXCEPT ![c] = g] /\ priceHistory'[c] = g
        /\ stage'[c] = "trading"
        /\ goingSign'[c] = IF g[2] > g[1] THEN 1 ELSE -1
    BY <1>3, <2>2 DEF IInv, TypeOK
  <2> HIDE DEF g
  <2>3. g[1] \in Nat /\ g[2] \in Nat
    <3>1. \A i \in 1 .. Len(g) : g[i] \in Prices
      BY <2>2, ElementOfSeq
    <3>2. 1 \in 1 .. Len(g) /\ 2 \in 1 .. Len(g)
      BY <2>2
    <3>. QED BY <3>1, <3>2 DEF PriceAssumption
  <2>5. LastMovementInv(c)'
    <3>1. Len(g) = 2 /\ Len(g) - 1 = 1
      BY <2>2
    <3>2. goingSign'[c] = 1 <=> g[1] < g[2]
      BY <2>3, <2>4
    <3>. QED BY <2>4, <3>1, <3>2 DEF LastMovementInv
  <2>6. priceHistory' \in [Clients -> Seq(Prices)] /\ goingSign' \in [Clients -> {1, -1}]
    BY <1>3, <2>2, <2>4 DEF IInv, TypeOK
  <2>. QED BY <1>3, <2>4, <2>5, <2>6 DEF IInv, TypeOK
<1>. QED BY <1>2, <1>3

LEMMA ReceiveAndRespondStep ==
    ASSUME IInv, NEW c \in Clients, ReceiveAndRespond(c),
           UNCHANGED <<running, broadcastVars, hitVars, acceptVars, handlerVars, connection>>
    PROVE  /\ IInv'
           /\ \A d \in Clients : orders'[d] # orders[d] =>
                LET h == priceHistory'[d] IN
                  h[2] # h[3] /\ (h[1] # h[2] => (h[1] < h[2] <=> h[2] < h[3]))
<1> USE DEF ReceiveAndRespond
<1> DEFINE price == Head(toClient[c])
<1>1. /\ price \in Message
      /\ toClient' \in [Clients -> Seq(Message)] /\ priceBuffer' \in [Clients -> Seq(Message)]
  BY TakenPrice
<1>2. CASE FirstPrice(c, price) \/ SecondPrice(c, price)
  <2>1. /\ priceHistory' \in [Clients -> Seq(Prices)] /\ goingSign' \in [Clients -> {1, -1}]
        /\ \A d \in Clients : d # c =>
             /\ priceHistory'[d] = priceHistory[d] /\ goingSign'[d] = goingSign[d]
             /\ stage'[d] = stage[d]
        /\ LastMovementInv(c)' /\ stage'[c] \in {"second", "trading"}
        /\ orders' = orders /\ fromClient' = fromClient
    BY <1>1, <1>2, BurnInStep
  <2>2. stage' \in [Clients -> {"off", "first", "second", "trading", "exited"}] /\ IsConnected(c)
    <3>1. /\ stage[c] \in {"first", "second"}
          /\ \E t \in {"second", "trading"} : stage' = [stage EXCEPT ![c] = t]
      BY <1>2 DEF FirstPrice, SecondPrice
    <3>. QED BY <3>1 DEF IInv, TypeOK, IsConnected
  <2>3. running' \in BOOLEAN
    BY DEF IInv, TypeOK
  <2>4. TypeOK'
    BY <1>1, <2>1, <2>2, <2>3
       DEF IInv, TypeOK, broadcastVars, hitVars, acceptVars, handlerVars
  <2>5. ClientInv'
    <3> SUFFICES ASSUME NEW d \in Clients
                 PROVE  (peer'[d] = "open" <=> IsConnected(d)') /\ LastMovementInv(d)'
      BY DEF ClientInv
    <3>1. CASE d = c
      BY <2>1, <2>2, <3>1 DEF IInv, ClientInv, IsConnected
    <3>2. CASE d # c
      <4>1. /\ peer'[d] = peer[d] /\ stage'[d] = stage[d]
            /\ goingSign'[d] = goingSign[d] /\ priceHistory'[d] = priceHistory[d]
        BY <2>1, <2>2, <3>2
      <4>2. (peer[d] = "open" <=> IsConnected(d)) /\ LastMovementInv(d)
        BY DEF IInv, ClientInv
      <4>. QED BY <4>1, <4>2 DEF IsConnected, LastMovementInv
    <3>. QED BY <3>1, <3>2
  <2>6. MutexInv' /\ HitOnce' /\ DescriptorInv' /\ HandlersOwnTheirSockets' /\ EndsByAnOpenSocketOnly'
    BY FrameMutex, FrameSockets, FrameEnds DEF IInv, broadcastVars, handlerVars
  <2>. QED BY <2>1, <2>4, <2>5, <2>6 DEF IInv
<1>3. CASE Trade(c, price)
  <2>1. /\ priceHistory' \in [Clients -> Seq(Prices)] /\ goingSign' \in [Clients -> {1, -1}]
        /\ fromClient' \in [Clients -> Seq(Name .. MaxPrices - 1)]
        /\ orders' \in [Clients -> Seq(0 .. MaxPrices - 1)]
        /\ \A d \in Clients : d # c =>
             priceHistory'[d] = priceHistory[d] /\ goingSign'[d] = goingSign[d] /\ orders'[d] = orders[d]
        /\ LastMovementInv(c)'
        /\ orders'[c] # orders[c] =>
             LET h == priceHistory'[c] IN
               h[2] # h[3] /\ (h[1] # h[2] => (h[1] < h[2] <=> h[2] < h[3]))
    BY <1>1, <1>3, TradeStep
  <2>2. stage' = stage /\ IsConnected(c)
    BY <1>3 DEF Trade, IsConnected
  <2>3. running' \in BOOLEAN
    BY DEF IInv, TypeOK
  <2>4. TypeOK'
    BY <1>1, <2>1, <2>2, <2>3
       DEF IInv, TypeOK, broadcastVars, hitVars, acceptVars, handlerVars
  <2>5. ClientInv'
    <3> SUFFICES ASSUME NEW d \in Clients
                 PROVE  (peer'[d] = "open" <=> IsConnected(d)') /\ LastMovementInv(d)'
      BY DEF ClientInv
    <3>1. CASE d = c
      BY <2>1, <2>2, <3>1 DEF IInv, ClientInv, IsConnected
    <3>2. CASE d # c
      <4>1. /\ peer'[d] = peer[d] /\ stage'[d] = stage[d]
            /\ goingSign'[d] = goingSign[d] /\ priceHistory'[d] = priceHistory[d]
        BY <2>1, <2>2, <3>2
      <4>2. (peer[d] = "open" <=> IsConnected(d)) /\ LastMovementInv(d)
        BY DEF IInv, ClientInv
      <4>. QED BY <4>1, <4>2 DEF IsConnected, LastMovementInv
    <3>. QED BY <3>1, <3>2
  <2>6. MutexInv' /\ HitOnce' /\ DescriptorInv' /\ HandlersOwnTheirSockets' /\ EndsByAnOpenSocketOnly'
    BY FrameMutex, FrameSockets, FrameEnds DEF IInv, broadcastVars, handlerVars
  <2>. QED BY <2>1, <2>4, <2>5, <2>6 DEF IInv
<1>. QED BY <1>2, <1>3

-----------------------------------------------------------------------------
LEMMA HandleStep ==
    ASSUME IInv, NEW c \in Clients, HandleClient(c)
    PROVE  IInv'
BY ReceiveStep, MoveOnStep, AcceptsStep, HitStep, CloseStep DEF HandleClient, Handle

LEMMA StutterStep ==
    ASSUME IInv, UNCHANGED vars
    PROVE  IInv'
<1> USE DEF vars
<1>1. running' \in BOOLEAN
  BY DEF IInv, TypeOK
<1>2. TypeOK'
  BY <1>1 DEF IInv, TypeOK
<1>3. MutexInv' /\ HitOnce' /\ DescriptorInv' /\ HandlersOwnTheirSockets' /\ ClientInv' /\ EndsByAnOpenSocketOnly'
  BY FrameMutex, FrameSockets, FrameClients, FrameEnds
     DEF IInv, hitVars, acceptVars, handlerVars
<1>. QED BY <1>2, <1>3 DEF IInv

LEMMA NextInv == IInv /\ [Next]_vars => IInv'
<1> SUFFICES ASSUME IInv, [Next]_vars PROVE IInv'
  OBVIOUS
<1>1. CASE Broadcast
  BY <1>1, NextPriceStep, StampStep, LockStep, SendPriceStep DEF Broadcast
<1>2. CASE Main
  BY <1>2, RegisterStep, AcceptStep DEF Main
<1>3. ASSUME NEW c \in Clients, HandleClient(c) PROVE IInv'
  BY <1>3, HandleStep
<1>4. ASSUME NEW c \in Clients, Client(c) PROVE IInv'
  BY <1>4, ConnectStep, StopStep, ReceiveAndRespondStep DEF Client
<1>5. CASE UNCHANGED vars
  BY <1>5, StutterStep
<1>. QED BY <1>1, <1>2, <1>3, <1>4, <1>5 DEF Next

\* The invariant of the market (hft_server.cpp and hft_client.cpp) is inductive.
THEOREM MarketInvariant == Spec => []IInv
<1>. QED BY InitInv, NextInv, PTL DEF Spec

\* The variables of server, clients and connections have their types.
THEOREM MarketTypeOK == Spec => []TypeOK
<1>1. IInv => TypeOK
  BY DEF IInv
<1>. QED BY <1>1, MarketInvariant, PTL

\* No price is hit twice, by any number of handlers (lines 103-124).
THEOREM PricesAreHitOnce == Spec => []HitOnce
<1>1. IInv => HitOnce
  BY DEF IInv
<1>. QED BY <1>1, MarketInvariant, PTL

\* A handler works on its own connection, though descriptors are given out
\* again (lines 79, 127 and 167).
THEOREM OwnSockets == Spec => []HandlersOwnTheirSockets
<1>1. IInv => HandlersOwnTheirSockets
  BY DEF IInv
<1>. QED BY <1>1, MarketInvariant, PTL

\* The send of line 54 can end the server only through a socket that is still
\* open, not through an old entry of clients.
THEOREM OldEntriesAreHarmless == Spec => []EndsByAnOpenSocketOnly
<1>1. IInv => EndsByAnOpenSocketOnly
  BY DEF IInv
<1>. QED BY <1>1, MarketInvariant, PTL

\* No order goes against the last movement (hft_client.cpp, lines 78-110).
THEOREM OrdersAreInDirection == Spec => OrdersFollowMovements
<1> DEFINE InDirection ==
      \A c \in Clients : orders'[c] # orders[c] =>
        LET h == priceHistory'[c] IN
          /\ h[2] # h[3]
          /\ h[1] # h[2] => (h[1] < h[2] <=> h[2] < h[3])
<1>1. IInv /\ [Next]_vars => [InDirection]_vars
  <2> SUFFICES ASSUME IInv, [Next]_vars PROVE [InDirection]_vars
    OBVIOUS
  <2>1. ASSUME NEW c \in Clients, Client(c) PROVE InDirection
    <3>1. CASE ReceiveAndRespond(c)
      BY <2>1, <3>1, ReceiveAndRespondStep DEF Client
    <3>2. CASE Connect(c) \/ Stop(c)
      BY <3>2 DEF Connect, Stop
    <3>. QED BY <2>1, <3>1, <3>2 DEF Client
  <2>2. ASSUME orders' = orders PROVE InDirection
    BY <2>2
  <2>3. CASE Broadcast
    BY <2>2, <2>3 DEF Broadcast, SendPrice, clientVars
  <2>4. CASE Main
    BY <2>2, <2>4 DEF Main, clientVars
  <2>5. ASSUME NEW c \in Clients, HandleClient(c) PROVE InDirection
    BY <2>2, <2>5 DEF HandleClient, clientVars
  <2>. QED BY <2>1, <2>3, <2>4, <2>5 DEF Next
<1>. QED BY <1>1, MarketInvariant, PTL DEF Spec, OrdersFollowMovements

-----------------------------------------------------------------------------
(* What is under way to a client.  The streams of prices grow at one end   *)
(* and are received from the other.                                        *)

\* The ids of a stream of prices do not jump, and a price that comes twice is
\* the same both times.
Follows(S) ==
    /\ \A i \in 2 .. Len(S) : S[i].id \in {S[i - 1].id, S[i - 1].id + 1}
    /\ \A i, j \in 1 .. Len(S) : i < j => S[i].id < S[j].id \/ S[i] = S[j]

LEMMA MessageType ==
    ASSUME NEW m \in Message
    PROVE  m.id \in Int /\ m.id >= 0 /\ m.id \in 0 .. MaxPrices - 1 /\ m.price \in Prices
<1>1. m.id \in 0 .. MaxPrices - 1 /\ m.price \in Prices
  BY DEF Message
<1>. QED BY <1>1

LEMMA FollowsAppend ==
    ASSUME NEW S \in Seq(Message), Follows(S), NEW m \in Message,
           S # <<>> => Last(S) = m \/ Last(S).id = m.id - 1
    PROVE  Follows(Append(S, m)) /\ Last(Append(S, m)) = m
<1> DEFINE T == Append(S, m)
           n == Len(S)
<1>1. /\ n \in Nat /\ T \in Seq(Message) /\ Len(T) = n + 1
      /\ \A i \in 1 .. n : T[i] = S[i]
      /\ T[n + 1] = m
  BY AppendProperties, LenProperties
<1>2. S # <<>> <=> n > 0
  BY <1>1, EmptySeq
<1>3. n > 0 => Last(S) = S[n]
  BY DEF Last
<1>4. \A i \in 1 .. n : S[i].id \in Int
  BY ElementOfSeq, MessageType
<1>5. m.id \in Int
  BY MessageType
<1>6. Last(T) = m
  BY <1>1 DEF Last
<1> HIDE DEF T, n
<1>7. ASSUME NEW i \in 2 .. n + 1 PROVE T[i].id \in {T[i - 1].id, T[i - 1].id + 1}
  <2>1. CASE i = n + 1
    <3>1. T[i] = m /\ T[i - 1] = S[n] /\ n > 0 /\ n \in 1 .. n
      BY <1>1, <2>1
    <3>2. S[n] = m \/ S[n].id = m.id - 1
      BY <1>2, <1>3, <3>1
    <3>3. S[n].id \in Int
      BY <1>4, <3>1
    <3>. QED BY <1>5, <3>1, <3>2, <3>3
  <2>2. CASE i # n + 1
    <3>1. i \in 2 .. n /\ i \in 1 .. n /\ i - 1 \in 1 .. n
      BY <1>1, <2>2
    <3>2. T[i] = S[i] /\ T[i - 1] = S[i - 1]
      BY <1>1, <3>1
    <3>3. S[i].id \in {S[i - 1].id, S[i - 1].id + 1}
      BY <3>1 DEF Follows, n
    <3>. QED BY <3>2, <3>3
  <2>. QED BY <2>1, <2>2
<1>8. ASSUME NEW i \in 1 .. n + 1, NEW j \in 1 .. n + 1, i < j
      PROVE  T[i].id < T[j].id \/ T[i] = T[j]
  <2>1. i \in 1 .. n
    BY <1>1, <1>8
  <2>2. CASE j = n + 1
    <3>1. T[j] = m /\ T[i] = S[i] /\ n > 0 /\ n \in 1 .. n
      BY <1>1, <2>1, <2>2
    <3>2. S[n] = m \/ S[n].id = m.id - 1
      BY <1>2, <1>3, <3>1
    <3>3. S[i].id < S[n].id \/ S[i] = S[n]
      BY <1>1, <2>1, <3>1 DEF Follows, n
    <3>4. S[i].id \in Int /\ S[n].id \in Int
      BY <1>4, <2>1, <3>1
    <3>. QED BY <1>5, <3>1, <3>2, <3>3, <3>4
  <2>3. CASE j # n + 1
    <3>1. j \in 1 .. n
      BY <1>1, <2>3
    <3>2. T[i] = S[i] /\ T[j] = S[j]
      BY <1>1, <2>1, <3>1
    <3>3. S[i].id < S[j].id \/ S[i] = S[j]
      BY <1>8, <2>1, <3>1 DEF Follows, n
    <3>. QED BY <3>2, <3>3
  <2>. QED BY <2>2, <2>3
<1>. QED BY <1>1, <1>6, <1>7, <1>8 DEF Follows, T

\* What is behind a part that was received follows on it.
LEMMA FollowsBehind ==
    ASSUME NEW a \in Seq(Message), NEW b \in Seq(Message), b # <<>>, Follows(a \o b)
    PROVE  /\ Follows(b) /\ Last(a \o b) = Last(b) /\ a \o b # <<>>
           /\ a # <<>> => a[1].id < b[1].id \/ a[1] = b[1]
<1> DEFINE n == Len(a)
           k == Len(b)
           S == a \o b
<1>1. /\ n \in Nat /\ k \in Nat /\ k > 0 /\ S \in Seq(Message) /\ Len(S) = n + k
      /\ \A i \in 1 .. n : S[i] = a[i]
      /\ \A i \in 1 .. k : S[n + i] = b[i]
  <2>1. n \in Nat /\ k \in Nat /\ k > 0
    BY LenProperties, EmptySeq
  <2>2. /\ S \in Seq(Message) /\ Len(S) = n + k
        /\ \A i \in 1 .. n + k : S[i] = IF i <= n THEN a[i] ELSE b[i - n]
    BY ConcatProperties
  <2> HIDE DEF n, k, S
  <2>3. \A i \in 1 .. n : S[i] = a[i]
    BY <2>1, <2>2
  <2>4. ASSUME NEW i \in 1 .. k PROVE S[n + i] = b[i]
    <3>1. n + i \in 1 .. n + k /\ ~(n + i <= n) /\ (n + i) - n = i
      BY <2>1
    <3>. QED BY <2>2, <3>1
  <2>. QED BY <2>1, <2>2, <2>3, <2>4
<1>2. Last(S) = S[n + k] /\ Last(b) = b[k] /\ k \in 1 .. k
  BY <1>1 DEF Last
<1>3. S # <<>>
  BY <1>1, EmptySeq
<1>4. a # <<>> <=> n > 0
  BY <1>1, EmptySeq
<1>5. /\ \A i \in 2 .. n + k : S[i].id \in {S[i - 1].id, S[i - 1].id + 1}
      /\ \A i, j \in 1 .. n + k : i < j => S[i].id < S[j].id \/ S[i] = S[j]
  BY <1>1 DEF Follows
<1> HIDE DEF n, k, S
<1>6. ASSUME NEW i \in 2 .. k PROVE b[i].id \in {b[i - 1].id, b[i - 1].id + 1}
  <2>1. n + i \in 2 .. n + k /\ (n + i) - 1 = n + (i - 1) /\ i \in 1 .. k /\ i - 1 \in 1 .. k
    BY <1>1
  <2>2. S[n + i].id \in {S[n + (i - 1)].id, S[n + (i - 1)].id + 1}
    BY <1>5, <2>1
  <2>. QED BY <1>1, <2>1, <2>2
<1>7. ASSUME NEW i \in 1 .. k, NEW j \in 1 .. k, i < j PROVE b[i].id < b[j].id \/ b[i] = b[j]
  <2>1. n + i \in 1 .. n + k /\ n + j \in 1 .. n + k /\ n + i < n + j
    BY <1>1, <1>7
  <2>2. S[n + i].id < S[n + j].id \/ S[n + i] = S[n + j]
    BY <1>5, <2>1
  <2>. QED BY <1>1, <2>2
<1>8. n > 0 => a[1].id < b[1].id \/ a[1] = b[1]
  <2>1. SUFFICES ASSUME n > 0 PROVE a[1].id < b[1].id \/ a[1] = b[1]
    OBVIOUS
  <2>2. 1 \in 1 .. n + k /\ n + 1 \in 1 .. n + k /\ 1 < n + 1 /\ 1 \in 1 .. n /\ 1 \in 1 .. k
    BY <1>1, <2>1
  <2>3. S[1].id < S[n + 1].id \/ S[1] = S[n + 1]
    BY <1>5, <2>2
  <2>. QED BY <1>1, <2>2, <2>3
<1>. QED BY <1>1, <1>2, <1>3, <1>4, <1>6, <1>7, <1>8 DEF Follows, n, k, S

\* A sequence is what is taken from it, and the rest.
LEMMA TakenAndRest ==
    ASSUME NEW T, NEW s \in Seq(T), NEW n \in 1 .. Len(s)
    PROVE  /\ SubSeq(s, 1, n) \o SubSeq(s, n + 1, Len(s)) = s
           /\ SubSeq(s, 1, n) # <<>> /\ SubSeq(s, 1, n)[1] = s[1]
<1>1. Len(s) \in Nat /\ n \in Int /\ n >= 1 /\ n <= Len(s)
  BY LenProperties
<1>2. SubSeq(s, 1, n) \o SubSeq(s, n + 1, Len(s)) = SubSeq(s, 1, Len(s))
  <2>1. 1 \in 1 .. Len(s) + 1 /\ n \in 1 - 1 .. Len(s) /\ Len(s) \in n .. Len(s)
    BY <1>1
  <2>. QED BY <2>1, ConcatAdjacentSubSeq
<1>3. SubSeq(s, 1, Len(s)) = s
  BY SubSeqFull
<1>4. \A i \in 1 .. n : s[i] \in T
  BY <1>1, ElementOfSeq
<1>5. /\ SubSeq(s, 1, n) \in Seq(T)
      /\ Len(SubSeq(s, 1, n)) = n
      /\ SubSeq(s, 1, n)[1] = s[1]
  <2>1. /\ SubSeq(s, 1, n) \in Seq(T)
        /\ Len(SubSeq(s, 1, n)) = IF 1 <= n THEN n - 1 + 1 ELSE 0
        /\ \A i \in 1 .. n - 1 + 1 : SubSeq(s, 1, n)[i] = s[1 + i - 1]
    BY <1>1, <1>4, SubSeqProperties
  <2>2. 1 \in 1 .. n - 1 + 1 /\ 1 + 1 - 1 = 1
    BY <1>1
  <2>. QED BY <1>1, <2>1, <2>2
<1>6. SubSeq(s, 1, n) # <<>>
  BY <1>1, <1>5, EmptySeq
<1>. QED BY <1>2, <1>3, <1>5, <1>6

\* c is connected to the descriptor of an entry, ...
Fed(c) == \E i \in DOMAIN clients : connection[socket[clients[i]]] = c

\* ... which the loop of line 53 has not come to yet.
ToBeSent(c) ==
    \E i \in DOMAIN clients : cursor <= i /\ connection[socket[clients[i]]] = c

\* Where a client is that has left or is not there yet.
PeerInv ==
    \A c \in Clients :
        /\ stage[c] = "off" => peer[c] = None /\ handler[c] = None
        /\ peer[c] # "open" => priceBuffer[c] = <<>> /\ toClient[c] = <<>>
        /\ handler[c] = "close" => peer[c] # "open"

\* The message is the last price that was stamped, but for the next stamp.
MessageInv ==
    broadcaster \in {"lock", "send"} \/ (broadcaster = "sleep" /\ timestamps > 0)
        => message.id = timestamps - 1

\* A client that was sent a price has been sent all from that one on, up to the
\* last, or up to the one before while the last is still to be sent to it.
StreamInv(c) ==
    Stream(c) # <<>> =>
        /\ timestamps > 0 /\ Fed(c) /\ Follows(Stream(c))
        /\ broadcaster = "sleep" => Last(Stream(c)) = message
        /\ broadcaster \in {"stamp", "lock"} => Last(Stream(c)).id = message.id - 1
        /\ broadcaster = "send" =>
             \/ Last(Stream(c)) = message
             \/ Last(Stream(c)).id = message.id - 1 /\ ToBeSent(c)

\* Orders go up to the price received last, and no further.
OrderInv(c) ==
    /\ stage[c] \in {"off", "first"} => priceBuffer[c] = <<>> /\ orders[c] = <<>>
    /\ stage[c] \in {"second", "trading"} =>
         /\ priceBuffer[c] # <<>>
         /\ LastPrice(c) = priceBuffer[c][1].price
         /\ \A i \in DOMAIN orders[c] : orders[c][i] <= priceBuffer[c][1].id
    /\ \A i, j \in DOMAIN orders[c] : i < j => orders[c][i] < orders[c][j]

DeliveryInv ==
    PeerInv /\ MessageInv /\ \A c \in Clients : StreamInv(c) /\ OrderInv(c)

-----------------------------------------------------------------------------
(* The steps                                                               *)

LEMMA StreamTypes ==
    ASSUME IInv, NEW c \in Clients
    PROVE  /\ priceBuffer[c] \in Seq(Message) /\ toClient[c] \in Seq(Message)
           /\ Stream(c) \in Seq(Message)
           /\ orders[c] \in Seq(0 .. MaxPrices - 1)
           /\ clients \in Seq(Clients) /\ DOMAIN clients = 1 .. Len(clients) /\ Len(clients) \in Nat
           /\ \A i \in DOMAIN clients : /\ clients[i] \in Clients
                                        /\ socket[clients[i]] \in Sockets
<1>1. /\ priceBuffer[c] \in Seq(Message) /\ toClient[c] \in Seq(Message)
      /\ orders[c] \in Seq(0 .. MaxPrices - 1) /\ clients \in Seq(Clients)
  BY DEF IInv, TypeOK
<1>2. Stream(c) \in Seq(Message)
  BY <1>1, ConcatProperties DEF Stream
<1>3. DOMAIN clients = 1 .. Len(clients) /\ Len(clients) \in Nat
  BY <1>1, LenProperties
<1>4. ASSUME NEW i \in DOMAIN clients PROVE clients[i] \in Clients /\ socket[clients[i]] \in Sockets
  <2>1. clients[i] \in Clients
    BY <1>1, <1>3, ElementOfSeq
  <2>2. socket[clients[i]] \in Sockets \cup {NoSocket}
    BY <2>1 DEF IInv, TypeOK
  <2>. QED BY <2>1, <2>2 DEF IInv, DescriptorInv
<1>. QED BY <1>1, <1>2, <1>3, <1>4

LEMMA FramePeers ==
    ASSUME PeerInv, UNCHANGED <<stage, peer, handler, priceBuffer, toClient>>
    PROVE  PeerInv'
BY DEF PeerInv

LEMMA FrameStream ==
    ASSUME NEW c \in Clients, StreamInv(c),
           UNCHANGED <<message, broadcaster, cursor, timestamps, clients, socket, connection,
                       priceBuffer, toClient>>
    PROVE  StreamInv(c)'
BY DEF StreamInv, Stream, Fed, ToBeSent, Follows

LEMMA FrameOrders ==
    ASSUME NEW c \in Clients, OrderInv(c), UNCHANGED <<stage, priceHistory, priceBuffer, orders>>
    PROVE  OrderInv(c)'
BY DEF OrderInv, LastPrice, Last

LEMMA DeliveryInit == Init => DeliveryInv
<1> SUFFICES ASSUME Init PROVE DeliveryInv
  OBVIOUS
<1> USE DEF Init, ServerInit, ClientInit
<1>1. PeerInv /\ MessageInv
  BY DEF PeerInv, MessageInv, None
<1>2. ASSUME NEW c \in Clients PROVE StreamInv(c) /\ OrderInv(c)
  <2>1. Stream(c) = <<>>
    BY ConcatEmptySeq, EmptySeq DEF Stream
  <2>. QED BY <2>1 DEF StreamInv, OrderInv
<1>. QED BY <1>1, <1>2 DEF DeliveryInv

\* The price thread alone, between two rounds of sends.
LEMMA PriceThreadStream ==
    ASSUME IInv, DeliveryInv, UNCHANGED clientVars,
           NextPrice \/ Stamp \/ LockClients \/ UnlockClients
    PROVE  DeliveryInv'
<1> USE DEF clientVars, acceptVars, kernelVars, handlerVars
<1>1. /\ PeerInv' /\ \A c \in Clients : OrderInv(c)'
  BY FramePeers, FrameOrders DEF DeliveryInv, NextPrice, Stamp, LockClients, UnlockClients
<1>2. /\ priceId \in Nat /\ timestamps \in Nat
      /\ broadcaster = "stamp" => message.id = timestamps
      /\ broadcaster # "stamp" => priceId = timestamps
      /\ message.id \in Int
  <2>1. message.id \in Int
    BY MessageType DEF IInv, TypeOK, NoMessage
  <2>. QED BY <2>1 DEF IInv, TypeOK, MutexInv
<1>3. MessageInv'
  BY <1>2 DEF NextPrice, Stamp, LockClients, UnlockClients, hitVars, MessageInv, DeliveryInv
<1>4. ASSUME NEW c \in Clients PROVE StreamInv(c)'
  <2>1. /\ Stream(c)' = Stream(c) /\ Fed(c)' = Fed(c) /\ Follows(Stream(c))' = Follows(Stream(c))
        /\ StreamInv(c)
    BY DEF Stream, Fed, Follows, DeliveryInv, NextPrice, Stamp, LockClients, UnlockClients
  <2> SUFFICES ASSUME Stream(c) # <<>> PROVE StreamInv(c)'
    BY <2>1 DEF StreamInv
  <2>2. /\ timestamps > 0 /\ Fed(c) /\ Follows(Stream(c))
        /\ broadcaster = "sleep" => Last(Stream(c)) = message
        /\ broadcaster \in {"stamp", "lock"} => Last(Stream(c)).id = message.id - 1
        /\ broadcaster = "send" =>
             \/ Last(Stream(c)) = message
             \/ Last(Stream(c)).id = message.id - 1 /\ ToBeSent(c)
    BY <2>1 DEF StreamInv
  <2>3. CASE NextPrice
    <3>1. broadcaster = "sleep" /\ broadcaster' = "stamp" /\ timestamps' = timestamps
      BY <2>3 DEF NextPrice, hitVars
    <3>2. message'.id = priceId
      BY <2>3 DEF NextPrice
    <3>3. message.id = timestamps - 1 /\ priceId = timestamps
      BY <1>2, <2>2, <3>1 DEF DeliveryInv, MessageInv
    <3>4. Last(Stream(c)').id = message'.id - 1
      BY <2>1, <2>2, <3>1, <3>2, <3>3
    <3>. QED BY <2>1, <2>2, <3>1, <3>4 DEF StreamInv
  <2>4. CASE Stamp
    <3>1. broadcaster = "stamp" /\ broadcaster' = "lock" /\ message' = message
          /\ timestamps' = message.id + 1
      BY <2>4 DEF Stamp
    <3>2. timestamps' > 0
      BY <1>2, <3>1
    <3>. QED BY <2>1, <2>2, <3>1, <3>2 DEF StreamInv
  <2>5. CASE LockClients
    <3>1. broadcaster = "lock" /\ broadcaster' = "send" /\ message' = message
          /\ timestamps' = timestamps /\ cursor' = 1
      BY <2>5 DEF LockClients, hitVars
    <3>2. ToBeSent(c)'
      <4>1. PICK i \in DOMAIN clients : connection[socket[clients[i]]] = c
        BY <2>2 DEF Fed
      <4>2. 1 <= i
        BY StreamTypes
      <4>. QED BY <2>5, <3>1, <4>1, <4>2 DEF ToBeSent, LockClients
    <3>. QED BY <2>1, <2>2, <3>1, <3>2 DEF StreamInv
  <2>6. CASE UnlockClients
    <3>1. broadcaster = "send" /\ broadcaster' = "sleep" /\ message' = message
          /\ timestamps' = timestamps /\ cursor > Len(clients)
      BY <2>6 DEF UnlockClients, hitVars
    <3>2. ~ToBeSent(c)
      <4>1. /\ DOMAIN clients = 1 .. Len(clients) /\ Len(clients) \in Nat
            /\ cursor \in Int
        BY StreamTypes DEF IInv, TypeOK
      <4>. QED BY <3>1, <4>1 DEF ToBeSent
    <3>. QED BY <2>1, <2>2, <3>1, <3>2 DEF StreamInv
  <2>. QED BY <2>3, <2>4, <2>5, <2>6
<1>. QED BY <1>1, <1>3, <1>4 DEF DeliveryInv

LEMMA AppendBehind ==
    \A a, b \in Seq(Message), m \in Message : Append(a \o b, m) = a \o Append(b, m)
<1> SUFFICES ASSUME NEW a \in Seq(Message), NEW b \in Seq(Message), NEW m \in Message
             PROVE  Append(a \o b, m) = a \o Append(b, m)
  OBVIOUS
<1>1. <<m>> \in Seq(Message) /\ a \o b \in Seq(Message)
  BY ConcatProperties
<1>2. Append(a \o b, m) = (a \o b) \o <<m>> /\ Append(b, m) = b \o <<m>>
  BY <1>1, AppendIsConcat
<1>3. (a \o b) \o <<m>> = a \o (b \o <<m>>)
  BY <1>1, ConcatAssociative
<1>. QED BY <1>2, <1>3

\* An entry is sent the price: whose descriptor it names has the stream, and
\* for another client the entry is none of those that count.
LEMMA SendStream ==
    ASSUME IInv, DeliveryInv, SendPrice
    PROVE  DeliveryInv'
<1> USE DEF SendPrice, SendToEntry, hitVars, acceptVars, handlerVars
<1>1. /\ cursor \in 1 .. Len(clients) /\ cursor' = cursor + 1 /\ cursor \in DOMAIN clients
      /\ cursor \in Int /\ message \in Message
      /\ broadcaster = "send" /\ broadcaster' = "send" /\ message' = message
      /\ timestamps' = timestamps
      /\ clients' = clients /\ socket' = socket /\ connection' = connection
      /\ priceBuffer' = priceBuffer /\ stage' = stage /\ handler' = handler
  BY LenProperties DEF IInv, TypeOK, MutexInv, NextEntry
<1>2. Recipient # None => Recipient \in Clients /\ peer[Recipient] # None
  BY <1>1, RecipientIsOpen
<1>3. \A c \in Clients : /\ peer'[c] = "open" <=> peer[c] = "open"
                         /\ peer[c] = None => peer'[c] = None
  <2>1. peer \in [Clients -> {None, "open", "gone", "reset"}]
    BY DEF IInv, TypeOK
  <2>2. CASE Recipient # None /\ peer[Recipient] # "open"
    <3>1. Recipient \in Clients /\ peer' = [peer EXCEPT ![Recipient] = "reset"]
      BY <1>2, <2>2
    <3>. QED BY <1>2, <2>1, <2>2, <3>1 DEF None
  <2>3. CASE ~(Recipient # None /\ peer[Recipient] # "open")
    BY <2>3
  <2>. QED BY <2>2, <2>3
<1>4. \A c \in Clients : toClient'[c] = IF c = Recipient /\ peer[c] = "open"
                                        THEN Append(toClient[c], message) ELSE toClient[c]
  OBVIOUS
<1>5. PeerInv'
  BY <1>1, <1>3, <1>4 DEF DeliveryInv, PeerInv
<1>6. MessageInv'
  BY <1>1 DEF DeliveryInv, MessageInv
<1>7. \A c \in Clients : OrderInv(c)'
  BY FrameOrders DEF DeliveryInv
<1>8. timestamps > 0
  <2>1. message.id = timestamps - 1 /\ timestamps \in Int
    BY <1>1 DEF DeliveryInv, MessageInv, IInv, TypeOK
  <2>2. message.id \in Int /\ message.id >= 0
    BY <1>1, MessageType
  <2>. QED BY <2>1, <2>2
<1>9. ASSUME NEW c \in Clients PROVE StreamInv(c)'
  <2>1. StreamInv(c) /\ Fed(c)' = Fed(c)
    BY <1>1 DEF DeliveryInv, Fed
  <2>2. CASE c = Recipient /\ peer[c] = "open"
    <3>1. Stream(c)' = Append(Stream(c), message)
      <4>1. toClient'[c] = Append(toClient[c], message) /\ priceBuffer'[c] = priceBuffer[c]
        BY <1>1, <1>4, <2>2
      <4>2. Append(priceBuffer[c] \o toClient[c], message) = priceBuffer[c] \o Append(toClient[c], message)
        <5>1. priceBuffer[c] \in Seq(Message) /\ toClient[c] \in Seq(Message) /\ message \in Message
          BY <1>1, StreamTypes
        <5>. QED BY ONLY <5>1, AppendBehind, Zenon
      <4>. QED BY <4>1, <4>2 DEF Stream
    <3>2. Stream(c) # <<>> =>
            /\ Follows(Stream(c))
            /\ Last(Stream(c)) = message \/ Last(Stream(c)).id = message.id - 1
      BY <1>1, <2>1 DEF StreamInv
    <3>3. Follows(Stream(c))
      <4>1. CASE Stream(c) = <<>>
        <5>1. Len(Stream(c)) = 0
          BY <4>1, EmptySeq
        <5>2. 2 .. Len(Stream(c)) = {} /\ 1 .. Len(Stream(c)) = {}
          BY <5>1
        <5>. QED BY <5>2 DEF Follows
      <4>. QED BY <3>2, <4>1
    <3>4. Follows(Append(Stream(c), message)) /\ Last(Append(Stream(c), message)) = message
      BY <1>1, <3>2, <3>3, StreamTypes, FollowsAppend
    <3>5. Follows(Stream(c))' /\ Last(Stream(c))' = message
      BY <3>1, <3>4 DEF Follows, Last
    <3>6. Fed(c)
      BY <1>1, <2>2 DEF Fed, Recipient
    <3>. QED BY <1>1, <1>8, <2>1, <3>5, <3>6 DEF StreamInv
  <2>3. CASE ~(c = Recipient /\ peer[c] = "open")
    <3>1. toClient'[c] = toClient[c]
      BY <1>4, <2>3
    <3>2. Stream(c)' = Stream(c) /\ Follows(Stream(c))' = Follows(Stream(c))
      BY ONLY <1>1, <3>1 DEF Stream, Follows
    <3> SUFFICES ASSUME Stream(c) # <<>> PROVE StreamInv(c)'
      BY <3>2 DEF StreamInv
    <3>3. peer[c] = "open"
      <4>1. <<>> \o <<>> = <<>>
        BY ConcatEmptySeq, EmptySeq
      <4>. QED BY <4>1 DEF DeliveryInv, PeerInv, Stream
    <3>4. c # Recipient
      BY <2>3, <3>3
    <3>5. ToBeSent(c) => ToBeSent(c)'
      <4>1. SUFFICES ASSUME ToBeSent(c) PROVE ToBeSent(c)'
        OBVIOUS
      <4>2. PICK i \in DOMAIN clients : cursor <= i /\ connection[socket[clients[i]]] = c
        BY <4>1 DEF ToBeSent
      <4>3. i # cursor
        BY <3>4, <4>2 DEF Recipient
      <4>4. i \in Int
        BY StreamTypes
      <4>5. cursor' <= i
        BY <1>1, <4>2, <4>3, <4>4
      <4>. QED BY <1>1, <4>2, <4>5 DEF ToBeSent
    <3>6. /\ timestamps > 0 /\ Fed(c) /\ Follows(Stream(c))
          /\ \/ Last(Stream(c)) = message
             \/ Last(Stream(c)).id = message.id - 1 /\ ToBeSent(c)
      BY <1>1, <2>1 DEF StreamInv
    <3>. QED BY <1>1, <2>1, <3>2, <3>5, <3>6 DEF StreamInv
  <2>. QED BY <2>2, <2>3
<1>. QED BY <1>5, <1>6, <1>7, <1>9 DEF DeliveryInv

\* A step that leaves the price thread and the clients alone disturbs a stream
\* only where an entry loses its client.
LEMMA KeptEntries ==
    ASSUME IInv, NEW c \in Clients, StreamInv(c),
           UNCHANGED <<message, broadcaster, cursor, timestamps, priceBuffer, toClient>>,
           Stream(c) # <<>> =>
             \A i \in DOMAIN clients : connection[socket[clients[i]]] = c =>
               i \in DOMAIN clients' /\ connection'[socket'[clients'[i]]] = c
    PROVE  StreamInv(c)'
<1>1. Stream(c)' = Stream(c) /\ Follows(Stream(c))' = Follows(Stream(c))
  BY DEF Stream, Follows
<1>2. Stream(c) # <<>> => (Fed(c) => Fed(c)') /\ (ToBeSent(c) => ToBeSent(c)')
  BY DEF Fed, ToBeSent
<1>. QED BY <1>1, <1>2 DEF StreamInv

LEMMA MainStream ==
    ASSUME IInv, DeliveryInv, Main
    PROVE  DeliveryInv'
<1> USE DEF Main, Accept, Register, broadcastVars, hitVars, clientVars
<1>1. /\ UNCHANGED <<message, broadcaster, cursor, timestamps, clientVars, peer>>
  BY DEF handlerVars, kernelVars
<1>2. MessageInv' /\ \A c \in Clients : OrderInv(c)'
  BY <1>1, FrameOrders DEF DeliveryInv, MessageInv
<1>3. PeerInv'
  <2>1. CASE handler' = handler
    BY <1>1, <2>1, FramePeers DEF DeliveryInv
  <2>2. CASE Register
    <3>1. /\ accepted \in Clients /\ socket[accepted] \in Sockets
          /\ connection[socket[accepted]] = accepted
      BY <2>2 DEF IInv, TypeOK, DescriptorInv
    <3>2. peer[accepted] # None /\ accepted # None
      BY <2>2, <3>1 DEF IInv, DescriptorInv
    <3>3. /\ handler'[accepted] = "name"
          /\ \A d \in Clients : d # accepted => handler'[d] = handler[d]
      BY <2>2, <3>1 DEF IInv, TypeOK
    <3>4. ASSUME NEW d \in Clients
          PROVE  /\ stage'[d] = "off" => peer'[d] = None /\ handler'[d] = None
                 /\ peer'[d] # "open" => priceBuffer'[d] = <<>> /\ toClient'[d] = <<>>
                 /\ handler'[d] = "close" => peer'[d] # "open"
      <4>1. CASE d = accepted
        BY <1>1, <3>2, <3>3, <4>1 DEF DeliveryInv, PeerInv
      <4>2. CASE d # accepted
        BY <1>1, <3>3, <4>2 DEF DeliveryInv, PeerInv
      <4>. QED BY <4>1, <4>2
    <3>. QED BY <3>4 DEF PeerInv
  <2>. QED BY <2>1, <2>2 DEF handlerVars
<1>4. ASSUME NEW c \in Clients PROVE StreamInv(c)'
  <2>1. CASE Register
    <3>1. accepted \in Clients
      BY <2>1 DEF IInv, TypeOK
    <3>2. \A i \in DOMAIN clients : i \in DOMAIN clients' /\ clients'[i] = clients[i]
      <4>1. /\ Append(clients, accepted) \in Seq(Clients)
            /\ Len(Append(clients, accepted)) = Len(clients) + 1
            /\ \A i \in 1 .. Len(clients) : Append(clients, accepted)[i] = clients[i]
        BY <3>1, StreamTypes, AppendProperties
      <4>2. DOMAIN clients = 1 .. Len(clients) /\ Len(clients) \in Nat
        BY StreamTypes
      <4>3. DOMAIN clients' = 1 .. Len(clients) + 1 /\ clients' = Append(clients, accepted)
        BY <2>1, <4>1, LenProperties
      <4>. QED BY ONLY <4>1, <4>2, <4>3
    <3>3. socket' = socket /\ connection' = connection
      BY <2>1 DEF kernelVars
    <3>. QED BY <1>1, <3>2, <3>3, KeptEntries DEF DeliveryInv
  <2>2. ASSUME NEW d \in Clients, Accept(d) PROVE StreamInv(c)'
    <3>1. PICK s \in Sockets : /\ connection[s] = None
                               /\ socket' = [socket EXCEPT ![d] = s]
                               /\ connection' = [connection EXCEPT ![s] = d]
      BY <2>2 DEF IsLowestFree
    <3>2. ASSUME NEW i \in DOMAIN clients, connection[socket[clients[i]]] = c
          PROVE  i \in DOMAIN clients' /\ connection'[socket'[clients'[i]]] = c
      <4>1. clients[i] # d /\ clients[i] \in Clients /\ socket[clients[i]] \in Sockets
        BY <2>2, StreamTypes, SocketsType
      <4>2. socket'[clients[i]] = socket[clients[i]] /\ clients' = clients
        BY <2>2, <3>1, <4>1 DEF IInv, TypeOK
      <4>3. socket[clients[i]] # s
        BY ONLY <3>1, <3>2, PriceAssumption
      <4>4. connection'[socket[clients[i]]] = c
        BY <3>1, <3>2, <4>1, <4>3 DEF IInv, TypeOK
      <4>. QED BY <4>2, <4>4
    <3>. QED BY <1>1, <3>2, KeptEntries DEF DeliveryInv
  <2>. QED BY <2>1, <2>2
<1>. QED BY <1>2, <1>3, <1>4 DEF DeliveryInv

\* A handler closes the connection of a client that has left; other entries
\* with that descriptor fed no one else.
LEMMA HandlerStream ==
    ASSUME IInv, DeliveryInv, NEW c \in Clients, HandleClient(c)
    PROVE  DeliveryInv'
<1> USE DEF HandleClient, Handle, ReceiveName, ReceiveOrder, Disconnected, Ignore, Accepts, Hit,
            Close, broadcastVars, hitVars, acceptVars, clientVars
<1>1. /\ UNCHANGED <<message, broadcaster, cursor, timestamps, clients, socket, peer, clientVars>>
  BY DEF kernelVars
<1>2. MessageInv' /\ \A d \in Clients : OrderInv(d)'
  BY <1>1, FrameOrders DEF DeliveryInv, MessageInv
<1>3. /\ handler[c] # None
      /\ \A d \in Clients : d # c => handler'[d] = handler[d]
      /\ handler'[c] = "close" => peer[c] # "open"
  BY DEF IInv, TypeOK, None, AfterClose
<1>4. PeerInv'
  BY <1>1, <1>3 DEF DeliveryInv, PeerInv
<1>5. ASSUME NEW d \in Clients PROVE StreamInv(d)'
  <2>1. CASE connection' = connection
    BY <1>1, <2>1, FrameStream DEF DeliveryInv
  <2>2. CASE Close(c)
    <3>1. /\ connection' = [connection EXCEPT ![socket[c]] = None] /\ handler[c] = "close"
          /\ connection[socket[c]] = c
      BY <2>2 DEF IInv, HandlersOwnTheirSockets, None
    <3>2. CASE d = c
      <4>1. priceBuffer[c] = <<>> /\ toClient[c] = <<>>
        BY <3>1 DEF DeliveryInv, PeerInv
      <4>2. Stream(c) = <<>>
        BY <4>1, ConcatEmptySeq, EmptySeq DEF Stream
      <4>. QED BY <1>1, <3>2, <4>2, KeptEntries DEF DeliveryInv
    <3>3. CASE d # c
      <4>1. ASSUME NEW i \in DOMAIN clients, connection[socket[clients[i]]] = d
            PROVE  i \in DOMAIN clients' /\ connection'[socket'[clients'[i]]] = d
        <5>1. socket[clients[i]] # socket[c] /\ socket[clients[i]] \in Sockets
          BY <3>1, <3>3, <4>1, StreamTypes
        <5>. QED BY <1>1, <3>1, <4>1, <5>1 DEF IInv, TypeOK
      <4>. QED BY <1>1, <4>1, KeptEntries DEF DeliveryInv
    <3>. QED BY <3>2, <3>3
  <2>. QED BY <2>1, <2>2 DEF kernelVars
<1>. QED BY <1>2, <1>4, <1>5 DEF DeliveryInv

LEMMA ConnectStream ==
    ASSUME IInv, DeliveryInv, NEW c \in Clients, Connect(c) \/ Stop(c),
           UNCHANGED <<running, broadcastVars, hitVars, acceptVars, handlerVars, connection>>
    PROVE  DeliveryInv'
<1> USE DEF Connect, Stop, broadcastVars, hitVars, acceptVars, handlerVars
<1>1. /\ UNCHANGED <<message, broadcaster, cursor, timestamps, clients, socket, connection, handler, orders>>
      /\ \A d \in Clients : d # c =>
           /\ stage'[d] = stage[d] /\ peer'[d] = peer[d] /\ priceHistory'[d] = priceHistory[d]
           /\ priceBuffer'[d] = priceBuffer[d] /\ toClient'[d] = toClient[d]
  BY DEF IInv, TypeOK
<1>2. /\ priceBuffer'[c] = <<>> /\ toClient'[c] = <<>>
      /\ \/ stage[c] = "off" /\ stage'[c] = "first" /\ peer'[c] = "open"
         \/ stage'[c] = "exited" /\ peer'[c] = "gone"
  <2>1. CASE Connect(c)
    <3>1. peer[c] = None
      BY <2>1 DEF DeliveryInv, PeerInv
    <3>2. priceBuffer[c] = <<>> /\ toClient[c] = <<>>
      BY <3>1 DEF DeliveryInv, PeerInv, None
    <3>. QED BY <2>1, <3>2 DEF IInv, TypeOK
  <2>2. CASE Stop(c)
    BY <2>2 DEF IInv, TypeOK
  <2>. QED BY <2>1, <2>2
<1>3. PeerInv'
  <2> SUFFICES ASSUME NEW d \in Clients
               PROVE  /\ stage'[d] = "off" => peer'[d] = None /\ handler'[d] = None
                      /\ peer'[d] # "open" => priceBuffer'[d] = <<>> /\ toClient'[d] = <<>>
                      /\ handler'[d] = "close" => peer'[d] # "open"
    BY DEF PeerInv
  <2>1. CASE d # c
    BY <1>1, <2>1 DEF DeliveryInv, PeerInv
  <2>2. CASE d = c
    BY <1>1, <1>2, <2>2 DEF DeliveryInv, PeerInv, None
  <2>. QED BY <2>1, <2>2
<1>4. MessageInv'
  BY <1>1 DEF DeliveryInv, MessageInv
<1>5. ASSUME NEW d \in Clients PROVE StreamInv(d)' /\ OrderInv(d)'
  <2>1. CASE d # c
    <3>1. Stream(d)' = Stream(d) /\ StreamInv(d) /\ OrderInv(d)
      BY <1>1, <2>1 DEF Stream, DeliveryInv
    <3>2. StreamInv(d)'
      BY <1>1, <3>1 DEF StreamInv, Follows, Fed, ToBeSent, Last
    <3>3. OrderInv(d)'
      BY <1>1, <2>1, <3>1 DEF OrderInv, LastPrice, Last
    <3>. QED BY <3>2, <3>3
  <2>2. CASE d = c
    <3>1. Stream(d)' = <<>>
      BY <1>2, <2>2, ConcatEmptySeq, EmptySeq DEF Stream
    <3>2. StreamInv(d)'
      BY <3>1 DEF StreamInv
    <3>3. OrderInv(d)'
      BY <1>1, <1>2, <2>2 DEF DeliveryInv, OrderInv
    <3>. QED BY <3>2, <3>3
  <2>. QED BY <2>1, <2>2
<1>. QED BY <1>3, <1>4, <1>5 DEF DeliveryInv

\* What recv() leaves of the stream: it starts with the price taken, which is
\* the one of before or a later one.
LEMMA ReceivedStream ==
    ASSUME IInv, DeliveryInv, NEW c \in Clients, GetNextPrice(c)
    PROVE  /\ Stream(c)' = toClient[c] /\ Stream(c) # <<>>
           /\ Follows(toClient[c]) /\ toClient[c] # <<>> /\ Last(Stream(c)) = Last(toClient[c])
           /\ priceBuffer'[c] # <<>> /\ priceBuffer'[c][1] = Head(toClient[c])
           /\ Head(toClient[c]) \in Message
           /\ priceBuffer[c] # <<>> =>
                /\ priceBuffer[c][1] \in Message
                /\ \/ priceBuffer[c][1].id < Head(toClient[c]).id
                   \/ priceBuffer[c][1] = Head(toClient[c])
           /\ \A d \in Clients : d # c =>
                priceBuffer'[d] = priceBuffer[d] /\ toClient'[d] = toClient[d]
<1> DEFINE s == toClient[c]
<1>1. PICK n \in 1 .. Len(s) :
        /\ priceBuffer' = [priceBuffer EXCEPT ![c] = SubSeq(s, 1, n)]
        /\ toClient' = [toClient EXCEPT ![c] = SubSeq(s, n + 1, Len(s))]
  BY DEF GetNextPrice
<1>2. /\ priceBuffer'[c] = SubSeq(s, 1, n) /\ toClient'[c] = SubSeq(s, n + 1, Len(s))
      /\ \A d \in Clients : d # c =>
           priceBuffer'[d] = priceBuffer[d] /\ toClient'[d] = toClient[d]
  BY <1>1 DEF IInv, TypeOK
<1>3. s \in Seq(Message) /\ priceBuffer[c] \in Seq(Message) /\ Len(s) \in Nat
  BY StreamTypes, LenProperties
<1>4. s # <<>> /\ 1 \in 1 .. Len(s)
  <2>1. Len(s) # 0 /\ 1 \in 1 .. Len(s)
    BY <1>3
  <2>. QED BY <2>1, EmptySeq
<1>5. Head(s) = s[1] /\ s[1] \in Message
  BY <1>3, <1>4, ElementOfSeq
<1>6. /\ SubSeq(s, 1, n) \o SubSeq(s, n + 1, Len(s)) = s
      /\ SubSeq(s, 1, n) # <<>> /\ SubSeq(s, 1, n)[1] = s[1]
  BY <1>3, TakenAndRest
<1>7. Stream(c)' = s
  BY <1>2, <1>6 DEF Stream
<1>8. Stream(c) = priceBuffer[c] \o s /\ Stream(c) # <<>>
  BY <1>3, <1>4, ConcatEqualIffEmpty DEF Stream
<1>9. Follows(priceBuffer[c] \o s)
  BY <1>8 DEF DeliveryInv, StreamInv
<1> HIDE DEF s
<1>10. /\ Follows(s) /\ Last(priceBuffer[c] \o s) = Last(s)
       /\ priceBuffer[c] # <<>> => priceBuffer[c][1].id < s[1].id \/ priceBuffer[c][1] = s[1]
  BY <1>3, <1>4, <1>9, FollowsBehind
<1>11. priceBuffer[c] # <<>> => priceBuffer[c][1] \in Message
  <2>1. priceBuffer[c] # <<>> => Len(priceBuffer[c]) \in Nat \ {0}
    BY <1>3, EmptySeq
  <2>2. priceBuffer[c] # <<>> => 1 \in 1 .. Len(priceBuffer[c])
    BY <2>1
  <2>. QED BY <1>3, <2>2, ElementOfSeq
<1>. QED BY <1>2, <1>4, <1>5, <1>6, <1>7, <1>8, <1>10, <1>11 DEF s

\* The order is for a price that is later than any ordered before: the same
\* price again would be no movement.
LEMMA RespondOrder ==
    ASSUME IInv, DeliveryInv, NEW c \in Clients, GetNextPrice(c),
           NEW price, price = Head(toClient[c]),
           FirstPrice(c, price) \/ SecondPrice(c, price) \/ Trade(c, price)
    PROVE  /\ OrderInv(c)' /\ IsConnected(c)' /\ IsConnected(c)
           /\ \A d \in Clients : d # c =>
                stage'[d] = stage[d] /\ priceHistory'[d] = priceHistory[d] /\ orders'[d] = orders[d]
<1> DEFINE Ids == 0 .. MaxPrices - 1
           old == priceBuffer[c][1]
<1>1. /\ priceBuffer'[c] # <<>> /\ priceBuffer'[c][1] = price /\ price \in Message
      /\ priceBuffer[c] # <<>> => old \in Message /\ (old.id < price.id \/ old = price)
  BY ReceivedStream
<1>2. price.id \in Ids /\ price.price \in Prices /\ price.id \in Int /\ price.price \in Int
  <2>1. price.id \in Ids /\ price.price \in Prices /\ price.id \in Int
    BY <1>1, MessageType
  <2>2. Prices \subseteq Nat
    BY PriceAssumption
  <2>3. price.price \in Nat
    BY ONLY <2>1, <2>2
  <2>. QED BY <2>1, <2>3
<1>3. OrderInv(c)
  BY DEF DeliveryInv
<1>4. /\ orders[c] \in Seq(Ids) /\ DOMAIN orders[c] = 1 .. Len(orders[c]) /\ Len(orders[c]) \in Nat
      /\ \A i \in DOMAIN orders[c] : orders[c][i] \in Int
  <2>1. orders[c] \in Seq(Ids) /\ DOMAIN orders[c] = 1 .. Len(orders[c]) /\ Len(orders[c]) \in Nat
    BY StreamTypes, LenProperties
  <2>2. \A i \in DOMAIN orders[c] : orders[c][i] \in Ids
    BY <2>1, ElementOfSeq
  <2>. QED BY <2>1, <2>2
<1>5. /\ stage[c] \in {"first", "second", "trading"}
      /\ stage'[c] \in {"second", "trading"}
      /\ \A d \in Clients : d # c =>
           stage'[d] = stage[d] /\ priceHistory'[d] = priceHistory[d] /\ orders'[d] = orders[d]
  BY DEF FirstPrice, SecondPrice, Trade, IInv, TypeOK
<1>6. LastPrice(c)' = price.price
  <2>1. \E h \in Seq(Prices) : priceHistory'[c] = Append(h, price.price)
    <3>1. CASE FirstPrice(c, price)
      <4>1. priceHistory'[c] = <<price.price>>
        BY <3>1 DEF FirstPrice, IInv, TypeOK
      <4>2. <<price.price>> = Append(<<>>, price.price)
        OBVIOUS
      <4>. QED BY <4>1, <4>2, EmptySeq
    <3>2. CASE SecondPrice(c, price)
      <4>1. priceHistory'[c] = Append(priceHistory[c], price.price) /\ priceHistory[c] \in Seq(Prices)
        BY <3>2 DEF SecondPrice, IInv, TypeOK
      <4>. QED BY <4>1
    <3>3. CASE Trade(c, price)
      <4> DEFINE h == IF Len(priceHistory[c]) >= 3 THEN Tail(priceHistory[c]) ELSE priceHistory[c]
      <4>1. priceHistory'[c] = Append(h, price.price) /\ priceHistory[c] \in Seq(Prices)
        BY <3>3 DEF Trade, IInv, TypeOK
      <4>2. h \in Seq(Prices)
        <5>1. CASE Len(priceHistory[c]) >= 3
          <6>1. priceHistory[c] # <<>>
            BY <5>1, EmptySeq
          <6>. QED BY <4>1, <5>1, <6>1, HeadTailProperties
        <5>. QED BY <4>1, <5>1
      <4>. QED BY <4>1, <4>2
    <3>. QED BY <3>1, <3>2, <3>3
  <2>2. PICK h \in Seq(Prices) : priceHistory'[c] = Append(h, price.price)
    BY <2>1
  <2>3. Len(Append(h, price.price)) = Len(h) + 1 /\ Append(h, price.price)[Len(h) + 1] = price.price
    BY <1>2, AppendProperties
  <2>. QED BY <2>2, <2>3 DEF LastPrice, Last
<1> HIDE DEF Ids, old
<1>7. CASE orders' = orders
  <2>1. \A i \in DOMAIN orders[c] : orders[c][i] <= price.id
    <3>1. CASE stage[c] = "first"
      <4>1. orders[c] = <<>>
        BY <1>3, <3>1 DEF OrderInv
      <4>2. Len(orders[c]) = 0
        BY <4>1, EmptySeq
      <4>. QED BY <1>4, <4>2
    <3>2. CASE stage[c] # "first"
      <4>1. priceBuffer[c] # <<>> /\ \A i \in DOMAIN orders[c] : orders[c][i] <= old.id
        BY <1>3, <1>5, <3>2 DEF OrderInv, old
      <4>2. old.id \in Int /\ (old.id < price.id \/ old = price)
        BY <1>1, <4>1, MessageType
      <4>. QED BY <1>2, <1>4, <4>1, <4>2
    <3>. QED BY <3>1, <3>2
  <2>2. OrderInv(c)'
    BY <1>1, <1>3, <1>5, <1>6, <1>7, <2>1 DEF OrderInv
  <2>. QED BY <1>5, <2>2 DEF IsConnected
<1>8. CASE orders' # orders
  <2>1. /\ Trade(c, price) /\ Moves(c, price) /\ stage[c] = "trading"
        /\ orders'[c] = Append(orders[c], price.id)
    BY <1>8 DEF FirstPrice, SecondPrice, Trade, IInv, TypeOK
  <2>2. /\ priceBuffer[c] # <<>> /\ LastPrice(c) = old.price
        /\ \A i \in DOMAIN orders[c] : orders[c][i] <= old.id
    BY <1>3, <2>1 DEF OrderInv, old
  <2>3. old # price
    <3>1. SUFFICES ASSUME old = price PROVE FALSE
      OBVIOUS
    <3>2. goingSign[c] * (price.price - price.price) > 0 /\ goingSign[c] \in {1, -1}
      BY <2>1, <2>2, <3>1 DEF Moves, IInv, TypeOK
    <3>3. price.price - price.price = 0
      BY <1>2
    <3>. QED BY <3>2, <3>3
  <2>4. old.id < price.id /\ old.id \in Int
    BY <1>1, <2>2, <2>3, MessageType
  <2>5. \A i \in DOMAIN orders[c] : orders[c][i] < price.id
    BY <1>2, <1>4, <2>2, <2>4
  <2>6. /\ DOMAIN orders'[c] = 1 .. Len(orders[c]) + 1
        /\ \A i \in DOMAIN orders[c] : orders'[c][i] = orders[c][i]
        /\ orders'[c][Len(orders[c]) + 1] = price.id
    <3>1. /\ Append(orders[c], price.id) \in Seq(Ids)
          /\ Len(Append(orders[c], price.id)) = Len(orders[c]) + 1
          /\ \A i \in 1 .. Len(orders[c]) : Append(orders[c], price.id)[i] = orders[c][i]
          /\ Append(orders[c], price.id)[Len(orders[c]) + 1] = price.id
      BY <1>2, <1>4, AppendProperties
    <3>2. DOMAIN Append(orders[c], price.id) = 1 .. Len(orders[c]) + 1
      BY <3>1, LenProperties
    <3>. QED BY <1>4, <2>1, <3>1, <3>2
  <2>7. \A i \in DOMAIN orders'[c] : orders'[c][i] <= price.id
    <3> SUFFICES ASSUME NEW i \in DOMAIN orders'[c] PROVE orders'[c][i] <= price.id
      OBVIOUS
    <3>1. i \in DOMAIN orders[c] \/ i = Len(orders[c]) + 1
      BY <1>4, <2>6
    <3>. QED BY <1>2, <1>4, <2>5, <2>6, <3>1
  <2>8. \A i, j \in DOMAIN orders'[c] : i < j => orders'[c][i] < orders'[c][j]
    <3> SUFFICES ASSUME NEW i \in DOMAIN orders'[c], NEW j \in DOMAIN orders'[c], i < j
                 PROVE  orders'[c][i] < orders'[c][j]
      OBVIOUS
    <3>1. i \in DOMAIN orders[c] /\ (j \in DOMAIN orders[c] \/ j = Len(orders[c]) + 1)
      BY <1>4, <2>6
    <3>2. j \in DOMAIN orders[c] => orders[c][i] < orders[c][j]
      BY <1>3, <3>1 DEF OrderInv
    <3>. QED BY <2>5, <2>6, <3>1, <3>2
  <2>9. OrderInv(c)'
    BY <1>1, <1>5, <1>6, <2>7, <2>8 DEF OrderInv
  <2>. QED BY <1>5, <2>9 DEF IsConnected
<1>. QED BY <1>7, <1>8

LEMMA RespondStream ==
    ASSUME IInv, DeliveryInv, NEW c \in Clients, ReceiveAndRespond(c),
           UNCHANGED <<running, broadcastVars, hitVars, acceptVars, handlerVars, connection>>
    PROVE  DeliveryInv'
<1> USE DEF broadcastVars, hitVars, acceptVars, handlerVars
<1>1. /\ GetNextPrice(c) /\ peer' = peer
      /\ \E price : /\ price = Head(toClient[c])
                    /\ FirstPrice(c, price) \/ SecondPrice(c, price) \/ Trade(c, price)
  BY DEF ReceiveAndRespond
<1>2. /\ OrderInv(c)' /\ IsConnected(c)' /\ IsConnected(c)
      /\ \A d \in Clients : d # c =>
           stage'[d] = stage[d] /\ priceHistory'[d] = priceHistory[d] /\ orders'[d] = orders[d]
  BY <1>1, RespondOrder
<1>3. /\ Stream(c)' = toClient[c] /\ Stream(c) # <<>>
      /\ Follows(toClient[c]) /\ toClient[c] # <<>> /\ Last(Stream(c)) = Last(toClient[c])
      /\ \A d \in Clients : d # c =>
           priceBuffer'[d] = priceBuffer[d] /\ toClient'[d] = toClient[d]
  BY <1>1, ReceivedStream
<1>4. MessageInv'
  BY DEF DeliveryInv, MessageInv
<1>5. PeerInv'
  <2>1. peer[c] = "open" /\ stage'[c] # "off"
    BY <1>2 DEF IInv, ClientInv, IsConnected
  <2>2. ASSUME NEW d \in Clients
        PROVE  /\ stage'[d] = "off" => peer'[d] = None /\ handler'[d] = None
               /\ peer'[d] # "open" => priceBuffer'[d] = <<>> /\ toClient'[d] = <<>>
               /\ handler'[d] = "close" => peer'[d] # "open"
    <3>1. CASE d = c
      BY <1>1, <2>1, <3>1 DEF DeliveryInv, PeerInv
    <3>2. CASE d # c
      BY <1>1, <1>2, <1>3, <3>2 DEF DeliveryInv, PeerInv
    <3>. QED BY <3>1, <3>2
  <2>. QED BY <2>2 DEF PeerInv
<1>6. ASSUME NEW d \in Clients PROVE StreamInv(d)' /\ OrderInv(d)'
  <2>0. StreamInv(d) /\ OrderInv(d)
    BY DEF DeliveryInv
  <2>1. CASE d = c
    <3>1. /\ timestamps > 0 /\ Fed(c)
          /\ broadcaster = "sleep" => Last(Stream(c)) = message
          /\ broadcaster \in {"stamp", "lock"} => Last(Stream(c)).id = message.id - 1
          /\ broadcaster = "send" =>
               \/ Last(Stream(c)) = message
               \/ Last(Stream(c)).id = message.id - 1 /\ ToBeSent(c)
      BY <1>3, <2>0, <2>1 DEF StreamInv
    <3>2. /\ Fed(c)' = Fed(c) /\ ToBeSent(c)' = ToBeSent(c)
          /\ Follows(Stream(c))' /\ Last(Stream(c))' = Last(Stream(c))
          /\ UNCHANGED <<timestamps, broadcaster, message>>
      BY <1>3 DEF Fed, ToBeSent, Follows, Last
    <3>. QED BY <1>2, <2>1, <3>1, <3>2 DEF StreamInv
  <2>2. CASE d # c
    <3>1. Stream(d)' = Stream(d)
      BY <1>3, <2>2 DEF Stream
    <3>2. StreamInv(d)'
      BY <2>0, <3>1 DEF StreamInv, Follows, Fed, ToBeSent, Last
    <3>3. OrderInv(d)'
      BY <1>2, <1>3, <2>0, <2>2 DEF OrderInv, LastPrice, Last
    <3>. QED BY <3>2, <3>3
  <2>. QED BY <2>1, <2>2
<1>. QED BY <1>4, <1>5, <1>6 DEF DeliveryInv

-----------------------------------------------------------------------------
(* What is under way to the server.                                        *)

Bytes == Name .. MaxPrices - 1

LEMMA PartOfRest ==
    \A o \in Seq(Bytes) : \A k \in 0 .. Len(o) :
      LET f == SubSeq(o, k + 1, Len(o)) IN
        \A n \in 1 .. Len(f) :
          /\ k + 1 \in DOMAIN o /\ k + n \in DOMAIN o
          /\ SubSeq(f, 1, n) = SubSeq(o, k + 1, k + n)
          /\ SubSeq(f, n + 1, Len(f)) = SubSeq(o, (k + n) + 1, Len(o))
<1> SUFFICES ASSUME NEW o \in Seq(Bytes), NEW k \in 0 .. Len(o),
                    NEW n \in 1 .. Len(SubSeq(o, k + 1, Len(o)))
             PROVE  LET f == SubSeq(o, k + 1, Len(o)) IN
                      /\ k + 1 \in DOMAIN o /\ k + n \in DOMAIN o
                      /\ SubSeq(f, 1, n) = SubSeq(o, k + 1, k + n)
                      /\ SubSeq(f, n + 1, Len(f)) = SubSeq(o, (k + n) + 1, Len(o))
  OBVIOUS
<1> DEFINE f == SubSeq(o, k + 1, Len(o))
           l == Len(o)
<1>1. l \in Nat /\ DOMAIN o = 1 .. l /\ k \in Int /\ k >= 0 /\ k <= l /\ k + 1 \in Int
      /\ \A i \in 1 .. l : o[i] \in Bytes
  BY LenProperties, ElementOfSeq
<1>2. Len(f) = IF k + 1 <= l THEN l - (k + 1) + 1 ELSE 0
  <2>1. \A i \in k + 1 .. l : o[i] \in Bytes
    BY <1>1
  <2>. QED BY <1>1, <2>1, SubSeqProperties
<1> HIDE DEF l
<1>3. /\ k < l /\ Len(f) = l - k /\ n \in Int /\ n >= 1 /\ n <= l - k
      /\ l - (k + 1) + 1 = l - k
  BY <1>1, <1>2
<1>4. k + 1 \in 1 .. l /\ k + n \in 1 .. l /\ l \in 1 .. l
  BY <1>1, <1>3
<1>5. SubSeq(f, 1, n) = SubSeq(o, k + 1, k + n)
  <2>1. 1 \in 1 .. l - (k + 1) + 1 /\ n \in 1 .. l - (k + 1) + 1
    BY <1>1, <1>3
  <2>2. SubSeq(SubSeq(o, k + 1, l), 1, n) = SubSeq(o, (k + 1) + 1 - 1, (k + 1) + n - 1)
    BY <1>4, <2>1, SubSeqOfSubSeq DEF l
  <2>3. (k + 1) + 1 - 1 = k + 1 /\ (k + 1) + n - 1 = k + n
    BY <1>1, <1>3
  <2>. QED BY <2>2, <2>3 DEF l
<1>6. SubSeq(f, n + 1, Len(f)) = SubSeq(o, (k + n) + 1, l)
  <2>1. CASE n < l - k
    <3>1. n + 1 \in 1 .. l - (k + 1) + 1 /\ l - k \in 1 .. l - (k + 1) + 1
      BY <1>1, <1>3, <2>1
    <3>2. SubSeq(SubSeq(o, k + 1, l), n + 1, l - k) = SubSeq(o, (k + 1) + (n + 1) - 1, (k + 1) + (l - k) - 1)
      BY <1>4, <3>1, SubSeqOfSubSeq DEF l
    <3>3. (k + 1) + (n + 1) - 1 = (k + n) + 1 /\ (k + 1) + (l - k) - 1 = l
      BY <1>1, <1>3
    <3>. QED BY <1>3, <3>2, <3>3 DEF l
  <2>2. CASE ~(n < l - k)
    <3>1. Len(f) < n + 1 /\ l < (k + n) + 1 /\ Len(f) \in Int /\ n + 1 \in Int /\ (k + n) + 1 \in Int /\ l \in Int
      BY <1>1, <1>3, <2>2
    <3>. QED BY <3>1, SubSeqEmpty
  <2>. QED BY <2>1, <2>2
<1>. QED BY <1>1, <1>4, <1>5, <1>6 DEF l

LEMMA PartAfterName ==
    \A o \in Seq(Bytes) :
      LET f == <<Name>> \o o IN
        \A n \in 1 .. Len(f) :
          /\ n - 1 \in 0 .. Len(o)
          /\ SubSeq(f, n + 1, Len(f)) = SubSeq(o, (n - 1) + 1, Len(o))
<1> SUFFICES ASSUME NEW o \in Seq(Bytes), NEW n \in 1 .. Len(<<Name>> \o o)
             PROVE  LET f == <<Name>> \o o IN
                      /\ n - 1 \in 0 .. Len(o)
                      /\ SubSeq(f, n + 1, Len(f)) = SubSeq(o, (n - 1) + 1, Len(o))
  OBVIOUS
<1> DEFINE f == <<Name>> \o o
           l == Len(o)
<1>1. <<Name>> \in Seq(Bytes) /\ Len(<<Name>>) = 1
  <2>1. Name \in Bytes
    BY DEF Bytes, Name
  <2>. QED BY <2>1
<1>2. l \in Nat /\ Len(f) = 1 + l
  BY <1>1, ConcatProperties, LenProperties
<1>3. n \in Int /\ n >= 1 /\ n <= 1 + l
  BY <1>2
<1>4. SubSeq(f, n + 1, Len(f)) = SubSeq(o, n, l)
  <2>1. CASE n <= l
    <3>1. n + 1 \in 1 + 1 .. 1 + l /\ 1 + l \in 1 + 1 .. 1 + l
      BY <1>2, <1>3, <2>1
    <3>2. SubSeq(<<Name>> \o o, n + 1, 1 + l) = SubSeq(o, n + 1 - 1, 1 + l - 1)
      BY <1>1, <3>1, SubSeqOfConcat2
    <3>3. n + 1 - 1 = n /\ 1 + l - 1 = l
      BY <1>2, <1>3
    <3>. QED BY <1>2, <3>2, <3>3
  <2>2. CASE ~(n <= l)
    <3>1. Len(f) < n + 1 /\ l < n /\ Len(f) \in Int /\ n + 1 \in Int /\ l \in Int
      BY <1>2, <1>3, <2>2
    <3>. QED BY <1>3, <3>1, SubSeqEmpty
  <2>. QED BY <2>1, <2>2
<1>5. n - 1 \in 0 .. l /\ (n - 1) + 1 = n
  BY <1>2, <1>3
<1>. QED BY <1>4, <1>5

LEMMA AppendBehindName ==
    \A o \in Seq(Bytes), m \in Bytes : Append(<<Name>> \o o, m) = <<Name>> \o Append(o, m)
<1> SUFFICES ASSUME NEW o \in Seq(Bytes), NEW m \in Bytes
             PROVE  Append(<<Name>> \o o, m) = <<Name>> \o Append(o, m)
  OBVIOUS
<1>1. Name \in Bytes
  BY DEF Bytes, Name
<1>2. <<m>> \in Seq(Bytes) /\ <<Name>> \in Seq(Bytes) /\ <<Name>> \o o \in Seq(Bytes)
  BY <1>1, ConcatProperties
<1>3. Append(<<Name>> \o o, m) = (<<Name>> \o o) \o <<m>> /\ Append(o, m) = o \o <<m>>
  BY <1>2, AppendIsConcat
<1>4. (<<Name>> \o o) \o <<m>> = <<Name>> \o (o \o <<m>>)
  BY <1>2, ConcatAssociative
<1>. QED BY <1>3, <1>4

LEMMA PartOfLonger ==
    \A o \in Seq(Bytes) : \A m \in Bytes :
      /\ \A first, last \in DOMAIN o :
           /\ first \in DOMAIN Append(o, m) /\ last \in DOMAIN Append(o, m)
           /\ SubSeq(Append(o, m), first, last) = SubSeq(o, first, last)
      /\ \A k \in 0 .. Len(o) :
           /\ k \in 0 .. Len(Append(o, m))
           /\ Append(SubSeq(o, k + 1, Len(o)), m) = SubSeq(Append(o, m), k + 1, Len(Append(o, m)))
<1> SUFFICES ASSUME NEW o \in Seq(Bytes), NEW m \in Bytes
             PROVE  /\ \A first, last \in DOMAIN o :
                         /\ first \in DOMAIN Append(o, m) /\ last \in DOMAIN Append(o, m)
                         /\ SubSeq(Append(o, m), first, last) = SubSeq(o, first, last)
                    /\ \A k \in 0 .. Len(o) :
                         /\ k \in 0 .. Len(Append(o, m))
                         /\ Append(SubSeq(o, k + 1, Len(o)), m)
                              = SubSeq(Append(o, m), k + 1, Len(Append(o, m)))
  OBVIOUS
<1> DEFINE l == Len(o)
           p == Append(o, m)
<1>1. /\ l \in Nat /\ DOMAIN o = 1 .. l /\ p \in Seq(Bytes) /\ Len(p) = l + 1
      /\ DOMAIN p = 1 .. l + 1 /\ p[l + 1] = m
      /\ \A i \in 1 .. l : o[i] \in Bytes
  <2>1. l \in Nat /\ DOMAIN o = 1 .. l /\ \A i \in 1 .. l : o[i] \in Bytes
    BY LenProperties, ElementOfSeq
  <2>2. p \in Seq(Bytes) /\ Len(p) = l + 1 /\ p[l + 1] = m
    BY AppendProperties
  <2>. QED BY <2>1, <2>2, LenProperties
<1>2. p = o \o <<m>> /\ <<m>> \in Seq(Bytes)
  BY AppendIsConcat
<1> HIDE DEF l, p
<1>3. ASSUME NEW first \in 1 .. l, NEW last \in 1 .. l
      PROVE  SubSeq(p, first, last) = SubSeq(o, first, last)
  BY <1>2, SubSeqOfConcat1 DEF l
<1>4. ASSUME NEW k \in 0 .. l
      PROVE  Append(SubSeq(o, k + 1, l), m) = SubSeq(p, k + 1, l + 1)
  <2>1. k + 1 \in 1 .. l + 1 /\ l + 1 \in k + 1 .. l + 1 /\ l + 1 - 1 = l /\ k \in Int /\ k >= 0 /\ k <= l
    BY <1>1
  <2>2. SubSeq(p, k + 1, l + 1) = SubSeq(p, k + 1, l + 1 - 1) \o <<p[l + 1]>>
    BY <1>1, <2>1, SubSeqRecursiveSecond
  <2>3. SubSeq(p, k + 1, l) = SubSeq(o, k + 1, l)
    <3>1. CASE k < l
      <4>1. k + 1 \in 1 .. l /\ l \in 1 .. l
        BY <1>1, <2>1, <3>1
      <4>. QED BY <1>3, <4>1
    <3>2. CASE ~(k < l)
      <4>1. l < k + 1 /\ l \in Int /\ k + 1 \in Int
        BY <1>1, <2>1, <3>2
      <4>. QED BY <4>1, SubSeqEmpty
    <3>. QED BY <3>1, <3>2
  <2>4. SubSeq(o, k + 1, l) \in Seq(Bytes)
    <3>1. \A i \in k + 1 .. l : o[i] \in Bytes
      BY <1>1, <2>1
    <3>2. k + 1 \in Int /\ l \in Int
      BY <1>1, <2>1
    <3>. QED BY <3>1, <3>2, SubSeqProperties
  <2>5. Append(SubSeq(o, k + 1, l), m) = SubSeq(o, k + 1, l) \o <<m>>
    BY <2>4, AppendIsConcat
  <2>. QED BY <1>1, <2>1, <2>2, <2>3, <2>5
<1>5. /\ 1 .. l \subseteq 1 .. l + 1 /\ 0 .. l \subseteq 0 .. l + 1
  BY <1>1
<1>. QED BY <1>1, <1>3, <1>4, <1>5 DEF l, p

\* An id that is an order of the client, or that some of its orders spell
\* (hft_server.cpp, line 100).
Spells(c, id) ==
    \E first, last \in DOMAIN orders[c] : id = Joined(SubSeq(orders[c], first, last))

\* The server has yet to receive the name and all orders, or the orders from
\* one on; what a handler looks up is spelled by orders it has received.
ReceiveInv(c) ==
    /\ handler[c] \in {None, "name"} /\ stage[c] # "off" => fromClient[c] = <<Name>> \o orders[c]
    /\ handler[c] \notin {None, "name"} =>
         \E k \in 0 .. Len(orders[c]) :
             fromClient[c] = SubSeq(orders[c], k + 1, Len(orders[c]))
    /\ handler[c] \in {"lookup", "hit"} => Spells(c, receivedPriceId[c])

OriginInv == HitsAreOrdered /\ \A c \in Clients : ReceiveInv(c)

LEMMA OrderBytes ==
    ASSUME IInv, NEW c \in Clients
    PROVE  /\ orders[c] \in Seq(Bytes) /\ fromClient[c] \in Seq(Bytes)
           /\ DOMAIN orders[c] = 1 .. Len(orders[c]) /\ Len(orders[c]) \in Nat
<1>1. 0 .. MaxPrices - 1 \subseteq Bytes
  BY DEF Bytes, Name
<1>2. orders[c] \in Seq(0 .. MaxPrices - 1)
  BY DEF IInv, TypeOK
<1>3. orders[c] \in Seq(Bytes)
  BY <1>1, <1>2, SeqMonotonic
<1>. QED BY <1>3, LenProperties DEF IInv, TypeOK, Bytes

LEMMA FrameReceive ==
    ASSUME NEW c \in Clients, ReceiveInv(c),
           stage'[c] = stage[c], handler'[c] = handler[c], fromClient'[c] = fromClient[c],
           orders'[c] = orders[c], receivedPriceId'[c] = receivedPriceId[c]
    PROVE  ReceiveInv(c)'
BY DEF ReceiveInv, Spells

\* A hit stays one of an ordered price when times are added and orders only
\* become more.
LEMMA FrameOrdered ==
    ASSUME IInv, HitsAreOrdered, hits' = hits,
           timestamps' \in Int, timestamps <= timestamps',
           \A c \in Clients : \A id : Spells(c, id) => Spells(c, id)'
    PROVE  HitsAreOrdered'
<1> SUFFICES ASSUME NEW i \in DOMAIN hits
             PROVE  hits[i].id < timestamps' /\ Spells(hits[i].client, hits[i].id)'
  BY DEF HitsAreOrdered, Spells
<1>1. hits[i].id < timestamps /\ Spells(hits[i].client, hits[i].id)
  BY DEF HitsAreOrdered, Spells
<1>2. hits[i].client \in Clients /\ hits[i].id \in Int /\ timestamps \in Int
  <2> DEFINE Hits == [client : Clients, id : 0 .. MaxPrices - 1]
  <2>1. hits \in Seq(Hits)
    BY DEF IInv, TypeOK
  <2>2. \A h \in Hits : h.client \in Clients /\ h.id \in Int
    OBVIOUS
  <2> HIDE DEF Hits
  <2>3. i \in 1 .. Len(hits)
    BY <2>1, LenProperties
  <2>4. hits[i] \in Hits
    BY <2>1, <2>3, ElementOfSeq
  <2>. QED BY <2>2, <2>4 DEF IInv, TypeOK
<1>. QED BY <1>1, <1>2

LEMMA OriginInit == Init => OriginInv
<1> SUFFICES ASSUME Init PROVE OriginInv
  OBVIOUS
<1> USE DEF Init, ServerInit, ClientInit
<1>1. DOMAIN hits = {}
  BY EmptySeq
<1>. QED BY <1>1 DEF OriginInv, HitsAreOrdered, ReceiveInv, None

\* The price thread and the main thread receive nothing.
LEMMA ServerOrigin ==
    ASSUME IInv, DeliveryInv, OriginInv, Broadcast \/ Main
    PROVE  OriginInv'
<1> USE DEF clientVars, handlerVars, kernelVars, acceptVars, hitVars, broadcastVars
<1>1. /\ UNCHANGED <<stage, orders, fromClient, hits, receivedPriceId>>
      /\ timestamps' = timestamps \/ Stamp
  BY DEF Broadcast, Main, NextPrice, Stamp, LockClients, SendPrice, SendToEntry, UnlockClients,
         Register, Accept
<1>2. timestamps' \in Int /\ timestamps <= timestamps'
  <2>1. CASE timestamps' = timestamps
    BY <2>1 DEF IInv, TypeOK
  <2>2. CASE Stamp
    BY <2>2 DEF IInv, TypeOK, MutexInv, Stamp
  <2>. QED BY <1>1, <2>1, <2>2
<1>3. HitsAreOrdered'
  BY <1>1, <1>2, FrameOrdered DEF OriginInv, Spells
<1>4. ASSUME NEW c \in Clients PROVE ReceiveInv(c)'
  <2>1. handler'[c] = handler[c] \/ (handler[c] = None /\ handler'[c] = "name")
    BY DEF Broadcast, Main, NextPrice, Stamp, LockClients, SendPrice, SendToEntry, UnlockClients,
           Register, Accept, IInv, TypeOK, DescriptorInv
  <2>2. CASE handler'[c] = handler[c]
    BY <1>1, <2>2, FrameReceive DEF OriginInv
  <2>3. CASE handler[c] = None /\ handler'[c] = "name"
    BY <1>1, <2>3 DEF OriginInv, ReceiveInv, None
  <2>. QED BY <2>1, <2>2, <2>3
<1>. QED BY <1>3, <1>4 DEF OriginInv

\* What the handler of c receives, looks up and reports is what c has ordered.
LEMMA HandlerOrigin ==
    ASSUME IInv, DeliveryInv, OriginInv, NEW c \in Clients, HandleClient(c)
    PROVE  OriginInv'
<1> USE DEF clientVars
<1>1. /\ UNCHANGED <<stage, orders, timestamps>>
      /\ \A d \in Clients : d # c =>
           /\ handler'[d] = handler[d] /\ fromClient'[d] = fromClient[d]
           /\ receivedPriceId'[d] = receivedPriceId[d]
  BY DEF HandleClient, Handle, ReceiveName, ReceiveOrder, Disconnected, Ignore, Accepts, Hit, Close,
         IInv, TypeOK, kernelVars, hitVars, handlerVars
<1>2. stage[c] # "off" /\ handler[c] # None
  <2>1. handler[c] # None
    BY DEF HandleClient, Handle, ReceiveName, ReceiveOrder, Disconnected, Ignore, Accepts, Hit,
           Close, None
  <2>. QED BY <2>1 DEF DeliveryInv, PeerInv
<1>3. /\ orders[c] \in Seq(Bytes) /\ fromClient[c] \in Seq(Bytes)
      /\ DOMAIN orders[c] = 1 .. Len(orders[c]) /\ Len(orders[c]) \in Nat
  BY OrderBytes
<1>4. ReceiveInv(c)
  BY DEF OriginInv
<1>5. \A d \in Clients : d # c => ReceiveInv(d)'
  BY <1>1, FrameReceive DEF OriginInv
<1>6. hits' = hits => HitsAreOrdered'
  <2>1. timestamps' \in Int /\ timestamps <= timestamps'
    BY <1>1 DEF IInv, TypeOK
  <2>. QED BY <1>1, <2>1, FrameOrdered DEF OriginInv, Spells
<1>7. CASE ReceiveName(c)
  <2>1. PICK n \in 1 .. Len(fromClient[c]) :
          fromClient' = [fromClient EXCEPT ![c] = SubSeq(fromClient[c], n + 1, Len(fromClient[c]))]
    BY <1>7 DEF ReceiveName
  <2>2. /\ handler[c] = "name" /\ handler'[c] = "order" /\ hits' = hits
        /\ fromClient'[c] = SubSeq(fromClient[c], n + 1, Len(fromClient[c]))
    BY <1>7, <2>1 DEF ReceiveName, hitVars, IInv, TypeOK
  <2>3. fromClient[c] = <<Name>> \o orders[c]
    BY <1>2, <1>4, <2>2 DEF ReceiveInv
  <2>4. /\ n - 1 \in 0 .. Len(orders[c])
        /\ fromClient'[c] = SubSeq(orders[c], (n - 1) + 1, Len(orders[c]))
    <3>1. n \in 1 .. Len(<<Name>> \o orders[c])
      BY <2>3
    <3>2. /\ n - 1 \in 0 .. Len(orders[c])
          /\ SubSeq(<<Name>> \o orders[c], n + 1, Len(<<Name>> \o orders[c]))
               = SubSeq(orders[c], (n - 1) + 1, Len(orders[c]))
      BY ONLY <1>3, <3>1, PartAfterName
    <3>. QED BY <2>2, <2>3, <3>2
  <2>5. ReceiveInv(c)'
    BY <1>1, <2>2, <2>4 DEF ReceiveInv, None
  <2>. QED BY <1>5, <1>6, <2>2, <2>5 DEF OriginInv
<1>8. CASE ReceiveOrder(c)
  <2>1. PICK n \in 1 .. Len(fromClient[c]) :
          /\ receivedPriceId' = [receivedPriceId EXCEPT ![c] = Joined(SubSeq(fromClient[c], 1, n))]
          /\ fromClient' = [fromClient EXCEPT ![c] = SubSeq(fromClient[c], n + 1, Len(fromClient[c]))]
    BY <1>8 DEF ReceiveOrder
  <2>2. /\ handler[c] = "order" /\ handler'[c] = "lookup" /\ hits' = hits
        /\ fromClient'[c] = SubSeq(fromClient[c], n + 1, Len(fromClient[c]))
        /\ receivedPriceId'[c] = Joined(SubSeq(fromClient[c], 1, n))
    BY <1>8, <2>1 DEF ReceiveOrder, hitVars, IInv, TypeOK
  <2>3. PICK k \in 0 .. Len(orders[c]) :
          fromClient[c] = SubSeq(orders[c], k + 1, Len(orders[c]))
    BY <1>4, <2>2 DEF ReceiveInv, None
  <2>4. /\ k + 1 \in DOMAIN orders[c] /\ k + n \in DOMAIN orders[c]
        /\ SubSeq(fromClient[c], 1, n) = SubSeq(orders[c], k + 1, k + n)
        /\ SubSeq(fromClient[c], n + 1, Len(fromClient[c]))
             = SubSeq(orders[c], (k + n) + 1, Len(orders[c]))
    BY ONLY <1>3, <2>3, n \in 1 .. Len(fromClient[c]), PartOfRest
  <2>5. Spells(c, receivedPriceId'[c])
    BY <2>2, <2>4 DEF Spells
  <2>6. k + n \in 0 .. Len(orders[c])
    BY <1>3, <2>4
  <2>7. ReceiveInv(c)'
    <3>1. fromClient'[c] = SubSeq(orders'[c], (k + n) + 1, Len(orders'[c]))
      BY <1>1, <2>2, <2>4
    <3>2. k + n \in 0 .. Len(orders'[c])
      BY <1>1, <2>6
    <3>3. Spells(c, receivedPriceId[c])'
      BY <1>1, <2>5 DEF Spells
    <3>. QED BY <2>2, <3>1, <3>2, <3>3 DEF ReceiveInv, None
  <2>. QED BY <1>5, <1>6, <2>2, <2>7 DEF OriginInv
<1>9. CASE Disconnected(c)
  <2>1. /\ handler[c] \in {"name", "order"} /\ handler'[c] = "close" /\ hits' = hits
        /\ fromClient[c] = <<>> /\ fromClient' = fromClient
    BY <1>9 DEF Disconnected, hitVars, kernelVars, IInv, TypeOK
  <2>2. SubSeq(orders[c], Len(orders[c]) + 1, Len(orders[c])) = <<>>
    BY <1>3, SubSeqEmpty
  <2>3. ReceiveInv(c)'
    <3>1. Len(orders[c]) \in 0 .. Len(orders[c])
      BY <1>3
    <3>. QED BY <1>1, <2>1, <2>2, <3>1 DEF ReceiveInv, None
  <2>. QED BY <1>5, <1>6, <2>1, <2>3 DEF OriginInv
<1>10. CASE Ignore(c) \/ Accepts(c) \/ Close(c)
  <2>1. /\ handler[c] \in {"lookup", "close"} /\ handler'[c] \in {"order", "hit", "ended"}
        /\ handler'[c] = "hit" => handler[c] = "lookup" /\ receivedPriceId' = receivedPriceId
        /\ hits' = hits /\ fromClient' = fromClient
    BY <1>10 DEF Ignore, Accepts, Close, AfterClose, hitVars, kernelVars, handlerVars, IInv, TypeOK
  <2>2. ReceiveInv(c)'
    BY <1>1, <1>4, <2>1 DEF ReceiveInv, Spells, None
  <2>. QED BY <1>5, <1>6, <2>1, <2>2 DEF OriginInv
<1>11. CASE Hit(c)
  <2> DEFINE hit == [client |-> c, id |-> receivedPriceId[c]]
             Hits == [client : Clients, id : 0 .. MaxPrices - 1]
  <2>1. /\ handler[c] = "hit" /\ handler'[c] = "order" /\ fromClient' = fromClient
        /\ hits' = Append(hits, hit)
    BY <1>11 DEF Hit, kernelVars, IInv, TypeOK
  <2>2. ReceiveInv(c)'
    BY <1>1, <1>4, <2>1 DEF ReceiveInv, None
  <2>3. receivedPriceId[c] \in 0 .. timestamps - 1 /\ timestamps \in 0 .. MaxPrices
    BY <2>1 DEF IInv, TypeOK, MutexInv, IsKnown
  <2>4. receivedPriceId[c] < timestamps /\ receivedPriceId[c] \in 0 .. MaxPrices - 1
    BY <2>3
  <2>5. Spells(c, receivedPriceId[c])
    BY <1>4, <2>1 DEF ReceiveInv
  <2>6. /\ DOMAIN hits = 1 .. Len(hits) /\ Len(hits) \in Nat /\ DOMAIN hits' = 1 .. Len(hits) + 1
        /\ \A i \in 1 .. Len(hits) : hits'[i] = hits[i]
        /\ hits'[Len(hits) + 1] = hit
    <3>1. hits \in Seq(Hits) /\ hit \in Hits
      BY <2>4 DEF IInv, TypeOK
    <3> HIDE DEF hit, Hits
    <3>2. /\ Append(hits, hit) \in Seq(Hits) /\ Len(Append(hits, hit)) = Len(hits) + 1
          /\ \A i \in 1 .. Len(hits) : Append(hits, hit)[i] = hits[i]
          /\ Append(hits, hit)[Len(hits) + 1] = hit
      BY <3>1, AppendProperties
    <3>. QED BY <2>1, <3>1, <3>2, LenProperties
  <2>7. HitsAreOrdered'
    <3> SUFFICES ASSUME NEW i \in DOMAIN hits'
                 PROVE  hits'[i].id < timestamps' /\ (Spells(hits[i].client, hits[i].id))'
      BY DEF HitsAreOrdered, Spells
    <3>1. i \in DOMAIN hits \/ i = Len(hits) + 1
      BY <2>6
    <3>2. CASE i \in DOMAIN hits
      <4>1. hits'[i] = hits[i]
        BY <2>6, <3>2
      <4>2. hits[i].id < timestamps /\ Spells(hits[i].client, hits[i].id)
        BY <3>2 DEF OriginInv, HitsAreOrdered, Spells
      <4>. QED BY <1>1, <4>1, <4>2 DEF Spells
    <3>3. CASE i = Len(hits) + 1
      <4>1. hits'[i].id = receivedPriceId[c] /\ hits'[i].client = c
        BY <2>6, <3>3
      <4>. QED BY <1>1, <2>4, <2>5, <4>1 DEF Spells
    <3>. QED BY <3>1, <3>2, <3>3
  <2>. QED BY <1>5, <2>2, <2>7 DEF OriginInv
<1>. QED BY <1>7, <1>8, <1>9, <1>10, <1>11 DEF HandleClient, Handle

LEMMA ClientOrigin ==
    ASSUME IInv, DeliveryInv, OriginInv, NEW c \in Clients, Client(c)
    PROVE  OriginInv'
<1> USE DEF Client, hitVars, handlerVars
<1>1. UNCHANGED <<hits, timestamps, handler, receivedPriceId>>
  OBVIOUS
<1>2. /\ orders[c] \in Seq(Bytes) /\ fromClient[c] \in Seq(Bytes)
      /\ DOMAIN orders[c] = 1 .. Len(orders[c]) /\ Len(orders[c]) \in Nat
  BY OrderBytes
<1>3. ReceiveInv(c) /\ timestamps \in Int
  BY DEF OriginInv, IInv, TypeOK
<1>4. CASE Connect(c)
  <2>1. /\ stage[c] = "off" /\ orders' = orders
        /\ fromClient'[c] = <<Name>>
        /\ \A d \in Clients : d # c => stage'[d] = stage[d] /\ fromClient'[d] = fromClient[d]
    BY <1>4 DEF Connect, IInv, TypeOK
  <2>2. handler[c] = None /\ orders[c] = <<>>
    BY <2>1 DEF DeliveryInv, PeerInv, OrderInv
  <2>3. <<Name>> \o <<>> = <<Name>>
    <3>1. <<Name>> \in Seq({Name})
      OBVIOUS
    <3>. QED BY <3>1, ConcatEmptySeq
  <2>4. ReceiveInv(c)'
    BY <1>1, <2>1, <2>2, <2>3 DEF ReceiveInv, None
  <2>5. \A d \in Clients : d # c => ReceiveInv(d)'
    BY <1>1, <2>1, FrameReceive DEF OriginInv
  <2>6. HitsAreOrdered'
    BY <1>1, <1>3, <2>1, FrameOrdered DEF OriginInv, Spells
  <2>. QED BY <2>4, <2>5, <2>6 DEF OriginInv
<1>5. CASE orders' = orders /\ fromClient' = fromClient /\ stage[c] # "off"
           /\ \A d \in Clients : d # c => stage'[d] = stage[d]
  <2>1. ReceiveInv(c)'
    BY <1>1, <1>3, <1>5 DEF ReceiveInv, Spells
  <2>2. \A d \in Clients : d # c => ReceiveInv(d)'
    BY <1>1, <1>5, FrameReceive DEF OriginInv
  <2>3. HitsAreOrdered'
    BY <1>1, <1>3, <1>5, FrameOrdered DEF OriginInv, Spells
  <2>. QED BY <2>1, <2>2, <2>3 DEF OriginInv
<1>6. ASSUME NEW id \in Bytes, stage[c] # "off", stage' = stage,
             orders' = [orders EXCEPT ![c] = Append(orders[c], id)],
             fromClient' = [fromClient EXCEPT ![c] = Append(fromClient[c], id)]
      PROVE  OriginInv'
  <2>1. /\ orders'[c] = Append(orders[c], id) /\ fromClient'[c] = Append(fromClient[c], id)
        /\ \A d \in Clients : d # c => orders'[d] = orders[d] /\ fromClient'[d] = fromClient[d]
    BY <1>6 DEF IInv, TypeOK
  <2>2. /\ \A first, last \in DOMAIN orders[c] :
             /\ first \in DOMAIN orders'[c] /\ last \in DOMAIN orders'[c]
             /\ SubSeq(orders'[c], first, last) = SubSeq(orders[c], first, last)
        /\ \A k \in 0 .. Len(orders[c]) :
             /\ k \in 0 .. Len(orders'[c])
             /\ Append(SubSeq(orders[c], k + 1, Len(orders[c])), id)
                  = SubSeq(orders'[c], k + 1, Len(orders'[c]))
    <3>1. /\ \A first, last \in DOMAIN orders[c] :
               /\ first \in DOMAIN Append(orders[c], id) /\ last \in DOMAIN Append(orders[c], id)
               /\ SubSeq(Append(orders[c], id), first, last) = SubSeq(orders[c], first, last)
          /\ \A k \in 0 .. Len(orders[c]) :
               /\ k \in 0 .. Len(Append(orders[c], id))
               /\ Append(SubSeq(orders[c], k + 1, Len(orders[c])), id)
                    = SubSeq(Append(orders[c], id), k + 1, Len(Append(orders[c], id)))
      BY ONLY <1>2, id \in Bytes, PartOfLonger, Zenon
    <3>. QED BY ONLY <2>1, <3>1
  <2>3. \A d \in Clients : \A x : Spells(d, x) => Spells(d, x)'
    <3> SUFFICES ASSUME NEW d \in Clients, NEW x, Spells(d, x) PROVE Spells(d, x)'
      OBVIOUS
    <3>1. CASE d = c
      <4>1. PICK first \in DOMAIN orders[c], last \in DOMAIN orders[c] :
              x = Joined(SubSeq(orders[c], first, last))
        BY <3>1 DEF Spells
      <4>2. /\ first \in DOMAIN orders'[c] /\ last \in DOMAIN orders'[c]
            /\ x = Joined(SubSeq(orders'[c], first, last))
        BY ONLY <2>2, <4>1, first \in DOMAIN orders[c], last \in DOMAIN orders[c]
      <4>. QED BY ONLY <3>1, <4>2 DEF Spells
    <3>2. CASE d # c
      BY <2>1, <3>2 DEF Spells
    <3>. QED BY <3>1, <3>2
  <2>4. ReceiveInv(c)'
    <3>1. CASE handler[c] \in {None, "name"}
      <4>1. fromClient[c] = <<Name>> \o orders[c]
        BY <1>3, <1>6, <3>1 DEF ReceiveInv
      <4>2. Append(<<Name>> \o orders[c], id) = <<Name>> \o Append(orders[c], id)
        BY ONLY <1>2, id \in Bytes, AppendBehindName, Zenon
      <4>3. fromClient'[c] = <<Name>> \o orders'[c]
        BY <2>1, <4>1, <4>2
      <4>. QED BY <1>1, <3>1, <4>3 DEF ReceiveInv, None
    <3>2. CASE handler[c] \notin {None, "name"}
      <4>1. PICK k \in 0 .. Len(orders[c]) :
              fromClient[c] = SubSeq(orders[c], k + 1, Len(orders[c]))
        BY <1>3, <3>2 DEF ReceiveInv
      <4>2. /\ k \in 0 .. Len(orders'[c])
            /\ fromClient'[c] = SubSeq(orders'[c], k + 1, Len(orders'[c]))
        BY <2>1, <2>2, <4>1
      <4>3. handler[c] \in {"lookup", "hit"} => Spells(c, receivedPriceId[c])'
        BY <1>1, <1>3, <2>3 DEF ReceiveInv
      <4>. QED BY <1>1, <3>2, <4>2, <4>3 DEF ReceiveInv
    <3>. QED BY <3>1, <3>2
  <2>5. \A d \in Clients : d # c => ReceiveInv(d)'
    BY <1>1, <1>6, <2>1, FrameReceive DEF OriginInv
  <2>6. HitsAreOrdered'
    BY <1>1, <1>3, <2>3, FrameOrdered DEF OriginInv
  <2>. QED BY <2>4, <2>5, <2>6 DEF OriginInv
<1>7. CASE Stop(c)
  BY <1>5, <1>7 DEF Stop, IsConnected, IInv, TypeOK
<1>8. CASE ReceiveAndRespond(c)
  <2> DEFINE price == Head(toClient[c])
  <2>1. CASE FirstPrice(c, price) \/ SecondPrice(c, price)
    BY <1>5, <2>1 DEF FirstPrice, SecondPrice, IInv, TypeOK
  <2>2. CASE Trade(c, price)
    <3>1. price.id \in Bytes
      <4>1. price \in Message
        BY <1>8, TakenPrice DEF ReceiveAndRespond
      <4>. QED BY <4>1, MessageType DEF Bytes, Name
    <3>2. stage[c] # "off" /\ stage' = stage
      BY <2>2 DEF Trade
    <3>3. CASE Moves(c, price)
      BY <1>6, <2>2, <3>1, <3>2, <3>3 DEF Trade
    <3>4. CASE ~Moves(c, price)
      BY <1>5, <2>2, <3>2, <3>4 DEF Trade
    <3>. QED BY <3>3, <3>4
  <2>. QED BY <1>8, <2>1, <2>2 DEF ReceiveAndRespond
<1>. QED BY <1>4, <1>7, <1>8

-----------------------------------------------------------------------------
(* The three theorems                                                      *)

LEMMA DeliveryNext == IInv /\ DeliveryInv /\ [Next]_vars => DeliveryInv'
<1> SUFFICES ASSUME IInv, DeliveryInv, [Next]_vars PROVE DeliveryInv'
  OBVIOUS
<1>1. CASE Broadcast
  <2>1. CASE SendPrice
    BY <2>1, SendStream
  <2>2. CASE UNCHANGED clientVars /\ (NextPrice \/ Stamp \/ LockClients \/ UnlockClients)
    BY <2>2, PriceThreadStream
  <2>. QED BY <1>1, <2>1, <2>2 DEF Broadcast
<1>2. CASE Main
  BY <1>2, MainStream
<1>3. ASSUME NEW c \in Clients, HandleClient(c) PROVE DeliveryInv'
  BY <1>3, HandlerStream
<1>4. ASSUME NEW c \in Clients, Client(c) PROVE DeliveryInv'
  BY <1>4, ConnectStream, RespondStream DEF Client
<1>5. CASE UNCHANGED vars
  <2>1. UNCHANGED <<stage, peer, handler, priceBuffer, toClient, message, broadcaster, cursor,
                    timestamps, clients, socket, connection, priceHistory, orders>>
    BY <1>5 DEF vars
  <2>2. MessageInv'
    BY <2>1 DEF DeliveryInv, MessageInv
  <2>3. PeerInv' /\ \A c \in Clients : StreamInv(c)' /\ OrderInv(c)'
    BY <2>1, FramePeers, FrameStream, FrameOrders DEF DeliveryInv
  <2>. QED BY <2>2, <2>3 DEF DeliveryInv
<1>. QED BY <1>1, <1>2, <1>3, <1>4, <1>5 DEF Next

LEMMA OriginNext == IInv /\ DeliveryInv /\ OriginInv /\ [Next]_vars => OriginInv'
<1> SUFFICES ASSUME IInv, DeliveryInv, OriginInv, [Next]_vars PROVE OriginInv'
  OBVIOUS
<1>1. CASE Broadcast \/ Main
  BY <1>1, ServerOrigin
<1>2. ASSUME NEW c \in Clients, HandleClient(c) PROVE OriginInv'
  BY <1>2, HandlerOrigin
<1>3. ASSUME NEW c \in Clients, Client(c) PROVE OriginInv'
  BY <1>3, ClientOrigin
<1>4. CASE UNCHANGED vars
  <2>1. UNCHANGED <<stage, handler, fromClient, orders, receivedPriceId, hits, timestamps>>
    BY <1>4 DEF vars
  <2>2. \A c \in Clients : ReceiveInv(c)'
    BY <2>1, FrameReceive DEF OriginInv
  <2>3. HitsAreOrdered'
    BY <2>1 DEF OriginInv, HitsAreOrdered
  <2>. QED BY <2>2, <2>3 DEF OriginInv
<1>. QED BY <1>1, <1>2, <1>3, <1>4 DEF Next

LEMMA DeliveryInvariant == Spec => []DeliveryInv
<1>. QED BY MarketInvariant, DeliveryInit, DeliveryNext, PTL DEF Spec

\* From its first price on a client is sent every price, in order and up to the
\* last, whatever other entries clients holds (hft_server.cpp, lines 42-57).
THEOREM StreamsMissNothing == Spec => []StreamsAreComplete
<1>1. IInv /\ DeliveryInv => StreamsAreComplete
  <2> SUFFICES ASSUME IInv, DeliveryInv, NEW c \in Clients, Stream(c) # <<>>
               PROVE  /\ \A i \in 2 .. Len(Stream(c)) :
                           Stream(c)[i].id \in {Stream(c)[i - 1].id, Stream(c)[i - 1].id + 1}
                      /\ \/ Last(Stream(c)).id = message.id
                         \/ broadcaster # "sleep" /\ Last(Stream(c)).id = message.id - 1
    BY DEF StreamsAreComplete
  <2>1. StreamInv(c)
    BY DEF DeliveryInv
  <2>2. broadcaster \in {"sleep", "stamp", "lock", "send"}
    BY DEF IInv, TypeOK
  <2>. QED BY <2>1, <2>2 DEF StreamInv, Follows
<1>. QED BY <1>1, MarketInvariant, DeliveryInvariant, PTL

\* No client orders a price twice, though one may be sent to it more than once
\* (hft_client.cpp, lines 70-110).
THEOREM OrdersIncrease == Spec => []NoPriceIsOrderedTwice
<1>1. DeliveryInv => NoPriceIsOrderedTwice
  BY DEF DeliveryInv, OrderInv, NoPriceIsOrderedTwice
<1>. QED BY <1>1, DeliveryInvariant, PTL

\* A hit is of a price that was stamped and of which its client has sent an
\* order, or several that were received as one (hft_server.cpp, lines 88-124).
THEOREM OnlyOrderedPricesAreHit == Spec => []HitsAreOrdered
<1>1. OriginInv => HitsAreOrdered
  BY DEF OriginInv
<1>. QED BY <1>1, MarketInvariant, DeliveryInvariant, OriginInit, OriginNext, PTL DEF Spec

-----------------------------------------------------------------------------
(* The price board                                                         *)

LEMMA BoardInit == Init => Board!Init
BY DEF Init, ServerInit, Board!Init, OpenPrices

\* The stamp of a price, which is its number, publishes it and leaves it open.
LEMMA StampPublishes ==
    ASSUME IInv, HitsAreOrdered, Stamp
    PROVE  Board!Publish
<1>1. timestamps' = timestamps + 1 /\ hits' = hits /\ priceAlreadyHit' = priceAlreadyHit
  BY DEF IInv, MutexInv, Stamp
<1>2. timestamps \in Nat /\ priceAlreadyHit \subseteq 0 .. timestamps - 1
  <2>1. timestamps \in Nat
    BY DEF IInv, TypeOK
  <2>2. priceAlreadyHit \subseteq 0 .. timestamps - 1
    <3>1. priceAlreadyHit = {hits[i].id : i \in DOMAIN hits}
      BY DEF IInv, HitOnce
    <3>2. \A i \in DOMAIN hits : hits[i].id < timestamps
      BY DEF HitsAreOrdered
    <3>3. priceAlreadyHit \subseteq 0 .. MaxPrices - 1
      BY DEF IInv, TypeOK
    <3>. QED BY <2>1, <3>1, <3>2, <3>3
  <2>. QED BY <2>1, <2>2
<1>3. 0 .. timestamps' - 1 = (0 .. timestamps - 1) \cup {timestamps}
  BY <1>1, <1>2
<1>4. timestamps \notin priceAlreadyHit
  BY <1>2
<1>. QED BY <1>1, <1>3, <1>4 DEF Board!Publish, OpenPrices

\* The handler that holds the mutex wins a price that is open for its client.
LEMMA HitWins ==
    ASSUME IInv, NEW c \in Clients, Hit(c)
    PROVE  receivedPriceId[c] \in OpenPrices /\ Board!Win(c, receivedPriceId[c])
<1>1. receivedPriceId[c] \in OpenPrices
  BY DEF IInv, MutexInv, Hit, IsKnown, OpenPrices
<1>2. OpenPrices' = OpenPrices \ {receivedPriceId[c]}
  BY DEF Hit, OpenPrices
<1>. QED BY <1>1, <1>2 DEF Hit, Board!Win

LEMMA BoardStutters ==
    ASSUME UNCHANGED <<timestamps, priceAlreadyHit, hits>>
    PROVE  UNCHANGED Board!board
BY DEF Board!board, OpenPrices

LEMMA BoardNext == IInv /\ HitsAreOrdered /\ [Next]_vars => [Board!Next]_(Board!board)
<1> SUFFICES ASSUME IInv, HitsAreOrdered, [Next]_vars PROVE Board!Next \/ UNCHANGED Board!board
  OBVIOUS
<1>1. CASE Broadcast
  <2>1. CASE Stamp
    BY <2>1, StampPublishes DEF Board!Next
  <2>2. CASE NextPrice \/ LockClients \/ SendPrice \/ UnlockClients
    BY <2>2, BoardStutters
       DEF NextPrice, LockClients, SendPrice, SendToEntry, UnlockClients, hitVars
  <2>. QED BY <1>1, <2>1, <2>2 DEF Broadcast
<1>2. CASE Main
  BY <1>2, BoardStutters DEF Main, Register, Accept, hitVars
<1>3. ASSUME NEW c \in Clients, HandleClient(c)
      PROVE  Board!Next \/ UNCHANGED Board!board
  <2>1. CASE Hit(c)
    BY <2>1, HitWins DEF Board!Next
  <2>2. CASE ReceiveName(c) \/ ReceiveOrder(c) \/ Disconnected(c)
    BY <2>2, BoardStutters DEF ReceiveName, ReceiveOrder, Disconnected, hitVars
  <2>3. CASE Ignore(c) \/ Accepts(c) \/ Close(c)
    BY <2>3, BoardStutters DEF Ignore, Accepts, Close, hitVars
  <2>. QED BY <1>3, <2>1, <2>2, <2>3 DEF HandleClient, Handle
<1>4. ASSUME NEW c \in Clients, Client(c)
      PROVE  Board!Next \/ UNCHANGED Board!board
  BY <1>4, BoardStutters DEF Client, hitVars
<1>5. CASE UNCHANGED vars
  BY <1>5, BoardStutters DEF vars
<1>. QED BY <1>1, <1>2, <1>3, <1>4, <1>5 DEF Next

\* Server and clients implement the price board: every price is published in
\* its turn and won once, by a client that finds it open (lines 48, 103-124).
THEOREM MarketImplementsBoard == Spec => ImplementsPriceBoard
<1>. QED BY BoardInit, BoardNext, MarketInvariant, OnlyOrderedPricesAreHit, PTL
         DEF Spec, Board!Spec, ImplementsPriceBoard
=============================================================================
