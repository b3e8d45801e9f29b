----------------------------- MODULE PriceMarket -----------------------------
(***************************************************************************)
(* Server and clients of phase_2, with a connection for each client that   *)
(* keeps order but not the limits of messages.                             *)
(***************************************************************************)
EXTENDS MomentumClient

CONSTANT MaxUnread \* bound: no new price while a client has this many to read

ASSUME MarketAssumption == MaxUnread \in Nat \ {0}

vars == <<running, priceId, message, broadcaster, cursor, timestamps, priceMutex,
    priceAlreadyHit, hits, clients, socket, accepted, handler, receivedPriceId,
    connection, peer, fromClient, stage, goingSign, priceHistory, priceBuffer,
    orders, toClient>>

Init == ServerInit /\ ClientInit

-----------------------------------------------------------------------------
SendPrice ==
    /\ SendToEntry
    /\ toClient' = [c \in Clients |->
                      IF c = Recipient /\ peer[c] = "open"
                      THEN Append(toClient[c], message) ELSE toClient[c]]
    /\ UNCHANGED <<stage, goingSign, priceHistory, priceBuffer, orders>>

Broadcast ==
    \/ /\ \A c \in Clients : Len(toClient[c]) < MaxUnread
       /\ NextPrice
       /\ UNCHANGED clientVars
    \/ Stamp /\ UNCHANGED clientVars
    \/ LockClients /\ UNCHANGED clientVars
    \/ SendPrice
    \/ UnlockClients /\ UNCHANGED clientVars

Main == (Register \/ \E c \in Clients : Accept(c)) /\ UNCHANGED clientVars

HandleClient(c) == Handle(c) /\ UNCHANGED clientVars

Client(c) ==
    /\ Connect(c) \/ Stop(c) \/ ReceiveAndRespond(c)
    /\ UNCHANGED <<running, broadcastVars, hitVars, acceptVars, handlerVars, connection>>

Next == Broadcast \/ Main \/ \E c \in Clients : HandleClient(c) \/ Client(c)

Spec == Init /\ [][Next]_vars

-----------------------------------------------------------------------------
\* The values of all variables.
TypeOK ==
    /\ running \in BOOLEAN
    /\ priceId \in 0 .. MaxPrices
    /\ message \in Message \cup {NoMessage}
    /\ broadcaster \in {"sleep", "stamp", "lock", "send"}
    /\ cursor \in 1 .. Len(clients) + 1
    /\ timestamps \in 0 .. MaxPrices
    /\ priceMutex \in Clients \cup {None}
    /\ priceAlreadyHit \subseteq 0 .. MaxPrices - 1
    /\ hits \in Seq([client : Clients, id : 0 .. MaxPrices - 1])
    /\ clients \in Seq(Clients) /\ accepted \in Clients \cup {None}
    /\ socket \in [Clients -> Sockets \cup {NoSocket}]
    /\ handler \in [Clients -> {None, "name", "order", "lookup", "hit", "close", "ended"}]
    /\ DOMAIN receivedPriceId = Clients
    /\ connection \in [Sockets -> Clients \cup {None}]
    /\ peer \in [Clients -> {None, "open", "gone", "reset"}]
    /\ fromClient \in [Clients -> Seq(Name .. MaxPrices - 1)]
    /\ stage \in [Clients -> {"off", "first", "second", "trading", "exited"}]
    /\ goingSign \in [Clients -> {1, -1}]
    /\ priceHistory \in [Clients -> Seq(Prices)]
    /\ priceBuffer \in [Clients -> Seq(Message)] /\ toClient \in [Clients -> Seq(Message)]
    /\ orders \in [Clients -> Seq(0 .. MaxPrices - 1)]

\* A price is hit once, though two handlers may look it up at the same time
\* (lines 103-124).
HitOnce ==
    /\ \A i, j \in DOMAIN hits : hits[i].id = hits[j].id => i = j
    /\ priceAlreadyHit = {hits[i].id : i \in DOMAIN hits}

\* A reported hit is for a price that exists and that the client has ordered,
\* or that orders of it spell which were received together (line 100).
HitsAreOrdered ==
    \A i \in DOMAIN hits :
        /\ hits[i].id < timestamps
        /\ LET ids == orders[hits[i].client] IN
             \E first, last \in DOMAIN ids : hits[i].id = Joined(SubSeq(ids, first, last))

\* A handler works on the connection it was started for: no descriptor is
\* closed twice, or read after it was closed and given to another client.
HandlersOwnTheirSockets ==
    \A c \in Clients : handler[c] \notin {None, "ended"} => connection[socket[c]] = c

\* No client orders the same price twice, although through an old entry with
\* the descriptor of its connection it is sent prices more than once.
NoPriceIsOrderedTwice ==
    \A c \in Clients : \A i, j \in DOMAIN orders[c] : i < j => orders[c][i] < orders[c][j]

\* What client c was sent, from the last price it received on.
Stream(c) == priceBuffer[c] \o toClient[c]

\* A client misses no price from its first one on: ids do not jump, and the
\* last one is the last broadcast, whatever entries before it are dead.
StreamsAreComplete ==
    \A c \in Clients : peer[c] = "open" /\ Stream(c) # <<>> =>
        /\ \A i \in 2 .. Len(Stream(c)) :
             Stream(c)[i].id \in {Stream(c)[i - 1].id, Stream(c)[i - 1].id + 1}
        /\ \/ Last(Stream(c)).id = message.id
           \/ broadcaster # "sleep" /\ Last(Stream(c)).id = message.id - 1

\* The server ends only while the handler of a client that has left still has
\* its socket open: entries that are kept after that are harmless (line 54).
EndsByAnOpenSocketOnly ==
    ~running => \E c \in Clients : peer[c] = "reset" /\ handler[c] # "ended"

\* No order goes against the movement before it: the two are in one direction
\* or the price before did not move (hft_client.cpp, lines 84 and 103).
OrdersFollowMovements ==
    [][\A c \in Clients : orders'[c] # orders[c] =>
         LET h == priceHistory'[c] IN
            /\ h[2] # h[3]
            /\ h[1] # h[2] => (h[1] < h[2] <=> h[2] < h[3])]_vars

\* Server and clients together implement the price board: prices appear one by
\* one, and each is won once, by a client that finds it open (lines 48, 103-124).
OpenPrices == (0 .. timestamps - 1) \ priceAlreadyHit

Board == INSTANCE PriceBoard WITH
    Players <- Clients,
    published <- timestamps, open <- OpenPrices, awards <- hits

ImplementsPriceBoard == Board!Spec

-----------------------------------------------------------------------------
(***************************************************************************)
(* The inductive invariant.                                                *)
(***************************************************************************)
\* What is stamped, who holds priceMutex, and what it protects.
MutexInv ==
    /\ broadcaster = "stamp" => message.id = timestamps /\ priceId = timestamps + 1
    /\ broadcaster # "stamp" => priceId = timestamps
    /\ broadcaster # "sleep" => message \in Message
    /\ \A c \in Clients : handler[c] = "hit" =>
         /\ priceMutex = c
         /\ IsKnown(receivedPriceId[c]) /\ receivedPriceId[c] \notin priceAlreadyHit

\* Descriptors in use and the clients they are connected to.
DescriptorInv ==
    /\ \A s \in Sockets : connection[s] # None =>
         /\ socket[connection[s]] = s
         /\ peer[connection[s]] # None /\ handler[connection[s]] # "ended"
    /\ \A c \in Clients : handler[c] # None => socket[c] # NoSocket
    /\ accepted # None =>
         /\ socket[accepted] # NoSocket /\ connection[socket[accepted]] = accepted
         /\ handler[accepted] = None
    /\ \A i \in DOMAIN clients : socket[clients[i]] # NoSocket

\* What a client knows of the last movement.
LastMovementInv(c) ==
    LET h == priceHistory[c]  n == Len(priceHistory[c]) IN
    /\ stage[c] \in {"off", "first"} => n = 0
    /\ stage[c] = "second" => n = 1
    /\ stage[c] = "trading" =>
         /\ n \in {2, 3}
         /\ h[n - 1] # h[n] => (goingSign[c] = 1 <=> h[n - 1] < h[n])

ClientInv ==
    \A c \in Clients : (peer[c] = "open" <=> IsConnected(c)) /\ LastMovementInv(c)

\* The conjunction is inductive: mutual exclusion of the handlers (lines 103-124),
\* descriptors (79, 127, 167) and the client's direction (hft_client.cpp, 78-110).
IInv ==
    /\ TypeOK /\ MutexInv /\ DescriptorInv /\ ClientInv
    /\ HitOnce /\ HandlersOwnTheirSockets /\ EndsByAnOpenSocketOnly
=============================================================================
