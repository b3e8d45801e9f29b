----------------------------- MODULE PriceServer -----------------------------
(***************************************************************************)
(* The server of phase_2 (hft_server.cpp).  The price thread sends a price *)
(* to every entry of clients, one send after the other; the main thread    *)
(* accepts connections; each connection has a handler thread that receives *)
(* the client's name and then its orders.                                  *)
(*                                                                         *)
(* An entry of clients is never removed.  When its handler has closed the  *)
(* socket, the entry keeps the descriptor, which the kernel gives to the   *)
(* next connection.  Each client connects at most once: a program that is  *)
(* started again is another client.                                        *)
(*                                                                         *)
(* A time stamp is only looked for: prices 0 .. timestamps - 1 have one.   *)
(***************************************************************************)
EXTENDS Integers, SequencesExt

CONSTANTS
    Clients,
    Prices,
    Base,      \* of the digits of an id: 10 in the code
    MaxPrices  \* bound: the price thread stops after this many

None == "none"

ASSUME PriceAssumption ==
    /\ IsFiniteSet(Clients) /\ None \notin Clients
    /\ Prices # {} /\ Prices \subseteq Nat \ {0}
    /\ Base \in Nat \ {0, 1} /\ MaxPrices \in Nat

VARIABLES
    running,         \* FALSE once a signal has ended the process
    priceId,
    message,         \* local to the price thread: the price to send
    broadcaster,     \* what the price thread does next
    cursor,          \* the entry it sends to next
    timestamps,      \* priceTimestamps
    priceMutex,      \* the client whose handler holds it, or None
    priceAlreadyHit,
    hits,            \* the hits reported so far
    clients,         \* whose entry is where
    socket,          \* socket[c]: the descriptor in c's entry
    accepted,        \* the client that main has accepted and not entered yet
    handler,         \* handler[c]: what c's handler does next
    receivedPriceId, \* receivedPriceId[c]: local to c's handler; 0 out of scope
    connection,      \* connection[s]: the client connected to descriptor s
    peer,            \* peer[c]: the client's end of its connection
    fromClient       \* fromClient[c]: name and orders not received yet

broadcastVars == <<priceId, message, broadcaster, cursor>>
hitVars == <<timestamps, priceMutex, priceAlreadyHit, hits>>
acceptVars == <<clients, socket, accepted>>
handlerVars == <<handler, receivedPriceId>>
kernelVars == <<connection, peer, fromClient>>
serverVars == <<running, priceId, message, broadcaster, cursor, timestamps,
    priceMutex, priceAlreadyHit, hits, clients, socket, accepted, handler,
    receivedPriceId, connection, peer, fromClient>>

Name == -1 \* of the bytes of a connection, what is no order
NoSocket == 0
Sockets == 1 .. Cardinality(Clients)
Message == [id : 0 .. MaxPrices - 1, price : Prices]
NoMessage == [id |-> 0, price |-> 0]

ServerInit ==
    /\ running = TRUE
    /\ priceId = 0 /\ message = NoMessage
    /\ broadcaster = "sleep" /\ cursor = 1
    /\ timestamps = 0
    /\ priceMutex = None
    /\ priceAlreadyHit = {} /\ hits = <<>>
    /\ clients = <<>> /\ accepted = None
    /\ socket = [c \in Clients |-> NoSocket]
    /\ handler = [c \in Clients |-> None]
    /\ receivedPriceId = [c \in Clients |-> 0]
    /\ connection = [s \in Sockets |-> None]
    /\ peer = [c \in Clients |-> None]
    /\ fromClient = [c \in Clients |-> <<>>]

-----------------------------------------------------------------------------
(* broadcastPrices *)

NextPrice ==
    /\ running /\ broadcaster = "sleep" /\ priceId < MaxPrices
    /\ \E price \in Prices : message' = [id |-> priceId, price |-> price]
    /\ priceId' = priceId + 1
    /\ broadcaster' = "stamp"
    /\ UNCHANGED <<running, cursor, hitVars, acceptVars, handlerVars, kernelVars>>

PriceMutexIgnored == TRUE

PriceMutexFree == priceMutex = None

Stamp ==
    /\ running /\ broadcaster = "stamp" /\ PriceMutexFree
    /\ timestamps' = message.id + 1
    /\ broadcaster' = "lock"
    /\ UNCHANGED <<running, priceId, message, cursor, priceMutex, priceAlreadyHit,
                   hits, acceptVars, handlerVars, kernelVars>>

\* clientsMutex is held while broadcaster = "send"; main holds it for a step.
LockClients ==
    /\ running /\ broadcaster = "lock"
    /\ broadcaster' = "send" /\ cursor' = 1
    /\ UNCHANGED <<running, priceId, message, hitVars, acceptVars, handlerVars, kernelVars>>

EntryOwner == clients[cursor]

\* The client that is sent the price: None if the descriptor is closed.
Recipient == connection[socket[clients[cursor]]]

StopAtClosedSocket == IF Recipient = None THEN Len(clients) + 1 ELSE cursor + 1

NextEntry == cursor + 1

\* A client that is gone resets the connection at the first send; the next
\* one raises SIGPIPE.  What a client receives is the composition's.
SendToEntry ==
    /\ running /\ broadcaster = "send" /\ cursor <= Len(clients)
    /\ cursor' = NextEntry
    /\ IF Recipient # None /\ peer[Recipient] # "open"
       THEN /\ running' = (peer[Recipient] = "gone")
            /\ peer' = [peer EXCEPT ![Recipient] = "reset"]
       ELSE UNCHANGED <<running, peer>>
    /\ UNCHANGED <<priceId, message, broadcaster, hitVars, acceptVars, handlerVars,
                   connection, fromClient>>

UnlockClients ==
    /\ running /\ broadcaster = "send" /\ cursor > Len(clients)
    /\ broadcaster' = "sleep" /\ cursor' = 1
    /\ UNCHANGED <<running, priceId, message, hitVars, acceptVars, handlerVars, kernelVars>>

-----------------------------------------------------------------------------
(* startServer *)

\* The descriptor that the kernel picks.
IsLowestFree(s) ==
    connection[s] = None /\ \A t \in Sockets : connection[t] = None => s <= t

Accept(c) ==
    /\ running /\ accepted = None
    /\ peer[c] # None /\ socket[c] = NoSocket
    /\ \E s \in Sockets :
         /\ IsLowestFree(s)
         /\ socket' = [socket EXCEPT ![c] = s]
         /\ connection' = [connection EXCEPT ![s] = c]
    /\ accepted' = c
    /\ UNCHANGED <<running, broadcastVars, hitVars, clients, handlerVars, peer, fromClient>>

\* The entry, under clientsMutex, and the handler thread.
Register ==
    /\ running /\ accepted # None /\ broadcaster # "send"
    /\ clients' = Append(clients, accepted)
    /\ handler' = [handler EXCEPT ![accepted] = "name"]
    /\ accepted' = None
    /\ UNCHANGED <<running, broadcastVars, hitVars, socket, receivedPriceId, kernelVars>>

-----------------------------------------------------------------------------
(* handleClient *)

\* recv() returns what has arrived, several messages as if they were one.
ReceiveName(c) ==
    /\ running /\ handler[c] = "name"
    /\ \E n \in 1 .. Len(fromClient[c]) :
         fromClient' = [fromClient EXCEPT ![c] = SubSeq(@, n + 1, Len(@))]
    /\ handler' = [handler EXCEPT ![c] = "order"]
    /\ UNCHANGED <<running, broadcastVars, hitVars, acceptVars, receivedPriceId,
                   connection, peer>>

\* atoi() of the ids ids[1], ids[2], ... written one behind the other.
Shift(id) == CHOOSE p \in {Base ^ n : n \in 1 .. id + 1} :
                p > id /\ (p = Base \/ p <= Base * id)

Joined(ids) == FoldLeft(LAMBDA value, id : value * Shift(id) + id, 0, ids)

ReceiveOrder(c) ==
    /\ running /\ handler[c] = "order"
    /\ \E n \in 1 .. Len(fromClient[c]) :
         /\ receivedPriceId' = [receivedPriceId EXCEPT ![c] =
                                  Joined(SubSeq(fromClient[c], 1, n))]
         /\ fromClient' = [fromClient EXCEPT ![c] = SubSeq(@, n + 1, Len(@))]
    /\ handler' = [handler EXCEPT ![c] = "lookup"]
    /\ UNCHANGED <<running, broadcastVars, hitVars, acceptVars, connection, peer>>

Disconnected(c) ==
    /\ running /\ handler[c] \in {"name", "order"}
    /\ fromClient[c] = <<>> /\ peer[c] # "open"
    /\ handler' = [handler EXCEPT ![c] = "close"]
    /\ UNCHANGED <<running, broadcastVars, hitVars, acceptVars, receivedPriceId, kernelVars>>

AnyPriceIsKnown(id) == TRUE

IsKnown(id) == id \in 0 .. timestamps - 1

\* An order for a price that is hit already or unknown is ignored.
Ignore(c) ==
    /\ running /\ handler[c] = "lookup" /\ PriceMutexFree
    /\ receivedPriceId[c] \in priceAlreadyHit \/ ~IsKnown(receivedPriceId[c])
    /\ handler' = [handler EXCEPT ![c] = "order"]
    /\ receivedPriceId' = [receivedPriceId EXCEPT ![c] = 0]
    /\ UNCHANGED <<running, broadcastVars, hitVars, acceptVars, kernelVars>>

\* The test of lines 105-110, with priceMutex taken and kept.
Accepts(c) ==
    /\ running /\ handler[c] = "lookup" /\ PriceMutexFree
    /\ receivedPriceId[c] \notin priceAlreadyHit /\ IsKnown(receivedPriceId[c])
    /\ priceMutex' = c
    /\ handler' = [handler EXCEPT ![c] = "hit"]
    /\ UNCHANGED <<running, broadcastVars, timestamps, priceAlreadyHit, hits,
                   acceptVars, receivedPriceId, kernelVars>>

Hit(c) ==
    /\ running /\ handler[c] = "hit"
    /\ priceAlreadyHit' = priceAlreadyHit \cup {receivedPriceId[c]}
    /\ hits' = Append(hits, [client |-> c, id |-> receivedPriceId[c]])
    /\ priceMutex' = None
    /\ handler' = [handler EXCEPT ![c] = "order"]
    /\ receivedPriceId' = [receivedPriceId EXCEPT ![c] = 0]
    /\ UNCHANGED <<running, broadcastVars, timestamps, acceptVars, kernelVars>>

ReceivesOn == "order"

AfterClose == "ended"

Close(c) ==
    /\ running /\ handler[c] = "close"
    /\ connection' = [connection EXCEPT ![socket[c]] = None]
    /\ handler' = [handler EXCEPT ![c] = AfterClose]
    /\ UNCHANGED <<running, broadcastVars, hitVars, acceptVars, receivedPriceId,
                   peer, fromClient>>

Handle(c) ==
    \/ ReceiveName(c) \/ ReceiveOrder(c) \/ Disconnected(c)
    \/ Ignore(c) \/ Accepts(c) \/ Hit(c) \/ Close(c)
=============================================================================
