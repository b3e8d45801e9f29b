---------------------------- MODULE MomentumClient ----------------------------
(***************************************************************************)
(* The client of phase_2 (hft_client.cpp), one per member of Clients.  The *)
(* last element of priceHistory is also the code's lastPrice, and          *)
(* priceBuffer holds everything that the last recv() returned: only its    *)
(* first price is used, those that arrived with it are lost.               *)
(***************************************************************************)
EXTENDS PriceServer

VARIABLES
    stage,        \* stage[c]: how far the program is
    goingSign,    \* goingSign[c]: 1 or -1
    priceHistory,
    priceBuffer,
    orders,       \* orders[c]: the ids c has reported orders for
    toClient      \* toClient[c]: prices sent to c and not received yet

clientVars == <<stage, goingSign, priceHistory, priceBuffer, orders, toClient>>

ClientInit ==
    /\ stage = [c \in Clients |-> "off"]
    /\ goingSign = [c \in Clients |-> 1]
    /\ priceHistory = [c \in Clients |-> <<>>]
    /\ priceBuffer = [c \in Clients |-> <<>>]
    /\ orders = [c \in Clients |-> <<>>]
    /\ toClient = [c \in Clients |-> <<>>]

IsConnected(c) == stage[c] \in {"first", "second", "trading"}

\* connect(), and the name.
Connect(c) ==
    /\ stage[c] = "off" /\ running
    /\ stage' = [stage EXCEPT ![c] = "first"]
    /\ peer' = [peer EXCEPT ![c] = "open"]
    /\ fromClient' = [fromClient EXCEPT ![c] = <<Name>>]
    /\ UNCHANGED <<goingSign, priceHistory, priceBuffer, orders, toClient>>

\* The program is stopped, or ends as its server has; what it held is gone.
Stop(c) ==
    /\ IsConnected(c)
    /\ stage' = [stage EXCEPT ![c] = "exited"]
    /\ peer' = [peer EXCEPT ![c] = "gone"]
    /\ toClient' = [toClient EXCEPT ![c] = <<>>]
    /\ goingSign' = [goingSign EXCEPT ![c] = 1]
    /\ priceHistory' = [priceHistory EXCEPT ![c] = <<>>]
    /\ priceBuffer' = [priceBuffer EXCEPT ![c] = <<>>]
    /\ UNCHANGED <<fromClient, orders>>

-----------------------------------------------------------------------------
(* receiveAndRespond *)

\* recv() returns the first n messages that have arrived.
GetNextPrice(c) ==
    \E n \in 1 .. Len(toClient[c]) :
        /\ priceBuffer' = [priceBuffer EXCEPT ![c] = SubSeq(toClient[c], 1, n)]
        /\ toClient' = [toClient EXCEPT ![c] = SubSeq(@, n + 1, Len(@))]

FirstPrice(c, price) ==
    /\ stage[c] = "first"
    /\ stage' = [stage EXCEPT ![c] = "second"]
    /\ priceHistory' = [priceHistory EXCEPT ![c] = <<price.price>>]
    /\ UNCHANGED <<goingSign, orders, fromClient>>

SecondPrice(c, price) ==
    /\ stage[c] = "second"
    /\ stage' = [stage EXCEPT ![c] = "trading"]
    /\ priceHistory' = [priceHistory EXCEPT ![c] = Append(@, price.price)]
    /\ goingSign' = [goingSign EXCEPT ![c] =
                       IF price.price > priceHistory[c][1] THEN 1 ELSE -1]
    /\ UNCHANGED <<orders, fromClient>>

LastPrice(c) == Last(priceHistory[c])

MovesOrStays(c, price) == goingSign[c] * (price.price - LastPrice(c)) >= 0

Moves(c, price) == goingSign[c] * (price.price - LastPrice(c)) > 0

Unflipped(sign) == sign

Flipped(sign) == -sign

Trade(c, price) ==
    /\ stage[c] = "trading"
    /\ IF Moves(c, price)
       THEN /\ fromClient' = [fromClient EXCEPT ![c] = Append(@, price.id)]
            /\ orders' = [orders EXCEPT ![c] = Append(@, price.id)]
            /\ UNCHANGED goingSign
       ELSE /\ goingSign' = [goingSign EXCEPT ![c] = Flipped(@)]
            /\ UNCHANGED <<fromClient, orders>>
    /\ priceHistory' = [priceHistory EXCEPT ![c] =
                          Append(IF Len(@) >= 3 THEN Tail(@) ELSE @, price.price)]
    /\ UNCHANGED stage

ReceiveAndRespond(c) ==
    /\ GetNextPrice(c)
    /\ LET price == Head(toClient[c]) IN
         FirstPrice(c, price) \/ SecondPrice(c, price) \/ Trade(c, price)
    /\ UNCHANGED peer
=============================================================================
