---------------------------- MODULE ChallengeGame ----------------------------
(***************************************************************************)
(* Server and clients of phase_6 with the network between them: multicast  *)
(* datagrams that are lost, duplicated or reordered for each client on its *)
(* own, and a TCP connection per client that does neither.                 *)
(***************************************************************************)
EXTENDS ChallengeClient, FiniteSets

CONSTANT MaxPending \* bound: lines on the connections that are not handled

ASSUME GameAssumption == MaxPending \in Nat \ {0}

VARIABLE datagrams \* the challenges that have been sent, in order

vars == <<global_challenge_id, newChallenge, broadcaster, current_challenge,
          listening, sessions, received, connection, attempt, buffer,
          targetSec, challengeId, datagrams>>

Init ==
    /\ ServerInit
    /\ ClientInit
    /\ datagrams = <<>>

-----------------------------------------------------------------------------
Broadcast ==
    /\ Sent
    /\ datagrams' = Append(datagrams, newChallenge)
    /\ UNCHANGED clientVars

\* The lines that are not handled, by connection and place.
Unhandled == UNION {{c} \X DOMAIN received[c] : c \in Clients}

\* A datagram reaches c.  It may do so at any time after it was sent, in any
\* order, more than once or, since nothing says that it will, never.
Receive(c) ==
    /\ \E id \in DOMAIN datagrams :
         /\ Scan(c, datagrams[id])
         /\ Cardinality(Unhandled) < MaxPending
         /\ received' = [received EXCEPT ![c] = @ \o Answers(c, datagrams[id])]
    /\ UNCHANGED <<serverVars, listening, sessions, datagrams>>

AcceptConnection(c) ==
    connection[c] = "connected" /\ Accept(c) /\ UNCHANGED <<clientVars, datagrams>>

HandleLine(c) == ProcessOrder(c) /\ UNCHANGED <<clientVars, datagrams>>

Server ==
    \/ Generate /\ UNCHANGED <<clientVars, datagrams>>
    \/ Publish /\ UNCHANGED <<clientVars, datagrams>>
    \/ Broadcast
    \/ Listen /\ UNCHANGED <<clientVars, datagrams>>
    \/ \E c \in Clients : AcceptConnection(c) \/ HandleLine(c)

Client(c) ==
    \/ /\ Connect(c) \/ ConnectFails(c)
       /\ UNCHANGED <<serverVars, listening, sessions, received, datagrams>>
    \/ Receive(c)

Next == Server \/ \E c \in Clients : Client(c)

Spec == Init /\ [][Next]_vars

\* The io_context keeps running: connections are accepted and lines handled.
Fairness ==
    \A c \in Clients : WF_vars(AcceptConnection(c)) /\ WF_vars(HandleLine(c))

FairSpec == Spec /\ Fairness

-----------------------------------------------------------------------------
\* The values of all variables; datagram i is challenge i.
TypeOK ==
    /\ global_challenge_id \in 0 .. MaxChallenges
    /\ newChallenge \in Challenge /\ current_challenge \in Challenge
    /\ broadcaster \in {"generate", "publish", "send"}
    /\ listening \in BOOLEAN
    /\ sessions \subseteq Clients
    /\ received \in [Clients -> Seq(Line)]
    /\ connection \in [Clients -> {"trying", "connected", "failed"}]
    /\ attempt \in [Clients -> 0 .. MaxAttempts]
    /\ buffer \in [Clients -> SUBSET Challenge]
    /\ targetSec \in [Clients -> Int]
    /\ challengeId \in [Clients -> [at : Int, len : Int]]
    /\ datagrams \in Seq(Challenge)

Pending == UNION {{received[c][i] : i \in DOMAIN received[c]} : c \in Clients}

\* No answer reaches the server before the challenge it answers is current:
\* the challenge is published (line 92) before it is sent (line 105).
NoAnswerIsEarly ==
    \A line \in Pending : line.priced <= current_challenge.id

\* The digits of an id are read from its end, perhaps not all of them.
LastDigits(n, k) == n % Base ^ k

\* The client finds target, id and prices with pointers into a buffer that the
\* next datagram overwrites (client.cpp, lines 110-145).  Yet in a line that
\* parses they belong to one challenge: its target, its prices and its id, of
\* which no more than the first digits may be missing.
AnswersAreConsistent ==
    \A line \in Pending : line # Malformed =>
        /\ line.priced \in DOMAIN datagrams
        /\ line.ticker = datagrams[line.priced].target
        /\ \E k \in 1 .. MAX_CHALLENGE_ID_DIGITS - 1 :
             line.id = LastDigits(line.priced, k)

\* A challenge is won only if a client can have read it: it was sent, its id
\* has at most four digits and its target is not the first ticker it lists.
OnlyReadableChallengesAreWon ==
    current_challenge.winner # None =>
        /\ current_challenge.id \in 1 .. Len(datagrams)
        /\ ~HasDigit(current_challenge, MAX_CHALLENGE_ID_DIGITS)
        /\ current_challenge.target # current_challenge.first

\* The challenges and their winners follow the rounds specification: the first
\* correct answer wins, for as long as its challenge is current (line 178).
CR == INSTANCE ChallengeRounds WITH
        Players <- Clients, Nobody <- None,
        round <- current_challenge.id, winner <- current_challenge.winner

FollowsRounds == CR!Spec

\* An answer to the current challenge that has reached the server decides it,
\* whatever lines precede it, unless the next challenge comes first.
PendingAnswerDecides ==
    \A n \in 1 .. MaxChallenges :
        (\E line \in Pending : line.id = n /\ line.priced = n) /\ current_challenge.id = n
            ~> current_challenge.id # n \/ current_challenge.winner # None

\* What the README, lines 1-4, says of a message to the server: it carries the
\* id of a challenge and its target.
AnswersHaveTheFormat == Malformed \notin Pending

-----------------------------------------------------------------------------
(***************************************************************************)
(* The inductive invariant: what the broadcast thread has done with the    *)
(* newest challenge, and what a line on a connection can be.               *)
(***************************************************************************)
BroadcastInv ==
    /\ newChallenge.id = global_challenge_id /\ newChallenge.winner = None
    /\ broadcaster = "generate" =>
         current_challenge.id = newChallenge.id /\ Len(datagrams) = newChallenge.id
    /\ broadcaster = "publish" =>
         /\ newChallenge.id = current_challenge.id + 1
         /\ Len(datagrams) = current_challenge.id
    /\ broadcaster = "send" =>
         current_challenge.id = newChallenge.id /\ newChallenge.id = Len(datagrams) + 1

SameContent(d, e) == d.target = e.target /\ d.first = e.first

DatagramInv ==
    /\ \A i \in DOMAIN datagrams : datagrams[i].id = i
    /\ broadcaster # "publish" => SameContent(current_challenge, newChallenge)
    /\ current_challenge.id \in DOMAIN datagrams =>
         SameContent(current_challenge, datagrams[current_challenge.id])

\* The target pointer was set with the id pointer, which spans an id, or has a
\* negative length.
PointsTogether(target, p) ==
    \/ p.len < 1
    \/ /\ p.len < MAX_CHALLENGE_ID_DIGITS
       /\ p.at + p.len = target - 11

PointerInv == \A c \in Clients : PointsTogether(targetSec[c], challengeId[c])

ReadableAnswer(line) ==
    /\ line.priced \in DOMAIN datagrams
    /\ line.ticker = datagrams[line.priced].target
    /\ line.ticker # datagrams[line.priced].first
    /\ \E k \in 1 .. MAX_CHALLENGE_ID_DIGITS - 1 : line.id = LastDigits(line.priced, k)

LineInv == \A line \in Pending : line = Malformed \/ ReadableAnswer(line)

\* The conjunction is inductive; it relates the broadcast thread (lines 74-115),
\* the sessions (145-198) and the clients' scans.
IInv ==
    /\ TypeOK /\ BroadcastInv /\ DatagramInv /\ PointerInv /\ LineInv
    /\ OnlyReadableChallengesAreWon
=============================================================================
