--------------------------- MODULE ChallengeServer ---------------------------
(***************************************************************************)
(* The server of phase_6 (main_server.cpp).  A thread generates challenge  *)
(* after challenge, makes it the current one under challenge_mutex and     *)
(* then multicasts it.  The io_context runs on the main thread: it accepts *)
(* connections and handles the lines of all sessions, one at a time.       *)
(*                                                                         *)
(* The prices of a challenge are told apart by its id: a line that quotes  *)
(* the prices of challenge n has priced = n, and no two challenges agree   *)
(* within the tolerance of line 173, while printing with six digits stays  *)
(* within it.  A challenge fits one datagram (line 97).                    *)
(*                                                                         *)
(* The reply to a line is left out: it is always INCORRECT, since nothing  *)
(* sets correct after line 163, and no client reads it.                    *)
(***************************************************************************)
EXTENDS Naturals, Sequences

CONSTANTS
    Clients,
    Tickers,
    ExtraLengths, \* of a challenge, in bytes, over the shortest one
    MaxChallenges \* bound: the server stops generating after this many

ASSUME ServerAssumption ==
    /\ Tickers # {} /\ ExtraLengths # {} /\ ExtraLengths \subseteq Nat
    /\ MaxChallenges \in Nat

VARIABLES
    global_challenge_id,
    newChallenge,      \* local to the broadcast thread
    broadcaster,       \* what the broadcast thread does next
    current_challenge,
    listening,         \* TCPServer exists
    sessions,          \* the clients whose connection is accepted
    received           \* received[c]: lines on c's connection, not handled yet

serverVars == <<global_challenge_id, newChallenge, broadcaster, current_challenge>>

None == "none"

\* Its data: the target, the ticker that market_data lists first, the length
\* in print, and the winner.
Challenge == [id : 0 .. MaxChallenges, target : Tickers \cup {None},
              first : Tickers \cup {None}, extra : ExtraLengths \cup {0},
              winner : Clients \cup {None}]

NoChallenge ==
    [id |-> 0, target |-> None, first |-> None, extra |-> 0, winner |-> None]

ServerInit ==
    /\ global_challenge_id = 0
    /\ newChallenge = NoChallenge
    /\ broadcaster = "generate"
    /\ current_challenge = NoChallenge
    /\ listening = FALSE
    /\ sessions = {}
    /\ received = [c \in Clients |-> <<>>]

-----------------------------------------------------------------------------
(* udp_broadcast_thread *)

NewChallengeId == global_challenge_id + 1

Generate ==
    /\ broadcaster = "generate" /\ global_challenge_id < MaxChallenges
    /\ global_challenge_id' = global_challenge_id + 1
    /\ \E target, first \in Tickers, extra \in ExtraLengths :
         newChallenge' = [id |-> NewChallengeId, target |-> target,
                          first |-> first, extra |-> extra, winner |-> None]
    /\ broadcaster' = "publish"
    /\ UNCHANGED <<current_challenge, listening, sessions, received>>

Publish ==
    /\ broadcaster = "publish"
    /\ current_challenge' = newChallenge
    /\ broadcaster' = "send"
    /\ UNCHANGED <<global_challenge_id, newChallenge, listening, sessions, received>>

SentUnpublished == broadcaster \in {"publish", "send"}

ReadyToSend == broadcaster = "send"

\* The send itself is the network's; the thread sleeps and starts over.
Sent ==
    /\ ReadyToSend
    /\ broadcaster' = "generate"
    /\ UNCHANGED <<global_challenge_id, newChallenge, current_challenge,
                   listening, sessions, received>>

-----------------------------------------------------------------------------
(* TCPServer and TCPSession *)

\* main() starts the broadcast thread before it opens the port.
Listen ==
    /\ ~listening
    /\ listening' = TRUE
    /\ UNCHANGED <<serverVars, sessions, received>>

\* The connection of c has been established and is accepted.
Accept(c) ==
    /\ c \notin sessions
    /\ sessions' = sessions \cup {c}
    /\ UNCHANGED <<serverVars, listening, received>>

\* What parsing a line yields: the id (0 if it is not a number, and then no
\* ticker either), the ticker and the challenge whose prices it quotes.
Line == [id : 0 .. MaxChallenges, ticker : Tickers \cup {None}, priced : 0 .. MaxChallenges]

Malformed == [id |-> 0, ticker |-> None, priced |-> 0]

AnyCorrectAnswerWins(line) ==
    /\ line.id = current_challenge.id /\ line.id # 0
    /\ line.ticker = current_challenge.target
    /\ line.priced = current_challenge.id

StaleAnswerWins(line) ==
    /\ line.id # 0 /\ current_challenge.winner = None

\* The tests of lines 167-175; challenge 0 lists no ticker.
Wins(line) ==
    /\ line.id = current_challenge.id /\ line.id # 0
    /\ current_challenge.winner = None
    /\ line.ticker = current_challenge.target
    /\ line.priced = current_challenge.id

ReadsOneLine(c) == c \in sessions /\ Len(received[c]) = 1

HasLine(c) == c \in sessions /\ received[c] # <<>>

ProcessOrder(c) ==
    /\ HasLine(c)
    /\ current_challenge' = IF Wins(Head(received[c]))
                            THEN [current_challenge EXCEPT !.winner = c]
                            ELSE current_challenge
    /\ received' = [received EXCEPT ![c] = Tail(@)]
    /\ UNCHANGED <<global_challenge_id, newChallenge, broadcaster, listening, sessions>>
=============================================================================
