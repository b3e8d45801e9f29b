--------------------------- MODULE ChallengeClient ---------------------------
(***************************************************************************)
(* The client of phase_6 (client.cpp), one per member of Clients.  It      *)
(* connects, with a limited number of attempts, and then answers every     *)
(* datagram it receives with at most one line.                             *)
(*                                                                         *)
(* Every datagram is written over the start of the same buffer, and what   *)
(* reached further stays behind it.  The scan goes backwards from the byte *)
(* behind the datagram and keeps two pointers into the buffer, to the      *)
(* target and to the id, which it sets when it meets the line with the     *)
(* target.  Each line of prices is compared with the bytes that the target *)
(* pointer shows at that time, and an answer is printed from both.         *)
(*                                                                         *)
(* Bytes are numbered from the end of the shortest datagram, so datagram d *)
(* fills the buffer up to byte d.extra - 1.  It ends with                  *)
(*     "CHALLENGE_ID:" id "\nTARGET:SECnnnn\n",                            *)
(* where SECnnnn is the ticker, known to the client by its four digits.    *)
(* The lengths differ by at most MaxExtra bytes, which are the ones of the *)
(* prices and of the id, so what stays behind a datagram is a part of that *)
(* text.  Bytes the buffer has never received do not look like the start   *)
(* of a line, four bytes that are not a ticker's digits equal none, and    *)
(* every line of prices is at least as long as the scan jumps (line 131).  *)
(***************************************************************************)
EXTENDS Integers, ChallengeServer

CONSTANTS
    MaxAttempts,            \* 10 in the code
    Base,                   \* 10 in the code: the ids are printed in it
    MAX_CHALLENGE_ID_DIGITS \* 5 in the code

MaxExtra == 11

\* The last two conjuncts hold for every base; the provers do not know powers.
ASSUME ClientAssumption ==
    /\ MaxAttempts \in Nat \ {0}
    /\ ExtraLengths \subseteq 0 .. MaxExtra
    /\ Base \in Nat \ {0, 1} /\ MAX_CHALLENGE_ID_DIGITS \in Nat \ {0, 1}
    /\ Base ^ 0 = 1
    /\ \A j, k \in 0 .. MAX_CHALLENGE_ID_DIGITS : j <= k => Base ^ j <= Base ^ k

VARIABLES
    connection, \* connection[c]: "trying", "connected" or "failed"
    attempt,    \* attempt[c]: failed attempts to connect
    buffer,     \* buffer[c]: the datagrams that still have bytes in it
    targetSec,  \* targetSec[c]: the byte where the digits of the target are
    challengeId \* challengeId[c]: the first byte of the id, and its length

clientVars == <<connection, attempt, buffer, targetSec, challengeId>>

NullPointer == MaxExtra + 1  \* no datagram reaches that byte

ClientInit ==
    /\ connection = [c \in Clients |-> "trying"]
    /\ attempt = [c \in Clients |-> 0]
    /\ buffer = [c \in Clients |-> {}]
    /\ targetSec = [c \in Clients |-> NullPointer]
    /\ challengeId = [c \in Clients |-> [at |-> NullPointer, len |-> -1]]

Connect(c) ==
    /\ connection[c] = "trying" /\ attempt[c] < MaxAttempts
    /\ listening
    /\ connection' = [connection EXCEPT ![c] = "connected"]
    /\ UNCHANGED <<attempt, buffer, targetSec, challengeId>>

\* The port is not open yet, or the network fails.  The last failure ends the
\* program.
ConnectFails(c) ==
    /\ connection[c] = "trying" /\ attempt[c] < MaxAttempts
    /\ attempt' = [attempt EXCEPT ![c] = @ + 1]
    /\ connection' = [connection EXCEPT ![c] =
                        IF attempt'[c] = MaxAttempts THEN "failed" ELSE "trying"]
    /\ UNCHANGED <<buffer, targetSec, challengeId>>

-----------------------------------------------------------------------------
(* The buffer *)

\* Where the parts of datagram d are.
Sec(d) == d.extra - 8       \* the S of the target
TargetAt(d) == d.extra - 5  \* its digits
IdEnd(d) == d.extra - 16    \* the newline behind the id

\* recv(): d replaces the bytes in front of its end.
Overwrite(b, d) == {d} \cup {e \in b : e.extra > d.extra}

\* Byte p is one of d's: the others that reach it are older and longer.
Shows(b, p, d) ==
    /\ d \in b /\ p < d.extra
    /\ \A e \in b : p < e.extra => d.extra <= e.extra

\* The ticker whose digits are the four bytes at p, if there is one.
TickerAt(b, p) ==
    IF \E d \in b : Shows(b, p, d) /\ TargetAt(d) = p
    THEN (CHOOSE d \in b : Shows(b, p, d) /\ TargetAt(d) = p).target
    ELSE None

\* d's id is printed with at least k digits.
HasDigit(d, k) == Base ^ (k - 1) <= d.id

\* The bytes that id pointer p spans are digits of d's id, all of them or some.
SpansDigits(d, p) ==
    /\ p.len > 0 /\ p.at + p.len <= IdEnd(d)
    /\ HasDigit(d, IdEnd(d) - p.at)

\* The number they spell.
ReadId(d, p) == (d.id \div Base ^ (IdEnd(d) - (p.at + p.len))) % Base ^ p.len

-----------------------------------------------------------------------------
(* The receive loop *)

\* The first byte that may be the S behind a newline: the one behind d, unless
\* that is the newline at the end of a datagram one byte longer.
ScanStart(b, d) ==
    IF \E e \in b : e.extra = d.extra + 1 THEN d.extra + 1 ELSE d.extra

\* That byte is left from an earlier target.  If it is the S of the ticker, the
\* scan takes the newline in front of it for the start of a line of prices and
\* jumps over d's lines with the target and the id.
FalsePrices(b, d) == \E e \in b : Shows(b, ScanStart(b, d), e) /\ Sec(e) = ScanStart(b, d)

\* If it is the last T of "TARGET:", the newline seems to start the line with
\* the target, and the scan jumps as well.
FalseTarget(b, d) == \E e \in b : Shows(b, ScanStart(b, d), e) /\ Sec(e) - 2 = ScanStart(b, d)

\* The look-back at line 138 goes one byte further than the longest id it can
\* find; a longer id makes strchr() stop at the colon of "TARGET:".
FoundId(d) ==
    IF \E k \in 1 .. MAX_CHALLENGE_ID_DIGITS - 1 : HasDigit(d, k) /\ ~HasDigit(d, k + 1)
    THEN LET k == CHOOSE k \in 1 .. MAX_CHALLENGE_ID_DIGITS - 1 :
                    HasDigit(d, k) /\ ~HasDigit(d, k + 1)
         IN  [at |-> IdEnd(d) - k, len |-> k]
    ELSE [at |-> Sec(d), len |-> IdEnd(d) - Sec(d)]

\* The pointers with which the lines of prices of d are read.  Ten bytes behind
\* the T of "TARGET:" the digits are expected; behind the other T, whose colon
\* follows it, the id seems to start where d has ended.
TargetPointer(c, d) ==
    LET b == Overwrite(buffer[c], d)
    IN  CASE FalsePrices(b, d) -> targetSec[c]
          [] FalseTarget(b, d) -> ScanStart(b, d) + 10
          [] OTHER -> TargetAt(d)

IdAlwaysFound(c, d) == FoundId(d)

IdPointer(c, d) ==
    LET b == Overwrite(buffer[c], d)
    IN  CASE FalsePrices(b, d) -> challengeId[c]
          [] FalseTarget(b, d) -> [at |-> ScanStart(b, d) + 2, len |-> -3]
          [] OTHER -> FoundId(d)

\* parseAndSend(): what the server makes of the bytes at the pointers.  With a
\* negative length, or one that spans other bytes, the id is not a number or no
\* ticker follows it on the line.
Answer(d, p, ticker) ==
    IF SpansDigits(d, p)
    THEN [id |-> ReadId(d, p), ticker |-> ticker, priced |-> d.id]
    ELSE Malformed

\* The first line of a datagram does not follow a newline: it is not found.
Answers(c, d) ==
    LET ticker == TickerAt(Overwrite(buffer[c], d), TargetPointer(c, d))
    IN  IF ticker \notin {None, d.first}
        THEN <<Answer(d, IdPointer(c, d), ticker)>>
        ELSE <<>>

\* recv() and the scan of what it returned.
Scan(c, d) ==
    /\ connection[c] = "connected"
    /\ buffer' = [buffer EXCEPT ![c] = Overwrite(@, d)]
    /\ targetSec' = [targetSec EXCEPT ![c] = TargetPointer(c, d)]
    /\ challengeId' = [challengeId EXCEPT ![c] = IdPointer(c, d)]
    /\ UNCHANGED <<connection, attempt>>
=============================================================================
