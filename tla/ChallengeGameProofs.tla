------------------------ MODULE ChallengeGameProofs ------------------------
(***************************************************************************)
(* Theorems about ChallengeGame, for any number of clients, tickers,       *)
(* challenges and attempts to connect: the invariant IInv, the safety      *)
(* properties that follow from it, and the refinement of ChallengeRounds.  *)
(***************************************************************************)
EXTENDS ChallengeGame, SequenceTheorems, TLAPS

USE ServerAssumption, ClientAssumption, GameAssumption

\* The numbers that the last digits of n spell.
LEMMA LastDigitsBound ==
    ASSUME NEW n \in Nat, NEW k \in 1 .. MAX_CHALLENGE_ID_DIGITS
    PROVE  LastDigits(n, k) \in 0 .. n /\ LastDigits(n, k) < Base ^ k
<1>1. Base ^ k \in Int /\ Base ^ 0 = 1 /\ Base ^ 0 <= Base ^ k
  OBVIOUS
<1>2. Base ^ k \in Nat \ {0}
  BY <1>1
<1> DEFINE m == Base ^ k
<1> HIDE DEF m
<1>3. m \in Nat \ {0}
  BY <1>2 DEF m
<1> HIDE ClientAssumption
<1>4. n % m \in 0 .. n /\ n % m < m
  BY <1>3
<1>. QED BY <1>4 DEF LastDigits, m

\* The parts of a challenge that are numbers.
LEMMA ChallengeNumbers ==
    ASSUME NEW d \in Challenge
    PROVE  d.id \in 0 .. MaxChallenges /\ d.extra \in Int
<1> HIDE ClientAssumption
<1>1. d.id \in 0 .. MaxChallenges /\ d.extra \in ExtraLengths \cup {0}
  BY DEF Challenge
<1>2. \A n \in ExtraLengths \cup {0} : n \in Int
  BY ServerAssumption
<1>. QED BY <1>1, <1>2

\* A line is pending iff it is somewhere on a connection.
LEMMA PendingMember ==
    ASSUME NEW line
    PROVE  line \in Pending <=>
             \E c \in Clients : \E i \in DOMAIN received[c] : line = received[c][i]
BY DEF Pending

LEMMA PendingMemberNext ==
    ASSUME NEW line
    PROVE  line \in Pending' <=>
             \E c \in Clients : \E i \in DOMAIN received'[c] : line = received'[c][i]
BY DEF Pending

\* The pending lines are what the parser can yield.
LEMMA PendingType == ASSUME TypeOK PROVE Pending \subseteq Line
<1> SUFFICES ASSUME NEW line \in Pending PROVE line \in Line
  OBVIOUS
<1>1. PICK c \in Clients : \E i \in DOMAIN received[c] : line = received[c][i]
  BY PendingMember
<1>2. received[c] \in Seq(Line)
  BY DEF TypeOK
<1>. QED BY <1>1, <1>2, ElementOfSeq

\* A step that leaves the server's data, the datagrams and the connections'
\* lines alone keeps what the invariant says of them.
LEMMA FrameStep ==
    ASSUME IInv,
           UNCHANGED <<global_challenge_id, newChallenge, broadcaster,
                       current_challenge, received, targetSec, challengeId, datagrams>>
    PROVE  /\ BroadcastInv' /\ DatagramInv' /\ PointerInv' /\ LineInv'
           /\ OnlyReadableChallengesAreWon'
<1>1. Pending' = Pending
  BY DEF Pending
<1>2. LineInv'
  BY <1>1 DEF IInv, LineInv, ReadableAnswer
<1>. QED BY <1>2 DEF IInv, BroadcastInv, DatagramInv, PointerInv,
              OnlyReadableChallengesAreWon, SameContent

LEMMA InitInv == Init => IInv
<1> SUFFICES ASSUME Init PROVE IInv
  OBVIOUS
<1> USE DEF Init, ServerInit, ClientInit, NoChallenge, NullPointer, MaxExtra
<1>1. NoChallenge \in Challenge
  BY DEF Challenge
<1>2. listening \in BOOLEAN
  OBVIOUS
<1>3. TypeOK
  BY <1>1, <1>2 DEF TypeOK
<1>4. Pending = {}
  BY DEF Pending
<1>5. BroadcastInv /\ LineInv /\ OnlyReadableChallengesAreWon
  BY <1>4 DEF BroadcastInv, LineInv, OnlyReadableChallengesAreWon
<1>6. DatagramInv
  BY DEF DatagramInv, SameContent
<1>7. PointerInv
  <2> SUFFICES ASSUME NEW c \in Clients PROVE challengeId[c].len < 1
    BY DEF PointerInv, PointsTogether
  <2> HIDE ClientAssumption
  <2>1. challengeId[c].len = -1
    OBVIOUS
  <2>2. -1 < 1
    OBVIOUS
  <2>. QED BY ONLY <2>1, <2>2
<1>. QED BY <1>3, <1>5, <1>6, <1>7 DEF IInv

-----------------------------------------------------------------------------
(* The broadcast thread *)

LEMMA GenerateStep ==
    ASSUME IInv, Generate, UNCHANGED <<clientVars, datagrams>>
    PROVE  IInv'
<1> USE DEF IInv, Generate, clientVars
<1>1. PICK target \in Tickers, first \in Tickers, extra \in ExtraLengths :
        newChallenge' = [id |-> NewChallengeId, target |-> target,
                         first |-> first, extra |-> extra, winner |-> None]
  OBVIOUS
<1>2. global_challenge_id' = global_challenge_id + 1 /\ global_challenge_id' \in 0 .. MaxChallenges
  BY DEF TypeOK
<1>3. newChallenge' \in Challenge
  BY <1>1, <1>2 DEF NewChallengeId, Challenge, TypeOK
<1>4. listening' \in BOOLEAN
  BY DEF TypeOK
<1>5. TypeOK'
  BY <1>2, <1>3, <1>4 DEF TypeOK
<1>6. BroadcastInv'
  BY <1>1, <1>2 DEF BroadcastInv, NewChallengeId
<1>7. DatagramInv'
  BY DEF DatagramInv, SameContent
<1>8. Pending' = Pending
  BY DEF Pending
<1>9. LineInv'
  BY <1>8 DEF LineInv, ReadableAnswer
<1>10. OnlyReadableChallengesAreWon'
  BY DEF OnlyReadableChallengesAreWon
<1>11. PointerInv'
  BY DEF PointerInv
<1>. QED BY <1>5, <1>6, <1>7, <1>9, <1>10, <1>11

LEMMA PublishStep ==
    ASSUME IInv, Publish, UNCHANGED <<clientVars, datagrams>>
    PROVE  IInv'
<1> USE DEF IInv, Publish, clientVars
<1>1. listening' \in BOOLEAN
  BY DEF TypeOK
<1>2. TypeOK'
  BY <1>1 DEF TypeOK
<1>3. BroadcastInv'
  BY DEF BroadcastInv, TypeOK, Challenge
<1>4. DatagramInv'
  <2>1. current_challenge'.id \notin DOMAIN datagrams'
    BY DEF BroadcastInv, TypeOK, Challenge
  <2>. QED BY <2>1 DEF DatagramInv, SameContent
<1>5. Pending' = Pending
  BY DEF Pending
<1>6. LineInv'
  BY <1>5 DEF LineInv, ReadableAnswer
<1>7. OnlyReadableChallengesAreWon'
  BY DEF OnlyReadableChallengesAreWon, BroadcastInv
<1>8. PointerInv'
  BY DEF PointerInv
<1>. QED BY <1>2, <1>3, <1>4, <1>6, <1>7, <1>8

LEMMA BroadcastStep ==
    ASSUME IInv, Broadcast
    PROVE  IInv'
<1> USE DEF IInv, Broadcast, Sent, ReadyToSend, clientVars
<1>1. /\ newChallenge \in Challenge /\ current_challenge \in Challenge
      /\ datagrams \in Seq(Challenge)
      /\ newChallenge.id = Len(datagrams) + 1
  BY DEF TypeOK, BroadcastInv
<1>2. /\ datagrams' \in Seq(Challenge)
      /\ Len(datagrams') = Len(datagrams) + 1
      /\ \A i \in 1 .. Len(datagrams) : datagrams'[i] = datagrams[i]
      /\ datagrams'[Len(datagrams) + 1] = newChallenge
  BY <1>1, AppendProperties
<1>3. /\ DOMAIN datagrams = 1 .. Len(datagrams)
      /\ DOMAIN datagrams' = 1 .. Len(datagrams')
      /\ Len(datagrams) \in Nat
  BY <1>1, <1>2, LenProperties
<1>5. listening' \in BOOLEAN
  BY DEF TypeOK
<1>6. TypeOK'
  BY <1>2, <1>5 DEF TypeOK
<1>7. BroadcastInv'
  BY <1>2 DEF BroadcastInv
<1>8. DatagramInv'
  <2>1. \A i \in DOMAIN datagrams' : i \in DOMAIN datagrams \/ i = Len(datagrams) + 1
    BY <1>2, <1>3
  <2>2. \A i \in DOMAIN datagrams' : datagrams'[i].id = i
    BY <1>1, <1>2, <1>3, <2>1 DEF DatagramInv
  <2>3. SameContent(current_challenge, newChallenge) /\ current_challenge.id = Len(datagrams) + 1
    BY <1>1 DEF DatagramInv, BroadcastInv
  <2>. QED BY <1>2, <2>2, <2>3 DEF DatagramInv, SameContent
<1>9. Pending' = Pending
  BY DEF Pending
<1>10. LineInv'
  BY <1>2, <1>3, <1>9 DEF LineInv, ReadableAnswer
<1>11. OnlyReadableChallengesAreWon'
  BY <1>2, <1>3 DEF OnlyReadableChallengesAreWon
<1>12. PointerInv'
  BY DEF PointerInv
<1>. QED BY <1>6, <1>7, <1>8, <1>10, <1>11, <1>12

-----------------------------------------------------------------------------
(* The io_context *)

LEMMA ListenStep ==
    ASSUME IInv, Listen, UNCHANGED <<clientVars, datagrams>>
    PROVE  IInv'
<1> USE DEF Listen, serverVars, clientVars
<1>1. listening' \in BOOLEAN
  OBVIOUS
<1>2. TypeOK'
  BY <1>1 DEF IInv, TypeOK
<1>. QED BY <1>2, FrameStep DEF IInv

LEMMA AcceptStep ==
    ASSUME IInv, NEW c \in Clients, AcceptConnection(c)
    PROVE  IInv'
<1> USE DEF AcceptConnection, Accept, serverVars, clientVars
<1>1. listening' \in BOOLEAN
  BY DEF IInv, TypeOK
<1>2. TypeOK'
  BY <1>1 DEF IInv, TypeOK
<1>. QED BY <1>2, FrameStep DEF IInv

\* Handling a line takes it off its connection and adds none.
LEMMA HandleLineShrinks ==
    ASSUME IInv, NEW c \in Clients, HandleLine(c)
    PROVE  /\ received' \in [Clients -> Seq(Line)]
           /\ Pending' \subseteq Pending
           /\ Head(received[c]) \in Pending
<1> USE DEF IInv, HandleLine, ProcessOrder, HasLine
<1>1. received \in [Clients -> Seq(Line)] /\ received[c] \in Seq(Line) /\ received[c] # <<>>
  BY DEF TypeOK
<1>2. /\ Tail(received[c]) \in Seq(Line)
      /\ Len(Tail(received[c])) = Len(received[c]) - 1
      /\ \A i \in 1 .. Len(Tail(received[c])) : Tail(received[c])[i] = received[c][i + 1]
  BY <1>1, HeadTailProperties
<1>3. /\ DOMAIN received[c] = 1 .. Len(received[c])
      /\ DOMAIN Tail(received[c]) = 1 .. Len(Tail(received[c]))
      /\ Len(received[c]) \in Nat
  BY <1>1, <1>2, LenProperties
<1>4. received' = [received EXCEPT ![c] = Tail(received[c])]
  OBVIOUS
<1>5. received' \in [Clients -> Seq(Line)]
  BY <1>1, <1>2, <1>4
<1>6. ASSUME NEW line \in Pending' PROVE line \in Pending
  <2>0. PICK k \in Clients : \E i \in DOMAIN received'[k] : line = received'[k][i]
    BY PendingMemberNext
  <2>1. PICK i \in DOMAIN received'[k] : line = received'[k][i]
    BY <2>0
  <2>2. CASE k = c
    <3>1. received'[c] = Tail(received[c])
      BY <1>1, <1>4
    <3>2. i \in 1 .. Len(Tail(received[c])) /\ line = Tail(received[c])[i]
      BY <1>3, <2>1, <2>2, <3>1
    <3>3. i + 1 \in DOMAIN received[c] /\ line = received[c][i + 1]
      BY <1>2, <1>3, <3>2
    <3>. QED BY <3>3, PendingMember
  <2>3. CASE k # c
    <3>1. received'[k] = received[k]
      BY <1>1, <1>4, <2>3
    <3>. QED BY <2>1, <3>1, PendingMember
  <2>. QED BY <2>2, <2>3
<1>7. Head(received[c]) = received[c][1] /\ 1 \in DOMAIN received[c]
  BY <1>1, <1>3, EmptySeq
<1>8. Head(received[c]) \in Pending
  BY <1>7, PendingMember
<1>. QED BY <1>5, <1>6, <1>8

LEMMA HandleLineStep ==
    ASSUME IInv, NEW c \in Clients, HandleLine(c)
    PROVE  IInv'
<1> USE DEF IInv, HandleLine, ProcessOrder, HasLine, clientVars
<1> DEFINE line == Head(received[c])
<1>1. /\ received' \in [Clients -> Seq(Line)]
      /\ Pending' \subseteq Pending
      /\ line \in Pending
  BY HandleLineShrinks
<1>2. /\ current_challenge \in Challenge
      /\ current_challenge' \in Challenge
      /\ current_challenge'.id = current_challenge.id
      /\ SameContent(current_challenge', current_challenge)
  BY DEF TypeOK, Challenge, SameContent
<1>3. listening' \in BOOLEAN
  BY DEF TypeOK
<1>4. TypeOK'
  BY <1>1, <1>2, <1>3 DEF TypeOK
<1>5. BroadcastInv'
  BY <1>2 DEF BroadcastInv
<1>6. DatagramInv'
  BY <1>2 DEF DatagramInv, SameContent
<1>7. LineInv'
  BY <1>1 DEF LineInv, ReadableAnswer
<1>8. OnlyReadableChallengesAreWon'
  <2>1. CASE Wins(line)
    <3>1. /\ ReadableAnswer(line)
          /\ line.id = current_challenge.id /\ line.priced = current_challenge.id
          /\ line.ticker = current_challenge.target
      BY <1>1, <2>1 DEF LineInv, Wins, Malformed
    <3>2. current_challenge.id \in DOMAIN datagrams
      BY <3>1 DEF ReadableAnswer
    <3>3. current_challenge.id \in 1 .. Len(datagrams)
      BY <3>2, LenProperties DEF TypeOK
    <3>4. current_challenge.target # current_challenge.first
      BY <3>1, <3>2 DEF ReadableAnswer, DatagramInv, SameContent
    <3>5. ~HasDigit(current_challenge, MAX_CHALLENGE_ID_DIGITS)
      <4>1. PICK k \in 1 .. MAX_CHALLENGE_ID_DIGITS - 1 :
              current_challenge.id = LastDigits(current_challenge.id, k)
        BY <3>1 DEF ReadableAnswer
      <4>2. current_challenge.id < Base ^ k
        BY <1>2, <4>1, LastDigitsBound DEF Challenge
      <4>3. Base ^ k <= Base ^ (MAX_CHALLENGE_ID_DIGITS - 1)
        BY <4>1
      <4>4. /\ current_challenge.id \in Nat
            /\ Base ^ k \in Int /\ Base ^ (MAX_CHALLENGE_ID_DIGITS - 1) \in Int
        BY <1>2, <4>1 DEF Challenge
      <4> HIDE ClientAssumption
      <4>. QED BY <4>2, <4>3, <4>4 DEF HasDigit
    <3>6. HasDigit(current_challenge', MAX_CHALLENGE_ID_DIGITS)
            <=> HasDigit(current_challenge, MAX_CHALLENGE_ID_DIGITS)
      BY <1>2 DEF HasDigit
    <3>. QED BY <1>2, <3>3, <3>4, <3>5, <3>6 DEF OnlyReadableChallengesAreWon, SameContent
  <2>2. CASE ~Wins(line)
    BY <2>2 DEF OnlyReadableChallengesAreWon
  <2>. QED BY <2>1, <2>2
<1>9. PointerInv'
  BY DEF PointerInv
<1>. QED BY <1>4, <1>5, <1>6, <1>7, <1>8, <1>9

-----------------------------------------------------------------------------
(* The clients connect *)

LEMMA ConnectStep ==
    ASSUME IInv, NEW c \in Clients, Connect(c) \/ ConnectFails(c),
           UNCHANGED <<serverVars, listening, sessions, received, datagrams>>
    PROVE  IInv'
<1> USE DEF Connect, ConnectFails, serverVars
<1>1. listening' \in BOOLEAN
  BY DEF IInv, TypeOK
<1>2. attempt' \in [Clients -> 0 .. MaxAttempts]
  <2>1. attempt \in [Clients -> 0 .. MaxAttempts]
    BY DEF IInv, TypeOK
  <2>2. CASE ConnectFails(c)
    <3>1. attempt[c] + 1 \in 0 .. MaxAttempts
      BY <2>1, <2>2
    <3>. QED BY <2>1, <2>2, <3>1
  <2>. QED BY <2>1, <2>2
<1>3. connection' \in [Clients -> {"trying", "connected", "failed"}]
  BY DEF IInv, TypeOK
<1>4. TypeOK'
  BY <1>1, <1>2, <1>3 DEF IInv, TypeOK
<1>. QED BY <1>4, FrameStep DEF IInv

-----------------------------------------------------------------------------
(* The scan *)

\* The id found by the look-back ends eleven bytes in front of the digits of
\* the target, or its length is negative.
LEMMA FoundTogether ==
    ASSUME NEW d \in Challenge
    PROVE  /\ PointsTogether(TargetAt(d), FoundId(d))
           /\ TargetAt(d) \in Int
           /\ FoundId(d) \in [at : Int, len : Int]
<1>1. d.extra \in Int
  BY ChallengeNumbers
<1> DEFINE D == 1 .. MAX_CHALLENGE_ID_DIGITS - 1
           Q(k) == HasDigit(d, k) /\ ~HasDigit(d, k + 1)
<1>2. CASE \E k \in D : Q(k)
  <2> DEFINE k == CHOOSE k \in D : Q(k)
  <2>1. k \in D /\ FoundId(d) = [at |-> IdEnd(d) - k, len |-> k]
    BY <1>2 DEF FoundId
  <2>. QED BY <1>1, <2>1 DEF PointsTogether, TargetAt, IdEnd
<1>3. CASE ~\E k \in D : Q(k)
  <2>1. FoundId(d) = [at |-> Sec(d), len |-> IdEnd(d) - Sec(d)]
    BY <1>3 DEF FoundId
  <2>. QED BY <1>1, <2>1 DEF PointsTogether, TargetAt, IdEnd, Sec
<1>. QED BY <1>2, <1>3

\* One byte is not left from two places of the datagrams in a buffer.
LEMMA FalseLinesDiffer ==
    ASSUME IInv, NEW c \in Clients, NEW d \in Challenge
    PROVE  LET b == Overwrite(buffer[c], d) IN ~(FalsePrices(b, d) /\ FalseTarget(b, d))
<1> DEFINE b == Overwrite(buffer[c], d)
<1> SUFFICES ASSUME FalsePrices(b, d), FalseTarget(b, d) PROVE FALSE
  OBVIOUS
<1>1. PICK e \in b : Shows(b, ScanStart(b, d), e) /\ Sec(e) = ScanStart(b, d)
  BY DEF FalsePrices
<1>2. PICK f \in b : Shows(b, ScanStart(b, d), f) /\ Sec(f) - 2 = ScanStart(b, d)
  BY DEF FalseTarget
<1>3. \A g \in b : g.extra \in Int
  BY ChallengeNumbers DEF Overwrite, IInv, TypeOK
<1>4. e.extra = f.extra
  <2> DEFINE start == ScanStart(b, d)
  <2>1. start \in Int
    BY ChallengeNumbers DEF ScanStart
  <2> HIDE DEF start, b
  <2>. QED BY <1>1, <1>2, <1>3, <2>1 DEF Shows, start
<1>. QED BY <1>1, <1>2, <1>3, <1>4 DEF Sec

\* Whether the scan sets the pointers or keeps them, they belong together.
LEMMA PointersAfterScan ==
    ASSUME IInv, NEW c \in Clients, NEW d \in Challenge
    PROVE  /\ TargetPointer(c, d) \in Int
           /\ IdPointer(c, d) \in [at : Int, len : Int]
           /\ PointsTogether(TargetPointer(c, d), IdPointer(c, d))
<1> DEFINE b == Overwrite(buffer[c], d)
<1>1. CASE FalsePrices(b, d)
  <2>1. TargetPointer(c, d) = targetSec[c] /\ IdPointer(c, d) = challengeId[c]
    BY <1>1, FalseLinesDiffer DEF TargetPointer, IdPointer
  <2>. QED BY <2>1 DEF IInv, TypeOK, PointerInv
<1>2. CASE FalseTarget(b, d)
  <2>1. ScanStart(b, d) \in Int
    BY ChallengeNumbers DEF ScanStart
  <2>2. /\ TargetPointer(c, d) = ScanStart(b, d) + 10
        /\ IdPointer(c, d) = [at |-> ScanStart(b, d) + 2, len |-> -3]
    BY <1>2, FalseLinesDiffer DEF TargetPointer, IdPointer
  <2>. QED BY <2>1, <2>2 DEF PointsTogether
<1>3. CASE ~FalsePrices(b, d) /\ ~FalseTarget(b, d)
  BY <1>3, FoundTogether DEF TargetPointer, IdPointer
<1>. QED BY <1>1, <1>2, <1>3

\* The ticker at a byte is the target of a datagram that ends five bytes on.
LEMMA TickerShown ==
    ASSUME NEW b, NEW p, TickerAt(b, p) # None
    PROVE  \E e \in b : Shows(b, p, e) /\ TargetAt(e) = p /\ TickerAt(b, p) = e.target
<1> DEFINE Q(e) == Shows(b, p, e) /\ TargetAt(e) = p
<1>1. \E e \in b : Q(e)
  BY DEF TickerAt
<1>2. /\ (CHOOSE e \in b : Q(e)) \in b
      /\ Q(CHOOSE e \in b : Q(e))
  BY <1>1
<1>. QED BY <1>1, <1>2 DEF TickerAt

\* What a client makes of a datagram: no answer, one that does not parse, or
\* one whose parts are all the datagram's.  If it shows a target and digits of
\* an id at the pointers, then the distance between these is the one in the
\* datagram, and the target is not one that an older datagram left.
LEMMA AnswerIsReadable ==
    ASSUME IInv, NEW c \in Clients, NEW id \in DOMAIN datagrams,
           NEW ticker, ticker \notin {None, datagrams[id].first},
           ticker = TickerAt(Overwrite(buffer[c], datagrams[id]),
                             TargetPointer(c, datagrams[id]))
    PROVE  LET a == Answer(datagrams[id], IdPointer(c, datagrams[id]), ticker)
           IN  a \in Line /\ (a = Malformed \/ ReadableAnswer(a))
<1> DEFINE d == datagrams[id]
           t == TargetPointer(c, d)
           p == IdPointer(c, d)
           b == Overwrite(buffer[c], d)
           a == Answer(d, p, ticker)
<1>1. d \in Challenge /\ d.id = id /\ d.id \in 0 .. MaxChallenges /\ d.extra \in Int
  <2>1. d \in Challenge /\ d.id = id
    BY ElementOfSeq DEF IInv, TypeOK, DatagramInv
  <2>. QED BY <2>1, ChallengeNumbers
<1>2. t \in Int /\ p \in [at : Int, len : Int] /\ PointsTogether(t, p)
  BY <1>1, PointersAfterScan
<1>3. CASE ~SpansDigits(d, p)
  BY <1>3 DEF Answer, Malformed, Line
<1>4. CASE SpansDigits(d, p)
  <2> HIDE ClientAssumption
  <2>1. PICK e \in b : Shows(b, t, e) /\ TargetAt(e) = t /\ ticker = e.target
    BY TickerShown
  <2>2. /\ e \in Challenge /\ e.extra \in Int
        /\ e = d \/ d.extra < e.extra
    <3>1. e = d \/ (e \in buffer[c] /\ d.extra < e.extra)
      BY <2>1 DEF Overwrite
    <3>2. buffer[c] \subseteq Challenge
      BY DEF IInv, TypeOK
    <3>. QED BY <1>1, <3>1, <3>2, ChallengeNumbers
  <2>3. /\ p.len \in Int /\ p.at \in Int /\ p.len > 0
        /\ p.at + p.len <= IdEnd(d)
        /\ p.at + p.len = t - 11 /\ p.len < MAX_CHALLENGE_ID_DIGITS
    BY <1>2, <1>4 DEF SpansDigits, PointsTogether
  <2>4. e = d
    BY <1>1, <2>1, <2>2, <2>3 DEF TargetAt, IdEnd
  <2>5. p.at + p.len = IdEnd(d)
    BY <1>1, <2>1, <2>3, <2>4 DEF TargetAt, IdEnd
  <2>6. p.len \in 1 .. MAX_CHALLENGE_ID_DIGITS - 1
    BY <2>3, ClientAssumption
  <2>7. ReadId(d, p) = LastDigits(id, p.len)
    <3>1. IdEnd(d) - (p.at + p.len) = 0
      BY <1>1, <2>5 DEF IdEnd
    <3>2. Base ^ (IdEnd(d) - (p.at + p.len)) = 1
      BY <3>1, ClientAssumption
    <3>3. d.id \div 1 = d.id
      BY <1>1, ServerAssumption
    <3>. QED BY <1>1, <3>2, <3>3 DEF ReadId, LastDigits
  <2>8. ReadId(d, p) \in 0 .. MaxChallenges
    <3>1. LastDigits(id, p.len) \in 0 .. id
      BY <1>1, <2>6, LastDigitsBound, ClientAssumption, ServerAssumption
    <3>. QED BY <1>1, <2>7, <3>1, ServerAssumption
  <2>9. a = [id |-> ReadId(d, p), ticker |-> d.target, priced |-> id]
    BY <1>1, <1>4, <2>1, <2>4 DEF Answer
  <2>10. a \in Line
    BY <1>1, <2>8, <2>9 DEF Line, Challenge
  <2>11. ReadableAnswer(a)
    BY <2>1, <2>4, <2>6, <2>7, <2>9 DEF ReadableAnswer
  <2>. QED BY <2>10, <2>11
<1>. QED BY <1>3, <1>4

LEMMA ReceiveStep ==
    ASSUME IInv, NEW c \in Clients, Receive(c)
    PROVE  IInv'
<1> USE DEF Receive, serverVars
<1>1. PICK id \in DOMAIN datagrams :
        /\ Scan(c, datagrams[id])
        /\ received' = [received EXCEPT ![c] = received[c] \o Answers(c, datagrams[id])]
  OBVIOUS
<1> DEFINE d == datagrams[id]
           new == Answers(c, d)
<1>2. /\ datagrams \in Seq(Challenge)
      /\ received \in [Clients -> Seq(Line)] /\ received[c] \in Seq(Line)
      /\ id \in 1 .. Len(datagrams)
  BY LenProperties DEF IInv, TypeOK
<1>3. d \in Challenge
  BY <1>2, ElementOfSeq
<1> DEFINE ticker == TickerAt(Overwrite(buffer[c], d), TargetPointer(c, d))
           a == Answer(d, IdPointer(c, d), ticker)
<1>4. \/ new = <<>>
      \/ new = <<a>> /\ a \in Line /\ (a = Malformed \/ ReadableAnswer(a))
  <2>1. CASE ticker \in {None, d.first}
    BY <2>1 DEF Answers
  <2>2. CASE ticker \notin {None, d.first}
    <3>1. new = <<a>>
      BY <2>2 DEF Answers
    <3>2. a \in Line /\ (a = Malformed \/ ReadableAnswer(a))
      BY <2>2, AnswerIsReadable
    <3>. QED BY <3>1, <3>2
  <2>. QED BY <2>1, <2>2
<1>5. /\ new \in Seq(Line)
      /\ Len(new) \in {0, 1}
      /\ \A i \in 1 .. Len(new) : new[i] = Malformed \/ ReadableAnswer(new[i])
  <2> HIDE DEF new, d, a
  <2>1. CASE new = <<>>
    BY <2>1
  <2>2. CASE new = <<a>> /\ a \in Line /\ (a = Malformed \/ ReadableAnswer(a))
    <3>1. new \in Seq(Line) /\ Len(new) = 1 /\ new[1] = a
      BY <2>2
    <3>. QED BY <2>2, <3>1
  <2>. QED BY <1>4, <2>1, <2>2
<1>6. /\ received[c] \o new \in Seq(Line)
      /\ Len(received[c] \o new) = Len(received[c]) + Len(new)
      /\ \A i \in 1 .. Len(received[c]) + Len(new) :
           (received[c] \o new)[i] =
             IF i <= Len(received[c]) THEN received[c][i] ELSE new[i - Len(received[c])]
  BY <1>2, <1>5, ConcatProperties
<1>7. received' \in [Clients -> Seq(Line)]
  BY <1>1, <1>2, <1>6
<1>8. /\ targetSec' = [targetSec EXCEPT ![c] = TargetPointer(c, d)]
      /\ challengeId' = [challengeId EXCEPT ![c] = IdPointer(c, d)]
      /\ buffer' = [buffer EXCEPT ![c] = Overwrite(buffer[c], d)]
      /\ UNCHANGED <<connection, attempt>>
  BY <1>1 DEF Scan
<1>9. /\ targetSec' \in [Clients -> Int]
      /\ challengeId' \in [Clients -> [at : Int, len : Int]]
      /\ PointerInv'
  <2>1. /\ TargetPointer(c, d) \in Int
        /\ IdPointer(c, d) \in [at : Int, len : Int]
        /\ PointsTogether(TargetPointer(c, d), IdPointer(c, d))
    BY <1>3, PointersAfterScan
  <2>2. targetSec \in [Clients -> Int] /\ challengeId \in [Clients -> [at : Int, len : Int]]
    BY DEF IInv, TypeOK
  <2>3. \A k \in Clients :
          /\ targetSec'[k] = IF k = c THEN TargetPointer(c, d) ELSE targetSec[k]
          /\ challengeId'[k] = IF k = c THEN IdPointer(c, d) ELSE challengeId[k]
    BY <1>8, <2>2
  <2>4. \A k \in Clients : PointsTogether(targetSec'[k], challengeId'[k])
    BY <2>1, <2>3 DEF IInv, PointerInv
  <2>. QED BY <1>8, <2>1, <2>2, <2>4 DEF PointerInv
<1>10. listening' \in BOOLEAN
  BY DEF IInv, TypeOK
<1>11. TypeOK'
  <2>1. Overwrite(buffer[c], d) \in SUBSET Challenge
    BY <1>3 DEF Overwrite, IInv, TypeOK
  <2>2. buffer' \in [Clients -> SUBSET Challenge]
    BY <1>8, <2>1 DEF IInv, TypeOK
  <2>. QED BY <1>7, <1>8, <1>9, <1>10, <2>2 DEF IInv, TypeOK
<1>12. LineInv'
  <2> SUFFICES ASSUME NEW line \in Pending'
               PROVE  line = Malformed \/ ReadableAnswer(line)
    BY DEF LineInv, ReadableAnswer
  <2>0. PICK k \in Clients : \E i \in DOMAIN received'[k] : line = received'[k][i]
    BY PendingMemberNext
  <2>1. PICK i \in DOMAIN received'[k] : line = received'[k][i]
    BY <2>0
  <2>2. CASE k # c
    <3>1. received'[k] = received[k]
      BY <1>1, <1>2, <2>2
    <3>2. line \in Pending
      BY <2>1, <3>1, PendingMember
    <3>. QED BY <3>2 DEF IInv, LineInv
  <2>3. CASE k = c
    <3>1. received'[c] = received[c] \o new
      BY <1>1, <1>2
    <3>2. i \in 1 .. Len(received[c]) + Len(new) /\ Len(received[c]) \in Nat
      BY <1>2, <1>6, <2>1, <2>3, <3>1, LenProperties
    <3>3. CASE i <= Len(received[c])
      <4>1. line = received[c][i] /\ i \in DOMAIN received[c]
        BY <1>2, <1>6, <2>1, <2>3, <3>1, <3>2, <3>3, LenProperties
      <4>2. line \in Pending
        BY <4>1, PendingMember
      <4>. QED BY <4>2 DEF IInv, LineInv
    <3>4. CASE i > Len(received[c])
      <4> HIDE DEF new
      <4>1. line = new[i - Len(received[c])]
        BY <1>6, <2>1, <2>3, <3>1, <3>2, <3>4
      <4>2. i - Len(received[c]) \in 1 .. Len(new)
        BY <1>5, <3>2, <3>4
      <4>. QED BY <1>5, <4>1, <4>2
    <3>. QED BY <3>2, <3>3, <3>4
  <2>. QED BY <2>2, <2>3
<1>13. BroadcastInv' /\ DatagramInv' /\ OnlyReadableChallengesAreWon'
  BY DEF IInv, BroadcastInv, DatagramInv, OnlyReadableChallengesAreWon, SameContent
<1>. QED BY <1>9, <1>11, <1>12, <1>13 DEF IInv

-----------------------------------------------------------------------------
LEMMA NextInv == IInv /\ [Next]_vars => IInv'
<1> SUFFICES ASSUME IInv, [Next]_vars PROVE IInv'
  OBVIOUS
<1>1. CASE Server
  BY <1>1, GenerateStep, PublishStep, BroadcastStep, ListenStep, AcceptStep,
     HandleLineStep DEF Server
<1>2. ASSUME NEW c \in Clients, Client(c) PROVE IInv'
  BY <1>2, ConnectStep, ReceiveStep DEF Client
<1>3. CASE UNCHANGED vars
  <2> USE <1>3 DEF vars
  <2>1. listening' \in BOOLEAN
    BY DEF IInv, TypeOK
  <2>2. TypeOK'
    BY <2>1 DEF IInv, TypeOK
  <2>. QED BY <2>2, FrameStep DEF IInv
<1>. QED BY <1>1, <1>2, <1>3 DEF Next

\* The invariant of the game (main_server.cpp and client.cpp) is inductive.
THEOREM GameInvariant == Spec => []IInv
<1>. QED BY InitInv, NextInv, PTL DEF Spec

\* The variables of server and clients have their types.
THEOREM GameTypeOK == Spec => []TypeOK
<1>1. IInv => TypeOK
  BY DEF IInv
<1>. QED BY <1>1, GameInvariant, PTL

\* Since a challenge is published (line 92) before it is sent (105), no answer
\* to it reaches the server before it is current.
THEOREM NoEarlyAnswer == Spec => []NoAnswerIsEarly
<1>1. IInv => NoAnswerIsEarly
  <2> SUFFICES ASSUME IInv, NEW line \in Pending PROVE line.priced <= current_challenge.id
    BY DEF NoAnswerIsEarly
  <2>1. /\ current_challenge.id \in Nat /\ newChallenge.id \in Nat
        /\ Len(datagrams) \in Nat /\ DOMAIN datagrams = 1 .. Len(datagrams)
    BY LenProperties DEF IInv, TypeOK, Challenge
  <2>2. Len(datagrams) <= current_challenge.id
    <3>1. broadcaster \in {"generate", "publish", "send"} /\ BroadcastInv
      BY DEF IInv, TypeOK
    <3>. QED BY <2>1, <3>1 DEF BroadcastInv
  <2>3. CASE line = Malformed
    BY <2>1, <2>3 DEF Malformed
  <2>4. CASE ReadableAnswer(line)
    BY <2>1, <2>2, <2>4 DEF ReadableAnswer
  <2>. QED BY <2>3, <2>4 DEF IInv, LineInv
<1>. QED BY <1>1, GameInvariant, PTL

\* Wherever in its buffer a client's pointers are left by earlier datagrams, an
\* answer that parses has the target and the prices of one challenge, and its id
\* or the last digits of it (client.cpp, lines 110-145).
THEOREM ConsistentAnswers == Spec => []AnswersAreConsistent
<1>1. IInv => AnswersAreConsistent
  BY DEF IInv, LineInv, ReadableAnswer, AnswersAreConsistent
<1>. QED BY <1>1, GameInvariant, PTL

\* Only a challenge that a client can read is won (lines 161-178).
THEOREM OnlyReadableWins == Spec => []OnlyReadableChallengesAreWon
<1>1. IInv => OnlyReadableChallengesAreWon
  BY DEF IInv
<1>. QED BY <1>1, GameInvariant, PTL

\* The server implements the rounds specification: each challenge has at most
\* one winner, declared while it is current (lines 90-93 and 161-180).
THEOREM GameFollowsRounds == Spec => FollowsRounds
<1>1. Init => CR!Init
  BY DEF Init, ServerInit, NoChallenge, CR!Init
<1>2. IInv /\ [Next]_vars => [CR!Next]_CR!rvars
  <2> SUFFICES ASSUME IInv, [Next]_vars PROVE [CR!Next]_CR!rvars
    OBVIOUS
  <2> USE DEF CR!rvars
  <2>1. CASE Publish
    BY <2>1 DEF Publish, IInv, BroadcastInv, CR!Next, CR!NewRound
  <2>2. ASSUME NEW c \in Clients, HandleLine(c) PROVE [CR!Next]_CR!rvars
    <3>1. current_challenge \in Challenge
      BY DEF IInv, TypeOK
    <3>2. CASE Wins(Head(received[c]))
      <4>1. /\ current_challenge' = [current_challenge EXCEPT !.winner = c]
            /\ current_challenge.winner = None
            /\ current_challenge.id # 0
        BY <2>2, <3>2 DEF HandleLine, ProcessOrder, Wins
      <4>2. CR!Win(c)
        BY <3>1, <4>1 DEF CR!Win, Challenge
      <4>. QED BY <4>2 DEF CR!Next
    <3>3. CASE ~Wins(Head(received[c]))
      BY <2>2, <3>3 DEF HandleLine, ProcessOrder
    <3>. QED BY <3>2, <3>3
  <2>3. ASSUME current_challenge' = current_challenge PROVE [CR!Next]_CR!rvars
    BY <2>3
  <2>4. CASE Server
    BY <2>1, <2>2, <2>3, <2>4 DEF Server, Generate, Broadcast, Sent, Listen,
       AcceptConnection, Accept, serverVars
  <2>5. CASE \E c \in Clients : Client(c)
    BY <2>3, <2>5 DEF Client, Receive, serverVars
  <2>6. CASE UNCHANGED vars
    BY <2>3, <2>6 DEF vars
  <2>. QED BY <2>4, <2>5, <2>6 DEF Next
<1>. QED BY <1>1, <1>2, GameInvariant, PTL DEF Spec, FollowsRounds, CR!Spec
=============================================================================
