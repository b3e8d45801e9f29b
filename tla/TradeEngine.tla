----------------------------- MODULE TradeEngine -----------------------------
(***************************************************************************)
(* TradeEngine of hw_2/src.cpp: process() over a feed, a tick at a time.   *)
(* Prices are integers and the comparisons with averages and deviations    *)
(* are multiplied out, so that they are exact; time stamps are left out.   *)
(***************************************************************************)
EXTENDS Integers, Sequences, FiniteSets, SequencesExt

CONSTANTS
  Instruments, \* how many instruments a feed has: 10 in generateData()
  Steady,      \* how many ticks at one price a feed may start with
  Ticks,       \* the prices of the ticks of a feed
  MaxTicks     \* how many ticks of any price follow

ASSUME SomeInstruments == Instruments \in Nat \ {0}
ASSUME FeedsAreFinite == Ticks \subseteq Int /\ Steady \subseteq Nat /\ MaxTicks \in Nat

VARIABLES
  market_data,   \* the feed
  processed,     \* how many of its ticks the loop has taken
  price_history, \* per instrument, its window and the running sums of it
  s,             \* the counters s1 to s4
  orders,        \* the orders placed, with the signals they came from
  arrived        \* per instrument, every price it has had
engineVars == <<market_data, processed, price_history, s, orders, arrived>>

Ids == 0..(Instruments - 1)

NoStats == [window |-> <<>>, sum |-> 0, sum_of_squares |-> 0]

\* The ticks go round the instruments.
Feed(prices) ==
  [i \in DOMAIN prices |-> [id |-> (i - 1) % Instruments, price |-> prices[i]]]

\* A feed starts with some ticks at one price, which fills the windows.
generateData ==
  {Feed([i \in 1..n |-> first] \o rest) :
     n \in Steady, first \in Ticks, rest \in BoundedSeq(Ticks, MaxTicks)}

EngineInit ==
  /\ market_data = <<>> /\ processed = 0
  /\ price_history = [id \in Ids |-> NoStats] /\ arrived = [id \in Ids |-> <<>>]
  /\ s = [k \in 1..4 |-> 0] /\ orders = <<>>

\* Mutant: the squares keep the price that leaves the window.
EvictedFromSum(ps) ==
  [ps EXCEPT !.window = Tail(@), !.sum = @ - Head(ps.window)]

Evicted(ps) ==
  LET old_price == Head(ps.window)
  IN [window |-> Tail(ps.window), sum |-> ps.sum - old_price,
      sum_of_squares |-> ps.sum_of_squares - old_price * old_price]

Pushed(ps, price) ==
  [window |-> Append(ps.window, price), sum |-> ps.sum + price,
   sum_of_squares |-> ps.sum_of_squares + price * price]

updateHistory(ps, price) ==
  IF Len(ps.window) + 1 > 10 THEN Evicted(Pushed(ps, price)) ELSE Pushed(ps, price)

Size(ps) == Len(ps.window)

BelowAvg(ps, price) == price * Size(ps) < ps.sum

signal1(price) == price < 105 \/ price > 195

\* More than two percent from the average.
signal2(ps, price) ==
  /\ Size(ps) >= 5
  /\ 100 * Size(ps) * price < 98 * ps.sum \/ 100 * Size(ps) * price > 102 * ps.sum

\* The last two differences are positive.
signal3(ps) ==
  LET n == Size(ps)
  IN n >= 3 /\ ps.window[n - 2] < ps.window[n - 1] /\ ps.window[n - 1] < ps.window[n]

\* More than two standard deviations from the average, both times the size.
signal4(ps, price) ==
  LET off == Size(ps) * price - ps.sum
  IN Size(ps) >= 10 /\ off * off > 4 * (Size(ps) * ps.sum_of_squares - ps.sum * ps.sum)

Signals(ps, price) ==
  {k \in 1..4 : CASE k = 1 -> signal1(price) [] k = 2 -> signal2(ps, price)
                  [] k = 3 -> signal3(ps)    [] k = 4 -> signal4(ps, price)}

\* One turn of the loop.  An order is a buy if any signal asks for one.
process ==
  /\ processed < Len(market_data)
  /\ LET tick == market_data[processed + 1]
         ps == updateHistory(price_history[tick.id], tick.price)
         from == Signals(ps, tick.price)
         buy == from \cap {1, 3} # {} \/ (from # {} /\ BelowAvg(ps, tick.price))
     IN /\ price_history' = [price_history EXCEPT ![tick.id] = ps]
        /\ arrived' = [arrived EXCEPT ![tick.id] = Append(@, tick.price)]
        /\ s' = [k \in 1..4 |-> s[k] + (IF k \in from THEN 1 ELSE 0)]
        /\ orders' = IF from = {} THEN orders
                     ELSE Append(orders, [id |-> tick.id, is_buy |-> buy, from |-> from])
  /\ processed' = processed + 1
  /\ UNCHANGED market_data

-----------------------------------------------------------------------------
LastTen(xs) == IF Len(xs) <= 10 THEN xs ELSE SubSeq(xs, Len(xs) - 9, Len(xs))

Total(xs) ==
  LET sum[i \in 0..Len(xs)] == IF i = 0 THEN 0 ELSE sum[i - 1] + xs[i]
  IN sum[Len(xs)]

(* Whatever has arrived, the window of an instrument of hw_2 holds its     *)
(* last ten prices, and the running sums that averages and deviations come *)
(* from are theirs, though prices enter and leave them one at a time; each *)
(* counter is the number of orders that carry its signal.                  *)
StatsDescribeTheWindow ==
  /\ \A id \in Ids :
       LET ten == LastTen(arrived[id])
       IN price_history[id] =
            [window |-> ten, sum |-> Total(ten),
             sum_of_squares |-> Total([i \in DOMAIN ten |-> ten[i] * ten[i]])]
  /\ \A k \in 1..4 : s[k] = Cardinality({i \in DOMAIN orders : k \in orders[i].from})
=============================================================================
