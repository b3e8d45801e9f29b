---------------------------- MODULE MovingAverages ----------------------------
(***************************************************************************)
(* The moving averages of hw_5/include/time_series.hpp, each as the        *)
(* sequence of its stores: avg[at] becomes the difference of the prefix    *)
(* sums c[hi] and c[lo], divided by the window size.                       *)
(***************************************************************************)
EXTENDS Integers, Sequences, UnrolledLoops

\* The prices that the prefix sum c[i] adds up: c[i + 1] = c[i] + prices[i].
PrefixSums(points) ==
  LET c[i \in 0..points] == IF i = 0 THEN {} ELSE c[i - 1] \cup {i - 1} IN c

Accepts(points, windowSize) == points >= windowSize

\* Mutant: the window that ends at the last price is forgotten.
AveragesButLast(points, windowSize) == points - windowSize

Averages(points, windowSize) == points - windowSize + 1

Store(i, windowSize) == [at |-> i, hi |-> i + windowSize, lo |-> i]

movingAverageNormal(points, windowSize) ==
  [n \in 1..Averages(points, windowSize) |-> Store(n - 1, windowSize)]

\* Two averages while i + 1 < n: each of the two loads takes two prefix sums.
movingAverageSIMD(points, windowSize) ==
  LET n == Averages(points, windowSize)
      is == Sweep(n, 2, n - 1)
  IN [t \in DOMAIN is |-> Store(is[t], windowSize)]
=============================================================================
