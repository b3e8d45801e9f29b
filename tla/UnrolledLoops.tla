---------------------------- MODULE UnrolledLoops ----------------------------
(***************************************************************************)
(* The loops of the numerical code (phase_1, hw_1, hw_5, phase_5) as the   *)
(* sequences of offsets they visit, in order.  What is read or written at  *)
(* an offset is data; which offsets are visited, how often and in which    *)
(* order is what unrolling can get wrong.                                  *)
(***************************************************************************)
EXTENDS Integers, Sequences, FiniteSets, SequencesExt

\* for (i = 0; i < n; ++i)
Upto(n) == [i \in 1..n |-> i - 1]

\* for (p = 0; p < end; p += step), step > 0
Strides(end, step) == [i \in 1..((end + step - 1) \div step) |-> (i - 1) * step]

\* A loop that takes u offsets at a time while the first of them is less than
\* limit, and the remaining ones singly.
Sweep(n, u, limit) ==
  LET Rest[p \in Nat] == IF p < n THEN <<p>> \o Rest[p + 1] ELSE <<>>
      Main[p \in Nat] == IF p < limit THEN [i \in 1..u |-> p + i - 1] \o Main[p + u]
                                      ELSE Rest[p]
  IN Main[0]

\* The turns of a loop over ys inside a loop over xs.
Nest(xs, ys) == FlattenSeq([i \in DOMAIN xs |-> [j \in DOMAIN ys |-> <<xs[i], ys[j]>>]])

\* What two and three nested loops do, Turn being what the innermost does.
Each2(xs, ys, Turn(_, _)) ==
  LET turns == Nest(xs, ys) IN [n \in DOMAIN turns |-> Turn(turns[n][1], turns[n][2])]

Each3(xs, ys, zs, Turn(_, _, _)) ==
  LET turns == Nest(xs, Nest(ys, zs))
  IN [n \in DOMAIN turns |-> Turn(turns[n][1], turns[n][2][1], turns[n][2][2])]

\* Every member of S is in seq, once, and nothing else is.
ListsOnce(seq, S) == ToSet(seq) = S /\ Len(seq) = Cardinality(S)
=============================================================================
