----------------------------- MODULE KernelCalls -----------------------------
(***************************************************************************)
(* The sequential routines of phase_1, phase_5, hw_1, hw_2, hw_5.  The     *)
(* loops over arrays are one step: one call, with any arguments from the   *)
(* bounds, and what it does, in order, or that it throws.  The heap of     *)
(* hw_5 and the trade engine of hw_2 run on from the call that makes them. *)
(***************************************************************************)
EXTENDS MatrixKernels, MovingAverages, HeapQueue, TradeEngine

CONSTANTS
  Rows,     \* the row counts tried, zero among them
  Widths,   \* the column counts tried, zero among them
  Points,   \* the lengths of a price series tried
  Windows,  \* the window sizes tried, at least one
  Sizes     \* the values of SIZE, and the lengths of a batch of orders, tried

ASSUME DimensionsAreNatural == Rows \cup Widths \cup Points \cup Sizes \subseteq Nat
ASSUME WindowsArePositive == Windows \subseteq Nat \ {0}

VARIABLES
  call,     \* the routine and its arguments, before the first: none
  threw,    \* whether it threw std::invalid_argument
  trace     \* what its loops did, in order
callVars == <<call, threw, trace>>
vars == <<call, threw, trace, heapVars, engineVars>>

Init ==
  /\ call = [routine |-> "none"] /\ threw = FALSE /\ trace = <<>>
  /\ HeapInit /\ EngineInit

\* present: no pointer argument is null.
CallMv(kernel, Run(_, _)) ==
  \E rows \in Rows, cols \in Widths, present \in BOOLEAN :
    /\ call' = [routine |-> kernel, rows |-> rows, cols |-> cols]
    /\ threw' = ~AcceptsMv(kernel, present, rows, cols)
    /\ trace' = IF threw' THEN <<>> ELSE Run(rows, cols)

CallMm(kernel, Run(_, _, _, _)) ==
  \E rowsA \in Rows, colsA, colsB \in Widths, present \in BOOLEAN :
    \E rowsB \in {colsA, colsA + 1} :
      /\ call' = [routine |-> kernel, rowsA |-> rowsA, colsA |-> colsA,
                  rowsB |-> rowsB, colsB |-> colsB]
      /\ threw' = ~AcceptsMm(present, rowsA, colsA, rowsB, colsB)
      /\ trace' = IF threw' THEN <<>> ELSE Run(rowsA, colsA, rowsB, colsB)

CallSum(routine, Run(_)) ==
  \E SIZE \in Sizes :
    /\ call' = [routine |-> routine, size |-> SIZE]
    /\ threw' = FALSE
    /\ trace' = Run(SIZE)

CallAverage(routine, Run(_, _)) ==
  \E points \in Points, w \in Windows :
    /\ call' = [routine |-> routine, points |-> points, windowSize |-> w]
    /\ threw' = ~Accepts(points, w)
    /\ trace' = IF threw' THEN <<>> ELSE Run(points, w)

\* OptimizedOrderBook of phase_5: two orders of the batch per turn.
processOrdersUnrolled(n) ==
  LET From[i \in Nat] ==
        IF i < n THEN (IF i + 1 < n THEN <<i, i + 1>> ELSE <<i>>) \o From[i + 2] ELSE <<>>
  IN From[0]

CallKernel ==
  \/ CallMv("multiply_mv_row_major_opt", multiply_mv_row_major_opt)
  \/ CallMv("multiply_mv_col_major", multiply_mv_col_major)
  \/ CallMv("multiply_mv_col_major_opt", multiply_mv_col_major_opt)
  \/ CallMm("multiply_mm_naive", multiply_mm_naive)
  \/ CallMm("multiply_mm_naive_loop", multiply_mm_naive_loop)
  \/ CallMm("multiply_mm_naive_unroll", multiply_mm_naive_unroll)
  \/ CallMm("multiply_mm_naive_opt", multiply_mm_naive_opt)
  \/ CallMm("multiply_mm_transposed_b", multiply_mm_transposed_b)
  \/ CallMm("multiply_mm_transposed_b_opt", multiply_mm_transposed_b_opt)
  \/ CallSum("sumMatrixBasic", sumMatrixBasic)
  \/ CallSum("sumMatrixOptimized", sumMatrixOptimized)
  \/ CallSum("processOrdersUnrolled", processOrdersUnrolled)
  \/ CallAverage("movingAverageNormal", movingAverageNormal)
  \/ CallAverage("movingAverageSIMD", movingAverageSIMD)

\* TradeEngine engine(feed), the feed being one that generateData() makes.
CallEngine ==
  /\ call' = [routine |-> "TradeEngine"] /\ market_data' \in generateData
  /\ UNCHANGED <<threw, trace, processed, price_history, s, orders, arrived>>

CallHeap == call' = [routine |-> "HeapPriorityQueue"] /\ UNCHANGED <<threw, trace, engineVars>>

Next ==
  \/ /\ call.routine = "none"
     /\ \/ CallKernel /\ UNCHANGED engineVars
        \/ CallEngine
        \/ CallHeap
     /\ UNCHANGED heapVars
  \/ call.routine = "TradeEngine" /\ process /\ UNCHANGED <<callVars, heapVars>>
  \/ call.routine = "HeapPriorityQueue" /\ HeapNext /\ UNCHANGED <<callVars, engineVars>>

Spec == Init /\ [][Next]_vars

-----------------------------------------------------------------------------
(* The products of the textbook definitions, elements named by the flat    *)
(* layout each kernel's arguments have.                                    *)

ProductMv(c) ==
  LET Place(i, j) == IF c.routine = "multiply_mv_row_major_opt" THEN i * c.cols + j
                                                                ELSE j * c.rows + i
  IN {Product(i, Place(i, j), j) : i \in 0..(c.rows - 1), j \in 0..(c.cols - 1)}

\* Where the caller keeps element (k, j) of B: in B itself or in its transpose.
ProductMm(c) ==
  LET stores == ToSet(TransposedB(c.rowsB, c.colsB))
      InB(k, j) == k * c.colsB + j
      Place(k, j) == IF c.routine \in {"multiply_mm_transposed_b", "multiply_mm_transposed_b_opt"}
                     THEN (CHOOSE st \in stores : st.from = InB(k, j)).to ELSE InB(k, j)
      B == [k \in 0..(c.rowsB - 1) |-> [j \in 0..(c.colsB - 1) |-> Place(k, j)]]
  IN {Product(i * c.colsB + j, i * c.colsA + k, B[k][j]) :
        i \in 0..(c.rowsA - 1), j \in 0..(c.colsB - 1), k \in 0..(c.colsA - 1)}

Ran(routines) == call.routine \in routines /\ ~threw

(* Every matrix kernel adds each product of the definition to its cell,    *)
(* once, and touches nothing outside the arrays: the strict and the        *)
(* inclusive bounds of the unrolled loops of phase_1/src.cpp, the pointers *)
(* that run on between rows, and the transposed layout its benchmark       *)
(* prepares.  multiply_mm_naive_opt is included when A is square: its rows *)
(* end at colsA * rowsB (line 182), so that of 2x3 by 3x2, a call of       *)
(* tests/test_src.cpp:91, it takes a third row.  The sums of hw_1 take     *)
(* every element of the matrix, and phase_5's processOrdersUnrolled every  *)
(* order of its batch, once and in order.                                  *)
LoopsMissNothing ==
  /\ Ran({"multiply_mv_row_major_opt", "multiply_mv_col_major", "multiply_mv_col_major_opt"}) =>
       ListsOnce(trace, ProductMv(call))
  /\ Ran({"multiply_mm_naive", "multiply_mm_naive_loop", "multiply_mm_naive_unroll",
          "multiply_mm_transposed_b", "multiply_mm_transposed_b_opt"}) =>
       ListsOnce(trace, ProductMm(call))
  /\ Ran({"multiply_mm_naive_opt"}) /\ call.rowsA = call.colsA =>
       ListsOnce(trace, ProductMm(call))
  /\ Ran({"sumMatrixBasic", "sumMatrixOptimized"}) => trace = Upto(call.size * call.size)
  /\ Ran({"processOrdersUnrolled"}) => trace = Upto(call.size)

(* Both moving averages of hw_5 store each average once, from prefix sums  *)
(* that exist and differ by the windowSize prices from there on, the one   *)
(* left over from the steps of two included.                               *)
AveragesCoverTheirWindows ==
  Ran({"movingAverageNormal", "movingAverageSIMD"}) =>
    LET c == PrefixSums(call.points)
        w == call.windowSize
    IN /\ ListsOnce([i \in DOMAIN trace |-> trace[i].at], 0..(call.points - w))
       /\ \A st \in ToSet(trace) :
            /\ {st.hi, st.lo} \subseteq DOMAIN c
            /\ c[st.lo] \subseteq c[st.hi]
            /\ c[st.hi] \ c[st.lo] = st.at..(st.at + w - 1)
=============================================================================
