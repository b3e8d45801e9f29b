---------------------------- MODULE MatrixKernels ----------------------------
(***************************************************************************)
(* The matrix kernels of phase_1/src.cpp, each as the sequence of products *)
(* it accumulates: [cell |-> c, a |-> i, b |-> j] adds element i of the    *)
(* first array times element j of the second to cell c of the result,      *)
(* which std::fill has zeroed.  The arrays are flat and indexed from zero  *)
(* as in the code.  The elements themselves, and the grouping of the sums  *)
(* in several accumulators, do not matter to which products are added.     *)
(***************************************************************************)
EXTENDS Integers, Sequences, UnrolledLoops

Product(c, i, j) == [cell |-> c, a |-> i, b |-> j]

-----------------------------------------------------------------------------
(* Matrix by vector.                                                       *)

\* Mutant: steps of eight under the bound of a loop in steps of four.
DotBoundOfFour(n) == Sweep(n, 8, n - 4)

\* Eight offsets while the pointer is more than eight from the end: p < n - 8.
vector_dot(n) == Sweep(n, 8, n - 8)

\* m_ptr advances by cols with each row.
multiply_mv_row_major_opt(rows, cols) ==
  Each2(Upto(rows), vector_dot(cols), LAMBDA i, p : Product(i, i * cols + p, p))

multiply_mv_col_major(rows, cols) ==
  Each2(Upto(cols), Upto(rows), LAMBDA j, i : Product(i, j * rows + i, j))

\* Four rows while four are left: i <= rows - 4.
FourRows(rows) == Sweep(rows, 4, rows - 3)

multiply_mv_col_major_opt(rows, cols) ==
  Each2(Upto(cols), FourRows(rows), LAMBDA j, i : Product(i, j * rows + i, j))

-----------------------------------------------------------------------------
(* Matrix by matrix.  rowsB is equal to colsA in every call that gets past *)
(* the checks; each kernel uses the one its code names.                    *)

multiply_mm_naive(rowsA, colsA, rowsB, colsB) ==
  Each3(Upto(rowsA), Upto(colsB), Upto(colsA),
        LAMBDA i, j, k : Product(i * colsB + j, i * colsA + k, k * colsB + j))

multiply_mm_naive_loop(rowsA, colsA, rowsB, colsB) ==
  Each3(Upto(rowsA), Upto(colsA), Upto(colsB),
        LAMBDA i, k, j : Product(i * colsB + j, i * colsA + k, k * colsB + j))

\* Four cells of a row of B while the pointer is more than four from its end:
\* p < colsB - 4.
FourCells(colsB) == Sweep(colsB, 4, colsB - 4)

\* mB_ptr runs on through B while k goes through a row of A.
multiply_mm_naive_unroll(rowsA, colsA, rowsB, colsB) ==
  Each3(Upto(rowsA), Upto(colsA), FourCells(colsB),
        LAMBDA i, k, p : Product(i * colsB + p, i * colsA + k, k * colsB + p))

\* The row pointer of A runs from 0 to mA_ptr_end by colsA; the row pointer of
\* the result advances by colsB with it.
multiply_mm_naive_opt(rowsA, colsA, rowsB, colsB) ==
  LET mA_ptr_end == colsA * rowsB
      mA_ptr_row == Strides(mA_ptr_end, colsA)
  IN Each3(Upto(Len(mA_ptr_row)), Upto(colsA), FourCells(colsB),
           LAMBDA r, k, p : Product(r * colsB + p, mA_ptr_row[r + 1] + k, k * colsB + p))

\* The second array is B transposed: row j of it is column j of B.
multiply_mm_transposed_b(rowsA, colsA, rowsB, colsB) ==
  Each3(Upto(rowsA), Upto(colsB), Upto(colsA),
        LAMBDA i, j, k : Product(i * colsB + j, i * colsA + k, j * rowsB + k))

\* Four products while four are left: k <= colsA - 4.
FourProducts(colsA) == Sweep(colsA, 4, colsA - 3)

multiply_mm_transposed_b_opt(rowsA, colsA, rowsB, colsB) ==
  Each3(Upto(rowsA), Upto(colsB), FourProducts(colsA),
        LAMBDA i, j, k : Product(i * colsB + j, i * colsA + k, j * rowsB + k))

\* The caller of the transposed kernels fills the second array from B: a cell
\* of it, and the cell of B that is stored there.
TransposedB(rowsB, colsB) ==
  Each2(Upto(rowsB), Upto(colsB), LAMBDA r, c : [to |-> c * rowsB + r, from |-> r * colsB + c])

-----------------------------------------------------------------------------
(* The two sums of hw_1 over a matrix of SIZE rows and columns, as the     *)
(* flat offsets they add.                                                  *)

sumMatrixBasic(SIZE) == Each2(Upto(SIZE), Upto(SIZE), LAMBDA i, j : i * SIZE + j)

\* Four elements while ptr <= end_ptr - 4.
sumMatrixOptimized(SIZE) ==
  LET end_ptr == SIZE * SIZE IN Sweep(end_ptr, 4, end_ptr - 3)

-----------------------------------------------------------------------------
(* The checks.  A call throws when a pointer is null, a dimension is not   *)
(* positive, or the dimensions do not match; multiply_mv_col_major checks  *)
(* the pointers only.                                                      *)

AcceptsMv(kernel, present, rows, cols) ==
  present /\ (kernel # "multiply_mv_col_major" => rows > 0 /\ cols > 0)

AcceptsMm(present, rowsA, colsA, rowsB, colsB) ==
  /\ present
  /\ rowsA > 0 /\ colsA > 0 /\ rowsB > 0 /\ colsB > 0
  /\ colsA = rowsB
=============================================================================
