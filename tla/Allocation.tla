----------------------------- MODULE Allocation -----------------------------
(***************************************************************************)
(* Algorithm.allocateMatrix, the Hungarian-style allocation of the         *)
(* scheduler: it reduces the rows and the columns of a square cost matrix, *)
(* repeats rounds of marking and adjusting until all rows are marked, and  *)
(* then searches by backtracking for a zero in each row, in distinct       *)
(* columns.  Costs are integers here; rows and columns count from 0.       *)
(***************************************************************************)
EXTENDS Integers, FiniteSetsExt, FiniteSets

CONSTANT Matrices   \* the square matrices it may be called with

ASSUME AllocationAssumption ==
  \A m \in Matrices :
     LET n == Cardinality(DOMAIN m)
     IN  IsFiniteSet(DOMAIN m) /\ m \in [0..(n - 1) -> [0..(n - 1) -> Int]]

VARIABLES
  costs,      \* history: the matrix it was called with
  matrix,     \* the same array, which it overwrites
  pc,         \* "reduce", "rounds", "search", "returned" or "broken"
  result,     \* possible_allocations, -1 where a row has no column
  allocated,  \* the columns real_allocate takes to be given out
  pos         \* the row real_allocate is at

vars == <<costs, matrix, pc, result, allocated, pos>>

Rows == DOMAIN costs
Size == Cardinality(Rows)

Init ==
  /\ costs \in Matrices
  /\ matrix = costs
  /\ pc = "reduce"
  /\ result = [i \in Rows |-> 0]
  /\ allocated = {}
  /\ pos = 0

-----------------------------------------------------------------------------
(* Faulty variants of the helpers below; no action uses them. *)

AnyZero(taken) == {j \in Rows : matrix[pos][j] = 0}

-----------------------------------------------------------------------------
\* decrement_rows, then decrement_columns.
RowsReduced(m) ==
  [i \in DOMAIN m |->
     [j \in DOMAIN m |-> m[i][j] - Min({m[i][k] : k \in DOMAIN m})]]
ColumnsReduced(m) ==
  [i \in DOMAIN m |->
     [j \in DOMAIN m |-> m[i][j] - Min({m[k][j] : k \in DOMAIN m})]]

Reduce ==
  /\ pc = "reduce"
  /\ matrix' = ColumnsReduced(RowsReduced(matrix))
  /\ pc' = IF Size = 0 THEN "returned" ELSE "rounds"
  /\ UNCHANGED <<costs, result, allocated, pos>>

-----------------------------------------------------------------------------
(* find_all_zeros *)

\* Row by row, the first zero in a column no row above was given; -1 if none.
AssignedRow(m) ==
  LET a[i \in DOMAIN m] ==
        LET zeros == {j \in DOMAIN m : m[i][j] = 0 /\ \A k \in 0..(i - 1) : a[k] # j}
        IN  IF zeros = {} THEN -1 ELSE Min(zeros)
  IN  a

ColumnsWithZero(m, rows) == {j \in DOMAIN m : \E i \in rows : m[i][j] = 0}

\* Marking goes on until nothing changes: the unassigned rows are marked, the
\* columns with a zero in a marked row, and the rows assigned a marked column.
ClosedMarking(m, rows) ==
  LET a == AssignedRow(m)
  IN  {i \in DOMAIN m : a[i] = -1 \/ a[i] \in ColumnsWithZero(m, rows)} \subseteq rows
MarkedRows(m) ==
  CHOOSE rows \in SUBSET (DOMAIN m) :
     /\ ClosedMarking(m, rows)
     /\ \A other \in SUBSET (DOMAIN m) : ClosedMarking(m, other) => rows \subseteq other

\* The least entry of the unmarked rows in the marked columns; matrix[0][0]
\* takes part whether it is one of them or not.
LeastOf(marked, columns) ==
  Min({matrix[0][0]} \cup {matrix[i][j] : i \in Rows \ marked, j \in columns})

\* A round that leaves some row unmarked takes the least entry from the
\* unmarked rows in the marked columns and adds it to the marked ones.
Round ==
  /\ pc = "rounds"
  /\ LET marked == MarkedRows(matrix)
         columns == ColumnsWithZero(matrix, marked)
         min == LeastOf(marked, columns)
     IN  /\ marked # Rows
         /\ matrix' = [i \in Rows |-> [j \in Rows |->
                         IF j \notin columns THEN matrix[i][j]
                         ELSE IF i \in marked THEN matrix[i][j] + min
                         ELSE matrix[i][j] - min]]
  /\ UNCHANGED <<costs, pc, result, allocated, pos>>

\* The rounds end when all rows are marked; real_allocate begins.
EndRounds ==
  /\ pc = "rounds"
  /\ MarkedRows(matrix) = Rows
  /\ result' = [i \in Rows |-> -1]
  /\ allocated' = {}
  /\ pos' = 0
  /\ pc' = "search"
  /\ UNCHANGED <<costs, matrix>>

-----------------------------------------------------------------------------
(* real_allocate *)

\* The columns to try: those after the one the row holds.
Further == {j \in Rows : j > result[pos]}

\* Trying the first of them gives back the column the row holds.
GivenBack == IF Further = {} THEN allocated ELSE allocated \ {result[pos]}

\* The columns the row may be given.
Candidates(taken) == {j \in Rows : matrix[pos][j] = 0 /\ j \notin taken}

ColumnsToTry == Further \cap Candidates(GivenBack)

Place ==
  /\ pc = "search"
  /\ pos \in Rows
  /\ ColumnsToTry # {}
  /\ result' = [result EXCEPT ![pos] = Min(ColumnsToTry)]
  /\ allocated' = GivenBack \cup {Min(ColumnsToTry)}
  /\ pos' = pos + 1
  /\ UNCHANGED <<costs, matrix, pc>>

\* A row that runs out of columns holds none.
Unplaced == -1

Backtrack ==
  /\ pc = "search"
  /\ pos \in Rows
  /\ ColumnsToTry = {}
  /\ result' = [result EXCEPT ![pos] = Unplaced]
  /\ allocated' = GivenBack
  /\ pos' = pos - 1
  /\ UNCHANGED <<costs, matrix, pc>>

\* Before the first row there is no row: ArrayIndexOutOfBoundsException.
ThrowIndex ==
  /\ pc = "search"
  /\ pos = -1
  /\ pc' = "broken"
  /\ UNCHANGED <<costs, matrix, result, allocated, pos>>

Return ==
  /\ pc = "search"
  /\ pos = Size
  /\ pc' = "returned"
  /\ UNCHANGED <<costs, matrix, result, allocated, pos>>

SearchStep == Place \/ Backtrack \/ ThrowIndex \/ Return

Next == Reduce \/ Round \/ EndRounds \/ SearchStep

Spec == Init /\ [][Next]_vars

\* A sequential program: it takes its next step; the search does if the search
\* is all one looks at.
SearchFairness == WF_vars(SearchStep)
Fairness == WF_vars(Next)

FairSpec == Spec /\ Fairness

-----------------------------------------------------------------------------
TypeOK ==
  /\ costs \in Matrices
  /\ matrix \in [Rows -> [Rows -> Int]]
  /\ pc \in {"reduce", "rounds", "search", "returned", "broken"}
  /\ result \in [Rows -> -1..(Size - 1)]
  /\ allocated \subseteq Rows
  /\ pos \in -1..Size

\* The rounds, whatever they mark, leave no entry below zero: a zero stays a
\* least entry, which the marking and the search rely on.
NonNegative == pc # "reduce" => \A i, j \in Rows : matrix[i][j] >= 0

\* The rounds come to nothing: only a matrix whose rows are all marked the first
\* time leaves them, as the reductions have made it.
RoundsComeToNothing ==
  pc \in {"search", "returned", "broken"} => matrix = ColumnsReduced(RowsReduced(costs))

\* At every point of the search, after any backtracking, the rows above pos
\* hold zeros in distinct columns.
PartialAllocation ==
  pc = "search" =>
     \A i \in 0..(pos - 1) :
        /\ result[i] \in Rows
        /\ matrix[i][result[i]] = 0
        /\ \A k \in 0..(i - 1) : result[k] # result[i]

\* The backtracking never runs in a circle: once the search has begun, the call
\* returns or throws.
SearchEnds == (pc = "search") ~> (pc \in {"returned", "broken"})

Permutations == {f \in [Rows -> Rows] : \A i, k \in Rows : f[i] = f[k] => i = k}
Cost(f) == FoldFunction(+, 0, [i \in Rows |-> costs[i][f[i]]])

\* An allocation that is returned gives each row a column of its own at the
\* least total cost.
Optimal ==
  pc = "returned" =>
     /\ result \in Permutations
     /\ \A f \in Permutations : Cost(result) <= Cost(f)

\* The call returns, as AlgorithmTest expects of the matrix {{1}}.
Returns == <>(pc = "returned")
=============================================================================
