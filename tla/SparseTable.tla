---------------------------- MODULE SparseTable -----------------------------
(***************************************************************************)
(* SparseTable of sparse_table.h with its default operation, the maximum.  *)
(* The table starts as zeros; entries that would reach past the end are    *)
(* computed from such zeros or left alone.                                 *)
(***************************************************************************)
EXTENDS Integers

CONSTANTS MaxElements,  \* bound: v.size()
          Low, High     \* elements are -Low .. High

ASSUME SparseAssumption == MaxElements \in Nat /\ Low \in Nat /\ High \in Nat

VARIABLES elements,  \* v, from 0 on
          table,     \* sparse_table_, by columns
          queried    \* the last query: what it returned and what it should have

sparseVars == <<elements, table, queried>>

ElementValues == (-Low)..High
MaxOp(a, b) == IF a >= b THEN a ELSE b

\* 1 << e.
Shl1[e \in Nat] == IF e = 0 THEN 1 ELSE 2 * Shl1[e - 1]

\* ceil(log2(n)).
CeilLog2(n) == CHOOSE e \in 0..n : Shl1[e] >= n /\ \A d \in 0..(e - 1) : Shl1[d] < n

\* Mutant: the halves of a range are one element too far apart.
ColumnShifted(prev, j, len) ==
    LET pj == Shl1[j - 1]
    IN  [i \in 0..(len - 1) |-> IF i + pj + 1 < len THEN MaxOp(prev[i], prev[i + pj + 1]) ELSE 0]

\* Column j from column j - 1.
Column(prev, j, len) ==
    LET pj == Shl1[j - 1]
    IN  [i \in 0..(len - 1) |-> IF i + pj < len THEN MaxOp(prev[i], prev[i + pj]) ELSE 0]

\* One turn of the constructor's loop over the columns.
ColumnTurn(w, len) == [j |-> w.j + 1, column |-> Column(w.column, w.j + 1, len)]

\* The constructor.
Build(v, len) ==
    LET at[n \in Nat] == IF n = 0 THEN [j |-> 0, column |-> v] ELSE ColumnTurn(at[n - 1], len)
    IN  [j \in 0..CeilLog2(len) |-> at[j].column]

SparseInit ==
    \E len \in 1..MaxElements :
        /\ elements \in [0..(len - 1) -> ElementValues]
        /\ table = Build(elements, len)
        /\ queried = [got |-> 0, want |-> 0]

\* Two overlapping halves of length 2^q.  For a single element q is -1: the
\* subscript and the shift are undefined, and any value may come back.
QueryResults(l, r) ==
    LET q == CeilLog2(r - l + 1) - 1
    IN  IF q < 0 THEN ElementValues ELSE {MaxOp(table[q][l], table[q][r - Shl1[q] + 1])}

Maximum(S) == CHOOSE m \in S : \A n \in S : n <= m

Query(l, r) ==
    /\ \E got \in QueryResults(l, r) :
          queried' = [got |-> got, want |-> Maximum({elements[i] : i \in l..r})]
    /\ UNCHANGED <<elements, table>>

SparseNext == \E l, r \in DOMAIN elements : l < r /\ Query(l, r)

SparseSpec == SparseInit /\ [][SparseNext]_sparseVars

NextAny == \E l, r \in DOMAIN elements : l <= r /\ Query(l, r)

SpecAny == SparseInit /\ [][NextAny]_sparseVars
-----------------------------------------------------------------------------
\* A query of two or more elements returns their maximum; the zeros in the
\* unfilled part of the table never get into it, not even over negative elements.
QueryIsMaximum == queried.got = queried.want

\* The same for every range, as the test asks (sparse_table_test.cc:2).
\* The code breaks it: README, "Disagreements without a run".
AnyQueryIsMaximum == queried.got = queried.want
=============================================================================
