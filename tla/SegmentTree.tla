---------------------------- MODULE SegmentTree -----------------------------
(***************************************************************************)
(* SegmentTree of segment_tree.h: sums with lazy additions.  A query is a  *)
(* step too, because it pushes additions down on its way.  range_add takes *)
(* one index past the end as well: segment_tree_test.cc:31 does that.      *)
(***************************************************************************)
EXTENDS Integers, FiniteSets, FiniteSetsExt

CONSTANTS N, Values, MaxAdds

VARIABLES t,      \* [tree, lazy]
          adds,   \* range_add calls so far
          array,  \* the element values that the calls ask for (history)
          answer  \* the last range_sum: what it returned and what it should have

vars == <<t, adds, array, answer>>

Index == 0..(4 * N - 1)
Positions == 0..(N - 1)
Deltas == Values \cup {-v : v \in Values}

Mid(cl, cr) == cl + (cr - cl) \div 2

\* The sum of the array over l..r.
SumOf(a, l, r) == MapThenSumSet(LAMBDA i : a[i], l..r)

\* _build.
RECURSIVE Build(_, _, _, _, _)
Build(a, tree, root, cl, cr) ==
    LET cm == Mid(cl, cr)
        both == Build(a, Build(a, tree, 2 * root + 1, cl, cm), 2 * root + 2, cm + 1, cr)
    IN  IF cl = cr THEN [tree EXCEPT ![root] = a[cl]]
        ELSE [both EXCEPT ![root] = both[2 * root + 1] + both[2 * root + 2]]

\* init, with and without the values.
Init ==
    LET zero == [i \in Index |-> 0]
    IN  /\ \/ /\ array \in [Positions -> Deltas]
              /\ t = [tree |-> Build(array, zero, 0, 0, N - 1), lazy |-> zero]
           \/ /\ array = [i \in Positions |-> 0]
              /\ t = [tree |-> zero, lazy |-> zero]
        /\ adds = 0 /\ answer = [got |-> 0, want |-> 0]

\* Mutant: an addition that is already waiting below is lost.
MaintainOverwrites(s, cl, cr, root) ==
    LET cm == Mid(cl, cr)
        z == s.lazy[root]
    IN  IF cl = cr \/ z = 0 THEN s
        ELSE [tree |-> [s.tree EXCEPT ![2 * root + 1] = @ + z * (cm - cl + 1),
                                      ![2 * root + 2] = @ + z * (cr - cm)],
              lazy |-> [s.lazy EXCEPT ![2 * root + 1] = z, ![2 * root + 2] = z, ![root] = 0]]

\* _maintain pushes the waiting addition one level down.
Maintain(s, cl, cr, root) ==
    LET cm == Mid(cl, cr)
        z == s.lazy[root]
    IN  IF cl = cr \/ z = 0 THEN s
        ELSE [tree |-> [s.tree EXCEPT ![2 * root + 1] = @ + z * (cm - cl + 1),
                                      ![2 * root + 2] = @ + z * (cr - cm)],
              lazy |-> [s.lazy EXCEPT ![2 * root + 1] = @ + z, ![2 * root + 2] = @ + z,
                                      ![root] = 0]]

\* _query: the sum, and the trees after the pushes on the way.
RECURSIVE Query(_, _, _, _, _, _)
Query(s, l, r, cl, cr, root) ==
    LET cm == Mid(cl, cr)
        m == Maintain(s, cl, cr, root)
        left == IF l <= cm THEN Query(m, l, r, cl, cm, 2 * root + 1) ELSE [t |-> m, sum |-> 0]
        right == IF cm < r THEN Query(left.t, l, r, cm + 1, cr, 2 * root + 2)
                 ELSE [t |-> left.t, sum |-> 0]
    IN  IF l <= cl /\ cr <= r THEN [t |-> s, sum |-> s.tree[root]]
        ELSE [t |-> right.t, sum |-> left.sum + right.sum]

\* _update of range_add.
RECURSIVE Update(_, _, _, _, _, _, _)
Update(s, l, r, v, cl, cr, root) ==
    LET cm == Mid(cl, cr)
        m == Maintain(s, cl, cr, root)
        left == IF l <= cm THEN Update(m, l, r, v, cl, cm, 2 * root + 1) ELSE m
        both == IF cm < r THEN Update(left, l, r, v, cm + 1, cr, 2 * root + 2) ELSE left
    IN  IF l <= cl /\ cr <= r
        THEN [tree |-> [s.tree EXCEPT ![root] = @ + (cr - cl + 1) * v],
              lazy |-> [s.lazy EXCEPT ![root] = @ + v]]
        ELSE [both EXCEPT !.tree[root] = both.tree[2 * root + 1] + both.tree[2 * root + 2]]

RangeSum(l, r) ==
    LET q == Query(t, l, r, 0, N - 1, 0)
    IN  /\ t' = q.t
        /\ answer' = [got |-> q.sum, want |-> SumOf(array, l, r)]
        /\ UNCHANGED <<adds, array>>

RangeAdd(l, r, v) ==
    /\ adds < MaxAdds
    /\ t' = Update(t, l, r, v, 0, N - 1, 0)
    /\ adds' = adds + 1
    /\ array' = [i \in Positions |-> IF i \in l..r THEN array[i] + v ELSE array[i]]
    /\ UNCHANGED answer

Next ==
    \E l, r \in Positions :
        l <= r /\ (RangeSum(l, r) \/ \E v \in Deltas : RangeAdd(l, r, v))

Spec == Init /\ [][Next]_vars
-----------------------------------------------------------------------------
\* reverse_pair of segment_tree_test.cc counts the pairs out of order of an
\* input, here array, from its last element to its first.
PairsInit ==
    LET zero == [i \in Index |-> 0]
    IN  /\ array \in [Positions -> 1..N]
        /\ t = [tree |-> zero, lazy |-> zero]
        /\ adds = 0 /\ answer = [got |-> 0, want |-> 0]

\* lower_bound in the sorted input, counted from 1: up to N, one past the end.
Rank(i) == Cardinality({j \in Positions : array[j] < array[i]}) + 1

\* The pairs out of order among the elements from i on.
PairsFrom(i) ==
    Cardinality({p \in Positions \X Positions : i <= p[1] /\ p[1] < p[2] /\ array[p[1]] > array[p[2]]})

CountElement ==
    LET i == N - 1 - adds
        q == Query(t, 0, Rank(i) - 1, 0, N - 1, 0)
    IN  /\ adds < N
        /\ t' = Update(q.t, Rank(i), Rank(i), 1, 0, N - 1, 0)
        /\ answer' = [got |-> answer.got + q.sum, want |-> PairsFrom(i)]
        /\ adds' = adds + 1
        /\ UNCHANGED array

-----------------------------------------------------------------------------
\* Every query returns the sum of its range, whatever additions are still
\* waiting at inner nodes and whatever earlier queries pushed down.
SumsAreRight == answer.got = answer.want

\* The count of reverse_pair is right after every element, for every input,
\* although the largest element updates one position past the end.
ReversePairIsRight == answer.got = answer.want
=============================================================================
