-------------------------- MODULE BinaryIndexTree ---------------------------
(***************************************************************************)
(* BinaryIndexTree of binary_index_tree.h: point queries and range sums    *)
(* under range updates, kept as two trees over the differences of          *)
(* neighbours.  An object is made with n zeros or filled once by init;     *)
(* Reinit is a second init, of the same length.                            *)
(***************************************************************************)
EXTENDS Integers, FiniteSets, FiniteSetsExt

CONSTANTS N, Values, MaxUpdates

VARIABLES trees,   \* [diff, idiff]
          updates, \* range_update calls so far
          array    \* the element values that the calls ask for (history)

vars == <<trees, updates, array>>

Positions == 1..N
Deltas == Values \cup {-v : v \in Values}
Zero == [diff |-> [i \in 0..N |-> 0], idiff |-> [i \in 0..N |-> 0]]

\* __lowbit: the largest power of two that divides i.
Lowbit(i) == Max({b \in {2^e : e \in 0..N} : b <= i /\ i % b = 0})

\* The difference of neighbours that init adds at i.
Step(vec, i) == IF i = 1 THEN vec[1] ELSE vec[i] - vec[i - 1]

\* init: every node takes its own difference, then passes its sum on to the next
\* node that covers it.  w is the weight of a position, 1 or i.
RECURSIVE Fill(_, _, _, _)
Fill(tree, vec, w, i) ==
    LET own == [tree EXCEPT ![i] = @ + w[i] * Step(vec, i)]
        j == i + Lowbit(i)
    IN  IF i > N THEN tree
        ELSE Fill(IF j <= N THEN [own EXCEPT ![j] = @ + own[i]] ELSE own, vec, w, i + 1)

One == [i \in Positions |-> 1]
Own == [i \in Positions |-> i]

FillBoth(s, vec) ==
    [diff |-> Fill(s.diff, vec, One, 1), idiff |-> Fill(s.idiff, vec, Own, 1)]

Init ==
    /\ updates = 0
    /\ \/ trees = Zero /\ array = [i \in Positions |-> 0]
       \/ /\ array \in [Positions -> Deltas]
          /\ trees = FillBoth(Zero, array)

\* The nodes an update at i visits, and those a query visits.
RECURSIVE UpFrom(_)
UpFrom(i) == IF i > N THEN {} ELSE {i} \cup UpFrom(i + Lowbit(i))

RECURSIVE DownFrom(_)
DownFrom(i) == IF i = 0 THEN {} ELSE {i} \cup DownFrom(i - Lowbit(i))

\* __update of range_update.
AddFrom(s, from, val) ==
    LET i == IF from <= 0 THEN 1 ELSE from
    IN  [diff |-> [k \in 0..N |-> s.diff[k] + IF k \in UpFrom(i) THEN val ELSE 0],
         idiff |-> [k \in 0..N |-> s.idiff[k] + IF k \in UpFrom(i) THEN i * val ELSE 0]]

\* update(i, val) is RangeUpdate(i, i, val); a left end of 0 counts as 1.
RangeUpdate(l, r, val) ==
    /\ updates < MaxUpdates
    /\ trees' = AddFrom(AddFrom(trees, l, val), r + 1, -val)
    /\ updates' = updates + 1
    /\ array' = [i \in Positions |-> IF i \in l..r THEN array[i] + val ELSE array[i]]

\* init on an object in use adds to what is there.
Reinit(vec) ==
    /\ updates < MaxUpdates
    /\ trees' = FillBoth(trees, vec)
    /\ updates' = updates + 1 /\ array' = vec

SumDown(tree, i) == MapThenSumSet(LAMBDA k : tree[k], DownFrom(i))

Query(i) == SumDown(trees.diff, i)

RangeSum(l, r) ==
    (r + 1) * SumDown(trees.diff, r) - SumDown(trees.idiff, r)
        - l * SumDown(trees.diff, l - 1) + SumDown(trees.idiff, l - 1)

Updates ==
    \E l \in 0..N, r \in Positions, v \in Deltas : l <= r /\ RangeUpdate(l, r, v)

Next == Updates

Spec == Init /\ [][Next]_vars

NextReinit == Updates \/ \E vec \in [Positions -> Deltas] : Reinit(vec)

SpecReinit == Init /\ [][NextReinit]_vars
-----------------------------------------------------------------------------
\* query(i) is the value of element i after any range updates.
PointsAreRight == \A i \in Positions : Query(i) = array[i]

\* range_sum(l, r) is the sum of the elements l..r: the two difference trees
\* stay in step.
SumsAreRight ==
    \A l, r \in Positions : l <= r => RangeSum(l, r) = MapThenSumSet(LAMBDA i : array[i], l..r)

\* After init the elements are those of vec, the initial array
\* (binary_index_tree.h:20), whatever the object held before.
\* The code breaks it: README, "Disagreements without a run".
InitSetsValues == PointsAreRight
=============================================================================
