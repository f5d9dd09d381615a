-------------------------------- MODULE UFS ---------------------------------
(***************************************************************************)
(* The disjoint sets of UFS.h, with path compression and union by size.    *)
(***************************************************************************)
EXTENDS Naturals, FiniteSets

CONSTANT NumElements  \* n of the constructor: the elements are 0 .. n - 1

ASSUME UFSAssumption == NumElements \in Nat

VARIABLES father_, size_, count_,
          classes  \* the partition that the calls so far ask for (history)

ufsVars == <<father_, size_, count_, classes>>

Elements == 0 .. NumElements - 1

UFSInit ==
    /\ father_ = [v \in Elements |-> v] /\ size_ = [v \in Elements |-> 1] /\ count_ = NumElements
    /\ classes = {{v} : v \in Elements}

\* Where FindAndSet(v) is after n calls of itself; at a root it stays.
Ancestor(f, v, n) ==
    LET at[i \in Nat] == IF i = 0 THEN v ELSE f[at[i - 1]] IN at[n]

\* The root that FindAndSet returns.  A way without a cycle is shorter than NumElements.
Root(f, v) == Ancestor(f, v, NumElements)

\* The elements FindAndSet passes on its way.
Path(f, v) == {Ancestor(f, v, n) : n \in Elements} \ {Root(f, v)}

\* FindAndSet hangs every element on its way under the root.
Compress(f, v) ==
    LET root == Root(f, v)
        path == Path(f, v)
    IN  [u \in Elements |-> IF u \in path THEN root ELSE f[u]]

FindAndSet(v) == father_' = Compress(father_, v) /\ UNCHANGED <<size_, count_, classes>>

\* Unit of two roots: the smaller tree goes under the larger.
Unit(f, x, y) ==
    LET big == IF size_[x] < size_[y] THEN y ELSE x
        small == IF big = x THEN y ELSE x
    IN  /\ father_' = [f EXCEPT ![small] = big]
        /\ size_' = [size_ EXCEPT ![big] = @ + size_[small]]
        /\ count_' = count_ - 1

ClassOf(x) == CHOOSE c \in classes : x \in c

\* Mutant: two elements of one set are united again.
UniteAlways(x, y) ==
    LET f == Compress(Compress(father_, x), y)
    IN  /\ Unit(f, Root(f, x), Root(f, y))
        /\ classes' = (classes \ {ClassOf(x), ClassOf(y)}) \cup {ClassOf(x) \cup ClassOf(y)}

FindAndUnit(x, y) ==
    LET f == Compress(Compress(father_, x), y)
    IN  /\ IF Root(f, x) # Root(f, y) THEN Unit(f, Root(f, x), Root(f, y))
           ELSE father_' = f /\ UNCHANGED <<size_, count_>>
        /\ classes' = (classes \ {ClassOf(x), ClassOf(y)}) \cup {ClassOf(x) \cup ClassOf(y)}

UFSNext ==
    \/ \E v \in Elements : FindAndSet(v)
    \/ \E x, y \in Elements : FindAndUnit(x, y)

UFSSpec == UFSInit /\ [][UFSNext]_ufsVars
-----------------------------------------------------------------------------
\* Two elements have one root exactly when the calls have united them.
RootsAreClasses ==
    \A x, y \in Elements : (Root(father_, x) = Root(father_, y)) <=> ClassOf(x) = ClassOf(y)

\* count() is the number of sets, and size_ of a root the size of its set.
CountsAreRight ==
    /\ count_ = Cardinality(classes)
    /\ \A x \in Elements : size_[Root(father_, x)] = Cardinality(ClassOf(x))

Pow2[n \in Nat] == IF n = 0 THEN 1 ELSE 2 * Pow2[n - 1]

\* Union by size keeps the trees flat: an element d steps from its root is in a
\* set of at least 2^d elements, so FindAndSet recurses at most log2(n) deep.
PathsAreShort ==
    \A x \in Elements : Pow2[Cardinality(Path(father_, x))] <= Cardinality(ClassOf(x))

\* UFS.h: two elements have one root exactly when calls have united them, the
\* counts are those of the sets, and every path is logarithmic.
ClassesAreRight == RootsAreClasses /\ CountsAreRight /\ PathsAreShort
=============================================================================
