-------------------------- MODULE BuddyPool_proofs --------------------------
(***************************************************************************)
(* The tree of the buddy allocator, for every pool size and every number   *)
(* of levels: where the blocks lie, which level a request belongs to, what *)
(* the search for a block finds, and what update_pool makes of the tree.   *)
(*                                                                         *)
(* The loops of the code are recursive functions of the model.  The first  *)
(* part shows, from the well-foundedness of < on the numbers, that such    *)
(* functions exist and obey their equations; sets take the place of the    *)
(* predicates of an induction.                                             *)
(***************************************************************************)
EXTENDS BuddyPool, WellFoundedInduction, TLAPS

-----------------------------------------------------------------------------
(***************************************************************************)
(* Induction and recursion.                                                *)
(***************************************************************************)

\* Every nonempty set of numbers has a least element.
LEMMA LeastElement ==
    ASSUME NEW S, S \subseteq Nat, S # {}
    PROVE  \E n \in S : \A m \in S : n <= m
<1>1. \E n \in S : \A m \in S : ~ (<<m, n>> \in OpToRel(<, Nat))
  BY NatLessThanWellFounded, WFMin, Zenon
<1>2. PICK n \in S : \A m \in S : ~ (<<m, n>> \in OpToRel(<, Nat))
  BY <1>1, Zenon
<1>3. ASSUME NEW m \in S PROVE n <= m
  <2>1. ~ (<<m, n>> \in OpToRel(<, Nat))
    BY <1>2, Zenon
  <2>2. ~ (m < n)
    BY <2>1 DEF OpToRel
  <2> QED
    BY <2>2
<1> QED
  BY <1>3

\* Complete induction, over a set instead of a predicate.
LEMMA Induction ==
    ASSUME NEW S, \A n \in Nat : (\A m \in Nat : m < n => m \in S) => n \in S
    PROVE  \A n \in Nat : n \in S
<1> SUFFICES ASSUME Nat \ S # {} PROVE FALSE
  OBVIOUS
<1>1. PICK n \in Nat \ S : \A m \in Nat \ S : n <= m
  BY LeastElement, Zenon
<1>2. \A m \in Nat : m < n => m \in S
  BY <1>1
<1> QED
  BY <1>1, <1>2

\* Simple induction.
LEMMA StepInduction ==
    ASSUME NEW S, 0 \in S, \A n \in Nat : n \in S => n + 1 \in S
    PROVE  \A n \in Nat : n \in S
<1>1. ASSUME NEW n \in Nat, \A m \in Nat : m < n => m \in S
      PROVE  n \in S
  <2>1. CASE n = 0
    BY <2>1
  <2>2. CASE n # 0
    <3>1. n - 1 \in Nat /\ n - 1 < n /\ (n - 1) + 1 = n
      BY <2>2
    <3> QED
      BY <1>1, <3>1
  <2> QED
    BY <2>1, <2>2
<1> QED
  BY <1>1, Induction

\* The value G[x, f] at x depends only on the values of f at arguments of a lower rank.
Grounded(D, S, rank, G) ==
    /\ S # {}
    /\ rank \in [D -> Nat]
    /\ G \in [D \X [D -> S] -> S]
    /\ \A x \in D, f, h \in [D -> S] :
           (\A y \in D : rank[y] < rank[x] => f[y] = h[y]) => G[<<x, f>>] = G[<<x, h>>]

\* f solves the recursive definition f[x] == G[x, f].
Solves(D, S, G, f) == f \in [D -> S] /\ \A x \in D : f[x] = G[<<x, f>>]

\* A grounded recursive definition has a solution.
LEMMA Recursion ==
    ASSUME NEW D, NEW S, NEW rank, NEW G, Grounded(D, S, rank, G)
    PROVE  \E f : Solves(D, S, G, f)
<1> USE DEF Grounded
<1>0. PICK s \in S : TRUE
  OBVIOUS
<1> DEFINE Approx(n, f) == \A x \in D : rank[x] < n => f[x] = G[<<x, f>>]
           Good == {n \in Nat : \E f \in [D -> S] : Approx(n, f)}
<1>1. \A n \in Nat : n \in Good
  <2>1. 0 \in Good
    <3>1. [x \in D |-> s] \in [D -> S] /\ Approx(0, [x \in D |-> s])
      OBVIOUS
    <3> QED
      BY <3>1, Zenon
  <2>2. ASSUME NEW n \in Nat, n \in Good PROVE n + 1 \in Good
    <3>1. PICK f \in [D -> S] : Approx(n, f)
      BY <2>2, Zenon
    <3> DEFINE h == [x \in D |-> G[<<x, f>>]]
    <3>2. h \in [D -> S]
      OBVIOUS
    <3>3. ASSUME NEW x \in D, rank[x] < n + 1 PROVE h[x] = G[<<x, h>>]
      <4>1. \A y \in D : rank[y] < rank[x] => h[y] = f[y]
        BY <3>1, <3>3
      <4>2. G[<<x, h>>] = G[<<x, f>>]
        BY <3>2, <4>1, Zenon
      <4> QED
        BY <4>2
    <3> HIDE DEF h
    <3> QED
      BY <3>2, <3>3
  <2> HIDE DEF Good
  <2> QED
    BY <2>1, <2>2, StepInduction
<1>2. ASSUME NEW n \in Nat, NEW m \in Nat, NEW f \in [D -> S], NEW h \in [D -> S],
             n <= m, Approx(n, f), Approx(m, h), NEW z \in D, rank[z] < n
      PROVE  f[z] = h[z]
  <2> DEFINE Same == {k \in Nat : \A x \in D : rank[x] = k /\ k < n => f[x] = h[x]}
  <2>1. ASSUME NEW k \in Nat, \A j \in Nat : j < k => j \in Same PROVE k \in Same
    <3>1. ASSUME NEW x \in D, rank[x] = k, k < n PROVE f[x] = h[x]
      <4>1. \A y \in D : rank[y] < rank[x] => f[y] = h[y]
        BY <2>1, <3>1
      <4>2. G[<<x, f>>] = G[<<x, h>>]
        BY <4>1, Zenon
      <4> QED
        BY <1>2, <3>1, <4>2
    <3> QED
      BY <3>1
  <2>2. \A k \in Nat : k \in Same
    <3> HIDE DEF Same
    <3> QED
      BY <2>1, Induction
  <2>3. rank[z] \in Nat /\ rank[z] \in Same
    BY <2>2
  <2> QED
    BY <1>2, <2>3
<1> DEFINE F == [n \in Nat |-> CHOOSE f \in [D -> S] : Approx(n, f)]
           g == [x \in D |-> F[rank[x] + 1][x]]
<1>3. \A n \in Nat : F[n] \in [D -> S] /\ Approx(n, F[n])
  <2> SUFFICES ASSUME NEW n \in Nat PROVE F[n] \in [D -> S] /\ Approx(n, F[n])
    BY Zenon
  <2>1. \E f \in [D -> S] : Approx(n, f)
    BY <1>1, Zenon
  <2> DEFINE c == CHOOSE f \in [D -> S] : Approx(n, f)
  <2>2. c \in [D -> S] /\ Approx(n, c)
    <3> HIDE DEF Approx
    <3> QED
      BY <2>1
  <2>3. F[n] = c
    BY Zenon
  <2> HIDE DEF F, c
  <2> QED
    BY <2>2, <2>3
<1> HIDE DEF F
<1>4. g \in [D -> S]
  BY <1>3
<1>5. ASSUME NEW n \in Nat, NEW m \in Nat, n <= m, NEW z \in D, rank[z] < n
      PROVE  F[n][z] = F[m][z]
  <2>1. F[n] \in [D -> S] /\ F[m] \in [D -> S]
    BY <1>3
  <2>2. Approx(n, F[n]) /\ Approx(m, F[m])
    BY <1>3, Zenon
  <2> HIDE DEF Approx
  <2> QED
    BY <1>2, <1>5, <2>1, <2>2
<1>6. ASSUME NEW x \in D PROVE g[x] = G[<<x, g>>]
  <2>1. PICK n \in Nat : n = rank[x] + 1
    OBVIOUS
  <2>2. F[n] \in [D -> S]
    BY <1>3
  <2>3. ASSUME NEW y \in D, rank[y] < rank[x] PROVE g[y] = F[n][y]
    <3>1. PICK m \in Nat : m = rank[y] + 1
      OBVIOUS
    <3>2. m <= n /\ rank[y] < m
      BY <2>1, <2>3, <3>1
    <3>3. F[m][y] = F[n][y]
      BY <1>5, <3>2
    <3> QED
      BY <3>1, <3>3
  <2>4. G[<<x, g>>] = G[<<x, F[n]>>]
    <3> HIDE DEF g
    <3> QED
      BY <1>4, <2>2, <2>3, Zenon
  <2>5. F[n][x] = G[<<x, F[n]>>]
    <3>1. Approx(n, F[n])
      BY <1>3, Zenon
    <3>2. rank[x] < n
      BY <2>1
    <3> QED
      BY <3>1, <3>2, Zenon
  <2> QED
    BY <2>1, <2>4, <2>5
<1> HIDE DEF g
<1> QED
  BY <1>4, <1>6 DEF Solves

-----------------------------------------------------------------------------
(***************************************************************************)
(* The recursive functions satisfy their equations.                        *)
(***************************************************************************)

\* The parent of a node, and the two children of a node.
LEMMA ParentFacts ==
    /\ \A i \in Nat \ {0} : /\ Parent(i) \in Nat /\ Parent(i) < i
                            /\ i = 2 * Parent(i) + 1 \/ i = 2 * Parent(i) + 2
    /\ \A i \in Nat : Parent(2 * i + 1) = i /\ Parent(2 * i + 2) = i
BY DEF Parent

\* f is defined by recursion along up: b at 0, elsewhere what h makes of an argument
\* and of the value one step up.
PathSolves(S, up, b, h, f) ==
    /\ f \in [Nat -> S]
    /\ \A i \in Nat : f[i] = IF i = 0 THEN b ELSE h[<<i, f[up[i]]>>]

\* Such a function exists if up leads down to 0.
LEMMA PathRecursion ==
    ASSUME NEW S, NEW up \in [Nat -> Nat], \A i \in Nat \ {0} : up[i] < i,
           NEW b \in S, NEW h \in [Nat \X S -> S]
    PROVE  \E f : PathSolves(S, up, b, h, f)
<1> DEFINE G == [z \in Nat \X [Nat -> S] |->
                    IF z[1] = 0 THEN b ELSE h[<<z[1], z[2][up[z[1]]]>>]]
           rank == [i \in Nat |-> i]
<1>1. ASSUME NEW x \in Nat, NEW f \in [Nat -> S]
      PROVE  G[<<x, f>>] = IF x = 0 THEN b ELSE h[<<x, f[up[x]]>>]
  OBVIOUS
<1>2. G \in [Nat \X [Nat -> S] -> S]
  <2> SUFFICES ASSUME NEW z \in Nat \X [Nat -> S]
               PROVE  (IF z[1] = 0 THEN b ELSE h[<<z[1], z[2][up[z[1]]]>>]) \in S
    OBVIOUS
  <2>1. z[1] \in Nat /\ z[2] \in [Nat -> S] /\ up[z[1]] \in Nat
    OBVIOUS
  <2> QED
    BY <2>1
<1>3. ASSUME NEW x \in Nat, NEW f \in [Nat -> S], NEW g \in [Nat -> S],
             \A y \in Nat : rank[y] < rank[x] => f[y] = g[y]
      PROVE  G[<<x, f>>] = G[<<x, g>>]
  <2>1. x # 0 => f[up[x]] = g[up[x]]
    BY <1>3
  <2>2. /\ G[<<x, f>>] = IF x = 0 THEN b ELSE h[<<x, f[up[x]]>>]
        /\ G[<<x, g>>] = IF x = 0 THEN b ELSE h[<<x, g[up[x]]>>]
    <3> HIDE DEF G
    <3> QED
      BY <1>1, Zenon
  <2> HIDE DEF G
  <2> QED
    BY <2>1, <2>2, Zenon
<1>4. rank \in [Nat -> Nat]
  OBVIOUS
<1>5. Grounded(Nat, S, rank, G)
  <2> HIDE DEF G, rank
  <2> QED
    BY <1>2, <1>3, <1>4, Zenon DEF Grounded
<1> HIDE DEF G, rank
<1>6. PICK f : Solves(Nat, S, G, f)
  BY <1>5, Recursion
<1>7. PathSolves(S, up, b, h, f)
  BY <1>1, <1>6, Zenon DEF Solves, PathSolves
<1> QED
  BY <1>7

\* The same for the path from a node of the tree to the root.
TreeSolves(S, b, h, f) ==
    /\ f \in [Nat -> S]
    /\ \A i \in Nat : f[i] = IF i = 0 THEN b ELSE h[<<i, f[Parent(i)]>>]

\* Such a function exists, too.
LEMMA TreeRecursion ==
    ASSUME NEW S, NEW b \in S, NEW h \in [Nat \X S -> S]
    PROVE  \E f : TreeSolves(S, b, h, f)
<1> DEFINE up == [i \in Nat |-> IF i = 0 THEN 0 ELSE Parent(i)]
<1>1. up \in [Nat -> Nat] /\ \A i \in Nat \ {0} : up[i] = Parent(i) /\ up[i] < i
  BY ParentFacts
<1> HIDE DEF up
<1>2. PICK f : PathSolves(S, up, b, h, f)
  BY <1>1, PathRecursion, Zenon
<1>3. TreeSolves(S, b, h, f)
  BY <1>1, <1>2, Zenon DEF PathSolves, TreeSolves
<1> QED
  BY <1>3

\* compute_block_size, level by level.
LEMMA BlockSizes ==
    \A i \in Nat :
        /\ ComputeBlockSize[i] \in Nat
        /\ ComputeBlockSize[i] = IF i = 0 THEN PoolSize ELSE ComputeBlockSize[Parent(i)] \div 2
<1> DEFINE h == [z \in Nat \X Nat |-> z[2] \div 2]
<1>1. h \in [Nat \X Nat -> Nat] /\ PoolSize \in Nat
  BY PoolAssumption
<1>2. \E f : TreeSolves(Nat, PoolSize, h, f)
  <2> HIDE DEF h
  <2> QED
    BY <1>1, TreeRecursion, Zenon
<1>3. \E f : f = [i \in Nat |-> IF i = 0 THEN PoolSize ELSE f[Parent(i)] \div 2]
  <2>1. PICK f : TreeSolves(Nat, PoolSize, h, f)
    BY <1>2
  <2>2. \A i \in Nat : i # 0 => h[<<i, f[Parent(i)]>>] = f[Parent(i)] \div 2
    BY <2>1, ParentFacts DEF TreeSolves
  <2> HIDE DEF h
  <2>3. f = [i \in Nat |-> IF i = 0 THEN PoolSize ELSE f[Parent(i)] \div 2]
    BY <2>1, <2>2, Zenon DEF TreeSolves
  <2> QED
    BY <2>3
<1>4. ComputeBlockSize = [i \in Nat |-> IF i = 0 THEN PoolSize
                                        ELSE ComputeBlockSize[Parent(i)] \div 2]
  BY <1>3, Zenon DEF ComputeBlockSize
<1>5. \A i \in Nat : ComputeBlockSize[i] =
                        IF i = 0 THEN PoolSize ELSE ComputeBlockSize[Parent(i)] \div 2
  BY <1>4
<1> DEFINE Good == {i \in Nat : ComputeBlockSize[i] \in Nat}
<1>6. ASSUME NEW i \in Nat, \A j \in Nat : j < i => j \in Good PROVE i \in Good
  <2>1. i # 0 => Parent(i) \in Good
    <3> HIDE DEF Good
    <3> QED
      BY <1>6, ParentFacts
  <2> QED
    BY <1>5, <2>1, PoolAssumption
<1>7. \A i \in Nat : i \in Good
  <2> HIDE DEF Good
  <2> QED
    BY <1>6, Induction
<1> QED
  BY <1>5, <1>7

\* The level of a node.
LEMMA Levels ==
    \A i \in Nat : Level[i] \in Nat /\ Level[i] = IF i = 0 THEN 0 ELSE 1 + Level[Parent(i)]
<1> DEFINE h == [z \in Nat \X Nat |-> 1 + z[2]]
<1>1. h \in [Nat \X Nat -> Nat]
  OBVIOUS
<1>2. \E f : TreeSolves(Nat, 0, h, f)
  <2> HIDE DEF h
  <2> QED
    BY <1>1, TreeRecursion, Zenon
<1>3. \E f : f = [i \in Nat |-> IF i = 0 THEN 0 ELSE 1 + f[Parent(i)]]
  <2>1. PICK f : TreeSolves(Nat, 0, h, f)
    BY <1>2, Zenon
  <2>2. \A i \in Nat : i # 0 => h[<<i, f[Parent(i)]>>] = 1 + f[Parent(i)]
    BY <2>1, ParentFacts DEF TreeSolves
  <2> HIDE DEF h
  <2>3. f = [i \in Nat |-> IF i = 0 THEN 0 ELSE 1 + f[Parent(i)]]
    BY <2>1, <2>2, Zenon DEF TreeSolves
  <2> QED
    BY <2>3
<1>4. Level = [i \in Nat |-> IF i = 0 THEN 0 ELSE 1 + Level[Parent(i)]]
  BY <1>3, Zenon DEF Level
<1>5. \A i \in Nat : Level[i] = IF i = 0 THEN 0 ELSE 1 + Level[Parent(i)]
  BY <1>4
<1> DEFINE Good == {i \in Nat : Level[i] \in Nat}
<1>6. ASSUME NEW i \in Nat, \A j \in Nat : j < i => j \in Good PROVE i \in Good
  <2>1. i # 0 => Parent(i) \in Good
    <3> HIDE DEF Good
    <3> QED
      BY <1>6, ParentFacts
  <2> QED
    BY <1>5, <2>1
<1>7. \A i \in Nat : i \in Good
  <2> HIDE DEF Good
  <2> QED
    BY <1>6, Induction
<1> QED
  BY <1>5, <1>7

\* Where the block of a node starts: with its parent's, or half a parent later.
LEMMA BlockAddrs ==
    \A i \in Nat :
        /\ BlockAddr[i] \in Nat
        /\ BlockAddr[0] = 0
        /\ BlockAddr[2 * i + 1] = BlockAddr[i]
        /\ BlockAddr[2 * i + 2] = BlockAddr[i] + ComputeBlockSize[i] \div 2
<1> DEFINE half(i) == IF i % 2 = 0 THEN ComputeBlockSize[Parent(i)] \div 2 ELSE 0
           h == [z \in Nat \X Nat |-> z[2] + (IF z[1] = 0 THEN 0 ELSE half(z[1]))]
<1>1. \A i \in Nat \ {0} : half(i) \in Nat
  BY BlockSizes, ParentFacts, Zenon
<1>2. h \in [Nat \X Nat -> Nat]
  <2> SUFFICES ASSUME NEW z \in Nat \X Nat
               PROVE  z[2] + (IF z[1] = 0 THEN 0 ELSE half(z[1])) \in Nat
    OBVIOUS
  <2> HIDE DEF half
  <2>1. z[1] \in Nat /\ z[2] \in Nat
    OBVIOUS
  <2> QED
    BY <1>1, <2>1
<1>3. \E f : TreeSolves(Nat, 0, h, f)
  <2> HIDE DEF h
  <2> QED
    BY <1>2, TreeRecursion, Zenon
<1>4. \E f : f = [i \in Nat |-> IF i = 0 THEN 0 ELSE f[Parent(i)] + half(i)]
  <2>1. PICK f : TreeSolves(Nat, 0, h, f)
    BY <1>3
  <2>2. \A i \in Nat : i # 0 => h[<<i, f[Parent(i)]>>] = f[Parent(i)] + half(i)
    <3> HIDE DEF half
    <3> QED
      BY <2>1, ParentFacts DEF TreeSolves
  <2> HIDE DEF h, half
  <2>3. f = [i \in Nat |-> IF i = 0 THEN 0 ELSE f[Parent(i)] + half(i)]
    BY <2>1, <2>2, Zenon DEF TreeSolves
  <2> QED
    BY <2>3
<1>5. BlockAddr = [i \in Nat |-> IF i = 0 THEN 0 ELSE BlockAddr[Parent(i)] + half(i)]
  BY <1>4, Zenon DEF BlockAddr
<1>6. \A i \in Nat : BlockAddr[i] = IF i = 0 THEN 0 ELSE BlockAddr[Parent(i)] + half(i)
  <2> HIDE DEF half
  <2> QED
    BY <1>5
<1> DEFINE Good == {i \in Nat : BlockAddr[i] \in Nat}
<1>7. ASSUME NEW i \in Nat, \A j \in Nat : j < i => j \in Good PROVE i \in Good
  <2>1. i # 0 => Parent(i) \in Good
    <3> HIDE DEF Good
    <3> QED
      BY <1>7, ParentFacts
  <2> HIDE DEF half
  <2> QED
    BY <1>1, <1>6, <2>1
<1>8. \A i \in Nat : i \in Good
  <2> HIDE DEF Good
  <2> QED
    BY <1>7, Induction
<1> SUFFICES ASSUME NEW i \in Nat
             PROVE  /\ BlockAddr[i] \in Nat
                    /\ BlockAddr[0] = 0
                    /\ BlockAddr[2 * i + 1] = BlockAddr[i]
                    /\ BlockAddr[2 * i + 2] = BlockAddr[i] + ComputeBlockSize[i] \div 2
  OBVIOUS
<1>9. half(2 * i + 1) = 0 /\ half(2 * i + 2) = ComputeBlockSize[i] \div 2
  <2>1. (2 * i + 1) % 2 # 0 /\ (2 * i + 2) % 2 = 0
    OBVIOUS
  <2> QED
    BY <2>1, ParentFacts, Zenon
<1> HIDE DEF half
<1>10. BlockAddr[i] \in Nat
  BY <1>8
<1> QED
  BY <1>6, <1>9, <1>10, ParentFacts

\* 1 << n.
LEMMA Powers ==
    /\ Pow2[0] = 1
    /\ \A n \in Nat : Pow2[n] \in Nat \ {0} /\ Pow2[n + 1] = 2 * Pow2[n]
<1> DEFINE up == [n \in Nat |-> IF n = 0 THEN 0 ELSE n - 1]
           h == [z \in Nat \X Nat |-> 2 * z[2]]
<1>1. up \in [Nat -> Nat] /\ \A n \in Nat \ {0} : up[n] = n - 1 /\ up[n] < n
  OBVIOUS
<1>2. h \in [Nat \X Nat -> Nat] /\ \A n, x \in Nat : h[<<n, x>>] = 2 * x
  OBVIOUS
<1> HIDE DEF up, h
<1>3. PICK f : PathSolves(Nat, up, 1, h, f)
  BY <1>1, <1>2, PathRecursion, Zenon
<1>4. \A n \in Nat : f[n] = IF n = 0 THEN 1 ELSE 2 * f[n - 1]
  <2> SUFFICES ASSUME NEW n \in Nat PROVE f[n] = IF n = 0 THEN 1 ELSE 2 * f[n - 1]
    OBVIOUS
  <2>1. n # 0 => n - 1 \in Nat /\ f[n - 1] \in Nat
    BY <1>3 DEF PathSolves
  <2> QED
    BY <1>1, <1>2, <1>3, <2>1, ZenonT(40) DEF PathSolves
<1>5. f = [n \in Nat |-> IF n = 0 THEN 1 ELSE 2 * f[n - 1]]
  BY <1>3, <1>4 DEF PathSolves
<1>6. Pow2 = [n \in Nat |-> IF n = 0 THEN 1 ELSE 2 * Pow2[n - 1]]
  BY <1>5, Zenon DEF Pow2
<1>7. Pow2[0] = 1 /\ \A n \in Nat : Pow2[n + 1] = 2 * Pow2[n]
  BY <1>6
<1> DEFINE Good == {n \in Nat : Pow2[n] \in Nat \ {0}}
<1>8. 0 \in Good /\ \A n \in Nat : n \in Good => n + 1 \in Good
  BY <1>7
<1>9. \A n \in Nat : n \in Good
  <2> HIDE DEF Good
  <2> QED
    BY <1>8, StepInduction
<1> QED
  BY <1>7, <1>9

\* The nodes of level l are the Pow2[l] indices from Pow2[l] - 1 on.
LEMMA LevelBounds ==
    \A i \in Nat : Pow2[Level[i]] - 1 <= i /\ i <= 2 * Pow2[Level[i]] - 2
<1> DEFINE Good == {i \in Nat : Pow2[Level[i]] - 1 <= i /\ i <= 2 * Pow2[Level[i]] - 2}
<1>1. ASSUME NEW i \in Nat, \A j \in Nat : j < i => j \in Good PROVE i \in Good
  <2>1. CASE i = 0
    BY <2>1, Levels, Powers
  <2>2. CASE i # 0
    <3>1. PICK p \in Nat : p = Parent(i) /\ p < i /\ (i = 2 * p + 1 \/ i = 2 * p + 2)
      BY <2>2, ParentFacts, Zenon
    <3>2. Level[i] = Level[p] + 1 /\ Level[p] \in Nat
      BY <2>2, <3>1, Levels
    <3>3. Pow2[Level[i]] = 2 * Pow2[Level[p]] /\ Pow2[Level[p]] \in Nat
      BY <3>2, Powers
    <3>4. Pow2[Level[p]] - 1 <= p /\ p <= 2 * Pow2[Level[p]] - 2
      BY <1>1, <3>1
    <3> QED
      BY <3>1, <3>3, <3>4
  <2> QED
    BY <2>1, <2>2
<1>2. \A i \in Nat : i \in Good
  <2> HIDE DEF Good
  <2> QED
    BY <1>1, Induction
<1> QED
  BY <1>2

\* 1 << n grows with n.
LEMMA PowersGrow == \A n, m \in Nat : n <= m => Pow2[n] <= Pow2[m]
<1> SUFFICES ASSUME NEW n \in Nat PROVE \A m \in Nat : n <= m => Pow2[n] <= Pow2[m]
  OBVIOUS
<1> DEFINE Good == {m \in Nat : n <= m => Pow2[n] <= Pow2[m]}
<1>1. 0 \in Good
  BY Powers
<1>2. ASSUME NEW m \in Nat, m \in Good PROVE m + 1 \in Good
  <2>1. Pow2[m + 1] = 2 * Pow2[m] /\ Pow2[m] \in Nat /\ Pow2[m + 1] \in Nat
    BY Powers
  <2>2. CASE n <= m
    BY <1>2, <2>1, <2>2, Powers
  <2>3. CASE n = m + 1
    BY <2>1, <2>3
  <2> QED
    BY <2>2, <2>3
<1>3. \A m \in Nat : m \in Good
  <2> HIDE DEF Good
  <2> QED
    BY <1>1, <1>2, StepInduction
<1> QED
  BY <1>3

\* The array pool_ has room for the nodes of the levels below num_order_, and no more.
LEMMA BlockLevels == \A i \in Nat : i \in BlockIdx <=> Level[i] < NumOrder
<1> SUFFICES ASSUME NEW i \in Nat PROVE i \in BlockIdx <=> Level[i] < NumOrder
  OBVIOUS
<1>1. NumOrder \in Nat /\ Level[i] \in Nat /\ Pow2[NumOrder] \in Nat /\ Pow2[Level[i]] \in Nat
  BY PoolAssumption, Levels, Powers
<1>2. Pow2[Level[i]] - 1 <= i /\ i <= 2 * Pow2[Level[i]] - 2
  BY LevelBounds
<1>3. CASE Level[i] < NumOrder
  <2>1. Level[i] + 1 \in Nat /\ Level[i] + 1 <= NumOrder
    BY <1>1, <1>3
  <2>2. Pow2[Level[i] + 1] = 2 * Pow2[Level[i]] /\ Pow2[Level[i] + 1] <= Pow2[NumOrder]
    BY <1>1, <2>1, Powers, PowersGrow
  <2> QED
    BY <1>1, <1>2, <1>3, <2>2 DEF BlockIdx
<1>4. CASE ~(Level[i] < NumOrder)
  <2>2. Pow2[NumOrder] <= Pow2[Level[i]]
    BY <1>1, <1>4, PowersGrow
  <2> QED
    BY <1>1, <1>2, <1>4, <2>2 DEF BlockIdx
<1> QED
  BY <1>3, <1>4

-----------------------------------------------------------------------------
(***************************************************************************)
(* The size classes.                                                       *)
(***************************************************************************)

\* What rounded_up's loop returns from each value of its variable on.
LEMMA RoundingLoop ==
    ASSUME NEW size \in Nat
    PROVE  \E value : /\ RoundedUp(size) = value[1]
                      /\ \A v \in Nat : value[v] = IF v < size THEN value[2 * v] ELSE v
<1> DEFINE value == CHOOSE f : f = [v \in Nat |-> IF v < size THEN f[2 * v] ELSE v]
           up == [k \in Nat |-> IF k < size /\ size < 2 * k THEN 2 * k - size ELSE 0]
           h == [z \in Nat \X Nat |->
                    IF z[1] >= size THEN 0
                    ELSE IF 2 * (size - z[1]) >= size THEN 2 * (size - z[1]) ELSE z[2]]
<1>1. up \in [Nat -> Nat] /\ \A k \in Nat \ {0} : up[k] < k
  OBVIOUS
<1>2. h \in [Nat \X Nat -> Nat]
  OBVIOUS
<1>3. ASSUME NEW k \in Nat, NEW x \in Nat
      PROVE  h[<<k, x>>] = IF k >= size THEN 0
                           ELSE IF 2 * (size - k) >= size THEN 2 * (size - k) ELSE x
  OBVIOUS
<1>4. ASSUME NEW k \in Nat
      PROVE  up[k] = IF k < size /\ size < 2 * k THEN 2 * k - size ELSE 0
  OBVIOUS
<1> HIDE DEF up, h
<1>5. PICK w : PathSolves(Nat, up, 0, h, w)
  BY <1>1, <1>2, PathRecursion, Zenon
<1> DEFINE g == [v \in Nat |-> IF v >= size THEN v ELSE IF v = 0 THEN 0 ELSE w[size - v]]
<1>6. ASSUME NEW v \in Nat PROVE g[v] = IF v < size THEN g[2 * v] ELSE v
  <2>1. CASE v >= size \/ v = 0
    BY <2>1
  <2>2. CASE ~(v >= size \/ v = 0)
    <3>1. PICK k \in Nat : k = size - v /\ k # 0 /\ k < size
      BY <2>2
    <3>2. w[k] = h[<<k, w[up[k]]>>] /\ w[up[k]] \in Nat
      BY <1>1, <3>1, <1>5 DEF PathSolves
    <3>3. CASE 2 * v >= size
      <4>1. w[k] = 2 * v
        BY <1>3, <3>1, <3>2, <3>3
      <4> QED
        BY <2>2, <3>1, <3>3, <4>1
    <3>4. CASE ~(2 * v >= size)
      <4>1. up[k] = size - 2 * v
        BY <1>4, <3>1, <3>4
      <4>2. w[k] = w[size - 2 * v]
        BY <1>3, <3>1, <3>2, <3>4, <4>1
      <4> QED
        BY <2>2, <3>1, <3>4, <4>2
    <3> QED
      BY <3>3, <3>4
  <2> QED
    BY <2>1, <2>2
<1>7. g = [v \in Nat |-> IF v < size THEN g[2 * v] ELSE v]
  <2>1. g = [v \in Nat |-> g[v]]
    OBVIOUS
  <2> HIDE DEF g
  <2> QED
    BY <1>6, <2>1
<1>8. value = [v \in Nat |-> IF v < size THEN value[2 * v] ELSE v]
  <2> HIDE DEF g
  <2> QED
    BY <1>7, Zenon
<1> HIDE DEF value
<1>9. \A v \in Nat : value[v] = IF v < size THEN value[2 * v] ELSE v
  BY <1>8
<1>10. RoundedUp(size) = value[1]
  BY Zenon DEF RoundedUp, value
<1> QED
  BY <1>9, <1>10

\* rounded_up: not below size, and positive.
LEMMA RoundsUp == \A size \in Nat : RoundedUp(size) \in Nat \ {0} /\ RoundedUp(size) >= size
<1> SUFFICES ASSUME NEW size \in Nat
             PROVE  RoundedUp(size) \in Nat \ {0} /\ RoundedUp(size) >= size
  OBVIOUS
<1>1. PICK value : /\ RoundedUp(size) = value[1]
                   /\ \A v \in Nat : value[v] = IF v < size THEN value[2 * v] ELSE v
  BY RoundingLoop
<1> DEFINE Good == {k \in Nat : \A v \in Nat \ {0} :
                        v + k >= size => value[v] \in Nat \ {0} /\ value[v] >= size}
<1>2. ASSUME NEW k \in Nat, k \in Good PROVE k + 1 \in Good
  <2>1. ASSUME NEW v \in Nat \ {0}, v + (k + 1) >= size
        PROVE  value[v] \in Nat \ {0} /\ value[v] >= size
    <3>1. CASE v < size
      <4>1. 2 * v \in Nat \ {0} /\ 2 * v + k >= size
        BY <2>1
      <4>2. value[2 * v] \in Nat \ {0} /\ value[2 * v] >= size
        BY <1>2, <4>1
      <4> QED
        BY <1>1, <3>1, <4>2
    <3>2. CASE ~(v < size)
      BY <1>1, <3>2
    <3> QED
      BY <3>1, <3>2
  <2> QED
    BY <2>1
<1>3. 0 \in Good
  <2>1. ASSUME NEW v \in Nat \ {0}, v >= size PROVE value[v] = v
    BY <1>1, <2>1
  <2> QED
    BY <2>1
<1>4. \A k \in Nat : k \in Good
  <2> HIDE DEF Good
  <2> QED
    BY <1>2, <1>3, StepInduction
<1>5. size \in Good
  BY <1>4
<1>6. value[1] \in Nat \ {0} /\ value[1] >= size
  BY <1>5
<1> QED
  BY <1>1, <1>6

\* rounded_up: above no power of two that is not below size.
LEMMA RoundsUpToPower ==
    ASSUME NEW size \in Nat, NEW k \in Nat, size <= Pow2[k]
    PROVE  RoundedUp(size) <= Pow2[k]
<1>1. PICK value : /\ RoundedUp(size) = value[1]
                   /\ \A v \in Nat : value[v] = IF v < size THEN value[2 * v] ELSE v
  BY RoundingLoop
<1>2. \A n \in Nat : Pow2[n] \in Nat \ {0} /\ Pow2[n + 1] = 2 * Pow2[n]
  BY Powers
<1> DEFINE Good == {d \in Nat : d <= k => value[Pow2[k - d]] <= Pow2[k]}
<1>3. 0 \in Good
  <2>1. k - 0 = k
    OBVIOUS
  <2>2. value[Pow2[k]] = Pow2[k]
    BY <1>1, <1>2
  <2> QED
    BY <1>2, <2>1, <2>2
<1>4. ASSUME NEW d \in Nat, d \in Good PROVE d + 1 \in Good
  <2> SUFFICES ASSUME d + 1 <= k PROVE value[Pow2[k - (d + 1)]] <= Pow2[k]
    OBVIOUS
  <2>1. PICK j \in Nat : j = k - (d + 1) /\ k - d = j + 1 /\ j <= k /\ d <= k
    <3>1. k - (d + 1) \in Nat
      OBVIOUS
    <3> QED
      BY <3>1
  <2>2. value[Pow2[j + 1]] <= Pow2[k] /\ Pow2[j + 1] = 2 * Pow2[j] /\ Pow2[j] <= Pow2[k]
    BY <1>2, <1>4, <2>1, PowersGrow
  <2>3. value[Pow2[j]] = IF Pow2[j] < size THEN value[2 * Pow2[j]] ELSE Pow2[j]
    BY <1>1, <1>2
  <2> QED
    BY <2>1, <2>2, <2>3
<1>5. \A d \in Nat : d \in Good
  <2> HIDE DEF Good
  <2> QED
    BY <1>3, <1>4, StepInduction
<1>6. k - k = 0 /\ k <= k /\ Pow2[0] = 1
  BY Powers
<1>7. value[Pow2[k - k]] <= Pow2[k]
  BY <1>5, <1>6
<1> QED
  BY <1>1, <1>6, <1>7

\* The last node of the array is on the last level.
LEMMA LastNode ==
    Pow2[NumOrder] - 2 \in Nat /\ Level[Pow2[NumOrder] - 2] = NumOrder - 1
<1>1. PICK n \in Nat : NumOrder = n + 1
  <2>1. NumOrder - 1 \in Nat /\ NumOrder = (NumOrder - 1) + 1
    BY PoolAssumption
  <2> QED
    BY <2>1
<1>2. PICK i \in Nat : i = Pow2[NumOrder] - 2
  <2>1. Pow2[NumOrder] = 2 * Pow2[n] /\ Pow2[n] \in Nat \ {0}
    BY <1>1, Powers
  <2>2. Pow2[NumOrder] - 2 \in Nat
    BY <2>1
  <2> QED
    BY <2>2
<1>3. i \in BlockIdx
  BY <1>2 DEF BlockIdx
<1>4. Level[i] \in Nat /\ Level[i] <= n
  BY <1>1, <1>3, BlockLevels, Levels
<1>5. i <= 2 * Pow2[Level[i]] - 2 /\ Pow2[NumOrder] = 2 * Pow2[n] /\ Pow2[n] \in Nat
  BY <1>1, LevelBounds, Powers
<1>6. Level[i] = n
  <2> SUFFICES ASSUME Level[i] < n PROVE FALSE
    BY <1>4
  <2>1. Level[i] + 1 \in Nat /\ Level[i] + 1 <= n
    BY <1>4
  <2>2. Pow2[Level[i] + 1] <= Pow2[n] /\ Pow2[Level[i] + 1] = 2 * Pow2[Level[i]]
    BY <1>4, <2>1, Powers, PowersGrow
  <2>3. Pow2[Level[i]] \in Nat \ {0} /\ Pow2[n] \in Nat \ {0}
    BY <1>4, Powers
  <2> QED
    BY <1>2, <1>5, <2>2, <2>3
<1> QED
  BY <1>1, <1>2, <1>6

\* min_block_size_ is twice half the size of a block of the last level.
LEMMA RoundedSizes ==
    \A size \in Nat :
        /\ RoundedUpToMinBlockSize(size) \in Nat \ {0}
        /\ RoundedUpToMinBlockSize(size) >= size
        /\ RoundedUpToMinBlockSize(size) >= 2 * (ComputeBlockSize[Pow2[NumOrder] - 2] \div 2)
<1> SUFFICES ASSUME NEW size \in Nat
             PROVE  /\ RoundedUpToMinBlockSize(size) \in Nat \ {0}
                    /\ RoundedUpToMinBlockSize(size) >= size
                    /\ RoundedUpToMinBlockSize(size) >=
                          2 * (ComputeBlockSize[Pow2[NumOrder] - 2] \div 2)
  OBVIOUS
<1>1. ComputeBlockSize[Pow2[NumOrder] - 2] \in Nat
  BY LastNode, BlockSizes
<1>2. PICK s \in Nat : s = ComputeBlockSize[Pow2[NumOrder] - 2]
  BY <1>1
<1>3. MinBlockSize = 2 * (s \div 2)
  BY <1>2 DEF MinBlockSize
<1>4. RoundedUp(size) \in Nat \ {0} /\ RoundedUp(size) >= size
  BY RoundsUp
<1> QED
  BY <1>2, <1>3, <1>4 DEF RoundedUpToMinBlockSize, Max2

\* Nodes of one level have blocks of one size.
LEMMA SameLevel ==
    \A i \in Nat : \A j \in Nat : Level[i] = Level[j] => ComputeBlockSize[i] = ComputeBlockSize[j]
<1> DEFINE Good == {i \in Nat : \A j \in Nat :
                        Level[i] = Level[j] => ComputeBlockSize[i] = ComputeBlockSize[j]}
<1>1. ASSUME NEW i \in Nat, \A k \in Nat : k < i => k \in Good PROVE i \in Good
  <2>1. ASSUME NEW j \in Nat, Level[i] = Level[j]
        PROVE  ComputeBlockSize[i] = ComputeBlockSize[j]
    <3>1. i = 0 <=> j = 0
      <4>1. \A k \in Nat \ {0} : Level[k] # 0
        BY Levels, ParentFacts
      <4>2. Level[0] = 0
        BY Levels
      <4> QED
        BY <2>1, <4>1, <4>2
    <3>2. CASE i # 0
      <4>1. PICK p \in Nat, q \in Nat : p = Parent(i) /\ q = Parent(j) /\ p < i
        BY <3>1, <3>2, ParentFacts, Zenon
      <4>2. /\ Level[i] = 1 + Level[p] /\ Level[j] = 1 + Level[q]
            /\ Level[p] \in Nat /\ Level[q] \in Nat
        BY <3>1, <3>2, <4>1, Levels
      <4>3. p \in Good
        <5> HIDE DEF Good
        <5> QED
          BY <1>1, <4>1
      <4>4. Level[p] = Level[q]
        <5>1. PICK a \in Nat, b \in Nat : a = Level[p] /\ b = Level[q]
          BY <4>2
        <5>2. 1 + a = 1 + b
          BY <2>1, <4>2, <5>1, ZenonT(40)
        <5> QED
          BY <5>1, <5>2
      <4>5. ComputeBlockSize[p] = ComputeBlockSize[q]
        BY <4>3, <4>4
      <4> QED
        BY <3>1, <3>2, <4>1, <4>5, BlockSizes
    <3> QED
      BY <3>1, <3>2
  <2> QED
    BY <2>1
<1>2. \A i \in Nat : i \in Good
  <2> HIDE DEF Good
  <2> QED
    BY <1>1, Induction
<1> QED
  BY <1>2

\* compute_level(b) is the deepest level whose blocks hold b bytes, and it is a level
\* of the tree if b is not below min_block_size_.
LEMMA LevelOfSize ==
    ASSUME NEW b \in Nat \ {0}
    PROVE  /\ ComputeLevel(b) \in Nat
           /\ \A i \in Nat : Level[i] = ComputeLevel(b) => ComputeBlockSize[i] \div 2 < b
           /\ \A i \in Nat \ {0} : Level[i] <= ComputeLevel(b) => ComputeBlockSize[i] >= b
           /\ 2 * (ComputeBlockSize[Pow2[NumOrder] - 2] \div 2) <= b => ComputeLevel(b) < NumOrder
<1> DEFINE level == CHOOSE f :
                f = [s \in Nat |-> IF s \div 2 >= b THEN 1 + f[s \div 2] ELSE 0]
           up == [s \in Nat |-> s \div 2]
           h == [z \in Nat \X Nat |-> IF z[1] \div 2 >= b THEN 1 + z[2] ELSE 0]
<1>1. up \in [Nat -> Nat] /\ \A s \in Nat : up[s] = s \div 2 /\ (s # 0 => up[s] < s)
  OBVIOUS
<1>2. h \in [Nat \X Nat -> Nat]
  OBVIOUS
<1>3. ASSUME NEW s \in Nat, NEW x \in Nat
      PROVE  h[<<s, x>>] = IF s \div 2 >= b THEN 1 + x ELSE 0
  OBVIOUS
<1> HIDE DEF up, h
<1>4. PICK g : PathSolves(Nat, up, 0, h, g)
  BY <1>1, <1>2, PathRecursion, Zenon
<1>5. ASSUME NEW s \in Nat PROVE g[s] = IF s \div 2 >= b THEN 1 + g[s \div 2] ELSE 0
  <2>1. CASE s = 0
    <3>1. g[s] = 0
      BY <1>4, <2>1, Zenon DEF PathSolves
    <3>2. ~(s \div 2 >= b)
      BY <2>1
    <3> QED
      BY <3>1, <3>2
  <2>2. CASE s # 0
    <3>1. g[s] = h[<<s, g[s \div 2]>>] /\ g[s \div 2] \in Nat
      BY <1>1, <1>4, <2>2 DEF PathSolves
    <3> QED
      BY <1>3, <3>1
  <2> QED
    BY <2>1, <2>2
<1>6. g = [s \in Nat |-> IF s \div 2 >= b THEN 1 + g[s \div 2] ELSE 0]
  <2>1. g = [s \in Nat |-> g[s]]
    BY <1>4 DEF PathSolves
  <2> QED
    BY <1>5, <2>1, Zenon
<1>7. level = [s \in Nat |-> IF s \div 2 >= b THEN 1 + level[s \div 2] ELSE 0]
  BY <1>6, Zenon
<1>8. ComputeLevel(b) = level[PoolSize]
  BY Zenon DEF ComputeLevel, level
<1> HIDE DEF level
<1>9. \A s \in Nat : level[s] = IF s \div 2 >= b THEN 1 + level[s \div 2] ELSE 0
  BY <1>7
<1> DEFINE Typed == {s \in Nat : level[s] \in Nat}
<1>10. ASSUME NEW s \in Nat, \A r \in Nat : r < s => r \in Typed PROVE s \in Typed
  <2>1. s \div 2 >= b => s \div 2 \in Nat /\ s \div 2 < s
    OBVIOUS
  <2>2. s \div 2 >= b => level[s \div 2] \in Nat
    BY <1>10, <2>1
  <2> QED
    BY <1>9, <2>2
<1>11. \A s \in Nat : level[s] \in Nat
  <2>1. \A s \in Nat : s \in Typed
    <3> HIDE DEF Typed
    <3> QED
      BY <1>10, Induction
  <2> QED
    BY <2>1
<1>12. PoolSize \in Nat /\ NumOrder \in Nat \ {0}
  BY PoolAssumption
<1>13. PICK k \in Nat : k = ComputeLevel(b) /\ k = level[PoolSize]
  BY <1>8, <1>11, <1>12
<1> DEFINE Good == {i \in Nat : Level[i] <= k =>
                /\ level[ComputeBlockSize[i]] = k - Level[i]
                /\ i # 0 => ComputeBlockSize[i] >= b}
<1>14. ASSUME NEW i \in Nat, \A j \in Nat : j < i => j \in Good PROVE i \in Good
  <2>1. CASE i = 0
    <3>1. Level[0] = 0 /\ ComputeBlockSize[0] = PoolSize
      BY Levels, BlockSizes
    <3> QED
      BY <1>13, <2>1, <3>1
  <2>2. CASE i # 0
    <3>1. PICK p \in Nat : p = Parent(i) /\ p < i
      BY <2>2, ParentFacts, SMTT(30)
    <3>2. Level[i] = 1 + Level[p] /\ Level[p] \in Nat
      BY <2>2, <3>1, Levels, Zenon
    <3>3. PICK s \in Nat : s = ComputeBlockSize[p] /\ ComputeBlockSize[i] = s \div 2
      BY <2>2, <3>1, BlockSizes
    <3> SUFFICES ASSUME Level[i] <= k
                 PROVE  level[s \div 2] = k - Level[i] /\ s \div 2 >= b
      BY <3>3
    <3>4. level[s] = k - Level[p]
      BY <1>14, <3>1, <3>2, <3>3
    <3>5. s \div 2 >= b /\ level[s] = 1 + level[s \div 2]
      BY <1>9, <3>2, <3>4
    <3>6. level[s \div 2] \in Nat
      BY <1>11
    <3> QED
      BY <3>2, <3>4, <3>5, <3>6
  <2> QED
    BY <2>1, <2>2
<1>15. \A i \in Nat : i \in Good
  <2> HIDE DEF Good
  <2> QED
    BY <1>14, Induction
<1>16. ASSUME NEW i \in Nat, Level[i] = k PROVE ComputeBlockSize[i] \div 2 < b
  <2>1. PICK s \in Nat : s = ComputeBlockSize[i]
    BY BlockSizes
  <2>2. level[s] = 0
    BY <1>15, <1>16, <2>1
  <2>3. level[s \div 2] \in Nat
    BY <1>11
  <2> QED
    BY <1>9, <2>1, <2>2, <2>3
<1>17. ASSUME NEW i \in Nat \ {0}, Level[i] <= k PROVE ComputeBlockSize[i] >= b
  BY <1>15, <1>17
<1>18. ASSUME 2 * (ComputeBlockSize[Pow2[NumOrder] - 2] \div 2) <= b PROVE k < NumOrder
  <2>1. PICK i \in Nat : i = Pow2[NumOrder] - 2 /\ Level[i] = NumOrder - 1
    BY LastNode
  <2>2. PICK s \in Nat : s = ComputeBlockSize[i] /\ 2 * (s \div 2) <= b
    BY <1>18, <2>1, BlockSizes
  <2> SUFFICES ASSUME k >= NumOrder PROVE FALSE
    BY <1>12
  <2>3. level[s] = k - (NumOrder - 1)
    BY <1>12, <1>15, <2>1, <2>2
  <2>4. s \div 2 >= b
    BY <1>9, <1>12, <2>3
  <2> QED
    BY <2>2, <2>4
<1> QED
  BY <1>13, <1>16, <1>17, <1>18

-----------------------------------------------------------------------------
(***************************************************************************)
(* The tree: who is below whom, and where the blocks are.                  *)
(***************************************************************************)

\* A node is below i if it is i or its parent is below i.
LEMMA BelowEq ==
    \A i, j \in Nat : Below(j, i) <=> j = i \/ (j > i /\ Below(Parent(j), i))
<1> SUFFICES ASSUME NEW i \in Nat
             PROVE  \A j \in Nat : Below(j, i) <=> j = i \/ (j > i /\ Below(Parent(j), i))
  BY SMTT(30)
<1> DEFINE climb == CHOOSE f : f = [n \in Nat |-> n = i \/ (n > i /\ f[Parent(n)])]
           h == [z \in Nat \X BOOLEAN |-> z[1] = i \/ (z[1] > i /\ z[2])]
<1>1. h \in [Nat \X BOOLEAN -> BOOLEAN]
  BY Zenon
<1>2. ASSUME NEW n \in Nat, NEW x \in BOOLEAN PROVE h[<<n, x>>] = (n = i \/ (n > i /\ x))
  BY Zenon
<1>3. (0 = i) \in BOOLEAN
  OBVIOUS
<1> HIDE DEF h
<1>4. PICK g : TreeSolves(BOOLEAN, (0 = i), h, g)
  BY <1>1, <1>3, TreeRecursion, Zenon
<1>5. ASSUME NEW n \in Nat PROVE g[n] = (n = i \/ (n > i /\ g[Parent(n)]))
  <2>1. CASE n = 0
    <3>1. g[n] = (0 = i)
      BY <1>4, <2>1, Zenon DEF TreeSolves
    <3>2. ~(n > i)
      BY <2>1
    <3> QED
      BY <2>1, <3>1, <3>2
  <2>2. CASE n # 0
    <3>1. g[n] = h[<<n, g[Parent(n)]>>] /\ g[Parent(n)] \in BOOLEAN
      BY <1>4, <2>2, ParentFacts DEF TreeSolves
    <3> QED
      BY <1>2, <3>1, Zenon
  <2> QED
    BY <2>1, <2>2
<1>6. g = [n \in Nat |-> n = i \/ (n > i /\ g[Parent(n)])]
  <2>1. g = [n \in Nat |-> g[n]]
    BY <1>4 DEF TreeSolves
  <2> QED
    BY <1>5, <2>1, Zenon
<1>7. climb = [n \in Nat |-> n = i \/ (n > i /\ climb[Parent(n)])]
  BY <1>6, Zenon
<1>8. \A j : Below(j, i) <=> climb[j]
  BY Zenon DEF Below, climb
<1> HIDE DEF climb
<1>9. \A n \in Nat : climb[n] = (n = i \/ (n > i /\ climb[Parent(n)]))
  BY <1>7, Zenon
<1> QED
  BY <1>8, <1>9, Zenon

\* The root is above every node, a node is below itself and its parent, and what is
\* below the parent's block is found at a higher index and on a deeper level.
LEMMA BelowBasics ==
    /\ \A i \in Nat : Below(i, i) /\ Below(i, 0)
    /\ \A i \in Nat : Below(2 * i + 1, i) /\ Below(2 * i + 2, i)
    /\ \A i, j \in Nat : Below(j, i) => i <= j
    /\ \A i \in Nat, j \in Nat \ {0} : Below(Parent(j), i) => Below(j, i)
<1>1. \A i \in Nat : Below(i, i)
  BY BelowEq
<1>2. \A i, j \in Nat : Below(j, i) => i <= j
  BY BelowEq
<1>3. \A i \in Nat, j \in Nat \ {0} : Below(Parent(j), i) => Below(j, i)
  <2> SUFFICES ASSUME NEW i \in Nat, NEW j \in Nat \ {0}, Below(Parent(j), i) PROVE Below(j, i)
    OBVIOUS
  <2>1. Parent(j) \in Nat /\ Parent(j) < j
    BY ParentFacts
  <2>2. i <= Parent(j)
    BY <1>2, <2>1
  <2> QED
    BY <2>1, <2>2, BelowEq
<1>4. \A i \in Nat : Below(2 * i + 1, i) /\ Below(2 * i + 2, i)
  <2> SUFFICES ASSUME NEW i \in Nat PROVE Below(2 * i + 1, i) /\ Below(2 * i + 2, i)
    OBVIOUS
  <2>1. Parent(2 * i + 1) = i /\ Parent(2 * i + 2) = i
    BY ParentFacts
  <2>2. 2 * i + 1 \in Nat \ {0} /\ 2 * i + 2 \in Nat \ {0}
    OBVIOUS
  <2> QED
    BY <1>1, <1>3, <2>1, <2>2
<1> DEFINE Good == {i \in Nat : Below(i, 0)}
<1>5. ASSUME NEW i \in Nat, \A j \in Nat : j < i => j \in Good PROVE i \in Good
  <2>1. CASE i = 0
    BY <1>1, <2>1
  <2>2. CASE i # 0
    <3>1. Parent(i) \in Good
      <4> HIDE DEF Good
      <4> QED
        BY <1>5, <2>2, ParentFacts
    <3> QED
      BY <1>3, <2>2, <3>1
  <2> QED
    BY <2>1, <2>2
<1>6. \A i \in Nat : i \in Good
  <2> HIDE DEF Good
  <2> QED
    BY <1>5, Induction
<1> QED
  BY <1>1, <1>2, <1>3, <1>4, <1>6

\* What is below something below i is below i.
LEMMA BelowTrans ==
    ASSUME NEW i \in Nat, NEW j \in Nat, Below(j, i)
    PROVE  \A k \in Nat : Below(k, j) => Below(k, i)
<1> DEFINE Good == {k \in Nat : Below(k, j) => Below(k, i)}
<1>1. ASSUME NEW k \in Nat, \A m \in Nat : m < k => m \in Good PROVE k \in Good
  <2> SUFFICES ASSUME Below(k, j), k # j PROVE Below(k, i)
    OBVIOUS
  <2>1. k > j /\ Below(Parent(k), j) /\ k # 0
    BY BelowEq
  <2>2. Parent(k) \in Good
    <3> HIDE DEF Good
    <3> QED
      BY <1>1, <2>1, ParentFacts
  <2> QED
    BY <2>1, <2>2, BelowBasics
<1>2. \A k \in Nat : k \in Good
  <2> HIDE DEF Good
  <2> QED
    BY <1>1, Induction
<1> QED
  BY <1>2

\* What is below i is i itself or below one of its children.
LEMMA BelowSplit ==
    ASSUME NEW i \in Nat
    PROVE  \A j \in Nat : Below(j, i) => j = i \/ Below(j, 2 * i + 1) \/ Below(j, 2 * i + 2)
<1> DEFINE Good == {j \in Nat : Below(j, i) => j = i \/ Below(j, 2 * i + 1) \/ Below(j, 2 * i + 2)}
<1>1. ASSUME NEW j \in Nat, \A m \in Nat : m < j => m \in Good PROVE j \in Good
  <2> SUFFICES ASSUME Below(j, i), j # i PROVE Below(j, 2 * i + 1) \/ Below(j, 2 * i + 2)
    OBVIOUS
  <2>1. j > i /\ Below(Parent(j), i) /\ j \in Nat \ {0}
    BY BelowEq
  <2>2. PICK p \in Nat : p = Parent(j) /\ p < j /\ (j = 2 * p + 1 \/ j = 2 * p + 2)
    BY <2>1, ParentFacts, Zenon
  <2>3. p \in Good
    <3> HIDE DEF Good
    <3> QED
      BY <1>1, <2>2
  <2>4. 2 * i + 1 \in Nat /\ 2 * i + 2 \in Nat
    OBVIOUS
  <2>5. CASE p = i
    BY <2>2, <2>4, <2>5, BelowBasics, ZenonT(40)
  <2>6. CASE p # i
    <3>1. Below(p, 2 * i + 1) \/ Below(p, 2 * i + 2)
      BY <2>1, <2>2, <2>3, <2>6
    <3> QED
      BY <2>1, <2>2, <2>4, <3>1, BelowBasics
  <2> QED
    BY <2>5, <2>6
<1>2. \A j \in Nat : j \in Good
  <2> HIDE DEF Good
  <2> QED
    BY <1>1, Induction
<1> QED
  BY <1>2

\* Deeper nodes are on deeper levels.
LEMMA BelowLevels ==
    ASSUME NEW i \in Nat
    PROVE  \A j \in Nat : Below(j, i) => Level[i] <= Level[j] /\ (Level[i] = Level[j] => i = j)
<1> DEFINE Good == {j \in Nat : Below(j, i) => j = i \/ Level[i] < Level[j]}
<1>1. ASSUME NEW j \in Nat, \A m \in Nat : m < j => m \in Good PROVE j \in Good
  <2> SUFFICES ASSUME Below(j, i), j # i PROVE Level[i] < Level[j]
    OBVIOUS
  <2>1. j > i /\ Below(Parent(j), i) /\ j # 0
    BY BelowEq
  <2>2. Parent(j) \in Good /\ Parent(j) \in Nat
    <3> HIDE DEF Good
    <3> QED
      BY <1>1, <2>1, ParentFacts
  <2>3. Level[j] = 1 + Level[Parent(j)] /\ Level[Parent(j)] \in Nat /\ Level[i] \in Nat
    BY <2>1, <2>2, Levels
  <2> QED
    BY <2>1, <2>2, <2>3
<1>2. \A j \in Nat : j \in Good
  <2> HIDE DEF Good
  <2> QED
    BY <1>1, Induction
<1> QED
  BY <1>2, Levels

\* Two nodes above the same node are one above the other.
LEMMA BelowLinear ==
    ASSUME NEW i \in Nat, NEW j \in Nat
    PROVE  \A k \in Nat : Below(k, i) /\ Below(k, j) => Below(i, j) \/ Below(j, i)
<1> DEFINE Good == {k \in Nat : Below(k, i) /\ Below(k, j) => Below(i, j) \/ Below(j, i)}
<1>1. ASSUME NEW k \in Nat, \A m \in Nat : m < k => m \in Good PROVE k \in Good
  <2> SUFFICES ASSUME Below(k, i), Below(k, j), k # i, k # j PROVE Below(i, j) \/ Below(j, i)
    OBVIOUS
  <2>1. k > i /\ Below(Parent(k), i) /\ Below(Parent(k), j) /\ k # 0
    BY BelowEq
  <2>2. Parent(k) \in Good
    <3> HIDE DEF Good
    <3> QED
      BY <1>1, <2>1, ParentFacts, Zenon
  <2> QED
    BY <2>1, <2>2
<1>2. \A k \in Nat : k \in Good
  <2> HIDE DEF Good
  <2> QED
    BY <1>1, Induction
<1> QED
  BY <1>2

\* The block of a node contains the blocks of all nodes below it.
LEMMA BlocksNested ==
    ASSUME NEW i \in Nat
    PROVE  \A j \in Nat : Below(j, i) =>
              /\ BlockAddr[i] <= BlockAddr[j]
              /\ BlockAddr[j] + ComputeBlockSize[j] <= BlockAddr[i] + ComputeBlockSize[i]
<1> DEFINE In(j) == /\ BlockAddr[i] <= BlockAddr[j]
                    /\ BlockAddr[j] + ComputeBlockSize[j] <= BlockAddr[i] + ComputeBlockSize[i]
           Good == {j \in Nat : Below(j, i) => In(j)}
<1>0. BlockAddr[i] \in Nat /\ ComputeBlockSize[i] \in Nat
  BY BlockAddrs, BlockSizes
<1>1. ASSUME NEW j \in Nat, \A m \in Nat : m < j => m \in Good PROVE j \in Good
  <2> SUFFICES ASSUME Below(j, i) PROVE In(j)
    OBVIOUS
  <2>1. CASE j = i
    BY <1>0, <2>1
  <2>2. CASE j # i
    <3>1. j > i /\ Below(Parent(j), i) /\ j \in Nat \ {0}
      BY <2>2, BelowEq
    <3>2. PICK p \in Nat : p = Parent(j) /\ p < j /\ (j = 2 * p + 1 \/ j = 2 * p + 2)
      BY <3>1, ParentFacts, Zenon
    <3>3. p \in Good
      <4> HIDE DEF Good
      <4> QED
        BY <1>1, <3>2
    <3>4. In(p)
      BY <3>1, <3>2, <3>3
    <3>5. PICK a \in Nat, s \in Nat : a = BlockAddr[p] /\ s = ComputeBlockSize[p]
      BY BlockAddrs, BlockSizes, Zenon
    <3>6. ComputeBlockSize[j] = s \div 2
      BY <3>1, <3>2, <3>5, BlockSizes
    <3>7. BlockAddr[j] = a \/ BlockAddr[j] = a + s \div 2
      BY <3>2, <3>5, BlockAddrs
    <3> QED
      BY <1>0, <3>4, <3>5, <3>6, <3>7
  <2> QED
    BY <2>1, <2>2
<1>2. \A j \in Nat : j \in Good
  <2> HIDE DEF Good
  <2> QED
    BY <1>1, Induction
<1> QED
  BY <1>2

\* Neither node is below the other.
Apart(i, j) == ~Below(i, j) /\ ~Below(j, i)

\* The blocks of two nodes do not overlap.
Disjoint(i, j) ==
    \/ BlockAddr[i] + ComputeBlockSize[i] <= BlockAddr[j]
    \/ BlockAddr[j] + ComputeBlockSize[j] <= BlockAddr[i]

\* Nodes of which neither is below the other have disjoint blocks.
LEMMA ApartDisjoint ==
    \A i, j \in Nat : Apart(i, j) => Disjoint(i, j)
<1> DEFINE Good == {i \in Nat : \A j \in Nat : j < i /\ Apart(i, j) => Disjoint(i, j)}
<1>1. ASSUME NEW i \in Nat, \A m \in Nat : m < i => m \in Good PROVE i \in Good
  <2> SUFFICES ASSUME NEW j \in Nat, j < i, Apart(i, j) PROVE Disjoint(i, j)
    OBVIOUS
  <2>0. i \in Nat \ {0}
    OBVIOUS
  <2>1. PICK p \in Nat : p = Parent(i) /\ p < i /\ (i = 2 * p + 1 \/ i = 2 * p + 2)
    BY <2>0, ParentFacts, Zenon
  <2>2. ~Below(p, j)
    BY <2>1, BelowBasics DEF Apart
  <2>3. Below(i, p)
    BY <2>1, BelowBasics
  <2>4. /\ BlockAddr[i] \in Nat /\ BlockAddr[j] \in Nat /\ BlockAddr[p] \in Nat
        /\ ComputeBlockSize[i] \in Nat /\ ComputeBlockSize[j] \in Nat /\ ComputeBlockSize[p] \in Nat
    BY BlockAddrs, BlockSizes
  <2>5. CASE ~Below(j, p)
    <3>1. Disjoint(p, j)
      <4>1. p \in Good
        <5> HIDE DEF Good
        <5> QED
          BY <1>1, <2>1
      <4>2. CASE j < p
        BY <2>2, <2>5, <4>1, <4>2 DEF Apart
      <4>3. CASE p < j
        <5>1. j \in Good
          <6> HIDE DEF Good
          <6> QED
            BY <1>1
        <5>2. Disjoint(j, p)
          BY <2>2, <2>5, <4>3, <5>1 DEF Apart
        <5> QED
          BY <5>2 DEF Disjoint
      <4>4. p # j
        BY <2>2, BelowBasics
      <4> QED
        BY <4>2, <4>3, <4>4
    <3>2. /\ BlockAddr[p] <= BlockAddr[i]
          /\ BlockAddr[i] + ComputeBlockSize[i] <= BlockAddr[p] + ComputeBlockSize[p]
      BY <2>3, BlocksNested
    <3> QED
      BY <2>4, <3>1, <3>2 DEF Disjoint
  <2>6. CASE Below(j, p)
    <3>1. j # p
      BY <2>2, BelowBasics
    <3>2. Below(j, 2 * p + 1) \/ Below(j, 2 * p + 2)
      BY <2>6, <3>1, BelowSplit
    <3>3. PICK q \in Nat : /\ q # i /\ (q = 2 * p + 1 \/ q = 2 * p + 2) /\ Below(j, q)
      BY <2>1, <3>2 DEF Apart
    <3>4. /\ BlockAddr[q] <= BlockAddr[j]
          /\ BlockAddr[j] + ComputeBlockSize[j] <= BlockAddr[q] + ComputeBlockSize[q]
      BY <3>3, BlocksNested
    <3>5. PICK a \in Nat, s \in Nat : a = BlockAddr[p] /\ s = ComputeBlockSize[p]
      BY <2>4
    <3>6. ComputeBlockSize[i] = s \div 2 /\ ComputeBlockSize[q] = s \div 2
      <4>1. i \in Nat \ {0} /\ q \in Nat \ {0} /\ Parent(i) = p /\ Parent(q) = p
        BY <2>1, <3>3, ParentFacts
      <4> QED
        BY <3>5, <4>1, BlockSizes
    <3>7. \/ BlockAddr[i] = a /\ BlockAddr[q] = a + s \div 2
          \/ BlockAddr[q] = a /\ BlockAddr[i] = a + s \div 2
      <4>1. BlockAddr[2 * p + 1] = a /\ BlockAddr[2 * p + 2] = a + s \div 2
        BY <2>1, <3>5, BlockAddrs
      <4>2. (i = 2 * p + 1 /\ q = 2 * p + 2) \/ (i = 2 * p + 2 /\ q = 2 * p + 1)
        BY <2>1, <3>3
      <4> QED
        BY <4>1, <4>2
    <3> QED
      BY <2>4, <3>4, <3>5, <3>6, <3>7 DEF Disjoint
  <2> QED
    BY <2>5, <2>6
<1>2. \A i \in Nat : i \in Good
  <2> HIDE DEF Good
  <2> QED
    BY <1>1, Induction
<1> SUFFICES ASSUME NEW i \in Nat, NEW j \in Nat, Apart(i, j) PROVE Disjoint(i, j)
  OBVIOUS
<1>3. i # j
  BY BelowBasics DEF Apart
<1>4. CASE j < i
  BY <1>2, <1>4
<1>5. CASE i < j
  <2>1. Disjoint(j, i)
    BY <1>2, <1>5 DEF Apart
  <2> QED
    BY <2>1 DEF Disjoint
<1> QED
  BY <1>3, <1>4, <1>5

-----------------------------------------------------------------------------
(***************************************************************************)
(* The two walks down the tree.                                            *)
(***************************************************************************)

\* f iterates h from b on.
Iterates(S, b, h, f) ==
    /\ f \in [Nat -> S]
    /\ f[0] = b
    /\ \A n \in Nat : f[n + 1] = h[f[n]]

\* The iteration of a function exists, and satisfies the equation that a recursive
\* definition of it gives.
LEMMA Iteration ==
    ASSUME NEW S, NEW b \in S, NEW h \in [S -> S]
    PROVE  \E f : Iterates(S, b, h, f) /\ f = [n \in Nat |-> IF n = 0 THEN b ELSE h[f[n - 1]]]
<1> DEFINE up == [n \in Nat |-> IF n = 0 THEN 0 ELSE n - 1]
           g == [z \in Nat \X S |-> h[z[2]]]
<1>1. up \in [Nat -> Nat] /\ \A n \in Nat \ {0} : up[n] = n - 1 /\ up[n] < n
  OBVIOUS
<1>2. g \in [Nat \X S -> S] /\ \A n \in Nat, x \in S : g[<<n, x>>] = h[x]
  OBVIOUS
<1> HIDE DEF up, g
<1>3. PICK f : PathSolves(S, up, b, g, f)
  BY <1>1, <1>2, PathRecursion, Zenon
<1>4. f \in [Nat -> S]
  BY <1>3 DEF PathSolves
<1>5. ASSUME NEW n \in Nat PROVE f[n] = IF n = 0 THEN b ELSE h[f[n - 1]]
  <2>1. CASE n = 0
    BY <1>3, <2>1, Zenon DEF PathSolves
  <2>2. CASE n # 0
    <3>1. n - 1 \in Nat /\ f[n - 1] \in S
      BY <1>4, <2>2
    <3>2. f[n] = g[<<n, f[n - 1]>>]
      BY <1>1, <1>3, <2>2 DEF PathSolves
    <3> QED
      BY <1>2, <2>2, <3>1, <3>2
  <2> QED
    BY <2>1, <2>2
<1>6. f = [n \in Nat |-> IF n = 0 THEN b ELSE h[f[n - 1]]]
  BY <1>4, <1>5
<1>7. Iterates(S, b, h, f)
  <2>1. f[0] = b
    BY <1>5
  <2>2. ASSUME NEW n \in Nat PROVE f[n + 1] = h[f[n]]
    <3>1. n + 1 \in Nat /\ n + 1 # 0 /\ (n + 1) - 1 = n
      OBVIOUS
    <3> QED
      BY <1>5, <3>1
  <2> QED
    BY <1>4, <2>1, <2>2 DEF Iterates
<1> QED
  BY <1>6, <1>7

\* deallocate finds a node from its address and its level.
Found(i, w, l) ==
    /\ w.idx \in Nat /\ w.off = BlockAddr[w.idx]
    /\ Level[w.idx] = l
    /\ Below(i, w.idx)

\* One iteration keeps above the node it looks for.
LEMMA FindDownFound ==
    ASSUME NEW i \in Nat, ComputeBlockSize[i] > 0, NEW w, NEW l \in Nat, l < Level[i],
           Found(i, w, l)
    PROVE  Found(i, FindDown(BlockAddr[i], w), l + 1)
<1>1. PICK x \in Nat : x = w.idx
  BY DEF Found
<1>2. PICK a \in Nat, s \in Nat : a = BlockAddr[x] /\ s = ComputeBlockSize[x] /\ w.off = a
  BY <1>1, BlockAddrs, BlockSizes, Zenon DEF Found
<1>3. i # x /\ Below(i, x) /\ Level[x] = l
  BY <1>1 DEF Found
<1>4. Below(i, 2 * x + 1) \/ Below(i, 2 * x + 2)
  BY <1>3, BelowSplit
<1>5. /\ 2 * x + 1 \in Nat \ {0} /\ 2 * x + 2 \in Nat \ {0}
      /\ Parent(2 * x + 1) = x /\ Parent(2 * x + 2) = x
  BY ParentFacts
<1>6. Level[2 * x + 1] = l + 1 /\ Level[2 * x + 2] = l + 1
  BY <1>3, <1>5, Levels
<1>7. /\ BlockAddr[2 * x + 1] = a /\ BlockAddr[2 * x + 2] = a + s \div 2
      /\ ComputeBlockSize[2 * x + 1] = s \div 2
  BY <1>2, <1>5, BlockAddrs, BlockSizes
<1>8. BlockAddr[i] \in Nat /\ ComputeBlockSize[i] \in Nat
  BY BlockAddrs, BlockSizes
<1>9. CASE Below(i, 2 * x + 1)
  <2>1. BlockAddr[i] + ComputeBlockSize[i] <= a + s \div 2
    BY <1>5, <1>7, <1>9, BlocksNested
  <2>2. BlockAddr[i] < w.off + ComputeBlockSize[w.idx] \div 2
    BY <1>1, <1>2, <1>8, <2>1
  <2>3. FindDown(BlockAddr[i], w) = [idx |-> 2 * x + 1, off |-> a]
    BY <1>1, <1>2, <2>2 DEF FindDown
  <2> QED
    BY <1>5, <1>6, <1>7, <1>9, <2>3 DEF Found
<1>10. CASE Below(i, 2 * x + 2)
  <2>1. a + s \div 2 <= BlockAddr[i]
    BY <1>5, <1>7, <1>10, BlocksNested
  <2>2. ~(BlockAddr[i] < w.off + ComputeBlockSize[w.idx] \div 2)
    BY <1>1, <1>2, <1>8, <2>1
  <2>3. FindDown(BlockAddr[i], w) = [idx |-> 2 * x + 2, off |-> a + s \div 2]
    BY <1>1, <1>2, <2>2 DEF FindDown
  <2> QED
    BY <1>5, <1>6, <1>7, <1>10, <2>3 DEF Found
<1> QED
  BY <1>4, <1>9, <1>10

\* deallocate finds the node again whose address and level allocate used.
LEMMA FindBlockFinds ==
    ASSUME NEW i \in Nat, ComputeBlockSize[i] > 0, NEW size,
           ComputeLevel(RoundedUpToMinBlockSize(size)) = Level[i]
    PROVE  FindBlock(BlockAddr[i], size) = i
<1> DEFINE S == [idx : Nat, off : Nat]
           b == [idx |-> 0, off |-> 0]
           a == BlockAddr[i]
           walk == CHOOSE f : f = [l \in Nat |-> IF l = 0 THEN b ELSE FindDown(a, f[l - 1])]
           h == [w \in S |-> FindDown(a, w)]
<1>1. FindBlock(a, size) = walk[Level[i]].idx
  BY Zenon DEF FindBlock, walk
<1>2. a \in Nat /\ Level[i] \in Nat
  BY BlockAddrs, Levels
<1>3. h \in [S -> S]
  <2> SUFFICES ASSUME NEW w \in S PROVE FindDown(a, w) \in S
    OBVIOUS
  <2>1. ComputeBlockSize[w.idx] \in Nat
    BY BlockSizes
  <2> HIDE DEF a
  <2> QED
    BY <2>1 DEF FindDown
<1>4. b \in S
  OBVIOUS
<1>5. PICK f : Iterates(S, b, h, f) /\ f = [n \in Nat |-> IF n = 0 THEN b ELSE h[f[n - 1]]]
  <2> HIDE DEF S, b, h
  <2> QED
    BY <1>3, <1>4, Iteration
<1>6. \A n \in Nat : n # 0 => h[f[n - 1]] = FindDown(a, f[n - 1])
  <2> SUFFICES ASSUME NEW n \in Nat, n # 0 PROVE h[f[n - 1]] = FindDown(a, f[n - 1])
    OBVIOUS
  <2> HIDE DEF S, b, a
  <2>1. n - 1 \in Nat
    OBVIOUS
  <2>2. f[n - 1] \in S
    BY <1>5, <2>1 DEF Iterates
  <2> QED
    BY <2>2
<1>7. f = [n \in Nat |-> IF n = 0 THEN b ELSE FindDown(a, f[n - 1])]
  <2> HIDE DEF h, b, a
  <2> QED
    BY <1>5, <1>6
<1>8. walk = [n \in Nat |-> IF n = 0 THEN b ELSE FindDown(a, walk[n - 1])]
  <2> HIDE DEF a, b
  <2> QED
    BY <1>7, Zenon
<1>9. walk[0] = b /\ \A n \in Nat : walk[n + 1] = FindDown(a, walk[n])
  <2> HIDE DEF walk, a, b
  <2> QED
    BY <1>8
<1> DEFINE Good == {l \in Nat : l <= Level[i] => Found(i, walk[l], l)}
<1>10. 0 \in Good
  <2>1. Level[0] = 0 /\ BlockAddr[0] = 0 /\ Below(i, 0)
    BY Levels, BlockAddrs, BelowBasics, Zenon
  <2> HIDE DEF walk
  <2> QED
    BY <1>9, <2>1 DEF Found
<1>11. ASSUME NEW l \in Nat, l \in Good PROVE l + 1 \in Good
  <2> HIDE DEF walk, a
  <2> SUFFICES ASSUME l + 1 <= Level[i] PROVE Found(i, walk[l + 1], l + 1)
    OBVIOUS
  <2>1. Found(i, walk[l], l) /\ l < Level[i]
    BY <1>2, <1>11
  <2>2. Found(i, FindDown(BlockAddr[i], walk[l]), l + 1)
    BY <2>1, FindDownFound
  <2> QED
    BY <1>9, <2>2 DEF a
<1>12. \A l \in Nat : l \in Good
  <2> HIDE DEF Good
  <2> QED
    BY <1>10, <1>11, StepInduction
<1> HIDE DEF walk
<1>13. Found(i, walk[Level[i]], Level[i])
  BY <1>2, <1>12
<1>14. walk[Level[i]].idx = i
  BY <1>13, BelowLevels DEF Found
<1> QED
  BY <1>1, <1>14

-----------------------------------------------------------------------------
(***************************************************************************)
(* The summary of the tree.  T is the set of allocated nodes.              *)
(***************************************************************************)

\* Every block is exactly two of its children: no division by two has a remainder.
Halves == \A i \in BlockIdx \ {0} : 2 * ComputeBlockSize[i] = ComputeBlockSize[Parent(i)]

\* Something at or below node i is allocated.
Occupied(T, i) == \E j \in T : Below(j, i)

\* What update_pool is to maintain at node i.
NodeOK(T, pool, i) ==
    pool[i] = IF i \in T THEN 0
              ELSE IF ~Occupied(T, i) THEN ComputeBlockSize[i]
              ELSE Max2(pool[2 * i + 1], pool[2 * i + 2])

Bounded(pool) ==
    /\ pool \in [BlockIdx -> Nat]
    /\ \A i \in BlockIdx : pool[i] <= ComputeBlockSize[i]

\* No allocated node is below another one.
Antichain(T) == T \subseteq BlockIdx /\ \A i, j \in T : Below(i, j) => i = j

\* The tree is right everywhere but above node c, where update_pool has arrived.
RightUpTo(T, pool, c) ==
    /\ Bounded(pool)
    /\ c \in BlockIdx
    /\ \A i \in BlockIdx : i = c \/ ~Below(c, i) => NodeOK(T, pool, i)
    /\ \A j \in T : Below(c, j) => j = c

TreeOK(T, pool) == Bounded(pool) /\ \A i \in BlockIdx : NodeOK(T, pool, i)

\* The nodes of the array: numbers, closed under Parent, a node having both children
\* in the array or none.
LEMMA ArrayNodes ==
    /\ BlockIdx \subseteq Nat /\ 0 \in BlockIdx
    /\ \A i \in BlockIdx : i # 0 => Parent(i) \in BlockIdx
    /\ \A i \in Nat : 2 * i + 1 \in BlockIdx <=> 2 * i + 2 \in BlockIdx
    /\ \A i \in Nat : 2 * i + 1 \in BlockIdx => i \in BlockIdx
    /\ \A i \in Nat, j \in BlockIdx : Below(j, i) /\ j # i => 2 * i + 1 \in BlockIdx
<1>1. BlockIdx \subseteq Nat
  BY DEF BlockIdx
<1>2. NumOrder \in Nat \ {0} /\ \A i \in Nat : Level[i] \in Nat
  BY PoolAssumption, Levels
<1>3. 0 \in BlockIdx
  BY <1>2, BlockLevels, Levels
<1>4. ASSUME NEW i \in BlockIdx, i # 0 PROVE Parent(i) \in BlockIdx
  <2>1. i \in Nat /\ Parent(i) \in Nat
    BY <1>1, <1>4, ParentFacts
  <2>2. Level[i] = 1 + Level[Parent(i)] /\ Level[i] < NumOrder
    BY <1>4, <2>1, Levels, BlockLevels
  <2> QED
    BY <1>2, <2>1, <2>2, BlockLevels
<1>5. ASSUME NEW i \in Nat
      PROVE  /\ 2 * i + 1 \in Nat /\ 2 * i + 2 \in Nat
             /\ 2 * i + 1 \in BlockIdx <=> 1 + Level[i] < NumOrder
             /\ 2 * i + 2 \in BlockIdx <=> 1 + Level[i] < NumOrder
  <2>1. 2 * i + 1 \in Nat \ {0} /\ 2 * i + 2 \in Nat \ {0}
    OBVIOUS
  <2>2. Level[2 * i + 1] = 1 + Level[i] /\ Level[2 * i + 2] = 1 + Level[i]
    BY <2>1, Levels, ParentFacts, Zenon
  <2> QED
    BY <2>1, <2>2, BlockLevels
<1>6. \A i \in Nat : 2 * i + 1 \in BlockIdx <=> 2 * i + 2 \in BlockIdx
  BY <1>5, Zenon
<1>7. \A i \in Nat : 2 * i + 1 \in BlockIdx => i \in BlockIdx
  <2> SUFFICES ASSUME NEW i \in Nat, 2 * i + 1 \in BlockIdx PROVE i \in BlockIdx
    OBVIOUS
  <2>1. 1 + Level[i] < NumOrder
    BY <1>5
  <2> QED
    BY <1>2, <2>1, BlockLevels
<1>8. ASSUME NEW i \in Nat, NEW j \in BlockIdx, Below(j, i), j # i PROVE 2 * i + 1 \in BlockIdx
  <2>1. j \in Nat /\ Level[j] < NumOrder
    BY <1>1, BlockLevels
  <2>2. Level[i] <= Level[j] /\ Level[i] # Level[j]
    BY <1>8, <2>1, BelowLevels
  <2>3. 1 + Level[i] < NumOrder
    BY <1>2, <2>1, <2>2
  <2> QED
    BY <1>5, <2>3
<1> QED
  BY <1>1, <1>3, <1>4, <1>6, <1>7, <1>8

\* With exact halves no block is empty.
LEMMA Positive ==
    ASSUME Halves
    PROVE  \A i \in BlockIdx : ComputeBlockSize[i] \in Nat \ {0}
<1> DEFINE Good == {i \in Nat : i \in BlockIdx => ComputeBlockSize[i] \in Nat \ {0}}
<1>1. ASSUME NEW i \in Nat, \A j \in Nat : j < i => j \in Good PROVE i \in Good
  <2> SUFFICES ASSUME i \in BlockIdx PROVE ComputeBlockSize[i] \in Nat \ {0}
    OBVIOUS
  <2>1. CASE i = 0
    BY <2>1, BlockSizes, PoolAssumption
  <2>2. CASE i # 0
    <3>1. Parent(i) \in Good /\ Parent(i) \in BlockIdx
      <4> HIDE DEF Good
      <4> QED
        BY <1>1, <2>2, ParentFacts, ArrayNodes
    <3>2. 2 * ComputeBlockSize[i] = ComputeBlockSize[Parent(i)] /\ ComputeBlockSize[i] \in Nat
      BY <2>2, BlockSizes DEF Halves
    <3> QED
      BY <3>1, <3>2
  <2> QED
    BY <2>1, <2>2
<1>2. \A i \in Nat : i \in Good
  <2> HIDE DEF Good
  <2> QED
    BY <1>1, Induction
<1> QED
  BY <1>2, ArrayNodes

\* A node is occupied if it or one of its children is.
LEMMA OccupiedChildren ==
    ASSUME NEW T, T \subseteq BlockIdx, NEW i \in Nat, i \notin T
    PROVE  Occupied(T, i) <=> Occupied(T, 2 * i + 1) \/ Occupied(T, 2 * i + 2)
<1>0. BlockIdx \subseteq Nat /\ 2 * i + 1 \in Nat /\ 2 * i + 2 \in Nat
  BY ArrayNodes
<1>1. ASSUME NEW j \in T, Below(j, i) PROVE Below(j, 2 * i + 1) \/ Below(j, 2 * i + 2)
  BY <1>0, <1>1, BelowSplit
<1>2. ASSUME NEW j \in T, Below(j, 2 * i + 1) \/ Below(j, 2 * i + 2) PROVE Below(j, i)
  BY <1>0, <1>2, BelowBasics, BelowTrans
<1> QED
  BY <1>1, <1>2 DEF Occupied

\* A node offers its whole block exactly if nothing at or below it is allocated; else it
\* offers no more than half of it.
LEMMA FullOrHalf ==
    ASSUME NEW T, T \subseteq BlockIdx, NEW pool, Bounded(pool),
           NEW i \in BlockIdx, NodeOK(T, pool, i)
    PROVE  IF Occupied(T, i) THEN pool[i] <= ComputeBlockSize[i] \div 2
                             ELSE pool[i] = ComputeBlockSize[i]
<1>0. i \in Nat /\ ComputeBlockSize[i] \in Nat /\ pool[i] \in Nat
  BY ArrayNodes, BlockSizes DEF Bounded
<1>1. CASE ~Occupied(T, i)
  <2>1. i \notin T
    BY <1>0, <1>1, BelowBasics DEF Occupied
  <2> QED
    BY <1>1, <2>1 DEF NodeOK
<1>2. CASE i \in T
  <2>1. pool[i] = 0 /\ Occupied(T, i)
    BY <1>0, <1>2, BelowBasics DEF NodeOK, Occupied
  <2> QED
    BY <1>0, <2>1
<1>3. CASE Occupied(T, i) /\ i \notin T
  <2>1. pool[i] = Max2(pool[2 * i + 1], pool[2 * i + 2])
    BY <1>3 DEF NodeOK
  <2>2. 2 * i + 1 \in BlockIdx /\ 2 * i + 2 \in BlockIdx
    <3>1. PICK j \in T : Below(j, i) /\ j # i
      BY <1>3 DEF Occupied
    <3> QED
      BY <1>0, <3>1, ArrayNodes
  <2>3. /\ ComputeBlockSize[2 * i + 1] = ComputeBlockSize[i] \div 2
        /\ ComputeBlockSize[2 * i + 2] = ComputeBlockSize[i] \div 2
    <3>1. 2 * i + 1 \in Nat \ {0} /\ 2 * i + 2 \in Nat \ {0}
      BY <1>0
    <3> QED
      BY <1>0, <3>1, ParentFacts, BlockSizes
  <2>4. /\ pool[2 * i + 1] <= ComputeBlockSize[i] \div 2
        /\ pool[2 * i + 2] <= ComputeBlockSize[i] \div 2
    BY <2>2, <2>3 DEF Bounded
  <2> QED
    BY <1>3, <2>1, <2>4 DEF Max2
<1> QED
  BY <1>1, <1>2, <1>3

\* Children of one node: numbers, in the array, of half the node's size.
LEMMA Children ==
    ASSUME NEW i \in Nat, 2 * i + 1 \in BlockIdx
    PROVE  /\ 2 * i + 1 \in Nat \ {0} /\ 2 * i + 2 \in Nat \ {0}
           /\ 2 * i + 1 \in BlockIdx /\ 2 * i + 2 \in BlockIdx /\ i \in BlockIdx
           /\ Parent(2 * i + 1) = i /\ Parent(2 * i + 2) = i
           /\ ComputeBlockSize[2 * i + 1] = ComputeBlockSize[i] \div 2
           /\ ComputeBlockSize[2 * i + 2] = ComputeBlockSize[i] \div 2
           /\ Level[2 * i + 1] = 1 + Level[i] /\ Level[2 * i + 2] = 1 + Level[i]
<1>1. 2 * i + 1 \in Nat \ {0} /\ 2 * i + 2 \in Nat \ {0}
  OBVIOUS
<1>2. Parent(2 * i + 1) = i /\ Parent(2 * i + 2) = i
  BY ParentFacts
<1>3. /\ ComputeBlockSize[2 * i + 1] = ComputeBlockSize[i] \div 2
      /\ ComputeBlockSize[2 * i + 2] = ComputeBlockSize[i] \div 2
  BY <1>1, <1>2, BlockSizes
<1>4. Level[2 * i + 1] = 1 + Level[i] /\ Level[2 * i + 2] = 1 + Level[i]
  BY <1>1, <1>2, Levels
<1>5. 2 * i + 2 \in BlockIdx /\ i \in BlockIdx
  BY ArrayNodes
<1> QED
  BY <1>1, <1>2, <1>3, <1>4, <1>5

\* One iteration of update_pool makes the next node on the way up right: two free
\* buddies are merged, and only they.
LEMMA UpdateParentRight ==
    ASSUME Halves, NEW T, Antichain(T), NEW pool, NEW c \in BlockIdx \ {0},
           RightUpTo(T, pool, c)
    PROVE  RightUpTo(T, UpdateParent(pool, Parent(c), 2 * ComputeBlockSize[c]), Parent(c))
<1>1. c \in Nat \ {0} /\ T \subseteq BlockIdx /\ BlockIdx \subseteq Nat
  BY ArrayNodes DEF Antichain
<1>2. PICK p \in Nat : p = Parent(c) /\ p < c /\ (c = 2 * p + 1 \/ c = 2 * p + 2)
  BY <1>1, ParentFacts, Zenon
<1>3. 2 * p + 1 \in BlockIdx
  BY <1>2, ArrayNodes
<1> DEFINE l == 2 * p + 1
           r == 2 * p + 2
           new == Merge(pool[l], pool[r], 2 * ComputeBlockSize[c])
           after == [pool EXCEPT ![p] = new]
<1>4. after = UpdateParent(pool, Parent(c), 2 * ComputeBlockSize[c])
  BY <1>2 DEF UpdateParent
<1>5. /\ l \in Nat \ {0} /\ r \in Nat \ {0} /\ l \in BlockIdx /\ r \in BlockIdx /\ p \in BlockIdx
      /\ Parent(l) = p /\ Parent(r) = p
  BY <1>3, Children
<1>6. PICK s \in Nat : /\ ComputeBlockSize[c] = s /\ ComputeBlockSize[p] = 2 * s /\ s # 0
                       /\ ComputeBlockSize[l] = s /\ ComputeBlockSize[r] = s
  <2>1. 2 * ComputeBlockSize[c] = ComputeBlockSize[p]
    BY <1>2 DEF Halves
  <2>2. 2 * ComputeBlockSize[l] = ComputeBlockSize[p] /\ 2 * ComputeBlockSize[r] = ComputeBlockSize[p]
    BY <1>5 DEF Halves
  <2>3. ComputeBlockSize[c] \in Nat \ {0} /\ ComputeBlockSize[l] \in Nat /\ ComputeBlockSize[r] \in Nat
    BY <1>5, Positive
  <2> QED
    BY <2>1, <2>2, <2>3
<1>7. /\ pool[l] \in Nat /\ pool[r] \in Nat /\ pool[l] <= s /\ pool[r] <= s
      /\ pool \in [BlockIdx -> Nat]
  BY <1>5, <1>6 DEF RightUpTo, Bounded
<1>8. new = Merge(pool[l], pool[r], 2 * s)
  BY <1>6
<1>9. NodeOK(T, pool, l) /\ NodeOK(T, pool, r)
  <2>1. ASSUME NEW x \in {l, r}, x # c PROVE ~Below(c, x)
    <3>1. Level[c] = Level[x]
      BY <1>2, <1>3, <2>1, Children
    <3>2. x \in Nat
      BY <1>5
    <3> QED
      BY <1>1, <2>1, <3>1, <3>2, BelowLevels
  <2>2. \A x \in {l, r} : x = c \/ ~Below(c, x)
    BY <2>1
  <2> QED
    BY <1>5, <2>2 DEF RightUpTo
<1>10. Below(c, p) /\ p # c /\ p \notin T
  <2>1. Below(c, p)
    BY <1>2, BelowBasics, ZenonT(40)
  <2> QED
    BY <1>2, <2>1 DEF RightUpTo
<1>11. /\ IF Occupied(T, l) THEN pool[l] <= s \div 2 ELSE pool[l] = s
       /\ IF Occupied(T, r) THEN pool[r] <= s \div 2 ELSE pool[r] = s
  <2>1. Bounded(pool)
    BY DEF RightUpTo
  <2> QED
    BY <1>1, <1>5, <1>6, <1>9, <2>1, FullOrHalf, Zenon
<1>12. Occupied(T, p) <=> Occupied(T, l) \/ Occupied(T, r)
  BY <1>1, <1>10, OccupiedChildren, Zenon
<1>13. new = IF ~Occupied(T, p) THEN 2 * s ELSE Max2(pool[l], pool[r])
  <2>1. CASE ~Occupied(T, p)
    BY <1>7, <1>8, <1>11, <1>12, <2>1 DEF Merge
  <2>2. CASE Occupied(T, p)
    <3>1. pool[l] + pool[r] # 2 * s
      BY <1>6, <1>7, <1>11, <1>12, <2>2
    <3> QED
      BY <1>8, <2>2, <3>1 DEF Merge
  <2> QED
    BY <2>1, <2>2
<1>14. new \in Nat /\ new <= 2 * s
  BY <1>7, <1>13 DEF Max2
<1> HIDE DEF new
<1>15. /\ after \in [BlockIdx -> Nat] /\ after[p] = new
       /\ \A i \in BlockIdx : i # p => after[i] = pool[i]
  BY <1>5, <1>7, <1>14
<1>16. after[l] = pool[l] /\ after[r] = pool[r]
  <2>1. l # p /\ r # p
    OBVIOUS
  <2> QED
    BY <1>5, <1>15, <2>1
<1> HIDE DEF after
<1>17. Bounded(after)
  BY <1>6, <1>14, <1>15 DEF RightUpTo, Bounded
<1>18. NodeOK(T, after, p)
  BY <1>6, <1>10, <1>13, <1>15, <1>16 DEF NodeOK
<1>19. ASSUME NEW i \in BlockIdx, i # p, ~Below(p, i) PROVE NodeOK(T, after, i)
  <2>1. i \in Nat
    BY <1>1
  <2>2. i = c \/ ~Below(c, i)
    BY <1>1, <1>2, <1>19, <2>1, BelowEq
  <2>3. NodeOK(T, pool, i)
    BY <2>2 DEF RightUpTo
  <2>4. after[i] = pool[i]
    BY <1>15, <1>19
  <2>5. Occupied(T, i) /\ i \notin T => 2 * i + 1 \in BlockIdx
    <3> SUFFICES ASSUME Occupied(T, i), i \notin T PROVE 2 * i + 1 \in BlockIdx
      OBVIOUS
    <3>1. PICK j \in T : Below(j, i) /\ j # i
      BY DEF Occupied
    <3> QED
      BY <1>1, <2>1, <3>1, ArrayNodes
  <2>6. 2 * i + 1 # p /\ 2 * i + 2 # p
    BY <1>19, <2>1, BelowBasics, Zenon
  <2>7. Occupied(T, i) /\ i \notin T =>
           after[2 * i + 1] = pool[2 * i + 1] /\ after[2 * i + 2] = pool[2 * i + 2]
    BY <1>15, <2>1, <2>5, <2>6, ArrayNodes
  <2> QED
    BY <2>3, <2>4, <2>7 DEF NodeOK
<1>20. ASSUME NEW j \in T, Below(p, j) PROVE j = p
  <2>1. j \in Nat /\ Below(c, j)
    BY <1>1, <1>2, <1>20, BelowBasics
  <2>2. j = c
    BY <2>1 DEF RightUpTo
  <2>3. j <= p
    BY <1>20, <2>1, BelowBasics
  <2> QED
    BY <1>2, <2>2, <2>3
<1>21. RightUpTo(T, after, p)
  BY <1>5, <1>17, <1>18, <1>19, <1>20 DEF RightUpTo
<1> QED
  BY <1>2, <1>4, <1>21

\* At the root the tree is right everywhere.
LEMMA RightAtRoot ==
    ASSUME NEW T, NEW pool, RightUpTo(T, pool, 0)
    PROVE  TreeOK(T, pool)
<1>1. \A i \in BlockIdx : i = 0 \/ ~Below(0, i)
  BY ArrayNodes, BelowBasics
<1> QED
  BY <1>1 DEF RightUpTo, TreeOK

\* A change of T and of pool at one node c is noticed only at the nodes above c.
LEMMA ChangeAt ==
    ASSUME NEW T, T \subseteq BlockIdx, NEW U, U \subseteq BlockIdx, NEW pool, TreeOK(T, pool),
           NEW c \in BlockIdx, T \ {c} = U \ {c}, NEW v \in Nat, v <= ComputeBlockSize[c],
           NEW after, after = [pool EXCEPT ![c] = v],
           NodeOK(U, after, c), \A j \in U : Below(c, j) => j = c
    PROVE  RightUpTo(U, after, c)
<1>1. BlockIdx \subseteq Nat /\ pool \in [BlockIdx -> Nat]
  BY ArrayNodes DEF TreeOK, Bounded
<1>2. after \in [BlockIdx -> Nat] /\ after[c] = v /\ \A i \in BlockIdx : i # c => after[i] = pool[i]
  BY <1>1
<1>4. Bounded(after)
  BY <1>2 DEF TreeOK, Bounded
<1>5. ASSUME NEW i \in BlockIdx, ~Below(c, i) PROVE NodeOK(U, after, i)
  <2>1. i # c /\ i \in Nat /\ c \in Nat
    BY <1>1, <1>5, BelowBasics
  <2>2. i \in U <=> i \in T
    BY <2>1
  <2>3. Occupied(U, i) <=> Occupied(T, i)
    BY <1>5 DEF Occupied
  <2>4. NodeOK(T, pool, i) /\ after[i] = pool[i]
    BY <1>2, <2>1 DEF TreeOK
  <2>5. Occupied(T, i) /\ i \notin T => 2 * i + 1 \in BlockIdx
    <3> SUFFICES ASSUME Occupied(T, i), i \notin T PROVE 2 * i + 1 \in BlockIdx
      OBVIOUS
    <3>1. PICK j \in T : Below(j, i) /\ j # i
      BY DEF Occupied
    <3> QED
      BY <1>1, <2>1, <3>1, ArrayNodes
  <2>6. 2 * i + 1 # c /\ 2 * i + 2 # c
    <3>1. Below(2 * i + 1, i) /\ Below(2 * i + 2, i)
      BY <2>1, BelowBasics
    <3> QED
      BY <1>5, <3>1
  <2>7. Occupied(T, i) /\ i \notin T =>
           after[2 * i + 1] = pool[2 * i + 1] /\ after[2 * i + 2] = pool[2 * i + 2]
    BY <1>2, <2>1, <2>5, <2>6, ArrayNodes
  <2> QED
    BY <2>2, <2>3, <2>4, <2>7 DEF NodeOK
<1> QED
  BY <1>4, <1>5, Zenon DEF RightUpTo

\* allocate marks a node that is apart from every allocated one.
LEMMA MarkAllocatedRight ==
    ASSUME NEW T, Antichain(T), NEW pool, TreeOK(T, pool),
           NEW c \in BlockIdx, \A j \in T : Apart(c, j)
    PROVE  /\ Antichain(T \cup {c})
           /\ RightUpTo(T \cup {c}, MarkAllocated(pool, c), c)
<1>1. T \subseteq BlockIdx /\ BlockIdx \subseteq Nat /\ ComputeBlockSize[c] \in Nat
      /\ pool \in [BlockIdx -> Nat]
  BY ArrayNodes, BlockSizes DEF Antichain, TreeOK, Bounded
<1>2. Antichain(T \cup {c})
  BY <1>1 DEF Antichain, Apart
<1> DEFINE after == [pool EXCEPT ![c] = 0]
<1>3. NodeOK(T \cup {c}, after, c)
  BY <1>1 DEF NodeOK
<1>4. \A j \in T \cup {c} : Below(c, j) => j = c
  BY DEF Apart
<1>5. T \ {c} = (T \cup {c}) \ {c} /\ T \cup {c} \subseteq BlockIdx
  BY <1>1
<1>6. after = [pool EXCEPT ![c] = 0] /\ after = MarkAllocated(pool, c)
  BY DEF MarkAllocated
<1>7. 0 \in Nat /\ 0 <= ComputeBlockSize[c]
  BY <1>1
<1> HIDE DEF after
<1>8. RightUpTo(T \cup {c}, after, c)
  BY <1>1, <1>3, <1>4, <1>5, <1>6, <1>7, ChangeAt, Zenon
<1> QED
  BY <1>2, <1>6, <1>8, Zenon

\* deallocate marks an allocated node.
LEMMA MarkFreeRight ==
    ASSUME NEW T, Antichain(T), NEW pool, TreeOK(T, pool), NEW c \in T
    PROVE  /\ Antichain(T \ {c})
           /\ RightUpTo(T \ {c}, MarkFree(pool, c), c)
<1>1. T \subseteq BlockIdx /\ BlockIdx \subseteq Nat /\ c \in BlockIdx
      /\ ComputeBlockSize[c] \in Nat /\ pool \in [BlockIdx -> Nat]
  BY ArrayNodes, BlockSizes DEF Antichain, TreeOK, Bounded
<1>2. Antichain(T \ {c})
  BY <1>1 DEF Antichain
<1>3. ~Occupied(T \ {c}, c)
  BY DEF Occupied, Antichain
<1> DEFINE after == [pool EXCEPT ![c] = ComputeBlockSize[c]]
<1>4. NodeOK(T \ {c}, after, c)
  BY <1>1, <1>3 DEF NodeOK
<1>5. \A j \in T \ {c} : Below(c, j) => j = c
  BY DEF Antichain
<1>6. T \ {c} = (T \ {c}) \ {c} /\ T \ {c} \subseteq BlockIdx
  BY <1>1
<1>7. after = [pool EXCEPT ![c] = ComputeBlockSize[c]] /\ after = MarkFree(pool, c)
  BY DEF MarkFree
<1>8. ComputeBlockSize[c] <= ComputeBlockSize[c]
  BY <1>1
<1> HIDE DEF after
<1>9. RightUpTo(T \ {c}, after, c)
  BY <1>1, <1>4, <1>5, <1>6, <1>7, <1>8, ChangeAt, Zenon
<1> QED
  BY <1>2, <1>7, <1>9, Zenon

\* Where search_suitable_block is on level l: at a node that still has a block of this
\* size, below no allocated node.
SearchOK(T, pool, b, w, l) ==
    /\ w.idx \in BlockIdx /\ Level[w.idx] = l
    /\ w.addr = BlockAddr[w.idx]
    /\ w.ok
    /\ pool[w.idx] >= b
    /\ \A j \in T : ~Below(w.idx, j)

\* One iteration of search_suitable_block finds such a child and passes its CHECK_GE.
LEMMA SearchDownOK ==
    ASSUME NEW T, T \subseteq BlockIdx, NEW pool, TreeOK(T, pool), NEW b \in Nat \ {0},
           NEW w, NEW l \in Nat, l < ComputeLevel(b), ComputeLevel(b) < NumOrder,
           SearchOK(T, pool, b, w, l)
    PROVE  SearchOK(T, pool, b, SearchDown(pool, b, w), l + 1)
<1>1. PICK x \in BlockIdx : x = w.idx
  BY DEF SearchOK
<1>2. /\ x \in Nat /\ Level[x] = l /\ w.addr = BlockAddr[x] /\ w.ok /\ pool[x] >= b
      /\ \A j \in T : ~Below(x, j)
  BY <1>1, ArrayNodes DEF SearchOK
<1>3. ComputeLevel(b) \in Nat /\ NumOrder \in Nat
  BY LevelOfSize, PoolAssumption
<1>4. 2 * x + 1 \in BlockIdx
  <2>1. 2 * x + 1 \in Nat \ {0} /\ Parent(2 * x + 1) = x
    BY <1>2, ParentFacts
  <2>2. Level[2 * x + 1] = 1 + l
    BY <1>2, <2>1, Levels
  <2> QED
    BY <1>3, <2>1, <2>2, BlockLevels
<1> DEFINE left == 2 * x + 1
           right == 2 * x + 2
<1>5. /\ left \in Nat \ {0} /\ right \in Nat \ {0} /\ left \in BlockIdx /\ right \in BlockIdx
      /\ Parent(left) = x /\ Parent(right) = x
      /\ Level[left] = l + 1 /\ Level[right] = l + 1
  BY <1>2, <1>4, Children
<1>6. /\ BlockAddr[left] = BlockAddr[x]
      /\ BlockAddr[right] = BlockAddr[x] + ComputeBlockSize[x] \div 2
  BY <1>2, BlockAddrs
<1>7. pool \in [BlockIdx -> Nat]
  BY DEF TreeOK, Bounded
<1>8. pool[left] >= b \/ pool[right] >= b
  <2>1. x \notin T /\ NodeOK(T, pool, x)
    BY <1>2, BelowBasics DEF TreeOK
  <2>2. CASE Occupied(T, x)
    <3>1. pool[x] = Max2(pool[left], pool[right])
      BY <2>1, <2>2 DEF NodeOK
    <3> QED
      BY <1>2, <3>1 DEF Max2
  <2>3. CASE ~Occupied(T, x)
    <3>1. ~Occupied(T, left)
      BY <1>2, <2>1, <2>3, OccupiedChildren, Zenon
    <3>2. left \notin T
      BY <1>5, <3>1, BelowBasics DEF Occupied
    <3>3. pool[left] = ComputeBlockSize[left]
      BY <1>5, <3>1, <3>2 DEF TreeOK, NodeOK
    <3>4. ComputeBlockSize[left] >= b
      BY <1>3, <1>5, LevelOfSize
    <3> QED
      BY <3>3, <3>4
  <2> QED
    BY <2>2, <2>3
<1>9. ASSUME NEW y \in {left, right}, pool[y] >= b, NEW j \in T PROVE ~Below(y, j)
  <2>1. y \in Nat \ {0} /\ Parent(y) = x /\ y \in BlockIdx /\ j \in Nat
    BY <1>5, ArrayNodes
  <2>2. pool[y] \in Nat /\ y \notin T
    <3>1. y \in T => pool[y] = 0
      BY <2>1 DEF TreeOK, NodeOK
    <3> QED
      BY <1>7, <1>9, <2>1, <3>1
  <2> QED
    BY <1>2, <2>1, <2>2, BelowEq
<1> HIDE DEF left, right
<1>10. CASE pool[left] >= b
  <2>1. SearchDown(pool, b, w) = [idx |-> left, addr |-> w.addr, ok |-> w.ok]
    BY <1>1, <1>10 DEF SearchDown, left
  <2> QED
    BY <1>2, <1>5, <1>6, <1>9, <1>10, <2>1 DEF SearchOK
<1>11. CASE ~(pool[left] >= b)
  <2>1. SearchDown(pool, b, w) =
           [idx |-> right, addr |-> w.addr + ComputeBlockSize[x] \div 2,
            ok |-> w.ok /\ pool[right] >= b]
    <3>1. left + 1 = right /\ left = 2 * w.idx + 1
      BY <1>1, <1>2 DEF left, right
    <3> QED
      BY <1>1, <1>11, <3>1 DEF SearchDown
  <2>2. pool[right] >= b
    BY <1>8, <1>11
  <2> DEFINE y == SearchDown(pool, b, w)
  <2>3. y.idx = right /\ y.addr = w.addr + ComputeBlockSize[x] \div 2
    BY <2>1
  <2> DEFINE checked == w.ok /\ pool[right] >= b
  <2>4. y.ok = checked
    <3>1. y = [idx |-> right, addr |-> w.addr + ComputeBlockSize[x] \div 2, ok |-> checked]
      BY <2>1
    <3> HIDE DEF y, checked
    <3> QED
      BY <3>1
  <2> HIDE DEF y
  <2>5. SearchOK(T, pool, b, y, l + 1)
    BY <1>2, <1>5, <1>6, <1>9, <2>2, <2>3, <2>4, Zenon DEF SearchOK
  <2> QED
    BY <2>5 DEF y
<1> QED
  BY <1>10, <1>11
\* The function f doubles from each argument to the next.
Doubles(f) == f \in [Nat -> Nat] /\ \A n \in Nat : f[n + 1] = 2 * f[n]

\* A pool whose size doubles k times, with at most k + 1 levels: every block is two
\* of its children.
LEMMA DoublesHalve ==
    ASSUME NEW k \in Nat, NEW scaled, Doubles(scaled), PoolSize = scaled[k], NumOrder <= k + 1
    PROVE  /\ Halves
           /\ \A i \in BlockIdx : Level[i] <= k /\ ComputeBlockSize[i] = scaled[k - Level[i]]
<1>2. BlockIdx \subseteq Nat /\ NumOrder \in Nat
  BY ArrayNodes, PoolAssumption
<1> DEFINE Good == {i \in Nat : i \in BlockIdx =>
                        Level[i] <= k /\ ComputeBlockSize[i] = scaled[k - Level[i]]}
<1>3. ASSUME NEW i \in Nat, \A j \in Nat : j < i => j \in Good PROVE i \in Good
  <2> SUFFICES ASSUME i \in BlockIdx
               PROVE  Level[i] <= k /\ ComputeBlockSize[i] = scaled[k - Level[i]]
    OBVIOUS
  <2>1. PICK l \in Nat : l = Level[i] /\ l <= k
    BY <1>2, BlockLevels, Levels
  <2>2. CASE i = 0
    <3>1. l = 0 /\ ComputeBlockSize[i] = PoolSize /\ k - 0 = k
      BY <2>1, <2>2, Levels, BlockSizes
    <3> QED
      BY <2>1, <3>1
  <2>3. CASE i # 0
    <3>1. i \in Nat \ {0} /\ Parent(i) \in BlockIdx
      BY <2>3, ArrayNodes
    <3>2. PICK p \in Nat : p = Parent(i) /\ p < i /\ p \in BlockIdx
      BY <3>1, ParentFacts
    <3>3. PICK r \in Nat : r = Level[p] /\ l = 1 + r
      BY <2>1, <3>1, <3>2, Levels
    <3>4. ComputeBlockSize[p] = scaled[k - r]
      <4>1. p \in Good
        <5> HIDE DEF Good
        <5> QED
          BY <1>3, <3>2
      <4> QED
        BY <3>2, <3>3, <4>1
    <3>5. PICK d \in Nat : d = k - l /\ k - r = d + 1
      <4>1. k - l \in Nat /\ k - r = (k - l) + 1
        BY <2>1, <3>3
      <4> QED
        BY <4>1
    <3>6. PICK s \in Nat : s = scaled[d] /\ ComputeBlockSize[p] = 2 * s
      BY <3>4, <3>5 DEF Doubles
    <3>7. ComputeBlockSize[i] = (2 * s) \div 2
      BY <3>1, <3>2, <3>6, BlockSizes
    <3>8. (2 * s) \div 2 = s
      OBVIOUS
    <3> QED
      BY <2>1, <3>5, <3>6, <3>7, <3>8
  <2> QED
    BY <2>2, <2>3
<1>4. \A i \in Nat : i \in Good
  <2> HIDE DEF Good
  <2> QED
    BY <1>3, Induction
<1>5. \A i \in BlockIdx : Level[i] <= k /\ ComputeBlockSize[i] = scaled[k - Level[i]]
  BY <1>2, <1>4, Zenon
<1>6. ASSUME NEW i \in BlockIdx \ {0} PROVE 2 * ComputeBlockSize[i] = ComputeBlockSize[Parent(i)]
  <2>1. i \in Nat \ {0} /\ Parent(i) \in BlockIdx /\ Parent(i) \in Nat
    BY <1>2, ArrayNodes, Zenon
  <2>2. PICK l \in Nat, r \in Nat : l = Level[i] /\ r = Level[Parent(i)] /\ l = 1 + r /\ l <= k
    BY <1>5, <2>1, Levels
  <2>3. PICK d \in Nat : d = k - l /\ k - r = d + 1
    <3>1. k - l \in Nat /\ k - r = (k - l) + 1
      BY <2>2
    <3> QED
      BY <3>1
  <2>4. ComputeBlockSize[i] = scaled[d] /\ ComputeBlockSize[Parent(i)] = scaled[d + 1]
    BY <1>5, <2>1, <2>2, <2>3, Zenon
  <2>5. scaled[d + 1] = 2 * scaled[d]
    BY DEF Doubles
  <2> QED
    BY <2>4, <2>5
<1> QED
  BY <1>5, <1>6 DEF Halves

\* A pool of m * 2^k bytes with at most k + 1 levels.
LEMMA MultiplesHalve ==
    ASSUME NEW m \in Nat, NEW k \in Nat, PoolSize = m * Pow2[k], NumOrder <= k + 1
    PROVE  Halves
<1> DEFINE scaled == [n \in Nat |-> m * Pow2[n]]
<1>1. PoolSize = scaled[k]
  OBVIOUS
<1>2. ASSUME NEW n \in Nat PROVE m * Pow2[n] \in Nat /\ m * Pow2[n + 1] = 2 * (m * Pow2[n])
  <2>1. PICK x \in Nat : x = Pow2[n] /\ Pow2[n + 1] = 2 * x
    BY Powers
  <2>2. m * x \in Nat /\ m * (2 * x) = 2 * (m * x)
    OBVIOUS
  <2> QED
    BY <2>1, <2>2
<1>3. Doubles(scaled)
  BY <1>2 DEF Doubles
<1> HIDE DEF scaled
<1> QED
  BY <1>1, <1>3, DoublesHalve

\* A pool of 2^k bytes with at most k + 1 levels: no request that fits the pool
\* outgrows it by rounding up, either.
LEMMA PowersHalve ==
    ASSUME NEW k \in Nat, PoolSize = Pow2[k], NumOrder <= k + 1
    PROVE  Halves /\ \A size \in Nat : size <= PoolSize => RoundedUpToMinBlockSize(size) <= PoolSize
<1>1. \A n \in Nat : Pow2[n] \in Nat \ {0} /\ Pow2[n + 1] = 2 * Pow2[n]
  BY Powers
<1>2. BlockIdx \subseteq Nat /\ NumOrder \in Nat
  BY ArrayNodes, PoolAssumption
<1> DEFINE scaled == [n \in Nat |-> Pow2[n]]
<1>3. Doubles(scaled) /\ PoolSize = scaled[k] /\ \A n \in Nat : scaled[n] = Pow2[n]
  BY <1>1 DEF Doubles
<1> HIDE DEF scaled
<1>4. Halves /\ \A i \in BlockIdx : Level[i] <= k /\ ComputeBlockSize[i] = scaled[k - Level[i]]
  BY <1>3, DoublesHalve
<1>5. \A i \in BlockIdx : Level[i] <= k /\ ComputeBlockSize[i] = Pow2[k - Level[i]]
  <2> SUFFICES ASSUME NEW i \in BlockIdx
               PROVE  Level[i] <= k /\ ComputeBlockSize[i] = Pow2[k - Level[i]]
    OBVIOUS
  <2>1. k - Level[i] \in Nat
    BY <1>2, <1>4, Levels
  <2> QED
    BY <1>3, <1>4, <2>1
<1>7. ASSUME NEW size \in Nat, size <= PoolSize PROVE RoundedUpToMinBlockSize(size) <= PoolSize
  <2>1. RoundedUp(size) <= PoolSize
    BY <1>7, RoundsUpToPower
  <2>2. MinBlockSize <= PoolSize
    <3>1. PICK i \in BlockIdx : i = Pow2[NumOrder] - 2
      <4>1. Pow2[NumOrder] - 2 \in Nat
        BY LastNode
      <4> QED
        BY <4>1 DEF BlockIdx
    <3>2. PICK l \in Nat : l = Level[i] /\ l <= k /\ k - l \in Nat /\ k - l <= k
      <4>1. Level[i] \in Nat /\ Level[i] <= k
        BY <1>2, <1>5, Levels
      <4> QED
        BY <4>1
    <3>3. PICK s \in Nat : s = ComputeBlockSize[i] /\ s <= PoolSize /\ PoolSize \in Nat
      BY <1>1, <1>5, <3>2, PowersGrow, Zenon
    <3>4. MinBlockSize = (s \div 2) * 2
      BY <3>1, <3>3 DEF MinBlockSize
    <3> QED
      BY <3>3, <3>4
  <2> QED
    BY <2>1, <2>2 DEF RoundedUpToMinBlockSize, Max2
<1> QED
  BY <1>4, <1>7

\* search_suitable_block goes down level by level.
LEMMA SearchWalk ==
    ASSUME NEW pool, NEW b
    PROVE  \E walk : /\ \A l \in Nat : SearchSuitableBlock(pool, l, b) = walk[l]
                     /\ walk[0] = [idx |-> 0, addr |-> 0, ok |-> TRUE]
                     /\ \A l \in Nat : walk[l + 1] = SearchDown(pool, b, walk[l])
<1> DEFINE S == [idx : Nat, addr : Nat, ok : BOOLEAN]
           start == [idx |-> 0, addr |-> 0, ok |-> TRUE]
           walk == CHOOSE f :
                f = [l \in Nat |-> IF l = 0 THEN start ELSE SearchDown(pool, b, f[l - 1])]
           h == [w \in S |-> SearchDown(pool, b, w)]
<1>1. \A l : SearchSuitableBlock(pool, l, b) = walk[l]
  BY Zenon DEF SearchSuitableBlock, walk
<1>2. h \in [S -> S]
  <2> SUFFICES ASSUME NEW w \in S PROVE SearchDown(pool, b, w) \in S
    OBVIOUS
  <2>1. w.idx \in Nat /\ w.addr \in Nat /\ w.ok \in BOOLEAN /\ ComputeBlockSize[w.idx] \in Nat
    BY BlockSizes
  <2> DEFINE left == 2 * w.idx + 1
             checked == w.ok /\ pool[left + 1] >= b
             addr == w.addr + ComputeBlockSize[w.idx] \div 2
  <2>2. checked \in BOOLEAN /\ addr \in Nat /\ left \in Nat /\ left + 1 \in Nat
    BY <2>1
  <2>3. SearchDown(pool, b, w) = IF pool[left] >= b
                                 THEN [idx |-> left, addr |-> w.addr, ok |-> w.ok]
                                 ELSE [idx |-> left + 1, addr |-> addr, ok |-> checked]
    BY DEF SearchDown
  <2> HIDE DEF checked, addr, left
  <2> QED
    BY <2>1, <2>2, <2>3
<1>3. start \in S
  OBVIOUS
<1> HIDE DEF S, start
<1>4. PICK f : Iterates(S, start, h, f) /\ f = [n \in Nat |-> IF n = 0 THEN start ELSE h[f[n - 1]]]
  <2> HIDE DEF h
  <2> QED
    BY <1>2, <1>3, Iteration
<1>5. \A n \in Nat : n # 0 => h[f[n - 1]] = SearchDown(pool, b, f[n - 1])
  <2> SUFFICES ASSUME NEW n \in Nat, n # 0 PROVE h[f[n - 1]] = SearchDown(pool, b, f[n - 1])
    OBVIOUS
  <2>1. n - 1 \in Nat
    OBVIOUS
  <2>2. f[n - 1] \in S
    BY <1>4, <2>1 DEF Iterates
  <2> QED
    BY <2>2
<1>6. f = [n \in Nat |-> IF n = 0 THEN start ELSE SearchDown(pool, b, f[n - 1])]
  <2> HIDE DEF h
  <2> QED
    BY <1>4, <1>5, Zenon
<1>7. walk = [n \in Nat |-> IF n = 0 THEN start ELSE SearchDown(pool, b, walk[n - 1])]
  BY <1>6, Zenon
<1> HIDE DEF walk
<1>8. walk[0] = start /\ \A n \in Nat : walk[n + 1] = SearchDown(pool, b, walk[n])
  BY <1>7
<1> QED
  BY <1>1, <1>8 DEF start

\* If the root promises a block, allocate finds one: of the right level, passing every
\* CHECK_GE, at its address, and apart from every allocated block.
LEMMA SearchFinds ==
    ASSUME NEW T, T \subseteq BlockIdx, NEW pool, TreeOK(T, pool), NEW size \in Nat,
           HasRoom(pool, size)
    PROVE  /\ SearchFor(pool, size).idx \in BlockIdx
           /\ SearchFor(pool, size).ok
           /\ SearchFor(pool, size).addr = BlockAddr[SearchFor(pool, size).idx]
           /\ Level[SearchFor(pool, size).idx] = ComputeLevel(RoundedUpToMinBlockSize(size))
           /\ ComputeBlockSize[SearchFor(pool, size).idx] >= size
           /\ \A j \in T : Apart(SearchFor(pool, size).idx, j)
<1>1. PICK b \in Nat \ {0} :
         /\ b = RoundedUpToMinBlockSize(size) /\ b >= size
         /\ 2 * (ComputeBlockSize[Pow2[NumOrder] - 2] \div 2) <= b
  <2>1. PICK s \in Nat : s = ComputeBlockSize[Pow2[NumOrder] - 2]
    BY LastNode, BlockSizes
  <2>2. /\ RoundedUpToMinBlockSize(size) \in Nat \ {0} /\ RoundedUpToMinBlockSize(size) >= size
        /\ RoundedUpToMinBlockSize(size) >= 2 * (s \div 2)
    BY <2>1, RoundedSizes
  <2>3. 2 * (s \div 2) <= RoundedUpToMinBlockSize(size)
    BY <2>2
  <2> QED
    BY <2>1, <2>2, <2>3
<1>2. ComputeLevel(b) \in Nat /\ ComputeLevel(b) < NumOrder
  BY <1>1, LevelOfSize
<1>3. pool[0] >= b /\ pool[0] \in Nat /\ pool[0] <= PoolSize /\ pool \in [BlockIdx -> Nat]
  BY <1>1, ArrayNodes, BlockSizes DEF HasRoom, TreeOK, Bounded
<1>4. PICK walk : /\ \A l \in Nat : SearchSuitableBlock(pool, l, b) = walk[l]
                  /\ walk[0] = [idx |-> 0, addr |-> 0, ok |-> TRUE]
                  /\ \A l \in Nat : walk[l + 1] = SearchDown(pool, b, walk[l])
  BY SearchWalk
<1> DEFINE Good == {l \in Nat : l <= ComputeLevel(b) => SearchOK(T, pool, b, walk[l], l)}
<1>5. 0 \in Good
  <2>1. Level[0] = 0 /\ BlockAddr[0] = 0 /\ 0 \in BlockIdx
    BY Levels, BlockAddrs, ArrayNodes, Zenon
  <2>2. 0 \notin T
    BY <1>3, <2>1 DEF TreeOK, NodeOK
  <2>3. \A j \in T : ~Below(0, j)
    BY <2>2, ArrayNodes, BelowBasics
  <2> QED
    BY <1>3, <1>4, <2>1, <2>3 DEF SearchOK
<1>6. ASSUME NEW l \in Nat, l \in Good PROVE l + 1 \in Good
  <2> SUFFICES ASSUME l + 1 <= ComputeLevel(b) PROVE SearchOK(T, pool, b, walk[l + 1], l + 1)
    OBVIOUS
  <2>1. l < ComputeLevel(b) /\ SearchOK(T, pool, b, walk[l], l)
    BY <1>2, <1>6
  <2>2. SearchOK(T, pool, b, SearchDown(pool, b, walk[l]), l + 1)
    BY <1>2, <2>1, SearchDownOK
  <2> QED
    BY <1>4, <2>2
<1>7. \A l \in Nat : l \in Good
  <2> HIDE DEF Good
  <2> QED
    BY <1>5, <1>6, StepInduction
<1> DEFINE w == SearchFor(pool, size)
<1>8. SearchOK(T, pool, b, w, ComputeLevel(b))
  <2>1. w = walk[ComputeLevel(b)]
    BY <1>1, <1>2, <1>4 DEF SearchFor
  <2>2. ComputeLevel(b) \in Good
    BY <1>2, <1>7
  <2> HIDE DEF w
  <2> QED
    BY <1>2, <2>1, <2>2
<1> HIDE DEF w
<1>9. PICK i \in BlockIdx : i = w.idx
  BY <1>8 DEF SearchOK
<1>10. i \in Nat /\ Level[i] = ComputeLevel(b) /\ pool[i] >= b /\ pool[i] \in Nat
       /\ \A j \in T : ~Below(i, j)
  BY <1>3, <1>8, <1>9, ArrayNodes, Zenon DEF SearchOK
<1>11. PICK s \in Nat : s = ComputeBlockSize[i]
  BY <1>10, BlockSizes
<1>12. s >= size
  BY <1>1, <1>10, <1>11 DEF TreeOK, Bounded
<1>13. ~Occupied(T, i)
  <2>1. s \div 2 < b
    BY <1>10, <1>11, LevelOfSize
  <2>2. Bounded(pool) /\ NodeOK(T, pool, i)
    BY DEF TreeOK
  <2>3. IF Occupied(T, i) THEN pool[i] <= s \div 2 ELSE pool[i] = s
    BY <1>11, <2>2, FullOrHalf
  <2> QED
    BY <1>10, <2>1, <2>3
<1>14. \A j \in T : Apart(i, j)
  BY <1>10, <1>13 DEF Apart, Occupied
<1>15. /\ w.idx \in BlockIdx /\ w.ok /\ w.addr = BlockAddr[w.idx] /\ Level[w.idx] = ComputeLevel(b)
  BY <1>8 DEF SearchOK
<1> QED
  BY <1>1, <1>9, <1>11, <1>12, <1>14, <1>15 DEF w

\* If the root promises no block, every node of the size class touches an allocated one.
LEMMA NoRoomNoBlock ==
    ASSUME NEW T, T \subseteq BlockIdx, NEW pool, TreeOK(T, pool), NEW size \in Nat,
           RoundedUpToMinBlockSize(size) <= PoolSize, ~HasRoom(pool, size),
           NEW i \in BlockIdx, Level[i] = ComputeLevel(RoundedUpToMinBlockSize(size))
    PROVE  \E j \in T : Below(i, j) \/ Below(j, i)
<1> SUFFICES ASSUME \A j \in T : ~Below(i, j) /\ ~Below(j, i) PROVE FALSE
  OBVIOUS
<1>1. PICK b \in Nat \ {0} : b = RoundedUpToMinBlockSize(size)
  BY RoundedSizes
<1>2. /\ BlockIdx \subseteq Nat /\ 0 \in BlockIdx /\ pool \in [BlockIdx -> Nat]
      /\ pool[0] < b /\ PoolSize \in Nat
  <2>1. BlockIdx \subseteq Nat /\ 0 \in BlockIdx /\ pool \in [BlockIdx -> Nat] /\ PoolSize \in Nat
    BY ArrayNodes, PoolAssumption DEF TreeOK, Bounded
  <2>2. ~(pool[0] >= b)
    BY <1>1 DEF HasRoom
  <2> QED
    BY <2>1, <2>2
<1> DEFINE Good == {n \in Nat : n \in BlockIdx /\ (\A j \in T : ~Below(n, j)) => pool[n] < b}
<1>3. ASSUME NEW n \in Nat, \A m \in Nat : m < n => m \in Good PROVE n \in Good
  <2> SUFFICES ASSUME n \in BlockIdx, \A j \in T : ~Below(n, j) PROVE pool[n] < b
    OBVIOUS
  <2>1. CASE n = 0
    BY <1>2, <2>1
  <2>2. CASE n # 0
    <3>1. PICK p \in BlockIdx : p = Parent(n) /\ p < n /\ (n = 2 * p + 1 \/ n = 2 * p + 2)
      BY <2>2, ArrayNodes, ParentFacts, Zenon
    <3>2. p \in Nat /\ n \in Nat \ {0} /\ T \subseteq Nat
      BY <1>2, <2>2
    <3>3. \A j \in T : ~Below(p, j)
      BY <3>1, <3>2, BelowBasics
    <3>4. pool[p] < b
      <4>1. p \in Good
        <5> HIDE DEF Good
        <5> QED
          BY <1>3, <3>1, <3>2
      <4> QED
        BY <3>3, <4>1
    <3>5. p \notin T /\ NodeOK(T, pool, p)
      BY <3>2, <3>3, BelowBasics DEF TreeOK
    <3>6. CASE Occupied(T, p)
      <4>1. pool[p] = Max2(pool[2 * p + 1], pool[2 * p + 2])
        BY <3>5, <3>6 DEF NodeOK
      <4>2. pool[2 * p + 1] \in Nat /\ pool[2 * p + 2] \in Nat
        <5>1. 2 * p + 1 \in BlockIdx /\ 2 * p + 2 \in BlockIdx
          BY <3>1, <3>2, ArrayNodes
        <5> QED
          BY <1>2, <5>1
      <4> QED
        BY <3>1, <3>4, <4>1, <4>2 DEF Max2
    <3>7. CASE ~Occupied(T, p)
      <4>1. pool[p] = ComputeBlockSize[p]
        BY <3>5, <3>7 DEF NodeOK
      <4>2. PICK s \in Nat : s = ComputeBlockSize[p] /\ ComputeBlockSize[n] = s \div 2
        BY <3>1, <3>2, BlockSizes
      <4>3. pool[n] <= s \div 2 /\ pool[n] \in Nat
        BY <1>2, <4>2 DEF TreeOK, Bounded
      <4> QED
        BY <3>4, <4>1, <4>2, <4>3
    <3> QED
      BY <3>6, <3>7
  <2> QED
    BY <2>1, <2>2
<1>4. \A n \in Nat : n \in Good
  <2> HIDE DEF Good
  <2> QED
    BY <1>3, Induction
<1>5. pool[i] < b
  BY <1>2, <1>4
<1>6. pool[i] = ComputeBlockSize[i]
  <2>1. i \notin T /\ ~Occupied(T, i)
    BY <1>2, BelowBasics DEF Occupied
  <2> QED
    BY <2>1 DEF TreeOK, NodeOK
<1>7. ComputeBlockSize[i] >= b
  <2>1. CASE i = 0
    BY <1>1, <2>1, BlockSizes
  <2>2. CASE i # 0
    <3>1. ComputeLevel(b) \in Nat /\ Level[i] \in Nat /\ Level[i] <= ComputeLevel(b)
      BY <1>1, <1>2, LevelOfSize, Levels
    <3> QED
      BY <1>2, <2>2, <3>1, LevelOfSize
  <2> QED
    BY <2>1, <2>2
<1>8. ComputeBlockSize[i] \in Nat
  BY <1>2, BlockSizes
<1> QED
  BY <1>5, <1>6, <1>7, <1>8

\* Where update_pool's loop is.
Cursors == [pool : [BlockIdx -> Nat], idx : BlockIdx, size : Nat]

\* One iteration of the loop stays in the array.
LEMMA UpdateUpType == \A at \in Cursors : UpdateUp(at) \in Cursors
<1> SUFFICES ASSUME NEW at \in Cursors PROVE UpdateUp(at) \in Cursors
  OBVIOUS
<1>1. PICK c \in BlockIdx, s \in Nat, q \in [BlockIdx -> Nat] :
         c = at.idx /\ s = at.size /\ q = at.pool
  BY DEF Cursors
<1>2. CASE c = 0
  BY <1>1, <1>2 DEF UpdateUp
<1>3. CASE c # 0
  <2>1. PICK p \in BlockIdx : p = Parent(c) /\ p \in Nat /\ (c = 2 * p + 1 \/ c = 2 * p + 2)
    BY <1>3, ArrayNodes, ParentFacts, Zenon
  <2>2. 2 * p + 1 \in BlockIdx /\ 2 * p + 2 \in BlockIdx
    BY <2>1, ArrayNodes
  <2>3. q[2 * p + 1] \in Nat /\ q[2 * p + 2] \in Nat /\ 2 * s \in Nat
    BY <2>2
  <2>4. UpdateParent(q, p, 2 * s) \in [BlockIdx -> Nat]
    <3>1. Merge(q[2 * p + 1], q[2 * p + 2], 2 * s) \in Nat
      BY <2>3 DEF Merge, Max2
    <3> QED
      BY <3>1 DEF UpdateParent
  <2>5. UpdateUp(at) = [pool |-> UpdateParent(q, p, 2 * s), idx |-> p, size |-> 2 * s]
    BY <1>1, <1>3, <2>1 DEF UpdateUp
  <2> QED
    BY <2>3, <2>4, <2>5 DEF Cursors
<1> QED
  BY <1>2, <1>3

\* update_pool goes up level by level.
LEMMA UpdateWalk ==
    ASSUME NEW pool \in [BlockIdx -> Nat], NEW i \in BlockIdx
    PROVE  \E at : /\ UpdatePool(pool, i) = at[i].pool
                   /\ at[0] = [pool |-> pool, idx |-> i, size |-> ComputeBlockSize[i]]
                   /\ \A n \in Nat : at[n] \in Cursors /\ at[n + 1] = UpdateUp(at[n])
<1> DEFINE start == [pool |-> pool, idx |-> i, size |-> ComputeBlockSize[i]]
           at == CHOOSE f : f = [n \in Nat |-> IF n = 0 THEN start ELSE UpdateUp(f[n - 1])]
           h == [w \in Cursors |-> UpdateUp(w)]
<1>1. UpdatePool(pool, i) = at[i].pool
  BY Zenon DEF UpdatePool, at
<1>2. h \in [Cursors -> Cursors]
  BY UpdateUpType
<1>3. start \in Cursors
  BY ArrayNodes, BlockSizes DEF Cursors
<1> HIDE DEF start
<1>4. PICK f : /\ Iterates(Cursors, start, h, f)
               /\ f = [n \in Nat |-> IF n = 0 THEN start ELSE h[f[n - 1]]]
  <2> HIDE DEF h
  <2> QED
    BY <1>2, <1>3, Iteration
<1>5. \A n \in Nat : n # 0 => h[f[n - 1]] = UpdateUp(f[n - 1])
  <2> SUFFICES ASSUME NEW n \in Nat, n # 0 PROVE h[f[n - 1]] = UpdateUp(f[n - 1])
    OBVIOUS
  <2>1. n - 1 \in Nat
    OBVIOUS
  <2>2. f[n - 1] \in Cursors
    BY <1>4, <2>1, Zenon DEF Iterates
  <2> QED
    BY <2>2
<1>6. f = [n \in Nat |-> IF n = 0 THEN start ELSE UpdateUp(f[n - 1])]
  <2> HIDE DEF h
  <2> QED
    BY <1>4, <1>5, Zenon
<1>7. at = [n \in Nat |-> IF n = 0 THEN start ELSE UpdateUp(at[n - 1])]
  BY <1>6, Zenon
<1> HIDE DEF at
<1>8. at[0] = start /\ \A n \in Nat : at[n + 1] = UpdateUp(at[n])
  BY <1>7
<1> DEFINE Good == {n \in Nat : at[n] \in Cursors}
<1>9. 0 \in Good /\ \A n \in Nat : n \in Good => n + 1 \in Good
  BY <1>3, <1>8, UpdateUpType
<1>10. \A n \in Nat : n \in Good
  <2> HIDE DEF Good
  <2> QED
    BY <1>9, StepInduction
<1> QED
  BY <1>1, <1>8, <1>10 DEF start

\* update_pool, called where the tree was changed, makes all of it right again.
LEMMA UpdatePoolRight ==
    ASSUME Halves, NEW T, Antichain(T), NEW pool, NEW i \in BlockIdx, RightUpTo(T, pool, i)
    PROVE  TreeOK(T, UpdatePool(pool, i))
<1>1. pool \in [BlockIdx -> Nat] /\ BlockIdx \subseteq Nat
  BY ArrayNodes DEF RightUpTo, Bounded
<1>2. PICK at : /\ UpdatePool(pool, i) = at[i].pool
                /\ at[0] = [pool |-> pool, idx |-> i, size |-> ComputeBlockSize[i]]
                /\ \A n \in Nat : at[n] \in Cursors /\ at[n + 1] = UpdateUp(at[n])
  BY <1>1, UpdateWalk
<1> DEFINE Good == {n \in Nat : /\ RightUpTo(T, at[n].pool, at[n].idx)
                                /\ at[n].size = ComputeBlockSize[at[n].idx]
                                /\ at[n].idx = 0 \/ at[n].idx + n <= i}
<1>3. 0 \in Good
  BY <1>1, <1>2
<1>4. ASSUME NEW n \in Nat, n \in Good PROVE n + 1 \in Good
  <2>1. PICK c \in BlockIdx : c = at[n].idx /\ at[n].size = ComputeBlockSize[c]
    BY <1>2, <1>4 DEF Cursors
  <2> DEFINE q == at[n].pool
  <2>2. at[n + 1] = UpdateUp(at[n])
    BY <1>2
  <2>3. CASE c = 0
    <3>1. at[n + 1] = at[n]
      BY <2>1, <2>2, <2>3 DEF UpdateUp
    <3>2. RightUpTo(T, at[n].pool, at[n].idx) /\ at[n].size = ComputeBlockSize[at[n].idx]
      BY <1>4
    <3>3. /\ RightUpTo(T, at[n + 1].pool, at[n + 1].idx)
          /\ at[n + 1].size = ComputeBlockSize[at[n + 1].idx]
          /\ at[n + 1].idx = 0
      BY <2>1, <2>3, <3>1, <3>2, Zenon
    <3> QED
      BY <3>3
  <2>4. CASE c # 0
    <3>1. c \in BlockIdx \ {0} /\ RightUpTo(T, q, c) /\ c \in Nat /\ i \in Nat /\ c + n <= i
      BY <1>1, <1>4, <2>1, <2>4
    <3>2. PICK p \in BlockIdx : p = Parent(c) /\ p \in Nat /\ p < c
      BY <3>1, ArrayNodes, ParentFacts
    <3> DEFINE new == UpdateParent(q, p, 2 * ComputeBlockSize[c])
    <3>3. RightUpTo(T, new, p)
      BY <3>1, <3>2, UpdateParentRight
    <3>4. 2 * ComputeBlockSize[c] = ComputeBlockSize[p]
      BY <3>1, <3>2 DEF Halves
    <3>5. at[n + 1] = [pool |-> new, idx |-> p, size |-> 2 * ComputeBlockSize[c]]
      BY <2>1, <2>2, <2>4, <3>2 DEF UpdateUp
    <3> HIDE DEF new
    <3>6. at[n + 1].pool = new /\ at[n + 1].idx = p /\ at[n + 1].size = ComputeBlockSize[p]
      BY <3>4, <3>5
    <3>7. p + (n + 1) <= i
      BY <3>1, <3>2
    <3> QED
      BY <3>3, <3>6, <3>7
  <2> QED
    BY <2>3, <2>4
<1>5. i \in Good
  <2> HIDE DEF Good
  <2>1. \A n \in Nat : n \in Good
    BY <1>3, <1>4, StepInduction
  <2> QED
    BY <1>1, <2>1
<1>6. PICK c \in Nat : c = at[i].idx
  BY <1>1, <1>2, Zenon DEF Cursors
<1>7. c = 0
  BY <1>1, <1>5, <1>6
<1>8. RightUpTo(T, at[i].pool, 0)
  BY <1>5, <1>6, <1>7, Zenon
<1> QED
  BY <1>2, <1>8, RightAtRoot

\* allocate as one step: one more block, apart from all others.
LEMMA AllocateBlockRight ==
    ASSUME Halves, NEW T, Antichain(T), NEW pool, TreeOK(T, pool), NEW size \in Nat,
           HasRoom(pool, size)
    PROVE  LET i == SearchFor(pool, size).idx
           IN  Antichain(T \cup {i}) /\ TreeOK(T \cup {i}, AllocateBlock(pool, size))
<1> DEFINE i == SearchFor(pool, size).idx
<1>1. i \in BlockIdx /\ \A j \in T : Apart(i, j)
  BY SearchFinds DEF Antichain
<1>2. AllocateBlock(pool, size) = UpdatePool(MarkAllocated(pool, i), i)
  BY DEF AllocateBlock
<1> HIDE DEF i
<1>3. Antichain(T \cup {i}) /\ RightUpTo(T \cup {i}, MarkAllocated(pool, i), i)
  BY <1>1, MarkAllocatedRight
<1>4. TreeOK(T \cup {i}, UpdatePool(MarkAllocated(pool, i), i))
  BY <1>1, <1>3, UpdatePoolRight
<1> QED
  BY <1>2, <1>3, <1>4 DEF i

\* deallocate as one step: the block of a node is gone.
LEMMA DeallocateBlockRight ==
    ASSUME Halves, NEW T, Antichain(T), NEW pool, TreeOK(T, pool), NEW addr, NEW size,
           FindBlock(addr, size) \in T
    PROVE  LET i == FindBlock(addr, size)
           IN  Antichain(T \ {i}) /\ TreeOK(T \ {i}, DeallocateBlock(pool, addr, size))
<1> DEFINE i == FindBlock(addr, size)
<1>1. i \in T /\ i \in BlockIdx
  BY DEF Antichain
<1>2. DeallocateBlock(pool, addr, size) = UpdatePool(MarkFree(pool, i), i)
  BY DEF DeallocateBlock
<1> HIDE DEF i
<1>3. Antichain(T \ {i}) /\ RightUpTo(T \ {i}, MarkFree(pool, i), i)
  BY <1>1, MarkFreeRight
<1>4. TreeOK(T \ {i}, UpdatePool(MarkFree(pool, i), i))
  BY <1>1, <1>3, UpdatePoolRight
<1> QED
  BY <1>2, <1>3, <1>4 DEF i

\* An empty tree is the one init_pool builds.
LEMMA EmptyTree ==
    /\ TreeOK({}, InitPool)
    /\ \A pool : TreeOK({}, pool) => pool = InitPool
<1>1. BlockIdx \subseteq Nat /\ \A i \in BlockIdx : ComputeBlockSize[i] \in Nat
  BY ArrayNodes, BlockSizes
<1>2. \A i : ~Occupied({}, i)
  BY DEF Occupied
<1>3. TreeOK({}, InitPool)
  <2>1. Bounded(InitPool)
    BY <1>1 DEF Bounded, InitPool
  <2> QED
    BY <1>2, <2>1 DEF TreeOK, NodeOK, InitPool
<1>4. ASSUME NEW pool, TreeOK({}, pool) PROVE pool = InitPool
  <2>1. pool \in [BlockIdx -> Nat]
    BY <1>4 DEF TreeOK, Bounded
  <2>2. \A i \in BlockIdx : pool[i] = ComputeBlockSize[i]
    BY <1>2, <1>4 DEF TreeOK, NodeOK
  <2> QED
    BY <2>1, <2>2 DEF InitPool
<1> QED
  BY <1>3, <1>4

\* Every block of the array lies in the pool.
LEMMA InPool ==
    ASSUME Halves, NEW i \in BlockIdx
    PROVE  /\ i \in Nat /\ BlockAddr[i] \in 0 .. PoolSize - 1
           /\ ComputeBlockSize[i] \in Nat /\ ComputeBlockSize[i] > 0 /\ ComputeBlockSize[i] <= PoolSize
<1>1. i \in Nat /\ PoolSize \in Nat
  BY ArrayNodes, PoolAssumption
<1>2. PICK a \in Nat, s \in Nat \ {0} : a = BlockAddr[i] /\ s = ComputeBlockSize[i]
  BY <1>1, BlockAddrs, Positive, Zenon
<1>3. BlockAddr[0] = 0 /\ ComputeBlockSize[0] = PoolSize /\ Below(i, 0) /\ 0 \in Nat
  BY <1>1, BlockAddrs, BlockSizes, BelowBasics, Zenon
<1>4. a + s <= 0 + PoolSize
  BY <1>1, <1>2, <1>3, BlocksNested
<1> QED
  BY <1>1, <1>2, <1>4
=============================================================================
