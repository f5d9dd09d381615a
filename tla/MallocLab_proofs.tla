-------------------------- MODULE MallocLab_proofs --------------------------
(***************************************************************************)
(* The allocator of the malloc lab, for every size of the heap and every   *)
(* sequence of calls: payloads stay apart and intact, the headers lead     *)
(* through the heap, and one pass of coalesces merges every run of free    *)
(* blocks, although it works with the tags it leaves behind.               *)
(***************************************************************************)
EXTENDS MallocLab, WellFoundedInduction, TLAPS

Addresses == 0 .. MaxHeap - 1
Mem == [Addresses -> Int]

\* A layout gives, for the start p of each block, its end (the start of the next
\* block or the break) and whether it is free.  The words of block p are those from
\* its header at p - 1 to its footer at end - 2.
Layout(L, brk) ==
    /\ brk \in 1 .. MaxHeap
    /\ First \in DOMAIN L \cup {brk}
    /\ L \in [DOMAIN L -> [end : Int, free : BOOLEAN]]
    /\ \A p \in DOMAIN L : /\ p \in Nat /\ First <= p /\ p + 3 <= L[p].end
                           /\ L[p].end <= brk /\ L[p].end \in DOMAIN L \cup {brk}
    /\ \A p, q \in DOMAIN L : p < q => L[p].end <= q
    /\ \A q \in DOMAIN L \cup {brk} : q = First \/ \E p \in DOMAIN L : L[p].end = q

\* The tags of block p: its header tells size and state.  The footer of an allocated
\* block tells the size.  The footer of a free block leads to a header inside it,
\* its own or one that a merge has left behind, of a free block that ends there.
Tags(m, p, b) ==
    /\ m[p - 1] = PACK(b.end - p, IF b.free THEN 0 ELSE 1)
    /\ ~b.free => GET_SIZE(m[b.end - 2]) = b.end - p
    /\ b.free => \E c \in p .. b.end - 3 : /\ GET_SIZE(m[b.end - 2]) = b.end - c
                                           /\ m[c - 1] = PACK(b.end - c, 0)

Tagged(m, brk, L) ==
    m \in Mem /\ m[brk - 1] = EndMark /\ \A p \in DOMAIN L : Tags(m, p, L[p])
-----------------------------------------------------------------------------
(* Tags and the words they are written to.                                 *)

\* What the macros read from a tag.
LEMMA TagFacts ==
    /\ \A s \in Nat, f \in {0, 1} : /\ PACK(s, f) \in Int
                                    /\ GET_SIZE(PACK(s, f)) = s
                                    /\ GET_ALLOC(PACK(s, f)) <=> f = 1
                                    /\ ~IS_END(PACK(s, f))
    /\ EndMark \in Int /\ IS_END(EndMark) /\ GET_ALLOC(EndMark)
BY DEF PACK, GET_SIZE, GET_ALLOC, IS_END, EndMark

\* Writing a header.
LEMMA PutHeaderWrites ==
    ASSUME NEW m \in Mem, NEW p \in Int, p - 1 \in Addresses, NEW s \in Nat, NEW f \in {0, 1}
    PROVE  /\ PutHeader(m, p, s, f) \in Mem
           /\ \A w \in Addresses : PutHeader(m, p, s, f)[w] = IF w = p - 1 THEN PACK(s, f) ELSE m[w]
BY TagFacts DEF PutHeader, Mem

\* Writing a footer, where the header says it is.
LEMMA PutFooterWrites ==
    ASSUME NEW m \in Mem, NEW p \in Int, NEW z \in Nat, SizeAt(m, p) = z, p + z - 2 \in Addresses,
           NEW s \in Nat, NEW f \in {0, 1}
    PROVE  /\ PutFooter(m, p, s, f) \in Mem
           /\ \A w \in Addresses :
                PutFooter(m, p, s, f)[w] = IF w = p + z - 2 THEN PACK(s, f) ELSE m[w]
BY TagFacts DEF PutFooter, Mem

\* Writing both: the footer goes where the new header says.
LEMMA PutBothWrites ==
    ASSUME NEW m \in Mem, NEW p \in Int, p - 1 \in Addresses, NEW s \in Nat, p + s - 2 \in Addresses,
           NEW f \in {0, 1}
    PROVE  /\ PutBoth(m, p, s, f) \in Mem
           /\ \A w \in Addresses :
                PutBoth(m, p, s, f)[w] = IF w \in {p - 1, p + s - 2} THEN PACK(s, f) ELSE m[w]
<1> DEFINE h == PutHeader(m, p, s, f)
<1>1. h \in Mem /\ \A w \in Addresses : h[w] = IF w = p - 1 THEN PACK(s, f) ELSE m[w]
  BY PutHeaderWrites, Zenon
<1>2. SizeAt(h, p) = s
  BY <1>1, TagFacts DEF SizeAt
<1> HIDE DEF h
<1>3. /\ PutFooter(h, p, s, f) \in Mem
      /\ \A w \in Addresses : PutFooter(h, p, s, f)[w] = IF w = p + s - 2 THEN PACK(s, f) ELSE h[w]
  BY <1>1, <1>2, PutFooterWrites
<1>4. PutBoth(m, p, s, f) = PutFooter(h, p, s, f)
  BY DEF PutBoth, h
<1> QED
  BY <1>1, <1>3, <1>4
-----------------------------------------------------------------------------
(* Layouts.                                                                *)

\* A block, its neighbours and the break.
LEMMA BlockFacts ==
    ASSUME NEW L, NEW brk, Layout(L, brk), NEW p \in DOMAIN L
    PROVE  /\ p \in Nat /\ 1 <= p /\ L[p].end \in Nat /\ L[p].free \in BOOLEAN
           /\ p + 3 <= L[p].end /\ L[p].end <= brk /\ brk \in Nat /\ brk <= MaxHeap
           /\ p - 1 \in Addresses /\ L[p].end - 2 \in Addresses /\ L[p].end - 1 \in Addresses
           /\ L[p].end \in DOMAIN L \/ L[p].end = brk
           /\ L[p].end - p \in Nat
BY MmHeapAssumption DEF Layout, Addresses, First

\* The blocks lie below the break, and the break in the memory.
LEMMA Bounds ==
    ASSUME NEW L, NEW brk, Layout(L, brk)
    PROVE  /\ \A p \in DOMAIN L \cup {brk} : p \in 1 .. MaxHeap
           /\ \A p \in DOMAIN L : p + 3 <= brk /\ p < brk
<1>1. brk \in 1 .. MaxHeap /\ brk \in Nat /\ MaxHeap \in Nat
  BY MmHeapAssumption DEF Layout
<1>2. ASSUME NEW p \in DOMAIN L PROVE p \in Nat /\ 1 <= p /\ p + 3 <= brk
  BY BlockFacts
<1>3. ASSUME NEW p \in DOMAIN L PROVE p \in 1 .. MaxHeap /\ p < brk
  BY <1>1, <1>2
<1> QED
  BY <1>1, <1>2, <1>3

\* Two blocks lie apart.
LEMMA BlocksApart ==
    ASSUME NEW L, NEW brk, Layout(L, brk), NEW p \in DOMAIN L, NEW q \in DOMAIN L, p # q
    PROVE  L[p].end <= q \/ L[q].end <= p
<1>1. p \in Nat /\ q \in Nat
  BY BlockFacts
<1>2. p < q \/ q < p
  BY <1>1
<1> QED
  BY <1>2 DEF Layout

\* What the code reads in the header of a block.
LEMMA HeaderReads ==
    ASSUME NEW L, NEW brk, Layout(L, brk), NEW m, NEW p \in DOMAIN L,
           m[p - 1] = PACK(L[p].end - p, IF L[p].free THEN 0 ELSE 1)
    PROVE  /\ SizeAt(m, p) = L[p].end - p /\ NEXT_BLK(m, p) = L[p].end
           /\ FreeAt(m, p) <=> L[p].free
           /\ ~IS_END(m[p - 1])
<1>1. p \in Nat /\ L[p].end \in Nat /\ L[p].end - p \in Nat
  BY BlockFacts
<1>2. CASE L[p].free
  BY <1>1, <1>2, TagFacts DEF SizeAt, FreeAt, NEXT_BLK
<1>3. CASE ~L[p].free
  BY <1>1, <1>3, TagFacts DEF SizeAt, FreeAt, NEXT_BLK
<1> QED
  BY <1>2, <1>3

\* What it reads at the end mark.
LEMMA EndReads ==
    ASSUME NEW m, NEW brk, m[brk - 1] = EndMark
    PROVE  IS_END(m[brk - 1]) /\ ~FreeAt(m, brk)
BY TagFacts DEF FreeAt

\* A block whose words stay keeps its tags.
LEMMA TagsStay ==
    ASSUME NEW L, NEW brk, Layout(L, brk), NEW p \in DOMAIN L, NEW m, NEW m2, Tags(m, p, L[p]),
           \A w \in p - 1 .. L[p].end - 2 : m2[w] = m[w]
    PROVE  Tags(m2, p, L[p])
<1> DEFINE e == L[p].end
<1>1. p \in Nat /\ e \in Nat /\ p + 3 <= e
  BY BlockFacts
<1> HIDE DEF e
<1>2. m2[p - 1] = m[p - 1] /\ m2[e - 2] = m[e - 2]
  BY <1>1 DEF e
<1>3. \A c \in p .. e - 3 : m2[c - 1] = m[c - 1]
  BY <1>1 DEF e
<1> QED
  BY <1>2, <1>3 DEF Tags, e

\* The words from lo to hi change, and with them the blocks there.
LEMMA Retag ==
    ASSUME NEW L, NEW brk, Layout(L, brk), NEW m, Tagged(m, brk, L),
           NEW L2, NEW brk2, NEW m2 \in Mem, m2[brk2 - 1] = EndMark,
           NEW lo \in Int, NEW hi \in Int,
           \A w \in Addresses : w < lo \/ hi < w => m2[w] = m[w],
           \A q \in DOMAIN L2 : \/ Tags(m2, q, L2[q])
                                \/ q \in DOMAIN L /\ L2[q] = L[q] /\ (hi < q - 1 \/ L[q].end - 2 < lo)
    PROVE  Tagged(m2, brk2, L2)
<1> SUFFICES ASSUME NEW q \in DOMAIN L2, q \in DOMAIN L, L2[q] = L[q],
                    hi < q - 1 \/ L[q].end - 2 < lo
             PROVE  Tags(m2, q, L[q])
  BY DEF Tagged
<1>1. /\ q \in Nat /\ L[q].end \in Nat
      /\ q - 1 \in Addresses /\ L[q].end - 2 \in Addresses
  BY BlockFacts
<1>2. \A w \in q - 1 .. L[q].end - 2 : w \in Addresses /\ (w < lo \/ hi < w)
  BY <1>1, MmHeapAssumption DEF Addresses
<1>3. Tags(m, q, L[q])
  BY DEF Tagged
<1> QED
  BY <1>2, <1>3, TagsStay
-----------------------------------------------------------------------------
(* The layouts that the operations lead to.                                *)

Marked(L, p, b) == [q \in DOMAIN L |-> IF q = p THEN [end |-> L[p].end, free |-> b] ELSE L[q]]

Split(L, p, e) == [q \in DOMAIN L \cup {e} |->
                     IF q = p THEN [end |-> e, free |-> FALSE]
                     ELSE IF q = e THEN [end |-> L[p].end, free |-> TRUE] ELSE L[q]]

Merged(L, p) == [q \in DOMAIN L \ {L[p].end} |->
                   IF q = p THEN [end |-> L[L[p].end].end, free |-> TRUE] ELSE L[q]]

Grown(L, brk, e) == [q \in DOMAIN L \cup {brk} |->
                       IF q = brk THEN [end |-> e, free |-> FALSE] ELSE L[q]]

\* A block is allocated or freed.
LEMMA MarkedLayout ==
    ASSUME NEW L, NEW brk, Layout(L, brk), NEW p \in DOMAIN L, NEW b \in BOOLEAN
    PROVE  Layout(Marked(L, p, b), brk)
<1> DEFINE M == Marked(L, p, b)
<1>1. DOMAIN M = DOMAIN L /\ \A q \in DOMAIN L : M[q].end = L[q].end
  BY DEF Marked, Layout
<1>2. M \in [DOMAIN M -> [end : Int, free : BOOLEAN]]
  BY DEF Marked, Layout
<1> HIDE DEF M
<1>3. Layout(M, brk)
  BY <1>1, <1>2 DEF Layout
<1> QED
  BY <1>3 DEF M

\* A block is split.
LEMMA SplitLayout ==
    ASSUME NEW L, NEW brk, Layout(L, brk), NEW p \in DOMAIN L, NEW e \in Nat,
           p + 3 <= e, e + 3 <= L[p].end
    PROVE  Layout(Split(L, p, e), brk)
<1> DEFINE M == Split(L, p, e)
<1>0. /\ \A q \in DOMAIN L : /\ q \in Nat /\ 1 <= q /\ L[q].end \in Nat /\ q + 3 <= L[q].end
                             /\ L[q].end <= brk /\ L[q].end \in DOMAIN L \cup {brk}
      /\ brk \in Nat
  BY BlockFacts
<1>1. e \notin DOMAIN L /\ e # p
  BY <1>0, BlocksApart
<1>2. /\ DOMAIN M = DOMAIN L \cup {e}
      /\ M[p].end = e /\ M[e].end = L[p].end /\ \A q \in DOMAIN L \ {p} : M[q] = L[q]
  BY <1>1 DEF Split
<1>3. M \in [DOMAIN M -> [end : Int, free : BOOLEAN]]
  BY <1>0 DEF Split, Layout
<1> HIDE DEF M
<1>4. First \in DOMAIN M \cup {brk} /\ brk \in 1 .. MaxHeap
  BY <1>2 DEF Layout
<1>5. ASSUME NEW q \in DOMAIN M
      PROVE  /\ q \in Nat /\ First <= q /\ q + 3 <= M[q].end
             /\ M[q].end <= brk /\ M[q].end \in DOMAIN M \cup {brk}
  <2>1. CASE q = p
    BY <1>0, <1>2, <2>1 DEF First
  <2>2. CASE q = e
    BY <1>0, <1>2, <2>2 DEF First
  <2>3. CASE q \in DOMAIN L \ {p}
    BY <1>0, <1>2, <2>3 DEF First
  <2> QED
    BY <1>2, <2>1, <2>2, <2>3
<1>6. ASSUME NEW q \in DOMAIN M, NEW r \in DOMAIN M, q < r PROVE M[q].end <= r
  <2>1. CASE q \in DOMAIN L \ {p} /\ r \in DOMAIN L
    BY <1>2, <1>6, <2>1 DEF Layout
  <2>2. CASE q = p /\ r \in DOMAIN L
    <3>1. L[p].end <= r
      BY <1>6, <2>2 DEF Layout
    <3> QED
      BY <1>0, <1>2, <2>2, <3>1
  <2>3. CASE q = e /\ r \in DOMAIN L
    <3>1. p # r
      BY <1>0, <1>6, <2>3
    <3>2. L[p].end <= r
      BY <1>0, <1>6, <2>3, <3>1, BlocksApart
    <3> QED
      BY <1>2, <2>3, <3>2
  <2>4. CASE r = e /\ q \in DOMAIN L \ {p}
    <3>1. L[q].end <= p
      BY <1>0, <1>6, <2>4, BlocksApart
    <3> QED
      BY <1>0, <1>2, <2>4, <3>1
  <2>5. CASE r = e /\ q = p
    BY <1>2, <2>5
  <2> QED
    BY <1>2, <1>6, <2>1, <2>2, <2>3, <2>4, <2>5
<1>7. ASSUME NEW q \in DOMAIN M \cup {brk} PROVE q = First \/ \E r \in DOMAIN M : M[r].end = q
  <2>1. CASE q = e
    BY <1>2, <2>1
  <2>2. CASE q \in DOMAIN L \cup {brk}
    <3>1. CASE q = First
      BY <3>1
    <3>2. CASE q # First
      <4>1. PICK r \in DOMAIN L : L[r].end = q
        BY <2>2, <3>2 DEF Layout
      <4> QED
        BY <1>2, <4>1
    <3> QED
      BY <3>1, <3>2
  <2> QED
    BY <1>2, <2>1, <2>2
<1>8. Layout(M, brk)
  BY <1>3, <1>4, <1>5, <1>6, <1>7 DEF Layout
<1> QED
  BY <1>8 DEF M

\* A block is merged with the next one.
LEMMA MergedLayout ==
    ASSUME NEW L, NEW brk, Layout(L, brk), NEW p \in DOMAIN L, L[p].end \in DOMAIN L
    PROVE  Layout(Merged(L, p), brk)
<1> DEFINE M == Merged(L, p)
           n == L[p].end
<1>0. /\ \A q \in DOMAIN L : /\ q \in Nat /\ 1 <= q /\ L[q].end \in Nat /\ q + 3 <= L[q].end
                             /\ L[q].end <= brk /\ L[q].end \in DOMAIN L \cup {brk}
      /\ brk \in Nat
  BY BlockFacts
<1>1. n \in DOMAIN L /\ n # p /\ n > p /\ n < brk
  <2>1. n \in Nat /\ p \in Nat /\ p + 3 <= n
    BY <1>0
  <2>2. L[n].end \in Nat /\ n + 3 <= L[n].end /\ L[n].end <= brk
    BY <1>0
  <2> QED
    BY <1>0, <2>1, <2>2
<1>2. /\ DOMAIN M = DOMAIN L \ {n} /\ p \in DOMAIN M
      /\ M[p].end = L[n].end /\ \A q \in DOMAIN M \ {p} : M[q] = L[q]
  BY <1>1 DEF Merged
<1>3. M \in [DOMAIN M -> [end : Int, free : BOOLEAN]]
  BY <1>0, <1>1 DEF Merged, Layout
<1> HIDE DEF M
<1>4. First \in DOMAIN M \cup {brk} /\ brk \in 1 .. MaxHeap
  BY <1>0, <1>1, <1>2 DEF Layout, First
<1>a. ASSUME NEW q \in DOMAIN L, L[q].end = n PROVE q = p
  <2>1. SUFFICES ASSUME q # p PROVE FALSE
    OBVIOUS
  <2> QED
    BY <1>0, <1>a, <2>1, BlocksApart
<1>b. n < L[n].end
  BY <1>0, <1>1
<1> HIDE DEF n
<1>5. ASSUME NEW q \in DOMAIN M
      PROVE  /\ q \in Nat /\ First <= q /\ q + 3 <= M[q].end
             /\ M[q].end <= brk /\ M[q].end \in DOMAIN M \cup {brk}
  <2>1. CASE q = p
    BY <1>0, <1>1, <1>2, <1>b, <2>1 DEF First
  <2>2. CASE q # p
    BY <1>0, <1>2, <1>a, <2>2 DEF First
  <2> QED
    BY <2>1, <2>2
<1>6. ASSUME NEW q \in DOMAIN M, NEW r \in DOMAIN M, q < r PROVE M[q].end <= r
  <2>1. CASE q # p
    BY <1>2, <1>6, <2>1 DEF Layout
  <2>2. CASE q = p
    <3>1. n <= r /\ n # r
      BY <1>2, <1>6, <2>2 DEF Layout, n
    <3>2. n < r
      BY <1>0, <1>1, <1>2, <3>1
    <3>3. L[n].end <= r
      BY <1>1, <1>2, <3>2 DEF Layout
    <3> QED
      BY <1>2, <2>2, <3>3
  <2> QED
    BY <2>1, <2>2
<1>7. ASSUME NEW q \in DOMAIN M \cup {brk} PROVE q = First \/ \E r \in DOMAIN M : M[r].end = q
  <2>1. CASE q = First
    BY <2>1
  <2>2. CASE q # First
    <3>1. PICK r \in DOMAIN L : L[r].end = q
      BY <1>2, <2>2 DEF Layout
    <3>2. r # p
      BY <1>0, <1>1, <1>2, <3>1 DEF n
    <3>3. CASE r = n
      BY <1>2, <3>1, <3>3
    <3>4. CASE r # n
      BY <1>2, <3>1, <3>2, <3>4
    <3> QED
      BY <3>3, <3>4
  <2> QED
    BY <2>1, <2>2
<1>8. Layout(M, brk)
  BY <1>3, <1>4, <1>5, <1>6, <1>7 DEF Layout
<1> QED
  BY <1>8 DEF M

\* A block is added at the end.
LEMMA GrownLayout ==
    ASSUME NEW L, NEW brk, Layout(L, brk), NEW e \in Nat, brk + 3 <= e, e <= MaxHeap
    PROVE  Layout(Grown(L, brk, e), e)
<1> DEFINE M == Grown(L, brk, e)
<1>0. /\ \A q \in DOMAIN L : /\ q \in Nat /\ 1 <= q /\ L[q].end \in Nat /\ q + 3 <= L[q].end
                             /\ L[q].end <= brk /\ L[q].end \in DOMAIN L \cup {brk}
      /\ brk \in Nat /\ 1 <= brk
  BY BlockFacts DEF Layout
<1>1. /\ DOMAIN M = DOMAIN L \cup {brk} /\ brk \notin DOMAIN L
      /\ M[brk].end = e /\ \A q \in DOMAIN L : M[q] = L[q]
  BY <1>0 DEF Grown
<1>2. M \in [DOMAIN M -> [end : Int, free : BOOLEAN]]
  BY <1>0 DEF Grown, Layout
<1> HIDE DEF M
<1>3. First \in DOMAIN M /\ e \in 1 .. MaxHeap
  BY <1>0, <1>1, MmHeapAssumption DEF Layout
<1>4. ASSUME NEW q \in DOMAIN M
      PROVE  /\ q \in Nat /\ First <= q /\ q + 3 <= M[q].end
             /\ M[q].end <= e /\ M[q].end \in DOMAIN M \cup {e}
  <2>1. CASE q = brk
    BY <1>0, <1>1, <2>1 DEF First
  <2>2. CASE q # brk
    BY <1>0, <1>1, <2>2 DEF First
  <2> QED
    BY <2>1, <2>2
<1>5. ASSUME NEW q \in DOMAIN M, NEW r \in DOMAIN M, q < r PROVE M[q].end <= r
  BY <1>0, <1>1, <1>5 DEF Layout
<1>6. ASSUME NEW q \in DOMAIN M \cup {e} PROVE q = First \/ \E r \in DOMAIN M : M[r].end = q
  <2>1. CASE q = e
    BY <1>1, <2>1
  <2>2. CASE q \in DOMAIN L \cup {brk} /\ q # First
    <3>1. PICK r \in DOMAIN L : L[r].end = q
      BY <2>2 DEF Layout
    <3> QED
      BY <1>1, <3>1
  <2> QED
    BY <1>1, <2>1, <2>2
<1>7. Layout(M, e)
  BY <1>2, <1>3, <1>4, <1>5, <1>6 DEF Layout
<1> QED
  BY <1>7 DEF M
-----------------------------------------------------------------------------
(* The loops over the heap.  Their turns are recursive functions of the    *)
(* model; sets take the place of the predicates of an induction.           *)

\* Every nonempty set of numbers has a least element.
LEMMA LeastElement ==
    ASSUME NEW S, S \subseteq Nat, S # {}
    PROVE  \E n \in S : \A m \in S : n <= m
<1>1. \E n \in S : \A m \in S : ~ (<<m, n>> \in OpToRel(<, Nat))
  BY NatLessThanWellFounded, WFMin, Zenon
<1>2. PICK n \in S : \A m \in S : ~ (<<m, n>> \in OpToRel(<, Nat))
  BY <1>1, Zenon
<1>3. ASSUME NEW m \in S PROVE n <= m
  <2>1. ~ (<<m, n>> \in OpToRel(<, Nat))
    BY <1>2, Zenon
  <2> QED
    BY <2>1 DEF OpToRel
<1> QED
  BY <1>3

\* Induction, over a set instead of a predicate.
LEMMA StepInduction ==
    ASSUME NEW S, 0 \in S, \A n \in Nat : n \in S => n + 1 \in S
    PROVE  \A n \in Nat : n \in S
<1> SUFFICES ASSUME Nat \ S # {} PROVE FALSE
  OBVIOUS
<1>1. PICK n \in Nat \ S : \A m \in Nat \ S : n <= m
  BY LeastElement, Zenon
<1>2. n - 1 \in Nat /\ n - 1 \in S /\ (n - 1) + 1 = n
  BY <1>1
<1> QED
  BY <1>1, <1>2

\* The iteration of a function exists.
LEMMA Iteration ==
    ASSUME NEW V, NEW b \in V, NEW g \in [V -> V]
    PROVE  \E f \in [Nat -> V] : f = [n \in Nat |-> IF n = 0 THEN b ELSE g[f[n - 1]]]
<1> DEFINE Upto(n, f) == \A i \in Nat : i < n => f[i] = IF i = 0 THEN b ELSE g[f[i - 1]]
           Good == {n \in Nat : \E f \in [Nat -> V] : Upto(n, f)}
<1>1. \A n \in Nat : n \in Good
  <2>1. 0 \in Good
    <3>1. [n \in Nat |-> b] \in [Nat -> V] /\ Upto(0, [n \in Nat |-> b])
      OBVIOUS
    <3> QED
      BY <3>1
  <2>2. ASSUME NEW n \in Nat, n \in Good PROVE n + 1 \in Good
    <3>1. PICK f \in [Nat -> V] : Upto(n, f)
      BY <2>2
    <3> DEFINE h == [i \in Nat |-> IF i = 0 THEN b ELSE g[f[i - 1]]]
    <3>2. h \in [Nat -> V]
      <4>1. \A i \in Nat : i # 0 => i - 1 \in Nat /\ g[f[i - 1]] \in V
        OBVIOUS
      <4> QED
        BY <4>1
    <3>3. ASSUME NEW i \in Nat, i < n + 1 PROVE h[i] = IF i = 0 THEN b ELSE g[h[i - 1]]
      <4>1. CASE i = 0
        BY <4>1
      <4>2. CASE i # 0
        <5>1. i - 1 \in Nat /\ i - 1 < n
          BY <3>3, <4>2
        <5>2. h[i - 1] = f[i - 1]
          BY <3>1, <5>1
        <5>3. h[i] = g[f[i - 1]]
          BY <4>2
        <5> QED
          BY <4>2, <5>2, <5>3
      <4> QED
        BY <4>1, <4>2
    <3> HIDE DEF h
    <3> QED
      BY <3>2, <3>3
  <2> HIDE DEF Good
  <2> QED
    BY <2>1, <2>2, StepInduction
<1>2. ASSUME NEW n \in Nat, NEW m \in Nat, n <= m, NEW f \in [Nat -> V], NEW h \in [Nat -> V],
             Upto(n, f), Upto(m, h)
      PROVE  \A i \in Nat : i < n => f[i] = h[i]
  <2> DEFINE Same == {i \in Nat : i < n => f[i] = h[i]}
  <2>1. 0 \in Same
    BY <1>2
  <2>2. ASSUME NEW i \in Nat, i \in Same PROVE i + 1 \in Same
    <3> SUFFICES ASSUME i + 1 < n PROVE f[i + 1] = h[i + 1]
      OBVIOUS
    <3>1. f[i] = h[i] /\ i + 1 \in Nat /\ (i + 1) - 1 = i /\ i + 1 < m
      BY <1>2, <2>2
    <3>2. f[i + 1] = g[f[i]] /\ h[i + 1] = g[h[i]]
      BY <1>2, <3>1
    <3> QED
      BY <3>1, <3>2
  <2>3. \A i \in Nat : i \in Same
    <3> HIDE DEF Same
    <3> QED
      BY <2>1, <2>2, StepInduction
  <2> QED
    BY <2>3
<1> DEFINE F == [n \in Nat |-> CHOOSE f \in [Nat -> V] : Upto(n, f)]
           u == [n \in Nat |-> F[n + 1][n]]
<1>3. ASSUME NEW n \in Nat PROVE F[n] \in [Nat -> V] /\ Upto(n, F[n])
  <2>1. \E f \in [Nat -> V] : Upto(n, f)
    BY <1>1
  <2> DEFINE c == CHOOSE f \in [Nat -> V] : Upto(n, f)
  <2>2. c \in [Nat -> V] /\ Upto(n, c)
    <3> HIDE DEF Upto
    <3> QED
      BY <2>1
  <2>3. F[n] = c
    BY Zenon
  <2> HIDE DEF F, c
  <2> QED
    BY <2>2, <2>3
<1> HIDE DEF F
<1>4. u \in [Nat -> V]
  BY <1>3
<1>5. ASSUME NEW n \in Nat PROVE u[n] = IF n = 0 THEN b ELSE g[u[n - 1]]
  <2>1. PICK m \in Nat : m = n + 1
    OBVIOUS
  <2>2. u[n] = F[m][n] /\ F[m] \in [Nat -> V] /\ Upto(m, F[m])
    BY <1>3, <2>1
  <2>3. F[m][n] = IF n = 0 THEN b ELSE g[F[m][n - 1]]
    BY <2>1, <2>2
  <2>4. CASE n = 0
    BY <2>2, <2>3, <2>4
  <2>5. CASE n # 0
    <3>1. n - 1 \in Nat /\ n <= m /\ (n - 1) + 1 = n /\ n - 1 < n
      BY <2>1, <2>5
    <3>2. F[n] \in [Nat -> V] /\ Upto(n, F[n])
      BY <1>3
    <3>3. F[n][n - 1] = F[m][n - 1]
      <4> HIDE DEF Upto
      <4> QED
        BY <1>2, <2>2, <3>1, <3>2
    <3>4. u[n - 1] = F[n][n - 1]
      BY <3>1
    <3> HIDE DEF u
    <3> QED
      BY <2>2, <2>3, <2>5, <3>3, <3>4
  <2> QED
    BY <2>4, <2>5
<1> HIDE DEF u
<1>6. u = [n \in Nat |-> IF n = 0 THEN b ELSE g[u[n - 1]]]
  BY <1>4, <1>5
<1> QED
  BY <1>4, <1>6

\* A loop whose turns move on by a block stays within V and reaches its end, within as
\* many turns as there is room for blocks.
LEMMA LoopEnds ==
    ASSUME NEW V, NEW b \in V, NEW g \in [V -> V], NEW E, NEW pos \in [V -> 1 .. MaxHeap],
           \A v \in V : IF v \in E THEN g[v] = v ELSE pos[v] + 3 <= pos[g[v]],
           NEW f, f[0] = b, \A n \in Nat : f[n] \in V => f[n + 1] = g[f[n]]
    PROVE  f[MaxHeap \div 3] \in V /\ f[MaxHeap \div 3] \in E
<1> DEFINE Good == {n \in Nat : f[n] \in V /\ (f[n] \in E \/ 1 + 3 * n <= pos[f[n]])}
<1>1. 0 \in Good
  BY MmHeapAssumption
<1>2. ASSUME NEW n \in Nat, n \in Good PROVE n + 1 \in Good
  <2>1. f[n] \in V /\ f[n + 1] = g[f[n]] /\ f[n + 1] \in V
    BY <1>2
  <2>2. CASE f[n] \in E
    BY <2>1, <2>2
  <2>3. CASE f[n] \notin E
    <3>1. 1 + 3 * n <= pos[f[n]] /\ pos[f[n]] + 3 <= pos[f[n + 1]]
      BY <1>2, <2>1, <2>3
    <3>2. pos[f[n]] \in Int /\ pos[f[n + 1]] \in Int
      BY <2>1, MmHeapAssumption
    <3>3. 1 + 3 * (n + 1) <= pos[f[n + 1]]
      BY <3>1, <3>2
    <3> QED
      BY <2>1, <3>3
  <2> QED
    BY <2>2, <2>3
<1>3. \A n \in Nat : n \in Good
  <2> HIDE DEF Good
  <2> QED
    BY <1>1, <1>2, StepInduction
<1>4. PICK n \in Nat : n = MaxHeap \div 3 /\ MaxHeap < 3 * n + 3
  BY MmHeapAssumption
<1>5. f[n] \in V /\ (f[n] \in E \/ 1 + 3 * n <= pos[f[n]])
  BY <1>3
<1>6. f[n] \in E
  <2> SUFFICES ASSUME f[n] \notin E PROVE FALSE
    OBVIOUS
  <2>1. pos[f[n]] \in Int /\ pos[g[f[n]]] \in Int /\ pos[g[f[n]]] <= MaxHeap
    BY <1>5, MmHeapAssumption
  <2>2. 1 + 3 * n <= pos[f[n]] /\ pos[f[n]] + 3 <= pos[g[f[n]]]
    BY <1>5
  <2> QED
    BY <1>4, <2>1, <2>2, MmHeapAssumption
<1> QED
  BY <1>4, <1>5, <1>6

\* The next block lies behind all blocks up to this one.
LEMMA NextBlock ==
    ASSUME NEW L, NEW brk, Layout(L, brk), NEW p \in DOMAIN L, NEW q \in DOMAIN L, q < L[p].end
    PROVE  q = p \/ q < p
<1>1. CASE q # p
  <2>1. L[p].end <= q \/ L[q].end <= p
    BY <1>1, BlocksApart
  <2> QED
    BY <2>1, BlockFacts
<1> QED
  BY <1>1

\* find_fit_block returns the first free block that is large enough, or NULL when there
\* is none.
LEMMA FindsFit ==
    ASSUME NEW L, NEW brk, Layout(L, brk), NEW m, Tagged(m, brk, L), NEW size \in Nat
    PROVE  LET p == FindFitBlock(m, size) IN
           \/ p = NULL /\ \A q \in DOMAIN L : L[q].free => L[q].end - q < size
           \/ p # NULL /\ p \in DOMAIN L /\ L[p].free /\ size <= L[p].end - p
<1> DEFINE fits(q) == L[q].free /\ size <= L[q].end - q
           V == {p \in DOMAIN L \cup {brk} : \A q \in DOMAIN L : q < p => ~fits(q)}
           E == {p \in V : p = brk \/ fits(p)}
           g == [p \in V |-> FitTurn(m, size, p)]
           pos == [p \in V |-> p]
           at == CHOOSE f : f = [n \in Nat |-> IF n = 0 THEN First ELSE FitTurn(m, size, f[n - 1])]
<1>0. /\ brk \in Nat /\ 1 <= brk /\ brk <= MaxHeap
      /\ \A q \in DOMAIN L : /\ q \in Nat /\ 1 <= q /\ q + 3 <= L[q].end /\ L[q].end <= brk
                             /\ L[q].end \in Nat /\ L[q].end \in DOMAIN L \cup {brk}
  BY BlockFacts, MmHeapAssumption DEF Layout
<1>1. \A p \in DOMAIN L : (Fits(m, p, size) <=> fits(p)) /\ ~IS_END(m[p - 1]) /\ NEXT_BLK(m, p) = L[p].end
  <2> SUFFICES ASSUME NEW p \in DOMAIN L
               PROVE  (Fits(m, p, size) <=> fits(p)) /\ ~IS_END(m[p - 1]) /\ NEXT_BLK(m, p) = L[p].end
    OBVIOUS
  <2>1. /\ SizeAt(m, p) = L[p].end - p /\ NEXT_BLK(m, p) = L[p].end
        /\ FreeAt(m, p) <=> L[p].free
        /\ ~IS_END(m[p - 1])
    BY HeaderReads DEF Tagged, Tags
  <2>2. L[p].end - p \in Nat
    BY BlockFacts
  <2> QED
    BY <2>1, <2>2 DEF Fits
<1>2. IS_END(m[brk - 1])
  BY EndReads DEF Tagged
<1>3. First \in V
  <2>1. \A q \in DOMAIN L : ~(q < First)
    BY <1>0 DEF First
  <2> QED
    BY <2>1 DEF Layout
<1>4. \A p \in V : IF p \in E THEN FitTurn(m, size, p) = p
                   ELSE /\ FitTurn(m, size, p) \in V
                        /\ p + 3 <= FitTurn(m, size, p)
  <2> SUFFICES ASSUME NEW p \in V
               PROVE  IF p \in E THEN FitTurn(m, size, p) = p
                      ELSE FitTurn(m, size, p) \in V /\ p + 3 <= FitTurn(m, size, p)
    OBVIOUS
  <2>1. CASE p \in E
    BY <1>1, <1>2, <2>1 DEF FitTurn
  <2>2. CASE p \notin E
    <3>1. p \in DOMAIN L /\ ~fits(p)
      BY <2>2
    <3>2. FitTurn(m, size, p) = L[p].end
      BY <1>1, <3>1 DEF FitTurn
    <3>3. \A q \in DOMAIN L : q < L[p].end => ~fits(q)
      BY <3>1, NextBlock
    <3> QED
      BY <1>0, <2>2, <3>1, <3>2, <3>3
  <2> QED
    BY <2>1, <2>2
<1>5. g \in [V -> V] /\ \A p \in V : g[p] = FitTurn(m, size, p)
  BY <1>4
<1>6. pos \in [V -> 1 .. MaxHeap] /\ \A p \in V : pos[p] = p
  BY Bounds
<1> HIDE DEF V, E, g, pos
<1>7. at = [n \in Nat |-> IF n = 0 THEN First ELSE FitTurn(m, size, at[n - 1])]
  <2>1. PICK f \in [Nat -> V] : f = [n \in Nat |-> IF n = 0 THEN First ELSE g[f[n - 1]]]
    BY <1>3, <1>5, Iteration
  <2>2. \A n \in Nat : n # 0 => n - 1 \in Nat /\ g[f[n - 1]] = FitTurn(m, size, f[n - 1])
    BY <1>5
  <2>3. f = [n \in Nat |-> IF n = 0 THEN First ELSE FitTurn(m, size, f[n - 1])]
    BY <2>1, <2>2, Zenon
  <2> QED
    BY <2>3
<1>8. FindFitBlock(m, size) =
        IF IS_END(m[at[MaxHeap \div 3] - 1]) THEN NULL ELSE at[MaxHeap \div 3]
  BY Zenon DEF FindFitBlock, at
<1> HIDE DEF at
<1>9. at[0] = First /\ \A n \in Nat : at[n] \in V => at[n + 1] = g[at[n]]
  <2>1. at[0] = First
    BY <1>7
  <2>2. ASSUME NEW n \in Nat, at[n] \in V PROVE at[n + 1] = g[at[n]]
    <3>1. n + 1 \in Nat /\ n + 1 # 0 /\ (n + 1) - 1 = n
      OBVIOUS
    <3>2. at[n + 1] = FitTurn(m, size, at[n])
      BY <1>7, <3>1
    <3> QED
      BY <1>5, <2>2, <3>2
  <2> QED
    BY <2>1, <2>2
<1>10. at[MaxHeap \div 3] \in V /\ at[MaxHeap \div 3] \in E
  <2>1. \A v \in V : IF v \in E THEN g[v] = v ELSE pos[v] + 3 <= pos[g[v]]
    BY <1>4, <1>5, <1>6
  <2> QED
    BY <1>3, <1>5, <1>6, <1>9, <2>1, LoopEnds
<1>11. PICK p : p = at[MaxHeap \div 3]
  OBVIOUS
<1>12. CASE p = brk
  <2>1. FindFitBlock(m, size) = NULL
    BY <1>2, <1>8, <1>11, <1>12
  <2>2. \A q \in DOMAIN L : ~fits(q)
    BY <1>0, <1>10, <1>11, <1>12 DEF V
  <2>3. ASSUME NEW q \in DOMAIN L, L[q].free PROVE L[q].end - q < size
    BY <1>0, <2>2, <2>3
  <2> QED
    BY <2>1, <2>3
<1>13. CASE p # brk
  <2>1. p \in DOMAIN L /\ fits(p)
    BY <1>10, <1>11, <1>13 DEF V, E
  <2>2. FindFitBlock(m, size) = p
    BY <1>1, <1>8, <1>11, <2>1
  <2>3. p # NULL
    BY <1>0, <2>1 DEF NULL
  <2> QED
    BY <2>1, <2>2, <2>3
<1> QED
  BY <1>12, <1>13

\* The walk over the headers passes exactly the blocks of the layout.
LEMMA WalksBlocks ==
    ASSUME NEW L, NEW brk, Layout(L, brk), NEW m, Tagged(m, brk, L)
    PROVE  BlocksOf(m) = DOMAIN L
<1> DEFINE W(p) == [p |-> p, seen |-> {q \in DOMAIN L : q < p}]
           V == {W(p) : p \in DOMAIN L \cup {brk}}
           E == {W(brk)}
           start == [p |-> First, seen |-> {}]
           g == [w \in V |-> WalkTurn(m, w)]
           pos == [w \in V |-> w.p]
           at == CHOOSE f : f = [n \in Nat |-> IF n = 0 THEN start ELSE WalkTurn(m, f[n - 1])]
<1>0. /\ brk \in Nat /\ 1 <= brk /\ brk <= MaxHeap
      /\ \A q \in DOMAIN L : /\ q \in Nat /\ 1 <= q /\ q + 3 <= L[q].end /\ L[q].end <= brk
                             /\ L[q].end \in Nat /\ L[q].end \in DOMAIN L \cup {brk}
  BY BlockFacts, MmHeapAssumption DEF Layout
<1>1. \A p \in DOMAIN L : ~IS_END(m[p - 1]) /\ NEXT_BLK(m, p) = L[p].end
  BY HeaderReads DEF Tagged, Tags
<1>2. IS_END(m[brk - 1])
  BY EndReads DEF Tagged
<1>3. start \in V
  <2>1. {q \in DOMAIN L : q < First} = {}
    BY <1>0 DEF First
  <2>2. W(First) = [p |-> First, seen |-> {}]
    BY <2>1
  <2> QED
    BY <2>2, Zenon DEF Layout
<1>4. WalkTurn(m, W(brk)) = W(brk)
  BY <1>2 DEF WalkTurn
<1>5. ASSUME NEW p \in DOMAIN L PROVE WalkTurn(m, W(p)) = W(L[p].end)
  <2>1. WalkTurn(m, W(p)) = [p |-> L[p].end, seen |-> {q \in DOMAIN L : q < p} \cup {p}]
    BY <1>1, Zenon DEF WalkTurn
  <2>2. {q \in DOMAIN L : q < p} \cup {p} = {q \in DOMAIN L : q < L[p].end}
    <3>1. ASSUME NEW q \in DOMAIN L, q < p PROVE q < L[p].end
      BY <1>0, <3>1
    <3>2. p < L[p].end
      BY <1>0
    <3> QED
      BY <3>1, <3>2, NextBlock
  <2> QED
    BY <2>1, <2>2
<1>6. \A w \in V : WalkTurn(m, w) \in V /\ w.p \in DOMAIN L \cup {brk}
                   /\ IF w \in E THEN WalkTurn(m, w) = w ELSE w.p + 3 <= WalkTurn(m, w).p
  <2> SUFFICES ASSUME NEW p \in DOMAIN L \cup {brk}
               PROVE  /\ WalkTurn(m, W(p)) \in V /\ W(p).p \in DOMAIN L \cup {brk}
                      /\ IF W(p) \in E THEN WalkTurn(m, W(p)) = W(p)
                         ELSE W(p).p + 3 <= WalkTurn(m, W(p)).p
    BY Zenon
  <2>0. W(p).p = p
    OBVIOUS
  <2>1. CASE p = brk
    BY <1>4, <2>0, <2>1, Zenon
  <2>2. CASE p \in DOMAIN L /\ p # brk
    <3>1. WalkTurn(m, W(p)) = W(L[p].end) /\ W(L[p].end).p = L[p].end
      BY <1>5, <2>2
    <3>2. W(p) \notin E
      <4>1. W(brk).p = brk
        OBVIOUS
      <4> QED
        BY <2>0, <2>2, <4>1
    <3>3. W(L[p].end) \in V
      BY <1>0, <2>2, Zenon
    <3> HIDE DEF W, V, E
    <3> QED
      BY <1>0, <2>0, <2>2, <3>1, <3>2, <3>3
  <2> QED
    BY <2>1, <2>2
<1>7. g \in [V -> V] /\ \A w \in V : g[w] = WalkTurn(m, w)
  BY <1>6
<1>8. pos \in [V -> 1 .. MaxHeap] /\ \A w \in V : pos[w] = w.p
  BY <1>6, Bounds
<1> HIDE DEF V, E, g, pos, W, start
<1>9. at = [n \in Nat |-> IF n = 0 THEN start ELSE WalkTurn(m, at[n - 1])]
  <2>1. PICK f \in [Nat -> V] : f = [n \in Nat |-> IF n = 0 THEN start ELSE g[f[n - 1]]]
    BY <1>3, <1>7, Iteration
  <2>2. \A n \in Nat : n # 0 => n - 1 \in Nat /\ g[f[n - 1]] = WalkTurn(m, f[n - 1])
    BY <1>7
  <2>3. f = [n \in Nat |-> IF n = 0 THEN start ELSE WalkTurn(m, f[n - 1])]
    BY <2>1, <2>2, Zenon
  <2> QED
    BY <2>3
<1>10. BlocksOf(m) = at[MaxHeap \div 3].seen
  BY Zenon DEF BlocksOf, at, start
<1> HIDE DEF at
<1>11. /\ at[0] = start
       /\ \A n \in Nat : at[n] \in V => at[n + 1] = g[at[n]]
  <2>1. at[0] = start
    BY <1>9
  <2>2. ASSUME NEW n \in Nat, at[n] \in V PROVE at[n + 1] = g[at[n]]
    <3>1. n + 1 \in Nat /\ n + 1 # 0 /\ (n + 1) - 1 = n
      OBVIOUS
    <3>2. at[n + 1] = WalkTurn(m, at[n])
      BY <1>9, <3>1
    <3> QED
      BY <1>7, <2>2, <3>2
  <2> QED
    BY <2>1, <2>2
<1>12. at[MaxHeap \div 3] \in V /\ at[MaxHeap \div 3] \in E
  <2>1. \A v \in V : IF v \in E THEN g[v] = v ELSE pos[v] + 3 <= pos[g[v]]
    BY <1>6, <1>7, <1>8
  <2>2. g \in [V -> V]
    BY <1>7
  <2>3. pos \in [V -> 1 .. MaxHeap]
    BY <1>8
  <2> HIDE DEF at
  <2> QED
    BY <1>3, <1>11, <2>1, <2>2, <2>3, LoopEnds
<1>13. BlocksOf(m) = {q \in DOMAIN L : q < brk}
  BY <1>10, <1>12 DEF E, W
<1>14. \A q \in DOMAIN L : q < brk
  BY Bounds
<1> QED
  BY <1>13, <1>14
-----------------------------------------------------------------------------
(* The pass of coalesces.  In a run of free blocks it merges the first two, *)
(* the result with the next two, and so on; in between it stands on headers *)
(* inside the merged block and finds stale ones through stale footers.      *)

Coarsens(L, L2) ==
    /\ DOMAIN L2 \subseteq DOMAIN L
    /\ \A q \in DOMAIN L : ~L[q].free => q \in DOMAIN L2 /\ L2[q] = L[q]
    /\ \A q \in DOMAIN L2 : L2[q].free <=> L[q].free

\* The words of allocated blocks are as they were.
Keeps(L, m, m2) ==
    \A q \in DOMAIN L : ~L[q].free => \A w \in q - 1 .. L[q].end - 2 : m2[w] = m[w]

Header(m, p, b) == m[p - 1] = PACK(b.end - p, IF b.free THEN 0 ELSE 1)

\* The footer before n leads to the header of a free block inside the one at a.
Back(m, a, n) == \E c \in a + 1 .. n - 3 : GET_SIZE(m[n - 2]) = n - c /\ m[c - 1] = PACK(n - c, 0)

\* In the middle of the pass: L and m are from before it; the pass stands at p.
Passing(L, brk, m, L2, m2, p) ==
    /\ Layout(L2, brk) /\ Coarsens(L, L2) /\ Keeps(L, m, m2)
    /\ m2 \in Mem /\ m2[brk - 1] = EndMark
    /\ \A q \in DOMAIN L2 : Header(m2, q, L2[q]) /\ (q # p => Tags(m2, q, L2[q]))
    /\ \A q \in DOMAIN L2 : L2[q].free /\ L2[q].end \in DOMAIN L2 /\ L2[q].end < p
                            => ~L2[L2[q].end].free

\* The pass stands on a block with no free block before it ...
Plain(brk, L, m, p) ==
    /\ p \in DOMAIN L \cup {brk}
    /\ p \in DOMAIN L => Tags(m, p, L[p])
    /\ p \in DOMAIN L /\ L[p].free => \A a \in DOMAIN L : L[a].end = p => ~L[a].free

\* ... or on a free block behind a merged one ...
Even(L, m, p) ==
    /\ p \in DOMAIN L /\ L[p].free
    /\ \E a \in DOMAIN L : /\ L[a].free /\ L[a].end = p
                           /\ GET_SIZE(m[p - 2]) = p - a /\ Back(m, a, L[p].end)

\* ... or on the last of the blocks that it has merged.
Odd(L, m, p) ==
    /\ p \notin DOMAIN L /\ p \in Nat
    /\ \E a \in DOMAIN L : /\ L[a].free /\ a < p /\ p + 3 <= L[a].end
                           /\ m[p - 1] = PACK(L[a].end - p, 0)
                           /\ GET_SIZE(m[L[a].end - 2]) = L[a].end - a
                           /\ Back(m, a, p)

Stands(L, brk, m, L2, m2, p) ==
    /\ Passing(L, brk, m, L2, m2, p)
    /\ Plain(brk, L2, m2, p) \/ Even(L2, m2, p) \/ Odd(L2, m2, p)

\* A step of the pass to p3 changes words from lo to hi only, all of free blocks.
Steps(brk, L2, m2, p, L3, m3, p3, lo, hi) ==
    /\ m3 \in Mem /\ Layout(L3, brk) /\ Coarsens(L2, L3)
    /\ lo \in Int /\ hi \in Int /\ hi < brk - 1
    /\ \A w \in Addresses : w < lo \/ hi < w => m3[w] = m2[w]
    /\ \A q \in DOMAIN L2 : ~L2[q].free => hi < q - 1 \/ L2[q].end - 2 < lo
    /\ \A q \in DOMAIN L3 :
            \/ Header(m3, q, L3[q]) /\ (q # p3 => Tags(m3, q, L3[q]))
            \/ q # p /\ L3[q] = L2[q] /\ (hi < q - 1 \/ L2[q].end - 2 < lo)
    /\ \A q \in DOMAIN L3 : L3[q].free /\ L3[q].end \in DOMAIN L3 /\ L3[q].end < p3
                            => ~L3[L3[q].end].free

\* Such a step keeps what holds in the middle of the pass.
LEMMA PassesOn ==
    ASSUME NEW L, NEW brk, NEW m, NEW L2, NEW m2, NEW p, Passing(L, brk, m, L2, m2, p),
           Layout(L, brk), NEW L3, NEW m3, NEW p3, NEW lo, NEW hi,
           Steps(brk, L2, m2, p, L3, m3, p3, lo, hi)
    PROVE  Passing(L, brk, m, L3, m3, p3)
<1> USE DEF Steps
<1>0. /\ \A q \in DOMAIN L2 : /\ q \in Nat /\ L2[q].end \in Nat
                              /\ q - 1 \in Addresses /\ L2[q].end - 2 \in Addresses
      /\ Layout(L2, brk) /\ brk \in Nat /\ brk - 1 \in Addresses
  BY BlockFacts, MmHeapAssumption DEF Passing, Layout, Addresses
<1>1. \A q \in DOMAIN L2 : hi < q - 1 \/ L2[q].end - 2 < lo
        => \A w \in q - 1 .. L2[q].end - 2 : m3[w] = m2[w]
  BY <1>0, MmHeapAssumption DEF Addresses
<1>2. Coarsens(L, L3)
  BY DEF Passing, Coarsens
<1>3. Keeps(L, m, m3)
  <2> SUFFICES ASSUME NEW q \in DOMAIN L, ~L[q].free
               PROVE  \A w \in q - 1 .. L[q].end - 2 : m3[w] = m[w]
    BY DEF Keeps
  <2>1. q \in DOMAIN L2 /\ L2[q] = L[q] /\ \A w \in q - 1 .. L[q].end - 2 : m2[w] = m[w]
    BY DEF Passing, Coarsens, Keeps
  <2> QED
    BY <1>1, <2>1
<1>4. m3[brk - 1] = EndMark
  BY <1>0 DEF Passing
<1>5. ASSUME NEW q \in DOMAIN L3 PROVE Header(m3, q, L3[q]) /\ (q # p3 => Tags(m3, q, L3[q]))
  <2>1. CASE q # p /\ L3[q] = L2[q] /\ (hi < q - 1 \/ L2[q].end - 2 < lo)
    <3>1. q \in DOMAIN L2 /\ Tags(m2, q, L2[q])
      BY <2>1 DEF Passing, Coarsens
    <3>2. Tags(m3, q, L2[q])
      BY <1>0, <1>1, <2>1, <3>1, TagsStay
    <3> QED
      BY <2>1, <3>2 DEF Header, Tags
  <2> QED
    BY <2>1, SMTT(30)
<1> QED
  BY <1>2, <1>3, <1>4, <1>5 DEF Passing

\* What coalesces reads at a block or at the break.
LEMMA PassReads ==
    ASSUME NEW L, NEW brk, NEW m, NEW L2, NEW m2, NEW p, Passing(L, brk, m, L2, m2, p),
           NEW n \in DOMAIN L2 \cup {brk}
    PROVE  /\ FreeAt(m2, n) <=> n \in DOMAIN L2 /\ L2[n].free
           /\ n \in DOMAIN L2 => SizeAt(m2, n) = L2[n].end - n /\ ~IS_END(m2[n - 1])
           /\ n = brk => IS_END(m2[n - 1])
<1>0. Layout(L2, brk)
  BY DEF Passing
<1>1. CASE n \in DOMAIN L2
  <2>1. n # brk
    BY <1>0, <1>1, Bounds
  <2> QED
    BY <1>0, <1>1, <2>1, HeaderReads DEF Passing, Header
<1>2. CASE n \notin DOMAIN L2
  BY <1>2, EndReads DEF Passing
<1> QED
  BY <1>1, <1>2

\* Only one block ends at a place.
LEMMA OnePrevious ==
    ASSUME NEW L, NEW brk, Layout(L, brk), NEW a \in DOMAIN L, NEW b \in DOMAIN L,
           L[a].end = L[b].end
    PROVE  a = b
<1> SUFFICES ASSUME a # b PROVE FALSE
  OBVIOUS
<1>1. L[a].end <= b \/ L[b].end <= a
  BY BlocksApart
<1> QED
  BY <1>1, BlockFacts

\* Merging two free blocks.
LEMMA MergedCoarsens ==
    ASSUME NEW L, NEW brk, Layout(L, brk), NEW p \in DOMAIN L, L[p].free,
           L[p].end \in DOMAIN L, L[L[p].end].free
    PROVE  /\ Layout(Merged(L, p), brk) /\ Coarsens(L, Merged(L, p))
           /\ DOMAIN Merged(L, p) = DOMAIN L \ {L[p].end} /\ p \in DOMAIN Merged(L, p)
           /\ Merged(L, p)[p] = [end |-> L[L[p].end].end, free |-> TRUE]
           /\ \A q \in DOMAIN Merged(L, p) : q # p => Merged(L, p)[q] = L[q]
<1>1. p # L[p].end
  BY BlockFacts
<1>2. Layout(Merged(L, p), brk)
  BY MergedLayout
<1>3. /\ DOMAIN Merged(L, p) = DOMAIN L \ {L[p].end} /\ p \in DOMAIN Merged(L, p)
      /\ Merged(L, p)[p] = [end |-> L[L[p].end].end, free |-> TRUE]
      /\ \A q \in DOMAIN Merged(L, p) : q # p => Merged(L, p)[q] = L[q]
  BY <1>1 DEF Merged
<1>4. Coarsens(L, Merged(L, p))
  BY <1>1, <1>3 DEF Coarsens
<1> QED
  BY <1>2, <1>3, <1>4

\* N is the layout L with the two free blocks from p on merged.
Merges(L, brk, p, N) ==
    /\ Layout(N, brk) /\ Coarsens(L, N)
    /\ DOMAIN N = DOMAIN L \ {L[p].end} /\ p \in DOMAIN N
    /\ N[p] = [end |-> L[L[p].end].end, free |-> TRUE]
    /\ \A q \in DOMAIN N : q # p => N[q] = L[q]

\* The same with the conditions on the blocks in one place.
LEMMA MergedMerges ==
    ASSUME NEW L, NEW brk, Layout(L, brk), NEW p, NEW N,
           N = Merged(L, p), p \in DOMAIN L /\ L[p].free /\ L[p].end \in DOMAIN L /\ L[L[p].end].free
    PROVE  Merges(L, brk, p, N)
  BY MergedCoarsens, SMTT(30) DEF Merges

\* The words of two blocks are apart.
LEMMA WordsApart ==
    ASSUME NEW L, NEW brk, Layout(L, brk), NEW a \in DOMAIN L, NEW q \in DOMAIN L, q # a
    PROVE  L[a].end - 2 < q - 1 \/ L[q].end - 2 < a - 1
<1>1. L[a].end <= q \/ L[q].end <= a
  BY BlocksApart
<1> QED
  BY <1>1, BlockFacts

\* The pass goes by an allocated block.
LEMMA PassAllocated ==
    ASSUME NEW L, NEW brk, Layout(L, brk), NEW m, NEW L2, NEW m2, NEW p,
           Passing(L, brk, m, L2, m2, p), Plain(brk, L2, m2, p), p \in DOMAIN L2, ~L2[p].free
    PROVE  /\ CoalesceTurn([mem |-> m2, p |-> p]) = [mem |-> m2, p |-> L2[p].end]
           /\ Passing(L, brk, m, L2, m2, L2[p].end) /\ Plain(brk, L2, m2, L2[p].end)
<1> DEFINE n == L2[p].end
<1>0. Layout(L2, brk) /\ p \in Nat /\ n \in Nat /\ p < n /\ n \in DOMAIN L2 \cup {brk}
  BY BlockFacts DEF Passing
<1>1. ~FreeAt(m2, p) /\ ~IS_END(m2[p - 1]) /\ NEXT_BLK(m2, p) = n
  BY <1>0, PassReads DEF NEXT_BLK
<1>2. CoalesceTurn([mem |-> m2, p |-> p]) = [mem |-> m2, p |-> n]
  BY <1>1 DEF CoalesceTurn
<1>3. \A q \in DOMAIN L2 : Header(m2, q, L2[q]) /\ Tags(m2, q, L2[q])
  BY DEF Passing, Plain
<1>4. ASSUME NEW q \in DOMAIN L2, L2[q].free, L2[q].end \in DOMAIN L2, L2[q].end < n
      PROVE  ~L2[L2[q].end].free
  <2>1. L2[q].end = p \/ L2[q].end < p
    BY <1>0, <1>4, NextBlock
  <2> QED
    BY <1>4, <2>1 DEF Passing
<1>5. Passing(L, brk, m, L2, m2, n)
  BY <1>3, <1>4 DEF Passing
<1>6. Plain(brk, L2, m2, n)
  <2>1. ASSUME NEW a \in DOMAIN L2, L2[a].end = n PROVE ~L2[a].free
    BY <1>0, <2>1, OnePrevious
  <2> QED
    BY <1>0, <1>3, <2>1 DEF Plain
<1> QED
  BY <1>2, <1>5, <1>6

\* With no free block before it, coalesce sees none.
LEMMA PlainReads ==
    ASSUME NEW L, NEW brk, NEW m, NEW L2, NEW m2, NEW p,
           Passing(L, brk, m, L2, m2, p), Plain(brk, L2, m2, p), p \in DOMAIN L2, L2[p].free
    PROVE  IS_BEGIN(p) \/ ~FreeAt(m2, PREV_BLK(m2, p))
<1> SUFFICES ASSUME p # First PROVE ~FreeAt(m2, PREV_BLK(m2, p))
  BY DEF IS_BEGIN
<1>1. Layout(L2, brk)
  BY DEF Passing
<1>2. PICK a \in DOMAIN L2 : L2[a].end = p
  BY <1>1 DEF Layout
<1>3. ~L2[a].free /\ a # p
  BY <1>2 DEF Plain
<1>4. a \in Nat /\ p \in Nat
  BY <1>1, BlockFacts
<1>5. GET_SIZE(m2[p - 2]) = p - a
  BY <1>2, <1>3 DEF Passing, Tags
<1>6. PREV_BLK(m2, p) = a
  BY <1>4, <1>5 DEF PREV_BLK
<1> QED
  BY <1>3, <1>6, PassReads

\* The pass comes to an allocated block or to the break.
LEMMA ComesToAllocated ==
    ASSUME NEW L, NEW brk, Layout(L, brk), NEW m \in Mem, NEW m2 \in Mem,
           NEW n \in DOMAIN L \cup {brk}, n \in DOMAIN L => ~L[n].free /\ Tags(m, n, L[n]),
           \A w \in Addresses : n - 2 < w => m2[w] = m[w]
    PROVE  Plain(brk, L, m2, n)
<1>1. ASSUME n \in DOMAIN L PROVE Tags(m2, n, L[n])
  <2>1. n \in Nat /\ n - 1 \in Addresses /\ L[n].end - 2 \in Addresses /\ L[n].end \in Nat
    BY <1>1, BlockFacts
  <2>2. \A w \in n - 1 .. L[n].end - 2 : m2[w] = m[w]
    BY <2>1, MmHeapAssumption DEF Addresses
  <2> QED
    BY <1>1, <2>2, TagsStay
<1> QED
  BY <1>1 DEF Plain

\* The pass comes to a free block behind one that it has just merged.
LEMMA ComesToFree ==
    ASSUME NEW L, NEW brk, Layout(L, brk), NEW m \in Mem, NEW m2 \in Mem,
           NEW n \in DOMAIN L, L[n].free, Tags(m, n, L[n]), NEW a \in DOMAIN L, L[a].free,
           L[a].end = n, GET_SIZE(m2[n - 2]) = n - a,
           \A w \in Addresses : n - 2 < w => m2[w] = m[w]
    PROVE  Even(L, m2, n)
<1> DEFINE e == L[n].end
<1>1. n \in Nat /\ e \in Nat /\ e - 2 \in Addresses /\ n - 1 \in Addresses /\ n + 3 <= e
  BY BlockFacts
<1>2. a \in Nat /\ a + 3 <= n
  BY BlockFacts
<1>3. PICK c \in n .. e - 3 : GET_SIZE(m[e - 2]) = e - c /\ m[c - 1] = PACK(e - c, 0)
  BY DEF Tags
<1>4. c \in a + 1 .. e - 3 /\ c - 1 \in Addresses /\ n - 2 < c - 1 /\ n - 2 < e - 2
  BY <1>1, <1>2, MmHeapAssumption DEF Addresses
<1>5. m2[e - 2] = m[e - 2] /\ m2[c - 1] = m[c - 1]
  BY <1>1, <1>4
<1>6. Back(m2, a, e)
  BY <1>3, <1>4, <1>5 DEF Back
<1> QED
  BY <1>6 DEF Even

\* A free block between blocks that are not: both its tags are written anew.
LEMMA PassAlone ==
    ASSUME NEW L, NEW brk, Layout(L, brk), NEW m, NEW L2, NEW m2, NEW p,
           Passing(L, brk, m, L2, m2, p), Plain(brk, L2, m2, p), p \in DOMAIN L2, L2[p].free,
           ~(L2[p].end \in DOMAIN L2 /\ L2[L2[p].end].free)
    PROVE  \E m3 : /\ CoalesceTurn([mem |-> m2, p |-> p]) = [mem |-> m3, p |-> L2[p].end]
                   /\ Passing(L, brk, m, L2, m3, L2[p].end) /\ Plain(brk, L2, m3, L2[p].end)
<1> DEFINE n == L2[p].end
           m3 == PutBoth(m2, p, n - p, 0)
<1>0. /\ Layout(L2, brk) /\ p \in Nat /\ n \in Nat /\ p + 3 <= n /\ n \in DOMAIN L2 \cup {brk}
      /\ p - 1 \in Addresses /\ n - 2 \in Addresses /\ n - p \in Nat /\ n <= brk /\ brk \in Nat
      /\ m2 \in Mem
  BY BlockFacts DEF Passing
<1>1. FreeAt(m2, p) /\ ~IS_END(m2[p - 1]) /\ SizeAt(m2, p) = n - p /\ NEXT_BLK(m2, p) = n
  BY <1>0, PassReads DEF NEXT_BLK
<1>2. ~FreeAt(m2, n)
  BY <1>0, PassReads
<1>3. IS_BEGIN(p) \/ ~FreeAt(m2, PREV_BLK(m2, p))
  BY PlainReads
<1>4. Coalesce(m2, p) = m3
  BY <1>1, <1>2, <1>3 DEF Coalesce
<1>5. /\ m3 \in Mem
      /\ \A w \in Addresses : m3[w] = IF w \in {p - 1, n - 2} THEN PACK(n - p, 0) ELSE m2[w]
  <2>1. p + (n - p) - 2 = n - 2
    BY <1>0
  <2> QED
    BY <1>0, <2>1, PutBothWrites
<1> HIDE DEF m3
<1>6. SizeAt(m3, p) = n - p
  BY <1>0, <1>5, TagFacts DEF SizeAt
<1>7. CoalesceTurn([mem |-> m2, p |-> p]) = [mem |-> m3, p |-> n]
  BY <1>0, <1>1, <1>4, <1>6 DEF CoalesceTurn, NEXT_BLK
<1>8. \A q \in DOMAIN L2 : q # p => n - 2 < q - 1 \/ L2[q].end - 2 < p - 1
  BY <1>0, WordsApart
<1>9. \A w \in Addresses : w < p - 1 \/ n - 2 < w => m3[w] = m2[w]
  BY <1>0, <1>5
<1>10. Header(m3, p, L2[p]) /\ Tags(m3, p, L2[p])
  <2>1. m3[p - 1] = PACK(n - p, 0) /\ GET_SIZE(m3[n - 2]) = n - p /\ p \in p .. n - 3
    BY <1>0, <1>5, TagFacts
  <2> QED
    BY <2>1 DEF Header, Tags
<1>11. ASSUME NEW q \in DOMAIN L2, L2[q].free, L2[q].end \in DOMAIN L2, L2[q].end < n
       PROVE  ~L2[L2[q].end].free
  <2>1. L2[q].end = p \/ L2[q].end < p
    BY <1>0, <1>11, NextBlock
  <2> QED
    BY <1>11, <2>1 DEF Passing, Plain
<1>12. Passing(L, brk, m, L2, m3, n)
  <2>1. p - 1 \in Int /\ n - 2 \in Int /\ n - 2 < brk - 1
    BY <1>0, SMTT(30)
  <2>2. Steps(brk, L2, m2, p, L2, m3, n, p - 1, n - 2)
    BY <1>0, <1>5, <1>8, <1>9, <1>10, <1>11, <2>1 DEF Steps, Coarsens
  <2> QED
    BY <2>2, PassesOn
<1>13. Plain(brk, L2, m3, n)
  <2>1. n \in DOMAIN L2 => Tags(m2, n, L2[n])
    BY <1>0 DEF Passing
  <2> QED
    BY <1>0, <1>5, <1>9, <2>1, ComesToAllocated
<1> QED
  BY <1>7, <1>12, <1>13

\* The first two blocks of a run are merged.
LEMMA PassFirstTwo ==
    ASSUME NEW L, NEW brk, Layout(L, brk), NEW m, NEW L2, NEW m2, NEW p,
           Passing(L, brk, m, L2, m2, p), Plain(brk, L2, m2, p), p \in DOMAIN L2, L2[p].free,
           L2[p].end \in DOMAIN L2, L2[L2[p].end].free
    PROVE  \E L3, m3, p3 :
              /\ CoalesceTurn([mem |-> m2, p |-> p]) = [mem |-> m3, p |-> p3] /\ p + 3 <= p3
              /\ Passing(L, brk, m, L3, m3, p3) /\ (Plain(brk, L3, m3, p3) \/ Even(L3, m3, p3))
<1> DEFINE n == L2[p].end
           e == L2[n].end
           m3 == PutBoth(m2, p, e - p, 0)
           L3 == Merged(L2, p)
<1>a. Layout(L2, brk) /\ m2 \in Mem
  BY DEF Passing
<1>b. p \in Nat /\ n \in Nat /\ p + 3 <= n /\ p - 1 \in Addresses
  BY <1>a, BlockFacts
<1>c. e \in Nat /\ n + 3 <= e /\ e - 2 \in Addresses /\ e <= brk /\ brk \in Nat
      /\ e \in DOMAIN L2 \cup {brk}
  BY <1>a, BlockFacts
<1>1. FreeAt(m2, p) /\ ~IS_END(m2[p - 1]) /\ SizeAt(m2, p) = n - p /\ NEXT_BLK(m2, p) = n
  BY <1>b, PassReads DEF NEXT_BLK
<1>2. FreeAt(m2, n) /\ SizeAt(m2, n) = e - n
  BY PassReads
<1>3. IS_BEGIN(p) \/ ~FreeAt(m2, PREV_BLK(m2, p))
  BY PlainReads
<1>d. /\ Layout(L3, brk) /\ Coarsens(L2, L3)
      /\ DOMAIN L3 = DOMAIN L2 \ {n} /\ p \in DOMAIN L3
      /\ L3[p] = [end |-> e, free |-> TRUE]
      /\ \A q \in DOMAIN L3 : q # p => L3[q] = L2[q]
  BY <1>a, MergedCoarsens
<1> HIDE DEF e, n, L3
<1>4. Coalesce(m2, p) = m3
  <2>1. (n - p) + (e - n) = e - p
    BY <1>b, <1>c
  <2> QED
    BY <1>1, <1>2, <1>3, <2>1 DEF Coalesce
<1>5. /\ m3 \in Mem
      /\ \A w \in Addresses : m3[w] = IF w \in {p - 1, e - 2} THEN PACK(e - p, 0) ELSE m2[w]
  <2>1. p + (e - p) - 2 = e - 2 /\ e - p \in Nat
    BY <1>b, <1>c
  <2> QED
    BY <1>a, <1>b, <1>c, <2>1, PutBothWrites
<1> HIDE DEF m3
<1>6. m3[p - 1] = PACK(e - p, 0) /\ GET_SIZE(m3[e - 2]) = e - p /\ SizeAt(m3, p) = e - p
  BY <1>b, <1>c, <1>5, TagFacts DEF SizeAt
<1>7. CoalesceTurn([mem |-> m2, p |-> p]) = [mem |-> m3, p |-> e]
  BY <1>b, <1>c, <1>1, <1>4, <1>6 DEF CoalesceTurn, NEXT_BLK
<1>8. \A q \in DOMAIN L2 : q # p /\ q # n => e - 2 < q - 1 \/ L2[q].end - 2 < p - 1
  <2> SUFFICES ASSUME NEW q \in DOMAIN L3, q # p PROVE e - 2 < q - 1 \/ L3[q].end - 2 < p - 1
    BY <1>d
  <2>1. L3[p].end - 2 < q - 1 \/ L3[q].end - 2 < p - 1
    BY <1>d, WordsApart
  <2> QED
    BY <1>d, <2>1
<1>9. \A w \in Addresses : w < p - 1 \/ e - 2 < w => m3[w] = m2[w]
  BY <1>b, <1>c, <1>5
<1>10. Header(m3, p, L3[p]) /\ Tags(m3, p, L3[p])
  <2>1. p \in p .. e - 3
    BY <1>b, <1>c
  <2> QED
    BY <1>6, <1>d, <2>1 DEF Header, Tags
<1>11. ASSUME NEW q \in DOMAIN L3, L3[q].free, L3[q].end \in DOMAIN L3, L3[q].end < e
       PROVE  ~L3[L3[q].end].free
  <2>1. L3[q].end = p \/ L3[q].end < p
    BY <1>d, <1>11, NextBlock
  <2>2. q # p
    BY <1>d, <1>11, <1>c
  <2>3. q \in DOMAIN L2 /\ L2[q] = L3[q] /\ L3[q].end \in DOMAIN L2 /\ L3[q].end # n
    BY <1>d, <1>11, <2>2
  <2>4. L3[q].end # p
    BY <1>11, <2>3 DEF Plain
  <2>5. L3[L3[q].end] = L2[L3[q].end]
    BY <1>d, <1>11, <2>4
  <2> QED
    BY <1>11, <2>1, <2>3, <2>4, <2>5, <1>d DEF Passing
<1>12. Passing(L, brk, m, L3, m3, e)
  <2>1. p - 1 \in Int /\ e - 2 \in Int /\ e - 2 < brk - 1
    BY <1>b, <1>c
  <2>2. ASSUME NEW q \in DOMAIN L3
        PROVE  \/ Header(m3, q, L3[q]) /\ (q # e => Tags(m3, q, L3[q]))
               \/ q # p /\ L3[q] = L2[q] /\ (e - 2 < q - 1 \/ L2[q].end - 2 < p - 1)
    BY <1>8, <1>10, <1>d, ZenonT(40)
  <2>3. \A q \in DOMAIN L2 : ~L2[q].free => e - 2 < q - 1 \/ L2[q].end - 2 < p - 1
    BY <1>8, SMTT(30) DEF n
  <2>4. Steps(brk, L2, m2, p, L3, m3, e, p - 1, e - 2)
    BY <1>5, <1>9, <1>11, <1>d, <2>1, <2>2, <2>3 DEF Steps
  <2> QED
    BY <2>4, PassesOn
<1>13. e \in DOMAIN L2 => e \in DOMAIN L3 /\ L3[e] = L2[e] /\ Tags(m2, e, L3[e])
  <2>1. e # p /\ e # n
    BY <1>b, <1>c
  <2> QED
    BY <1>d, <2>1 DEF Passing
<1>14. Plain(brk, L3, m3, e) \/ Even(L3, m3, e)
  <2>1. CASE e \in DOMAIN L2 /\ L3[e].free
    <3>1. L3[p].free /\ L3[p].end = e /\ e \in DOMAIN L3
      BY <1>d, <1>13, <2>1
    <3>2. \A w \in Addresses : e - 2 < w => m3[w] = m2[w]
      BY <1>9, SMTT(30)
    <3> QED
      BY <1>a, <1>d, <1>5, <1>6, <1>13, <2>1, <3>1, <3>2, ComesToFree
  <2>2. CASE ~(e \in DOMAIN L2 /\ L3[e].free)
    <3>1. e \in DOMAIN L3 \cup {brk} /\ (e \in DOMAIN L3 => ~L3[e].free /\ Tags(m2, e, L3[e]))
      BY <1>c, <1>d, <1>13, <2>2
    <3>2. \A w \in Addresses : e - 2 < w => m3[w] = m2[w]
      BY <1>9
    <3> QED
      BY <1>a, <1>d, <1>5, <3>1, <3>2, ComesToAllocated
  <2> QED
    BY <2>1, <2>2, SMTT(30)
<1>15. p + 3 <= e
  BY <1>b, <1>c, SMTT(30)
<1> QED
  BY <1>7, <1>12, <1>14, <1>15

\* A merged block and the free one behind it, the last of the run.
LEMMA PassLastOfEven ==
    ASSUME NEW L, NEW brk, Layout(L, brk), NEW m, NEW L2, NEW m2, NEW p,
           Passing(L, brk, m, L2, m2, p), Even(L2, m2, p),
           ~(L2[p].end \in DOMAIN L2 /\ L2[L2[p].end].free)
    PROVE  \E L3, m3 :
              /\ CoalesceTurn([mem |-> m2, p |-> p]) = [mem |-> m3, p |-> L2[p].end]
              /\ Passing(L, brk, m, L3, m3, L2[p].end) /\ Plain(brk, L3, m3, L2[p].end)
<1>1. PICK a \in DOMAIN L2 : L2[a].free /\ L2[a].end = p /\ GET_SIZE(m2[p - 2]) = p - a
  BY SMTT(30) DEF Even
<1> DEFINE n == L2[p].end
           m1 == PutFooter(m2, p, n - a, 0)
           m3 == PutHeader(m1, a, n - a, 0)
           L3 == Merged(L2, a)
<1>a. Layout(L2, brk) /\ m2 \in Mem /\ p \in DOMAIN L2 /\ L2[p].free
  BY DEF Passing, Even
<1>b. a \in Nat /\ 1 <= a /\ p \in Nat /\ a + 3 <= p /\ a - 1 \in Addresses
  BY <1>a, <1>1, BlockFacts
<1>c. n \in Nat /\ p + 3 <= n /\ n - 2 \in Addresses /\ p - 1 \in Addresses /\ n <= brk /\ brk \in Nat
      /\ n \in DOMAIN L2 \cup {brk}
  BY <1>a, BlockFacts, SMTT(30)
<1>d. FreeAt(m2, p) /\ ~IS_END(m2[p - 1]) /\ SizeAt(m2, p) = n - p /\ NEXT_BLK(m2, p) = n
  BY <1>a, <1>b, <1>c, PassReads DEF NEXT_BLK
<1>e. FreeAt(m2, a) /\ SizeAt(m2, a) = p - a /\ ~FreeAt(m2, n)
  BY <1>1, <1>c, PassReads
<1>f. PREV_BLK(m2, p) = a /\ ~IS_BEGIN(p)
  BY <1>1, <1>b, SMTT(30) DEF PREV_BLK, IS_BEGIN, First
<1>g. /\ Layout(L3, brk) /\ Coarsens(L2, L3)
      /\ DOMAIN L3 = DOMAIN L2 \ {p} /\ a \in DOMAIN L3
      /\ L3[a] = [end |-> n, free |-> TRUE]
      /\ \A q \in DOMAIN L3 : q # a => L3[q] = L2[q]
  <2>1. L2[a].free /\ L2[a].end \in DOMAIN L2 /\ L2[L2[a].end].free
    BY <1>1, <1>a
  <2>2. /\ Layout(L3, brk) /\ Coarsens(L2, L3)
        /\ DOMAIN L3 = DOMAIN L2 \ {L2[a].end} /\ a \in DOMAIN L3
        /\ L3[a] = [end |-> L2[L2[a].end].end, free |-> TRUE]
        /\ \A q \in DOMAIN L3 : q # a => L3[q] = L2[q]
    BY <1>a, <2>1, MergedCoarsens, ZenonT(40)
  <2> QED
    BY <1>1, <2>2
<1> HIDE DEF n, L3
<1>4. Coalesce(m2, p) = m3
  <2>1. (n - p) + (p - a) = n - a
    BY <1>b, <1>c
  <2> QED
    BY <1>d, <1>e, <1>f, <2>1 DEF Coalesce
<1>5. /\ m3 \in Mem
      /\ \A w \in Addresses : m3[w] = IF w \in {a - 1, n - 2} THEN PACK(n - a, 0) ELSE m2[w]
  <2>1. p + (n - p) - 2 = n - 2 /\ n - a \in Nat /\ n - p \in Nat /\ a - 1 # n - 2
    BY <1>b, <1>c
  <2>2. /\ m1 \in Mem
        /\ \A w \in Addresses : m1[w] = IF w = p + (n - p) - 2 THEN PACK(n - a, 0) ELSE m2[w]
    BY <1>a, <1>b, <1>c, <1>d, <2>1, PutFooterWrites
  <2> HIDE DEF m1
  <2>3. /\ m3 \in Mem
        /\ \A w \in Addresses : m3[w] = IF w = a - 1 THEN PACK(n - a, 0) ELSE m1[w]
    <3>1. m1 \in Mem /\ a \in Int /\ a - 1 \in Addresses /\ n - a \in Nat
      BY <1>b, <2>1, <2>2
    <3> QED
      BY <3>1, PutHeaderWrites, Zenon
  <2> HIDE DEF m3
  <2> QED
    BY <2>1, <2>2, <2>3
<1> HIDE DEF m3
<1>6. /\ m3[a - 1] = PACK(n - a, 0) /\ GET_SIZE(m3[n - 2]) = n - a /\ m3[p - 1] = m2[p - 1]
      /\ NEXT_BLK(m3, p) = n
  <2>1. m3[a - 1] = PACK(n - a, 0) /\ m3[n - 2] = PACK(n - a, 0) /\ m3[p - 1] = m2[p - 1]
    BY <1>b, <1>c, <1>5
  <2>2. n - a \in Nat
    BY <1>b, <1>c, SMTT(30)
  <2> QED
    BY <1>d, <2>1, <2>2, TagFacts DEF SizeAt, NEXT_BLK
<1>7. CoalesceTurn([mem |-> m2, p |-> p]) = [mem |-> m3, p |-> n]
  BY <1>d, <1>4, <1>6, SMTT(30) DEF CoalesceTurn
<1>8. \A q \in DOMAIN L2 : q # p /\ q # a => n - 2 < q - 1 \/ L2[q].end - 2 < a - 1
  <2> SUFFICES ASSUME NEW q \in DOMAIN L3, q # a PROVE n - 2 < q - 1 \/ L3[q].end - 2 < a - 1
    BY <1>g
  <2>1. Layout(L3, brk) /\ a \in DOMAIN L3 /\ L3[a].end = n
    BY <1>g
  <2>2. L3[a].end - 2 < q - 1 \/ L3[q].end - 2 < a - 1
    BY <2>1, WordsApart
  <2> QED
    BY <2>1, <2>2
<1>9. \A w \in Addresses : w < a - 1 \/ n - 2 < w => m3[w] = m2[w]
  BY <1>b, <1>c, <1>5, SMTT(30)
<1>10. Header(m3, a, L3[a]) /\ Tags(m3, a, L3[a])
  <2>1. a \in a .. n - 3
    BY <1>b, <1>c
  <2> QED
    BY <1>6, <1>g, <2>1 DEF Header, Tags
<1>11. ASSUME NEW q \in DOMAIN L3, L3[q].free, L3[q].end \in DOMAIN L3, L3[q].end < n
       PROVE  ~L3[L3[q].end].free
  <2>1. L3[q].end = a \/ L3[q].end < a
    BY <1>g, <1>11, NextBlock
  <2>2. q # a
    BY <1>g, <1>11, <1>c
  <2>3. q \in DOMAIN L2 /\ L2[q] = L3[q] /\ L3[q].end \in DOMAIN L2
    BY <1>g, <1>11, <2>2
  <2>4. L3[q].end < p
    BY <1>b, <2>1, <1>g, <1>11, BlockFacts, SMTT(30)
  <2>5. ~L2[L3[q].end].free
    BY <1>11, <2>3, <2>4 DEF Passing
  <2> QED
    BY <1>11, <1>g, <2>5 DEF Coarsens
<1>12. Passing(L, brk, m, L3, m3, n)
  <2>1. a - 1 \in Int /\ n - 2 \in Int /\ n - 2 < brk - 1
    BY <1>b, <1>c
  <2>2. ASSUME NEW q \in DOMAIN L3
        PROVE  \/ Header(m3, q, L3[q]) /\ (q # n => Tags(m3, q, L3[q]))
               \/ q # p /\ L3[q] = L2[q] /\ (n - 2 < q - 1 \/ L2[q].end - 2 < a - 1)
    BY <1>8, <1>10, <1>g, ZenonT(40)
  <2>3. \A q \in DOMAIN L2 : ~L2[q].free => n - 2 < q - 1 \/ L2[q].end - 2 < a - 1
    BY <1>1, <1>8, <1>a
  <2>4. Steps(brk, L2, m2, p, L3, m3, n, a - 1, n - 2)
    BY <1>5, <1>9, <1>11, <1>g, <2>1, <2>2, <2>3, Zenon DEF Steps
  <2> QED
    BY <2>4, PassesOn
<1>13. Plain(brk, L3, m3, n)
  <2>1. n # p /\ n # a
    BY <1>b, <1>c, SMTT(30)
  <2>2. n \in DOMAIN L3 \cup {brk} /\ (n \in DOMAIN L3 => ~L3[n].free /\ Tags(m2, n, L3[n]))
    BY <1>c, <1>g, <2>1 DEF Passing, n
  <2>3. \A w \in Addresses : n - 2 < w => m3[w] = m2[w]
    BY <1>9
  <2> QED
    BY <1>a, <1>g, <1>5, <2>2, <2>3, ComesToAllocated, ZenonT(40)
<1> QED
  BY <1>7, <1>12, <1>13 DEF n

\* A merged block and two free ones behind it: the pass goes on to the second, now inside.
LEMMA PassNextTwo ==
    ASSUME NEW L, NEW brk, Layout(L, brk), NEW m, NEW L2, NEW m2, NEW p,
           Passing(L, brk, m, L2, m2, p), Even(L2, m2, p),
           L2[p].end \in DOMAIN L2, L2[L2[p].end].free
    PROVE  \E L3, m3 :
              /\ CoalesceTurn([mem |-> m2, p |-> p]) = [mem |-> m3, p |-> L2[p].end]
              /\ Passing(L, brk, m, L3, m3, L2[p].end) /\ Odd(L3, m3, L2[p].end)
<1>1. PICK a \in DOMAIN L2 : /\ L2[a].free /\ L2[a].end = p /\ GET_SIZE(m2[p - 2]) = p - a
                             /\ Back(m2, a, L2[p].end)
  BY SMTT(30) DEF Even
<1> DEFINE n == L2[p].end
           e == L2[n].end
           m1 == PutHeader(m2, a, e - a, 0)
           m3 == PutFooter(m1, n, e - a, 0)
           M == Merged(L2, a)
           L3 == Merged(M, a)
<1>a. Layout(L2, brk) /\ m2 \in Mem /\ p \in DOMAIN L2 /\ L2[p].free
  BY DEF Passing, Even
<1>b. a \in Nat /\ 1 <= a /\ p \in Nat /\ a + 3 <= p /\ a - 1 \in Addresses
  BY <1>a, <1>1, BlockFacts
<1>c. n \in Nat /\ p + 3 <= n /\ n - 2 \in Addresses /\ p - 1 \in Addresses /\ n - 1 \in Addresses
  BY <1>a, BlockFacts
<1>h. e \in Nat /\ n + 3 <= e /\ e - 2 \in Addresses /\ e <= brk /\ brk \in Nat
      /\ e \in DOMAIN L2 \cup {brk}
  BY <1>a, BlockFacts, SMTT(30)
<1>d. FreeAt(m2, p) /\ ~IS_END(m2[p - 1]) /\ SizeAt(m2, p) = n - p /\ NEXT_BLK(m2, p) = n
  BY <1>a, <1>b, <1>c, PassReads, SMTT(30) DEF NEXT_BLK
<1>e. FreeAt(m2, a) /\ SizeAt(m2, a) = p - a /\ FreeAt(m2, n) /\ SizeAt(m2, n) = e - n
  BY <1>1, <1>c, PassReads, SMTT(60)
<1>f. PREV_BLK(m2, p) = a /\ ~IS_BEGIN(p)
  BY <1>1, <1>b DEF PREV_BLK, IS_BEGIN, First
<1>g. /\ Layout(L3, brk) /\ Coarsens(L2, L3)
      /\ DOMAIN L3 = DOMAIN L2 \ {p, n} /\ a \in DOMAIN L3
      /\ L3[a] = [end |-> e, free |-> TRUE]
      /\ \A q \in DOMAIN L3 : q # a => L3[q] = L2[q]
  <2>1. L2[a].free /\ L2[a].end \in DOMAIN L2 /\ L2[L2[a].end].free
    BY <1>1, <1>a
  <2>2. /\ Layout(M, brk) /\ Coarsens(L2, M)
        /\ DOMAIN M = DOMAIN L2 \ {L2[a].end} /\ a \in DOMAIN M
        /\ M[a] = [end |-> L2[L2[a].end].end, free |-> TRUE]
        /\ \A q \in DOMAIN M : q # a => M[q] = L2[q]
    <3> HIDE DEF M
    <3>1. a \in DOMAIN L2 /\ L2[a].free /\ L2[a].end \in DOMAIN L2 /\ L2[L2[a].end].free
      BY <1>1, <2>1
    <3>2. M = Merged(L2, a)
      BY SMTT(30) DEF M
    <3>3. Merges(L2, brk, a, M)
      BY <1>a, <3>1, <3>2, MergedMerges
    <3> QED
      BY <3>3 DEF Merges
  <2>3. n # p /\ n # a
    BY <1>b, <1>c, SMTT(30)
  <2> HIDE DEF M
  <2>4. M[a].free /\ M[a].end = n /\ n \in DOMAIN M /\ M[n] = L2[n]
    BY <1>1, <2>2, <2>3
  <2>5. M[a].free /\ M[a].end \in DOMAIN M /\ M[M[a].end].free
    BY <2>4
  <2>6. /\ Layout(L3, brk) /\ Coarsens(M, L3)
        /\ DOMAIN L3 = DOMAIN M \ {M[a].end} /\ a \in DOMAIN L3
        /\ L3[a] = [end |-> M[M[a].end].end, free |-> TRUE]
        /\ \A q \in DOMAIN L3 : q # a => L3[q] = M[q]
    <3> HIDE DEF L3
    <3>1. a \in DOMAIN M /\ M[a].free /\ M[a].end \in DOMAIN M /\ M[M[a].end].free
      BY <2>2, <2>5
    <3>2. L3 = Merged(M, a)
      BY SMTT(30) DEF L3
    <3>3. Merges(M, brk, a, L3)
      BY <2>2, <3>1, <3>2, MergedMerges
    <3> QED
      BY <3>3, SMTT(30) DEF Merges
  <2>7. Coarsens(L2, L3)
    BY <2>2, <2>6, Zenon DEF Coarsens
  <2> HIDE DEF L3
  <2> QED
    BY <1>1, <2>2, <2>4, <2>6, <2>7, ZenonT(40)
<1> HIDE DEF n, e, L3
<1>4. Coalesce(m2, p) = m3
  <2>1. (n - p) + (p - a) + (e - n) = e - a
    BY <1>b, <1>c, <1>h
  <2> QED
    BY <1>d, <1>e, <1>f, <2>1 DEF Coalesce
<1>5. /\ m3 \in Mem
      /\ \A w \in Addresses : m3[w] = IF w \in {a - 1, e - 2} THEN PACK(e - a, 0) ELSE m2[w]
  <2>1. n + (e - n) - 2 = e - 2 /\ e - a \in Nat /\ e - n \in Nat /\ a - 1 # n - 1 /\ n \in Int /\ a \in Int
    BY <1>b, <1>c, <1>h
  <2>2. /\ m1 \in Mem
        /\ \A w \in Addresses : m1[w] = IF w = a - 1 THEN PACK(e - a, 0) ELSE m2[w]
    BY <1>a, <1>b, <2>1, PutHeaderWrites, ZenonT(40)
  <2> HIDE DEF m1
  <2>3. SizeAt(m1, n) = e - n
    BY <1>c, <1>e, <2>1, <2>2 DEF SizeAt
  <2>4. /\ m3 \in Mem
        /\ \A w \in Addresses : m3[w] = IF w = n + (e - n) - 2 THEN PACK(e - a, 0) ELSE m1[w]
    <3>1. m1 \in Mem /\ n \in Int /\ n + (e - n) - 2 \in Addresses /\ e - n \in Nat /\ e - a \in Nat
      BY <1>h, <2>1, <2>2, SMTT(30)
    <3> QED
      BY <2>3, <3>1, PutFooterWrites
  <2> HIDE DEF m3
  <2> QED
    BY <2>1, <2>2, <2>4
<1> HIDE DEF m3
<1>6. /\ m3[a - 1] = PACK(e - a, 0) /\ GET_SIZE(m3[e - 2]) = e - a /\ m3[p - 1] = m2[p - 1]
      /\ NEXT_BLK(m3, p) = n /\ m3[n - 1] = m2[n - 1]
  <2>1. /\ m3[a - 1] = PACK(e - a, 0) /\ m3[e - 2] = PACK(e - a, 0) /\ m3[p - 1] = m2[p - 1]
        /\ m3[n - 1] = m2[n - 1]
    BY <1>b, <1>c, <1>h, <1>5
  <2>2. e - a \in Nat
    BY <1>b, <1>c, <1>h, SMTT(30)
  <2> QED
    BY <1>d, <2>1, <2>2, TagFacts DEF SizeAt, NEXT_BLK
<1>7. CoalesceTurn([mem |-> m2, p |-> p]) = [mem |-> m3, p |-> n]
  BY <1>d, <1>4, <1>6, SMTT(30) DEF CoalesceTurn
<1>8. \A q \in DOMAIN L2 : q # p /\ q # a /\ q # n => e - 2 < q - 1 \/ L2[q].end - 2 < a - 1
  <2> SUFFICES ASSUME NEW q \in DOMAIN L3, q # a PROVE e - 2 < q - 1 \/ L3[q].end - 2 < a - 1
    BY <1>g
  <2>1. Layout(L3, brk) /\ a \in DOMAIN L3 /\ L3[a].end = e
    BY <1>g
  <2>2. L3[a].end - 2 < q - 1 \/ L3[q].end - 2 < a - 1
    BY <2>1, WordsApart
  <2> QED
    BY <2>1, <2>2
<1>9. \A w \in Addresses : w < a - 1 \/ e - 2 < w => m3[w] = m2[w]
  BY <1>b, <1>c, <1>h, <1>5, SMTT(30)
<1>10. Header(m3, a, L3[a]) /\ Tags(m3, a, L3[a])
  <2>1. a \in a .. e - 3
    BY <1>b, <1>c, <1>h, SMTT(30)
  <2> QED
    BY <1>6, <1>g, <2>1 DEF Header, Tags
<1>11. ASSUME NEW q \in DOMAIN L3, L3[q].free, L3[q].end \in DOMAIN L3, L3[q].end < n
       PROVE  ~L3[L3[q].end].free
  <2>0. L3[q].end < e /\ L3[q].end \in Nat
    BY <1>c, <1>h, <1>g, <1>11, BlockFacts, SMTT(30)
  <2>1. L3[q].end = a \/ L3[q].end < a
    BY <1>g, <1>11, <2>0, NextBlock
  <2>2. q # a
    BY <1>g, <1>h, <2>0
  <2>3. q \in DOMAIN L2 /\ L2[q] = L3[q] /\ L3[q].end \in DOMAIN L2
    BY <1>g, <1>11, <2>2
  <2>4. L3[q].end < p
    BY <1>b, <2>0, <2>1
  <2>5. ~L2[L3[q].end].free
    BY <1>11, <2>3, <2>4 DEF Passing
  <2> QED
    BY <1>11, <1>g, <2>5, SMTT(30) DEF Coarsens
<1>12. Passing(L, brk, m, L3, m3, n)
  <2>1. a - 1 \in Int /\ e - 2 \in Int /\ e - 2 < brk - 1
    BY <1>b, <1>h
  <2>2. ASSUME NEW q \in DOMAIN L3
        PROVE  \/ Header(m3, q, L3[q]) /\ (q # n => Tags(m3, q, L3[q]))
               \/ q # p /\ L3[q] = L2[q] /\ (e - 2 < q - 1 \/ L2[q].end - 2 < a - 1)
    BY <1>8, <1>10, <1>g, ZenonT(40)
  <2>3. \A q \in DOMAIN L2 : ~L2[q].free => e - 2 < q - 1 \/ L2[q].end - 2 < a - 1
    BY <1>1, <1>8, <1>a DEF n
  <2>4. Steps(brk, L2, m2, p, L3, m3, n, a - 1, e - 2)
    BY <1>5, <1>9, <1>11, <1>g, <2>1, <2>2, <2>3, ZenonT(40) DEF Steps
  <2> QED
    BY <2>4, PassesOn
<1>13. Odd(L3, m3, n)
  <2>1. n \notin DOMAIN L3 /\ n \in Nat /\ a < n /\ L3[a].free /\ n + 3 <= L3[a].end
    BY <1>b, <1>c, <1>h, <1>g
  <2>2. m3[n - 1] = PACK(L3[a].end - n, 0)
    <3>1. m2[n - 1] = PACK(e - n, 0)
      BY DEF Passing, Header, n, e
    <3>2. m3[n - 1] = m2[n - 1]
      BY <1>6, Zenon
    <3>3. L3[a].end = e
      BY <1>g
    <3> QED
      BY ONLY <3>1, <3>2, <3>3
  <2>3. GET_SIZE(m3[L3[a].end - 2]) = L3[a].end - a
    BY <1>6, <1>g, SMTT(30)
  <2>4. Back(m3, a, n)
    <3>1. PICK c \in a + 1 .. n - 3 : GET_SIZE(m2[n - 2]) = n - c /\ m2[c - 1] = PACK(n - c, 0)
      BY <1>1, SMTT(30) DEF Back, n
    <3>2. c - 1 \in Addresses /\ c - 1 \notin {a - 1, e - 2} /\ n - 2 \notin {a - 1, e - 2}
      BY <1>b, <1>c, <1>h, MmHeapAssumption DEF Addresses
    <3>3. m3[n - 2] = m2[n - 2] /\ m3[c - 1] = m2[c - 1]
      BY <1>c, <1>5, <3>2
    <3> QED
      BY <3>1, <3>3 DEF Back
  <2> QED
    BY <1>g, <2>1, <2>2, <2>3, <2>4, ZenonT(40) DEF Odd
<1> QED
  BY <1>7, <1>12, <1>13 DEF n

\* Inside a merged block the tags lead to a stale header, which takes the new size.
LEMMA PassInside ==
    ASSUME NEW L, NEW brk, Layout(L, brk), NEW m, NEW L2, NEW m2, NEW p,
           Passing(L, brk, m, L2, m2, p), Odd(L2, m2, p)
    PROVE  \E n, m3 :
              /\ CoalesceTurn([mem |-> m2, p |-> p]) = [mem |-> m3, p |-> n] /\ p + 3 <= n
              /\ Passing(L, brk, m, L2, m3, n) /\ (Plain(brk, L2, m3, n) \/ Even(L2, m3, n))
<1>1. PICK a \in DOMAIN L2 : /\ L2[a].free /\ a < p /\ p + 3 <= L2[a].end
                             /\ m2[p - 1] = PACK(L2[a].end - p, 0)
                             /\ GET_SIZE(m2[L2[a].end - 2]) = L2[a].end - a
                             /\ Back(m2, a, p)
  BY DEF Odd
<1>2. PICK c \in a + 1 .. p - 3 : GET_SIZE(m2[p - 2]) = p - c /\ m2[c - 1] = PACK(p - c, 0)
  BY <1>1, SMTT(30) DEF Back
<1> DEFINE n == L2[a].end
<1>a. Layout(L2, brk) /\ m2 \in Mem /\ p \notin DOMAIN L2 /\ p \in Nat
  BY DEF Passing, Odd
<1>b. /\ a \in Nat /\ 1 <= a /\ n \in Nat /\ n - 2 \in Addresses /\ n <= brk /\ brk \in Nat
      /\ n \in DOMAIN L2 \cup {brk} /\ n - 1 \in Addresses /\ n <= MaxHeap
  <2>1. /\ a \in Nat /\ 1 <= a /\ n \in Nat /\ n - 2 \in Addresses /\ n <= brk /\ brk \in Nat
        /\ n \in DOMAIN L2 \cup {brk} /\ n - 1 \in Addresses
    BY <1>a, BlockFacts
  <2>2. n <= MaxHeap
    BY <2>1, MmHeapAssumption DEF Addresses
  <2> QED
    BY <2>1, <2>2
<1>c. /\ c \in Nat /\ a < c /\ c + 3 <= p /\ p + 3 <= n
      /\ c - 1 \in Addresses /\ p - 1 \in Addresses /\ p - 2 \in Addresses
      /\ n - p \in Nat /\ p - c \in Nat /\ n - c \in Nat
  BY <1>1, <1>2, <1>a, <1>b, MmHeapAssumption, SMTT(30) DEF Addresses
<1> HIDE DEF n
<1>d. FreeAt(m2, p) /\ ~IS_END(m2[p - 1]) /\ SizeAt(m2, p) = n - p /\ NEXT_BLK(m2, p) = n
  BY <1>1, <1>a, <1>b, <1>c, TagFacts DEF FreeAt, SizeAt, NEXT_BLK, n
<1>e. FreeAt(m2, c) /\ SizeAt(m2, c) = p - c
  BY <1>2, <1>c, TagFacts DEF FreeAt, SizeAt
<1>f. PREV_BLK(m2, p) = c /\ ~IS_BEGIN(p)
  BY <1>2, <1>a, <1>b, <1>c DEF PREV_BLK, IS_BEGIN, First
<1>g. \A q \in DOMAIN L2 : Tags(m2, q, L2[q]) /\ Header(m2, q, L2[q])
  BY <1>a DEF Passing
<1>k. \A q \in DOMAIN L2 : q # a => n - 2 < q - 1 \/ L2[q].end - 2 < a - 1
  BY <1>a, WordsApart, SMTT(30) DEF n
<1>p. ASSUME NEW q \in DOMAIN L2, L2[q].free, L2[q].end \in DOMAIN L2, L2[q].end < n
      PROVE  ~L2[L2[q].end].free
  <2>1. L2[q].end = a \/ L2[q].end < a
    BY <1>a, <1>p, NextBlock, SMTT(30) DEF n
  <2>2. L2[q].end < p
    BY <1>1, <1>a, <1>b, <1>p, <2>1, BlockFacts
  <2> QED
    BY <1>p, <2>2 DEF Passing
<1>3. CASE ~(n \in DOMAIN L2 /\ L2[n].free)
  <2> DEFINE m1 == PutFooter(m2, p, n - c, 0)
             m3 == PutHeader(m1, c, n - c, 0)
  <2>1. Coalesce(m2, p) = m3
    <3>1. (n - p) + (p - c) = n - c
      BY <1>a, <1>b, <1>c, SMTT(30)
    <3>2. ~FreeAt(m2, n)
      BY <1>3, <1>b, PassReads
    <3> QED
      BY <1>d, <1>e, <1>f, <3>1, <3>2 DEF Coalesce
  <2>2. /\ m3 \in Mem
        /\ \A w \in Addresses : m3[w] = IF w \in {c - 1, n - 2} THEN PACK(n - c, 0) ELSE m2[w]
    <3>1. p + (n - p) - 2 = n - 2 /\ c - 1 # n - 2 /\ p \in Int /\ c \in Int
      BY <1>a, <1>b, <1>c
    <3>2. /\ m1 \in Mem
          /\ \A w \in Addresses : m1[w] = IF w = p + (n - p) - 2 THEN PACK(n - c, 0) ELSE m2[w]
      BY <1>a, <1>b, <1>c, <1>d, <3>1, PutFooterWrites
    <3> HIDE DEF m1
    <3>3. /\ m3 \in Mem
          /\ \A w \in Addresses : m3[w] = IF w = c - 1 THEN PACK(n - c, 0) ELSE m1[w]
      <4>1. m1 \in Mem /\ c \in Int /\ c - 1 \in Addresses /\ n - c \in Nat
        BY <1>c, <3>1, <3>2
      <4> QED
        BY <4>1, PutHeaderWrites, ZenonT(40)
    <3> HIDE DEF m3
    <3> QED
      BY <3>1, <3>2, <3>3
  <2> HIDE DEF m3
  <2>3. /\ m3[c - 1] = PACK(n - c, 0) /\ GET_SIZE(m3[n - 2]) = n - c /\ m3[a - 1] = m2[a - 1]
        /\ m3[p - 1] = m2[p - 1]
    <3>1. a - 1 \in Addresses /\ a - 1 \notin {c - 1, n - 2} /\ p - 1 \notin {c - 1, n - 2}
      BY <1>a, <1>b, <1>c, BlockFacts
    <3> QED
      BY <1>b, <1>c, <2>2, <3>1, TagFacts, SMTT(30)
  <2>4. CoalesceTurn([mem |-> m2, p |-> p]) = [mem |-> m3, p |-> n]
    <3>1. NEXT_BLK(m3, p) = n
      BY <1>d, <2>3 DEF NEXT_BLK, SizeAt
    <3> QED
      BY <1>d, <2>1, <3>1 DEF CoalesceTurn
  <2>5. \A w \in Addresses : w < a - 1 \/ n - 2 < w => m3[w] = m2[w]
    <3>1. \A w \in Addresses : w < a - 1 \/ n - 2 < w => w \notin {c - 1, n - 2}
      BY <1>a, <1>b, <1>c, SMTT(30) DEF Addresses
    <3> QED
      BY <2>2, <3>1
  <2>6. Header(m3, a, L2[a]) /\ Tags(m3, a, L2[a])
    <3>1. c \in a .. n - 3
      BY <1>a, <1>b, <1>c, SMTT(30)
    <3>2. Header(m3, a, L2[a])
      BY <1>g, <2>3 DEF Header
    <3> QED
      BY <1>1, <2>3, <3>1, <3>2 DEF Header, Tags, n
  <2>7. Passing(L, brk, m, L2, m3, n)
    <3>1. a - 1 \in Int /\ n - 2 \in Int /\ n - 2 < brk - 1
      BY <1>b
    <3>2. Coarsens(L2, L2)
      BY SMTT(30) DEF Coarsens
    <3>3. \A q \in DOMAIN L2 : ~L2[q].free => n - 2 < q - 1 \/ L2[q].end - 2 < a - 1
      BY <1>1, <1>k, SMTT(30)
    <3>4. ASSUME NEW q \in DOMAIN L2
          PROVE  \/ Header(m3, q, L2[q]) /\ (q # n => Tags(m3, q, L2[q]))
                 \/ q # p /\ (n - 2 < q - 1 \/ L2[q].end - 2 < a - 1)
      BY <1>a, <1>k, <2>6
    <3>5. Steps(brk, L2, m2, p, L2, m3, n, a - 1, n - 2)
      BY <1>a, <1>p, <2>2, <2>5, <3>1, <3>2, <3>3, <3>4, ZenonT(40) DEF Steps
    <3> QED
      BY <3>5, PassesOn
  <2>8. Plain(brk, L2, m3, n)
    <3>1. n \in DOMAIN L2 \cup {brk} /\ (n \in DOMAIN L2 => ~L2[n].free /\ Tags(m2, n, L2[n]))
      BY <1>3, <1>b, <1>g
    <3>2. \A w \in Addresses : n - 2 < w => m3[w] = m2[w]
      BY <2>5
    <3> QED
      BY <1>a, <2>2, <3>1, <3>2, ComesToAllocated
  <2> QED
    BY <1>c, <2>4, <2>7, <2>8
<1>4. CASE n \in DOMAIN L2 /\ L2[n].free
  <2> DEFINE e == L2[n].end
             m1 == PutHeader(m2, c, e - c, 0)
             m3 == PutFooter(m1, n, e - c, 0)
  <2>0. /\ e \in Nat /\ n + 3 <= e /\ e <= brk /\ e - 2 \in Addresses
        /\ e - c \in Nat /\ e - n \in Nat
    BY <1>4, <1>a, <1>b, <1>c, BlockFacts, SMTT(30)
  <2>1. FreeAt(m2, n) /\ SizeAt(m2, n) = e - n
    BY <1>4, PassReads
  <2> HIDE DEF e
  <2>2. Coalesce(m2, p) = m3
    <3>1. (n - p) + (p - c) + (e - n) = e - c
      BY <1>a, <1>b, <1>c, <2>0, SMTT(30)
    <3> QED
      BY <1>d, <1>e, <1>f, <2>1, <3>1 DEF Coalesce
  <2>3. /\ m3 \in Mem
        /\ \A w \in Addresses : m3[w] = IF w \in {c - 1, e - 2} THEN PACK(e - c, 0) ELSE m2[w]
    <3>1. n + (e - n) - 2 = e - 2 /\ n - 1 # c - 1 /\ n \in Int /\ c \in Int
      BY <1>a, <1>b, <1>c, <2>0
    <3>2. /\ m1 \in Mem
          /\ \A w \in Addresses : m1[w] = IF w = c - 1 THEN PACK(e - c, 0) ELSE m2[w]
      BY <1>a, <1>c, <2>0, <3>1, PutHeaderWrites, ZenonT(40)
    <3> HIDE DEF m1
    <3>3. SizeAt(m1, n) = e - n
      BY <1>b, <2>1, <3>1, <3>2 DEF SizeAt
    <3>4. /\ m3 \in Mem
          /\ \A w \in Addresses : m3[w] = IF w = n + (e - n) - 2 THEN PACK(e - c, 0) ELSE m1[w]
      <4>1. m1 \in Mem /\ n \in Int /\ n + (e - n) - 2 \in Addresses /\ e - n \in Nat /\ e - c \in Nat
        BY <2>0, <3>1, <3>2
      <4> QED
        BY <3>3, <4>1, PutFooterWrites
    <3> HIDE DEF m3
    <3> QED
      BY <3>1, <3>2, <3>4
  <2> HIDE DEF m3
  <2>4. /\ m3[c - 1] = PACK(e - c, 0) /\ GET_SIZE(m3[e - 2]) = e - c /\ m3[a - 1] = m2[a - 1]
        /\ m3[p - 1] = m2[p - 1] /\ m3[n - 2] = m2[n - 2] /\ m3[n - 1] = m2[n - 1]
    <3>1. a - 1 \in Addresses
      BY <1>a, BlockFacts
    <3>2. {a - 1, p - 1, n - 2, n - 1} \cap {c - 1, e - 2} = {}
      BY <1>a, <1>b, <1>c, <2>0, SMTT(30)
    <3> QED
      BY <1>b, <1>c, <2>0, <2>3, <3>1, <3>2, TagFacts, Zenon
  <2>5. CoalesceTurn([mem |-> m2, p |-> p]) = [mem |-> m3, p |-> n]
    <3>1. NEXT_BLK(m3, p) = n
      BY <1>d, <2>4 DEF NEXT_BLK, SizeAt
    <3> QED
      BY <1>d, <2>2, <3>1 DEF CoalesceTurn
  <2>6. \A w \in Addresses : w < a - 1 \/ e - 2 < w => m3[w] = m2[w]
    BY <1>b, <1>c, <2>0, <2>3, SMTT(30)
  <2>7. Header(m3, a, L2[a]) /\ Tags(m3, a, L2[a])
    <3>1. a \in a .. n - 3
      BY <1>a, <1>b, <1>c, SMTT(30)
    <3>2. Header(m3, a, L2[a])
      BY <1>g, <2>4, SMTT(30) DEF Header
    <3>3. GET_SIZE(m3[n - 2]) = n - a /\ m3[a - 1] = PACK(n - a, 0)
      BY <1>1, <2>4, <3>2 DEF Header, n
    <3> QED
      BY <1>1, <3>1, <3>2, <3>3 DEF Header, Tags, n
  <2>8. Header(m3, n, L2[n])
    BY <1>4, <1>g, <2>4 DEF Header
  <2>9. \A q \in DOMAIN L2 : q # a /\ q # n => e - 2 < q - 1 \/ L2[q].end - 2 < a - 1
    <3> SUFFICES ASSUME NEW q \in DOMAIN L2, q # a, q # n
                 PROVE  e - 2 < q - 1 \/ L2[q].end - 2 < a - 1
      OBVIOUS
    <3>1. n - 2 < q - 1 \/ L2[q].end - 2 < a - 1
      BY <1>k
    <3>2. e - 2 < q - 1 \/ L2[q].end - 2 < n - 1
      BY <1>4, <1>a, WordsApart DEF e
    <3>3. q \in Nat /\ L2[q].end \in Nat /\ q + 3 <= L2[q].end
      BY <1>a, BlockFacts
    <3> QED
      BY <1>b, <2>0, <3>1, <3>2, <3>3
  <2>10. Passing(L, brk, m, L2, m3, n)
    <3>1. a - 1 \in Int /\ e - 2 \in Int /\ e - 2 < brk - 1
      BY <1>b, <2>0
    <3>2. Coarsens(L2, L2)
      BY DEF Coarsens
    <3>3. \A q \in DOMAIN L2 : ~L2[q].free => e - 2 < q - 1 \/ L2[q].end - 2 < a - 1
      BY <1>1, <1>4, <2>9
    <3>4. ASSUME NEW q \in DOMAIN L2
          PROVE  \/ Header(m3, q, L2[q]) /\ (q # n => Tags(m3, q, L2[q]))
                 \/ q # p /\ (e - 2 < q - 1 \/ L2[q].end - 2 < a - 1)
      BY <1>a, <2>7, <2>8, <2>9
    <3>5. Steps(brk, L2, m2, p, L2, m3, n, a - 1, e - 2)
      BY <1>a, <1>p, <2>3, <2>6, <3>1, <3>2, <3>3, <3>4, ZenonT(40) DEF Steps
    <3> QED
      BY <3>5, PassesOn
  <2>11. Even(L2, m3, n)
    <3>1. Back(m3, a, e)
      <4>1. c \in a + 1 .. e - 3
        BY <1>a, <1>b, <1>c, <2>0, SMTT(30)
      <4> QED
        BY <2>4, <4>1 DEF Back
    <3>2. GET_SIZE(m3[n - 2]) = n - a
      BY <1>1, <2>4 DEF n
    <3> QED
      BY <1>1, <1>4, <3>1, <3>2, Zenon DEF Even, n, e
  <2> QED
    BY <1>c, <2>5, <2>10, <2>11, SMTT(30)
<1> QED
  BY <1>3, <1>4, SMTT(30)

\* Where the pass can stand; it stops at the break.
LEMMA StandsSomewhere ==
    ASSUME NEW L, NEW brk, NEW m, NEW L2, NEW m2, NEW p, Stands(L, brk, m, L2, m2, p)
    PROVE  /\ p \in 1 .. MaxHeap /\ m2 \in Mem
           /\ IS_END(m2[p - 1]) <=> p = brk
           /\ p = brk => Plain(brk, L2, m2, p) /\ p \notin DOMAIN L2
<1>0. Layout(L2, brk) /\ m2 \in Mem /\ m2[brk - 1] = EndMark
  BY DEF Stands, Passing
<1>1. IS_END(m2[brk - 1]) /\ brk \notin DOMAIN L2 /\ brk \in 1 .. MaxHeap /\ brk \in Nat
  BY <1>0, EndReads, Bounds, MmHeapAssumption DEF Layout
<1>2. CASE p \in DOMAIN L2 \cup {brk}
  <2>1. p \in 1 .. MaxHeap
    BY <1>0, <1>2, Bounds, SMTT(30)
  <2>2. IS_END(m2[p - 1]) <=> p = brk
    BY <1>1, <1>2, PassReads DEF Stands
  <2>3. p = brk => Plain(brk, L2, m2, p)
    BY <1>1, <1>2 DEF Stands, Plain
  <2> QED
    BY <1>0, <1>1, <2>1, <2>2, <2>3
<1>3. CASE p \notin DOMAIN L2 \cup {brk}
  <2>1. Odd(L2, m2, p)
    BY <1>3 DEF Stands, Plain, Even
  <2>2. PICK a \in DOMAIN L2 : a < p /\ p + 3 <= L2[a].end /\ m2[p - 1] = PACK(L2[a].end - p, 0)
    BY <2>1, SMTT(30) DEF Odd
  <2>3. a \in Nat /\ 1 <= a /\ L2[a].end \in Nat /\ L2[a].end - 1 \in Addresses /\ p \in Nat
    BY <1>0, <2>1, BlockFacts DEF Odd
  <2>4. p \in 1 .. MaxHeap /\ L2[a].end - p \in Nat
    BY <2>2, <2>3, MmHeapAssumption DEF Addresses
  <2>5. ~IS_END(m2[p - 1])
    BY <2>2, <2>4, TagFacts
  <2> QED
    BY <1>0, <1>3, <2>4, <2>5
<1> QED
  BY <1>2, <1>3, SMTT(30)

\* A turn of the pass that is not yet at the break.
LEMMA PassTurn ==
    ASSUME NEW L, NEW brk, Layout(L, brk), NEW m, NEW L2, NEW m2, NEW p,
           Stands(L, brk, m, L2, m2, p), p # brk
    PROVE  \E L3, m3, p3 :
              /\ CoalesceTurn([mem |-> m2, p |-> p]) = [mem |-> m3, p |-> p3] /\ p + 3 <= p3
              /\ Stands(L, brk, m, L3, m3, p3)
<1>0. Passing(L, brk, m, L2, m2, p) /\ Layout(L2, brk)
  BY Zenon DEF Stands, Passing
<1>a. p \in DOMAIN L2 => p + 3 <= L2[p].end
  BY <1>0, BlockFacts
<1>1. CASE Plain(brk, L2, m2, p)
  <2>1. p \in DOMAIN L2
    BY <1>1, ZenonT(40) DEF Plain
  <2>2. CASE ~L2[p].free
    BY <1>0, <1>1, <1>a, <2>1, <2>2, PassAllocated, ZenonT(40) DEF Stands
  <2>3. CASE L2[p].free /\ ~(L2[p].end \in DOMAIN L2 /\ L2[L2[p].end].free)
    <3>1. PICK m3 : /\ CoalesceTurn([mem |-> m2, p |-> p]) = [mem |-> m3, p |-> L2[p].end]
                    /\ Passing(L, brk, m, L2, m3, L2[p].end) /\ Plain(brk, L2, m3, L2[p].end)
      BY <1>0, <1>1, <2>1, <2>3, PassAlone, Zenon
    <3> QED
      BY <1>a, <2>1, <3>1, ZenonT(40) DEF Stands
  <2>4. CASE L2[p].free /\ L2[p].end \in DOMAIN L2 /\ L2[L2[p].end].free
    <3>1. \E L3, m3, p3 :
              /\ CoalesceTurn([mem |-> m2, p |-> p]) = [mem |-> m3, p |-> p3] /\ p + 3 <= p3
              /\ Passing(L, brk, m, L3, m3, p3) /\ (Plain(brk, L3, m3, p3) \/ Even(L3, m3, p3))
      BY <1>0, <1>1, <2>1, <2>4, PassFirstTwo, ZenonT(40)
    <3> QED
      BY <3>1 DEF Stands
  <2> QED
    BY <2>2, <2>3, <2>4, ZenonT(40)
<1>2. CASE Even(L2, m2, p)
  <2>1. p \in DOMAIN L2
    BY <1>2, SMTT(30) DEF Even
  <2>2. CASE ~(L2[p].end \in DOMAIN L2 /\ L2[L2[p].end].free)
    <3>1. \E L3, m3 :
              /\ CoalesceTurn([mem |-> m2, p |-> p]) = [mem |-> m3, p |-> L2[p].end]
              /\ Passing(L, brk, m, L3, m3, L2[p].end) /\ Plain(brk, L3, m3, L2[p].end)
      BY <1>0, <1>2, <2>2, PassLastOfEven, ZenonT(40)
    <3> QED
      BY <1>a, <2>1, <3>1 DEF Stands
  <2>3. CASE L2[p].end \in DOMAIN L2 /\ L2[L2[p].end].free
    <3>1. \E L3, m3 :
              /\ CoalesceTurn([mem |-> m2, p |-> p]) = [mem |-> m3, p |-> L2[p].end]
              /\ Passing(L, brk, m, L3, m3, L2[p].end) /\ Odd(L3, m3, L2[p].end)
      BY <1>0, <1>2, <2>3, PassNextTwo, Zenon
    <3> QED
      BY <1>a, <2>1, <3>1, ZenonT(40) DEF Stands
  <2> QED
    BY <2>2, <2>3, Zenon
<1>3. CASE Odd(L2, m2, p)
  <2>1. \E n, m3 :
              /\ CoalesceTurn([mem |-> m2, p |-> p]) = [mem |-> m3, p |-> n] /\ p + 3 <= n
              /\ Passing(L, brk, m, L2, m3, n) /\ (Plain(brk, L2, m3, n) \/ Even(L2, m3, n))
    BY <1>0, <1>3, PassInside, Zenon
  <2> QED
    BY <2>1 DEF Stands
<1> QED
  BY <1>1, <1>2, <1>3, ZenonT(40) DEF Stands

\* A heap in order, with no two free blocks side by side.
Compact(L) == \A q \in DOMAIN L : L[q].free /\ L[q].end \in DOMAIN L => ~L[L[q].end].free

\* One pass of coalesces merges every run of free blocks and touches nothing else.
LEMMA CoalescesAll ==
    ASSUME NEW L, NEW brk, Layout(L, brk), NEW m, Tagged(m, brk, L)
    PROVE  \E L2 : /\ Layout(L2, brk) /\ Tagged(Coalesces(m), brk, L2) /\ Compact(L2)
                   /\ Coarsens(L, L2) /\ Keeps(L, m, Coalesces(m))
<1> DEFINE V == {s \in [mem : Mem, p : 1 .. MaxHeap] : \E L2 : Stands(L, brk, m, L2, s.mem, s.p)}
           E == {s \in V : s.p = brk}
           start == [mem |-> m, p |-> First]
           g == [s \in V |-> CoalesceTurn(s)]
           pos == [s \in V |-> s.p]
           at == CHOOSE f : f = [n \in Nat |-> IF n = 0 THEN start ELSE CoalesceTurn(f[n - 1])]
<1>1. start \in V
  <2>1. First \in DOMAIN L \cup {brk} /\ First \in 1 .. MaxHeap /\ m \in Mem
    BY MmHeapAssumption DEF Layout, First, Tagged
  <2>2. \A q \in DOMAIN L : q \in Nat /\ 1 <= q /\ L[q].end \in Nat /\ ~(L[q].end < First) /\ L[q].end # First
    BY BlockFacts DEF First
  <2>3. Passing(L, brk, m, L, m, First)
    BY <2>2 DEF Passing, Tagged, Tags, Header, Coarsens, Keeps
  <2>4. Plain(brk, L, m, First)
    BY <2>1, <2>2 DEF Plain, Tagged
  <2>5. Stands(L, brk, m, L, start.mem, start.p)
    BY <2>3, <2>4 DEF Stands
  <2> QED
    BY <2>1, <2>5
<1>2. ASSUME NEW s \in V
      PROVE  IF s \in E THEN CoalesceTurn(s) = s
             ELSE CoalesceTurn(s) \in V /\ s.p + 3 <= CoalesceTurn(s).p
  <2>1. PICK L2 : Stands(L, brk, m, L2, s.mem, s.p)
    OBVIOUS
  <2>2. s = [mem |-> s.mem, p |-> s.p]
    OBVIOUS
  <2>3. CASE s.p = brk
    <3>1. IS_END(s.mem[s.p - 1])
      BY <2>1, <2>3, StandsSomewhere
    <3> QED
      BY <2>3, <3>1, Zenon DEF CoalesceTurn
  <2>4. CASE s.p # brk
    <3>1. PICK L3, m3, p3 :
              /\ CoalesceTurn([mem |-> s.mem, p |-> s.p]) = [mem |-> m3, p |-> p3] /\ s.p + 3 <= p3
              /\ Stands(L, brk, m, L3, m3, p3)
      BY <2>1, <2>4, PassTurn
    <3>2. m3 \in Mem /\ p3 \in 1 .. MaxHeap
      BY <3>1, StandsSomewhere
    <3>3. CoalesceTurn(s) = [mem |-> m3, p |-> p3]
      BY <2>2, <3>1
    <3>4. [mem |-> m3, p |-> p3] \in V
      BY <3>1, <3>2
    <3> QED
      BY <2>4, <3>1, <3>3, <3>4
  <2> QED
    BY <2>3, <2>4
<1>3. g \in [V -> V] /\ \A s \in V : g[s] = CoalesceTurn(s)
  BY <1>2, Zenon
<1>4. pos \in [V -> 1 .. MaxHeap] /\ \A s \in V : pos[s] = s.p
  BY Zenon
<1> HIDE DEF V, E, g, pos, start
<1>5. at = [n \in Nat |-> IF n = 0 THEN start ELSE CoalesceTurn(at[n - 1])]
  <2>1. PICK f \in [Nat -> V] : f = [n \in Nat |-> IF n = 0 THEN start ELSE g[f[n - 1]]]
    BY <1>1, <1>3, Iteration
  <2>2. \A n \in Nat : n # 0 => n - 1 \in Nat /\ g[f[n - 1]] = CoalesceTurn(f[n - 1])
    BY <1>3
  <2>3. f = [n \in Nat |-> IF n = 0 THEN start ELSE CoalesceTurn(f[n - 1])]
    BY <2>1, <2>2, Zenon
  <2> QED
    BY <2>3
<1>6. Coalesces(m) = at[MaxHeap \div 3].mem
  BY Zenon DEF Coalesces, at, start
<1> HIDE DEF at
<1>7. /\ at[0] = start
      /\ \A n \in Nat : at[n] \in V => at[n + 1] = g[at[n]]
  <2>1. at[0] = start
    BY <1>5
  <2>2. ASSUME NEW n \in Nat, at[n] \in V PROVE at[n + 1] = g[at[n]]
    <3>1. n + 1 \in Nat /\ n + 1 # 0 /\ (n + 1) - 1 = n
      OBVIOUS
    <3>2. at[n + 1] = CoalesceTurn(at[n])
      BY <1>5, <3>1
    <3> QED
      BY <1>3, <2>2, <3>2
  <2> QED
    BY <2>1, <2>2
<1>8. at[MaxHeap \div 3] \in V /\ at[MaxHeap \div 3] \in E
  <2>1. \A v \in V : IF v \in E THEN g[v] = v ELSE pos[v] + 3 <= pos[g[v]]
    BY <1>2, <1>3, <1>4
  <2>2. g \in [V -> V]
    BY <1>3
  <2>3. pos \in [V -> 1 .. MaxHeap]
    BY <1>4
  <2> QED
    BY <1>1, <1>7, <2>1, <2>2, <2>3, LoopEnds
<1>9. PICK L2 : Stands(L, brk, m, L2, Coalesces(m), brk)
  BY <1>6, <1>8 DEF V, E
<1>10. Plain(brk, L2, Coalesces(m), brk) /\ brk \notin DOMAIN L2
  BY <1>9, StandsSomewhere
<1>11. Passing(L, brk, m, L2, Coalesces(m), brk)
  BY <1>9, SMTT(30) DEF Stands
<1>12. Tagged(Coalesces(m), brk, L2)
  BY <1>10, <1>11, SMTT(30) DEF Passing, Tagged
<1>13. Compact(L2)
  <2>1. Layout(L2, brk)
    BY <1>11 DEF Passing
  <2>2. \A q \in DOMAIN L2 : q < brk
    BY <2>1, Bounds
  <2> QED
    BY <1>11, <2>2 DEF Passing, Compact
<1> QED
  BY <1>11, <1>12, <1>13, Zenon DEF Passing
-----------------------------------------------------------------------------
(* The operations, on a heap with layout L.                                *)

\* Block p, with room for n words, is handed out: it was not in use, or it was p
\* already; the other blocks in use stay, and their words.
Allots(L, m, L2, m2, brk2, p, n) ==
    /\ Layout(L2, brk2) /\ Tagged(m2, brk2, L2)
    /\ p \in DOMAIN L2 /\ ~L2[p].free /\ n <= L2[p].end - p
    /\ \A q \in DOMAIN L2 : ~L2[q].free => q = p \/ (q \in DOMAIN L /\ L2[q] = L[q])
    /\ \A q \in DOMAIN L : ~L[q].free /\ q # p =>
            /\ q \in DOMAIN L2 /\ L2[q] = L[q]
            /\ \A w \in q - 1 .. L[q].end - 2 : m2[w] = m[w]

\* Words outside a block stay, and with them the words of all others.
LEMMA OthersStay ==
    ASSUME NEW L, NEW brk, Layout(L, brk), NEW p \in DOMAIN L, NEW m, NEW m2,
           \A w \in Addresses : w < p - 1 \/ L[p].end - 2 < w => m2[w] = m[w]
    PROVE  \A q \in DOMAIN L : q # p => \A w \in q - 1 .. L[q].end - 2 : m2[w] = m[w]
<1> SUFFICES ASSUME NEW q \in DOMAIN L, q # p, NEW w \in q - 1 .. L[q].end - 2
             PROVE  m2[w] = m[w]
  OBVIOUS
<1>1. L[p].end - 2 < q - 1 \/ L[q].end - 2 < p - 1
  BY WordsApart
<1>2. /\ q \in Nat /\ L[q].end \in Nat /\ q - 1 \in Addresses /\ L[q].end - 2 \in Addresses
      /\ p \in Nat /\ L[p].end \in Nat
  BY BlockFacts
<1>3. w \in Addresses /\ (w < p - 1 \/ L[p].end - 2 < w)
  BY <1>1, <1>2, MmHeapAssumption, SMTT(30) DEF Addresses
<1> QED
  BY <1>3

\* place hands out the whole block or splits it.
LEMMA Places ==
    ASSUME NEW L, NEW brk, Layout(L, brk), NEW m, Tagged(m, brk, L), NEW p \in DOMAIN L,
           NEW n \in Nat, 3 <= n, n <= L[p].end - p
    PROVE  \E L2 : /\ Allots(L, m, L2, Place(m, p, n), brk, p, n)
                   /\ \A w \in p .. p + n - 3 : Place(m, p, n)[w] = m[w]
<1> DEFINE e == L[p].end
<1>a. /\ p \in Nat /\ e \in Nat /\ p + 3 <= e /\ p - 1 \in Addresses /\ e - 2 \in Addresses
      /\ e - p \in Nat /\ e <= brk /\ brk \in Nat /\ m \in Mem /\ e - 1 \in Addresses
  BY BlockFacts, SMTT(30) DEF Tagged
<1>b. SizeAt(m, p) = e - p
  BY HeaderReads, SMTT(30) DEF Tagged, Tags
<1>c. \A q \in DOMAIN L : q # p => e - 2 < q - 1 \/ L[q].end - 2 < p - 1
  BY WordsApart
<1>d. p \in Int /\ p - 1 \in Int /\ e - 2 \in Int /\ p + n \in Nat
  BY <1>a
<1>1. CASE e - p - n > 2
  <2> DEFINE m1 == PutBoth(m, p, n, 1)
             b == p + n
             m2 == PutBoth(m1, b, e - b, 0)
             L2 == Split(L, p, b)
  <2>a. b \in Nat /\ b \in Int /\ b - 1 \in Addresses /\ p + n - 2 \in Addresses /\ e - b \in Nat
        /\ p + 3 <= b /\ b + 3 <= e /\ b + (e - b) - 2 = e - 2 /\ e - p - n = e - b
    BY <1>1, <1>a, MmHeapAssumption DEF Addresses
  <2>1. /\ m1 \in Mem
        /\ \A w \in Addresses : m1[w] = IF w \in {p - 1, p + n - 2} THEN PACK(n, 1) ELSE m[w]
    <3>1. m \in Mem /\ p \in Int /\ p - 1 \in Addresses /\ p + n - 2 \in Addresses /\ 1 \in {0, 1}
      BY <1>a, <1>d, <2>a
    <3> HIDE DEF e, b
    <3> QED
      BY <3>1, PutBothWrites
  <2>2. SizeAt(m1, p) = n
    BY <1>a, <2>1, TagFacts, SMTT(30) DEF SizeAt
  <2> HIDE DEF m1
  <2>3. Place(m, p, n) = m2
    <3>1. NEXT_BLK(m1, p) = b
      BY <2>2, SMTT(30) DEF NEXT_BLK
    <3> QED
      BY <1>1, <1>b, <2>a, <3>1 DEF Place, m1
  <2>4. /\ m2 \in Mem
        /\ \A w \in Addresses : m2[w] = IF w \in {b - 1, b + (e - b) - 2} THEN PACK(e - b, 0) ELSE m1[w]
    <3>1. b + (e - b) - 2 \in Addresses
      BY <1>a, <2>a
    <3> HIDE DEF b
    <3> QED
      BY <2>1, <2>a, <3>1, PutBothWrites
  <2> HIDE DEF m2
  <2>5. \A w \in Addresses : w \notin {p - 1, b - 2, b - 1, e - 2} => m2[w] = m[w]
    <3>1. p + n - 2 = b - 2 /\ b + (e - b) - 2 = e - 2
      BY <1>a, <2>a, SMTT(30)
    <3> HIDE DEF b, e
    <3> QED
      BY <2>1, <2>4, <3>1
  <2>6. /\ m2[p - 1] = PACK(n, 1) /\ m2[b - 2] = PACK(n, 1)
        /\ m2[b - 1] = PACK(e - b, 0) /\ m2[e - 2] = PACK(e - b, 0)
    <3>1. b - 2 = p + n - 2 /\ b - 2 \in Addresses /\ {p - 1, b - 2} \cap {b - 1, e - 2} = {}
      BY <1>a, <2>a
    <3> QED
      BY <1>a, <2>1, <2>4, <2>a, <3>1, SMTT(30)
  <2>7. Layout(L2, brk)
    BY <2>a, SplitLayout, SMTT(30)
  <2>8. /\ DOMAIN L2 = DOMAIN L \cup {b} /\ b \notin DOMAIN L /\ b # p
        /\ L2[p] = [end |-> b, free |-> FALSE] /\ L2[b] = [end |-> e, free |-> TRUE]
        /\ \A q \in DOMAIN L : q # p => L2[q] = L[q]
    <3>1. b # p
      BY <1>a, <2>a
    <3>2. b \notin DOMAIN L
      <4> SUFFICES ASSUME b \in DOMAIN L PROVE FALSE
        OBVIOUS
      <4>1. e - 2 < b - 1 \/ L[b].end - 2 < p - 1
        BY <1>c, <3>1
      <4> QED
        BY <1>a, <2>a, <4>1, BlockFacts
    <3> QED
      BY <3>1, <3>2 DEF Split
  <2> HIDE DEF L2
  <2>9. \A w \in Addresses : w < p - 1 \/ e - 2 < w => m2[w] = m[w]
    BY <1>a, <2>a, <2>5, SMTT(30)
  <2>10. Tags(m2, p, L2[p]) /\ Tags(m2, b, L2[b])
    <3>1. GET_SIZE(m2[b - 2]) = n /\ GET_SIZE(m2[e - 2]) = e - b
      BY <2>6, <2>a, TagFacts
    <3>2. b \in b .. e - 3 /\ b - p = n
      BY <1>a, <2>a, SMTT(30)
    <3> HIDE DEF b
    <3> QED
      BY <2>6, <2>8, <3>1, <3>2, SMTT(30) DEF Tags
  <2>11. Tagged(m2, brk, L2)
    <3>1. m2[brk - 1] = EndMark
      <4>1. brk - 1 \in Addresses /\ e - 2 < brk - 1
        BY <1>a, MmHeapAssumption DEF Addresses, Layout
      <4> QED
        BY <2>9, <4>1 DEF Tagged
    <3>2. \A q \in DOMAIN L2 : \/ Tags(m2, q, L2[q])
                               \/ q \in DOMAIN L /\ L2[q] = L[q] /\ (e - 2 < q - 1 \/ L[q].end - 2 < p - 1)
      BY <1>c, <2>8, <2>10, Zenon
    <3> HIDE DEF b, e
    <3> QED
      BY <1>d, <2>4, <2>9, <3>1, <3>2, Retag
  <2>12. \A q \in DOMAIN L : q # p => \A w \in q - 1 .. L[q].end - 2 : m2[w] = m[w]
    BY <2>9, OthersStay, SMTT(60)
  <2>13. Allots(L, m, L2, m2, brk, p, n)
    <3>1. n <= L2[p].end - p
      BY <1>a, <2>8
    <3> QED
      BY <2>7, <2>8, <2>11, <2>12, <3>1, SMTT(60) DEF Allots
  <2>14. \A w \in p .. p + n - 3 : m2[w] = m[w]
    <3>1. \A w \in p .. p + n - 3 : w \in Addresses /\ w \notin {p - 1, b - 2, b - 1, e - 2}
      BY <1>a, <2>a, MmHeapAssumption, SMTT(30) DEF Addresses
    <3> QED
      BY <2>5, <3>1, SMTT(30)
  <2> QED
    BY <2>3, <2>13, <2>14
<1>2. CASE ~(e - p - n > 2)
  <2> DEFINE m2 == PutBoth(m, p, e - p, 1)
             L2 == Marked(L, p, FALSE)
  <2>1. Place(m, p, n) = m2
    BY <1>2, <1>b DEF Place
  <2>2. /\ m2 \in Mem
        /\ \A w \in Addresses : m2[w] = IF w \in {p - 1, e - 2} THEN PACK(e - p, 1) ELSE m[w]
    <3>1. p + (e - p) - 2 = e - 2
      BY <1>a
    <3>2. m \in Mem /\ p \in Int /\ p - 1 \in Addresses /\ p + (e - p) - 2 \in Addresses
          /\ e - p \in Nat /\ 1 \in {0, 1}
      BY <1>a, <1>d, <3>1
    <3>3. /\ m2 \in Mem
          /\ \A w \in Addresses :
                m2[w] = IF w \in {p - 1, p + (e - p) - 2} THEN PACK(e - p, 1) ELSE m[w]
      <4> HIDE DEF e
      <4> QED
        BY <3>2, PutBothWrites
    <3> HIDE DEF m2
    <3> QED
      BY <3>1, <3>3
  <2> HIDE DEF m2
  <2>3. \A w \in Addresses : w < p - 1 \/ e - 2 < w => m2[w] = m[w]
    BY <1>a, <2>2
  <2>4. Layout(L2, brk)
    BY MarkedLayout, ZenonT(40)
  <2>5. /\ DOMAIN L2 = DOMAIN L /\ L2[p] = [end |-> e, free |-> FALSE]
        /\ \A q \in DOMAIN L : q # p => L2[q] = L[q]
    BY DEF Marked
  <2> HIDE DEF L2
  <2>6. Tags(m2, p, L2[p])
    <3>1. m2[p - 1] = PACK(e - p, 1) /\ GET_SIZE(m2[e - 2]) = e - p
      BY <1>a, <2>2, TagFacts, SMTT(30)
    <3> QED
      BY <2>5, <3>1 DEF Tags
  <2>7. Tagged(m2, brk, L2)
    <3>1. m2[brk - 1] = EndMark
      <4>1. brk - 1 \in Addresses /\ e - 2 < brk - 1
        BY <1>a, MmHeapAssumption DEF Addresses, Layout
      <4> QED
        BY <2>3, <4>1 DEF Tagged
    <3>2. \A q \in DOMAIN L2 : \/ Tags(m2, q, L2[q])
                               \/ q \in DOMAIN L /\ L2[q] = L[q] /\ (e - 2 < q - 1 \/ L[q].end - 2 < p - 1)
      BY <1>c, <2>5, <2>6, ZenonT(40)
    <3> HIDE DEF e
    <3> QED
      BY <1>d, <2>2, <2>3, <3>1, <3>2, Retag
  <2>8. \A q \in DOMAIN L : q # p => \A w \in q - 1 .. L[q].end - 2 : m2[w] = m[w]
    BY <2>3, OthersStay, SMTT(60)
  <2>9. Allots(L, m, L2, m2, brk, p, n)
    BY <2>4, <2>5, <2>7, <2>8, SMTT(30) DEF Allots
  <2>10. \A w \in p .. p + n - 3 : m2[w] = m[w]
    <3>1. \A w \in p .. p + n - 3 : w \in Addresses /\ w \notin {p - 1, e - 2}
      BY <1>a, MmHeapAssumption DEF Addresses
    <3> QED
      BY <2>2, <3>1
  <2> QED
    BY <2>1, <2>9, <2>10
<1> QED
  BY <1>1, <1>2

\* extend puts a block at the break.
LEMMA Extends ==
    ASSUME NEW L, NEW brk, Layout(L, brk), NEW m, Tagged(m, brk, L), NEW n \in Nat, 3 <= n,
           brk + n <= MaxHeap
    PROVE  LET m1 == PutBoth(m, brk, n, 1)
               m2 == [m1 EXCEPT ![brk + n - 1] = EndMark]
           IN  \E L2 : Allots(L, m, L2, m2, brk + n, brk, n) /\ brk \notin DOMAIN L
<1> DEFINE e == brk + n
           m1 == PutBoth(m, brk, n, 1)
           m2 == [m1 EXCEPT ![brk + n - 1] = EndMark]
           L2 == Grown(L, brk, e)
<1>a. /\ brk \in Nat /\ brk \in Int /\ 1 <= brk /\ m \in Mem /\ e \in Nat /\ brk + 3 <= e /\ e <= MaxHeap
      /\ brk - 1 \in Addresses /\ brk + n - 2 \in Addresses /\ brk + n - 1 \in Addresses
      /\ 1 \in {0, 1}
  BY MmHeapAssumption DEF Layout, Tagged, Addresses
<1>1. /\ m1 \in Mem
      /\ \A w \in Addresses : m1[w] = IF w \in {brk - 1, brk + n - 2} THEN PACK(n, 1) ELSE m[w]
  BY <1>a, PutBothWrites
<1> HIDE DEF m1
<1>2. /\ m2 \in Mem
      /\ \A w \in Addresses : m2[w] = IF w = brk + n - 1 THEN EndMark ELSE m1[w]
  BY <1>a, <1>1, TagFacts DEF Mem
<1> HIDE DEF m2
<1>3. /\ m2[brk - 1] = PACK(n, 1) /\ m2[e - 2] = PACK(n, 1) /\ m2[e - 1] = EndMark
      /\ \A w \in Addresses : w < brk - 1 \/ e - 1 < w => m2[w] = m[w]
  BY <1>a, <1>1, <1>2
<1>4. Layout(L2, e)
  BY <1>a, GrownLayout
<1>5. brk \notin DOMAIN L
  BY Bounds
<1>6. /\ DOMAIN L2 = DOMAIN L \cup {brk} /\ L2[brk] = [end |-> e, free |-> FALSE]
      /\ \A q \in DOMAIN L : L2[q] = L[q]
  BY <1>5 DEF Grown
<1> HIDE DEF L2
<1>7. Tags(m2, brk, L2[brk])
  <2>1. GET_SIZE(m2[e - 2]) = n /\ e - brk = n
    BY <1>3, <1>a, TagFacts
  <2> HIDE DEF e
  <2> QED
    BY <1>3, <1>6, <2>1 DEF Tags
<1>8. \A q \in DOMAIN L : q \in Nat /\ L[q].end \in Nat /\ L[q].end - 2 < brk - 1 /\ L[q].end - 2 \in Addresses
                          /\ q - 1 \in Addresses
  BY <1>a, BlockFacts, SMTT(30)
<1>9. Tagged(m2, e, L2)
  <2>1. brk - 1 \in Int /\ e - 1 \in Int
    BY <1>a
  <2>2. \A q \in DOMAIN L2 : \/ Tags(m2, q, L2[q])
                             \/ q \in DOMAIN L /\ L2[q] = L[q] /\ (e - 1 < q - 1 \/ L[q].end - 2 < brk - 1)
    BY <1>6, <1>7, <1>8, Zenon
  <2> HIDE DEF e
  <2> QED
    BY <1>2, <1>3, <2>1, <2>2, Retag
<1>10. \A q \in DOMAIN L : \A w \in q - 1 .. L[q].end - 2 : m2[w] = m[w]
  <2>1. \A q \in DOMAIN L : \A w \in q - 1 .. L[q].end - 2 : w \in Addresses /\ w < brk - 1
    BY <1>8, <1>a, MmHeapAssumption DEF Addresses
  <2> QED
    BY <1>3, <2>1, Zenon
<1>11. n <= e - brk
  BY <1>a, SMTT(30)
<1>12. Allots(L, m, L2, m2, e, brk, n)
  BY <1>4, <1>6, <1>9, <1>10, <1>11 DEF Allots
<1> QED
  BY <1>5, <1>12 DEF m1, m2

OthersKeep(L, p, m, m2) ==
    \A q \in DOMAIN L : q # p => \A w \in q - 1 .. L[q].end - 2 : m2[w] = m[w]

\* mm_free marks a block as free.
LEMMA Frees ==
    ASSUME NEW L, NEW brk, Layout(L, brk), NEW m, Tagged(m, brk, L), NEW p \in DOMAIN L
    PROVE  LET m2 == PutBoth(m, p, SizeAt(m, p), 0) IN
           /\ Tagged(m2, brk, Marked(L, p, TRUE))
           /\ OthersKeep(L, p, m, m2)
<1> DEFINE e == L[p].end
           m2 == PutBoth(m, p, e - p, 0)
           L2 == Marked(L, p, TRUE)
<1>a. /\ p \in Nat /\ e \in Nat /\ p + 3 <= e /\ p - 1 \in Addresses /\ e - 2 \in Addresses
      /\ e - p \in Nat /\ e <= brk /\ brk \in Nat /\ m \in Mem /\ p \in Int /\ 0 \in {0, 1}
      /\ p - 1 \in Int /\ e - 2 \in Int
  BY BlockFacts, SMTT(30) DEF Tagged
<1>b. SizeAt(m, p) = e - p
  BY HeaderReads, SMTT(30) DEF Tagged, Tags
<1>1. /\ m2 \in Mem
      /\ \A w \in Addresses : m2[w] = IF w \in {p - 1, e - 2} THEN PACK(e - p, 0) ELSE m[w]
  <2>1. p + (e - p) - 2 = e - 2
    BY <1>a
  <2>2. p + (e - p) - 2 \in Addresses
    BY <1>a, <2>1
  <2>3. /\ m2 \in Mem
        /\ \A w \in Addresses :
              m2[w] = IF w \in {p - 1, p + (e - p) - 2} THEN PACK(e - p, 0) ELSE m[w]
    <3> HIDE DEF e
    <3> QED
      BY <1>a, <2>2, PutBothWrites, SMTT(30)
  <2> HIDE DEF m2
  <2> QED
    BY <2>1, <2>3
<1> HIDE DEF m2
<1>2. \A w \in Addresses : w < p - 1 \/ e - 2 < w => m2[w] = m[w]
  BY <1>a, <1>1, SMTT(30)
<1>3. /\ DOMAIN L2 = DOMAIN L /\ L2[p] = [end |-> e, free |-> TRUE]
      /\ \A q \in DOMAIN L : q # p => L2[q] = L[q]
  BY SMTT(30) DEF Marked
<1> HIDE DEF L2
<1>4. Tags(m2, p, L2[p])
  <2>1. m2[p - 1] = PACK(e - p, 0) /\ GET_SIZE(m2[e - 2]) = e - p /\ p \in p .. e - 3
    BY <1>a, <1>1, TagFacts, SMTT(30)
  <2> QED
    BY <1>3, <2>1, SMTT(30) DEF Tags
<1>5. Tagged(m2, brk, L2)
  <2>1. m2[brk - 1] = EndMark
    <3>1. brk - 1 \in Addresses /\ e - 2 < brk - 1
      BY <1>a, MmHeapAssumption DEF Addresses, Layout
    <3> QED
      BY <1>2, <3>1 DEF Tagged
  <2>2. \A q \in DOMAIN L : q # p => e - 2 < q - 1 \/ L[q].end - 2 < p - 1
    BY WordsApart
  <2>3. \A q \in DOMAIN L2 : \/ Tags(m2, q, L2[q])
                             \/ q \in DOMAIN L /\ L2[q] = L[q] /\ (e - 2 < q - 1 \/ L[q].end - 2 < p - 1)
    BY <1>3, <1>4, <2>2, Zenon
  <2> HIDE DEF e
  <2> QED
    BY <1>a, <1>1, <1>2, <2>1, <2>3, Retag
<1>6. \A q \in DOMAIN L : q # p => \A w \in q - 1 .. L[q].end - 2 : m2[w] = m[w]
  BY <1>2, OthersStay
<1> QED
  BY <1>b, <1>5, <1>6, ZenonT(40) DEF m2, L2, OthersKeep

\* Every word between the start and the break belongs to a block.
LEMMA BlockOf ==
    ASSUME NEW L, NEW brk, Layout(L, brk), NEW w \in Nat, 1 <= w, w < brk
    PROVE  \E r \in DOMAIN L : r <= w /\ w < L[r].end
<1> DEFINE S == {q \in DOMAIN L \cup {brk} : w < q}
<1>1. S \subseteq Nat /\ brk \in S
  BY BlockFacts DEF Layout
<1>2. PICK q \in S : \A x \in S : q <= x
  BY <1>1, LeastElement, ZenonT(40)
<1>3. q # First /\ q \in Nat
  BY <1>1 DEF First
<1>4. PICK r \in DOMAIN L : L[r].end = q
  BY <1>3 DEF Layout
<1>5. r \in Nat /\ r < q
  BY <1>4, BlockFacts
<1>6. ~(w < r)
  BY <1>2, <1>3, <1>5
<1> QED
  BY <1>4, <1>5, <1>6

\* When all runs are merged, a run of free blocks lies inside one of them.
LEMMA RunsFit ==
    ASSUME NEW L, NEW brk, Layout(L, brk), NEW L2, Layout(L2, brk), Coarsens(L, L2), Compact(L2),
           NEW n \in Nat, 1 <= n, \A q \in DOMAIN L2 : L2[q].free => L2[q].end - q < n,
           NEW p \in DOMAIN L, NEW e \in DOMAIN L \cup {brk},
           \A q \in DOMAIN L : p <= q /\ q < e => L[q].free
    PROVE  e - p < n
<1>1. p \in Nat /\ 1 <= p /\ p < brk /\ e \in Nat /\ brk \in Nat /\ e <= brk
  BY BlockFacts, Bounds, MmHeapAssumption, SMTT(30) DEF Layout
<1>2. CASE e <= p
  BY <1>1, <1>2
<1>3. CASE p < e
  <2>1. PICK r \in DOMAIN L2 : r <= p /\ p < L2[r].end
    BY <1>1, BlockOf, SMTT(30)
  <2>2. r \in Nat /\ L2[r].end \in Nat /\ r \in DOMAIN L
    BY BlockFacts DEF Coarsens
  <2>3. L2[r].free
    <3> SUFFICES ASSUME ~L2[r].free PROVE FALSE
      OBVIOUS
    <3>1. ~L[r].free /\ L2[r] = L[r]
      BY <2>2 DEF Coarsens
    <3>2. p < L[r].end
      BY <2>1, <3>1
    <3>3. p = r \/ p < r
      BY <2>2, <3>2, NextBlock
    <3>4. p = r
      BY <1>1, <2>1, <2>2, <3>3
    <3> QED
      BY <1>1, <1>3, <3>1, <3>4
  <2>4. e <= L2[r].end
    <3> SUFFICES ASSUME L2[r].end < e PROVE FALSE
      BY <1>1, <2>2, SMTT(30)
    <3>1. L2[r].end \in DOMAIN L2
      BY <1>1, <2>2, BlockFacts
    <3>2. ~L2[L2[r].end].free
      BY <2>3, <3>1 DEF Compact
    <3>3. L2[r].end \in DOMAIN L /\ ~L[L2[r].end].free
      BY <3>1, <3>2 DEF Coarsens
    <3> QED
      BY <1>1, <2>1, <2>2, <3>3
  <2>5. L2[r].end - r < n
    BY <2>3
  <2> QED
    BY <1>1, <2>1, <2>2, <2>4, <2>5
<1> QED
  BY <1>1, <1>2, <1>3

HeapT == [mem : Mem, brk : Nat, total : Int]

\* No run of adjacent free blocks has n words.
NoRun(L, brk, n) ==
    \A p \in DOMAIN L, e \in DOMAIN L \cup {brk} :
        (\A q \in DOMAIN L : p <= q /\ q < e => L[q].free) => e - p < n

\* A heap that grows, or hands out a block, after a pass of coalesces.
LEMMA AllotsThrough ==
    ASSUME NEW L, NEW m, NEW K, NEW m1, Coarsens(L, K), Keeps(L, m, m1),
           NEW L2, NEW m2, NEW brk2, NEW p, NEW n, Allots(K, m1, L2, m2, brk2, p, n)
    PROVE  Allots(L, m, L2, m2, brk2, p, n)
<1>1. ASSUME NEW q \in DOMAIN L2, ~L2[q].free, q # p PROVE q \in DOMAIN L /\ L2[q] = L[q]
  BY <1>1, ZenonT(40) DEF Allots, Coarsens
<1>2. ASSUME NEW q \in DOMAIN L, ~L[q].free, q # p
      PROVE  /\ q \in DOMAIN L2 /\ L2[q] = L[q]
             /\ \A w \in q - 1 .. L[q].end - 2 : m2[w] = m[w]
  <2>1. q \in DOMAIN K /\ K[q] = L[q] /\ \A w \in q - 1 .. L[q].end - 2 : m1[w] = m[w]
    BY <1>2, SMTT(30) DEF Coarsens, Keeps
  <2> QED
    BY <1>2, <2>1, ZenonT(40) DEF Allots
<1> QED
  BY <1>1, <1>2, ZenonT(40) DEF Allots

\* What mm_malloc and mm_realloc get when they look for a block, or extend the heap.
LEMMA FitsOrExtends ==
    ASSUME NEW h \in HeapT, NEW L, Layout(L, h.brk), Tagged(h.mem, h.brk, L),
           NEW n \in Nat, 3 <= n, NEW wanted \in BOOLEAN,
           NEW r, r = FitOrExtend(h, n, wanted), r.p # Wild
    PROVE  /\ r.h \in HeapT
           /\ r.p \in DOMAIN L => L[r.p].free
           /\ \E L2 : Allots(L, h.mem, L2, r.h.mem, r.h.brk, r.p, n)
           /\ wanted /\ r.h.brk > h.brk => NoRun(L, h.brk, n)
<1> DEFINE brk == h.brk
           first == FindFitBlock(h.mem, n)
           m == IF first = NULL /\ wanted THEN Coalesces(h.mem) ELSE h.mem
           p == FindFitBlock(m, n)
<1>a. h.mem \in Mem /\ brk \in Nat /\ h.total \in Int
  BY DEF HeapT
<1>1. PICK K : /\ Layout(K, brk) /\ Tagged(m, brk, K) /\ Coarsens(L, K) /\ Keeps(L, h.mem, m)
               /\ first = NULL /\ wanted => Compact(K)
  <2>1. CASE first = NULL /\ wanted
    BY <2>1, CoalescesAll
  <2>2. CASE ~(first = NULL /\ wanted)
    <3>1. Coarsens(L, L) /\ Keeps(L, h.mem, m)
      BY <2>2 DEF Coarsens, Keeps
    <3> QED
      BY <2>2, <3>1, SMTT(30)
  <2> QED
    BY <2>1, <2>2
<1>2. first # NULL => p # NULL
  BY SMTT(30)
<1> HIDE DEF m, first
<1>b. m \in Mem
  BY <1>1 DEF Tagged
<1>3. \/ p = NULL /\ \A q \in DOMAIN K : K[q].free => K[q].end - q < n
      \/ p # NULL /\ p \in DOMAIN K /\ K[p].free /\ n <= K[p].end - p
  BY <1>1, FindsFit, Zenon
<1>4. FitOrExtend(h, n, wanted) =
        IF p # NULL THEN [h |-> [h EXCEPT !.mem = Place(m, p, n)], p |-> p]
        ELSE Extend([h EXCEPT !.mem = m], n)
  BY Zenon DEF FitOrExtend, m, first
<1> HIDE DEF p
<1>5. CASE p # NULL
  <2>1. p \in DOMAIN K /\ K[p].free /\ n <= K[p].end - p
    BY <1>3, <1>5
  <2>2. PICK L2 : Allots(K, m, L2, Place(m, p, n), brk, p, n)
    BY <1>1, <2>1, Places, Zenon
  <2>3. Allots(L, h.mem, L2, Place(m, p, n), brk, p, n)
    BY <1>1, <2>2, AllotsThrough
  <2>4. r.h = [h EXCEPT !.mem = Place(m, p, n)] /\ r.p = p
    BY <1>4, <1>5, SMTT(30)
  <2>5. Place(m, p, n) \in Mem
    BY <2>3 DEF Allots, Tagged
  <2>6. r.h \in HeapT /\ r.h.mem = Place(m, p, n) /\ r.h.brk = brk
    BY <2>4, <2>5 DEF HeapT
  <2>7. r.p \in DOMAIN L => L[r.p].free
    BY <1>1, <2>1, <2>4 DEF Coarsens
  <2> QED
    BY <1>a, <2>3, <2>4, <2>6, <2>7
<1>6. CASE p = NULL
  <2> DEFINE g == [h EXCEPT !.mem = m]
             m1 == PutBoth(m, brk, n, 1)
             m2 == [m1 EXCEPT ![brk + n - 1] = EndMark]
  <2>1. g.mem = m /\ g.brk = brk /\ g \in HeapT
    BY <1>b DEF HeapT
  <2>2. r = Extend(g, n)
    BY <1>4, <1>6
  <2>3. ~MemSbrkFails(g, n)
    BY <2>2 DEF Extend
  <2>4. brk + n <= MaxHeap
    BY <1>a, <2>1, <2>3, MmHeapAssumption DEF MemSbrkFails
  <2>5. r.p = brk /\ r.h = [g EXCEPT !.mem = m2, !.brk = brk + n]
    BY <2>1, <2>2, <2>3 DEF Extend
  <2>6. PICK L2 : Allots(K, m, L2, m2, brk + n, brk, n) /\ brk \notin DOMAIN K
    BY <1>1, <2>4, Extends
  <2>7. Allots(L, h.mem, L2, m2, brk + n, brk, n)
    BY <1>1, <2>6, AllotsThrough
  <2>8. m2 \in Mem
    BY <2>7, Zenon DEF Allots, Tagged
  <2> HIDE DEF m2
  <2>9. r.h \in HeapT /\ r.h.mem = m2 /\ r.h.brk = brk + n
    <3>1. brk + n \in Nat
      BY <1>a
    <3> HIDE DEF g, brk
    <3> QED
      BY <2>1, <2>5, <2>8, <3>1, Zenon DEF HeapT
  <2>10. r.p \notin DOMAIN L
    BY <2>5, Bounds, SMTT(30)
  <2>11. ASSUME wanted PROVE NoRun(L, brk, n)
    <3>1. first = NULL
      BY <1>2, <1>6
    <3>2. Compact(K) /\ \A q \in DOMAIN K : K[q].free => K[q].end - q < n
      BY <1>1, <1>3, <1>6, <2>11, <3>1, ZenonT(40)
    <3> SUFFICES ASSUME NEW x \in DOMAIN L, NEW e \in DOMAIN L \cup {brk},
                        \A q \in DOMAIN L : x <= q /\ q < e => L[q].free
                 PROVE  e - x < n
      BY DEF NoRun
    <3>3. 1 <= n
      OBVIOUS
    <3> QED
      BY <1>1, <3>2, <3>3, RunsFit, SMTT(60)
  <2> QED
    BY <2>5, <2>7, <2>9, <2>10, <2>11
<1> QED
  BY <1>5, <1>6
-----------------------------------------------------------------------------
(* The invariant.                                                          *)

BlockT == [p : Nat, size : Nat, fill : Nat]

\* The client's block b lies in an allocated block, and its payload is as written.
Holds(L, m, b) ==
    /\ b.p \in DOMAIN L /\ ~L[b.p].free /\ Words(b.size) + 2 <= L[b.p].end - b.p
    /\ \A w \in Payload(b) : m[w] = -b.fill

\* The allocated blocks are the client's, one each.
Held(L, m, bs) ==
    /\ bs \subseteq BlockT /\ \A b \in bs : Holds(L, m, b)
    /\ \A b, c \in bs : b.p = c.p => b = c
    /\ \A q \in DOMAIN L : ~L[q].free => \E b \in bs : b.p = q

Describes(L, h) == Layout(L, h.brk) /\ Tagged(h.mem, h.brk, L)

HInv == heap \in HeapT /\ \E L : Describes(L, heap) /\ Held(L, heap.mem, live)

\* Sizes in words.
LEMMA WordsFacts ==
    ASSUME NEW size \in Nat
    PROVE  /\ Words(size) \in Nat /\ NewSize(size) = Words(size) + 2 /\ NewSize(size) \in Nat
           /\ size > 0 => 1 <= Words(size)
BY DEF Words, NewSize

\* The words of a payload, between the tags of its block.
LEMMA PayloadInside ==
    ASSUME NEW L, NEW brk, Layout(L, brk), NEW b \in BlockT, b.p \in DOMAIN L,
           Words(b.size) + 2 <= L[b.p].end - b.p
    PROVE  /\ \A w \in Payload(b) : w \in Addresses /\ b.p <= w /\ w <= L[b.p].end - 3
           /\ \A w \in Payload(b) : w \in b.p - 1 .. L[b.p].end - 2
<1>1. b.p \in Nat /\ b.size \in Nat /\ Words(b.size) \in Nat
  BY WordsFacts DEF BlockT
<1>2. L[b.p].end \in Nat /\ L[b.p].end - 2 \in Addresses /\ b.p - 1 \in Addresses
  BY BlockFacts
<1> QED
  BY <1>1, <1>2, MmHeapAssumption DEF Payload, Addresses

\* A block of the client whose words stay.
LEMMA HoldsStill ==
    ASSUME NEW L, NEW brk, Layout(L, brk), NEW m, NEW b \in BlockT, Holds(L, m, b), NEW L2, NEW m2,
           b.p \in DOMAIN L2, L2[b.p] = L[b.p], \A w \in b.p - 1 .. L[b.p].end - 2 : m2[w] = m[w]
    PROVE  Holds(L2, m2, b)
<1>1. \A w \in Payload(b) : w \in b.p - 1 .. L[b.p].end - 2
  BY PayloadInside, SMTT(30) DEF Holds
<1> QED
  BY <1>1, SMTT(30) DEF Holds

\* m2 is m but for the words between the tags of block p.
WrittenInside(L, p, m, m2) == \A w \in Addresses : w < p \/ L[p].end - 3 < w => m2[w] = m[w]

\* Writing between the tags of an allocated block.
LEMMA WritesInside ==
    ASSUME NEW L, NEW brk, Layout(L, brk), NEW m, Tagged(m, brk, L), NEW p \in DOMAIN L, ~L[p].free,
           NEW m2 \in Mem, WrittenInside(L, p, m, m2)
    PROVE  Tagged(m2, brk, L) /\ OthersKeep(L, p, m, m2)
<1> DEFINE e == L[p].end
<1>a. /\ p \in Nat /\ e \in Nat /\ p + 3 <= e /\ p - 1 \in Addresses /\ e - 2 \in Addresses
      /\ e <= brk /\ brk \in Nat /\ brk - 1 \in Addresses
  BY BlockFacts, MmHeapAssumption, SMTT(30) DEF Layout, Addresses
<1>0. \A w \in Addresses : w < p \/ e - 3 < w => m2[w] = m[w]
  BY Zenon DEF WrittenInside
<1>1. \A w \in Addresses : w < p - 1 \/ e - 2 < w => m2[w] = m[w]
  BY <1>0, <1>a, MmHeapAssumption, SMTT(60) DEF Addresses
<1>2. m2[p - 1] = m[p - 1] /\ m2[e - 2] = m[e - 2] /\ m2[brk - 1] = m[brk - 1]
  <2>1. p - 1 < p /\ e - 3 < e - 2 /\ e - 3 < brk - 1
    BY <1>a, SMTT(30)
  <2> QED
    BY <1>0, <1>a, <2>1, ZenonT(40)
<1>3. Tags(m2, p, L[p])
  BY <1>2, SMTT(30) DEF Tagged, Tags
<1>4. \A q \in DOMAIN L : q # p => e - 2 < q - 1 \/ L[q].end - 2 < p - 1
  BY WordsApart, SMTT(30)
<1>5. Tagged(m2, brk, L)
  <2>1. m2[brk - 1] = EndMark /\ p - 1 \in Int /\ e - 2 \in Int
    BY <1>2, <1>a DEF Tagged
  <2>2. \A q \in DOMAIN L : \/ Tags(m2, q, L[q])
                            \/ q \in DOMAIN L /\ L[q] = L[q] /\ (e - 2 < q - 1 \/ L[q].end - 2 < p - 1)
    BY <1>3, <1>4
  <2> HIDE DEF e
  <2> QED
    BY <1>1, <2>1, <2>2, Retag, SMTT(30)
<1>6. \A q \in DOMAIN L : q # p => \A w \in q - 1 .. L[q].end - 2 : m2[w] = m[w]
  BY <1>1, OthersStay
<1> QED
  BY <1>5, <1>6 DEF OthersKeep

\* What the client gets from a call: block b of heap r.h, of which it knows the words
\* before number kept, apart from its other blocks.
Gets(L, h, b, kept, others) ==
    /\ h \in HeapT /\ Describes(L, h) /\ b \in BlockT /\ kept \in Nat
    /\ b.p \in DOMAIN L /\ ~L[b.p].free /\ Words(b.size) + 2 <= L[b.p].end - b.p
    /\ \A w \in Payload(b) : w < b.p + kept => h.mem[w] = -b.fill
    /\ others \subseteq BlockT /\ \A c \in others : Holds(L, h.mem, c) /\ c.p # b.p
    /\ \A c, d \in others : c.p = d.p => c = d
    /\ \A q \in DOMAIN L : ~L[q].free => q = b.p \/ \E c \in others : c.p = q

\* The client fills the block that it has got.
LEMMA TakeKeeps ==
    ASSUME NEW L, NEW r, NEW b, NEW kept, NEW others,
           Gets(L, r.h, b, kept, others), Take(r, b, kept, others)
    PROVE  HInv'
<1> DEFINE m == r.h.mem
           m2 == [w \in DOMAIN m |-> IF w \in Payload(b) /\ w >= b.p + kept THEN -b.fill ELSE m[w]]
<1>a. /\ r.h \in HeapT /\ Layout(L, r.h.brk) /\ Tagged(m, r.h.brk, L) /\ b \in BlockT
      /\ b.p \in Nat /\ b.fill \in Nat /\ kept \in Nat /\ m \in Mem
  BY DEF Gets, Describes, BlockT, HeapT
<1>1. /\ heap' = [r.h EXCEPT !.mem = m2] /\ live' = others \cup {b}
  BY SMTT(30) DEF Take
<1>2. DOMAIN m = Addresses
  BY <1>a, SMTT(30) DEF Mem
<1>3. m2 \in Mem /\ \A w \in Addresses :
                      m2[w] = IF w \in Payload(b) /\ w >= b.p + kept THEN -b.fill ELSE m[w]
  BY <1>2, <1>a DEF Mem
<1> HIDE DEF m2
<1>4. heap' \in HeapT /\ heap'.mem = m2 /\ heap'.brk = r.h.brk
  BY <1>a, <1>1, <1>3 DEF HeapT
<1>5. \A w \in Payload(b) : w \in Addresses /\ b.p <= w /\ w <= L[b.p].end - 3
  BY <1>a, PayloadInside, ZenonT(40) DEF Gets
<1>6. /\ Tagged(m2, r.h.brk, L)
      /\ \A q \in DOMAIN L : q # b.p => \A w \in q - 1 .. L[q].end - 2 : m2[w] = m[w]
  <2>1. b.p \in DOMAIN L /\ ~L[b.p].free
    BY Zenon DEF Gets
  <2>2. L[b.p].end \in Nat
    BY <1>a, <2>1, BlockFacts, ZenonT(40)
  <2>3. \A w \in Addresses : w < b.p \/ L[b.p].end - 3 < w => w \notin Payload(b)
    BY <1>5, <1>a, <2>2, SMTT(60) DEF Addresses
  <2>4. \A w \in Addresses : w < b.p \/ L[b.p].end - 3 < w => m2[w] = m[w]
    BY <1>3, <2>3, SMTT(30)
  <2>5. Layout(L, r.h.brk) /\ Tagged(m, r.h.brk, L) /\ m2 \in Mem
    BY <1>a, <1>3
  <2>6. PICK m0, bk, p : m0 = m /\ bk = r.h.brk /\ p = b.p
    BY SMTT(30)
  <2>7. /\ Layout(L, bk) /\ Tagged(m0, bk, L) /\ p \in DOMAIN L /\ ~L[p].free /\ m2 \in Mem
        /\ WrittenInside(L, p, m0, m2)
    BY <2>1, <2>4, <2>5, <2>6, SMTT(30) DEF WrittenInside
  <2>8. Tagged(m2, bk, L) /\ OthersKeep(L, p, m0, m2)
    BY ONLY <2>7, WritesInside
  <2> QED
    BY <2>6, <2>8 DEF OthersKeep
<1>7. Holds(L, m2, b)
  <2>1. ASSUME NEW w \in Payload(b) PROVE m2[w] = -b.fill
    <3>1. w \in Addresses /\ w \in Int
      BY <1>5 DEF Addresses
    <3>2. CASE w >= b.p + kept
      BY <1>3, <3>1, <3>2, SMTT(30)
    <3>3. CASE ~(w >= b.p + kept)
      <4>1. w < b.p + kept
        BY <1>a, <3>1, <3>3
      <4> QED
        BY <1>3, <3>1, <3>3, <4>1 DEF Gets
    <3> QED
      BY <3>2, <3>3
  <2> QED
    BY <2>1, Zenon DEF Holds, Gets
<1>8. ASSUME NEW c \in others PROVE Holds(L, m2, c) /\ c \in BlockT /\ c.p # b.p
  <2>1. Holds(L, m, c) /\ c.p # b.p /\ c \in BlockT
    BY SMTT(30) DEF Gets
  <2>2. c.p \in DOMAIN L
    BY <2>1, SMTT(30) DEF Holds
  <2>3. \A w \in c.p - 1 .. L[c.p].end - 2 : m2[w] = m[w]
    BY <1>6, <2>1, <2>2, SMTT(30)
  <2> HIDE DEF m
  <2> QED
    BY <1>a, <2>1, <2>2, <2>3, HoldsStill, ZenonT(40)
<1>9. Held(L, m2, others \cup {b})
  <2>1. others \cup {b} \subseteq BlockT /\ \A c \in others \cup {b} : Holds(L, m2, c)
    BY <1>a, <1>7, <1>8, SMTT(30)
  <2>2. \A c, d \in others \cup {b} : c.p = d.p => c = d
    BY <1>8, SMTT(30) DEF Gets
  <2>3. \A q \in DOMAIN L : ~L[q].free => \E c \in others \cup {b} : c.p = q
    BY DEF Gets
  <2> QED
    BY <2>1, <2>2, <2>3 DEF Held
<1>10. Describes(L, heap') /\ Held(L, heap'.mem, live')
  BY <1>a, <1>1, <1>4, <1>6, <1>9 DEF Describes
<1> QED
  BY <1>4, <1>10, SMTT(30) DEF HInv
-----------------------------------------------------------------------------
(* The steps.                                                              *)

\* The heap after mm_init: no block, the end mark alone.
LEMMA InitHInv == ClientInit => HInv
<1> SUFFICES ASSUME ClientInit PROVE HInv
  OBVIOUS
<1> DEFINE L == [q \in {} |-> [end |-> 0, free |-> TRUE]]
           z == [w \in 0 .. MaxHeap - 1 |-> 0]
           m == [z EXCEPT ![0] = EndMark]
<1>1. heap = [mem |-> m, brk |-> 1, total |-> 0] /\ live = {}
  <2>1. PICK e : e = [mem |-> z, brk |-> 0, total |-> 0]
    BY Zenon
  <2>2. heap = [e EXCEPT !.mem = [e.mem EXCEPT ![e.brk] = EndMark], !.brk = e.brk + 1] /\ live = {}
    BY <2>1 DEF ClientInit, MmInit, EmptyHeap
  <2>3. e.mem = z /\ e.brk = 0 /\ e.brk + 1 = 1
    BY <2>1
  <2> HIDE DEF z
  <2>4. heap = [e EXCEPT !.mem = m, !.brk = 1]
    BY <2>2, <2>3
  <2> HIDE DEF m
  <2>5. [e EXCEPT !.mem = m] = [mem |-> m, brk |-> 0, total |-> 0]
    BY <2>1
  <2> QED
    BY <2>2, <2>4, <2>5, Zenon
<1>2. m \in Mem /\ m[0] = EndMark
  BY MmHeapAssumption, TagFacts DEF Mem, Addresses
<1> HIDE DEF m
<1>3. heap \in HeapT /\ heap.brk = 1 /\ heap.mem = m
  BY <1>1, <1>2 DEF HeapT
<1>4. Layout(L, 1)
  BY MmHeapAssumption DEF Layout, First
<1>5. Tagged(m, 1, L)
  BY <1>2 DEF Tagged
<1>6. Held(L, m, live)
  BY <1>1 DEF Held
<1>7. \E K : Describes(K, heap) /\ Held(K, heap.mem, live)
  BY <1>3, <1>4, <1>5, <1>6, SMTT(30) DEF Describes
<1> QED
  BY <1>3, <1>7 DEF HInv

\* A block handed out beside the client's blocks: they stay.
LEMMA OthersHeld ==
    ASSUME NEW L, NEW brk, Layout(L, brk), NEW m, NEW L2, NEW m2, NEW brk2, NEW p, NEW n,
           Allots(L, m, L2, m2, brk2, p, n), NEW c \in BlockT, Holds(L, m, c), c.p # p
    PROVE  Holds(L2, m2, c)
<1>1. c.p \in DOMAIN L /\ ~L[c.p].free
  BY SMTT(30) DEF Holds
<1>2. c.p \in DOMAIN L2 /\ L2[c.p] = L[c.p] /\ \A w \in c.p - 1 .. L[c.p].end - 2 : m2[w] = m[w]
  BY <1>1 DEF Allots
<1> QED
  BY <1>2, HoldsStill, SMTT(30)

\* mm_malloc.
LEMMA MallocKeeps ==
    ASSUME HInv, NEW size \in Nat, NEW fill \in Nat, Malloc(size, fill)
    PROVE  HInv'
<1> DEFINE n == NewSize(size)
           wanted == heap.total >= n
<1>1. PICK r : r = MmMalloc(heap, size)
  OBVIOUS
<1>2. CASE r.p = Wild
  <2>1. UNCHANGED <<heap, live>>
    BY <1>1, <1>2 DEF Malloc, Crash
  <2> QED
    BY <2>1 DEF HInv
<1>3. CASE r.p # Wild
  <2> DEFINE b == [p |-> r.p, size |-> size, fill |-> fill]
  <2>1. Take(r, b, 0, live) /\ size > 0
    BY <1>1, <1>3 DEF Malloc
  <2>2. r = FitOrExtend(heap, n, wanted)
    BY <1>1, <2>1 DEF MmMalloc
  <2>3. PICK L : Describes(L, heap) /\ Held(L, heap.mem, live)
    BY DEF HInv
  <2>4. n \in Nat /\ n = Words(size) + 2 /\ 3 <= n /\ wanted \in BOOLEAN /\ heap \in HeapT
    BY <2>1, WordsFacts DEF HInv
  <2> HIDE DEF n, wanted
  <2>5. /\ r.h \in HeapT
        /\ r.p \in DOMAIN L => L[r.p].free
        /\ \E L2 : Allots(L, heap.mem, L2, r.h.mem, r.h.brk, r.p, n)
    BY <1>3, <2>2, <2>3, <2>4, FitsOrExtends, ZenonT(40) DEF Describes
  <2>6. PICK L2 : Allots(L, heap.mem, L2, r.h.mem, r.h.brk, r.p, n)
    BY <2>5, SMTT(30)
  <2>7. /\ Layout(L2, r.h.brk) /\ Tagged(r.h.mem, r.h.brk, L2) /\ r.p \in DOMAIN L2
        /\ ~L2[r.p].free /\ n <= L2[r.p].end - r.p
    BY <2>6, SMTT(30) DEF Allots
  <2>8. r.p \in Nat
    BY <2>7, BlockFacts
  <2>9. b \in BlockT /\ b.p = r.p /\ b.size = size
    BY <2>8, SMTT(30) DEF BlockT
  <2>10. ASSUME NEW c \in live PROVE Holds(L2, r.h.mem, c) /\ c.p # b.p
    <3>1. c \in BlockT /\ Holds(L, heap.mem, c)
      BY <2>3, SMTT(30) DEF Held
    <3>2. c.p # r.p
      BY <2>5, <3>1 DEF Holds
    <3>3. Holds(L2, r.h.mem, c)
      <4>1. PICK m, bk, m2, bk2, p :
                m = heap.mem /\ bk = heap.brk /\ m2 = r.h.mem /\ bk2 = r.h.brk /\ p = r.p
        OBVIOUS
      <4>2. Layout(L, bk) /\ Allots(L, m, L2, m2, bk2, p, n) /\ Holds(L, m, c) /\ c.p # p
        BY <2>3, <2>6, <3>1, <3>2, <4>1, ZenonT(40) DEF Describes
      <4>3. Holds(L2, m2, c)
        BY <3>1, <4>2, OthersHeld
      <4> QED
        BY <4>1, <4>3
    <3> QED
      BY <2>9, <3>2, <3>3
  <2>11. \A w \in Payload(b) : ~(w < b.p + 0)
    BY <2>8, <2>9, WordsFacts DEF Payload
  <2>12. \A q \in DOMAIN L2 : ~L2[q].free => q = b.p \/ \E c \in live : c.p = q
    <3> SUFFICES ASSUME NEW q \in DOMAIN L2, ~L2[q].free, q # r.p PROVE \E c \in live : c.p = q
      BY <2>9, SMTT(30)
    <3>1. q \in DOMAIN L /\ ~L[q].free
      BY <2>6 DEF Allots
    <3> QED
      BY <2>3, <3>1, SMTT(30) DEF Held
  <2>13. Gets(L2, r.h, b, 0, live)
    <3>1. live \subseteq BlockT /\ \A c, d \in live : c.p = d.p => c = d
      BY <2>3, SMTT(30) DEF Held
    <3>2. Words(b.size) + 2 <= L2[b.p].end - b.p /\ b.p \in DOMAIN L2 /\ ~L2[b.p].free
      BY <2>4, <2>7, <2>9
    <3> HIDE DEF b
    <3> QED
      BY <2>5, <2>7, <2>9, <2>10, <2>11, <2>12, <3>1, <3>2, ZenonT(40) DEF Gets, Describes
  <2> HIDE DEF b
  <2> QED
    BY <2>1, <2>13, TakeKeeps
<1> QED
  BY <1>2, <1>3

\* mm_free.
LEMMA FreeKeeps ==
    ASSUME HInv, NEW b \in live, Free(b)
    PROVE  HInv'
<1>1. PICK L : Describes(L, heap) /\ Held(L, heap.mem, live)
  BY DEF HInv
<1>a. PICK m, brk, p : m = heap.mem /\ brk = heap.brk /\ p = b.p
  OBVIOUS
<1> DEFINE size == SizeAt(m, p)
           m2 == PutBoth(m, p, size, 0)
           L2 == Marked(L, p, TRUE)
<1>2. /\ Layout(L, brk) /\ Tagged(m, brk, L) /\ b \in BlockT /\ Holds(L, m, b) /\ heap \in HeapT
      /\ p \in DOMAIN L /\ ~L[p].free
  BY <1>1, <1>a, Zenon DEF Describes, Held, Holds, HInv
<1>3. p # NULL /\ p \in Nat /\ size \in Int
  <2>1. p \in Nat /\ 1 <= p /\ L[p].end - p \in Nat
    BY <1>2, BlockFacts
  <2>2. size = L[p].end - p
    BY <1>2, HeaderReads, Zenon DEF Tagged, Tags
  <2> QED
    BY <2>1, <2>2, SMTT(30) DEF NULL
<1>4. heap' = [heap EXCEPT !.total = heap.total + size, !.mem = m2] /\ live' = live \ {b}
  BY <1>3, <1>a DEF Free, MmFree
<1>5. /\ Tagged(m2, brk, L2)
      /\ OthersKeep(L, p, m, m2)
  <2>1. Layout(L, brk) /\ Tagged(m, brk, L) /\ p \in DOMAIN L
    BY <1>2
  <2> QED
    BY <2>1, Frees, Zenon
<1>6. Layout(L2, brk)
  BY <1>2, MarkedLayout, Zenon
<1>7. /\ DOMAIN L2 = DOMAIN L /\ L2[p] = [end |-> L[p].end, free |-> TRUE]
      /\ \A q \in DOMAIN L : q # p => L2[q] = L[q]
  BY <1>2, Zenon DEF Marked
<1>8. m2 \in Mem
  BY <1>5 DEF Tagged
<1> HIDE DEF size, m2, L2
<1>9. heap' \in HeapT /\ heap'.mem = m2 /\ heap'.brk = brk
  <2>1. heap.total + size \in Int
    BY <1>2, <1>3 DEF HeapT
  <2> QED
    BY <1>2, <1>4, <1>8, <1>a, <2>1, ZenonT(40) DEF HeapT
<1>10. ASSUME NEW c \in live \ {b} PROVE Holds(L2, m2, c) /\ c \in BlockT
  <2>1. c \in BlockT /\ Holds(L, m, c) /\ c.p # p /\ c.p \in DOMAIN L
    BY <1>1, <1>a, SMTT(30) DEF Held, Holds
  <2>2. c.p \in DOMAIN L2 /\ L2[c.p] = L[c.p] /\ \A w \in c.p - 1 .. L[c.p].end - 2 : m2[w] = m[w]
    BY <1>5, <1>7, <2>1, SMTT(30) DEF OthersKeep
  <2> QED
    BY <1>2, <2>1, <2>2, HoldsStill, ZenonT(40)
<1>11. Held(L2, m2, live \ {b})
  <2>1. live \ {b} \subseteq BlockT /\ \A c \in live \ {b} : Holds(L2, m2, c)
    BY <1>10
  <2>2. \A c, d \in live \ {b} : c.p = d.p => c = d
    BY <1>1, SMTT(30) DEF Held
  <2>3. ASSUME NEW q \in DOMAIN L2, ~L2[q].free PROVE \E c \in live \ {b} : c.p = q
    <3>0. L2[p].free /\ DOMAIN L2 = DOMAIN L /\ (q # p => L2[q] = L[q])
      BY <1>7
    <3>1. q # p /\ q \in DOMAIN L /\ ~L[q].free
      BY <2>3, <3>0
    <3> QED
      BY <1>1, <1>a, <3>1, SMTT(30) DEF Held
  <2> QED
    BY <2>1, <2>2, <2>3 DEF Held
<1>12. Describes(L2, heap') /\ Held(L2, heap'.mem, live')
  BY <1>4, <1>5, <1>6, <1>9, <1>11 DEF Describes
<1> QED
  BY <1>9, <1>12 DEF HInv

\* mm_realloc to a size that the block has room for.
LEMMA ReallocInPlace ==
    ASSUME HInv, NEW b \in live, NEW size \in Nat, size > 0, NewSize(size) <= SizeAt(heap.mem, b.p),
           NEW r, r = MmRealloc(heap, b.p, size), NEW c, c = [b EXCEPT !.p = r.p, !.size = size]
    PROVE  \E L : Gets(L, r.h, c, Words(b.size), live \ {b})
<1>1. PICK L : Describes(L, heap) /\ Held(L, heap.mem, live)
  BY DEF HInv
<1>a. PICK m, brk, p, n : m = heap.mem /\ brk = heap.brk /\ p = b.p /\ n = NewSize(size)
  OBVIOUS
<1>2. /\ Layout(L, brk) /\ Tagged(m, brk, L) /\ b \in BlockT /\ Holds(L, m, b) /\ heap \in HeapT
      /\ p \in DOMAIN L /\ ~L[p].free
  BY <1>1, <1>a DEF Describes, Held, Holds, HInv
<1>3. p # NULL /\ p \in Nat /\ SizeAt(m, p) \in Nat /\ SizeAt(m, p) = L[p].end - p
  <2>1. p \in Nat /\ 1 <= p /\ L[p].end - p \in Nat
    BY <1>2, BlockFacts
  <2>2. SizeAt(m, p) = L[p].end - p
    BY <1>2, HeaderReads DEF Tagged, Tags
  <2> QED
    BY <2>1, <2>2 DEF NULL
<1>4. n \in Nat /\ n = Words(size) + 2 /\ 3 <= n /\ n <= SizeAt(m, p) /\ Words(size) \in Nat
  BY <1>a, WordsFacts
<1>5. /\ r.p = p /\ r.h \in HeapT /\ r.h.brk = brk
      /\ \E L2 : /\ Allots(L, m, L2, r.h.mem, brk, p, n)
                 /\ \A w \in p .. p + n - 3 : r.h.mem[w] = m[w]
  <2>1. CASE SizeAt(m, p) = n
    <3>1. r = [h |-> heap, p |-> p]
      BY <1>3, <1>a, <2>1 DEF MmRealloc
    <3>2. Allots(L, m, L, m, brk, p, n)
      BY <1>2, <1>3, <1>4 DEF Allots
    <3> QED
      BY <1>2, <1>a, <3>1, <3>2
  <2>2. CASE SizeAt(m, p) > n
    <3> DEFINE m2 == Place(m, p, n)
    <3>1. r = [h |-> [heap EXCEPT !.mem = m2], p |-> p]
      BY <1>3, <1>4, <1>a, <2>2 DEF MmRealloc
    <3>2. \E L2 : /\ Allots(L, m, L2, m2, brk, p, n)
                  /\ \A w \in p .. p + n - 3 : m2[w] = m[w]
      <4>1. Layout(L, brk) /\ Tagged(m, brk, L) /\ p \in DOMAIN L /\ n \in Nat /\ 3 <= n /\ n <= L[p].end - p
        BY <1>2, <1>3, <1>4
      <4> QED
        BY <4>1, Places
    <3>3. m2 \in Mem
      BY <3>2 DEF Allots, Tagged
    <3> HIDE DEF m2
    <3>4. r.h \in HeapT /\ r.h.brk = brk /\ r.h.mem = m2 /\ r.p = p
      BY <1>2, <1>a, <3>1, <3>3 DEF HeapT
    <3> QED
      BY <3>2, <3>4
  <2> QED
    BY <1>3, <1>4, <2>1, <2>2
<1>6. PICK L2 : /\ Allots(L, m, L2, r.h.mem, brk, p, n)
                /\ \A w \in p .. p + n - 3 : r.h.mem[w] = m[w]
  BY <1>5
<1>7. /\ c \in BlockT /\ c.p = p /\ c.size = size /\ c.fill = b.fill
      /\ b.size \in Nat /\ Words(b.size) \in Nat
  BY <1>2, <1>3, <1>5, WordsFacts, Zenon DEF BlockT
<1>8. /\ Layout(L2, brk) /\ Tagged(r.h.mem, brk, L2) /\ p \in DOMAIN L2
      /\ ~L2[p].free /\ n <= L2[p].end - p
  BY <1>6 DEF Allots
<1>9. ASSUME NEW w \in Payload(c), w < c.p + Words(b.size) PROVE r.h.mem[w] = -c.fill
  <2>1. w \in p .. p + n - 3 /\ w \in Payload(b)
    BY <1>3, <1>4, <1>7, <1>9, <1>a DEF Payload
  <2> QED
    BY <1>2, <1>6, <1>7, <2>1 DEF Holds
<1>10. ASSUME NEW d \in live \ {b} PROVE Holds(L2, r.h.mem, d) /\ d.p # c.p /\ d \in BlockT
  <2>1. d \in BlockT /\ Holds(L, m, d) /\ d.p # p
    BY <1>1, <1>a DEF Held
  <2>2. Holds(L2, r.h.mem, d)
    BY <1>2, <1>6, <2>1, OthersHeld
  <2> QED
    BY <1>7, <2>1, <2>2
<1>11. ASSUME NEW q \in DOMAIN L2, ~L2[q].free, q # c.p PROVE \E d \in live \ {b} : d.p = q
  <2>1. q # p /\ q \in DOMAIN L /\ ~L[q].free
    BY <1>6, <1>7, <1>11 DEF Allots
  <2> QED
    BY <1>1, <1>a, <2>1 DEF Held
<1>12. Gets(L2, r.h, c, Words(b.size), live \ {b})
  <2>1. live \ {b} \subseteq BlockT /\ \A d, e \in live \ {b} : d.p = e.p => d = e
    BY <1>1, <1>10 DEF Held
  <2>2. Words(c.size) + 2 <= L2[c.p].end - c.p /\ c.p \in DOMAIN L2 /\ ~L2[c.p].free
    BY <1>4, <1>7, <1>8
  <2>3. r.h \in HeapT /\ Describes(L2, r.h)
    BY <1>5, <1>8 DEF Describes
  <2> QED
    BY <1>7, <1>9, <1>10, <1>11, <2>1, <2>2, <2>3 DEF Gets
<1> QED
  BY <1>12

\* The payload of block p is copied to block t, and block p is freed.
Copied(m1, t, p, words) ==
    LET m3 == Memcpy(m1, t, p, words) IN PutBoth(m3, p, SizeAt(m3, p), 0)

Moved(L, p, t, m, m4) ==
    /\ \A i \in 0 .. L[p].end - p - 3 : m4[t + i] = m[p + i]
    /\ \A q \in DOMAIN L : q # p /\ q # t => \A w \in q - 1 .. L[q].end - 2 : m4[w] = m[w]

\* What the copy and the call of mm_free leave of a heap in which t has just been
\* handed out beside p.
LEMMA Copies ==
    ASSUME NEW L, NEW brk, Layout(L, brk), NEW m, Tagged(m, brk, L),
           NEW p \in DOMAIN L, ~L[p].free, NEW t \in DOMAIN L, ~L[t].free, t # p,
           L[p].end - p <= L[t].end - t,
           NEW m4, m4 = Copied(m, t, p, L[p].end - p - 2)
    PROVE  /\ Tagged(m4, brk, Marked(L, p, TRUE))
           /\ Moved(L, p, t, m, m4)
           /\ SizeAt(Memcpy(m, t, p, L[p].end - p - 2), p) = L[p].end - p
<1> DEFINE old == L[p].end - p
           m3 == Memcpy(m, t, p, old - 2)
<1>a. /\ p \in Nat /\ L[p].end \in Nat /\ p + 3 <= L[p].end /\ p - 1 \in Addresses
      /\ L[p].end - 2 \in Addresses /\ old \in Nat /\ m \in Mem
  BY BlockFacts, ZenonT(40) DEF Tagged
<1>b. /\ t \in Nat /\ L[t].end \in Nat /\ t + 3 <= L[t].end /\ t - 1 \in Addresses
      /\ L[t].end - 2 \in Addresses
  BY BlockFacts, SMTT(30)
<1>1. DOMAIN m = Addresses /\ \A w \in Addresses : m[w] \in Int
  BY <1>a, SMTT(30) DEF Mem
<1>2. \A w \in Addresses : w \in t .. t + (old - 2) - 1 => p + (w - t) \in Addresses
  BY <1>a, <1>b, MmHeapAssumption, SMTT(30) DEF Addresses
<1>3. /\ m3 \in Mem
      /\ \A w \in Addresses :
            m3[w] = IF w \in t .. t + (old - 2) - 1 THEN m[p + (w - t)] ELSE m[w]
  <2>1. m3 = [w \in Addresses |-> IF w \in t .. t + (old - 2) - 1 THEN m[p + (w - t)] ELSE m[w]]
    BY <1>1, SMTT(30) DEF Memcpy
  <2> HIDE DEF m3, old
  <2> QED
    BY <1>1, <1>2, <2>1, SMTT(30) DEF Mem
<1>4. m4 = PutBoth(m3, p, SizeAt(m3, p), 0)
  BY SMTT(30) DEF Copied
<1> HIDE DEF m3
<1>5. WrittenInside(L, t, m, m3)
  BY <1>3, <1>a, <1>b, SMTT(30) DEF Addresses, WrittenInside
<1>6. Tagged(m3, brk, L) /\ \A q \in DOMAIN L : q # t => \A w \in q - 1 .. L[q].end - 2 : m3[w] = m[w]
  <2>1. m3 \in Mem
    BY <1>3
  <2> HIDE DEF old
  <2> QED
    BY <1>5, <2>1, WritesInside, SMTT(30) DEF OthersKeep
<1>7. Tagged(m4, brk, Marked(L, p, TRUE)) /\ OthersKeep(L, p, m3, m4)
  BY <1>4, <1>6, Frees, ZenonT(40)
<1>8. ASSUME NEW i \in 0 .. old - 3 PROVE m4[t + i] = m[p + i]
  <2>1. /\ t + i \in t - 1 .. L[t].end - 2 /\ t + i \in Addresses
        /\ t + i \in t .. t + (old - 2) - 1 /\ p + ((t + i) - t) = p + i
    BY <1>a, <1>b, MmHeapAssumption DEF Addresses
  <2>2. m4[t + i] = m3[t + i]
    BY <1>7, <2>1, ZenonT(40) DEF OthersKeep
  <2>3. m3[t + i] = m[p + ((t + i) - t)]
    BY <1>3, <2>1, ZenonT(40)
  <2> QED
    BY <2>1, <2>2, <2>3, SMTT(30)
<1>9. ASSUME NEW q \in DOMAIN L, q # p, q # t, NEW w \in q - 1 .. L[q].end - 2 PROVE m4[w] = m[w]
  BY <1>6, <1>7, <1>9 DEF OthersKeep
<1>10. SizeAt(m3, p) = L[p].end - p
  <2>1. m3[p - 1] = PACK(L[p].end - p, IF L[p].free THEN 0 ELSE 1)
    BY <1>6 DEF Tagged, Tags
  <2> QED
    BY <2>1, HeaderReads, ZenonT(40)
<1> QED
  BY <1>7, <1>8, <1>9, <1>10, ZenonT(40) DEF Moved, m3

\* mm_realloc to a size that needs another block.
LEMMA ReallocMoves ==
    ASSUME HInv, NEW b \in live, NEW size \in Nat, size > 0, SizeAt(heap.mem, b.p) < NewSize(size),
           NEW r, r = MmRealloc(heap, b.p, size), r.p # Wild,
           NEW c, c = [b EXCEPT !.p = r.p, !.size = size]
    PROVE  \E L : Gets(L, r.h, c, Words(b.size), live \ {b})
<1>1. PICK L : Describes(L, heap) /\ Held(L, heap.mem, live)
  BY DEF HInv
<1>a. PICK m, brk, p, n, old, wanted :
        /\ m = heap.mem /\ brk = heap.brk /\ p = b.p /\ n = NewSize(size) /\ old = SizeAt(heap.mem, b.p)
        /\ wanted = (heap.total > NewSize(size))
  OBVIOUS
<1>2. /\ Layout(L, brk) /\ Tagged(m, brk, L) /\ b \in BlockT /\ Holds(L, m, b) /\ heap \in HeapT
      /\ p \in DOMAIN L /\ ~L[p].free
  BY <1>1, <1>a DEF Describes, Held, Holds, HInv
<1>3. p # NULL /\ p \in Nat /\ old \in Nat /\ old = L[p].end - p /\ L[p].end \in Nat
  <2>1. p \in Nat /\ 1 <= p /\ L[p].end - p \in Nat /\ L[p].end \in Nat
    BY <1>2, BlockFacts
  <2>2. SizeAt(m, p) = L[p].end - p
    BY <1>2, HeaderReads DEF Tagged, Tags
  <2> QED
    BY <1>a, <2>1, <2>2 DEF NULL
<1>4. n \in Nat /\ n = Words(size) + 2 /\ 3 <= n /\ old < n /\ Words(size) \in Nat /\ wanted \in BOOLEAN
  BY <1>a, WordsFacts
<1>5. PICK s : s = FitOrExtend(heap, n, wanted)
  OBVIOUS
<1>6. r = MoveTo(s, p, old - 2)
  BY <1>3, <1>4, <1>5, <1>a DEF MmRealloc
<1>7. s.p # Wild
  BY <1>6 DEF MoveTo
<1>8. /\ s.h \in HeapT
      /\ s.p \in DOMAIN L => L[s.p].free
      /\ \E L2 : Allots(L, m, L2, s.h.mem, s.h.brk, s.p, n)
  <2>1. Layout(L, heap.brk) /\ Tagged(heap.mem, heap.brk, L)
    BY <1>2, <1>a
  <2> QED
    BY <1>2, <1>4, <1>5, <1>7, <1>a, <2>1, FitsOrExtends, Zenon
<1>b. PICK m1, brk1, t : m1 = s.h.mem /\ brk1 = s.h.brk /\ t = s.p
  OBVIOUS
<1>9. PICK L1 : Allots(L, m, L1, m1, brk1, t, n)
  BY <1>8, <1>b
<1>10. t # p
  BY <1>2, <1>8, <1>b
<1>11. /\ Layout(L1, brk1) /\ Tagged(m1, brk1, L1) /\ t \in DOMAIN L1 /\ ~L1[t].free /\ n <= L1[t].end - t
       /\ p \in DOMAIN L1 /\ L1[p] = L[p] /\ \A w \in p - 1 .. L[p].end - 2 : m1[w] = m[w]
  BY <1>2, <1>9, <1>10 DEF Allots
<1> DEFINE m4 == Copied(m1, t, p, old - 2)
           L2 == Marked(L1, p, TRUE)
<1>c. PICK m3, x : m3 = Memcpy(m1, t, p, old - 2) /\ x = s.h.total + SizeAt(Memcpy(m1, t, p, old - 2), p)
  OBVIOUS
<1>12. r.p = t /\ r.h = [mem |-> m4, brk |-> brk1, total |-> x]
  <2>1. PICK h : h = [s.h EXCEPT !.mem = m3]
    BY Zenon
  <2>2. r = [h |-> MmFree(h, p), p |-> t]
    BY <1>6, <1>7, <1>b, <1>c, <2>1 DEF MoveTo
  <2>3. h = [mem |-> m3, brk |-> brk1, total |-> s.h.total]
    BY <1>8, <1>b, <2>1 DEF HeapT
  <2>4. MmFree(h, p) = [h EXCEPT !.total = s.h.total + SizeAt(m3, p),
                                 !.mem = PutBoth(m3, p, SizeAt(m3, p), 0)]
    BY <1>3, <2>3 DEF MmFree
  <2>5. m4 = PutBoth(m3, p, SizeAt(m3, p), 0) /\ x = s.h.total + SizeAt(m3, p)
    BY <1>c DEF Copied
  <2> HIDE DEF m4
  <2>6. MmFree(h, p) = [mem |-> m4, brk |-> brk1, total |-> x]
    BY <2>3, <2>4, <2>5, Zenon
  <2> QED
    BY <2>2, <2>6
<1>13. /\ Tagged(m4, brk1, L2)
       /\ Moved(L1, p, t, m1, m4)
       /\ SizeAt(Memcpy(m1, t, p, L1[p].end - p - 2), p) = L1[p].end - p
  <2>1. /\ Layout(L1, brk1) /\ Tagged(m1, brk1, L1) /\ p \in DOMAIN L1 /\ ~L1[p].free
        /\ t \in DOMAIN L1 /\ ~L1[t].free /\ t # p
    BY <1>2, <1>10, <1>11
  <2>2. L1[p].end - p <= L1[t].end - t
    <3>1. L1[t].end \in Nat /\ t \in Nat
      BY <1>11, BlockFacts
    <3> QED
      BY <1>3, <1>4, <1>11, <3>1
  <2>3. m4 = Copied(m1, t, p, L1[p].end - p - 2)
    BY <1>3, <1>11
  <2> HIDE DEF m4
  <2> QED
    BY <2>1, <2>2, <2>3, Copies, Zenon
<1>14. Layout(L2, brk1)
  BY <1>11, MarkedLayout, Zenon
<1>15. /\ DOMAIN L2 = DOMAIN L1 /\ L2[p].free
       /\ \A q \in DOMAIN L1 : q # p => L2[q] = L1[q]
  BY <1>11 DEF Marked
<1> HIDE DEF m4, L2
<1>16. r.h \in HeapT /\ r.h.mem = m4 /\ r.h.brk = brk1
  <2>1. m4 \in Mem
    BY <1>13 DEF Tagged
  <2>2. s.h.total \in Int /\ brk1 \in Nat
    BY <1>8, <1>b DEF HeapT
  <2>3. SizeAt(m3, p) \in Int
    BY <1>3, <1>11, <1>13, <1>c
  <2> QED
    BY <1>12, <1>c, <2>1, <2>2, <2>3 DEF HeapT
<1>17. /\ c \in BlockT /\ c.p = t /\ c.size = size /\ c.fill = b.fill
       /\ b.size \in Nat /\ Words(b.size) \in Nat /\ t \in Nat /\ b.p = p
  <2>1. t \in Nat
    BY <1>11, BlockFacts
  <2> QED
    BY <1>2, <1>12, <1>a, <2>1, WordsFacts, Zenon DEF BlockT
<1>18. ASSUME NEW w \in Payload(c), w < c.p + Words(b.size) PROVE m4[w] = -c.fill
  <2>1. Words(b.size) + 2 <= old
    BY <1>2, <1>3, <1>17 DEF Holds
  <2>a. w \in t .. t + Words(size) - 1 /\ w < t + Words(b.size)
    BY <1>17, <1>18 DEF Payload
  <2>b. w - t \in 0 .. Words(b.size) - 1 /\ t + (w - t) = w
    BY <1>4, <1>17, <2>a
  <2>c. p + (w - t) \in Payload(b)
    BY <1>3, <1>17, <2>b DEF Payload
  <2>2. /\ w - t \in 0 .. L1[p].end - p - 3 /\ t + (w - t) = w
        /\ p + (w - t) \in p - 1 .. L[p].end - 2
    BY <1>3, <1>11, <1>17, <2>1, <2>b
  <2>3. m4[w] = m1[p + (w - t)]
    BY <1>13, <2>2 DEF Moved
  <2>4. m1[p + (w - t)] = m[p + (w - t)]
    BY <1>11, <2>2
  <2> QED
    BY <1>2, <1>17, <2>c, <2>3, <2>4 DEF Holds
<1>19. ASSUME NEW d \in live \ {b} PROVE Holds(L2, m4, d) /\ d.p # c.p /\ d \in BlockT
  <2>1. d \in BlockT /\ Holds(L, m, d) /\ d.p # p /\ d.p \in DOMAIN L /\ ~L[d.p].free
    BY <1>1, <1>a DEF Held, Holds
  <2>2. d.p # t
    BY <1>8, <1>b, <2>1
  <2>3. Holds(L1, m1, d)
    BY <1>2, <1>9, <2>1, <2>2, OthersHeld
  <2>4. d.p \in DOMAIN L1
    BY <2>3 DEF Holds
  <2>5. d.p \in DOMAIN L2 /\ L2[d.p] = L1[d.p] /\ \A w \in d.p - 1 .. L1[d.p].end - 2 : m4[w] = m1[w]
    BY <1>13, <1>15, <2>1, <2>2, <2>4 DEF Moved
  <2>6. Holds(L2, m4, d)
    BY <1>11, <2>1, <2>3, <2>5, HoldsStill
  <2> QED
    BY <1>17, <2>1, <2>2, <2>6
<1>20. ASSUME NEW q \in DOMAIN L2, ~L2[q].free, q # c.p PROVE \E d \in live \ {b} : d.p = q
  <2>1. q # p /\ q \in DOMAIN L /\ ~L[q].free
    BY <1>9, <1>15, <1>17, <1>20 DEF Allots
  <2> QED
    BY <1>1, <1>a, <2>1 DEF Held
<1>21. Gets(L2, r.h, c, Words(b.size), live \ {b})
  <2>1. live \ {b} \subseteq BlockT /\ \A d, e \in live \ {b} : d.p = e.p => d = e
    BY <1>1, <1>19 DEF Held
  <2>2. Words(c.size) + 2 <= L2[c.p].end - c.p /\ c.p \in DOMAIN L2 /\ ~L2[c.p].free
    BY <1>4, <1>10, <1>11, <1>15, <1>17
  <2>3. r.h \in HeapT /\ Describes(L2, r.h)
    BY <1>13, <1>14, <1>16 DEF Describes
  <2> QED
    BY <1>16, <1>17, <1>18, <1>19, <1>20, <2>1, <2>2, <2>3 DEF Gets
<1> QED
  BY <1>21

\* mm_realloc.
LEMMA ReallocKeeps ==
    ASSUME HInv, NEW b \in live, NEW size \in Nat, Realloc(b, size)
    PROVE  HInv'
<1>1. PICK r, c : r = MmRealloc(heap, b.p, size) /\ c = [b EXCEPT !.p = r.p, !.size = size]
  BY Zenon
<1>2. size > 0
  BY DEF Realloc
<1>3. CASE r.p = Wild
  <2>1. UNCHANGED <<heap, live>>
    BY <1>1, <1>3 DEF Realloc, Crash
  <2> QED
    BY <2>1 DEF HInv
<1>4. CASE r.p # Wild
  <2>1. Take(r, c, Words(b.size), live \ {b})
    BY <1>1, <1>4 DEF Realloc
  <2>2. NewSize(size) <= SizeAt(heap.mem, b.p) \/ SizeAt(heap.mem, b.p) < NewSize(size)
    <3>1. PICK L : Describes(L, heap) /\ Holds(L, heap.mem, b)
      BY DEF HInv, Held
    <3>2. SizeAt(heap.mem, b.p) = L[b.p].end - b.p
      BY <3>1, HeaderReads, ZenonT(40) DEF Tagged, Tags, Describes, Holds
    <3>3. L[b.p].end - b.p \in Nat
      BY <3>1, BlockFacts, ZenonT(40) DEF Describes, Holds
    <3> QED
      BY <3>2, <3>3, WordsFacts, SMTT(30)
  <2>3. PICK L : Gets(L, r.h, c, Words(b.size), live \ {b})
    BY <1>1, <1>2, <1>4, <2>2, ReallocInPlace, ReallocMoves, Zenon
  <2> QED
    BY <2>1, <2>3, TakeKeeps
<1> QED
  BY <1>3, <1>4

\* Every step of the client keeps the invariant.
LEMMA NextHInv == HInv /\ [ClientNext]_clientVars => HInv'
<1> SUFFICES ASSUME HInv, [ClientNext]_clientVars PROVE HInv'
  OBVIOUS
<1>1. CASE MallocZero
  <2>1. UNCHANGED <<heap, live>>
    BY <1>1 DEF MallocZero, MmMalloc
  <2> QED
    BY <2>1 DEF HInv
<1>2. ASSUME NEW size \in Sizes, NEW fill \in Fills, Malloc(size, fill) PROVE HInv'
  <2>1. size \in Nat /\ fill \in Nat
    BY MallocLabAssumption
  <2> QED
    BY <1>2, <2>1, MallocKeeps
<1>3. ASSUME NEW b \in live, Free(b) PROVE HInv'
  BY <1>3, FreeKeeps
<1>4. ASSUME NEW b \in live, NEW size \in Sizes, Realloc(b, size) PROVE HInv'
  <2>1. size \in Nat
    BY MallocLabAssumption
  <2> QED
    BY <1>4, <2>1, ReallocKeeps
<1>5. CASE UNCHANGED clientVars
  BY <1>5 DEF HInv, clientVars
<1> QED
  BY <1>1, <1>2, <1>3, <1>4, <1>5 DEF ClientNext

\* What the invariant says of the words of the heap.
LEMMA Reads ==
    ASSUME NEW L, Describes(L, heap)
    PROVE  /\ Blocks = DOMAIN L
           /\ \A q \in DOMAIN L : /\ FreeAt(heap.mem, q) <=> L[q].free
                                  /\ SizeAt(heap.mem, q) = L[q].end - q
                                  /\ NEXT_BLK(heap.mem, q) = L[q].end
<1>1. Layout(L, heap.brk) /\ Tagged(heap.mem, heap.brk, L)
  BY DEF Describes
<1>2. Blocks = DOMAIN L
  BY <1>1, WalksBlocks DEF Blocks
<1>3. ASSUME NEW q \in DOMAIN L
      PROVE  /\ FreeAt(heap.mem, q) <=> L[q].free
             /\ SizeAt(heap.mem, q) = L[q].end - q
             /\ NEXT_BLK(heap.mem, q) = L[q].end
  BY <1>1, HeaderReads, ZenonT(40) DEF Tagged, Tags
<1> QED
  BY <1>2, <1>3

\* The invariant holds what the client relies on.
LEMMA HInvSound == HInv => HeapIsSound
<1> SUFFICES ASSUME HInv PROVE HeapIsSound
  OBVIOUS
<1>1. PICK L : Describes(L, heap) /\ Held(L, heap.mem, live)
  BY DEF HInv
<1>2. Layout(L, heap.brk) /\ heap.mem[heap.brk - 1] = EndMark
  BY <1>1, SMTT(30) DEF Describes, Tagged
<1>3. /\ Blocks = DOMAIN L
      /\ \A q \in DOMAIN L : /\ FreeAt(heap.mem, q) <=> L[q].free
                             /\ SizeAt(heap.mem, q) = L[q].end - q
                             /\ NEXT_BLK(heap.mem, q) = L[q].end
  BY <1>1, Reads
<1>4. ASSUME NEW b \in live
      PROVE  /\ b \in BlockT /\ b.p \in DOMAIN L /\ ~L[b.p].free
             /\ Words(b.size) + 2 <= L[b.p].end - b.p
             /\ \A w \in Payload(b) : heap.mem[w] = -b.fill
  BY <1>1 DEF Held, Holds
<1>5. ASSUME NEW b \in live
      PROVE  \A w \in Payload(b) : w \in Int /\ b.p <= w /\ w <= L[b.p].end - 3
  <2>1. \A w \in Payload(b) : w \in Addresses /\ b.p <= w /\ w <= L[b.p].end - 3
    BY <1>2, <1>4, PayloadInside
  <2> QED
    BY <2>1, SMTT(30) DEF Addresses
<1>6. ASSUME NEW b \in live PROVE Payload(b) \subseteq First .. heap.brk - 2
  <2>1. b.p \in Nat /\ 1 <= b.p /\ L[b.p].end \in Nat /\ L[b.p].end <= heap.brk /\ heap.brk \in Nat
    BY <1>2, <1>4, BlockFacts, SMTT(30)
  <2> QED
    BY <1>5, <2>1, SMTT(30) DEF First
<1>7. ASSUME NEW b \in live, NEW c \in live, c # b PROVE Payload(c) \cap Payload(b) = {}
  <2>1. b.p # c.p
    BY <1>1, <1>7, SMTT(30) DEF Held
  <2>2. L[b.p].end <= c.p \/ L[c.p].end <= b.p
    BY <1>2, <1>4, <2>1, BlocksApart, SMTT(30)
  <2>3. b.p \in Nat /\ L[b.p].end \in Nat /\ c.p \in Nat /\ L[c.p].end \in Nat
    BY <1>2, <1>4, BlockFacts
  <2> QED
    BY <1>5, <2>2, <2>3, SMTT(30)
<1>8. PayloadsIntact
  BY <1>4, <1>6, <1>7, SMTT(30) DEF PayloadsIntact
<1>9. {p \in Blocks : ~FreeAt(heap.mem, p)} = {b.p : b \in live}
  BY <1>1, <1>3, <1>4, SMTT(30) DEF Held
<1>10. \A p \in Blocks : NEXT_BLK(heap.mem, p) \in Blocks \cup {heap.brk}
  BY <1>2, <1>3, BlockFacts, SMTT(30)
<1>11. \A b \in live : Words(b.size) + 2 <= SizeAt(heap.mem, b.p)
  BY <1>3, <1>4
<1> QED
  BY <1>2, <1>8, <1>9, <1>10, <1>11 DEF HeapIsSound, AllocatedIsLive

\* The client's writes leave the break where the call has put it.
LEMMA TakeBreak ==
    ASSUME NEW r, r.h \in HeapT, NEW b, NEW kept, NEW others, Take(r, b, kept, others)
    PROVE  heap'.brk = r.h.brk
<1>1. PICK h, m : h = r.h /\ heap' = [h EXCEPT !.mem = m]
  BY Zenon DEF Take
<1> QED
  BY <1>1 DEF HeapT

\* A call that extends the heap after a pass of coalesces has found no run.
LEMMA GrowsWithoutRun ==
    ASSUME HInv, NEW L, Describes(L, heap), NEW n \in Nat, 3 <= n,
           NEW wanted \in BOOLEAN, wanted, NEW r, r = FitOrExtend(heap, n, wanted), r.p # Wild
    PROVE  r.h \in HeapT /\ (r.h.brk > heap.brk => NoRun(L, heap.brk, n))
<1>1. heap \in HeapT /\ Layout(L, heap.brk) /\ Tagged(heap.mem, heap.brk, L)
  BY DEF HInv, Describes
<1> QED
  BY <1>1, FitsOrExtends, Zenon

\* mm_malloc extends the heap only when no run fits.
LEMMA MallocGrows ==
    ASSUME HInv, NEW L, Describes(L, heap), NEW size \in Nat, NEW fill,
           Malloc(size, fill), heap.total >= NewSize(size), heap'.brk > heap.brk
    PROVE  NoRun(L, heap.brk, NewSize(size))
<1>1. PICK r, n : r = MmMalloc(heap, size) /\ n = NewSize(size)
  OBVIOUS
<1>2. size > 0 /\ n \in Nat /\ 3 <= n
  BY <1>1, WordsFacts DEF Malloc
<1>a. PICK wanted : wanted = (heap.total >= NewSize(size))
  OBVIOUS
<1>b. wanted \in BOOLEAN /\ wanted
  BY <1>a, ZenonT(40)
<1>3. r = FitOrExtend(heap, n, wanted)
  BY <1>1, <1>2, <1>a DEF MmMalloc
<1>4. heap.brk \in Nat
  BY DEF HInv, HeapT
<1>5. r.p # Wild
  BY <1>1, <1>4 DEF Malloc, Crash
<1>6. Take(r, [p |-> r.p, size |-> size, fill |-> fill], 0, live)
  BY <1>1, <1>5 DEF Malloc
<1>7. r.h \in HeapT /\ (r.h.brk > heap.brk => NoRun(L, heap.brk, n))
  BY <1>2, <1>3, <1>5, <1>b, GrowsWithoutRun, ZenonT(40)
<1>8. heap'.brk = r.h.brk
  BY <1>6, <1>7, TakeBreak
<1> QED
  BY <1>1, <1>7, <1>8

\* mm_realloc extends the heap only when no run fits.
LEMMA ReallocGrows ==
    ASSUME HInv, NEW L, Describes(L, heap), NEW size \in Nat, NEW b \in live, Held(L, heap.mem, live),
           Realloc(b, size), heap.total > NewSize(size), heap'.brk > heap.brk
    PROVE  NoRun(L, heap.brk, NewSize(size))
<1>1. PICK r, n, p, old : /\ r = MmRealloc(heap, b.p, size) /\ n = NewSize(size)
                          /\ p = b.p /\ old = SizeAt(heap.mem, b.p)
  OBVIOUS
<1>2. size > 0 /\ n \in Nat /\ 3 <= n
  BY <1>1, WordsFacts DEF Realloc
<1>3. heap.brk \in Nat /\ heap \in HeapT
  BY DEF HInv, HeapT
<1>4. r.p # Wild
  BY <1>1, <1>3 DEF Realloc, Crash
<1>5. PICK c, kept, others : Take(r, c, kept, others)
  BY <1>1, <1>4 DEF Realloc
<1>6. p # NULL /\ old \in Nat
  <2>1. Holds(L, heap.mem, b)
    BY SMTT(30) DEF Held
  <2>2. Layout(L, heap.brk) /\ p \in DOMAIN L
    BY <1>1, <2>1, SMTT(30) DEF Holds, Describes
  <2>3. p \in Nat /\ 1 <= p /\ L[p].end - p \in Nat
    BY <2>2, BlockFacts
  <2>4. old = L[p].end - p
    BY <1>1, <2>2, Reads, ZenonT(40)
  <2> QED
    BY <2>3, <2>4, SMTT(30) DEF NULL
<1>7. CASE n <= old
  <2>1. PICK d : Gets(d, r.h, [b EXCEPT !.p = r.p, !.size = size], Words(b.size), live \ {b})
    BY <1>1, <1>2, <1>7, ReallocInPlace, Zenon
  <2>2. r.h \in HeapT
    BY <2>1 DEF Gets
  <2>3. r.h.brk = heap.brk
    <3>1. r = [h |-> heap, p |-> p] \/ r = [h |-> [heap EXCEPT !.mem = Place(heap.mem, p, n)], p |-> p]
      BY <1>1, <1>2, <1>6, <1>7 DEF MmRealloc
    <3>2. r.h = heap \/ r.h = [heap EXCEPT !.mem = Place(heap.mem, p, n)]
      BY <3>1
    <3> QED
      BY <1>3, <3>2 DEF HeapT
  <2>4. heap'.brk = r.h.brk
    BY <1>5, <2>2, TakeBreak, SMTT(30)
  <2> QED
    BY <1>3, <2>3, <2>4
<1>8. CASE old < n
  <2>a. PICK wanted : wanted = (heap.total > NewSize(size))
    OBVIOUS
  <2>b. wanted \in BOOLEAN /\ wanted
    BY <2>a, Zenon
  <2>1. PICK s : s = FitOrExtend(heap, n, wanted)
    OBVIOUS
  <2>2. r = MoveTo(s, p, old - 2)
    BY <1>1, <1>2, <1>6, <1>8, <2>1, <2>a DEF MmRealloc
  <2>3. s.p # Wild
    BY <1>4, <2>2 DEF MoveTo
  <2>4. s.h \in HeapT /\ (s.h.brk > heap.brk => NoRun(L, heap.brk, n))
    BY <1>2, <2>1, <2>3, <2>b, GrowsWithoutRun, Zenon
  <2>5. PICK m : r.h = MmFree([s.h EXCEPT !.mem = m], p)
    BY <2>2, <2>3, Zenon DEF MoveTo
  <2>6. PICK h, x, y : h = [s.h EXCEPT !.mem = m] /\ r.h = [h EXCEPT !.total = x, !.mem = y]
    BY <1>6, <2>5, Zenon DEF MmFree
  <2>7. h = [mem |-> m, brk |-> s.h.brk, total |-> s.h.total]
    BY <2>4, <2>6 DEF HeapT
  <2>8. r.h = [mem |-> y, brk |-> s.h.brk, total |-> x]
    BY <2>6, <2>7, Zenon
  <2>9. heap'.brk = r.h.brk
    BY <1>5, <2>8 DEF Take
  <2> QED
    BY <1>1, <2>4, <2>8, <2>9
<1> QED
  BY <1>2, <1>6, <1>7, <1>8

\* What a step that extends the heap says of its free blocks.
LEMMA GrowsOnlyThen == HInv /\ [ClientNext]_clientVars => [NoRunFits]_clientVars
<1> SUFFICES ASSUME HInv, heap'.brk > heap.brk, NEW size \in Sizes, GrowsFor(size),
                    NEW p \in Blocks, NEW e \in Blocks \cup {heap.brk}, FreeRun(p, e)
             PROVE  e - p < NewSize(size)
  BY DEF NoRunFits
<1>1. PICK L : Describes(L, heap) /\ Held(L, heap.mem, live)
  BY DEF HInv
<1>2. Blocks = DOMAIN L /\ \A q \in DOMAIN L : FreeAt(heap.mem, q) <=> L[q].free
  BY <1>1, Reads, Zenon
<1>3. size \in Nat
  BY MallocLabAssumption
<1>4. NoRun(L, heap.brk, NewSize(size))
  BY <1>1, <1>3, MallocGrows, ReallocGrows DEF GrowsFor
<1> QED
  BY <1>2, <1>4 DEF NoRun, FreeRun
-----------------------------------------------------------------------------
\* Whatever the client calls, the payloads of its blocks lie in the heap, apart and
\* as it has filled them; the headers lead from the first block to the end mark, and
\* the allocated blocks on the way are the client's (mm.c).
THEOREM AllocatorKeepsPayloads == ClientSpec => []HeapIsSound
<1>1. HInv => HeapIsSound
  BY HInvSound
<1> QED
  BY <1>1, InitHInv, NextHInv, PTL DEF ClientSpec

\* mm_malloc and mm_realloc extend the heap, once they have coalesced, only when no
\* run of adjacent free blocks is large enough: one pass of coalesces merges all of
\* them (mm.c:113).
THEOREM AllocatorMergesRuns == ClientSpec => ExtendsOnlyWhenNoRunFits
BY InitHInv, NextHInv, GrowsOnlyThen, PTL DEF ClientSpec, ExtendsOnlyWhenNoRunFits
=============================================================================
