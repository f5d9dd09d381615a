------------------------------- MODULE MmHeap -------------------------------
(***************************************************************************)
(* The malloc lab's allocator (mm.c) over its simulated heap (memlib.c),   *)
(* as operators on a heap [mem, brk, total].  The unit is the 8-byte word: *)
(* a pointer is the index of a word, a size a number of words.  A word is  *)
(* a tag PACK(bytes, flag) or, below zero, data of a payload.  Word 0 is   *)
(* the first header, so 0 is no payload: it is NULL.                       *)
(***************************************************************************)
EXTENDS Integers

CONSTANT MaxHeap  \* words in the simulated memory (MAX_HEAP)

ASSUME MmHeapAssumption == MaxHeap \in Nat \ {0}

NULL == 0
Wild == -1        \* what mem_sbrk returns when it fails

PACK(size, flag) == 8 * size + flag
EndMark == PACK(0, 7)

GET_SIZE(w) == w \div 8
GET_ALLOC(w) == w % 2 = 1
IS_END(w) == w % 8 = 7

First == 1        \* STEP(mem_heap_lo())
IS_BEGIN(p) == p = First
SizeAt(m, p) == GET_SIZE(m[p - 1])
FreeAt(m, p) == ~GET_ALLOC(m[p - 1])
NEXT_BLK(m, p) == p + SizeAt(m, p)
PREV_BLK(m, p) == p - GET_SIZE(m[p - 2])

\* ALIGN(size) + 2 * SIZE_T_SIZE, for a size in bytes.
NewSize(size) == (size + 7) \div 8 + 2

PutHeader(m, p, size, flag) == [m EXCEPT ![p - 1] = PACK(size, flag)]
\* FTRP finds the footer with the size in the header at that moment.
PutFooter(m, p, size, flag) == [m EXCEPT ![p + SizeAt(m, p) - 2] = PACK(size, flag)]
PutBoth(m, p, size, flag) == PutFooter(PutHeader(m, p, size, flag), p, size, flag)
-----------------------------------------------------------------------------
(* memlib.c                                                                *)

EmptyHeap(words) == [mem |-> [w \in 0 .. words - 1 |-> 0], brk |-> 0, total |-> 0]

MemResetBrk(h) == [h EXCEPT !.brk = 0]

MemSbrkFails(h, n) == h.brk + n > MaxHeap

-----------------------------------------------------------------------------
(* mm.c                                                                    *)

\* total_free_size is not reset.
MmInit(h) == [h EXCEPT !.mem = [h.mem EXCEPT ![h.brk] = EndMark], !.brk = h.brk + 1]

\* Mutant: the header of the previous block is not updated.
CoalesceKeepsPrev(m, p) ==
    LET next == NEXT_BLK(m, p)
        total == SizeAt(m, p) + (IF FreeAt(m, next) THEN SizeAt(m, next) ELSE 0)
    IN  PutBoth(m, p, total, 0)

\* coalesce: the block at p is free; the header at p is left behind inside the
\* merged block when the previous one is free.
Coalesce(m, p) ==
    LET prev == PREV_BLK(m, p)
        next == NEXT_BLK(m, p)
        prevFree == ~IS_BEGIN(p) /\ FreeAt(m, prev)
        nextFree == FreeAt(m, next)
        size == SizeAt(m, p)
    IN  CASE ~prevFree /\ ~nextFree -> PutBoth(m, p, size, 0)
          [] ~prevFree /\ nextFree  -> PutBoth(m, p, size + SizeAt(m, next), 0)
          [] prevFree /\ ~nextFree  ->
               LET total == size + SizeAt(m, prev) IN
               PutHeader(PutFooter(m, p, total, 0), prev, total, 0)
          [] prevFree /\ nextFree   ->
               LET total == size + SizeAt(m, prev) + SizeAt(m, next) IN
               PutFooter(PutHeader(m, prev, total, 0), next, total, 0)

\* A turn of the loop of coalesces, at block s.p.  The pointer goes on from the
\* header at p as coalesce has left it, also when p now lies inside a merged block.
CoalesceTurn(s) ==
    LET m == IF FreeAt(s.mem, s.p) THEN Coalesce(s.mem, s.p) ELSE s.mem
    IN  IF IS_END(s.mem[s.p - 1]) THEN s ELSE [mem |-> m, p |-> NEXT_BLK(m, s.p)]

\* A block has a header, a footer and a word of payload at least: after MaxHeap \div 3
\* turns a loop over the heap is at the end mark.
Coalesces(m) ==
    LET at[n \in Nat] == IF n = 0 THEN [mem |-> m, p |-> First] ELSE CoalesceTurn(at[n - 1])
    IN  at[MaxHeap \div 3].mem

Fits(m, p, size) == FreeAt(m, p) /\ SizeAt(m, p) >= size

FitTurn(m, size, p) == IF IS_END(m[p - 1]) \/ Fits(m, p, size) THEN p ELSE NEXT_BLK(m, p)

FindFitBlock(m, size) ==
    LET at[n \in Nat] == IF n = 0 THEN First ELSE FitTurn(m, size, at[n - 1])
    IN  IF IS_END(m[at[MaxHeap \div 3] - 1]) THEN NULL ELSE at[MaxHeap \div 3]

\* Mutant: the remainder keeps the size of the whole block.
PlaceKeepsSize(m, p, size) ==
    LET old == SizeAt(m, p)
        m1 == PutBoth(m, p, size, 1)
    IN  IF old - size > 2 THEN PutHeader(m1, NEXT_BLK(m1, p), old, 0) ELSE PutBoth(m, p, old, 1)

\* The remainder becomes a free block if it holds at least one word of payload.
Place(m, p, size) ==
    LET rest == SizeAt(m, p) - size
        m1 == PutBoth(m, p, size, 1)
    IN  IF rest > 2 THEN PutBoth(m1, NEXT_BLK(m1, p), rest, 0)
                    ELSE PutBoth(m, p, SizeAt(m, p), 1)

\* The new block starts at the old end mark; p is Wild when mem_sbrk fails:
\* the callers compare with NULL and go on to write through it.
Extend(h, size) ==
    IF MemSbrkFails(h, size) THEN [h |-> h, p |-> Wild]
    ELSE LET m == PutBoth(h.mem, h.brk, size, 1)
         IN  [h |-> [h EXCEPT !.mem = [m EXCEPT ![h.brk + size - 1] = EndMark],
                              !.brk = h.brk + size],
              p |-> h.brk]

\* What mm_malloc and mm_realloc do after their first look: coalesce if wanted,
\* look again, extend the heap.
FitOrExtend(h, size, wanted) ==
    LET first == FindFitBlock(h.mem, size)
        m == IF first = NULL /\ wanted THEN Coalesces(h.mem) ELSE h.mem
        p == FindFitBlock(m, size)
    IN  IF p # NULL THEN [h |-> [h EXCEPT !.mem = Place(m, p, size)], p |-> p]
        ELSE Extend([h EXCEPT !.mem = m], size)

MmMalloc(h, size) ==
    LET n == NewSize(size) IN
    IF size = 0 THEN [h |-> h, p |-> NULL] ELSE FitOrExtend(h, n, h.total >= n)

MmFree(h, p) ==
    IF p = NULL THEN h
    ELSE LET size == SizeAt(h.mem, p) IN
         [h EXCEPT !.total = @ + size, !.mem = PutBoth(@, p, size, 0)]

\* memcpy of a whole payload.
Memcpy(m, to, from, words) ==
    [w \in DOMAIN m |-> IF w \in to .. to + words - 1 THEN m[from + (w - to)] ELSE m[w]]

\* The last part of mm_realloc, when a larger block is needed.
MoveTo(r, p, words) ==
    IF r.p = Wild THEN r
    ELSE [h |-> MmFree([r.h EXCEPT !.mem = Memcpy(@, r.p, p, words)], p), p |-> r.p]

\* With size 0 the block is freed first and then treated like any other.
MmRealloc(h0, p, size) ==
    LET h == IF size = 0 THEN MmFree(h0, p) ELSE h0
        n == NewSize(size)
        old == SizeAt(h.mem, p)
    IN  IF p = NULL THEN MmMalloc(h, size)
        ELSE IF old = n THEN [h |-> h, p |-> p]
        ELSE IF old > n THEN [h |-> [h EXCEPT !.mem = Place(@, p, n)], p |-> p]
        ELSE MoveTo(FitOrExtend(h, n, h.total > n), p, old - 2)
=============================================================================
