----------------------------- MODULE MallocLab -----------------------------
(***************************************************************************)
(* The allocator under every sequence of calls of a client that fills each *)
(* block with a value of its own, as the driver does (mdriver.c:580, 617). *)
(***************************************************************************)
EXTENDS MmHeap, FiniteSets

CONSTANTS Sizes,    \* sizes in bytes the client asks for
          Fills,    \* values to fill blocks with
          MaxTotal  \* bound: total_free_size

ASSUME MallocLabAssumption == Sizes \subseteq Nat /\ Fills \subseteq Nat

VARIABLES heap,
          live,    \* the client's blocks: [p, size, fill]
          wild     \* a call has written through the failure value of mem_sbrk

clientVars == <<heap, live, wild>>

ClientInit == heap = MmInit(EmptyHeap(MaxHeap)) /\ live = {} /\ wild = FALSE

Words(size) == (size + 7) \div 8
Payload(b) == b.p .. b.p + Words(b.size) - 1

\* The client takes over block b, returned by a call that left heap r.h, and
\* fills it from its word number kept on; it relies on the words before.
Take(r, b, kept, others) ==
    /\ heap' = [r.h EXCEPT !.mem = [w \in DOMAIN @ |->
                   IF w \in Payload(b) /\ w >= b.p + kept THEN -b.fill ELSE @[w]]]
    /\ live' = others \cup {b}
    /\ UNCHANGED wild

Crash == wild' = TRUE /\ UNCHANGED <<heap, live>>

Malloc(size, fill) ==
    LET r == MmMalloc(heap, size) IN
    /\ ~wild /\ size > 0
    /\ IF r.p = Wild THEN Crash
       ELSE Take(r, [p |-> r.p, size |-> size, fill |-> fill], 0, live)

MallocZero ==
    /\ ~wild
    /\ heap' = MmMalloc(heap, 0).h
    /\ UNCHANGED <<live, wild>>

Free(b) ==
    /\ ~wild /\ heap.total + SizeAt(heap.mem, b.p) <= MaxTotal
    /\ heap' = MmFree(heap, b.p)
    /\ live' = live \ {b}
    /\ UNCHANGED wild

Realloc(b, size) ==
    LET r == MmRealloc(heap, b.p, size) IN
    /\ ~wild /\ size > 0 /\ r.h.total <= MaxTotal
    /\ IF r.p = Wild THEN Crash
       ELSE Take(r, [b EXCEPT !.p = r.p, !.size = size], Words(b.size), live \ {b})

\* The lab's text makes this a call of mm_free.
ReallocZero(b) ==
    LET r == MmRealloc(heap, b.p, 0) IN
    /\ ~wild /\ r.h.total <= MaxTotal
    /\ heap' = r.h
    /\ live' = live \ {b}
    /\ UNCHANGED wild

ClientNext ==
    \/ MallocZero
    \/ \E size \in Sizes, fill \in Fills : Malloc(size, fill)
    \/ \E b \in live : Free(b) \/ \E size \in Sizes : Realloc(b, size)

ClientNextZero == ClientNext \/ \E b \in live : ReallocZero(b)

ClientSpec == ClientInit /\ [][ClientNext]_clientVars
ClientSpecZero == ClientInit /\ [][ClientNextZero]_clientVars
-----------------------------------------------------------------------------
(* The blocks that the headers describe, from the first one to the end mark. *)

WalkTurn(m, w) ==
    IF IS_END(m[w.p - 1]) THEN w ELSE [p |-> NEXT_BLK(m, w.p), seen |-> w.seen \cup {w.p}]

BlocksOf(m) ==
    LET at[n \in Nat] == IF n = 0 THEN [p |-> First, seen |-> {}] ELSE WalkTurn(m, at[n - 1])
    IN  at[MaxHeap \div 3].seen

Blocks == BlocksOf(heap.mem)

\* What the driver checks after each call (mdriver.c:364-386 and 609), for all
\* blocks at all times: payloads lie in the heap, no two overlap, and nothing
\* has written into one: not a tag, not another block's copy.
PayloadsIntact ==
    \A b \in live :
        /\ Payload(b) \subseteq First .. heap.brk - 2
        /\ \A w \in Payload(b) : heap.mem[w] = -b.fill
        /\ \A c \in live : c = b \/ Payload(c) \cap Payload(b) = {}

\* The headers lead from the start of the heap to the end mark at its end, and
\* the allocated blocks among them are the client's, each large enough,
\* although merged blocks keep stale tags inside (mm.c:100-110).
AllocatedIsLive ==
    LET m == heap.mem IN
    /\ {p \in Blocks : ~FreeAt(m, p)} = {b.p : b \in live}
    /\ \A p \in Blocks : NEXT_BLK(m, p) \in Blocks \cup {heap.brk}
    /\ m[heap.brk - 1] = EndMark
    /\ \A b \in live : Words(b.size) + 2 <= SizeAt(m, b.p)

\* Whatever the client has called, its blocks lie apart in the heap and hold what it
\* has written, and the tags describe exactly these blocks and the free ones (mm.c).
HeapIsSound == PayloadsIntact /\ AllocatedIsLive

\* The words from block p up to block e, or the end, are all of free blocks.
FreeRun(p, e) == \A q \in Blocks : p <= q /\ q < e => FreeAt(heap.mem, q)

\* The heap grows for a block of this size.
GrowsFor(size) ==
    \/ heap.total >= NewSize(size) /\ \E fill \in Fills : Malloc(size, fill)
    \/ heap.total > NewSize(size) /\ \E b \in live : Realloc(b, size)

\* When mm_malloc or mm_realloc has coalesced and still extends the heap, no run of
\* adjacent free blocks was large enough: one pass merges every run completely,
\* although it works with the tags it leaves behind (mm.c:113-121).  (Without the
\* condition on total_free_size this is not so: the remainder that a shrinking
\* mm_realloc splits off is not counted there.)
NoRunFits ==
    heap'.brk > heap.brk =>
        \A size \in Sizes : GrowsFor(size) =>
            \A p \in Blocks, e \in Blocks \cup {heap.brk} :
                FreeRun(p, e) => e - p < NewSize(size)

ExtendsOnlyWhenNoRunFits == [][NoRunFits]_clientVars

\* mdriver.c:563 and 591 take NULL as the report of a full heap; mm.c:189 and
\* 255 test for it.
\* The code breaks it: README, "Disagreements without a run".
ExhaustionIsReported == ~wild
=============================================================================
