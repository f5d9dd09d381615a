------------------------------- MODULE Mdriver -------------------------------
(***************************************************************************)
(* The malloc lab's driver (mdriver.c): for every trace file, read it, run *)
(* it once to check the allocator and, if that went well, once to measure  *)
(* its utilization and several times to measure its speed.  With Allocator *)
(* "mm" the calls are those of mm.c (MmHeap); with "any" they return any   *)
(* address, as the allocator of a student may.  Addresses are in bytes.    *)
(***************************************************************************)
EXTENDS MmHeap, SequencesExt

CONSTANTS Allocator,  \* "mm" or "any"
          Addresses,  \* what "any" may return, in bytes: NULL, unaligned, outside...
          IdOrders,   \* sequences of MaxOps ids, in the order a trace allocates them
          Sizes,      \* sizes in bytes that the traces ask for
          MaxOps,     \* bound: operations of a trace
          MaxTraces,  \* bound: trace files
          SpeedRuns   \* times that fsecs calls eval_mm_speed

Ids == UNION {Range(ids) : ids \in IdOrders}
ALIGNMENT == 8

\* The requests a trace may go on with: ids are allocated in order, reallocated
\* and freed while they live.
Requests(live, new) ==
    [type : {"ALLOC"}, index : {Head(new)}, size : Sizes]
        \cup [type : {"REALLOC"}, index : live, size : Sizes]
        \cup [type : {"FREE"}, index : live, size : {0}]

RECURSIVE RequestLines(_, _, _)
RequestLines(n, live, new) ==
    {<<>>} \cup
    (IF n = 0 THEN {} ELSE
     UNION {{<<op>> \o rest : rest \in
               RequestLines(n - 1, IF op.type = "FREE" THEN live \ {op.index}
                                                       ELSE live \cup {op.index},
                            IF op.type = "ALLOC" THEN Tail(new) ELSE new)}
              : op \in Requests(live, new)})

\* The largest id that the lines allocate.
MaxIndex(l) == Max({l[i].index : i \in {j \in DOMAIN l : l[j].type # "FREE"}})

\* A trace file.  Ids may be left out; the header may announce one id or one
\* operation too many.
Files ==
    LET lines == UNION {RequestLines(MaxOps, {}, ids) : ids \in IdOrders} \ {<<>>}
    IN  UNION {[num_ids : {MaxIndex(l) + 1, MaxIndex(l) + 2}, num_ops : {Len(l), Len(l) + 1}, lines : {l}]
                 : l \in lines}

VARIABLES phase,   \* what main is doing
          trace,   \* trace_t without its arrays: [num_ids, num_ops, ops]
          heap,    \* mm.c and memlib.c
          pass,    \* one pass: operations done, blocks, block_sizes, total_size,
                   \* max_total_size
          ranges,  \* the range list: [lo, hi]
          errors,  \* what malloc_error has printed: [op, lo, msg]
          stats,   \* per trace: [valid, used, heap], the last two from eval_mm_util
          runs,    \* calls of eval_mm_speed so far
          checked  \* pointers that eval_mm_valid got, one per operation

vars == <<phase, trace, heap, pass, ranges, errors, stats, runs, checked>>

NoTrace == [num_ids |-> 0, num_ops |-> 0, ops |-> <<>>]
NewPass == [at |-> 0, blocks |-> [i \in Ids |-> NULL], sizes |-> [i \in Ids |-> 0],
            total |-> 0, max |-> 0]

\* main, after mem_init.
Init ==
    /\ phase = "read" /\ trace = NoTrace
    /\ heap = EmptyHeap(MaxHeap) /\ pass = NewPass
    /\ ranges = {} /\ errors = <<>>
    /\ stats = <<>> /\ runs = 0 /\ checked = <<>>
-----------------------------------------------------------------------------
(* The allocator's answers [h, p] to a call in the current state.          *)

\* The low byte of an id (index & 0xFF), and what a char holding it is worth: char
\* is signed with gcc on x86.
LowByte(index) == index % 256
AsChar(byte) == IF byte < 128 THEN byte ELSE byte - 256

\* Any of the addresses, and in the block any byte that some block is filled with.
Answers(r) ==
    IF Allocator = "mm" THEN {r}
    ELSE [h : {heap}, p : Addresses, byte : {LowByte(i) : i \in Ids}]

\* In mm.c's heap a pointer is the index of a word.
Address(p) == IF Allocator = "mm" THEN 8 * p ELSE p
HeapHi(h) == IF Allocator = "mm" THEN 8 * h.brk - 1 ELSE 8 * MaxHeap - 1

WordsOf(n) == (n + 7) \div 8
\* A word of MmHeap that memset has filled with a byte; a tag is no such word.
Filled(byte) == -(byte + 1)
ByteIn(word) == -word - 1

\* Only mm.c's heap has contents.
Memset(h, p, index, n) ==
    IF Allocator = "any" THEN h
    ELSE [h EXCEPT !.mem = [w \in DOMAIN @ |->
              IF w \in p .. p + WordsOf(n) - 1 THEN Filled(LowByte(index)) ELSE @[w]]]

\* The bytes found in the first n of the block.
Found(r, n) ==
    IF Allocator = "any" THEN {r.byte : j \in 1 .. n}
    ELSE {ByteIn(r.h.mem[w]) : w \in r.p .. r.p + WordsOf(n) - 1}

\* The comparison is between a char, which may be negative, and index & 0xFF.
Preserved(r, index, n) == \A byte \in Found(r, n) : AsChar(byte) = LowByte(index)
-----------------------------------------------------------------------------
(* The range list.                                                         *)

InRange(a, r) == r.lo <= a /\ a <= r.hi

\* What add_range finds wrong with a payload, or "ok"; top is the address of the
\* last heap byte.
RangeError(rs, lo, n, top) ==
    LET hi == lo + n - 1 IN
    CASE lo % ALIGNMENT # 0 -> "not aligned"
      [] lo % ALIGNMENT = 0 /\ ~({lo, hi} \subseteq 0 .. top) -> "outside heap"
      [] lo % ALIGNMENT = 0 /\ {lo, hi} \subseteq 0 .. top
            /\ \E r \in rs : InRange(lo, r) \/ InRange(hi, r) -> "overlaps"
      [] OTHER -> "ok"

AddRange(rs, lo, n) == rs \cup {[lo |-> lo, hi |-> lo + n - 1]}

\* Mutant: the range of a freed block stays in the list.
RemoveNothing(rs, lo) == rs

RemoveRange(rs, lo) == {r \in rs : r.lo # lo}
-----------------------------------------------------------------------------
(* main                                                                    *)

Reset(h) == MmInit(MemResetBrk(h))

\* read_trace with its two assertions, then eval_mm_valid up to its loop.
ReadTrace ==
    /\ phase = "read" /\ Len(stats) < MaxTraces
    /\ \E file \in Files :
         LET l == file.lines
         IN  IF MaxIndex(l) = file.num_ids - 1 /\ file.num_ops = Len(l)
             THEN /\ trace' = [num_ids |-> file.num_ids, num_ops |-> file.num_ops, ops |-> l]
                  /\ phase' = "valid" /\ heap' = Reset(heap) /\ ranges' = {}
             ELSE phase' = "abort" /\ UNCHANGED <<trace, heap, ranges>>
    /\ UNCHANGED <<pass, errors, stats, runs, checked>>

\* free_trace; main goes on with the next file.
FreeTrace(stat) ==
    /\ stats' = Append(stats, stat)
    /\ phase' = "read" /\ trace' = NoTrace /\ pass' = NewPass /\ checked' = <<>>

\* The operation that the pass is at.
Op == trace.ops[pass.at + 1]

\* malloc_error, and eval_mm_valid returns 0 with the heap and the ranges as
\* the failed operation leaves them.
MallocError(h, rs, lo, msg) ==
    /\ errors' = Append(errors, [op |-> Op, lo |-> lo, msg |-> msg])
    /\ FreeTrace([valid |-> FALSE, used |-> 0, heap |-> 0])
    /\ heap' = h /\ ranges' = rs
    /\ UNCHANGED runs

\* app_error, or a signal: the process ends.
Exit ==
    /\ phase' = "exit"
    /\ UNCHANGED <<trace, heap, pass, ranges, errors, stats, runs, checked>>

InPass(ph, type) == phase = ph /\ pass.at < trace.num_ops /\ Op.type = type
OldPtr == pass.blocks[Op.index]
OldSize == pass.sizes[Op.index]

\* The operation's block is p now.
Remember(p) == [pass EXCEPT !.at = @ + 1, !.blocks[Op.index] = p, !.sizes[Op.index] = Op.size]
-----------------------------------------------------------------------------
(* eval_mm_valid                                                           *)

\* What follows both allocating calls: the range is checked and entered, for
\* realloc the old data is looked for, the block is filled.
Check(r, rs, kept) ==
    LET lo == Address(r.p)
        added == AddRange(rs, lo, Op.size)
        wrong == RangeError(rs, lo, Op.size, HeapHi(r.h))
    IN
    IF r.p = Wild THEN Exit
    ELSE IF r.p = NULL THEN MallocError(r.h, ranges, lo, "failed")
    ELSE IF wrong # "ok" THEN MallocError(r.h, rs, lo, wrong)
    ELSE IF ~Preserved(r, Op.index, kept) THEN MallocError(r.h, added, lo, "data")
    ELSE /\ heap' = Memset(r.h, r.p, Op.index, Op.size)
         /\ ranges' = added
         /\ pass' = Remember(r.p)
         /\ checked' = Append(checked, r.p)
         /\ UNCHANGED <<phase, trace, errors, stats, runs>>

ValidAlloc ==
    /\ InPass("valid", "ALLOC")
    /\ \E r \in Answers(MmMalloc(heap, Op.size)) : Check(r, ranges, 0)

Smaller(a, b) == IF a < b THEN a ELSE b

ValidRealloc ==
    /\ InPass("valid", "REALLOC")
    /\ \E r \in Answers(MmRealloc(heap, OldPtr, Op.size)) :
         Check(r, RemoveRange(ranges, Address(OldPtr)), Smaller(OldSize, Op.size))

ValidFree ==
    /\ InPass("valid", "FREE")
    /\ ranges' = RemoveRange(ranges, Address(OldPtr))
    /\ heap' = IF Allocator = "mm" THEN MmFree(heap, OldPtr) ELSE heap
    /\ pass' = [pass EXCEPT !.at = @ + 1]
    /\ checked' = Append(checked, OldPtr)
    /\ UNCHANGED <<phase, trace, errors, stats, runs>>

\* main goes on with the utilization.
ValidDone ==
    /\ phase = "valid" /\ pass.at = trace.num_ops
    /\ phase' = "util"
    /\ heap' = Reset(heap)
    /\ pass' = [NewPass EXCEPT !.blocks = pass.blocks, !.sizes = pass.sizes]
    /\ UNCHANGED <<trace, ranges, errors, stats, runs, checked>>
-----------------------------------------------------------------------------
(* eval_mm_util and eval_mm_speed run the same operations; the first also  *)
(* keeps the total size of the payloads and its maximum.                   *)

Larger(a, b) == IF a > b THEN a ELSE b

Counted(p, delta) ==
    [p EXCEPT !.total = @ + delta, !.max = Larger(@, p.total + delta)]

Replay(ph, r, delta) ==
    IF r.p \in {Wild, NULL} THEN Exit
    ELSE /\ heap' = r.h
         /\ pass' = IF ph = "util" THEN Counted(Remember(r.p), delta)
                    ELSE [pass EXCEPT !.at = @ + 1, !.blocks[Op.index] = r.p]
         /\ UNCHANGED <<phase, trace, ranges, errors, stats, runs, checked>>

ReplayAlloc(ph) ==
    /\ InPass(ph, "ALLOC")
    /\ \E r \in Answers(MmMalloc(heap, Op.size)) : Replay(ph, r, Op.size)

ReplayRealloc(ph) ==
    /\ InPass(ph, "REALLOC")
    /\ \E r \in Answers(MmRealloc(heap, OldPtr, Op.size)) : Replay(ph, r, Op.size - OldSize)

ReplayFree(ph) ==
    /\ InPass(ph, "FREE")
    /\ heap' = IF Allocator = "mm" THEN MmFree(heap, OldPtr) ELSE heap
    /\ pass' = LET done == [pass EXCEPT !.at = @ + 1] IN
               IF ph = "util" THEN Counted(done, -OldSize) ELSE done
    /\ UNCHANGED <<phase, trace, ranges, errors, stats, runs, checked>>

ReplayOp(ph) == ReplayAlloc(ph) \/ ReplayRealloc(ph) \/ ReplayFree(ph)

UtilDone ==
    /\ phase = "util" /\ pass.at = trace.num_ops
    /\ stats' = Append(stats, [valid |-> TRUE, used |-> pass.max, heap |-> HeapHi(heap) + 1])
    /\ phase' = "speed" /\ runs' = 1
    /\ heap' = Reset(heap)
    /\ pass' = [pass EXCEPT !.at = 0]
    /\ UNCHANGED <<trace, ranges, errors, checked>>

\* fsecs calls eval_mm_speed again, or main goes on with the next file.
SpeedDone ==
    /\ phase = "speed" /\ pass.at = trace.num_ops
    /\ IF runs < SpeedRuns
       THEN /\ runs' = runs + 1 /\ heap' = Reset(heap)
            /\ pass' = [pass EXCEPT !.at = 0]
            /\ UNCHANGED <<phase, trace, stats, checked>>
       ELSE /\ phase' = "read" /\ trace' = NoTrace /\ pass' = NewPass /\ checked' = <<>>
            /\ runs' = 0
            /\ UNCHANGED <<heap, stats>>
    /\ UNCHANGED <<ranges, errors>>

Finish ==
    /\ phase = "read" /\ Len(stats) = MaxTraces
    /\ phase' = "done"
    /\ UNCHANGED <<trace, heap, pass, ranges, errors, stats, runs, checked>>

Next ==
    \/ ReadTrace \/ ValidAlloc \/ ValidRealloc \/ ValidFree \/ ValidDone
    \/ ReplayOp("util") \/ UtilDone \/ ReplayOp("speed") \/ SpeedDone \/ Finish

Spec == Init /\ [][Next]_vars
-----------------------------------------------------------------------------
\* The driver finds fault with mm.c exactly in the traces that reallocate an id
\* whose low byte is 128 or more (mdriver.c:610), and there only with the data,
\* which is in fact there; every other trace passes, and no pass over it is cut
\* short: what eval_mm_valid has accepted, eval_mm_util and every call of
\* eval_mm_speed get through (mdriver.c:671, 691, 745, 753), on a heap that
\* mm_init does not clear.
HighId(i) == LowByte(i) >= 128
MmPassesOtherTraces ==
    /\ \A i \in DOMAIN errors : /\ errors[i].msg = "data" /\ errors[i].op.type = "REALLOC"
                                /\ HighId(errors[i].op.index)
    /\ phase \in {"util", "speed"} =>
            \A j \in DOMAIN trace.ops : trace.ops[j].type = "REALLOC" => ~HighId(trace.ops[j].index)
    /\ phase # "exit"

\* mdriver.c:602-606: "Make sure that the new block contains the data from the old
\* block": mm_realloc copies it, so it is never found missing.
\* The code breaks it: README, "Disagreements without a run".
CopiedDataIsFound == \A i \in DOMAIN errors : errors[i].msg # "data"

\* At every moment of eval_mm_valid the range list is the extent of the blocks
\* that the trace has allocated and not freed (mdriver.c:345-349).
Freed(i) == \E j \in 1 .. pass.at : trace.ops[j].type = "FREE" /\ trace.ops[j].index = i
Allocated == {trace.ops[j].index : j \in 1 .. pass.at}
RangesAreLiveBlocks ==
    phase = "valid" =>
        ranges = {[lo |-> Address(pass.blocks[i]),
                   hi |-> Address(pass.blocks[i]) + pass.sizes[i] - 1]
                    : i \in {j \in Allocated : ~Freed(j)}}

\* Whatever the allocator returns, of two payloads that eval_mm_valid has accepted
\* and that overlap the younger encloses the older (the case that mdriver.c:381
\* does not test); and a payload reported as overlapping does overlap a block that
\* is allocated.
Payload(i) == Address(pass.blocks[i]) .. Address(pass.blocks[i]) + pass.sizes[i] - 1
Age(i) == Max({j \in 1 .. pass.at : trace.ops[j].index = i})
OverlapsAreFound ==
    /\ phase = "valid" =>
         \A i, j \in {a \in Allocated : ~Freed(a)} :
            Age(i) < Age(j) => \/ Payload(i) \cap Payload(j) = {}
                               \/ Payload(i) \subseteq Payload(j)
    /\ phase = "read" /\ stats # <<>> /\ ~Last(stats).valid /\ Last(errors).msg = "overlaps" =>
         LET e == Last(errors) IN
         \E r \in ranges : (r.lo .. r.hi) \cap (e.lo .. e.lo + e.op.size - 1) # {}

\* mdriver.c:641-650: the utilization is the maximal payload over the heap's
\* size, so at most 1: what the pass counts is what is allocated in it.
UtilizationAtMostOne ==
    /\ \A i \in DOMAIN stats : stats[i].used <= stats[i].heap
    /\ phase = "util" => pass.total \in 0 .. pass.max

\* mdriver.c:379: "The payload must not overlap any other payloads": the list
\* never holds two ranges that overlap, whatever the allocator returns.
\* The code breaks it: README, "Disagreements without a run".
RangesDisjoint == \A r, s \in ranges : r = s \/ r.hi < s.lo \/ s.hi < r.lo

\* mm.c:151: "initialize the malloc package": after mm_init a trace runs as it
\* ran when it was checked, so that the passes measure what was checked.
\* The code breaks it: README, "Disagreements without a run".
PassesAgree ==
    phase \in {"util", "speed"} =>
        \A i \in Ids : pass.at > 0 /\ trace.ops[pass.at].index = i
                          => pass.blocks[i] = checked[pass.at]
=============================================================================
