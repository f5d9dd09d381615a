----------------------------- MODULE RingBuffer -----------------------------
(***************************************************************************)
(* RingBuffer (src/cpp/datastructure/queue): nodes of any size in a ring   *)
(* of bytes, oldest nodes overwritten.  push and pop hold the mutex from   *)
(* the first line to the last, so each is one step.  Every access is to a  *)
(* multiple of 8 bytes: the memory is an array of 8-byte words, a word is  *)
(* a header (the size in bytes) or the k-th data word of a payload.        *)
(***************************************************************************)
EXTENDS Integers, Sequences

CONSTANTS Size,      \* bytes passed to init
          NodeSizes, \* sizes of nodes in bytes
          Payloads   \* payloads that can be told apart

WordSize == 8
Null == -1

\* evaluate_aligned_size, in words.
Aligned(size) == (size + WordSize - 1) \div WordSize

Capacity == Aligned(Size)

NoData == 0
Node == {n \in [size : NodeSizes, data : Payloads \cup {NoData}] :
            n.size = 0 <=> n.data = NoData}
EmptyNode == [size |-> 0, data |-> NoData]

\* A header holds the size and has index 0.
Header(size) == [value |-> size, index |-> 0]

VARIABLES buffer, read, write,
          popped,  \* the node the last pop returned
          crashed  \* LOG(FATAL) has ended the process

vars == <<buffer, read, write, popped, crashed>>

\* init; the pages of an anonymous mapping are zero.
Init ==
    /\ buffer = [p \in 0 .. Capacity - 1 |-> Header(0)]
    /\ read = Null /\ write = Null
    /\ popped = EmptyNode
    /\ crashed = FALSE

Empty == read = Null

Footprint(size) == 1 + Aligned(size)

\* A pointer n words further on, wrapped at the end of the buffer.
Advance(p, n) ==
    LET left == Capacity - p IN
    IF left < n THEN n - left ELSE IF left = n THEN 0 ELSE p + n

Used(r, w) == ((w - r) + Capacity) % Capacity

\* The loop of push: step over the oldest records until need words are free;
\* when none is left both pointers go back to the start.
RECURSIVE DropOldest(_, _, _, _)
DropOldest(mem, r, w, need) ==
    IF Capacity - Used(r, w) >= need THEN <<r, w>>
    ELSE LET r1 == Advance(r, Footprint(mem[r].value)) IN
         IF r1 = w THEN DropOldest(mem, 0, 0, need) ELSE DropOldest(mem, r1, w, need)

\* Mutant: a record that reaches the end is cut off there.
StoreNoWrap(mem, w, node) ==
    [p \in DOMAIN mem |->
        IF p = w THEN Header(node.size)
        ELSE IF p > w /\ p <= w + Aligned(node.size) THEN [value |-> node.data, index |-> p - w]
        ELSE mem[p]]

\* The header and the data words, the latter wrapped at the end.
Store(mem, w, node) ==
    [p \in DOMAIN mem |->
        LET i == ((p - w) + Capacity) % Capacity IN
        IF i = 0 THEN Header(node.size)
        ELSE IF i <= Aligned(node.size) THEN [value |-> node.data, index |-> i]
        ELSE mem[p]]

Push(node) ==
    LET start == IF Empty THEN <<0, 0>> ELSE <<read, write>>
        need == Footprint(node.size)
        ptr == DropOldest(buffer, start[1], start[2], need)
    IN  /\ ~crashed /\ need <= Capacity
        /\ buffer' = Store(buffer, ptr[2], node)
        /\ read' = ptr[1]
        /\ write' = Advance(ptr[2], need)
        /\ UNCHANGED <<popped, crashed>>

PushTooLarge(node) ==
    /\ ~crashed /\ Footprint(node.size) > Capacity
    /\ crashed' = TRUE
    /\ UNCHANGED <<buffer, read, write, popped>>

\* The node that pop copies out of the buffer at p: its data is a payload only
\* if all data words belong to it, in order.
NodeAt(p) ==
    LET size == buffer[p].value
        DataWord(i) == buffer[(p + i) % Capacity] IN
    [size |-> size,
     data |-> IF size = 0 THEN NoData
              ELSE IF \A i \in 1 .. Aligned(size) :
                         DataWord(i) = [value |-> DataWord(1).value, index |-> i]
              THEN DataWord(1).value ELSE Null]

PopEmpty ==
    /\ ~crashed /\ Empty
    /\ popped' = EmptyNode
    /\ UNCHANGED <<buffer, read, write, crashed>>

Pop ==
    LET next == Advance(read, Footprint(buffer[read].value)) IN
    /\ ~crashed /\ ~Empty
    /\ popped' = NodeAt(read)
    /\ read' = IF next = write THEN Null ELSE next
    /\ write' = IF next = write THEN Null ELSE write
    /\ UNCHANGED <<buffer, crashed>>

Next == PopEmpty \/ Pop \/ \E node \in Node : Push(node) \/ PushTooLarge(node)

Spec == Init /\ [][Next]_vars
-----------------------------------------------------------------------------
(* The records between read_ and write_, oldest first.                     *)

RECURSIVE RecordsFrom(_, _)
RecordsFrom(p, left) ==
    IF left <= 0 THEN <<>>
    ELSE LET n == Footprint(buffer[p].value) IN
         <<NodeAt(p)>> \o RecordsFrom(Advance(p, n), left - n)

\* Equal pointers mean a full buffer: an empty one has null pointers.
Queue ==
    IF Empty THEN <<>>
    ELSE RecordsFrom(read, IF read = write THEN Capacity ELSE Used(read, write))

\* The headers of the records lead from read_ exactly to write_: a walk over
\* them never lands inside a record, however often the ring has wrapped.
RECURSIVE WalkEnds(_, _)
WalkEnds(p, left) ==
    \/ left = 0 /\ p = write
    \/ /\ left > 0 /\ buffer[p].index = 0
       /\ LET n == Footprint(buffer[p].value) IN WalkEnds(Advance(p, n), left - n)
HeadersLeadToWrite ==
    ~Empty => WalkEnds(read, IF read = write THEN Capacity ELSE Used(read, write))

\* push and pop implement the lossy queue: nodes come out whole, in order and
\* once, and a push discards a prefix of the oldest ones (ringbuffer.cc:49,
\* ringbuffer.cc:104).
Lossy == INSTANCE LossyQueue WITH Nodes <- Node, queue <- Queue
ImplementsLossyQueue == Lossy!Spec

\* What ringbuffer_test.cc:24-41 expects of its three pushes: a push discards
\* only as many of the oldest nodes as it needs the room of.
\* The code breaks it: README, "Disagreements without a run".
RECURSIVE Words(_)
Words(q) == IF q = <<>> THEN 0 ELSE Footprint(Head(q).size) + Words(Tail(q))
PushDropsOnlyWhatItNeeds ==
    [][\A node \in Node : Push(node) =>
         \E n \in 0 .. Len(Queue) :
            /\ Queue' = Append(SubSeq(Queue, n + 1, Len(Queue)), node)
            /\ n > 0 => Words(SubSeq(Queue, n, Len(Queue))) + Footprint(node.size)
                            > Capacity]_vars
=============================================================================
