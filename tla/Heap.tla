-------------------------------- MODULE Heap --------------------------------
(***************************************************************************)
(* MaxHeap and MinHeap of heap.h, which differ in one comparison.  The     *)
(* vector never shrinks: behind size_ it keeps what pop swapped out, and   *)
(* push writes over it.  Indexes are those of the code plus one.  pop and  *)
(* top of an empty heap are undefined and not called.                      *)
(***************************************************************************)
EXTENDS Naturals, Sequences, FiniteSets

CONSTANTS Values, MaxSize

VARIABLES kind,   \* "max" or "min"
          buffer, size,
          bag     \* how often each value has been pushed and not popped (history)

vars == <<kind, buffer, size, bag>>

\* The comparison that makes the heap swap parent a with child b.
Below(a, b) == IF kind = "max" THEN a < b ELSE a > b

Swap(s, i, j) == [s EXCEPT ![i] = s[j], ![j] = s[i]]

Init ==
    /\ kind \in {"max", "min"}
    /\ buffer = <<>> /\ size = 0 /\ bag = [v \in Values |-> 0]

RECURSIVE HeapifyUp(_, _)
HeapifyUp(s, child) ==
    LET parent == child \div 2
    IN  IF child > 1 /\ Below(s[parent], s[child])
        THEN HeapifyUp(Swap(s, parent, child), parent) ELSE s

Push(v) ==
    /\ size < MaxSize
    /\ size' = size + 1
    /\ buffer' = HeapifyUp(IF size + 1 > Len(buffer) THEN Append(buffer, v)
                           ELSE [buffer EXCEPT ![size + 1] = v], size + 1)
    /\ bag' = [bag EXCEPT ![v] = @ + 1]
    /\ UNCHANGED kind

\* The child to compare with: the right one when it exists and wins.
BestChild(s, n, parent) ==
    IF 2 * parent + 1 <= n /\ Below(s[2 * parent], s[2 * parent + 1])
    THEN 2 * parent + 1 ELSE 2 * parent

RECURSIVE HeapifyDown(_, _, _)
HeapifyDown(s, n, parent) ==
    LET child == BestChild(s, n, parent)
    IN  IF 2 * parent <= n /\ Below(s[parent], s[child])
        THEN HeapifyDown(Swap(s, parent, child), n, child) ELSE s

Pop ==
    /\ size > 0
    /\ size' = size - 1
    /\ buffer' = HeapifyDown(Swap(buffer, 1, size), size - 1, 1)
    /\ bag' = [bag EXCEPT ![buffer[1]] = @ - 1]
    /\ UNCHANGED kind

Next == Pop \/ \E v \in Values : Push(v)

Spec == Init /\ [][Next]_vars
-----------------------------------------------------------------------------
\* The first size_ elements are what has been pushed and not popped; nothing
\* that pop left behind in the vector comes back.
HoldsWhatWasPushed ==
    \A v \in Values : Cardinality({i \in 1..size : buffer[i] = v}) = bag[v]

\* top() is the largest element of a MaxHeap, the smallest of a MinHeap, after
\* any pushes and pops.
TopIsBest == size > 0 => \A i \in 1..size : ~Below(buffer[1], buffer[i])
=============================================================================
