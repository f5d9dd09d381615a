----------------------------- MODULE LossyQueue -----------------------------
(***************************************************************************)
(* What RingBuffer promises: a FIFO queue of nodes that never blocks.  A   *)
(* push may discard the oldest nodes, and only those; a pop returns the    *)
(* oldest node that is left, or an empty node.                             *)
(***************************************************************************)
EXTENDS Sequences, SequencesExt

CONSTANTS Nodes, EmptyNode

VARIABLES queue, popped

Init == queue = <<>> /\ popped = EmptyNode

Push(node) ==
    /\ UNCHANGED popped
    /\ queue' # <<>> /\ Last(queue') = node
    /\ Front(queue') \in Suffixes(queue)

Pop ==
    \/ queue = <<>> /\ popped' = EmptyNode /\ UNCHANGED queue
    \/ queue # <<>> /\ popped' = Head(queue) /\ queue' = Tail(queue)

Next == Pop \/ \E node \in Nodes : Push(node)

Spec == Init /\ [][Next]_<<queue, popped>>
=============================================================================
