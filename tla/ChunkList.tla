----------------------------- MODULE ChunkList -----------------------------
(***************************************************************************)
(* ShmMsgChunkList: a fixed array of nodes in shared memory and two linked *)
(* lists over it that share the field `next', the free nodes (a stack) and *)
(* the messages waiting to be received (a queue).  The struct              *)
(* ChunkRegionList is the record this module's operators take and return;  *)
(* a pointer to a node is the node's index, nullptr is Null.               *)
(***************************************************************************)
EXTENDS Integers, Sequences

CONSTANT Capacity   \* Options::capacity, the number of nodes

ASSUME CapacityAssumption == Capacity \in Nat \ {0}

Nodes == 0 .. Capacity - 1
Null == -1

ChunkRegionList ==
    [head : Nodes \cup {Null}, tail : Nodes \cup {Null},
     free_list_head : Nodes \cup {Null}, next : [Nodes -> Nodes \cup {Null}]]

\* init: every node is free, linked in index order.
InitList ==
    [head |-> Null, tail |-> Null, free_list_head |-> 0,
     next |-> [n \in Nodes |-> IF n < Capacity - 1 THEN n + 1 ELSE Null]]

\* allocate_node returns l.free_list_head, and changes the list only if that is a node.
AllocateNode(l) ==
    IF l.free_list_head = Null THEN l
    ELSE [l EXCEPT !.free_list_head = l.next[l.free_list_head]]

DeallocateNode(l, n) ==
    [l EXCEPT !.next[n] = l.free_list_head, !.free_list_head = n]

\* Faulty variant of Put: the old tail is not linked to the new node.
PutUnlinked(l, n) ==
    [l EXCEPT !.next[n] = Null, !.tail = n, !.head = IF l.head = Null THEN n ELSE l.head]

Put(l, n) ==
    LET cut == [l.next EXCEPT ![n] = Null]
    IN  [l EXCEPT !.next = IF l.tail = Null THEN cut ELSE [cut EXCEPT ![l.tail] = n],
                  !.tail = n,
                  !.head = IF l.head = Null THEN n ELSE l.head]

\* Faulty variant of Pop: tail is not reset when the last node is taken.
PopKeepTail(l) ==
    IF l.head = Null THEN l ELSE [l EXCEPT !.head = l.next[l.head]]

\* pop returns l.head, and changes the list only if that is a node.
Pop(l) ==
    IF l.head = Null THEN l
    ELSE [l EXCEPT !.head = l.next[l.head],
                   !.tail = IF l.next[l.head] = Null THEN Null ELSE l.tail]

-----------------------------------------------------------------------------
\* The pointers `first' and `next' spell out the sequence s.
Linked(s, first, next) ==
    /\ first = IF s = <<>> THEN Null ELSE s[1]
    /\ \A i \in 1 .. Len(s) : next[s[i]] = IF i < Len(s) THEN s[i + 1] ELSE Null

NodesIn(s) == {s[i] : i \in 1 .. Len(s)}

Distinct(s) == \A i, j \in 1 .. Len(s) : s[i] = s[j] => i = j
=============================================================================
