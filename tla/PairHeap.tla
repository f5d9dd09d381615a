------------------------------ MODULE PairHeap ------------------------------
(***************************************************************************)
(* PairTree of pair_heap.h, a pairing heap whose nodes belong to the       *)
(* caller.  child is a node's first child, brother its next sibling, and   *)
(* father its parent for a first child, its previous sibling otherwise.    *)
(* Callers push a node once and update lowers a value.                     *)
(***************************************************************************)
EXTENDS Naturals, FiniteSets

CONSTANTS Nodes, Values, null

VARIABLES heap,   \* [root, value, child, brother, father]
          popped  \* what the last call popped, null after the others (history)

vars == <<heap, popped>>

Null == [n \in Nodes |-> null]

Init ==
    /\ \E v \in [Nodes -> Values] :
          heap = [root |-> null, value |-> v, child |-> Null, brother |-> Null, father |-> Null]
    /\ popped = null

\* _merge: the root with the larger value becomes the other's first child.
Merge(h, a, b) ==
    LET top == IF h.value[a] > h.value[b] THEN b ELSE a
        sub == IF top = a THEN b ELSE a
        old == h.child[top]
        h1 == IF old # null THEN [h EXCEPT !.father[old] = sub] ELSE h
    IN  IF a = null THEN [heap |-> h, root |-> b] ELSE IF b = null THEN [heap |-> h, root |-> a]
        ELSE [heap |-> [h1 EXCEPT !.brother[sub] = old, !.father[sub] = top, !.child[top] = sub],
              root |-> top]

\* _merges: the siblings from n on, merged in pairs from the left, then together
\* from the right.
RECURSIVE Merges(_, _)
Merges(h, n) ==
    LET brother == h.brother[n]
        next == h.brother[brother]
        cut == [h EXCEPT !.father[n] = null, !.father[brother] = null,
                         !.brother[n] = null, !.brother[brother] = null]
        pair == Merge(cut, n, brother)
        rest == Merges(pair.heap, next)
    IN  IF n = null THEN [heap |-> h, root |-> null]
        ELSE IF brother = null THEN [heap |-> [h EXCEPT !.father[n] = null], root |-> n]
        ELSE Merge(rest.heap, rest.root, pair.root)

RECURSIVE Siblings(_, _)
Siblings(h, n) ==
    IF n = null THEN {}
    ELSE {n} \cup Siblings(h, h.child[n]) \cup Siblings(h, h.brother[n])

\* The nodes in the heap.
Held == Siblings(heap, heap.root)

SetRoot(m) == heap' = [m.heap EXCEPT !.root = m.root]

Push(n) ==
    /\ n \notin Held
    /\ SetRoot(Merge(heap, n, heap.root))
    /\ popped' = null

\* Mutant: the next sibling keeps its father.
DetachKeepsFather(h, n) ==
    LET f == h.father[n]
        h1 == IF h.child[f] = n THEN [h EXCEPT !.child[f] = h.brother[n]]
              ELSE [h EXCEPT !.brother[f] = h.brother[n]]
    IN  [h1 EXCEPT !.brother[n] = null, !.father[n] = null]

\* update takes n, with what is below it, out of its father's children.
Detach(h, n) ==
    LET f == h.father[n]
        b == h.brother[n]
        h1 == IF h.child[f] = n THEN [h EXCEPT !.child[f] = b] ELSE [h EXCEPT !.brother[f] = b]
        h2 == IF b # null THEN [h1 EXCEPT !.father[b] = f] ELSE h1
    IN  [h2 EXCEPT !.brother[n] = null, !.father[n] = null]

Update(n, v) ==
    LET h == [heap EXCEPT !.value[n] = v]
    IN  /\ n \in Held /\ v < heap.value[n]
        /\ IF n = heap.root THEN heap' = h ELSE SetRoot(Merge(Detach(h, n), heap.root, n))
        /\ popped' = null

\* pop hands _merges the root itself, not its first child.
Pop ==
    LET m == Merges(heap, heap.root)
    IN  /\ heap.root # null
        /\ heap' = [m.heap EXCEPT !.root = m.root,
                                  !.brother[heap.root] = null, !.father[heap.root] = null]
        /\ popped' = heap.root

Next ==
    \/ Pop
    \/ \E n \in Nodes : Push(n) \/ \E v \in Values : Update(n, v)

Spec == Init /\ [][Next]_vars
-----------------------------------------------------------------------------
\* top() is a node with the smallest value, also after update has moved nodes.
TopIsSmallest == \A n \in Held : heap.value[heap.root] <= heap.value[n]

\* father leads back along child and brother, so that update cuts a node out
\* of the right list.
FathersAgree ==
    \A n \in Held :
        /\ heap.child[n] # null => heap.father[heap.child[n]] = n
        /\ heap.brother[n] # null => heap.father[heap.brother[n]] = n

\* pop takes the node it returns out of the heap.
\* The code breaks it: README, "Disagreements without a run".
PopTakesOut == popped # null => popped \notin Held
=============================================================================
