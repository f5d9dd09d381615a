-------------------------------- MODULE Trie --------------------------------
(***************************************************************************)
(* Trie of trie.h.  A node is a number, children a partial map from        *)
(* characters to nodes; words and prefixes are short sequences of letters. *)
(***************************************************************************)
EXTENDS Naturals, Sequences, FiniteSets, SequencesExt

CONSTANTS Letters, MaxLen, MaxWords

VARIABLES children, \* node |-> letter |-> node, 0 where there is none
          end,      \* nodes at which a word ends
          nodes,    \* nodes allocated; 1 is root_
          words     \* the words inserted (history)

vars == <<children, end, nodes, words>>

Words == SeqOf(Letters, MaxLen)
NoChildren == [c \in Letters |-> 0]

Init ==
    /\ children = <<NoChildren>> /\ end = {} /\ nodes = 1
    /\ words = {}

\* The node that s leads to from n, 0 when the way ends.
RECURSIVE Walk(_, _)
Walk(n, s) ==
    IF s = <<>> \/ n = 0 THEN n ELSE Walk(children[n][Head(s)], Tail(s))

\* The nodes after insert has made those missing on the way of s, and the last.
RECURSIVE Grow(_, _, _)
Grow(ch, n, s) ==
    LET new == Append([ch EXCEPT ![n][Head(s)] = Len(ch) + 1], NoChildren)
    IN  IF s = <<>> THEN [children |-> ch, last |-> n]
        ELSE IF ch[n][Head(s)] # 0 THEN Grow(ch, ch[n][Head(s)], Tail(s))
        ELSE Grow(new, Len(ch) + 1, Tail(s))

\* Mutant: a node is allocated for every letter before the lookup.
InsertAllocatesFirst(s) ==
    LET g == Grow(children, 1, s)
    IN  /\ Cardinality(words) < MaxWords
        /\ children' = g.children /\ nodes' = nodes + Len(s)
        /\ end' = end \cup {g.last}
        /\ words' = words \cup {s}

Insert(s) ==
    LET g == Grow(children, 1, s)
    IN  /\ Cardinality(words) < MaxWords
        /\ children' = g.children /\ nodes' = nodes + Len(g.children) - Len(children)
        /\ end' = end \cup {g.last}
        /\ words' = words \cup {s}

\* The nodes ~Trie deletes.
RECURSIVE Reach(_)
Reach(n) == {n} \cup UNION {Reach(children[n][c]) : c \in {c \in Letters : children[n][c] # 0}}

\* ~Trie, and a new object.
Destroy ==
    /\ words # {}
    /\ children' = <<NoChildren>> /\ end' = {} /\ words' = {}
    /\ nodes' = nodes - Cardinality(Reach(1)) + 1

Query(s) == Walk(1, s) # 0 /\ Walk(1, s) \in end

StartWith(s) == Walk(1, s) # 0

Next == Destroy \/ \E s \in Words : Insert(s)

Spec == Init /\ [][Next]_vars
-----------------------------------------------------------------------------
\* query finds exactly the words inserted, also when one is a prefix of another
\* and in whatever order they came.
QueryFindsWords == \A s \in Words : Query(s) <=> s \in words

\* start_with finds exactly the prefixes of inserted words; every prefix of an
\* empty trie but the empty one is refused.
StartWithFindsPrefixes ==
    \A s \in Words : StartWith(s) <=> s = <<>> \/ \E w \in words : IsPrefix(s, w)

\* Every node allocated is one the destructor reaches.
NodesAreReached == nodes = Cardinality(Reach(1))
=============================================================================
