------------------------------- MODULE RBTree -------------------------------
(***************************************************************************)
(* RBTree of red_black_tree.h.  A node is named by its key (no two nodes   *)
(* have the same one) and null_node_ is 0; its parent field is written by  *)
(* erase and is state like any other.  One step is one turn of a fixup     *)
(* loop, so that the states between two turns can be spoken of; left and   *)
(* right cases, mirror images in the code, share one text.                 *)
(***************************************************************************)
EXTENDS Naturals, FiniteSets

CONSTANTS Keys,   \* positive numbers
          Values, None

VARIABLES pc,      \* "idle", or the loop that runs: "insert", "erase", "again"
          tree,    \* root_ and the fields of the nodes
          iter,    \* iter_node of _insert_fixup, fixup_node of _erase_fixup
          doomed,  \* the node erase will delete, or nil
          pending, \* insert of a present key: its arguments, while erase runs
          last     \* the last call and what it returns (history)

vars == <<pc, tree, iter, doomed, pending, last>>

nil == 0
Nodes == Keys \cup {nil}
Sides == {"left", "right"}
NoCall == [key |-> nil, value |-> None]
NoLast == [op |-> "none", key |-> nil, value |-> None, ok |-> TRUE]

Empty ==
    [root |-> nil,
     child |-> [s \in Sides |-> [n \in Nodes |-> nil]],
     parent |-> [n \in Nodes |-> nil],
     color |-> [n \in Nodes |-> "BLACK"],
     value |-> [n \in Keys |-> None]]

Init ==
    /\ tree = Empty
    /\ pc = "idle" /\ iter = nil /\ doomed = nil /\ pending = NoCall /\ last = NoLast
-----------------------------------------------------------------------------
Other(s) == IF s = "left" THEN "right" ELSE "left"

SideOf(t, n) == IF n = t.child["left"][t.parent[n]] THEN "left" ELSE "right"

Paint(t, n, c) == [t EXCEPT !.color[n] = c]

RECURSIVE Find(_, _, _)
Find(t, n, k) ==
    IF n = nil \/ n = k THEN n
    ELSE Find(t, t.child[IF n < k THEN "right" ELSE "left"][n], k)

\* insert_parent_node: the last node on the way to an absent key.
RECURSIVE InsertParent(_, _, _)
InsertParent(t, n, k) ==
    LET next == t.child[IF k < n THEN "left" ELSE "right"][n]
    IN  IF n = nil \/ next = nil THEN n ELSE InsertParent(t, next, k)

RECURSIVE Minimum(_, _)
Minimum(t, n) ==
    IF t.child["left"][n] = nil THEN n ELSE Minimum(t, t.child["left"][n])

\* The pointer to n, in its parent or in root_, becomes one to m.
Relink(t, n, m) ==
    IF t.parent[n] = nil THEN [t EXCEPT !.root = m]
    ELSE [t EXCEPT !.child[SideOf(t, n)][t.parent[n]] = m]

\* _rotate_left for s = "left", _rotate_right for s = "right".
Rotate(t, n, s) ==
    LET up == t.child[Other(s)][n]
        inner == t.child[s][up]
        moved == [t EXCEPT !.child[Other(s)][n] = inner,
                           !.parent[inner] = IF inner # nil THEN n ELSE @,
                           !.parent[up] = t.parent[n]]
    IN  [Relink(moved, n, up) EXCEPT !.child[s][up] = n, !.parent[n] = up]

\* Mutant: null_node_ gets no parent.
TransplantSkipsNil(t, old, new) ==
    [Relink(t, old, new) EXCEPT !.parent[new] = IF new = nil THEN @ ELSE t.parent[old]]

\* _rb_transplant.
Transplant(t, old, new) == [Relink(t, old, new) EXCEPT !.parent[new] = t.parent[old]]

Delete(t, n) ==
    [t EXCEPT !.value[n] = None, !.parent[n] = nil, !.color[n] = "BLACK",
              !.child["left"][n] = nil, !.child["right"][n] = nil]
-----------------------------------------------------------------------------

\* The new node becomes a red leaf.
LinkNew(k, v) ==
    LET p == InsertParent(tree, tree.root, k)
        t == [tree EXCEPT !.parent[k] = p, !.value[k] = v, !.color[k] = "RED"]
    IN  /\ tree' = IF p = nil THEN [t EXCEPT !.root = k]
                   ELSE [t EXCEPT !.child[IF k < p THEN "left" ELSE "right"][p] = k]
        /\ pc' = "insert" /\ iter' = k

\* erase takes n out of the tree, a node with two children by way of its
\* successor; the fixup starts where a node came out.
Unlink(t, n) ==
    LET l == t.child["left"][n]
        r == t.child["right"][n]
        m == Minimum(t, r)
        x == t.child["right"][m]
        out == Transplant(t, m, x)
        taken == IF t.parent[m] = n THEN [t EXCEPT !.parent[x] = m]
                 ELSE [out EXCEPT !.child["right"][m] = out.child["right"][n],
                                  !.parent[out.child["right"][n]] = m]
    IN  IF l = nil THEN [tree |-> Transplant(t, n, r), fixup |-> r]
        ELSE IF r = nil THEN [tree |-> Transplant(t, n, l), fixup |-> l]
        ELSE [tree |-> [Transplant(taken, n, m) EXCEPT
                           !.child["left"][m] = l, !.parent[l] = m, !.color[m] = t.color[n]],
              fixup |-> x]

\* origin_color: the colour that leaves the tree, the successor's for a node
\* with two children.
OriginColor(t, n) ==
    IF nil \in {t.child[s][n] : s \in Sides} THEN t.color[n]
    ELSE t.color[Minimum(t, t.child["right"][n])]

\* erase up to _erase_fixup, or to its end when a red node came out.
BeginErase(k) ==
    LET u == Unlink(tree, k)
    IN  IF OriginColor(tree, k) = "BLACK"
        THEN tree' = u.tree /\ iter' = u.fixup /\ doomed' = k /\ pc' = "erase"
        ELSE /\ tree' = Delete(u.tree, k)
             /\ pc' = IF pending' = NoCall THEN "idle" ELSE "again"
             /\ UNCHANGED <<iter, doomed>>

\* Mutant: insert leaves a present key alone.
InsertKeepsPresent(k, v) ==
    /\ pc = "idle"
    /\ last' = [op |-> "insert", key |-> k, value |-> v, ok |-> TRUE]
    /\ IF Find(tree, tree.root, k) = nil THEN LinkNew(k, v) ELSE UNCHANGED <<tree, pc, iter>>
    /\ UNCHANGED <<doomed, pending>>

\* insert of a present key erases it first.
Insert(k, v) ==
    /\ pc = "idle"
    /\ last' = [op |-> "insert", key |-> k, value |-> v, ok |-> TRUE]
    /\ IF Find(tree, tree.root, k) = nil
       THEN LinkNew(k, v) /\ UNCHANGED <<doomed, pending>>
       ELSE pending' = [key |-> k, value |-> v] /\ BeginErase(k)

\* erase returns false for an absent key.
Erase(k) ==
    /\ pc = "idle"
    /\ last' = [op |-> "erase", key |-> k, value |-> None, ok |-> Find(tree, tree.root, k) # nil]
    /\ IF last'.ok THEN pending' = NoCall /\ BeginErase(k)
       ELSE UNCHANGED <<pc, tree, iter, doomed, pending>>

\* The insert that follows the erase of a present key.
InsertAgain ==
    /\ pc = "again"
    /\ LinkNew(pending.key, pending.value)
    /\ pending' = NoCall /\ UNCHANGED <<doomed, last>>
-----------------------------------------------------------------------------
\* The parent goes black and takes the place of the grandfather, which goes red.
LiftParent(t, p, g, s) == Rotate(Paint(Paint(t, p, "BLACK"), g, "RED"), g, Other(s))

\* Mutant: an outer grandchild is turned as well.
TurnAnyGrandchild(t, n) ==
    LET p == t.parent[n]
        g == t.parent[p]
        uncle == t.child[Other(SideOf(t, p))][g]
    IN  IF t.color[uncle] = "RED"
        THEN [tree |-> Paint(Paint(Paint(t, p, "BLACK"), uncle, "BLACK"), g, "RED"), iter |-> g]
        ELSE [tree |-> Rotate(t, p, Other(SideOf(t, n))), iter |-> p]

\* One turn of _insert_fixup: recolour under a red uncle, turn an inner
\* grandchild outwards, or rotate the grandfather down.
InsertTurn(t, n) ==
    LET p == t.parent[n]
        g == t.parent[p]
        s == SideOf(t, p)
        uncle == t.child[Other(s)][g]
    IN  IF t.color[uncle] = "RED"
        THEN [tree |-> Paint(Paint(Paint(t, p, "BLACK"), uncle, "BLACK"), g, "RED"), iter |-> g]
        ELSE IF n = t.child[Other(s)][p] THEN [tree |-> Rotate(t, p, s), iter |-> p]
        ELSE [tree |-> LiftParent(t, p, g, s), iter |-> n]

InsertFixup ==
    /\ pc = "insert"
    /\ IF tree.color[tree.parent[iter]] = "RED"
       THEN /\ tree' = InsertTurn(tree, iter).tree /\ iter' = InsertTurn(tree, iter).iter
            /\ UNCHANGED pc
       ELSE tree' = Paint(tree, tree.root, "BLACK") /\ pc' = "idle" /\ iter' = nil
    /\ UNCHANGED <<doomed, pending, last>>

\* The brother goes red and the missing black is the parent's.
PassUp(t, n, brother) == [tree |-> Paint(t, brother, "RED"), iter |-> t.parent[n]]

\* One turn of _erase_fixup.  A red brother is first rotated up; then either the
\* brother goes red and the loop moves up, or a red inner nephew is rotated
\* outwards, or a red outer nephew pays for the missing black.
EraseTurn(t, n) ==
    LET p == t.parent[n]
        s == SideOf(t, n)
        red == t.child[Other(s)][p]
        t1 == IF t.color[red] = "RED"
              THEN Rotate(Paint(Paint(t, red, "BLACK"), p, "RED"), p, s) ELSE t
        brother == t1.child[Other(s)][p]
        near == t1.child[s][brother]
        far == t1.child[Other(s)][brother]
        t2 == Rotate(Paint(Paint(Paint(t1, brother, t1.color[p]), p, "BLACK"), far, "BLACK"), p, s)
    IN  IF t1.color[near] = "BLACK" /\ t1.color[far] = "BLACK"
        THEN PassUp(t1, n, brother)
        ELSE IF t1.color[far] = "BLACK"
        THEN [tree |-> Rotate(Paint(Paint(t1, near, "BLACK"), brother, "RED"), brother, Other(s)),
              iter |-> n]
        ELSE [tree |-> t2, iter |-> t2.root]

EraseFixup ==
    /\ pc = "erase"
    /\ IF iter # tree.root /\ tree.color[iter] = "BLACK"
       THEN /\ tree' = EraseTurn(tree, iter).tree /\ iter' = EraseTurn(tree, iter).iter
            /\ UNCHANGED <<pc, doomed>>
       ELSE /\ tree' = Delete(Paint(tree, iter, "BLACK"), doomed)
            /\ pc' = IF pending = NoCall THEN "idle" ELSE "again"
            /\ iter' = nil /\ doomed' = nil
    /\ UNCHANGED <<pending, last>>

\* The nodes below n.
RECURSIVE Below(_, _)
Below(t, n) ==
    IF n = nil THEN {}
    ELSE {n} \cup Below(t, t.child["left"][n]) \cup Below(t, t.child["right"][n])

\* ~RBTree deletes what it reaches from root_; a new tree takes its place.
Destroy ==
    /\ pc = "idle" /\ tree.root # nil
    /\ tree' = [Empty EXCEPT !.value =
                   [k \in Keys |-> IF k \in Below(tree, tree.root) THEN None ELSE tree.value[k]]]
    /\ last' = NoLast
    /\ UNCHANGED <<pc, iter, doomed, pending>>

Fixup == InsertFixup \/ EraseFixup \/ InsertAgain

Next ==
    \/ \E k \in Keys : Erase(k) \/ \E v \in Values : Insert(k, v)
    \/ Fixup
    \/ Destroy

Spec == Init /\ [][Next]_vars

-----------------------------------------------------------------------------
Reached == Below(tree, tree.root)

\* Black nodes on every path from n down, null_node_ and one extra black at the
\* place `extra` included; 0 when two paths differ.
RECURSIVE BlackHeight(_, _, _)
BlackHeight(p, s, extra) ==
    LET n == IF p = nil THEN tree.root ELSE tree.child[s][p]
        own == (IF tree.color[n] = "BLACK" THEN 1 ELSE 0) + (IF extra = <<p, s>> THEN 1 ELSE 0)
        l == BlackHeight(n, "left", extra)
    IN  IF n = nil THEN own
        ELSE IF l = 0 \/ l # BlackHeight(n, "right", extra) THEN 0 ELSE l + own

\* The five rules at the head of red_black_tree.h hold whenever no call is
\* running: root and null_node_ black, no red child of a red node, the same
\* number of black nodes on every path.
RedBlackRules ==
    pc \in {"idle", "again"} =>
        /\ tree.color[tree.root] = "BLACK" /\ tree.color[nil] = "BLACK"
        /\ \A n \in Reached, s \in Sides :
              tree.color[n] = "RED" => tree.color[tree.child[s][n]] = "BLACK"
        /\ BlackHeight(nil, "left", <<>>) > 0

\* During _insert_fixup the only rule broken is the one between iter_node and
\* its parent (or the root's colour), and every path has the same black nodes.
InsertBreaksOneRule ==
    pc = "insert" =>
        /\ tree.color[iter] = "RED" /\ BlackHeight(nil, "left", <<>>) > 0
        /\ \A n \in Reached, s \in Sides :
              tree.color[n] = "RED" /\ tree.color[tree.child[s][n]] = "RED"
                  => tree.child[s][n] = iter
        /\ \A n \in Reached : n = tree.root /\ tree.color[n] = "RED" => n = iter

\* During _erase_fixup the tree is short of exactly one black, at fixup_node,
\* also when that is the shared null_node_, whose parent field says which of its
\* places is meant.
EraseOwesOneBlack ==
    pc = "erase" /\ tree.color[iter] = "BLACK" =>
        BlackHeight(nil, "left",
                    IF iter = tree.root THEN <<nil, "left">>
                    ELSE <<tree.parent[iter], SideOf(tree, iter)>>) > 0

\* A child's parent field names the node it hangs under, and the allocated nodes
\* are those in the tree, but for the one that erase still has to delete.
ParentsAgree ==
    /\ \A n \in Reached, s \in Sides :
          tree.child[s][n] # nil => tree.parent[tree.child[s][n]] = n
    /\ tree.root # nil => tree.parent[tree.root] = nil
    /\ {k \in Keys : tree.value[k] # None} = Reached \cup ({doomed} \ {nil})

\* To its callers the tree is a map: what find returns changes as insert, erase
\* and the destructor say, at one point of each call.
dict ==
    [k \in Keys |-> IF k = pending.key THEN pending.value
                    ELSE IF Find(tree, tree.root, k) = nil THEN None ELSE tree.value[k]]

Map == INSTANCE Dictionary

\* The tree implements the map of module Dictionary.
ImplementsDictionary == Map!Spec

\* Black nodes above n.
RECURSIVE BlackAbove(_)
BlackAbove(n) ==
    LET p == tree.parent[n]
    IN  IF p = nil THEN 0
        ELSE BlackAbove(p) + (IF tree.color[p] = "BLACK" THEN 1 ELSE 0)

\* How far a fixup loop is from its end: the black nodes above the place where
\* it works count most, then the case that the next turn is in.
InsertRank ==
    LET p == tree.parent[iter]
        s == SideOf(tree, p)
    IN  IF tree.color[p] # "RED" THEN 0
        ELSE 3 * BlackAbove(iter) + (IF iter = tree.child[Other(s)][p] THEN 2 ELSE 1)
EraseRank ==
    LET p == tree.parent[iter]
        s == SideOf(tree, iter)
        brother == tree.child[Other(s)][p]
    IN  IF iter = tree.root \/ tree.color[iter] = "RED" THEN 0
        ELSE 3 * BlackAbove(iter) + (IF tree.color[brother] = "RED" THEN 2
                                     ELSE IF tree.color[tree.child[Other(s)][brother]] = "BLACK"
                                             /\ tree.color[tree.child[s][brother]] = "RED" THEN 1
                                     ELSE 0)

\* Every insert and erase comes to its end: each turn of _insert_fixup and of
\* _erase_fixup, whichever case it takes, brings the loop nearer to it.
FixupTurnsShrink ==
    [][/\ (pc = "insert" /\ pc' = "insert") => InsertRank' < InsertRank
       /\ (pc = "erase" /\ pc' = "erase") => EraseRank' < EraseRank]_vars
=============================================================================
