----------------------------- MODULE GraphOrder -----------------------------
(***************************************************************************)
(* TopoLogicalSort of topological_sort.h and the function tarjan sketched  *)
(* in tarjan.h, on one graph.  A TopoLogicalSort keeps its answer between  *)
(* calls.                                                                  *)
(***************************************************************************)
EXTENDS Integers, Sequences, FiniteSets, SequencesExt

CONSTANTS N, MaxEdges, MaxCalls

VARIABLES edges,    \* the edges, in the order of the adjacency lists
          answer,   \* the object's answer
          sortable, \* what the last call returned
          calls,
          scc       \* what tarjan computed: node |-> component, 0 before

vars == <<edges, answer, sortable, calls, scc>>

Nodes == 0..(N - 1)
\* graph[u].
Successors(u) ==
    LET out == SelectSeq(edges, LAMBDA e : e[1] = u) IN [i \in DOMAIN out |-> out[i][2]]

Init ==
    /\ edges \in SeqOf(Nodes \X Nodes, MaxEdges)
    /\ answer = <<>> /\ sortable = FALSE /\ calls = 0
    /\ scc = [u \in Nodes |-> 0]

\* The in-degrees the caller passes.
InDegree == [v \in Nodes |-> Cardinality({i \in DOMAIN edges : edges[i][2] = v})]

\* --in[v] == 0.
DropEdge(st, v) ==
    [st EXCEPT !.in[v] = @ - 1, !.q = IF st.in[v] = 1 THEN Append(@, v) ELSE @]

RECURSIVE SortLoop(_)
SortLoop(st) ==
    IF st.q = <<>> THEN st
    ELSE SortLoop(FoldLeft(DropEdge, [st EXCEPT !.q = Tail(@), !.out = Append(@, Head(st.q))],
                           Successors(Head(st.q))))

TopologicalSort ==
    LET free == SelectSeq([i \in 1..N |-> i - 1], LAMBDA u : InDegree[u] = 0)
        st == SortLoop([in |-> InDegree, q |-> free, out |-> answer])
    IN  /\ calls < MaxCalls
        /\ answer' = st.out /\ sortable' = (Len(st.out) = N)
        /\ calls' = calls + 1
        /\ UNCHANGED <<edges, scc>>
-----------------------------------------------------------------------------
Least(a, b) == IF a <= b THEN a ELSE b

\* Nodes popped off the stack down to u form a component.
PopComponent(st, u) ==
    LET top == CHOOSE i \in DOMAIN st.s : st.s[i] = u
        members == {st.s[i] : i \in top..Len(st.s)}
    IN  [st EXCEPT !.sc = @ + 1, !.s = SubSeq(@, 1, top - 1),
                   !.scc = [v \in Nodes |-> IF v \in members THEN st.sc + 1 ELSE st.scc[v]]]

\* Mutant: edges to finished components count too.
OnStackOrDone(st, v) == TRUE

\* in_stack[v].
InStack(st, v) == \E i \in DOMAIN st.s : st.s[i] = v

RECURSIVE Tarjan(_, _)
Tarjan(st, u) ==
    LET Visit(x, v) ==
            IF x.dfn[v] = 0
            THEN LET y == Tarjan(x, v) IN [y EXCEPT !.low[u] = Least(y.low[u], y.low[v])]
            ELSE IF InStack(x, v) THEN [x EXCEPT !.low[u] = Least(x.low[u], x.dfn[v])]
            ELSE x
        begun == [st EXCEPT !.cnt = @ + 1, !.dfn[u] = st.cnt + 1, !.low[u] = st.cnt + 1,
                            !.s = Append(@, u)]
        done == FoldLeft(Visit, begun, Successors(u))
    IN  IF done.dfn[u] = done.low[u] THEN PopComponent(done, u) ELSE done

\* tarjan from every node not reached before.
Components ==
    LET zero == [u \in Nodes |-> 0]
        start == [cnt |-> 0, dfn |-> zero, low |-> zero, s |-> <<>>, scc |-> zero, sc |-> 0]
        all == FoldLeft(LAMBDA st, u : IF st.dfn[u] = 0 THEN Tarjan(st, u) ELSE st,
                        start, [i \in 1..N |-> i - 1])
    IN  /\ scc[0] = 0
        /\ scc' = all.scc
        /\ UNCHANGED <<edges, answer, sortable, calls>>

Next == TopologicalSort \/ Components

Spec == Init /\ [][Next]_vars
-----------------------------------------------------------------------------
RECURSIVE ReachedIn(_, _)
ReachedIn(us, n) ==
    IF n = 0 THEN us
    ELSE ReachedIn(us \cup {edges[i][2] : i \in {i \in DOMAIN edges : edges[i][1] \in us}}, n - 1)

\* v can be reached from u along at least one edge.
Reaches(u, v) ==
    \E i \in DOMAIN edges : edges[i][1] = u /\ v \in ReachedIn({edges[i][2]}, N)

\* The first call returns true exactly when no node can reach itself; then answer
\* holds every node once and each edge leads forwards.
SortsAcyclicGraphs ==
    calls = 1 =>
        /\ sortable <=> \A u \in Nodes : ~Reaches(u, u)
        /\ sortable => Len(answer) = N /\ Range(answer) = Nodes
        /\ sortable => \A i \in DOMAIN edges :
              \E a, b \in DOMAIN answer : a < b /\ answer[a] = edges[i][1] /\ answer[b] = edges[i][2]

\* Two nodes are in one component exactly when each reaches the other.
ComponentsAreStrong ==
    scc[0] # 0 => \A u, v \in Nodes :
        scc[u] = scc[v] <=> (u = v \/ (Reaches(u, v) /\ Reaches(v, u)))

\* A call returns true when the graph can be sorted (topological_sort.h:15),
\* on an object used before too.
\* The code breaks it: README, "Disagreements without a run".
ReturnsWhetherSortable == calls > 0 => (sortable <=> \A u \in Nodes : ~Reaches(u, u))
=============================================================================
