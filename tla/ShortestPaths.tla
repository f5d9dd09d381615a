--------------------------- MODULE ShortestPaths ----------------------------
(***************************************************************************)
(* BellmanFord, SPFA, Dijkstra (force and heap) and Floyd over the Graph   *)
(* of graph.h.  An object keeps answer and visit_ between calls; only      *)
(* Dijkstra has a reset.  INF stands for INT32_MAX, which int64_t sums do  *)
(* not overflow.                                                           *)
(***************************************************************************)
EXTENDS Integers, Sequences, FiniteSets, FiniteSetsExt, SequencesExt

CONSTANTS N,         \* nodes are 0 .. N - 1
          MaxEdges,
          Weights,   \* weights that may occur
          Negative,  \* Weights occur negated too
          Objects    \* the classes and methods to run

VARIABLES kind, edges,   \* the object's class and the input of Graph
          answer, visit, \* the object; answer[u][v] for Floyd
          call           \* the last call: [start, flag], flag "wild" after a stray subscript

vars == <<kind, edges, answer, visit, call>>

INF == 1000
Nodes == 0..(N - 1)
AllWeights == Weights \cup (IF Negative THEN {-w : w \in Weights} ELSE {})
Edges == {e \in [u : Nodes, v : Nodes, w : AllWeights] : e.u # e.v}
NoCall == [start |-> -1, flag |-> "none"]

\* The constructor of Graph: the edges out of u, in the order given.
Adjacent(u) == SelectSeq(edges, LAMBDA e : e.u = u)

Smaller(a, b) == IF a <= b THEN a ELSE b

Far == [u \in Nodes |-> INF]

\* The constructor of Floyd: the last of several parallel edges counts.
FloydStart ==
    [u \in Nodes |-> [v \in Nodes |->
        IF u = v THEN 0
        ELSE LET to == SelectSeq(Adjacent(u), LAMBDA e : e.v = v)
             IN  IF to = <<>> THEN INF ELSE Last(to).w]]

Init ==
    /\ kind \in Objects
    /\ edges \in SeqOf(Edges, MaxEdges)
    /\ answer = IF kind = "Floyd" THEN FloydStart ELSE Far
    /\ visit = [u \in Nodes |-> 0]
    /\ call = NoCall
-----------------------------------------------------------------------------
\* The loop over the edges of a node that all of them share.
Relax(a, es) ==
    FoldLeft(LAMBDA b, e : IF b[e.v] > b[e.u] + e.w THEN [b EXCEPT ![e.v] = b[e.u] + e.w] ELSE b,
             a, es)

\* One round of BellmanFord over all nodes.
Round(a) ==
    FoldLeft(LAMBDA b, u : IF b[u] = INF THEN b ELSE Relax(b, Adjacent(u)), a,
             [i \in 1..N |-> i - 1])

\* Rounds until nothing changes, at most N; the flag is that of the last round.
RECURSIVE Rounds(_, _)
Rounds(a, i) ==
    LET b == Round(a)
    IN  IF b = a THEN [answer |-> a, flag |-> FALSE]
        ELSE IF i = N THEN [answer |-> b, flag |-> TRUE]
        ELSE Rounds(b, i + 1)

BellmanFord(s) ==
    LET r == Rounds([answer EXCEPT ![s] = 0], 1)
    IN  /\ kind = "BellmanFord"
        /\ answer' = r.answer /\ call' = [start |-> s, flag |-> IF r.flag THEN "cycle" ELSE "ok"]
        /\ UNCHANGED <<kind, edges, visit>>

\* One edge of SPFA: relaxing it counts the edges of the path and queues v.
SpfaEdge(st, e) ==
    IF st.cycle \/ st.answer[e.v] <= st.answer[e.u] + e.w THEN st
    ELSE LET n == st.count[e.u] + 1
             cycle == n >= N
             queue == ~cycle /\ st.queued[e.v] = 0
         IN  [answer |-> [st.answer EXCEPT ![e.v] = st.answer[e.u] + e.w],
              count |-> [st.count EXCEPT ![e.v] = n],
              queued |-> IF queue THEN [st.queued EXCEPT ![e.v] = 1] ELSE st.queued,
              q |-> IF queue THEN Append(st.q, e.v) ELSE st.q,
              cycle |-> cycle]

RECURSIVE SpfaLoop(_)
SpfaLoop(st) ==
    LET u == Head(st.q)
        out == [st EXCEPT !.q = Tail(@), !.queued[u] = 0]
    IN  IF st.cycle \/ st.q = <<>> THEN st
        ELSE SpfaLoop(FoldLeft(SpfaEdge, out, Adjacent(u)))

SPFA(s) ==
    LET zero == [u \in Nodes |-> 0]
        st == SpfaLoop([answer |-> [answer EXCEPT ![s] = 0], count |-> zero,
                        queued |-> [zero EXCEPT ![s] = 1], q |-> <<s>>, cycle |-> FALSE])
    IN  /\ kind = "SPFA"
        /\ answer' = st.answer /\ call' = [start |-> s, flag |-> IF st.cycle THEN "cycle" ELSE "ok"]
        /\ UNCHANGED <<kind, edges, visit>>

\* force: N times the first nearest node not visited.  When only unreached
\* nodes are left u stays -1, and visit_[-1] and graph_[-1] are used.
RECURSIVE ForceLoop(_, _, _)
ForceLoop(a, vis, i) ==
    LET near == {j \in Nodes : vis[j] = 0 /\ a[j] < INF /\ \A k \in Nodes : vis[k] = 0 => a[j] <= a[k]}
        u == Min(near)
    IN  IF i = N THEN [answer |-> a, visit |-> vis, wild |-> FALSE]
        ELSE IF near = {} THEN [answer |-> a, visit |-> vis, wild |-> TRUE]
        ELSE ForceLoop(Relax(a, Adjacent(u)), [vis EXCEPT ![u] = 1], i + 1)

Force(s) ==
    LET r == ForceLoop([answer EXCEPT ![s] = 0], visit, 0)
    IN  /\ kind = "force"
        /\ answer' = r.answer /\ visit' = r.visit
        /\ call' = [start |-> s, flag |-> IF r.wild THEN "wild" ELSE "ok"]
        /\ UNCHANGED <<kind, edges>>

\* Mutant: a node counts as visited when it is queued.
PushVisited(st, e) ==
    IF st.answer[e.v] <= st.answer[e.u] + e.w \/ st.visit[e.v] = 1 THEN st
    ELSE [answer |-> [st.answer EXCEPT ![e.v] = st.answer[e.u] + e.w],
          visit |-> [st.visit EXCEPT ![e.v] = 1],
          q |-> st.q \cup {[weight |-> st.answer[e.u] + e.w, node |-> e.v]}]

\* One edge in dijkstra.
PushEdge(st, e) ==
    IF st.answer[e.v] <= st.answer[e.u] + e.w THEN st
    ELSE [answer |-> [st.answer EXCEPT ![e.v] = st.answer[e.u] + e.w],
          visit |-> st.visit,
          q |-> st.q \cup {[weight |-> st.answer[e.u] + e.w, node |-> e.v]}]

\* The heap is a set of entries, of which any lightest is popped.
RECURSIVE HeapLoop(_)
HeapLoop(st) ==
    IF st.q = {} THEN {st}
    ELSE UNION {LET popped == [st EXCEPT !.q = @ \ {top}]
                    seen == [popped EXCEPT !.visit[top.node] = 1]
                IN  IF st.visit[top.node] = 1 THEN HeapLoop(popped)
                    ELSE HeapLoop(FoldLeft(PushEdge, seen, Adjacent(top.node))) :
                top \in {x \in st.q : \A y \in st.q : x.weight <= y.weight}}

Dijkstra(s) ==
    /\ kind = "dijkstra"
    /\ \E st \in HeapLoop([answer |-> [answer EXCEPT ![s] = 0], visit |-> visit,
                           q |-> {[weight |-> 0, node |-> s]}]) :
          answer' = st.answer /\ visit' = st.visit
    /\ call' = [start |-> s, flag |-> "ok"]
    /\ UNCHANGED <<kind, edges>>

Reset ==
    /\ kind \in {"force", "dijkstra"} /\ call # NoCall /\ call.flag # "wild"
    /\ answer' = Far /\ visit' = [u \in Nodes |-> 0] /\ call' = NoCall
    /\ UNCHANGED <<kind, edges>>

\* Turn i of the three loops, k outermost.
LoopAt(i) == [k |-> i \div (N * N), u |-> (i \div N) % N, v |-> i % N]

\* One turn; call.start counts them.
Floyd ==
    LET i == IF call = NoCall THEN 0 ELSE call.start
        t == LoopAt(i)
        via == answer[t.u][t.k] + answer[t.k][t.v]
    IN  /\ kind = "Floyd" /\ call.flag \in {"none", "loop"}
        /\ answer' = [answer EXCEPT ![t.u][t.v] = Smaller(@, via)]
        /\ call' = [start |-> i + 1, flag |-> IF i + 1 = N * N * N THEN "ok" ELSE "loop"]
        /\ UNCHANGED <<kind, edges, visit>>

Run(s) == BellmanFord(s) \/ SPFA(s) \/ Force(s) \/ Dijkstra(s)

\* One call per object, or per reset.
Next == (call = NoCall /\ \E s \in Nodes : Run(s)) \/ Reset \/ Floyd

Spec == Init /\ [][Next]_vars

\* Objects are called again without a reset.
SpecReuse == Init /\ [][(call.flag \in {"none", "ok"} /\ \E s \in Nodes : Run(s)) \/ Reset]_vars
-----------------------------------------------------------------------------
\* Reference: the weights of the paths from u to v without repeated nodes, and
\* the cycles that can be reached.
Direct(u, v) == {edges[i].w : i \in {i \in DOMAIN edges : edges[i].u = u /\ edges[i].v = v}}

RECURSIVE PathWeights(_, _, _)
PathWeights(u, v, avoid) ==
    IF u = v THEN {0}
    ELSE UNION {{w + p : w \in Direct(u, x), p \in PathWeights(x, v, avoid \cup {u})} :
                   x \in Nodes \ (avoid \cup {u})}

Distance(u, v) == LET ws == PathWeights(u, v, {}) IN IF ws = {} THEN INF ELSE Min(ws)

NegativeCycleAt(x) ==
    \E y \in Nodes : \E w \in Direct(x, y) : Distance(y, x) < INF /\ w + Distance(y, x) < 0

NegativeCycleFrom(s) == \E x \in Nodes : Distance(s, x) < INF /\ NegativeCycleAt(x)

\* BellmanFord returns true, and SPFA false, exactly when a negative cycle can
\* be reached from the start; otherwise answer holds the distances, INF where
\* there is no path.
NegativeCyclesAreFound ==
    kind \in {"BellmanFord", "SPFA"} /\ call # NoCall =>
        /\ call.flag = "cycle" <=> NegativeCycleFrom(call.start)
        /\ call.flag = "ok" => \A v \in Nodes : answer[v] = Distance(call.start, v)

\* Both methods of Dijkstra compute the distances when no weight is negative,
\* however ties in the heap are broken, on every graph whose nodes can all be
\* reached for force.
DijkstraIsRight ==
    kind \in {"force", "dijkstra"} /\ call.flag = "ok" =>
        \A v \in Nodes : answer[v] = Distance(call.start, v)

\* Floyd computes the distance of every pair, on graphs without parallel edges.
\* (Stated of instances whose Floyd graphs have no negative weight.)
FloydIsRight ==
    kind = "Floyd" /\ call.flag = "ok"
    /\ (\A u, v \in Nodes : Cardinality({i \in DOMAIN edges : edges[i].u = u /\ edges[i].v = v}) <= 1)
        => \A u, v \in Nodes : answer[u][v] = Distance(u, v)

\* Floyd is right for any weights as long as the shortest path exists
\* (floyd.h:2), also between nodes that no path connects.
\* The code breaks it: README, "Disagreements without a run".
FloydAnyWeights ==
    kind = "Floyd" /\ call.flag = "ok" /\ ~(\E x \in Nodes : NegativeCycleAt(x))
    /\ (\A u, v \in Nodes : Cardinality({i \in DOMAIN edges : edges[i].u = u /\ edges[i].v = v}) <= 1)
        => \A u, v \in Nodes : answer[u][v] = Distance(u, v)

\* force solves every graph with weights that are not negative (dijkstra.h:2).
\* The code breaks it: README, "Disagreements without a run".
ForceSolvesEveryGraph == call.flag # "wild"

\* answer holds the distances from start_node (bellman_ford.h:46), on the second
\* call of an object too.
\* The code breaks it: README, "Disagreements without a run".
AnswerIsFromStart == call.flag = "ok" => \A v \in Nodes : answer[v] = Distance(call.start, v)
=============================================================================
