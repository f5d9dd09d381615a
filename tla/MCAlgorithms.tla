---------------------------- MODULE MCAlgorithms ----------------------------
(***************************************************************************)
(* The pure algorithms for TLC.  A behaviour is one call, or one object's  *)
(* calls, on one input; `task` says of which algorithm, and the variables  *)
(* of the others are unused.  The bounds of each are the constants of its  *)
(* instance.                                                               *)
(***************************************************************************)
EXTENDS Kmp, SparseTable

VARIABLES task,
    input, output, algorithm,
    kind, edges, answer, visit, call,
    sortable, calls, scc,
    x, y, result

\* Values of one and of two digits; more buckets than values, as the default
\* argument of bucket_sort gives for them.
Sort == INSTANCE Sort WITH Values <- {0, 9, 10, 19, 21}, MaxLen <- 5, BucketSize <- 22,
            Algorithms <- {"bubble", "insert", "select", "shell", "merge", "heap", "quick",
                           "bucket", "radix", "counting"}

\* Three nodes have a negative cycle that the start reaches or does not reach.
BellmanFord == INSTANCE ShortestPaths WITH N <- 3, MaxEdges <- 4, Weights <- {1},
                   Negative <- TRUE, Objects <- {"BellmanFord", "SPFA"}
\* Edges that weigh nothing, and detours that are shorter.
Dijkstra == INSTANCE ShortestPaths WITH N <- 3, MaxEdges <- 4, Weights <- {0, 1, 3},
                Negative <- FALSE, Objects <- {"force", "dijkstra"}
\* Paths over two nodes between.
Floyd == INSTANCE ShortestPaths WITH N <- 4, MaxEdges <- 3, Weights <- {1, 3},
             Negative <- FALSE, Objects <- {"Floyd"}

GraphOrder == INSTANCE GraphOrder WITH N <- 3, MaxEdges <- 4, MaxCalls <- 1

Bits == INSTANCE Bits WITH W <- 7

sortVars == <<input, output, algorithm>>
pathVars == <<kind, visit, call>>
orderVars == <<sortable, calls, scc>>
bitsVars == <<x, y, result>>
allVars == <<task, sortVars, pathVars, edges, answer, orderVars, sparseVars, kmpVars, bitsVars>>

Tasks == {"sort", "bellman_ford", "dijkstra", "floyd", "order", "sparse_table", "kmp", "bits"}
PathTasks == {"bellman_ford", "dijkstra", "floyd"}
Unused == 0

InitAll ==
    /\ task \in Tasks
    /\ IF task = "sort" THEN Sort!Init
       ELSE input = Unused /\ output = Unused /\ algorithm = Unused
    /\ CASE task = "bellman_ford" -> BellmanFord!Init
         [] task = "dijkstra" -> Dijkstra!Init
         [] task = "floyd" -> Floyd!Init
         [] OTHER -> kind = Unused /\ visit = Unused /\ call = Unused
    /\ IF task = "order" THEN GraphOrder!Init
       ELSE sortable = Unused /\ calls = Unused /\ scc = Unused
    /\ IF task = "sparse_table" THEN SparseInit
       ELSE elements = Unused /\ table = Unused /\ queried = [got |-> 0, want |-> 0]
    /\ IF task = "kmp" THEN KmpInit
       ELSE text = Unused /\ index = Unused /\ pi = Unused /\ aut = <<>>
    /\ IF task = "bits" THEN Bits!Init ELSE x = Unused /\ y = Unused /\ result = Unused
    /\ task \in Tasks \ (PathTasks \cup {"order"}) => edges = Unused /\ answer = Unused

\* A call of the task's algorithm.
CallOf ==
    \/ task = "sort" /\ Sort!Next
    \/ task = "bellman_ford" /\ BellmanFord!Next
    \/ task = "dijkstra" /\ Dijkstra!Next
    \/ task = "floyd" /\ Floyd!Next
    \/ task = "order" /\ GraphOrder!Next
    \/ task = "sparse_table" /\ SparseNext
    \/ task = "kmp" /\ KmpNext
    \/ task = "bits" /\ Bits!Next

\* The variables that only these tasks use.
Only(using, used) == task \notin using => UNCHANGED used

NextAll ==
    /\ CallOf
    /\ UNCHANGED task
    /\ Only({"sort"}, sortVars)
    /\ Only(PathTasks, pathVars)
    /\ Only(PathTasks \cup {"order"}, <<edges, answer>>)
    /\ Only({"order"}, orderVars)
    /\ Only({"sparse_table"}, sparseVars)
    /\ Only({"kmp"}, kmpVars)
    /\ Only({"bits"}, bitsVars)

SpecAll == InitAll /\ [][NextAll]_allVars
-----------------------------------------------------------------------------
(* MatchesAreRight and QueryIsMaximum are those of Kmp and SparseTable.    *)

\* Every sort of sort.h returns its input in ascending order with nothing lost.
SortsInput == task = "sort" => Sort!SortsInput

\* BellmanFord and SPFA report exactly the negative cycles that the start
\* reaches and compute the distances otherwise.  With weights that are not
\* negative, however ties are broken, dijkstra computes the distances of every
\* graph, force those of the graphs whose nodes the start all reaches, and Floyd
\* those of every pair of the graphs without parallel edges.
PathsAreShortest ==
    /\ task = "bellman_ford" => BellmanFord!NegativeCyclesAreFound
    /\ task = "dijkstra" => Dijkstra!DijkstraIsRight
    /\ task = "floyd" => Floyd!FloydIsRight

\* topological_sort succeeds exactly on acyclic graphs, with every edge forwards;
\* tarjan's components are the classes of nodes that reach each other.
GraphsAreOrdered ==
    task = "order" => GraphOrder!SortsAcyclicGraphs /\ GraphOrder!ComponentsAreStrong

\* isTmax, isAsciiDigit and isLessOrEqual agree with the comparisons of ints;
\* bitXor, negate, conditional, logicalNeg and allOddBits are the C operators.
BitsAreRight == task = "bits" => Bits!ComparesInts /\ Bits!MatchesOperators
=============================================================================
