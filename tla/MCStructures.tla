---------------------------- MODULE MCStructures ----------------------------
(***************************************************************************)
(* The sequential data structures for TLC.  None of them calls another, so *)
(* a behaviour is the life of one object: `object` says of which class, and *)
(* the variables of the other classes are unused.  The bounds of each      *)
(* class are the constants of its instance.                                *)
(***************************************************************************)
EXTENDS BloomFilter, UFS, Integers, FiniteSets

VARIABLES object,
    ringBuffer, read, write, ringPopped, crashed,
    pc, tree, iter, doomed, pending, last,
    kind, heapBuffer, heapSize, bag,
    pairHeap, pairPopped,
    segments, adds, segmentArray, segmentAnswer,
    trees, updates, indexArray,
    children, end, nodes, words

\* 5 words: a record of 32 bytes fills the ring, one of 40 is refused.
Ring == INSTANCE RingBuffer WITH Size <- 33, NodeSizes <- {0, 12, 32, 40}, Payloads <- {1, 2},
            buffer <- ringBuffer, popped <- ringPopped

RBTree == INSTANCE RBTree WITH Keys <- 1..11, Values <- {"v", "w"}, None <- "none"

\* Three full levels, equal values among them.
Heap == INSTANCE Heap WITH Values <- 1..3, MaxSize <- 7, buffer <- heapBuffer, size <- heapSize

PairHeap == INSTANCE PairHeap WITH Nodes <- 1..4, Values <- 0..2, null <- 0,
                heap <- pairHeap, popped <- pairPopped

\* Additions wait on two levels above the leaves.
SegmentTree == INSTANCE SegmentTree WITH N <- 4, Values <- {1}, MaxAdds <- 2,
                   t <- segments, array <- segmentArray, answer <- segmentAnswer
\* Leaves on two levels, and every input with up to five different values.
ReversePair == INSTANCE SegmentTree WITH N <- 5, Values <- {1}, MaxAdds <- 5,
                   t <- segments, array <- segmentArray, answer <- segmentAnswer

IndexTree == INSTANCE BinaryIndexTree WITH N <- 6, Values <- {1}, MaxUpdates <- 2,
                 array <- indexArray

Trie == INSTANCE Trie WITH Letters <- {"a", "b"}, MaxLen <- 3, MaxWords <- 4

ringVars == <<ringBuffer, read, write, ringPopped, crashed>>
treeVars == <<pc, tree, iter, doomed, pending, last>>
heapVars == <<kind, heapBuffer, heapSize, bag>>
pairVars == <<pairHeap, pairPopped>>
segmentVars == <<segments, adds, segmentArray, segmentAnswer>>
indexVars == <<trees, updates, indexArray>>
trieVars == <<children, end, nodes, words>>
allVars == <<object, filterVars, ringVars, treeVars, heapVars, ufsVars, pairVars, segmentVars,
             indexVars, trieVars>>

Classes == {"BloomFilter", "RingBuffer", "RBTree", "DeepTree", "Heap", "UFS", "PairHeap",
            "SegmentTree", "ReversePair", "BinaryIndexTree", "Trie"}
Unused == 0

InitAll ==
    /\ object \in Classes
    /\ FilterInit
    /\ object # "BloomFilter" =>
          hash = [fn \in Hashers |-> [key \in Keys |-> CHOOSE b \in Buckets : TRUE]]
    /\ Ring!Init
    /\ RBTree!Init
    /\ IF object = "Heap" THEN Heap!Init
       ELSE kind = Unused /\ heapBuffer = Unused /\ heapSize = Unused /\ bag = Unused
    /\ UFSInit
    /\ IF object = "PairHeap" THEN PairHeap!Init ELSE pairHeap = Unused /\ pairPopped = Unused
    /\ CASE object = "SegmentTree" -> SegmentTree!Init
         [] object = "ReversePair" -> ReversePair!PairsInit
         [] OTHER -> /\ segments = Unused /\ adds = Unused
                     /\ segmentArray = Unused /\ segmentAnswer = Unused
    /\ IF object = "BinaryIndexTree" THEN IndexTree!Init
       ELSE trees = Unused /\ updates = Unused /\ indexArray = Unused
    /\ Trie!Init

\* Any calls for a few keys, and values to tell a replaced one.
SmallTree ==
    \/ \E k \in 1..5 : RBTree!Erase(k) \/ \E v \in {"v", "w"} : RBTree!Insert(k, v)
    \/ RBTree!Fixup \/ RBTree!Destroy

\* A tree that grows in order of the keys and then shrinks in any order: with
\* ten keys and more, the fixup of an erase climbs more than one level.
DeepTree ==
    \/ last.op # "erase" /\ \E k \in 1..11 : k = 1 + Cardinality(RBTree!Reached)
                                           /\ RBTree!Insert(k, "v")
    \/ \E k \in RBTree!Reached : RBTree!Erase(k)
    \/ RBTree!Fixup

\* A call of the object.
CallOf ==
    \/ object = "BloomFilter" /\ FilterNext
    \/ object = "RingBuffer" /\ Ring!Next
    \/ object = "RBTree" /\ SmallTree
    \/ object = "DeepTree" /\ DeepTree
    \/ object = "Heap" /\ Heap!Next
    \/ object = "UFS" /\ UFSNext
    \/ object = "PairHeap" /\ PairHeap!Next
    \/ object = "SegmentTree" /\ SegmentTree!Next
    \/ object = "ReversePair" /\ ReversePair!CountElement
    \/ object = "BinaryIndexTree" /\ IndexTree!Next
    \/ object = "Trie" /\ Trie!Next

\* The variables that only these classes use.
Only(using, used) == object \notin using => UNCHANGED used

NextAll ==
    /\ CallOf
    /\ UNCHANGED object
    /\ Only({"BloomFilter"}, filterVars)
    /\ Only({"RingBuffer"}, ringVars)
    /\ Only({"RBTree", "DeepTree"}, treeVars)
    /\ Only({"Heap"}, heapVars)
    /\ Only({"UFS"}, ufsVars)
    /\ Only({"PairHeap"}, pairVars)
    /\ Only({"SegmentTree", "ReversePair"}, segmentVars)
    /\ Only({"BinaryIndexTree"}, indexVars)
    /\ Only({"Trie"}, trieVars)

SpecAll == InitAll /\ [][NextAll]_allVars
-----------------------------------------------------------------------------
(* The properties, stated in the modules of the classes; a variable that is *)
(* unused has no value they could speak of.  FilterIsSound and ClassesAreRight *)
(* are those of BloomFilter and UFS.                                       *)

\* ringbuffer.cc: a queue that loses its oldest records and nothing else; pop
\* returns whole records in the order of their pushes.  From read on the headers
\* lead record by record exactly to write.
RingIsLossyQueue == [](object = "RingBuffer" => Ring!HeadersLeadToWrite) /\ Ring!ImplementsLossyQueue

\* red_black_tree.h: between two calls the root is black, no red node has a red
\* child and every path has the same number of black nodes.  While the fix-up of
\* insert runs only one red parent, or the root, breaks a rule; while that of
\* erase runs one black is missing, below iter only.  Parent pointers always lead
\* back along left and right, the sentinel's where erase relies on it.
RedBlackShape ==
    object \in {"RBTree", "DeepTree"} =>
        /\ RBTree!RedBlackRules
        /\ RBTree!InsertBreaksOneRule
        /\ RBTree!EraseOwesOneBlack
        /\ RBTree!ParentsAgree

\* Seen from outside, the red-black tree is a dictionary.
ImplementsDictionary == RBTree!ImplementsDictionary

\* Every turn of a fix-up loop of the red-black tree comes closer to its end.
FixupTurnsShrink == RBTree!FixupTurnsShrink

\* heap.h: the buffer holds what has been pushed and not popped, and top() is the
\* best of it.  pair_heap.h: top() is the smallest, also after update, and father
\* leads back along child and brother.
HeapsAreRight ==
    /\ object = "Heap" => Heap!HoldsWhatWasPushed /\ Heap!TopIsBest
    /\ object = "PairHeap" => PairHeap!TopIsSmallest /\ PairHeap!FathersAgree

\* segment_tree.h: every query returns the sum of its range, whatever additions
\* still wait at inner nodes, and reverse_pair counts the inversions of every
\* input.  binary_index_tree.h: query and range_sum agree with the array.
RangeSumsAreRight ==
    /\ object = "SegmentTree" => SegmentTree!SumsAreRight
    /\ object = "ReversePair" => ReversePair!ReversePairIsRight
    /\ object = "BinaryIndexTree" => IndexTree!PointsAreRight /\ IndexTree!SumsAreRight

\* trie.h: query finds exactly the words inserted, start_with exactly their
\* prefixes, and the destructor reaches every node allocated.
TrieIsRight ==
    object = "Trie" =>
        Trie!QueryFindsWords /\ Trie!StartWithFindsPrefixes /\ Trie!NodesAreReached
=============================================================================
