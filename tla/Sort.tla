-------------------------------- MODULE Sort --------------------------------
(***************************************************************************)
(* The ten sorts of sort.h.  An array is a function on 0 .. n - 1.  What   *)
(* depends on rand() or on a read outside the vector is a set of possible  *)
(* results.  A step sorts one input with one algorithm.                    *)
(***************************************************************************)
EXTENDS Integers, Sequences, FiniteSets, FiniteSetsExt

CONSTANTS Values, MaxLen,
          BucketSize,  \* argument of bucket_sort
          Algorithms   \* the sorts to run

VARIABLES input, output, algorithm  \* algorithm is "none" before the step

vars == <<input, output, algorithm>>

Size(v) == Cardinality(DOMAIN v)

Swap(v, i, j) == [v EXCEPT ![i] = v[j], ![j] = v[i]]

\* The comparison and swap of neighbours in bubble_sort.
Exchange(v, j) == IF v[j - 1] > v[j] THEN Swap(v, j - 1, j) ELSE v

RECURSIVE BubblePass(_, _, _)
BubblePass(v, j, last) == IF j >= last THEN v ELSE BubblePass(Exchange(v, j), j + 1, last)

RECURSIVE Bubble(_, _)
Bubble(v, i) == IF i >= Size(v) THEN v ELSE Bubble(BubblePass(v, 1, Size(v) - i), i + 1)

RECURSIVE SiftLeft(_, _)
SiftLeft(v, j) ==
    IF j > 0 /\ v[j - 1] > v[j] THEN SiftLeft(Swap(v, j - 1, j), j - 1) ELSE v

RECURSIVE Insertion(_, _)
Insertion(v, i) == IF i >= Size(v) THEN v ELSE Insertion(SiftLeft(v, i), i + 1)

\* The first of the smallest elements from i on.
IndexOfLeast(v, i) == Min({j \in i..(Size(v) - 1) : \A k \in i..(Size(v) - 1) : v[j] <= v[k]})

RECURSIVE Selection(_, _)
Selection(v, i) == IF i >= Size(v) THEN v ELSE Selection(Swap(v, i, IndexOfLeast(v, i)), i + 1)

\* shell_sort compares v[j - d] with v[j] and swaps v[j - 1] with v[j]; for
\* j < d the read is outside the vector and either outcome is possible.
RECURSIVE ShellSift(_, _, _)
ShellSift(v, j, d) ==
    LET moved == ShellSift(Swap(v, j - 1, j), j - d, d)
    IN  IF j <= 0 THEN {v}
        ELSE IF j < d THEN {v} \cup moved
        ELSE IF v[j - d] > v[j] THEN moved ELSE {v}

RECURSIVE ShellPass(_, _, _)
ShellPass(vs, i, d) ==
    IF \A v \in vs : i >= Size(v) THEN vs
    ELSE ShellPass(UNION {ShellSift(v, i, d) : v \in vs}, i + 1, d)

RECURSIVE Shell(_, _)
Shell(vs, d) == IF d < 1 THEN vs ELSE Shell(ShellPass(vs, d, d), d \div 2)

\* _merge, from index on: a and b are copies of left..mid-1 and mid..right-1.
RECURSIVE MergeFrom(_, _, _, _, _)
MergeFrom(v, a, b, index, right) ==
    IF index >= right THEN v
    ELSE IF a # <<>> /\ (b = <<>> \/ Head(a) < Head(b))
    THEN MergeFrom([v EXCEPT ![index] = Head(a)], Tail(a), b, index + 1, right)
    ELSE MergeFrom([v EXCEPT ![index] = Head(b)], a, Tail(b), index + 1, right)

Copy(v, first, last) == [i \in 1..(last - first) |-> v[first + i - 1]]

RECURSIVE MergeSort(_, _, _)
MergeSort(v, start, end) ==
    LET mid == start + (end - start) \div 2
        halves == MergeSort(MergeSort(v, start, mid), mid, end)
    IN  IF start >= end - 1 THEN v
        ELSE MergeFrom(halves, Copy(halves, start, mid), Copy(halves, mid, end), start, end)

\* _heapify goes on to a leaf, whether it has swapped or not.
RECURSIVE Heapify(_, _, _)
Heapify(v, parent, end) ==
    LET left == 2 * parent + 1
        child == IF left + 1 < end /\ v[left] < v[left + 1] THEN left + 1 ELSE left
    IN  IF left >= end THEN v
        ELSE Heapify(IF v[parent] < v[child] THEN Swap(v, parent, child) ELSE v, child, end)

RECURSIVE HeapBuild(_, _)
HeapBuild(v, i) == IF i < 0 THEN v ELSE HeapBuild(Heapify(v, i, Size(v)), i - 1)

RECURSIVE HeapDrain(_, _)
HeapDrain(v, i) == IF i <= 0 THEN v ELSE HeapDrain(Heapify(Swap(v, 0, i), 0, i), i - 1)

HeapSort(v) == HeapDrain(HeapBuild(v, Size(v) \div 2 - 1), Size(v) - 1)

\* The scans of _partition.
RECURSIVE ScanRight(_, _, _, _)
ScanRight(v, val, left, right) ==
    IF left < right /\ val <= v[right] THEN ScanRight(v, val, left, right - 1) ELSE right

RECURSIVE ScanLeft(_, _, _, _)
ScanLeft(v, val, left, right) ==
    IF left < right /\ v[left] <= val THEN ScanLeft(v, val, left + 1, right) ELSE left

\* Both scans, each followed by its swap, until they meet.
RECURSIVE Partition(_, _, _, _)
Partition(v, val, left, right) ==
    LET r == ScanRight(v, val, left, right)
        v1 == Swap(v, left, r)
        l == ScanLeft(v1, val, left, r)
    IN  IF left >= right THEN [v |-> [v EXCEPT ![left] = val], mid |-> left]
        ELSE Partition(Swap(v1, l, r), val, l, r)

\* rand() picks any pivot.
RECURSIVE Quick(_, _, _)
Quick(v, start, end) ==
    LET parts == {LET w == Swap(v, start, index) IN Partition(w, w[start], start, end) :
                     index \in start..end}
    IN  IF start >= end THEN {v}
        ELSE UNION {UNION {Quick(w, p.mid + 1, end) : w \in Quick(p.v, start, p.mid - 1)} :
                       p \in parts}

\* The values of v that fall into bucket k, in order.
Bucket(v, k) ==
    LET seq == SelectSeq(Copy(v, 0, Size(v)), LAMBDA x : x % BucketSize = k)
        zero == [i \in 0..(Len(seq) - 1) |-> seq[i + 1]]
    IN  Copy(Insertion(zero, 1), 0, Len(seq))

RECURSIVE BucketsFrom(_, _)
BucketsFrom(v, k) == IF k = BucketSize THEN <<>> ELSE Bucket(v, k) \o BucketsFrom(v, k + 1)

BucketSort(v) == LET all == BucketsFrom(v, 0) IN [i \in DOMAIN v |-> all[i + 1]]

\* Mutant: the last pass runs forwards, which reverses equal keys.
PlaceForwards(v, key, count, i, out) ==
    LET pos(j) == count[key[v[j]]] - Cardinality({k \in 0..(j - 1) : key[v[k]] = key[v[j]]}) - 1
    IN  [p \in DOMAIN v |-> v[CHOOSE j \in DOMAIN v : pos(j) = p]]

\* The last pass of counting_sort and _stable_sort, from element i backwards.
RECURSIVE PlaceFrom(_, _, _, _, _)
PlaceFrom(v, key, count, i, out) ==
    LET k == key[v[i]]
    IN  IF i < 0 THEN out
        ELSE PlaceFrom(v, key, [count EXCEPT ![k] = @ - 1], i - 1, [out EXCEPT ![count[k] - 1] = v[i]])

\* Keys 0..top: the counts added up, then the elements put in place.
ByKey(v, key, top) ==
    LET count == [k \in 0..top |-> Cardinality({i \in DOMAIN v : key[v[i]] <= k})]
    IN  PlaceFrom(v, key, count, Size(v) - 1, v)

CountingSort(v) == ByKey(v, [x \in Values |-> x], Max(Values))

RECURSIVE QuickPow(_, _)
QuickPow(b, p) == IF p = 0 THEN 1 ELSE (IF p % 2 = 1 THEN b ELSE 1) * QuickPow(b * b, p \div 2)

Digit(x, i) == (x \div QuickPow(10, i)) % 10

\* The number of digits of the largest element, d of radix_sort.
RECURSIVE DigitsOf(_)
DigitsOf(m) == IF m = 0 THEN 0 ELSE 1 + DigitsOf(m \div 10)

RECURSIVE RadixFrom(_, _, _)
RadixFrom(v, i, d) ==
    IF i >= d THEN v ELSE RadixFrom(ByKey(v, [x \in Values |-> Digit(x, i)], 10), i + 1, d)

RadixSort(v) == RadixFrom(v, 0, DigitsOf(Max({0} \cup {v[i] : i \in DOMAIN v})))

Results(v, alg) ==
    CASE alg = "bubble" -> {Bubble(v, 0)}
      [] alg = "insert" -> {Insertion(v, 1)}
      [] alg = "select" -> {Selection(v, 0)}
      [] alg = "shell" -> Shell({v}, Size(v) \div 2)
      [] alg = "merge" -> {MergeSort(v, 0, Size(v))}
      [] alg = "heap" -> {HeapSort(v)}
      [] alg = "quick" -> Quick(v, 0, Size(v) - 1)
      [] alg = "bucket" -> {BucketSort(v)}
      [] alg = "radix" -> {RadixSort(v)}
      [] alg = "counting" -> {CountingSort(v)}

Init ==
    /\ \E n \in 0..MaxLen : input \in [0..(n - 1) -> Values]
    /\ output = input /\ algorithm = "none"

Sort(alg) ==
    /\ algorithm = "none"
    /\ algorithm' = alg /\ output' \in Results(input, alg)
    /\ UNCHANGED input

Next == \E alg \in Algorithms : Sort(alg)

Spec == Init /\ [][Next]_vars
-----------------------------------------------------------------------------
Occurrences(v, x) == Cardinality({i \in DOMAIN v : v[i] = x})

\* Every sort returns its input in ascending order with nothing lost, for every
\* pivot rand() can pick and whatever shell_sort reads before the vector.
SortsInput ==
    algorithm # "none" =>
        /\ \A i, j \in DOMAIN output : i < j => output[i] <= output[j]
        /\ \A x \in Values : Occurrences(output, x) = Occurrences(input, x)

\* bucket_sort sorts evenly distributed values with any number of buckets.
\* The code breaks it: README, "Disagreements without a run".
BucketSortsEven ==
    algorithm = "bucket" /\ (\A i, j \in DOMAIN input : i # j => input[i] # input[j])
        => \A i, j \in DOMAIN output : i < j => output[i] <= output[j]
=============================================================================
