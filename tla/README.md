# cpp-learn: TLA+ models, checks and proofs

The repository is a collection: a few concurrent components (a message queue in
shared memory with its own memory allocator, a blocking queue, a thread pool, a
reactor server, singletons), sequential data structures and algorithms, two CSAPP
labs, and many small programs that try out a language feature or a system call.
This directory models everything in it that has state or an algorithm of its own
and can be checked on small instances; the last section lists the rest.

## 1. Inventory

| Component | State | What makes it correct | Status |
|---|---|---|---|
| Shared memory message queue (`cpp/examples/shm_msg_queue`) | list of chunk nodes, buffer, producers' counter, one process-shared mutex | messages whole, once, in order; no chunk lost or shared; `closed` exactly at the end; progress | modelled |
| Buddy allocator (`buddy_memory_allocator*`), spin lock | tree of sizes in an array, one flag | exclusion, disjoint blocks, an exact tree, nothing refused without need | modelled |
| Blocking queue (`blocking_queue.h`) | deque, mutex, two condition variables | no lost wakeup, capacity, order | all but `ClearAndDelete` |
| Thread pool (`thread_pool`, twice) | queue, `stop_`, workers | each task once, in order; the destructor drains and returns | modelled |
| Singletons (two `singleton.h`) | pointer, mutex | one object, complete for who took the lock | modelled |
| Reactor (`reactor/`) | epoll set, `fd_to_handler_`, handlers' queues, workers | every lookup succeeds, no response missing, each request answered | modelled |
| Ring buffer (`datastructure/queue`) | byte array, read and write positions | records whole and in order, only the oldest lost | modelled |
| malloc lab: `mm.c`, `memlib.c` | heap with boundary tags | payloads intact, tags agree with the client, growth only when needed | modelled |
| malloc lab: `mdriver.c`, `fcyc.c` | range list, passes, k best samples | ranges follow the live blocks, faults reported are faults, those missed are known; sampling stops when it should | partly |
| Red-black tree, heap, pairing heap, union-find, segment and index tree, trie, bloom filters | nodes and arrays | agreement with a dictionary, bag, partition, array, set of words | modelled (segment tree: without `range_set`) |
| Sorts, shortest paths, topological order, strong components, sparse table, KMP, bit puzzles | none or little | agreement with a reference definition | modelled (KMP, bits: what is written) |

How they interact: the queue calls the buddy allocator under its own mutex.  The
reactor hands work to the thread pool, whose workers call back into the handlers
and the event demultiplexer.  The lab's driver calls the allocator and the timing
package.  The other components stand alone.

The hard behaviours: `dequeue` sleeps with the mutex held; the copy into a chunk
happens outside it; processes die; a failed `allocate` has to undo its first half;
notifications happen after the mutex is released or not at all (`Clear`); tasks
submit tasks to a pool that is being destroyed; a reactor's handler outlives its
connection in the hands of a worker while its descriptor number is used again;
double-checked creation without atomics; fix-up loops with many mirrored cases;
boundary tags that show a mistake many calls later.  `PROJECT.json` lists these
hazards with their lines.

## 2. Modules and the code

| Module | Models |
|---|---|
| `BuddyPool`, `BuddyAllocator` | the array `pool_` and the algorithm as operators; threads that call it under the spin lock |
| `ChunkList`, `ShmMsgQueue` | `ShmMsgChunkList`; `SharedMemoryMessageQueue` with its producers, consumers and main, composed with `ChunkList` and `BuddyPool` |
| `MessageQueue` | the abstract queue: send, receive, finish, end |
| `BlockingQueue`, `ThreadPool`, `Singleton` | the classes of these names |
| `Reactor` | event loop, handlers, pool workers, kernel and clients |
| `RingBuffer`, `LossyQueue` | `RingBuffer`; the abstract queue that loses its oldest records |
| `RBTree`, `Dictionary` | `RBTree`; the abstract dictionary |
| `Heap`, `PairHeap`, `UFS`, `SegmentTree`, `BinaryIndexTree`, `Trie`, `BloomFilter` | the classes of `heap.h`, `pair_heap.h`, `UFS.h`, `segment_tree.h`, `binary_index_tree.h`, `trie.h`, `bloom_filter.h` |
| `MmHeap`, `MallocLab` | `mm.c` over `memlib.c` as operators on a heap of words; a client that makes any calls |
| `Mdriver` | the driver's passes over traces, with `mm.c` or with any allocator |
| `Fcyc` | the K-best timing loop |
| `Sort`, `ShortestPaths`, `GraphOrder`, `SparseTable`, `Kmp`, `Bits` | the algorithms |
| `MC*` | instances for TLC; `MCStructures`, `MCAlgorithms`, `MCMallocLab` and `MCThreads` choose one component per behaviour |
| `*_proofs` | theorems checked by TLAPS (section 4); `Components_proofs` is about the pool, the singleton and the filter; `Structures_proofs` is about the blocking queue, the disjoint sets, KMP and the sparse table; `MallocLab_proofs` is about the lab's allocator; `ReactorRequests_proofs` continues `Reactor_proofs` |

**BuddyPool / BuddyAllocator.**  `pool` is `pool_`: node 0 is the whole pool, node
`i` has children `2i+1` and `2i+2`, and `pool[i]` is the largest free block below
`i`.  `CallAllocate` and `CallDeallocate` are calls from outside (a block may be
freed by another thread than the one that allocated it), `Lock` the successful
`compare_exchange`, `Reject` the early return, `MarkAllocate` and `MarkDeallocate`
the search and the marking, `UpdateStep` one turn of the loop in `update_pool`,
`Return` the unlock.  Addresses are offsets in the pool.  Each loop of the code is
a recursive function over one operator for its body: `SearchDown` in `SearchFor`
(`CHECK_GE` is the field `ok`), `FindDown` in `FindBlock`, `UpdateUp` in `UpdatePool`,
which is what the queue calls in one step under its own mutex.

**ChunkList / ShmMsgQueue.**  The list keeps its pointers as in the code; `freed`
and `fifo` are history variables that hold the two lists as sequences, and
`ListsLinked` relates them.  The queue's operations run under the mutex and are
one step each, except where the code lets others in: `allocate` retries
(`AllocateNoNode`, `AllocateNoMemory`, then again `allocating` or `idle`), `Fill` is
the `memcpy` outside the mutex, and a `dequeue` that finds nothing sleeps
*holding* the mutex (`DequeueSleep`, `DequeueWake`).  The buffer is modelled byte
by byte, each byte labelled with the message that wrote it, so that a message
read by a consumer is whole only if nobody else wrote into its chunk.  `PoolSize` is
`buffer_mmap_size_` and `NumOrder` what `compute_num_order` makes of it
(`NumOrderAssumption`, which every run evaluates).  The
deadline of a timed `dequeue` may pass before any poll.  `Crash` lets a process
die anywhere, inside a critical section too: the mutex is not robust, so it then
stays locked for ever.  `Cancel` is a `release_chunk` by a producer that does not
send its chunk.  Producers call `signal_preducing_complete` after their last
message; main calls `set_preducer_count` first, as the repository's tests do, and
may call `close`.

**BlockingQueue.**  A thread is `idle`, has `entered` an operation, is `waiting` on
the condition variable of its operation, was `woken`, or its `wait_for` has
`expired`.  The mutex makes each remainder of an operation one step; a wakeup is
followed by a new test of the predicate.  `SpuriousWakeup` and `Timeout` may happen
at any time.  A task is `<<thread, call number, operation>>`.  `cleared` records
that `Clear` has happened and is read by properties only.

**ThreadPool.**  `Loop` is split at the mutex: `LoopWait`, `LoopExit`, `LoopTake`
under it, the task outside.  A running task may call `Run` (`nested_notify`), as
clients do (`client_notify`): push under the mutex, `NotifyOne` after it.  The
destructor is `Stop`, `NotifyAll`, `Join`.  Clients do not call `Run` on a pool whose
destruction has begun; running tasks may.

**Singleton.**  Both headers have the same double-checked `Instance`.  The stores
of the constructor (`StoreFields`) and of the pointer (`StorePointer`) become
visible in either order, since `instance_` is not atomic; a constructor may throw.
`locked[t]` says whether the call took the lock: who did not may see a pointer to
an object that is not finished, and the properties claim nothing about it.

**Reactor.**  A handler is named by the client it was created for.  `thr` is the
control of the loop and the workers; `RegisterEventHandler` is several steps,
because its unsynchronised `epoll_event_count_++` and the two settings of a
handler's type interleave; `ClearEventHandler` is two, so that a worker's increment
can fall between the load and the store of its `--epoll_event_count_`.  `k` is the kernel: backlog, owner of each descriptor
number, mask, and the ready set of edge-triggered epoll.  A handler is destroyed
with its last reference (map, loop, queued and running tasks), and its destructor
closes the *number* it was created with once more.  A failed `CHECK` sets `failed`
and ends the behaviour.  Contents of messages are left out: a request counts.

**RingBuffer.**  The buffer is an array of 8-byte words, each with the value last
stored there and its index within the record; positions wrap as in the code, and
`push` drops records from `read` until there is room.  `Queue`, the refinement
mapping, walks the headers.

**RBTree.**  The tree is a record of pointer and colour functions, the sentinel
included.  Finding the place and linking are one step, each turn of a fix-up loop
is another.  `insert` of a present key is modelled as the code does it (erase, then
insert again: `pending`).

**MmHeap / MallocLab / Mdriver / Fcyc.**  The heap is a function from word indices to
tags and data; `mm_malloc`, `mm_free` and `mm_realloc` are operators with the code's
order of reads and writes of tags.  The client of `MallocLab` fills every block
with a label.  `Mdriver` reads a trace (any trace of the given length; ids may be
left out, as `read_trace` looks at the largest only) and runs the validity, utilization
and speed passes over it, with the early exits on errors.  It fills a block with the
low byte of the id (`LowByte`) and reads it back through a `char`, which gcc makes
signed on x86 (`AsChar`): a byte of 128 or more comes back negative.  A report of
`malloc_error` is kept with the operation and the address it was about.  `Fcyc` has the
samples as an arbitrary input.

**Algorithms.**  Operators and recursive functions that follow the loops of the
code; what depends on `rand()`, on ties in a heap or on a read outside a vector is a
set of outcomes.  `Bits` works on words of `W` bits.

## 3. Runs

| Run | Instance | States | Properties |
|---|---|---|---|
| `queue` | 2 producers with 2 messages of 2 or 5 bytes, 1 consumer, 2 nodes, 8 bytes; blocking or not, timed or not, cancels, `close`, one death | 1.50 million | `ListsSound`, `MemorySound`, `CloseEndsWaiting`, `ClosedMeansDrained`, `ImplementsMessageQueue` |
| `queue_live` | 2 producers, 2 competing consumers, 2 nodes, sizes 3 and 8 | 4,273 | `DeliversEverything` |
| `buddy` | 2 threads, pool of 8 in 3 levels, sizes 1, 3, 8, at most 2 blocks each | 40,691 | `MutualExclusion`, `BlocksDisjoint`, `TreeExact`, `LockReleased` |
| `blocking_queue` | 4 threads with all operations, 2 calls each, capacity 1 | 574,869 | `WaitersJustified`, `TasksKept`, `CallsReturnOrAreBlocked` |
| `threads` | pool: 3 workers, 2 clients, 4 tasks; singleton: 3 callers, 1 exception | 10,086 | `TasksSafe`, `PoolProgress`, `InstanceSound`, `EveryInstanceCallEnds` |
| `reactor` | 2 clients that wait for answers, 2 requests each, 2 workers | 55,361 | `RequestsKept`, `EveryRequestAnswered` |
| `reactor_faults` | 2 clients that pipeline, disconnect and fail, 2 requests in all, 2 workers | 2.65 million | `WriteFindsResponse`, `LookupsSucceed` |
| `structures` | one object per behaviour, any calls | 402,845 | `FilterIsSound`, `RingIsLossyQueue`, `RedBlackShape`, `ImplementsDictionary`, `FixupTurnsShrink`, `HeapsAreRight`, `ClassesAreRight`, `RangeSumsAreRight`, `TrieIsRight` |
| `algorithms` | one algorithm and input per behaviour | 2.13 million | `SortsInput`, `PathsAreShortest`, `GraphsAreOrdered`, `QueryIsMaximum`, `MatchesAreRight`, `BitsAreRight` |
| `malloc_lab` | allocator, driver or timing per behaviour | 750,460 | `HeapIsSound`, `ExtendsOnlyWhenNoRunFits`, `DriverIsRight`, `SamplingIsRight` |

What they show:

* **The queue** keeps its lists, chunks and memory right in every mode and when a
  process dies; consumers are told `closed` neither before the last message nor
  never; and it implements `MessageQueue`.  With two consumers that compete and
  sleep with the mutex held, every message is still delivered, every blocked
  producer gets its chunk and everybody ends.
* **The allocator** hands out disjoint blocks, refuses only what has no block, and
  releases its lock on every path.
* **The blocking queue** loses no wakeup except the one `Clear` does not send; a call
  that does not return is a `Dequeue` of an empty queue, or an enqueue that has no
  room or whose room came from `Clear`.
* **Pool and singleton**: each task runs once and in order of submission, also those
  submitted during destruction; one object is created whatever throws.
* **The reactor**, for clients that wait for their answers, never lets the loop and a
  worker into one `request_q_` at a time and answers every request.  For all
  clients, `Write` finds a response, every ready descriptor has its handler and
  `accept` a connection.
* **The structures** agree with their abstract counterparts: `RingIsLossyQueue` and
  `ImplementsDictionary` are refinements, the others compare with a history variable
  (bag, partition, array, set of words).  `FixupTurnsShrink` states that the loops of
  the red-black tree end: each turn lowers a rank.
* **The algorithms** agree with reference definitions on every small input; where the
  code does not promise so much (`force` on nodes that cannot be reached, Floyd on
  parallel edges and negative weights) section 5 has the case.
* **The lab**: payloads are never overwritten and tags match the client's blocks.  The
  driver's range list is the set of live payloads, with `mm.c` and with an allocator
  that answers anything.  Its test of ranges reports no overlap that is none, and
  misses one only when the newer payload encloses the older.  Its test of
  copied data reports `mm.c` for exactly the traces that reallocate an id whose low byte
  is 128 or more, and nothing else does; the passes after it are cut short for these
  only.  So the driver is no complete oracle, in either direction: section 5 has both
  gaps.  Sampling keeps the k best, goes on exactly until they have converged or
  `maxsamples` are taken, and returns the smallest.

Two runs show a disagreement between the code and what the repository says of it:

* `queue_close`: `close()` decrements the counter.  If `set_preducer_count` was not
  called the counter is then -2, `dequeue` compares it with 0 and goes on waiting.
  `shm_msg_queue.h:68` promises that `dequeue` returns at once when the queue is
  closed.
* `reactor_register`: `ClearEventHandler` closes the descriptor
  (`event_demultiplex.cc:94`) and `~Handler` closes the same number again
  (`handler.h:20`).  When a worker's task holds the last reference, the number may
  by then belong to a new connection, and `CHECK(RegisterEventHandler(handler) == 0)`
  (`event_demultiplex.cc:152`) fails.

**Bounds.**  They are chosen so that each limit is met.  Queue: nodes run out before
memory and memory before nodes, a message takes the whole buffer, and the pool
has all its levels.  Blocking queue: capacity 1 is both full and empty for
somebody.  Pool: more tasks than workers, a worker submits while the destructor
waits.  Reactor: two clients are enough for a descriptor number to be used again
while a task holds the old handler; two requests of one client for pipelining.
Ring: 5 words, a record of 32 bytes fills it and one of 40 is refused.  Red-black
tree: all calls on 5 keys, and 11 keys that are inserted in order and erased in
any order, since only with 10 and more does the fix-up of `erase` climb more than
one level.  Heap: 3 full levels with equal values.  Union-find: 6 elements give
paths of length 2.  Segment tree: additions wait on two levels above the leaves.
Sorts: all inputs of up to 5 values of one and two digits.  Graphs: all of 3 nodes
and 4 edges, 4 nodes and 3 edges for Floyd.  Sparse table: lengths to 7, on both
sides of powers of two.  Bits: `W` = 7, all pairs of words.  Lab: 21 words hold runs of
three free blocks; all traces of 5 operations for `mm.c` and of 3 for any allocator, with
ids on both sides of 127 and 255 and two ids with the same low byte; payloads of 1 and
17 bytes at addresses that are `NULL`, unaligned, outside the heap, equal, apart and
enclosing; samples within and beyond 10 percent of each other.  `MsgsPerProducer`, `MaxCrashes`, `MaxHeld`, `Calls`, `MaxTasks`,
`MaxFailures`, `MaxRequests`, `Backlog`, `MaxInserts`, `MaxAdds`, `MaxUpdates`, `MaxWords`,
`MaxSize`, `MaxTotal`, `MaxOps`, `MaxTraces` and `MaxCalls` bound what the code does not
bound.

`queue` uses the symmetry of the two producers, `reactor_faults` that of clients and
of workers; both check safety only.  `FewRequests` constrains `reactor_faults` to two
requests in all.  `CHECK_DEADLOCK` is off where the system may stop (all messages
sent, all calls made, an aborted process); `buddy` checks it.  A thread that waits
for ever is caught by the liveness properties.

**Fairness.**

* `queue_live`: strong fairness for each producer and consumer.  A consumer that
  polls takes the mutex again right after it has released it, so weak fairness
  would let it keep the others out for ever; the code relies on the operating
  system handing the mutex to a waiting thread at some time.
* `blocking_queue`: weak fairness of calls and of threads that can go on, strong
  fairness of `Timeout`: the deadline of `wait_for` with a predicate is absolute, so
  spurious wakeups in between do not put it off.
* `threads`: weak fairness of threads that can go on and of a destructor that has
  begun.  Tasks return.  No spurious wakeup has to happen, and nobody has to call
  `Run` or `Instance` or to destroy the pool.
* `reactor`: weak fairness of the loop and of each worker; clients need do nothing.
* `buddy`: weak fairness of the thread inside the lock only.

## 4. Proofs

All for any values of the constants that satisfy the named assumptions, and for any
number of threads, clients, messages and crashes.  Where a theorem needs more than
the assumptions of the module, its statement says so.

* **`BuddyPool_proofs`** - lemmas on the tree of sizes, for every pool and number of
  levels.  The loops of the allocator are recursive functions; induction and the
  existence of such functions are shown first, from the well-foundedness of `<` on
  the natural numbers, with sets in the place of predicates (the induction theorems
  of the library take a predicate, which the provers cannot instantiate).  Then:
  where blocks lie and which are nested, which level a request belongs to, that the
  search ends at a free node of that level, that `deallocate` finds the node that
  `allocate` marked, and what `update_pool` makes of a tree that is right everywhere but
  on the path it walks.  The last part needs `Halves`: every block is exactly two of
  its children.  It holds of every pool of `m * 2^k` bytes in at most `k + 1` levels.
* **`BuddyAllocator_proofs`** - `SpinLockExcludes` for any tree; `BlocksNeverOverlap` and
  `TreeAlwaysExact` under `Halves`, the second also under `SizesFit` (every request fits
  the pool once it is rounded up); `PowerOfTwoPool` discharges both for a pool of `2^k`
  bytes.  `BlocksDisjoint` is not inductive: that a new block is disjoint from the others
  follows from what the tree says, and the tree is wrong while somebody is inside
  `update_pool`.  `TreeInv` says that the blocks held or under way are nodes none of
  which is below another, and that each node of the tree is right about what is free
  below it, except on the path still to be walked.
* **`ShmMsgQueue_proofs`** - in five parts, each with what it adds to the invariant.
  1. What `AllocateNode`, `DeallocateNode`, `Put` and `Pop` do to two disjoint linked lists.
  2. `ListsAlwaysSound` with its parts `ListsAlwaysLinked`, `ChunksExclusive`,
     `ChunksAccounted`: `IInv` is the conjunction of the control types, the three
     properties, `HoldsChunk` (a thread has a chunk exactly while it fills or reads one)
     and a bound on the messages sent.  None of the three is inductive alone: that `Put`
     leaves the free list linked needs that the node is not in it, which is
     exclusiveness; that the node is in no list needs `HoldsChunk`.
  3. `ClosedOnlyWhenDrained` and `CloseAlwaysEndsWaiting` assume that main announces the
     right number of ends (`CountsAgree`).  `CountInv`: the counter is the number of
     producers, and of main, that have not ended yet.  For the second, a consumer that
     sleeps does so holding the mutex, so nobody can have ended behind its back.
  4. `MemoryAlwaysSound`, under `Halves`: live chunks are disjoint blocks, all memory comes
     back, consumers read whole messages.  `MemInv` says that each live chunk is the
     start of a node of its size's level, that no two of these nodes are nested and the
     tree is right for them, and that a chunk filled, queued or with a consumer holds
     one whole message.
  5. `RefinesMessageQueue`, under both: `enqueue` is the abstract send, `dequeue` the receive
     or the end, `signal_preducing_complete` the finish, and every other step (the copy
     and `release_chunk` rewrite memory the abstract queue is read from) a stutter.
     `QueueOfMegabytes` discharges `Halves` for the buffers the code can have: a number
     of MiB below `2 * kMinBlockSize` = 1024, or any `m * 2^k` bytes with such an `m`, like
     the 3296 MiB of the test with 100 workers.
* **`Components_proofs`** - the pool: `TasksAlwaysSafe` (`TasksTakenInOrder`, `TasksRunOnce`,
  `DestructorDrains`, `NoLostWakeup`).  `IInv` relates the queue to the numbers of
  submitted and taken tasks, says which states a worker and a client can be in,
  and for the shutdown that a worker leaves only when stopped, and the queue is
  empty once all have left (a task that submits is run by a worker that has not
  left).  Assumption: at least one worker.  The singleton: `InstanceAlwaysSound`.
  `InstanceInv` says that who is between lock and unlock holds the mutex, that `made`
  is 0 until somebody constructs, and that once nobody constructs the object is
  complete.
  The filter: `FilterAlwaysSound` (`NeverFalseNegative`, `FindsOnlyHits`), for any
  keys, hash functions, number of hash functions and counter width: a counter is at
  least the smaller of `Max` and the number of insertions of each key that hits it,
  the insertion under way counted as far as it has come.
* **`Structures_proofs`** - the blocking queue: `NoLostWakeup` (`NoLostTask` and `NoLostRoom`): `IInv` adds that
  a thread in the middle of a call has counted it.  `NothingLostOrReordered`: what was
  taken out followed by what is queued has each task once, and those of one thread put
  at the back in the order of its calls; only `ForceEnqueue` exceeds the capacity.
  `KInv` adds that a task has the number of a call that its thread has finished.
  The disjoint sets: `DisjointSetsAreRight`, for any number of elements.  `UFSInv` names
  a function `R` from every element to the root of its tree and says that the parents
  are a forest with these roots (`Forest`), that the trees are the classes the calls
  have asked for, that `size_` of a root is the size of its tree, and that the sizes at
  least double on every step of a path (`Weighs`: what `size_` holds below a root is
  stale but at most half of what the father has).  Without the last part the
  logarithm is not inductive, since compression and union move elements between paths.
  KMP: `MatchesAlwaysRight`, for any alphabet and text.  The inner loop of
  `prefix_function` goes through the borders of the prefix from the longest down;
  `Candidate` says that no longer border than the one it is at can be made longer by the
  next letter, which holds because a shorter border of a prefix is a border of the
  longer one (`BordersNest`).  A row of the automaton copies an entry of a smaller row
  by the same argument (`MatchesNest`).
  The sparse table: `QueriesAreMaxima`, for vectors of any length.  An entry of column `j`
  is the maximum of the `2^j` elements from its row on wherever so many are left
  (`ColumnIs`); `CeilLog2Is` says that the two entries a query reads are such entries
  and that their ranges leave no gap.
* **`MallocLab_proofs`** - `AllocatorKeepsPayloads` and `AllocatorMergesRuns`, for any size of the
  memory, any sizes asked for and any calls of a client that uses its blocks.  Neither
  property is inductive, because nothing in memory says which words are tags: merging
  leaves old headers and footers inside the merged block, and a payload may hold
  anything.  `HInv` says that there is a layout, a function from the starts of blocks
  to their ends and whether they are free, that covers the heap, and that the words
  at both ends of its blocks are the tags it asks for (`Tagged`); the client's blocks
  are the allocated ones of the layout and hold what was written (`Held`).  The footer
  of a free block need not lead to its own header: it may lead to one that a merge has
  left inside it (`Tags`).  Each call has a lemma on what it makes of a layout: placing
  splits a block, extending adds one, `mm_free` marks one.  The pass of `coalesces` goes
  on from a header that may lie inside a block it has just merged.  `Passing` says that
  the layout so far is coarser than the first one, allocated blocks are untouched,
  all headers are right, and no two free blocks are neighbours behind the pointer;
  `Plain`, `Even` and `Odd` are the three places the pointer can be at: a block with no
  free block before it, a free block behind a merged one, or the last part of the
  block just merged.
* **`Reactor_proofs`** - for any clients, workers, pipelining and faults.
  `WriteAlwaysFindsResponse`: `Write` pops `response_q_` without a test; the property itself
  says nothing about where the next write event comes from.  The invariant counts, for
  each handler, the writes owed to callbacks of tasks that have drained the requests
  (a worker about to set `kWrite`, `kWrite` itself, the loop in `Write`) and the
  callbacks still to come from queued and running tasks: the first never exceed the
  responses queued, both together never exceed the requests and responses queued.
  `StateOK` and `ControlOK` are the types and who can be where, `MutexHeld` that a
  worker in the middle of `Process` has the handler's mutex.
  `LookupsAlwaysSucceed`: every event has its handler in the map and `accept` finds a
  connection, although descriptor numbers are closed twice and used again.  `LInv`
  says what keeps a number's entry in the map while epoll watches it or an event of
  it is in the batch, and that a client is in the backlog once, before it has a
  handler.
* **`ReactorRequests_proofs`** - `RequestsNeverLost`, for clients that wait for each answer
  and stay (`Orderly`; the other clients are what `IdleMeansAllSent` of section 5 is
  about).  `Read` pushes into `request_q_` without the mutex under which a worker drains
  it; that they do not meet follows from no lock but from the turns they take.
  `NInv` says that a client's one request is in one place (`Token`), and what epoll's
  mask, the events in the batch and the handler's type are while the loop or a task
  has the handler (`InTurn`).  `NotClearing`: as nobody leaves, the loop is never inside
  `ClearEventHandler`.

The type invariants of `BlockingQueue`, `ThreadPool` and, for control and lists, of
`ShmMsgQueue` (`ControlTypeOK`) are theorems too (`TypeCorrect`).  The safety invariants
of the runs `queue`, `buddy`, `blocking_queue`, `threads`, `reactor` and `reactor_faults`, and
the refinement that `queue` checks, are all proved; of `structures`, `algorithms` and
`malloc_lab` those of the filter, the disjoint sets, KMP, the sparse table and the allocator.

## 5. Disagreements without a run

Found while modelling; each is shown by the named property on the module's own
specification (or on the named one), and the comment at the property says so.
The passing runs leave the case out in the way the last column says.

| Property | The code | The repository says | Left out of the runs by |
|---|---|---|---|
| `ShmMsgQueue!ProducerUnblocked` | a message may pass `CHECK_LE` (`shm_msg_queue.cc:210`) and round up to more than a buffer whose size is not a power of two (17 of 24 bytes): `allocate` retries for ever | `shm_msg_queue.h:64`: blocked until some thread consumes messages | a buffer of 8 |
| `BuddyAllocator!ReleasedPoolIsInitial` | `update_pool` takes twice a block's size for its parent's: in a pool of 10 in three levels free buddies are not merged | `buddy_memory_allocator_base_object_builder.cc:84`: size of the parent | a pool of 8 |
| `BuddyAllocator!BlocksDisjoint`, a pool of 23 in four levels | the same rounding: with 1 byte out, the halves have 5 and 11 bytes left, which is the 16 that `update_pool` has doubled its way up to; they count as merged, and a request of 9 gets the whole pool | `buddy_memory_allocator_base_object_builder.cc:88`: can be merged | a pool of 8; the theorems assume `Halves` |
| `BuddyAllocator!RejectOnlyWhenNoBlock`, 17 bytes of a pool of 20 | the request is rounded up to 32 before it is compared with the free memory | `buddy_memory_allocator_base_object_builder.cc:108`: whether there is enough memory | a pool of 8; the theorem assumes `SizesFit` |
| `Reactor!CountIsRegistered` | `RegisterEventHandler` counts a modification as well, `ClearEventHandler` takes off one (`event_demultiplex.cc:58`) | `event_demultiplex.h:49`: number of events registered with epoll | not a property of a run |
| `Reactor!EpollWaitSucceeds`, three clients that leave and one worker | an increment of `epoll_event_count_` lost between a worker and the loop, which registers or clears meanwhile, lets it fall to 0 or below, and `epoll_wait` refuses | `event_demultiplex.cc:109`: `CHECK(ready != -1)` | two clients, who do not register often enough |
| `Reactor!IdleMeansAllSent` | one task drains several requests and asks for one write, `Write` sends one response (`handler.cc:85`) | `handler.cc:63`: all requests are handled and then the response data is sent | `reactor`: clients that wait |
| `Reactor!EveryRequestAnswered`, no workers | `hardware_concurrency()` may be 0 (`thread_pool.cc:7`) | `event_demultiplex.cc:155`: the thread notifies through `cb` | two workers |
| `RingBuffer!PushDropsOnlyWhatItNeeds` | a push that fills the buffer makes `write_` equal to `read_`; the next one takes it for empty (`ringbuffer.cc:62`) and all records are lost | `ringbuffer_test.cc:30`: only the oldest node goes | the abstract queue may lose all |
| `MallocLab!ExhaustionIsReported` | `mm_malloc` tests `mem_sbrk`'s result for `NULL`, failure is -1 (`mm.c:189`) | `mdriver.c:563` takes `NULL` for the failure | behaviours end there |
| `MallocLab!AllocatedIsLive`, `ClientSpecZero` | `mm_realloc(p, 0)` frees the block and goes on (`mm.c:219`): it is placed again, for nobody | `malloclab.pdf`, page 2: equivalent to `mm_free` | no size 0 |
| `Mdriver!PassesAgree` | `mm_init` does not reset `total_free_size` (`mm.c:153`): the second pass gets other addresses | `mm.c:151`: initialize the malloc package | not a property of a run |
| `Mdriver!RangesDisjoint` | `add_range` does not see a payload that encloses an old one (`mdriver.c:381`) | `mdriver.c:379`: must not overlap any other payloads | `OverlapsAreFound` leaves out payloads that enclose an older one |
| `Mdriver!CopiedDataIsFound` | `newp[j]` is a signed `char` and never equals `index & 0xFF` when that is 128 or more (`mdriver.c:610`): a correct `mm_realloc` is reported | `mdriver.c:602-606`: make sure that the new block contains the data from the old block | `MmPassesOtherTraces` claims it for the other ids |
| `PairHeap!PopTakesOut` | `pop` merges the root with its brothers, of which it has none (`pair_heap.h:61`) | `pair_heap.h:24`: the destructor relies on it | not a property of a run |
| `BinaryIndexTree!InitSetsValues`, `SpecReinit` | `init` adds to what the object holds (`binary_index_tree.h:27`) | `binary_index_tree.h:20`: builds the tree | one `init` |
| `SparseTable!AnyQueryIsMaximum`, `SpecAny` | `query(l, l)` reads column -1 (`sparse_table.h:41`) | `sparse_table.h:36`: `s = log2(r - l + 1)` | `l < r` |
| `Sort!BucketSortsEven` | the bucket is `i % bucket_size`, not monotone (`sort.h:181`) | `sort.h:177`: for evenly distributed data | `SortsInput` claims it for more buckets than values |
| `ShortestPaths!ForceSolvesEveryGraph` | with no reachable node left `u` is -1 (`dijkstra.h:42`) | `dijkstra.h:2`: graphs without negative weights | claimed for connected graphs |
| `ShortestPaths!FloydAnyWeights` | INF plus a negative weight is below INF (`floyd.h:31`) | `floyd.h:2`: any weights | claimed for nonnegative weights |
| `ShortestPaths!AnswerIsFromStart`, `SpecReuse` | distances of an earlier call stay (`bellman_ford.h:21`) | `bellman_ford.h:46`: distances from `start_node` | one call |
| `GraphOrder!ReturnsWhetherSortable`, 2 calls | `answer` is never cleared (`topological_sort.h:37`) | `topological_sort.h:15`: true if it can be sorted | one call |
| `BloomFilter!OnceIsNotTwice` | hash functions that agree count one insertion twice (`bloom_filter.h:131`) | `bloom_filter_test.cc:61`: must be false | not a property of a run |

## 6. Only model-checked

* All liveness (fairness and `ENABLED` are out of the prover's reach):
  `DeliversEverything`, `CallsReturnOrAreBlocked`, `PoolProgress`, `EveryInstanceCallEnds`,
  `EveryRequestAnswered`, `LockReleased`.
* The other structures (`RingIsLossyQueue`, `RedBlackShape`, `ImplementsDictionary`,
  `FixupTurnsShrink`, `HeapsAreRight`, `RangeSumsAreRight`, `TrieIsRight`), the other algorithms
  (`SortsInput`, `PathsAreShortest`, `GraphsAreOrdered`, `BitsAreRight`), the driver
  and the timing (`DriverIsRight`, `SamplingIsRight`): they walk trees, graphs and sequences
  with `RECURSIVE` operators, which the prover does not read, and are compared with
  definitions that are recursive as well (sums, permutations, paths).  The disjoint
  sets, KMP, the sparse table and the lab's allocator were like that; their loops are now recursive
  functions over one turn, and their invariants are stated without recursion.
* The cases the theorems' assumptions leave out: buffers that do not halve, counters
  that announce another number of ends, requests of clients that pipeline or leave.

## 7. Abstractions

* **Queue and allocators.**  Memory is offsets in one buffer; `mmap`, the attributes
  of the mutex and logging are left out.  Deaths are of whole processes, and each
  process has one thread.  A poll's interval has no length: the deadline of a timed
  call passes at any poll.  The spin lock's memory order is sequential.
* **Blocking queue.**  The mutex and condition variables are the standard's: atomic
  release and wait, spurious wakeups, any waiter is notified.
* **Singleton.**  A read of `instance_` outside the mutex is a data race; it returns
  the old or the new pointer.
* **Reactor.**  Operations on `request_q_` and on the map that race in the code are
  atomic here; `NoRequestQueueRace` says when the first do not overlap.  Left out:
  `errno` left over from an earlier call in `Read`, the terminator written behind the
  buffer, partial reads; `send` is a TODO in the code, so a written response counts as
  sent.  The listening socket is edge-triggered with one `accept` per event:
  connections that arrive together are not all accepted, and `reactor` has a backlog
  of 1 so that they do not.  The vector `events` is sized once, before the loop
  (`event_demultiplex.cc:104`), while `epoll_wait` is told the current count: the model
  keeps the events as reported, and what more events than the vector holds do to
  memory is left out.
* **Ring buffer.**  `memcpy` of whole words reads up to 7 bytes behind a record's
  data; the model copies the words.  `LOG(FATAL)` ends the behaviour.
* **Bloom filter.**  Hashing is any function from keys to buckets.
* **Bits.**  `W` at least 7 stands for 32; signed overflow wraps around as the
  builds do.
* **Strong components.**  `tarjan.h` does not compile as it stands; its evident reading is
  modelled.
* **Driver.**  Files, timing by the clock and the comparison with `libc` are left out.
  Contents are kept by the word: `memset` fills all words that the payload reaches into.
  An allocator that answers anything has no contents; what is found in its block is
  any byte that some id leaves, the same throughout.
* **Termination** of the red-black tree's fix-ups and of `fcyc` is stated as safety:
  a rank goes down with every turn, the turns are counted.

## 8. Not modelled

* Not finished in the repository: `ClearAndDelete` of the blocking queue (no code
  instantiates it, and its loop condition makes it pop from an empty deque only),
  `SegmentTree::range_set` (`segment_tree.h:84-113`,
  marked TODO, its recursion does not end), the AVL, B and B+ trees (stubs), the
  Huffman tree (commented out), A* and the function scheduler (declarations),
  the unfinished `void kmp()` at the end of
  `kmp.h`, `howManyBits` and the `float*` puzzles (stubs).
* Arithmetic on fixed constants with no invariant of its own: MD5, CRC32,
  MurmurHash, the rolling hash, `simd_sum`, `math.cc`, `permutation.h`.
* Input, output and measurement: `clock.c`, `ftimer.c`, `fsecs.c`, `eval_libc_*` of the
  driver, `btest.c`.
* Programs that show a language feature or a system call: `network`, `unix`,
  `language`, `python`, the object builder and `stack.h` (they forward to raw memory and to
  a vector), the client skeleton of `spades_three`.
