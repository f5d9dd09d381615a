----------------------------- MODULE BuddyPool -----------------------------
(***************************************************************************)
(* The arithmetic of the buddy memory allocator, without its lock: the     *)
(* complete binary tree that `pool' stores in an array, and what one call  *)
(* of allocate and of deallocate does to it.  The two classes of the       *)
(* repository, BuddyMemoryAllocator and                                    *)
(* BuddyMemoryAllocatorBaseObjectBuilder, run the same algorithm over      *)
(* different storage; both are this module.                                *)
(*                                                                         *)
(* Node 0 is the whole pool and the children of node i are 2i+1 and 2i+2.  *)
(* pool[i] is the size of the largest block that can still be handed out   *)
(* below node i; 0 says that the block of node i is allocated.             *)
(***************************************************************************)
EXTENDS Naturals, Sequences

CONSTANTS
    PoolSize,   \* pool_size_, the bytes of the pool
    NumOrder    \* num_order_, the levels of the tree

ASSUME PoolAssumption ==
    /\ PoolSize \in Nat \ {0}
    /\ NumOrder \in Nat \ {0}

Max2(a, b) == IF a >= b THEN a ELSE b

\* 1 << n, the blocks of order n.
Pow2[n \in Nat] == IF n = 0 THEN 1 ELSE 2 * Pow2[n - 1]

\* Every index of the array pool_.
BlockIdx == 0 .. Pow2[NumOrder] - 2

Parent(i) == (i - 1) \div 2

\* compute_block_size: halved, rounding down, once per level.
ComputeBlockSize[i \in Nat] ==
    IF i = 0 THEN PoolSize ELSE ComputeBlockSize[Parent(i)] \div 2

\* init_pool: every block is free and whole.
InitPool == [i \in BlockIdx |-> ComputeBlockSize[i]]

\* min_block_size_ as init_pool leaves it: twice the size one level below the leaves.
MinBlockSize == (ComputeBlockSize[Pow2[NumOrder] - 2] \div 2) * 2

\* rounded_up: the first power of two that is not below size.
RoundedUp(size) ==
    LET value[v \in Nat] == IF v < size THEN value[2 * v] ELSE v
    IN  value[1]

RoundedUpToMinBlockSize(size) == Max2(RoundedUp(size), MinBlockSize)

\* compute_level: how often the pool can be halved and still hold blockSize.
ComputeLevel(blockSize) ==
    LET level[s \in Nat] == IF s \div 2 >= blockSize THEN 1 + level[s \div 2] ELSE 0
    IN  level[PoolSize]

\* Faulty variant of Merge: freed buddies are never merged.
MergeNever(left, right, parentBlockSize) == Max2(left, right)

\* The body of update_pool's loop: what is stored in the parent of two blocks
\* whose sizes the loop believes to add up to parentBlockSize.
Merge(left, right, parentBlockSize) ==
    IF left + right = parentBlockSize THEN parentBlockSize ELSE Max2(left, right)

UpdateParent(pool, parent, parentBlockSize) ==
    [pool EXCEPT ![parent] =
        Merge(pool[2 * parent + 1], pool[2 * parent + 2], parentBlockSize)]

\* One iteration of update_pool's loop, if the loop is not over.  The size is doubled
\* on the way up, it is not recomputed.
UpdateUp(at) ==
    IF at.idx = 0 THEN at
    ELSE LET parent == Parent(at.idx)
         IN  [pool |-> UpdateParent(at.pool, parent, 2 * at.size),
              idx  |-> parent,
              size |-> 2 * at.size]

\* update_pool: the loop is over after i iterations or fewer.
UpdatePool(pool, i) ==
    LET at[n \in Nat] ==
            IF n = 0 THEN [pool |-> pool, idx |-> i, size |-> ComputeBlockSize[i]]
            ELSE UpdateUp(at[n - 1])
    IN  at[i].pool

-----------------------------------------------------------------------------

\* One iteration of search_suitable_block: to the left child if it has a block of
\* this size.  The CHECK_GE on the right child is kept as the field ok.
SearchDown(pool, size, at) ==
    LET left == 2 * at.idx + 1
    IN  IF pool[left] >= size
        THEN [idx |-> left, addr |-> at.addr, ok |-> at.ok]
        ELSE [idx  |-> left + 1,
              addr |-> at.addr + ComputeBlockSize[at.idx] \div 2,
              ok   |-> at.ok /\ pool[left + 1] >= size]

SearchSuitableBlock(pool, targetLevel, size) ==
    LET walk[l \in Nat] ==
            IF l = 0 THEN [idx |-> 0, addr |-> 0, ok |-> TRUE]
            ELSE SearchDown(pool, size, walk[l - 1])
    IN  walk[targetLevel]

SearchFor(pool, size) ==
    LET blockSize == RoundedUpToMinBlockSize(size)
    IN  SearchSuitableBlock(pool, ComputeLevel(blockSize), blockSize)

\* The early return of allocate.
HasRoom(pool, size) == pool[0] >= RoundedUpToMinBlockSize(size)

\* Faulty variant of FindDown: <= where the code has <.
FindDownLeft(addr, at) ==
    LET child == ComputeBlockSize[at.idx] \div 2
    IN  IF addr <= at.off + child
        THEN [idx |-> 2 * at.idx + 1, off |-> at.off]
        ELSE [idx |-> 2 * at.idx + 2, off |-> at.off + child]

\* One iteration of deallocate's loop: to the child whose block holds the address.
FindDown(addr, at) ==
    LET child == ComputeBlockSize[at.idx] \div 2
    IN  IF addr < at.off + child
        THEN [idx |-> 2 * at.idx + 1, off |-> at.off]
        ELSE [idx |-> 2 * at.idx + 2, off |-> at.off + child]

\* The block that deallocate finds again from the address and the size.
FindBlock(addr, size) ==
    LET walk[l \in Nat] ==
            IF l = 0 THEN [idx |-> 0, off |-> 0] ELSE FindDown(addr, walk[l - 1])
    IN  walk[ComputeLevel(RoundedUpToMinBlockSize(size))].idx

MarkAllocated(pool, i) == [pool EXCEPT ![i] = 0]

MarkFree(pool, i) == [pool EXCEPT ![i] = ComputeBlockSize[i]]

\* allocate after its early return, and deallocate, as one step each: what the
\* caller that already holds a lock of its own observes.
AllocateBlock(pool, size) ==
    LET i == SearchFor(pool, size).idx
    IN  UpdatePool(MarkAllocated(pool, i), i)

DeallocateBlock(pool, addr, size) ==
    LET i == FindBlock(addr, size)
    IN  UpdatePool(MarkFree(pool, i), i)

-----------------------------------------------------------------------------
(***************************************************************************)
(* Reference definitions, for the properties only.                         *)
(***************************************************************************)

\* The offset of the block of node i in the pool.
BlockAddr[i \in Nat] ==
    IF i = 0 THEN 0
    ELSE BlockAddr[Parent(i)] +
            (IF i % 2 = 0 THEN ComputeBlockSize[Parent(i)] \div 2 ELSE 0)

Level[i \in Nat] == IF i = 0 THEN 0 ELSE 1 + Level[Parent(i)]

\* j is in the subtree of i.
Below(j, i) ==
    LET climb[n \in Nat] == n = i \/ (n > i /\ climb[Parent(n)])
    IN  climb[j]
=============================================================================
