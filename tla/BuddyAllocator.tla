--------------------------- MODULE BuddyAllocator ---------------------------
(***************************************************************************)
(* The buddy memory allocator under concurrent callers.  Each call of      *)
(* allocate and deallocate takes the spin lock mutex_, marks one node of   *)
(* the tree and lets update_pool walk to the root, one node per step, so   *)
(* that whatever the lock does not exclude can interleave with the walk.   *)
(*                                                                         *)
(* The callers are threads that allocate blocks and give them back; a      *)
(* block may be given back by another thread than the one that got it, as  *)
(* the message queue does.  A block is never given back twice and always   *)
(* with the size it was allocated with: that is the contract of the class. *)
(***************************************************************************)
EXTENDS BuddyPool

\* s without its i-th element.
RemoveAt(s, i) == SubSeq(s, 1, i - 1) \o SubSeq(s, i + 1, Len(s))

CONSTANTS
    Threads,    \* the callers
    Sizes,      \* the sizes they ask for
    MaxHeld     \* bound: the blocks one caller holds at a time

ASSUME CallersAssumption ==
    /\ Threads # {}
    /\ Sizes \subseteq 1 .. PoolSize /\ Sizes # {}
    /\ MaxHeld \in Nat \ {0}

VARIABLES
    pool,       \* pool_
    lock_,      \* the flag of the spin lock mutex_
    pc,         \* pc[t]: where thread t is in its call
    call,       \* call[t]: the call thread t is in, and the block it works on
    cursor,     \* cursor[t]: block_idx and block_size of update_pool's loop
    held        \* held[t]: the blocks allocate has returned to t

vars == <<pool, lock_, pc, call, cursor, held>>

Ops == {"allocate", "deallocate"}

Block == [addr : 0 .. PoolSize - 1, size : Sizes]

\* Every index pair <<t, k>> of a block some caller holds.
Holdings == UNION {{t} \X (1 .. Len(held[t])) : t \in Threads}

\* One type invariant for the module: the lock flag is a Boolean and every
\* entry of pool_ is a size no larger than the pool.
TypeOK ==
    /\ pool \in [BlockIdx -> 0 .. PoolSize]
    /\ lock_ \in BOOLEAN
    /\ pc \in [Threads -> {"idle", "spin", "critical", "update"}]
    /\ \A t \in Threads :
        /\ call[t].op \in Ops /\ call[t].size \in Sizes
        /\ call[t].addr \in 0 .. PoolSize - 1
        /\ cursor[t].idx \in BlockIdx /\ cursor[t].size \in Nat
        /\ held[t] \in Seq(Block) /\ Len(held[t]) <= MaxHeld

Init ==
    /\ pool = InitPool
    /\ lock_ = FALSE
    /\ pc = [t \in Threads |-> "idle"]
    /\ call = [t \in Threads |->
                [op |-> "allocate", addr |-> 0, size |-> CHOOSE s \in Sizes : TRUE]]
    /\ cursor = [t \in Threads |-> [idx |-> 0, size |-> PoolSize]]
    /\ held = [t \in Threads |-> <<>>]

-----------------------------------------------------------------------------
CallAllocate(t, size) ==
    /\ pc[t] = "idle"
    /\ Len(held[t]) < MaxHeld
    /\ pc' = [pc EXCEPT ![t] = "spin"]
    /\ call' = [call EXCEPT ![t] = [op |-> "allocate", addr |-> 0, size |-> size]]
    /\ UNCHANGED <<pool, lock_, cursor, held>>

\* Thread t gives back the k-th block of thread u.
CallDeallocate(t, u, k) ==
    /\ pc[t] = "idle"
    /\ k \in 1 .. Len(held[u])
    /\ pc' = [pc EXCEPT ![t] = "spin"]
    /\ call' = [call EXCEPT ![t] =
                [op |-> "deallocate", addr |-> held[u][k].addr, size |-> held[u][k].size]]
    /\ held' = [held EXCEPT ![u] = RemoveAt(@, k)]
    /\ UNCHANGED <<pool, lock_, cursor>>

\* Faulty variant of Lock: the flag is set without looking at it.
LockBlindly(t) ==
    /\ pc[t] = "spin"
    /\ lock_' = TRUE
    /\ pc' = [pc EXCEPT ![t] = "critical"]
    /\ UNCHANGED <<pool, call, cursor, held>>

\* SpinLock::lock.  A failed compare_exchange only sets `expected' again.
Lock(t) ==
    /\ pc[t] = "spin"
    /\ lock_ = FALSE
    /\ lock_' = TRUE
    /\ pc' = [pc EXCEPT ![t] = "critical"]
    /\ UNCHANGED <<pool, call, cursor, held>>

\* Faulty variant of Reject: the early return leaves the lock taken.
RejectLocked(t) ==
    /\ pc[t] = "critical" /\ call[t].op = "allocate"
    /\ ~HasRoom(pool, call[t].size)
    /\ pc' = [pc EXCEPT ![t] = "idle"]
    /\ UNCHANGED <<pool, lock_, call, cursor, held>>

\* allocate returns nullptr: the root says that no block is large enough.
Reject(t) ==
    /\ pc[t] = "critical" /\ call[t].op = "allocate"
    /\ ~HasRoom(pool, call[t].size)
    /\ lock_' = FALSE
    /\ pc' = [pc EXCEPT ![t] = "idle"]
    /\ UNCHANGED <<pool, call, cursor, held>>

\* update_pool starts at node i.
StartUpdate(t, i) ==
    /\ cursor' = [cursor EXCEPT ![t] = [idx |-> i, size |-> ComputeBlockSize[i]]]
    /\ pc' = [pc EXCEPT ![t] = "update"]

MarkAllocate(t) ==
    /\ pc[t] = "critical" /\ call[t].op = "allocate"
    /\ HasRoom(pool, call[t].size)
    /\ LET found == SearchFor(pool, call[t].size) IN
        /\ pool' = MarkAllocated(pool, found.idx)
        /\ call' = [call EXCEPT ![t].addr = found.addr]
        /\ StartUpdate(t, found.idx)
    /\ UNCHANGED <<lock_, held>>

MarkDeallocate(t) ==
    /\ pc[t] = "critical" /\ call[t].op = "deallocate"
    /\ LET i == FindBlock(call[t].addr, call[t].size) IN
        /\ pool' = MarkFree(pool, i)
        /\ StartUpdate(t, i)
    /\ UNCHANGED <<lock_, call, held>>

\* One iteration of the loop of update_pool.
UpdateStep(t) ==
    /\ pc[t] = "update" /\ cursor[t].idx # 0
    /\ LET up == [idx |-> Parent(cursor[t].idx), size |-> 2 * cursor[t].size] IN
        /\ pool' = UpdateParent(pool, up.idx, up.size)
        /\ cursor' = [cursor EXCEPT ![t] = up]
    /\ UNCHANGED <<lock_, pc, call, held>>

\* The call returns; the lock_guard releases the lock.
Return(t) ==
    /\ pc[t] = "update" /\ cursor[t].idx = 0
    /\ lock_' = FALSE
    /\ pc' = [pc EXCEPT ![t] = "idle"]
    /\ held' = IF call[t].op = "allocate"
               THEN [held EXCEPT ![t] =
                        Append(@, [addr |-> call[t].addr, size |-> call[t].size])]
               ELSE held
    /\ UNCHANGED <<pool, call, cursor>>

Critical(t) == Reject(t) \/ MarkAllocate(t) \/ MarkDeallocate(t) \/ UpdateStep(t) \/ Return(t)

Next ==
    \E t \in Threads :
        \/ \E size \in Sizes : CallAllocate(t, size)
        \/ \E u \in Threads : \E k \in 1 .. MaxHeld : CallDeallocate(t, u, k)
        \/ Lock(t)
        \/ Critical(t)

Spec == Init /\ [][Next]_vars

\* A thread inside the lock is eventually scheduled; nothing is assumed of the
\* threads that spin, which compare_exchange does not queue.
FairSpec == Spec /\ \A t \in Threads : WF_vars(Critical(t))

-----------------------------------------------------------------------------
InLock(t) == pc[t] \in {"critical", "update"}

\* The node of a block handed out with this address and size.
NodeOf(b) == FindBlock(b.addr, b.size)

\* The nodes that are allocated: blocks the callers hold and blocks on their way
\* back whose deallocate has not marked them yet.
Taken ==
    {NodeOf(held[h[1]][h[2]]) : h \in Holdings}
      \cup {NodeOf(call[t]) : t \in {u \in Threads :
                call[u].op = "deallocate" /\ pc[u] \in {"spin", "critical"}}}

\* Reference definition of pool[i]: a wholly free node offers its own block,
\* an allocated one nothing, any other the better of its children.
Largest ==
    LET best[i \in BlockIdx] ==
            IF i \in Taken THEN 0
            ELSE IF \A j \in Taken : ~Below(j, i) THEN ComputeBlockSize[i]
            ELSE Max2(best[2 * i + 1], best[2 * i + 2])
    IN  best

\* Two threads are never inside the spin lock at once, and the flag says
\* whether one is (SpinLock::lock and unlock around allocate and deallocate).
MutualExclusion ==
    /\ \A t, u \in Threads : InLock(t) /\ InLock(u) => t = u
    /\ lock_ = (\E t \in Threads : InLock(t))

\* No byte belongs to two blocks that callers hold at the same time, whichever
\* way their calls interleave (allocate's search marks a node that is free
\* together with everything above and below it).  In a pool whose blocks do not halve
\* exactly the code breaks it: README, "Disagreements without a run".
BlocksDisjoint ==
    \A g, h \in Holdings :
        LET a == held[g[1]][g[2]]
            b == held[h[1]][h[2]]
        IN  g # h => \/ a.addr + a.size <= b.addr
                     \/ b.addr + b.size <= a.addr

\* The CHECK_GE in search_suitable_block never aborts the process, and the node
\* found is wholly free: the root's summary is never too optimistic.
SearchSucceeds ==
    \A t \in Threads :
        (pc[t] = "critical" /\ call[t].op = "allocate" /\ HasRoom(pool, call[t].size)) =>
            LET found == SearchFor(pool, call[t].size)
            IN  /\ found.ok
                /\ found.addr = BlockAddr[found.idx]
                /\ \A j \in Taken : ~Below(j, found.idx) /\ ~Below(found.idx, j)

\* Whenever no call is in progress inside the lock, the tree that update_pool
\* maintains is exactly the reference: freed buddies have been merged all the
\* way up and no allocated block is still offered.
SummaryExact ==
    ~lock_ => \A i \in BlockIdx :
        (\A j \in Taken : Below(i, j) => i = j) => pool[i] = Largest[i]

\* allocate returns nullptr only if every aligned block of the size class it
\* rounds to touches an allocated block: no request is refused because an
\* earlier deallocate forgot to coalesce.  The code breaks it for a size that rounds up
\* to more than the pool: README, "Disagreements without a run".
RejectOnlyWhenNoBlock ==
    \A t \in Threads :
        (pc[t] = "critical" /\ call[t].op = "allocate" /\ ~HasRoom(pool, call[t].size)) =>
            LET level == ComputeLevel(RoundedUpToMinBlockSize(call[t].size)) IN
            \A i \in {n \in BlockIdx : Level[n] = level} :
                \E j \in Taken : Below(i, j) \/ Below(j, i)

\* The sizes cached in the tree are exact when the lock is free, so the search
\* finds the block the root promises and allocate refuses only what has no block.
TreeExact == TypeOK /\ SummaryExact /\ SearchSucceeds /\ RejectOnlyWhenNoBlock

\* Once every block has been given back, the tree is as init_pool built it, so
\* that whatever could be allocated at first can be allocated again.
\* The code breaks it: README, "Disagreements without a run".
ReleasedPoolIsInitial == ~lock_ /\ Taken = {} => pool = InitPool

\* update_pool's loop always reaches the root, so the lock is always released.
LockReleased == lock_ ~> ~lock_
=============================================================================
