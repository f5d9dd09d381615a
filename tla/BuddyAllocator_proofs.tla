----------------------- MODULE BuddyAllocator_proofs -----------------------
(***************************************************************************)
(* Proofs about the buddy allocator, for any threads, pool and request     *)
(* sizes: the spin lock excludes; if every block of the tree is exactly    *)
(* two of its children, the blocks that are out never overlap, and the     *)
(* tree says exactly what is free whenever nobody is inside update_pool.   *)
(*                                                                         *)
(* The inductive invariant TreeInv is about the *items*, the blocks that   *)
(* callers hold together with those of the calls under way: each is a node *)
(* of the tree, no two overlap, and every node of the tree is right about  *)
(* what is free below it, but for the ones on the path that an update_pool *)
(* under way has still to walk.  BuddyPool_proofs has the facts about the  *)
(* tree itself.                                                            *)
(***************************************************************************)
EXTENDS BuddyAllocator, BuddyPool_proofs

\* The part of TypeOK that mutual exclusion rests on.
LockTypeOK ==
    /\ lock_ \in BOOLEAN
    /\ pc \in [Threads -> {"idle", "spin", "critical", "update"}]

LockInv == LockTypeOK /\ MutualExclusion

\* A step that moves thread t without taking or giving back the lock.
LEMMA MoveKeepsLock ==
    ASSUME LockInv, NEW t \in Threads, NEW l \in {"idle", "spin", "critical", "update"},
           pc' = [pc EXCEPT ![t] = l], lock_' = lock_,
           InLock(t) <=> l \in {"critical", "update"}
    PROVE  LockInv'
<1>1. LockTypeOK'
  BY DEF LockInv, LockTypeOK
<1>2. \A u \in Threads : InLock(u)' <=> InLock(u)
  BY DEF LockInv, LockTypeOK, InLock
<1>3. MutualExclusion'
  BY <1>2 DEF LockInv, MutualExclusion
<1> QED
  BY <1>1, <1>3 DEF LockInv

\* compare_exchange succeeds: the flag was false, so nobody is inside.
LEMMA TakeLock ==
    ASSUME LockInv, NEW t \in Threads, lock_ = FALSE, lock_' = TRUE,
           pc' = [pc EXCEPT ![t] = "critical"]
    PROVE  LockInv'
<1>1. LockTypeOK'
  BY DEF LockInv, LockTypeOK
<1>2. \A u \in Threads : ~InLock(u)
  BY DEF LockInv, MutualExclusion
<1>3. \A u \in Threads : InLock(u)' <=> u = t
  BY <1>2 DEF LockInv, LockTypeOK, InLock
<1>4. MutualExclusion'
  BY <1>3 DEF MutualExclusion
<1> QED
  BY <1>1, <1>4 DEF LockInv

\* unlock by the thread inside leaves nobody inside.
LEMMA GiveLock ==
    ASSUME LockInv, NEW t \in Threads, InLock(t), lock_' = FALSE,
           pc' = [pc EXCEPT ![t] = "idle"]
    PROVE  LockInv'
<1>1. LockTypeOK'
  BY Zenon DEF LockInv, LockTypeOK
<1>2. \A u \in Threads : InLock(u) => u = t
  BY DEF LockInv, MutualExclusion
<1>3. \A u \in Threads : ~InLock(u)'
  BY <1>2 DEF LockInv, LockTypeOK, InLock
<1>4. MutualExclusion'
  BY <1>3, Zenon DEF MutualExclusion
<1> QED
  BY <1>1, <1>4 DEF LockInv

\* At first nobody is inside.
LEMMA LockInit == Init => LockInv
<1> SUFFICES ASSUME Init PROVE LockInv
  OBVIOUS
<1>1. lock_ = FALSE /\ \A t \in Threads : ~InLock(t)
  BY DEF Init, InLock
<1>2. LockTypeOK
  BY <1>1, Zenon DEF Init, LockTypeOK
<1> QED
  BY <1>1, <1>2, Zenon DEF LockInv, MutualExclusion

\* Every step keeps the lock's flag and its holder in agreement.
LEMMA LockStep == LockInv /\ [Next]_vars => LockInv'
<1> SUFFICES ASSUME LockInv, [Next]_vars PROVE LockInv'
  OBVIOUS
<1>1. ASSUME NEW t \in Threads,
             \/ \E size \in Sizes : CallAllocate(t, size)
             \/ \E u \in Threads : \E k \in 1 .. MaxHeld : CallDeallocate(t, u, k)
      PROVE  LockInv'
  <2>1. pc[t] = "idle" /\ pc' = [pc EXCEPT ![t] = "spin"] /\ lock_' = lock_
    BY <1>1 DEF CallAllocate, CallDeallocate
  <2> QED
    BY <2>1, MoveKeepsLock, Zenon DEF InLock
<1>2. ASSUME NEW t \in Threads, Lock(t) PROVE LockInv'
  BY <1>2, TakeLock, Zenon DEF Lock
<1>3. ASSUME NEW t \in Threads, Reject(t) \/ Return(t) PROVE LockInv'
  <2>1. InLock(t) /\ lock_' = FALSE /\ pc' = [pc EXCEPT ![t] = "idle"]
    BY <1>3 DEF Reject, Return, InLock
  <2> QED
    BY <2>1, GiveLock, Zenon
<1>4. ASSUME NEW t \in Threads, MarkAllocate(t) \/ MarkDeallocate(t) PROVE LockInv'
  <2>1. pc[t] = "critical" /\ pc' = [pc EXCEPT ![t] = "update"] /\ lock_' = lock_
    BY <1>4 DEF MarkAllocate, MarkDeallocate, StartUpdate
  <2> QED
    BY <2>1, MoveKeepsLock, Zenon DEF InLock
<1>5. ASSUME NEW t \in Threads, UpdateStep(t) PROVE LockInv'
  BY <1>5, Zenon DEF UpdateStep, LockInv, LockTypeOK, MutualExclusion, InLock
<1>6. CASE UNCHANGED vars
  BY <1>6, Zenon DEF vars, LockInv, LockTypeOK, MutualExclusion, InLock
<1> QED
  BY <1>1, <1>2, <1>3, <1>4, <1>5, <1>6 DEF Next, Critical

\* allocate and deallocate never run at the same time: between lock and unlock of
\* mutex_ a thread is alone with pool_.
THEOREM SpinLockExcludes == Spec => []MutualExclusion
<1>1. LockInv => MutualExclusion
  BY DEF LockInv
<1> QED
  BY <1>1, LockInit, LockStep, PTL DEF Spec

-----------------------------------------------------------------------------
(***************************************************************************)
(* The blocks that are out.  An item is <<t, k>> for the k-th block that t *)
(* holds and <<t, 0>> for the block of the call that t is in: one that is  *)
(* on its way back and not marked yet, or one that is marked and not       *)
(* returned yet.                                                           *)
(***************************************************************************)
InCall(t) ==
    \/ call[t].op = "deallocate" /\ pc[t] \in {"spin", "critical"}
    \/ call[t].op = "allocate" /\ pc[t] = "update"

Items == Holdings \cup {<<t, 0>> : t \in {u \in Threads : InCall(u)}}

ItemBlock(x) ==
    IF x[2] = 0 THEN [addr |-> call[x[1]].addr, size |-> call[x[1]].size]
    ELSE held[x[1]][x[2]]

ItemNode(x) == NodeOf(ItemBlock(x))

Nodes == {ItemNode(x) : x \in Items}

\* Block b is the block of a node on the level allocate looks on for its size.
Placed(b) ==
    /\ NodeOf(b) \in BlockIdx
    /\ b.addr = BlockAddr[NodeOf(b)]
    /\ b.size <= ComputeBlockSize[NodeOf(b)]
    /\ Level[NodeOf(b)] = ComputeLevel(RoundedUpToMinBlockSize(b.size))

ItemsOK ==
    /\ \A x \in Items : Placed(ItemBlock(x))
    /\ \A x, y \in Items : x # y => Apart(ItemNode(x), ItemNode(y))

StateOK ==
    /\ pc \in [Threads -> {"idle", "spin", "critical", "update"}]
    /\ call \in [Threads -> [op : Ops, addr : 0 .. PoolSize - 1, size : Sizes]]
    /\ cursor \in [Threads -> [idx : BlockIdx, size : Nat]]
    /\ held \in [Threads -> Seq(Block)]
    /\ \A t \in Threads : Len(held[t]) <= MaxHeld
    /\ \A t \in Threads : pc[t] # "idle" /\ call[t].op = "allocate" => Len(held[t]) < MaxHeld

\* The tree is right unless a thread is in update_pool, and then it is right up to
\* the node that the thread has arrived at.
PoolOK ==
    /\ (\A t \in Threads : pc[t] # "update") => TreeOK(Nodes, pool)
    /\ \A t \in Threads : pc[t] = "update" =>
            /\ RightUpTo(Nodes, pool, cursor[t].idx)
            /\ cursor[t].size = ComputeBlockSize[cursor[t].idx]

TreeInv == LockInv /\ StateOK /\ ItemsOK /\ PoolOK

\* What RemoveAt leaves of a sequence.
LEMMA Removed ==
    ASSUME NEW S, NEW s \in Seq(S), NEW k \in 1 .. Len(s)
    PROVE  /\ RemoveAt(s, k) \in Seq(S) /\ Len(RemoveAt(s, k)) = Len(s) - 1
           /\ \A i \in 1 .. Len(s) - 1 : RemoveAt(s, k)[i] = s[IF i < k THEN i ELSE i + 1]
<1>1. RemoveAt(s, k) = SubSeq(s, 1, k - 1) \o SubSeq(s, k + 1, Len(s))
  BY DEF RemoveAt
<1> DEFINE a == SubSeq(s, 1, k - 1)
           b == SubSeq(s, k + 1, Len(s))
<1>2. a \in Seq(S) /\ Len(a) = k - 1 /\ \A i \in 1 .. k - 1 : a[i] = s[i]
  OBVIOUS
<1>3. b \in Seq(S) /\ Len(b) = Len(s) - k /\ \A i \in 1 .. Len(s) - k : b[i] = s[k + i]
  OBVIOUS
<1> HIDE DEF a, b
<1>4. PICK n \in Nat : n = Len(s) /\ k \in 1 .. n /\ k \in Nat
  OBVIOUS
<1>5. a \o b \in Seq(S) /\ Len(a \o b) = Len(s) - 1
  <2>0. a \in Seq(S) /\ b \in Seq(S)
    BY <1>2, <1>3
  <2>1. a \o b \in Seq(S) /\ Len(a \o b) = Len(a) + Len(b)
    BY <2>0
  <2>2. (k - 1) + (n - k) = n - 1
    BY <1>4
  <2> QED
    BY <1>2, <1>3, <1>4, <2>1, <2>2
<1>6. ASSUME NEW i \in 1 .. Len(s) - 1 PROVE (a \o b)[i] = s[IF i < k THEN i ELSE i + 1]
  <2>1. CASE i < k
    BY <1>2, <1>3, <1>4, <2>1
  <2>2. CASE i >= k
    <3>1. i - (k - 1) \in 1 .. Len(s) - k
      BY <1>4, <2>2
    <3>2. (a \o b)[i] = b[i - (k - 1)]
      BY <1>2, <1>3, <1>4, <2>2
    <3>3. k + (i - (k - 1)) = i + 1
      BY <1>4, <2>2
    <3> QED
      BY <1>3, <1>4, <2>2, <3>1, <3>2, <3>3
  <2>3. i < k \/ i >= k
    BY <1>4
  <2> QED
    BY <2>1, <2>2, <2>3, ZenonT(40)
<1> QED
  BY <1>1, <1>5, <1>6, ZenonT(40) DEF a, b

\* A step that only renames items keeps them where they are.
LEMMA Renamed ==
    ASSUME ItemsOK, NEW m,
           \A x \in Items' : m[x] \in Items /\ ItemBlock(x)' = ItemBlock(m[x]),
           \A x, y \in Items' : m[x] = m[y] => x = y
    PROVE  /\ ItemsOK'
           /\ (\A y \in Items : \E x \in Items' : m[x] = y) => Nodes' = Nodes
<1>1. \A x \in Items' : ItemNode(x)' = ItemNode(m[x])
  BY DEF ItemNode
<1>2. \A x \in Items' : Placed(ItemBlock(x))'
  BY DEF ItemsOK, Placed
<1>3. ItemsOK'
  BY <1>1, <1>2 DEF ItemsOK
<1>4. ASSUME \A y \in Items : \E x \in Items' : m[x] = y PROVE Nodes' = Nodes
  <2>1. ASSUME NEW n \in Nodes PROVE n \in Nodes'
    <3>1. PICK y \in Items : n = ItemNode(y)
      BY DEF Nodes
    <3>2. PICK x \in Items' : m[x] = y
      BY <1>4
    <3> QED
      BY <1>1, <3>1, <3>2 DEF Nodes
  <2>2. ASSUME NEW n \in Nodes' PROVE n \in Nodes
    <3>1. PICK x \in Items' : n = ItemNode(x)'
      BY DEF Nodes
    <3> QED
      BY <1>1, <3>1 DEF Nodes
  <2> QED
    BY <2>1, <2>2
<1> QED
  BY <1>3, <1>4

\* A step that leaves the items alone.
LEMMA SameItems ==
    ASSUME ItemsOK, Items' = Items, \A x \in Items : ItemBlock(x)' = ItemBlock(x)
    PROVE  ItemsOK' /\ Nodes' = Nodes
<1>1. \A x \in Items : ItemNode(x)' = ItemNode(x)
  BY DEF ItemNode
<1>2. \A x \in Items : Placed(ItemBlock(x))'
  BY DEF ItemsOK, Placed
<1> QED
  BY <1>1, <1>2 DEF ItemsOK, Nodes

\* The items, spelled out.
LEMMA ItemsAre ==
    StateOK =>
        /\ \A t \in Threads, k \in Nat :
              <<t, k>> \in Items <=> (k = 0 /\ InCall(t)) \/ (k # 0 /\ k <= Len(held[t]))
        /\ \A x \in Items : \E t \in Threads, k \in Nat : x = <<t, k>>
        /\ \A t \in Threads : held[t] \in Seq(Block) /\ Len(held[t]) \in Nat
<1> SUFFICES ASSUME StateOK
    PROVE /\ \A t \in Threads, k \in Nat :
                <<t, k>> \in Items <=> (k = 0 /\ InCall(t)) \/ (k # 0 /\ k <= Len(held[t]))
          /\ \A x \in Items : \E t \in Threads, k \in Nat : x = <<t, k>>
          /\ \A t \in Threads : held[t] \in Seq(Block) /\ Len(held[t]) \in Nat
  OBVIOUS
<1>1. \A t \in Threads : held[t] \in Seq(Block) /\ Len(held[t]) \in Nat
  BY DEF StateOK
<1>2. ASSUME NEW t \in Threads, NEW k \in Nat
      PROVE  <<t, k>> \in Holdings <=> k # 0 /\ k <= Len(held[t])
  BY <1>1 DEF Holdings
<1>3. ASSUME NEW t \in Threads, NEW k \in Nat
      PROVE  <<t, k>> \in {<<v, 0>> : v \in {u \in Threads : InCall(u)}} <=> k = 0 /\ InCall(t)
  OBVIOUS
<1>4. ASSUME NEW x \in Items PROVE \E t \in Threads, k \in Nat : x = <<t, k>>
  <2>1. CASE x \in Holdings
    <3>1. PICK t \in Threads : x \in {t} \X (1 .. Len(held[t]))
      BY <2>1 DEF Holdings
    <3>2. PICK k \in 1 .. Len(held[t]) : x = <<t, k>>
      BY <3>1
    <3> QED
      BY <1>1, <3>2
  <2>2. CASE x \in {<<v, 0>> : v \in {u \in Threads : InCall(u)}}
    BY <2>2
  <2> QED
    BY <2>1, <2>2 DEF Items
<1> QED
  BY <1>1, <1>2, <1>3, <1>4 DEF Items

\* The same in the next state.
LEMMA ItemsAreNext ==
    ASSUME StateOK'
    PROVE
        /\ \A t \in Threads, k \in Nat :
              <<t, k>> \in Items' <=> (k = 0 /\ InCall(t)') \/ (k # 0 /\ k <= Len(held'[t]))
        /\ \A x \in Items' : \E t \in Threads, k \in Nat : x = <<t, k>>
        /\ \A t \in Threads : held'[t] \in Seq(Block) /\ Len(held'[t]) \in Nat
<1>1. (StateOK =>
        /\ \A t \in Threads, k \in Nat :
              <<t, k>> \in Items <=> (k = 0 /\ InCall(t)) \/ (k # 0 /\ k <= Len(held[t]))
        /\ \A x \in Items : \E t \in Threads, k \in Nat : x = <<t, k>>
        /\ \A t \in Threads : held[t] \in Seq(Block) /\ Len(held[t]) \in Nat)'
  BY ItemsAre, PTL
<1> QED
  BY <1>1

\* The block of an item.
LEMMA BlockOf ==
    /\ \A t : ItemBlock(<<t, 0>>) = [addr |-> call[t].addr, size |-> call[t].size]
    /\ \A t : \A k \in Nat \ {0} : ItemBlock(<<t, k>>) = held[t][k]
  BY DEF ItemBlock

\* The block of an item in the next state.
LEMMA BlockOfNext ==
    /\ \A t : ItemBlock(<<t, 0>>)' = [addr |-> call'[t].addr, size |-> call'[t].size]
    /\ \A t : \A k \in Nat \ {0} : ItemBlock(<<t, k>>)' = held'[t][k]
  BY DEF ItemBlock

\* The nodes that are out are pairwise apart, so each item has a node of its own.
LEMMA NodesApart ==
    ASSUME ItemsOK
    PROVE  /\ Antichain(Nodes)
           /\ \A x, y \in Items : ItemNode(x) = ItemNode(y) => x = y
           /\ \A x \in Items : ItemNode(x) \in Nodes /\ ItemNode(x) \in BlockIdx
<1>1. BlockIdx \subseteq Nat
  BY ArrayNodes
<1>2. \A x \in Items : ItemNode(x) \in BlockIdx
  BY DEF ItemsOK, Placed, ItemNode
<1>3. \A x, y \in Items : x # y => ~Below(ItemNode(x), ItemNode(y))
  BY DEF ItemsOK, Apart
<1>4. \A x \in Items : Below(ItemNode(x), ItemNode(x))
  BY <1>1, <1>2, BelowBasics, ZenonT(40)
<1>5. \A x, y \in Items : ItemNode(x) = ItemNode(y) => x = y
  BY <1>3, <1>4
<1>6. Nodes \subseteq BlockIdx
  BY <1>2 DEF Nodes
<1>7. ASSUME NEW i \in Nodes, NEW j \in Nodes, Below(i, j) PROVE i = j
  BY <1>3, <1>7 DEF Nodes
<1> QED
  BY <1>2, <1>5, <1>6, <1>7 DEF Antichain, Nodes

\* An item that goes away.
LEMMA ItemGone ==
    ASSUME ItemsOK, NEW y \in Items, Items' = Items \ {y},
           \A x \in Items' : ItemBlock(x)' = ItemBlock(x)
    PROVE  ItemsOK' /\ Nodes' = Nodes \ {ItemNode(y)}
<1>1. \A x \in Items' : ItemNode(x)' = ItemNode(x)
  BY DEF ItemNode
<1>2. \A x \in Items' : Placed(ItemBlock(x))'
  BY DEF ItemsOK, Placed
<1>3. ItemsOK'
  BY <1>1, <1>2 DEF ItemsOK
<1>4. Nodes' = Nodes \ {ItemNode(y)}
  BY <1>1, NodesApart DEF Nodes
<1> QED
  BY <1>3, <1>4

\* An item that appears, apart from all the others.
LEMMA ItemAdded ==
    ASSUME ItemsOK, NEW y, y \notin Items, Items' = Items \cup {y},
           \A x \in Items : ItemBlock(x)' = ItemBlock(x),
           Placed(ItemBlock(y))', \A j \in Nodes : Apart(ItemNode(y)', j)
    PROVE  ItemsOK' /\ Nodes' = Nodes \cup {ItemNode(y)'}
<1>1. \A x \in Items : ItemNode(x)' = ItemNode(x)
  BY DEF ItemNode
<1>2. \A x \in Items : Placed(ItemBlock(x))'
  BY DEF ItemsOK, Placed
<1>3. \A x \in Items : Apart(ItemNode(y)', ItemNode(x)) /\ Apart(ItemNode(x), ItemNode(y)')
  BY DEF Nodes, Apart
<1>4. ItemsOK'
  BY <1>1, <1>2, <1>3 DEF ItemsOK
<1>5. Nodes' = Nodes \cup {ItemNode(y)'}
  BY <1>1, SMTT(30) DEF Nodes
<1> QED
  BY <1>4, <1>5

\* A step that leaves the tree and the threads in update_pool alone.
LEMMA PoolKept ==
    ASSUME PoolOK, pool' = pool, cursor' = cursor, Nodes' = Nodes,
           \A t \in Threads : pc'[t] = "update" <=> pc[t] = "update"
    PROVE  PoolOK'
  BY DEF PoolOK, TreeOK, RightUpTo, NodeOK, Bounded, Occupied

\* allocate is called: the items are the same, whatever the call was before.
LEMMA CallAllocateTree ==
    ASSUME TreeInv, NEW t \in Threads, NEW size \in Sizes, CallAllocate(t, size)
    PROVE  StateOK' /\ ItemsOK' /\ PoolOK'
<1> USE DEF TreeInv, CallAllocate
<1>1. StateOK'
  <2>1. 0 \in 0 .. PoolSize - 1
    BY PoolAssumption
  <2> QED
    BY <2>1 DEF StateOK, Ops
<1>2. Items' = Items
  <2>1. \A v \in Threads : InCall(v)' <=> InCall(v)
    BY DEF StateOK, InCall
  <2>2. {u \in Threads : InCall(u)}' = {u \in Threads : InCall(u)}
    BY <2>1
  <2>3. Holdings' = Holdings
    BY DEF Holdings
  <2> QED
    BY <2>2, <2>3 DEF Items
<1>3. \A x \in Items : ItemBlock(x)' = ItemBlock(x)
  <2> SUFFICES ASSUME NEW x \in Items PROVE ItemBlock(x)' = ItemBlock(x)
    OBVIOUS
  <2>1. PICK v \in Threads, k \in Nat : x = <<v, k>>
    BY ItemsAre
  <2>2. CASE k = 0
    <3>1. v # t
      BY <2>1, <2>2, ItemsAre DEF InCall
    <3>2. call'[v] = call[v]
      BY <3>1 DEF StateOK
    <3>3. x = <<v, 0>>
      BY <2>1, <2>2
    <3>4. /\ ItemBlock(<<v, 0>>)' = [addr |-> call'[v].addr, size |-> call'[v].size]
          /\ ItemBlock(<<v, 0>>) = [addr |-> call[v].addr, size |-> call[v].size]
      BY BlockOf, BlockOfNext
    <3> HIDE DEF CallAllocate, TreeInv
    <3> QED
      BY <3>2, <3>3, <3>4
  <2>3. CASE k # 0
    BY <2>1, <2>3, BlockOf, BlockOfNext
  <2> QED
    BY <2>2, <2>3
<1>4. ItemsOK' /\ Nodes' = Nodes
  BY <1>2, <1>3, SameItems
<1>5. \A v \in Threads : pc'[v] = "update" <=> pc[v] = "update"
  BY DEF StateOK
<1> QED
  BY <1>1, <1>4, <1>5, PoolKept

\* The steps that move a thread and leave its call, its cursor and the blocks alone.
LEMMA MoveTree ==
    ASSUME TreeInv, NEW t \in Threads, Lock(t) \/ Reject(t)
    PROVE  StateOK' /\ ItemsOK' /\ PoolOK'
<1> USE DEF TreeInv, Lock, Reject
<1>1. StateOK'
  BY ZenonT(40) DEF StateOK
<1>2. Items' = Items
  <2>1. \A v \in Threads : InCall(v)' <=> InCall(v)
    BY DEF StateOK, InCall
  <2>2. {u \in Threads : InCall(u)}' = {u \in Threads : InCall(u)}
    BY <2>1
  <2>3. Holdings' = Holdings
    BY DEF Holdings
  <2> QED
    BY <2>2, <2>3 DEF Items
<1>3. \A x \in Items : ItemBlock(x)' = ItemBlock(x)
  BY DEF ItemBlock
<1>4. ItemsOK' /\ Nodes' = Nodes
  BY <1>2, <1>3, SameItems
<1>5. \A v \in Threads : pc'[v] = "update" <=> pc[v] = "update"
  BY DEF StateOK
<1>6. pool' = pool /\ cursor' = cursor
  OBVIOUS
<1> QED
  BY <1>1, <1>4, <1>5, <1>6, PoolKept

\* deallocate is called: the k-th block of u becomes the block of the call.
LEMMA CallDeallocateTree ==
    ASSUME TreeInv, NEW t \in Threads, NEW u \in Threads, NEW k \in 1 .. MaxHeld,
           CallDeallocate(t, u, k)
    PROVE  StateOK' /\ ItemsOK' /\ PoolOK'
<1> USE DEF TreeInv
<1>0. /\ pc[t] = "idle" /\ pc' = [pc EXCEPT ![t] = "spin"]
      /\ call' = [call EXCEPT ![t] =
            [op |-> "deallocate", addr |-> held[u][k].addr, size |-> held[u][k].size]]
      /\ held' = [held EXCEPT ![u] = RemoveAt(@, k)]
      /\ UNCHANGED <<pool, lock_, cursor>>
      /\ k \in 1 .. Len(held[u])
  BY SMTT(30) DEF CallDeallocate
<1>1. PICK n \in Nat : n = Len(held[u]) /\ k \in 1 .. n /\ k \in Nat \ {0} /\ n <= MaxHeld
  BY <1>0 DEF StateOK
<1>2. PICK s \in Seq(Block) :
         /\ s = RemoveAt(held[u], k) /\ Len(s) = n - 1
         /\ \A i \in 1 .. n - 1 : s[i] = held[u][IF i < k THEN i ELSE i + 1]
  <2>1. held[u] \in Seq(Block)
    BY DEF StateOK
  <2>2. /\ RemoveAt(held[u], k) \in Seq(Block) /\ Len(RemoveAt(held[u], k)) = n - 1
        /\ \A i \in 1 .. n - 1 : RemoveAt(held[u], k)[i] = held[u][IF i < k THEN i ELSE i + 1]
    BY <1>0, <1>1, <2>1, Removed, ZenonT(40)
  <2> QED
    BY <2>2
<1>3. held' = [held EXCEPT ![u] = s] /\ held \in [Threads -> Seq(Block)]
  BY <1>0, <1>2 DEF StateOK
<1>4. PICK b \in Block : b = held[u][k]
  BY <1>0, <1>3
<1>5. b = [addr |-> b.addr, size |-> b.size] /\ b.addr \in 0 .. PoolSize - 1 /\ b.size \in Sizes
  BY SMTT(30) DEF Block
<1>6. StateOK'
  <2>1. call' \in [Threads -> [op : Ops, addr : 0 .. PoolSize - 1, size : Sizes]]
    BY <1>0, <1>4, <1>5 DEF StateOK, Ops
  <2>2. \A v \in Threads : Len(held'[v]) <= Len(held[v]) /\ Len(held'[v]) \in Nat /\ Len(held[v]) \in Nat
    BY <1>1, <1>2, <1>3
  <2>3. MaxHeld \in Nat
    BY CallersAssumption
  <2>4. \A v \in Threads : Len(held'[v]) <= MaxHeld
    BY <2>2, <2>3 DEF StateOK
  <2>5. \A v \in Threads : pc'[v] # "idle" /\ call'[v].op = "allocate" => Len(held'[v]) < MaxHeld
    <3> SUFFICES ASSUME NEW v \in Threads, pc'[v] # "idle", call'[v].op = "allocate"
                 PROVE  Len(held'[v]) < MaxHeld
      OBVIOUS
    <3>1. v # t
      BY <1>0, SMTT(30) DEF StateOK
    <3>2. pc[v] # "idle" /\ call[v].op = "allocate"
      BY <1>0, <3>1, SMTT(30) DEF StateOK
    <3> QED
      BY <2>2, <2>3, <3>2, SMTT(30) DEF StateOK
  <2> QED
    BY <1>0, <1>3, <2>1, <2>4, <2>5, SMTT(30) DEF StateOK
<1>7. /\ ~InCall(t) /\ InCall(t)'
      /\ \A v \in Threads : v # t => (InCall(v)' <=> InCall(v)) /\ call'[v] = call[v]
  BY <1>0 DEF StateOK, InCall
<1>8. /\ held'[u] = s /\ \A v \in Threads : v # u => held'[v] = held[v]
  BY <1>3, SMTT(30)
<1> DEFINE m == [x \in Items' |-> IF x = <<t, 0>> THEN <<u, k>>
                                  ELSE IF x[1] = u /\ x[2] >= k THEN <<u, x[2] + 1>> ELSE x]
<1>9. ASSUME NEW x \in Items'
      PROVE \E v \in Threads, j \in Nat :
        /\ x = <<v, j>>
        /\ \/ v = t /\ j = 0 /\ m[x] = <<u, k>>
           \/ v = u /\ j >= k /\ j # 0 /\ j <= n - 1 /\ m[x] = <<u, j + 1>>
           \/ /\ m[x] = <<v, j>> /\ ~(v = t /\ j = 0) /\ ~(v = u /\ j >= k)
              /\ j = 0 => InCall(v)
              /\ j # 0 => j <= Len(held[v])
  <2>1. PICK v \in Threads, j \in Nat : x = <<v, j>>
    BY <1>6, <1>9, ItemsAreNext
  <2>2. (j = 0 /\ InCall(v)') \/ (j # 0 /\ j <= Len(held'[v]))
    BY <1>6, <1>9, <2>1, ItemsAreNext
  <2>3. x[1] = v /\ x[2] = j /\ (x = <<t, 0>> <=> v = t /\ j = 0)
    BY <2>1
  <2>4. m[x] = IF v = t /\ j = 0 THEN <<u, k>> ELSE IF v = u /\ j >= k THEN <<u, j + 1>> ELSE <<v, j>>
    BY <1>9, <2>1, <2>3
  <2> HIDE DEF m
  <2>5. CASE v = t /\ j = 0
    BY <2>1, <2>4, <2>5
  <2>6. CASE ~(v = t /\ j = 0) /\ v = u /\ j >= k
    <3>1. j # 0 /\ j <= n - 1
      BY <1>1, <1>2, <1>8, <2>2, <2>6
    <3> QED
      BY <2>1, <2>4, <2>6, <3>1
  <2>7. CASE ~(v = t /\ j = 0) /\ ~(v = u /\ j >= k)
    <3>1. j = 0 => InCall(v)
      BY <1>7, <2>2, <2>7
    <3>2. j # 0 => j <= Len(held[v])
      <4>1. CASE v = u
        BY <1>1, <2>7, <4>1
      <4>2. CASE v # u
        BY <1>8, <2>2, <4>2
      <4> QED
        BY <4>1, <4>2
    <3> QED
      BY <2>1, <2>4, <2>7, <3>1, <3>2
  <2> QED
    BY <2>5, <2>6, <2>7
<1> HIDE DEF m
<1>10. ASSUME NEW x \in Items' PROVE m[x] \in Items /\ ItemBlock(x)' = ItemBlock(m[x])
  <2>1. PICK v \in Threads, j \in Nat :
        /\ x = <<v, j>>
        /\ \/ v = t /\ j = 0 /\ m[x] = <<u, k>>
           \/ v = u /\ j >= k /\ j # 0 /\ j <= n - 1 /\ m[x] = <<u, j + 1>>
           \/ /\ m[x] = <<v, j>> /\ ~(v = t /\ j = 0) /\ ~(v = u /\ j >= k)
              /\ j = 0 => InCall(v)
              /\ j # 0 => j <= Len(held[v])
    BY <1>9
  <2>2. CASE v = t /\ j = 0 /\ m[x] = <<u, k>>
    <3>1. m[x] \in Items
      BY <1>1, <2>2, ItemsAre
    <3>2. ItemBlock(x)' = [addr |-> b.addr, size |-> b.size]
      <4>1. call'[t].addr = b.addr /\ call'[t].size = b.size
        BY <1>0, <1>4 DEF StateOK
      <4> QED
        BY <2>1, <2>2, <4>1, BlockOfNext
    <3>3. ItemBlock(m[x]) = b
      BY <1>1, <1>4, <2>2, BlockOf
    <3> QED
      BY <1>5, <3>1, <3>2, <3>3
  <2>3. CASE v = u /\ j >= k /\ j # 0 /\ j <= n - 1 /\ m[x] = <<u, j + 1>>
    <3>1. j + 1 \in Nat \ {0} /\ j + 1 <= n /\ j \in Nat \ {0} /\ j \in 1 .. n - 1 /\ ~(j < k)
      BY <1>1, <2>3
    <3>2. m[x] \in Items
      BY <1>1, <2>3, <3>1, ItemsAre
    <3>3. ItemBlock(x)' = s[j]
      BY <1>8, <2>1, <2>3, <3>1, BlockOfNext
    <3>4. ItemBlock(m[x]) = held[u][j + 1]
      BY <2>3, <3>1, BlockOf
    <3> QED
      BY <1>2, <3>1, <3>2, <3>3, <3>4
  <2>4. CASE /\ m[x] = <<v, j>> /\ ~(v = t /\ j = 0) /\ ~(v = u /\ j >= k)
             /\ j = 0 => InCall(v)
             /\ j # 0 => j <= Len(held[v])
    <3>1. m[x] \in Items
      BY <2>4, ItemsAre
    <3>2. CASE j = 0
      <4>1. call'[v] = call[v]
        BY <1>7, <2>4, <3>2
      <4>2. ItemBlock(x)' = [addr |-> call[v].addr, size |-> call[v].size]
        BY <2>1, <3>2, <4>1, BlockOfNext
      <4>3. ItemBlock(m[x]) = [addr |-> call[v].addr, size |-> call[v].size]
        BY <2>4, <3>2, BlockOf
      <4> QED
        BY <3>1, <4>2, <4>3
    <3>3. CASE j # 0
      <4>1. held'[v][j] = held[v][j]
        <5>1. CASE v = u
          <6>1. j \in 1 .. n - 1 /\ j < k
            BY <1>1, <2>4, <3>3, <5>1
          <6> QED
            BY <1>2, <1>8, <5>1, <6>1
        <5>2. CASE v # u
          BY <1>8, <5>2
        <5> QED
          BY <5>1, <5>2
      <4>2. j \in Nat \ {0}
        BY <3>3
      <4> QED
        BY <2>1, <2>4, <3>1, <4>1, <4>2, BlockOf, BlockOfNext
    <3> QED
      BY <3>2, <3>3
  <2> QED
    BY <2>1, <2>2, <2>3, <2>4
<1>11. ASSUME NEW x \in Items', NEW y \in Items', m[x] = m[y] PROVE x = y
  <2>1. PICK v \in Threads, j \in Nat :
        /\ x = <<v, j>>
        /\ \/ v = t /\ j = 0 /\ m[x] = <<u, k>>
           \/ v = u /\ j >= k /\ j # 0 /\ j <= n - 1 /\ m[x] = <<u, j + 1>>
           \/ /\ m[x] = <<v, j>> /\ ~(v = t /\ j = 0) /\ ~(v = u /\ j >= k)
              /\ j = 0 => InCall(v)
              /\ j # 0 => j <= Len(held[v])
    BY <1>9
  <2>2. PICK w \in Threads, i \in Nat :
        /\ y = <<w, i>>
        /\ \/ w = t /\ i = 0 /\ m[y] = <<u, k>>
           \/ w = u /\ i >= k /\ i # 0 /\ i <= n - 1 /\ m[y] = <<u, i + 1>>
           \/ /\ m[y] = <<w, i>> /\ ~(w = t /\ i = 0) /\ ~(w = u /\ i >= k)
              /\ i = 0 => InCall(w)
              /\ i # 0 => i <= Len(held[w])
    BY <1>9
  <2>3. k \in Nat \ {0} /\ \A a, b1, c, d : <<a, b1>> = <<c, d>> => a = c /\ b1 = d
    BY <1>1
  <2>4. v = w /\ j = i
    <3>1. CASE v = t /\ j = 0 /\ m[x] = <<u, k>>
      BY <1>11, <2>2, <2>3, <3>1
    <3>2. CASE v = u /\ j >= k /\ j # 0 /\ j <= n - 1 /\ m[x] = <<u, j + 1>>
      BY <1>11, <2>2, <2>3, <3>2
    <3>3. CASE m[x] = <<v, j>> /\ ~(v = t /\ j = 0) /\ ~(v = u /\ j >= k)
      BY <1>11, <2>2, <2>3, <3>3
    <3> QED
      BY <2>1, <3>1, <3>2, <3>3
  <2> QED
    BY <2>1, <2>2, <2>4
<1>12. ASSUME NEW y \in Items PROVE \E x \in Items' : m[x] = y
  <2>1. PICK w \in Threads, i \in Nat : y = <<w, i>>
    BY ItemsAre
  <2>2. (i = 0 /\ InCall(w)) \/ (i # 0 /\ i <= Len(held[w]))
    BY <2>1, ItemsAre
  <2>3. CASE w = u /\ i = k
    <3>1. <<t, 0>> \in Items'
      BY <1>6, <1>7, ItemsAreNext
    <3>2. m[<<t, 0>>] = <<u, k>>
      BY <3>1 DEF m
    <3> QED
      BY <2>1, <2>3, <3>1, <3>2
  <2>4. CASE w = u /\ i > k
    <3>1. i - 1 \in Nat /\ i - 1 # 0 /\ i - 1 <= n - 1 /\ i - 1 >= k /\ (i - 1) + 1 = i
      BY <1>1, <2>2, <2>4
    <3>2. <<u, i - 1>> \in Items'
      BY <1>2, <1>6, <1>8, <3>1, ItemsAreNext
    <3>3. m[<<u, i - 1>>] = <<u, i>>
      BY <3>1, <3>2 DEF m
    <3> QED
      BY <2>1, <2>4, <3>2, <3>3
  <2>5. CASE ~(w = u /\ i >= k)
    <3>1. (i = 0 /\ InCall(w)') \/ (i # 0 /\ i <= Len(held'[w]))
      <4>1. CASE i = 0
        BY <1>7, <2>2, <4>1
      <4>2. CASE i # 0 /\ w = u
        BY <1>1, <1>2, <1>8, <2>2, <2>5, <4>2
      <4>3. CASE i # 0 /\ w # u
        BY <1>8, <2>2, <4>3
      <4> QED
        BY <4>1, <4>2, <4>3
    <3>2. y \in Items'
      BY <1>6, <2>1, <3>1, ItemsAreNext
    <3>3. y # <<t, 0>>
      BY <1>7, <2>1, <2>2
    <3>4. m[y] = y
      BY <2>1, <2>5, <3>2, <3>3 DEF m
    <3> QED
      BY <3>2, <3>4
  <2> QED
    BY <1>1, <2>3, <2>4, <2>5
<1>13. ItemsOK' /\ Nodes' = Nodes
  BY <1>10, <1>11, <1>12, Renamed
<1>14. \A v \in Threads : pc'[v] = "update" <=> pc[v] = "update"
  BY <1>0 DEF StateOK
<1> QED
  BY <1>0, <1>6, <1>13, <1>14, PoolKept

\* Nobody else is in the lock with t.
LEMMA Alone ==
    ASSUME TreeInv, NEW t \in Threads, InLock(t)
    PROVE  \A v \in Threads : v # t => pc[v] \notin {"critical", "update"}
  BY DEF TreeInv, LockInv, MutualExclusion, InLock

\* allocate marks the node it has found: one more block is out, apart from the others.
LEMMA MarkAllocateTree ==
    ASSUME Halves, TreeInv, NEW t \in Threads, MarkAllocate(t)
    PROVE  StateOK' /\ ItemsOK' /\ PoolOK'
<1>0. /\ pc[t] = "critical" /\ call[t].op = "allocate" /\ HasRoom(pool, call[t].size)
      /\ StateOK /\ ItemsOK /\ PoolOK
  BY DEF MarkAllocate, TreeInv
<1>1. \A v \in Threads : v # t => pc[v] \notin {"critical", "update"}
  BY <1>0, Alone DEF InLock
<1>2. TreeOK(Nodes, pool) /\ Antichain(Nodes) /\ Nodes \subseteq BlockIdx
  <2>1. \A v \in Threads : pc[v] # "update"
    BY <1>0, <1>1
  <2> QED
    BY <1>0, <2>1, NodesApart DEF PoolOK, Antichain
<1>3. PICK size \in Sizes : size = call[t].size
  BY <1>0 DEF StateOK
<1>4. size \in Nat
  BY CallersAssumption
<1>5. PICK i \in BlockIdx, a \in Nat :
        /\ i = SearchFor(pool, size).idx /\ a = SearchFor(pool, size).addr
        /\ a = BlockAddr[i]
        /\ Level[i] = ComputeLevel(RoundedUpToMinBlockSize(size))
        /\ ComputeBlockSize[i] >= size
        /\ \A j \in Nodes : Apart(i, j)
  <2>1. HasRoom(pool, size)
    BY <1>0, <1>3
  <2>2. /\ SearchFor(pool, size).idx \in BlockIdx
        /\ SearchFor(pool, size).addr = BlockAddr[SearchFor(pool, size).idx]
        /\ Level[SearchFor(pool, size).idx] = ComputeLevel(RoundedUpToMinBlockSize(size))
        /\ ComputeBlockSize[SearchFor(pool, size).idx] >= size
        /\ \A j \in Nodes : Apart(SearchFor(pool, size).idx, j)
    BY <1>2, <1>4, <2>1, SearchFinds
  <2>3. BlockAddr[SearchFor(pool, size).idx] \in Nat
    BY <2>2, ArrayNodes, BlockAddrs, Zenon
  <2> QED
    BY <2>2, <2>3
<1>6. /\ i \in Nat /\ a \in 0 .. PoolSize - 1
      /\ ComputeBlockSize[i] \in Nat /\ ComputeBlockSize[i] > 0
  BY <1>5, InPool
<1>7. /\ pool' = MarkAllocated(pool, i)
      /\ call' = [call EXCEPT ![t].addr = a]
      /\ cursor' = [cursor EXCEPT ![t] = [idx |-> i, size |-> ComputeBlockSize[i]]]
      /\ pc' = [pc EXCEPT ![t] = "update"]
      /\ UNCHANGED <<lock_, held>>
  BY <1>3, <1>5 DEF MarkAllocate, StartUpdate
<1>8. StateOK'
  BY <1>0, <1>6, <1>7, Zenon DEF StateOK
<1>9. /\ call'[t].addr = a /\ call'[t].size = size /\ InCall(t)' /\ ~InCall(t)
      /\ \A v \in Threads : v # t => call'[v] = call[v] /\ (InCall(v)' <=> InCall(v))
  BY <1>0, <1>3, <1>7 DEF StateOK, InCall
<1> DEFINE y == <<t, 0>>
<1>10. y \notin Items
  BY <1>0, <1>9, ItemsAre
<1>11. Items' = Items \cup {y}
  <2>1. {u \in Threads : InCall(u)}' = {u \in Threads : InCall(u)} \cup {t}
    BY <1>9
  <2>2. Holdings' = Holdings
    BY <1>7 DEF Holdings
  <2>3. {<<v, 0>> : v \in {u \in Threads : InCall(u)} \cup {t}}
            = {<<v, 0>> : v \in {u \in Threads : InCall(u)}} \cup {<<t, 0>>}
    OBVIOUS
  <2> QED
    BY <2>1, <2>2, <2>3 DEF Items
<1>12. ASSUME NEW x \in Items PROVE ItemBlock(x)' = ItemBlock(x)
  <2>1. PICK v \in Threads, k \in Nat : x = <<v, k>>
    BY <1>0, ItemsAre
  <2>2. CASE k = 0
    <3>1. v # t
      BY <1>10, <2>1, <2>2
    <3>2. /\ ItemBlock(<<v, 0>>)' = [addr |-> call'[v].addr, size |-> call'[v].size]
          /\ ItemBlock(<<v, 0>>) = [addr |-> call[v].addr, size |-> call[v].size]
      BY BlockOf, BlockOfNext
    <3> QED
      BY <1>9, <2>1, <2>2, <3>1, <3>2
  <2>3. CASE k # 0
    BY <1>7, <2>1, <2>3, BlockOf, BlockOfNext
  <2> QED
    BY <2>2, <2>3
<1>13. ItemBlock(y)' = [addr |-> a, size |-> size]
  BY <1>9, BlockOfNext
<1>14. FindBlock(a, size) = i
  BY <1>5, <1>6, FindBlockFinds
<1>15. ItemNode(y)' = i
  BY <1>13, <1>14 DEF ItemNode, NodeOf
<1>16. Placed(ItemBlock(y))'
  <2>1. NodeOf([addr |-> a, size |-> size]) = i
    BY <1>14 DEF NodeOf
  <2>2. Placed([addr |-> a, size |-> size])
    BY <1>4, <1>5, <1>6, <2>1 DEF Placed
  <2> QED
    BY <1>13, <2>2 DEF Placed
<1> HIDE DEF y
<1>17. ItemsOK' /\ Nodes' = Nodes \cup {i}
  BY <1>0, <1>5, <1>10, <1>11, <1>12, <1>15, <1>16, ItemAdded
<1>18. RightUpTo(Nodes \cup {i}, MarkAllocated(pool, i), i)
  BY <1>2, <1>5, MarkAllocatedRight
<1>19. PoolOK'
  <2>1. /\ pc'[t] = "update" /\ \A v \in Threads : v # t => pc'[v] # "update"
        /\ cursor'[t].idx = i /\ cursor'[t].size = ComputeBlockSize[i]
    BY <1>0, <1>1, <1>7 DEF StateOK
  <2>2. RightUpTo(Nodes', pool', cursor'[t].idx) /\ cursor'[t].size = ComputeBlockSize[cursor'[t].idx]
    BY <1>7, <1>17, <1>18, <2>1
  <2>3. \A v \in Threads : pc'[v] = "update" => v = t
    BY <2>1
  <2> QED
    BY <2>1, <2>2, <2>3 DEF PoolOK
<1> QED
  BY <1>8, <1>17, <1>19

\* deallocate finds the node of the block again and marks it free: one block less.
LEMMA MarkDeallocateTree ==
    ASSUME Halves, TreeInv, NEW t \in Threads, MarkDeallocate(t)
    PROVE  StateOK' /\ ItemsOK' /\ PoolOK'
<1>0. /\ pc[t] = "critical" /\ call[t].op = "deallocate"
      /\ StateOK /\ ItemsOK /\ PoolOK
  BY DEF MarkDeallocate, TreeInv
<1>1. \A v \in Threads : v # t => pc[v] \notin {"critical", "update"}
  BY <1>0, Alone DEF InLock
<1>2. TreeOK(Nodes, pool) /\ Antichain(Nodes)
  <2>1. \A v \in Threads : pc[v] # "update"
    BY <1>0, <1>1
  <2> QED
    BY <1>0, <2>1, NodesApart DEF PoolOK
<1> DEFINE y == <<t, 0>>
<1>3. y \in Items
  BY <1>0, ItemsAre DEF InCall
<1>4. PICK i \in BlockIdx : i = ItemNode(y) /\ i \in Nodes
  BY <1>0, <1>3, NodesApart
<1>5. FindBlock(call[t].addr, call[t].size) = i
  <2>1. ItemBlock(<<t, 0>>) = [addr |-> call[t].addr, size |-> call[t].size]
    BY BlockOf
  <2> QED
    BY <1>4, <2>1 DEF ItemNode, NodeOf
<1>6. i \in Nat /\ ComputeBlockSize[i] \in Nat
  BY InPool
<1>7. /\ pool' = MarkFree(pool, i)
      /\ cursor' = [cursor EXCEPT ![t] = [idx |-> i, size |-> ComputeBlockSize[i]]]
      /\ pc' = [pc EXCEPT ![t] = "update"]
      /\ UNCHANGED <<lock_, call, held>>
  BY <1>5 DEF MarkDeallocate, StartUpdate
<1>8. StateOK'
  BY <1>0, <1>6, <1>7 DEF StateOK
<1>9. /\ InCall(t) /\ ~InCall(t)'
      /\ \A v \in Threads : v # t => (InCall(v)' <=> InCall(v))
  BY <1>0, <1>7 DEF StateOK, InCall
<1>10. Items' = Items \ {y}
  <2>1. {u \in Threads : InCall(u)}' = {u \in Threads : InCall(u)} \ {t}
    BY <1>9
  <2>2. Holdings' = Holdings /\ <<t, 0>> \notin Holdings
    BY <1>7 DEF Holdings
  <2>3. {<<v, 0>> : v \in {u \in Threads : InCall(u)} \ {t}}
            = {<<v, 0>> : v \in {u \in Threads : InCall(u)}} \ {<<t, 0>>}
    OBVIOUS
  <2> QED
    BY <2>1, <2>2, <2>3 DEF Items
<1>11. \A x \in Items' : ItemBlock(x)' = ItemBlock(x)
  BY <1>7 DEF ItemBlock
<1> HIDE DEF y
<1>12. ItemsOK' /\ Nodes' = Nodes \ {i}
  BY <1>0, <1>3, <1>4, <1>10, <1>11, ItemGone
<1>13. RightUpTo(Nodes \ {i}, MarkFree(pool, i), i)
  BY <1>2, <1>4, MarkFreeRight
<1>14. PoolOK'
  <2>1. /\ pc'[t] = "update" /\ \A v \in Threads : v # t => pc'[v] # "update"
        /\ cursor'[t].idx = i /\ cursor'[t].size = ComputeBlockSize[i]
    BY <1>0, <1>1, <1>7 DEF StateOK
  <2>2. RightUpTo(Nodes', pool', cursor'[t].idx) /\ cursor'[t].size = ComputeBlockSize[cursor'[t].idx]
    BY <1>7, <1>12, <1>13, <2>1
  <2>3. \A v \in Threads : pc'[v] = "update" => v = t
    BY <2>1
  <2> QED
    BY <2>1, <2>2, <2>3 DEF PoolOK
<1> QED
  BY <1>8, <1>12, <1>14

\* One iteration of update_pool.
LEMMA UpdateStepTree ==
    ASSUME Halves, TreeInv, NEW t \in Threads, UpdateStep(t)
    PROVE  StateOK' /\ ItemsOK' /\ PoolOK'
<1>0. /\ pc[t] = "update" /\ StateOK /\ ItemsOK /\ PoolOK
  BY DEF UpdateStep, TreeInv
<1>1. \A v \in Threads : v # t => pc[v] \notin {"critical", "update"}
  BY <1>0, Alone DEF InLock
<1>2. PICK c \in BlockIdx \ {0} :
        /\ c = cursor[t].idx /\ RightUpTo(Nodes, pool, c)
        /\ cursor[t].size = ComputeBlockSize[c]
  BY <1>0 DEF StateOK, PoolOK, UpdateStep
<1>3. PICK s \in Nat, p \in BlockIdx :
        /\ s = ComputeBlockSize[c] /\ p = Parent(c) /\ ComputeBlockSize[p] = 2 * s
  <2>1. Parent(c) \in BlockIdx /\ ComputeBlockSize[c] \in Nat
    BY ArrayNodes, InPool
  <2> QED
    BY <2>1 DEF Halves
<1>4. /\ pool' = UpdateParent(pool, p, 2 * s)
      /\ cursor' = [cursor EXCEPT ![t] = [idx |-> p, size |-> 2 * s]]
      /\ UNCHANGED <<lock_, pc, call, held>>
  BY <1>2, <1>3 DEF UpdateStep
<1>5. StateOK'
  <2>1. 2 * s \in Nat
    OBVIOUS
  <2> QED
    BY <1>0, <1>4, <2>1 DEF StateOK
<1>6. ItemsOK' /\ Nodes' = Nodes
  <2>1. Items' = Items /\ \A x \in Items : ItemBlock(x)' = ItemBlock(x)
    BY <1>4 DEF Items, Holdings, InCall, ItemBlock
  <2> QED
    BY <1>0, <2>1, SameItems
<1>7. RightUpTo(Nodes, UpdateParent(pool, p, 2 * s), p)
  BY <1>0, <1>2, <1>3, NodesApart, UpdateParentRight
<1>8. PoolOK'
  <2>1. cursor'[t].idx = p /\ cursor'[t].size = 2 * s
    BY <1>0, <1>4 DEF StateOK
  <2>2. RightUpTo(Nodes', pool', cursor'[t].idx) /\ cursor'[t].size = ComputeBlockSize[cursor'[t].idx]
    BY <1>3, <1>4, <1>6, <1>7, <2>1
  <2>3. pc'[t] = "update" /\ \A v \in Threads : pc'[v] = "update" => v = t
    BY <1>0, <1>1, <1>4
  <2> QED
    BY <2>2, <2>3 DEF PoolOK
<1> QED
  BY <1>5, <1>6, <1>8

\* The call returns at the root.  The block of an allocate is then among those the
\* caller holds.
LEMMA ReturnTree ==
    ASSUME Halves, TreeInv, NEW t \in Threads, Return(t)
    PROVE  StateOK' /\ ItemsOK' /\ PoolOK'
<1>0. /\ pc[t] = "update" /\ cursor[t].idx = 0 /\ pc' = [pc EXCEPT ![t] = "idle"]
      /\ StateOK /\ ItemsOK /\ PoolOK /\ UNCHANGED <<pool, call, cursor>>
  BY DEF Return, TreeInv
<1>1. \A v \in Threads : v # t => pc[v] \notin {"critical", "update"}
  BY <1>0, Alone DEF InLock
<1>2. TreeOK(Nodes, pool)
  BY <1>0, RightAtRoot DEF PoolOK
<1>3. SUFFICES StateOK' /\ ItemsOK' /\ Nodes' = Nodes
  <2>1. TreeOK(Nodes', pool')
    BY <1>0, <1>2, <1>3
  <2>2. \A v \in Threads : pc'[v] # "update"
    BY <1>0, <1>1 DEF StateOK
  <2>3. PoolOK'
    BY <2>1, <2>2 DEF PoolOK
  <2> QED
    BY <1>3, <2>3
<1>4. CASE call[t].op # "allocate"
  <2>1. held' = held
    BY <1>4 DEF Return
  <2>2. StateOK'
    BY <1>0, <2>1 DEF StateOK
  <2>3. Items' = Items
    <3>1. \A v \in Threads : InCall(v)' <=> InCall(v)
      BY <1>0, <1>4 DEF StateOK, InCall
    <3>2. {u \in Threads : InCall(u)}' = {u \in Threads : InCall(u)}
      BY <3>1
    <3>3. Holdings' = Holdings
      BY <2>1 DEF Holdings
    <3> QED
      BY <3>2, <3>3 DEF Items
  <2>4. \A x \in Items : ItemBlock(x)' = ItemBlock(x)
    BY <1>0, <2>1 DEF ItemBlock
  <2> QED
    BY <1>0, <2>2, <2>3, <2>4, SameItems
<1>5. CASE call[t].op = "allocate"
  <2> DEFINE b == [addr |-> call[t].addr, size |-> call[t].size]
  <2>1. held' = [held EXCEPT ![t] = Append(@, b)]
    BY <1>5 DEF Return
  <2>2. b \in Block /\ call[t] \in [op : Ops, addr : 0 .. PoolSize - 1, size : Sizes]
    BY <1>0 DEF StateOK, Block
  <2> HIDE DEF b
  <2>3. PICK n \in Nat : n = Len(held[t]) /\ n < MaxHeld
    BY <1>0, <1>5 DEF StateOK
  <2>4. /\ held'[t] \in Seq(Block) /\ Len(held'[t]) = n + 1 /\ held'[t][n + 1] = b
        /\ \A k \in 1 .. n : held'[t][k] = held[t][k]
        /\ \A v \in Threads : v # t => held'[v] = held[v]
        /\ held' \in [Threads -> Seq(Block)]
    <3>1. held[t] \in Seq(Block) /\ held'[t] = Append(held[t], b)
      BY <1>0, <2>1 DEF StateOK
    <3>2. \A v \in Threads : v # t => held'[v] = held[v]
      BY <1>0, <2>1 DEF StateOK
    <3>3. held' \in [Threads -> Seq(Block)]
      BY <1>0, <2>1, <2>2 DEF StateOK
    <3> QED
      BY <2>2, <2>3, <3>1, <3>2, <3>3
  <2>5. StateOK'
    <3>1. MaxHeld \in Nat /\ n + 1 <= MaxHeld
      BY <2>3, CallersAssumption
    <3>2. \A v \in Threads : Len(held'[v]) <= MaxHeld
      BY <1>0, <2>4, <3>1, Zenon DEF StateOK
    <3>3. \A v \in Threads : pc'[v] # "idle" /\ call'[v].op = "allocate" => Len(held'[v]) < MaxHeld
      BY <1>0, <2>4 DEF StateOK
    <3> QED
      BY <1>0, <2>4, <3>2, <3>3, Zenon DEF StateOK
  <2>6. /\ InCall(t) /\ ~InCall(t)' /\ \A v \in Threads : v # t => (InCall(v)' <=> InCall(v))
    BY <1>0, <1>5 DEF StateOK, InCall
  <2> DEFINE m == [x \in Items' |-> IF x = <<t, n + 1>> THEN <<t, 0>> ELSE x]
  <2>7. <<t, 0>> \in Items /\ <<t, 0>> \notin Items' /\ <<t, n + 1>> \in Items' /\ <<t, n + 1>> \notin Items
    <3>1. n + 1 \in Nat /\ n + 1 # 0 /\ ~(n + 1 <= n)
      OBVIOUS
    <3> QED
      BY <1>0, <2>3, <2>4, <2>5, <2>6, <3>1, ItemsAre, ItemsAreNext
  <2>8. ASSUME NEW v \in Threads, NEW k \in Nat, ~(v = t /\ (k = 0 \/ k = n + 1))
        PROVE  /\ <<v, k>> \in Items' <=> <<v, k>> \in Items
               /\ <<v, k>> \in Items => ItemBlock(<<v, k>>)' = ItemBlock(<<v, k>>)
    <3>1. CASE k = 0
      <4>1. v # t
        BY <2>8, <3>1
      <4>2. <<v, k>> \in Items' <=> <<v, k>> \in Items
        BY <1>0, <2>5, <2>6, <3>1, <4>1, ItemsAre, ItemsAreNext
      <4>3. ItemBlock(<<v, 0>>)' = ItemBlock(<<v, 0>>)
        BY <1>0 DEF ItemBlock
      <4> QED
        BY <3>1, <4>2, <4>3
    <3>2. CASE k # 0 /\ v # t
      <4>1. <<v, k>> \in Items' <=> <<v, k>> \in Items
        BY <1>0, <2>4, <2>5, <3>2, ItemsAre, ItemsAreNext
      <4>2. k \in Nat \ {0}
        BY <3>2
      <4>3. ItemBlock(<<v, k>>)' = ItemBlock(<<v, k>>)
        BY <2>4, <3>2, <4>2, BlockOf, BlockOfNext
      <4> QED
        BY <4>1, <4>3
    <3>3. CASE k # 0 /\ v = t
      <4>1. k # n + 1 /\ (k <= n + 1 <=> k <= n) /\ k \in Nat \ {0}
        BY <2>8, <3>3
      <4>2. <<v, k>> \in Items' <=> <<v, k>> \in Items
        BY <1>0, <2>3, <2>4, <2>5, <3>3, <4>1, ItemsAre, ItemsAreNext
      <4>3. <<v, k>> \in Items => k \in 1 .. n
        BY <1>0, <2>3, <3>3, <4>1, ItemsAre
      <4>4. k \in 1 .. n => ItemBlock(<<v, k>>)' = ItemBlock(<<v, k>>)
        <5>1. k \in 1 .. n => held'[v][k] = held[v][k]
          BY <2>4, <3>3
        <5> QED
          BY <4>1, <5>1, BlockOf, BlockOfNext
      <4> QED
        BY <4>2, <4>3, <4>4
    <3> QED
      BY <3>1, <3>2, <3>3
  <2>9. ASSUME NEW x \in Items', x # <<t, n + 1>>
        PROVE  x \in Items /\ ItemBlock(x)' = ItemBlock(x) /\ x # <<t, 0>>
    <3>1. PICK v \in Threads, k \in Nat : x = <<v, k>>
      BY <2>5, ItemsAreNext
    <3>2. x # <<t, 0>>
      BY <2>7
    <3>3. ~(v = t /\ (k = 0 \/ k = n + 1))
      BY <2>9, <3>1, <3>2
    <3> QED
      BY <2>8, <3>1, <3>2, <3>3
  <2>10. ItemBlock(<<t, n + 1>>)' = b /\ ItemBlock(<<t, 0>>) = b
    <3>1. n + 1 \in Nat \ {0}
      OBVIOUS
    <3>2. ItemBlock(<<t, n + 1>>)' = held'[t][n + 1]
      BY <3>1, BlockOfNext
    <3>3. ItemBlock(<<t, 0>>) = b
      BY BlockOf DEF b
    <3> QED
      BY <2>4, <3>2, <3>3
  <2>11. \A x \in Items' : m[x] \in Items /\ ItemBlock(x)' = ItemBlock(m[x])
    BY <2>7, <2>9, <2>10
  <2>12. \A x, y \in Items' : m[x] = m[y] => x = y
    BY <2>9
  <2>13. ASSUME NEW y \in Items PROVE \E x \in Items' : m[x] = y
    <3>1. PICK v \in Threads, k \in Nat : y = <<v, k>>
      BY <1>0, ItemsAre
    <3>2. CASE y = <<t, 0>>
      <4>1. m[<<t, n + 1>>] = y
        BY <2>7, <3>2
      <4> QED
        BY <2>7, <4>1
    <3>3. CASE y # <<t, 0>>
      <4>1. y # <<t, n + 1>>
        BY <2>7
      <4>2. y \in Items'
        BY <2>8, <3>1, <3>3, <4>1
      <4>3. m[y] = y
        BY <4>1, <4>2
      <4> QED
        BY <4>2, <4>3
    <3> QED
      BY <3>2, <3>3
  <2> HIDE DEF m
  <2>14. ItemsOK' /\ Nodes' = Nodes
    BY <1>0, <2>11, <2>12, <2>13, Renamed
  <2> QED
    BY <2>5, <2>14
<1> QED
  BY <1>4, <1>5

\* init_pool: nothing is out and every node offers its block.
LEMMA TreeInit == ASSUME Halves PROVE Init => TreeInv
<1> SUFFICES ASSUME Init PROVE TreeInv
  OBVIOUS
<1> USE DEF Init
<1>1. LockInv
  BY LockInit
<1>2. StateOK
  <2>1. (CHOOSE s \in Sizes : TRUE) \in Sizes
    BY CallersAssumption
  <2>2. 0 \in 0 .. PoolSize - 1 /\ PoolSize \in Nat /\ 0 \in BlockIdx /\ MaxHeld \in Nat
    BY PoolAssumption, CallersAssumption, ArrayNodes
  <2>3. \A t \in Threads : held[t] = <<>> /\ Len(held[t]) = 0 /\ pc[t] = "idle"
    OBVIOUS
  <2>4. held \in [Threads -> Seq(Block)]
    OBVIOUS
  <2>5. call \in [Threads -> [op : Ops, addr : 0 .. PoolSize - 1, size : Sizes]]
    BY <2>1, <2>2 DEF Ops
  <2>6. cursor \in [Threads -> [idx : BlockIdx, size : Nat]]
    BY <2>2
  <2>7. pc \in [Threads -> {"idle", "spin", "critical", "update"}]
    OBVIOUS
  <2> QED
    BY <2>2, <2>3, <2>4, <2>5, <2>6, <2>7 DEF StateOK
<1>3. Items = {}
  <2>1. ASSUME NEW x \in Items PROVE FALSE
    <3>1. PICK t \in Threads, k \in Nat : x = <<t, k>>
      BY <1>2, ItemsAre
    <3>2. (k = 0 /\ InCall(t)) \/ (k # 0 /\ k <= Len(held[t]))
      BY <1>2, <3>1, ItemsAre
    <3> QED
      BY <3>2 DEF InCall
  <2> QED
    BY <2>1
<1>4. ItemsOK
  BY <1>3 DEF ItemsOK
<1>5. Nodes = {}
  BY <1>3 DEF Nodes
<1>6. PoolOK
  <2>1. \A i \in BlockIdx : ComputeBlockSize[i] \in Nat /\ pool[i] = ComputeBlockSize[i]
    BY InPool DEF InitPool
  <2>2. Bounded(pool)
    BY <2>1 DEF InitPool, Bounded
  <2>3. TreeOK(Nodes, pool)
    BY <1>5, <2>1, <2>2 DEF TreeOK, NodeOK, Occupied
  <2> QED
    BY <2>3 DEF PoolOK
<1> QED
  BY <1>1, <1>2, <1>4, <1>6 DEF TreeInv

\* Every step keeps the blocks apart and the tree in agreement with them.
LEMMA TreeStep == ASSUME Halves PROVE TreeInv /\ [Next]_vars => TreeInv'
<1> SUFFICES ASSUME TreeInv, [Next]_vars PROVE TreeInv'
  OBVIOUS
<1>1. LockInv'
  BY LockStep DEF TreeInv
<1>2. SUFFICES StateOK' /\ ItemsOK' /\ PoolOK'
  BY <1>1 DEF TreeInv
<1>3. CASE UNCHANGED vars
  <2>1. StateOK'
    BY <1>3 DEF vars, TreeInv, StateOK
  <2>2. Items' = Items /\ \A x \in Items : ItemBlock(x)' = ItemBlock(x)
    BY <1>3 DEF vars, Items, Holdings, InCall, ItemBlock
  <2>3. ItemsOK' /\ Nodes' = Nodes
    BY <2>2, SameItems DEF TreeInv
  <2>4. PoolOK'
    BY <1>3, <2>3, PoolKept DEF vars, TreeInv
  <2> QED
    BY <2>1, <2>3, <2>4
<1>4. ASSUME NEW t \in Threads, NEW size \in Sizes, CallAllocate(t, size)
      PROVE  StateOK' /\ ItemsOK' /\ PoolOK'
  BY <1>4, CallAllocateTree
<1>5. ASSUME NEW t \in Threads, NEW u \in Threads, NEW k \in 1 .. MaxHeld, CallDeallocate(t, u, k)
      PROVE  StateOK' /\ ItemsOK' /\ PoolOK'
  BY <1>5, CallDeallocateTree
<1>6. ASSUME NEW t \in Threads, Lock(t) \/ Critical(t)
      PROVE  StateOK' /\ ItemsOK' /\ PoolOK'
  BY <1>6, MoveTree, MarkAllocateTree, MarkDeallocateTree, UpdateStepTree, ReturnTree DEF Critical
<1> QED
  BY <1>3, <1>4, <1>5, <1>6 DEF Next

\* The inductive invariant.
LEMMA TreeAlways == ASSUME Halves PROVE Spec => []TreeInv
  BY TreeInit, TreeStep, PTL DEF Spec

\* No byte is handed out twice: two blocks that callers hold never overlap, for any
\* number of callers and any pool whose blocks halve exactly (allocate, deallocate).
THEOREM BlocksNeverOverlap == ASSUME Halves PROVE Spec => []BlocksDisjoint
<1>1. TreeInv => BlocksDisjoint
  <2> SUFFICES ASSUME TreeInv, NEW g \in Holdings, NEW h \in Holdings, g # h
               PROVE  \/ held[g[1]][g[2]].addr + held[g[1]][g[2]].size <= held[h[1]][h[2]].addr
                      \/ held[h[1]][h[2]].addr + held[h[1]][h[2]].size <= held[g[1]][g[2]].addr
    BY DEF BlocksDisjoint
  <2>1. ASSUME NEW x \in Holdings
        PROVE  /\ x \in Items /\ ItemBlock(x) = held[x[1]][x[2]] /\ held[x[1]][x[2]] \in Block
               /\ ItemNode(x) = NodeOf(held[x[1]][x[2]]) /\ Placed(held[x[1]][x[2]])
    <3>1. PICK t \in Threads : x \in {t} \X (1 .. Len(held[t]))
      BY DEF Holdings
    <3>2. PICK k \in 1 .. Len(held[t]) : x = <<t, k>>
      BY <3>1
    <3>3. held[t] \in Seq(Block) /\ k \in Nat \ {0}
      BY ItemsAre DEF TreeInv
    <3>4. x \in Items
      BY DEF Items
    <3>5. ItemBlock(x) = held[x[1]][x[2]] /\ held[x[1]][x[2]] \in Block
      BY <3>2, <3>3, BlockOf
    <3> QED
      BY <3>4, <3>5 DEF ItemNode, TreeInv, ItemsOK
  <2>2. PICK a \in Block, b \in Block : a = held[g[1]][g[2]] /\ b = held[h[1]][h[2]]
    BY <2>1
  <2>3. PICK i \in BlockIdx, j \in BlockIdx :
          /\ i = NodeOf(a) /\ a.addr = BlockAddr[i] /\ a.size <= ComputeBlockSize[i]
          /\ j = NodeOf(b) /\ b.addr = BlockAddr[j] /\ b.size <= ComputeBlockSize[j]
    BY <2>1, <2>2, SMTT(30) DEF Placed
  <2>4. Apart(i, j)
    BY <2>1, <2>2, <2>3 DEF TreeInv, ItemsOK
  <2>5. Disjoint(i, j)
    BY <2>4, ArrayNodes, ApartDisjoint
  <2>6. PICK p \in Nat, r \in Nat, q \in Nat, s \in Nat :
          p = BlockAddr[i] /\ r = ComputeBlockSize[i] /\ q = BlockAddr[j] /\ s = ComputeBlockSize[j]
    BY InPool
  <2>7. a.size \in Nat /\ b.size \in Nat
    <3>1. a.size \in Sizes /\ b.size \in Sizes
      BY DEF Block
    <3>2. Sizes \subseteq Nat
      BY CallersAssumption
    <3> QED
      BY <3>1, <3>2, Zenon
  <2>8. a.addr + a.size <= b.addr \/ b.addr + b.size <= a.addr
    <3>1. p + r <= q \/ q + s <= p
      BY <2>5, <2>6 DEF Disjoint
    <3>2. a.addr = p /\ a.size <= r /\ b.addr = q /\ b.size <= s
      BY <2>3, <2>6
    <3> QED
      BY <2>6, <2>7, <3>1, <3>2
  <2> QED
    BY <2>2, <2>8
<1> QED
  BY <1>1, TreeAlways, PTL

\* As long as nobody is in update_pool, the nodes that are out are the ones Taken names.
LEMMA NodesTaken ==
    ASSUME StateOK, \A t \in Threads : pc[t] # "update"
    PROVE  Nodes = Taken
<1>1. \A t \in Threads : InCall(t) <=> call[t].op = "deallocate" /\ pc[t] \in {"spin", "critical"}
  BY DEF InCall
<1>2. {u \in Threads : InCall(u)} =
        {u \in Threads : call[u].op = "deallocate" /\ pc[u] \in {"spin", "critical"}}
  BY <1>1
<1>3. \A x \in Holdings : ItemBlock(x) = held[x[1]][x[2]]
  <2> SUFFICES ASSUME NEW x \in Holdings PROVE ItemBlock(x) = held[x[1]][x[2]]
    OBVIOUS
  <2>1. PICK t \in Threads : x \in {t} \X (1 .. Len(held[t]))
    BY DEF Holdings
  <2>2. PICK k \in 1 .. Len(held[t]) : x = <<t, k>>
    BY <2>1
  <2>3. k \in Nat \ {0}
    BY ItemsAre
  <2> QED
    BY <2>2, <2>3, BlockOf
<1>4. \A t : ItemNode(<<t, 0>>) = NodeOf(call[t])
  <2> SUFFICES ASSUME NEW t PROVE ItemNode(<<t, 0>>) = NodeOf(call[t])
    BY Zenon
  <2> DEFINE b == [addr |-> call[t].addr, size |-> call[t].size]
  <2>1. ItemBlock(<<t, 0>>) = b /\ b.addr = call[t].addr /\ b.size = call[t].size
    BY BlockOf
  <2> HIDE DEF b
  <2> QED
    BY <2>1 DEF ItemNode, NodeOf
<1>5. \A x \in Holdings : ItemNode(x) = NodeOf(held[x[1]][x[2]])
  BY <1>3 DEF ItemNode
<1> DEFINE D == {u \in Threads : InCall(u)}
<1>6. Nodes = {ItemNode(x) : x \in Holdings} \cup {ItemNode(<<t, 0>>) : t \in D}
  BY Zenon DEF Nodes, Items
<1>7. Taken = {NodeOf(held[h[1]][h[2]]) : h \in Holdings} \cup {NodeOf(call[t]) : t \in D}
  BY <1>2 DEF Taken
<1> HIDE DEF D
<1> QED
  BY <1>4, <1>5, <1>6, <1>7, ZenonT(40)

\* A tree that is right is the reference tree: the reference is the only function that
\* satisfies its recursive equation, and the tree satisfies it.
LEMMA TreeIsLargest ==
    ASSUME TreeOK(Taken, pool), Taken \subseteq BlockIdx
    PROVE  \A i \in BlockIdx : pool[i] = Largest[i]
<1> DEFINE best == CHOOSE f : f = [i \in BlockIdx |->
                        IF i \in Taken THEN 0
                        ELSE IF \A j \in Taken : ~Below(j, i) THEN ComputeBlockSize[i]
                        ELSE Max2(f[2 * i + 1], f[2 * i + 2])]
<1>1. Largest = best
  BY Zenon DEF Largest, best
<1>2. pool = [i \in BlockIdx |->
                        IF i \in Taken THEN 0
                        ELSE IF \A j \in Taken : ~Below(j, i) THEN ComputeBlockSize[i]
                        ELSE Max2(pool[2 * i + 1], pool[2 * i + 2])]
  BY DEF TreeOK, Bounded, NodeOK, Occupied
<1>3. best = [i \in BlockIdx |->
                        IF i \in Taken THEN 0
                        ELSE IF \A j \in Taken : ~Below(j, i) THEN ComputeBlockSize[i]
                        ELSE Max2(best[2 * i + 1], best[2 * i + 2])]
  BY <1>2, Zenon
<1> HIDE DEF best
<1>4. PICK n \in Nat : BlockIdx = 0 .. n
  <2>1. Pow2[NumOrder] - 2 \in Nat
    BY LastNode
  <2> QED
    BY <2>1 DEF BlockIdx
<1> DEFINE Good == {d \in Nat : \A i \in BlockIdx : i + d = n => pool[i] = best[i]}
<1>5. ASSUME NEW d \in Nat, \A e \in Nat : e < d => e \in Good PROVE d \in Good
  <2> SUFFICES ASSUME NEW i \in BlockIdx, i + d = n PROVE pool[i] = best[i]
    OBVIOUS
  <2>1. i \in Nat
    BY <1>4
  <2>2. CASE i \in Taken \/ \A j \in Taken : ~Below(j, i)
    BY <1>2, <1>3, <2>2
  <2>3. CASE i \notin Taken /\ ~\A j \in Taken : ~Below(j, i)
    <3>1. 2 * i + 1 \in BlockIdx /\ 2 * i + 2 \in BlockIdx
      <4>1. PICK j \in Taken : Below(j, i) /\ j # i
        BY <2>3
      <4>2. j \in BlockIdx
        BY <4>1
      <4> QED
        BY <2>1, <4>1, <4>2, ArrayNodes
    <3>2. ASSUME NEW c \in {2 * i + 1, 2 * i + 2} PROVE pool[c] = best[c]
      <4>1. c \in BlockIdx
        BY <3>1, <3>2
      <4>2. n - c \in Nat /\ n - c < d /\ c + (n - c) = n
        BY <1>4, <2>1, <4>1
      <4>3. n - c \in Good
        <5> HIDE DEF Good
        <5> QED
          BY <1>5, <4>2
      <4> QED
        BY <4>1, <4>2, <4>3
    <3>3. pool[2 * i + 1] = best[2 * i + 1] /\ pool[2 * i + 2] = best[2 * i + 2]
      BY <3>2
    <3> QED
      BY <1>2, <1>3, <2>3, <3>3
  <2> QED
    BY <2>2, <2>3
<1>6. \A d \in Nat : d \in Good
  <2> HIDE DEF Good
  <2> QED
    BY <1>5, Induction
<1>7. ASSUME NEW i \in BlockIdx PROVE pool[i] = best[i]
  <2>1. n - i \in Nat /\ i + (n - i) = n
    BY <1>4
  <2>2. n - i \in Good
    BY <1>6, <2>1
  <2> QED
    BY <2>1, <2>2
<1> QED
  BY <1>1, <1>7

\* The size of every request fits the pool once it is rounded up.
SizesFit == \A size \in Sizes : RoundedUpToMinBlockSize(size) <= PoolSize

\* The tree of sizes is exact whenever the lock is free; so the search finds the block
\* the root promises without failing its CHECK_GE, and allocate returns nullptr only
\* if there is no block.
THEOREM TreeAlwaysExact == ASSUME Halves, SizesFit PROVE Spec => []TreeExact
<1>1. TreeInv => TypeOK
  <2> SUFFICES ASSUME TreeInv PROVE TypeOK
    OBVIOUS
  <2>1. Bounded(pool)
    <3>1. CASE \A t \in Threads : pc[t] # "update"
      BY <3>1 DEF TreeInv, PoolOK, TreeOK
    <3>2. CASE \E t \in Threads : pc[t] = "update"
      BY <3>2 DEF TreeInv, PoolOK, RightUpTo
    <3> QED
      BY <3>1, <3>2
  <2>2. \A i \in BlockIdx : pool[i] \in 0 .. PoolSize
    <3> SUFFICES ASSUME NEW i \in BlockIdx PROVE pool[i] \in 0 .. PoolSize
      OBVIOUS
    <3>1. pool[i] \in Nat /\ pool[i] <= ComputeBlockSize[i]
      BY <2>1 DEF Bounded
    <3>2. ComputeBlockSize[i] \in Nat /\ ComputeBlockSize[i] <= PoolSize /\ PoolSize \in Nat
      BY InPool, PoolAssumption
    <3> QED
      BY <3>1, <3>2
  <2>3. pool \in [BlockIdx -> 0 .. PoolSize]
    BY <2>1, <2>2 DEF Bounded
  <2>4. lock_ \in BOOLEAN
    BY DEF TreeInv, LockInv, LockTypeOK
  <2>5. ASSUME NEW t \in Threads
        PROVE  /\ call[t].op \in Ops /\ call[t].size \in Sizes /\ call[t].addr \in 0 .. PoolSize - 1
               /\ cursor[t].idx \in BlockIdx /\ cursor[t].size \in Nat
               /\ held[t] \in Seq(Block) /\ Len(held[t]) <= MaxHeld
    BY DEF TreeInv, StateOK
  <2> QED
    BY <2>3, <2>4, <2>5 DEF TypeOK, TreeInv, StateOK
<1>2. ASSUME TreeInv, \A t \in Threads : pc[t] # "update"
      PROVE  Nodes = Taken /\ TreeOK(Taken, pool) /\ Taken \subseteq BlockIdx
  <2>1. Nodes = Taken
    BY <1>2, NodesTaken DEF TreeInv
  <2> QED
    BY <1>2, <2>1, NodesApart DEF TreeInv, PoolOK, Antichain
<1>3. TreeInv => SummaryExact
  <2> SUFFICES ASSUME TreeInv, ~lock_ PROVE \A i \in BlockIdx : pool[i] = Largest[i]
    BY DEF SummaryExact
  <2>1. \A t \in Threads : pc[t] # "update"
    BY Zenon DEF TreeInv, LockInv, MutualExclusion, InLock
  <2> QED
    BY <1>2, <2>1, TreeIsLargest
<1>4. ASSUME TreeInv, NEW t \in Threads, pc[t] = "critical", call[t].op = "allocate"
      PROVE  /\ TreeOK(Taken, pool) /\ Taken \subseteq BlockIdx
             /\ call[t].size \in Sizes /\ call[t].size \in Nat
  <2>1. \A v \in Threads : pc[v] # "update"
    <3>1. \A v \in Threads : v # t => pc[v] \notin {"critical", "update"}
      BY <1>4, Alone DEF InLock
    <3> QED
      BY <1>4, <3>1
  <2>2. call[t].size \in Sizes
    BY <1>4 DEF TreeInv, StateOK
  <2>3. Sizes \subseteq Nat
    BY CallersAssumption
  <2> QED
    BY <1>2, <1>4, <2>1, <2>2, <2>3, Zenon
<1>5. TreeInv => SearchSucceeds
  <2> SUFFICES ASSUME TreeInv, NEW t \in Threads, pc[t] = "critical", call[t].op = "allocate",
                      HasRoom(pool, call[t].size)
               PROVE  LET found == SearchFor(pool, call[t].size)
                      IN  /\ found.ok
                          /\ found.addr = BlockAddr[found.idx]
                          /\ \A j \in Taken : ~Below(j, found.idx) /\ ~Below(found.idx, j)
    BY DEF SearchSucceeds
  <2>1. /\ SearchFor(pool, call[t].size).ok
        /\ SearchFor(pool, call[t].size).addr = BlockAddr[SearchFor(pool, call[t].size).idx]
        /\ \A j \in Taken : Apart(SearchFor(pool, call[t].size).idx, j)
    BY <1>4, SearchFinds
  <2> QED
    BY <2>1 DEF Apart
<1>6. TreeInv => RejectOnlyWhenNoBlock
  <2> SUFFICES ASSUME TreeInv, NEW t \in Threads, pc[t] = "critical", call[t].op = "allocate",
                      ~HasRoom(pool, call[t].size), NEW i \in BlockIdx,
                      Level[i] = ComputeLevel(RoundedUpToMinBlockSize(call[t].size))
               PROVE  \E j \in Taken : Below(i, j) \/ Below(j, i)
    BY DEF RejectOnlyWhenNoBlock
  <2>1. RoundedUpToMinBlockSize(call[t].size) <= PoolSize
    BY <1>4 DEF SizesFit
  <2> QED
    BY <1>4, <2>1, NoRoomNoBlock, Zenon
<1>7. TreeInv => TreeExact
  BY <1>1, <1>3, <1>5, <1>6 DEF TreeExact
<1> QED
  BY <1>7, TreeAlways, PTL

\* Both hold of a pool of 2^k bytes in at most k + 1 levels, the shape the tests of the
\* allocator build.
COROLLARY PowerOfTwoPool ==
    ASSUME NEW k \in Nat, PoolSize = Pow2[k], NumOrder <= k + 1
    PROVE  Spec => [](BlocksDisjoint /\ TreeExact)
<1>1. Halves
  BY PowersHalve
<1>2. SizesFit
  <2>1. \A size \in Sizes : size \in Nat /\ size <= PoolSize
    BY CallersAssumption
  <2> QED
    BY <2>1, PowersHalve DEF SizesFit
<1>3. Spec => []BlocksDisjoint
  BY <1>1, BlocksNeverOverlap
<1>4. Spec => []TreeExact
  BY <1>1, <1>2, TreeAlwaysExact
<1> QED
  BY <1>3, <1>4, PTL
=============================================================================
