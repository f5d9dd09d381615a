---------------------------- MODULE ShmMsgQueue ----------------------------
(***************************************************************************)
(* SharedMemoryMessageQueue: producers and consumers (threads or forked    *)
(* processes) that exchange messages through a buffer in shared memory.    *)
(*                                                                         *)
(* A message lives in a chunk: a node of the ChunkList and a block of the  *)
(* buffer that the buddy allocator hands out.  The node goes from the free *)
(* list to a producer (allocate), to the queue (enqueue), to a consumer    *)
(* (dequeue) and back to the free list (release_chunk).                    *)
(*                                                                         *)
(* Every operation runs under one process-shared mutex, so each is one     *)
(* step, except where the code leaves the mutex or sleeps: allocate's      *)
(* retry loop and the memcpy of enqueue run outside it, while dequeue      *)
(* sleeps between two polls WITH the mutex held (its MutexLocker lives to  *)
(* the end of the loop body).  The buddy allocator's own spin lock is only *)
(* taken under this mutex and is never contended here, so a call of it is  *)
(* one step of BuddyPool, whose pool is the buffer: PoolSize is            *)
(* buffer_mmap_size_ and NumOrder what compute_num_order makes of it.      *)
(***************************************************************************)
EXTENDS ChunkList, BuddyPool, FiniteSets

CONSTANTS
    Producers, Consumers,
    kMinBlockSize,      \* the smallest block of the buddy allocator
    Sizes,              \* the message sizes producers ask for
    MsgsPerProducer,    \* bound: messages each producer sends
    Blocking,           \* values of allocate's argument `block'
    Timed,              \* does a dequeue have a finite timeout?
    MayCancel,          \* may a producer release a chunk it did not send?
    PreducerCounts,     \* what main passes to set_preducer_count; -1 is "not called"
    MayClose,           \* does main call close?
    MaxCrashes,         \* bound: processes that die
    NoMsg,              \* what the buffer holds before the first message
    Nobody              \* the mutex is free

Threads == Producers \cup Consumers

ASSUME QueueAssumption ==
    /\ Producers \cap Consumers = {}
    /\ Nobody \notin Threads
    /\ kMinBlockSize \in Nat \ {0}
    /\ Sizes \subseteq 1 .. PoolSize      \* CHECK_LE(size, buffer_mmap_size_)
    /\ MsgsPerProducer \in Nat /\ MaxCrashes \in Nat
    /\ Blocking \subseteq BOOLEAN /\ Timed \subseteq BOOLEAN
    /\ MayCancel \in BOOLEAN /\ MayClose \in BOOLEAN
    /\ PreducerCounts \subseteq Int

\* compute_num_order: the levels of the tree whose blocks reach kMinBlockSize.
ComputeNumOrder(poolSize, minBlockSize) ==
    LET num_order[s \in Nat] ==
            IF s >= minBlockSize THEN 1 + num_order[s \div 2] ELSE 0
    IN  num_order[poolSize]

ASSUME NumOrderAssumption == NumOrder = ComputeNumOrder(PoolSize, kMinBlockSize)

VARIABLES
    list,       \* the ChunkRegionList in shared memory
    chunk,      \* chunk[n]: the fields data and size of node n
    pool,       \* the buddy allocator's tree
    active_preducer_count,
    mutex,      \* who holds the mutex between two steps
    buffer,     \* buffer[a]: whose message wrote byte a last
    main,       \* the thread that sets the queue up
    pc,         \* pc[t]: where thread t is
    opt,        \* opt[t]: arguments of t's current call (size and block, or timed)
    cid,        \* cid[t]: the chunk t works on, or Null
    sent,       \* sent[p]: messages p has enqueued
    received,   \* received[c]: messages c has read, oldest first
    crashes,
    freed,      \* history: the free list as a sequence, its head first
    fifo        \* history: the queue as a sequence, its head first

region == <<list, freed, fifo>>
memory == <<chunk, pool, buffer>>
clients == <<pc, opt, cid, sent, received>>
vars == <<list, chunk, pool, active_preducer_count, mutex, buffer, main, pc, opt,
          cid, sent, received, crashes, freed, fifo>>

Msg == Producers \X (1 .. MsgsPerProducer)

PcValues == {"idle", "allocating", "filling", "filled", "polling", "sleeping",
             "reading", "done", "closed", "crashed"}

Init ==
    /\ list = InitList
    /\ chunk = [n \in Nodes |-> [data |-> Null, size |-> 0]]
    /\ pool = InitPool
    /\ active_preducer_count = -1
    /\ mutex = Nobody
    /\ buffer = [a \in 0 .. PoolSize - 1 |-> NoMsg]
    /\ main = "init"
    /\ pc = [t \in Threads |-> "idle"]
    /\ opt = [t \in Threads |-> [size |-> 0, flag |-> FALSE]]
    /\ cid = [t \in Threads |-> Null]
    /\ sent = [p \in Producers |-> 0]
    /\ received = [c \in Consumers |-> <<>>]
    /\ crashes = 0
    /\ freed = [i \in 1 .. Capacity |-> i - 1]
    /\ fifo = <<>>

-----------------------------------------------------------------------------
(***************************************************************************)
(* main: init, then set_preducer_count before it starts the others, and    *)
(* possibly close.                                                         *)
(***************************************************************************)

SetPreducerCount(count) ==
    /\ main = "init" /\ mutex = Nobody
    /\ main' = "running"
    /\ active_preducer_count' = count
    /\ UNCHANGED <<region, memory, clients, mutex, crashes>>

\* Faulty variant of Close: close() does not count as an end.
CloseUncounted ==
    /\ MayClose /\ main = "running" /\ mutex = Nobody
    /\ main' = "closed"
    /\ UNCHANGED <<region, memory, clients, mutex, crashes, active_preducer_count>>

\* close() is signal_preducing_complete().
Close ==
    /\ MayClose /\ main = "running" /\ mutex = Nobody
    /\ main' = "closed"
    /\ active_preducer_count' = active_preducer_count - 1
    /\ UNCHANGED <<region, memory, clients, mutex, crashes>>

At(t, label) == main # "init" /\ pc[t] = label
Goto(t, label) == pc' = [pc EXCEPT ![t] = label]
NoArgs == [size |-> 0, flag |-> FALSE]

-----------------------------------------------------------------------------
(***************************************************************************)
(* Producers.                                                              *)
(***************************************************************************)
StartSend(p, size, block) ==
    /\ At(p, "idle") /\ sent[p] < MsgsPerProducer
    /\ Goto(p, "allocating")
    /\ opt' = [opt EXCEPT ![p] = [size |-> size, flag |-> block]]
    /\ UNCHANGED <<region, memory, active_preducer_count, mutex, main, cid, sent,
                   received, crashes>>

\* try_allocate succeeds: a node and a block for it.
AllocateOk(p) ==
    /\ At(p, "allocating") /\ mutex = Nobody
    /\ list.free_list_head # Null
    /\ HasRoom(pool, opt[p].size)
    /\ LET n == list.free_list_head IN
        /\ list' = AllocateNode(list)
        /\ freed' = Tail(freed)
        /\ pool' = AllocateBlock(pool, opt[p].size)
        /\ chunk' = [chunk EXCEPT ![n] =
                        [data |-> SearchFor(pool, opt[p].size).addr, size |-> opt[p].size]]
        /\ cid' = [cid EXCEPT ![p] = n]
    /\ Goto(p, "filling")
    /\ UNCHANGED <<fifo, buffer, active_preducer_count, mutex, main, opt, sent,
                   received, crashes>>

\* A failed attempt: allocate sleeps and tries again if `block', else returns false.
AfterFailure(p) == Goto(p, IF opt[p].flag THEN "allocating" ELSE "idle")

AllocateNoNode(p) ==
    /\ At(p, "allocating") /\ mutex = Nobody
    /\ list.free_list_head = Null
    /\ AfterFailure(p)
    /\ UNCHANGED <<region, memory, active_preducer_count, mutex, main, opt, cid,
                   sent, received, crashes>>

\* The buddy allocator has no block: the node goes back to the free list.
AllocateNoMemory(p) ==
    /\ At(p, "allocating") /\ mutex = Nobody
    /\ list.free_list_head # Null
    /\ ~HasRoom(pool, opt[p].size)
    /\ list' = DeallocateNode(AllocateNode(list), list.free_list_head)
    /\ AfterFailure(p)
    /\ UNCHANGED <<freed, fifo, memory, active_preducer_count, mutex, main, opt, cid,
                   sent, received, crashes>>

\* The memcpy of enqueue(msg, size), outside the mutex.
Fill(p) ==
    /\ At(p, "filling")
    /\ LET c == chunk[cid[p]] IN
        buffer' = [a \in DOMAIN buffer |->
                    IF a \in c.data .. c.data + c.size - 1 THEN <<p, sent[p] + 1>>
                    ELSE buffer[a]]
    /\ Goto(p, "filled")
    /\ UNCHANGED <<region, chunk, pool, active_preducer_count, mutex, main, opt, cid,
                   sent, received, crashes>>

\* enqueue(chunk_id), after which the message is the consumers'.
Enqueue(p) ==
    /\ At(p, "filled") /\ mutex = Nobody
    /\ list' = Put(list, cid[p])
    /\ fifo' = Append(fifo, cid[p])
    /\ cid' = [cid EXCEPT ![p] = Null]
    /\ sent' = [sent EXCEPT ![p] = @ + 1]
    /\ opt' = [opt EXCEPT ![p] = NoArgs]
    /\ Goto(p, "idle")
    /\ UNCHANGED <<freed, memory, active_preducer_count, mutex, main, received, crashes>>

\* release_chunk(n)
ReleaseChunk(n) ==
    /\ mutex = Nobody
    /\ pool' = DeallocateBlock(pool, chunk[n].data, chunk[n].size)
    /\ list' = DeallocateNode(list, n)
    /\ freed' = <<n>> \o freed
    /\ UNCHANGED <<fifo, chunk, buffer, mutex>>

\* A producer that allocated a chunk gives it back without sending it.
Cancel(p) ==
    /\ MayCancel /\ At(p, "filling")
    /\ ReleaseChunk(cid[p])
    /\ cid' = [cid EXCEPT ![p] = Null]
    /\ opt' = [opt EXCEPT ![p] = NoArgs]
    /\ Goto(p, "idle")
    /\ UNCHANGED <<active_preducer_count, main, sent, received, crashes>>

SignalPreducingComplete(p) ==
    /\ At(p, "idle") /\ sent[p] = MsgsPerProducer /\ mutex = Nobody
    /\ active_preducer_count' = active_preducer_count - 1
    /\ Goto(p, "done")
    /\ UNCHANGED <<region, memory, mutex, main, opt, cid, sent, received, crashes>>

-----------------------------------------------------------------------------
(***************************************************************************)
(* Consumers: dequeue and release_chunk until the queue is closed.         *)
(***************************************************************************)
StartDequeue(c, timed) ==
    /\ At(c, "idle")
    /\ Goto(c, "polling")
    /\ opt' = [opt EXCEPT ![c] = [size |-> 0, flag |-> timed]]
    /\ UNCHANGED <<region, memory, active_preducer_count, mutex, main, cid, sent,
                   received, crashes>>

\* The loop condition fails: the deadline may pass before any poll.
DequeueTimeout(c) ==
    /\ At(c, "polling") /\ opt[c].flag
    /\ Goto(c, "idle")
    /\ UNCHANGED <<region, memory, active_preducer_count, mutex, main, opt, cid, sent,
                   received, crashes>>

DequeueOk(c) ==
    /\ At(c, "polling") /\ mutex = Nobody
    /\ list.head # Null
    /\ cid' = [cid EXCEPT ![c] = list.head]
    /\ list' = Pop(list)
    /\ fifo' = Tail(fifo)
    /\ Goto(c, "reading")
    /\ UNCHANGED <<freed, memory, active_preducer_count, mutex, main, opt, sent,
                   received, crashes>>

\* Faulty variant of DequeueClosed: the counter is looked at before the queue.
DequeueClosedFirst(c) ==
    /\ At(c, "polling") /\ mutex = Nobody
    /\ active_preducer_count = 0
    /\ Goto(c, "closed")
    /\ UNCHANGED <<region, memory, active_preducer_count, mutex, main, opt, cid, sent,
                   received, crashes>>

DequeueClosed(c) ==
    /\ At(c, "polling") /\ mutex = Nobody
    /\ list.head = Null /\ active_preducer_count = 0
    /\ Goto(c, "closed")
    /\ UNCHANGED <<region, memory, active_preducer_count, mutex, main, opt, cid, sent,
                   received, crashes>>

\* Nothing there: sleep 500 microseconds inside the MutexLocker's scope ...
DequeueSleep(c) ==
    /\ At(c, "polling") /\ mutex = Nobody
    /\ list.head = Null /\ active_preducer_count # 0
    /\ mutex' = c
    /\ Goto(c, "sleeping")
    /\ UNCHANGED <<region, memory, active_preducer_count, main, opt, cid, sent,
                   received, crashes>>

\* Faulty variant of DequeueWake: the mutex is kept.
DequeueWakeLocked(c) ==
    /\ At(c, "sleeping")
    /\ Goto(c, "polling")
    /\ UNCHANGED <<region, memory, active_preducer_count, mutex, main, opt, cid, sent,
                   received, crashes>>

\* ... and release the mutex only at the end of the loop body.
DequeueWake(c) ==
    /\ At(c, "sleeping")
    /\ mutex' = Nobody
    /\ Goto(c, "polling")
    /\ UNCHANGED <<region, memory, active_preducer_count, main, opt, cid, sent,
                   received, crashes>>

\* The bytes of chunk n, as the message they are: NoMsg if they are not one whole message.
Content(n) ==
    LET bytes == {buffer[a] : a \in chunk[n].data .. chunk[n].data + chunk[n].size - 1}
    IN  IF Cardinality(bytes) = 1 THEN CHOOSE m \in bytes : TRUE ELSE NoMsg

\* The consumer has read the message and releases its chunk.
Release(c) ==
    /\ At(c, "reading")
    /\ received' = [received EXCEPT ![c] = Append(@, Content(cid[c]))]
    /\ ReleaseChunk(cid[c])
    /\ cid' = [cid EXCEPT ![c] = Null]
    /\ opt' = [opt EXCEPT ![c] = NoArgs]
    /\ Goto(c, "idle")
    /\ UNCHANGED <<active_preducer_count, main, sent, crashes>>

-----------------------------------------------------------------------------

\* A process dies.  The mutex is not robust: if the process holds it, or dies
\* inside any of the critical sections above, nobody ever gets it again (and so
\* nobody sees what the interrupted section left behind).
Crash(t) ==
    /\ crashes < MaxCrashes
    /\ main # "init" /\ pc[t] \notin {"done", "closed", "crashed"}
    /\ crashes' = crashes + 1
    /\ mutex' \in IF mutex = Nobody THEN {Nobody, t} ELSE {mutex}
    /\ Goto(t, "crashed")
    /\ UNCHANGED <<region, memory, active_preducer_count, main, opt, cid, sent, received>>

ProducerStep(p) ==
    \/ \E size \in Sizes, block \in Blocking : StartSend(p, size, block)
    \/ AllocateOk(p) \/ AllocateNoNode(p) \/ AllocateNoMemory(p)
    \/ Fill(p) \/ Enqueue(p) \/ Cancel(p) \/ SignalPreducingComplete(p)

ConsumerStep(c) ==
    \/ \E timed \in Timed : StartDequeue(c, timed)
    \/ DequeueTimeout(c)
    \/ DequeueOk(c) \/ DequeueClosed(c) \/ DequeueSleep(c) \/ DequeueWake(c)
    \/ Release(c)

Next ==
    \/ \E count \in PreducerCounts : SetPreducerCount(count)
    \/ Close
    \/ \E p \in Producers : ProducerStep(p)
    \/ \E c \in Consumers : ConsumerStep(c)
    \/ \E t \in Threads : Crash(t)

Spec == Init /\ [][Next]_vars

\* Every thread that can take a step is scheduled, and one that keeps asking for
\* the mutex gets it at some point: strong fairness, because a consumer that
\* polls an empty queue takes the mutex again as soon as it has released it.
FairSpec ==
    /\ Spec
    /\ \A count \in PreducerCounts : WF_vars(SetPreducerCount(count))
    /\ \A p \in Producers : SF_vars(ProducerStep(p))
    /\ \A c \in Consumers : SF_vars(ConsumerStep(c))

-----------------------------------------------------------------------------
Held == {cid[t] : t \in Threads} \ {Null}
InFifo == NodesIn(fifo)
InFreed == NodesIn(freed)

\* The part of the type invariant that the proofs are about.
ControlTypeOK ==
    /\ list \in ChunkRegionList
    /\ freed \in Seq(Nodes) /\ fifo \in Seq(Nodes)
    /\ cid \in [Threads -> Nodes \cup {Null}]
    /\ pc \in [Threads -> PcValues]
    /\ mutex \in Threads \cup {Nobody}
    /\ active_preducer_count \in Int
    /\ main \in {"init", "running", "closed"}
    /\ sent \in [Producers -> 0 .. MsgsPerProducer]

\* One type invariant for the module.
TypeOK ==
    /\ ControlTypeOK
    /\ \A n \in Nodes : /\ chunk[n].data \in {Null} \cup 0 .. PoolSize - 1
                        /\ chunk[n].size \in {0} \cup Sizes
    /\ pool \in [BlockIdx -> 0 .. PoolSize]
    /\ \A a \in 0 .. PoolSize - 1 : buffer[a] \in Msg \cup {NoMsg}
    /\ \A t \in Threads : opt[t].size \in {0} \cup Sizes /\ opt[t].flag \in BOOLEAN
    /\ \A c \in Consumers : received[c] \in Seq(Msg)
    /\ crashes \in 0 .. MaxCrashes

\* The pointers of ChunkRegionList spell out the two lists: free_list_head and
\* next the free nodes, head, next and tail the waiting messages.  The two lists
\* share `next', which allocate_node, deallocate_node, put and pop each relink.
ListsLinked ==
    /\ Linked(freed, list.free_list_head, list.next)
    /\ Linked(fifo, list.head, list.next)
    /\ list.tail = IF fifo = <<>> THEN Null ELSE fifo[Len(fifo)]

\* No node is in two places: not twice in a list, not in both lists, not in a
\* list while a producer fills it or a consumer reads it, not with two threads.
NodesExclusive ==
    /\ Distinct(freed)
    /\ Distinct(fifo)
    /\ InFreed \cap InFifo = {}
    /\ Held \cap (InFreed \cup InFifo) = {}
    /\ \A t, u \in Threads : cid[t] = cid[u] /\ cid[t] # Null => t = u

\* No node is lost: the free list, the queue and the threads account for all of
\* them, also on the failure path of try_allocate; only a thread that died
\* while it worked on a chunk keeps one for ever.
NodesAccounted == InFreed \cup InFifo \cup Held = Nodes

\* The chunk nodes between calls: head, tail, free_list_head and next spell out
\* the free list and the queue, no node is in two places, and none is lost.
ListsSound == ListsLinked /\ NodesExclusive /\ NodesAccounted

\* A thread has a chunk exactly while it fills or reads one.
HoldsChunk ==
    \A t \in Threads :
        /\ pc[t] \in {"filling", "filled", "reading"} => cid[t] # Null
        /\ pc[t] \in {"idle", "allocating", "polling", "sleeping", "done", "closed"}
              => cid[t] = Null

\* Chunks that hold a block of the buffer.
Live == Held \cup InFifo

ChunkBytes(n) == chunk[n].data .. chunk[n].data + chunk[n].size - 1

\* Chunks in use do not share a byte of the buffer, so that the memcpy and the
\* reads that happen outside the mutex cannot meet.
ChunksDisjoint ==
    \A m, n \in Live : m # n => ChunkBytes(m) \cap ChunkBytes(n) = {}

\* Whenever every node is back on the free list, the buddy allocator is back in
\* its initial state: release_chunk frees exactly the block allocate took, and
\* the failure path took none.
MemoryReturned == InFreed = Nodes => pool = InitPool

\* The buffer between calls: the blocks of live chunks are disjoint, and when no
\* chunk is live the buddy allocator has all of its memory back.
MemorySound == TypeOK /\ ChunksDisjoint /\ MemoryReturned

\* A consumer is told "closed" only after every producer has signalled that it is
\* complete and every message has been taken from the queue, though the counter
\* and the queue are updated by different critical sections of different threads.
ClosedMeansDrained ==
    (\E c \in Consumers : pc[c] = "closed") =>
        /\ fifo = <<>>
        /\ \A p \in Producers : pc[p] = "done"

\* Once main has closed the queue and every producer has signalled its end, no
\* dequeue that finds the queue empty goes on waiting: it returns at once, as the
\* header promises.  (A consumer that sleeps holds the mutex, so none sleeps while
\* the last of close and signal_preducing_complete runs.)
CloseEndsWaiting ==
    main = "closed" /\ (\A p \in Producers : pc[p] = "done")
        => \A c \in Consumers : pc[c] # "sleeping"

\* The queue implements its abstract specification: the messages in the buffer,
\* read through the chunks in queue order, are the abstract queue; a consumer
\* that holds a chunk has received its message.
Abstract == INSTANCE MessageQueue WITH
    queue    <- [i \in 1 .. Len(fifo) |-> Content(fifo[i])],
    finished <- {p \in Producers : pc[p] = "done"},
    received <- [c \in Consumers |->
                    IF cid[c] = Null THEN received[c]
                    ELSE Append(received[c], Content(cid[c]))],
    ended    <- {c \in Consumers : pc[c] = "closed"}

\* See Abstract: first in, first out, every message once and unchanged.
ImplementsMessageQueue == Abstract!Spec

\* Every message is delivered and everybody ends: producers get through and
\* signal, consumers get everything and are told "closed".
AllDelivered ==
    <>(/\ \A p \in Producers : pc[p] = "done"
       /\ \A c \in Consumers : pc[c] = "closed")

\* A producer in the retry loop of a blocking allocate gets its chunk once the
\* consumers have taken and released what is cached: it does not wait for ever.
ProducerUnblocked ==
    \A p \in Producers : pc[p] = "allocating" ~> pc[p] # "allocating"

\* The queue is a MessageQueue in which every message is delivered, every blocked
\* producer gets its chunk, and everybody ends.
DeliversEverything == ImplementsMessageQueue /\ AllDelivered /\ ProducerUnblocked
=============================================================================
