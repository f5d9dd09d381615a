------------------------- MODULE ShmMsgQueue_proofs -------------------------
(***************************************************************************)
(* Proofs about the shared-memory message queue, for any processes, chunk  *)
(* nodes, message sizes and crashes.                                       *)
(*                                                                         *)
(*  1. The pointers of ShmMsgChunkList spell out the lists they stand for. *)
(*  2. IInv: the free list, the queue and the processes share the nodes.   *)
(*  3. CountInv: active_preducer_count counts who may still send, so that  *)
(*     "closed" comes only after the last message, and close ends waiting. *)
(*  4. MemInv: every chunk in use is a block of the buddy allocator, and   *)
(*     holds the bytes its producer copied there.                          *)
(*  5. The queue implements MessageQueue.                                  *)
(***************************************************************************)
EXTENDS ShmMsgQueue, BuddyPool_proofs, FiniteSetTheorems, TLAPS

-----------------------------------------------------------------------------
(***************************************************************************)
(* The linked lists of ShmMsgChunkList, for every capacity: what each of   *)
(* its four operations does to the sequence of nodes that a chain of       *)
(* pointers spells out.                                                    *)
(***************************************************************************)
Pointers == [Nodes -> Nodes \cup {Null}]

\* nullptr is not the address of a node.
LEMMA NullNotNode == Null \notin Nodes
BY DEF Nodes, Null

\* A chain starts with nullptr exactly when it is empty (the tests of head, tail
\* and free_list_head in put, pop and allocate_node).
LEMMA LinkedEmpty ==
    ASSUME NEW s \in Seq(Nodes), NEW first, NEW next \in Pointers, Linked(s, first, next)
    PROVE  first = Null <=> s = <<>>
BY NullNotNode DEF Linked

\* Following next from the first node of a chain gives the rest of it (pop and
\* allocate_node).
LEMMA LinkedTail ==
    ASSUME NEW s \in Seq(Nodes), NEW first, NEW next \in Pointers,
           Linked(s, first, next), s # <<>>
    PROVE  /\ first = s[1] /\ first \in Nodes
           /\ Linked(Tail(s), next[first], next)
<1> DEFINE r == Tail(s)
<1>1. /\ r \in Seq(Nodes) /\ Len(r) = Len(s) - 1 /\ Len(s) \in Nat \ {0}
      /\ \A i \in 1 .. Len(r) : r[i] = s[i + 1]
      /\ r = <<>> <=> Len(s) = 1
  <2>1. /\ Len(s) \in Nat \ {0}
        /\ r \in Seq(Nodes) /\ Len(r) = Len(s) - 1
    OBVIOUS
  <2>2. \A i \in 1 .. Len(r) : r[i] = s[i + 1]
    BY <2>1
  <2>3. r = <<>> <=> Len(r) = 0
    BY <2>1
  <2> QED
    BY <2>1, <2>2, <2>3
<1>2. first = s[1] /\ first \in Nodes
  BY <1>1 DEF Linked
<1>3. next[first] = IF r = <<>> THEN Null ELSE r[1]
  BY <1>1, <1>2 DEF Linked
<1>4. ASSUME NEW i \in 1 .. Len(r)
      PROVE  next[r[i]] = IF i < Len(r) THEN r[i + 1] ELSE Null
  BY <1>1 DEF Linked
<1> QED
  BY <1>2, <1>3, <1>4 DEF Linked

\* Relinking a node that is not in a chain leaves the chain alone.
LEMMA LinkedFrame ==
    ASSUME NEW s \in Seq(Nodes), NEW first, NEW next \in Pointers,
           Linked(s, first, next), NEW n \in Nodes, n \notin NodesIn(s), NEW v
    PROVE  Linked(s, first, [next EXCEPT ![n] = v])
BY DEF Linked, NodesIn, Pointers

\* Pointing a node at the first of a chain puts it in front (deallocate_node).
LEMMA LinkedCons ==
    ASSUME NEW s \in Seq(Nodes), NEW first, NEW next \in Pointers,
           Linked(s, first, next), NEW n \in Nodes, n \notin NodesIn(s)
    PROVE  Linked(<<n>> \o s, n, [next EXCEPT ![n] = first])
<1> DEFINE r == <<n>> \o s
           to == [next EXCEPT ![n] = first]
<1>1. /\ r \in Seq(Nodes) /\ Len(r) = Len(s) + 1 /\ r[1] = n /\ r # <<>>
      /\ \A i \in 2 .. Len(r) : r[i] = s[i - 1]
  OBVIOUS
<1>2. ASSUME NEW i \in 1 .. Len(r)
      PROVE  to[r[i]] = IF i < Len(r) THEN r[i + 1] ELSE Null
  <2>1. CASE i = 1
    <3>1. to[r[i]] = first
      BY <1>1, <2>1 DEF Pointers
    <3>2. first = IF s = <<>> THEN Null ELSE s[1]
      BY DEF Linked
    <3> QED
      BY <1>1, <2>1, <3>1, <3>2
  <2>2. CASE i # 1
    <3>1. i - 1 \in 1 .. Len(s) /\ r[i] = s[i - 1] /\ r[i] # n
      BY <1>1, <2>2 DEF NodesIn
    <3>2. to[r[i]] = next[s[i - 1]]
      BY <3>1 DEF Pointers
    <3>3. next[s[i - 1]] = IF i - 1 < Len(s) THEN s[i - 1 + 1] ELSE Null
      BY <3>1 DEF Linked
    <3>4. i < Len(r) => r[i + 1] = s[i]
      BY <1>1, <3>1
    <3> QED
      BY <1>1, <3>1, <3>2, <3>3, <3>4
  <2> QED
    BY <2>1, <2>2
<1> QED
  BY <1>1, <1>2 DEF Linked

\* Pointing the last node of a chain at a new one whose next is nullptr puts it
\* at the end (put).
LEMMA LinkedAppend ==
    ASSUME NEW s \in Seq(Nodes), NEW first, NEW next \in Pointers,
           Linked(s, first, next), NEW n \in Nodes, n \notin NodesIn(s),
           Distinct(s), s # <<>>
    PROVE  Linked(Append(s, n), first,
                  [[next EXCEPT ![n] = Null] EXCEPT ![s[Len(s)]] = n])
<1> DEFINE r == Append(s, n)
           last == s[Len(s)]
           to == [[next EXCEPT ![n] = Null] EXCEPT ![last] = n]
<1>1. /\ r \in Seq(Nodes) /\ Len(r) = Len(s) + 1 /\ r[Len(r)] = n /\ r # <<>>
      /\ \A i \in 1 .. Len(s) : r[i] = s[i]
      /\ Len(s) \in Nat \ {0}
  OBVIOUS
<1>2. last \in Nodes /\ last # n
  BY <1>1 DEF NodesIn
<1>3. to[n] = Null /\ to[last] = n /\ \A m \in Nodes : m \notin {n, last} => to[m] = next[m]
  BY <1>2 DEF Pointers
<1>4. ASSUME NEW i \in 1 .. Len(r)
      PROVE  to[r[i]] = IF i < Len(r) THEN r[i + 1] ELSE Null
  <2>1. CASE i = Len(r)
    BY <1>1, <1>3, <2>1
  <2>2. CASE i = Len(s)
    BY <1>1, <1>3, <2>2
  <2>3. CASE i < Len(s)
    <3>1. r[i] = s[i] /\ s[i] \in Nodes /\ s[i] # n /\ s[i] # last
      BY <1>1, <2>3 DEF NodesIn, Distinct
    <3>2. next[s[i]] = s[i + 1] /\ r[i + 1] = s[i + 1]
      BY <1>1, <2>3 DEF Linked
    <3>3. to[s[i]] = next[s[i]]
      BY <1>3, <3>1, Zenon
    <3>4. i < Len(r)
      BY <1>1, <2>3
    <3> HIDE DEF to, r
    <3> QED
      BY <3>1, <3>2, <3>3, <3>4
  <2> QED
    BY <1>1, <2>1, <2>2, <2>3
<1>5. first = r[1]
  BY <1>1 DEF Linked
<1> QED
  BY <1>1, <1>4, <1>5, Zenon DEF Linked

\* Taking the first node off a sequence without repetitions.
LEMMA TailNodes ==
    ASSUME NEW s \in Seq(Nodes), s # <<>>, Distinct(s)
    PROVE  /\ Tail(s) \in Seq(Nodes) /\ Distinct(Tail(s))
           /\ NodesIn(Tail(s)) = NodesIn(s) \ {s[1]}
           /\ s[1] \in NodesIn(s) /\ s[1] \in Nodes
<1> DEFINE r == Tail(s)
<1>1. Len(s) \in Nat \ {0} /\ r \in Seq(Nodes) /\ Len(r) = Len(s) - 1
  OBVIOUS
<1>2. \A i \in 1 .. Len(r) : r[i] = s[i + 1]
  BY <1>1
<1>3. Distinct(r)
  BY <1>1, <1>2 DEF Distinct
<1>4. NodesIn(r) \subseteq NodesIn(s) \ {s[1]}
  BY <1>1, <1>2 DEF NodesIn, Distinct
<1>5. ASSUME NEW n \in NodesIn(s) \ {s[1]}
      PROVE  n \in NodesIn(r)
  <2>1. PICK i \in 1 .. Len(s) : n = s[i]
    BY DEF NodesIn
  <2>2. i - 1 \in 1 .. Len(r) /\ r[i - 1] = n
    BY <1>1, <1>2, <2>1
  <2> QED
    BY <2>2 DEF NodesIn
<1>6. s[1] \in NodesIn(s) /\ s[1] \in Nodes
  BY <1>1 DEF NodesIn
<1>7. NodesIn(r) = NodesIn(s) \ {s[1]}
  BY <1>4, <1>5
<1> QED
  BY <1>1, <1>3, <1>6, <1>7

\* Putting a new node in front.
LEMMA ConsNodes ==
    ASSUME NEW s \in Seq(Nodes), Distinct(s), NEW n \in Nodes, n \notin NodesIn(s)
    PROVE  /\ <<n>> \o s \in Seq(Nodes) /\ Distinct(<<n>> \o s)
           /\ NodesIn(<<n>> \o s) = NodesIn(s) \cup {n}
<1> DEFINE r == <<n>> \o s
<1>1. Len(s) \in Nat /\ r \in Seq(Nodes) /\ Len(r) = Len(s) + 1 /\ r[1] = n
  OBVIOUS
<1>2. \A i \in 2 .. Len(r) : r[i] = s[i - 1] /\ i - 1 \in 1 .. Len(s)
  BY <1>1
<1>3. Distinct(r)
  BY <1>1, <1>2 DEF Distinct, NodesIn
<1>4. NodesIn(r) \subseteq NodesIn(s) \cup {n}
  BY <1>1, <1>2 DEF NodesIn
<1>5. \A i \in 1 .. Len(s) : i + 1 \in 1 .. Len(r) /\ r[i + 1] = s[i]
  BY <1>1
<1>6. NodesIn(s) \cup {n} \subseteq NodesIn(r)
  <2>1. n \in NodesIn(r)
    BY <1>1 DEF NodesIn
  <2>2. ASSUME NEW m \in NodesIn(s)
        PROVE  m \in NodesIn(r)
    <3>1. PICK i \in 1 .. Len(s) : m = s[i]
      BY DEF NodesIn
    <3>2. i + 1 \in 1 .. Len(r) /\ r[i + 1] = m
      BY <1>5, <3>1
    <3> QED
      BY <3>2 DEF NodesIn
  <2> QED
    BY <2>1, <2>2
<1> QED
  BY <1>1, <1>3, <1>4, <1>6

\* Putting a new node at the end.
LEMMA AppendNodes ==
    ASSUME NEW s \in Seq(Nodes), Distinct(s), NEW n \in Nodes, n \notin NodesIn(s)
    PROVE  /\ Append(s, n) \in Seq(Nodes) /\ Distinct(Append(s, n))
           /\ NodesIn(Append(s, n)) = NodesIn(s) \cup {n}
<1> DEFINE r == Append(s, n)
<1>1. /\ Len(s) \in Nat /\ r \in Seq(Nodes) /\ Len(r) = Len(s) + 1 /\ r[Len(r)] = n
      /\ \A i \in 1 .. Len(s) : r[i] = s[i]
  OBVIOUS
<1>2. Distinct(r)
  BY <1>1 DEF Distinct, NodesIn
<1>3. NodesIn(r) \subseteq NodesIn(s) \cup {n}
  BY <1>1 DEF NodesIn
<1>4. NodesIn(s) \cup {n} \subseteq NodesIn(r)
  BY <1>1 DEF NodesIn
<1> QED
  BY <1>1, <1>2, <1>3, <1>4

-----------------------------------------------------------------------------
\* What the four list operations rely on and preserve: the variables they touch
\* are typed, the pointers spell out the two lists, and every node is in exactly
\* one of the free list, the queue and the hands of a thread.
StructInv ==
    /\ list \in ChunkRegionList
    /\ freed \in Seq(Nodes) /\ fifo \in Seq(Nodes)
    /\ cid \in [Threads -> Nodes \cup {Null}]
    /\ ListsLinked
    /\ NodesExclusive
    /\ NodesAccounted

\* The chunk that thread t holds becomes v (Null: it lets go of its chunk).
CidBecomes(t, v) == cid' = [cid EXCEPT ![t] = v]

\* A thread without a chunk gets one that nobody holds.
LEMMA HeldTake ==
    ASSUME cid \in [Threads -> Nodes \cup {Null}],
           NEW t \in Threads, cid[t] = Null, NEW n \in Nodes, n \notin Held,
           \A u, v \in Threads : cid[u] = cid[v] /\ cid[u] # Null => u = v,
           cid' = [cid EXCEPT ![t] = n]
    PROVE  /\ cid' \in [Threads -> Nodes \cup {Null}]
           /\ Held' = Held \cup {n}
           /\ \A u, v \in Threads : cid'[u] = cid'[v] /\ cid'[u] # Null => u = v
<1>1. cid' \in [Threads -> Nodes \cup {Null}]
  OBVIOUS
<1>2. cid'[t] = n /\ \A u \in Threads : u # t => cid'[u] = cid[u]
  OBVIOUS
<1>3. \A u \in Threads : cid[u] # n
  BY NullNotNode DEF Held
<1>4. Held' = Held \cup {n}
  BY <1>2, NullNotNode DEF Held
<1>5. \A u, v \in Threads : cid'[u] = cid'[v] /\ cid'[u] # Null => u = v
  BY <1>2, <1>3
<1> QED
  BY <1>1, <1>4, <1>5

\* A thread lets go of its chunk.
LEMMA HeldDrop ==
    ASSUME cid \in [Threads -> Nodes \cup {Null}],
           NEW t \in Threads, cid[t] # Null,
           \A u, v \in Threads : cid[u] = cid[v] /\ cid[u] # Null => u = v,
           cid' = [cid EXCEPT ![t] = Null]
    PROVE  /\ cid' \in [Threads -> Nodes \cup {Null}]
           /\ cid[t] \in Nodes /\ cid[t] \in Held
           /\ Held' = Held \ {cid[t]}
           /\ \A u, v \in Threads : cid'[u] = cid'[v] /\ cid'[u] # Null => u = v
<1>1. cid' \in [Threads -> Nodes \cup {Null}] /\ cid[t] \in Nodes
  OBVIOUS
<1>2. cid'[t] = Null /\ \A u \in Threads : u # t => cid'[u] = cid[u]
  OBVIOUS
<1>3. Held' = Held \ {cid[t]} /\ cid[t] \in Held
  BY <1>2 DEF Held
<1> QED
  BY <1>1, <1>2, <1>3

-----------------------------------------------------------------------------
(***************************************************************************)
(* The four operations of ShmMsgChunkList preserve StructInv.              *)
(***************************************************************************)

\* allocate_node: the first free node goes to thread t.
LEMMA TakeNode ==
    ASSUME StructInv, NEW t \in Threads, cid[t] = Null, list.free_list_head # Null,
           list' = AllocateNode(list), freed' = Tail(freed), fifo' = fifo,
           CidBecomes(t, list.free_list_head)
    PROVE  StructInv'
<1> USE DEF StructInv, CidBecomes
<1> DEFINE n == list.free_list_head
<1>1. list.next \in Pointers /\ list.head \in Nodes \cup {Null}
      /\ list.tail \in Nodes \cup {Null}
  BY DEF ChunkRegionList, Pointers
<1>2. freed # <<>> /\ n = freed[1] /\ n \in Nodes /\ Linked(Tail(freed), list.next[n], list.next)
  BY <1>1, LinkedEmpty, LinkedTail DEF ListsLinked
<1>3. /\ list'.free_list_head = list.next[n] /\ list'.next = list.next
      /\ list'.head = list.head /\ list'.tail = list.tail
      /\ list' \in ChunkRegionList
  BY <1>1, <1>2, Zenon DEF AllocateNode, ChunkRegionList, Pointers
<1>4. /\ Tail(freed) \in Seq(Nodes) /\ Distinct(Tail(freed))
      /\ InFreed' = InFreed \ {n} /\ n \in InFreed
  BY <1>2, TailNodes DEF NodesExclusive, InFreed
<1>5. n \notin Held /\ n \notin InFifo
  BY <1>4 DEF NodesExclusive
<1>6. /\ cid' \in [Threads -> Nodes \cup {Null}] /\ Held' = Held \cup {n}
      /\ \A u, v \in Threads : cid'[u] = cid'[v] /\ cid'[u] # Null => u = v
  BY <1>2, <1>5, HeldTake, Zenon DEF NodesExclusive
<1>7. InFifo' = InFifo
  BY DEF InFifo
<1>8. ListsLinked'
  BY <1>2, <1>3 DEF ListsLinked
<1>9. NodesExclusive'
  BY <1>4, <1>5, <1>6, <1>7 DEF NodesExclusive
<1>10. NodesAccounted'
  BY <1>4, <1>6, <1>7 DEF NodesAccounted
<1> QED
  BY <1>3, <1>4, <1>6, <1>8, <1>9, <1>10

\* deallocate_node: the node of thread t becomes the first free one.
LEMMA GiveNode ==
    ASSUME StructInv, NEW t \in Threads, cid[t] # Null,
           list' = DeallocateNode(list, cid[t]), freed' = <<cid[t]>> \o freed, fifo' = fifo,
           CidBecomes(t, Null)
    PROVE  StructInv'
<1> USE DEF StructInv, CidBecomes
<1> DEFINE n == cid[t]
<1>1. list.next \in Pointers /\ list.head \in Nodes \cup {Null}
      /\ list.tail \in Nodes \cup {Null} /\ list.free_list_head \in Nodes \cup {Null}
  BY DEF ChunkRegionList, Pointers
<1>2. /\ cid' \in [Threads -> Nodes \cup {Null}] /\ n \in Nodes /\ n \in Held
      /\ Held' = Held \ {n}
      /\ \A u, v \in Threads : cid'[u] = cid'[v] /\ cid'[u] # Null => u = v
  BY HeldDrop, Zenon DEF NodesExclusive
<1>3. n \notin InFreed /\ n \notin InFifo
  BY <1>2 DEF NodesExclusive
<1>4. /\ list'.free_list_head = n /\ list'.next = [list.next EXCEPT ![n] = list.free_list_head]
      /\ list'.head = list.head /\ list'.tail = list.tail
      /\ list' \in ChunkRegionList
  BY <1>1, <1>2, Zenon DEF DeallocateNode, ChunkRegionList, Pointers
<1>5. /\ freed' \in Seq(Nodes) /\ Distinct(freed') /\ InFreed' = InFreed \cup {n}
  BY <1>2, <1>3, ConsNodes DEF NodesExclusive, InFreed
<1>6. InFifo' = InFifo
  BY DEF InFifo
<1>7. Linked(freed', list'.free_list_head, list'.next)
  BY <1>1, <1>2, <1>3, <1>4, LinkedCons DEF ListsLinked, InFreed
<1>8. Linked(fifo, list.head, list'.next)
  <2>1. Linked(fifo, list.head, list.next) /\ n \notin NodesIn(fifo)
    BY <1>3 DEF ListsLinked, InFifo
  <2>2. Linked(fifo, list.head, [list.next EXCEPT ![n] = list.free_list_head])
    BY <1>1, <1>2, <2>1, LinkedFrame, Zenon
  <2> QED
    BY <1>4, <2>2
<1>9. ListsLinked'
  BY <1>4, <1>7, <1>8 DEF ListsLinked
<1>10. NodesExclusive'
  BY <1>2, <1>3, <1>5, <1>6 DEF NodesExclusive
<1>11. NodesAccounted'
  BY <1>2, <1>5, <1>6 DEF NodesAccounted
<1> QED
  BY <1>2, <1>4, <1>5, <1>9, <1>10, <1>11

\* put: the node of thread t becomes the last of the queue.
LEMMA PutNode ==
    ASSUME StructInv, NEW t \in Threads, cid[t] # Null,
           list' = Put(list, cid[t]), fifo' = Append(fifo, cid[t]), freed' = freed,
           CidBecomes(t, Null)
    PROVE  StructInv'
<1> USE DEF StructInv, CidBecomes
<1> DEFINE n == cid[t]
           cut == [list.next EXCEPT ![n] = Null]
           to == IF fifo = <<>> THEN cut ELSE [cut EXCEPT ![list.tail] = n]
<1>1. list.next \in Pointers /\ list.head \in Nodes \cup {Null}
      /\ list.tail \in Nodes \cup {Null} /\ list.free_list_head \in Nodes \cup {Null}
  BY DEF ChunkRegionList, Pointers
<1>2. /\ cid' \in [Threads -> Nodes \cup {Null}] /\ n \in Nodes /\ n \in Held
      /\ Held' = Held \ {n}
      /\ \A u, v \in Threads : cid'[u] = cid'[v] /\ cid'[u] # Null => u = v
  BY HeldDrop, Zenon DEF NodesExclusive
<1>3. n \notin InFreed /\ n \notin InFifo /\ Distinct(fifo)
  BY <1>2 DEF NodesExclusive
<1>4. /\ list.tail = IF fifo = <<>> THEN Null ELSE fifo[Len(fifo)]
      /\ list.head = Null <=> fifo = <<>>
      /\ list.tail = Null <=> fifo = <<>>
  BY <1>1, LinkedEmpty, NullNotNode DEF ListsLinked
<1>5. /\ list'.next = to /\ list'.tail = n /\ list'.free_list_head = list.free_list_head
      /\ list'.head = IF fifo = <<>> THEN n ELSE list.head
  BY <1>1, <1>4, Zenon DEF Put, ChunkRegionList
<1>6. to \in Pointers
  BY <1>1, <1>2, Zenon DEF Pointers
<1>7. list' \in ChunkRegionList
  BY <1>1, <1>2, <1>5, <1>6, Zenon DEF Put, ChunkRegionList, Pointers
<1>8. /\ fifo' \in Seq(Nodes) /\ Distinct(fifo') /\ InFifo' = InFifo \cup {n}
  BY <1>2, <1>3, AppendNodes DEF InFifo
<1>9. InFreed' = InFreed
  BY DEF InFreed
<1>10. Linked(freed, list.free_list_head, to)
  <2>1. Linked(freed, list.free_list_head, list.next) /\ n \notin NodesIn(freed)
    BY <1>3 DEF ListsLinked, InFreed
  <2>2. Linked(freed, list.free_list_head, cut) /\ cut \in Pointers
    BY <1>1, <1>2, <2>1, LinkedFrame, Zenon DEF Pointers
  <2>3. ASSUME fifo # <<>>
        PROVE  list.tail \in Nodes /\ list.tail \notin NodesIn(freed)
    <3>1. list.tail \in InFifo
      BY <1>4, <2>3 DEF InFifo, NodesIn
    <3> QED
      BY <1>1, <1>4, <2>3, <3>1 DEF NodesExclusive, InFreed
  <2>4. CASE fifo # <<>>
    <3>1. Linked(freed, list.free_list_head, [cut EXCEPT ![list.tail] = n])
      BY <2>2, <2>3, <2>4, LinkedFrame, Zenon
    <3> QED
      BY <2>4, <3>1
  <2> QED
    BY <2>2, <2>4
<1>11. Linked(fifo', list'.head, to)
  <2>1. CASE fifo = <<>>
    <3>1. Len(fifo') = 1 /\ fifo'[1] = n /\ fifo' # <<>> /\ to[n] = Null
      BY <1>1, <1>2, <2>1 DEF Pointers
    <3> HIDE DEF to
    <3> QED
      BY <1>5, <2>1, <3>1 DEF Linked
  <2>2. CASE fifo # <<>>
    <3>1. Linked(fifo, list.head, list.next) /\ n \notin NodesIn(fifo)
      BY <1>3 DEF ListsLinked, InFifo
    <3>2. Linked(Append(fifo, n), list.head, [cut EXCEPT ![fifo[Len(fifo)]] = n])
      BY <1>1, <1>2, <1>3, <2>2, <3>1, LinkedAppend
    <3> QED
      BY <1>4, <1>5, <2>2, <3>2
  <2> QED
    BY <2>1, <2>2
<1>12. fifo' # <<>> /\ fifo'[Len(fifo')] = n
  BY <1>2
<1>13. ListsLinked'
  BY <1>5, <1>10, <1>11, <1>12 DEF ListsLinked
<1>14. NodesExclusive'
  BY <1>2, <1>3, <1>8, <1>9 DEF NodesExclusive
<1>15. NodesAccounted'
  BY <1>2, <1>8, <1>9 DEF NodesAccounted
<1> QED
  BY <1>2, <1>7, <1>8, <1>13, <1>14, <1>15

\* pop: the first node of the queue goes to thread t.
LEMMA PopNode ==
    ASSUME StructInv, NEW t \in Threads, cid[t] = Null, list.head # Null,
           list' = Pop(list), fifo' = Tail(fifo), freed' = freed,
           CidBecomes(t, list.head)
    PROVE  StructInv'
<1> USE DEF StructInv, CidBecomes
<1> DEFINE n == list.head
<1>1. list.next \in Pointers /\ list.head \in Nodes \cup {Null}
      /\ list.tail \in Nodes \cup {Null} /\ list.free_list_head \in Nodes \cup {Null}
  BY DEF ChunkRegionList, Pointers
<1>2. fifo # <<>> /\ n = fifo[1] /\ n \in Nodes /\ Linked(Tail(fifo), list.next[n], list.next)
  BY <1>1, LinkedEmpty, LinkedTail DEF ListsLinked
<1>3. /\ Tail(fifo) \in Seq(Nodes) /\ Distinct(Tail(fifo))
      /\ InFifo' = InFifo \ {n} /\ n \in InFifo
  BY <1>2, TailNodes DEF NodesExclusive, InFifo
<1>4. /\ list'.free_list_head = list.free_list_head /\ list'.next = list.next
      /\ list'.head = list.next[n]
      /\ list'.tail = IF list.next[n] = Null THEN Null ELSE list.tail
      /\ list' \in ChunkRegionList
  BY <1>1, <1>2, Zenon DEF Pop, ChunkRegionList, Pointers
<1>5. list.next[n] = Null <=> Tail(fifo) = <<>>
  BY <1>1, <1>2, <1>3, LinkedEmpty, Zenon
<1>6. Tail(fifo) # <<>> => Tail(fifo)[Len(Tail(fifo))] = fifo[Len(fifo)]
  BY <1>2
<1>7. list.tail = fifo[Len(fifo)]
  BY <1>2 DEF ListsLinked
<1>8. n \notin Held /\ n \notin InFreed
  BY <1>3 DEF NodesExclusive
<1>9. /\ cid' \in [Threads -> Nodes \cup {Null}] /\ Held' = Held \cup {n}
      /\ \A u, v \in Threads : cid'[u] = cid'[v] /\ cid'[u] # Null => u = v
  BY <1>2, <1>8, HeldTake, Zenon DEF NodesExclusive
<1>10. InFreed' = InFreed
  BY DEF InFreed
<1>11. ListsLinked'
  BY <1>2, <1>4, <1>5, <1>6, <1>7 DEF ListsLinked
<1>12. NodesExclusive'
  BY <1>3, <1>8, <1>9, <1>10 DEF NodesExclusive
<1>13. NodesAccounted'
  BY <1>3, <1>9, <1>10 DEF NodesAccounted
<1> QED
  BY <1>3, <1>4, <1>9, <1>11, <1>12, <1>13

\* The failure path of try_allocate puts the node back where it was.
LEMMA UndoAllocate ==
    ASSUME list \in ChunkRegionList, list.free_list_head # Null
    PROVE  DeallocateNode(AllocateNode(list), list.free_list_head) = list
<1>1. list.free_list_head \in Nodes /\ list.next \in [Nodes -> Nodes \cup {Null}]
  BY DEF ChunkRegionList
<1> QED
  BY <1>1, Zenon DEF ChunkRegionList, AllocateNode, DeallocateNode

-----------------------------------------------------------------------------
(***************************************************************************)
(* The inductive invariant.  ListsLinked and NodesExclusive are inductive  *)
(* only together with the typing and with the fact that a thread's chunk   *)
(* id is set exactly while its control is between taking and giving.       *)
(***************************************************************************)

\* A producer that is sending has not sent all its messages.
SendsBounded ==
    \A p \in Producers :
        pc[p] \in {"allocating", "filling", "filled"} => sent[p] < MsgsPerProducer

IInv ==
    /\ ControlTypeOK
    /\ ListsLinked /\ NodesExclusive /\ NodesAccounted
    /\ HoldsChunk
    /\ SendsBounded

\* The inductive invariant contains what the list operations rely on.
LEMMA IInvStruct == IInv => StructInv
BY DEF IInv, StructInv, ControlTypeOK

\* init() builds the free list over all nodes and an empty queue.
LEMMA InitIInv == Init => IInv
<1> SUFFICES ASSUME Init PROVE IInv
  OBVIOUS
<1> USE CapacityAssumption
<1>1. InitList \in ChunkRegionList
  BY DEF InitList, ChunkRegionList, Nodes, Null
<1>2. freed \in Seq(Nodes) /\ Len(freed) = Capacity /\ fifo \in Seq(Nodes)
      /\ \A i \in 1 .. Capacity : freed[i] = i - 1
  BY DEF Init, Nodes
<1>3. ControlTypeOK
  BY <1>1, <1>2, QueueAssumption DEF Init, ControlTypeOK, PcValues, Threads
<1>4. ListsLinked
  <2>1. freed # <<>> /\ freed[1] = 0
    BY <1>2
  <2>2. ASSUME NEW i \in 1 .. Len(freed)
        PROVE  list.next[freed[i]] = IF i < Len(freed) THEN freed[i + 1] ELSE Null
    BY <1>2 DEF Init, InitList, Nodes
  <2>3. Linked(freed, list.free_list_head, list.next)
    BY <2>1, <2>2, Zenon DEF Linked, Init, InitList
  <2>4. Linked(fifo, list.head, list.next) /\ fifo = <<>> /\ list.tail = Null
    BY DEF Linked, Init, InitList
  <2> QED
    BY <2>3, <2>4 DEF ListsLinked
<1>5. Held = {} /\ InFifo = {}
  BY DEF Init, Held, InFifo, NodesIn
<1>6. NodesExclusive
  <2>1. Distinct(freed) /\ Distinct(fifo)
    BY <1>2 DEF Distinct, Init
  <2> QED
    BY <1>5, <2>1 DEF NodesExclusive, Init
<1>7. NodesAccounted
  <2>1. InFreed \subseteq Nodes
    BY <1>2 DEF InFreed, NodesIn
  <2>2. ASSUME NEW n \in Nodes
        PROVE  n \in InFreed
    <3>1. n + 1 \in 1 .. Len(freed) /\ freed[n + 1] = n
      BY <1>2 DEF Nodes
    <3> QED
      BY <3>1 DEF InFreed, NodesIn
  <2> QED
    BY <1>5, <2>1, <2>2 DEF NodesAccounted
<1>8. HoldsChunk /\ SendsBounded
  BY DEF HoldsChunk, SendsBounded, Init, Threads
<1> QED
  BY <1>3, <1>4, <1>6, <1>7, <1>8 DEF IInv

\* The parts of IInv that the list operations do not touch.
ControlInv == ControlTypeOK /\ HoldsChunk /\ SendsBounded

\* A step that leaves the lists and the chunk ids alone.
LEMMA StructFrame ==
    ASSUME StructInv, UNCHANGED <<list, freed, fifo, cid>>
    PROVE  StructInv'
BY DEF StructInv, ListsLinked, NodesExclusive, NodesAccounted, InFreed, InFifo, Held

\* Every step of a producer preserves the inductive invariant.
LEMMA ProducerStepIInv ==
    ASSUME IInv, NEW p \in Producers, ProducerStep(p)
    PROVE  IInv'
<1> USE DEF At, Goto, region, memory, clients
<1>0. StructInv /\ p \in Threads /\ ControlInv
  BY IInvStruct DEF Threads, IInv, ControlInv
<1>t. \A q \in Producers : q \in Threads
  BY DEF Threads
<1>1. ASSUME NEW size \in Sizes, NEW block \in Blocking, StartSend(p, size, block)
      PROVE  IInv'
  <2>1. StructInv'
    BY <1>0, <1>1, StructFrame DEF StartSend
  <2>2. ControlInv'
    BY <1>0, <1>1, <1>t, <2>1 DEF StartSend, ControlInv, ControlTypeOK, StructInv,
       HoldsChunk, SendsBounded, PcValues
  <2> QED
    BY <2>1, <2>2 DEF IInv, StructInv, ControlInv
<1>2. ASSUME AllocateOk(p)
      PROVE  IInv'
  <2>1. StructInv'
    <3>1. cid[p] = Null
      BY <1>0, <1>2 DEF AllocateOk, ControlInv, HoldsChunk
    <3>2. /\ list.free_list_head # Null /\ list' = AllocateNode(list)
          /\ freed' = Tail(freed) /\ fifo' = fifo
          /\ CidBecomes(p, list.free_list_head)
      BY <1>2 DEF AllocateOk, CidBecomes
    <3> QED
      BY <1>0, <3>1, <3>2, TakeNode
  <2>2. list.free_list_head # Null
    BY <1>2, SMTT(30) DEF AllocateOk
  <2>3. ControlInv'
    BY <1>0, <1>2, <1>t, <2>1, <2>2 DEF AllocateOk, ControlInv, ControlTypeOK, StructInv,
       HoldsChunk, SendsBounded, PcValues
  <2> QED
    BY <2>1, <2>3 DEF IInv, StructInv, ControlInv
<1>3. ASSUME AllocateNoNode(p) \/ AllocateNoMemory(p)
      PROVE  IInv'
  <2>1. UNCHANGED <<list, freed, fifo, cid, sent, mutex, active_preducer_count, main>>
    BY <1>0, <1>3, UndoAllocate DEF AllocateNoNode, AllocateNoMemory, StructInv
  <2>2. StructInv'
    BY <1>0, <2>1, StructFrame
  <2>3. pc[p] = "allocating" /\ pc' \in {[pc EXCEPT ![p] = "allocating"], [pc EXCEPT ![p] = "idle"]}
    BY <1>3 DEF AllocateNoNode, AllocateNoMemory, AfterFailure
  <2>4. ControlInv'
    BY <1>0, <1>t, <2>1, <2>2, <2>3 DEF ControlInv, ControlTypeOK, StructInv, HoldsChunk,
       SendsBounded, PcValues
  <2> QED
    BY <2>2, <2>4 DEF IInv, StructInv, ControlInv
<1>4. ASSUME Fill(p)
      PROVE  IInv'
  <2>1. StructInv'
    BY <1>0, <1>4, StructFrame, SMTT(30) DEF Fill
  <2>2. ControlInv'
    BY <1>0, <1>4, <1>t, <2>1 DEF Fill, ControlInv, ControlTypeOK, StructInv,
       HoldsChunk, SendsBounded, PcValues
  <2> QED
    BY <2>1, <2>2 DEF IInv, StructInv, ControlInv
<1>5. ASSUME Enqueue(p)
      PROVE  IInv'
  <2>1. StructInv'
    <3>1. cid[p] # Null
      BY <1>0, <1>5 DEF Enqueue, ControlInv, HoldsChunk
    <3>2. /\ list' = Put(list, cid[p]) /\ fifo' = Append(fifo, cid[p]) /\ freed' = freed
          /\ CidBecomes(p, Null)
      BY <1>5 DEF Enqueue, CidBecomes
    <3> QED
      BY <1>0, <3>1, <3>2, PutNode
  <2>2. sent' \in [Producers -> 0 .. MsgsPerProducer]
    BY <1>0, <1>5, QueueAssumption DEF Enqueue, ControlInv, ControlTypeOK, SendsBounded
  <2>3. ControlInv'
    BY <1>0, <1>5, <1>t, <2>1, <2>2 DEF Enqueue, ControlInv, ControlTypeOK, StructInv,
       HoldsChunk, SendsBounded, PcValues
  <2> QED
    BY <2>1, <2>3 DEF IInv, StructInv, ControlInv
<1>6. ASSUME Cancel(p)
      PROVE  IInv'
  <2>1. StructInv'
    <3>1. cid[p] # Null
      BY <1>0, <1>6 DEF Cancel, ControlInv, HoldsChunk
    <3>2. /\ list' = DeallocateNode(list, cid[p]) /\ freed' = <<cid[p]>> \o freed
          /\ fifo' = fifo /\ CidBecomes(p, Null)
      BY <1>6, SMTT(30) DEF Cancel, ReleaseChunk, CidBecomes
    <3> QED
      BY <1>0, <3>1, <3>2, GiveNode
  <2>2. ControlInv'
    BY <1>0, <1>6, <1>t, <2>1 DEF Cancel, ReleaseChunk, ControlInv, ControlTypeOK, StructInv,
       HoldsChunk, SendsBounded, PcValues
  <2> QED
    BY <2>1, <2>2 DEF IInv, StructInv, ControlInv
<1>7. ASSUME SignalPreducingComplete(p)
      PROVE  IInv'
  <2>1. StructInv'
    BY <1>0, <1>7, StructFrame DEF SignalPreducingComplete
  <2>2. ControlInv'
    BY <1>0, <1>7, <1>t, <2>1 DEF SignalPreducingComplete, ControlInv, ControlTypeOK, StructInv,
       HoldsChunk, SendsBounded, PcValues
  <2> QED
    BY <2>1, <2>2 DEF IInv, StructInv, ControlInv
<1> QED
  BY <1>1, <1>2, <1>3, <1>4, <1>5, <1>6, <1>7 DEF ProducerStep

\* Every step of a consumer preserves the inductive invariant.
LEMMA ConsumerStepIInv ==
    ASSUME IInv, NEW c \in Consumers, ConsumerStep(c)
    PROVE  IInv'
<1> USE DEF At, Goto, region, memory, clients
<1>0. StructInv /\ c \in Threads /\ c \notin Producers /\ ControlInv
  BY IInvStruct, QueueAssumption DEF Threads, IInv, ControlInv
<1>t. \A q \in Producers : q \in Threads /\ q # c
  BY <1>0 DEF Threads
<1>1. ASSUME \/ \E timed \in Timed : StartDequeue(c, timed)
             \/ DequeueTimeout(c) \/ DequeueClosed(c) \/ DequeueSleep(c) \/ DequeueWake(c)
      PROVE  IInv'
  <2>1. /\ UNCHANGED <<list, freed, fifo, cid, sent, active_preducer_count, main>>
        /\ mutex' \in {mutex, c, Nobody}
        /\ pc[c] \in {"idle", "polling", "sleeping"}
        /\ \E l \in {"idle", "polling", "sleeping", "closed"} : pc' = [pc EXCEPT ![c] = l]
    BY <1>1 DEF StartDequeue, DequeueTimeout, DequeueClosed, DequeueSleep, DequeueWake
  <2>2. StructInv'
    BY <1>0, <2>1, StructFrame, SMTT(30)
  <2>3. ControlInv'
    BY <1>0, <1>t, <2>1, <2>2 DEF ControlInv, ControlTypeOK, StructInv, HoldsChunk,
       SendsBounded, PcValues
  <2> QED
    BY <2>2, <2>3 DEF IInv, StructInv, ControlInv
<1>2. ASSUME DequeueOk(c)
      PROVE  IInv'
  <2>1. StructInv'
    <3>1. cid[c] = Null
      BY <1>0, <1>2 DEF DequeueOk, ControlInv, HoldsChunk
    <3>2. /\ list.head # Null /\ list' = Pop(list) /\ fifo' = Tail(fifo) /\ freed' = freed
          /\ CidBecomes(c, list.head)
      BY <1>2, SMTT(30) DEF DequeueOk, CidBecomes
    <3> QED
      BY <1>0, <3>1, <3>2, PopNode
  <2>2. ControlInv'
    BY <1>0, <1>2, <1>t, <2>1 DEF DequeueOk, ControlInv, ControlTypeOK, StructInv,
       HoldsChunk, SendsBounded, PcValues
  <2> QED
    BY <2>1, <2>2 DEF IInv, StructInv, ControlInv
<1>3. ASSUME Release(c)
      PROVE  IInv'
  <2>1. StructInv'
    <3>1. cid[c] # Null
      BY <1>0, <1>3 DEF Release, ControlInv, HoldsChunk
    <3>2. /\ list' = DeallocateNode(list, cid[c]) /\ freed' = <<cid[c]>> \o freed
          /\ fifo' = fifo /\ CidBecomes(c, Null)
      BY <1>3 DEF Release, ReleaseChunk, CidBecomes
    <3> QED
      BY <1>0, <3>1, <3>2, GiveNode
  <2>2. ControlInv'
    BY <1>0, <1>3, <1>t, <2>1, ZenonT(40) DEF Release, ReleaseChunk, ControlInv, ControlTypeOK, StructInv,
       HoldsChunk, SendsBounded, PcValues
  <2> QED
    BY <2>1, <2>2 DEF IInv, StructInv, ControlInv
<1> QED
  BY <1>1, <1>2, <1>3 DEF ConsumerStep

\* Steps of main, and the death of a process, leave every list as it is.
LEMMA OtherStepIInv ==
    ASSUME IInv,
           \/ \E count \in PreducerCounts : SetPreducerCount(count)
           \/ Close
           \/ \E t \in Threads : Crash(t)
    PROVE  IInv'
<1> USE DEF At, Goto, region, memory, clients
<1>0. StructInv /\ ControlInv /\ \A q \in Producers : q \in Threads
  BY IInvStruct DEF IInv, ControlInv, Threads
<1>1. StructInv'
  BY <1>0, StructFrame DEF SetPreducerCount, Close, Crash
<1>2. ASSUME NEW count \in PreducerCounts, SetPreducerCount(count)
      PROVE  ControlInv'
  BY <1>0, <1>1, <1>2, QueueAssumption, SMTT(30) DEF SetPreducerCount, ControlInv, ControlTypeOK,
     StructInv, HoldsChunk, SendsBounded
<1>3. ASSUME Close
      PROVE  ControlInv'
  BY <1>0, <1>1, <1>3, SMTT(30) DEF Close, ControlInv, ControlTypeOK, StructInv, HoldsChunk, SendsBounded
<1>4. ASSUME NEW t \in Threads, Crash(t)
      PROVE  ControlInv'
  BY <1>0, <1>1, <1>4 DEF Crash, ControlInv, ControlTypeOK, StructInv, HoldsChunk,
     SendsBounded, PcValues
<1> QED
  BY <1>1, <1>2, <1>3, <1>4 DEF IInv, StructInv, ControlInv

\* The invariant holds for ever: [Next]_vars preserves it.
LEMMA NextIInv == IInv /\ [Next]_vars => IInv'
<1> SUFFICES ASSUME IInv, [Next]_vars PROVE IInv'
  OBVIOUS
<1>1. CASE Next
  BY <1>1, ProducerStepIInv, ConsumerStepIInv, OtherStepIInv DEF Next
<1>2. CASE UNCHANGED vars
  <2>1. ControlTypeOK' /\ SendsBounded'
    BY <1>2 DEF vars, IInv, ControlTypeOK, SendsBounded
  <2>2. ListsLinked' /\ HoldsChunk'
    BY <1>2, SMTT(30) DEF vars, IInv, ListsLinked, HoldsChunk
  <2>3. NodesExclusive' /\ NodesAccounted'
    BY <1>2 DEF vars, IInv, NodesExclusive, NodesAccounted, InFreed, InFifo, Held
  <2> QED
    BY <2>1, <2>2, <2>3 DEF IInv
<1> QED
  BY <1>1, <1>2

\* Every reachable state satisfies the inductive invariant.
LEMMA SpecIInv == Spec => []IInv
BY InitIInv, NextIInv, PTL DEF Spec

\* The control variables and the list region of the queue keep their types.
THEOREM TypeCorrect == Spec => []ControlTypeOK
<1>1. IInv => ControlTypeOK
  BY DEF IInv
<1> QED
  BY SpecIInv, <1>1, PTL

\* ShmMsgChunkList's pointers always spell out the free list and the queue,
\* whatever producers, consumers and crashes do.
THEOREM ListsAlwaysLinked == Spec => []ListsLinked
<1>1. IInv => ListsLinked
  BY DEF IInv
<1> QED
  BY SpecIInv, <1>1, PTL

\* A chunk is never in two hands: a producer that fills a chunk and a consumer
\* that reads one, both outside the mutex, never work on the same one, and
\* neither is on the free list or in the queue meanwhile.
THEOREM ChunksExclusive == Spec => []NodesExclusive
<1>1. IInv => NodesExclusive
  BY DEF IInv
<1> QED
  BY SpecIInv, <1>1, PTL

\* No chunk is ever lost, on no path of allocate, enqueue, dequeue or release_chunk.
THEOREM ChunksAccounted == Spec => []NodesAccounted
<1>1. IInv => NodesAccounted
  BY DEF IInv
<1> QED
  BY SpecIInv, <1>1, PTL

\* The chunk lists of the queue are sound, for any capacity, threads and crashes.
THEOREM ListsAlwaysSound == Spec => []ListsSound
<1>1. IInv => ListsSound
  BY DEF IInv, ListsSound
<1> QED
  BY SpecIInv, <1>1, PTL

-----------------------------------------------------------------------------
(***************************************************************************)
(* The end of the queue.  The counter that dequeue compares with 0 is      *)
(* right when main announces as many ends as will be signalled: one for    *)
(* each producer, and one for its own close().  A producer that dies       *)
(* before it signals then keeps the queue open for ever.                   *)
(***************************************************************************)
CountsAgree ==
    /\ IsFiniteSet(Producers)
    /\ PreducerCounts = {Cardinality(Producers) + (IF MayClose THEN 1 ELSE 0)}

Active == {p \in Producers : pc[p] # "done"}

\* The counter is the number of ends still to come.
CountInv ==
    /\ main = "init" => \A t \in Threads : pc[t] = "idle"
    /\ main # "init" => active_preducer_count =
            Cardinality(Active) + (IF MayClose /\ main # "closed" THEN 1 ELSE 0)
    /\ ClosedMeansDrained

\* A step that moves no thread to or from "done" or "closed", and that leaves the
\* counter and the queue alone, preserves CountInv.
LEMMA CountFrame ==
    ASSUME IInv, CountInv, main # "init", main' = main,
           active_preducer_count' = active_preducer_count, fifo' = fifo,
           NEW t \in Threads, NEW l, pc' = [pc EXCEPT ![t] = l],
           l \notin {"done", "closed"}, pc[t] \notin {"done", "closed"}
    PROVE  CountInv'
<1>1. \A u \in Threads : /\ pc'[u] = "done" <=> pc[u] = "done"
                         /\ pc'[u] = "closed" <=> pc[u] = "closed"
  BY DEF IInv, ControlTypeOK
<1>2. Active' = Active
  BY <1>1 DEF Active, Threads
<1>3. ClosedMeansDrained'
  BY <1>1 DEF CountInv, ClosedMeansDrained, Threads
<1> QED
  BY <1>2, <1>3 DEF CountInv

\* The steps that CountFrame does not cover, and the theorem's induction step.
LEMMA NextCountInv ==
    ASSUME CountsAgree, IInv, CountInv, [Next]_vars
    PROVE  CountInv'
<1> USE DEF At, Goto, region, memory, clients
<1>0. /\ \A p \in Producers : p \in Threads
      /\ \A c \in Consumers : c \in Threads /\ c \notin Producers
      /\ IsFiniteSet(Active) /\ Cardinality(Active) \in Nat
      /\ pc \in [Threads -> PcValues] /\ MayClose \in BOOLEAN
      /\ Cardinality(Producers) \in Nat
  BY QueueAssumption, FS_Subset, FS_CardinalityType
     DEF Threads, CountsAgree, Active, IInv, ControlTypeOK
<1>1. ASSUME NEW count \in PreducerCounts, SetPreducerCount(count)
      PROVE  CountInv'
  <2>1. Active' = Producers
    BY <1>0, <1>1 DEF SetPreducerCount, CountInv, Active
  <2> QED
    BY <1>0, <1>1, <2>1 DEF SetPreducerCount, CountInv, CountsAgree, ClosedMeansDrained
<1>2. ASSUME Close
      PROVE  CountInv'
  BY <1>0, <1>2 DEF Close, CountInv, ClosedMeansDrained, Active
<1>3. ASSUME NEW p \in Producers, SignalPreducingComplete(p)
      PROVE  CountInv'
  <2>1. Active' = Active \ {p} /\ p \in Active
    BY <1>0, <1>3 DEF SignalPreducingComplete, Active
  <2>2. Cardinality(Active') = Cardinality(Active) - 1
    BY <1>0, <2>1, FS_RemoveElement, ZenonT(40)
  <2>3. ClosedMeansDrained'
    BY <1>0, <1>3 DEF SignalPreducingComplete, CountInv, ClosedMeansDrained
  <2> QED
    BY <1>0, <1>3, <2>2, <2>3, SMTT(30) DEF SignalPreducingComplete, CountInv
<1>4. ASSUME NEW p \in Producers, Enqueue(p)
      PROVE  CountInv'
  <2>1. Active' = Active
    BY <1>0, <1>4 DEF Enqueue, Active
  <2>2. ClosedMeansDrained'
    BY <1>0, <1>4 DEF Enqueue, CountInv, ClosedMeansDrained
  <2> QED
    BY <1>4, <2>1, <2>2 DEF Enqueue, CountInv
<1>5. ASSUME NEW c \in Consumers, DequeueOk(c)
      PROVE  CountInv'
  <2>1. Active' = Active
    BY <1>0, <1>5 DEF DequeueOk, Active
  <2>2. fifo # <<>>
    BY <1>5 DEF DequeueOk, IInv, ListsLinked, Linked
  <2>3. ClosedMeansDrained'
    BY <1>0, <1>5, <2>2 DEF DequeueOk, CountInv, ClosedMeansDrained
  <2> QED
    BY <1>5, <2>1, <2>3 DEF DequeueOk, CountInv
<1>6. ASSUME NEW c \in Consumers, DequeueClosed(c)
      PROVE  CountInv'
  <2>1. Active' = Active
    BY <1>0, <1>6 DEF DequeueClosed, Active
  <2>2. fifo = <<>>
    <3>1. fifo \in Seq(Nodes) /\ list.next \in Pointers /\ Linked(fifo, list.head, list.next)
      BY DEF IInv, ControlTypeOK, ChunkRegionList, Pointers, ListsLinked
    <3> QED
      BY <1>6, <3>1, LinkedEmpty DEF DequeueClosed
  <2>3. Active = {}
    BY <1>0, <1>6, FS_EmptySet DEF DequeueClosed, CountInv
  <2>4. ClosedMeansDrained'
    BY <1>0, <1>6, <2>2, <2>3 DEF DequeueClosed, ClosedMeansDrained, Active
  <2> QED
    BY <1>6, <2>1, <2>4 DEF DequeueClosed, CountInv
<1>7. ASSUME NEW p \in Producers,
             \/ \E size \in Sizes, block \in Blocking : StartSend(p, size, block)
             \/ AllocateOk(p) \/ AllocateNoNode(p) \/ AllocateNoMemory(p)
             \/ Fill(p) \/ Cancel(p)
      PROVE  CountInv'
  <2>1. /\ main # "init" /\ main' = main /\ fifo' = fifo
        /\ active_preducer_count' = active_preducer_count
        /\ pc[p] \in {"idle", "allocating", "filling"}
        /\ \E l \in {"idle", "allocating", "filling", "filled"} : pc' = [pc EXCEPT ![p] = l]
    BY <1>7, Zenon DEF StartSend, AllocateOk, AllocateNoNode, AllocateNoMemory, AfterFailure,
       Fill, Cancel, ReleaseChunk
  <2> QED
    BY <1>0, <2>1, CountFrame, Zenon
<1>8. ASSUME NEW c \in Consumers,
             \/ \E timed \in Timed : StartDequeue(c, timed)
             \/ DequeueTimeout(c) \/ DequeueSleep(c) \/ DequeueWake(c) \/ Release(c)
      PROVE  CountInv'
  <2>1. /\ main # "init" /\ main' = main /\ fifo' = fifo
        /\ active_preducer_count' = active_preducer_count
        /\ pc[c] \in {"idle", "polling", "sleeping", "reading"}
        /\ \E l \in {"idle", "polling", "sleeping"} : pc' = [pc EXCEPT ![c] = l]
    BY <1>8, Zenon DEF StartDequeue, DequeueTimeout, DequeueSleep, DequeueWake, Release, ReleaseChunk
  <2> QED
    BY <1>0, <2>1, CountFrame, Zenon
<1>9. ASSUME NEW t \in Threads, Crash(t)
      PROVE  CountInv'
  <2>1. /\ main # "init" /\ main' = main /\ fifo' = fifo
        /\ active_preducer_count' = active_preducer_count
        /\ pc[t] \notin {"done", "closed"} /\ pc' = [pc EXCEPT ![t] = "crashed"]
    BY <1>9 DEF Crash
  <2> QED
    BY <1>0, <2>1, CountFrame, Zenon
<1>10. ASSUME UNCHANGED vars
       PROVE  CountInv'
  BY <1>10 DEF vars, CountInv, ClosedMeansDrained, Active
<1> QED
  BY <1>1, <1>2, <1>3, <1>4, <1>5, <1>6, <1>7, <1>8, <1>9, <1>10
     DEF Next, ProducerStep, ConsumerStep

\* If main announces the right number of producers (set_preducer_count), then no
\* consumer is told "closed" while a message is in the queue or a producer may
\* still send one, for any number of producers, consumers and crashes.
THEOREM ClosedOnlyWhenDrained ==
    ASSUME CountsAgree
    PROVE  Spec => []ClosedMeansDrained
<1>1. Init => CountInv
  <2> SUFFICES ASSUME Init PROVE CountInv
    OBVIOUS
  <2>1. main = "init" /\ \A t \in Threads : pc[t] = "idle"
    BY DEF Init
  <2> QED
    BY <2>1 DEF CountInv, ClosedMeansDrained, Threads
<1>2. IInv /\ CountInv /\ [Next]_vars => CountInv'
  BY NextCountInv
<1>3. CountInv => ClosedMeansDrained
  BY DEF CountInv
<1> QED
  BY SpecIInv, <1>1, <1>2, <1>3, PTL DEF Spec
-----------------------------------------------------------------------------
\* A consumer that sleeps has the mutex.
SleepInv == (\A c \in Consumers : pc[c] = "sleeping" => mutex = c) /\ CloseEndsWaiting

\* A step that leaves main alone, moves a thread to neither "sleeping" nor "done", and
\* takes the mutex from no sleeper.
LEMMA SleepFrame ==
    ASSUME IInv, SleepInv, main' = main, NEW t \in Threads, NEW l, pc' = [pc EXCEPT ![t] = l],
           l \notin {"sleeping", "done"}, mutex' = mutex \/ mutex \in {Nobody, t}
    PROVE  SleepInv'
<1>1. \A u \in Threads : u # t => pc'[u] = pc[u]
  BY DEF IInv, ControlTypeOK
<1>2. pc'[t] = l /\ Producers \subseteq Threads /\ Consumers \subseteq Threads /\ Nobody \notin Threads
  BY QueueAssumption DEF IInv, ControlTypeOK, Threads
<1> QED
  BY <1>1, <1>2 DEF SleepInv, CloseEndsWaiting

\* Every step keeps the mutex with the consumer that sleeps; the last of close and
\* signal_preducing_complete needs the mutex, and so finds nobody asleep.
LEMMA NextSleepInv ==
    ASSUME CountsAgree, IInv, CountInv, SleepInv, [Next]_vars
    PROVE  SleepInv'
<1> USE DEF At, Goto, region, memory, clients
<1>0. /\ Producers \subseteq Threads /\ Consumers \subseteq Threads /\ Nobody \notin Threads
      /\ \A c \in Consumers : c \notin Producers /\ c # Nobody
      /\ pc \in [Threads -> PcValues]
  BY QueueAssumption DEF Threads, IInv, ControlTypeOK
<1>1. ASSUME NEW count \in PreducerCounts, SetPreducerCount(count)
      PROVE  SleepInv'
  BY <1>0, <1>1 DEF SetPreducerCount, SleepInv, CloseEndsWaiting
<1>2. ASSUME Close
      PROVE  SleepInv'
  BY <1>0, <1>2 DEF Close, SleepInv, CloseEndsWaiting
<1>3. ASSUME NEW p \in Producers, SignalPreducingComplete(p)
      PROVE  SleepInv'
  BY <1>0, <1>3 DEF SignalPreducingComplete, SleepInv, CloseEndsWaiting
<1>4. ASSUME NEW c \in Consumers, DequeueSleep(c)
      PROVE  SleepInv'
  <2>1. ~(main = "closed" /\ \A p \in Producers : pc[p] = "done")
    <3> SUFFICES ASSUME main = "closed", \A p \in Producers : pc[p] = "done" PROVE FALSE
      OBVIOUS
    <3>1. Active = {}
      BY DEF Active
    <3>2. active_preducer_count = 0
      BY <3>1, FS_EmptySet DEF CountInv
    <3> QED
      BY <1>4, <3>2 DEF DequeueSleep
  <2>2. /\ main' = main /\ mutex' = c /\ mutex = Nobody /\ pc'[c] = "sleeping"
        /\ \A u \in Threads : u # c => pc'[u] = pc[u]
    BY <1>0, <1>4 DEF DequeueSleep
  <2> QED
    BY <1>0, <2>1, <2>2 DEF SleepInv, CloseEndsWaiting
<1>5. ASSUME NEW p \in Producers,
             \/ \E size \in Sizes, block \in Blocking : StartSend(p, size, block)
             \/ AllocateOk(p) \/ AllocateNoNode(p) \/ AllocateNoMemory(p)
             \/ Fill(p) \/ Enqueue(p) \/ Cancel(p)
      PROVE  SleepInv'
  <2>1. /\ main' = main /\ mutex' = mutex
        /\ \E l \in {"idle", "allocating", "filling", "filled"} : pc' = [pc EXCEPT ![p] = l]
    BY <1>5, Zenon DEF StartSend, AllocateOk, AllocateNoNode, AllocateNoMemory, AfterFailure,
       Fill, Enqueue, Cancel, ReleaseChunk
  <2> QED
    BY <1>0, <2>1, SleepFrame, Zenon
<1>6. ASSUME NEW c \in Consumers,
             \/ \E timed \in Timed : StartDequeue(c, timed)
             \/ DequeueTimeout(c) \/ DequeueOk(c) \/ DequeueClosed(c) \/ DequeueWake(c) \/ Release(c)
      PROVE  SleepInv'
  <2>1. /\ main' = main /\ (mutex' = mutex \/ (mutex' = Nobody /\ pc[c] = "sleeping"))
        /\ \E l \in {"idle", "polling", "reading", "closed"} : pc' = [pc EXCEPT ![c] = l]
    BY <1>6, Zenon DEF StartDequeue, DequeueTimeout, DequeueOk, DequeueClosed, DequeueWake, Release,
       ReleaseChunk
  <2>2. mutex' = mutex \/ mutex = c
    BY <2>1 DEF SleepInv
  <2> QED
    BY <1>0, <2>1, <2>2, SleepFrame, Zenon
<1>7. ASSUME NEW t \in Threads, Crash(t)
      PROVE  SleepInv'
  <2>1. main' = main /\ pc' = [pc EXCEPT ![t] = "crashed"] /\ (mutex' = mutex \/ mutex = Nobody)
    BY <1>7 DEF Crash
  <2> QED
    BY <2>1, SleepFrame, ZenonT(40)
<1>8. ASSUME UNCHANGED vars
      PROVE  SleepInv'
  BY <1>8 DEF vars, SleepInv, CloseEndsWaiting
<1> QED
  BY <1>1, <1>2, <1>3, <1>4, <1>5, <1>6, <1>7, <1>8 DEF Next, ProducerStep, ConsumerStep

\* If main announces the right number of ends, then once it has closed the queue and
\* every producer has signalled, no consumer waits any more, although each of the
\* three reads or changes the counter in a critical section of its own.
THEOREM CloseAlwaysEndsWaiting ==
    ASSUME CountsAgree
    PROVE  Spec => []CloseEndsWaiting
<1>1. Init => CountInv /\ SleepInv
  <2> SUFFICES ASSUME Init PROVE CountInv /\ SleepInv
    OBVIOUS
  <2>1. main = "init" /\ \A t \in Threads : pc[t] = "idle"
    BY DEF Init
  <2> QED
    BY <2>1 DEF CountInv, ClosedMeansDrained, Threads, SleepInv, CloseEndsWaiting
<1>2. IInv /\ CountInv /\ SleepInv /\ [Next]_vars => CountInv' /\ SleepInv'
  BY NextCountInv, NextSleepInv
<1>3. SleepInv => CloseEndsWaiting
  BY DEF SleepInv
<1> QED
  BY SpecIInv, <1>1, <1>2, <1>3, PTL DEF Spec

-----------------------------------------------------------------------------
(***************************************************************************)
(* The memory of the chunks.  A live chunk has the block of a node of the  *)
(* buddy tree, no two live chunks have nodes of which one is below the     *)
(* other, and the tree says so.                                            *)
(***************************************************************************)

\* The node that release_chunk will find for chunk n.
BlockNode(n) == FindBlock(chunk[n].data, chunk[n].size)

LiveNodes == {BlockNode(n) : n \in Live}

\* The block of chunk n is that of a node on the level allocate looks on for its size.
ChunkPlaced(n) ==
    /\ BlockNode(n) \in BlockIdx
    /\ chunk[n].size \in Sizes
    /\ chunk[n].data = BlockAddr[BlockNode(n)]
    /\ chunk[n].size <= ComputeBlockSize[BlockNode(n)]
    /\ Level[BlockNode(n)] = ComputeLevel(RoundedUpToMinBlockSize(chunk[n].size))

BlocksOK ==
    /\ \A n \in Live : ChunkPlaced(n)
    /\ \A m, n \in Live : m # n => Apart(BlockNode(m), BlockNode(n))
    /\ TreeOK(LiveNodes, pool)

\* try_allocate: the first free node becomes live.
LEMMA LiveTake ==
    ASSUME IInv, NEW t \in Threads, cid[t] = Null, NEW n \in Nodes, n \in InFreed,
           CidBecomes(t, n), fifo' = fifo
    PROVE  n \notin Live /\ Live' = Live \cup {n} /\ InFifo' = InFifo
<1>1. n \notin Held /\ n \notin InFifo
  BY DEF IInv, NodesExclusive
<1>2. Held' = Held \cup {n}
  BY <1>1, HeldTake, ZenonT(40) DEF IInv, ControlTypeOK, NodesExclusive, CidBecomes
<1>3. InFifo' = InFifo
  BY DEF InFifo
<1> QED
  BY <1>1, <1>2, <1>3 DEF Live

\* release_chunk: the node of a thread is not live any more.
LEMMA LiveDrop ==
    ASSUME IInv, NEW t \in Threads, cid[t] # Null, CidBecomes(t, Null), fifo' = fifo
    PROVE  cid[t] \in Live /\ Live' = Live \ {cid[t]} /\ InFifo' = InFifo
<1>1. cid[t] \in Held /\ Held' = Held \ {cid[t]}
  BY HeldDrop, Zenon DEF IInv, ControlTypeOK, NodesExclusive, CidBecomes
<1>2. InFifo' = InFifo
  BY SMTT(30) DEF InFifo
<1>3. cid[t] \notin InFifo
  BY <1>1 DEF IInv, NodesExclusive
<1> QED
  BY <1>1, <1>2, <1>3 DEF Live

\* enqueue: a live node goes from a thread to the queue.
LEMMA LiveEnqueue ==
    ASSUME IInv, NEW t \in Threads, cid[t] # Null, CidBecomes(t, Null),
           fifo' = Append(fifo, cid[t])
    PROVE  cid[t] \in Live /\ Live' = Live /\ InFifo' = InFifo \cup {cid[t]}
<1>1. cid[t] \in Held /\ Held' = Held \ {cid[t]} /\ cid[t] \in Nodes
  BY HeldDrop, ZenonT(40) DEF IInv, ControlTypeOK, NodesExclusive, CidBecomes
<1>2. cid[t] \notin InFifo /\ Distinct(fifo) /\ fifo \in Seq(Nodes)
  BY <1>1 DEF IInv, NodesExclusive, ControlTypeOK
<1>3. InFifo' = InFifo \cup {cid[t]}
  BY <1>1, <1>2, AppendNodes DEF InFifo
<1> QED
  BY <1>1, <1>2, <1>3 DEF Live

\* dequeue: the first node of the queue goes to a thread.
LEMMA LiveDequeue ==
    ASSUME IInv, NEW t \in Threads, cid[t] = Null, list.head # Null,
           CidBecomes(t, list.head), fifo' = Tail(fifo)
    PROVE  /\ fifo # <<>> /\ list.head = fifo[1] /\ list.head \in InFifo
           /\ Live' = Live /\ InFifo' = InFifo \ {list.head}
<1>1. fifo \in Seq(Nodes) /\ list.next \in Pointers /\ Linked(fifo, list.head, list.next)
      /\ list.head \in Nodes \cup {Null}
  BY SMTT(30) DEF IInv, ControlTypeOK, ChunkRegionList, Pointers, ListsLinked
<1>2. fifo # <<>> /\ list.head = fifo[1] /\ list.head \in Nodes
  BY <1>1, LinkedEmpty, LinkedTail, SMTT(30)
<1>3. InFifo' = InFifo \ {list.head} /\ list.head \in InFifo
  BY <1>1, <1>2, TailNodes DEF IInv, NodesExclusive, InFifo
<1>4. list.head \notin Held
  BY <1>3 DEF IInv, NodesExclusive
<1>5. Held' = Held \cup {list.head}
  BY <1>2, <1>4, HeldTake, Zenon DEF IInv, ControlTypeOK, NodesExclusive, CidBecomes
<1> QED
  BY <1>2, <1>3, <1>4, <1>5 DEF Live

\* A step that leaves the live chunks and the tree alone.
LEMMA BlocksFrame ==
    ASSUME BlocksOK, Live' = Live, chunk' = chunk, pool' = pool
    PROVE  BlocksOK'
<1>1. \A n : BlockNode(n)' = BlockNode(n)
  BY DEF BlockNode
<1>2. LiveNodes' = LiveNodes
  BY <1>1, SMTT(30) DEF LiveNodes
<1>3. \A n \in Live : ChunkPlaced(n)'
  BY <1>1 DEF BlocksOK, ChunkPlaced
<1> QED
  BY <1>1, <1>2, <1>3 DEF BlocksOK

\* The nodes of live chunks are nodes of the tree, none below another.
LEMMA LiveNodesApart ==
    ASSUME BlocksOK
    PROVE  Antichain(LiveNodes)
<1>1. LiveNodes \subseteq BlockIdx
  BY DEF LiveNodes, BlocksOK, ChunkPlaced
<1>2. ASSUME NEW i \in LiveNodes, NEW j \in LiveNodes, Below(i, j) PROVE i = j
  <2>1. PICK m \in Live : i = BlockNode(m)
    BY DEF LiveNodes
  <2>2. PICK n \in Live : j = BlockNode(n)
    BY DEF LiveNodes
  <2>3. m # n => ~Below(i, j)
    BY <2>1, <2>2, SMTT(30) DEF BlocksOK, Apart
  <2> QED
    BY <1>2, <2>1, <2>2, <2>3
<1> QED
  BY <1>1, <1>2, SMTT(30) DEF Antichain

\* A chunk becomes live with the block that the buddy allocator found for it.
LEMMA BlocksTake ==
    ASSUME Halves, BlocksOK, DOMAIN chunk = Nodes,
           NEW n \in Nodes, n \notin Live, Live \subseteq Nodes, Live' = Live \cup {n},
           NEW size \in Sizes, HasRoom(pool, size), pool' = AllocateBlock(pool, size),
           chunk' = [chunk EXCEPT ![n] = [data |-> SearchFor(pool, size).addr, size |-> size]]
    PROVE  BlocksOK' /\ SearchFor(pool, size).addr \in 0 .. PoolSize - 1
<1>1. Antichain(LiveNodes) /\ TreeOK(LiveNodes, pool) /\ LiveNodes \subseteq BlockIdx
  BY LiveNodesApart DEF BlocksOK, Antichain
<1>2. size \in Nat
  <2>1. Sizes \subseteq Nat
    BY QueueAssumption, PoolAssumption
  <2> QED
    BY <2>1
<1>3. PICK i \in BlockIdx :
         /\ i = SearchFor(pool, size).idx
         /\ SearchFor(pool, size).addr = BlockAddr[i]
         /\ Level[i] = ComputeLevel(RoundedUpToMinBlockSize(size))
         /\ ComputeBlockSize[i] >= size
         /\ \A j \in LiveNodes : Apart(i, j)
  BY <1>1, <1>2, SearchFinds, ZenonT(40)
<1>4. i \in Nat /\ ComputeBlockSize[i] \in Nat /\ ComputeBlockSize[i] > 0
      /\ BlockAddr[i] \in 0 .. PoolSize - 1
  BY InPool, SMTT(30)
<1>5. FindBlock(BlockAddr[i], size) = i
  BY <1>3, <1>4, FindBlockFinds
<1>6. TreeOK(LiveNodes \cup {i}, pool')
  BY <1>1, <1>2, <1>3, AllocateBlockRight, ZenonT(40)
<1>7. /\ chunk'[n].data = BlockAddr[i] /\ chunk'[n].size = size
      /\ \A m \in Live : chunk'[m] = chunk[m]
  BY <1>3, ZenonT(40)
<1>8. BlockNode(n)' = i /\ \A m \in Live : BlockNode(m)' = BlockNode(m)
  BY <1>5, <1>7, ZenonT(40) DEF BlockNode
<1>9. LiveNodes' = LiveNodes \cup {i}
  BY <1>8 DEF LiveNodes
<1>10. \A m \in Live' : ChunkPlaced(m)'
  <2>1. \A m \in Live : ChunkPlaced(m)'
    BY <1>7, <1>8, ZenonT(40) DEF BlocksOK, ChunkPlaced
  <2>2. size <= ComputeBlockSize[i]
    BY <1>2, <1>3, <1>4
  <2>3. ChunkPlaced(n)'
    BY <1>3, <1>7, <1>8, <2>2, ZenonT(40) DEF ChunkPlaced
  <2> QED
    BY <2>1, <2>3
<1>11. \A m, k \in Live' : m # k => Apart(BlockNode(m)', BlockNode(k)')
  <2>1. \A m \in Live : Apart(i, BlockNode(m)) /\ Apart(BlockNode(m), i)
    BY <1>3, ZenonT(40) DEF LiveNodes, Apart
  <2> QED
    BY <1>8, <2>1 DEF BlocksOK
<1> QED
  BY <1>3, <1>4, <1>6, <1>9, <1>10, <1>11 DEF BlocksOK

\* A live chunk gives its block back.
LEMMA BlocksDrop ==
    ASSUME Halves, BlocksOK, NEW n \in Live, Live' = Live \ {n}, chunk' = chunk,
           pool' = DeallocateBlock(pool, chunk[n].data, chunk[n].size)
    PROVE  BlocksOK'
<1>1. Antichain(LiveNodes) /\ TreeOK(LiveNodes, pool) /\ BlockNode(n) \in LiveNodes
  BY LiveNodesApart DEF BlocksOK, LiveNodes
<1>2. TreeOK(LiveNodes \ {BlockNode(n)}, pool')
  BY <1>1, DeallocateBlockRight DEF BlockNode
<1>3. \A m : BlockNode(m)' = BlockNode(m)
  BY DEF BlockNode
<1>4. \A m \in Live : m # n => BlockNode(m) # BlockNode(n)
  <2>1. BlockNode(n) \in Nat
    BY ArrayNodes, ZenonT(40) DEF BlocksOK, ChunkPlaced
  <2>2. Below(BlockNode(n), BlockNode(n))
    BY <2>1, BelowBasics
  <2> QED
    BY <2>2 DEF BlocksOK, Apart
<1>5. LiveNodes' = LiveNodes \ {BlockNode(n)}
  BY <1>3, <1>4 DEF LiveNodes
<1>6. \A m \in Live' : ChunkPlaced(m)'
  BY <1>3, ZenonT(40) DEF BlocksOK, ChunkPlaced
<1>7. \A m, k \in Live' : m # k => Apart(BlockNode(m)', BlockNode(k)')
  BY <1>3 DEF BlocksOK
<1> QED
  BY <1>2, <1>5, <1>6, <1>7 DEF BlocksOK

\* The bytes of a live chunk are bytes of the buffer, and no byte of another one.
LEMMA LiveBytes ==
    ASSUME Halves, BlocksOK
    PROVE  /\ \A n \in Live : /\ chunk[n].data \in ChunkBytes(n)
                              /\ ChunkBytes(n) \subseteq 0 .. PoolSize - 1
           /\ ChunksDisjoint
<1>0. Sizes \subseteq Nat \ {0} /\ PoolSize \in Nat
  <2>1. PoolSize \in Nat
    BY PoolAssumption
  <2>2. Sizes \subseteq 1 .. PoolSize
    BY QueueAssumption, SMTT(30)
  <2> QED
    BY <2>1, <2>2
<1>1. ASSUME NEW n \in Live
      PROVE  \E a \in Nat, s \in Nat \ {0}, b \in Nat :
                /\ chunk[n].data = a /\ chunk[n].size = s /\ s <= b /\ a + b <= PoolSize
                /\ BlockNode(n) \in Nat
                /\ a = BlockAddr[BlockNode(n)] /\ b = ComputeBlockSize[BlockNode(n)]
  <2>1. PICK i \in BlockIdx : i = BlockNode(n)
    BY DEF BlocksOK, ChunkPlaced
  <2>2. i \in Nat /\ ComputeBlockSize[i] \in Nat /\ BlockAddr[i] \in Nat
    BY ArrayNodes, BlockSizes, BlockAddrs
  <2>3. BlockAddr[0] = 0 /\ ComputeBlockSize[0] = PoolSize /\ Below(i, 0) /\ 0 \in Nat
    BY <2>2, BlockAddrs, BlockSizes, BelowBasics, ZenonT(40)
  <2>4. BlockAddr[i] + ComputeBlockSize[i] <= PoolSize
    <3>1. BlockAddr[i] + ComputeBlockSize[i] <= 0 + PoolSize
      BY <2>2, <2>3, BlocksNested
    <3> QED
      BY <1>0, <2>2, <3>1
  <2>5. chunk[n].size \in Nat \ {0} /\ chunk[n].data = BlockAddr[i]
        /\ chunk[n].size <= ComputeBlockSize[i]
    BY <1>0, <2>1, ZenonT(40) DEF BlocksOK, ChunkPlaced
  <2> QED
    BY <2>1, <2>2, <2>4, <2>5, SMTT(30)
<1>2. ASSUME NEW n \in Live
      PROVE  chunk[n].data \in ChunkBytes(n) /\ ChunkBytes(n) \subseteq 0 .. PoolSize - 1
  <2>1. PICK a \in Nat, s \in Nat \ {0}, b \in Nat :
           chunk[n].data = a /\ chunk[n].size = s /\ s <= b /\ a + b <= PoolSize
    BY <1>1
  <2>2. ChunkBytes(n) = a .. a + s - 1
    BY <2>1 DEF ChunkBytes
  <2> QED
    BY <1>0, <2>1, <2>2
<1>3. ASSUME NEW m \in Live, NEW n \in Live, m # n
      PROVE  ChunkBytes(m) \cap ChunkBytes(n) = {}
  <2>1. PICK a \in Nat, s \in Nat \ {0}, b \in Nat :
           /\ chunk[m].data = a /\ chunk[m].size = s /\ s <= b
           /\ BlockNode(m) \in Nat
           /\ a = BlockAddr[BlockNode(m)] /\ b = ComputeBlockSize[BlockNode(m)]
    BY <1>1, ZenonT(40)
  <2>2. PICK c \in Nat, r \in Nat \ {0}, d \in Nat :
           /\ chunk[n].data = c /\ chunk[n].size = r /\ r <= d
           /\ BlockNode(n) \in Nat
           /\ c = BlockAddr[BlockNode(n)] /\ d = ComputeBlockSize[BlockNode(n)]
    BY <1>1
  <2>3. Disjoint(BlockNode(m), BlockNode(n))
    BY <1>3, <2>1, <2>2, ApartDisjoint DEF BlocksOK
  <2>4. a + b <= c \/ c + d <= a
    BY <2>1, <2>2, <2>3, SMTT(30) DEF Disjoint
  <2>5. ChunkBytes(m) = a .. a + s - 1 /\ ChunkBytes(n) = c .. c + r - 1
    BY <2>1, <2>2 DEF ChunkBytes
  <2>6. (a .. a + s - 1) \cap (c .. c + r - 1) = {}
    BY <2>1, <2>2, <2>4, SMTT(30)
  <2> QED
    BY <2>5, <2>6, SMTT(30)
<1> QED
  BY <1>2, <1>3 DEF ChunksDisjoint

-----------------------------------------------------------------------------
(***************************************************************************)
(* What the chunks hold.                                                   *)
(***************************************************************************)

\* Every byte of chunk n is of message m.
Holds(n, m) == \A a \in ChunkBytes(n) : buffer[a] = m

\* A chunk that a producer has filled holds the message it is about to send; a chunk
\* in the queue or with a consumer holds one whole message.
ContentOK ==
    /\ \A p \in Producers : pc[p] = "filled" => Holds(cid[p], <<p, sent[p] + 1>>)
    /\ \A n \in InFifo : \E m \in Msg : Holds(n, m)
    /\ \A c \in Consumers : cid[c] # Null => \E m \in Msg : Holds(cid[c], m)

Chunks == [data : {Null} \cup 0 .. PoolSize - 1, size : {0} \cup Sizes]
Args == [size : {0} \cup Sizes, flag : BOOLEAN]

MemTypeOK ==
    /\ chunk \in [Nodes -> Chunks]
    /\ buffer \in [0 .. PoolSize - 1 -> Msg \cup {NoMsg}]
    /\ opt \in [Threads -> Args]
    /\ received \in [Consumers -> Seq(Msg)]
    /\ crashes \in 0 .. MaxCrashes
    /\ \A p \in Producers : pc[p] = "allocating" => opt[p].size \in Sizes

\* The inductive invariant of the memory (together with IInv).
MemInv == MemTypeOK /\ BlocksOK /\ ContentOK

\* A chunk whose fields and bytes a step leaves alone holds what it held.
LEMMA HoldsFrame ==
    ASSUME NEW n, chunk'[n] = chunk[n], \A a \in ChunkBytes(n) : buffer'[a] = buffer[a]
    PROVE  /\ \A m : Holds(n, m)' <=> Holds(n, m)
           /\ Content(n)' = Content(n)
<1>1. ChunkBytes(n)' = ChunkBytes(n)
  BY SMTT(30) DEF ChunkBytes
<1> DEFINE old == {buffer[a] : a \in ChunkBytes(n)}
           new == {buffer'[a] : a \in ChunkBytes(n)'}
<1>2. old = new
  BY <1>1
<1>3. Content(n)' = Content(n)
  <2>1. Content(n) = IF Cardinality(old) = 1 THEN CHOOSE m \in old : TRUE ELSE NoMsg
    BY Zenon DEF Content, ChunkBytes
  <2>2. Content(n)' = IF Cardinality(new) = 1 THEN CHOOSE m \in new : TRUE ELSE NoMsg
    BY Zenon DEF Content, ChunkBytes
  <2> HIDE DEF old, new
  <2> QED
    BY <1>2, <2>1, <2>2
<1> QED
  BY <1>1, <1>3 DEF Holds

\* What dequeue's caller reads is the message that the bytes of the chunk are.
LEMMA ContentIs ==
    ASSUME Halves, BlocksOK, NEW n \in Live, NEW m, Holds(n, m)
    PROVE  Content(n) = m
<1>1. chunk[n].data \in ChunkBytes(n)
  BY LiveBytes
<1> DEFINE bytes == {buffer[a] : a \in ChunkBytes(n)}
<1>2. bytes = {m}
  BY <1>1 DEF Holds
<1>3. Cardinality(bytes) = 1
  BY <1>2, FS_Singleton
<1>4. Content(n) = IF Cardinality(bytes) = 1 THEN CHOOSE v \in bytes : TRUE ELSE NoMsg
  BY DEF Content, ChunkBytes
<1> HIDE DEF bytes
<1>5. (CHOOSE v \in bytes : TRUE) \in bytes
  BY <1>2
<1> QED
  BY <1>2, <1>3, <1>4, <1>5

\* The chunks that matter are live.
LEMMA InHand ==
    ASSUME IInv
    PROVE  /\ \A t \in Threads : cid[t] # Null => cid[t] \in Live
           /\ \A p \in Producers : pc[p] \in {"filling", "filled"} => cid[p] \in Live
           /\ InFifo \subseteq Live /\ Live \subseteq Nodes
           /\ Producers \subseteq Threads /\ Consumers \subseteq Threads
<1>1. Producers \subseteq Threads /\ Consumers \subseteq Threads
  BY DEF Threads
<1>2. InFifo \subseteq Live /\ Live \subseteq Nodes
  BY DEF IInv, NodesAccounted, Live
<1>3. \A t \in Threads : cid[t] # Null => cid[t] \in Live
  BY DEF Live, Held
<1> QED
  BY <1>1, <1>2, <1>3 DEF IInv, HoldsChunk

\* A step that leaves alone what live chunks hold, puts none in the queue and gives
\* none to a consumer.
LEMMA ContentFrame ==
    ASSUME IInv, ContentOK, InFifo' \subseteq InFifo,
           \A n \in Live : chunk'[n] = chunk[n] /\ \A a \in ChunkBytes(n) : buffer'[a] = buffer[a],
           \A p \in Producers : pc'[p] = "filled" =>
                pc[p] = "filled" /\ cid'[p] = cid[p] /\ sent'[p] = sent[p],
           \A c \in Consumers : cid'[c] # Null => cid'[c] = cid[c]
    PROVE  ContentOK'
<1>1. \A n \in Live : \A m : Holds(n, m)' <=> Holds(n, m)
  BY HoldsFrame
<1>2. ASSUME NEW p \in Producers, pc'[p] = "filled"
      PROVE  Holds(cid[p], <<p, sent[p] + 1>>)'
  <2>1. pc[p] = "filled" /\ cid'[p] = cid[p] /\ sent'[p] = sent[p]
    BY <1>2, ZenonT(40)
  <2>2. cid[p] \in Live /\ Holds(cid[p], <<p, sent[p] + 1>>)
    BY <2>1, InHand, ZenonT(40) DEF ContentOK
  <2>3. ChunkBytes(cid[p])' = ChunkBytes(cid[p])
    BY <2>1, <2>2, ZenonT(40) DEF ChunkBytes
  <2> QED
    BY <2>1, <2>2, <2>3, ZenonT(40) DEF Holds
<1>3. ASSUME NEW n \in InFifo' PROVE \E m \in Msg : Holds(n, m)'
  <2>1. n \in Live /\ \E m \in Msg : Holds(n, m)
    BY InHand, ZenonT(40) DEF ContentOK
  <2> QED
    BY <1>1, <2>1, ZenonT(40)
<1>4. ASSUME NEW c \in Consumers, cid'[c] # Null PROVE \E m \in Msg : Holds(cid[c], m)'
  <2>1. cid'[c] = cid[c]
    BY <1>4, SMTT(30)
  <2>2. cid[c] \in Live
    BY <1>4, <2>1, InHand, SMTT(30)
  <2>3. PICK m \in Msg : Holds(cid[c], m)
    BY <1>4, <2>1, SMTT(30) DEF ContentOK
  <2>4. ChunkBytes(cid[c])' = ChunkBytes(cid[c])
    BY <2>1, <2>2, SMTT(30) DEF ChunkBytes
  <2>5. Holds(cid[c], m)'
    BY <2>1, <2>2, <2>3, <2>4 DEF Holds
  <2> QED
    BY <2>5, ZenonT(40)
<1>5. Msg' = Msg
  BY SMTT(30) DEF Msg
<1> QED
  BY <1>2, <1>3, <1>4, <1>5, ZenonT(40) DEF ContentOK

\* A step that leaves the memory, the chunk ids and the queue alone.
LEMMA QuietMem ==
    ASSUME IInv, MemInv, UNCHANGED <<chunk, pool, buffer, cid, fifo, received>>,
           crashes' \in 0 .. MaxCrashes, opt' \in [Threads -> Args],
           \A p \in Producers : /\ pc'[p] = "allocating" => opt'[p].size \in Sizes
                                /\ pc'[p] = "filled" => pc[p] = "filled" /\ sent'[p] = sent[p]
    PROVE  MemInv'
<1>1. Live' = Live /\ InFifo' = InFifo
  BY SMTT(30) DEF Live, Held, InFifo
<1>2. BlocksOK'
  BY <1>1, BlocksFrame, SMTT(30) DEF MemInv
<1>3. ContentOK'
  BY <1>1, ContentFrame DEF MemInv
<1>4. MemTypeOK'
  BY Zenon DEF MemInv, MemTypeOK
<1> QED
  BY <1>2, <1>3, <1>4, SMTT(30) DEF MemInv

\* try_allocate takes a node and a block for it.
LEMMA AllocateOkMem ==
    ASSUME Halves, IInv, MemInv, NEW p \in Producers, AllocateOk(p)
    PROVE  MemInv' /\ list.free_list_head \notin Live
<1> USE DEF At, Goto
<1> DEFINE n == list.free_list_head
           size == opt[p].size
           addr == SearchFor(pool, size).addr
<1>1. p \in Threads /\ pc[p] = "allocating" /\ cid[p] = Null /\ size \in Sizes
  BY InHand DEF AllocateOk, IInv, HoldsChunk, MemInv, MemTypeOK
<1>2. n \in Nodes /\ n \in InFreed
  <2>1. freed \in Seq(Nodes) /\ list.next \in Pointers /\ n # Null
        /\ Linked(freed, n, list.next)
    BY SMTT(30) DEF AllocateOk, IInv, ControlTypeOK, ChunkRegionList, Pointers, ListsLinked
  <2>2. freed # <<>> /\ n = freed[1] /\ n \in Nodes
    BY <2>1, LinkedEmpty, LinkedTail, SMTT(30)
  <2> QED
    BY <2>1, <2>2, SMTT(30) DEF InFreed, NodesIn
<1>3. /\ HasRoom(pool, size) /\ pool' = AllocateBlock(pool, size) /\ fifo' = fifo
      /\ chunk' = [chunk EXCEPT ![n] = [data |-> addr, size |-> size]]
      /\ CidBecomes(p, n) /\ pc' = [pc EXCEPT ![p] = "filling"]
      /\ UNCHANGED <<buffer, opt, sent, received, crashes>>
  BY DEF AllocateOk, CidBecomes
<1>4. n \notin Live /\ Live' = Live \cup {n} /\ InFifo' = InFifo
  BY <1>1, <1>2, <1>3, LiveTake, ZenonT(40)
<1>5. chunk \in [Nodes -> Chunks] /\ DOMAIN chunk = Nodes
  BY SMTT(30) DEF MemInv, MemTypeOK
<1>6. BlocksOK /\ Live \subseteq Nodes
  BY InHand DEF MemInv
<1> HIDE DEF n, size, addr
<1>7. BlocksOK' /\ addr \in 0 .. PoolSize - 1
  <2>1. chunk' = [chunk EXCEPT ![n] = [data |-> SearchFor(pool, size).addr, size |-> size]]
    BY <1>3 DEF addr
  <2>2. BlocksOK' /\ SearchFor(pool, size).addr \in 0 .. PoolSize - 1
    BY <1>1, <1>2, <1>3, <1>4, <1>5, <1>6, <2>1, BlocksTake, ZenonT(40)
  <2> QED
    BY <2>2 DEF addr
<1>8. MemTypeOK'
  <2>1. [data |-> addr, size |-> size] \in Chunks
    BY <1>1, <1>7, ZenonT(40) DEF Chunks
  <2>2. chunk' \in [Nodes -> Chunks]
    BY <1>3, <1>5, <2>1, ZenonT(40)
  <2>3. \A q \in Producers : pc'[q] = "allocating" => pc[q] = "allocating"
    BY <1>1, <1>3, InHand, SMTT(30) DEF IInv, ControlTypeOK
  <2> QED
    BY <1>3, <2>2, <2>3 DEF MemInv, MemTypeOK
<1>9. ContentOK'
  <2>1. \A m \in Live : chunk'[m] = chunk[m]
    BY <1>3, <1>4, <1>5, <1>6, SMTT(30)
  <2>2. pc \in [Threads -> PcValues] /\ cid \in [Threads -> Nodes \cup {Null}]
        /\ p \notin Consumers /\ Producers \subseteq Threads /\ Consumers \subseteq Threads
    BY QueueAssumption, InHand, SMTT(30) DEF IInv, ControlTypeOK
  <2>3. \A q \in Producers : pc'[q] = "filled" =>
            pc[q] = "filled" /\ cid'[q] = cid[q] /\ sent'[q] = sent[q]
    BY <1>1, <1>3, <2>2, SMTT(30) DEF CidBecomes
  <2>4. \A c \in Consumers : cid'[c] = cid[c]
    BY <1>1, <1>3, <2>2 DEF CidBecomes
  <2>5. \A m \in Live : chunk'[m] = chunk[m] /\ \A a \in ChunkBytes(m) : buffer'[a] = buffer[a]
    BY <1>3, <2>1
  <2> QED
    BY <1>4, <2>3, <2>4, <2>5, ContentFrame, SMTT(30) DEF MemInv
<1> QED
  BY <1>4, <1>7, <1>8, <1>9, SMTT(30) DEF MemInv, n

\* release_chunk by a producer that cancels or by a consumer that has read: what it
\* was called for is given back, and nothing else changes.
LEMMA ReleaseMem ==
    ASSUME Halves, IInv, MemInv, NEW t \in Threads, cid[t] # Null, ReleaseChunk(cid[t]),
           CidBecomes(t, Null), opt' = [opt EXCEPT ![t] = NoArgs],
           pc' = [pc EXCEPT ![t] = "idle"], UNCHANGED <<sent, crashes>>,
           received' \in [Consumers -> Seq(Msg)]
    PROVE  MemInv'
<1>1. /\ pool' = DeallocateBlock(pool, chunk[cid[t]].data, chunk[cid[t]].size)
      /\ UNCHANGED <<fifo, chunk, buffer>>
  BY DEF ReleaseChunk
<1>2. cid[t] \in Live /\ Live' = Live \ {cid[t]} /\ InFifo' = InFifo
  BY <1>1, LiveDrop, ZenonT(40)
<1>3. BlocksOK'
  BY <1>1, <1>2, BlocksDrop, ZenonT(40) DEF MemInv
<1>4. /\ pc \in [Threads -> PcValues] /\ cid \in [Threads -> Nodes \cup {Null}]
      /\ Producers \subseteq Threads /\ Consumers \subseteq Threads
  BY InHand DEF IInv, ControlTypeOK
<1>5. /\ \A u \in Threads : u # t => pc'[u] = pc[u] /\ cid'[u] = cid[u]
      /\ pc'[t] = "idle" /\ cid'[t] = Null
  BY <1>4, SMTT(30) DEF CidBecomes
<1>6. ContentOK'
  <2>1. \A p \in Producers : pc'[p] = "filled" =>
            pc[p] = "filled" /\ cid'[p] = cid[p] /\ sent'[p] = sent[p]
    BY <1>4, <1>5, ZenonT(40)
  <2>2. \A c \in Consumers : cid'[c] # Null => cid'[c] = cid[c]
    BY <1>4, <1>5
  <2> QED
    BY <1>1, <1>2, <2>1, <2>2, ContentFrame DEF MemInv
<1>7. MemTypeOK'
  <2>1. NoArgs \in Args
    BY DEF NoArgs, Args
  <2>2. opt \in [Threads -> Args] /\ opt' \in [Threads -> Args]
    BY <2>1 DEF MemInv, MemTypeOK
  <2>3. \A p \in Producers : pc'[p] = "allocating" => opt'[p].size \in Sizes
    BY <1>4, <1>5, <2>2 DEF MemInv, MemTypeOK
  <2> QED
    BY <1>1, <2>2, <2>3 DEF MemInv, MemTypeOK
<1> QED
  BY <1>3, <1>6, <1>7, SMTT(30) DEF MemInv

\* What a consumer reads is one message.
LEMMA ReadsMessage ==
    ASSUME Halves, IInv, MemInv, NEW n, n \in InFifo \/ \E c \in Consumers : n = cid[c] /\ n # Null
    PROVE  n \in Live /\ Content(n) \in Msg
<1>1. n \in Live
  BY InHand
<1>2. PICK m \in Msg : Holds(n, m)
  BY DEF MemInv, ContentOK
<1>3. Content(n) = m
  BY <1>1, <1>2, ContentIs, SMTT(30) DEF MemInv
<1> QED
  BY <1>1, <1>3, SMTT(30)

\* The memcpy of enqueue writes the bytes of its own chunk only.
LEMMA FillMem ==
    ASSUME Halves, IInv, MemInv, NEW p \in Producers, Fill(p)
    PROVE  /\ MemInv'
           /\ \A n \in Live : n # cid[p] =>
                chunk'[n] = chunk[n] /\ \A a \in ChunkBytes(n) : buffer'[a] = buffer[a]
<1> USE DEF At, Goto
<1> DEFINE msg == <<p, sent[p] + 1>>
<1>1. /\ p \in Threads /\ pc[p] = "filling" /\ cid[p] \in Live /\ p \notin Consumers
      /\ Producers \subseteq Threads /\ pc \in [Threads -> PcValues]
  BY InHand, QueueAssumption DEF Fill, IInv, ControlTypeOK
<1>2. /\ buffer' = [a \in DOMAIN buffer |-> IF a \in ChunkBytes(cid[p]) THEN msg ELSE buffer[a]]
      /\ UNCHANGED <<chunk, pool, opt, cid, sent, received, crashes, fifo>>
      /\ pc' = [pc EXCEPT ![p] = "filled"]
  BY Zenon DEF Fill, ChunkBytes, region
<1>3. DOMAIN buffer = 0 .. PoolSize - 1 /\ buffer \in [0 .. PoolSize - 1 -> Msg \cup {NoMsg}]
  BY SMTT(30) DEF MemInv, MemTypeOK
<1>4. /\ \A n \in Live : ChunkBytes(n) \subseteq 0 .. PoolSize - 1
      /\ \A n \in Live : n # cid[p] => ChunkBytes(n) \cap ChunkBytes(cid[p]) = {}
  BY <1>1, LiveBytes DEF MemInv, ChunksDisjoint
<1>5. msg \in Msg
  <2>1. sent[p] \in 0 .. MsgsPerProducer /\ sent[p] < MsgsPerProducer /\ MsgsPerProducer \in Nat
    BY <1>1, QueueAssumption, ZenonT(40) DEF IInv, ControlTypeOK, SendsBounded
  <2>2. sent[p] + 1 \in 1 .. MsgsPerProducer
    BY <2>1
  <2> QED
    BY <2>2 DEF Msg
<1> HIDE DEF msg
<1>6. \A n \in Live : n # cid[p] => \A a \in ChunkBytes(n) : buffer'[a] = buffer[a]
  BY <1>2, <1>3, <1>4
<1>7. \A a \in ChunkBytes(cid[p]) : buffer'[a] = msg
  BY <1>1, <1>2, <1>3, <1>4
<1>8. Live' = Live /\ InFifo' = InFifo /\ ChunkBytes(cid[p])' = ChunkBytes(cid[p])
  BY <1>2, ZenonT(40) DEF Live, Held, InFifo, ChunkBytes
<1>9. BlocksOK'
  BY <1>2, <1>8, BlocksFrame DEF MemInv
<1>10. MemTypeOK'
  <2>1. buffer' \in [0 .. PoolSize - 1 -> Msg \cup {NoMsg}]
    BY <1>2, <1>3, <1>5
  <2>2. \A q \in Producers : pc'[q] = "allocating" => pc[q] = "allocating"
    BY <1>1, <1>2, SMTT(30)
  <2> QED
    BY <1>2, <2>1, <2>2, ZenonT(40) DEF MemInv, MemTypeOK
<1>11. ContentOK'
  <2>1. \A n \in Live : n # cid[p] => \A m : Holds(n, m)' <=> Holds(n, m)
    BY <1>2, <1>6, HoldsFrame, ZenonT(40)
  <2>2. ASSUME NEW q \in Producers, pc'[q] = "filled"
        PROVE  Holds(cid[q], <<q, sent[q] + 1>>)'
    <3>1. CASE q = p
      BY <1>2, <1>7, <1>8, <3>1, ZenonT(40) DEF Holds, msg
    <3>2. CASE q # p
      <4>1. pc[q] = "filled" /\ cid[q] \in Live /\ cid[q] # Null /\ q \in Threads
        BY <1>1, <1>2, <2>2, <3>2, InHand DEF IInv, HoldsChunk
      <4>2. cid[q] # cid[p]
        BY <1>1, <3>2, <4>1 DEF IInv, NodesExclusive
      <4>3. Holds(cid[q], <<q, sent[q] + 1>>)
        BY <4>1, Zenon DEF MemInv, ContentOK
      <4>4. ChunkBytes(cid[q])' = ChunkBytes(cid[q])
        BY <1>2, ZenonT(40) DEF ChunkBytes
      <4> QED
        BY <1>2, <1>6, <4>1, <4>2, <4>3, <4>4, ZenonT(40) DEF Holds
    <3> QED
      BY <3>1, <3>2
  <2>3. ASSUME NEW n \in InFifo PROVE \E m \in Msg : Holds(n, m)'
    <3>1. cid[p] \in Held
      BY <1>1 DEF IInv, HoldsChunk, Held
    <3>2. n \in Live /\ n # cid[p]
      BY <3>1, InHand, Zenon DEF IInv, NodesExclusive
    <3> QED
      BY <2>1, <3>2, ZenonT(40) DEF MemInv, ContentOK
  <2>4. ASSUME NEW c \in Consumers, cid[c] # Null PROVE \E m \in Msg : Holds(cid[c], m)'
    <3>1. c \in Threads /\ cid[c] \in Live /\ c # p
      BY <1>1, <2>4, InHand
    <3>2. cid[c] # cid[p]
      BY <1>1, <2>4, <3>1, SMTT(30) DEF IInv, NodesExclusive
    <3>3. PICK m \in Msg : Holds(cid[c], m)
      BY <2>4, SMTT(30) DEF MemInv, ContentOK
    <3>4. ChunkBytes(cid[c])' = ChunkBytes(cid[c])
      BY <1>2 DEF ChunkBytes
    <3>5. Holds(cid[c], m)'
      BY <1>2, <1>6, <3>1, <3>2, <3>3, <3>4, SMTT(30) DEF Holds
    <3> QED
      BY <3>5
  <2> QED
    BY <1>2, <1>8, <2>2, <2>3, <2>4 DEF ContentOK
<1> QED
  BY <1>2, <1>6, <1>9, <1>10, <1>11, SMTT(30) DEF MemInv

\* enqueue: the filled chunk goes to the queue with its message.
LEMMA EnqueueMem ==
    ASSUME Halves, IInv, MemInv, NEW p \in Producers, Enqueue(p)
    PROVE  /\ MemInv' /\ cid[p] \in Live
           /\ Content(cid[p]) = <<p, sent[p] + 1>> /\ <<p, sent[p] + 1>> \in Msg
<1> USE DEF At, Goto
<1>1. /\ p \in Threads /\ pc[p] = "filled" /\ cid[p] # Null /\ p \notin Consumers
      /\ Producers \subseteq Threads /\ Consumers \subseteq Threads
      /\ pc \in [Threads -> PcValues] /\ cid \in [Threads -> Nodes \cup {Null}]
      /\ sent \in [Producers -> 0 .. MsgsPerProducer]
  BY InHand, QueueAssumption DEF Enqueue, IInv, ControlTypeOK, HoldsChunk
<1>2. /\ CidBecomes(p, Null) /\ fifo' = Append(fifo, cid[p])
      /\ UNCHANGED <<chunk, pool, buffer, received, crashes>>
      /\ sent' = [sent EXCEPT ![p] = @ + 1] /\ opt' = [opt EXCEPT ![p] = NoArgs]
      /\ pc' = [pc EXCEPT ![p] = "idle"]
  BY DEF Enqueue, CidBecomes, memory
<1>3. cid[p] \in Live /\ Live' = Live /\ InFifo' = InFifo \cup {cid[p]}
  BY <1>1, <1>2, LiveEnqueue
<1>4. Holds(cid[p], <<p, sent[p] + 1>>) /\ <<p, sent[p] + 1>> \in Msg
  <2>1. sent[p] \in 0 .. MsgsPerProducer /\ sent[p] < MsgsPerProducer /\ MsgsPerProducer \in Nat
    BY <1>1, QueueAssumption DEF IInv, SendsBounded
  <2>2. sent[p] + 1 \in 1 .. MsgsPerProducer
    BY <2>1
  <2> QED
    BY <1>1, <2>2 DEF MemInv, ContentOK, Msg
<1>5. Content(cid[p]) = <<p, sent[p] + 1>>
  BY <1>3, <1>4, ContentIs, ZenonT(40) DEF MemInv
<1>6. BlocksOK'
  BY <1>2, <1>3, BlocksFrame DEF MemInv
<1>7. /\ \A t \in Threads : t # p => pc'[t] = pc[t] /\ cid'[t] = cid[t]
      /\ \A q \in Producers : q # p => sent'[q] = sent[q]
      /\ pc'[p] = "idle"
  BY <1>1, <1>2, SMTT(30) DEF CidBecomes
<1>8. \A n : ChunkBytes(n)' = ChunkBytes(n)
  BY <1>2 DEF ChunkBytes
<1>h. \A n, m : Holds(n, m)' <=> Holds(n, m)
  BY <1>2, HoldsFrame, ZenonT(40)
<1>9. ContentOK'
  <2>1. \A q \in Producers : pc'[q] = "filled" => Holds(cid[q], <<q, sent[q] + 1>>)'
    BY <1>1, <1>2, <1>7, <1>8, ZenonT(40) DEF MemInv, ContentOK, Holds
  <2>2. ASSUME NEW n \in InFifo' PROVE \E m \in Msg : Holds(n, m)'
    <3>1. PICK m \in Msg : Holds(n, m)
      BY <1>3, <1>4, SMTT(30) DEF MemInv, ContentOK
    <3> QED
      BY <1>h, <3>1, SMTT(30)
  <2>3. ASSUME NEW c \in Consumers, cid'[c] # Null PROVE \E m \in Msg : Holds(cid[c], m)'
    <3>1. cid'[c] = cid[c]
      BY <1>1, <1>7, SMTT(30)
    <3>2. PICK m \in Msg : Holds(cid[c], m)
      BY <2>3, <3>1, SMTT(30) DEF MemInv, ContentOK
    <3>3. Holds(cid[c], m)'
      BY <1>2, <1>8, <3>1, <3>2 DEF Holds
    <3> QED
      BY <3>3
  <2> QED
    BY <2>1, <2>2, <2>3 DEF ContentOK
<1>10. MemTypeOK'
  <2>1. NoArgs \in Args
    BY DEF NoArgs, Args
  <2>2. opt \in [Threads -> Args] /\ opt' \in [Threads -> Args]
    BY <1>2, <2>1, ZenonT(40) DEF MemInv, MemTypeOK
  <2>3. \A q \in Producers : pc'[q] = "allocating" => opt'[q].size \in Sizes
    BY <1>1, <1>2, <1>7, <2>2 DEF MemInv, MemTypeOK
  <2> QED
    BY <1>2, <2>2, <2>3 DEF MemInv, MemTypeOK
<1> QED
  BY <1>3, <1>4, <1>5, <1>6, <1>9, <1>10 DEF MemInv

\* dequeue: the first chunk of the queue goes to the consumer with its message.
LEMMA DequeueMem ==
    ASSUME Halves, IInv, MemInv, NEW c \in Consumers, DequeueOk(c)
    PROVE  /\ MemInv' /\ fifo # <<>> /\ list.head = fifo[1] /\ list.head \in InFifo
           /\ cid[c] = Null /\ list.head # Null
<1> USE DEF At, Goto
<1>1. /\ c \in Threads /\ pc[c] = "polling" /\ cid[c] = Null /\ c \notin Producers
      /\ Producers \subseteq Threads /\ Consumers \subseteq Threads
      /\ pc \in [Threads -> PcValues] /\ cid \in [Threads -> Nodes \cup {Null}]
  BY InHand, QueueAssumption, ZenonT(40) DEF DequeueOk, IInv, ControlTypeOK, HoldsChunk
<1>2. /\ CidBecomes(c, list.head) /\ fifo' = Tail(fifo) /\ list.head # Null
      /\ UNCHANGED <<chunk, pool, buffer, received, crashes, opt, sent>>
      /\ pc' = [pc EXCEPT ![c] = "reading"]
  BY DEF DequeueOk, CidBecomes, memory
<1>3. /\ fifo # <<>> /\ list.head = fifo[1] /\ list.head \in InFifo
      /\ Live' = Live /\ InFifo' = InFifo \ {list.head}
  BY <1>1, <1>2, LiveDequeue
<1>4. BlocksOK'
  BY <1>2, <1>3, BlocksFrame DEF MemInv
<1>5. /\ \A t \in Threads : t # c => pc'[t] = pc[t] /\ cid'[t] = cid[t]
      /\ pc'[c] = "reading" /\ cid'[c] = list.head
  BY <1>1, <1>2 DEF CidBecomes
<1>6. \A n : ChunkBytes(n)' = ChunkBytes(n)
  BY <1>2 DEF ChunkBytes
<1>h. \A n, m : Holds(n, m)' <=> Holds(n, m)
  BY <1>2, HoldsFrame, ZenonT(40)
<1>7. ContentOK'
  <2>1. \A q \in Producers : pc'[q] = "filled" => Holds(cid[q], <<q, sent[q] + 1>>)'
    BY <1>1, <1>2, <1>5, <1>6, ZenonT(40) DEF MemInv, ContentOK, Holds
  <2>2. ASSUME NEW n \in InFifo' PROVE \E m \in Msg : Holds(n, m)'
    <3>1. PICK m \in Msg : Holds(n, m)
      BY <1>3, Zenon DEF MemInv, ContentOK
    <3> QED
      BY <1>h, <3>1
  <2>3. ASSUME NEW d \in Consumers, cid'[d] # Null PROVE \E m \in Msg : Holds(cid[d], m)'
    <3>1. PICK n : n = cid'[d] /\ (d = c => n = list.head) /\ (d # c => n = cid[d])
      BY <1>1, <1>5
    <3>2. PICK m \in Msg : Holds(n, m)
      BY <1>3, <2>3, <3>1, ZenonT(40) DEF MemInv, ContentOK
    <3>3. Holds(cid[d], m)'
      BY <1>2, <1>6, <3>1, <3>2, ZenonT(40) DEF Holds
    <3> QED
      BY <3>3, SMTT(30)
  <2> QED
    BY <2>1, <2>2, <2>3 DEF ContentOK
<1>8. MemTypeOK'
  <2>1. \A q \in Producers : pc'[q] = "allocating" => opt'[q].size \in Sizes
    BY <1>1, <1>2, <1>5, ZenonT(40) DEF MemInv, MemTypeOK
  <2> QED
    BY <1>2, <2>1 DEF MemInv, MemTypeOK
<1> QED
  BY <1>1, <1>2, <1>3, <1>4, <1>7, <1>8 DEF MemInv

\* release_chunk, called by a producer that cancels or by a consumer that has read.
LEMMA CancelMem ==
    ASSUME Halves, IInv, MemInv, NEW p \in Producers, Cancel(p)
    PROVE  MemInv'
<1>1. p \in Threads /\ cid[p] # Null
  BY InHand DEF Cancel, At, IInv, HoldsChunk
<1>2. /\ ReleaseChunk(cid[p]) /\ CidBecomes(p, Null) /\ opt' = [opt EXCEPT ![p] = NoArgs]
      /\ pc' = [pc EXCEPT ![p] = "idle"] /\ UNCHANGED <<sent, crashes>> /\ received' = received
  BY SMTT(30) DEF Cancel, CidBecomes, Goto
<1>3. received' \in [Consumers -> Seq(Msg)]
  BY <1>2 DEF MemInv, MemTypeOK
<1> QED
  BY <1>1, <1>2, <1>3, ReleaseMem, ZenonT(40)

\* A consumer reads one whole message before it releases the chunk.
LEMMA ReleaseStepMem ==
    ASSUME Halves, IInv, MemInv, NEW c \in Consumers, Release(c)
    PROVE  MemInv' /\ cid[c] # Null
<1>1. c \in Threads /\ cid[c] # Null
  BY InHand, Zenon DEF Release, At, IInv, HoldsChunk
<1>2. /\ ReleaseChunk(cid[c]) /\ CidBecomes(c, Null) /\ opt' = [opt EXCEPT ![c] = NoArgs]
      /\ pc' = [pc EXCEPT ![c] = "idle"] /\ UNCHANGED <<sent, crashes>>
      /\ received' = [received EXCEPT ![c] = Append(@, Content(cid[c]))]
  BY DEF Release, CidBecomes, Goto
<1>3. received' \in [Consumers -> Seq(Msg)]
  <2>1. Content(cid[c]) \in Msg
    BY <1>1, ReadsMessage
  <2>2. received \in [Consumers -> Seq(Msg)]
    BY DEF MemInv, MemTypeOK
  <2>3. Append(received[c], Content(cid[c])) \in Seq(Msg)
    BY <2>1, <2>2, SMTT(30)
  <2> QED
    BY <1>2, <2>2, <2>3
<1> QED
  BY <1>1, <1>2, <1>3, ReleaseMem, Zenon

\* A step of thread t that only moves it on, possibly with the arguments o of a new call.
LEMMA MoveMem ==
    ASSUME IInv, MemInv, NEW t \in Threads, NEW l, l # "filled", NEW o \in Args,
           UNCHANGED <<chunk, pool, buffer, cid, fifo, received, sent>>,
           crashes' \in 0 .. MaxCrashes, pc' = [pc EXCEPT ![t] = l],
           opt' = opt \/ opt' = [opt EXCEPT ![t] = o],
           t \in Producers /\ l = "allocating" =>
                \/ opt' = opt /\ pc[t] = "allocating"
                \/ opt' = [opt EXCEPT ![t] = o] /\ o.size \in Sizes
    PROVE  MemInv'
<1>1. /\ opt \in [Threads -> Args] /\ pc \in [Threads -> PcValues] /\ Producers \subseteq Threads
      /\ \A p \in Producers : pc[p] = "allocating" => opt[p].size \in Sizes
  BY InHand DEF IInv, ControlTypeOK, MemInv, MemTypeOK
<1>2. opt' \in [Threads -> Args] /\ \A u \in Threads : u # t => opt'[u] = opt[u] /\ pc'[u] = pc[u]
  BY <1>1, SMTT(30)
<1>3. \A p \in Producers : /\ pc'[p] = "allocating" => opt'[p].size \in Sizes
                           /\ pc'[p] = "filled" => pc[p] = "filled" /\ sent'[p] = sent[p]
  <2> SUFFICES ASSUME NEW p \in Producers
               PROVE  /\ pc'[p] = "allocating" => opt'[p].size \in Sizes
                      /\ pc'[p] = "filled" => pc[p] = "filled" /\ sent'[p] = sent[p]
    BY SMTT(30)
  <2>1. CASE p = t
    BY <1>1, <2>1
  <2>2. CASE p # t
    BY <1>1, <1>2, <2>2
  <2> QED
    BY <2>1, <2>2, SMTT(30)
<1> QED
  BY <1>2, <1>3, QuietMem, SMTT(30)

\* Every step preserves the invariant of the memory.
LEMMA NextMemInv ==
    ASSUME Halves, IInv, MemInv, [Next]_vars
    PROVE  MemInv'
<1> USE DEF At, Goto, region, memory, clients
<1>0. /\ Producers \subseteq Threads /\ Consumers \subseteq Threads
      /\ crashes \in 0 .. MaxCrashes /\ opt \in [Threads -> Args]
      /\ \A p \in Producers : p \notin Consumers
  BY InHand, QueueAssumption DEF MemInv, MemTypeOK
<1>1. ASSUME \/ \E count \in PreducerCounts : SetPreducerCount(count)
             \/ Close
             \/ UNCHANGED vars
      PROVE  MemInv'
  <2>1. UNCHANGED <<chunk, pool, buffer, cid, fifo, received, sent, pc, opt, crashes>>
    BY <1>1 DEF SetPreducerCount, Close, vars
  <2> QED
    BY <1>0, <2>1, QuietMem, ZenonT(40) DEF MemInv, MemTypeOK
<1>2. ASSUME NEW p \in Producers, NEW size \in Sizes, NEW block \in Blocking, StartSend(p, size, block)
      PROVE  MemInv'
  <2> DEFINE o == [size |-> size, flag |-> block]
  <2>1. o \in Args /\ o.size \in Sizes
    BY QueueAssumption DEF Args
  <2>2. /\ UNCHANGED <<chunk, pool, buffer, cid, fifo, received, sent, crashes>>
        /\ pc' = [pc EXCEPT ![p] = "allocating"] /\ opt' = [opt EXCEPT ![p] = o]
    BY <1>2 DEF StartSend
  <2> HIDE DEF o
  <2> QED
    BY <1>0, <2>1, <2>2, MoveMem, ZenonT(40)
<1>3. ASSUME NEW p \in Producers,
             AllocateNoNode(p) \/ AllocateNoMemory(p) \/ SignalPreducingComplete(p)
      PROVE  MemInv'
  <2>1. /\ UNCHANGED <<chunk, pool, buffer, cid, fifo, received, sent, crashes, opt>>
    BY <1>3, ZenonT(40) DEF AllocateNoNode, AllocateNoMemory, SignalPreducingComplete
  <2>2. NoArgs \in Args
    BY SMTT(30) DEF NoArgs, Args
  <2>3. PICK l \in {"allocating", "idle", "done"} :
           pc' = [pc EXCEPT ![p] = l] /\ (l = "allocating" => pc[p] = "allocating")
    BY <1>3 DEF AllocateNoNode, AllocateNoMemory, AfterFailure, SignalPreducingComplete
  <2>4. l # "filled" /\ crashes' \in 0 .. MaxCrashes /\ p \in Threads /\ opt' = opt
    BY <1>0, <2>1
  <2> QED
    BY <2>1, <2>2, <2>3, <2>4, MoveMem, Zenon
<1>4. ASSUME NEW c \in Consumers, NEW timed \in Timed, StartDequeue(c, timed)
      PROVE  MemInv'
  <2> DEFINE o == [size |-> 0, flag |-> timed]
  <2>1. o \in Args
    BY QueueAssumption DEF Args
  <2>2. /\ UNCHANGED <<chunk, pool, buffer, cid, fifo, received, sent, crashes>>
        /\ pc' = [pc EXCEPT ![c] = "polling"] /\ opt' = [opt EXCEPT ![c] = o]
    BY <1>4 DEF StartDequeue
  <2> HIDE DEF o
  <2> QED
    BY <1>0, <2>1, <2>2, MoveMem, ZenonT(40)
<1>5. ASSUME NEW c \in Consumers,
             DequeueTimeout(c) \/ DequeueClosed(c) \/ DequeueSleep(c) \/ DequeueWake(c)
      PROVE  MemInv'
  <2>1. /\ UNCHANGED <<chunk, pool, buffer, cid, fifo, received, sent, crashes, opt>>
        /\ \E l \in {"idle", "closed", "sleeping", "polling"} : pc' = [pc EXCEPT ![c] = l]
    BY <1>5, Zenon DEF DequeueTimeout, DequeueClosed, DequeueSleep, DequeueWake
  <2>2. NoArgs \in Args
    BY DEF NoArgs, Args
  <2> QED
    BY <1>0, <2>1, <2>2, MoveMem, ZenonT(40)
<1>6. ASSUME NEW t \in Threads, Crash(t)
      PROVE  MemInv'
  <2>1. /\ UNCHANGED <<chunk, pool, buffer, cid, fifo, received, sent, opt>>
        /\ pc' = [pc EXCEPT ![t] = "crashed"] /\ crashes < MaxCrashes /\ crashes' = crashes + 1
    BY <1>6 DEF Crash
  <2>2. crashes' \in 0 .. MaxCrashes
    BY <1>0, <2>1, QueueAssumption
  <2>3. NoArgs \in Args
    BY DEF NoArgs, Args
  <2> QED
    BY <2>1, <2>2, <2>3, MoveMem, ZenonT(40)
<1>7. ASSUME NEW p \in Producers, ProducerStep(p)
      PROVE  MemInv'
  BY <1>2, <1>3, <1>7, AllocateOkMem, FillMem, EnqueueMem, CancelMem, ZenonT(40) DEF ProducerStep
<1>8. ASSUME NEW c \in Consumers, ConsumerStep(c)
      PROVE  MemInv'
  BY <1>4, <1>5, <1>8, DequeueMem, ReleaseStepMem, ZenonT(40) DEF ConsumerStep
<1> QED
  BY <1>1, <1>6, <1>7, <1>8, SMTT(30) DEF Next

\* init() leaves no live chunk and the whole buffer free.
LEMMA InitMemInv == Init => MemInv
<1> SUFFICES ASSUME Init PROVE MemInv
  OBVIOUS
<1>1. Live = {} /\ InFifo = {}
  <2>1. Held = {} /\ InFifo = {}
    BY DEF Init, Held, InFifo, NodesIn
  <2> QED
    BY <2>1 DEF Live
<1>2. BlocksOK
  <2>1. LiveNodes = {}
    BY <1>1 DEF LiveNodes
  <2>2. pool = InitPool
    BY SMTT(30) DEF Init
  <2> QED
    BY <1>1, <2>1, <2>2, EmptyTree DEF BlocksOK
<1>3. ContentOK
  BY <1>1 DEF ContentOK, Init, Threads
<1>4. MemTypeOK
  <2>1. \A p \in Producers : pc[p] = "idle"
    BY SMTT(30) DEF Init, Threads
  <2>2. chunk \in [Nodes -> Chunks]
    BY DEF Init, Chunks
  <2>3. opt \in [Threads -> Args]
    BY SMTT(30) DEF Init, Args
  <2>4. /\ buffer \in [0 .. PoolSize - 1 -> Msg \cup {NoMsg}] /\ received \in [Consumers -> Seq(Msg)]
        /\ crashes \in 0 .. MaxCrashes
    BY QueueAssumption DEF Init
  <2> QED
    BY <2>1, <2>2, <2>3, <2>4, SMTT(30) DEF MemTypeOK
<1> QED
  BY <1>2, <1>3, <1>4 DEF MemInv

\* IInv and MemInv together are inductive.
LEMMA MemAlways ==
    ASSUME Halves
    PROVE  Spec => [](IInv /\ MemInv)
<1>1. Init => MemInv
  BY InitMemInv
<1>2. IInv /\ MemInv /\ [Next]_vars => MemInv'
  BY NextMemInv
<1> QED
  BY SpecIInv, <1>1, <1>2, PTL DEF Spec

\* If every block of the buddy tree is exactly two of its children, then the blocks of
\* live chunks never share a byte, release_chunk gives back exactly what try_allocate
\* took, and what consumers read are whole messages: for every capacity, every buffer
\* size, all message sizes and any number of producers, consumers and crashes.
THEOREM MemoryAlwaysSound ==
    ASSUME Halves
    PROVE  Spec => []MemorySound
<1>1. ASSUME IInv, MemInv PROVE MemorySound
  <2>1. ControlTypeOK /\ MemTypeOK /\ BlocksOK
    BY <1>1 DEF IInv, MemInv
  <2>2. ChunksDisjoint
    BY <2>1, LiveBytes
  <2>3. MemoryReturned
    <3> SUFFICES ASSUME InFreed = Nodes PROVE pool = InitPool
      BY DEF MemoryReturned
    <3>1. Live = {}
      <4>1. Live \subseteq Nodes
        BY <1>1, InHand
      <4>2. Live \cap InFreed = {}
        BY <1>1 DEF IInv, NodesExclusive, Live
      <4> QED
        BY <4>1, <4>2
    <3>2. LiveNodes = {}
      BY <3>1 DEF LiveNodes
    <3> QED
      BY <2>1, <3>2, EmptyTree DEF BlocksOK
  <2>4. pool \in [BlockIdx -> 0 .. PoolSize]
    <3>1. pool \in [BlockIdx -> Nat] /\ \A i \in BlockIdx : pool[i] <= ComputeBlockSize[i]
      BY <2>1 DEF BlocksOK, TreeOK, Bounded
    <3>2. \A i \in BlockIdx : ComputeBlockSize[i] \in Nat /\ ComputeBlockSize[i] <= PoolSize
      BY InPool
    <3>3. PoolSize \in Nat
      BY PoolAssumption
    <3>4. \A i \in BlockIdx : pool[i] \in 0 .. PoolSize
      BY <3>1, <3>2, <3>3, SMTT(30)
    <3> QED
      BY <3>1, <3>4
  <2>5. /\ \A n \in Nodes : /\ chunk[n].data \in {Null} \cup 0 .. PoolSize - 1
                            /\ chunk[n].size \in {0} \cup Sizes
        /\ \A t \in Threads : opt[t].size \in {0} \cup Sizes /\ opt[t].flag \in BOOLEAN
    BY <2>1 DEF MemTypeOK, Chunks, Args
  <2>6. /\ \A a \in 0 .. PoolSize - 1 : buffer[a] \in Msg \cup {NoMsg}
        /\ \A c \in Consumers : received[c] \in Seq(Msg)
        /\ crashes \in 0 .. MaxCrashes
    BY <2>1, ZenonT(40) DEF MemTypeOK
  <2> QED
    BY <2>1, <2>2, <2>3, <2>4, <2>5, <2>6 DEF MemorySound, TypeOK
<1>2. IInv /\ MemInv => MemorySound
  BY <1>1, SMTT(30)
<1> QED
  BY MemAlways, <1>2, PTL

-----------------------------------------------------------------------------
(***************************************************************************)
(* The queue implements MessageQueue.  These are the variables of the      *)
(* abstract queue, as Abstract maps them.                                  *)
(***************************************************************************)
AbsQueue == [i \in 1 .. Len(fifo) |-> Content(fifo[i])]
AbsFinished == {p \in Producers : pc[p] = "done"}
AbsReceived == [c \in Consumers |-> IF cid[c] = Null THEN received[c]
                                    ELSE Append(received[c], Content(cid[c]))]
AbsEnded == {c \in Consumers : pc[c] = "closed"}

AbsVars == <<AbsQueue, sent, AbsFinished, AbsReceived, AbsEnded>>

\* The chunks that the abstract queue reads.
Visible(n) == n \in InFifo \/ \E c \in Consumers : n = cid[c] /\ n # Null

\* Content with the buffer and the chunk's record as arguments.
ContentOf(bytes, block) ==
    LET read == {bytes[a] : a \in block.data .. block.data + block.size - 1}
    IN  IF Cardinality(read) = 1 THEN CHOOSE m \in read : TRUE ELSE NoMsg

\* What a place of the queue holds after a step is what the node holds that is there then.
LEMMA FifoContent ==
    ASSUME NEW i, NEW n, n = fifo'[i]
    PROVE  Content(fifo[i])' = Content(n)'
<1>1. Content(fifo[i])' = ContentOf(buffer', chunk'[fifo'[i]])
  BY Zenon DEF Content, ContentOf
<1>2. Content(n)' = ContentOf(buffer', chunk'[n])
  BY Zenon DEF Content, ContentOf
<1> QED
  BY <1>1, <1>2

\* The same of the node that a thread has in hand.
LEMMA CidContent ==
    ASSUME NEW c, NEW n, n = cid'[c]
    PROVE  Content(cid[c])' = Content(n)'
<1>1. Content(cid[c])' = ContentOf(buffer', chunk'[cid'[c]])
  BY Zenon DEF Content, ContentOf
<1>2. Content(n)' = ContentOf(buffer', chunk'[n])
  BY Zenon DEF Content, ContentOf
<1> QED
  BY <1>1, <1>2

\* A step that leaves the queue, the consumers' chunks and what they hold alone.
LEMMA AbsFrame ==
    ASSUME IInv, fifo' = fifo, received' = received, \A c \in Consumers : cid'[c] = cid[c],
           \A n : Visible(n) => Content(n)' = Content(n)
    PROVE  AbsQueue' = AbsQueue /\ AbsReceived' = AbsReceived
<1>1. fifo \in Seq(Nodes) /\ \A i \in 1 .. Len(fifo) : fifo[i] \in InFifo
  BY SMTT(30) DEF IInv, ControlTypeOK, InFifo, NodesIn
<1>2. \A i \in 1 .. Len(fifo) : Content(fifo[i])' = Content(fifo[i])
  <2> SUFFICES ASSUME NEW i \in 1 .. Len(fifo) PROVE Content(fifo[i])' = Content(fifo[i])
    BY SMTT(30)
  <2>1. Visible(fifo[i])
    BY <1>1 DEF Visible
  <2>2. PICK n : n = fifo[i] /\ n = fifo'[i]
    BY SMTT(30)
  <2>3. Content(n)' = Content(n)
    BY <2>1, <2>2, SMTT(30)
  <2>4. Content(fifo[i])' = Content(n)'
    BY <2>2, FifoContent, SMTT(30)
  <2> QED
    BY <2>2, <2>3, <2>4
<1>3. AbsQueue' = AbsQueue
  BY <1>2, SMTT(30) DEF AbsQueue
<1>4. \A c \in Consumers : cid[c] # Null => Content(cid[c])' = Content(cid[c])
  <2> SUFFICES ASSUME NEW c \in Consumers, cid[c] # Null
               PROVE  Content(cid[c])' = Content(cid[c])
    BY SMTT(30)
  <2>1. PICK n : n = cid[c] /\ n = cid'[c]
    BY SMTT(30)
  <2>2. Content(n)' = Content(n)
    BY <2>1, SMTT(30) DEF Visible
  <2>3. Content(cid[c])' = Content(n)'
    BY <2>1, CidContent
  <2> QED
    BY <2>1, <2>2, <2>3, SMTT(30)
<1>5. AbsReceived' = AbsReceived
  BY <1>4, ZenonT(40) DEF AbsReceived
<1> QED
  BY <1>3, <1>5, SMTT(30)

\* A step of a thread that neither was nor is at its end.
LEMMA EndsFrame ==
    ASSUME IInv, NEW t \in Threads, NEW l, pc' = [pc EXCEPT ![t] = l],
           l \notin {"done", "closed"}, pc[t] \notin {"done", "closed"}
    PROVE  AbsFinished' = AbsFinished /\ AbsEnded' = AbsEnded
<1>1. \A u \in Threads : /\ pc'[u] = "done" <=> pc[u] = "done"
                         /\ pc'[u] = "closed" <=> pc[u] = "closed"
  BY DEF IInv, ControlTypeOK
<1> QED
  BY <1>1 DEF AbsFinished, AbsEnded, Threads

\* If chunk and buffer stay, every chunk holds what it held.
LEMMA SameContent ==
    ASSUME chunk' = chunk, buffer' = buffer
    PROVE  \A n : Content(n)' = Content(n)
BY HoldsFrame

\* Enqueue sends the message that the producer has filled in.
LEMMA EnqueueSends ==
    ASSUME Halves, IInv, MemInv, NEW p \in Producers, Enqueue(p)
    PROVE  Abstract!Send(p)
<1> USE DEF At, Goto
<1>1. /\ p \in Threads /\ pc[p] = "filled" /\ p \notin Consumers /\ Consumers \subseteq Threads
      /\ cid \in [Threads -> Nodes \cup {Null}] /\ fifo \in Seq(Nodes)
      /\ sent[p] < MsgsPerProducer /\ cid[p] \in Nodes
  BY InHand, QueueAssumption, ZenonT(40) DEF Enqueue, IInv, ControlTypeOK, SendsBounded, HoldsChunk
<1>2. /\ fifo' = Append(fifo, cid[p]) /\ cid' = [cid EXCEPT ![p] = Null]
      /\ UNCHANGED <<chunk, buffer, received>>
      /\ sent' = [sent EXCEPT ![p] = @ + 1] /\ pc' = [pc EXCEPT ![p] = "idle"]
  BY DEF Enqueue, memory
<1>3. Content(cid[p]) = <<p, sent[p] + 1>>
  BY EnqueueMem, Zenon
<1>4. \A n : Content(n)' = Content(n)
  BY <1>2, SameContent
<1>5. AbsFinished' = AbsFinished /\ AbsEnded' = AbsEnded /\ p \notin AbsFinished
  BY <1>1, <1>2, EndsFrame, ZenonT(40) DEF AbsFinished
<1>6. \A c \in Consumers : cid'[c] = cid[c]
  BY <1>1, <1>2
<1>7. AbsReceived' = AbsReceived
  <2>1. ASSUME NEW c \in Consumers PROVE Content(cid[c])' = Content(cid[c])
    <3>1. PICK n : n = cid[c] /\ n = cid'[c]
      BY <1>6
    <3>2. Content(cid[c])' = Content(n)'
      BY <3>1, CidContent
    <3> QED
      BY <1>4, <3>1, <3>2
  <2> QED
    BY <1>2, <1>6, <2>1, SMTT(30) DEF AbsReceived
<1>8. AbsQueue' = Append(AbsQueue, <<p, sent[p] + 1>>)
  <2>1. PICK n \in Nat : n = Len(fifo)
    BY <1>1, SMTT(30)
  <2>2. Len(fifo') = n + 1 /\ fifo'[n + 1] = cid[p] /\ \A i \in 1 .. n : fifo'[i] = fifo[i]
    BY <1>1, <1>2, <2>1
  <2>3. AbsQueue' = [i \in 1 .. n + 1 |-> Content(fifo[i])']
    BY <2>2, SMTT(30) DEF AbsQueue
  <2>4. ASSUME NEW i \in 1 .. n + 1
        PROVE  Content(fifo[i])' = IF i = n + 1 THEN <<p, sent[p] + 1>> ELSE Content(fifo[i])
    <3>1. PICK m : m = fifo'[i]
      OBVIOUS
    <3>2. Content(fifo[i])' = Content(m)'
      BY <3>1, FifoContent
    <3>3. m = IF i = n + 1 THEN cid[p] ELSE fifo[i]
      BY <2>2, <3>1
    <3> QED
      BY <1>3, <1>4, <3>2, <3>3
  <2>5. AbsQueue = [i \in 1 .. n |-> Content(fifo[i])]
    BY <2>1 DEF AbsQueue
  <2>6. AbsQueue' = [i \in 1 .. n + 1 |->
                        IF i = n + 1 THEN <<p, sent[p] + 1>> ELSE Content(fifo[i])]
    BY <2>3, <2>4
  <2> DEFINE q == [i \in 1 .. n |-> Content(fifo[i])]
  <2>7. Len(q) = n /\ q \in Seq({Content(fifo[i]) : i \in 1 .. n})
    OBVIOUS
  <2>8. Append(q, <<p, sent[p] + 1>>) = [i \in 1 .. n + 1 |->
                        IF i = n + 1 THEN <<p, sent[p] + 1>> ELSE Content(fifo[i])]
    BY <2>7
  <2> QED
    BY <2>5, <2>6, <2>8, SMTT(30)
<1> QED
  BY <1>1, <1>2, <1>5, <1>7, <1>8, ZenonT(40)
     DEF Abstract!Send, AbsQueue, AbsFinished, AbsReceived, AbsEnded

\* A successful dequeue receives the oldest message.
LEMMA DequeueReceives ==
    ASSUME Halves, IInv, MemInv, NEW c \in Consumers, DequeueOk(c)
    PROVE  Abstract!Receive(c)
<1> USE DEF At, Goto
<1>1. /\ c \in Threads /\ pc[c] = "polling" /\ Consumers \subseteq Threads
      /\ cid \in [Threads -> Nodes \cup {Null}] /\ fifo \in Seq(Nodes)
  BY InHand, Zenon DEF DequeueOk, IInv, ControlTypeOK
<1>2. /\ fifo' = Tail(fifo) /\ cid' = [cid EXCEPT ![c] = list.head]
      /\ UNCHANGED <<chunk, buffer, received, sent>> /\ pc' = [pc EXCEPT ![c] = "reading"]
  BY DEF DequeueOk, memory
<1>3. PICK h : h = list.head /\ fifo # <<>> /\ h = fifo[1] /\ cid[c] = Null /\ h # Null
  BY DequeueMem
<1>4. \A n : Content(n)' = Content(n)
  BY <1>2, SameContent
<1>5. AbsFinished' = AbsFinished /\ AbsEnded' = AbsEnded /\ c \notin AbsEnded
  <2>1. pc' = [pc EXCEPT ![c] = "reading"] /\ pc[c] \notin {"done", "closed"}
    BY <1>1, <1>2
  <2>2. AbsFinished' = AbsFinished /\ AbsEnded' = AbsEnded
    BY <1>1, <2>1, EndsFrame, ZenonT(40)
  <2> QED
    BY <2>1, <2>2 DEF AbsEnded
<1>6. PICK n \in Nat : Len(fifo) = n + 1
  <2>1. Len(fifo) \in Nat /\ Len(fifo) # 0
    BY <1>1, <1>3
  <2>2. Len(fifo) - 1 \in Nat /\ Len(fifo) = (Len(fifo) - 1) + 1
    BY <2>1
  <2> QED
    BY <2>2, Zenon
<1>7. Len(fifo') = n /\ \A i \in 1 .. n : fifo'[i] = fifo[i + 1]
  BY <1>1, <1>2, <1>3, <1>6
<1> DEFINE q == [i \in 1 .. n + 1 |-> Content(fifo[i])]
<1>8. AbsQueue = q /\ Len(q) = n + 1 /\ q \in Seq({Content(fifo[i]) : i \in 1 .. n + 1})
  <2>1. AbsQueue = q
    BY <1>1, <1>6 DEF AbsQueue
  <2> DEFINE S == {Content(fifo[i]) : i \in 1 .. n + 1}
  <2>2. q \in [1 .. n + 1 -> S]
    OBVIOUS
  <2> HIDE DEF q, S
  <2>3. n + 1 \in Nat /\ q \in Seq(S)
    BY <2>2
  <2>4. Len(q) = n + 1
    BY <2>2, <2>3
  <2> QED
    BY <2>1, <2>3, <2>4 DEF S
<1>9. AbsQueue # <<>> /\ Head(AbsQueue) = Content(h)
  <2>1. q # <<>> /\ Head(q) = q[1] /\ q[1] = Content(h)
    BY <1>3, <1>8
  <2> QED
    BY <1>8, <2>1, SMTT(30)
<1>10. AbsQueue' = Tail(AbsQueue)
  <2>1. AbsQueue' = [i \in 1 .. n |-> Content(fifo[i])']
    BY <1>7, SMTT(30) DEF AbsQueue
  <2>2. ASSUME NEW i \in 1 .. n PROVE Content(fifo[i])' = Content(fifo[i + 1])
    <3>1. PICK m : m = fifo'[i]
      OBVIOUS
    <3>2. Content(fifo[i])' = Content(m)'
      BY <3>1, FifoContent
    <3> QED
      BY <1>4, <1>7, <3>1, <3>2
  <2>3. AbsQueue' = [i \in 1 .. n |-> Content(fifo[i + 1])]
    BY <2>1, <2>2
  <2>4. Tail(q) = [i \in 1 .. n |-> q[i + 1]]
    BY <1>8
  <2>5. \A i \in 1 .. n : q[i + 1] = Content(fifo[i + 1])
    OBVIOUS
  <2> HIDE DEF q
  <2> QED
    BY <1>8, <2>3, <2>4, <2>5
<1>11. AbsReceived' = [AbsReceived EXCEPT ![c] = Append(@, Content(h))]
  <2>1. /\ \A d \in Consumers : d # c => cid'[d] = cid[d]
        /\ cid'[c] = h
    BY <1>1, <1>2, <1>3
  <2>2. ASSUME NEW d \in Consumers
        PROVE  AbsReceived'[d] = IF d = c THEN Append(AbsReceived[c], Content(h)) ELSE AbsReceived[d]
    <3>1. PICK m : m = cid'[d]
      BY SMTT(30)
    <3>2. Content(cid[d])' = Content(m)
      <4>1. Content(cid[d])' = Content(m)'
        BY <3>1, CidContent, SMTT(30)
      <4> QED
        BY <1>4, <4>1
    <3>3. AbsReceived'[d] = IF m = Null THEN received[d] ELSE Append(received[d], Content(m))
      BY <1>2, <3>1, <3>2, SMTT(30) DEF AbsReceived
    <3> QED
      BY <1>3, <2>1, <3>1, <3>3, ZenonT(40) DEF AbsReceived
  <2>3. /\ AbsReceived' = [d \in Consumers |-> AbsReceived'[d]]
        /\ AbsReceived = [d \in Consumers |-> AbsReceived[d]]
    BY DEF AbsReceived
  <2> QED
    BY <2>2, <2>3
<1>12. /\ AbsReceived' = [AbsReceived EXCEPT ![c] = Append(@, Head(AbsQueue))]
  BY <1>9, <1>11, ZenonT(40)
<1> HIDE DEF q
<1> QED
  BY <1>2, <1>5, <1>9, <1>10, <1>12, ZenonT(40)
     DEF Abstract!Receive, AbsQueue, AbsFinished, AbsReceived, AbsEnded

\* dequeue says "closed" only when the abstract queue may end.
LEMMA ClosedEnds ==
    ASSUME CountsAgree, IInv, CountInv, NEW c \in Consumers, DequeueClosed(c)
    PROVE  Abstract!End(c)
<1> USE DEF At, Goto
<1>1. /\ c \in Threads /\ pc[c] = "polling" /\ c \notin Producers
      /\ Producers \subseteq Threads /\ Consumers \subseteq Threads /\ pc \in [Threads -> PcValues]
  BY InHand, QueueAssumption DEF DequeueClosed, IInv, ControlTypeOK
<1>2. /\ UNCHANGED <<fifo, chunk, buffer, cid, received, sent>>
      /\ pc' = [pc EXCEPT ![c] = "closed"]
  BY DEF DequeueClosed, region, memory
<1>3. ClosedMeansDrained'
  <2>1. [Next]_vars
    BY DEF Next, ConsumerStep
  <2> QED
    BY <2>1, NextCountInv, ZenonT(40) DEF CountInv
<1>4. fifo = <<>> /\ \A p \in Producers : pc[p] = "done"
  <2>1. pc'[c] = "closed" /\ \A p \in Producers : pc'[p] = pc[p]
    BY <1>1, <1>2
  <2> QED
    BY <1>2, <1>3, <2>1 DEF ClosedMeansDrained
<1>5. /\ AbsFinished = Producers /\ AbsFinished' = AbsFinished /\ c \notin AbsEnded
      /\ AbsEnded' = AbsEnded \cup {c}
  BY <1>1, <1>2, <1>4 DEF AbsFinished, AbsEnded
<1>6. AbsQueue = <<>>
  BY <1>4 DEF AbsQueue
<1>7. AbsQueue' = AbsQueue /\ AbsReceived' = AbsReceived
  BY <1>2, SameContent, AbsFrame
<1> QED
  BY <1>2, <1>5, <1>6, <1>7, Zenon
     DEF Abstract!End, AbsQueue, AbsFinished, AbsReceived, AbsEnded

\* signal_preducing_complete is the end of the producer.
LEMMA SignalFinishes ==
    ASSUME IInv, NEW p \in Producers, SignalPreducingComplete(p)
    PROVE  Abstract!Finish(p)
<1> USE DEF At, Goto
<1>1. /\ p \in Threads /\ pc[p] = "idle" /\ p \notin Consumers
      /\ Producers \subseteq Threads /\ Consumers \subseteq Threads /\ pc \in [Threads -> PcValues]
      /\ sent[p] = MsgsPerProducer
  BY InHand, QueueAssumption DEF SignalPreducingComplete, IInv, ControlTypeOK
<1>2. /\ UNCHANGED <<fifo, chunk, buffer, cid, received, sent>>
      /\ pc' = [pc EXCEPT ![p] = "done"]
  BY ZenonT(40) DEF SignalPreducingComplete, region, memory
<1>3. /\ p \notin AbsFinished /\ AbsFinished' = AbsFinished \cup {p} /\ AbsEnded' = AbsEnded
  BY <1>1, <1>2 DEF AbsFinished, AbsEnded
<1>4. AbsQueue' = AbsQueue /\ AbsReceived' = AbsReceived
  BY <1>2, SameContent, AbsFrame
<1> QED
  BY <1>1, <1>2, <1>3, <1>4, ZenonT(40)
     DEF Abstract!Finish, AbsQueue, AbsFinished, AbsReceived, AbsEnded

\* A step of thread t that touches no chunk a consumer can see, and no consumer.
LEMMA HiddenStep ==
    ASSUME IInv, NEW t \in Threads, NEW l, pc' = [pc EXCEPT ![t] = l],
           l \notin {"done", "closed"}, pc[t] \notin {"done", "closed"},
           fifo' = fifo, received' = received, sent' = sent,
           \A c \in Consumers : cid'[c] = cid[c],
           \A n : Visible(n) => Content(n)' = Content(n)
    PROVE  UNCHANGED AbsVars
BY AbsFrame, EndsFrame, Zenon DEF AbsVars

\* An allocation takes a chunk that no consumer can see.
LEMMA AllocateHidden ==
    ASSUME Halves, IInv, MemInv, NEW p \in Producers, AllocateOk(p)
    PROVE  UNCHANGED AbsVars
<1> USE DEF At, Goto
<1>1. /\ p \in Threads /\ pc[p] = "allocating" /\ p \notin Consumers /\ Consumers \subseteq Threads
      /\ cid \in [Threads -> Nodes \cup {Null}]
  BY InHand, QueueAssumption, Zenon DEF AllocateOk, IInv, ControlTypeOK
<1>2. PICK h, v : /\ h = list.free_list_head
                  /\ chunk' = [chunk EXCEPT ![h] = v] /\ cid' = [cid EXCEPT ![p] = h]
                  /\ fifo' = fifo /\ buffer' = buffer /\ received' = received /\ sent' = sent
                  /\ pc' = [pc EXCEPT ![p] = "filling"]
  BY Zenon DEF AllocateOk
<1>3. h \notin Live
  BY <1>2, AllocateOkMem, SMTT(30)
<1>4. ASSUME NEW n, Visible(n) PROVE Content(n)' = Content(n)
  <2>1. n \in Live
    BY <1>4, ReadsMessage DEF Visible
  <2>2. n \in Nodes /\ DOMAIN chunk = Nodes
    BY <2>1, InHand, ZenonT(40) DEF MemInv, MemTypeOK
  <2>3. chunk'[n] = chunk[n]
    BY <1>2, <1>3, <2>1, <2>2
  <2> QED
    BY <1>2, <2>3, HoldsFrame
<1>5. \A c \in Consumers : cid'[c] = cid[c]
  BY <1>1, <1>2
<1>6. /\ fifo' = fifo /\ received' = received /\ sent' = sent
      /\ pc' = [pc EXCEPT ![p] = "filling"] /\ pc[p] \notin {"done", "closed"}
  BY <1>1, <1>2
<1> QED
  <2>1. p \in Threads /\ "filling" \notin {"done", "closed"}
    BY <1>1
  <2> QED
    BY <2>1, <1>4, <1>5, <1>6, HiddenStep, Zenon

\* The memcpy of a producer writes a chunk that no consumer can see.
LEMMA FillHidden ==
    ASSUME Halves, IInv, MemInv, NEW p \in Producers, Fill(p)
    PROVE  UNCHANGED AbsVars
<1> USE DEF At, Goto
<1>1. /\ p \in Threads /\ pc[p] = "filling" /\ p \notin Consumers /\ Consumers \subseteq Threads
      /\ cid[p] \in Live /\ cid[p] \in Held
  BY InHand, QueueAssumption, Zenon DEF Fill, IInv, HoldsChunk, Held
<1>2. /\ UNCHANGED <<cid, fifo, received, sent>> /\ pc' = [pc EXCEPT ![p] = "filled"]
  BY ZenonT(40) DEF Fill, region
<1>3. ASSUME NEW n, Visible(n) PROVE Content(n)' = Content(n)
  <2>1. n \in Live
    BY <1>3, ReadsMessage DEF Visible
  <2>2. n # cid[p]
    BY <1>1, <1>3 DEF Visible, IInv, NodesExclusive
  <2> QED
    BY <2>1, <2>2, FillMem, HoldsFrame, ZenonT(40)
<1> QED
  BY <1>1, <1>2, <1>3, HiddenStep, ZenonT(40)

\* release_chunk after a read: the consumer had its message already.
LEMMA ReleaseHidden ==
    ASSUME Halves, IInv, MemInv, NEW c \in Consumers, Release(c)
    PROVE  UNCHANGED AbsVars
<1> USE DEF At, Goto
<1>1. /\ c \in Threads /\ pc[c] = "reading" /\ cid[c] # Null /\ Consumers \subseteq Threads
      /\ cid \in [Threads -> Nodes \cup {Null}] /\ received \in [Consumers -> Seq(Msg)]
  BY InHand, ReleaseStepMem, ZenonT(40) DEF Release, IInv, ControlTypeOK, MemInv, MemTypeOK
<1>2. /\ received' = [received EXCEPT ![c] = Append(@, Content(cid[c]))]
      /\ cid' = [cid EXCEPT ![c] = Null] /\ pc' = [pc EXCEPT ![c] = "idle"]
      /\ fifo' = fifo /\ chunk' = chunk /\ buffer' = buffer /\ sent' = sent
  BY DEF Release, ReleaseChunk
<1>3. \A n : Content(n)' = Content(n)
  BY <1>2, SameContent
<1>4. AbsFinished' = AbsFinished /\ AbsEnded' = AbsEnded
  <2>1. pc' = [pc EXCEPT ![c] = "idle"] /\ pc[c] \notin {"done", "closed"}
    BY <1>1, <1>2
  <2> QED
    BY <1>1, <2>1, EndsFrame, ZenonT(40)
<1>5. AbsQueue' = AbsQueue
  <2>1. ASSUME NEW i \in 1 .. Len(fifo) PROVE Content(fifo[i])' = Content(fifo[i])
    <3>1. PICK m : m = fifo'[i]
      OBVIOUS
    <3>2. Content(fifo[i])' = Content(m)'
      BY <3>1, FifoContent
    <3>3. m = fifo[i]
      BY <1>2, <3>1
    <3> QED
      BY <1>3, <3>2, <3>3
  <2> QED
    BY <1>2, <2>1, SMTT(30) DEF AbsQueue
<1>6. AbsReceived' = AbsReceived
  <2>1. ASSUME NEW d \in Consumers PROVE AbsReceived'[d] = AbsReceived[d]
    <3>1. CASE d = c
      <4>1. cid'[c] = Null /\ received'[c] = Append(received[c], Content(cid[c]))
        BY <1>1, <1>2
      <4> QED
        BY <1>1, <3>1, <4>1, ZenonT(40) DEF AbsReceived
    <3>2. CASE d # c
      <4>1. PICK m : m = cid[d] /\ m = cid'[d]
        BY <1>1, <1>2, <3>2, SMTT(30)
      <4>2. Content(cid[d])' = Content(m)'
        BY <4>1, CidContent
      <4>3. received'[d] = received[d]
        BY <1>1, <1>2, <3>2, SMTT(30)
      <4> QED
        BY <1>3, <4>1, <4>2, <4>3, ZenonT(40) DEF AbsReceived
    <3> QED
      BY <3>1, <3>2
  <2>2. /\ AbsReceived' = [d \in Consumers |-> AbsReceived'[d]]
        /\ AbsReceived = [d \in Consumers |-> AbsReceived[d]]
    BY SMTT(30) DEF AbsReceived
  <2> QED
    BY <2>1, <2>2, SMTT(30)
<1> QED
  BY <1>2, <1>4, <1>5, <1>6 DEF AbsVars

\* Every step of the queue is a step of MessageQueue or invisible to it.
LEMMA StepRefines ==
    ASSUME Halves, CountsAgree, IInv, MemInv, CountInv, [Next]_vars
    PROVE  Abstract!Next \/ UNCHANGED AbsVars
<1> USE DEF At, Goto, region, memory, clients
<1>0. Producers \subseteq Threads /\ Consumers \subseteq Threads /\ \A p \in Producers : p \notin Consumers
  BY InHand, QueueAssumption
<1>1. ASSUME \/ \E count \in PreducerCounts : SetPreducerCount(count)
             \/ Close
             \/ UNCHANGED vars
      PROVE  UNCHANGED AbsVars
  <2>1. UNCHANGED <<chunk, buffer, cid, fifo, received, sent, pc>>
    BY <1>1 DEF SetPreducerCount, Close, vars
  <2>2. AbsQueue' = AbsQueue /\ AbsReceived' = AbsReceived
    BY <2>1, SameContent, AbsFrame
  <2> QED
    BY <2>1, <2>2, SMTT(30) DEF AbsVars, AbsFinished, AbsEnded
<1>2. ASSUME NEW t \in Threads, NEW l, pc' = [pc EXCEPT ![t] = l],
             l \notin {"done", "closed"}, pc[t] \notin {"done", "closed"},
             UNCHANGED <<fifo, received, sent, chunk, buffer>>,
             \A c \in Consumers : cid'[c] = cid[c]
      PROVE  UNCHANGED AbsVars
  BY <1>2, SameContent, HiddenStep, ZenonT(40)
<1>3. ASSUME NEW p \in Producers,
             \/ \E size \in Sizes, block \in Blocking : StartSend(p, size, block)
             \/ AllocateNoNode(p) \/ AllocateNoMemory(p)
      PROVE  UNCHANGED AbsVars
  <2>1. /\ UNCHANGED <<chunk, buffer, cid, fifo, received, sent>> /\ pc[p] \in {"idle", "allocating"}
        /\ \E l \in {"allocating", "idle"} : pc' = [pc EXCEPT ![p] = l]
    BY <1>3, Zenon DEF StartSend, AllocateNoNode, AllocateNoMemory, AfterFailure
  <2> QED
    BY <1>0, <1>2, <2>1, ZenonT(40)
<1>4. ASSUME NEW p \in Producers, Cancel(p)
      PROVE  UNCHANGED AbsVars
  <2>1. /\ UNCHANGED <<chunk, buffer, fifo, received, sent>> /\ pc[p] = "filling"
        /\ pc' = [pc EXCEPT ![p] = "idle"] /\ cid' = [cid EXCEPT ![p] = Null]
    BY <1>4, SMTT(30) DEF Cancel, ReleaseChunk
  <2>2. \A c \in Consumers : cid'[c] = cid[c]
    BY <1>0, <2>1 DEF IInv, ControlTypeOK
  <2> QED
    BY <1>0, <1>2, <2>1, <2>2, ZenonT(40)
<1>5. ASSUME NEW c \in Consumers,
             \/ \E timed \in Timed : StartDequeue(c, timed)
             \/ DequeueTimeout(c) \/ DequeueSleep(c) \/ DequeueWake(c)
      PROVE  UNCHANGED AbsVars
  <2>1. /\ UNCHANGED <<chunk, buffer, cid, fifo, received, sent>>
        /\ pc[c] \in {"idle", "polling", "sleeping"}
        /\ \E l \in {"idle", "sleeping", "polling"} : pc' = [pc EXCEPT ![c] = l]
    BY <1>5, ZenonT(40) DEF StartDequeue, DequeueTimeout, DequeueSleep, DequeueWake
  <2> QED
    BY <1>0, <1>2, <2>1, ZenonT(40)
<1>6. ASSUME NEW t \in Threads, Crash(t)
      PROVE  UNCHANGED AbsVars
  <2>1. /\ UNCHANGED <<chunk, buffer, cid, fifo, received, sent>>
        /\ pc[t] \notin {"done", "closed"} /\ pc' = [pc EXCEPT ![t] = "crashed"]
    BY <1>6, SMTT(30) DEF Crash
  <2> QED
    BY <1>2, <2>1, ZenonT(40)
<1>7. ASSUME NEW p \in Producers, ProducerStep(p)
      PROVE  (\E q \in Producers : Abstract!Send(q) \/ Abstract!Finish(q)) \/ UNCHANGED AbsVars
  BY <1>3, <1>4, <1>7, AllocateHidden, FillHidden, EnqueueSends, SignalFinishes DEF ProducerStep
<1>8. ASSUME NEW c \in Consumers, ConsumerStep(c)
      PROVE  (\E d \in Consumers : Abstract!Receive(d) \/ Abstract!End(d)) \/ UNCHANGED AbsVars
  BY <1>5, <1>8, ReleaseHidden, DequeueReceives, ClosedEnds DEF ConsumerStep
<1> QED
  BY <1>1, <1>6, <1>7, <1>8, SMTT(30) DEF Next, Abstract!Next

\* The queue starts as an empty MessageQueue.
LEMMA InitRefines == Init => Abstract!Init
<1> SUFFICES ASSUME Init PROVE Abstract!Init
  OBVIOUS
<1>1. /\ fifo = <<>> /\ sent = [p \in Producers |-> 0] /\ received = [c \in Consumers |-> <<>>]
      /\ \A t \in Threads : pc[t] = "idle" /\ cid[t] = Null
  BY DEF Init
<1>2. AbsQueue = <<>>
  BY <1>1, SMTT(30) DEF AbsQueue
<1>3. AbsFinished = {} /\ AbsEnded = {}
  BY <1>1, SMTT(30) DEF AbsFinished, AbsEnded, Threads
<1>4. AbsReceived = [c \in Consumers |-> <<>>]
  BY <1>1 DEF AbsReceived, Threads
<1> QED
  BY <1>1, <1>2, <1>3, <1>4, SMTT(30)
     DEF Abstract!Init, AbsQueue, AbsFinished, AbsReceived, AbsEnded

\* The shared-memory queue implements MessageQueue: whatever the processes do, and
\* with crashes, messages come out in the order in which enqueue put them in,
\* each one once and unchanged, and dequeue says "closed" only when every producer
\* has signalled its end and nothing is left.  The hypotheses are those of the
\* code's own uses: a buffer that halves evenly, as the buddy allocator needs it,
\* and a set_preducer_count that announces the producers there are.
THEOREM RefinesMessageQueue ==
    ASSUME Halves, CountsAgree
    PROVE  Spec => ImplementsMessageQueue
<1>1. Init => Abstract!Init /\ CountInv
  <2> SUFFICES ASSUME Init PROVE CountInv
    BY InitRefines, SMTT(30)
  <2>1. main = "init" /\ \A t \in Threads : pc[t] = "idle"
    BY DEF Init
  <2> QED
    BY <2>1 DEF CountInv, ClosedMeansDrained, Threads
<1>2. IInv /\ CountInv /\ [Next]_vars => CountInv'
  BY NextCountInv
<1>3. IInv /\ MemInv /\ CountInv /\ [Next]_vars => [Abstract!Next]_(Abstract!vars)
  <2> SUFFICES ASSUME IInv, MemInv, CountInv, [Next]_vars
               PROVE  Abstract!Next \/ UNCHANGED Abstract!vars
    OBVIOUS
  <2>1. UNCHANGED AbsVars => UNCHANGED Abstract!vars
    BY ZenonT(40) DEF AbsVars, Abstract!vars, AbsQueue, AbsFinished, AbsReceived, AbsEnded
  <2> QED
    BY <2>1, StepRefines
<1> QED
  BY MemAlways, <1>1, <1>2, <1>3, PTL DEF Spec, ImplementsMessageQueue, Abstract!Spec

-----------------------------------------------------------------------------
(***************************************************************************)
(* A buffer of m * 2^k bytes, with m < 2 * kMinBlockSize.                  *)
(***************************************************************************)

\* compute_num_order gives such a buffer at most k + 1 levels.
LEMMA OrdersOfMultiple ==
    ASSUME NEW m \in Nat, m < 2 * kMinBlockSize, NEW k \in Nat
    PROVE  ComputeNumOrder(m * Pow2[k], kMinBlockSize) <= k + 1
<1> DEFINE orders == CHOOSE f :
                f = [s \in Nat |-> IF s >= kMinBlockSize THEN 1 + f[s \div 2] ELSE 0]
           up == [s \in Nat |-> s \div 2]
           h == [z \in Nat \X Nat |-> IF z[1] >= kMinBlockSize THEN 1 + z[2] ELSE 0]
<1>0. kMinBlockSize \in Nat \ {0}
  BY QueueAssumption
<1>1. up \in [Nat -> Nat] /\ \A s \in Nat : up[s] = s \div 2 /\ (s # 0 => up[s] < s)
  OBVIOUS
<1>2. h \in [Nat \X Nat -> Nat]
  OBVIOUS
<1>3. ASSUME NEW s \in Nat, NEW x \in Nat
      PROVE  h[<<s, x>>] = IF s >= kMinBlockSize THEN 1 + x ELSE 0
  OBVIOUS
<1> HIDE DEF up, h
<1>4. PICK g : PathSolves(Nat, up, 0, h, g)
  BY <1>1, <1>2, PathRecursion, ZenonT(40)
<1>5. ASSUME NEW s \in Nat PROVE g[s] = IF s >= kMinBlockSize THEN 1 + g[s \div 2] ELSE 0
  <2>1. CASE s = 0
    <3>1. g[s] = 0
      BY <1>4, <2>1, ZenonT(40) DEF PathSolves
    <3>2. ~(s >= kMinBlockSize)
      BY <1>0, <2>1, SMTT(30)
    <3> QED
      BY <3>1, <3>2
  <2>2. CASE s # 0
    <3>1. g[s] = h[<<s, g[s \div 2]>>] /\ g[s \div 2] \in Nat
      BY <1>1, <1>4, <2>2 DEF PathSolves
    <3> QED
      BY <1>3, <3>1, SMTT(30)
  <2> QED
    BY <2>1, <2>2
<1>6. g = [s \in Nat |-> IF s >= kMinBlockSize THEN 1 + g[s \div 2] ELSE 0]
  <2>1. g = [s \in Nat |-> g[s]]
    BY <1>4 DEF PathSolves
  <2> QED
    BY <1>5, <2>1, Zenon
<1>7. orders = [s \in Nat |-> IF s >= kMinBlockSize THEN 1 + orders[s \div 2] ELSE 0]
  BY <1>6, Zenon
<1>8. \A n : ComputeNumOrder(n, kMinBlockSize) = orders[n]
  BY Zenon DEF ComputeNumOrder, orders
<1> HIDE DEF orders
<1>9. \A s \in Nat : orders[s] = IF s >= kMinBlockSize THEN 1 + orders[s \div 2] ELSE 0
  BY <1>7
<1>10. \A s \in Nat : s < kMinBlockSize => orders[s] = 0
  BY <1>0, <1>9
<1> DEFINE size == [n \in Nat |-> m * Pow2[n]]
           Good == {n \in Nat : orders[size[n]] \in Nat /\ orders[size[n]] <= n + 1}
<1>11. size[0] = m
  BY Powers
<1>12. ASSUME NEW n \in Nat PROVE size[n] \in Nat /\ size[n + 1] = 2 * size[n]
  <2>1. PICK x \in Nat : x = Pow2[n] /\ Pow2[n + 1] = 2 * x
    BY Powers
  <2>2. m * x \in Nat /\ m * (2 * x) = 2 * (m * x)
    OBVIOUS
  <2>3. size[n] = m * x /\ size[n + 1] = m * (2 * x)
    BY <2>1
  <2> HIDE DEF size
  <2> QED
    BY <2>2, <2>3
<1>13. size[k] = m * Pow2[k]
  BY SMTT(30)
<1> HIDE DEF size
<1>14. ASSUME NEW n \in Nat, \A i \in Nat : i < n => i \in Good PROVE n \in Good
  <2>1. CASE n = 0
    <3>1. m \div 2 \in Nat /\ m \div 2 < kMinBlockSize
      BY <1>0
    <3>2. orders[m] \in {0, 1}
      BY <1>9, <1>10, <3>1
    <3> QED
      BY <1>11, <2>1, <3>2
  <2>2. CASE n # 0
    <3>1. PICK i \in Nat : n = i + 1 /\ i < n
      <4>1. n - 1 \in Nat /\ n = (n - 1) + 1 /\ n - 1 < n
        BY <2>2
      <4> QED
        BY <4>1
    <3>2. PICK x \in Nat : x = size[i] /\ size[n] = 2 * x
      BY <1>12, <3>1
    <3>3. (2 * x) \div 2 = x /\ 2 * x \in Nat
      OBVIOUS
    <3>4. PICK y \in Nat : y = orders[x] /\ y <= i + 1
      BY <1>14, <3>1, <3>2, SMTT(30)
    <3>5. orders[2 * x] = IF 2 * x >= kMinBlockSize THEN 1 + y ELSE 0
      BY <1>9, <3>3, <3>4
    <3>6. orders[2 * x] \in Nat /\ orders[2 * x] <= n + 1
      BY <3>1, <3>4, <3>5
    <3> QED
      BY <3>2, <3>6
  <2> QED
    BY <2>1, <2>2
<1>15. \A n \in Nat : n \in Good
  <2> HIDE DEF Good
  <2> QED
    BY <1>14, Induction
<1> QED
  BY <1>8, <1>13, <1>15

\* init makes the buffer a number of MiB, and kMinBlockSize is 512.  So the blocks
\* halve evenly for every buffer below 1024 MiB (m MiB are m * 2^20 bytes), and for
\* the 3296 MiB of the test with 100 workers (103 * 2^25 bytes).  With such a
\* buffer, and with the producers announced, the chunks are sound and the queue
\* implements MessageQueue: no hypothesis about the tree is left.
COROLLARY QueueOfMegabytes ==
    ASSUME CountsAgree, NEW m \in Nat, m < 2 * kMinBlockSize, NEW k \in Nat,
           PoolSize = m * Pow2[k]
    PROVE  Spec => []MemorySound /\ ImplementsMessageQueue
<1>1. NumOrder <= k + 1
  BY OrdersOfMultiple, NumOrderAssumption
<1>2. Halves
  BY <1>1, MultiplesHalve
<1>3. Spec => []MemorySound
  BY <1>2, MemoryAlwaysSound
<1>4. Spec => ImplementsMessageQueue
  BY <1>2, RefinesMessageQueue
<1> QED
  BY <1>3, <1>4, PTL
=============================================================================
