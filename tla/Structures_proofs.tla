-------------------------- MODULE Structures_proofs --------------------------
(***************************************************************************)
(* Proofs about four data structures and algorithms: BlockingQueue, for    *)
(* any threads, capacity and calls; UFS, for any number of elements; Kmp,  *)
(* for any alphabet and texts of any length; SparseTable, for any          *)
(* elements.                                                               *)
(***************************************************************************)
EXTENDS BlockingQueue, UFS, Kmp, SparseTable,
        FiniteSetTheorems, FunctionTheorems, TLAPS

PcValues == {"idle", "entered", "waiting", "woken", "expired"}

\* A thread inside an operation has begun a call.
InsideCall == \A t \in Threads : pc[t] # "idle" => calls[t] \in 1 .. Calls

IInv == TypeOK /\ InsideCall /\ EmptyWaitersJustified /\ FullWaitersJustified

-----------------------------------------------------------------------------
\* A thread that calls an operation, is woken or times out touches nothing else.
LEMMA MoveIInv ==
    ASSUME IInv, NEW t \in Threads, NEW l \in PcValues, l # "waiting",
           pc' = [pc EXCEPT ![t] = l],
           \/ op' = op /\ calls' = calls /\ (l = "idle" \/ pc[t] # "idle")
           \/ \E o \in Ops : op' = [op EXCEPT ![t] = o] /\ calls[t] < Calls
                             /\ calls' = [calls EXCEPT ![t] = @ + 1],
           UNCHANGED <<tasks_, out, cleared>>
    PROVE  IInv'
<1>1. TypeOK'
  <2>1. pc' \in [Threads -> PcValues]
    BY DEF IInv, TypeOK, PcValues
  <2>2. op' \in [Threads -> Ops]
    BY DEF IInv, TypeOK
  <2>3. calls' \in [Threads -> 0 .. Calls]
    <3>1. calls \in [Threads -> 0 .. Calls] /\ Calls \in Nat
      BY BlockingQueueAssumption DEF IInv, TypeOK
    <3>2. CASE calls' = calls
      BY <3>1, <3>2
    <3>3. CASE calls[t] < Calls /\ calls' = [calls EXCEPT ![t] = @ + 1]
      <4>1. calls[t] + 1 \in 0 .. Calls
        BY <3>1, <3>3
      <4> QED
        BY <3>1, <3>3, <4>1
    <3> QED
      BY <3>2, <3>3
  <2> QED
    BY <2>1, <2>2, <2>3 DEF IInv, TypeOK, PcValues
<1>2. InsideCall'
  BY BlockingQueueAssumption DEF IInv, TypeOK, InsideCall
<1>3. EmptyWaitersJustified' /\ FullWaitersJustified'
  BY DEF IInv, TypeOK, EmptyWaitersJustified, FullWaitersJustified, OnEmpty, OnFull
<1> QED
  BY <1>1, <1>2, <1>3 DEF IInv

\* wait and wait_for block only while their predicate is false.
LEMMA WaitIInv ==
    ASSUME IInv, NEW t \in Threads, Wait(t)
    PROVE  IInv'
<1>1. /\ pc' = [pc EXCEPT ![t] = "waiting"] /\ pc[t] # "idle"
      /\ UNCHANGED <<tasks_, op, calls, out, cleared>>
  BY DEF Wait
<1>2. TypeOK' /\ InsideCall'
  BY <1>1 DEF IInv, TypeOK, InsideCall
<1>3. \A u \in Threads : u # t => pc'[u] = pc[u]
  BY <1>1 DEF IInv, TypeOK
<1>4. /\ op[t] \in PopOps => tasks_ = <<>>
      /\ op[t] \in (PushOps \ {"ForceEnqueue"}) \cup {"Full"} => ~(Len(tasks_) < capacity_)
  BY DEF Wait, HasRoom, HasTask, PushOps, PopOps
<1>5. Len(tasks_) \in Nat /\ capacity_ \in Nat
  BY BlockingQueueAssumption DEF IInv, TypeOK
<1>6. EmptyWaitersJustified'
  BY <1>1, <1>3, <1>4 DEF IInv, EmptyWaitersJustified, OnEmpty
<1>7. FullWaitersJustified'
  BY <1>1, <1>3, <1>4, <1>5 DEF IInv, FullWaitersJustified, OnFull
<1> QED
  BY <1>2, <1>6, <1>7 DEF IInv

\* A push wakes everybody who waits for a task, and takes room from nobody who
\* waits: it makes the queue longer.
LEMMA PushIInv ==
    ASSUME IInv, NEW t \in Threads, NEW tasks \in Seq(Task),
           Len(tasks) = Len(tasks_) + 1, Push(t, tasks)
    PROVE  IInv'
<1>1. /\ tasks_' = tasks /\ UNCHANGED <<op, calls, out, cleared>>
      /\ pc' = [u \in Threads |-> IF u = t THEN "idle"
                                  ELSE IF OnEmpty(u) THEN "woken" ELSE pc[u]]
  BY DEF Push, ReturnNotifying
<1>2. pc' \in [Threads -> PcValues]
  BY <1>1 DEF IInv, TypeOK, PcValues
<1>3. TypeOK'
  BY <1>1, <1>2 DEF IInv, TypeOK, PcValues
<1>4. InsideCall'
  BY <1>1 DEF IInv, InsideCall, OnEmpty
<1>5. EmptyWaitersJustified'
  BY <1>1 DEF EmptyWaitersJustified, OnEmpty
<1>6. Len(tasks_) \in Nat /\ capacity_ \in Nat
  BY BlockingQueueAssumption DEF IInv, TypeOK
<1>7. \A u \in Threads : OnFull(u)' => OnFull(u)
  BY <1>1 DEF OnFull
<1>8. FullWaitersJustified'
  BY <1>1, <1>6, <1>7 DEF IInv, FullWaitersJustified
<1> QED
  BY <1>3, <1>4, <1>5, <1>8 DEF IInv

\* A pop wakes everybody who waits for room, and finds nobody waiting for a task.
LEMMA PopIInv ==
    ASSUME IInv, NEW t \in Threads, Pop(t)
    PROVE  IInv'
<1>1. /\ tasks_ # <<>> /\ tasks_' = Tail(tasks_) /\ out' = Append(out, Head(tasks_))
      /\ UNCHANGED <<op, calls>> /\ cleared' = FALSE
      /\ pc' = [u \in Threads |-> IF u = t THEN "idle"
                                  ELSE IF OnFull(u) THEN "woken" ELSE pc[u]]
  BY DEF Pop, HasTask, ReturnNotifying
<1>2. tasks_' \in Seq(Task) /\ out' \in Seq(Task)
  BY <1>1 DEF IInv, TypeOK
<1>3. pc' \in [Threads -> PcValues]
  BY <1>1 DEF IInv, TypeOK, PcValues
<1>4. TypeOK'
  BY <1>1, <1>2, <1>3, Zenon DEF IInv, TypeOK, PcValues
<1>5. InsideCall'
  BY <1>1 DEF IInv, InsideCall, OnFull
<1>6. EmptyWaitersJustified'
  BY <1>1 DEF IInv, EmptyWaitersJustified, OnEmpty
<1>7. FullWaitersJustified'
  BY <1>1 DEF FullWaitersJustified, OnFull
<1> QED
  BY <1>4, <1>5, <1>6, <1>7 DEF IInv

\* Clear makes room that only the history variable records.
LEMMA ClearIInv ==
    ASSUME IInv, NEW t \in Threads, Clear(t)
    PROVE  IInv'
<1>1. /\ tasks_' = <<>> /\ cleared' = TRUE /\ UNCHANGED <<op, calls, out>>
      /\ pc' = [pc EXCEPT ![t] = "idle"]
  BY DEF Clear, Return
<1>2. TypeOK' /\ InsideCall'
  BY <1>1 DEF IInv, TypeOK, InsideCall
<1> QED
  BY <1>1, <1>2 DEF IInv, EmptyWaitersJustified, FullWaitersJustified

\* Every step preserves the invariant.
LEMMA NextIInv == IInv /\ [Next]_vars => IInv'
<1> SUFFICES ASSUME IInv, [Next]_vars PROVE IInv'
  OBVIOUS
<1>1. ASSUME NEW t \in Threads, NEW o \in OpsOf[t], Call(t, o)
      PROVE  IInv'
  <2>1. o \in Ops
    BY <1>1, BlockingQueueAssumption
  <2> QED
    BY <1>1, <2>1, MoveIInv, Zenon DEF Call, PcValues
<1>2. ASSUME NEW t \in Threads,
             SpuriousWakeup(t) \/ Timeout(t) \/ GiveUp(t) \/ Full(t)
      PROVE  IInv'
  BY <1>2, MoveIInv DEF SpuriousWakeup, Timeout, GiveUp, Full, Return, PcValues
<1>3. ASSUME NEW t \in Threads,
             Enqueue(t) \/ EnqueueFront(t) \/ ForceEnqueue(t) \/ TryEnqueue(t)
      PROVE  IInv'
  <2>1. TaskOf(t) \in Task
    BY <1>3 DEF Enqueue, EnqueueFront, ForceEnqueue, TryEnqueue, In, TaskOf, Task, IInv,
       InsideCall, PushOps
  <2>2. tasks_ \in Seq(Task)
    BY DEF IInv, TypeOK
  <2>3. /\ Append(tasks_, TaskOf(t)) \in Seq(Task)
        /\ Len(Append(tasks_, TaskOf(t))) = Len(tasks_) + 1
    BY <2>1, <2>2
  <2>4. /\ <<TaskOf(t)>> \o tasks_ \in Seq(Task)
        /\ Len(<<TaskOf(t)>> \o tasks_) = Len(tasks_) + 1
    BY <2>1, <2>2
  <2>5. Push(t, Append(tasks_, TaskOf(t))) \/ Push(t, <<TaskOf(t)>> \o tasks_)
    BY <1>3 DEF Enqueue, EnqueueFront, ForceEnqueue, TryEnqueue
  <2> QED
    BY <2>3, <2>4, <2>5, PushIInv, Zenon
<1>4. ASSUME NEW t \in Threads, Dequeue(t) \/ TryDequeue(t)
      PROVE  IInv'
  BY <1>4, PopIInv DEF Dequeue, TryDequeue
<1>5. CASE UNCHANGED vars
  BY <1>5 DEF vars, IInv, TypeOK, InsideCall, EmptyWaitersJustified, FullWaitersJustified,
     OnEmpty, OnFull
<1> QED
  BY <1>1, <1>2, <1>3, <1>4, <1>5, WaitIInv, ClearIInv DEF Next, Step

\* Every reachable state satisfies the invariant.
LEMMA SpecIInv == Spec => []IInv
<1>1. Init => IInv
  <2> SUFFICES ASSUME Init PROVE IInv
    OBVIOUS
  <2>1. \A t \in Threads : pc[t] = "idle"
    BY DEF Init
  <2>2. calls \in [Threads -> 0 .. Calls] /\ op \in [Threads -> Ops]
    BY BlockingQueueAssumption DEF Init, Ops, PushOps
  <2>3. pc \in [Threads -> PcValues] /\ tasks_ \in Seq(Task) /\ out \in Seq(Task)
    BY DEF Init, PcValues
  <2>4. cleared \in BOOLEAN
    BY Zenon DEF Init
  <2>5. TypeOK
    BY <2>2, <2>3, <2>4 DEF TypeOK, PcValues
  <2> QED
    BY <2>1, <2>5 DEF IInv, InsideCall, EmptyWaitersJustified, FullWaitersJustified,
       OnEmpty, OnFull
<1> QED
  BY <1>1, NextIInv, PTL DEF Spec

\* The deque and the calls keep their types.
THEOREM TypeCorrect == Spec => []TypeOK
<1>1. IInv => TypeOK
  BY DEF IInv
<1> QED
  BY SpecIInv, <1>1, PTL

\* Nobody waits on cv_empty_ while there is a task: Enqueue, EnqueueFront,
\* ForceEnqueue and TryEnqueue all notify, and under the mutex.
THEOREM NoLostTask == Spec => []EmptyWaitersJustified
<1>1. IInv => EmptyWaitersJustified
  BY DEF IInv
<1> QED
  BY SpecIInv, <1>1, PTL

\* Nobody waits on cv_full_ while there is room, unless Clear made the room.
THEOREM NoLostRoom == Spec => []FullWaitersJustified
<1>1. IInv => FullWaitersJustified
  BY DEF IInv
<1> QED
  BY SpecIInv, <1>1, PTL

\* No wakeup is lost on either condition variable of the blocking queue.
THEOREM NoLostWakeup == Spec => []WaitersJustified
<1>1. IInv => WaitersJustified
  BY DEF IInv, WaitersJustified
<1> QED
  BY SpecIInv, <1>1, PTL

-----------------------------------------------------------------------------
\* What became of the tasks: those taken out, then those still queued.
All == out \o tasks_

\* OutOnceInOrder, of any sequence of tasks.
Ordered(s) ==
    \A i, j \in 1 .. Len(s) :
        i < j /\ s[i][1] = s[j][1] =>
            /\ s[i][2] # s[j][2]
            /\ "EnqueueFront" \notin {s[i][3], s[j][3]} => s[i][2] < s[j][2]

\* The tasks of s come from calls that have begun, and not from the call its
\* thread is still inside.
Numbered(s) ==
    \A i \in 1 .. Len(s) :
        /\ s[i][2] <= calls[s[i][1]]
        /\ pc[s[i][1]] # "idle" => s[i][2] < calls[s[i][1]]

KInv == CapacityRespected /\ Ordered(All) /\ Numbered(All)

-----------------------------------------------------------------------------
\* The fields of a task.
LEMMA TaskFields ==
    ASSUME NEW x \in Task
    PROVE  x[1] \in Threads /\ x[2] \in Nat /\ x[3] \in PushOps
BY DEF Task

\* The forced tasks of a sequence are counted by a number.
LEMMA ForcedFinite ==
    ASSUME NEW s \in Seq(Task)
    PROVE  IsFiniteSet(Forced(s)) /\ Cardinality(Forced(s)) \in Nat
<1>1. DOMAIN s = 1 .. Len(s) /\ Len(s) \in Nat
    OBVIOUS
<1>2. IsFiniteSet(1 .. Len(s))
    BY <1>1, FS_Interval
<1>3. Forced(s) \in SUBSET (1 .. Len(s))
    BY <1>1 DEF Forced
<1>4. IsFiniteSet(Forced(s))
    BY <1>2, <1>3, FS_Subset
<1> QED
    BY <1>4, FS_CardinalityType

\* A forced task put at the back is one forced task more.
LEMMA ForcedAppend ==
    ASSUME NEW s \in Seq(Task), NEW x \in Task, x[3] = "ForceEnqueue"
    PROVE  Cardinality(Forced(Append(s, x))) = Cardinality(Forced(s)) + 1
<1>1. Forced(Append(s, x)) = Forced(s) \cup {Len(s) + 1} /\ Len(s) + 1 \notin Forced(s)
    BY DEF Forced
<1> QED
    BY <1>1, ForcedFinite, FS_AddElement, Zenon

\* Taking the first task takes at most one forced task.
LEMMA ForcedTail ==
    ASSUME NEW s \in Seq(Task), s # <<>>
    PROVE  Cardinality(Forced(s)) <= Cardinality(Forced(Tail(s))) + 1
<1> DEFINE n == Len(s)
           R == Forced(s) \ {1}
           Q == Forced(Tail(s))
           f == [i \in R |-> i - 1]
<1>1. /\ n \in Nat \ {0} /\ Tail(s) \in Seq(Task) /\ Len(Tail(s)) = n - 1
      /\ DOMAIN s = 1 .. n /\ DOMAIN Tail(s) = 1 .. n - 1
      /\ \A i \in 1 .. n - 1 : Tail(s)[i] = s[i + 1]
    OBVIOUS
<1>2. /\ R = {i \in 2 .. n : s[i][3] = "ForceEnqueue"}
      /\ Q = {i \in 1 .. n - 1 : s[i + 1][3] = "ForceEnqueue"}
    BY <1>1 DEF Forced
<1>3. IsFiniteSet(R) /\ Cardinality(Forced(s)) <= Cardinality(R) + 1
    <2>1. IsFiniteSet(Forced(s)) /\ Cardinality(Forced(s)) \in Nat
        BY ForcedFinite
    <2>2. IsFiniteSet(R) /\ (Cardinality(R) = Cardinality(Forced(s)) - 1
                             \/ Cardinality(R) = Cardinality(Forced(s)))
        BY <2>1, FS_RemoveElement
    <2> HIDE DEF R
    <2> QED
        BY <2>1, <2>2
<1> HIDE DEF R, Q, n
<1>4. f \in Bijection(R, Q)
    <2>1. f \in [R -> Q]
        BY <1>1, <1>2
    <2>2. \A i, j \in R : f[i] = f[j] => i = j
        BY <1>1, <1>2
    <2>3. \A j \in Q : j + 1 \in R /\ f[j + 1] = j
        BY <1>1, <1>2
    <2>4. \A j \in Q : \E i \in R : f[i] = j
        BY <2>3, Zenon
    <2> HIDE DEF f
    <2> QED
        BY <2>1, <2>2, <2>4, Fun_IsBij
<1>5. Cardinality(Q) = Cardinality(R)
    BY <1>3, <1>4, FS_Bijection DEF ExistsBijection
<1> QED
    BY <1>3, <1>5 DEF Q

-----------------------------------------------------------------------------
\* A step that moves no task: a thread that is inside a call after it was inside
\* it before, or has just begun one.
LEMMA MoveKInv ==
    ASSUME IInv, KInv, calls' \in [Threads -> 0 .. Calls], UNCHANGED <<tasks_, out>>,
           \A u \in Threads : /\ calls[u] <= calls'[u]
                              /\ pc'[u] # "idle" => pc[u] # "idle" \/ calls[u] < calls'[u]
    PROVE  KInv'
<1>1. All' = All /\ All \in Seq(Task)
    BY DEF All, IInv, TypeOK
<1>2. CapacityRespected' /\ Ordered(All)'
    BY <1>1 DEF KInv, CapacityRespected, Ordered, Forced
<1>3. ASSUME NEW i \in 1 .. Len(All)
      PROVE  /\ All[i][2] <= calls'[All[i][1]]
             /\ pc'[All[i][1]] # "idle" => All[i][2] < calls'[All[i][1]]
    <2>1. All[i] \in Task
        BY <1>1, <1>3
    <2>2. All[i][1] \in Threads /\ All[i][2] \in Nat
        BY <2>1, TaskFields
    <2>3. calls[All[i][1]] \in Nat /\ calls'[All[i][1]] \in Nat
        BY <2>2, BlockingQueueAssumption DEF IInv, TypeOK
    <2> QED
        BY <1>3, <2>2, <2>3 DEF KInv, Numbered
<1>4. Numbered(All)'
    BY <1>1, <1>3 DEF Numbered
<1> QED
    BY <1>2, <1>4 DEF KInv

\* What a push leaves of the threads: nobody has begun a call, the pusher is outside,
\* nobody is inside who was not.
LEMMA PushThreads ==
    ASSUME IInv, NEW t \in Threads, NEW tasks, Push(t, tasks)
    PROVE  /\ tasks_' = tasks /\ out' = out /\ calls' = calls /\ pc'[t] = "idle"
           /\ \A u \in Threads : pc'[u] # "idle" => pc[u] # "idle"
BY DEF Push, ReturnNotifying, OnEmpty, IInv, TypeOK

\* A task put at the back is later than every task of its thread.
LEMMA BackKInv ==
    ASSUME IInv, KInv, NEW t \in Threads, pc[t] # "idle", TaskOf(t) \in Task,
           HasRoom \/ op[t] = "ForceEnqueue",
           Push(t, Append(tasks_, TaskOf(t)))
    PROVE  KInv'
<1> DEFINE x == TaskOf(t)
           n == Len(All)
<1>0. /\ tasks_ \in Seq(Task) /\ out \in Seq(Task) /\ All \in Seq(Task) /\ n \in Nat
      /\ capacity_ \in Nat
    BY BlockingQueueAssumption DEF IInv, TypeOK, All
<1>1. x \in Task /\ x[1] = t /\ x[2] = calls[t] /\ x[3] = op[t]
    BY DEF TaskOf
<1>2. /\ tasks_' = Append(tasks_, x) /\ out' = out /\ calls' = calls /\ pc'[t] = "idle"
      /\ \A u \in Threads : pc'[u] # "idle" => pc[u] # "idle"
    BY PushThreads, Zenon
<1> HIDE DEF x
<1>3. All' = Append(All, x)
    BY <1>0, <1>1, <1>2 DEF All
<1>4. /\ Len(All') = n + 1 /\ All'[n + 1] = x
      /\ \A i \in 1 .. n : All'[i] = All[i]
    BY <1>0, <1>1, <1>3
<1>5. \A i \in 1 .. n : /\ All[i][1] \in Threads /\ All[i][2] \in Nat /\ All[i][2] <= calls[All[i][1]]
                        /\ pc[All[i][1]] # "idle" => All[i][2] < calls[All[i][1]]
    BY <1>0, TaskFields DEF KInv, Numbered
<1>6. calls[t] \in Nat
    BY BlockingQueueAssumption DEF IInv, TypeOK
<1>7. CapacityRespected'
    <2>1. Cardinality(Forced(tasks_)) \in Nat /\ Cardinality(Forced(tasks_')) \in Nat
        <3>1. tasks_' \in Seq(Task)
            BY <1>0, <1>1, <1>2
        <3> QED
            BY <1>0, <3>1, ForcedFinite
    <2>2. Len(tasks_') = Len(tasks_) + 1 /\ Len(tasks_) \in Nat
        BY <1>0, <1>1, <1>2
    <2>3. CASE HasRoom
        BY <1>0, <2>1, <2>2, <2>3 DEF HasRoom, CapacityRespected
    <2>4. CASE op[t] = "ForceEnqueue"
        <3>1. Cardinality(Forced(tasks_')) = Cardinality(Forced(tasks_)) + 1
            BY <1>0, <1>1, <1>2, <2>4, ForcedAppend
        <3> QED
            BY <1>0, <2>1, <2>2, <3>1 DEF KInv, CapacityRespected
    <2> QED
        BY <2>3, <2>4
<1> HIDE DEF n
<1>8. Ordered(All)'
    <2> SUFFICES ASSUME NEW i \in 1 .. n + 1, NEW j \in 1 .. n + 1, i < j,
                        All'[i][1] = All'[j][1]
                 PROVE  /\ All'[i][2] # All'[j][2]
                        /\ "EnqueueFront" \notin {All'[i][3], All'[j][3]} => All'[i][2] < All'[j][2]
        BY <1>0, <1>4 DEF Ordered
    <2>1. CASE j = n + 1
        <3>1. i \in 1 .. n /\ All[i][1] = t
            BY <1>0, <1>1, <1>4, <2>1
        <3>2. All[i][2] < calls[t] /\ All[i][2] \in Nat
            BY <1>5, <3>1
        <3> QED
            BY <1>1, <1>4, <1>6, <2>1, <3>1, <3>2
    <2>2. CASE j # n + 1
        <3>1. i \in 1 .. n /\ j \in 1 .. n
            BY <1>0, <2>2
        <3> QED
            BY <1>4, <3>1 DEF KInv, Ordered, n
    <2> QED
        BY <2>1, <2>2
<1>9. Numbered(All)'
    <2> SUFFICES ASSUME NEW i \in 1 .. n + 1
                 PROVE  /\ All'[i][2] <= calls'[All'[i][1]]
                        /\ pc'[All'[i][1]] # "idle" => All'[i][2] < calls'[All'[i][1]]
        BY <1>0, <1>4 DEF Numbered
    <2>1. CASE i = n + 1
        BY <1>1, <1>2, <1>4, <1>6, <2>1
    <2>2. CASE i # n + 1
        <3>1. i \in 1 .. n
            BY <1>0, <2>2
        <3> QED
            BY <1>2, <1>4, <1>5, <3>1
    <2> QED
        BY <2>1, <2>2
<1> QED
    BY <1>7, <1>8, <1>9 DEF KInv

\* A task put at the front goes between the tasks that are out and the others.
LEMMA FrontKInv ==
    ASSUME IInv, KInv, NEW t \in Threads, pc[t] # "idle", TaskOf(t) \in Task,
           HasRoom, op[t] = "EnqueueFront", Push(t, <<TaskOf(t)>> \o tasks_)
    PROVE  KInv'
<1> DEFINE x == TaskOf(t)
           n == Len(All)
           k == Len(out) + 1
           From(i) == IF i < k THEN i ELSE i - 1
<1>0. /\ tasks_ \in Seq(Task) /\ out \in Seq(Task) /\ All \in Seq(Task) /\ n \in Nat
      /\ capacity_ \in Nat /\ k \in 1 .. n + 1
    BY BlockingQueueAssumption DEF IInv, TypeOK, All
<1>1. x \in Task /\ x[1] = t /\ x[2] = calls[t] /\ x[3] = "EnqueueFront"
    BY DEF TaskOf
<1>2. /\ tasks_' = <<x>> \o tasks_ /\ out' = out /\ calls' = calls /\ pc'[t] = "idle"
      /\ \A u \in Threads : pc'[u] # "idle" => pc[u] # "idle"
    BY PushThreads, Zenon
<1> HIDE DEF x
<1>3. /\ Len(All') = n + 1 /\ All'[k] = x
      /\ \A i \in 1 .. n + 1 : i # k => From(i) \in 1 .. n /\ All'[i] = All[From(i)]
    <2>1. n = Len(out) + Len(tasks_) /\ Len(out) \in Nat /\ Len(tasks_) \in Nat
        BY <1>0 DEF All
    <2>2. /\ tasks_' \in Seq(Task) /\ Len(tasks_') = Len(tasks_) + 1 /\ tasks_'[1] = x
          /\ \A i \in 2 .. Len(tasks_) + 1 : tasks_'[i] = tasks_[i - 1]
        BY <1>0, <1>1, <1>2
    <2>3. Len(All') = n + 1 /\ All'[k] = x
        BY <1>0, <1>2, <2>1, <2>2 DEF All
    <2>4. ASSUME NEW i \in 1 .. n + 1, i < k
          PROVE  i \in 1 .. n /\ All'[i] = All[i]
        BY <1>0, <1>2, <2>1, <2>2, <2>4 DEF All
    <2>5. ASSUME NEW i \in 1 .. n + 1, i > k
          PROVE  i - 1 \in 1 .. n /\ All'[i] = All[i - 1]
        <3>1. /\ i - Len(out) \in 2 .. Len(tasks_) + 1 /\ i \in 1 .. Len(out) + Len(tasks_')
              /\ ~(i <= Len(out)) /\ i - 1 \in 1 .. Len(out) + Len(tasks_) /\ ~(i - 1 <= Len(out))
            BY <1>0, <2>1, <2>2, <2>5
        <3>2. All'[i] = tasks_'[i - Len(out)] /\ All[i - 1] = tasks_[i - 1 - Len(out)]
            BY <1>0, <1>2, <2>2, <3>1 DEF All
        <3>3. tasks_'[i - Len(out)] = tasks_[(i - Len(out)) - 1]
            BY <2>2, <3>1, Zenon
        <3>4. (i - Len(out)) - 1 = i - 1 - Len(out)
            BY <2>1, <2>5
        <3> QED
            BY <2>1, <3>1, <3>2, <3>3, <3>4
    <2> HIDE DEF n, k
    <2>6. \A i \in 1 .. n + 1 : i # k => (i < k \/ i > k)
        BY <1>0
    <2>7. \A i \in 1 .. n + 1 : i > k => ~(i < k)
        BY <1>0
    <2> QED
        BY <2>3, <2>4, <2>5, <2>6, <2>7
<1>5. \A i \in 1 .. n : /\ All[i][1] \in Threads /\ All[i][2] \in Nat /\ All[i][2] <= calls[All[i][1]]
                        /\ pc[All[i][1]] # "idle" => All[i][2] < calls[All[i][1]]
    BY <1>0, TaskFields DEF KInv, Numbered
<1>6. calls[t] \in Nat
    BY BlockingQueueAssumption DEF IInv, TypeOK
<1>7. CapacityRespected'
    <2>1. Cardinality(Forced(tasks_')) \in Nat
        <3>1. tasks_' \in Seq(Task)
            BY <1>0, <1>1, <1>2
        <3> QED
            BY <3>1, ForcedFinite
    <2>2. Len(tasks_') = Len(tasks_) + 1 /\ Len(tasks_) \in Nat
        BY <1>0, <1>1, <1>2
    <2> QED
        BY <1>0, <2>1, <2>2 DEF HasRoom, CapacityRespected
<1> HIDE DEF n, k
<1>8. Ordered(All)'
    <2> SUFFICES ASSUME NEW i \in 1 .. n + 1, NEW j \in 1 .. n + 1, i < j,
                        All'[i][1] = All'[j][1]
                 PROVE  /\ All'[i][2] # All'[j][2]
                        /\ "EnqueueFront" \notin {All'[i][3], All'[j][3]} => All'[i][2] < All'[j][2]
        BY <1>0, <1>3 DEF Ordered
    <2>1. CASE i = k
        <3>1. j # k
            BY <1>0, <2>1
        <3>2. /\ From(j) \in 1 .. n /\ All'[j] = All[From(j)] /\ All[From(j)][1] = t
            BY <1>1, <1>3, <2>1, <3>1
        <3>3. All[From(j)][2] < calls[t] /\ All[From(j)][2] \in Nat
            BY <1>5, <3>2
        <3> QED
            BY <1>1, <1>3, <1>6, <2>1, <3>2, <3>3
    <2>2. CASE j = k
        <3>1. i # k
            BY <1>0, <2>2
        <3>2. /\ From(i) \in 1 .. n /\ All'[i] = All[From(i)] /\ All[From(i)][1] = t
            BY <1>1, <1>3, <2>2, <3>1
        <3>3. All[From(i)][2] < calls[t] /\ All[From(i)][2] \in Nat
            BY <1>5, <3>2
        <3> QED
            BY <1>1, <1>3, <1>6, <2>2, <3>2, <3>3
    <2>3. CASE i # k /\ j # k
        <3>1. /\ From(i) \in 1 .. n /\ From(j) \in 1 .. n /\ From(i) < From(j)
              /\ All'[i] = All[From(i)] /\ All'[j] = All[From(j)]
            <4>1. From(i) < From(j)
                BY <1>0, <2>3
            <4> HIDE DEF From
            <4> QED
                BY <1>3, <2>3, <4>1
        <3> HIDE DEF From
        <3> QED
            BY <3>1 DEF KInv, Ordered, n
    <2> QED
        BY <2>1, <2>2, <2>3
<1>9. Numbered(All)'
    <2> SUFFICES ASSUME NEW i \in 1 .. n + 1
                 PROVE  /\ All'[i][2] <= calls'[All'[i][1]]
                        /\ pc'[All'[i][1]] # "idle" => All'[i][2] < calls'[All'[i][1]]
        BY <1>0, <1>3 DEF Numbered
    <2>1. CASE i = k
        BY <1>1, <1>2, <1>3, <1>6, <2>1
    <2>2. CASE i # k
        <3>1. From(i) \in 1 .. n /\ All'[i] = All[From(i)]
            BY <1>3, <2>2
        <3> HIDE DEF From
        <3> QED
            BY <1>2, <1>5, <3>1
    <2> QED
        BY <2>1, <2>2
<1> QED
    BY <1>7, <1>8, <1>9 DEF KInv

\* A pop moves the first queued task to the end of those that are out.
LEMMA PopKInv ==
    ASSUME IInv, KInv, NEW t \in Threads, Pop(t)
    PROVE  KInv'
<1>1. /\ tasks_ # <<>> /\ tasks_' = Tail(tasks_) /\ out' = Append(out, Head(tasks_))
      /\ calls' = calls /\ \A u \in Threads : pc'[u] # "idle" => pc[u] # "idle"
    BY DEF Pop, HasTask, ReturnNotifying, OnFull
<1>2. tasks_ \in Seq(Task) /\ out \in Seq(Task) /\ All \in Seq(Task) /\ capacity_ \in Nat
    BY BlockingQueueAssumption DEF IInv, TypeOK, All
<1>3. All' = All
    BY <1>1, <1>2 DEF All
<1>4. CapacityRespected'
    <2>1. tasks_' \in Seq(Task) /\ Len(tasks_') = Len(tasks_) - 1 /\ Len(tasks_) \in Nat
        BY <1>1, <1>2
    <2>2. Cardinality(Forced(tasks_)) <= Cardinality(Forced(tasks_')) + 1
        BY <1>1, <1>2, ForcedTail
    <2>3. Cardinality(Forced(tasks_)) \in Nat /\ Cardinality(Forced(tasks_')) \in Nat
        BY <1>2, <2>1, ForcedFinite
    <2> QED
        BY <1>2, <2>1, <2>2, <2>3 DEF KInv, CapacityRespected
<1>5. \A i \in 1 .. Len(All) : All[i][1] \in Threads
    BY <1>2, TaskFields
<1>6. Numbered(All)'
    BY <1>1, <1>3, <1>5 DEF KInv, Numbered
<1> QED
    BY <1>3, <1>4, <1>6 DEF KInv, Ordered

\* Clear drops the tasks that are still queued.
LEMMA ClearKInv ==
    ASSUME IInv, KInv, NEW t \in Threads, Clear(t)
    PROVE  KInv'
<1>1. /\ tasks_' = <<>> /\ out' = out /\ calls' = calls
      /\ \A u \in Threads : pc'[u] # "idle" => pc[u] # "idle"
    BY DEF Clear, Return, IInv, TypeOK
<1>2. tasks_ \in Seq(Task) /\ out \in Seq(Task) /\ All \in Seq(Task) /\ capacity_ \in Nat
    BY BlockingQueueAssumption DEF IInv, TypeOK, All
<1>3. /\ Len(All') \in Nat /\ Len(All') <= Len(All) /\ Len(All) \in Nat
      /\ \A i \in 1 .. Len(All') : All'[i] = All[i]
    BY <1>1, <1>2 DEF All
<1>4. CapacityRespected'
    <2>1. Len(tasks_') = 0 /\ tasks_' \in Seq(Task)
        BY <1>1
    <2>2. Cardinality(Forced(tasks_')) \in Nat
        BY <2>1, ForcedFinite, Zenon
    <2> QED
        BY <1>2, <2>1, <2>2 DEF CapacityRespected
<1>5. \A i \in 1 .. Len(All') : i \in 1 .. Len(All) /\ All[i][1] \in Threads
    BY <1>2, <1>3, TaskFields
<1>6. Ordered(All)'
    BY <1>3, <1>5 DEF KInv, Ordered
<1>7. Numbered(All)'
    BY <1>1, <1>3, <1>5 DEF KInv, Numbered
<1> QED
    BY <1>4, <1>6, <1>7 DEF KInv

\* Every step preserves the invariant on the tasks.
LEMMA NextKInv == IInv /\ KInv /\ [Next]_vars => KInv'
<1> SUFFICES ASSUME IInv, KInv, [Next]_vars PROVE KInv'
    OBVIOUS
<1>0. calls \in [Threads -> 0 .. Calls] /\ Calls \in Nat
    BY BlockingQueueAssumption DEF IInv, TypeOK
<1>1. ASSUME NEW t \in Threads, NEW o \in OpsOf[t], Call(t, o)
      PROVE  KInv'
    <2>1. /\ calls' = [calls EXCEPT ![t] = @ + 1] /\ calls[t] < Calls
          /\ pc' = [pc EXCEPT ![t] = "entered"] /\ UNCHANGED <<tasks_, out>>
        BY <1>1 DEF Call
    <2>2. calls' \in [Threads -> 0 .. Calls]
        BY <1>0, <2>1
    <2>3. \A u \in Threads : calls[u] <= calls'[u] /\ (u = t => calls[u] < calls'[u])
        BY <1>0, <2>1
    <2>4. \A u \in Threads : u # t => pc'[u] = pc[u]
        BY <2>1 DEF IInv, TypeOK
    <2> QED
        BY <2>1, <2>2, <2>3, <2>4, MoveKInv
<1>2. ASSUME NEW t \in Threads, NEW l, pc' = [pc EXCEPT ![t] = l], l = "idle" \/ pc[t] # "idle",
             calls' = calls, UNCHANGED <<tasks_, out>>
      PROVE  KInv'
    <2>1. \A u \in Threads : pc'[u] # "idle" => pc[u] # "idle"
        BY <1>2 DEF IInv, TypeOK
    <2>2. \A u \in Threads : calls[u] <= calls'[u]
        BY <1>0, <1>2
    <2> QED
        BY <1>0, <1>2, <2>1, <2>2, MoveKInv
<1>3. ASSUME NEW t \in Threads,
             SpuriousWakeup(t) \/ Timeout(t) \/ GiveUp(t) \/ Full(t) \/ Wait(t)
      PROVE  KInv'
    BY <1>2, <1>3 DEF SpuriousWakeup, Timeout, GiveUp, Full, Return, Wait
<1>4. ASSUME NEW t \in Threads,
             Enqueue(t) \/ EnqueueFront(t) \/ ForceEnqueue(t) \/ TryEnqueue(t)
      PROVE  KInv'
    <2>1. TaskOf(t) \in Task /\ pc[t] # "idle"
        BY <1>4 DEF Enqueue, EnqueueFront, ForceEnqueue, TryEnqueue, In, TaskOf, Task, IInv,
           InsideCall, PushOps
    <2>2. CASE EnqueueFront(t)
        BY <2>1, <2>2, FrontKInv DEF EnqueueFront, In
    <2>3. CASE Enqueue(t) \/ ForceEnqueue(t) \/ TryEnqueue(t)
        BY <2>1, <2>3, BackKInv DEF Enqueue, ForceEnqueue, TryEnqueue, In
    <2> QED
        BY <1>4, <2>2, <2>3
<1>5. ASSUME NEW t \in Threads, Dequeue(t) \/ TryDequeue(t)
      PROVE  KInv'
    BY <1>5, PopKInv DEF Dequeue, TryDequeue
<1>6. CASE UNCHANGED vars
    <2>1. UNCHANGED <<tasks_, out, calls, pc>>
        BY <1>6 DEF vars
    <2> QED
        BY <1>0, <2>1, MoveKInv
<1> QED
    BY <1>1, <1>3, <1>4, <1>5, <1>6, ClearKInv DEF Next, Step

\* The deque never exceeds its capacity by more than what ForceEnqueue put there,
\* a task leaves at most once, and the tasks a thread put at the back leave in the
\* order it put them there: for any threads, capacity, calls, timeouts and wakeups.
THEOREM NothingLostOrReordered == Spec => []TasksKept
<1>1. Init => KInv
    <2> SUFFICES ASSUME Init PROVE KInv
        OBVIOUS
    <2>1. tasks_ = <<>> /\ out = <<>> /\ <<>> \in Seq(Task) /\ capacity_ \in Nat
        BY BlockingQueueAssumption DEF Init
    <2>2. All = <<>>
        BY <2>1 DEF All
    <2>3. Cardinality(Forced(<<>>)) \in Nat
        BY <2>1, ForcedFinite, Zenon
    <2>4. CapacityRespected
        BY <2>1, <2>3 DEF CapacityRespected
    <2> QED
        BY <2>2, <2>4 DEF KInv, Ordered, Numbered
<1>2. IInv /\ KInv => TasksKept
    BY DEF IInv, KInv, TasksKept, OutOnceInOrder, Ordered, All
<1> QED
    BY <1>1, <1>2, SpecIInv, NextKInv, PTL DEF Spec
-----------------------------------------------------------------------------
\* Every nonempty set of numbers has a least element.
LEMMA LeastElement ==
    ASSUME NEW S, S \subseteq Nat, S # {}
    PROVE  \E n \in S : \A m \in S : n <= m
<1>1. \E n \in S : \A m \in S : ~ (<<m, n>> \in OpToRel(<, Nat))
  BY NatLessThanWellFounded, WFMin, Zenon
<1>2. PICK n \in S : \A m \in S : ~ (<<m, n>> \in OpToRel(<, Nat))
  BY <1>1, Zenon
<1>3. ASSUME NEW m \in S PROVE n <= m
  <2>1. ~ (<<m, n>> \in OpToRel(<, Nat))
    BY <1>2, Zenon
  <2> QED
    BY <2>1 DEF OpToRel
<1> QED
  BY <1>3

\* Induction, over a set instead of a predicate.
LEMMA StepInduction ==
    ASSUME NEW S, 0 \in S, \A n \in Nat : n \in S => n + 1 \in S
    PROVE  \A n \in Nat : n \in S
<1> SUFFICES ASSUME Nat \ S # {} PROVE FALSE
  OBVIOUS
<1>1. PICK n \in Nat \ S : \A m \in Nat \ S : n <= m
  BY LeastElement, Zenon
<1>2. n - 1 \in Nat /\ n - 1 \in S /\ (n - 1) + 1 = n
  BY <1>1
<1> QED
  BY <1>1, <1>2

\* The iteration of a function exists.
LEMMA Iteration ==
    ASSUME NEW V, NEW b \in V, NEW g \in [V -> V]
    PROVE  \E f \in [Nat -> V] : \A n \in Nat : f[n] = IF n = 0 THEN b ELSE g[f[n - 1]]
<1> DEFINE Upto(n, f) == \A i \in Nat : i < n => f[i] = IF i = 0 THEN b ELSE g[f[i - 1]]
           Good == {n \in Nat : \E f \in [Nat -> V] : Upto(n, f)}
<1>1. \A n \in Nat : n \in Good
  <2>1. 0 \in Good
    <3>1. [n \in Nat |-> b] \in [Nat -> V] /\ Upto(0, [n \in Nat |-> b])
      OBVIOUS
    <3> QED
      BY <3>1
  <2>2. ASSUME NEW n \in Nat, n \in Good PROVE n + 1 \in Good
    <3>1. PICK f \in [Nat -> V] : Upto(n, f)
      BY <2>2
    <3> DEFINE h == [i \in Nat |-> IF i = 0 THEN b ELSE g[f[i - 1]]]
    <3>2. h \in [Nat -> V]
      <4>1. \A i \in Nat : i # 0 => i - 1 \in Nat /\ g[f[i - 1]] \in V
        OBVIOUS
      <4> QED
        BY <4>1
    <3>3. ASSUME NEW i \in Nat, i < n + 1 PROVE h[i] = IF i = 0 THEN b ELSE g[h[i - 1]]
      <4>1. CASE i = 0
        BY <4>1
      <4>2. CASE i # 0
        <5>1. i - 1 \in Nat /\ i - 1 < n
          BY <3>3, <4>2
        <5>2. h[i - 1] = f[i - 1]
          BY <3>1, <5>1
        <5>3. h[i] = g[f[i - 1]]
          BY <4>2
        <5> QED
          BY <4>2, <5>2, <5>3
      <4> QED
        BY <4>1, <4>2
    <3> HIDE DEF h
    <3> QED
      BY <3>2, <3>3
  <2> HIDE DEF Good
  <2> QED
    BY <2>1, <2>2, StepInduction
<1>2. ASSUME NEW n \in Nat, NEW m \in Nat, n <= m, NEW f \in [Nat -> V], NEW h \in [Nat -> V],
             Upto(n, f), Upto(m, h)
      PROVE  \A i \in Nat : i < n => f[i] = h[i]
  <2> DEFINE Same == {i \in Nat : i < n => f[i] = h[i]}
  <2>1. 0 \in Same
    BY <1>2
  <2>2. ASSUME NEW i \in Nat, i \in Same PROVE i + 1 \in Same
    <3> SUFFICES ASSUME i + 1 < n PROVE f[i + 1] = h[i + 1]
      OBVIOUS
    <3>1. f[i] = h[i] /\ i + 1 \in Nat /\ (i + 1) - 1 = i /\ i + 1 < m
      BY <1>2, <2>2
    <3>2. f[i + 1] = g[f[i]] /\ h[i + 1] = g[h[i]]
      BY <1>2, <3>1
    <3> QED
      BY <3>1, <3>2
  <2>3. \A i \in Nat : i \in Same
    <3> HIDE DEF Same
    <3> QED
      BY <2>1, <2>2, StepInduction
  <2> QED
    BY <2>3
<1> DEFINE F == [n \in Nat |-> CHOOSE f \in [Nat -> V] : Upto(n, f)]
           u == [n \in Nat |-> F[n + 1][n]]
<1>3. ASSUME NEW n \in Nat PROVE F[n] \in [Nat -> V] /\ Upto(n, F[n])
  <2>1. \E f \in [Nat -> V] : Upto(n, f)
    BY <1>1
  <2> DEFINE c == CHOOSE f \in [Nat -> V] : Upto(n, f)
  <2>2. c \in [Nat -> V] /\ Upto(n, c)
    <3> HIDE DEF Upto
    <3> QED
      BY <2>1
  <2>3. F[n] = c
    BY Zenon
  <2> HIDE DEF F, c
  <2> QED
    BY <2>2, <2>3
<1> HIDE DEF F
<1>4. u \in [Nat -> V]
  BY <1>3
<1>5. ASSUME NEW n \in Nat PROVE u[n] = IF n = 0 THEN b ELSE g[u[n - 1]]
  <2>1. PICK m \in Nat : m = n + 1
    OBVIOUS
  <2>2. u[n] = F[m][n] /\ F[m] \in [Nat -> V] /\ Upto(m, F[m])
    BY <1>3, <2>1
  <2>3. F[m][n] = IF n = 0 THEN b ELSE g[F[m][n - 1]]
    BY <2>1, <2>2
  <2>4. CASE n = 0
    BY <2>2, <2>3, <2>4
  <2>5. CASE n # 0
    <3>1. n - 1 \in Nat /\ n <= m /\ (n - 1) + 1 = n /\ n - 1 < n
      BY <2>1, <2>5
    <3>2. F[n] \in [Nat -> V] /\ Upto(n, F[n])
      BY <1>3
    <3>3. F[n][n - 1] = F[m][n - 1]
      <4> HIDE DEF Upto
      <4> QED
        BY <1>2, <2>2, <3>1, <3>2
    <3>4. u[n - 1] = F[n][n - 1]
      BY <3>1
    <3> HIDE DEF u
    <3> QED
      BY <2>2, <2>3, <2>5, <3>3, <3>4
  <2> QED
    BY <2>4, <2>5
<1> HIDE DEF u
<1> QED
  BY <1>4, <1>5
-----------------------------------------------------------------------------
(* UFS: the forest of the disjoint sets.                                   *)

\* In the forest f, R gives the root of each element.
Forest(f, R) ==
    /\ f \in [Elements -> Elements] /\ R \in [Elements -> Elements]
    /\ \A v \in Elements : R[f[v]] = R[v] /\ f[R[v]] = R[v] /\ (f[v] = v => R[v] = v)

\* An element that has a father has at most half its weight, and at most that of its
\* root: size_ stays as it was when the element was hung under another.
Weighs(f, R, s) ==
    /\ s \in [Elements -> 1 .. NumElements]
    /\ \A v \in Elements : /\ f[v] # v => 2 * s[v] <= s[f[v]]
                           /\ s[v] <= s[R[v]]

\* The way of FindAndSet, turn by turn.
LEMMA Ancestors ==
    ASSUME NEW f \in [Elements -> Elements], NEW v \in Elements
    PROVE  /\ Ancestor(f, v, 0) = v
           /\ \A n \in Nat : /\ Ancestor(f, v, n) \in Elements
                             /\ Ancestor(f, v, n + 1) = f[Ancestor(f, v, n)]
<1> DEFINE way[i \in Nat] == IF i = 0 THEN v ELSE f[way[i - 1]]
<1>1. PICK w \in [Nat -> Elements] : \A n \in Nat : w[n] = IF n = 0 THEN v ELSE f[w[n - 1]]
  BY Iteration
<1>2. w = [i \in Nat |-> IF i = 0 THEN v ELSE f[w[i - 1]]]
  BY <1>1
<1>3. way = [i \in Nat |-> IF i = 0 THEN v ELSE f[way[i - 1]]]
  BY <1>2, Zenon DEF way
<1>4. \A n \in Nat : Ancestor(f, v, n) = way[n]
  BY Zenon DEF Ancestor
<1> HIDE DEF way
<1>5. way[0] = v /\ \A n \in Nat : way[n + 1] = f[way[n]]
  BY <1>3
<1> DEFINE Good == {n \in Nat : way[n] \in Elements}
<1>6. 0 \in Good /\ \A n \in Nat : n \in Good => n + 1 \in Good
  BY <1>5
<1>7. \A n \in Nat : n \in Good
  <2> HIDE DEF Good
  <2> QED
    BY <1>6, StepInduction
<1> QED
  BY <1>4, <1>5, <1>7

\* FindAndSet stays in the tree and comes to its root: its way leads to ever heavier
\* elements.
LEMMA WayUp ==
    ASSUME NEW f, NEW R, Forest(f, R), NEW s, Weighs(f, R, s), NEW v \in Elements
    PROVE  /\ Root(f, v) = R[v]
           /\ \A n \in Nat : Ancestor(f, v, n) \in Elements /\ R[Ancestor(f, v, n)] = R[v]
<1> DEFINE A(n) == Ancestor(f, v, n)
           Good == {n \in Nat : /\ A(n) \in Elements /\ R[A(n)] = R[v]
                                /\ f[A(n)] = A(n) \/ n < s[A(n)]}
<1>1. A(0) = v /\ \A n \in Nat : A(n) \in Elements /\ A(n + 1) = f[A(n)]
  BY Ancestors DEF Forest
<1> HIDE DEF A
<1>2. 0 \in Good
  BY <1>1, UFSAssumption DEF Weighs
<1>3. ASSUME NEW n \in Nat, n \in Good PROVE n + 1 \in Good
  <2>1. /\ A(n) \in Elements /\ R[A(n)] = R[v] /\ A(n + 1) = f[A(n)] /\ A(n + 1) \in Elements
        /\ f[A(n)] = A(n) \/ n < s[A(n)]
    BY <1>1, <1>3
  <2>2. R[A(n + 1)] = R[v]
    BY <2>1 DEF Forest
  <2>3. CASE f[A(n)] = A(n)
    BY <2>1, <2>2, <2>3
  <2>4. CASE f[A(n)] # A(n)
    <3>1. n < s[A(n)] /\ 2 * s[A(n)] <= s[A(n + 1)]
      BY <2>1, <2>4 DEF Weighs
    <3>2. s[A(n)] \in Nat /\ s[A(n + 1)] \in Nat /\ 1 <= s[A(n)]
      BY <2>1, UFSAssumption DEF Weighs
    <3>3. n + 1 < s[A(n + 1)]
      BY <3>1, <3>2
    <3> QED
      BY <2>1, <2>2, <3>3
  <2> QED
    BY <2>3, <2>4
<1>4. \A n \in Nat : n \in Good
  <2> HIDE DEF Good
  <2> QED
    BY <1>2, <1>3, StepInduction
<1>5. f[A(NumElements)] = A(NumElements) /\ R[A(NumElements)] = R[v] /\ A(NumElements) \in Elements
  <2>1. NumElements \in Good
    BY <1>4, UFSAssumption
  <2>2. s[A(NumElements)] \in Nat /\ s[A(NumElements)] <= NumElements
    BY <2>1, UFSAssumption DEF Weighs
  <2> QED
    BY <2>1, <2>2, UFSAssumption
<1>6. A(NumElements) = R[v]
  BY <1>5 DEF Forest
<1> QED
  BY <1>4, <1>6 DEF Root, A

\* Path compression leaves every element in its tree.
LEMMA Compresses ==
    ASSUME NEW f, NEW R, Forest(f, R), NEW s, Weighs(f, R, s), NEW v \in Elements,
           NEW g, g = Compress(f, v)
    PROVE  Forest(g, R) /\ Weighs(g, R, s)
<1>1. PICK P, r : P = Path(f, v) /\ r = Root(f, v)
  OBVIOUS
<1>2. r = R[v] /\ \A u \in P : u \in Elements /\ R[u] = R[v] /\ u # R[v]
  <2>1. /\ Root(f, v) = R[v]
        /\ \A n \in Nat : Ancestor(f, v, n) \in Elements /\ R[Ancestor(f, v, n)] = R[v]
    BY WayUp
  <2>2. \A u \in P : \E n \in Elements : u = Ancestor(f, v, n) /\ u # r
    BY <1>1 DEF Path
  <2> QED
    BY <1>1, <2>1, <2>2, UFSAssumption DEF Elements
<1>3. g = [u \in Elements |-> IF u \in P THEN r ELSE f[u]]
  BY <1>1 DEF Compress
<1>a. /\ f \in [Elements -> Elements] /\ R \in [Elements -> Elements] /\ r \in Elements
      /\ \A u \in Elements : R[f[u]] = R[u] /\ f[R[u]] = R[u] /\ (f[u] = u => R[u] = u)
  BY <1>2 DEF Forest
<1>4. \A u \in P : f[u] # u /\ R[r] = r
  BY <1>2, <1>a
<1>5. g \in [Elements -> Elements]
  BY <1>3, <1>a
<1>6. ASSUME NEW u \in Elements PROVE R[g[u]] = R[u] /\ g[R[u]] = R[u] /\ (g[u] = u => R[u] = u)
  <2>1. R[u] \notin P
    BY <1>4, <1>a
  <2>2. g[R[u]] = R[u]
    BY <1>3, <1>a, <2>1
  <2>3. CASE u \in P
    BY <1>2, <1>3, <1>4, <2>2, <2>3
  <2>4. CASE u \notin P
    BY <1>3, <1>a, <2>2, <2>4
  <2> QED
    BY <2>3, <2>4
<1>7. ASSUME NEW u \in Elements, g[u] # u PROVE 2 * s[u] <= s[g[u]]
  <2>1. CASE u \in P
    <3>1. f[u] # u /\ f[u] \in Elements /\ R[f[u]] = r /\ g[u] = r
      BY <1>2, <1>3, <1>4, <1>a, <2>1
    <3>2. 2 * s[u] <= s[f[u]] /\ s[f[u]] <= s[r]
      BY <3>1 DEF Weighs
    <3>3. s[u] \in Nat /\ s[f[u]] \in Nat /\ s[r] \in Nat
      BY <1>a, <3>1, UFSAssumption DEF Weighs
    <3> QED
      BY <3>1, <3>2, <3>3
  <2>2. CASE u \notin P
    BY <1>3, <1>7, <2>2 DEF Weighs
  <2> QED
    BY <2>1, <2>2
<1>8. Forest(g, R)
  BY <1>5, <1>6, <1>a DEF Forest
<1>9. Weighs(g, R, s)
  BY <1>7 DEF Weighs
<1> QED
  BY <1>8, <1>9

\* The elements of the tree with root r, and the sets that the roots R make.
Tree(R, r) == {u \in Elements : R[u] = r}
Partition(R) == {Tree(R, R[v]) : v \in Elements}

\* The sets are the trees, and the counters count them and their elements.
CountsTrees(R, s, c, sets) ==
    /\ sets = Partition(R) /\ c = Cardinality(sets)
    /\ \A v \in Elements : s[R[v]] = Cardinality(Tree(R, R[v]))

\* The set of an element is its tree.
LEMMA ClassIsTree ==
    ASSUME NEW R \in [Elements -> Elements], classes = Partition(R), NEW x \in Elements
    PROVE  ClassOf(x) = Tree(R, R[x])
<1>1. Tree(R, R[x]) \in classes /\ x \in Tree(R, R[x])
  BY DEF Partition, Tree
<1>2. ASSUME NEW c \in classes, x \in c PROVE c = Tree(R, R[x])
  BY <1>2 DEF Partition, Tree
<1> QED
  BY <1>1, <1>2 DEF ClassOf

\* Trees and partitions are finite.
LEMMA TreesFinite ==
    ASSUME NEW R \in [Elements -> Elements]
    PROVE  /\ \A r : IsFiniteSet(Tree(R, r)) /\ Cardinality(Tree(R, r)) \in Nat
           /\ \A T \in SUBSET Elements : IsFiniteSet(T) /\ Cardinality(T) <= NumElements
           /\ IsFiniteSet(Partition(R)) /\ Cardinality(Partition(R)) \in Nat
<1>1. IsFiniteSet(Elements) /\ Cardinality(Elements) = NumElements
  <2>1. 0 \in Int /\ NumElements - 1 \in Int /\ (0 > NumElements - 1 <=> NumElements = 0)
    BY UFSAssumption
  <2> QED
    BY <2>1, FS_Interval, UFSAssumption DEF Elements
<1>2. \A T \in SUBSET Elements : IsFiniteSet(T) /\ Cardinality(T) <= NumElements
  BY <1>1, FS_Subset
<1>3. ASSUME NEW r PROVE IsFiniteSet(Tree(R, r)) /\ Cardinality(Tree(R, r)) \in Nat
  <2>1. Tree(R, r) \in SUBSET Elements
    BY DEF Tree
  <2> QED
    BY <1>2, <2>1, FS_CardinalityType
<1>4. IsFiniteSet(Partition(R)) /\ Cardinality(Partition(R)) \in Nat
  <2> DEFINE g == [v \in Elements |-> Tree(R, R[v])]
  <2>1. g \in Surjection(Elements, Partition(R))
    BY DEF Partition, Surjection
  <2> HIDE DEF g
  <2> QED
    BY <1>1, <2>1, FS_Surjection, FS_CardinalityType
<1> QED
  BY <1>2, <1>3, <1>4

\* The roots after tree small has been hung under big.
United(R, big, small) == [u \in Elements |-> IF R[u] = small THEN big ELSE R[u]]

\* Unit makes one tree of two.
LEMMA UnitesForest ==
    ASSUME NEW f, NEW R, Forest(f, R), NEW big \in Elements, NEW small \in Elements,
           R[big] = big, R[small] = small, big # small
    PROVE  Forest([f EXCEPT ![small] = big], United(R, big, small))
<1> DEFINE g == [f EXCEPT ![small] = big]
           Q == United(R, big, small)
<1>a. /\ f \in [Elements -> Elements] /\ R \in [Elements -> Elements]
      /\ \A u \in Elements : R[f[u]] = R[u] /\ f[R[u]] = R[u] /\ (f[u] = u => R[u] = u)
  BY DEF Forest
<1>1. /\ g \in [Elements -> Elements] /\ g[small] = big
      /\ \A u \in Elements : u # small => g[u] = f[u]
  BY <1>a
<1>2. Q \in [Elements -> Elements] /\ \A u \in Elements : Q[u] = IF R[u] = small THEN big ELSE R[u]
  BY <1>a DEF United
<1> HIDE DEF g, Q
<1>3. ASSUME NEW u \in Elements PROVE Q[g[u]] = Q[u] /\ g[Q[u]] = Q[u] /\ (g[u] = u => Q[u] = u)
  <2>1. Q[g[u]] = Q[u]
    BY <1>1, <1>2, <1>a
  <2>2. g[Q[u]] = Q[u]
    <3>1. f[big] = big
      BY <1>a
    <3> QED
      BY <1>1, <1>2, <1>a, <3>1
  <2>3. g[u] = u => Q[u] = u
    BY <1>1, <1>2, <1>a
  <2> QED
    BY <2>1, <2>2, <2>3
<1>4. Forest(g, Q)
  BY <1>1, <1>2, <1>3 DEF Forest
<1> QED
  BY <1>4 DEF g, Q

\* The trees after that.
LEMMA UnitesTrees ==
    ASSUME NEW R \in [Elements -> Elements], NEW big \in Elements, NEW small \in Elements,
           R[big] = big, R[small] = small, big # small, NEW Q, Q = United(R, big, small)
    PROVE  /\ Tree(Q, big) = Tree(R, big) \cup Tree(R, small)
           /\ \A r : r # big /\ r # small => Tree(Q, r) = Tree(R, r)
           /\ Partition(Q) = (Partition(R) \ {Tree(R, big), Tree(R, small)})
                                \cup {Tree(R, big) \cup Tree(R, small)}
<1>1. Q \in [Elements -> Elements] /\ \A u \in Elements : Q[u] = IF R[u] = small THEN big ELSE R[u]
  BY DEF United
<1>2. Tree(Q, big) = Tree(R, big) \cup Tree(R, small)
  BY <1>1 DEF Tree
<1>3. ASSUME NEW r, r # big, r # small PROVE Tree(Q, r) = Tree(R, r)
  BY <1>1, <1>3 DEF Tree
<1>4. \A v \in Elements : v \in Tree(R, R[v]) /\ \A r : v \in Tree(R, r) => R[v] = r
  BY DEF Tree
<1>5. ASSUME NEW T \in Partition(Q)
      PROVE  \/ T = Tree(R, big) \cup Tree(R, small)
             \/ T \in Partition(R) /\ T # Tree(R, big) /\ T # Tree(R, small)
  <2>1. PICK v \in Elements : T = Tree(Q, Q[v])
    BY DEF Partition
  <2>2. CASE Q[v] = big
    BY <1>2, <2>1, <2>2
  <2>3. CASE Q[v] # big
    <3>1. Q[v] = R[v] /\ R[v] # big /\ R[v] # small
      BY <1>1, <2>3
    <3>2. T = Tree(R, R[v])
      BY <1>3, <2>1, <3>1
    <3>3. v \in T
      BY <1>4, <3>2
    <3> QED
      BY <1>4, <3>1, <3>2, <3>3 DEF Partition
  <2> QED
    BY <2>2, <2>3
<1>6. Tree(R, big) \cup Tree(R, small) \in Partition(Q)
  <2>1. Q[big] = big
    BY <1>1
  <2> QED
    BY <1>2, <2>1 DEF Partition
<1>7. ASSUME NEW T \in Partition(R), T # Tree(R, big), T # Tree(R, small) PROVE T \in Partition(Q)
  <2>1. PICK v \in Elements : T = Tree(R, R[v])
    BY DEF Partition
  <2>2. R[v] # big /\ R[v] # small
    BY <1>7, <2>1
  <2>3. Q[v] = R[v]
    BY <1>1, <2>2
  <2>4. T = Tree(Q, Q[v])
    BY <1>3, <2>1, <2>2, <2>3
  <2> QED
    BY <2>4 DEF Partition
<1>8. Partition(Q) = (Partition(R) \ {Tree(R, big), Tree(R, small)})
                        \cup {Tree(R, big) \cup Tree(R, small)}
  BY <1>5, <1>6, <1>7, ZenonT(40)
<1> QED
  BY <1>2, <1>3, <1>8

\* The counters after that.
LEMMA UnitesCounts ==
    ASSUME NEW R \in [Elements -> Elements], NEW big \in Elements, NEW small \in Elements,
           R[big] = big, R[small] = small, big # small,
           NEW s \in [Elements -> 1 .. NumElements], NEW c, NEW sets, CountsTrees(R, s, c, sets)
    PROVE  /\ s[big] + s[small] \in 1 .. NumElements
           /\ CountsTrees(United(R, big, small), [s EXCEPT ![big] = s[big] + s[small]], c - 1,
                      (sets \ {Tree(R, big), Tree(R, small)}) \cup {Tree(R, big) \cup Tree(R, small)})
<1> DEFINE A == Tree(R, big)
           B == Tree(R, small)
           rest == (sets \ {A}) \ {B}
           sets2 == (sets \ {A, B}) \cup {A \cup B}
           s2 == [s EXCEPT ![big] = s[big] + s[small]]
<1>1. PICK Q : Q = United(R, big, small)
  OBVIOUS
<1>2. Q \in [Elements -> Elements] /\ \A u \in Elements : Q[u] = IF R[u] = small THEN big ELSE R[u]
  BY <1>1 DEF United
<1>3. /\ Tree(Q, big) = A \cup B
      /\ \A r : r # big /\ r # small => Tree(Q, r) = Tree(R, r)
      /\ Partition(Q) = (Partition(R) \ {A, B}) \cup {A \cup B}
  BY <1>1, UnitesTrees
<1>4. /\ sets = Partition(R) /\ c = Cardinality(sets)
      /\ \A v \in Elements : s[R[v]] = Cardinality(Tree(R, R[v]))
  BY DEF CountsTrees
<1>5. /\ A \in sets /\ B \in sets /\ A # B /\ A \cap B = {} /\ A \cup B \in SUBSET Elements
      /\ \A T \in sets : T # A => big \notin T
  <2>1. A \in sets /\ B \in sets
    BY <1>4 DEF Partition
  <2>2. big \in A /\ A \cap B = {} /\ A \cup B \in SUBSET Elements
    BY DEF Tree
  <2>3. ASSUME NEW T \in sets, T # A PROVE big \notin T
    BY <1>4, <2>3 DEF Partition, Tree
  <2>4. big \notin B
    BY SMTT(30) DEF Tree
  <2> QED
    BY <2>1, <2>2, <2>3, <2>4
<1>6. /\ IsFiniteSet(A) /\ Cardinality(A) \in Nat /\ IsFiniteSet(B) /\ Cardinality(B) \in Nat
      /\ IsFiniteSet(sets) /\ Cardinality(sets) \in Nat
      /\ IsFiniteSet(A \cup B) /\ Cardinality(A \cup B) <= NumElements
  BY <1>4, <1>5, TreesFinite
<1>7. s[big] = Cardinality(A) /\ s[small] = Cardinality(B)
  BY <1>4
<1>8. Cardinality(A \cup B) = s[big] + s[small]
  <2> HIDE DEF A, B
  <2>1. Cardinality(A \cup B) = Cardinality(A) + Cardinality(B) - Cardinality(A \cap B)
    BY <1>6, FS_Union
  <2>2. Cardinality(A \cap B) = 0
    BY <1>5, FS_EmptySet, ZenonT(40)
  <2> QED
    BY <1>6, <1>7, <2>1, <2>2
<1>9. s[big] + s[small] \in 1 .. NumElements
  BY <1>6, <1>8, UFSAssumption
<1>10. Cardinality(sets2) = c - 1
  <2> HIDE DEF A, B
  <2>1. IsFiniteSet(sets \ {A}) /\ Cardinality(sets \ {A}) = Cardinality(sets) - 1
    BY <1>5, <1>6, FS_RemoveElement
  <2>2. IsFiniteSet(rest) /\ Cardinality(rest) = Cardinality(sets \ {A}) - 1
    <3>1. B \in sets \ {A}
      BY <1>5
    <3> QED
      BY <2>1, <3>1, FS_RemoveElement, SMTT(30)
  <2>3. A \cup B \notin rest
    <3>1. big \in A \cup B
      BY DEF A, Tree
    <3> QED
      BY <1>5, <3>1
  <2>4. Cardinality(rest \cup {A \cup B}) = Cardinality(rest) + 1
    <3> HIDE DEF rest
    <3> QED
      BY <2>2, <2>3, FS_AddElement, ZenonT(40)
  <2>5. sets2 = rest \cup {A \cup B}
    OBVIOUS
  <2> HIDE DEF rest, sets2
  <2> QED
    BY <1>4, <1>6, <2>1, <2>2, <2>4, <2>5
<1>11. ASSUME NEW v \in Elements PROVE s2[Q[v]] = Cardinality(Tree(Q, Q[v]))
  <2>1. CASE Q[v] = big
    BY <1>3, <1>8, <2>1, ZenonT(40)
  <2>2. CASE Q[v] # big
    <3>1. Q[v] = R[v] /\ R[v] # big /\ R[v] # small
      BY <1>2, <2>2
    <3>2. Tree(Q, Q[v]) = Tree(R, R[v])
      BY <1>3, <3>1
    <3>3. s2[R[v]] = s[R[v]]
      BY <3>1
    <3> HIDE DEF s2
    <3> QED
      BY <1>4, <3>1, <3>2, <3>3
  <2> QED
    BY <2>1, <2>2
<1>12. sets2 = Partition(Q)
  BY <1>3, <1>4
<1> HIDE DEF s2, sets2
<1>13. CountsTrees(Q, s2, c - 1, sets2)
  BY <1>10, <1>11, <1>12 DEF CountsTrees
<1> QED
  BY <1>1, <1>9, <1>13 DEF s2, sets2

\* The weights after that.
LEMMA UnitesWeights ==
    ASSUME NEW f, NEW R, Forest(f, R), NEW s, Weighs(f, R, s),
           NEW big \in Elements, NEW small \in Elements,
           R[big] = big, R[small] = small, big # small, s[small] <= s[big],
           s[big] + s[small] \in 1 .. NumElements
    PROVE  Weighs([f EXCEPT ![small] = big], United(R, big, small), [s EXCEPT ![big] = s[big] + s[small]])
<1> DEFINE g == [f EXCEPT ![small] = big]
           Q == United(R, big, small)
           s2 == [s EXCEPT ![big] = s[big] + s[small]]
<1>a. /\ f \in [Elements -> Elements] /\ R \in [Elements -> Elements]
      /\ \A u \in Elements : R[f[u]] = R[u] /\ f[R[u]] = R[u] /\ (f[u] = u => R[u] = u)
  BY DEF Forest
<1>b. /\ s \in [Elements -> 1 .. NumElements]
      /\ \A v \in Elements : (f[v] # v => 2 * s[v] <= s[f[v]]) /\ s[v] <= s[R[v]]
  BY DEF Weighs
<1>1. /\ g \in [Elements -> Elements] /\ g[small] = big
      /\ \A u \in Elements : u # small => g[u] = f[u]
  BY <1>a
<1>2. Q \in [Elements -> Elements] /\ \A u \in Elements : Q[u] = IF R[u] = small THEN big ELSE R[u]
  BY <1>a, SMTT(30) DEF United
<1>3. /\ s2 \in [Elements -> 1 .. NumElements] /\ s2[big] = s[big] + s[small]
      /\ \A u \in Elements : u # big => s2[u] = s[u]
  BY <1>b, SMTT(30)
<1> HIDE DEF g, Q, s2
<1>4. \A u \in Elements : s[u] \in Nat /\ s2[u] \in Nat /\ s[u] <= s2[u]
  <2>1. \A u \in Elements : s[u] \in Nat /\ s2[u] \in Nat
    BY <1>b, <1>3, UFSAssumption
  <2>2. s[big] <= s[big] + s[small]
    BY <2>1
  <2> QED
    BY <1>3, <2>1, <2>2, SMTT(30)
<1>5. ASSUME NEW u \in Elements, g[u] # u PROVE 2 * s2[u] <= s2[g[u]]
  <2>1. CASE u = small
    <3>1. s2[u] = s[small] /\ s2[g[u]] = s[big] + s[small]
      BY <1>1, <1>3, <2>1
    <3> QED
      BY <1>4, <3>1, SMTT(30)
  <2>2. CASE u # small
    <3>1. g[u] = f[u] /\ f[u] # u /\ f[u] \in Elements
      BY <1>1, <1>5, <1>a, <2>2
    <3>2. u # big
      BY <1>a, <3>1, SMTT(30)
    <3>3. s2[u] = s[u] /\ 2 * s[u] <= s[f[u]] /\ s[f[u]] <= s2[f[u]]
      BY <1>3, <1>4, <1>b, <3>1, <3>2
    <3>4. s2[u] \in Nat /\ s[f[u]] \in Nat /\ s2[f[u]] \in Nat
      BY <1>4, <3>1, ZenonT(40)
    <3> QED
      BY <3>1, <3>3, <3>4
  <2> QED
    BY <2>1, <2>2
<1>6. ASSUME NEW u \in Elements PROVE s2[u] <= s2[Q[u]]
  <2>1. CASE u = big
    <3>1. Q[u] = u
      BY <1>2, <2>1
    <3> QED
      BY <1>4, <3>1
  <2>2. CASE u # big
    <3>1. s2[u] = s[u] /\ s[u] <= s[R[u]] /\ R[u] \in Elements
      BY <1>3, <1>a, <1>b, <2>2, SMTT(30)
    <3>2. CASE R[u] = small
      <4>1. s2[Q[u]] = s[big] + s[small] /\ s[u] <= s[small]
        BY <1>2, <1>3, <3>1, <3>2, ZenonT(40)
      <4> QED
        BY <1>4, <3>1, <4>1
    <3>3. CASE R[u] # small
      <4>1. Q[u] = R[u] /\ s[R[u]] <= s2[R[u]]
        BY <1>2, <1>4, <3>1, <3>3, ZenonT(40)
      <4>2. s[u] \in Nat /\ s[R[u]] \in Nat /\ s2[R[u]] \in Nat
        BY <1>4, <3>1
      <4>3. PICK x, y, z : x = s[u] /\ y = s[R[u]] /\ z = s2[R[u]]
        BY SMTT(30)
      <4>4. x \in Nat /\ y \in Nat /\ z \in Nat /\ x <= y /\ y <= z
        BY <3>1, <4>1, <4>2, <4>3
      <4>5. x <= z
        BY <4>4
      <4> QED
        BY <3>1, <4>1, <4>3, <4>5
    <3> QED
      BY <3>2, <3>3
  <2> QED
    BY <2>1, <2>2
<1>7. Weighs(g, Q, s2)
  BY <1>3, <1>5, <1>6 DEF Weighs
<1> QED
  BY <1>7 DEF g, Q, s2

\* Pow2 doubles.
LEMMA Powers ==
    Pow2[0] = 1 /\ \A n \in Nat : Pow2[n] \in Nat /\ Pow2[n + 1] = 2 * Pow2[n]
<1> DEFINE twice == [k \in Nat |-> 2 * k]
           E(h) == h = [n \in Nat |-> IF n = 0 THEN 1 ELSE 2 * h[n - 1]]
<1>1. PICK V : V = Nat
  BY Zenon
<1>2. PICK h \in [Nat -> Nat] : \A n \in Nat : h[n] = IF n = 0 THEN 1 ELSE twice[h[n - 1]]
  <2>1. twice \in [V -> V]
    BY <1>1
  <2>2. PICK b \in V : b = 1
    BY <1>1
  <2> HIDE DEF twice
  <2>3. PICK h \in [Nat -> V] : \A n \in Nat : h[n] = IF n = 0 THEN b ELSE twice[h[n - 1]]
    BY <2>1, Iteration
  <2> QED
    BY <1>1, <2>2, <2>3
<1> HIDE DEF twice
<1>3. \A n \in Nat : n # 0 => twice[h[n - 1]] = 2 * h[n - 1]
  BY DEF twice
<1>4. E(h)
  BY <1>2, <1>3
<1>5. E(Pow2)
  BY <1>4, Zenon DEF Pow2
<1>6. Pow2[0] = 1 /\ \A n \in Nat : Pow2[n + 1] = 2 * Pow2[n]
  BY <1>5
<1> DEFINE Good == {n \in Nat : Pow2[n] \in Nat}
<1>7. 0 \in Good /\ \A n \in Nat : n \in Good => n + 1 \in Good
  BY <1>6
<1>8. \A n \in Nat : n \in Good
  <2> HIDE DEF Good
  <2> QED
    BY <1>7, StepInduction, SMTT(30)
<1> QED
  BY <1>6, <1>8

\* Every element on the way of FindAndSet doubles the weight it has reached.
LEMMA PathsDouble ==
    ASSUME NEW f, NEW R, Forest(f, R), NEW s, Weighs(f, R, s), NEW v \in Elements
    PROVE  Pow2[Cardinality(Path(f, v))] <= s[R[v]]
<1> DEFINE A(n) == Ancestor(f, v, n)
           S(n) == {A(i) : i \in 0 .. n - 1} \ {R[v]}
           Good == {n \in Nat : /\ IsFiniteSet(S(n)) /\ Cardinality(S(n)) \in Nat
                                /\ Pow2[Cardinality(S(n))] <= s[A(n)]}
<1>1. A(0) = v /\ \A n \in Nat : A(n) \in Elements /\ A(n + 1) = f[A(n)]
  BY Ancestors DEF Forest
<1>2. Root(f, v) = R[v] /\ \A n \in Nat : R[A(n)] = R[v]
  BY WayUp
<1>3. Path(f, v) = S(NumElements) /\ Root(f, v) = A(NumElements)
  BY <1>2 DEF Path, Root, Elements
<1> HIDE DEF A
<1>4. \A u \in Elements : s[u] \in Nat /\ 1 <= s[u]
  BY UFSAssumption DEF Weighs
<1>5. 0 \in Good
  <2>1. S(0) = {}
    OBVIOUS
  <2>2. IsFiniteSet(S(0)) /\ Cardinality(S(0)) = 0
    BY <2>1, FS_EmptySet, SMTT(30)
  <2>3. v \in Elements /\ 1 <= s[v] /\ Pow2[0] = 1 /\ A(0) = v
    BY <1>1, <1>4, Powers
  <2> HIDE DEF S
  <2>4. Pow2[Cardinality(S(0))] <= s[A(0)]
    BY <2>2, <2>3
  <2> QED
    BY <2>2, <2>4
<1>6. ASSUME NEW n \in Nat, n \in Good PROVE n + 1 \in Good
  <2>1. PICK a, b, c : a = A(n) /\ b = A(n + 1) /\ c = Cardinality(S(n))
    OBVIOUS
  <2>2. /\ a \in Elements /\ b \in Elements /\ b = f[a] /\ R[a] = R[v] /\ c \in Nat
        /\ IsFiniteSet(S(n)) /\ Pow2[c] <= s[a] /\ n + 1 \in Nat
    <3>1. A(n) \in Elements /\ A(n + 1) \in Elements /\ A(n + 1) = f[A(n)] /\ n + 1 \in Nat
      BY <1>1
    <3>2. R[A(n)] = R[v]
      BY <1>2
    <3> HIDE DEF S
    <3>3. IsFiniteSet(S(n)) /\ Pow2[Cardinality(S(n))] <= s[A(n)]
      BY <1>6
    <3>4. Cardinality(S(n)) \in Nat
      BY <3>3, FS_CardinalityType
    <3> QED
      BY <2>1, <3>1, <3>2, <3>3, <3>4, ZenonT(40)
  <2>3. S(n + 1) = S(n) \cup ({a} \ {R[v]})
    <3>1. 0 .. (n + 1) - 1 = (0 .. n - 1) \cup {n}
      BY SMTT(30)
    <3> QED
      BY <2>1, <3>1
  <2>4. /\ Pow2[c] \in Nat /\ Pow2[c + 1] = 2 * Pow2[c] /\ s[a] \in Nat /\ s[b] \in Nat
    BY <1>4, <2>2, Powers, SMTT(30)
  <2> HIDE DEF S
  <2>5. CASE f[a] = a
    <3>1. a = R[v] /\ b = a
      BY <2>2, <2>5 DEF Forest
    <3>2. S(n + 1) = S(n)
      BY <2>3, <3>1
    <3> QED
      BY <2>1, <2>2, <3>1, <3>2
  <2>6. CASE f[a] # a
    <3>1. a # R[v]
      BY <2>2, <2>6 DEF Forest
    <3>2. S(n + 1) = S(n) \cup {a}
      BY <2>3, <3>1
    <3>3. 2 * s[a] <= s[b]
      BY <2>2, <2>6, SMTT(30) DEF Weighs
    <3>4. /\ IsFiniteSet(S(n + 1))
          /\ Cardinality(S(n + 1)) = c \/ Cardinality(S(n + 1)) = c + 1
      <4>1. PICK X : X = S(n)
        OBVIOUS
      <4>2. IsFiniteSet(X) /\ Cardinality(X) = c
        BY <2>1, <2>2, <4>1
      <4>3. IsFiniteSet(X \cup {a}) /\ Cardinality(X \cup {a}) = IF a \in X THEN Cardinality(X) ELSE Cardinality(X) + 1
        BY ONLY <4>2, FS_AddElement
      <4>4. S(n + 1) = X \cup {a}
        BY <3>2, <4>1
      <4> QED
        BY ONLY <4>2, <4>3, <4>4
    <3>5. Pow2[Cardinality(S(n + 1))] <= s[b]
      <4>1. PICK x, y, z : x = Pow2[c] /\ y = s[a] /\ z = s[b]
        OBVIOUS
      <4>2. x \in Nat /\ y \in Nat /\ z \in Nat /\ x <= y /\ 2 * y <= z /\ Pow2[c + 1] = 2 * x
        BY <2>2, <2>4, <3>3, <4>1
      <4>3. x <= z /\ Pow2[c + 1] <= z
        BY ONLY <4>2
      <4> QED
        BY <3>4, <4>1, <4>3
    <3>6. Pow2[Cardinality(S(n + 1))] <= s[A(n + 1)] /\ n + 1 \in Nat
      BY <2>1, <2>2, <3>5
    <3>7. Cardinality(S(n + 1)) \in Nat
      BY <3>4, FS_CardinalityType
    <3> QED
      BY <3>4, <3>6, <3>7
  <2> QED
    BY <2>5, <2>6
<1>7. NumElements \in Good
  <2> HIDE DEF Good
  <2> QED
    BY <1>5, <1>6, StepInduction, UFSAssumption
<1> QED
  BY <1>2, <1>3, <1>7

\* The inductive invariant of UFS.
UFSInv ==
    \E R : Forest(father_, R) /\ Weighs(father_, R, size_) /\ CountsTrees(R, size_, count_, classes)

\* The constructor establishes it.
LEMMA UFSInitInv == UFSInit => UFSInv
<1> SUFFICES ASSUME UFSInit PROVE UFSInv
  OBVIOUS
<1>1. PICK R : R = [v \in Elements |-> v]
  BY Zenon
<1>2. /\ R \in [Elements -> Elements] /\ father_ = R /\ size_ = [v \in Elements |-> 1]
      /\ \A v \in Elements : R[v] = v
  BY <1>1 DEF UFSInit
<1>3. Forest(father_, R)
  BY <1>2 DEF Forest
<1>4. Weighs(father_, R, size_)
  <2>1. ASSUME NEW v \in Elements PROVE 1 \in 1 .. NumElements
    BY UFSAssumption DEF Elements
  <2> QED
    BY <1>2, <2>1 DEF Weighs
<1>5. \A v \in Elements : Tree(R, R[v]) = {v}
  BY <1>2 DEF Tree
<1>6. classes = Partition(R)
  BY <1>5, Zenon DEF UFSInit, Partition
<1>7. Cardinality(classes) = NumElements
  <2> DEFINE g == [v \in Elements |-> {v}]
  <2>1. g \in Bijection(Elements, classes)
    BY Zenon DEF UFSInit, Bijection, Injection, Surjection, IsInjective
  <2>2. ExistsBijection(Elements, classes)
    <3> HIDE DEF g
    <3> QED
      BY <2>1 DEF ExistsBijection
  <2>3. IsFiniteSet(Elements) /\ Cardinality(Elements) = NumElements
    <3>1. 0 \in Int /\ NumElements - 1 \in Int /\ (0 > NumElements - 1 <=> NumElements = 0)
      BY UFSAssumption
    <3> QED
      BY <3>1, FS_Interval, UFSAssumption DEF Elements
  <2> QED
    BY <2>2, <2>3, FS_Bijection
<1>8. \A v \in Elements : size_[R[v]] = Cardinality(Tree(R, R[v]))
  <2>1. \A v \in Elements : size_[R[v]] = 1 /\ Cardinality({v}) = 1
    BY <1>2, FS_Singleton, Zenon
  <2> QED
    BY <1>5, <2>1
<1>9. CountsTrees(R, size_, count_, classes)
  BY <1>6, <1>7, <1>8 DEF CountsTrees, UFSInit
<1> QED
  BY <1>3, <1>4, <1>9 DEF UFSInv

\* FindAndSet keeps the invariant.
LEMMA FindAndSetInv == ASSUME UFSInv, NEW v \in Elements, FindAndSet(v) PROVE UFSInv'
<1>1. PICK R : Forest(father_, R) /\ Weighs(father_, R, size_) /\ CountsTrees(R, size_, count_, classes)
  BY DEF UFSInv
<1>2. PICK g : g = Compress(father_, v)
  OBVIOUS
<1>3. father_' = g /\ size_' = size_ /\ count_' = count_ /\ classes' = classes
  BY <1>2 DEF FindAndSet
<1>4. Forest(g, R) /\ Weighs(g, R, size_)
  BY <1>1, <1>2, Compresses
<1>5. /\ Forest(father_', R) /\ Weighs(father_', R, size_')
      /\ CountsTrees(R, size_', count_', classes')
  BY <1>1, <1>3, <1>4
<1> QED
  BY <1>5 DEF UFSInv

\* What Unit does to two roots.
LEMMA UnitsRoots ==
    ASSUME NEW f, NEW R, Forest(f, R), Weighs(f, R, size_), CountsTrees(R, size_, count_, classes),
           NEW a \in Elements, NEW b \in Elements, R[a] = a, R[b] = b, a # b, Unit(f, a, b),
           classes' = (classes \ {Tree(R, a), Tree(R, b)}) \cup {Tree(R, a) \cup Tree(R, b)}
    PROVE  UFSInv'
<1>0. /\ R \in [Elements -> Elements] /\ f \in [Elements -> Elements]
      /\ size_ \in [Elements -> 1 .. NumElements]
      /\ \A u \in Elements : size_[u] \in Nat
  BY UFSAssumption DEF Forest, Weighs
<1>1. PICK big \in Elements, small \in Elements :
         /\ {big, small} = {a, b} /\ big # small /\ size_[small] <= size_[big]
         /\ father_' = [f EXCEPT ![small] = big]
         /\ size_' = [size_ EXCEPT ![big] = @ + size_[small]]
         /\ count_' = count_ - 1
  <2>1. CASE size_[a] < size_[b]
    <3>1. size_[a] <= size_[b]
      BY <1>0, <2>1
    <3> QED
      BY <2>1, <3>1, ZenonT(40) DEF Unit
  <2>2. CASE ~ (size_[a] < size_[b])
    <3>1. size_[b] <= size_[a]
      BY <1>0, <2>2
    <3> QED
      BY <2>2, <3>1, Zenon DEF Unit
  <2> QED
    BY <2>1, <2>2, ZenonT(40)
<1>2. R[big] = big /\ R[small] = small
  BY <1>1, ZenonT(40)
<1>3. classes' = (classes \ {Tree(R, big), Tree(R, small)}) \cup {Tree(R, big) \cup Tree(R, small)}
  <2>1. (big = a /\ small = b) \/ (big = b /\ small = a)
    BY <1>1
  <2> QED
    BY <2>1, ZenonT(40)
<1>4. size_' = [size_ EXCEPT ![big] = size_[big] + size_[small]]
  BY <1>0, <1>1
<1>5. Forest(father_', United(R, big, small))
  BY <1>1, <1>2, UnitesForest, Zenon
<1>6. /\ size_[big] + size_[small] \in 1 .. NumElements
      /\ CountsTrees(United(R, big, small), size_', count_', classes')
  <2>1. /\ size_[big] + size_[small] \in 1 .. NumElements
        /\ CountsTrees(United(R, big, small), [size_ EXCEPT ![big] = size_[big] + size_[small]],
                   count_ - 1,
                   (classes \ {Tree(R, big), Tree(R, small)})
                      \cup {Tree(R, big) \cup Tree(R, small)})
    BY <1>0, <1>1, <1>2, UnitesCounts, Zenon
  <2> QED
    BY <1>1, <1>3, <1>4, <2>1, Zenon
<1>7. Weighs(father_', United(R, big, small), size_')
  <2>1. Weighs([f EXCEPT ![small] = big], United(R, big, small),
               [size_ EXCEPT ![big] = size_[big] + size_[small]])
    BY <1>1, <1>2, <1>6, UnitesWeights, Zenon
  <2> QED
    BY <1>1, <1>4, <2>1, Zenon
<1>8. PICK Q : Q = United(R, big, small)
  BY ZenonT(40)
<1>9. Forest(father_', Q) /\ Weighs(father_', Q, size_') /\ CountsTrees(Q, size_', count_', classes')
  BY <1>5, <1>6, <1>7, <1>8, Zenon
<1> QED
  BY <1>9, ZenonT(40) DEF UFSInv

\* FindAndUnit keeps the invariant.
LEMMA FindAndUnitInv ==
    ASSUME UFSInv, NEW x \in Elements, NEW y \in Elements, FindAndUnit(x, y) PROVE UFSInv'
<1>1. PICK R : Forest(father_, R) /\ Weighs(father_, R, size_) /\ CountsTrees(R, size_, count_, classes)
  BY DEF UFSInv
<1>2. PICK g : g = Compress(father_, x)
  OBVIOUS
<1>3. PICK f : f = Compress(g, y)
  OBVIOUS
<1>4. Forest(f, R) /\ Weighs(f, R, size_)
  <2>1. Forest(g, R) /\ Weighs(g, R, size_)
    BY <1>1, <1>2, Compresses
  <2> QED
    BY <1>3, <2>1, Compresses
<1>5. Root(f, x) = R[x] /\ Root(f, y) = R[y]
  BY <1>4, WayUp
<1>6. /\ R \in [Elements -> Elements] /\ classes = Partition(R)
      /\ \A v \in Elements : R[R[v]] = R[v]
  BY <1>1 DEF Forest, CountsTrees
<1>7. ClassOf(x) = Tree(R, R[x]) /\ ClassOf(y) = Tree(R, R[y])
  BY <1>6, ClassIsTree
<1>8. /\ IF R[x] # R[y] THEN Unit(f, R[x], R[y])
         ELSE father_' = f /\ UNCHANGED <<size_, count_>>
      /\ classes' = (classes \ {Tree(R, R[x]), Tree(R, R[y])}) \cup {Tree(R, R[x]) \cup Tree(R, R[y])}
  BY <1>2, <1>3, <1>5, <1>7 DEF FindAndUnit
<1>9. CASE R[x] # R[y]
  <2>1. Unit(f, R[x], R[y]) /\ R[x] \in Elements /\ R[y] \in Elements
    BY <1>6, <1>8, <1>9
  <2> QED
    BY <1>1, <1>4, <1>6, <1>8, <1>9, <2>1, UnitsRoots
<1>10. CASE R[x] = R[y]
  <2>1. father_' = f /\ size_' = size_ /\ count_' = count_
    BY <1>8, <1>10
  <2>2. Tree(R, R[x]) \in classes
    BY <1>6 DEF Partition
  <2>3. classes' = classes
    BY <1>8, <1>10, <2>2, Zenon
  <2>4. /\ Forest(father_', R) /\ Weighs(father_', R, size_')
        /\ CountsTrees(R, size_', count_', classes')
    BY <1>1, <1>4, <2>1, <2>3
  <2> QED
    BY <2>4 DEF UFSInv
<1> QED
  BY <1>9, <1>10

\* The invariant says what a caller relies on.
LEMMA UFSInvRight == UFSInv => ClassesAreRight
<1> SUFFICES ASSUME UFSInv PROVE ClassesAreRight
  OBVIOUS
<1>1. PICK R : Forest(father_, R) /\ Weighs(father_, R, size_) /\ CountsTrees(R, size_, count_, classes)
  BY DEF UFSInv
<1>2. R \in [Elements -> Elements] /\ classes = Partition(R)
  BY <1>1 DEF Forest, CountsTrees
<1>3. \A v \in Elements : Root(father_, v) = R[v] /\ ClassOf(v) = Tree(R, R[v])
  BY <1>1, <1>2, WayUp, ClassIsTree
<1>4. RootsAreClasses
  <2>1. ASSUME NEW x \in Elements, NEW y \in Elements
        PROVE  R[x] = R[y] <=> Tree(R, R[x]) = Tree(R, R[y])
    BY SMTT(30) DEF Tree
  <2> QED
    BY <1>3, <2>1 DEF RootsAreClasses
<1>5. CountsAreRight
  BY <1>1, <1>3 DEF CountsAreRight, CountsTrees
<1>6. PathsAreShort
  <2>1. ASSUME NEW x \in Elements
        PROVE  Pow2[Cardinality(Path(father_, x))] <= Cardinality(ClassOf(x))
    <3>1. Pow2[Cardinality(Path(father_, x))] <= size_[R[x]]
      BY <1>1, PathsDouble, SMTT(30)
    <3>2. size_[R[x]] = Cardinality(ClassOf(x))
      BY <1>1, <1>3 DEF CountsTrees
    <3> QED
      BY <3>1, <3>2, ZenonT(40)
  <2> QED
    BY <2>1 DEF PathsAreShort
<1> QED
  BY <1>4, <1>5, <1>6 DEF ClassesAreRight

\* UFS.h, for every number of elements: after every sequence of FindAndSet and
\* FindAndUnit two elements have one root exactly when the calls have united them,
\* count() and the sizes are those of the sets, and a way to a root of d steps is in a
\* set of at least 2^d elements, whatever the compressions left.
THEOREM DisjointSetsAreRight == UFSSpec => []ClassesAreRight
<1>1. UFSInit => UFSInv
  BY UFSInitInv
<1>2. UFSInv /\ [UFSNext]_ufsVars => UFSInv'
  <2> SUFFICES ASSUME UFSInv, [UFSNext]_ufsVars PROVE UFSInv'
    OBVIOUS
  <2>1. CASE UFSNext
    BY <2>1, FindAndSetInv, FindAndUnitInv DEF UFSNext
  <2>2. CASE UNCHANGED ufsVars
    BY <2>2 DEF UFSInv, ufsVars
  <2> QED
    BY <2>1, <2>2
<1> QED
  BY <1>1, <1>2, UFSInvRight, PTL DEF UFSSpec
-----------------------------------------------------------------------------
(* Kmp: borders.                                                           *)

\* The first b letters of t are also the last b of its first k.
Bordered(t, k, b) == b \in 0 .. k - 1 /\ \A m \in 1 .. b : t[m] = t[k - b + m]

LongestBorder(t, k, b) == Bordered(t, k, b) /\ \A d : Bordered(t, k, d) => d <= b

\* The first b letters of t are also the last b of its first k - 1 and c.
Matched(t, k, c, b) ==
    b \in 0 .. k /\ (b > 0 => t[b] = c) /\ \A m \in 1 .. b - 1 : t[m] = t[k - b + m]

LongestMatch(t, k, c, b) == Matched(t, k, c, b) /\ \A d : Matched(t, k, c, d) => d <= b

\* The greatest of a set of lengths is the only one that none exceeds.
LEMMA LongestIs ==
    ASSUME NEW S, S \subseteq Nat, NEW b \in S, \A d \in S : d <= b
    PROVE  Longest(S) = b
<1>1. \A d \in S : b >= d
  OBVIOUS
<1>2. ASSUME NEW e \in S, \A d \in S : e >= d PROVE e = b
  BY <1>2
<1> QED
  BY <1>1, <1>2, Zenon DEF Longest

\* Subsequences, letter by letter.
LEMMA BorderIs ==
    ASSUME NEW X, NEW t \in Seq(X), NEW k \in 1 .. Len(t), NEW b, LongestBorder(t, k, b)
    PROVE  Border(t, k) = b
<1> DEFINE S == {d \in 0 .. k - 1 : SubSeq(t, 1, d) = SubSeq(t, k - d + 1, k)}
<1>1. ASSUME NEW d \in 0 .. k - 1
      PROVE  SubSeq(t, 1, d) = SubSeq(t, k - d + 1, k) <=> Bordered(t, k, d)
  <2> DEFINE p == SubSeq(t, 1, d)
             q == SubSeq(t, k - d + 1, k)
  <2>1. /\ p \in Seq(X) /\ Len(p) = d /\ \A m \in 1 .. d : p[m] = t[m]
        /\ q \in Seq(X) /\ Len(q) = d /\ \A m \in 1 .. d : q[m] = t[k - d + m]
    <3>1. p \in Seq(X) /\ Len(p) = d /\ \A m \in 1 .. d : p[m] = t[m]
      OBVIOUS
    <3>2. k - d + 1 \in 1 .. Len(t) + 1 /\ k - (k - d + 1) + 1 = d
      OBVIOUS
    <3>3. q \in Seq(X) /\ Len(q) = d
      BY <3>2
    <3>4. ASSUME NEW m \in 1 .. d PROVE q[m] = t[k - d + m]
      BY <3>2
    <3> QED
      BY <3>1, <3>3, <3>4
  <2> HIDE DEF p, q
  <2>2. p = q <=> \A m \in 1 .. d : t[m] = t[k - d + m]
    <3>1. p = q <=> \A m \in 1 .. d : p[m] = q[m]
      BY <2>1
    <3> QED
      BY <2>1, <3>1, Zenon
  <2>3. p = q <=> Bordered(t, k, d)
    BY <2>2 DEF Bordered
  <2> QED
    BY <2>3 DEF p, q
<1>2. S \subseteq Nat
  OBVIOUS
<1>3. b \in S
  BY <1>1 DEF LongestBorder, Bordered
<1>4. \A d \in S : d <= b
  BY <1>1 DEF LongestBorder
<1>5. Border(t, k) = Longest(S)
  BY DEF Border
<1> HIDE DEF S
<1> QED
  BY <1>2, <1>3, <1>4, <1>5, LongestIs, ZenonT(40)

\* The lengths at which the pattern t begins as the k letters r end.
Endings(t, k, r) == {d \in 0 .. k : SubSeq(t, 1, d) = SubSeq(r, k - d + 1, k)}

\* The same for what the automaton has read.
LEMMA MatchIs ==
    ASSUME NEW X, NEW t \in Seq(X), NEW k \in 1 .. Len(t), NEW c \in X, NEW b,
           LongestMatch(t, k, c, b), NEW r, r = Append(SubSeq(t, 1, k - 1), c)
    PROVE  b = Longest(Endings(t, k, r))
<1> DEFINE S == {d \in 0 .. k : SubSeq(t, 1, d) = SubSeq(r, k - d + 1, k)}
<1>0. /\ r \in Seq(X) /\ Len(r) = k /\ r[k] = c
      /\ \A m \in 1 .. k - 1 : r[m] = t[m]
  <2>1. PICK a : a = SubSeq(t, 1, k - 1)
    BY Zenon
  <2>2. a \in Seq(X) /\ Len(a) = k - 1 /\ \A m \in 1 .. k - 1 : a[m] = t[m]
    BY <2>1
  <2> QED
    BY <2>1, <2>2
<1>1. ASSUME NEW d \in 0 .. k
      PROVE  SubSeq(t, 1, d) = SubSeq(r, k - d + 1, k) <=> Matched(t, k, c, d)
  <2> DEFINE p == SubSeq(t, 1, d)
             q == SubSeq(r, k - d + 1, k)
  <2>1. /\ p \in Seq(X) /\ Len(p) = d /\ \A m \in 1 .. d : p[m] = t[m]
        /\ q \in Seq(X) /\ Len(q) = d /\ \A m \in 1 .. d : q[m] = r[k - d + m]
    <3>1. p \in Seq(X) /\ Len(p) = d /\ \A m \in 1 .. d : p[m] = t[m]
      OBVIOUS
    <3>2. k - d + 1 \in 1 .. Len(r) + 1 /\ k - (k - d + 1) + 1 = d
      BY <1>0
    <3>3. q \in Seq(X) /\ Len(q) = d
      BY <1>0, <3>2
    <3>4. ASSUME NEW m \in 1 .. d PROVE q[m] = r[k - d + m]
      BY <1>0, <3>2
    <3> QED
      BY <3>1, <3>3, <3>4
  <2> HIDE DEF p, q
  <2>2. p = q <=> \A m \in 1 .. d : t[m] = r[k - d + m]
    <3>1. p = q <=> \A m \in 1 .. d : p[m] = q[m]
      BY <2>1
    <3> QED
      BY <2>1, <3>1
  <2>3. (\A m \in 1 .. d : t[m] = r[k - d + m]) <=> Matched(t, k, c, d)
    <3>1. d > 0 => r[k - d + d] = c
      BY <1>0
    <3>2. \A m \in 1 .. d - 1 : k - d + m \in 1 .. k - 1 /\ r[k - d + m] = t[k - d + m]
      BY <1>0
    <3>3. \A m \in 1 .. d : m \in 1 .. d - 1 \/ (m = d /\ d > 0)
      OBVIOUS
    <3>4. ASSUME \A m \in 1 .. d : t[m] = r[k - d + m] PROVE Matched(t, k, c, d)
      BY <3>1, <3>2, <3>4, SMTT(30) DEF Matched
    <3>5. ASSUME Matched(t, k, c, d), NEW m \in 1 .. d PROVE t[m] = r[k - d + m]
      BY <3>1, <3>2, <3>3, <3>5 DEF Matched
    <3> QED
      BY <3>4, <3>5
  <2>4. p = q <=> Matched(t, k, c, d)
    BY <2>2, <2>3, Zenon
  <2> QED
    BY <2>4 DEF p, q
<1>2. S \subseteq Nat
  OBVIOUS
<1>3. b \in S
  BY <1>1 DEF LongestMatch, Matched
<1>4. \A d \in S : d <= b
  BY <1>1 DEF LongestMatch
<1> HIDE DEF S
<1>5. b = Longest(S)
  BY <1>2, <1>3, <1>4, LongestIs, Zenon
<1> QED
  BY <1>5 DEF S, Endings

\* A border of a border is a border, and a shorter border is one of the longer.
LEMMA BordersNest ==
    ASSUME NEW t, NEW k \in Nat, NEW j, Bordered(t, k, j), NEW b, b < j
    PROVE  Bordered(t, k, b) <=> Bordered(t, j, b)
<1>0. j \in Nat /\ j < k /\ \A m \in 1 .. j : t[m] = t[k - j + m]
  BY DEF Bordered
<1>1. ASSUME Bordered(t, k, b) PROVE Bordered(t, j, b)
  <2>1. b \in Nat /\ \A m \in 1 .. b : t[m] = t[k - b + m]
    BY <1>1 DEF Bordered
  <2>2. ASSUME NEW m \in 1 .. b PROVE t[m] = t[j - b + m]
    <3>1. j - b + m \in 1 .. j /\ k - j + (j - b + m) = k - b + m
      BY <1>0, <2>1
    <3>2. t[j - b + m] = t[k - j + (j - b + m)]
      BY <1>0, <3>1
    <3> QED
      BY <2>1, <3>1, <3>2
  <2> QED
    BY <1>0, <2>1, <2>2 DEF Bordered
<1>2. ASSUME Bordered(t, j, b) PROVE Bordered(t, k, b)
  <2>1. b \in Nat /\ \A m \in 1 .. b : t[m] = t[j - b + m]
    BY <1>0, <1>2 DEF Bordered
  <2>2. ASSUME NEW m \in 1 .. b PROVE t[m] = t[k - b + m]
    <3>1. j - b + m \in 1 .. j /\ k - j + (j - b + m) = k - b + m
      BY <1>0, <2>1
    <3>2. t[j - b + m] = t[k - j + (j - b + m)]
      BY <1>0, <3>1
    <3> QED
      BY <2>1, <3>1, <3>2
  <2> QED
    BY <1>0, <2>1, <2>2 DEF Bordered
<1> QED
  BY <1>1, <1>2

\* A border of k letters is one of k - 1, and a letter more.
LEMMA BordersGrow ==
    ASSUME NEW t, NEW k \in Nat, k >= 2, NEW b \in Nat
    PROVE  Bordered(t, k, b + 1) <=> Bordered(t, k - 1, b) /\ t[b + 1] = t[k]
<1>1. ASSUME Bordered(t, k, b + 1) PROVE Bordered(t, k - 1, b) /\ t[b + 1] = t[k]
  <2>1. b + 1 \in 0 .. k - 1 /\ \A m \in 1 .. b + 1 : t[m] = t[k - (b + 1) + m]
    BY <1>1 DEF Bordered
  <2>2. t[b + 1] = t[k]
    <3>1. b + 1 \in 1 .. b + 1 /\ k - (b + 1) + (b + 1) = k
      OBVIOUS
    <3> QED
      BY <2>1, <3>1
  <2>3. ASSUME NEW m \in 1 .. b PROVE t[m] = t[(k - 1) - b + m]
    <3>1. m \in 1 .. b + 1 /\ k - (b + 1) + m = (k - 1) - b + m
      OBVIOUS
    <3> QED
      BY <2>1, <3>1
  <2> QED
    BY <2>1, <2>2, <2>3 DEF Bordered
<1>2. ASSUME Bordered(t, k - 1, b), t[b + 1] = t[k] PROVE Bordered(t, k, b + 1)
  <2>1. b \in 0 .. (k - 1) - 1 /\ \A m \in 1 .. b : t[m] = t[(k - 1) - b + m]
    BY <1>2 DEF Bordered
  <2>2. ASSUME NEW m \in 1 .. b + 1 PROVE t[m] = t[k - (b + 1) + m]
    <3>1. CASE m = b + 1
      <4>1. k - (b + 1) + m = k
        BY <3>1
      <4> QED
        BY <1>2, <3>1, <4>1
    <3>2. CASE m # b + 1
      <4>1. m \in 1 .. b /\ k - (b + 1) + m = (k - 1) - b + m
        BY <3>2
      <4> QED
        BY <2>1, <4>1
    <3> QED
      BY <3>1, <3>2
  <2> QED
    BY <2>1, <2>2 DEF Bordered
<1> QED
  BY <1>1, <1>2

\* Where the automaton cannot go on with c it does what it does after the longest border.
LEMMA MatchesNest ==
    ASSUME NEW t, NEW k \in Nat, k >= 2, NEW p, LongestBorder(t, k - 1, p),
           NEW c, c # t[k], NEW b
    PROVE  Matched(t, k, c, b) <=> Matched(t, p + 1, c, b)
<1>0. p \in Nat /\ p < k - 1 /\ \A m \in 1 .. p : t[m] = t[(k - 1) - p + m]
  BY DEF LongestBorder, Bordered
<1>1. ASSUME Matched(t, k, c, b) PROVE Matched(t, p + 1, c, b)
  <2>1. b \in 0 .. k /\ (b > 0 => t[b] = c) /\ \A m \in 1 .. b - 1 : t[m] = t[k - b + m]
    BY <1>1 DEF Matched
  <2>2. b # k
    BY <2>1
  <2>3. b \in 0 .. p + 1
    <3>1. CASE b = 0
      BY <1>0, <3>1
    <3>2. CASE b # 0
      <4>1. b - 1 \in 0 .. (k - 1) - 1
        BY <2>1, <2>2, <3>2
      <4>2. ASSUME NEW m \in 1 .. b - 1 PROVE t[m] = t[(k - 1) - (b - 1) + m]
        <5>1. (k - 1) - (b - 1) + m = k - b + m
          BY <2>1
        <5> QED
          BY <2>1, <5>1
      <4>3. Bordered(t, k - 1, b - 1)
        BY <4>1, <4>2 DEF Bordered
      <4>4. b - 1 <= p
        BY <4>3 DEF LongestBorder
      <4> QED
        BY <1>0, <2>1, <4>4
    <3> QED
      BY <3>1, <3>2
  <2>4. ASSUME NEW m \in 1 .. b - 1 PROVE t[m] = t[(p + 1) - b + m]
    <3>1. (p + 1) - b + m \in 1 .. p /\ (k - 1) - p + ((p + 1) - b + m) = k - b + m
      BY <1>0, <2>3
    <3>2. t[(p + 1) - b + m] = t[(k - 1) - p + ((p + 1) - b + m)]
      BY <1>0, <3>1
    <3> QED
      BY <2>1, <3>1, <3>2
  <2> QED
    BY <2>1, <2>3, <2>4 DEF Matched
<1>2. ASSUME Matched(t, p + 1, c, b) PROVE Matched(t, k, c, b)
  <2>1. b \in 0 .. p + 1 /\ (b > 0 => t[b] = c) /\ \A m \in 1 .. b - 1 : t[m] = t[(p + 1) - b + m]
    BY <1>2 DEF Matched
  <2>2. ASSUME NEW m \in 1 .. b - 1 PROVE t[m] = t[k - b + m]
    <3>1. (p + 1) - b + m \in 1 .. p /\ (k - 1) - p + ((p + 1) - b + m) = k - b + m
      BY <1>0, <2>1
    <3>2. t[(p + 1) - b + m] = t[(k - 1) - p + ((p + 1) - b + m)]
      BY <1>0, <3>1
    <3> QED
      BY <2>1, <3>1, <3>2
  <2>3. b \in 0 .. k
    BY <1>0, <2>1
  <2> QED
    BY <2>1, <2>2, <2>3 DEF Matched
<1> QED
  BY <1>1, <1>2

\* A border of the first k - 1 letters that no longer one goes on with letter k.
Candidate(t, k, j) ==
    Bordered(t, k - 1, j) /\ \A b : Bordered(t, k - 1, b) /\ t[b + 1] = t[k] => b <= j

\* A turn of the inner loop goes to the next candidate.
LEMMA TurnIsCandidate ==
    ASSUME NEW t, NEW k \in Nat, k >= 2, NEW j, Candidate(t, k, j), j > 0, t[k] # t[j + 1],
           NEW b, LongestBorder(t, j, b)
    PROVE  Candidate(t, k, b) /\ b < j
<1>0. j \in Nat /\ b \in Nat /\ b < j /\ k - 1 \in Nat
  BY DEF Candidate, LongestBorder, Bordered
<1>1. Bordered(t, k - 1, j) /\ Bordered(t, j, b)
  BY DEF Candidate, LongestBorder
<1>2. Bordered(t, k - 1, b)
  BY <1>0, <1>1, BordersNest
<1>3. ASSUME NEW d, Bordered(t, k - 1, d), t[d + 1] = t[k] PROVE d <= b
  <2>0. d \in Nat
    BY <1>3 DEF Bordered
  <2>1. d \in Nat /\ d <= j
    BY <1>3, <2>0 DEF Candidate
  <2>2. d # j
    BY <1>3
  <2>3. d < j
    BY <1>0, <2>1, <2>2
  <2>4. Bordered(t, j, d)
    BY <1>0, <1>1, <1>3, <2>3, BordersNest
  <2> QED
    BY <2>4 DEF LongestBorder
<1> QED
  BY <1>0, <1>2, <1>3 DEF Candidate

\* The loop ends at the border that letter k makes longer, if there is one.
LEMMA CandidateGrows ==
    ASSUME NEW t, NEW k \in Nat, k >= 2, NEW j, Candidate(t, k, j), j = 0 \/ t[k] = t[j + 1]
    PROVE  LongestBorder(t, k, IF t[k] = t[j + 1] THEN j + 1 ELSE j)
<1>0. j \in Nat /\ j < k - 1 /\ Bordered(t, k - 1, j)
  BY DEF Candidate, Bordered
<1>1. ASSUME NEW d, Bordered(t, k, d), d # 0
      PROVE  d - 1 \in Nat /\ d - 1 <= j /\ t[(d - 1) + 1] = t[k]
  <2>1. d \in Nat /\ d - 1 \in Nat /\ (d - 1) + 1 = d
    BY <1>1 DEF Bordered
  <2>2. Bordered(t, k - 1, d - 1) /\ t[(d - 1) + 1] = t[k]
    BY <1>1, <2>1, BordersGrow
  <2> QED
    BY <2>1, <2>2 DEF Candidate
<1>2. CASE t[k] = t[j + 1]
  <2>1. Bordered(t, k, j + 1)
    BY <1>0, <1>2, BordersGrow
  <2>2. ASSUME NEW d, Bordered(t, k, d) PROVE d <= j + 1
    <3>1. d \in Nat
      BY <2>2 DEF Bordered
    <3>2. CASE d = 0
      BY <1>0, <3>2
    <3>3. CASE d # 0
      <4>1. d - 1 <= j
        BY <1>1, <2>2, <3>3
      <4> QED
        BY <1>0, <3>1, <4>1
    <3> QED
      BY <3>2, <3>3
  <2> QED
    BY <1>2, <2>1, <2>2 DEF LongestBorder
<1>3. CASE t[k] # t[j + 1]
  <2>1. j = 0
    BY <1>3
  <2>2. Bordered(t, k, 0)
    BY DEF Bordered
  <2>3. ASSUME NEW d, Bordered(t, k, d) PROVE d <= 0
    <3>1. SUFFICES ASSUME d # 0 PROVE FALSE
      BY <2>3 DEF Bordered
    <3>2. d - 1 \in Nat /\ d - 1 <= 0 /\ t[(d - 1) + 1] = t[k]
      BY <1>1, <2>1, <2>3, <3>1
    <3>3. d - 1 = 0
      <4>1. d \in Nat
        BY <2>3 DEF Bordered
      <4> QED
        BY <3>2, <4>1
    <3> QED
      BY <1>3, <2>1, <3>2, <3>3
  <2> QED
    BY <1>3, <2>1, <2>2, <2>3 DEF LongestBorder
<1> QED
  BY <1>2, <1>3

\* The inductive invariant of Kmp.
KmpTypes ==
    /\ text \in Seq(Letters \cup {"#"}) /\ Len(text) >= 1
    /\ index \in 2 .. Len(text) + 1
    /\ pi \in [1 .. Len(text) -> Nat]
    /\ aut \in Seq([Letters -> Nat]) /\ Len(aut) <= Len(text)
    /\ Len(aut) > 0 => index = Len(text) + 1

KmpInv ==
    /\ KmpTypes
    /\ \A k \in 1 .. index - 1 : LongestBorder(text, k, pi[k])
    /\ \A k \in 1 .. Len(aut), c \in Letters : LongestMatch(text, k, c, aut[k][c])

\* w[n] is the length after n turns of the loop that falls back from b at letter c.
Turns(w, b, c) == w = [n \in Nat |-> IF n = 0 THEN b ELSE FallTurn(w[n - 1], c)]

\* Such a function of the turns exists.
LEMMA FallTurns ==
    ASSUME NEW V, NEW c, NEW b \in V, \A d \in V : FallTurn(d, c) \in V
    PROVE  \E w \in [Nat -> V] : Turns(w, b, c)
<1>1. PICK g \in [V -> V] : \A d \in V : g[d] = FallTurn(d, c)
  <2> DEFINE h == [d \in V |-> FallTurn(d, c)]
  <2>1. h \in [V -> V] /\ \A d \in V : h[d] = FallTurn(d, c)
    BY Zenon
  <2> QED
    BY <2>1, Zenon
<1>2. PICK w \in [Nat -> V] : \A n \in Nat : w[n] = IF n = 0 THEN b ELSE g[w[n - 1]]
  BY Iteration
<1>3. ASSUME NEW n \in Nat, n # 0 PROVE g[w[n - 1]] = FallTurn(w[n - 1], c)
  <2>1. n - 1 \in Nat
    BY <1>3
  <2> QED
    BY <1>1, <2>1
<1>4. \A n \in Nat : w[n] = IF n = 0 THEN b ELSE FallTurn(w[n - 1], c)
  BY <1>2, <1>3, Zenon
<1>5. Turns(w, b, c)
  BY <1>4 DEF Turns
<1> QED
  BY <1>5

\* The inner loop of prefix_function ends at a candidate that letter k makes longer,
\* or at 0.
LEMMA FallsBack ==
    ASSUME KmpInv, index <= Len(text), NEW j, j = FallBack(pi[index - 1], text[index])
    PROVE  Candidate(text, index, j) /\ (j = 0 \/ text[index] = text[j + 1])
<1>1. PICK t, k, c, j0 : t = text /\ k = index /\ c = text[index] /\ j0 = pi[index - 1]
  OBVIOUS
<1>2. /\ k \in 2 .. Len(t) /\ t[k] = c /\ k \in Nat /\ k >= 2
      /\ LongestBorder(t, k - 1, j0)
      /\ \A i \in 1 .. k - 1 : LongestBorder(t, i, pi[i])
  BY <1>1 DEF KmpInv, KmpTypes
<1>3. Candidate(t, k, j0) /\ j0 \in Nat /\ j0 < k
  BY <1>2 DEF LongestBorder, Candidate, Bordered
<1> DEFINE way[n \in Nat] == IF n = 0 THEN j0 ELSE FallTurn(way[n - 1], c)
           Good == {n \in Nat : /\ Candidate(t, k, way[n])
                                /\ \/ way[n] = 0 \/ c = t[way[n] + 1]
                                   \/ way[n] + n <= j0}
<1>4. ASSUME NEW b \in 0 .. k - 1 PROVE FallTurn(b, c) \in 0 .. k - 1
  <2>1. CASE b > 0 /\ c # text[b + 1]
    <3>1. FallTurn(b, c) = pi[b] /\ b \in 1 .. k - 1
      BY <2>1 DEF FallTurn
    <3>2. LongestBorder(t, b, pi[b])
      BY <1>2, <3>1
    <3> QED
      BY <1>2, <3>1, <3>2 DEF LongestBorder, Bordered
  <2>2. CASE ~ (b > 0 /\ c # text[b + 1])
    BY <2>2 DEF FallTurn
  <2> QED
    BY <2>1, <2>2
<1>5. \E w : Turns(w, j0, c)
  <2>1. PICK V : V = 0 .. k - 1
    OBVIOUS
  <2>2. j0 \in V /\ \A b \in V : FallTurn(b, c) \in V
    BY <1>2, <1>3, <1>4, <2>1
  <2> QED
    BY <2>2, FallTurns, Zenon
<1>6. way = [n \in Nat |-> IF n = 0 THEN j0 ELSE FallTurn(way[n - 1], c)]
  BY <1>5, Zenon DEF way, Turns
<1>7. j = way[j0]
  BY <1>1, Zenon DEF FallBack
<1> HIDE DEF way
<1>8. way[0] = j0 /\ \A n \in Nat : way[n + 1] = FallTurn(way[n], c)
  BY <1>6
<1>9. 0 \in Good
  <2>1. Candidate(t, k, way[0]) /\ way[0] + 0 <= j0
    BY <1>3, <1>8
  <2> QED
    BY <2>1
<1>10. ASSUME NEW n \in Nat, n \in Good PROVE n + 1 \in Good
  <2>1. PICK b : b = way[n]
    OBVIOUS
  <2>2. /\ Candidate(t, k, b) /\ (b = 0 \/ c = t[b + 1] \/ b + n <= j0)
        /\ way[n + 1] = FallTurn(b, c) /\ n + 1 \in Nat
    BY <1>8, <1>10, <2>1
  <2>3. b \in Nat /\ b < k - 1
    BY <1>2, <2>2 DEF Candidate, Bordered
  <2>4. CASE b = 0 \/ c = t[b + 1]
    <3>1. FallTurn(b, c) = b
      BY <1>1, <2>3, <2>4 DEF FallTurn
    <3> QED
      BY <2>2, <2>4, <3>1
  <2>5. CASE b # 0 /\ c # t[b + 1]
    <3>1. FallTurn(b, c) = pi[b] /\ b \in 1 .. k - 1 /\ b > 0
      BY <1>1, <2>3, <2>5, <1>2 DEF FallTurn
    <3>2. LongestBorder(t, b, pi[b])
      BY <1>2, <3>1
    <3>3. Candidate(t, k, pi[b]) /\ pi[b] < b
      BY <1>2, <2>2, <2>5, <3>1, <3>2, TurnIsCandidate
    <3>4. pi[b] \in Nat
      BY <2>3, <3>2 DEF LongestBorder, Bordered
    <3>5. pi[b] + (n + 1) <= j0
      BY <1>3, <2>2, <2>3, <2>5, <3>3, <3>4
    <3> QED
      BY <2>2, <3>1, <3>3, <3>5
  <2> QED
    BY <2>4, <2>5
<1>11. j0 \in Good
  <2> HIDE DEF Good
  <2> QED
    BY <1>3, <1>9, <1>10, StepInduction
<1>12. Candidate(t, k, j) /\ (j = 0 \/ c = t[j + 1])
  <2>1. Candidate(t, k, j) /\ (j = 0 \/ c = t[j + 1] \/ j + j0 <= j0)
    BY <1>7, <1>11
  <2>2. j \in Nat
    BY <1>2, <2>1 DEF Candidate, Bordered
  <2> QED
    BY <1>3, <2>1, <2>2
<1> QED
  BY <1>1, <1>12

\* A turn of the outer loop of prefix_function.
LEMMA PrefixStepInv == ASSUME KmpInv, PrefixStep PROVE KmpInv'
<1>1. PICK j : j = FallBack(pi[index - 1], text[index])
  OBVIOUS
<1>2. PICK q : q = IF text[index] = text[j + 1] THEN j + 1 ELSE j
  OBVIOUS
<1>3. /\ index <= Len(text) /\ pi' = [pi EXCEPT ![index] = q]
      /\ index' = index + 1 /\ text' = text /\ aut' = aut
  BY <1>1, <1>2 DEF PrefixStep
<1>4. Candidate(text, index, j) /\ (j = 0 \/ text[index] = text[j + 1])
  BY <1>1, <1>3, FallsBack
<1>5. /\ index \in Nat /\ index >= 2 /\ index \in 1 .. Len(text) /\ Len(text) \in Nat
      /\ pi \in [1 .. Len(text) -> Nat]
  BY <1>3 DEF KmpInv, KmpTypes
<1>6. LongestBorder(text, index, q)
  BY <1>2, <1>4, <1>5, CandidateGrows
<1>7. q \in Nat
  BY <1>5, <1>6 DEF LongestBorder, Bordered
<1>8. KmpTypes'
  <2>1. pi' \in [1 .. Len(text') -> Nat]
    BY <1>3, <1>5, <1>7
  <2>2. index' \in 2 .. Len(text') + 1 /\ ~ (Len(aut) > 0)
    BY <1>3, <1>5 DEF KmpInv, KmpTypes
  <2> QED
    BY <1>3, <2>1, <2>2 DEF KmpInv, KmpTypes
<1>9. ASSUME NEW k \in 1 .. index' - 1 PROVE LongestBorder(text', k, pi'[k])
  <2>1. CASE k = index
    BY <1>3, <1>5, <1>6, <2>1
  <2>2. CASE k # index
    <3>1. k \in 1 .. index - 1 /\ pi'[k] = pi[k]
      BY <1>3, <1>5, <2>2
    <3> QED
      BY <1>3, <3>1 DEF KmpInv
  <2> QED
    BY <2>1, <2>2
<1> QED
  BY <1>3, <1>8, <1>9 DEF KmpInv

\* A row of the automaton.
LEMMA RowIsRight ==
    ASSUME KmpInv, index > Len(text), Len(aut) < Len(text), NEW c \in Letters
    PROVE  LongestMatch(text, Len(aut) + 1, c, Row(aut, Len(aut))[c])
<1>1. PICK t, k, r : t = text /\ k = Len(aut) + 1 /\ r = Row(aut, Len(aut))[c]
  BY SMTT(30)
<1>2. /\ k \in 1 .. Len(t) /\ k \in Nat /\ k >= 1 /\ k - 1 = Len(aut) /\ Len(t) \in Nat
      /\ \A i \in 1 .. Len(t) : LongestBorder(t, i, pi[i])
      /\ \A i \in 1 .. k - 1 : LongestMatch(t, i, c, aut[i][c])
  BY <1>1, SMTT(30) DEF KmpInv, KmpTypes
<1>3. r = IF k - 1 > 0 /\ c # t[(k - 1) + 1] THEN aut[pi[k - 1] + 1][c]
          ELSE (k - 1) + IF c = t[(k - 1) + 1] THEN 1 ELSE 0
  BY <1>1, <1>2 DEF Row
<1>4. (k - 1) + 1 = k
  BY <1>2
<1>5. CASE c = t[k]
  <2>1. r = k
    BY <1>2, <1>3, <1>4, <1>5, SMTT(30)
  <2>2. Matched(t, k, c, k)
    <3>1. \A m \in 1 .. k - 1 : k - k + m = m
      BY <1>2
    <3> QED
      BY <1>2, <1>5, <3>1 DEF Matched
  <2>3. \A d : Matched(t, k, c, d) => d <= k
    BY <1>2 DEF Matched
  <2> QED
    BY <1>1, <2>1, <2>2, <2>3, SMTT(30) DEF LongestMatch
<1>6. CASE c # t[k] /\ k = 1
  <2>1. r = 0
    BY <1>2, <1>3, <1>4, <1>6
  <2>2. Matched(t, k, c, 0)
    BY <1>2 DEF Matched
  <2>3. ASSUME NEW d, Matched(t, k, c, d) PROVE d <= 0
    <3>1. d \in 0 .. 1 /\ (d > 0 => t[d] = c)
      BY <1>6, <2>3 DEF Matched
    <3> QED
      BY <1>6, <3>1
  <2> QED
    BY <1>1, <2>1, <2>2, <2>3 DEF LongestMatch
<1>7. CASE c # t[k] /\ k # 1
  <2>1. PICK p : p = pi[k - 1]
    BY SMTT(30)
  <2>2. LongestBorder(t, k - 1, p) /\ k >= 2
    BY <1>2, <1>7, <2>1, SMTT(30)
  <2>3. p + 1 \in 1 .. k - 1
    BY <1>2, <2>2 DEF LongestBorder, Bordered
  <2>4. r = aut[p + 1][c]
    <3>1. k - 1 > 0 /\ c # t[(k - 1) + 1]
      BY <1>2, <1>4, <1>7
    <3> QED
      BY <1>3, <2>1, <3>1, SMTT(30)
  <2>5. LongestMatch(t, p + 1, c, r)
    BY <1>2, <2>3, <2>4
  <2>6. \A b : Matched(t, k, c, b) <=> Matched(t, p + 1, c, b)
    BY <1>2, <1>7, <2>2, MatchesNest, ZenonT(40)
  <2> QED
    BY <1>1, <2>5, <2>6 DEF LongestMatch
<1> QED
  BY <1>5, <1>6, <1>7, Zenon

\* A turn of the outer loop of compute_automaton.
LEMMA AutomatonRowInv == ASSUME KmpInv, AutomatonRow PROVE KmpInv'
<1>1. PICK row : row = Row(aut, Len(aut))
  OBVIOUS
<1>2. /\ index > Len(text) /\ Len(aut) < Len(text) /\ aut' = Append(aut, row)
      /\ text' = text /\ index' = index /\ pi' = pi
  BY <1>1 DEF AutomatonRow
<1>3. \A c \in Letters : LongestMatch(text, Len(aut) + 1, c, row[c])
  BY <1>1, <1>2, RowIsRight
<1>4. aut \in Seq([Letters -> Nat]) /\ Len(aut) \in Nat /\ Len(text) \in Nat
  BY DEF KmpInv, KmpTypes
<1>5. row \in [Letters -> Nat]
  <2>1. ASSUME NEW c \in Letters PROVE row[c] \in Nat
    <3>1. Matched(text, Len(aut) + 1, c, row[c])
      BY <1>3 DEF LongestMatch
    <3> QED
      BY <1>4, <3>1 DEF Matched
  <2>2. row = [c \in Letters |-> row[c]]
    BY <1>1 DEF Row
  <2> QED
    BY <2>1, <2>2
<1>6. /\ aut' \in Seq([Letters -> Nat]) /\ Len(aut') = Len(aut) + 1 /\ aut'[Len(aut) + 1] = row
      /\ \A k \in 1 .. Len(aut) : aut'[k] = aut[k]
  BY <1>2, <1>4, <1>5, SMTT(30)
<1>7. KmpTypes'
  BY <1>2, <1>4, <1>6 DEF KmpInv, KmpTypes
<1>8. ASSUME NEW k \in 1 .. Len(aut'), NEW c \in Letters PROVE LongestMatch(text', k, c, aut'[k][c])
  <2>1. CASE k = Len(aut) + 1
    BY <1>2, <1>3, <1>6, <2>1, ZenonT(40)
  <2>2. CASE k # Len(aut) + 1
    <3>1. k \in 1 .. Len(aut)
      <4>1. PICK n, n2 : n = Len(aut) /\ n2 = Len(aut')
        BY Zenon
      <4>2. n \in Nat /\ n2 = n + 1 /\ k \in 1 .. n2 /\ k # n + 1
        BY <1>4, <1>6, <2>2, <4>1
      <4>3. k \in 1 .. n
        BY <4>2
      <4> QED
        BY <4>1, <4>3
    <3>2. aut'[k] = aut[k]
      BY <1>6, <3>1
    <3>3. LongestMatch(text, k, c, aut[k][c])
      BY <3>1 DEF KmpInv
    <3> QED
      BY <1>2, <3>2, <3>3, Zenon
  <2> QED
    BY <2>1, <2>2
<1> QED
  BY <1>2, <1>7, <1>8, ZenonT(40) DEF KmpInv

\* For every text and alphabet: prefix_function computes the longest borders, although
\* its inner loop tries only the borders it has computed, and compute_automaton goes
\* from every state to the longest prefix that fits, although it looks at one border.
THEOREM MatchesAlwaysRight == KmpSpec => []MatchesAreRight
<1>1. KmpInit => KmpInv
  <2> SUFFICES ASSUME KmpInit PROVE KmpInv
    OBVIOUS
  <2>1. PICK len \in 0 .. MaxLen : \E t \in [1 .. len -> Letters] : text = Append(t, "#")
    BY DEF KmpInit
  <2>2. PICK t \in [1 .. len -> Letters] : text = Append(t, "#")
    BY <2>1
  <2>3. t \in Seq(Letters) /\ Len(t) = len /\ len \in Nat
    BY KmpAssumption
  <2>4. text \in Seq(Letters \cup {"#"}) /\ Len(text) = len + 1
    BY <2>2, <2>3
  <2>5. index = 2 /\ pi = [k \in 1 .. Len(text) |-> 0] /\ aut = <<>> /\ Len(aut) = 0
    BY DEF KmpInit
  <2>6. KmpTypes
    BY <2>3, <2>4, <2>5 DEF KmpTypes
  <2>7. ASSUME NEW k \in 1 .. index - 1 PROVE LongestBorder(text, k, pi[k])
    <3>1. k = 1 /\ pi[1] = 0
      BY <2>3, <2>4, <2>5
    <3>2. LongestBorder(text, 1, 0)
      BY DEF LongestBorder, Bordered
    <3> QED
      BY <3>1, <3>2
  <2> QED
    BY <2>5, <2>6, <2>7 DEF KmpInv
<1>2. KmpInv /\ [KmpNext]_kmpVars => KmpInv'
  <2> SUFFICES ASSUME KmpInv, [KmpNext]_kmpVars PROVE KmpInv'
    OBVIOUS
  <2>1. CASE KmpNext
    BY <2>1, PrefixStepInv, AutomatonRowInv DEF KmpNext
  <2>2. CASE UNCHANGED kmpVars
    BY <2>2 DEF KmpInv, KmpTypes, kmpVars
  <2> QED
    BY <2>1, <2>2
<1>3. KmpInv => MatchesAreRight
  <2> SUFFICES ASSUME KmpInv PROVE MatchesAreRight
    OBVIOUS
  <2>1. PICK X : X = Letters \cup {"#"}
    BY Zenon
  <2>2. /\ text \in Seq(X) /\ Len(text) \in Nat /\ index \in 2 .. Len(text) + 1
        /\ aut \in Seq([Letters -> Nat]) /\ Len(aut) \in 0 .. Len(text) /\ DOMAIN aut = 1 .. Len(aut)
    <3>1. KmpTypes
      BY DEF KmpInv
    <3>2. text \in Seq(X) /\ Len(text) \in Nat /\ index \in 2 .. Len(text) + 1
      BY <2>1, <3>1 DEF KmpTypes
    <3>3. aut \in Seq([Letters -> Nat]) /\ Len(aut) \in 0 .. Len(text)
      BY <3>1 DEF KmpTypes
    <3>4. DOMAIN aut = 1 .. Len(aut)
      BY <3>3
    <3> QED
      BY <3>2, <3>3, <3>4
  <2>3. ASSUME NEW k \in 1 .. index - 1 PROVE pi[k] = Border(text, k)
    <3>1. k \in 1 .. Len(text)
      BY <2>2
    <3>2. LongestBorder(text, k, pi[k])
      BY DEF KmpInv
    <3> QED
      BY <2>2, <3>1, <3>2, BorderIs
  <2>4. ASSUME NEW k \in DOMAIN aut, NEW c \in Letters
        PROVE  aut[k][c] = Longest({b \in 0 .. k : SubSeq(text, 1, b) = SubSeq(Read(k, c), k - b + 1, k)})
    <3>1. k \in 1 .. Len(text) /\ k \in 1 .. Len(aut) /\ c \in X
      BY <2>1, <2>2
    <3>2. LongestMatch(text, k, c, aut[k][c])
      BY <3>1 DEF KmpInv
    <3>3. PICK r : r = Append(SubSeq(text, 1, k - 1), c)
      BY Zenon
    <3>4. PICK t, a : t = text /\ a = aut[k][c]
      OBVIOUS
    <3>5. t \in Seq(X) /\ k \in 1 .. Len(t) /\ LongestMatch(t, k, c, a) /\ r = Append(SubSeq(t, 1, k - 1), c)
      BY <2>2, <3>1, <3>2, <3>3, <3>4
    <3>6. a = Longest(Endings(t, k, r))
      BY <3>1, <3>5, MatchIs, ZenonT(40)
    <3> QED
      BY <3>3, <3>4, <3>6, Zenon DEF Read, Endings
  <2> QED
    BY <2>3, <2>4, Zenon DEF MatchesAreRight, PrefixFunctionIsBorder, AutomatonFindsLongestPrefix
<1> QED
  BY <1>1, <1>2, <1>3, PTL DEF KmpSpec
-----------------------------------------------------------------------------
(* SparseTable: what a column holds.                                       *)

\* The shifts of 1 double, and 1 << n exceeds n.
LEMMA Shifts ==
    Shl1[0] = 1 /\ \A n \in Nat : Shl1[n] \in Nat /\ Shl1[n + 1] = 2 * Shl1[n] /\ n < Shl1[n]
<1> DEFINE twice == [k \in Nat |-> 2 * k]
           E(h) == h = [n \in Nat |-> IF n = 0 THEN 1 ELSE 2 * h[n - 1]]
<1>1. PICK V : V = Nat
  BY Zenon
<1>2. PICK h \in [Nat -> Nat] : \A n \in Nat : h[n] = IF n = 0 THEN 1 ELSE twice[h[n - 1]]
  <2>1. twice \in [V -> V]
    BY <1>1
  <2>2. PICK b \in V : b = 1
    BY <1>1
  <2> HIDE DEF twice
  <2>3. PICK h \in [Nat -> V] : \A n \in Nat : h[n] = IF n = 0 THEN b ELSE twice[h[n - 1]]
    BY <2>1, Iteration
  <2> QED
    BY <1>1, <2>2, <2>3
<1> HIDE DEF twice
<1>3. \A n \in Nat : n # 0 => twice[h[n - 1]] = 2 * h[n - 1]
  BY DEF twice
<1>4. E(h)
  BY <1>2, <1>3
<1>5. E(Shl1)
  BY <1>4, Zenon DEF Shl1
<1>6. Shl1[0] = 1 /\ \A n \in Nat : Shl1[n + 1] = 2 * Shl1[n]
  BY <1>5
<1> DEFINE Good == {n \in Nat : Shl1[n] \in Nat /\ n < Shl1[n]}
<1>7. 0 \in Good /\ \A n \in Nat : n \in Good => n + 1 \in Good
  BY <1>6
<1>8. \A n \in Nat : n \in Good
  <2> HIDE DEF Good
  <2> QED
    BY <1>7, StepInduction
<1> QED
  BY <1>6, <1>8

\* CeilLog2(n) is the least exponent whose power is not below n.
LEMMA CeilLog2Is ==
    ASSUME NEW n \in Nat, 1 <= n
    PROVE  /\ CeilLog2(n) \in Nat /\ n <= Shl1[CeilLog2(n)]
           /\ \A d \in Nat : d < CeilLog2(n) => Shl1[d] < n
<1> DEFINE S == {e \in Nat : n <= Shl1[e]}
           P(e) == Shl1[e] >= n /\ \A d \in 0..(e - 1) : Shl1[d] < n
<1>1. n \in S
  BY Shifts
<1>2. PICK e \in S : \A d \in S : e <= d
  <2>1. S \subseteq Nat /\ S # {}
    BY <1>1
  <2> HIDE DEF S
  <2> QED
    BY <2>1, LeastElement, Zenon
<1>3. e \in 0..n /\ P(e)
  <2>1. e \in Nat /\ e <= n /\ n <= Shl1[e]
    BY <1>1, <1>2
  <2>2. ASSUME NEW d \in 0..(e - 1) PROVE Shl1[d] < n
    <3>1. d \in Nat /\ d < e /\ Shl1[d] \in Nat
      BY <2>1, Shifts
    <3>2. d \notin S
      BY <1>2, <3>1
    <3> QED
      BY <3>1, <3>2
  <2>3. Shl1[e] \in Nat
    BY <2>1, Shifts
  <2> QED
    BY <2>1, <2>2, <2>3
<1> DEFINE c == CHOOSE x \in 0..n : P(x)
<1>4. c \in 0..n /\ P(c)
  <2> HIDE DEF P
  <2> QED
    BY <1>3
<1>5. CeilLog2(n) = c
  BY Zenon DEF CeilLog2
<1> HIDE DEF c
<1>6. c \in Nat /\ Shl1[c] \in Nat /\ Shl1[c] >= n
  BY <1>4, Shifts
<1> QED
  BY <1>4, <1>5, <1>6

\* x is the largest of the elements l .. r of v.
IsMaximum(v, x, l, r) == (\E k \in l..r : v[k] = x) /\ \A k \in l..r : v[k] <= x

\* The larger of the maxima of two ranges that leave no gap is that of both.
LEMMA MaximaJoin ==
    ASSUME NEW len \in Nat, NEW v \in [0..(len - 1) -> Int],
           NEW l \in Nat, NEW m \in Nat, NEW k \in Nat, NEW r \in Nat,
           l <= m, l <= k, k <= m + 1, m <= r, k <= r, r < len,
           NEW x, NEW y, IsMaximum(v, x, l, m), IsMaximum(v, y, k, r)
    PROVE  IsMaximum(v, MaxOp(x, y), l, r)
<1>1. x \in Int /\ y \in Int
  BY DEF IsMaximum
<1>2. \A i \in l..r : i \in l..m \/ i \in k..r
  OBVIOUS
<1>3. MaxOp(x, y) \in {x, y} /\ x <= MaxOp(x, y) /\ y <= MaxOp(x, y) /\ MaxOp(x, y) \in Int
  BY <1>1 DEF MaxOp
<1>4. PICK z : z = MaxOp(x, y)
  BY SMTT(30)
<1>5. ASSUME NEW i \in l..r PROVE v[i] <= z
  <2>1. v[i] \in Int /\ (v[i] <= x \/ v[i] <= y)
    BY <1>2 DEF IsMaximum
  <2> QED
    BY <1>1, <1>3, <1>4, <2>1
<1>6. \E i \in l..r : v[i] = z
  <2>1. PICK i \in l..m : v[i] = x
    BY DEF IsMaximum
  <2>2. PICK j \in k..r : v[j] = y
    BY DEF IsMaximum
  <2>3. i \in l..r /\ j \in l..r
    BY SMTT(30)
  <2> QED
    BY <1>3, <1>4, <2>1, <2>2, <2>3
<1> QED
  BY <1>4, <1>5, <1>6 DEF IsMaximum

\* Column j holds the maximum of the 2^j elements from i on, where there are so many.
ColumnIs(v, len, c, j) ==
    \A i \in 0..(len - 1) : i + Shl1[j] <= len => IsMaximum(v, c[i], i, i + Shl1[j] - 1)

\* A turn makes the next column from a column that holds its maxima.
LEMMA ColumnTurnIs ==
    ASSUME NEW len \in Nat, NEW v \in [0..(len - 1) -> Int], NEW c \in [0..(len - 1) -> Int],
           NEW j \in Nat, ColumnIs(v, len, c, j), NEW d, d = Column(c, j + 1, len)
    PROVE  d \in [0..(len - 1) -> Int] /\ ColumnIs(v, len, d, j + 1)
<1>1. PICK s \in Nat : s = Shl1[j]
  BY Shifts, Zenon
<1>2. Shl1[j + 1] = s + s /\ 1 <= s /\ (j + 1) - 1 = j
  <2>1. Shl1[j + 1] = 2 * Shl1[j] /\ j < Shl1[j]
    BY Shifts, ZenonT(40)
  <2> QED
    BY <1>1, <2>1
<1>3. d = [i \in 0..(len - 1) |-> IF i + s < len THEN MaxOp(c[i], c[i + s]) ELSE 0]
  BY <1>1, <1>2 DEF Column
<1>4. \A i \in 0..(len - 1) : i + s < len => MaxOp(c[i], c[i + s]) \in Int
  BY DEF MaxOp
<1>5. ASSUME NEW i \in 0..(len - 1), i + (s + s) <= len
      PROVE  IsMaximum(v, d[i], i, i + (s + s) - 1)
  <2>1. i \in Nat /\ i + s \in 0..(len - 1) /\ i + s < len /\ i + s <= len /\ (i + s) + s <= len
    BY <1>2, <1>5
  <2>2. d[i] = MaxOp(c[i], c[i + s])
    BY <1>3, <2>1
  <2>3. IsMaximum(v, c[i], i, i + s - 1) /\ IsMaximum(v, c[i + s], i + s, (i + s) + s - 1)
    BY <1>1, <2>1 DEF ColumnIs
  <2>4. PICK m, k, r, x, y : /\ m = i + s - 1 /\ k = i + s /\ r = i + (s + s) - 1
                             /\ x = c[i] /\ y = c[i + s]
    BY SMTT(30)
  <2>5. /\ m \in Nat /\ k \in Nat /\ r \in Nat /\ i <= m /\ i <= k /\ k <= m + 1 /\ m <= r
        /\ k <= r /\ r < len /\ r = (i + s) + s - 1
    BY <1>2, <1>5, <2>1, <2>4, SMTT(30)
  <2>6. IsMaximum(v, x, i, m) /\ IsMaximum(v, y, k, r)
    BY <2>3, <2>4, <2>5
  <2>7. IsMaximum(v, MaxOp(x, y), i, r)
    BY <2>1, <2>5, <2>6, MaximaJoin, ZenonT(40)
  <2> QED
    BY <2>2, <2>4, <2>7
<1> QED
  BY <1>2, <1>3, <1>4, <1>5 DEF ColumnIs

ColumnTurns(h, b, len) == h = [n \in Nat |-> IF n = 0 THEN b ELSE ColumnTurn(h[n - 1], len)]

\* The turns of the constructor's loop, one after the other.
LEMMA ColumnTurnsExist ==
    ASSUME NEW V, NEW len, NEW b \in V, \A w \in V : ColumnTurn(w, len) \in V
    PROVE  \E h \in [Nat -> V] : ColumnTurns(h, b, len)
<1>1. PICK g \in [V -> V] : \A w \in V : g[w] = ColumnTurn(w, len)
  <2> DEFINE f == [w \in V |-> ColumnTurn(w, len)]
  <2>1. f \in [V -> V] /\ \A w \in V : f[w] = ColumnTurn(w, len)
    BY Zenon
  <2> QED
    BY <2>1, Zenon
<1>2. PICK h \in [Nat -> V] : \A n \in Nat : h[n] = IF n = 0 THEN b ELSE g[h[n - 1]]
  BY Iteration
<1>3. ASSUME NEW n \in Nat, n # 0 PROVE g[h[n - 1]] = ColumnTurn(h[n - 1], len)
  <2>1. n - 1 \in Nat
    BY <1>3
  <2> QED
    BY <1>1, <2>1
<1>4. \A n \in Nat : h[n] = IF n = 0 THEN b ELSE ColumnTurn(h[n - 1], len)
  BY <1>2, <1>3, Zenon
<1>5. ColumnTurns(h, b, len)
  BY <1>4 DEF ColumnTurns
<1> QED
  BY <1>5

\* The constructor's columns hold the maxima.
LEMMA BuildIs ==
    ASSUME NEW len \in Nat, 1 <= len, NEW v \in [0..(len - 1) -> Int]
    PROVE  \A j \in 0..CeilLog2(len) :
              /\ Build(v, len)[j] \in [0..(len - 1) -> Int]
              /\ ColumnIs(v, len, Build(v, len)[j], j)
<1>1. PICK W : W = [0..(len - 1) -> Int]
  BY Zenon
<1>2. PICK V : V = [j : Nat, column : W]
  BY Zenon
<1>3. PICK b : b = [j |-> 0, column |-> v]
  BY ZenonT(40)
<1> DEFINE E(h) == h = [n \in Nat |-> IF n = 0 THEN [j |-> 0, column |-> v]
                                      ELSE ColumnTurn(h[n - 1], len)]
           way == CHOOSE h : E(h)
<1>4. b \in V /\ b.j = 0 /\ b.column = v
  BY <1>1, <1>2, <1>3
<1>5. ASSUME NEW w \in V PROVE ColumnTurn(w, len) \in V
  <2>1. PICK k \in Nat, c \in W : k = w.j + 1 /\ c = w.column
    BY <1>2
  <2>2. Shl1[k - 1] \in Nat
    <3>1. k - 1 \in Nat
      BY <1>2, <2>1
    <3> QED
      BY <3>1, Shifts, Zenon
  <2>3. Column(c, k, len) \in W
    BY <1>1, <2>2 DEF Column, MaxOp
  <2> QED
    BY <1>2, <2>1, <2>3 DEF ColumnTurn
<1>6. \A w \in V : ColumnTurn(w, len) \in V
  BY <1>5
<1>7. PICK h \in [Nat -> V] : ColumnTurns(h, b, len)
  <2>1. b \in V
    BY <1>4
  <2> QED
    BY <1>6, <2>1, ColumnTurnsExist, Zenon
<1>8. E(h)
  BY <1>3, <1>7, Zenon DEF ColumnTurns
<1>9. E(way)
  BY <1>8, Zenon
<1>10. \A j \in 0..CeilLog2(len) : Build(v, len)[j] = way[j].column
  BY Zenon DEF Build
<1>11. way[0] = b /\ \A n \in Nat : way[n + 1] = ColumnTurn(way[n], len)
  <2>1. way = [n \in Nat |-> IF n = 0 THEN b ELSE ColumnTurn(way[n - 1], len)]
    BY <1>3, <1>9, Zenon
  <2> HIDE DEF way
  <2> QED
    BY <2>1
<1> HIDE DEF way, E
<1> DEFINE Good == {n \in Nat : way[n].j = n /\ way[n].column \in W /\ ColumnIs(v, len, way[n].column, n)}
<1>12. 0 \in Good
  <2>1. ASSUME NEW i \in 0..(len - 1) PROVE IsMaximum(v, v[i], i, i + 1 - 1)
    <3>1. i..(i + 1 - 1) = {i} /\ v[i] \in Int
      OBVIOUS
    <3> QED
      BY <3>1 DEF IsMaximum
  <2>2. ColumnIs(v, len, v, 0)
    BY <2>1, Shifts DEF ColumnIs
  <2> QED
    BY <1>1, <1>4, <1>11, <2>2
<1>13. ASSUME NEW n \in Nat, n \in Good PROVE n + 1 \in Good
  <2>1. PICK c, d : c = way[n].column /\ d = Column(c, n + 1, len)
    OBVIOUS
  <2>2. way[n + 1].j = n + 1 /\ way[n + 1].column = d
    <3>1. PICK w, u : w = way[n] /\ u = way[n + 1]
      OBVIOUS
    <3>2. u = ColumnTurn(w, len) /\ w.j = n /\ w.column = c
      BY <1>11, <1>13, <2>1, <3>1, ZenonT(40)
    <3>3. u = [j |-> n + 1, column |-> d]
      BY <2>1, <3>2, ZenonT(40) DEF ColumnTurn
    <3> QED
      BY <3>1, <3>3
  <2>3. c \in [0..(len - 1) -> Int] /\ ColumnIs(v, len, c, n)
    BY <1>1, <1>13, <2>1
  <2>4. d \in [0..(len - 1) -> Int] /\ ColumnIs(v, len, d, n + 1)
    BY <2>1, <2>3, ColumnTurnIs, Zenon
  <2> QED
    BY <1>1, <2>2, <2>4
<1>14. \A n \in Nat : n \in Good
  <2> HIDE DEF Good
  <2> QED
    BY <1>12, <1>13, StepInduction, ZenonT(40)
<1> QED
  <2> SUFFICES ASSUME NEW j \in 0..CeilLog2(len)
               PROVE  /\ Build(v, len)[j] \in [0..(len - 1) -> Int]
                      /\ ColumnIs(v, len, Build(v, len)[j], j)
    OBVIOUS
  <2>1. j \in Nat
    BY CeilLog2Is, SMTT(30)
  <2>2. j \in Good
    BY <1>14, <2>1
  <2> QED
    BY <1>1, <1>10, <2>2, ZenonT(40)

\* The maximum of a range, computed or looked up, is one value.
LEMMA MaximumIs ==
    ASSUME NEW len \in Nat, NEW v \in [0..(len - 1) -> Int], NEW l \in Nat, NEW r \in Nat,
           r < len, NEW x, IsMaximum(v, x, l, r)
    PROVE  Maximum({v[i] : i \in l..r}) = x
<1> DEFINE S == {v[i] : i \in l..r}
<1>1. x \in S /\ \A n \in S : n <= x
  BY DEF IsMaximum
<1>2. \A n \in S : n \in Int
  OBVIOUS
<1> HIDE DEF S
<1>3. \A m \in S : (\A n \in S : n <= m) => m = x
  BY <1>1, <1>2
<1>4. Maximum(S) = x
  BY <1>1, <1>3, SMTT(30) DEF Maximum
<1> QED
  BY <1>4 DEF S

\* The table belongs to the elements, and the last query was right.
SparseInv ==
    /\ \E len \in Nat :
          /\ 1 <= len /\ elements \in [0..(len - 1) -> Int]
          /\ \A j \in 0..CeilLog2(len) : ColumnIs(elements, len, table[j], j)
    /\ queried.got = queried.want

\* A query of two elements or more.
LEMMA QueryInv ==
    ASSUME SparseInv, NEW l \in DOMAIN elements, NEW r \in DOMAIN elements, l < r, Query(l, r)
    PROVE  SparseInv'
<1>1. PICK len \in Nat : /\ 1 <= len /\ elements \in [0..(len - 1) -> Int]
                         /\ \A j \in 0..CeilLog2(len) : ColumnIs(elements, len, table[j], j)
  BY DEF SparseInv
<1>2. PICK n \in Nat : n = r - l + 1 /\ 2 <= n /\ n <= len /\ l \in Nat /\ r \in Nat /\ r < len
  BY <1>1
<1>3. PICK q \in Nat : q = CeilLog2(n) - 1 /\ Shl1[q] < n /\ n <= Shl1[q] + Shl1[q]
  <2>1. CeilLog2(n) # 0
    BY <1>2, CeilLog2Is, Shifts, SMTT(30)
  <2>2. CeilLog2(n) - 1 \in Nat /\ CeilLog2(n) - 1 < CeilLog2(n) /\ (CeilLog2(n) - 1) + 1 = CeilLog2(n)
    BY <1>2, <2>1, CeilLog2Is
  <2>3. PICK q \in Nat : q = CeilLog2(n) - 1 /\ q < CeilLog2(n) /\ q + 1 = CeilLog2(n)
    BY <2>2
  <2>4. Shl1[q] < n /\ n <= Shl1[q + 1]
    BY <1>2, <2>3, CeilLog2Is
  <2>5. Shl1[q + 1] = Shl1[q] + Shl1[q]
    BY Shifts
  <2> QED
    BY <2>3, <2>4, <2>5
<1>4. q \in 0..CeilLog2(len)
  <2>1. CeilLog2(len) \in Nat /\ len <= Shl1[CeilLog2(len)]
    BY <1>1, CeilLog2Is
  <2>2. CeilLog2(n) \in Nat /\ \A d \in Nat : d < CeilLog2(n) => Shl1[d] < n
    BY <1>2, CeilLog2Is
  <2>3. Shl1[CeilLog2(len)] \in Nat
    BY <2>1, Shifts
  <2>4. ~(CeilLog2(len) < CeilLog2(n))
    BY <1>2, <2>1, <2>2, <2>3, SMTT(30)
  <2> QED
    BY <1>3, <2>1, <2>2, <2>4
<1>5. PICK s \in Nat, k \in Nat : s = Shl1[q] /\ k = r - s + 1 /\ 1 <= s
  BY <1>2, <1>3, Shifts, SMTT(30)
<1>6. PICK c, x, y : c = table[q] /\ x = c[l] /\ y = c[k]
  BY SMTT(30)
<1>7. /\ l \in 0..(len - 1) /\ k \in 0..(len - 1) /\ l + s <= len /\ k + s <= len
      /\ l + s - 1 \in Nat /\ l <= l + s - 1 /\ l <= k /\ k <= (l + s - 1) + 1 /\ l + s - 1 <= r
      /\ k <= r /\ k + s - 1 = r
  BY <1>2, <1>3, <1>5, SMTT(30)
<1>8. ColumnIs(elements, len, c, q)
  BY <1>1, <1>4, <1>6, SMTT(30)
<1>9. IsMaximum(elements, x, l, l + s - 1) /\ IsMaximum(elements, y, k, r)
  BY <1>5, <1>6, <1>7, <1>8 DEF ColumnIs
<1>10. IsMaximum(elements, MaxOp(x, y), l, r)
  <2>1. PICK v, m : v = elements /\ m = l + s - 1
    OBVIOUS
  <2>2. IsMaximum(v, x, l, m) /\ IsMaximum(v, y, k, r) /\ v \in [0..(len - 1) -> Int]
    BY <1>1, <1>9, <2>1
  <2>3. m \in Nat /\ l <= m /\ k <= m + 1 /\ m <= r
    BY <1>7, <2>1
  <2>4. IsMaximum(v, MaxOp(x, y), l, r)
    BY <1>2, <1>7, <2>2, <2>3, MaximaJoin, ZenonT(40)
  <2> QED
    BY <2>1, <2>4
<1>11. Maximum({elements[i] : i \in l..r}) = MaxOp(x, y)
  BY <1>1, <1>2, <1>10, MaximumIs, ZenonT(40)
<1>12. QueryResults(l, r) = {MaxOp(x, y)}
  <2>1. CeilLog2(r - l + 1) - 1 = q /\ ~(q < 0) /\ r - Shl1[q] + 1 = k
    BY <1>2, <1>3, <1>5, SMTT(30)
  <2>2. table[q][l] = x /\ table[q][k] = y
    BY <1>6, SMTT(30)
  <2> QED
    BY ONLY <2>1, <2>2 DEF QueryResults
<1>13. queried'.got = queried'.want
  <2>1. PICK got \in QueryResults(l, r) :
           queried' = [got |-> got, want |-> Maximum({elements[i] : i \in l..r})]
    BY SMTT(30) DEF Query
  <2>2. got = MaxOp(x, y)
    BY <2>1, <1>12, SMTT(30)
  <2> QED
    BY <2>1, <2>2, <1>11, SMTT(30)
<1>14. elements' = elements /\ table' = table
  BY SMTT(30) DEF Query
<1> QED
  BY <1>13, <1>14, ZenonT(40) DEF SparseInv

\* SparseTable of sparse_table.h: a query of two or more elements returns their maximum, for
\* vectors of any length and any range of values, although the last entries of a column are
\* made from zeros that no element has put there.
THEOREM QueriesAreMaxima == SparseSpec => []QueryIsMaximum
<1>1. SparseInit => SparseInv
  <2> SUFFICES ASSUME SparseInit PROVE SparseInv
    OBVIOUS
  <2>1. PICK len \in 1..MaxElements :
           /\ elements \in [0..(len - 1) -> ElementValues]
           /\ table = Build(elements, len)
           /\ queried = [got |-> 0, want |-> 0]
    BY DEF SparseInit
  <2>2. len \in Nat /\ 1 <= len
    BY SparseAssumption
  <2>3. elements \in [0..(len - 1) -> Int]
    BY <2>1, SparseAssumption DEF ElementValues
  <2>4. PICK v : v = elements /\ v \in [0..(len - 1) -> Int] /\ table = Build(v, len)
    BY <2>1, <2>3, SMTT(30)
  <2>5. \A j \in 0..CeilLog2(len) : ColumnIs(v, len, Build(v, len)[j], j)
    BY <2>2, <2>4, BuildIs
  <2>6. queried.got = queried.want
    BY <2>1
  <2> QED
    BY <2>2, <2>3, <2>4, <2>5, <2>6 DEF SparseInv
<1>2. SparseInv /\ [SparseNext]_sparseVars => SparseInv'
  <2> SUFFICES ASSUME SparseInv, [SparseNext]_sparseVars PROVE SparseInv'
    OBVIOUS
  <2>1. CASE SparseNext
    BY <2>1, QueryInv DEF SparseNext
  <2>2. CASE UNCHANGED sparseVars
    <3>1. elements' = elements /\ table' = table /\ queried' = queried
      BY <2>2 DEF sparseVars
    <3> QED
      BY <3>1 DEF SparseInv
  <2> QED
    BY <2>1, <2>2
<1>3. SparseInv => QueryIsMaximum
  BY DEF SparseInv, QueryIsMaximum
<1> QED
  BY <1>1, <1>2, <1>3, PTL DEF SparseSpec
=============================================================================
