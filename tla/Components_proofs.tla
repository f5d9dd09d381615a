-------------------------- MODULE Components_proofs --------------------------
(***************************************************************************)
(* Proofs about three components that stand alone: ThreadPool, for any     *)
(* number of workers, clients and tasks; Singleton, for any number of      *)
(* threads and failures; BloomFilter, for any keys, buckets, hash          *)
(* functions and counter width.                                            *)
(***************************************************************************)
EXTENDS ThreadPool, Singleton, BloomFilter, FiniteSetTheorems, TLAPS

\* Which labels workers and clients can be at, and who has a task.
Roles ==
    /\ \A w \in Workers : pc[w] \in {"loop", "waiting", "running", "nested_notify", "exited"}
    /\ \A c \in Clients : pc[c] \in {"client", "client_notify"}
    /\ \A w \in Workers : pc[w] \in {"running", "nested_notify"} <=> task[w] # NoTask

\* Only tasks that were taken are run.
RanWereTaken ==
    /\ ran \subseteq 1 .. taken
    /\ \A w \in Workers : task[w] # NoTask => task[w] \in 1 .. taken

\* How far the destructor is: after stop_ no client calls Run, a worker exits only
\* then, and the last one to exit leaves no task, because whoever could still
\* submit one is a worker that has not exited.
Shutdown ==
    /\ stop_ <=> owner # "alive"
    /\ stop_ => \A c \in Clients : pc[c] = "client"
    /\ \A w \in Workers : pc[w] = "exited" => stop_
    /\ (\A w \in Workers : pc[w] = "exited") => tasks_ = <<>>
    /\ owner = "destroyed" => \A w \in Workers : pc[w] = "exited"

QueueInv == TypeOK /\ TakenInOrder
IInv == QueueInv /\ Roles /\ RanWereTaken /\ EachRunOnce /\ Shutdown /\ SomebodyNotifies

-----------------------------------------------------------------------------
\* The constructor starts the workers with nothing to do.
LEMMA InitIInv == Init => IInv
<1> SUFFICES ASSUME Init PROVE IInv
  OBVIOUS
<1> USE ThreadPoolAssumption DEF Init
<1>1. TypeOK
  <2>1. tasks_ \in Seq(1 .. MaxTasks) /\ submitted \in 0 .. MaxTasks /\ taken \in 0 .. MaxTasks
    OBVIOUS
  <2>2. pc \in [Threads -> {"loop", "waiting", "running", "nested_notify", "exited",
                            "client", "client_notify"}]
    OBVIOUS
  <2>3. task \in [Workers -> 1 .. MaxTasks \cup {NoTask}]
    OBVIOUS
  <2> QED
    BY <2>1, <2>2, <2>3, Zenon DEF TypeOK
<1>2. TakenInOrder
  BY DEF TakenInOrder
<1>3. Roles
  BY DEF Roles, Threads
<1>4. RanWereTaken /\ EachRunOnce
  BY DEF RanWereTaken, EachRunOnce
<1>5. Shutdown
  <2>1. \A w \in Workers : pc[w] # "exited"
    BY DEF Threads
  <2> QED
    BY <2>1 DEF Shutdown
<1>6. SomebodyNotifies
  BY DEF SomebodyNotifies
<1> QED
  BY <1>1, <1>2, <1>3, <1>4, <1>5, <1>6 DEF IInv, QueueInv

\* A step that only moves one worker between labels at which it has no task.
LEMMA MoveWorker ==
    ASSUME IInv, NEW w \in Workers, NEW l \in {"loop", "waiting", "exited"},
           pc[w] \in {"loop", "waiting"}, pc' = [pc EXCEPT ![w] = l],
           UNCHANGED <<tasks_, stop_, task, owner, submitted, taken, ran>>,
           l = "waiting" => tasks_ = <<>>,
           l = "exited" => stop_ /\ tasks_ = <<>>
    PROVE  IInv'
<1>1. TypeOK' /\ TakenInOrder'
  BY DEF IInv, QueueInv, TypeOK, TakenInOrder, Threads
<1>2. Roles' /\ RanWereTaken' /\ EachRunOnce'
  BY ThreadPoolAssumption DEF IInv, QueueInv, TypeOK, Roles, RanWereTaken, EachRunOnce, Threads
<1>3. Shutdown'
  BY ThreadPoolAssumption DEF IInv, QueueInv, TypeOK, Shutdown, Threads
<1>4. SomebodyNotifies'
  BY ThreadPoolAssumption DEF IInv, QueueInv, TypeOK, SomebodyNotifies, Waiting, Threads
<1> QED
  BY <1>1, <1>2, <1>3, <1>4 DEF IInv, QueueInv

\* Loop takes the task at the head of the queue.
LEMMA TakeIInv ==
    ASSUME IInv, NEW w \in Workers, LoopTake(w)
    PROVE  IInv'
<1> USE DEF Goto
<1>0. /\ tasks_ \in Seq(1 .. MaxTasks) /\ tasks_ # <<>> /\ Len(tasks_) \in Nat \ {0}
      /\ taken \in Nat /\ submitted \in 0 .. MaxTasks /\ MaxTasks \in Nat
      /\ Len(tasks_) + taken = submitted
      /\ \A i \in 1 .. Len(tasks_) : tasks_[i] = taken + i
  BY ThreadPoolAssumption DEF LoopTake, IInv, QueueInv, TypeOK, TakenInOrder
<1>1. Head(tasks_) = taken + 1 /\ taken + 1 \in 1 .. MaxTasks
  BY <1>0
<1>2. /\ Tail(tasks_) \in Seq(1 .. MaxTasks) /\ Len(Tail(tasks_)) = Len(tasks_) - 1
      /\ \A i \in 1 .. Len(tasks_) - 1 : Tail(tasks_)[i] = tasks_[i + 1]
  BY <1>0
<1>3. /\ task' = [task EXCEPT ![w] = taken + 1] /\ tasks_' = Tail(tasks_)
      /\ taken' = taken + 1 /\ pc' = [pc EXCEPT ![w] = "running"] /\ pc[w] = "loop"
      /\ UNCHANGED <<stop_, owner, submitted, ran>>
  BY <1>1, Zenon DEF LoopTake
<1>4. TypeOK'
  BY <1>0, <1>1, <1>2, <1>3 DEF IInv, QueueInv, TypeOK, Threads
<1>5. TakenInOrder'
  <2>1. Len(tasks_') = Len(tasks_) - 1
    BY <1>2, <1>3
  <2>2. \A i \in 1 .. Len(tasks_') : tasks_'[i] = taken' + i
    <3> SUFFICES ASSUME NEW i \in 1 .. Len(tasks_) - 1
                 PROVE  tasks_'[i] = taken' + i
      BY <2>1
    <3>1. tasks_'[i] = tasks_[i + 1]
      BY <1>2, <1>3
    <3>2. tasks_[i + 1] = taken + (i + 1)
      BY <1>0
    <3> QED
      BY <1>0, <1>3, <3>1, <3>2
  <2>3. Len(tasks_') + taken' = submitted'
    <3>1. taken' = taken + 1 /\ submitted' = submitted
      BY <1>3
    <3>2. Len(tasks_) \in Nat /\ taken \in Nat /\ Len(tasks_) + taken = submitted
      BY <1>0
    <3> QED
      BY <2>1, <3>1, <3>2
  <2> QED
    BY <2>2, <2>3 DEF TakenInOrder
<1>6. Roles' /\ RanWereTaken'
  BY <1>0, <1>1, <1>3, ThreadPoolAssumption DEF IInv, QueueInv, TypeOK, Roles, RanWereTaken, Threads
<1>7. EachRunOnce'
  <2>1. \A v \in Workers : v # w => task'[v] = task[v]
    BY <1>3 DEF IInv, QueueInv, TypeOK
  <2>2. task'[w] = taken + 1
    BY <1>3 DEF IInv, QueueInv, TypeOK
  <2>3. task[w] = NoTask
    BY <1>3 DEF IInv, Roles
  <2>4. taken + 1 \notin ran /\ \A v \in Workers : task[v] # taken + 1
    BY <1>0, ThreadPoolAssumption DEF IInv, RanWereTaken
  <2>5. \A k \in 1 .. taken' : k \in ran' \/ \E v \in Workers : task'[v] = k
    <3> SUFFICES ASSUME NEW k \in 1 .. taken + 1
                 PROVE  k \in ran \/ \E v \in Workers : task'[v] = k
      BY <1>3
    <3>1. CASE k = taken + 1
      BY <3>1, <2>2
    <3>2. CASE k \in 1 .. taken
      <4>1. k \in ran \/ \E v \in Workers : task[v] = k
        BY <3>2 DEF IInv, EachRunOnce
      <4>2. k # NoTask
        BY <3>2, <1>0, ThreadPoolAssumption
      <4> QED
        BY <4>1, <4>2, <2>1, <2>3
    <3> QED
      BY <3>1, <3>2, <1>0
  <2>6. \A u, v \in Workers : task'[u] = task'[v] /\ task'[u] # NoTask => u = v
    BY <2>1, <2>2, <2>4 DEF IInv, EachRunOnce
  <2>7. \A v \in Workers : task'[v] \notin ran'
    BY <1>3, <2>1, <2>2, <2>4 DEF IInv, EachRunOnce
  <2> QED
    BY <2>5, <2>6, <2>7 DEF EachRunOnce
<1>8. Shutdown'
  BY <1>3, ThreadPoolAssumption DEF IInv, QueueInv, TypeOK, Shutdown, Threads
<1>9. SomebodyNotifies'
  BY <1>3 DEF IInv, QueueInv, TypeOK, SomebodyNotifies, Waiting, Threads
<1> QED
  BY <1>4, <1>5, <1>6, <1>7, <1>8, <1>9 DEF IInv, QueueInv

\* The task a worker runs returns.
LEMMA DoneIInv ==
    ASSUME IInv, NEW w \in Workers, TaskDone(w)
    PROVE  IInv'
<1>1. /\ pc[w] = "running" /\ pc' = [pc EXCEPT ![w] = "loop"]
      /\ ran' = ran \cup {task[w]} /\ task' = [task EXCEPT ![w] = NoTask]
      /\ UNCHANGED <<tasks_, stop_, owner, submitted, taken>>
  BY DEF TaskDone, Goto
<1>2. /\ task[w] # NoTask /\ task[w] \in 1 .. MaxTasks /\ task'[w] = NoTask
      /\ \A v \in Workers : v # w => task'[v] = task[v]
      /\ task' \in [Workers -> 1 .. MaxTasks \cup {NoTask}]
  BY <1>1 DEF IInv, QueueInv, TypeOK, Roles
<1>3. TypeOK' /\ TakenInOrder'
  BY <1>1, <1>2, Zenon DEF IInv, QueueInv, TypeOK, TakenInOrder, Threads
<1>4. Roles' /\ RanWereTaken'
  BY <1>1, <1>2, ThreadPoolAssumption, Zenon DEF IInv, QueueInv, TypeOK, Roles, RanWereTaken, Threads
<1>5. EachRunOnce'
  <2>0. NoTask \notin ran
    <3>1. ran \subseteq Nat
      BY DEF IInv, QueueInv, TypeOK
    <3> QED
      BY <3>1, ThreadPoolAssumption, Zenon
  <2>1. \A k \in 1 .. taken' : k \in ran' \/ \E v \in Workers : task'[v] = k
    BY <1>1, <1>2 DEF IInv, EachRunOnce
  <2>2. \A u, v \in Workers : task'[u] = task'[v] /\ task'[u] # NoTask => u = v
    BY <1>2 DEF IInv, EachRunOnce
  <2>3. \A v \in Workers : task'[v] \notin ran'
    <3> SUFFICES ASSUME NEW v \in Workers PROVE task'[v] \notin ran /\ task'[v] # task[w]
      BY <1>1
    <3> QED
      BY <1>2, <2>0 DEF IInv, EachRunOnce
  <2> QED
    BY <2>1, <2>2, <2>3 DEF EachRunOnce
<1>6. Shutdown'
  BY <1>1, ThreadPoolAssumption DEF IInv, QueueInv, TypeOK, Shutdown, Threads
<1>7. SomebodyNotifies'
  BY <1>1 DEF IInv, QueueInv, TypeOK, SomebodyNotifies, Waiting, Threads
<1> QED
  BY <1>3, <1>4, <1>5, <1>6, <1>7 DEF IInv, QueueInv

\* Run pushes a task, for a client or for a task that is being run.
LEMMA RunIInv ==
    ASSUME IInv, NEW t \in Threads, Run(t)
    PROVE  IInv'
<1> DEFINE l == IF t \in Workers THEN "nested_notify" ELSE "client_notify"
<1>0. /\ tasks_ \in Seq(1 .. MaxTasks) /\ Len(tasks_) \in Nat
      /\ taken \in Nat /\ submitted \in Nat /\ MaxTasks \in Nat /\ submitted < MaxTasks
      /\ Len(tasks_) + taken = submitted
      /\ \A i \in 1 .. Len(tasks_) : tasks_[i] = taken + i
  BY ThreadPoolAssumption DEF Run, IInv, QueueInv, TypeOK, TakenInOrder
<1>1. /\ tasks_' = Append(tasks_, submitted + 1) /\ submitted' = submitted + 1
      /\ pc' = [pc EXCEPT ![t] = l]
      /\ UNCHANGED <<stop_, task, owner, taken, ran>>
      /\ (t \in Workers /\ pc[t] = "running") \/ (t \in Clients /\ owner = "alive")
  BY DEF Run, Goto, IInv, Roles, Threads
<1>2. /\ tasks_' \in Seq(1 .. MaxTasks) /\ Len(tasks_') = Len(tasks_) + 1
      /\ \A i \in 1 .. Len(tasks_) : tasks_'[i] = tasks_[i]
      /\ tasks_'[Len(tasks_) + 1] = submitted + 1
  BY <1>0, <1>1
<1>3. TypeOK'
  BY <1>0, <1>1, <1>2 DEF IInv, QueueInv, TypeOK, Threads
<1>4. TakenInOrder'
  BY <1>0, <1>1, <1>2 DEF TakenInOrder
<1>5. Roles' /\ RanWereTaken' /\ EachRunOnce'
  BY <1>1, ThreadPoolAssumption DEF IInv, QueueInv, TypeOK, Roles, RanWereTaken, EachRunOnce, Threads
<1>6. Shutdown'
  BY <1>1, ThreadPoolAssumption DEF IInv, QueueInv, TypeOK, Shutdown, Threads
<1>7. SomebodyNotifies'
  BY <1>1 DEF IInv, QueueInv, TypeOK, SomebodyNotifies
<1> QED
  BY <1>3, <1>4, <1>5, <1>6, <1>7 DEF IInv, QueueInv

\* The end of Run: one waiting worker, if there is one, is woken.
LEMMA NotifyOneIInv ==
    ASSUME IInv, NEW t \in Threads, NotifyOne(t)
    PROVE  IInv'
<1> DEFINE back == IF t \in Workers THEN "running" ELSE "client"
<1>1. /\ pc[t] \in {"nested_notify", "client_notify"}
      /\ UNCHANGED <<tasks_, stop_, task, owner, submitted, taken, ran>>
      /\ \/ Waiting = {} /\ pc' = [pc EXCEPT ![t] = back]
         \/ \E w \in Waiting : pc' = [pc EXCEPT ![t] = back, ![w] = "loop"]
  BY DEF NotifyOne, Goto
<1>2. /\ pc' \in [Threads -> {"loop", "waiting", "running", "nested_notify", "exited",
                              "client", "client_notify"}]
      /\ pc'[t] = back
      /\ \A u \in Threads : u # t => pc'[u] = pc[u] \/ (u \in Waiting /\ pc'[u] = "loop")
      /\ Waiting # {} => \E w \in Waiting : pc'[w] = "loop"
  BY <1>1 DEF IInv, QueueInv, TypeOK, Waiting, Threads
<1>3. TypeOK' /\ TakenInOrder'
  BY <1>1, <1>2 DEF IInv, QueueInv, TypeOK, TakenInOrder
<1>4. Roles'
  BY <1>1, <1>2, ThreadPoolAssumption DEF IInv, Roles, Waiting, Threads
<1>5. RanWereTaken' /\ EachRunOnce'
  BY <1>1 DEF IInv, RanWereTaken, EachRunOnce
<1>6. Shutdown'
  BY <1>1, <1>2, <1>4, ThreadPoolAssumption DEF IInv, Roles, Shutdown, Waiting, Threads
<1>7. SomebodyNotifies'
  BY <1>1, <1>2, ThreadPoolAssumption DEF SomebodyNotifies, Waiting, Threads
<1> QED
  BY <1>3, <1>4, <1>5, <1>6, <1>7 DEF IInv, QueueInv

\* The steps of the destructor.
LEMMA DestroyIInv ==
    ASSUME IInv, Destroy
    PROVE  IInv'
<1>1. ASSUME Stop PROVE IInv'
  <2>1. TypeOK' /\ TakenInOrder' /\ Roles' /\ RanWereTaken' /\ EachRunOnce'
    BY <1>1 DEF Stop, IInv, QueueInv, TypeOK, TakenInOrder, Roles, RanWereTaken, EachRunOnce
  <2>2. Shutdown' /\ SomebodyNotifies'
    BY <1>1 DEF Stop, IInv, Shutdown, SomebodyNotifies
  <2> QED
    BY <2>1, <2>2 DEF IInv, QueueInv
<1>2. ASSUME NotifyAll PROVE IInv'
  <2>1. TypeOK' /\ TakenInOrder'
    BY <1>2 DEF NotifyAll, IInv, QueueInv, TypeOK, TakenInOrder
  <2>2. \A u \in Threads : /\ pc'[u] = pc[u] \/ (u \in Waiting /\ pc'[u] = "loop")
                           /\ pc'[u] # "waiting" \/ u \notin Workers
    BY <1>2 DEF NotifyAll, Waiting
  <2>3. Roles' /\ RanWereTaken' /\ EachRunOnce'
    BY <1>2, <2>2 DEF NotifyAll, IInv, Roles, RanWereTaken, EachRunOnce, Waiting, Threads
  <2>4. Shutdown'
    BY <1>2, <2>2, ThreadPoolAssumption DEF NotifyAll, IInv, Roles, Shutdown, Waiting, Threads
  <2>5. SomebodyNotifies'
    BY <1>2, <2>2, ThreadPoolAssumption DEF SomebodyNotifies, Waiting, Threads
  <2> QED
    BY <2>1, <2>3, <2>4, <2>5 DEF IInv, QueueInv
<1>3. ASSUME Join PROVE IInv'
  <2>1. TypeOK' /\ TakenInOrder' /\ Roles' /\ RanWereTaken' /\ EachRunOnce'
    BY <1>3 DEF Join, IInv, QueueInv, TypeOK, TakenInOrder, Roles, RanWereTaken, EachRunOnce
  <2>2. Shutdown'
    BY <1>3 DEF Join, IInv, Shutdown
  <2>3. SomebodyNotifies'
    BY <1>3, ThreadPoolAssumption DEF Join, IInv, SomebodyNotifies, Waiting
  <2> QED
    BY <2>1, <2>2, <2>3 DEF IInv, QueueInv
<1> QED
  BY <1>1, <1>2, <1>3 DEF Destroy

\* Every step preserves the invariant.
LEMMA NextIInv == IInv /\ [Next]_vars => IInv'
<1> SUFFICES ASSUME IInv, [Next]_vars PROVE IInv'
  OBVIOUS
<1>1. ASSUME NEW w \in Workers, LoopWait(w) \/ SpuriousWakeup(w) \/ LoopExit(w)
      PROVE  IInv'
  BY <1>1, MoveWorker DEF LoopWait, SpuriousWakeup, LoopExit, Goto
<1>2. CASE UNCHANGED vars
  BY <1>2 DEF vars, IInv, QueueInv, TypeOK, TakenInOrder, Roles, RanWereTaken, EachRunOnce,
     Shutdown, SomebodyNotifies, Waiting
<1> QED
  BY <1>1, <1>2, TakeIInv, DoneIInv, RunIInv, NotifyOneIInv, DestroyIInv DEF Next, Loop

\* Every reachable state satisfies the invariant.
LEMMA SpecIInv == Spec => []IInv
BY InitIInv, NextIInv, PTL DEF Spec

\* The queue and the workers keep their types.
THEOREM TypeCorrect == Spec => []TypeOK
<1>1. IInv => TypeOK
  BY DEF IInv, QueueInv
<1> QED
  BY SpecIInv, <1>1, PTL

\* Loop takes the tasks in the order in which Run pushed them, none twice.
THEOREM TasksTakenInOrder == Spec => []TakenInOrder
<1>1. IInv => TakenInOrder
  BY DEF IInv, QueueInv
<1> QED
  BY SpecIInv, <1>1, PTL

\* A task is never with two workers, never run again after it was run, and never
\* dropped between the queue and its end.
THEOREM TasksRunOnce == Spec => []EachRunOnce
<1>1. IInv => EachRunOnce
  BY DEF IInv
<1> QED
  BY SpecIInv, <1>1, PTL

\* ~ThreadPool returns only after every submitted task has been run, whatever
\* tasks submit while the destructor waits.
THEOREM DestructorDrains == Spec => []DestroyedMeansDrained
<1>1. IInv => DestroyedMeansDrained
  <2> SUFFICES ASSUME IInv, owner = "destroyed" PROVE ran = 1 .. submitted
    BY DEF DestroyedMeansDrained
  <2>1. \A w \in Workers : pc[w] = "exited" /\ task[w] = NoTask
    BY DEF IInv, Shutdown, Roles
  <2>2. tasks_ = <<>> /\ taken \in Nat
    BY <2>1, ThreadPoolAssumption DEF IInv, Shutdown, QueueInv, TypeOK
  <2>3. taken = submitted
    BY <2>2 DEF IInv, QueueInv, TakenInOrder
  <2>4. \A k \in 1 .. taken : k \in ran
    BY <2>1, <2>2, ThreadPoolAssumption DEF IInv, EachRunOnce
  <2> QED
    BY <2>3, <2>4, ZenonT(40) DEF IInv, RanWereTaken
<1> QED
  BY SpecIInv, <1>1, PTL

\* Run's notify_one, issued after the mutex was released, is never too late.
THEOREM NoLostWakeup == Spec => []SomebodyNotifies
<1>1. IInv => SomebodyNotifies
  BY DEF IInv
<1> QED
  BY SpecIInv, <1>1, PTL

\* The pool runs every task once and in order, drains before the destructor
\* returns and loses no wakeup, for any workers, clients and number of tasks.
THEOREM TasksAlwaysSafe == Spec => []TasksSafe
<1> QED
  BY TypeCorrect, TasksTakenInOrder, TasksRunOnce, DestructorDrains, NoLostWakeup, PTL
  DEF TasksSafe

-----------------------------------------------------------------------------
(***************************************************************************)
(* Singleton: one object, and callers that held the mutex see it           *)
(* constructed.                                                            *)
(***************************************************************************)
\* No thread is inside and no object exists at the start.
LEMMA InitEstablishes == InstanceInit => InstanceInv
BY SingletonAssumption DEF InstanceInit, InstanceInv, InstanceTypeOK, PCs, InCritical, LockedCallerSeesObject, None

\* Every step of Instance preserves the invariant.
LEMMA NextPreserves == InstanceInv /\ [InstanceNext]_instanceVars => InstanceInv'
<1> SUFFICES ASSUME InstanceInv, [InstanceNext]_instanceVars PROVE InstanceInv'
    OBVIOUS
<1> USE SingletonAssumption DEF InstanceInv, InstanceTypeOK, PCs, InCritical, LockedCallerSeesObject, None, Move
<1>1. CASE UNCHANGED instanceVars
    BY <1>1 DEF instanceVars
<1>2. ASSUME NEW t \in Callers, Call(t) PROVE InstanceInv'
    BY <1>2 DEF Call
<1>3. ASSUME NEW t \in Callers, FirstCheck(t) PROVE InstanceInv'
    BY <1>3 DEF FirstCheck
<1>4. ASSUME NEW t \in Callers, Lock(t) PROVE InstanceInv'
    BY <1>4 DEF Lock
<1>5. ASSUME NEW t \in Callers, SecondCheck(t) PROVE InstanceInv'
    BY <1>5 DEF SecondCheck
<1>6. ASSUME NEW t \in Callers, Create(t) PROVE InstanceInv'
    BY <1>6 DEF Create
<1>7. ASSUME NEW t \in Callers, CreateThrows(t) PROVE InstanceInv'
    BY <1>7 DEF CreateThrows
<1>8. ASSUME NEW t \in Callers, StoreFields(t) PROVE InstanceInv'
    BY <1>8 DEF StoreFields
<1>9. ASSUME NEW t \in Callers, StorePointer(t) PROVE InstanceInv'
    BY <1>9 DEF StorePointer
<1>10. ASSUME NEW t \in Callers, Unlock(t) PROVE InstanceInv'
    BY <1>10 DEF Unlock
<1>11. ASSUME NEW t \in Callers, Return(t) PROVE InstanceInv'
    BY <1>11 DEF Return
<1> QED
    BY <1>1, <1>2, <1>3, <1>4, <1>5, <1>6, <1>7, <1>8, <1>9, <1>10, <1>11, Zenon
    DEF InstanceNext, InstanceStep

\* The invariant holds in every reachable state.
THEOREM InvariantHolds == InstanceSpec => []InstanceInv
BY InitEstablishes, NextPreserves, PTL DEF InstanceSpec

\* Instance constructs one object and returns it to every caller.
THEOREM OneInstanceAlways == InstanceSpec => []OneInstance
<1>1. InstanceInv => OneInstance
    BY DEF InstanceInv, OneInstance, None, InstanceTypeOK
<1> QED
    BY <1>1, InvariantHolds, PTL

\* A caller that has held the mutex sees the constructed object.
THEOREM LockedCallerSeesObjectAlways == InstanceSpec => []LockedCallerSeesObject
<1>1. InstanceInv => LockedCallerSeesObject
    BY DEF InstanceInv
<1> QED
    BY <1>1, InvariantHolds, PTL

\* Instance makes one object, complete for every caller that took the lock.
THEOREM InstanceAlwaysSound == InstanceSpec => []InstanceSound
<1> QED
    BY OneInstanceAlways, LockedCallerSeesObjectAlways, PTL DEF InstanceSound

-----------------------------------------------------------------------------
(***************************************************************************)
(* BloomFilter: no false negative, and no find without a collision.        *)
(***************************************************************************)
FilterTypeOK ==
    /\ hash \in [Hashers -> [Keys -> Buckets]]
    /\ buf \in [Buckets -> 0..Max]
    /\ call \in [key : Keys \cup {nullptr}, next : 1..(K + 1), max : 0..NoLookup]
    /\ call.key = nullptr <=> call = Idle
    /\ inserts \in [Keys -> Nat]

\* Insertions of key that hash function fn has counted.
Counted(key, fn) ==
    inserts[key] + (IF call.key = key /\ fn < call.next THEN 1 ELSE 0)

\* A counter is full or at least the insertions of each key and function on it:
\* this, unlike NoFalseNegative, also says what holds in the middle of Insert.
CountersCover ==
    \A key \in Keys : \A fn \in Hashers :
        buf[hash[fn][key]] = Max \/ buf[hash[fn][key]] >= Counted(key, fn)

\* A counter above zero has been hit.
CountersHit ==
    \A b \in Buckets : buf[b] > 0 =>
        \E other \in Keys : \E g \in Hashers :
            hash[g][other] = b /\ (inserts[other] > 0 \/ call.key = other)

FilterInv == FilterTypeOK /\ CountersCover /\ CountersHit

\* A new filter is empty.
LEMMA InitFilter == FilterInit => FilterInv
BY BloomFilterAssumption
DEF FilterInit, FilterInv, FilterTypeOK, CountersCover, CountersHit, Counted, Hashers, Idle, NoLookup

\* Starting an insertion counts nothing yet.
LEMMA StartFilter ==
    ASSUME FilterInv, NEW key \in Keys, NEW max \in 0..NoLookup, Start(key, max)
    PROVE  FilterInv'
<1> USE BloomFilterAssumption DEF FilterInv, FilterTypeOK, Start, Hashers, Idle, NoLookup
<1>1. FilterTypeOK'
    OBVIOUS
<1>2. CountersCover'
    BY DEF CountersCover, Counted
<1>3. CountersHit'
    BY DEF CountersHit
<1> QED
    BY <1>1, <1>2, <1>3

\* One turn of the loop raises the counter that Counted asks for, and no other.
LEMMA CountFilter == ASSUME FilterInv, Count PROVE FilterInv'
<1> USE BloomFilterAssumption DEF FilterInv, FilterTypeOK, Hashers
<1> DEFINE place == hash[call.next][call.key]
<1>1. call.key \in Keys /\ call.next \in Hashers /\ place \in Buckets
    BY DEF Count
<1>2. buf' = [buf EXCEPT ![place] = IF buf[place] # Max THEN buf[place] + 1 ELSE buf[place]]
    BY DEF Count
<1>3. /\ call' = [call EXCEPT !.next = call.next + 1]
      /\ call'.key = call.key /\ call'.next = call.next + 1
      /\ UNCHANGED <<hash, inserts>>
    BY DEF Count
<1>4. FilterTypeOK'
  <2>1. buf' \in [Buckets -> 0..Max]
      BY <1>1, <1>2
  <2>2. call' \in [key : Keys \cup {nullptr}, next : 1..(K + 1), max : 0..NoLookup]
      BY <1>1, <1>3 DEF NoLookup
  <2>3. call'.key # nullptr /\ call' # Idle
      BY <1>1, <1>3 DEF Idle
  <2> QED
      BY <1>3, <2>1, <2>2, <2>3
<1>5. \A b \in Buckets : buf'[b] >= buf[b] /\ (b # place => buf'[b] = buf[b])
    BY <1>1, <1>2
<1>6. CountersCover'
  <2> SUFFICES ASSUME NEW key \in Keys, NEW fn \in Hashers
               PROVE  \/ buf'[hash[fn][key]] = Max
                      \/ buf'[hash[fn][key]] >= Counted(key, fn)'
      BY <1>3 DEF CountersCover
  <2>1. hash[fn][key] \in Buckets
      OBVIOUS
  <2>2. CASE key = call.key /\ fn = call.next
    <3>1. Counted(key, fn)' = Counted(key, fn) + 1
        BY <1>1, <1>3, <2>2 DEF Counted
    <3>2. Counted(key, fn) = inserts[key]
        BY <2>2 DEF Counted
    <3> QED
        BY <1>1, <1>2, <2>1, <2>2, <3>1, <3>2 DEF CountersCover
  <2>3. CASE ~(key = call.key /\ fn = call.next)
    <3>1. Counted(key, fn)' = Counted(key, fn) /\ Counted(key, fn) \in Nat
        BY <1>1, <1>3, <2>3 DEF Counted
    <3>2. buf[hash[fn][key]] \in 0..Max /\ buf'[hash[fn][key]] \in 0..Max
        BY <1>4, <2>1
    <3>3. buf'[hash[fn][key]] >= buf[hash[fn][key]]
        BY <1>5, <2>1
    <3>4. buf[hash[fn][key]] = Max \/ buf[hash[fn][key]] >= Counted(key, fn)
        BY DEF CountersCover
    <3> QED
        BY <3>1, <3>2, <3>3, <3>4
  <2> QED
      BY <2>2, <2>3
<1>7. CountersHit'
    BY <1>1, <1>3, <1>5 DEF CountersHit
<1> QED
    BY <1>4, <1>6, <1>7, Zenon

\* At the end of the loop every function has counted the insertion.
LEMMA ReturnFilter == ASSUME FilterInv, InsertReturn PROVE FilterInv'
<1> USE BloomFilterAssumption DEF FilterInv, FilterTypeOK, Hashers
<1>1. call.key \in Keys /\ call.next = K + 1
    BY DEF InsertReturn
<1>2. /\ call' = Idle /\ UNCHANGED <<hash, buf>>
      /\ inserts' = [inserts EXCEPT ![call.key] = inserts[call.key] + 1]
    BY DEF InsertReturn
<1>3. FilterTypeOK'
    BY <1>1, <1>2 DEF Idle, NoLookup
<1>4. ASSUME NEW key \in Keys, NEW fn \in Hashers
      PROVE  Counted(key, fn)' = Counted(key, fn)
    BY <1>1, <1>2 DEF Counted, Idle
<1>5. CountersCover'
    BY <1>2, <1>4 DEF CountersCover
<1>6. \A other \in Keys : inserts[other] > 0 \/ call.key = other => inserts'[other] > 0
    BY <1>1, <1>2
<1>7. CountersHit'
    BY <1>2, <1>6 DEF CountersHit
<1> QED
    BY <1>3, <1>5, <1>7, Zenon

\* Every step preserves the invariant.
LEMMA NextFilter == FilterInv /\ [FilterNext]_filterVars => FilterInv'
<1> SUFFICES ASSUME FilterInv, [FilterNext]_filterVars PROVE FilterInv'
    OBVIOUS
<1> USE BloomFilterAssumption
<1>1. CASE UNCHANGED filterVars
    BY <1>1 DEF filterVars, FilterInv, FilterTypeOK, CountersCover, CountersHit, Counted
<1>2. ASSUME NEW key \in Keys, Insert(key) PROVE FilterInv'
    BY <1>2, StartFilter DEF Insert, NoLookup
<1>3. ASSUME NEW key \in Keys, NEW max \in 0..(Max + 1), InsertedLookup(key, max) PROVE FilterInv'
    BY <1>3, StartFilter DEF InsertedLookup, NoLookup
<1>4. ASSUME NEW max \in 0..(Max + 1), NullLookup(max) PROVE FilterInv'
    BY <1>4 DEF NullLookup, FilterInv, FilterTypeOK, CountersCover, CountersHit, Counted
<1>5. CASE Count
    BY <1>5, CountFilter
<1>6. CASE InsertReturn
    BY <1>6, ReturnFilter
<1> QED
    BY <1>1, <1>2, <1>3, <1>4, <1>5, <1>6 DEF FilterNext

\* The invariant holds in every reachable state.
LEMMA SpecFilter == FilterSpec => []FilterInv
BY InitFilter, NextFilter, PTL DEF FilterSpec

\* A key inserted n times is found with every max_count up to n that T can
\* count, for any hash functions (Insert and Exists, bloom_filter.h:124-147).
THEOREM NeverFalseNegative == FilterSpec => []NoFalseNegative
<1>1. FilterInv => NoFalseNegative
  <2> SUFFICES ASSUME FilterInv, call = Idle, NEW key \in Keys, NEW max \in 0..Max,
                      max <= inserts[key]
               PROVE  Exists(key, max)
      BY DEF NoFalseNegative
  <2>1. ASSUME NEW fn \in Hashers PROVE buf[hash[fn][key]] >= max
    <3>1. Counted(key, fn) = inserts[key]
        BY BloomFilterAssumption DEF Counted, Idle, FilterInv, FilterTypeOK
    <3> QED
        BY <3>1, BloomFilterAssumption DEF FilterInv, FilterTypeOK, CountersCover
  <2> QED
      BY <2>1, BloomFilterAssumption DEF Exists
<1> QED
    BY <1>1, SpecFilter, PTL

\* Whatever Exists finds shares each of its buckets with an inserted key
\* (Insert touches no other bucket, bloom_filter.h:127-133).
THEOREM FindsOnlyHits == FilterSpec => []FoundMeansHit
<1>1. FilterInv => FoundMeansHit
  <2> SUFFICES ASSUME FilterInv, NEW key \in Keys, Exists(key, 1), NEW fn \in Hashers
               PROVE  \E other \in Keys : \E g \in Hashers :
                          /\ hash[g][other] = hash[fn][key]
                          /\ inserts[other] > 0 \/ call.key = other
      BY DEF FoundMeansHit
  <2>1. hash[fn][key] \in Buckets /\ buf[hash[fn][key]] > 0
      BY BloomFilterAssumption DEF FilterInv, FilterTypeOK, Exists
  <2> QED
      BY <2>1 DEF FilterInv, CountersHit
<1> QED
    BY <1>1, SpecFilter, PTL

\* Exists is right about every key, for any hash functions and counter width.
THEOREM FilterAlwaysSound == FilterSpec => []FilterIsSound
<1> QED
    BY NeverFalseNegative, FindsOnlyHits, PTL DEF FilterIsSound
=============================================================================
