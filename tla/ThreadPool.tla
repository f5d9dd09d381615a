----------------------------- MODULE ThreadPool -----------------------------
(***************************************************************************)
(* ThreadPool: workers that run Loop over a queue of tasks, clients that   *)
(* call Run, and the destructor that lets the workers drain the queue and  *)
(* joins them.  A task may itself call Run, also while the pool is being   *)
(* destroyed; other clients have returned by then, as for any object.      *)
(*                                                                         *)
(* queue_mutex_ is held for one step at a time.  Run and the destructor    *)
(* notify after they have released it, so the notification is a step of    *)
(* its own that any worker may overtake.                                   *)
(***************************************************************************)
EXTENDS Naturals, Sequences, FiniteSets

CONSTANTS
    Workers,    \* workers_
    Clients,    \* the threads outside the pool that call Run
    MaxTasks,   \* bound: tasks submitted
    NoTask      \* a worker without a task

ASSUME ThreadPoolAssumption ==
    /\ Workers # {} /\ Workers \cap Clients = {}
    /\ MaxTasks \in Nat /\ NoTask \notin Nat

Threads == Workers \cup Clients

VARIABLES
    tasks_,     \* the queue; the k-th task submitted is k
    stop_,
    pc,         \* pc[t]: where thread t is
    task,       \* task[w]: what worker w has taken and not finished
    owner,      \* the thread that destroys the pool
    submitted,  \* history: tasks passed to Run so far
    taken,      \* history: tasks taken from the queue so far
    ran         \* history: the tasks that have been run to their end

vars == <<tasks_, stop_, pc, task, owner, submitted, taken, ran>>

Init ==
    /\ tasks_ = <<>>
    /\ stop_ = FALSE
    /\ pc = [t \in Threads |-> IF t \in Workers THEN "loop" ELSE "client"]
    /\ task = [w \in Workers |-> NoTask]
    /\ owner = "alive"
    /\ submitted = 0 /\ taken = 0 /\ ran = {}

Goto(t, label) == pc' = [pc EXCEPT ![t] = label]

Waiting == {w \in Workers : pc[w] = "waiting"}

-----------------------------------------------------------------------------
(***************************************************************************)
(* Loop.                                                                   *)
(***************************************************************************)

\* The predicate of condition_.wait is false.
LoopWait(w) ==
    /\ pc[w] = "loop" /\ ~stop_ /\ tasks_ = <<>>
    /\ Goto(w, "waiting")
    /\ UNCHANGED <<tasks_, stop_, task, owner, submitted, taken, ran>>

SpuriousWakeup(w) ==
    /\ pc[w] = "waiting"
    /\ Goto(w, "loop")
    /\ UNCHANGED <<tasks_, stop_, task, owner, submitted, taken, ran>>

\* Faulty variant of LoopExit: leaves queued tasks behind.
LoopExitAtOnce(w) ==
    /\ pc[w] = "loop" /\ stop_
    /\ Goto(w, "exited")
    /\ UNCHANGED <<tasks_, stop_, task, owner, submitted, taken, ran>>

LoopExit(w) ==
    /\ pc[w] = "loop" /\ stop_ /\ tasks_ = <<>>
    /\ Goto(w, "exited")
    /\ UNCHANGED <<tasks_, stop_, task, owner, submitted, taken, ran>>

LoopTake(w) ==
    /\ pc[w] = "loop" /\ tasks_ # <<>>
    /\ task' = [task EXCEPT ![w] = Head(tasks_)]
    /\ tasks_' = Tail(tasks_)
    /\ taken' = taken + 1
    /\ Goto(w, "running")
    /\ UNCHANGED <<stop_, owner, submitted, ran>>

\* task() returns.
TaskDone(w) ==
    /\ pc[w] = "running"
    /\ ran' = ran \cup {task[w]}
    /\ task' = [task EXCEPT ![w] = NoTask]
    /\ Goto(w, "loop")
    /\ UNCHANGED <<tasks_, stop_, owner, submitted, taken>>

-----------------------------------------------------------------------------
(***************************************************************************)
(* Run, called by a client or by the task that a worker runs.              *)
(***************************************************************************)

Run(t) ==
    /\ submitted < MaxTasks
    /\ pc[t] = "running" \/ (pc[t] = "client" /\ owner = "alive")
    /\ tasks_' = Append(tasks_, submitted + 1)
    /\ submitted' = submitted + 1
    /\ Goto(t, IF t \in Workers THEN "nested_notify" ELSE "client_notify")
    /\ UNCHANGED <<stop_, task, owner, taken, ran>>

\* condition_.notify_one, after the mutex has been released, and the return.
NotifyOne(t) ==
    /\ pc[t] \in {"nested_notify", "client_notify"}
    /\ LET back == IF t \in Workers THEN "running" ELSE "client" IN
        \/ Waiting = {} /\ Goto(t, back)
        \/ \E w \in Waiting : pc' = [pc EXCEPT ![t] = back, ![w] = "loop"]
    /\ UNCHANGED <<tasks_, stop_, task, owner, submitted, taken, ran>>

-----------------------------------------------------------------------------
(***************************************************************************)
(* The destructor.                                                         *)
(***************************************************************************)
Stop ==
    /\ owner = "alive" /\ \A c \in Clients : pc[c] = "client"
    /\ stop_' = TRUE
    /\ owner' = "stopping"
    /\ UNCHANGED <<tasks_, pc, task, submitted, taken, ran>>

\* Faulty variant of NotifyAll: only one worker is woken.
NotifyAllOnce ==
    /\ owner = "stopping"
    /\ \/ Waiting = {} /\ UNCHANGED pc
       \/ \E w \in Waiting : Goto(w, "loop")
    /\ owner' = "joining"
    /\ UNCHANGED <<tasks_, stop_, task, submitted, taken, ran>>

NotifyAll ==
    /\ owner = "stopping"
    /\ pc' = [t \in Threads |-> IF t \in Waiting THEN "loop" ELSE pc[t]]
    /\ owner' = "joining"
    /\ UNCHANGED <<tasks_, stop_, task, submitted, taken, ran>>

Join ==
    /\ owner = "joining" /\ \A w \in Workers : pc[w] = "exited"
    /\ owner' = "destroyed"
    /\ UNCHANGED <<tasks_, stop_, pc, task, submitted, taken, ran>>

Loop(w) == LoopWait(w) \/ LoopExit(w) \/ LoopTake(w) \/ TaskDone(w)

Destroy == Stop \/ NotifyAll \/ Join

Next ==
    \/ \E w \in Workers : Loop(w) \/ SpuriousWakeup(w)
    \/ \E t \in Threads : Run(t) \/ NotifyOne(t)
    \/ Destroy

Spec == Init /\ [][Next]_vars

\* Workers and callers of Run are scheduled; a destructor that has begun goes on.
\* Nobody has to call Run or to destroy the pool, and no spurious wakeup has to
\* happen.  The tasks return: a worker that runs one finishes it.
Fairness ==
    /\ \A w \in Workers : WF_vars(Loop(w))
    /\ \A t \in Threads : WF_vars(NotifyOne(t))
    /\ WF_vars(NotifyAll) /\ WF_vars(Join)

-----------------------------------------------------------------------------
\* One type invariant for the module.
TypeOK ==
    /\ tasks_ \in Seq(1 .. MaxTasks)
    /\ stop_ \in BOOLEAN
    /\ pc \in [Threads -> {"loop", "waiting", "running", "nested_notify", "exited",
                           "client", "client_notify"}]
    /\ task \in [Workers -> 1 .. MaxTasks \cup {NoTask}]
    /\ owner \in {"alive", "stopping", "joining", "destroyed"}
    /\ submitted \in 0 .. MaxTasks /\ taken \in 0 .. MaxTasks
    /\ ran \subseteq 1 .. MaxTasks

\* Tasks are taken in the order of the Runs, each exactly once: what is queued is
\* what was submitted and not taken.
TakenInOrder ==
    /\ Len(tasks_) + taken = submitted
    /\ \A i \in 1 .. Len(tasks_) : tasks_[i] = taken + i

\* Every task that was taken is being run by one worker or has been run.
EachRunOnce ==
    /\ \A k \in 1 .. taken : k \in ran \/ \E w \in Workers : task[w] = k
    /\ \A v, w \in Workers : task[v] = task[w] /\ task[v] # NoTask => v = w
    /\ \A w \in Workers : task[w] \notin ran

\* When the destructor returns, every task ever passed to Run has been run, also
\* those that tasks submitted while the pool was being destroyed.
DestroyedMeansDrained == owner = "destroyed" => ran = 1 .. submitted

\* No wakeup is lost: while tasks are queued and every worker waits, somebody is
\* still about to notify (the task is pushed before and notified after unlock).
SomebodyNotifies ==
    tasks_ # <<>> /\ Waiting = Workers =>
        \/ \E t \in Threads : pc[t] \in {"nested_notify", "client_notify"}
        \/ owner = "stopping"

\* Tasks are taken in order and run once, the destructor returns only when all
\* have run, and no wakeup is lost on the way.
TasksSafe ==
    TypeOK /\ TakenInOrder /\ EachRunOnce /\ DestroyedMeansDrained /\ SomebodyNotifies

\* A submitted task is run at some point, whether or not the pool is destroyed.
TasksRun == \A k \in 1 .. MaxTasks : (submitted >= k) ~> (k \in ran)

\* A destructor that has begun returns: every worker exits and is joined.
DestructorReturns == (owner = "stopping") ~> (owner = "destroyed")

\* Every task submitted is run, and a destructor that has begun returns.
PoolProgress == TasksRun /\ DestructorReturns
=============================================================================
