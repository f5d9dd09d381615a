--------------------------- MODULE BlockingQueue ---------------------------
(***************************************************************************)
(* BlockingQueue<Task>: a bounded deque guarded by mutex_, with the        *)
(* condition variables cv_full_ (there may be room) and cv_empty_ (there   *)
(* may be a task).                                                         *)
(*                                                                         *)
(* An operation holds the mutex from its first line to its return except   *)
(* while it waits, so what it does between two waits is one step: evaluate *)
(* the predicate and either wait (Wait) or do the work, notify and return. *)
(* A waiting thread is woken by notify_all, spuriously, or by its timeout, *)
(* and has to take the mutex and look again, when others may have been     *)
(* there first.                                                            *)
(***************************************************************************)
EXTENDS Naturals, Sequences, FiniteSets

CONSTANTS
    Threads,    \* the callers
    capacity_,  \* the constructor's argument
    OpsOf,      \* OpsOf[t]: the operations thread t calls
    Calls       \* bound: how many calls each thread makes

PushOps == {"Enqueue", "TryEnqueue", "EnqueueFront", "ForceEnqueue"}
PopOps == {"Dequeue", "TryDequeue"}
TimedOps == {"TryEnqueue", "TryDequeue", "Full"}
Ops == PushOps \cup PopOps \cup {"Full", "Clear"}

ASSUME BlockingQueueAssumption ==
    /\ capacity_ \in Nat /\ Calls \in Nat
    /\ OpsOf \in [Threads -> SUBSET Ops]

VARIABLES
    tasks_,     \* the deque; a task is <<who pushed it, which call, how>>
    pc,         \* pc[t]: idle, entered, waiting, woken or expired
    op,         \* op[t]: the operation t is in
    calls,      \* calls[t]: calls t has begun
    out,        \* history: the tasks taken out, in the order they were taken
    cleared     \* history: Clear ran and nobody has notified cv_full_ since

vars == <<tasks_, pc, op, calls, out, cleared>>

Task == Threads \X (1 .. Calls) \X PushOps

Init ==
    /\ tasks_ = <<>>
    /\ pc = [t \in Threads |-> "idle"]
    /\ op = [t \in Threads |-> "Enqueue"]
    /\ calls = [t \in Threads |-> 0]
    /\ out = <<>>
    /\ cleared = FALSE

\* Faulty variant of HasRoom: <= where the code has <.
HasRoomOrFull == Len(tasks_) <= capacity_

HasRoom == Len(tasks_) < capacity_
HasTask == tasks_ # <<>>

OnFull(t) == pc[t] = "waiting" /\ op[t] \in (PushOps \ {"ForceEnqueue"}) \cup {"Full"}
OnEmpty(t) == pc[t] = "waiting" /\ op[t] \in PopOps

\* Thread t is in operation o and holds the mutex.
In(t, o) == op[t] = o /\ pc[t] \in {"entered", "woken", "expired"}

\* t returns, after notify_all on the condition variable those in W wait for.
ReturnNotifying(t, W) ==
    pc' = [u \in Threads |-> IF u = t THEN "idle" ELSE IF u \in W THEN "woken" ELSE pc[u]]

Return(t) == pc' = [pc EXCEPT ![t] = "idle"]

Call(t, o) ==
    /\ pc[t] = "idle" /\ calls[t] < Calls
    /\ pc' = [pc EXCEPT ![t] = "entered"]
    /\ op' = [op EXCEPT ![t] = o]
    /\ calls' = [calls EXCEPT ![t] = @ + 1]
    /\ UNCHANGED <<tasks_, out, cleared>>

-----------------------------------------------------------------------------
\* The predicate of wait or wait_for is false and the time is not up.
Wait(t) ==
    /\ \/ op[t] \in PushOps \ {"ForceEnqueue"} /\ pc[t] \in {"entered", "woken"} /\ ~HasRoom
       \/ op[t] \in PopOps /\ pc[t] \in {"entered", "woken"} /\ ~HasTask
       \/ op[t] = "Full" /\ pc[t] = "entered" /\ ~HasRoom
    /\ pc' = [pc EXCEPT ![t] = "waiting"]
    /\ UNCHANGED <<tasks_, op, calls, out, cleared>>

SpuriousWakeup(t) ==
    /\ pc[t] = "waiting"
    /\ pc' = [pc EXCEPT ![t] = "woken"]
    /\ UNCHANGED <<tasks_, op, calls, out, cleared>>

Timeout(t) ==
    /\ pc[t] = "waiting" /\ op[t] \in TimedOps
    /\ pc' = [pc EXCEPT ![t] = "expired"]
    /\ UNCHANGED <<tasks_, op, calls, out, cleared>>

\* The lines every push ends with: emplace and notify_all on cv_empty_.
Push(t, tasks) ==
    /\ tasks_' = tasks
    /\ ReturnNotifying(t, {u \in Threads : OnEmpty(u)})
    /\ UNCHANGED <<op, calls, out, cleared>>

TaskOf(t) == <<t, calls[t], op[t]>>

Enqueue(t) ==
    /\ In(t, "Enqueue") /\ HasRoom
    /\ Push(t, Append(tasks_, TaskOf(t)))

EnqueueFront(t) ==
    /\ In(t, "EnqueueFront") /\ HasRoom
    /\ Push(t, <<TaskOf(t)>> \o tasks_)

ForceEnqueue(t) ==
    /\ In(t, "ForceEnqueue")
    /\ Push(t, Append(tasks_, TaskOf(t)))

TryEnqueue(t) ==
    /\ In(t, "TryEnqueue") /\ HasRoom
    /\ Push(t, Append(tasks_, TaskOf(t)))

\* Faulty variant of Pop: notifies the wrong condition variable.
PopWrongCv(t) ==
    /\ HasTask
    /\ tasks_' = Tail(tasks_)
    /\ out' = Append(out, Head(tasks_))
    /\ ReturnNotifying(t, {u \in Threads : OnEmpty(u)})
    /\ cleared' = FALSE
    /\ UNCHANGED <<op, calls>>

\* What Dequeue and TryDequeue end with: pop_front and notify_all on cv_full_.
Pop(t) ==
    /\ HasTask
    /\ tasks_' = Tail(tasks_)
    /\ out' = Append(out, Head(tasks_))
    /\ ReturnNotifying(t, {u \in Threads : OnFull(u)})
    /\ cleared' = FALSE
    /\ UNCHANGED <<op, calls>>

Dequeue(t) == In(t, "Dequeue") /\ Pop(t)

TryDequeue(t) == In(t, "TryDequeue") /\ Pop(t)

\* Faulty variant of GiveUp: the wait begins anew, with the whole time.
WaitAnew(t) ==
    /\ pc[t] = "expired"
    /\ \/ op[t] = "TryEnqueue" /\ ~HasRoom
       \/ op[t] = "TryDequeue" /\ ~HasTask
    /\ pc' = [pc EXCEPT ![t] = "waiting"]
    /\ UNCHANGED <<tasks_, op, calls, out, cleared>>

\* TryEnqueue and TryDequeue return false: the time is up and the predicate, which
\* wait_for evaluates once more under the mutex, still does not hold.
GiveUp(t) ==
    /\ pc[t] = "expired"
    /\ \/ op[t] = "TryEnqueue" /\ ~HasRoom
       \/ op[t] = "TryDequeue" /\ ~HasTask
    /\ Return(t)
    /\ UNCHANGED <<tasks_, op, calls, out, cleared>>

\* Full waits once, without a predicate, and reports what it then finds.
Full(t) ==
    /\ op[t] = "Full"
    /\ \/ pc[t] = "entered" /\ HasRoom
       \/ pc[t] \in {"woken", "expired"}
    /\ Return(t)
    /\ UNCHANGED <<tasks_, op, calls, out, cleared>>

\* Clear notifies nobody, not even those who wait for room.
Clear(t) ==
    /\ In(t, "Clear")
    /\ tasks_' = <<>>
    /\ cleared' = TRUE
    /\ Return(t)
    /\ UNCHANGED <<op, calls, out>>

\* What a thread inside an operation does once it has the mutex.
Step(t) ==
    \/ Wait(t)
    \/ Enqueue(t) \/ EnqueueFront(t) \/ ForceEnqueue(t) \/ TryEnqueue(t)
    \/ Dequeue(t) \/ TryDequeue(t)
    \/ GiveUp(t) \/ Full(t) \/ Clear(t)

Next ==
    \E t \in Threads :
        \/ \E o \in OpsOf[t] : Call(t, o)
        \/ SpuriousWakeup(t) \/ Timeout(t)
        \/ Step(t)

Spec == Init /\ [][Next]_vars

\* Threads keep calling, a thread that wants the mutex gets it, and time passes:
\* wait_for's deadline is absolute, so it also passes for a thread that spurious
\* wakeups make wait again and again.  Nothing is assumed of spurious wakeups.
FairSpec ==
    /\ Spec
    /\ \A t \in Threads :
        /\ WF_vars(\E o \in OpsOf[t] : Call(t, o))
        /\ WF_vars(Step(t))
        /\ SF_vars(Timeout(t))

-----------------------------------------------------------------------------
\* One type invariant for the module.
TypeOK ==
    /\ tasks_ \in Seq(Task) /\ out \in Seq(Task)
    /\ pc \in [Threads -> {"idle", "entered", "waiting", "woken", "expired"}]
    /\ op \in [Threads -> Ops]
    /\ calls \in [Threads -> 0 .. Calls]
    /\ cleared \in BOOLEAN

\* No wakeup is lost on cv_empty_: nobody waits for a task while there is one,
\* however pushes, timeouts and spurious wakeups interleave.
EmptyWaitersJustified == \A t \in Threads : OnEmpty(t) => tasks_ = <<>>

\* No wakeup is lost on cv_full_: nobody waits for room while there is room,
\* except after Clear, which makes room and notifies nobody.
FullWaitersJustified ==
    \A t \in Threads : OnFull(t) => cleared \/ Len(tasks_) >= capacity_

\* No wakeup is lost on either condition variable.
WaitersJustified == EmptyWaitersJustified /\ FullWaitersJustified

\* Where s holds the tasks that ForceEnqueue put there.
Forced(s) == {i \in DOMAIN s : s[i][3] = "ForceEnqueue"}

\* Only ForceEnqueue exceeds the capacity, and only by what it put there.
CapacityRespected == Len(tasks_) <= capacity_ + Cardinality(Forced(tasks_))

\* Each task leaves at most once and not while it is still queued, and the tasks
\* one thread has put at the back leave in the order it put them there.
OutOnceInOrder ==
    LET all == out \o tasks_ IN
    \A i, j \in 1 .. Len(all) :
        i < j /\ all[i][1] = all[j][1] =>
            /\ all[i][2] # all[j][2]
            /\ "EnqueueFront" \notin {all[i][3], all[j][3]} => all[i][2] < all[j][2]

\* The deque holds what it should: no more than capacity_ but for forced tasks,
\* and every task leaves once, in the order its end of the deque asks for.
TasksKept == TypeOK /\ CapacityRespected /\ OutOnceInOrder

\* Nobody is stranded: in the end every call has returned, except that a Dequeue
\* may be left over an empty queue and an Enqueue or EnqueueFront over a full one
\* (or one that Clear emptied without a notification).  So when as many tasks are
\* dequeued as are enqueued all calls return, whoever had to wait for whom.
CallsReturnOrAreBlocked ==
    <>[](\A t \in Threads :
            \/ pc[t] = "idle" /\ (calls[t] = Calls \/ OpsOf[t] = {})
            \/ pc[t] # "idle" /\ op[t] = "Dequeue" /\ tasks_ = <<>>
            \/ pc[t] # "idle" /\ op[t] \in {"Enqueue", "EnqueueFront"} /\ (cleared \/ ~HasRoom))
=============================================================================
