--------------------------- MODULE Reactor_proofs ---------------------------
(***************************************************************************)
(* Handler::Write always finds a response and the loop's lookups succeed,  *)
(* for any clients and workers, pipelined requests, disconnections and     *)
(* errors.                                                                 *)
(***************************************************************************)
EXTENDS Reactor, FiniteSetTheorems, TLAPS

PCs == {"idle", "next", "accept", "dispatch", "clear", "read", "push", "run", "write", "setread",
        "lock", "drain", "setwrite", "mask", "ctl", "load", "store", "map", "unlock"}
\* The control states between the lock_guard of the task and its end.
Critical == {"drain", "setwrite", "mask", "ctl", "load", "store", "map", "unlock"}
LoopOnly == {"next", "accept", "dispatch", "clear", "read", "push", "run", "write", "setread"}
WorkerOnly == {"idle", "lock", "drain", "setwrite", "unlock"}

Masks == {"none", "hup", "in", "out"}
Fd == Fds \cup {Listen}

\* The types of what the argument is about.
ThreadT == [pc : PCs, h : Clients \cup {None}, mask : Masks, tmp : Int]
HandlerT == [type : {"kRead", "kWrite", "kError"}, registered : BOOLEAN, fd : Fds \cup {None},
             reqs : Nat, resps : Int, mutex : Workers \cup {None}]
KernelT == [backlog : Seq(Clients), owner : [Fds -> Clients \cup {None}],
            mask : [Fds -> Masks], rdy : SUBSET Fd]

StateOK ==
    /\ thr \in [Threads -> ThreadT]
    /\ handler \in [Clients -> HandlerT]
    /\ k \in KernelT
    /\ tasks \in Seq(Clients)
    /\ fdToHandler \in [Fds -> Clients \cup {None}]
    /\ count \in Int
    /\ \A e \in batch : e.fd \in Fd

\* Every handler in use has a descriptor; each thread is where its kind can be.
Opened(c) == c \in Clients /\ handler[c].fd \in Fds
ControlOK ==
    /\ \A i \in DOMAIN tasks : Opened(tasks[i])
    /\ \A f \in Fds : fdToHandler[f] # None => Opened(fdToHandler[f])
    /\ thr[Loop].pc \notin WorkerOnly
    /\ \A w \in Workers : thr[w].pc \notin LoopOnly
    /\ \A t \in Threads : thr[t].pc \notin {"idle", "next", "accept"} => Opened(thr[t].h)

\* A worker in the task's critical section holds the handler's mutex.
MutexHeld == \A w \in Workers : thr[w].pc \in Critical => handler[thr[w].h].mutex = w

LoopIn(c, pc) == thr[Loop].pc = pc /\ thr[Loop].h = c
Flag(b) == IF b THEN 1 ELSE 0

\* Callbacks of handler c still to come: tasks queued, tasks running that have
\* not drained request_q_ yet, and the task the loop is about to queue.
Queued(c) == {i \in DOMAIN tasks : tasks[i] = c}
Running(c) == {w \in Workers : thr[w].pc \in {"lock", "drain"} /\ thr[w].h = c}
ToCome(c) == Cardinality(Queued(c)) + Cardinality(Running(c)) + Flag(LoopIn(c, "run"))

\* Writes owed to callbacks of tasks that have drained: a worker about to set
\* kWrite, and kWrite itself until the loop has entered and left Write.
Drained(c) == \E w \in Workers : thr[w].pc = "setwrite" /\ thr[w].h = c
WriteDue(c) == LoopIn(c, "write") \/ (handler[c].type = "kWrite" /\ ~LoopIn(c, "setread"))
Owed(c) == Flag(Drained(c)) + Flag(WriteDue(c))

\* The writes to come never exceed the requests and responses there are; those
\* of drained tasks never exceed the responses.
Covered(c) == /\ ToCome(c) + Owed(c) <= handler[c].reqs + handler[c].resps
              /\ Owed(c) <= handler[c].resps
WritesCovered == \A c \in Clients : Covered(c)

IInv == StateOK /\ ControlOK /\ MutexHeld /\ WritesCovered
----------------------------------------------------------------------------
(* What a step does to the threads and to the handlers, field by field.    *)

\* Thread t goes to pc with handler h; nobody else moves.
Moves(t, pc, h) ==
    /\ thr' \in [Threads -> ThreadT]
    /\ thr'[t].pc = pc /\ thr'[t].h = h
    /\ \A u \in Threads \ {t} : thr'[u].pc = thr[u].pc /\ thr'[u].h = thr[u].h

\* Handler c gets these fields; no other handler changes.
Sets(c, type, fd, reqs, resps, mutex) ==
    /\ handler' \in [Clients -> HandlerT]
    /\ handler'[c].type = type /\ handler'[c].fd = fd /\ handler'[c].reqs = reqs
    /\ handler'[c].resps = resps /\ handler'[c].mutex = mutex
    /\ \A d \in Clients \ {c} : handler'[d] = handler[d]

\* The fields of a typed thread and of a typed handler.
LEMMA Fields ==
    ASSUME StateOK
    PROVE  /\ \A t \in Threads : /\ thr[t] \in ThreadT /\ thr[t].pc \in PCs
                                 /\ thr[t].h \in Clients \cup {None}
                                 /\ thr[t].mask \in Masks /\ thr[t].tmp \in Int
           /\ \A c \in Clients : /\ handler[c] \in HandlerT
                                 /\ handler[c].type \in {"kRead", "kWrite", "kError"}
                                 /\ handler[c].fd \in Fds \cup {None}
                                 /\ handler[c].reqs \in Nat /\ handler[c].resps \in Int
                                 /\ handler[c].mutex \in Workers \cup {None}
           /\ k.backlog \in Seq(Clients) /\ k.owner \in [Fds -> Clients \cup {None}]
           /\ k.mask \in [Fds -> Masks] /\ k.rdy \subseteq Fd
BY DEF StateOK, ThreadT, HandlerT, KernelT

\* The assignments to thr.
LEMMA GotoMoves ==
    ASSUME StateOK, NEW t \in Threads, NEW pc \in PCs, Goto(t, pc)
    PROVE  Moves(t, pc, thr[t].h)
BY Zenon DEF StateOK, Goto, Moves, ThreadT

\* A return drops the shared_ptr.
LEMMA ReturnMoves ==
    ASSUME StateOK, NEW t \in Threads, NEW pc \in PCs, Return(t, pc)
    PROVE  Moves(t, pc, None)
BY DEF StateOK, Return, Moves, ThreadT, Masks

\* A thread takes a handler: TakeEvent, Accept and TakeTask.
LEMMA TakeMoves ==
    ASSUME StateOK, NEW t \in Threads, NEW pc \in PCs, NEW h \in Clients \cup {None},
           thr' = [thr EXCEPT ![t].pc = pc, ![t].h = h]
                \/ thr' = [thr EXCEPT ![t].h = h, ![t].pc = pc]
    PROVE  Moves(t, pc, h)
<1> DEFINE r == [pc |-> pc, h |-> h, mask |-> thr[t].mask, tmp |-> thr[t].tmp]
<1>1. r \in ThreadT
    BY Fields DEF ThreadT
<1>2. thr' = [thr EXCEPT ![t] = r]
    BY DEF StateOK, ThreadT
<1> QED
    BY <1>1, <1>2 DEF StateOK, Moves

\* RegisterMask keeps the mask it computed.
LEMMA MaskMoves ==
    ASSUME StateOK, NEW t \in Threads, NEW pc \in PCs, NEW m \in Masks,
           thr' = [thr EXCEPT ![t].pc = pc, ![t].mask = m]
    PROVE  Moves(t, pc, thr[t].h)
BY ZenonT(40) DEF StateOK, Moves, ThreadT

\* RegisterLoad and RegisterStore keep the loaded count.
LEMMA TmpMoves ==
    ASSUME StateOK, NEW t \in Threads, NEW pc \in PCs, NEW n \in Int,
           thr' = [thr EXCEPT ![t].pc = pc, ![t].tmp = n]
    PROVE  Moves(t, pc, thr[t].h)
BY Zenon DEF StateOK, Moves, ThreadT

\* ClearEventHandler keeps the handler and the loaded count.
LEMMA ClearMoves ==
    ASSUME StateOK, NEW h \in Clients,
           thr' = [thr EXCEPT ![Loop].pc = "clear", ![Loop].h = h, ![Loop].tmp = count]
    PROVE  Moves(Loop, "clear", h)
<1> DEFINE r == [pc |-> "clear", h |-> h, mask |-> thr[Loop].mask, tmp |-> count]
<1>0. Loop \in Threads
    BY DEF Threads
<1>1. r \in ThreadT
    BY <1>0, Fields DEF ThreadT, PCs, StateOK
<1>2. thr' = [thr EXCEPT ![Loop] = r]
    <2>1. thr[Loop] \in ThreadT /\ thr \in [Threads -> ThreadT]
        BY <1>0 DEF StateOK
    <2>2. thr' = [thr EXCEPT ![Loop] =
                    [[[thr[Loop] EXCEPT !.pc = "clear"] EXCEPT !.h = h] EXCEPT !.tmp = count]]
        BY <1>0, <2>1, Zenon
    <2>3. [[[thr[Loop] EXCEPT !.pc = "clear"] EXCEPT !.h = h] EXCEPT !.tmp = count] = r
        <3> DEFINE q(p, g) == [pc |-> p, h |-> g, mask |-> thr[Loop].mask, tmp |-> thr[Loop].tmp]
        <3>1. [thr[Loop] EXCEPT !.pc = "clear"] = q("clear", thr[Loop].h)
            BY ONLY <2>1 DEF ThreadT
        <3>2. [q("clear", thr[Loop].h) EXCEPT !.h = h] = q("clear", h)
            BY ONLY TRUE
        <3>3. [q("clear", h) EXCEPT !.tmp = count] = r
            BY ONLY TRUE
        <3> HIDE DEF q, r
        <3> QED
            BY ONLY <3>1, <3>2, <3>3, Zenon
    <2> QED
        BY <2>2, <2>3, Zenon
<1>3. r.pc = "clear" /\ r.h = h
    OBVIOUS
<1> HIDE DEF r
<1> QED
    BY <1>0, <1>1, <1>2, <1>3, Zenon DEF StateOK, Moves

\* The assignments to a handler.
LEMMA TypeSets ==
    ASSUME StateOK, NEW c \in Clients, NEW type \in {"kRead", "kWrite", "kError"},
           handler' = [handler EXCEPT ![c].type = type]
    PROVE  Sets(c, type, handler[c].fd, handler[c].reqs, handler[c].resps, handler[c].mutex)
BY Zenon DEF StateOK, Sets, HandlerT

\* The constructor stores the descriptor accepted.
LEMMA FdSets ==
    ASSUME StateOK, NEW c \in Clients, NEW f \in Fds,
           handler' = [handler EXCEPT ![c].fd = f]
    PROVE  Sets(c, handler[c].type, f, handler[c].reqs, handler[c].resps, handler[c].mutex)
BY Zenon DEF StateOK, Sets, HandlerT

\* The lengths of request_q_ and response_q_.
LEMMA QueueSets ==
    ASSUME StateOK, NEW c \in Clients, NEW m \in Nat, NEW n \in Int,
           handler' = [handler EXCEPT ![c].reqs = m, ![c].resps = n]
    PROVE  Sets(c, handler[c].type, handler[c].fd, m, n, handler[c].mutex)
BY ZenonT(40) DEF StateOK, Sets, HandlerT

\* request_q_.push of Handler::Read.
LEMMA PushSets ==
    ASSUME StateOK, NEW c \in Clients, handler' = [handler EXCEPT ![c].reqs = @ + 1]
    PROVE  Sets(c, handler[c].type, handler[c].fd, handler[c].reqs + 1, handler[c].resps,
                handler[c].mutex)
<1> DEFINE m == handler[c].reqs + 1
           n == handler[c].resps
<1>1. m \in Nat /\ n \in Int
    BY Fields
<1>2. handler' = [handler EXCEPT ![c].reqs = m, ![c].resps = n]
    BY Zenon DEF StateOK, HandlerT
<1> HIDE DEF m, n
<1>3. Sets(c, handler[c].type, handler[c].fd, m, n, handler[c].mutex)
    BY <1>1, <1>2, QueueSets, Zenon
<1> QED
    BY <1>3 DEF m, n

\* response_q_.pop of Handler::Write.
LEMMA PopSets ==
    ASSUME StateOK, NEW c \in Clients, handler' = [handler EXCEPT ![c].resps = @ - 1]
    PROVE  Sets(c, handler[c].type, handler[c].fd, handler[c].reqs, handler[c].resps - 1,
                handler[c].mutex)
<1> DEFINE m == handler[c].reqs
           n == handler[c].resps - 1
<1>1. m \in Nat /\ n \in Int
    BY Fields
<1>2. handler' = [handler EXCEPT ![c].reqs = m, ![c].resps = n]
    BY Zenon DEF StateOK, HandlerT
<1> HIDE DEF m, n
<1>3. Sets(c, handler[c].type, handler[c].fd, m, n, handler[c].mutex)
    BY <1>1, <1>2, QueueSets, Zenon
<1> QED
    BY <1>3 DEF m, n

\* A processed request: request_q_.pop and response_q_.push.
LEMMA ProcessSets ==
    ASSUME StateOK, NEW c \in Clients, handler[c].reqs > 0,
           handler' = [handler EXCEPT ![c].reqs = @ - 1, ![c].resps = @ + 1]
    PROVE  Sets(c, handler[c].type, handler[c].fd, handler[c].reqs - 1, handler[c].resps + 1,
                handler[c].mutex)
BY DEF StateOK, Sets, HandlerT

\* The lock_guard of the task.
LEMMA MutexSets ==
    ASSUME StateOK, NEW c \in Clients, NEW m \in Workers \cup {None},
           handler' = [handler EXCEPT ![c].mutex = m]
    PROVE  Sets(c, handler[c].type, handler[c].fd, handler[c].reqs, handler[c].resps, m)
BY Zenon DEF StateOK, Sets, HandlerT

\* RegisterMap marks the handler registered.
LEMMA RegisteredSets ==
    ASSUME StateOK, NEW c \in Clients, handler' = [handler EXCEPT ![c].registered = TRUE]
    PROVE  Sets(c, handler[c].type, handler[c].fd, handler[c].reqs, handler[c].resps,
                handler[c].mutex)
BY ZenonT(40) DEF StateOK, Sets, HandlerT

\* The system calls keep the kernel's type.
LEMMA CloseKeeps ==
    ASSUME NEW fs, NEW kern \in KernelT
    PROVE  Close(kern, fs) \in KernelT
BY Zenon DEF Close, KernelT, Masks

\* epoll_ctl on an open descriptor.
LEMMA CtlKeeps ==
    ASSUME StateOK, NEW f \in Fds, NEW m \in Masks
    PROVE  Ctl(f, m) \in KernelT
BY Zenon DEF StateOK, Ctl, KernelT, Fd

\* A socket event enters the ready list.
LEMMA WakeKeeps ==
    ASSUME StateOK, NEW c \in Clients, NEW b \in BOOLEAN, Wake(c, b)
    PROVE  k' \in KernelT
BY Zenon DEF StateOK, Wake, KernelT, Fd

\* A connection enters the backlog.
LEMMA ConnectKeeps ==
    ASSUME StateOK, NEW c \in Clients, Connect(c)
    PROVE  k' \in KernelT
<1> DEFINE b == Append(k.backlog, c)
           r == k.rdy \cup {Listen}
<1>1. b \in Seq(Clients) /\ r \subseteq Fd
    BY Fields DEF Fd
<1>2. k' = [k EXCEPT !.backlog = b, !.rdy = r]
    BY DEF Connect
<1> HIDE DEF b, r
<1> QED
    BY <1>1, <1>2, Zenon DEF StateOK, KernelT

\* accept takes a connection from the backlog.
LEMMA AcceptKeeps ==
    ASSUME StateOK, NEW f \in Fds, k.backlog # <<>>,
           k' = [k EXCEPT !.backlog = Tail(@), !.owner[f] = Head(k.backlog)]
    PROVE  k' \in KernelT
<1> DEFINE b == Tail(k.backlog)
           o == [k.owner EXCEPT ![f] = Head(k.backlog)]
<1>1. b \in Seq(Clients) /\ o \in [Fds -> Clients \cup {None}]
    BY Fields
<1>2. k' = [k EXCEPT !.backlog = b, !.owner = o]
    OBVIOUS
<1> HIDE DEF b, o
<1> QED
    BY <1>1, <1>2, Zenon DEF StateOK, KernelT

\* epoll_wait takes descriptors from the ready list.
LEMMA WaitKeeps ==
    ASSUME StateOK, NEW got, k' = [k EXCEPT !.rdy = @ \ got]
    PROVE  k' \in KernelT
BY Zenon DEF StateOK, KernelT
----------------------------------------------------------------------------
(* Parts of the invariant, from what a step does field by field.           *)

\* The sets that ToCome counts are finite.
LEMMA Counts ==
    ASSUME StateOK, NEW c \in Clients
    PROVE  /\ IsFiniteSet(Queued(c)) /\ Cardinality(Queued(c)) \in Nat
           /\ IsFiniteSet(Running(c)) /\ Cardinality(Running(c)) \in Nat
<1>1. IsFiniteSet(DOMAIN tasks)
    <2>1. DOMAIN tasks = 1 .. Len(tasks) /\ Len(tasks) \in Nat
        BY DEF StateOK
    <2> QED
        BY <2>1, FS_Interval
<1>2. IsFiniteSet(Queued(c))
    BY <1>1, FS_Subset DEF Queued
<1>3. IsFiniteSet(Running(c))
    BY ReactorAssumption, FS_Subset DEF Running
<1> QED
    BY <1>2, <1>3, FS_CardinalityType

\* Handlers in use stay open.
LEMMA ControlMove ==
    ASSUME ControlOK, NEW t \in Threads, NEW pc, NEW h, Moves(t, pc, h),
           \A c \in Clients : handler[c].fd \in Fds => handler'[c].fd \in Fds,
           \A i \in DOMAIN tasks' : Opened(tasks'[i]),
           \A f \in Fds : fdToHandler'[f] # None => Opened(fdToHandler'[f]),
           t = Loop => pc \notin WorkerOnly,
           t \in Workers => pc \notin LoopOnly,
           pc \notin {"idle", "next", "accept"} => h \in Clients /\ handler'[h].fd \in Fds
    PROVE  ControlOK'
<1> USE ReactorAssumption DEF Threads
<1>1. (\A i \in DOMAIN tasks : Opened(tasks[i]))'
    BY DEF Opened
<1>2. (\A f \in Fds : fdToHandler[f] # None => Opened(fdToHandler[f]))'
    BY DEF Opened
<1>3. thr'[Loop].pc \notin WorkerOnly
    BY DEF Moves, ControlOK
<1>4. \A w \in Workers : thr'[w].pc \notin LoopOnly
    BY DEF Moves, ControlOK
<1>5. ASSUME NEW u \in Threads, thr'[u].pc \notin {"idle", "next", "accept"}
      PROVE  Opened(thr[u].h)'
    <2>1. CASE u = t
        BY <1>5, <2>1 DEF Moves, Opened
    <2>2. CASE u # t
        BY <1>5, <2>2 DEF Moves, Opened, ControlOK
    <2> QED
        BY <2>1, <2>2
<1> QED
    BY <1>1, <1>2, <1>3, <1>4, <1>5 DEF ControlOK

\* The mutex of a worker in its critical section is not touched by others.
LEMMA MutexMove ==
    ASSUME MutexHeld, NEW t \in Threads, NEW pc, NEW h, Moves(t, pc, h),
           t \in Workers /\ pc \in Critical => handler'[h].mutex = t,
           \A w \in Workers \ {t} : thr[w].pc \in Critical =>
                handler'[thr[w].h].mutex = handler[thr[w].h].mutex
    PROVE  MutexHeld'
BY DEF MutexHeld, Moves, Threads

\* Two workers are not in the critical section of one handler.
LEMMA Exclusion ==
    ASSUME MutexHeld, NEW w \in Workers, NEW v \in Workers,
           thr[w].pc \in Critical, thr[v].pc \in Critical, thr[v].h = thr[w].h
    PROVE  v = w
BY DEF MutexHeld

\* Nothing that is counted grows.
LEMMA Quiet ==
    ASSUME StateOK, WritesCovered, NEW c \in Clients, tasks' = tasks,
           Running(c)' = Running(c), LoopIn(c, "run")' => LoopIn(c, "run"),
           Drained(c)' => Drained(c), WriteDue(c)' => WriteDue(c),
           handler'[c].reqs = handler[c].reqs, handler'[c].resps = handler[c].resps
    PROVE  Covered(c)'
<1>1. Queued(c)' = Queued(c)
    BY DEF Queued
<1>2. Flag(LoopIn(c, "run"))' <= Flag(LoopIn(c, "run")) /\ Owed(c)' <= Owed(c)
    BY DEF Flag, Owed
<1>3. /\ Flag(LoopIn(c, "run")) \in Nat /\ Flag(LoopIn(c, "run"))' \in Nat
      /\ Owed(c) \in Nat /\ Owed(c)' \in Nat
    BY DEF Flag, Owed
<1>4. Covered(c)
    BY DEF WritesCovered
<1> QED
    BY <1>1, <1>2, <1>3, <1>4, Counts, Fields, SMTT(30) DEF Covered, ToCome

Special == {"lock", "drain", "setwrite", "run", "write", "setread"}

\* A thread moves between control states that are not counted.
LEMMA QuietMove ==
    ASSUME StateOK, WritesCovered, NEW t \in Threads, NEW pc, NEW h, Moves(t, pc, h),
           tasks' = tasks, thr[t].pc \notin Special, pc \notin Special,
           \A c \in Clients : /\ handler'[c].reqs = handler[c].reqs
                             /\ handler'[c].resps = handler[c].resps
                             /\ (handler'[c].type = "kWrite" => handler[c].type = "kWrite")
    PROVE  WritesCovered'
<1> SUFFICES ASSUME NEW c \in Clients PROVE Covered(c)'
    BY DEF WritesCovered
<1>1. Running(c)' = Running(c)
    BY DEF Running, Moves, Special, Threads
<1>2. /\ LoopIn(c, "run")' <=> LoopIn(c, "run")
      /\ LoopIn(c, "write")' <=> LoopIn(c, "write")
      /\ LoopIn(c, "setread")' <=> LoopIn(c, "setread")
    BY DEF LoopIn, Moves, Special, Threads
<1>3. Drained(c)' => Drained(c)
    BY DEF Drained, Moves, Special, Threads
<1>4. WriteDue(c)' => WriteDue(c)
    BY <1>2 DEF WriteDue
<1> QED
    BY <1>1, <1>2, <1>3, <1>4, Quiet
----------------------------------------------------------------------------
(* The steps of each actor.                                                *)

\* Steps that leave threads, handlers and tasks alone: the clients, epoll_wait
\* and a failing CHECK.
LEMMA SameKeeps ==
    ASSUME IInv, UNCHANGED <<handler, fdToHandler, count, tasks, thr>>, k' \in KernelT,
           \A e \in batch' : e.fd \in Fd
    PROVE  IInv'
<1>1. StateOK'
    BY DEF IInv, StateOK
<1>2. ControlOK' /\ MutexHeld'
    BY DEF IInv, ControlOK, Opened, MutexHeld
<1>3. ASSUME NEW c \in Clients PROVE Covered(c)'
    <2>1. Running(c)' = Running(c) /\ (LoopIn(c, "run")' <=> LoopIn(c, "run"))
        BY DEF Running, LoopIn
    <2>2. (Drained(c)' <=> Drained(c)) /\ (WriteDue(c)' <=> WriteDue(c))
        BY DEF Drained, WriteDue, LoopIn
    <2> QED
        BY <2>1, <2>2, Quiet DEF IInv
<1> QED
    BY <1>1, <1>2, <1>3 DEF IInv, WritesCovered

\* A failing CHECK changes nothing the invariant speaks of.
LEMMA AbortKeeps == ASSUME IInv, NEW check, Abort(check) PROVE IInv'
BY SameKeeps DEF Abort, IInv, StateOK

\* The clients only change their connections and the kernel.
LEMMA ClientKeeps == ASSUME IInv, ClientStep PROVE IInv'
<1>1. UNCHANGED <<handler, fdToHandler, count, tasks, thr, batch>>
    BY Zenon DEF ClientStep, Connect, Send, Disconnect, ClientUnchanged
<1>2. k' \in KernelT
    BY ConnectKeeps, WakeKeeps, Zenon DEF ClientStep, Send, Disconnect, IInv
<1> QED
    BY <1>1, <1>2, SameKeeps DEF IInv, StateOK

\* epoll_wait reports descriptors of the ready list.
LEMMA EpollWaitKeeps == ASSUME IInv, EpollWait PROVE IInv'
<1>1. CASE count <= 0
    BY <1>1, AbortKeeps DEF EpollWait
<1>2. CASE ~(count <= 0)
    <2> DEFINE Event(f) == [fd |-> f, rdhup |-> f # Listen /\ conn[k.owner[f]].fin,
                            err |-> f # Listen /\ conn[k.owner[f]].err]
    <2>1. PICK got \in SUBSET k.rdy : /\ batch' = {Event(f) : f \in got}
                                     /\ k' = [k EXCEPT !.rdy = @ \ got]
                                     /\ UNCHANGED <<handler, fdToHandler, count, tasks, thr>>
        BY <1>2, ZenonT(40) DEF EpollWait
    <2>2. \A e \in batch' : e.fd \in Fd
        BY <2>1, Fields DEF IInv
    <2> QED
        BY <2>1, <2>2, SameKeeps, WaitKeeps, Zenon DEF IInv
<1> QED
    BY <1>1, <1>2

\* The first four steps of the registration move the thread and, at most, the
\* kernel and the count.
LEMMA RegisterMoveKeeps ==
    ASSUME IInv, NEW t \in Threads, NEW pc \in {"ctl", "load", "store", "map", "unlock"},
           Moves(t, pc, thr[t].h), thr[t].pc \in {"mask", "ctl", "load", "store"},
           pc = "unlock" => t # Loop, UNCHANGED <<handler, fdToHandler, tasks, batch>>,
           k' \in KernelT, count' \in Int
    PROVE  IInv'
<1>0. t \in Workers => t # Loop
    BY ReactorAssumption
<1>1. StateOK'
    BY SMTT(30) DEF IInv, StateOK, Moves
<1>2. ControlOK'
    <2>1. Opened(thr[t].h)
        BY DEF IInv, ControlOK
    <2> QED
        BY <1>0, <2>1, ControlMove DEF IInv, ControlOK, Opened, WorkerOnly, LoopOnly
<1>3. MutexHeld'
    <2>1. t \in Workers => handler[thr[t].h].mutex = t
        BY DEF IInv, MutexHeld, Critical
    <2> QED
        BY <2>1, MutexMove DEF IInv
<1>4. WritesCovered'
    BY QuietMove DEF IInv, Special
<1> QED
    BY <1>1, <1>2, <1>3, <1>4 DEF IInv

\* RegisterEventHandler, by the loop or by a worker, keeps the invariant.
LEMMA RegisterKeeps ==
    ASSUME IInv, NEW t \in Threads, RegisterEventHandler(t) PROVE IInv'
<1>0. StateOK
    BY DEF IInv
<1>1. CASE RegisterMask(t)
    <2> DEFINE m == CASE handler[thr[t].h].type = "kRead"  -> "in"
                      [] handler[thr[t].h].type = "kWrite" -> "out"
                      [] OTHER -> "hup"
    <2>1. m \in Masks
        BY DEF Masks
    <2>2. thr' = [thr EXCEPT ![t].pc = "ctl", ![t].mask = m]
        BY <1>1 DEF RegisterMask
    <2> HIDE DEF m
    <2>3. Moves(t, "ctl", thr[t].h)
        BY <1>0, <2>1, <2>2, MaskMoves, Zenon DEF PCs
    <2> QED
        BY <1>0, <1>1, <2>3, RegisterMoveKeeps DEF RegisterMask, At, StateOK
<1>2. CASE RegisterCtl(t)
    <2> DEFINE h == thr[t].h
               ok == CtlOk(IF handler[h].registered THEN "MOD" ELSE "ADD", handler[h].fd)
    <2>1. CASE ~ok /\ t = Loop
        BY <1>2, <2>1, AbortKeeps DEF RegisterCtl
    <2>2. CASE ~(~ok /\ t = Loop)
        <3>1. thr[t].pc = "ctl" /\ UNCHANGED <<handler, fdToHandler, count, tasks, batch>>
            BY <1>2, <2>2 DEF RegisterCtl, At
        <3>2. handler[h].fd \in Fds /\ thr[t].mask \in Masks
            BY <1>0, <3>1, Fields DEF IInv, ControlOK, Opened
        <3>3. CASE ok
            <4>1. k' = Ctl(handler[h].fd, thr[t].mask) /\ Goto(t, "load")
                BY <1>2, <2>2, <3>3 DEF RegisterCtl
            <4>2. Moves(t, "load", h) /\ k' \in KernelT
                BY <1>0, <3>2, <4>1, GotoMoves, CtlKeeps DEF PCs
            <4> QED
                BY <1>0, <3>1, <4>2, RegisterMoveKeeps DEF StateOK
        <3>4. CASE ~ok
            <4>1. k' = k /\ Goto(t, "unlock") /\ t # Loop
                BY <1>2, <2>2, <3>4 DEF RegisterCtl
            <4>2. Moves(t, "unlock", h)
                BY <1>0, <4>1, GotoMoves DEF PCs
            <4> QED
                BY <1>0, <3>1, <4>1, <4>2, RegisterMoveKeeps DEF StateOK
        <3> QED
            BY <3>3, <3>4
    <2> QED
        BY <2>1, <2>2
<1>3. CASE RegisterLoad(t)
    <2>1. Moves(t, "store", thr[t].h)
        BY <1>0, <1>3, TmpMoves, Zenon DEF RegisterLoad, StateOK, PCs
    <2> QED
        BY <1>0, <1>3, <2>1, RegisterMoveKeeps DEF RegisterLoad, At, StateOK
<1>4. CASE RegisterStore(t)
    <2>1. Moves(t, "map", thr[t].h)
        <3>1. thr' = [thr EXCEPT ![t].pc = "map", ![t].tmp = 0] /\ 0 \in Int /\ "map" \in PCs
            BY <1>4 DEF RegisterStore, PCs
        <3> QED
            BY <1>0, <3>1, TmpMoves, ZenonT(40)
    <2>2. thr[t].tmp \in Int /\ count' = thr[t].tmp + 1
        BY <1>0, <1>4, Fields DEF RegisterStore
    <2>3. count' \in Int
        BY <2>2
    <2> QED
        BY <1>0, <1>4, <2>1, <2>3, RegisterMoveKeeps DEF RegisterStore, At, StateOK
<1>5. CASE RegisterMap(t)
    <2> DEFINE h == thr[t].h
    <2>1. /\ thr[t].pc = "map" /\ UNCHANGED <<count, tasks, batch>> /\ DtorsRun(k)
          /\ handler' = [handler EXCEPT ![h].registered = TRUE]
          /\ fdToHandler' = [fdToHandler EXCEPT ![handler[h].fd] = h]
          /\ IF t = Loop THEN Return(t, "next") ELSE Goto(t, "unlock")
        BY <1>5 DEF RegisterMap, At
    <2>2. h \in Clients /\ handler[h].fd \in Fds
        BY <2>1 DEF IInv, ControlOK, Opened
    <2>3. Sets(h, handler[h].type, handler[h].fd, handler[h].reqs, handler[h].resps,
               handler[h].mutex)
        BY <1>0, <2>1, <2>2, RegisteredSets, ZenonT(40)
    <2>4. \A c \in Clients :
            /\ handler'[c].type = handler[c].type /\ handler'[c].fd = handler[c].fd
            /\ handler'[c].reqs = handler[c].reqs /\ handler'[c].resps = handler[c].resps
            /\ handler'[c].mutex = handler[c].mutex
        BY <2>3 DEF Sets
    <2>5. k' \in KernelT
        BY <1>0, <2>1, CloseKeeps DEF DtorsRun, StateOK
    <2>6. fdToHandler' \in [Fds -> Clients \cup {None}]
        BY <1>0, <2>1, <2>2 DEF StateOK
    <2>7. \A f \in Fds : fdToHandler'[f] # None => Opened(fdToHandler'[f])
        BY <1>0, <2>1, <2>2 DEF StateOK, IInv, ControlOK, Opened
    <2>8. \A i \in DOMAIN tasks' : Opened(tasks'[i])
        BY <2>1 DEF IInv, ControlOK
    <2>9. PICK pc \in {"next", "unlock"}, g \in {h, None} :
            Moves(t, pc, g) /\ (pc = "unlock" => g = h /\ t # Loop) /\ (pc = "next" => t = Loop)
        BY <1>0, <2>1, GotoMoves, ReturnMoves DEF PCs
    <2>10. StateOK'
        BY <1>0, <2>1, <2>3, <2>5, <2>6, <2>9 DEF StateOK, Moves, Sets
    <2>11. ControlOK'
        <3>1. t \in Workers => t # Loop
            BY ReactorAssumption
        <3> QED
            BY <2>2, <2>4, <2>7, <2>8, <2>9, <3>1, ControlMove DEF IInv, WorkerOnly, LoopOnly
    <2>12. MutexHeld'
        <3>1. t \in Workers => handler[h].mutex = t
            BY <2>1 DEF IInv, MutexHeld, Critical
        <3>2. \A w \in Workers : thr[w].pc \in Critical => thr[w].h \in Clients
            BY DEF IInv, ControlOK, Opened, Critical, Threads
        <3>3. pc \in Critical => g = h
            BY <2>9, SMTT(30) DEF Critical
        <3> QED
            BY <2>2, <2>4, <2>9, <3>1, <3>2, <3>3, MutexMove DEF IInv
    <2>13. WritesCovered'
        BY <2>1, <2>4, <2>9, QuietMove DEF IInv, Special
    <2> QED
        BY <2>10, <2>11, <2>12, <2>13 DEF IInv
<1> QED
    BY <1>1, <1>2, <1>3, <1>4, <1>5 DEF RegisterEventHandler

\* A step of the loop that leaves the mutexes alone.
LEMMA LoopShape ==
    ASSUME IInv, NEW pc, NEW h, Moves(Loop, pc, h), pc \notin WorkerOnly,
           pc \notin {"next", "accept"} => h \in Clients /\ handler'[h].fd \in Fds,
           handler' \in [Clients -> HandlerT], k' \in KernelT, count' \in Int,
           \A c \in Clients : /\ handler'[c].mutex = handler[c].mutex
                             /\ (handler[c].fd \in Fds => handler'[c].fd \in Fds),
           tasks' \in Seq(Clients), \A i \in DOMAIN tasks' : Opened(tasks'[i]),
           fdToHandler' \in [Fds -> Clients \cup {None}],
           \A f \in Fds : fdToHandler'[f] # None => Opened(fdToHandler'[f]),
           \A e \in batch' : e.fd \in Fd
    PROVE  StateOK' /\ ControlOK' /\ MutexHeld'
<1>1. Loop \in Threads /\ Loop \notin Workers
    BY ReactorAssumption DEF Threads
<1>2. StateOK'
    BY DEF StateOK, Moves
<1>3. ControlOK'
    BY <1>1, ControlMove DEF IInv
<1>4. MutexHeld'
    <2>1. \A w \in Workers : thr[w].pc \in Critical => thr[w].h \in Clients
        BY DEF IInv, ControlOK, Opened, Critical, Threads
    <2> QED
        BY <1>1, <2>1, MutexMove DEF IInv
<1> QED
    BY <1>2, <1>3, <1>4

\* The map, the tasks and the batch as they were.
LEMMA Unchanged ==
    ASSUME IInv
    PROVE  /\ tasks' = tasks => tasks' \in Seq(Clients) /\ \A i \in DOMAIN tasks' : Opened(tasks'[i])
           /\ fdToHandler' = fdToHandler =>
                /\ fdToHandler' \in [Fds -> Clients \cup {None}]
                /\ \A f \in Fds : fdToHandler'[f] # None => Opened(fdToHandler'[f])
           /\ batch' \subseteq batch => \A e \in batch' : e.fd \in Fd
           /\ k' = k => k' \in KernelT
           /\ count' = count => count' \in Int
           /\ handler' = handler => handler' \in [Clients -> HandlerT]
BY DEF IInv, StateOK, ControlOK

\* An error or a closed peer: the handler leaves the map.
LEMMA ClearKeeps ==
    ASSUME IInv, thr[Loop].pc \in {"next", "dispatch"}, NEW h \in Clients, handler[h].fd \in Fds,
           NEW rest \in SUBSET batch, NEW handlers,
           handlers = handler \/ handlers = [handler EXCEPT ![h].type = "kError"],
           ClearEventHandler(h, rest, handlers)
    PROVE  IInv'
<1>0. StateOK /\ Loop \in Threads
    BY DEF IInv, Threads
<1>1. CASE ~CtlOk("DEL", handler[h].fd)
    BY <1>1, AbortKeeps DEF ClearEventHandler
<1>2. CASE CtlOk("DEL", handler[h].fd)
    <2>1. /\ batch' = rest /\ handler' = handlers /\ count' = count /\ tasks' = tasks
          /\ fdToHandler' = [fdToHandler EXCEPT ![handler[h].fd] = None]
          /\ thr' = [thr EXCEPT ![Loop].pc = "clear", ![Loop].h = h, ![Loop].tmp = count]
          /\ DtorsRun(Ctl(handler[h].fd, "none"))
        BY <1>2 DEF ClearEventHandler
    <2>2. Moves(Loop, "clear", h)
        BY <1>0, <2>1, ClearMoves, Zenon
    <2>3. handler' \in [Clients -> HandlerT]
        BY <1>0, <2>1, TypeSets DEF StateOK, Sets
    <2>4. \A c \in Clients :
            /\ handler'[c].fd = handler[c].fd /\ handler'[c].mutex = handler[c].mutex
            /\ handler'[c].reqs = handler[c].reqs /\ handler'[c].resps = handler[c].resps
            /\ (handler'[c].type = "kWrite" => handler[c].type = "kWrite")
        BY <1>0, <2>1, TypeSets DEF Sets
    <2>5. k' \in KernelT
        <3>1. Ctl(handler[h].fd, "none") \in KernelT
            BY <1>0, CtlKeeps DEF Masks
        <3> QED
            BY <2>1, <3>1, CloseKeeps, Zenon DEF DtorsRun
    <2>6. /\ fdToHandler' \in [Fds -> Clients \cup {None}]
          /\ \A f \in Fds : fdToHandler'[f] # None => Opened(fdToHandler'[f])
        BY <2>1 DEF IInv, StateOK, ControlOK
    <2>7. count' \in Int
        BY <1>0, <2>1 DEF StateOK
    <2>8. StateOK' /\ ControlOK' /\ MutexHeld'
        BY <2>1, <2>2, <2>3, <2>4, <2>5, <2>6, <2>7, LoopShape, Unchanged DEF WorkerOnly
    <2>9. WritesCovered'
        BY <1>0, <2>1, <2>2, <2>4, QuietMove DEF IInv, Special
    <2> QED
        BY <2>8, <2>9 DEF IInv
<1> QED
    BY <1>1, <1>2

\* The rest of ClearEventHandler: the count is stored and the descriptor closed.
LEMMA ClearStoreKeeps == ASSUME IInv, ClearStore PROVE IInv'
<1>0. StateOK /\ Loop \in Threads
    BY DEF IInv, Threads
<1>1. thr[Loop].pc = "clear"
    BY DEF ClearStore, At
<1>2. /\ count' = thr[Loop].tmp - 1 /\ Return(Loop, "next")
      /\ UNCHANGED <<handler, fdToHandler, tasks, batch>>
      /\ DtorsRun(Close(k, {handler[thr[Loop].h].fd}))
    BY Zenon DEF ClearStore
<1>3. Moves(Loop, "next", None)
    BY <1>0, <1>2, ReturnMoves DEF PCs
<1>4. k' \in KernelT
    <2>1. Close(k, {handler[thr[Loop].h].fd}) \in KernelT
        BY <1>0, CloseKeeps, Zenon DEF StateOK
    <2> QED
        BY <1>2, <2>1, CloseKeeps, Zenon DEF DtorsRun
<1>5. count' \in Int
    BY <1>0, <1>2, Fields
<1>6. StateOK' /\ ControlOK' /\ MutexHeld'
    BY <1>2, <1>3, <1>4, <1>5, LoopShape, Unchanged DEF WorkerOnly
<1>7. WritesCovered'
    BY <1>0, <1>1, <1>2, <1>3, QuietMove DEF IInv, Special
<1> QED
    BY <1>6, <1>7 DEF IInv

\* The loop takes an event: the listening socket's, or one of a handler.
LEMMA TakeEventKeeps ==
    ASSUME IInv, thr[Loop].pc = "next", NEW h, NEW pc, NEW rest \in SUBSET batch, NEW handlers,
           \/ pc = "accept" /\ h = None /\ handlers = handler
           \/ /\ pc = "dispatch" /\ h \in Clients /\ handler[h].fd \in Fds
              /\ handlers = handler \/ handlers = [handler EXCEPT ![h].type = "kError"],
           TakeEvent(h, rest, handlers, pc)
    PROVE  IInv'
<1>0. StateOK /\ Loop \in Threads /\ pc \in {"accept", "dispatch"} /\ h \in Clients \cup {None}
    BY DEF IInv, Threads
<1>1. /\ batch' = rest /\ handler' = handlers /\ UNCHANGED <<k, count, tasks, fdToHandler>>
      /\ thr' = [thr EXCEPT ![Loop].h = h, ![Loop].pc = pc]
    BY DEF TakeEvent
<1>2. Moves(Loop, pc, h)
    BY <1>0, <1>1, TakeMoves, Zenon DEF PCs
<1>3. handler' \in [Clients -> HandlerT]
    BY <1>0, <1>1, TypeSets DEF StateOK, Sets
<1>4. \A c \in Clients :
        /\ handler'[c].fd = handler[c].fd /\ handler'[c].mutex = handler[c].mutex
        /\ handler'[c].reqs = handler[c].reqs /\ handler'[c].resps = handler[c].resps
        /\ (handler'[c].type = "kWrite" => handler[c].type = "kWrite")
    BY <1>0, <1>1, TypeSets DEF Sets
<1>5. StateOK' /\ ControlOK' /\ MutexHeld'
    BY <1>1, <1>2, <1>3, <1>4, LoopShape, Unchanged DEF WorkerOnly
<1>6. WritesCovered'
    BY <1>0, <1>1, <1>2, <1>4, QuietMove DEF IInv, Special
<1> QED
    BY <1>5, <1>6 DEF IInv

\* The loop takes the next event of the batch, clears its handler or aborts.
LEMMA NextEventKeeps == ASSUME IInv, NextEvent PROVE IInv'
<1>1. thr[Loop].pc = "next"
    BY DEF NextEvent, At
<1> DEFINE H(e) == fdToHandler[e.fd]
           Marked(e) == IF e.err THEN [handler EXCEPT ![H(e)].type = "kError"] ELSE handler
<1>2. PICK e \in batch :
        \/ e.fd = Listen /\ TakeEvent(None, batch \ {e}, handler, "accept")
        \/ /\ e.fd # Listen
           /\ IF H(e) = None THEN Abort("map")
              ELSE IF e.rdhup THEN ClearEventHandler(H(e), batch \ {e}, Marked(e))
              ELSE TakeEvent(H(e), batch \ {e}, Marked(e), "dispatch")
    BY Zenon DEF NextEvent
<1>3. CASE e.fd = Listen
    <2> DEFINE rest == batch \ {e}
    <2>1. TakeEvent(None, rest, handler, "accept") /\ rest \in SUBSET batch
        BY <1>2, <1>3
    <2> HIDE DEF rest
    <2> QED
        BY <1>1, <2>1, TakeEventKeeps, Zenon
<1>4. CASE e.fd # Listen /\ H(e) = None
    BY <1>2, <1>4, AbortKeeps
<1>5. CASE e.fd # Listen /\ H(e) # None
    <2>1. e.fd \in Fds
        BY <1>5 DEF IInv, StateOK, Fd
    <2>2. H(e) \in Clients /\ handler[H(e)].fd \in Fds
        BY <1>5, <2>1 DEF IInv, ControlOK, Opened
    <2>3. Marked(e) = handler \/ Marked(e) = [handler EXCEPT ![H(e)].type = "kError"]
        OBVIOUS
    <2> DEFINE rest == batch \ {e}
    <2>4. \/ ClearEventHandler(H(e), rest, Marked(e))
          \/ TakeEvent(H(e), rest, Marked(e), "dispatch")
        BY <1>2, <1>5
    <2>5. rest \in SUBSET batch
        OBVIOUS
    <2> HIDE DEF H, Marked, rest
    <2>6. CASE ClearEventHandler(H(e), rest, Marked(e))
        BY <1>1, <2>2, <2>3, <2>5, <2>6, ClearKeeps
    <2>7. CASE TakeEvent(H(e), rest, Marked(e), "dispatch")
        BY <1>1, <2>2, <2>3, <2>5, <2>7, TakeEventKeeps, Zenon
    <2> QED
        BY <2>4, <2>6, <2>7
<1> QED
    BY <1>3, <1>4, <1>5

\* Entering Write consumes nothing: kWrite already stood for the write.
LEMMA DispatchKeeps == ASSUME IInv, Dispatch PROVE IInv'
<1> DEFINE h == thr[Loop].h
<1>0. StateOK /\ Loop \in Threads /\ Loop \notin Workers
    BY ReactorAssumption DEF IInv, Threads
<1>1. thr[Loop].pc = "dispatch" /\ h \in Clients /\ handler[h].fd \in Fds
    BY <1>0 DEF Dispatch, At, IInv, ControlOK, Opened
<1>2. CASE handler[h].type = "kError"
    BY <1>1, <1>2, ClearKeeps DEF Dispatch
<1>3. CASE handler[h].type # "kError"
    <2> DEFINE pc == IF handler[h].type = "kRead" THEN "read" ELSE "write"
    <2>1. Goto(Loop, pc) /\ UNCHANGED <<k, handler, fdToHandler, count, tasks, batch>>
        BY <1>3 DEF Dispatch
    <2>2. pc \in {"read", "write"} /\ (pc = "write" => handler[h].type = "kWrite")
        BY <1>0, <1>1, <1>3, Fields
    <2> HIDE DEF pc
    <2>3. Moves(Loop, pc, h)
        BY <1>0, <2>1, <2>2, GotoMoves DEF PCs
    <2>4. StateOK' /\ ControlOK' /\ MutexHeld'
        BY <1>1, <2>1, <2>2, <2>3, LoopShape, Unchanged DEF WorkerOnly
    <2>5. ASSUME NEW c \in Clients PROVE Covered(c)'
        <3>1. Running(c)' = Running(c) /\ (Drained(c)' => Drained(c))
            BY <1>0, <2>3 DEF Running, Drained, Moves, Threads
        <3>2. ~LoopIn(c, "run")' /\ ~LoopIn(c, "setread")
            BY <1>1, <2>2, <2>3 DEF LoopIn, Moves
        <3>3. LoopIn(c, "write")' => handler[c].type = "kWrite"
            BY <2>2, <2>3 DEF LoopIn, Moves
        <3>4. WriteDue(c)' => WriteDue(c)
            BY <2>1, <3>2, <3>3 DEF WriteDue
        <3> QED
            BY <1>0, <2>1, <3>1, <3>2, <3>4, Quiet DEF IInv
    <2> QED
        BY <2>4, <2>5 DEF IInv, WritesCovered
<1> QED
    BY <1>2, <1>3

\* The accepted connection gets a handler with a descriptor.
LEMMA AcceptStepKeeps == ASSUME IInv, Accept PROVE IInv'
<1>0. StateOK /\ Loop \in Threads
    BY DEF IInv, Threads
<1>1. CASE k.backlog = <<>>
    BY <1>1, AbortKeeps DEF Accept
<1>2. CASE k.backlog # <<>>
    <2> DEFINE c == Head(k.backlog)
    <2>1. c \in Clients
        BY <1>0, <1>2, Fields
    <2>2. PICK f \in Fds :
            /\ k' = [k EXCEPT !.backlog = Tail(@), !.owner[f] = c]
            /\ handler' = [handler EXCEPT ![c].fd = f]
            /\ thr' = [thr EXCEPT ![Loop].pc = "mask", ![Loop].h = c]
            /\ UNCHANGED <<fdToHandler, count, tasks, batch>>
        BY <1>2, ZenonT(40) DEF Accept
    <2>3. k' \in KernelT
        BY <1>0, <1>2, <2>2, AcceptKeeps, ZenonT(40)
    <2> HIDE DEF c
    <2>4. Moves(Loop, "mask", c)
        BY <1>0, <2>1, <2>2, TakeMoves, Zenon DEF PCs
    <2>5. Sets(c, handler[c].type, f, handler[c].reqs, handler[c].resps, handler[c].mutex)
        BY <1>0, <2>1, <2>2, FdSets, Zenon
    <2>6. StateOK' /\ ControlOK' /\ MutexHeld'
        BY <2>1, <2>2, <2>3, <2>4, <2>5, LoopShape, Unchanged DEF WorkerOnly, Sets
    <2>7. thr[Loop].pc = "accept"
        BY Zenon DEF Accept, At
    <2>8. WritesCovered'
        BY <1>0, <2>2, <2>4, <2>5, <2>7, QuietMove DEF IInv, Special, Sets
    <2> QED
        BY <2>6, <2>8 DEF IInv
<1> QED
    BY <1>1, <1>2

\* A read that succeeds changes nothing of this; one that fails sets kError.
LEMMA ReadKeeps == ASSUME IInv, Read PROVE IInv'
<1> DEFINE h == thr[Loop].h
           o == k.owner[handler[h].fd]
<1>0. StateOK /\ Loop \in Threads /\ thr[Loop].pc = "read"
    BY Zenon DEF IInv, Threads, Read, At
<1>1. h \in Clients /\ handler[h].fd \in Fds
    BY <1>0 DEF IInv, ControlOK, Opened
<1>2. CASE o # None /\ ~conn[o].err
    <2>1. Goto(Loop, "push") /\ UNCHANGED <<k, handler, fdToHandler, count, tasks, batch>>
        BY <1>2, Zenon DEF Read
    <2>2. Moves(Loop, "push", h)
        BY <1>0, <2>1, GotoMoves DEF PCs
    <2>3. StateOK' /\ ControlOK' /\ MutexHeld'
        BY <1>1, <2>1, <2>2, LoopShape, Unchanged DEF WorkerOnly
    <2>4. WritesCovered'
        BY <1>0, <2>1, <2>2, QuietMove DEF IInv, Special
    <2> QED
        BY <2>3, <2>4 DEF IInv
<1>3. CASE ~(o # None /\ ~conn[o].err)
    <2>1. /\ handler' = [handler EXCEPT ![h].type = "kError"] /\ Return(Loop, "next")
          /\ UNCHANGED <<fdToHandler, count, tasks, batch>> /\ DtorsRun(k)
        BY <1>3, Zenon DEF Read
    <2>2. Moves(Loop, "next", None)
        BY <1>0, <2>1, ReturnMoves DEF PCs
    <2>3. Sets(h, "kError", handler[h].fd, handler[h].reqs, handler[h].resps, handler[h].mutex)
        BY <1>0, <1>1, <2>1, TypeSets, Zenon
    <2>4. k' \in KernelT
        BY <1>0, <2>1, CloseKeeps DEF DtorsRun, StateOK
    <2>5. StateOK' /\ ControlOK' /\ MutexHeld'
        BY <1>1, <2>1, <2>2, <2>3, <2>4, LoopShape, Unchanged DEF WorkerOnly, Sets
    <2>6. WritesCovered'
        BY <1>0, <2>1, <2>2, <2>3, QuietMove DEF IInv, Special, Sets
    <2> QED
        BY <2>5, <2>6 DEF IInv
<1> QED
    BY <1>2, <1>3, ZenonT(40)

\* The loop's moves do not change which workers are counted.
LEMMA LoopMoveWorkers ==
    ASSUME NEW pc, NEW h, Moves(Loop, pc, h), NEW c
    PROVE  Running(c)' = Running(c) /\ (Drained(c)' <=> Drained(c))
BY ReactorAssumption, SMTT(30) DEF Running, Drained, Moves, Threads

\* The values the inequalities are about are integers.
LEMMA Numbers ==
    ASSUME IInv, NEW c \in Clients
    PROVE  /\ Cardinality(Queued(c)) \in Nat /\ Cardinality(Running(c)) \in Nat
           /\ handler[c].reqs \in Nat /\ handler[c].resps \in Int
           /\ Covered(c)
BY Counts, Fields DEF IInv, WritesCovered

\* The request pushed pays for the task to come.
LEMMA PushKeeps == ASSUME IInv, PushRequest PROVE IInv'
<1> DEFINE h == thr[Loop].h
<1>0. /\ StateOK /\ Loop \in Threads /\ thr[Loop].pc = "push" /\ Goto(Loop, "run")
      /\ handler' = [handler EXCEPT ![h].reqs = @ + 1]
      /\ UNCHANGED <<k, fdToHandler, count, tasks, batch>>
    BY DEF IInv, Threads, PushRequest, At
<1>1. h \in Clients /\ handler[h].fd \in Fds
    BY <1>0 DEF IInv, ControlOK, Opened
<1>2. Moves(Loop, "run", h)
    BY <1>0, GotoMoves DEF PCs
<1>3. Sets(h, handler[h].type, handler[h].fd, handler[h].reqs + 1, handler[h].resps, handler[h].mutex)
    BY <1>0, <1>1, PushSets, Zenon
<1>4. StateOK' /\ ControlOK' /\ MutexHeld'
    BY <1>0, <1>1, <1>2, <1>3, LoopShape, Unchanged, ZenonT(40) DEF WorkerOnly, Sets
<1>5. ASSUME NEW c \in Clients PROVE Covered(c)'
    <2>1. Running(c)' = Running(c) /\ (Drained(c)' <=> Drained(c)) /\ Queued(c)' = Queued(c)
        BY <1>0, <1>2, LoopMoveWorkers DEF Queued
    <2>2. handler'[c].type = handler[c].type
        BY <1>3 DEF Sets
    <2>3. WriteDue(c)' <=> WriteDue(c)
        BY <1>0, <1>2, <2>2 DEF WriteDue, LoopIn, Moves
    <2>4. Owed(c)' = Owed(c) /\ Owed(c) \in Nat
        BY <2>1, <2>3, SMTT(30) DEF Owed, Flag
    <2>5. CASE c = h
        <3>1. Flag(LoopIn(c, "run")) = 0 /\ Flag(LoopIn(c, "run"))' = 1
            BY <1>0, <1>2, <2>5, SMTT(30) DEF LoopIn, Moves, Flag
        <3>2. handler'[c].reqs = handler[c].reqs + 1 /\ handler'[c].resps = handler[c].resps
            BY <1>3, <2>5 DEF Sets
        <3> QED
            BY <2>1, <2>4, <3>1, <3>2, Numbers DEF Covered, ToCome
    <2>6. CASE c # h
        <3>1. ~LoopIn(c, "run")' /\ handler'[c] = handler[c]
            BY <1>2, <1>3, <2>6 DEF LoopIn, Moves, Sets
        <3> QED
            BY <1>0, <2>1, <2>3, <3>1, Quiet, Zenon DEF IInv
    <2> QED
        BY <2>5, <2>6
<1> QED
    BY <1>4, <1>5 DEF IInv, WritesCovered

\* Write consumes one response and the write it was owed to.
LEMMA WriteKeeps == ASSUME IInv, Write PROVE IInv'
<1> DEFINE h == thr[Loop].h
<1>0. /\ StateOK /\ Loop \in Threads /\ thr[Loop].pc = "write" /\ Goto(Loop, "setread")
      /\ handler' = [handler EXCEPT ![h].resps = @ - 1]
      /\ UNCHANGED <<k, fdToHandler, count, tasks, batch>>
    BY DEF IInv, Threads, Write, At
<1>1. h \in Clients /\ handler[h].fd \in Fds
    BY <1>0 DEF IInv, ControlOK, Opened
<1>2. Moves(Loop, "setread", h)
    BY <1>0, GotoMoves DEF PCs
<1>3. Sets(h, handler[h].type, handler[h].fd, handler[h].reqs, handler[h].resps - 1, handler[h].mutex)
    BY <1>0, <1>1, PopSets, ZenonT(40)
<1>4. StateOK' /\ ControlOK' /\ MutexHeld'
    BY <1>0, <1>1, <1>2, <1>3, LoopShape, Unchanged DEF WorkerOnly, Sets
<1>5. ASSUME NEW c \in Clients PROVE Covered(c)'
    <2>1. Running(c)' = Running(c) /\ (Drained(c)' <=> Drained(c)) /\ Queued(c)' = Queued(c)
        BY <1>0, <1>2, LoopMoveWorkers DEF Queued
    <2>2. ~LoopIn(c, "run")' /\ ~LoopIn(c, "run")
        BY <1>0, <1>2 DEF LoopIn, Moves
    <2>3. CASE c = h
        <3>1. WriteDue(c) /\ ~WriteDue(c)'
            BY <1>0, <1>2, <2>3 DEF WriteDue, LoopIn, Moves
        <3>2. Owed(c) = Owed(c)' + 1 /\ Owed(c)' \in Nat
            BY <2>1, <3>1 DEF Owed, Flag
        <3>3. handler'[c].reqs = handler[c].reqs /\ handler'[c].resps = handler[c].resps - 1
            BY <1>3, <2>3 DEF Sets
        <3>4. Flag(LoopIn(c, "run")) = 0 /\ Flag(LoopIn(c, "run"))' = 0
            BY <2>2 DEF Flag
        <3> QED
            BY <2>1, <3>2, <3>3, <3>4, Numbers DEF Covered, ToCome
    <2>4. CASE c # h
        <3>1. handler'[c] = handler[c]
            BY <1>3, <2>4 DEF Sets
        <3>2. WriteDue(c)' => WriteDue(c)
            BY <1>0, <1>2, <2>4, <3>1 DEF WriteDue, LoopIn, Moves
        <3> QED
            BY <1>0, <2>1, <2>2, <3>1, <3>2, Quiet, Zenon DEF IInv
    <2> QED
        BY <2>3, <2>4
<1> QED
    BY <1>4, <1>5 DEF IInv, WritesCovered

\* The loop has done its write and asks for kRead.
LEMMA SetTypeReadKeeps == ASSUME IInv, SetTypeRead PROVE IInv'
<1> DEFINE h == thr[Loop].h
<1>0. /\ StateOK /\ Loop \in Threads /\ thr[Loop].pc = "setread" /\ Goto(Loop, "mask")
      /\ handler' = [handler EXCEPT ![h].type = "kRead"]
      /\ UNCHANGED <<k, fdToHandler, count, tasks, batch>>
    BY DEF IInv, Threads, SetTypeRead, SetType, At
<1>1. h \in Clients /\ handler[h].fd \in Fds
    BY <1>0 DEF IInv, ControlOK, Opened
<1>2. Moves(Loop, "mask", h)
    BY <1>0, GotoMoves DEF PCs
<1>3. Sets(h, "kRead", handler[h].fd, handler[h].reqs, handler[h].resps, handler[h].mutex)
    BY <1>0, <1>1, TypeSets, Zenon
<1>4. StateOK' /\ ControlOK' /\ MutexHeld'
    BY <1>0, <1>1, <1>2, <1>3, LoopShape, Unchanged DEF WorkerOnly, Sets
<1>5. ASSUME NEW c \in Clients PROVE Covered(c)'
    <2>1. Running(c)' = Running(c) /\ (Drained(c)' <=> Drained(c)) /\ ~LoopIn(c, "run")'
        BY <1>2, LoopMoveWorkers DEF LoopIn, Moves
    <2>2. handler'[c].reqs = handler[c].reqs /\ handler'[c].resps = handler[c].resps
        BY <1>3 DEF Sets
    <2>3. WriteDue(c)' => WriteDue(c)
        BY <1>0, <1>2, <1>3 DEF WriteDue, LoopIn, Moves, Sets
    <2> QED
        BY <1>0, <2>1, <2>2, <2>3, Quiet DEF IInv
<1> QED
    BY <1>4, <1>5 DEF IInv, WritesCovered

\* The task to come becomes a queued one, or is not needed.
LEMMA RunTaskKeeps == ASSUME IInv, RunTask PROVE IInv'
<1> DEFINE h == thr[Loop].h
<1>0. /\ StateOK /\ Loop \in Threads /\ thr[Loop].pc = "run" /\ Return(Loop, "next")
      /\ tasks' = Append(tasks, h) \/ tasks' = tasks
      /\ UNCHANGED <<handler, fdToHandler, count, batch>> /\ DtorsRun(k)
    BY DEF IInv, Threads, RunTask, At
<1>1. h \in Clients /\ handler[h].fd \in Fds
    BY <1>0 DEF IInv, ControlOK, Opened
<1>2. Moves(Loop, "next", None)
    BY <1>0, ReturnMoves DEF PCs
<1>3. k' \in KernelT
    BY <1>0, CloseKeeps DEF DtorsRun, StateOK
<1>4. tasks' \in Seq(Clients) /\ \A i \in DOMAIN tasks' : Opened(tasks'[i])
    <2>1. CASE tasks' = tasks
        BY <2>1, Unchanged
    <2>2. CASE tasks' = Append(tasks, h)
        BY <1>0, <1>1, <2>2 DEF IInv, StateOK, ControlOK, Opened
    <2> QED
        BY <1>0, <2>1, <2>2
<1>5. StateOK' /\ ControlOK' /\ MutexHeld'
    BY <1>0, <1>1, <1>2, <1>3, <1>4, LoopShape, Unchanged DEF WorkerOnly
<1>6. ASSUME NEW c \in Clients PROVE Covered(c)'
    <2>1. Running(c)' = Running(c) /\ (Drained(c)' <=> Drained(c)) /\ ~LoopIn(c, "run")'
        BY <1>2, LoopMoveWorkers DEF LoopIn, Moves
    <2>2. WriteDue(c)' => WriteDue(c)
        BY <1>0, <1>2 DEF WriteDue, LoopIn, Moves
    <2>3. CASE tasks' = tasks
        BY <1>0, <2>1, <2>2, <2>3, Quiet DEF IInv
    <2>4. CASE tasks' = Append(tasks, h) /\ c # h
        <3>1. Queued(c)' = Queued(c)
            BY <1>0, <1>1, <2>4 DEF Queued, StateOK
        <3>2. Owed(c)' <= Owed(c) /\ Owed(c)' \in Nat /\ Owed(c) \in Nat
            BY <2>1, <2>2 DEF Owed, Flag
        <3>3. Flag(LoopIn(c, "run"))' = 0 /\ Flag(LoopIn(c, "run")) \in Nat
            BY <2>1, SMTT(30) DEF Flag
        <3> QED
            BY <1>0, <2>1, <3>1, <3>2, <3>3, Numbers DEF Covered, ToCome
    <2>5. CASE tasks' = Append(tasks, h) /\ c = h
        <3>1. Queued(c)' = Queued(c) \cup {Len(tasks) + 1} /\ Len(tasks) + 1 \notin Queued(c)
            BY <1>0, <1>1, <2>5 DEF Queued, StateOK
        <3>2. Cardinality(Queued(c)') = Cardinality(Queued(c)) + 1
            BY <1>0, <3>1, Counts, FS_AddElement, Zenon
        <3>3. Owed(c)' <= Owed(c) /\ Owed(c)' \in Nat /\ Owed(c) \in Nat
            BY <2>1, <2>2 DEF Owed, Flag
        <3>4. Flag(LoopIn(c, "run"))' = 0 /\ Flag(LoopIn(c, "run")) = 1
            BY <1>0, <2>1, <2>5 DEF Flag, LoopIn
        <3> QED
            BY <1>0, <2>1, <3>2, <3>3, <3>4, Numbers, SMTT(30) DEF Covered, ToCome
    <2> QED
        BY <1>0, <2>3, <2>4, <2>5
<1> QED
    BY <1>5, <1>6 DEF IInv, WritesCovered

\* A step of worker w.
LEMMA WorkerShape ==
    ASSUME IInv, NEW w \in Workers, NEW pc, NEW h, Moves(w, pc, h), pc \notin LoopOnly,
           pc # "idle" => h \in Clients /\ handler'[h].fd \in Fds,
           pc \in Critical => handler'[h].mutex = w,
           handler' \in [Clients -> HandlerT], k' \in KernelT,
           \A c \in Clients : handler'[c].fd = handler[c].fd,
           \A v \in Workers \ {w} : thr[v].pc \in Critical =>
                handler'[thr[v].h].mutex = handler[thr[v].h].mutex,
           tasks' \in Seq(Clients), \A i \in DOMAIN tasks' : Opened(tasks'[i]),
           UNCHANGED <<fdToHandler, count, batch>>
    PROVE  StateOK' /\ ControlOK' /\ MutexHeld'
<1>1. w \in Threads /\ w # Loop
    BY ReactorAssumption DEF Threads
<1>2. StateOK'
    BY DEF IInv, StateOK, Moves
<1>3. ControlOK'
    <2>1. \A f \in Fds : fdToHandler'[f] # None => Opened(fdToHandler'[f])
        BY Unchanged
    <2>2. \A c \in Clients : handler[c].fd \in Fds => handler'[c].fd \in Fds
        OBVIOUS
    <2>3. pc \notin {"idle", "next", "accept"} => h \in Clients /\ handler'[h].fd \in Fds
        BY SMTT(30)
    <2> QED
        BY <1>1, <2>1, <2>2, <2>3, ControlMove DEF IInv
<1>4. MutexHeld'
    BY <1>1, MutexMove DEF IInv
<1> QED
    BY <1>2, <1>3, <1>4

\* A worker's moves do not change where the loop is.
LEMMA WorkerMoveLoop ==
    ASSUME NEW w \in Workers, NEW pc, NEW h, Moves(w, pc, h), NEW c, NEW q
    PROVE  LoopIn(c, q)' <=> LoopIn(c, q)
BY ReactorAssumption DEF LoopIn, Moves, Threads

\* The head of the tasks is one of its handler's tasks: taking it leaves one
\* fewer.
LEMMA TakeOne ==
    ASSUME StateOK, tasks # <<>>, tasks' = Tail(tasks), NEW c \in Clients
    PROVE  Cardinality(Queued(c)') = Cardinality(Queued(c)) - Flag(Head(tasks) = c)
<1> DEFINE n == Len(tasks)
           R == Queued(c) \ {1}
           Q == Queued(c)'
           f == [i \in R |-> i - 1]
<1>0. /\ n \in Nat \ {0} /\ DOMAIN tasks = 1 .. n /\ Len(tasks') = n - 1
      /\ DOMAIN tasks' = 1 .. n - 1
      /\ \A i \in 1 .. n - 1 : tasks'[i] = tasks[i + 1]
    BY DEF StateOK
<1>1. Q = {i \in 1 .. n - 1 : tasks[i + 1] = c} /\ R = {i \in 2 .. n : tasks[i] = c}
    BY <1>0 DEF Queued
<1>2. IsFiniteSet(Queued(c)) /\ IsFiniteSet(R)
    BY Counts, FS_RemoveElement
<1> HIDE DEF R, n, Q
<1>3. f \in Bijection(R, Q)
    <2>1. f \in [R -> Q]
        BY <1>0, <1>1
    <2>2. \A i, j \in R : f[i] = f[j] => i = j
        BY <1>0, <1>1
    <2>3. \A j \in Q : j + 1 \in R /\ f[j + 1] = j
        BY <1>0, <1>1
    <2>4. \A j \in Q : \E i \in R : f[i] = j
        BY <2>3, Zenon
    <2> HIDE DEF f
    <2> QED
        BY <2>1, <2>2, <2>4 DEF Bijection, Injection, Surjection, IsInjective
<1>4. Cardinality(Q) = Cardinality(R)
    BY <1>2, <1>3, FS_Bijection DEF ExistsBijection
<1>5. 1 \in Queued(c) <=> Head(tasks) = c
    BY <1>0 DEF Queued, StateOK
<1>6. CASE 1 \in Queued(c)
    <2>1. Cardinality(R) = Cardinality(Queued(c)) - 1
        BY <1>2, <1>6, FS_RemoveElement DEF R
    <2> QED
        BY <1>4, <1>5, <1>6, <2>1 DEF Flag, Q
<1>7. CASE 1 \notin Queued(c)
    <2>1. R = Queued(c)
        BY <1>7 DEF R
    <2> QED
        BY <1>4, <1>5, <1>7, <2>1, Counts DEF Flag, Q
<1> QED
    BY <1>6, <1>7

\* A queued task becomes a running one.
LEMMA TakeTaskKeeps == ASSUME IInv, NEW w \in Workers, TakeTask(w) PROVE IInv'
<1> DEFINE h == Head(tasks)
<1>0. /\ StateOK /\ w \in Threads /\ thr[w].pc = "idle" /\ tasks # <<>> /\ tasks' = Tail(tasks)
      /\ thr' = [thr EXCEPT ![w].pc = "lock", ![w].h = h]
      /\ UNCHANGED <<k, handler, fdToHandler, count, batch>>
    BY DEF IInv, Threads, TakeTask, At
<1>1. h \in Clients /\ handler[h].fd \in Fds
    BY <1>0 DEF IInv, StateOK, ControlOK, Opened
<1>2. tasks' \in Seq(Clients) /\ \A i \in DOMAIN tasks' : Opened(tasks'[i])
    BY <1>0 DEF IInv, StateOK, ControlOK
<1> HIDE DEF h
<1>3. Moves(w, "lock", h)
    BY <1>0, <1>1, TakeMoves, Zenon DEF PCs
<1>4. StateOK' /\ ControlOK' /\ MutexHeld'
    BY <1>0, <1>1, <1>2, <1>3, WorkerShape, Unchanged, Zenon DEF LoopOnly, Critical
<1>5. ASSUME NEW c \in Clients PROVE Covered(c)'
    <2>1. /\ LoopIn(c, "run")' <=> LoopIn(c, "run")
          /\ LoopIn(c, "write")' <=> LoopIn(c, "write")
          /\ LoopIn(c, "setread")' <=> LoopIn(c, "setread")
        BY <1>3, WorkerMoveLoop
    <2>2. (WriteDue(c)' <=> WriteDue(c)) /\ (Drained(c)' <=> Drained(c))
        BY <1>0, <1>3, <2>1 DEF WriteDue, Drained, Moves, Threads
    <2>3. Owed(c)' = Owed(c) /\ Owed(c) \in Nat
        BY <2>2 DEF Owed, Flag
    <2>4. Flag(LoopIn(c, "run"))' = Flag(LoopIn(c, "run")) /\ Flag(LoopIn(c, "run")) \in Nat
        BY <2>1 DEF Flag
    <2>5. Cardinality(Queued(c)') = Cardinality(Queued(c)) - Flag(h = c)
        BY <1>0, TakeOne DEF h
    <2>6. Cardinality(Running(c)') = Cardinality(Running(c)) + Flag(h = c)
        <3>1. CASE h = c
            <4>1. Running(c)' = Running(c) \cup {w} /\ w \notin Running(c)
                BY <1>0, <1>3, <3>1 DEF Running, Moves, Threads
            <4> QED
                BY <1>0, <3>1, <4>1, Counts, FS_AddElement, Zenon DEF Flag
        <3>2. CASE h # c
            <4>1. Running(c)' = Running(c)
                BY <1>0, <1>3, <3>2 DEF Running, Moves, Threads
            <4> QED
                BY <1>0, <3>2, <4>1, Counts DEF Flag
        <3> QED
            BY <3>1, <3>2
    <2>7. Flag(h = c) \in Nat
        BY DEF Flag
    <2> QED
        BY <1>0, <2>3, <2>4, <2>5, <2>6, <2>7, Numbers DEF Covered, ToCome
<1> QED
    BY <1>4, <1>5 DEF IInv, WritesCovered

\* A worker locks a mutex that nobody holds.
LEMMA LockKeeps == ASSUME IInv, NEW w \in Workers, LockHandler(w) PROVE IInv'
<1> DEFINE h == thr[w].h
<1>0. /\ StateOK /\ w \in Threads /\ thr[w].pc = "lock" /\ Goto(w, "drain")
      /\ handler[h].mutex = None /\ handler' = [handler EXCEPT ![h].mutex = w]
      /\ UNCHANGED <<k, fdToHandler, count, tasks, batch>>
    BY DEF IInv, Threads, LockHandler, At
<1>1. h \in Clients /\ handler[h].fd \in Fds
    BY <1>0 DEF IInv, ControlOK, Opened
<1>2. Moves(w, "drain", h)
    BY <1>0, GotoMoves DEF PCs
<1>3. Sets(h, handler[h].type, handler[h].fd, handler[h].reqs, handler[h].resps, w)
    BY <1>0, <1>1, MutexSets, Zenon
<1>4. \A v \in Workers \ {w} : thr[v].pc \in Critical =>
        /\ thr[v].h \in Clients \ {h}
        /\ handler'[thr[v].h].mutex = handler[thr[v].h].mutex
    <2>1. \A v \in Workers : thr[v].pc \in Critical =>
            thr[v].h \in Clients /\ handler[thr[v].h].mutex = v /\ v # None
        BY ReactorAssumption, SMTT(30) DEF IInv, MutexHeld, ControlOK, Opened, Critical, Threads
    <2> QED
        BY <1>0, <1>3, <2>1 DEF Sets
<1>5. StateOK' /\ ControlOK' /\ MutexHeld'
    <2>1. /\ handler'[h].mutex = w /\ handler' \in [Clients -> HandlerT]
          /\ \A c \in Clients : handler'[c].fd = handler[c].fd
        BY <1>3 DEF Sets
    <2> QED
        <3>1. "drain" \notin LoopOnly
            BY DEF LoopOnly
        <3> QED
            BY <1>0, <1>1, <1>2, <1>4, <2>1, <3>1, WorkerShape, Unchanged, SMTT(30)
<1>6. ASSUME NEW c \in Clients PROVE Covered(c)'
    <2>1. /\ LoopIn(c, "run")' <=> LoopIn(c, "run")
          /\ LoopIn(c, "write")' <=> LoopIn(c, "write")
          /\ LoopIn(c, "setread")' <=> LoopIn(c, "setread")
        BY <1>2, WorkerMoveLoop, SMTT(30)
    <2>2. /\ handler'[c].type = handler[c].type /\ handler'[c].reqs = handler[c].reqs
          /\ handler'[c].resps = handler[c].resps
        BY <1>3 DEF Sets
    <2>3. WriteDue(c)' <=> WriteDue(c)
        BY <2>1, <2>2 DEF WriteDue
    <2>4. Drained(c)' => Drained(c)
        BY <1>2 DEF Drained, Moves, Threads
    <2>5. Running(c)' = Running(c)
        BY <1>0, <1>2, SMTT(30) DEF Running, Moves, Threads
    <2> QED
        BY <1>0, <2>1, <2>2, <2>3, <2>4, <2>5, Quiet DEF IInv
<1> QED
    BY <1>5, <1>6 DEF IInv, WritesCovered

\* A worker in its critical section that moves within it or changes the fields
\* of its handler other than fd and mutex.
LEMMA CriticalShape ==
    ASSUME IInv, NEW w \in Workers, thr[w].pc \in Critical,
           NEW pc \in Critical, Moves(w, pc, thr[w].h),
           NEW type, NEW reqs, NEW resps,
           Sets(thr[w].h, type, handler[thr[w].h].fd, reqs, resps, handler[thr[w].h].mutex),
           UNCHANGED <<k, fdToHandler, count, tasks, batch>>
    PROVE  StateOK' /\ ControlOK' /\ MutexHeld'
<1> DEFINE h == thr[w].h
<1>1. h \in Clients /\ handler[h].fd \in Fds /\ handler[h].mutex = w
    BY SMTT(30) DEF IInv, ControlOK, Opened, MutexHeld, Critical, Threads
<1>2. /\ handler' \in [Clients -> HandlerT] /\ handler'[h].mutex = w
      /\ \A c \in Clients : /\ handler'[c].fd = handler[c].fd
                            /\ handler'[c].mutex = handler[c].mutex
    BY <1>1, SMTT(30) DEF Sets
<1>3. \A v \in Workers : thr[v].pc \in Critical => thr[v].h \in Clients
    BY DEF IInv, ControlOK, Opened, Critical, Threads
<1>4. pc \notin LoopOnly /\ pc # "idle"
    BY DEF Critical, LoopOnly
<1> QED
    BY <1>1, <1>2, <1>3, <1>4, WorkerShape, Unchanged, SMTT(30)

\* One request becomes a response; or request_q_ is empty, so the responses
\* alone cover the task that now counts among the drained ones.
LEMMA DrainKeeps == ASSUME IInv, NEW w \in Workers, DrainRequest(w) PROVE IInv'
<1> DEFINE h == thr[w].h
<1>0. /\ StateOK /\ w \in Threads /\ thr[w].pc = "drain"
      /\ UNCHANGED <<k, fdToHandler, count, tasks, batch>>
    BY DEF IInv, Threads, DrainRequest, At
<1>1. h \in Clients /\ handler[h].fd \in Fds
    BY <1>0 DEF IInv, ControlOK, Opened
<1>2. CASE handler[h].reqs > 0
    <2>1. handler' = [handler EXCEPT ![h].reqs = @ - 1, ![h].resps = @ + 1] /\ thr' = thr
        BY <1>2 DEF DrainRequest
    <2>2. Moves(w, "drain", h)
        BY <1>0, <2>1 DEF Moves, StateOK
    <2>3. Sets(h, handler[h].type, handler[h].fd, handler[h].reqs - 1, handler[h].resps + 1,
               handler[h].mutex)
        BY <1>0, <1>1, <1>2, <2>1, ProcessSets, Zenon
    <2>4. StateOK' /\ ControlOK' /\ MutexHeld'
        BY <1>0, <2>2, <2>3, CriticalShape, Zenon DEF Critical
    <2>5. ASSUME NEW c \in Clients PROVE Covered(c)'
        <3>1. /\ Running(c)' = Running(c) /\ Queued(c)' = Queued(c)
              /\ (LoopIn(c, "run")' <=> LoopIn(c, "run")) /\ (Drained(c)' <=> Drained(c))
            BY <1>0, <2>1 DEF Running, Queued, LoopIn, Drained
        <3>2. handler'[c].type = handler[c].type
            BY <2>3 DEF Sets
        <3>3. WriteDue(c)' <=> WriteDue(c)
            BY <2>1, <3>2, SMTT(30) DEF WriteDue, LoopIn
        <3>4. CASE c # h
            <4>1. handler'[c] = handler[c]
                BY <2>3, <3>4, SMTT(30) DEF Sets
            <4> QED
                BY <1>0, <3>1, <3>3, <4>1, Quiet, SMTT(30) DEF IInv
        <3>5. CASE c = h
            <4>1. handler'[c].reqs = handler[c].reqs - 1 /\ handler'[c].resps = handler[c].resps + 1
                BY <2>3, <3>5 DEF Sets
            <4>2. /\ Owed(c)' = Owed(c) /\ Flag(LoopIn(c, "run"))' = Flag(LoopIn(c, "run"))
                  /\ Owed(c) \in Nat /\ Flag(LoopIn(c, "run")) \in Nat
                BY <3>1, <3>3 DEF Owed, Flag
            <4> QED
                BY <3>1, <4>1, <4>2, Numbers, SMTT(30) DEF Covered, ToCome
        <3> QED
            BY <3>4, <3>5
    <2> QED
        BY <2>4, <2>5 DEF IInv, WritesCovered
<1>3. CASE handler[h].reqs = 0
    <2>1. Goto(w, "setwrite") /\ handler' = handler
        BY <1>3 DEF DrainRequest
    <2>2. Moves(w, "setwrite", h)
        BY <1>0, <2>1, GotoMoves DEF PCs
    <2>3. Sets(h, handler[h].type, handler[h].fd, handler[h].reqs, handler[h].resps, handler[h].mutex)
        BY <1>0, <2>1 DEF Sets, StateOK
    <2>4. StateOK' /\ ControlOK' /\ MutexHeld'
        BY <1>0, <2>2, <2>3, CriticalShape, Zenon DEF Critical
    <2>5. ASSUME NEW c \in Clients PROVE Covered(c)'
        <3>1. /\ LoopIn(c, "run")' <=> LoopIn(c, "run")
              /\ LoopIn(c, "write")' <=> LoopIn(c, "write")
              /\ LoopIn(c, "setread")' <=> LoopIn(c, "setread")
            BY <2>2, WorkerMoveLoop
        <3>2. WriteDue(c)' <=> WriteDue(c)
            BY <2>1, <3>1, SMTT(30) DEF WriteDue
        <3>3. CASE c # h
            <4>1. Running(c)' = Running(c) /\ (Drained(c)' => Drained(c))
                BY <1>0, <2>2, <3>3, SMTT(30) DEF Running, Drained, Moves, Threads
            <4> QED
                BY <1>0, <2>1, <3>1, <3>2, <4>1, Quiet DEF IInv
        <3>4. CASE c = h
            <4>1. Running(c)' = Running(c) \ {w} /\ w \in Running(c)
                BY <1>0, <2>2, <3>4 DEF Running, Moves, Threads
            <4>2. Cardinality(Running(c)') = Cardinality(Running(c)) - 1
                BY <1>0, <4>1, Counts, FS_RemoveElement, ZenonT(40)
            <4>3. Cardinality(Running(c)') \in Nat
                <5>1. IsFiniteSet(Running(c)')
                    BY <1>0, <4>1, Counts, FS_RemoveElement
                <5> QED
                    BY <5>1, FS_CardinalityType
            <4>4. Owed(c)' <= Owed(c) + 1 /\ Owed(c) \in Nat /\ Owed(c)' \in Nat
                BY <3>2 DEF Owed, Flag
            <4>5. /\ Flag(LoopIn(c, "run"))' = Flag(LoopIn(c, "run"))
                  /\ Flag(LoopIn(c, "run")) \in Nat
                BY <3>1 DEF Flag
            <4>6. Queued(c)' = Queued(c)
                BY <1>0 DEF Queued
            <4> QED
                BY <1>3, <2>1, <3>4, <4>2, <4>3, <4>4, <4>5, <4>6, Numbers, SMTT(30) DEF Covered, ToCome
        <3> QED
            BY <3>3, <3>4
    <2> QED
        BY <2>4, <2>5 DEF IInv, WritesCovered
<1> QED
    BY <1>2, <1>3 DEF DrainRequest

\* The callback: the drained task's write becomes the handler's kWrite.  No
\* other worker has drained this handler meanwhile, because of the mutex.
LEMMA SetTypeWriteKeeps == ASSUME IInv, NEW w \in Workers, SetTypeWrite(w) PROVE IInv'
<1> DEFINE h == thr[w].h
<1>0. /\ StateOK /\ w \in Threads /\ thr[w].pc = "setwrite" /\ Goto(w, "mask")
      /\ handler' = [handler EXCEPT ![h].type = "kWrite"]
      /\ UNCHANGED <<k, fdToHandler, count, tasks, batch>>
    BY DEF IInv, Threads, SetTypeWrite, SetType, At
<1>1. h \in Clients /\ handler[h].fd \in Fds
    BY <1>0 DEF IInv, ControlOK, Opened
<1>2. Moves(w, "mask", h)
    BY <1>0, GotoMoves DEF PCs
<1>3. Sets(h, "kWrite", handler[h].fd, handler[h].reqs, handler[h].resps, handler[h].mutex)
    BY <1>0, <1>1, TypeSets, Zenon
<1>4. StateOK' /\ ControlOK' /\ MutexHeld'
    BY <1>0, <1>2, <1>3, CriticalShape, Zenon DEF Critical
<1>5. ASSUME NEW c \in Clients PROVE Covered(c)'
    <2>1. /\ LoopIn(c, "run")' <=> LoopIn(c, "run")
          /\ LoopIn(c, "write")' <=> LoopIn(c, "write")
          /\ LoopIn(c, "setread")' <=> LoopIn(c, "setread")
        BY <1>2, WorkerMoveLoop
    <2>2. Running(c)' = Running(c)
        BY <1>0, <1>2 DEF Running, Moves, Threads
    <2>3. Queued(c)' = Queued(c)
        BY <1>0 DEF Queued
    <2>4. CASE c # h
        <3>1. handler'[c] = handler[c]
            BY <1>3, <2>4, SMTT(30) DEF Sets
        <3>2. (Drained(c)' => Drained(c)) /\ (WriteDue(c)' => WriteDue(c))
            BY <1>2, <2>1, <2>4, <3>1 DEF Drained, WriteDue, Moves, Threads
        <3> QED
            BY <1>0, <2>1, <2>2, <3>1, <3>2, Quiet DEF IInv
    <2>5. CASE c = h
        <3>1. Drained(c)
            BY <1>0, <2>5 DEF Drained
        <3>2. ~Drained(c)'
            <4>1. \A v \in Workers \ {w} : ~(thr[v].pc = "setwrite" /\ thr[v].h = c)
                BY <1>0, <2>5, Exclusion DEF IInv, Critical
            <4> QED
                BY <1>2, <4>1 DEF Drained, Moves, Threads
        <3>3. Owed(c)' <= Owed(c) /\ Owed(c) \in Nat /\ Owed(c)' \in Nat
            BY <3>1, <3>2, SMTT(30) DEF Owed, Flag
        <3>4. handler'[c].reqs = handler[c].reqs /\ handler'[c].resps = handler[c].resps
            BY <1>3, <2>5 DEF Sets
        <3>5. /\ Flag(LoopIn(c, "run"))' = Flag(LoopIn(c, "run"))
              /\ Flag(LoopIn(c, "run")) \in Nat
            BY <2>1 DEF Flag
        <3> QED
            BY <2>2, <2>3, <3>3, <3>4, <3>5, Numbers DEF Covered, ToCome
    <2> QED
        BY <2>4, <2>5
<1> QED
    BY <1>4, <1>5 DEF IInv, WritesCovered

\* The end of a task releases the mutex its worker holds.
LEMMA FinishKeeps == ASSUME IInv, NEW w \in Workers, FinishTask(w) PROVE IInv'
<1> DEFINE h == thr[w].h
<1>0. /\ StateOK /\ w \in Threads /\ thr[w].pc = "unlock" /\ Return(w, "idle")
      /\ handler' = [handler EXCEPT ![h].mutex = None] /\ DtorsRun(k)
      /\ UNCHANGED <<fdToHandler, count, tasks, batch>>
    BY DEF IInv, Threads, FinishTask, At
<1>1. h \in Clients /\ handler[h].fd \in Fds
    BY <1>0 DEF IInv, ControlOK, Opened
<1>2. Moves(w, "idle", None)
    BY <1>0, ReturnMoves DEF PCs
<1>3. Sets(h, handler[h].type, handler[h].fd, handler[h].reqs, handler[h].resps, None)
    BY <1>0, <1>1, MutexSets, Zenon
<1>4. k' \in KernelT
    BY <1>0, CloseKeeps, SMTT(30) DEF DtorsRun, StateOK
<1>5. \A v \in Workers \ {w} : thr[v].pc \in Critical =>
        handler'[thr[v].h].mutex = handler[thr[v].h].mutex
    <2>1. \A v \in Workers : thr[v].pc \in Critical =>
            thr[v].h \in Clients /\ handler[thr[v].h].mutex = v
        BY DEF IInv, MutexHeld, ControlOK, Opened, Critical, Threads
    <2>2. handler[h].mutex = w
        BY <1>0, <2>1 DEF Critical
    <2> QED
        BY <1>3, <2>1, <2>2 DEF Sets
<1>6. StateOK' /\ ControlOK' /\ MutexHeld'
    <2>1. /\ handler' \in [Clients -> HandlerT]
          /\ \A c \in Clients : handler'[c].fd = handler[c].fd
        BY <1>3 DEF Sets
    <2> QED
        BY <1>0, <1>2, <1>4, <1>5, <2>1, WorkerShape, Unchanged DEF LoopOnly, Critical
<1>7. WritesCovered'
    BY <1>0, <1>2, <1>3, QuietMove DEF IInv, Special, Sets
<1> QED
    BY <1>6, <1>7 DEF IInv
----------------------------------------------------------------------------
\* At the start there is no handler in use, no task and no response.
LEMMA InitOK == Init => IInv
<1> SUFFICES ASSUME Init PROVE IInv
    BY SMTT(30)
<1>1. StateOK
    BY SMTT(30) DEF Init, StateOK, ThreadT, HandlerT, KernelT, PCs, Masks, Fd
<1>2. /\ tasks = <<>> /\ Loop \in Threads /\ thr[Loop].pc = "next"
      /\ \A w \in Workers : thr[w].pc = "idle"
      /\ \A f \in Fds : fdToHandler[f] = None
      /\ \A c \in Clients : handler[c].type = "kRead" /\ handler[c].reqs = 0 /\ handler[c].resps = 0
    BY ReactorAssumption DEF Init, Threads
<1>3. ControlOK /\ MutexHeld
    BY <1>2 DEF ControlOK, MutexHeld, WorkerOnly, LoopOnly, Critical, Threads
<1>4. ASSUME NEW c \in Clients PROVE Covered(c)
    <2>1. Queued(c) = {} /\ Running(c) = {} /\ ~LoopIn(c, "run") /\ ~Drained(c) /\ ~WriteDue(c)
        BY <1>2 DEF Queued, Running, LoopIn, Drained, WriteDue
    <2>2. Cardinality({}) = 0
        BY FS_EmptySet
    <2> QED
        BY <1>2, <2>1, <2>2 DEF Covered, ToCome, Owed, Flag
<1> QED
    BY <1>1, <1>3, <1>4 DEF IInv, WritesCovered

\* The invariant is inductive.
LEMMA StepOK == IInv /\ [Next]_vars => IInv'
<1> SUFFICES ASSUME IInv, [Next]_vars PROVE IInv'
    OBVIOUS
<1>1. CASE LoopStep
    <2>1. CASE RegisterEventHandler(Loop)
        BY <2>1, RegisterKeeps DEF Threads
    <2> QED
        BY <1>1, <2>1, EpollWaitKeeps, NextEventKeeps, DispatchKeeps, ClearStoreKeeps,
           AcceptStepKeeps, ReadKeeps, PushKeeps, RunTaskKeeps, WriteKeeps, SetTypeReadKeeps DEF LoopStep
<1>2. ASSUME NEW w \in Workers, WorkerStep(w) PROVE IInv'
    <2>1. CASE RegisterEventHandler(w)
        BY <2>1, RegisterKeeps DEF Threads
    <2> QED
        BY <1>2, <2>1, TakeTaskKeeps, LockKeeps, DrainKeeps, SetTypeWriteKeeps, FinishKeeps
           DEF WorkerStep
<1>3. CASE ClientStep
    BY <1>3, ClientKeeps
<1>4. CASE UNCHANGED vars
    BY <1>4, SameKeeps DEF vars, IInv, StateOK
<1> QED
    BY <1>1, <1>2, <1>3, <1>4 DEF Next

\* The loop in Write has a write owed to it, which a response covers.
LEMMA CoveredWrites == IInv => WriteFindsResponse
<1> SUFFICES ASSUME IInv, At(Loop, "write") PROVE handler[thr[Loop].h].resps > 0
    BY SMTT(30) DEF WriteFindsResponse
<1> DEFINE c == thr[Loop].h
<1>1. c \in Clients /\ LoopIn(c, "write")
    BY DEF IInv, ControlOK, Opened, Threads, At, LoopIn
<1>2. Owed(c) >= 1 /\ Owed(c) \in Nat
    BY <1>1 DEF Owed, WriteDue, Flag
<1> QED
    BY <1>1, <1>2, Numbers DEF Covered

\* Handler::Write (handler.cc:80-94) never pops an empty response_q_, whatever
\* the number of clients and workers, the pipelining and the disconnections:
\* the CHECK that is commented out at handler.cc:83 would never fail.
THEOREM WriteAlwaysFindsResponse == Spec => []WriteFindsResponse
<1>1. Init => IInv
    BY InitOK
<1>2. IInv /\ [Next]_vars => IInv'
    BY StepOK
<1>3. IInv => WriteFindsResponse
    BY CoveredWrites, SMTT(30)
<1> QED
    BY <1>1, <1>2, <1>3, PTL DEF Spec
-----------------------------------------------------------------------------
(* When no connection ends, ClearEventHandler is never called.             *)

\* No handler is being cleared.
NotClearing == thr[Loop].pc # "clear"

\* No handler is about to be cleared.
NobodyLeaves == /\ \A c \in Clients : handler[c].type # "kError"
                /\ \A e \in batch : ~e.err /\ ~e.rdhup

\* A thread that goes anywhere but into ClearEventHandler.
LEMMA MovesElsewhere ==
    ASSUME NotClearing, NEW t \in Threads, NEW pc, pc # "clear", NEW h, Moves(t, pc, h)
    PROVE  NotClearing'
<1>1. Loop \in Threads
    BY DEF Threads
<1> QED
    BY <1>1 DEF NotClearing, Moves

\* Every assignment to thr is one of these.
LEMMA AssignsElsewhere ==
    ASSUME IInv, NotClearing, NEW t \in Threads, NEW pc \in PCs, pc # "clear",
           \/ Goto(t, pc) \/ Return(t, pc) \/ UNCHANGED thr
           \/ \E h \in Clients \cup {None} : \/ thr' = [thr EXCEPT ![t].pc = pc, ![t].h = h]
                                           \/ thr' = [thr EXCEPT ![t].h = h, ![t].pc = pc]
           \/ \E m \in Masks : thr' = [thr EXCEPT ![t].pc = pc, ![t].mask = m]
           \/ \E n \in Int : thr' = [thr EXCEPT ![t].pc = pc, ![t].tmp = n]
    PROVE  NotClearing'
<1>0. StateOK
    BY DEF IInv
<1>1. CASE Goto(t, pc) \/ Return(t, pc)
    BY <1>0, <1>1, GotoMoves, ReturnMoves, MovesElsewhere
<1>2. CASE UNCHANGED thr
    BY <1>2 DEF NotClearing
<1>3. CASE \E h \in Clients \cup {None} : \/ thr' = [thr EXCEPT ![t].pc = pc, ![t].h = h]
                                         \/ thr' = [thr EXCEPT ![t].h = h, ![t].pc = pc]
    BY <1>0, <1>3, TakeMoves, MovesElsewhere, Zenon
<1>4. CASE \E m \in Masks : thr' = [thr EXCEPT ![t].pc = pc, ![t].mask = m]
    BY <1>0, <1>4, MaskMoves, MovesElsewhere, Zenon
<1>5. CASE \E n \in Int : thr' = [thr EXCEPT ![t].pc = pc, ![t].tmp = n]
    BY <1>0, <1>5, TmpMoves, MovesElsewhere, Zenon
<1> QED
    BY <1>1, <1>2, <1>3, <1>4, <1>5

\* While no connection ends, the loop clears no handler.
LEMMA StepNotClearing == IInv /\ NobodyLeaves /\ NotClearing /\ [Next]_vars => NotClearing'
<1> SUFFICES ASSUME IInv, NobodyLeaves, NotClearing, [Next]_vars PROVE NotClearing'
    OBVIOUS
<1>0. Loop \in Threads /\ Workers \subseteq Threads /\ StateOK /\ ControlOK
    BY DEF IInv, Threads
<1>1. CASE UNCHANGED vars \/ ClientStep \/ EpollWait
    <2>1. UNCHANGED thr
        BY <1>1, Zenon DEF vars, ClientStep, Connect, Send, Disconnect, ClientUnchanged, EpollWait, Abort
    <2> QED
        BY <2>1 DEF NotClearing
<1>2. CASE NextEvent
    <2>1. \/ UNCHANGED thr
          \/ \E e \in batch : thr' = [thr EXCEPT ![Loop].h = None, ![Loop].pc = "accept"]
          \/ \E e \in batch : /\ e.fd # Listen
                              /\ thr' = [thr EXCEPT ![Loop].h = fdToHandler[e.fd], ![Loop].pc = "dispatch"]
        BY <1>2, ZenonT(40) DEF NextEvent, NobodyLeaves, TakeEvent, Abort
    <2>2. \A e \in batch : e.fd # Listen => fdToHandler[e.fd] \in Clients \cup {None}
        BY <1>0 DEF StateOK, Fd
    <2>3. "accept" \in PCs /\ "dispatch" \in PCs
        BY DEF PCs
    <2> QED
        BY <1>0, <2>1, <2>2, <2>3, AssignsElsewhere, Zenon
<1>3. CASE Dispatch
    <2>1. thr[Loop].h \in Clients
        BY <1>0, <1>3 DEF Dispatch, At, ControlOK, Opened
    <2>2. Goto(Loop, "read") \/ Goto(Loop, "write")
        BY <1>3, <2>1, Zenon DEF Dispatch, NobodyLeaves
    <2> QED
        BY <1>0, <2>2, AssignsElsewhere DEF PCs
<1>4. CASE Accept
    <2>1. \/ UNCHANGED thr
          \/ k.backlog # <<>> /\ thr' = [thr EXCEPT ![Loop].pc = "mask", ![Loop].h = Head(k.backlog)]
        BY <1>4, Zenon DEF Accept, Abort
    <2>2. k.backlog # <<>> => Head(k.backlog) \in Clients
        BY <1>0, Fields
    <2>3. "mask" \in PCs
        BY DEF PCs
    <2> QED
        BY <1>0, <2>1, <2>2, <2>3, AssignsElsewhere, Zenon
<1>5. CASE Read \/ PushRequest \/ RunTask \/ Write \/ SetTypeRead
    <2>1. \E pc \in PCs \ {"clear"} : Goto(Loop, pc) \/ Return(Loop, pc)
        BY <1>5 DEF Read, PushRequest, RunTask, Write, SetTypeRead, SetType, PCs
    <2> QED
        BY <1>0, <2>1, AssignsElsewhere, Zenon
<1>6. ASSUME NEW t \in Threads, RegisterEventHandler(t) PROVE NotClearing'
    <2>1. CASE RegisterMask(t)
        <3>1. \E m \in Masks : thr' = [thr EXCEPT ![t].pc = "ctl", ![t].mask = m]
            BY <2>1 DEF RegisterMask, Masks
        <3> QED
            BY <3>1, AssignsElsewhere, Zenon DEF PCs
    <2>2. CASE RegisterCtl(t) \/ RegisterMap(t)
        <3>1. UNCHANGED thr \/ \E pc \in PCs \ {"clear"} : Goto(t, pc) \/ Return(t, pc)
            BY <2>2 DEF RegisterCtl, RegisterMap, Abort, PCs
        <3> QED
            BY <3>1, AssignsElsewhere, Zenon DEF NotClearing
    <2>3. CASE RegisterLoad(t) \/ RegisterStore(t)
        <3>1. /\ "store" \in PCs /\ "map" \in PCs /\ "store" # "clear" /\ "map" # "clear"
              /\ count \in Int /\ 0 \in Int
            BY <1>0 DEF PCs, StateOK
        <3>2. \/ thr' = [thr EXCEPT ![t].pc = "store", ![t].tmp = count]
              \/ thr' = [thr EXCEPT ![t].pc = "map", ![t].tmp = 0]
            BY <2>3, Zenon DEF RegisterLoad, RegisterStore
        <3> QED
            BY <1>6, <3>1, <3>2, AssignsElsewhere, Zenon
    <2> QED
        BY <1>6, <2>1, <2>2, <2>3 DEF RegisterEventHandler
<1>7. CASE ClearStore
    BY <1>7 DEF ClearStore, At, NotClearing
<1>8. ASSUME NEW w \in Workers, TakeTask(w) \/ LockHandler(w) \/ DrainRequest(w) \/ SetTypeWrite(w) \/ FinishTask(w)
      PROVE  NotClearing'
    <2>1. w \in Threads
        BY <1>0
    <2>2. CASE TakeTask(w)
        <3>1. thr' = [thr EXCEPT ![w].pc = "lock", ![w].h = Head(tasks)] /\ Head(tasks) \in Clients
            BY <1>0, <2>2 DEF TakeTask, StateOK
        <3> QED
            BY <2>1, <3>1, AssignsElsewhere, Zenon DEF PCs
    <2>3. CASE LockHandler(w) \/ DrainRequest(w) \/ SetTypeWrite(w) \/ FinishTask(w)
        <3>1. UNCHANGED thr \/ \E pc \in PCs \ {"clear"} : Goto(w, pc) \/ Return(w, pc)
            BY <2>3 DEF LockHandler, DrainRequest, SetTypeWrite, SetType, FinishTask, PCs
        <3> QED
            BY <2>1, <3>1, AssignsElsewhere, Zenon DEF NotClearing
    <2> QED
        BY <1>8, <2>2, <2>3
<1> QED
    BY <1>0, <1>1, <1>2, <1>3, <1>4, <1>5, <1>6, <1>7, <1>8 DEF Next, LoopStep, WorkerStep
----------------------------------------------------------------------------
(* The lookups of the event loop: what the map, the epoll set, the batch   *)
(* and the backlog know of each other.                                     *)

\* A connection, as its client sees it.
ConnT == [open : BOOLEAN, unread : 0 .. MaxRequests, sent : 0 .. MaxRequests,
          fin : BOOLEAN, err : BOOLEAN]
ConnOK == conn \in [Clients -> ConnT] /\ \A c \in Clients : conn[c].unread <= conn[c].sent

\* A handler in the map is registered, under the descriptor it was created with.
MapOK == \A f \in Fds : fdToHandler[f] # None => /\ handler[fdToHandler[f]].fd = f
                                                 /\ handler[fdToHandler[f]].registered

\* The loop has added descriptor f to the epoll set and not yet entered it in the map.
Adding(f) == thr[Loop].pc \in {"load", "store", "map"} /\ handler[thr[Loop].h].fd = f

\* What epoll watches is in the map, or about to be.
MaskOK == \A f \in Fds : k.mask[f] # "none" => fdToHandler[f] # None \/ Adding(f)

\* Tasks, workers and the loop between an event and the task have registered
\* handlers: their epoll_ctl is MOD, which adds no descriptor.
TaskOK ==
    /\ \A i \in DOMAIN tasks : handler[tasks[i]].registered
    /\ \A w \in Workers : thr[w].pc # "idle" => handler[thr[w].h].registered
    /\ thr[Loop].pc \in {"dispatch", "read", "push", "run"} => handler[thr[Loop].h].registered

\* The events still to be handled have a handler, one event for each descriptor,
\* and none for the event in hand.
BatchOK ==
    /\ \A e \in batch : e.fd # Listen => fdToHandler[e.fd] # None
    /\ \A d, e \in batch : d.fd = e.fd => d = e
    /\ thr[Loop].pc = "dispatch" => \A e \in batch : e.fd # handler[thr[Loop].h].fd
    /\ thr[Loop].pc = "accept" => \A e \in batch : e.fd # Listen

\* A client waits in the backlog at most once, and before it has a handler; an event
\* of the listening socket stands for a client that waits.
BacklogOK ==
    /\ \A i \in DOMAIN k.backlog : conn[k.backlog[i]].open /\ handler[k.backlog[i]].fd = None
    /\ \A i, j \in DOMAIN k.backlog : k.backlog[i] = k.backlog[j] => i = j
    /\ \A c \in Clients : ~conn[c].open => handler[c].fd = None
    /\ thr[Loop].pc = "accept" \/ (\E e \in batch : e.fd = Listen) => k.backlog # <<>>

LInv == ConnOK /\ MapOK /\ MaskOK /\ TaskOK /\ BatchOK /\ BacklogOK /\ LookupsSucceed
----------------------------------------------------------------------------
\* The fields the lookups depend on stay as they were.
SameFds == \A c \in Clients : /\ handler'[c].fd = handler[c].fd
                              /\ handler'[c].registered = handler[c].registered
SameConns == conn' \in [Clients -> ConnT] /\ \A c \in Clients :
                conn'[c].unread <= conn'[c].sent /\ conn'[c].open = conn[c].open

\* A thread goes on; nothing is added to the epoll set but what the loop adds, and
\* the map, the batch and the backlog stay.
GoesOn(t, pc, h) ==
    /\ Moves(t, pc, h) /\ SameFds /\ SameConns
    /\ UNCHANGED <<fdToHandler, batch, failed>> /\ k'.backlog = k.backlog
    /\ \A f \in Fds : k'.mask[f] # "none" =>
            k.mask[f] # "none" \/ (t = Loop /\ pc = "load" /\ handler[h].fd = f)
    /\ \A i \in DOMAIN tasks' : handler[tasks'[i]].registered
    /\ t = Loop => /\ pc \notin {"accept", "dispatch"}
                   /\ pc \in {"read", "push", "run"} => handler[h].registered
                   /\ thr[Loop].pc \in {"load", "store", "map"} =>
                        pc \in {"load", "store", "map"} /\ h = thr[Loop].h
    /\ t # Loop => pc = "idle" \/ handler[h].registered

\* A thread that goes on keeps the invariant of the lookups.
LEMMA ThreadKeeps ==
    ASSUME IInv, IInv', LInv, NEW t \in Threads, NEW pc, NEW h, GoesOn(t, pc, h)
    PROVE  LInv'
<1> USE DEF GoesOn
<1>0. /\ Loop \in Threads /\ Loop \notin Workers /\ Workers \subseteq Threads
      /\ StateOK /\ StateOK' /\ ControlOK /\ ControlOK'
    BY ReactorAssumption, SMTT(30) DEF Threads, IInv
<1>1. ConnOK'
    BY SMTT(30) DEF SameConns, ConnOK
<1>2. MapOK'
    BY <1>0, SMTT(30) DEF LInv, MapOK, SameFds, StateOK
<1>3. MaskOK'
    <2> SUFFICES ASSUME NEW f \in Fds, k'.mask[f] # "none", fdToHandler[f] = None PROVE Adding(f)'
        BY SMTT(30) DEF MaskOK
    <2>1. CASE k.mask[f] # "none"
        <3>1. thr[Loop].pc \in {"load", "store", "map"} /\ handler[thr[Loop].h].fd = f
            BY <2>1, SMTT(30) DEF LInv, MaskOK, Adding
        <3>2. thr'[Loop].pc \in {"load", "store", "map"} /\ thr'[Loop].h = thr[Loop].h
            BY <1>0, <3>1, SMTT(30) DEF Moves
        <3>3. thr[Loop].h \in Clients
            BY <1>0, <3>1 DEF ControlOK, Opened
        <3> QED
            BY <3>1, <3>2, <3>3, SMTT(30) DEF Adding, SameFds
    <2>2. CASE t = Loop /\ pc = "load" /\ handler[h].fd = f
        <3>1. thr'[Loop].pc = "load" /\ thr'[Loop].h = h
            BY <2>2, SMTT(30) DEF Moves
        <3>2. h \in Clients
            BY <1>0, <3>1 DEF ControlOK, Opened
        <3> QED
            BY <2>2, <3>1, <3>2, ZenonT(40) DEF Adding, SameFds
    <2> QED
        BY <2>1, <2>2
<1>4. TaskOK'
    <2>1. \A i \in DOMAIN tasks' : tasks'[i] \in Clients
        BY <1>0, ZenonT(40) DEF ControlOK, Opened
    <2>2. \A i \in DOMAIN tasks' : handler'[tasks'[i]].registered
        BY <2>1, ZenonT(40) DEF SameFds
    <2>3. ASSUME NEW w \in Workers, thr'[w].pc # "idle" PROVE handler'[thr'[w].h].registered
        <3>1. thr'[w].h \in Clients
            BY <1>0, <2>3, SMTT(30) DEF ControlOK, Opened, LoopOnly
        <3>2. handler[thr'[w].h].registered
            BY <1>0, <2>3, SMTT(30) DEF LInv, TaskOK, Moves
        <3> QED
            BY <3>1, <3>2, ZenonT(40) DEF SameFds
    <2>4. ASSUME thr'[Loop].pc \in {"dispatch", "read", "push", "run"}
          PROVE  handler'[thr'[Loop].h].registered
        <3>1. thr'[Loop].h \in Clients
            BY <1>0, <2>4, ZenonT(40) DEF ControlOK, Opened
        <3>2. handler[thr'[Loop].h].registered
            BY <1>0, <2>4 DEF LInv, TaskOK, Moves
        <3> QED
            BY <3>1, <3>2 DEF SameFds
    <2> QED
        BY <2>2, <2>3, <2>4, ZenonT(40) DEF TaskOK
<1>5. thr'[Loop].pc \in {"accept", "dispatch"} =>
        thr'[Loop].pc = thr[Loop].pc /\ thr'[Loop].h = thr[Loop].h
    BY <1>0, SMTT(30) DEF Moves
<1>6. BatchOK'
    <2>1. thr[Loop].pc = "dispatch" => thr[Loop].h \in Clients
        BY <1>0, SMTT(30) DEF ControlOK, Opened
    <2> QED
        BY <1>5, <2>1, SMTT(30) DEF LInv, BatchOK, SameFds
<1>7. BacklogOK'
    <2>0. k.backlog \in Seq(Clients)
        BY <1>0, Fields
    <2>1. \A i \in DOMAIN k.backlog : k.backlog[i] \in Clients
        BY <2>0
    <2> QED
        BY <1>5, <2>1, SMTT(30) DEF LInv, BacklogOK, SameFds, SameConns
<1> QED
    BY <1>1, <1>2, <1>3, <1>4, <1>6, <1>7, SMTT(30) DEF LInv, LookupsSucceed, ReadyFdMapped,
       AcceptFindsConnection

\* What the assignments to a handler leave of its descriptor.
LEMMA SameFdsHandler ==
    ASSUME StateOK, NEW c \in Clients
    PROVE  /\ handler' = handler => SameFds
           /\ \A type \in {"kRead", "kWrite", "kError"} :
                handler' = [handler EXCEPT ![c].type = type] => SameFds
           /\ \A m \in Workers \cup {None} : handler' = [handler EXCEPT ![c].mutex = m] => SameFds
           /\ handler' = [handler EXCEPT ![c].reqs = @ + 1] => SameFds
           /\ handler' = [handler EXCEPT ![c].resps = @ - 1] => SameFds
           /\ handler' = [handler EXCEPT ![c].reqs = @ - 1, ![c].resps = @ + 1] => SameFds
<1>0. handler \in [Clients -> HandlerT]
    BY DEF StateOK
<1>1. handler' = handler => SameFds
    BY DEF SameFds
<1>2. ASSUME NEW type \in {"kRead", "kWrite", "kError"},
             handler' = [handler EXCEPT ![c].type = type]
      PROVE  SameFds
    BY <1>0, <1>2 DEF SameFds, HandlerT
<1>3. ASSUME NEW m \in Workers \cup {None}, handler' = [handler EXCEPT ![c].mutex = m]
      PROVE  SameFds
    BY <1>0, <1>3 DEF SameFds, HandlerT
<1>4. ASSUME handler' = [handler EXCEPT ![c].reqs = @ + 1] PROVE SameFds
    BY <1>0, <1>4 DEF SameFds, HandlerT
<1>5. ASSUME handler' = [handler EXCEPT ![c].resps = @ - 1] PROVE SameFds
    BY <1>0, <1>5 DEF SameFds, HandlerT
<1>6. ASSUME handler' = [handler EXCEPT ![c].reqs = @ - 1, ![c].resps = @ + 1] PROVE SameFds
    BY <1>0, <1>6 DEF SameFds, HandlerT
<1> QED
    BY <1>1, <1>2, <1>3, <1>4, <1>5, <1>6

\* Destructors watch nothing new and touch neither backlog.
LEMMA DtorsForget ==
    ASSUME NEW kern \in KernelT, DtorsRun(kern)
    PROVE  /\ k'.backlog = kern.backlog
           /\ \A f \in Fds : k'.mask[f] # "none" => kern.mask[f] # "none"
BY DEF DtorsRun, Close, KernelT

\* Connections that no step of the server changes.
LEMMA SameConn == ASSUME LInv, conn' = conn PROVE SameConns
BY DEF LInv, ConnOK, SameConns

\* A failing CHECK other than the two.
LEMMA AbortKeepsL ==
    ASSUME LInv, NEW check, check \notin {"map", "accept"}, Abort(check) PROVE LInv'
<1>1. ConnOK' /\ MapOK' /\ MaskOK'
    BY SMTT(30) DEF Abort, LInv, ConnOK, MapOK, MaskOK, Adding
<1>2. TaskOK' /\ BatchOK' /\ BacklogOK'
    BY DEF Abort, LInv, TaskOK, BatchOK, BacklogOK
<1> QED
    BY <1>1, <1>2, SMTT(30) DEF Abort, LInv, LookupsSucceed, ReadyFdMapped, AcceptFindsConnection

\* Nothing happens.
LEMMA StutterKeepsL == ASSUME LInv, UNCHANGED vars PROVE LInv'
<1>1. ConnOK' /\ MapOK' /\ MaskOK'
    BY SMTT(30) DEF vars, LInv, ConnOK, MapOK, MaskOK, Adding
<1>2. TaskOK' /\ BatchOK' /\ BacklogOK'
    BY SMTT(30) DEF vars, LInv, TaskOK, BatchOK, BacklogOK
<1> QED
    BY <1>1, <1>2, SMTT(30) DEF vars, LInv, LookupsSucceed, ReadyFdMapped, AcceptFindsConnection

\* A client's step on its connection, other than Connect.
LEMMA ClientKeepsL ==
    ASSUME IInv, LInv, SameConns, ClientUnchanged, k'.backlog = k.backlog, k'.mask = k.mask
    PROVE  LInv'
<1>1. ConnOK' /\ MapOK' /\ MaskOK'
    BY SMTT(30) DEF ClientUnchanged, SameConns, LInv, ConnOK, MapOK, MaskOK, Adding
<1>2. TaskOK' /\ BatchOK'
    BY SMTT(30) DEF ClientUnchanged, LInv, TaskOK, BatchOK
<1>3. BacklogOK'
    <2>1. \A i \in DOMAIN k.backlog : k.backlog[i] \in Clients
        BY Fields DEF IInv
    <2> QED
        BY <2>1, SMTT(30) DEF ClientUnchanged, SameConns, LInv, BacklogOK
<1> QED
    BY <1>1, <1>2, <1>3, SMTT(30) DEF ClientUnchanged, LInv, LookupsSucceed, ReadyFdMapped,
       AcceptFindsConnection

\* A client connects once, so it is not in the backlog yet and has no handler.
LEMMA ConnectKeepsL == ASSUME IInv, LInv, NEW c \in Clients, Connect(c) PROVE LInv'
<1>0. /\ ~conn[c].open /\ conn' = [conn EXCEPT ![c].open = TRUE] /\ ClientUnchanged
      /\ k' = [k EXCEPT !.backlog = Append(@, c), !.rdy = @ \cup {Listen}]
    BY DEF Connect
<1>1. k'.backlog = Append(k.backlog, c) /\ k'.mask = k.mask
    BY <1>0, SMTT(30) DEF IInv, StateOK, KernelT
<1>2. k.backlog \in Seq(Clients)
    BY Fields DEF IInv
<1>3. /\ ConnOK' /\ conn'[c].open /\ \A d \in Clients : conn[d].open => conn'[d].open
      /\ \A d \in Clients \ {c} : conn'[d] = conn[d]
    BY <1>0, ZenonT(40) DEF LInv, ConnOK, ConnT
<1>4. MapOK' /\ MaskOK' /\ TaskOK' /\ BatchOK'
    BY <1>0, <1>1, SMTT(30) DEF ClientUnchanged, LInv, MapOK, MaskOK, Adding, TaskOK, BatchOK
<1>5. BacklogOK'
    <2> DEFINE b == k.backlog
               n == Len(b)
    <2>1. /\ n \in Nat /\ DOMAIN b = 1 .. n /\ DOMAIN k'.backlog = 1 .. n + 1
          /\ \A i \in 1 .. n : k'.backlog[i] = b[i] /\ b[i] \in Clients
          /\ k'.backlog[n + 1] = c /\ k'.backlog # <<>>
        BY <1>1, <1>2
    <2>2. \A i \in 1 .. n : b[i] # c /\ conn[b[i]].open /\ handler[b[i]].fd = None
        BY <1>0, <2>1 DEF LInv, BacklogOK
    <2>3. \A i, j \in 1 .. n : b[i] = b[j] => i = j
        BY <2>1, Zenon DEF LInv, BacklogOK
    <2>4. handler[c].fd = None /\ \A d \in Clients : ~conn[d].open => handler[d].fd = None
        BY <1>0 DEF LInv, BacklogOK
    <2> HIDE DEF n, b
    <2>5. \A i \in 1 .. n + 1 : i \in 1 .. n \/ i = n + 1
        BY <2>1
    <2>6. \A i \in DOMAIN k'.backlog : conn'[k'.backlog[i]].open /\ handler'[k'.backlog[i]].fd = None
        BY <1>0, <1>3, <2>1, <2>2, <2>4, <2>5 DEF ClientUnchanged
    <2>7. \A i, j \in DOMAIN k'.backlog : k'.backlog[i] = k'.backlog[j] => i = j
        BY <2>1, <2>2, <2>3, <2>5
    <2>8. \A d \in Clients : ~conn'[d].open => handler'[d].fd = None
        BY <1>0, <1>3, <2>4 DEF ClientUnchanged
    <2> QED
        BY <2>1, <2>6, <2>7, <2>8 DEF BacklogOK
<1> QED
    BY <1>0, <1>3, <1>4, <1>5 DEF ClientUnchanged, LInv, LookupsSucceed, ReadyFdMapped,
       AcceptFindsConnection

\* Requests and disconnections leave the backlog and the epoll set alone.
LEMMA ClientStepKeepsL == ASSUME IInv, LInv, ClientStep PROVE LInv'
<1>1. ASSUME NEW c \in Clients, Send(c) PROVE LInv'
    <2>1. /\ conn' = [conn EXCEPT ![c].sent = @ + 1, ![c].unread = @ + 1]
          /\ conn[c].sent < MaxRequests /\ Wake(c, FALSE) /\ ClientUnchanged
        BY <1>1, Zenon DEF Send
    <2>2. k'.backlog = k.backlog /\ k'.mask = k.mask
        BY <2>1 DEF Wake, IInv, StateOK, KernelT
    <2>3. SameConns
        BY <2>1, ReactorAssumption DEF LInv, ConnOK, ConnT, SameConns
    <2> QED
        BY <2>1, <2>2, <2>3, ClientKeepsL
<1>2. ASSUME NEW c \in Clients, Disconnect(c) PROVE LInv'
    <2>1. Wake(c, TRUE) /\ ClientUnchanged
        BY <1>2, Zenon DEF Disconnect
    <2>2. k'.backlog = k.backlog /\ k'.mask = k.mask
        BY <2>1 DEF Wake, IInv, StateOK, KernelT
    <2>3. \/ conn' = [conn EXCEPT ![c].fin = TRUE]
          \/ \E rst \in BOOLEAN : conn' = [conn EXCEPT ![c].err = TRUE, ![c].fin = rst]
        BY <1>2, ZenonT(40) DEF Disconnect
    <2>4. SameConns
        <3>0. conn[c] \in ConnT /\ conn[c].unread <= conn[c].sent
            BY DEF LInv, ConnOK
        <3>1. PICK f \in BOOLEAN, e \in BOOLEAN :
                conn' = [conn EXCEPT ![c] = [conn[c] EXCEPT !.fin = f, !.err = e]]
            <4>1. CASE conn' = [conn EXCEPT ![c].fin = TRUE]
                <5>1. conn' = [conn EXCEPT ![c] = [conn[c] EXCEPT !.fin = TRUE, !.err = conn[c].err]]
                    BY <3>0, <4>1, Zenon DEF ConnT
                <5>2. conn[c].err \in BOOLEAN
                    BY <3>0 DEF ConnT
                <5> QED
                    BY <5>1, <5>2, Zenon
            <4>2. ASSUME NEW rst \in BOOLEAN, conn' = [conn EXCEPT ![c].err = TRUE, ![c].fin = rst]
                  PROVE  \E f \in BOOLEAN, e \in BOOLEAN :
                            conn' = [conn EXCEPT ![c] = [conn[c] EXCEPT !.fin = f, !.err = e]]
                <5>1. conn' = [conn EXCEPT ![c] = [conn[c] EXCEPT !.fin = rst, !.err = TRUE]]
                    BY <3>0, <4>2, Zenon DEF LInv, ConnOK, ConnT
                <5> QED
                    BY <5>1, Zenon
            <4> QED
                BY <2>3, <4>1, <4>2, Zenon
        <3> DEFINE r == [conn[c] EXCEPT !.fin = f, !.err = e]
        <3>2. r \in ConnT /\ r.open = conn[c].open /\ r.unread <= r.sent
            BY <3>0, Zenon DEF ConnT
        <3> HIDE DEF r
        <3> QED
            BY <3>1, <3>2 DEF LInv, ConnOK, SameConns, r
    <2> QED
        BY <2>1, <2>2, <2>4, ClientKeepsL
<1> QED
    BY <1>1, <1>2, ConnectKeepsL DEF ClientStep

\* epoll_wait reports watched descriptors, each once; at that point the loop is
\* adding none.
LEMMA EpollWaitKeepsL == ASSUME IInv, LInv, EpollWait PROVE LInv'
<1>1. CASE count <= 0
    BY <1>1, AbortKeepsL DEF EpollWait
<1>2. CASE ~(count <= 0)
    <2> DEFINE Event(f) == [fd |-> f, rdhup |-> f # Listen /\ conn[k.owner[f]].fin,
                            err |-> f # Listen /\ conn[k.owner[f]].err]
               ready == {f \in k.rdy : IF f = Listen THEN k.backlog # <<>>
                                                     ELSE Reportable(f, k.mask[f])}
    <2>1. PICK got \in SUBSET ready :
            /\ batch' = {Event(f) : f \in got} /\ k' = [k EXCEPT !.rdy = @ \ got]
            /\ UNCHANGED <<conn, handler, fdToHandler, tasks, thr, failed>>
        BY <1>2, Zenon DEF EpollWait
    <2>2. k'.mask = k.mask /\ k'.backlog = k.backlog
        BY <2>1 DEF IInv, StateOK, KernelT
    <2>3. thr[Loop].pc = "next"
        BY SMTT(30) DEF EpollWait, At
    <2>4. \A f \in got : f # Listen => f \in Fds /\ k.mask[f] # "none"
        BY Fields DEF IInv, Reportable, Fd
    <2>5. \A f \in got : f = Listen => k.backlog # <<>>
        BY SMTT(30)
    <2>6. \A f \in got : f # Listen => fdToHandler[f] # None
        BY <2>3, <2>4 DEF LInv, MaskOK, Adding
    <2>7. \A e \in batch' : \E f \in got : e = Event(f) /\ e.fd = f
        BY <2>1
    <2> HIDE DEF ready, Event
    <2>8. BatchOK'
        BY <2>1, <2>3, <2>6, <2>7 DEF BatchOK
    <2>9. BacklogOK'
        <3>1. (\E e \in batch' : e.fd = Listen) => k.backlog # <<>>
            BY <2>5, <2>7
        <3> QED
            BY <2>1, <2>2, <2>3, <3>1 DEF LInv, BacklogOK
    <2>10. ConnOK' /\ MapOK' /\ MaskOK' /\ TaskOK'
        BY <2>1, <2>2 DEF LInv, ConnOK, MapOK, MaskOK, Adding, TaskOK
    <2> QED
        BY <2>1, <2>8, <2>9, <2>10 DEF LInv, LookupsSucceed, ReadyFdMapped, AcceptFindsConnection
<1> QED
    BY <1>1, <1>2

\* A handler leaves the map with its descriptor leaving the epoll set, and no event
\* of that descriptor is left in the batch.
LEMMA ClearKeepsL ==
    ASSUME IInv, IInv', LInv, thr[Loop].pc \in {"next", "dispatch"}, NEW h \in Clients,
           handler[h].fd \in Fds, NEW rest \in SUBSET batch,
           \A e \in rest : e.fd # handler[h].fd,
           NEW handlers,
           handlers = handler \/ handlers = [handler EXCEPT ![h].type = "kError"],
           ClearEventHandler(h, rest, handlers)
    PROVE  LInv'
<1> DEFINE f == handler[h].fd
<1>0. StateOK /\ Loop \in Threads /\ Loop \notin Workers /\ ControlOK /\ ControlOK'
    BY ReactorAssumption DEF IInv, Threads
<1>1. CASE ~CtlOk("DEL", f)
    BY <1>1, AbortKeepsL DEF ClearEventHandler
<1>2. CASE CtlOk("DEL", f)
    <2>1. /\ batch' = rest /\ handler' = handlers /\ tasks' = tasks /\ failed' = failed
          /\ fdToHandler' = [fdToHandler EXCEPT ![f] = None] /\ conn' = conn
          /\ thr' = [thr EXCEPT ![Loop].pc = "clear", ![Loop].h = h, ![Loop].tmp = count]
          /\ DtorsRun(Ctl(f, "none"))
        BY <1>2 DEF ClearEventHandler
    <2>2. Moves(Loop, "clear", h)
        BY <1>0, <2>1, ClearMoves, Zenon
    <2>3. SameFds
        BY <1>0, <2>1, SameFdsHandler, Zenon
    <2>4. Ctl(f, "none") \in KernelT
        BY <1>0, CtlKeeps DEF Masks
    <2>5. k'.backlog = k.backlog /\ \A g \in Fds : k'.mask[g] # "none" => g # f /\ k.mask[g] # "none"
        <3>1. /\ Ctl(f, "none").backlog = k.backlog
              /\ \A g \in Fds : Ctl(f, "none").mask[g] # "none" => g # f /\ k.mask[g] # "none"
            BY <1>0 DEF Ctl, StateOK, KernelT
        <3> QED
            BY <2>1, <2>4, <3>1, DtorsForget, Zenon
    <2>6. \A g \in Fds : fdToHandler'[g] = IF g = f THEN None ELSE fdToHandler[g]
        BY <1>0, <2>1 DEF StateOK
    <2>7. thr'[Loop].pc = "clear" /\ \A w \in Workers : thr'[w].pc = thr[w].pc /\ thr'[w].h = thr[w].h
        BY <1>0, <2>2 DEF Moves, Threads
    <2>0. \A e \in rest : e \in batch /\ e.fd # f
        OBVIOUS
    <2> HIDE DEF f
    <2>8. ConnOK' /\ MapOK'
        BY <1>0, <2>1, <2>3, <2>6 DEF LInv, ConnOK, MapOK, SameFds, StateOK
    <2>9. MaskOK'
        BY <2>5, <2>6 DEF LInv, MaskOK, Adding
    <2>10. TaskOK'
        <3>1. \A i \in DOMAIN tasks : tasks[i] \in Clients
            BY <1>0 DEF ControlOK, Opened
        <3>2. \A w \in Workers : thr[w].pc # "idle" => thr[w].h \in Clients
            BY <1>0 DEF ControlOK, Opened, LoopOnly, Threads
        <3> QED
            BY <2>1, <2>3, <2>7, <3>1, <3>2, ZenonT(40) DEF LInv, TaskOK, SameFds
    <2>11. BatchOK'
        <3>1. \A e \in rest : e.fd # Listen => e.fd \in Fds
            BY <1>0 DEF StateOK, Fd
        <3> QED
            <4>1. \A e \in batch' : e.fd # Listen => fdToHandler'[e.fd] # None
                BY <2>0, <2>1, <2>6, <3>1 DEF LInv, BatchOK
            <4>2. \A d, e \in batch' : d.fd = e.fd => d = e
                BY <2>0, <2>1 DEF LInv, BatchOK
            <4> QED
                BY <2>7, <4>1, <4>2 DEF BatchOK
    <2>12. BacklogOK'
        <3>1. \A i \in DOMAIN k.backlog : k.backlog[i] \in Clients
            BY <1>0, Fields
        <3> QED
            BY <2>1, <2>3, <2>5, <2>7, <3>1 DEF LInv, BacklogOK, SameFds
    <2> QED
        BY <2>1, <2>8, <2>9, <2>10, <2>11, <2>12 DEF LInv, LookupsSucceed, ReadyFdMapped,
           AcceptFindsConnection
<1> QED
    BY <1>1, <1>2

\* The loop takes an event out of the batch; the map has its handler.
LEMMA TakeEventKeepsL ==
    ASSUME IInv, IInv', LInv, thr[Loop].pc = "next", NEW e \in batch, NEW h, NEW pc, NEW handlers,
           \/ pc = "accept" /\ h = None /\ handlers = handler /\ e.fd = Listen
           \/ /\ pc = "dispatch" /\ h \in Clients /\ handler[h].fd = e.fd /\ handler[h].registered
              /\ handlers = handler \/ handlers = [handler EXCEPT ![h].type = "kError"],
           TakeEvent(h, batch \ {e}, handlers, pc)
    PROVE  LInv'
<1>0. /\ StateOK /\ Loop \in Threads /\ Loop \notin Workers /\ pc \in {"accept", "dispatch"}
      /\ h \in Clients \cup {None} /\ ControlOK /\ ControlOK'
    BY ReactorAssumption DEF IInv, Threads
<1>1. /\ batch' = batch \ {e} /\ handler' = handlers
      /\ UNCHANGED <<conn, k, tasks, fdToHandler, failed>>
      /\ thr' = [thr EXCEPT ![Loop].h = h, ![Loop].pc = pc]
    BY DEF TakeEvent
<1>2. Moves(Loop, pc, h)
    BY <1>0, <1>1, TakeMoves, Zenon DEF PCs
<1>3. SameFds
    BY <1>0, <1>1, SameFdsHandler, Zenon DEF SameFds
<1>4. /\ thr'[Loop].pc = pc /\ thr'[Loop].h = h
      /\ \A w \in Workers : thr'[w].pc = thr[w].pc /\ thr'[w].h = thr[w].h
    BY <1>0, <1>2 DEF Moves, Threads
<1>5. ConnOK' /\ MapOK'
    BY <1>0, <1>1, <1>3 DEF LInv, ConnOK, MapOK, SameFds, StateOK
<1>6. MaskOK'
    BY <1>1 DEF LInv, MaskOK, Adding
<1>7. TaskOK'
    <2>1. \A i \in DOMAIN tasks : tasks[i] \in Clients
        BY <1>0 DEF ControlOK, Opened
    <2>2. \A w \in Workers : thr[w].pc # "idle" => thr[w].h \in Clients
        BY <1>0 DEF ControlOK, Opened, LoopOnly, Threads
    <2>3. \A i \in DOMAIN tasks' : handler'[tasks'[i]].registered
        BY <1>1, <1>3, <2>1 DEF LInv, TaskOK, SameFds
    <2>4. \A w \in Workers : thr'[w].pc # "idle" => handler'[thr'[w].h].registered
        BY <1>3, <1>4, <2>2 DEF LInv, TaskOK, SameFds
    <2>5. pc = "dispatch" => handler'[h].registered
        BY <1>3 DEF SameFds
    <2>6. thr'[Loop].pc \in {"dispatch", "read", "push", "run"} => handler'[thr'[Loop].h].registered
        BY <1>0, <1>4, <2>5
    <2> QED
        BY <2>3, <2>4, <2>6 DEF TaskOK
<1>8. \A d \in batch' : d \in batch /\ d.fd # e.fd
    BY <1>1 DEF LInv, BatchOK
<1>9. BatchOK'
    <2>1. CASE pc = "accept"
        BY <1>1, <1>4, <1>8, <2>1 DEF LInv, BatchOK
    <2>2. CASE pc = "dispatch"
        <3>1. handler'[thr'[Loop].h].fd = e.fd
            BY <1>3, <1>4, <2>2 DEF SameFds
        <3> QED
            BY <1>1, <1>4, <1>8, <2>2, <3>1, ZenonT(40) DEF LInv, BatchOK
    <2> QED
        BY <1>0, <2>1, <2>2
<1>10. BacklogOK'
    <2>1. \A i \in DOMAIN k.backlog : k.backlog[i] \in Clients
        BY <1>0, Fields
    <2>2. pc = "accept" => e.fd = Listen
        OBVIOUS
    <2> QED
        BY <1>1, <1>3, <1>4, <1>8, <2>1, <2>2 DEF LInv, BacklogOK, SameFds
<1> QED
    BY <1>1, <1>5, <1>6, <1>7, <1>9, <1>10 DEF LInv, LookupsSucceed, ReadyFdMapped,
       AcceptFindsConnection

\* Whatever event the loop takes, the map has a handler for it.
LEMMA NextEventKeepsL == ASSUME IInv, IInv', LInv, NextEvent PROVE LInv'
<1>1. thr[Loop].pc = "next"
    BY DEF NextEvent, At
<1> DEFINE H(e) == fdToHandler[e.fd]
           Marked(e) == IF e.err THEN [handler EXCEPT ![H(e)].type = "kError"] ELSE handler
<1>2. PICK e \in batch :
        \/ e.fd = Listen /\ TakeEvent(None, batch \ {e}, handler, "accept")
        \/ /\ e.fd # Listen
           /\ IF H(e) = None THEN Abort("map")
              ELSE IF e.rdhup THEN ClearEventHandler(H(e), batch \ {e}, Marked(e))
              ELSE TakeEvent(H(e), batch \ {e}, Marked(e), "dispatch")
    BY ZenonT(40) DEF NextEvent
<1>3. CASE e.fd = Listen
    <2>1. TakeEvent(None, batch \ {e}, handler, "accept")
        BY <1>2, <1>3
    <2> QED
        BY <1>1, <1>3, <2>1, TakeEventKeepsL, Zenon
<1>4. CASE e.fd # Listen
    <2>0. H(e) # None
        BY <1>4 DEF LInv, BatchOK
    <2>1. e.fd \in Fds
        BY <1>4, SMTT(30) DEF IInv, StateOK, Fd
    <2>2. H(e) \in Clients /\ handler[H(e)].fd = e.fd /\ handler[H(e)].registered
        BY <2>0, <2>1 DEF IInv, ControlOK, Opened, LInv, MapOK
    <2>3. Marked(e) = handler \/ Marked(e) = [handler EXCEPT ![H(e)].type = "kError"]
        OBVIOUS
    <2> DEFINE rest == batch \ {e}
    <2>4. \/ ClearEventHandler(H(e), rest, Marked(e))
          \/ TakeEvent(H(e), rest, Marked(e), "dispatch")
        BY <1>2, <1>4, <2>0
    <2>5. rest \in SUBSET batch /\ \A d \in rest : d.fd # e.fd
        BY DEF LInv, BatchOK
    <2> HIDE DEF H, Marked
    <2>6. CASE ClearEventHandler(H(e), rest, Marked(e))
        <3> HIDE DEF rest
        <3>1. handler[H(e)].fd \in Fds /\ \A d \in rest : d.fd # handler[H(e)].fd
            BY <2>1, <2>2, <2>5
        <3> QED
            BY <1>1, <2>2, <2>3, <2>5, <2>6, <3>1, ClearKeepsL
    <2>7. CASE TakeEvent(H(e), rest, Marked(e), "dispatch")
        BY <1>1, <2>2, <2>3, <2>7, TakeEventKeepsL, ZenonT(40)
    <2> QED
        BY <2>4, <2>6, <2>7
<1> QED
    BY <1>3, <1>4

\* Facts every step of a thread starts from.
LEMMA Ground ==
    ASSUME IInv, LInv
    PROVE  /\ StateOK /\ ControlOK /\ Loop \in Threads /\ Loop \notin Workers
           /\ Workers \subseteq Threads /\ \A w \in Workers : w # Loop
           /\ \A i \in DOMAIN tasks : handler[tasks[i]].registered
           /\ conn' = conn => SameConns
BY ReactorAssumption, SameConn DEF IInv, Threads, LInv, TaskOK

\* Dispatch: the handler in hand has no other event in the batch.
LEMMA DispatchKeepsL == ASSUME IInv, IInv', LInv, Dispatch PROVE LInv'
<1> DEFINE h == thr[Loop].h
<1>1. thr[Loop].pc = "dispatch" /\ h \in Clients /\ handler[h].fd \in Fds /\ handler[h].registered
    BY Zenon DEF Dispatch, At, IInv, ControlOK, Opened, LInv, TaskOK, Threads
<1>2. CASE handler[h].type = "kError"
    <2>1. \A e \in batch : e.fd # handler[h].fd
        BY <1>1, SMTT(30) DEF LInv, BatchOK
    <2> QED
        BY <1>1, <1>2, <2>1, ClearKeepsL DEF Dispatch
<1>3. CASE handler[h].type # "kError"
    <2> DEFINE pc == IF handler[h].type = "kRead" THEN "read" ELSE "write"
    <2>1. Goto(Loop, pc) /\ UNCHANGED <<conn, k, handler, fdToHandler, tasks, batch, failed>>
        BY <1>3 DEF Dispatch
    <2>2. pc \in {"read", "write"}
        BY SMTT(30)
    <2> HIDE DEF pc
    <2>3. Moves(Loop, pc, h)
        BY <2>1, <2>2, Ground, GotoMoves DEF PCs
    <2>4. SameFds
        BY <2>1 DEF SameFds
    <2> QED
        BY <1>1, <2>1, <2>2, <2>3, <2>4, Ground, ThreadKeeps, SMTT(30) DEF GoesOn
<1> QED
    BY <1>2, <1>3

\* The rest of ClearEventHandler adds nothing.
LEMMA ClearStoreKeepsL == ASSUME IInv, IInv', LInv, ClearStore PROVE LInv'
<1> DEFINE kern == Close(k, {handler[thr[Loop].h].fd})
<1>1. thr[Loop].pc = "clear"
    BY DEF ClearStore, At
<1>2. /\ Return(Loop, "next") /\ UNCHANGED <<conn, handler, fdToHandler, tasks, batch, failed>>
      /\ DtorsRun(kern)
    BY Zenon DEF ClearStore
<1>3. Moves(Loop, "next", None)
    BY <1>2, Ground, ReturnMoves DEF PCs
<1>4. SameFds
    BY <1>2, Zenon DEF SameFds
<1>5. kern \in KernelT
    BY Ground, CloseKeeps, Zenon DEF StateOK
<1>6. kern.backlog = k.backlog /\ \A f \in Fds : kern.mask[f] # "none" => k.mask[f] # "none"
    BY Ground DEF Close, StateOK, KernelT
<1> HIDE DEF kern
<1>7. k'.backlog = k.backlog /\ \A f \in Fds : k'.mask[f] # "none" => k.mask[f] # "none"
    BY <1>2, <1>5, <1>6, DtorsForget, Zenon
<1> QED
    BY <1>1, <1>2, <1>3, <1>4, <1>7, Ground, ThreadKeeps DEF GoesOn

\* The accepted client had no handler: nobody else knows the handler it gets.
LEMMA AcceptKeepsL == ASSUME IInv, IInv', LInv, Accept PROVE LInv'
<1>0. thr[Loop].pc = "accept"
    BY Zenon DEF Accept, At
<1>1. k.backlog # <<>>
    BY <1>0 DEF LInv, BacklogOK
<1> DEFINE b == k.backlog
           c == Head(b)
           n == Len(b)
<1>2. PICK f \in Fds :
        /\ k' = [k EXCEPT !.backlog = Tail(@), !.owner[f] = c]
        /\ handler' = [handler EXCEPT ![c].fd = f]
        /\ thr' = [thr EXCEPT ![Loop].pc = "mask", ![Loop].h = c]
        /\ UNCHANGED <<conn, fdToHandler, tasks, batch, failed>>
    BY <1>1, Zenon DEF Accept
<1>3. k'.backlog = Tail(b) /\ k'.mask = k.mask
    BY <1>2, Ground, SMTT(30) DEF StateOK, KernelT
<1>4. b \in Seq(Clients)
    BY Fields, Ground, SMTT(30)
<1>5. /\ c \in Clients /\ c = b[1] /\ n \in Nat \ {0} /\ DOMAIN b = 1 .. n
      /\ DOMAIN k'.backlog = 1 .. n - 1
      /\ \A i \in 1 .. n - 1 : k'.backlog[i] = b[i + 1] /\ i + 1 \in 1 .. n /\ i + 1 # 1
      /\ \A i \in 1 .. n : b[i] \in Clients
    BY <1>1, <1>3, <1>4
<1> HIDE DEF b, c, n
<1>6. /\ \A i \in 1 .. n : conn[b[i]].open /\ handler[b[i]].fd = None
      /\ \A i, j \in 1 .. n : b[i] = b[j] => i = j
      /\ \A d \in Clients : ~conn[d].open => handler[d].fd = None
    BY <1>5, ZenonT(40) DEF LInv, BacklogOK, b
<1>7. handler[c].fd = None /\ conn[c].open /\ None \notin Fds
    <2>1. None \notin Fds
        BY ReactorAssumption
    <2> QED
        BY <1>5, <1>6, <2>1
<1>8. /\ handler'[c].fd = f /\ handler'[c].registered = handler[c].registered
      /\ \A d \in Clients \ {c} : handler'[d] = handler[d]
    BY <1>2, <1>5, Ground DEF StateOK, HandlerT
<1>9. Moves(Loop, "mask", c)
    BY <1>2, <1>5, Ground, TakeMoves, ZenonT(40) DEF PCs
<1>10. /\ thr'[Loop].pc = "mask" /\ thr'[Loop].h = c
       /\ \A w \in Workers : thr'[w].pc = thr[w].pc /\ thr'[w].h = thr[w].h
    BY <1>9, Ground DEF Moves
<1>11. ConnOK' /\ MapOK'
    <2>1. \A g \in Fds : fdToHandler[g] # None => fdToHandler[g] \in Clients \ {c}
        BY <1>7, Ground DEF StateOK, ControlOK, Opened
    <2> QED
        BY <1>2, <1>8, <2>1, SMTT(30) DEF LInv, ConnOK, MapOK
<1>12. MaskOK'
    BY <1>0, <1>2, <1>3 DEF LInv, MaskOK, Adding
<1>13. TaskOK'
    <2>1. \A i \in DOMAIN tasks : tasks[i] \in Clients
        BY Ground, ZenonT(40) DEF ControlOK, Opened
    <2>2. \A w \in Workers : thr[w].pc # "idle" => thr[w].h \in Clients
        BY Ground, SMTT(30) DEF ControlOK, Opened, LoopOnly
    <2>3. \A d \in Clients : handler[d].registered => handler'[d].registered
        BY <1>8
    <2> QED
        BY <1>2, <1>10, <2>1, <2>2, <2>3, ZenonT(40) DEF LInv, TaskOK
<1>14. BatchOK'
    BY <1>2, <1>10, SMTT(30) DEF LInv, BatchOK
<1>15. BacklogOK'
    <2>1. \A i \in 1 .. n - 1 : k'.backlog[i] \in Clients \ {c}
        BY <1>5, <1>6
    <2>2. \A i \in DOMAIN k'.backlog : conn'[k'.backlog[i]].open /\ handler'[k'.backlog[i]].fd = None
        BY <1>2, <1>5, <1>6, <1>8, <2>1
    <2>3. \A i, j \in DOMAIN k'.backlog : k'.backlog[i] = k'.backlog[j] => i = j
        <3>1. \A i, j \in 1 .. n - 1 : b[i + 1] = b[j + 1] => i + 1 = j + 1
            BY <1>5, <1>6
        <3> QED
            BY <1>5, <3>1, SMTT(30)
    <2>4. \A d \in Clients : ~conn'[d].open => handler'[d].fd = None
        BY <1>2, <1>6, <1>7, <1>8
    <2>5. \A e \in batch' : e.fd # Listen
        BY <1>0, <1>2 DEF LInv, BatchOK
    <2> QED
        BY <1>10, <2>2, <2>3, <2>4, <2>5 DEF BacklogOK
<1> QED
    BY <1>2, <1>11, <1>12, <1>13, <1>14, <1>15 DEF LInv, LookupsSucceed, ReadyFdMapped,
       AcceptFindsConnection

\* Read drains the socket; the handler stays the one of the event.
LEMMA ReadKeepsL == ASSUME IInv, IInv', LInv, Read PROVE LInv'
<1> DEFINE h == thr[Loop].h
           o == k.owner[handler[h].fd]
<1>1. thr[Loop].pc = "read" /\ h \in Clients /\ handler[h].fd \in Fds /\ handler[h].registered
    BY ZenonT(40) DEF Read, At, IInv, ControlOK, Opened, LInv, TaskOK, Threads
<1>2. CASE o # None /\ ~conn[o].err
    <2>1. /\ Goto(Loop, "push") /\ UNCHANGED <<k, handler, fdToHandler, tasks, batch, failed>>
          /\ conn' = [conn EXCEPT ![o].unread = 0]
        BY <1>2, ZenonT(40) DEF Read
    <2>2. Moves(Loop, "push", h)
        BY <2>1, Ground, GotoMoves, ZenonT(40) DEF PCs
    <2>3. SameFds
        BY <2>1, Zenon DEF SameFds
    <2>4. SameConns
        <3>1. o \in Clients
            BY <1>1, <1>2, Ground, Fields, ZenonT(40)
        <3> HIDE DEF o
        <3>2. conn[o] \in ConnT /\ conn[o].sent \in 0 .. MaxRequests /\ MaxRequests \in Nat
            BY <3>1, ReactorAssumption DEF LInv, ConnOK, ConnT
        <3> DEFINE r == [conn[o] EXCEPT !.unread = 0]
        <3>3. r \in ConnT /\ r.open = conn[o].open /\ r.unread <= r.sent
            BY <3>2 DEF ConnT
        <3>4. conn' = [conn EXCEPT ![o] = r]
            BY <2>1
        <3> HIDE DEF r
        <3> QED
            BY <3>1, <3>3, <3>4 DEF LInv, ConnOK, SameConns
    <2> QED
        BY <1>1, <2>1, <2>2, <2>3, <2>4, Ground, ThreadKeeps, ZenonT(40) DEF GoesOn
<1>3. CASE ~(o # None /\ ~conn[o].err)
    <2>1. /\ handler' = [handler EXCEPT ![h].type = "kError"] /\ Return(Loop, "next")
          /\ UNCHANGED <<conn, fdToHandler, tasks, batch, failed>> /\ DtorsRun(k)
        BY <1>3, Zenon DEF Read
    <2>2. Moves(Loop, "next", None)
        BY <2>1, Ground, ReturnMoves DEF PCs
    <2>3. SameFds
        BY <1>1, <2>1, Ground, SameFdsHandler, Zenon
    <2>4. k'.backlog = k.backlog /\ \A f \in Fds : k'.mask[f] # "none" => k.mask[f] # "none"
        BY <2>1, Ground, DtorsForget DEF StateOK
    <2> QED
        BY <1>1, <2>1, <2>2, <2>3, <2>4, Ground, ThreadKeeps DEF GoesOn
<1> QED
    BY <1>2, <1>3, ZenonT(40)

\* request_q_.push.
LEMMA PushKeepsL == ASSUME IInv, IInv', LInv, PushRequest PROVE LInv'
<1> DEFINE h == thr[Loop].h
<1>1. thr[Loop].pc = "push" /\ h \in Clients /\ handler[h].registered
    BY DEF PushRequest, At, IInv, ControlOK, Opened, LInv, TaskOK, Threads
<1>2. /\ handler' = [handler EXCEPT ![h].reqs = @ + 1] /\ Goto(Loop, "run")
      /\ UNCHANGED <<conn, k, fdToHandler, tasks, batch, failed>>
    BY DEF PushRequest
<1>3. Moves(Loop, "run", h) /\ SameFds
    BY <1>1, <1>2, Ground, GotoMoves, SameFdsHandler, ZenonT(40) DEF PCs
<1> QED
    BY <1>1, <1>2, <1>3, Ground, ThreadKeeps DEF GoesOn

\* The task is queued with a registered handler.
LEMMA RunTaskKeepsL == ASSUME IInv, IInv', LInv, RunTask PROVE LInv'
<1> DEFINE h == thr[Loop].h
<1>1. thr[Loop].pc = "run" /\ h \in Clients /\ handler[h].registered
    BY ZenonT(40) DEF RunTask, At, IInv, ControlOK, Opened, LInv, TaskOK, Threads
<1>2. /\ tasks' = Append(tasks, h) \/ tasks' = tasks
      /\ Return(Loop, "next") /\ DtorsRun(k)
      /\ UNCHANGED <<conn, handler, fdToHandler, batch, failed>>
    BY DEF RunTask
<1>3. Moves(Loop, "next", None) /\ SameFds
    BY <1>1, <1>2, Ground, ReturnMoves DEF PCs, SameFds
<1>4. k'.backlog = k.backlog /\ \A f \in Fds : k'.mask[f] # "none" => k.mask[f] # "none"
    BY <1>2, Ground, DtorsForget DEF StateOK
<1>5. \A i \in DOMAIN tasks' : handler[tasks'[i]].registered
    <2>1. CASE tasks' = tasks
        BY <2>1, Ground, SMTT(30)
    <2>2. CASE tasks' = Append(tasks, h)
        BY <1>1, <2>2, Ground DEF StateOK
    <2> QED
        BY <1>2, <2>1, <2>2
<1> QED
    BY <1>1, <1>2, <1>3, <1>4, <1>5, Ground, ThreadKeeps, Zenon DEF GoesOn

\* Write, and the type it asks for next.
LEMMA WriteKeepsL == ASSUME IInv, IInv', LInv, Write \/ SetTypeRead PROVE LInv'
<1> DEFINE h == thr[Loop].h
<1>1. thr[Loop].pc \in {"write", "setread"} /\ h \in Clients
    BY DEF Write, SetTypeRead, SetType, At, IInv, ControlOK, Opened, Threads
<1>2. /\ \/ handler' = [handler EXCEPT ![h].resps = @ - 1]
         \/ handler' = [handler EXCEPT ![h].type = "kRead"]
      /\ Goto(Loop, "setread") \/ Goto(Loop, "mask")
      /\ UNCHANGED <<conn, k, fdToHandler, tasks, batch, failed>>
    BY DEF Write, SetTypeRead, SetType
<1>3. SameFds
    BY <1>1, <1>2, Ground, SameFdsHandler, ZenonT(40)
<1>4. Moves(Loop, "setread", h) \/ Moves(Loop, "mask", h)
    BY <1>2, Ground, GotoMoves DEF PCs
<1> QED
    BY <1>1, <1>2, <1>3, <1>4, Ground, ThreadKeeps DEF GoesOn

\* The first four steps of a registration.  A worker's handler is registered, so
\* its MOD succeeds only on a descriptor that is watched already.
LEMMA RegisterMoveKeepsL ==
    ASSUME IInv, IInv', LInv, NEW t \in Threads,
           RegisterMask(t) \/ RegisterCtl(t) \/ RegisterLoad(t) \/ RegisterStore(t)
    PROVE  LInv'
<1> DEFINE h == thr[t].h
<1>0. /\ h \in Clients /\ handler[h].fd \in Fds /\ thr[t].pc \in {"mask", "ctl", "load", "store"}
      /\ (t # Loop => t \in Workers /\ handler[h].registered)
    <2>1. thr[t].pc \in {"mask", "ctl", "load", "store"}
        BY DEF RegisterMask, RegisterCtl, RegisterLoad, RegisterStore, At
    <2> QED
        BY <2>1, Ground, ZenonT(40) DEF ControlOK, Opened, LInv, TaskOK, Threads
<1>1. CASE RegisterMask(t)
    <2> DEFINE m == CASE handler[thr[t].h].type = "kRead"  -> "in"
                      [] handler[thr[t].h].type = "kWrite" -> "out"
                      [] OTHER -> "hup"
    <2>1. m \in Masks
        BY DEF Masks
    <2>2. /\ thr' = [thr EXCEPT ![t].pc = "ctl", ![t].mask = m] /\ thr[t].pc = "mask"
          /\ UNCHANGED <<conn, k, handler, fdToHandler, tasks, batch, failed>>
        BY <1>1 DEF RegisterMask, At
    <2> HIDE DEF m
    <2>3. Moves(t, "ctl", h) /\ SameFds
        BY <2>1, <2>2, Ground, MaskMoves, ZenonT(40) DEF PCs, SameFds
    <2> QED
        BY <1>0, <2>2, <2>3, Ground, ThreadKeeps DEF GoesOn
<1>2. CASE RegisterCtl(t)
    <2> DEFINE f == handler[h].fd
               ok == CtlOk(IF handler[h].registered THEN "MOD" ELSE "ADD", f)
    <2>0. thr[t].pc = "ctl"
        BY <1>2, ZenonT(40) DEF RegisterCtl, At
    <2>1. CASE ~ok /\ t = Loop
        BY <1>2, <2>1, AbortKeepsL, ZenonT(40) DEF RegisterCtl
    <2>2. CASE ~ok /\ t # Loop
        <3>1. /\ k' = k /\ Goto(t, "unlock")
              /\ UNCHANGED <<conn, handler, fdToHandler, tasks, batch, failed>>
            BY <1>2, <2>2, ZenonT(40) DEF RegisterCtl
        <3>2. Moves(t, "unlock", h) /\ SameFds
            BY <3>1, Ground, GotoMoves, ZenonT(40) DEF PCs, SameFds
        <3> QED
            BY <1>0, <2>2, <3>1, <3>2, Ground, ThreadKeeps, ZenonT(40) DEF GoesOn
    <2>3. CASE ok
        <3>1. /\ k' = Ctl(f, thr[t].mask) /\ Goto(t, "load")
              /\ UNCHANGED <<conn, handler, fdToHandler, tasks, batch, failed>>
            BY <1>2, <2>3, ZenonT(40) DEF RegisterCtl
        <3>2. Moves(t, "load", h) /\ SameFds
            BY <3>1, Ground, GotoMoves, ZenonT(40) DEF PCs, SameFds
        <3>3. k'.backlog = k.backlog /\ \A g \in Fds : g # f => k'.mask[g] = k.mask[g]
            BY <1>0, <3>1, Ground DEF Ctl, StateOK, KernelT
        <3>4. t # Loop => k.mask[f] # "none"
            BY <1>0, <2>3, Zenon DEF CtlOk
        <3> HIDE DEF ok
        <3> QED
            <4>1. \A g \in Fds : k'.mask[g] # "none" =>
                    k.mask[g] # "none" \/ (t = Loop /\ handler[h].fd = g)
                BY <3>3, <3>4, SMTT(30)
            <4>2. /\ StateOK /\ Loop \in Threads /\ SameConns
                  /\ \A i \in DOMAIN tasks' : handler[tasks'[i]].registered
                BY <3>1, Ground
            <4>3. k'.backlog = k.backlog
                BY <3>3
            <4>4. t = Loop => thr[Loop].pc \notin {"load", "store", "map"}
                BY <2>0
            <4>5. t # Loop => handler[h].registered
                BY <1>0
            <4> HIDE DEF f
            <4>6. GoesOn(t, "load", h)
                BY <3>1, <3>2, <4>1, <4>2, <4>3, <4>4, <4>5, ZenonT(40) DEF GoesOn
            <4> QED
                BY <4>6, ThreadKeeps
    <2> QED
        BY <2>1, <2>2, <2>3, ZenonT(40)
<1>3. CASE RegisterLoad(t)
    <2>1. /\ thr' = [thr EXCEPT ![t].pc = "store", ![t].tmp = count]
          /\ UNCHANGED <<conn, k, handler, fdToHandler, tasks, batch, failed>>
        BY <1>3 DEF RegisterLoad
    <2>2. Moves(t, "store", h) /\ SameFds
        BY <2>1, Ground, TmpMoves, Zenon DEF StateOK, PCs, SameFds
    <2> QED
        BY <1>0, <2>1, <2>2, Ground, ThreadKeeps DEF GoesOn
<1>4. CASE RegisterStore(t)
    <2>1. /\ thr' = [thr EXCEPT ![t].pc = "map", ![t].tmp = 0]
          /\ UNCHANGED <<conn, k, handler, fdToHandler, tasks, batch, failed>>
        BY <1>4 DEF RegisterStore
    <2>2. Moves(t, "map", h) /\ SameFds
        <3>1. 0 \in Int /\ "map" \in PCs
            BY DEF PCs
        <3> QED
            BY <2>1, <3>1, Ground, TmpMoves, Zenon DEF SameFds
    <2> QED
        BY <1>0, <2>1, <2>2, Ground, ThreadKeeps DEF GoesOn
<1> QED
    BY <1>1, <1>2, <1>3, <1>4

\* The last step of a registration enters the handler in the map.
LEMMA RegisterMapKeepsL == ASSUME IInv, IInv', LInv, NEW t \in Threads, RegisterMap(t) PROVE LInv'
<1> DEFINE h == thr[t].h
           f == handler[h].fd
<1>1. /\ thr[t].pc = "map" /\ UNCHANGED <<conn, tasks, batch, failed>> /\ DtorsRun(k)
      /\ handler' = [handler EXCEPT ![h].registered = TRUE]
      /\ fdToHandler' = [fdToHandler EXCEPT ![f] = h]
      /\ IF t = Loop THEN Return(t, "next") ELSE Goto(t, "unlock")
    BY DEF RegisterMap, At
<1>2. h \in Clients /\ f \in Fds /\ h # None
    BY <1>1, Ground, ReactorAssumption DEF ControlOK, Opened
<1>3. /\ \A c \in Clients : handler'[c].fd = handler[c].fd
      /\ \A c \in Clients : handler[c].registered => handler'[c].registered
      /\ handler'[h].registered
    BY <1>1, <1>2, Ground DEF StateOK, HandlerT
<1>4. k'.backlog = k.backlog /\ \A g \in Fds : k'.mask[g] # "none" => k.mask[g] # "none"
    BY <1>1, Ground, DtorsForget DEF StateOK
<1>5. \A g \in Fds : fdToHandler'[g] = IF g = f THEN h ELSE fdToHandler[g]
    BY <1>1, Ground, SMTT(30) DEF StateOK
<1>6. /\ \A u \in Threads \ {t} : thr'[u].pc = thr[u].pc /\ thr'[u].h = thr[u].h
      /\ t = Loop => thr'[t].pc = "next"
      /\ t # Loop => thr'[t].pc = "unlock" /\ thr'[t].h = h
    <2>1. CASE t = Loop
        BY <1>1, <2>1, Ground, ReturnMoves DEF PCs, Moves
    <2>2. CASE t # Loop
        BY <1>1, <2>2, Ground, GotoMoves DEF PCs, Moves
    <2> QED
        BY <2>1, <2>2
<1> HIDE DEF f, h
<1>7. ConnOK' /\ MapOK'
    <2>1. \A g \in Fds : fdToHandler[g] # None => fdToHandler[g] \in Clients
        BY Ground DEF StateOK
    <2> QED
        BY <1>1, <1>2, <1>3, <1>5, <2>1 DEF LInv, ConnOK, MapOK, f
<1>8. MaskOK'
    <2> SUFFICES ASSUME NEW g \in Fds, k'.mask[g] # "none", g # f PROVE fdToHandler[g] # None \/ Adding(g)'
        BY <1>2, <1>5 DEF MaskOK
    <2>1. fdToHandler[g] # None \/ Adding(g)
        BY <1>4, SMTT(30) DEF LInv, MaskOK
    <2>2. CASE Adding(g)
        <3>1. t # Loop
            BY <2>2, SMTT(30) DEF Adding, f, h
        <3>2. thr[Loop].h \in Clients
            BY <2>2, Ground DEF Adding, ControlOK, Opened
        <3> QED
            BY <1>3, <1>6, <2>2, <3>1, <3>2, Ground, SMTT(30) DEF Adding
    <2> QED
        BY <2>1, <2>2
<1>9. TaskOK'
    <2>1. \A i \in DOMAIN tasks : tasks[i] \in Clients
        BY Ground DEF ControlOK, Opened
    <2>2. \A u \in Threads : thr[u].pc \notin {"idle", "next", "accept"} => thr[u].h \in Clients
        BY Ground DEF ControlOK, Opened
    <2>3. ASSUME NEW w \in Workers, thr'[w].pc # "idle" PROVE handler'[thr'[w].h].registered
        <3>1. CASE w = t
            BY <1>3, <1>6, <3>1, Ground
        <3>2. CASE w # t
            BY <1>3, <1>6, <2>2, <2>3, <3>2, Ground, ZenonT(40) DEF LInv, TaskOK, ControlOK, LoopOnly
        <3> QED
            BY <3>1, <3>2, SMTT(30)
    <2>4. thr'[Loop].pc \in {"dispatch", "read", "push", "run"} => handler'[thr'[Loop].h].registered
        BY <1>3, <1>6, <2>2, Ground, ZenonT(40) DEF LInv, TaskOK
    <2> QED
        BY <1>1, <1>3, <2>1, <2>3, <2>4, SMTT(30) DEF LInv, TaskOK
<1>10. thr'[Loop].pc \in {"accept", "dispatch"} =>
        thr'[Loop].pc = thr[Loop].pc /\ thr'[Loop].h = thr[Loop].h
    BY <1>6, Ground
<1>11. BatchOK'
    <2>1. thr[Loop].pc = "dispatch" => thr[Loop].h \in Clients
        BY Ground, SMTT(30) DEF ControlOK, Opened
    <2>2. \A e \in batch : e.fd # Listen => e.fd \in Fds
        BY Ground DEF StateOK, Fd
    <2> QED
        BY <1>1, <1>2, <1>3, <1>5, <1>10, <2>1, <2>2, SMTT(30) DEF LInv, BatchOK
<1>12. BacklogOK'
    <2>1. \A i \in DOMAIN k.backlog : k.backlog[i] \in Clients
        BY Fields, Ground
    <2> QED
        BY <1>1, <1>3, <1>4, <1>10, <2>1, SMTT(30) DEF LInv, BacklogOK
<1> QED
    BY <1>1, <1>7, <1>8, <1>9, <1>11, <1>12 DEF LInv, LookupsSucceed, ReadyFdMapped,
       AcceptFindsConnection

\* A worker takes a task, whose handler is registered, and runs it.
LEMMA WorkerKeepsL ==
    ASSUME IInv, IInv', LInv, NEW w \in Workers,
           TakeTask(w) \/ LockHandler(w) \/ DrainRequest(w) \/ SetTypeWrite(w) \/ FinishTask(w)
    PROVE  LInv'
<1> DEFINE h == thr[w].h
<1>0. w \in Threads /\ w # Loop
    BY Ground
<1>1. CASE TakeTask(w)
    <2> DEFINE c == Head(tasks)
    <2>1. /\ tasks # <<>> /\ tasks' = Tail(tasks) /\ thr' = [thr EXCEPT ![w].pc = "lock", ![w].h = c]
          /\ UNCHANGED <<conn, k, handler, fdToHandler, batch, failed>>
        BY <1>1 DEF TakeTask
    <2>2. /\ c \in Clients /\ handler[c].registered
          /\ \A i \in DOMAIN tasks' : handler[tasks'[i]].registered
        BY <2>1, Ground DEF StateOK
    <2> HIDE DEF c
    <2>3. Moves(w, "lock", c) /\ SameFds
        BY <1>0, <2>1, <2>2, Ground, TakeMoves, ZenonT(40) DEF PCs, SameFds
    <2> QED
        BY <1>0, <2>1, <2>2, <2>3, Ground, ThreadKeeps DEF GoesOn
<1>2. CASE LockHandler(w) \/ DrainRequest(w) \/ SetTypeWrite(w)
    <2>1. thr[w].pc \in {"lock", "drain", "setwrite"}
        BY <1>2 DEF LockHandler, DrainRequest, SetTypeWrite, SetType, At
    <2>2. h \in Clients /\ handler[h].registered
        BY <1>0, <2>1, Ground, ZenonT(40) DEF ControlOK, Opened, LInv, TaskOK
    <2>3. /\ \/ handler' = handler
             \/ handler' = [handler EXCEPT ![h].mutex = w]
             \/ handler' = [handler EXCEPT ![h].reqs = @ - 1, ![h].resps = @ + 1]
             \/ handler' = [handler EXCEPT ![h].type = "kWrite"]
          /\ thr' = thr \/ Goto(w, "drain") \/ Goto(w, "setwrite") \/ Goto(w, "mask")
          /\ UNCHANGED <<conn, k, fdToHandler, tasks, batch, failed>>
        BY <1>2 DEF LockHandler, DrainRequest, SetTypeWrite, SetType
    <2>4. SameFds
        BY <2>2, <2>3, Ground, SameFdsHandler, SMTT(30)
    <2>5. PICK pc \in {"drain", "setwrite", "mask", thr[w].pc} : Moves(w, pc, h)
        <3>1. CASE thr' = thr
            BY <1>0, <3>1, Ground DEF Moves, StateOK
        <3>2. CASE thr' # thr
            BY <1>0, <2>3, <3>2, Ground, GotoMoves DEF PCs
        <3> QED
            BY <3>1, <3>2
    <2> QED
        BY <1>0, <2>2, <2>3, <2>4, <2>5, Ground, ThreadKeeps, SMTT(30) DEF GoesOn
<1>3. CASE FinishTask(w)
    <2>1. /\ handler' = [handler EXCEPT ![h].mutex = None] /\ Return(w, "idle") /\ DtorsRun(k)
          /\ UNCHANGED <<conn, fdToHandler, tasks, batch, failed>> /\ thr[w].pc = "unlock"
        BY <1>3 DEF FinishTask, At
    <2>2. h \in Clients
        BY <1>0, <2>1, Ground DEF ControlOK, Opened
    <2>3. Moves(w, "idle", None) /\ SameFds
        BY <1>0, <2>1, <2>2, Ground, ReturnMoves, SameFdsHandler, ZenonT(40) DEF PCs
    <2>4. k'.backlog = k.backlog /\ \A f \in Fds : k'.mask[f] # "none" => k.mask[f] # "none"
        BY <2>1, Ground, DtorsForget DEF StateOK
    <2> QED
        BY <1>0, <2>1, <2>3, <2>4, Ground, ThreadKeeps DEF GoesOn
<1> QED
    BY <1>1, <1>2, <1>3, SMTT(30)

\* At the start nothing is registered and nobody waits.
LEMMA InitL == Init => LInv
<1> SUFFICES ASSUME Init PROVE LInv
    OBVIOUS
<1>1. /\ k.backlog = <<>> /\ \A f \in Fds : k.mask[f] = "none" /\ fdToHandler[f] = None
      /\ tasks = <<>> /\ batch = {} /\ thr[Loop].pc = "next" /\ failed = None
      /\ \A w \in Workers : thr[w].pc = "idle"
      /\ \A c \in Clients : handler[c].fd = None
    BY ReactorAssumption, SMTT(30) DEF Init, Threads
<1>2. ConnOK
    BY ReactorAssumption, SMTT(30) DEF Init, ConnOK, ConnT
<1>3. MapOK /\ MaskOK /\ TaskOK /\ BatchOK /\ BacklogOK
    BY <1>1 DEF MapOK, MaskOK, TaskOK, BatchOK, BacklogOK
<1> QED
    BY <1>1, <1>2, <1>3, ReactorAssumption, SMTT(30)
       DEF LInv, LookupsSucceed, ReadyFdMapped, AcceptFindsConnection, Checks

\* The invariant on the lookups is inductive, given the first one.
LEMMA StepL == IInv /\ IInv' /\ LInv /\ [Next]_vars => LInv'
<1> SUFFICES ASSUME IInv, IInv', LInv, [Next]_vars PROVE LInv'
    OBVIOUS
<1>1. ASSUME NEW t \in Threads, RegisterEventHandler(t) PROVE LInv'
    BY <1>1, RegisterMoveKeepsL, RegisterMapKeepsL DEF RegisterEventHandler
<1>2. CASE LoopStep
    BY <1>1, <1>2, Ground, EpollWaitKeepsL, NextEventKeepsL, DispatchKeepsL, ClearStoreKeepsL,
       AcceptKeepsL, ReadKeepsL, PushKeepsL, RunTaskKeepsL, WriteKeepsL DEF LoopStep
<1>3. ASSUME NEW w \in Workers, WorkerStep(w) PROVE LInv'
    BY <1>1, <1>3, Ground, WorkerKeepsL, Zenon DEF WorkerStep
<1> QED
    BY <1>2, <1>3, ClientStepKeepsL, StutterKeepsL DEF Next

\* The loop's lookups never fail (event_demultiplex.cc:115, network_utils.cc:10),
\* whatever the number of clients and workers, the pipelining, the disconnections
\* and the workers that register handlers of connections long closed.
THEOREM LookupsAlwaysSucceed == Spec => []LookupsSucceed
<1>1. Init => IInv /\ LInv
    BY InitOK, InitL
<1>2. IInv /\ LInv /\ [Next]_vars => IInv' /\ LInv'
    BY StepOK, StepL
<1>3. LInv => LookupsSucceed
    BY DEF LInv
<1> QED
    BY <1>1, <1>2, <1>3, PTL DEF Spec
=============================================================================
