------------------------------ MODULE Reactor ------------------------------
(***************************************************************************)
(* The reactor server (src/reactor): the event-loop thread, the workers of *)
(* the thread pool, the kernel's descriptor table and edge-triggered epoll *)
(* set, and the clients.  A handler is named by the client whose           *)
(* connection it was created for.  The listening socket is descriptor 0;   *)
(* its handler lives for the whole run, so only its events appear here.    *)
(***************************************************************************)
EXTENDS Integers, Sequences, FiniteSets

CONSTANTS Clients,     \* every client connects once
          Workers,     \* threads of the pool (hardware_concurrency of them)
          Loop,        \* the event-loop thread
          MaxRequests, \* bound: requests one client sends
          Backlog,     \* bound: connections waiting for accept at one time
          Pipelining,  \* TRUE: a client may send before its last answer
          Faults,      \* subset of {"fin", "err"}: how a connection may end
          None

Listen == 0
Fds == 1 .. Cardinality(Clients)
Threads == Workers \cup {Loop}
Checks == {"wait", "map", "accept", "clear", "register"}

ASSUME ReactorAssumption ==
    /\ MaxRequests \in Nat /\ Backlog \in Nat \ {0}
    /\ Pipelining \in BOOLEAN /\ Faults \subseteq {"fin", "err"}
    /\ IsFiniteSet(Clients) /\ IsFiniteSet(Workers)
    /\ None \notin Clients \cup Workers /\ None \notin Fds /\ None \notin Checks
    /\ Loop \notin Workers

VARIABLES
    conn,     \* client side: [open, unread, sent, fin, err]
    k,        \* kernel: [backlog, owner (of a descriptor), mask, rdy]
    handler,  \* Handler objects: [type, registered, fd, reqs, resps, mutex]
    fdToHandler, \* fd_to_handler_
    count,    \* epoll_event_count_
    tasks,    \* tasks_ of the thread pool
    thr,      \* control and locals of every thread: [pc, h, mask, tmp]
    batch,    \* events the loop has not handled yet
    written,  \* per handler, responses popped by Write
    failed    \* the CHECK that aborted the process, or None

vars == <<conn, k, handler, fdToHandler, count, tasks, thr, batch, written, failed>>

\* main: the listening socket is registered before the loop starts.
Init ==
    /\ conn = [c \in Clients |-> [open |-> FALSE, unread |-> 0, sent |-> 0,
                                  fin |-> FALSE, err |-> FALSE]]
    /\ k = [backlog |-> <<>>, owner |-> [f \in Fds |-> None],
            mask |-> [f \in Fds |-> "none"], rdy |-> {}]
    /\ handler = [c \in Clients |-> [type |-> "kRead", registered |-> FALSE,
                     fd |-> None, reqs |-> 0, resps |-> 0, mutex |-> None]]
    /\ fdToHandler = [f \in Fds |-> None]
    /\ count = 1
    /\ tasks = <<>>
    /\ thr = [t \in Threads |-> [pc |-> IF t = Loop THEN "next" ELSE "idle",
                                 h |-> None, mask |-> "none", tmp |-> 0]]
    /\ batch = {}
    /\ written = [c \in Clients |-> 0]
    /\ failed = None
----------------------------------------------------------------------------
(* Lifetime: a Handler is destroyed with the last shared_ptr to it: the    *)
(* map, the loop's local variable, the callbacks of queued and running     *)
(* tasks.  Its destructor closes the descriptor NUMBER it was created with. *)

Refs(map, ts, th) ==
    ({map[f] : f \in Fds} \cup {ts[i] : i \in DOMAIN ts} \cup {th[t].h : t \in Threads})
        \ {None}

\* close(f) of an open descriptor takes it out of the epoll set; closing a
\* closed number is EBADF and changes nothing.
Close(kern, fs) ==
    [kern EXCEPT !.owner = [f \in Fds |-> IF f \in fs THEN None ELSE @[f]],
                 !.mask = [f \in Fds |-> IF f \in fs THEN "none" ELSE @[f]],
                 !.rdy = @ \ fs]

\* The kernel after the destructors that the step runs; kern is the kernel
\* after the step's own system calls.
DtorsRun(kern) ==
    k' = Close(kern, {handler[h].fd : h \in Refs(fdToHandler, tasks, thr)
                                              \ Refs(fdToHandler', tasks', thr')})

Goto(t, pc) == thr' = [thr EXCEPT ![t].pc = pc]
\* Control leaves the function that held the shared_ptr.
Return(t, pc) == thr' = [thr EXCEPT ![t] = [pc |-> pc, h |-> None, mask |-> "none",
                                            tmp |-> 0]]
At(t, pc) == failed = None /\ thr[t].pc = pc

\* A CHECK that fails aborts the process.
Abort(check) ==
    /\ failed' = check
    /\ UNCHANGED <<conn, k, handler, fdToHandler, count, tasks, thr, batch, written>>
----------------------------------------------------------------------------
(* The kernel's epoll.                                                     *)

\* What epoll_wait would report now for descriptor f registered with mask m.
Reportable(f, m) ==
    LET c == conn[k.owner[f]] IN
    \/ m = "in" /\ (c.unread > 0 \/ c.fin)
    \/ m = "out"
    \/ m # "none" /\ (c.fin \/ c.err)

\* ADD fails on a closed or a present descriptor, MOD and DEL on a closed or
\* an absent one.
CtlOk(op, f) == k.owner[f] # None /\ (op = "ADD") = (k.mask[f] = "none")

Ctl(f, m) ==
    [k EXCEPT !.mask[f] = m,
              !.rdy = IF Reportable(f, m) THEN @ \cup {f} ELSE @ \ {f}]

\* A socket event enters the ready list if the mask asks for it.
Wake(c, always) ==
    k' = [k EXCEPT !.rdy = @ \cup
            {f \in Fds : /\ k.owner[f] = c
                         /\ k.mask[f] = "in" \/ (always /\ k.mask[f] # "none")}]
----------------------------------------------------------------------------
(* Clients.                                                                *)

ClientUnchanged ==
    UNCHANGED <<handler, fdToHandler, count, tasks, thr, batch, written, failed>>

Alive(c) == failed = None /\ conn[c].open /\ ~conn[c].fin /\ ~conn[c].err

Connect(c) ==
    /\ failed = None /\ ~conn[c].open /\ Len(k.backlog) < Backlog
    /\ conn' = [conn EXCEPT ![c].open = TRUE]
    /\ k' = [k EXCEPT !.backlog = Append(@, c), !.rdy = @ \cup {Listen}]
    /\ ClientUnchanged

Send(c) ==
    /\ Alive(c) /\ conn[c].sent < MaxRequests
    /\ Pipelining \/ written[c] = conn[c].sent
    /\ conn' = [conn EXCEPT ![c].sent = @ + 1, ![c].unread = @ + 1]
    /\ Wake(c, FALSE)
    /\ ClientUnchanged

Disconnect(c) ==
    /\ Alive(c)
    /\ \/ "fin" \in Faults /\ conn' = [conn EXCEPT ![c].fin = TRUE]
       \/ "err" \in Faults /\ \E rst \in BOOLEAN :
            conn' = [conn EXCEPT ![c].err = TRUE, ![c].fin = rst]
    /\ Wake(c, TRUE)
    /\ ClientUnchanged
----------------------------------------------------------------------------
(* The event loop.                                                         *)

\* epoll_wait returns at most epoll_event_count_ of the ready descriptors,
\* which leave the ready list; a length that is not positive is an invalid
\* argument (EINVAL).
EpollWait ==
    /\ At(Loop, "next") /\ batch = {}
    /\ IF count <= 0 THEN Abort("wait") ELSE
       LET ready == {f \in k.rdy : IF f = Listen THEN k.backlog # <<>>
                                                 ELSE Reportable(f, k.mask[f])}
           Event(f) == [fd |-> f,
                        rdhup |-> f # Listen /\ conn[k.owner[f]].fin,
                        err |-> f # Listen /\ conn[k.owner[f]].err]
       IN  \E got \in SUBSET ready \ {{}} :
             /\ \/ Cardinality(got) = count
                \/ Cardinality(got) < count /\ got = ready
             /\ batch' = {Event(f) : f \in got}
             /\ k' = [k EXCEPT !.rdy = @ \ got]
             /\ UNCHANGED <<conn, handler, fdToHandler, count, tasks, thr, written,
                            failed>>

\* Mutant: the handler leaves the map, the descriptor stays in the epoll set.
ClearKeepsDescriptor(h, rest, handlers) ==
    /\ batch' = rest
    /\ handler' = handlers
    /\ fdToHandler' = [fdToHandler EXCEPT ![handler[h].fd] = None]
    /\ count' = count - 1
    /\ Return(Loop, "next")
    /\ UNCHANGED <<conn, k, tasks, written, failed>>

\* ClearEventHandler: DEL, erase from the map, --epoll_event_count_ (a load and a
\* store, without a lock), close.  This is the part up to the load.
ClearEventHandler(h, rest, handlers) ==
    LET f == handler[h].fd IN
    IF ~CtlOk("DEL", f) THEN Abort("clear") ELSE
    /\ batch' = rest
    /\ handler' = handlers
    /\ fdToHandler' = [fdToHandler EXCEPT ![f] = None]
    /\ thr' = [thr EXCEPT ![Loop].pc = "clear", ![Loop].h = h, ![Loop].tmp = count]
    /\ UNCHANGED <<conn, count, tasks, written, failed>>
    /\ DtorsRun(Ctl(f, "none"))

\* The store and the close; the loop then drops its own reference to the handler.
ClearStore ==
    /\ At(Loop, "clear")
    /\ count' = thr[Loop].tmp - 1
    /\ Return(Loop, "next")
    /\ UNCHANGED <<conn, handler, fdToHandler, tasks, batch, written, failed>>
    /\ DtorsRun(Close(k, {handler[thr[Loop].h].fd}))

TakeEvent(h, rest, handlers, pc) ==
    /\ batch' = rest
    /\ handler' = handlers
    /\ thr' = [thr EXCEPT ![Loop].h = h, ![Loop].pc = pc]
    /\ UNCHANGED <<conn, k, fdToHandler, count, tasks, written, failed>>

\* One event of the batch.  The handler comes from the map (a CHECK); an error
\* sets its type to kError; a closed peer clears it.
NextEvent ==
    /\ At(Loop, "next")
    /\ \E e \in batch :
         LET rest == batch \ {e}
             h == fdToHandler[e.fd]
             marked == IF e.err THEN [handler EXCEPT ![h].type = "kError"] ELSE handler IN
         \/ e.fd = Listen /\ TakeEvent(None, rest, handler, "accept")
         \/ /\ e.fd # Listen
            /\ IF h = None THEN Abort("map")
               ELSE IF e.rdhup THEN ClearEventHandler(h, rest, marked)
               ELSE TakeEvent(h, rest, marked, "dispatch")

\* Dispatch switches on the type the handler has by now: a worker's callback
\* may have changed it since the event.
Dispatch ==
    /\ At(Loop, "dispatch")
    /\ LET h == thr[Loop].h IN
       \/ /\ handler[h].type = "kError"
          /\ ClearEventHandler(h, batch, handler)
       \/ /\ handler[h].type # "kError"
          /\ Goto(Loop, IF handler[h].type = "kRead" THEN "read" ELSE "write")
          /\ UNCHANGED <<conn, k, handler, fdToHandler, count, tasks, batch, written, failed>>

\* Acceptor::Accept takes one connection, which gets the lowest free descriptor;
\* SetNonblock CHECKs it.
Accept ==
    /\ At(Loop, "accept")
    /\ IF k.backlog = <<>> THEN Abort("accept") ELSE
       LET c == Head(k.backlog) IN
       \E f \in Fds :
           /\ k.owner[f] = None
           /\ \A g \in Fds : k.owner[g] = None => f <= g
           /\ k' = [k EXCEPT !.backlog = Tail(@), !.owner[f] = c]
           /\ handler' = [handler EXCEPT ![c].fd = f]
           /\ thr' = [thr EXCEPT ![Loop].pc = "mask", ![Loop].h = c]
           /\ UNCHANGED <<conn, fdToHandler, count, tasks, batch, written, failed>>

\* Handler::Read drains the socket behind its descriptor number; a failing
\* read leaves the handler with type kError.
Read ==
    /\ At(Loop, "read")
    /\ LET h == thr[Loop].h
           c == k.owner[handler[h].fd] IN
       IF c # None /\ ~conn[c].err
       THEN /\ conn' = [conn EXCEPT ![c].unread = 0]
            /\ Goto(Loop, "push")
            /\ UNCHANGED <<k, handler, fdToHandler, count, tasks, batch, written, failed>>
       ELSE /\ handler' = [handler EXCEPT ![h].type = "kError"]
            /\ Return(Loop, "next")
            /\ UNCHANGED <<conn, fdToHandler, count, tasks, batch, written, failed>>
            /\ DtorsRun(k)

\* request_q_.push, without mutex_.
PushRequest ==
    /\ At(Loop, "push")
    /\ handler' = [handler EXCEPT ![thr[Loop].h].reqs = @ + 1]
    /\ Goto(Loop, "run")
    /\ UNCHANGED <<conn, k, fdToHandler, count, tasks, batch, written, failed>>

\* Mutant: a task is queued even when request_q_ is empty, and twice.
RunTaskTwice ==
    /\ At(Loop, "run")
    /\ tasks' = tasks \o <<thr[Loop].h, thr[Loop].h>>
    /\ Return(Loop, "next")
    /\ UNCHANGED <<conn, handler, fdToHandler, count, batch, written, failed>>
    /\ DtorsRun(k)

\* The task is queued unless a worker has already emptied request_q_.
RunTask ==
    /\ At(Loop, "run")
    /\ tasks' = IF handler[thr[Loop].h].reqs > 0 THEN Append(tasks, thr[Loop].h)
                                                 ELSE tasks
    /\ Return(Loop, "next")
    /\ UNCHANGED <<conn, handler, fdToHandler, count, batch, written, failed>>
    /\ DtorsRun(k)

\* Handler::Write: front and pop under mutex_.
Write ==
    /\ At(Loop, "write") /\ handler[thr[Loop].h].mutex = None
    /\ handler' = [handler EXCEPT ![thr[Loop].h].resps = @ - 1]
    /\ written' = [written EXCEPT ![thr[Loop].h] = @ + 1]
    /\ Goto(Loop, "setread")
    /\ UNCHANGED <<conn, k, fdToHandler, count, tasks, batch, failed>>

SetType(t, pc, type) ==
    /\ At(t, pc)
    /\ handler' = [handler EXCEPT ![thr[t].h].type = type]
    /\ Goto(t, "mask")
    /\ UNCHANGED <<conn, k, fdToHandler, count, tasks, batch, written, failed>>

\* Mutant: the handler stays in kWrite after the response.
SetTypeKeepsWrite == SetType(Loop, "setread", "kWrite")

SetTypeRead == SetType(Loop, "setread", "kRead")
----------------------------------------------------------------------------
(* RegisterEventHandler, run by the loop and by the workers' callbacks on  *)
(* state that no lock protects: choose the mask from the handler's type,   *)
(* epoll_ctl, ++epoll_event_count_ (a load and a store), mark the handler  *)
(* registered and enter it in the map.                                     *)

\* Every mask has EPOLLRDHUP; a type other than kRead and kWrite adds nothing.
RegisterMask(t) ==
    /\ At(t, "mask")
    /\ thr' = [thr EXCEPT ![t].pc = "ctl",
                 ![t].mask = CASE handler[thr[t].h].type = "kRead"  -> "in"
                               [] handler[thr[t].h].type = "kWrite" -> "out"
                               [] OTHER -> "hup"]
    /\ UNCHANGED <<conn, k, handler, fdToHandler, count, tasks, batch, written, failed>>

\* A failure aborts the loop (CHECK) and is ignored by the callback.
RegisterCtl(t) ==
    /\ At(t, "ctl")
    /\ LET h == thr[t].h
           f == handler[h].fd
           ok == CtlOk(IF handler[h].registered THEN "MOD" ELSE "ADD", f)
       IN  IF ~ok /\ t = Loop THEN Abort("register") ELSE
           /\ k' = IF ok THEN Ctl(f, thr[t].mask) ELSE k
           /\ Goto(t, IF ok THEN "load" ELSE "unlock")
           /\ UNCHANGED <<conn, handler, fdToHandler, count, tasks, batch, written,
                          failed>>

RegisterLoad(t) ==
    /\ At(t, "load")
    /\ thr' = [thr EXCEPT ![t].pc = "store", ![t].tmp = count]
    /\ UNCHANGED <<conn, k, handler, fdToHandler, count, tasks, batch, written, failed>>

RegisterStore(t) ==
    /\ At(t, "store")
    /\ count' = thr[t].tmp + 1
    /\ thr' = [thr EXCEPT ![t].pc = "map", ![t].tmp = 0]
    /\ UNCHANGED <<conn, k, handler, fdToHandler, tasks, batch, written, failed>>

RegisterMap(t) ==
    LET h == thr[t].h IN
    /\ At(t, "map")
    /\ handler' = [handler EXCEPT ![h].registered = TRUE]
    /\ fdToHandler' = [fdToHandler EXCEPT ![handler[h].fd] = h]
    /\ IF t = Loop THEN Return(t, "next") ELSE Goto(t, "unlock")
    /\ UNCHANGED <<conn, count, tasks, batch, written, failed>>
    /\ DtorsRun(k)

RegisterEventHandler(t) ==
    RegisterMask(t) \/ RegisterCtl(t) \/ RegisterLoad(t) \/ RegisterStore(t)
        \/ RegisterMap(t)
----------------------------------------------------------------------------
(* A worker of the thread pool running the task queued by Handler::Read.   *)

TakeTask(w) ==
    /\ At(w, "idle") /\ tasks # <<>>
    /\ thr' = [thr EXCEPT ![w].pc = "lock", ![w].h = Head(tasks)]
    /\ tasks' = Tail(tasks)
    /\ UNCHANGED <<conn, k, handler, fdToHandler, count, batch, written, failed>>

LockHandler(w) ==
    /\ At(w, "lock") /\ handler[thr[w].h].mutex = None
    /\ handler' = [handler EXCEPT ![thr[w].h].mutex = w]
    /\ Goto(w, "drain")
    /\ UNCHANGED <<conn, k, fdToHandler, count, tasks, batch, written, failed>>

\* Process one request, or leave the loop when request_q_ is empty.
DrainRequest(w) ==
    /\ At(w, "drain")
    /\ LET h == thr[w].h IN
       \/ /\ handler[h].reqs > 0
          /\ handler' = [handler EXCEPT ![h].reqs = @ - 1, ![h].resps = @ + 1]
          /\ UNCHANGED thr
       \/ /\ handler[h].reqs = 0
          /\ Goto(w, "setwrite")
          /\ UNCHANGED handler
    /\ UNCHANGED <<conn, k, fdToHandler, count, tasks, batch, written, failed>>

\* Mutant: the callback registers for reading.
SetTypeReadAgain(w) == SetType(w, "setwrite", "kRead")

\* The callback cb, still under mutex_, asks for kWrite.
SetTypeWrite(w) == SetType(w, "setwrite", "kWrite")

\* The lock_guard is released, then the task and its reference are destroyed.
FinishTask(w) ==
    /\ At(w, "unlock")
    /\ handler' = [handler EXCEPT ![thr[w].h].mutex = None]
    /\ Return(w, "idle")
    /\ UNCHANGED <<conn, fdToHandler, count, tasks, batch, written, failed>>
    /\ DtorsRun(k)

WorkerStep(w) ==
    TakeTask(w) \/ LockHandler(w) \/ DrainRequest(w) \/ SetTypeWrite(w)
        \/ RegisterEventHandler(w) \/ FinishTask(w)

LoopStep ==
    EpollWait \/ NextEvent \/ Dispatch \/ ClearStore \/ Accept \/ Read \/ PushRequest \/ RunTask
        \/ Write \/ SetTypeRead \/ RegisterEventHandler(Loop)

ClientStep == \E c \in Clients : Connect(c) \/ Send(c) \/ Disconnect(c)

Next == LoopStep \/ (\E w \in Workers : WorkerStep(w)) \/ ClientStep

Spec == Init /\ [][Next]_vars

\* The event loop and every worker are threads the scheduler keeps running.
FairSpec == Spec /\ WF_vars(LoopStep) /\ \A w \in Workers : WF_vars(WorkerStep(w))
----------------------------------------------------------------------------
TypeOK ==
    /\ conn \in [Clients -> [open : BOOLEAN, unread : 0 .. MaxRequests,
                             sent : 0 .. MaxRequests, fin : BOOLEAN, err : BOOLEAN]]
    /\ k.owner \in [Fds -> Clients \cup {None}]
    /\ k.mask \in [Fds -> {"none", "hup", "in", "out"}]
    /\ k.rdy \subseteq Fds \cup {Listen}
    /\ fdToHandler \in [Fds -> Clients \cup {None}]
    /\ \A t \in Threads : thr[t].h \in Clients \cup {None}
    /\ failed \in {None} \cup Checks

\* Handler::Write always finds a response to pop, although its CHECK is
\* commented out (handler.cc:83): the loop enters Write only after a callback
\* set kWrite, and every callback follows the push of at least one response
\* that no earlier callback accounts for.
WriteFindsResponse == At(Loop, "write") => handler[thr[Loop].h].resps > 0

\* The CHECK at event_demultiplex.cc:115 never fails: whatever workers do with
\* stale handlers, a descriptor that epoll reports is in fd_to_handler_ when
\* the loop gets to its event.
ReadyFdMapped == failed # "map"

\* Accept is only called with a connection waiting, so SetNonblock never gets
\* descriptor -1 (network_utils.cc:10).
AcceptFindsConnection == failed # "accept"

\* The loop's lookups succeed: a ready descriptor has a handler in
\* fd_to_handler_ and accept a connection to return.
LookupsSucceed == ReadyFdMapped /\ AcceptFindsConnection

\* CHECK(ready != -1), event_demultiplex.cc:109: epoll_wait is never refused,
\* that is, epoll_event_count_ stays positive.
\* The code breaks it: README, "Disagreements without a run".
EpollWaitSucceeds == failed # "wait"

\* With clients that wait for each answer, the unlocked request_q_.push of
\* Handler::Read never meets a worker inside its locked loop on that queue.
NoRequestQueueRace ==
    \A w \in Workers : ~ /\ thr[Loop].pc = "push"
                         /\ thr[w].pc \in {"drain", "setwrite"}
                         /\ thr[w].h = thr[Loop].h

\* Every request read is in exactly one place until its response is written:
\* request_q_, response_q_ or already written.  With one message per answer no
\* response is lost or duplicated by the races on event_type_.
NothingLost ==
    \A c \in Clients :
        conn[c].sent = conn[c].unread + handler[c].reqs + handler[c].resps + written[c]
            + (IF thr[Loop].pc = "push" /\ thr[Loop].h = c THEN 1 ELSE 0)

\* request_q_ is never used by two threads at once, and every request that was
\* read is queued, being answered or answered: none is lost or answered twice.
RequestsKept == TypeOK /\ NoRequestQueueRace /\ NothingLost

\* A connected client's request is eventually answered.
EveryRequestAnswered ==
    \A c \in Clients : \A n \in 1 .. MaxRequests :
        conn[c].sent = n ~> written[c] >= n

\* event_demultiplex.h:49: epoll_event_count_ is the number of registered
\* events.
\* The code breaks it: README, "Disagreements without a run".
CountIsRegistered ==
    (\A t \in Threads : thr[t].pc \notin {"load", "store", "clear"}) =>
        count = 1 + Cardinality({f \in Fds : k.mask[f] # "none"})

\* CHECK(RegisterEventHandler(handler) == 0), event_demultiplex.cc:152 and 166:
\* the loop's own registrations succeed.
LoopRegisters == failed # "register"

\* handler.cc:63: the responses of all processed requests are sent; when the
\* server has nothing left to do, no response_q_ holds a response.
\* The code breaks it: README, "Disagreements without a run".
IdleMeansAllSent ==
    (/\ \A t \in Threads : thr[t].pc \in {"idle", "next"}
     /\ tasks = <<>> /\ batch = {} /\ k.rdy = {})
        => \A c \in Clients : handler[c].resps = 0
============================================================================
