----------------------- MODULE ReactorRequests_proofs -----------------------
(***************************************************************************)
(* With clients that wait for each answer and stay connected, no request   *)
(* is lost or answered twice and request_q_ is not raced on.               *)
(***************************************************************************)
EXTENDS Reactor_proofs

\* Clients send one request at a time, and neither disconnect nor fail.
Orderly == ~Pipelining /\ Faults = {}

\* Where the loop is with handler c, and what epoll watches for it.
LoopAt(c) == IF thr[Loop].h = c THEN thr[Loop].pc ELSE "away"
Mask(c) == k.mask[handler[c].fd]

\* An event of c is in the batch.
Pending(c) == \E e \in batch : e.fd = handler[c].fd

\* A task of c is to come or is running and has not called back yet; its callback
\* has set kWrite and not yet told epoll.
Busy(c) == \/ LoopAt(c) = "run" \/ \E i \in DOMAIN tasks : tasks[i] = c
           \/ \E w \in Workers : thr[w].h = c /\ thr[w].pc \in {"lock", "drain", "setwrite"}
Registering(c) == \E w \in Workers : thr[w].h = c /\ thr[w].pc \in {"mask", "ctl"}

\* Descriptors are not reused: nothing is closed.
FdOK ==
    /\ \A c \in Clients : handler[c].fd # None => k.owner[handler[c].fd] = c
    /\ \A f \in Fds : k.owner[f] # None => handler[k.owner[f]].fd = f
    /\ \A c \in Clients : handler[c].registered =>
            handler[c].fd # None /\ fdToHandler[handler[c].fd] = c
    /\ \A t \in Threads : thr[t].pc \in {"idle", "next", "accept"} => thr[t].h = None
    /\ \A c \in Clients : handler[c].fd = None => handler[c].type = "kRead"

\* No connection ends.
Calm ==
    /\ \A c \in Clients : ~conn[c].fin /\ ~conn[c].err /\ handler[c].type # "kError"
    /\ \A e \in batch : ~e.err /\ ~e.rdhup
    /\ \A f \in Fds : k.mask[f] # "hup"

\* A client has at most one request under way, and it is in one place.
Token(c) ==
    /\ conn[c].sent = conn[c].unread + handler[c].reqs + handler[c].resps + written[c]
                        + Flag(LoopAt(c) = "push")
    /\ conn[c].sent <= written[c] + 1

\* The loop and the workers take turns with a handler: an event that will be read
\* has a request to read; while a task is under way epoll watches for input, there
\* is no input, no event is pending and the loop is elsewhere; the callback asks for
\* kWrite and the loop, after its write, for kRead, never both at once.
InTurn(c) ==
    /\ Mask(c) = "out" => handler[c].type = "kWrite" \/ LoopAt(c) \in {"mask", "ctl"}
    /\ LoopAt(c) # "away" => ~Pending(c)
    /\ (Pending(c) \/ LoopAt(c) = "dispatch") /\ handler[c].type = "kRead" =>
            Mask(c) = "in" /\ conn[c].unread = 1
    /\ LoopAt(c) = "read" => Mask(c) = "in" /\ conn[c].unread = 1
    /\ LoopAt(c) = "push" => Mask(c) = "in"
    /\ Busy(c) \/ Registering(c) =>
            Mask(c) = "in" /\ ~Pending(c) /\ LoopAt(c) \in {"away", "run"}
    /\ LoopAt(c) \in {"mask", "ctl"} => handler[c].type = "kRead"
    /\ LoopAt(c) = "ctl" => thr[Loop].mask = "in"
    /\ \A w \in Workers : thr[w].h = c /\ thr[w].pc \in {"mask", "ctl"} =>
            handler[c].type = "kWrite" /\ (thr[w].pc = "ctl" => thr[w].mask = "out")

\* The inductive invariant of the requests.
NInv ==
    /\ FdOK /\ Calm /\ written \in [Clients -> Nat]
    /\ \A c \in Clients : Token(c) /\ (handler[c].fd # None => InTurn(c))
----------------------------------------------------------------------------
\* A queued or running task is counted by ToCome, a drained one by Drained.
LEMMA BusyCounts ==
    ASSUME IInv, NEW c \in Clients
    PROVE  /\ ToCome(c) \in Nat /\ Owed(c) \in Nat
           /\ Busy(c) => ToCome(c) + Flag(Drained(c)) >= 1
<1>1. /\ IsFiniteSet(Queued(c)) /\ IsFiniteSet(Running(c))
      /\ Cardinality(Queued(c)) \in Nat /\ Cardinality(Running(c)) \in Nat
    BY Counts DEF IInv
<1>2. Flag(LoopIn(c, "run")) \in Nat /\ Flag(Drained(c)) \in Nat /\ Owed(c) \in Nat
    BY DEF Flag, Owed
<1>3. (Queued(c) # {} => Cardinality(Queued(c)) >= 1) /\ (Running(c) # {} => Cardinality(Running(c)) >= 1)
    BY <1>1, FS_EmptySet
<1>4. Busy(c) => \/ Flag(LoopIn(c, "run")) = 1 \/ Queued(c) # {} \/ Running(c) # {}
                 \/ Flag(Drained(c)) = 1
    BY DEF Busy, LoopAt, LoopIn, Queued, Running, Drained, Flag
<1> QED
    BY <1>1, <1>2, <1>3, <1>4 DEF ToCome

\* What the one request under way leaves room for.
LEMMA OneToken ==
    ASSUME IInv, LInv, NInv, NEW c \in Clients
    PROVE  /\ conn[c].unread \in Nat /\ conn[c].sent \in Nat /\ handler[c].reqs \in Nat
           /\ handler[c].resps \in Nat /\ written[c] \in Nat
           /\ conn[c].unread + handler[c].reqs + handler[c].resps + Flag(LoopAt(c) = "push") <= 1
           /\ Busy(c) => conn[c].unread = 0 /\ LoopAt(c) # "push"
           /\ WriteDue(c) => /\ handler[c].resps = 1 /\ conn[c].unread = 0 /\ ~Busy(c)
                             /\ LoopAt(c) # "push"
<1> DEFINE push == Flag(LoopAt(c) = "push")
           drained == Flag(Drained(c))
           due == Flag(WriteDue(c))
<1>1. /\ conn[c].unread \in Nat /\ conn[c].sent \in Nat /\ written[c] \in Nat
      /\ handler[c].reqs \in Nat /\ handler[c].resps \in Int /\ Covered(c)
    BY Numbers, ReactorAssumption DEF LInv, ConnOK, ConnT, NInv
<1>2. ToCome(c) \in Nat /\ Owed(c) \in Nat /\ (Busy(c) => ToCome(c) + drained >= 1)
    BY BusyCounts
<1>3. ToCome(c) + Owed(c) <= handler[c].reqs + handler[c].resps /\ Owed(c) <= handler[c].resps
    BY <1>1 DEF Covered
<1>4. push \in {0, 1} /\ (LoopAt(c) = "push" => push = 1)
    BY DEF Flag
<1>5. /\ conn[c].sent = conn[c].unread + handler[c].reqs + handler[c].resps + written[c] + push
      /\ conn[c].sent <= written[c] + 1
    BY DEF NInv, Token
<1>6. Owed(c) = drained + due /\ drained \in {0, 1} /\ due \in {0, 1} /\ (WriteDue(c) => due = 1)
    BY DEF Owed, Flag
<1> HIDE DEF push, drained, due
<1>7. conn[c].unread + handler[c].reqs + handler[c].resps + push <= 1
    BY <1>1, <1>4, <1>5
<1>8. handler[c].resps \in Nat
    BY <1>1, <1>2, <1>3
<1>9. Busy(c) => conn[c].unread = 0 /\ LoopAt(c) # "push"
    BY <1>1, <1>2, <1>3, <1>4, <1>6, <1>7, <1>8
<1>10. WriteDue(c) => handler[c].resps = 1 /\ conn[c].unread = 0 /\ ~Busy(c) /\ LoopAt(c) # "push"
    BY <1>1, <1>2, <1>3, <1>4, <1>6, <1>7, <1>8
<1> QED
    BY <1>1, <1>7, <1>8, <1>9, <1>10 DEF push

\* A callback that has set kWrite owes the only write there is.
LEMMA RegisteringOwes ==
    ASSUME IInv, LInv, NInv, NEW c \in Clients, handler[c].fd # None, Registering(c)
    PROVE  /\ handler[c].type = "kWrite" /\ conn[c].unread = 0 /\ ~Busy(c)
           /\ LoopAt(c) = "away" /\ handler[c].resps = 1
<1>1. handler[c].type = "kWrite" /\ LoopAt(c) \in {"away", "run"}
    BY DEF NInv, InTurn, Registering
<1>2. WriteDue(c)
    BY <1>1 DEF WriteDue, LoopIn, LoopAt
<1> QED
    BY <1>1, <1>2, OneToken DEF Busy

\* Closing nothing changes nothing.
LEMMA CloseNothing ==
    ASSUME StateOK
    PROVE  Close(k, {}) = k
BY Zenon DEF Close, StateOK, KernelT

\* No handler is destroyed: those in use are in the map, or in the loop's hands.
LEMMA NoDtors ==
    ASSUME IInv, LInv, NInv, DtorsRun(k),
           \A c \in Clients : handler[c].registered => \E f \in Fds : fdToHandler'[f] = c,
           \/ thr'[Loop].h = thr[Loop].h
           \/ thr[Loop].h # None => \E f \in Fds : fdToHandler'[f] = thr[Loop].h
    PROVE  k' = k
<1> DEFINE R == Refs(fdToHandler, tasks, thr)
           S == Refs(fdToHandler', tasks', thr')
<1>0. StateOK /\ ControlOK /\ Loop \in Threads
    BY Ground
<1>1. ASSUME NEW c \in R PROVE c \in S
    <2>1. c # None
        BY <1>1 DEF Refs
    <2>2. \/ \E f \in Fds : c = fdToHandler[f]
          \/ \E i \in DOMAIN tasks : c = tasks[i]
          \/ \E t \in Threads : c = thr[t].h
        BY <1>1 DEF Refs
    <2>3. CASE c \in Clients /\ handler[c].registered
        BY <2>1, <2>3 DEF Refs
    <2>4. CASE c = thr[Loop].h
        BY <1>0, <2>1, <2>4 DEF Refs
    <2>5. ASSUME NEW f \in Fds, c = fdToHandler[f] PROVE c \in Clients /\ handler[c].registered
        BY <1>0, <2>1, <2>5 DEF StateOK, LInv, MapOK
    <2>6. ASSUME NEW i \in DOMAIN tasks, c = tasks[i] PROVE c \in Clients /\ handler[c].registered
        BY <1>0, <2>6 DEF ControlOK, Opened, LInv, TaskOK
    <2>7. ASSUME NEW w \in Workers, c = thr[w].h PROVE c \in Clients /\ handler[c].registered
        <3>1. thr[w].pc # "idle" /\ w \in Threads
            BY <2>1, <2>7 DEF NInv, FdOK, Threads
        <3> QED
            BY <1>0, <2>7, <3>1 DEF ControlOK, Opened, LoopOnly, LInv, TaskOK
    <2> QED
        BY <2>2, <2>3, <2>4, <2>5, <2>6, <2>7 DEF Threads
<1>2. R \ S = {}
    BY <1>1
<1>3. {handler[h].fd : h \in R \ S} = {}
    BY <1>2
<1> QED
    BY <1>0, <1>3, CloseNothing DEF DtorsRun
----------------------------------------------------------------------------
\* No thread but t changes.
Alone(t) == \A u \in Threads \ {t} : thr'[u] = thr[u]

\* What is left of InTurn(c) when c's handler, its mask and its events stay, and its
\* threads stay or the loop goes on or leaves.
LEMMA TurnKept ==
    ASSUME NEW c \in Clients, InTurn(c),
           handler'[c].fd = handler[c].fd, handler'[c].type = handler[c].type, Mask(c)' = Mask(c),
           conn'[c].unread \in {conn[c].unread, 1}, batch' \subseteq batch,
           Busy(c)' => Busy(c) \/ Registering(c),
           \A w \in Workers : thr'[w].h = c /\ thr'[w].pc \in {"mask", "ctl"} => thr'[w] = thr[w],
           \/ LoopAt(c)' = LoopAt(c) /\ (LoopAt(c) = "ctl" => thr'[Loop].mask = thr[Loop].mask)
           \/ LoopAt(c) \notin {"mask", "ctl"} /\ LoopAt(c)' = "away"
           \/ /\ LoopAt(c) \notin {"mask", "ctl", "away", "run"}
              /\ LoopAt(c)' \in {"load", "store", "map", "write", "setread"}
    PROVE  InTurn(c)'
<1>1. Pending(c)' => Pending(c)
    BY DEF Pending
<1>2. Registering(c)' => Registering(c)
    BY DEF Registering
<1>3. /\ (InTurn(c)!1)' /\ (InTurn(c)!2)' /\ (InTurn(c)!3)' /\ (InTurn(c)!4)' /\ (InTurn(c)!5)'
    BY <1>1 DEF InTurn
<1>4. (InTurn(c)!6)'
    BY <1>1, <1>2 DEF InTurn
<1>5. (InTurn(c)!7)' /\ (InTurn(c)!8)'
    BY DEF InTurn
<1>6. (InTurn(c)!9)'
    BY DEF InTurn
<1> QED
    BY <1>3, <1>4, <1>5, <1>6 DEF InTurn

\* A client whose handler the step does not concern.
LEMMA Bystander ==
    ASSUME StateOK, NEW t \in Threads, NEW c \in Clients, Alone(t), thr[t].h # c, thr'[t].h # c,
           InTurn(c), handler'[c] = handler[c], Mask(c)' = Mask(c),
           conn'[c].unread \in {conn[c].unread, 1}, batch' \subseteq batch,
           (\E i \in DOMAIN tasks' : tasks'[i] = c) => \E i \in DOMAIN tasks : tasks[i] = c
    PROVE  InTurn(c)'
<1>0. Loop \in Threads /\ Workers \subseteq Threads
    BY DEF Threads
<1>1. LoopAt(c)' = LoopAt(c) /\ (LoopAt(c) = "ctl" => thr'[Loop].mask = thr[Loop].mask)
    BY <1>0, Fields DEF Alone, LoopAt, PCs
<1>2. \A w \in Workers : thr'[w].h = c => thr'[w] = thr[w]
    BY <1>0 DEF Alone
<1>3. Busy(c)' => Busy(c)
    BY <1>1, <1>2 DEF Busy
<1> QED
    BY <1>1, <1>2, <1>3, TurnKept

\* Nothing of the request under way moves.
LEMMA TokenKept ==
    ASSUME NEW c \in Clients, Token(c), conn'[c].sent = conn[c].sent, conn'[c].unread = conn[c].unread,
           handler'[c].reqs = handler[c].reqs, handler'[c].resps = handler[c].resps,
           written'[c] = written[c], (LoopAt(c)' = "push") <=> (LoopAt(c) = "push")
    PROVE  Token(c)'
<1>1. Flag(LoopAt(c)' = "push") = Flag(LoopAt(c) = "push")
    BY DEF Flag
<1> QED
    BY <1>1 DEF Token

\* A step of one thread that keeps the descriptors.
LEMMA ThreadTurns ==
    ASSUME IInv, LInv, NInv, NEW t \in Threads, NEW pc, NEW h, Moves(t, pc, h),
           pc \in {"idle", "next", "accept"} => h = None,
           UNCHANGED fdToHandler, SameFds, k'.owner = k.owner, batch' \subseteq batch,
           \A f \in Fds : k'.mask[f] # "hup",
           \A c \in Clients : /\ conn'[c].fin = conn[c].fin /\ conn'[c].err = conn[c].err
                              /\ handler'[c].type # "kError"
                              /\ handler[c].fd = None => handler'[c].type = handler[c].type
                              /\ Token(c)' /\ (handler[c].fd # None => InTurn(c)'),
           written' \in [Clients -> Nat]
    PROVE  NInv'
<1>1. FdOK'
    <2>1. \A f \in Fds : k.owner[f] # None => k.owner[f] \in Clients
        BY Ground, Fields
    <2>2. \A u \in Threads : thr'[u].pc \in {"idle", "next", "accept"} => thr'[u].h = None
        BY DEF NInv, FdOK, Moves
    <2> QED
        BY <2>1, <2>2 DEF NInv, FdOK, SameFds
<1>2. Calm'
    BY DEF NInv, Calm
<1> QED
    BY <1>1, <1>2 DEF NInv, SameFds
----------------------------------------------------------------------------
\* A step that changes none of this: a failed CHECK, stuttering.
LEMMA SameTurns ==
    ASSUME NInv, UNCHANGED <<conn, k, handler, fdToHandler, tasks, thr, batch, written>>
    PROVE  NInv'
<1>1. FdOK' /\ Calm'
    BY DEF NInv, FdOK, Calm
<1>2. ASSUME NEW c \in Clients PROVE Token(c)' /\ (handler[c].fd # None => InTurn(c)')
    <2>1. LoopAt(c)' = LoopAt(c) /\ Mask(c)' = Mask(c)
        BY DEF LoopAt, Mask
    <2>2. (Pending(c)' <=> Pending(c)) /\ (Registering(c)' <=> Registering(c))
        BY DEF Pending, Registering
    <2>3. Busy(c)' <=> Busy(c)
        BY <2>1 DEF Busy
    <2>4. Token(c)'
        BY <2>1, TokenKept DEF NInv
    <2> QED
        BY <2>1, <2>2, <2>3, <2>4 DEF NInv, InTurn
<1> QED
    BY <1>1, <1>2 DEF NInv

\* The server stays as it is, a client may have sent a request.
LEMMA ClientTurns ==
    ASSUME IInv, LInv, NInv, ClientUnchanged, k'.owner = k.owner, k'.mask = k.mask,
           \A c \in Clients : /\ conn'[c].fin = conn[c].fin /\ conn'[c].err = conn[c].err
                              /\ conn'[c].unread \in {conn[c].unread, 1} /\ Token(c)'
    PROVE  NInv'
<1>0. /\ Loop \in Threads /\ StateOK
      /\ UNCHANGED <<handler, fdToHandler, tasks, thr, batch, written>>
    BY Ground DEF ClientUnchanged
<1>1. Moves(Loop, thr[Loop].pc, thr[Loop].h)
    BY <1>0 DEF Moves, StateOK
<1>2. ASSUME NEW c \in Clients, handler[c].fd # None PROVE InTurn(c)'
    <2>1. InTurn(c)
        BY <1>2 DEF NInv
    <2>2. LoopAt(c)' = LoopAt(c) /\ Mask(c)' = Mask(c) /\ (Busy(c)' <=> Busy(c))
        BY <1>0 DEF LoopAt, Mask, Busy
    <2> QED
        BY <1>0, <2>1, <2>2, TurnKept
<1>3. SameFds /\ \A f \in Fds : k'.mask[f] # "hup"
    BY <1>0 DEF SameFds, NInv, Calm
<1>4. /\ thr[Loop].pc \in {"idle", "next", "accept"} => thr[Loop].h = None
      /\ written' \in [Clients -> Nat] /\ \A c \in Clients : handler'[c].type # "kError"
    BY <1>0 DEF NInv, FdOK, Calm
<1> QED
    BY <1>0, <1>1, <1>2, <1>3, <1>4, ThreadTurns

\* connect makes no request and touches no handler.
LEMMA ConnectTurns == ASSUME IInv, LInv, NInv, NEW c \in Clients, Connect(c) PROVE NInv'
<1>0. StateOK /\ conn \in [Clients -> ConnT] /\ ClientUnchanged /\ UNCHANGED <<handler, thr, written>>
    BY Ground DEF Connect, LInv, ConnOK, ClientUnchanged
<1>1. k'.owner = k.owner /\ k'.mask = k.mask
    BY <1>0 DEF Connect, StateOK, KernelT
<1>2. ASSUME NEW d \in Clients
      PROVE  /\ conn'[d].fin = conn[d].fin /\ conn'[d].err = conn[d].err
             /\ conn'[d].unread = conn[d].unread /\ conn'[d].sent = conn[d].sent
    BY <1>0 DEF Connect, ConnT
<1>3. ASSUME NEW d \in Clients PROVE Token(d)'
    <2>1. Token(d) /\ LoopAt(d)' = LoopAt(d)
        BY <1>0 DEF NInv, LoopAt
    <2> QED
        BY <1>0, <1>2, <2>1, TokenKept
<1> QED
    BY <1>0, <1>1, <1>2, <1>3, ClientTurns

\* A client that waits for its answer has nothing under way when it sends.
LEMMA SendTurns == ASSUME Orderly, IInv, LInv, NInv, NEW c \in Clients, Send(c) PROVE NInv'
<1>0. StateOK /\ conn \in [Clients -> ConnT] /\ ClientUnchanged /\ UNCHANGED <<handler, thr, written>>
    BY Ground DEF Send, LInv, ConnOK, ClientUnchanged
<1>1. k'.owner = k.owner /\ k'.mask = k.mask
    BY <1>0 DEF Send, Wake, StateOK, KernelT
<1>2. /\ conn[c].unread \in Nat /\ conn[c].sent \in Nat /\ handler[c].reqs \in Nat
      /\ handler[c].resps \in Nat /\ written[c] \in Nat
    BY OneToken
<1>3. conn[c].sent = written[c]
    BY DEF Send, Orderly
<1>4. /\ conn'[c].fin = conn[c].fin /\ conn'[c].err = conn[c].err
      /\ conn'[c].sent = conn[c].sent + 1 /\ conn'[c].unread = conn[c].unread + 1
      /\ \A d \in Clients \ {c} : conn'[d] = conn[d]
    BY <1>0 DEF Send, ConnT
<1>5. \A d \in Clients : LoopAt(d)' = LoopAt(d)
    BY <1>0 DEF LoopAt
<1>6. conn'[c].unread = 1 /\ Token(c)'
    <2> DEFINE push == Flag(LoopAt(c) = "push")
    <2>1. push \in Nat /\ Flag(LoopAt(c) = "push")' = push
        BY <1>5 DEF Flag
    <2>2. conn[c].sent = conn[c].unread + handler[c].reqs + handler[c].resps + written[c] + push
        BY DEF NInv, Token
    <2>3. Token(c)' <=>
            /\ conn'[c].sent = conn'[c].unread + handler[c].reqs + handler[c].resps + written[c] + push
            /\ conn'[c].sent <= written[c] + 1
        BY <1>0, <2>1 DEF Token
    <2> HIDE DEF push
    <2> QED
        BY <1>2, <1>3, <1>4, <2>1, <2>2, <2>3
<1>7. ASSUME NEW d \in Clients \ {c} PROVE Token(d)'
    <2>1. Token(d)
        BY DEF NInv
    <2> QED
        BY <1>0, <1>4, <1>5, <2>1, TokenKept
<1> QED
    BY <1>0, <1>1, <1>4, <1>6, <1>7, ClientTurns

\* epoll reports input only where there is a request to read, and room to write only
\* to a handler in kWrite.
LEMMA EpollWaitTurns == ASSUME IInv, LInv, NInv, EpollWait PROVE NInv'
<1>0. /\ Loop \in Threads /\ StateOK /\ thr[Loop].pc = "next" /\ thr[Loop].h = None
      /\ None \notin Clients
    BY Ground, ReactorAssumption DEF EpollWait, At, NInv, FdOK
<1>1. CASE count <= 0
    BY <1>1, SameTurns DEF EpollWait, Abort
<1> SUFFICES ASSUME ~(count <= 0) PROVE NInv'
    BY <1>1
<1> DEFINE Event(f) == [fd |-> f, rdhup |-> f # Listen /\ conn[k.owner[f]].fin,
                        err |-> f # Listen /\ conn[k.owner[f]].err]
<1>2. PICK got \in SUBSET k.rdy :
        /\ \A f \in got : f # Listen => Reportable(f, k.mask[f])
        /\ batch' = {Event(f) : f \in got}
        /\ k' = [k EXCEPT !.rdy = @ \ got]
        /\ UNCHANGED <<conn, handler, fdToHandler, tasks, thr, written>>
    BY Zenon DEF EpollWait
<1>3. k'.owner = k.owner /\ k'.mask = k.mask /\ got \subseteq Fd
    BY <1>0, <1>2, Fields DEF StateOK, KernelT
<1>4. ASSUME NEW f \in got, f # Listen PROVE f \in Fds /\ k.owner[f] \in Clients
    <2>1. f \in Fds /\ k.owner[f] \in Clients \cup {None}
        BY <1>0, <1>3, <1>4, Fields DEF Fd
    <2>2. k.mask[f] # "none"
        BY <1>2, <1>4 DEF Reportable
    <2>3. fdToHandler[f] # None
        BY <1>0, <2>1, <2>2 DEF LInv, MaskOK, Adding
    <2>4. fdToHandler[f] \in Clients /\ handler[fdToHandler[f]].fd = f
        BY <1>0, <2>1, <2>3 DEF LInv, MapOK, StateOK
    <2> QED
        BY <2>1, <2>4, ReactorAssumption DEF NInv, FdOK
<1>5. \A e \in batch' : ~e.err /\ ~e.rdhup
    <2>1. ASSUME NEW f \in got PROVE ~Event(f).err /\ ~Event(f).rdhup
        <3>1. f # Listen => ~conn[k.owner[f]].fin /\ ~conn[k.owner[f]].err
            BY <1>4 DEF NInv, Calm
        <3>2. Event(f).err = (f # Listen /\ conn[k.owner[f]].err)
            OBVIOUS
        <3>3. Event(f).rdhup = (f # Listen /\ conn[k.owner[f]].fin)
            OBVIOUS
        <3> HIDE DEF Event
        <3> QED
            BY <3>1, <3>2, <3>3, Zenon
    <2> HIDE DEF Event
    <2> QED
        BY <1>2, <2>1
<1>6. ASSUME NEW c \in Clients, handler[c].fd # None PROVE InTurn(c)'
    <2> DEFINE f == handler[c].fd
    <2>1. f \in Fds /\ f # Listen /\ k.owner[f] = c /\ InTurn(c)
        BY <1>0, <1>6, Fields DEF NInv, FdOK, Listen, Fds
    <2>2. LoopAt(c) = "away" /\ LoopAt(c)' = "away"
        BY <1>0, <1>2 DEF LoopAt
    <2>3. Mask(c)' = Mask(c) /\ (Busy(c)' <=> Busy(c)) /\ (Registering(c)' <=> Registering(c))
        BY <1>2, <1>3, <2>2 DEF Mask, Busy, Registering
    <2>4. Pending(c)' => Reportable(f, k.mask[f])
        BY <1>2, <2>1, SMTT(30) DEF Pending
    <2>5. Pending(c)' => \/ Mask(c) = "in" /\ conn[c].unread = 1
                         \/ Mask(c) = "out" /\ handler[c].type = "kWrite"
        <3>1. ~conn[c].fin /\ ~conn[c].err
            BY DEF NInv, Calm
        <3>2. conn[c].unread \in {0, 1}
            BY OneToken DEF Flag
        <3> QED
            BY <2>1, <2>2, <2>4, <3>1, <3>2 DEF Reportable, Mask, InTurn
    <2>6. Busy(c) \/ Registering(c) => conn[c].unread = 0 /\ Mask(c) = "in"
        BY <1>6, <2>1, OneToken, RegisteringOwes DEF InTurn
    <2>7. Pending(c)' => ~Busy(c) /\ ~Registering(c)
        BY <2>5, <2>6
    <2>8. UNCHANGED <<conn[c], handler[c], thr>>
        BY <1>2
    <2> HIDE DEF f
    <2> QED
        BY <2>1, <2>2, <2>3, <2>5, <2>7, <2>8 DEF InTurn
<1>7. ASSUME NEW c \in Clients PROVE Token(c)'
    BY <1>2 DEF NInv, Token, LoopAt
<1> QED
    BY <1>2, <1>3, <1>5, <1>6, <1>7 DEF NInv, FdOK, Calm
----------------------------------------------------------------------------
\* The handlers that a thread leaves alone, in a step that only moves this thread and
\* changes at most its own handler h and the mask of h's descriptor.
LEMMA Bystanders ==
    ASSUME IInv, LInv, NInv, NEW t \in Threads, Alone(t), NEW h \in Clients \cup {None},
           thr[t].h \in {h, None}, thr'[t].h \in {h, None}, batch' \subseteq batch,
           \A d \in Clients \ {h} :
                /\ handler'[d] = handler[d] /\ conn'[d] = conn[d] /\ written'[d] = written[d]
                /\ (\E i \in DOMAIN tasks' : tasks'[i] = d) => \E i \in DOMAIN tasks : tasks[i] = d,
           \A f \in Fds : (h = None \/ f # handler[h].fd) => k'.mask[f] = k.mask[f],
           NEW c \in Clients, c # h
    PROVE  Token(c)' /\ (handler[c].fd # None => InTurn(c)')
<1>0. /\ Loop \in Threads /\ StateOK /\ thr[t].h # c /\ thr'[t].h # c
      /\ handler'[c] = handler[c] /\ conn'[c] = conn[c] /\ written'[c] = written[c]
      /\ (\E i \in DOMAIN tasks' : tasks'[i] = c) => \E i \in DOMAIN tasks : tasks[i] = c
    BY Ground, ReactorAssumption
<1>1. LoopAt(c)' = LoopAt(c)
    BY <1>0 DEF LoopAt, Alone
<1>2. Token(c)'
    <2>1. Token(c)
        BY DEF NInv
    <2> QED
        BY <1>0, <1>1, <2>1, TokenKept
<1>3. ASSUME handler[c].fd # None PROVE InTurn(c)'
    <2>1. handler[c].fd \in Fds /\ (h # None => handler[c].fd # handler[h].fd) /\ InTurn(c)
        BY <1>0, <1>3, Fields, SMTT(30) DEF NInv, FdOK
    <2>2. Mask(c)' = Mask(c)
        BY <1>0, <2>1, SMTT(30) DEF Mask
    <2> QED
        BY <1>0, <2>1, <2>2, Bystander
<1> QED
    BY <1>2, <1>3

\* EpollReactor::HandleEvents takes an event: it is in the loop's hand, no longer in the batch.
LEMMA NextEventTurns == ASSUME IInv, LInv, NInv, NextEvent PROVE NInv'
<1>0. /\ Loop \in Threads /\ StateOK /\ ControlOK /\ thr[Loop].pc = "next" /\ thr[Loop].h = None
      /\ None \notin Clients /\ written \in [Clients -> Nat]
    BY Ground, ReactorAssumption DEF NextEvent, At, NInv, FdOK
<1>1. PICK e \in batch :
        \/ e.fd = Listen /\ TakeEvent(None, batch \ {e}, handler, "accept")
        \/ /\ e.fd # Listen
           /\ fdToHandler[e.fd] = None
           /\ Abort("map")
        \/ /\ e.fd # Listen /\ fdToHandler[e.fd] # None
           /\ TakeEvent(fdToHandler[e.fd], batch \ {e}, handler, "dispatch")
    BY Zenon DEF NextEvent, NInv, Calm
<1>2. CASE Abort("map")
    BY <1>2, SameTurns DEF Abort
<1> SUFFICES ASSUME ~Abort("map") PROVE NInv'
    BY <1>2
<1>3. PICK h \in Clients \cup {None}, pc \in PCs :
        /\ TakeEvent(h, batch \ {e}, handler, pc)
        /\ h = None => pc = "accept"
        /\ h # None => pc = "dispatch" /\ e.fd # Listen /\ h = fdToHandler[e.fd]
    <2>1. CASE e.fd = Listen
        BY <1>1, <2>1 DEF PCs
    <2>2. CASE e.fd # Listen
        BY <1>0, <1>1, <2>2 DEF PCs, StateOK, Fd
    <2> QED
        BY <2>1, <2>2
<1>4. UNCHANGED <<conn, k, handler, fdToHandler, tasks, written>> /\ batch' = batch \ {e}
    BY <1>3 DEF TakeEvent
<1>5. h # None => e.fd \in Fds /\ h \in Clients /\ handler[h].fd = e.fd
    BY <1>0, <1>3 DEF StateOK, LInv, MapOK, Fd
<1>6. Moves(Loop, pc, h) /\ Alone(Loop)
    BY <1>0, <1>3, TakeMoves, ZenonT(40) DEF TakeEvent, Alone, StateOK
<1>7. thr'[Loop].pc = pc /\ thr'[Loop].h = h
    BY <1>6 DEF Moves
<1>8. ASSUME NEW c \in Clients, c # h PROVE Token(c)' /\ (handler[c].fd # None => InTurn(c)')
    BY <1>0, <1>3, <1>4, <1>6, <1>7, <1>8, Bystanders, SMTT(30)
<1>9. ASSUME h # None PROVE Token(h)' /\ InTurn(h)'
    <2>1. /\ h \in Clients /\ handler[h].fd = e.fd /\ e.fd \in Fds /\ Token(h) /\ InTurn(h)
          /\ LoopAt(h) = "away" /\ LoopAt(h)' = "dispatch"
        BY <1>0, <1>3, <1>5, <1>7, <1>9, ReactorAssumption, SMTT(30) DEF NInv, LoopAt
    <2>2. Pending(h) /\ ~Pending(h)'
        BY <1>4, <2>1 DEF Pending, LInv, BatchOK
    <2>3. ~Busy(h) /\ ~Registering(h)
        BY <2>1, <2>2 DEF InTurn
    <2>4. \A w \in Workers : thr'[w] = thr[w]
        BY <1>6, Ground DEF Alone
    <2>5. ~Busy(h)' /\ ~Registering(h)' /\ Mask(h)' = Mask(h)
        BY <1>4, <2>1, <2>3, <2>4 DEF Busy, Registering, Mask
    <2>6. Token(h)'
        BY <1>4, <2>1, TokenKept
    <2>7. UNCHANGED <<conn[h], handler[h]>>
        BY <1>4
    <2> QED
        BY <2>1, <2>2, <2>3, <2>4, <2>5, <2>6, <2>7, SMTT(30) DEF InTurn
<1>10. SameFds /\ (\A f \in Fds : k'.mask[f] # "hup") /\ \A c \in Clients : handler'[c].type # "kError"
    BY <1>4 DEF SameFds, NInv, Calm
<1>11. pc \in {"idle", "next", "accept"} => h = None
    BY <1>3
<1> QED
    BY <1>0, <1>4, <1>6, <1>8, <1>9, <1>10, <1>11, ThreadTurns

\* The loop turns to Read or Write as the handler's type says; there is no kError to close.
LEMMA DispatchTurns == ASSUME IInv, LInv, NInv, Dispatch PROVE NInv'
<1>h. PICK h \in Clients : h = thr[Loop].h
    BY Ground DEF Dispatch, At, ControlOK, Opened
<1>0. /\ Loop \in Threads /\ StateOK /\ thr[Loop].pc = "dispatch" /\ written \in [Clients -> Nat]
      /\ thr[Loop].h = h /\ handler[h].fd # None /\ Token(h) /\ InTurn(h)
    BY <1>h, Ground, ReactorAssumption, ZenonT(40) DEF Dispatch, At, NInv, ControlOK, Opened
<1>1. PICK pc \in {"read", "write"} :
        /\ Goto(Loop, pc) /\ UNCHANGED <<conn, k, handler, fdToHandler, tasks, batch, written>>
        /\ pc = "read" => handler[h].type = "kRead"
    BY <1>0, Zenon DEF Dispatch, NInv, Calm
<1>2. pc \in PCs
    BY DEF PCs
<1>3. Moves(Loop, pc, h) /\ Alone(Loop)
    BY <1>0, <1>1, <1>2, GotoMoves, ZenonT(40) DEF Goto, Alone, StateOK
<1>4. thr'[Loop].pc = pc /\ thr'[Loop].h = h
    BY <1>3 DEF Moves
<1>5. ASSUME NEW c \in Clients, c # h PROVE Token(c)' /\ (handler[c].fd # None => InTurn(c)')
    BY <1>0, <1>1, <1>3, <1>4, <1>5, Bystanders, Zenon
<1>6. LoopAt(h) = "dispatch" /\ LoopAt(h)' = pc
    BY <1>0, <1>4 DEF LoopAt
<1>7. \A w \in Workers : thr'[w] = thr[w]
    BY <1>3, Ground DEF Alone
<1>8. ~Busy(h) /\ ~Registering(h) /\ ~Pending(h)
    BY <1>0, <1>6, SMTT(30) DEF InTurn
<1>9. ~Busy(h)' /\ ~Registering(h)' /\ ~Pending(h)' /\ Mask(h)' = Mask(h)
    BY <1>1, <1>2, <1>6, <1>7, <1>8 DEF Busy, Registering, Mask, Pending
<1>10. Token(h)'
    BY <1>0, <1>1, <1>2, <1>6, TokenKept
<1>11. UNCHANGED <<conn[h], handler[h]>>
    BY <1>1, SMTT(30)
<1>12. InTurn(h)'
    BY <1>0, <1>1, <1>6, <1>7, <1>8, <1>9, <1>11, SMTT(30) DEF InTurn
<1>13. SameFds /\ (\A f \in Fds : k'.mask[f] # "hup") /\ \A c \in Clients : handler'[c].type # "kError"
    BY <1>1 DEF SameFds, NInv, Calm
<1>14. pc \notin {"idle", "next", "accept"}
    OBVIOUS
<1> QED
    BY <1>0, <1>1, <1>3, <1>5, <1>10, <1>12, <1>13, <1>14, ThreadTurns
\* What a step with handler h in hand leaves of the other clients, and of the masks.
SameOthers(h) ==
    \A d \in Clients \ {h} :
        /\ handler'[d] = handler[d] /\ conn'[d] = conn[d] /\ written'[d] = written[d]
        /\ (\E i \in DOMAIN tasks' : tasks'[i] = d) => \E i \in DOMAIN tasks : tasks[i] = d

SameMasks(h) == \A f \in Fds : (h = None \/ f # handler[h].fd) => k'.mask[f] = k.mask[f]

\* The other clients keep their turns, from what a step leaves of them.
LEMMA OthersKept ==
    ASSUME IInv, LInv, NInv, NEW t \in Threads, Alone(t), NEW h \in Clients,
           thr[t].h \in {h, None}, thr'[t].h \in {h, None}, batch' \subseteq batch,
           SameOthers(h), SameMasks(h)
    PROVE  \A c \in Clients : c # h => Token(c)' /\ (handler[c].fd # None => InTurn(c)')
<1> TAKE c \in Clients
<1> HAVE c # h
<1> QED
    BY Bystanders, ZenonT(40) DEF SameOthers, SameMasks

\* A step of a thread with handler h in hand.
LEMMA StepTurns ==
    ASSUME IInv, LInv, NInv, NEW t \in Threads, NEW h \in Clients, thr[t].h \in {h, None},
           NEW pc, NEW g \in {h, None},
           Moves(t, pc, g), Alone(t), pc \in {"idle", "next", "accept"} => g = None,
           UNCHANGED fdToHandler, SameFds, k'.owner = k.owner, batch' = batch,
           written' \in [Clients -> Nat],
           \A d \in Clients \ {h} :
                /\ handler'[d] = handler[d] /\ conn'[d] = conn[d] /\ written'[d] = written[d]
                /\ (\E i \in DOMAIN tasks' : tasks'[i] = d) => \E i \in DOMAIN tasks : tasks[i] = d,
           \A f \in Fds : f # handler[h].fd => k'.mask[f] = k.mask[f],
           handler[h].fd \in Fds => k'.mask[handler[h].fd] # "hup",
           conn'[h].fin = conn[h].fin /\ conn'[h].err = conn[h].err,
           handler'[h].type # "kError", handler[h].fd # None, Token(h)', InTurn(h)'
    PROVE  NInv'
<1>0. None \notin Clients /\ thr'[t].h = g
    BY ReactorAssumption, ZenonT(40) DEF Moves
<1>1. ASSUME NEW c \in Clients, c # h PROVE Token(c)' /\ (handler[c].fd # None => InTurn(c)')
    <2>1. thr'[t].h \in {h, None} /\ batch' \subseteq batch
        BY <1>0
    <2>2. SameOthers(h) /\ SameMasks(h)
        BY <1>0 DEF SameOthers, SameMasks
    <2> QED
        BY <1>1, <2>1, <2>2, OthersKept, SMTT(30)
<1>2. \A f \in Fds : k'.mask[f] # "hup"
    BY SMTT(30) DEF NInv, Calm
<1>3. \A c \in Clients : /\ conn'[c].fin = conn[c].fin /\ conn'[c].err = conn[c].err
                         /\ handler'[c].type # "kError"
                         /\ handler[c].fd = None => handler'[c].type = handler[c].type
    BY DEF NInv, Calm
<1> QED
    BY <1>1, <1>2, <1>3, Ground, ThreadTurns, ZenonT(40)

\* What else the lemma asks of such a step, under one name.
StepKeeps(h) ==
    /\ UNCHANGED fdToHandler /\ SameFds /\ k'.owner = k.owner /\ batch' = batch
    /\ written' \in [Clients -> Nat] /\ SameOthers(h)
    /\ \A f \in Fds : f # handler[h].fd => k'.mask[f] = k.mask[f]
    /\ handler[h].fd \in Fds => k'.mask[handler[h].fd] # "hup"
    /\ conn'[h].fin = conn[h].fin /\ conn'[h].err = conn[h].err
    /\ handler'[h].type # "kError" /\ handler[h].fd # None

\* The lemma, from that.
LEMMA KeptTurns ==
    ASSUME IInv, LInv, NInv, NEW t \in Threads, NEW h \in Clients, thr[t].h \in {h, None},
           NEW pc, NEW g \in {h, None},
           Moves(t, pc, g), Alone(t), pc \in {"idle", "next", "accept"} => g = None,
           StepKeeps(h), Token(h)', InTurn(h)'
    PROVE  NInv'
BY StepTurns, ZenonT(40) DEF StepKeeps, SameOthers

\* The loop is at pc with handler h.
InHandOf(h, pc) ==
    /\ thr[Loop].h = h /\ thr[Loop].pc = pc /\ LoopAt(h) = pc
    /\ handler[h].fd \in Fds /\ handler[h].fd # None /\ k.owner[handler[h].fd] = h
    /\ handler[h] \in HandlerT
    /\ Token(h) /\ InTurn(h) /\ handler[h].type # "kError" /\ ~conn[h].err
    /\ StateOK /\ Loop \in Threads /\ written \in [Clients -> Nat]
    /\ ~Pending(h) /\ (pc # "run" => ~Busy(h) /\ ~Registering(h))

\* What NInv gives for the handler the loop works on.
LEMMA InHand ==
    ASSUME IInv, LInv, NInv, NEW pc, At(Loop, pc), pc \notin {"idle", "next", "accept"}
    PROVE  \E h \in Clients : InHandOf(h, pc)
<1>1. StateOK /\ Loop \in Threads /\ Opened(thr[Loop].h) /\ thr[Loop].pc = pc
    BY Ground DEF At, ControlOK
<1>2. PICK h \in Clients : thr[Loop].h = h
    BY <1>1 DEF Opened
<1>3. /\ handler[h].fd \in Fds /\ handler[h].fd # None /\ k.owner[handler[h].fd] = h
      /\ Token(h) /\ InTurn(h) /\ handler[h].type # "kError" /\ ~conn[h].err
    BY <1>1, <1>2, ReactorAssumption, ZenonT(40) DEF Opened, NInv, FdOK, Calm
<1>4. LoopAt(h) = pc /\ pc \in PCs /\ pc # "away"
    BY <1>1, <1>2, Fields, SMTT(30) DEF LoopAt, PCs
<1>5. ~Pending(h) /\ (pc # "run" => ~Busy(h) /\ ~Registering(h))
    BY <1>3, <1>4 DEF InTurn
<1> QED
    BY <1>1, <1>2, <1>3, <1>4, <1>5, Fields DEF NInv, InHandOf

\* The request is read; the flag of the token goes up as unread goes down.
LEMMA ReadTurns == ASSUME IInv, LInv, NInv, Read PROVE NInv'
<1>0. At(Loop, "read") /\ conn \in [Clients -> ConnT]
    BY Zenon DEF Read, LInv, ConnOK
<1>h. PICK h \in Clients : InHandOf(h, "read")
    BY <1>0, InHand
<1>1. /\ thr[Loop].h = h /\ thr[Loop].pc = "read" /\ LoopAt(h) = "read"
      /\ handler[h].fd \in Fds /\ handler[h].fd # None /\ k.owner[handler[h].fd] = h
      /\ Token(h) /\ InTurn(h) /\ handler[h].type # "kError" /\ ~conn[h].err
      /\ StateOK /\ Loop \in Threads /\ written \in [Clients -> Nat]
      /\ ~Busy(h) /\ ~Registering(h) /\ ~Pending(h)
    BY <1>h DEF InHandOf
<1>2. /\ conn' = [conn EXCEPT ![h].unread = 0] /\ Goto(Loop, "push")
      /\ UNCHANGED <<k, handler, fdToHandler, tasks, batch, written>>
    BY <1>1, ReactorAssumption DEF Read
<1>3. Moves(Loop, "push", h) /\ Alone(Loop)
    BY <1>1, <1>2, GotoMoves, ZenonT(40) DEF Goto, Alone, StateOK, PCs
<1>4. LoopAt(h)' = "push" /\ \A w \in Workers : thr'[w] = thr[w]
    BY <1>3, Ground DEF LoopAt, Moves, Alone
<1>5. /\ conn'[h].unread = 0 /\ conn'[h].sent = conn[h].sent
      /\ conn'[h].fin = conn[h].fin /\ conn'[h].err = conn[h].err
      /\ \A d \in Clients \ {h} : conn'[d] = conn[d]
    BY <1>0, <1>2 DEF ConnT
<1>6. conn[h].unread = 1 /\ Mask(h) = "in"
    BY <1>1 DEF InTurn
<1>7. Token(h)'
    <2>1. Flag(LoopAt(h) = "push") = 0 /\ Flag(LoopAt(h) = "push")' = 1
        BY <1>1, <1>4 DEF Flag
    <2> QED
        BY <1>1, <1>2, <1>5, <1>6, <2>1, OneToken DEF Token
<1>8. ~Busy(h)' /\ ~Registering(h)' /\ ~Pending(h)' /\ Mask(h)' = "in"
    BY <1>1, <1>2, <1>4, <1>6 DEF Busy, Registering, Pending, Mask
<1>9. InTurn(h)'
    BY <1>2, <1>4, <1>8 DEF InTurn, Registering
<1>10. SameFds /\ k'.mask[handler[h].fd] # "hup" /\ handler'[h].type # "kError"
    BY <1>1, <1>2 DEF SameFds, NInv, Calm
<1> QED
    BY <1>1, <1>2, <1>3, <1>5, <1>7, <1>9, <1>10, StepTurns

\* request_q_.push: the loop is alone with the handler.
LEMMA PushTurns == ASSUME IInv, LInv, NInv, PushRequest PROVE NInv'
<1>0. At(Loop, "push")
    BY DEF PushRequest
<1>h. PICK h \in Clients : InHandOf(h, "push")
    BY <1>0, InHand
<1>1. /\ thr[Loop].h = h /\ LoopAt(h) = "push" /\ handler[h].fd # None /\ handler[h].fd \in Fds
      /\ handler[h].reqs \in Nat /\ handler[h].resps \in Int
      /\ Token(h) /\ InTurn(h) /\ handler[h].type # "kError"
      /\ StateOK /\ Loop \in Threads /\ written \in [Clients -> Nat]
      /\ ~Busy(h) /\ ~Registering(h) /\ ~Pending(h)
    BY <1>h DEF InHandOf, HandlerT
<1>2. /\ handler' = [handler EXCEPT ![h].reqs = @ + 1] /\ Goto(Loop, "run")
      /\ UNCHANGED <<conn, k, fdToHandler, tasks, batch, written>>
    BY <1>1 DEF PushRequest
<1>3. Moves(Loop, "run", h) /\ Alone(Loop)
    BY <1>1, <1>2, GotoMoves, ZenonT(40) DEF Goto, Alone, StateOK, PCs
<1>4. LoopAt(h)' = "run" /\ \A w \in Workers : thr'[w] = thr[w]
    BY <1>3, Ground DEF LoopAt, Moves, Alone
<1>5. /\ handler'[h].type = handler[h].type /\ handler'[h].fd = handler[h].fd
      /\ handler'[h].reqs = handler[h].reqs + 1 /\ handler'[h].resps = handler[h].resps
      /\ \A d \in Clients \ {h} : handler'[d] = handler[d]
    BY <1>1, <1>2, PushSets, ZenonT(40) DEF Sets
<1>6. Token(h)'
    <2>1. Flag(LoopAt(h) = "push") = 1 /\ Flag(LoopAt(h) = "push")' = 0
        BY <1>1, <1>4 DEF Flag
    <2> QED
        BY <1>1, <1>2, <1>5, <2>1, OneToken DEF Token
<1>7. Mask(h)' = "in" /\ ~Registering(h)' /\ ~Pending(h)'
    BY <1>1, <1>2, <1>4, <1>5 DEF Registering, Pending, Mask, InTurn
<1>8. InTurn(h)'
    BY <1>4, <1>7 DEF InTurn, Registering
<1>9. SameFds /\ k'.mask[handler[h].fd] # "hup" /\ handler'[h].type # "kError"
    BY <1>1, <1>2, <1>5, SameFdsHandler, ZenonT(40) DEF NInv, Calm
<1> QED
    BY <1>1, <1>2, <1>3, <1>5, <1>6, <1>8, <1>9, StepTurns

\* The task goes from the loop to the queue.
LEMMA RunTaskTurns == ASSUME IInv, LInv, NInv, RunTask PROVE NInv'
<1>0. At(Loop, "run")
    BY DEF RunTask
<1>h. PICK h \in Clients : InHandOf(h, "run")
    BY <1>0, InHand
<1>1. /\ thr[Loop].h = h /\ LoopAt(h) = "run" /\ handler[h].fd # None /\ handler[h].fd \in Fds
      /\ Token(h) /\ InTurn(h) /\ handler[h].type # "kError"
      /\ StateOK /\ Loop \in Threads /\ written \in [Clients -> Nat] /\ thr[Loop].pc = "run"
    BY <1>h, SMTT(30) DEF InHandOf
<1>2. /\ tasks' \in {tasks, Append(tasks, h)} /\ Return(Loop, "next") /\ DtorsRun(k)
      /\ UNCHANGED <<conn, handler, fdToHandler, batch, written>>
    BY <1>1 DEF RunTask
<1>3. Moves(Loop, "next", None) /\ Alone(Loop)
    BY <1>1, <1>2, ReturnMoves, ZenonT(40) DEF Return, Alone, StateOK, PCs
<1>4. LoopAt(h)' = "away" /\ \A w \in Workers : thr'[w] = thr[w]
    BY <1>3, Ground, ReactorAssumption DEF LoopAt, Moves, Alone
<1>5. k' = k
    <2>1. \A c \in Clients : handler[c].registered => \E f \in Fds : fdToHandler'[f] = c
        BY <1>1, <1>2, Fields, ZenonT(40) DEF NInv, FdOK
    <2>2. handler[h].registered
        BY <1>1 DEF LInv, TaskOK
    <2> QED
        BY <1>1, <1>2, <2>1, <2>2, NoDtors, SMTT(30)
<1>6. \A d \in Clients : (\E i \in DOMAIN tasks' : tasks'[i] = d) => d = h \/ \E i \in DOMAIN tasks : tasks[i] = d
    <2>1. tasks \in Seq(Clients)
        BY <1>1 DEF StateOK
    <2>2. CASE tasks' = Append(tasks, h)
        <3> SUFFICES ASSUME NEW d \in Clients, NEW i \in DOMAIN tasks', tasks'[i] = d, d # h
                     PROVE  \E j \in DOMAIN tasks : tasks[j] = d
            OBVIOUS
        <3>1. i \in 1 .. Len(tasks) + 1 /\ Len(tasks) \in Nat
            BY <2>1, <2>2
        <3>2. i # Len(tasks) + 1
            BY <2>1, <2>2
        <3>3. i \in DOMAIN tasks /\ tasks[i] = d
            BY <2>1, <2>2, <3>1, <3>2
        <3> QED
            BY <3>3
    <2> QED
        BY <1>2, <2>2
<1>7. Token(h)'
    BY <1>1, <1>2, <1>4, TokenKept
<1>8. InTurn(h)'
    <2>1. Busy(h) /\ Mask(h)' = Mask(h)
        BY <1>1, <1>2, <1>5 DEF Busy, Mask
    <2>2. LoopAt(h) \notin {"mask", "ctl"}
        BY <1>1
    <2> QED
        BY <1>1, <1>2, <1>4, <2>1, <2>2, TurnKept, ZenonT(40)
<1>9. SameFds /\ k'.mask[handler[h].fd] # "hup"
    BY <1>1, <1>2, <1>5 DEF SameFds, NInv, Calm
<1> QED
    BY <1>1, <1>2, <1>3, <1>5, <1>6, <1>7, <1>8, <1>9, StepTurns

\* The response is written: the client may send again.
LEMMA WriteTurns == ASSUME IInv, LInv, NInv, Write PROVE NInv'
<1>0. At(Loop, "write")
    BY DEF Write
<1>h. PICK h \in Clients : InHandOf(h, "write")
    BY <1>0, InHand
<1>1. /\ thr[Loop].h = h /\ LoopAt(h) = "write" /\ handler[h].fd # None /\ handler[h].fd \in Fds
      /\ Token(h) /\ InTurn(h) /\ handler[h].type # "kError"
      /\ StateOK /\ Loop \in Threads /\ written \in [Clients -> Nat] /\ ~Busy(h)
    BY <1>h DEF InHandOf
<1>2. /\ handler' = [handler EXCEPT ![h].resps = @ - 1] /\ written' = [written EXCEPT ![h] = @ + 1]
      /\ Goto(Loop, "setread") /\ UNCHANGED <<conn, k, fdToHandler, tasks, batch>>
    BY <1>1 DEF Write
<1>3. Moves(Loop, "setread", h) /\ Alone(Loop)
    BY <1>1, <1>2, GotoMoves, ZenonT(40) DEF Goto, Alone, StateOK, PCs
<1>4. LoopAt(h)' = "setread" /\ \A w \in Workers : thr'[w] = thr[w]
    BY <1>3, Ground DEF LoopAt, Moves, Alone
<1>5. /\ handler'[h].type = handler[h].type /\ handler'[h].fd = handler[h].fd
      /\ handler'[h].reqs = handler[h].reqs /\ handler'[h].resps = handler[h].resps - 1
      /\ \A d \in Clients \ {h} : handler'[d] = handler[d]
    BY <1>1, <1>2, PopSets, ZenonT(40) DEF Sets
<1>6. /\ written' \in [Clients -> Nat] /\ written'[h] = written[h] + 1
      /\ \A d \in Clients \ {h} : written'[d] = written[d]
    BY <1>1, <1>2
<1>7. Token(h)'
    <2>1. Flag(LoopAt(h) = "push") = 0 /\ Flag(LoopAt(h) = "push")' = 0
        BY <1>1, <1>4 DEF Flag
    <2> QED
        BY <1>1, <1>2, <1>5, <1>6, <2>1, OneToken DEF Token
<1>8. InTurn(h)'
    <2>1. Mask(h)' = Mask(h) /\ (Busy(h)' => Busy(h))
        BY <1>2, <1>4, <1>5 DEF Busy, Mask
    <2> QED
        BY <1>1, <1>2, <1>4, <1>5, <2>1, TurnKept
<1>9. SameFds /\ k'.mask[handler[h].fd] # "hup" /\ handler'[h].type # "kError"
    BY <1>1, <1>2, <1>5, SameFdsHandler, Zenon DEF NInv, Calm
<1> QED
    BY <1>1, <1>2, <1>3, <1>5, <1>6, <1>7, <1>8, <1>9, StepTurns

\* The loop asks for kRead again, alone with the handler.
LEMMA SetTypeReadTurns == ASSUME IInv, LInv, NInv, SetTypeRead PROVE NInv'
<1>0. At(Loop, "setread")
    BY DEF SetTypeRead, SetType
<1>h. PICK h \in Clients : InHandOf(h, "setread")
    BY <1>0, InHand
<1>1. /\ thr[Loop].h = h /\ LoopAt(h) = "setread" /\ handler[h].fd # None /\ handler[h].fd \in Fds
      /\ Token(h) /\ StateOK /\ Loop \in Threads /\ written \in [Clients -> Nat]
      /\ ~Busy(h) /\ ~Registering(h) /\ ~Pending(h)
    BY <1>h DEF InHandOf
<1>2. /\ handler' = [handler EXCEPT ![h].type = "kRead"] /\ Goto(Loop, "mask")
      /\ UNCHANGED <<conn, k, fdToHandler, tasks, batch, written>>
    BY <1>1 DEF SetTypeRead, SetType
<1>3. Moves(Loop, "mask", h) /\ Alone(Loop)
    BY <1>1, <1>2, GotoMoves, ZenonT(40) DEF Goto, Alone, StateOK, PCs
<1>4. LoopAt(h)' = "mask" /\ \A w \in Workers : thr'[w] = thr[w]
    BY <1>3, Ground DEF LoopAt, Moves, Alone
<1>5. /\ handler'[h].type = "kRead" /\ handler'[h].fd = handler[h].fd
      /\ handler'[h].reqs = handler[h].reqs /\ handler'[h].resps = handler[h].resps
      /\ \A d \in Clients \ {h} : handler'[d] = handler[d]
    BY <1>1, <1>2, TypeSets, ZenonT(40) DEF Sets
<1>6. Token(h)'
    BY <1>1, <1>2, <1>4, <1>5, TokenKept
<1>7. ~Busy(h)' /\ ~Registering(h)' /\ ~Pending(h)'
    BY <1>1, <1>2, <1>4, <1>5 DEF Busy, Registering, Pending
<1>8. InTurn(h)'
    BY <1>4, <1>5, <1>7 DEF InTurn, Registering
<1>9. SameFds /\ k'.mask[handler[h].fd] # "hup"
    BY <1>1, <1>2, SameFdsHandler, ZenonT(40) DEF NInv, Calm
<1> QED
    BY <1>1, <1>2, <1>3, <1>5, <1>6, <1>8, <1>9, StepTurns

\* A new connection gets a descriptor that nobody uses: no task, event or mask of an
\* earlier connection can name it.
LEMMA AcceptTurns == ASSUME IInv, LInv, NInv, Accept PROVE NInv'
<1>0. /\ Loop \in Threads /\ StateOK /\ ControlOK /\ thr[Loop].pc = "accept" /\ thr[Loop].h = None
      /\ None \notin Clients /\ None \notin Fds /\ Listen \notin Fds /\ Workers \subseteq Threads
    <2>1. Listen \notin Fds
        BY DEF Listen, Fds
    <2> QED
        BY <2>1, Ground, ReactorAssumption, Zenon DEF Accept, At, NInv, FdOK
<1>1. CASE k.backlog = <<>>
    BY <1>1, SameTurns DEF Accept, Abort
<1> SUFFICES ASSUME k.backlog # <<>> PROVE NInv'
    BY <1>1
<1>2. PICK c \in Clients, f \in Fds :
        /\ c = Head(k.backlog) /\ k.owner[f] = None
        /\ k' = [k EXCEPT !.backlog = Tail(@), !.owner[f] = c]
        /\ handler' = [handler EXCEPT ![c].fd = f]
        /\ thr' = [thr EXCEPT ![Loop].pc = "mask", ![Loop].h = c]
        /\ UNCHANGED <<conn, fdToHandler, tasks, batch, written>>
    <2>1. Head(k.backlog) \in Clients
        BY <1>0, Fields
    <2> QED
        BY <2>1, Zenon DEF Accept
<1>3. handler[c].fd = None
    <2>1. 1 \in DOMAIN k.backlog /\ k.backlog[1] = c
        BY <1>0, <1>2, Fields
    <2> QED
        BY <2>1 DEF LInv, BacklogOK
<1>4. /\ k'.mask = k.mask /\ k'.owner = [k.owner EXCEPT ![f] = c]
      /\ k.owner \in [Fds -> Clients \cup {None}]
    BY <1>0, <1>2 DEF StateOK, KernelT
<1>5. /\ handler'[c].type = handler[c].type /\ handler'[c].fd = f
      /\ handler'[c].reqs = handler[c].reqs /\ handler'[c].resps = handler[c].resps
      /\ handler'[c].registered = handler[c].registered
      /\ \A d \in Clients \ {c} : handler'[d] = handler[d]
    BY <1>0, <1>2, Fields DEF StateOK, HandlerT
<1>6. Moves(Loop, "mask", c) /\ Alone(Loop)
    BY <1>0, <1>2, TakeMoves, ZenonT(40) DEF Alone, StateOK, PCs
<1>7. /\ thr'[Loop].h = c /\ LoopAt(c) = "away" /\ LoopAt(c)' = "mask"
      /\ \A w \in Workers : thr'[w] = thr[w]
    BY <1>0, <1>6, Ground DEF LoopAt, Moves, Alone
<1>8. fdToHandler[f] = None
    BY <1>0, <1>2 DEF StateOK, LInv, MapOK, NInv, FdOK
<1>9. k.mask[f] = "none"
    BY <1>0, <1>8 DEF LInv, MaskOK, Adding
<1>10. InTurn(c)'
    <2>1. ~Pending(c)'
        BY <1>0, <1>2, <1>5, <1>8, SMTT(30) DEF Pending, LInv, BatchOK
    <2>2. \A i \in DOMAIN tasks : tasks[i] # c
        BY <1>0, <1>3 DEF ControlOK, Opened
    <2>3. \A w \in Workers : thr[w].h = c => thr[w].pc \in {"idle", "next", "accept"}
        BY <1>0, <1>3 DEF ControlOK, Opened
    <2>4. ~Busy(c)' /\ ~Registering(c)'
        BY <1>2, <1>7, <2>2, <2>3, ZenonT(40) DEF Busy, Registering
    <2>5. Mask(c)' = "none" /\ handler'[c].type = "kRead"
        BY <1>3, <1>4, <1>5, <1>9 DEF Mask, NInv, FdOK
    <2> QED
        BY <1>7, <2>1, <2>4, <2>5 DEF InTurn, Registering
<1>11. Token(c)'
    <2>1. Token(c)
        BY SMTT(30) DEF NInv
    <2> QED
        BY <1>2, <1>5, <1>7, <2>1, TokenKept
<1>12. ASSUME NEW d \in Clients, d # c PROVE Token(d)' /\ (handler[d].fd # None => InTurn(d)')
    <2>1. handler[c].fd \notin Fds /\ UNCHANGED <<conn, tasks, batch, written>> /\ thr'[Loop].h \in {c, None}
        BY <1>0, <1>2, <1>3, <1>7
    <2>2. thr[Loop].h \in {c, None} /\ Loop \in Threads /\ batch' \subseteq batch
        BY <1>0, <2>1
    <2>3. \A x \in Clients \ {c} :
            /\ handler'[x] = handler[x] /\ conn'[x] = conn[x] /\ written'[x] = written[x]
            /\ (\E i \in DOMAIN tasks' : tasks'[i] = x) => \E i \in DOMAIN tasks : tasks[i] = x
        BY <1>5, <2>1
    <2>4. SameOthers(c)
        BY <2>3 DEF SameOthers
    <2>5. SameMasks(c)
        BY <1>4 DEF SameMasks
    <2>6. Alone(Loop)
        BY <1>6
    <2> QED
        BY <1>12, <2>1, <2>2, <2>4, <2>5, <2>6, OthersKept
<1>13. FdOK'
    <2>1. \A d \in Clients : handler'[d].fd # None => k'.owner[handler'[d].fd] = d
        BY <1>0, <1>2, <1>4, <1>5, Fields, SMTT(30) DEF NInv, FdOK
    <2>2. \A g \in Fds : k'.owner[g] # None => handler'[k'.owner[g]].fd = g
        BY <1>0, <1>3, <1>4, <1>5 DEF NInv, FdOK
    <2>3. \A d \in Clients : handler'[d].registered =>
            handler'[d].fd # None /\ fdToHandler'[handler'[d].fd] = d
        BY <1>2, <1>3, <1>5, SMTT(30) DEF NInv, FdOK
    <2>4. \A u \in Threads : thr'[u].pc \in {"idle", "next", "accept"} => thr'[u].h = None
        BY <1>6 DEF NInv, FdOK, Moves
    <2>5. \A d \in Clients : handler'[d].fd = None => handler'[d].type = "kRead"
        BY <1>0, <1>5 DEF NInv, FdOK
    <2> QED
        BY <2>1, <2>2, <2>3, <2>4, <2>5 DEF FdOK
<1>14. Calm'
    BY <1>2, <1>4, <1>5, SMTT(30) DEF NInv, Calm
<1> QED
    BY <1>2, <1>5, <1>10, <1>11, <1>12, <1>13, <1>14 DEF NInv
----------------------------------------------------------------------------
(* RegisterEventHandler, by the loop and by the workers.                   *)

\* A thread and its handler, in a step that begins at pc.
InTurnOf(t, h, pc) ==
    /\ thr[t].h = h /\ thr[t].pc = pc /\ t \in Threads
    /\ handler[h].fd \in Fds /\ handler[h].fd # None /\ k.owner[handler[h].fd] = h
    /\ handler[h] \in HandlerT
    /\ Token(h) /\ InTurn(h) /\ handler[h].type # "kError" /\ k.mask[handler[h].fd] # "hup"
    /\ StateOK /\ Loop \in Threads /\ written \in [Clients -> Nat]
    /\ t = Loop => LoopAt(h) = pc
    /\ t \in Workers /\ pc \in {"lock", "drain", "setwrite"} =>
            Busy(h) /\ LoopAt(h) \in {"away", "run"} /\ ~Pending(h) /\ Mask(h) = "in"
    /\ t \in Workers /\ pc \in {"mask", "ctl"} => Registering(h)
    /\ t = Loop <=> t \notin Workers

\* What NInv gives for the handler a thread of either kind works on.
LEMMA Turn ==
    ASSUME IInv, LInv, NInv, NEW t \in Threads, NEW pc, At(t, pc), pc \notin {"idle", "next", "accept"}
    PROVE  \E h \in Clients : InTurnOf(t, h, pc)
<1>1. /\ StateOK /\ Loop \in Threads /\ Opened(thr[t].h) /\ thr[t].pc = pc
      /\ t = Loop <=> t \notin Workers
    BY Ground DEF At, ControlOK, Threads
<1>2. PICK h \in Clients : thr[t].h = h
    BY <1>1, SMTT(30) DEF Opened
<1>3. /\ handler[h].fd \in Fds /\ handler[h].fd # None /\ k.owner[handler[h].fd] = h
      /\ Token(h) /\ InTurn(h) /\ handler[h].type # "kError" /\ k.mask[handler[h].fd] # "hup"
    BY <1>1, <1>2, ReactorAssumption DEF Opened, NInv, FdOK, Calm
<1>4. t = Loop => LoopAt(h) = pc
    BY <1>1, <1>2, SMTT(30) DEF LoopAt
<1>5. t \in Workers /\ pc \in {"lock", "drain", "setwrite"} =>
            Busy(h) /\ LoopAt(h) \in {"away", "run"} /\ ~Pending(h) /\ Mask(h) = "in"
    BY <1>1, <1>2, <1>3 DEF Busy, InTurn
<1>6. t \in Workers /\ pc \in {"mask", "ctl"} => Registering(h)
    BY <1>1, <1>2 DEF Registering
<1> QED
    BY <1>1, <1>2, <1>3, <1>4, <1>5, <1>6, Fields, ZenonT(40) DEF NInv, InTurnOf

\* The mask follows from the type: "in" for the loop, "out" for a callback.
LEMMA RegisterMaskTurns ==
    ASSUME IInv, LInv, NInv, NEW t \in Threads, RegisterMask(t) PROVE NInv'
<1>0. At(t, "mask")
    BY DEF RegisterMask
<1>h. PICK h \in Clients : InTurnOf(t, h, "mask")
    BY <1>0, Turn
<1>1. /\ thr[t].h = h /\ handler[h].fd \in Fds /\ handler[h].fd # None /\ thr[t].pc = "mask"
      /\ Token(h) /\ InTurn(h) /\ handler[h].type # "kError" /\ k.mask[handler[h].fd] # "hup"
      /\ StateOK /\ Loop \in Threads /\ written \in [Clients -> Nat]
    BY <1>h, Zenon DEF InTurnOf
<1>2. PICK m \in {"in", "out", "hup"} :
        /\ thr' = [thr EXCEPT ![t].pc = "ctl", ![t].mask = m]
        /\ handler[h].type = "kRead" => m = "in"
        /\ handler[h].type = "kWrite" => m = "out"
        /\ UNCHANGED <<conn, k, handler, fdToHandler, tasks, batch, written>>
    BY <1>1, ZenonT(40) DEF RegisterMask
<1>3. Moves(t, "ctl", h) /\ Alone(t) /\ thr'[t].mask = m
    <2>1. "ctl" \in PCs /\ m \in Masks
        BY DEF PCs, Masks
    <2>2. Moves(t, "ctl", h)
        BY <1>1, <1>2, <2>1, MaskMoves, ZenonT(40)
    <2>3. Alone(t) /\ thr'[t].mask = m
        BY <1>1, <1>2 DEF Alone, StateOK, ThreadT
    <2> QED
        BY <2>2, <2>3
<1>4. /\ thr'[t].pc = "ctl" /\ thr'[t].h = h
      /\ \A u \in Threads : u # t => thr'[u] = thr[u]
    BY <1>3 DEF Moves, Alone
<1>5. /\ t = Loop => LoopAt(h) = "mask" /\ LoopAt(h)' = "ctl"
      /\ t # Loop => LoopAt(h)' = LoopAt(h) /\ thr'[Loop] = thr[Loop]
    BY <1>1, <1>4 DEF LoopAt
<1>6. Token(h)'
    BY <1>1, <1>2, <1>5, TokenKept
<1>7. /\ Mask(h)' = Mask(h) /\ (Pending(h)' <=> Pending(h))
      /\ Busy(h)' => Busy(h)
    <2>1. Mask(h)' = Mask(h) /\ (Pending(h)' <=> Pending(h))
        BY <1>2 DEF Mask, Pending
    <2>2. Busy(h)' => Busy(h)
        BY <1>2, <1>4, <1>5, Ground, Zenon DEF Busy
    <2> QED
        BY <2>1, <2>2
<1>8. Registering(h)' => Registering(h)
    BY <1>1, <1>4, Ground DEF Registering
<1>9. InTurn(h)'
    <2>1. UNCHANGED <<conn[h], handler[h]>>
        BY <1>2
    <2>2. CASE t = Loop
        <3>1. handler[h].type = "kRead" /\ m = "in" /\ \A w \in Workers : thr'[w] = thr[w]
            BY <1>1, <1>2, <1>4, <1>5, <2>2, Ground, Zenon DEF InTurn
        <3> QED
            BY <1>1, <1>3, <1>5, <1>7, <1>8, <2>1, <2>2, <3>1, ZenonT(40) DEF InTurn
    <2>3. CASE t # Loop
        <3>1. t \in Workers /\ handler[h].type = "kWrite" /\ m = "out"
            BY <1>1, <1>2, <2>3 DEF InTurn, Threads
        <3>2. ASSUME NEW w \in Workers, thr'[w].h = h, thr'[w].pc \in {"mask", "ctl"}
              PROVE  handler'[h].type = "kWrite" /\ (thr'[w].pc = "ctl" => thr'[w].mask = "out")
            BY <1>1, <1>3, <1>4, <2>1, <3>1, <3>2, Ground, ZenonT(40) DEF InTurn
        <3> QED
            BY <1>1, <1>5, <1>7, <1>8, <2>1, <2>3, <3>2, ZenonT(40) DEF InTurn
    <2> QED
        BY <2>2, <2>3
<1>10. SameFds
    BY <1>2 DEF SameFds
<1> QED
    BY <1>1, <1>2, <1>3, <1>6, <1>9, <1>10, StepTurns

\* epoll_ctl changes one mask.
LEMMA CtlMask ==
    ASSUME StateOK, NEW f \in Fds, NEW m \in Masks, k' = Ctl(f, m)
    PROVE  k'.owner = k.owner /\ k'.mask[f] = m /\ \A g \in Fds : g # f => k'.mask[g] = k.mask[g]
BY DEF StateOK, KernelT, Ctl

\* The loop's epoll_ctl comes when no task is under way, a callback's when no
\* other task is and the loop is elsewhere.
LEMMA RegisterCtlTurns ==
    ASSUME IInv, LInv, NInv, NEW t \in Threads, RegisterCtl(t) PROVE NInv'
<1>0. At(t, "ctl")
    BY Zenon DEF RegisterCtl
<1>h. PICK h \in Clients : InTurnOf(t, h, "ctl")
    BY <1>0, Turn
<1>1. /\ thr[t].h = h /\ handler[h].fd \in Fds /\ handler[h].fd # None /\ thr[t].pc = "ctl"
      /\ Token(h) /\ InTurn(h) /\ handler[h].type # "kError" /\ k.mask[handler[h].fd] # "hup"
      /\ StateOK /\ Loop \in Threads /\ written \in [Clients -> Nat] /\ thr[t].mask \in Masks
    BY <1>h, Fields, ZenonT(40) DEF InTurnOf
<1>2. CASE Abort("register")
    BY <1>2, SameTurns DEF Abort
<1> SUFFICES ASSUME ~Abort("register") PROVE NInv'
    BY <1>2
<1>3. UNCHANGED <<conn, handler, fdToHandler, tasks, batch, written>>
    BY ZenonT(40) DEF RegisterCtl
<1>4. PICK pc \in {"load", "unlock"} :
        /\ Goto(t, pc)
        /\ pc = "load" => k' = Ctl(handler[h].fd, thr[t].mask)
        /\ pc = "unlock" => k' = k /\ t # Loop
    BY <1>1 DEF RegisterCtl
<1>5. Moves(t, pc, h) /\ Alone(t)
    BY <1>1, <1>4, GotoMoves, ZenonT(40) DEF Goto, Alone, StateOK, PCs
<1>6. /\ thr'[t].pc = pc /\ thr'[t].h = h
      /\ \A u \in Threads : u # t => thr'[u] = thr[u]
    BY <1>5 DEF Moves, Alone
<1>7. /\ t = Loop => LoopAt(h) = "ctl" /\ LoopAt(h)' = pc
      /\ t # Loop => LoopAt(h)' = LoopAt(h) /\ thr'[Loop] = thr[Loop]
    BY <1>1, <1>6, SMTT(30) DEF LoopAt
<1>8. Token(h)'
    BY <1>1, <1>3, <1>7, TokenKept, SMTT(30)
<1>9. Busy(h)' => Busy(h)
    BY <1>3, <1>6, <1>7, Ground, SMTT(30) DEF Busy
<1>10. k'.owner = k.owner /\ \A g \in Fds : g # handler[h].fd => k'.mask[g] = k.mask[g]
    BY <1>1, <1>4, CtlMask, SMTT(30)
<1>11. InTurn(h)' /\ k'.mask[handler[h].fd] # "hup"
    <2>1. CASE t = Loop
        <3>1. pc = "load" /\ ~Busy(h) /\ ~Registering(h) /\ ~Pending(h) /\ thr[t].mask = "in"
            BY <1>1, <1>4, <1>7, <2>1, ZenonT(40) DEF InTurn
        <3>2. Mask(h)' = "in" /\ k'.mask[handler[h].fd] = "in"
            BY <1>1, <1>3, <1>4, <3>1, CtlMask, ZenonT(40) DEF Mask
        <3>3. ~Registering(h)' /\ ~Pending(h)'
            BY <1>3, <1>6, <2>1, <3>1, Ground, ZenonT(40) DEF Registering, Pending
        <3> QED
            BY <1>7, <1>9, <2>1, <3>1, <3>2, <3>3, ZenonT(40) DEF InTurn, Registering
    <2>2. CASE t # Loop /\ pc = "load"
        <3>1. t \in Workers /\ Registering(h) /\ thr[t].mask = "out"
            BY <1>1, <2>2, ZenonT(40) DEF Threads, Registering, InTurn
        <3>2. handler[h].type = "kWrite" /\ ~Busy(h) /\ LoopAt(h) = "away"
            BY <1>1, <3>1, RegisteringOwes, ZenonT(40)
        <3>3. Mask(h)' = "out" /\ k'.mask[handler[h].fd] = "out"
            BY <1>1, <1>3, <1>4, <2>2, <3>1, CtlMask, ZenonT(40) DEF Mask
        <3>4. ~Registering(h)'
            <4>1. ASSUME NEW w \in Workers, thr'[w].h = h, thr'[w].pc \in {"mask", "ctl"} PROVE FALSE
                <5>1. w # t /\ thr[w].h = h /\ thr[w].pc \in {"mask", "ctl"}
                    BY <1>6, <2>2, <4>1, Ground, ZenonT(40)
                <5>2. thr[t].pc = "ctl" /\ thr[t].h = h
                    BY <1>1
                <5>3. thr[t].pc \in Critical /\ thr[w].pc \in Critical
                    BY <5>1, <5>2 DEF Critical
                <5> QED
                    BY <3>1, <4>1, <5>1, <5>2, <5>3, Zenon DEF IInv, MutexHeld
            <4> QED
                BY <4>1 DEF Registering
        <3>5. handler'[h].type = "kWrite" /\ LoopAt(h)' = "away" /\ ~Busy(h)'
            BY <1>3, <1>7, <1>9, <2>2, <3>2
        <3> QED
            BY <3>3, <3>4, <3>5, ZenonT(40) DEF InTurn, Registering
    <2>3. CASE t # Loop /\ pc = "unlock"
        <3>1. Mask(h)' = Mask(h) /\ k' = k
            BY <1>3, <1>4, <2>3, ZenonT(40) DEF Mask
        <3>2. \A w \in Workers : thr'[w].h = h /\ thr'[w].pc \in {"mask", "ctl"} => thr'[w] = thr[w]
            BY <1>6, <2>3, Ground
        <3> QED
            BY <1>1, <1>3, <1>7, <1>9, <2>3, <3>1, <3>2, TurnKept, ZenonT(40)
    <2> QED
        BY <2>1, <2>2, <2>3
<1>12. SameFds
    BY <1>3, SMTT(30) DEF SameFds
<1> QED
    BY <1>1, <1>3, <1>5, <1>8, <1>10, <1>11, <1>12, StepTurns, ZenonT(40)

\* The other steps of a thread with a handler of unchanged type and mask.
LEMMA QuietTurns ==
    ASSUME IInv, LInv, NInv, NEW t \in Threads, NEW h \in Clients, thr[t].h \in {h, None},
           thr[t].pc \notin {"mask", "ctl"}, handler[h].fd # None, k' = k, UNCHANGED <<conn, batch, written>>,
           NEW pc, NEW g \in {h, None}, Moves(t, pc, g), Alone(t),
           pc \notin {"mask", "ctl"}, pc \in {"idle", "next", "accept"} => g = None,
           t = Loop => thr[Loop].h = h /\ (g = None \/ (pc \in {"load", "store", "map"} /\ thr[Loop].pc # "run")),
           UNCHANGED fdToHandler, SameFds, handler'[h].type = handler[h].type,
           \A d \in Clients \ {h} : handler'[d] = handler[d],
           \A d \in Clients : (\E i \in DOMAIN tasks' : tasks'[i] = d) =>
                (d = h /\ Busy(h)) \/ \E i \in DOMAIN tasks : tasks[i] = d,
           thr'[t].pc \in {"lock", "drain", "setwrite"} => Busy(h),
           Token(h)'
    PROVE  NInv'
<1>0. /\ StateOK /\ Loop \in Threads /\ Workers \subseteq Threads /\ None # h
      /\ \A u \in Threads : u # t => thr'[u] = thr[u]
    BY Ground, ReactorAssumption, ZenonT(40) DEF Alone
<1>1. InTurn(h) /\ Mask(h)' = Mask(h) /\ handler'[h].fd = handler[h].fd
    BY ZenonT(40) DEF NInv, Mask, SameFds
<1>2. \/ LoopAt(h)' = LoopAt(h) /\ thr'[Loop] = thr[Loop]
      \/ LoopAt(h) \notin {"mask", "ctl", "away"} /\ LoopAt(h)' = "away"
      \/ /\ LoopAt(h) \notin {"mask", "ctl", "away", "run"}
         /\ LoopAt(h)' \in {"load", "store", "map"}
    BY <1>0, Fields, ZenonT(40) DEF LoopAt, Moves, PCs
<1>3. \A w \in Workers : thr'[w].h = h /\ thr'[w].pc \in {"mask", "ctl"} => thr'[w] = thr[w]
    BY <1>0, Zenon DEF Moves
<1>4. Busy(h)' => Busy(h)
    <2>1. LoopAt(h)' = "run" => LoopAt(h) = "run"
        BY <1>2, ZenonT(40)
    <2>2. ASSUME NEW w \in Workers, thr'[w].h = h, thr'[w].pc \in {"lock", "drain", "setwrite"}
          PROVE  Busy(h)
        BY <1>0, <2>2, ZenonT(40) DEF Busy
    <2> QED
        BY <2>1, <2>2, ZenonT(40) DEF Busy
<1>5. InTurn(h)'
    BY <1>1, <1>2, <1>3, <1>4, TurnKept, ZenonT(40)
<1>6. /\ \A f \in Fds : k'.mask[f] # "hup"
      /\ handler'[h].type # "kError" /\ written' \in [Clients -> Nat]
    BY ZenonT(40) DEF NInv, Calm
<1>7. SameOthers(h)
    BY SMTT(30) DEF SameOthers
<1>8. StepKeeps(h)
    BY <1>6, <1>7 DEF StepKeeps
<1> QED
    BY <1>5, <1>8, KeptTurns

\* ++epoll_event_count_ changes no handler.
LEMMA RegisterCountTurns ==
    ASSUME IInv, LInv, NInv, NEW t \in Threads, RegisterLoad(t) \/ RegisterStore(t) PROVE NInv'
<1>0. PICK from \in {"load", "store"} : At(t, from) /\
        \E pc \in {"store", "map"}, n \in Int :
            /\ thr' = [thr EXCEPT ![t].pc = pc, ![t].tmp = n]
            /\ UNCHANGED <<conn, k, handler, fdToHandler, tasks, batch, written>>
    <2>1. count \in Int
        BY Ground DEF StateOK
    <2> QED
        BY <2>1 DEF RegisterLoad, RegisterStore
<1>1. PICK pc \in {"store", "map"}, n \in Int :
            /\ thr' = [thr EXCEPT ![t].pc = pc, ![t].tmp = n]
            /\ UNCHANGED <<conn, k, handler, fdToHandler, tasks, batch, written>>
    BY <1>0, Zenon
<1>h. PICK h \in Clients : InTurnOf(t, h, from)
    BY <1>0, Turn, SMTT(30)
<1>2. /\ thr[t].h = h /\ thr[t].pc = from /\ handler[h].fd # None /\ Token(h) /\ StateOK
      /\ Loop \in Threads
    BY <1>h DEF InTurnOf
<1>3. Moves(t, pc, h)
    BY <1>1, <1>2, TmpMoves, Zenon DEF PCs
<1>4. Alone(t)
    BY <1>1, <1>2, SMTT(30) DEF Alone, StateOK
<1>5. thr'[t].pc = pc /\ thr'[t].h = h
    BY <1>3, SMTT(30) DEF Moves
<1>6. (LoopAt(h)' # "push" /\ LoopAt(h) # "push") \/ LoopAt(h)' = LoopAt(h)
    BY <1>2, <1>4, <1>5 DEF LoopAt, Alone
<1>7. Token(h)'
    BY <1>1, <1>2, <1>6, TokenKept
<1>8. SameFds
    BY <1>1 DEF SameFds
<1> QED
    BY <1>1, <1>2, <1>3, <1>4, <1>5, <1>7, <1>8, QuietTurns, Zenon

\* A callback enters its handler in the map where it is already.
LEMMA WorkerMapTurns ==
    ASSUME IInv, LInv, NInv, NEW w \in Workers, RegisterMap(w) PROVE NInv'
<1>0. At(w, "map") /\ w \in Threads /\ w # Loop
    BY Ground DEF RegisterMap
<1>h. PICK h \in Clients : InTurnOf(w, h, "map")
    BY <1>0, Turn
<1>1. /\ thr[w].h = h /\ thr[w].pc = "map" /\ handler[h].fd # None /\ handler[h].fd \in Fds
      /\ Token(h) /\ StateOK /\ Loop \in Threads /\ handler[h] \in HandlerT
    BY <1>h, ZenonT(40) DEF InTurnOf
<1>2. handler[h].registered = TRUE /\ fdToHandler[handler[h].fd] = h
    BY <1>0, <1>1, ZenonT(40) DEF LInv, TaskOK, NInv, FdOK, HandlerT
<1>3. /\ handler' = [handler EXCEPT ![h].registered = TRUE]
      /\ fdToHandler' = [fdToHandler EXCEPT ![handler[h].fd] = h]
      /\ Goto(w, "unlock") /\ UNCHANGED <<conn, tasks, batch, written>> /\ DtorsRun(k)
    BY <1>0, <1>1 DEF RegisterMap
<1>4. fdToHandler' = fdToHandler
    BY <1>1, <1>2, <1>3 DEF StateOK
<1>5. handler' = handler
    BY <1>1, <1>2, <1>3 DEF StateOK, HandlerT
<1>6. Moves(w, "unlock", h) /\ Alone(w)
    BY <1>0, <1>1, <1>3, GotoMoves, ZenonT(40) DEF Goto, Alone, StateOK, PCs
<1>7. thr'[w].pc = "unlock" /\ thr'[w].h = h /\ thr'[Loop] = thr[Loop]
    BY <1>0, <1>1, <1>6 DEF Moves, Alone
<1>8. k' = k
    <2>1. \A c \in Clients : handler[c].registered => \E f \in Fds : fdToHandler'[f] = c
        BY <1>1, <1>4, Fields, ZenonT(40) DEF NInv, FdOK
    <2> QED
        BY <1>3, <1>7, <2>1, NoDtors
<1>9. Token(h)' /\ SameFds
    <2>1. LoopAt(h)' = LoopAt(h)
        BY <1>7 DEF LoopAt
    <2> QED
        BY <1>1, <1>3, <1>5, <2>1, TokenKept, ZenonT(40) DEF SameFds
<1> QED
    BY <1>0, <1>1, <1>3, <1>4, <1>5, <1>6, <1>7, <1>8, <1>9, QuietTurns

\* The loop enters a handler in the map.
LEMMA LoopMapTurns == ASSUME IInv, LInv, NInv, RegisterMap(Loop) PROVE NInv'
<1>0. At(Loop, "map") /\ Loop \in Threads /\ None \notin Clients
    BY Ground, ReactorAssumption DEF RegisterMap
<1>h. PICK h \in Clients : InTurnOf(Loop, h, "map")
    BY <1>0, Turn
<1>1. /\ thr[Loop].h = h /\ LoopAt(h) = "map" /\ handler[h].fd # None /\ handler[h].fd \in Fds
      /\ Token(h) /\ InTurn(h) /\ StateOK /\ handler[h] \in HandlerT
    BY <1>h DEF InTurnOf
<1>2. /\ handler' = [handler EXCEPT ![h].registered = TRUE]
      /\ fdToHandler' = [fdToHandler EXCEPT ![handler[h].fd] = h]
      /\ Return(Loop, "next") /\ UNCHANGED <<conn, tasks, batch, written>> /\ DtorsRun(k)
    BY <1>0, <1>1 DEF RegisterMap
<1>3. Moves(Loop, "next", None) /\ Alone(Loop)
    BY <1>0, <1>1, <1>2, ReturnMoves, ZenonT(40) DEF Return, Alone, StateOK, PCs
<1>4. /\ thr'[Loop].h = None /\ LoopAt(h)' = "away"
      /\ \A w \in Workers : thr'[w] = thr[w]
    BY <1>0, <1>3, Ground DEF LoopAt, Moves, Alone
<1>5. /\ handler'[h].type = handler[h].type /\ handler'[h].fd = handler[h].fd
      /\ handler'[h].reqs = handler[h].reqs /\ handler'[h].resps = handler[h].resps
      /\ \A d \in Clients \ {h} : handler'[d] = handler[d]
    BY <1>1, <1>2, RegisteredSets DEF Sets
<1>6. /\ fdToHandler'[handler[h].fd] = h
      /\ \A c \in Clients : handler[c].registered =>
            handler[c].fd # None /\ handler[c].fd \in Fds /\ fdToHandler'[handler[c].fd] = c
    <2>1. \A c \in Clients \ {h} : handler[c].registered =>
            /\ handler[c].fd # None /\ handler[c].fd \in Fds /\ fdToHandler[handler[c].fd] = c
            /\ handler[c].fd # handler[h].fd
        <3>1. \A c \in Clients : handler[c].registered =>
                handler[c].fd # None /\ fdToHandler[handler[c].fd] = c
            BY DEF NInv, FdOK
        <3>2. \A c \in Clients : handler[c].fd # None =>
                handler[c].fd \in Fds /\ k.owner[handler[c].fd] = c
            BY <1>1, Fields, ZenonT(40) DEF NInv, FdOK
        <3> QED
            BY <1>1, <3>1, <3>2
    <2>2. fdToHandler \in [Fds -> Clients \cup {None}]
        BY <1>1, Zenon DEF StateOK
    <2> QED
        BY <1>1, <1>2, <2>1, <2>2
<1>7. k' = k
    BY <1>1, <1>2, <1>6, NoDtors
<1>8. Token(h)'
    BY <1>1, <1>2, <1>4, <1>5, TokenKept
<1>9. InTurn(h)'
    <2>1. Mask(h)' = Mask(h) /\ (Busy(h)' => Busy(h))
        BY <1>2, <1>4, <1>5, <1>7 DEF Mask, Busy
    <2> QED
        BY <1>1, <1>2, <1>4, <1>5, <2>1, TurnKept
<1>10. ASSUME NEW c \in Clients, c # h PROVE Token(c)' /\ (handler[c].fd # None => InTurn(c)')
    BY <1>0, <1>1, <1>2, <1>3, <1>4, <1>5, <1>7, <1>10, Bystanders
<1>11. FdOK'
    <2>1. \A c \in Clients : handler'[c].fd = handler[c].fd /\ handler'[c].type = handler[c].type
        BY <1>5
    <2>2. \A c \in Clients : handler'[c].registered =>
            handler'[c].fd # None /\ fdToHandler'[handler'[c].fd] = c
        BY <1>1, <1>5, <1>6
    <2>3. \A u \in Threads : thr'[u].pc \in {"idle", "next", "accept"} => thr'[u].h = None
        BY <1>3, ZenonT(40) DEF NInv, FdOK, Moves
    <2>4. \A f \in Fds : k.owner[f] # None => k.owner[f] \in Clients
        BY <1>1, Fields, ZenonT(40)
    <2> QED
        BY <1>7, <2>1, <2>2, <2>3, <2>4, ZenonT(40) DEF NInv, FdOK
<1>12. Calm'
    BY <1>2, <1>5, <1>7 DEF NInv, Calm
<1> QED
    BY <1>2, <1>5, <1>8, <1>9, <1>10, <1>11, <1>12 DEF NInv
----------------------------------------------------------------------------
(* The workers.                                                            *)

LEMMA TakeTaskTurns == ASSUME IInv, LInv, NInv, NEW w \in Workers, TakeTask(w) PROVE NInv'
<1>0. /\ StateOK /\ ControlOK /\ w \in Threads /\ Loop \in Threads /\ w # Loop /\ thr[w].pc = "idle"
      /\ tasks # <<>> /\ tasks \in Seq(Clients)
    BY Ground DEF TakeTask, At, StateOK
<1>1. PICK h \in Clients : Head(tasks) = h /\ 1 \in DOMAIN tasks /\ tasks[1] = h
    BY <1>0
<1>2. /\ thr' = [thr EXCEPT ![w].pc = "lock", ![w].h = h] /\ tasks' = Tail(tasks)
      /\ UNCHANGED <<conn, k, handler, fdToHandler, batch, written>>
    BY <1>1, ZenonT(40) DEF TakeTask
<1>3. Busy(h) /\ handler[h].fd # None /\ thr[w].h = None /\ Token(h)
    <2>1. Busy(h) /\ thr[w].h = None /\ Token(h)
        BY <1>0, <1>1 DEF Busy, NInv, FdOK
    <2>2. handler[h].fd \in Fds
        BY <1>0, <1>1 DEF ControlOK, Opened
    <2> QED
        BY <2>1, <2>2, ReactorAssumption
<1>4. Moves(w, "lock", h)
    BY <1>0, <1>2, TakeMoves, ZenonT(40) DEF PCs
<1>5. Alone(w)
    BY <1>0, <1>2 DEF Alone, StateOK
<1>6. Token(h)' /\ SameFds
    <2>1. LoopAt(h)' = LoopAt(h)
        BY <1>0, <1>5 DEF LoopAt, Alone
    <2> QED
        BY <1>2, <1>3, <2>1, TokenKept DEF SameFds
<1>7. \A d \in Clients : (\E i \in DOMAIN tasks' : tasks'[i] = d) => \E i \in DOMAIN tasks : tasks[i] = d
    <2> SUFFICES ASSUME NEW i \in DOMAIN tasks' PROVE i + 1 \in DOMAIN tasks /\ tasks'[i] = tasks[i + 1]
        OBVIOUS
    <2> QED
        BY <1>0, <1>2
<1> QED
    BY <1>0, <1>2, <1>3, <1>4, <1>5, <1>6, <1>7, QuietTurns, Zenon

\* mutex_ is not part of a turn.
LEMMA LockTurns == ASSUME IInv, LInv, NInv, NEW w \in Workers, LockHandler(w) PROVE NInv'
<1>0. At(w, "lock") /\ w \in Threads /\ w # Loop
    BY Ground DEF LockHandler
<1>h. PICK h \in Clients : InTurnOf(w, h, "lock")
    BY <1>0, Turn
<1>1. /\ thr[w].h = h /\ thr[w].pc = "lock" /\ handler[h].fd # None /\ Token(h) /\ StateOK
      /\ Loop \in Threads /\ Busy(h)
    BY <1>h DEF InTurnOf
<1>2. /\ handler' = [handler EXCEPT ![h].mutex = w] /\ Goto(w, "drain")
      /\ UNCHANGED <<conn, k, fdToHandler, tasks, batch, written>>
    BY <1>1 DEF LockHandler
<1>3. Moves(w, "drain", h) /\ Alone(w)
    BY <1>0, <1>1, <1>2, GotoMoves, ZenonT(40) DEF Goto, Alone, StateOK, PCs
<1>4. /\ handler'[h].type = handler[h].type /\ handler'[h].fd = handler[h].fd
      /\ handler'[h].reqs = handler[h].reqs /\ handler'[h].resps = handler[h].resps
      /\ \A d \in Clients \ {h} : handler'[d] = handler[d]
    BY <1>1, <1>2, MutexSets DEF Sets
<1>5. LoopAt(h)' = LoopAt(h)
    BY <1>0, <1>1, <1>3 DEF LoopAt, Alone
<1>6. Token(h)'
    BY <1>1, <1>2, <1>4, <1>5, TokenKept
<1>7. SameFds
    BY <1>1, <1>2, SameFdsHandler, Zenon
<1> QED
    BY <1>0, <1>1, <1>2, <1>3, <1>4, <1>6, <1>7, QuietTurns

\* The task takes the one request of its handler and owes the one response.
LEMMA DrainTurns == ASSUME IInv, LInv, NInv, NEW w \in Workers, DrainRequest(w) PROVE NInv'
<1>0. At(w, "drain") /\ w \in Threads /\ w # Loop
    BY Ground DEF DrainRequest
<1>h. PICK h \in Clients : InTurnOf(w, h, "drain")
    BY <1>0, Turn
<1>1. /\ thr[w].h = h /\ thr[w].pc = "drain" /\ handler[h].fd # None /\ Token(h) /\ StateOK
      /\ Loop \in Threads /\ Busy(h)
    BY <1>h DEF InTurnOf
<1>2. UNCHANGED <<conn, k, fdToHandler, tasks, batch, written>>
    BY DEF DrainRequest
<1>3. CASE /\ handler[h].reqs > 0 /\ UNCHANGED thr
           /\ handler' = [handler EXCEPT ![h].reqs = @ - 1, ![h].resps = @ + 1]
    <2>1. Moves(w, "drain", h) /\ Alone(w)
        BY <1>1, <1>3 DEF Moves, Alone, StateOK
    <2>2. /\ handler'[h].type = handler[h].type /\ handler'[h].fd = handler[h].fd
          /\ handler'[h].reqs = handler[h].reqs - 1 /\ handler'[h].resps = handler[h].resps + 1
          /\ \A d \in Clients \ {h} : handler'[d] = handler[d]
        BY <1>1, <1>3, ProcessSets, ZenonT(40) DEF Sets
    <2>3. Token(h)'
        <3>1. Flag(LoopAt(h) = "push")' = Flag(LoopAt(h) = "push") /\ Flag(LoopAt(h) = "push") \in Nat
            BY <1>3 DEF LoopAt, Flag
        <3> DEFINE push == Flag(LoopAt(h) = "push")
        <3>2. /\ conn[h].sent = conn[h].unread + handler[h].reqs + handler[h].resps + written[h] + push
              /\ conn[h].sent <= written[h] + 1
            BY <1>1 DEF Token
        <3>3. push \in Nat
            BY <3>1
        <3>4. Token(h)' <=>
                /\ conn[h].sent = conn[h].unread + handler'[h].reqs + handler'[h].resps + written[h] + push
                /\ conn[h].sent <= written[h] + 1
            BY <1>2, <3>1 DEF Token
        <3> HIDE DEF push
        <3> QED
            <4>1. /\ conn[h].unread \in Nat /\ handler[h].reqs \in Nat /\ handler[h].resps \in Nat
                  /\ written[h] \in Nat
                BY OneToken, Zenon
            <4> QED
                BY <2>2, <3>2, <3>3, <3>4, <4>1
    <2>4. SameFds
        BY <1>1, <1>3, SameFdsHandler, ZenonT(40)
    <2> QED
        BY <1>0, <1>1, <1>2, <2>1, <2>2, <2>3, <2>4, QuietTurns, ZenonT(40)
<1>4. CASE Goto(w, "setwrite") /\ UNCHANGED handler
    <2>1. Moves(w, "setwrite", h) /\ Alone(w)
        BY <1>0, <1>1, <1>4, GotoMoves, ZenonT(40) DEF Goto, Alone, StateOK, PCs
    <2>2. LoopAt(h)' = LoopAt(h)
        BY <1>0, <1>1, <2>1, ZenonT(40) DEF LoopAt, Alone
    <2>3. Token(h)' /\ SameFds
        BY <1>1, <1>2, <1>4, <2>2, TokenKept DEF SameFds
    <2> QED
        BY <1>0, <1>1, <1>2, <1>4, <2>1, <2>3, QuietTurns, Zenon
<1> QED
    BY <1>1, <1>3, <1>4 DEF DrainRequest

\* The callback sets kWrite while no event is pending and the loop is elsewhere.
LEMMA SetTypeWriteTurns == ASSUME IInv, LInv, NInv, NEW w \in Workers, SetTypeWrite(w) PROVE NInv'
<1>0. At(w, "setwrite") /\ w \in Threads /\ w # Loop
    BY Ground DEF SetTypeWrite, SetType
<1>h. PICK h \in Clients : InTurnOf(w, h, "setwrite")
    BY <1>0, Turn
<1>1. /\ thr[w].h = h /\ handler[h].fd # None /\ handler[h].fd \in Fds /\ Token(h) /\ StateOK
      /\ InTurn(h) /\ k.mask[handler[h].fd] # "hup" /\ written \in [Clients -> Nat]
      /\ Loop \in Threads /\ w \in Workers
      /\ Mask(h) = "in" /\ ~Pending(h) /\ LoopAt(h) \in {"away", "run"}
    BY <1>h DEF InTurnOf
<1>2. /\ handler' = [handler EXCEPT ![h].type = "kWrite"] /\ Goto(w, "mask")
      /\ UNCHANGED <<conn, k, fdToHandler, tasks, batch, written>>
    BY <1>1 DEF SetTypeWrite, SetType
<1>3. Moves(w, "mask", h) /\ Alone(w)
    BY <1>0, <1>1, <1>2, GotoMoves, ZenonT(40) DEF Goto, Alone, StateOK, PCs
<1>4. /\ handler'[h].type = "kWrite" /\ handler'[h].fd = handler[h].fd
      /\ handler'[h].reqs = handler[h].reqs /\ handler'[h].resps = handler[h].resps
      /\ \A d \in Clients \ {h} : handler'[d] = handler[d]
    BY <1>1, <1>2, TypeSets, Zenon DEF Sets
<1>5. LoopAt(h)' = LoopAt(h) /\ Mask(h)' = "in" /\ ~Pending(h)'
    BY <1>0, <1>1, <1>2, <1>3, <1>4 DEF LoopAt, Alone, Mask, Pending
<1>6. Token(h)'
    BY <1>1, <1>2, <1>4, <1>5, TokenKept
<1>7. ASSUME NEW v \in Workers, thr'[v].h = h, thr'[v].pc \in {"mask", "ctl"}
      PROVE  thr'[v].pc = "ctl" => thr'[v].mask = "out"
    BY <1>1, <1>3, <1>7, Ground, ZenonT(40) DEF Moves, Alone, InTurn
<1>8. InTurn(h)'
    BY <1>1, <1>4, <1>5, <1>7, ZenonT(40) DEF InTurn
<1>9. SameFds
    BY <1>1, <1>2, SameFdsHandler, ZenonT(40)
<1> QED
    BY <1>0, <1>1, <1>2, <1>3, <1>4, <1>6, <1>8, <1>9, StepTurns

\* The task's end unlocks the handler, which stays registered: nothing is destroyed.
LEMMA FinishTurns == ASSUME IInv, LInv, NInv, NEW w \in Workers, FinishTask(w) PROVE NInv'
<1>0. At(w, "unlock") /\ w \in Threads /\ w # Loop
    BY Ground DEF FinishTask
<1>h. PICK h \in Clients : InTurnOf(w, h, "unlock")
    BY <1>0, Turn
<1>1. /\ thr[w].h = h /\ thr[w].pc = "unlock" /\ handler[h].fd # None /\ Token(h) /\ StateOK
      /\ Loop \in Threads
    BY <1>h DEF InTurnOf
<1>2. /\ handler' = [handler EXCEPT ![h].mutex = None] /\ Return(w, "idle")
      /\ UNCHANGED <<conn, fdToHandler, tasks, batch, written>> /\ DtorsRun(k)
    BY <1>1 DEF FinishTask
<1>3. Moves(w, "idle", None) /\ Alone(w)
    BY <1>0, <1>1, <1>2, ReturnMoves, ZenonT(40) DEF Return, Alone, StateOK, PCs
<1>4. /\ handler'[h].type = handler[h].type /\ handler'[h].fd = handler[h].fd
      /\ handler'[h].reqs = handler[h].reqs /\ handler'[h].resps = handler[h].resps
      /\ \A d \in Clients \ {h} : handler'[d] = handler[d]
    BY <1>1, <1>2, MutexSets DEF Sets
<1>5. LoopAt(h)' = LoopAt(h) /\ thr'[Loop] = thr[Loop] /\ thr'[w].pc = "idle"
    BY <1>0, <1>1, <1>3 DEF LoopAt, Alone, Moves
<1>6. Token(h)'
    BY <1>1, <1>2, <1>4, <1>5, TokenKept
<1>7. SameFds
    BY <1>1, <1>2, SameFdsHandler, Zenon
<1>8. k' = k
    <2>1. \A c \in Clients : handler[c].registered => \E f \in Fds : fdToHandler'[f] = c
        BY <1>1, <1>2, Fields DEF NInv, FdOK
    <2> QED
        BY <1>2, <1>5, <2>1, NoDtors
<1> QED
    BY <1>0, <1>1, <1>2, <1>3, <1>4, <1>5, <1>6, <1>7, <1>8, QuietTurns
----------------------------------------------------------------------------
\* Before the first connection every turn is free.
LEMMA InitTurns == Init => NInv
<1> SUFFICES ASSUME Init PROVE NInv
    OBVIOUS
<1>0. /\ Loop \in Threads /\ None \notin Clients
      /\ thr[Loop].h = None /\ \A c \in Clients : handler[c].fd = None /\ LoopAt(c) = "away"
    BY ReactorAssumption DEF Init, Threads, LoopAt
<1>1. FdOK /\ Calm
    BY DEF Init, FdOK, Calm
<1>2. ASSUME NEW c \in Clients PROVE Token(c)
    <2>1. Flag(LoopAt(c) = "push") = 0
        BY <1>0 DEF Flag
    <2>2. /\ conn[c].sent = 0 /\ conn[c].unread = 0 /\ written[c] = 0
          /\ handler[c].reqs = 0 /\ handler[c].resps = 0
        BY DEF Init
    <2> QED
        BY <2>1, <2>2 DEF Token
<1>3. written \in [Clients -> Nat]
    BY DEF Init
<1> QED
    BY <1>0, <1>1, <1>2, <1>3 DEF NInv

\* Every step keeps the turns, when clients neither pipeline nor leave.
LEMMA StepTurn == Orderly /\ IInv /\ LInv /\ NInv /\ NotClearing /\ [Next]_vars => NInv'
<1> SUFFICES ASSUME Orderly, IInv, LInv, NInv, NotClearing, [Next]_vars PROVE NInv'
    OBVIOUS
<1>0. Loop \in Threads /\ Workers \subseteq Threads
    BY DEF Threads
<1>1. CASE UNCHANGED vars
    BY <1>1, SameTurns DEF vars
<1>2. CASE ClientStep
    BY <1>2, ConnectTurns, SendTurns DEF ClientStep, Disconnect, Orderly
<1>3. ASSUME NEW t \in Threads, RegisterEventHandler(t) PROVE NInv'
    BY <1>3, RegisterMaskTurns, RegisterCtlTurns, RegisterCountTurns, WorkerMapTurns, LoopMapTurns
       DEF RegisterEventHandler, Threads
<1>4. CASE LoopStep
    BY <1>0, <1>3, <1>4, EpollWaitTurns, NextEventTurns, DispatchTurns, AcceptTurns, ReadTurns,
       PushTurns, RunTaskTurns, WriteTurns, SetTypeReadTurns DEF LoopStep, ClearStore, At,
       NotClearing
<1>5. ASSUME NEW w \in Workers, WorkerStep(w) PROVE NInv'
    BY <1>0, <1>3, <1>5, TakeTaskTurns, LockTurns, DrainTurns, SetTypeWriteTurns, FinishTurns
       DEF WorkerStep
<1> QED
    BY <1>1, <1>2, <1>4, <1>5 DEF Next

\* What aborts the process is one of the CHECKs.
FailedOK == failed \in {None} \cup Checks

\* Abort is called only with the name of a CHECK.
LEMMA StepFailed == FailedOK /\ [Next]_vars => FailedOK'
<1> SUFFICES ASSUME FailedOK, [Next]_vars PROVE failed' = failed \/ failed' \in Checks
    BY DEF FailedOK
<1>0. \A c \in Checks : Abort(c) => failed' \in Checks
    BY DEF Abort
<1>1. CASE UNCHANGED vars
    BY <1>1 DEF vars
<1>2. CASE ClientStep
    BY <1>2, ZenonT(40) DEF ClientStep, Connect, Send, Disconnect, ClientUnchanged
<1>3. ASSUME NEW t \in Threads, RegisterEventHandler(t) PROVE failed' = failed \/ failed' \in Checks
    BY <1>0, <1>3 DEF RegisterEventHandler, RegisterMask, RegisterCtl, RegisterLoad, RegisterStore,
       RegisterMap, Checks
<1>4. CASE EpollWait \/ Accept
    BY <1>0, <1>4, Zenon DEF EpollWait, Accept, Checks
<1>5. CASE NextEvent \/ Dispatch
    BY <1>0, <1>5, ZenonT(40) DEF NextEvent, Dispatch, TakeEvent, ClearEventHandler, Checks
<1>6. CASE Read \/ PushRequest \/ RunTask \/ Write \/ SetTypeRead \/ ClearStore
    BY <1>6, ZenonT(40) DEF Read, PushRequest, RunTask, Write, SetTypeRead, SetType, ClearStore
<1>7. ASSUME NEW w \in Workers, TakeTask(w) \/ LockHandler(w) \/ DrainRequest(w) \/ SetTypeWrite(w) \/ FinishTask(w)
      PROVE  failed' = failed
    BY <1>7 DEF TakeTask, LockHandler, DrainRequest, SetTypeWrite, SetType, FinishTask
<1> QED
    BY <1>1, <1>2, <1>3, <1>4, <1>5, <1>6, <1>7 DEF Next, LoopStep, WorkerStep, Threads

\* What the turns mean for request_q_ and for the requests.
LEMMA TurnsKeepRequests == IInv /\ LInv /\ NInv /\ FailedOK => RequestsKept
<1> SUFFICES ASSUME IInv, LInv, NInv, FailedOK PROVE RequestsKept
    OBVIOUS
<1>0. StateOK /\ ControlOK /\ Workers \subseteq Threads
    BY Ground
<1>1. TypeOK
    <2>1. conn \in [Clients -> ConnT] /\ fdToHandler \in [Fds -> Clients \cup {None}]
        BY <1>0 DEF LInv, ConnOK, StateOK
    <2>2. /\ k.owner \in [Fds -> Clients \cup {None}] /\ k.mask \in [Fds -> Masks] /\ k.rdy \subseteq Fd
          /\ \A t \in Threads : thr[t].h \in Clients \cup {None}
        BY <1>0, Fields
    <2> QED
        BY <2>1, <2>2 DEF TypeOK, ConnT, FailedOK, Masks, Fd
<1>2. NoRequestQueueRace
    <2> SUFFICES ASSUME NEW w \in Workers, thr[Loop].pc = "push", thr[w].pc \in {"drain", "setwrite"},
                        thr[w].h = thr[Loop].h
                 PROVE  FALSE
        BY DEF NoRequestQueueRace
    <2>1. PICK c \in Clients : thr[w].h = c /\ handler[c].fd # None
        BY <1>0, ReactorAssumption DEF ControlOK, Opened
    <2>2. Busy(c) /\ LoopAt(c) = "push"
        BY <2>1 DEF Busy, LoopAt
    <2> QED
        BY <2>1, <2>2 DEF NInv, InTurn
<1>3. NothingLost
    BY DEF NInv, Token, Flag, LoopAt, NothingLost
<1> QED
    BY <1>1, <1>2, <1>3 DEF RequestsKept

\* With clients that wait for each answer and stay connected, request_q_ is never used
\* by the loop and a worker at once although Handler::Read pushes without mutex_, and
\* every request read is queued, being answered or answered, exactly once.
THEOREM RequestsNeverLost == ASSUME Orderly PROVE Spec => []RequestsKept
<1>1. Init => IInv /\ LInv /\ NInv /\ NotClearing /\ FailedOK
    <2>1. Init => FailedOK /\ NotClearing
        BY DEF Init, FailedOK, NotClearing, Threads
    <2> QED
        BY <2>1, InitOK, InitL, InitTurns
<1>2. IInv /\ LInv /\ NInv /\ NotClearing /\ FailedOK /\ [Next]_vars =>
        (IInv /\ LInv /\ NInv /\ NotClearing /\ FailedOK)'
    <2>1. NInv => NobodyLeaves
        BY DEF NInv, Calm, NobodyLeaves
    <2> QED
        BY <2>1, StepOK, StepL, StepTurn, StepNotClearing, StepFailed
<1>3. IInv /\ LInv /\ NInv /\ FailedOK => RequestsKept
    BY TurnsKeepRequests
<1> QED
    BY <1>1, <1>2, <1>3, PTL DEF Spec
============================================================================
