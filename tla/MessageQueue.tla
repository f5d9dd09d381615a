---------------------------- MODULE MessageQueue ----------------------------
(***************************************************************************)
(* What the shared-memory message queue promises to its users, without the *)
(* memory, the chunks, the lock or the polling: messages come out in the   *)
(* order they went in, each one once and unchanged, and a receiver is told *)
(* "closed" only when every producer has finished and nothing is left.     *)
(***************************************************************************)
EXTENDS Naturals, Sequences

CONSTANTS Producers, Consumers,
          MsgsPerProducer   \* the messages each producer sends before it finishes

VARIABLES
    queue,      \* the messages sent and not yet received, oldest first
    sent,       \* sent[p]: how many messages p has sent
    finished,   \* the producers that have announced their end
    received,   \* received[c]: what consumer c got, oldest first
    ended       \* the consumers that were told "closed"

vars == <<queue, sent, finished, received, ended>>

Init ==
    /\ queue = <<>>
    /\ sent = [p \in Producers |-> 0]
    /\ finished = {}
    /\ received = [c \in Consumers |-> <<>>]
    /\ ended = {}

\* The k-th message of producer p is <<p, k>>.
Send(p) ==
    /\ p \notin finished
    /\ sent[p] < MsgsPerProducer
    /\ sent' = [sent EXCEPT ![p] = @ + 1]
    /\ queue' = Append(queue, <<p, sent[p] + 1>>)
    /\ UNCHANGED <<finished, received, ended>>

Finish(p) ==
    /\ p \notin finished
    /\ sent[p] = MsgsPerProducer
    /\ finished' = finished \cup {p}
    /\ UNCHANGED <<queue, sent, received, ended>>

Receive(c) ==
    /\ c \notin ended
    /\ queue # <<>>
    /\ queue' = Tail(queue)
    /\ received' = [received EXCEPT ![c] = Append(@, Head(queue))]
    /\ UNCHANGED <<sent, finished, ended>>

End(c) ==
    /\ c \notin ended
    /\ queue = <<>>
    /\ finished = Producers
    /\ ended' = ended \cup {c}
    /\ UNCHANGED <<queue, sent, finished, received>>

Next ==
    \/ \E p \in Producers : Send(p) \/ Finish(p)
    \/ \E c \in Consumers : Receive(c) \/ End(c)

Spec == Init /\ [][Next]_vars
=============================================================================
