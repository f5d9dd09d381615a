-------------------------- MODULE MCBlockingQueue --------------------------
(***************************************************************************)
(* Model values for the blocking queue's run, and who calls what.          *)
(***************************************************************************)
EXTENDS BlockingQueue, TLC

CONSTANTS p1, p2, c1, c2

\* Every operation, spread over four threads.
AllOps == (p1 :> {"Enqueue", "TryEnqueue", "Clear"}) @@ (p2 :> {"EnqueueFront", "ForceEnqueue"})
            @@ (c1 :> {"Dequeue", "TryDequeue"}) @@ (c2 :> {"TryDequeue", "Full"})
=============================================================================
