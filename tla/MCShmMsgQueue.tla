--------------------------- MODULE MCShmMsgQueue ---------------------------
(***************************************************************************)
(* Model values for the message queue's runs.                              *)
(***************************************************************************)
EXTENDS ShmMsgQueue, TLC

CONSTANTS p1, p2, c1, c2

\* main does not call set_preducer_count: the counter stays what init wrote.
CountNotSet == {-1}

\* The producers are interchangeable.
Symmetry == Permutations({p1, p2})
=============================================================================
