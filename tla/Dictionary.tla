----------------------------- MODULE Dictionary -----------------------------
(***************************************************************************)
(* What a map from keys to values promises.  last is the last call with    *)
(* what it returned: insert replaces, erase removes and says whether there *)
(* was something to remove, the destructor leaves nothing.                 *)
(***************************************************************************)
CONSTANTS Keys, Values, None, NoLast

VARIABLES dict, last

Init == dict = [k \in Keys |-> None] /\ last = NoLast

Insert(k, v) ==
    /\ last' = [op |-> "insert", key |-> k, value |-> v, ok |-> TRUE]
    /\ dict' = [dict EXCEPT ![k] = v]

Erase(k, ok) ==
    /\ last' = [op |-> "erase", key |-> k, value |-> None, ok |-> ok]
    /\ ok = (dict[k] # None)
    /\ dict' = [dict EXCEPT ![k] = None]

Clear == last' = NoLast /\ dict' = [k \in Keys |-> None]

Next ==
    \/ \E k \in Keys, ok \in BOOLEAN : Erase(k, ok)
    \/ \E k \in Keys, v \in Values : Insert(k, v)
    \/ Clear

Spec == Init /\ [][Next]_<<dict, last>>
=============================================================================
