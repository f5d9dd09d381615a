----------------------------- MODULE MCThreads ------------------------------
(***************************************************************************)
(* The thread pool and the singleton for TLC.  Neither calls the other:    *)
(* `scene` says which of them the threads of a behaviour use.              *)
(***************************************************************************)
EXTENDS ThreadPool, Singleton

CONSTANTS w1, w2, w3, c1, c2

VARIABLE scene

allVars == <<scene, vars, instanceVars>>

InitAll == scene \in {"pool", "singleton"} /\ Init /\ InstanceInit

NextAll ==
    \/ scene = "pool" /\ Next /\ UNCHANGED <<scene, instanceVars>>
    \/ scene = "singleton" /\ InstanceNext /\ UNCHANGED <<scene, vars>>

SpecAll ==
    /\ InitAll /\ [][NextAll]_allVars
    /\ scene = "pool" => Fairness
    /\ scene = "singleton" => InstanceFairness
=============================================================================
