----------------------------- MODULE Singleton -----------------------------
(***************************************************************************)
(* Instance() of the two singletons (src/cpp/examples/singleton.h and      *)
(* src/cpp/design_patterns/creational_patterns/singleton.h): the first     *)
(* look at instance_ and the last read of it are outside the lock.         *)
(***************************************************************************)
EXTENDS Integers

CONSTANTS Callers,
          MaxFailures, \* bound: constructions that throw
          Nobody       \* not a thread

ASSUME SingletonAssumption == MaxFailures \in Nat /\ Nobody \notin Callers

None == 0

VARIABLES at,       \* at[t]: where thread t is in Instance
          instance, mutex,
          made,     \* objects constructed so far; they are numbered
          built,    \* objects whose fields other threads can see
          returned, \* per thread, the pointer its last call returned
          locked,   \* per thread, whether its call has held the mutex
          failures

instanceVars == <<at, instance, mutex, made, built, returned, locked, failures>>

InstanceInit ==
    /\ at = [t \in Callers |-> "idle"]
    /\ instance = None
    /\ mutex = Nobody
    /\ made = 0
    /\ built = {}
    /\ returned = [t \in Callers |-> None]
    /\ locked = [t \in Callers |-> FALSE]
    /\ failures = 0

Move(t, from, to) == at[t] = from /\ at' = [at EXCEPT ![t] = to]

Call(t) ==
    /\ Move(t, "idle", "check")
    /\ returned' = [returned EXCEPT ![t] = None]
    /\ locked' = [locked EXCEPT ![t] = FALSE]
    /\ UNCHANGED <<instance, mutex, made, built, failures>>

FirstCheck(t) ==
    /\ Move(t, "check", IF instance = None THEN "lock" ELSE "return")
    /\ UNCHANGED <<instance, mutex, made, built, returned, locked, failures>>

Lock(t) ==
    /\ Move(t, "lock", "recheck")
    /\ mutex = Nobody
    /\ mutex' = t
    /\ locked' = [locked EXCEPT ![t] = TRUE]
    /\ UNCHANGED <<instance, made, built, returned, failures>>

\* Mutant: the caller that got the lock does not look again.
NoSecondCheck(t) ==
    /\ Move(t, "recheck", "create")
    /\ UNCHANGED <<instance, mutex, made, built, returned, locked, failures>>

SecondCheck(t) ==
    /\ Move(t, "recheck", IF instance = None THEN "create" ELSE "unlock")
    /\ UNCHANGED <<instance, mutex, made, built, returned, locked, failures>>

Create(t) ==
    /\ Move(t, "create", "construct")
    /\ made' = made + 1
    /\ UNCHANGED <<instance, mutex, built, returned, locked, failures>>

\* Mutant: a construction that throws is tried again, without end.
ThrowRetries(t) ==
    /\ Move(t, "create", "check")
    /\ mutex' = Nobody
    /\ locked' = [locked EXCEPT ![t] = FALSE]
    /\ UNCHANGED <<instance, made, built, returned, failures>>

\* The constructor or the allocation throws: the lock's destructor releases the
\* mutex and the caller gets the exception.
CreateThrows(t) ==
    /\ Move(t, "create", "idle")
    /\ failures < MaxFailures
    /\ failures' = failures + 1
    /\ mutex' = Nobody
    /\ UNCHANGED <<instance, made, built, returned, locked>>

\* instance_ is not atomic: nothing orders the stores of the constructor and
\* the store of the pointer for a thread that takes no lock.
StoreFields(t) ==
    /\ at[t] = "construct" /\ made \notin built
    /\ built' = built \cup {made}
    /\ UNCHANGED <<at, instance, mutex, made, returned, locked, failures>>

StorePointer(t) ==
    /\ at[t] = "construct" /\ instance # made
    /\ instance' = made
    /\ UNCHANGED <<at, mutex, made, built, returned, locked, failures>>

\* Releasing the mutex orders both stores before what the next owner does.
Unlock(t) ==
    /\ \/ Move(t, "unlock", "return")
       \/ Move(t, "construct", "return") /\ instance = made /\ made \in built
    /\ mutex' = Nobody
    /\ UNCHANGED <<instance, made, built, returned, locked, failures>>

Return(t) ==
    /\ Move(t, "return", "idle")
    /\ returned' = [returned EXCEPT ![t] = instance]
    /\ UNCHANGED <<instance, mutex, made, built, locked, failures>>

InstanceStep(t) ==
    FirstCheck(t) \/ Lock(t) \/ SecondCheck(t) \/ Create(t) \/ CreateThrows(t)
        \/ StoreFields(t) \/ StorePointer(t) \/ Unlock(t) \/ Return(t)

InstanceNext == \E t \in Callers : Call(t) \/ InstanceStep(t)

InstanceSpec == InstanceInit /\ [][InstanceNext]_instanceVars

\* A thread inside Instance keeps running.
InstanceFairness == \A t \in Callers : WF_instanceVars(InstanceStep(t))
----------------------------------------------------------------------------
PCs == {"idle", "check", "lock", "recheck", "create", "construct", "unlock", "return"}

InstanceTypeOK ==
    /\ at \in [Callers -> PCs]
    /\ instance \in Nat /\ made \in Nat /\ failures \in 0 .. MaxFailures
    /\ built \subseteq Nat
    /\ mutex \in Callers \cup {Nobody}
    /\ returned \in [Callers -> Nat]
    /\ locked \in [Callers -> BOOLEAN]

\* However many threads call Instance at once, and whatever attempts have
\* failed before, one object is constructed (singleton_test.cc:26 of examples
\* tests it on one thread) and every call returns it.
OneInstance ==
    /\ made <= 1
    /\ \A t \in Callers : at[t] = "return" => instance = 1
    /\ \A t \in Callers : returned[t] \in {None, 1}

\* A caller that has held the mutex sees the constructed object.  (A caller on
\* the path without the lock may not: StorePointer can precede StoreFields.)
LockedCallerSeesObject ==
    \A t \in Callers : at[t] = "return" /\ locked[t] => instance \in built

\* One object is made, and whoever took the lock gets all of it.
InstanceSound == OneInstance /\ LockedCallerSeesObject

\* Every call returns or throws: no path leaves the mutex behind.
EveryInstanceCallEnds == \A t \in Callers : at[t] = "check" ~> at[t] = "idle"
----------------------------------------------------------------------------
(* The inductive invariant.                                                *)

InCritical(t) == at[t] \in {"recheck", "create", "construct", "unlock"}

InstanceInv ==
    /\ InstanceTypeOK
    /\ instance \in {None, 1} /\ made \in {0, 1}
    /\ \A t \in Callers : InCritical(t) => mutex = t /\ locked[t]
    /\ \A t \in Callers : at[t] \in {"check", "lock"} => ~locked[t]
    /\ \A t \in Callers : at[t] = "create" => instance = None /\ made = 0
    /\ \A t \in Callers : at[t] = "construct" => made = 1
    /\ \A t \in Callers : at[t] \in {"unlock", "return"} => instance = 1
    /\ (made = 1 /\ \A t \in Callers : at[t] # "construct") => instance = 1 /\ 1 \in built
    /\ made = 0 => instance = None
    /\ \A t \in Callers : returned[t] \in {None, 1}
    /\ LockedCallerSeesObject
=============================================================================
