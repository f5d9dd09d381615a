----------------------------- MODULE MCReactor -----------------------------
(* The reactor for TLC: clients are interchangeable.                       *)
EXTENDS Reactor, TLC, FiniteSetsExt

Symmetry == Permutations(Clients) \cup Permutations(Workers)

\* bound: requests the clients send in all.
FewRequests == MapThenSumSet(LAMBDA c : conn[c].sent, Clients) <= 2
============================================================================
