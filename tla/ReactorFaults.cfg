SPECIFICATION Spec
CONSTANTS
  Clients = {c1, c2}
  Workers = {w1, w2}
  Loop = loop
  MaxRequests = 2
  Backlog = 2
  Pipelining = TRUE
  Faults = {"fin", "err"}
  None = None
SYMMETRY Symmetry
CONSTRAINT FewRequests
INVARIANTS
    WriteFindsResponse
    LookupsSucceed
CHECK_DEADLOCK FALSE
