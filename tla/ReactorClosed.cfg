SPECIFICATION FairSpec
CONSTANTS
  Clients = {c1, c2}
  Workers = {w1, w2}
  Loop = loop
  MaxRequests = 2
  Backlog = 1
  Pipelining = FALSE
  Faults = {}
  None = None
INVARIANTS
    RequestsKept
PROPERTIES
    EveryRequestAnswered
CHECK_DEADLOCK FALSE
