SPECIFICATION Spec
CONSTANTS
  Clients = {c1, c2}
  Workers = {w1}
  Loop = loop
  MaxRequests = 1
  Backlog = 1
  Pipelining = FALSE
  Faults = {"fin"}
  None = None
INVARIANTS LoopRegisters
CHECK_DEADLOCK FALSE
