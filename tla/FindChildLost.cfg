SPECIFICATION Spec
CONSTANTS
  t1 = t1
  t2 = t2
  Clients <- MCClients
  MaxRequests = 1
  MaxOps = 4
  MaxCandidates = 1
  MaxFaults = 0
CHECK_DEADLOCK FALSE
INVARIANTS
  DocReplaySame
