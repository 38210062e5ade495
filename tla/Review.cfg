SPECIFICATION Spec
CONSTANTS
  t1 = t1
  t2 = t2
  Clients <- MCClients
  MaxRequests = 2
  MaxOps = 5
  MaxCandidates = 2
  MaxFaults = 1
CHECK_DEADLOCK FALSE
SYMMETRY Symmetry
INVARIANTS
  OneChild
PROPERTIES
  DraftsKept
  LineageTrue
