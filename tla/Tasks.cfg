SPECIFICATION FairSpec
CONSTANTS
  t1 = t1
  t2 = t2
  c1 = c1
  c2 = c2
  Requests <- MCRequests
  Callers <- MCCallers
  None = None
  MaxCrashes = 2
  MaxFaults = 1
CHECK_DEADLOCK FALSE
INVARIANTS
  StoreFollowsEvidence
  AskedOnce
PROPERTIES
  StopHolds
  
