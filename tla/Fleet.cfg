SPECIFICATION Spec
CONSTANTS
  s1 = s1
  s2 = s2
  Slots <- MCSlots
  Kinds <- MCKinds
  Corrs = {"c1"}
  Streams = 1
  Capacity = 1
  MaxTokens = 3
  MaxSeq = 2
  MaxFaults = 1
CHECK_DEADLOCK FALSE
INVARIANTS
  CookieActsOnce
  SessionKept
  AbandonedAsConfirmed
