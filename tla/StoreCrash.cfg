SPECIFICATION FairSpec
CONSTANTS
  w1 = w1
  w2 = w2
  Writers <- MCWriters
  Reading = "none"
  TornLines = TRUE
  LateFaults = TRUE
  MaxReceipts = 4
  MaxManifests = 6
  MaxCrashes = 3
  MaxFaults = 2
INVARIANTS
  AckedCovered
  NeverTampered
PROPERTIES
  RefusalExplained
  ImplementsLog
  Reopens
