SPECIFICATION Spec
CONSTANTS
  w1 = w1
  w2 = w2
  Writers <- MCWriters
  Reading = "project"
  TornLines = FALSE
  LateFaults = FALSE
  MaxReceipts = 3
  MaxManifests = 4
  MaxCrashes = 1
  MaxFaults = 1
SYMMETRY Symmetry
INVARIANTS
  ProjectionExact
