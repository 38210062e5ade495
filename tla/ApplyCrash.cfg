SPECIFICATION FairSpec
CONSTANTS
  N = 2
  Creates <- MCCreates
  MaxCrashes = 3
  MaxFaults = 2
  MaxEdits = 1
  ReuseIds = TRUE
  UnlinkFails = TRUE
INVARIANTS
  VerdictHolds
  WriteAhead
  TruthfulAnswer
  RejectedUntouched
PROPERTIES
  ForeignSurvives
  RemovalIsSigned
  ImplementsAtomic
  RefusalExplained
  RecoveryEnds
