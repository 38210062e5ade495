SPECIFICATION FairSpec
CONSTANTS
  NoTurn = 0
  MaxTurns = 2
  MaxServices = 2
  MaxFaults = 1
CHECK_DEADLOCK FALSE
INVARIANTS
  SettledMeansGone
  NoForgottenTurn
  ScreenTruthful
PROPERTIES
  TurnsEnd
