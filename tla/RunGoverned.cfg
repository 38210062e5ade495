SPECIFICATION FairSpec
CONSTANTS
  Modes = {"live", "dry_run"}
  Cmds = {"c1"}
  Targets = {"lead", "builder"}
  Severities = {"critical", "ui"}
  LoopBudget = 1
  Covered = TRUE
  Earlier = {0, 4, 6}
  Limit = 7
  Projected = 2
  MaxDefects = 1
  MaxFaults = 1
  MaxReceipts = 40
CHECK_DEADLOCK FALSE
INVARIANTS
  CompletionEarned
  NoCommandSkipped
  AnswersSettled
  UndecidedExplained
  SpendCovered
  ShownTruthfully
PROPERTIES
  AbandonsConfirmed
  ImplementsGovernedRun
  Returns
