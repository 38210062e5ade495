SPECIFICATION Spec
CONSTANTS
  Modes = {"live", "dry_run"}
  Cmds = {"c1"}
  Targets = {"lead", "builder"}
  Severities = {"critical", "ui"}
  LoopBudget = 1
  Covered = FALSE
  Earlier = {0}
  Limit = 1
  Projected = 1
  MaxDefects = 1
  MaxFaults = 0
  MaxReceipts = 40
CHECK_DEADLOCK FALSE
INVARIANTS
  DocRefusalRecorded
