SPECIFICATION Spec
CONSTANTS
  Terminals = {"t1", "t2"}
  Names = {1, 2}
  Cases <- MCCases
  Evaluations <- MCEvaluations
  Databases <- MCDatabases
  Reports <- MCReports
  Approvals <- MCApprovals
  MaxEvents = 2
INVARIANTS
  ReadyIsEarned
  GraphIsClosed
CHECK_DEADLOCK FALSE
