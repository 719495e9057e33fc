SPECIFICATION Spec
CONSTANTS
  Tasks = {"plain", "urgent"}
  Priority <- MCPriority
  Callers = {"one", "two"}
  MaxQueued = 3
  MaxWorkers = 2
INVARIANTS
  PendingIsQueued
PROPERTIES
  CancelledIsFinal
  PendingIsServed
CHECK_DEADLOCK FALSE
