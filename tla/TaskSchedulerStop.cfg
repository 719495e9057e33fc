SPECIFICATION Spec
CONSTANTS
  Tasks = {"plain", "urgent"}
  Priority <- MCPriority
  Callers = {"one"}
  MaxQueued = 1
  MaxWorkers = 1
PROPERTIES
  StopReturns
CHECK_DEADLOCK FALSE
