SPECIFICATION Spec
CONSTANTS
  Cases <- MCCases
  Agents = {"planner", "writer"}
  MaxRetries = 2
  Voters = {"gate", "security", "architecture"}
  Decisions = {"release"}
  Confidences = {4, 8}
  MaxHistory = 2
  Defaults <- MCDefaults
  Order <- MCOrder
  Metrics = {"delivery_completeness", "quality_score", "code_coverage", "bug_density"}
  Values = {0, 1, 14, 90, 180}
  Full = 10080
  Unit = 2
  ActionIds = {"write", "send"}
  MaxStack = 10
  StepLists <- MCStepLists
  Rounds = 2
INVARIANTS
  PausedKnowsWhere
  DecisionIsCurrent
  ReportAgreesWithItsLines
  ProofsBindTheirEntry
  FlowsAnswerForTheirSteps
PROPERTIES
  CancelHitsTheNewest
  ParsesEnd
CHECK_DEADLOCK FALSE
