CONSTANTS
  Workers = {w1}
  MaxGenerations = 1
  MaxTurns = 1
  MaxEvents = 2
  MaxRemediations = 0
  AutoMerge = TRUE
  MaxAttempts = 2
  MaxFaults = 1
SPECIFICATION IssueServiceFair
CONSTRAINT StartedByOperator
PROPERTIES
  TurnsConclude
  ActionsSettle
CHECK_DEADLOCK FALSE
