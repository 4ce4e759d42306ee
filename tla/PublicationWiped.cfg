CONSTANTS
  Workers = {w1}
  MaxGenerations = 1
  MaxTurns = 1
  MaxEvents = 1
  MaxRemediations = 0
  AutoMerge = FALSE
  MaxAttempts = 1
  MaxFaults = 0
SPECIFICATION IssueServiceSpec
INVARIANT PublicationFindsClone
CHECK_DEADLOCK FALSE
