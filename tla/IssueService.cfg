CONSTANTS
  Workers = {w1, w2}
  MaxGenerations = 1
  MaxTurns = 1
  MaxEvents = 1
  MaxRemediations = 0
  AutoMerge = TRUE
  MaxAttempts = 2
  MaxFaults = 1
SPECIFICATION IssueServiceSpec
SYMMETRY WorkerSymmetry
CONSTRAINT StartedByOperator
INVARIANTS
  EffectsBounded
  SucceededWasPosted
  RequestsAreAccounted
CHECK_DEADLOCK FALSE
