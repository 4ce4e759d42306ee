CONSTANTS
  Registry <- MCRegistry
  Order <- MCOrder
  Preferred <- MCPreferred
  MinimumStrength <- MCMinimumStrength
  Thresholds <- MCThresholds
  Capabilities <- MCCapabilities
  FixedIn <- MCFixedIn
  Tasks <- MCTasks
  Requested = {"none"}
  Configured = "auto"
  Configs <- MCConfigs
  Replies <- MCReplies
  Budgets = {3, 5}
  Reserve = 1
  MaxCycles = 1
  MaxStarts = 2
SPECIFICATION FairAgentSpec
INVARIANTS
  AgentTypeOK
  NoCallTwice
  WorkflowInOrder
  AnswersQualify
  PhasesConfined
PROPERTIES
  NeverBack
  StepsWithinBudget
  RunEnds
CHECK_DEADLOCK FALSE
