CONSTANTS
  Registry <- MCRegistry
  Order <- MCOrder
  Preferred <- MCPreferred
  MinimumStrength <- MCMinimumStrength
  Thresholds <- MCThresholds
  Capabilities <- MCCapabilities
  FixedIn <- MCFixedIn
  Tasks <- MCTasks
  Requested = {"none"}
  Configured = "auto"
  Configs <- MCConfigs
  Replies <- MCReplies
  Budgets = {3, 5}
  Reserve = 1
  MaxCycles = 1
  MaxStarts = 2
SPECIFICATION AgentSpec
PROPERTIES
  OutcomeKept
CHECK_DEADLOCK FALSE
