CONSTANTS
  j1 = j1
  j2 = j2
  w1 = w1
  w2 = w2
  c1 = c1
  c2 = c2
  repo = repo
  NoKey = NoKey
  Nobody = Nobody
  NoJob = NoJob
  RepoOf <- MCRepoOf
  KeyOf <- MCKeyOf
  Jobs = {j1}
  Workers = {w1}
  Clients = {c1}
  MaxAttempts = 2
  Publishing = {}
  Linked = {}
  MaxFaults = 0
  Signals = FALSE
  Timely = TRUE
  Ops = {"turn"}
  MaxCalls = 1
  Prompt = TRUE
SPECIFICATION ServiceSpec
PROPERTIES
  PollsUntilStopped
CHECK_DEADLOCK FALSE
