CONSTANTS
  j1 = j1
  j2 = j2
  w1 = w1
  w2 = w2
  c1 = c1
  c2 = c2
  repo = repo
  NoKey = NoKey
  Nobody = Nobody
  NoJob = NoJob
  RepoOf <- MCRepoOf
  KeyOf <- MCKeyOf
  Jobs = {j1}
  Workers = {w1}
  Clients = {c1, c2}
  MaxAttempts = 1
  Publishing = {j1}
  Linked = {}
  MaxFaults = 0
  Signals = FALSE
  Timely = FALSE
  Ops = {"run", "cancel", "requeue", "resume", "merge"}
  MaxCalls = 2
  Prompt = FALSE
SPECIFICATION ServiceSpec
SYMMETRY ProcessSymmetry
PROPERTIES
  TakenOnPurpose
CHECK_DEADLOCK FALSE
