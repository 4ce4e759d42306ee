CONSTANTS
  j1 = j1
  j2 = j2
  w1 = w1
  w2 = w2
  c1 = c1
  c2 = c2
  repo = repo
  NoKey = NoKey
  Nobody = Nobody
  NoJob = NoJob
  RepoOf <- MCRepoOf
  KeyOf <- MCKeyOf
  Jobs = {j1,j2}
  Workers = {w1, w2}
  Clients = {c1}
  MaxAttempts = 2
  Publishing = {j1}
  Linked = {j1}
  MaxFaults = 1
  Signals = FALSE
  Timely = TRUE
  Ops = {"run", "turn", "cancel", "resume"}
  MaxCalls = 2
  Prompt = TRUE
SPECIFICATION ServiceSpec
SYMMETRY WorkerSymmetry
INVARIANTS
  OneAtWork
  CloneUnderWork
CHECK_DEADLOCK FALSE
