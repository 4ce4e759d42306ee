CONSTANTS
  j1 = j1
  j2 = j2
  w1 = w1
  w2 = w2
  c1 = c1
  c2 = c2
  repo = repo
  NoKey = NoKey
  Nobody = Nobody
  NoJob = NoJob
  RepoOf <- MCRepoOf
  KeyOf <- MCKeyOf
  Jobs = {j1}
  Workers = {w1, w2}
  Clients = {c1}
  MaxAttempts = 2
  Publishing = {j1}
  Linked = {j1}
  MaxFaults = 1
  Signals = TRUE
  Timely = FALSE
  Ops = {"run"}
  MaxCalls = 1
  Prompt = TRUE
SPECIFICATION FairSpec
INVARIANTS
  AttemptsBounded
PROPERTIES
  ActsUnderLease
  CompletedAfterPublication
  EveryJobSettles
CHECK_DEADLOCK FALSE
