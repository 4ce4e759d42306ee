CONSTANTS
  j1 = j1
  j2 = j2
  j3 = j3
  w1 = w1
  w2 = w2
  c1 = c1
  repo = repo
  key = key
  NoKey = NoKey
  Nobody = Nobody
  Jobs = {j1, j2, j3}
  Workers = {w1, w2}
  Clients = {c1}
  RepoOf <- MCRepoOf
  KeyOf <- MCKeyOf
  MaxAttempts = 2
  MaxWrites = 3
SPECIFICATION Spec
CONSTRAINT WriteBound
SYMMETRY WorkerSymmetry
INVARIANTS
  TypeOK
  RowsConsistent
  OneActivePerRepository
  FreshWorkerHoldsLease
  FreshCopyIsCurrent
PROPERTIES
  LifecycleRespected
  ImplementsContract
