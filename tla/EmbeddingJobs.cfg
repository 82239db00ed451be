SPECIFICATION Spec
CONSTANTS
  j1 = j1  j2 = j2  d1 = d1  d2 = d2  c1 = c1  c2 = c2  k1 = k1
  Jobs = {j1, j2}
  Docs = {d1, d2}
  Workers = {w1, w2}
  Contents = {c1}
  Kinds = {k1}
  DocOf <- TwoDocOf
  ContentOf <- OneContent
  JobKind <- OneKind
  DocKind <- OneKindOfDocs
  MaxAttempts = 2
  LeaseTicks = 1
  BatchSize = 2
  MaxFence = 2
  Scoped = FALSE
  Reinsertion = FALSE
  NoVector = NoVector
SYMMETRY WorkerSymmetry
INVARIANTS TypeOK QueueSafe
PROPERTIES ImplementsLedger
CHECK_DEADLOCK FALSE
