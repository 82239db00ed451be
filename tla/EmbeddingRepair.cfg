SPECIFICATION RepairSpec
CONSTANTS
  j1 = j1  j2 = j2  d1 = d1  c1 = c1  c2 = c2  k1 = k1
  Jobs = {j1, j2}
  Docs = {d1}
  Workers = {w1}
  Contents = {c1, c2}
  Kinds = {k1}
  DocOf <- OneDocOf
  ContentOf <- TwoContents
  JobKind <- OneKind
  DocKind <- OneDocKind
  MaxAttempts = 3
  LeaseTicks = 1
  BatchSize = 2
  MaxFence = 3
  Scoped = FALSE
  Reinsertion = FALSE
  NoVector = NoVector
INVARIANTS WrittenStillLeased
PROPERTIES FreshVectorWrites ReopenedRightly
CHECK_DEADLOCK FALSE
