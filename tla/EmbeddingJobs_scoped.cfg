SPECIFICATION PollingSpec
CONSTANTS
  j1 = j1  j2 = j2  d1 = d1  d2 = d2  c1 = c1  c2 = c2  k1 = k1
  Jobs = {j1}
  Docs = {d1}
  Workers = {w1, w2}
  Contents = {c1}
  Kinds = {k1}
  DocOf <- OneJob
  ContentOf <- OneJobContent
  JobKind <- OneJobKind
  DocKind <- OneDocKind
  MaxAttempts = 2
  LeaseTicks = 2
  BatchSize = 2
  MaxFence = 3
  Scoped = TRUE
  Reinsertion = FALSE
  NoVector = NoVector
PROPERTIES OrphanRetired
CHECK_DEADLOCK FALSE
