SPECIFICATION Spec
CONSTANTS
  m = m  r = r
  Operators = {o1, o2}
  Campaigns = {m, r}
  Reviewed <- ReviewedJobs
  Reserve <- Reserves
  LastJob = 4
  Cutoff = 3
  PageLimit = 2
  ReviewedAt = 1
  HighWater = 2
  MaxAttempts = 3
  LossyJobs = {1}
SYMMETRY OperatorSymmetry
INVARIANTS TypeOK HeadroomKept EachJobOnce
CHECK_DEADLOCK FALSE
