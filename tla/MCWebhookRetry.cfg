\* A retry after a failing handler.
SPECIFICATION Spec
CONSTANTS
  d1 = d1
  d2 = d2
  b1 = b1
  k1 = k1
  NoKey = NoKey
  Deliveries = {d1}
  HeaderKey <- OwnKey
  Body <- SameBody
  Refusals = {401}
  TTL = 2
  MaxAttempts = 2
  MaxRestarts = 0
INVARIANTS
  FailureCanBeRetried
