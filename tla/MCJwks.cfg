\* Two callers, keys that are published, retired and published again, under
\* fairness.
SPECIFICATION FairSpec
CONSTANTS
  c1 = c1
  c2 = c2
  k1 = k1
  k2 = k2
  NoKid = NoKid
  Callers = {c1, c2}
  Kids = {k1, k2}
  CacheTTL = 2
  Timeout = 1
  MaxRotations = 3
INVARIANTS
  VerdictIsRecent
PROPERTIES
  FreshKeysStay
  CallsReturn
