\* Two deliveries with the same body and no key, either of them refused or
\* not, and a restart of the receiver, under fairness.
SPECIFICATION FairSpec
CONSTANTS
  d1 = d1
  d2 = d2
  b1 = b1
  k1 = k1
  NoKey = NoKey
  Deliveries = {d1, d2}
  HeaderKey <- NoKeys
  Body <- SameBody
  Refusals = {401}
  TTL = 2
  MaxAttempts = 2
  MaxRestarts = 1
INVARIANTS
  DeliveredWasHandled
PROPERTIES
  HandledOncePerTTL
  DeliveriesEnd
