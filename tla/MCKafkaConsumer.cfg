\* Two members share one partition: rebalances, late commits, crashes.
SPECIFICATION Spec
CONSTANTS
  m1 = m1
  m2 = m2
  good = good
  bad = bad
  odd = odd
  Nobody = Nobody
  Members = {m1, m2}
  Topics = {"t1"}
  Partitions = {"p1"}
  TopicOf <- OneTopic
  EventTypes <- MCEventTypes
  Handled <- MCEventTypes
  Messages <- SoundOrMalformed
  Malformed <- MCMalformed
  SchemaInvalid <- MCSchemaInvalid
  TypeOf <- MCTypeOf
  MaxRetriesCfg <- RetryTwice
  StartOffset = "unset"
  HasDeadLetter = TRUE
  DisableSchemaValidation = FALSE
  MaxLog = 2
  MaxDisruptions = 2
SYMMETRY MemberSymmetry
INVARIANTS
  CommittedSettled
  RedeliveryNeedsDisruption
  OneFatePerDelivery
  HealthIsTrue
PROPERTIES
  PromiseKept
