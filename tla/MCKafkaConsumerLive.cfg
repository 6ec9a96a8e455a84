\* Two topics under fairness: a group of two that starts at the end of the
\* log, without a dead-letter function, one member with a negative MaxRetries.
SPECIFICATION FairSpec
CONSTANTS
  m1 = m1
  m2 = m2
  good = good
  bad = bad
  odd = odd
  Nobody = Nobody
  Members = {m1, m2}
  Topics = {"t1", "t2"}
  Partitions = {"p1"}
  TopicOf <- OneTopic
  EventTypes <- MCEventTypes
  Handled <- MCEventTypes
  Messages <- SoundOrInvalid
  Malformed <- MCMalformed
  SchemaInvalid <- MCSchemaInvalid
  TypeOf <- MCTypeOf
  MaxRetriesCfg <- RetryOnceOrNever
  StartOffset = "last"
  HasDeadLetter = FALSE
  DisableSchemaValidation = FALSE
  MaxLog = 2
  MaxDisruptions = 1
INVARIANTS
  IInv
PROPERTIES
  EventuallySettled
  CancelEndsStart
