\* The taxonomy of the source, which has no dead-letter types.
SPECIFICATION BusSpec
CONSTANTS
  Members = {m1}
  Nobody = Nobody
  Segment <- MCSegment
  Topics <- MCTopics
  Partitions <- OnePartition
  TopicOf <- MCTopicOf
  EventTypes <- MCEventTypes
  Handled <- MCHandled
  Outgoing <- MCOutgoing
  Foreign = {"odd", "garbage"}
  Registered <- Shipped
  Messages <- MCMessages
  TypeOf <- MCTypeOf
  Malformed <- MCMalformed
  SchemaInvalid <- MCSchemaInvalid
  MaxRetriesCfg <- RetryOnce
  StartOffset = "first"
  HasDeadLetter = TRUE
  DisableSchemaValidation = FALSE
  PublisherValidates = TRUE
  MaxLog = 6
  BlankIsSound = FALSE
  Async = FALSE
  WriteAttempts = 2
  MaxOriginals = 2
  MaxDisruptions = 0
  MaxOutages = 0
INVARIANTS
  FailedIsRepublished
