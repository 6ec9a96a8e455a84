\* A taxonomy with the copies, failing writes, one crash or shutdown.
SPECIFICATION ReadersSpec
CONSTANTS
  Members = {m1}
  Nobody = Nobody
  Segment <- MCSegment
  Topics <- MCTopics
  Partitions <- OnePartition
  TopicOf <- MCTopicOf
  EventTypes <- MCEventTypes
  Handled <- MCHandled
  Outgoing <- MCOutgoing
  Foreign = {"odd", "garbage"}
  Registered <- Extended
  Messages <- MCMessages
  TypeOf <- MCTypeOf
  Malformed <- MCMalformed
  SchemaInvalid <- MCSchemaInvalid
  MaxRetriesCfg <- RetryOnce
  StartOffset = "first"
  HasDeadLetter = TRUE
  DisableSchemaValidation = FALSE
  PublisherValidates = TRUE
  MaxLog = 5
  BlankIsSound = FALSE
  Async = FALSE
  WriteAttempts = 2
  MaxOriginals = 1
  MaxDisruptions = 1
  MaxOutages = 1
  Replays <- MCReplays
  MaxEntries = 2
INVARIANTS
  ReadersTellTheLog
  CopiesFollowDeliveries
  SoundSurvives
  NoDeadLetterLoop
