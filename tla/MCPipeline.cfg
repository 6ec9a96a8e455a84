SPECIFICATION Spec
CONSTANTS
  c1 = c1
  c2 = c2
  a1 = a1
  a2 = a2
  u1 = u1
  Calls <- MCCallers
  Clients <- MCClients
  Users <- MCUsers
  Kinds <- MCKinds
  Service = service
  Nobody = nobody
  None = none
  AllowedOrigins <- MCOrigins
  AuditRegistered = TRUE
  WithDB <- MCWithDB
  WithPublisher <- MCWithPublisher
  Rate = 1
  Burst = 2
  TTL = 0
  MaxTime = 1
  Quota = 1
  MaxRequests = 3
  MaxFaults = 1
  Errors <- MCErrors
  Unwrapped <- MCUnwrapped
  Codes <- MCCodes
  Own <- MCOwn
  InternalCodes = "500"
INVARIANTS
  TypeOK
  AdmissionsBounded
  OnlyAuthorizedActs
  OvershootIsBounded
  AuditIsTrue
  InnermostAnswers
CHECK_DEADLOCK FALSE
