SPECIFICATION Spec
CONSTANTS
  here = here
  there = there
  pub = pub
  pub2 = pub2
  far = far
  work = work
  spec = spec
  created = created
  closed = closed
  draft = draft
  fix = fix
  Segment = {work, spec, created, closed, draft, fix}
  Processes <- MCProcesses
  Publishers <- MCPublishers
  Consumers <- MCConsumers
  Async <- MCAsync
  ProcessOf <- MCProcessOf
  Types <- MCTypes
  Sorted <- MCSorted
  Taxonomy <- MCTaxonomy
  Extensions <- MCExtensions
  Schemas = {"loose", "strict", "other", "broken"}
  Broken = {"broken"}
  NoSchema = ""
  Payloads = {"full", "empty"}
  Accepts <- MCAccepts
  Batches <- MCBatches
  MaxChanges = 1
  MaxAttempts = 2
  MaxFaults = 1
INVARIANTS
  RejectionMeansSkew
  WarningHasCause
  ValidatorAgrees
PROPERTY
  NilIsKept
CHECK_DEADLOCK FALSE
