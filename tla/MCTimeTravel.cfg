\* One service with its own table access, one that goes through Kafka.
SPECIFICATION Spec
CONSTANTS
  w1 = w1
  w2 = w2
  s1 = s1
  ann = ann
  Writers = {w1, w2}
  ViaKafka = {w2}
  Sinks = {s1}
  Actors = {ann}
  NoContext = NoContext
  System = System
  NoPayload = NoPayload
  MaxChanges = 3
  MaxTime = 2
  MaxFaults = 1
INVARIANTS
  DiffIsExact
  OpenRowsAreBounded
  SerialHistoryIsExact
  AttributionKept
PROPERTIES
  PastIsKept
