------------------------------ MODULE EventBus ------------------------------
(***************************************************************************)
(* kafka/publisher.go and kafka/dlq.go around the consumers of             *)
(* KafkaConsumer: services publish events that are checked against the     *)
(* taxonomy, and the DeadLetterFunc of every member is                     *)
(* DLQProducer.AsHandler, which publishes a copy of the failed event       *)
(* through a KafkaPublisher.  A copy is an event like any other: it is     *)
(* appended to a topic of the same log that the consumers read.            *)
(*                                                                         *)
(* A record has a type, a shape and, when it is a copy, the partition and  *)
(* offset of the record it was made from.  The shape says what its readers *)
(* can tell of the bytes: "sound", "odd" and "wrecked" (the schema refuses *)
(* its data; of the odd one a sound copy can be made), "mistyped" (JSON,   *)
(* and the type can be read, but no CloudEvent) and "garbage" (no JSON).   *)
(*                                                                         *)
(* A write hands an event to the writer of kafka-go, which makes up to     *)
(* MaxAttempts produce requests for it.  An acknowledgement may be lost,   *)
(* so that the event is stored again, and a request may be stored after    *)
(* the call failed or the process ended.                                   *)
(***************************************************************************)
EXTENDS KafkaConsumer, EventTypes

CONSTANTS
  Registered,          \* the taxonomy: the event types with a schema
  PublisherValidates,  \* ~PublisherConfig.DisableSchemaValidation
  Outgoing,            \* the event types that services pass to Publish
  BlankIsSound,        \* the schemas accept an event without data
  WriteAttempts,       \* PublisherConfig.MaxAttempts
  Async,               \* PublisherConfig.Async
  Foreign,             \* the shapes of the records other producers write
  MaxOriginals,        \* bound: records of a partition that are no copies
  MaxOutages           \* bound: failed writes while no context is cancelled

Original == <<>>
Shapes   == {"sound", "odd", "wrecked", "mistyped", "garbage"}

Event(e, shape, origin) == [type |-> e, shape |-> shape, origin |-> origin]

ASSUME BusAssumption ==
  /\ HasDeadLetter
  /\ Messages = [type : EventTypes, shape : Shapes,
                 origin : (Partitions \X Below(MaxLog)) \cup {Original}]
  /\ TypeOf = [r \in Messages |-> r.type]
  /\ Malformed = {r \in Messages : r.shape \in {"mistyped", "garbage"}}
  \* ValidateRawPayload refuses the types it does not know, too.
  /\ SchemaInvalid = {r \in Messages : r.shape \in {"odd", "wrecked"} \/ r.type \notin Registered}
  /\ EventTypes \subseteq Seq(Segment) /\ "dlq" \in Segment
  /\ Registered \subseteq EventTypes /\ Outgoing \subseteq EventTypes
  \* RegisterExtensionEvent refuses the names that ValidateEventType refuses.
  /\ \A e \in Registered : ValidateEventType(e)
  \* The names that copies of handled events have.
  /\ \A e \in Handled : DLQType(e) \in EventTypes
  /\ BlankIsSound \in BOOLEAN /\ Async \in BOOLEAN /\ WriteAttempts \in Nat \ {0}
  /\ PublisherValidates \in BOOLEAN /\ Foreign \subseteq Shapes
  /\ MaxOutages \in Nat /\ MaxOriginals \in Nat

VARIABLES
  flying,   \* flying[p][o + 1]: produce requests for copies of o not yet stored
  lost,     \* failed records whose copy was reported failed: partition and offset
  outages

copyVars == <<flying, lost, outages>>
busVars == <<vars, copyVars>>

RecordAt(p, o) == log[p][o + 1]

BusInit == Init /\ flying = [p \in Partitions |-> <<>>] /\ lost = {} /\ outages = 0

-----------------------------------------------------------------------------
(* KafkaPublisher.                                                         *)

\* ValidateEventPayload.
PayloadRefused(e, shape) == e \notin Registered \/ shape # "sound"

Refuses(e, shape) == \/ ~ValidateEventType(e)
                     \/ PublisherValidates /\ PayloadRefused(e, shape)

Originals(p) == {o \in Below(Len(log[p])) : RecordAt(p, o).origin = Original}

\* The broker stores an event, which LeastBytes puts on any partition of its topic.
\* The runs choose MaxLog so that there is room for every copy.
Write(e, shape, origin) ==
  \E p \in Partitions :
    /\ TopicOf[p] = topicFromEventType(e)
    /\ Len(log[p]) < MaxLog
    /\ origin = Original => Cardinality(Originals(p)) < MaxOriginals
    /\ Stored(p, Event(e, shape, origin))
    /\ flying' = [q \in Partitions |-> LET spent == [flying EXCEPT ![p] = Append(@, 0)] IN
                   IF origin # Original /\ q = origin[1]
                   THEN [spent[q] EXCEPT ![origin[2] + 1] = @ - 1] ELSE spent[q]]

NothingElse == UNCHANGED <<committed, owner, member, position, health, worker, fate, disruptions,
                           lost, outages>>

\* Publish of a service, or a repeated request of one.  An event that is refused,
\* and a write that stores nothing, leave no trace here.
PublishWritten(e, shape) == ~Refuses(e, shape) /\ Write(e, shape, Original) /\ NothingElse

\* A producer that does not use this package writes what it likes.
ForeignWrite(e, shape) == Write(e, shape, Original) /\ NothingElse

-----------------------------------------------------------------------------
(* DLQProducer.AsHandler, called by sendToDeadLetter.                      *)

\* FailedMessage.EventType is empty for a malformed record; the handler then
\* takes what it can read, or "unknown".
FailedType(r) == IF r.shape = "garbage" THEN <<"unknown">> ELSE r.type

CopyType(r) == DLQType(FailedType(r))

\* Mutant of CopyShape: the data of the event is not decoded.
CopyShape_Blank(r) == IF BlankIsSound THEN "sound" ELSE "wrecked"

\* The copy holds the fields of EventData that could be decoded.
CopyShape(r) ==
  IF \/ r.shape \in {"sound", "odd"}
     \/ r.shape \in {"mistyped", "garbage"} /\ BlankIsSound
  THEN "sound" ELSE "wrecked"

CopyRefused(r) == Refuses(CopyType(r), CopyShape(r))

\* Mutant of SendCopy: the copy is published once more when that fails.
SendCopy_Twice(m, t) ==
  /\ DeadLetter(m, t)
  /\ ~CopyRefused(Record(m, t))
  /\ flying' = [flying EXCEPT ![PartOf(m, t)][OffsetOf(m, t) + 1] = @ + 2 * WriteAttempts]
  /\ UNCHANGED <<lost, outages>>

\* Publish hands the copy to the writer, unless it refuses it.
SendCopy(m, t) ==
  /\ DeadLetter(m, t)
  /\ \/ /\ ~CopyRefused(Record(m, t))
        /\ flying' = [flying EXCEPT ![PartOf(m, t)][OffsetOf(m, t) + 1] = @ + WriteAttempts]
     \/ CopyRefused(Record(m, t)) /\ UNCHANGED flying
  /\ UNCHANGED <<lost, outages>>

\* A produce request is stored, while the goroutine waits or after it went on.
StoreCopy(p, o) ==
  /\ flying[p][o + 1] > 0
  /\ LET r == RecordAt(p, o) IN Write(CopyType(r), CopyShape(r), <<p, o>>)
  /\ NothingElse

\* The copies in the log, by partition and offset.
Copies == {c \in Partitions \X Below(MaxLog) :
             c[2] < Len(log[c[1]]) /\ RecordAt(c[1], c[2]).origin # Original}

CopiesOf(p, o) == {c \in Copies : RecordAt(c[1], c[2]).origin = <<p, o>>}

\* WriteMessages returns nil: a request was acknowledged, or nobody waits for that.
CopyWritten(m, t) ==
  /\ DeadLetterReturns(m, t)
  /\ ~CopyRefused(Record(m, t))
  /\ Async \/ CopiesOf(PartOf(m, t), OffsetOf(m, t)) # {}
  /\ UNCHANGED copyVars

\* AsHandler logs that there is no copy, or that it does not know of one, and returns.
CopyLost(m, t) ==
  /\ DeadLetterReturns(m, t)
  /\ lost' = lost \cup {<<PartOf(m, t), OffsetOf(m, t)>>}
  /\ UNCHANGED flying

\* The publisher has refused the copy.
CopyIsRefused(m, t) ==
  /\ CopyLost(m, t)
  /\ CopyRefused(Record(m, t))
  /\ UNCHANGED outages

\* WriteMessages fails, whether or not a request was or will be stored: the context
\* of the consumer is cancelled, or the broker is out of reach.
CopyFails(m, t) ==
  /\ CopyLost(m, t)
  /\ ~CopyRefused(Record(m, t))
  /\ \/ life[m] = "cancelled" /\ UNCHANGED outages
     \/ life[m] = "running" /\ outages < MaxOutages /\ outages' = outages + 1

-----------------------------------------------------------------------------

PublishStep ==
  \/ \E e \in Outgoing, shape \in {"sound", "odd"} : PublishWritten(e, shape)
  \/ \E e \in Handled, shape \in Foreign : ForeignWrite(e, shape)

ConsumerStep ==
  /\ \/ \E p \in Partitions : Revoke(p) \/ \E m \in Members : Assign(m, p)
     \/ LifeStep
     \/ \E m \in Members, t \in Topics : Consume(m, t)
  /\ UNCHANGED copyVars

CopyStep ==
  \/ \E m \in Members, t \in Topics :
       SendCopy(m, t) \/ CopyWritten(m, t) \/ CopyIsRefused(m, t) \/ CopyFails(m, t)
  \/ \E p \in Partitions : \E o \in Below(Len(log[p])) : StoreCopy(p, o)

BusNext == PublishStep \/ ConsumerStep \/ CopyStep

BusSpec == BusInit /\ [][BusNext]_busVars

-----------------------------------------------------------------------------
(* Properties.                                                             *)

\* DeadLetterFunc is at work on the record, or was, as far as can be known: a crash
\* in the middle of it leaves no trace in the process.
GivenToDeadLetter(p, o) ==
  \/ <<o, "deadLettered">> \in fate[p]
  \/ \E m \in Members, t \in Topics : pc[m][t] = "sending" /\ cur[m][t] = <<p, o>>
  \/ disruptions > 0

\* DLQProducer adds no record of its own: a copy exists only of a record that was
\* given to it, on the same topic, and one delivery of the original makes as many
\* copies as the writer may make requests at most, those included that are stored
\* when the call has long failed (dlq.go:88-115, publisher.go:46-48, 86).
CopiesFollowDeliveries ==
  \A c \in Copies :
    LET source == RecordAt(c[1], c[2]).origin IN
      /\ GivenToDeadLetter(source[1], source[2])
      /\ TopicOf[source[1]] = TopicOf[c[1]]
      /\ Cardinality(CopiesOf(source[1], source[2]))
           <= WriteAttempts * deliveries[source[1]][source[2] + 1]

\* Copies come back on the topic their group consumes, yet they do not breed,
\* even when the taxonomy knows the copies of copies: no copy carries more
\* ".dlq" suffixes than the handled types, plus one.
NoDeadLetterLoop ==
  \A c \in Copies :
    \E e \in Handled : Depth(RecordAt(c[1], c[2]).type) <= Depth(e) + 1

\* With a taxonomy that knows the copy's type, a sound event that its handler
\* gave up has a copy, unless a write failed, writes are asynchronous or somebody
\* shut down.
SoundSurvives ==
  \A p \in Partitions : \A o \in Below(Len(log[p])) :
    LET r == RecordAt(p, o) IN
      (/\ <<o, "deadLettered">> \in fate[p]
       /\ r.shape = "sound" /\ DLQType(r.type) \in Registered
       /\ ~Async /\ outages = 0 /\ disruptions = 0)
        => CopiesOf(p, o) # {}

\* "When a message permanently fails, the handler ... re-publishes it under
\* the <eventType><suffix> topic": no failed event of the service is lost.
FailedIsRepublished ==
  \A l \in lost : RecordAt(l[1], l[2]).shape = "sound" => CopiesOf(l[1], l[2]) # {}
=============================================================================
