--------------------------- MODULE EventBusProofs ---------------------------
(* Facts about names, and proofs about the publisher and the dead-letter    *)
(* producer around any group of consumers, and about who reads beside it.   *)
EXTENDS LogReaders, KafkaConsumerProofs

-----------------------------------------------------------------------------
(* Names (EventTypes).                                                      *)

\* Every name DLQProducer.Send forms from a valid event type is valid again,
\* so that the name is never the reason why a publisher refuses the copy.
THEOREM DLQTypeIsValid ==
  ASSUME NEW e \in Seq(Segment), "dlq" \in Segment, ValidateEventType(e)
  PROVE  ValidateEventType(DLQType(e)) /\ DLQType(e) \in EventType
BY AppendProperties DEF ValidateEventType, DLQType, EventType

\* topicFromEventType sends the dead-letter copy of an event back to the
\* topic the event came from, and never to the topic that the comment on
\* DLQProducer names.
THEOREM DLQStaysOnTopic ==
  ASSUME NEW e \in Seq(Segment), "dlq" \in Segment, ValidateEventType(e)
  PROVE  /\ topicFromEventType(DLQType(e)) = topicFromEventType(e)
         /\ topicFromEventType(DLQType(e)) # DLQTopic(topicFromEventType(e))
<1>. DEFINE d == DLQType(e)
<1>1. d \in Seq(Segment) /\ Len(d) = Len(e) + 1 /\ Len(e) \in Nat /\ Len(e) >= 3
  BY AppendProperties DEF DLQType, ValidateEventType
<1>2. d[1] = e[1] /\ d[2] = e[2]
  BY <1>1, AppendProperties DEF DLQType
<1>. HIDE DEF d
<1>3. /\ SubSeq(d, 1, 2) \in Seq(Segment) /\ SubSeq(e, 1, 2) \in Seq(Segment)
      /\ Len(SubSeq(d, 1, 2)) = 2 /\ Len(SubSeq(e, 1, 2)) = 2
      /\ \A i \in 1 .. 2 : SubSeq(d, 1, 2)[i] = d[i] /\ SubSeq(e, 1, 2)[i] = e[i]
  BY <1>1, SubSeqProperties
<1>4. SubSeq(d, 1, 2) = SubSeq(e, 1, 2)
  BY <1>2, <1>3, SeqEqual
<1>5. topicFromEventType(d) = SubSeq(e, 1, 2) /\ topicFromEventType(e) = SubSeq(e, 1, 2)
  BY <1>1, <1>4 DEF topicFromEventType
<1>6. ASSUME NEW t \in Seq(Segment), Len(t) = 2 PROVE t # DLQTopic(t)
  <2>1. Len(DLQTopic(t)) = 3
    BY <1>6, AppendProperties DEF DLQTopic
  <2>2. SUFFICES ASSUME t = DLQTopic(t) PROVE FALSE
    OBVIOUS
  <2>3. Len(t) = Len(DLQTopic(t))
    BY <2>2
  <2>. QED  BY <1>6, <2>1, <2>3
<1>7. SubSeq(e, 1, 2) # DLQTopic(SubSeq(e, 1, 2))
  BY <1>3, <1>6
<1>. QED  BY <1>5, <1>7 DEF d

\* IsDLQTopic does not recognise the topic on which DLQProducer's copies of an
\* event arrive, unless the event's own topic looked like a DLQ topic.
THEOREM CopyTopicIsNotDLQTopic ==
  ASSUME NEW e \in Seq(Segment), "dlq" \in Segment, ValidateEventType(e),
         e[1] # "dlq", e[2] # "dlq"
  PROVE  ~IsDLQTopic(topicFromEventType(DLQType(e)))
<1>1. topicFromEventType(DLQType(e)) = topicFromEventType(e)
  BY DLQStaysOnTopic
<1>2. Len(e) \in Nat /\ Len(e) >= 3
  BY DEF ValidateEventType
<1>3. topicFromEventType(e) = SubSeq(e, 1, 2)
  BY <1>2 DEF topicFromEventType
<1>4. /\ DOMAIN SubSeq(e, 1, 2) = 1 .. 2
      /\ SubSeq(e, 1, 2)[1] = e[1] /\ SubSeq(e, 1, 2)[2] = e[2]
  BY <1>2, SubSeqProperties
<1>. QED  BY <1>1, <1>3, <1>4 DEF IsDLQTopic

\* Registering the dead-letter type of a registered event type, which is what
\* a validating publisher needs to let the copy through, adds no topic that a
\* service created from KnownTopics would have to have.
THEOREM CopiesNeedNoTopic ==
  ASSUME NEW R \in SUBSET Seq(Segment), "dlq" \in Segment,
         NEW e \in R, ValidateEventType(e)
  PROVE  KnownTopics(R \cup {DLQType(e)}) = KnownTopics(R)
BY DLQStaysOnTopic DEF KnownTopics

\* The first two segments are all that a copy shares with its event, and all that
\* names a topic.
LEMMA CopyKeepsTopic ==
  ASSUME NEW e \in Seq(Segment), "dlq" \in Segment, ValidateEventType(DLQType(e))
  PROVE  topicFromEventType(DLQType(e)) = topicFromEventType(e)
<1>. DEFINE d == DLQType(e)
<1>1. d \in Seq(Segment) /\ Len(d) = Len(e) + 1 /\ Len(e) \in Nat /\ Len(e) >= 2
  BY AppendProperties DEF DLQType, ValidateEventType
<1>2. d[1] = e[1] /\ d[2] = e[2]
  BY <1>1, AppendProperties DEF DLQType
<1>. HIDE DEF d
<1>3. /\ SubSeq(d, 1, 2) \in Seq(Segment) /\ SubSeq(e, 1, 2) \in Seq(Segment)
      /\ Len(SubSeq(d, 1, 2)) = 2 /\ Len(SubSeq(e, 1, 2)) = 2
      /\ \A i \in 1 .. 2 : SubSeq(d, 1, 2)[i] = d[i] /\ SubSeq(e, 1, 2)[i] = e[i]
  BY <1>1, SubSeqProperties
<1>4. SubSeq(d, 1, 2) = SubSeq(e, 1, 2)
  BY <1>2, <1>3, SeqEqual
<1>5. topicFromEventType(d) = SubSeq(e, 1, 2) /\ topicFromEventType(e) = SubSeq(e, 1, 2)
  BY <1>1, <1>4 DEF topicFromEventType
<1>. QED  BY <1>5 DEF d

\* One suffix more.
LEMMA CopyIsDeeper ==
  ASSUME NEW e \in Seq(Segment), "dlq" \in Segment PROVE Depth(DLQType(e)) <= Depth(e) + 1
<1>1. Len(DLQType(e)) = Len(e) + 1 /\ Len(e) \in Nat
  BY AppendProperties DEF DLQType
<1>. QED  BY <1>1 DEF Depth

-----------------------------------------------------------------------------
(* The invariant.                                                           *)

\* The type of a record is what names its topic; only other producers write what
\* is no event, and of handled types; a copy is of a record that was given up.
RecordFits(p, o) ==
  /\ topicFromEventType(RecordAt(p, o).type) = TopicOf[p]
  /\ RecordAt(p, o).shape \in {"mistyped", "garbage"} => RecordAt(p, o).type \in Handled
  /\ RecordAt(p, o).origin # Original =>
       /\ RecordAt(p, o).origin[2] \in Below(Len(log[RecordAt(p, o).origin[1]]))
       /\ GivenToDeadLetter(RecordAt(p, o).origin[1], RecordAt(p, o).origin[2])
       /\ TopicOf[RecordAt(p, o).origin[1]] = TopicOf[p]
       /\ \E e \in Handled : RecordAt(p, o).type = DLQType(e)

RecordsFit == \A p \in Partitions : \A o \in Below(Len(log[p])) : RecordFits(p, o)

\* A request is on its way only for a record that was given up, and whose copy the
\* publisher let through.
MayCopy(p, o) ==
  /\ GivenToDeadLetter(p, o)
  /\ RecordAt(p, o).type \in Handled /\ ~CopyRefused(RecordAt(p, o))

Requested ==
  \A p \in Partitions : \A o \in Below(Len(log[p])) : flying[p][o + 1] > 0 => MayCopy(p, o)

HandlersKnown == \A m \in Members : handlers[m] \subseteq Handled

\* Only events with a handler are handled, and with them garbage given up.
Trying == {"handle", "deadLetter", "sending"}

Handling(m, t) == pc[m][t] \in Trying => Record(m, t).type \in Handled

HeldHandled == \A m \in Members, t \in Topics : Handling(m, t)

CountIn(f, p, o) == IF o + 1 \in DOMAIN f[p] THEN f[p][o + 1] ELSE 0

InFlight(p, o) == CountIn(flying, p, o)

\* Every copy, and every request that may still make one, has its decision.
CopyCounted(p, o) ==
  /\ IsFiniteSet(CopiesOf(p, o))
  /\ Cardinality(CopiesOf(p, o)) + InFlight(p, o) <= WriteAttempts * Decided(p, o)

CopiesCounted == \A p \in Partitions : \A o \in Nat : CopyCounted(p, o)

BusTypeOK ==
  /\ outages \in Nat
  /\ flying \in [Partitions -> Seq(Nat)]
  /\ \A p \in Partitions : Len(flying[p]) = Len(log[p])

BusInv == IInv /\ PagesInv /\ BusTypeOK /\ RecordsFit /\ Requested /\ HandlersKnown /\ HeldHandled
          /\ CopiesCounted /\ SoundSurvives

-----------------------------------------------------------------------------
(* Counting requests.                                                       *)

Longer(f, p) == [f EXCEPT ![p] = Append(@, 0)]
Changed(f, q, i, n) == [f EXCEPT ![q] = [f[q] EXCEPT ![i + 1] = n]]

LEMMA CountAppend ==
  ASSUME NEW f \in [Partitions -> Seq(Nat)], NEW p \in Partitions,
         NEW g, g = Longer(f, p)
  PROVE  /\ g \in [Partitions -> Seq(Nat)]
         /\ \A x \in Partitions : Len(g[x]) = IF x = p THEN Len(f[x]) + 1 ELSE Len(f[x])
         /\ \A x \in Partitions : \A y \in Nat : CountIn(g, x, y) = CountIn(f, x, y)
<1>1. f[p] \in Seq(Nat) /\ Append(f[p], 0) \in Seq(Nat) /\ Len(f[p]) \in Nat
  BY AppendProperties
<1>2. /\ g \in [Partitions -> Seq(Nat)] /\ g[p] = Append(f[p], 0)
      /\ \A x \in Partitions : x # p => g[x] = f[x]
  BY <1>1 DEF Longer
<1>3. /\ Len(g[p]) = Len(f[p]) + 1 /\ DOMAIN f[p] = 1 .. Len(f[p])
      /\ DOMAIN g[p] = 1 .. Len(f[p]) + 1
      /\ \A j \in 1 .. Len(f[p]) : g[p][j] = f[p][j]
      /\ g[p][Len(f[p]) + 1] = 0
  BY <1>1, <1>2, AppendProperties
<1>4. ASSUME NEW y \in Nat PROVE CountIn(g, p, y) = CountIn(f, p, y)
  BY <1>1, <1>3 DEF CountIn
<1>. QED  BY <1>2, <1>3, <1>4 DEF CountIn

\* g counts what f counts, but n for record i of q.
CountsAs(f, q, i, n, g) ==
  /\ g \in [Partitions -> Seq(Nat)]
  /\ \A x \in Partitions : Len(g[x]) = Len(f[x])
  /\ \A x \in Partitions : \A y \in Nat :
       CountIn(g, x, y) = IF x = q /\ y = i THEN n ELSE CountIn(f, x, y)

LEMMA CountChange ==
  ASSUME NEW f \in [Partitions -> Seq(Nat)], NEW q \in Partitions, NEW i \in Nat, i < Len(f[q]),
         NEW n \in Nat
  PROVE  CountsAs(f, q, i, n, Changed(f, q, i, n))
<1>0. PICK g : g = Changed(f, q, i, n)
  OBVIOUS
<1>1. f[q] \in Seq(Nat) /\ Len(f[q]) \in Nat /\ i + 1 \in 1 .. Len(f[q]) /\ DOMAIN f[q] = 1 .. Len(f[q])
  OBVIOUS
<1>. DEFINE s == [f[q] EXCEPT ![i + 1] = n]
<1>2. /\ s \in Seq(Nat) /\ Len(s) = Len(f[q]) /\ DOMAIN s = DOMAIN f[q]
      /\ \A j \in DOMAIN s : s[j] = IF j = i + 1 THEN n ELSE f[q][j]
  BY <1>1
<1>. HIDE DEF s
<1>3. /\ g \in [Partitions -> Seq(Nat)] /\ g[q] = s
      /\ \A x \in Partitions : x # q => g[x] = f[x]
  BY <1>0, <1>2 DEF s, Changed
<1>4. ASSUME NEW y \in Nat PROVE CountIn(g, q, y) = IF y = i THEN n ELSE CountIn(f, q, y)
  <2>1. CASE y + 1 \in DOMAIN s
    <3>1. g[q][y + 1] = IF y + 1 = i + 1 THEN n ELSE f[q][y + 1]
      BY <1>2, <1>3, <2>1
    <3>2. CountIn(g, q, y) = g[q][y + 1] /\ CountIn(f, q, y) = f[q][y + 1]
      BY <1>2, <1>3, <2>1 DEF CountIn
    <3>. QED  BY <3>1, <3>2
  <2>2. CASE y + 1 \notin DOMAIN s
    <3>1. CountIn(g, q, y) = 0 /\ CountIn(f, q, y) = 0 /\ y # i
      BY <1>1, <1>2, <1>3, <2>2 DEF CountIn
    <3>. QED  BY <3>1
  <2>. QED  BY <2>1, <2>2
<1>5. CountsAs(f, q, i, n, g)
  BY <1>2, <1>3, <1>4 DEF CountIn, CountsAs
<1>. QED  BY <1>0, <1>5, Zenon

-----------------------------------------------------------------------------
(* A step of the bus is a step of the group.                                *)

Writes(p, r) ==
  /\ Len(log[p]) < MaxLog
  /\ log' = [log EXCEPT ![p] = Append(@, r)]
  /\ deliveries' = [deliveries EXCEPT ![p] = Append(@, 0)]
  /\ verdicts' = [verdicts EXCEPT ![p] = Append(@, 0)]

\* What is on its way after a write that used one request for each x and y with U(x, y).
Spends(origin) ==
  /\ flying' \in [Partitions -> Seq(Nat)]
  /\ \A x \in Partitions : Len(flying'[x]) = Len(log'[x])
  /\ \A x \in Partitions : \A y \in Nat :
       InFlight(x, y)' = IF origin = <<x, y>> THEN InFlight(x, y) - 1 ELSE InFlight(x, y)

LEMMA WriteAppends ==
  ASSUME IInv, BusTypeOK, NEW e \in EventTypes, NEW shape \in Shapes,
         NEW origin \in (Partitions \X Below(MaxLog)) \cup {Original},
         origin # Original => origin[2] < Len(log[origin[1]]) /\ InFlight(origin[1], origin[2]) > 0,
         Write(e, shape, origin)
  PROVE  /\ Event(e, shape, origin) \in Messages /\ Spends(origin)
         /\ \E p \in Partitions : TopicOf[p] = topicFromEventType(e) /\ Writes(p, Event(e, shape, origin))
<1>1. PICK r : r = Event(e, shape, origin)
  OBVIOUS
<1>2. r \in Messages
  BY <1>1, BusAssumption DEF Event
<1>3. PICK p \in Partitions :
        /\ TopicOf[p] = topicFromEventType(e) /\ Writes(p, r)
        /\ flying' = [q \in Partitions |-> LET spent == [flying EXCEPT ![p] = Append(@, 0)] IN
                       IF origin # Original /\ q = origin[1]
                       THEN [spent[q] EXCEPT ![origin[2] + 1] = @ - 1] ELSE spent[q]]
  BY <1>1 DEF Write, Writes, Stored
<1>4. PICK g : g = Longer(flying, p)
  OBVIOUS
<1>a. flying \in [Partitions -> Seq(Nat)] /\ g = [flying EXCEPT ![p] = Append(@, 0)]
  BY <1>4 DEF BusTypeOK, Longer
<1>5. /\ g \in [Partitions -> Seq(Nat)]
      /\ \A x \in Partitions : Len(g[x]) = IF x = p THEN Len(flying[x]) + 1 ELSE Len(flying[x])
      /\ \A x \in Partitions : \A y \in Nat : CountIn(g, x, y) = InFlight(x, y)
  BY <1>4, <1>a, CountAppend DEF InFlight
<1>6. \A x \in Partitions : Len(g[x]) = Len(log'[x])
  <2>1. /\ log \in [Partitions -> Seq(Messages)]
        /\ \A x \in Partitions : Len(flying[x]) = Len(log[x])
    BY DEF IInv, TypeOK, BrokerTypeOK, BusTypeOK
  <2>2. \A x \in Partitions : Len(log'[x]) = IF x = p THEN Len(log[x]) + 1 ELSE Len(log[x])
    BY <1>2, <1>3, <2>1 DEF Writes
  <2>. QED  BY <1>5, <2>1, <2>2
<1>7. CASE origin = Original
  <2>1. flying' = g
    BY <1>3, <1>a, <1>5, <1>7
  <2>2. \A x \in Partitions : \A y \in Nat : origin # <<x, y>>
    BY <1>7 DEF Original
  <2>3. \A x \in Partitions : \A y \in Nat : InFlight(x, y)' = CountIn(g, x, y)
    BY <2>1 DEF InFlight, CountIn
  <2>. QED  BY <1>1, <1>2, <1>3, <1>5, <1>6, <2>1, <2>2, <2>3 DEF Spends
<1>8. CASE origin # Original
  <2>1. PICK q \in Partitions, i \in Below(MaxLog) : origin = <<q, i>>
    BY <1>8
  <2>2. /\ origin[1] = q /\ origin[2] = i /\ i \in Nat /\ i < Len(g[q])
    BY <1>5, <1>8, <2>1, ConsumerAssumption DEF Below, BusTypeOK
  <2>3. g[q][i + 1] = InFlight(q, i) /\ InFlight(q, i) \in Nat /\ InFlight(q, i) > 0
    <3>1. g[q] \in Seq(Nat) /\ i + 1 \in DOMAIN g[q]
      BY <1>5, <2>2
    <3>2. CountIn(g, q, i) = g[q][i + 1] /\ CountIn(g, q, i) \in Nat
      BY <3>1 DEF CountIn
    <3>. QED  BY <1>5, <1>8, <2>2, <3>2
  <2>4. PICK n \in Nat : n = InFlight(q, i) - 1
    BY <2>3
  <2>5. flying' = Changed(g, q, i, n)
    <3>1. flying' = [x \in Partitions |-> IF x = q THEN [g[x] EXCEPT ![i + 1] = @ - 1] ELSE g[x]]
      BY <1>3, <1>a, <1>8, <2>2
    <3>. QED  BY <1>5, <2>3, <2>4, <3>1 DEF Changed
  <2>6. PICK h : h = flying'
    OBVIOUS
  <2>8. /\ h \in [Partitions -> Seq(Nat)]
        /\ \A x \in Partitions : Len(h[x]) = Len(g[x])
        /\ \A x \in Partitions : \A y \in Nat :
             CountIn(h, x, y) = IF x = q /\ y = i THEN n ELSE CountIn(g, x, y)
    <3>1. /\ g \in [Partitions -> Seq(Nat)] /\ q \in Partitions /\ i \in Nat /\ i < Len(g[q]) /\ n \in Nat
          /\ h = Changed(g, q, i, n)
      BY <1>5, <2>1, <2>2, <2>4, <2>5, <2>6, Zenon
    <3>2. CountsAs(g, q, i, n, h)
      BY <3>1, CountChange, Zenon
    <3>. QED  BY <3>2 DEF CountsAs
  <2>7. ASSUME NEW x \in Partitions, NEW y \in Nat
        PROVE  InFlight(x, y)' = IF origin = <<x, y>> THEN InFlight(x, y) - 1 ELSE InFlight(x, y)
    <3>1. InFlight(x, y)' = CountIn(h, x, y)
      BY <2>6 DEF InFlight, CountIn
    <3>2. origin = <<x, y>> <=> x = q /\ y = i
      BY <2>1
    <3>. QED  BY <1>5, <2>4, <2>8, <3>1, <3>2
  <2>. QED  BY <1>1, <1>2, <1>3, <1>6, <2>6, <2>7, <2>8 DEF Spends
<1>. QED  BY <1>7, <1>8

\* A record of the log.
LEMMA RecordType ==
  ASSUME IInv, NEW p \in Partitions, NEW o \in Below(Len(log[p]))
  PROVE  /\ RecordAt(p, o) \in Messages /\ RecordAt(p, o).type \in EventTypes
         /\ RecordAt(p, o).type \in Seq(Segment) /\ TypeOf[RecordAt(p, o)] = RecordAt(p, o).type
         /\ RecordAt(p, o).shape \in Shapes
         /\ RecordAt(p, o).origin \in (Partitions \X Below(MaxLog)) \cup {Original}
         /\ RecordAt(p, o) \in Malformed <=> RecordAt(p, o).shape \in {"mistyped", "garbage"}
<1>1. log[p] \in Seq(Messages) /\ o + 1 \in 1 .. Len(log[p])
  BY DEF IInv, TypeOK, BrokerTypeOK, Below
<1>2. RecordAt(p, o) \in Messages
  BY <1>1 DEF RecordAt
<1>. HIDE DEF RecordAt
<1>. QED  BY <1>2, BusAssumption

\* The record that a goroutine holds.
LEMMA HeldRecord ==
  ASSUME IInv, NEW m \in Members, NEW t \in Topics, pc[m][t] \in Busy,
         NEW q, NEW i, q = PartOf(m, t), i = OffsetOf(m, t)
  PROVE  /\ cur[m][t] = <<q, i>> /\ q \in Partitions /\ TopicOf[q] = t
         /\ i \in Nat /\ i \in Below(Len(log[q])) /\ Record(m, t) = RecordAt(q, i)
<1>1. /\ cur[m][t] \in Partitions \X Nat /\ OffsetOf(m, t) < Len(log[PartOf(m, t)])
      /\ TopicOf[PartOf(m, t)] = t
  BY DEF IInv, TypeOK, HeldInLog, HeldAfterSettled
<1>2. cur[m][t] = <<q, i>> /\ q \in Partitions /\ TopicOf[q] = t /\ i \in Nat /\ i < Len(log[q])
  BY <1>1 DEF PartOf, OffsetOf
<1>3. Len(log[q]) \in Nat
  BY <1>2 DEF IInv, TypeOK, BrokerTypeOK
<1>. QED  BY <1>2, <1>3 DEF Below, Record, RecordAt

\* What a request stores is a copy of the record, under the name of its event.
LEMMA CopyFacts ==
  ASSUME BusInv, NEW q \in Partitions, NEW i \in Below(Len(log[q])), StoreCopy(q, i)
  PROVE  /\ MayCopy(q, i) /\ Spends(<<q, i>>) /\ i \in Nat /\ InFlight(q, i) > 0
         /\ \E p \in Partitions, r \in Messages :
              /\ Writes(p, r) /\ r.origin = <<q, i>> /\ r.shape \in {"sound", "wrecked"}
              /\ RecordAt(q, i).type \in Handled /\ r.type = DLQType(RecordAt(q, i).type)
              /\ topicFromEventType(r.type) = TopicOf[p] /\ TopicOf[p] = TopicOf[q]
              /\ PublisherValidates => r.type \in Registered
<1>1. PICK r0 : r0 = RecordAt(q, i)
  OBVIOUS
<1>2. /\ IInv /\ BusTypeOK /\ i \in Nat /\ i < Len(log[q]) /\ i \in Below(MaxLog)
      /\ flying[q][i + 1] > 0 /\ InFlight(q, i) > 0
  <2>1. /\ IInv /\ BusTypeOK /\ Len(log[q]) <= MaxLog /\ Len(log[q]) \in Nat /\ MaxLog \in Nat
        /\ flying[q] \in Seq(Nat) /\ Len(flying[q]) = Len(log[q])
    BY ConsumerAssumption DEF BusInv, PagesInv, WithinMax, IInv, TypeOK, BrokerTypeOK, BusTypeOK
  <2>2. flying[q][i + 1] > 0
    BY DEF StoreCopy
  <2>3. i + 1 \in DOMAIN flying[q]
    BY <2>1 DEF Below
  <2>. QED  BY <2>1, <2>2, <2>3 DEF Below, InFlight, CountIn
<1>3. MayCopy(q, i)
  BY <1>2 DEF BusInv, Requested
<1>4. /\ r0.type \in Handled /\ r0.type \in Seq(Segment) /\ topicFromEventType(r0.type) = TopicOf[q]
      /\ ~CopyRefused(r0)
  BY <1>1, <1>2, <1>3, RecordType DEF BusInv, RecordsFit, RecordFits, MayCopy
<1>5. PICK shape : shape = CopyShape(r0)
  OBVIOUS
<1>6. shape \in {"sound", "wrecked"} /\ shape \in Shapes /\ ~Refuses(CopyType(r0), shape)
  BY <1>4, <1>5 DEF CopyShape, Shapes, CopyRefused
<1>7. CopyType(r0) = DLQType(r0.type) /\ ValidateEventType(DLQType(r0.type))
  <2>1. Len(DLQType(<<"unknown">>)) = 2
    BY DEF DLQType
  <2>2. ValidateEventType(CopyType(r0))
    BY <1>6 DEF Refuses
  <2>3. ASSUME r0.shape = "garbage" PROVE FALSE
    <3>1. CopyType(r0) = DLQType(<<"unknown">>)
      BY <2>3 DEF CopyType, FailedType
    <3>2. Len(CopyType(r0)) = 2 /\ Len(CopyType(r0)) >= 3
      BY <2>1, <2>2, <3>1 DEF ValidateEventType
    <3>. QED  BY <3>2
  <2>. QED  BY <2>2, <2>3 DEF CopyType, FailedType
<1>8. DLQType(r0.type) \in EventTypes /\ topicFromEventType(DLQType(r0.type)) = TopicOf[q]
  BY <1>4, <1>7, BusAssumption, CopyKeepsTopic
<1>9. PICK r, origin : origin = <<q, i>> /\ r = Event(DLQType(r0.type), shape, origin)
  OBVIOUS
<1>10. r.type = DLQType(r0.type) /\ r.shape = shape /\ r.origin = <<q, i>>
  BY <1>9 DEF Event
<1>11. /\ r \in Messages /\ Spends(<<q, i>>)
       /\ \E p \in Partitions : TopicOf[p] = topicFromEventType(r.type) /\ Writes(p, r)
  <2>1. Write(DLQType(r0.type), shape, origin)
    BY <1>1, <1>5, <1>7, <1>9 DEF StoreCopy
  <2>2. origin \in (Partitions \X Below(MaxLog)) \cup {Original} /\ origin[1] = q /\ origin[2] = i
    BY <1>2, <1>9
  <2>. QED  BY <1>2, <1>6, <1>8, <1>9, <1>10, <2>1, <2>2, WriteAppends
<1>12. PublisherValidates => r.type \in Registered
  BY <1>6, <1>7, <1>10 DEF Refuses, PayloadRefused
<1>. QED  BY <1>1, <1>2, <1>3, <1>4, <1>6, <1>8, <1>10, <1>11, <1>12

\* What Publish writes, and what other producers write.
Published ==
  /\ \E p \in Partitions, r \in Messages :
       /\ Writes(p, r) /\ r.origin = Original /\ topicFromEventType(r.type) = TopicOf[p]
       /\ r.shape \in {"mistyped", "garbage"} => r.type \in Handled
  /\ Spends(Original)
  /\ UNCHANGED <<committed, owner, member, position, health, worker, fate, disruptions, lost, outages>>

LEMMA PublishKinds == IInv /\ BusTypeOK /\ PublishStep => Published
<1>1. ASSUME IInv, BusTypeOK, NEW e \in EventTypes, NEW shape \in Shapes, Write(e, shape, Original),
             shape \in {"mistyped", "garbage"} => e \in Handled
      PROVE  /\ Spends(Original)
             /\ \E p \in Partitions, r \in Messages :
                  /\ Writes(p, r) /\ r.origin = Original /\ topicFromEventType(r.type) = TopicOf[p]
                  /\ r.shape \in {"mistyped", "garbage"} => r.type \in Handled
  <2>1. PICK r : r = Event(e, shape, Original)
    OBVIOUS
  <2>2. r.type = e /\ r.shape = shape /\ r.origin = Original
    BY <2>1 DEF Event
  <2>3. /\ r \in Messages /\ Spends(Original)
        /\ \E p \in Partitions : TopicOf[p] = topicFromEventType(e) /\ Writes(p, r)
    <3>1. Original \in (Partitions \X Below(MaxLog)) \cup {Original}
      OBVIOUS
    <3>. QED  BY <1>1, <2>1, <3>1, WriteAppends
  <2>. QED  BY <1>1, <2>2, <2>3
<1>2. ASSUME IInv, BusTypeOK, NEW e \in Outgoing, NEW shape \in {"sound", "odd"}, PublishWritten(e, shape)
      PROVE  Published
  <2>1. e \in EventTypes /\ shape \in Shapes /\ shape \notin {"mistyped", "garbage"}
    BY BusAssumption DEF Shapes
  <2>2. Write(e, shape, Original) /\ NothingElse
    BY <1>2 DEF PublishWritten
  <2>. QED  BY <1>1, <1>2, <2>1, <2>2, Zenon DEF NothingElse, Published
<1>3. ASSUME IInv, BusTypeOK, NEW e \in Handled, NEW shape \in Foreign, ForeignWrite(e, shape)
      PROVE  Published
  <2>1. e \in EventTypes /\ shape \in Shapes
    BY BusAssumption, ConsumerAssumption
  <2>2. Write(e, shape, Original) /\ NothingElse
    BY <1>3 DEF ForeignWrite
  <2>. QED  BY <1>1, <1>3, <2>1, <2>2, Zenon DEF NothingElse, Published
<1>. QED  BY <1>2, <1>3 DEF PublishStep

LEMMA WritesGrow == ASSUME NEW p \in Partitions, NEW r \in Messages, Writes(p, r) PROVE Grows
BY DEF Writes, Grows

LEMMA StoredGrows ==
  ASSUME BusInv, NEW q \in Partitions, NEW i \in Below(Len(log[q])), StoreCopy(q, i)
  PROVE  Appended /\ UNCHANGED <<lost, outages>>
<1>1. Grows
  BY CopyFacts, WritesGrow
<1>. QED  BY <1>1 DEF StoreCopy, NothingElse, Appended

\* What the goroutine learns of its copy.
Answered(m, t) == CopyWritten(m, t) \/ CopyIsRefused(m, t) \/ CopyFails(m, t)

LEMMA AnswerFacts ==
  ASSUME NEW m \in Members, NEW t \in Topics, Answered(m, t)
  PROVE  /\ DeadLetterReturns(m, t) /\ Mark(m, t, "deadLettered") /\ pc[m][t] = "sending"
         /\ pc[m][t] \in Busy
         /\ UNCHANGED <<flying, log, deliveries, verdicts, cur, disruptions>>
<1>1. DeadLetterReturns(m, t) /\ UNCHANGED flying
  BY DEF Answered, CopyWritten, CopyIsRefused, CopyFails, CopyLost, copyVars
<1>. QED  BY <1>1, BusAssumption DEF DeadLetterReturns, broker, Busy

\* One of six things happens.
LEMMA BusKinds ==
  ASSUME BusInv, [BusNext]_busVars
  PROVE  \/ Published \/ ConsumerStep \/ UNCHANGED busVars
         \/ \E m \in Members, t \in Topics : SendCopy(m, t)
         \/ \E m \in Members, t \in Topics : Answered(m, t)
         \/ \E q \in Partitions : \E i \in Below(Len(log[q])) : StoreCopy(q, i)
<1>1. PublishStep => Published
  BY PublishKinds DEF BusInv
<1>2. CopyStep => \/ \E m \in Members, t \in Topics : SendCopy(m, t) \/ Answered(m, t)
                  \/ \E q \in Partitions : \E i \in Below(Len(log[q])) : StoreCopy(q, i)
  BY Zenon DEF CopyStep, Answered
<1>. QED  BY <1>1, <1>2 DEF BusNext

LEMMA BusIsGroupStep == BusInv /\ [BusNext]_busVars => [GroupStep]_vars
<1>. SUFFICES ASSUME BusInv, [BusNext]_busVars PROVE [GroupStep]_vars
  OBVIOUS
<1>1. CASE Published
  <2>1. Grows
    BY <1>1, WritesGrow DEF Published
  <2>. QED  BY <1>1, <2>1, Zenon DEF Published, Appended, GroupStep
<1>2. CASE ConsumerStep
  BY <1>2, Zenon DEF ConsumerStep, GroupStep
<1>3. ASSUME NEW m \in Members, NEW t \in Topics, SendCopy(m, t) \/ Answered(m, t) PROVE GroupStep
  <2>1. GiveUp(m, t)
    BY <1>3, AnswerFacts DEF SendCopy, GiveUp
  <2>. QED  BY <2>1 DEF GroupStep
<1>4. ASSUME NEW q \in Partitions, NEW i \in Below(Len(log[q])), StoreCopy(q, i) PROVE GroupStep
  BY <1>4, StoredGrows DEF GroupStep
<1>5. CASE UNCHANGED busVars
  BY <1>5 DEF busVars
<1>. QED  BY <1>1, <1>2, <1>3, <1>4, <1>5, BusKinds

\* Only AsHandler dead-letters.
LEMMA ConsumerSettles ==
  ASSUME IInv, ConsumerStep
  PROVE  /\ UNCHANGED <<log, copyVars>>
         /\ \A p \in Partitions : \A o : <<o, "deadLettered">> \in fate'[p] => <<o, "deadLettered">> \in fate[p]
<1>. USE DEF broker, member, worker, history, vars
<1>1. fate \in [Partitions -> SUBSET (Nat \X Fates)]
  BY DEF IInv, TypeOK, HistoryTypeOK
<1>2. UNCHANGED copyVars
  BY DEF ConsumerStep
<1>3. ASSUME NEW m \in Members, NEW t \in Topics, Consume(m, t)
      PROVE  /\ UNCHANGED log
             /\ \/ UNCHANGED fate
                \/ \E q, i, f : f \in {"handled", "unhandled"} /\ fate' = [fate EXCEPT ![q] = @ \cup {<<i, f>>}]
  <2>1. ASSUME NEW p \in Partitions, Fetch(m, t, p) PROVE UNCHANGED <<log, fate>>
    BY <2>1, Zenon DEF Fetch
  <2>2. CASE FetchFails(m, t) \/ StopConsuming(m, t) \/ RejectMalformed(m, t) \/ RejectInvalid(m, t)
             \/ BeginHandling(m, t) \/ HandlerFails(m, t) \/ Report(m, t) \/ CommitApplied(m, t) \/ CommitFails(m, t)
    BY <2>2, Zenon DEF FetchFails, StopConsuming, RejectMalformed, RejectInvalid, BeginHandling,
                       HandlerFails, Report, CommitApplied, CommitFails, Committing
  <2>3. CASE SkipUnhandled(m, t)
    <3>1. UNCHANGED log /\ fate' = [fate EXCEPT ![PartOf(m, t)] = @ \cup {<<OffsetOf(m, t), "unhandled">>}]
      BY <2>3, Zenon DEF SkipUnhandled, Mark
    <3>. QED  BY <3>1
  <2>4. CASE HandlerSucceeds(m, t)
    <3>1. UNCHANGED log /\ fate' = [fate EXCEPT ![PartOf(m, t)] = @ \cup {<<OffsetOf(m, t), "handled">>}]
      BY <2>4, Zenon DEF HandlerSucceeds, Mark
    <3>. QED  BY <3>1
  <2>. QED  BY <1>3, <2>1, <2>2, <2>3, <2>4 DEF Consume
<1>4. ASSUME NEW q, NEW more, fate' = [fate EXCEPT ![q] = @ \cup more],
             \A g \in more : g[2] # "deadLettered"
      PROVE  \A p \in Partitions : \A o : <<o, "deadLettered">> \in fate'[p] => <<o, "deadLettered">> \in fate[p]
  <2>. SUFFICES ASSUME NEW p \in Partitions, NEW o, <<o, "deadLettered">> \in fate'[p]
                PROVE  <<o, "deadLettered">> \in fate[p]
    OBVIOUS
  <2>1. <<o, "deadLettered">> \in fate[p] \/ <<o, "deadLettered">> \in more
    BY <1>1, <1>4
  <2>2. <<o, "deadLettered">>[2] = "deadLettered"
    OBVIOUS
  <2>. QED  BY <1>4, <2>1, <2>2
<1>5. ASSUME NEW m \in Members, NEW q \in Partitions, Assign(m, q)
      PROVE  /\ UNCHANGED log
             /\ \A p \in Partitions : \A o : <<o, "deadLettered">> \in fate'[p] => <<o, "deadLettered">> \in fate[p]
  <2>. DEFINE back == {<<o, "skippedAtStart">> : o \in Below(Len(log[q]))}
  <2>1. UNCHANGED log /\ (UNCHANGED fate \/ fate' = [fate EXCEPT ![q] = @ \cup back])
    BY <1>5, Zenon DEF Assign
  <2>2. \A g \in back : g[2] # "deadLettered"
    OBVIOUS
  <2>. HIDE DEF back
  <2>. QED  BY <1>4, <2>1, <2>2
<1>6. ASSUME LifeStep \/ \E p \in Partitions : Revoke(p) PROVE UNCHANGED <<log, fate>>
  BY <1>6, Zenon DEF LifeStep, Revoke, Subscribe, Start, Cancel, Close, StartReturns, Crash, Restart, Fresh
<1>7. ASSUME NEW m \in Members, NEW t \in Topics, Consume(m, t)
      PROVE  /\ UNCHANGED log
             /\ \A p \in Partitions : \A o : <<o, "deadLettered">> \in fate'[p] => <<o, "deadLettered">> \in fate[p]
  <2>1. CASE UNCHANGED fate
    BY <1>3, <1>7, <2>1
  <2>2. ASSUME NEW q, NEW i, NEW f, f \in {"handled", "unhandled"},
               fate' = [fate EXCEPT ![q] = @ \cup {<<i, f>>}]
        PROVE  \A p \in Partitions : \A o : <<o, "deadLettered">> \in fate'[p] => <<o, "deadLettered">> \in fate[p]
    <3>1. \A g \in {<<i, f>>} : g[2] # "deadLettered"
      BY <2>2
    <3>. QED  BY <1>4, <2>2, <3>1
  <2>. QED  BY <1>3, <1>7, <2>1, <2>2
<1>. QED  BY <1>2, <1>5, <1>6, <1>7 DEF ConsumerStep

-----------------------------------------------------------------------------
(* Which records are handled.                                               *)

LEMMA HandlersInv == IInv /\ HandlersKnown /\ [GroupStep]_vars => HandlersKnown'
<1>. SUFFICES ASSUME IInv, HandlersKnown, [GroupStep]_vars PROVE HandlersKnown'
  OBVIOUS
<1>. USE DEF broker, member, worker, history, vars
<1>1. handlers \in [Members -> SUBSET EventTypes]
  BY DEF IInv, TypeOK, MemberTypeOK
<1>2. ASSUME NEW m \in Members, NEW t \in Topics, Consume(m, t) \/ GiveUp(m, t)
      PROVE  UNCHANGED handlers
  BY <1>2, Zenon DEF Consume, GiveUp, DeadLetter, DeadLetterReturns, Fetch, FetchFails, StopConsuming,
      RejectMalformed, SkipUnhandled, RejectInvalid, BeginHandling, HandlerSucceeds, HandlerFails,
      Report, CommitApplied, CommitFails, Committing
<1>3. ASSUME NEW p \in Partitions, Revoke(p) \/ \E m \in Members : Assign(m, p) PROVE UNCHANGED handlers
  BY <1>3, Zenon DEF Revoke, Assign
<1>4. ASSUME NEW m \in Members, NEW e \in Handled, Subscribe(m, e) PROVE HandlersKnown'
  BY <1>1, <1>4 DEF Subscribe, HandlersKnown
<1>5. ASSUME NEW m \in Members, Start(m) \/ Cancel(m) \/ Close(m) \/ StartReturns(m)
      PROVE  UNCHANGED handlers
  BY <1>5, Zenon DEF Start, Cancel, Close, StartReturns
<1>6. ASSUME NEW m \in Members, Crash(m) \/ Restart(m) PROVE HandlersKnown'
  <2>1. handlers' = [handlers EXCEPT ![m] = {}]
    BY <1>6, Zenon DEF Crash, Restart, Fresh
  <2>. QED  BY <1>1, <2>1 DEF HandlersKnown
<1>7. UNCHANGED handlers => HandlersKnown'
  BY DEF HandlersKnown
<1>8. CASE Appended \/ UNCHANGED vars
  BY <1>7, <1>8, Zenon DEF Appended
<1>. QED  BY <1>2, <1>3, <1>4, <1>5, <1>6, <1>7, <1>8, Zenon DEF GroupStep, LifeStep

\* A goroutine gets to the handlers, or gives up, only from dispatch and with a
\* record that it could not decode or has a handler for.
Turns(n, u) ==
  /\ cur'[n][u] = cur[n][u] /\ pc[n][u] \in Busy
  /\ \/ pc[n][u] \in Trying
     \/ Record(n, u) \in Malformed
     \/ TypeOf[Record(n, u)] \in handlers[n]

LEMMA TurnKinds ==
  ASSUME IInv, [GroupStep]_vars, NEW n \in Members, NEW u \in Topics,
         pc'[n][u] \in Trying
  PROVE  Turns(n, u)
<1>. USE DEF broker, member, worker, history, vars
<1>0. /\ pc \in [Members -> [Topics -> PCs]]
      /\ cur \in [Members -> [Topics -> (Partitions \X Nat) \cup {NoMsg}]]
  BY DEF IInv, TypeOK, GoroutineTypeOK
<1>1. ASSUME pc'[n][u] = pc[n][u], cur'[n][u] = cur[n][u] PROVE Turns(n, u)
  BY <1>1 DEF Turns, Busy, Trying
<1>2. CASE UNCHANGED <<pc, cur>>
  BY <1>1, <1>2
<1>3. ASSUME NEW m \in Members, NEW t \in Topics, NEW x, NEW c, Goto(m, t, x),
             UNCHANGED cur \/ cur' = [cur EXCEPT ![m][t] = c], x \notin Trying
      PROVE  Turns(n, u)
  <2>1. ~(n = m /\ u = t)
    BY <1>0, <1>3 DEF Goto
  <2>2. pc'[n][u] = pc[n][u] /\ cur'[n][u] = cur[n][u]
    BY <1>0, <1>3, <2>1 DEF Goto
  <2>. QED  BY <1>1, <2>2
<1>4. ASSUME NEW m \in Members, NEW t \in Topics, NEW x, Goto(m, t, x), UNCHANGED cur,
             pc[m][t] \in Busy,
             \/ pc[m][t] \in Trying
             \/ Record(m, t) \in Malformed
             \/ TypeOf[Record(m, t)] \in handlers[m]
      PROVE  Turns(n, u)
  <2>1. CASE n = m /\ u = t
    BY <1>4, <2>1 DEF Turns
  <2>2. CASE ~(n = m /\ u = t)
    <3>1. pc'[n][u] = pc[n][u] /\ cur'[n][u] = cur[n][u]
      BY <1>0, <1>4, <2>2 DEF Goto
    <3>. QED  BY <1>1, <3>1
  <2>. QED  BY <2>1, <2>2
<1>5. ASSUME NEW m \in Members, NEW x \in {"fetch", "off"},
             pc' = [pc EXCEPT ![m] = [t \in Topics |-> x]],
             \A k \in Members \ {m} : cur'[k] = cur[k]
      PROVE  Turns(n, u)
  <2>1. n # m
    BY <1>0, <1>5 DEF Trying
  <2>2. pc'[n][u] = pc[n][u] /\ cur'[n][u] = cur[n][u]
    BY <1>0, <1>5, <2>1
  <2>. QED  BY <1>1, <2>2
<1>6. ASSUME NEW m \in Members, NEW t \in Topics, Consume(m, t) \/ GiveUp(m, t) PROVE Turns(n, u)
  <2>1. ASSUME NEW p \in Partitions, Fetch(m, t, p) PROVE Turns(n, u)
    <3>1. Goto(m, t, "dispatch") /\ cur' = [cur EXCEPT ![m][t] = <<p, position[m][p]>>]
      BY <2>1, Zenon DEF Fetch
    <3>. QED  BY <1>3, <3>1 DEF Trying
  <2>2. CASE FetchFails(m, t)
    BY <1>2, <2>2, Zenon DEF FetchFails
  <2>3. CASE StopConsuming(m, t) \/ SkipUnhandled(m, t) \/ HandlerSucceeds(m, t)
             \/ DeadLetterReturns(m, t) \/ Report(m, t)
    <3>1. UNCHANGED cur /\ \E x \in {"done", "commit", "report"} : Goto(m, t, x)
      BY <2>3, Zenon DEF StopConsuming, SkipUnhandled, HandlerSucceeds, DeadLetterReturns, Report
    <3>2. PICK x \in {"done", "commit", "report"} : Goto(m, t, x)
      BY <3>1
    <3>. QED  BY <1>3, <3>1, <3>2 DEF Trying
  <2>4. CASE CommitApplied(m, t) \/ CommitFails(m, t)
    <3>1. Goto(m, t, "fetch") /\ cur' = [cur EXCEPT ![m][t] = NoMsg]
      BY <2>4, Zenon DEF CommitApplied, CommitFails, Committing
    <3>. QED  BY <1>3, <3>1 DEF Trying
  <2>5. CASE RejectMalformed(m, t)
    <3>1. Goto(m, t, "deadLetter") /\ UNCHANGED cur /\ pc[m][t] = "dispatch" /\ Record(m, t) \in Malformed
      BY <2>5, Zenon DEF RejectMalformed, ToDeadLetter
    <3>. QED  BY <1>4, <3>1 DEF Busy
  <2>6. CASE RejectInvalid(m, t) \/ BeginHandling(m, t)
    <3>1. /\ Goto(m, t, "deadLetter") \/ Goto(m, t, "handle")
          /\ UNCHANGED cur /\ pc[m][t] = "dispatch" /\ TypeOf[Record(m, t)] \in handlers[m]
      BY <2>6, Zenon DEF RejectInvalid, BeginHandling, ToDeadLetter, HasHandler
    <3>. QED  BY <1>4, <3>1 DEF Busy
  <2>7. CASE HandlerFails(m, t)
    <3>1. /\ UNCHANGED pc \/ Goto(m, t, "deadLetter")
          /\ UNCHANGED cur /\ pc[m][t] = "handle"
      BY <2>7, Zenon DEF HandlerFails, ToDeadLetter
    <3>. QED  BY <1>2, <1>4, <3>1 DEF Busy, Trying
  <2>8. CASE DeadLetter(m, t)
    <3>1. Goto(m, t, "sending") /\ UNCHANGED cur /\ pc[m][t] = "deadLetter"
      BY <2>8, Zenon DEF DeadLetter
    <3>. QED  BY <1>4, <3>1 DEF Busy, Trying
  <2>. QED  BY <1>6, <2>1, <2>2, <2>3, <2>4, <2>5, <2>6, <2>7, <2>8 DEF Consume, GiveUp
<1>7. ASSUME NEW p \in Partitions, Revoke(p) \/ \E m \in Members : Assign(m, p) PROVE Turns(n, u)
  BY <1>2, <1>7, Zenon DEF Revoke, Assign
<1>8. ASSUME NEW m \in Members, Start(m) PROVE Turns(n, u)
  BY <1>5, <1>8 DEF Start
<1>9. ASSUME NEW m \in Members, Crash(m) \/ Restart(m) PROVE Turns(n, u)
  <2>1. Fresh(m)
    BY <1>9 DEF Crash, Restart
  <2>2. \A k \in Members \ {m} : cur'[k] = cur[k]
    BY <1>0, <2>1 DEF Fresh
  <2>. QED  BY <1>5, <2>1, <2>2 DEF Fresh
<1>10. ASSUME NEW m \in Members, (\E e \in Handled : Subscribe(m, e)) \/ Cancel(m) \/ Close(m) \/ StartReturns(m)
       PROVE  Turns(n, u)
  BY <1>2, <1>10, Zenon DEF Subscribe, Cancel, Close, StartReturns
<1>11. CASE Appended \/ UNCHANGED vars
  BY <1>2, <1>11, Zenon DEF Appended
<1>. QED  BY <1>6, <1>7, <1>8, <1>9, <1>10, <1>11, Zenon DEF GroupStep, LifeStep

LEMMA HandledInv ==
  ASSUME IInv, RecordsFit, HandlersKnown, HeldHandled, [GroupStep]_vars
  PROVE  HeldHandled'
<1>. SUFFICES ASSUME NEW n \in Members, NEW u \in Topics, pc'[n][u] \in Trying
              PROVE  Record(n, u)'.type \in Handled
  BY DEF HeldHandled, Handling
<1>1. Turns(n, u)
  BY TurnKinds
<1>2. PICK q, i : q = PartOf(n, u) /\ i = OffsetOf(n, u)
  OBVIOUS
<1>3. q \in Partitions /\ i \in Nat /\ i \in Below(Len(log[q])) /\ Record(n, u) = RecordAt(q, i)
  BY <1>1, <1>2, HeldRecord DEF Turns
<1>4. Record(n, u).type \in Handled
  <2>1. CASE pc[n][u] \in Trying
    BY <2>1 DEF HeldHandled, Handling
  <2>2. CASE Record(n, u) \in Malformed
    BY <1>3, <2>2, RecordType DEF RecordsFit, RecordFits
  <2>3. CASE TypeOf[Record(n, u)] \in handlers[n]
    BY <1>3, <2>3, RecordType DEF HandlersKnown
  <2>. QED  BY <1>1, <2>1, <2>2, <2>3 DEF Turns
<1>5. Record(n, u)' = Record(n, u)
  <2>1. PartOf(n, u)' = q /\ OffsetOf(n, u)' = i
    BY <1>1, <1>2 DEF Turns, PartOf, OffsetOf
  <2>2. log'[q][i + 1] = log[q][i + 1]
    BY <1>3, LogKeeps DEF LogKept
  <2>. QED  BY <1>2, <2>1, <2>2 DEF Record
<1>. QED  BY <1>4, <1>5

-----------------------------------------------------------------------------
(* Who was given to DeadLetterFunc stays so.                                *)

LEMMA GivenStays ==
  ASSUME BusInv, [BusNext]_busVars, NEW p \in Partitions, NEW o, GivenToDeadLetter(p, o)
  PROVE  GivenToDeadLetter(p, o)'
<1>. SUFFICES ASSUME ~(disruptions' > 0) PROVE GivenToDeadLetter(p, o)'
  BY DEF GivenToDeadLetter
<1>0. IInv /\ [GroupStep]_vars /\ Undisturbed /\ disruptions' \in Nat
  BY BusIsGroupStep, NextInv, ConsumerAssumption DEF BusInv, PagesInv, IInv, TypeOK, HistoryTypeOK
<1>1. disruptions = 0 /\ \A m \in Members : ~(Crash(m) \/ Restart(m))
  BY <1>0, LivesOn
<1>2. CASE <<o, "deadLettered">> \in fate[p]
  BY <1>0, <1>2, FatesGrow DEF GivenToDeadLetter
<1>3. ASSUME NEW m \in Members, NEW t \in Topics, pc[m][t] = "sending", cur[m][t] = <<p, o>>
      PROVE  GivenToDeadLetter(p, o)'
  <2>1. CASE pc'[m][t] = pc[m][t] /\ cur'[m][t] = cur[m][t]
    BY <1>3, <2>1 DEF GivenToDeadLetter
  <2>2. CASE DeadLetterReturns(m, t)
    <3>1. PartOf(m, t) = p /\ OffsetOf(m, t) = o
      BY <1>3 DEF PartOf, OffsetOf
    <3>2. fate' = [fate EXCEPT ![p] = @ \cup {<<o, "deadLettered">>}]
      BY <2>2, <3>1, BusAssumption DEF DeadLetterReturns, Mark
    <3>3. fate \in [Partitions -> SUBSET (Nat \X Fates)]
      BY <1>0 DEF IInv, TypeOK, HistoryTypeOK
    <3>4. <<o, "deadLettered">> \in fate'[p]
      BY <3>2, <3>3
    <3>. QED  BY <3>4 DEF GivenToDeadLetter
  <2>. QED  BY <1>0, <1>1, <1>3, <2>1, <2>2, SendingComes
<1>. QED  BY <1>1, <1>2, <1>3 DEF GivenToDeadLetter

LEMMA MayCopyStays ==
  ASSUME BusInv, [BusNext]_busVars, NEW p \in Partitions, NEW o \in Below(Len(log[p])), MayCopy(p, o)
  PROVE  MayCopy(p, o)'
<1>1. GivenToDeadLetter(p, o)'
  BY GivenStays DEF MayCopy
<1>2. LogKept(p)
  BY BusIsGroupStep, LogKeeps DEF BusInv
<1>3. RecordAt(p, o)' = RecordAt(p, o)
  BY <1>2 DEF LogKept, RecordAt
<1>4. PICK r : r = RecordAt(p, o)
  OBVIOUS
<1>5. RecordAt(p, o)' = r /\ r.type \in Handled /\ ~CopyRefused(r)
  BY <1>3, <1>4 DEF MayCopy
<1>. QED  BY <1>1, <1>5 DEF MayCopy

\* The goroutine that calls it has the record in hand.
LEMMA SendFacts ==
  ASSUME BusInv, NEW m \in Members, NEW t \in Topics, SendCopy(m, t),
         NEW q, NEW i, q = PartOf(m, t), i = OffsetOf(m, t)
  PROVE  /\ q \in Partitions /\ i \in Nat /\ i \in Below(Len(log[q])) /\ Decides(m, t)
         /\ GivenToDeadLetter(q, i)' /\ RecordAt(q, i).type \in Handled
         /\ \/ UNCHANGED flying
            \/ /\ ~CopyRefused(RecordAt(q, i))
               /\ flying' = [flying EXCEPT ![q] = [flying[q] EXCEPT ![i + 1] = flying[q][i + 1] + WriteAttempts]]
         /\ UNCHANGED <<log, lost, outages>>
<1>1. /\ pc[m][t] = "deadLetter" /\ Goto(m, t, "sending") /\ Decide(m, t)
      /\ UNCHANGED <<log, deliveries, cur>>
  BY DEF SendCopy, DeadLetter, broker
<1>2. /\ IInv /\ cur[m][t] = <<q, i>> /\ q \in Partitions /\ TopicOf[q] = t /\ i \in Nat
      /\ i \in Below(Len(log[q])) /\ Record(m, t) = RecordAt(q, i)
  BY <1>1, HeldRecord DEF BusInv, Busy
<1>3. Decides(m, t)
  BY <1>1 DEF Decides, Undecided
<1>4. GivenToDeadLetter(q, i)'
  <2>1. pc \in [Members -> [Topics -> PCs]]
    BY <1>2 DEF IInv, TypeOK, GoroutineTypeOK
  <2>2. pc'[m][t] = "sending" /\ cur'[m][t] = <<q, i>>
    BY <1>1, <1>2, <2>1 DEF Goto
  <2>. QED  BY <2>2 DEF GivenToDeadLetter
<1>5. RecordAt(q, i).type \in Handled
  <2>1. Record(m, t).type \in Handled
    BY <1>1 DEF BusInv, HeldHandled, Handling, Trying
  <2>. QED  BY <1>2, <2>1
<1>. QED  BY <1>1, <1>2, <1>3, <1>4, <1>5 DEF SendCopy

-----------------------------------------------------------------------------
(* The records of the log.                                                  *)

LEMMA OldOrNew ==
  ASSUME IInv, NEW p \in Partitions, NEW o \in Below(Len(log'[p])),
         NEW q \in Partitions, NEW r \in Messages, UNCHANGED log \/ Writes(q, r)
  PROVE  \/ o \in Below(Len(log[p])) /\ RecordAt(p, o)' = RecordAt(p, o)
         \/ Writes(q, r) /\ p = q /\ o = Len(log[p]) /\ RecordAt(p, o)' = r
<1>1. log \in [Partitions -> Seq(Messages)] /\ log[p] \in Seq(Messages) /\ Len(log[p]) \in Nat
  BY DEF IInv, TypeOK, BrokerTypeOK
<1>2. CASE UNCHANGED log
  BY <1>2 DEF RecordAt
<1>3. CASE Writes(q, r) /\ p # q
  <2>1. log'[p] = log[p]
    BY <1>1, <1>3 DEF Writes
  <2>. QED  BY <2>1 DEF RecordAt
<1>4. CASE Writes(q, r) /\ p = q
  <2>1. log'[p] = Append(log[p], r)
    BY <1>1, <1>4 DEF Writes
  <2>2. Len(log'[p]) = Len(log[p]) + 1 /\ o \in Nat /\ o <= Len(log[p])
    BY <1>1, <2>1 DEF Below
  <2>3. CASE o = Len(log[p])
    BY <1>1, <1>4, <2>1, <2>3 DEF RecordAt
  <2>4. CASE o < Len(log[p])
    BY <1>1, <2>1, <2>2, <2>4 DEF RecordAt, Below
  <2>. QED  BY <1>1, <2>2, <2>3, <2>4
<1>. QED  BY <1>2, <1>3, <1>4

LEMMA FitsStill ==
  ASSUME BusInv, [BusNext]_busVars, NEW p \in Partitions, NEW o \in Below(Len(log[p])),
         RecordAt(p, o)' = RecordAt(p, o)
  PROVE  RecordFits(p, o)'
<1>0. IInv /\ [GroupStep]_vars /\ RecordFits(p, o)
  BY BusIsGroupStep DEF BusInv, RecordsFit
<1>1. PICK r : r = RecordAt(p, o)
  OBVIOUS
<1>2. RecordAt(p, o)' = r /\ r.origin \in (Partitions \X Below(MaxLog)) \cup {Original}
  BY <1>0, <1>1, RecordType
<1>3. /\ topicFromEventType(r.type) = TopicOf[p]
      /\ r.shape \in {"mistyped", "garbage"} => r.type \in Handled
      /\ r.origin # Original =>
           /\ r.origin[2] \in Below(Len(log[r.origin[1]]))
           /\ GivenToDeadLetter(r.origin[1], r.origin[2])
           /\ TopicOf[r.origin[1]] = TopicOf[p]
           /\ \E e \in Handled : r.type = DLQType(e)
  BY <1>0, <1>1 DEF RecordFits
<1>4. ASSUME r.origin # Original
      PROVE  /\ r.origin[2] \in Below(Len(log'[r.origin[1]]))
             /\ GivenToDeadLetter(r.origin[1], r.origin[2])'
  <2>1. PICK q, i : q = r.origin[1] /\ i = r.origin[2]
    OBVIOUS
  <2>2. q \in Partitions /\ i \in Below(Len(log[q])) /\ GivenToDeadLetter(q, i)
    BY <1>2, <1>3, <1>4, <2>1
  <2>3. GivenToDeadLetter(q, i)' /\ LogKept(q)
    BY <1>0, <2>2, GivenStays, LogKeeps
  <2>4. i \in Below(Len(log'[q]))
    BY <2>2, <2>3 DEF LogKept, Below
  <2>. QED  BY <2>1, <2>3, <2>4
<1>. QED  BY <1>2, <1>3, <1>4 DEF RecordFits

LEMMA FitInv ==
  ASSUME BusInv, [BusNext]_busVars
  PROVE  RecordsFit'
<1>. SUFFICES ASSUME NEW p \in Partitions, NEW o \in Below(Len(log'[p])) PROVE RecordFits(p, o)'
  BY DEF RecordsFit
<1>0. IInv /\ RecordsFit /\ [GroupStep]_vars
  BY BusIsGroupStep DEF BusInv
<1>1. ASSUME o \in Below(Len(log[p])), RecordAt(p, o)' = RecordAt(p, o) PROVE RecordFits(p, o)'
  BY <1>1, FitsStill
<1>2. CASE UNCHANGED log
  BY <1>1, <1>2 DEF RecordAt
<1>3. CASE Published
  <2>1. PICK q \in Partitions, r \in Messages :
          /\ Writes(q, r) /\ r.origin = Original /\ topicFromEventType(r.type) = TopicOf[q]
          /\ r.shape \in {"mistyped", "garbage"} => r.type \in Handled
    BY <1>3 DEF Published
  <2>2. CASE p = q /\ RecordAt(p, o)' = r
    BY <2>1, <2>2 DEF RecordFits
  <2>. QED  BY <1>0, <1>1, <2>1, <2>2, OldOrNew
<1>4. ASSUME NEW q \in Partitions, NEW i \in Below(Len(log[q])), StoreCopy(q, i) PROVE RecordFits(p, o)'
  <2>1. PICK p2 \in Partitions, r \in Messages :
           /\ Writes(p2, r) /\ r.origin = <<q, i>> /\ r.shape \in {"sound", "wrecked"}
           /\ RecordAt(q, i).type \in Handled /\ r.type = DLQType(RecordAt(q, i).type)
           /\ topicFromEventType(r.type) = TopicOf[p2] /\ TopicOf[p2] = TopicOf[q]
    BY <1>4, CopyFacts
  <2>2. GivenToDeadLetter(q, i)' /\ i \in Below(Len(log'[q]))
    <3>1. MayCopy(q, i) /\ LogKept(q)
      BY <1>0, <1>4, CopyFacts, LogKeeps
    <3>. QED  BY <3>1, GivenStays DEF MayCopy, LogKept, Below
  <2>3. CASE p = p2 /\ RecordAt(p, o)' = r
    <3>1. r.origin[1] = q /\ r.origin[2] = i
      BY <2>1
    <3>2. /\ topicFromEventType(r.type) = TopicOf[p]
          /\ r.shape \notin {"mistyped", "garbage"}
          /\ r.origin[2] \in Below(Len(log'[r.origin[1]]))
          /\ GivenToDeadLetter(r.origin[1], r.origin[2])'
          /\ TopicOf[r.origin[1]] = TopicOf[p]
          /\ \E e \in Handled : r.type = DLQType(e)
      BY <2>1, <2>2, <2>3, <3>1
    <3>. QED  BY <2>3, <3>2 DEF RecordFits
  <2>. QED  BY <1>0, <1>1, <2>1, <2>3, OldOrNew
<1>5. ASSUME NEW m \in Members, NEW t \in Topics, SendCopy(m, t) \/ Answered(m, t) PROVE UNCHANGED log
  BY <1>5, SendFacts, AnswerFacts
<1>6. CASE ConsumerStep
  BY <1>0, <1>2, <1>6, ConsumerSettles
<1>7. CASE UNCHANGED busVars
  BY <1>2, <1>7 DEF busVars, vars
<1>. QED  BY <1>2, <1>3, <1>4, <1>5, <1>6, <1>7, BusKinds

-----------------------------------------------------------------------------
(* Counting copies.                                                         *)

LEMMA CopiesAdded ==
  ASSUME IInv, NEW p \in Partitions, NEW o \in Nat,
         NEW q \in Partitions, NEW r \in Messages, UNCHANGED log \/ Writes(q, r)
  PROVE  /\ CopiesOf(p, o)' \subseteq CopiesOf(p, o) \cup {<<q, Len(log[q])>>}
         /\ UNCHANGED log \/ r.origin # <<p, o>> => CopiesOf(p, o)' \subseteq CopiesOf(p, o)
<1>1. ASSUME NEW c \in CopiesOf(p, o)', c \notin CopiesOf(p, o)
      PROVE  Writes(q, r) /\ c = <<q, Len(log[q])>> /\ r.origin = <<p, o>>
  <2>1. /\ c \in Partitions \X Below(MaxLog) /\ c[2] < Len(log'[c[1]])
        /\ RecordAt(c[1], c[2])'.origin = <<p, o>> /\ RecordAt(c[1], c[2])'.origin # Original
    BY DEF CopiesOf, Copies
  <2>2. PICK c1 \in Partitions, c2 \in Below(MaxLog) : c = <<c1, c2>>
    BY <2>1
  <2>3. c[1] = c1 /\ c[2] = c2
    BY <2>2
  <2>4. /\ Len(log'[c1]) \in Nat /\ Len(log[c1]) \in Nat /\ c2 \in Nat
    <3>1. log[c1] \in Seq(Messages) /\ (log'[c1] = log[c1] \/ log'[c1] = Append(log[c1], r))
      BY DEF IInv, TypeOK, BrokerTypeOK, Writes
    <3>. QED  BY <3>1, ConsumerAssumption DEF Below
  <2>5. c2 \in Below(Len(log'[c1])) /\ RecordAt(c1, c2)'.origin = <<p, o>> /\ RecordAt(c1, c2)'.origin # Original
    BY <2>1, <2>3, <2>4 DEF Below, RecordAt
  <2>6. CASE c2 \in Below(Len(log[c1])) /\ RecordAt(c1, c2)' = RecordAt(c1, c2)
    <3>1. RecordAt(c1, c2).origin = <<p, o>> /\ RecordAt(c1, c2).origin # Original
      BY <2>5, <2>6, Zenon
    <3>2. RecordAt(c[1], c[2]) = RecordAt(c1, c2) /\ Len(log[c[1]]) = Len(log[c1])
      BY <2>3 DEF RecordAt
    <3>3. c[2] < Len(log[c[1]])
      BY <2>3, <2>4, <2>6, <3>2 DEF Below
    <3>4. c \in CopiesOf(p, o)
      BY <2>1, <3>1, <3>2, <3>3 DEF CopiesOf, Copies
    <3>. QED  BY <1>1, <3>4
  <2>. QED  BY <2>2, <2>5, <2>6, OldOrNew
<1>2. UNCHANGED log => ~Writes(q, r)
  <2>1. ASSUME UNCHANGED log, Writes(q, r) PROVE FALSE
    <3>1. log'[q] = Append(log[q], r) /\ log[q] \in Seq(Messages)
      BY <2>1 DEF IInv, TypeOK, BrokerTypeOK, Writes
    <3>2. Len(log'[q]) = Len(log[q]) + 1 /\ Len(log[q]) \in Nat
      BY <3>1
    <3>. QED  BY <2>1, <3>2
  <2>. QED  BY <2>1
<1>. QED  BY <1>1, <1>2

LEMMA CopiesStay ==
  ASSUME IInv, [GroupStep]_vars, NEW p \in Partitions, NEW o \in Nat
  PROVE  CopiesOf(p, o) \subseteq CopiesOf(p, o)'
<1>. SUFFICES ASSUME NEW c \in CopiesOf(p, o) PROVE c \in CopiesOf(p, o)'
  OBVIOUS
<1>1. /\ c \in Partitions \X Below(MaxLog) /\ c[2] < Len(log[c[1]])
      /\ RecordAt(c[1], c[2]).origin = <<p, o>> /\ RecordAt(c[1], c[2]).origin # Original
  BY DEF CopiesOf, Copies
<1>2. c[1] \in Partitions /\ c[2] \in Nat
  BY <1>1, ConsumerAssumption DEF Below
<1>3. LogKept(c[1])
  BY <1>2, LogKeeps
<1>4. c[2] \in Below(Len(log[c[1]])) /\ c[2] < Len(log'[c[1]])
  BY <1>1, <1>2, <1>3 DEF LogKept, Below
<1>5. log'[c[1]][c[2] + 1] = log[c[1]][c[2] + 1]
  BY <1>3, <1>4 DEF LogKept
<1>. QED  BY <1>1, <1>4, <1>5 DEF CopiesOf, Copies, RecordAt

\* What a step does to the requests and the decisions of one record.
Quiet(p, o) == InFlight(p, o)' = InFlight(p, o)

Sent(p, o) ==
  /\ InFlight(p, o)' \in {InFlight(p, o), InFlight(p, o) + WriteAttempts}
  /\ UNCHANGED log /\ Decided(p, o)' = Decided(p, o) + 1

LEMMA CountNat ==
  ASSUME BusInv, NEW p \in Partitions, NEW o \in Nat
  PROVE  InFlight(p, o) \in Nat /\ Decided(p, o) \in Nat
<1>1. flying[p] \in Seq(Nat)
  BY DEF BusInv, BusTypeOK
<1>2. InFlight(p, o) \in Nat
  BY <1>1 DEF InFlight, CountIn
<1>. QED  BY <1>2, DeliveredIsNat DEF BusInv, IInv

LEMMA SentKinds ==
  ASSUME BusInv, NEW m \in Members, NEW t \in Topics, SendCopy(m, t)
  PROVE  /\ BusTypeOK'
         /\ \A p \in Partitions : \A o \in Nat :
              \/ Quiet(p, o) /\ UNCHANGED log /\ Decided(p, o)' = Decided(p, o)
              \/ Sent(p, o) /\ p = PartOf(m, t) /\ o = OffsetOf(m, t)
<1>1. PICK q, i : q = PartOf(m, t) /\ i = OffsetOf(m, t)
  OBVIOUS
<1>2. /\ q \in Partitions /\ i \in Nat /\ i \in Below(Len(log[q])) /\ Decides(m, t)
      /\ \/ UNCHANGED flying
         \/ flying' = [flying EXCEPT ![q] = [flying[q] EXCEPT ![i + 1] = flying[q][i + 1] + WriteAttempts]]
      /\ UNCHANGED <<log, lost, outages>>
  BY <1>1, SendFacts
<1>3. /\ flying \in [Partitions -> Seq(Nat)] /\ Len(flying[q]) = Len(log[q]) /\ i < Len(flying[q])
      /\ i + 1 \in DOMAIN flying[q] /\ flying[q][i + 1] \in Nat /\ InFlight(q, i) = flying[q][i + 1]
      /\ outages \in Nat /\ WriteAttempts \in Nat /\ IInv
      /\ \A x \in Partitions : Len(flying[x]) = Len(log[x])
  <2>1. /\ flying \in [Partitions -> Seq(Nat)] /\ flying[q] \in Seq(Nat) /\ Len(flying[q]) = Len(log[q])
        /\ outages \in Nat /\ WriteAttempts \in Nat /\ IInv
        /\ \A x \in Partitions : Len(flying[x]) = Len(log[x])
    BY <1>2, BusAssumption DEF BusInv, BusTypeOK
  <2>2. i < Len(flying[q]) /\ i + 1 \in DOMAIN flying[q]
    BY <1>2, <2>1 DEF Below
  <2>. QED  BY <2>1, <2>2 DEF InFlight, CountIn
<1>4. \A p \in Partitions : \A o \in Nat :
        Decided(p, o)' = IF p = q /\ o = i THEN Decided(p, o) + 1 ELSE Decided(p, o)
  BY <1>1, <1>2, <1>3, DecideFacts
<1>5. CASE UNCHANGED flying
  <2>1. \A p \in Partitions : \A o \in Nat : InFlight(p, o)' = InFlight(p, o)
    BY <1>5 DEF InFlight, CountIn
  <2>2. BusTypeOK'
    BY <1>2, <1>3, <1>5 DEF BusTypeOK
  <2>. QED  BY <1>1, <1>2, <1>4, <2>1, <2>2 DEF Quiet, Sent
<1>6. CASE flying' = [flying EXCEPT ![q] = [flying[q] EXCEPT ![i + 1] = flying[q][i + 1] + WriteAttempts]]
  <2>1. PICK n \in Nat : n = flying[q][i + 1] + WriteAttempts
    BY <1>3
  <2>5. PICK h : h = flying'
    OBVIOUS
  <2>2. /\ h \in [Partitions -> Seq(Nat)]
        /\ \A x \in Partitions : Len(h[x]) = Len(flying[x])
        /\ \A x \in Partitions : \A y \in Nat :
             CountIn(h, x, y) = IF x = q /\ y = i THEN n ELSE CountIn(flying, x, y)
    <3>1. h = Changed(flying, q, i, n)
      BY <1>6, <2>1, <2>5 DEF Changed
    <3>2. /\ flying \in [Partitions -> Seq(Nat)] /\ q \in Partitions /\ i \in Nat /\ i < Len(flying[q])
          /\ n \in Nat
      BY <1>2, <1>3, <2>1, Zenon
    <3>3. CountsAs(flying, q, i, n, h)
      BY <3>1, <3>2, CountChange, Zenon
    <3>. QED  BY <3>3 DEF CountsAs
  <2>3. \A x \in Partitions : \A y \in Nat :
          InFlight(x, y)' = IF x = q /\ y = i THEN InFlight(x, y) + WriteAttempts ELSE InFlight(x, y)
    BY <1>3, <2>1, <2>2, <2>5 DEF InFlight, CountIn
  <2>4. BusTypeOK'
    BY <1>2, <1>3, <2>2, <2>5 DEF BusTypeOK
  <2>. QED  BY <1>1, <1>2, <1>4, <2>3, <2>4 DEF Quiet, Sent
<1>. QED  BY <1>2, <1>5, <1>6

\* A step that leaves the requests alone may count a decision, of a handler for instance.
LEMMA DecisionsGrow ==
  ASSUME IInv, [GroupStep]_vars, NEW p \in Partitions, NEW o \in Nat
  PROVE  Decided(p, o)' >= Decided(p, o)
<1>0. TypeOK /\ Decided(p, o) \in Nat
  BY DeliveredIsNat DEF IInv
<1>1. CASE Grows
  BY <1>0, <1>1, SameDeliveries
<1>2. ASSUME NEW m \in Members, NEW t \in Topics, Decides(m, t) PROVE Decided(p, o)' >= Decided(p, o)
  BY <1>0, <1>2, DecideFacts
<1>3. UNCHANGED verdicts => Decided(p, o)' = Decided(p, o)
  BY DEF Decided
<1>4. Grows \/ (\E m \in Members, t \in Topics : Decides(m, t)) \/ UNCHANGED verdicts
  BY StepKinds, Zenon DEF Idles, Waits, Assign, Fetch, Calls, Settles
<1>. QED  BY <1>0, <1>1, <1>2, <1>3, <1>4

LEMMA CopyKinds ==
  ASSUME BusInv, [BusNext]_busVars
  PROVE  /\ BusTypeOK'
         /\ \/ UNCHANGED <<flying, log>>
            \/ /\ Spends(Original)
               /\ \E q \in Partitions, r \in Messages : Writes(q, r) /\ r.origin = Original
            \/ \E m \in Members, t \in Topics : SendCopy(m, t)
            \/ \E q \in Partitions : \E i \in Below(Len(log[q])) : StoreCopy(q, i)
<1>0. outages \in Nat /\ BusTypeOK
  BY DEF BusInv, BusTypeOK
<1>1. CASE Published
  <2>1. /\ \E q \in Partitions, r \in Messages : Writes(q, r) /\ r.origin = Original
        /\ Spends(Original) /\ UNCHANGED outages
    BY <1>1 DEF Published
  <2>. QED  BY <1>0, <2>1 DEF Spends, BusTypeOK
<1>2. CASE ConsumerStep \/ UNCHANGED busVars
  <2>1. UNCHANGED <<flying, log, outages>>
    BY <1>2, ConsumerSettles DEF BusInv, copyVars, busVars, vars
  <2>. QED  BY <1>0, <2>1 DEF BusTypeOK
<1>3. ASSUME NEW m \in Members, NEW t \in Topics, Answered(m, t) PROVE BusTypeOK' /\ UNCHANGED <<flying, log>>
  <2>1. UNCHANGED <<flying, log>>
    BY <1>3, AnswerFacts
  <2>2. outages' = outages \/ outages' = outages + 1
    BY <1>3 DEF Answered, CopyWritten, CopyIsRefused, CopyFails, copyVars
  <2>. QED  BY <1>0, <2>1, <2>2 DEF BusTypeOK
<1>4. ASSUME NEW m \in Members, NEW t \in Topics, SendCopy(m, t) PROVE BusTypeOK'
  BY <1>4, SentKinds
<1>5. ASSUME NEW q \in Partitions, NEW i \in Below(Len(log[q])), StoreCopy(q, i) PROVE BusTypeOK'
  <2>1. Spends(<<q, i>>) /\ UNCHANGED outages
    BY <1>5, CopyFacts, StoredGrows
  <2>. QED  BY <1>0, <2>1 DEF Spends, BusTypeOK
<1>. QED  BY <1>1, <1>2, <1>3, <1>4, <1>5, BusKinds

\* A request is sent for a record in DeadLetterFunc's hands, and others stay.
LEMMA RequestInv ==
  ASSUME BusInv, [BusNext]_busVars PROVE Requested'
<1>. SUFFICES ASSUME NEW p \in Partitions, NEW o \in Below(Len(log'[p])), flying'[p][o + 1] > 0
              PROVE  MayCopy(p, o)'
  BY DEF Requested
<1>0. /\ IInv /\ [GroupStep]_vars /\ LogKept(p) /\ BusTypeOK /\ BusTypeOK' /\ o \in Nat
      /\ InFlight(p, o) \in Nat
  <2>1. IInv /\ [GroupStep]_vars /\ LogKept(p) /\ BusTypeOK /\ BusTypeOK'
    BY BusIsGroupStep, LogKeeps, CopyKinds DEF BusInv
  <2>2. o \in Nat
    BY <2>1 DEF LogKept, Below
  <2>. QED  BY <2>1, <2>2, CountNat
<1>1. InFlight(p, o)' = flying'[p][o + 1]
  <2>1. flying'[p] \in Seq(Nat) /\ Len(flying'[p]) = Len(log'[p]) /\ Len(log'[p]) \in Nat
    BY <1>0 DEF BusTypeOK, LogKept
  <2>2. o + 1 \in DOMAIN flying'[p]
    BY <1>0, <2>1 DEF Below
  <2>. QED  BY <2>2 DEF InFlight, CountIn
<1>2. ASSUME InFlight(p, o) > 0 PROVE MayCopy(p, o)'
  <2>1. flying[p] \in Seq(Nat) /\ Len(flying[p]) = Len(log[p]) /\ Len(log[p]) \in Nat
    BY <1>0 DEF BusTypeOK, LogKept
  <2>2. o + 1 \in DOMAIN flying[p] /\ InFlight(p, o) = flying[p][o + 1]
    BY <1>2 DEF InFlight, CountIn
  <2>3. o \in Below(Len(log[p]))
    BY <1>0, <2>1, <2>2 DEF Below
  <2>. QED  BY <1>2, <2>2, <2>3, MayCopyStays DEF BusInv, Requested
<1>3. ASSUME InFlight(p, o)' = InFlight(p, o) PROVE MayCopy(p, o)'
  BY <1>1, <1>2, <1>3
<1>4. CASE UNCHANGED <<flying, log>>
  BY <1>3, <1>4 DEF InFlight, CountIn
<1>5. CASE Spends(Original)
  <2>1. Original # <<p, o>>
    BY DEF Original
  <2>. QED  BY <1>0, <1>3, <1>5, <2>1 DEF Spends
<1>6. ASSUME NEW m \in Members, NEW t \in Topics, SendCopy(m, t) PROVE MayCopy(p, o)'
  <2>1. CASE Quiet(p, o)
    BY <1>3, <2>1 DEF Quiet
  <2>2. CASE Sent(p, o) /\ p = PartOf(m, t) /\ o = OffsetOf(m, t)
    <3>1. /\ GivenToDeadLetter(p, o)' /\ RecordAt(p, o).type \in Handled /\ UNCHANGED log
          /\ UNCHANGED flying \/ ~CopyRefused(RecordAt(p, o))
      BY <1>6, <2>2, SendFacts
    <3>2. CASE UNCHANGED flying
      BY <1>3, <3>2 DEF InFlight, CountIn
    <3>3. CASE ~CopyRefused(RecordAt(p, o))
      <4>1. PICK r : r = RecordAt(p, o)
        OBVIOUS
      <4>2. RecordAt(p, o)' = r /\ r.type \in Handled /\ ~CopyRefused(r)
        BY <3>1, <3>3, <4>1 DEF RecordAt
      <4>. QED  BY <3>1, <4>2 DEF MayCopy
    <3>. QED  BY <3>1, <3>2, <3>3
  <2>. QED  BY <1>0, <1>6, <2>1, <2>2, SentKinds
<1>7. ASSUME NEW q \in Partitions, NEW i \in Below(Len(log[q])), StoreCopy(q, i) PROVE MayCopy(p, o)'
  <2>1. Spends(<<q, i>>) /\ MayCopy(q, i)
    BY <1>7, CopyFacts
  <2>2. CASE <<q, i>> = <<p, o>>
    <3>1. p = q /\ o = i
      BY <2>2
    <3>. QED  BY <2>1, <3>1, MayCopyStays
  <2>3. CASE <<q, i>> # <<p, o>>
    BY <1>0, <1>3, <2>1, <2>3 DEF Spends
  <2>. QED  BY <2>2, <2>3
<1>. QED  BY <1>4, <1>5, <1>6, <1>7, CopyKinds

LEMMA Times ==
  ASSUME NEW n \in Nat, NEW a \in Nat, NEW b \in Nat
  PROVE  n * (a + 1) = n * a + n /\ (b >= a => n * b >= n * a) /\ n * a \in Nat
OBVIOUS

LEMMA CopyInv ==
  ASSUME BusInv, [BusNext]_busVars
  PROVE  CopiesCounted'
<1>. SUFFICES ASSUME NEW p \in Partitions, NEW o \in Nat PROVE CopyCounted(p, o)'
  BY DEF CopiesCounted
<1>0. /\ IInv /\ [GroupStep]_vars /\ TypeOK' /\ CopyCounted(p, o)
      /\ IsFiniteSet(CopiesOf(p, o)) /\ Cardinality(CopiesOf(p, o)) \in Nat
      /\ InFlight(p, o) \in Nat /\ Decided(p, o) \in Nat /\ Decided(p, o)' \in Nat
      /\ Decided(p, o)' >= Decided(p, o) /\ WriteAttempts \in Nat
  <2>1. IInv /\ [GroupStep]_vars /\ TypeOK' /\ CopyCounted(p, o)
    BY BusIsGroupStep, NextInv DEF BusInv, CopiesCounted, IInv
  <2>2. IsFiniteSet(CopiesOf(p, o)) /\ Cardinality(CopiesOf(p, o)) \in Nat
    BY <2>1, FS_CardinalityType DEF CopyCounted
  <2>3. Decided(p, o)' \in Nat
    BY <2>1 DEF TypeOK, HistoryTypeOK, Decided
  <2>. QED  BY <2>1, <2>2, <2>3, CountNat, DecisionsGrow, BusAssumption
<1>1. ASSUME NEW c \in Nat, NEW k \in Nat, IsFiniteSet(CopiesOf(p, o)'),
             Cardinality(CopiesOf(p, o)') <= c, InFlight(p, o)' = k,
             c + k <= WriteAttempts * Decided(p, o)'
      PROVE  CopyCounted(p, o)'
  <2>1. Cardinality(CopiesOf(p, o)') \in Nat
    BY <1>1, FS_CardinalityType
  <2>2. WriteAttempts * Decided(p, o)' \in Nat
    BY <1>0, Times
  <2>3. Cardinality(CopiesOf(p, o)') + InFlight(p, o)' <= WriteAttempts * Decided(p, o)'
    BY <1>1, <2>1, <2>2
  <2>. QED  BY <1>0, <1>1, <2>3 DEF CopyCounted
<1>2. /\ Cardinality(CopiesOf(p, o)) + InFlight(p, o) <= WriteAttempts * Decided(p, o)
      /\ WriteAttempts * Decided(p, o) <= WriteAttempts * Decided(p, o)'
      /\ WriteAttempts * Decided(p, o) \in Nat /\ WriteAttempts * Decided(p, o)' \in Nat
  BY <1>0, Times DEF CopyCounted
<1>3. ASSUME CopiesOf(p, o)' \subseteq CopiesOf(p, o), InFlight(p, o)' = InFlight(p, o)
      PROVE  CopyCounted(p, o)'
  <2>1. /\ IsFiniteSet(CopiesOf(p, o)') /\ Cardinality(CopiesOf(p, o)') <= Cardinality(CopiesOf(p, o))
    BY <1>0, <1>3, Fewer
  <2>2. Cardinality(CopiesOf(p, o)) + InFlight(p, o) <= WriteAttempts * Decided(p, o)'
    BY <1>0, <1>2
  <2>. QED  BY <1>0, <1>1, <1>3, <2>1, <2>2
<1>4. UNCHANGED log => CopiesOf(p, o)' = CopiesOf(p, o)
  BY DEF CopiesOf, Copies, RecordAt
<1>5. CASE UNCHANGED <<flying, log>>
  <2>1. InFlight(p, o)' = InFlight(p, o)
    BY <1>5 DEF InFlight, CountIn
  <2>. QED  BY <1>3, <1>4, <1>5, <2>1
<1>6. ASSUME NEW q \in Partitions, NEW r \in Messages, Writes(q, r), r.origin = Original, Spends(Original)
      PROVE  CopyCounted(p, o)'
  <2>1. Original # <<p, o>>
    BY DEF Original
  <2>2. CopiesOf(p, o)' \subseteq CopiesOf(p, o)
    BY <1>0, <1>6, <2>1, CopiesAdded
  <2>3. InFlight(p, o)' = InFlight(p, o)
    BY <1>6, <2>1 DEF Spends
  <2>. QED  BY <1>3, <2>2, <2>3
<1>7. ASSUME NEW m \in Members, NEW t \in Topics, SendCopy(m, t) PROVE CopyCounted(p, o)'
  <2>1. CASE Quiet(p, o) /\ UNCHANGED log
    BY <1>3, <1>4, <2>1 DEF Quiet
  <2>2. CASE Sent(p, o)
    <3>1. /\ CopiesOf(p, o)' = CopiesOf(p, o) /\ Decided(p, o)' = Decided(p, o) + 1
          /\ InFlight(p, o)' \in {InFlight(p, o), InFlight(p, o) + WriteAttempts}
      BY <1>4, <2>2 DEF Sent
    <3>2. WriteAttempts * Decided(p, o)' = WriteAttempts * Decided(p, o) + WriteAttempts
      BY <1>0, <3>1, Times
    <3>3. /\ InFlight(p, o)' \in Nat
          /\ Cardinality(CopiesOf(p, o)) + InFlight(p, o)' <= WriteAttempts * Decided(p, o)'
      BY <1>0, <1>2, <3>1, <3>2
    <3>. QED  BY <1>0, <1>1, <3>1, <3>3
  <2>. QED  BY <1>7, <2>1, <2>2, SentKinds
<1>8. ASSUME NEW q \in Partitions, NEW i \in Below(Len(log[q])), StoreCopy(q, i) PROVE CopyCounted(p, o)'
  <2>1. /\ Spends(<<q, i>>) /\ InFlight(q, i) > 0
        /\ \E p2 \in Partitions, r \in Messages : Writes(p2, r) /\ r.origin = <<q, i>>
    BY <1>8, CopyFacts
  <2>2. PICK p2 \in Partitions, r \in Messages : Writes(p2, r) /\ r.origin = <<q, i>>
    BY <2>1
  <2>3. CASE <<q, i>> = <<p, o>>
    <3>1. p = q /\ o = i
      BY <2>3
    <3>2. InFlight(p, o)' = InFlight(p, o) - 1 /\ InFlight(p, o) > 0
      BY <2>1, <2>3, <3>1 DEF Spends
    <3>3. CopiesOf(p, o)' \subseteq CopiesOf(p, o) \cup {<<p2, Len(log[p2])>>}
      BY <1>0, <2>2, CopiesAdded
    <3>4. /\ IsFiniteSet(CopiesOf(p, o)')
          /\ Cardinality(CopiesOf(p, o)') <= Cardinality(CopiesOf(p, o)) + 1
      BY <1>0, <3>3, OneMore
    <3>5. /\ InFlight(p, o)' \in Nat /\ Cardinality(CopiesOf(p, o)) + 1 \in Nat
          /\ (Cardinality(CopiesOf(p, o)) + 1) + InFlight(p, o)' <= WriteAttempts * Decided(p, o)'
      BY <1>0, <1>2, <3>2
    <3>. QED  BY <1>1, <3>4, <3>5
  <2>4. CASE <<q, i>> # <<p, o>>
    <3>1. CopiesOf(p, o)' \subseteq CopiesOf(p, o)
      BY <1>0, <2>2, <2>4, CopiesAdded
    <3>2. InFlight(p, o)' = InFlight(p, o)
      BY <2>1, <2>4 DEF Spends
    <3>. QED  BY <1>3, <3>1, <3>2
  <2>. QED  BY <2>3, <2>4
<1>. QED  BY <1>5, <1>6, <1>7, <1>8, CopyKinds

-----------------------------------------------------------------------------
(* Sound events survive.                                                    *)

LEMMA OutagesGrow ==
  ASSUME BusInv, [BusNext]_busVars, outages' = 0 PROVE outages = 0
<1>0. outages \in Nat
  BY DEF BusInv, BusTypeOK
<1>1. UNCHANGED outages \/ outages' = outages + 1
  <2>1. ASSUME NEW m \in Members, NEW t \in Topics, SendCopy(m, t) \/ Answered(m, t)
        PROVE  UNCHANGED outages \/ outages' = outages + 1
    BY <2>1 DEF Answered, SendCopy, CopyWritten, CopyIsRefused, CopyFails, copyVars
  <2>. QED  BY <2>1, BusKinds, StoredGrows DEF Published, ConsumerStep, copyVars, busVars
<1>. QED  BY <1>0, <1>1

\* Only AsHandler gives a record that fate.
LEMMA NewlyGivenUp ==
  ASSUME BusInv, [BusNext]_busVars, NEW p \in Partitions, NEW o,
         <<o, "deadLettered">> \in fate'[p], <<o, "deadLettered">> \notin fate[p]
  PROVE  \E m \in Members, t \in Topics :
           Answered(m, t) /\ p = PartOf(m, t) /\ o = OffsetOf(m, t)
<1>0. IInv /\ fate \in [Partitions -> SUBSET (Nat \X Fates)]
  BY DEF BusInv, IInv, TypeOK, HistoryTypeOK
<1>1. ~Published /\ ~(UNCHANGED busVars)
  BY DEF Published, busVars, vars
<1>2. ~ConsumerStep
  BY <1>0, ConsumerSettles
<1>3. ASSUME NEW m \in Members, NEW t \in Topics, SendCopy(m, t) PROVE FALSE
  BY <1>3 DEF SendCopy, DeadLetter
<1>4. ASSUME NEW q \in Partitions, NEW i \in Below(Len(log[q])), StoreCopy(q, i) PROVE FALSE
  BY <1>4 DEF StoreCopy, NothingElse
<1>5. PICK m \in Members, t \in Topics : Answered(m, t)
  BY <1>1, <1>2, <1>3, <1>4, BusKinds
<1>6. fate' = [fate EXCEPT ![PartOf(m, t)] = @ \cup {<<OffsetOf(m, t), "deadLettered">>}]
  BY <1>5, AnswerFacts DEF Mark
<1>7. p = PartOf(m, t) /\ <<o, "deadLettered">> = <<OffsetOf(m, t), "deadLettered">>
  BY <1>0, <1>6
<1>. QED  BY <1>5, <1>7

\* A publisher that knows the copy's type refuses no copy of a sound event.
LEMMA SoundIsNotRefused ==
  ASSUME BusInv, NEW r, CopyRefused(r), r.shape = "sound", DLQType(r.type) \in Registered
  PROVE  FALSE
<1>1. CopyShape(r) = "sound" /\ CopyType(r) = DLQType(r.type)
  BY DEF CopyShape, CopyType, FailedType
<1>2. Refuses(CopyType(r), "sound")
  BY <1>1 DEF CopyRefused
<1>3. ValidateEventType(CopyType(r)) /\ CopyType(r) \in Registered
  BY <1>1, BusAssumption
<1>. QED  BY <1>2, <1>3 DEF Refuses, PayloadRefused

\* No write fails unless a context was cancelled or the broker was away.
LEMMA FailureHasCause ==
  ASSUME BusInv, NEW m \in Members, NEW t \in Topics, CopyFails(m, t),
         disruptions' = 0, outages' = 0
  PROVE  FALSE
<1>1. disruptions = 0 /\ outages \in Nat
  <2>1. disruptions' = disruptions
    BY AnswerFacts DEF Answered
  <2>. QED  BY <2>1 DEF BusInv, BusTypeOK
<1>2. life[m] # "cancelled"
  BY <1>1 DEF BusInv, PagesInv, Undisturbed
<1>. QED  BY <1>1, <1>2 DEF CopyFails

LEMMA SoundInv ==
  ASSUME BusInv, [BusNext]_busVars
  PROVE  SoundSurvives'
<1>. SUFFICES ASSUME NEW p \in Partitions, NEW o \in Below(Len(log'[p])),
                     <<o, "deadLettered">> \in fate'[p],
                     RecordAt(p, o)'.shape = "sound", DLQType(RecordAt(p, o)'.type) \in Registered,
                     ~Async, outages' = 0, disruptions' = 0
              PROVE  CopiesOf(p, o)' # {}
  BY DEF SoundSurvives
<1>0. IInv /\ [GroupStep]_vars /\ SoundSurvives /\ outages = 0 /\ SettledInLog
  BY BusIsGroupStep, OutagesGrow DEF BusInv, PagesInv
<1>1. LogKept(p) /\ Len(log[p]) \in Nat
  BY <1>0, LogKeeps DEF LogKept
<1>2. CASE <<o, "deadLettered">> \in fate[p]
  <2>1. o \in Settled(p)
    <3>1. PICK g : g = <<o, "deadLettered">>
      OBVIOUS
    <3>2. g \in fate[p] /\ g[1] = o
      BY <1>2, <3>1
    <3>. QED  BY <3>2 DEF Settled
  <2>2. o \in Below(Len(log[p])) /\ o \in Nat
    BY <1>0, <1>1, <2>1 DEF SettledInLog, Below
  <2>3. RecordAt(p, o)' = RecordAt(p, o)
    BY <1>1, <2>2 DEF LogKept, RecordAt
  <2>4. disruptions = 0
    BY <1>0, LivesOn DEF BusInv, PagesInv
  <2>5. RecordAt(p, o).shape = "sound" /\ DLQType(RecordAt(p, o).type) \in Registered
    BY <2>3, Zenon
  <2>6. CopiesOf(p, o) # {}
    BY <1>0, <1>2, <2>2, <2>4, <2>5 DEF SoundSurvives
  <2>. QED  BY <1>0, <2>2, <2>6, CopiesStay
<1>3. CASE <<o, "deadLettered">> \notin fate[p]
  <2>1. PICK m \in Members, t \in Topics : Answered(m, t) /\ p = PartOf(m, t) /\ o = OffsetOf(m, t)
    BY <1>3, NewlyGivenUp
  <2>2. pc[m][t] \in Busy
    BY <2>1, AnswerFacts
  <2>3. o \in Below(Len(log[p])) /\ Record(m, t) = RecordAt(p, o) /\ o \in Nat
    BY <1>0, <2>1, <2>2, HeldRecord
  <2>4. RecordAt(p, o)' = RecordAt(p, o)
    BY <1>1, <2>3 DEF LogKept, RecordAt
  <2>5. Record(m, t).shape = "sound" /\ DLQType(Record(m, t).type) \in Registered
    BY <2>3, <2>4, Zenon
  <2>6. CopyWritten(m, t)
    <3>1. ~CopyIsRefused(m, t)
      BY <2>5, SoundIsNotRefused DEF CopyIsRefused
    <3>. QED  BY <2>1, <3>1, FailureHasCause DEF Answered
  <2>7. CopiesOf(p, o) # {}
    BY <2>1, <2>6 DEF CopyWritten
  <2>. QED  BY <1>0, <2>3, <2>7, CopiesStay
<1>. QED  BY <1>2, <1>3

-----------------------------------------------------------------------------
(* What holds of every bus.                                                 *)

LEMMA InitBus == BusInit => BusInv
<1>. SUFFICES ASSUME BusInit PROVE BusInv
  OBVIOUS
<1>1. Init /\ outages = 0 /\ flying = [p \in Partitions |-> <<>>]
  BY DEF BusInit
<1>2. \A p \in Partitions : log[p] = <<>> /\ fate[p] = {}
  BY <1>1 DEF Init
<1>3. \A p \in Partitions : Below(Len(log[p])) = {}
  BY <1>2 DEF Below
<1>4. IInv /\ PagesInv /\ BusTypeOK
  BY <1>1, <1>2, InitInv, InitPages DEF BusTypeOK
<1>5. RecordsFit /\ Requested /\ SoundSurvives
  BY <1>3 DEF RecordsFit, Requested, SoundSurvives
<1>6. HandlersKnown /\ HeldHandled
  BY <1>1 DEF Init, HandlersKnown, HeldHandled, Handling, Trying
<1>7. ASSUME NEW p \in Partitions, NEW o \in Nat PROVE CopyCounted(p, o)
  <2>1. Copies = {}
    BY <1>2, ConsumerAssumption DEF Copies, Below
  <2>2. CopiesOf(p, o) = {}
    BY <2>1 DEF CopiesOf
  <2>3. InFlight(p, o) = 0 /\ Decided(p, o) = 0
    BY <1>1 DEF Init, InFlight, CountIn, Decided
  <2>. QED  BY <2>2, <2>3, FS_EmptySet, BusAssumption DEF CopyCounted
<1>. QED  BY <1>4, <1>5, <1>6, <1>7 DEF BusInv, CopiesCounted

LEMMA BusStep == BusInv /\ [BusNext]_busVars => BusInv'
<1>. SUFFICES ASSUME BusInv, [BusNext]_busVars PROVE BusInv'
  OBVIOUS
<1>1. IInv /\ PagesInv /\ RecordsFit /\ HandlersKnown /\ HeldHandled /\ [GroupStep]_vars
  BY BusIsGroupStep DEF BusInv
<1>2. IInv' /\ PagesInv'
  BY <1>1, NextInv, PagesStep
<1>3. RecordsFit' /\ Requested' /\ CopiesCounted' /\ SoundSurvives' /\ BusTypeOK'
  BY FitInv, RequestInv, CopyInv, SoundInv, CopyKinds
<1>4. HandlersKnown' /\ HeldHandled'
  BY <1>1, HandlersInv, HandledInv
<1>. QED  BY <1>2, <1>3, <1>4 DEF BusInv

\* The inductive invariant of the publishers, the dead-letter producers and the
\* group together.
THEOREM BusInvariance == BusSpec => []BusInv
BY InitBus, BusStep, PTL DEF BusSpec

LEMMA CopyIsRecord ==
  ASSUME BusInv, NEW c \in Copies, NEW p, NEW o, p = c[1], o = c[2]
  PROVE  /\ p \in Partitions /\ o \in Below(Len(log[p])) /\ RecordFits(p, o)
         /\ RecordAt(p, o).origin # Original
         /\ RecordAt(p, o).origin \in Partitions \X Below(MaxLog)
         /\ RecordAt(p, o).type \in Seq(Segment)
<1>1. c \in Partitions \X Below(MaxLog) /\ o < Len(log[p]) /\ RecordAt(p, o).origin # Original
  BY DEF Copies
<1>2. p \in Partitions /\ o \in Nat
  BY <1>1, ConsumerAssumption DEF Below
<1>3. Len(log[p]) \in Nat /\ IInv /\ RecordsFit
  BY <1>2 DEF BusInv, IInv, TypeOK, BrokerTypeOK
<1>4. o \in Below(Len(log[p]))
  BY <1>1, <1>2, <1>3 DEF Below
<1>5. RecordFits(p, o)
  BY <1>2, <1>3, <1>4 DEF RecordsFit
<1>. QED  BY <1>1, <1>2, <1>3, <1>4, <1>5, RecordType

\* DLQProducer adds copies only of records that were given to it, on their own topic,
\* and of each no more than the writer may make requests for its deliveries: through
\* lost acknowledgements, late requests, crashes and rebalances.
THEOREM CopiesAreFew == BusSpec => []CopiesFollowDeliveries
<1>. DEFINE I == BusInv /\ VerdictsCounted
<1>1. BusInit => I
  BY InitBus, InitCounts DEF BusInit
<1>2. I /\ [BusNext]_busVars => I'
  <2>1. BusInv => IInv
    BY DEF BusInv
  <2>. QED  BY <2>1, BusStep, BusIsGroupStep, CountInv
<1>3. I => CopiesFollowDeliveries
  <2>. SUFFICES ASSUME I, NEW c \in Copies, NEW source, source = RecordAt(c[1], c[2]).origin
                PROVE  /\ GivenToDeadLetter(source[1], source[2])
                       /\ TopicOf[source[1]] = TopicOf[c[1]]
                       /\ Cardinality(CopiesOf(source[1], source[2]))
                            <= WriteAttempts * deliveries[source[1]][source[2] + 1]
    BY DEF CopiesFollowDeliveries
  <2>1. PICK p, o : p = c[1] /\ o = c[2]
    OBVIOUS
  <2>2. RecordFits(p, o) /\ source # Original /\ source \in Partitions \X Below(MaxLog)
    BY <2>1, CopyIsRecord
  <2>3. PICK q, i : q = source[1] /\ i = source[2]
    OBVIOUS
  <2>4. GivenToDeadLetter(q, i) /\ TopicOf[q] = TopicOf[p] /\ i \in Below(Len(log[q])) /\ q \in Partitions
    BY <2>1, <2>2, <2>3 DEF RecordFits
  <2>5. /\ Len(deliveries[q]) = Len(log[q]) /\ Len(log[q]) \in Nat /\ deliveries[q] \in Seq(Nat)
    BY <2>4 DEF BusInv, IInv, TypeOK, HistoryTypeOK, BrokerTypeOK
  <2>6. i \in Nat /\ i + 1 \in DOMAIN deliveries[q] /\ deliveries[q][i + 1] \in Nat
    BY <2>4, <2>5 DEF Below
  <2>7. CopyCounted(q, i) /\ Counted(q, i) /\ Delivered(q, i) = deliveries[q][i + 1]
    BY <2>4, <2>6 DEF BusInv, CopiesCounted, VerdictsCounted, Delivered
  <2>8. /\ Cardinality(CopiesOf(q, i)) \in Nat /\ Cardinality(Holders(q, i)) \in Nat
        /\ InFlight(q, i) \in Nat /\ Decided(q, i) \in Nat /\ WriteAttempts \in Nat
    BY <2>4, <2>6, <2>7, CountNat, FS_CardinalityType, BusAssumption DEF CopyCounted, Counted
  <2>9. Decided(q, i) <= deliveries[q][i + 1]
    BY <2>6, <2>7, <2>8 DEF Counted
  <2>10. WriteAttempts * Decided(q, i) <= WriteAttempts * deliveries[q][i + 1]
         /\ WriteAttempts * Decided(q, i) \in Nat /\ WriteAttempts * deliveries[q][i + 1] \in Nat
    BY <2>6, <2>8, <2>9, Times
  <2>11. Cardinality(CopiesOf(q, i)) + InFlight(q, i) <= WriteAttempts * Decided(q, i)
    BY <2>7 DEF CopyCounted
  <2>12. Cardinality(CopiesOf(q, i)) <= WriteAttempts * deliveries[q][i + 1]
    BY <2>8, <2>10, <2>11
  <2>. QED  BY <2>1, <2>3, <2>4, <2>12
<1>. QED  BY <1>1, <1>2, <1>3, PTL DEF BusSpec

\* Dead-letter copies come back to their own group and do not breed, whichever
\* types the taxonomy knows and whichever handlers a member has.
THEOREM CopiesDoNotBreed == BusSpec => []NoDeadLetterLoop
<1>1. BusInv => NoDeadLetterLoop
  <2>. SUFFICES ASSUME BusInv, NEW c \in Copies
                PROVE  \E e \in Handled : Depth(RecordAt(c[1], c[2]).type) <= Depth(e) + 1
    BY DEF NoDeadLetterLoop
  <2>1. PICK p, o : p = c[1] /\ o = c[2]
    OBVIOUS
  <2>2. RecordFits(p, o) /\ RecordAt(p, o).origin # Original
    BY <2>1, CopyIsRecord
  <2>3. PICK e \in Handled : RecordAt(p, o).type = DLQType(e)
    BY <2>2 DEF RecordFits
  <2>4. e \in Seq(Segment) /\ "dlq" \in Segment
    BY ConsumerAssumption, BusAssumption
  <2>. QED  BY <2>1, <2>3, <2>4, CopyIsDeeper
<1>. QED  BY <1>1, BusInvariance, PTL

\* A sound event that its handler gave up has a copy, if the taxonomy knows the copy's
\* type, writes are synchronous, and there was neither an outage nor a disruption:
\* then AsHandler, the publisher's checks and the writer let none fall through.
THEOREM SoundIsKept == BusSpec => []SoundSurvives
<1>1. BusInv => SoundSurvives
  BY DEF BusInv
<1>. QED  BY <1>1, BusInvariance, PTL

\* What was proved of the group alone holds of it among publishers, foreign
\* producers and its own dead-letter copies, too.
THEOREM GroupInBus ==
  BusSpec => [](/\ CommittedSettled /\ SettledIsPrefix /\ OneFatePerDelivery
                /\ RedeliveryNeedsDisruption /\ HealthIsTrue)
<1>. DEFINE GroupInv == BusInv /\ VerdictsCounted /\ DeliveriesPaid
            GroupSafe == /\ CommittedSettled /\ SettledIsPrefix /\ OneFatePerDelivery
                         /\ RedeliveryNeedsDisruption /\ HealthIsTrue
<1>1. BusInit => GroupInv
  BY InitBus, InitCounts, InitPays DEF BusInit
<1>2. GroupInv /\ [BusNext]_busVars => GroupInv'
  <2>1. BusInv => IInv
    BY DEF BusInv
  <2>. QED  BY <2>1, BusStep, BusIsGroupStep, CountInv, PaidInv
<1>3. GroupInv => GroupSafe
  <2>1. BusInv => IInv /\ PagesInv /\ CommittedSettled /\ SettledIsPrefix
    BY DEF BusInv, IInv
  <2>. QED  BY <2>1, VerdictsFollow, PaidBounds, PagesTell
<1>. HIDE DEF GroupInv, GroupSafe
<1>4. BusSpec => []GroupSafe
  BY <1>1, <1>2, <1>3, PTL DEF BusSpec
<1>. QED  BY <1>4 DEF GroupSafe

\* The promise of the consumer group, that no record is lost and none is settled out
\* of turn, holds of every behaviour of the bus: whoever publishes, and whatever the
\* dead-letter producer appends or fails to append while it settles a record.
THEOREM BusKeepsPromise == BusSpec => PromiseKept
<1>1. BusInit => Promise!Init
  BY InitPromise DEF BusInit
<1>2. BusInv /\ [BusNext]_busVars => [Promise!Next]_(Promise!vars)
  <2>1. BusInv => IInv
    BY DEF BusInv
  <2>. QED  BY <2>1, BusIsGroupStep, NextPromise
<1>. QED  BY <1>1, <1>2, BusInvariance, PTL DEF BusSpec, PromiseKept, Promise!Spec

-----------------------------------------------------------------------------
(* What the taxonomy decides.                                               *)

\* A copy is called after the record it was made from, and a publisher that
\* validates has only written what the taxonomy knows.
Named(p, o) ==
  LET source == RecordAt(p, o).origin IN
    source # Original =>
      /\ source[1] \in Partitions /\ source[2] \in Below(Len(log[source[1]]))
      /\ RecordAt(p, o).type = DLQType(RecordAt(source[1], source[2]).type)
      /\ PublisherValidates => RecordAt(p, o).type \in Registered

CopiesNamed == \A p \in Partitions : \A o \in Below(Len(log[p])) : Named(p, o)

GivenUpUnknown(p, o) == /\ <<o, "deadLettered">> \in fate[p]
                        /\ DLQType(RecordAt(p, o).type) \notin Registered

\* The record is in the log, and lost.
IsLost(p, o) == o \in Below(Len(log[p])) /\ (GivenUpUnknown(p, o) => <<p, o>> \in lost)

UnknownLost ==
  PublisherValidates =>
    \A p \in Partitions : \A o \in Nat :
      <<o, "deadLettered">> \in fate[p] => IsLost(p, o)

LEMMA NamedStays ==
  ASSUME IInv, [GroupStep]_vars, NEW p \in Partitions, NEW o \in Below(Len(log[p])),
         Named(p, o), RecordAt(p, o)' = RecordAt(p, o)
  PROVE  Named(p, o)'
<1>1. PICK r : r = RecordAt(p, o)
  OBVIOUS
<1>2. RecordAt(p, o)' = r /\ r = RecordAt(p, o)
  BY <1>1
<1>3. ASSUME r.origin # Original
      PROVE  /\ r.origin[1] \in Partitions /\ r.origin[2] \in Below(Len(log'[r.origin[1]]))
             /\ r.type = DLQType(RecordAt(r.origin[1], r.origin[2])'.type)
             /\ PublisherValidates => r.type \in Registered
  <2>1. PICK q, i : q = r.origin[1] /\ i = r.origin[2]
    OBVIOUS
  <2>2. /\ q \in Partitions /\ i \in Below(Len(log[q]))
        /\ r.type = DLQType(RecordAt(q, i).type) /\ (PublisherValidates => r.type \in Registered)
    BY <1>2, <1>3, <2>1 DEF Named
  <2>3. LogKept(q)
    BY <2>2, LogKeeps
  <2>4. i \in Below(Len(log'[q])) /\ RecordAt(q, i)' = RecordAt(q, i)
    BY <2>2, <2>3 DEF LogKept, Below, RecordAt
  <2>. QED  BY <2>1, <2>2, <2>4
<1>. QED  BY <1>2, <1>3 DEF Named

LEMMA NamedInv == ASSUME BusInv, CopiesNamed, [BusNext]_busVars PROVE CopiesNamed'
<1>. SUFFICES ASSUME NEW p \in Partitions, NEW o \in Below(Len(log'[p])) PROVE Named(p, o)'
  BY DEF CopiesNamed
<1>0. IInv /\ [GroupStep]_vars
  BY BusIsGroupStep DEF BusInv
<1>1. ASSUME o \in Below(Len(log[p])), RecordAt(p, o)' = RecordAt(p, o) PROVE Named(p, o)'
  BY <1>0, <1>1, NamedStays DEF CopiesNamed
<1>2. CASE UNCHANGED log
  BY <1>1, <1>2 DEF RecordAt
<1>3. CASE Published
  <2>1. PICK q \in Partitions, r \in Messages : Writes(q, r) /\ r.origin = Original
    BY <1>3 DEF Published
  <2>2. CASE RecordAt(p, o)' = r
    BY <2>1, <2>2 DEF Named
  <2>. QED  BY <1>0, <1>1, <2>1, <2>2, OldOrNew
<1>4. ASSUME NEW q \in Partitions, NEW i \in Below(Len(log[q])), StoreCopy(q, i) PROVE Named(p, o)'
  <2>2. PICK p2 \in Partitions, r \in Messages :
           /\ Writes(p2, r) /\ r.origin = <<q, i>> /\ r.type = DLQType(RecordAt(q, i).type)
           /\ PublisherValidates => r.type \in Registered
    BY <1>4, CopyFacts
  <2>5. i \in Below(Len(log'[q])) /\ RecordAt(q, i)' = RecordAt(q, i)
    <3>1. LogKept(q)
      BY <1>0, <1>4, LogKeeps
    <3>. QED  BY <1>4, <3>1 DEF LogKept, Below, RecordAt
  <2>6. CASE RecordAt(p, o)' = r
    <3>1. r.origin[1] = q /\ r.origin[2] = i
      BY <2>2
    <3>2. /\ r.origin[1] \in Partitions /\ r.origin[2] \in Below(Len(log'[r.origin[1]]))
          /\ r.type = DLQType(RecordAt(r.origin[1], r.origin[2])'.type)
          /\ PublisherValidates => r.type \in Registered
      BY <2>2, <2>5, <3>1
    <3>. QED  BY <2>6, <3>2 DEF Named
  <2>. QED  BY <1>0, <1>1, <2>2, <2>6, OldOrNew
<1>5. CASE ConsumerStep
  BY <1>0, <1>2, <1>5, ConsumerSettles
<1>6. ASSUME NEW m \in Members, NEW t \in Topics, SendCopy(m, t) \/ Answered(m, t) PROVE UNCHANGED log
  BY <1>6, SendFacts, AnswerFacts
<1>7. CASE UNCHANGED busVars
  BY <1>2, <1>7 DEF busVars, vars
<1>. QED  BY <1>2, <1>3, <1>4, <1>5, <1>6, <1>7, BusKinds

LEMMA LostGrows == ASSUME BusInv, [BusNext]_busVars PROVE lost \subseteq lost'
<1>1. UNCHANGED lost \/ \E x : lost' = lost \cup {x}
  <2>1. ASSUME NEW m \in Members, NEW t \in Topics, SendCopy(m, t) \/ Answered(m, t)
        PROVE  UNCHANGED lost \/ \E x : lost' = lost \cup {x}
    BY <2>1 DEF Answered, SendCopy, CopyWritten, CopyIsRefused, CopyFails, CopyLost, copyVars
  <2>. QED  BY <2>1, BusKinds, StoredGrows DEF Published, ConsumerStep, copyVars, busVars
<1>. QED  BY <1>1

LEMMA LostInv == ASSUME BusInv, UnknownLost, [BusNext]_busVars PROVE UnknownLost'
<1>. SUFFICES ASSUME PublisherValidates, NEW p \in Partitions, NEW o \in Nat,
                     <<o, "deadLettered">> \in fate'[p]
              PROVE  IsLost(p, o)'
  BY DEF UnknownLost
<1>0. IInv /\ [GroupStep]_vars /\ LogKept(p)
  BY BusIsGroupStep, LogKeeps DEF BusInv
<1>1. ASSUME o \in Below(Len(log[p]))
      PROVE  o \in Below(Len(log'[p])) /\ RecordAt(p, o)' = RecordAt(p, o)
  <2>1. RecordAt(p, o)' = RecordAt(p, o)
    BY <1>0, <1>1 DEF LogKept, RecordAt
  <2>2. o \in Below(Len(log'[p]))
    BY <1>0, <1>1 DEF LogKept, Below
  <2>. QED  BY <2>1, <2>2
<1>2. CASE <<o, "deadLettered">> \in fate[p]
  <2>1. IsLost(p, o)
    BY <1>2 DEF UnknownLost
  <2>2. o \in Below(Len(log[p])) /\ (DLQType(RecordAt(p, o).type) \notin Registered => <<p, o>> \in lost)
    BY <1>2, <2>1 DEF IsLost, GivenUpUnknown
  <2>3. <<p, o>> \in lost => <<p, o>> \in lost'
    BY LostGrows
  <2>. QED  BY <1>1, <2>2, <2>3, Zenon DEF IsLost, GivenUpUnknown
<1>3. CASE <<o, "deadLettered">> \notin fate[p]
  <2>1. PICK m \in Members, t \in Topics : Answered(m, t) /\ p = PartOf(m, t) /\ o = OffsetOf(m, t)
    BY <1>3, NewlyGivenUp
  <2>2. pc[m][t] \in Busy
    BY <2>1, AnswerFacts
  <2>3. o \in Below(Len(log[p])) /\ Record(m, t) = RecordAt(p, o)
    BY <1>0, <2>1, <2>2, HeldRecord
  <2>4. CASE CopyWritten(m, t)
    <3>1. DLQType(Record(m, t).type) \in Registered
      <4>1. PICK r : r = Record(m, t)
        OBVIOUS
      <4>2. ~Refuses(CopyType(r), CopyShape(r))
        BY <2>4, <4>1 DEF CopyWritten, CopyRefused
      <4>3. CopyType(r) \in Registered /\ Len(CopyType(r)) >= 3
        BY <4>2, BusAssumption DEF Refuses, PayloadRefused, ValidateEventType
      <4>4. Len(DLQType(<<"unknown">>)) = 2
        BY DEF DLQType
      <4>5. ASSUME r.shape = "garbage" PROVE FALSE
        <5>1. CopyType(r) = DLQType(<<"unknown">>)
          BY <4>5 DEF CopyType, FailedType
        <5>2. Len(CopyType(r)) = 2 /\ Len(CopyType(r)) >= 3
          BY <4>3, <4>4, <5>1
        <5>. QED  BY <5>2
      <4>. QED  BY <4>1, <4>3, <4>5 DEF CopyType, FailedType
    <3>2. DLQType(RecordAt(p, o)'.type) \in Registered
      BY <1>1, <2>3, <3>1, Zenon
    <3>. QED  BY <1>1, <2>3, <3>2 DEF IsLost, GivenUpUnknown
  <2>5. CASE CopyIsRefused(m, t) \/ CopyFails(m, t)
    <3>1. lost' = lost \cup {<<p, o>>}
      BY <2>1, <2>5 DEF CopyIsRefused, CopyFails, CopyLost
    <3>. QED  BY <1>1, <2>3, <3>1 DEF IsLost
  <2>. QED  BY <2>1, <2>4, <2>5 DEF Answered
<1>. QED  BY <1>2, <1>3

\* No copy of the record, and if it was given up it is lost.
KeptNowhere(p, o) ==
  CopiesOf(p, o) = {} /\ (<<o, "deadLettered">> \in fate[p] => <<p, o>> \in lost)

UnregisteredIsLost ==
  \A p \in Partitions : \A o \in Below(Len(log[p])) :
    DLQType(RecordAt(p, o).type) \notin Registered => KeptNowhere(p, o)

\* The converse of SoundSurvives, and the finding FailedIsRepublished for every group
\* and every taxonomy: with a publisher that validates, an event whose ".dlq" type is
\* not registered never has a copy, and one that its handler gave up is lost, with or
\* without a broken broker.
THEOREM UnregisteredIsNeverKept ==
  ASSUME PublisherValidates PROVE BusSpec => []UnregisteredIsLost
<1>. DEFINE I == BusInv /\ CopiesNamed /\ UnknownLost
<1>1. BusInit => I
  <2>. SUFFICES ASSUME BusInit PROVE I
    OBVIOUS
  <2>1. \A p \in Partitions : log[p] = <<>> /\ fate[p] = {}
    BY DEF BusInit, Init
  <2>2. \A p \in Partitions : Below(Len(log[p])) = {}
    BY <2>1 DEF Below
  <2>. QED  BY <2>1, <2>2, InitBus DEF CopiesNamed, UnknownLost
<1>2. I /\ [BusNext]_busVars => I'
  BY BusStep, NamedInv, LostInv
<1>3. I => UnregisteredIsLost
  <2>. SUFFICES ASSUME I, NEW p \in Partitions, NEW o \in Below(Len(log[p])),
                       DLQType(RecordAt(p, o).type) \notin Registered
                PROVE  KeptNowhere(p, o)
    BY DEF UnregisteredIsLost
  <2>1. ASSUME NEW c \in CopiesOf(p, o) PROVE FALSE
    <3>1. PICK q, i : q = c[1] /\ i = c[2]
      OBVIOUS
    <3>2. c \in Copies /\ RecordAt(q, i).origin = <<p, o>>
      BY <3>1 DEF CopiesOf
    <3>3. q \in Partitions /\ i \in Below(Len(log[q])) /\ RecordAt(q, i).origin # Original
      BY <3>1, <3>2, CopyIsRecord
    <3>4. PICK r : r = RecordAt(q, i)
      OBVIOUS
    <3>5. r.origin[1] = p /\ r.origin[2] = o /\ r.origin # Original
      <4>1. r.origin = <<p, o>> /\ r.origin # Original
        BY <3>2, <3>3, <3>4, Zenon
      <4>. QED  BY <4>1
    <3>6. r.type = DLQType(RecordAt(r.origin[1], r.origin[2]).type) /\ r.type \in Registered
      BY <3>3, <3>4, <3>5 DEF CopiesNamed, Named
    <3>. QED  BY <3>5, <3>6
  <2>2. ASSUME <<o, "deadLettered">> \in fate[p] PROVE <<p, o>> \in lost
    <3>1. o \in Nat
      BY DEF BusInv, IInv, TypeOK, BrokerTypeOK, Below
    <3>. QED  BY <2>2, <3>1 DEF UnknownLost, IsLost, GivenUpUnknown
  <2>. QED  BY <2>1, <2>2 DEF KeptNowhere
<1>. QED  BY <1>1, <1>2, <1>3, PTL DEF BusSpec

-----------------------------------------------------------------------------
(* Readers beside the group (LogReaders).                                   *)

\* A replay has read from its start to where it is, found nothing past the end, and
\* handed over what is wanted; a listing has listed what it has read.
Passed(o) == o \in Nat /\ config.start <= o /\ o < readAt

Wanted(o) == IsWanted(RecordAt(config.partition, o))

Handed(i) == Passed(delivered[i]) /\ Wanted(delivered[i])

Increasing == \A i, j \in DOMAIN delivered : i < j => delivered[i] < delivered[j]

Replaying ==
  /\ config.partition \in Partitions /\ config.start \in Nat /\ config.start <= readAt
  /\ config.endOffset \in Nat
  /\ \A o : Passed(o) => /\ o < Len(log[config.partition]) /\ ~IsPastEnd(o)
                         /\ Wanted(o) => \E i \in DOMAIN delivered : delivered[i] = o
  /\ \A i \in DOMAIN delivered : Handed(i)
  /\ Increasing

Listing ==
  /\ readAt <= MaxEntries /\ Len(delivered) = readAt
  /\ \A i \in DOMAIN delivered : delivered[i] = i - 1

ReadersInv ==
  /\ reading \in {"no", "replay", "list"} /\ readAt \in Nat /\ delivered \in Seq(Nat)
  /\ reading = "no" => readAt = 0 /\ delivered = <<>>
  /\ reading = "replay" => Replaying
  /\ reading = "list" => Listing

LEMMA ClosedInv == CloseReader => ReadersInv'
BY DEF CloseReader, ReadersInv

\* The log grows behind the reader's back; what it has read stays.
LEMMA LogGrowsOn ==
  ASSUME IInv, [GroupStep]_vars, ReadersInv, UNCHANGED readerVars
  PROVE  ReadersInv'
<1>1. UNCHANGED <<reading, config, readAt, delivered>>
  BY DEF readerVars
<1>2. CASE reading = "replay"
  <2>1. PICK p : p = config.partition
    OBVIOUS
  <2>2. Replaying /\ p \in Partitions /\ readAt \in Nat
    BY <1>2, <2>1 DEF ReadersInv, Replaying
  <2>3. LogKept(p)
    BY <2>2, LogKeeps
  <2>4. ASSUME NEW o, Passed(o)
        PROVE  o < Len(log'[p]) /\ Wanted(o)' = Wanted(o)
    <3>1. o \in Nat /\ o < Len(log[p]) /\ o \in Below(Len(log[p]))
      BY <2>1, <2>2, <2>3, <2>4 DEF Replaying, Passed, LogKept, Below
    <3>2. log'[p][o + 1] = log[p][o + 1] /\ o < Len(log'[p])
      BY <2>3, <3>1 DEF LogKept
    <3>. QED  BY <1>1, <2>1, <3>2 DEF Wanted, RecordAt, IsWanted
  <2>5. \A o : Passed(o)' <=> Passed(o)
    BY <1>1 DEF Passed
  <2>6. \A o : IsPastEnd(o)' <=> IsPastEnd(o)
    BY <1>1 DEF IsPastEnd
  <2>7. Replaying'
    <3>1. \A o : Passed(o) => /\ o < Len(log'[p]) /\ ~IsPastEnd(o)
                              /\ Wanted(o)' => \E i \in DOMAIN delivered : delivered[i] = o
      BY <2>1, <2>2, <2>4 DEF Replaying
    <3>2. \A i \in DOMAIN delivered : Handed(i)'
      BY <1>1, <2>2, <2>4, <2>5 DEF Replaying, Handed
    <3>3. Increasing' /\ config'.partition = p /\ p \in Partitions
      BY <1>1, <2>1, <2>2 DEF Replaying, Increasing
    <3>4. config'.start \in Nat /\ config'.start <= readAt' /\ config'.endOffset \in Nat
      BY <1>1, <2>2 DEF Replaying
    <3>. QED  BY <1>1, <2>1, <2>5, <2>6, <3>1, <3>2, <3>3, <3>4 DEF Replaying
  <2>. QED  BY <1>1, <1>2, <2>7 DEF ReadersInv
<1>3. CASE reading # "replay"
  BY <1>1, <1>3 DEF ReadersInv, Listing
<1>. QED  BY <1>2, <1>3

LEMMA ReplayStarts ==
  ASSUME IInv, ReadersInv, Replay
  PROVE  ReadersInv'
<1>1. PICK c \in Replays : config' = [c EXCEPT !.start = Seek(c)] /\ readAt' = Seek(c)
  BY DEF Replay
<1>2. c \in ReplayConfig /\ c.partition \in Partitions
  BY <1>1, ReadersAssumption DEF ReplayConfig
<1>3. Seek(c) \in Nat
  <2>1. Len(log[c.partition]) \in Nat
    BY <1>2 DEF IInv, TypeOK, BrokerTypeOK
  <2>2. c.start \in Nat \/ c.start = LastOffset
    BY <1>2, ConsumerAssumption DEF ReplayConfig, Below
  <2>. QED  BY <2>1, <2>2 DEF Seek
<1>4. config'.partition = c.partition /\ config'.start = Seek(c) /\ config'.endOffset \in Nat
  BY <1>1, <1>2 DEF ReplayConfig
<1>5. reading' = "replay" /\ delivered' = <<>>
  BY DEF Replay, ReadersInv
<1>6. \A o : ~Passed(o)'
  BY <1>1, <1>3, <1>4 DEF Passed
<1>7. Replaying'
  BY <1>1, <1>2, <1>3, <1>4, <1>5, <1>6 DEF Replaying, Increasing
<1>. QED  BY <1>1, <1>3, <1>5, <1>7 DEF ReadersInv

LEMMA ReplayMoves ==
  ASSUME IInv, ReadersInv, ReplayRecord, UNCHANGED busVars
  PROVE  ReadersInv'
<1>1. /\ reading = "replay" /\ HasNext /\ ~IsPastEnd(readAt) /\ readAt' = readAt + 1
      /\ UNCHANGED <<reading, config, log>>
  BY DEF ReplayRecord, busVars, vars
<1>2. Replaying /\ readAt \in Nat /\ delivered \in Seq(Nat) /\ Len(delivered) \in Nat
  BY <1>1 DEF ReadersInv
<1>3. PICK p : p = config.partition
  OBVIOUS
<1>4. readAt < Len(log[p])
  BY <1>1, <1>3 DEF HasNext
<1>5. /\ config.start \in Nat /\ config.start <= readAt /\ p \in Partitions
      /\ config.endOffset \in Nat
  BY <1>2, <1>3 DEF Replaying
<1>6. \A o : Passed(o)' <=> Passed(o) \/ o = readAt
  BY <1>1, <1>2, <1>5 DEF Passed
<1>7. \A o : (Wanted(o)' <=> Wanted(o)) /\ (IsPastEnd(o)' <=> IsPastEnd(o))
  BY <1>1 DEF Wanted, RecordAt, IsPastEnd, IsWanted
<1>8. CASE Wanted(readAt)
  <2>1. delivered' = Append(delivered, readAt)
    BY <1>8, Zenon DEF ReplayRecord, Wanted
  <2>2. PICK n : n = Len(delivered) + 1
    OBVIOUS
  <2>3. /\ delivered' \in Seq(Nat) /\ DOMAIN delivered' = DOMAIN delivered \cup {n}
        /\ delivered'[n] = readAt /\ DOMAIN delivered = 1 .. n - 1 /\ n \in Nat
        /\ \A i \in DOMAIN delivered : delivered'[i] = delivered[i]
    BY <1>2, <2>1, <2>2
  <2>4. \A i \in DOMAIN delivered : delivered[i] < readAt
    BY <1>2 DEF Replaying, Handed, Passed
  <2>5. Increasing'
    <3>. SUFFICES ASSUME NEW i \in DOMAIN delivered', NEW j \in DOMAIN delivered', i < j
                  PROVE  delivered'[i] < delivered'[j]
      BY DEF Increasing
    <3>1. i \in DOMAIN delivered
      BY <2>3
    <3>2. CASE j = n
      BY <2>3, <2>4, <3>1, <3>2
    <3>3. CASE j # n
      BY <1>2, <2>3, <3>1, <3>3 DEF Replaying, Increasing
    <3>. QED  BY <3>2, <3>3
  <2>6. ASSUME NEW i \in DOMAIN delivered' PROVE Handed(i)'
    <3>1. CASE i = n
      BY <1>6, <1>7, <1>8, <2>3, <3>1 DEF Handed
    <3>2. CASE i # n
      <4>1. i \in DOMAIN delivered /\ delivered'[i] = delivered[i]
        BY <2>3, <3>2
      <4>2. PICK o : o = delivered[i]
        OBVIOUS
      <4>3. Passed(o) /\ Wanted(o)
        BY <1>2, <4>1, <4>2 DEF Replaying, Handed
      <4>4. Passed(o)' /\ Wanted(o)'
        BY <1>6, <1>7, <4>3
      <4>. QED  BY <4>1, <4>2, <4>4 DEF Handed
    <3>. QED  BY <3>1, <3>2
  <2>7. ASSUME NEW o, Passed(o)'
        PROVE  /\ o < Len(log'[p]) /\ ~IsPastEnd(o)'
               /\ Wanted(o)' => \E i \in DOMAIN delivered' : delivered'[i] = o
    <3>1. CASE o = readAt
      BY <1>1, <1>4, <1>7, <2>3, <3>1
    <3>2. CASE Passed(o)
      <4>1. /\ o < Len(log[p]) /\ ~IsPastEnd(o)
            /\ Wanted(o) => \E i \in DOMAIN delivered : delivered[i] = o
        BY <1>2, <1>3, <3>2 DEF Replaying
      <4>. QED  BY <1>1, <1>7, <2>3, <4>1
    <3>. QED  BY <1>6, <2>7, <3>1, <3>2
  <2>8. Replaying'
    BY <1>1, <1>2, <1>3, <1>5, <2>5, <2>6, <2>7 DEF Replaying
  <2>. QED  BY <1>1, <1>2, <2>3, <2>8 DEF ReadersInv
<1>9. CASE ~Wanted(readAt)
  <2>1. delivered' = delivered
    BY <1>9, Zenon DEF ReplayRecord, Wanted
  <2>2. ASSUME NEW i \in DOMAIN delivered PROVE Handed(i)'
    <3>1. PICK o : o = delivered[i]
      OBVIOUS
    <3>2. Passed(o)' /\ Wanted(o)'
      BY <1>2, <1>6, <1>7, <3>1 DEF Replaying, Handed
    <3>. QED  BY <2>1, <3>1, <3>2 DEF Handed
  <2>3. ASSUME NEW o, Passed(o)'
        PROVE  /\ o < Len(log'[p]) /\ ~IsPastEnd(o)'
               /\ Wanted(o)' => \E i \in DOMAIN delivered' : delivered'[i] = o
    <3>1. CASE o = readAt
      BY <1>1, <1>4, <1>7, <1>9, <3>1
    <3>2. CASE Passed(o)
      <4>1. /\ o < Len(log[p]) /\ ~IsPastEnd(o)
            /\ Wanted(o) => \E i \in DOMAIN delivered : delivered[i] = o
        BY <1>2, <1>3, <3>2 DEF Replaying
      <4>. QED  BY <1>1, <1>7, <2>1, <4>1
    <3>. QED  BY <1>6, <2>3, <3>1, <3>2
  <2>4. Increasing'
    BY <1>2, <2>1 DEF Replaying, Increasing
  <2>5. Replaying'
    BY <1>1, <1>2, <1>3, <1>5, <2>1, <2>2, <2>3, <2>4 DEF Replaying
  <2>. QED  BY <1>1, <1>2, <2>1, <2>5 DEF ReadersInv
<1>. QED  BY <1>8, <1>9

LEMMA ListMoves ==
  ASSUME ReadersInv, ListDLQ \/ ListEntry
  PROVE  ReadersInv'
<1>1. CASE ListDLQ
  BY <1>1, ReadersAssumption DEF ListDLQ, ReadersInv, Listing
<1>2. CASE ListEntry
  <2>1. /\ reading = "list" /\ Len(delivered) < MaxEntries /\ readAt' = readAt + 1
        /\ delivered' = Append(delivered, readAt) /\ UNCHANGED <<reading, config>>
    BY <1>2 DEF ListEntry
  <2>2. Listing /\ readAt \in Nat /\ delivered \in Seq(Nat)
    BY <2>1 DEF ReadersInv
  <2>3. readAt = Len(delivered) /\ \A i \in DOMAIN delivered : delivered[i] = i - 1
    BY <2>2 DEF Listing
  <2>4. /\ delivered' \in Seq(Nat) /\ Len(delivered') = readAt' /\ readAt' <= MaxEntries
        /\ \A i \in DOMAIN delivered' : delivered'[i] = i - 1
    BY <2>1, <2>2, <2>3, ReadersAssumption
  <2>. QED  BY <2>1, <2>2, <2>4 DEF ReadersInv, Listing
<1>. QED  BY <1>1, <1>2

LEMMA ReadersTell == ReadersInv => ReadersTellTheLog
<1>. SUFFICES ASSUME ReadersInv PROVE ReadersTellTheLog
  OBVIOUS
<1>. DEFINE passed == {o \in Below(readAt) : o >= config.start}
            window == {o \in passed : \A past \in passed : past <= o =>
                         /\ config.endOffset > 0 => past < config.endOffset
                         /\ past \notin config.late}
            wanted == {o \in window : IsWanted(RecordAt(config.partition, o))}
<1>0. readAt \in Nat /\ delivered \in Seq(Nat)
  BY DEF ReadersInv
<1>1. ASSUME reading = "replay"
      PROVE  ToSet(delivered) = wanted /\ window = passed /\ Increasing
  <2>1. Replaying
    BY <1>1 DEF ReadersInv
  <2>2. \A o : o \in passed <=> Passed(o)
    BY <1>0, <2>1 DEF Passed, Below, Replaying
  <2>3. \A o \in passed : ~IsPastEnd(o)
    BY <2>1, <2>2 DEF Replaying
  <2>4. window = passed
    <3>1. \A o \in passed : (config.endOffset > 0 => ~(o >= config.endOffset)) /\ o \notin config.late
      BY <2>3 DEF IsPastEnd
    <3>2. config.endOffset \in Nat /\ \A o \in passed : o \in Nat
      BY <2>1, <2>2 DEF Replaying, Passed
    <3>. QED  BY <3>1, <3>2
  <2>5. \A o : o \in wanted <=> Passed(o) /\ Wanted(o)
    BY <2>2, <2>4 DEF Wanted
  <2>. HIDE DEF wanted, window, passed
  <2>6. \A o : o \in ToSet(delivered) <=> o \in wanted
    BY <2>1, <2>5 DEF ToSet, Replaying, Handed
  <2>. QED  BY <2>1, <2>4, <2>6 DEF Replaying
<1>2. ASSUME reading = "list"
      PROVE  delivered = [i \in 1..readAt |-> i - 1] /\ readAt <= MaxEntries
  BY <1>0, <1>2 DEF ReadersInv, Listing
<1>. QED  BY <1>1, <1>2 DEF ReadersTellTheLog, Increasing

\* A replay has handed over each wanted record that lies between its start and where
\* it is, once and in order, and nothing past the end; a listing shows the beginning
\* of the topic: whatever is written, consumed and copied meanwhile.
THEOREM ReadersAreRight == ReadersSpec => []ReadersTellTheLog
<1>. DEFINE AllInv == BusInv /\ ReadersInv
<1>1. ReadersInit => AllInv
  BY InitBus DEF ReadersInit, ReadersInv
<1>2. AllInv /\ [ReadersNext]_<<busVars, readerVars>> => AllInv'
  <2>. SUFFICES ASSUME AllInv, [ReadersNext]_<<busVars, readerVars>> PROVE AllInv'
    OBVIOUS
  <2>1. BusInv /\ ReadersInv /\ IInv
    BY DEF BusInv
  <2>2. CASE [BusNext]_busVars /\ UNCHANGED readerVars
    <3>1. BusInv' /\ [GroupStep]_vars
      BY <2>1, <2>2, BusStep, BusIsGroupStep
    <3>. QED  BY <2>1, <2>2, <3>1, LogGrowsOn
  <2>3. CASE ReaderStep /\ UNCHANGED busVars
    <3>1. BusInv'
      BY <2>1, <2>3, BusStep
    <3>2. ReadersInv'
      BY <2>1, <2>3, ReplayStarts, ReplayMoves, ListMoves, ClosedInv
         DEF ReaderStep, ReplayReturns, HandlerRefuses, ReadFails, ListReturns
    <3>. QED  BY <3>1, <3>2
  <2>. QED  BY <2>2, <2>3 DEF ReadersNext
<1>3. AllInv => ReadersTellTheLog
  BY ReadersTell
<1>. QED  BY <1>1, <1>2, <1>3, PTL DEF ReadersSpec
=============================================================================
