----------------------------- MODULE EventTypes -----------------------------
(***************************************************************************)
(* kafka/event.go and the naming part of kafka/dlq.go and event_taxonomy.go *)
(* as pure operators.  An event type "identity.user.registered" is the     *)
(* sequence of its segments; a topic "sentiae.identity.user" is the        *)
(* sequence of the segments after the prefix, which never changes.         *)
(* Whether one segment is well formed is left out.                         *)
(***************************************************************************)
EXTENDS Naturals, Sequences

CONSTANT Segment   \* the words between dots

EventType == Seq(Segment) \ {<<>>}

ValidateEventType(e) == Len(e) >= 3

\* splitEventParts and topicFromEventType: domain and resource name the topic.
topicFromEventType(e) == IF Len(e) >= 2 THEN SubSeq(e, 1, 2) ELSE e

\* DLQProducer.Send names the copy of a failed event eventType + ".dlq".
DLQType(e) == Append(e, "dlq")

\* The name the comment on DLQProducer gives its topic.
DLQTopic(t) == Append(t, "dlq")

\* ".dlq" at the end of a name or ".dlq." inside it; "-dlq" is left out.
IsDLQTopic(t) == \E i \in DOMAIN t : t[i] = "dlq"

\* KnownTopics, for a set of registered types.
KnownTopics(registered) == {topicFromEventType(e) : e \in registered}

\* The number of ".dlq" at the end of a type of three segments.
Depth(e) == IF Len(e) > 3 THEN Len(e) - 3 ELSE 0
=============================================================================
