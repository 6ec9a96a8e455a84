----------------------------- MODULE MCEventBus -----------------------------
(* One service, its topic and the dead-letter copies of its events.        *)
EXTENDS EventBus, TLC

MCSegment == {"identity", "user", "registered", "dlq", "unknown"}

registered == <<"identity", "user", "registered">>
short      == <<"identity", "user">>

MCTopics     == {short}
OnePartition == {"p1"}
MCTopicOf    == [p \in Partitions |-> short]

MCEventTypes == {registered, DLQType(registered), DLQType(DLQType(registered)),
                 DLQType(DLQType(DLQType(registered))), short, <<"unknown">>}
MCHandled    == {registered}
MCOutgoing   == {registered, short}

\* The taxonomy as it is in the source, and one extended with the types of
\* the copy and of the copy's copy.
Shipped  == {registered}
Extended == Shipped \cup {DLQType(registered), DLQType(DLQType(registered))}

MCMessages ==
  [type : EventTypes, shape : Shapes, origin : (Partitions \X Below(MaxLog)) \cup {Original}]
MCTypeOf        == [r \in Messages |-> r.type]
MCMalformed     == {r \in Messages : r.shape \in {"mistyped", "garbage"}}
MCSchemaInvalid == {r \in Messages : r.shape \in {"odd", "wrecked"} \/ r.type \notin Registered}

RetryOnce == [m \in Members |-> 1]
=============================================================================
