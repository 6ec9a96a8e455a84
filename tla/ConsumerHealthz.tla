--------------------------- MODULE ConsumerHealthz ---------------------------
(***************************************************************************)
(* What a service tells its operators of its consumer: Health of           *)
(* kafka/consumer.go and the two pages made from it, kafka/healthz.go for  *)
(* one consumer and kafka/consumer_healthz.go for several.                 *)
(***************************************************************************)
EXTENDS KafkaConsumer

\* External: Lag of a kafka-go reader in a consumer group is -1, always; without a
\* reader the row keeps its zero. (The race of Health with Start and Close on the
\* list of readers decides between the two.)
Lag == {-1, 0}

\* One row for each topic with a record that was handled or given up.
Health(m) ==
  {[topic |-> t, lastOffset |-> health[m][t].last, failed |-> health[m][t].failed] :
     t \in {topic \in Topics : health[m][topic].last # NoOffset}}

SubscribedTypes(m) == handlers[m]

IsDegraded(row) == row.failed \/ \E lag \in Lag : lag > 10000

HealthzHandler(m) ==
  [status |-> IF \E row \in Health(m) : IsDegraded(row) THEN "degraded" ELSE "ok",
   subscriptions |-> SubscribedTypes(m), topics |-> Health(m)]

\* The page of a process that runs several consumers; here, of all of them.
ConsumersHealthzHandler(consumers) ==
  LET rows == UNION {Health(m) : m \in consumers} IN
  [status |-> IF \E row \in rows : IsDegraded(row) THEN "degraded" ELSE "ok",
   subscriptions |-> UNION {SubscribedTypes(m) : m \in consumers}, consumers |-> rows]

GivenUp(t) ==
  {x \in [partition : {p \in Partitions : TopicOf[p] = t}, offset : Below(MaxLog)] :
     /\ \E f \in {"deadLettered", "dropped"} : <<x.offset, f>> \in fate[x.partition]
     /\ log[x.partition][x.offset + 1] \notin Malformed}

\* A goroutine that is about to call recordFailure.
Unreported(t) == \E m \in Members : pc[m][t] = "report" /\ reason[m][t] # "none"

\* The pages can be believed (consumer.go:116-135): a row names a record that is
\* settled, never one that is still being handled or was lost with the process
\* before; a page is degraded only if a record of the topic was given up that a
\* handler or the schema refused; and as long as no process has ended, the pages of
\* the group are degraded if there is one, but for the moment between the return of
\* DeadLetterFunc and recordFailure (consumer.go:259-260, 286-287).
HealthIsTrue ==
  /\ \A m \in Members : \A row \in HealthzHandler(m).topics :
       /\ \E p \in Partitions : TopicOf[p] = row.topic /\ row.lastOffset \in Settled(p)
       /\ IsDegraded(row) => GivenUp(row.topic) # {}
  /\ disruptions = 0 =>
       \A t \in Topics : GivenUp(t) # {} =>
         ConsumersHealthzHandler(Members).status = "degraded" \/ Unreported(t)

=============================================================================
