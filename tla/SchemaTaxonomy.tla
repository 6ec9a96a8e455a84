--------------------------- MODULE SchemaTaxonomy ---------------------------
(***************************************************************************)
(* The event registry that every process has for itself, the cache of      *)
(* compiled schemas in front of the validator, the publisher's batches and *)
(* the schema registry of Confluent that all processes share (external).   *)
(* Goroutines publish and consume; `step' is the next step of each.        *)
(***************************************************************************)
EXTENDS EventTypes, FiniteSets, SequencesExt

CONSTANTS Processes, Publishers, Consumers,  \* consumers and publishers are goroutines
          Async,          \* those whose publisher was configured with Async
          ProcessOf,      \* the process of each goroutine
          Types,          \* event types that anybody speaks of
          Sorted,         \* they in the order of their names
          Taxonomy,       \* registeredEvents: type -> schema
          Extensions,     \* what services try to register: pairs of type and schema
          Schemas,        \* sources of schemas
          Broken,         \* those that are no JSON
          NoSchema,       \* the empty source
          Payloads,
          Accepts,        \* pairs of a schema and a payload that validateNode passes
          Batches,        \* what callers publish: sequences of events; PublishBatch
                          \* returns at once when it is given none
          MaxChanges,     \* bound: extensions registered
          MaxAttempts,    \* bound: batches published, those published again included
          MaxFaults       \* bound: failed writes and registry requests

Goroutines == Publishers \union Consumers

ASSUME TaxonomyAssumption ==
  /\ Publishers \cap Consumers = {} /\ Async \subseteq Publishers
  /\ ProcessOf \in [Goroutines -> Processes]
  /\ Types \subseteq EventType /\ Range(Sorted) = Types
  /\ \A e \in DOMAIN Taxonomy : e \in Types /\ Taxonomy[e] \in Schemas
  /\ Extensions \subseteq Types \X (Schemas \union {NoSchema})
  /\ Broken \subseteq Schemas /\ NoSchema \notin Schemas
  /\ Accepts \subseteq (Schemas \ Broken) \X Payloads
  /\ Batches \subseteq Seq([type : Types, payload : Payloads]) \ {<<>>}
  /\ MaxChanges \in Nat /\ MaxAttempts \in Nat /\ MaxFaults \in Nat

VARIABLES registry,    \* registry of each process
          compiled,    \* compiledByEv of each process; the source stands for its tree
          step,        \* of each goroutine
          events,      \* what it publishes, or the one event that it consumes
          n,           \* which of them it is at
          schema,      \* the schemas that it looked up for them
          sent,        \* what the writers of kafka-go were given
          log,         \* what the brokers have of it
          seen,        \* consumers: identifiers of the records delivered
          rejected,    \* history: consumers' refusals
          acked,       \* history: calls of Publish or PublishBatch that returned nil
          subjects,    \* external: the latest schema of each subject
          booted,      \* processes that have called RegisterAllSchemas
          booting,     \* the events that each of them has yet to push
          boots,       \* and the registry as AllEvents read it
          pushed,      \* history: what it pushed: event type and schema
          warned,      \* history: warnings of drift
          changes, attempts, faults

goroutineVars == <<step, events, n, schema>>
brokerVars == <<sent, log, seen, rejected, acked>>
registryVars == <<subjects, booted, booting, boots, pushed, warned>>
bounds == <<changes, attempts, faults>>
vars == <<registry, compiled, goroutineVars, brokerVars, registryVars, bounds>>

\* A call of a publisher: who calls, and which of its calls it is.
Call(g) == <<g, attempts[g]>>

Init ==
  /\ registry = [p \in Processes |-> Taxonomy]
  /\ compiled = [p \in Processes |-> <<>>]
  /\ step = [g \in Goroutines |-> "idle"]
  /\ events = [g \in Goroutines |-> <<>>]
  /\ n = [g \in Goroutines |-> 1]
  /\ schema = [g \in Goroutines |-> <<>>]
  /\ sent = {}
  /\ log = {}
  /\ seen = [g \in Consumers |-> {}]
  /\ rejected = {}
  /\ acked = {}
  /\ subjects = <<>>
  /\ booted = {}
  /\ booting = [p \in Processes |-> <<>>]
  /\ boots = [p \in Processes |-> <<>>]
  /\ pushed = {}
  /\ warned = {}
  /\ changes = 0
  /\ attempts = [g \in Publishers |-> 0]
  /\ faults = 0

Fault == faults < MaxFaults /\ faults' = faults + 1
Go(g, s) == step' = [step EXCEPT ![g] = s]

\* The call is over and its variables with it.
Return(g) ==
  /\ Go(g, "idle")
  /\ events' = [events EXCEPT ![g] = <<>>]
  /\ n' = [n EXCEPT ![g] = 1]
  /\ schema' = [schema EXCEPT ![g] = <<>>]

-----------------------------------------------------------------------------
\* The registry and the cache, of one process.

\* RegisterExtensionEvent; with an event or a schema that it refuses it does nothing.
RegisterExtensionEvent(p, e, s) ==
  /\ changes < MaxChanges
  /\ ValidateEventType(e) /\ s # NoSchema
  /\ registry' = [registry EXCEPT ![p] = [f \in DOMAIN @ \union {e} |-> IF f = e THEN s ELSE @[f]]]
  /\ changes' = changes + 1
  /\ UNCHANGED <<compiled, goroutineVars, brokerVars, registryVars, attempts, faults>>

LookupEvent(p, e) == IF e \in DOMAIN registry[p] THEN registry[p][e] ELSE NoSchema

\* Mutant: what has been compiled once is good for ever.
HasCompiled(p, e, s) == e \in DOMAIN compiled[p]

\* compileSchema's hit: the source must be that of now.
IsCompiled(p, e, s) == e \in DOMAIN compiled[p] /\ compiled[p][e] = s

\* RegisterAllSchemas has returned, if it has been called.
IsUp(p) == booting[p] = <<>>

IsUnused(g) == IF g \in Publishers THEN attempts[g] = 0 ELSE step[g] = "idle" /\ seen[g] = {}

current(g) == events[g][n[g]]
isPublisher(g) == g \in Publishers

\* The refusal of a payload: the caller gets an error, the consumer drops the record.
Refuse(g, s) ==
  /\ Return(g)
  /\ rejected' = IF isPublisher(g) THEN rejected
                 ELSE rejected \union {[record |-> current(g), schema |-> s]}

\* The payload has been judged by a compiled schema; then the next one's turn.
Judge(g, tree) ==
  IF <<tree, current(g).payload>> \notin Accepts THEN Refuse(g, Last(schema[g]))
  ELSE /\ IF n[g] < Len(events[g])
          THEN n' = [n EXCEPT ![g] = @ + 1] /\ Go(g, "lookup")
          ELSE n' = n /\ Go(g, IF isPublisher(g) THEN "write" ELSE "fetch")
       /\ UNCHANGED <<events, schema, rejected>>

\* Publish, PublishBatch (both, for each event) and ValidateRawPayload look it up.
Lookup(g) ==
  LET e == current(g).type
      s == LookupEvent(ProcessOf[g], e)
  IN
  /\ step[g] = "lookup"
  /\ IF (isPublisher(g) => ValidateEventType(e)) /\ s # NoSchema
     THEN /\ Go(g, "cache")
          /\ schema' = [schema EXCEPT ![g] = Append(@, s)]
          /\ UNCHANGED <<events, n, rejected>>
     ELSE Refuse(g, s)
  /\ UNCHANGED <<registry, compiled, sent, log, seen, acked, registryVars, bounds>>

\* compileSchema, under the read lock.
Cache(g) ==
  LET p == ProcessOf[g]
      e == current(g).type
  IN
  /\ step[g] = "cache"
  /\ IF IsCompiled(p, e, Last(schema[g]))
     THEN Judge(g, compiled[p][e])
     ELSE Go(g, "parse") /\ UNCHANGED <<events, n, schema, rejected>>
  /\ UNCHANGED <<registry, compiled, sent, log, seen, acked, registryVars, bounds>>

\* compileSchema without a hit: the registry may have changed by the time it stores.
Parse(g) ==
  LET s == Last(schema[g])
      e == current(g).type
  IN
  /\ step[g] = "parse"
  /\ IF s \in Broken
     THEN Refuse(g, s) /\ UNCHANGED compiled
     ELSE /\ compiled' = [compiled EXCEPT ![ProcessOf[g]] =
                            [f \in DOMAIN @ \union {e} |-> IF f = e THEN s ELSE @[f]]]
          /\ Judge(g, s)
  /\ UNCHANGED <<registry, sent, log, seen, acked, registryVars, bounds>>

-----------------------------------------------------------------------------
\* Publish (one event) and PublishBatch.

Begin(g, batch) ==
  /\ FoldFunction(+, 0, attempts) < MaxAttempts
  /\ IsUp(ProcessOf[g])
  /\ attempts' = [attempts EXCEPT ![g] = @ + 1]
  /\ events' = [events EXCEPT ![g] = batch]
  /\ n' = [n EXCEPT ![g] = 1]
  /\ schema' = [schema EXCEPT ![g] = <<>>]
  /\ Go(g, "lookup")
  /\ UNCHANGED <<registry, compiled, brokerVars, registryVars, changes, faults>>

PublishBatch(g) == step[g] = "idle" /\ \E batch \in Batches : Begin(g, batch)

\* A caller that got an error from the brokers publishes the same events again.
PublishAgain(g) == step[g] = "failed" /\ Begin(g, events[g])

\* newCloudEvent: an identifier of its own. Keys for idempotency are left out: only
\* the handlers, which are external, look at them.
cloudEvent(g, i) == [id |-> <<Call(g), i>>, type |-> events[g][i].type,
                     payload |-> events[g][i].payload, checkedBy |-> schema[g][i]]

\* Mutant: the loop's messages all point at its last one.
LastMessages(g) == {cloudEvent(g, Len(events[g]))}

messages(g) == {cloudEvent(g, i) : i \in DOMAIN events[g]}

acknowledged(g) == acked' = acked \union {[call |-> Call(g), size |-> Len(events[g])]}

\* WriteMessages looks for the partitions of all messages, and fails before it does
\* anything, or queues them in one batch per partition. With Async it returns then.
Write(g) ==
  /\ step[g] = "write"
  /\ \/ /\ sent' = sent \union messages(g)
        /\ IF g \in Async
           THEN acknowledged(g) /\ Return(g)
           ELSE Go(g, "await") /\ UNCHANGED <<events, n, schema, acked>>
        /\ UNCHANGED faults
     \/ /\ Fault
        /\ Go(g, "failed")
        /\ UNCHANGED <<events, n, schema, sent, acked>>
  /\ UNCHANGED <<registry, compiled, log, seen, rejected, registryVars, changes, attempts>>

\* A broker stores a message, in any order, whether or not its caller still waits.
\* One that never lands is lost. What the writer's retries store twice is one record of
\* the log: EventBus tells the copies apart.
Land ==
  /\ \E r \in sent \ log : log' = log \union {r}
  /\ UNCHANGED <<registry, compiled, goroutineVars, sent, seen, rejected, acked, registryVars,
                 bounds>>

\* Without Async WriteMessages waits for every partition. It may fail when some of
\* the messages, or all, have been written, and with others under way.
Await(g) ==
  /\ step[g] = "await"
  /\ \/ messages(g) \subseteq log /\ acknowledged(g) /\ Return(g) /\ UNCHANGED faults
     \/ Fault /\ Go(g, "failed") /\ UNCHANGED <<events, n, schema, acked>>
  /\ UNCHANGED <<registry, compiled, sent, log, seen, rejected, registryVars, changes, attempts>>

-----------------------------------------------------------------------------
\* A consumer is given a record that it has not seen and validates its data.
Deliver(g) ==
  /\ step[g] = "idle" /\ IsUp(ProcessOf[g])
  /\ \E r \in log : r.id \notin seen[g]
       /\ seen' = [seen EXCEPT ![g] = @ \union {r.id}]
       /\ events' = [events EXCEPT ![g] = <<r>>]
  /\ n' = [n EXCEPT ![g] = 1]
  /\ schema' = [schema EXCEPT ![g] = <<>>]
  /\ Go(g, "lookup")
  /\ UNCHANGED <<registry, compiled, sent, log, rejected, acked, registryVars, bounds>>

subjectForTopic(t) == Append(t, "value")
subject(e) == subjectForTopic(topicFromEventType(e))

\* RegisterAllSchemas, once when a service boots and before its goroutines start, if
\* it has a flag set to do so: AllEvents reads the registry.
RegisterAllSchemas(p) ==
  /\ p \notin booted
  /\ \A g \in Goroutines : ProcessOf[g] = p => IsUnused(g)
  /\ booted' = booted \union {p}
  /\ booting' = [booting EXCEPT ![p] = SelectSeq(Sorted, LAMBDA e : e \in DOMAIN registry[p])]
  /\ boots' = [boots EXCEPT ![p] = registry[p]]
  /\ UNCHANGED <<registry, compiled, goroutineVars, brokerVars, subjects, pushed, warned, bounds>>

\* RegisterSchema of the next event; one that fails is skipped.
RegisterSchema(p) ==
  /\ booting[p] # <<>>
  /\ booting' = [booting EXCEPT ![p] = Tail(@)]
  /\ LET e == Head(booting[p])
         s == boots[p][e]
     IN \/ /\ subjects' = [t \in DOMAIN subjects \union {subject(e)} |->
                             IF t = subject(e) THEN s ELSE subjects[t]]
           /\ pushed' = pushed \union {[type |-> e, schema |-> s]}
           /\ UNCHANGED faults
        \/ Fault /\ UNCHANGED <<subjects, pushed>>
  /\ UNCHANGED <<registry, compiled, goroutineVars, brokerVars, booted, boots, warned, changes,
                 attempts>>

\* FetchLatestSchemaForEvent, called with an event that has been accepted: LookupEvent.
FetchLatestSchemaForEvent(g) ==
  /\ step[g] = "fetch"
  /\ Go(g, "compare")
  /\ schema' = [schema EXCEPT ![g] = <<LookupEvent(ProcessOf[g], current(g).type)>>]
  /\ UNCHANGED <<registry, compiled, events, n, brokerVars, registryVars, bounds>>

\* Mutant: a subject that the registry does not know has drifted.
DiffersOrMissing(t, own) == t \notin DOMAIN subjects \/ subjects[t] # own

Drifted(t, own) == t \in DOMAIN subjects /\ subjects[t] # own

\* GetLatestSchema answers, or fails, and so it does for an unknown subject.
Compare(g) ==
  LET e == current(g).type
      own == Last(schema[g])
  IN
  /\ step[g] = "compare"
  /\ Return(g)
  /\ \/ /\ warned' = IF Drifted(subject(e), own)
                     THEN warned \union {[type |-> e, schema |-> own]} ELSE warned
        /\ UNCHANGED faults
     \/ Fault /\ UNCHANGED warned
  /\ UNCHANGED <<registry, compiled, brokerVars, subjects, booted, booting, boots, pushed,
                 changes, attempts>>

Next ==
  \/ \E p \in Processes :
       \/ \E x \in Extensions : RegisterExtensionEvent(p, x[1], x[2])
       \/ RegisterAllSchemas(p) \/ RegisterSchema(p)
  \/ \E g \in Goroutines : Lookup(g) \/ Cache(g) \/ Parse(g)
  \/ \E g \in Publishers : PublishBatch(g) \/ PublishAgain(g) \/ Write(g) \/ Await(g)
  \/ Land
  \/ \E g \in Consumers : Deliver(g) \/ FetchLatestSchemaForEvent(g) \/ Compare(g)

Spec == Init /\ [][Next]_vars

-----------------------------------------------------------------------------
\* The registry may change in one process only (event_taxonomy.go:1607) and while
\* another goroutine is between its lookup and the cache. Whatever has been
\* published passed the schema that was looked up for it, and a consumer that
\* refuses it went by another one: never by one that the cache kept.
RejectionMeansSkew ==
  /\ \A r \in log : <<r.checkedBy, r.payload>> \in Accepts
  /\ \A x \in rejected : x.schema # x.record.checkedBy
  /\ \A g \in Consumers : step[g] = "fetch" =>
       <<Last(schema[g]), current(g).payload>> \in Accepts

\* A batch that failed may be written in part, now or later, and is published again
\* (publisher.go:180). A call that returned nil has every event of its batch in the
\* log, or with Async in the writer's hands; one that has not got to writing, or is
\* refused, has handed over none.
Promised(g) == IF g \in Async THEN sent ELSE log
BatchIsWhole ==
  /\ \A a \in acked : \A i \in 1..a.size : \E r \in Promised(a.call[1]) : r.id = <<a.call, i>>
  /\ log \subseteq sent
  /\ \A g \in Publishers : step[g] \in {"lookup", "cache", "parse", "write"} =>
       \A r \in sent : r.id[1] # Call(g)

\* What callers see: nothing of the checks, and of a record nothing of its schema.
PhaseOf(s) == IF s \in {"lookup", "cache", "parse", "write"} THEN "open"
              ELSE IF s = "await" THEN "waiting"
              ELSE IF s = "failed" THEN "failed" ELSE "over"
Phases == [g \in Publishers |-> PhaseOf(step[g])]
Asked == [g \in Publishers |-> events[g]]
entry(r) == [id |-> r.id, type |-> r.type, payload |-> r.payload]
Queued == {entry(r) : r \in sent}
Entered == {entry(r) : r \in log}

Batching == INSTANCE BatchPublisher WITH
  Callers <- Publishers, phase <- Phases, calls <- attempts, batch <- Asked, given <- Queued,
  log <- Entered

\* PublishBatch checks event by event, sends the messages that it has collected
\* meanwhile in one call (publisher.go:140-186), and its callers repeat what fails.
\* Whatever is registered meanwhile and whoever else publishes, each call hands
\* over all that it was given, once, or is refused and hands over nothing; what
\* comes to the brokers, even when the call has failed, was handed over; and nil
\* means that all of it is in the log, or with Async (publisher.go:21, 88) no more
\* than that it was handed over.
NilIsKept == Batching!Spec

\* Soft verification (schema_validator.go:83) warns only if some process pushed
\* another schema to the subject: an older one or its own for this event, or the
\* schema of another event that shares the topic, which is no drift at all.
WarningHasCause ==
  \A w \in warned : \E u \in pushed :
    subject(u.type) = subject(w.type) /\ u.schema # w.schema

=============================================================================
