# platform-kit in TLA+

`platform-kit` is the Go library that every Sentiae service links: it talks to
Kafka, sends and receives webhooks, validates tokens, records audit and history
rows, loads configuration and secrets, and wraps HTTP and gRPC handlers. It has
no `main` of its own but `cmd/kafka-replay`. What can go wrong in it goes wrong
between goroutines, between processes and between it and a broker, a database
or a remote service. That is what these modules are about.

The modules are translated from the code under `src/`. What is not under `src/`
(Kafka's group coordinator and the `segmentio/kafka-go` reader, a service's
delivery rows and worker, the network, the identity, permission and quota
services, Confluent's schema registry, Vault, the editor and fsnotify, the
token bucket of `golang.org/x/time/rate`, the dependencies that health checkers
ask, the supervisor that restarts a process) is modelled from how the
code uses it, and marked *external* in the modules and in `PROJECT.json`.

Run everything from this directory: `tlc -config X.cfg M` checks a run,
`tlapm M.tla` checks the proofs of a module.

## Inventory

| part | state it keeps | operations | hard behaviour | what makes it correct |
|---|---|---|---|---|
| `kafka/consumer.go` | handlers, readers, per-topic statistics, one goroutine per topic | Subscribe, Start, Close, Health, consumeTopic | crashes and rebalances between handling and commit, failing commits, retries, shutdown | no record lost, order kept, one fate per delivery, Start returns when cancelled |
| `kafka/publisher.go`, `schema_validator.go` | a writer, a cache of compiled schemas | Publish, PublishBatch, Close, ValidateEventPayload, ValidateRawPayload | partial, repeated and late writes, `Async`, the registry changes between lookup and cache | what is published is registered and valid, a batch is handed over whole, nil is kept |
| `kafka/schema_registry.go` | subjects, outside of the process | RegisterAllSchemas, GetLatestSchema | processes that push different schemas, one subject for all events of a topic | a drift warning has a cause |
| `kafka/dlq.go` | none of its own | AsHandler, Send, ListDLQ | the copy is refused or fails while the original is committed; copies come back to the group | an event that is given up survives as a copy; copies do not breed, nor multiply beyond the writer's attempts; a listing shows what the log says |
| `kafka/event*.go` | the registry of event types of one process | ValidateEventType, topicFromEventType, KnownTopics, RegisterExtensionEvent | naming rules of three files that must agree; skew between processes | a copy has a valid type and a topic that exists |
| `kafka/replay.go`, `cmd/kafka-replay` | none | Replay, the command's webhook | a log that grows below the reader, a window and an end that meet | exactly the wanted records of the window, in order |
| `kafka/healthz.go`, `consumer_healthz.go` | none | two pages | statistics that outlive or precede what they tell of | the pages can be believed |
| `webhook`, `webhook/inbound` | keys with a time (`memStore`), providers; rows in the service | Dispatch, IsRetryable, BackoffDuration, Handle, SeenOrRecord | lost requests and answers, client timeout while the handler runs, duplicates at once, restart | one handler start per key and TTL, delivered means handled, every delivery ends |
| `authjwt` | keys, time of the fetch, a mutex | Validate, keyForKid, refresh | key rotation, waiters behind a failing fetch, an answer that was overtaken | a verdict is out of date for a bounded time only, fresh keys are not fetched again, calls return |
| `timetravel` | table `entity_snapshots` | RecordEntity (two recorders), handle, LoadSnapshotAt, Diff | two statements without a transaction, redelivery, failing statements; documents of any shape | the past is kept, history is exact, authors are right, a diff is true and complete |
| `config` | live struct, `lastFire`, secret cache; file and Vault outside | Load, NewDefaultSecretLoader, InstallHotReload, ApplyReloadable, Get, PutSecret | torn files, sections that are nil, debounce, a watch that is lost, Vault failing at the login or at one load only, overlapping PutSecret | reloads are whole, secrets change at restarts only, edits go live, string keys are preserved |
| `audit` | table `admin_audit_log` | Record | the row or the event fails alone, or is not configured | the trail is true, no action is lost silently |
| `middleware`, `interceptor`, `quota` | visitors and their buckets | the chain, rate limit, permission, quota, authentication, recovery | eviction of a bucket, a quota that is asked and then used, panics, order of the chain | no request acts that a stage refused; admissions and overshoot are bounded |
| `health` | the status per service | readiness, liveness, Check, SetServingStatus | parallel checkers, one that hangs or panics | a verdict is about the time of its probe; the probe returns |
| `errors` | sentinels and their codes | Register, ToHTTP, ToGRPC | sentinels that wrap one another, joined errors, order of the registrations | an error gets the codes of an innermost registered sentinel |
| `comments` | progress of a backfill | Run | stop and run again | no row is migrated twice |
| the rest | none that matters | see `PROJECT.json` | | |

How they meet: `timetravel`, `audit` and every service publish through
`kafka.Publisher`; a consumer's `DeadLetterFunc` is usually `DLQProducer.AsHandler`,
which publishes to the topic the consumer reads; `timetravel.Consumer` is a
handler of a `KafkaConsumer`; `middleware.Auth` calls `authjwt`; `quota.NewCheckMiddleware`
calls the quota client; all are configured by `config`.

`PROJECT.json` lists every part with its status, and under `hazards` each
place where the code can go wrong in a way that a test would hardly reach.

## The modules

| module | models | checked by |
|---|---|---|
| `AtLeastOnce` | what a consumer group promises: settle in order, commit after settling | refined by `KafkaConsumer` |
| `KafkaConsumer` | `kafka/consumer.go` in a group of processes | `consumer_group`, `consumer_live` |
| `KafkaConsumerProofs` | its invariants, the health pages and the refinement, proved | tlapm |
| `EventTypes` | event types, topics and dead-letter names | through `EventBus` |
| `ConsumerHealthz` | the health pages, over `KafkaConsumer` | `consumer_group` |
| `EventBus` | publisher and DLQ producer composed with `KafkaConsumer` over one log | `bus`, `bus_shipped_taxonomy` |
| `LogReaders` | `kafka/replay.go`, `cmd/kafka-replay` and `ListDLQ` beside `EventBus` | `bus` |
| `EventBusProofs` | names, copies, the taxonomy and readers, proved over `KafkaConsumerProofs` | tlapm |
| `JsonValues` | what `encoding/json` decodes | by its users |
| `SchemaValidator` | `validateNode` and `dataSchema`, with a second definition of both | `schema` |
| `BatchPublisher` | what a publisher promises its callers: a batch is handed over whole or not at all, and nil is kept | refined by `SchemaTaxonomy` |
| `SchemaTaxonomy` | registries of processes, the schema cache, batches, the schema registry | `schema` |
| `SchemaTaxonomyProofs` | its inductive invariant and the refinement, proved | tlapm |
| `WebhookDelivery` | `webhook` and `webhook/inbound`, network between them | `webhook`, `webhook_retry` |
| `WebhookDeliveryProofs` | its inductive invariant, proved | tlapm |
| `JwksCache` | `authjwt/validator.go` | `jwks` |
| `JwksCacheProofs` | its inductive invariant, proved | tlapm |
| `TimeTravel` | `timetravel` recorders, consumer and reader | `timetravel` |
| `TimeTravelProofs` | its inductive invariant, proved | tlapm |
| `SnapshotDiff` | `timetravel/diff.go` | `timetravel` |
| `HotReload` | what hot reload promises the readers of the struct: one step, one version | refined by `ConfigReload` |
| `ConfigReload` | `config`: login, load, secrets, hot reload, PutSecret | `config` |
| `ConfigReloadProofs` | its inductive invariant and the refinement, proved | tlapm |
| `RateLimiter` | `middleware/ratelimit.go` | `pipeline` |
| `AuditRecorder` | `audit/recorder.go` | `pipeline` |
| `RequestPipeline` | `middleware`, `interceptor`, `quota`, composed with the two above | `pipeline` |
| `RequestPipelineProofs` | its invariant, the limiter's, the quota's, the error registry's and the health probes', proved | tlapm |
| `ErrorRegistry` | `errors/errors.go` | `pipeline` |
| `HealthChecks` | `health/health.go`, `health/grpc.go` | `health` |
| `MC*` | values of the constants for TLC | |

### KafkaConsumer

`log`, `committed` and `owner` are the broker. A member is a process with one
`KafkaConsumer`: `life` follows `Start` (new, running, cancelled, stopped), `handlers`
is the map filled by `Subscribe`, `health` the statistics, `position` what the
reader of kafka-go delivers next. Each topic has a goroutine whose `pc` is its
place in `consumeTopic`: `fetch` (line 218), `dispatch` (decode, look up, validate),
`handle` (the retry loop, with `attempt`), `deadLetter` (`sendToDeadLetter` is next), `sending`
(`DeadLetterFunc` is at work, which may take long), `report` (`recordSuccess` or
`recordFailure` is next), `commit`. Every `continue` and every error path of `consumeTopic` is a disjunct; both ends of every commit are
(applied, failed), and a commit may reach the broker although the member lost
the partition, or its context was cancelled. `Revoke` and `Assign` are the
rebalance, `Crash` and `Restart` the process and its supervisor.

Four history variables carry the properties: `fate` (what became of each
record), `deliveries` (how often it was fetched), `verdicts` (how often a handler
succeeded with it, `DeadLetterFunc` was called for it or it was passed over) and
`disruptions`. `ConsumerHealthz` adds no state: `Health` and the two pages are functions of
the statistics, and `HealthIsTrue` holds them against `fate`; a record that was given up
is on no page yet while its goroutine is at `report`, which the property says.

### EventBus

The same group, but the log grows by what `Publish` writes and by the copies
of `DLQProducer`. `SendCopy` is the call of `AsHandler`: the publisher refuses the copy or hands
it to the writer of kafka-go, which may make `WriteAttempts` (`MaxAttempts`) produce
requests for it. They are `flying`; `StoreCopy` stores one, while the goroutine waits, after it
went on or after its process died, so that a lost acknowledgement doubles the copy
and a write that was reported as failed may land. The call returns in one of three
ways: `CopyWritten` (a copy is in the log, or the writer is `Async`), `CopyIsRefused`,
`CopyFails`. A request that is never stored stays in `flying`. The write of a service is
stored zero, one or several times in the same way (`PublishWritten`). A record knows which record it is a
copy of. `Registered` is the taxonomy: `Shipped` is what the source lists for an
event (the event, not its copy), `Extended` adds what a service would have to
register with `RegisterExtensionEvent`. The bytes of an event are one of five
shapes, by what its readers can tell of them.

### LogReaders

An operator reads the same log without the group and without a commit.
`config` is the replay's window and filters (constants that `\E` picks), `readAt`
the offset of its reader, `delivered` what the handler or the list got. `Seek` is
`SetOffset` or `SetOffsetAt`, `IsPastLast` and `IsPastEnd` are the checks before and
after a record (the end may be an offset or a time). A handler that refuses
ends a replay (`HandlerRefuses`: the command's webhook), and so does a reader
that fails; at the end of the log a replay waits and a listing returns.

### SchemaTaxonomy and SchemaValidator

Every process has a `registry` of event types, which `RegisterExtensionEvent`
changes, and a cache `compiled` in front of the validator. A publishing or
consuming goroutine goes through `Lookup` (the source, under the registry's
lock), `Cache` (the read lock) and `Parse` (no hit: compile, store), so the registry
may change between them. `Write` is the entry into `WriteMessages`: it fails before it does
anything, or hands all messages to the writer (`sent`); with `Async` the call is over
then, else it waits (`Await`). Every message `Land`s in the `log` on its own, in any order and
also after its call failed, since a batch is a produce request for each topic and
partition; `Await` returns nil only when all have landed, and may fail with some, all or
none of them stored. `PublishAgain` is a caller that tries again. `RegisterAllSchemas` pushes event
by event to `subjects`, which all events of a topic share; `Compare` is the soft
check of the consumer side.

To its callers a publisher is the small module `BatchPublisher`: `Phases` hides where
in its checks a call is, `Queued` and `Entered` which schema a record passed. A call hands its
batch over in one step there (`Send`), whole and under the name of that call; messages
are stored one by one (`Store`), and a caller that waits gets nil (`Acknowledge`) only
when all of its own are.

`validateNode` is the code's recursion, path by path; `Places` and `Meets` say the
same place by place and without its shortcuts. `MCAccepts` connects the two
modules: which payloads a schema accepts is what `validateNode` says of the trees
that `dataSchema` builds.

### WebhookDelivery

The sender's rows (`status`, `attempts`, `wait`) and its worker are external;
`IsRetryable` and `BackoffDuration` are the code's. A request has a place (wire,
handling, answer, gone), so that an attempt that the client has given up may
still be handled while the next one is on its way. `age` is `memStore.seen`.

### JwksCache

`pc` follows `Validate`, `keyForKid`, `refresh` and back; `singleflight` is the mutex.
The service answers with the keys of that moment and the answer travels, so
that it may be overtaken by a rotation. A token without a key id takes any key
of the map, as ranging over a Go map does. `since` is the time since each key
was published or retired; `VerdictIsRecent` is about it.

### TimeTravel and SnapshotDiff

`rows` is `entity_snapshots` for one entity; each statement names kind and id, so
entities do not interact. `ReadClock`, `CloseWindow`/`CloseFails` and
`Insert`/`InsertFails` are the three steps of `RecordEntity`. `events` is a set
because the events of one entity are spread over partitions and are redelivered.

`SnapshotDiff` is `DiffPayloads` on the values of `JsonValues`; `DiffIsExact` holds
its result against what is at each path of the two documents.

### ConfigReload

`pc` follows the service: `connect` (the login to Vault: token, AppRole or
Kubernetes, from the environment), `load`, `secret`, `install`, then the loop
`select` - `load` - `secret` - `apply`. `cache` is `EnvOnly` in a process that has no Vault
or whose login failed. `file` has a version, the fields that it gives (`Layouts`) and whether it
is torn: an editor truncates it and fills it in several writes (`Truncate`, `Fill`), and a load in
between finds some fields, or an error. An editor that renames a new file into
place (`Replace`) raises an event that the mask drops (`masked`) and takes the watch along;
`watch` is then `lost`, as it is when `watcher.Add` failed. `pending` counts the events of writes that
wait. The struct's leaves may lie in sections that are pointers (`PathOf`): `there` and
`sections` are those that are not nil in the struct just loaded and in the live one, and the
walk goes only where both are (`Reached`). `ApplyField` is one round of
`applyReloadableStruct`, so that other things happen while a struct is half copied.
`PutSecret` is its read and its write; `GetSecrets` skips values that are no strings.

`HotReload` knows a struct with its sections and nothing else. `Applied` is what its reader is to see: the
live struct, or, while the loop is half through it, the struct as it will be; so the
reload happens there when the loop begins, and its rounds are stutters. A process starts or ends there
when the live struct comes or goes.

### RequestPipeline, RateLimiter, AuditRecorder, ErrorRegistry

`stage` is where a caller's request is. Over HTTP it goes through `Chain` (CORS
preflight, rate limit, token), `RequirePermission` (fails closed), `CheckQuota`
(fails open), over gRPC through `Authenticate`; then the handler, which is
external, acts and calls `Record`: `RecordRow` and `RecordEvent` are its two halves,
and what it returns becomes the answer. `Refuse` is what the stages have in
common: a status, and nothing behind them runs. `Recovery` and `RecoveryRPC` may
cut in anywhere. `RateLimiter` has the `visitors` with their buckets, `evict` runs
whenever it likes; `early` counts how often each client was forgotten with a bucket that
was not full, and `AdmissionsBounded` allows a bucket more for each. A `Recorder` may have been
given no database or no publisher (`WithDB`, `WithPublisher`), and a route no quota client.

`ErrorRegistry` is the registry as a sequence; `InnermostAnswersFor` says what is
asked of it after a sequence of calls, and `InnermostAnswers` checks every
sequence of registrations, up to a length, of errors that wrap one another, one by
one or joined: `Unwrapped` is the walk of `errors.Is`, depth first.

### HealthChecks

`kind` is what a probe asks for, `results` what its checkers have answered, `done`
that its context is over (deadline or client). Checkers run at once, and
`Answer` needs all of them (`wg.Wait`). A checker in `Obedient` returns when the
context is done; `custom` checkers need not. `Crash` is a checker that panics
in its own goroutine, which no recovery covers.

## What the runs show

| run | question | answer |
|---|---|---|
| `consumer_group` | Two members, one partition, up to two crashes, closes, cancellations or rebalances, two retries: is a record lost, reordered, delivered twice without a reason, given two fates, or to `DeadLetterFunc` twice? Do the health pages tell what became of the records, but while it is being reported? Does the group implement `AtLeastOnce`? | no; yes; yes |
| `consumer_live` | The other configuration (end of the log, no dead-letter function, a negative `MaxRetries`, two topics) under fairness: is each record settled in the end, does `Start` return, is the inductive invariant of the proofs an invariant? | yes |
| `bus` | With copies in the taxonomy, writes that fail, are repeated and land late, and one disruption: are copies made of given-up records only, as many per delivery as the writer may try, does a sound event survive, do copies of copies stop? Do a replay and a listing beside them show what the log says? | yes |
| `schema` | Two processes, one extension, two publishers, one of them `Async`, batches that land in part, late, and are published again: does a refusal mean that the processes differ, do the publishers implement `BatchPublisher`, has a drift warning a cause? Does the validator agree with a second definition on every document and schema of the instance? | yes |
| `webhook` | Equal bodies without a key, lost messages, timeouts, panics, a restart: one handler start per key and TTL, delivered means handled, every delivery ends? | yes |
| `jwks` | Two callers, keys that come and go, failing fetches: is a verdict out of date for a bounded time only, does no waiter fetch fresh keys again, is no caller stuck? | yes |
| `timetravel` | A direct recorder and one through Kafka, failures and redelivery: are closed rows immutable, open rows bounded, authors right, serial histories exact? Is a diff true and complete? | yes |
| `config` | A login, a file that is filled bit by bit or replaced, a section that may be nil, a watch that fails or is lost, Vault failing, restarts, two callers of PutSecret: does the package implement `HotReload`, do secrets wait for a restart, do serial puts keep the strings, does an edit in place go live? | yes |
| `pipeline` | Two callers over HTTP and gRPC, permissions withdrawn, one failure or panic, buckets forgotten early, a recorder without a database: does only who passed every stage act, are admissions and overshoot bounded, is the audit trail true, do errors get the codes of an innermost sentinel? | yes |
| `health` | Two probes, a checker that obeys its context and one that does not: is a verdict about the time of its probe, does a probe return? | yes, unless the disobedient checker hangs |
| `bus_shipped_taxonomy` | With the taxonomy of the source, is a failed event republished? | no: the publisher refuses the copy's type, the record is committed |
| `webhook_retry` | Can a 502 be retried, as `inbound.go:12-13` says? | no: the retry gets 409 |

Each property of a passing run has a mutant in `PROJECT.json`: a bug that
somebody could write in the modelled code and that breaks the property.

### Bounds

All bounds are constants. They cut off how long TLC looks, never what a step
may do.

- `MaxLog = 2` records of a partition: order, a gap and "the record after the one
  that failed" need two. `bus` has five: one original (`MaxOriginals = 1`) that is delivered twice
  leaves four copies with `WriteAttempts = 2`. `bus_shipped_taxonomy` has six and two
  originals.
- `MaxDisruptions = 2` in `consumer_group`: a member that loses a partition and
  comes back, or one that dies after another took over, need two. One is enough
  for termination in `consumer_live`.
- `MaxOutages = 1`: a write that fails, and whose requests land later or never.
- `TTL = 2`, `MaxAttempts = 2`, `MaxRestarts = 1`: two attempts lie five delays apart at
  most; a key expires between and within them.
- `CacheTTL = 2`, `Timeout = 1`, `MaxRotations = 3`: publish, retire, publish again, with a
  fetch before, between and after.
- `MaxChanges = 3`, `MaxTime = 2`, `MaxFaults = 1` in `timetravel`: three overlapping
  recordings within and across moments; one statement or publish fails. The
  documents of `DiffIsExact` are objects and arrays two levels deep.
- `Debounce = 1`, `MaxTime = 1`, `MaxWrites = 1`, `MaxEvents = 1`, `MaxPuts = 2`, `MaxFaults = 1` in `config`: two
  versions of the file, the second written from front to back in several
  writes, some within the debounce time of the first reload and some after it, or
  renamed into place; of the four fields two lie in a section that the
  file may not give. A fault is a failing login or other Vault call, a watch that
  cannot be set up, or a restart.
- `MaxEntries = 2` and two windows in `bus`: one by offset, one from the end of the log
  to a time with a filter.
- `MaxRequests = 3`, `MaxFaults = 1`, `Rate = 1`, `Burst = 2`, `TTL = 0`, `MaxTime = 1`, `Quota = 1` in `pipeline`:
  the third request of a client is turned away or comes after a refill or an
  eviction, also one that is early; two requests pass the last unit of the quota. One recorder
  has no database; that one has no publisher is left to the theorem. Three requests do
  not get past the bound without early evictions either; the theorem covers longer
  runs. The kinds of
  request differ from an ordinary one in one respect each.
- `MaxChanges = 1`, `MaxAttempts = 2`, `MaxFaults = 1` in `schema`: one process extends its
  registry and the other does not; a batch of two lands in part and is published
  again, or one caller's messages land between those of another.
- `MaxChanges = 2`, `MaxPanics = 1` in `health`: a dependency fails and recovers.

The two consumer runs differ in all switches (`StartOffset`, `HasDeadLetter`,
`MaxRetries`, the kind of bad record). `DisableSchemaValidation = TRUE` and
`PublisherValidates = FALSE` are not run: they remove a refusal and its step; the
proofs cover both values of the first. Nor is `AuditRegistered = FALSE`, with which
every `Record` fails that has a publisher that validates.

`config`, `pipeline` and `schema` switch deadlock detection off: a service can be
stopped for good, callers can have sent all the requests and batches that the bound
allows, and then only bounded actions are left.

### Fairness, and why the code justifies it

- *Consumer.* Every goroutine is scheduled; `FetchMessage`, handlers and the
  dead-letter function return. A commit to a closed reader may hang for as long
  as its context lives, and is exempt. The supervisor starts processes, a
  service that calls `Close` also cancels, the coordinator assigns free
  partitions. Handlers may fail for ever: the retries are counted. Nothing makes
  anybody produce, subscribe, crash or cancel.
- *Webhook.* Time passes and the worker sends what is due; `Dispatch` returns,
  because `http.Client` has a timeout (`dispatch.go`). Neither the network nor the
  receiver is fair.
- *JWKS.* Goroutines run, a request ends with the client's timeout, and Go's
  mutex hands over to a waiter after a millisecond (strong fairness of `Enter`).
- *Config.* The service's goroutine runs, and an event that waits is received in the end
  (`Debounced` or `Fire`): the channel of fsnotify is a queue, so that events which the mask
  drops cannot keep it waiting for ever. `LoneEditGoesLive` asks nothing of the
  editor or Vault; it holds for an edit in place that is alone in its debounce window.
- *Health.* Timers fire, runnable goroutines run, and the waiter goes on once all
  checkers have returned. Nothing is asked of a checker that ignores its
  context, of clients or of the dependencies.
- `EventBus` with `LogReaders`, `SchemaTaxonomy`, `RequestPipeline` and `TimeTravel` have safety
  properties only.

## What is proved

TLC says nothing of three members or of a struct with ten fields. The theorems
hold for every value of the constants that satisfies the named assumption of its
module: `ConsumerAssumption`, `BusAssumption`, `ReadersAssumption`, `TaxonomyAssumption`,
`WebhookAssumption`, `JwksAssumption`, `TimeTravelAssumption`, `ConfigAssumption`,
`LimiterAssumption`, `PipelineAssumption`, `ErrorsAssumption`. Of `HealthAssumption` the proof
needs one conjunct, that `None` is no kind of probe, and states it. TLC evaluates each of them on the instances
above.

**`KafkaConsumerProofs`.** `CommittedSettled` (nothing below the committed offset is
unsettled) is not inductive: a commit is only right if the goroutine settled
what it commits, and that everything before it was settled depends on where
its reader started. `IInv` therefore adds

- `SettledIsPrefix`: settled offsets have no gap;
- `PositionAfterSettled`: below a reader's position all is settled, but for the
  record its goroutine holds;
- `HeldAfterSettled`: below a held record all is settled, and at `commit` the
  record itself is;
- `NewIsIdle`, and `TypeOK` with `HeldInLog`: a held record exists.

All this is proved of `GroupStep`, which is `Next` with whoever else appends to the log, so that
`EventBus` can use it.
Actions that disturb the invariant in the same way share a lemma with a proof
for each conjunct: steps that move no goroutine (`QuietStep`), that move one
(`MoveStep`), that settle its record (`SettleStep`), that commit (`CommitStep`), that
assign, forget or fetch. `TypeCorrect`, `NoRecordLost` and `InOrder` follow. `Refinement`
proves that each step is a step of `AtLeastOnce` or a stutter: `Mark` is `Settle` (by
`HeldAfterSettled`), `CommitApplied` is `Commit`, `Assign` at the end of the log is
`SkipBacklog`. A copy that is stored is an `Append`. `NextPromise` says so of `GroupStep`. `consumer_live` checks `IInv` on its instance.

Three more invariants count or compare, each on top of `IInv`:

- `VerdictsCounted`: the verdicts on a record, calls of `DeadLetterFunc` among them, and the
  members that may still give one (`Holders`) are no more than its deliveries.
  `OneFatePerDelivery` follows.
- `DeliveriesPaid`: deliveries made, and those to come from readers that stand before
  the record, from members that will leave and from a partition without an owner,
  are paid for by the first delivery and the disruptions. `RedeliveryNeedsDisruption`
  follows; it is not inductive, because a rebalance costs nothing until the record
  is fetched again.
- `PagesInv`: a row of `Health` names a settled record (`RowsAreTrue`) and, until the first
  disruption, a record that was given up has left its mark in somebody's row
  or is being reported by the goroutine that gave it up (`Undisturbed`). `Reasoned` keeps malformed records, which `Health` is not told of, apart.
  `HealthIsTrue` follows.

**`EventBusProofs`.** First the names, for every event type: the dead-letter type is
valid again and has the topic of the original, which is therefore not the
`<topic>.dlq` that `dlq.go:39-41` announces and which `IsDLQTopic` does not recognise;
registering the copies adds no topic. Then the bus: each of its steps is a
`GroupStep`, so all of the above holds of it (`GroupInBus`). `BusInv` adds that a record
that claims to be a copy has an original that was given to the dead-letter function, on the
same topic and of a handled type (`RecordsFit`; for the topic it needs the facts about names), that what is
handled or given up is of a handled type unless it could not be decoded (`HeldHandled`), that
requests under way belong to a record that was given to it (`Requested`), and that copies
and requests under way are no more than `WriteAttempts` for each verdict (`CopiesCounted`;
with `VerdictsCounted`, for each delivery). `CopiesAreFew`, `CopiesDoNotBreed` and `SoundIsKept` follow, and
`BusKeepsPromise`: the consumer group implements `AtLeastOnce` in the bus as well.
`UnregisteredIsNeverKept` is the finding of `bus_shipped_taxonomy` for every group and
every taxonomy, and the converse of `SoundSurvives`: a copy has its original's `.dlq`
name, which is registered if the publisher validates (`CopiesNamed`), and a record whose
`.dlq` name is not is in `lost` as soon as it is given up (`UnknownLost`). For the readers `ReadersInv` says what a replay has handed over and what it has found wrong
nowhere up to its offset, and that neither changes when the log grows
(`ReadersAreRight`).

**`SchemaTaxonomyProofs`.** `BatchIsWhole` and `RejectionMeansSkew` speak of batches and
refusals that are over. `Progress` says of each goroutine under way how many of its
events were looked up and accepted, although the registry may have changed
since; `Publishes` that a call that still checks has handed over nothing, that
only a call without `Async` waits, and that no older call has its number; `Consumes` that a consumer's event is a record. From there `SentIsAccepted`, `LogWasSent`,
`AckedIsKept` (what nil promised is in the log or, with `Async`, in the writer's hands)
and `RefusedByOther` are inductive. `SubjectsWerePushed` carries `WarningHasCause`.
`NilKeepsItsPromise` proves that every step is a step of `BatchPublisher` or a stutter: checks
leave the phase as it is (`CheckNotSeen`), consumers are not seen (`ConsumerNotSeen`),
what `Write` hands over are the entries that the caller asked for (`MessagesAreEntries`,
`WriteSeen`), and what lands or is awaited is stored or acknowledged there too (`LandSeen`,
`AwaitSeen`). `BatchIsWhole` is a theorem only (`BatchesAreWhole`): `schema` checks the
refinement.

**`WebhookDeliveryProofs`.** `AcceptedWasHandled` says of every request on the wire, also of
one that the sender has given up, that a 202 was answered by a handler that returned
nil; `AttemptsCounted` says which requests a row may take for its answer.
`StoreRemembers` ties the store's ages to the times at which handlers began.
`DeliveriesWereHandled` and `HandlersStartOncePerTTL` (an action property) follow.

**`JwksCacheProofs`.** A verdict is late for two reasons, which add up: the answer was
overtaken on its way (`AnswersLag`, by at most the time its request has taken) and it
has been in the cache (`CacheLags`, age plus `Timeout`). `Lags` says that a set of keys
differs from what is published only by keys that changed within that time.
`OneFetchAtATime` is proved with them, as `store` must be about the caller's own answer.
`VerdictsAreRecent` follows. `FetchedWhenStale` says that while somebody is past the check under
the mutex the cache is still stale, however long the fetch takes: nobody else can have
filled it. The action property `FreshKeysAreKept` follows.

**`TimeTravelProofs`.** `Attribution` follows a change's author through the recorder, the
event and its redeliveries to the row. `OpenRowsInv` counts the open rows of each recorder:
between its close and its insert it has none but those whose close failed.
`SerialInv` holds as long as recordings have neither overlapped nor failed: one
caller or one event carries the last change (`Serial`), rows follow one another
(`RowsInOrder`), and they cover time up to the moment that the recorder in between has read
(`NoGap`). `AuthorsAreKept`, `FewRowsStayOpen`, `SerialHistories` and `PastStays` follow.

**`ConfigReloadProofs`.** `ReloadsAreWhole` speaks of the moments between two reloads;
to carry it through one, `IInv` says that what was loaded, with its sections, comes from one
reading of one version (`LoadsAreWhole`), that the fields before the loop's index that the
walk reaches hold what was loaded (`AppliedSoFar`), and that outside of the loop the index is back at the start
(`WholeOutside`). `SerialPuts` adds that a lone PutSecret holds the strings that Vault holds, and
`BootHasNoLive` that a service that logs in or starts has no live struct, which the action
property `OnlyRestartsChangeSecrets` needs. `WholeReloads` and `SerialPutsAreKept` follow.
`ReloadsAreSteps` proves that every step is a step of `HotReload` or a stutter. In the loop
`Applied` is the struct that `loaded` and the fields that are untagged or out of reach make up: by `LoadsAreWhole` its
tagged fields are of one version when the loop begins, and by `AppliedSoFar` it is
the live struct when the loop ends. `ReloadsAreWhole` itself is a theorem only:
`config` checks the refinement, which says more.

**`RequestPipelineProofs`.** `AdmissionsBounded` speaks of requests that were let
through; `BucketsBound` adds what is still in the bucket now, and is inductive:
time gives at most `Rate` tokens a tick, an admission costs one, and an eviction gives a full
bucket at most to a client that it counts (`EvictionCounts`), for every TTL. With
`TTL * Rate >= Burst`, which nothing in `NewRateLimiter` sees to, a bucket is full when its
client is forgotten (`LongTTLsCountNothing`), and `LongTTLsKeepTheRate` is the bound that one
would expect of a rate limiter. For the chain the invariant says of each caller what
the stages it has passed have established (`Mediated`), that nothing is done before
the handler and nothing answered before its end (`Unacted`), and how far its trail
has come, as far as its recorder has a table or a topic (`Trailed`). A step is about one caller; `FrameKeeps` deals with the others once.
`AdmissionsAreBounded`, `OnlyAuthorizedCallersAct` and `TrailCanBeTrusted` follow. For the quota,
`QuotaInv` adds to the units used those that are promised to requests at the handler:
whoever asks is not at the handler himself, so at most `Cardinality(Callers) - 1` units are
promised already when the last one is given away (`PlansAreKept`).

Two small parts that the chain's services use are proved in the same module. For
the error registry the calls of `Register` are a state machine (`Registering`), and
induction goes over its steps: no entry wraps a later one (`InnerFirst`), every call is
answered by an entry that it wraps (`Answered`), and every entry is the latest call for
its sentinel (`EntriesAreLatest`). The first match of an error is then an innermost
sentinel in it, the only one if its errors are a chain (`InnermostErrorAnswers`); `FirstExists` provides the first match without an
induction over data. For health probes, `Witnessed` says that a dependency has been,
at some time of the probe, what it is now, and `Reported` that a result names what
its dependency has been or that the context was done. `VerdictsAreHonest` follows.

## Only model-checked

Liveness (`EventuallySettled`, `CancelEndsStart`, `DeliveriesEnd`, `CallsReturn`,
`LoneEditGoesLive`, `ProbesReturn`) is beyond the proof system, and so is what a recursive
definition computes for every input: `ValidatorAgrees` and `DiffIsExact` are checked for
every input of their instances. `InnermostAnswers` folds over a sequence of
registrations and is checked for those up to a length; `InnermostErrorAnswers` proves the
same of `Registering`, which makes one call after the other. Every other property of a
passing run is stated by a theorem.

## What the model assumes

- Kafka keeps what it acknowledged, and gives a partition to one member at a
  time; the old owner's commit may still arrive. That a leader dies with what it alone
  acknowledged (`RequiredAcks` 1) is left out.
- kafka-go makes `MaxAttempts` produce requests for a message at most. In `SchemaTaxonomy` a
  record that they store twice is one record, as its identifier is the same;
  `EventBus` tells the two apart. Consumers there see each identifier once.
- Clocks of the services agree (`timetravel`), and changes of the entity itself
  are serialised by its table.
- Events of one resource come in any order: `LeastBytes` ignores the key
  (`publisher.go:83`).
- `BusAssumption` describes what an event is; of the taxonomy it asks what
  `RegisterExtensionEvent` sees to (valid names), and of `EventTypes` that the names of
  the copies are among them, registered or not.
- A replay's configuration is one that `ReplayConfig` allows; there are finitely many
  callers in `RequestPipeline`, and at least one.
- Batches are not empty: `PublishBatch` of nothing returns at once.
- A webhook delivery is refused for the same reason at every attempt.
- Computing takes no time in `JwksCache`; only waiting does.
- The audit event's type is registered by the service (see below).
- What a validator of tokens answers does not depend on the moment in
  `RequestPipeline`; `JwksCache` says how it does.
- A schema's source stands for the tree that it parses to.
- Sections of the struct that are no pointers, or that a default fills, are always
  there; a file that is parsed leaves what it does not give to the default, which is
  `Absent` here. A torn file fails to parse or parses as far as it goes.
- Copying one field of the struct is atomic. The code does it without a lock
  while others read (`hot_reload.go:192`), which is a data race on the readers'
  side; what the readers see in between is not modelled.

## Observed, without a run of its own

- `consumer.go:84` says the statistics are updated on every processed message;
  records that are malformed (236) or have no handler (246) do not touch them.
- `consumer_healthz.go:73` reports the time of the last processed record as
  `LastCommit`, whether or not its commit succeeded, and one failed record keeps
  the status at `degraded` for good (80-82).
- `consumer.go:25` gives `LastOffset` as the default; `defaults()` leaves the field
  at 0, which kafka-go takes for the first offset.
- `dlq.go:96` falls back to the type `unknown`; `unknown.dlq` has two segments and
  is refused by `ValidateEventType`, so such records leave no copy.
- `schema_validator.go:171-173` says a missing schema is accepted; the type is
  refused (175-177).
- `inbound.go:161` speaks of hashing body and signature; only the body is hashed.
- The sender signs in `X-Hub-Signature-256` (`dispatch.go:31`), the receiver looks
  for `X-Sentiae-Signature` unless it is told otherwise (`inbound.go:151`).
- `validator.go:182-184` promises one fetch for a burst; when it fails, each
  waiter sends its own.
- `kafka_recorder.go:60-61`: the writer service is published, but `handle` never
  reads it, so the row carries the consumer's name.
- `config.go:200`: a `Load` with `OnReload` starts a reloader of its own each time. With
  `ConfigPaths` and a profile file it watches the profile file instead of the base file (197),
  because viper was pointed there to merge it.
- `secret_loader.go:24` promises `("", nil)` for a missing secret; `vault.go:152-155`
  returns an error, and the chain goes on to the environment either way.
- `validator.go:97-99` says that an unseen key id causes a fetch; while the cache is
  fresh it does not (193), so a new key is refused until the cache is old.
- `recorder.go:163` of `timetravel` closes what is open at that moment: two recordings
  that overlap leave the older row open beside the newer one.
- `vault.go:179-180` says PutSecret preserves the other keys; it drops the error of
  its read (182), and then writes its own key only. A key whose value is no string is
  skipped by `GetSecrets` (171-175), and so deleted by the first put of any other key.
- `hot_reload.go:45-46` speaks of editors that write and rename: their events are
  masked (78-80) and the watch goes with the old file, so such an edit, and every later one,
  is not loaded until a restart. A file that cannot be watched is skipped with a line
  in the log (55-59).
- `hot_reload.go:200` skips a section that is nil in the live struct or in the new one, so the
  fields in it may stay at an older version than the fields beside it.
- A process whose Vault login fails at boot asks the environment only, until it
  is started again.
- A profile's file (`config.<profile>.yaml`) is loaded, but not watched.
- The audit event's type `admin.action.recorded` is not in the taxonomy: without
  `RegisterExtensionEvent` a validating publisher refuses each one, and `Record`
  returns an error after it has written the row. `audit.Topic` is not the topic
  that is derived from that type (`audit/recorder.go:135-140`).
- `audit/recorder.go:18-20` says that a failed publish still reports success;
  `Record` returns the error (215-226), and without a publisher it returns nil and there is no
  event. `AuditIsTrue` is about the code: nil means a row and an event, as far as they are
  configured.
- With `PublisherConfig.Async` (`publisher.go:21`, 88) `Publish` and `PublishBatch` return nil before
  anything is written, and a write that fails is never heard of.
- `publisher.go:46-48`: a publisher that retries may store an event twice; `consumer.go`
  does not look at its identifier.
- `ratelimit.go:119-129`: with a TTL that is shorter than a bucket takes to fill, a client
  that pauses is given a full bucket early.
- `schema_validator.go:120-123` lists `additionalProperties` as supported; it is parsed
  and never checked.
- The events of a topic share one subject of the schema registry, so the soft
  check warns of a drift between two events that have different schemas.
- The 500 of the HTTP recovery comes too late after a status was written; a
  panic passes by `Logging` and the metrics.
- A quota service that answers 200 with some other JSON counts as a denial;
  `RateLimiter` and its buckets are forgotten by a restart.
- `errors.go:87-88`: registering a base error replaces the entry of a registered
  error that wraps it; registering a wrapper beside its base has no effect. So the
  wrapper gets the codes of its base, which is what `InnermostAnswers` states.
- `replay.go:21-22` says that `EndOffset` zero stops at the end of the log;
  `ReadMessage` waits there. `kafka-replay` exits with 0 when it is interrupted, even after
  an error.
- `ListDLQ` starts at the first offset: entries behind `MaxEntries` are never seen.
- `SetServingStatus("")` has no effect on `Check("")`; a checker that panics ends
  the process.
- `Reader.Lag` is -1 in a consumer group, so the threshold of 10 000 is never met.
- `diff.go`: a key with a dot makes two paths look alike; `opFor` takes a null for a
  missing value.
- `comments/backfill.go:12` calls the job idempotent; a second run creates the
  comments again (112).

## Plan

The components that hold state are modelled and their safety is proved. What is
left is *config*: profiles, and the reloader that `Load` starts for `OnReload`.

## Not modelled

Logging, metrics, pprof, error bodies, request validation, atlas templates,
test helpers and stateless clients (`foundry`, `comments`, the DSL endpoint): they hold no
state that another part depends on. `regions` is a map behind a lock, filled at
start-up, and one switch over a policy. Of `config`, environment bindings and
defaults, profiles and the second reloader are left out. The table of events
(`event_taxonomy.go`) is data: its types and schemas are members of a small set.
Signatures and tokens are accepted or refused. `comments/backfill.go` is a loop that
remembers nothing between two runs, which is all there is to say of it.
