--------------------------- MODULE KafkaConsumer ---------------------------
(***************************************************************************)
(* kafka/consumer.go: KafkaConsumer, run by the members of one consumer    *)
(* group.  Start launches one goroutine per topic (consumeTopic); each     *)
(* fetches a record, decodes it, looks its handler up, validates it,       *)
(* retries the handler, dead-letters what fails and commits the offset.    *)
(*                                                                         *)
(* The broker's group coordinator and the reader of segmentio/kafka-go are *)
(* not under src/.  They are modelled from the way consumeTopic uses them: *)
(* partitions are given to one member at a time and read from the          *)
(* committed offset, a fetch returns records in order, and a commit may    *)
(* be applied or fail at any time, also after the context was cancelled    *)
(* and also for a partition the member has lost meanwhile.                 *)
(***************************************************************************)
EXTENDS Integers, Sequences, FiniteSets

CONSTANTS
  Members,        \* the processes that run a KafkaConsumer with this GroupID
  Topics,         \* ConsumerConfig.Topics
  Partitions,     \* the partitions of those topics
  TopicOf,        \* the topic of each partition
  EventTypes,     \* the values of CloudEvent.Type
  Handled,        \* the event types the service has a handler for
  Messages,       \* what a record may hold
  Malformed,      \* the records json.Unmarshal refuses as a CloudEvent
  SchemaInvalid,  \* the records whose data the taxonomy's schema refuses
  TypeOf,         \* CloudEvent.Type of each record
  MaxRetriesCfg,  \* ConsumerConfig.MaxRetries as each member's service set it
  StartOffset,    \* ConsumerConfig.StartOffset: unset (0), first or last
  HasDeadLetter,  \* ConsumerConfig.DeadLetterFunc is not nil
  DisableSchemaValidation,
  Nobody,         \* the owner of an unassigned partition
  MaxLog,         \* bound: records appended to a partition
  MaxDisruptions  \* bound: crashes, cancellations, closes and revocations

ASSUME ConsumerAssumption ==
  /\ TopicOf \in [Partitions -> Topics]
  /\ TypeOf \in [Messages -> EventTypes]
  /\ Handled \subseteq EventTypes
  /\ Malformed \subseteq Messages /\ SchemaInvalid \subseteq Messages
  /\ MaxRetriesCfg \in [Members -> Int]
  /\ StartOffset \in {"unset", "first", "last"}
  /\ HasDeadLetter \in BOOLEAN
  /\ DisableSchemaValidation \in BOOLEAN
  /\ Nobody \notin Members
  /\ MaxLog \in Nat /\ MaxDisruptions \in Nat

VARIABLES
  \* the broker
  log,         \* log[p]: every record ever appended to p
  committed,   \* committed[p]: the group's offset, NoOffset before any commit
  owner,       \* owner[p]: the member the coordinator gave p to
  \* a member
  life,        \* new -> running -> cancelled -> stopped
  closed,      \* Close was called
  handlers,    \* the event types with a subscribed handler
  position,    \* position[m][p]: the offset m's reader delivers next
  health,      \* health[m][t]: the topicHealth entry, LastOffset and failures
  \* a consumeTopic goroutine
  pc, cur, attempt, reason,
  \* history
  fate,        \* fate[p]: pairs of an offset and what became of that record
  deliveries,  \* deliveries[p][o + 1]: how often FetchMessage returned o
  verdicts,    \* verdicts[p][o + 1]: how often a goroutine decided on o
  disruptions

broker    == <<log, committed, owner>>
member    == <<life, closed, handlers>>
worker    == <<pc, cur, attempt, reason>>
history   == <<fate, deliveries, verdicts>>
vars == <<log, committed, owner, life, closed, handlers, position, health,
          pc, cur, attempt, reason, fate, deliveries, verdicts, disruptions>>

NoOffset == -1
NoMsg    == <<>>
NoHealth == [last |-> NoOffset, failed |-> FALSE]

Below(n) == 0 .. n - 1

\* ConsumerConfig.defaults: only zero is replaced; a negative value is kept.
MaxRetries(m) == IF MaxRetriesCfg[m] = 0 THEN 3 ELSE MaxRetriesCfg[m]

\* defaults leaves StartOffset alone, and kafka-go takes 0 for FirstOffset.
StartAtEnd == StartOffset = "last"

Lives   == {"new", "running", "cancelled", "stopped"}
Busy    == {"dispatch", "handle", "deadLetter", "sending", "report", "commit"}
PCs     == Busy \cup {"off", "fetch", "done"}
Reasons == {"none", "malformed", "invalid", "exhausted"}
Fates   == {"handled", "unhandled", "deadLettered", "dropped", "skippedAtStart"}

Settled(p) == {f[1] : f \in fate[p]}

PartOf(m, t)   == cur[m][t][1]
OffsetOf(m, t) == cur[m][t][2]
Record(m, t)   == log[PartOf(m, t)][OffsetOf(m, t) + 1]

Init ==
  /\ log         = [p \in Partitions |-> <<>>]
  /\ committed   = [p \in Partitions |-> NoOffset]
  /\ owner       = [p \in Partitions |-> Nobody]
  /\ life        = [m \in Members |-> "new"]
  /\ closed      = [m \in Members |-> FALSE]
  /\ handlers    = [m \in Members |-> {}]
  /\ position    = [m \in Members |-> [p \in Partitions |-> NoOffset]]
  /\ health      = [m \in Members |-> [t \in Topics |-> NoHealth]]
  /\ pc          = [m \in Members |-> [t \in Topics |-> "off"]]
  /\ cur         = [m \in Members |-> [t \in Topics |-> NoMsg]]
  /\ attempt     = [m \in Members |-> [t \in Topics |-> 0]]
  /\ reason      = [m \in Members |-> [t \in Topics |-> "none"]]
  /\ fate        = [p \in Partitions |-> {}]
  /\ deliveries  = [p \in Partitions |-> <<>>]
  /\ verdicts    = [p \in Partitions |-> <<>>]
  /\ disruptions = 0

-----------------------------------------------------------------------------
(* The broker (external).                                                  *)

\* The record has been read by nobody yet.
Stored(p, msg) ==
  /\ log' = [log EXCEPT ![p] = Append(@, msg)]
  /\ deliveries' = [deliveries EXCEPT ![p] = Append(@, 0)]
  /\ verdicts' = [verdicts EXCEPT ![p] = Append(@, 0)]

Produce(p) ==
  /\ Len(log[p]) < MaxLog
  /\ \E msg \in Messages : Stored(p, msg)
  /\ UNCHANGED <<committed, owner, member, position, health, worker, fate, disruptions>>

InGroup(m) == life[m] # "new" /\ ~closed[m]

\* The coordinator gives a free partition to a member of the group.  Its
\* reader starts at the committed offset; without one, at the beginning or
\* at the end of the log as StartOffset says.
Assign(m, p) ==
  /\ InGroup(m) /\ owner[p] = Nobody
  /\ owner' = [owner EXCEPT ![p] = m]
  /\ \/ /\ committed[p] # NoOffset
        /\ position' = [position EXCEPT ![m][p] = committed[p]]
        /\ UNCHANGED fate
     \/ /\ committed[p] = NoOffset /\ ~StartAtEnd
        /\ position' = [position EXCEPT ![m][p] = 0]
        /\ UNCHANGED fate
     \/ /\ committed[p] = NoOffset /\ StartAtEnd
        /\ position' = [position EXCEPT ![m][p] = Len(log[p])]
        /\ fate' = [fate EXCEPT ![p] =
                      @ \cup {<<o, "skippedAtStart">> : o \in Below(Len(log[p]))}]
  /\ UNCHANGED <<log, committed, member, health, worker, deliveries, verdicts, disruptions>>

Disrupt == /\ disruptions < MaxDisruptions
           /\ disruptions' = disruptions + 1

\* A rebalance takes a partition away.  The reader discards what it has
\* buffered; the record a goroutine already holds stays with it.
Revoke(p) ==
  /\ owner[p] # Nobody
  /\ Disrupt
  /\ owner' = [owner EXCEPT ![p] = Nobody]
  /\ position' = [position EXCEPT ![owner[p]][p] = NoOffset]
  /\ UNCHANGED <<log, committed, member, health, worker, history>>

-----------------------------------------------------------------------------
(* The member's life.                                                      *)

Subscribe(m, e) ==
  /\ life[m] # "stopped"
  /\ e \notin handlers[m]
  /\ handlers' = [handlers EXCEPT ![m] = @ \cup {e}]
  /\ UNCHANGED <<broker, life, closed, position, health, worker, history, disruptions>>

Start(m) ==
  /\ life[m] = "new"
  /\ life' = [life EXCEPT ![m] = "running"]
  /\ pc' = [pc EXCEPT ![m] = [t \in Topics |-> "fetch"]]
  /\ UNCHANGED <<broker, closed, handlers, position, health, cur, attempt, reason,
                 history, disruptions>>

\* The context given to Start is cancelled.
Cancel(m) ==
  /\ life[m] = "running"
  /\ \/ closed[m] /\ UNCHANGED disruptions
     \/ ~closed[m] /\ Disrupt
  /\ life' = [life EXCEPT ![m] = "cancelled"]
  /\ UNCHANGED <<broker, closed, handlers, position, health, worker, history>>

Release(m) == owner' = [p \in Partitions |-> IF owner[p] = m THEN Nobody ELSE owner[p]]

\* Close makes every reader leave the group; what a reader has buffered can
\* still be fetched.
Close(m) ==
  /\ life[m] \in {"running", "cancelled"} /\ ~closed[m]
  /\ Disrupt
  /\ closed' = [closed EXCEPT ![m] = TRUE]
  /\ Release(m)
  /\ UNCHANGED <<log, committed, life, handlers, position, health, worker, history>>

\* wg.Wait: Start returns when every topic's goroutine has.
StartReturns(m) ==
  /\ life[m] = "cancelled"
  /\ \A t \in Topics : pc[m][t] = "done"
  /\ life' = [life EXCEPT ![m] = "stopped"]
  /\ UNCHANGED <<broker, closed, handlers, position, health, worker, history, disruptions>>

\* A new process: NewConsumer, no handler, no reader, no statistics.
Fresh(m) ==
  /\ life'     = [life EXCEPT ![m] = "new"]
  /\ closed'   = [closed EXCEPT ![m] = FALSE]
  /\ handlers' = [handlers EXCEPT ![m] = {}]
  /\ position' = [position EXCEPT ![m] = [p \in Partitions |-> NoOffset]]
  /\ health'   = [health EXCEPT ![m] = [t \in Topics |-> NoHealth]]
  /\ pc'       = [pc EXCEPT ![m] = [t \in Topics |-> "off"]]
  /\ cur'      = [cur EXCEPT ![m] = [t \in Topics |-> NoMsg]]
  /\ attempt'  = [attempt EXCEPT ![m] = [t \in Topics |-> 0]]
  /\ reason'   = [reason EXCEPT ![m] = [t \in Topics |-> "none"]]
  /\ Release(m)
  /\ UNCHANGED <<log, committed, history>>

\* The process dies between any two steps, for instance because a handler
\* panics: consumeTopic recovers nothing.  It is started anew.
Crash(m) == life[m] \in {"running", "cancelled"} /\ Disrupt /\ Fresh(m)

\* After Start has returned the process ends and is started anew.
Restart(m) == life[m] = "stopped" /\ UNCHANGED disruptions /\ Fresh(m)

-----------------------------------------------------------------------------
(* consumeTopic.                                                           *)

Goto(m, t, next) == pc' = [pc EXCEPT ![m][t] = next]

Mark(m, t, f) == fate' = [fate EXCEPT ![PartOf(m, t)] = @ \cup {<<OffsetOf(m, t), f>>}]

Decide(m, t) == verdicts' = [verdicts EXCEPT ![PartOf(m, t)][OffsetOf(m, t) + 1] = @ + 1]

ToDeadLetter(m, t, why) ==
  /\ Goto(m, t, "deadLetter")
  /\ reason' = [reason EXCEPT ![m][t] = why]

recordSuccess(m, t) ==
  health' = [health EXCEPT ![m][t] = [last |-> OffsetOf(m, t), failed |-> @.failed]]
recordFailure(m, t) ==
  health' = [health EXCEPT ![m][t] = [last |-> OffsetOf(m, t), failed |-> TRUE]]

\* Mutant of Fetch: ReadMessage, which commits what it returns.
Fetch_AutoCommits(m, t, p) ==
  /\ pc[m][t] = "fetch" /\ TopicOf[p] = t
  /\ position[m][p] # NoOffset /\ position[m][p] < Len(log[p])
  /\ Goto(m, t, "dispatch")
  /\ cur' = [cur EXCEPT ![m][t] = <<p, position[m][p]>>]
  /\ position' = [position EXCEPT ![m][p] = @ + 1]
  /\ committed' = [committed EXCEPT ![p] = position[m][p] + 1]
  /\ deliveries' = [deliveries EXCEPT ![p][position[m][p] + 1] = @ + 1]
  /\ UNCHANGED <<log, owner, member, health, attempt, reason, fate, verdicts, disruptions>>

\* FetchMessage returns the next record of one of the partitions.  Its select
\* may choose a record even when the context is cancelled already.
Fetch(m, t, p) ==
  /\ pc[m][t] = "fetch"
  /\ TopicOf[p] = t
  /\ position[m][p] # NoOffset /\ position[m][p] < Len(log[p])
  /\ Goto(m, t, "dispatch")
  /\ cur' = [cur EXCEPT ![m][t] = <<p, position[m][p]>>]
  /\ position' = [position EXCEPT ![m][p] = @ + 1]
  /\ deliveries' = [deliveries EXCEPT ![p][position[m][p] + 1] = @ + 1]
  /\ UNCHANGED <<broker, member, health, attempt, reason, fate, verdicts, disruptions>>

\* FetchMessage fails while the context is alive, as a closed reader's does
\* at once and for ever: the loop goes round.
FetchFails(m, t) ==
  /\ pc[m][t] = "fetch" /\ life[m] = "running"
  /\ UNCHANGED vars

\* Mutant of StopConsuming: the loop leaves only once the reader is closed.
StopConsuming_OnClose(m, t) ==
  /\ pc[m][t] = "fetch" /\ life[m] = "cancelled" /\ closed[m]
  /\ Goto(m, t, "done")
  /\ UNCHANGED <<broker, member, position, health, cur, attempt, reason, history, disruptions>>

\* FetchMessage fails and ctx.Err() is not nil.
StopConsuming(m, t) ==
  /\ pc[m][t] = "fetch" /\ life[m] = "cancelled"
  /\ Goto(m, t, "done")
  /\ UNCHANGED <<broker, member, position, health, cur, attempt, reason, history, disruptions>>

RejectMalformed(m, t) ==
  /\ pc[m][t] = "dispatch"
  /\ Record(m, t) \in Malformed
  /\ ToDeadLetter(m, t, "malformed")
  /\ UNCHANGED <<broker, member, position, health, cur, attempt, history, disruptions>>

HasHandler(m, t) == /\ Record(m, t) \notin Malformed
                    /\ TypeOf[Record(m, t)] \in handlers[m]

Refused(m, t) == ~DisableSchemaValidation /\ Record(m, t) \in SchemaInvalid

\* Mutant of SkipUnhandled: what has no handler is dead-lettered.
SkipUnhandled_DeadLetters(m, t) ==
  /\ pc[m][t] = "dispatch"
  /\ Record(m, t) \notin Malformed /\ ~HasHandler(m, t)
  /\ ToDeadLetter(m, t, "exhausted")
  /\ UNCHANGED <<broker, member, position, health, cur, attempt, history, disruptions>>

SkipUnhandled(m, t) ==
  /\ pc[m][t] = "dispatch"
  /\ Record(m, t) \notin Malformed /\ ~HasHandler(m, t)
  /\ Goto(m, t, "commit")
  /\ Mark(m, t, "unhandled") /\ Decide(m, t)
  /\ UNCHANGED <<broker, member, position, health, cur, attempt, reason, deliveries, disruptions>>

RejectInvalid(m, t) ==
  /\ pc[m][t] = "dispatch"
  /\ HasHandler(m, t) /\ Refused(m, t)
  /\ ToDeadLetter(m, t, "invalid")
  /\ UNCHANGED <<broker, member, position, health, cur, attempt, history, disruptions>>

\* The retry loop is entered; with MaxRetries below one its body never runs.
BeginHandling(m, t) ==
  /\ pc[m][t] = "dispatch"
  /\ HasHandler(m, t) /\ ~Refused(m, t)
  /\ \/ /\ MaxRetries(m) >= 1
        /\ Goto(m, t, "handle")
        /\ attempt' = [attempt EXCEPT ![m][t] = 1]
        /\ UNCHANGED reason
     \/ /\ MaxRetries(m) < 1
        /\ ToDeadLetter(m, t, "exhausted")
        /\ UNCHANGED attempt
  /\ UNCHANGED <<broker, member, position, health, cur, history, disruptions>>

HandlerSucceeds(m, t) ==
  /\ pc[m][t] = "handle"
  /\ Goto(m, t, "report")
  /\ attempt' = [attempt EXCEPT ![m][t] = 0]
  /\ Mark(m, t, "handled") /\ Decide(m, t)
  /\ UNCHANGED <<broker, member, position, health, cur, reason, deliveries, disruptions>>

\* Mutant of HandlerFails: the last failure is committed, not dead-lettered.
HandlerFails_Commits(m, t) ==
  /\ pc[m][t] = "handle"
  /\ IF attempt[m][t] < MaxRetries(m)
     THEN attempt' = [attempt EXCEPT ![m][t] = @ + 1] /\ UNCHANGED pc
     ELSE attempt' = [attempt EXCEPT ![m][t] = 0] /\ Goto(m, t, "commit")
  /\ UNCHANGED <<broker, member, position, health, cur, reason, history, disruptions>>

\* Mutant of HandlerFails: every failed attempt is recorded, not the last.
HandlerFails_Reports(m, t) ==
  /\ pc[m][t] = "handle"
  /\ IF attempt[m][t] < MaxRetries(m)
     THEN attempt' = [attempt EXCEPT ![m][t] = @ + 1] /\ UNCHANGED <<pc, reason>>
     ELSE attempt' = [attempt EXCEPT ![m][t] = 0] /\ ToDeadLetter(m, t, "exhausted")
  /\ recordFailure(m, t)
  /\ UNCHANGED <<broker, member, position, cur, history, disruptions>>

\* Mutant of HandlerFails: the retries start over instead of ending.
HandlerFails_StartsOver(m, t) ==
  /\ pc[m][t] = "handle"
  /\ attempt' = [attempt EXCEPT ![m][t] = IF @ < MaxRetries(m) THEN @ + 1 ELSE 0]
  /\ UNCHANGED <<broker, member, position, health, pc, cur, reason, history, disruptions>>

HandlerFails(m, t) ==
  /\ pc[m][t] = "handle"
  /\ \/ /\ attempt[m][t] < MaxRetries(m)
        /\ attempt' = [attempt EXCEPT ![m][t] = @ + 1]
        /\ UNCHANGED <<pc, reason>>
     \/ /\ attempt[m][t] >= MaxRetries(m)
        /\ attempt' = [attempt EXCEPT ![m][t] = 0]
        /\ ToDeadLetter(m, t, "exhausted")
  /\ UNCHANGED <<broker, member, position, health, cur, history, disruptions>>

\* sendToDeadLetter calls DeadLetterFunc, which may take long.  What it does
\* is up to the module that composes it.
DeadLetter(m, t) ==
  /\ pc[m][t] = "deadLetter"
  /\ Goto(m, t, "sending")
  /\ Decide(m, t)
  /\ UNCHANGED <<broker, member, position, health, cur, attempt, reason, fate, deliveries,
                 disruptions>>

\* Mutant of DeadLetterReturns: a copy that may have failed is made again.
DeadLetterReturns_CallsAgain(m, t) ==
  /\ pc[m][t] = "sending"
  /\ Goto(m, t, "deadLetter")
  /\ Mark(m, t, IF HasDeadLetter THEN "deadLettered" ELSE "dropped")
  /\ UNCHANGED <<broker, member, position, health, cur, attempt, reason, deliveries, verdicts,
                 disruptions>>

\* A malformed record is committed at once, for the others recordFailure is next.
DeadLetterReturns(m, t) ==
  /\ pc[m][t] = "sending"
  /\ Mark(m, t, IF HasDeadLetter THEN "deadLettered" ELSE "dropped")
  /\ \/ /\ reason[m][t] = "malformed"
        /\ Goto(m, t, "commit")
        /\ reason' = [reason EXCEPT ![m][t] = "none"]
     \/ /\ reason[m][t] # "malformed"
        /\ Goto(m, t, "report")
        /\ UNCHANGED reason
  /\ UNCHANGED <<broker, member, position, health, cur, attempt, deliveries, verdicts, disruptions>>

\* recordSuccess after a handler, recordFailure after a dead letter.
Report(m, t) ==
  /\ pc[m][t] = "report"
  /\ Goto(m, t, "commit")
  /\ \/ reason[m][t] = "none" /\ recordSuccess(m, t)
     \/ reason[m][t] # "none" /\ recordFailure(m, t)
  /\ reason' = [reason EXCEPT ![m][t] = "none"]
  /\ UNCHANGED <<broker, member, position, cur, attempt, history, disruptions>>

Committing(m, t) ==
  /\ pc[m][t] = "commit"
  /\ Goto(m, t, "fetch")
  /\ cur' = [cur EXCEPT ![m][t] = NoMsg]
  /\ UNCHANGED <<log, owner, member, position, health, attempt, reason, history, disruptions>>

\* Mutant of CommitApplied: one record too far.
CommitApplied_TooFar(m, t) ==
  /\ Committing(m, t) /\ ~closed[m]
  /\ committed' = [committed EXCEPT ![PartOf(m, t)] = OffsetOf(m, t) + 2]

\* The broker has stored the offset, whether or not CommitMessages could
\* still report so.
CommitApplied(m, t) ==
  /\ Committing(m, t)
  /\ ~closed[m]
  /\ committed' = [committed EXCEPT ![PartOf(m, t)] = OffsetOf(m, t) + 1]

\* Mutant of CommitFails: the record is fetched again.
CommitFails_Rewinds(m, t) ==
  /\ pc[m][t] = "commit"
  /\ Goto(m, t, "fetch")
  /\ cur' = [cur EXCEPT ![m][t] = NoMsg]
  /\ position' = [position EXCEPT ![m][PartOf(m, t)] = OffsetOf(m, t)]
  /\ UNCHANGED <<broker, member, health, attempt, reason, history, disruptions>>

\* CommitMessages returns an error; consumeTopic logs it and goes on.
CommitFails(m, t) == Committing(m, t) /\ UNCHANGED committed

-----------------------------------------------------------------------------

BrokerStep == \E p \in Partitions :
                Produce(p) \/ Revoke(p) \/ \E m \in Members : Assign(m, p)

LifeStep == \E m \in Members :
              \/ \E e \in Handled : Subscribe(m, e)
              \/ Start(m) \/ Cancel(m) \/ Close(m) \/ StartReturns(m)
              \/ Crash(m) \/ Restart(m)

Consume(m, t) ==
  \/ \E p \in Partitions : Fetch(m, t, p)
  \/ FetchFails(m, t) \/ StopConsuming(m, t)
  \/ RejectMalformed(m, t) \/ SkipUnhandled(m, t) \/ RejectInvalid(m, t)
  \/ BeginHandling(m, t)
  \/ HandlerSucceeds(m, t) \/ HandlerFails(m, t) \/ Report(m, t)
  \/ CommitApplied(m, t) \/ CommitFails(m, t)

GiveUp(m, t) == DeadLetter(m, t) \/ DeadLetterReturns(m, t)

Next ==
  \/ BrokerStep
  \/ LifeStep
  \/ \E m \in Members, t \in Topics : Consume(m, t) \/ GiveUp(m, t)

Spec == Init /\ [][Next]_vars

\* A goroutine whose commit went to a closed reader may wait for as long as
\* its context lives; every other step of a goroutine returns: FetchMessage,
\* handlers and the dead-letter function are assumed to.
GoroutineReturns(m, t) ==
  /\ ~(pc[m][t] = "commit" /\ closed[m] /\ life[m] = "running")
  /\ Consume(m, t) \/ GiveUp(m, t)

\* The scheduler runs every goroutine, the supervisor starts processes and
\* replaces those that ended, a service that closes its consumer also cancels
\* the context, and the coordinator leaves no partition without a member.
\* Nothing makes anybody produce, subscribe, cancel, close, crash or revoke.
Fairness ==
  /\ \A m \in Members, t \in Topics : WF_vars(GoroutineReturns(m, t))
  /\ \A m \in Members : /\ WF_vars(Start(m)) /\ WF_vars(StartReturns(m))
                        /\ WF_vars(Restart(m)) /\ WF_vars(closed[m] /\ Cancel(m))
  /\ \A p \in Partitions : WF_vars(\E m \in Members : Assign(m, p))

FairSpec == Spec /\ Fairness

-----------------------------------------------------------------------------
(* Properties.                                                             *)

BrokerTypeOK ==
  /\ log \in [Partitions -> Seq(Messages)]
  /\ committed \in [Partitions -> Nat \cup {NoOffset}]
  /\ owner \in [Partitions -> Members \cup {Nobody}]

MemberTypeOK ==
  /\ life \in [Members -> Lives]
  /\ closed \in [Members -> BOOLEAN]
  /\ handlers \in [Members -> SUBSET EventTypes]
  /\ position \in [Members -> [Partitions -> Nat \cup {NoOffset}]]
  /\ health \in [Members -> [Topics -> [last : Nat \cup {NoOffset}, failed : BOOLEAN]]]

GoroutineTypeOK ==
  /\ pc \in [Members -> [Topics -> PCs]]
  /\ cur \in [Members -> [Topics -> (Partitions \X Nat) \cup {NoMsg}]]
  /\ attempt \in [Members -> [Topics -> Nat]]
  /\ reason \in [Members -> [Topics -> Reasons]]

HistoryTypeOK ==
  /\ fate \in [Partitions -> SUBSET (Nat \X Fates)]
  /\ deliveries \in [Partitions -> Seq(Nat)]
  /\ verdicts \in [Partitions -> Seq(Nat)]
  /\ \A p \in Partitions : Len(deliveries[p]) = Len(log[p]) /\ Len(verdicts[p]) = Len(log[p])
  /\ disruptions \in 0 .. MaxDisruptions

\* Between a fetch and the end of the commit a goroutine holds a record of
\* the log.
HeldInLog ==
  \A m \in Members, t \in Topics :
    pc[m][t] \in Busy => /\ cur[m][t] \in Partitions \X Nat
                         /\ OffsetOf(m, t) < Len(log[PartOf(m, t)])

\* Every variable holds a value of its kind.
TypeOK == BrokerTypeOK /\ MemberTypeOK /\ GoroutineTypeOK /\ HistoryTypeOK /\ HeldInLog

\* No record is lost: whatever lies below the committed offset was handled,
\* passed over or given up by some member, whichever members crash, lose the
\* partition or commit late (consumeTopic commits a record only after it).
CommittedSettled ==
  \A p \in Partitions : committed[p] # NoOffset => Below(committed[p]) \subseteq Settled(p)

\* The records of a partition are settled in order: consumeTopic never moves
\* to a record while an earlier one was neither handled nor given up.
SettledIsPrefix ==
  \A p \in Partitions : \A o \in Settled(p) : Below(o) \subseteq Settled(p)

\* What a reader delivers next comes after settled records only, but for the
\* record its goroutine still holds.
PositionAfterSettled ==
  \A m \in Members, p \in Partitions :
    position[m][p] # NoOffset =>
      \A o \in Below(position[m][p]) :
        \/ o \in Settled(p)
        \/ /\ pc[m][TopicOf[p]] \in Busy
           /\ cur[m][TopicOf[p]] = <<p, o>>

\* A goroutine holds a record only when all earlier ones are settled, and it
\* commits only what it has settled itself.
HeldAfterSettled ==
  \A m \in Members, t \in Topics :
    pc[m][t] \in Busy =>
      /\ TopicOf[PartOf(m, t)] = t
      /\ Below(OffsetOf(m, t)) \subseteq Settled(PartOf(m, t))
      /\ pc[m][t] \in {"report", "commit"} => OffsetOf(m, t) \in Settled(PartOf(m, t))

\* Goroutines run only between Start and the end of the process.
NewIsIdle == \A m \in Members : life[m] = "new" => \A t \in Topics : pc[m][t] = "off"

\* The inductive invariant behind CommittedSettled and SettledIsPrefix.
IInv == /\ TypeOK
        /\ CommittedSettled /\ SettledIsPrefix
        /\ PositionAfterSettled /\ HeldAfterSettled /\ NewIsIdle

\* A record is delivered again only because of a crash, a shutdown or a
\* rebalance: without one, a commit that fails costs no second delivery.
RedeliveryNeedsDisruption ==
  \A p \in Partitions : \A i \in DOMAIN deliveries[p] :
    deliveries[p][i] <= 1 + disruptions

\* One delivery gives a record one fate: its handler succeeds once and ends the
\* retries, or DeadLetterFunc is called once, or it is passed over (consumeTopic,
\* consumer.go:213-302).
OneFatePerDelivery ==
  \A p \in Partitions : \A i \in DOMAIN verdicts[p] : verdicts[p][i] <= deliveries[p][i]

\* The consumer implements the promise of AtLeastOnce.
Promise == INSTANCE AtLeastOnce WITH
             settled <- [p \in Partitions |-> Settled(p)],
             SkipsBacklog <- StartAtEnd

PromiseKept == Promise!Spec

\* Every record is settled in the end, through failing handlers, failing
\* commits, crashes and rebalances.
EventuallySettled ==
  \A p \in Partitions : \A o \in Below(MaxLog) :
    (o < Len(log[p])) ~> (o \in Settled(p))

\* "It blocks until ctx is cancelled": then Start does return, on every topic.
CancelEndsStart ==
  \A m \in Members : (life[m] = "cancelled") ~> (life[m] # "cancelled")
============================================================================
