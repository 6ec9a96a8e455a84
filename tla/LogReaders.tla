----------------------------- MODULE LogReaders -----------------------------
(***************************************************************************)
(* kafka/replay.go with cmd/kafka-replay, and ListDLQ of kafka/dlq.go:     *)
(* operators read a partition beside the consumers of EventBus, outside of *)
(* their group and without a commit.  One reader runs at a time.           *)
(***************************************************************************)
EXTENDS EventBus, SequencesExt

CONSTANTS Replays,     \* what Replay is called with
          MaxEntries   \* ListDLQConfig.MaxEntries

\* kafka.LastOffset of kafka-go.
LastOffset == -1

\* StartTime is resolved by the broker to an offset; of EndTime the offsets of the
\* records with a later timestamp are left, in no order: producers set the clock.
ReplayConfig ==
  [partition : Partitions, start : Below(MaxLog) \union {LastOffset}, endOffset : Nat,
   late : SUBSET Below(MaxLog), types : SUBSET EventTypes]

ASSUME ReadersAssumption ==
  MaxEntries \in Nat \ {0} /\ Replays \subseteq ReplayConfig /\ Replays # {}

VARIABLES reading,    \* "no", "replay" or "list"
          config,
          readAt,     \* the offset of the record to read
          delivered   \* offsets given to the handler, or listed

readerVars == <<reading, config, readAt, delivered>>

Idle == CHOOSE c \in Replays : TRUE

ReadersInit ==
  /\ BusInit
  /\ reading = "no"
  /\ config = Idle
  /\ readAt = 0
  /\ delivered = <<>>

\* SetOffset: 0 is FirstOffset, LastOffset the end of the log as it is now.
Seek(c) == IF c.start = LastOffset THEN Len(log[c.partition]) ELSE c.start

Replay ==
  /\ reading = "no"
  /\ reading' = "replay"
  /\ \E c \in Replays : /\ config' = [c EXCEPT !.start = Seek(c)]
                       /\ readAt' = Seek(c)
  /\ UNCHANGED delivered

HasNext == readAt < Len(log[config.partition])

\* Mutant: the end offset is taken for the last one.
IsPastLast(o) == (config.endOffset > 0 /\ o > config.endOffset) \/ o \in config.late

\* EndOffset is exclusive, EndTime is not; a zero is no bound.
IsPastEnd(o) == (config.endOffset > 0 /\ o >= config.endOffset) \/ o \in config.late

Decodes(r) == r.shape \in {"sound", "odd"}
IsWanted(r) == Decodes(r) /\ (config.types # {} => r.type \in config.types)

\* ReadMessage returns a record, which is skipped or handled. Without a record it
\* waits, also at the end of the log.
ReplayRecord ==
  /\ reading = "replay" /\ HasNext /\ ~IsPastEnd(readAt)
  /\ readAt' = readAt + 1
  /\ delivered' = IF IsWanted(RecordAt(config.partition, readAt))
                  THEN Append(delivered, readAt) ELSE delivered
  /\ UNCHANGED <<reading, config>>

\* The reader is closed and what it knew is gone.
CloseReader ==
  /\ reading' = "no"
  /\ config' = Idle
  /\ readAt' = 0
  /\ delivered' = <<>>

\* The record is past the end.
ReplayReturns == reading = "replay" /\ HasNext /\ IsPastEnd(readAt) /\ CloseReader

\* kafka-replay posts each event to a webhook; an answer from 300 on, or none, ends
\* the replay. What the webhook made of the event is its own.
HandlerRefuses ==
  /\ reading = "replay" /\ HasNext /\ ~IsPastEnd(readAt)
  /\ IsWanted(RecordAt(config.partition, readAt))
  /\ CloseReader

\* ReadMessage fails, or the operator interrupts the command.
ReadFails == reading = "replay" /\ CloseReader

\* ListDLQ starts at the beginning, whenever it is called.
ListDLQ ==
  /\ reading = "no"
  /\ reading' = "list"
  /\ readAt' = 0
  /\ UNCHANGED <<config, delivered>>

ListEntry ==
  /\ reading = "list" /\ HasNext /\ Len(delivered) < MaxEntries
  /\ readAt' = readAt + 1
  /\ delivered' = Append(delivered, readAt)
  /\ UNCHANGED <<reading, config>>

\* It has enough, or no record came within MaxWait, or the context is done.
ListReturns == reading = "list" /\ CloseReader

ReaderStep == \/ Replay \/ ReplayRecord \/ ReplayReturns \/ HandlerRefuses \/ ReadFails
              \/ ListDLQ \/ ListEntry \/ ListReturns

ReadersNext == \/ BusNext /\ UNCHANGED readerVars
               \/ ReaderStep /\ UNCHANGED busVars

ReadersSpec == ReadersInit /\ [][ReadersNext]_<<busVars, readerVars>>

\* Replay reads a window of a log that grows meanwhile. Up to where it is, it has
\* handed over each wanted record of the window, once and in order, and nothing that
\* is past the end, not even after it has met one (replay.go:117-163). A listing
\* (dlq.go:163-210) shows the beginning of the topic, copies and others.
ReadersTellTheLog ==
  LET passed == {o \in Below(readAt) : o >= config.start}
      window == {o \in passed : \A past \in passed : past <= o =>
                   /\ config.endOffset > 0 => past < config.endOffset
                   /\ past \notin config.late}
      wanted == {o \in window : IsWanted(RecordAt(config.partition, o))}
  IN
  /\ reading = "replay" =>
       /\ ToSet(delivered) = wanted /\ window = passed
       /\ \A i, j \in DOMAIN delivered : i < j => delivered[i] < delivered[j]
  /\ reading = "list" =>
       delivered = [i \in 1..readAt |-> i - 1] /\ readAt <= MaxEntries

=============================================================================
