----------------------------- MODULE TimeTravel -----------------------------
(***************************************************************************)
(* package timetravel: services change an entity and then record a         *)
(* snapshot of it, either in the table entity_snapshots themselves         *)
(* (GORMRecorder) or with an event that a Consumer persists later          *)
(* (KafkaRecorder).  RecordEntity reads the clock, closes the open row of  *)
(* the entity and inserts a new one, in two statements outside of any      *)
(* transaction; LoadSnapshotAt reads the row that covers a moment.         *)
(*                                                                         *)
(* Every query names the kind and the id of one entity, so one entity is   *)
(* modelled.  Its payload is the number of the change that made it.  The   *)
(* domain table, the clock and Kafka are external: changes of the entity   *)
(* are serialised, the clocks of the services agree, and events arrive in  *)
(* any order (LeastBytes spreads them over partitions), more than once     *)
(* when a commit or a consumer fails.                                      *)
(***************************************************************************)
EXTENDS Integers, Sequences, FiniteSets

CONSTANTS
  Writers,         \* goroutines that change the entity and record it
  ViaKafka,        \* those of them that use a KafkaRecorder
  Sinks,           \* goroutines that run Consumer.handle with a GORMRecorder
  Actors,          \* who a ChangeContext names
  NoContext,       \* the context of a change carries no ChangeContext
  System,          \* uuid.Nil with reason "system"
  NoPayload,
  MaxChanges, MaxTime, MaxFaults   \* bounds

ASSUME TimeTravelAssumption ==
  /\ ViaKafka \subseteq Writers /\ Writers \cap Sinks = {}
  /\ NoContext \notin Actors
  /\ MaxChanges \in Nat /\ MaxTime \in Nat /\ MaxFaults \in Nat

Recorders == (Writers \ ViaKafka) \cup Sinks   \* who runs GORMRecorder
Callers   == Writers \cup Sinks

VARIABLES
  time,
  author,   \* author[v]: the ChangeContext of change v of the entity
  rows,     \* entity_snapshots, in the order of insertion
  events,   \* the changes published and not yet committed by a sink
  pc, call, \* a goroutine's place in the code and the snapshot it records
  now,      \* RecordEntity's local variable
  smooth,   \* history: no two recordings overlapped and nothing failed
  missed,   \* history: how many closes of a recorder failed
  faults

vars == <<time, author, rows, events, pc, call, now, smooth, missed, faults>>

Open    == -1
Payload == 1 .. MaxChanges
NoCall  == [v |-> NoPayload, by |-> NoContext]
Stages  == {"idle", "record", "close", "insert", "commit"}

Init == /\ time = 0
        /\ author = <<>> /\ rows = <<>> /\ events = {}
        /\ pc = [c \in Callers |-> "idle"]
        /\ call = [c \in Callers |-> NoCall]
        /\ now = [c \in Callers |-> 0]
        /\ smooth = TRUE
        /\ missed = [c \in Recorders |-> 0]
        /\ faults = 0

Tick == /\ time < MaxTime
        /\ time' = time + 1
        /\ UNCHANGED <<author, rows, events, pc, call, now, smooth, missed, faults>>

Fault == /\ faults < MaxFaults
         /\ faults' = faults + 1
         /\ smooth' = FALSE

Goto(c, stage) == pc' = [pc EXCEPT ![c] = stage]

Finish(c) == Goto(c, "idle") /\ call' = [call EXCEPT ![c] = NoCall]

Quiet == events = {} /\ \A c \in Callers : pc[c] = "idle"

ChangeContextFromContext(a) == IF a = NoContext THEN System ELSE a

-----------------------------------------------------------------------------
(* A service changes the entity, then calls RecordEntity.                  *)

Change(w) ==
  /\ pc[w] = "idle" /\ Len(author) < MaxChanges
  /\ \E a \in Actors \cup {NoContext} :
       /\ author' = Append(author, a)
       /\ call' = [call EXCEPT ![w] = [v |-> Len(author) + 1, by |-> a]]
  /\ Goto(w, "record")
  /\ smooth' = (smooth /\ Quiet)
  /\ UNCHANGED <<time, rows, events, now, missed, faults>>

\* KafkaRecorder.RecordEntity; the event carries the change context.
Publish(w) ==
  /\ w \in ViaKafka /\ pc[w] = "record"
  /\ events' = events \cup
       {[v |-> call[w].v, by |-> ChangeContextFromContext(call[w].by)]}
  /\ Finish(w)
  /\ UNCHANGED <<time, author, rows, now, smooth, missed, faults>>

\* Publish is refused or fails; the caller is free to swallow the error.
PublishFails(w) ==
  /\ w \in ViaKafka /\ pc[w] = "record"
  /\ Finish(w)
  /\ Fault
  /\ UNCHANGED <<time, author, rows, events, now, missed>>

-----------------------------------------------------------------------------
(* Consumer.handle.                                                        *)

\* Mutant of Handle: the sink is called without the change context.
Handle_Anonymous(s) ==
  /\ pc[s] = "idle"
  /\ \E e \in events : /\ call' = [call EXCEPT ![s] = [v |-> e.v, by |-> System]]
                       /\ events' = events \ {e}
  /\ Goto(s, "record")
  /\ UNCHANGED <<time, author, rows, now, smooth, missed, faults>>

Handle(s) ==
  /\ pc[s] = "idle"
  /\ \E e \in events : /\ call' = [call EXCEPT ![s] = e]
                       /\ events' = events \ {e}
  /\ Goto(s, "record")
  /\ UNCHANGED <<time, author, rows, now, smooth, missed, faults>>

\* handle returns nil, and the consumer commits.
Commit(s) ==
  /\ pc[s] = "commit"
  /\ Finish(s)
  /\ UNCHANGED <<time, author, rows, events, now, smooth, missed, faults>>

\* The consumer dies, or its commit fails and the event is delivered again,
\* whatever was done with it.
Redeliver(s) ==
  /\ pc[s] # "idle"
  /\ events' = events \cup {call[s]}
  /\ Finish(s)
  /\ Fault
  /\ UNCHANGED <<time, author, rows, now, missed>>

-----------------------------------------------------------------------------
(* GORMRecorder.RecordEntity.                                              *)

ReadClock(c) ==
  /\ pc[c] = "record"
  /\ now' = [now EXCEPT ![c] = time]
  /\ Goto(c, "close")
  /\ UNCHANGED <<time, author, rows, events, call, smooth, missed, faults>>

CloseAt(r, t) == [r EXCEPT !.to = t]

\* Mutant of CloseWindow: only rows that began earlier are closed.
CloseWindow_Older(c) ==
  /\ pc[c] = "close"
  /\ rows' = [i \in DOMAIN rows |->
                IF rows[i].to = Open /\ rows[i].from < now[c]
                THEN CloseAt(rows[i], now[c]) ELSE rows[i]]
  /\ Goto(c, "insert")
  /\ UNCHANGED <<time, author, events, call, now, smooth, missed, faults>>

\* Mutant of CloseWindow: the condition valid_to IS NULL is missing.
CloseWindow_All(c) ==
  /\ pc[c] = "close"
  /\ rows' = [i \in DOMAIN rows |-> CloseAt(rows[i], now[c])]
  /\ Goto(c, "insert")
  /\ UNCHANGED <<time, author, events, call, now, smooth, missed, faults>>

CloseWindow(c) ==
  /\ pc[c] = "close"
  /\ rows' = [i \in DOMAIN rows |->
                IF rows[i].to = Open THEN CloseAt(rows[i], now[c]) ELSE rows[i]]
  /\ Goto(c, "insert")
  /\ UNCHANGED <<time, author, events, call, now, smooth, missed, faults>>

\* "Do not abort": the error of the UPDATE is logged.
CloseFails(c) ==
  /\ pc[c] = "close"
  /\ Goto(c, "insert")
  /\ missed' = [missed EXCEPT ![c] = @ + 1]
  /\ Fault
  /\ UNCHANGED <<time, author, rows, events, call, now>>

Row(c, from) == [v |-> call[c].v, by |-> ChangeContextFromContext(call[c].by),
                 from |-> from, to |-> Open, recorder |-> c]

Returned(c) == \/ c \in Writers /\ Finish(c)
               \/ c \in Sinks /\ Goto(c, "commit") /\ UNCHANGED call

\* Mutant of Insert: the new row begins when it is written.
Insert_Late(c) ==
  /\ pc[c] = "insert"
  /\ rows' = Append(rows, Row(c, time))
  /\ Returned(c)
  /\ UNCHANGED <<time, author, events, now, smooth, missed, faults>>

Insert(c) ==
  /\ pc[c] = "insert"
  /\ rows' = Append(rows, Row(c, now[c]))
  /\ Returned(c)
  /\ UNCHANGED <<time, author, events, now, smooth, missed, faults>>

\* The INSERT fails, or the service dies before it: nobody tries again, and
\* Consumer.handle hides the error from the consumer.
InsertFails(c) ==
  /\ pc[c] = "insert"
  /\ Returned(c)
  /\ Fault
  /\ UNCHANGED <<time, author, rows, events, now, missed>>

-----------------------------------------------------------------------------

RecordEntity(c) == \/ ReadClock(c) \/ CloseWindow(c) \/ CloseFails(c)
                   \/ Insert(c) \/ InsertFails(c)

\* Services need not change the entity.
Rest == Quiet /\ UNCHANGED vars

Next == \/ Tick \/ Rest
        \/ \E w \in Writers : Change(w) \/ Publish(w) \/ PublishFails(w)
        \/ \E s \in Sinks : Handle(s) \/ Commit(s) \/ Redeliver(s)
        \/ \E c \in Recorders : RecordEntity(c)

Spec == Init /\ [][Next]_vars

-----------------------------------------------------------------------------
(* GORMRecorder.LoadSnapshotAt.                                            *)

Covers(r, t) == r.from <= t /\ (r.to = Open \/ r.to > t)

\* ORDER BY valid_from DESC; between equals the row's random id decides.
LoadSnapshotAt(t) ==
  {i \in DOMAIN rows :
     /\ Covers(rows[i], t)
     /\ \A j \in DOMAIN rows : Covers(rows[j], t) => rows[j].from <= rows[i].from}

-----------------------------------------------------------------------------
(* Properties.                                                             *)

\* The past is not rewritten: a row keeps its payload, author and beginning,
\* and once it is closed also its end, however many recordings overlap.
PastIsKept ==
  [][\A i \in DOMAIN rows :
       \/ rows'[i] = rows[i]
       \/ rows[i].to = Open /\ rows'[i] = CloseAt(rows[i], rows'[i].to)]_vars

\* Overlapping recordings leave several rows open, but none for long: nobody
\* has more than one open row, and one for each close of its own that failed.
OpenRowsAreBounded ==
  \A c \in Recorders :
    Cardinality({i \in DOMAIN rows : rows[i].recorder = c /\ rows[i].to = Open})
      <= 1 + missed[c]

\* Recordings that do not overlap and do not fail make an exact history: from
\* the first row on every moment is covered, by the row of one change, and now
\* by the row of the last one.
SerialHistoryIsExact ==
  (smooth /\ Quiet /\ rows # <<>>) =>
    /\ \A t \in rows[1].from .. time :
         Cardinality({i \in DOMAIN rows : Covers(rows[i], t)}) = 1
    /\ \A i \in LoadSnapshotAt(time) : rows[i].v = Len(author)

\* Who changed the entity stays with the snapshot, through the context, the
\* event's metadata, redeliveries and the sink's own context.
AttributionKept ==
  \A i \in DOMAIN rows : rows[i].by = ChangeContextFromContext(author[rows[i].v])

=============================================================================
