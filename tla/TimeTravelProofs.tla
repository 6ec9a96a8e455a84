-------------------------- MODULE TimeTravelProofs --------------------------
(* What holds of the history of an entity for every number of services,     *)
(* consumers and authors, and every bound on changes, time and faults.      *)
EXTENDS TimeTravel, FiniteSetTheorems, TLAPS

USE DEF vars

-----------------------------------------------------------------------------
(* The invariant.                                                           *)

Contexts  == Actors \cup {NoContext, System}
Snapshots == [v : Payload, by : Contexts]
Rows      == [v : Payload, by : Contexts, from : 0..MaxTime, to : {Open} \cup 0..MaxTime,
              recorder : Recorders]

TypeOK ==
  /\ time \in 0..MaxTime /\ faults \in 0..MaxFaults /\ smooth \in BOOLEAN
  /\ author \in Seq(Contexts) /\ Len(author) <= MaxChanges
  /\ rows \in Seq(Rows) /\ events \subseteq Snapshots
  /\ pc \in [Callers -> Stages] /\ call \in [Callers -> Snapshots \cup {NoCall}]
  /\ now \in [Callers -> 0..MaxTime] /\ missed \in [Recorders -> Nat]

\* Nothing was recorded later than now.
ClocksAgree == /\ \A c \in Callers : now[c] <= time
               /\ \A i \in DOMAIN rows : rows[i].from <= time

\* A snapshot on its way names a change of the entity and its author.
Attributed(s) ==
  /\ s.v \in DOMAIN author
  /\ ChangeContextFromContext(s.by) = ChangeContextFromContext(author[s.v])

Attribution ==
  /\ \A c \in Callers : pc[c] # "idle" => call[c] \in Snapshots /\ Attributed(call[c])
  /\ \A e \in events : Attributed(e)
  /\ \A i \in DOMAIN rows : rows[i].v \in DOMAIN author
  /\ AttributionKept

\* Between its close and its insert a recorder has no open row but those it missed.
OpenRows(c) == {i \in DOMAIN rows : rows[i].recorder = c /\ rows[i].to = Open}

OpenRowsInv ==
  \A c \in Recorders :
    Cardinality(OpenRows(c)) <= missed[c] + (IF pc[c] = "insert" THEN 0 ELSE 1)

\* A recording without overlap: one goroutine or one event carries the last change,
\* until its row is the last one.
Serial ==
  /\ \A c, d \in Callers : pc[c] # "idle" /\ pc[d] # "idle" => c = d
  /\ \A c \in Callers : pc[c] # "idle" => events = {}
  /\ \A e, f \in events : e = f
  /\ \A e \in events : e.v = Len(author)
  /\ \A c \in Callers : pc[c] \in {"record", "close", "insert"} => call[c].v = Len(author)
  /\ (events = {} /\ \A c \in Callers : pc[c] \in {"idle", "commit"}) =>
       \A i \in DOMAIN rows : i = Len(rows) => rows[i].v = Len(author)

\* The rows follow each other without overlap ...
RowsInOrder ==
  \A i, j \in DOMAIN rows : i < j => rows[i].to # Open /\ rows[i].to <= rows[j].from

Covered(t) == \E i \in DOMAIN rows : Covers(rows[i], t)

\* ... and without a gap: up to the end of time, or to the row to be inserted.
NoGap ==
  \/ /\ \A c \in Callers : pc[c] # "insert"
     /\ \A i \in DOMAIN rows : i = Len(rows) => rows[i].to = Open
     /\ \A t \in Nat : rows # <<>> /\ rows[1].from <= t => Covered(t)
     /\ \A c \in Callers : pc[c] = "close" => \A i \in DOMAIN rows : rows[i].from <= now[c]
  \/ \E c \in Callers :
     /\ pc[c] = "insert"
     /\ \A i \in DOMAIN rows : rows[i].to # Open /\ rows[i].to <= now[c]
     /\ \A t \in Nat : rows # <<>> /\ rows[1].from <= t /\ t < now[c] => Covered(t)

SerialInv == smooth => Serial /\ RowsInOrder /\ NoGap

IInv == TypeOK /\ ClocksAgree /\ Attribution /\ OpenRowsInv /\ SerialInv

LEMMA InitInv == Init => IInv
<1>. SUFFICES ASSUME Init PROVE IInv
  OBVIOUS
<1>. USE TimeTravelAssumption DEF Init
<1>1. TypeOK
  BY DEF TypeOK, Stages, Recorders
<1>2. ClocksAgree /\ Attribution
  BY DEF ClocksAgree, Attribution, AttributionKept
<1>3. OpenRowsInv
  <2>1. \A c \in Recorders : OpenRows(c) = {}
    BY DEF OpenRows
  <2>2. \A c \in Recorders : pc[c] = "idle" /\ missed[c] = 0
    BY DEF Recorders, Callers
  <2>3. Cardinality({}) = 0
    BY FS_EmptySet
  <2>4. \A c \in Recorders : Cardinality(OpenRows(c)) = 0
    BY <2>1, <2>3
  <2>. QED  BY <2>2, <2>4 DEF OpenRowsInv
<1>4. Serial /\ RowsInOrder
  BY DEF Serial, RowsInOrder
<1>5. NoGap
  BY DEF NoGap
<1>. QED  BY <1>1, <1>2, <1>3, <1>4, <1>5 DEF IInv, SerialInv

-----------------------------------------------------------------------------
(* Types and clocks.                                                        *)

LEMMA RecordersCall == Recorders \subseteq Callers /\ Sinks \subseteq Recorders
BY TimeTravelAssumption DEF Recorders, Callers

LEMMA RowsTyped ==
  ASSUME TypeOK
  PROVE  /\ Len(rows) \in Nat /\ DOMAIN rows = 1..Len(rows)
         /\ \A i \in DOMAIN rows :
              /\ rows[i] \in Rows /\ rows[i].from \in Nat /\ rows[i].to \in Int
              /\ rows[i].v \in Payload /\ rows[i].recorder \in Recorders
<1>1. \A r \in Rows : /\ r.from \in Nat /\ r.to \in Int
                      /\ r.v \in Payload /\ r.recorder \in Recorders
  BY DEF Rows, Open
<1>2. rows \in Seq(Rows)
  BY DEF TypeOK
<1>. QED  BY <1>1, <1>2

\* What the two statements of RecordEntity do to the table.
LEMMA CloseShape ==
  ASSUME TypeOK, NEW c \in Recorders, CloseWindow(c)
  PROVE  /\ DOMAIN rows' = DOMAIN rows /\ Len(rows') = Len(rows) /\ now[c] \in Nat
         /\ \A i \in DOMAIN rows :
              /\ rows'[i].v = rows[i].v /\ rows'[i].by = rows[i].by
              /\ rows'[i].from = rows[i].from /\ rows'[i].recorder = rows[i].recorder
              /\ rows'[i].to = IF rows[i].to = Open THEN now[c] ELSE rows[i].to
<1>1. rows' = [i \in DOMAIN rows |->
                 IF rows[i].to = Open THEN CloseAt(rows[i], now[c]) ELSE rows[i]]
  BY DEF CloseWindow
<1>2. /\ DOMAIN rows = 1..Len(rows) /\ Len(rows) \in Nat
      /\ \A i \in DOMAIN rows : rows[i] \in Rows
  BY RowsTyped
<1>3. now[c] \in Nat
  BY RecordersCall, TimeTravelAssumption DEF TypeOK
<1>4. \A r \in Rows : LET x == CloseAt(r, now[c]) IN
         /\ x.v = r.v /\ x.by = r.by /\ x.from = r.from /\ x.recorder = r.recorder
         /\ x.to = now[c]
  BY DEF CloseAt, Rows
<1>5. DOMAIN rows' = DOMAIN rows /\ Len(rows') = Len(rows)
  BY <1>1, <1>2
<1>. QED  BY <1>1, <1>2, <1>3, <1>4, <1>5

LEMMA InsertShape ==
  ASSUME TypeOK, NEW c \in Recorders, Insert(c)
  PROVE  /\ Len(rows) \in Nat /\ DOMAIN rows = 1..Len(rows)
         /\ Len(rows') = Len(rows) + 1 /\ DOMAIN rows' = DOMAIN rows \cup {Len(rows')}
         /\ \A i \in DOMAIN rows : rows'[i] = rows[i] /\ i # Len(rows')
         /\ rows'[Len(rows')] = Row(c, now[c])
         /\ now[c] \in Nat
<1>1. rows' = Append(rows, Row(c, now[c])) /\ rows \in Seq(Rows)
  BY DEF Insert, TypeOK
<1>2. Len(rows) \in Nat /\ DOMAIN rows = 1..Len(rows)
  BY <1>1
<1>3. now[c] \in Nat
  BY RecordersCall, TimeTravelAssumption DEF TypeOK
<1>. QED  BY <1>1, <1>2, <1>3

\* A context that was read once stays what it is when it is read again.
LEMMA ContextIsStable ==
  \A a \in Contexts : /\ ChangeContextFromContext(a) \in Contexts
                      /\ ChangeContextFromContext(ChangeContextFromContext(a))
                           = ChangeContextFromContext(a)
BY DEF ChangeContextFromContext, Contexts

\* Where a recorder goes when RecordEntity returns.
LEMMA ReturnedKeepsTypes ==
  ASSUME TypeOK, NEW c \in Callers, Returned(c) \/ Finish(c)
  PROVE  /\ pc' \in [Callers -> Stages] /\ call' \in [Callers -> Snapshots \cup {NoCall}]
         /\ pc'[c] \in {"idle", "commit"} /\ (pc'[c] = "commit" => call'[c] = call[c])
         /\ \A d \in Callers \ {c} : pc'[d] = pc[d] /\ call'[d] = call[d]
<1>1. CASE Finish(c)
  BY <1>1 DEF Finish, Goto, TypeOK, Stages
<1>2. CASE Goto(c, "commit") /\ UNCHANGED call
  BY <1>2 DEF Goto, TypeOK, Stages
<1>. QED  BY <1>1, <1>2 DEF Returned

LEMMA TypesInductive == IInv /\ [Next]_vars => TypeOK' /\ ClocksAgree'
<1>. SUFFICES ASSUME IInv, [Next]_vars PROVE TypeOK' /\ ClocksAgree'
  OBVIOUS
<1>. USE TimeTravelAssumption, RecordersCall DEF ClocksAgree
<1>0. TypeOK /\ ClocksAgree /\ Attribution
  BY DEF IInv
<1>1. CASE UNCHANGED vars
  BY <1>0, <1>1 DEF TypeOK
<1>2. CASE Tick
  <2>1. time' = time + 1 /\ time' \in 0..MaxTime
    BY <1>0, <1>2 DEF Tick, TypeOK
  <2>2. /\ \A c \in Callers : now[c] \in Nat
        /\ \A i \in DOMAIN rows : rows[i].from \in Nat
    BY <1>0, RowsTyped DEF TypeOK
  <2>3. ClocksAgree'
    BY <1>0, <1>2, <2>1, <2>2 DEF Tick, TypeOK
  <2>. QED  BY <1>0, <1>2, <2>1, <2>3 DEF Tick, TypeOK
<1>3. ASSUME NEW w \in Writers, Change(w) PROVE TypeOK' /\ ClocksAgree'
  <2>1. PICK a \in Actors \cup {NoContext} :
           /\ author' = Append(author, a)
           /\ call' = [call EXCEPT ![w] = [v |-> Len(author) + 1, by |-> a]]
    BY <1>3 DEF Change
  <2>2. /\ Len(author) < MaxChanges /\ pc' = [pc EXCEPT ![w] = "record"]
        /\ UNCHANGED <<time, rows, events, now, missed, faults>>
    BY <1>3 DEF Change, Goto
  <2>3. smooth' \in BOOLEAN
    BY <1>3, Zenon DEF Change
  <2>4. author' \in Seq(Contexts) /\ Len(author') <= MaxChanges
    BY <1>0, <2>1, <2>2 DEF TypeOK, Contexts
  <2>5. [v |-> Len(author) + 1, by |-> a] \in Snapshots
    BY <1>0, <2>2 DEF TypeOK, Snapshots, Payload, Contexts
  <2>6. pc' \in [Callers -> Stages] /\ call' \in [Callers -> Snapshots \cup {NoCall}]
    BY <1>0, <2>1, <2>2, <2>5 DEF TypeOK, Stages
  <2>. QED  BY <1>0, <2>2, <2>3, <2>4, <2>6 DEF TypeOK
<1>4. ASSUME NEW w \in Writers, Publish(w) \/ PublishFails(w) PROVE TypeOK' /\ ClocksAgree'
  <2>1. /\ pc[w] = "record" /\ Finish(w) /\ UNCHANGED <<time, author, rows, now, missed>>
        /\ faults' \in 0..MaxFaults
    BY <1>0, <1>4 DEF Publish, PublishFails, Fault, TypeOK
  <2>2. smooth' \in BOOLEAN
    BY <1>0, <1>4, Zenon DEF Publish, PublishFails, Fault, TypeOK
  <2>3. call[w] \in Snapshots
    BY <1>0, <2>1 DEF Attribution, Callers
  <2>4. [v |-> call[w].v, by |-> ChangeContextFromContext(call[w].by)] \in Snapshots
    BY <2>3, ContextIsStable DEF Snapshots
  <2>5. events' \subseteq Snapshots
    BY <1>0, <1>4, <2>4 DEF Publish, PublishFails, TypeOK
  <2>6. w \in Callers
    BY DEF Callers
  <2>7. pc' \in [Callers -> Stages] /\ call' \in [Callers -> Snapshots \cup {NoCall}]
    BY <1>0, <2>1, <2>6, ReturnedKeepsTypes
  <2>. QED  BY <1>0, <2>1, <2>2, <2>5, <2>7 DEF TypeOK
<1>5. ASSUME NEW s \in Sinks, Handle(s) PROVE TypeOK' /\ ClocksAgree'
  <2>1. PICK e \in events : call' = [call EXCEPT ![s] = e] /\ events' = events \ {e}
    BY <1>5 DEF Handle
  <2>2. /\ pc' = [pc EXCEPT ![s] = "record"]
        /\ UNCHANGED <<time, author, rows, now, smooth, missed, faults>>
    BY <1>5 DEF Handle, Goto
  <2>3. pc' \in [Callers -> Stages] /\ call' \in [Callers -> Snapshots \cup {NoCall}]
    BY <1>0, <2>1, <2>2 DEF TypeOK, Stages
  <2>. QED  BY <1>0, <2>1, <2>2, <2>3 DEF TypeOK
<1>6. ASSUME NEW s \in Sinks, Commit(s) \/ Redeliver(s) PROVE TypeOK' /\ ClocksAgree'
  <2>1. /\ pc[s] # "idle" /\ Finish(s) /\ UNCHANGED <<time, author, rows, now, missed>>
        /\ faults' \in 0..MaxFaults /\ events' \subseteq events \cup {call[s]}
    BY <1>0, <1>6 DEF Commit, Redeliver, Fault, TypeOK
  <2>2. smooth' \in BOOLEAN
    BY <1>0, <1>6, Zenon DEF Commit, Redeliver, Fault, TypeOK
  <2>3. call[s] \in Snapshots
    BY <1>0, <2>1 DEF Attribution
  <2>4. pc' \in [Callers -> Stages] /\ call' \in [Callers -> Snapshots \cup {NoCall}]
    BY <1>0, <2>1, ReturnedKeepsTypes
  <2>. QED  BY <1>0, <2>1, <2>2, <2>3, <2>4 DEF TypeOK
<1>7. ASSUME NEW c \in Recorders, RecordEntity(c) PROVE TypeOK' /\ ClocksAgree'
  <2>0. c \in Callers /\ rows \in Seq(Rows) /\ now[c] \in 0..MaxTime
    BY <1>0 DEF TypeOK
  <2>1. CASE ReadClock(c)
    BY <1>0, <2>0, <2>1 DEF ReadClock, Goto, TypeOK, Stages
  <2>2. CASE CloseWindow(c)
    <3>1. rows' \in Seq(Rows)
      <4>1. \A i \in DOMAIN rows : rows[i] \in Rows
        BY <2>0
      <4>2. \A r \in Rows : CloseAt(r, now[c]) \in Rows
        BY <2>0 DEF CloseAt, Rows
      <4>. QED  BY <2>0, <2>2, <4>1, <4>2 DEF CloseWindow
    <3>2. \A i \in DOMAIN rows' : i \in DOMAIN rows /\ rows'[i].from = rows[i].from
      BY <2>0, <2>2 DEF CloseWindow, CloseAt, Rows
    <3>. QED  BY <1>0, <2>2, <3>1, <3>2 DEF CloseWindow, Goto, TypeOK, Stages
  <2>3. CASE CloseFails(c)
    <3>1. /\ pc' = [pc EXCEPT ![c] = "insert"] /\ missed' = [missed EXCEPT ![c] = @ + 1]
          /\ faults' \in 0..MaxFaults /\ UNCHANGED <<time, author, rows, events, call, now>>
      BY <1>0, <2>3 DEF CloseFails, Goto, Fault, TypeOK
    <3>2. smooth' \in BOOLEAN
      BY <2>3, Zenon DEF CloseFails, Fault
    <3>. QED  BY <1>0, <3>1, <3>2 DEF TypeOK, Stages
  <2>4. CASE Insert(c)
    <3>1. /\ pc[c] = "insert" /\ Returned(c) /\ rows' = Append(rows, Row(c, now[c]))
          /\ UNCHANGED <<time, author, events, now, smooth, missed, faults>>
      BY <2>4 DEF Insert
    <3>2. call[c] \in Snapshots
      BY <1>0, <2>0, <3>1 DEF Attribution
    <3>3. Row(c, now[c]) \in Rows
      BY <2>0, <3>2, ContextIsStable DEF Row, Rows, Snapshots
    <3>4. rows' \in Seq(Rows) /\ \A i \in DOMAIN rows' : rows'[i].from <= time
      <4>1. Row(c, now[c]).from <= time
        BY <1>0, <2>0 DEF Row
      <4>. QED  BY <1>0, <2>0, <3>1, <3>3, <4>1
    <3>5. pc' \in [Callers -> Stages] /\ call' \in [Callers -> Snapshots \cup {NoCall}]
      BY <1>0, <2>0, <3>1, ReturnedKeepsTypes
    <3>. QED  BY <1>0, <3>1, <3>4, <3>5 DEF TypeOK
  <2>5. CASE InsertFails(c)
    <3>1. /\ Returned(c) /\ faults' \in 0..MaxFaults
          /\ UNCHANGED <<time, author, rows, events, now, missed>>
      BY <1>0, <2>5 DEF InsertFails, Fault, TypeOK
    <3>2. smooth' \in BOOLEAN
      BY <2>5, Zenon DEF InsertFails, Fault
    <3>3. pc' \in [Callers -> Stages] /\ call' \in [Callers -> Snapshots \cup {NoCall}]
      BY <1>0, <2>0, <3>1, ReturnedKeepsTypes
    <3>. QED  BY <1>0, <3>1, <3>2, <3>3 DEF TypeOK
  <2>. QED  BY <1>7, <2>1, <2>2, <2>3, <2>4, <2>5 DEF RecordEntity
<1>. QED  BY <1>1, <1>2, <1>3, <1>4, <1>5, <1>6, <1>7 DEF Next, Rest

-----------------------------------------------------------------------------
(* Who changed the entity.                                                  *)

LEMMA AttributionInductive == IInv /\ [Next]_vars => Attribution'
<1>. SUFFICES ASSUME IInv, [Next]_vars PROVE Attribution'
  OBVIOUS
<1>. USE RecordersCall
<1>0. TypeOK /\ Attribution
  BY DEF IInv
<1>. DEFINE Calls  == \A c \in Callers : pc[c] # "idle" => call[c] \in Snapshots /\ Attributed(call[c])
            Sent   == \A e \in events : Attributed(e)
            Stored == (\A i \in DOMAIN rows : rows[i].v \in DOMAIN author) /\ AttributionKept
<1>a. Calls /\ Sent /\ Stored
  BY <1>0 DEF Attribution
<1>b. Calls' /\ Sent' /\ Stored' => Attribution'
  BY DEF Attribution
<1>1. ASSUME UNCHANGED author PROVE \A s : Attributed(s)' <=> Attributed(s)
  BY <1>1 DEF Attributed
<1>2. ASSUME UNCHANGED <<author, rows>> PROVE Stored'
  BY <1>a, <1>2 DEF AttributionKept
<1>3. ASSUME UNCHANGED author, NEW c \in Callers, Returned(c) \/ Finish(c), pc[c] # "idle" PROVE Calls'
  BY <1>0, <1>a, <1>1, <1>3, ReturnedKeepsTypes
<1>4. CASE UNCHANGED vars
  BY <1>a, <1>b, <1>1, <1>2, <1>4
<1>5. CASE Tick
  BY <1>a, <1>b, <1>1, <1>2, <1>5 DEF Tick
<1>6. ASSUME NEW w \in Writers, Change(w) PROVE Attribution'
  <2>1. PICK a \in Actors \cup {NoContext} :
           /\ author' = Append(author, a)
           /\ call' = [call EXCEPT ![w] = [v |-> Len(author) + 1, by |-> a]]
    BY <1>6 DEF Change
  <2>2. /\ Len(author) < MaxChanges /\ pc' = [pc EXCEPT ![w] = "record"]
        /\ UNCHANGED <<time, rows, events, now, missed, faults>>
    BY <1>6 DEF Change, Goto
  <2>3. /\ author \in Seq(Contexts) /\ Len(author) \in Nat /\ MaxChanges \in Nat
        /\ pc \in [Callers -> Stages] /\ call \in [Callers -> Snapshots \cup {NoCall}]
    BY <1>0, TimeTravelAssumption DEF TypeOK
  <2>4. /\ DOMAIN author' = DOMAIN author \cup {Len(author) + 1} /\ author'[Len(author) + 1] = a
        /\ \A v \in DOMAIN author : author'[v] = author[v]
    BY <2>1, <2>3
  <2>5. ASSUME NEW s, Attributed(s) PROVE Attributed(s)'
    BY <2>4, <2>5 DEF Attributed
  <2>6. Stored'
    BY <1>a, <2>2, <2>4 DEF AttributionKept
  <2>7. ASSUME NEW s, s = [v |-> Len(author) + 1, by |-> a] PROVE Attributed(s)'
    BY <2>4, <2>7 DEF Attributed
  <2>8. [v |-> Len(author) + 1, by |-> a] \in Snapshots
    BY <2>2, <2>3 DEF Snapshots, Payload, Contexts
  <2>9. Calls'
    BY <1>a, <2>1, <2>2, <2>3, <2>5, <2>7, <2>8
  <2>. QED  BY <1>a, <1>b, <2>2, <2>5, <2>6, <2>9
<1>7. ASSUME NEW w \in Writers, Publish(w) \/ PublishFails(w) PROVE Attribution'
  <2>1. /\ pc[w] = "record" /\ Finish(w) /\ UNCHANGED <<author, rows>> /\ w \in Callers
    BY <1>7 DEF Publish, PublishFails, Callers
  <2>2. call[w] \in Snapshots /\ Attributed(call[w])
    BY <1>a, <2>1
  <2>3. Attributed([v |-> call[w].v, by |-> ChangeContextFromContext(call[w].by)])
    BY <2>2, ContextIsStable DEF Attributed, Snapshots
  <2>4. Sent'
    BY <1>a, <1>1, <1>7, <2>1, <2>3 DEF Publish, PublishFails
  <2>. QED  BY <1>b, <1>2, <1>3, <2>1, <2>4
<1>8. ASSUME NEW s \in Sinks, Handle(s) PROVE Attribution'
  <2>1. PICK e \in events : call' = [call EXCEPT ![s] = e] /\ events' = events \ {e}
    BY <1>8 DEF Handle
  <2>2. pc' = [pc EXCEPT ![s] = "record"] /\ UNCHANGED <<author, rows>>
    BY <1>8 DEF Handle, Goto
  <2>3. e \in Snapshots /\ Attributed(e)
    BY <1>0, <1>a DEF TypeOK
  <2>4. pc \in [Callers -> Stages] /\ call \in [Callers -> Snapshots \cup {NoCall}]
    BY <1>0 DEF TypeOK
  <2>5. Calls'
    BY <1>a, <1>1, <2>1, <2>2, <2>3, <2>4
  <2>. QED  BY <1>a, <1>b, <1>1, <1>2, <2>1, <2>2, <2>5
<1>9. ASSUME NEW s \in Sinks, Commit(s) \/ Redeliver(s) PROVE Attribution'
  <2>1. /\ pc[s] # "idle" /\ Finish(s) /\ UNCHANGED <<author, rows>> /\ s \in Callers
        /\ events' \subseteq events \cup {call[s]}
    BY <1>9 DEF Commit, Redeliver
  <2>2. Sent'
    BY <1>a, <1>1, <2>1
  <2>. QED  BY <1>b, <1>2, <1>3, <2>1, <2>2
<1>10. ASSUME NEW c \in Recorders, RecordEntity(c) PROVE Attribution'
  <2>0. c \in Callers /\ UNCHANGED <<author, events>> /\ pc[c] # "idle"
    BY <1>10 DEF RecordEntity, ReadClock, CloseWindow, CloseFails, Insert, InsertFails
  <2>1. Sent'
    BY <1>a, <1>1, <2>0
  <2>2. ASSUME NEW stage, Goto(c, stage), UNCHANGED call PROVE Calls'
    BY <1>0, <1>a, <1>1, <2>0, <2>2 DEF Goto, TypeOK
  <2>3. CASE ReadClock(c) \/ CloseFails(c)
    BY <1>b, <1>2, <2>1, <2>2, <2>3 DEF ReadClock, CloseFails
  <2>4. CASE CloseWindow(c)
    <3>1. Stored'
      BY <1>0, <1>a, <2>0, <2>4, CloseShape DEF AttributionKept
    <3>. QED  BY <1>b, <2>1, <2>2, <2>4, <3>1 DEF CloseWindow
  <2>5. CASE Insert(c)
    <3>1. call[c] \in Snapshots /\ Attributed(call[c])
      BY <1>a, <2>0
    <3>2. /\ Row(c, now[c]).v \in DOMAIN author
          /\ Row(c, now[c]).by = ChangeContextFromContext(author[Row(c, now[c]).v])
      BY <3>1 DEF Row, Attributed
    <3>3. Stored'
      BY <1>0, <1>a, <2>0, <2>5, <3>2, InsertShape DEF AttributionKept
    <3>. QED  BY <1>b, <1>3, <2>0, <2>1, <2>5, <3>3 DEF Insert
  <2>6. CASE InsertFails(c)
    BY <1>b, <1>2, <1>3, <2>0, <2>1, <2>6 DEF InsertFails
  <2>. QED  BY <1>10, <2>3, <2>4, <2>5, <2>6 DEF RecordEntity
<1>. QED  BY <1>4, <1>5, <1>6, <1>7, <1>8, <1>9, <1>10 DEF Next, Rest

-----------------------------------------------------------------------------
(* Open rows.                                                               *)

LEMMA OpenRowsAreFinite ==
  ASSUME TypeOK, NEW c
  PROVE  IsFiniteSet(OpenRows(c)) /\ Cardinality(OpenRows(c)) \in Nat
<1>1. OpenRows(c) \subseteq 1..Len(rows) /\ Len(rows) \in Nat
  BY RowsTyped DEF OpenRows
<1>2. IsFiniteSet(1..Len(rows))
  BY <1>1, FS_Interval
<1>. QED  BY <1>1, <1>2, FS_Subset, FS_CardinalityType

LEMMA OpenRowsInductive == IInv /\ [Next]_vars => OpenRowsInv'
<1>. SUFFICES ASSUME IInv, [Next]_vars, NEW d \in Recorders
              PROVE  Cardinality(OpenRows(d)') <= missed'[d] + (IF pc'[d] = "insert" THEN 0 ELSE 1)
  BY DEF OpenRowsInv
<1>. DEFINE Goal == Cardinality(OpenRows(d)') <= missed'[d] + (IF pc'[d] = "insert" THEN 0 ELSE 1)
<1>0. /\ TypeOK /\ missed \in [Recorders -> Nat] /\ pc \in [Callers -> Stages] /\ d \in Callers
      /\ Cardinality(OpenRows(d)) <= missed[d] + (IF pc[d] = "insert" THEN 0 ELSE 1)
      /\ Cardinality(OpenRows(d)) \in Nat
  BY OpenRowsAreFinite, RecordersCall DEF IInv, TypeOK, OpenRowsInv
<1>1. ASSUME UNCHANGED rows PROVE OpenRows(d)' = OpenRows(d)
  BY <1>1 DEF OpenRows
\* A goroutine that does not turn to its insert keeps the bound.
<1>2. ASSUME UNCHANGED <<rows, missed>>, pc'[d] = "insert" => pc[d] = "insert" PROVE Goal
  BY <1>0, <1>1, <1>2
<1>3. ASSUME NEW c \in Callers, Returned(c) \/ Finish(c), UNCHANGED <<rows, missed>> PROVE Goal
  BY <1>0, <1>2, <1>3, ReturnedKeepsTypes
<1>4. ASSUME NEW c, NEW stage, stage # "insert", Goto(c, stage), UNCHANGED <<rows, missed>> PROVE Goal
  BY <1>0, <1>2, <1>4 DEF Goto
<1>5. CASE UNCHANGED vars \/ Tick
  BY <1>2, <1>5 DEF Tick
<1>6. ASSUME NEW w \in Writers, Change(w) \/ Publish(w) \/ PublishFails(w) PROVE Goal
  BY <1>3, <1>4, <1>6 DEF Change, Publish, PublishFails, Callers
<1>7. ASSUME NEW s \in Sinks, Handle(s) \/ Commit(s) \/ Redeliver(s) PROVE Goal
  BY <1>3, <1>4, <1>7 DEF Handle, Commit, Redeliver, Callers
<1>8. ASSUME NEW c \in Recorders, RecordEntity(c) PROVE Goal
  <2>0. c \in Callers
    BY RecordersCall
  <2>1. CASE ReadClock(c)
    BY <1>4, <2>1 DEF ReadClock
  <2>2. CASE CloseWindow(c)
    <3>1. OpenRows(d)' = {}
      BY <1>0, <2>2, CloseShape DEF OpenRows, Open
    <3>2. Cardinality(OpenRows(d)') = 0
      BY <3>1, FS_EmptySet
    <3>3. missed'[d] \in Nat
      BY <1>0, <2>2 DEF CloseWindow
    <3>. QED  BY <3>2, <3>3
  <2>3. CASE CloseFails(c)
    <3>1. /\ pc[c] = "close" /\ pc' = [pc EXCEPT ![c] = "insert"] /\ UNCHANGED rows
          /\ missed' = [missed EXCEPT ![c] = @ + 1]
      BY <2>3 DEF CloseFails, Goto
    <3>2. CASE d = c
      <4>1. missed'[d] = missed[d] + 1 /\ pc'[d] = "insert" /\ pc[d] = "close"
        BY <1>0, <2>0, <3>1, <3>2
      <4>. QED  BY <1>0, <1>1, <3>1, <4>1
    <3>3. CASE d # c
      <4>1. missed'[d] = missed[d] /\ pc'[d] = pc[d]
        BY <1>0, <2>0, <3>1, <3>3
      <4>. QED  BY <1>0, <1>1, <3>1, <4>1
    <3>. QED  BY <3>2, <3>3
  <2>4. CASE Insert(c)
    <3>1. pc[c] = "insert" /\ Returned(c) /\ UNCHANGED missed
      BY <2>4 DEF Insert
    <3>2. CASE d = c
      <4>1. OpenRows(d)' \subseteq OpenRows(d) \cup {Len(rows')} /\ Len(rows') \notin OpenRows(d)
        BY <1>0, <2>4, InsertShape DEF OpenRows
      <4>2. IsFiniteSet(OpenRows(d) \cup {Len(rows')})
            /\ Cardinality(OpenRows(d) \cup {Len(rows')}) = Cardinality(OpenRows(d)) + 1
        BY <1>0, <4>1, OpenRowsAreFinite, FS_AddElement
      <4>3. Cardinality(OpenRows(d)') <= Cardinality(OpenRows(d)) + 1
        BY <4>1, <4>2, FS_Subset
      <4>4. Cardinality(OpenRows(d)') \in Nat
        BY <4>1, <4>2, FS_Subset, FS_CardinalityType
      <4>5. pc'[d] # "insert" /\ pc[d] = "insert"
        BY <1>0, <2>0, <3>1, <3>2, ReturnedKeepsTypes
      <4>. QED  BY <1>0, <3>1, <4>3, <4>4, <4>5
    <3>3. CASE d # c
      <4>0. rows'[Len(rows')].recorder = c
        <5>1. Row(c, now[c]).recorder = c
          BY DEF Row
        <5>. QED  BY <1>0, <2>4, <5>1, InsertShape
      <4>1. OpenRows(d)' = OpenRows(d)
        BY <1>0, <2>4, <3>3, <4>0, InsertShape DEF OpenRows
      <4>2. pc'[d] = pc[d]
        BY <1>0, <2>0, <3>1, <3>3, ReturnedKeepsTypes
      <4>. QED  BY <1>0, <3>1, <4>1, <4>2
    <3>. QED  BY <3>2, <3>3
  <2>5. CASE InsertFails(c)
    BY <1>3, <2>0, <2>5 DEF InsertFails
  <2>. QED  BY <1>8, <2>1, <2>2, <2>3, <2>4, <2>5 DEF RecordEntity
<1>. QED  BY <1>5, <1>6, <1>7, <1>8 DEF Next, Rest

-----------------------------------------------------------------------------
(* Recordings that do not overlap.                                          *)

\* Only steps without a fault, and changes in a quiet moment, keep a run smooth.
LEMMA SmoothSteps ==
  ASSUME [Next]_vars, smooth'
  PROVE  /\ smooth
         /\ \/ UNCHANGED vars \/ Tick
            \/ \E w \in Writers : (Change(w) /\ Quiet) \/ Publish(w)
            \/ \E s \in Sinks : Handle(s) \/ Commit(s)
            \/ \E c \in Recorders : ReadClock(c) \/ CloseWindow(c) \/ Insert(c)
<1>1. ~Fault
  BY Zenon DEF Fault
<1>2. \A w \in Writers : Change(w) => smooth /\ Quiet
  BY Zenon DEF Change
<1>3. UNCHANGED smooth => smooth
  BY Zenon
<1>4. UNCHANGED vars => UNCHANGED smooth
  OBVIOUS
<1>5. \A w \in Writers : ~PublishFails(w)
  BY <1>1 DEF PublishFails
<1>6. \A s \in Sinks : ~Redeliver(s)
  BY <1>1 DEF Redeliver
<1>7. \A c \in Recorders : ~CloseFails(c) /\ ~InsertFails(c)
  BY <1>1 DEF CloseFails, InsertFails
<1>8. /\ Tick => UNCHANGED smooth
      /\ Rest => UNCHANGED vars
      /\ \A w \in Writers : Publish(w) => UNCHANGED smooth
      /\ \A s \in Sinks : Handle(s) \/ Commit(s) => UNCHANGED smooth
      /\ \A c \in Recorders : ReadClock(c) \/ CloseWindow(c) \/ Insert(c) => UNCHANGED smooth
  BY Zenon DEF Tick, Rest, Publish, Handle, Commit, ReadClock, CloseWindow, Insert
<1>. QED  BY <1>2, <1>3, <1>4, <1>5, <1>6, <1>7, <1>8, Zenon DEF Next, RecordEntity

\* One goroutine at a time has left its idle place.
LEMMA StageOfOne ==
  ASSUME TypeOK, Serial, NEW c \in Callers, NEW stage \in Stages,
         pc' = [pc EXCEPT ![c] = stage],
         pc[c] # "idle" \/ \A d \in Callers : pc[d] = "idle"
  PROVE  /\ \A d \in Callers \ {c} : pc[d] = "idle" /\ pc'[d] = "idle"
         /\ pc'[c] = stage
<1>1. pc \in [Callers -> Stages]
  BY DEF TypeOK
<1>2. \A d \in Callers \ {c} : pc[d] = "idle"
  BY DEF Serial
<1>. QED  BY <1>1, <1>2

\* While no recorder stands between its statements, only the rows matter.
LEMMA NoGapWithoutInsert ==
  ASSUME NoGap, UNCHANGED rows,
         \A c \in Callers : pc[c] # "insert" /\ pc'[c] \notin {"close", "insert"}
  PROVE  NoGap'
<1>1. /\ \A i \in DOMAIN rows : i = Len(rows) => rows[i].to = Open
      /\ \A t \in Nat : rows # <<>> /\ rows[1].from <= t => Covered(t)
  BY DEF NoGap
<1>2. \A t : Covered(t)' <=> Covered(t)
  BY DEF Covered
<1>. QED  BY <1>1, <1>2 DEF NoGap

LEMMA ChangeIsSerial ==
  ASSUME IInv, smooth, NEW w \in Writers, Change(w), Quiet
  PROVE  Serial' /\ RowsInOrder' /\ NoGap'
<1>1. TypeOK /\ Serial /\ RowsInOrder /\ NoGap /\ w \in Callers
  BY DEF IInv, SerialInv, Callers
<1>2. \E a \in Actors \cup {NoContext} :
         /\ author' = Append(author, a)
         /\ call' = [call EXCEPT ![w] = [v |-> Len(author) + 1, by |-> a]]
  BY DEF Change
<1>3. pc' = [pc EXCEPT ![w] = "record"] /\ UNCHANGED <<rows, events>>
  BY DEF Change, Goto
<1>4. events = {} /\ \A d \in Callers : pc[d] = "idle"
  BY DEF Quiet
<1>5. pc'[w] = "record" /\ \A d \in Callers \ {w} : pc'[d] = "idle"
  BY <1>1, <1>3, <1>4, StageOfOne DEF Stages
<1>6. call'[w].v = Len(author')
  <2>1. call \in [Callers -> Snapshots \cup {NoCall}] /\ author \in Seq(Contexts)
    BY <1>1 DEF TypeOK
  <2>2. PICK a \in Actors \cup {NoContext} :
           /\ author' = Append(author, a)
           /\ call' = [call EXCEPT ![w] = [v |-> Len(author) + 1, by |-> a]]
    BY <1>2
  <2>3. Len(author') = Len(author) + 1
    BY <2>1, <2>2
  <2>4. call'[w] = [v |-> Len(author) + 1, by |-> a]
    BY <1>1, <2>1, <2>2
  <2>. QED  BY <2>3, <2>4
<1>7. Serial'
  BY <1>1, <1>3, <1>4, <1>5, <1>6 DEF Serial
<1>8. NoGap'
  BY <1>1, <1>3, <1>4, <1>5, NoGapWithoutInsert
<1>. QED  BY <1>1, <1>3, <1>7, <1>8 DEF RowsInOrder

LEMMA PublishIsSerial ==
  ASSUME IInv, smooth, NEW w \in Writers, Publish(w)
  PROVE  Serial' /\ RowsInOrder' /\ NoGap'
<1>1. TypeOK /\ Serial /\ RowsInOrder /\ NoGap /\ w \in Callers
  BY DEF IInv, SerialInv, Callers
<1>2. /\ pc[w] = "record" /\ pc' = [pc EXCEPT ![w] = "idle"] /\ UNCHANGED <<rows, author>>
      /\ events' = events \cup {[v |-> call[w].v, by |-> ChangeContextFromContext(call[w].by)]}
  BY DEF Publish, Finish, Goto
<1>3. \A d \in Callers : pc'[d] = "idle" /\ (d # w => pc[d] = "idle")
  BY <1>1, <1>2, StageOfOne DEF Stages
<1>4. events = {} /\ call[w].v = Len(author)
  BY <1>1, <1>2 DEF Serial
<1>5. \A e \in events' : e = [v |-> Len(author), by |-> ChangeContextFromContext(call[w].by)]
  BY <1>2, <1>4
<1>6. events' # {}
  BY <1>2
<1>7. Serial'
  BY <1>2, <1>3, <1>5, <1>6 DEF Serial
<1>8. NoGap'
  BY <1>1, <1>2, <1>3, NoGapWithoutInsert
<1>. QED  BY <1>1, <1>2, <1>7, <1>8 DEF RowsInOrder

LEMMA SinkIsSerial ==
  ASSUME IInv, smooth, NEW s \in Sinks, Handle(s) \/ Commit(s)
  PROVE  Serial' /\ RowsInOrder' /\ NoGap'
<1>1. TypeOK /\ Serial /\ RowsInOrder /\ NoGap /\ s \in Callers
  BY DEF IInv, SerialInv, Callers
<1>2. UNCHANGED <<rows, author>>
  BY DEF Handle, Commit
<1>3. CASE Handle(s)
  <2>1. PICK e \in events : call' = [call EXCEPT ![s] = e] /\ events' = events \ {e}
    BY <1>3 DEF Handle
  <2>2. pc' = [pc EXCEPT ![s] = "record"] /\ \A d \in Callers : pc[d] = "idle"
    BY <1>1, <1>3, <2>1 DEF Handle, Goto, Serial
  <2>3. pc'[s] = "record" /\ \A d \in Callers \ {s} : pc'[d] = "idle"
    BY <1>1, <2>2, StageOfOne DEF Stages
  <2>4. events' = {} /\ call'[s].v = Len(author)
    BY <1>1, <2>1 DEF Serial, TypeOK
  <2>5. Serial'
    BY <1>1, <1>2, <2>3, <2>4 DEF Serial
  <2>6. NoGap'
    BY <1>1, <1>2, <2>2, <2>3, NoGapWithoutInsert
  <2>. QED  BY <1>1, <1>2, <2>5, <2>6 DEF RowsInOrder
<1>4. CASE Commit(s)
  <2>1. pc[s] = "commit" /\ pc' = [pc EXCEPT ![s] = "idle"] /\ UNCHANGED events
    BY <1>4 DEF Commit, Finish, Goto
  <2>2. \A d \in Callers : pc'[d] = "idle" /\ (d # s => pc[d] = "idle")
    BY <1>1, <2>1, StageOfOne DEF Stages
  <2>3. Serial'
    BY <1>1, <1>2, <2>1, <2>2 DEF Serial
  <2>4. NoGap'
    BY <1>1, <1>2, <2>1, <2>2, NoGapWithoutInsert
  <2>. QED  BY <1>1, <1>2, <2>3, <2>4 DEF RowsInOrder
<1>. QED  BY <1>3, <1>4

LEMMA ReadClockIsSerial ==
  ASSUME IInv, smooth, NEW c \in Recorders, ReadClock(c)
  PROVE  Serial' /\ RowsInOrder' /\ NoGap'
<1>1. TypeOK /\ ClocksAgree /\ Serial /\ RowsInOrder /\ NoGap /\ c \in Callers
  BY RecordersCall DEF IInv, SerialInv
<1>2. /\ pc[c] = "record" /\ pc' = [pc EXCEPT ![c] = "close"] /\ now' = [now EXCEPT ![c] = time]
      /\ UNCHANGED <<rows, author, events, call>>
  BY DEF ReadClock, Goto
<1>3. pc'[c] = "close" /\ \A d \in Callers \ {c} : pc[d] = "idle" /\ pc'[d] = "idle"
  BY <1>1, <1>2, StageOfOne DEF Stages
<1>4. now'[c] = time
  BY <1>1, <1>2 DEF TypeOK
<1>5. Serial'
  BY <1>1, <1>2, <1>3 DEF Serial
<1>6. /\ \A i \in DOMAIN rows : i = Len(rows) => rows[i].to = Open
      /\ \A t \in Nat : rows # <<>> /\ rows[1].from <= t => Covered(t)
  BY <1>2, <1>3 DEF NoGap, IInv, SerialInv
<1>7. \A t : Covered(t)' <=> Covered(t)
  BY <1>2 DEF Covered
<1>8. NoGap'
  BY <1>1, <1>2, <1>3, <1>4, <1>6, <1>7 DEF NoGap, ClocksAgree
<1>. QED  BY <1>1, <1>2, <1>5, <1>8 DEF RowsInOrder

LEMMA CloseIsSerial ==
  ASSUME IInv, smooth, NEW c \in Recorders, CloseWindow(c)
  PROVE  Serial' /\ RowsInOrder' /\ NoGap'
<1>1. TypeOK /\ Serial /\ RowsInOrder /\ NoGap /\ c \in Callers
  BY RecordersCall DEF IInv, SerialInv
<1>2. /\ pc[c] = "close" /\ pc' = [pc EXCEPT ![c] = "insert"]
      /\ UNCHANGED <<author, events, call, now>>
  BY DEF CloseWindow, Goto
<1>3. pc'[c] = "insert" /\ \A d \in Callers \ {c} : pc[d] = "idle" /\ pc'[d] = "idle"
  BY <1>1, <1>2, StageOfOne DEF Stages
<1>4. /\ DOMAIN rows' = DOMAIN rows /\ Len(rows') = Len(rows) /\ now[c] \in Nat
      /\ \A i \in DOMAIN rows :
           /\ rows'[i].v = rows[i].v /\ rows'[i].from = rows[i].from
           /\ rows'[i].to = IF rows[i].to = Open THEN now[c] ELSE rows[i].to
  BY <1>1, CloseShape
<1>5. /\ Len(rows) \in Nat /\ DOMAIN rows = 1..Len(rows)
      /\ \A i \in DOMAIN rows : rows[i].from \in Nat /\ rows[i].to \in Int
  BY <1>1, RowsTyped
<1>6. Serial'
  BY <1>1, <1>2, <1>3 DEF Serial
<1>7. RowsInOrder'
  BY <1>1, <1>4, <1>5 DEF RowsInOrder
<1>8. /\ \A i \in DOMAIN rows : i = Len(rows) => rows[i].to = Open
      /\ \A t \in Nat : rows # <<>> /\ rows[1].from <= t => Covered(t)
      /\ \A i \in DOMAIN rows : rows[i].from <= now[c]
  BY <1>1, <1>2, <1>3 DEF NoGap
<1>9. \A i \in DOMAIN rows : rows'[i].to # Open /\ rows'[i].to <= now[c]
  <2>. SUFFICES ASSUME NEW i \in DOMAIN rows PROVE rows'[i].to # Open /\ rows'[i].to <= now[c]
    OBVIOUS
  <2>1. CASE i = Len(rows)
    BY <1>4, <1>8, <2>1 DEF Open
  <2>2. CASE i # Len(rows)
    <3>1. Len(rows) \in DOMAIN rows /\ i < Len(rows)
      BY <1>5, <2>2
    <3>2. rows[i].to # Open /\ rows[i].to <= rows[Len(rows)].from
      BY <1>1, <3>1 DEF RowsInOrder
    <3>. QED  BY <1>4, <1>5, <1>8, <3>1, <3>2
  <2>. QED  BY <2>1, <2>2
<1>10. ASSUME NEW t \in Nat, rows' # <<>>, rows'[1].from <= t, t < now[c] PROVE Covered(t)'
  <2>1. rows # <<>> /\ 1 \in DOMAIN rows
    <3>1. rows' \in Seq(Rows)
      BY <1>1, TypesInductive DEF IInv, TypeOK, Next, RecordEntity
    <3>2. Len(rows') # 0
      BY <1>10, <3>1
    <3>. QED  BY <1>4, <1>5, <3>2
  <2>2. Covered(t)
    BY <1>4, <1>8, <1>10, <2>1
  <2>3. PICK i \in DOMAIN rows : Covers(rows[i], t)
    BY <2>2 DEF Covered
  <2>4. Covers(rows'[i], t)
    BY <1>4, <1>5, <1>10, <2>3 DEF Covers
  <2>. QED  BY <1>4, <2>4 DEF Covered
<1>11. NoGap'
  BY <1>1, <1>2, <1>3, <1>4, <1>9, <1>10 DEF NoGap
<1>. QED  BY <1>6, <1>7, <1>11

LEMMA InsertIsSerial ==
  ASSUME IInv, smooth, NEW c \in Recorders, Insert(c)
  PROVE  Serial' /\ RowsInOrder' /\ NoGap'
<1>1. TypeOK /\ Serial /\ RowsInOrder /\ NoGap /\ c \in Callers
  BY RecordersCall DEF IInv, SerialInv
<1>2. /\ pc[c] = "insert" /\ Returned(c) /\ UNCHANGED <<author, events, now>>
  BY DEF Insert
<1>3. /\ pc'[c] \in {"idle", "commit"}
      /\ \A d \in Callers \ {c} : pc[d] = "idle" /\ pc'[d] = "idle"
  BY <1>1, <1>2, ReturnedKeepsTypes DEF Serial
<1>. DEFINE n == Len(rows')
<1>4. /\ Len(rows) \in Nat /\ DOMAIN rows = 1..Len(rows)
      /\ n = Len(rows) + 1 /\ DOMAIN rows' = DOMAIN rows \cup {n}
      /\ \A i \in DOMAIN rows : rows'[i] = rows[i] /\ i # n
      /\ rows'[n] = Row(c, now[c]) /\ now[c] \in Nat
  BY <1>1, InsertShape
<1>5. rows'[n].from = now[c] /\ rows'[n].to = Open /\ rows'[n].v = call[c].v
  <2>1. Row(c, now[c]).from = now[c] /\ Row(c, now[c]).to = Open /\ Row(c, now[c]).v = call[c].v
    BY DEF Row
  <2>. QED  BY <1>4, <2>1
<1>. HIDE DEF n
<1>6. /\ events = {} /\ call[c].v = Len(author)
      /\ \A i \in DOMAIN rows : rows[i].to # Open /\ rows[i].to <= now[c]
      /\ \A t \in Nat : rows # <<>> /\ rows[1].from <= t /\ t < now[c] => Covered(t)
  BY <1>1, <1>2, <1>3 DEF Serial, NoGap
<1>7. \A i \in DOMAIN rows : rows[i].from \in Nat /\ rows[i].to \in Int
  BY <1>1, RowsTyped
<1>8. Serial'
  <2>1. \A i \in DOMAIN rows' : i = Len(rows') => rows'[i].v = Len(author')
    BY <1>2, <1>5, <1>6 DEF n
  <2>. QED  BY <1>2, <1>3, <1>6, <2>1 DEF Serial
<1>9. RowsInOrder'
  <2>. SUFFICES ASSUME NEW i \in DOMAIN rows', NEW j \in DOMAIN rows', i < j
                PROVE  rows'[i].to # Open /\ rows'[i].to <= rows'[j].from
    BY DEF RowsInOrder
  <2>1. i \in DOMAIN rows
    BY <1>4
  <2>2. CASE j = n
    BY <1>4, <1>5, <1>6, <2>1, <2>2
  <2>3. CASE j \in DOMAIN rows
    BY <1>1, <1>4, <2>1, <2>3 DEF RowsInOrder
  <2>. QED  BY <1>4, <2>2, <2>3
<1>10. ASSUME NEW t \in Nat, rows'[1].from <= t PROVE Covered(t)'
  <2>1. CASE now[c] <= t
    <3>1. Covers(rows'[n], t)
      BY <1>5, <2>1 DEF Covers
    <3>. QED  BY <1>4, <3>1 DEF Covered
  <2>2. CASE t < now[c]
    <3>1. rows # <<>> /\ 1 \in DOMAIN rows
      <4>1. CASE Len(rows) = 0
        BY <1>4, <1>5, <1>10, <2>2, <4>1
      <4>2. CASE Len(rows) # 0
        BY <1>4, <4>2
      <4>. QED  BY <4>1, <4>2
    <3>2. Covered(t)
      BY <1>4, <1>6, <1>10, <2>2, <3>1
    <3>3. PICK i \in DOMAIN rows : Covers(rows[i], t)
      BY <3>2 DEF Covered
    <3>. QED  BY <1>4, <3>3 DEF Covered
  <2>. QED  BY <1>4, <2>1, <2>2
<1>11. \A i \in DOMAIN rows' : i = Len(rows') => rows'[i].to = Open
  BY <1>5 DEF n
<1>12. NoGap'
  BY <1>3, <1>10, <1>11 DEF NoGap
<1>. QED  BY <1>8, <1>9, <1>12

LEMMA SerialInductive == IInv /\ [Next]_vars => SerialInv'
<1>. SUFFICES ASSUME IInv, [Next]_vars, smooth' PROVE Serial' /\ RowsInOrder' /\ NoGap'
  BY DEF SerialInv
<1>1. smooth
  BY SmoothSteps
<1>2. CASE UNCHANGED vars \/ Tick
  <2>1. UNCHANGED <<author, rows, events, pc, call, now>>
    BY <1>2 DEF Tick
  <2>2. Serial /\ RowsInOrder /\ NoGap
    BY <1>1 DEF IInv, SerialInv
  <2>3. Serial' /\ RowsInOrder'
    BY <2>1, <2>2 DEF Serial, RowsInOrder
  <2>4. \A t : Covered(t)' <=> Covered(t)
    BY <2>1 DEF Covered
  <2>5. NoGap'
    BY <2>1, <2>2, <2>4 DEF NoGap
  <2>. QED  BY <2>3, <2>5
<1>. QED  BY <1>1, <1>2, SmoothSteps, ChangeIsSerial, PublishIsSerial, SinkIsSerial,
             ReadClockIsSerial, CloseIsSerial, InsertIsSerial

-----------------------------------------------------------------------------
(* Theorems.                                                                *)

\* The invariant of the recorders.
THEOREM Invariance == Spec => []IInv
<1>1. IInv /\ [Next]_vars => IInv'
  BY TypesInductive, AttributionInductive, OpenRowsInductive, SerialInductive DEF IInv
<1>. QED  BY InitInv, <1>1, PTL DEF Spec

\* Every variable keeps its type.
THEOREM TypeCorrect == Spec => []TypeOK
<1>1. IInv => TypeOK
  BY DEF IInv
<1>. QED  BY Invariance, <1>1, PTL

\* Whoever records, and however often an event is delivered, a row names the
\* author of the change it holds (recorder.go, kafka_recorder.go).
THEOREM AuthorsAreKept == Spec => []AttributionKept
<1>1. IInv => AttributionKept
  BY DEF IInv, Attribution
<1>. QED  BY Invariance, <1>1, PTL

\* Any number of overlapping recordings leave at most one open row per recorder,
\* and one for each close of its own that failed.
THEOREM FewRowsStayOpen == Spec => []OpenRowsAreBounded
<1>1. IInv => OpenRowsAreBounded
  <2>. SUFFICES ASSUME IInv, NEW c \in Recorders
                PROVE  Cardinality(OpenRows(c)) <= 1 + missed[c]
    BY DEF OpenRowsAreBounded, OpenRows
  <2>1. missed[c] \in Nat /\ Cardinality(OpenRows(c)) \in Nat
    BY OpenRowsAreFinite DEF IInv, TypeOK
  <2>. QED  BY <2>1 DEF IInv, OpenRowsInv
<1>. QED  BY Invariance, <1>1, PTL

\* Recordings that neither overlap nor fail make an exact history, however many
\* services, consumers and changes there are: from the first row on every moment is
\* covered by one row, and the present by the row of the last change.
THEOREM SerialHistories == Spec => []SerialHistoryIsExact
<1>1. IInv => SerialHistoryIsExact
  <2>. SUFFICES ASSUME IInv, smooth, Quiet, rows # <<>>
                PROVE  /\ \A t \in rows[1].from .. time :
                            Cardinality({i \in DOMAIN rows : Covers(rows[i], t)}) = 1
                       /\ \A i \in LoadSnapshotAt(time) : rows[i].v = Len(author)
    BY DEF SerialHistoryIsExact
  <2>1. Serial /\ RowsInOrder /\ NoGap /\ TypeOK /\ ClocksAgree
    BY DEF IInv, SerialInv
  <2>2. /\ Len(rows) \in Nat /\ DOMAIN rows = 1..Len(rows)
        /\ \A i \in DOMAIN rows : rows[i].from \in Nat /\ rows[i].to \in Int
    BY <2>1, RowsTyped
  <2>3. rows \in Seq(Rows) /\ Len(rows) \in DOMAIN rows /\ 1 \in DOMAIN rows
    BY <2>1, <2>2 DEF TypeOK
  <2>4. /\ rows[Len(rows)].to = Open
        /\ \A t \in Nat : rows[1].from <= t => Covered(t)
    BY <2>1, <2>3 DEF NoGap, Quiet
  <2>5. rows[Len(rows)].v = Len(author)
    BY <2>1, <2>3 DEF Serial, Quiet
  <2>6. ASSUME NEW t \in Int, NEW i \in DOMAIN rows, NEW j \in DOMAIN rows,
               Covers(rows[i], t), Covers(rows[j], t)
        PROVE  i = j
    <3>1. ASSUME NEW k \in DOMAIN rows, NEW l \in DOMAIN rows,
                 Covers(rows[k], t), Covers(rows[l], t)
          PROVE  ~(k < l)
      BY <2>1, <2>2, <3>1 DEF RowsInOrder, Covers
    <3>. QED  BY <2>2, <2>6, <3>1
  <2>7. ASSUME NEW t \in rows[1].from .. time
        PROVE  Cardinality({i \in DOMAIN rows : Covers(rows[i], t)}) = 1
    <3>1. t \in Nat /\ rows[1].from <= t
      BY <2>1, <2>2, <2>3 DEF TypeOK
    <3>2. PICK j \in DOMAIN rows : Covers(rows[j], t)
      BY <2>4, <3>1 DEF Covered
    <3>3. {i \in DOMAIN rows : Covers(rows[i], t)} = {j}
      BY <2>6, <3>1, <3>2
    <3>. QED  BY <3>3, FS_Singleton
  <2>8. ASSUME NEW i \in LoadSnapshotAt(time) PROVE rows[i].v = Len(author)
    <3>1. i \in DOMAIN rows /\ Covers(rows[i], time) /\ time \in Int
      BY <2>1, TimeTravelAssumption DEF LoadSnapshotAt, TypeOK
    <3>2. Covers(rows[Len(rows)], time)
      BY <2>1, <2>3, <2>4 DEF Covers, ClocksAgree
    <3>3. i = Len(rows)
      BY <2>3, <2>6, <3>1, <3>2
    <3>. QED  BY <2>5, <3>3
  <2>. QED  BY <2>7, <2>8
<1>. QED  BY Invariance, <1>1, PTL

\* However many recordings overlap, a row keeps its payload, author and beginning,
\* and a closed one its end as well (recorder.go: valid_to IS NULL).
THEOREM PastStays == Spec => PastIsKept
<1>. DEFINE Kept == \A i \in DOMAIN rows :
                      \/ rows'[i] = rows[i]
                      \/ rows[i].to = Open /\ rows'[i] = CloseAt(rows[i], rows'[i].to)
<1>1. IInv /\ [Next]_vars => [Kept]_vars
  <2>. SUFFICES ASSUME IInv, Next PROVE Kept
    OBVIOUS
  <2>0. TypeOK
    BY DEF IInv
  <2>1. ASSUME UNCHANGED rows PROVE Kept
    BY <2>1
  <2>2. ASSUME NEW c \in Recorders, RecordEntity(c) PROVE Kept
    <3>1. CASE Insert(c)
      BY <2>0, <3>1, InsertShape
    <3>2. CASE CloseWindow(c)
      <4>. SUFFICES ASSUME NEW i \in DOMAIN rows, rows[i].to = Open
                    PROVE  rows'[i] = CloseAt(rows[i], rows'[i].to)
        BY <3>2 DEF CloseWindow
      <4>1. rows'[i] = CloseAt(rows[i], now[c])
        BY <3>2 DEF CloseWindow
      <4>2. rows'[i].to = now[c]
        BY <2>0, <3>2, CloseShape
      <4>. QED  BY <4>1, <4>2
    <3>. QED  BY <2>1, <2>2, <3>1, <3>2 DEF RecordEntity, ReadClock, CloseFails, InsertFails
  <2>. QED  BY <2>1, <2>2 DEF Next, Tick, Rest, Change, Publish, PublishFails, Handle, Commit,
                              Redeliver
<1>. QED  BY Invariance, <1>1, PTL DEF Spec, PastIsKept
=============================================================================
