------------------------ MODULE SchemaTaxonomyProofs ------------------------
(* What holds of publishers, consumers and the registry for every number of *)
(* processes and goroutines, every taxonomy and every schema and payload.   *)
EXTENDS SchemaTaxonomy, SequenceTheorems, TLAPS

USE DEF goroutineVars, brokerVars, registryVars, bounds, vars

-----------------------------------------------------------------------------
(* The invariant.                                                           *)

Stages  == {"idle", "lookup", "cache", "parse", "write", "await", "failed", "fetch", "compare"}
Checks  == {"lookup", "cache", "parse"}
Sources == Schemas \union {NoSchema}
Events  == [type : Types, payload : Payloads]
Calls   == Publishers \X Nat
Records == [id : Calls \X Nat, type : Types, payload : Payloads, checkedBy : Schemas]

\* Event types and their schemas.
IsRegistry(map, sources) == \A e \in DOMAIN map : e \in Types /\ map[e] \in sources

\* The variables of the goroutines and of the brokers.
TypeOK ==
  /\ DOMAIN registry = Processes /\ \A p \in Processes : IsRegistry(registry[p], Schemas)
  /\ step \in [Goroutines -> Stages] /\ n \in [Goroutines -> Nat \ {0}]
  /\ events \in [Goroutines -> Seq(Events \union Records)]
  /\ \A g \in Publishers : events[g] \in Seq(Events)
  /\ \A g \in Consumers : events[g] \in Seq(Records)
  /\ schema \in [Goroutines -> Seq(Sources)]
  /\ sent \subseteq Records
  /\ \A a \in acked : a.call \in Calls /\ a.size \in Nat
  /\ attempts \in [Publishers -> Nat]

\* The schema that was looked up for an event of the call accepts it.
Accepted(g, i) == <<schema[g][i], events[g][i].payload>> \in Accepts

\* A goroutine has as many schemas as events looked up, and the events before its
\* place have been accepted.
Progress(g) ==
  /\ step[g] # "idle" => Len(events[g]) >= 1
  /\ step[g] \in Checks => /\ n[g] <= Len(events[g])
                           /\ \A i \in 1 .. n[g] - 1 : Accepted(g, i)
  /\ step[g] = "lookup" => Len(schema[g]) = n[g] - 1
  /\ step[g] \in {"cache", "parse"} => Len(schema[g]) = n[g]
  /\ step[g] \in {"write", "fetch"} => /\ Len(schema[g]) = Len(events[g])
                                       /\ \A i \in 1 .. Len(events[g]) : Accepted(g, i)

\* A consumer holds the one record that it was given.
Consumes(g) ==
  /\ step[g] \notin {"write", "await", "failed"} /\ n[g] = 1
  /\ step[g] # "idle" => Len(events[g]) = 1 /\ events[g][1] \in sent

\* What was handed over is of calls that were made, and nothing of one that still checks.
Publishes(g) ==
  /\ step[g] \notin {"fetch", "compare"}
  /\ \A r \in sent : r.id[1][1] = g => r.id[1][2] <= attempts[g]
  /\ step[g] \in Checks \union {"write"} => \A r \in sent : r.id[1] # Call(g)
  /\ step[g] = "await" => g \notin Async

SentIsAccepted == \A r \in sent : <<r.checkedBy, r.payload>> \in Accepts

RefusedByOther == \A x \in rejected : x.schema # x.record.checkedBy

\* Brokers have what they were given.
LogWasSent == log \subseteq sent

\* What nil promises of an event of a call.
Kept(call, i) == \E r \in Promised(call[1]) : r.id = <<call, i>>

AckedIsKept == \A a \in acked : \A i \in 1..a.size : Kept(a.call, i)

\* What a subject holds was pushed to it.
SubjectsWerePushed ==
  \A t \in DOMAIN subjects : \E u \in pushed : subject(u.type) = t /\ u.schema = subjects[t]

CallInv == /\ \A g \in Goroutines : Progress(g)
           /\ \A g \in Consumers : Consumes(g)
           /\ \A g \in Publishers : Publishes(g)

EventInv == /\ TypeOK /\ CallInv
            /\ SentIsAccepted /\ RefusedByOther /\ LogWasSent /\ AckedIsKept

RegistryInv == SubjectsWerePushed /\ WarningHasCause

IInv == EventInv /\ RegistryInv

LEMMA InitInv == Init => IInv
<1>. SUFFICES ASSUME Init PROVE IInv
  OBVIOUS
<1>. USE TaxonomyAssumption DEF Init, Goroutines
<1>1. TypeOK
  <2>1. \A p \in Processes : IsRegistry(registry[p], Schemas)
    BY DEF IsRegistry
  <2>2. sent \subseteq Records /\ acked = {}
    OBVIOUS
  <2>3. /\ step \in [Goroutines -> Stages] /\ n \in [Goroutines -> Nat \ {0}]
        /\ attempts \in [Publishers -> Nat]
    BY DEF Stages
  <2>4. /\ events \in [Goroutines -> Seq(Events \union Records)] /\ schema \in [Goroutines -> Seq(Sources)]
        /\ \A g \in Goroutines : events[g] \in Seq(Events) /\ events[g] \in Seq(Records)
    OBVIOUS
  <2>. QED  BY <2>1, <2>2, <2>3, <2>4 DEF TypeOK
<1>2. CallInv
  BY DEF CallInv, Progress, Consumes, Publishes, Checks
<1>3. SentIsAccepted /\ RefusedByOther /\ LogWasSent /\ AckedIsKept
  BY DEF SentIsAccepted, RefusedByOther, LogWasSent, AckedIsKept, Kept, Promised
<1>4. SubjectsWerePushed /\ WarningHasCause
  BY DEF SubjectsWerePushed, WarningHasCause
<1>. QED  BY <1>1, <1>2, <1>3, <1>4 DEF IInv, EventInv, RegistryInv

-----------------------------------------------------------------------------
(* One goroutine steps.                                                     *)

LEMMA Kinds ==
  /\ \A g \in Goroutines : isPublisher(g) <=> g \notin Consumers
  /\ \A g \in Publishers : g \in Goroutines /\ g \notin Consumers
  /\ \A g \in Consumers : g \in Goroutines /\ g \notin Publishers
BY TaxonomyAssumption DEF Goroutines, isPublisher

\* What a goroutine's step leaves alone.
Own(g) ==
  \A h \in Goroutines \ {g} : /\ step'[h] = step[h] /\ events'[h] = events[h]
                              /\ n'[h] = n[h] /\ schema'[h] = schema[h]

LEMMA BystandersKeep ==
  ASSUME EventInv, NEW g \in Goroutines, Own(g),
         sent \subseteq sent', \A r \in sent' : r \in sent \/ r.id[1][1] = g,
         \A h \in Publishers \ {g} : attempts'[h] = attempts[h]
  PROVE  \A h \in Goroutines \ {g} : /\ Progress(h)'
                                     /\ h \in Consumers => Consumes(h)'
                                     /\ h \in Publishers => Publishes(h)'
<1>. SUFFICES ASSUME NEW h \in Goroutines \ {g}
              PROVE  /\ Progress(h)'
                     /\ h \in Consumers => Consumes(h)'
                     /\ h \in Publishers => Publishes(h)'
  OBVIOUS
<1>1. step'[h] = step[h] /\ events'[h] = events[h] /\ n'[h] = n[h] /\ schema'[h] = schema[h]
  BY DEF Own
<1>2. Progress(h)'
  BY <1>1 DEF EventInv, CallInv, Progress, Accepted
<1>3. h \in Consumers => Consumes(h)'
  BY <1>1 DEF EventInv, CallInv, Consumes
<1>4. h \in Publishers => Publishes(h)'
  BY <1>1 DEF EventInv, CallInv, Publishes, Call
<1>. QED  BY <1>2, <1>3, <1>4

\* The types of a goroutine's variables, and its place, make the invariant anew.
LEMMA StepFits ==
  ASSUME EventInv, NEW g \in Goroutines, NEW stage \in Stages, NEW items, NEW place \in Nat \ {0},
         NEW checked \in Seq(Sources),
         step' = [step EXCEPT ![g] = stage], events' = [events EXCEPT ![g] = items],
         n' = [n EXCEPT ![g] = place], schema' = [schema EXCEPT ![g] = checked],
         g \in Publishers => items \in Seq(Events),
         g \in Consumers => items \in Seq(Records),
         UNCHANGED registry, attempts' \in [Publishers -> Nat],
         \A h \in Publishers \ {g} : attempts'[h] = attempts[h],
         sent \subseteq sent', sent' \subseteq Records,
         \A r \in sent' : r \in sent \/ r.id[1][1] = g,
         \A a \in acked' : a.call \in Calls /\ a.size \in Nat,
         Progress(g)', g \in Consumers => Consumes(g)', g \in Publishers => Publishes(g)'
  PROVE  TypeOK' /\ CallInv'
<1>1. /\ step \in [Goroutines -> Stages] /\ n \in [Goroutines -> Nat \ {0}]
      /\ events \in [Goroutines -> Seq(Events \union Records)]
      /\ schema \in [Goroutines -> Seq(Sources)]
      /\ \A h \in Publishers : events[h] \in Seq(Events)
      /\ \A h \in Consumers : events[h] \in Seq(Records)
      /\ DOMAIN registry = Processes /\ \A p \in Processes : IsRegistry(registry[p], Schemas)
  BY DEF EventInv, TypeOK
<1>0. items \in Seq(Events \union Records)
  <2>1. Seq(Events) \subseteq Seq(Events \union Records) /\ Seq(Records) \subseteq Seq(Events \union Records)
    OBVIOUS
  <2>. QED  BY <2>1 DEF Goroutines
<1>2. step' \in [Goroutines -> Stages] /\ n' \in [Goroutines -> Nat \ {0}]
      /\ events' \in [Goroutines -> Seq(Events \union Records)]
      /\ schema' \in [Goroutines -> Seq(Sources)]
  BY <1>0, <1>1
<1>3. events'[g] = items /\ \A h \in Goroutines \ {g} : events'[h] = events[h]
  BY <1>1
<1>4. /\ \A h \in Publishers : events'[h] \in Seq(Events)
      /\ \A h \in Consumers : events'[h] \in Seq(Records)
  BY <1>1, <1>3, Kinds
<1>5. TypeOK'
  BY <1>1, <1>2, <1>4 DEF TypeOK, IsRegistry
<1>6. Own(g)
  BY <1>1, <1>3 DEF Own
<1>. QED  BY <1>5, <1>6, Kinds, BystandersKeep DEF CallInv

\* A call that is over leaves nothing behind but what it wrote.
LEMMA ReturnFits ==
  ASSUME EventInv, NEW g \in Goroutines, Return(g), UNCHANGED <<registry, attempts>>,
         sent \subseteq sent', sent' \subseteq Records,
         \A r \in sent' : r \in sent \/ (g \in Publishers /\ r.id[1] = Call(g)),
         \A a \in acked' : a.call \in Calls /\ a.size \in Nat
  PROVE  TypeOK' /\ CallInv'
<1>1. /\ step' = [step EXCEPT ![g] = "idle"] /\ events' = [events EXCEPT ![g] = <<>>]
      /\ n' = [n EXCEPT ![g] = 1] /\ schema' = [schema EXCEPT ![g] = <<>>]
  BY DEF Return, Go
<1>2. step \in [Goroutines -> Stages] /\ n \in [Goroutines -> Nat \ {0}]
      /\ attempts \in [Publishers -> Nat]
  BY DEF EventInv, TypeOK
<1>3. step'[g] = "idle" /\ n'[g] = 1
  BY <1>1, <1>2
<1>4. Progress(g)' /\ (g \in Consumers => Consumes(g)')
  BY <1>3 DEF Progress, Consumes, Checks
<1>5. \A r \in sent' : r \in sent \/ (r.id[1][1] = g /\ g \in Publishers /\ r.id[1][2] = attempts[g])
  BY DEF Call
<1>6. g \in Publishers => Publishes(g)'
  BY <1>2, <1>3, <1>5 DEF Publishes, Checks, EventInv, CallInv
<1>7. /\ "idle" \in Stages /\ 1 \in Nat \ {0} /\ <<>> \in Seq(Sources)
      /\ <<>> \in Seq(Events) /\ <<>> \in Seq(Records)
  BY DEF Stages
<1>. QED  BY <1>1, <1>2, <1>4, <1>5, <1>6, <1>7, StepFits

-----------------------------------------------------------------------------
(* The checks of an event.                                                  *)

\* A record that was handed over passed a schema; who refuses it went by another.
LEMMA RefuseKeeps ==
  ASSUME EventInv, NEW g \in Goroutines, NEW s, step[g] \in Checks, Refuse(g, s),
         g \in Consumers => s # events[g][1].checkedBy,
         UNCHANGED <<registry, sent, log, acked, attempts>>
  PROVE  EventInv'
<1>1. Return(g)
  BY DEF Refuse
<1>2. sent \subseteq Records /\ \A a \in acked : a.call \in Calls /\ a.size \in Nat
  BY DEF EventInv, TypeOK
<1>3. TypeOK' /\ CallInv'
  BY <1>1, <1>2, ReturnFits
<1>4. RefusedByOther'
  <2>1. CASE g \in Publishers
    BY <2>1 DEF Refuse, isPublisher, EventInv, RefusedByOther
  <2>2. CASE g \in Consumers
    <3>1. rejected' = rejected \union {[record |-> current(g), schema |-> s]}
      BY <2>2, Kinds DEF Refuse, isPublisher
    <3>2. current(g) = events[g][1]
      BY <2>2 DEF current, EventInv, CallInv, Consumes
    <3>. QED  BY <2>2, <3>1, <3>2 DEF EventInv, RefusedByOther
  <2>. QED  BY <2>1, <2>2 DEF Goroutines
<1>. QED  BY <1>3, <1>4 DEF EventInv, SentIsAccepted, LogWasSent, AckedIsKept, Kept, Promised

\* A step that neither returns nor touches brokers and registries.
LEMMA CheckKeeps ==
  ASSUME EventInv, NEW g \in Goroutines, NEW stage \in Stages, NEW place \in Nat \ {0},
         NEW checked \in Seq(Sources),
         step' = [step EXCEPT ![g] = stage], n' = [n EXCEPT ![g] = place],
         schema' = [schema EXCEPT ![g] = checked],
         step[g] \in Checks, stage \in Checks \union {"write", "fetch"},
         stage = "write" => g \in Publishers, stage = "fetch" => g \in Consumers,
         g \in Consumers => place = 1,
         UNCHANGED <<events, registry, sent, log, rejected, acked, attempts>>,
         Progress(g)'
  PROVE  EventInv'
<1>1. /\ events \in [Goroutines -> Seq(Events \union Records)] /\ step \in [Goroutines -> Stages]
      /\ n \in [Goroutines -> Nat \ {0}]
      /\ g \in Publishers => events[g] \in Seq(Events)
      /\ g \in Consumers => events[g] \in Seq(Records)
      /\ sent \subseteq Records /\ \A a \in acked : a.call \in Calls /\ a.size \in Nat
      /\ attempts \in [Publishers -> Nat]
  BY DEF EventInv, TypeOK
<1>2. events' = [events EXCEPT ![g] = events[g]]
  BY <1>1
<1>3. step'[g] = stage /\ n'[g] = place
  BY <1>1
<1>4. g \in Consumers => Consumes(g)'
  BY <1>3, Kinds DEF EventInv, CallInv, Consumes, Checks
<1>5. g \in Publishers => Publishes(g)'
  BY <1>3, Kinds DEF EventInv, CallInv, Publishes, Checks, Call
<1>6. TypeOK' /\ CallInv'
  BY <1>1, <1>2, <1>4, <1>5, StepFits
<1>. QED  BY <1>6 DEF EventInv, SentIsAccepted, RefusedByOther, LogWasSent, AckedIsKept, Kept, Promised

LEMMA JudgeKeeps ==
  ASSUME EventInv, NEW g \in Goroutines, step[g] \in {"cache", "parse"},
         Judge(g, Last(schema[g])), UNCHANGED <<registry, sent, log, acked, attempts>>
  PROVE  EventInv'
<1>. DEFINE tree == Last(schema[g])
            item == current(g)
<1>1. /\ Progress(g) /\ step \in [Goroutines -> Stages] /\ n \in [Goroutines -> Nat \ {0}]
      /\ schema \in [Goroutines -> Seq(Sources)] /\ n[g] \in Nat \ {0}
      /\ events[g] \in Seq(Events \union Records) /\ schema[g] \in Seq(Sources)
  BY DEF EventInv, TypeOK, CallInv
<1>2. /\ Len(schema[g]) = n[g] /\ n[g] <= Len(events[g]) /\ Len(events[g]) \in Nat
      /\ \A i \in 1 .. n[g] - 1 : Accepted(g, i)
  BY <1>1 DEF Progress, Checks
<1>3. CASE <<tree, item.payload>> \notin Accepts
  <2>1. Refuse(g, tree)
    BY <1>3 DEF Judge
  <2>2. ASSUME g \in Consumers PROVE tree # events[g][1].checkedBy
    <3>1. item = events[g][1] /\ item \in sent
      BY <2>2 DEF current, EventInv, CallInv, Consumes
    <3>2. <<item.checkedBy, item.payload>> \in Accepts
      BY <3>1 DEF EventInv, SentIsAccepted
    <3>. QED  BY <1>3, <3>1, <3>2
  <2>. QED  BY <2>1, <2>2, RefuseKeeps DEF Checks
<1>4. CASE <<tree, item.payload>> \in Accepts
  <2>1. Accepted(g, n[g])
    BY <1>2, <1>4 DEF Accepted, Last, current
  <2>2. \A i \in 1 .. n[g] : Accepted(g, i)
    BY <1>1, <1>2, <2>1
  <2>3. UNCHANGED <<events, schema, rejected>>
    BY <1>4 DEF Judge
  <2>4. \A i : Accepted(g, i)' <=> Accepted(g, i)
    BY <2>3 DEF Accepted
  <2>5. schema' = [schema EXCEPT ![g] = schema[g]]
    BY <1>1, <2>3
  <2>6. CASE n[g] < Len(events[g])
    <3>1. n' = [n EXCEPT ![g] = n[g] + 1] /\ step' = [step EXCEPT ![g] = "lookup"]
      BY <1>4, <2>6 DEF Judge, Go
    <3>2. step'[g] = "lookup" /\ n'[g] = n[g] + 1
      BY <1>1, <3>1
    <3>3. \A i \in 1 .. n'[g] - 1 : Accepted(g, i)'
      BY <1>1, <2>2, <2>4, <3>2
    <3>4. Progress(g)'
      BY <1>1, <1>2, <2>3, <2>6, <3>2, <3>3 DEF Progress, Checks
    <3>5. g \notin Consumers
      <4>. SUFFICES ASSUME g \in Consumers PROVE FALSE
        OBVIOUS
      <4>1. Consumes(g)
        BY DEF EventInv, CallInv
      <4>2. n[g] = 1 /\ Len(events[g]) = 1
        BY <4>1, Zenon DEF Consumes
      <4>. QED  BY <2>6, <4>2
    <3>6. n[g] + 1 \in Nat \ {0} /\ "lookup" \in Stages /\ "lookup" \in Checks /\ step[g] \in Checks
      BY <1>1 DEF Checks, Stages
    <3>. QED  BY <1>1, <2>3, <2>5, <3>1, <3>4, <3>5, <3>6, CheckKeeps
  <2>7. CASE ~(n[g] < Len(events[g]))
    <3>. DEFINE end == IF isPublisher(g) THEN "write" ELSE "fetch"
    <3>1. n' = n /\ step' = [step EXCEPT ![g] = end]
      BY <1>4, <2>7 DEF Judge, Go
    <3>2. n' = [n EXCEPT ![g] = n[g]] /\ n[g] = Len(events[g]) /\ step'[g] = end
      BY <1>1, <1>2, <2>7, <3>1
    <3>3. \A i \in 1 .. Len(events'[g]) : Accepted(g, i)'
      BY <2>2, <2>3, <2>4, <3>2
    <3>4. Progress(g)'
      BY <1>1, <1>2, <2>3, <3>2, <3>3 DEF Progress, Checks
    <3>5. /\ end \in Stages /\ end \in {"write", "fetch"}
          /\ end = "write" => g \in Publishers
          /\ end = "fetch" => g \in Consumers
          /\ g \in Consumers => n[g] = 1
          /\ step[g] \in Checks
      BY Kinds DEF isPublisher, Stages, Checks, Goroutines, EventInv, CallInv, Consumes
    <3>. HIDE DEF end
    <3>. QED  BY <1>1, <2>3, <2>5, <3>1, <3>2, <3>4, <3>5, CheckKeeps
  <2>. QED  BY <2>6, <2>7
<1>. QED  BY <1>3, <1>4

LEMMA LookupsAreSources ==
  ASSUME TypeOK, NEW g \in Goroutines, NEW e
  PROVE  LET s == LookupEvent(ProcessOf[g], e) IN s \in Sources /\ (s # NoSchema => s \in Schemas)
<1>1. ProcessOf[g] \in Processes
  BY TaxonomyAssumption
<1>2. IsRegistry(registry[ProcessOf[g]], Schemas)
  BY <1>1 DEF TypeOK
<1>. QED  BY <1>2 DEF IsRegistry, LookupEvent, Sources

LEMMA LookupKeeps == ASSUME EventInv, NEW g \in Goroutines, Lookup(g) PROVE EventInv'
<1>. DEFINE e == current(g).type
            s == LookupEvent(ProcessOf[g], e)
<1>1. /\ step[g] = "lookup" /\ step[g] \in Checks
      /\ UNCHANGED <<registry, sent, log, acked, attempts>>
  BY DEF Lookup, Checks
<1>2. s \in Sources /\ (s # NoSchema => s \in Schemas)
  BY LookupsAreSources DEF EventInv
<1>. HIDE DEF s
<1>3. CASE s # NoSchema /\ Go(g, "cache") /\ schema' = [schema EXCEPT ![g] = Append(@, s)]
           /\ UNCHANGED <<events, n, rejected>>
  <2>1. /\ Progress(g) /\ step \in [Goroutines -> Stages] /\ n \in [Goroutines -> Nat \ {0}]
        /\ schema \in [Goroutines -> Seq(Sources)] /\ schema[g] \in Seq(Sources)
        /\ n[g] \in Nat \ {0} /\ (g \in Consumers => n[g] = 1)
    BY DEF EventInv, TypeOK, CallInv, Consumes
  <2>2. /\ Len(schema[g]) = n[g] - 1 /\ n[g] <= Len(events[g]) /\ 1 <= Len(events[g])
        /\ \A i \in 1 .. n[g] - 1 : Accepted(g, i)
    BY <1>1, <2>1 DEF Progress
  <2>3. /\ Append(schema[g], s) \in Seq(Sources) /\ Len(Append(schema[g], s)) = n[g]
        /\ \A i \in 1 .. n[g] - 1 : Append(schema[g], s)[i] = schema[g][i]
    BY <1>2, <2>1, <2>2
  <2>4. /\ schema' = [schema EXCEPT ![g] = Append(schema[g], s)] /\ n' = [n EXCEPT ![g] = n[g]]
        /\ step' = [step EXCEPT ![g] = "cache"]
    BY <1>3, <2>1 DEF Go
  <2>5. step'[g] = "cache" /\ schema'[g] = Append(schema[g], s) /\ n'[g] = n[g]
    BY <2>1, <2>4
  <2>6. \A i \in 1 .. n'[g] - 1 : Accepted(g, i)'
    BY <1>3, <2>2, <2>3, <2>5 DEF Accepted
  <2>7. Progress(g)'
    BY <1>3, <2>2, <2>3, <2>5, <2>6 DEF Progress, Checks
  <2>8. "cache" \in Stages /\ "cache" \in Checks
    BY DEF Stages, Checks
  <2>. QED  BY <1>1, <1>3, <2>1, <2>3, <2>4, <2>7, <2>8, CheckKeeps
<1>4. CASE Refuse(g, s) /\ ~((isPublisher(g) => ValidateEventType(e)) /\ s # NoSchema)
  <2>1. ASSUME g \in Consumers PROVE s # events[g][1].checkedBy
    <3>1. s = NoSchema
      BY <1>4, <2>1, Kinds
    <3>2. events[g][1] \in sent
      BY <1>1, <2>1 DEF EventInv, CallInv, Consumes
    <3>3. events[g][1].checkedBy \in Schemas
      BY <3>2 DEF EventInv, TypeOK, Records
    <3>. QED  BY <3>1, <3>3, TaxonomyAssumption
  <2>. QED  BY <1>1, <1>4, <2>1, RefuseKeeps
<1>5. \/ /\ s # NoSchema /\ Go(g, "cache")
         /\ schema' = [schema EXCEPT ![g] = Append(@, s)]
         /\ UNCHANGED <<events, n, rejected>>
      \/ /\ Refuse(g, s)
         /\ ~((isPublisher(g) => ValidateEventType(e)) /\ s # NoSchema)
  BY Zenon DEF Lookup, s
<1>. QED  BY <1>3, <1>4, <1>5

LEMMA CacheKeeps == ASSUME EventInv, NEW g \in Goroutines, Cache(g) PROVE EventInv'
<1>1. step[g] = "cache" /\ UNCHANGED <<registry, sent, log, acked, attempts>>
  BY DEF Cache
<1>2. CASE Judge(g, Last(schema[g]))
  BY <1>1, <1>2, JudgeKeeps
<1>3. CASE Go(g, "parse") /\ UNCHANGED <<events, n, schema, rejected>>
  <2>1. /\ Progress(g) /\ step \in [Goroutines -> Stages] /\ n \in [Goroutines -> Nat \ {0}]
        /\ schema \in [Goroutines -> Seq(Sources)] /\ schema[g] \in Seq(Sources)
        /\ n[g] \in Nat \ {0} /\ (g \in Consumers => n[g] = 1)
    BY DEF EventInv, TypeOK, CallInv, Consumes
  <2>2. /\ step' = [step EXCEPT ![g] = "parse"] /\ n' = [n EXCEPT ![g] = n[g]]
        /\ schema' = [schema EXCEPT ![g] = schema[g]]
    BY <1>3, <2>1 DEF Go
  <2>3. Progress(g)'
    <3>1. step'[g] = "parse"
      BY <2>1, <2>2
    <3>. QED  BY <1>1, <1>3, <2>1, <3>1 DEF Progress, Accepted, Checks
  <2>4. "parse" \in Stages /\ "parse" \in Checks /\ step[g] \in Checks
    BY <1>1 DEF Stages, Checks
  <2>. QED  BY <1>1, <1>3, <2>1, <2>2, <2>3, <2>4, CheckKeeps
<1>. QED  BY <1>2, <1>3 DEF Cache, IsCompiled

LEMMA ParseKeeps == ASSUME EventInv, NEW g \in Goroutines, Parse(g) PROVE EventInv'
<1>. DEFINE s == Last(schema[g])
<1>1. step[g] = "parse" /\ UNCHANGED <<registry, sent, log, acked, attempts>>
  BY DEF Parse
<1>2. CASE s \in Broken /\ Refuse(g, s)
  <2>1. ASSUME g \in Consumers PROVE s # events[g][1].checkedBy
    <3>1. events[g][1] \in sent
      BY <1>1, <2>1 DEF EventInv, CallInv, Consumes
    <3>2. <<events[g][1].checkedBy, events[g][1].payload>> \in Accepts
      BY <3>1 DEF EventInv, SentIsAccepted
    <3>3. events[g][1].checkedBy \notin Broken
      BY <3>2, TaxonomyAssumption
    <3>. QED  BY <1>2, <3>3
  <2>. QED  BY <1>1, <1>2, <2>1, RefuseKeeps DEF Checks
<1>3. CASE Judge(g, s)
  BY <1>1, <1>3, JudgeKeeps
<1>4. (s \in Broken /\ Refuse(g, s)) \/ Judge(g, s)
  BY Zenon DEF Parse
<1>. QED  BY <1>2, <1>3, <1>4

-----------------------------------------------------------------------------
(* Publishers.                                                              *)

\* A call is a new one, and nothing of it was handed over.
LEMMA BeginKeeps ==
  ASSUME EventInv, NEW g \in Publishers, NEW batch \in Seq(Events) \ {<<>>}, Begin(g, batch)
  PROVE  EventInv'
<1>1. /\ attempts' = [attempts EXCEPT ![g] = @ + 1] /\ events' = [events EXCEPT ![g] = batch]
      /\ n' = [n EXCEPT ![g] = 1] /\ schema' = [schema EXCEPT ![g] = <<>>]
      /\ step' = [step EXCEPT ![g] = "lookup"]
      /\ UNCHANGED <<registry, sent, log, rejected, acked>>
  BY Zenon DEF Begin, Go
<1>2. /\ attempts \in [Publishers -> Nat] /\ events \in [Goroutines -> Seq(Events \union Records)]
      /\ n \in [Goroutines -> Nat \ {0}] /\ schema \in [Goroutines -> Seq(Sources)]
      /\ step \in [Goroutines -> Stages]
      /\ sent \subseteq Records /\ \A a \in acked : a.call \in Calls /\ a.size \in Nat
  BY DEF EventInv, TypeOK
<1>3. /\ attempts' \in [Publishers -> Nat] /\ attempts'[g] = attempts[g] + 1
      /\ \A h \in Publishers \ {g} : attempts'[h] = attempts[h]
  BY <1>1, <1>2
<1>4. events'[g] = batch /\ n'[g] = 1 /\ schema'[g] = <<>> /\ step'[g] = "lookup"
  BY <1>1, <1>2, Kinds
<1>5. Len(batch) \in Nat /\ Len(batch) >= 1
  OBVIOUS
<1>6. Progress(g)'
  BY <1>4, <1>5 DEF Progress, Checks
<1>7. Publishes(g)'
  <2>1. \A r \in sent : r.id[1][1] = g => r.id[1][2] <= attempts[g]
    BY DEF EventInv, CallInv, Publishes
  <2>2. \A r \in sent : r.id[1][2] \in Nat
    BY <1>2 DEF Records, Calls
  <2>3. ASSUME NEW r \in sent PROVE /\ r.id[1][1] = g => r.id[1][2] <= attempts[g] + 1
                                   /\ r.id[1] # <<g, attempts[g] + 1>>
    BY <1>2, <2>1, <2>2
  <2>4. Call(g)' = <<g, attempts[g] + 1>>
    BY <1>3 DEF Call
  <2>. QED  BY <1>1, <1>3, <1>4, <2>3, <2>4 DEF Publishes
<1>8. "lookup" \in Stages /\ 1 \in Nat \ {0} /\ <<>> \in Seq(Sources)
  BY DEF Stages
<1>9. TypeOK' /\ CallInv'
  BY <1>1, <1>2, <1>3, <1>6, <1>7, <1>8, StepFits, Kinds
<1>. QED  BY <1>1, <1>9 DEF EventInv, SentIsAccepted, RefusedByOther, LogWasSent, AckedIsKept, Kept, Promised

\* What is written has passed its schemas and carries the call's name.
LEMMA MessagesFit ==
  ASSUME EventInv, NEW g \in Publishers, step[g] = "write"
  PROVE  \A r \in messages(g) : /\ r \in Records /\ r.id[1] = Call(g)
                                /\ <<r.checkedBy, r.payload>> \in Accepts
<1>. SUFFICES ASSUME NEW i \in DOMAIN events[g]
              PROVE  /\ cloudEvent(g, i) \in Records /\ cloudEvent(g, i).id[1] = Call(g)
                     /\ <<cloudEvent(g, i).checkedBy, cloudEvent(g, i).payload>> \in Accepts
  BY DEF messages
<1>1. events[g] \in Seq(Events) /\ i \in 1 .. Len(events[g]) /\ i \in Nat
  BY DEF EventInv, TypeOK
<1>2. <<schema[g][i], events[g][i].payload>> \in Accepts
  BY <1>1, Kinds DEF EventInv, CallInv, Progress, Accepted
<1>3. schema[g][i] \in Schemas
  BY <1>2, TaxonomyAssumption
<1>4. events[g][i] \in Events
  BY <1>1
<1>5. Call(g) \in Calls
  BY DEF Call, Calls, EventInv, TypeOK
<1>. QED  BY <1>1, <1>2, <1>3, <1>4, <1>5 DEF cloudEvent, Records, Events

\* What was acknowledged stays: nothing is ever taken from writers or brokers.
LEMMA AckedStays ==
  ASSUME EventInv, sent \subseteq sent', log \subseteq log'
  PROVE  \A a \in acked : \A i \in 1..a.size : Kept(a.call, i)'
BY DEF EventInv, AckedIsKept, Kept, Promised

\* One call more is acknowledged, and what nil promises of it is so.
LEMMA AckFits ==
  ASSUME EventInv, NEW g \in Publishers, acknowledged(g), sent \subseteq sent', log \subseteq log',
         messages(g) \subseteq IF g \in Async THEN sent' ELSE log'
  PROVE  /\ \A a \in acked' : a.call \in Calls /\ a.size \in Nat
         /\ AckedIsKept'
<1>. DEFINE new == [call |-> Call(g), size |-> Len(events[g])]
            store == IF g \in Async THEN sent' ELSE log'
<1>1. /\ events[g] \in Seq(Events) /\ attempts[g] \in Nat
      /\ \A a \in acked : a.call \in Calls /\ a.size \in Nat
  BY DEF EventInv, TypeOK
<1>2. /\ new.call = Call(g) /\ new.call[1] = g /\ new.size = Len(events[g])
      /\ new.call \in Calls /\ new.size \in Nat
  BY <1>1 DEF Call, Calls
<1>3. \A a \in acked' : a \in acked \/ a = new
  BY DEF acknowledged
<1>. HIDE DEF new
<1>4. ASSUME NEW i \in 1 .. new.size PROVE \E r \in store : r.id = <<new.call, i>>
  <2>1. cloudEvent(g, i) \in messages(g)
    BY <1>1, <1>2 DEF messages
  <2>2. cloudEvent(g, i).id = <<new.call, i>>
    BY <1>2 DEF cloudEvent
  <2>. QED  BY <2>1, <2>2
<1>5. ASSUME NEW a \in acked', NEW i \in 1..a.size PROVE Kept(a.call, i)'
  <2>1. CASE a \in acked
    BY <2>1, AckedStays
  <2>2. CASE a = new
    BY <1>2, <1>4, <2>2 DEF Kept, Promised
  <2>. QED  BY <1>3, <2>1, <2>2
<1>6. AckedIsKept'
  BY <1>5 DEF AckedIsKept
<1>. QED  BY <1>1, <1>2, <1>3, <1>6

\* A call waits, or has failed, with what it was given as it was.
LEMMA StayFits ==
  ASSUME EventInv, NEW g \in Publishers, NEW stage \in {"await", "failed"}, Go(g, stage),
         stage = "await" => g \notin Async,
         step[g] # "idle", UNCHANGED <<events, n, schema, registry, acked, attempts>>,
         sent \subseteq sent', sent' \subseteq Records,
         \A r \in sent' : r \in sent \/ r.id[1] = Call(g)
  PROVE  TypeOK' /\ CallInv'
<1>1. /\ events \in [Goroutines -> Seq(Events \union Records)]
      /\ n \in [Goroutines -> Nat \ {0}] /\ schema \in [Goroutines -> Seq(Sources)]
      /\ step \in [Goroutines -> Stages] /\ attempts \in [Publishers -> Nat]
      /\ events[g] \in Seq(Events) /\ g \in Goroutines /\ g \notin Consumers
      /\ \A a \in acked : a.call \in Calls /\ a.size \in Nat
  BY Kinds DEF EventInv, TypeOK
<1>2. /\ step' = [step EXCEPT ![g] = stage] /\ events' = [events EXCEPT ![g] = events[g]]
      /\ n' = [n EXCEPT ![g] = n[g]] /\ schema' = [schema EXCEPT ![g] = schema[g]]
      /\ n[g] \in Nat \ {0} /\ schema[g] \in Seq(Sources) /\ stage \in Stages
  BY <1>1 DEF Go, Stages
<1>3. step'[g] = stage
  BY <1>1, <1>2
<1>4. Progress(g)
  BY <1>1 DEF EventInv, CallInv
<1>5. Progress(g)'
  BY <1>3, <1>4 DEF Progress, Checks
<1>6. \A r \in sent' : r \in sent \/ (r.id[1][1] = g /\ r.id[1][2] = attempts[g])
  BY DEF Call
<1>7. Publishes(g)'
  BY <1>1, <1>3, <1>6 DEF Publishes, Checks, EventInv, CallInv
<1>8. /\ \A r \in sent' : r \in sent \/ r.id[1][1] = g
      /\ \A a \in acked' : a.call \in Calls /\ a.size \in Nat
      /\ attempts' \in [Publishers -> Nat]
      /\ \A h \in Publishers \ {g} : attempts'[h] = attempts[h]
  BY <1>1, <1>6
<1>. QED  BY <1>1, <1>2, <1>5, <1>7, <1>8, StepFits

LEMMA WriteKeeps == ASSUME EventInv, NEW g \in Publishers, Write(g) PROVE EventInv'
<1>1. step[g] = "write" /\ UNCHANGED <<registry, log, rejected, attempts>>
  BY Zenon DEF Write
<1>2. \A r \in messages(g) : /\ r \in Records /\ r.id[1] = Call(g)
                             /\ <<r.checkedBy, r.payload>> \in Accepts
  BY <1>1, MessagesFit
<1>3. PICK queued \in {{}, messages(g)} : sent' = sent \union queued
  <2>1. CASE sent' = sent \union messages(g)
    BY <2>1
  <2>2. CASE sent' = sent
    BY <2>2
  <2>. QED  BY <2>1, <2>2, Zenon DEF Write
<1>4. sent \subseteq Records /\ g \in Goroutines
  BY Kinds DEF EventInv, TypeOK
<1>5. /\ sent \subseteq sent' /\ sent' \subseteq Records
      /\ \A r \in sent' : r \in sent \/ r.id[1] = Call(g)
  BY <1>2, <1>3, <1>4
<1>6. SentIsAccepted' /\ RefusedByOther' /\ LogWasSent'
  BY <1>1, <1>2, <1>3 DEF EventInv, SentIsAccepted, RefusedByOther, LogWasSent
<1>7. CASE sent' = sent \union messages(g) /\ g \in Async /\ acknowledged(g) /\ Return(g)
  <2>1. (\A a \in acked' : a.call \in Calls /\ a.size \in Nat) /\ AckedIsKept'
    BY <1>1, <1>5, <1>7, AckFits
  <2>2. TypeOK' /\ CallInv'
    BY <1>1, <1>4, <1>5, <1>7, <2>1, ReturnFits
  <2>. QED  BY <1>6, <2>1, <2>2 DEF EventInv
<1>8. CASE \E stage \in {"await", "failed"} : /\ Go(g, stage) /\ (stage = "await" => g \notin Async)
                                              /\ UNCHANGED <<events, n, schema, acked>>
  <2>1. TypeOK' /\ CallInv'
    BY <1>1, <1>5, <1>8, StayFits
  <2>2. \A a \in acked : \A i \in 1..a.size : Kept(a.call, i)'
    BY <1>1, <1>5, AckedStays
  <2>3. AckedIsKept'
    BY <1>8, <2>2 DEF AckedIsKept
  <2>. QED  BY <1>6, <2>1, <2>3 DEF EventInv
<1>9. \/ sent' = sent \union messages(g) /\ g \in Async /\ acknowledged(g) /\ Return(g)
      \/ Go(g, "await") /\ g \notin Async /\ UNCHANGED <<events, n, schema, acked>>
      \/ Go(g, "failed") /\ UNCHANGED <<events, n, schema, acked>>
  BY Zenon DEF Write
<1>. QED  BY <1>7, <1>8, <1>9

LEMMA AwaitKeeps == ASSUME EventInv, NEW g \in Publishers, Await(g) PROVE EventInv'
<1>0. step[g] = "await" /\ UNCHANGED <<registry, sent, log, rejected, attempts>>
  BY Zenon DEF Await
<1>1. step[g] = "await" /\ g \notin Async /\ UNCHANGED <<registry, sent, log, rejected, attempts>>
  BY <1>0 DEF EventInv, CallInv, Publishes
<1>2. sent \subseteq Records /\ g \in Goroutines
  BY Kinds DEF EventInv, TypeOK
<1>3. SentIsAccepted' /\ RefusedByOther' /\ LogWasSent'
  BY <1>1 DEF EventInv, SentIsAccepted, RefusedByOther, LogWasSent
<1>4. CASE messages(g) \subseteq log /\ acknowledged(g) /\ Return(g)
  <2>1. (\A a \in acked' : a.call \in Calls /\ a.size \in Nat) /\ AckedIsKept'
    BY <1>1, <1>4, AckFits
  <2>2. TypeOK' /\ CallInv'
    BY <1>1, <1>2, <1>4, <2>1, ReturnFits
  <2>. QED  BY <1>3, <2>1, <2>2 DEF EventInv
<1>5. CASE Go(g, "failed") /\ UNCHANGED <<events, n, schema, acked>>
  <2>1. TypeOK' /\ CallInv'
    BY <1>1, <1>2, <1>5, StayFits
  <2>. QED  BY <1>1, <1>3, <1>5, <2>1 DEF EventInv, AckedIsKept, Kept, Promised
<1>. QED  BY <1>4, <1>5, Zenon DEF Await

LEMMA LandKeeps == ASSUME EventInv, Land PROVE EventInv'
<1>1. PICK r \in sent \ log : log' = log \union {r}
  BY Zenon DEF Land
<1>2. UNCHANGED <<registry, goroutineVars, sent, rejected, acked, attempts>>
  BY Zenon DEF Land
<1>3. TypeOK'
  BY <1>2 DEF EventInv, TypeOK, IsRegistry
<1>4. CallInv'
  BY <1>2 DEF EventInv, CallInv, Progress, Accepted, Consumes, Publishes, Call
<1>5. SentIsAccepted' /\ RefusedByOther' /\ LogWasSent'
  BY <1>1, <1>2 DEF EventInv, SentIsAccepted, RefusedByOther, LogWasSent
<1>6. \A a \in acked : \A i \in 1..a.size : Kept(a.call, i)'
  BY <1>1, <1>2, AckedStays
<1>7. AckedIsKept'
  BY <1>2, <1>6 DEF AckedIsKept
<1>. QED  BY <1>3, <1>4, <1>5, <1>7 DEF EventInv

-----------------------------------------------------------------------------
(* Consumers.                                                               *)

LEMMA DeliverKeeps == ASSUME EventInv, NEW g \in Consumers, Deliver(g) PROVE EventInv'
<1>0. PICK r \in log : events' = [events EXCEPT ![g] = <<r>>]
  BY Zenon DEF Deliver
<1>1. r \in sent /\ events' = [events EXCEPT ![g] = <<r>>]
  BY <1>0 DEF EventInv, LogWasSent
<1>2. /\ n' = [n EXCEPT ![g] = 1] /\ schema' = [schema EXCEPT ![g] = <<>>]
      /\ step' = [step EXCEPT ![g] = "lookup"]
      /\ UNCHANGED <<registry, sent, log, rejected, acked, attempts>>
  BY Zenon DEF Deliver, Go, bounds
<1>3. /\ events \in [Goroutines -> Seq(Events \union Records)]
      /\ n \in [Goroutines -> Nat \ {0}] /\ schema \in [Goroutines -> Seq(Sources)]
      /\ step \in [Goroutines -> Stages] /\ attempts \in [Publishers -> Nat]
      /\ g \in Goroutines /\ g \notin Publishers
      /\ sent \subseteq Records /\ \A a \in acked : a.call \in Calls /\ a.size \in Nat
  BY Kinds DEF EventInv, TypeOK
<1>4. events'[g] = <<r>> /\ n'[g] = 1 /\ schema'[g] = <<>> /\ step'[g] = "lookup"
  BY <1>1, <1>2, <1>3
<1>5. Progress(g)'
  BY <1>4 DEF Progress, Checks
<1>6. Consumes(g)'
  BY <1>1, <1>2, <1>4 DEF Consumes
<1>7. /\ "lookup" \in Stages /\ 1 \in Nat \ {0} /\ <<>> \in Seq(Sources) /\ <<r>> \in Seq(Records)
      /\ attempts' \in [Publishers -> Nat] /\ sent' \subseteq Records
      /\ \A a \in acked' : a.call \in Calls /\ a.size \in Nat
  BY <1>1, <1>2, <1>3 DEF Stages
<1>8. TypeOK' /\ CallInv'
  BY <1>1, <1>2, <1>3, <1>5, <1>6, <1>7, StepFits
<1>. QED  BY <1>2, <1>8 DEF EventInv, SentIsAccepted, RefusedByOther, LogWasSent, AckedIsKept, Kept, Promised

LEMMA FetchKeeps ==
  ASSUME EventInv, NEW g \in Consumers, FetchLatestSchemaForEvent(g) PROVE EventInv'
<1>. DEFINE s == LookupEvent(ProcessOf[g], current(g).type)
<1>1. /\ step[g] = "fetch" /\ step' = [step EXCEPT ![g] = "compare"]
      /\ schema' = [schema EXCEPT ![g] = <<s>>]
      /\ UNCHANGED <<registry, events, n, sent, log, rejected, acked, attempts>>
  BY Zenon DEF FetchLatestSchemaForEvent, Go, brokerVars, bounds
<1>2. /\ events \in [Goroutines -> Seq(Events \union Records)] /\ events[g] \in Seq(Records)
      /\ n \in [Goroutines -> Nat \ {0}] /\ schema \in [Goroutines -> Seq(Sources)]
      /\ step \in [Goroutines -> Stages] /\ attempts \in [Publishers -> Nat]
      /\ g \in Goroutines /\ g \notin Publishers /\ n[g] \in Nat \ {0}
      /\ sent \subseteq Records /\ \A a \in acked : a.call \in Calls /\ a.size \in Nat
  BY Kinds DEF EventInv, TypeOK
<1>3. s \in Sources
  BY <1>2, LookupsAreSources DEF EventInv
<1>. HIDE DEF s
<1>4. events' = [events EXCEPT ![g] = events[g]] /\ n' = [n EXCEPT ![g] = n[g]]
  BY <1>1, <1>2
<1>5. step'[g] = "compare"
  BY <1>1, <1>2
<1>6. Progress(g) /\ Consumes(g)
  BY <1>2 DEF EventInv, CallInv
<1>7. Progress(g)'
  BY <1>1, <1>5, <1>6 DEF Progress, Checks
<1>8. Consumes(g)'
  BY <1>1, <1>5, <1>6 DEF Consumes
<1>9. /\ "compare" \in Stages /\ <<s>> \in Seq(Sources) /\ attempts' \in [Publishers -> Nat]
      /\ sent' \subseteq Records /\ \A a \in acked' : a.call \in Calls /\ a.size \in Nat
  BY <1>1, <1>2, <1>3 DEF Stages
<1>10. TypeOK' /\ CallInv'
  BY <1>1, <1>2, <1>4, <1>7, <1>8, <1>9, StepFits
<1>. QED  BY <1>1, <1>10 DEF EventInv, SentIsAccepted, RefusedByOther, LogWasSent, AckedIsKept, Kept, Promised

LEMMA CompareKeeps == ASSUME EventInv, NEW g \in Consumers, Compare(g) PROVE EventInv'
<1>1. Return(g) /\ UNCHANGED <<registry, sent, log, rejected, acked, attempts>>
  BY Zenon DEF Compare, brokerVars
<1>2. /\ g \in Goroutines /\ sent \subseteq Records
      /\ \A a \in acked : a.call \in Calls /\ a.size \in Nat
  BY Kinds DEF EventInv, TypeOK
<1>3. TypeOK' /\ CallInv'
  BY <1>1, <1>2, ReturnFits
<1>. QED  BY <1>1, <1>3 DEF EventInv, SentIsAccepted, RefusedByOther, LogWasSent, AckedIsKept, Kept, Promised

-----------------------------------------------------------------------------
(* The registries.                                                          *)

LEMMA ExtensionKeeps ==
  ASSUME EventInv, NEW p \in Processes, NEW x \in Extensions,
         RegisterExtensionEvent(p, x[1], x[2])
  PROVE  EventInv'
<1>. DEFINE larger == [f \in DOMAIN registry[p] \union {x[1]} |->
                         IF f = x[1] THEN x[2] ELSE registry[p][f]]
<1>1. /\ x[2] # NoSchema /\ registry' = [registry EXCEPT ![p] = larger]
      /\ UNCHANGED <<goroutineVars, brokerVars, attempts>>
  BY Zenon DEF RegisterExtensionEvent
<1>2. x[1] \in Types /\ x[2] \in Schemas
  BY <1>1, TaxonomyAssumption
<1>3. DOMAIN registry = Processes /\ \A q \in Processes : IsRegistry(registry[q], Schemas)
  BY DEF EventInv, TypeOK
<1>4. IsRegistry(larger, Schemas)
  BY <1>2, <1>3 DEF IsRegistry
<1>. HIDE DEF larger
<1>5. DOMAIN registry' = Processes /\ \A q \in Processes : registry'[q] = larger \/ registry'[q] = registry[q]
  BY <1>1, <1>3
<1>6. \A q \in Processes : IsRegistry(registry'[q], Schemas)
  BY <1>3, <1>4, <1>5
<1>7. TypeOK'
  BY <1>1, <1>5, <1>6 DEF EventInv, TypeOK, IsRegistry
<1>8. CallInv'
  BY <1>1 DEF EventInv, CallInv, Progress, Accepted, Consumes, Publishes, Call
<1>. QED  BY <1>1, <1>7, <1>8 DEF EventInv, SentIsAccepted, RefusedByOther, LogWasSent, AckedIsKept, Kept, Promised

\* Neither goroutines nor brokers notice.
LEMMA BystandersAll ==
  ASSUME EventInv, UNCHANGED <<registry, goroutineVars, brokerVars, attempts>> PROVE EventInv'
BY DEF EventInv, TypeOK, IsRegistry, CallInv, Progress, Accepted, Consumes, Publishes, Call,
       SentIsAccepted, RefusedByOther, LogWasSent, AckedIsKept, Kept, Promised

\* A push that fails leaves the subject as it was.
LEMMA PushKeeps ==
  ASSUME RegistryInv, NEW p \in Processes, RegisterSchema(p) PROVE RegistryInv'
<1>. DEFINE e == Head(booting[p])
            s == boots[p][e]
<1>1. warned' = warned
  BY Zenon DEF RegisterSchema
<1>2. CASE UNCHANGED <<subjects, pushed>>
  BY <1>1, <1>2 DEF RegistryInv, SubjectsWerePushed, WarningHasCause
<1>3. CASE /\ subjects' = [t \in DOMAIN subjects \union {subject(e)} |->
                             IF t = subject(e) THEN s ELSE subjects[t]]
           /\ pushed' = pushed \union {[type |-> e, schema |-> s]}
  <2>. HIDE DEF e, s
  <2>1. SubjectsWerePushed'
    <3>. SUFFICES ASSUME NEW t \in DOMAIN subjects'
                  PROVE  \E u \in pushed' : subject(u.type) = t /\ u.schema = subjects'[t]
      BY DEF SubjectsWerePushed
    <3>1. CASE t = subject(e)
      <4>1. [type |-> e, schema |-> s] \in pushed' /\ subjects'[t] = s
        BY <1>3, <3>1
      <4>. QED  BY <3>1, <4>1
    <3>2. CASE t # subject(e)
      BY <1>3, <3>2 DEF RegistryInv, SubjectsWerePushed
    <3>. QED  BY <3>1, <3>2
  <2>2. pushed \subseteq pushed'
    BY <1>3
  <2>3. WarningHasCause'
    BY <1>1, <2>2 DEF RegistryInv, WarningHasCause
  <2>. QED  BY <2>1, <2>3 DEF RegistryInv
<1>4. \/ UNCHANGED <<subjects, pushed>>
      \/ /\ subjects' = [t \in DOMAIN subjects \union {subject(e)} |->
                           IF t = subject(e) THEN s ELSE subjects[t]]
         /\ pushed' = pushed \union {[type |-> e, schema |-> s]}
  BY Zenon DEF RegisterSchema
<1>. QED  BY <1>2, <1>3, <1>4

\* Who warns has found another schema in the subject, and somebody pushed that.
LEMMA DriftKeeps ==
  ASSUME RegistryInv, NEW g \in Consumers, Compare(g) PROVE RegistryInv'
<1>. DEFINE e == current(g).type
            own == Last(schema[g])
<1>1. UNCHANGED <<subjects, pushed>>
  BY Zenon DEF Compare
<1>2. CASE warned' = warned
  BY <1>1, <1>2 DEF RegistryInv, SubjectsWerePushed, WarningHasCause
<1>3. CASE Drifted(subject(e), own) /\ warned' = warned \union {[type |-> e, schema |-> own]}
  <2>. HIDE DEF e, own
  <2>1. PICK u \in pushed : subject(u.type) = subject(e) /\ u.schema # own
    BY <1>3 DEF Drifted, RegistryInv, SubjectsWerePushed
  <2>2. ASSUME NEW w \in warned'
        PROVE  \E v \in pushed : subject(v.type) = subject(w.type) /\ v.schema # w.schema
    BY <1>3, <2>1 DEF RegistryInv, WarningHasCause
  <2>. QED  BY <1>1, <2>2 DEF RegistryInv, SubjectsWerePushed, WarningHasCause
<1>4. \/ warned' = warned
      \/ Drifted(subject(e), own) /\ warned' = warned \union {[type |-> e, schema |-> own]}
  BY Zenon DEF Compare
<1>. QED  BY <1>2, <1>3, <1>4

-----------------------------------------------------------------------------
LEMMA StepInv == IInv /\ [Next]_vars => IInv'
<1>. SUFFICES ASSUME IInv, [Next]_vars PROVE IInv'
  OBVIOUS
<1>0. EventInv /\ RegistryInv
  BY DEF IInv
<1>a. ASSUME UNCHANGED registryVars PROVE RegistryInv'
  BY <1>0, <1>a DEF RegistryInv, SubjectsWerePushed, WarningHasCause
<1>1. ASSUME NEW p \in Processes, NEW x \in Extensions, RegisterExtensionEvent(p, x[1], x[2])
      PROVE  IInv'
  <2>1. UNCHANGED registryVars
    BY <1>1, Zenon DEF RegisterExtensionEvent
  <2>. QED  BY <1>0, <1>1, <1>a, <2>1, ExtensionKeeps DEF IInv
<1>2. ASSUME NEW p \in Processes, RegisterAllSchemas(p) PROVE IInv'
  <2>1. /\ UNCHANGED <<registry, goroutineVars, brokerVars, attempts>>
        /\ UNCHANGED <<subjects, pushed, warned>>
    BY <1>2, Zenon DEF RegisterAllSchemas, bounds
  <2>2. RegistryInv'
    BY <1>0, <2>1 DEF RegistryInv, SubjectsWerePushed, WarningHasCause
  <2>. QED  BY <1>0, <2>1, <2>2, BystandersAll DEF IInv
<1>3. ASSUME NEW p \in Processes, RegisterSchema(p) PROVE IInv'
  <2>1. UNCHANGED <<registry, goroutineVars, brokerVars, attempts>>
    BY <1>3, Zenon DEF RegisterSchema
  <2>. QED  BY <1>0, <1>3, <2>1, BystandersAll, PushKeeps DEF IInv
<1>4. ASSUME NEW g \in Goroutines, Lookup(g) \/ Cache(g) \/ Parse(g) PROVE IInv'
  <2>1. UNCHANGED registryVars
    BY <1>4, Zenon DEF Lookup, Cache, Parse
  <2>. QED  BY <1>0, <1>4, <1>a, <2>1, LookupKeeps, CacheKeeps, ParseKeeps DEF IInv
<1>5. ASSUME NEW g \in Publishers, PublishBatch(g) \/ PublishAgain(g) PROVE IInv'
  <2>1. PICK batch \in Seq(Events) \ {<<>>} : Begin(g, batch)
    <3>1. CASE PublishBatch(g)
      BY <3>1, TaxonomyAssumption DEF PublishBatch, Events
    <3>2. CASE PublishAgain(g)
      <4>1. events[g] \in Seq(Events) /\ Len(events[g]) >= 1
        BY <1>0, <3>2, Kinds DEF PublishAgain, EventInv, TypeOK, CallInv, Progress
      <4>2. events[g] # <<>>
        BY <4>1
      <4>. QED  BY <3>2, <4>1, <4>2 DEF PublishAgain
    <3>. QED  BY <1>5, <3>1, <3>2
  <2>2. UNCHANGED registryVars
    BY <2>1, Zenon DEF Begin
  <2>. QED  BY <1>0, <1>a, <2>1, <2>2, BeginKeeps DEF IInv
<1>6. ASSUME NEW g \in Publishers, Write(g) \/ Await(g) PROVE IInv'
  <2>1. UNCHANGED registryVars
    BY <1>6, Zenon DEF Write, Await
  <2>. QED  BY <1>0, <1>6, <1>a, <2>1, WriteKeeps, AwaitKeeps DEF IInv
<1>10. CASE Land
  <2>1. UNCHANGED registryVars
    BY <1>10, Zenon DEF Land
  <2>. QED  BY <1>0, <1>10, <1>a, <2>1, LandKeeps DEF IInv
<1>7. ASSUME NEW g \in Consumers, Deliver(g) \/ FetchLatestSchemaForEvent(g) PROVE IInv'
  <2>1. UNCHANGED registryVars
    BY <1>7, Zenon DEF Deliver, FetchLatestSchemaForEvent
  <2>. QED  BY <1>0, <1>7, <1>a, <2>1, DeliverKeeps, FetchKeeps DEF IInv
<1>8. ASSUME NEW g \in Consumers, Compare(g) PROVE IInv'
  BY <1>0, <1>8, CompareKeeps, DriftKeeps DEF IInv
<1>9. CASE UNCHANGED vars
  BY <1>0, <1>9, <1>a, BystandersAll DEF IInv
<1>. QED  BY <1>1, <1>2, <1>3, <1>4, <1>5, <1>6, <1>7, <1>8, <1>9, <1>10 DEF Next

\* The invariant of every run of the publishers, consumers and registries.
THEOREM Invariance == Spec => []IInv
<1>1. Init => IInv
  BY InitInv
<1>2. IInv /\ [Next]_vars => IInv'
  BY StepInv
<1>. QED  BY <1>1, <1>2, PTL DEF Spec

\* The goroutines' variables and what the brokers hold are of their types.
THEOREM TypeCorrect == Spec => []TypeOK
<1>1. IInv => TypeOK
  BY DEF IInv, EventInv
<1>. QED  BY <1>1, Invariance, PTL

\* Every record in the log passed the schema looked up for it, and a consumer that
\* refuses one goes by another schema: the cache never judges by an old one.
THEOREM RejectionsAreSkew == Spec => []RejectionMeansSkew
<1>1. IInv => RejectionMeansSkew
  <2>. SUFFICES ASSUME IInv PROVE RejectionMeansSkew
    OBVIOUS
  <2>1. ASSUME NEW g \in Consumers, step[g] = "fetch"
        PROVE  <<Last(schema[g]), current(g).payload>> \in Accepts
    <3>1. Progress(g) /\ Consumes(g)
      BY Kinds DEF IInv, EventInv, CallInv
    <3>2. Len(events[g]) = 1 /\ n[g] = 1
      BY <2>1, <3>1, Zenon DEF Consumes
    <3>3. Len(schema[g]) = 1 /\ Accepted(g, 1)
      BY <2>1, <3>1, <3>2 DEF Progress
    <3>. QED  BY <3>2, <3>3 DEF Accepted, Last, current
  <2>. QED  BY <2>1 DEF RejectionMeansSkew, IInv, EventInv, SentIsAccepted, RefusedByOther,
                            LogWasSent
<1>. QED  BY <1>1, Invariance, PTL

\* However often batches fail and are published again, and whatever of them is still
\* under way: nil without Async means that the whole batch is in the log, nil with
\* Async that the writer has it all, and a call that still checks has handed over
\* nothing.
THEOREM BatchesAreWhole == Spec => []BatchIsWhole
<1>1. IInv => BatchIsWhole
  BY DEF IInv, EventInv, CallInv, LogWasSent, AckedIsKept, Kept, Publishes, Checks, BatchIsWhole
<1>. QED  BY <1>1, Invariance, PTL

\* No warning of drift without a push of another schema to the subject.
THEOREM WarningsHaveCauses == Spec => []WarningHasCause
<1>1. IInv => WarningHasCause
  BY DEF IInv, RegistryInv
<1>. QED  BY <1>1, Invariance, PTL

-----------------------------------------------------------------------------
(* The publishers implement BatchPublisher.                                 *)

\* A step of one goroutine changes its phase and its batch, and nobody else's.
LEMMA PhaseFollows ==
  ASSUME TypeOK, NEW g \in Publishers, NEW s, step' = [step EXCEPT ![g] = s]
  PROVE  Phases' = [Phases EXCEPT ![g] = PhaseOf(s)] /\ Phases[g] = PhaseOf(step[g])
<1>1. step \in [Goroutines -> Stages] /\ g \in Goroutines
  BY Kinds DEF TypeOK
<1>2. \A h \in Publishers : step'[h] = IF h = g THEN s ELSE step[h]
  BY <1>1, Kinds
<1>3. \A h \in Publishers : PhaseOf(step'[h]) = IF h = g THEN PhaseOf(s) ELSE PhaseOf(step[h])
  BY <1>2
<1>4. Phases' = [h \in Publishers |-> PhaseOf(step'[h])]
  BY DEF Phases, PhaseOf
<1>5. [Phases EXCEPT ![g] = PhaseOf(s)] =
        [h \in Publishers |-> IF h = g THEN PhaseOf(s) ELSE PhaseOf(step[h])]
  BY DEF Phases
<1>. QED  BY <1>3, <1>4, <1>5 DEF Phases

LEMMA BatchFollows ==
  ASSUME TypeOK, NEW g \in Publishers, NEW items, events' = [events EXCEPT ![g] = items]
  PROVE  Asked' = [Asked EXCEPT ![g] = items] /\ Asked'[g] = items
<1>1. events \in [Goroutines -> Seq(Events \union Records)] /\ g \in Goroutines
  BY Kinds DEF TypeOK
<1>2. \A h \in Publishers : events'[h] = IF h = g THEN items ELSE events[h]
  BY <1>1, Kinds
<1>. QED  BY <1>2 DEF Asked

LEMMA AskedIs == \A g \in Publishers : Asked[g] = events[g]
BY DEF Asked

\* Consumers, and whatever else writes nothing, are not seen.
LEMMA NotSeen ==
  ASSUME UNCHANGED <<sent, log, acked, attempts>>,
         \A g \in Publishers : step'[g] = step[g] /\ events'[g] = events[g]
  PROVE  UNCHANGED Batching!vars
BY DEF Batching!vars, Phases, Asked, Queued, Entered

LEMMA ConsumerNotSeen ==
  ASSUME TypeOK, NEW g \in Consumers, NEW s, NEW items, UNCHANGED <<sent, log, acked, attempts>>,
         step' = [step EXCEPT ![g] = s], events' = [events EXCEPT ![g] = items]
  PROVE  UNCHANGED Batching!vars
<1>1. \A h \in Publishers : h \in Goroutines /\ h # g
  BY Kinds
<1>2. step \in [Goroutines -> Stages] /\ events \in [Goroutines -> Seq(Events \union Records)]
  BY DEF TypeOK
<1>. QED  BY <1>1, <1>2, NotSeen

\* A call that moves on with its checks is as open as before.
LEMMA CheckNotSeen ==
  ASSUME TypeOK, NEW g \in Publishers, NEW s \in {"lookup", "cache", "parse", "write"},
         step[g] \in Checks, step' = [step EXCEPT ![g] = s],
         UNCHANGED <<events, sent, log, acked, attempts>>
  PROVE  UNCHANGED Batching!vars
<1>1. PhaseOf(s) = "open" /\ PhaseOf(step[g]) = "open"
  BY DEF PhaseOf, Checks
<1>2. Phases' = [Phases EXCEPT ![g] = Phases[g]]
  BY <1>1, PhaseFollows
<1>3. Phases' = Phases
  BY <1>2 DEF Phases
<1>. QED  BY <1>3 DEF Batching!vars, Asked, Queued, Entered

LEMMA ReturnEnds ==
  ASSUME TypeOK, NEW g \in Publishers, Return(g), UNCHANGED <<attempts, log>> PROVE Batching!End(g)
<1>1. step' = [step EXCEPT ![g] = "idle"] /\ events' = [events EXCEPT ![g] = <<>>]
  BY DEF Return, Go
<1>2. PhaseOf("idle") = "over"
  BY DEF PhaseOf
<1>3. Phases' = [Phases EXCEPT ![g] = "over"]
  BY <1>1, <1>2, PhaseFollows
<1>4. Asked' = [Asked EXCEPT ![g] = <<>>]
  BY <1>1, BatchFollows
<1>. QED  BY <1>3, <1>4 DEF Batching!End, Batching!Enter, Entered

LEMMA RefuseSeen ==
  ASSUME TypeOK, NEW g \in Goroutines, NEW s, step[g] \in Checks, Refuse(g, s),
         UNCHANGED <<sent, log, acked, attempts>>
  PROVE  [Batching!Next]_(Batching!vars)
<1>0. Return(g)
  BY DEF Refuse
<1>1. CASE g \in Publishers
  <2>1. Batching!End(g)
    BY <1>0, <1>1, ReturnEnds
  <2>2. Phases[g] = "open"
    BY <1>1 DEF Phases, PhaseOf, Checks
  <2>3. Batching!Refuse(g)
    BY <2>1, <2>2 DEF Batching!Refuse, Queued
  <2>. QED  BY <1>1, <2>3 DEF Batching!Next
<1>2. CASE g \in Consumers
  BY <1>0, <1>2, ConsumerNotSeen DEF Return, Go
<1>. QED  BY <1>1, <1>2 DEF Goroutines

LEMMA JudgeSeen ==
  ASSUME EventInv, NEW g \in Goroutines, step[g] \in {"cache", "parse"},
         Judge(g, Last(schema[g])), UNCHANGED <<sent, log, acked, attempts>>
  PROVE  [Batching!Next]_(Batching!vars)
<1>0. TypeOK /\ step[g] \in Checks
  BY DEF EventInv, Checks
<1>1. CASE Refuse(g, Last(schema[g]))
  BY <1>0, <1>1, RefuseSeen
<1>2. CASE /\ \/ Go(g, "lookup")
              \/ Go(g, IF isPublisher(g) THEN "write" ELSE "fetch")
           /\ UNCHANGED events
  <2>1. CASE g \in Publishers
    BY <1>0, <1>2, <2>1, CheckNotSeen DEF Go, isPublisher
  <2>2. CASE g \in Consumers
    <3>1. events' = [events EXCEPT ![g] = events[g]]
      BY <1>0, <1>2 DEF TypeOK
    <3>. QED  BY <1>0, <1>2, <2>2, <3>1, ConsumerNotSeen DEF Go
  <2>. QED  BY <2>1, <2>2 DEF Goroutines
<1>. QED  BY <1>1, <1>2 DEF Judge

LEMMA ChecksSeen ==
  ASSUME EventInv, NEW g \in Goroutines, Lookup(g) \/ Cache(g) \/ Parse(g)
  PROVE  [Batching!Next]_(Batching!vars)
<1>0. TypeOK /\ UNCHANGED <<sent, log, acked, attempts>>
  BY DEF EventInv, Lookup, Cache, Parse
<1>1. step[g] \in Checks
  BY DEF Lookup, Cache, Parse, Checks
<1>2. CASE \E s : Refuse(g, s)
  BY <1>0, <1>1, <1>2, RefuseSeen
<1>3. CASE \E s \in {"cache", "parse"} : Go(g, s) /\ UNCHANGED events
  <2>1. PICK s \in {"cache", "parse"} : Go(g, s) /\ UNCHANGED events
    BY <1>3
  <2>2. CASE g \in Publishers
    BY <1>0, <1>1, <2>1, <2>2, CheckNotSeen DEF Go
  <2>3. CASE g \in Consumers
    <3>1. events' = [events EXCEPT ![g] = events[g]]
      BY <1>0, <2>1 DEF TypeOK
    <3>. QED  BY <1>0, <2>1, <2>3, <3>1, ConsumerNotSeen DEF Go
  <2>. QED  BY <2>2, <2>3 DEF Goroutines
<1>4. CASE step[g] \in {"cache", "parse"} /\ Judge(g, Last(schema[g]))
  BY <1>0, <1>4, JudgeSeen
<1>5. CASE Lookup(g)
  BY <1>2, <1>3, <1>5 DEF Lookup
<1>6. CASE Cache(g)
  BY <1>3, <1>4, <1>6 DEF Cache, IsCompiled
<1>7. CASE Parse(g)
  BY <1>2, <1>4, <1>7 DEF Parse
<1>. QED  BY <1>5, <1>6, <1>7

LEMMA BeginSeen ==
  ASSUME EventInv, NEW g \in Publishers, PublishBatch(g) \/ PublishAgain(g)
  PROVE  Batching!Publish(g) \/ Batching!PublishAgain(g)
<1>0. TypeOK
  BY DEF EventInv
<1>1. ASSUME NEW batch, Begin(g, batch)
      PROVE  /\ Batching!Begin(g) /\ Asked' = [Asked EXCEPT ![g] = batch] /\ Asked'[g] = batch
             /\ Phases[g] = PhaseOf(step[g])
  <2>1. /\ step' = [step EXCEPT ![g] = "lookup"] /\ events' = [events EXCEPT ![g] = batch]
        /\ attempts' = [attempts EXCEPT ![g] = @ + 1] /\ UNCHANGED <<sent, log, acked>>
    BY <1>1, Zenon DEF Begin, Go
  <2>2. Phases' = [Phases EXCEPT ![g] = "open"] /\ Phases[g] = PhaseOf(step[g])
    BY <1>0, <2>1, PhaseFollows DEF PhaseOf
  <2>3. Asked' = [Asked EXCEPT ![g] = batch] /\ Asked'[g] = batch
    BY <1>0, <2>1, BatchFollows
  <2>. QED  BY <2>1, <2>2, <2>3 DEF Batching!Begin, Batching!Enter, Queued, Entered
<1>2. CASE PublishBatch(g)
  <2>1. PICK batch \in Batches : Begin(g, batch) /\ step[g] = "idle"
    BY <1>2 DEF PublishBatch
  <2>2. batch # <<>>
    BY <2>1, TaxonomyAssumption
  <2>. QED  BY <1>1, <2>1, <2>2 DEF Batching!Publish, PhaseOf
<1>3. CASE PublishAgain(g)
  <2>1. Begin(g, events[g]) /\ step[g] = "failed"
    BY <1>3 DEF PublishAgain
  <2>2. Asked' = [Asked EXCEPT ![g] = Asked[g]]
    BY <1>1, <2>1, AskedIs
  <2>3. UNCHANGED Asked
    BY <2>2 DEF Asked
  <2>. QED  BY <1>1, <2>1, <2>3 DEF Batching!PublishAgain, PhaseOf
<1>. QED  BY <1>2, <1>3

\* The messages of a call are the entries that its caller asked for.
LEMMA MessagesAreEntries ==
  ASSUME NEW g \in Publishers PROVE {entry(r) : r \in messages(g)} = Batching!Entries(g)
<1>1. Asked[g] = events[g]
  BY AskedIs
<1>2. messages(g) = {cloudEvent(g, i) : i \in DOMAIN events[g]}
  BY DEF messages
<1>3. \A i : entry(cloudEvent(g, i)) = [id |-> <<Batching!Call(g), i>>, type |-> Asked[g][i].type,
                                        payload |-> Asked[g][i].payload]
  BY <1>1 DEF entry, cloudEvent, Call, Batching!Call
<1>. QED  BY <1>1, <1>2, <1>3 DEF Batching!Entries

LEMMA AckedSeen == ASSUME NEW g \in Publishers, acknowledged(g) PROVE Batching!Acked(g)
BY AskedIs DEF acknowledged, Batching!Acked, Call, Batching!Call

LEMMA WriteSeen ==
  ASSUME EventInv, NEW g \in Publishers, Write(g)
  PROVE  Batching!Send(g) \/ Batching!SendAndForget(g) \/ Batching!Fail(g)
<1>0. TypeOK /\ UNCHANGED <<attempts, log>>
  BY Zenon DEF EventInv, Write
<1>1. Phases[g] = "open" /\ UNCHANGED Entered
  BY <1>0 DEF Write, Phases, PhaseOf, Entered
<1>2. ASSUME sent' = sent \union messages(g) PROVE Batching!HandOver(g)
  <2>1. Queued' = Queued \union {entry(r) : r \in messages(g)}
    BY <1>2 DEF Queued, entry
  <2>. QED  BY <1>1, <2>1, MessagesAreEntries DEF Batching!HandOver
<1>3. CASE sent' = sent \union messages(g) /\ g \in Async /\ acknowledged(g) /\ Return(g)
  BY <1>0, <1>2, <1>3, AckedSeen, ReturnEnds DEF Batching!SendAndForget
<1>4. CASE /\ sent' = sent \union messages(g) /\ g \notin Async
           /\ Go(g, "await") /\ UNCHANGED <<events, acked>>
  <2>1. Phases' = [Phases EXCEPT ![g] = "waiting"]
    BY <1>0, <1>4, PhaseFollows DEF Go, PhaseOf
  <2>. QED  BY <1>0, <1>1, <1>2, <1>4, <2>1 DEF Batching!Send, Batching!Enter, Asked
<1>5. CASE Go(g, "failed") /\ UNCHANGED <<events, sent, acked>>
  <2>1. Phases' = [Phases EXCEPT ![g] = "failed"]
    BY <1>0, <1>5, PhaseFollows DEF Go, PhaseOf
  <2>. QED  BY <1>0, <1>1, <1>5, <2>1 DEF Batching!Fail, Batching!Enter, Asked, Queued
<1>. QED  BY <1>3, <1>4, <1>5, Zenon DEF Write

LEMMA AwaitSeen ==
  ASSUME EventInv, NEW g \in Publishers, Await(g)
  PROVE  Batching!Acknowledge(g) \/ Batching!Fail(g)
<1>0. TypeOK /\ UNCHANGED <<attempts, sent, log>>
  BY Zenon DEF EventInv, Await
<1>1. Phases[g] = "waiting" /\ UNCHANGED <<Queued, Entered>>
  BY <1>0 DEF Await, Phases, PhaseOf, Queued, Entered
<1>2. CASE messages(g) \subseteq log /\ acknowledged(g) /\ Return(g)
  <2>1. {entry(r) : r \in messages(g)} \subseteq Entered
    BY <1>2 DEF Entered
  <2>2. Batching!Entries(g) \subseteq Entered
    BY <2>1, MessagesAreEntries
  <2>. QED  BY <1>0, <1>1, <1>2, <2>2, AckedSeen, ReturnEnds DEF Batching!Acknowledge
<1>3. CASE Go(g, "failed") /\ UNCHANGED <<events, acked>>
  <2>1. Phases' = [Phases EXCEPT ![g] = "failed"]
    BY <1>0, <1>3, PhaseFollows DEF Go, PhaseOf
  <2>. QED  BY <1>0, <1>1, <1>3, <2>1 DEF Batching!Fail, Batching!Enter, Asked
<1>. QED  BY <1>2, <1>3, Zenon DEF Await

\* A message that lands is stored, in no caller's step.
LEMMA LandSeen == ASSUME Land PROVE [Batching!Next]_(Batching!vars)
<1>1. PICK r \in sent \ log : log' = log \union {r}
  BY Zenon DEF Land
<1>2. UNCHANGED <<step, events, sent, acked, attempts>>
  BY Zenon DEF Land, bounds
<1>3. UNCHANGED <<Phases, Asked, Queued>>
  BY <1>2 DEF Phases, Asked, Queued
<1>4. entry(r) \in Queued /\ Entered' = Entered \union {entry(r)}
  BY <1>1 DEF Queued, Entered, entry
<1>5. CASE entry(r) \in Entered
  <2>1. UNCHANGED Entered
    BY <1>4, <1>5
  <2>. QED  BY <1>2, <1>3, <2>1 DEF Batching!vars
<1>6. CASE entry(r) \notin Entered
  <2>1. Batching!Store
    BY <1>2, <1>3, <1>4, <1>6 DEF Batching!Store
  <2>. QED  BY <2>1 DEF Batching!Next
<1>. QED  BY <1>5, <1>6

LEMMA InitBatching == Init => Batching!Init
<1>. SUFFICES ASSUME Init PROVE Batching!Init
  OBVIOUS
<1>1. \A g \in Publishers : step[g] = "idle" /\ events[g] = <<>>
  BY Kinds DEF Init
<1>2. Phases = [g \in Publishers |-> "over"] /\ Asked = [g \in Publishers |-> <<>>]
  BY <1>1 DEF Phases, PhaseOf, Asked
<1>. QED  BY <1>2 DEF Init, Batching!Init, Queued, Entered

LEMMA NextBatching == IInv /\ [Next]_vars => [Batching!Next]_(Batching!vars)
<1>. SUFFICES ASSUME IInv, [Next]_vars PROVE [Batching!Next]_(Batching!vars)
  OBVIOUS
<1>0. EventInv /\ TypeOK
  BY DEF IInv, EventInv
<1>1. CASE UNCHANGED <<goroutineVars, brokerVars, attempts>>
  BY <1>1, NotSeen
<1>2. ASSUME NEW p \in Processes,
             \/ \E x \in Extensions : RegisterExtensionEvent(p, x[1], x[2])
             \/ RegisterAllSchemas(p) \/ RegisterSchema(p)
      PROVE  [Batching!Next]_(Batching!vars)
  <2>1. UNCHANGED <<goroutineVars, brokerVars, attempts>>
    BY <1>2, Zenon DEF RegisterExtensionEvent, RegisterAllSchemas, RegisterSchema, bounds
  <2>. QED  BY <1>1, <2>1
<1>3. ASSUME NEW g \in Goroutines, Lookup(g) \/ Cache(g) \/ Parse(g)
      PROVE  [Batching!Next]_(Batching!vars)
  BY <1>0, <1>3, ChecksSeen
<1>4. ASSUME NEW g \in Publishers, PublishBatch(g) \/ PublishAgain(g) \/ Write(g) \/ Await(g)
      PROVE  [Batching!Next]_(Batching!vars)
  BY <1>0, <1>4, BeginSeen, WriteSeen, AwaitSeen DEF Batching!Next
<1>5. ASSUME NEW g \in Consumers, Deliver(g) \/ FetchLatestSchemaForEvent(g) \/ Compare(g)
      PROVE  [Batching!Next]_(Batching!vars)
  <2>1. UNCHANGED <<sent, log, acked, attempts>>
    BY <1>5, Zenon DEF Deliver, FetchLatestSchemaForEvent, Compare, bounds, brokerVars
  <2>2. \E s, items : /\ step' = [step EXCEPT ![g] = s]
                      /\ events' = [events EXCEPT ![g] = items]
    <3>1. events = [events EXCEPT ![g] = events[g]]
      BY <1>0 DEF TypeOK
    <3>2. CASE Deliver(g)
      BY <3>2, Zenon DEF Deliver, Go
    <3>3. CASE FetchLatestSchemaForEvent(g)
      BY <3>1, <3>3, Zenon DEF FetchLatestSchemaForEvent, Go
    <3>4. CASE Compare(g)
      BY <3>4, Zenon DEF Compare, Return, Go
    <3>. QED  BY <1>5, <3>2, <3>3, <3>4
  <2>. QED  BY <1>0, <2>1, <2>2, ConsumerNotSeen
<1>6. CASE UNCHANGED vars
  BY <1>1, <1>6
<1>7. CASE Land
  BY <1>7, LandSeen
<1>. QED  BY <1>2, <1>3, <1>4, <1>5, <1>6, <1>7 DEF Next

\* Every behaviour of publishers, consumers and registries is one that BatchPublisher
\* allows: for every taxonomy and every number of goroutines a call hands over once,
\* all that its caller gave it or nothing; the brokers store only what was handed
\* over; and nil keeps what it promises to callers that wait and to those that do not.
THEOREM NilKeepsItsPromise == Spec => NilIsKept
BY InitBatching, NextBatching, Invariance, PTL DEF Spec, NilIsKept, Batching!Spec

=============================================================================
