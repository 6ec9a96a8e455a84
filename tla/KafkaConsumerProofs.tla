------------------------ MODULE KafkaConsumerProofs ------------------------
(* Proofs about KafkaConsumer for every group, log and configuration.      *)
EXTENDS ConsumerHealthz, SequenceTheorems, FiniteSetTheorems, TLAPS

-----------------------------------------------------------------------------
(* A step of the group, whoever appends to the log.  Next is one of them    *)
(* and so is EventBus's BusNext.                                            *)

Grows ==
  \/ UNCHANGED <<log, deliveries, verdicts>>
  \/ \E p \in Partitions, r \in Messages :
       /\ Len(log[p]) < MaxLog
       /\ log' = [log EXCEPT ![p] = Append(@, r)]
       /\ deliveries' = [deliveries EXCEPT ![p] = Append(@, 0)]
       /\ verdicts' = [verdicts EXCEPT ![p] = Append(@, 0)]

Appended == Grows /\ UNCHANGED <<committed, owner, member, position, health, worker, fate, disruptions>>

GroupStep ==
  \/ Appended
  \/ \E p \in Partitions : Revoke(p) \/ \E m \in Members : Assign(m, p)
  \/ LifeStep
  \/ \E m \in Members, t \in Topics : Consume(m, t) \/ GiveUp(m, t)

LEMMA NextIsGroupStep == Next => GroupStep
<1>1. ASSUME NEW p \in Partitions, Produce(p) PROVE Appended
  BY <1>1, Zenon DEF Produce, Stored, Appended, Grows
<1>. QED  BY <1>1, Zenon DEF Next, GroupStep, BrokerStep

\* How often FetchMessage returned the record and a goroutine decided on it, if
\* there is one.
Delivered(p, o) == IF o + 1 \in DOMAIN deliveries[p] THEN deliveries[p][o + 1] ELSE 0
Decided(p, o) == IF o + 1 \in DOMAIN verdicts[p] THEN verdicts[p][o + 1] ELSE 0

\* What an append does to one partition.
Fits(p) ==
  /\ Len(deliveries'[p]) = Len(log'[p]) /\ Len(verdicts'[p]) = Len(log'[p])
  /\ Len(log[p]) <= Len(log'[p])
  /\ Len(log[p]) \in Nat /\ Len(log'[p]) \in Nat
  /\ Len(log[p]) <= MaxLog => Len(log'[p]) <= MaxLog
  /\ \A o \in Below(Len(log[p])) : log'[p][o + 1] = log[p][o + 1]
  /\ \A o \in Nat : Delivered(p, o)' = Delivered(p, o) /\ Decided(p, o)' = Decided(p, o)

LEMMA GrowsFits ==
  ASSUME log \in [Partitions -> Seq(Messages)], deliveries \in [Partitions -> Seq(Nat)],
         verdicts \in [Partitions -> Seq(Nat)],
         \A p \in Partitions : Len(deliveries[p]) = Len(log[p]) /\ Len(verdicts[p]) = Len(log[p]),
         Grows
  PROVE  /\ log' \in [Partitions -> Seq(Messages)] /\ deliveries' \in [Partitions -> Seq(Nat)]
         /\ verdicts' \in [Partitions -> Seq(Nat)]
         /\ \A p \in Partitions : Fits(p)
<1>. USE ConsumerAssumption
<1>1. CASE UNCHANGED <<log, deliveries, verdicts>>
  BY <1>1 DEF Delivered, Decided, Fits
<1>2. ASSUME NEW q \in Partitions, NEW r \in Messages, Len(log[q]) < MaxLog,
             log' = [log EXCEPT ![q] = Append(@, r)],
             deliveries' = [deliveries EXCEPT ![q] = Append(@, 0)],
             verdicts' = [verdicts EXCEPT ![q] = Append(@, 0)]
      PROVE  /\ log' \in [Partitions -> Seq(Messages)] /\ deliveries' \in [Partitions -> Seq(Nat)]
             /\ verdicts' \in [Partitions -> Seq(Nat)]
             /\ \A p \in Partitions : Fits(p)
  <2>1. /\ log' \in [Partitions -> Seq(Messages)] /\ deliveries' \in [Partitions -> Seq(Nat)]
        /\ verdicts' \in [Partitions -> Seq(Nat)]
    BY <1>2
  <2>2. ASSUME NEW p \in Partitions PROVE Fits(p)
    <3>1. CASE p = q
      <4>1. /\ log'[q] = Append(log[q], r) /\ deliveries'[q] = Append(deliveries[q], 0)
            /\ verdicts'[q] = Append(verdicts[q], 0)
        BY <1>2
      <4>2. /\ log[q] \in Seq(Messages) /\ deliveries[q] \in Seq(Nat) /\ verdicts[q] \in Seq(Nat)
            /\ Len(deliveries[q]) = Len(log[q]) /\ Len(verdicts[q]) = Len(log[q])
            /\ Len(log[q]) \in Nat
        OBVIOUS
      <4>3. \A o \in Below(Len(log[q])) : log'[q][o + 1] = log[q][o + 1]
        BY <4>1, <4>2 DEF Below
      <4>4. \A o \in Nat : Delivered(q, o)' = Delivered(q, o)
        BY <4>1, <4>2 DEF Delivered
      <4>7. \A o \in Nat : Decided(q, o)' = Decided(q, o)
        BY <4>1, <4>2 DEF Decided
      <4>5. /\ Len(log'[q]) = Len(log[q]) + 1 /\ Len(deliveries'[q]) = Len(log[q]) + 1
            /\ Len(verdicts'[q]) = Len(log[q]) + 1
        BY <4>1, <4>2
      <4>6. Len(log'[q]) <= MaxLog
        BY <1>2, <4>2, <4>5
      <4>. QED  BY <3>1, <4>2, <4>3, <4>4, <4>5, <4>6, <4>7 DEF Fits
    <3>2. CASE p # q
      <4>1. log'[p] = log[p] /\ deliveries'[p] = deliveries[p] /\ verdicts'[p] = verdicts[p]
        BY <1>2, <3>2
      <4>. QED  BY <4>1 DEF Delivered, Decided, Fits
    <3>. QED  BY <3>1, <3>2
  <2>. QED  BY <2>1, <2>2
<1>. QED  BY <1>1, <1>2 DEF Grows

(***************************************************************************)
(* How the history of a partition grows.                                   *)
(***************************************************************************)
LEMMA SettledSame ==
  ASSUME UNCHANGED fate, NEW p \in Partitions
  PROVE  Settled(p)' = Settled(p)
BY DEF Settled

LEMMA SettledMark ==
  ASSUME TypeOK, NEW m \in Members, NEW t \in Topics, NEW f \in Fates,
         pc[m][t] \in Busy, Mark(m, t, f), NEW p \in Partitions
  PROVE  Settled(p)' = IF p = PartOf(m, t) THEN Settled(p) \cup {OffsetOf(m, t)}
                                           ELSE Settled(p)
<1>1. PartOf(m, t) \in Partitions /\ fate \in [Partitions -> SUBSET (Nat \X Fates)]
  BY DEF TypeOK, HistoryTypeOK, HeldInLog, PartOf
<1>2. CASE p = PartOf(m, t)
  <2>1. fate'[p] = fate[p] \cup {<<OffsetOf(m, t), f>>}
    BY <1>1, <1>2 DEF Mark
  <2>2. <<OffsetOf(m, t), f>>[1] = OffsetOf(m, t)
    OBVIOUS
  <2>3. \A x : (\E g \in fate'[p] : x = g[1])
                 <=> (\E g \in fate[p] : x = g[1]) \/ x = OffsetOf(m, t)
    BY <2>1, <2>2, Zenon
  <2>4. \A x : x \in Settled(p)' <=> \E g \in fate'[p] : x = g[1]
    BY DEF Settled
  <2>5. \A x : x \in Settled(p) <=> \E g \in fate[p] : x = g[1]
    BY DEF Settled
  <2>6. Settled(p)' = Settled(p) \cup {OffsetOf(m, t)}
    BY <2>3, <2>4, <2>5
  <2>. QED  BY <2>6, <1>2
<1>3. CASE p # PartOf(m, t)
  <2>1. fate'[p] = fate[p]
    BY <1>1, <1>3 DEF Mark
  <2>. QED  BY <2>1, <1>3 DEF Settled
<1>. QED  BY <1>2, <1>3

(***************************************************************************)
(* Type correctness.                                                       *)
(***************************************************************************)
LEMMA InitType == Init => TypeOK
BY ConsumerAssumption
   DEF Init, TypeOK, BrokerTypeOK, MemberTypeOK, GoroutineTypeOK, HistoryTypeOK, HeldInLog, NoOffset, NoMsg, NoHealth, Lives, PCs, Busy, Reasons, Fates,
       PartOf, OffsetOf

LEMMA NextType == TypeOK /\ [GroupStep]_vars => TypeOK'
<1>. SUFFICES ASSUME TypeOK, [GroupStep]_vars PROVE TypeOK'
  OBVIOUS
<1>. USE ConsumerAssumption
<1>. USE DEF TypeOK, BrokerTypeOK, MemberTypeOK, GoroutineTypeOK, HistoryTypeOK, HeldInLog,
             Lives, Busy, PCs, Reasons, Fates, PartOf, OffsetOf, NoOffset, NoMsg, NoHealth,
             vars, broker, member, worker, history, Disrupt, Below
<1>1. CASE Appended
  <2>0. /\ log' \in [Partitions -> Seq(Messages)] /\ deliveries' \in [Partitions -> Seq(Nat)]
        /\ verdicts' \in [Partitions -> Seq(Nat)]
        /\ \A p \in Partitions : /\ Len(deliveries'[p]) = Len(log'[p])
                                 /\ Len(verdicts'[p]) = Len(log'[p])
                                 /\ Len(log[p]) <= Len(log'[p])
                                 /\ Len(log[p]) \in Nat /\ Len(log'[p]) \in Nat
    <3>1. Grows
      BY <1>1 DEF Appended
    <3>. QED  BY <3>1, GrowsFits DEF Fits
  <2>1. BrokerTypeOK' /\ MemberTypeOK' /\ GoroutineTypeOK' /\ HistoryTypeOK'
    BY <2>0, <1>1 DEF Appended
  <2>2. HeldInLog'
    BY <2>0, <1>1 DEF Appended
  <2>. QED  BY <2>1, <2>2
<1>2. ASSUME NEW p \in Partitions, Revoke(p) PROVE TypeOK'
  BY <1>2 DEF Revoke
<1>3. ASSUME NEW m \in Members, NEW p \in Partitions, Assign(m, p) PROVE TypeOK'
  <2>1. BrokerTypeOK'
    BY <1>3 DEF Assign
  <2>2. MemberTypeOK'
    <3>1. PICK o \in Nat \cup {NoOffset} : position' = [position EXCEPT ![m][p] = o]
      <4>1. committed[p] \in Nat \cup {NoOffset} /\ Len(log[p]) \in Nat
        BY <1>3
      <4>. QED  BY <1>3, <4>1 DEF Assign
    <3>2. position' \in [Members -> [Partitions -> Nat \cup {NoOffset}]]
      BY <3>1
    <3>. QED  BY <1>3, <3>2 DEF Assign
  <2>3. GoroutineTypeOK'
    BY <1>3 DEF Assign
  <2>4. HistoryTypeOK'
    <3>1. Len(log[p]) \in Nat /\ "skippedAtStart" \in Fates
      BY <1>3
    <3>2. {<<o, "skippedAtStart">> : o \in Below(Len(log[p]))} \in SUBSET (Nat \X Fates)
      BY <3>1
    <3>3. UNCHANGED fate \/ fate' = [fate EXCEPT ![p] =
                              @ \cup {<<o, "skippedAtStart">> : o \in Below(Len(log[p]))}]
      BY <1>3 DEF Assign
    <3>4. fate' \in [Partitions -> SUBSET (Nat \X Fates)]
      <4>. DEFINE back == {<<o, "skippedAtStart">> : o \in Below(Len(log[p]))}
      <4>1. back \in SUBSET (Nat \X Fates) /\ (UNCHANGED fate \/ fate' = [fate EXCEPT ![p] = @ \cup back])
        BY <3>2, <3>3
      <4>. HIDE DEF back
      <4>2. CASE UNCHANGED fate
        BY <4>2
      <4>3. CASE fate' = [fate EXCEPT ![p] = @ \cup back]
        BY <4>1, <4>3
      <4>. QED  BY <4>1, <4>2, <4>3
    <3>5. UNCHANGED <<log, deliveries, verdicts, disruptions>>
      BY <1>3 DEF Assign
    <3>. QED  BY <3>4, <3>5
  <2>5. HeldInLog'
    BY <1>3 DEF Assign
  <2>. QED  BY <2>1, <2>2, <2>3, <2>4, <2>5
<1>4. ASSUME NEW m \in Members, NEW e \in Handled, Subscribe(m, e) PROVE TypeOK'
  BY <1>4 DEF Subscribe
<1>5. ASSUME NEW m \in Members, Start(m) PROVE TypeOK'
  BY <1>5 DEF Start
<1>6. ASSUME NEW m \in Members, Cancel(m) PROVE TypeOK'
  BY <1>6 DEF Cancel
<1>7. ASSUME NEW m \in Members, Close(m) PROVE TypeOK'
  BY <1>7 DEF Close, Release
<1>8. ASSUME NEW m \in Members, StartReturns(m) PROVE TypeOK'
  BY <1>8 DEF StartReturns
<1>9. ASSUME NEW m \in Members, Crash(m) PROVE TypeOK'
  BY <1>9 DEF Crash, Fresh, Release
<1>10. ASSUME NEW m \in Members, Restart(m) PROVE TypeOK'
  BY <1>10 DEF Restart, Fresh, Release
<1>11. ASSUME NEW m \in Members, NEW t \in Topics, NEW p \in Partitions, Fetch(m, t, p) PROVE TypeOK'
  <2>1. BrokerTypeOK'
    BY <1>11 DEF Fetch, Goto
  <2>2. MemberTypeOK'
    <3>1. /\ UNCHANGED <<life, closed, handlers, health>>
          /\ position' = [position EXCEPT ![m][p] = @ + 1] /\ position[m][p] \in Nat
      BY <1>11 DEF Fetch
    <3>. QED  BY <3>1
  <2>3. GoroutineTypeOK'
    <3>1. /\ pc' = [pc EXCEPT ![m][t] = "dispatch"]
          /\ cur' = [cur EXCEPT ![m][t] = <<p, position[m][p]>>]
          /\ position[m][p] \in Nat
          /\ UNCHANGED <<attempt, reason>>
      BY <1>11 DEF Fetch, Goto
    <3>2. pc' \in [Members -> [Topics -> PCs]]
      BY <3>1
    <3>3. cur' \in [Members -> [Topics -> (Partitions \X Nat) \cup {NoMsg}]]
      BY <3>1
    <3>. QED  BY <3>1, <3>2, <3>3
  <2>4. HistoryTypeOK'
    BY <1>11 DEF Fetch, Goto
  <2>5. HeldInLog'
    <3>1. /\ pc' = [pc EXCEPT ![m][t] = "dispatch"]
          /\ cur' = [cur EXCEPT ![m][t] = <<p, position[m][p]>>]
          /\ UNCHANGED log
          /\ position[m][p] \in Nat /\ position[m][p] < Len(log[p])
      BY <1>11 DEF Fetch, Goto
    <3>2. ASSUME NEW n \in Members, NEW u \in Topics, pc'[n][u] \in Busy
          PROVE  cur'[n][u] \in Partitions \X Nat /\ cur'[n][u][2] < Len(log'[cur'[n][u][1]])
      <4>1. CASE n = m /\ u = t
        BY <3>1, <4>1
      <4>2. CASE ~(n = m /\ u = t)
        BY <3>1, <3>2, <4>2
      <4>. QED  BY <4>1, <4>2
    <3>. QED  BY <3>2
  <2>. QED  BY <2>1, <2>2, <2>3, <2>4, <2>5
<1>12. ASSUME NEW m \in Members, NEW t \in Topics, FetchFails(m, t) PROVE TypeOK'
  BY <1>12 DEF FetchFails
<1>13. ASSUME NEW m \in Members, NEW t \in Topics, StopConsuming(m, t) PROVE TypeOK'
  BY <1>13 DEF StopConsuming, Goto
<1>14. ASSUME NEW m \in Members, NEW t \in Topics, RejectMalformed(m, t) PROVE TypeOK'
  BY <1>14 DEF RejectMalformed, Goto, ToDeadLetter
<1>d. ASSUME NEW m \in Members, NEW t \in Topics, pc[m][t] \in Busy, Decide(m, t)
      PROVE  /\ verdicts' \in [Partitions -> Seq(Nat)]
             /\ \A p \in Partitions : Len(verdicts'[p]) = Len(verdicts[p])
  <2>. DEFINE q == PartOf(m, t)
              i == OffsetOf(m, t) + 1
  <2>1. q \in Partitions /\ i \in 1 .. Len(verdicts[q]) /\ verdicts[q] \in Seq(Nat)
    BY <1>d
  <2>2. verdicts' = [verdicts EXCEPT ![q] = [verdicts[q] EXCEPT ![i] = verdicts[q][i] + 1]]
    BY <1>d DEF Decide
  <2>. HIDE DEF q, i
  <2>3. verdicts[q][i] + 1 \in Nat
    BY <2>1
  <2>4. /\ [verdicts[q] EXCEPT ![i] = verdicts[q][i] + 1] \in Seq(Nat)
        /\ Len([verdicts[q] EXCEPT ![i] = verdicts[q][i] + 1]) = Len(verdicts[q])
    BY <2>1, <2>3, ExceptSeq
  <2>. QED  BY <2>1, <2>2, <2>4
<1>15. ASSUME NEW m \in Members, NEW t \in Topics, SkipUnhandled(m, t) PROVE TypeOK'
  <2>1. BrokerTypeOK' /\ MemberTypeOK'
    BY <1>15 DEF SkipUnhandled
  <2>3. GoroutineTypeOK'
    BY <1>15 DEF SkipUnhandled, Goto
  <2>4. HistoryTypeOK'
    <3>1. /\ verdicts' \in [Partitions -> Seq(Nat)]
          /\ \A p \in Partitions : Len(verdicts'[p]) = Len(verdicts[p])
      BY <1>15, <1>d DEF SkipUnhandled
    <3>2. fate' \in [Partitions -> SUBSET (Nat \X Fates)]
      BY <1>15 DEF SkipUnhandled, Mark
    <3>. QED  BY <1>15, <3>1, <3>2 DEF SkipUnhandled
  <2>5. HeldInLog'
    BY <1>15 DEF SkipUnhandled, Goto
  <2>. QED  BY <2>1, <2>3, <2>4, <2>5
<1>16. ASSUME NEW m \in Members, NEW t \in Topics, RejectInvalid(m, t) PROVE TypeOK'
  BY <1>16 DEF RejectInvalid, Goto, ToDeadLetter
<1>17. ASSUME NEW m \in Members, NEW t \in Topics, BeginHandling(m, t) PROVE TypeOK'
  <2>1. BrokerTypeOK'
    BY <1>17 DEF BeginHandling, Goto, ToDeadLetter
  <2>2. MemberTypeOK'
    BY <1>17 DEF BeginHandling, Goto, ToDeadLetter
  <2>3. GoroutineTypeOK'
    <3>1. CASE Goto(m, t, "handle") /\ attempt' = [attempt EXCEPT ![m][t] = 1]
               /\ UNCHANGED reason
      BY <1>17, <3>1 DEF BeginHandling, Goto
    <3>2. CASE ToDeadLetter(m, t, "exhausted") /\ UNCHANGED attempt
      BY <1>17, <3>2 DEF BeginHandling, Goto, ToDeadLetter
    <3>. QED  BY <1>17, <3>1, <3>2 DEF BeginHandling
  <2>4. HistoryTypeOK'
    BY <1>17 DEF BeginHandling, Goto, ToDeadLetter
  <2>5. HeldInLog'
    <3>1. \E x \in Busy : Goto(m, t, x)
      BY <1>17 DEF BeginHandling, ToDeadLetter
    <3>2. pc[m][t] \in Busy /\ UNCHANGED <<log, cur>>
      BY <1>17 DEF BeginHandling
    <3>. QED  BY <3>1, <3>2 DEF Goto
  <2>. QED  BY <2>1, <2>2, <2>3, <2>4, <2>5
<1>18. ASSUME NEW m \in Members, NEW t \in Topics, HandlerSucceeds(m, t) PROVE TypeOK'
  <2>1. BrokerTypeOK' /\ MemberTypeOK'
    BY <1>18 DEF HandlerSucceeds
  <2>3. GoroutineTypeOK'
    BY <1>18 DEF HandlerSucceeds, Goto
  <2>4. HistoryTypeOK'
    <3>1. /\ verdicts' \in [Partitions -> Seq(Nat)]
          /\ \A p \in Partitions : Len(verdicts'[p]) = Len(verdicts[p])
      BY <1>18, <1>d DEF HandlerSucceeds
    <3>2. fate' \in [Partitions -> SUBSET (Nat \X Fates)]
      BY <1>18 DEF HandlerSucceeds, Mark
    <3>. QED  BY <1>18, <3>1, <3>2 DEF HandlerSucceeds
  <2>5. HeldInLog'
    BY <1>18 DEF HandlerSucceeds, Goto
  <2>. QED  BY <2>1, <2>3, <2>4, <2>5
<1>19. ASSUME NEW m \in Members, NEW t \in Topics, HandlerFails(m, t) PROVE TypeOK'
  <2>1. BrokerTypeOK'
    BY <1>19 DEF HandlerFails, Goto, ToDeadLetter
  <2>2. MemberTypeOK'
    BY <1>19 DEF HandlerFails, Goto, ToDeadLetter
  <2>3. GoroutineTypeOK'
    <3>1. CASE attempt' = [attempt EXCEPT ![m][t] = @ + 1] /\ UNCHANGED <<pc, reason>>
      BY <1>19, <3>1 DEF HandlerFails
    <3>2. CASE attempt' = [attempt EXCEPT ![m][t] = 0] /\ ToDeadLetter(m, t, "exhausted")
      BY <1>19, <3>2 DEF HandlerFails, Goto, ToDeadLetter
    <3>. QED  BY <1>19, <3>1, <3>2 DEF HandlerFails
  <2>4. HistoryTypeOK'
    BY <1>19 DEF HandlerFails, Goto, ToDeadLetter
  <2>5. HeldInLog'
    <3>1. pc[m][t] \in Busy /\ UNCHANGED <<log, cur>>
      BY <1>19 DEF HandlerFails
    <3>2. CASE Goto(m, t, "deadLetter")
      BY <3>1, <3>2 DEF Goto
    <3>3. CASE UNCHANGED pc
      BY <3>1, <3>3
    <3>. QED  BY <1>19, <3>2, <3>3 DEF HandlerFails, ToDeadLetter
  <2>. QED  BY <2>1, <2>2, <2>3, <2>4, <2>5
<1>20. ASSUME NEW m \in Members, NEW t \in Topics, DeadLetter(m, t) PROVE TypeOK'
  <2>1. BrokerTypeOK' /\ MemberTypeOK'
    BY <1>20 DEF DeadLetter
  <2>2. GoroutineTypeOK'
    BY <1>20 DEF DeadLetter, Goto
  <2>3. HistoryTypeOK'
    <3>1. /\ verdicts' \in [Partitions -> Seq(Nat)]
          /\ \A p \in Partitions : Len(verdicts'[p]) = Len(verdicts[p])
      BY <1>20, <1>d DEF DeadLetter
    <3>. QED  BY <1>20, <3>1 DEF DeadLetter
  <2>4. HeldInLog'
    BY <1>20 DEF DeadLetter, Goto
  <2>. QED  BY <2>1, <2>2, <2>3, <2>4
<1>24. ASSUME NEW m \in Members, NEW t \in Topics, DeadLetterReturns(m, t) PROVE TypeOK'
  <2>1. BrokerTypeOK' /\ MemberTypeOK'
    BY <1>24 DEF DeadLetterReturns
  <2>2. GoroutineTypeOK'
    <3>1. /\ \E x \in {"report", "commit"} : pc' = [pc EXCEPT ![m][t] = x]
          /\ UNCHANGED reason \/ reason' = [reason EXCEPT ![m][t] = "none"]
          /\ UNCHANGED <<cur, attempt>>
      BY <1>24 DEF DeadLetterReturns, Goto
    <3>2. pc' \in [Members -> [Topics -> PCs]]
      BY <3>1
    <3>3. reason' \in [Members -> [Topics -> Reasons]]
      <4>1. "none" \in Reasons /\ reason \in [Members -> [Topics -> Reasons]]
        OBVIOUS
      <4>2. CASE reason' = [reason EXCEPT ![m][t] = "none"]
        BY <4>1, <4>2
      <4>. QED  BY <3>1, <4>1, <4>2
    <3>. QED  BY <3>1, <3>2, <3>3
  <2>3. HistoryTypeOK'
    <3>1. PICK f \in Fates : fate' = [fate EXCEPT ![PartOf(m, t)] = @ \cup {<<OffsetOf(m, t), f>>}]
      BY <1>24 DEF DeadLetterReturns, Mark
    <3>2. PartOf(m, t) \in Partitions /\ OffsetOf(m, t) \in Nat
      BY <1>24 DEF DeadLetterReturns
    <3>3. fate' \in [Partitions -> SUBSET (Nat \X Fates)]
      BY <3>1, <3>2
    <3>. QED  BY <1>24, <3>3 DEF DeadLetterReturns
  <2>4. HeldInLog'
    <3>1. \E x \in Busy : pc' = [pc EXCEPT ![m][t] = x]
      BY <1>24 DEF DeadLetterReturns, Goto
    <3>2. pc[m][t] \in Busy /\ UNCHANGED <<log, cur>>
      BY <1>24 DEF DeadLetterReturns
    <3>. QED  BY <3>1, <3>2
  <2>. QED  BY <2>1, <2>2, <2>3, <2>4
<1>25. ASSUME NEW m \in Members, NEW t \in Topics, Report(m, t) PROVE TypeOK'
  <2>1. BrokerTypeOK'
    BY <1>25 DEF Report
  <2>2. MemberTypeOK'
    <3>1. OffsetOf(m, t) \in Nat
      BY <1>25 DEF Report
    <3>2. recordSuccess(m, t) \/ recordFailure(m, t)
      BY <1>25, Zenon DEF Report
    <3>3. health' \in [Members -> [Topics -> [last : Nat \cup {NoOffset}, failed : BOOLEAN]]]
      <4>1. CASE recordSuccess(m, t)
        BY <3>1, <4>1 DEF recordSuccess
      <4>2. CASE recordFailure(m, t)
        BY <3>1, <4>2 DEF recordFailure
      <4>. QED  BY <3>2, <4>1, <4>2
    <3>. QED  BY <1>25, <3>3 DEF Report
  <2>3. GoroutineTypeOK'
    BY <1>25 DEF Report, Goto
  <2>4. HistoryTypeOK'
    BY <1>25 DEF Report
  <2>5. HeldInLog'
    BY <1>25 DEF Report, Goto
  <2>. QED  BY <2>1, <2>2, <2>3, <2>4, <2>5
<1>21. ASSUME NEW m \in Members, NEW t \in Topics, CommitApplied(m, t) PROVE TypeOK'
  <2>1. BrokerTypeOK'
    BY <1>21 DEF CommitApplied, Committing, Goto
  <2>2. MemberTypeOK'
    BY <1>21 DEF CommitApplied, Committing, Goto
  <2>3. GoroutineTypeOK'
    BY <1>21 DEF CommitApplied, Committing, Goto
  <2>4. HistoryTypeOK'
    BY <1>21 DEF CommitApplied, Committing, Goto
  <2>5. HeldInLog'
    BY <1>21 DEF CommitApplied, Committing, Goto
  <2>. QED  BY <2>1, <2>2, <2>3, <2>4, <2>5
<1>22. ASSUME NEW m \in Members, NEW t \in Topics, CommitFails(m, t) PROVE TypeOK'
  BY <1>22 DEF CommitFails, Committing, Goto
<1>23. CASE UNCHANGED vars
  BY <1>23
<1>. QED
  BY <1>1, <1>2, <1>3, <1>4, <1>5, <1>6, <1>7, <1>8, <1>9, <1>10, <1>11, <1>12, <1>13, <1>14, <1>15, <1>16, <1>17, <1>18, <1>19, <1>20, <1>21, <1>22, <1>23, <1>24, <1>25
     DEF GroupStep, LifeStep, Consume, GiveUp

\* In every reachable state of every group the variables hold values of
\* their kinds and a busy goroutine holds a record of the log.
THEOREM TypeCorrect == Spec => []TypeOK
BY InitType, NextType, NextIsGroupStep, PTL DEF Spec

(***************************************************************************)
(* The inductive invariant, one lemma per way in which a step disturbs it. *)
(***************************************************************************)
Core == CommittedSettled /\ SettledIsPrefix /\ PositionAfterSettled /\ HeldAfterSettled
        /\ NewIsIdle

\* What HeldAfterSettled says of one goroutine.
HeldRight(m, t) ==
  /\ TopicOf[PartOf(m, t)] = t
  /\ Below(OffsetOf(m, t)) \subseteq Settled(PartOf(m, t))
  /\ pc[m][t] \in {"report", "commit"} => OffsetOf(m, t) \in Settled(PartOf(m, t))

\* Steps of the broker and of the member's life that move no goroutine.
LEMMA QuietStep ==
  ASSUME IInv, UNCHANGED <<committed, position, fate, pc, cur>>,
         \A m \in Members : life'[m] = "new" => life[m] = "new"
  PROVE  Core'
<1>1. \A p \in Partitions : Settled(p)' = Settled(p)
  BY SettledSame
<1>2. HeldAfterSettled'
  <2>. SUFFICES ASSUME NEW n \in Members, NEW u \in Topics, pc'[n][u] \in Busy
                PROVE  HeldRight(n, u)'
    BY DEF HeldAfterSettled, HeldRight
  <2>1. HeldRight(n, u) /\ PartOf(n, u) \in Partitions
    BY DEF IInv, HeldAfterSettled, HeldRight, TypeOK, HeldInLog, PartOf
  <2>2. PartOf(n, u)' = PartOf(n, u) /\ OffsetOf(n, u)' = OffsetOf(n, u)
    BY DEF PartOf, OffsetOf
  <2>. QED  BY <1>1, <2>1, <2>2 DEF HeldRight
<1>3. CommittedSettled' /\ SettledIsPrefix'
  BY <1>1 DEF IInv, CommittedSettled, SettledIsPrefix
<1>4. PositionAfterSettled'
  BY <1>1 DEF IInv, PositionAfterSettled
<1>5. NewIsIdle'
  BY DEF IInv, NewIsIdle
<1>. QED  BY <1>2, <1>3, <1>4, <1>5 DEF Core

\* A goroutine goes on with its record, which it settles before it reports or
\* commits it.
LEMMA MoveStep ==
  ASSUME IInv, NEW m \in Members, NEW t \in Topics, NEW x \in Busy,
         pc[m][t] \in Busy, Goto(m, t, x),
         x \in {"report", "commit"} => pc[m][t] \in {"report", "commit"},
         UNCHANGED <<committed, position, fate, cur, life>>
  PROVE  Core'
<1>1. \A p \in Partitions : Settled(p)' = Settled(p)
  BY SettledSame
<1>2. pc \in [Members -> [Topics -> PCs]] /\ x \in Busy /\ life[m] # "new"
  BY DEF IInv, TypeOK, GoroutineTypeOK, Busy, NewIsIdle
<1>3. pc' = [pc EXCEPT ![m][t] = x]
  BY DEF Goto
<1>4. CommittedSettled' /\ SettledIsPrefix'
  BY <1>1 DEF IInv, CommittedSettled, SettledIsPrefix
<1>5. PositionAfterSettled'
  BY <1>1, <1>2, <1>3, ConsumerAssumption DEF IInv, PositionAfterSettled, ConsumerAssumption
<1>6. HeldAfterSettled'
  <2>. SUFFICES ASSUME NEW n \in Members, NEW u \in Topics, pc'[n][u] \in Busy
                PROVE  HeldRight(n, u)'
    BY DEF HeldAfterSettled, HeldRight
  <2>1. /\ pc[n][u] \in Busy
        /\ pc'[n][u] \in {"report", "commit"} => pc[n][u] \in {"report", "commit"}
    BY <1>2, <1>3
  <2>2. HeldRight(n, u) /\ PartOf(n, u) \in Partitions
    BY <2>1 DEF IInv, HeldAfterSettled, HeldRight, TypeOK, HeldInLog, PartOf
  <2>3. PartOf(n, u)' = PartOf(n, u) /\ OffsetOf(n, u)' = OffsetOf(n, u)
    BY DEF PartOf, OffsetOf
  <2>. QED  BY <1>1, <2>1, <2>2, <2>3 DEF HeldRight
<1>7. NewIsIdle'
  BY <1>2, <1>3 DEF IInv, NewIsIdle
<1>. QED  BY <1>4, <1>5, <1>6, <1>7 DEF Core

\* A goroutine settles the record it holds: its predecessors are settled.
LEMMA SettleStep ==
  ASSUME IInv, NEW m \in Members, NEW t \in Topics, NEW f \in Fates, NEW y \in {"report", "commit"},
         pc[m][t] \in Busy, Goto(m, t, y), Mark(m, t, f),
         UNCHANGED <<committed, position, cur, life>>
  PROVE  Core'
<1>. DEFINE q == PartOf(m, t)
            o == OffsetOf(m, t)
<1>1. \A p \in Partitions : Settled(p)' = IF p = q THEN Settled(p) \cup {o} ELSE Settled(p)
  BY SettledMark DEF IInv
<1>2. /\ pc \in [Members -> [Topics -> PCs]]
      /\ life[m] # "new"
      /\ q \in Partitions /\ o \in Nat
      /\ Below(o) \subseteq Settled(q)
  BY DEF IInv, TypeOK, GoroutineTypeOK, HeldInLog, HeldAfterSettled, Busy, NewIsIdle,
         PartOf, OffsetOf
<1>3. pc' = [pc EXCEPT ![m][t] = y]
  BY DEF Goto
<1>9. q' = q /\ o' = o
  BY DEF PartOf, OffsetOf
<1>10. q = PartOf(m, t) /\ o = OffsetOf(m, t)
  OBVIOUS
<1>. HIDE DEF q, o
<1>4. CommittedSettled'
  BY <1>1 DEF IInv, CommittedSettled
<1>5. SettledIsPrefix'
  BY <1>1, <1>2 DEF IInv, SettledIsPrefix
<1>6. PositionAfterSettled'
  BY <1>1, <1>2, <1>3, ConsumerAssumption
     DEF IInv, PositionAfterSettled, ConsumerAssumption, Busy
<1>7. HeldAfterSettled'
  <2>. SUFFICES ASSUME NEW n \in Members, NEW u \in Topics, pc'[n][u] \in Busy
                PROVE  HeldRight(n, u)'
    BY DEF HeldAfterSettled, HeldRight
  <2>1. /\ pc[n][u] \in Busy
        /\ pc'[n][u] \in {"report", "commit"} =>
             pc[n][u] \in {"report", "commit"} \/ (n = m /\ u = t)
    BY <1>2, <1>3 DEF Busy
  <2>2. HeldRight(n, u) /\ PartOf(n, u) \in Partitions
    BY <2>1 DEF IInv, HeldAfterSettled, HeldRight, TypeOK, HeldInLog, PartOf
  <2>3. PartOf(n, u)' = PartOf(n, u) /\ OffsetOf(n, u)' = OffsetOf(n, u)
    BY DEF PartOf, OffsetOf
  <2>4. Settled(PartOf(n, u)) \subseteq Settled(PartOf(n, u))'
    BY <1>1, <2>2, <2>3
  <2>5. n = m /\ u = t => o \in Settled(q)'
    BY <1>1, <1>2, <1>9
  <2>. QED  BY <1>10, <2>1, <2>2, <2>3, <2>4, <2>5, <1>9 DEF HeldRight
<1>8. NewIsIdle'
  BY <1>2, <1>3 DEF IInv, NewIsIdle
<1>. QED  BY <1>4, <1>5, <1>6, <1>7, <1>8 DEF Core

\* A goroutine is done with its record, whether its commit was stored or not.
LEMMA CommitStep ==
  ASSUME IInv, NEW m \in Members, NEW t \in Topics, Committing(m, t),
         \/ UNCHANGED committed
         \/ committed' = [committed EXCEPT ![PartOf(m, t)] = OffsetOf(m, t) + 1]
  PROVE  Core'
<1>. DEFINE q == PartOf(m, t)
            o == OffsetOf(m, t)
<1>1. \A p \in Partitions : Settled(p)' = Settled(p)
  BY SettledSame DEF Committing, history
<1>2. /\ pc \in [Members -> [Topics -> PCs]]
      /\ cur \in [Members -> [Topics -> (Partitions \X Nat) \cup {NoMsg}]]
      /\ committed \in [Partitions -> Nat \cup {NoOffset}]
      /\ pc[m][t] = "commit"
  BY DEF Committing, IInv, TypeOK, BrokerTypeOK, GoroutineTypeOK
<1>3. cur[m][t] \in Partitions \X Nat /\ HeldRight(m, t) /\ life[m] # "new"
  BY <1>2 DEF IInv, TypeOK, HeldInLog, HeldAfterSettled, HeldRight, NewIsIdle, Busy
<1>4. /\ cur[m][t] = <<q, o>> /\ q \in Partitions /\ o \in Nat
      /\ TopicOf[q] = t /\ Below(o) \subseteq Settled(q) /\ o \in Settled(q)
  BY <1>2, <1>3 DEF HeldRight, PartOf, OffsetOf
<1>5. /\ pc' = [pc EXCEPT ![m][t] = "fetch"]
      /\ cur' = [cur EXCEPT ![m][t] = NoMsg]
      /\ UNCHANGED <<position, life, fate>>
  BY DEF Committing, Goto, member, history
<1>6. UNCHANGED committed \/ committed' = [committed EXCEPT ![q] = o + 1]
  OBVIOUS
<1>. HIDE DEF q, o
<1>7. CommittedSettled'
  <2>1. CASE UNCHANGED committed
    BY <1>1, <2>1 DEF IInv, CommittedSettled
  <2>2. CASE committed' = [committed EXCEPT ![q] = o + 1]
    <3>1. Below(o + 1) \subseteq Below(o) \cup {o}
      BY <1>4 DEF Below
    <3>. QED  BY <1>1, <1>2, <1>4, <2>2, <3>1 DEF IInv, CommittedSettled
  <2>. QED  BY <1>6, <2>1, <2>2
<1>8. SettledIsPrefix'
  BY <1>1 DEF IInv, SettledIsPrefix
<1>9. PositionAfterSettled'
  BY <1>1, <1>2, <1>4, <1>5, ConsumerAssumption
     DEF IInv, PositionAfterSettled, ConsumerAssumption, Busy
<1>10. HeldAfterSettled'
  <2>. SUFFICES ASSUME NEW n \in Members, NEW u \in Topics, pc'[n][u] \in Busy
                PROVE  HeldRight(n, u)'
    BY DEF HeldAfterSettled, HeldRight
  <2>1. pc[n][u] = pc'[n][u] /\ cur[n][u] = cur'[n][u]
    BY <1>2, <1>5 DEF Busy
  <2>2. HeldRight(n, u) /\ PartOf(n, u) \in Partitions
    BY <2>1 DEF IInv, HeldAfterSettled, HeldRight, TypeOK, HeldInLog, PartOf
  <2>3. PartOf(n, u)' = PartOf(n, u) /\ OffsetOf(n, u)' = OffsetOf(n, u)
    BY <2>1 DEF PartOf, OffsetOf
  <2>. QED  BY <1>1, <2>1, <2>2, <2>3 DEF HeldRight
<1>11. NewIsIdle'
  BY <1>2, <1>3, <1>5 DEF IInv, NewIsIdle
<1>. QED  BY <1>7, <1>8, <1>9, <1>10, <1>11 DEF Core

\* A member gets a partition: what precedes the position given to its reader
\* was settled before it was committed, or is passed over now.
LEMMA AssignStep ==
  ASSUME IInv, NEW m \in Members, NEW p \in Partitions, Assign(m, p)
  PROVE  Core'
<1>. DEFINE back == {<<o, "skippedAtStart">> : o \in Below(Len(log[p]))}
<1>1. /\ UNCHANGED <<committed, life, pc, cur>>
      /\ log[p] \in Seq(Messages) /\ Len(log[p]) \in Nat
      /\ committed \in [Partitions -> Nat \cup {NoOffset}]
      /\ position \in [Members -> [Partitions -> Nat \cup {NoOffset}]]
      /\ fate \in [Partitions -> SUBSET (Nat \X Fates)]
  BY DEF Assign, member, worker, IInv, TypeOK, BrokerTypeOK, MemberTypeOK, HistoryTypeOK
<1>2. PICK s \in Nat, f \in SUBSET (Nat \X Fates) :
        /\ position' = [position EXCEPT ![m][p] = s]
        /\ fate' = [fate EXCEPT ![p] = @ \cup f]
        /\ \A o \in Below(s) : o \in Settled(p) \/ o \in {g[1] : g \in f}
        /\ f = {} \/ (f = back /\ s = Len(log[p]))
  <2>1. CASE committed[p] # NoOffset /\ position' = [position EXCEPT ![m][p] = committed[p]]
             /\ UNCHANGED fate
    <3>1. committed[p] \in Nat /\ \A o \in Below(committed[p]) : o \in Settled(p)
      BY <1>1, <2>1 DEF IInv, CommittedSettled
    <3>2. fate' = [fate EXCEPT ![p] = @ \cup {}]
      BY <1>1, <2>1
    <3>. QED  BY <2>1, <3>1, <3>2
  <2>2. CASE committed[p] = NoOffset /\ ~StartAtEnd
             /\ position' = [position EXCEPT ![m][p] = 0] /\ UNCHANGED fate
    <3>1. fate' = [fate EXCEPT ![p] = @ \cup {}] /\ Below(0) = {}
      BY <1>1, <2>2 DEF Below
    <3>. QED  BY <2>2, <3>1
  <2>3. CASE committed[p] = NoOffset /\ StartAtEnd
             /\ position' = [position EXCEPT ![m][p] = Len(log[p])]
             /\ fate' = [fate EXCEPT ![p] = @ \cup back]
    <3>1. back \in SUBSET (Nat \X Fates)
      BY DEF Below, Fates
    <3>2. \A o \in Below(Len(log[p])) : <<o, "skippedAtStart">> \in back
      OBVIOUS
    <3>3. \A o : <<o, "skippedAtStart">>[1] = o
      OBVIOUS
    <3>4. \A o \in Below(Len(log[p])) : o \in {g[1] : g \in back}
      <4>. HIDE DEF back
      <4>. QED  BY <3>2, <3>3
    <3>. HIDE DEF back
    <3>. QED  BY <1>1, <2>3, <3>1, <3>4
  <2>. QED  BY <2>1, <2>2, <2>3 DEF Assign
<1>3. \A q \in Partitions : Settled(q)' = IF q = p THEN Settled(q) \cup {g[1] : g \in f}
                                                   ELSE Settled(q)
  <2>. HIDE DEF back
  <2>. TAKE q \in Partitions
  <2>1. \A x : x \in Settled(q)' <=> \E g \in fate'[q] : x = g[1]
    BY DEF Settled
  <2>2. \A x : x \in Settled(q) <=> \E g \in fate[q] : x = g[1]
    BY DEF Settled
  <2>3. fate'[q] = IF q = p THEN fate[q] \cup f ELSE fate[q]
    BY <1>1, <1>2
  <2>4. CASE q = p
    <3>1. \A x : (\E g \in fate'[q] : x = g[1])
                   <=> (\E g \in fate[q] : x = g[1]) \/ (\E g \in f : x = g[1])
      BY <2>3, <2>4
    <3>2. \A x : x \in {g[1] : g \in f} <=> \E g \in f : x = g[1]
      OBVIOUS
    <3>. QED  BY <2>1, <2>2, <2>4, <3>1, <3>2
  <2>5. CASE q # p
    BY <2>3, <2>5 DEF Settled
  <2>. QED  BY <2>4, <2>5
<1>4. f = {} \/ ({g[1] : g \in f} = Below(s) /\ s = Len(log[p]))
  <2>1. ASSUME f = back PROVE {g[1] : g \in f} = Below(Len(log[p]))
    <3>1. \A o : <<o, "skippedAtStart">>[1] = o
      OBVIOUS
    <3>2. \A x : x \in {g[1] : g \in f} <=> \E g \in f : x = g[1]
      OBVIOUS
    <3>3. \A g : g \in f <=> \E o \in Below(Len(log[p])) : g = <<o, "skippedAtStart">>
      BY <2>1
    <3>. HIDE DEF back
    <3>4. ASSUME NEW x \in Below(Len(log[p])) PROVE x \in {g[1] : g \in f}
      <4>1. <<x, "skippedAtStart">> \in f /\ x = <<x, "skippedAtStart">>[1]
        BY <3>1, <3>3
      <4>. QED  BY <3>2, <4>1
    <3>5. ASSUME NEW x \in {g[1] : g \in f} PROVE x \in Below(Len(log[p]))
      <4>1. PICK g \in f : x = g[1]
        BY <3>2
      <4>2. PICK o \in Below(Len(log[p])) : g = <<o, "skippedAtStart">>
        BY <3>3
      <4>. QED  BY <3>1, <4>1, <4>2
    <3>. QED  BY <3>4, <3>5
  <2>. HIDE DEF back
  <2>. QED  BY <1>2, <2>1
<1>. HIDE DEF back
<1>5. \A q \in Partitions : Settled(q) \subseteq Settled(q)'
  BY <1>3
<1>6. CommittedSettled'
  BY <1>1, <1>5 DEF IInv, CommittedSettled
<1>7. SettledIsPrefix'
  <2>. SUFFICES ASSUME NEW q \in Partitions, NEW o \in Settled(q)' PROVE Below(o) \subseteq Settled(q)'
    BY DEF SettledIsPrefix
  <2>1. CASE o \in Settled(q)
    BY <1>5, <2>1 DEF IInv, SettledIsPrefix
  <2>2. CASE o \notin Settled(q)
    <3>1. q = p /\ f # {} /\ o \in Below(s) /\ {g[1] : g \in f} = Below(s)
      BY <1>3, <1>4, <2>2
    <3>2. Below(o) \subseteq Below(s)
      BY <3>1 DEF Below
    <3>. QED  BY <1>3, <3>1, <3>2
  <2>. QED  BY <2>1, <2>2
<1>8. PositionAfterSettled'
  <2>. SUFFICES ASSUME NEW n \in Members, NEW q \in Partitions, position'[n][q] # NoOffset,
                       NEW o \in Below(position'[n][q])
                PROVE  \/ o \in Settled(q)'
                       \/ /\ pc'[n][TopicOf[q]] \in Busy
                          /\ cur'[n][TopicOf[q]] = <<q, o>>
    BY DEF PositionAfterSettled
  <2>1. CASE n = m /\ q = p
    BY <1>1, <1>2, <1>3, <2>1
  <2>2. CASE ~(n = m /\ q = p)
    <3>1. position'[n][q] = position[n][q]
      BY <1>1, <1>2, <2>2
    <3>. QED  BY <1>1, <1>5, <3>1 DEF IInv, PositionAfterSettled
  <2>. QED  BY <2>1, <2>2
<1>9. HeldAfterSettled'
  <2>. SUFFICES ASSUME NEW n \in Members, NEW u \in Topics, pc'[n][u] \in Busy
                PROVE  HeldRight(n, u)'
    BY DEF HeldAfterSettled, HeldRight
  <2>1. HeldRight(n, u) /\ PartOf(n, u) \in Partitions
    BY <1>1 DEF IInv, HeldAfterSettled, HeldRight, TypeOK, HeldInLog, PartOf
  <2>2. PartOf(n, u)' = PartOf(n, u) /\ OffsetOf(n, u)' = OffsetOf(n, u)
    BY <1>1 DEF PartOf, OffsetOf
  <2>3. Settled(PartOf(n, u)) \subseteq Settled(PartOf(n, u))'
    BY <1>3, <2>1, <2>2
  <2>. QED  BY <1>1, <2>1, <2>2, <2>3 DEF HeldRight
<1>10. NewIsIdle'
  BY <1>1 DEF IInv, NewIsIdle
<1>. QED  BY <1>6, <1>7, <1>8, <1>9, <1>10 DEF Core

\* Readers forget positions (Revoke) or goroutines that hold no record stop
\* or start: nothing is settled or committed.
LEMMA ForgetStep ==
  ASSUME IInv, UNCHANGED <<committed, fate>>,
         \A n \in Members, p \in Partitions :
           position'[n][p] \in {position[n][p], NoOffset},
         \A n \in Members, t \in Topics :
           \/ pc'[n][t] = pc[n][t] /\ cur'[n][t] = cur[n][t]
           \/ /\ pc'[n][t] \notin Busy
              /\ \/ pc[n][t] \notin Busy
                 \/ \A p \in Partitions : position'[n][p] = NoOffset,
         \A n \in Members : life'[n] = "new" => \A t \in Topics : pc'[n][t] = "off"
  PROVE  Core'
<1>1. \A p \in Partitions : Settled(p)' = Settled(p)
  BY SettledSame
<1>2. CommittedSettled' /\ SettledIsPrefix'
  BY <1>1 DEF IInv, CommittedSettled, SettledIsPrefix
<1>3. PositionAfterSettled'
  <2>. SUFFICES ASSUME NEW n \in Members, NEW q \in Partitions, position'[n][q] # NoOffset,
                       NEW o \in Below(position'[n][q])
                PROVE  \/ o \in Settled(q)'
                       \/ /\ pc'[n][TopicOf[q]] \in Busy
                          /\ cur'[n][TopicOf[q]] = <<q, o>>
    BY DEF PositionAfterSettled
  <2>1. position'[n][q] = position[n][q] /\ TopicOf[q] \in Topics
    BY ConsumerAssumption DEF ConsumerAssumption
  <2>2. o \in Settled(q) \/ (pc[n][TopicOf[q]] \in Busy /\ cur[n][TopicOf[q]] = <<q, o>>)
    BY <2>1 DEF IInv, PositionAfterSettled
  <2>3. pc[n][TopicOf[q]] \in Busy => pc'[n][TopicOf[q]] = pc[n][TopicOf[q]]
                                      /\ cur'[n][TopicOf[q]] = cur[n][TopicOf[q]]
    BY <2>1
  <2>. QED  BY <1>1, <2>2, <2>3
<1>4. HeldAfterSettled'
  <2>. SUFFICES ASSUME NEW n \in Members, NEW u \in Topics, pc'[n][u] \in Busy
                PROVE  HeldRight(n, u)'
    BY DEF HeldAfterSettled, HeldRight
  <2>1. pc'[n][u] = pc[n][u] /\ cur'[n][u] = cur[n][u]
    OBVIOUS
  <2>2. HeldRight(n, u) /\ PartOf(n, u) \in Partitions
    BY <2>1 DEF IInv, HeldAfterSettled, HeldRight, TypeOK, HeldInLog, PartOf
  <2>3. PartOf(n, u)' = PartOf(n, u) /\ OffsetOf(n, u)' = OffsetOf(n, u)
    BY <2>1 DEF PartOf, OffsetOf
  <2>. QED  BY <1>1, <2>1, <2>2, <2>3 DEF HeldRight
<1>5. NewIsIdle'
  BY DEF NewIsIdle
<1>. QED  BY <1>2, <1>3, <1>4, <1>5 DEF Core

\* A goroutine takes the record at its reader's position.
LEMMA FetchStep ==
  ASSUME IInv, NEW m \in Members, NEW t \in Topics, NEW p \in Partitions, Fetch(m, t, p)
  PROVE  Core'
<1>. DEFINE o == position[m][p]
<1>1. \A q \in Partitions : Settled(q)' = Settled(q)
  BY SettledSame DEF Fetch
<1>2. /\ UNCHANGED <<committed, life>>
      /\ pc \in [Members -> [Topics -> PCs]]
      /\ cur \in [Members -> [Topics -> (Partitions \X Nat) \cup {NoMsg}]]
      /\ position \in [Members -> [Partitions -> Nat \cup {NoOffset}]]
      /\ pc[m][t] = "fetch" /\ TopicOf[p] = t /\ o \in Nat /\ life[m] # "new"
  BY DEF Fetch, broker, member, IInv, TypeOK, MemberTypeOK, GoroutineTypeOK, NewIsIdle
<1>3. /\ pc' = [pc EXCEPT ![m][t] = "dispatch"]
      /\ cur' = [cur EXCEPT ![m][t] = <<p, o>>]
      /\ position' = [position EXCEPT ![m][p] = @ + 1]
  BY DEF Fetch, Goto
<1>4. Below(o) \subseteq Settled(p)
  <2>1. pc[m][TopicOf[p]] \notin Busy
    BY <1>2 DEF Busy
  <2>2. position[m][p] # NoOffset
    BY <1>2 DEF NoOffset
  <2>. QED  BY <2>1, <2>2 DEF IInv, PositionAfterSettled
<1>5. position'[m][p] = o + 1 /\ cur'[m][t] = <<p, o>> /\ pc'[m][t] = "dispatch"
  BY <1>2, <1>3
<1>. HIDE DEF o
<1>6. CommittedSettled' /\ SettledIsPrefix'
  BY <1>1, <1>2 DEF IInv, CommittedSettled, SettledIsPrefix
<1>7. PositionAfterSettled'
  <2>. SUFFICES ASSUME NEW n \in Members, NEW q \in Partitions, position'[n][q] # NoOffset,
                       NEW x \in Below(position'[n][q])
                PROVE  \/ x \in Settled(q)'
                       \/ /\ pc'[n][TopicOf[q]] \in Busy
                          /\ cur'[n][TopicOf[q]] = <<q, x>>
    BY DEF PositionAfterSettled
  <2>1. CASE n = m /\ q = p
    <3>0. x \in Below(o + 1) /\ o \in Nat
      BY <1>2, <1>5, <2>1
    <3>1. x \in Below(o) \/ x = o
      BY <3>0 DEF Below
    <3>. QED  BY <1>1, <1>2, <1>4, <1>5, <2>1, <3>1 DEF Busy
  <2>2. CASE ~(n = m /\ q = p)
    <3>1. position'[n][q] = position[n][q] /\ TopicOf[q] \in Topics
      BY <1>2, <1>3, <2>2, ConsumerAssumption DEF ConsumerAssumption
    <3>2. \/ x \in Settled(q)
          \/ pc[n][TopicOf[q]] \in Busy /\ cur[n][TopicOf[q]] = <<q, x>>
      BY <3>1 DEF IInv, PositionAfterSettled
    <3>3. ~(n = m /\ TopicOf[q] = t) \/ x \in Settled(q)
      BY <1>2, <3>2 DEF Busy
    <3>. QED  BY <1>1, <1>2, <1>3, <3>1, <3>2, <3>3
  <2>. QED  BY <2>1, <2>2
<1>8. HeldAfterSettled'
  <2>. SUFFICES ASSUME NEW n \in Members, NEW u \in Topics, pc'[n][u] \in Busy
                PROVE  HeldRight(n, u)'
    BY DEF HeldAfterSettled, HeldRight
  <2>1. CASE n = m /\ u = t
    <3>1. PartOf(n, u)' = p /\ OffsetOf(n, u)' = o
      BY <1>5, <2>1 DEF PartOf, OffsetOf
    <3>. QED  BY <1>1, <1>2, <1>4, <1>5, <2>1, <3>1 DEF HeldRight
  <2>2. CASE ~(n = m /\ u = t)
    <3>1. pc'[n][u] = pc[n][u] /\ cur'[n][u] = cur[n][u]
      BY <1>2, <1>3, <2>2
    <3>2. HeldRight(n, u) /\ PartOf(n, u) \in Partitions
      BY <3>1 DEF IInv, HeldAfterSettled, HeldRight, TypeOK, HeldInLog, PartOf
    <3>3. PartOf(n, u)' = PartOf(n, u) /\ OffsetOf(n, u)' = OffsetOf(n, u)
      BY <3>1 DEF PartOf, OffsetOf
    <3>. QED  BY <1>1, <3>1, <3>2, <3>3 DEF HeldRight
  <2>. QED  BY <2>1, <2>2
<1>9. NewIsIdle'
  BY <1>2, <1>3 DEF IInv, NewIsIdle
<1>. QED  BY <1>6, <1>7, <1>8, <1>9 DEF Core

LEMMA InitInv == Init => IInv
<1>. SUFFICES ASSUME Init PROVE IInv
  OBVIOUS
<1>1. TypeOK
  BY InitType
<1>2. \A p \in Partitions : Settled(p) = {} /\ committed[p] = NoOffset
  BY DEF Init, Settled
<1>3. \A m \in Members, t \in Topics : pc[m][t] = "off"
  BY DEF Init
<1>4. \A m \in Members, p \in Partitions : position[m][p] = NoOffset
  BY DEF Init
<1>. QED
  BY <1>1, <1>2, <1>3, <1>4 DEF IInv, CommittedSettled, SettledIsPrefix, PositionAfterSettled,
                                HeldAfterSettled, NewIsIdle, Busy

LEMMA NextInv == IInv /\ [GroupStep]_vars => IInv'
<1>. SUFFICES ASSUME IInv, [GroupStep]_vars PROVE Core'
  BY NextType DEF IInv, Core
<1>. USE DEF broker, member, worker, history
<1>0. TypeOK
  BY DEF IInv
<1>1. CASE Appended
  BY <1>1, QuietStep DEF Appended
<1>2. ASSUME NEW p \in Partitions, Revoke(p) PROVE Core'
  <2>1. position' = [position EXCEPT ![owner[p]][p] = NoOffset]
        /\ position \in [Members -> [Partitions -> Nat \cup {NoOffset}]]
    BY <1>0, <1>2 DEF Revoke, TypeOK, MemberTypeOK
  <2>2. \A n \in Members, q \in Partitions : position'[n][q] \in {position[n][q], NoOffset}
    BY <2>1
  <2>3. UNCHANGED <<committed, fate, pc, cur, life>>
    BY <1>2 DEF Revoke
  <2>. QED  BY <2>2, <2>3, ForgetStep DEF IInv, NewIsIdle
<1>3. ASSUME NEW m \in Members, NEW p \in Partitions, Assign(m, p) PROVE Core'
  BY <1>3, AssignStep
<1>4. ASSUME NEW m \in Members, NEW e \in Handled, Subscribe(m, e) PROVE Core'
  BY <1>4, QuietStep DEF Subscribe
<1>5. ASSUME NEW m \in Members, Start(m) PROVE Core'
  <2>1. /\ UNCHANGED <<committed, position, fate, cur>>
        /\ life \in [Members -> Lives] /\ life[m] = "new"
        /\ pc \in [Members -> [Topics -> PCs]]
        /\ life' = [life EXCEPT ![m] = "running"]
        /\ pc' = [pc EXCEPT ![m] = [t \in Topics |-> "fetch"]]
    BY <1>0, <1>5 DEF Start, TypeOK, MemberTypeOK, GoroutineTypeOK
  <2>2. \A t \in Topics : pc[m][t] \notin Busy /\ pc'[m][t] \notin Busy
    BY <2>1 DEF IInv, NewIsIdle, Busy
  <2>3. \A n \in Members, t \in Topics : n # m => pc'[n][t] = pc[n][t]
    BY <2>1
  <2>4. \A n \in Members : life'[n] = "new" => \A t \in Topics : pc'[n][t] = "off"
    BY <2>1 DEF IInv, NewIsIdle
  <2>. QED  BY <2>1, <2>2, <2>3, <2>4, ForgetStep
<1>6. ASSUME NEW m \in Members, Cancel(m) PROVE Core'
  <2>1. \A n \in Members : life'[n] = "new" => life[n] = "new"
    BY <1>0, <1>6 DEF Cancel, TypeOK, MemberTypeOK
  <2>. QED  BY <1>6, <2>1, QuietStep DEF Cancel
<1>7. ASSUME NEW m \in Members, Close(m) PROVE Core'
  BY <1>7, QuietStep DEF Close
<1>8. ASSUME NEW m \in Members, StartReturns(m) PROVE Core'
  <2>1. \A n \in Members : life'[n] = "new" => life[n] = "new"
    BY <1>0, <1>8 DEF StartReturns, TypeOK, MemberTypeOK
  <2>. QED  BY <1>8, <2>1, QuietStep DEF StartReturns
<1>9. ASSUME NEW m \in Members, Fresh(m) PROVE Core'
  <2>1. /\ UNCHANGED <<committed, fate>>
        /\ life' = [life EXCEPT ![m] = "new"]
        /\ position' = [position EXCEPT ![m] = [p \in Partitions |-> NoOffset]]
        /\ pc' = [pc EXCEPT ![m] = [t \in Topics |-> "off"]]
        /\ cur' = [cur EXCEPT ![m] = [t \in Topics |-> NoMsg]]
    BY <1>9 DEF Fresh
  <2>2. /\ life \in [Members -> Lives]
        /\ pc \in [Members -> [Topics -> PCs]]
        /\ cur \in [Members -> [Topics -> (Partitions \X Nat) \cup {NoMsg}]]
        /\ position \in [Members -> [Partitions -> Nat \cup {NoOffset}]]
    BY <1>0 DEF TypeOK, MemberTypeOK, GoroutineTypeOK
  <2>3. \A n \in Members, q \in Partitions : position'[n][q] \in {position[n][q], NoOffset}
    BY <2>1, <2>2
  <2>4. /\ \A t \in Topics : pc'[m][t] = "off"
        /\ \A p \in Partitions : position'[m][p] = NoOffset
        /\ \A n \in Members, t \in Topics : n # m => pc'[n][t] = pc[n][t] /\ cur'[n][t] = cur[n][t]
    BY <2>1, <2>2
  <2>5. \A n \in Members : life'[n] = "new" => \A t \in Topics : pc'[n][t] = "off"
    BY <2>1, <2>2, <2>4 DEF IInv, NewIsIdle
  <2>. QED  BY <2>1, <2>3, <2>4, <2>5, ForgetStep DEF Busy
<1>10. ASSUME NEW m \in Members, NEW t \in Topics, NEW p \in Partitions, Fetch(m, t, p) PROVE Core'
  BY <1>10, FetchStep
<1>11. ASSUME NEW m \in Members, NEW t \in Topics, StopConsuming(m, t) PROVE Core'
  <2>1. /\ UNCHANGED <<committed, position, fate, cur, life>>
        /\ pc \in [Members -> [Topics -> PCs]]
        /\ pc[m][t] = "fetch" /\ pc' = [pc EXCEPT ![m][t] = "done"]
    BY <1>0, <1>11 DEF StopConsuming, Goto, TypeOK, GoroutineTypeOK
  <2>2. \A n \in Members, u \in Topics : pc'[n][u] = pc[n][u] \/ (n = m /\ u = t)
    BY <2>1
  <2>3. pc[m][t] \notin Busy /\ pc'[m][t] \notin Busy
    BY <2>1 DEF Busy
  <2>4. \A n \in Members : life'[n] = "new" => \A u \in Topics : pc'[n][u] = "off"
    BY <2>1, <2>2 DEF IInv, NewIsIdle
  <2>. QED  BY <2>1, <2>2, <2>3, <2>4, ForgetStep
<1>12. ASSUME NEW m \in Members, NEW t \in Topics, RejectMalformed(m, t) PROVE Core'
  BY <1>12, MoveStep DEF RejectMalformed, ToDeadLetter, Busy
<1>13. ASSUME NEW m \in Members, NEW t \in Topics, RejectInvalid(m, t) PROVE Core'
  BY <1>13, MoveStep DEF RejectInvalid, ToDeadLetter, Busy
<1>14. ASSUME NEW m \in Members, NEW t \in Topics, BeginHandling(m, t) PROVE Core'
  <2>1. PICK x \in {"handle", "deadLetter"} : Goto(m, t, x)
    BY <1>14 DEF BeginHandling, ToDeadLetter
  <2>. QED  BY <1>14, <2>1, MoveStep DEF BeginHandling, Busy
<1>15. ASSUME NEW m \in Members, NEW t \in Topics, HandlerFails(m, t) PROVE Core'
  <2>1. pc[m][t] \in Busy /\ UNCHANGED <<committed, position, fate, cur, life>>
    BY <1>15 DEF HandlerFails, Busy
  <2>2. CASE UNCHANGED pc
    BY <2>1, <2>2, QuietStep
  <2>3. CASE Goto(m, t, "deadLetter")
    <3>1. "deadLetter" \in Busy /\ "deadLetter" \notin {"report", "commit"}
      BY DEF Busy
    <3>. QED  BY <2>1, <2>3, <3>1, MoveStep
  <2>. QED  BY <1>15, <2>2, <2>3 DEF HandlerFails, ToDeadLetter
<1>16. ASSUME NEW m \in Members, NEW t \in Topics, SkipUnhandled(m, t) PROVE Core'
  BY <1>16, SettleStep DEF SkipUnhandled, Busy, Fates
<1>17. ASSUME NEW m \in Members, NEW t \in Topics, HandlerSucceeds(m, t) PROVE Core'
  BY <1>17, SettleStep DEF HandlerSucceeds, Busy, Fates
<1>18. ASSUME NEW m \in Members, NEW t \in Topics, DeadLetter(m, t) PROVE Core'
  BY <1>18, MoveStep DEF DeadLetter, Busy
<1>22. ASSUME NEW m \in Members, NEW t \in Topics, DeadLetterReturns(m, t) PROVE Core'
  <2>1. (IF HasDeadLetter THEN "deadLettered" ELSE "dropped") \in Fates
    BY DEF Fates
  <2>2. PICK y \in {"report", "commit"} : Goto(m, t, y)
    BY <1>22 DEF DeadLetterReturns
  <2>. QED  BY <1>22, <2>1, <2>2, SettleStep DEF DeadLetterReturns, Busy
<1>23. ASSUME NEW m \in Members, NEW t \in Topics, Report(m, t) PROVE Core'
  BY <1>23, MoveStep DEF Report, Busy
<1>19. ASSUME NEW m \in Members, NEW t \in Topics, CommitApplied(m, t) PROVE Core'
  BY <1>19, CommitStep DEF CommitApplied
<1>20. ASSUME NEW m \in Members, NEW t \in Topics, CommitFails(m, t) PROVE Core'
  BY <1>20, CommitStep DEF CommitFails
<1>21. CASE UNCHANGED vars
  BY <1>21, QuietStep DEF vars
<1>. QED
  BY <1>1, <1>2, <1>3, <1>4, <1>5, <1>6, <1>7, <1>8, <1>9, <1>10, <1>11, <1>12, <1>13, <1>14,
     <1>15, <1>16, <1>17, <1>18, <1>19, <1>20, <1>21, <1>22, <1>23
     DEF GroupStep, LifeStep, Consume, GiveUp, Crash, Restart, FetchFails

\* The inductive invariant holds in every reachable state.
THEOREM Invariance == Spec => []IInv
BY InitInv, NextInv, NextIsGroupStep, PTL DEF Spec

\* consumeTopic loses no record: what lies below the group's committed offset
\* was settled, for any number of members, partitions, crashes and rebalances.
THEOREM NoRecordLost == Spec => []CommittedSettled
<1>1. IInv => CommittedSettled
  BY DEF IInv
<1>. QED  BY <1>1, Invariance, PTL

\* consumeTopic settles the records of a partition in the order of the log.
THEOREM InOrder == Spec => []SettledIsPrefix
<1>1. IInv => SettledIsPrefix
  BY DEF IInv
<1>. QED  BY <1>1, Invariance, PTL

(***************************************************************************)
(* The consumer implements AtLeastOnce.                                    *)
(***************************************************************************)
LEMMA InitPromise == Init => Promise!Init
<1>. SUFFICES ASSUME Init PROVE Promise!Init
  OBVIOUS
<1>1. \A p \in Partitions : Settled(p) = {}
  BY DEF Init, Settled
<1>2. [p \in Partitions |-> Settled(p)] = [p \in Partitions |-> {}]
  BY <1>1
<1>. QED  BY <1>2 DEF Init, Promise!Init, NoOffset, Promise!NoOffset

\* Steps the promise does not see.
LEMMA HiddenStep ==
  ASSUME UNCHANGED <<log, committed, fate>>
  PROVE  UNCHANGED Promise!vars
<1>1. \A p \in Partitions : Settled(p)' = Settled(p)
  BY SettledSame
<1>2. [p \in Partitions |-> Settled(p)]' = [p \in Partitions |-> Settled(p)]
  BY <1>1
<1>. QED  BY <1>2 DEF Promise!vars

\* A goroutine that marks its record settles it for the group.
LEMMA MarkSettles ==
  ASSUME IInv, NEW m \in Members, NEW t \in Topics, NEW f \in Fates,
         pc[m][t] \in Busy, Mark(m, t, f), UNCHANGED <<log, committed>>
  PROVE  Promise!Next
<1>. DEFINE q == PartOf(m, t)
            o == OffsetOf(m, t)
            S == [p \in Partitions |-> Settled(p)]
<1>1. \A p \in Partitions : Settled(p)' = IF p = q THEN Settled(p) \cup {o} ELSE Settled(p)
  BY SettledMark DEF IInv
<1>2. /\ q \in Partitions /\ o \in Nat /\ o < Len(log[q]) /\ Len(log[q]) \in Nat
      /\ Below(o) \subseteq Settled(q)
  <2>1. /\ cur[m][t] \in Partitions \X Nat
        /\ OffsetOf(m, t) < Len(log[PartOf(m, t)])
        /\ Below(OffsetOf(m, t)) \subseteq Settled(PartOf(m, t))
        /\ log \in [Partitions -> Seq(Messages)]
    BY DEF IInv, TypeOK, BrokerTypeOK, HeldInLog, HeldAfterSettled
  <2>. QED  BY <2>1 DEF PartOf, OffsetOf
<1>3. S' = [p \in Partitions |-> Settled(p)']
  OBVIOUS
<1>. HIDE DEF q, o
<1>4. S' = [S EXCEPT ![q] = @ \cup {o}]
  BY <1>1, <1>2, <1>3
<1>5. o \in Promise!Below(Len(log[q])) /\ Promise!Below(o) \subseteq S[q]
  BY <1>2 DEF Promise!Below, Below
<1>7. Promise!Settle(q)
  BY <1>4, <1>5 DEF Promise!Settle
<1>. QED  BY <1>2, <1>7 DEF Promise!Next

LEMMA AssignPromise ==
  ASSUME IInv, NEW m \in Members, NEW p \in Partitions, Assign(m, p)
  PROVE  [Promise!Next]_(Promise!vars)
<1>. DEFINE back == {<<o, "skippedAtStart">> : o \in Below(Len(log[p]))}
            S    == [q \in Partitions |-> Settled(q)]
<1>1. /\ UNCHANGED <<log, committed>>
      /\ fate \in [Partitions -> SUBSET (Nat \X Fates)]
  BY DEF Assign, IInv, TypeOK, HistoryTypeOK
<1>2. CASE UNCHANGED fate
  BY <1>1, <1>2, HiddenStep
<1>3. CASE committed[p] = NoOffset /\ StartAtEnd /\ fate' = [fate EXCEPT ![p] = @ \cup back]
  <2>1. \A o : <<o, "skippedAtStart">>[1] = o
    OBVIOUS
  <2>2. \A g : g \in back <=> \E o \in Below(Len(log[p])) : g = <<o, "skippedAtStart">>
    OBVIOUS
  <2>. HIDE DEF back
  <2>3. Settled(p)' = Settled(p) \cup Below(Len(log[p]))
    <3>1. \A x : x \in Settled(p)' <=> \E g \in fate'[p] : x = g[1]
      BY DEF Settled
    <3>2. \A x : x \in Settled(p) <=> \E g \in fate[p] : x = g[1]
      BY DEF Settled
    <3>3. fate'[p] = fate[p] \cup back
      BY <1>1, <1>3
    <3>4. ASSUME NEW x \in Settled(p)' PROVE x \in Settled(p) \cup Below(Len(log[p]))
      <4>1. PICK g \in fate'[p] : x = g[1]
        BY <3>1
      <4>2. CASE g \in back
        <5>1. PICK o \in Below(Len(log[p])) : g = <<o, "skippedAtStart">>
          BY <2>2, <4>2
        <5>. QED  BY <2>1, <4>1, <5>1
      <4>. QED  BY <3>2, <3>3, <4>1, <4>2
    <3>5. ASSUME NEW x \in Below(Len(log[p])) PROVE x \in Settled(p)'
      <4>1. <<x, "skippedAtStart">> \in back /\ x = <<x, "skippedAtStart">>[1]
        BY <2>1, <2>2
      <4>. QED  BY <3>1, <3>3, <4>1
    <3>6. Settled(p) \subseteq Settled(p)'
      BY <3>1, <3>2, <3>3
    <3>. QED  BY <3>4, <3>5, <3>6
  <2>4. \A q \in Partitions : q # p => Settled(q)' = Settled(q)
    BY <1>1, <1>3 DEF Settled
  <2>5. S' = [q \in Partitions |-> Settled(q)']
    OBVIOUS
  <2>6. S' = [S EXCEPT ![p] = @ \cup Below(Len(log[p]))]
    BY <2>3, <2>4, <2>5
  <2>7. Promise!SkipBacklog(p)
    BY <1>1, <1>3, <2>6 DEF Promise!SkipBacklog, Promise!NoOffset, NoOffset, Promise!Below, Below
  <2>. QED  BY <2>7 DEF Promise!Next
<1>. QED  BY <1>2, <1>3 DEF Assign

LEMMA NextPromise == IInv /\ [GroupStep]_vars => [Promise!Next]_(Promise!vars)
<1>. SUFFICES ASSUME IInv, [GroupStep]_vars PROVE [Promise!Next]_(Promise!vars)
  OBVIOUS
<1>. USE DEF broker, member, worker, history
<1>1. CASE Appended
  <2>1. [q \in Partitions |-> Settled(q)]' = [q \in Partitions |-> Settled(q)]
    <3>1. \A q \in Partitions : Settled(q)' = Settled(q)
      BY <1>1, SettledSame DEF Appended
    <3>. QED  BY <3>1
  <2>2. CASE UNCHANGED log
    BY <1>1, <2>1, <2>2 DEF Appended, Promise!vars
  <2>3. CASE \E p \in Partitions : Promise!Appends(p)
    BY <1>1, <2>1, <2>3 DEF Appended, Promise!Append1, Promise!Next
  <2>. QED  BY <1>1, <2>2, <2>3 DEF Appended, Grows, Promise!Appends
<1>2. ASSUME NEW m \in Members, NEW p \in Partitions, Assign(m, p) PROVE [Promise!Next]_(Promise!vars)
  BY <1>2, AssignPromise
<1>3. ASSUME NEW m \in Members, NEW t \in Topics, SkipUnhandled(m, t) PROVE Promise!Next
  BY <1>3, MarkSettles DEF SkipUnhandled, Busy, Fates
<1>4. ASSUME NEW m \in Members, NEW t \in Topics, HandlerSucceeds(m, t) PROVE Promise!Next
  BY <1>4, MarkSettles DEF HandlerSucceeds, Busy, Fates
<1>5. ASSUME NEW m \in Members, NEW t \in Topics, DeadLetterReturns(m, t) PROVE Promise!Next
  <2>1. (IF HasDeadLetter THEN "deadLettered" ELSE "dropped") \in Fates
    BY DEF Fates
  <2>. QED  BY <1>5, <2>1, MarkSettles DEF DeadLetterReturns, Busy
<1>12. ASSUME NEW m \in Members, NEW t \in Topics, DeadLetter(m, t)
       PROVE  UNCHANGED <<log, committed, fate>>
  BY <1>12, Zenon DEF DeadLetter
<1>6. ASSUME NEW m \in Members, NEW t \in Topics, CommitApplied(m, t) PROVE Promise!Next
  <2>. DEFINE q == PartOf(m, t)
              o == OffsetOf(m, t)
              S == [p \in Partitions |-> Settled(p)]
  <2>1. S' = S
    <3>1. \A p \in Partitions : Settled(p)' = Settled(p)
      BY <1>6, SettledSame DEF CommitApplied, Committing
    <3>. QED  BY <3>1
  <2>2. pc[m][t] = "commit" /\ UNCHANGED log /\ committed' = [committed EXCEPT ![q] = o + 1]
    BY <1>6 DEF CommitApplied, Committing
  <2>3. q \in Partitions /\ o \in Settled(q) /\ Below(o) \subseteq Settled(q)
    BY <2>2 DEF IInv, TypeOK, HeldInLog, HeldAfterSettled, Busy, PartOf, OffsetOf
  <2>. HIDE DEF q, o
  <2>4. o \in S[q] /\ Promise!Below(o) \subseteq S[q]
    BY <2>3 DEF Below, Promise!Below
  <2>5. Promise!Commit(q)
    BY <2>1, <2>2, <2>4 DEF Promise!Commit
  <2>. QED  BY <2>3, <2>5 DEF Promise!Next
<1>7. CASE UNCHANGED <<log, committed, fate>>
  BY <1>7, HiddenStep
<1>8. CASE LifeStep
  BY <1>7, <1>8 DEF LifeStep, Subscribe, Start, Cancel, Close, StartReturns, Crash, Restart, Fresh
<1>9. ASSUME NEW m \in Members, NEW t \in Topics, Consume(m, t),
             ~SkipUnhandled(m, t), ~HandlerSucceeds(m, t), ~CommitApplied(m, t)
      PROVE  UNCHANGED <<log, committed, fate>>
  BY <1>9 DEF Consume, Fetch, FetchFails, StopConsuming, RejectMalformed, RejectInvalid,
              BeginHandling, HandlerFails, Report, CommitFails, Committing, vars
<1>10. ASSUME NEW p \in Partitions, Revoke(p) PROVE UNCHANGED <<log, committed, fate>>
  BY <1>10 DEF Revoke
<1>11. CASE UNCHANGED vars
  BY <1>7, <1>11 DEF vars
<1>. QED
  BY <1>1, <1>2, <1>3, <1>4, <1>5, <1>6, <1>7, <1>8, <1>9, <1>10, <1>11, <1>12
     DEF GroupStep, GiveUp

\* Every behaviour of the consumer group is one the promise allows.
THEOREM Refinement == Spec => PromiseKept
BY InitPromise, InitInv, NextInv, NextIsGroupStep, NextPromise, PTL DEF Spec, PromiseKept, Promise!Spec

(***************************************************************************)
(* Counting.                                                               *)
(***************************************************************************)
LEMMA Fewer ==
  ASSUME NEW S, IsFiniteSet(S), NEW T \in SUBSET S
  PROVE  /\ IsFiniteSet(T) /\ Cardinality(T) \in Nat /\ Cardinality(S) \in Nat
         /\ Cardinality(T) <= Cardinality(S)
BY FS_Subset, FS_CardinalityType

LEMMA OneMore ==
  ASSUME NEW S, IsFiniteSet(S), NEW x, NEW T \in SUBSET (S \cup {x})
  PROVE  /\ IsFiniteSet(T) /\ Cardinality(T) \in Nat /\ Cardinality(S) \in Nat
         /\ Cardinality(T) <= Cardinality(S) + 1
<1>1. /\ IsFiniteSet(S \cup {x}) /\ Cardinality(S) \in Nat
      /\ Cardinality(S \cup {x}) <= Cardinality(S) + 1
  <2>1. Cardinality(S) \in Nat
    BY FS_CardinalityType
  <2>2. /\ IsFiniteSet(S \cup {x})
        /\ Cardinality(S \cup {x}) = IF x \in S THEN Cardinality(S) ELSE Cardinality(S) + 1
    BY FS_AddElement
  <2>. QED  BY <2>1, <2>2
<1>2. /\ IsFiniteSet(T) /\ Cardinality(T) \in Nat /\ Cardinality(S \cup {x}) \in Nat
      /\ Cardinality(T) <= Cardinality(S \cup {x})
  BY <1>1, Fewer
<1>. QED  BY <1>1, <1>2

LEMMA OneLess ==
  ASSUME NEW S, IsFiniteSet(S), NEW x \in S, NEW T \in SUBSET (S \ {x})
  PROVE  /\ IsFiniteSet(T) /\ Cardinality(T) \in Nat /\ Cardinality(S) \in Nat
         /\ Cardinality(T) + 1 <= Cardinality(S)
<1>1. /\ IsFiniteSet(S \ {x}) /\ Cardinality(S) \in Nat
      /\ Cardinality(S \ {x}) = Cardinality(S) - 1
  BY FS_RemoveElement, FS_CardinalityType
<1>2. /\ IsFiniteSet(T) /\ Cardinality(T) \in Nat
      /\ Cardinality(T) <= Cardinality(S \ {x})
  BY <1>1, Fewer
<1>. QED  BY <1>1, <1>2

(***************************************************************************)
(* What a step does to the records and their fates.                        *)
(***************************************************************************)
Undecided == {"dispatch", "handle", "deadLetter"}

\* No goroutine takes a record up.
Waits ==
  /\ Grows
  /\ \A n \in Members, u \in Topics :
       pc'[n][u] \in Undecided => pc[n][u] \in Undecided /\ cur'[n][u] = cur[n][u]

\* Nor does one give its record a fate.
Idles == Waits /\ UNCHANGED fate

\* The goroutine decides on its record.
Decides(m, t) ==
  /\ pc[m][t] \in Undecided /\ Decide(m, t)
  /\ \E x \in {"report", "commit", "sending"} : Goto(m, t, x)
  /\ UNCHANGED <<log, deliveries, cur>>

\* The goroutine gives its record a fate: the function it called has returned, or
\* there was none to call.
Settles(m, t, f) ==
  /\ pc[m][t] \in {"dispatch", "handle", "sending"} /\ Mark(m, t, f)
  /\ Decides(m, t) \/ Waits
  /\ f \in {"deadLettered", "dropped"} =>
       /\ pc[m][t] = "sending"
       /\ reason[m][t] # "malformed" => Goto(m, t, "report") /\ UNCHANGED reason
  /\ UNCHANGED <<log, deliveries, owner, life, closed, position, cur, health, disruptions>>

\* DeadLetterFunc is called.
Calls(m, t) ==
  /\ pc[m][t] = "deadLetter" /\ Goto(m, t, "sending") /\ Decides(m, t)
  /\ UNCHANGED <<log, fate, deliveries, owner, life, closed, position, cur, health, reason,
                 disruptions>>

\* A goroutine's step with its record in hand.
LEMMA WorkCases ==
  ASSUME TypeOK, NEW m \in Members, NEW t \in Topics, Consume(m, t) \/ GiveUp(m, t)
  PROVE  \/ \E f \in Fates : Settles(m, t, f)
         \/ Calls(m, t)
         \/ \E p \in Partitions : Fetch(m, t, p)
         \/ /\ Idles /\ UNCHANGED <<owner, life, closed, position, disruptions>>
            /\ UNCHANGED health \/ Report(m, t)
<1>. USE DEF broker, member, worker, history, vars
<1>0. pc \in [Members -> [Topics -> PCs]] /\ cur \in [Members -> [Topics -> (Partitions \X Nat) \cup {NoMsg}]]
  BY DEF TypeOK, GoroutineTypeOK
<1>4. ASSUME pc[m][t] \in Undecided \/ ~(\E x \in Undecided : Goto(m, t, x)),
             UNCHANGED pc \/ \E x : Goto(m, t, x), UNCHANGED cur
      PROVE  \A n \in Members, u \in Topics :
               pc'[n][u] \in Undecided => pc[n][u] \in Undecided /\ cur'[n][u] = cur[n][u]
  <2>1. CASE UNCHANGED pc
    BY <1>4, <2>1
  <2>2. ASSUME NEW x, Goto(m, t, x)
        PROVE  \A n \in Members, u \in Topics :
                 pc'[n][u] \in Undecided => pc[n][u] \in Undecided /\ cur'[n][u] = cur[n][u]
    <3>1. \A n \in Members, u \in Topics : IF n = m /\ u = t THEN pc'[n][u] = x ELSE pc'[n][u] = pc[n][u]
      BY <1>0, <2>2 DEF Goto
    <3>. QED  BY <1>4, <2>2, <3>1
  <2>. QED  BY <1>4, <2>1, <2>2
<1>9. ASSUME NEW x, NEW y, Goto(m, t, x), Goto(m, t, y) PROVE x = y
  <2>1. pc'[m][t] = x /\ pc'[m][t] = y
    BY <1>0, <1>9 DEF Goto
  <2>. QED  BY <2>1
<1>1. CASE SkipUnhandled(m, t)
  <2>1. Decides(m, t)
    BY <1>1 DEF SkipUnhandled, Decides, Undecided
  <2>2. /\ pc[m][t] = "dispatch" /\ Mark(m, t, "unhandled")
        /\ UNCHANGED <<log, deliveries, owner, life, closed, position, cur, health, disruptions>>
    BY <1>1, Zenon DEF SkipUnhandled
  <2>3. Settles(m, t, "unhandled")
    BY <2>1, <2>2 DEF Settles
  <2>. QED  BY <2>3 DEF Fates
<1>2. CASE HandlerSucceeds(m, t)
  <2>1. Decides(m, t)
    BY <1>2 DEF HandlerSucceeds, Decides, Undecided
  <2>2. /\ pc[m][t] = "handle" /\ Mark(m, t, "handled")
        /\ UNCHANGED <<log, deliveries, owner, life, closed, position, cur, health, disruptions>>
    BY <1>2, Zenon DEF HandlerSucceeds
  <2>3. Settles(m, t, "handled")
    BY <2>1, <2>2 DEF Settles
  <2>. QED  BY <2>3 DEF Fates
<1>3. CASE DeadLetter(m, t)
  <2>1. Decides(m, t)
    BY <1>3 DEF DeadLetter, Decides, Undecided
  <2>2. /\ pc[m][t] = "deadLetter" /\ Goto(m, t, "sending")
        /\ UNCHANGED <<log, fate, deliveries, owner, life, closed, position, cur, health, reason,
                       disruptions>>
    BY <1>3, Zenon DEF DeadLetter
  <2>. QED  BY <2>1, <2>2 DEF Calls
<1>8. CASE DeadLetterReturns(m, t)
  <2>. DEFINE f == IF HasDeadLetter THEN "deadLettered" ELSE "dropped"
  <2>1. f \in Fates
    BY DEF Fates
  <2>2. /\ pc[m][t] = "sending" /\ Mark(m, t, f)
        /\ UNCHANGED <<log, deliveries, verdicts, owner, life, closed, position, cur, health, disruptions>>
        /\ reason[m][t] # "malformed" => Goto(m, t, "report") /\ UNCHANGED reason
    BY <1>8, Zenon DEF DeadLetterReturns
  <2>3. PICK x \in {"report", "commit"} : Goto(m, t, x)
    BY <1>8 DEF DeadLetterReturns
  <2>. HIDE DEF f
  <2>4. ~(\E y \in Undecided : Goto(m, t, y))
    BY <1>9, <2>3 DEF Undecided
  <2>5. Waits
    BY <1>4, <2>2, <2>3, <2>4 DEF Waits, Grows
  <2>6. Settles(m, t, f)
    BY <2>2, <2>5 DEF Settles
  <2>. QED  BY <2>1, <2>6
<1>5. CASE \/ RejectMalformed(m, t) \/ RejectInvalid(m, t) \/ BeginHandling(m, t)
           \/ HandlerFails(m, t)
  <2>1. pc[m][t] \in Undecided
    BY <1>5 DEF RejectMalformed, RejectInvalid, BeginHandling, HandlerFails, Undecided
  <2>2. UNCHANGED pc \/ \E x : Goto(m, t, x)
    BY <1>5, Zenon DEF RejectMalformed, RejectInvalid, BeginHandling, HandlerFails, ToDeadLetter
  <2>3. UNCHANGED <<log, deliveries, verdicts, fate, cur, owner, life, closed, position, health, disruptions>>
    BY <1>5, Zenon DEF RejectMalformed, RejectInvalid, BeginHandling, HandlerFails
  <2>. QED  BY <1>4, <2>1, <2>2, <2>3 DEF Idles, Waits, Grows
<1>6. CASE StopConsuming(m, t) \/ CommitApplied(m, t) \/ CommitFails(m, t)
  <2>1. PICK x \in {"fetch", "done"} : Goto(m, t, x)
    BY <1>6 DEF StopConsuming, CommitApplied, CommitFails, Committing
  <2>2. UNCHANGED <<log, deliveries, verdicts, fate, owner, life, closed, position, health, disruptions>>
    BY <1>6, Zenon DEF StopConsuming, CommitApplied, CommitFails, Committing
  <2>3. UNCHANGED cur \/ cur' = [cur EXCEPT ![m][t] = NoMsg]
    BY <1>6, Zenon DEF StopConsuming, CommitApplied, CommitFails, Committing
  <2>4. \A n \in Members, u \in Topics :
          pc'[n][u] \in Undecided => pc[n][u] \in Undecided /\ cur'[n][u] = cur[n][u]
    BY <1>0, <2>1, <2>3 DEF Goto, Undecided
  <2>. QED  BY <2>2, <2>4 DEF Idles, Waits, Grows
<1>7. CASE FetchFails(m, t)
  BY <1>7 DEF FetchFails, Idles, Waits, Grows
<1>10. CASE Report(m, t)
  <2>1. /\ Goto(m, t, "commit")
        /\ UNCHANGED <<log, deliveries, verdicts, fate, cur, owner, life, closed, position, disruptions>>
    BY <1>10, Zenon DEF Report
  <2>2. ~(\E y \in Undecided : Goto(m, t, y))
    BY <1>9, <2>1 DEF Undecided
  <2>. QED  BY <1>4, <1>10, <2>1, <2>2 DEF Idles, Waits, Grows
<1>. QED  BY <1>1, <1>2, <1>3, <1>5, <1>6, <1>7, <1>8, <1>10 DEF Consume, GiveUp

\* The other steps, but for Assign.
LEMMA LifeCases ==
  ASSUME IInv,
         Appended \/ (\E p \in Partitions : Revoke(p)) \/ LifeStep \/ UNCHANGED vars
  PROVE  Idles
<1>. USE DEF broker, member, worker, history, vars
<1>0. /\ pc \in [Members -> [Topics -> PCs]] /\ life \in [Members -> Lives]
      /\ cur \in [Members -> [Topics -> (Partitions \X Nat) \cup {NoMsg}]]
  BY DEF IInv, TypeOK, GoroutineTypeOK, MemberTypeOK
<1>1. CASE Appended \/ (\E p \in Partitions : Revoke(p)) \/ UNCHANGED vars
  BY <1>1, Zenon DEF Appended, Revoke, Idles, Waits, Grows
<1>2. ASSUME NEW m \in Members, NEW e \in Handled,
             Subscribe(m, e) \/ Cancel(m) \/ Close(m) \/ StartReturns(m)
      PROVE  Idles
  BY <1>2, Zenon DEF Subscribe, Cancel, Close, StartReturns, Idles, Waits, Grows
<1>2a. ASSUME NEW m \in Members, Cancel(m) \/ Close(m) \/ StartReturns(m) PROVE Idles
  BY <1>2a, Zenon DEF Cancel, Close, StartReturns, Idles, Waits, Grows
<1>3. ASSUME NEW m \in Members, NEW x \in {"fetch", "off"},
             pc' = [pc EXCEPT ![m] = [t \in Topics |-> x]],
             \A n \in Members \ {m} : cur'[n] = cur[n],
             UNCHANGED <<log, deliveries, verdicts, fate>>
      PROVE  Idles
  <2>1. ASSUME NEW n \in Members, NEW u \in Topics, pc'[n][u] \in Undecided
        PROVE  pc[n][u] \in Undecided /\ cur'[n][u] = cur[n][u]
    BY <1>0, <1>3, <2>1 DEF Undecided
  <2>. QED  BY <1>3, <2>1 DEF Idles, Waits, Grows
<1>4. ASSUME NEW m \in Members, Start(m) PROVE Idles
  BY <1>3, <1>4 DEF Start
<1>5. ASSUME NEW m \in Members, Fresh(m) PROVE Idles
  <2>1. \A n \in Members \ {m} : cur'[n] = cur[n]
    BY <1>0, <1>5 DEF Fresh
  <2>. QED  BY <1>3, <1>5, <2>1 DEF Fresh
<1>. QED  BY <1>1, <1>2, <1>2a, <1>4, <1>5 DEF LifeStep, Crash, Restart

(***************************************************************************)
(* One delivery, one fate.                                                 *)
(***************************************************************************)
\* The members that may still decide on the record.
Holders(p, o) ==
  {m \in Members : pc[m][TopicOf[p]] \in Undecided /\ cur[m][TopicOf[p]] = <<p, o>>}

\* Every decision, and every goroutine that may take one, has its delivery.
Counted(p, o) ==
  /\ IsFiniteSet(Holders(p, o))
  /\ Decided(p, o) + Cardinality(Holders(p, o)) <= Delivered(p, o)

VerdictsCounted == \A p \in Partitions : \A o \in Nat : Counted(p, o)

LEMMA DeliveredIsNat ==
  ASSUME TypeOK, NEW p \in Partitions, NEW o \in Nat
  PROVE  Delivered(p, o) \in Nat /\ Decided(p, o) \in Nat
BY DEF TypeOK, HistoryTypeOK, Delivered, Decided

LEMMA CountedKeeps ==
  ASSUME TypeOK, TypeOK', NEW p \in Partitions, NEW o \in Nat, Counted(p, o),
         Holders(p, o)' \subseteq Holders(p, o),
         Delivered(p, o)' = Delivered(p, o), Decided(p, o)' = Decided(p, o)
  PROVE  Counted(p, o)'
<1>1. /\ IsFiniteSet(Holders(p, o)') /\ Cardinality(Holders(p, o)') \in Nat
      /\ Cardinality(Holders(p, o)') <= Cardinality(Holders(p, o)) /\ Cardinality(Holders(p, o)) \in Nat
  BY Fewer DEF Counted
<1>2. Delivered(p, o) \in Nat /\ Decided(p, o) \in Nat
  BY DeliveredIsNat
<1>. QED  BY <1>1, <1>2 DEF Counted

LEMMA SameDeliveries ==
  ASSUME TypeOK, Grows
  PROVE  \A p \in Partitions : \A o \in Nat :
           Delivered(p, o)' = Delivered(p, o) /\ Decided(p, o)' = Decided(p, o)
BY GrowsFits DEF TypeOK, BrokerTypeOK, HistoryTypeOK, Fits

LEMMA WaitCounts == ASSUME TypeOK, TypeOK', VerdictsCounted, Waits PROVE VerdictsCounted'
<1>. SUFFICES ASSUME NEW p \in Partitions, NEW o \in Nat PROVE Counted(p, o)'
  BY DEF VerdictsCounted
<1>1. Delivered(p, o)' = Delivered(p, o) /\ Decided(p, o)' = Decided(p, o)
  BY SameDeliveries DEF Waits
<1>2. Holders(p, o)' \subseteq Holders(p, o)
  BY ConsumerAssumption DEF Holders, Waits
<1>. QED  BY <1>1, <1>2, CountedKeeps DEF VerdictsCounted

\* What a decision changes.
LEMMA DecideFacts ==
  ASSUME IInv, NEW m \in Members, NEW t \in Topics, Decides(m, t)
  PROVE  /\ cur[m][t] = <<PartOf(m, t), OffsetOf(m, t)>>
         /\ PartOf(m, t) \in Partitions /\ TopicOf[PartOf(m, t)] = t /\ OffsetOf(m, t) \in Nat
         /\ \A p \in Partitions : \A o \in Nat :
              Decided(p, o)' = IF p = PartOf(m, t) /\ o = OffsetOf(m, t) THEN Decided(p, o) + 1
                                                                       ELSE Decided(p, o)
<1>. DEFINE q == PartOf(m, t)
            i == OffsetOf(m, t)
<1>1. /\ TypeOK /\ pc[m][t] \in Undecided /\ pc[m][t] \in Busy
  BY DEF Decides, Undecided, Busy, IInv
<1>2. /\ cur[m][t] = <<q, i>> /\ q \in Partitions /\ TopicOf[q] = t /\ i \in Nat
      /\ i < Len(verdicts[q]) /\ verdicts \in [Partitions -> Seq(Nat)]
  <2>1. /\ cur[m][t] \in Partitions \X Nat /\ OffsetOf(m, t) < Len(log[PartOf(m, t)])
        /\ TopicOf[PartOf(m, t)] = t
    BY <1>1 DEF IInv, TypeOK, HeldInLog, HeldAfterSettled
  <2>2. /\ \A r \in Partitions : Len(verdicts[r]) = Len(log[r])
        /\ verdicts \in [Partitions -> Seq(Nat)]
    BY <1>1 DEF TypeOK, HistoryTypeOK
  <2>. QED  BY <2>1, <2>2 DEF PartOf, OffsetOf
<1>3. verdicts' = [verdicts EXCEPT ![q] = [verdicts[q] EXCEPT ![i + 1] = verdicts[q][i + 1] + 1]]
  BY DEF Decides, Decide
<1>. HIDE DEF q, i
<1>4. ASSUME NEW p \in Partitions, NEW o \in Nat
      PROVE  Decided(p, o)' = IF p = q /\ o = i THEN Decided(p, o) + 1 ELSE Decided(p, o)
  <2>1. CASE p = q
    <3>1. verdicts[q] \in Seq(Nat) /\ i + 1 \in 1 .. Len(verdicts[q]) /\ Len(verdicts[q]) \in Nat
      BY <1>2
    <3>2. verdicts'[q] = [verdicts[q] EXCEPT ![i + 1] = verdicts[q][i + 1] + 1]
      BY <1>2, <1>3
    <3>3. /\ DOMAIN verdicts'[q] = DOMAIN verdicts[q]
          /\ \A j \in DOMAIN verdicts[q] :
               verdicts'[q][j] = IF j = i + 1 THEN verdicts[q][j] + 1 ELSE verdicts[q][j]
      BY <3>1, <3>2
    <3>. QED  BY <1>2, <2>1, <3>1, <3>3 DEF Decided
  <2>2. CASE p # q
    BY <1>2, <1>3, <2>2 DEF Decided
  <2>. QED  BY <2>1, <2>2
<1>. QED  BY <1>2, <1>4 DEF q, i

LEMMA DecideCounts ==
  ASSUME IInv, TypeOK', VerdictsCounted, NEW m \in Members, NEW t \in Topics, Decides(m, t)
  PROVE  VerdictsCounted'
<1>. SUFFICES ASSUME NEW p \in Partitions, NEW o \in Nat PROVE Counted(p, o)'
  BY DEF VerdictsCounted
<1>. DEFINE q == PartOf(m, t)
            i == OffsetOf(m, t)
<1>1. /\ TypeOK /\ pc[m][t] \in Undecided /\ pc \in [Members -> [Topics -> PCs]]
  BY DEF Decides, IInv, TypeOK, GoroutineTypeOK
<1>2. /\ cur[m][t] = <<q, i>> /\ q \in Partitions /\ TopicOf[q] = t /\ i \in Nat
      /\ Decided(p, o)' = IF p = q /\ o = i THEN Decided(p, o) + 1 ELSE Decided(p, o)
  BY DecideFacts
<1>3. PICK x \in {"report", "commit", "sending"} :
        pc' = [pc EXCEPT ![m][t] = x] /\ UNCHANGED <<cur, deliveries>>
  BY DEF Decides, Goto
<1>. HIDE DEF q, i
<1>4. Delivered(p, o)' = Delivered(p, o)
  BY <1>3 DEF Delivered
<1>5. Holders(p, o)' \subseteq Holders(p, o)
  BY <1>1, <1>3, ConsumerAssumption DEF Holders, Undecided
<1>6. CASE p = q /\ o = i
  <2>1. m \in Holders(p, o) /\ m \notin Holders(p, o)'
    BY <1>1, <1>2, <1>3, <1>6 DEF Holders, Undecided
  <2>2. Counted(p, o)
    BY DEF VerdictsCounted
  <2>3. /\ IsFiniteSet(Holders(p, o)') /\ Cardinality(Holders(p, o)') \in Nat
        /\ Cardinality(Holders(p, o)) \in Nat
        /\ Cardinality(Holders(p, o)') + 1 <= Cardinality(Holders(p, o))
    <3>1. Holders(p, o)' \subseteq Holders(p, o) \ {m}
      BY <1>5, <2>1
    <3>. QED  BY <2>1, <2>2, <3>1, OneLess DEF Counted
  <2>4. Delivered(p, o) \in Nat /\ Decided(p, o) \in Nat /\ Decided(p, o)' = Decided(p, o) + 1
    BY <1>1, <1>2, <1>6, DeliveredIsNat
  <2>. QED  BY <1>4, <2>2, <2>3, <2>4 DEF Counted
<1>7. CASE ~(p = q /\ o = i)
  BY <1>1, <1>2, <1>4, <1>5, <1>7, CountedKeeps DEF VerdictsCounted
<1>. QED  BY <1>6, <1>7

\* What a fetch changes.
LEMMA FetchFacts ==
  ASSUME TypeOK, NEW m \in Members, NEW t \in Topics, NEW q \in Partitions, Fetch(m, t, q)
  PROVE  /\ position[m][q] \in Nat /\ TopicOf[q] = t /\ pc[m][t] = "fetch"
         /\ pc' = [pc EXCEPT ![m][t] = "dispatch"]
         /\ cur' = [cur EXCEPT ![m][t] = <<q, position[m][q]>>]
         /\ position' = [position EXCEPT ![m][q] = position[m][q] + 1]
         /\ UNCHANGED <<log, owner, life, closed, health, fate, verdicts, disruptions>>
         /\ \A p \in Partitions : \A o \in Nat :
              Delivered(p, o)' = IF p = q /\ o = position[m][q] THEN Delivered(p, o) + 1
                                                              ELSE Delivered(p, o)
<1>. DEFINE i == position[m][q]
<1>1. /\ i \in Nat /\ i < Len(log[q]) /\ Len(deliveries[q]) = Len(log[q])
      /\ deliveries \in [Partitions -> Seq(Nat)] /\ deliveries[q] \in Seq(Nat)
      /\ position \in [Members -> [Partitions -> Nat \cup {NoOffset}]]
      /\ log[q] \in Seq(Messages)
  BY DEF TypeOK, BrokerTypeOK, MemberTypeOK, HistoryTypeOK, Fetch
<1>2. /\ TopicOf[q] = t /\ pc[m][t] = "fetch"
      /\ pc' = [pc EXCEPT ![m][t] = "dispatch"]
      /\ cur' = [cur EXCEPT ![m][t] = <<q, i>>]
      /\ position' = [position EXCEPT ![m][q] = @ + 1]
      /\ deliveries' = [deliveries EXCEPT ![q][i + 1] = @ + 1]
      /\ UNCHANGED <<log, owner, life, closed, health, fate, verdicts, disruptions>>
  BY DEF Fetch, Goto, broker, member
<1>. HIDE DEF i
<1>3. i + 1 \in 1 .. Len(deliveries[q]) /\ Len(deliveries[q]) \in Nat
  BY <1>1
<1>4. ASSUME NEW p \in Partitions, NEW o \in Nat
      PROVE  Delivered(p, o)' = IF p = q /\ o = i THEN Delivered(p, o) + 1 ELSE Delivered(p, o)
  <2>1. CASE p = q
    <3>1. deliveries'[q] = [deliveries[q] EXCEPT ![i + 1] = @ + 1]
      BY <1>1, <1>2
    <3>2. /\ DOMAIN deliveries'[q] = DOMAIN deliveries[q]
          /\ \A j \in DOMAIN deliveries[q] :
               deliveries'[q][j] = IF j = i + 1 THEN deliveries[q][j] + 1 ELSE deliveries[q][j]
      BY <1>1, <1>3, <3>1
    <3>. QED  BY <1>1, <1>3, <2>1, <3>2 DEF Delivered
  <2>2. CASE p # q
    BY <1>1, <1>2, <2>2 DEF Delivered
  <2>. QED  BY <2>1, <2>2
<1>5. position' = [position EXCEPT ![m][q] = i + 1]
  BY <1>1, <1>2 DEF i
<1>. QED  BY <1>1, <1>2, <1>4, <1>5 DEF i

LEMMA FetchCounts ==
  ASSUME TypeOK, TypeOK', VerdictsCounted, NEW m \in Members, NEW t \in Topics, NEW q \in Partitions,
         Fetch(m, t, q)
  PROVE  VerdictsCounted'
<1>. SUFFICES ASSUME NEW p \in Partitions, NEW o \in Nat PROVE Counted(p, o)'
  BY DEF VerdictsCounted
<1>. DEFINE i == position[m][q]
<1>1. /\ i \in Nat /\ TopicOf[q] = t
      /\ pc' = [pc EXCEPT ![m][t] = "dispatch"] /\ cur' = [cur EXCEPT ![m][t] = <<q, i>>]
      /\ UNCHANGED verdicts
      /\ Delivered(p, o)' = IF p = q /\ o = i THEN Delivered(p, o) + 1 ELSE Delivered(p, o)
  BY FetchFacts
<1>2. /\ pc \in [Members -> [Topics -> PCs]]
      /\ cur \in [Members -> [Topics -> (Partitions \X Nat) \cup {NoMsg}]]
  BY DEF TypeOK, GoroutineTypeOK
<1>. HIDE DEF i
<1>3. Decided(p, o)' = Decided(p, o)
  BY <1>1 DEF Decided
<1>4. Counted(p, o)
  BY DEF VerdictsCounted
<1>5. CASE p = q /\ o = i
  <2>1. Holders(p, o)' \subseteq Holders(p, o) \cup {m}
    BY <1>1, <1>2, <1>5, ConsumerAssumption DEF Holders
  <2>2. /\ IsFiniteSet(Holders(p, o)') /\ Cardinality(Holders(p, o)') \in Nat
        /\ Cardinality(Holders(p, o)) \in Nat
        /\ Cardinality(Holders(p, o)') <= Cardinality(Holders(p, o)) + 1
    BY <1>4, <2>1, OneMore DEF Counted
  <2>3. Decided(p, o) \in Nat /\ Delivered(p, o) \in Nat
    BY DeliveredIsNat
  <2>. QED  BY <1>1, <1>3, <1>4, <1>5, <2>2, <2>3 DEF Counted
<1>6. CASE ~(p = q /\ o = i)
  <2>1. Holders(p, o)' \subseteq Holders(p, o)
    BY <1>1, <1>2, <1>6, ConsumerAssumption DEF Holders
  <2>. QED  BY <1>1, <1>3, <1>4, <1>6, <2>1, CountedKeeps
<1>. QED  BY <1>5, <1>6

LEMMA CountInv == IInv /\ VerdictsCounted /\ [GroupStep]_vars => VerdictsCounted'
<1>. SUFFICES ASSUME IInv, VerdictsCounted, [GroupStep]_vars PROVE VerdictsCounted'
  OBVIOUS
<1>1. TypeOK /\ TypeOK'
  BY NextType DEF IInv
<1>2. ASSUME NEW m \in Members, NEW t \in Topics, Consume(m, t) \/ GiveUp(m, t)
      PROVE  VerdictsCounted'
  <2>1. Decides(m, t) \/ Waits \/ \E p \in Partitions : Fetch(m, t, p)
    BY <1>1, <1>2, WorkCases, Zenon DEF Settles, Calls, Idles
  <2>. QED  BY <1>1, <2>1, DecideCounts, FetchCounts, WaitCounts
<1>3. ASSUME NEW m \in Members, NEW p \in Partitions, Assign(m, p) PROVE VerdictsCounted'
  <2>1. Waits
    BY <1>3, Zenon DEF Assign, worker, Waits, Grows
  <2>. QED  BY <1>1, <2>1, WaitCounts
<1>4. CASE Appended \/ (\E p \in Partitions : Revoke(p)) \/ LifeStep \/ UNCHANGED vars
  BY <1>1, <1>4, LifeCases, WaitCounts DEF Idles
<1>. QED  BY <1>2, <1>3, <1>4 DEF GroupStep

LEMMA InitCounts == Init => VerdictsCounted
<1>. SUFFICES ASSUME Init, NEW p \in Partitions, NEW o \in Nat PROVE Counted(p, o)
  BY DEF VerdictsCounted
<1>1. Decided(p, o) = 0 /\ Holders(p, o) = {} /\ Delivered(p, o) = 0
  BY ConsumerAssumption DEF Init, Decided, Holders, Delivered, Undecided
<1>. QED  BY <1>1, FS_EmptySet DEF Counted

LEMMA VerdictsFollow == IInv /\ VerdictsCounted => OneFatePerDelivery
<1>. SUFFICES ASSUME IInv, VerdictsCounted, NEW p \in Partitions, NEW i \in DOMAIN verdicts[p]
              PROVE  verdicts[p][i] <= deliveries[p][i]
  BY DEF OneFatePerDelivery
<1>1. /\ i \in Nat /\ i - 1 \in Nat /\ (i - 1) + 1 = i /\ i \in DOMAIN deliveries[p]
      /\ verdicts[p][i] \in Nat /\ deliveries[p][i] \in Nat
  BY DEF IInv, TypeOK, HistoryTypeOK, BrokerTypeOK
<1>2. PICK o \in Nat : o = i - 1
  BY <1>1
<1>3. Counted(p, o) /\ Delivered(p, o) = deliveries[p][i] /\ Decided(p, o) = verdicts[p][i]
  BY <1>1, <1>2 DEF VerdictsCounted, Delivered, Decided
<1>4. Cardinality(Holders(p, o)) \in Nat
  BY <1>3, FS_CardinalityType DEF Counted
<1>. QED  BY <1>1, <1>3, <1>4 DEF Counted

\* One delivery of a record ends in one decision at most, whatever fails, crashes
\* or is taken away: its handler succeeds once, or DeadLetterFunc is called once,
\* or the record is passed over.
THEOREM FateIsUnique == Spec => []OneFatePerDelivery
<1>1. Init => IInv /\ VerdictsCounted
  BY InitInv, InitCounts
<1>2. IInv /\ VerdictsCounted /\ [Next]_vars => IInv' /\ VerdictsCounted'
  BY NextIsGroupStep, NextInv, CountInv
<1>. QED  BY <1>1, <1>2, VerdictsFollow, PTL DEF Spec

(***************************************************************************)
(* What pays for a delivery.                                               *)
(***************************************************************************)
\* The members whose reader will return the record if nothing happens to it.
Readers(p, o) == {m \in Members : position[m][p] # NoOffset /\ position[m][p] <= o}

\* Those that will give up what they own when they are started anew.
Leaving == {m \in Members : life[m] \in {"cancelled", "stopped"} /\ ~closed[m]}

Unowned(p) == IF owner[p] = Nobody THEN 1 ELSE 0

\* Deliveries made and deliveries to come have been paid for: one is free and
\* every disruption buys one.
Paid(p, o) ==
  /\ IsFiniteSet(Readers(p, o))
  /\ Delivered(p, o) + Cardinality(Readers(p, o)) + Cardinality(Leaving) + Unowned(p)
       <= 1 + disruptions

DeliveriesPaid ==
  /\ IsFiniteSet(Leaving)
  /\ \A p \in Partitions : \A o \in Nat : Paid(p, o)
  /\ \A p \in Partitions, m \in Members : closed[m] => owner[p] # m

\* A step in which nobody starts to leave.
LEMMA PaidKeeps ==
  ASSUME TypeOK, TypeOK', DeliveriesPaid, NEW p \in Partitions, NEW o \in Nat,
         Leaving' \subseteq Leaving, Readers(p, o)' \subseteq Readers(p, o),
         Delivered(p, o)' = Delivered(p, o),
         disruptions' - disruptions >= Unowned(p)' - Unowned(p)
  PROVE  Paid(p, o)'
<1>1. Paid(p, o) /\ IsFiniteSet(Leaving)
  BY DEF DeliveriesPaid
<1>2. /\ IsFiniteSet(Readers(p, o)') /\ Cardinality(Readers(p, o)') \in Nat
      /\ Cardinality(Readers(p, o)') <= Cardinality(Readers(p, o)) /\ Cardinality(Readers(p, o)) \in Nat
  BY <1>1, Fewer DEF Paid
<1>3. /\ Cardinality(Leaving') \in Nat /\ Cardinality(Leaving) \in Nat
      /\ Cardinality(Leaving') <= Cardinality(Leaving)
  BY <1>1, Fewer
<1>4. /\ Delivered(p, o) \in Nat /\ Unowned(p) \in Nat /\ Unowned(p)' \in Nat
      /\ disruptions \in Nat /\ disruptions' \in Nat
  BY DeliveredIsNat, ConsumerAssumption DEF Unowned, TypeOK, HistoryTypeOK
<1>. QED  BY <1>1, <1>2, <1>3, <1>4 DEF Paid

\* Positions, owners and lives are as they were.
LEMMA QuietPays ==
  ASSUME TypeOK, TypeOK', DeliveriesPaid, Grows \/ UNCHANGED deliveries,
         UNCHANGED <<position, owner, life, closed, disruptions>>
  PROVE  DeliveriesPaid'
<1>1. Leaving' = Leaving
  BY DEF Leaving
<1>2. ASSUME NEW p \in Partitions, NEW o \in Nat PROVE Paid(p, o)'
  <2>1. Readers(p, o)' = Readers(p, o) /\ Unowned(p)' = Unowned(p) /\ Delivered(p, o)' = Delivered(p, o)
    BY SameDeliveries DEF Readers, Unowned, Delivered
  <2>. QED  BY <2>1 DEF DeliveriesPaid, Paid, Leaving
<1>. QED  BY <1>1, <1>2 DEF DeliveriesPaid

LEMMA AssignPays ==
  ASSUME TypeOK, TypeOK', DeliveriesPaid, NEW m \in Members, NEW q \in Partitions, Assign(m, q)
  PROVE  DeliveriesPaid'
<1>1. /\ ~closed[m] /\ owner[q] = Nobody /\ owner' = [owner EXCEPT ![q] = m]
      /\ UNCHANGED <<log, deliveries, verdicts, life, closed, disruptions>>
  BY Zenon DEF Assign, InGroup, member
<1>2. /\ owner \in [Partitions -> Members \cup {Nobody}]
      /\ position \in [Members -> [Partitions -> Nat \cup {NoOffset}]] /\ Nobody \notin Members
      /\ disruptions \in Nat
  BY ConsumerAssumption DEF TypeOK, BrokerTypeOK, MemberTypeOK, HistoryTypeOK
<1>3. \E o : position' = [position EXCEPT ![m][q] = o]
  BY Zenon DEF Assign
<1>4. Leaving' = Leaving
  BY <1>1 DEF Leaving
<1>5. ASSUME NEW p \in Partitions, NEW o \in Nat PROVE Paid(p, o)'
  <2>1. Delivered(p, o)' = Delivered(p, o)
    BY <1>1, SameDeliveries DEF Grows
  <2>2. CASE p # q
    <3>1. Readers(p, o)' = Readers(p, o) /\ Unowned(p)' = Unowned(p)
      BY <1>1, <1>2, <1>3, <2>2 DEF Readers, Unowned
    <3>. QED  BY <1>1, <1>4, <2>1, <3>1 DEF DeliveriesPaid, Paid
  <2>3. CASE p = q
    <3>1. Unowned(p) = 1 /\ Unowned(p)' = 0
      BY <1>1, <1>2, <2>3 DEF Unowned
    <3>2. Readers(p, o)' \subseteq Readers(p, o) \cup {m}
      BY <1>2, <1>3 DEF Readers
    <3>3. Paid(p, o) /\ IsFiniteSet(Leaving)
      BY DEF DeliveriesPaid
    <3>4. /\ IsFiniteSet(Readers(p, o)') /\ Cardinality(Readers(p, o)') \in Nat
          /\ Cardinality(Readers(p, o)) \in Nat
          /\ Cardinality(Readers(p, o)') <= Cardinality(Readers(p, o)) + 1
      BY <3>2, <3>3, OneMore DEF Paid
    <3>5. Delivered(p, o) \in Nat /\ Cardinality(Leaving) \in Nat
      BY <3>3, DeliveredIsNat, FS_CardinalityType
    <3>. QED  BY <1>1, <1>2, <1>4, <2>1, <3>1, <3>3, <3>4, <3>5 DEF Paid
  <2>. QED  BY <2>2, <2>3
<1>6. \A p \in Partitions, n \in Members : closed'[n] => owner'[p] # n
  BY <1>1, <1>2 DEF DeliveriesPaid
<1>. QED  BY <1>4, <1>5, <1>6 DEF DeliveriesPaid

LEMMA FetchPays ==
  ASSUME TypeOK, TypeOK', DeliveriesPaid, NEW m \in Members, NEW t \in Topics, NEW q \in Partitions,
         Fetch(m, t, q)
  PROVE  DeliveriesPaid'
<1>. DEFINE i == position[m][q]
<1>1. /\ i \in Nat /\ position' = [position EXCEPT ![m][q] = i + 1]
      /\ UNCHANGED <<owner, life, closed, disruptions>>
      /\ \A p \in Partitions : \A o \in Nat :
           Delivered(p, o)' = IF p = q /\ o = i THEN Delivered(p, o) + 1 ELSE Delivered(p, o)
  BY FetchFacts
<1>2. position \in [Members -> [Partitions -> Nat \cup {NoOffset}]] /\ disruptions \in Nat
  BY ConsumerAssumption DEF TypeOK, MemberTypeOK, HistoryTypeOK
<1>3. position[m][q] = i
  OBVIOUS
<1>. HIDE DEF i
<1>4. Leaving' = Leaving
  BY <1>1 DEF Leaving
<1>5. ASSUME NEW p \in Partitions, NEW o \in Nat PROVE Paid(p, o)'
  <2>1. \A n \in Members : position'[n][p] = IF n = m /\ p = q THEN i + 1 ELSE position[n][p]
    BY <1>1, <1>2
  <2>2. Readers(p, o)' \subseteq Readers(p, o)
    BY <1>1, <1>2, <1>3, <2>1 DEF Readers, NoOffset
  <2>3. Unowned(p)' = Unowned(p) /\ Unowned(p) \in Nat
    BY <1>1 DEF Unowned
  <2>4. CASE p = q /\ o = i
    <3>1. m \in Readers(p, o) /\ Readers(p, o)' \subseteq Readers(p, o) \ {m}
      BY <1>1, <1>3, <2>1, <2>2, <2>4 DEF Readers, NoOffset
    <3>2. Paid(p, o) /\ IsFiniteSet(Leaving)
      BY DEF DeliveriesPaid
    <3>3. /\ IsFiniteSet(Readers(p, o)') /\ Cardinality(Readers(p, o)') \in Nat
          /\ Cardinality(Readers(p, o)) \in Nat
          /\ Cardinality(Readers(p, o)') + 1 <= Cardinality(Readers(p, o))
      BY <3>1, <3>2, OneLess DEF Paid
    <3>4. Delivered(p, o) \in Nat /\ Cardinality(Leaving) \in Nat
      BY <3>2, DeliveredIsNat, FS_CardinalityType
    <3>5. Delivered(p, o)' = Delivered(p, o) + 1
      BY <1>1, <2>4
    <3>. QED  BY <1>1, <1>2, <1>4, <2>3, <3>2, <3>3, <3>4, <3>5 DEF Paid
  <2>5. CASE ~(p = q /\ o = i)
    <3>1. Delivered(p, o)' = Delivered(p, o) /\ disruptions' - disruptions >= Unowned(p)' - Unowned(p)
      BY <1>1, <1>2, <2>3, <2>5
    <3>. QED  BY <1>4, <2>2, <3>1, PaidKeeps
  <2>. QED  BY <2>4, <2>5
<1>. QED  BY <1>1, <1>4, <1>5 DEF DeliveriesPaid

\* A disruption pays for what it sets free.
LEMMA DisruptionPays ==
  ASSUME TypeOK, TypeOK', DeliveriesPaid, Disrupt, UNCHANGED <<log, deliveries, verdicts>>,
         Leaving' \subseteq Leaving,
         \A n \in Members, p \in Partitions : position'[n][p] \in {position[n][p], NoOffset},
         \A p \in Partitions, n \in Members : closed'[n] => owner'[p] # n
  PROVE  DeliveriesPaid'
<1>1. IsFiniteSet(Leaving')
  BY Fewer DEF DeliveriesPaid
<1>2. ASSUME NEW p \in Partitions, NEW o \in Nat PROVE Paid(p, o)'
  <2>1. Readers(p, o)' \subseteq Readers(p, o) /\ Delivered(p, o)' = Delivered(p, o)
    BY SameDeliveries DEF Readers, Grows
  <2>2. disruptions' = disruptions + 1 /\ disruptions \in Nat
    BY ConsumerAssumption DEF Disrupt, TypeOK, HistoryTypeOK
  <2>3. disruptions' - disruptions >= Unowned(p)' - Unowned(p)
    BY <2>2 DEF Unowned
  <2>. QED  BY <2>1, <2>3, PaidKeeps
<1>. QED  BY <1>1, <1>2 DEF DeliveriesPaid

\* A cancellation is paid for unless Close was, and lets the member leave later.
LEMMA CancelPays ==
  ASSUME TypeOK, TypeOK', DeliveriesPaid, NEW m \in Members, Cancel(m) PROVE DeliveriesPaid'
<1>1. /\ life[m] = "running" /\ life' = [life EXCEPT ![m] = "cancelled"]
      /\ UNCHANGED <<log, deliveries, verdicts, position, owner, closed>>
      /\ (closed[m] /\ UNCHANGED disruptions) \/ (~closed[m] /\ Disrupt)
  BY Zenon DEF Cancel, broker, history
<1>2. life \in [Members -> Lives] /\ disruptions \in Nat /\ closed \in [Members -> BOOLEAN]
  BY ConsumerAssumption DEF TypeOK, MemberTypeOK, HistoryTypeOK
<1>3. ASSUME NEW p \in Partitions, NEW o \in Nat
      PROVE  Readers(p, o)' = Readers(p, o) /\ Unowned(p)' = Unowned(p) /\ Delivered(p, o)' = Delivered(p, o)
  BY <1>1, SameDeliveries DEF Readers, Unowned, Grows
<1>4. CASE closed[m] /\ UNCHANGED disruptions
  <2>1. Leaving' = Leaving
    BY <1>1, <1>2, <1>4 DEF Leaving
  <2>2. \A p \in Partitions : \A o \in Nat : Paid(p, o)'
    BY <1>3, <1>4, <2>1 DEF DeliveriesPaid, Paid
  <2>. QED  BY <1>1, <2>1, <2>2 DEF DeliveriesPaid
<1>5. CASE ~closed[m] /\ Disrupt
  <2>1. Leaving' \subseteq Leaving \cup {m}
    BY <1>1, <1>2 DEF Leaving
  <2>2. /\ IsFiniteSet(Leaving') /\ Cardinality(Leaving') \in Nat /\ Cardinality(Leaving) \in Nat
        /\ Cardinality(Leaving') <= Cardinality(Leaving) + 1
    BY <2>1, OneMore DEF DeliveriesPaid
  <2>3. ASSUME NEW p \in Partitions, NEW o \in Nat PROVE Paid(p, o)'
    <3>1. Paid(p, o) /\ disruptions' = disruptions + 1
      BY <1>5 DEF DeliveriesPaid, Disrupt
    <3>2. Delivered(p, o) \in Nat /\ Unowned(p) \in Nat /\ Cardinality(Readers(p, o)) \in Nat
      BY <3>1, DeliveredIsNat, FS_CardinalityType DEF Paid, Unowned
    <3>3. Readers(p, o)' = Readers(p, o) /\ Unowned(p)' = Unowned(p) /\ Delivered(p, o)' = Delivered(p, o)
      BY <1>3
    <3>. QED  BY <1>2, <2>2, <3>1, <3>2, <3>3 DEF Paid
  <2>. QED  BY <1>1, <2>2, <2>3 DEF DeliveriesPaid
<1>. QED  BY <1>1, <1>4, <1>5

\* Who ends without having been closed gives up its partitions only now.
LEMMA RestartPays ==
  ASSUME TypeOK, TypeOK', DeliveriesPaid, NEW m \in Members, Restart(m) PROVE DeliveriesPaid'
<1>1. /\ life[m] = "stopped" /\ life' = [life EXCEPT ![m] = "new"]
      /\ closed' = [closed EXCEPT ![m] = FALSE]
      /\ position' = [position EXCEPT ![m] = [p \in Partitions |-> NoOffset]]
      /\ owner' = [p \in Partitions |-> IF owner[p] = m THEN Nobody ELSE owner[p]]
      /\ UNCHANGED <<log, deliveries, verdicts, disruptions>>
  BY Zenon DEF Restart, Fresh, Release, history
<1>2. /\ life \in [Members -> Lives] /\ closed \in [Members -> BOOLEAN] /\ disruptions \in Nat
      /\ position \in [Members -> [Partitions -> Nat \cup {NoOffset}]]
      /\ owner \in [Partitions -> Members \cup {Nobody}] /\ Nobody \notin Members
  BY ConsumerAssumption DEF TypeOK, MemberTypeOK, HistoryTypeOK, BrokerTypeOK
<1>3. Leaving' \subseteq Leaving \ {m}
  BY <1>1, <1>2 DEF Leaving
<1>4. ASSUME NEW p \in Partitions, NEW o \in Nat PROVE Paid(p, o)'
  <2>1. Readers(p, o)' \subseteq Readers(p, o) /\ Delivered(p, o)' = Delivered(p, o)
    BY <1>1, <1>2, SameDeliveries DEF Readers, Grows
  <2>2. CASE owner[p] = m
    <3>1. m \in Leaving /\ Unowned(p)' = 1 /\ Unowned(p) = 0
      BY <1>1, <1>2, <2>2 DEF DeliveriesPaid, Leaving, Unowned
    <3>2. Paid(p, o) /\ IsFiniteSet(Leaving)
      BY DEF DeliveriesPaid
    <3>3. /\ Cardinality(Leaving') \in Nat /\ Cardinality(Leaving) \in Nat
          /\ Cardinality(Leaving') + 1 <= Cardinality(Leaving)
      BY <1>3, <3>1, <3>2, OneLess
    <3>4. /\ IsFiniteSet(Readers(p, o)') /\ Cardinality(Readers(p, o)') \in Nat
          /\ Cardinality(Readers(p, o)) \in Nat
          /\ Cardinality(Readers(p, o)') <= Cardinality(Readers(p, o))
      BY <2>1, <3>2, Fewer DEF Paid
    <3>5. Delivered(p, o) \in Nat
      BY DeliveredIsNat
    <3>. QED  BY <1>1, <1>2, <2>1, <3>1, <3>2, <3>3, <3>4, <3>5 DEF Paid
  <2>3. CASE owner[p] # m
    <3>1. Unowned(p)' = Unowned(p) /\ Unowned(p) \in Nat
      BY <1>1, <2>3 DEF Unowned
    <3>2. disruptions' - disruptions >= Unowned(p)' - Unowned(p)
      BY <1>1, <1>2, <3>1
    <3>. QED  BY <1>3, <2>1, <3>2, PaidKeeps
  <2>. QED  BY <2>2, <2>3
<1>5. IsFiniteSet(Leaving')
  BY <1>3, Fewer DEF DeliveriesPaid
<1>6. \A p \in Partitions, n \in Members : closed'[n] => owner'[p] # n
  BY <1>1, <1>2 DEF DeliveriesPaid
<1>. QED  BY <1>4, <1>5, <1>6 DEF DeliveriesPaid

LEMMA PaidInv == IInv /\ DeliveriesPaid /\ [GroupStep]_vars => DeliveriesPaid'
<1>. SUFFICES ASSUME IInv, DeliveriesPaid, [GroupStep]_vars PROVE DeliveriesPaid'
  OBVIOUS
<1>0. TypeOK /\ TypeOK'
  BY NextType DEF IInv
<1>a. /\ life \in [Members -> Lives] /\ closed \in [Members -> BOOLEAN]
      /\ position \in [Members -> [Partitions -> Nat \cup {NoOffset}]]
      /\ owner \in [Partitions -> Members \cup {Nobody}] /\ Nobody \notin Members
  BY <1>0, ConsumerAssumption DEF TypeOK, MemberTypeOK, BrokerTypeOK
<1>. USE DEF broker, member, worker, history
<1>1. CASE Appended \/ UNCHANGED vars
  BY <1>0, <1>1, QuietPays DEF Appended, Grows, vars
<1>2. ASSUME NEW p \in Partitions, Revoke(p) PROVE DeliveriesPaid'
  <2>1. /\ owner[p] # Nobody /\ Disrupt /\ owner' = [owner EXCEPT ![p] = Nobody]
        /\ position' = [position EXCEPT ![owner[p]][p] = NoOffset]
        /\ UNCHANGED <<log, deliveries, verdicts, life, closed>>
    BY <1>2, Zenon DEF Revoke
  <2>2. \A n \in Members, q \in Partitions : position'[n][q] \in {position[n][q], NoOffset}
    BY <1>a, <2>1
  <2>3. Leaving' = Leaving
    BY <2>1 DEF Leaving
  <2>4. \A q \in Partitions, n \in Members : closed'[n] => owner'[q] # n
    BY <1>a, <2>1 DEF DeliveriesPaid
  <2>. QED  BY <1>0, <2>1, <2>2, <2>3, <2>4, DisruptionPays
<1>3. ASSUME NEW m \in Members, NEW p \in Partitions, Assign(m, p) PROVE DeliveriesPaid'
  BY <1>0, <1>3, AssignPays
<1>4. ASSUME NEW m \in Members, NEW e \in Handled, Subscribe(m, e) PROVE DeliveriesPaid'
  BY <1>0, <1>4, QuietPays DEF Subscribe, Grows
<1>5. ASSUME NEW m \in Members, Start(m) \/ StartReturns(m) PROVE DeliveriesPaid'
  <2>1. /\ UNCHANGED <<log, deliveries, verdicts, position, owner, closed, disruptions>>
        /\ \/ life[m] = "new" /\ life' = [life EXCEPT ![m] = "running"]
           \/ life[m] = "cancelled" /\ life' = [life EXCEPT ![m] = "stopped"]
    BY <1>5, Zenon DEF Start, StartReturns
  <2>2. Leaving' = Leaving
    BY <1>a, <2>1 DEF Leaving
  <2>3. ASSUME NEW p \in Partitions, NEW o \in Nat PROVE Paid(p, o)'
    <3>1. Readers(p, o)' = Readers(p, o) /\ Unowned(p)' = Unowned(p) /\ Delivered(p, o)' = Delivered(p, o)
      BY <1>0, <2>1, SameDeliveries DEF Readers, Unowned, Grows
    <3>. QED  BY <2>1, <2>2, <3>1 DEF DeliveriesPaid, Paid
  <2>. QED  BY <2>1, <2>2, <2>3 DEF DeliveriesPaid
<1>6. ASSUME NEW m \in Members, Cancel(m) PROVE DeliveriesPaid'
  BY <1>0, <1>6, CancelPays
<1>7. ASSUME NEW m \in Members, Close(m) PROVE DeliveriesPaid'
  <2>1. /\ Disrupt /\ closed' = [closed EXCEPT ![m] = TRUE]
        /\ owner' = [p \in Partitions |-> IF owner[p] = m THEN Nobody ELSE owner[p]]
        /\ UNCHANGED <<log, deliveries, verdicts, life, position>>
    BY <1>7, Zenon DEF Close, Release
  <2>2. Leaving' \subseteq Leaving
    BY <1>a, <2>1 DEF Leaving
  <2>3. \A q \in Partitions, n \in Members : closed'[n] => owner'[q] # n
    BY <1>a, <2>1 DEF DeliveriesPaid
  <2>. QED  BY <1>0, <2>1, <2>2, <2>3, DisruptionPays
<1>8. ASSUME NEW m \in Members, Crash(m) PROVE DeliveriesPaid'
  <2>1. /\ Disrupt /\ closed' = [closed EXCEPT ![m] = FALSE] /\ life' = [life EXCEPT ![m] = "new"]
        /\ position' = [position EXCEPT ![m] = [p \in Partitions |-> NoOffset]]
        /\ owner' = [p \in Partitions |-> IF owner[p] = m THEN Nobody ELSE owner[p]]
        /\ UNCHANGED <<log, deliveries, verdicts>>
    BY <1>8, Zenon DEF Crash, Fresh, Release
  <2>2. Leaving' \subseteq Leaving
    BY <1>a, <2>1 DEF Leaving
  <2>3. \A q \in Partitions, n \in Members : closed'[n] => owner'[q] # n
    BY <1>a, <2>1 DEF DeliveriesPaid
  <2>4. \A n \in Members, q \in Partitions : position'[n][q] \in {position[n][q], NoOffset}
    BY <1>a, <2>1
  <2>. QED  BY <1>0, <2>1, <2>2, <2>3, <2>4, DisruptionPays
<1>9. ASSUME NEW m \in Members, Restart(m) PROVE DeliveriesPaid'
  BY <1>0, <1>9, RestartPays
<1>10. ASSUME NEW m \in Members, NEW t \in Topics, Consume(m, t) \/ GiveUp(m, t)
       PROVE  DeliveriesPaid'
  <2>1. CASE \E p \in Partitions : Fetch(m, t, p)
    BY <1>0, <2>1, FetchPays
  <2>2. CASE (Grows \/ UNCHANGED deliveries) /\ UNCHANGED <<position, owner, life, closed, disruptions>>
    BY <1>0, <2>2, QuietPays
  <2>3. \/ \E p \in Partitions : Fetch(m, t, p)
        \/ (Grows \/ UNCHANGED deliveries) /\ UNCHANGED <<position, owner, life, closed, disruptions>>
    BY <1>0, <1>10, WorkCases, Zenon DEF Settles, Calls, Idles, Waits
  <2>. QED  BY <2>1, <2>2, <2>3
<1>. QED
  BY <1>1, <1>2, <1>3, <1>4, <1>5, <1>6, <1>7, <1>8, <1>9, <1>10 DEF GroupStep, LifeStep

LEMMA InitPays == Init => DeliveriesPaid
<1>. SUFFICES ASSUME Init PROVE DeliveriesPaid
  OBVIOUS
<1>1. Leaving = {} /\ disruptions = 0 /\ \A m \in Members : ~closed[m]
  BY DEF Init, Leaving
<1>2. ASSUME NEW p \in Partitions, NEW o \in Nat PROVE Paid(p, o)
  <2>1. Readers(p, o) = {} /\ Delivered(p, o) = 0 /\ Unowned(p) = 1
    BY DEF Init, Readers, Delivered, Unowned
  <2>. QED  BY <1>1, <2>1, FS_EmptySet DEF Paid
<1>. QED  BY <1>1, <1>2, FS_EmptySet DEF DeliveriesPaid

LEMMA PaidBounds == IInv /\ DeliveriesPaid => RedeliveryNeedsDisruption
<1>. SUFFICES ASSUME IInv, DeliveriesPaid, NEW p \in Partitions, NEW i \in DOMAIN deliveries[p]
              PROVE  deliveries[p][i] <= 1 + disruptions
  BY DEF RedeliveryNeedsDisruption
<1>1. /\ i \in Nat /\ i - 1 \in Nat /\ deliveries[p][i] \in Nat /\ disruptions \in Nat
      /\ (i - 1) + 1 = i
  BY ConsumerAssumption DEF IInv, TypeOK, HistoryTypeOK, BrokerTypeOK
<1>2. PICK o \in Nat : o = i - 1
  BY <1>1
<1>3. Paid(p, o) /\ IsFiniteSet(Leaving) /\ Delivered(p, o) = deliveries[p][i]
  BY <1>1, <1>2 DEF DeliveriesPaid, Delivered
<1>4. /\ Cardinality(Readers(p, o)) \in Nat /\ Cardinality(Leaving) \in Nat
      /\ Unowned(p) \in Nat
  BY <1>3, FS_CardinalityType DEF Paid, Unowned
<1>. QED  BY <1>1, <1>3, <1>4 DEF Paid

\* Failing handlers and failing commits cost no second delivery: a record is
\* returned once, and once more for every crash, shutdown or rebalance at most.
THEOREM RedeliveriesArePaid == Spec => []RedeliveryNeedsDisruption
<1>1. Init => IInv /\ DeliveriesPaid
  BY InitInv, InitPays
<1>2. IInv /\ DeliveriesPaid /\ [Next]_vars => IInv' /\ DeliveriesPaid'
  BY NextIsGroupStep, NextInv, PaidInv
<1>. QED  BY <1>1, <1>2, PaidBounds, PTL DEF Spec

(***************************************************************************)
(* What the health pages say.                                              *)
(***************************************************************************)
SettledInLog == \A p \in Partitions : Settled(p) \subseteq Below(Len(log[p]))

WithinMax == \A p \in Partitions : Len(log[p]) <= MaxLog

\* A reason is kept from the rejection to the report, and it is the right one: no
\* handler runs on a record that could not be decoded, and a failure is reported
\* only of a record that was given up.
Reason(m, t) ==
  /\ pc[m][t] \notin {"deadLetter", "sending", "report"} => reason[m][t] = "none"
  /\ pc[m][t] = "handle" => Record(m, t) \notin Malformed
  /\ pc[m][t] \in {"deadLetter", "sending"} =>
       reason[m][t] # "none" /\ (reason[m][t] = "malformed" <=> Record(m, t) \in Malformed)
  /\ pc[m][t] = "report" /\ reason[m][t] # "none" => GivenUp(t) # {}

Reasoned == \A m \in Members, t \in Topics : Reason(m, t)

\* A row is of a settled record, and degraded because of one that was given up.
RowIsTrue(m, t) ==
  /\ health[m][t].last # NoOffset =>
       \E p \in Partitions : TopicOf[p] = t /\ health[m][t].last \in Settled(p)
  /\ health[m][t].failed => health[m][t].last # NoOffset /\ GivenUp(t) # {}

RowsAreTrue == \A m \in Members, t \in Topics : RowIsTrue(m, t)

\* Until the first disruption nobody ends, so that nobody forgets a failure.
Undisturbed ==
  disruptions = 0 =>
    /\ \A m \in Members : life[m] \in {"new", "running"} /\ ~closed[m]
    /\ \A t \in Topics :
         GivenUp(t) # {} => Unreported(t) \/ \E m \in Members : health[m][t].failed

PagesInv == SettledInLog /\ WithinMax /\ Reasoned /\ RowsAreTrue /\ Undisturbed

LEMMA StepKinds ==
  ASSUME IInv, [GroupStep]_vars
  PROVE  \/ Idles
         \/ \E m \in Members, p \in Partitions : Assign(m, p)
         \/ \E m \in Members, t \in Topics, p \in Partitions : Fetch(m, t, p)
         \/ \E m \in Members, t \in Topics : Calls(m, t)
         \/ \E m \in Members, t \in Topics, f \in Fates : Settles(m, t, f)
<1>1. TypeOK
  BY DEF IInv
<1>2. ASSUME NEW m \in Members, NEW t \in Topics, Consume(m, t) \/ GiveUp(m, t)
      PROVE  \/ Idles
             \/ \E p \in Partitions : Fetch(m, t, p)
             \/ Calls(m, t)
             \/ \E f \in Fates : Settles(m, t, f)
  BY <1>1, <1>2, WorkCases
<1>3. CASE Appended \/ (\E p \in Partitions : Revoke(p)) \/ LifeStep \/ UNCHANGED vars
  BY <1>3, LifeCases
<1>. QED  BY <1>2, <1>3, Zenon DEF GroupStep

\* Records are only appended.
LogKept(p) ==
  /\ Len(log[p]) \in Nat /\ Len(log'[p]) \in Nat /\ Len(log[p]) <= Len(log'[p])
  /\ Len(log[p]) <= MaxLog => Len(log'[p]) <= MaxLog
  /\ \A o \in Below(Len(log[p])) : log'[p][o + 1] = log[p][o + 1]

LEMMA LogKeeps == ASSUME IInv, [GroupStep]_vars, NEW p \in Partitions PROVE LogKept(p)
<1>1. CASE Grows
  BY <1>1, GrowsFits DEF IInv, TypeOK, BrokerTypeOK, HistoryTypeOK, Fits, LogKept
<1>2. CASE UNCHANGED log
  BY <1>2 DEF IInv, TypeOK, BrokerTypeOK, LogKept
<1>3. Grows \/ UNCHANGED log
  BY StepKinds, Zenon DEF Idles, Waits, Assign, Fetch, Calls, Settles, broker
<1>. QED  BY <1>1, <1>2, <1>3

LEMMA FatesGrow == ASSUME IInv, [GroupStep]_vars PROVE \A p \in Partitions : fate[p] \subseteq fate'[p]
<1>1. fate \in [Partitions -> SUBSET (Nat \X Fates)]
  BY DEF IInv, TypeOK, HistoryTypeOK
<1>2. UNCHANGED fate \/ \E q, more : fate' = [fate EXCEPT ![q] = @ \cup more]
  BY StepKinds, Zenon DEF Idles, Assign, Fetch, Calls, Settles, Mark
<1>. QED  BY <1>1, <1>2

LEMMA SettledGrows ==
  ASSUME IInv, [GroupStep]_vars, NEW p \in Partitions PROVE Settled(p) \subseteq Settled(p)'
<1>1. fate[p] \subseteq fate'[p]
  BY FatesGrow
<1>2. \A x : x \in Settled(p) <=> \E g \in fate[p] : x = g[1]
  BY DEF Settled
<1>3. \A x : x \in Settled(p)' <=> \E g \in fate'[p] : x = g[1]
  BY DEF Settled
<1>. QED  BY <1>1, <1>2, <1>3

\* What was once given up stays so.
LEMMA GivenUpGrows ==
  ASSUME IInv, SettledInLog, [GroupStep]_vars, NEW t \in Topics PROVE GivenUp(t) \subseteq GivenUp(t)'
<1>. SUFFICES ASSUME NEW x \in GivenUp(t) PROVE x \in GivenUp(t)'
  OBVIOUS
<1>1. /\ x \in [partition : {p \in Partitions : TopicOf[p] = t}, offset : Below(MaxLog)]
      /\ \E f \in {"deadLettered", "dropped"} : <<x.offset, f>> \in fate[x.partition]
      /\ log[x.partition][x.offset + 1] \notin Malformed
  BY DEF GivenUp
<1>. DEFINE p == x.partition
            o == x.offset
<1>2. p \in Partitions
  BY <1>1
<1>3. PICK f \in {"deadLettered", "dropped"} : <<o, f>> \in fate[p]
  BY <1>1
<1>. HIDE DEF p, o
<1>4. o \in Settled(p)
  <2>1. <<o, f>>[1] = o
    OBVIOUS
  <2>2. \A y : y \in Settled(p) <=> \E g \in fate[p] : y = g[1]
    BY DEF Settled
  <2>. QED  BY <1>3, <2>1, <2>2
<1>5. log'[p][o + 1] = log[p][o + 1]
  BY <1>2, <1>4, LogKeeps DEF SettledInLog, LogKept
<1>6. <<o, f>> \in fate'[p]
  BY <1>2, <1>3, FatesGrow
<1>. QED  BY <1>1, <1>5, <1>6 DEF GivenUp, p, o

\* No record is given up but by the goroutine that reports it.
LEMMA GivenUpSame ==
  ASSUME IInv, SettledInLog, [GroupStep]_vars, NEW t \in Topics, NEW x \in GivenUp(t)',
         \A f \in {"deadLettered", "dropped"} :
           <<x.offset, f>> \in fate'[x.partition] => <<x.offset, f>> \in fate[x.partition]
  PROVE  x \in GivenUp(t)
<1>1. /\ x \in [partition : {p \in Partitions : TopicOf[p] = t}, offset : Below(MaxLog)]
      /\ \E f \in {"deadLettered", "dropped"} : <<x.offset, f>> \in fate[x.partition]
      /\ log'[x.partition][x.offset + 1] \notin Malformed
  BY DEF GivenUp
<1>. DEFINE p == x.partition
            o == x.offset
<1>2. p \in Partitions
  BY <1>1
<1>3. PICK f \in {"deadLettered", "dropped"} : <<o, f>> \in fate[p]
  BY <1>1
<1>. HIDE DEF p, o
<1>4. o \in Settled(p)
  <2>1. <<o, f>>[1] = o
    OBVIOUS
  <2>2. \A y : y \in Settled(p) <=> \E g \in fate[p] : y = g[1]
    BY DEF Settled
  <2>. QED  BY <1>3, <2>1, <2>2
<1>5. log'[p][o + 1] = log[p][o + 1]
  BY <1>2, <1>4, LogKeeps DEF SettledInLog, LogKept
<1>. QED  BY <1>1, <1>5 DEF GivenUp, p, o

LEMMA InLogInv == IInv /\ SettledInLog /\ WithinMax /\ [GroupStep]_vars => SettledInLog' /\ WithinMax'
<1>. SUFFICES ASSUME IInv, SettledInLog, WithinMax, [GroupStep]_vars, NEW p \in Partitions
              PROVE  Settled(p)' \subseteq Below(Len(log'[p])) /\ Len(log'[p]) <= MaxLog
  BY DEF SettledInLog, WithinMax
<1>1. /\ Len(log[p]) \in Nat /\ Len(log'[p]) \in Nat /\ Len(log[p]) <= Len(log'[p])
      /\ Len(log'[p]) <= MaxLog
      /\ Below(Len(log[p])) \subseteq Below(Len(log'[p]))
  <2>1. Len(log[p]) \in Nat /\ Len(log'[p]) \in Nat /\ Len(log[p]) <= Len(log'[p])
    BY LogKeeps DEF LogKept
  <2>2. Len(log'[p]) <= MaxLog
    BY LogKeeps DEF WithinMax, LogKept
  <2>. QED  BY <2>1, <2>2 DEF Below
<1>2. fate \in [Partitions -> SUBSET (Nat \X Fates)] /\ TypeOK
  BY DEF IInv, TypeOK, HistoryTypeOK
<1>3. CASE UNCHANGED fate
  <2>1. Settled(p)' = Settled(p)
    BY <1>3, SettledSame
  <2>. QED  BY <1>1, <2>1 DEF SettledInLog
<1>4. ASSUME NEW m \in Members, NEW t \in Topics, NEW f \in Fates, Settles(m, t, f)
      PROVE  Settled(p)' \subseteq Below(Len(log'[p]))
  <2>1. pc[m][t] \in Busy /\ Mark(m, t, f)
    BY <1>4 DEF Settles, Busy
  <2>2. OffsetOf(m, t) \in Nat /\ OffsetOf(m, t) < Len(log[PartOf(m, t)])
    BY <1>2, <2>1 DEF TypeOK, HeldInLog, OffsetOf
  <2>3. Settled(p)' = IF p = PartOf(m, t) THEN Settled(p) \cup {OffsetOf(m, t)} ELSE Settled(p)
    BY <1>2, <2>1, SettledMark
  <2>4. OffsetOf(m, t) \in Below(Len(log[PartOf(m, t)])) \/ p # PartOf(m, t)
    BY <1>1, <2>2 DEF Below
  <2>. QED  BY <1>1, <2>3, <2>4 DEF SettledInLog
<1>5. ASSUME NEW m \in Members, NEW q \in Partitions, Assign(m, q)
      PROVE  Settled(p)' \subseteq Below(Len(log'[p]))
  <2>. DEFINE back == {<<o, "skippedAtStart">> : o \in Below(Len(log[q]))}
  <2>1. UNCHANGED fate \/ fate' = [fate EXCEPT ![q] = @ \cup back]
    BY <1>5, Zenon DEF Assign
  <2>2. ASSUME NEW g \in back PROVE g[1] \in Below(Len(log[q]))
    OBVIOUS
  <2>. HIDE DEF back
  <2>3. ASSUME NEW x \in Settled(p)' PROVE x \in Settled(p) \/ x \in Below(Len(log[p]))
    <3>1. PICK g \in fate'[p] : x = g[1]
      BY DEF Settled
    <3>2. g \in fate[p] \/ (p = q /\ g \in back)
      BY <1>2, <2>1
    <3>3. g \in fate[p] => x \in Settled(p)
      BY <3>1 DEF Settled
    <3>. QED  BY <2>2, <3>1, <3>2, <3>3
  <2>. QED  BY <1>1, <2>3 DEF SettledInLog
<1>6. UNCHANGED fate \/ (\E m \in Members, t \in Topics, f \in Fates : Settles(m, t, f))
      \/ (\E m \in Members, q \in Partitions : Assign(m, q))
  BY StepKinds, Zenon DEF Idles, Fetch, Calls
<1>. QED  BY <1>1, <1>3, <1>4, <1>5, <1>6

\* A goroutine that settles its record is right about it.
LEMMA SettleIsTrue ==
  ASSUME IInv, SettledInLog, WithinMax, Reasoned, [GroupStep]_vars,
         NEW m \in Members, NEW t \in Topics, NEW f \in Fates, Settles(m, t, f),
         NEW q, NEW i, q = PartOf(m, t), i = OffsetOf(m, t)
  PROVE  /\ q \in Partitions /\ TopicOf[q] = t /\ i \in Nat
         /\ fate' = [fate EXCEPT ![q] = @ \cup {<<i, f>>}]
         /\ log'[q][i + 1] = Record(m, t)
         /\ f \in {"deadLettered", "dropped"} /\ Record(m, t) \notin Malformed =>
              /\ Goto(m, t, "report") /\ UNCHANGED reason /\ reason[m][t] # "none"
              /\ GivenUp(t)' # {}
<1>1. /\ pc[m][t] \in Busy /\ Mark(m, t, f) /\ TypeOK
      /\ fate \in [Partitions -> SUBSET (Nat \X Fates)]
  BY DEF Settles, Busy, IInv, TypeOK, HistoryTypeOK
<1>2. q \in Partitions /\ TopicOf[q] = t /\ i \in Nat /\ i < Len(log[q])
  BY <1>1 DEF IInv, TypeOK, HeldInLog, HeldAfterSettled, PartOf, OffsetOf
<1>3. fate' = [fate EXCEPT ![q] = @ \cup {<<i, f>>}]
  BY <1>1 DEF Mark
<1>4. log'[q][i + 1] = Record(m, t) /\ i \in Below(MaxLog)
  <2>1. LogKept(q) /\ Len(log[q]) <= MaxLog /\ MaxLog \in Nat
    BY <1>2, LogKeeps, ConsumerAssumption DEF WithinMax
  <2>2. i \in Below(Len(log[q])) /\ i \in Below(MaxLog)
    BY <1>2, <2>1 DEF LogKept, Below
  <2>. QED  BY <2>1, <2>2 DEF LogKept, Record
<1>5. ASSUME f \in {"deadLettered", "dropped"}, Record(m, t) \notin Malformed
      PROVE  /\ Goto(m, t, "report") /\ UNCHANGED reason /\ reason[m][t] # "none"
             /\ GivenUp(t)' # {}
  <2>1. /\ pc[m][t] = "sending"
        /\ reason[m][t] # "malformed" => Goto(m, t, "report") /\ UNCHANGED reason
    BY <1>5 DEF Settles
  <2>2. reason[m][t] # "none" /\ reason[m][t] # "malformed"
    BY <1>5, <2>1 DEF Reasoned, Reason
  <2>3. GivenUp(t)' # {}
    <3>. DEFINE x == [partition |-> q, offset |-> i]
    <3>1. x \in [partition : {p \in Partitions : TopicOf[p] = t}, offset : Below(MaxLog)]
      BY <1>2, <1>4
    <3>2. x.partition = q /\ x.offset = i
      OBVIOUS
    <3>3. <<i, f>> \in fate'[q]
      BY <1>1, <1>2, <1>3
    <3>. HIDE DEF x
    <3>4. x \in GivenUp(t)'
      BY <1>4, <1>5, <3>1, <3>2, <3>3 DEF GivenUp
    <3>. QED  BY <3>4
  <2>. QED  BY <2>1, <2>2, <2>3
<1>. QED  BY <1>2, <1>3, <1>4, <1>5

\* A goroutine that was left alone has the reason that it had.
LEMMA ReasonKeeps ==
  ASSUME IInv, SettledInLog, [GroupStep]_vars, NEW n \in Members, NEW u \in Topics, Reason(n, u),
         pc'[n][u] = pc[n][u], cur'[n][u] = cur[n][u], reason'[n][u] = reason[n][u]
  PROVE  Reason(n, u)'
<1>0. GivenUp(u) \subseteq GivenUp(u)'
  BY GivenUpGrows
<1>1. CASE pc[n][u] \notin Busy
  BY <1>1 DEF Reason, Busy
<1>2. CASE pc[n][u] \in Busy
  <2>1. cur[n][u] \in Partitions \X Nat /\ OffsetOf(n, u) < Len(log[PartOf(n, u)])
    BY <1>2 DEF IInv, TypeOK, HeldInLog
  <2>2. PartOf(n, u) \in Partitions /\ OffsetOf(n, u) \in Nat
    BY <2>1 DEF PartOf, OffsetOf
  <2>3. PartOf(n, u)' = PartOf(n, u) /\ OffsetOf(n, u)' = OffsetOf(n, u)
    BY DEF PartOf, OffsetOf
  <2>4. OffsetOf(n, u) \in Below(Len(log[PartOf(n, u)]))
    BY <2>1, <2>2, LogKeeps DEF Below, LogKept
  <2>5. Record(n, u)' = Record(n, u)
    BY <2>2, <2>3, <2>4, LogKeeps DEF Record, LogKept
  <2>. QED  BY <1>0, <2>5 DEF Reason
<1>. QED  BY <1>1, <1>2

\* A goroutine that goes on is right about its reason.
LEMMA ReasonMoves ==
  ASSUME IInv, SettledInLog, Reasoned, [GroupStep]_vars, NEW m \in Members, NEW t \in Topics,
         NEW x, NEW why, Goto(m, t, x), UNCHANGED <<log, cur>>,
         reason' = [reason EXCEPT ![m][t] = why],
         x \notin {"deadLetter", "sending", "report"} => why = "none",
         x = "handle" => Record(m, t) \notin Malformed,
         x \in {"deadLetter", "sending"} =>
           why # "none" /\ (why = "malformed" <=> Record(m, t) \in Malformed),
         x = "report" /\ why # "none" => GivenUp(t)' # {}
  PROVE  Reasoned'
<1>1. /\ pc \in [Members -> [Topics -> PCs]] /\ reason \in [Members -> [Topics -> Reasons]]
      /\ pc' = [pc EXCEPT ![m][t] = x]
  BY DEF IInv, TypeOK, GoroutineTypeOK, Goto
<1>. SUFFICES ASSUME NEW n \in Members, NEW u \in Topics PROVE Reason(n, u)'
  BY DEF Reasoned
<1>2. CASE n = m /\ u = t
  <2>1. pc'[n][u] = x /\ reason'[n][u] = why
    BY <1>1, <1>2
  <2>2. Record(n, u)' = Record(m, t)
    BY <1>2 DEF Record, PartOf, OffsetOf
  <2>. QED  BY <1>2, <2>1, <2>2 DEF Reason
<1>3. CASE ~(n = m /\ u = t)
  <2>1. pc'[n][u] = pc[n][u] /\ cur'[n][u] = cur[n][u] /\ reason'[n][u] = reason[n][u]
    BY <1>1, <1>3
  <2>. QED  BY <2>1, ReasonKeeps DEF Reasoned
<1>. QED  BY <1>2, <1>3

\* The end of a call of DeadLetterFunc.
LEMMA ReasonReturns ==
  ASSUME IInv, SettledInLog, WithinMax, Reasoned, [GroupStep]_vars, NEW m \in Members,
         NEW t \in Topics, DeadLetterReturns(m, t)
  PROVE  Reasoned'
<1>0. reason \in [Members -> [Topics -> Reasons]] /\ fate \in [Partitions -> SUBSET (Nat \X Fates)]
  BY DEF IInv, TypeOK, GoroutineTypeOK, HistoryTypeOK
<1>. DEFINE f == IF HasDeadLetter THEN "deadLettered" ELSE "dropped"
<1>1. /\ pc[m][t] = "sending" /\ Mark(m, t, f) /\ UNCHANGED <<log, cur>>
      /\ \/ Goto(m, t, "commit") /\ reason' = [reason EXCEPT ![m][t] = "none"]
         \/ reason[m][t] # "malformed" /\ Goto(m, t, "report") /\ UNCHANGED reason
  BY Zenon DEF DeadLetterReturns, broker
<1>2. f \in {"deadLettered", "dropped"}
  OBVIOUS
<1>. HIDE DEF f
<1>3. CASE Goto(m, t, "commit") /\ reason' = [reason EXCEPT ![m][t] = "none"]
  BY <1>1, <1>3, ReasonMoves
<1>4. CASE reason[m][t] # "malformed" /\ Goto(m, t, "report") /\ UNCHANGED reason
  <2>0. PICK q, i : q = PartOf(m, t) /\ i = OffsetOf(m, t)
    OBVIOUS
  <2>1. Record(m, t) \notin Malformed
    BY <1>1, <1>4 DEF Reasoned, Reason
  <2>2. q \in Partitions /\ TopicOf[q] = t /\ i \in Nat /\ i < Len(log[q])
    BY <1>1, <2>0 DEF IInv, TypeOK, HeldInLog, HeldAfterSettled, Busy, PartOf, OffsetOf
  <2>3. i \in Below(MaxLog) /\ log[q][i + 1] \notin Malformed
    <3>1. LogKept(q) /\ Len(log[q]) <= MaxLog /\ MaxLog \in Nat
      BY <2>2, LogKeeps, ConsumerAssumption DEF WithinMax
    <3>2. i \in Below(MaxLog)
      BY <2>2, <3>1 DEF LogKept, Below
    <3>. QED  BY <2>0, <2>1, <3>2 DEF Record
  <2>4. GivenUp(t)' # {}
    <3>. DEFINE x == [partition |-> q, offset |-> i]
    <3>1. x \in [partition : {p \in Partitions : TopicOf[p] = t}, offset : Below(MaxLog)]
      BY <2>2, <2>3
    <3>2. x.partition = q /\ x.offset = i
      OBVIOUS
    <3>3. <<i, f>> \in fate'[q]
      BY <1>0, <1>1, <2>0, <2>2 DEF Mark
    <3>4. log'[q][i + 1] \notin Malformed
      BY <1>1, <2>3
    <3>. HIDE DEF x
    <3>5. x \in GivenUp(t)'
      BY <1>2, <3>1, <3>2, <3>3, <3>4 DEF GivenUp
    <3>. QED  BY <3>5
  <2>5. reason' = [reason EXCEPT ![m][t] = reason[m][t]]
    BY <1>0, <1>4
  <2>. QED  BY <1>1, <1>4, <2>4, <2>5, ReasonMoves
<1>. QED  BY <1>1, <1>3, <1>4

LEMMA ReasonInv ==
  IInv /\ SettledInLog /\ WithinMax /\ Reasoned /\ [GroupStep]_vars => Reasoned'
<1>. SUFFICES ASSUME IInv, SettledInLog, WithinMax, Reasoned, [GroupStep]_vars PROVE Reasoned'
  OBVIOUS
<1>. USE DEF broker, member, worker, history, vars
<1>0. /\ pc \in [Members -> [Topics -> PCs]] /\ reason \in [Members -> [Topics -> Reasons]]
      /\ cur \in [Members -> [Topics -> (Partitions \X Nat) \cup {NoMsg}]]
  BY DEF IInv, TypeOK, GoroutineTypeOK
<1>1. CASE UNCHANGED <<pc, cur, reason>>
  <2>1. ASSUME NEW n \in Members, NEW u \in Topics PROVE Reason(n, u)'
    BY <1>1, ReasonKeeps DEF Reasoned
  <2>. QED  BY <2>1 DEF Reasoned
<1>2. CASE Appended \/ UNCHANGED vars
  BY <1>1, <1>2, Zenon DEF Appended
<1>3. ASSUME NEW p \in Partitions, Revoke(p) \/ \E m \in Members : Assign(m, p) PROVE Reasoned'
  BY <1>1, <1>3, Zenon DEF Revoke, Assign
<1>4a. ASSUME NEW m \in Members, NEW e \in Handled, Subscribe(m, e) PROVE Reasoned'
  BY <1>1, <1>4a, Zenon DEF Subscribe
<1>4. ASSUME NEW m \in Members, Cancel(m) \/ Close(m) \/ StartReturns(m) PROVE Reasoned'
  BY <1>1, <1>4, Zenon DEF Cancel, Close, StartReturns
<1>5. ASSUME NEW m \in Members, Start(m) \/ Fresh(m) PROVE Reasoned'
  <2>1. \A n \in Members, u \in Topics :
          \/ pc'[n][u] = pc[n][u] /\ cur'[n][u] = cur[n][u] /\ reason'[n][u] = reason[n][u]
          \/ pc'[n][u] \in {"fetch", "off"} /\ reason'[n][u] = "none"
    <3>1. CASE Start(m)
      <4>1. \A u \in Topics : pc[m][u] = "off" /\ reason[m][u] = "none"
        BY <3>1 DEF Start, IInv, NewIsIdle, Reasoned, Reason
      <4>. QED  BY <1>0, <3>1, <4>1 DEF Start
    <3>2. CASE Fresh(m)
      BY <1>0, <3>2 DEF Fresh
    <3>. QED  BY <1>5, <3>1, <3>2
  <2>2. ASSUME NEW n \in Members, NEW u \in Topics PROVE Reason(n, u)'
    <3>1. CASE pc'[n][u] = pc[n][u] /\ cur'[n][u] = cur[n][u] /\ reason'[n][u] = reason[n][u]
      BY <3>1, ReasonKeeps DEF Reasoned
    <3>2. CASE pc'[n][u] \in {"fetch", "off"} /\ reason'[n][u] = "none"
      BY <3>2 DEF Reason
    <3>. QED  BY <2>1, <3>1, <3>2
  <2>. QED  BY <2>2 DEF Reasoned
<1>6. ASSUME NEW m \in Members, NEW t \in Topics, NEW x \in {"dispatch", "fetch"},
             pc[m][t] \in {"fetch", "commit"}, Goto(m, t, x),
             \E c : cur' = [cur EXCEPT ![m][t] = c], UNCHANGED reason
      PROVE  Reasoned'
  <2>1. ASSUME NEW n \in Members, NEW u \in Topics PROVE Reason(n, u)'
    <3>1. CASE n = m /\ u = t
      <4>1. pc'[n][u] = x
        BY <1>0, <1>6, <3>1 DEF Goto
      <4>2. reason'[n][u] = "none"
        BY <1>6, <3>1 DEF Reasoned, Reason
      <4>. QED  BY <4>1, <4>2 DEF Reason
    <3>2. CASE ~(n = m /\ u = t)
      <4>1. pc'[n][u] = pc[n][u] /\ cur'[n][u] = cur[n][u] /\ reason'[n][u] = reason[n][u]
        BY <1>0, <1>6, <3>2 DEF Goto
      <4>. QED  BY <4>1, ReasonKeeps DEF Reasoned
    <3>. QED  BY <3>1, <3>2
  <2>. QED  BY <2>1 DEF Reasoned
<1>7. ASSUME NEW m \in Members, NEW t \in Topics, NEW p \in Partitions, Fetch(m, t, p) PROVE Reasoned'
  <2>1. /\ pc[m][t] = "fetch" /\ Goto(m, t, "dispatch") /\ UNCHANGED reason
        /\ \E c : cur' = [cur EXCEPT ![m][t] = c]
    BY <1>7, Zenon DEF Fetch
  <2>. QED  BY <1>6, <2>1
<1>8. ASSUME NEW m \in Members, NEW t \in Topics, FetchFails(m, t) PROVE Reasoned'
  BY <1>1, <1>8, Zenon DEF FetchFails
<1>9. ASSUME NEW m \in Members, NEW t \in Topics, CommitApplied(m, t) \/ CommitFails(m, t)
      PROVE  Reasoned'
  <2>1. /\ pc[m][t] = "commit" /\ Goto(m, t, "fetch") /\ UNCHANGED reason
        /\ \E c : cur' = [cur EXCEPT ![m][t] = c]
    BY <1>9, Zenon DEF CommitApplied, CommitFails, Committing
  <2>. QED  BY <1>6, <2>1
<1>a. \A m \in Members, t \in Topics :
        UNCHANGED reason => reason' = [reason EXCEPT ![m][t] = reason[m][t]]
  BY <1>0
<1>14. ASSUME NEW m \in Members, NEW t \in Topics,
              StopConsuming(m, t) \/ SkipUnhandled(m, t) \/ HandlerSucceeds(m, t)
       PROVE  Reasoned'
  <2>1. /\ pc[m][t] \in {"fetch", "dispatch", "handle"} /\ UNCHANGED <<log, cur, reason>>
        /\ \E x \in {"done", "commit", "report"} : Goto(m, t, x)
    BY <1>14 DEF StopConsuming, SkipUnhandled, HandlerSucceeds
  <2>2. reason[m][t] = "none"
    BY <2>1 DEF Reasoned, Reason
  <2>3. reason' = [reason EXCEPT ![m][t] = "none"]
    BY <1>a, <2>1, <2>2
  <2>. QED  BY <2>1, <2>3, ReasonMoves
<1>15. ASSUME NEW m \in Members, NEW t \in Topics, DeadLetter(m, t) PROVE Reasoned'
  <2>1. pc[m][t] = "deadLetter" /\ Goto(m, t, "sending") /\ UNCHANGED <<log, cur, reason>>
    BY <1>15, Zenon DEF DeadLetter
  <2>2. reason[m][t] # "none" /\ (reason[m][t] = "malformed" <=> Record(m, t) \in Malformed)
    BY <2>1 DEF Reasoned, Reason
  <2>3. reason' = [reason EXCEPT ![m][t] = reason[m][t]]
    BY <1>a, <2>1
  <2>. QED  BY <2>1, <2>2, <2>3, ReasonMoves
<1>16. ASSUME NEW m \in Members, NEW t \in Topics, DeadLetterReturns(m, t) PROVE Reasoned'
  BY <1>16, ReasonReturns
<1>17. ASSUME NEW m \in Members, NEW t \in Topics, Report(m, t) PROVE Reasoned'
  <2>1. /\ Goto(m, t, "commit") /\ UNCHANGED <<log, cur>>
        /\ reason' = [reason EXCEPT ![m][t] = "none"]
    BY <1>17, Zenon DEF Report
  <2>. QED  BY <2>1, ReasonMoves
<1>10. ASSUME NEW m \in Members, NEW t \in Topics, RejectMalformed(m, t) PROVE Reasoned'
  <2>1. /\ Goto(m, t, "deadLetter") /\ reason' = [reason EXCEPT ![m][t] = "malformed"]
        /\ UNCHANGED <<log, cur>> /\ Record(m, t) \in Malformed
    BY <1>10, Zenon DEF RejectMalformed, ToDeadLetter
  <2>2. "malformed" # "none"
    OBVIOUS
  <2>. QED  BY <2>1, <2>2, ReasonMoves
<1>11. ASSUME NEW m \in Members, NEW t \in Topics, RejectInvalid(m, t) PROVE Reasoned'
  <2>1. /\ Goto(m, t, "deadLetter") /\ reason' = [reason EXCEPT ![m][t] = "invalid"]
        /\ UNCHANGED <<log, cur>> /\ Record(m, t) \notin Malformed
    BY <1>11, Zenon DEF RejectInvalid, ToDeadLetter, HasHandler
  <2>2. "invalid" # "malformed" /\ "invalid" # "none"
    OBVIOUS
  <2>. QED  BY <2>1, <2>2, ReasonMoves
<1>12. ASSUME NEW m \in Members, NEW t \in Topics, BeginHandling(m, t) PROVE Reasoned'
  <2>1. /\ UNCHANGED <<log, cur>> /\ Record(m, t) \notin Malformed /\ pc[m][t] = "dispatch"
        /\ \/ Goto(m, t, "handle") /\ UNCHANGED reason
           \/ Goto(m, t, "deadLetter") /\ reason' = [reason EXCEPT ![m][t] = "exhausted"]
    BY <1>12, Zenon DEF BeginHandling, ToDeadLetter, HasHandler
  <2>2. CASE Goto(m, t, "handle") /\ UNCHANGED reason
    <3>1. reason[m][t] = "none"
      BY <2>1 DEF Reasoned, Reason
    <3>2. reason' = [reason EXCEPT ![m][t] = "none"]
      BY <1>a, <2>2, <3>1
    <3>. QED  BY <2>1, <2>2, <3>2, ReasonMoves
  <2>3. CASE Goto(m, t, "deadLetter") /\ reason' = [reason EXCEPT ![m][t] = "exhausted"]
    BY <2>1, <2>3, ReasonMoves
  <2>. QED  BY <2>1, <2>2, <2>3
<1>13. ASSUME NEW m \in Members, NEW t \in Topics, HandlerFails(m, t) PROVE Reasoned'
  <2>1. /\ UNCHANGED <<log, cur>> /\ pc[m][t] = "handle"
        /\ \/ UNCHANGED <<pc, reason>>
           \/ Goto(m, t, "deadLetter") /\ reason' = [reason EXCEPT ![m][t] = "exhausted"]
    BY <1>13, Zenon DEF HandlerFails, ToDeadLetter
  <2>2. Record(m, t) \notin Malformed
    BY <2>1 DEF Reasoned, Reason
  <2>3. CASE UNCHANGED <<pc, reason>>
    BY <1>1, <2>1, <2>3
  <2>4. CASE Goto(m, t, "deadLetter") /\ reason' = [reason EXCEPT ![m][t] = "exhausted"]
    BY <2>1, <2>2, <2>4, ReasonMoves
  <2>. QED  BY <2>1, <2>3, <2>4
<1>. QED
  BY <1>2, <1>3, <1>4a, <1>4, <1>5, <1>7, <1>8, <1>9, <1>10, <1>11, <1>12, <1>13, <1>14, <1>15,
     <1>16, <1>17
     DEF GroupStep, LifeStep, Consume, GiveUp, Crash, Restart

\* The topic's health changes with the goroutine that reports, or is forgotten.
LEMMA HealthKinds ==
  ASSUME IInv, [GroupStep]_vars
  PROVE  \/ UNCHANGED health
         \/ \E m \in Members : Crash(m) \/ Restart(m)
         \/ \E m \in Members, t \in Topics : Report(m, t)
<1>. USE DEF broker, member, worker, history, vars
<1>1. TypeOK
  BY DEF IInv
<1>2. ASSUME NEW m \in Members, NEW t \in Topics, Consume(m, t) \/ GiveUp(m, t)
      PROVE  UNCHANGED health \/ Report(m, t)
  <2>1. ASSUME NEW p \in Partitions, Fetch(m, t, p) PROVE UNCHANGED health
    BY <2>1, Zenon DEF Fetch
  <2>2. ASSUME NEW f \in Fates, Settles(m, t, f) PROVE UNCHANGED health
    BY <2>2, Zenon DEF Settles
  <2>3. ASSUME Calls(m, t) PROVE UNCHANGED health
    BY <2>3, Zenon DEF Calls
  <2>. QED  BY <1>1, <1>2, <2>1, <2>2, <2>3, WorkCases
<1>3. CASE Appended \/ UNCHANGED vars
  BY <1>3, Zenon DEF Appended
<1>4. ASSUME NEW p \in Partitions, Revoke(p) \/ \E m \in Members : Assign(m, p)
      PROVE  UNCHANGED health
  BY <1>4, Zenon DEF Revoke, Assign
<1>5. CASE LifeStep
  BY <1>5, Zenon DEF LifeStep, Subscribe, Start, Cancel, Close, StartReturns
<1>. QED  BY <1>2, <1>3, <1>4, <1>5, Zenon DEF GroupStep

LEMMA RowsInv ==
  IInv /\ SettledInLog /\ Reasoned /\ RowsAreTrue /\ [GroupStep]_vars => RowsAreTrue'
<1>. SUFFICES ASSUME IInv, SettledInLog, Reasoned, RowsAreTrue, [GroupStep]_vars,
                     NEW n \in Members, NEW u \in Topics
              PROVE  RowIsTrue(n, u)'
  BY DEF RowsAreTrue
<1>1. /\ health \in [Members -> [Topics -> [last : Nat \cup {NoOffset}, failed : BOOLEAN]]]
      /\ RowIsTrue(n, u)
  BY DEF IInv, TypeOK, MemberTypeOK, RowsAreTrue
<1>5. GivenUp(u) \subseteq GivenUp(u)' /\ \A p \in Partitions : Settled(p) \subseteq Settled(p)'
  BY GivenUpGrows, SettledGrows
<1>2. ASSUME health'[n][u] = health[n][u] PROVE RowIsTrue(n, u)'
  BY <1>1, <1>2, <1>5 DEF RowIsTrue
<1>3. ASSUME NEW m \in Members, Crash(m) \/ Restart(m) PROVE RowIsTrue(n, u)'
  <2>1. health' = [health EXCEPT ![m] = [t \in Topics |-> NoHealth]]
    BY <1>3, Zenon DEF Crash, Restart, Fresh
  <2>2. health'[n][u] = NoHealth \/ health'[n][u] = health[n][u]
    BY <1>1, <2>1
  <2>3. health'[n][u] = NoHealth => RowIsTrue(n, u)'
    BY DEF NoHealth, RowIsTrue
  <2>. QED  BY <1>2, <2>2, <2>3
<1>4. ASSUME NEW m \in Members, NEW t \in Topics, Report(m, t) PROVE RowIsTrue(n, u)'
  <2>0. PICK q, i : q = PartOf(m, t) /\ i = OffsetOf(m, t)
    OBVIOUS
  <2>1. q \in Partitions /\ TopicOf[q] = t /\ i \in Nat /\ i \in Settled(q)
    BY <1>4, <2>0 DEF Report, IInv, TypeOK, HeldInLog, HeldAfterSettled, Busy, PartOf, OffsetOf
  <2>2. \/ health' = [health EXCEPT ![m][t] = [last |-> i, failed |-> @.failed]]
        \/ health' = [health EXCEPT ![m][t] = [last |-> i, failed |-> TRUE]] /\ reason[m][t] # "none"
    BY <1>4, <2>0, Zenon DEF Report, recordSuccess, recordFailure
  <2>3. CASE ~(n = m /\ u = t)
    <3>1. health'[n][u] = health[n][u]
      BY <1>1, <2>2, <2>3
    <3>. QED  BY <1>2, <3>1
  <2>4. CASE n = m /\ u = t
    <3>0. i # NoOffset /\ \E p \in Partitions : TopicOf[p] = u /\ i \in Settled(p)'
      BY <1>5, <2>1, <2>4 DEF NoOffset
    <3>2. CASE health' = [health EXCEPT ![m][t] = [last |-> i, failed |-> @.failed]]
      <4>1. health'[n][u] = [last |-> i, failed |-> health[n][u].failed]
        BY <1>1, <2>4, <3>2
      <4>2. health'[n][u].last = i /\ health'[n][u].failed = health[n][u].failed
        BY <4>1
      <4>. QED  BY <1>1, <1>5, <3>0, <4>2 DEF RowIsTrue
    <3>3. CASE health' = [health EXCEPT ![m][t] = [last |-> i, failed |-> TRUE]] /\ reason[m][t] # "none"
      <4>1. health'[n][u] = [last |-> i, failed |-> TRUE]
        BY <1>1, <2>4, <3>3
      <4>2. health'[n][u].last = i
        BY <4>1
      <4>3. GivenUp(u) # {}
        BY <1>4, <2>4, <3>3 DEF Report, Reasoned, Reason
      <4>. QED  BY <1>5, <3>0, <4>2, <4>3 DEF RowIsTrue
    <3>. QED  BY <2>2, <3>2, <3>3
  <2>. QED  BY <2>3, <2>4
<1>. QED  BY <1>2, <1>3, <1>4, HealthKinds

\* Without a disruption no process ends and none is closed.
LEMMA LivesOn ==
  ASSUME IInv, Undisturbed, [GroupStep]_vars, disruptions' = 0
  PROVE  /\ disruptions = 0
         /\ \A m \in Members : life'[m] \in {"new", "running"} /\ ~closed'[m]
         /\ \A m \in Members : ~(Crash(m) \/ Restart(m))
<1>. USE DEF broker, member, worker, history, vars
<1>1. /\ disruptions \in Nat /\ life \in [Members -> Lives] /\ closed \in [Members -> BOOLEAN]
  BY ConsumerAssumption DEF IInv, TypeOK, MemberTypeOK, HistoryTypeOK
<1>2. ~Disrupt
  BY <1>1 DEF Disrupt
<1>3. CASE UNCHANGED <<life, closed, disruptions>>
  BY <1>2, <1>3, Zenon DEF Undisturbed, Crash, Restart
<1>4. ASSUME NEW m \in Members, NEW t \in Topics, Consume(m, t) \/ GiveUp(m, t)
      PROVE  UNCHANGED <<life, closed, disruptions>>
  <2>1. TypeOK
    BY DEF IInv
  <2>2. ASSUME NEW p \in Partitions, Fetch(m, t, p) PROVE UNCHANGED <<life, closed, disruptions>>
    BY <2>2, Zenon DEF Fetch
  <2>3. ASSUME NEW f \in Fates, Settles(m, t, f) PROVE UNCHANGED <<life, closed, disruptions>>
    BY <2>3, Zenon DEF Settles
  <2>4. ASSUME Calls(m, t) PROVE UNCHANGED <<life, closed, disruptions>>
    BY <2>4, Zenon DEF Calls
  <2>. QED  BY <1>4, <2>1, <2>2, <2>3, <2>4, WorkCases
<1>5. CASE Appended \/ UNCHANGED vars
  BY <1>3, <1>5, Zenon DEF Appended
<1>6. ASSUME NEW p \in Partitions, Revoke(p) PROVE FALSE
  BY <1>2, <1>6 DEF Revoke
<1>7. ASSUME NEW m \in Members, NEW p \in Partitions, Assign(m, p) PROVE UNCHANGED <<life, closed, disruptions>>
  BY <1>7, Zenon DEF Assign
<1>8. ASSUME NEW m \in Members, NEW e \in Handled, Subscribe(m, e)
      PROVE  UNCHANGED <<life, closed, disruptions>>
  BY <1>8, Zenon DEF Subscribe
<1>9. ASSUME NEW m \in Members, Start(m)
      PROVE  /\ disruptions = 0
             /\ \A n \in Members : life'[n] \in {"new", "running"} /\ ~closed'[n]
             /\ \A n \in Members : ~(Crash(n) \/ Restart(n))
  <2>1. life' = [life EXCEPT ![m] = "running"] /\ UNCHANGED <<closed, disruptions>>
    BY <1>9, Zenon DEF Start
  <2>2. disruptions = 0 /\ \A n \in Members : life[n] \in {"new", "running"} /\ ~closed[n]
    BY <2>1 DEF Undisturbed
  <2>3. \A n \in Members : ~(Crash(n) \/ Restart(n))
    BY <1>2, <2>2 DEF Crash, Restart
  <2>. QED  BY <1>1, <2>1, <2>2, <2>3
<1>10. ASSUME NEW m \in Members, \/ Cancel(m) \/ Close(m) \/ StartReturns(m) \/ Crash(m) \/ Restart(m)
       PROVE  FALSE
  <2>1. CASE Close(m) \/ Crash(m)
    BY <1>2, <2>1 DEF Close, Crash
  <2>2. CASE Cancel(m) \/ StartReturns(m) \/ Restart(m)
    <3>1. disruptions = 0
      BY <1>2, <2>2, Zenon DEF Cancel, StartReturns, Restart
    <3>2. life[m] \in {"new", "running"} /\ ~closed[m]
      BY <3>1 DEF Undisturbed
    <3>. QED  BY <1>2, <2>2, <3>2 DEF Cancel, StartReturns, Restart
  <2>. QED  BY <1>10, <2>1, <2>2
<1>. QED
  BY <1>3, <1>4, <1>5, <1>6, <1>7, <1>8, <1>9, <1>10 DEF GroupStep, LifeStep

\* A goroutine that is about to report does so, unless its process ends.
LEMMA ReportComes ==
  ASSUME IInv, [GroupStep]_vars, NEW n \in Members, NEW u \in Topics, pc[n][u] = "report"
  PROVE  \/ pc'[n][u] = pc[n][u] /\ reason'[n][u] = reason[n][u]
         \/ Report(n, u) \/ Crash(n) \/ Restart(n)
<1>. USE DEF broker, member, worker, history, vars
<1>0. /\ pc \in [Members -> [Topics -> PCs]] /\ reason \in [Members -> [Topics -> Reasons]]
      /\ life[n] # "new"
  BY DEF IInv, TypeOK, GoroutineTypeOK, NewIsIdle
<1>1. ASSUME NEW m \in Members, NEW t \in Topics, Consume(m, t) \/ GiveUp(m, t)
      PROVE  (pc'[n][u] = pc[n][u] /\ reason'[n][u] = reason[n][u]) \/ Report(n, u)
  <2>1. CASE n = m /\ u = t
    BY <1>1, <2>1 DEF Consume, GiveUp, Fetch, FetchFails, StopConsuming, RejectMalformed,
          SkipUnhandled, RejectInvalid, BeginHandling, HandlerSucceeds, HandlerFails,
          CommitApplied, CommitFails, Committing, DeadLetter, DeadLetterReturns
  <2>2. CASE ~(n = m /\ u = t)
    <3>1. /\ UNCHANGED pc \/ \E x : pc' = [pc EXCEPT ![m][t] = x]
          /\ UNCHANGED reason \/ \E why : reason' = [reason EXCEPT ![m][t] = why]
      BY <1>1, Zenon DEF Consume, GiveUp, Fetch, FetchFails, StopConsuming, RejectMalformed,
          SkipUnhandled, RejectInvalid, BeginHandling, HandlerSucceeds, HandlerFails, Report,
          CommitApplied, CommitFails, Committing, DeadLetter, DeadLetterReturns, ToDeadLetter, Goto
    <3>. QED  BY <1>0, <2>2, <3>1
  <2>. QED  BY <2>1, <2>2
<1>2. CASE UNCHANGED <<pc, reason>>
  BY <1>2
<1>3. CASE Appended \/ UNCHANGED vars
  BY <1>2, <1>3, Zenon DEF Appended
<1>4. ASSUME NEW p \in Partitions, Revoke(p) \/ \E m \in Members : Assign(m, p)
      PROVE  UNCHANGED <<pc, reason>>
  BY <1>4, Zenon DEF Revoke, Assign
<1>5. ASSUME NEW m \in Members, NEW e \in Handled, Subscribe(m, e) PROVE UNCHANGED <<pc, reason>>
  BY <1>5, Zenon DEF Subscribe
<1>6. ASSUME NEW m \in Members, Cancel(m) \/ Close(m) \/ StartReturns(m) PROVE UNCHANGED <<pc, reason>>
  BY <1>6, Zenon DEF Cancel, Close, StartReturns
<1>7. ASSUME NEW m \in Members, Start(m) PROVE pc'[n][u] = pc[n][u] /\ reason'[n][u] = reason[n][u]
  BY <1>0, <1>7 DEF Start
<1>8. ASSUME NEW m \in Members, Crash(m) \/ Restart(m)
      PROVE  \/ pc'[n][u] = pc[n][u] /\ reason'[n][u] = reason[n][u]
             \/ Crash(n) \/ Restart(n)
  <2>1. /\ pc' = [pc EXCEPT ![m] = [t \in Topics |-> "off"]]
        /\ reason' = [reason EXCEPT ![m] = [t \in Topics |-> "none"]]
    BY <1>8, Zenon DEF Crash, Restart, Fresh
  <2>2. n # m => pc'[n] = pc[n] /\ reason'[n] = reason[n]
    BY <1>0, <2>1
  <2>. QED  BY <1>8, <2>2
<1>. QED  BY <1>1, <1>2, <1>3, <1>4, <1>5, <1>6, <1>7, <1>8 DEF GroupStep, LifeStep

\* So does one that waits for DeadLetterFunc.
LEMMA SendingComes ==
  ASSUME IInv, [GroupStep]_vars, NEW n \in Members, NEW u \in Topics, pc[n][u] = "sending"
  PROVE  \/ pc'[n][u] = pc[n][u] /\ cur'[n][u] = cur[n][u]
         \/ DeadLetterReturns(n, u) \/ Crash(n) \/ Restart(n)
<1>. USE DEF broker, member, worker, history, vars
<1>0. /\ pc \in [Members -> [Topics -> PCs]] /\ life[n] # "new"
      /\ cur \in [Members -> [Topics -> (Partitions \X Nat) \cup {NoMsg}]]
  BY DEF IInv, TypeOK, GoroutineTypeOK, NewIsIdle
<1>1. ASSUME NEW m \in Members, NEW t \in Topics, Consume(m, t) \/ GiveUp(m, t)
      PROVE  (pc'[n][u] = pc[n][u] /\ cur'[n][u] = cur[n][u]) \/ DeadLetterReturns(n, u)
  <2>1. CASE n = m /\ u = t
    BY <1>1, <2>1 DEF Consume, GiveUp, Fetch, FetchFails, StopConsuming, RejectMalformed,
          SkipUnhandled, RejectInvalid, BeginHandling, HandlerSucceeds, HandlerFails, Report,
          CommitApplied, CommitFails, Committing, DeadLetter
  <2>2. CASE ~(n = m /\ u = t)
    <3>1. /\ UNCHANGED pc \/ \E x : pc' = [pc EXCEPT ![m][t] = x]
          /\ UNCHANGED cur \/ \E c : cur' = [cur EXCEPT ![m][t] = c]
      BY <1>1, Zenon DEF Consume, GiveUp, Fetch, FetchFails, StopConsuming, RejectMalformed,
          SkipUnhandled, RejectInvalid, BeginHandling, HandlerSucceeds, HandlerFails, Report,
          CommitApplied, CommitFails, Committing, DeadLetter, DeadLetterReturns, ToDeadLetter, Goto
    <3>. QED  BY <1>0, <2>2, <3>1
  <2>. QED  BY <2>1, <2>2
<1>2. CASE UNCHANGED <<pc, cur>>
  BY <1>2
<1>3. CASE Appended \/ UNCHANGED vars
  BY <1>2, <1>3, Zenon DEF Appended
<1>4. ASSUME NEW p \in Partitions, Revoke(p) \/ \E m \in Members : Assign(m, p)
      PROVE  UNCHANGED <<pc, cur>>
  BY <1>4, Zenon DEF Revoke, Assign
<1>5. ASSUME NEW m \in Members, (\E e \in Handled : Subscribe(m, e)) \/ Cancel(m) \/ Close(m) \/ StartReturns(m)
      PROVE  UNCHANGED <<pc, cur>>
  BY <1>5, Zenon DEF Subscribe, Cancel, Close, StartReturns
<1>6. ASSUME NEW m \in Members, Start(m) PROVE pc'[n][u] = pc[n][u] /\ cur'[n][u] = cur[n][u]
  BY <1>0, <1>6 DEF Start
<1>7. ASSUME NEW m \in Members, Crash(m) \/ Restart(m)
      PROVE  \/ pc'[n][u] = pc[n][u] /\ cur'[n][u] = cur[n][u]
             \/ Crash(n) \/ Restart(n)
  <2>1. /\ pc' = [pc EXCEPT ![m] = [t \in Topics |-> "off"]]
        /\ cur' = [cur EXCEPT ![m] = [t \in Topics |-> NoMsg]]
    BY <1>7, Zenon DEF Crash, Restart, Fresh
  <2>2. n # m => pc'[n] = pc[n] /\ cur'[n] = cur[n]
    BY <1>0, <2>1
  <2>. QED  BY <1>7, <2>2
<1>. QED  BY <1>1, <1>2, <1>3, <1>4, <1>5, <1>6, <1>7 DEF GroupStep, LifeStep

LEMMA UndisturbedInv == PagesInv /\ IInv /\ [GroupStep]_vars => Undisturbed'
<1>. SUFFICES ASSUME PagesInv, IInv, [GroupStep]_vars, disruptions' = 0
              PROVE  /\ \A m \in Members : life'[m] \in {"new", "running"} /\ ~closed'[m]
                     /\ \A t \in Topics :
                          GivenUp(t)' # {} => Unreported(t)' \/ \E m \in Members : health'[m][t].failed
  BY DEF Undisturbed
<1>0. SettledInLog /\ WithinMax /\ Reasoned /\ Undisturbed
  BY DEF PagesInv
<1>1. /\ disruptions = 0
      /\ \A m \in Members : life'[m] \in {"new", "running"} /\ ~closed'[m]
      /\ \A m \in Members : ~(Crash(m) \/ Restart(m))
  BY <1>0, LivesOn
<1>2. /\ health \in [Members -> [Topics -> [last : Nat \cup {NoOffset}, failed : BOOLEAN]]]
      /\ fate \in [Partitions -> SUBSET (Nat \X Fates)]
      /\ pc \in [Members -> [Topics -> PCs]]
  BY DEF IInv, TypeOK, MemberTypeOK, HistoryTypeOK, GoroutineTypeOK
<1>3. ASSUME NEW u \in Topics, GivenUp(u) # {}
      PROVE  Unreported(u)' \/ \E n \in Members : health'[n][u].failed
  <2>1. CASE Unreported(u)
    <3>1. PICK n \in Members : pc[n][u] = "report" /\ reason[n][u] # "none"
      BY <2>1 DEF Unreported
    <3>2. CASE pc'[n][u] = pc[n][u] /\ reason'[n][u] = reason[n][u]
      BY <3>1, <3>2 DEF Unreported
    <3>3. CASE Report(n, u)
      <4>1. recordFailure(n, u)
        BY <3>1, <3>3, Zenon DEF Report
      <4>2. health'[n][u].failed = TRUE
        BY <1>2, <4>1 DEF recordFailure
      <4>. QED  BY <4>2
    <3>. QED  BY <1>1, <3>1, <3>2, <3>3, ReportComes
  <2>2. CASE \E n \in Members : health[n][u].failed
    <3>1. PICK n \in Members : health[n][u].failed
      BY <2>2
    <3>2. ASSUME NEW m \in Members, NEW t \in Topics, Report(m, t) PROVE health'[n][u].failed
      <4>0. PICK i : i = OffsetOf(m, t)
        OBVIOUS
      <4>1. \/ health' = [health EXCEPT ![m][t] = [last |-> i, failed |-> @.failed]]
            \/ health' = [health EXCEPT ![m][t] = [last |-> i, failed |-> TRUE]]
        BY <3>2, <4>0, Zenon DEF Report, recordSuccess, recordFailure
      <4>2. CASE health' = [health EXCEPT ![m][t] = [last |-> i, failed |-> @.failed]]
        <5>1. health'[n][u] = health[n][u] \/ health'[n][u] = [last |-> i, failed |-> health[n][u].failed]
          BY <1>2, <4>2
        <5>. QED  BY <3>1, <5>1
      <4>3. CASE health' = [health EXCEPT ![m][t] = [last |-> i, failed |-> TRUE]]
        <5>1. health'[n][u] = health[n][u] \/ health'[n][u] = [last |-> i, failed |-> TRUE]
          BY <1>2, <4>3
        <5>. QED  BY <3>1, <5>1
      <4>. QED  BY <4>1, <4>2, <4>3
    <3>. QED  BY <1>1, <3>1, <3>2, HealthKinds
  <2>. QED  BY <1>0, <1>1, <1>3, <2>1, <2>2 DEF Undisturbed
<1>4. ASSUME NEW u \in Topics, NEW x \in GivenUp(u)'
      PROVE  Unreported(u)' \/ \E n \in Members : health'[n][u].failed
  <2>1. CASE \A f \in {"deadLettered", "dropped"} :
               <<x.offset, f>> \in fate'[x.partition] => <<x.offset, f>> \in fate[x.partition]
    BY <1>0, <1>3, <2>1, GivenUpSame
  <2>2. ASSUME NEW g \in {"deadLettered", "dropped"},
               <<x.offset, g>> \in fate'[x.partition], <<x.offset, g>> \notin fate[x.partition]
        PROVE  Unreported(u)'
    <3>1. /\ x.partition \in Partitions /\ TopicOf[x.partition] = u
          /\ log'[x.partition][x.offset + 1] \notin Malformed
      BY DEF GivenUp
    <3>2. PICK m \in Members, t \in Topics, f \in Fates : Settles(m, t, f)
      <4>1. CASE UNCHANGED fate
        BY <2>2, <4>1
      <4>2. ASSUME NEW m \in Members, NEW q \in Partitions, Assign(m, q) PROVE FALSE
        <5>. DEFINE back == {<<o, "skippedAtStart">> : o \in Below(Len(log[q]))}
        <5>1. UNCHANGED fate \/ fate' = [fate EXCEPT ![q] = @ \cup back]
          BY <4>2, Zenon DEF Assign
        <5>2. \A h \in back : h[2] = "skippedAtStart"
          OBVIOUS
        <5>3. <<x.offset, g>>[2] # "skippedAtStart"
          OBVIOUS
        <5>. HIDE DEF back
        <5>4. <<x.offset, g>> \in back
          BY <1>2, <2>2, <3>1, <5>1
        <5>. QED  BY <5>2, <5>3, <5>4
      <4>. QED  BY <4>1, <4>2, StepKinds DEF Idles, Fetch, Calls
    <3>0. PICK q, i : q = PartOf(m, t) /\ i = OffsetOf(m, t)
      OBVIOUS
    <3>3. /\ q \in Partitions /\ TopicOf[q] = t /\ fate' = [fate EXCEPT ![q] = @ \cup {<<i, f>>}]
          /\ log'[q][i + 1] = Record(m, t)
          /\ f \in {"deadLettered", "dropped"} /\ Record(m, t) \notin Malformed =>
               Goto(m, t, "report") /\ UNCHANGED reason /\ reason[m][t] # "none"
      BY <1>0, <3>0, <3>2, SettleIsTrue
    <3>4. x.partition = q /\ <<x.offset, g>> = <<i, f>>
      BY <1>2, <2>2, <3>1, <3>3
    <3>5. x.offset = i /\ g = f /\ u = t
      BY <3>1, <3>3, <3>4
    <3>6. Goto(m, t, "report") /\ UNCHANGED reason /\ reason[m][t] # "none"
      BY <3>1, <3>3, <3>4, <3>5
    <3>7. pc'[m][u] = "report"
      BY <1>2, <3>5, <3>6 DEF Goto
    <3>. QED  BY <3>5, <3>6, <3>7 DEF Unreported
  <2>. QED  BY <2>1, <2>2
<1>. QED  BY <1>1, <1>4

LEMMA PagesStep == IInv /\ PagesInv /\ [GroupStep]_vars => PagesInv'
BY InLogInv, ReasonInv, RowsInv, UndisturbedInv DEF PagesInv

LEMMA InitPages == Init => PagesInv
<1>. SUFFICES ASSUME Init PROVE PagesInv
  OBVIOUS
<1>1. \A p \in Partitions : fate[p] = {} /\ Settled(p) = {} /\ log[p] = <<>>
  BY DEF Init, Settled
<1>2. SettledInLog /\ WithinMax
  BY <1>1, ConsumerAssumption DEF SettledInLog, WithinMax
<1>3. Reasoned
  BY DEF Init, Reasoned, Reason
<1>4. RowsAreTrue
  BY DEF Init, RowsAreTrue, RowIsTrue, NoHealth
<1>5. \A t \in Topics : GivenUp(t) = {}
  BY <1>1 DEF GivenUp
<1>6. Undisturbed
  BY <1>5 DEF Init, Undisturbed
<1>. QED  BY <1>2, <1>3, <1>4, <1>6 DEF PagesInv

LEMMA PagesTell == IInv /\ PagesInv => HealthIsTrue
<1>. SUFFICES ASSUME IInv, PagesInv PROVE HealthIsTrue
  OBVIOUS
<1>1. /\ health \in [Members -> [Topics -> [last : Nat \cup {NoOffset}, failed : BOOLEAN]]]
      /\ RowsAreTrue /\ Undisturbed
  BY DEF IInv, TypeOK, MemberTypeOK, PagesInv
<1>2. \A row : IsDegraded(row) <=> row.failed
  BY DEF IsDegraded, Lag
<1>3. ASSUME NEW m \in Members, NEW row \in Health(m)
      PROVE  \E t \in Topics : /\ row.topic = t /\ row.lastOffset = health[m][t].last
                              /\ row.failed = health[m][t].failed /\ health[m][t].last # NoOffset
  BY DEF Health
<1>4. ASSUME NEW m \in Members, NEW row \in HealthzHandler(m).topics
      PROVE  /\ \E p \in Partitions : TopicOf[p] = row.topic /\ row.lastOffset \in Settled(p)
             /\ IsDegraded(row) => GivenUp(row.topic) # {}
  <2>1. row \in Health(m)
    BY DEF HealthzHandler
  <2>2. PICK t \in Topics : /\ row.topic = t /\ row.lastOffset = health[m][t].last
                           /\ row.failed = health[m][t].failed /\ health[m][t].last # NoOffset
    BY <1>3, <2>1
  <2>3. RowIsTrue(m, t)
    BY <1>1 DEF RowsAreTrue
  <2>. QED  BY <1>2, <2>2, <2>3 DEF RowIsTrue
<1>5. ASSUME disruptions = 0, NEW t \in Topics, GivenUp(t) # {}
      PROVE  Unreported(t) \/ \E row \in UNION {Health(m) : m \in Members} : IsDegraded(row)
  <2>1. CASE \E m \in Members : health[m][t].failed
    <3>1. PICK m \in Members : health[m][t].failed
      BY <2>1
    <3>2. health[m][t].last # NoOffset
      BY <1>1, <3>1 DEF RowsAreTrue, RowIsTrue
    <3>. DEFINE row == [topic |-> t, lastOffset |-> health[m][t].last, failed |-> health[m][t].failed]
    <3>3. row \in Health(m) /\ row.failed
      BY <3>1, <3>2 DEF Health
    <3>. QED  BY <1>2, <3>3
  <2>. QED  BY <1>1, <1>5, <2>1 DEF Undisturbed
<1>6. ConsumersHealthzHandler(Members).status = "degraded"
        <=> \E row \in UNION {Health(m) : m \in Members} : IsDegraded(row)
  BY DEF ConsumersHealthzHandler
<1>. QED  BY <1>4, <1>5, <1>6 DEF HealthIsTrue

\* The health pages name settled records only, are degraded only by a record that
\* was given up, and until the first disruption are degraded if there is one, but
\* for the moment between the return of DeadLetterFunc and recordFailure.
THEOREM PagesAreTrue == Spec => []HealthIsTrue
<1>1. Init => IInv /\ PagesInv
  BY InitInv, InitPages
<1>2. IInv /\ PagesInv /\ [Next]_vars => IInv' /\ PagesInv'
  BY NextIsGroupStep, NextInv, PagesStep
<1>. QED  BY <1>1, <1>2, PagesTell, PTL DEF Spec

============================================================================
