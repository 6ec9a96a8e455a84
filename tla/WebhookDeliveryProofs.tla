----------------------- MODULE WebhookDeliveryProofs -----------------------
(* What holds of sender and receiver for every number of deliveries and     *)
(* attempts, all keys and bodies and every time to live.                    *)
EXTENDS WebhookDelivery, TLAPS

USE DEF sender, receiver, vars

-----------------------------------------------------------------------------
(* The invariant.                                                           *)

Requests == [at : Places, code : Codes]

SenderTypeOK ==
  /\ status \in [Deliveries -> Statuses] /\ attempts \in [Deliveries -> 0..MaxAttempts]
  /\ wait \in [Deliveries -> 0..600]

ReceiverTypeOK ==
  /\ refusal \in [Deliveries -> {0} \cup Refusals]
  /\ age \in [Keys -> 0..Forgotten] /\ idle \in [Keys -> 0..Forgotten]
  /\ handled \subseteq Deliveries /\ restarts \in 0..MaxRestarts

TypeOK == /\ SenderTypeOK /\ ReceiverTypeOK
          /\ request \in [Deliveries -> [Attempts -> Requests]]

\* What is due may be sent once more, and an answer belongs to an attempt.
AttemptsCounted ==
  \A d \in Deliveries : /\ status[d] = "due" => attempts[d] < MaxAttempts
                        /\ status[d] = "sent" => attempts[d] \in Attempts

\* Only a handler that returned nil answers 202.
AcceptedWasHandled ==
  \A d \in Deliveries, n \in Attempts : request[d][n].code = 202 => d \in handled

\* The store knows how long ago a handler was started for a key.
StoreRemembers == \A k \in Keys : age[k] = idle[k]

IInv == /\ TypeOK /\ AttemptsCounted /\ StoreRemembers
        /\ AcceptedWasHandled /\ DeliveredWasHandled

LEMMA InitInv == Init => IInv
<1>. SUFFICES ASSUME Init PROVE IInv
  OBVIOUS
<1>. USE WebhookAssumption DEF Init
<1>1. TypeOK
  BY DEF TypeOK, SenderTypeOK, ReceiverTypeOK, Statuses, Requests, Places, Codes, Forgotten
<1>2. AttemptsCounted /\ StoreRemembers /\ DeliveredWasHandled
  BY DEF AttemptsCounted, StoreRemembers, DeliveredWasHandled
<1>3. AcceptedWasHandled
  BY DEF AcceptedWasHandled
<1>. QED  BY <1>1, <1>2, <1>3 DEF IInv

-----------------------------------------------------------------------------
(* Attempts.                                                                *)

\* An attempt moves, and is answered 202 for a delivery that was handled only.
LEMMA PutKeeps ==
  ASSUME IInv, NEW d \in Deliveries, NEW n \in Attempts, NEW at \in Places, NEW code \in Codes,
         Put(d, n, at, code), handled \subseteq handled', code = 202 => d \in handled'
  PROVE  /\ request' \in [Deliveries -> [Attempts -> Requests]]
         /\ AcceptedWasHandled'
<1>1. request \in [Deliveries -> [Attempts -> Requests]]
  BY DEF IInv, TypeOK
<1>2. request' = [request EXCEPT ![d] = [request[d] EXCEPT ![n] = [at |-> at, code |-> code]]]
  BY DEF Put
<1>3. [at |-> at, code |-> code] \in Requests
  BY DEF Requests
<1>4. /\ request'[d] = [request[d] EXCEPT ![n] = [at |-> at, code |-> code]]
      /\ \A e \in Deliveries \ {d} : request'[e] = request[e]
  BY <1>1, <1>2
<1>5. request' \in [Deliveries -> [Attempts -> Requests]]
  <2>1. request'[d] \in [Attempts -> Requests]
    BY <1>1, <1>3, <1>4
  <2>. QED  BY <1>1, <1>2, <2>1
<1>6. ASSUME NEW e \in Deliveries, NEW m \in Attempts, request'[e][m].code = 202
      PROVE  e \in handled'
  <2>1. CASE e = d /\ m = n
    BY <1>1, <1>4, <1>6, <2>1
  <2>2. CASE ~(e = d /\ m = n)
    <3>1. request'[e][m] = request[e][m]
      BY <1>1, <1>4, <2>2
    <3>. QED  BY <1>6, <3>1 DEF IInv, AcceptedWasHandled
  <2>. QED  BY <2>1, <2>2
<1>. QED  BY <1>5, <1>6 DEF AcceptedWasHandled

LEMMA RefusalsAreCodes ==
  /\ {0} \cup Refusals \subseteq Codes
  /\ 202 \notin {0} \cup Refusals
  /\ {0, 202, 409, 502} \subseteq Codes
BY WebhookAssumption DEF Codes

LEMMA NetworkKeeps ==
  ASSUME IInv, NEW d \in Deliveries, NEW n \in Attempts, LoseRequest(d, n) \/ LoseAnswer(d, n)
  PROVE  IInv'
<1>1. UNCHANGED <<status, attempts, wait, age, idle, handled, restarts, refusal>>
  BY DEF LoseRequest, LoseAnswer
<1>2. request[d][n] \in Requests
  BY DEF IInv, TypeOK
<1>3. \E code \in Codes : Put(d, n, "gone", code) /\ (code = 202 => d \in handled)
  BY <1>2, RefusalsAreCodes
     DEF LoseRequest, LoseAnswer, Requests, IInv, AcceptedWasHandled
<1>4. request' \in [Deliveries -> [Attempts -> Requests]] /\ AcceptedWasHandled'
  BY <1>1, <1>3, PutKeeps DEF Places
<1>. QED  BY <1>1, <1>4 DEF IInv, TypeOK, SenderTypeOK, ReceiverTypeOK, AttemptsCounted,
                            StoreRemembers, DeliveredWasHandled

LEMMA HandleKeeps ==
  ASSUME IInv, NEW d \in Deliveries, NEW n \in Attempts, HandleStep(d, n)
  PROVE  IInv'
<1>1. UNCHANGED <<status, attempts, wait, restarts, refusal>>
  BY DEF HandleStep, Refuse, Duplicate, StartHandler, HandlerSucceeds, HandlerFails, HandlerPanics
<1>2. handled \subseteq handled' /\ handled' \subseteq Deliveries
  BY DEF HandleStep, Refuse, Duplicate, StartHandler, HandlerSucceeds, HandlerFails,
         HandlerPanics, IInv, TypeOK, ReceiverTypeOK
<1>3. refusal[d] \in Codes /\ refusal[d] # 202
  BY RefusalsAreCodes DEF IInv, TypeOK, ReceiverTypeOK
<1>4. \E at \in Places, code \in Codes : Put(d, n, at, code) /\ (code = 202 => d \in handled')
  BY <1>3, RefusalsAreCodes
     DEF HandleStep, Refuse, Duplicate, StartHandler, HandlerSucceeds, HandlerFails,
         HandlerPanics, Places
<1>5. request' \in [Deliveries -> [Attempts -> Requests]] /\ AcceptedWasHandled'
  BY <1>2, <1>4, PutKeeps
<1>6. age' \in [Keys -> 0..Forgotten] /\ idle' \in [Keys -> 0..Forgotten] /\ StoreRemembers'
  <2>. DEFINE key == KeyOf(d)
  <2>1. \/ UNCHANGED <<age, idle>>
        \/ age' = [age EXCEPT ![key] = 0] /\ idle' = [idle EXCEPT ![key] = 0]
    BY DEF HandleStep, Refuse, Duplicate, StartHandler, HandlerSucceeds, HandlerFails, HandlerPanics
  <2>2. /\ age \in [Keys -> 0..Forgotten] /\ idle \in [Keys -> 0..Forgotten]
        /\ \A k \in Keys : age[k] = idle[k]
    BY DEF IInv, TypeOK, ReceiverTypeOK, StoreRemembers
  <2>3. 0 \in 0..Forgotten
    BY WebhookAssumption DEF Forgotten
  <2>. HIDE DEF key
  <2>. QED  BY <2>1, <2>2, <2>3 DEF StoreRemembers
<1>. QED  BY <1>1, <1>2, <1>5, <1>6 DEF IInv, TypeOK, SenderTypeOK, ReceiverTypeOK,
                                         AttemptsCounted, DeliveredWasHandled

-----------------------------------------------------------------------------
(* The sender.                                                              *)

LEMMA BackoffIsWait == \A n \in Nat : BackoffDuration(n) \in 0..600
BY DEF BackoffDuration

LEMMA ReschedulingCounts ==
  ASSUME SenderTypeOK, NEW d \in Deliveries, attempts[d] \in Attempts, Reschedule(d)
  PROVE  /\ SenderTypeOK'
         /\ UNCHANGED attempts
         /\ status'[d] = "due" => attempts[d] < MaxAttempts
         /\ status'[d] \in {"due", "failed"}
         /\ \A e \in Deliveries \ {d} : status'[e] = status[e]
<1>. USE DEF SenderTypeOK, Statuses
<1>1. CASE attempts[d] < MaxAttempts /\ status' = [status EXCEPT ![d] = "due"]
           /\ wait' = [wait EXCEPT ![d] = BackoffDuration(attempts[d])] /\ UNCHANGED attempts
  <2>1. BackoffDuration(attempts[d]) \in 0..600
    BY BackoffIsWait DEF Attempts
  <2>. QED  BY <1>1, <2>1
<1>2. CASE attempts[d] = MaxAttempts /\ status' = [status EXCEPT ![d] = "failed"]
           /\ UNCHANGED <<attempts, wait>>
  BY <1>2
<1>. QED  BY <1>1, <1>2 DEF Reschedule

LEMMA DispatchKeeps == ASSUME IInv, NEW d \in Deliveries, Dispatch(d) PROVE IInv'
<1>. USE WebhookAssumption
<1>1. /\ status[d] = "due" /\ status' = [status EXCEPT ![d] = "sent"]
      /\ attempts' = [attempts EXCEPT ![d] = @ + 1]
      /\ Put(d, attempts[d] + 1, "wire", 0)
      /\ UNCHANGED <<wait, age, idle, handled, restarts, refusal>>
  BY DEF Dispatch
<1>2. attempts[d] + 1 \in Attempts
  BY <1>1 DEF IInv, TypeOK, SenderTypeOK, AttemptsCounted, Attempts
<1>3. SenderTypeOK' /\ AttemptsCounted'
  <2>1. /\ status' \in [Deliveries -> Statuses] /\ attempts'[d] = attempts[d] + 1
        /\ \A e \in Deliveries \ {d} : attempts'[e] = attempts[e] /\ status'[e] = status[e]
        /\ status'[d] = "sent"
    BY <1>1 DEF IInv, TypeOK, SenderTypeOK, Statuses
  <2>2. attempts' \in [Deliveries -> 0..MaxAttempts]
    BY <1>1, <1>2 DEF IInv, TypeOK, SenderTypeOK, Attempts
  <2>3. AttemptsCounted'
    BY <1>2, <2>1 DEF IInv, AttemptsCounted
  <2>. QED  BY <1>1, <2>1, <2>2, <2>3 DEF IInv, TypeOK, SenderTypeOK
<1>4. request' \in [Deliveries -> [Attempts -> Requests]] /\ AcceptedWasHandled'
  BY <1>1, <1>2, PutKeeps DEF Places, Codes
<1>5. DeliveredWasHandled'
  BY <1>1 DEF IInv, TypeOK, SenderTypeOK, DeliveredWasHandled
<1>. QED  BY <1>1, <1>3, <1>4, <1>5 DEF IInv, TypeOK, ReceiverTypeOK, StoreRemembers

LEMMA DispatchEndKeeps ==
  ASSUME IInv, NEW d \in Deliveries, Answered(d) \/ DispatchFails(d)
  PROVE  IInv'
<1>1. /\ UNCHANGED <<age, idle, handled, restarts, refusal>>
      /\ attempts[d] \in Attempts /\ SenderTypeOK
  BY DEF Answered, DispatchFails, IInv, TypeOK, AttemptsCounted
<1>. DEFINE answer == request[d][attempts[d]]
<1>2. answer \in Requests
  BY <1>1 DEF IInv, TypeOK
<1>3. request' \in [Deliveries -> [Attempts -> Requests]] /\ AcceptedWasHandled'
  <2>1. CASE Answered(d)
    <3>1. Put(d, attempts[d], "gone", answer.code)
      BY <2>1 DEF Answered
    <3>2. answer.code = 202 => d \in handled
      BY <1>1 DEF IInv, AcceptedWasHandled
    <3>. QED  BY <1>1, <1>2, <3>1, <3>2, PutKeeps DEF Requests, Places
  <2>2. CASE DispatchFails(d)
    BY <1>1, <2>2 DEF DispatchFails, IInv, TypeOK, AcceptedWasHandled
  <2>. QED  BY <2>1, <2>2
<1>4. CASE Reschedule(d)
  BY <1>1, <1>3, <1>4, ReschedulingCounts
     DEF IInv, TypeOK, ReceiverTypeOK, AttemptsCounted, StoreRemembers, DeliveredWasHandled
<1>5. ASSUME NEW end \in {"delivered", "failed"}, status' = [status EXCEPT ![d] = end],
             UNCHANGED <<attempts, wait>>, end = "delivered" => d \in handled
      PROVE  IInv'
  <2>1. SenderTypeOK' /\ AttemptsCounted' /\ DeliveredWasHandled'
    BY <1>1, <1>5 DEF IInv, SenderTypeOK, AttemptsCounted, DeliveredWasHandled, Statuses
  <2>. QED  BY <1>1, <1>3, <2>1 DEF IInv, TypeOK, ReceiverTypeOK, StoreRemembers
<1>6. answer.code \in 200..299 => d \in handled
  <2>1. answer.code \in 200..299 => answer.code = 202
    BY <1>2 DEF Requests, Codes
  <2>. QED  BY <1>1, <2>1 DEF IInv, AcceptedWasHandled
<1>7. \/ Reschedule(d)
      \/ /\ status' = [status EXCEPT ![d] = "delivered"] /\ UNCHANGED <<attempts, wait>>
         /\ answer.code \in 200..299
      \/ status' = [status EXCEPT ![d] = "failed"] /\ UNCHANGED <<attempts, wait>>
  BY Zenon DEF Answered, DispatchFails
<1>. QED  BY <1>4, <1>5, <1>6, <1>7

-----------------------------------------------------------------------------
(* Time and restarts.                                                       *)

LEMMA TickKeeps == ASSUME IInv, Tick PROVE IInv'
<1>1. /\ wait' = [d \in Deliveries |-> IF wait[d] > 0 THEN wait[d] - 1 ELSE 0]
      /\ age' = Older(age) /\ idle' = Older(idle)
      /\ UNCHANGED <<status, attempts, request, handled, restarts, refusal>>
  BY DEF Tick
<1>2. wait' \in [Deliveries -> 0..600]
  BY <1>1 DEF IInv, TypeOK, SenderTypeOK
<1>3. \A ages \in [Keys -> 0..Forgotten] : Older(ages) \in [Keys -> 0..Forgotten]
  BY WebhookAssumption DEF Older, Forgotten
<1>4. age' \in [Keys -> 0..Forgotten] /\ idle' \in [Keys -> 0..Forgotten]
  BY <1>1, <1>3 DEF IInv, TypeOK, ReceiverTypeOK
<1>5. StoreRemembers'
  BY <1>1 DEF IInv, StoreRemembers, Older
<1>. QED  BY <1>1, <1>2, <1>4, <1>5
          DEF IInv, TypeOK, SenderTypeOK, ReceiverTypeOK, AttemptsCounted, AcceptedWasHandled,
              DeliveredWasHandled

LEMMA RestartKeeps == ASSUME IInv, Restart PROVE IInv'
<1>. USE WebhookAssumption
<1>1. /\ restarts' \in 0..MaxRestarts
      /\ age' = [k \in Keys |-> Forgotten] /\ idle' = [k \in Keys |-> Forgotten]
      /\ UNCHANGED <<status, attempts, wait, handled, refusal>>
  BY DEF Restart, IInv, TypeOK, ReceiverTypeOK
<1>2. \A d \in Deliveries, n \in Attempts :
         request'[d][n] \in {request[d][n], [at |-> "gone", code |-> 0]}
  BY DEF Restart
<1>3. request' \in [Deliveries -> [Attempts -> Requests]]
  <2>1. [at |-> "gone", code |-> 0] \in Requests
    BY DEF Requests, Places, Codes
  <2>2. \A d \in Deliveries, n \in Attempts : request[d][n] \in Requests
    BY DEF IInv, TypeOK
  <2>. QED  BY <2>1, <2>2 DEF Restart
<1>4. AcceptedWasHandled'
  BY <1>1, <1>2 DEF IInv, AcceptedWasHandled
<1>5. age' \in [Keys -> 0..Forgotten] /\ idle' \in [Keys -> 0..Forgotten] /\ StoreRemembers'
  BY <1>1 DEF Forgotten, StoreRemembers
<1>. QED  BY <1>1, <1>3, <1>4, <1>5
          DEF IInv, TypeOK, SenderTypeOK, ReceiverTypeOK, AttemptsCounted, DeliveredWasHandled

-----------------------------------------------------------------------------
(* Theorems.                                                                *)

\* The invariant of sender and receiver.
THEOREM Invariance == Spec => []IInv
<1>1. IInv /\ [Next]_vars => IInv'
  <2>. SUFFICES ASSUME IInv, [Next]_vars PROVE IInv'
    OBVIOUS
  <2>1. CASE UNCHANGED vars
    BY <2>1 DEF IInv, TypeOK, SenderTypeOK, ReceiverTypeOK, AttemptsCounted, StoreRemembers,
                AcceptedWasHandled, DeliveredWasHandled
  <2>2. ASSUME NEW d \in Deliveries, SenderStep(d) PROVE IInv'
    BY <2>2, DispatchKeeps, DispatchEndKeeps DEF SenderStep
  <2>. QED  BY <2>1, <2>2, TickKeeps, RestartKeeps, NetworkKeeps, HandleKeeps DEF Next, Rest
<1>. QED  BY InitInv, <1>1, PTL DEF Spec

\* Every variable keeps its type: no delivery is sent more often than MaxAttempts.
THEOREM TypeCorrect == Spec => []TypeOK
<1>1. IInv => TypeOK
  BY DEF IInv
<1>. QED  BY Invariance, <1>1, PTL

\* However many deliveries share a key, and whichever requests and answers are
\* lost, what the sender books as delivered was handled (dispatch.go, inbound.go).
THEOREM DeliveriesWereHandled == Spec => []DeliveredWasHandled
<1>1. IInv => DeliveredWasHandled
  BY DEF IInv
<1>. QED  BY Invariance, <1>1, PTL

\* For any number of concurrent requests with one key, a second handler starts
\* only when the first start is older than the TTL or was before a restart.
THEOREM HandlersStartOncePerTTL == Spec => HandledOncePerTTL
<1>. DEFINE Once == \A d \in Deliveries, n \in Attempts :
                      (request[d][n].at = "wire" /\ request'[d][n].at = "handling")
                        => idle[KeyOf(d)] > TTL
<1>1. IInv /\ [Next]_vars => [Once]_vars
  <2>. SUFFICES ASSUME IInv, Next, NEW d \in Deliveries, NEW n \in Attempts,
                       request[d][n].at = "wire", request'[d][n].at = "handling"
                PROVE  idle[KeyOf(d)] > TTL
    OBVIOUS
  <2>1. request \in [Deliveries -> [Attempts -> Requests]]
    BY DEF IInv, TypeOK
  <2>2. ASSUME NEW e \in Deliveries, NEW m \in Attempts, NEW at, NEW code, Put(e, m, at, code)
        PROVE  d = e /\ n = m /\ at = "handling"
    <3>1. request'[e] = [request[e] EXCEPT ![m] = [at |-> at, code |-> code]]
          /\ \A f \in Deliveries \ {e} : request'[f] = request[f]
      BY <2>1, <2>2 DEF Put
    <3>2. d = e /\ n = m
      BY <2>1, <3>1
    <3>. QED  BY <2>1, <3>1, <3>2
  <2>3. CASE StartHandler(d, n)
    <3>1. age[KeyOf(d)] = Forgotten /\ KeyOf(d) \in Keys
      BY <2>3 DEF StartHandler, Seen, Keys
    <3>2. idle[KeyOf(d)] = Forgotten
      BY <3>1 DEF IInv, StoreRemembers
    <3>. QED  BY <3>2, WebhookAssumption DEF Forgotten
  <2>4. ASSUME NEW e \in Deliveries, NEW m \in Attempts, HandleStep(e, m) PROVE StartHandler(d, n)
    BY <2>2, <2>4
       DEF HandleStep, Refuse, Duplicate, StartHandler, HandlerSucceeds, HandlerFails, HandlerPanics
  <2>5. ASSUME NEW e \in Deliveries, NEW m \in Attempts, LoseRequest(e, m) \/ LoseAnswer(e, m)
        PROVE  FALSE
    BY <2>2, <2>5 DEF LoseRequest, LoseAnswer
  <2>6. ASSUME NEW e \in Deliveries, SenderStep(e) PROVE FALSE
    <3>1. CASE Dispatch(e)
      <4>1. attempts[e] + 1 \in Attempts
        BY <3>1, WebhookAssumption
           DEF Dispatch, IInv, TypeOK, SenderTypeOK, AttemptsCounted, Attempts
      <4>. QED  BY <2>2, <3>1, <4>1 DEF Dispatch
    <3>2. CASE Answered(e)
      <4>1. attempts[e] \in Attempts
        BY <3>2 DEF Answered, IInv, AttemptsCounted
      <4>. QED  BY <2>2, <3>2, <4>1 DEF Answered
    <3>3. CASE DispatchFails(e)
      BY <3>3 DEF DispatchFails
    <3>. QED  BY <2>6, <3>1, <3>2, <3>3 DEF SenderStep
  <2>7. ~Restart
    BY DEF Restart
  <2>. QED  BY <2>3, <2>4, <2>5, <2>6, <2>7 DEF Next, Tick, Rest
<1>. QED  BY Invariance, <1>1, PTL DEF Spec, HandledOncePerTTL
=============================================================================
