-------------------------- MODULE WebhookDelivery --------------------------
(***************************************************************************)
(* package webhook and webhook/inbound: a service sends deliveries with    *)
(* Dispatch, decides with IsRetryable and BackoffDuration when to send     *)
(* them again, and a Receiver on the other side verifies, deduplicates and *)
(* handles them.  The service's delivery rows and its worker are not under *)
(* src/ (dispatch.go leaves them to each service) and neither is the       *)
(* network; both are modelled from the way Dispatch is meant to be used.   *)
(* Requests and answers may be lost, the client gives up after its         *)
(* timeout while the handler still runs, and the receiver may restart.     *)
(* Time is counted in minutes, and kept as waits and ages.                 *)
(***************************************************************************)
EXTENDS Integers, Sequences, FiniteSets

CONSTANTS
  Deliveries,      \* what the sender has to deliver
  HeaderKey,       \* X-Idempotency-Key of a delivery, or NoKey
  NoKey,
  Body,            \* the body of a delivery
  Refusals,        \* the codes a receiver may refuse a delivery with: 404 for an
                   \* unknown provider, 400 for its size, 401 for its signature
  TTL,             \* NewInMemoryIdempotencyStore(ttl)
  MaxAttempts,     \* how often the service sends a delivery
  MaxRestarts      \* bound: restarts of the receiver

Forgotten == TTL + 1   \* an age above the TTL: as good as never recorded

\* Handle: the idempotency key, from the header or from the body alone.
KeyOf(d) == IF HeaderKey[d] # NoKey THEN HeaderKey[d] ELSE Body[d]
Keys == {KeyOf(d) : d \in Deliveries}

Attempts == 1 .. MaxAttempts

ASSUME WebhookAssumption ==
  /\ \A d \in Deliveries : d \in DOMAIN HeaderKey \cap DOMAIN Body
  /\ Refusals \subseteq {400, 401, 404}
  /\ TTL \in Nat /\ MaxAttempts \in Nat \ {0} /\ MaxRestarts \in Nat

VARIABLES
  refusal,   \* the code Handle answers before it looks at the store, 0 for none
  status,    \* a delivery row: due, sent, delivered or failed
  attempts,  \* how often it was sent
  wait,      \* how long until it may be sent (again)
  request,   \* request[d][n]: attempt n on its way, and the answer's code
  age,       \* memStore.seen: how long ago a key was recorded
  idle,      \* history: how long ago a handler was started for a key
  handled,   \* history: the deliveries whose handler returned nil
  restarts

sender   == <<status, attempts, wait>>
receiver == <<age, idle, handled>>
vars     == <<refusal, sender, request, receiver, restarts>>

Statuses == {"due", "sent", "delivered", "failed"}
Places   == {"unsent", "wire", "handling", "answer", "gone"}
Codes    == {0, 202, 400, 401, 404, 409, 502}

\* What a delivery is refused for does not change from attempt to attempt.
Init == /\ refusal \in [Deliveries -> {0} \cup Refusals]
        /\ status = [d \in Deliveries |-> "due"]
        /\ attempts = [d \in Deliveries |-> 0]
        /\ wait = [d \in Deliveries |-> 0]
        /\ request = [d \in Deliveries |-> [n \in Attempts |-> [at |-> "unsent", code |-> 0]]]
        /\ age = [k \in Keys |-> Forgotten]
        /\ idle = [k \in Keys |-> Forgotten]
        /\ handled = {}
        /\ restarts = 0

-----------------------------------------------------------------------------
(* Time passes while somebody waits for it; later it changes nothing.      *)

Older(ages) == [k \in Keys |-> IF ages[k] = Forgotten THEN Forgotten ELSE ages[k] + 1]

Tick == /\ \/ \E d \in Deliveries : wait[d] > 0
           \/ \E k \in Keys : age[k] # Forgotten
        /\ wait' = [d \in Deliveries |-> IF wait[d] > 0 THEN wait[d] - 1 ELSE 0]
        /\ age' = Older(age)
        /\ idle' = Older(idle)
        /\ UNCHANGED <<status, attempts, request, handled, restarts, refusal>>

-----------------------------------------------------------------------------
(* The sender.                                                             *)

IsRetryable(code) == \/ code \in {408, 429}
                     \/ code >= 500
                     \/ code < 200 \/ code \in 300 .. 399

BackoffDuration(attempt) ==
  CASE attempt <= 1 -> 1
    [] attempt = 2 -> 5
    [] attempt = 3 -> 25
    [] attempt = 4 -> 120
    [] OTHER -> 600

Put(d, n, at, code) == request' = [request EXCEPT ![d][n] = [at |-> at, code |-> code]]

\* The worker calls Dispatch.
Dispatch(d) ==
  /\ status[d] = "due" /\ wait[d] = 0
  /\ status' = [status EXCEPT ![d] = "sent"]
  /\ attempts' = [attempts EXCEPT ![d] = @ + 1]
  /\ Put(d, attempts[d] + 1, "wire", 0)
  /\ UNCHANGED <<wait, receiver, restarts, refusal>>

Reschedule(d) ==
  \/ /\ attempts[d] < MaxAttempts
     /\ status' = [status EXCEPT ![d] = "due"]
     /\ wait' = [wait EXCEPT ![d] = BackoffDuration(attempts[d])]
     /\ UNCHANGED attempts
  \/ /\ attempts[d] = MaxAttempts
     /\ status' = [status EXCEPT ![d] = "failed"]
     /\ UNCHANGED <<attempts, wait>>

\* Dispatch returns the answer.
Answered(d) ==
  /\ status[d] = "sent"
  /\ LET answer == request[d][attempts[d]] IN
       /\ answer.at = "answer"
       /\ \/ /\ answer.code \in 200 .. 299
             /\ status' = [status EXCEPT ![d] = "delivered"]
             /\ UNCHANGED <<attempts, wait>>
          \/ /\ IsRetryable(answer.code)
             /\ Reschedule(d)
          \/ /\ ~IsRetryable(answer.code) /\ answer.code \notin 200 .. 299
             /\ status' = [status EXCEPT ![d] = "failed"]
             /\ UNCHANGED <<attempts, wait>>
       /\ Put(d, attempts[d], "gone", answer.code)
  /\ UNCHANGED <<receiver, restarts, refusal>>

\* Mutant of DispatchFails: a client without a timeout.
DispatchFails_NoTimeout(d) ==
  /\ status[d] = "sent" /\ request[d][attempts[d]].at = "gone"
  /\ Reschedule(d)
  /\ UNCHANGED <<request, receiver, restarts, refusal>>

\* Dispatch returns an error: timeout, refused or broken connection.  The
\* request may still be on its way or be handled.
DispatchFails(d) ==
  /\ status[d] = "sent"
  /\ Reschedule(d)
  /\ UNCHANGED <<request, receiver, restarts, refusal>>

-----------------------------------------------------------------------------
(* The network.                                                            *)

LoseRequest(d, n) ==
  /\ request[d][n].at = "wire"
  /\ Put(d, n, "gone", 0)
  /\ UNCHANGED <<sender, receiver, restarts, refusal>>

LoseAnswer(d, n) ==
  /\ request[d][n].at = "answer"
  /\ Put(d, n, "gone", request[d][n].code)
  /\ UNCHANGED <<sender, receiver, restarts, refusal>>

-----------------------------------------------------------------------------
(* The receiver: Handle, which runs once per request, concurrently.        *)

Refuse(d, n) ==
  /\ request[d][n].at = "wire"
  /\ refusal[d] # 0
  /\ Put(d, n, "answer", refusal[d])
  /\ UNCHANGED <<sender, receiver, restarts, refusal>>

\* memStore.SeenOrRecord evicts every key older than the TTL, then looks.
Seen(k) == age[k] # Forgotten

\* Mutant of Duplicate: a duplicate is accepted like the first.
Duplicate_Accepted(d, n) ==
  /\ request[d][n].at = "wire" /\ refusal[d] = 0
  /\ Seen(KeyOf(d))
  /\ Put(d, n, "answer", 202)
  /\ UNCHANGED <<sender, receiver, restarts, refusal>>

Duplicate(d, n) ==
  /\ request[d][n].at = "wire"
  /\ refusal[d] = 0
  /\ Seen(KeyOf(d))
  /\ Put(d, n, "answer", 409)
  /\ UNCHANGED <<sender, receiver, restarts, refusal>>

\* Mutant of StartHandler: the key is not recorded before the handler runs.
StartHandler_Unrecorded(d, n) ==
  /\ request[d][n].at = "wire" /\ refusal[d] = 0
  /\ ~Seen(KeyOf(d))
  /\ idle' = [idle EXCEPT ![KeyOf(d)] = 0]
  /\ Put(d, n, "handling", 0)
  /\ UNCHANGED <<sender, age, handled, restarts, refusal>>

StartHandler(d, n) ==
  /\ request[d][n].at = "wire"
  /\ refusal[d] = 0
  /\ ~Seen(KeyOf(d))
  /\ age' = [age EXCEPT ![KeyOf(d)] = 0]
  /\ idle' = [idle EXCEPT ![KeyOf(d)] = 0]
  /\ Put(d, n, "handling", 0)
  /\ UNCHANGED <<sender, handled, restarts, refusal>>

HandlerSucceeds(d, n) ==
  /\ request[d][n].at = "handling"
  /\ handled' = handled \cup {d}
  /\ Put(d, n, "answer", 202)
  /\ UNCHANGED <<sender, age, idle, restarts, refusal>>

HandlerFails(d, n) ==
  /\ request[d][n].at = "handling"
  /\ Put(d, n, "answer", 502)
  /\ UNCHANGED <<sender, receiver, restarts, refusal>>

\* net/http recovers a panic of the handler and closes the connection.
HandlerPanics(d, n) ==
  /\ request[d][n].at = "handling"
  /\ Put(d, n, "gone", 0)
  /\ UNCHANGED <<sender, receiver, restarts, refusal>>

\* The process ends and is started anew with an empty in-memory store.
Restart ==
  /\ restarts < MaxRestarts
  /\ restarts' = restarts + 1
  /\ age' = [k \in Keys |-> Forgotten]
  /\ idle' = [k \in Keys |-> Forgotten]
  /\ request' = [d \in Deliveries |-> [n \in Attempts |->
                   IF request[d][n].at = "handling" THEN [at |-> "gone", code |-> 0]
                                                    ELSE request[d][n]]]
  /\ UNCHANGED <<sender, handled, refusal>>

-----------------------------------------------------------------------------

SenderStep(d) == Dispatch(d) \/ Answered(d) \/ DispatchFails(d)

HandleStep(d, n) == \/ Refuse(d, n) \/ Duplicate(d, n) \/ StartHandler(d, n)
                    \/ HandlerSucceeds(d, n) \/ HandlerFails(d, n) \/ HandlerPanics(d, n)

Ended(d) == status[d] \in {"delivered", "failed"}

\* Every delivery has come to its end.
Rest == (\A d \in Deliveries : Ended(d)) /\ UNCHANGED vars

Next == \/ Tick \/ Restart \/ Rest
        \/ \E d \in Deliveries : SenderStep(d)
        \/ \E d \in Deliveries, n \in Attempts :
             LoseRequest(d, n) \/ LoseAnswer(d, n) \/ HandleStep(d, n)

Spec == Init /\ [][Next]_vars

\* Time goes on, the worker sends what is due, and Dispatch returns: its
\* client has a timeout.
Fairness == WF_vars(Tick) /\ \A d \in Deliveries : WF_vars(SenderStep(d))

FairSpec == Spec /\ Fairness

-----------------------------------------------------------------------------
(* Properties.                                                             *)

\* SeenOrRecord keeps its promise through concurrent requests, timeouts and
\* evictions: a second handler is started for a key only when more than the
\* TTL, or a restart, lies after the start of the first.
HandledOncePerTTL ==
  [][\A d \in Deliveries, n \in Attempts :
       (request[d][n].at = "wire" /\ request'[d][n].at = "handling")
         => idle[KeyOf(d)] > TTL]_vars

\* The sender books a delivery as delivered only when its own handler call
\* returned nil, whatever became of its earlier attempts and of others with
\* the same key.
DeliveredWasHandled == \A d \in Deliveries : status[d] = "delivered" => d \in handled

\* Every delivery is delivered or given up in the end.
DeliveriesEnd == \A d \in Deliveries : <>Ended(d)

\* "transient handler failures return 5xx so the sender retries with backoff":
\* the attempt after a 502 is not turned away as a duplicate while no handler
\* has succeeded.
FailureCanBeRetried ==
  \A d \in Deliveries : \A n \in 1 .. MaxAttempts - 1 :
    ~(request[d][n].code = 502 /\ request[d][n + 1].code = 409 /\ d \notin handled)
=============================================================================
