--------------------------- MODULE RequestPipeline ---------------------------
(***************************************************************************)
(* A service's requests through the chain of middleware (HTTP) or of       *)
(* interceptors (gRPC), to a handler that changes something and records it *)
(* with the audit recorder. The handler, the quota and the permission      *)
(* service and the clients are external; every stage between them is the   *)
(* code's. `stage' says which stage has the request.                       *)
(***************************************************************************)
EXTENDS RateLimiter, AuditRecorder
LOCAL INSTANCE Functions
LOCAL INSTANCE SequencesExt

CONSTANTS Kinds,          \* what a request may look like, see KindType
          Users, Service, \* JWT subjects; an API key's owner
          None,           \* absence of a header or of a value
          AllowedOrigins, \* CORSConfig.AllowedOrigins, in parts; "*" is one of them
          Quota,          \* what the organization's plan allows
          MaxRequests,    \* bound: requests of all callers
          MaxFaults       \* bound: failures of services, of writes and panics

Callers == Calls

Outcomes == {"OK", "NoContent", "BadRequest", "Unauthorized", "PaymentRequired",
             "Forbidden", "TooManyRequests", "Internal", "Unavailable"}
Refusals == Outcomes \ {"OK", "Internal"}

KindType ==
  [http      : BOOLEAN,
   forwarded : Seq(Clients),     \* X-Forwarded-For, nearest to the client first
   realIp    : Clients \union {None},  \* X-Real-Ip
   remote    : Clients,          \* RemoteAddr
   origin    : Seq(STRING),      \* Origin in parts, or <<>>
   preflight : BOOLEAN,          \* OPTIONS that asks for a method
   skip      : BOOLEAN,          \* gRPC method in SkipMethods
   apiKey    : {None, "valid", "invalid"},
   bearer    : {None, "malformed", "valid", "invalid"},
   user      : Users \union {Nobody},  \* the token's subject, or that it has none
   resource  : BOOLEAN,          \* the extractor finds a resource
   org       : Seq({None, "malformed", "parses"}),  \* values of OrganizationHeaderNames
   metered   : BOOLEAN]          \* the route's quota client is there and has a BaseURL

ASSUME PipelineAssumption ==
  /\ Kinds \subseteq KindType /\ Kinds # {} /\ None \notin Outcomes
  /\ IsFiniteSet(Callers) /\ Callers # {}
  /\ Quota \in Nat /\ MaxRequests \in Nat \ {0} /\ MaxFaults \in Nat
  /\ Nobody \notin Users /\ Service \notin Users /\ Service # Nobody

VARIABLES stage,      \* where the caller's request is
          request,    \* what it looks like
          attempt,    \* how many requests the caller has sent
          principal,  \* whom the context names
          answer,     \* status written first, or None
          logged,     \* status that Logging reported, or None
          grants,     \* external: users who may do it, at the permission service
          knew,       \* history: who had a grant when the request came
          used,       \* external: the organization's use, at the quota service
          unchecked,  \* history: requests let through without an answer on quota
          effects,    \* history: what handlers did
          faults

pipelineVars == <<stage, request, attempt, principal, answer, logged, grants, knew,
                  used, unchecked, effects, faults>>
vars == <<pipelineVars, limiterVars, auditVars>>

Init ==
  /\ LimiterInit
  /\ AuditInit
  /\ stage = [c \in Callers |-> "client"]
  /\ request = [c \in Callers |-> CHOOSE k \in Kinds : TRUE]
  /\ attempt = [c \in Callers |-> 0]
  /\ principal = [c \in Callers |-> Nobody]
  /\ answer = [c \in Callers |-> None]
  /\ logged = [c \in Callers |-> None]
  /\ grants = Users
  /\ knew = [c \in Callers |-> Users]
  /\ used = 0
  /\ unchecked = 0
  /\ effects = {}
  /\ faults = 0

Stages == {"client", "chain", "permission", "quota", "interceptor",
           "handler", "persist", "publish", "respond", "logging"}

TypeOK ==
  /\ LimiterTypeOK
  /\ stage \in [Callers -> Stages]
  /\ request \in [Callers -> Kinds]
  /\ answer \in [Callers -> Outcomes \union {None}]
  /\ logged \in [Callers -> Outcomes \union {None}]
  /\ principal \in [Callers -> Users \union {Nobody, Service}]
  /\ grants \subseteq Users
  /\ faults \in 0..MaxFaults

-----------------------------------------------------------------------------
\* What the stages have in common.

at(c, s) == stage[c] = s
Pass(c, s) == stage' = [stage EXCEPT ![c] = s]

\* WriteHeader of net/http and of Logging's responseWriter: the first one counts.
WriteHeader(c, status) == answer' = [answer EXCEPT ![c] = IF @ = None THEN status ELSE @]

\* Mutant: a stage writes a status and forgets to return.
RefuseAndGoOn(c, status) ==
  /\ WriteHeader(c, status)
  /\ Pass(c, "handler")

\* A stage writes a status and returns; only the stages outside of it still run.
Refuse(c, status) ==
  /\ WriteHeader(c, status)
  /\ Pass(c, "logging")

Fault == faults < MaxFaults /\ faults' = faults + 1

services == <<grants, knew, used, unchecked, effects>>
caller == <<request, attempt, logged>>

\* realIP: the first hop of X-Forwarded-For, or X-Real-Ip, or the address of the peer.
realIP(k) ==
  CASE k.forwarded # <<>>                      -> Head(k.forwarded)
    [] k.forwarded = <<>> /\ k.realIp # None  -> k.realIp
    [] OTHER                                   -> k.remote

\* ExtractOrganizationID: the first header that parses.
HasOrganization(k) == \E i \in DOMAIN k.org : k.org[i] = "parses"

\* A "*" stands for one part or more, the first one only.
matchOrigin(pattern, origin) ==
  \/ pattern = origin
  \/ \E i \in DOMAIN pattern :
       /\ pattern[i] = "*" /\ \A j \in 1..(i - 1) : pattern[j] # "*"
       /\ Len(origin) >= Len(pattern)
       /\ IsPrefix(SubSeq(pattern, 1, i - 1), origin)
       /\ IsSuffix(SubSeq(pattern, i + 1, Len(pattern)), origin)

\* CORS answers a preflight of an allowed origin and lets everything else on.
isPreflight(k) ==
  /\ k.origin # <<>>
  /\ \E pattern \in AllowedOrigins : matchOrigin(pattern, k.origin)
  /\ k.preflight

-----------------------------------------------------------------------------
\* The client sends a request, a new one or the last one again. NewChain's order:
\* Recovery, RequestID and Logging are around all that follows.
Send(c) ==
  /\ at(c, "client") /\ FoldFunction(+, 0, attempt) < MaxRequests
  /\ \E k \in IF attempt[c] = 0 THEN Kinds ELSE {request[c]} :
       /\ request' = [request EXCEPT ![c] = k]
       /\ Pass(c, IF k.http THEN "chain" ELSE "interceptor")
  /\ attempt' = [attempt EXCEPT ![c] = @ + 1]
  /\ principal' = [principal EXCEPT ![c] = Nobody]
  /\ answer' = [answer EXCEPT ![c] = None]
  /\ logged' = [logged EXCEPT ![c] = None]
  /\ knew' = [knew EXCEPT ![c] = grants]
  /\ UNCHANGED <<grants, used, unchecked, effects, faults, limiterVars, auditVars>>

\* NewChain: after CORS, RateLimit turns a client away whose bucket is empty and Auth
\* wants a Bearer token that the validator accepts. Of the three only the buckets are
\* shared.
Chain(c) ==
  LET k == request[c] IN
  /\ at(c, "chain")
  /\ \/ isPreflight(k) /\ Refuse(c, "NoContent") /\ UNCHANGED <<principal, limiterVars>>
     \/ /\ ~isPreflight(k)
        /\ TurnAway(realIP(k))
        /\ Refuse(c, "TooManyRequests")
        /\ UNCHANGED principal
     \/ /\ ~isPreflight(k)
        /\ Admit(realIP(k))
        /\ IF k.bearer = "valid"
           THEN /\ principal' = [principal EXCEPT ![c] = k.user]
                /\ Pass(c, "permission")
                /\ UNCHANGED answer
           ELSE Refuse(c, "Unauthorized") /\ UNCHANGED principal
  /\ UNCHANGED <<caller, services, faults, auditVars>>

\* RequirePermission fails closed: whatever is missing or fails is refused.
RequirePermission(c) ==
  /\ at(c, "permission")
  /\ \/ /\ principal[c] = Nobody
        /\ Refuse(c, "Unauthorized")
        /\ UNCHANGED faults
     \/ /\ principal[c] # Nobody /\ ~request[c].resource
        /\ Refuse(c, "BadRequest")
        /\ UNCHANGED faults
     \/ /\ principal[c] # Nobody /\ request[c].resource
        /\ Fault
        /\ Refuse(c, "Unavailable")
     \/ /\ principal[c] # Nobody /\ request[c].resource
        /\ IF principal[c] \in grants
           THEN Pass(c, "quota") /\ UNCHANGED answer
           ELSE Refuse(c, "Forbidden")
        /\ UNCHANGED faults
  /\ UNCHANGED <<caller, principal, services, limiterVars, auditVars>>

\* What Check makes of the quota service's response: an error if there is none, if
\* it is not a 2xx or not JSON; otherwise the field `allowed' of the envelope or of
\* the body itself, which is false if the body is some other JSON. Without a client
\* or its BaseURL nobody is asked, and the answer is yes.
Check(k) == {IF used < Quota \/ ~k.metered THEN "allowed" ELSE "denied"}

\* Mutant: a body that says nothing counts as a yes.
TrustsAnyBody(k) == {"error", "allowed"}

CheckUnderFault(k) == IF k.metered THEN {"error", "denied"} ELSE {}

\* NewCheckMiddleware fails open: without an organization or an answer it passes.
CheckQuota(c) ==
  /\ at(c, "quota")
  /\ \/ /\ ~HasOrganization(request[c])
        /\ Pass(c, "handler")
        /\ unchecked' = unchecked + 1
        /\ UNCHANGED <<answer, faults>>
     \/ /\ HasOrganization(request[c])
        /\ \E result \in Check(request[c]) \union CheckUnderFault(request[c]) :
             /\ \/ result \in Check(request[c]) /\ UNCHANGED faults
                \/ result \in CheckUnderFault(request[c]) \ Check(request[c]) /\ Fault
             /\ IF result = "denied"
                THEN Refuse(c, "PaymentRequired")
                ELSE Pass(c, "handler") /\ UNCHANGED answer
             /\ unchecked' = IF result = "error" \/ ~request[c].metered
                             THEN unchecked + 1 ELSE unchecked
  /\ UNCHANGED <<caller, principal, grants, knew, used, effects, limiterVars, auditVars>>

\* authenticate: an API key is tried first and then decides. Its context has no
\* claims, so the handler takes the service for the actor; after a skipped method
\* there is no actor at all.
Authenticate(c) ==
  /\ at(c, "interceptor")
  /\ LET k == request[c] IN
     IF k.skip \/ k.apiKey = "valid" \/ (k.apiKey = None /\ k.bearer = "valid")
     THEN /\ principal' = [principal EXCEPT ![c] =
               IF k.skip THEN Nobody
               ELSE IF k.apiKey = "valid" THEN Service ELSE k.user]
          /\ Pass(c, "handler")
          /\ unchecked' = unchecked + 1
          /\ UNCHANGED answer
     ELSE Refuse(c, "Unauthorized") /\ UNCHANGED <<principal, unchecked>>
  /\ UNCHANGED <<caller, grants, knew, used, effects, faults, limiterVars, auditVars>>

-----------------------------------------------------------------------------
\* The handler (external) does what it is asked to, calls Record, and maps what
\* Record returns with ToHTTP or ToGRPC: an error that is not registered is a 500.
Action(c) == <<c, attempt[c]>>

Act(c) ==
  /\ at(c, "handler")
  /\ used' = used + 1
  /\ effects' = effects \union {[action |-> Action(c), actor |-> principal[c],
                                 request |-> request[c], knew |-> knew[c]]}
  /\ Pass(c, IF Complete(principal[c]) THEN "persist" ELSE "respond")
  /\ rowErr' = [rowErr EXCEPT ![c] = ~Complete(principal[c])]
  /\ eventErr' = [eventErr EXCEPT ![c] = FALSE]
  /\ UNCHANGED <<caller, principal, answer, grants, knew, unchecked, faults, limiterVars,
                 rows, events>>

RecordRow(c) ==
  /\ at(c, "persist")
  /\ Pass(c, "publish")
  /\ \/ Persist(c, Action(c), principal[c], FALSE) /\ UNCHANGED faults
     \/ Persist(c, Action(c), principal[c], TRUE) /\ Fault
  /\ UNCHANGED <<caller, principal, answer, services, limiterVars>>

RecordEvent(c) ==
  /\ at(c, "publish")
  /\ Pass(c, "respond")
  /\ \/ PublishEvent(c, Action(c), principal[c], FALSE) /\ UNCHANGED faults
     \/ PublishEvent(c, Action(c), principal[c], TRUE) /\ Fault
  /\ UNCHANGED <<caller, principal, answer, services, limiterVars>>

Respond(c) ==
  /\ at(c, "respond")
  /\ WriteHeader(c, IF RecordFails(c) THEN "Internal" ELSE "OK")
  /\ Pass(c, "logging")
  /\ UNCHANGED <<caller, principal, services, faults, limiterVars, auditVars>>

\* Logging reports the status that was written first, or that the call returns, unless
\* a panic went past it.
Report(c) ==
  /\ at(c, "logging")
  /\ logged' = [logged EXCEPT ![c] = answer[c]]
  /\ Pass(c, "client")
  /\ UNCHANGED <<request, attempt, principal, answer, services, faults, limiterVars, auditVars>>

Logging(c) == request[c].http /\ Report(c)
logRPC(c) == ~request[c].http /\ Report(c)

\* Something panics. Logging and what else is inside of Recovery is jumped over.
Panic(c) ==
  /\ ~at(c, "client")
  /\ Fault
  /\ Pass(c, "client")
  /\ UNCHANGED <<caller, principal, services, limiterVars, auditVars>>

\* Recovery writes a 500, too late if a status has been written.
Recovery(c) ==
  /\ request[c].http
  /\ at(c, "logging") => answer[c] \notin Refusals
  /\ Panic(c)
  /\ WriteHeader(c, "Internal")

\* UnaryRecovery and StreamRecovery replace what the call was to return.
RecoveryRPC(c) ==
  /\ ~request[c].http /\ ~at(c, "logging")
  /\ Panic(c)
  /\ answer' = [answer EXCEPT ![c] = "Internal"]

-----------------------------------------------------------------------------
\* A user loses the permission.
Revoke ==
  /\ \E u \in grants : grants' = grants \ {u}
  /\ UNCHANGED <<stage, request, attempt, principal, answer, logged, knew, used, unchecked,
                 effects, faults, limiterVars, auditVars>>

Serve(c) ==
  \/ Chain(c) \/ RequirePermission(c) \/ CheckQuota(c)
  \/ Authenticate(c)
  \/ Act(c) \/ RecordRow(c) \/ RecordEvent(c) \/ Respond(c) \/ Logging(c) \/ logRPC(c)

Limiter == (Tick \/ evict) /\ UNCHANGED <<pipelineVars, auditVars>>

Next ==
  \/ \E c \in Callers : Send(c) \/ Serve(c) \/ Recovery(c) \/ RecoveryRPC(c)
  \/ Limiter
  \/ Revoke

Spec == Init /\ [][Next]_vars

-----------------------------------------------------------------------------
\* Who acted passed every stage: over HTTP the token's subject, who had the
\* permission when the request came in at the latest; over gRPC what the first
\* credential that counts says. A request that is refused has done nothing, whatever
\* the permission and the quota service failed to answer (permission.go:104-141).
OnlyAuthorizedActs ==
  /\ \A e \in effects : LET k == e.request IN
       IF k.http
       THEN k.bearer = "valid" /\ e.actor = k.user /\ e.actor \in e.knew /\ k.resource
       ELSE \/ k.skip /\ e.actor = Nobody
            \/ k.apiKey = "valid" /\ e.actor = Service
            \/ k.apiKey = None /\ k.bearer = "valid" /\ e.actor = k.user
  /\ \A c \in Callers : answer[c] \in Refusals =>
       \A e \in effects : e.action # Action(c)

\* Check only asks (quota/client.go:69): requests that are checked at once all pass
\* on the last unit. The plan is exceeded by no more than the requests that run
\* beside one another and those that were let through without an answer.
OvershootIsBounded == used <= Quota + Cardinality(Callers) - 1 + unchecked

\* The audit trail tells what was done and by whom, and a caller who is told OK has
\* left a row, if its recorder has a database, and an event, if it has a publisher: no
\* failure of either is lost (recorder.go:190-225). That an event that fails is
\* reported is not what the comment of the package says (recorder.go:18-20).
AuditIsTrue ==
  /\ \A record \in rows \union events :
       \E e \in effects : e.action = record.action /\ e.actor = record.actor
  /\ \A c \in Callers : answer[c] = "OK" =>
       \A trail \in (IF c \in WithDB THEN {rows} ELSE {})
                     \union (IF c \in WithPublisher THEN {events} ELSE {}) :
         \E record \in trail : record.action = Action(c) /\ record.actor = principal[c]

=============================================================================
