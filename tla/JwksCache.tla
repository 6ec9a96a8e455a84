----------------------------- MODULE JwksCache -----------------------------
(***************************************************************************)
(* authjwt/validator.go: Validator, whose goroutines share one cache of    *)
(* the keys that the identity service publishes as a JWKS.  Validate looks *)
(* a token's key up (keyForKid), fetches the JWKS when the cache is stale  *)
(* or the key is missing (refresh, one caller at a time) and looks again.  *)
(*                                                                         *)
(* The identity service and the HTTP client are not under src/: keys are   *)
(* published and retired at any time, a fetch returns what was published   *)
(* when the service answered, or fails, within the client's timeout.       *)
(* Time passes in ticks, and only while every goroutine waits for          *)
(* something: computing takes no time.                                     *)
(***************************************************************************)
EXTENDS Integers, FiniteSets

CONSTANTS
  Callers,       \* the goroutines inside Validate
  Kids,          \* the ids of the signing keys
  NoKid,         \* a token whose header names no key
  CacheTTL, Timeout,
  MaxRotations   \* bound: publications and retirements of keys

ASSUME JwksAssumption ==
  /\ NoKid \notin Kids /\ "nobody" \notin Callers
  /\ CacheTTL \in Nat \ {0} /\ Timeout \in Nat
  /\ MaxRotations \in Nat

VARIABLES
  published,   \* the JWKS at the identity service
  rotations,
  since,       \* for how long k has been published, or not, up to Long
  keys,        \* Validator.keys
  age,         \* how long ago Validator.fetched was, up to CacheTTL
  singleflight,\* the mutex: the caller inside refresh, or Nobody
  pc, token,   \* a caller's place in the code and its token
  body,        \* the JWKS its request was answered with
  spent        \* how long its request has taken

cache  == <<keys, age>>
caller == <<pc, token, body, spent>>
vars   == <<published, rotations, since, cache, singleflight, caller>>

Nobody == "nobody"
Long   == CacheTTL + Timeout + 1

Stages == {"idle", "lookup", "wait", "request", "store", "reread",
           "accepted", "rejected", "failed"}
Done   == {"accepted", "rejected", "failed"}

\* The token: the key id in its header, and the key that signed it.
Tokens == {[kid |-> k, signer |-> k] : k \in Kids} \cup
          {[kid |-> NoKid, signer |-> k] : k \in Kids}
NoToken == [kid |-> NoKid, signer |-> NoKid]

Init == /\ published \in {{k} : k \in Kids}
        /\ rotations = 0
        /\ since = [k \in Kids |-> Long]
        /\ keys = {} /\ age = CacheTTL
        /\ singleflight = Nobody
        /\ pc = [c \in Callers |-> "idle"]
        /\ token = [c \in Callers |-> NoToken]
        /\ body = [c \in Callers |-> {}]
        /\ spent = [c \in Callers |-> 0]

-----------------------------------------------------------------------------
(* The identity service and time.                                          *)

Publish(k) == /\ rotations < MaxRotations /\ k \notin published
              /\ published' = published \cup {k}
              /\ since' = [since EXCEPT ![k] = 0]
              /\ rotations' = rotations + 1
              /\ UNCHANGED <<cache, singleflight, caller>>

Retire(k) == /\ rotations < MaxRotations /\ k \in published /\ published # {k}
             /\ published' = published \ {k}
             /\ since' = [since EXCEPT ![k] = 0]
             /\ rotations' = rotations + 1
             /\ UNCHANGED <<cache, singleflight, caller>>

AtMost(n, bound) == IF n < bound THEN n ELSE bound

\* The client's timeout bounds the time a request takes.
Tick ==
  /\ \A c \in Callers : \/ pc[c] = "idle"
                        \/ pc[c] = "wait" /\ singleflight # Nobody
                        \/ pc[c] = "request" /\ spent[c] < Timeout
  /\ \/ age < CacheTTL
     \/ \E k \in Kids : since[k] < Long
     \/ \E c \in Callers : pc[c] = "request"
  /\ age' = AtMost(age + 1, CacheTTL)
  /\ since' = [k \in Kids |-> AtMost(since[k] + 1, Long)]
  /\ spent' = [c \in Callers |-> IF pc[c] = "request" THEN spent[c] + 1 ELSE 0]
  /\ UNCHANGED <<published, rotations, keys, singleflight, pc, token, body>>

-----------------------------------------------------------------------------
(* Validate.                                                               *)

Goto(c, stage) == pc' = [pc EXCEPT ![c] = stage]

Call(c) ==
  /\ pc[c] = "idle"
  /\ Goto(c, "lookup")
  /\ \E t \in Tokens : token' = [token EXCEPT ![c] = t]
  /\ UNCHANGED <<published, rotations, since, cache, singleflight, body, spent>>

FreshCache == age < CacheTTL

\* jwt.Parse checks the signature with the key that keyForKid chose.
Verdict(c, key) == IF key = token[c].signer THEN "accepted" ELSE "rejected"

\* Mutant of Lookup: a cached key is used however old the cache is.
Lookup_Stale(c) ==
  /\ pc[c] = "lookup"
  /\ Goto(c, IF token[c].kid \in keys THEN Verdict(c, token[c].kid) ELSE "wait")
  /\ UNCHANGED <<published, rotations, since, cache, singleflight, token, body, spent>>

\* keyForKid, before refresh.
Lookup(c) ==
  /\ pc[c] = "lookup"
  /\ \/ /\ token[c].kid \in keys /\ FreshCache
        /\ Goto(c, Verdict(c, token[c].kid))
     \/ /\ ~(token[c].kid \in keys /\ FreshCache)
        /\ Goto(c, "wait")
  /\ UNCHANGED <<published, rotations, since, cache, singleflight, token, body, spent>>

\* Mutant of Enter: refresh takes the mutex and does not check again.
Enter_Unchecked(c) ==
  /\ pc[c] = "wait" /\ singleflight = Nobody
  /\ Goto(c, "request")
  /\ singleflight' = c
  /\ spent' = [spent EXCEPT ![c] = 0]
  /\ UNCHANGED <<published, rotations, since, cache, token, body>>

\* refresh takes the mutex and checks again.
Enter(c) ==
  /\ pc[c] = "wait" /\ singleflight = Nobody
  /\ \/ /\ FreshCache /\ keys # {}
        /\ Goto(c, "reread")
        /\ UNCHANGED singleflight
     \/ /\ ~(FreshCache /\ keys # {})
        /\ Goto(c, "request")
        /\ singleflight' = c
  /\ spent' = [spent EXCEPT ![c] = 0]
  /\ UNCHANGED <<published, rotations, since, cache, token, body>>

\* The service answers with the keys of this moment; they travel for a while.
ServiceAnswers(c) ==
  /\ pc[c] = "request" /\ body[c] = {}
  /\ body' = [body EXCEPT ![c] = published]
  /\ UNCHANGED <<published, rotations, since, cache, singleflight, pc, token, spent>>

AnswerArrives(c) ==
  /\ pc[c] = "request" /\ body[c] # {}
  /\ Goto(c, "store")
  /\ UNCHANGED <<published, rotations, since, cache, singleflight, token, body, spent>>

\* The request fails, times out, is answered with an error status or with
\* no usable key: nothing is cached, not even the failure.
FetchFails(c) ==
  /\ pc[c] = "request"
  /\ Goto(c, "failed")
  /\ singleflight' = Nobody
  /\ body' = [body EXCEPT ![c] = {}]
  /\ UNCHANGED <<published, rotations, since, cache, token, spent>>

Store(c) ==
  /\ pc[c] = "store"
  /\ keys' = body[c] /\ age' = 0
  /\ singleflight' = Nobody
  /\ Goto(c, "reread")
  /\ body' = [body EXCEPT ![c] = {}]
  /\ UNCHANGED <<published, rotations, since, token, spent>>

\* Mutant of Reread: an unknown key is looked up again until it is known.
Reread_Retries(c) ==
  /\ pc[c] = "reread"
  /\ \/ /\ token[c].kid \in keys
        /\ Goto(c, Verdict(c, token[c].kid))
     \/ /\ token[c].kid = NoKid
        /\ \E k \in keys : Goto(c, Verdict(c, k))
     \/ /\ token[c].kid \notin keys /\ token[c].kid # NoKid
        /\ Goto(c, "lookup")
  /\ UNCHANGED <<published, rotations, since, cache, singleflight, token, body, spent>>

\* keyForKid, after refresh.  Without a key id any key of the map is taken:
\* the order of a Go map is random.
Reread(c) ==
  /\ pc[c] = "reread"
  /\ \/ /\ token[c].kid \in keys
        /\ Goto(c, Verdict(c, token[c].kid))
     \/ /\ token[c].kid = NoKid
        /\ \E k \in keys : Goto(c, Verdict(c, k))
     \/ /\ token[c].kid \notin keys /\ token[c].kid # NoKid
        /\ Goto(c, "rejected")
  /\ UNCHANGED <<published, rotations, since, cache, singleflight, token, body, spent>>

Return(c) ==
  /\ pc[c] \in Done
  /\ Goto(c, "idle")
  /\ token' = [token EXCEPT ![c] = NoToken]
  /\ UNCHANGED <<published, rotations, since, cache, singleflight, body, spent>>

-----------------------------------------------------------------------------

Validate(c) == \/ Lookup(c) \/ Enter(c) \/ ServiceAnswers(c) \/ AnswerArrives(c)
               \/ FetchFails(c) \/ Store(c) \/ Reread(c) \/ Return(c)

Next == \/ \E k \in Kids : Publish(k) \/ Retire(k)
        \/ Tick
        \/ \E c \in Callers : Call(c) \/ Validate(c)

Spec == Init /\ [][Next]_vars

\* Goroutines run, the mutex is handed to whoever has waited for it (Go's
\* does so after a millisecond), and a request ends: the client has a timeout.
FairSpec == Spec /\ \A c \in Callers : WF_vars(Validate(c)) /\ SF_vars(Enter(c))

-----------------------------------------------------------------------------
(* Properties.                                                             *)

\* The cache lags behind the identity service, and by no more than its time to live
\* after the time a request may take: a snapshot that was overtaken counts as fresh
\* when it is stored. For that long a retired key is trusted and a new one refused,
\* the latter because a fresh cache is not asked to look for an unknown key id
\* (validator.go:193).
VerdictIsRecent ==
  \A c \in Callers :
    LET Recent(k) == since[k] < CacheTTL + Timeout IN
      /\ pc[c] = "accepted" => token[c].signer \in published \/ Recent(token[c].signer)
      /\ pc[c] = "rejected" /\ token[c].kid \in published => Recent(token[c].kid)

\* A burst of callers that all found the cache stale costs the identity service one
\* answer: whoever waited for the mutex takes what the caller before it fetched, so
\* keys that have not outlived their time to live are never fetched again
\* (validator.go:176-188). A failed fetch is not remembered: each of them asks again.
FreshKeysStay == [][keys' # keys \/ age' < age => ~FreshCache]_vars

\* Validate returns: no caller waits for the mutex for ever.
CallsReturn == \A c \in Callers : (pc[c] = "lookup") ~> (pc[c] \in Done)
=============================================================================
