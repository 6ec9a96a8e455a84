-------------------------- MODULE JwksCacheProofs --------------------------
(* What holds of the cache of keys for every number of callers and keys,    *)
(* every time to live and every timeout.                                    *)
EXTENDS JwksCache, TLAPS

USE DEF cache, caller, vars

-----------------------------------------------------------------------------
(* The invariant.                                                           *)

TypeOK ==
  /\ published \subseteq Kids /\ rotations \in 0..MaxRotations
  /\ since \in [Kids -> 0..Long]
  /\ keys \subseteq Kids /\ age \in 0..CacheTTL
  /\ singleflight \in Callers \cup {Nobody}
  /\ pc \in [Callers -> Stages] /\ token \in [Callers -> Tokens \cup {NoToken}]
  /\ body \in [Callers -> SUBSET Kids] /\ spent \in [Callers -> 0..Timeout]

\* Whoever is past the first step of Validate has a token; an answer is held
\* from the moment it is given until it is stored; and whoever looks at the cache
\* after refresh finds it fresh, as no time passes in between.
InPlace(c) ==
  /\ pc[c] # "idle" => token[c] \in Tokens
  /\ body[c] # {} => pc[c] \in {"request", "store"}
  /\ pc[c] = "store" => body[c] # {}
  /\ pc[c] = "reread" => FreshCache

\* A snapshot differs from what is published by the rotations of its lifetime only.
Lags(snapshot, k, lifetime) ==
  (k \in snapshot) # (k \in published) => since[k] <= lifetime

AnswersLag(c) == body[c] # {} => \A k \in Kids : Lags(body[c], k, spent[c])

\* The cache was an answer that had travelled for at most the timeout.
CacheLags == FreshCache => \A k \in Kids : Lags(keys, k, age + Timeout)

VerdictFits(c) ==
  LET Recent(k) == since[k] < CacheTTL + Timeout IN
    /\ pc[c] = "accepted" => token[c].signer \in published \/ Recent(token[c].signer)
    /\ pc[c] = "rejected" /\ token[c].kid \in published => Recent(token[c].kid)

CallerInv(c) == InPlace(c) /\ AnswersLag(c) /\ VerdictFits(c)

\* refresh runs in one caller at a time, the one that holds the mutex.
OneFetchAtATime ==
  \A c \in Callers : pc[c] \in {"request", "store"} <=> singleflight = c

\* Whoever fetches found the cache stale, under the mutex, and it still is.
FetchedWhenStale ==
  /\ FreshCache => keys # {}
  /\ \A c \in Callers : pc[c] \in {"request", "store"} => ~FreshCache

IInv == TypeOK /\ OneFetchAtATime /\ CacheLags /\ FetchedWhenStale /\ \A c \in Callers : CallerInv(c)

LEMMA InitInv == Init => IInv
<1>. SUFFICES ASSUME Init PROVE IInv
  OBVIOUS
<1>. USE JwksAssumption DEF Init
<1>1. TypeOK
  BY DEF TypeOK, Stages, Nobody, Long
<1>2. OneFetchAtATime
  BY DEF OneFetchAtATime, Nobody
<1>3. CacheLags
  BY DEF CacheLags, FreshCache
<1>4. ASSUME NEW c \in Callers PROVE CallerInv(c)
  BY DEF CallerInv, InPlace, AnswersLag, VerdictFits
<1>5. FetchedWhenStale
  BY DEF FetchedWhenStale, FreshCache
<1>. QED  BY <1>1, <1>2, <1>3, <1>4, <1>5 DEF IInv

-----------------------------------------------------------------------------
(* A rotation: the keys that changed have changed just now.                 *)

LEMMA RotationKeeps ==
  ASSUME IInv, NEW k \in Kids, Publish(k) \/ Retire(k)
  PROVE  IInv'
<1>. USE JwksAssumption
<1>1. /\ published' \subseteq Kids /\ \A j \in Kids \ {k} : j \in published' <=> j \in published
      /\ since' = [since EXCEPT ![k] = 0]
      /\ rotations' = rotations + 1 /\ rotations < MaxRotations
      /\ UNCHANGED <<keys, age, singleflight, pc, token, body, spent>>
  BY DEF Publish, Retire, IInv, TypeOK
<1>2. /\ since'[k] = 0 /\ \A j \in Kids \ {k} : since'[j] = since[j]
      /\ \A j \in Kids : since[j] \in Nat /\ since'[j] \in Nat
      /\ age \in Nat /\ since' \in [Kids -> 0..Long] /\ \A c \in Callers : spent[c] \in Nat
  BY <1>1 DEF IInv, TypeOK, Long
<1>3. TypeOK'
  BY <1>1, <1>2 DEF IInv, TypeOK
<1>4. OneFetchAtATime'
  BY <1>1 DEF IInv, OneFetchAtATime
<1>5. ASSUME NEW snapshot, NEW lifetime \in Nat, NEW j \in Kids,
             (j \in snapshot) # (j \in published) => since[j] <= lifetime
      PROVE  (j \in snapshot) # (j \in published') => since'[j] <= lifetime
  <2>1. CASE j = k
    BY <2>1, <1>2
  <2>2. CASE j # k
    BY <2>2, <1>1, <1>2, <1>5
  <2>. QED  BY <2>1, <2>2
<1>6. CacheLags'
  <2>. SUFFICES ASSUME FreshCache', NEW j \in Kids PROVE Lags(keys, j, age + Timeout)'
    BY DEF CacheLags
  <2>1. (j \in keys) # (j \in published) => since[j] <= age + Timeout
    BY <1>1 DEF IInv, CacheLags, FreshCache, Lags
  <2>2. age + Timeout \in Nat
    BY <1>2
  <2>. QED  BY <1>1, <1>5, <2>1, <2>2 DEF Lags
<1>7. ASSUME NEW c \in Callers PROVE CallerInv(c)'
  <2>1. CallerInv(c)
    BY DEF IInv
  <2>2. InPlace(c)'
    BY <1>1, <2>1 DEF CallerInv, InPlace, FreshCache
  <2>3. AnswersLag(c)'
    <3>. SUFFICES ASSUME body[c] # {}, NEW j \in Kids PROVE Lags(body[c], j, spent[c])'
      BY <1>1 DEF AnswersLag
    <3>1. (j \in body[c]) # (j \in published) => since[j] <= spent[c]
      BY <2>1 DEF CallerInv, AnswersLag, Lags
    <3>. QED  BY <1>1, <1>2, <1>5, <3>1 DEF Lags
  <2>4. VerdictFits(c)'
    <3>1. token[c] \in Tokens \cup {NoToken}
      BY DEF IInv, TypeOK
    <3>2. CASE pc[c] = "accepted"
      <4>1. token[c].signer \in Kids
        BY <2>1, <3>2 DEF CallerInv, InPlace, Tokens
      <4>. QED  BY <1>1, <1>2, <2>1, <3>2, <4>1 DEF CallerInv, VerdictFits
    <3>3. CASE pc[c] = "rejected"
      BY <1>1, <1>2, <2>1, <3>3 DEF CallerInv, VerdictFits
    <3>. QED  BY <1>1, <3>2, <3>3 DEF VerdictFits
  <2>. QED  BY <2>2, <2>3, <2>4 DEF CallerInv
<1>8. FetchedWhenStale'
  BY <1>1 DEF IInv, FetchedWhenStale, FreshCache
<1>. QED  BY <1>3, <1>4, <1>6, <1>7, <1>8 DEF IInv

-----------------------------------------------------------------------------
(* Time passes for what is published, for the cache and for the answer on   *)
(* its way alike, and for nobody who computes.                              *)

LEMMA TickKeeps ==
  ASSUME IInv, Tick
  PROVE  IInv'
<1>. USE JwksAssumption
<1>1. /\ \A c \in Callers : \/ pc[c] \in {"idle", "wait"}
                            \/ pc[c] = "request" /\ spent[c] < Timeout
      /\ age' = AtMost(age + 1, CacheTTL)
      /\ since' = [k \in Kids |-> AtMost(since[k] + 1, Long)]
      /\ spent' = [c \in Callers |-> IF pc[c] = "request" THEN spent[c] + 1 ELSE 0]
      /\ UNCHANGED <<published, rotations, keys, singleflight, pc, token, body>>
  BY DEF Tick
<1>2. Long \in Nat /\ age \in 0..CacheTTL /\ since \in [Kids -> 0..Long]
      /\ spent \in [Callers -> 0..Timeout]
  BY DEF IInv, TypeOK, Long
<1>3. age' \in 0..CacheTTL /\ (age' < CacheTTL => age' = age + 1)
  BY <1>1, <1>2 DEF AtMost
<1>4. since' \in [Kids -> 0..Long] /\ \A k \in Kids : since'[k] <= since[k] + 1
  BY <1>1, <1>2 DEF AtMost
<1>5. spent' \in [Callers -> 0..Timeout]
  BY <1>1, <1>2
<1>6. TypeOK'
  BY <1>1, <1>3, <1>4, <1>5 DEF IInv, TypeOK
<1>7. OneFetchAtATime'
  BY <1>1 DEF IInv, OneFetchAtATime
<1>8. CacheLags'
  <2>. SUFFICES ASSUME FreshCache', NEW k \in Kids, (k \in keys') # (k \in published')
                PROVE  since'[k] <= age' + Timeout
    BY DEF CacheLags, Lags
  <2>1. age' = age + 1 /\ age < CacheTTL
    BY <1>2, <1>3 DEF FreshCache
  <2>2. since[k] <= age + Timeout
    BY <1>1, <2>1 DEF IInv, CacheLags, FreshCache, Lags
  <2>. QED  BY <1>2, <1>3, <1>4, <2>1, <2>2
<1>9. ASSUME NEW c \in Callers PROVE CallerInv(c)'
  <2>1. CallerInv(c)
    BY DEF IInv
  <2>2. InPlace(c)' /\ VerdictFits(c)'
    BY <1>1, <2>1 DEF CallerInv, InPlace, VerdictFits
  <2>3. AnswersLag(c)'
    <3>. SUFFICES ASSUME body[c] # {}, NEW k \in Kids, (k \in body[c]) # (k \in published)
                  PROVE  since'[k] <= spent'[c]
      BY <1>1 DEF AnswersLag, Lags
    <3>1. pc[c] = "request"
      BY <1>1, <2>1 DEF CallerInv, InPlace
    <3>2. since[k] <= spent[c]
      BY <2>1 DEF CallerInv, AnswersLag, Lags
    <3>3. spent'[c] = spent[c] + 1
      BY <1>1, <3>1
    <3>. QED  BY <1>2, <1>4, <3>2, <3>3
  <2>. QED  BY <2>2, <2>3 DEF CallerInv
<1>a. FetchedWhenStale'
  BY <1>1, <1>2, <1>3 DEF IInv, FetchedWhenStale, FreshCache
<1>. QED  BY <1>6, <1>7, <1>8, <1>9, <1>a DEF IInv

-----------------------------------------------------------------------------
(* The steps of Validate.                                                   *)

\* What a caller's step leaves alone.
Own(c) ==
  /\ UNCHANGED <<published, rotations, since>>
  /\ \A d \in Callers \ {c} : /\ pc'[d] = pc[d] /\ token'[d] = token[d]
                              /\ body'[d] = body[d] /\ spent'[d] = spent[d]

LEMMA BystandersKeep ==
  ASSUME IInv, NEW c \in Callers, Own(c), FreshCache => FreshCache'
  PROVE  \A d \in Callers \ {c} : CallerInv(d)'
<1>. SUFFICES ASSUME NEW d \in Callers \ {c} PROVE CallerInv(d)'
  OBVIOUS
<1>1. /\ UNCHANGED <<published, since>>
      /\ pc'[d] = pc[d] /\ token'[d] = token[d] /\ body'[d] = body[d] /\ spent'[d] = spent[d]
  BY DEF Own
<1>2. CallerInv(d)
  BY DEF IInv
<1>3. InPlace(d)'
  BY <1>1, <1>2 DEF CallerInv, InPlace
<1>4. AnswersLag(d)' /\ VerdictFits(d)'
  BY <1>1, <1>2 DEF CallerInv, AnswersLag, Lags, VerdictFits
<1>. QED  BY <1>3, <1>4 DEF CallerInv

\* A step that neither fetches nor stores: the cache and the mutex stay.
LEMMA QuietStepKeeps ==
  ASSUME IInv, NEW c \in Callers, NEW stage \in Stages \ {"request", "store"},
         pc[c] \notin {"request", "store"}, Goto(c, stage),
         token' \in [Callers -> Tokens \cup {NoToken}], spent' \in [Callers -> 0..Timeout],
         \A d \in Callers \ {c} : token'[d] = token[d] /\ spent'[d] = spent[d],
         UNCHANGED <<published, rotations, since, keys, age, singleflight, body>>,
         stage # "idle" => token'[c] \in Tokens,
         stage = "reread" => FreshCache,
         VerdictFits(c)'
  PROVE  IInv'
<1>1. pc' = [pc EXCEPT ![c] = stage] /\ pc \in [Callers -> Stages]
  BY DEF Goto, IInv, TypeOK
<1>2. pc'[c] = stage /\ \A d \in Callers \ {c} : pc'[d] = pc[d]
  BY <1>1
<1>3. TypeOK'
  BY <1>1 DEF IInv, TypeOK
<1>4. OneFetchAtATime'
  BY <1>2 DEF IInv, OneFetchAtATime
<1>5. CacheLags' /\ (FreshCache => FreshCache')
  BY DEF IInv, CacheLags, FreshCache, Lags
<1>6. body[c] = {}
  BY DEF IInv, CallerInv, InPlace
<1>7. CallerInv(c)'
  BY <1>2, <1>5, <1>6 DEF CallerInv, InPlace, AnswersLag
<1>8. Own(c)
  BY <1>2 DEF Own
<1>9. FetchedWhenStale'
  BY <1>2 DEF IInv, FetchedWhenStale, FreshCache
<1>. QED  BY <1>3, <1>4, <1>5, <1>7, <1>8, <1>9, BystandersKeep DEF IInv

LEMMA CallKeeps == ASSUME IInv, NEW c \in Callers, Call(c) PROVE IInv'
<1>1. PICK t \in Tokens : token' = [token EXCEPT ![c] = t]
  BY DEF Call
<1>2. /\ pc[c] = "idle" /\ Goto(c, "lookup")
      /\ UNCHANGED <<published, rotations, since, keys, age, singleflight, body, spent>>
  BY DEF Call
<1>3. token \in [Callers -> Tokens \cup {NoToken}] /\ pc \in [Callers -> Stages]
      /\ spent \in [Callers -> 0..Timeout]
  BY DEF IInv, TypeOK
<1>4. /\ token' \in [Callers -> Tokens \cup {NoToken}] /\ token'[c] \in Tokens
      /\ \A d \in Callers \ {c} : token'[d] = token[d]
  BY <1>1, <1>3
<1>5. VerdictFits(c)'
  BY <1>2, <1>3 DEF Goto, VerdictFits
<1>. QED  BY <1>2, <1>3, <1>4, <1>5, QuietStepKeeps DEF Stages

\* A key of a cache that is fresh enough was published recently, and a key that such a
\* cache lacks was not, or only just.
LEMMA VerdictsFit ==
  ASSUME IInv, NEW c \in Callers, FreshCache, pc[c] \in {"lookup", "reread"},
         UNCHANGED <<published, since, token>>,
         \/ /\ token[c].kid \in keys /\ Goto(c, Verdict(c, token[c].kid))
         \/ /\ token[c].kid = NoKid /\ \E k \in keys : Goto(c, Verdict(c, k))
         \/ /\ token[c].kid \notin keys /\ token[c].kid # NoKid /\ Goto(c, "rejected")
  PROVE  /\ VerdictFits(c)'
         /\ \E stage \in {"accepted", "rejected"} : Goto(c, stage)
<1>. USE JwksAssumption
<1>1. token[c] \in Tokens /\ pc \in [Callers -> Stages] /\ keys \subseteq Kids
  BY DEF IInv, TypeOK, CallerInv, InPlace
<1>2. token[c].signer \in Kids /\ token[c].kid \in {token[c].signer, NoKid}
  BY <1>1 DEF Tokens
<1>3. \A k \in Kids : /\ since[k] \in Nat /\ since'[k] = since[k]
                      /\ (k \in keys) # (k \in published) => since[k] < CacheTTL + Timeout
  BY DEF IInv, TypeOK, Long, CacheLags, FreshCache, Lags
<1>4. \A stage : Goto(c, stage) => pc'[c] = stage
  BY <1>1 DEF Goto
<1>5. CASE token[c].kid \in keys /\ Goto(c, Verdict(c, token[c].kid))
  <2>1. Goto(c, "accepted") /\ token[c].signer \in keys
    BY <1>1, <1>2, <1>5 DEF Verdict
  <2>. QED  BY <1>2, <1>3, <1>4, <2>1 DEF VerdictFits
<1>6. CASE token[c].kid = NoKid /\ \E k \in keys : Goto(c, Verdict(c, k))
  <2>1. PICK k \in keys : Goto(c, Verdict(c, k))
    BY <1>6
  <2>2. CASE k = token[c].signer
    <3>1. Goto(c, "accepted")
      BY <2>1, <2>2 DEF Verdict
    <3>. QED  BY <1>1, <1>2, <1>3, <1>4, <2>2, <3>1 DEF VerdictFits
  <2>3. CASE k # token[c].signer
    <3>1. Goto(c, "rejected")
      BY <2>1, <2>3 DEF Verdict
    <3>2. token[c].kid \notin published
      BY <1>6 DEF IInv, TypeOK
    <3>. QED  BY <1>4, <3>1, <3>2 DEF VerdictFits
  <2>. QED  BY <2>2, <2>3
<1>7. CASE token[c].kid \notin keys /\ token[c].kid # NoKid /\ Goto(c, "rejected")
  BY <1>2, <1>3, <1>4, <1>7 DEF VerdictFits
<1>. QED  BY <1>5, <1>6, <1>7

LEMMA LookupKeeps == ASSUME IInv, NEW c \in Callers, Lookup(c) PROVE IInv'
<1>1. /\ pc[c] = "lookup" /\ pc \in [Callers -> Stages]
      /\ UNCHANGED <<published, rotations, since, keys, age, singleflight, token, body, spent>>
      /\ token \in [Callers -> Tokens \cup {NoToken}] /\ spent \in [Callers -> 0..Timeout]
      /\ token[c] \in Tokens
  BY DEF Lookup, IInv, TypeOK, CallerInv, InPlace
<1>2. CASE token[c].kid \in keys /\ FreshCache /\ Goto(c, Verdict(c, token[c].kid))
  <2>1. VerdictFits(c)' /\ \E stage \in {"accepted", "rejected"} : Goto(c, stage)
    BY <1>1, <1>2, VerdictsFit
  <2>. QED  BY <1>1, <2>1, QuietStepKeeps DEF Stages
<1>3. CASE Goto(c, "wait")
  <2>1. VerdictFits(c)'
    BY <1>1, <1>3 DEF Goto, VerdictFits
  <2>. QED  BY <1>1, <1>3, <2>1, QuietStepKeeps DEF Stages
<1>. QED  BY <1>2, <1>3 DEF Lookup

LEMMA RereadKeeps == ASSUME IInv, NEW c \in Callers, Reread(c) PROVE IInv'
<1>1. /\ pc[c] = "reread"
      /\ UNCHANGED <<published, rotations, since, keys, age, singleflight, token, body, spent>>
      /\ token \in [Callers -> Tokens \cup {NoToken}] /\ spent \in [Callers -> 0..Timeout]
      /\ token[c] \in Tokens /\ FreshCache
  BY DEF Reread, IInv, TypeOK, CallerInv, InPlace
<1>2. VerdictFits(c)' /\ \E stage \in {"accepted", "rejected"} : Goto(c, stage)
  BY <1>1, VerdictsFit DEF Reread
<1>. QED  BY <1>1, <1>2, QuietStepKeeps DEF Stages

LEMMA ReturnKeeps == ASSUME IInv, NEW c \in Callers, Return(c) PROVE IInv'
<1>1. /\ pc[c] \in Done /\ Goto(c, "idle") /\ pc \in [Callers -> Stages]
      /\ token' = [token EXCEPT ![c] = NoToken]
      /\ UNCHANGED <<published, rotations, since, keys, age, singleflight, body, spent>>
      /\ token \in [Callers -> Tokens \cup {NoToken}] /\ spent \in [Callers -> 0..Timeout]
  BY DEF Return, IInv, TypeOK
<1>2. /\ token' \in [Callers -> Tokens \cup {NoToken}]
      /\ \A d \in Callers \ {c} : token'[d] = token[d]
  BY <1>1
<1>3. VerdictFits(c)'
  BY <1>1 DEF Goto, VerdictFits
<1>. QED  BY <1>1, <1>2, <1>3, QuietStepKeeps DEF Stages, Done

-----------------------------------------------------------------------------
(* refresh: the mutex, the request and the store.                           *)

\* A step of the caller inside refresh that leaves the cache as it is.
LEMMA RefreshKeeps ==
  ASSUME IInv, NEW c \in Callers, NEW stage \in {"request", "store", "failed"},
         NEW answer \in SUBSET Kids, NEW taken \in 0..Timeout,
         pc[c] \in {"wait", "request"}, Goto(c, stage),
         body' = [body EXCEPT ![c] = answer], spent' = [spent EXCEPT ![c] = taken],
         singleflight' = IF stage = "failed" THEN Nobody ELSE c,
         singleflight \in {c, Nobody},
         stage = "store" => answer # {}, stage = "failed" => answer = {},
         \A k \in Kids : answer # {} => Lags(answer, k, taken),
         ~FreshCache, UNCHANGED <<published, rotations, since, keys, age, token>>
  PROVE  IInv'
<1>1. /\ pc \in [Callers -> Stages] /\ token \in [Callers -> Tokens \cup {NoToken}]
      /\ body \in [Callers -> SUBSET Kids] /\ spent \in [Callers -> 0..Timeout]
      /\ pc' = [pc EXCEPT ![c] = stage]
  BY DEF Goto, IInv, TypeOK
<1>2. pc'[c] = stage /\ body'[c] = answer /\ spent'[c] = taken
  BY <1>1
<1>3. TypeOK'
  BY <1>1 DEF IInv, TypeOK, Stages
<1>4. OneFetchAtATime'
  <2>1. Nobody \notin Callers
    BY JwksAssumption DEF Nobody
  <2>2. \A d \in Callers \ {c} : pc'[d] = pc[d] /\ pc[d] \notin {"request", "store"}
    BY <1>1, <2>1 DEF IInv, OneFetchAtATime
  <2>. QED  BY <1>2, <2>1, <2>2 DEF OneFetchAtATime
<1>5. CacheLags' /\ (FreshCache => FreshCache')
  BY DEF IInv, CacheLags, FreshCache, Lags
<1>6. CallerInv(c)'
  <2>1. token[c] \in Tokens
    BY DEF IInv, CallerInv, InPlace
  <2>. QED  BY <1>2, <2>1 DEF CallerInv, InPlace, AnswersLag, Lags, VerdictFits
<1>7. Own(c)
  BY <1>1 DEF Own
<1>8. FetchedWhenStale'
  BY DEF FetchedWhenStale, FreshCache
<1>. QED  BY <1>3, <1>4, <1>5, <1>6, <1>7, <1>8, BystandersKeep DEF IInv

LEMMA EnterKeeps == ASSUME IInv, NEW c \in Callers, Enter(c) PROVE IInv'
<1>1. /\ pc[c] = "wait" /\ singleflight = Nobody /\ body[c] = {}
      /\ UNCHANGED <<published, rotations, since, keys, age, token, body>>
      /\ spent' = [spent EXCEPT ![c] = 0] /\ spent \in [Callers -> 0..Timeout]
      /\ body \in [Callers -> SUBSET Kids] /\ pc \in [Callers -> Stages]
      /\ token \in [Callers -> Tokens \cup {NoToken}] /\ token[c] \in Tokens
      /\ 0 \in 0..Timeout
  BY JwksAssumption DEF Enter, IInv, TypeOK, CallerInv, InPlace
<1>2. CASE FreshCache /\ Goto(c, "reread") /\ UNCHANGED singleflight
  <2>1. /\ spent' \in [Callers -> 0..Timeout]
        /\ \A d \in Callers \ {c} : spent'[d] = spent[d]
    BY <1>1
  <2>2. VerdictFits(c)'
    BY <1>1, <1>2 DEF Goto, VerdictFits
  <2>. QED  BY <1>1, <1>2, <2>1, <2>2, QuietStepKeeps DEF Stages
<1>3. CASE Goto(c, "request") /\ singleflight' = c /\ ~(FreshCache /\ keys # {})
  <2>1. body' = [body EXCEPT ![c] = {}] /\ ~FreshCache
    BY <1>1, <1>3 DEF IInv, FetchedWhenStale
  <2>. QED  BY <1>1, <1>3, <2>1, RefreshKeeps
<1>. QED  BY <1>2, <1>3 DEF Enter

LEMMA FetchKeeps ==
  ASSUME IInv, NEW c \in Callers, ServiceAnswers(c) \/ AnswerArrives(c) \/ FetchFails(c)
  PROVE  IInv'
<1>1. /\ pc[c] = "request" /\ singleflight = c /\ ~FreshCache
      /\ UNCHANGED <<published, rotations, since, keys, age, token, spent>>
      /\ spent \in [Callers -> 0..Timeout] /\ body \in [Callers -> SUBSET Kids]
      /\ pc \in [Callers -> Stages] /\ published \subseteq Kids
      /\ spent' = [spent EXCEPT ![c] = spent[c]]
  BY DEF ServiceAnswers, AnswerArrives, FetchFails, IInv, TypeOK, OneFetchAtATime, FetchedWhenStale
<1>2. CASE ServiceAnswers(c)
  <2>1. /\ body' = [body EXCEPT ![c] = published] /\ singleflight' = c
        /\ pc' = pc
    BY <1>1, <1>2 DEF ServiceAnswers
  <2>2. Goto(c, "request")
    BY <1>1, <2>1 DEF Goto
  <2>3. \A k \in Kids : Lags(published, k, spent[c])
    BY DEF Lags
  <2>. QED  BY <1>1, <2>1, <2>2, <2>3, RefreshKeeps
<1>3. CASE AnswerArrives(c)
  <2>1. /\ body[c] # {} /\ Goto(c, "store") /\ singleflight' = c
        /\ body' = [body EXCEPT ![c] = body[c]]
    BY <1>1, <1>3 DEF AnswerArrives
  <2>2. \A k \in Kids : Lags(body[c], k, spent[c])
    BY <2>1 DEF IInv, CallerInv, AnswersLag
  <2>. QED  BY <1>1, <2>1, <2>2, RefreshKeeps
<1>4. CASE FetchFails(c)
  <2>1. Goto(c, "failed") /\ singleflight' = Nobody /\ body' = [body EXCEPT ![c] = {}]
    BY <1>4 DEF FetchFails
  <2>. QED  BY <1>1, <2>1, RefreshKeeps
<1>. QED  BY <1>2, <1>3, <1>4

\* What is stored was an answer for at most the timeout, and ages from now on.
LEMMA StoreKeeps == ASSUME IInv, NEW c \in Callers, Store(c) PROVE IInv'
<1>. USE JwksAssumption
<1>1. /\ pc[c] = "store" /\ Goto(c, "reread") /\ keys' = body[c] /\ age' = 0
      /\ singleflight' = Nobody /\ body' = [body EXCEPT ![c] = {}]
      /\ UNCHANGED <<published, rotations, since, token, spent>>
  BY DEF Store
<1>2. /\ pc' = [pc EXCEPT ![c] = "reread"] /\ pc \in [Callers -> Stages]
      /\ body \in [Callers -> SUBSET Kids] /\ spent[c] \in 0..Timeout
      /\ \A k \in Kids : since[k] \in Nat
  BY <1>1 DEF Goto, IInv, TypeOK, Long
<1>3. pc'[c] = "reread" /\ body'[c] = {} /\ token[c] \in Tokens /\ body[c] # {}
  BY <1>1, <1>2 DEF IInv, CallerInv, InPlace
<1>4. TypeOK'
  BY <1>1, <1>2 DEF IInv, TypeOK, Stages
<1>5. OneFetchAtATime'
  <2>1. Nobody \notin Callers
    BY DEF Nobody
  <2>2. \A d \in Callers \ {c} : pc'[d] = pc[d] /\ pc[d] \notin {"request", "store"}
    BY <1>1, <1>2 DEF IInv, OneFetchAtATime
  <2>. QED  BY <1>1, <1>3, <2>1, <2>2 DEF OneFetchAtATime
<1>6. FreshCache'
  BY <1>1 DEF FreshCache
<1>7. CacheLags'
  <2>. SUFFICES ASSUME NEW k \in Kids, (k \in keys') # (k \in published')
                PROVE  since'[k] <= age' + Timeout
    BY DEF CacheLags, Lags
  <2>1. since[k] <= spent[c]
    BY <1>1, <1>3 DEF IInv, CallerInv, AnswersLag, Lags
  <2>. QED  BY <1>1, <1>2, <2>1
<1>8. CallerInv(c)'
  BY <1>1, <1>3, <1>6 DEF CallerInv, InPlace, AnswersLag, VerdictFits
<1>9. Own(c)
  BY <1>1, <1>2 DEF Own
<1>a. FetchedWhenStale'
  <2>1. \A d \in Callers : pc'[d] \notin {"request", "store"}
    BY <1>5, <1>1, JwksAssumption DEF OneFetchAtATime, Nobody
  <2>. QED  BY <1>1, <1>3, <2>1 DEF FetchedWhenStale
<1>. QED  BY <1>4, <1>5, <1>6, <1>7, <1>8, <1>9, <1>a, BystandersKeep DEF IInv

-----------------------------------------------------------------------------
(* Theorems.                                                                *)

\* The invariant of the Validator.
THEOREM Invariance == Spec => []IInv
<1>1. IInv /\ [Next]_vars => IInv'
  <2>. SUFFICES ASSUME IInv, [Next]_vars PROVE IInv'
    OBVIOUS
  <2>1. ASSUME NEW c \in Callers, Validate(c) PROVE IInv'
    BY <2>1, LookupKeeps, EnterKeeps, FetchKeeps, StoreKeeps, RereadKeeps, ReturnKeeps
       DEF Validate
  <2>2. CASE UNCHANGED vars
    BY <2>2 DEF IInv, TypeOK, OneFetchAtATime, CacheLags, FetchedWhenStale, FreshCache,
                CallerInv, InPlace, AnswersLag, Lags, VerdictFits
  <2>. QED  BY <2>1, <2>2, RotationKeeps, TickKeeps, CallKeeps DEF Next
<1>. QED  BY InitInv, <1>1, PTL DEF Spec

\* Every variable keeps its type: no request outlasts the client's timeout.
THEOREM TypeCorrect == Spec => []TypeOK
<1>1. IInv => TypeOK
  BY DEF IInv
<1>. QED  BY Invariance, <1>1, PTL

\* However many goroutines validate, one of them fetches at a time, and it holds
\* the mutex (validator.go: refresh).
THEOREM SingleFlight == Spec => []OneFetchAtATime
<1>1. IInv => OneFetchAtATime
  BY DEF IInv
<1>. QED  BY Invariance, <1>1, PTL

\* The cache lags behind the identity service by its time to live and the time of
\* one request, and never by more, whatever the keys, the callers and the rotations.
THEOREM VerdictsAreRecent == Spec => []VerdictIsRecent
<1>1. IInv => VerdictIsRecent
  BY DEF IInv, CallerInv, VerdictFits, VerdictIsRecent
<1>. QED  BY Invariance, <1>1, PTL

\* However many callers found the cache stale, keys that have not outlived their time
\* to live are not fetched again (validator.go: refresh).
THEOREM FreshKeysAreKept == Spec => FreshKeysStay
<1>. DEFINE Stays == keys' # keys \/ age' < age => ~FreshCache
<1>1. IInv /\ [Next]_vars => [Stays]_vars
  <2>. SUFFICES ASSUME IInv, Next, FreshCache, keys' # keys \/ age' < age PROVE FALSE
    OBVIOUS
  <2>1. ~Tick
    BY JwksAssumption DEF Tick, AtMost, FreshCache, IInv, TypeOK
  <2>2. age \in Nat
    BY JwksAssumption DEF IInv, TypeOK
  <2>3. PICK c \in Callers : Store(c)
    BY <2>1, <2>2 DEF Next, Publish, Retire, Call, Validate, Lookup, Enter, ServiceAnswers,
           AnswerArrives, FetchFails, Reread, Return
  <2>4. ~FreshCache
    BY <2>3 DEF Store, IInv, FetchedWhenStale
  <2>. QED  BY <2>4
<1>. QED  BY Invariance, <1>1, PTL DEF Spec, FreshKeysStay
=============================================================================
