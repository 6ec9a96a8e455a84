------------------------ MODULE RequestPipelineProofs ------------------------
(* What holds of the chain for every number of callers, clients and users,  *)
(* every rate, burst and TTL, and every kind of request; then of the errors *)
(* and the health probes of the same service.                               *)
EXTENDS RequestPipeline, ErrorRegistry, FiniteSetTheorems, TLAPS

-----------------------------------------------------------------------------
(* The rate limiter, by itself.                                             *)

LimiterStep == Tick \/ evict \/ \E ip \in Clients : Admit(ip) \/ TurnAway(ip)

\* What a client is allowed by now, since its admission number i.
AllowedSince(ip, i) ==
  Allowance(early[ip] - admitted[ip][i].early, clock - admitted[ip][i].at)

\* What is still in a client's bucket goes on top of what it got through since any
\* of its admissions.
BucketsBound ==
  \A ip \in Clients : \A i \in DOMAIN admitted[ip] :
    Len(admitted[ip]) - i + 1 + Tokens(ip) <= AllowedSince(ip, i)

LimiterInv == LimiterTypeOK /\ BucketsBound /\ AdmissionsBounded

LEMMA AllowanceGrows ==
  ASSUME NEW n \in Int, NEW t \in Int
  PROVE  /\ Allowance(n, t) \in Int
         /\ Allowance(n, t + 1) = Allowance(n, t) + Rate
         /\ Allowance(n + 1, t) = Allowance(n, t) + Burst
<1>1. Rate \in Int /\ Burst \in Int
  BY LimiterAssumption
<1>2. Rate * t \in Int /\ Rate * (t + 1) = Rate * t + Rate
  BY <1>1
<1>3. Burst * (1 + n) \in Int /\ Burst * (1 + (n + 1)) = Burst * (1 + n) + Burst
  BY <1>1
<1>. QED  BY <1>1, <1>2, <1>3 DEF Allowance

LEMMA AllowanceStarts == Allowance(0, 0) = Burst
BY LimiterAssumption DEF Allowance

LEMMA TokensType ==
  ASSUME LimiterTypeOK, NEW ip \in Clients
  PROVE  Tokens(ip) \in 0..Burst
<1>1. CASE ip \notin DOMAIN visitors
  BY <1>1, LimiterAssumption DEF Tokens
<1>2. CASE ip \in DOMAIN visitors
  <2>1. visitors[ip].tokens \in 0..Burst /\ visitors[ip].lastSeen \in 0..clock /\ clock \in Nat
    BY <1>2 DEF LimiterTypeOK
  <2>2. Rate * (clock - visitors[ip].lastSeen) \in Nat
    BY <2>1, LimiterAssumption
  <2>. QED  BY <1>2, <2>1, <2>2, LimiterAssumption DEF Tokens
<1>. QED  BY <1>1, <1>2

\* A client that is forgotten gets a full bucket: it had one, or it is counted.
LEMMA EvictionCounts ==
  ASSUME LimiterTypeOK, evict, NEW ip \in Clients
  PROVE  \/ Tokens(ip)' = Tokens(ip) /\ early'[ip] = early[ip]
         \/ Tokens(ip)' = Burst /\ early'[ip] = early[ip] + 1
<1>1. /\ visitors' = [v \in DOMAIN visitors \ Expired |-> visitors[v]] /\ clock' = clock
      /\ early'[ip] = IF ip \in Expired /\ Tokens(ip) < Burst THEN early[ip] + 1 ELSE early[ip]
  BY DEF evict, CountEarly
<1>2. CASE ip \in Expired
  <2>1. Tokens(ip)' = Burst
    BY <1>1, <1>2 DEF Tokens
  <2>2. Tokens(ip) \in 0..Burst
    BY TokensType
  <2>. QED  BY <1>1, <1>2, <2>1, <2>2, LimiterAssumption
<1>3. CASE ip \notin Expired
  BY <1>1, <1>3 DEF Tokens
<1>. QED  BY <1>2, <1>3

LEMMA LimiterStarts == LimiterInit => LimiterInv
<1>. SUFFICES ASSUME LimiterInit PROVE LimiterInv
  OBVIOUS
<1>1. LimiterTypeOK
  BY LimiterAssumption DEF LimiterInit, LimiterTypeOK
<1>2. BucketsBound /\ AdmissionsBounded
  BY DEF LimiterInit, BucketsBound, AdmissionsBounded
<1>. QED  BY <1>1, <1>2 DEF LimiterInv

LEMMA SeenKeepsTypes ==
  ASSUME LimiterTypeOK, NEW ip \in Clients, NEW tokens \in 0..Burst,
         Seen(ip, tokens), clock' = clock, early' = early, admitted' \in [Clients -> Seq(Admission)]
  PROVE  /\ LimiterTypeOK'
         /\ Tokens(ip)' = tokens
         /\ \A other \in Clients \ {ip} : Tokens(other)' = Tokens(other)
<1>1. clock \in Nat /\ clock \in 0..MaxTime
  BY LimiterAssumption DEF LimiterTypeOK
<1>2. DOMAIN visitors' = DOMAIN visitors \union {ip} /\ DOMAIN visitors' \subseteq Clients
  BY DEF Seen, LimiterTypeOK
<1>3. visitors'[ip] = [tokens |-> tokens, lastSeen |-> clock]
  BY <1>2 DEF Seen
<1>4. \A other \in DOMAIN visitors' : other # ip => visitors'[other] = visitors[other]
  BY <1>2 DEF Seen
<1>5. LimiterTypeOK'
  BY <1>1, <1>2, <1>3, <1>4 DEF LimiterTypeOK
<1>6. Tokens(ip)' = tokens
  <2>1. Rate * (clock' - clock) = 0
    BY <1>1, LimiterAssumption
  <2>2. tokens + Rate * (clock' - visitors'[ip].lastSeen) = tokens
    BY <1>3, <2>1
  <2>. QED  BY <1>2, <1>3, <2>2, LimiterAssumption DEF Tokens
<1>7. \A other \in Clients \ {ip} : Tokens(other)' = Tokens(other)
  BY <1>2, <1>4 DEF Tokens
<1>. QED  BY <1>5, <1>6, <1>7

LEMMA LimiterTypes ==
  ASSUME LimiterTypeOK, NEW ip \in Clients
  PROVE  /\ clock \in Nat /\ early[ip] \in Nat
         /\ DOMAIN admitted[ip] = 1..Len(admitted[ip]) /\ Len(admitted[ip]) \in Nat
         /\ \A i \in DOMAIN admitted[ip] :
              i \in Int /\ admitted[ip][i].at \in Int /\ admitted[ip][i].early \in Int
<1>1. admitted[ip] \in Seq(Admission) /\ clock \in Nat /\ early[ip] \in Nat
  BY LimiterAssumption DEF LimiterTypeOK
<1>2. \A i \in DOMAIN admitted[ip] : i \in Nat /\ admitted[ip][i] \in Admission
  BY <1>1
<1>. QED  BY <1>1, <1>2, LimiterAssumption DEF Admission

\* A step that admits nobody, if no bucket gains more than its client is allowed.
LEMMA QuietStep ==
  ASSUME LimiterInv, LimiterTypeOK', admitted' = admitted,
         \A ip \in Clients : \A i \in DOMAIN admitted[ip] :
           Tokens(ip)' - Tokens(ip) <= AllowedSince(ip, i)' - AllowedSince(ip, i)
  PROVE  LimiterInv'
<1>1. BucketsBound'
  <2>. SUFFICES ASSUME NEW ip \in Clients, NEW i \in DOMAIN admitted'[ip]
                PROVE  Len(admitted'[ip]) - i + 1 + Tokens(ip)' <= AllowedSince(ip, i)'
    BY DEF BucketsBound
  <2>0. i \in DOMAIN admitted[ip]
    OBVIOUS
  <2>1. Len(admitted[ip]) \in Int /\ i \in Int
    BY <2>0, LimiterTypes DEF LimiterInv
  <2>2. Tokens(ip) \in Int /\ Tokens(ip)' \in Int
    <3>1. Tokens(ip) \in 0..Burst
      BY TokensType DEF LimiterInv
    <3>2. (Tokens(ip) \in 0..Burst)'
      BY TokensType, PTL
    <3>. QED  BY <3>1, <3>2, LimiterAssumption
  <2>3. AllowedSince(ip, i) \in Int /\ AllowedSince(ip, i)' \in Int
    <3>1. /\ early[ip] - admitted[ip][i].early \in Int /\ clock - admitted[ip][i].at \in Int
      BY <2>0, LimiterTypes DEF LimiterInv
    <3>2. (early[ip] - admitted[ip][i].early \in Int /\ clock - admitted[ip][i].at \in Int)'
      <4>1. clock' \in Int /\ early'[ip] \in Int
        BY LimiterAssumption DEF LimiterTypeOK
      <4>2. admitted[ip][i].at \in Int /\ admitted[ip][i].early \in Int
        BY <2>0, LimiterTypes DEF LimiterInv
      <4>. QED  BY <4>1, <4>2
    <3>3. AllowedSince(ip, i) \in Int
      BY <3>1, AllowanceGrows DEF AllowedSince
    <3>4. AllowedSince(ip, i)' \in Int
      BY <3>2, AllowanceGrows DEF AllowedSince
    <3>. QED  BY <3>3, <3>4
  <2>4. Len(admitted[ip]) - i + 1 + Tokens(ip) <= AllowedSince(ip, i)
    BY <2>0 DEF LimiterInv, BucketsBound
  <2>5. Tokens(ip)' - Tokens(ip) <= AllowedSince(ip, i)' - AllowedSince(ip, i)
    BY <2>0
  <2>6. Len(admitted[ip]) - i + 1 + Tokens(ip)' <= AllowedSince(ip, i)'
    BY <2>1, <2>2, <2>3, <2>4, <2>5
  <2>. QED  BY <2>6
<1>2. AdmissionsBounded'
  BY DEF LimiterInv, AdmissionsBounded
<1>. QED  BY <1>1, <1>2 DEF LimiterInv

LEMMA TickKeeps ==
  ASSUME LimiterInv, Tick
  PROVE  LimiterInv'
<1>0. /\ clock' = clock + 1 /\ UNCHANGED <<visitors, early, admitted>> /\ clock \in Int
  BY LimiterAssumption DEF Tick, LimiterInv, LimiterTypeOK
<1>1. LimiterTypeOK'
  BY LimiterAssumption DEF Tick, LimiterInv, LimiterTypeOK
<1>2. ASSUME NEW ip \in Clients
      PROVE  Tokens(ip) \in Int /\ Tokens(ip)' \in Int /\ Tokens(ip)' <= Tokens(ip) + Rate
  <2>1. CASE ip \notin DOMAIN visitors
    BY <1>0, <2>1, LimiterAssumption DEF Tokens
  <2>2. CASE ip \in DOMAIN visitors
    <3>. DEFINE elapsed == clock - visitors[ip].lastSeen
    <3>1. visitors[ip].tokens \in Nat /\ elapsed \in Nat /\ clock' - visitors[ip].lastSeen = elapsed + 1
      BY <1>0, <2>2 DEF LimiterInv, LimiterTypeOK
    <3>2. Rate * (elapsed + 1) = Rate * elapsed + Rate /\ Rate * elapsed \in Nat
      BY <3>1, LimiterAssumption
    <3>. HIDE DEF elapsed
    <3>3. Tokens(ip) = IF visitors[ip].tokens + Rate * elapsed > Burst THEN Burst
                       ELSE visitors[ip].tokens + Rate * elapsed
      BY <2>2 DEF Tokens, elapsed
    <3>4. Tokens(ip)' = IF visitors[ip].tokens + Rate * (elapsed + 1) > Burst THEN Burst
                        ELSE visitors[ip].tokens + Rate * (elapsed + 1)
      BY <1>0, <2>2, <3>1 DEF Tokens
    <3>. QED  BY <3>1, <3>2, <3>3, <3>4, LimiterAssumption
  <2>. QED  BY <2>1, <2>2
<1>3. ASSUME NEW ip \in Clients, NEW i \in DOMAIN admitted[ip]
      PROVE  Tokens(ip)' - Tokens(ip) <= AllowedSince(ip, i)' - AllowedSince(ip, i)
  <2>. DEFINE n == early[ip] - admitted[ip][i].early
              t == clock - admitted[ip][i].at
  <2>1. n \in Int /\ t \in Int /\ clock + 1 - admitted[ip][i].at = t + 1
    BY <1>0, LimiterTypes DEF LimiterInv
  <2>2. AllowedSince(ip, i) = Allowance(n, t)
    BY DEF AllowedSince
  <2>3. AllowedSince(ip, i)' = Allowance(n, t + 1)
    <3>1. AllowedSince(ip, i)' = Allowance(early'[ip] - admitted'[ip][i].early,
                                           clock' - admitted'[ip][i].at)
      BY DEF AllowedSince, Allowance
    <3>2. early'[ip] - admitted'[ip][i].early = n /\ clock' - admitted'[ip][i].at = t + 1
      <4>1. /\ early[ip] \in Int /\ admitted[ip][i].early \in Int
            /\ clock \in Int /\ admitted[ip][i].at \in Int
        BY LimiterTypes DEF LimiterInv
      <4>. QED  BY <1>0, <4>1
    <3>. QED  BY <3>1, <3>2, Zenon
  <2>. HIDE DEF n, t
  <2>4. Allowance(n, t) \in Int /\ Allowance(n, t + 1) = Allowance(n, t) + Rate
    BY <2>1, AllowanceGrows
  <2>. QED  BY <1>2, <2>2, <2>3, <2>4, LimiterAssumption
<1>. QED  BY <1>0, <1>1, <1>3, QuietStep

LEMMA EvictKeeps ==
  ASSUME LimiterInv, evict
  PROVE  LimiterInv'
<1>0. UNCHANGED <<clock, admitted>> /\ LimiterTypeOK
  BY DEF evict, LimiterInv
<1>1. LimiterTypeOK'
  <2>1. DOMAIN visitors' \subseteq DOMAIN visitors /\ \A v \in DOMAIN visitors' : visitors'[v] = visitors[v]
    BY DEF evict
  <2>2. early' \in [Clients -> Nat]
    BY <1>0 DEF evict, CountEarly, LimiterTypeOK
  <2>. QED  BY <1>0, <2>1, <2>2 DEF LimiterTypeOK
<1>2. ASSUME NEW ip \in Clients, NEW i \in DOMAIN admitted[ip]
      PROVE  Tokens(ip)' - Tokens(ip) <= AllowedSince(ip, i)' - AllowedSince(ip, i)
  <2>. DEFINE n == early[ip] - admitted[ip][i].early
              t == clock - admitted[ip][i].at
  <2>1. n \in Int /\ t \in Int /\ early[ip] + 1 - admitted[ip][i].early = n + 1
    BY <1>0, LimiterTypes
  <2>2. AllowedSince(ip, i) = Allowance(n, t)
    BY DEF AllowedSince
  <2>3. /\ early'[ip] = early[ip] => AllowedSince(ip, i)' = Allowance(n, t)
        /\ early'[ip] = early[ip] + 1 => AllowedSince(ip, i)' = Allowance(n + 1, t)
    <3>1. AllowedSince(ip, i)' = Allowance(early'[ip] - admitted[ip][i].early, t)
      BY <1>0 DEF AllowedSince, Allowance
    <3>2. early'[ip] = early[ip] + 1 => early'[ip] - admitted[ip][i].early = n + 1
      <4>1. early[ip] \in Int /\ admitted[ip][i].early \in Int
        BY <1>0, LimiterTypes
      <4>. QED  BY <4>1
    <3>. QED  BY <3>1, <3>2, Zenon
  <2>. HIDE DEF n, t
  <2>4. Allowance(n, t) \in Int /\ Allowance(n + 1, t) = Allowance(n, t) + Burst
    BY <2>1, AllowanceGrows
  <2>5. Tokens(ip) \in 0..Burst
    BY <1>0, TokensType
  <2>6. CASE Tokens(ip)' = Tokens(ip) /\ early'[ip] = early[ip]
    BY <2>2, <2>3, <2>4, <2>5, <2>6, LimiterAssumption
  <2>7. CASE Tokens(ip)' = Burst /\ early'[ip] = early[ip] + 1
    BY <2>2, <2>3, <2>4, <2>5, <2>7, LimiterAssumption
  <2>. QED  BY <1>0, <2>6, <2>7, EvictionCounts
<1>. QED  BY <1>0, <1>1, <1>2, QuietStep

LEMMA TurnAwayKeeps ==
  ASSUME LimiterInv, NEW ip \in Clients, TurnAway(ip)
  PROVE  LimiterInv'
<1>0. UNCHANGED <<clock, early, admitted>> /\ LimiterTypeOK
  BY DEF TurnAway, LimiterInv
<1>1. Tokens(ip) \in 0..Burst
  BY <1>0, TokensType
<1>2. LimiterTypeOK' /\ \A other \in Clients : Tokens(other)' = Tokens(other)
  <2>1. admitted' \in [Clients -> Seq(Admission)]
    BY <1>0 DEF LimiterTypeOK
  <2>. QED  BY <1>0, <1>1, <2>1, SeenKeepsTypes DEF TurnAway
<1>3. BucketsBound' /\ AdmissionsBounded'
  <2>1. \A other \in Clients : \A i \in DOMAIN admitted[other] :
          AllowedSince(other, i)' = AllowedSince(other, i)
    BY <1>0 DEF AllowedSince, Allowance
  <2>2. BucketsBound'
    BY <1>0, <1>2, <2>1 DEF LimiterInv, BucketsBound
  <2>3. AdmissionsBounded'
    BY <1>0 DEF LimiterInv, AdmissionsBounded
  <2>. QED  BY <2>2, <2>3
<1>. QED  BY <1>2, <1>3 DEF LimiterInv

\* An admission costs a token.
LEMMA AdmitKeeps ==
  ASSUME LimiterInv, NEW ip \in Clients, Admit(ip)
  PROVE  LimiterInv'
<1>. DEFINE a0 == [at |-> clock, early |-> early[ip]]
            n == Len(admitted[ip])
<1>0. UNCHANGED <<clock, early>> /\ LimiterTypeOK /\ admitted' = [admitted EXCEPT ![ip] = Append(@, a0)]
  BY DEF Admit, LimiterInv
<1>t. /\ clock \in Nat /\ early[ip] \in Nat /\ DOMAIN admitted[ip] = 1..n /\ n \in Nat
      /\ \A i \in DOMAIN admitted[ip] :
           i \in Int /\ admitted[ip][i].at \in Int /\ admitted[ip][i].early \in Int
  BY <1>0, LimiterTypes
<1>1. Tokens(ip) \in 0..Burst /\ Tokens(ip) >= 1
  BY <1>0, TokensType DEF Admit
<1>2. /\ admitted'[ip] = Append(admitted[ip], a0)
      /\ \A other \in Clients \ {ip} : admitted'[other] = admitted[other]
      /\ admitted' \in [Clients -> Seq(Admission)]
  <2>1. a0 \in Admission /\ admitted \in [Clients -> Seq(Admission)]
    BY <1>0, <1>t DEF LimiterTypeOK, Admission
  <2>. HIDE DEF a0
  <2>. QED  BY <1>0, <2>1
<1>3. LimiterTypeOK' /\ Tokens(ip)' = Tokens(ip) - 1
        /\ \A other \in Clients \ {ip} : Tokens(other)' = Tokens(other)
  <2>1. Tokens(ip) - 1 \in 0..Burst
    BY <1>1, LimiterAssumption
  <2>. QED  BY <1>0, <1>2, <2>1, SeenKeepsTypes DEF Admit
<1>. HIDE DEF n
<1>4. /\ Len(admitted'[ip]) = n + 1 /\ DOMAIN admitted'[ip] = 1..(n + 1)
      /\ \A i \in DOMAIN admitted[ip] : admitted'[ip][i] = admitted[ip][i]
      /\ admitted'[ip][n + 1] = a0
  <2>1. admitted[ip] \in Seq(Admission)
    BY <1>0 DEF LimiterTypeOK
  <2>. HIDE DEF a0
  <2>. QED  BY <1>2, <1>t, <2>1 DEF n
\* What the client is allowed now, after this admission.
<1>. DEFINE Allowed(i) == Allowance(early[ip] - admitted'[ip][i].early, clock - admitted'[ip][i].at)
<1>5. ASSUME NEW i \in DOMAIN admitted'[ip]
      PROVE  i \in Int /\ Allowed(i) \in Int /\ n + 1 - i + 1 + Tokens(ip)' <= Allowed(i)
  <2>1. CASE i \in DOMAIN admitted[ip]
    <3>1. Allowed(i) = AllowedSince(ip, i)
      BY <1>4, <2>1 DEF AllowedSince
    <3>2. n - i + 1 + Tokens(ip) <= AllowedSince(ip, i)
      BY <2>1 DEF LimiterInv, BucketsBound, n
    <3>3. AllowedSince(ip, i) \in Int
      <4>1. early[ip] - admitted[ip][i].early \in Int /\ clock - admitted[ip][i].at \in Int
        BY <1>t, <2>1
      <4>. QED  BY <4>1, AllowanceGrows DEF AllowedSince
    <3>4. i \in Int /\ n \in Int /\ Tokens(ip) \in Int /\ Tokens(ip)' = Tokens(ip) - 1
      BY <1>t, <1>1, <1>3, <2>1
    <3>. HIDE DEF Allowed
    <3>. QED  BY <3>1, <3>2, <3>3, <3>4
  <2>2. CASE i = n + 1
    <3>1. early[ip] - admitted'[ip][i].early = 0 /\ clock - admitted'[ip][i].at = 0
      BY <1>4, <1>t, <2>2
    <3>2. Allowed(i) = Burst
      BY <3>1, AllowanceStarts, Zenon
    <3>. HIDE DEF Allowed
    <3>. QED  BY <1>t, <1>1, <1>3, <2>2, <3>2, LimiterAssumption
  <2>. QED  BY <2>1, <2>2, <1>4, <1>t
<1>6. BucketsBound'
  <2>1. ASSUME NEW i \in DOMAIN admitted'[ip]
        PROVE  Len(admitted'[ip]) - i + 1 + Tokens(ip)' <= AllowedSince(ip, i)'
    <3>1. AllowedSince(ip, i)' = Allowed(i)
      BY <1>0 DEF AllowedSince, Allowance
    <3>2. n + 1 - i + 1 + Tokens(ip)' <= AllowedSince(ip, i)'
      BY <1>5, <3>1, Zenon
    <3>3. Len(admitted'[ip]) = n + 1
      BY <1>4
    <3>4. AllowedSince(ip, i)' \in Int
      BY <1>5, <3>1, Zenon
    <3>5. i \in Int /\ n \in Int /\ Tokens(ip)' \in Int
      BY <1>5, <1>t, <1>1, <1>3
    <3>. QED  BY <3>2, <3>3, <3>4, <3>5
  <2>2. ASSUME NEW other \in Clients \ {ip}, NEW i \in DOMAIN admitted'[other]
        PROVE  Len(admitted'[other]) - i + 1 + Tokens(other)' <= AllowedSince(other, i)'
    <3>1. admitted'[other] = admitted[other] /\ Tokens(other)' = Tokens(other)
      BY <1>2, <1>3
    <3>2. AllowedSince(other, i)' = AllowedSince(other, i)
      BY <1>0, <3>1 DEF AllowedSince, Allowance
    <3>. QED  BY <3>1, <3>2 DEF LimiterInv, BucketsBound
  <2>. QED  BY <2>1, <2>2 DEF BucketsBound
<1>7. AdmissionsBounded'
  <2>. SUFFICES ASSUME NEW other \in Clients, NEW i \in DOMAIN admitted'[other],
                       NEW j \in DOMAIN admitted'[other], i <= j
                PROVE  j - i + 1 <= Allowance(admitted'[other][j].early - admitted'[other][i].early,
                                              admitted'[other][j].at - admitted'[other][i].at)
    BY DEF AdmissionsBounded, Allowance
  <2>1. CASE other # ip
    BY <1>2, <2>1 DEF LimiterInv, AdmissionsBounded
  <2>2. CASE other = ip /\ j \in DOMAIN admitted[ip]
    <3>1. i \in DOMAIN admitted[ip]
      BY <1>4, <1>t, <2>2
    <3>. QED  BY <1>4, <2>2, <3>1 DEF LimiterInv, AdmissionsBounded
  <2>3. CASE other = ip /\ j = n + 1
    <3>1. /\ admitted'[ip][j].early = early[ip] /\ admitted'[ip][j].at = clock
      BY <1>4, <2>3
    <3>2. i \in Int /\ Allowed(i) \in Int /\ n + 1 - i + 1 + Tokens(ip)' <= Allowed(i)
      BY <1>5, <2>3
    <3>3. Tokens(ip)' >= 0 /\ Tokens(ip)' \in Int /\ n \in Int
      BY <1>1, <1>3, <1>t
    <3>4. Allowance(admitted'[ip][j].early - admitted'[ip][i].early,
                    admitted'[ip][j].at - admitted'[ip][i].at) = Allowed(i)
      BY <3>1
    <3>. HIDE DEF Allowed
    <3>. QED  BY <2>3, <3>2, <3>3, <3>4
  <2>. QED  BY <2>1, <2>2, <2>3, <1>4, <1>t
<1>. QED  BY <1>3, <1>6, <1>7 DEF LimiterInv

LEMMA LimiterKeeps ==
  LimiterInv /\ (LimiterStep \/ UNCHANGED limiterVars) => LimiterInv'
<1>. SUFFICES ASSUME LimiterInv, LimiterStep \/ UNCHANGED limiterVars
              PROVE  LimiterInv'
  OBVIOUS
<1>1. CASE UNCHANGED limiterVars
  BY <1>1 DEF limiterVars, LimiterInv, LimiterTypeOK, BucketsBound, AdmissionsBounded, Tokens,
     AllowedSince, Allowance
<1>. QED  BY <1>1, TickKeeps, EvictKeeps, TurnAwayKeeps, AdmitKeeps DEF LimiterStep

\* A client that is idle for as long as its bucket takes to fill is not forgotten early.
LEMMA LongTTLsCountNothing ==
  ASSUME LimiterTypeOK, TTL * Rate >= Burst, LimiterStep \/ UNCHANGED limiterVars
  PROVE  early' = early
<1>1. CASE evict
  <2>1. ASSUME NEW ip \in Expired PROVE ~(Tokens(ip) < Burst)
    <3>1. visitors[ip].tokens \in 0..Burst /\ visitors[ip].lastSeen \in 0..clock /\ clock \in Nat
      BY DEF LimiterTypeOK, Expired
    <3>. DEFINE elapsed == clock - visitors[ip].lastSeen
    <3>2. elapsed \in Nat /\ elapsed > TTL
      BY <3>1 DEF Expired
    <3>3. Rate * elapsed >= TTL * Rate /\ Rate * elapsed \in Nat /\ TTL * Rate \in Nat
      BY <3>2, LimiterAssumption
    <3>4. visitors[ip].tokens + Rate * elapsed >= Burst
      BY <3>1, <3>3, LimiterAssumption
    <3>. QED  BY <3>1, <3>3, <3>4, LimiterAssumption DEF Tokens, Expired
  <2>2. early' = [ip \in Clients |-> early[ip]]
    BY <1>1, <2>1 DEF evict, CountEarly
  <2>. QED  BY <2>2 DEF LimiterTypeOK
<1>. QED  BY <1>1 DEF LimiterStep, Tick, Admit, TurnAway, limiterVars

-----------------------------------------------------------------------------
(* What the stages that a request has passed have established.              *)

Cleared(k, actor, knowers) ==
  IF k.http
  THEN k.bearer = "valid" /\ actor = k.user /\ actor \in knowers /\ k.resource
  ELSE \/ k.skip /\ actor = Nobody
       \/ k.apiKey = "valid" /\ actor = Service
       \/ k.apiKey = None /\ k.bearer = "valid" /\ actor = k.user

Mediated(c) ==
  /\ at(c, "interceptor") => ~request[c].http
  /\ stage[c] \in {"chain", "permission", "quota"} => request[c].http
  /\ stage[c] \in {"permission", "quota"} =>
       request[c].bearer = "valid" /\ principal[c] = request[c].user
  /\ at(c, "quota") => principal[c] \in knew[c] /\ request[c].resource
  /\ at(c, "handler") => Cleared(request[c], principal[c], knew[c])
  /\ grants \subseteq knew[c]

Before == {"chain", "permission", "quota", "interceptor", "handler"}
After  == {"persist", "publish", "respond"}

\* Nothing is done before the handler, nothing is answered before its end.
Unacted(c) ==
  /\ stage[c] \in Before \/ answer[c] \in Refusals => \A e \in effects : e.action # Action(c)
  /\ stage[c] \in Before \union After => answer[c] = None

InTrail(trail, c) == \E r \in trail : r.action = Action(c) /\ r.actor = principal[c]

HasRow(c) == c \in WithDB => InTrail(rows, c)
HasEvent(c) == c \in WithPublisher => InTrail(events, c)

Trailed(c) ==
  /\ stage[c] \in {"persist", "publish"} => InTrail(effects, c)
  /\ at(c, "publish") /\ ~rowErr[c] => HasRow(c)
  /\ at(c, "respond") /\ ~RecordFails(c) => HasRow(c) /\ HasEvent(c)
  /\ answer[c] = "OK" => HasRow(c) /\ HasEvent(c)

CallerInv(c) == Mediated(c) /\ Unacted(c) /\ Trailed(c)

EffectsCleared ==
  \A e \in effects :
    /\ Cleared(e.request, e.actor, e.knew)
    /\ \E c \in Callers : \E n \in 0..attempt[c] : e.action = <<c, n>>

TrailIsTrue ==
  \A r \in rows \union events : \E e \in effects : e.action = r.action /\ e.actor = r.actor

PipelineTypes ==
  /\ TypeOK
  /\ attempt \in [Callers -> Nat]
  /\ knew \in [Callers -> SUBSET Users]
  /\ rowErr \in [Callers -> BOOLEAN] /\ eventErr \in [Callers -> BOOLEAN]

IInv ==
  /\ LimiterInv
  /\ PipelineTypes
  /\ \A c \in Callers : CallerInv(c)
  /\ EffectsCleared
  /\ TrailIsTrue

\* What a step leaves of a caller whom it is not about.
Frame(d) ==
  /\ stage'[d] = stage[d] /\ request'[d] = request[d] /\ attempt'[d] = attempt[d]
  /\ principal'[d] = principal[d] /\ answer'[d] = answer[d] /\ knew'[d] = knew[d]
  /\ rowErr'[d] = rowErr[d] /\ eventErr'[d] = eventErr[d]

LEMMA FrameKeeps ==
  ASSUME NEW d \in Callers, CallerInv(d), Frame(d), grants' \subseteq grants,
         rows \subseteq rows', events \subseteq events', effects \subseteq effects',
         \A e \in effects' \ effects : e.action # Action(d)
  PROVE  CallerInv(d)'
<1>. USE DEF Frame, CallerInv
<1>1. Mediated(d)'
  BY DEF Mediated, Cleared, at
<1>2. Unacted(d)'
  BY DEF Unacted, Action
<1>3. Trailed(d)'
  BY DEF Trailed, HasRow, HasEvent, InTrail, Action, at, RecordFails
<1>. QED  BY <1>1, <1>2, <1>3

LEMMA Starts == Init => IInv
<1>. SUFFICES ASSUME Init PROVE IInv
  OBVIOUS
<1>. USE DEF Init, AuditInit
<1>1. LimiterInv
  BY LimiterStarts
<1>2. PipelineTypes
  <2>1. LimiterTypeOK
    BY <1>1 DEF LimiterInv
  <2>2. (CHOOSE k \in Kinds : TRUE) \in Kinds
    BY PipelineAssumption
  <2>. QED  BY <2>1, <2>2, PipelineAssumption DEF PipelineTypes, TypeOK, Stages, Callers
<1>3. ASSUME NEW c \in Callers PROVE CallerInv(c)
  <2>1. answer[c] = None /\ None # "OK" /\ stage[c] = "client" /\ effects = {}
    BY PipelineAssumption DEF Outcomes
  <2>2. Mediated(c)
    BY <2>1 DEF Mediated, at
  <2>3. Unacted(c)
    BY <2>1 DEF Unacted, Before, After
  <2>4. Trailed(c)
    BY <2>1 DEF Trailed, at
  <2>. QED  BY <2>2, <2>3, <2>4 DEF CallerInv
<1>4. EffectsCleared /\ TrailIsTrue
  BY DEF EffectsCleared, TrailIsTrue
<1>. QED  BY <1>1, <1>2, <1>3, <1>4 DEF IInv

-----------------------------------------------------------------------------
(* Types.                                                                   *)

LEMMA RealIPIsClient ==
  ASSUME NEW k \in Kinds
  PROVE  realIP(k) \in Clients
<1>1. k.forwarded \in Seq(Clients) /\ k.realIp \in Clients \union {None} /\ k.remote \in Clients
  BY PipelineAssumption DEF KindType
<1>. QED  BY <1>1 DEF realIP

LEMMA LimiterOfNext ==
  ASSUME PipelineTypes, [Next]_vars
  PROVE  LimiterStep \/ UNCHANGED limiterVars
<1>. USE DEF vars, limiterVars
<1>1. ASSUME NEW c \in Callers, Chain(c) PROVE LimiterStep \/ UNCHANGED limiterVars
  <2>1. realIP(request[c]) \in Clients
    BY RealIPIsClient DEF PipelineTypes, TypeOK
  <2>. QED  BY <1>1, <2>1 DEF Chain, LimiterStep
<1>2. CASE Limiter
  BY <1>2 DEF Limiter, LimiterStep
<1>3. ASSUME NEW c \in Callers,
             Send(c) \/ RequirePermission(c) \/ CheckQuota(c) \/ Authenticate(c) \/ Act(c)
       PROVE UNCHANGED limiterVars
  BY <1>3 DEF Send, RequirePermission, CheckQuota, Authenticate, Act
<1>4. ASSUME NEW c \in Callers,
             RecordRow(c) \/ RecordEvent(c) \/ Respond(c) \/ Logging(c) \/ logRPC(c)
               \/ Recovery(c) \/ RecoveryRPC(c)
       PROVE UNCHANGED limiterVars
  BY <1>4 DEF RecordRow, RecordEvent, Respond, Logging, logRPC, Report, Recovery, RecoveryRPC, Panic
<1>5. CASE Revoke
  BY <1>5 DEF Revoke
<1>. QED  BY <1>1, <1>2, <1>3, <1>4, <1>5 DEF Next, Serve

LEMMA TypesInductive ==
  ASSUME PipelineTypes, LimiterTypeOK', [Next]_vars
  PROVE  PipelineTypes'
<1>. USE PipelineAssumption
         DEF PipelineTypes, TypeOK, Stages, Outcomes, Refuse, Pass, WriteHeader, Fault, at,
             services, caller, auditVars
<1>1. ASSUME NEW c \in Callers, Send(c) PROVE PipelineTypes'
  <2>0. PICK k \in IF attempt[c] = 0 THEN Kinds ELSE {request[c]} :
          /\ request' = [request EXCEPT ![c] = k]
          /\ Pass(c, IF k.http THEN "chain" ELSE "interceptor")
    BY <1>1, Zenon DEF Send
  <2>1. request' \in [Callers -> Kinds] /\ stage' \in [Callers -> Stages]
    BY <2>0
  <2>2. knew' \in [Callers -> SUBSET Users] /\ attempt' \in [Callers -> Nat]
    <3>1. knew' = [knew EXCEPT ![c] = grants] /\ attempt' = [attempt EXCEPT ![c] = @ + 1]
      BY <1>1, Zenon DEF Send
    <3>. QED  BY <3>1
  <2>. QED  BY <1>1, <2>1, <2>2 DEF Send
<1>2. ASSUME NEW c \in Callers, Chain(c) PROVE PipelineTypes'
  <2>1. request[c].user \in Users \union {Nobody}
    BY DEF KindType
  <2>2. principal' \in [Callers -> Users \union {Nobody, Service}]
    BY <1>2, <2>1 DEF Chain
  <2>3. stage' \in [Callers -> Stages] /\ answer' \in [Callers -> Outcomes \union {None}]
    BY <1>2 DEF Chain
  <2>. QED  BY <1>2, <2>2, <2>3 DEF Chain
<1>3. ASSUME NEW c \in Callers, RequirePermission(c) PROVE PipelineTypes'
  BY <1>3 DEF RequirePermission
<1>4. ASSUME NEW c \in Callers, CheckQuota(c) PROVE PipelineTypes'
  BY <1>4 DEF CheckQuota
<1>5. ASSUME NEW c \in Callers, Authenticate(c) PROVE PipelineTypes'
  <2>1. request[c].user \in Users \union {Nobody}
    BY DEF KindType
  <2>2. principal' \in [Callers -> Users \union {Nobody, Service}]
    BY <1>5, <2>1 DEF Authenticate
  <2>. QED  BY <1>5, <2>2 DEF Authenticate
<1>6. ASSUME NEW c \in Callers, Act(c) PROVE PipelineTypes'
  BY <1>6 DEF Act, Callers, Complete
<1>7. ASSUME NEW c \in Callers, RecordRow(c) PROVE PipelineTypes'
  <2>1. faults' = faults \/ (faults < MaxFaults /\ faults' = faults + 1)
    BY <1>7, Zenon DEF RecordRow
  <2>2. \/ Persist(c, Action(c), principal[c], FALSE)
        \/ Persist(c, Action(c), principal[c], TRUE)
    BY <1>7 DEF RecordRow
  <2>3. rowErr' \in [Callers -> BOOLEAN] /\ UNCHANGED eventErr
    BY <2>2 DEF Persist, Callers
  <2>4. stage' = [stage EXCEPT ![c] = "publish"]
          /\ UNCHANGED <<caller, principal, answer, services>>
    BY <1>7, Zenon DEF RecordRow
  <2>. QED  BY <2>1, <2>3, <2>4
<1>8. ASSUME NEW c \in Callers, RecordEvent(c) PROVE PipelineTypes'
  <2>1. eventErr' \in [Callers -> BOOLEAN]
    BY <1>8 DEF RecordEvent, PublishEvent, Callers
  <2>. QED  BY <1>8, <2>1 DEF RecordEvent, PublishEvent
<1>9. ASSUME NEW c \in Callers, Respond(c) PROVE PipelineTypes'
  BY <1>9 DEF Respond
<1>10. ASSUME NEW c \in Callers, Logging(c) \/ logRPC(c) PROVE PipelineTypes'
  BY <1>10 DEF Logging, logRPC, Report
<1>11. ASSUME NEW c \in Callers, Recovery(c) \/ RecoveryRPC(c) PROVE PipelineTypes'
  BY <1>11 DEF Recovery, RecoveryRPC, Panic
<1>12. CASE Limiter
  BY <1>12 DEF Limiter, pipelineVars
<1>13. CASE Revoke
  BY <1>13 DEF Revoke
<1>14. CASE UNCHANGED vars
  BY <1>14 DEF vars, pipelineVars
<1>. QED  BY <1>1, <1>2, <1>3, <1>4, <1>5, <1>6, <1>7, <1>8, <1>9, <1>10, <1>11, <1>12, <1>13, <1>14
          DEF Next, Serve

-----------------------------------------------------------------------------
(* One caller moves, the others stay where they are.                        *)

SafetyInv == (\A d \in Callers : CallerInv(d)) /\ EffectsCleared /\ TrailIsTrue

\* A step that does nothing and records nothing.
LEMMA MoveKeeps ==
  ASSUME SafetyInv, attempt \in [Callers -> Nat], attempt' \in [Callers -> Nat],
         NEW c \in Callers, CallerInv(c)', attempt[c] <= attempt'[c],
         \A d \in Callers \ {c} : Frame(d), UNCHANGED <<grants, effects, rows, events>>
  PROVE  SafetyInv'
<1>1. \A d \in Callers \ {c} : CallerInv(d)'
  BY FrameKeeps DEF SafetyInv
<1>2. \A d \in Callers : attempt[d] <= attempt'[d]
  BY DEF Frame
<1>3. EffectsCleared'
  <2>. SUFFICES ASSUME NEW e \in effects
                PROVE  /\ Cleared(e.request, e.actor, e.knew)
                       /\ \E d \in Callers : \E n \in 0..attempt'[d] : e.action = <<d, n>>
    BY DEF EffectsCleared, Cleared
  <2>1. PICK d \in Callers : \E n \in 0..attempt[d] : e.action = <<d, n>>
    BY DEF SafetyInv, EffectsCleared
  <2>2. \E n \in 0..attempt'[d] : e.action = <<d, n>>
    BY <1>2, <2>1
  <2>. QED  BY <2>1, <2>2 DEF SafetyInv, EffectsCleared
<1>4. TrailIsTrue'
  BY DEF SafetyInv, TrailIsTrue
<1>. QED  BY <1>1, <1>3, <1>4 DEF SafetyInv

\* The frame of what has variables of a caller only.
LEMMA RefuseMoves ==
  ASSUME PipelineTypes, NEW c \in Callers, NEW status \in Refusals, Refuse(c, status),
         SafetyInv, stage[c] \in Before,
         UNCHANGED <<request, attempt, knew, principal, auditVars, grants, effects>>
  PROVE  SafetyInv'
<1>1. /\ stage'[c] = "logging" /\ answer'[c] = status
      /\ \A d \in Callers \ {c} : stage'[d] = stage[d] /\ answer'[d] = answer[d]
  BY DEF Refuse, Pass, WriteHeader, PipelineTypes, TypeOK, SafetyInv, CallerInv, Unacted
<1>2. CallerInv(c)'
  <2>1. Mediated(c)'
    BY <1>1 DEF SafetyInv, CallerInv, Mediated, at
  <2>2. Unacted(c)'
    BY <1>1 DEF SafetyInv, CallerInv, Unacted, Action, Before, After
  <2>3. Trailed(c)'
    BY <1>1 DEF Trailed, at, Refusals
  <2>. QED  BY <2>1, <2>2, <2>3 DEF CallerInv
<1>3. \A d \in Callers \ {c} : Frame(d)
  BY <1>1 DEF Frame, auditVars
<1>. QED  BY <1>2, <1>3, MoveKeeps DEF auditVars, PipelineTypes

\* A stage lets the request on, to a stage before the handler or to the handler.
LEMMA PassMoves ==
  ASSUME PipelineTypes, NEW c \in Callers, NEW s \in {"permission", "quota", "handler"}, Pass(c, s),
         SafetyInv, stage[c] \in Before,
         \A d \in Callers \ {c} : principal'[d] = principal[d],
         UNCHANGED <<request, attempt, knew, answer, auditVars, grants, effects>>,
         Mediated(c)'
  PROVE  SafetyInv'
<1>1. /\ stage'[c] = s /\ answer'[c] = None
      /\ \A d \in Callers \ {c} : stage'[d] = stage[d] /\ answer'[d] = answer[d]
  BY DEF Pass, PipelineTypes, TypeOK, SafetyInv, CallerInv, Unacted
<1>2. Unacted(c)'
  BY <1>1, PipelineAssumption DEF SafetyInv, CallerInv, Unacted, Action, Refusals, Before, After
<1>3. Trailed(c)'
  BY <1>1, PipelineAssumption DEF Trailed, at, Outcomes
<1>4. \A d \in Callers \ {c} : Frame(d)
  BY <1>1 DEF Frame, auditVars
<1>. QED  BY <1>2, <1>3, <1>4, MoveKeeps DEF auditVars, PipelineTypes, CallerInv

\* A request that is answered or has failed ends with a status.
LEMMA EndMoves ==
  ASSUME PipelineTypes, PipelineTypes', NEW c \in Callers, SafetyInv,
         stage'[c] \in {"logging", "client"},
         \/ answer'[c] = answer[c] /\ stage[c] \notin Before \union After
         \/ answer'[c] = "Internal"
         \/ answer'[c] = "OK" /\ at(c, "respond") /\ ~RecordFails(c),
         \A d \in Callers \ {c} : stage'[d] = stage[d] /\ answer'[d] = answer[d],
         UNCHANGED <<request, attempt, principal, knew, auditVars, grants, effects>>
  PROVE  SafetyInv'
<1>1. Mediated(c)'
  BY DEF SafetyInv, CallerInv, Mediated, at
<1>2. Unacted(c)'
  BY DEF SafetyInv, CallerInv, Unacted, Action, Refusals, Before, After
<1>3. Trailed(c)'
  BY DEF SafetyInv, CallerInv, Trailed, HasRow, HasEvent, InTrail, Action, at, auditVars
<1>4. \A d \in Callers \ {c} : Frame(d)
  BY DEF Frame, auditVars
<1>. QED  BY <1>1, <1>2, <1>3, <1>4, MoveKeeps DEF auditVars, PipelineTypes, CallerInv

LEMMA SendMoves ==
  ASSUME PipelineTypes, PipelineTypes', SafetyInv, NEW c \in Callers, Send(c)
  PROVE  SafetyInv'
<1>0. PICK k \in IF attempt[c] = 0 THEN Kinds ELSE {request[c]} :
        /\ request' = [request EXCEPT ![c] = k]
        /\ Pass(c, IF k.http THEN "chain" ELSE "interceptor")
  BY Zenon DEF Send
<1>1. /\ attempt' = [attempt EXCEPT ![c] = @ + 1]
      /\ principal' = [principal EXCEPT ![c] = Nobody]
      /\ answer' = [answer EXCEPT ![c] = None]
      /\ knew' = [knew EXCEPT ![c] = grants]
      /\ UNCHANGED <<grants, effects, auditVars>>
  BY Zenon DEF Send
<1>2. /\ stage'[c] = (IF k.http THEN "chain" ELSE "interceptor") /\ request'[c] = k
      /\ attempt'[c] = attempt[c] + 1 /\ answer'[c] = None /\ knew'[c] = grants
  BY <1>0, <1>1 DEF Pass, PipelineTypes, TypeOK
<1>3. \A d \in Callers \ {c} : Frame(d)
  BY <1>0, <1>1 DEF Pass, PipelineTypes, TypeOK, Frame, auditVars
<1>4. Mediated(c)'
  BY <1>1, <1>2 DEF Mediated, at
<1>5. Unacted(c)'
  <2>1. \A e \in effects : e.action # <<c, attempt[c] + 1>>
    <3>. SUFFICES ASSUME NEW e \in effects, e.action = <<c, attempt[c] + 1>> PROVE FALSE
      OBVIOUS
    <3>1. PICK d \in Callers : \E n \in 0..attempt[d] : e.action = <<d, n>>
      BY DEF SafetyInv, EffectsCleared
    <3>. QED  BY <3>1 DEF PipelineTypes
  <2>. QED  BY <1>1, <1>2, <2>1 DEF Unacted, Action
<1>6. Trailed(c)'
  BY <1>2, PipelineAssumption DEF Trailed, at, Outcomes
<1>7. attempt[c] <= attempt'[c]
  BY <1>2 DEF PipelineTypes
<1>. QED  BY <1>1, <1>3, <1>4, <1>5, <1>6, <1>7, MoveKeeps DEF auditVars, PipelineTypes, CallerInv

LEMMA ChainMoves ==
  ASSUME PipelineTypes, PipelineTypes', SafetyInv, NEW c \in Callers, Chain(c)
  PROVE  SafetyInv'
<1>1. /\ at(c, "chain") /\ stage[c] \in Before
      /\ UNCHANGED <<caller, services, auditVars>>
  BY DEF Chain, at, Before
<1>2. CASE /\ \E status \in {"NoContent", "TooManyRequests", "Unauthorized"} : Refuse(c, status)
           /\ UNCHANGED principal
  <2>1. {"NoContent", "TooManyRequests", "Unauthorized"} \subseteq Refusals
    BY DEF Refusals, Outcomes
  <2>. QED  BY <1>1, <1>2, <2>1, RefuseMoves DEF caller, services
<1>3. CASE /\ request[c].bearer = "valid" /\ principal' = [principal EXCEPT ![c] = request[c].user]
           /\ Pass(c, "permission") /\ UNCHANGED answer
  <2>1. Mediated(c)'
    BY <1>1, <1>3 DEF SafetyInv, CallerInv, Mediated, Pass, at, caller, services, PipelineTypes, TypeOK
  <2>2. \A d \in Callers \ {c} : principal'[d] = principal[d]
    BY <1>3 DEF PipelineTypes, TypeOK
  <2>. QED  BY <1>1, <1>3, <2>1, <2>2, PassMoves DEF caller, services
<1>. QED  BY <1>2, <1>3 DEF Chain

LEMMA PermissionMoves ==
  ASSUME PipelineTypes, PipelineTypes', SafetyInv, NEW c \in Callers, RequirePermission(c)
  PROVE  SafetyInv'
<1>1. /\ at(c, "permission") /\ stage[c] \in Before
      /\ UNCHANGED <<caller, principal, services, auditVars>>
  BY DEF RequirePermission, at, Before
<1>2. CASE \E status \in {"Unauthorized", "BadRequest", "Unavailable", "Forbidden"} : Refuse(c, status)
  <2>1. {"Unauthorized", "BadRequest", "Unavailable", "Forbidden"} \subseteq Refusals
    BY DEF Refusals, Outcomes
  <2>. QED  BY <1>1, <1>2, <2>1, RefuseMoves DEF caller, services
<1>3. CASE request[c].resource /\ principal[c] \in grants /\ Pass(c, "quota") /\ UNCHANGED answer
  <2>1. Mediated(c)'
    BY <1>1, <1>3 DEF SafetyInv, CallerInv, Mediated, Pass, at, caller, services, PipelineTypes, TypeOK
  <2>. QED  BY <1>1, <1>3, <2>1, PassMoves DEF caller, services
<1>. QED  BY <1>2, <1>3 DEF RequirePermission

LEMMA QuotaMoves ==
  ASSUME PipelineTypes, PipelineTypes', SafetyInv, NEW c \in Callers, CheckQuota(c)
  PROVE  SafetyInv'
<1>1. /\ at(c, "quota") /\ stage[c] \in Before
      /\ UNCHANGED <<caller, principal, grants, knew, effects, auditVars>>
  BY DEF CheckQuota, at, Before
<1>2. CASE Refuse(c, "PaymentRequired")
  <2>1. "PaymentRequired" \in Refusals
    BY DEF Refusals, Outcomes
  <2>. QED  BY <1>1, <1>2, <2>1, RefuseMoves DEF caller
<1>3. CASE Pass(c, "handler") /\ UNCHANGED answer
  <2>1. Mediated(c)'
    BY <1>1, <1>3 DEF SafetyInv, CallerInv, Mediated, Cleared, Pass, at, caller, PipelineTypes, TypeOK
  <2>. QED  BY <1>1, <1>3, <2>1, PassMoves DEF caller
<1>. QED  BY <1>2, <1>3 DEF CheckQuota

LEMMA AuthenticateMoves ==
  ASSUME PipelineTypes, PipelineTypes', SafetyInv, NEW c \in Callers, Authenticate(c)
  PROVE  SafetyInv'
<1>1. /\ at(c, "interceptor") /\ stage[c] \in Before
      /\ UNCHANGED <<caller, grants, knew, effects, auditVars>>
  BY DEF Authenticate, at, Before
<1>2. CASE Refuse(c, "Unauthorized") /\ UNCHANGED principal
  <2>1. "Unauthorized" \in Refusals
    BY DEF Refusals, Outcomes
  <2>. QED  BY <1>1, <1>2, <2>1, RefuseMoves DEF caller
<1>3. CASE /\ \/ request[c].skip \/ request[c].apiKey = "valid"
              \/ request[c].apiKey = None /\ request[c].bearer = "valid"
           /\ principal' = [principal EXCEPT ![c] =
                 IF request[c].skip THEN Nobody
                 ELSE IF request[c].apiKey = "valid" THEN Service ELSE request[c].user]
           /\ Pass(c, "handler") /\ UNCHANGED answer
  <2>1. Mediated(c)'
    BY <1>1, <1>3 DEF SafetyInv, CallerInv, Mediated, Cleared, Pass, at, caller, PipelineTypes, TypeOK
  <2>2. \A d \in Callers \ {c} : principal'[d] = principal[d]
    BY <1>3 DEF PipelineTypes, TypeOK
  <2>. QED  BY <1>1, <1>3, <2>1, <2>2, PassMoves DEF caller
<1>. QED  BY <1>2, <1>3 DEF Authenticate

LEMMA ActMoves ==
  ASSUME PipelineTypes, PipelineTypes', SafetyInv, NEW c \in Callers, Act(c)
  PROVE  SafetyInv'
<1>. DEFINE e0 == [action |-> Action(c), actor |-> principal[c], request |-> request[c],
                   knew |-> knew[c]]
<1>1. /\ at(c, "handler") /\ effects' = effects \union {e0}
      /\ stage' = [stage EXCEPT ![c] = IF Complete(principal[c]) THEN "persist" ELSE "respond"]
      /\ rowErr' = [rowErr EXCEPT ![c] = ~Complete(principal[c])]
      /\ eventErr' = [eventErr EXCEPT ![c] = FALSE]
      /\ UNCHANGED <<request, attempt, principal, answer, grants, knew, rows, events>>
  BY DEF Act, Pass, caller
<1>2. /\ stage'[c] = (IF Complete(principal[c]) THEN "persist" ELSE "respond")
      /\ (stage'[c] = "respond" => rowErr'[c]) /\ answer[c] = None
      /\ \A d \in Callers \ {c} : Frame(d)
  BY <1>1 DEF PipelineTypes, TypeOK, Frame, SafetyInv, CallerInv, Unacted, Before, After, at, Callers
<1>3. ASSUME NEW d \in Callers \ {c} PROVE CallerInv(d)'
  <2>1. e0.action # Action(d)
    BY DEF Action
  <2>2. \A e \in effects' \ effects : e.action # Action(d)
    BY <1>1, <2>1
  <2>3. CallerInv(d) /\ Frame(d) /\ grants' \subseteq grants /\ rows \subseteq rows'
          /\ events \subseteq events' /\ effects \subseteq effects'
    BY <1>1, <1>2 DEF SafetyInv
  <2>. QED  BY <2>2, <2>3, FrameKeeps
<1>4. CallerInv(c)'
  <2>1. Mediated(c)'
    BY <1>1, <1>2 DEF SafetyInv, CallerInv, Mediated, at
  <2>2. Unacted(c)'
    BY <1>1, <1>2, PipelineAssumption DEF Unacted, Before, After, Refusals, Outcomes
  <2>3. InTrail(effects, c)'
    <3>1. e0 \in effects' /\ e0.actor = principal'[c]
      BY <1>1
    <3>2. e0.action = Action(c)'
      BY <1>1 DEF Action
    <3>. QED  BY <3>1, <3>2, Zenon DEF InTrail
  <2>4. Trailed(c)'
    BY <1>1, <1>2, <2>3, PipelineAssumption DEF Trailed, at, RecordFails, Outcomes
  <2>. QED  BY <2>1, <2>2, <2>4 DEF CallerInv
<1>5. EffectsCleared'
  <2>1. Cleared(e0.request, e0.actor, e0.knew)
    BY <1>1 DEF SafetyInv, CallerInv, Mediated, at
  <2>2. attempt[c] \in 0..attempt[c] /\ e0.action = <<c, attempt[c]>>
    BY DEF Action, PipelineTypes
  <2>3. \A e \in effects' : /\ Cleared(e.request, e.actor, e.knew)
                            /\ \E d \in Callers : \E n \in 0..attempt[d] : e.action = <<d, n>>
    BY <1>1, <2>1, <2>2 DEF SafetyInv, EffectsCleared
  <2>. QED  BY <1>1, <2>3 DEF EffectsCleared, Cleared
<1>6. TrailIsTrue'
  BY <1>1 DEF SafetyInv, TrailIsTrue
<1>. QED  BY <1>3, <1>4, <1>5, <1>6 DEF SafetyInv

\* Record's two halves add a row, or an event, for what has been done.
LEMMA RecordMoves ==
  ASSUME PipelineTypes, PipelineTypes', SafetyInv, NEW c \in Callers,
         RecordRow(c) \/ RecordEvent(c)
  PROVE  SafetyInv'
<1>. DEFINE r0 == [action |-> Action(c), actor |-> principal[c]]
<1>1. /\ stage[c] \in {"persist", "publish"}
      /\ UNCHANGED <<caller, principal, answer, services>>
  BY DEF RecordRow, RecordEvent, at
<1>2. /\ rows' \in {rows, rows \union {r0}} /\ events' \in {events, events \union {r0}}
      /\ \A d \in Callers \ {c} : Frame(d)
      /\ \/ /\ at(c, "persist") /\ stage'[c] = "publish"
            /\ ~rowErr'[c] /\ c \in WithDB => r0 \in rows'
         \/ /\ at(c, "publish") /\ stage'[c] = "respond"
            /\ ~eventErr'[c] /\ c \in WithPublisher => r0 \in events'
            /\ rowErr' = rowErr /\ rows' = rows
  <2>1. CASE RecordRow(c)
    <3>1. PICK fails \in BOOLEAN : Persist(c, Action(c), principal[c], fails)
      BY <2>1, Zenon DEF RecordRow
    <3>2. at(c, "persist") /\ stage' = [stage EXCEPT ![c] = "publish"]
      BY <2>1, Zenon DEF RecordRow, Pass
    <3>. DEFINE err == fails /\ c \in WithDB
    <3>3. /\ rowErr' = [rowErr EXCEPT ![c] = err] /\ UNCHANGED <<events, eventErr>>
          /\ rows' \in {rows, rows \union {r0}}
          /\ ~err /\ c \in WithDB => r0 \in rows'
      BY <3>1 DEF Persist
    <3>. HIDE DEF err
    <3>. QED  BY <1>1, <3>2, <3>3 DEF Frame, caller, services, PipelineTypes, TypeOK, Callers
  <2>2. CASE RecordEvent(c)
    <3>1. PICK fails \in BOOLEAN : PublishEvent(c, Action(c), principal[c], fails)
      BY <2>2, Zenon DEF RecordEvent
    <3>2. at(c, "publish") /\ stage' = [stage EXCEPT ![c] = "respond"]
      BY <2>2, Zenon DEF RecordEvent, Pass
    <3>. DEFINE err == (fails \/ ~AuditRegistered) /\ c \in WithPublisher
    <3>3. /\ eventErr' = [eventErr EXCEPT ![c] = err] /\ UNCHANGED <<rows, rowErr>>
          /\ events' \in {events, events \union {r0}}
          /\ ~err /\ c \in WithPublisher => r0 \in events'
      BY <3>1 DEF PublishEvent
    <3>. HIDE DEF err
    <3>. QED  BY <1>1, <3>2, <3>3 DEF Frame, caller, services, PipelineTypes, TypeOK, Callers
  <2>. QED  BY <2>1, <2>2
<1>3. \A d \in Callers \ {c} : CallerInv(d)'
  BY <1>1, <1>2, FrameKeeps DEF SafetyInv, services
<1>4. CallerInv(c)'
  <2>1. Mediated(c)'
    BY <1>1, <1>2 DEF SafetyInv, CallerInv, Mediated, at, caller, services
  <2>2. Unacted(c)'
    BY <1>1, <1>2, PipelineAssumption
       DEF SafetyInv, CallerInv, Unacted, Before, After, Refusals, caller, services
  <2>3. Trailed(c)'
    <3>1. answer'[c] # "OK" /\ InTrail(effects, c)
      BY <1>1, PipelineAssumption
         DEF SafetyInv, CallerInv, Unacted, Trailed, After, Outcomes
    <3>2. InTrail(effects, c)'
      BY <1>1, <3>1 DEF InTrail, Action, caller, services
    <3>3. r0 \in rows' => InTrail(rows, c)'
      BY <1>1 DEF InTrail, Action, caller
    <3>4. r0 \in events' => InTrail(events, c)'
      BY <1>1 DEF InTrail, Action, caller
    <3>5. at(c, "publish") /\ ~rowErr[c] /\ rows' = rows => HasRow(c)'
      BY <1>1 DEF SafetyInv, CallerInv, Trailed, HasRow, InTrail, Action, caller
    <3>. QED  BY <1>2, <3>1, <3>2, <3>3, <3>4, <3>5
              DEF Trailed, HasRow, HasEvent, at, RecordFails
  <2>. QED  BY <2>1, <2>2, <2>3 DEF CallerInv
<1>5. EffectsCleared'
  BY <1>1 DEF SafetyInv, EffectsCleared, Cleared, caller, services
<1>6. TrailIsTrue'
  <2>1. \E e \in effects : e.action = r0.action /\ e.actor = r0.actor
    BY <1>1 DEF SafetyInv, CallerInv, Trailed, InTrail
  <2>2. effects' = effects
    BY <1>1 DEF services
  <2>. QED  BY <1>2, <2>1, <2>2 DEF SafetyInv, TrailIsTrue
<1>. QED  BY <1>3, <1>4, <1>5, <1>6 DEF SafetyInv

LEMMA EndsMove ==
  ASSUME PipelineTypes, PipelineTypes', SafetyInv, NEW c \in Callers,
         Respond(c) \/ Logging(c) \/ logRPC(c) \/ Recovery(c) \/ RecoveryRPC(c)
  PROVE  SafetyInv'
<1>. USE DEF Pass, WriteHeader, PipelineTypes, TypeOK, at, services, caller
<1>1. CASE Respond(c)
  <2>1. answer[c] = None
    BY <1>1 DEF Respond, SafetyInv, CallerInv, Unacted, After
  <2>2. answer'[c] = (IF RecordFails(c) THEN "Internal" ELSE "OK")
    BY <1>1, <2>1 DEF Respond
  <2>3. /\ at(c, "respond") /\ stage'[c] = "logging"
        /\ \A d \in Callers \ {c} : stage'[d] = stage[d] /\ answer'[d] = answer[d]
        /\ UNCHANGED <<request, attempt, principal, knew, auditVars, grants, effects>>
    BY <1>1 DEF Respond
  <2>. QED  BY <2>2, <2>3, EndMoves
<1>2. CASE Logging(c) \/ logRPC(c)
  <2>1. /\ stage[c] \notin Before \union After /\ stage'[c] = "client" /\ answer' = answer
        /\ \A d \in Callers \ {c} : stage'[d] = stage[d]
        /\ UNCHANGED <<request, attempt, principal, knew, auditVars, grants, effects>>
    BY <1>2 DEF Logging, logRPC, Report, Before, After
  <2>. QED  BY <2>1, EndMoves
<1>3. CASE Recovery(c)
  <2>1. /\ stage'[c] = "client"
        /\ \A d \in Callers \ {c} : stage'[d] = stage[d] /\ answer'[d] = answer[d]
        /\ UNCHANGED <<request, attempt, principal, knew, auditVars, grants, effects>>
    BY <1>3 DEF Recovery, Panic
  <2>2. answer'[c] = "Internal" \/ (answer'[c] = answer[c] /\ stage[c] \notin Before \union After)
    BY <1>3 DEF Recovery, SafetyInv, CallerInv, Unacted
  <2>. QED  BY <2>1, <2>2, EndMoves
<1>4. CASE RecoveryRPC(c)
  <2>1. /\ stage'[c] = "client" /\ answer'[c] = "Internal"
        /\ \A d \in Callers \ {c} : stage'[d] = stage[d] /\ answer'[d] = answer[d]
        /\ UNCHANGED <<request, attempt, principal, knew, auditVars, grants, effects>>
    BY <1>4 DEF RecoveryRPC, Panic
  <2>. QED  BY <2>1, EndMoves
<1>. QED  BY <1>1, <1>2, <1>3, <1>4

\* Time, eviction and the permission service move no caller.
LEMMA QuietKeeps ==
  ASSUME SafetyInv, Limiter \/ Revoke \/ UNCHANGED vars
  PROVE  SafetyInv'
<1>1. /\ UNCHANGED <<stage, request, attempt, principal, answer, knew, effects, auditVars>>
      /\ grants' \subseteq grants
  BY DEF Limiter, Revoke, vars, pipelineVars
<1>2. \A c \in Callers : CallerInv(c)'
  BY <1>1, FrameKeeps DEF SafetyInv, Frame, auditVars
<1>3. EffectsCleared'
  BY <1>1 DEF SafetyInv, EffectsCleared, Cleared
<1>4. TrailIsTrue'
  BY <1>1 DEF SafetyInv, TrailIsTrue, auditVars
<1>. QED  BY <1>2, <1>3, <1>4 DEF SafetyInv

-----------------------------------------------------------------------------
(* The quota.                                                               *)

\* Whom the quota middleware or the interceptor let through and who has not acted.
AtHandler == {c \in Callers : stage[c] = "handler"}

\* OvershootIsBounded with the units that are already promised.
QuotaInv ==
  /\ used \in Nat /\ unchecked \in Nat
  /\ used + Cardinality(AtHandler) <= Quota + Cardinality(Callers) - 1 + unchecked

\* What a step makes of the quota.
Spares == AtHandler' \subseteq AtHandler /\ UNCHANGED <<used, unchecked>>
Spends(c) ==
  /\ c \in AtHandler /\ AtHandler' \subseteq AtHandler \ {c}
  /\ used' = used + 1 /\ UNCHANGED unchecked
PassesUnchecked(c) ==
  /\ AtHandler' \subseteq AtHandler \union {c}
  /\ unchecked' = unchecked + 1 /\ UNCHANGED used
PassesChecked == used < Quota /\ UNCHANGED <<used, unchecked>>

LEMMA QuotaKinds ==
  ASSUME PipelineTypes, [Next]_vars
  PROVE  \/ Spares \/ PassesChecked
         \/ \E c \in Callers : Spends(c) \/ PassesUnchecked(c)
<1>. USE DEF at, services, caller
<1>0. stage \in [Callers -> Stages]
  BY DEF PipelineTypes, TypeOK
<1>1. ASSUME NEW c \in Callers, NEW s \in Stages \ {"handler"}, Pass(c, s), UNCHANGED <<used, unchecked>>
      PROVE  Spares
  BY <1>0, <1>1 DEF Pass, AtHandler, Spares
<1>2. CASE UNCHANGED <<stage, used, unchecked>>
  BY <1>2 DEF AtHandler, Spares
<1>3. ASSUME NEW c \in Callers, Pass(c, "handler"), UNCHANGED used, unchecked' = unchecked + 1
      PROVE  PassesUnchecked(c)
  BY <1>0, <1>3 DEF Pass, AtHandler, PassesUnchecked
<1>4. ASSUME NEW c \in Callers, Send(c) PROVE Spares
  <2>1. (Pass(c, "chain") \/ Pass(c, "interceptor")) /\ UNCHANGED <<used, unchecked>>
    BY <1>4, Zenon DEF Send
  <2>. QED  BY <1>1, <2>1 DEF Stages
<1>5. ASSUME NEW c \in Callers, Chain(c) \/ RequirePermission(c) PROVE Spares
  <2>1. /\ Pass(c, "logging") \/ Pass(c, "permission") \/ Pass(c, "quota")
        /\ UNCHANGED <<used, unchecked>>
    BY <1>5, Zenon DEF Chain, RequirePermission, Refuse
  <2>. QED  BY <1>1, <2>1 DEF Stages
<1>6. ASSUME NEW c \in Callers, CheckQuota(c) PROVE Spares \/ PassesChecked \/ PassesUnchecked(c)
  <2>0. UNCHANGED used
    BY <1>6, Zenon DEF CheckQuota
  <2>1. CASE Pass(c, "handler") /\ unchecked' = unchecked + 1
    BY <1>3, <2>0, <2>1
  <2>2. ASSUME NEW result \in Check(request[c]) \union CheckUnderFault(request[c]),
               IF result = "denied"
                 THEN Refuse(c, "PaymentRequired")
                 ELSE Pass(c, "handler") /\ UNCHANGED answer,
               unchecked' = IF result = "error" \/ ~request[c].metered
                            THEN unchecked + 1 ELSE unchecked
        PROVE  Spares \/ PassesChecked \/ PassesUnchecked(c)
    <3>1. CASE result = "denied"
      <4>1. request[c].metered
        BY <2>2, <3>1 DEF Check, CheckUnderFault
      <4>. QED  BY <1>1, <2>0, <2>2, <3>1, <4>1 DEF Refuse, Stages
    <3>2. CASE result = "error" \/ (result = "allowed" /\ ~request[c].metered)
      BY <2>1, <2>2, <3>2
    <3>3. CASE result = "allowed" /\ request[c].metered
      <4>1. used < Quota
        BY <2>2, <3>3 DEF Check, CheckUnderFault
      <4>. QED  BY <2>0, <2>2, <3>3, <4>1 DEF PassesChecked
    <3>. QED  BY <3>1, <3>2, <3>3 DEF Check, CheckUnderFault
  <2>. QED  BY <1>6, <2>1, <2>2 DEF CheckQuota
<1>7. ASSUME NEW c \in Callers, Authenticate(c) PROVE Spares \/ PassesUnchecked(c)
  <2>1. /\ UNCHANGED used
        /\ \/ Pass(c, "handler") /\ unchecked' = unchecked + 1
           \/ Pass(c, "logging") /\ UNCHANGED unchecked
    BY <1>7 DEF Authenticate, Refuse
  <2>. QED  BY <1>1, <1>3, <2>1 DEF Stages
<1>8. ASSUME NEW c \in Callers, Act(c) PROVE Spends(c)
  <2>1. /\ stage[c] = "handler" /\ used' = used + 1 /\ UNCHANGED unchecked
        /\ Pass(c, "persist") \/ Pass(c, "respond")
    BY <1>8 DEF Act
  <2>. QED  BY <1>0, <2>1 DEF Pass, AtHandler, Spends
<1>9. ASSUME NEW c \in Callers,
             RecordRow(c) \/ RecordEvent(c) \/ Respond(c) \/ Logging(c) \/ logRPC(c)
             \/ Recovery(c) \/ RecoveryRPC(c)
      PROVE  Spares
  <2>1. /\ Pass(c, "publish") \/ Pass(c, "respond") \/ Pass(c, "logging") \/ Pass(c, "client")
        /\ UNCHANGED <<used, unchecked>>
    BY <1>9, Zenon DEF RecordRow, RecordEvent, Respond, Logging, logRPC, Report, Recovery, RecoveryRPC, Panic
  <2>. QED  BY <1>1, <2>1 DEF Stages
<1>10. CASE Limiter \/ Revoke \/ UNCHANGED vars
  <2>1. UNCHANGED <<stage, used, unchecked>>
    BY <1>10 DEF Limiter, Revoke, vars, pipelineVars
  <2>. QED  BY <1>2, <2>1
<1>. QED  BY <1>4, <1>5, <1>6, <1>7, <1>8, <1>9, <1>10, Zenon DEF Next, Serve

LEMMA QuotaKeeps ==
  ASSUME QuotaInv, PipelineTypes, [Next]_vars
  PROVE  QuotaInv'
<1>1. /\ IsFiniteSet(Callers) /\ Cardinality(Callers) \in Nat /\ Cardinality(Callers) # 0
      /\ Quota \in Nat
  BY PipelineAssumption, FS_CardinalityType, FS_EmptySet
<1>2. ASSUME NEW S \in SUBSET Callers
      PROVE  IsFiniteSet(S) /\ Cardinality(S) \in Nat /\ Cardinality(S) <= Cardinality(Callers)
  BY <1>1, FS_Subset, FS_CardinalityType
<1>3. AtHandler \in SUBSET Callers /\ AtHandler' \in SUBSET Callers
  BY DEF AtHandler
<1>4. /\ IsFiniteSet(AtHandler) /\ Cardinality(AtHandler) \in Nat
      /\ Cardinality(AtHandler') \in Nat /\ Cardinality(AtHandler') <= Cardinality(Callers)
  BY <1>2, <1>3
<1>5. CASE Spares
  <2>1. Cardinality(AtHandler') <= Cardinality(AtHandler)
    BY <1>4, <1>5, FS_Subset DEF Spares
  <2>. QED  BY <1>1, <1>4, <1>5, <2>1 DEF QuotaInv, Spares
<1>6. ASSUME NEW c \in Callers, Spends(c) PROVE QuotaInv'
  <2>1. IsFiniteSet(AtHandler \ {c}) /\ Cardinality(AtHandler \ {c}) = Cardinality(AtHandler) - 1
    BY <1>4, <1>6, FS_RemoveElement DEF Spends
  <2>2. Cardinality(AtHandler') <= Cardinality(AtHandler) - 1
    BY <1>6, <2>1, FS_Subset DEF Spends
  <2>. QED  BY <1>1, <1>4, <1>6, <2>2 DEF QuotaInv, Spends
<1>7. ASSUME NEW c \in Callers, PassesUnchecked(c) PROVE QuotaInv'
  <2>1. /\ IsFiniteSet(AtHandler \union {c})
        /\ Cardinality(AtHandler \union {c})
             = IF c \in AtHandler THEN Cardinality(AtHandler) ELSE Cardinality(AtHandler) + 1
    BY <1>4, FS_AddElement
  <2>2. Cardinality(AtHandler') <= Cardinality(AtHandler \union {c})
    BY <1>7, <2>1, FS_Subset DEF PassesUnchecked
  <2>3. Cardinality(AtHandler') <= Cardinality(AtHandler) + 1
    BY <1>4, <2>1, <2>2
  <2>. QED  BY <1>1, <1>4, <1>7, <2>3 DEF QuotaInv, PassesUnchecked
<1>8. CASE PassesChecked
  BY <1>1, <1>4, <1>8 DEF QuotaInv, PassesChecked
<1>. QED  BY <1>5, <1>6, <1>7, <1>8, QuotaKinds

-----------------------------------------------------------------------------
(* The theorems.                                                            *)

\* The inductive invariant: buckets bound admissions, and a request is where the
\* stages behind it allow it to be.
THEOREM Invariance == Spec => []IInv
<1>1. Init => IInv
  BY Starts
<1>2. IInv /\ [Next]_vars => IInv'
  <2>. SUFFICES ASSUME IInv, [Next]_vars PROVE IInv'
    OBVIOUS
  <2>0. PipelineTypes /\ SafetyInv /\ LimiterInv
    BY DEF IInv, SafetyInv
  <2>1. LimiterInv'
    BY <2>0, LimiterOfNext, LimiterKeeps
  <2>2. PipelineTypes'
    BY <2>0, <2>1, TypesInductive DEF LimiterInv
  <2>3. ASSUME NEW c \in Callers, Send(c) \/ Serve(c) \/ Recovery(c) \/ RecoveryRPC(c)
        PROVE  SafetyInv'
    <3>1. CASE Send(c)
      BY <2>0, <2>2, <3>1, SendMoves
    <3>2. CASE Chain(c)
      BY <2>0, <2>2, <3>2, ChainMoves
    <3>3. CASE RequirePermission(c)
      BY <2>0, <2>2, <3>3, PermissionMoves
    <3>4. CASE CheckQuota(c)
      BY <2>0, <2>2, <3>4, QuotaMoves
    <3>5. CASE Authenticate(c)
      BY <2>0, <2>2, <3>5, AuthenticateMoves
    <3>6. CASE Act(c)
      BY <2>0, <2>2, <3>6, ActMoves
    <3>7. CASE RecordRow(c) \/ RecordEvent(c)
      BY <2>0, <2>2, <3>7, RecordMoves
    <3>8. CASE Respond(c) \/ Logging(c) \/ logRPC(c) \/ Recovery(c) \/ RecoveryRPC(c)
      BY <2>0, <2>2, <3>8, EndsMove
    <3>. QED  BY <2>3, <3>1, <3>2, <3>3, <3>4, <3>5, <3>6, <3>7, <3>8 DEF Serve
  <2>4. Limiter \/ Revoke \/ UNCHANGED vars => SafetyInv'
    BY <2>0, QuietKeeps, Zenon
  <2>5. SafetyInv'
    BY <2>3, <2>4, Zenon DEF Next
  <2>. QED  BY <2>1, <2>2, <2>5 DEF IInv, SafetyInv
<1>. QED  BY <1>1, <1>2, PTL DEF Spec

\* Every variable of the chain keeps its type.
THEOREM TypeCorrect == Spec => []TypeOK
<1>1. IInv => TypeOK
  BY DEF IInv, PipelineTypes
<1>. QED  BY <1>1, Invariance, PTL

\* Whatever the rate, the burst, the TTL and the times at which buckets are evicted: no
\* client gets more through than its bucket allows, and a bucket more for each time
\* that it was forgotten early (middleware/ratelimit.go).
THEOREM AdmissionsAreBounded == Spec => []AdmissionsBounded
<1>1. IInv => AdmissionsBounded
  BY DEF IInv, LimiterInv
<1>. QED  BY <1>1, Invariance, PTL

\* What NewRateLimiter would have to ask of its configuration: with a TTL in which a
\* bucket fills nobody is forgotten early, and the burst and the rate alone bound what
\* a client gets through.
THEOREM LongTTLsKeepTheRate ==
  ASSUME TTL * Rate >= Burst
  PROVE  Spec => [](\A ip \in Clients : \A i, j \in DOMAIN admitted[ip] :
           i <= j => j - i + 1 <= Burst + Rate * (admitted[ip][j].at - admitted[ip][i].at))
<1>. DEFINE Never == /\ early = [ip \in Clients |-> 0]
                     /\ \A ip \in Clients : \A i \in DOMAIN admitted[ip] : admitted[ip][i].early = 0
            Bounded == \A ip \in Clients : \A i, j \in DOMAIN admitted[ip] :
              i <= j => j - i + 1 <= Burst + Rate * (admitted[ip][j].at - admitted[ip][i].at)
<1>1. Init => Never
  BY DEF Init, LimiterInit
<1>2. IInv /\ Never /\ [Next]_vars => Never'
  <2>. SUFFICES ASSUME IInv, Never, [Next]_vars PROVE Never'
    OBVIOUS
  <2>1. LimiterStep \/ UNCHANGED limiterVars
    BY LimiterOfNext DEF IInv
  <2>2. LimiterTypeOK
    BY DEF IInv, LimiterInv
  <2>3. early' = early
    BY <2>1, <2>2, LongTTLsCountNothing
  <2>4. ASSUME NEW ip \in Clients, NEW i \in DOMAIN admitted'[ip]
        PROVE  admitted'[ip][i].early = 0
    <3>1. CASE UNCHANGED admitted
      BY <3>1
    <3>2. ASSUME NEW c \in Clients, Admit(c)
          PROVE  admitted'[ip][i].early = 0
      <4>. DEFINE a0 == [at |-> clock, early |-> early[c]]
      <4>1. admitted' = [admitted EXCEPT ![c] = Append(@, a0)] /\ a0.early = 0
        BY <3>2 DEF Admit
      <4>2. admitted \in [Clients -> Seq(Admission)]
        BY <2>2 DEF LimiterTypeOK
      <4>3. a0 \in Admission
        BY <2>2, LimiterAssumption DEF LimiterTypeOK, Admission
      <4>. HIDE DEF a0
      <4>4. CASE c = ip
        <5>1. admitted'[ip] = Append(admitted[ip], a0) /\ admitted[ip] \in Seq(Admission)
          BY <4>1, <4>2, <4>4
        <5>2. i = Len(admitted[ip]) + 1 \/ i \in DOMAIN admitted[ip]
          BY <5>1, <4>3
        <5>3. i \in DOMAIN admitted[ip] => admitted'[ip][i] = admitted[ip][i]
          BY <5>1, <4>3
        <5>4. i = Len(admitted[ip]) + 1 => admitted'[ip][i] = a0
          BY <5>1, <4>3
        <5>. QED  BY <5>2, <5>3, <5>4, <4>1
      <4>5. CASE c # ip
        BY <4>1, <4>2, <4>5
      <4>. QED  BY <4>4, <4>5
    <3>. QED  BY <2>1, <3>1, <3>2 DEF LimiterStep, Tick, evict, TurnAway, limiterVars
  <2>. QED  BY <2>3, <2>4
<1>3. IInv /\ Never => Bounded
  <2>. SUFFICES ASSUME IInv, Never, NEW ip \in Clients, NEW i \in DOMAIN admitted[ip],
                       NEW j \in DOMAIN admitted[ip], i <= j
                PROVE  j - i + 1 <= Burst + Rate * (admitted[ip][j].at - admitted[ip][i].at)
    OBVIOUS
  <2>1. /\ j - i + 1 <= Allowance(admitted[ip][j].early - admitted[ip][i].early,
                                  admitted[ip][j].at - admitted[ip][i].at)
    BY DEF IInv, LimiterInv, AdmissionsBounded
  <2>2. admitted[ip][j].early - admitted[ip][i].early = 0
    BY SMT
  <2>. QED  BY <2>1, <2>2, LimiterAssumption DEF Allowance
<1>. QED  BY <1>1, <1>2, <1>3, Invariance, PTL DEF Spec

\* However many callers there are and whatever fails: who acts has passed every stage,
\* and a request that was refused has done nothing (middleware, interceptor).
THEOREM OnlyAuthorizedCallersAct == Spec => []OnlyAuthorizedActs
<1>1. IInv => OnlyAuthorizedActs
  BY DEF IInv, EffectsCleared, Cleared, CallerInv, Unacted, OnlyAuthorizedActs
<1>. QED  BY <1>1, Invariance, PTL

\* The audit trail names only what was done, and every caller who was told OK is in it,
\* in the table and in the topic or in the one of them that its recorder was given
\* (audit/recorder.go).
THEOREM TrailCanBeTrusted == Spec => []AuditIsTrue
<1>1. IInv => AuditIsTrue
  BY DEF IInv, TrailIsTrue, CallerInv, Trailed, HasRow, HasEvent, InTrail, AuditIsTrue
<1>. QED  BY <1>1, Invariance, PTL

\* The quota is exceeded by the requests that were checked beside one another at most
\* and by those that passed without a check, for every plan and number of callers: the
\* check that only asks (quota/client.go:69) leaves no more room.
THEOREM PlansAreKept == Spec => []OvershootIsBounded
<1>1. Init => QuotaInv
  <2>1. ASSUME Init PROVE AtHandler = {}
    BY <2>1 DEF Init, AtHandler
  <2>2. Cardinality(Callers) \in Nat /\ Cardinality(Callers) # 0
    BY PipelineAssumption, FS_CardinalityType, FS_EmptySet
  <2>. QED  BY <2>1, <2>2, FS_EmptySet, PipelineAssumption DEF Init, QuotaInv
<1>2. IInv /\ QuotaInv /\ [Next]_vars => QuotaInv'
  BY QuotaKeeps DEF IInv
<1>3. QuotaInv => OvershootIsBounded
  <2>1. AtHandler \in SUBSET Callers
    BY DEF AtHandler
  <2>2. Cardinality(AtHandler) \in Nat /\ Cardinality(Callers) \in Nat
    BY <2>1, PipelineAssumption, FS_Subset, FS_CardinalityType
  <2>. QED  BY <2>2, PipelineAssumption DEF QuotaInv, OvershootIsBounded
<1>. QED  BY <1>1, <1>2, <1>3, Invariance, PTL DEF Spec

-----------------------------------------------------------------------------
(* The registry of errors, for every sequence of registrations.             *)

VARIABLES registrations,  \* of package errors
          calls           \* history: the calls of Register

Registering ==
  /\ registrations = <<>> /\ calls = <<>>
  /\ [][\E r \in Registration : /\ registrations' = Register(registrations, r)
                                /\ calls' = Append(calls, r)]_<<registrations, calls>>

\* No entry wraps a later one, as Register replaces the first that wraps the new one;
\* every call is answered by an entry that its sentinel is or wraps; and an entry is
\* what was registered last for its sentinel.
InnerFirst == \A i, j \in DOMAIN registrations : i < j =>
                ~Is(registrations[i].sentinel, registrations[j].sentinel)
Answered == \A n \in DOMAIN calls : \E i \in DOMAIN registrations :
              Is(calls[n].sentinel, registrations[i].sentinel)
Latest(i, n) == /\ registrations[i] = calls[n]
                /\ \A m \in DOMAIN calls :
                     calls[m].sentinel = calls[n].sentinel => m <= n
EntriesAreLatest == \A i \in DOMAIN registrations : \E n \in DOMAIN calls : Latest(i, n)

\* Among any entries there is a first one.
FirstExists == \A I \in SUBSET DOMAIN registrations :
                 I # {} => \E i \in I : \A j \in I : i <= j

RegistryInv ==
  /\ registrations \in Seq(Registration) /\ calls \in Seq(Registration)
  /\ FirstExists /\ InnerFirst /\ Answered /\ EntriesAreLatest

\* Is orders the errors, in chains and in trees.
LEMMA IsOrders ==
  /\ \A e \in Errors : Is(e, e)
  /\ \A e, f, g \in Errors : Is(e, f) /\ Is(f, g) => Is(e, g)
  /\ \A e, f \in Errors : Is(e, f) /\ Is(f, e) => e = f
<1>. DEFINE U == Unwrapped
<1>1. \A e \in Errors : U[e] \in Seq(Errors)
  BY ErrorsAssumption
<1>2. \A e \in Errors : 1 \in DOMAIN U[e] /\ U[e][1] = e
  BY ErrorsAssumption
\* What f wraps are places of e from that of f on.
<1>3. ASSUME NEW e \in Errors, NEW i \in DOMAIN U[e]
      PROVE  /\ U[e][i] \in Errors /\ Len(U[U[e][i]]) <= Len(U[e]) - i + 1
             /\ \A j \in DOMAIN U[U[e][i]] : i + j - 1 \in DOMAIN U[e] /\ U[U[e][i]][j] = U[e][i + j - 1]
  <2>0. U[e][i] \in Errors /\ i \in 1..Len(U[e]) /\ Len(U[e]) \in Nat /\ U[e] \in Seq(Errors)
    BY <1>1
  <2>. DEFINE n == Len(U[U[e][i]])
  <2>1. n \in Nat /\ DOMAIN U[U[e][i]] = 1..n
    BY <2>0, <1>1
  <2>2. i + n - 1 <= Len(U[e]) /\ U[U[e][i]] = SubSeq(U[e], i, i + n - 1)
    BY ErrorsAssumption
  <2>. HIDE DEF n
  <2>3. Len(U[U[e][i]]) <= Len(U[e]) - i + 1
    BY <2>0, <2>1, <2>2 DEF n
  <2>4. ASSUME NEW j \in 1..n
        PROVE  i + j - 1 \in DOMAIN U[e] /\ U[U[e][i]][j] = U[e][i + j - 1]
    <3>. DEFINE s == U[e]  m == i + n - 1
    <3>1. s \in Seq(Errors) /\ m \in Int /\ j \in 1..(m - i + 1) /\ i + j - 1 \in 1..Len(s)
      <4>1. s \in Seq(Errors)
        BY <2>0
      <4>2. m \in Int /\ m - i + 1 = n /\ i + j - 1 \in 1..m
        BY <2>0, <2>1
      <4>3. m <= Len(s)
        BY <2>2
      <4>. QED  BY <4>1, <4>2, <4>3, <2>0
    <3>2. U[U[e][i]] = SubSeq(s, i, m)
      BY <2>2
    <3>. HIDE DEF s, m
    <3>3. SubSeq(s, i, m)[j] = s[i + j - 1]
      BY <2>0, <3>1
    <3>. QED  BY <3>1, <3>2, <3>3 DEF s
  <2>. QED  BY <2>0, <2>1, <2>3, <2>4
<1>. HIDE DEF U
<1>is. \A f : \A e \in Errors : Is(e, f) <=> \E i \in DOMAIN U[e] : U[e][i] = f
  BY DEF Is, U
<1>len. \A e \in Errors : DOMAIN U[e] = 1..Len(U[e]) /\ Len(U[e]) \in Nat
  BY <1>1
<1>4. ASSUME NEW e \in Errors, NEW f \in Errors, NEW g \in Errors, Is(e, f), Is(f, g)
      PROVE  Is(e, g)
  <2>1. PICK i \in DOMAIN U[e] : U[e][i] = f
    BY <1>4, <1>is
  <2>2. PICK j \in DOMAIN U[f] : U[f][j] = g
    BY <1>4, <1>is
  <2>3. i + j - 1 \in DOMAIN U[e] /\ U[e][i + j - 1] = g
    BY <2>1, <2>2, <1>3
  <2>. QED  BY <2>3, <1>is
<1>5. ASSUME NEW e \in Errors, NEW f \in Errors, Is(e, f), Is(f, e)
      PROVE  e = f
  <2>1. PICK i \in DOMAIN U[e] : U[e][i] = f
    BY <1>5, <1>is
  <2>2. PICK j \in DOMAIN U[f] : U[f][j] = e
    BY <1>5, <1>is
  <2>3. Len(U[f]) <= Len(U[e]) - i + 1 /\ Len(U[e]) <= Len(U[f]) - j + 1
    BY <1>3, <2>1, <2>2
  <2>4. i \in Nat /\ j \in Nat /\ i >= 1 /\ j >= 1
    BY <2>1, <2>2, <1>len
  <2>5. i = 1
    BY <2>3, <2>4, <1>len
  <2>. QED  BY <2>1, <2>5, <1>2
<1>. QED  BY <1>2, <1>4, <1>5, <1>is

LEMMA LeastOf ==
  ASSUME NEW I, I \subseteq Nat, NEW i \in I, \A j \in I : i <= j
  PROVE  Min(I) \in I /\ \A j \in I : Min(I) <= j
BY DEF Min

\* What the registry and the history hold.
LEMMA RegistryType ==
  ASSUME RegistryInv
  PROVE  /\ DOMAIN registrations = 1..Len(registrations) /\ Len(registrations) \in Nat
         /\ DOMAIN calls = 1..Len(calls) /\ Len(calls) \in Nat
         /\ \A i \in DOMAIN registrations : registrations[i].sentinel \in Errors
         /\ \A i \in DOMAIN calls : calls[i].sentinel \in Errors
<1>1. registrations \in Seq(Registration) /\ calls \in Seq(Registration)
  BY DEF RegistryInv
<1>2. \A r \in Registration : r.sentinel \in Errors
  BY DEF Registration
<1>3. /\ \A i \in DOMAIN registrations : registrations[i] \in Registration
      /\ \A i \in DOMAIN calls : calls[i] \in Registration
  BY <1>1
<1>. QED  BY <1>1, <1>2, <1>3

\* Register replaces the first entry that wraps the new one, or appends.
LEMMA RegisterReplacesFirst ==
  ASSUME RegistryInv, NEW r \in Registration
  PROVE  \/ /\ \A i \in DOMAIN registrations : ~Is(registrations[i].sentinel, r.sentinel)
            /\ Register(registrations, r) = Append(registrations, r)
         \/ \E i \in DOMAIN registrations :
              /\ Is(registrations[i].sentinel, r.sentinel)
              /\ \A j \in DOMAIN registrations :
                   j < i => ~Is(registrations[j].sentinel, r.sentinel)
              /\ Register(registrations, r) = [registrations EXCEPT ![i] = r]
<1>. DEFINE I == {i \in 1..Len(registrations) : Is(registrations[i].sentinel, r.sentinel)}
            i == IF I # {} THEN Min(I) ELSE 0
<1>0. DOMAIN registrations = 1..Len(registrations) /\ Len(registrations) \in Nat
  BY DEF RegistryInv
<1>1. Register(registrations, r) =
        IF i = 0 THEN Append(registrations, r) ELSE [registrations EXCEPT ![i] = r]
  BY DEF Register, SelectInSeq
<1>2. CASE I = {}
  BY <1>0, <1>1, <1>2
<1>3. CASE I # {}
  <2>1. PICK k \in I : \A j \in I : k <= j
    BY <1>0, <1>3 DEF RegistryInv, FirstExists
  <2>2. I \subseteq Nat
    BY <1>0
  <2>. HIDE DEF I
  <2>3. Min(I) \in I /\ \A j \in I : Min(I) <= j
    BY <2>1, <2>2, LeastOf
  <2>4. i \in I /\ \A j \in I : i <= j
    BY <1>3, <2>3
  <2>. HIDE DEF i
  <2>5. i \in DOMAIN registrations /\ i # 0 /\ Is(registrations[i].sentinel, r.sentinel)
    BY <2>4, <1>0 DEF I
  <2>6. \A j \in DOMAIN registrations : j < i => ~Is(registrations[j].sentinel, r.sentinel)
    BY <2>4, <1>0 DEF I
  <2>. QED  BY <1>1, <2>5, <2>6
<1>. QED  BY <1>2, <1>3

\* ToHTTP and ToGRPC take the first entry that matches.
LEMMA CodesAreOfFirst ==
  ASSUME RegistryInv, NEW err \in Errors, ~HasOwn(err)
  PROVE  \/ /\ \A i \in DOMAIN registrations : ~Is(err, registrations[i].sentinel)
            /\ CodesOf(registrations, err) = InternalCodes
         \/ \E i \in DOMAIN registrations :
              /\ Is(err, registrations[i].sentinel)
              /\ \A j \in DOMAIN registrations : j < i => ~Is(err, registrations[j].sentinel)
              /\ CodesOf(registrations, err) = registrations[i].codes
<1>. DEFINE O == {i \in 1..Len(Unwrapped[err]) : Unwrapped[err][i] \in DOMAIN Own}
            own == IF O # {} THEN Min(O) ELSE 0
            I == {i \in 1..Len(registrations) : Is(err, registrations[i].sentinel)}
            i == IF I # {} THEN Min(I) ELSE 0
<1>0. DOMAIN registrations = 1..Len(registrations) /\ Len(registrations) \in Nat
  BY DEF RegistryInv
<1>1. O = {}
  BY ErrorsAssumption DEF HasOwn
<1>2. CodesOf(registrations, err) =
        CASE own # 0          -> Own[Unwrapped[err][own]]
          [] own = 0 /\ i # 0 -> registrations[i].codes
          [] OTHER            -> InternalCodes
  BY DEF CodesOf, SelectInSeq
<1>3. own = 0
  BY <1>1
<1>. HIDE DEF own
<1>4. CodesOf(registrations, err) = IF i # 0 THEN registrations[i].codes ELSE InternalCodes
  BY <1>2, <1>3
<1>5. CASE I = {}
  BY <1>0, <1>4, <1>5
<1>6. CASE I # {}
  <2>1. PICK k \in I : \A j \in I : k <= j
    BY <1>0, <1>6 DEF RegistryInv, FirstExists
  <2>2. I \subseteq Nat
    BY <1>0
  <2>. HIDE DEF I
  <2>3. Min(I) \in I /\ \A j \in I : Min(I) <= j
    BY <2>1, <2>2, LeastOf
  <2>4. i \in I /\ \A j \in I : i <= j
    BY <1>6, <2>3
  <2>. HIDE DEF i
  <2>5. i \in DOMAIN registrations /\ i # 0 /\ Is(err, registrations[i].sentinel)
    BY <2>4, <1>0 DEF I
  <2>6. \A j \in DOMAIN registrations : j < i => ~Is(err, registrations[j].sentinel)
    BY <2>4, <1>0 DEF I
  <2>. QED  BY <1>4, <2>5, <2>6
<1>. QED  BY <1>5, <1>6

\* A call of Register keeps the order of the entries.
LEMMA RegisterInv ==
  ASSUME RegistryInv, NEW r \in Registration,
         registrations' = Register(registrations, r), calls' = Append(calls, r)
  PROVE  RegistryInv'
<1>. DEFINE n == Len(registrations)  m == Len(calls)
<1>0. /\ registrations \in Seq(Registration) /\ calls \in Seq(Registration)
      /\ DOMAIN registrations = 1..n /\ n \in Nat /\ DOMAIN calls = 1..m /\ m \in Nat
      /\ r.sentinel \in Errors
      /\ \A i \in DOMAIN registrations : registrations[i].sentinel \in Errors
      /\ \A i \in DOMAIN calls : calls[i].sentinel \in Errors
  <2>1. r.sentinel \in Errors
    BY DEF Registration
  <2>. QED  BY <2>1, RegistryType DEF RegistryInv
<1>1. /\ calls' \in Seq(Registration) /\ DOMAIN calls' = 1..(m + 1) /\ calls'[m + 1] = r
      /\ \A i \in DOMAIN calls : i <= m /\ calls'[i] = calls[i]
  BY <1>0
\* Entry i' is an old one of another sentinel, or the new one.
<1>2. ASSUME NEW k \in DOMAIN registrations', registrations' \in Seq(Registration),
             registrations'[k] = r
      PROVE  \E c \in DOMAIN calls' : Latest(k, c)'
  BY <1>0, <1>1, <1>2 DEF Latest
<1>3. ASSUME NEW k \in DOMAIN registrations', k \in DOMAIN registrations,
             registrations'[k] = registrations[k], registrations[k].sentinel # r.sentinel
      PROVE  \E c \in DOMAIN calls' : Latest(k, c)'
  <2>1. PICK c \in DOMAIN calls : Latest(k, c)
    BY <1>3 DEF RegistryInv, EntriesAreLatest
  <2>2. c \in DOMAIN calls' /\ calls'[c] = calls[c]
    BY <1>0, <1>1
  <2>3. ASSUME NEW d \in DOMAIN calls', calls'[d].sentinel = calls'[c].sentinel
        PROVE  d <= c
    <3>1. d # m + 1
      BY <1>1, <1>3, <2>1, <2>2, <2>3 DEF Latest
    <3>2. d \in DOMAIN calls /\ calls'[d] = calls[d]
      BY <3>1, <1>0, <1>1
    <3>. QED  BY <2>1, <2>2, <2>3, <3>2 DEF Latest
  <2>. QED  BY <1>3, <2>1, <2>2, <2>3 DEF Latest
<1>4. CASE /\ \A i \in DOMAIN registrations : ~Is(registrations[i].sentinel, r.sentinel)
           /\ registrations' = Append(registrations, r)
  <2>1. /\ registrations' \in Seq(Registration) /\ DOMAIN registrations' = 1..(n + 1)
        /\ registrations'[n + 1] = r
        /\ \A i \in DOMAIN registrations : i \in DOMAIN registrations' /\ registrations'[i] = registrations[i]
    BY <1>0, <1>4
  <2>2. FirstExists'
    <3>. SUFFICES ASSUME NEW I \in SUBSET DOMAIN registrations', I # {}
                  PROVE  \E i \in I : \A j \in I : i <= j
      BY DEF FirstExists
    <3>1. CASE I \subseteq {n + 1}
      BY <3>1, <1>0
    <3>2. CASE ~(I \subseteq {n + 1})
      <4>1. I \ {n + 1} \in SUBSET DOMAIN registrations /\ I \ {n + 1} # {}
        BY <3>2, <2>1, <1>0
      <4>2. PICK i \in I \ {n + 1} : \A j \in I \ {n + 1} : i <= j
        BY <4>1 DEF RegistryInv, FirstExists
      <4>. QED  BY <4>1, <4>2, <1>0
    <3>. QED  BY <3>1, <3>2
  <2>3. InnerFirst'
    <3>. SUFFICES ASSUME NEW i \in DOMAIN registrations', NEW j \in DOMAIN registrations', i < j
                  PROVE  ~Is(registrations'[i].sentinel, registrations'[j].sentinel)
      BY DEF InnerFirst, Is
    <3>1. i \in DOMAIN registrations /\ registrations'[i] = registrations[i]
      BY <2>1, <1>0
    <3>2. CASE j = n + 1
      BY <3>1, <3>2, <2>1, <1>4
    <3>3. CASE j # n + 1
      BY <3>1, <3>3, <2>1, <1>0 DEF RegistryInv, InnerFirst
    <3>. QED  BY <3>2, <3>3
  <2>4. Answered'
    <3>. SUFFICES ASSUME NEW c \in DOMAIN calls'
                  PROVE  \E i \in DOMAIN registrations' :
                           Is(calls'[c].sentinel, registrations'[i].sentinel)
      BY DEF Answered, Is
    <3>1. CASE c = m + 1
      BY <3>1, <1>0, <1>1, <2>1, IsOrders
    <3>2. CASE c # m + 1
      <4>1. c \in DOMAIN calls /\ calls'[c] = calls[c]
        BY <3>2, <1>0, <1>1
      <4>. QED  BY <4>1, <2>1 DEF RegistryInv, Answered
    <3>. QED  BY <3>1, <3>2
  <2>5. EntriesAreLatest'
    <3>. SUFFICES ASSUME NEW k \in DOMAIN registrations'
                  PROVE  \E c \in DOMAIN calls' : Latest(k, c)'
      BY DEF EntriesAreLatest
    <3>1. CASE k = n + 1
      BY <3>1, <2>1, <1>2
    <3>2. CASE k # n + 1
      <4>1. k \in DOMAIN registrations /\ registrations'[k] = registrations[k]
        BY <3>2, <2>1, <1>0
      <4>2. registrations[k].sentinel # r.sentinel
        BY <4>1, <1>4, <1>0, IsOrders
      <4>. QED  BY <4>1, <4>2, <1>3
    <3>. QED  BY <3>1, <3>2
  <2>. QED  BY <1>1, <2>1, <2>2, <2>3, <2>4, <2>5 DEF RegistryInv
<1>5. ASSUME NEW p \in DOMAIN registrations, Is(registrations[p].sentinel, r.sentinel),
             \A j \in DOMAIN registrations : j < p => ~Is(registrations[j].sentinel, r.sentinel),
             registrations' = [registrations EXCEPT ![p] = r]
      PROVE  RegistryInv'
  <2>1. /\ registrations' \in Seq(Registration) /\ DOMAIN registrations' = DOMAIN registrations
        /\ registrations'[p] = r
        /\ \A i \in DOMAIN registrations : i # p => registrations'[i] = registrations[i]
    BY <1>0, <1>5
  <2>2. FirstExists'
    BY <2>1 DEF RegistryInv, FirstExists
  \* What the entry of before did not wrap, the new one does not wrap either.
  <2>3. \A j \in DOMAIN registrations : p < j => ~Is(r.sentinel, registrations[j].sentinel)
    BY <1>0, <1>5, IsOrders DEF RegistryInv, InnerFirst
  <2>4. InnerFirst'
    <3>. SUFFICES ASSUME NEW i \in DOMAIN registrations', NEW j \in DOMAIN registrations', i < j
                  PROVE  ~Is(registrations'[i].sentinel, registrations'[j].sentinel)
      BY DEF InnerFirst, Is
    <3>. i \in DOMAIN registrations /\ j \in DOMAIN registrations
      BY <2>1
    <3>1. CASE i = p
      BY <3>1, <2>1, <2>3, <1>0
    <3>2. CASE j = p
      BY <3>2, <2>1, <1>5, <1>0
    <3>3. CASE i # p /\ j # p
      BY <3>3, <2>1 DEF RegistryInv, InnerFirst
    <3>. QED  BY <3>1, <3>2, <3>3
  <2>5. Answered'
    <3>. SUFFICES ASSUME NEW c \in DOMAIN calls'
                  PROVE  \E i \in DOMAIN registrations' :
                           Is(calls'[c].sentinel, registrations'[i].sentinel)
      BY DEF Answered, Is
    <3>1. CASE c = m + 1
      BY <3>1, <1>0, <1>1, <2>1, IsOrders
    <3>2. CASE c # m + 1
      <4>1. c \in DOMAIN calls /\ calls'[c] = calls[c]
        BY <3>2, <1>0, <1>1
      <4>2. PICK i \in DOMAIN registrations : Is(calls[c].sentinel, registrations[i].sentinel)
        BY <4>1 DEF RegistryInv, Answered
      <4>3. i = p => Is(calls[c].sentinel, r.sentinel)
        BY <4>1, <4>2, <1>0, <1>5, IsOrders
      <4>. QED  BY <4>1, <4>2, <4>3, <2>1
    <3>. QED  BY <3>1, <3>2
  <2>6. EntriesAreLatest'
    <3>. SUFFICES ASSUME NEW k \in DOMAIN registrations'
                  PROVE  \E c \in DOMAIN calls' : Latest(k, c)'
      BY DEF EntriesAreLatest
    <3>1. CASE k = p
      BY <3>1, <2>1, <1>2
    <3>2. CASE k # p
      <4>1. k \in DOMAIN registrations /\ registrations'[k] = registrations[k]
        BY <3>2, <2>1
      <4>2. registrations[k].sentinel # r.sentinel
        <5>1. CASE k < p
          BY <5>1, <4>1, <1>5, <1>0, IsOrders
        <5>2. CASE p < k
          BY <5>2, <4>1, <2>3, <1>0, IsOrders
        <5>. QED  BY <5>1, <5>2, <3>2, <4>1, <1>0
      <4>. QED  BY <4>1, <4>2, <1>3
    <3>. QED  BY <3>1, <3>2
  <2>. QED  BY <1>1, <2>1, <2>2, <2>4, <2>5, <2>6 DEF RegistryInv
<1>. QED  BY <1>4, <1>5, RegisterReplacesFirst

\* An innermost one of the registered errors in it answers for an error, with the
\* codes that it was given last: for every tree of wrapped and joined errors and every
\* sequence of registrations (errors.go:64-146).
THEOREM InnermostErrorAnswers ==
  Registering => [](\A err \in Errors :
                      ~HasOwn(err) => InnermostAnswersFor(registrations, calls, err))
<1>. DEFINE Answers == \A err \in Errors :
                         ~HasOwn(err) => InnermostAnswersFor(registrations, calls, err)
            Step == \E r \in Registration : /\ registrations' = Register(registrations, r)
                                            /\ calls' = Append(calls, r)
<1>1. registrations = <<>> /\ calls = <<>> => RegistryInv
  BY DEF RegistryInv, FirstExists, InnerFirst, Answered, EntriesAreLatest
<1>2. RegistryInv /\ [Step]_<<registrations, calls>> => RegistryInv'
  <2>1. CASE Step
    BY <2>1, RegisterInv
  <2>2. RegistryInv /\ UNCHANGED <<registrations, calls>> => RegistryInv'
    <3>. SUFFICES ASSUME RegistryInv, registrations' = registrations, calls' = calls
                  PROVE  RegistryInv'
      OBVIOUS
    <3>1. FirstExists' /\ InnerFirst'
      BY DEF RegistryInv, FirstExists, InnerFirst, Is
    <3>2. Answered' /\ EntriesAreLatest'
      BY DEF RegistryInv, Answered, EntriesAreLatest, Latest, Is
    <3>. QED  BY <3>1, <3>2 DEF RegistryInv
  <2>. QED  BY <2>1, <2>2
<1>3. RegistryInv => Answers
  <2>. SUFFICES ASSUME RegistryInv, NEW err \in Errors, ~HasOwn(err)
                PROVE  InnermostAnswersFor(registrations, calls, err)
    OBVIOUS
  <2>0. /\ \A i \in DOMAIN registrations : registrations[i].sentinel \in Errors
        /\ \A i \in DOMAIN calls : calls[i].sentinel \in Errors
        /\ DOMAIN calls \subseteq Nat
        /\ DOMAIN registrations = 1..Len(registrations) /\ Len(registrations) \in Nat
    BY RegistryType
  <2>1. CASE /\ \A i \in DOMAIN registrations : ~Is(err, registrations[i].sentinel)
             /\ CodesOf(registrations, err) = InternalCodes
    <3>1. Known(calls, err) = {}
      <4>. SUFFICES ASSUME NEW c \in DOMAIN calls, Is(err, calls[c].sentinel) PROVE FALSE
        BY DEF Known
      <4>1. PICK i \in DOMAIN registrations : Is(calls[c].sentinel, registrations[i].sentinel)
        BY DEF RegistryInv, Answered
      <4>. QED  BY <2>0, <2>1, <4>1, IsOrders
    <3>. QED  BY <2>1, <3>1 DEF InnermostAnswersFor
  <2>2. ASSUME NEW i \in DOMAIN registrations, Is(err, registrations[i].sentinel),
               \A j \in DOMAIN registrations : j < i => ~Is(err, registrations[j].sentinel),
               CodesOf(registrations, err) = registrations[i].codes
        PROVE  InnermostAnswersFor(registrations, calls, err)
    <3>1. PICK n \in DOMAIN calls : Latest(i, n)
      BY DEF RegistryInv, EntriesAreLatest
    <3>2. n \in Known(calls, err)
      BY <3>1, <2>2 DEF Known, Latest
    \* What it wraps and is known is answered by an entry, which cannot be a later one.
    <3>3. ASSUME NEW c \in Known(calls, err), Is(calls[n].sentinel, calls[c].sentinel)
          PROVE  calls[c].sentinel = calls[n].sentinel
      <4>1. c \in DOMAIN calls /\ calls[c].sentinel \in Errors /\ calls[n].sentinel \in Errors
              /\ calls[n] = registrations[i]
        BY <2>0, <3>1 DEF Known, Latest
      <4>2. PICK j \in DOMAIN registrations : Is(calls[c].sentinel, registrations[j].sentinel)
        BY <4>1 DEF RegistryInv, Answered
      <4>3. Is(registrations[i].sentinel, registrations[j].sentinel)
        BY <3>3, <4>1, <4>2, <2>0, IsOrders
      <4>4. Is(err, registrations[j].sentinel)
        BY <4>3, <2>2, <2>0, IsOrders
      <4>5. ~(j < i)
        BY <4>4, <2>2
      <4>6. ~(i < j)
        BY <4>3, <2>2 DEF RegistryInv, InnerFirst
      <4>7. i = j
        BY <4>5, <4>6, <2>0, <2>2
      <4>. QED  BY <4>1, <4>2, <4>7, <3>3, IsOrders
    <3>4. n \in Innermost(calls, err)
      BY <3>2, <3>3 DEF Innermost
    <3>5. IsLatest(calls, n) /\ CodesOf(registrations, err) = calls[n].codes
      BY <3>1, <2>2 DEF IsLatest, Latest
    <3>6. Known(calls, err) # {}
      BY <3>2
    <3>. QED  BY <3>4, <3>5, <3>6 DEF InnermostAnswersFor
  <2>. QED  BY <2>1, <2>2, CodesAreOfFirst
<1>. QED  BY <1>1, <1>2, <1>3, PTL DEF Registering

-----------------------------------------------------------------------------
(* The probes of the same service, for every number of probes and checkers. *)

CONSTANTS Probes, Checks, Obedient, Services, MaxChanges, MaxPanics

VARIABLES dependency, kind, deadline, done, results, verdict, serving, wasUp, wasBad,
          changes, panics

Health == INSTANCE HealthChecks WITH answer <- verdict

\* A dependency has been what it is now since the probe came, and so has what its
\* checker reports, unless the context is done.
Witnessed(p, c) ==
  IF dependency[c] = "up" THEN c \in wasUp[p] ELSE c \in wasBad[p]

Reported(p, c) ==
  \/ results[p][c] = None
  \/ results[p][c] = "up" /\ c \in wasUp[p]
  \/ results[p][c] = "down" /\ (wasBad[p] # {} \/ done[p])

Checking(p) == kind[p] \in {"ready", "overall"}

HealthTypeOK ==
  /\ dependency \in [Checks -> {"up", "down", "hangs"}]
  /\ kind \in [Probes -> {None, "ready", "overall"}]
  /\ results \in [Probes -> [Checks -> {None, "up", "down"}]]
  /\ done \in [Probes -> BOOLEAN]
  /\ wasUp \in [Probes -> SUBSET Checks] /\ wasBad \in [Probes -> SUBSET Checks]

Statuses == {None, "SERVING", "NOT_SERVING"}

VerdictTypeOK ==
  /\ verdict \in [Probes -> {"alive", "up", "down", "lost", "not found"} \union Statuses]
  /\ serving \in [Services -> Statuses]

HealthInv ==
  /\ HealthTypeOK
  /\ \A p \in Probes : Checking(p) => \A c \in Checks : Witnessed(p, c) /\ Reported(p, c)

LEMMA HealthStarts ==
  ASSUME Health!Init, None \notin {"ready", "overall"}
  PROVE  HealthInv
<1>1. HealthTypeOK
  BY DEF Health!Init, Health!Nothing, HealthTypeOK
<1>2. \A p \in Probes : Checking(p) => \A c \in Checks : Witnessed(p, c) /\ Reported(p, c)
  BY DEF Health!Init, Health!Up, Health!Nothing, Checking, Witnessed, Reported
<1>. QED  BY <1>1, <1>2 DEF HealthInv

\* One probe moves, the others and the dependencies stay.
LEMMA ProbeMoves ==
  ASSUME HealthInv, NEW p \in Probes, HealthTypeOK', UNCHANGED dependency,
         \A q \in Probes \ {p} : /\ kind'[q] = kind[q] /\ results'[q] = results[q]
                                 /\ done'[q] = done[q]
                                 /\ wasUp'[q] = wasUp[q] /\ wasBad'[q] = wasBad[q],
         Checking(p)' => \A c \in Checks : Witnessed(p, c)' /\ Reported(p, c)'
  PROVE  HealthInv'
<1>1. ASSUME NEW q \in Probes \ {p}, Checking(q)', NEW c \in Checks
      PROVE  Witnessed(q, c)' /\ Reported(q, c)'
  BY <1>1 DEF HealthInv, Checking, Witnessed, Reported
<1>. QED  BY <1>1 DEF HealthInv

LEMMA VerdictTypeStep ==
  ASSUME VerdictTypeOK, [Health!Next]_Health!vars
  PROVE  VerdictTypeOK'
<1>. USE DEF VerdictTypeOK, Statuses
<1>1. ASSUME NEW p \in Probes, Health!handleReady(p) \/ Health!checkOverall(p)
      PROVE  VerdictTypeOK'
  BY <1>1 DEF Health!handleReady, Health!checkOverall, Health!StartChecks
<1>2. ASSUME NEW p \in Probes, Health!handleHealth(p) \/ Health!CheckNamed(p)
      PROVE  VerdictTypeOK'
  <2>1. PICK a \in {"alive", "not found"} \union Statuses : Health!AnswerAtOnce(p, a)
    BY <1>2 DEF Health!handleHealth, Health!CheckNamed
  <2>. QED  BY <2>1 DEF Health!AnswerAtOnce
<1>3. ASSUME NEW p \in Probes, Health!Answer(p)
      PROVE  VerdictTypeOK'
  BY <1>3 DEF Health!Answer
<1>4. CASE Health!Crash
  BY <1>4 DEF Health!Crash
<1>5. ASSUME NEW s \in Services, NEW status \in {"SERVING", "NOT_SERVING"},
             Health!SetServingStatus(s, status)
      PROVE  VerdictTypeOK'
  BY <1>5 DEF Health!SetServingStatus, Health!probeVars
<1>6. CASE \/ UNCHANGED Health!vars \/ Health!Change
           \/ \E p \in Probes : \/ Health!Timeout(p) \/ Health!ClientGone(p)
                              \/ \E c \in Checks : Health!CheckerReturns(p, c)
  BY <1>6 DEF Health!vars, Health!probeVars, Health!Change, Health!Timeout, Health!ClientGone,
     Health!CheckerReturns
<1>. QED  BY <1>1, <1>2, <1>3, <1>4, <1>5, <1>6 DEF Health!Next

LEMMA HealthStep ==
  ASSUME HealthInv, [Health!Next]_Health!vars, None \notin {"ready", "overall"}
  PROVE  HealthInv'
<1>. USE DEF HealthTypeOK
<1>t. HealthTypeOK
  BY DEF HealthInv
<1>1. ASSUME NEW p \in Probes, Health!handleReady(p) \/ Health!checkOverall(p)
      PROVE  HealthInv'
  <2>1. PICK k \in {"ready", "overall"}, timeout \in BOOLEAN : Health!StartChecks(p, k, timeout)
    BY <1>1 DEF Health!handleReady, Health!checkOverall
  <2>2. /\ UNCHANGED dependency
        /\ kind' = [kind EXCEPT ![p] = k] /\ done' = [done EXCEPT ![p] = FALSE]
        /\ results' = [results EXCEPT ![p] = [c \in Checks |-> None]]
        /\ wasUp' = [wasUp EXCEPT ![p] = {c \in Checks : dependency[c] = "up"}]
        /\ wasBad' = [wasBad EXCEPT ![p] = Checks \ {c \in Checks : dependency[c] = "up"}]
    BY <2>1 DEF Health!StartChecks, Health!Nothing, Health!Up
  <2>3. HealthTypeOK'
    BY <2>2, <1>t
  <2>4. \A c \in Checks : Witnessed(p, c)' /\ Reported(p, c)'
    BY <2>2, <1>t DEF Witnessed, Reported
  <2>. QED  BY <2>2, <2>3, <2>4, <1>t, ProbeMoves
<1>2. ASSUME NEW p \in Probes, Health!handleHealth(p) \/ Health!CheckNamed(p)
      PROVE  HealthInv'
  <2>1. UNCHANGED <<dependency, kind, results, done, wasUp, wasBad>>
    BY <1>2 DEF Health!handleHealth, Health!CheckNamed, Health!AnswerAtOnce
  <2>. QED  BY <2>1 DEF HealthInv, Checking, Witnessed, Reported
<1>3. ASSUME NEW p \in Probes, Health!Timeout(p) \/ Health!ClientGone(p)
      PROVE  HealthInv'
  <2>1. /\ UNCHANGED <<dependency, kind, results, wasUp, wasBad>>
        /\ done' = [done EXCEPT ![p] = TRUE]
    BY <1>3 DEF Health!Timeout, Health!ClientGone
  <2>2. HealthTypeOK'
    BY <2>1, <1>t
  <2>3. Checking(p)' => \A c \in Checks : Witnessed(p, c)' /\ Reported(p, c)'
    BY <2>1, <1>t DEF HealthInv, Checking, Witnessed, Reported
  <2>. QED  BY <2>1, <2>2, <2>3, <1>t, ProbeMoves
<1>4. ASSUME NEW p \in Probes, Health!Answer(p)
      PROVE  HealthInv'
  <2>1. /\ UNCHANGED dependency
        /\ kind' = [kind EXCEPT ![p] = None] /\ done' = [done EXCEPT ![p] = FALSE]
        /\ results' = [results EXCEPT ![p] = [c \in Checks |-> None]]
        /\ wasUp' = [wasUp EXCEPT ![p] = {}] /\ wasBad' = [wasBad EXCEPT ![p] = {}]
    BY <1>4 DEF Health!Answer, Health!Nothing
  <2>2. HealthTypeOK'
    BY <2>1, <1>t
  <2>3. ~Checking(p)'
    BY <2>1, <1>t DEF Checking
  <2>. QED  BY <2>1, <2>2, <2>3, <1>t, ProbeMoves
<1>5. ASSUME NEW p \in Probes, NEW c \in Checks, Health!CheckerReturns(p, c)
      PROVE  HealthInv'
  <2>1. /\ UNCHANGED <<dependency, kind, done, wasUp, wasBad>> /\ Checking(p)
        /\ \/ dependency[c] # "hangs" /\ results' = [results EXCEPT ![p][c] = dependency[c]]
           \/ done[p] /\ results' = [results EXCEPT ![p][c] = "down"]
    BY <1>5 DEF Health!CheckerReturns, Health!IsCancelled, Health!isChecking, Checking
  <2>2. HealthTypeOK'
    BY <2>1, <1>t
  <2>3. ASSUME NEW d \in Checks PROVE Witnessed(p, d)' /\ Reported(p, d)'
    <3>1. Witnessed(p, d) /\ Reported(p, d) /\ Witnessed(p, c)
      BY <2>1 DEF HealthInv
    <3>2. Witnessed(p, d)'
      BY <3>1, <2>1 DEF Witnessed
    <3>3. CASE d # c
      BY <3>1, <3>2, <3>3, <2>1, <1>t DEF Reported
    <3>4. CASE d = c
      BY <3>1, <3>2, <3>4, <2>1, <1>t DEF Reported, Witnessed
    <3>. QED  BY <3>3, <3>4
  <2>. QED  BY <2>1, <2>2, <2>3, <1>t, ProbeMoves
<1>6. CASE Health!Change
  <2>1. PICK c \in Checks, state \in {"up", "down", "hangs"} :
          /\ dependency' = [dependency EXCEPT ![c] = state]
          /\ IF state = "up"
             THEN /\ wasUp' = [p \in Probes |-> IF Checking(p) THEN wasUp[p] \union {c} ELSE {}]
                  /\ UNCHANGED wasBad
             ELSE /\ wasBad' = [p \in Probes |-> IF Checking(p) THEN wasBad[p] \union {c} ELSE {}]
                  /\ UNCHANGED wasUp
    BY <1>6 DEF Health!Change, Health!isChecking, Checking
  <2>2. UNCHANGED <<kind, results, done>>
    BY <1>6 DEF Health!Change
  <2>3. HealthTypeOK'
    <3>1. wasUp' \in [Probes -> SUBSET Checks] /\ wasBad' \in [Probes -> SUBSET Checks]
      <4>1. CASE state = "up"
        BY <2>1, <4>1, <1>t
      <4>2. CASE state # "up"
        BY <2>1, <4>2, <1>t
      <4>. QED  BY <4>1, <4>2
    <3>2. dependency' \in [Checks -> {"up", "down", "hangs"}]
      BY <2>1, <1>t
    <3>. QED  BY <3>1, <3>2, <2>2, <1>t
  <2>4. ASSUME NEW p \in Probes, Checking(p)', NEW d \in Checks
        PROVE  Witnessed(p, d)' /\ Reported(p, d)'
    <3>1. Checking(p) /\ Witnessed(p, d) /\ Reported(p, d)
      BY <2>2, <2>4 DEF HealthInv, Checking
    <3>2. wasUp[p] \subseteq wasUp'[p] /\ wasBad[p] \subseteq wasBad'[p]
      BY <2>1, <3>1, <1>t
    <3>3. Witnessed(p, d)'
      BY <2>1, <3>1, <3>2, <1>t DEF Witnessed
    <3>4. Reported(p, d)'
      BY <2>2, <3>1, <3>2 DEF Reported
    <3>. QED  BY <3>3, <3>4
  <2>. QED  BY <2>3, <2>4 DEF HealthInv
<1>7. CASE Health!Crash
  <2>1. /\ UNCHANGED dependency
        /\ kind' = [p \in Probes |-> None] /\ done' = [p \in Probes |-> FALSE]
        /\ results' = [p \in Probes |-> [c \in Checks |-> None]]
        /\ wasUp' = [p \in Probes |-> {}] /\ wasBad' = [p \in Probes |-> {}]
    BY <1>7 DEF Health!Crash, Health!Nothing
  <2>2. HealthTypeOK' /\ \A p \in Probes : ~Checking(p)'
    BY <2>1, <1>t DEF Checking
  <2>. QED  BY <2>2 DEF HealthInv
<1>8. CASE \/ UNCHANGED Health!vars
           \/ \E s \in Services, status \in {"SERVING", "NOT_SERVING"} : Health!SetServingStatus(s, status)
  <2>1. UNCHANGED <<dependency, kind, results, done, wasUp, wasBad>>
    BY <1>8 DEF Health!vars, Health!probeVars, Health!SetServingStatus
  <2>. QED  BY <2>1 DEF HealthInv, Checking, Witnessed, Reported
<1>. QED  BY <1>1, <1>2, <1>3, <1>4, <1>5, <1>6, <1>7, <1>8 DEF Health!Next

\* Every verdict is about the time of its probe, for every number of probes and of
\* dependencies that fail, hang and recover meanwhile.
THEOREM VerdictsAreHonest ==
  ASSUME None \notin {"ready", "overall"}
  PROVE  Health!Spec => Health!VerdictIsHonest
<1>. DEFINE Honest ==
       \A p \in Probes : Health!isChecking(p) /\ ~Health!isChecking(p)' =>
         /\ verdict'[p] = "up" => wasUp[p] = Checks
         /\ verdict'[p] = "down" => wasBad[p] # {} \/ done[p]
<1>1. HealthInv /\ VerdictTypeOK /\ [Health!Next]_Health!vars => [Honest]_Health!vars
  <2>. SUFFICES ASSUME HealthInv, VerdictTypeOK, Health!Next, NEW p \in Probes,
                       Checking(p), ~Checking(p)'
                PROVE  /\ verdict'[p] = "up" => wasUp[p] = Checks
                       /\ verdict'[p] = "down" => wasBad[p] # {} \/ done[p]
    BY DEF Health!isChecking, Checking
  <2>t. HealthTypeOK
    BY DEF HealthInv
  <2>1. CASE Health!Answer(p)
    <3>1. \A c \in Checks : Witnessed(p, c) /\ Reported(p, c) /\ results[p][c] # None
      BY <2>1 DEF HealthInv, Health!Answer, Health!AllReturned
    <3>2. verdict'[p] = IF \E c \in Checks : results[p][c] = "down" THEN "down" ELSE "up"
      BY <2>1 DEF Health!Answer, VerdictTypeOK
    <3>. QED  BY <3>1, <3>2, <2>t DEF Reported, HealthTypeOK
  <2>2. CASE Health!Crash
    BY <2>2 DEF Health!Crash, Health!isChecking, Checking
  <2>3. CASE \E q \in Probes : q # p /\ Health!Answer(q)
    BY <2>3, <2>t DEF Health!Answer, HealthTypeOK, Checking
  <2>4. CASE \E q \in Probes : Health!handleReady(q) \/ Health!checkOverall(q)
    BY <2>4, <2>t DEF Health!handleReady, Health!checkOverall, Health!StartChecks, HealthTypeOK, Checking
  <2>5. CASE ~(\/ \E q \in Probes : \/ Health!Answer(q)
                                    \/ Health!handleReady(q) \/ Health!checkOverall(q)
               \/ Health!Crash)
    <3>1. UNCHANGED kind
      BY <2>5 DEF Health!Next, Health!handleHealth, Health!CheckNamed, Health!AnswerAtOnce,
         Health!Timeout, Health!ClientGone, Health!CheckerReturns, Health!SetServingStatus,
         Health!probeVars, Health!Change
    <3>. QED  BY <3>1 DEF Checking
  <2>. QED  BY <2>1, <2>2, <2>3, <2>4, <2>5
<1>2. HealthInv /\ [Health!Next]_Health!vars => HealthInv'
  BY HealthStep
<1>3. Health!Init => HealthInv
  BY HealthStarts
<1>4. VerdictTypeOK /\ [Health!Next]_Health!vars => VerdictTypeOK'
  BY VerdictTypeStep
<1>5. Health!Init => VerdictTypeOK
  BY DEF Health!Init, VerdictTypeOK, Statuses
<1>. QED  BY <1>1, <1>2, <1>3, <1>4, <1>5, PTL DEF Health!Spec, Health!VerdictIsHonest
=============================================================================
